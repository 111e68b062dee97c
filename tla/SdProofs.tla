------------------------------ MODULE SdProofs ------------------------------
(***************************************************************************)
(* Proofs about Sd for every size of the card, of a DMA chunk and of the   *)
(* retry limits, and for every number of faults.                           *)
(***************************************************************************)
EXTENDS Sd, FiniteSetTheorems, TLAPS

States == {"idle", "ready", "ident", "stby", "tran", "data", "rcv", "prg"}
InitSteps == {"setup", "cmd8", "cmd41", "cmd2", "cmd3", "cmd7", "acmd6"}
StartSteps == InitSteps \cup {"cmd6", "switch", "ready13"}
Steps == StartSteps \cup {"idle", "cmd17", "read", "cmd24", "write", "busy13", "failed13", "cmd12",
                          "cmd23", "cmd18", "multi", "out", "release"}

SdTypeOK ==
  /\ card \in [st : States, wide : BOOLEAN, fast : BOOLEAN]
  /\ disk \in [Blocks -> Vals] /\ buf \in [Blocks -> Vals \cup {Garbage}]
  /\ sd_op \in Ops \cup {NoOp} /\ at_cmd \in Steps
  /\ dma \in Nat /\ moved \in Nat /\ sent \in Nat /\ cnt \in Nat
  /\ rc \in Int /\ fast \in BOOLEAN /\ blind \in BOOLEAN /\ dir_write \in BOOLEAN
  /\ sdhc \in BOOLEAN /\ guessed \in BOOLEAN /\ err \in BOOLEAN

\* Every step belongs to its operation.
StepsMatch ==
  /\ at_cmd \in StartSteps => sd_op.name \in {"start", "init"}
  /\ at_cmd \in {"cmd17", "read"} => sd_op.name = "read"
  /\ at_cmd \in {"cmd24", "write", "busy13", "failed13"} => sd_op.name = "write"
  /\ at_cmd \in {"cmd23", "cmd18", "multi", "out"} => sd_op.name = "blocks"
  /\ at_cmd = "cmd12" => sd_op.name \in {"write", "blocks"}
  /\ at_cmd = "release" => sd_op.name = "release"

TypeInv == SdTypeOK /\ StepsMatch

LEMMA OpsFacts ==
  ASSUME NEW o \in Ops \cup {NoOp}
  PROVE  /\ o.name \in {"none", "start", "init", "release", "read", "write", "blocks"}
         /\ o.name \in {"read", "write"} => o.lba \in Blocks /\ o.lba \in Nat /\ o.n = 1
         /\ o.name = "write" => o.val \in Vals
         /\ o.name = "blocks" => o.lba = 0 /\ o.n \in Nat /\ 0 < o.n
         /\ o.name = "blocks" => \A b \in 0 .. o.n - 1 : b \in Blocks
<1> USE DEF Ops, NoOp
<1>1. Cardinality(Blocks) \in Nat /\ Blocks = 0 .. Cardinality(Blocks) - 1
  BY SdAssumption, FS_CardinalityType
<1>2. CASE o \in [name : {"blocks"}, lba : {0}, n : 1 .. Cardinality(Blocks), val : {0}]
  <2>1. o.name = "blocks" /\ o.lba = 0 /\ o.n \in 1 .. Cardinality(Blocks)
    BY <1>2
  <2>2. \A b \in 0 .. o.n - 1 : b \in 0 .. Cardinality(Blocks) - 1
    BY <1>1, <2>1
  <2> QED
    BY <1>1, <2>1, <2>2
<1>3. CASE o \in [name : {"write"}, lba : Blocks, n : {1}, val : Vals]
  BY <1>1, <1>3
<1>4. CASE o \in [name : {"read"}, lba : Blocks, n : {1}, val : {0}]
  BY <1>1, <1>4
<1>5. CASE o \in [name : {"start", "init", "release"}, lba : {0}, n : {0}, val : {0}]
  BY <1>5
<1>6. CASE o = NoOp
  BY <1>6
<1> QED
  BY <1>2, <1>3, <1>4, <1>5, <1>6

\* What a command does to the card: only CMD7 selects it, and none puts it
\* into the programming state or changes its width and speed.
Selected(s) == s \in {"tran", "data", "rcv", "prg"}

LEMMA CommandKeeps ==
  ASSUME SdTypeOK, NEW c \in {8, 41, 2, 3, 7, 6, 17, 24, 12, 23, 18, 13}, NEW o, CardTakes(c, o)
  PROVE  /\ card' \in [st : States, wide : BOOLEAN, fast : BOOLEAN]
         /\ err' \in BOOLEAN /\ card'.fast = card.fast
         /\ c # 13 /\ card'.st = "prg" => card.st = "prg"
         /\ c = 13 => card' = card
         /\ c # 7 /\ Selected(card'.st) => Selected(card.st)
<1>0. err' \in BOOLEAN
  <2>1. err' = err \/ err' = TRUE \/ err' = FALSE
    BY DEF CardTakes
  <2> QED
    BY <2>1 DEF SdTypeOK
<1>1. CASE card' = card
  BY <1>0, <1>1 DEF SdTypeOK
<1>2. CASE card' = [card EXCEPT !.st = To(c, card.st)] /\ card.st \in From(c)
  <2>1. /\ To(c, card.st) \in States /\ (c # 13 => To(c, card.st) # "prg")
        /\ c = 13 => To(c, card.st) = card.st
        /\ c # 7 /\ Selected(To(c, card.st)) => Selected(card.st)
    BY <1>2 DEF To, From, States, Selected, SdTypeOK
  <2>2. card'.st = To(c, card.st) /\ card'.fast = card.fast
    BY <1>2 DEF SdTypeOK
  <2> QED
    BY <1>0, <1>2, <2>1, <2>2 DEF SdTypeOK
<1>3. card' = card \/ (card' = [card EXCEPT !.st = To(c, card.st)] /\ card.st \in From(c))
  BY DEF CardTakes, Takes
<1> QED
  BY <1>1, <1>2, <1>3

-----------------------------------------------------------------------------
(* The parts of the inductive invariant.                                   *)

\* g_pin_save is valid from the first sd_init to sd_release_pins, and what it
\* keeps is the boot set-up.
PadsInv ==
  /\ IF save = "none" THEN pads = "boot" ELSE save = "boot" /\ pads = "sd"
  /\ PadsComeBack

\* An open DMA request and a turned L2 buffer belong to the step that ends them.
LeftInv ==
  /\ dma # 0 => at_cmd \in {"cmd18", "multi", "out"}
  /\ dir_write => at_cmd = "write"

\* sd_init selects the card at the default clock.
ClockInv ==
  /\ ClockFits
  /\ at_cmd \in {"cmd8", "cmd41", "cmd2", "cmd3", "cmd7"} => ~fast

\* The blocks that sd_read_blocks counts as moved are the card's; the DMA was
\* given what is moved and what is open; at the end all is moved.
MultiInv ==
  at_cmd \in {"cmd18", "multi", "out"} =>
    /\ moved + dma = sent /\ sent <= sd_op.n
    /\ sdhc => \A b \in 0 .. moved - 1 : buf[b] = disk[b]
    /\ at_cmd = "out" /\ rc = 0 => dma = 0 /\ sent = sd_op.n

\* A read that is given up has failed; a write whose data phase ended well is
\* on the card, in programming or done.
DataInv ==
  /\ at_cmd = "cmd12" /\ sd_op.name = "blocks" => rc # 0
  /\ at_cmd = "busy13" /\ sdhc => disk[sd_op.lba] = sd_op.val

SdInv == TypeInv /\ PadsInv /\ LeftInv /\ ClockInv /\ MultiInv /\ DataInv /\ SuccessIsTrue

-----------------------------------------------------------------------------
LEMMA TypeInit == SdInit => TypeInv
<1> SUFFICES ASSUME SdInit PROVE TypeInv
  OBVIOUS
<1>1. buf \in [Blocks -> Vals \cup {Garbage}]
  BY DEF SdInit
<1>2. card \in [st : States, wide : BOOLEAN, fast : BOOLEAN]
  BY DEF SdInit, CardOff, States
<1>3. /\ fast \in BOOLEAN /\ blind \in BOOLEAN /\ dir_write \in BOOLEAN
      /\ sdhc \in BOOLEAN /\ guessed \in BOOLEAN /\ err \in BOOLEAN
  BY Zenon DEF SdInit
<1>4. /\ at_cmd = "idle" /\ sd_op = NoOp /\ rc \in Int /\ disk \in [Blocks -> Vals]
      /\ dma = 0 /\ moved = 0 /\ sent = 0 /\ cnt = 0
  BY DEF SdInit
<1> QED
  BY <1>1, <1>2, <1>3, <1>4 DEF TypeInv, SdTypeOK, StepsMatch, Steps, StartSteps,
     InitSteps

\* Every step keeps the types and stays in its operation; one step per action.
LEMMA TypeNext == TypeInv /\ [SdNext]_sd_vars => TypeInv'
<1> SUFFICES ASSUME TypeInv, [SdNext]_sd_vars PROVE TypeInv'
  OBVIOUS
<1> USE DEF TypeInv, SdTypeOK, StepsMatch, Steps, StartSteps, InitSteps, sd_card, sd_regs, sd_multi,
        GoOn, Return, Retry
<1>0. CASE UNCHANGED sd_vars
  BY <1>0 DEF sd_vars
<1>1. CASE sd_cmd8
  BY <1>1, CommandKeeps DEF sd_cmd8
<1>2. CASE sd_acmd41
  <2>1. /\ (\E o : CardTakes(41, o)) \/ UNCHANGED <<card, err>>
        /\ at_cmd' \in {"cmd2", "idle"} /\ rc' \in Int
    BY <1>2 DEF sd_acmd41
  <2>2. card' \in [st : States, wide : BOOLEAN, fast : BOOLEAN] /\ err' \in BOOLEAN
    BY <2>1, CommandKeeps
  <2>3. sdhc' \in BOOLEAN
    <3>1. sdhc' = TRUE \/ sdhc' = sdhc \/ sdhc' \in BOOLEAN
      BY <1>2, Zenon DEF sd_acmd41
    <3> QED
      BY <3>1
  <2> QED
    BY <1>2, <2>1, <2>2, <2>3 DEF sd_acmd41
<1>3. CASE sd_cmd2
  BY <1>3, CommandKeeps DEF sd_cmd2
<1>4. CASE sd_cmd3
  BY <1>4, CommandKeeps DEF sd_cmd3
<1>5. CASE sd_cmd7
  BY <1>5, CommandKeeps DEF sd_cmd7
<1>6. CASE switch_high_speed
  BY <1>6, CommandKeeps DEF switch_high_speed
<1>7. CASE sd_read_cmd
  BY <1>7, CommandKeeps DEF sd_read_cmd
<1>8. CASE sd_write_cmd
  <2>1. PICK o \in Outcomes(24) : CardTakes(24, o)
    BY <1>8 DEF sd_write_cmd
  <2>2. card' \in [st : States, wide : BOOLEAN, fast : BOOLEAN] /\ err' \in BOOLEAN
    BY <2>1, CommandKeeps
  <2>3. at_cmd' \in {"write", "cmd24", "idle"} /\ rc' \in Int
    BY <1>8 DEF sd_write_cmd
  <2>4. dir_write' \in BOOLEAN
    <3>1. dir_write' = TRUE \/ dir_write' = dir_write
      BY <1>8, Zenon DEF sd_write_cmd
    <3> QED
      BY <3>1
  <2> QED
    BY <1>8, <2>2, <2>3, <2>4 DEF sd_write_cmd
<1>9. CASE sd_write_stop
  BY <1>9, CommandKeeps DEF sd_write_stop
<1>10. CASE sd_set_count
  <2>1. PICK o \in Outcomes(23) : CardTakes(23, o)
    BY <1>10 DEF sd_set_count
  <2>2. card' \in [st : States, wide : BOOLEAN, fast : BOOLEAN] /\ err' \in BOOLEAN
    BY <2>1, CommandKeeps
  <2>3. sd_op.n \in Nat /\ CHUNK \in Nat
    BY <1>10, OpsFacts, SdAssumption DEF sd_set_count
  <2>4. /\ at_cmd' \in {"cmd18", "idle"} /\ rc' \in Int
        /\ dma' \in Nat /\ moved' \in Nat /\ sent' \in Nat /\ cnt' \in Nat
    BY <1>10, <2>3 DEF sd_set_count
  <2> QED
    BY <1>10, <2>2, <2>4 DEF sd_set_count
<1>11. CASE sd_read_multi
  BY <1>11, CommandKeeps DEF sd_read_multi
<1>12. CASE sd_multi_stop
  BY <1>12, CommandKeeps DEF sd_multi_stop
<1>13. CASE sd_setup
  BY <1>13 DEF sd_setup, CardOff, States
<1>14. CASE sd_acmd6
  <2>1. card' = card \/ card' = [card EXCEPT !.wide = TRUE]
    BY <1>14 DEF sd_acmd6
  <2>2. card' \in [st : States, wide : BOOLEAN, fast : BOOLEAN]
    BY <2>1
  <2>3. err' \in BOOLEAN
    <3>1. PICK o : err' = IF o = "unseen" THEN err ELSE o = "reject" \/ card.st # "tran"
      BY <1>14 DEF sd_acmd6
    <3>2. CASE o = "unseen"
      BY <3>1, <3>2
    <3>3. CASE o # "unseen"
      BY <3>1, <3>3
    <3> QED
      BY <3>2, <3>3
  <2> QED
    BY <1>14, <2>2, <2>3 DEF sd_acmd6
<1>15. CASE switch_status
  <2>1. PICK o \in DataOutcomes, agrees \in BOOLEAN :
             /\ card' = [CardSent EXCEPT !.fast = @ \/ (agrees /\ card.st = "data")]
             /\ \/ fast' = TRUE /\ guessed' = (guessed \/ o = "crc") /\ GoOn("ready13")
                \/ UNCHANGED <<fast, guessed>> /\ \E r \in {-62, -64} : Retry(SD_SWITCH_TRIES, "cmd6", r)
    BY <1>15 DEF switch_status
  <2>2. CardSent \in [st : States, wide : BOOLEAN, fast : BOOLEAN]
    BY DEF CardSent, States
  <2>3. card' \in [st : States, wide : BOOLEAN, fast : BOOLEAN]
    <3>1. (CardSent.fast \/ (agrees /\ card.st = "data")) \in BOOLEAN
      OBVIOUS
    <3> QED
      BY <2>1, <2>2, <3>1
  <2>4. at_cmd' \in {"ready13", "cmd6", "idle"} /\ rc' \in Int
    BY <2>1
  <2>5. fast' \in BOOLEAN /\ guessed' \in BOOLEAN
    <3>1. (fast' = TRUE \/ fast' = fast) /\ (guessed' = (guessed \/ o = "crc") \/ guessed' = guessed)
      BY <2>1, Zenon
    <3> QED
      BY <3>1
  <2> QED
    BY <1>15, <2>3, <2>4, <2>5 DEF switch_status
<1>16. CASE sd_read_data
  <2>1. card' \in [st : States, wide : BOOLEAN, fast : BOOLEAN]
    BY <1>16 DEF sd_read_data, CardSent, States
  <2>2. at_cmd' \in {"cmd17", "idle"} /\ rc' \in Int
    BY <1>16 DEF sd_read_data
  <2>3. blind' \in BOOLEAN
    BY <1>16, Zenon DEF sd_read_data
  <2>4. buf' \in [Blocks -> Vals \cup {Garbage}]
    <3>1. sd_op.lba \in Blocks
      BY <1>16, OpsFacts DEF sd_read_data
    <3>2. \A b \in Blocks : disk[b] \in Vals
      BY <3>1
    <3>3. \/ buf' = buf \/ buf' = [buf EXCEPT ![sd_op.lba] = Garbage]
          \/ \E b \in Blocks : buf' = [buf EXCEPT ![sd_op.lba] = disk[b]]
      BY <1>16, <3>1 DEF sd_read_data, Where
    <3> QED
      BY <3>2, <3>3
  <2> QED
    BY <1>16, <2>1, <2>2, <2>3, <2>4 DEF sd_read_data
<1>17. CASE sd_write_data
  <2>1. card' \in [st : States, wide : BOOLEAN, fast : BOOLEAN]
    <3>1. \/ card' = card \/ card' = [card EXCEPT !.st = "prg"]
          \/ card' = [card EXCEPT !.st = "tran"]
      BY <1>17 DEF sd_write_data
    <3> QED
      BY <3>1 DEF States
  <2>2. at_cmd' \in {"busy13", "cmd12"} /\ rc' = rc
    BY <1>17 DEF sd_write_data
  <2>3. disk' \in [Blocks -> Vals]
    <3>1. sd_op.val \in Vals
      BY <1>17, OpsFacts DEF sd_write_data
    <3>2. disk' = disk \/ \E b : disk' = [disk EXCEPT ![b] = sd_op.val]
      BY <1>17 DEF sd_write_data
    <3> QED
      BY <3>1, <3>2
  <2> QED
    BY <1>17, <2>1, <2>2, <2>3 DEF sd_write_data
<1>18. CASE sd_next_chunk
  <2>1. sd_op.n \in Nat /\ CHUNK \in Nat
    BY <1>18, OpsFacts, SdAssumption DEF sd_next_chunk
  <2> QED
    BY <1>18, <2>1 DEF sd_next_chunk
<1>19. CASE sd_multi_end
  BY <1>19 DEF sd_multi_end
<1>20. CASE sd_multi_error
  BY <1>20 DEF sd_multi_error
<1>21. CASE sd_multi_out
  BY <1>21 DEF sd_multi_out
<1>22. CASE sd_wait_ready
  <2>1. PICK o : CardTakes(13, o) /\ blind' = (blind \/ o = "crc")
    BY <1>22 DEF sd_wait_ready
  <2>2. card' = card /\ err' \in BOOLEAN
    BY <2>1, CommandKeeps
  <2>3. blind' \in BOOLEAN
    BY <2>1
  <2>4. at_cmd' \in {"cmd24", "idle"} /\ rc' \in Int
    BY <1>22 DEF sd_wait_ready
  <2> QED
    BY <1>22, <2>2, <2>3, <2>4 DEF sd_wait_ready
<1>23. CASE sd_wait_limit
  <2>1. at_cmd' \in {"cmd24", "idle"} /\ rc' \in Int
    BY <1>23 DEF sd_wait_limit
  <2> QED
    BY <1>23, <2>1 DEF sd_wait_limit
<1>24. CASE sd_release_pins
  BY <1>24 DEF sd_release_pins
<1>25. CASE Call
  <2>1. PICK o \in Ops : sd_op' = o /\ at_cmd' = First(o)
    BY <1>25 DEF Call
  <2>2. o.name \in {"none", "start", "init", "release", "read", "write", "blocks"}
    BY <2>1, OpsFacts
  <2>3. o.name # "none"
    BY <2>1 DEF Ops
  <2>4. StepsMatch' /\ at_cmd' \in Steps
    BY <2>1, <2>2, <2>3 DEF First
  <2>5. buf' \in [Blocks -> Vals \cup {Garbage}] /\ blind' \in BOOLEAN
    BY <1>25 DEF Call
  <2> QED
    BY <1>25, <2>1, <2>4, <2>5 DEF Call
<1>26. CASE CardSends
  BY <1>26 DEF CardSends, States
<1>27. CASE DmaMoves
  <2>1. moved' \in Nat /\ dma' \in Nat
    BY <1>27 DEF DmaMoves
  <2>2. buf' \in [Blocks -> Vals \cup {Garbage}]
    <3>1. PICK b : b \in Where(sd_op.lba + moved) /\ buf' = [buf EXCEPT ![sd_op.lba + moved] = disk[b]]
      BY <1>27 DEF DmaMoves
    <3>2. sd_op.lba + moved \in Blocks => b \in Blocks
      BY <3>1 DEF Where
    <3>3. sd_op.lba + moved \in Blocks => disk[b] \in Vals
      BY <3>2
    <3>4. CASE sd_op.lba + moved \in Blocks
      BY <3>1, <3>3, <3>4
    <3>5. CASE sd_op.lba + moved \notin Blocks
      BY <3>1, <3>5
    <3> QED
      BY <3>4, <3>5
  <2> QED
    BY <1>27, <2>1, <2>2 DEF DmaMoves
<1>28. CASE CardReady
  BY <1>28 DEF CardReady, States
<1>29. CASE CardPulled
  <2>1. card' \in [st : States, wide : BOOLEAN, fast : BOOLEAN] /\ err' \in BOOLEAN
    BY <1>29 DEF CardPulled, CardOff, States
  <2> QED
    BY <1>29, <2>1 DEF CardPulled
<1> QED
  BY <1>0, <1>1, <1>2, <1>3, <1>4, <1>5, <1>6, <1>7, <1>8, <1>9, <1>10, <1>11, <1>12, <1>13,
      <1>14, <1>15, <1>16, <1>17, <1>18, <1>19, <1>20, <1>21, <1>22, <1>23, <1>24, <1>25, <1>26,
      <1>27, <1>28, <1>29
  DEF SdNext, SdDriver, sd_init, sd_high_speed, sd_read_block, sd_write_block, sd_read_blocks

LEMMA PadsInit == SdInit => PadsInv
  BY DEF SdInit, PadsInv, PadsComeBack, Done, NoOp

\* The pads change hands in sd_setup and sd_release_pins only.
LEMMA PadsNext ==
  ASSUME TypeInv, PadsInv, [SdNext]_sd_vars
  PROVE  PadsInv'
<1> USE DEF TypeInv, SdTypeOK, StepsMatch, PadsInv, PadsComeBack, Done, StartSteps, InitSteps,
    sd_card, sd_regs,
        sd_multi, GoOn, Return, Retry
<1>0. CASE UNCHANGED sd_vars
  BY <1>0 DEF sd_vars
<1>1. CASE sd_setup
  BY <1>1 DEF sd_setup, save_pins
<1>2. CASE sd_release_pins
  BY <1>2 DEF sd_release_pins
<1>3. CASE Call
  <2>1. PICK o \in Ops : at_cmd' = First(o)
    BY <1>3 DEF Call
  <2>2. at_cmd' # "idle"
    BY <2>1 DEF First
  <2> QED
    BY <1>3, <2>2 DEF Call
<1>4. CASE sd_cmd8 \/ sd_acmd41 \/ sd_cmd2 \/ sd_cmd3 \/ sd_cmd7 \/ switch_high_speed \/
           sd_read_cmd \/ sd_write_cmd \/ sd_write_stop \/ sd_set_count \/ sd_read_multi \/
           sd_multi_stop \/ sd_acmd6 \/ switch_status \/ sd_read_data \/ sd_write_data \/
           sd_next_chunk \/ sd_multi_end \/ sd_multi_error \/ sd_multi_out \/ sd_wait_ready \/
           sd_wait_limit \/ CardSends \/ DmaMoves \/ CardReady \/ CardPulled
  BY <1>4
  DEF sd_cmd8, sd_acmd41, sd_cmd2, sd_cmd3, sd_cmd7, switch_high_speed, sd_read_cmd,
      sd_write_cmd, sd_write_stop, sd_set_count, sd_read_multi, sd_multi_stop, sd_acmd6,
      switch_status, sd_read_data, sd_write_data, sd_next_chunk, sd_multi_end,
      sd_multi_error, sd_multi_out, sd_wait_ready, sd_wait_limit, CardSends, DmaMoves,
      CardReady, CardPulled
<1> QED
  BY <1>0, <1>1, <1>2, <1>3, <1>4
  DEF SdNext, SdDriver, sd_init, sd_high_speed, sd_read_block, sd_write_block, sd_read_blocks

LEMMA LeftInit == SdInit => LeftInv
  BY DEF SdInit, LeftInv

\* A request is opened and a buffer turned by steps whose operation ends them.
LEMMA LeftNext ==
  ASSUME TypeInv, LeftInv, [SdNext]_sd_vars
  PROVE  LeftInv'
<1> USE DEF TypeInv, SdTypeOK, StepsMatch, LeftInv, StartSteps, InitSteps, sd_card, sd_regs,
        sd_multi, GoOn, Return, Retry
<1>0. CASE UNCHANGED sd_vars
  BY <1>0 DEF sd_vars
<1>1. CASE sd_write_cmd
  BY <1>1 DEF sd_write_cmd
<1>2. CASE sd_write_data
  BY <1>2 DEF sd_write_data
<1>3. CASE sd_set_count
  BY <1>3 DEF sd_set_count
<1>4. CASE sd_next_chunk
  BY <1>4 DEF sd_next_chunk
<1>5. CASE sd_multi_end \/ sd_multi_error \/ sd_multi_out
  BY <1>5
  DEF sd_multi_end, sd_multi_error, sd_multi_out
<1>6. CASE DmaMoves
  BY <1>6 DEF DmaMoves
<1>7. CASE sd_cmd8 \/ sd_acmd41 \/ sd_cmd2 \/ sd_cmd3 \/ sd_cmd7 \/ switch_high_speed \/
           sd_read_cmd \/ sd_write_stop \/ sd_read_multi \/ sd_multi_stop \/ sd_setup \/
           sd_acmd6 \/ switch_status \/ sd_read_data \/ sd_wait_ready \/ sd_wait_limit \/
           sd_release_pins \/ Call \/ CardSends \/ CardReady \/ CardPulled
  BY <1>7
  DEF sd_cmd8, sd_acmd41, sd_cmd2, sd_cmd3, sd_cmd7, switch_high_speed, sd_read_cmd,
      sd_write_stop, sd_read_multi, sd_multi_stop, sd_setup, sd_acmd6, switch_status,
      sd_read_data, sd_wait_ready, sd_wait_limit, sd_release_pins, Call, CardSends,
      CardReady, CardPulled
<1> QED
  BY <1>0, <1>1, <1>2, <1>3, <1>4, <1>5, <1>6, <1>7
  DEF SdNext, SdDriver, sd_init, sd_high_speed, sd_read_block, sd_write_block, sd_read_blocks

LEMMA ClockInit == SdInit => ClockInv
  BY DEF SdInit, ClockInv, ClockFits, CardOff

\* The card is selected at the default clock, and the clock rises only with a
\* switch status that was received.
LEMMA ClockNext ==
  ASSUME TypeInv, ClockInv, [SdNext]_sd_vars
  PROVE  ClockInv'
<1> USE DEF TypeInv, SdTypeOK, StepsMatch, ClockInv, ClockFits, Selected, StartSteps, InitSteps,
    sd_card, sd_regs,
        sd_multi, GoOn, Return, Retry
<1>0. CASE UNCHANGED sd_vars
  BY <1>0 DEF sd_vars
<1>1. CASE sd_cmd8
  <2>1. PICK o \in Outcomes(8) : CardTakes(8, o)
    BY <1>1 DEF sd_cmd8
  <2>2. /\ card'.fast = card.fast /\ fast' = fast
        /\ Selected(card'.st) => Selected(card.st)
    BY <1>1, <2>1, CommandKeeps DEF sd_cmd8
  <2> QED
    BY <1>1, <2>2 DEF sd_cmd8
<1>2. CASE sd_acmd41
  <2>1. (\E o : CardTakes(41, o)) \/ UNCHANGED <<card, err>>
    BY <1>2 DEF sd_acmd41
  <2>2. /\ card'.fast = card.fast /\ fast' = fast
        /\ Selected(card'.st) => Selected(card.st)
    BY <1>2, <2>1, CommandKeeps DEF sd_acmd41
  <2> QED
    BY <1>2, <2>2 DEF sd_acmd41
<1>3. CASE sd_cmd2
  <2>1. PICK o \in Outcomes(2) : CardTakes(2, o)
    BY <1>3 DEF sd_cmd2
  <2>2. /\ card'.fast = card.fast /\ fast' = fast
        /\ Selected(card'.st) => Selected(card.st)
    BY <1>3, <2>1, CommandKeeps DEF sd_cmd2
  <2> QED
    BY <1>3, <2>2 DEF sd_cmd2
<1>4. CASE sd_cmd3
  <2>1. PICK o \in Outcomes(3) : CardTakes(3, o)
    BY <1>4 DEF sd_cmd3
  <2>2. /\ card'.fast = card.fast /\ fast' = fast
        /\ Selected(card'.st) => Selected(card.st)
    BY <1>4, <2>1, CommandKeeps DEF sd_cmd3
  <2> QED
    BY <1>4, <2>2 DEF sd_cmd3
<1>5. CASE sd_cmd7
  <2>1. fast' = fast /\ ~fast
    BY <1>5 DEF sd_cmd7
  <2> QED
    BY <2>1
<1>6. CASE switch_high_speed
  <2>1. PICK o \in Outcomes(6) : CardTakes(6, o)
    BY <1>6 DEF switch_high_speed
  <2>2. /\ card'.fast = card.fast /\ fast' = fast
        /\ Selected(card'.st) => Selected(card.st)
    BY <1>6, <2>1, CommandKeeps DEF switch_high_speed
  <2> QED
    BY <1>6, <2>2 DEF switch_high_speed
<1>7. CASE sd_read_cmd
  <2>1. PICK o \in Outcomes(17) : CardTakes(17, o)
    BY <1>7 DEF sd_read_cmd
  <2>2. /\ card'.fast = card.fast /\ fast' = fast
        /\ Selected(card'.st) => Selected(card.st)
    BY <1>7, <2>1, CommandKeeps DEF sd_read_cmd
  <2> QED
    BY <1>7, <2>2 DEF sd_read_cmd
<1>8. CASE sd_write_cmd
  <2>1. PICK o \in Outcomes(24) : CardTakes(24, o)
    BY <1>8 DEF sd_write_cmd
  <2>2. /\ card'.fast = card.fast /\ fast' = fast
        /\ Selected(card'.st) => Selected(card.st)
    BY <1>8, <2>1, CommandKeeps DEF sd_write_cmd
  <2> QED
    BY <1>8, <2>2 DEF sd_write_cmd
<1>9. CASE sd_write_stop
  <2>1. PICK o \in Outcomes(12) : CardTakes(12, o)
    BY <1>9 DEF sd_write_stop
  <2>2. /\ card'.fast = card.fast /\ fast' = fast
        /\ Selected(card'.st) => Selected(card.st)
    BY <1>9, <2>1, CommandKeeps DEF sd_write_stop
  <2> QED
    BY <1>9, <2>2 DEF sd_write_stop
<1>10. CASE sd_set_count
  <2>1. PICK o \in Outcomes(23) : CardTakes(23, o)
    BY <1>10 DEF sd_set_count
  <2>2. /\ card'.fast = card.fast /\ fast' = fast
        /\ Selected(card'.st) => Selected(card.st)
    BY <1>10, <2>1, CommandKeeps DEF sd_set_count
  <2> QED
    BY <1>10, <2>2 DEF sd_set_count
<1>11. CASE sd_read_multi
  <2>1. PICK o \in Outcomes(18) : CardTakes(18, o)
    BY <1>11 DEF sd_read_multi
  <2>2. /\ card'.fast = card.fast /\ fast' = fast
        /\ Selected(card'.st) => Selected(card.st)
    BY <1>11, <2>1, CommandKeeps DEF sd_read_multi
  <2> QED
    BY <1>11, <2>2 DEF sd_read_multi
<1>12. CASE sd_multi_stop
  <2>1. PICK o \in Outcomes(12) : CardTakes(12, o)
    BY <1>12 DEF sd_multi_stop
  <2>2. /\ card'.fast = card.fast /\ fast' = fast
        /\ Selected(card'.st) => Selected(card.st)
    BY <1>12, <2>1, CommandKeeps DEF sd_multi_stop
  <2> QED
    BY <1>12, <2>2 DEF sd_multi_stop
<1>13. CASE sd_setup
  BY <1>13 DEF sd_setup, CardOff
<1>14. CASE sd_acmd6
  <2>1. card' = card \/ card' = [card EXCEPT !.wide = TRUE]
    BY <1>14 DEF sd_acmd6
  <2>2. card'.st = card.st /\ card'.fast = card.fast
    BY <2>1
  <2> QED
    BY <1>14, <2>2 DEF sd_acmd6
<1>15. CASE switch_status
  <2>1. PICK o \in DataOutcomes, agrees \in BOOLEAN :
             /\ card' = [CardSent EXCEPT !.fast = @ \/ (agrees /\ card.st = "data")]
             /\ \/ fast' = TRUE /\ GoOn("ready13") /\ (guessed' \/ (o = "ok" /\ agrees))
                \/ UNCHANGED <<fast, guessed>> /\ \E r \in {-62, -64} : Retry(SD_SWITCH_TRIES, "cmd6", r)
    <3>1. PICK o \in DataOutcomes, agrees \in BOOLEAN, says \in BOOLEAN :
             /\ card' = [CardSent EXCEPT !.fast = @ \/ (agrees /\ card.st = "data")]
             /\ o = "ok" => says = agrees
             /\ \/ o # "lost" /\ says /\ fast' = TRUE /\ guessed' = (guessed \/ o = "crc") /\ GoOn("ready13")
                \/ o # "lost" /\ ~says /\ UNCHANGED <<fast, guessed>> /\ Retry(SD_SWITCH_TRIES, "cmd6", -64)
                \/ o # "ok" /\ UNCHANGED <<fast, guessed>> /\ Retry(SD_SWITCH_TRIES, "cmd6", -62)
      BY <1>15 DEF switch_status
    <3>2. o \in {"ok", "crc", "lost"}
      BY DEF DataOutcomes
    <3>3. CASE o # "lost" /\ says /\ fast' = TRUE /\ guessed' = (guessed \/ o = "crc") /\ GoOn("ready13")
      BY <3>1, <3>2, <3>3, Zenon
    <3>4. CASE UNCHANGED <<fast, guessed>> /\ \E r \in {-62, -64} : Retry(SD_SWITCH_TRIES, "cmd6", r)
      BY <3>1, <3>4, Zenon
    <3> QED
      BY <3>1, <3>3, <3>4
  <2>2. /\ CardSent \in [st : States, wide : BOOLEAN, fast : BOOLEAN]
        /\ CardSent.fast = card.fast /\ (Selected(CardSent.st) => Selected(card.st))
    BY DEF CardSent, States, Selected
  <2>3. /\ card'.st = CardSent.st
        /\ card'.fast = (card.fast \/ (agrees /\ card.st = "data"))
    BY <2>1, <2>2
  <2>4. o = "ok" => card.st = "data"
    BY <2>1 DEF DataOutcomes, DataCan
  <2>5. at_cmd' \notin {"cmd8", "cmd41", "cmd2", "cmd3", "cmd7"}
    BY <2>1
  <2>6. CASE fast' = TRUE /\ (guessed' \/ (o = "ok" /\ agrees))
    BY <2>3, <2>4, <2>5, <2>6
  <2>7. CASE UNCHANGED <<fast, guessed>>
    BY <2>2, <2>3, <2>5, <2>7
  <2> QED
    BY <2>1, <2>6, <2>7
<1>16. CASE sd_read_data
  BY <1>16 DEF sd_read_data, CardSent
<1>17. CASE sd_write_data
  <2>1. \/ card' = card
        \/ Selected(card.st) /\ card' = [card EXCEPT !.st = "prg"]
        \/ Selected(card.st) /\ card' = [card EXCEPT !.st = "tran"]
    BY <1>17 DEF sd_write_data, WriteCan, Selected
  <2>2. card'.fast = card.fast /\ (Selected(card'.st) => Selected(card.st))
    BY <2>1 DEF Selected
  <2> QED
    BY <1>17, <2>2 DEF sd_write_data
<1>18. CASE Call
  <2>1. PICK o \in Ops : at_cmd' = First(o)
    BY <1>18 DEF Call
  <2>2. at_cmd' \notin {"cmd8", "cmd41", "cmd2", "cmd3", "cmd7"}
    BY <2>1 DEF First
  <2> QED
    BY <1>18, <2>2 DEF Call
<1>19. CASE CardSends
  <2>1. /\ Selected(card.st) /\ card'.fast = card.fast
        /\ UNCHANGED <<fast, guessed, at_cmd>>
    BY <1>19 DEF CardSends, DataCan
  <2> QED
    BY <2>1
<1>20. CASE CardReady
  BY <1>20 DEF CardReady
<1>21. CASE CardPulled
  BY <1>21 DEF CardPulled, CardOff
<1>22. CASE sd_next_chunk \/ sd_multi_end \/ sd_multi_error \/ sd_multi_out \/
           sd_wait_limit \/ sd_release_pins \/ DmaMoves
  BY <1>22
  DEF sd_next_chunk, sd_multi_end, sd_multi_error, sd_multi_out,
      sd_wait_limit, sd_release_pins, DmaMoves
<1>23. CASE sd_wait_ready
  <2>1. PICK o : CardTakes(13, o)
    BY <1>23 DEF sd_wait_ready
  <2>2. card' = card
    BY <2>1, CommandKeeps
  <2> QED
    BY <1>23, <2>2 DEF sd_wait_ready
<1> QED
  BY <1>0, <1>1, <1>2, <1>3, <1>4, <1>5, <1>6, <1>7, <1>8, <1>9, <1>10, <1>11, <1>12,
     <1>13, <1>14, <1>15, <1>16, <1>17, <1>18, <1>19, <1>20, <1>21, <1>22, <1>23
  DEF SdNext, SdDriver, sd_init, sd_high_speed, sd_read_block, sd_write_block, sd_read_blocks

DataParts == MultiInv /\ DataInv /\ SuccessIsTrue

LEMMA DataInit == SdInit => DataParts
  BY DEF SdInit, DataParts, MultiInv, DataInv, SuccessIsTrue, ReadIsCard, WriteIsStored, NoOp

\* The counts of sd_read_blocks and the results of the data phases stay true,
\* and with them what success means.
LEMMA DataNext ==
  ASSUME TypeInv, DataParts, LeftInv, [SdNext]_sd_vars
  PROVE  DataParts'
<1> USE DEF TypeInv, SdTypeOK, StepsMatch, DataParts, MultiInv, DataInv, SuccessIsTrue,
    ReadIsCard, WriteIsStored, Done,
        StartSteps, InitSteps, sd_card, sd_regs, sd_multi, GoOn, Return, Retry
<1>0. CASE UNCHANGED sd_vars
  BY <1>0 DEF sd_vars
<1>1. CASE sd_cmd8
  <2>1. PICK o \in Outcomes(8) : CardTakes(8, o)
    BY <1>1 DEF sd_cmd8
  <2>2. card'.st = "prg" => card.st = "prg"
    BY <2>1, CommandKeeps
  <2> QED
    BY <1>1, <2>2 DEF sd_cmd8
<1>2. CASE sd_acmd41
  <2>1. (\E o : CardTakes(41, o)) \/ UNCHANGED <<card, err>>
    BY <1>2 DEF sd_acmd41
  <2>2. card'.st = "prg" => card.st = "prg"
    BY <2>1, CommandKeeps
  <2> QED
    BY <1>2, <2>2 DEF sd_acmd41
<1>3. CASE sd_cmd2
  <2>1. PICK o \in Outcomes(2) : CardTakes(2, o)
    BY <1>3 DEF sd_cmd2
  <2>2. card'.st = "prg" => card.st = "prg"
    BY <2>1, CommandKeeps
  <2> QED
    BY <1>3, <2>2 DEF sd_cmd2
<1>4. CASE sd_cmd3
  <2>1. PICK o \in Outcomes(3) : CardTakes(3, o)
    BY <1>4 DEF sd_cmd3
  <2>2. card'.st = "prg" => card.st = "prg"
    BY <2>1, CommandKeeps
  <2> QED
    BY <1>4, <2>2 DEF sd_cmd3
<1>5. CASE sd_cmd7
  <2>1. PICK o \in Outcomes(7) : CardTakes(7, o)
    BY <1>5 DEF sd_cmd7
  <2>2. card'.st = "prg" => card.st = "prg"
    BY <2>1, CommandKeeps
  <2> QED
    BY <1>5, <2>2 DEF sd_cmd7
<1>6. CASE switch_high_speed
  <2>1. PICK o \in Outcomes(6) : CardTakes(6, o)
    BY <1>6 DEF switch_high_speed
  <2>2. card'.st = "prg" => card.st = "prg"
    BY <2>1, CommandKeeps
  <2> QED
    BY <1>6, <2>2 DEF switch_high_speed
<1>7. CASE sd_read_cmd
  <2>1. PICK o \in Outcomes(17) : CardTakes(17, o)
    BY <1>7 DEF sd_read_cmd
  <2>2. card'.st = "prg" => card.st = "prg"
    BY <2>1, CommandKeeps
  <2> QED
    BY <1>7, <2>2 DEF sd_read_cmd
<1>8. CASE sd_write_cmd
  <2>1. PICK o \in Outcomes(24) : CardTakes(24, o)
    BY <1>8 DEF sd_write_cmd
  <2>2. card'.st = "prg" => card.st = "prg"
    BY <2>1, CommandKeeps
  <2> QED
    BY <1>8, <2>2 DEF sd_write_cmd
<1>9. CASE sd_write_stop
  <2>1. PICK o \in Outcomes(12) : CardTakes(12, o)
    BY <1>9 DEF sd_write_stop
  <2>2. card'.st = "prg" => card.st = "prg"
    BY <2>1, CommandKeeps
  <2> QED
    BY <1>9, <2>2 DEF sd_write_stop
<1>10. CASE sd_set_count
  <2>1. sd_op.n \in Nat /\ CHUNK \in Nat
    BY <1>10, OpsFacts, SdAssumption DEF sd_set_count
  <2>2. CASE at_cmd' = "cmd18"
    BY <1>10, <2>1, <2>2 DEF sd_set_count
  <2>3. CASE at_cmd' # "cmd18"
    BY <1>10, <2>3 DEF sd_set_count
  <2> QED
    BY <2>2, <2>3
<1>11. CASE sd_read_multi
  <2>1. PICK o \in Outcomes(18) : CardTakes(18, o)
    BY <1>11 DEF sd_read_multi
  <2>2. card'.st = "prg" => card.st = "prg"
    BY <2>1, CommandKeeps
  <2> QED
    BY <1>11, <2>2 DEF sd_read_multi
<1>12. CASE sd_multi_stop
  <2>1. PICK o \in Outcomes(12) : CardTakes(12, o)
    BY <1>12 DEF sd_multi_stop
  <2>2. card'.st = "prg" => card.st = "prg"
    BY <2>1, CommandKeeps
  <2> QED
    BY <1>12, <2>2 DEF sd_multi_stop
<1>13. CASE sd_setup
  BY <1>13 DEF sd_setup, CardOff
<1>14. CASE sd_acmd6
  BY <1>14 DEF sd_acmd6
<1>15. CASE switch_status
  BY <1>15 DEF switch_status
<1>16. CASE sd_read_data
  <2>1. /\ sd_op.lba \in Blocks /\ sd_op.n = 1 /\ sd_op.lba \in Nat
        /\ sd_op.name = "read" /\ UNCHANGED <<sd_op, disk>>
    BY <1>16, OpsFacts DEF sd_read_data
  <2>2. at_cmd' \in {"idle", "cmd17"}
    BY <1>16 DEF sd_read_data
  <2>3. at_cmd' = "idle" /\ rc' = 0 /\ ~blind' /\ sdhc' => buf'[sd_op.lba] = disk[sd_op.lba]
    <3>1. PICK o \in DataOutcomes :
             IF o = "lost" THEN Retry(SD_READ_TRIES, "cmd17", -2) /\ UNCHANGED <<buf, blind>>
             ELSE /\ Return(0)
                  /\ sdhc => buf' = [buf EXCEPT ![sd_op.lba] = IF o = "ok" THEN disk[sd_op.lba] ELSE Garbage]
                  /\ blind' = (blind \/ o = "crc")
      BY <1>16 DEF sd_read_data, Where
    <3>5. sdhc' = sdhc
      BY <1>16 DEF sd_read_data
    <3>2. CASE o = "lost"
      BY <3>1, <3>2
    <3>3. CASE o = "crc"
      <4>1. blind'
        BY <3>1, <3>3, Zenon
      <4> QED
        BY <4>1
    <3>4. CASE o = "ok"
      BY <2>1, <3>1, <3>4, <3>5
    <3> QED
      BY <3>1, <3>2, <3>3, <3>4 DEF DataOutcomes
  <2>4. \A b \in sd_op.lba .. sd_op.lba + sd_op.n - 1 : b = sd_op.lba
    BY <2>1
  <2> QED
    BY <2>1, <2>2, <2>3, <2>4
<1>17. CASE sd_write_data
  <2>1. sd_op.lba \in Blocks /\ UNCHANGED sd_op
    BY <1>17, OpsFacts DEF sd_write_data
  <2>2. at_cmd' \in {"busy13", "cmd12"} /\ sd_op.name = "write"
    BY <1>17 DEF sd_write_data
  <2>3. at_cmd' = "busy13" /\ sdhc => disk' = [disk EXCEPT ![sd_op.lba] = sd_op.val]
    BY <1>17 DEF sd_write_data, Where
  <2>4. sdhc' = sdhc
    BY <1>17 DEF sd_write_data
  <2> QED
    BY <2>1, <2>2, <2>3, <2>4
<1>18. CASE sd_next_chunk
  <2>1. sd_op.n \in Nat /\ CHUNK \in Nat
    BY <1>18, OpsFacts, SdAssumption DEF sd_next_chunk
  <2> QED
    BY <1>18, <2>1 DEF sd_next_chunk
<1>19. CASE sd_multi_end
  BY <1>19 DEF sd_multi_end
<1>20. CASE sd_multi_error
  BY <1>20 DEF sd_multi_error
<1>21. CASE sd_multi_out
  <2>1. CASE rc = 0
    <3>1. moved = sd_op.n /\ sd_op.lba = 0 /\ sd_op.n \in Nat
      BY <1>21, <2>1, OpsFacts DEF sd_multi_out
    <3>2. sdhc => \A b \in 0 .. sd_op.n - 1 : buf[b] = disk[b]
      BY <1>21, <3>1 DEF sd_multi_out
    <3>3. \A b \in sd_op.lba .. sd_op.lba + sd_op.n - 1 : b \in 0 .. sd_op.n - 1
      BY <3>1
    <3>4. UNCHANGED <<sd_op, buf, disk, rc, sdhc>> /\ at_cmd' = "idle" /\ sd_op.name = "blocks"
      BY <1>21, <2>1 DEF sd_multi_out
    <3> QED
      BY <3>2, <3>3, <3>4
  <2>2. CASE rc # 0
    BY <1>21, <2>2 DEF sd_multi_out
  <2> QED
    BY <2>1, <2>2
<1>22. CASE sd_wait_ready
  <2>0. PICK o : CardTakes(13, o)
    BY <1>22 DEF sd_wait_ready
  <2>1. UNCHANGED <<sd_op, disk, card, buf, sdhc>> /\ card.st # "prg"
    BY <1>22, <2>0, CommandKeeps DEF sd_wait_ready
  <2>2. at_cmd' \in {"idle", "cmd24"} /\ sd_op.name \notin {"read", "blocks"}
    BY <1>22 DEF sd_wait_ready
  <2>3. at_cmd' = "idle" /\ rc' = 0 /\ sd_op.name = "write" => at_cmd = "busy13"
    BY <1>22 DEF sd_wait_ready
  <2> QED
    BY <2>1, <2>2, <2>3
<1>23. CASE sd_wait_limit
  <2>1. at_cmd' \in {"idle", "cmd24"} /\ sd_op.name = "write" /\ UNCHANGED sd_op
    BY <1>23 DEF sd_wait_limit
  <2>2. at_cmd' = "idle" => rc' # 0 \/ blind'
    BY <1>23 DEF sd_wait_limit
  <2> QED
    BY <2>1, <2>2
<1>24. CASE sd_release_pins
  BY <1>24 DEF sd_release_pins
<1>25. CASE Call
  <2>1. PICK o \in Ops : at_cmd' = First(o)
    BY <1>25 DEF Call
  <2>2. at_cmd' \notin {"idle", "cmd12", "busy13", "cmd18", "multi", "out"}
    BY <2>1 DEF First
  <2> QED
    BY <2>2
<1>26. CASE CardSends
  BY <1>26 DEF CardSends
<1>27. CASE DmaMoves
  <2>1. at_cmd \in {"cmd18", "multi", "out"} /\ sd_op.name = "blocks"
    BY <1>27 DEF DmaMoves, LeftInv
  <2>2. sd_op.lba = 0 /\ moved \in Blocks
    <3>1. moved \in 0 .. sd_op.n - 1
      BY <1>27, <2>1, OpsFacts DEF DmaMoves
    <3> QED
      BY <2>1, <3>1, OpsFacts
  <2>3. (sdhc => buf'[moved] = disk[moved]) /\ \A b \in 0 .. moved - 1 : buf'[b] = buf[b]
    <3>0. sd_op.lba + moved = moved
      BY <2>2
    <3>1. PICK b : b \in Where(moved) /\ buf' = [buf EXCEPT ![moved] = disk[b]]
      BY <1>27, <3>0 DEF DmaMoves
    <3>2. sdhc => b = moved
      BY <3>1 DEF Where
    <3> QED
      BY <2>2, <3>1, <3>2
  <2>4. sdhc' => \A b \in 0 .. moved' - 1 : buf'[b] = disk'[b]
    <3>1. \A b \in 0 .. moved' - 1 : b = moved \/ b \in 0 .. moved - 1
      BY <1>27 DEF DmaMoves
    <3> QED
      BY <1>27, <2>1, <2>3, <3>1 DEF DmaMoves
  <2>5. ~(at_cmd = "out" /\ rc = 0)
    BY <1>27 DEF DmaMoves
  <2>6. moved' + dma' = sent'
    BY <1>27, <2>1 DEF DmaMoves
  <2> QED
    BY <1>27, <2>1, <2>4, <2>5, <2>6 DEF DmaMoves
<1>28. CASE CardReady
  BY <1>28 DEF CardReady
<1>29. CASE CardPulled
  BY <1>29 DEF CardPulled, CardOff
<1> QED
  BY <1>0, <1>1, <1>2, <1>3, <1>4, <1>5, <1>6, <1>7, <1>8, <1>9, <1>10, <1>11, <1>12,
     <1>13, <1>14, <1>15, <1>16, <1>17, <1>18, <1>19, <1>20, <1>21, <1>22, <1>23, <1>24,
     <1>25, <1>26, <1>27, <1>28, <1>29
  DEF SdNext, SdDriver, sd_init, sd_high_speed, sd_read_block, sd_write_block, sd_read_blocks


-----------------------------------------------------------------------------
LEMMA SdInvInit == SdInit => SdInv
  BY TypeInit, PadsInit, LeftInit, ClockInit, DataInit DEF SdInv, DataParts

LEMMA SdInvNext == SdInv /\ [SdNext]_sd_vars => SdInv'
<1> SUFFICES ASSUME SdInv, [SdNext]_sd_vars PROVE SdInv'
  OBVIOUS
<1>1. TypeInv /\ PadsInv /\ LeftInv /\ ClockInv /\ DataParts
  BY DEF SdInv, DataParts
<1>2. TypeInv' /\ PadsInv' /\ LeftInv' /\ ClockInv' /\ DataParts'
  BY <1>1, TypeNext, PadsNext, LeftNext, ClockNext, DataNext
<1> QED
  BY <1>2 DEF SdInv, DataParts

LEMMA SdInvAlways == SdSpec => []SdInv
  BY SdInvInit, SdInvNext, PTL DEF SdSpec

\* A read or a write that reports success tells the truth, after any number of
\* faults and tries and whenever the card is pulled, for every chunk size.
THEOREM SuccessIsTrueTheorem == SdSpec => []SuccessIsTrue
<1>1. SdInv => SuccessIsTrue
  BY DEF SdInv
<1> QED
  BY <1>1, SdInvAlways, PTL

\* An operation that returned left no DMA request open and no buffer turned, and
\* sd_release_pins gave back the pads that the first sd_init found.
THEOREM NothingIsLeftTheorem == SdSpec => []NothingIsLeft
<1>1. SdInv => NothingIsLeft
  BY DEF SdInv, PadsInv, LeftInv, NothingIsLeft, NothingGoesOn, Done
<1> QED
  BY <1>1, SdInvAlways, PTL

\* The bus clock exceeds the default only with a selected card that agreed, or
\* after a switch status whose bad CRC switch_high_speed did not look at.
THEOREM ClockFitsTheorem == SdSpec => []ClockFits
<1>1. SdInv => ClockFits
  BY DEF SdInv, ClockInv
<1> QED
  BY <1>1, SdInvAlways, PTL

-----------------------------------------------------------------------------
(* One fault is covered by the tries.                                      *)

Active == {"tran", "data", "rcv", "prg"}

\* Card and driver agree on the addresses and the width.
Agree == rca /\ sdhc /\ wide = card.wide
OneLine == wide = FALSE /\ card.wide = FALSE

\* At most one fault since sd_init, and a card that was selected.
Sound == faults <= 1 /\ Agree /\ card.st \in Active

\* Where the card is when the driver is at a step: ready for the next command,
\* or in the transfer that the step belongs to.
CardAt ==
  CASE at_cmd \in {"read", "switch"} -> {"data"}
    [] at_cmd = "write" -> {"rcv"}
    [] at_cmd \in {"busy13", "failed13"} -> {"prg", "tran"}
    [] at_cmd = "cmd12" -> IF sd_op.name = "write" THEN {"rcv", "prg", "tran"} ELSE {"data", "tran"}
    [] at_cmd = "multi" -> IF cnt = 0 THEN {"tran"} ELSE {"data"}
    [] at_cmd = "out" -> IF rc = 0 THEN {"tran"} ELSE {"data", "tran"}
    [] OTHER -> {"tran"}

\* The tries that failed: one for a fault, one for the first transfer.
FirstSpent == IF fresh THEN 0 ELSE 1
Spent == faults + FirstSpent
TriesInv ==
  /\ at_cmd \in {"cmd17", "read", "cmd24", "write"} => tries <= Spent
  /\ at_cmd \in {"cmd12", "failed13"} /\ sd_op.name = "write" => tries + 1 <= Spent

\* Before it is selected the card is on one line and in no transfer.
UpInv ==
  /\ at_cmd \in {"cmd8", "cmd41", "cmd2", "cmd3", "cmd7"} => card.st \notin Active
  /\ at_cmd \in {"cmd8", "cmd41", "cmd2", "cmd3", "cmd7", "acmd6"} => OneLine
  /\ at_cmd = "cmd18" => cnt = sd_op.n

CountsInv == tries \in Nat /\ faults \in Nat
CoverInv == CountsInv /\ UpInv /\ (Sound => card.st \in CardAt /\ TriesInv)

\* The card has no error to tell when CMD6 or CMD24 comes.
ClearSteps == {"acmd6", "cmd6", "switch", "ready13", "read", "cmd24", "multi"}
ClearAt ==
  \/ at_cmd \in ClearSteps
  \/ at_cmd = "out" /\ rc = 0
  \/ at_cmd = "idle" /\ sd_op.name # "release" /\ ~(sd_op.name = "blocks" /\ rc # 0)
ClearInv == Sound /\ ClearAt => err = FALSE

LEMMA CoverInit == SdInit => CoverInv
<1> SUFFICES ASSUME SdInit PROVE CoverInv
  OBVIOUS
<1>1. /\ card.st = "idle" /\ at_cmd = "idle" /\ tries = 0 /\ faults = 0
  BY DEF SdInit, CardOff
<1> QED
  BY <1>1 DEF CoverInv, CountsInv, UpInv, Sound, Active

LEMMA AgreeStays ==
  ASSUME UNCHANGED <<wide, rca, sdhc>>, card'.wide = card.wide
  PROVE  (Agree' <=> Agree) /\ (OneLine' <=> OneLine)
  BY DEF Agree, OneLine

LEMMA FirstIs == (fresh => FirstSpent = 0) /\ (~fresh => FirstSpent = 1) /\ FirstSpent \in {0, 1}
  BY DEF FirstSpent

\* A command: what it does to the card, and how it counts.
NotTaken == {"unseen", "reject", "unknown", "range"}
NoFault == {"ok", "unknown", "range"}
CardMoves(c, o) == card'.st = IF ~Takes(c) \/ o \in NotTaken THEN card.st ELSE To(c, card.st)
Counts(o) == faults' <= 1 => faults <= 1 /\ faults' = IF o \in NoFault THEN faults ELSE faults + 1
Covered(c, o) ==
  faults' <= 1 => /\ To(c, "") \in {"data", "rcv"} => o \in NotTaken \cup {"ok"}
                  /\ c \in {55, 6, 24} => o # "reject"
                  /\ c = 12 => o \notin {"unseen", "reject"}

LEMMA OutcomesAre ==
  ASSUME NEW c, NEW o \in Outcomes(c)
  PROVE  /\ o \in {"ok", "crc", "lost", "unseen", "reject", "unknown", "range"}
         /\ o = "unknown" => c = 23
         /\ o = "range" => c \in {17, 18, 24} /\ ~sdhc
  BY DEF Outcomes

LEMMA CommandCounts ==
  ASSUME TypeInv, faults \in Nat, NEW c \in Int, NEW o \in Outcomes(c), CardTakes(c, o), Fault(c, o)
  PROVE  faults' \in Nat /\ card'.wide = card.wide /\ CardMoves(c, o) /\ Counts(o) /\ Covered(c, o)
<1>1. MaxFaults \in Nat /\ MaxFaults > 1
  BY SdAssumption, SdTriesAssumption
<1>2. card'.wide = card.wide /\ card'.st = IF ~Takes(c) \/ o \in NotTaken THEN card.st ELSE To(c, card.st)
  BY DEF CardTakes, Takes, NotTaken, TypeInv, SdTypeOK
<1> DEFINE t == To(c, "")
<1>3. faults' = IF o \in NoFault THEN faults
                ELSE IF \/ t \in {"data", "rcv"} /\ o \in {"crc", "lost"}
                        \/ c \in {55, 6, 24} /\ o = "reject"
                        \/ c = 12 /\ o \in {"unseen", "reject"}
                     THEN MaxFaults ELSE faults + 1
  BY DEF Fault, NoFault
<1>4. o \in {"ok", "crc", "lost", "unseen", "reject", "unknown", "range"}
  BY OutcomesAre
<1> HIDE DEF t
<1>5. faults' \in Nat
  BY <1>1, <1>3
<1>6. ASSUME faults' <= 1
      PROVE  /\ faults <= 1 /\ faults' = IF o \in NoFault THEN faults ELSE faults + 1
             /\ t \in {"data", "rcv"} => o \in NotTaken \cup {"ok"}
             /\ c \in {55, 6, 24} => o # "reject"
             /\ c = 12 => o \notin {"unseen", "reject"}
  BY <1>1, <1>3, <1>4, <1>6 DEF NoFault, NotTaken
<1> QED
  BY <1>1, <1>2, <1>5, <1>6 DEF t, CardMoves, Counts, Covered

\* A failed try starts again or is the last.
LEMMA Retries ==
  ASSUME tries \in Nat, NEW t, NEW s, NEW r, Retry(t, s, r)
  PROVE  /\ tries' \in Nat /\ tries' \in {tries, tries + 1}
         /\ \/ at_cmd' = s /\ tries' = tries + 1 /\ tries + 1 < t
            \/ at_cmd' = "idle" /\ tries' = tries /\ ~(tries + 1 < t)
  BY DEF Retry, Return

\* A state that is sound after a step was so before.
LEMMA StaysSound ==
  ASSUME UNCHANGED <<wide, rca, sdhc>>, card'.wide = card.wide, faults \in Nat, faults' \in Nat,
         faults' <= 1 => faults <= 1, card'.st \in Active => card.st \in Active
  PROVE  Sound' => Sound
<1>1. Agree' <=> Agree
  BY AgreeStays
<1> HIDE DEF Agree
<1>2. ASSUME faults' <= 1 PROVE faults <= 1
  BY <1>2
<1> QED
  BY <1>1, <1>2 DEF Sound, Active

StartNext == sd_setup \/ sd_cmd8 \/ sd_acmd41 \/ sd_cmd2 \/ sd_cmd3 \/ sd_cmd7

\* Up to CMD7 no transfer is open.
LEMMA CoverStart ==
  ASSUME TypeInv, CoverInv, StartNext
  PROVE  CoverInv'
<1>1. tries \in Nat /\ faults \in Nat
  BY DEF CoverInv, CountsInv
<1>2. CASE sd_setup
  <2>1. /\ card'.st = "idle" /\ OneLine' /\ at_cmd' = "cmd8" /\ faults' = 0 /\ tries' = tries
    BY <1>2 DEF sd_setup, GoOn, CardOff, OneLine
  <2> QED
    BY <1>1, <2>1 DEF CoverInv, CountsInv, UpInv, Sound, Active
<1>3. ASSUME NEW c \in {8, 41, 2, 3}, NEW o \in Outcomes(c), CardTakes(c, o), Fault(c, o),
             at_cmd \in {"cmd8", "cmd41", "cmd2", "cmd3"}, UNCHANGED wide,
             at_cmd' \in {"cmd8", "cmd41", "cmd2", "cmd3", "cmd7", "idle"}, tries' \in Nat
      PROVE  CoverInv'
  <2>1. faults' \in Nat /\ card'.wide = card.wide /\ CardMoves(c, o)
    BY <1>1, <1>3, CommandCounts
  <2>2. card.st \notin Active /\ OneLine
    BY <1>3 DEF CoverInv, UpInv
  <2>3. card'.st \notin Active
    BY <1>3, <2>1, <2>2 DEF CardMoves, To, Active
  <2>4. OneLine'
    BY <1>3, <2>1, <2>2 DEF OneLine
  <2> QED
    BY <1>3, <2>1, <2>3, <2>4 DEF CoverInv, CountsInv, UpInv, Sound
<1>4. CASE sd_cmd8
  <2>1. PICK o \in Outcomes(8) : /\ CardTakes(8, o) /\ Fault(8, o)
                                 /\ GoOn("cmd41") \/ Retry(CMD8_TRIES, "cmd8", -8)
    BY <1>4 DEF sd_cmd8
  <2>2. at_cmd = "cmd8" /\ UNCHANGED wide
    BY <1>4 DEF sd_cmd8, sd_regs
  <2>3. at_cmd' \in {"cmd8", "cmd41", "idle"} /\ tries' \in Nat
    BY <1>1, <2>1, Retries DEF GoOn
  <2>4. CardTakes(8, o) /\ Fault(8, o)
    BY <2>1
  <2> QED
    BY <1>3, <2>2, <2>3, <2>4
<1>5. CASE sd_acmd41
  <2>1. PICK o \in Outcomes(41) : /\ Fault(41, o) /\ (GoOn("cmd2") \/ Return(-41))
                                  /\ CardTakes(41, o) \/ UNCHANGED <<card, err>>
    BY <1>5 DEF sd_acmd41
  <2>2. at_cmd = "cmd41" /\ UNCHANGED wide
    BY <1>5 DEF sd_acmd41
  <2>3. at_cmd' \in {"cmd2", "idle"} /\ tries' \in Nat
    BY <1>1, <2>1 DEF GoOn, Return
  <2>4. CASE CardTakes(41, o)
    BY <1>3, <2>1, <2>2, <2>3, <2>4
  <2>5. CASE UNCHANGED card
    <3>1. faults' \in Nat
      BY <1>1, <2>1, SdAssumption DEF Fault, To
    <3>2. card'.st \notin Active /\ OneLine'
      BY <2>2, <2>5 DEF CoverInv, UpInv, OneLine
    <3> QED
      BY <2>3, <3>1, <3>2 DEF CoverInv, CountsInv, UpInv, Sound
  <2> QED
    BY <2>1, <2>4, <2>5
<1>6. CASE sd_cmd2
  <2>1. PICK o \in Outcomes(2) : CardTakes(2, o) /\ Fault(2, o) /\ (GoOn("cmd3") \/ Return(-2))
    BY <1>6 DEF sd_cmd2
  <2>2. at_cmd = "cmd2" /\ UNCHANGED wide
    BY <1>6 DEF sd_cmd2, sd_regs
  <2>3. at_cmd' \in {"cmd3", "idle"} /\ tries' \in Nat
    BY <1>1, <2>1 DEF GoOn, Return
  <2> QED
    BY <1>3, <2>1, <2>2, <2>3
<1>7. CASE sd_cmd3
  <2>1. PICK o \in Outcomes(3) : CardTakes(3, o) /\ Fault(3, o) /\ (GoOn("cmd7") \/ Return(-3))
    BY <1>7 DEF sd_cmd3
  <2>2. at_cmd = "cmd3" /\ UNCHANGED wide
    BY <1>7 DEF sd_cmd3
  <2>3. at_cmd' \in {"cmd7", "idle"} /\ tries' \in Nat
    BY <1>1, <2>1 DEF GoOn, Return
  <2> QED
    BY <1>3, <2>1, <2>2, <2>3
<1>8. CASE sd_cmd7
  <2>1. PICK o \in Outcomes(7) : CardTakes(7, o) /\ Fault(7, o) /\ (GoOn("acmd6") \/ Return(-7))
    BY <1>8 DEF sd_cmd7
  <2>2. at_cmd = "cmd7" /\ UNCHANGED <<wide, rca, sdhc>> /\ at_cmd' \in {"acmd6", "idle"} /\ tries' \in Nat
    BY <1>1, <1>8, <2>1 DEF sd_cmd7, sd_regs, GoOn, Return
  <2>3. faults' \in Nat /\ card'.wide = card.wide /\ CardMoves(7, o) /\ Counts(o)
    BY <1>1, <2>1, CommandCounts
  <2>4. OneLine'
    BY <2>2, <2>3 DEF CoverInv, UpInv, OneLine
  <2>5. CASE card'.st = card.st
    <3>1. ~Sound'
      BY <2>2, <2>5 DEF CoverInv, UpInv, Sound
    <3> QED
      BY <2>2, <2>3, <2>4, <3>1 DEF CoverInv, CountsInv, UpInv
  <2>6. CASE card'.st = "tran"
    <3>1. card'.st \in CardAt' /\ TriesInv'
      BY <2>2, <2>6 DEF CardAt, TriesInv
    <3> QED
      BY <2>2, <2>3, <2>4, <3>1 DEF CoverInv, CountsInv, UpInv
  <2> QED
    BY <2>3, <2>5, <2>6 DEF CardMoves, To
<1> QED
  BY <1>2, <1>4, <1>5, <1>6, <1>7, <1>8 DEF StartNext

UpSteps == {"cmd8", "cmd41", "cmd2", "cmd3", "cmd7", "acmd6", "cmd18"}

LEMMA CoverEnd ==
  ASSUME tries' \in Nat, faults' \in Nat, at_cmd' \notin UpSteps,
         Sound' => card'.st \in CardAt' /\ TriesInv'
  PROVE  CoverInv'
  BY DEF CoverInv, CountsInv, UpInv, UpSteps

\* A command to a card that is selected.
LEMMA CommandStep ==
  ASSUME TypeInv, CoverInv, NEW c \in {6, 17, 24, 12, 23, 18}, NEW o \in Outcomes(c),
         CardTakes(c, o), Fault(c, o), UNCHANGED <<wide, rca, sdhc>>
  PROVE  /\ tries \in Nat /\ faults \in Nat /\ faults' \in Nat /\ CardMoves(c, o) /\ Counts(o) /\ Covered(c, o)
         /\ Sound' => Sound /\ card.st \in CardAt /\ TriesInv
<1>1. tries \in Nat /\ faults \in Nat
  BY DEF CoverInv, CountsInv
<1>2. faults' \in Nat /\ card'.wide = card.wide /\ CardMoves(c, o) /\ Counts(o) /\ Covered(c, o)
  BY <1>1, CommandCounts
<1>3. card'.st \in Active => card.st \in Active
  BY CommandKeeps DEF Active, Selected, TypeInv
<1>4. faults' <= 1 => faults <= 1
  BY <1>2 DEF Counts
<1>5. Sound' => Sound
  BY <1>1, <1>2, <1>3, <1>4, StaysSound
<1> QED
  BY <1>1, <1>2, <1>5 DEF CoverInv

LEMMA ToTransfer ==
  ASSUME NEW c \in {6, 17, 24, 18}, NEW s
  PROVE  To(c, s) = IF c = 24 THEN "rcv" ELSE "data"
<1>1. CASE c = 24
  BY <1>1 DEF To
<1>2. CASE c \in {6, 17, 18}
  BY <1>2 DEF To
<1> QED
  BY <1>1, <1>2

LEMMA Transfers == To(6, "") = "data" /\ To(17, "") = "data" /\ To(18, "") = "data" /\ To(24, "") = "rcv"
  BY DEF To

\* CMD17 and CMD24 of a card that stands ready: it is in the transfer, or a
\* fault cost the try.
LEMMA TransferBegins ==
  ASSUME TypeInv, CoverInv, NEW c \in {6, 17, 24, 18}, NEW o \in Outcomes(c), CardTakes(c, o), Fault(c, o),
         UNCHANGED <<wide, rca, sdhc>>, CardAt = {"tran"}, Sound'
  PROVE  /\ o = "ok" => card'.st = To(c, "") /\ faults' = faults /\ Answer(c, o) = "end"
         /\ o # "ok" => card'.st = "tran" /\ faults' = faults + 1 /\ Answer(c, o) = "none"
<1>1. CardMoves(c, o) /\ Counts(o) /\ Covered(c, o) /\ card.st \in CardAt /\ faults \in Nat
  BY CommandStep
<1>2. faults' <= 1
  BY DEF Sound
<1>3. card.st = "tran"
  BY <1>1
<1>4. o \in {"ok", "unseen", "reject"}
  <2>1. o \in NotTaken \cup {"ok"}
    BY <1>1, <1>2 DEF Covered, To
  <2>2. sdhc
    BY DEF Sound, Agree
  <2> QED
    BY <2>1, <2>2, OutcomesAre DEF NotTaken
<1>5. faults' = IF o = "ok" THEN faults ELSE faults + 1
  BY <1>1, <1>2, <1>4 DEF Counts, NoFault
<1>6. Takes(c)
  BY <1>3 DEF Takes, From
<1> DEFINE t == To(c, "")
<1>7. To(c, card.st) = t
  BY ToTransfer
<1> HIDE DEF t
<1>8. card'.st = IF ~Takes(c) \/ o \in NotTaken THEN card.st ELSE t
  BY <1>1, <1>7 DEF CardMoves
<1>9. CASE o = "ok"
  <2>1. card'.st = t /\ faults' = faults /\ Answer(c, o) = "end"
    BY <1>5, <1>6, <1>8, <1>9 DEF Answer, NotTaken
  <2> QED
    BY <1>9, <2>1 DEF t
<1>10. CASE o \in {"unseen", "reject"}
  <2>1. card'.st = "tran" /\ faults' = faults + 1 /\ Answer(c, o) = "none"
    BY <1>3, <1>5, <1>8, <1>10 DEF Answer, NotTaken
  <2> QED
    BY <1>10, <2>1
<1> QED
  BY <1>4, <1>9, <1>10

\* A try that a fault or the first transfer cost is not the last one.
LEMMA TryLeft ==
  ASSUME tries \in Nat, faults' \in Nat, faults' <= 1, tries + 1 <= Spent',
         NEW t \in {SD_READ_TRIES, SD_WRITE_TRIES}, NEW s, NEW r, Retry(t, s, r)
  PROVE  at_cmd' = s /\ tries' = tries + 1
<1>1. FirstSpent' = 0 \/ FirstSpent' = 1
  BY DEF FirstSpent
<1>2. Spent' = faults' + FirstSpent'
  BY DEF Spent
<1>3. t \in Nat /\ t > 2
  BY SdAssumption, SdTriesAssumption
<1>4. ASSUME NEW f \in Nat, NEW g \in {0, 1}, NEW n \in Nat, NEW m \in Nat, f <= 1, n + 1 <= f + g, m > 2
      PROVE  n + 1 < m
  BY <1>4
<1>5. tries + 1 < t
  <2>1. tries + 1 <= faults' + FirstSpent' /\ FirstSpent' \in {0, 1}
    BY <1>1, <1>2
  <2> QED
    BY <1>3, <1>4, <2>1
<1> QED
  BY <1>5 DEF Retry

\* A command that the card did not take.
LEMMA FaultSpends ==
  ASSUME tries \in Nat, faults \in Nat, faults' = faults + 1, UNCHANGED fresh, tries <= Spent
  PROVE  tries + 1 <= Spent'
<1>1. FirstSpent' = FirstSpent /\ FirstSpent \in {0, 1}
  BY FirstIs DEF FirstSpent
<1> QED
  BY <1>1 DEF Spent

LEMMA SpentGrows ==
  ASSUME tries \in Nat, faults \in Nat, faults' \in Nat, faults <= faults', UNCHANGED fresh, tries + 1 <= Spent
  PROVE  tries + 1 <= Spent'
<1>1. FirstSpent' = FirstSpent /\ FirstSpent \in {0, 1}
  BY FirstIs DEF FirstSpent
<1>2. ASSUME NEW n \in Nat, NEW f \in Nat, NEW g \in Nat, NEW h \in {0, 1}, n + 1 <= f + h, f <= g
      PROVE  n + 1 <= g + h
  BY <1>2
<1>3. tries + 1 <= faults + FirstSpent /\ Spent' = faults' + FirstSpent
  BY <1>1 DEF Spent
<1> QED
  BY <1>1, <1>2, <1>3

\* A data phase that fails: the first one for no fault, a later one for one.
LEMMA DataSpends ==
  ASSUME tries \in Nat, faults \in Nat, faults' \in Nat, faults <= faults', fresh' = FALSE,
         tries <= Spent, ~fresh => faults' = faults + 1
  PROVE  tries + 1 <= Spent'
<1>1. Spent' = faults' + 1
  BY DEF Spent, FirstSpent
<1>4. ASSUME NEW n \in Nat, NEW f \in Nat, NEW g \in Nat, n <= f, f <= g
      PROVE  n + 1 <= g + 1
  BY <1>4
<1>2. CASE fresh
  <2>1. Spent = faults
    BY <1>2, FirstIs DEF Spent
  <2>2. tries <= faults
    BY <2>1
  <2>3. tries + 1 <= faults' + 1
    BY <1>4, <2>2
  <2> QED
    BY <1>1, <2>3
<1>3. CASE ~fresh
  <2>1. Spent = faults + 1
    BY <1>3, FirstIs DEF Spent
  <2>2. faults' = faults + 1
    BY <1>3
  <2>3. tries <= faults + 1
    BY <2>1
  <2> QED
    BY <1>1, <2>2, <2>3
<1> QED
  BY <1>2, <1>3

\* An operation that ends reports success.
EndsWell == at_cmd' = "idle" => rc' = 0
Kept == card'.st \in CardAt' /\ TriesInv' /\ EndsWell

LEMMA CoverRead ==
  ASSUME TypeInv, CoverInv, sd_read_block
  PROVE  CoverInv' /\ (Sound' => EndsWell)
<1>0. tries \in Nat /\ faults \in Nat
  BY DEF CoverInv, CountsInv
<1>1. CASE sd_read_cmd
  <2>1. PICK o \in Outcomes(17) :
          /\ CardTakes(17, o) /\ Fault(17, o)
          /\ IF RespEnd(Answer(17, o)) THEN GoOn("read") ELSE Retry(SD_READ_TRIES, "cmd17", -1)
    BY <1>1 DEF sd_read_cmd
  <2>2. at_cmd = "cmd17" /\ UNCHANGED <<wide, rca, sdhc, fresh>> /\ CardAt = {"tran"}
    BY <1>1 DEF sd_read_cmd, sd_regs, CardAt
  <2>3. /\ faults' \in Nat /\ (Sound' => TriesInv)
    BY <2>1, <2>2, CommandStep
  <2>4. tries' \in Nat /\ at_cmd' \in {"read", "cmd17", "idle"}
    BY <1>0, <2>1, Retries DEF GoOn
  <2>5. ASSUME Sound' PROVE Kept
    <3>1. tries <= Spent
      BY <2>2, <2>3, <2>5 DEF TriesInv
    <3>2. CASE o = "ok"
      <4>1. card'.st = "data" /\ faults' = faults /\ Answer(17, o) = "end"
        <5>1. card'.st = To(17, "") /\ faults' = faults /\ Answer(17, o) = "end"
          BY <2>1, <2>2, <2>5, <3>2, TransferBegins
        <5> QED
          BY <5>1, Transfers
      <4>2. at_cmd' = "read" /\ tries' = tries
        BY <2>1, <4>1 DEF RespEnd, GoOn
      <4>3. Spent' = Spent
        BY <2>2, <4>1 DEF Spent, FirstSpent
      <4> QED
        BY <3>1, <4>1, <4>2, <4>3 DEF Kept, EndsWell, CardAt, TriesInv
    <3>3. CASE o # "ok"
      <4>1. card'.st = "tran" /\ faults' = faults + 1 /\ Answer(17, o) = "none"
        BY <2>1, <2>2, <2>5, <3>3, TransferBegins
      <4>2. Retry(SD_READ_TRIES, "cmd17", -1)
        BY <2>1, <4>1 DEF RespEnd
      <4>3. tries + 1 <= Spent'
        BY <1>0, <2>2, <3>1, <4>1, FaultSpends
      <4>4. at_cmd' = "cmd17" /\ tries' = tries + 1
        BY <1>0, <2>3, <2>5, <4>2, <4>3, TryLeft DEF Sound
      <4> QED
        BY <4>1, <4>3, <4>4 DEF Kept, EndsWell, CardAt, TriesInv
    <3> QED
      BY <3>2, <3>3
  <2> QED
    BY <2>3, <2>4, <2>5, CoverEnd DEF Kept, UpSteps
<1>2. CASE sd_read_data
  <2>1. PICK o \in DataOutcomes :
          /\ DataFault(o) /\ card' = CardSent
          /\ IF o = "lost" THEN Retry(SD_READ_TRIES, "cmd17", -2) ELSE Return(0)
    BY <1>2 DEF sd_read_data
  <2>2. at_cmd = "read" /\ UNCHANGED <<wide, rca, sdhc>> /\ fresh' = FALSE
    BY <1>2 DEF sd_read_data, sd_regs
  <2>3. card'.wide = card.wide /\ (card.st = "data" => card'.st = "tran")
        /\ (card.st # "data" => card'.st = card.st)
    BY <2>1 DEF CardSent, TypeInv, SdTypeOK
  <2>4. faults' \in Nat /\ faults <= faults'
    BY <1>0, <2>1 DEF DataFault
  <2>5. tries' \in Nat /\ at_cmd' \in {"cmd17", "idle"}
    BY <1>0, <2>1, Retries DEF Return
  <2>6. ASSUME Sound' PROVE Kept
    <3>1. Sound
      <4>1. faults' <= 1 => faults <= 1
        BY <1>0, <2>4
      <4>2. card'.st \in Active => card.st \in Active
        BY <2>3 DEF Active
      <4> QED
        BY <1>0, <2>2, <2>3, <2>4, <2>6, <4>1, <4>2, StaysSound
    <3>2. card.st = "data" /\ tries <= Spent
      BY <2>2, <3>1 DEF CoverInv, CardAt, TriesInv
    <3>3. DataCan <=> ~fresh
      BY <3>1, <3>2 DEF DataCan, Sound, Agree
    <3>4. CASE o = "lost"
      <4>1. ~fresh => faults' = faults + 1
        <5>1. faults' = IF o = "ok" \/ (~DataCan /\ o = "lost") THEN faults ELSE faults + 1
          BY <2>1 DEF DataFault
        <5> HIDE DEF DataCan
        <5> QED
          BY <3>3, <3>4, <5>1
      <4>2. tries + 1 <= Spent'
        BY <1>0, <2>2, <2>4, <3>2, <4>1, DataSpends
      <4>3. at_cmd' = "cmd17" /\ tries' = tries + 1
        BY <1>0, <2>1, <2>4, <2>6, <3>4, <4>2, TryLeft DEF Sound
      <4> QED
        BY <2>3, <3>2, <4>2, <4>3 DEF Kept, EndsWell, CardAt, TriesInv
    <3>5. CASE o # "lost"
      <4>1. at_cmd' = "idle" /\ rc' = 0
        BY <2>1, <3>5 DEF Return
      <4> QED
        BY <2>3, <3>2, <4>1 DEF Kept, EndsWell, CardAt, TriesInv
    <3> QED
      BY <3>4, <3>5
  <2> QED
    BY <2>4, <2>5, <2>6, CoverEnd DEF Kept, UpSteps
<1> QED
  BY <1>1, <1>2 DEF sd_read_block

LEMMA CoverWriteCmd ==
  ASSUME TypeInv, CoverInv, ClearInv, sd_write_cmd
  PROVE  CoverInv' /\ (Sound' => EndsWell)
<1>0. tries \in Nat /\ faults \in Nat
  BY DEF CoverInv, CountsInv
<1>1. PICK o \in Outcomes(24) : \E errors \in Errors(o) :
        /\ CardTakes(24, o) /\ Fault(24, o)
        /\ IF send_resp(Answer(24, o)) /\ ~errors THEN GoOn("write") ELSE Retry(SD_WRITE_TRIES, "cmd24", -24)
  BY DEF sd_write_cmd
<1>2. at_cmd = "cmd24" /\ UNCHANGED <<wide, rca, sdhc, fresh>> /\ CardAt = {"tran"}
  BY DEF sd_write_cmd, CardAt
<1>3. faults' \in Nat /\ (Sound' => TriesInv)
  BY <1>1, <1>2, CommandStep
<1>4. tries' \in Nat /\ at_cmd' \in {"write", "cmd24", "idle"}
  BY <1>0, <1>1, Retries DEF GoOn
<1>5. ASSUME Sound' PROVE Kept
  <2>1. tries <= Spent
    BY <1>2, <1>3, <1>5 DEF TriesInv
  <2>2. CASE o = "ok"
    <3>1. card'.st = To(24, "") /\ faults' = faults /\ Answer(24, o) = "end"
      BY <1>1, <1>2, <1>5, <2>2, TransferBegins
    <3>5. err = FALSE
      <4>1. Sound
        BY <1>1, <1>2, <1>5, CommandStep
      <4> QED
        BY <1>2, <4>1 DEF ClearInv, ClearAt, ClearSteps
    <3>2. at_cmd' = "write" /\ tries' = tries
      BY <1>1, <2>2, <3>1, <3>5 DEF send_resp, GoOn, Errors
    <3>3. Spent' = Spent
      BY <1>2, <3>1 DEF Spent, FirstSpent
    <3>4. card'.st = "rcv"
      BY <3>1, Transfers
    <3> QED
      BY <2>1, <3>2, <3>3, <3>4 DEF Kept, EndsWell, CardAt, TriesInv
  <2>3. CASE o # "ok"
    <3>1. card'.st = "tran" /\ faults' = faults + 1 /\ Answer(24, o) = "none"
      BY <1>1, <1>2, <1>5, <2>3, TransferBegins
    <3>2. Retry(SD_WRITE_TRIES, "cmd24", -24)
      BY <1>1, <3>1 DEF send_resp
    <3>3. tries + 1 <= Spent'
      BY <1>0, <1>2, <2>1, <3>1, FaultSpends
    <3>4. at_cmd' = "cmd24" /\ tries' = tries + 1
      BY <1>0, <1>3, <1>5, <3>2, <3>3, TryLeft DEF Sound
    <3> QED
      BY <3>1, <3>3, <3>4 DEF Kept, EndsWell, CardAt, TriesInv
  <2> QED
    BY <2>2, <2>3
<1> QED
  BY <1>3, <1>4, <1>5, CoverEnd DEF Kept, UpSteps

LEMMA CoverWriteData ==
  ASSUME TypeInv, CoverInv, sd_write_data
  PROVE  CoverInv' /\ (Sound' => EndsWell)
<1>0. tries \in Nat /\ faults \in Nat
  BY DEF CoverInv, CountsInv
<1>1. PICK o \in (IF WriteCan THEN {"ok"} ELSE {"lost"})
                 \cup (IF faults < MaxFaults THEN {"crc", "lost", "late"} ELSE {}) :
        /\ faults' = IF o = "ok" \/ (o = "lost" /\ ~WriteCan) THEN faults ELSE faults + 1
        /\ card' = IF o \in {"ok", "late"} /\ WriteCan THEN [card EXCEPT !.st = "prg"]
                   ELSE IF o = "crc" /\ card.st = "rcv" THEN [card EXCEPT !.st = "tran"] ELSE card
        /\ GoOn(IF o = "ok" THEN "busy13" ELSE "cmd12")
  BY DEF sd_write_data
<1>2. /\ at_cmd = "write" /\ UNCHANGED <<wide, rca, sdhc, sd_op>> /\ fresh' = FALSE
      /\ tries' = tries /\ at_cmd' = IF o = "ok" THEN "busy13" ELSE "cmd12"
  BY <1>1 DEF sd_write_data, GoOn
<1>3. sd_op.name = "write"
  BY <1>2 DEF TypeInv, StepsMatch
<1>4. faults' \in Nat /\ faults <= faults'
  BY <1>0, <1>1
<1>5. /\ card'.wide = card.wide
      /\ card.st = "rcv" => card'.st \in {"rcv", "prg", "tran"} /\ (o = "ok" /\ WriteCan => card'.st = "prg")
      /\ card.st # "rcv" => card'.st = card.st
  <2>1. card \in [st : States, wide : BOOLEAN, fast : BOOLEAN]
    BY DEF TypeInv, SdTypeOK
  <2>2. WriteCan => card.st = "rcv"
    BY DEF WriteCan
  <2> HIDE DEF WriteCan
  <2> QED
    BY <1>1, <2>1, <2>2
<1>6. ASSUME Sound' PROVE Kept
  <2>1. Sound
    <3>1. faults' <= 1 => faults <= 1
      BY <1>0, <1>4
    <3>2. card'.st \in Active => card.st \in Active
      BY <1>5 DEF Active
    <3> QED
      BY <1>0, <1>2, <1>4, <1>5, <1>6, <3>1, <3>2, StaysSound
  <2>2. card.st = "rcv" /\ tries <= Spent
    BY <1>2, <2>1 DEF CoverInv, CardAt, TriesInv
  <2>3. WriteCan <=> ~fresh
    BY <2>1, <2>2 DEF WriteCan, Sound, Agree
  <2> HIDE DEF WriteCan
  <2>4. CASE o = "ok"
    <3>1. WriteCan
      BY <1>1, <2>4
    <3> QED
      BY <1>2, <1>5, <2>2, <2>4, <3>1 DEF Kept, EndsWell, CardAt, TriesInv
  <2>5. CASE o # "ok"
    <3>1. ~fresh => faults' = faults + 1
      BY <1>1, <2>3, <2>5
    <3>2. tries + 1 <= Spent'
      BY <1>0, <1>2, <1>4, <2>2, <3>1, DataSpends
    <3> QED
      BY <1>2, <1>3, <1>5, <2>2, <2>5, <3>2 DEF Kept, EndsWell, CardAt, TriesInv
  <2> QED
    BY <2>4, <2>5
<1> QED
  BY <1>0, <1>2, <1>4, <1>6, CoverEnd DEF Kept, UpSteps

\* CMD12 is seen, or no try covers it.
LEMMA Stopped ==
  ASSUME TypeInv, CoverInv, NEW o \in Outcomes(12), CardTakes(12, o), Fault(12, o), UNCHANGED <<wide, rca, sdhc>>, Sound'
  PROVE  /\ card.st \in CardAt /\ TriesInv /\ faults <= faults'
         /\ card'.st = IF card.st \in {"data", "rcv"} THEN "tran" ELSE card.st
<1>1. /\ CardMoves(12, o) /\ Counts(o) /\ Covered(12, o) /\ faults \in Nat
      /\ card.st \in CardAt /\ TriesInv
  BY CommandStep
<1>2. faults' <= 1
  BY DEF Sound
<1>3. o \notin NotTaken /\ faults <= faults'
  <2>1. o \notin NotTaken
    <3>1. o \notin {"unknown", "range"}
      BY OutcomesAre
    <3>2. o \notin {"unseen", "reject"}
      BY <1>1, <1>2 DEF Covered
    <3> QED
      BY <3>1, <3>2 DEF NotTaken
  <2>2. faults' = faults \/ faults' = faults + 1
    BY <1>1, <1>2 DEF Counts
  <2>3. faults <= faults'
    BY <1>1, <2>2
  <2> QED
    BY <2>1, <2>3
<1>4. Takes(12) <=> card.st \in {"data", "rcv"}
  BY DEF Takes, From
<1>5. To(12, card.st) = "tran"
  BY DEF To
<1>6. card'.st = IF ~Takes(12) \/ o \in NotTaken THEN card.st ELSE "tran"
  BY <1>1, <1>5 DEF CardMoves
<1>7. CASE card.st \in {"data", "rcv"}
  BY <1>1, <1>3, <1>4, <1>6, <1>7
<1>8. CASE card.st \notin {"data", "rcv"}
  BY <1>1, <1>3, <1>4, <1>6, <1>8
<1> QED
  BY <1>7, <1>8

LEMMA CoverWriteStop ==
  ASSUME TypeInv, CoverInv, sd_write_stop
  PROVE  CoverInv' /\ (Sound' => EndsWell)
<1>0. tries \in Nat /\ faults \in Nat
  BY DEF CoverInv, CountsInv
<1>1. PICK o \in Outcomes(12) : CardTakes(12, o) /\ Fault(12, o)
  BY DEF sd_write_stop
<1>2. /\ at_cmd = "cmd12" /\ sd_op.name = "write" /\ UNCHANGED <<wide, rca, sdhc, fresh, sd_op>>
      /\ tries' = tries /\ at_cmd' = "failed13"
  BY DEF sd_write_stop, sd_regs, GoOn
<1>3. faults' \in Nat
  BY <1>1, <1>2, CommandStep
<1>4. ASSUME Sound' PROVE Kept
  <2>1. /\ card.st \in CardAt /\ TriesInv /\ faults <= faults'
        /\ card'.st = IF card.st \in {"data", "rcv"} THEN "tran" ELSE card.st
    BY <1>1, <1>2, <1>4, Stopped
  <2>2. card.st \in {"rcv", "prg", "tran"} /\ tries + 1 <= Spent
    BY <1>2, <2>1 DEF CardAt, TriesInv
  <2>3. tries + 1 <= Spent'
    BY <1>0, <1>2, <1>3, <2>1, <2>2, SpentGrows
  <2> QED
    BY <1>2, <2>1, <2>2, <2>3 DEF Kept, EndsWell, CardAt, TriesInv
<1> QED
  BY <1>0, <1>2, <1>3, <1>4, CoverEnd DEF Kept, UpSteps

\* sd_wait_ready: a card that is sound and no longer busy says so.
LEMMA CoverWait ==
  ASSUME TypeInv, CoverInv, sd_wait_ready
  PROVE  CoverInv' /\ (Sound' /\ at_cmd # "ready13" => EndsWell)
<1>0. tries \in Nat /\ faults \in Nat
  BY DEF CoverInv, CountsInv
<1>1. PICK o \in {"ok"} \cup (Outcomes(13) \cap {"crc"}) :
        /\ CardTakes(13, o) /\ Fault(13, o)
        /\ CASE at_cmd = "ready13" -> Return(IF Ready(o) THEN 0 ELSE -13)
             [] at_cmd = "busy13" -> IF Ready(o) THEN Return(0) ELSE Retry(SD_WRITE_TRIES, "cmd24", -4)
             [] OTHER -> Retry(SD_WRITE_TRIES, "cmd24", -2)
  BY DEF sd_wait_ready
<1>2. /\ at_cmd \in {"ready13", "busy13", "failed13"} /\ card.st # "prg"
      /\ UNCHANGED <<wide, rca, sdhc, fresh, card, sd_op>>
  BY <1>1, CommandKeeps DEF sd_wait_ready, sd_regs, TypeInv
<1>3. faults' \in Nat /\ faults <= faults'
  BY <1>0, <1>1, SdAssumption DEF Fault, To
<1>4. tries' \in Nat /\ at_cmd' \in {"cmd24", "idle"}
  <2>1. CASE at_cmd = "ready13"
    BY <1>0, <1>1, <2>1 DEF Return
  <2>2. CASE at_cmd = "busy13"
    <3>1. Return(0) \/ Retry(SD_WRITE_TRIES, "cmd24", -4)
      BY <1>1, <2>2
    <3> QED
      BY <1>0, <3>1, Retries DEF Return
  <2>3. CASE at_cmd = "failed13"
    <3>1. Retry(SD_WRITE_TRIES, "cmd24", -2)
      BY <1>1, <2>3
    <3> QED
      BY <1>0, <3>1, Retries
  <2> QED
    BY <1>2, <2>1, <2>2, <2>3
<1>5. ASSUME Sound' PROVE card'.st \in CardAt' /\ TriesInv' /\ (at_cmd # "ready13" => EndsWell)
  <2>1. Sound
    <3>1. faults' <= 1 => faults <= 1
      BY <1>0, <1>3
    <3> QED
      BY <1>0, <1>2, <1>3, <1>5, <3>1, StaysSound
  <2>2. card.st = "tran" /\ card'.st = "tran"
    BY <1>2, <2>1 DEF CoverInv, CardAt
  <2>3. CASE at_cmd = "ready13"
    <3>1. at_cmd' = "idle"
      BY <1>1, <2>3 DEF Return
    <3> QED
      BY <2>2, <2>3, <3>1 DEF CardAt, TriesInv
  <2>4. CASE at_cmd = "busy13"
    <3>1. Takes(13)
      BY <2>1, <2>2 DEF Takes, From, Sound, Agree
    <3>2. Ready(o)
      BY <1>1, <2>2, <3>1 DEF Ready, Answer
    <3>3. Return(0)
      BY <1>1, <2>4, <3>2
    <3> QED
      BY <2>2, <3>3 DEF CardAt, TriesInv, EndsWell, Return
  <2>5. CASE at_cmd = "failed13"
    <3>1. Retry(SD_WRITE_TRIES, "cmd24", -2)
      BY <1>1, <2>5
    <3>2. tries + 1 <= Spent
      <4>1. sd_op.name = "write"
        BY <2>5 DEF TypeInv, StepsMatch
      <4> QED
        BY <2>1, <2>5, <4>1 DEF CoverInv, TriesInv
    <3>3. tries + 1 <= Spent'
      BY <1>0, <1>2, <1>3, <3>2, SpentGrows
    <3>4. at_cmd' = "cmd24" /\ tries' = tries + 1
      BY <1>0, <1>3, <1>5, <3>1, <3>3, TryLeft DEF Sound
    <3> QED
      BY <2>2, <3>3, <3>4 DEF CardAt, TriesInv, EndsWell
  <2> QED
    BY <1>2, <2>3, <2>4, <2>5
<1> QED
  BY <1>3, <1>4, <1>5, CoverEnd DEF UpSteps

\* A step that counts as all faults leaves nothing to cover.
LEMMA CoverLimit ==
  ASSUME TypeInv, CoverInv, sd_wait_limit
  PROVE  CoverInv' /\ ~Sound'
<1>0. tries \in Nat /\ faults \in Nat
  BY DEF CoverInv, CountsInv
<1>1. faults' = MaxFaults /\ MaxFaults \in Nat /\ MaxFaults > 1
  BY SdAssumption, SdTriesAssumption DEF sd_wait_limit
<1>2. ~Sound'
  BY <1>1 DEF Sound
<1>3. Return(0) \/ \E r \in {-4, -2} : Retry(SD_WRITE_TRIES, "cmd24", r)
  BY DEF sd_wait_limit
<1>4. tries' \in Nat /\ at_cmd' \in {"cmd24", "idle"}
  <2>1. CASE Return(0)
    BY <1>0, <2>1 DEF Return
  <2>2. CASE \E r \in {-4, -2} : Retry(SD_WRITE_TRIES, "cmd24", r)
    BY <1>0, <2>2, Retries
  <2> QED
    BY <1>3, <2>1, <2>2
<1> QED
  BY <1>1, <1>2, <1>4, CoverEnd DEF UpSteps

LEMMA CoverAcmd6 ==
  ASSUME TypeInv, CoverInv, sd_acmd6
  PROVE  CoverInv'
<1>0. tries \in Nat /\ faults \in Nat
  BY DEF CoverInv, CountsInv
<1>1. PICK o \in Outcomes(55) :
        /\ Fault(55, o)
        /\ card' \in {card, [card EXCEPT !.wide = TRUE]}
  BY DEF sd_acmd6
<1>2. at_cmd = "acmd6" /\ at_cmd' \in {"idle", "cmd6"} /\ tries' = 0 /\ UNCHANGED <<rca, sdhc>>
  BY DEF sd_acmd6
<1>3. faults' \in Nat /\ (faults' <= 1 => faults <= 1)
  BY <1>0, <1>1, SdAssumption, SdTriesAssumption DEF Fault, To
<1>4. card'.st = card.st
  BY <1>1 DEF TypeInv, SdTypeOK
<1>5. ASSUME Sound' PROVE card'.st \in CardAt' /\ TriesInv'
  <2>1. rca /\ sdhc /\ card.st \in Active /\ faults <= 1
    <3>1. rca /\ sdhc /\ card.st \in Active /\ faults' <= 1
      BY <1>2, <1>4, <1>5 DEF Sound, Agree
    <3> QED
      BY <1>0, <1>3, <3>1
  <2>2. wide = card.wide
    BY <1>2 DEF CoverInv, UpInv, OneLine, TypeInv, SdTypeOK
  <2>3. card.st = "tran"
    BY <1>2, <2>1, <2>2 DEF CoverInv, Sound, Agree, CardAt
  <2> QED
    BY <1>2, <1>4, <2>3 DEF CardAt, TriesInv
<1> QED
  BY <1>2, <1>3, <1>5, CoverEnd DEF UpSteps

LEMMA CoverSwitch ==
  ASSUME TypeInv, CoverInv, ClearInv, sd_high_speed
  PROVE  CoverInv'
<1>0. tries \in Nat /\ faults \in Nat
  BY DEF CoverInv, CountsInv
<1>1. CASE switch_high_speed
  <2>1. PICK o \in Outcomes(6) : \E errors \in Errors(o) :
          /\ CardTakes(6, o) /\ Fault(6, o)
          /\ IF send_resp(Answer(6, o)) /\ ~errors THEN GoOn("switch") ELSE Retry(SD_SWITCH_TRIES, "cmd6", -6)
    BY <1>1 DEF switch_high_speed
  <2>2. at_cmd = "cmd6" /\ UNCHANGED <<wide, rca, sdhc, fresh>> /\ CardAt = {"tran"}
    BY <1>1 DEF switch_high_speed, sd_regs, CardAt
  <2>3. faults' \in Nat
    BY <2>1, <2>2, CommandStep
  <2>4. tries' \in Nat /\ at_cmd' \in {"switch", "cmd6", "idle"}
    BY <1>0, <2>1, Retries DEF GoOn
  <2>5. ASSUME Sound' PROVE card'.st \in CardAt' /\ TriesInv'
    <3>1. CASE o = "ok"
      <4>1. card'.st = To(6, "") /\ Answer(6, o) = "end"
        BY <2>1, <2>2, <2>5, <3>1, TransferBegins
      <4>4. err = FALSE
        <5>1. Sound
          BY <2>1, <2>2, <2>5, CommandStep
        <5> QED
          BY <2>2, <5>1 DEF ClearInv, ClearAt, ClearSteps
      <4>2. at_cmd' = "switch"
        BY <2>1, <3>1, <4>1, <4>4 DEF send_resp, GoOn, Errors
      <4>3. card'.st = "data"
        BY <4>1, Transfers
      <4> QED
        BY <4>2, <4>3 DEF CardAt, TriesInv
    <3>2. CASE o # "ok"
      <4>1. card'.st = "tran" /\ Answer(6, o) = "none"
        BY <2>1, <2>2, <2>5, <3>2, TransferBegins
      <4>2. Retry(SD_SWITCH_TRIES, "cmd6", -6)
        BY <2>1, <4>1 DEF send_resp
      <4>3. at_cmd' \in {"cmd6", "idle"}
        BY <1>0, <4>2, Retries
      <4> QED
        BY <4>1, <4>3 DEF CardAt, TriesInv
    <3> QED
      BY <3>1, <3>2
  <2> QED
    BY <2>3, <2>4, <2>5, CoverEnd DEF UpSteps
<1>2. CASE switch_status
  <2>1. PICK o \in DataOutcomes, agrees \in BOOLEAN :
          /\ DataFault(o) /\ card' = [CardSent EXCEPT !.fast = @ \/ (agrees /\ card.st = "data")]
          /\ GoOn("ready13") \/ \E r \in {-62, -64} : Retry(SD_SWITCH_TRIES, "cmd6", r)
    BY <1>2 DEF switch_status
  <2>2. at_cmd = "switch" /\ UNCHANGED <<wide, rca, sdhc>>
    BY <1>2 DEF switch_status
  <2>3. card'.wide = card.wide /\ (card.st = "data" => card'.st = "tran")
        /\ (card.st # "data" => card'.st = card.st)
    BY <2>1 DEF CardSent, TypeInv, SdTypeOK
  <2>4. faults' \in Nat /\ faults <= faults'
    BY <1>0, <2>1 DEF DataFault
  <2>5. tries' \in Nat /\ at_cmd' \in {"ready13", "cmd6", "idle"}
    BY <1>0, <2>1, Retries DEF GoOn
  <2>6. ASSUME Sound' PROVE card'.st \in CardAt' /\ TriesInv'
    <3>1. Sound
      <4>1. faults' <= 1 => faults <= 1
        BY <1>0, <2>4
      <4>2. card'.st \in Active => card.st \in Active
        BY <2>3 DEF Active
      <4> QED
        BY <1>0, <2>2, <2>3, <2>4, <2>6, <4>1, <4>2, StaysSound
    <3>2. card.st = "data"
      BY <2>2, <3>1 DEF CoverInv, CardAt
    <3> QED
      BY <2>3, <2>5, <3>2 DEF CardAt, TriesInv
  <2> QED
    BY <2>4, <2>5, <2>6, CoverEnd DEF UpSteps
<1> QED
  BY <1>1, <1>2 DEF sd_high_speed

\* The commands of sd_read_blocks.
LEMMA CoverMulti ==
  ASSUME TypeInv, CoverInv, sd_set_count \/ sd_read_multi \/ sd_multi_stop
  PROVE  CoverInv'
<1>0. tries \in Nat /\ faults \in Nat
  BY DEF CoverInv, CountsInv
<1>1. CASE sd_set_count
  <2>1. PICK o \in Outcomes(23) : CardTakes(23, o) /\ Fault(23, o)
    BY <1>1 DEF sd_set_count
  <2>2. /\ at_cmd = "cmd23" /\ UNCHANGED <<wide, rca, sdhc, fresh, sd_op>> /\ CardAt = {"tran"}
        /\ at_cmd' = "idle" \/ (at_cmd' = "cmd18" /\ cnt' = sd_op.n)
    BY <1>1 DEF sd_set_count, sd_regs, CardAt, GoOn, Return
  <2>3. faults' \in Nat /\ CardMoves(23, o) /\ (Sound' => card.st \in CardAt)
    BY <2>1, <2>2, CommandStep
  <2>4. To(23, card.st) = card.st
    BY DEF To
  <2>5. card'.st = card.st
    BY <2>3, <2>4 DEF CardMoves
  <2>6. tries' \in Nat
    BY <1>0, <1>1 DEF sd_set_count, GoOn, Return
  <2>7. CardAt' = {"tran"} /\ TriesInv'
    BY <2>2 DEF CardAt, TriesInv
  <2> QED
    BY <2>2, <2>3, <2>5, <2>6, <2>7 DEF CoverInv, CountsInv, UpInv
<1>2. CASE sd_read_multi
  <2>1. PICK o \in Outcomes(18) :
          /\ CardTakes(18, o) /\ Fault(18, o)
          /\ (RespEnd(Answer(18, o)) /\ at_cmd' = "multi") \/ (rc' = -18 /\ at_cmd' = "out")
    BY <1>2 DEF sd_read_multi, GoOn
  <2>2. at_cmd = "cmd18" /\ UNCHANGED <<wide, rca, sdhc, fresh, cnt, sd_op, tries>> /\ CardAt = {"tran"}
    BY <1>2 DEF sd_read_multi, sd_regs, sd_multi, CardAt, GoOn
  <2>3. faults' \in Nat
    BY <2>1, <2>2, CommandStep
  <2>4. cnt # 0
    <3>1. cnt = sd_op.n /\ sd_op.name = "blocks" /\ sd_op \in Ops \cup {NoOp}
      BY <2>2 DEF CoverInv, UpInv, TypeInv, StepsMatch, SdTypeOK
    <3> QED
      BY <3>1, OpsFacts
  <2>5. ASSUME Sound' PROVE card'.st \in CardAt' /\ TriesInv'
    <3>1. CASE o = "ok"
      <4>1. card'.st = To(18, "")
        BY <2>1, <2>2, <2>5, <3>1, TransferBegins
      <4>2. at_cmd' = "multi" \/ (at_cmd' = "out" /\ rc' = -18)
        BY <2>1
      <4>3. card'.st = "data"
        BY <4>1, Transfers
      <4> QED
        BY <2>2, <2>4, <4>2, <4>3 DEF CardAt, TriesInv
    <3>2. CASE o # "ok"
      <4>1. card'.st = "tran" /\ Answer(18, o) = "none"
        BY <2>1, <2>2, <2>5, <3>2, TransferBegins
      <4>2. at_cmd' = "out" /\ rc' = -18
        BY <2>1, <4>1 DEF RespEnd
      <4> QED
        BY <4>1, <4>2 DEF CardAt, TriesInv
    <3> QED
      BY <3>1, <3>2
  <2>6. at_cmd' \in {"multi", "out"}
    BY <2>1
  <2> QED
    BY <1>0, <2>2, <2>3, <2>5, <2>6, CoverEnd DEF UpSteps
<1>3. CASE sd_multi_stop
  <2>1. PICK o \in Outcomes(12) : CardTakes(12, o) /\ Fault(12, o)
    BY <1>3 DEF sd_multi_stop
  <2>2. /\ at_cmd = "cmd12" /\ sd_op.name = "blocks" /\ UNCHANGED <<wide, rca, sdhc, tries>> /\ at_cmd' = "idle"
    BY <1>3 DEF sd_multi_stop, sd_regs, GoOn
  <2>3. faults' \in Nat
    BY <2>1, <2>2, CommandStep
  <2>4. ASSUME Sound' PROVE card'.st \in CardAt' /\ TriesInv'
    <3>1. card.st \in CardAt /\ card'.st = IF card.st \in {"data", "rcv"} THEN "tran" ELSE card.st
      BY <2>1, <2>2, <2>4, Stopped
    <3>2. card.st \in {"data", "tran"}
      BY <2>2, <3>1 DEF CardAt
    <3> QED
      BY <2>2, <3>1, <3>2 DEF CardAt, TriesInv
  <2> QED
    BY <1>0, <2>2, <2>3, <2>4, CoverEnd DEF UpSteps
<1> QED
  BY <1>1, <1>2, <1>3

\* The steps of a transfer that is under way.
LEMMA CoverUnderWay ==
  ASSUME TypeInv, CoverInv,
         CardSends \/ DmaMoves \/ sd_next_chunk \/ sd_multi_end \/ sd_multi_error \/ sd_multi_out
  PROVE  CoverInv'
<1>0. tries \in Nat /\ faults \in Nat /\ cnt \in Nat
  BY DEF CoverInv, CountsInv, TypeInv, SdTypeOK
<1>1. CASE CardSends
  <2>1. /\ at_cmd = "multi" /\ at_cmd' = "multi" /\ cnt > 0 /\ cnt' = cnt - 1 /\ card.st = "data"
        /\ UNCHANGED <<wide, rca, sdhc, faults, tries>>
    BY <1>1 DEF CardSends, DataCan, sd_regs
  <2>2. card'.st = (IF cnt = 1 THEN "tran" ELSE "data") /\ card'.wide = card.wide
    BY <1>1, <2>1 DEF CardSends, TypeInv, SdTypeOK
  <2>3. card'.st \in CardAt' /\ TriesInv'
    BY <1>0, <2>1, <2>2 DEF CardAt, TriesInv
  <2> QED
    BY <1>0, <2>1, <2>3, CoverEnd DEF UpSteps
<1>2. CASE DmaMoves \/ sd_next_chunk
  <2>1. UNCHANGED <<card, wide, rca, sdhc, at_cmd, sd_op, cnt, rc, fresh, faults, tries>>
    BY <1>2 DEF DmaMoves, sd_next_chunk, sd_card, sd_regs
  <2> QED
    BY <2>1 DEF CoverInv, CountsInv, UpInv, OneLine, Sound, Agree, CardAt, TriesInv, Spent, FirstSpent
<1>3. CASE sd_multi_end \/ sd_multi_error
  <2>1. /\ at_cmd = "multi" /\ at_cmd' = "out" /\ UNCHANGED <<card, wide, rca, sdhc, tries>>
        /\ rc' # 0 \/ cnt = 0
    BY <1>3 DEF sd_multi_end, sd_multi_error, sd_card, sd_regs
  <2>2. faults' \in Nat /\ faults <= faults'
    <3>1. faults' = faults \/ faults' = faults + 1
      BY <1>3 DEF sd_multi_end, sd_multi_error
    <3> QED
      BY <1>0, <3>1
  <2>3. ASSUME Sound' PROVE card'.st \in CardAt' /\ TriesInv'
    <3>1. Sound
      <4>1. faults' <= 1 => faults <= 1
        BY <1>0, <2>2
      <4> QED
        BY <1>0, <2>1, <2>2, <2>3, <4>1, StaysSound
    <3>2. card.st \in {"data", "tran"} /\ (cnt = 0 => card.st = "tran")
      BY <2>1, <3>1 DEF CoverInv, CardAt
    <3> QED
      BY <2>1, <3>2 DEF CardAt, TriesInv
  <2> QED
    BY <1>0, <2>1, <2>2, <2>3, CoverEnd DEF UpSteps
<1>4. CASE sd_multi_out
  <2>1. /\ at_cmd = "out" /\ UNCHANGED <<card, wide, rca, sdhc, tries, faults, sd_op>>
        /\ at_cmd' = IF rc = 0 THEN "idle" ELSE "cmd12"
    BY <1>4 DEF sd_multi_out, sd_card, sd_regs, GoOn
  <2>2. sd_op.name = "blocks"
    BY <2>1 DEF TypeInv, StepsMatch
  <2>3. ASSUME Sound' PROVE card'.st \in CardAt' /\ TriesInv'
    <3>1. Sound
      BY <2>1, <2>3 DEF Sound, Agree
    <3>2. card.st \in {"data", "tran"} /\ (rc = 0 => card.st = "tran")
      BY <2>1, <3>1 DEF CoverInv, CardAt
    <3> QED
      BY <2>1, <2>2, <3>2 DEF CardAt, TriesInv
  <2> QED
    BY <1>0, <2>1, <2>3, CoverEnd DEF UpSteps
<1> QED
  BY <1>1, <1>2, <1>3, <1>4

\* The calls, and what the card does by itself.
LEMMA CoverAround ==
  ASSUME TypeInv, CoverInv, Call \/ sd_release_pins \/ CardReady \/ CardPulled
  PROVE  CoverInv'
<1>0. tries \in Nat /\ faults \in Nat
  BY DEF CoverInv, CountsInv
<1>1. CASE Call \/ sd_release_pins
  <2>1. /\ at_cmd \in {"idle", "release"} /\ UNCHANGED <<card, wide, rca, sdhc, faults>>
        /\ at_cmd' \in {"idle", "setup", "release", "cmd17", "cmd24", "cmd23"}
        /\ at_cmd' = "idle" \/ tries' = 0
    BY <1>1 DEF Call, First, sd_release_pins, sd_card, sd_regs, Return
  <2>2. tries' \in Nat
    BY <1>0, <1>1 DEF Call, sd_release_pins, Return
  <2>3. ASSUME Sound' PROVE card'.st \in CardAt' /\ TriesInv'
    <3>1. Sound
      BY <2>1, <2>3 DEF Sound, Agree
    <3>2. card.st = "tran"
      BY <2>1, <3>1 DEF CoverInv, CardAt
    <3>3. 0 <= Spent'
      <4>1. FirstSpent' \in {0, 1}
        BY DEF FirstSpent
      <4>2. ASSUME NEW f \in Nat, NEW g \in {0, 1} PROVE 0 <= f + g
        OBVIOUS
      <4>3. 0 <= faults' + FirstSpent'
        BY <1>0, <2>1, <4>1, <4>2
      <4> QED
        BY <4>3 DEF Spent
    <3>4. CardAt' = {"tran"}
      BY <2>1 DEF CardAt
    <3>5. TriesInv'
      BY <2>1, <3>3 DEF TriesInv
    <3> QED
      BY <2>1, <3>2, <3>4, <3>5
  <2> QED
    BY <1>0, <2>1, <2>2, <2>3, CoverEnd DEF UpSteps
<1>2. CASE CardReady
  <2>1. /\ card.st = "prg" \/ (card.st = "data" /\ at_cmd \notin {"read", "switch", "multi"})
        /\ UNCHANGED <<wide, rca, sdhc, at_cmd, sd_op, cnt, rc, fresh, faults, tries>>
    BY <1>2 DEF CardReady, sd_regs, sd_multi
  <2>2. card'.st = "tran" /\ card'.wide = card.wide
    BY <1>2 DEF CardReady, TypeInv, SdTypeOK
  <2>3. UpInv'
    <3>1. OneLine' <=> OneLine
      BY <2>1, <2>2, AgreeStays
    <3>2. card.st \in Active
      BY <2>1 DEF Active
    <3> QED
      BY <2>1, <3>1, <3>2 DEF CoverInv, UpInv
  <2>4. ASSUME Sound' PROVE card'.st \in CardAt' /\ TriesInv'
    <3>1. Sound
      BY <2>1, <2>2, <2>4 DEF Sound, Agree, Active
    <3>2. card.st \in CardAt /\ TriesInv
      BY <3>1 DEF CoverInv
    <3>3. TriesInv'
      BY <2>1, <3>2 DEF TriesInv, Spent, FirstSpent
    <3>4. "tran" \in CardAt
      BY <2>1, <3>2 DEF CardAt
    <3>5. CardAt' = CardAt
      BY <2>1 DEF CardAt
    <3> QED
      BY <2>2, <3>3, <3>4, <3>5
  <2> QED
    BY <1>0, <2>1, <2>3, <2>4 DEF CoverInv, CountsInv
<1>3. CASE CardPulled
  <2>1. /\ card'.st = "idle" /\ card'.wide = FALSE /\ faults' = MaxFaults
        /\ UNCHANGED <<wide, at_cmd, sd_op, cnt, tries>>
    BY <1>3 DEF CardPulled, CardOff, sd_regs, sd_multi
  <2>2. ~Sound'
    BY <2>1 DEF Sound, Active
  <2>3. UpInv'
    <3>1. OneLine => OneLine'
      BY <2>1 DEF OneLine
    <3>2. card'.st \notin Active
      BY <2>1 DEF Active
    <3> QED
      BY <2>1, <3>1, <3>2 DEF CoverInv, UpInv
  <2>4. faults' \in Nat
    BY <2>1, SdAssumption
  <2> QED
    BY <1>0, <2>1, <2>2, <2>3, <2>4 DEF CoverInv, CountsInv
<1> QED
  BY <1>1, <1>2, <1>3

LEMMA CoverNext ==
  ASSUME TypeInv, CoverInv, ClearInv, [SdNext]_sd_vars
  PROVE  CoverInv'
<1>1. CASE UNCHANGED sd_vars
  <2>1. UNCHANGED <<card, wide, rca, sdhc, at_cmd, sd_op, cnt, rc, fresh, faults, tries>>
    BY <1>1 DEF sd_vars, sd_card, sd_regs, sd_multi
  <2> QED
    BY <2>1 DEF CoverInv, CountsInv, UpInv, OneLine, Sound, Agree, CardAt, TriesInv, Spent, FirstSpent
<1>2. CASE sd_init
  BY <1>2, CoverStart, CoverAcmd6 DEF sd_init, StartNext
<1>3. CASE sd_high_speed
  BY <1>3, CoverSwitch
<1>4. CASE sd_read_block
  BY <1>4, CoverRead
<1>5. CASE sd_write_block
  BY <1>5, CoverWriteCmd, CoverWriteData, CoverWriteStop DEF sd_write_block
<1>6. CASE sd_read_blocks
  BY <1>6, CoverMulti, CoverUnderWay DEF sd_read_blocks
<1>7. CASE sd_wait_ready \/ sd_wait_limit
  BY <1>7, CoverWait, CoverLimit
<1>8. CASE Call \/ sd_release_pins \/ CardReady \/ CardPulled
  BY <1>8, CoverAround
<1>9. CASE CardSends \/ DmaMoves
  BY <1>9, CoverUnderWay
<1> QED
  BY <1>1, <1>2, <1>3, <1>4, <1>5, <1>6, <1>7, <1>8, <1>9 DEF SdNext, SdDriver

\* What a command leaves of an error: none when the card took it, the old state
\* when the card did not see it.
LEMMA CommandClears ==
  ASSUME NEW c, NEW o, CardTakes(c, o)
  PROVE  /\ Takes(c) /\ o \notin {"unseen", "reject", "unknown"} => err' = FALSE
         /\ send_resp(Answer(c, o)) => err' = FALSE
         /\ o = "unseen" => err' = err
<1>1. Takes(c) /\ o \notin {"unseen", "reject", "unknown"} => err' = FALSE
  BY DEF CardTakes, Takes
<1>2. send_resp(Answer(c, o)) => Takes(c) /\ o \notin {"unseen", "reject", "unknown"}
  BY DEF send_resp, Answer
<1>3. o = "unseen" => err' = err
  BY DEF CardTakes
<1> QED
  BY <1>1, <1>2, <1>3

\* sd_init and sd_high_speed: CMD7 clears, and a rejected ACMD6 or CMD6 counts
\* as all faults.
LEMMA ClearStart ==
  ASSUME TypeInv, CoverInv, ClearInv, sd_init \/ sd_high_speed
  PROVE  ClearInv'
<1>1. CASE sd_setup
  BY <1>1 DEF sd_setup, ClearInv
<1>2. CASE sd_cmd8 \/ sd_acmd41 \/ sd_cmd2 \/ sd_cmd3
  <2>1. CoverInv'
    BY <1>2, CoverStart DEF StartNext
  <2>2. at_cmd \in {"cmd8", "cmd41", "cmd2", "cmd3"} /\ at_cmd' \in {"cmd8", "cmd41", "cmd2", "cmd3", "cmd7", "idle"}
    BY <1>2 DEF sd_cmd8, sd_acmd41, sd_cmd2, sd_cmd3, GoOn, Return, Retry
  <2>3. card.st \notin Active
    BY <2>2 DEF CoverInv, UpInv
  <2>4. \/ \E c \in {8, 41, 2, 3} : \E o : CardTakes(c, o)
        \/ UNCHANGED card
    BY <1>2 DEF sd_cmd8, sd_acmd41, sd_cmd2, sd_cmd3
  <2>5. card'.st \notin Active
    BY <2>3, <2>4, CommandKeeps DEF Active, Selected, TypeInv
  <2> QED
    BY <2>5 DEF ClearInv, Sound
<1>3. CASE sd_cmd7
  <2>1. PICK o \in Outcomes(7) : /\ CardTakes(7, o)
                                 /\ IF send_resp(Answer(7, o)) THEN GoOn("acmd6") ELSE Return(-7)
    BY <1>3 DEF sd_cmd7
  <2>2. card.st \notin Active
    BY <1>3 DEF sd_cmd7, CoverInv, UpInv
  <2>3. CASE card' = card
    BY <2>2, <2>3 DEF ClearInv, Sound
  <2>4. CASE err' = FALSE
    BY <2>4 DEF ClearInv
  <2> QED
    BY <2>1, <2>3, <2>4 DEF CardTakes
<1>4. CASE sd_acmd6
  <2>1. PICK o \in Outcomes(55) : Fault(55, o) /\ err' = IF o = "unseen" THEN err ELSE o = "reject" \/ card.st # "tran"
    BY <1>4 DEF sd_acmd6
  <2>2. ASSUME Sound' PROVE err' = FALSE
    <3>1. /\ at_cmd = "acmd6" /\ UNCHANGED <<rca, sdhc>> /\ card'.st = card.st
      BY <1>4 DEF sd_acmd6, TypeInv, SdTypeOK
    <3>2. faults \in Nat /\ wide = card.wide
      BY <3>1 DEF CoverInv, CountsInv, UpInv, OneLine
    <3>3. faults' <= 1
      BY <2>2 DEF Sound
    <3>4. o # "reject" /\ faults <= 1
      BY <2>1, <3>2, <3>3, SdAssumption, SdTriesAssumption DEF Fault, To
    <3>5. Sound
      BY <2>2, <3>1, <3>2, <3>4 DEF Sound, Agree
    <3>6. card.st = "tran"
      BY <3>1, <3>5 DEF CoverInv, CardAt
    <3>7. err = FALSE
      BY <3>1, <3>5 DEF ClearInv, ClearAt, ClearSteps
    <3> QED
      BY <2>1, <3>4, <3>6, <3>7
  <2> QED
    BY <2>2 DEF ClearInv
<1>5. CASE switch_high_speed
  <2>1. PICK o \in Outcomes(6) : CardTakes(6, o) /\ Fault(6, o)
    BY <1>5 DEF switch_high_speed
  <2>2. at_cmd = "cmd6" /\ UNCHANGED <<wide, rca, sdhc>> /\ CardAt = {"tran"}
    BY <1>5 DEF switch_high_speed, sd_regs, CardAt
  <2>3. ASSUME Sound' PROVE err' = FALSE
    <3>1. Sound /\ card.st \in CardAt /\ Covered(6, o) /\ faults' <= 1
      BY <2>1, <2>2, <2>3, CommandStep DEF Sound
    <3>2. err = FALSE
      BY <2>2, <3>1 DEF ClearInv, ClearAt, ClearSteps
    <3>3. o # "reject" /\ o # "unknown"
      <4>1. o # "unknown"
        BY OutcomesAre
      <4>2. o # "reject"
        BY <3>1 DEF Covered
      <4> QED
        BY <4>1, <4>2
    <3>4. Takes(6)
      BY <2>2, <3>1 DEF Takes, From
    <3> QED
      BY <2>1, <3>2, <3>3, <3>4, CommandClears
  <2> QED
    BY <2>3 DEF ClearInv
<1>6. CASE switch_status
  <2>1. at_cmd = "switch" /\ UNCHANGED <<err, wide, rca, sdhc>>
    BY <1>6 DEF switch_status
  <2>2. PICK o \in DataOutcomes, agrees \in BOOLEAN :
          DataFault(o) /\ card' = [CardSent EXCEPT !.fast = @ \/ (agrees /\ card.st = "data")]
    BY <1>6 DEF switch_status
  <2>3. card'.wide = card.wide /\ (card'.st \in Active => card.st \in Active)
    BY <2>2 DEF CardSent, TypeInv, SdTypeOK, Active
  <2>4. faults \in Nat /\ faults' \in Nat /\ (faults' <= 1 => faults <= 1)
    <3>1. faults \in Nat
      BY DEF CoverInv, CountsInv
    <3>2. faults' = faults \/ faults' = faults + 1
      BY <2>2 DEF DataFault
    <3> QED
      BY <3>1, <3>2
  <2>5. Sound' => Sound
    BY <2>1, <2>3, <2>4, StaysSound
  <2> QED
    BY <2>1, <2>5 DEF ClearInv, ClearAt, ClearSteps
<1> QED
  BY <1>1, <1>2, <1>3, <1>4, <1>5, <1>6 DEF sd_init, sd_high_speed

\* Reads and writes: CMD17 clears what it does not look at, CMD13 what a CMD12
\* left, and a rejected CMD24 counts as all faults.
LEMMA ClearTries ==
  ASSUME TypeInv, CoverInv, ClearInv, sd_read_block \/ sd_write_block \/ sd_wait_ready \/ sd_wait_limit
  PROVE  ClearInv'
<1>0. faults \in Nat
  BY DEF CoverInv, CountsInv
<1>1. CASE sd_read_cmd
  <2>1. PICK o \in Outcomes(17) :
          /\ CardTakes(17, o) /\ Fault(17, o)
          /\ IF RespEnd(Answer(17, o)) THEN GoOn("read") ELSE Retry(SD_READ_TRIES, "cmd17", -1)
    BY <1>1 DEF sd_read_cmd
  <2>2. CASE RespEnd(Answer(17, o))
    BY <2>1, <2>2, CommandClears DEF RespEnd, send_resp, ClearInv
  <2>3. CASE ~RespEnd(Answer(17, o))
    <3>1. Sound' => EndsWell
      BY <1>1, CoverRead DEF sd_read_block
    <3>2. at_cmd' = "cmd17" \/ (at_cmd' = "idle" /\ rc' = -1)
      BY <2>1, <2>3 DEF Retry, Return
    <3>3. Sound' => at_cmd' = "cmd17"
      BY <3>1, <3>2 DEF EndsWell
    <3> QED
      BY <3>3 DEF ClearInv, ClearAt, ClearSteps
  <2> QED
    BY <2>2, <2>3
<1>2. CASE sd_read_data
  <2>1. at_cmd = "read" /\ UNCHANGED <<err, wide, rca, sdhc>>
    BY <1>2 DEF sd_read_data, sd_regs
  <2>2. PICK o \in DataOutcomes : DataFault(o) /\ card' = CardSent
    BY <1>2 DEF sd_read_data
  <2>3. card'.wide = card.wide /\ (card'.st \in Active => card.st \in Active)
    BY <2>2 DEF CardSent, TypeInv, SdTypeOK, Active
  <2>4. faults' \in Nat /\ (faults' <= 1 => faults <= 1)
    <3>1. faults' = faults \/ faults' = faults + 1
      BY <2>2 DEF DataFault
    <3> QED
      BY <1>0, <3>1
  <2>5. Sound' => Sound
    BY <1>0, <2>1, <2>3, <2>4, StaysSound
  <2> QED
    BY <2>1, <2>5 DEF ClearInv, ClearAt, ClearSteps
<1>3. CASE sd_write_cmd
  <2>1. PICK o \in Outcomes(24) : CardTakes(24, o) /\ Fault(24, o)
    BY <1>3 DEF sd_write_cmd
  <2>2. at_cmd = "cmd24" /\ UNCHANGED <<wide, rca, sdhc>> /\ CardAt = {"tran"}
    BY <1>3 DEF sd_write_cmd, CardAt
  <2>3. ASSUME Sound' PROVE err' = FALSE
    <3>1. Sound /\ card.st \in CardAt /\ Covered(24, o) /\ faults' <= 1
      BY <2>1, <2>2, <2>3, CommandStep DEF Sound
    <3>2. err = FALSE
      BY <2>2, <3>1 DEF ClearInv, ClearAt, ClearSteps
    <3>3. o # "reject" /\ o # "unknown"
      <4>1. o # "unknown"
        BY OutcomesAre
      <4>2. o # "reject"
        BY <3>1 DEF Covered
      <4> QED
        BY <4>1, <4>2
    <3>4. Takes(24)
      BY <2>2, <3>1 DEF Takes, From
    <3> QED
      BY <2>1, <3>2, <3>3, <3>4, CommandClears
  <2> QED
    BY <2>3 DEF ClearInv
<1>4. CASE sd_write_data \/ sd_write_stop
  <2>1. at_cmd' \in {"busy13", "cmd12", "failed13"}
    BY <1>4 DEF sd_write_data, sd_write_stop, GoOn
  <2> QED
    BY <2>1 DEF ClearInv, ClearAt, ClearSteps
<1>5. CASE sd_wait_ready
  <2>1. PICK o \in {"ok"} \cup (Outcomes(13) \cap {"crc"}) : CardTakes(13, o) /\ Fault(13, o)
    BY <1>5 DEF sd_wait_ready
  <2>2. UNCHANGED <<card, rca>>
    BY <1>5, <2>1, CommandKeeps DEF sd_wait_ready, sd_regs, TypeInv
  <2>3. ASSUME Sound' PROVE err' = FALSE
    <3>1. rca /\ card.st \in Active
      BY <2>2, <2>3 DEF Sound, Agree
    <3>2. Takes(13)
      BY <3>1 DEF Takes, From, Active
    <3> QED
      BY <2>1, <3>2, CommandClears
  <2> QED
    BY <2>3 DEF ClearInv
<1>6. CASE sd_wait_limit
  BY <1>6, CoverLimit DEF ClearInv
<1> QED
  BY <1>1, <1>2, <1>3, <1>4, <1>5, <1>6 DEF sd_read_block, sd_write_block

\* sd_read_blocks, the calls and the card: an error that a failed sd_read_blocks
\* leaves meets no CMD24 before a read or the next sd_init.
LEMMA ClearRest ==
  ASSUME TypeInv, PadsInv, DataInv, CoverInv, ClearInv,
         sd_read_blocks \/ sd_release_pins \/ Call \/ CardSends \/ DmaMoves \/ CardReady \/ CardPulled
  PROVE  ClearInv'
<1>0. faults \in Nat
  BY DEF CoverInv, CountsInv
<1>1. CASE sd_set_count
  <2>1. at_cmd' = "cmd18" \/ (at_cmd' = "idle" /\ rc' = -23)
    BY <1>1 DEF sd_set_count, GoOn, Return
  <2>2. sd_op'.name = "blocks"
    BY <1>1 DEF sd_set_count, TypeInv, StepsMatch
  <2> QED
    BY <2>1, <2>2 DEF ClearInv, ClearAt, ClearSteps
<1>2. CASE sd_read_multi
  <2>1. PICK o \in Outcomes(18) :
          /\ CardTakes(18, o)
          /\ (RespEnd(Answer(18, o)) /\ at_cmd' = "multi") \/ (rc' = -18 /\ at_cmd' = "out")
    BY <1>2 DEF sd_read_multi, GoOn
  <2>2. CASE RespEnd(Answer(18, o))
    BY <2>1, <2>2, CommandClears DEF RespEnd, send_resp, ClearInv
  <2>3. CASE rc' = -18 /\ at_cmd' = "out"
    BY <2>3 DEF ClearInv, ClearAt, ClearSteps
  <2> QED
    BY <2>1, <2>2, <2>3
<1>3. CASE sd_next_chunk \/ DmaMoves
  <2>1. UNCHANGED <<card, err, wide, rca, sdhc, at_cmd, sd_op, rc, faults>>
    BY <1>3 DEF sd_next_chunk, DmaMoves, sd_card, sd_regs
  <2> QED
    BY <2>1 DEF ClearInv, ClearAt, Sound, Agree
<1>4. CASE sd_multi_end \/ sd_multi_error
  <2>1. /\ at_cmd = "multi" /\ at_cmd' = "out" /\ UNCHANGED <<card, err, wide, rca, sdhc>>
    BY <1>4 DEF sd_multi_end, sd_multi_error, sd_card, sd_regs
  <2>2. faults' \in Nat /\ (faults' <= 1 => faults <= 1)
    <3>1. faults' = faults \/ faults' = faults + 1
      BY <1>4 DEF sd_multi_end, sd_multi_error
    <3> QED
      BY <1>0, <3>1
  <2>3. Sound' => Sound
    BY <1>0, <2>1, <2>2, StaysSound
  <2> QED
    BY <2>1, <2>3 DEF ClearInv, ClearAt, ClearSteps
<1>5. CASE sd_multi_out
  <2>1. /\ at_cmd = "out" /\ UNCHANGED <<card, err, wide, rca, sdhc, sd_op, rc, faults>>
        /\ at_cmd' = IF rc = 0 THEN "idle" ELSE "cmd12"
    BY <1>5 DEF sd_multi_out, sd_card, sd_regs, GoOn
  <2> QED
    BY <2>1 DEF ClearInv, ClearAt, ClearSteps, Sound, Agree
<1>6. CASE sd_multi_stop
  <2>1. sd_op.name = "blocks" /\ rc # 0 /\ at_cmd' = "idle" /\ UNCHANGED <<sd_op, rc>>
    BY <1>6 DEF sd_multi_stop, GoOn, DataInv
  <2> QED
    BY <2>1 DEF ClearInv, ClearAt, ClearSteps
<1>7. CASE sd_release_pins
  <2>1. at_cmd' = "idle" /\ sd_op'.name = "release"
    BY <1>7 DEF sd_release_pins, Return, TypeInv, StepsMatch
  <2> QED
    BY <2>1 DEF ClearInv, ClearAt, ClearSteps
<1>8. CASE Call
  <2>1. PICK o \in Ops :
          /\ o.name \notin {"start", "init"} => pads = "sd"
          /\ sd_op.name = "blocks" /\ rc \notin {0, -23} => o.name \in {"start", "init", "release"}
          /\ sd_op.name = "blocks" /\ rc = -23 => o.name \in {"start", "init", "read"}
          /\ sd_op' = o /\ at_cmd' = First(o)
    BY <1>8 DEF Call
  <2>2. at_cmd = "idle" /\ UNCHANGED <<card, err, wide, rca, sdhc, faults>>
    BY <1>8 DEF Call, sd_card, sd_regs
  <2>3. at_cmd' \in {"setup", "release", "cmd17", "cmd24", "cmd23"} /\ (at_cmd' = "cmd24" => o.name = "write")
    BY <2>1 DEF First
  <2>4. o.name = "write" => ClearAt
    BY <2>1, <2>2 DEF ClearAt, PadsInv, PadsComeBack, Done
  <2> QED
    BY <2>2, <2>3, <2>4 DEF ClearInv, ClearAt, ClearSteps, Sound, Agree
<1>9. CASE CardSends \/ CardReady
  <2>1. /\ UNCHANGED <<err, wide, rca, sdhc, at_cmd, sd_op, rc, faults>>
        /\ card.st \in Active
    BY <1>9 DEF CardSends, CardReady, DataCan, sd_regs, Active
  <2>2. card'.wide = card.wide
    BY <1>9 DEF CardSends, CardReady, TypeInv, SdTypeOK
  <2> QED
    BY <2>1, <2>2 DEF ClearInv, ClearAt, Sound, Agree
<1>10. CASE CardPulled
  BY <1>10 DEF CardPulled, ClearInv
<1> QED
  BY <1>1, <1>2, <1>3, <1>4, <1>5, <1>6, <1>7, <1>8, <1>9, <1>10 DEF sd_read_blocks

LEMMA ClearNext ==
  ASSUME SdInv, CoverInv, ClearInv, [SdNext]_sd_vars
  PROVE  ClearInv'
<1>1. TypeInv /\ PadsInv /\ DataInv
  BY DEF SdInv
<1>2. CASE UNCHANGED sd_vars
  BY <1>2 DEF sd_vars, sd_card, sd_regs, ClearInv, ClearAt, Sound, Agree
<1> QED
  BY <1>1, <1>2, ClearStart, ClearTries, ClearRest DEF SdNext, SdDriver

TryNext == sd_read_block \/ sd_write_block \/ (sd_wait_ready /\ at_cmd # "ready13")

\* A try leaves the card sound when its faults are at most one.
LEMMA StillSound ==
  ASSUME TypeInv, CoverInv, TryNext, Sound, faults' <= 1
  PROVE  Sound'
<1>0. tries \in Nat /\ faults \in Nat /\ Agree /\ card.st \in Active
  BY DEF CoverInv, CountsInv, Sound
<1>1. ASSUME UNCHANGED <<wide, rca, sdhc>>, card'.wide = card.wide, card'.st \in Active PROVE Sound'
  BY <1>0, <1>1, AgreeStays DEF Sound
<1>2. ASSUME NEW c \in {17, 24, 12}, NEW o \in Outcomes(c), CardTakes(c, o), Fault(c, o), UNCHANGED <<wide, rca, sdhc>>
      PROVE  Sound'
  <2>1. card'.wide = card.wide /\ CardMoves(c, o)
    BY <1>0, <1>2, CommandCounts
  <2>2. To(c, card.st) \in Active
    BY <1>2 DEF To, Active
  <2>3. card'.st = card.st \/ card'.st = To(c, card.st)
    BY <2>1 DEF CardMoves
  <2>4. card'.st \in Active
    BY <1>0, <2>2, <2>3
  <2> QED
    BY <1>1, <1>2, <2>1, <2>4
<1>3. CASE sd_read_cmd
  <2>1. PICK o \in Outcomes(17) : CardTakes(17, o) /\ Fault(17, o)
    BY <1>3 DEF sd_read_cmd
  <2>2. UNCHANGED <<wide, rca, sdhc>>
    BY <1>3 DEF sd_read_cmd, sd_regs
  <2> QED
    BY <1>2, <2>1, <2>2
<1>4. CASE sd_write_cmd
  <2>1. PICK o \in Outcomes(24) : CardTakes(24, o) /\ Fault(24, o)
    BY <1>4 DEF sd_write_cmd
  <2>2. UNCHANGED <<wide, rca, sdhc>>
    BY <1>4 DEF sd_write_cmd
  <2> QED
    BY <1>2, <2>1, <2>2
<1>5. CASE sd_write_stop
  <2>1. PICK o \in Outcomes(12) : CardTakes(12, o) /\ Fault(12, o)
    BY <1>5 DEF sd_write_stop
  <2>2. UNCHANGED <<wide, rca, sdhc>>
    BY <1>5 DEF sd_write_stop, sd_regs
  <2> QED
    BY <1>2, <2>1, <2>2
<1>6. CASE sd_read_data
  <2>1. card' = CardSent /\ UNCHANGED <<wide, rca, sdhc>>
    BY <1>6 DEF sd_read_data, sd_regs
  <2>2. card'.wide = card.wide /\ card'.st \in Active
    BY <1>0, <2>1 DEF CardSent, Active, TypeInv, SdTypeOK
  <2> QED
    BY <1>1, <2>1, <2>2
<1>7. CASE sd_write_data
  <2>1. /\ card' \in {card, [card EXCEPT !.st = "prg"], [card EXCEPT !.st = "tran"]}
        /\ UNCHANGED <<wide, rca, sdhc>>
    BY <1>7 DEF sd_write_data
  <2>2. card'.wide = card.wide /\ card'.st \in Active
    BY <1>0, <2>1 DEF Active, TypeInv, SdTypeOK
  <2> QED
    BY <1>1, <2>1, <2>2
<1>8. CASE sd_wait_ready
  <2>0. PICK o : CardTakes(13, o)
    BY <1>8 DEF sd_wait_ready
  <2>1. UNCHANGED <<wide, rca, sdhc, card>>
    BY <1>8, <2>0, CommandKeeps DEF sd_wait_ready, sd_regs, TypeInv
  <2> QED
    BY <1>0, <1>1, <2>1
<1> QED
  BY <1>3, <1>4, <1>5, <1>6, <1>7, <1>8 DEF TryNext, sd_read_block, sd_write_block

\* A try takes no fault back.
LEMMA FaultsGrow ==
  ASSUME TypeInv, CoverInv, TryNext, faults' <= 1
  PROVE  faults <= 1
<1>0. faults \in Nat /\ MaxFaults \in Nat /\ MaxFaults > 1
  BY SdAssumption, SdTriesAssumption DEF CoverInv, CountsInv
<1>1. faults' \in {faults, faults + 1, MaxFaults}
  <2>1. CASE sd_read_cmd \/ sd_write_cmd \/ sd_write_stop \/ sd_wait_ready
    <3>1. PICK c \in {17, 24, 12, 13} : \E o : Fault(c, o)
      BY <2>1 DEF sd_read_cmd, sd_write_cmd, sd_write_stop, sd_wait_ready
    <3> QED
      BY <3>1 DEF Fault
  <2>2. CASE sd_read_data
    BY <2>2 DEF sd_read_data, DataFault
  <2>3. CASE sd_write_data
    BY <2>3 DEF sd_write_data
  <2> QED
    BY <2>1, <2>2, <2>3 DEF TryNext, sd_read_block, sd_write_block
<1> QED
  BY <1>0, <1>1

\* A step that ends a read or a write is a try or the limit.
LEMMA TriesEnd ==
  ASSUME TypeInv, [SdNext]_sd_vars, at_cmd # "idle", at_cmd' = "idle", sd_op.name \in {"read", "write"}
  PROVE  TryNext \/ sd_wait_limit
<1>1. /\ at_cmd \notin StartSteps \cup {"cmd23", "cmd18", "multi", "out", "release"}
      /\ at_cmd = "cmd12" => sd_op.name = "write"
  BY DEF TypeInv, StepsMatch, StartSteps
<1>2. at_cmd' # at_cmd
  OBVIOUS
<1>3. ~sd_init
  BY <1>1 DEF sd_init, sd_setup, sd_cmd8, sd_acmd41, sd_cmd2, sd_cmd3, sd_cmd7, sd_acmd6, StartSteps, InitSteps
<1>4. ~sd_high_speed
  BY <1>1 DEF sd_high_speed, switch_high_speed, switch_status, StartSteps
<1>5. ~sd_read_blocks /\ ~sd_release_pins /\ ~CardSends
  BY <1>1 DEF sd_read_blocks, sd_set_count, sd_read_multi, sd_next_chunk, sd_multi_end, sd_multi_error,
              sd_multi_out, sd_multi_stop, sd_release_pins, CardSends
<1>6. ~DmaMoves /\ ~CardReady /\ ~CardPulled /\ ~Call /\ ~UNCHANGED sd_vars
  BY <1>2 DEF DmaMoves, CardReady, CardPulled, Call, sd_vars
<1>7. sd_wait_ready => at_cmd # "ready13"
  BY <1>1 DEF StartSteps
<1> QED
  BY <1>3, <1>4, <1>5, <1>6, <1>7 DEF SdNext, SdDriver, TryNext

LEMMA TryEndsWell ==
  ASSUME TypeInv, CoverInv, ClearInv, TryNext, Sound'
  PROVE  EndsWell
  BY CoverRead, CoverWriteCmd, CoverWriteData, CoverWriteStop, CoverWait DEF TryNext, sd_write_block

LEMMA CoverAlways == SdSpec => [](SdInv /\ CoverInv /\ ClearInv)
<1>1. SdInit => SdInv /\ CoverInv /\ ClearInv
  <2>1. SdInit => ClearInv
    BY DEF SdInit, ClearInv
  <2> QED
    BY <2>1, SdInvInit, CoverInit
<1>2. SdInv /\ CoverInv /\ ClearInv /\ [SdNext]_sd_vars => SdInv' /\ CoverInv' /\ ClearInv'
  <2>1. SdInv => TypeInv
    BY DEF SdInv
  <2> QED
    BY <2>1, SdInvNext, CoverNext, ClearNext
<1> QED
  BY <1>1, <1>2, PTL DEF SdSpec

\* One fault after a sound sd_init, and the first transfer that always fails,
\* never make sd_read_block or sd_write_block fail: each costs one try, and at
\* each step the card stands where the driver expects it.  Not so after a wrong
\* address, g_sdhc or width, and not for a fault that leaves the card in a
\* transfer: those count as all faults.
THEOREM OneFaultIsCoveredTheorem == SdSpec => OneFaultIsCovered
<1> DEFINE Ok == at_cmd # "idle" /\ Done' /\ rc' # 0 /\ sd_op.name \in {"read", "write"} /\ faults' <= 1
                   => wide # card.wide \/ ~rca \/ ~sdhc \/ card.st \in {"idle", "ready", "ident", "stby"}
<1>1. ASSUME TypeInv, CoverInv, ClearInv, [SdNext]_sd_vars PROVE Ok
  <2> SUFFICES ASSUME at_cmd # "idle", Done', rc' # 0, sd_op.name \in {"read", "write"}, faults' <= 1,
                      wide = card.wide, rca, sdhc, card.st \notin {"idle", "ready", "ident", "stby"}
               PROVE  FALSE
    OBVIOUS
  <2>1. at_cmd' = "idle"
    BY DEF Done
  <2>2. TryNext \/ sd_wait_limit
    BY <1>1, <2>1, TriesEnd
  <2>3. ~sd_wait_limit
    BY SdAssumption, SdTriesAssumption DEF sd_wait_limit
  <2>4. faults <= 1
    BY <1>1, <2>2, <2>3, FaultsGrow
  <2>5. Sound
    BY <1>1, <2>4 DEF Sound, Agree, Active, TypeInv, SdTypeOK, States
  <2>6. Sound'
    BY <1>1, <2>2, <2>3, <2>5, StillSound
  <2>7. EndsWell
    BY <1>1, <2>2, <2>3, <2>6, TryEndsWell
  <2> QED
    BY <2>1, <2>7 DEF EndsWell
<1>2. SdInv /\ CoverInv /\ ClearInv /\ [SdNext]_sd_vars => Ok
  BY <1>1 DEF SdInv
<1> HIDE DEF Ok
<1>3. SdSpec => [][Ok]_sd_vars
  BY <1>2, CoverAlways, PTL DEF SdSpec
<1> QED
  BY <1>3 DEF Ok, OneFaultIsCovered

=============================================================================
