--------------------------------- MODULE Sd --------------------------------
(***************************************************************************)
(* The SD card driver (baremetal/lib/sd.c) with the card behind it, and    *)
(* card_start of aipc-boot/storage.c, which calls it.  An operation of the *)
(* driver is a sequence of steps, one for each command or data phase; any  *)
(* of them can be hit by a fault of the line, and the card can be pulled   *)
(* and put back between them.                                              *)
(*                                                                         *)
(* A block is its value.  The wait loops are single steps that end with    *)
(* what they wait for or with their limit.  The pads shared with the NAND  *)
(* controller are one value, not four registers.  CMD55 and the command    *)
(* behind it are one exchange.                                             *)
(***************************************************************************)
EXTENDS Integers, FiniteSets

CONSTANTS Blocks,          \* the blocks of the card, 0 .. n
          Vals,            \* what a block can hold
          SD_READ_TRIES, SD_WRITE_TRIES, SD_SWITCH_TRIES,
          CMD8_TRIES,      \* 10 in sd_init
          CHUNK,           \* blocks of a DMA chunk, L2_DMA_CHUNK
          MaxFaults        \* bound: faults until the next sd_init

ASSUME SdAssumption ==
  /\ IsFiniteSet(Blocks) /\ Blocks = 0 .. Cardinality(Blocks) - 1
  /\ Vals \subseteq Nat /\ MaxFaults \in Nat
  /\ {SD_READ_TRIES, SD_WRITE_TRIES, SD_SWITCH_TRIES, CMD8_TRIES, CHUNK} \subseteq Nat \ {0}

\* One try is the first transfer's and one a fault's (sd.c has 5 and 3), and
\* all faults are more than one.
ASSUME SdTriesAssumption == SD_READ_TRIES > 2 /\ SD_WRITE_TRIES > 2 /\ MaxFaults > 1

VARIABLES
  \* the card
  card,      \* [st, wide, fast]: its state, bus width and speed
  err,       \* the R1 of the next command that it takes has a bit of R1_ERRORS:
             \* the last one was damaged, or not for its state
  disk,      \* what its blocks hold
  \* the driver and its registers
  wide, rca, sdhc,    \* g_bus_4bit; g_rca_arg and g_sdhc are the card's
  fast,               \* MCI_CLOCK above the default
  pads, save,         \* who has the shared pads; g_pin_save, "none" when not valid
  dir_write,          \* SD_L2_DIR_WRITE
  dma,                \* blocks that the open L2 DMA request still has to move
  sd_op,              \* the operation in progress
  at_cmd,             \* its next step
  tries, rc,
  buf,                \* the caller's buffer, by block
  moved, sent, cnt,   \* sd_read_blocks: blocks in memory, blocks given to the
                      \* DMA, blocks that the MCI still expects (MCI_DATACNT)
  \* ghosts
  fresh,     \* no data transfer was tried since sd_init
  faults,    \* faults since the last sd_init began
  blind,     \* a response or data with a bad CRC was taken for good
  guessed    \* the clock was raised on a switch status with a bad CRC

sd_card == <<card, err, disk>>
sd_regs == <<wide, rca, sdhc, fast, pads, save, dir_write, guessed>>
sd_multi == <<dma, moved, sent, cnt>>
sd_vars == <<sd_card, sd_regs, sd_multi, sd_op, at_cmd, tries, rc, buf, fresh, faults, blind>>

NoOp == [name |-> "none", lba |-> 0, n |-> 0, val |-> 0]
CardOff == [st |-> "idle", wide |-> FALSE, fast |-> FALSE]
Garbage == -1

SdInit ==
  /\ card = CardOff /\ err = FALSE /\ disk \in [Blocks -> Vals]
  /\ wide = FALSE /\ rca = FALSE /\ sdhc = FALSE /\ fast = FALSE /\ guessed = FALSE
  /\ pads = "boot" /\ save = "none"
  /\ dir_write = FALSE /\ dma = 0 /\ moved = 0 /\ sent = 0 /\ cnt = 0
  /\ sd_op = NoOp /\ at_cmd = "idle" /\ tries = 0 /\ rc = -1
  /\ buf = [b \in Blocks |-> Garbage]
  /\ fresh = FALSE /\ faults = 0 /\ blind = FALSE

-----------------------------------------------------------------------------
(* The card, from the command set the driver uses.                         *)

\* The states in which the card takes a command, and where it goes.
From(c) == CASE c = 8 -> {"idle"} [] c = 41 -> {"idle"} [] c = 2 -> {"ready"}
             [] c = 3 -> {"ident"} [] c = 7 -> {"stby"} [] c = 13 -> {"stby", "tran", "data", "rcv", "prg"}
             [] c = 12 -> {"data", "rcv"} [] OTHER -> {"tran"}
To(c, s) == CASE c = 41 -> "ready" [] c = 2 -> "ident" [] c = 3 -> "stby" [] c = 7 -> "tran"
              [] c \in {6, 17, 18} -> "data" [] c = 24 -> "rcv" [] c = 12 -> "tran" [] OTHER -> s

\* CMD7 and CMD13 name the card.
Takes(c) == card.st \in From(c) /\ (c \in {7, 13} => rca)

\* A command meets no fault; or its response is damaged or lost; or the card
\* does not see it, or sees it damaged and rejects it.  A card need not know
\* CMD23, and with a wrong g_sdhc the address can be out of its range.
Outcomes(c) ==
  {"ok"} \cup (IF faults < MaxFaults THEN {"crc", "lost", "unseen", "reject"} ELSE {})
         \cup (IF c = 23 THEN {"unknown"} ELSE {})
         \cup (IF c \in {17, 18, 24} /\ ~sdhc THEN {"range"} ELSE {})
Answer(c, o) == IF ~Takes(c) \/ o \in {"lost", "unseen", "reject", "unknown"} THEN "none"
                ELSE IF o = "crc" THEN "crc" ELSE "end"

\* Whether r1 & R1_ERRORS is set in a response.  An error of the card itself is
\* a damaged response when the card goes on, and an unseen command when not.
Errors(o) == CASE o = "crc" -> BOOLEAN [] o = "range" -> {TRUE} [] OTHER -> {err}

\* No try covers a transfer that the card goes on with and the driver does not:
\* the card sends, or waits for a block.  Such a fault counts as all: the lost
\* response of a command with data; a CMD12 that the card does not take; and a
\* rejected command that CMD6 or CMD24 follows, for they give up on its bit.
Fault(c, o) ==
  faults' = IF o \in {"ok", "unknown", "range"} THEN faults
            ELSE IF \/ To(c, "") \in {"data", "rcv"} /\ o \in {"crc", "lost"}
                    \/ c \in {55, 6, 24} /\ o = "reject"
                    \/ c = 12 /\ o \in {"unseen", "reject"}
                 THEN MaxFaults ELSE faults + 1

\* The card's side of command c.
CardTakes(c, o) ==
  IF o = "unseen" \/ (c \in {7, 13} /\ ~rca) THEN UNCHANGED <<card, err>>
  ELSE IF o \in {"reject", "unknown"} \/ ~Takes(c) THEN UNCHANGED card /\ err' = TRUE
  ELSE /\ card' = IF o = "range" THEN card ELSE [card EXCEPT !.st = To(c, card.st)]
       /\ err' = FALSE

\* Where a transfer for block b goes.
Where(b) == IF sdhc THEN {b} ELSE Blocks

-----------------------------------------------------------------------------
(* The driver.                                                             *)

\* send_resp: a response with a bad CRC is a response.
send_resp(a) == a \in {"end", "crc"}

\* wait_sta(RESP_MASK) & STA_RESPEND.
RespEnd(a) == a = "end"

\* The operation returns r.
Return(r) == rc' = r /\ at_cmd' = "idle" /\ UNCHANGED tries
\* Mutant: one try less.
Retry_less(t, s, r) == IF tries + 2 < t THEN tries' = tries + 1 /\ at_cmd' = s /\ UNCHANGED rc
                       ELSE Return(r)
\* Mutant: the tries are not counted.
Retry_forever(t, s, r) == at_cmd' = s /\ UNCHANGED <<tries, rc>>
\* A failed try of t starts again at step s.
Retry(t, s, r) == IF tries + 1 < t THEN tries' = tries + 1 /\ at_cmd' = s /\ UNCHANGED rc
                  ELSE Return(r)
GoOn(s) == at_cmd' = s /\ UNCHANGED <<tries, rc>>

Ops == [name : {"start", "init", "release"}, lba : {0}, n : {0}, val : {0}]
       \cup [name : {"read"}, lba : Blocks, n : {1}, val : {0}]
       \cup [name : {"write"}, lba : Blocks, n : {1}, val : Vals]
       \cup [name : {"blocks"}, lba : {0}, n : 1 .. Cardinality(Blocks), val : {0}]

First(o) == CASE o.name \in {"start", "init"} -> "setup" [] o.name = "release" -> "release"
              [] o.name = "read" -> "cmd17" [] o.name = "write" -> "cmd24" [] OTHER -> "cmd23"

\* A caller's call.  sd_read_blocks failed: sd_init comes next (sd.h); without
\* CMD23 it is a read of single blocks (storage_read).
Call ==
  /\ at_cmd = "idle"
  /\ \E o \in Ops :
       /\ o.name \notin {"start", "init"} => pads = "sd"
       /\ sd_op.name = "blocks" /\ rc \notin {0, -23} => o.name \in {"start", "init", "release"}
       /\ sd_op.name = "blocks" /\ rc = -23 => o.name \in {"start", "init", "read"}
       /\ sd_op' = o /\ at_cmd' = First(o)
  /\ tries' = 0 /\ rc' = -1 /\ buf' = [b \in Blocks |-> Garbage] /\ blind' = FALSE
  /\ moved' = 0 /\ sent' = 0 /\ cnt' = 0
  /\ UNCHANGED <<sd_card, sd_regs, dma, fresh, faults>>

\* Mutant: the pads are saved by every sd_init.
save_pins_always == save' = pads

\* The first sd_init keeps the registers; a second one before sd_release_pins
\* must not.
save_pins == save' = IF save = "none" THEN pads ELSE save

\* Mutant: the clock of the last card stays.
sd_setup_keeps_clock ==
  /\ at_cmd = "setup"
  /\ wide' = FALSE /\ rca' = FALSE /\ sdhc' = FALSE /\ guessed' = FALSE /\ save_pins /\ pads' = "sd"
  /\ card' = CardOff /\ err' = FALSE /\ faults' = 0 /\ fresh' = TRUE /\ GoOn("cmd8")
  /\ UNCHANGED <<disk, fast, dir_write, sd_multi, sd_op, buf, blind>>

\* sd_init up to CMD0, which resets the card: pads, clock, controller.
sd_setup ==
  /\ at_cmd = "setup"
  /\ wide' = FALSE /\ rca' = FALSE /\ sdhc' = FALSE /\ fast' = FALSE /\ guessed' = FALSE
  /\ save_pins /\ pads' = "sd" /\ card' = CardOff /\ err' = FALSE /\ faults' = 0 /\ fresh' = TRUE /\ GoOn("cmd8")
  /\ UNCHANGED <<disk, dir_write, sd_multi, sd_op, buf, blind>>

\* The check pattern must come back whole.
sd_cmd8 ==
  /\ at_cmd = "cmd8"
  /\ \E o \in Outcomes(8) :
       /\ CardTakes(8, o) /\ Fault(8, o)
       /\ IF RespEnd(Answer(8, o)) THEN GoOn("cmd41") ELSE Retry(CMD8_TRIES, "cmd8", -8)
  /\ UNCHANGED <<disk, sd_regs, sd_multi, sd_op, buf, fresh, blind>>

\* CMD55 and ACMD41 until the card is ready; one lost answer ends the loop.  Its
\* CRC is not checked: a damaged answer can say ready, or not, and tell g_sdhc.
sd_acmd41 ==
  /\ at_cmd = "cmd41"
  /\ \E o \in Outcomes(41) :
       /\ Fault(41, o)
       /\ \/ /\ CardTakes(41, o)
             /\ IF RespEnd(Answer(41, o)) THEN GoOn("cmd2") /\ sdhc' = TRUE ELSE Return(-41) /\ UNCHANGED sdhc
          \/ /\ Answer(41, o) = "crc" /\ (CardTakes(41, o) \/ UNCHANGED <<card, err>>)
             /\ GoOn("cmd2") /\ sdhc' \in BOOLEAN
  /\ UNCHANGED <<disk, wide, rca, fast, pads, save, dir_write, guessed, sd_multi, sd_op, buf, fresh, blind>>

sd_cmd2 ==
  /\ at_cmd = "cmd2"
  /\ \E o \in Outcomes(2) :
       /\ CardTakes(2, o) /\ Fault(2, o)
       /\ IF RespEnd(Answer(2, o)) THEN GoOn("cmd3") ELSE Return(-2)
  /\ UNCHANGED <<disk, sd_regs, sd_multi, sd_op, buf, fresh, blind>>

\* A damaged response gives an address that is not the card's.
sd_cmd3 ==
  /\ at_cmd = "cmd3"
  /\ \E o \in Outcomes(3) :
       /\ CardTakes(3, o) /\ Fault(3, o) /\ rca' = RespEnd(Answer(3, o))
       /\ IF send_resp(Answer(3, o)) THEN GoOn("cmd7") ELSE Return(-3)
  /\ UNCHANGED <<disk, wide, sdhc, fast, pads, save, dir_write, guessed, sd_multi, sd_op, buf, fresh, blind>>

sd_cmd7 ==
  /\ at_cmd = "cmd7"
  /\ \E o \in Outcomes(7) :
       /\ CardTakes(7, o) /\ Fault(7, o)
       /\ IF send_resp(Answer(7, o)) THEN GoOn("acmd6") ELSE Return(-7)
  /\ UNCHANGED <<disk, sd_regs, sd_multi, sd_op, buf, fresh, blind>>

\* The card goes to four lines when it sees ACMD6, the driver when it has the
\* response.  sd_init ends here, which is all that openNBOOT calls; card_start
\* goes on with sd_high_speed.
sd_acmd6 ==
  /\ at_cmd = "acmd6"
  /\ \E o \in Outcomes(55) :
       /\ Fault(55, o)
       /\ card' = IF card.st = "tran" /\ o \notin {"unseen", "reject"} THEN [card EXCEPT !.wide = TRUE] ELSE card
       /\ err' = IF o = "unseen" THEN err ELSE o = "reject" \/ card.st # "tran"
       /\ wide' = (card.st = "tran" /\ o \in {"ok", "crc"})
  /\ at_cmd' = (IF sd_op.name = "init" THEN "idle" ELSE "cmd6") /\ tries' = 0 /\ rc' = 0
  /\ UNCHANGED <<disk, rca, sdhc, fast, pads, save, dir_write, guessed, sd_multi, sd_op, buf, fresh, blind>>

\* sd_high_speed; rc is its result.  A card that does not take it still works,
\* so card_start only logs it.
switch_high_speed ==
  /\ at_cmd = "cmd6"
  /\ \E o \in Outcomes(6) : \E errors \in Errors(o) :
       /\ CardTakes(6, o) /\ Fault(6, o)
       /\ IF send_resp(Answer(6, o)) /\ ~errors THEN GoOn("switch") ELSE Retry(SD_SWITCH_TRIES, "cmd6", -6)
  /\ UNCHANGED <<disk, sd_regs, sd_multi, sd_op, buf, fresh, blind>>

\* A data phase can deliver only to a bus of the same width, and the first one
\* after sd_init never does.
DataCan == ~fresh /\ card.st = "data" /\ wide = card.wide
DataOutcomes == (IF DataCan THEN {"ok"} ELSE {"lost"})
                \cup (IF faults < MaxFaults THEN {"lost", "crc"} ELSE {})
DataFault(o) == faults' = IF o = "ok" \/ (~DataCan /\ o = "lost") THEN faults ELSE faults + 1
WriteCan == ~fresh /\ card.st = "rcv" /\ wide = card.wide
CardSent == IF card.st = "data" THEN [card EXCEPT !.st = "tran"] ELSE card

\* The switch status: the card agreed, or not, or the status did not come.  Its
\* words are read before its CRC, and the wait for the end does not look at the
\* CRC: a damaged status fails, or is taken for what it says.
switch_status ==
  /\ at_cmd = "switch" /\ fresh' = FALSE
  /\ \E o \in DataOutcomes, agrees \in BOOLEAN, says \in BOOLEAN :
       /\ DataFault(o) /\ card' = [CardSent EXCEPT !.fast = @ \/ (agrees /\ card.st = "data")]
       /\ o = "ok" => says = agrees
       /\ \/ o # "lost" /\ says /\ fast' = TRUE /\ guessed' = (guessed \/ o = "crc") /\ GoOn("ready13")
          \/ o # "lost" /\ ~says /\ UNCHANGED <<fast, guessed>> /\ Retry(SD_SWITCH_TRIES, "cmd6", -64)
          \/ o # "ok" /\ UNCHANGED <<fast, guessed>> /\ Retry(SD_SWITCH_TRIES, "cmd6", -62)
  /\ UNCHANGED <<disk, err, wide, rca, sdhc, pads, save, dir_write, sd_multi, sd_op, buf, blind>>

\* sd_wait_ready: CMD13 until the card says tran, or the limit.  A damaged
\* response may say anything.
Ready(o) == (Answer(13, o) = "end" /\ card.st = "tran") \/ Answer(13, o) = "crc"

sd_wait_ready ==
  /\ at_cmd \in {"ready13", "busy13", "failed13"}
  /\ card.st # "prg"
  /\ \E o \in {"ok"} \cup (Outcomes(13) \cap {"crc"}) :
       /\ CardTakes(13, o) /\ Fault(13, o) /\ blind' = (blind \/ o = "crc")
       /\ CASE at_cmd = "ready13" -> Return(IF Ready(o) THEN 0 ELSE -13)
            [] at_cmd = "busy13" -> IF Ready(o) THEN Return(0) ELSE Retry(SD_WRITE_TRIES, "cmd24", -4)
            [] OTHER -> Retry(SD_WRITE_TRIES, "cmd24", -2)
  /\ UNCHANGED <<disk, sd_regs, sd_multi, sd_op, buf, fresh>>

\* The card takes longer than the limit, or its last response is damaged.
sd_wait_limit ==
  /\ at_cmd \in {"busy13", "failed13"} /\ card.st = "prg" /\ faults < MaxFaults
  /\ faults' = MaxFaults /\ err' = (err /\ ~rca)
  /\ \/ at_cmd = "busy13" /\ rca /\ blind' = TRUE /\ Return(0)
     \/ UNCHANGED blind /\ Retry(SD_WRITE_TRIES, "cmd24", IF at_cmd = "busy13" THEN -4 ELSE -2)
  /\ UNCHANGED <<card, disk, sd_regs, sd_multi, sd_op, buf, fresh>>

\* sd_read_block_once up to the response of CMD17.
sd_read_cmd ==
  /\ at_cmd = "cmd17"
  /\ \E o \in Outcomes(17) :
       /\ CardTakes(17, o) /\ Fault(17, o)
       /\ IF RespEnd(Answer(17, o)) THEN GoOn("read") ELSE Retry(SD_READ_TRIES, "cmd17", -1)
  /\ UNCHANGED <<disk, sd_regs, sd_multi, sd_op, buf, fresh, blind>>

\* The buffer fills, or the limit.  The data's CRC is not looked at.
sd_read_data ==
  /\ at_cmd = "read" /\ fresh' = FALSE
  /\ \E o \in DataOutcomes :
       /\ DataFault(o) /\ card' = CardSent
       /\ IF o = "lost" THEN Retry(SD_READ_TRIES, "cmd17", -2) /\ UNCHANGED <<buf, blind>>
          ELSE /\ Return(0)
               /\ \E b \in Where(sd_op.lba) : buf' = [buf EXCEPT ![sd_op.lba] = IF o = "ok" THEN disk[b] ELSE Garbage]
               /\ blind' = (blind \/ o = "crc")
  /\ UNCHANGED <<disk, err, sd_regs, sd_multi, sd_op>>

\* sd_write_block_once: CMD24, then the block goes to the L2 buffer.  An error in
\* its R1, an old one too, gives the try up: a card that took it waits on.
sd_write_cmd ==
  /\ at_cmd = "cmd24"
  /\ \E o \in Outcomes(24) : \E errors \in Errors(o) :
       /\ CardTakes(24, o) /\ Fault(24, o)
       /\ IF send_resp(Answer(24, o)) /\ ~errors
          THEN GoOn("write") /\ dir_write' = TRUE
          ELSE Retry(SD_WRITE_TRIES, "cmd24", -24) /\ UNCHANGED dir_write
  /\ UNCHANGED <<disk, wide, rca, sdhc, fast, pads, save, guessed, sd_multi, sd_op, buf, fresh, blind>>

\* Mutant: a block that the card refused is taken for written.
sd_write_data_refused ==
  /\ at_cmd = "write" /\ fresh' = FALSE /\ dir_write' = FALSE
  /\ \E o \in (IF WriteCan THEN {"ok"} ELSE {"lost"})
              \cup (IF faults < MaxFaults THEN {"crc", "lost", "late"} ELSE {}) :
       /\ faults' = IF o = "ok" \/ (o = "lost" /\ ~WriteCan) THEN faults ELSE faults + 1
       /\ IF o \in {"ok", "late"} /\ WriteCan
          THEN /\ \E b \in Where(sd_op.lba) : disk' = [disk EXCEPT ![b] = sd_op.val]
               /\ card' = [card EXCEPT !.st = "prg"]
          ELSE /\ UNCHANGED disk
               /\ card' = IF o = "crc" /\ card.st = "rcv" THEN [card EXCEPT !.st = "tran"] ELSE card
       /\ GoOn(IF o \in {"ok", "crc"} THEN "busy13" ELSE "cmd12")
  /\ UNCHANGED <<err, wide, rca, sdhc, fast, pads, save, guessed, sd_multi, sd_op, buf, blind>>

\* The data phase: the card programs the block, or refuses it (crc), or has no
\* block (lost), or programs it and the end is not seen (late).
sd_write_data ==
  /\ at_cmd = "write" /\ fresh' = FALSE /\ dir_write' = FALSE
  /\ \E o \in (IF WriteCan THEN {"ok"} ELSE {"lost"})
              \cup (IF faults < MaxFaults THEN {"crc", "lost", "late"} ELSE {}) :
       /\ faults' = IF o = "ok" \/ (o = "lost" /\ ~WriteCan) THEN faults ELSE faults + 1
       /\ IF o \in {"ok", "late"} /\ WriteCan
          THEN /\ \E b \in Where(sd_op.lba) : disk' = [disk EXCEPT ![b] = sd_op.val]
               /\ card' = [card EXCEPT !.st = "prg"]
          ELSE /\ UNCHANGED disk
               /\ card' = IF o = "crc" /\ card.st = "rcv" THEN [card EXCEPT !.st = "tran"] ELSE card
       /\ GoOn(IF o = "ok" THEN "busy13" ELSE "cmd12")
  /\ UNCHANGED <<err, wide, rca, sdhc, fast, pads, save, guessed, sd_multi, sd_op, buf, blind>>

\* CMD12 ends the receive state that a failed data phase can leave.
sd_write_stop ==
  /\ at_cmd = "cmd12" /\ sd_op.name = "write"
  /\ \E o \in Outcomes(12) : CardTakes(12, o) /\ Fault(12, o)
  /\ GoOn("failed13")
  /\ UNCHANGED <<disk, sd_regs, sd_multi, sd_op, buf, fresh, blind>>

\* sd_read_blocks: CMD23, and the first chunk goes to the DMA.
sd_set_count ==
  /\ at_cmd = "cmd23"
  /\ \E o \in Outcomes(23) : \E errors \in Errors(o) :
       /\ CardTakes(23, o) /\ Fault(23, o)
       /\ IF send_resp(Answer(23, o)) /\ ~errors
          THEN /\ GoOn("cmd18")
               /\ sent' = IF sd_op.n < CHUNK THEN sd_op.n ELSE CHUNK
               /\ dma' = sent' /\ moved' = 0 /\ cnt' = sd_op.n
          ELSE Return(-23) /\ UNCHANGED sd_multi
  /\ UNCHANGED <<disk, sd_regs, sd_op, buf, fresh, blind>>

sd_read_multi ==
  /\ at_cmd = "cmd18"
  /\ \E o \in Outcomes(18) : \E errors \in Errors(o) :
       /\ CardTakes(18, o) /\ Fault(18, o)
       /\ IF RespEnd(Answer(18, o)) /\ ~errors THEN GoOn("multi") ELSE rc' = -18 /\ at_cmd' = "out" /\ UNCHANGED tries
  /\ UNCHANGED <<disk, sd_regs, sd_multi, sd_op, buf, fresh, blind>>

\* The card sends the next block when the L2 buffer is free, and is done after
\* the last.
CardSends ==
  /\ at_cmd = "multi" /\ DataCan /\ cnt > 0 /\ moved + cnt = sd_op.n
  /\ cnt' = cnt - 1
  /\ card' = IF cnt = 1 THEN [card EXCEPT !.st = "tran"] ELSE card
  /\ UNCHANGED <<disk, err, sd_regs, dma, moved, sent, sd_op, at_cmd, tries, rc, buf, fresh, faults, blind>>

\* The L2 DMA moves it to memory.
DmaMoves ==
  /\ dma > 0 /\ moved + cnt < sd_op.n
  /\ \E b \in Where(sd_op.lba + moved) : buf' = [buf EXCEPT ![sd_op.lba + moved] = disk[b]]
  /\ moved' = moved + 1 /\ dma' = dma - 1
  /\ UNCHANGED <<sd_card, sd_regs, sent, cnt, sd_op, at_cmd, tries, rc, fresh, faults, blind>>

\* The next chunk, when the request bit is clear.
sd_next_chunk ==
  /\ at_cmd = "multi" /\ dma = 0 /\ sent < sd_op.n
  /\ dma' = IF sd_op.n - sent < CHUNK THEN sd_op.n - sent ELSE CHUNK
  /\ sent' = sent + dma'
  /\ UNCHANGED <<sd_card, sd_regs, moved, cnt, sd_op, at_cmd, tries, rc, buf, fresh, faults, blind>>

\* Mutant: DATAEND alone is the end.
sd_multi_end_early ==
  /\ at_cmd = "multi" /\ cnt = 0
  /\ at_cmd' = "out" /\ rc' = 0 /\ fresh' = FALSE
  /\ UNCHANGED <<sd_card, sd_regs, sd_multi, sd_op, tries, buf, faults, blind>>

\* The request bit is clear, all is sent, and DATAEND came with no count left.
sd_multi_end ==
  /\ at_cmd = "multi" /\ dma = 0 /\ sent = sd_op.n /\ cnt = 0
  /\ at_cmd' = "out" /\ rc' = 0 /\ fresh' = FALSE
  /\ UNCHANGED <<sd_card, sd_regs, sd_multi, sd_op, tries, buf, faults, blind>>

\* A data error or the limit.
sd_multi_error ==
  /\ at_cmd = "multi" /\ (DataCan => faults < MaxFaults /\ cnt > 0)
  /\ faults' = IF DataCan THEN faults + 1 ELSE faults
  /\ at_cmd' = "out" /\ rc' = -20 /\ fresh' = FALSE
  /\ UNCHANGED <<sd_card, sd_regs, sd_multi, sd_op, tries, buf, blind>>

\* Mutant: an open DMA request is left open.
sd_multi_out_open ==
  /\ at_cmd = "out"
  /\ IF rc = 0 THEN GoOn("idle") ELSE GoOn("cmd12")
  /\ UNCHANGED <<sd_card, sd_regs, sd_multi, sd_op, buf, fresh, faults, blind>>

\* out: the transfer stops, an open DMA request is cleared, and a failed
\* transfer needs CMD12.
sd_multi_out ==
  /\ at_cmd = "out" /\ dma' = 0
  /\ IF rc = 0 THEN GoOn("idle") ELSE GoOn("cmd12")
  /\ UNCHANGED <<sd_card, sd_regs, moved, sent, cnt, sd_op, buf, fresh, faults, blind>>

sd_multi_stop ==
  /\ at_cmd = "cmd12" /\ sd_op.name = "blocks"
  /\ \E o \in Outcomes(12) : CardTakes(12, o) /\ Fault(12, o)
  /\ GoOn("idle")
  /\ UNCHANGED <<disk, sd_regs, sd_multi, sd_op, buf, fresh, blind>>

\* sd_release_pins, and the NAND path may take the pads.
sd_release_pins ==
  /\ at_cmd = "release"
  /\ pads' = (IF save = "none" THEN pads ELSE save) /\ save' = "none"
  /\ Return(0)
  /\ UNCHANGED <<sd_card, wide, rca, sdhc, fast, dir_write, guessed, sd_multi, sd_op, buf, fresh, faults, blind>>

\* The card leaves the programming state, or has sent what nobody took.
CardReady ==
  /\ card.st = "prg" \/ (card.st = "data" /\ at_cmd \notin {"read", "switch", "multi"})
  /\ card' = [card EXCEPT !.st = "tran"]
  /\ UNCHANGED <<disk, err, sd_regs, sd_multi, sd_op, at_cmd, tries, rc, buf, fresh, faults, blind>>

\* The card is pulled and put back: all it knew of the driver is gone.  The
\* operations that run count it as all their faults.
CardPulled ==
  /\ card.st # "idle" /\ card' = CardOff /\ err' = FALSE /\ faults' = MaxFaults
  /\ UNCHANGED <<disk, sd_regs, sd_multi, sd_op, at_cmd, tries, rc, buf, fresh, blind>>

sd_init == sd_setup \/ sd_cmd8 \/ sd_acmd41 \/ sd_cmd2 \/ sd_cmd3 \/ sd_cmd7 \/ sd_acmd6
sd_high_speed == switch_high_speed \/ switch_status
sd_read_block == sd_read_cmd \/ sd_read_data
sd_write_block == sd_write_cmd \/ sd_write_data \/ sd_write_stop
sd_read_blocks == \/ sd_set_count \/ sd_read_multi \/ sd_next_chunk \/ sd_multi_end
                  \/ sd_multi_error \/ sd_multi_out \/ sd_multi_stop
SdDriver == \/ sd_init \/ sd_high_speed \/ sd_read_block \/ sd_write_block \/ sd_read_blocks
            \/ sd_wait_ready \/ sd_wait_limit \/ sd_release_pins
SdNext == Call \/ SdDriver \/ CardSends \/ DmaMoves \/ CardReady \/ CardPulled

SdFairness == WF_sd_vars(SdDriver) /\ WF_sd_vars(CardSends) /\ WF_sd_vars(DmaMoves) /\ WF_sd_vars(CardReady)
SdSpec == SdInit /\ [][SdNext]_sd_vars /\ SdFairness

-----------------------------------------------------------------------------
(* Properties.                                                             *)

Done == at_cmd = "idle"

(* A read that reports success left the card's blocks in the caller's      *)
(* buffer, whichever faults and retries came before, unless it took data   *)
(* with a bad CRC (sd_read_block_once does not look at STA_DATACRCFAIL) or *)
(* sd_init took g_sdhc from a damaged ACMD41, and addresses other blocks.  *)
ReadIsCard ==
  Done /\ rc = 0 /\ sd_op.name \in {"read", "blocks"} /\ ~blind /\ sdhc
    => \A b \in sd_op.lba .. sd_op.lba + sd_op.n - 1 : buf[b] = disk[b]

(* A write that reports success is on the card, programmed: not a block    *)
(* that an earlier try refused or never got (sd_write_block).  The same    *)
(* two damaged responses are excused.                                      *)
WriteIsStored ==
  Done /\ rc = 0 /\ sd_op.name = "write" /\ ~blind /\ sdhc
    => disk[sd_op.lba] = sd_op.val /\ card.st # "prg"

(* Success is the truth: after any faults and retries, what was read is    *)
(* what the card has and what was written is on it, but for responses and  *)
(* data whose bad CRC sd.c does not look at.                               *)
SuccessIsTrue == ReadIsCard /\ WriteIsStored

(* After an operation returned, the hardware does not go on: no DMA request*)
(* is open that could write the caller's memory later, and the L2 buffer   *)
(* is not left in the write direction that reads do not expect.            *)
NothingGoesOn == Done => dma = 0 /\ ~dir_write

(* However often sd_init ran and failed, sd_release_pins gives the pads    *)
(* back as they were before the first one, never the SD set-up.            *)
PadsComeBack == (Done /\ sd_op.name = "release") => pads = "boot"

(* The driver leaves nothing behind: no open DMA, no turned buffer, and    *)
(* after sd_release_pins none of its pads (sd_read_blocks, sd_init).       *)
NothingIsLeft == NothingGoesOn /\ PadsComeBack

(* One fault does not fail a read or a write after a sound sd_init: the    *)
(* tries also cover the first transfer, which always fails (SD_READ_TRIES, *)
(* SD_WRITE_TRIES).  They do not cover the faults that leave the card in a *)
(* transfer until the next sd_init: a lost response of CMD17 or CMD24, a   *)
(* CMD12 that the card does not take, and a CMD24 (or the CMD6 before it)  *)
(* that the card rejects, since the R1 of the next CMD24 tells of it and   *)
(* sd_write_block_once gives up a card that waits for its block.           *)
OneFaultIsCovered ==
  [][at_cmd # "idle" /\ Done' /\ rc' # 0 /\ sd_op.name \in {"read", "write"} /\ faults' <= 1
       => wide # card.wide \/ ~rca \/ ~sdhc \/ card.st \in {"idle", "ready", "ident", "stby"}]_sd_vars

(* The bus clock is above the default only for a card that agreed to it,   *)
(* through re-inits, failed switches and pulled cards, or after a          *)
(* switch status with a bad CRC that switch_high_speed took for good       *)
(* (sd_high_speed, sd_init).                                               *)
ClockFits == fast /\ card.st \in {"tran", "data", "rcv", "prg"} => card.fast \/ guessed

(* Every operation returns, whatever the card does: each wait has a limit. *)
OperationReturns == at_cmd # "idle" ~> at_cmd = "idle"
=============================================================================
