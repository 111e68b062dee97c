------------------------------ MODULE SdProbes ------------------------------
(***************************************************************************)
(* The probes of the SD card (baremetal/probes/sd/stub): programs that the *)
(* host loads one after the other and that pass on, in OUT, which          *)
(* experiment ran, how it ended and the sector it kept.  Two of them write *)
(* a test pattern over a range of the card and put the old data back.      *)
(*                                                                         *)
(* A program is the sequence of its operations.  A command or its answer   *)
(* can be lost, and a transfer can break off at any unit; the operation    *)
(* says whether the program then sends CMD12 and where it goes on.         *)
(*                                                                         *)
(* A unit is the data of 64 bytes and of one block at the same time; what  *)
(* a unit holds is u for the card's own data, -u for the pattern, 0 for    *)
(* anything else.  The words of OUT that only record registers are left    *)
(* out.                                                                    *)
(***************************************************************************)
EXTENDS Integers, Sequences, FiniteSets, SequencesExt

CONSTANTS
  UNITS,               \* of a request: TRANSFER_BLOCKS
  CHUNK,               \* units of one L2 DMA: DMA_CHUNK_BYTES
  SEGMENT, STRIDE,     \* of the scattered buffer: DMA_SEGMENT_BYTES, DMA_SEGMENT_STRIDE
  MaxPrograms,         \* bound: programs that the host runs
  MaxSdFaults          \* bound: operations that go wrong

ASSUME SdProbesAssumption ==
  /\ {UNITS, CHUNK, SEGMENT, STRIDE} \subseteq Nat \ {0} /\ SEGMENT <= STRIDE
  /\ UNITS % SEGMENT = 0 /\ {MaxPrograms, MaxSdFaults} \subseteq Nat

VARIABLES
  prog,        \* the program that runs: [name, path, mode, wide, armed]
  op,          \* the operation it is at
  sdc,         \* external: the card: [st, wide, fast, count]
  media,       \* external: the units of the range
  sub,         \* submitted: units that the DMA has moved
  ram,         \* the scattered buffer
  orig,        \* ORIGINAL
  kept,        \* the two sectors of OUT
  bad,         \* a unit compared unequal
  res,         \* OUT: [exp, err, rstr]; err is "" for 0
  first,       \* first_error
  runs, sdfaults,
  was          \* history: the range when the program started, the operation that failed last

sdp_vars == <<prog, op, sdc, media, sub, ram, orig, kept, bad, res, first, runs, sdfaults, was>>

Units == 1 .. UNITS
Guard == -UNITS - 1
RamSize == (UNITS \div SEGMENT) * STRIDE

-----------------------------------------------------------------------------
(* Operations.                                                             *)

\* x is an argument, stop: CMD12 goes out when it fails, to: where a failure
\* goes on, 0 for the end of the program.
O(name, x) == [op |-> name, x |-> x, stop |-> FALSE, to |-> 0]
Stops(seq) == [i \in DOMAIN seq |-> [seq[i] EXCEPT !.stop = TRUE]]
GoesTo(seq, to) == [i \in DOMAIN seq |-> [seq[i] EXCEPT !.to = to]]

Command(c) == <<O("cmd", c)>>
ready == <<O("ready", 0)>>

\* sd_init.c, and initialize_card of sd_pio.c: CMD5 must find no I/O card;
\* the first ACMD41 only asks, the second one is repeated while the card is
\* busy.
initialize_card ==
  <<O("cmd", "CMD0"), O("cmd", "CMD8"), O("cmd5", 0), O("cmd", "ACMD41?"), O("cmd", "CMD0"),
    O("cmd", "CMD8"), O("acmd41", 0), O("cmd", "CMD2"), O("cmd", "CMD3"), O("cmd", "CMD9"),
    O("cmd", "CMD7"), O("ready", 0)>>
sd_init_stub == initialize_card

\* set_four_bit_bus: CMD55, ACMD6, the faster clock.
set_four_bit_bus == <<O("cmd", "CMD55"), O("cmd", "ACMD6")>>

\* read_switch_status: CMD6 and its 64 bytes; the second time it switches.
read_switch_status(set) == <<O("cmd", IF set THEN "CMD6set" ELSE "CMD6"), O("end", 0)>>
enable_high_speed == read_switch_status(FALSE) \o read_switch_status(TRUE) \o ready

\* A block by CMD17 or CMD24, which no CMD12 ends.
read_one(u, use) == Command("CMD17") \o <<O(use, u), O("end", 0)>>
write_sector(restore) ==
  Command("CMD24") \o <<O(IF restore THEN "back" ELSE "send", IF restore THEN 1 ELSE -1), O("end", 0)>> \o ready
verify_sector(u, original) == read_one(u, IF original THEN "same" ELSE "pattern") \o <<O("judge", 0)>>

\* sd_pio.c: initialises the card and keeps a sector.
sd_pio == initialize_card \o read_one(1, "keep")

\* Mutant: the program ends when the pattern is verified.
sd_write_ends == <<O("guard", 4)>> \o ready \o write_sector(FALSE) \o verify_sector(1, FALSE)

\* sd_write.c: the first error ends it.
sd_write ==
  <<O("guard", 4)>> \o ready
    \o write_sector(FALSE) \o verify_sector(1, FALSE)
    \o write_sector(TRUE) \o verify_sector(1, TRUE)

\* sd_multiread.c: the first block is compared and the second one kept, then
\* read alone.
read_two_blocks ==
  Command("CMD18") \o Stops(<<O("same", 1), O("keep", 2), O("end", 0)>>) \o <<O("stop", 0), O("judge", 0)>>
verify_second_block == verify_sector(2, TRUE)
sd_multiread == <<O("guard", 4)>> \o ready \o read_two_blocks \o ready \o verify_second_block \o ready

\* sd_multiread8.c: the block kept is one of the request.
read_blocks_inner(target) ==
  Command("CMD18")
    \o Stops([u \in Units |-> O(IF u = target THEN "same" ELSE "take", u)] \o <<O("end", 0)>>)
    \o <<O("stop", 0), O("judge", 0)>>
sd_multiread8 ==
  <<O("guard", 4)>> \o ready \o (IF prog.wide THEN set_four_bit_bus \o ready ELSE <<>>)
    \o read_blocks_inner(1) \o ready

\* sd_highspeed.c: the sector of OUT goes to ORIGINAL before anything is
\* looked at.
compare_sector_at_high_speed == read_one(1, "stored") \o <<O("judge", 0)>>
sd_highspeed ==
  <<O("copy", 0), O("guard", 4)>> \o ready \o set_four_bit_bus \o enable_high_speed
    \o compare_sector_at_high_speed

\* sd_irq.c: every wait is for the line of the main interrupt controller,
\* and the error of a wait ends the program without CMD12.
wait_irq == <<O("irq", 0)>>
send_command_irq(command) == command \o wait_irq
wait_l2_irq == <<O("dma", "linear")>> \o wait_irq
wait_data_irq == <<O("end", 0)>> \o wait_irq
compare_first_sector == <<O("compare", "first"), O("judge", 0)>>
sd_irq ==
  <<O("guard", 51)>> \o send_command_irq(ready) \o send_command_irq(Command("CMD23"))
    \o send_command_irq(Command("CMD18")) \o wait_l2_irq \o wait_data_irq
    \o compare_first_sector \o send_command_irq(ready)

\* sd_irq_window.c: looks at the lines only.
observe_mci_window == wait_irq
observe_l2_window == wait_irq
sd_irq_window == <<O("guard", 51)>> \o observe_mci_window \o observe_mci_window \o observe_l2_window

-----------------------------------------------------------------------------
(* sd_multiwrite8.c.                                                       *)

\* The transfers through the FIFO of the controller and through the L2
\* buffer: a unit at a time.  The L2 build clears the buffer's status before
\* a block goes out.
finish_multiblock == <<O("stop", 0)>> \o ready
read_blocks_pio(mode) ==
  Command("CMD18")
    \o Stops([u \in Units |->
                O(CASE mode = "original" -> "store" [] mode = "pattern" -> "pattern" [] OTHER -> "stored", u)]
               \o <<O("end", 0)>>)
    \o finish_multiblock \o <<O("judge", 0)>>
read_blocks_l2(mode) == read_blocks_pio(mode)
fill_l2_block(u, restore) == O("send", IF restore THEN u ELSE -u)
write_blocks_l2(restore) ==
  Command("CMD25") \o Stops([u \in Units |-> fill_l2_block(u, restore)] \o <<O("end", 0)>>)
    \o finish_multiblock
write_blocks_pio(restore) == write_blocks_l2(restore)

Scatter == prog.path = "hs"
Counted == prog.path \in {"cmd23", "hs"}

\* The units of the next DMA: a chunk, of what is left, of one segment.
dma_transfer_bytes(buffer, offset) ==
  LET n == IF UNITS - offset > CHUNK THEN CHUNK ELSE UNITS - offset
      seg == SEGMENT - (offset % SEGMENT)
  IN IF buffer = "buffer" /\ Scatter /\ n > seg THEN seg ELSE n

\* Where a unit of the request is in the scattered buffer.
dma_ram_address(offset) ==
  IF Scatter THEN (offset \div SEGMENT) * STRIDE + (offset % SEGMENT) ELSE offset
dma_load_word(u) == ram[dma_ram_address(u - 1)]
IsGuard(a) == Scatter /\ a % STRIDE >= SEGMENT
check_dma_guards == \A a \in 0 .. RamSize - 1 : IsGuard(a) => ram[a] = Guard
fill_dma_guards == [a \in 0 .. RamSize - 1 |-> IF IsGuard(a) THEN Guard ELSE ram[a]]
\* dma_store_word, for every word.
FilledRam(restore) ==
  [a \in 0 .. RamSize - 1 |->
     IF \E u \in Units : dma_ram_address(u - 1) = a
     THEN LET u == CHOOSE u \in Units : dma_ram_address(u - 1) = a IN IF restore THEN orig[u] ELSE -u
     ELSE ram[a]]

\* Mutant: CMD12 also ends a counted request.
finish_dma_multiblock_stops == <<O("stop", 0)>> \o ready

\* set_block_count with CMD23, and the end of a request: CMD12, unless the
\* count ended it.
set_block_count == IF Counted THEN Command("CMD23") ELSE <<>>
finish_dma_multiblock == (IF Counted THEN <<>> ELSE <<O("stop", 0)>>) \o ready

read_blocks_dma(mode) ==
  set_block_count \o Command("CMD18")
    \o Stops(<<O("dma", IF mode = "original" THEN "original" ELSE "buffer"), O("end", 0)>>)
    \o finish_dma_multiblock
    \o (IF mode = "original" THEN <<>> ELSE <<O("compare", mode)>>) \o <<O("judge", 0), O("guards", 0)>>

write_blocks_dma(restore) ==
  <<O("fill", restore)>> \o set_block_count \o Command("CMD25")
    \o Stops(<<O("dma", "buffer"), O("end", 0)>>) \o finish_dma_multiblock \o <<O("guards", 0)>>

read_blocks(mode) ==
  CASE prog.path = "pio" -> read_blocks_pio(mode) [] prog.path = "l2" -> read_blocks_l2(mode)
    [] OTHER -> read_blocks_dma(mode)
write_blocks(restore) ==
  CASE prog.path = "pio" -> write_blocks_pio(restore) [] prog.path = "l2" -> write_blocks_l2(restore)
    [] OTHER -> write_blocks_dma(restore)

\* The bus of the build and of the parameter: high speed needs four bits.
start_bus ==
  (IF prog.wide THEN set_four_bit_bus ELSE <<>>)
    \o (IF prog.path = "hs" THEN <<O("four", 0)>> \o enable_high_speed ELSE <<>>) \o <<O("fillguards", 0)>>

\* Mutant: an error of the restore is kept and does not end it.
sd_multiwrite8_goes_on ==
  LET before == <<O("guard", 4)>> \o ready \o start_bus \o read_blocks("original")
      test == write_blocks(FALSE) \o read_blocks("pattern")
      back == write_blocks(TRUE) \o read_blocks("stored")
      mark == Len(before) + Len(test) + Len(back) + 2
  IN before \o GoesTo(test, Len(before) + Len(test) + 1)
       \o <<O("restore", 0)>> \o GoesTo(back, mark) \o <<O("restored", 0)>>

\* stub_main.  An error of the test is kept and the old data goes back.
sd_multiwrite8 ==
  LET start == <<O("guard", 4)>> \o ready \o start_bus
      before == start \o read_blocks("original")
      test == write_blocks(FALSE) \o read_blocks("pattern")
  IN CASE prog.mode = "capture" -> before
       [] prog.mode = "verify" -> start \o read_blocks("same")
       [] OTHER -> before \o GoesTo(test, Len(before) + Len(test) + 1)
                     \o <<O("restore", 0)>> \o write_blocks(TRUE) \o read_blocks("same") \o <<O("restored", 0)>>

-----------------------------------------------------------------------------
(* The card (external).                                                    *)

\* What a command finds and leaves; none is taken in another state.
Takes ==
  [CMD0 |-> {"idle", "ready", "ident", "stby", "tran", "data", "rcv"}, CMD8 |-> {"idle"},
   CMD2 |-> {"ready"}, CMD3 |-> {"ident"}, CMD9 |-> {"stby"}, CMD7 |-> {"stby"}, CMD55 |-> {"tran"},
   ACMD6 |-> {"tran"}, CMD6 |-> {"tran"}, CMD6set |-> {"tran"}, CMD17 |-> {"tran"}, CMD18 |-> {"tran"},
   CMD23 |-> {"tran"}, CMD24 |-> {"tran"}, CMD25 |-> {"tran"}] @@ ("ACMD41?" :> {"idle"})

After(c) ==
  CASE c = "CMD0" -> [sdc EXCEPT !.st = "idle", !.wide = FALSE, !.fast = FALSE, !.count = FALSE]
    [] c = "CMD2" -> [sdc EXCEPT !.st = "ident"] [] c = "CMD3" -> [sdc EXCEPT !.st = "stby"]
    [] c = "CMD7" -> [sdc EXCEPT !.st = "tran"] [] c = "ACMD6" -> [sdc EXCEPT !.wide = TRUE]
    [] c = "CMD6" -> [sdc EXCEPT !.st = "data", !.count = TRUE]
    [] c = "CMD6set" -> [sdc EXCEPT !.st = "data", !.count = TRUE, !.fast = TRUE]
    [] c = "CMD17" -> [sdc EXCEPT !.st = "data", !.count = TRUE]
    [] c = "CMD24" -> [sdc EXCEPT !.st = "rcv", !.count = TRUE]
    [] c = "CMD23" -> [sdc EXCEPT !.count = TRUE]
    [] c = "CMD18" -> [sdc EXCEPT !.st = "data"] [] c = "CMD25" -> [sdc EXCEPT !.st = "rcv"]
    [] OTHER -> sdc

\* All of a counted request has moved: the card is back by itself.
Over == IF sdc.count THEN [sdc EXCEPT !.st = "tran", !.count = FALSE] ELSE sdc
Stopped == IF sdc.st \in {"data", "rcv"} THEN [sdc EXCEPT !.st = "tran", !.count = FALSE] ELSE sdc

-----------------------------------------------------------------------------
(* Steps.                                                                  *)

Ops ==
  CASE prog.name = "init" -> sd_init_stub [] prog.name = "pio" -> sd_pio
    [] prog.name = "write" -> sd_write [] prog.name = "multiread" -> sd_multiread
    [] prog.name = "multiread8" -> sd_multiread8 [] prog.name = "highspeed" -> sd_highspeed
    [] prog.name = "irq" -> sd_irq [] prog.name = "window" -> sd_irq_window
    [] prog.name = "multiwrite8" -> sd_multiwrite8 [] OTHER -> <<>>

Exp == [init |-> 2, pio |-> 4, write |-> 6, multiread |-> 7, multiread8 |-> 8, highspeed |-> 51, irq |-> 55,
        window |-> 56, multiwrite8 |-> 15]

Loaded == op <= Len(Ops)
o == Ops[op]
Wide == prog.wide \/ prog.name \in {"highspeed", "irq"}
Reading == sdc.st = "data" /\ sdc.wide = Wide
Writing == sdc.st = "rcv" /\ sdc.wide = Wide

Unit_in == {"keep", "same", "store", "stored", "pattern", "take"}
Unit_out == {"send", "back"}

\* What goes wrong without a fault.
OFails ==
  CASE o.op = "guard" -> ~(prog.armed /\ prog.prev = [exp |-> o.x, err |-> ""])
    [] o.op = "cmd" -> sdc.st \notin Takes[o.x]
    [] o.op = "acmd41" -> sdc.st # "idle"
    [] o.op = "ready" -> sdc.st # "tran"
    [] o.op \in Unit_in -> ~Reading
    [] o.op \in Unit_out -> ~Writing
    [] o.op = "dma" -> ~Reading /\ ~Writing
    [] o.op = "stop" -> sdc.st \notin {"data", "rcv"}
    [] o.op = "judge" -> bad
    [] o.op = "four" -> ~prog.wide
    [] o.op = "guards" -> ~check_dma_guards
    [] OTHER -> FALSE

Faulty == o.op \in Unit_in \cup Unit_out \cup {"cmd", "cmd5", "acmd41", "ready", "dma", "end", "stop", "irq"}

\* The end of a program, or its next operation.
Continue(to) == op' = to /\ IF to <= Len(Ops) THEN UNCHANGED res ELSE res' = [res EXCEPT !.err = first]

\* One DMA: the chunk at sub, between the card and memory.
dma_start ==
  LET n == dma_transfer_bytes(o.x, sub)
      us == sub + 1 .. sub + n
      a == dma_ram_address(sub)
  IN /\ sub' = sub + n
     /\ IF sdc.st = "rcv"
        THEN /\ media' = [u \in Units |-> IF u \in us THEN ram[a + u - sub - 1] ELSE media[u]]
             /\ UNCHANGED <<ram, orig>>
        ELSE IF o.x = "original"
        THEN orig' = [u \in Units |-> IF u \in us THEN media[u] ELSE orig[u]] /\ UNCHANGED <<ram, media>>
        ELSE /\ ram' = [x \in 0 .. RamSize - 1 |-> IF x \in a .. a + n - 1 THEN media[sub + 1 + x - a] ELSE ram[x]]
             /\ UNCHANGED <<orig, media>>
     /\ IF sub + n < UNITS THEN op' = op /\ UNCHANGED res ELSE Continue(op + 1)

Differs ==
  CASE o.op = "same" -> media[o.x] # kept[o.x]
    [] o.op = "stored" -> media[o.x] # orig[o.x]
    [] o.op = "pattern" -> media[o.x] # -o.x
    [] o.op = "compare" /\ o.x = "first" -> dma_load_word(1) # orig[1]
    [] o.op = "compare" -> \E u \in Units : dma_load_word(u) # (IF o.x = "pattern" THEN -u ELSE orig[u])
    [] OTHER -> FALSE

Unit == IF o.x < 0 THEN -o.x ELSE o.x

ODone ==
  /\ Loaded /\ ~OFails
  /\ sdc' = CASE o.op = "cmd" -> After(o.x) [] o.op = "acmd41" -> [sdc EXCEPT !.st = "ready"]
              [] o.op = "end" -> Over [] o.op = "stop" -> Stopped [] OTHER -> sdc
  /\ bad' = IF o.op \in {"cmd", "judge"} THEN FALSE ELSE bad \/ Differs
  /\ IF o.op = "dma" THEN dma_start /\ UNCHANGED <<first, kept>>
     ELSE /\ sub' = IF o.op = "cmd" THEN 0 ELSE sub
          /\ media' = CASE o.op = "send" -> [media EXCEPT ![Unit] = IF o.x < 0 THEN o.x ELSE orig[Unit]]
                        [] o.op = "back" -> [media EXCEPT ![Unit] = kept[Unit]] [] OTHER -> media
          /\ orig' = CASE o.op = "store" -> [orig EXCEPT ![o.x] = media[o.x]]
                       [] o.op = "copy" -> [orig EXCEPT ![1] = kept[1]] [] OTHER -> orig
          /\ kept' = IF o.op = "keep" THEN [kept EXCEPT ![o.x] = media[o.x]] ELSE kept
          /\ ram' = CASE o.op = "fill" -> FilledRam(o.x) [] o.op = "fillguards" -> fill_dma_guards [] OTHER -> ram
          /\ IF o.op = "restored"
             THEN op' = op + 1 /\ res' = [res EXCEPT !.rstr = TRUE, !.err = first]
             ELSE Continue(op + 1)
          /\ UNCHANGED first
  /\ UNCHANGED <<prog, runs, sdfaults, was>>

\* The card after a failure: CMD12 goes out when the program sends it.
Aborted == IF o.stop THEN Stopped ELSE sdc

\* An operation that fails: of itself, or by a fault.  A command whose answer
\* is lost may have been taken; a unit that broke off is half there.  A DMA
\* that is stopped has moved any part.
OFailsNow(taken) ==
  /\ Loaded /\ (OFails \/ (Faulty /\ sdfaults < MaxSdFaults))
  /\ sdfaults' = IF OFails THEN sdfaults ELSE sdfaults + 1
  /\ (taken => ~OFails)
  /\ sdc' = CASE taken /\ o.op = "cmd" -> After(o.x) [] taken /\ o.op = "stop" -> Stopped
              [] taken /\ o.op = "end" -> Over [] OTHER -> Aborted
  /\ media' = IF Writing /\ o.op \in Unit_out THEN [media EXCEPT ![Unit] = 0]
              ELSE IF Writing /\ o.op = "dma" THEN [u \in Units |-> IF u > sub THEN 0 ELSE media[u]] ELSE media
  /\ sub' = 0 /\ bad' = FALSE
  /\ first' = IF o.to # 0 THEN "error" ELSE first
  /\ IF o.to # 0 THEN op' = o.to /\ UNCHANGED res
     ELSE op' = Len(Ops) + 1 /\ res' = [res EXCEPT !.err = "error"]
  /\ was' = [was EXCEPT !.failed = o.op]
  /\ UNCHANGED <<prog, ram, orig, kept, runs>>

Names == DOMAIN Exp
Paths == {"pio", "l2", "dma", "cmd23", "hs"}
Programs ==
  [name : Names \ {"multiwrite8", "multiread8"}, path : {"pio"}, mode : {"full"}, wide : {FALSE}, armed : BOOLEAN]
    \cup [name : {"multiread8"}, path : {"pio"}, mode : {"full"}, wide : BOOLEAN, armed : {TRUE}]
    \cup [name : {"multiwrite8"}, path : Paths, mode : {"full"}, wide : BOOLEAN, armed : {TRUE}]
    \cup [name : {"multiwrite8"}, path : {"dma"}, mode : {"capture", "verify"}, wide : {TRUE}, armed : {TRUE}]

\* The host loads and starts a program; prev is what the last one left.
HostRuns(p) ==
  /\ ~Loaded /\ runs < MaxPrograms /\ runs' = runs + 1
  /\ prog' = [name |-> p.name, path |-> p.path, mode |-> p.mode, wide |-> p.wide, armed |-> p.armed,
              prev |-> [exp |-> res.exp, err |-> res.err]]
  /\ op' = 1 /\ sub' = 0 /\ bad' = FALSE /\ first' = ""
  /\ res' = [exp |-> Exp[p.name], err |-> "", rstr |-> FALSE]
  /\ was' = [media |-> media, failed |-> ""]
  /\ UNCHANGED <<sdc, media, ram, orig, kept, sdfaults>>

SdProbesInit ==
  /\ prog = [name |-> "none", path |-> "pio", mode |-> "full", wide |-> FALSE, armed |-> FALSE,
             prev |-> [exp |-> 0, err |-> ""]]
  /\ op = 1 /\ sdc = [st |-> "idle", wide |-> FALSE, fast |-> FALSE, count |-> FALSE]
  /\ media = [u \in Units |-> u] /\ sub = 0 /\ ram = [a \in 0 .. RamSize - 1 |-> 0]
  /\ orig = [u \in Units |-> 0] /\ kept = [u \in {1, 2} |-> 0] /\ bad = FALSE
  /\ res = [exp |-> 0, err |-> "", rstr |-> FALSE]
  /\ first = "" /\ runs = 0 /\ sdfaults = 0 /\ was = [media |-> media, failed |-> ""]

SdProbesNext ==
  \/ \E p \in Programs : HostRuns(p)
  \/ ODone
  \/ \E taken \in BOOLEAN : OFailsNow(taken)

SdProbesSpec == SdProbesInit /\ [][SdProbesNext]_sdp_vars

-----------------------------------------------------------------------------
(* Properties.                                                             *)

Ended == ~Loaded /\ runs > 0

(* A card that is not as it was found is always reported: a program that   *)
(* ends without an error, whatever ran before it and whatever was lost on  *)
(* the way, leaves the range as it found it, the test patterns of          *)
(* sd_write.c and sd_multiwrite8.c included.                               *)
LossIsReported == Ended /\ res.err = "" => media = was.media

(* The mark "RSTR" of sd_multiwrite8.c is a proof: also after a test that  *)
(* failed at any command, unit or DMA, the old data is back.               *)
RestoredIsOriginal == Ended /\ res.rstr => media = was.media

(* A program that is started as it asks to be, on a card that does not     *)
(* fail, ends without an error: the chunks, segments and guards of the     *)
(* scattered DMA and the states of the card fit together along the whole   *)
(* sequence of programs.                                                   *)
FaultFreeIsOk ==
  Ended /\ sdfaults = 0 /\ res.err = "error" =>
    was.failed \in {"guard", "four"} \/ (prog.mode = "verify" /\ orig # media)

(* What a program reports is what happened to the card: no loss without an *)
(* error, no restore that was none, and no error without a fault, over     *)
(* programs that follow each other.                                        *)
SdReportIsTrue == LossIsReported /\ RestoredIsOriginal /\ FaultFreeIsOk

=============================================================================
