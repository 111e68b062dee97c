------------------------------ MODULE NandTools -----------------------------
(***************************************************************************)
(* The programs that the host tools and the probes put into the board's    *)
(* memory to read and write the NAND: the two stubs of the openNBOOT       *)
(* installer (tools/opennboot/stub), the dumpers (tools/aipc-nand-dump,    *)
(* tools/ak7802-nand-dump-min) and the NAND probes (baremetal/probes/nand).*)
(*                                                                         *)
(* A program is the sequence of its operations on the controller.  Every   *)
(* operation has a wait that can run out, the chip can refuse an erase or  *)
(* a program, and the program says what happens then: the code that it     *)
(* leaves for the host, what it puts back, and where it goes on.           *)
(***************************************************************************)
EXTENDS Integers, Sequences, FiniteSets

CONSTANTS
  TOOL_CHUNKS,    \* chunks of a page
  TOOL_PAGES,     \* pages of a block, and of the buffer: NF_MAX_PAGES
  NF_PROBES,      \* probe configurations of nand_id
  PROBE_ITERS

ASSUME NandToolsAssumption == {TOOL_CHUNKS, TOOL_PAGES, NF_PROBES, PROBE_ITERS} \subseteq Nat \ {0}

VARIABLES
  tool, count,    \* the program and CMD_COUNT
  at,             \* the operation it is at
  cells,          \* what the pages of the block hold: "old", "blank", "new", "bad"
  wp,             \* the chip is write protected
  pagereg,        \* chunks in the page register of the chip
  refused,        \* the status byte's FAIL
  mem,            \* the chunks of each page in memory
  dir_write,      \* direction bit of L2 buffer 5
  assigned,       \* L2_ASSIGN: the buffer of the USB (bits 0 to 5) is taken away
  bound,          \* L2_ASSIGN: buffer 5 is bound to the NAND (bits 9 to 11)
  errs,           \* error_count
  result,         \* [rc, fail]; rc is "none" while CMD_RC is 0xDEAD
  opts            \* external: which probe configuration fits, what the engine finds

tool_vars == <<tool, count, at, cells, wp, pagereg, refused, mem, dir_write, assigned, bound, errs, result, opts>>

ToolPages == 1 .. TOOL_PAGES
None == "none"

-----------------------------------------------------------------------------
(* Operations.  op is what is done; p the page and c the chunk; codes what *)
(* the program reports when it fails; undo what it puts back then; to      *)
(* where it goes on, 0 for the end.                                        *)

Op(op, p, c, codes, undo, to) == [op |-> op, p |-> p, c |-> c, codes |-> codes, undo |-> undo, to |-> to]
Simple(op) == Op(op, 0, 0, {}, {}, 0)

\* The m operations of F(1) to F(n), one after the other.
Each(n, m, F(_)) == [k \in 1 .. n * m |-> F(1 + ((k - 1) \div m))[1 + ((k - 1) % m)]]

\* Mutant: the status byte is not looked at.
nf_erase_block_blind == <<Op("erase", 0, 0, {"SEQ"}, {}, 0)>>

\* nf_erase_block: the command and check_status.
nf_erase_block == <<Op("erase", 0, 0, {"SEQ"}, {}, 0), Op("status", 0, 0, {"SEQ", "FAIL"}, {}, 0)>>

\* program_chunk: 512 bytes through the buffer.
program_chunk(p, c) == Op("chunk", p, c, {"SEQ", "DMA"}, {"dir"}, 0)

\* program_data: the address, the chunks, the confirm.
program_data(p) ==
  <<Op("start", p, 0, {"SEQ"}, {"dir"}, 0)>>
    \o [c \in 1 .. TOOL_CHUNKS |-> program_chunk(p, c)]
    \o <<Op("confirm", p, 0, {"SEQ"}, {"dir"}, 0)>>

\* Mutant: an error leaves the buffer's direction.
nf_program_page_dir(p) ==
  <<Simple("dir")>> \o [i \in DOMAIN program_data(p) |-> [program_data(p)[i] EXCEPT !.undo = {}]]
    \o <<Simple("undir"), Op("status", p, 0, {"SEQ", "FAIL"}, {}, 0)>>

PROGRAM_OPS == TOOL_CHUNKS + 5
nf_program_page(p) ==
  <<Simple("dir")>> \o program_data(p)
    \o <<Simple("undir"), Op("status", p, 0, {"SEQ", "FAIL"}, {}, 0)>>

\* tools/opennboot/stub/nf_write.c: no page at all only erases.
nf_write(n) ==
  IF n > TOOL_PAGES THEN <<Op("arg", 0, 0, {"ARG"}, {}, 0)>>
  ELSE nf_erase_block \o Each(n, PROGRAM_OPS, LAMBDA p : nf_program_page(p))

\* nf_read_raw: a command and a transfer for each chunk, the spare included.
nf_read_raw(p, c) == Op("read", p, c, {"SEQ", "L2", "DMA"}, {}, 0)
nf_read_page(p) == [c \in 1 .. TOOL_CHUNKS |-> nf_read_raw(p, c)]

\* tools/opennboot/stub/nf_read.c: nf_read_id, then the pages.
nf_read(n) ==
  IF n = 0 \/ n > TOOL_PAGES THEN <<Op("arg", 0, 0, {"ARG"}, {}, 0)>>
  ELSE <<Op("id", 0, 0, {"SEQ"}, {}, 0)>> \o Each(n, TOOL_CHUNKS, LAMBDA p : nf_read_page(p))

\* nand_copy.c: a page that fails is filled with ones and counted, and the
\* copy goes on with the next one.
nand_copy(n) ==
  <<Simple("assign")>>
    \o Each(n, TOOL_CHUNKS, LAMBDA p :
         [c \in 1 .. TOOL_CHUNKS |-> Op("read", p, c, {"fill"}, {}, 2 + p * TOOL_CHUNKS)])
    \o <<Simple("unassign")>>

\* nand_id.c: the ID, then one configuration after the other, until one reads
\* the signature.
nand_id ==
  <<Simple("assign"), Op("id", 0, 0, {"1"}, {"assign"}, 0)>>
    \o [i \in 1 .. NF_PROBES |-> Op("header", 0, i, {"next"}, {}, 3 + i)]
    \o <<Simple("unassign")>>

\* ak7802-nand-dump-min: one page; 2 and 3 are a chunk and the spare.
nand_dump_min(n) ==
  IF n = 0 THEN <<Simple("hwinit")>>
  ELSE <<Simple("assign")>>
         \o [c \in 1 .. TOOL_CHUNKS |->
               Op("read", 1, c, {IF c = TOOL_CHUNKS THEN "3" ELSE "2"}, {"assign"}, 0)]
         \o <<Simple("unassign")>>

\* baremetal/probes/nand/stub/nf_write.c, PROBE_MODE n: the status, then an
\* erase that is checked, then a page that is read back.
probe_erase_block == <<Op("erase", 0, 0, {"SEQ_ERASE"}, {}, 0), Op("status", 0, 0, {"SEQ_ERASE", "FAIL"}, {}, 0)>>
probe_program_page(p) == nf_program_page(p)
probe_read_raw(p, c) == Op("read", p, c, {"SEQ_READ", "L2", "DMA"}, {}, 0)
probe_write(n) ==
  <<Op("status", 0, 0, {"SEQ_STATUS"}, {}, 0), Op("protect", 0, 0, {"WP"}, {}, 0)>>
    \o (IF n = 0 THEN <<>>
        ELSE probe_erase_block \o <<probe_read_raw(1, 1), Op("blank", 1, 1, {"NOT_BLANK"}, {}, 0)>>)
    \o (IF n < 2 THEN <<>>
        ELSE probe_program_page(1) \o [c \in 1 .. TOOL_CHUNKS |-> probe_read_raw(1, c)]
               \o <<Op("verify", 1, 0, {"VERIFY"}, {}, 0)>>)

\* baremetal/probes/nand/stub/nf_read.c: raw ranges (0), with the ECC engine
\* (1), with its registers (2), and again until a chunk is not clean (3).
nf_read_raw_range(c) == <<Op("read", 1, c, {"seq", "l2", "dma"}, {"assign"}, 0)>>
nf_read_page_with_ecc(c) == <<Op("read", 1, c, {"seq", "l2", "dma"}, {"assign"}, 0)>>
nf_read_page_ecc_snapshot(c, n) ==
  nf_read_page_with_ecc(c) \o (IF n = 3 THEN <<Op("clean", 1, c, {"unclean"}, {"assign"}, 0)>> ELSE <<>>)
ECC_OPS(n) == IF n = 3 THEN 2 ELSE 1
probe_read(n) ==
  <<Simple("assign"), Op("id", 0, 0, {"FF"}, {"assign"}, 0)>>
    \o Each(IF n = 3 THEN PROBE_ITERS ELSE 1, TOOL_CHUNKS * ECC_OPS(n), LAMBDA it :
         Each(TOOL_CHUNKS, ECC_OPS(n), LAMBDA c :
           CASE n = 0 -> nf_read_raw_range(c) [] n = 1 -> nf_read_page_with_ecc(c)
             [] OTHER -> nf_read_page_ecc_snapshot(c, n)))
    \o <<Simple("unassign")>>

Steps ==
  CASE tool = "write" -> nf_write(count) [] tool = "read" -> nf_read(count)
    [] tool = "copy" -> nand_copy(count) [] tool = "id" -> nand_id
    [] tool = "min" -> nand_dump_min(count)
    [] tool = "probe_write" -> probe_write(count) [] OTHER -> probe_read(count)

Counts ==
  [write |-> 0 .. TOOL_PAGES + 1, read |-> 0 .. TOOL_PAGES + 1, copy |-> ToolPages, id |-> {0}, min |-> {0, 1},
   probe_write |-> 0 .. 2, probe_read |-> 0 .. 3]

-----------------------------------------------------------------------------
(* Steps.                                                                  *)

ToolRuns == at <= Len(Steps)
Current == Steps[at]

\* What the chip's status byte and the data in memory decide.
ToolFails ==
  CASE Current.op = "arg" -> TRUE
    [] Current.op = "status" -> "FAIL" \in Current.codes /\ refused
    [] Current.op = "protect" -> wp
    [] Current.op = "blank" -> mem[1][1] # "blank"
    [] Current.op = "verify" -> \E c \in 1 .. TOOL_CHUNKS : mem[1][c] # "new"
    [] Current.op = "clean" -> Current.c = opts.unclean
    [] OTHER -> FALSE

\* l2_bind, l2_bind_nf_dma: before a transfer, as soon as the command is given.
Binds == Current.op \in {"read", "header", "dir"}

\* The waits of these operations can run out: seq_wait, dma_wait, the level of L2.
Waits == Current.op \in {"erase", "status", "start", "chunk", "confirm", "read", "id", "header"}

\* What an erase or a program can leave: protected, the page stays; refused,
\* or with its wait over, it is anything.  A protected chip need not say FAIL.
Erased(whole) ==
  IF wp THEN {cells}
  ELSE IF whole THEN {[p \in ToolPages |-> "blank"]}
  ELSE {cells, [p \in ToolPages |-> "blank"], [p \in ToolPages |-> "bad"]}
Programmed(whole) ==
  LET full == IF cells[Current.p] = "blank" /\ pagereg = TOOL_CHUNKS THEN "new" ELSE "bad" IN
  IF wp THEN {cells}
  ELSE {[cells EXCEPT ![Current.p] = x] : x \in IF whole THEN {full} ELSE {full, "bad", cells[Current.p]}}

ChipWorks(ok) ==
  /\ IF Current.op \in {"erase", "confirm"} THEN refused' \in (IF wp THEN {TRUE, FALSE} ELSE {~ok})
     ELSE UNCHANGED refused
  /\ CASE Current.op = "erase" -> cells' \in Erased(ok) /\ UNCHANGED pagereg
       [] Current.op = "start" -> pagereg' = 0 /\ UNCHANGED cells
       [] Current.op = "chunk" -> pagereg' = pagereg + 1 /\ UNCHANGED cells
       [] Current.op = "confirm" -> cells' \in Programmed(ok) /\ UNCHANGED pagereg
       [] OTHER -> UNCHANGED <<cells, pagereg>>

\* An operation that ends; ok: the chip did what it was told.
OpDone(ok) ==
  /\ ToolRuns /\ ~ToolFails /\ (ok \/ Current.op \in {"erase", "confirm"})
  /\ ChipWorks(ok)
  /\ mem' = IF Current.op = "read" THEN [mem EXCEPT ![Current.p][Current.c] = cells[Current.p]] ELSE mem
  /\ dir_write' = IF Current.op = "dir" THEN TRUE ELSE IF Current.op = "undir" THEN FALSE ELSE dir_write
  /\ assigned' = IF Current.op = "assign" THEN TRUE ELSE IF Current.op = "unassign" THEN FALSE ELSE assigned
  /\ bound' = (Binds \/ (bound /\ Current.op # "unassign"))
  /\ at' = IF Current.op = "header" /\ Current.c = opts.fits THEN Len(Steps) ELSE at + 1
  /\ result' = IF at' <= Len(Steps) THEN result
               ELSE [rc |-> IF errs > 0 THEN "errors" ELSE "ok", fail |-> count]
  /\ UNCHANGED <<tool, count, wp, errs, opts>>

\* Mutant: only the chunk that failed is filled.
Fill_chunk == [mem EXCEPT ![Current.p][Current.c] = "ones"]

\* fill_ff over the whole page.
Fill == [mem EXCEPT ![Current.p] = [c \in 1 .. TOOL_CHUNKS |-> "ones"]]

\* Mutant: nf_write counts the page that failed as done.
FailIndex_next ==
  IF Current.p > 0 THEN (IF tool = "write" THEN Current.p ELSE Current.p - 1)
  ELSE IF Current.op \in {"erase", "status"} THEN count ELSE 0

\* CMD_FAIL: the page of the run, from 0 on; the count when the erase failed.
FailIndex == IF Current.p > 0 THEN Current.p - 1 ELSE IF Current.op \in {"erase", "status"} THEN count ELSE 0

\* An operation that fails: a check, or a wait that ran out with the chip at
\* work, or done.
OpFails(code) ==
  /\ ToolRuns /\ (ToolFails \/ Waits) /\ code \in Current.codes /\ (code = "FAIL" => ToolFails)
  /\ (Current.op = "status" /\ ToolFails => code = "FAIL")
  /\ dir_write' = (dir_write /\ "dir" \notin Current.undo)
  /\ assigned' = (assigned /\ "assign" \notin Current.undo)
  /\ bound' = ((Binds \/ bound) /\ "assign" \notin Current.undo)
  /\ ChipWorks(FALSE)
  /\ mem' = IF code = "fill" THEN Fill
            ELSE IF Current.op = "read" THEN [mem EXCEPT ![Current.p][Current.c] = "part"] ELSE mem
  /\ errs' = IF code = "fill" THEN errs + 1 ELSE errs
  /\ at' = IF Current.to = 0 THEN Len(Steps) + 1 ELSE Current.to
  /\ result' = IF Current.to # 0 THEN result
               ELSE [rc |-> code, fail |-> FailIndex]
  /\ UNCHANGED <<tool, count, wp, opts>>

NandToolsInit ==
  /\ tool \in DOMAIN Counts /\ count \in Counts[tool] /\ at = 1 /\ wp \in BOOLEAN
  /\ cells = [p \in ToolPages |-> "old"] /\ pagereg = 0 /\ refused = FALSE
  /\ mem = [p \in ToolPages |-> [c \in 1 .. TOOL_CHUNKS |-> "part"]]
  /\ dir_write = FALSE /\ assigned = FALSE /\ bound = FALSE /\ errs = 0 /\ result = [rc |-> None, fail |-> 0]
  /\ opts \in [fits : 0 .. NF_PROBES, unclean : 0 .. TOOL_CHUNKS]

NandToolsNext ==
  \/ \E ok \in BOOLEAN : OpDone(ok)
  \/ ToolRuns /\ \E code \in Current.codes : OpFails(code)

NandToolsSpec == NandToolsInit /\ [][NandToolsNext]_tool_vars

-----------------------------------------------------------------------------
(* Properties.                                                             *)

(* A stub that reports success has written what it was told to: the pages  *)
(* of the run hold the image and the rest of the block is erased, on a     *)
(* chip that can refuse or be late (nf_write.c, with check_status after    *)
(* every operation).  That is said of a chip that is not write protected:  *)
(* check_status looks at FAIL alone, and a protected chip that leaves FAIL *)
(* clear is reported as written.  The probe asks for the protection first, *)
(* and its last mode has also read the page back.                          *)
WrittenIsReported ==
  result.rc = "ok" =>
    /\ tool = "write" /\ ~wp => \A p \in ToolPages : cells[p] = (IF p <= count THEN "new" ELSE "blank")
    /\ tool = "probe_write" /\ count = 2 => cells[1] = "new" /\ mem[1] = [c \in 1 .. TOOL_CHUNKS |-> "new"]

(* CMD_FAIL is where the run stopped: the pages before it hold the image   *)
(* and the ones behind it are still blank, so that the host can tell what  *)
(* is left of the block (nf_write.c), if the chip is not write protected.  *)
FailIsPrefix ==
  tool = "write" /\ ~wp /\ result.rc \notin {None, "ARG"} /\ result.fail < count =>
    \A p \in ToolPages \ {result.fail + 1} : cells[p] = (IF p <= result.fail THEN "new" ELSE "blank")

(* However a program ends, the L2 buffer is set for reading again and the  *)
(* USB has its buffers back: the bootrom's USB code needs both to answer   *)
(* the host that asks for the result (l2_dir_write, saved_assign).  The    *)
(* programs that save L2_ASSIGN leave no binding of the NAND in it either; *)
(* the stubs of the installer and the probe that writes do not save it,    *)
(* and leave buffer 5 bound (l2_bind, which nothing undoes).               *)
BoardIsAsFound ==
  result.rc # None =>
    ~dir_write /\ ~assigned /\ (bound => tool \in {"write", "read", "probe_write"})

(* Every page of a dump is the page or all ones, never a mixture, and the  *)
(* count says how many are ones; what nf_read reports as read is there     *)
(* (nand_copy.c, nf_read.c).                                               *)
DumpIsHonest ==
  LET Holds(p, x) == \A c \in 1 .. TOOL_CHUNKS : mem[p][c] = x IN
  /\ tool = "copy" /\ result.rc # None =>
       /\ \A p \in 1 .. count : Holds(p, "old") \/ Holds(p, "ones")
       /\ errs = Cardinality({p \in 1 .. count : Holds(p, "ones")})
       /\ (result.rc = "errors") = (errs > 0)
  /\ tool = "read" /\ result.rc # None => \A p \in 1 .. result.fail : Holds(p, "old")

(* What the host reads as the result is what happened to the flash and to  *)
(* the memory, and the bootrom can still send it.                          *)
NandReportIsTrue == WrittenIsReported /\ FailIsPrefix /\ DumpIsHonest /\ BoardIsAsFound
=============================================================================
