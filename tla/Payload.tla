------------------------------ MODULE Payload ------------------------------
(***************************************************************************)
(* Loading a payload, an ARM ELF file, into the memory that aipc-boot runs *)
(* in (baremetal/aipc-boot/payload.c): check refuses a file whose segments *)
(* would cover what is in use, then payload_load copies them one by one.   *)
(*                                                                         *)
(* Addresses and sizes are unsigned words; sums wrap at WORD.  The file is *)
(* its program headers and its entry.                                      *)
(***************************************************************************)
EXTENDS Integers, Sequences

CONSTANTS WORD,               \* 2^32
          DDR_LOW, DDR_HIGH,
          InUse,              \* aipc-boot and the framebuffers: [lo |-> , hi |-> ]
          MaxSegments         \* bound on the program headers

Words == 0 .. WORD - 1

ASSUME PayloadAssumption ==
  /\ WORD \in Nat \ {0} /\ MaxSegments \in Nat
  /\ DDR_LOW \in Words /\ DDR_HIGH \in Words
  /\ InUse \subseteq [lo : Words, hi : Words]

Segments == [paddr : Words, filesz : Words, memsz : Words]

VARIABLES
  segs,     \* the PT_LOAD headers
  entry,
  pc,       \* "check", "load", "run" or the error
  at,       \* the segment payload_load is at
  written   \* ghost: addresses that were written

vars == <<segs, entry, pc, at, written>>

Init ==
  /\ segs \in UNION {[1 .. n -> Segments] : n \in 0 .. MaxSegments}
  /\ entry \in Words
  /\ pc = "check" /\ at = 1 /\ written = {}

-----------------------------------------------------------------------------
\* The sum of two words.
Add(a, b) == IF a + b < WORD THEN a + b ELSE a + b - WORD

overlaps(a, b, lo, hi) == a < hi /\ b > lo

\* Mutant: the sum is taken not to wrap.
range_ok_no_wrap(addr, size) ==
  LET end == Add(addr, size)
  IN /\ addr >= DDR_LOW /\ end <= DDR_HIGH
     /\ \A r \in InUse : ~overlaps(addr, end, r.lo, r.hi)

range_ok(addr, size) ==
  LET end == Add(addr, size)
  IN /\ end >= addr /\ addr >= DDR_LOW /\ end <= DDR_HIGH
     /\ \A r \in InUse : ~overlaps(addr, end, r.lo, r.hi)

\* A segment without memory is skipped.
segment_ok(s) == s.memsz = 0 \/ (s.filesz <= s.memsz /\ range_ok(s.paddr, s.memsz))

\* Mutant: the end of a segment counts as in it.
entry_ok_end(s) == s.memsz > 0 /\ entry >= s.paddr /\ entry <= Add(s.paddr, s.memsz)

entry_ok(s) == s.memsz > 0 /\ entry >= s.paddr /\ entry < Add(s.paddr, s.memsz)

\* read_at can fail, or the file is no ARM executable.
check ==
  /\ pc = "check"
  /\ pc' \in {"ENOTFOUND", "EIO", "ENOTELF"} \cup
       IF /\ \A i \in DOMAIN segs : segment_ok(segs[i])
          /\ \E i \in DOMAIN segs : entry_ok(segs[i])
       THEN {"load"} ELSE {"ERANGE"}
  /\ UNCHANGED <<segs, entry, at, written>>

\* The addresses from a up to a + n.
Bytes(a, n) == {x \in a .. a + n - 1 : x < WORD} \cup {x \in 0 .. a + n - 1 - WORD : n > 0}

\* One turn of payload_load's loop: the bytes of the file, then zeroes.  A
\* failed read has written some of the first.
load_segment ==
  /\ pc = "load" /\ at <= Len(segs)
  /\ LET s == segs[at]
     IN \/ /\ s.memsz > 0 /\ written' = written \cup Bytes(s.paddr, s.memsz)
           /\ at' = at + 1 /\ UNCHANGED pc
        \/ /\ s.memsz = 0 /\ at' = at + 1 /\ UNCHANGED <<pc, written>>
        \/ /\ s.memsz > 0 /\ s.filesz > 0 /\ pc' = "EIO" /\ UNCHANGED at
           /\ \E n \in 0 .. s.filesz : written' = written \cup Bytes(s.paddr, n)
  /\ UNCHANGED <<segs, entry>>

\* payload_load returns 0, and payload_call jumps to the entry.
load_done ==
  /\ pc = "load" /\ at > Len(segs)
  /\ pc' = "run"
  /\ UNCHANGED <<segs, entry, at, written>>

Done == pc \notin {"check", "load"} /\ UNCHANGED vars

Next == check \/ load_segment \/ load_done \/ Done

Spec == Init /\ [][Next]_vars

-----------------------------------------------------------------------------
(* Properties.                                                             *)

(* No load writes outside DDR, over aipc-boot or over a framebuffer, also  *)
(* when a read fails halfway and when address and size wrap (range_ok,     *)
(* check).                                                                 *)
WritesAreSafe ==
  \A x \in written : /\ DDR_LOW <= x /\ x < DDR_HIGH
                     /\ \A r \in InUse : ~(r.lo <= x /\ x < r.hi)

(* A payload that is started has its entry in memory it loaded (check).    *)
EntryIsLoaded == pc = "run" => entry \in written

=============================================================================
