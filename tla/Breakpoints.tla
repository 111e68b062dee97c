---------------------------- MODULE Breakpoints ----------------------------
(***************************************************************************)
(* Halting, resuming, stepping and software breakpoints of the gdb stub    *)
(* (baremetal/gdbstub/rsp.c, bp.S, resume.S).  The stub patches BP_INSN    *)
(* over the program's words and keeps the words in g_bp and g_step_saved;  *)
(* it runs only while the target is halted, and the target enters it again *)
(* through the undefined instruction and abort vectors.                    *)
(*                                                                         *)
(* image is a ghost: the program as the debugger and the program itself    *)
(* wrote it, without the stub's patches.  As gdb does, the host removes a  *)
(* breakpoint before it writes over it, and the program does not store     *)
(* over a patched instruction.                                             *)
(***************************************************************************)
EXTENDS Integers, FiniteSets

CONSTANTS
  Ram,      \* word addresses that can be written
  Rom,      \* word addresses where a store has no effect
  Bad,      \* addresses whose access takes a data or prefetch abort
  Words,    \* the program's instructions
  Udf,      \* the one of them that is an undefined instruction
  BP_INSN,  \* the patch
  BP_MAX,   \* slots of g_bp
  StubPc    \* the address inside the stub where it took an abort itself

Addr == Ram \cup Rom \cup Bad
Slots == 1 .. BP_MAX

ASSUME BreakpointsAssumption ==
  /\ Ram \cap Rom = {} /\ Ram \cap Bad = {} /\ Rom \cap Bad = {}
  /\ StubPc \in Bad /\ Ram # {}
  /\ BP_INSN \notin Words /\ Udf \in Words
  /\ BP_MAX \in Nat

VARIABLES
  mem,     \* the words at the readable addresses
  image,   \* ghost: those words without the stub's patches
  g_bp,    \* the table of breakpoints
  g_step,  \* g_step_addr, g_step_saved and g_step_active
  mode,    \* "halted" in the stub's loop or "running" the target
  pc,      \* g_regs.pc, or the target's pc
  next,    \* where the instruction at pc goes, a function of the registers
  sig,     \* g_last_sig
  want     \* ghost: the single step under way, from and to

vars == <<mem, image, g_bp, g_step, mode, pc, next, sig, want>>

Readable == Ram \cup Rom
Active(i) == g_bp[i].active
Hit(a) == \E i \in Slots : Active(i) /\ g_bp[i].addr = a     \* bp_lookup
Patched(a) == Hit(a) \/ (g_step.active /\ g_step.addr = a)

\* A store by the stub or the target.
Store(m, a, w) == IF a \in Ram THEN [m EXCEPT ![a] = w] ELSE m

Signals == {"TRAP", "ILL", "SEGV", "BUS"}
NoWant == [on |-> FALSE, from |-> StubPc, to |-> StubPc]

TypeOK ==
  /\ mem \in [Readable -> Words \cup {BP_INSN}]
  /\ image \in [Readable -> Words]
  /\ g_bp \in [Slots -> [addr : Addr, saved : Words, active : BOOLEAN]]
  /\ g_step \in [addr : Addr, saved : Words, active : BOOLEAN]
  /\ mode \in {"halted", "running"}
  /\ pc \in Addr /\ next \in Addr
  /\ sig \in Signals
  /\ want \in [on : BOOLEAN, from : Addr, to : Addr]

Init ==
  /\ image \in [Readable -> Words] /\ mem = image
  /\ \E w \in Words :
       /\ g_bp = [i \in Slots |-> [addr |-> StubPc, saved |-> w, active |-> FALSE]]
       /\ g_step = [addr |-> StubPc, saved |-> w, active |-> FALSE]
  /\ mode = "halted" /\ pc \in Readable /\ next \in Addr
  /\ sig = "TRAP" /\ want = NoWant

-----------------------------------------------------------------------------
\* Mutant: only the breakpoint table makes a stop a SIGTRAP.
rsp_trapped_table(s, at) ==
  /\ mode' = "halted" /\ pc' = at
  /\ g_step' = [g_step EXCEPT !.active = FALSE]
  /\ mem' = IF g_step.active THEN Store(mem, g_step.addr, g_step.saved) ELSE mem
  /\ sig' = IF Hit(at) THEN "TRAP" ELSE s
  /\ UNCHANGED <<image, g_bp>>

(* bp.S and rsp_trapped: the registers of what was interrupted go to        *)
(* g_regs, the step's patch goes away, and a stop on a patch is SIGTRAP.   *)
rsp_trapped(s, at) ==
  /\ mode' = "halted" /\ pc' = at
  /\ g_step' = [g_step EXCEPT !.active = FALSE]
  /\ mem' = IF g_step.active THEN Store(mem, g_step.addr, g_step.saved) ELSE mem
  /\ sig' = IF (g_step.active /\ at = g_step.addr) \/ Hit(at) THEN "TRAP" ELSE s
  /\ UNCHANGED <<image, g_bp>>

\* The stub itself takes a data abort while it handles a command.
StubAbort ==
  /\ rsp_trapped("BUS", StubPc)
  /\ next' \in Addr
  /\ want' = NoWant

-----------------------------------------------------------------------------
(* Commands.  The stub polls USB only while the target is halted.           *)

FreeSlots == {i \in Slots : ~Active(i)}
FirstFree(i) == i \in FreeSlots /\ \A j \in FreeSlots : i <= j

\* Mutant: the word is saved after the patch is written.
bp_set_late(a) ==
  /\ mode = "halted" /\ ~Hit(a) /\ a \in Readable
  /\ \E i \in Slots : FirstFree(i) /\ g_bp' = [g_bp EXCEPT ![i] =
                [addr |-> a, saved |-> Store(mem, a, BP_INSN)[a], active |-> TRUE]]
  /\ mem' = Store(mem, a, BP_INSN)
  /\ UNCHANGED <<image, g_step, mode, pc, next, sig, want>>

\* Z0 at an address without a breakpoint, with a free slot.
bp_set(a) ==
  /\ mode = "halted" /\ ~Hit(a) /\ a \in Readable
  /\ \E i \in Slots : FirstFree(i) /\ g_bp' = [g_bp EXCEPT ![i] =
                [addr |-> a, saved |-> mem[a], active |-> TRUE]]
  /\ mem' = Store(mem, a, BP_INSN)
  /\ UNCHANGED <<image, g_step, mode, pc, next, sig, want>>

\* The read of the word aborts: the slot has the address and stays inactive.
bp_set_abort(a) ==
  /\ mode = "halted" /\ ~Hit(a) /\ a \in Bad
  /\ mode' = "halted" /\ pc' = StubPc /\ next' \in Addr
  /\ \E i \in Slots : FirstFree(i) /\ g_bp' = [g_bp EXCEPT ![i].addr = a]
  /\ sig' = "BUS" /\ want' = NoWant
  /\ UNCHANGED <<mem, image, g_step>>

bp_clear(a) ==
  /\ mode = "halted"
  /\ \E i \in Slots :
       /\ Active(i) /\ g_bp[i].addr = a
       /\ \A j \in Slots : Active(j) /\ g_bp[j].addr = a => i <= j
       /\ mem' = Store(mem, a, g_bp[i].saved)
       /\ g_bp' = [g_bp EXCEPT ![i].active = FALSE]
  /\ UNCHANGED <<image, g_step, mode, pc, next, sig, want>>

\* M and X.
write_memory(a, w) ==
  /\ mode = "halted" /\ ~Patched(a)
  /\ \/ /\ a \in Readable
        /\ mem' = Store(mem, a, w)
        /\ image' = Store(image, a, w)
        /\ UNCHANGED <<g_bp, g_step, mode, pc, next, sig, want>>
     \/ a \in Bad /\ StubAbort

\* m over an address that aborts; any other m changes nothing.
read_memory(a) ==
  /\ mode = "halted" /\ a \in Bad
  /\ StubAbort

\* G, and an address given to c.
write_regs(p) ==
  /\ mode = "halted"
  /\ pc' = p /\ next' \in Addr
  /\ want' = NoWant
  /\ UNCHANGED <<mem, image, g_bp, g_step, mode, sig>>

resume ==
  /\ mode = "halted"
  /\ mode' = "running" /\ want' = NoWant
  /\ UNCHANGED <<mem, image, g_bp, g_step, pc, next, sig>>

\* Mutant: the step lands behind a branch instead of at its target.
do_step_fallthrough(n) ==
  /\ mode = "halted" /\ n # pc /\ n \in Readable /\ ~Hit(n)
  /\ g_step' = [addr |-> n, saved |-> mem[n], active |-> TRUE]
  /\ mem' = Store(mem, n, BP_INSN)
  /\ mode' = "running"
  /\ want' = [on |-> TRUE, from |-> pc, to |-> next]
  /\ UNCHANGED <<image, g_bp, pc, next, sig>>

\* s, when arm_next_pc gives n, which is not pc itself.
do_step(n) ==
  /\ mode = "halted" /\ n = next /\ n # pc /\ n \in Readable
  /\ IF Hit(n) THEN UNCHANGED <<mem, g_step>>
     ELSE /\ g_step' = [addr |-> n, saved |-> mem[n], active |-> TRUE]
          /\ mem' = Store(mem, n, BP_INSN)
  /\ mode' = "running"
  /\ want' = [on |-> TRUE, from |-> pc, to |-> n]
  /\ UNCHANGED <<image, g_bp, pc, next, sig>>

\* The word at the next pc cannot be read: g_step_active is still 0.
do_step_abort ==
  /\ mode = "halted" /\ next \in Bad /\ next # pc
  /\ mode' = "halted" /\ pc' = StubPc /\ next' \in Addr
  /\ g_step' = [g_step EXCEPT !.addr = next]
  /\ sig' = "BUS" /\ want' = NoWant
  /\ UNCHANGED <<mem, image, g_bp>>

-----------------------------------------------------------------------------
(* The target.                                                              *)

\* A patch, an undefined instruction or a prefetch abort.
Undefined ==
  /\ mode = "running" /\ pc \in Readable
  /\ mem[pc] \in {BP_INSN, Udf}
  /\ rsp_trapped("ILL", pc)
  /\ UNCHANGED <<next, want>>

PrefetchAbort ==
  /\ mode = "running" /\ pc \in Bad
  /\ rsp_trapped("SEGV", pc)
  /\ UNCHANGED <<next, want>>

DataAbort ==
  /\ mode = "running" /\ pc \in Readable
  /\ mem[pc] \notin {BP_INSN, Udf}
  /\ rsp_trapped("BUS", pc)
  /\ UNCHANGED <<next, want>>

\* An instruction completes, perhaps with a store to a.
Execute ==
  /\ mode = "running" /\ pc \in Readable
  /\ mem[pc] \notin {BP_INSN, Udf}
  /\ pc' = next /\ next' \in Addr
  /\ \/ UNCHANGED <<mem, image>>
     \/ \E a \in Ram, w \in Words :
          /\ ~Patched(a)
          /\ mem' = Store(mem, a, w) /\ image' = Store(image, a, w)
  /\ UNCHANGED <<g_bp, g_step, mode, sig, want>>

Next ==
  \/ \E a \in Addr :
       \/ bp_set(a) \/ bp_set_abort(a) \/ bp_clear(a) \/ read_memory(a)
       \/ write_regs(a) \/ do_step(a)
       \/ \E w \in Words : write_memory(a, w)
  \/ do_step_abort \/ resume
  \/ Undefined \/ PrefetchAbort \/ DataAbort \/ Execute

Spec == Init /\ [][Next]_vars

-----------------------------------------------------------------------------
(* The stub's patches are an overlay: a RAM word is BP_INSN exactly where a *)
(* breakpoint or the step is, any other word is the program's, and the word *)
(* that a slot keeps is the program's, so that removing every breakpoint    *)
(* gives the program back.                                                  *)
Overlay ==
  /\ \A a \in Readable : mem[a] = IF a \in Ram /\ Patched(a) THEN BP_INSN ELSE image[a]
  /\ \A i \in Slots : Active(i) => /\ g_bp[i].addr \in Readable
                                   /\ g_bp[i].saved = image[g_bp[i].addr]
  /\ g_step.active => /\ g_step.addr \in Readable
                      /\ g_step.saved = image[g_step.addr]

\* No address is patched twice: two slots, or a slot and the step, would each
\* restore what the other planted.
PatchedOnce ==
  /\ \A i, j \in Slots : Active(i) /\ Active(j) /\ g_bp[i].addr = g_bp[j].addr => i = j
  /\ g_step.active => ~Hit(g_step.addr)

\* The step's patch is in memory only while the target runs: a halted target
\* shows the debugger's own breakpoints and nothing else.
HaltedHasNoStep == mode = "halted" => ~g_step.active

\* A single step cannot run away: until it stops, the target is at the stepped
\* instruction or at the one behind it.
StepStays ==
  want.on /\ want.to \in Ram => pc \in {want.from, want.to}

\* Outside ROM, a stop is reported as SIGTRAP exactly when the target ran into a
\* patch; the program's own undefined instruction and its aborts keep their
\* signals, also in the middle of a step.
TrapMeansPatch ==
  [][mode = "running" /\ mode' = "halted" /\ pc \notin Rom =>
       (sig' = "TRAP" <=> pc \in Ram /\ mem[pc] = BP_INSN)]_vars

\* The strengthening that makes StepStays inductive: while a step is under way
\* its destination is patched, by the step or by a breakpoint.
StepInv ==
  /\ StepStays
  /\ want.on /\ want.to \in Ram /\ mode = "running" =>
       /\ Patched(want.to)
       /\ pc = want.to \/ next = want.to

\* The inductive invariant of the proofs.
IInv == TypeOK /\ Overlay /\ PatchedOnce /\ HaltedHasNoStep /\ StepInv

=============================================================================
