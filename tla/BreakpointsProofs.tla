------------------------- MODULE BreakpointsProofs -------------------------
(***************************************************************************)
(* Proofs about Breakpoints for every memory map and size of g_bp.         *)
(***************************************************************************)
EXTENDS Breakpoints, TLAPS

\* A store puts the word at a RAM address and leaves every other one.
LEMMA MemStore ==
  ASSUME TypeOK, NEW a \in Addr, NEW w \in Words \cup {BP_INSN}
  PROVE  /\ Store(mem, a, w) \in [Readable -> Words \cup {BP_INSN}]
         /\ \A b \in Readable : Store(mem, a, w)[b] = IF b = a /\ a \in Ram THEN w ELSE mem[b]
  BY DEF Store, Readable, TypeOK

LEMMA ImageStore ==
  ASSUME TypeOK, NEW a \in Addr, NEW w \in Words
  PROVE  /\ Store(image, a, w) \in [Readable -> Words]
         /\ \A b \in Readable : Store(image, a, w)[b] = IF b = a /\ a \in Ram THEN w ELSE image[b]
  BY DEF Store, Readable, TypeOK

LEMMA InitIInv == Init => IInv
<1> SUFFICES ASSUME Init PROVE IInv
  OBVIOUS
<1> USE BreakpointsAssumption
<1>1. TypeOK
  BY DEF Init, TypeOK, Readable, Addr, Signals, NoWant
<1>2. ~g_step.active /\ \A i \in Slots : ~Active(i)
  BY DEF Init, Active
<1>3. Overlay /\ PatchedOnce /\ HaltedHasNoStep
  BY <1>2 DEF Init, Overlay, PatchedOnce, HaltedHasNoStep, Patched, Hit
<1>4. StepInv
  BY DEF Init, StepInv, StepStays, NoWant
<1> QED
  BY <1>1, <1>3, <1>4 DEF IInv

\* Entering the stub removes the step's patch and keeps the rest.
LEMMA TrapIInv ==
  ASSUME IInv, NEW s \in Signals, NEW at \in Addr, rsp_trapped(s, at), next' \in Addr,
         (want' = want /\ at = pc) \/ want' = NoWant
  PROVE  IInv'
<1> USE BreakpointsAssumption DEF rsp_trapped
<1>0. TypeOK /\ g_step.addr \in Addr /\ g_step.saved \in Words \cup {BP_INSN}
  BY DEF IInv, TypeOK
<1>s. /\ Store(mem, g_step.addr, g_step.saved) \in [Readable -> Words \cup {BP_INSN}]
      /\ \A b \in Readable : Store(mem, g_step.addr, g_step.saved)[b] =
                             IF b = g_step.addr /\ g_step.addr \in Ram
                             THEN g_step.saved ELSE mem[b]
  BY <1>0, MemStore
<1>1. TypeOK'
  <2>1. mem' \in [Readable -> Words \cup {BP_INSN}]
    BY <1>0, <1>s DEF TypeOK
  <2>2. want' \in [on : BOOLEAN, from : Addr, to : Addr]
    <3>1. NoWant \in [on : BOOLEAN, from : Addr, to : Addr]
      BY DEF NoWant, Addr
    <3> QED
      BY <1>0, <3>1 DEF TypeOK
  <2> QED
    BY <2>1, <2>2 DEF IInv, TypeOK, Signals
<1>2. ~g_step'.active
  BY DEF IInv, TypeOK
<1>3. \A a : Hit(a)' <=> Hit(a)
  BY DEF Hit, Active
<1>4. \A a \in Readable : mem'[a] = IF a \in Ram /\ Hit(a) THEN BP_INSN ELSE image[a]
  <2>1. CASE ~g_step.active
    BY <2>1 DEF IInv, Overlay, Patched
  <2>2. CASE g_step.active
    <3>2. \A b \in Readable : mem'[b] = IF b = g_step.addr /\ g_step.addr \in Ram
                                         THEN g_step.saved ELSE mem[b]
      BY <2>2, <1>s
    <3>3. g_step.saved = image[g_step.addr] /\ ~Hit(g_step.addr)
      BY <2>2 DEF IInv, Overlay, PatchedOnce
    <3> QED
      BY <2>2, <3>2, <3>3 DEF IInv, Overlay, Patched
  <2> QED
    BY <2>1, <2>2
<1>5. Overlay'
  BY <1>2, <1>3, <1>4 DEF IInv, Overlay, Patched, Active
<1>6. PatchedOnce' /\ HaltedHasNoStep'
  BY <1>2 DEF IInv, PatchedOnce, HaltedHasNoStep, Active
<1>7. StepInv'
  BY DEF IInv, StepInv, StepStays, NoWant
<1> QED
  BY <1>1, <1>5, <1>6, <1>7 DEF IInv

\* A write over an unpatched word, by the debugger or by the program, changes the
\* program and memory alike.
LEMMA WriteIInv ==
  ASSUME IInv, NEW a \in Addr, NEW w \in Words, a \in Readable, ~Patched(a),
         mem' = Store(mem, a, w), image' = Store(image, a, w),
         UNCHANGED <<g_bp, g_step, mode, sig, want>>, pc' \in Addr, next' \in Addr,
         StepInv' \/ UNCHANGED <<pc, next>>
  PROVE  IInv'
<1>1. TypeOK
  BY DEF IInv
<1>2. \A b \in Readable : /\ mem'[b] = IF b = a /\ a \in Ram THEN w ELSE mem[b]
                          /\ image'[b] = IF b = a /\ a \in Ram THEN w ELSE image[b]
  BY <1>1, MemStore, ImageStore
<1>3. TypeOK'
  <2>1. mem' \in [Readable -> Words \cup {BP_INSN}] /\ image' \in [Readable -> Words]
    BY <1>1, MemStore, ImageStore
  <2> QED
    BY <1>1, <2>1 DEF TypeOK
<1>4. \A b : Hit(b)' <=> Hit(b)
  BY DEF Hit, Active
<1>5. Overlay'
  <2>1. \A i \in Slots : Active(i) => g_bp[i].addr # a
    BY DEF Patched, Hit
  <2> QED
    BY <1>2, <1>4, <2>1 DEF IInv, Overlay, Patched, Active
<1>6. PatchedOnce' /\ HaltedHasNoStep' /\ StepInv'
  BY <1>4 DEF IInv, PatchedOnce, HaltedHasNoStep, StepInv, StepStays, Active, Patched
<1> QED
  BY <1>3, <1>5, <1>6 DEF IInv

\* Every step keeps IInv; one step per action.
LEMMA NextIInv == IInv /\ [Next]_vars => IInv'
<1> SUFFICES ASSUME IInv, [Next]_vars PROVE IInv'
  OBVIOUS
<1> USE BreakpointsAssumption
<1>t. TypeOK
  BY DEF IInv
<1>0. CASE UNCHANGED vars
  BY <1>0 DEF vars, IInv, TypeOK, Overlay, PatchedOnce, HaltedHasNoStep, StepInv, StepStays,
     Patched, Hit, Active
<1>1. ASSUME NEW a \in Addr, bp_set(a) PROVE IInv'
  <2>1. PICK i \in Slots : /\ ~Active(i)
                           /\ g_bp' = [g_bp EXCEPT ![i] =
                                [addr |-> a, saved |-> mem[a], active |-> TRUE]]
    BY <1>1 DEF bp_set, FirstFree, FreeSlots
  <2>2. /\ mode = "halted" /\ ~Hit(a) /\ a \in Readable /\ ~g_step.active
        /\ UNCHANGED <<image, g_step, mode, pc, next, sig, want>>
        /\ mem' = Store(mem, a, BP_INSN)
    BY <1>1 DEF bp_set, IInv, HaltedHasNoStep
  <2>3. mem[a] = image[a] /\ mem[a] \in Words
    BY <2>2, <1>t DEF IInv, Overlay, Patched, TypeOK
  <2>4. \A b \in Readable : mem'[b] = IF b = a /\ a \in Ram THEN BP_INSN ELSE mem[b]
    BY <2>2, <1>t, MemStore
  <2>5. TypeOK'
    BY <2>1, <2>2, <2>3, <1>t, MemStore DEF TypeOK
  <2>6. \A j \in Slots : g_bp'[j] = IF j = i THEN [addr |-> a, saved |-> mem[a], active |-> TRUE]
                                   ELSE g_bp[j]
    BY <2>1, <1>t DEF TypeOK
  <2>7. \A b : Hit(b)' <=> Hit(b) \/ b = a
    BY <2>1, <2>6 DEF Hit, Active
  <2>8. Overlay'
    BY <2>2, <2>3, <2>4, <2>6, <2>7 DEF IInv, Overlay, Patched, Active
  <2>9. PatchedOnce' /\ HaltedHasNoStep' /\ StepInv'
    BY <2>2, <2>6, <2>7 DEF IInv, PatchedOnce, HaltedHasNoStep, StepInv, StepStays, Active, Hit
  <2> QED
    BY <2>5, <2>8, <2>9 DEF IInv
<1>2. ASSUME NEW a \in Addr, bp_set_abort(a) PROVE IInv'
  <2>1. PICK i \in Slots : ~Active(i) /\ g_bp' = [g_bp EXCEPT ![i].addr = a]
    BY <1>2 DEF bp_set_abort, FirstFree, FreeSlots
  <2>2. \A j \in Slots : /\ Active(j)' <=> Active(j)
                         /\ Active(j) => g_bp'[j] = g_bp[j]
    BY <2>1, <1>t DEF TypeOK, Active
  <2>3. TypeOK'
    BY <1>2, <2>1, <1>t DEF bp_set_abort, TypeOK, Signals, NoWant, Addr
  <2>4. \A b : Hit(b)' <=> Hit(b)
    BY <2>2 DEF Hit, Active
  <2>5. Overlay'
    BY <1>2, <2>2, <2>4 DEF bp_set_abort, IInv, Overlay, Patched
  <2>6. PatchedOnce' /\ HaltedHasNoStep' /\ StepInv'
    BY <1>2, <2>2, <2>4 DEF bp_set_abort, IInv, PatchedOnce, HaltedHasNoStep, StepInv,
       StepStays, NoWant
  <2> QED
    BY <2>3, <2>5, <2>6 DEF IInv
<1>3. ASSUME NEW a \in Addr, bp_clear(a) PROVE IInv'
  <2>1. PICK i \in Slots : /\ Active(i) /\ g_bp[i].addr = a
                           /\ mem' = Store(mem, a, g_bp[i].saved)
                           /\ g_bp' = [g_bp EXCEPT ![i].active = FALSE]
    BY <1>3 DEF bp_clear
  <2>2. /\ mode = "halted" /\ ~g_step.active
        /\ UNCHANGED <<image, g_step, mode, pc, next, sig, want>>
    BY <1>3 DEF bp_clear, IInv, HaltedHasNoStep
  <2>3. g_bp[i].saved = image[a] /\ g_bp[i].saved \in Words
    BY <2>1, <1>t DEF IInv, Overlay, TypeOK
  <2>4. \A b \in Readable : mem'[b] = IF b = a /\ a \in Ram THEN image[a] ELSE mem[b]
    BY <2>1, <2>3, <1>t, MemStore
  <2>5. TypeOK'
    BY <2>1, <2>2, <2>3, <1>t, MemStore DEF TypeOK
  <2>6. \A j \in Slots : /\ Active(j)' <=> Active(j) /\ j # i
                         /\ j # i => g_bp'[j] = g_bp[j]
    BY <2>1, <1>t DEF TypeOK, Active
  <2>7. \A b : Hit(b)' <=> Hit(b) /\ b # a
    BY <2>1, <2>6 DEF Hit, Active, IInv, PatchedOnce
  <2>8. Overlay'
    BY <2>2, <2>4, <2>6, <2>7 DEF IInv, Overlay, Patched
  <2>9. PatchedOnce' /\ HaltedHasNoStep' /\ StepInv'
    BY <2>2, <2>6, <2>7 DEF IInv, PatchedOnce, HaltedHasNoStep, StepInv, StepStays
  <2> QED
    BY <2>5, <2>8, <2>9 DEF IInv
<1>4. ASSUME NEW a \in Addr, NEW w \in Words, write_memory(a, w) PROVE IInv'
  <2>1. CASE a \in Bad /\ StubAbort
    BY <2>1, TrapIInv DEF StubAbort, Signals, Addr
  <2>2. CASE /\ a \in Readable /\ mem' = Store(mem, a, w) /\ image' = Store(image, a, w)
             /\ UNCHANGED <<g_bp, g_step, mode, pc, next, sig, want>>
    <3>1. ~Patched(a)
      BY <1>4 DEF write_memory
    <3> QED
      BY <2>2, <3>1, <1>t, WriteIInv DEF TypeOK
  <2> QED
    BY <1>4, <2>1, <2>2 DEF write_memory
<1>5. ASSUME NEW a \in Addr, read_memory(a) PROVE IInv'
  BY <1>5, TrapIInv DEF read_memory, StubAbort, Signals, Addr
<1>6. ASSUME NEW a \in Addr, write_regs(a) PROVE IInv'
  <2>1. TypeOK'
    BY <1>6, <1>t DEF write_regs, TypeOK, NoWant, Addr
  <2> QED
    BY <1>6, <2>1 DEF write_regs, IInv, Overlay, PatchedOnce, HaltedHasNoStep, StepInv,
       StepStays, NoWant, Patched, Hit, Active
<1>7. CASE resume
  <2>1. TypeOK'
    BY <1>7, <1>t DEF resume, TypeOK, NoWant, Addr
  <2> QED
    BY <1>7, <2>1 DEF resume, IInv, Overlay, PatchedOnce, HaltedHasNoStep, StepInv,
       StepStays, NoWant, Patched, Hit, Active
<1>8. ASSUME NEW n \in Addr, do_step(n) PROVE IInv'
  <2>1. /\ mode = "halted" /\ n = next /\ n # pc /\ n \in Readable /\ ~g_step.active
        /\ mode' = "running" /\ want' = [on |-> TRUE, from |-> pc, to |-> n]
        /\ UNCHANGED <<image, g_bp, pc, next, sig>>
    BY <1>8 DEF do_step, IInv, HaltedHasNoStep
  <2>2. CASE Hit(n) /\ UNCHANGED <<mem, g_step>>
    <3>1. TypeOK'
      BY <2>1, <2>2, <1>t DEF TypeOK
    <3> QED
      BY <2>1, <2>2, <3>1 DEF IInv, Overlay, PatchedOnce, HaltedHasNoStep, StepInv,
         StepStays, Patched, Hit, Active
  <2>3. CASE /\ ~Hit(n) /\ mem' = Store(mem, n, BP_INSN)
             /\ g_step' = [addr |-> n, saved |-> mem[n], active |-> TRUE]
    <3>1. mem[n] = image[n] /\ mem[n] \in Words
      BY <2>1, <2>3, <1>t DEF IInv, Overlay, Patched, TypeOK
    <3>2. \A b \in Readable : mem'[b] = IF b = n /\ n \in Ram THEN BP_INSN ELSE mem[b]
      BY <2>3, <1>t, MemStore
    <3>3. TypeOK'
      BY <2>1, <2>3, <3>1, <1>t, MemStore DEF TypeOK
    <3>4. \A b : Patched(b)' <=> Patched(b) \/ b = n
      BY <2>1, <2>3 DEF Patched, Hit, Active
    <3>5. Overlay'
      BY <2>1, <2>3, <3>1, <3>2, <3>4 DEF IInv, Overlay, Active
    <3>6. PatchedOnce' /\ HaltedHasNoStep' /\ StepInv'
      BY <2>1, <2>3, <3>4 DEF IInv, PatchedOnce, HaltedHasNoStep, StepInv, StepStays, Hit, Active
    <3> QED
      BY <3>3, <3>5, <3>6 DEF IInv
  <2> QED
    BY <1>8, <2>2, <2>3 DEF do_step
<1>9. CASE do_step_abort
  <2>1. TypeOK'
    BY <1>9, <1>t DEF do_step_abort, TypeOK, Signals, NoWant, Addr
  <2>2. ~g_step.active /\ ~g_step'.active
    BY <1>9, <1>t DEF do_step_abort, IInv, HaltedHasNoStep, TypeOK
  <2> QED
    BY <1>9, <2>1, <2>2 DEF do_step_abort, IInv, Overlay, PatchedOnce, HaltedHasNoStep, StepInv,
       StepStays, NoWant, Patched, Hit, Active
<1>10. CASE Undefined \/ PrefetchAbort \/ DataAbort
  BY <1>10, <1>t, TrapIInv DEF Undefined, PrefetchAbort, DataAbort, Signals, TypeOK
<1>11. CASE Execute
  <2>1. /\ mode = "running" /\ pc \in Readable /\ mem[pc] # BP_INSN
        /\ pc' = next /\ next' \in Addr
        /\ UNCHANGED <<g_bp, g_step, mode, sig, want>>
    BY <1>11 DEF Execute
  <2>2. want.on /\ want.to \in Ram => pc # want.to /\ next = want.to /\ Patched(want.to)
    BY <2>1 DEF IInv, StepInv, Overlay, Readable
  <2>3. StepInv'
    BY <2>1, <2>2 DEF StepInv, StepStays, Patched, Hit, Active
  <2>4. CASE UNCHANGED <<mem, image>>
    <3>1. TypeOK'
      BY <2>1, <2>4, <1>t DEF TypeOK
    <3> QED
      BY <2>1, <2>3, <2>4, <3>1 DEF IInv, Overlay, PatchedOnce, HaltedHasNoStep,
         Patched, Hit, Active
  <2>5. ASSUME NEW a \in Ram, NEW w \in Words, ~Patched(a),
               mem' = Store(mem, a, w), image' = Store(image, a, w)
        PROVE  IInv'
    <3>1. a \in Addr /\ a \in Readable
      BY DEF Addr, Readable
    <3> QED
      BY <2>1, <2>3, <2>5, <3>1, <1>t, WriteIInv DEF TypeOK
  <2> QED
    BY <1>11, <2>4, <2>5 DEF Execute
<1> QED
  BY <1>0, <1>1, <1>2, <1>3, <1>4, <1>5, <1>6, <1>7, <1>8, <1>9, <1>10, <1>11 DEF Next

\* The stub's patches are an overlay of the program, whatever commands arrive.
THEOREM OverlayTheorem == Spec => []Overlay
<1>1. Spec => []IInv
  BY InitIInv, NextIInv, PTL DEF Spec
<1>2. IInv => Overlay
  BY DEF IInv
<1> QED
  BY <1>1, <1>2, PTL

\* No address is patched twice.
THEOREM PatchedOnceTheorem == Spec => []PatchedOnce
<1>1. Spec => []IInv
  BY InitIInv, NextIInv, PTL DEF Spec
<1>2. IInv => PatchedOnce
  BY DEF IInv
<1> QED
  BY <1>1, <1>2, PTL

\* A single step to RAM never runs away.
THEOREM StepStaysTheorem == Spec => []StepStays
<1>1. Spec => []IInv
  BY InitIInv, NextIInv, PTL DEF Spec
<1>2. IInv => StepStays
  BY DEF IInv, StepInv
<1> QED
  BY <1>1, <1>2, PTL

\* SIGTRAP means that the target ran into a patch.
THEOREM TrapMeansPatchTheorem == Spec => TrapMeansPatch
<1> DEFINE A == mode = "running" /\ mode' = "halted" /\ pc \notin Rom =>
                  (sig' = "TRAP" <=> pc \in Ram /\ mem[pc] = BP_INSN)
<1>1. Spec => []IInv
  BY InitIInv, NextIInv, PTL DEF Spec
<1>2. ASSUME IInv, [Next]_vars PROVE [A]_vars
  <2>1. SUFFICES ASSUME Next, mode = "running", mode' = "halted", pc \notin Rom
                 PROVE  sig' = "TRAP" <=> pc \in Ram /\ mem[pc] = BP_INSN
    BY <1>2
  <2>2. PICK s \in Signals \ {"TRAP"} :
             rsp_trapped(s, pc) /\ (pc \in Ram /\ mem[pc] = BP_INSN => s = "ILL")
    <3>1. Undefined \/ PrefetchAbort \/ DataAbort
      BY <2>1 DEF Next, bp_set, bp_set_abort, bp_clear, read_memory, write_regs, do_step,
         write_memory, do_step_abort, resume, Execute
    <3>2. "ILL" \in Signals \ {"TRAP"} /\ "SEGV" \in Signals \ {"TRAP"} /\ "BUS" \in Signals \ {"TRAP"}
      BY DEF Signals
    <3>3. pc \in Ram => pc \notin Bad /\ pc \in Readable
      BY BreakpointsAssumption DEF Readable
    <3> QED
      BY <3>1, <3>2, <3>3 DEF Undefined, PrefetchAbort, DataAbort
  <2>3. sig' = "TRAP" <=> Patched(pc)
    BY <2>2 DEF rsp_trapped, Patched
  <2>4. pc \in Readable => (mem[pc] = BP_INSN <=> pc \in Ram /\ Patched(pc))
    BY <1>2, BreakpointsAssumption DEF IInv, Overlay, TypeOK
  <2>5. Patched(pc) => pc \in Readable
    BY <1>2 DEF IInv, Overlay, Patched, Hit
  <2> QED
    BY <2>1, <2>3, <2>4, <2>5 DEF Readable
<1> QED
  BY <1>1, <1>2, PTL DEF Spec, TrapMeansPatch

\* The stub's tables, the memory and the step record keep their types.  What a
\* slot or the step record saves is an instruction of the program and never the
\* patch of another slot, so no clear can write BP_INSN back.
THEOREM TypeOKTheorem == Spec => []TypeOK
<1>1. Spec => []IInv
  BY InitIInv, NextIInv, PTL DEF Spec
<1>2. IInv => TypeOK
  BY DEF IInv
<1> QED
  BY <1>1, <1>2, PTL

=============================================================================
