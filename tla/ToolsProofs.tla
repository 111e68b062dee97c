---------------------------- MODULE ToolsProofs ----------------------------
(***************************************************************************)
(* The clock is right for every counter width and every length of run, the *)
(* readers of the keyboard have the keys of the last report for every size *)
(* of the queues, what the USB probes leave in OUT is right for every      *)
(* packet size and every number of tokens that go wrong, and what the NAND *)
(* programs report is what they did, for every size of page and block.     *)
(***************************************************************************)
EXTENDS Timer, Kbd, UsbProbes, NandTools, FiniteSetTheorems, SequenceTheorems, WellFoundedInduction, TLAPS

-----------------------------------------------------------------------------
(* The clock.                                                              *)

(* What timer_ms would add now.                                            *)
Due == masked(last - live)

TypeInv ==
  /\ live \in 0 .. WRAP - 1 /\ last \in 0 .. WRAP - 1
  /\ total \in Nat /\ answer \in Nat /\ real \in Nat /\ gap \in Nat

(* What is due is the gap, or less of it by whole turns of the counter.    *)
DueInv == on => Due <= gap /\ (~late => Due = gap)

(* The total is behind by the gap, or by more once a call was late.        *)
TotalInv == /\ total + gap <= real /\ (~late => total + gap = real)
            /\ answer <= total

IInv == TypeInv /\ DueInv /\ TotalInv

LEMMA InitIInv == Init => IInv
  BY TimerAssumption DEF Init, IInv, TypeInv, DueInv, TotalInv

LEMMA DueType == TypeInv => Due \in Nat
  BY TimerAssumption DEF TypeInv, Due, masked

LEMMA NextIInv == IInv /\ [Next]_vars => IInv'
<1> SUFFICES ASSUME IInv, [Next]_vars PROVE IInv'
  OBVIOUS
<1> USE TimerAssumption DEF IInv
<1>1. ASSUME timer_init PROVE IInv'
  BY <1>1 DEF timer_init, TypeInv, DueInv, TotalInv, Due, masked
<1>2. ASSUME timer_stop PROVE IInv'
  BY <1>2 DEF timer_stop, TypeInv, DueInv, TotalInv
<1>3. ASSUME timer_ms PROVE IInv'
  <2>1. Due \in Nat /\ total' = total + Due /\ answer' = total' /\ gap' = 0
        /\ UNCHANGED <<live, on, real, late>> /\ last' = live
    BY <1>3, DueType DEF timer_ms, Due
  <2>2. TypeInv'
    BY <2>1 DEF TypeInv
  <2>3. DueInv'
    BY <2>1, <2>2 DEF TypeInv, DueInv, Due, masked
  <2>4. TotalInv'
    BY <1>3, <2>1 DEF timer_ms, TypeInv, DueInv, TotalInv
  <2> QED
    BY <2>2, <2>3, <2>4
<1>4. ASSUME Count PROVE IInv'
  <2>1. TypeInv'
    BY <1>4 DEF Count, TypeInv
  <2>2. Due' = IF Due = WRAP - 1 THEN 0 ELSE Due + 1
    BY <1>4 DEF Count, TypeInv, Due, masked
  <2>3. ~late' => ~late /\ ~(gap + 1 >= WRAP)
    BY <1>4, Zenon DEF Count
  <2>4. /\ on /\ real' = real + 1 /\ gap' = gap + 1 /\ UNCHANGED <<total, answer>>
    BY <1>4 DEF Count
  <2>5. DueInv'
    <3>1. Due <= gap /\ Due \in Nat
      BY <2>4, DueType DEF DueInv
    <3>2. Due' <= gap'
      BY <2>2, <2>4, <3>1 DEF TypeInv
    <3>3. ASSUME ~late' PROVE Due' = gap'
      BY <2>2, <2>3, <2>4, <3>3 DEF TypeInv, DueInv
    <3> QED
      BY <3>2, <3>3 DEF DueInv
  <2>6. TotalInv'
    <3>1. total' + gap' <= real' /\ answer' <= total'
      BY <2>4 DEF TypeInv, TotalInv
    <3>2. ASSUME ~late' PROVE total' + gap' = real'
      BY <2>3, <2>4, <3>2 DEF TypeInv, TotalInv
    <3> QED
      BY <3>1, <3>2 DEF TotalInv
  <2> QED
    BY <2>1, <2>5, <2>6
<1>5. ASSUME UNCHANGED vars PROVE IInv'
  BY <1>5 DEF vars, TypeInv, DueInv, TotalInv, Due
<1> QED
  BY <1>1, <1>2, <1>3, <1>4, <1>5 DEF Next

(* The clock loses no tick while timer_ms is called more often than the    *)
(* counter wraps, and never runs ahead.                                    *)
THEOREM ExactTheorem == Spec => [](Exact /\ NeverAhead)
<1>1. IInv => Exact /\ NeverAhead
  BY DEF IInv, TypeInv, TotalInv, Exact, NeverAhead
<1> QED
  BY <1>1, InitIInv, NextIInv, PTL DEF Spec

-----------------------------------------------------------------------------
(* The USB probes.                                                         *)

Ops == {"words", "reset", "status", "get", "sample"}

\* The shape that all probes share: the address is set in the third step and the
\* configuration in the fourth, if at all, with no reset and no descriptor there.
Shape(p) ==
  /\ Len(p) \in Nat
  /\ \A i \in 1 .. Len(p) :
       /\ p[i].op \in Ops
       /\ p[i].op = "get" => p[i].len \in Nat
       /\ p[i].op = "status" => /\ "need" \in DOMAIN p[i]
                                /\ \/ i = 3 /\ p[i].req = "address"
                                   \/ i = 4 /\ p[i].req = "config" /\ p[i].need = 1
       /\ p[i].op = "reset" => i < 3 \/ \A k \in 1 .. Len(p) : p[k].op # "status"
       /\ p[i].op = "get" => \A k \in 1 .. Len(p) : p[k].op # "status"

\* No word of OUT belongs to two parts.
Disjoint(p) ==
  \A c \in OutWords : \A i, k \in 1 .. Len(p) :
    \A j \in 1 .. Len(p[i].parts), l \in 1 .. Len(p[k].parts) :
      c \in p[i].parts[j] /\ c \in p[k].parts[l] => i = k /\ j = l

\* The eight probes, one by one: their shape, and who writes a word of OUT.
LEMMA Attach == Shape(attach_probe)
  BY DEF Shape, attach_probe, Words, Ops
LEMMA Devdesc == Shape(devdesc_probe)
  BY DEF Shape, devdesc_probe, Words, Reset, Get, Ops
LEMMA Cfg9 == Shape(cfg9_probe)
  BY DEF Shape, cfg9_probe, Words, Reset, Get, Ops
LEMMA Cfgfull == Shape(cfgfull_probe)
  BY DEF Shape, cfgfull_probe, Words, Reset, Get, Ops
LEMMA Setaddr == Shape(setaddr_probe)
  BY DEF Shape, setaddr_probe, Words, Reset, Status, Ops
LEMMA Setconfig == Shape(setconfig_probe)
  BY DEF Shape, setconfig_probe, Words, Reset, Status, Ops
LEMMA Ep81 == Shape(ep81_probe)
  BY DEF Shape, ep81_probe, Words, Reset, Status, Sample, Ops

\* s and q name the step and the part that a word of OUT belongs to; P are the
\* parts of step i.
StepOwns(P, i, s, q) ==
  \A j \in 1 .. Len(P) : \A c \in OutWords : c \in P[j] => s[c] = i /\ q[c] = j

LEMMA StepsOwned ==
  ASSUME NEW p, NEW s, NEW q, \A i \in 1 .. Len(p) : StepOwns(p[i].parts, i, s, q)
  PROVE  Disjoint(p)
  BY DEF StepOwns, Disjoint

LEMMA AttachDisjoint == Disjoint(attach_probe)
<1> DEFINE p == attach_probe
           s == [c \in OutWords |->
                  IF c <= 3 THEN 1 ELSE IF c <= 7 THEN 5 ELSE IF c <= 23 THEN 2 ELSE IF c <= 39 THEN 3 ELSE 4]
           q == [c \in OutWords |->
                  1]
<1>0. Len(p) = 5
      /\ p[1].parts = <<0 .. 3>>
      /\ p[2].parts = <<8 .. 23>>
      /\ p[3].parts = <<24 .. 39>>
      /\ p[4].parts = <<40 .. 55>>
      /\ p[5].parts = <<4 .. 7>>
  BY DEF attach_probe, Words
<1>1. StepOwns(<<0 .. 3>>, 1, s, q)
  BY DEF StepOwns, OutWords
<1>2. StepOwns(<<8 .. 23>>, 2, s, q)
  BY DEF StepOwns, OutWords
<1>3. StepOwns(<<24 .. 39>>, 3, s, q)
  BY DEF StepOwns, OutWords
<1>4. StepOwns(<<40 .. 55>>, 4, s, q)
  BY DEF StepOwns, OutWords
<1>5. StepOwns(<<4 .. 7>>, 5, s, q)
  BY DEF StepOwns, OutWords
<1> HIDE DEF p, s, q
<1>6. ASSUME NEW i \in 1 .. 5 PROVE StepOwns(p[i].parts, i, s, q)
  <2>1. i \in {1, 2, 3, 4, 5}
    OBVIOUS
  <2> QED
    BY <1>0, <1>1, <1>2, <1>3, <1>4, <1>5, <2>1
<1>7. Disjoint(p)
  BY <1>0, <1>6, StepsOwned
<1> QED
  BY <1>7 DEF p

LEMMA DevdescDisjoint == Disjoint(devdesc_probe)
<1> DEFINE p == devdesc_probe
           s == [c \in OutWords |->
                  CASE c <= 3 -> 1 [] c \in 8 .. 17 -> 2 [] c \in 18 .. 27 -> 3
                    [] c \in (5 .. 7) \cup (28 .. 31) \cup (60 .. 63) -> 5 [] OTHER -> 4]
           q == [c \in OutWords |->
                  CASE c \in 32 .. 34 -> 2 [] c \in 40 .. 55 -> 3 [] c \in 56 .. 59 -> 4
                    [] c \in 64 .. 68 -> 5 [] c \in 36 .. 38 -> 6 [] OTHER -> 1]
<1>0. Len(p) = 5
      /\ p[1].parts = <<0 .. 3>>
      /\ p[2].parts = <<8 .. 17>>
      /\ p[3].parts = <<18 .. 27>>
      /\ p[4].parts = <<{4}, 32 .. 34, 40 .. 55, 56 .. 59, 64 .. 68, 36 .. 38>>
      /\ p[5].parts = <<(5 .. 7) \cup (28 .. 31) \cup (60 .. 63)>>
  BY DEF devdesc_probe, Words, Reset, Get
<1>1. StepOwns(<<0 .. 3>>, 1, s, q)
  BY DEF StepOwns, OutWords
<1>2. StepOwns(<<8 .. 17>>, 2, s, q)
  BY DEF StepOwns, OutWords
<1>3. StepOwns(<<18 .. 27>>, 3, s, q)
  BY DEF StepOwns, OutWords
<1>4. StepOwns(<<{4}, 32 .. 34, 40 .. 55, 56 .. 59, 64 .. 68, 36 .. 38>>, 4, s, q)
  BY DEF StepOwns, OutWords
<1>5. StepOwns(<<(5 .. 7) \cup (28 .. 31) \cup (60 .. 63)>>, 5, s, q)
  BY DEF StepOwns, OutWords
<1> HIDE DEF p, s, q
<1>6. ASSUME NEW i \in 1 .. 5 PROVE StepOwns(p[i].parts, i, s, q)
  <2>1. i \in {1, 2, 3, 4, 5}
    OBVIOUS
  <2> QED
    BY <1>0, <1>1, <1>2, <1>3, <1>4, <1>5, <2>1
<1>7. Disjoint(p)
  BY <1>0, <1>6, StepsOwned
<1> QED
  BY <1>7 DEF p

LEMMA Cfg9Disjoint == Disjoint(cfg9_probe)
<1> DEFINE p == cfg9_probe
           s == [c \in OutWords |->
                  CASE c <= 3 -> 1 [] c \in 4 .. 7 -> 2 [] c \in 9 .. 15 -> 4 [] OTHER -> 3]
           q == [c \in OutWords |->
                  CASE c \in 16 .. 18 -> 2 [] c \in 24 .. 31 -> 3 [] c \in 40 .. 41 -> 4
                    [] c \in 48 .. 50 -> 5 [] c \in 20 .. 22 -> 6 [] OTHER -> 1]
<1>0. Len(p) = 4
      /\ p[1].parts = <<0 .. 3>>
      /\ p[2].parts = <<4 .. 7>>
      /\ p[3].parts = <<{8}, 16 .. 18, 24 .. 31, 40 .. 41, 48 .. 50, 20 .. 22>>
      /\ p[4].parts = <<9 .. 15>>
  BY DEF cfg9_probe, Words, Reset, Get
<1>1. StepOwns(<<0 .. 3>>, 1, s, q)
  BY DEF StepOwns, OutWords
<1>2. StepOwns(<<4 .. 7>>, 2, s, q)
  BY DEF StepOwns, OutWords
<1>3. StepOwns(<<{8}, 16 .. 18, 24 .. 31, 40 .. 41, 48 .. 50, 20 .. 22>>, 3, s, q)
  BY DEF StepOwns, OutWords
<1>4. StepOwns(<<9 .. 15>>, 4, s, q)
  BY DEF StepOwns, OutWords
<1> HIDE DEF p, s, q
<1>5. ASSUME NEW i \in 1 .. 4 PROVE StepOwns(p[i].parts, i, s, q)
  <2>1. i \in {1, 2, 3, 4}
    OBVIOUS
  <2> QED
    BY <1>0, <1>1, <1>2, <1>3, <1>4, <2>1
<1>6. Disjoint(p)
  BY <1>0, <1>5, StepsOwned
<1> QED
  BY <1>6 DEF p

LEMMA CfgfullDisjoint == Disjoint(cfgfull_probe)
<1> DEFINE p == cfgfull_probe
           s == [c \in OutWords |->
                  CASE c <= 3 -> 1 [] c \in 4 .. 7 -> 2 [] c \in 9 .. 15 -> 4 [] OTHER -> 3]
           q == [c \in OutWords |->
                  CASE c \in 16 .. 18 -> 2 [] c \in 24 .. 55 -> 3 [] c \in 56 .. 63 -> 4
                    [] c \in 64 .. 78 -> 5 [] c \in 20 .. 22 -> 6 [] OTHER -> 1]
<1>0. Len(p) = 4
      /\ p[1].parts = <<0 .. 3>>
      /\ p[2].parts = <<4 .. 7>>
      /\ p[3].parts = <<{8}, 16 .. 18, 24 .. 55, 56 .. 63, 64 .. 78, 20 .. 22>>
      /\ p[4].parts = <<9 .. 15>>
  BY DEF cfgfull_probe, Words, Reset, Get
<1>1. StepOwns(<<0 .. 3>>, 1, s, q)
  BY DEF StepOwns, OutWords
<1>2. StepOwns(<<4 .. 7>>, 2, s, q)
  BY DEF StepOwns, OutWords
<1>3. StepOwns(<<{8}, 16 .. 18, 24 .. 55, 56 .. 63, 64 .. 78, 20 .. 22>>, 3, s, q)
  BY DEF StepOwns, OutWords
<1>4. StepOwns(<<9 .. 15>>, 4, s, q)
  BY DEF StepOwns, OutWords
<1> HIDE DEF p, s, q
<1>5. ASSUME NEW i \in 1 .. 4 PROVE StepOwns(p[i].parts, i, s, q)
  <2>1. i \in {1, 2, 3, 4}
    OBVIOUS
  <2> QED
    BY <1>0, <1>1, <1>2, <1>3, <1>4, <2>1
<1>6. Disjoint(p)
  BY <1>0, <1>5, StepsOwned
<1> QED
  BY <1>6 DEF p

LEMMA SetaddrDisjoint == Disjoint(setaddr_probe)
<1> DEFINE p == setaddr_probe
           s == [c \in OutWords |->
                  CASE c <= 3 -> 1 [] c \in 4 .. 7 -> 2 [] c \in 9 .. 15 -> 4 [] OTHER -> 3]
           q == [c \in OutWords |->
                  CASE c \in 16 .. 18 -> 2 [] c \in 24 .. 27 -> 3 [] OTHER -> 1]
<1>0. Len(p) = 4
      /\ p[1].parts = <<0 .. 3>>
      /\ p[2].parts = <<4 .. 7>>
      /\ p[3].parts = <<{8}, 16 .. 18, 24 .. 27>>
      /\ p[4].parts = <<9 .. 15>>
  BY DEF setaddr_probe, Words, Reset, Status
<1>1. StepOwns(<<0 .. 3>>, 1, s, q)
  BY DEF StepOwns, OutWords
<1>2. StepOwns(<<4 .. 7>>, 2, s, q)
  BY DEF StepOwns, OutWords
<1>3. StepOwns(<<{8}, 16 .. 18, 24 .. 27>>, 3, s, q)
  BY DEF StepOwns, OutWords
<1>4. StepOwns(<<9 .. 15>>, 4, s, q)
  BY DEF StepOwns, OutWords
<1> HIDE DEF p, s, q
<1>5. ASSUME NEW i \in 1 .. 4 PROVE StepOwns(p[i].parts, i, s, q)
  <2>1. i \in {1, 2, 3, 4}
    OBVIOUS
  <2> QED
    BY <1>0, <1>1, <1>2, <1>3, <1>4, <2>1
<1>6. Disjoint(p)
  BY <1>0, <1>5, StepsOwned
<1> QED
  BY <1>6 DEF p

LEMMA SetconfigDisjoint == Disjoint(setconfig_probe)
<1> DEFINE p == setconfig_probe
           s == [c \in OutWords |->
                  CASE c <= 3 -> 1 [] c \in 4 .. 7 -> 2 [] c \in 8 .. 15 -> 5
                    [] c \in 16 .. 23 -> 3 [] OTHER -> 4]
           q == [c \in OutWords |->
                  CASE c \in (16 .. 18) \cup (32 .. 34) -> 2
                    [] c \in (20 .. 23) \cup (36 .. 39) -> 3 [] OTHER -> 1]
<1>0. Len(p) = 5
      /\ p[1].parts = <<0 .. 3>>
      /\ p[2].parts = <<4 .. 7>>
      /\ p[3].parts = <<{}, 16 .. 18, 20 .. 23>>
      /\ p[4].parts = <<{}, 32 .. 34, 36 .. 39>>
      /\ p[5].parts = <<8 .. 15>>
  BY DEF setconfig_probe, Words, Reset, Status
<1>1. StepOwns(<<0 .. 3>>, 1, s, q)
  BY DEF StepOwns, OutWords
<1>2. StepOwns(<<4 .. 7>>, 2, s, q)
  BY DEF StepOwns, OutWords
<1>3. StepOwns(<<{}, 16 .. 18, 20 .. 23>>, 3, s, q)
  BY DEF StepOwns, OutWords
<1>4. StepOwns(<<{}, 32 .. 34, 36 .. 39>>, 4, s, q)
  BY DEF StepOwns, OutWords
<1>5. StepOwns(<<8 .. 15>>, 5, s, q)
  BY DEF StepOwns, OutWords
<1> HIDE DEF p, s, q
<1>6. ASSUME NEW i \in 1 .. 5 PROVE StepOwns(p[i].parts, i, s, q)
  <2>1. i \in {1, 2, 3, 4, 5}
    OBVIOUS
  <2> QED
    BY <1>0, <1>1, <1>2, <1>3, <1>4, <1>5, <2>1
<1>7. Disjoint(p)
  BY <1>0, <1>6, StepsOwned
<1> QED
  BY <1>7 DEF p

LEMMA Ep81Disjoint == Disjoint(ep81_probe)
<1> DEFINE p == ep81_probe
           s == [c \in OutWords |->
                  CASE c <= 3 -> 1 [] c \in {4} \cup (16 .. 23) -> 3
                    [] c \in {5} \cup (32 .. 39) -> 4 [] c \in 48 .. 51 -> 5 [] OTHER -> 6]
           q == [c \in OutWords |->
                  CASE c \in (16 .. 18) \cup (32 .. 34) -> 2
                    [] c \in (20 .. 23) \cup (36 .. 39) -> 3 [] OTHER -> 1]
<1>0. Len(p) = 6
      /\ p[1].parts = <<0 .. 3>>
      /\ p[2].parts = <<{}>>
      /\ p[3].parts = <<{4}, 16 .. 18, 20 .. 23>>
      /\ p[4].parts = <<{5}, 32 .. 34, 36 .. 39>>
      /\ p[5].parts = <<48 .. 51>>
      /\ p[6].parts = <<6 .. 15>>
  BY DEF ep81_probe, Words, Reset, Status, Sample
<1>1. StepOwns(<<0 .. 3>>, 1, s, q)
  BY DEF StepOwns, OutWords
<1>2. StepOwns(<<{}>>, 2, s, q)
  BY DEF StepOwns, OutWords
<1>3. StepOwns(<<{4}, 16 .. 18, 20 .. 23>>, 3, s, q)
  BY DEF StepOwns, OutWords
<1>4. StepOwns(<<{5}, 32 .. 34, 36 .. 39>>, 4, s, q)
  BY DEF StepOwns, OutWords
<1>5. StepOwns(<<48 .. 51>>, 5, s, q)
  BY DEF StepOwns, OutWords
<1>6. StepOwns(<<6 .. 15>>, 6, s, q)
  BY DEF StepOwns, OutWords
<1> HIDE DEF p, s, q
<1>7. ASSUME NEW i \in 1 .. 6 PROVE StepOwns(p[i].parts, i, s, q)
  <2>1. i \in {1, 2, 3, 4, 5, 6}
    OBVIOUS
  <2> QED
    BY <1>0, <1>1, <1>2, <1>3, <1>4, <1>5, <1>6, <2>1
<1>8. Disjoint(p)
  BY <1>0, <1>7, StepsOwned
<1> QED
  BY <1>8 DEF p


\* u is t behind s.
IsConcat(u, s, t) ==
  /\ Len(u) = Len(s) + Len(t)
  /\ \A i \in 1 .. Len(s) : u[i] = s[i]
  /\ \A i \in 1 .. Len(t) : u[Len(s) + i] = t[i]

LEMMA ConcatParts ==
  ASSUME NEW S, NEW s \in Seq(S), NEW t \in Seq(S)
  PROVE  s \o t \in Seq(S) /\ IsConcat(s \o t, s, t)
  BY DEF IsConcat

LEMMA SampleSteps ==
  /\ Len(ep81_sample_probe) = 29
  /\ ep81_sample_probe[1] = Words(0 .. 3) /\ ep81_sample_probe[2] = Reset({})
  /\ ep81_sample_probe[3] = Status("address", 16, 20, 0, {4})
  /\ ep81_sample_probe[4] = Status("config", 32, 36, 1, {5})
  /\ \A i \in 1 .. 24 : ep81_sample_probe[4 + i] = Sample(48 + 4 * (i - 1) .. 48 + 4 * i - 1)
  /\ ep81_sample_probe[29] = Words(6 .. 13)
<1> DEFINE w == Words(0 .. 3)
           r == Reset({})
           a == Status("address", 16, 20, 0, {4})
           f == Status("config", 32, 36, 1, {5})
           x(i) == Sample(48 + 4 * (i - 1) .. 48 + 4 * i - 1)
           z == Words(6 .. 13)
           S == {w, r, a, f, z} \cup {x(i) : i \in 1 .. 24}
           A == <<w, r, a, f>>
           B == [i \in 1 .. 24 |-> x(i)]
           C == <<z>>
           D == A \o B
           p == ep81_sample_probe
<1>1. p = D \o C
  BY DEF ep81_sample_probe
<1> HIDE DEF w, r, a, f, x, z, p
<1>2. A \in Seq(S) /\ Len(A) = 4 /\ A[1] = w /\ A[2] = r /\ A[3] = a /\ A[4] = f
  OBVIOUS
<1>3. C \in Seq(S) /\ Len(C) = 1 /\ C[1] = z
  OBVIOUS
<1>4. B \in Seq(S) /\ Len(B) = 24 /\ \A i \in 1 .. 24 : B[i] = x(i)
  OBVIOUS
<1> HIDE DEF A, B, C, S
<1>5. D \in Seq(S) /\ IsConcat(D, A, B)
  BY <1>2, <1>4, ConcatParts
<1> HIDE DEF D
<1>6. IsConcat(p, D, C)
  <2>1. IsConcat(D \o C, D, C)
    BY <1>3, <1>5, ConcatParts
  <2> QED
    BY <1>1, <2>1
<1>7. Len(D) = 28 /\ Len(p) = 29
  BY <1>2, <1>3, <1>4, <1>5, <1>6 DEF IsConcat
<1>8. p[29] = z
  BY <1>3, <1>6, <1>7 DEF IsConcat
<1>9. \A i \in 1 .. 28 : p[i] = D[i]
  BY <1>6, <1>7 DEF IsConcat
<1>10. p[1] = w /\ p[2] = r /\ p[3] = a /\ p[4] = f
  <2>1. \A i \in 1 .. 4 : D[i] = A[i]
    BY <1>2, <1>5 DEF IsConcat
  <2>2. \A i \in 1 .. 4 : p[i] = A[i]
    BY <1>9, <2>1
  <2> QED
    BY <1>2, <2>2
<1>11. ASSUME NEW i \in 1 .. 24 PROVE p[4 + i] = x(i)
  <2>1. 4 + i \in 1 .. 28
    OBVIOUS
  <2>2. D[4 + i] = B[i]
    BY <1>2, <1>4, <1>5 DEF IsConcat
  <2> QED
    BY <1>4, <1>9, <2>1, <2>2
<1> QED
  BY <1>7, <1>8, <1>10, <1>11 DEF p, w, r, a, f, x, z
LEMMA SampleShape == Shape(ep81_sample_probe)
<1> DEFINE p == ep81_sample_probe
<1>1. Len(p) = 29 /\ p[1].op = "words" /\ p[2].op = "reset" /\ p[29].op = "words"
  BY SampleSteps DEF Words, Reset
<1>2. /\ p[3].op = "status" /\ "need" \in DOMAIN p[3] /\ p[3].req = "address"
      /\ p[4].op = "status" /\ "need" \in DOMAIN p[4] /\ p[4].req = "config" /\ p[4].need = 1
  BY SampleSteps DEF Status
<1>3. \A i \in 1 .. 24 : p[4 + i].op = "sample"
  BY SampleSteps DEF Sample
<1> HIDE DEF p
<1>4. ASSUME NEW i \in 1 .. 29 PROVE i \in {1, 2, 3, 4} \/ p[i].op = "sample" \/ i = 29
  <2>1. i \in {1, 2, 3, 4} \/ (i - 4 \in 1 .. 24 /\ 4 + (i - 4) = i) \/ i = 29
    OBVIOUS
  <2> QED
    BY <1>3, <2>1
<1> QED
  BY <1>1, <1>2, <1>4 DEF Shape, Ops, p

LEMMA SampleDisjoint == Disjoint(ep81_sample_probe)
<1> DEFINE p == ep81_sample_probe
           s == [c \in OutWords |->
                   CASE c <= 3 -> 1 [] c \in {4} \cup (16 .. 23) -> 3 [] c \in {5} \cup (32 .. 39) -> 4
                     [] c \in 48 .. 143 -> (c - 48) \div 4 + 5 [] OTHER -> 29]
           q == [c \in OutWords |->
                   CASE c \in (16 .. 18) \cup (32 .. 34) -> 2 [] c \in (20 .. 23) \cup (36 .. 39) -> 3
                     [] OTHER -> 1]
<1>1. StepOwns(<<0 .. 3>>, 1, s, q)
  BY DEF StepOwns, OutWords
<1>2. StepOwns(<<{}>>, 2, s, q)
  BY DEF StepOwns, OutWords
<1>3. StepOwns(<<{4}, 16 .. 18, 20 .. 23>>, 3, s, q)
  BY DEF StepOwns, OutWords
<1>4. StepOwns(<<{5}, 32 .. 34, 36 .. 39>>, 4, s, q)
  BY DEF StepOwns, OutWords
<1>5. ASSUME NEW i \in 1 .. 24
      PROVE  StepOwns(<<48 + 4 * (i - 1) .. 48 + 4 * i - 1>>, 4 + i, s, q)
  <2> DEFINE P == 48 + 4 * (i - 1) .. 48 + 4 * i - 1
  <2>1. ASSUME NEW c \in OutWords, c \in P PROVE s[c] = 4 + i /\ q[c] = 1
    <3>1. c \in 48 .. 143 /\ (c - 48) \div 4 + 5 = 4 + i
      BY <2>1 DEF OutWords
    <3> QED
      BY <3>1
  <2> HIDE DEF s, q, P
  <2>2. Len(<<P>>) = 1 /\ <<P>>[1] = P
    OBVIOUS
  <2>3. StepOwns(<<P>>, 4 + i, s, q)
    BY <2>1, <2>2 DEF StepOwns
  <2> QED
    BY <2>3 DEF P
<1>6. StepOwns(<<6 .. 13>>, 29, s, q)
  BY DEF StepOwns, OutWords
<1> HIDE DEF s, q
<1>7. /\ Len(p) = 29 /\ p[1].parts = <<0 .. 3>> /\ p[2].parts = <<{}>>
      /\ p[3].parts = <<{4}, 16 .. 18, 20 .. 23>> /\ p[4].parts = <<{5}, 32 .. 34, 36 .. 39>>
      /\ \A i \in 1 .. 24 : p[4 + i].parts = <<48 + 4 * (i - 1) .. 48 + 4 * i - 1>>
      /\ p[29].parts = <<6 .. 13>>
  BY SampleSteps DEF Words, Reset, Status, Sample
<1> HIDE DEF p
<1>8. ASSUME NEW i \in 1 .. 29 PROVE StepOwns(p[i].parts, i, s, q)
  <2>1. i \in {1, 2, 3, 4, 29} \/ (i - 4 \in 1 .. 24 /\ 4 + (i - 4) = i)
    OBVIOUS
  <2>2. CASE i - 4 \in 1 .. 24 /\ 4 + (i - 4) = i
    <3> DEFINE k == i - 4
    <3>1. k \in 1 .. 24 /\ 4 + k = i
      BY <2>2
    <3> HIDE DEF k
    <3> QED
      BY <1>5, <1>7, <3>1
  <2> QED
    BY <1>1, <1>2, <1>3, <1>4, <1>6, <1>7, <2>1, <2>2
<1>9. Disjoint(p)
  BY <1>7, <1>8, StepsOwned
<1> QED
  BY <1>9 DEF p

LEMMA ProbesOK == \A p \in Probes : Shape(p) /\ Disjoint(p)
  BY Attach, Devdesc, Cfg9, Cfgfull, Setaddr, Setconfig, Ep81, SampleShape,
     AttachDisjoint, DevdescDisjoint, Cfg9Disjoint, CfgfullDisjoint, SetaddrDisjoint,
     SetconfigDisjoint, Ep81Disjoint, SampleDisjoint DEF Probes

(* The inductive invariant.                                                *)

Bools == {TRUE, FALSE}
Keyboards == [there : Bools, addr : Nat, cfg : Bools, toggle : {0, 1}, pkt : Nat, len : Nat,
              req : {"none", "get", "address", "config"}]

ProbesTypeOK ==
  /\ probe \in Probes /\ step \in 1 .. Len(probe) + 1 /\ phase \in {"start", "in", "data", "out"}
  /\ ptoggle \in {0, 1} /\ left \in Nat /\ got \in Nat
  /\ packets \in Seq(Nat) /\ ret \in Seq({"ok", "nak", "err"})
  /\ DOMAIN out = OutWords /\ g_error \in Bools /\ usb \in Keyboards

\* A transfer is of the step that it is in, and the keyboard works on its request.
TransferInv ==
  /\ phase # "start" => step <= Len(probe)
  /\ phase = "in" => This.op = "status" /\ (usb.there => usb.req = This.req)
  /\ phase \in {"data", "out"} => This.op = "get"

\* The keyboard sends the packet that is next, or the one before it again because
\* its ACK was lost, and only then do the toggles differ.
SyncInv ==
  ~g_error /\ usb.there /\ phase = "data" =>
    \/ usb.pkt = Len(packets) /\ usb.toggle = ptoggle
    \/ usb.pkt + 1 = Len(packets) /\ usb.toggle # ptoggle

\* Results are of the address, then of the configuration.
RetInv ==
  (\E k \in 1 .. Len(probe) : probe[k].op = "status") =>
    /\ step <= 3 => ret = <<>>
    /\ step <= 4 => Len(ret) <= 1
    /\ Len(ret) = 2 /\ ret[2] = "ok" /\ usb.there => usb.cfg

\* x is a part of a step that word c of OUT belongs to.
Owner(c, x) ==
  \E i \in 1 .. Len(probe) : \E j \in 1 .. Len(probe[i].parts) : x = <<i, j>> /\ c \in probe[i].parts[j]
OutInv == \A c \in OutWords : \A x \in out[c] : Owner(c, x)

ProbesInv ==
  ProbesTypeOK /\ TransferInv /\ SyncInv /\ DescriptorIsPrefix /\ RetInv /\ OutInv

LEMMA ProbesInitOK == UsbProbesInit => ProbesInv
<1> SUFFICES ASSUME UsbProbesInit PROVE ProbesInv
  OBVIOUS
<1>1. probe \in Probes /\ step = 1 /\ phase = "start" /\ ptoggle = 0 /\ left = 0 /\ got = 0
      /\ packets = <<>> /\ ret = <<>> /\ out = [c \in OutWords |-> {}] /\ g_error = FALSE
  BY DEF UsbProbesInit
<1>0. FALSE \in Bools /\ TRUE \in Bools
  BY DEF Bools
<1>2. usb \in Keyboards
  <2>1. Away \in Keyboards
    BY <1>0 DEF Away, Keyboards
  <2>2. [Away EXCEPT !.there = TRUE] \in Keyboards
    BY <1>0, <2>1 DEF Keyboards
  <2> QED
    BY <2>1, <2>2 DEF UsbProbesInit
<1>3. Len(probe) \in Nat
  BY <1>1, ProbesOK DEF Shape
<1>4. ProbesTypeOK
  <2>1. g_error \in Bools
    BY <1>1 DEF Bools
  <2>2. DOMAIN out = OutWords
    BY <1>1
  <2>3. packets \in Seq(Nat) /\ ret \in Seq({"ok", "nak", "err"}) /\ step \in 1 .. Len(probe) + 1
    BY <1>1, <1>3
  <2> QED
    BY <1>1, <1>2, <2>1, <2>2, <2>3 DEF ProbesTypeOK
<1>5. TransferInv /\ SyncInv /\ RetInv
  BY <1>1 DEF TransferInv, SyncInv, RetInv
<1>6. DescriptorIsPrefix
  <2>1. PACKET * 0 = 0
    BY UsbProbesAssumption
  <2> QED
    BY <1>1, <2>1 DEF DescriptorIsPrefix
<1>7. OutInv
  BY <1>1 DEF OutInv
<1> QED
  BY <1>4, <1>5, <1>6, <1>7 DEF ProbesInv

\* A step writes its own words only.
LEMMA WriteOwns ==
  ASSUME ProbesInv, Running, Write \/ UNCHANGED out, UNCHANGED probe
  PROVE  OutInv' /\ DOMAIN out' = OutWords
<1>1. CASE UNCHANGED out
  BY <1>1 DEF ProbesInv, ProbesTypeOK, OutInv, Owner
<1>2. CASE Write
  <2>1. DOMAIN out' = OutWords
    BY <1>2 DEF Write
  <2>2. step \in 1 .. Len(probe)
    BY DEF ProbesInv, ProbesTypeOK, Running
  <2>3. ASSUME NEW c \in OutWords, NEW x \in out'[c] PROVE Owner(c, x)'
    <3>1. x \in out[c] \/ \E j \in 1 .. Len(This.parts) : x = <<step, j>> /\ c \in This.parts[j]
      BY <1>2, <2>3 DEF Write
    <3>2. Owner(c, x)
      BY <2>2, <3>1 DEF ProbesInv, OutInv, Owner, This
    <3> QED
      BY <3>2 DEF Owner
  <2> QED
    BY <2>1, <2>3 DEF OutInv
<1> QED
  BY <1>1, <1>2

\* Most steps leave the descriptor alone.
LEMMA SameDescriptor ==
  ASSUME ProbesInv, UNCHANGED <<got, packets>>, g_error' \in {g_error, TRUE}
  PROVE  DescriptorIsPrefix'
  BY DEF ProbesInv, DescriptorIsPrefix

LEMMA NextStep ==
  ASSUME ProbesInv, Running, step' = step + 1, UNCHANGED probe
  PROVE  step \in 1 .. Len(probe) /\ step' \in 1 .. Len(probe)' + 1 /\ Len(probe) \in Nat
<1>1. probe \in Probes
  BY DEF ProbesInv, ProbesTypeOK
<1>2. Len(probe) \in Nat
  BY <1>1, ProbesOK DEF Shape
<1> QED
  BY <1>2 DEF ProbesInv, ProbesTypeOK, Running

LEMMA WordsStep == ASSUME ProbesInv, words_step PROVE ProbesInv'
<1>1. /\ Running /\ phase' = "start" /\ step' = step + 1 /\ (Write \/ UNCHANGED out)
      /\ UNCHANGED <<ptoggle, left, got, packets, ret, probe, g_error, usb, tfaults>>
  BY DEF words_step, NoTransfer
<1>2. OutInv' /\ DOMAIN out' = OutWords
  BY <1>1, WriteOwns
<1>3. ProbesTypeOK'
  BY <1>1, <1>2, NextStep DEF ProbesInv, ProbesTypeOK
<1>4. TransferInv' /\ SyncInv'
  BY <1>1 DEF TransferInv, SyncInv
<1>5. RetInv'
  BY <1>1, NextStep DEF ProbesInv, RetInv
<1>6. DescriptorIsPrefix'
  BY <1>1, SameDescriptor
<1> QED
  BY <1>2, <1>3, <1>4, <1>5, <1>6 DEF ProbesInv

\* Without a status there is no result that counts.
LEMMA ResetStep == ASSUME ProbesInv, port_reset PROVE ProbesInv'
<1>1. /\ Running /\ phase' = "start" /\ step' = step + 1 /\ Write /\ This.op = "reset"
      /\ usb' = [usb EXCEPT !.addr = 0, !.cfg = FALSE]
      /\ UNCHANGED <<ptoggle, left, got, packets, ret, probe, g_error, tfaults>>
  BY DEF port_reset, NoTransfer, Done
<1>2. OutInv' /\ DOMAIN out' = OutWords
  BY <1>1, WriteOwns
<1>3. step \in 1 .. Len(probe) /\ step' \in 1 .. Len(probe)' + 1
  BY <1>1, NextStep
<1>4. usb' \in Keyboards
  <2>1. FALSE \in Bools
    BY DEF Bools
  <2> QED
    BY <1>1, <2>1 DEF ProbesInv, ProbesTypeOK, Keyboards
<1>5. ProbesTypeOK'
  BY <1>1, <1>2, <1>3, <1>4 DEF ProbesInv, ProbesTypeOK
<1>6. TransferInv' /\ SyncInv'
  BY <1>1 DEF TransferInv, SyncInv
<1>7. RetInv'
  <2>1. Shape(probe)
    BY ProbesOK DEF ProbesInv, ProbesTypeOK
  <2>2. step < 3 \/ \A k \in 1 .. Len(probe) : probe[k].op # "status"
    BY <1>1, <1>3, <2>1 DEF Shape, This
  <2>3. step < 3 /\ (\E k \in 1 .. Len(probe) : probe[k].op = "status") => Len(ret) = 0 /\ ret = <<>>
    BY <1>3 DEF ProbesInv, RetInv
  <2> QED
    BY <1>1, <1>3, <2>2, <2>3 DEF RetInv
<1>8. DescriptorIsPrefix'
  BY <1>1, SameDescriptor
<1> QED
  BY <1>2, <1>5, <1>6, <1>7, <1>8 DEF ProbesInv

\* A transfer that failed: its result is neither "ok" nor the last word of the probe.
LEMMA FailedTransfer ==
  ASSUME ProbesInv, Running, UNCHANGED probe, This.op \in {"status", "get"},
         NEW r \in {"nak", "err"}, Fails(r), g_error' \in {g_error, TRUE},
         usb' \in Keyboards, usb'.cfg = usb.cfg \/ usb'.cfg = TRUE, usb'.there = usb.there
  PROVE  ProbesInv'
<1>1. /\ phase' = "start" /\ step' = step + 1 /\ Write /\ ret' = Append(ret, r)
      /\ UNCHANGED <<ptoggle, left, got, packets>>
  BY DEF Fails, Done
<1>2. OutInv' /\ DOMAIN out' = OutWords
  BY <1>1, WriteOwns
<1>3. step \in 1 .. Len(probe) /\ step' \in 1 .. Len(probe)' + 1
  BY <1>1, NextStep
<1>4. ret \in Seq({"ok", "nak", "err"}) /\ r \in {"ok", "nak", "err"}
  BY DEF ProbesInv, ProbesTypeOK
<1>5. ret' \in Seq({"ok", "nak", "err"}) /\ Len(ret') = Len(ret) + 1 /\ Len(ret) \in Nat
      /\ ret'[Len(ret) + 1] = r
  BY <1>1, <1>4
<1>6. g_error' \in Bools
  <2>1. TRUE \in Bools /\ g_error \in Bools
    BY DEF Bools, ProbesInv, ProbesTypeOK
  <2> QED
    BY <2>1
<1>7. ProbesTypeOK'
  BY <1>1, <1>2, <1>3, <1>5, <1>6 DEF ProbesInv, ProbesTypeOK
<1>8. TransferInv' /\ SyncInv'
  BY <1>1 DEF TransferInv, SyncInv
<1>9. RetInv'
  <2>1. Shape(probe)
    BY ProbesOK DEF ProbesInv, ProbesTypeOK
  <2>2. step = 3 \/ step = 4 \/ \A k \in 1 .. Len(probe) : probe[k].op # "status"
    BY <1>3, <2>1 DEF Shape, This
  <2>3. CASE \A k \in 1 .. Len(probe) : probe[k].op # "status"
    BY <2>3 DEF RetInv
  <2>4. CASE \E k \in 1 .. Len(probe) : probe[k].op = "status"
    <3>1. step = 3 \/ step = 4
      BY <2>2, <2>4
    <3>2. step = 3 => Len(ret) = 0
      BY <2>4 DEF ProbesInv, RetInv
    <3>3. Len(ret) <= 1
      BY <2>4, <3>1 DEF ProbesInv, RetInv
    <3>4. Len(ret') = 2 => ret'[2] = r
      BY <1>5
    <3>5. ~(Len(ret') = 2 /\ ret'[2] = "ok")
      BY <3>4
    <3> QED
      BY <1>1, <1>5, <3>1, <3>2, <3>3, <3>5 DEF RetInv
  <2> QED
    BY <2>3, <2>4
<1>10. DescriptorIsPrefix'
  BY <1>1, SameDescriptor
<1> QED
  BY <1>2, <1>7, <1>8, <1>9, <1>10 DEF ProbesInv

LEMMA SetupStep == ASSUME ProbesInv, setup_token PROVE ProbesInv'
<1> DEFINE len == IF This.op = "get" THEN This.len ELSE 0
           req == IF This.op = "get" THEN "get" ELSE This.req
<1>1. Running /\ phase = "start" /\ This.op \in {"status", "get"} /\ UNCHANGED probe
  BY DEF setup_token
<1>2. usb \in Keyboards /\ step \in 1 .. Len(probe) /\ probe \in Probes
  BY <1>1 DEF ProbesInv, ProbesTypeOK, Running
<1>3. CASE /\ usb' = [usb EXCEPT !.pkt = 0, !.toggle = 1, !.req = req, !.len = len]
           /\ phase' = (IF This.op = "get" THEN "data" ELSE "in") /\ ptoggle' = 1
           /\ left' = len /\ got' = 0 /\ packets' = <<>>
           /\ UNCHANGED <<step, out, ret, g_error, tfaults>>
  <2>1. Shape(probe)
    BY <1>2, ProbesOK
  <2>2. /\ This.op = "get" => This.len \in Nat
        /\ This.op = "status" => This.req \in {"address", "config"}
    BY <1>2, <2>1 DEF Shape, This
  <2>3. len \in Nat /\ req \in {"none", "get", "address", "config"}
    BY <1>1, <2>2
  <2> HIDE DEF len
  <2>4. req = IF This.op = "get" THEN "get" ELSE This.req
    OBVIOUS
  <2> HIDE DEF req
  <2>5. /\ usb' \in Keyboards /\ usb'.pkt = 0 /\ usb'.toggle = 1 /\ usb'.req = req
        /\ usb'.there = usb.there /\ usb'.cfg = usb.cfg
    BY <1>2, <1>3, <2>3 DEF Keyboards
  <2>6. packets' \in Seq(Nat) /\ Len(packets') = 0
    BY <1>3
  <2>7. ProbesTypeOK'
    BY <1>1, <1>3, <2>3, <2>5, <2>6 DEF ProbesInv, ProbesTypeOK
  <2>8. TransferInv'
    BY <1>1, <1>2, <1>3, <2>4, <2>5 DEF TransferInv, This, Running
  <2>9. SyncInv'
    BY <1>3, <2>5, <2>6 DEF SyncInv
  <2>10. DescriptorIsPrefix'
    <3>1. PACKET * 0 = 0
      BY UsbProbesAssumption
    <3> QED
      BY <1>3, <2>6, <3>1 DEF DescriptorIsPrefix
  <2>11. RetInv'
    BY <1>1, <1>3, <2>5 DEF ProbesInv, RetInv
  <2>12. OutInv'
    BY <1>1, <1>3, WriteOwns
  <2> QED
    BY <2>7, <2>8, <2>9, <2>10, <2>11, <2>12 DEF ProbesInv
<1>4. CASE Fails("err") /\ UNCHANGED usb /\ g_error' \in {g_error, TRUE}
  BY <1>1, <1>2, <1>4, FailedTransfer
<1> QED
  BY <1>3, <1>4 DEF setup_token

LEMMA StatusStep == ASSUME ProbesInv, status_token PROVE ProbesInv'
<1>1. Running /\ phase = "in" /\ UNCHANGED probe
  BY DEF status_token
<1>2. /\ usb \in Keyboards /\ step \in 1 .. Len(probe) /\ probe \in Probes /\ This.op = "status"
      /\ usb.there => usb.req = This.req
  BY <1>1 DEF ProbesInv, ProbesTypeOK, TransferInv, Running
<1>3. /\ Served \in Keyboards /\ Served.there = usb.there
      /\ Served.cfg = usb.cfg \/ Served.cfg = TRUE
      /\ usb.req = "config" => Served.cfg = TRUE
  <2>1. TRUE \in Bools
    BY DEF Bools
  <2> QED
    BY <1>2, <2>1 DEF Served, Keyboards
<1>4. CASE /\ Listens /\ usb' = Served /\ ret' = Append(ret, "ok") /\ Done /\ ptoggle' = 0
           /\ UNCHANGED <<left, got, packets, g_error, tfaults>>
  <2>1. phase' = "start" /\ step' = step + 1 /\ Write /\ usb.there
    BY <1>4 DEF Done, Listens
  <2>2. OutInv' /\ DOMAIN out' = OutWords
    BY <1>1, <2>1, WriteOwns
  <2>3. step' \in 1 .. Len(probe)' + 1
    BY <1>1, <2>1, NextStep
  <2>4. ret \in Seq({"ok", "nak", "err"})
    BY DEF ProbesInv, ProbesTypeOK
  <2>5. ret' \in Seq({"ok", "nak", "err"}) /\ Len(ret') = Len(ret) + 1 /\ Len(ret) \in Nat
    BY <1>4, <2>4
  <2>6. ProbesTypeOK'
    BY <1>1, <1>3, <1>4, <2>1, <2>2, <2>3, <2>5 DEF ProbesInv, ProbesTypeOK
  <2>7. TransferInv' /\ SyncInv'
    BY <2>1 DEF TransferInv, SyncInv
  <2>8. RetInv'
    <3>1. Shape(probe)
      BY <1>2, ProbesOK
    <3>2. step = 3 \/ (step = 4 /\ This.req = "config")
      <4>1. probe[step].op = "status"
        BY <1>2 DEF This
      <4>2. \/ step = 3 /\ probe[step].req = "address"
            \/ step = 4 /\ probe[step].req = "config" /\ probe[step].need = 1
        BY <1>2, <3>1, <4>1 DEF Shape
      <4> QED
        BY <4>2 DEF This
    <3>3. \E k \in 1 .. Len(probe) : probe[k].op = "status"
      BY <1>2 DEF This
    <3>4. (step = 3 => Len(ret) = 0) /\ (step = 4 => Len(ret) <= 1)
      BY <3>3 DEF ProbesInv, RetInv
    <3>5. step = 4 => usb'.cfg = TRUE
      BY <1>2, <1>3, <1>4, <2>1, <3>2
    <3> QED
      BY <1>1, <2>1, <2>5, <3>2, <3>4, <3>5 DEF RetInv
  <2>9. DescriptorIsPrefix'
    BY <1>4, SameDescriptor
  <2> QED
    BY <2>2, <2>6, <2>7, <2>8, <2>9 DEF ProbesInv
<1>5. CASE Fails("nak") /\ UNCHANGED <<usb, g_error, tfaults>>
  BY <1>1, <1>2, <1>5, FailedTransfer
<1>6. CASE TokenFault /\ Fails("err") /\ usb' \in {usb, Served} /\ UNCHANGED g_error
  BY <1>1, <1>2, <1>3, <1>6, FailedTransfer
<1> QED
  BY <1>4, <1>5, <1>6 DEF status_token

\* A packet that is taken is the next one, and no longer than a packet.
LEMMA TakeStep ==
  ASSUME ProbesInv, Running, phase = "data", take_chunk, UNCHANGED g_error
  PROVE  /\ got' \in Nat /\ left' \in Nat /\ packets' \in Seq(Nat) /\ ptoggle' \in {0, 1}
         /\ phase' \in {"data", "out"} /\ usb.toggle = ptoggle /\ ptoggle' = 1 - ptoggle
         /\ Len(packets') = Len(packets) + 1 /\ DescriptorIsPrefix'
<1> DEFINE chunk == Smaller(Size, left)
           n == Len(packets)
<1>1. /\ usb.there /\ usb.toggle = ptoggle /\ got' = got + chunk /\ left' = left - chunk
      /\ packets' = Append(packets, usb.pkt) /\ ptoggle' = 1 - ptoggle /\ phase' \in {"data", "out"}
  BY DEF take_chunk, Listens
<1>2. /\ left \in Nat /\ got \in Nat /\ packets \in Seq(Nat) /\ usb.pkt \in Nat /\ usb.len \in Nat
      /\ ptoggle \in {0, 1}
  BY DEF ProbesInv, ProbesTypeOK, Keyboards
<1>3. PACKET \in Nat /\ PACKET > 0 /\ PACKET * usb.pkt \in Nat
  BY <1>2, UsbProbesAssumption
<1>4. Size \in 0 .. PACKET
  <2>1. Rest \in Int
    BY <1>2, <1>3 DEF Rest
  <2> QED
    BY <1>3, <2>1 DEF Size, Smaller
<1>5. chunk \in 0 .. PACKET /\ chunk <= left
  BY <1>2, <1>3, <1>4 DEF Smaller
<1> HIDE DEF chunk
<1>6. got' \in Nat /\ left' \in Nat /\ ptoggle' \in {0, 1}
  BY <1>1, <1>2, <1>3, <1>5
<1>7. /\ n \in Nat /\ packets' \in Seq(Nat) /\ Len(packets') = n + 1 /\ packets'[n + 1] = usb.pkt
      /\ \A i \in 1 .. n : packets'[i] = packets[i]
  BY <1>1, <1>2
<1>8. ASSUME ~g_error
      PROVE  /\ \A i \in 1 .. Len(packets') : packets'[i] = i - 1
             /\ got' <= PACKET * Len(packets')
  <2>1. usb.pkt = n
    BY <1>1, <1>8 DEF ProbesInv, SyncInv
  <2>2. \A i \in 1 .. n : packets[i] = i - 1
    BY <1>8 DEF ProbesInv, DescriptorIsPrefix
  <2>3. got <= PACKET * n
    BY <1>8 DEF ProbesInv, DescriptorIsPrefix
  <2> HIDE DEF n
  <2>4. PACKET * (n + 1) = PACKET * n + PACKET /\ PACKET * n \in Nat
    BY <1>3, <1>7
  <2>5. got' <= PACKET * (n + 1)
    BY <1>1, <1>2, <1>3, <1>5, <2>3, <2>4
  <2>6. \A i \in 1 .. n + 1 : packets'[i] = i - 1
    BY <1>7, <2>1, <2>2
  <2> QED
    BY <1>7, <2>5, <2>6
<1> QED
  BY <1>1, <1>6, <1>7, <1>8 DEF DescriptorIsPrefix

LEMMA SentType ==
  ASSUME usb \in Keyboards
  PROVE  /\ Sent \in Keyboards /\ Sent.pkt = usb.pkt + 1 /\ Sent.toggle = 1 - usb.toggle
         /\ Sent.there = usb.there /\ Sent.cfg = usb.cfg /\ Sent.req = usb.req
<1>1. usb.pkt + 1 \in Nat /\ 1 - usb.toggle \in {0, 1}
  BY DEF Keyboards
<1>2. Sent = [usb EXCEPT !.pkt = usb.pkt + 1, !.toggle = 1 - usb.toggle]
  BY DEF Sent, Keyboards
<1> QED
  BY <1>1, <1>2 DEF Keyboards

LEMMA DataStep == ASSUME ProbesInv, data_token PROVE ProbesInv'
<1>1. Running /\ phase = "data" /\ UNCHANGED <<probe, step, out, ret>>
  BY DEF data_token
<1>2. usb \in Keyboards /\ This.op = "get" /\ step <= Len(probe) /\ ptoggle \in {0, 1}
  BY <1>1 DEF ProbesInv, ProbesTypeOK, TransferInv
<1>3. /\ usb' \in Keyboards /\ usb'.there = usb.there /\ usb'.cfg = usb.cfg
      /\ phase' \in {"data", "out"} /\ g_error' \in {g_error, TRUE}
      /\ got' \in Nat /\ left' \in Nat /\ packets' \in Seq(Nat) /\ ptoggle' \in {0, 1}
      /\ DescriptorIsPrefix'
  <2>1. CASE take_chunk /\ UNCHANGED g_error /\ usb' \in {usb, Sent}
    BY <1>1, <1>2, <2>1, TakeStep, SentType
  <2>2. CASE /\ usb' \in {usb, Sent} /\ phase' \in {"data", "out"} /\ g_error' \in {g_error, TRUE}
             /\ UNCHANGED <<ptoggle, left, got, packets>>
    <3>1. DescriptorIsPrefix'
      BY <2>2, SameDescriptor
    <3> QED
      BY <1>2, <2>2, <3>1, SentType DEF ProbesInv, ProbesTypeOK
  <2> QED
    BY <2>1, <2>2 DEF data_token
<1>4. ProbesTypeOK'
  <2>1. g_error' \in Bools
    <3>1. TRUE \in Bools /\ g_error \in Bools
      BY DEF Bools, ProbesInv, ProbesTypeOK
    <3> QED
      BY <1>3, <3>1
  <2> QED
    BY <1>1, <1>3, <2>1 DEF ProbesInv, ProbesTypeOK
<1>5. TransferInv'
  BY <1>1, <1>2, <1>3 DEF TransferInv, This
<1>6. SyncInv'
  <2>1. CASE take_chunk /\ usb' = Sent /\ UNCHANGED g_error
    BY <1>1, <1>2, <2>1, TakeStep, SentType DEF ProbesInv, SyncInv
  <2>2. CASE take_chunk /\ UNCHANGED <<usb, g_error>>
    BY <1>1, <1>2, <2>2, TakeStep DEF ProbesInv, SyncInv
  <2>3. CASE phase' = "out" \/ g_error' = TRUE
    BY <2>3 DEF SyncInv
  <2> QED
    BY <2>1, <2>2, <2>3 DEF data_token
<1>7. RetInv' /\ OutInv'
  BY <1>1, <1>3, WriteOwns DEF ProbesInv, RetInv
<1> QED
  BY <1>3, <1>4, <1>5, <1>6, <1>7 DEF ProbesInv

LEMMA OutStep == ASSUME ProbesInv, out_token PROVE ProbesInv'
<1>1. /\ Running /\ phase' = "start" /\ step' = step + 1 /\ Write
      /\ usb' = [usb EXCEPT !.req = "none"]
      /\ UNCHANGED <<probe, ptoggle, left, got, packets, ret, g_error, tfaults>>
  BY DEF out_token, Done
<1>2. OutInv' /\ DOMAIN out' = OutWords
  BY <1>1, WriteOwns
<1>3. usb' \in Keyboards /\ usb'.there = usb.there /\ usb'.cfg = usb.cfg
  BY <1>1 DEF ProbesInv, ProbesTypeOK, Keyboards
<1>4. ProbesTypeOK'
  BY <1>1, <1>2, <1>3, NextStep DEF ProbesInv, ProbesTypeOK
<1>5. TransferInv' /\ SyncInv'
  BY <1>1 DEF TransferInv, SyncInv
<1>6. RetInv'
  BY <1>1, <1>3, NextStep DEF ProbesInv, RetInv
<1>7. DescriptorIsPrefix'
  BY <1>1, SameDescriptor
<1> QED
  BY <1>2, <1>4, <1>5, <1>6, <1>7 DEF ProbesInv

LEMMA SampleStep == ASSUME ProbesInv, sample_token PROVE ProbesInv'
<1>1. /\ Running /\ phase' = "start" /\ step' = step + 1 /\ Write
      /\ usb' \in {usb, [usb EXCEPT !.toggle = 1 - @]} /\ ptoggle' \in {ptoggle, 1 - ptoggle}
      /\ UNCHANGED <<probe, left, got, packets, ret, g_error>>
  BY DEF sample_token, Done
<1>2. OutInv' /\ DOMAIN out' = OutWords
  BY <1>1, WriteOwns
<1>3. usb' \in Keyboards /\ usb'.there = usb.there /\ usb'.cfg = usb.cfg /\ ptoggle' \in {0, 1}
  BY <1>1 DEF ProbesInv, ProbesTypeOK, Keyboards
<1>4. ProbesTypeOK'
  BY <1>1, <1>2, <1>3, NextStep DEF ProbesInv, ProbesTypeOK
<1>5. TransferInv' /\ SyncInv'
  BY <1>1 DEF TransferInv, SyncInv
<1>6. RetInv'
  BY <1>1, <1>3, NextStep DEF ProbesInv, RetInv
<1>7. DescriptorIsPrefix'
  BY <1>1, SameDescriptor
<1> QED
  BY <1>2, <1>4, <1>5, <1>6, <1>7 DEF ProbesInv

LEMMA UnpluggedStep == ASSUME ProbesInv, Unplugged PROVE ProbesInv'
<1>1. UNCHANGED <<probe, step, phase, out, g_error, ptoggle, left, got, packets, ret>> /\ usb' = Away
  BY DEF Unplugged, NoTransfer
<1>2. usb' \in Keyboards /\ ~usb'.there
  <2>1. FALSE \in Bools
    BY DEF Bools
  <2> QED
    BY <1>1, <2>1 DEF Away, Keyboards
<1>3. ProbesTypeOK' /\ TransferInv' /\ SyncInv' /\ RetInv'
  BY <1>1, <1>2 DEF ProbesInv, ProbesTypeOK, TransferInv, SyncInv, RetInv, This
<1>4. DescriptorIsPrefix'
  BY <1>1, SameDescriptor
<1>5. OutInv'
  BY <1>1 DEF ProbesInv, OutInv, Owner
<1> QED
  BY <1>3, <1>4, <1>5 DEF ProbesInv

\* A word has one owner, and the configuration is what the second result tells.
LEMMA ProbesInvImplies == ProbesInv => OutIsTrue
<1> SUFFICES ASSUME ProbesInv PROVE OutIsTrue
  OBVIOUS
<1>1. probe \in Probes /\ Shape(probe) /\ Disjoint(probe) /\ step \in 1 .. Len(probe) + 1
  BY ProbesOK DEF ProbesInv, ProbesTypeOK
<1>2. ReportedIsConfigured
  <2>1. Address = 2 => \E k \in 1 .. Len(probe) : probe[k].op = "status"
    BY <1>1 DEF Address, Shape
  <2> QED
    BY <2>1 DEF ProbesInv, RetInv, ReportedIsConfigured
<1>3. ResultsAreKept
  <2> SUFFICES ASSUME NEW c \in OutWords PROVE Cardinality(out[c]) <= 1
    BY DEF ResultsAreKept
  <2>1. ASSUME NEW x \in out[c], NEW y \in out[c] PROVE x = y
    <3>1. PICK i \in 1 .. Len(probe) : \E j \in 1 .. Len(probe[i].parts) : x = <<i, j>> /\ c \in probe[i].parts[j]
      BY DEF ProbesInv, OutInv, Owner
    <3>2. PICK j \in 1 .. Len(probe[i].parts) : x = <<i, j>> /\ c \in probe[i].parts[j]
      BY <3>1
    <3>3. PICK k \in 1 .. Len(probe) : \E l \in 1 .. Len(probe[k].parts) : y = <<k, l>> /\ c \in probe[k].parts[l]
      BY DEF ProbesInv, OutInv, Owner
    <3>4. PICK l \in 1 .. Len(probe[k].parts) : y = <<k, l>> /\ c \in probe[k].parts[l]
      BY <3>3
    <3>5. i = k /\ j = l
      BY <1>1, <3>2, <3>4 DEF Disjoint
    <3> QED
      BY <3>2, <3>4, <3>5
  <2>2. CASE out[c] = {}
    BY <2>2, FS_EmptySet
  <2>3. ASSUME NEW x, out[c] = {x} PROVE Cardinality(out[c]) <= 1
    <3>1. Cardinality({x}) = 1
      BY FS_Singleton
    <3> QED
      BY <2>3, <3>1
  <2> QED
    BY <2>1, <2>2, <2>3
<1> QED
  BY <1>2, <1>3 DEF ProbesInv, OutIsTrue

(* What a probe of the CH374 bridge leaves in OUT is what happened, for    *)
(* every packet size and every number of tokens that go wrong: the         *)
(* descriptor has no packet twice and none missing (take_chunk and the     *)
(* data loops of get_device_desc, get_config9 and get_config_full), good   *)
(* results up to the configuration are of a configured keyboard, and no    *)
(* word of OUT is written by two parts of a probe.                         *)
THEOREM OutIsTrueTheorem == UsbProbesSpec => []OutIsTrue
<1>1. ASSUME ProbesInv, [UsbProbesNext]_probe_vars PROVE ProbesInv'
  <2>1. CASE UNCHANGED probe_vars
    BY <1>1, <2>1 DEF probe_vars, ProbesInv, ProbesTypeOK, TransferInv, SyncInv, DescriptorIsPrefix,
                      RetInv, OutInv, Owner, This
  <2> QED
    BY <1>1, <2>1, WordsStep, ResetStep, SetupStep, StatusStep, DataStep, OutStep, SampleStep,
       UnpluggedStep DEF UsbProbesNext
<1> QED
  BY <1>1, ProbesInitOK, ProbesInvImplies, PTL DEF UsbProbesSpec

-----------------------------------------------------------------------------
(* The keyboard: the rings of events.                                     *)

\* Everything that can be in a slot or be a bit.
AllUsages == Usages \cup {RollOver}
\* Events with a code of C.
Events(C) == [pressed : BOOLEAN, code : C]

\* A release of u finds it down, for who has set and hears q.
Changes(set, q, u) ==
  \A k \in 1 .. Len(q) : q[k].code = u /\ ~q[k].pressed => DownAt(set, q, k - 1, u)

\* An event behind the others decides for its code, and nothing changes before
\* it.
LEMMA AppendDown ==
  ASSUME NEW X, NEW q \in Seq(X), NEW e \in X, NEW set, NEW u
  PROVE  /\ DownAt(set, Append(q, e), Len(q) + 1, u)
              <=> IF e.code = u THEN e.pressed ELSE DownAt(set, q, Len(q), u)
         /\ \A k \in 0 .. Len(q) : DownAt(set, Append(q, e), k, u) <=> DownAt(set, q, k, u)
<1> DEFINE n == Len(q)
           p == Append(q, e)
<1>1. n \in Nat /\ Len(p) = n + 1 /\ p[n + 1] = e /\ \A i \in 1 .. n : p[i] = q[i]
  OBVIOUS
<1> HIDE DEF p, n
<1>2. ASSUME NEW k \in 0 .. n PROVE DownAt(set, p, k, u) <=> DownAt(set, q, k, u)
  <2>1. \A i \in 1 .. k : i \in 1 .. n /\ p[i] = q[i] /\ \A j \in i + 1 .. k : j \in 1 .. n /\ p[j] = q[j]
    BY <1>1
  <2> QED
    BY <2>1 DEF DownAt
<1>3. CASE e.code = u
  <2>1. \A j \in n + 2 .. n + 1 : FALSE
    BY <1>1
  <2>2. \A i \in 1 .. n : n + 1 \in i + 1 .. n + 1
    BY <1>1
  <2>3. n + 1 \in 1 .. n + 1 /\ \A i \in 1 .. n + 1 : i = n + 1 \/ i \in 1 .. n
    BY <1>1
  <2>4. (n + 1) + 1 = n + 2
    BY <1>1
  <2>5. DownAt(set, p, n + 1, u) <=> e.pressed
    BY <1>1, <1>3, <2>1, <2>2, <2>3, <2>4 DEF DownAt
  <2> QED
    BY <1>2, <1>3, <2>5 DEF n, p
<1>4. CASE e.code # u
  <2>1. \A i \in 1 .. n + 1 : i = n + 1 \/ i \in 1 .. n
    BY <1>1
  <2>2. \A i \in 1 .. n : i \in 1 .. n + 1 /\ \A j \in i + 1 .. n + 1 : j = n + 1 \/ j \in i + 1 .. n
    BY <1>1
  <2>6. \A i \in 1 .. n : \A j \in i + 1 .. n : j \in i + 1 .. n + 1 /\ j \in 1 .. n
    BY <1>1
  <2>3. DownAt(set, p, n + 1, u) <=> DownAt(set, q, n, u)
    BY <1>1, <1>4, <2>1, <2>2, <2>6 DEF DownAt
  <2> QED
    BY <1>2, <1>4, <2>3 DEF n, p
<1> QED
  BY <1>3, <1>4

\* To hear the first event and then the rest is to hear all of them.
LEMMA TailDown ==
  ASSUME NEW X, NEW q \in Seq(X), q # <<>>, NEW set, NEW u, NEW k \in 0 .. Len(q) - 1
  PROVE  DownAt(Heard(set, Head(q)), Tail(q), k, u) <=> DownAt(set, q, k + 1, u)
<1> DEFINE t == Tail(q)
<1>1. Len(q) \in Nat \ {0} /\ Len(t) = Len(q) - 1 /\ Head(q) = q[1] /\ \A i \in 1 .. Len(q) - 1 : t[i] = q[i + 1]
  OBVIOUS
<1> HIDE DEF t
<1>2. (\A i \in 1 .. k + 1 : q[i].code # u) <=> q[1].code # u /\ \A i \in 1 .. k : t[i].code # u
  <2>1. 1 \in 1 .. k + 1 /\ \A i \in 1 .. k : i \in 1 .. Len(q) - 1 /\ i + 1 \in 1 .. k + 1
    BY <1>1
  <2>2. \A i \in 1 .. k + 1 : i = 1 \/ (i - 1 \in 1 .. k /\ i = (i - 1) + 1 /\ i - 1 \in 1 .. Len(q) - 1)
    BY <1>1
  <2> QED
    BY <1>1, <2>1, <2>2
<1>3. ASSUME NEW i \in 0 .. k
      PROVE  (\A j \in i + 2 .. k + 1 : q[j].code # u) <=> \A j \in i + 1 .. k : t[j].code # u
  <2>1. \A j \in i + 1 .. k : j + 1 \in i + 2 .. k + 1 /\ j \in 1 .. Len(q) - 1
    BY <1>1
  <2>2. \A j \in i + 2 .. k + 1 : j - 1 \in i + 1 .. k /\ j = (j - 1) + 1 /\ j - 1 \in 1 .. Len(q) - 1
    BY <1>1
  <2> QED
    BY <1>1, <2>1, <2>2
<1> DEFINE Last(s, i, n) == s[i].code = u /\ s[i].pressed /\ \A j \in i + 1 .. n : s[j].code # u
<1>4. ASSUME NEW i \in 1 .. k PROVE Last(q, i + 1, k + 1) <=> Last(t, i, k)
  <2>1. t[i] = q[i + 1] /\ (i + 1) + 1 = i + 2 /\ i \in 0 .. k
    BY <1>1
  <2> QED
    BY <1>3, <2>1
<1>5. Last(q, 1, k + 1) <=> q[1].code = u /\ q[1].pressed /\ \A j \in 1 .. k : t[j].code # u
  <2>1. 0 + 2 = 1 + 1 /\ 0 + 1 = 1 /\ 0 \in 0 .. k
    OBVIOUS
  <2> QED
    BY <1>3, <2>1
<1>6. (\E i \in 1 .. k + 1 : Last(q, i, k + 1)) <=> Last(q, 1, k + 1) \/ \E i \in 1 .. k : Last(t, i, k)
  <2>1. 1 \in 1 .. k + 1 /\ \A i \in 1 .. k : i + 1 \in 1 .. k + 1
    OBVIOUS
  <2>2. \A i \in 1 .. k + 1 : i = 1 \/ (i - 1 \in 1 .. k /\ i = (i - 1) + 1)
    OBVIOUS
  <2> HIDE DEF Last
  <2> QED
    BY <1>4, <2>1, <2>2
<1>7. u \in Heard(set, q[1]) <=> IF q[1].code = u THEN q[1].pressed ELSE u \in set
  BY DEF Heard
<1>8. DownAt(Heard(set, q[1]), t, k, u) <=> DownAt(set, q, k + 1, u)
  <2>1. DownAt(set, q, k + 1, u) <=> (u \in set /\ \A i \in 1 .. k + 1 : q[i].code # u) \/ \E i \in 1 .. k + 1 : Last(q, i, k + 1)
    BY DEF DownAt
  <2>2. DownAt(Heard(set, q[1]), t, k, u) <=> (u \in Heard(set, q[1]) /\ \A i \in 1 .. k : t[i].code # u) \/ \E i \in 1 .. k : Last(t, i, k)
    BY DEF DownAt
  <2> HIDE DEF Last
  <2> QED
    BY <1>2, <1>5, <1>6, <1>7, <2>1, <2>2
<1> QED
  BY <1>1, <1>8 DEF t

\* An event that falls out of the ring is nothing to any other code.
LEMMA DropDown ==
  ASSUME NEW X, NEW q \in Seq(X), q # <<>>, NEW set, NEW u, Head(q).code # u, NEW k \in 0 .. Len(q) - 1
  PROVE  DownAt(set, Tail(q), k, u) <=> DownAt(set, q, k + 1, u)
<1>1. u \in Heard(set, Head(q)) <=> u \in set
  BY DEF Heard
<1>2. DownAt(Heard(set, Head(q)), Tail(q), k, u) <=> DownAt(set, Tail(q), k, u)
  BY <1>1 DEF DownAt
<1> QED
  BY <1>2, TailDown

\* The releases that stay when the first event goes find u down if they did.
LEMMA TailChanges ==
  ASSUME NEW X, NEW q \in Seq(X), q # <<>>, NEW set, NEW set2, NEW u, Changes(set, q, u),
         \A k \in 0 .. Len(q) - 1 : DownAt(set2, Tail(q), k, u) <=> DownAt(set, q, k + 1, u)
  PROVE  Changes(set2, Tail(q), u)
<1> DEFINE t == Tail(q)
<1>1. Len(q) \in Nat \ {0} /\ Len(t) = Len(q) - 1 /\ \A i \in 1 .. Len(q) - 1 : t[i] = q[i + 1]
  OBVIOUS
<1>2. \A k \in 0 .. Len(q) - 1 : DownAt(set2, t, k, u) <=> DownAt(set, q, k + 1, u)
  OBVIOUS
<1> HIDE DEF t
<1>3. ASSUME NEW k \in 1 .. Len(t), t[k].code = u, ~t[k].pressed PROVE DownAt(set2, t, k - 1, u)
  <2>1. k + 1 \in 1 .. Len(q) /\ t[k] = q[k + 1] /\ (k + 1) - 1 = (k - 1) + 1 /\ k - 1 \in 0 .. Len(q) - 1
    BY <1>1
  <2>2. DownAt(set, q, (k + 1) - 1, u)
    BY <1>3, <2>1 DEF Changes
  <2> QED
    BY <1>2, <2>1, <2>2
<1>4. Changes(set2, t, u)
  BY <1>3 DEF Changes
<1> QED
  BY <1>4 DEF t

\* So does one more of what is down.
LEMMA AppendChanges ==
  ASSUME NEW X, NEW q \in Seq(X), NEW e \in X, NEW set, NEW u, Changes(set, q, u),
         e.code = u /\ ~e.pressed => DownAt(set, q, Len(q), u)
  PROVE  Changes(set, Append(q, e), u)
<1> DEFINE n == Len(q)
           p == Append(q, e)
<1>1. n \in Nat /\ Len(p) = n + 1 /\ p[n + 1] = e /\ \A i \in 1 .. n : p[i] = q[i]
  OBVIOUS
<1>2. \A k \in 0 .. n : DownAt(set, p, k, u) <=> DownAt(set, q, k, u)
  BY AppendDown
<1>3. e.code = u /\ ~e.pressed => DownAt(set, q, n, u)
  OBVIOUS
<1>5. \A k \in 1 .. n : q[k].code = u /\ ~q[k].pressed => DownAt(set, q, k - 1, u)
  BY DEF Changes
<1> HIDE DEF n, p
<1>4. ASSUME NEW k \in 1 .. Len(p), p[k].code = u, ~p[k].pressed PROVE DownAt(set, p, k - 1, u)
  <2>1. CASE k = n + 1
    <3>1. k - 1 = n /\ n \in 0 .. n /\ p[k] = e
      BY <1>1, <2>1
    <3> QED
      BY <1>2, <1>3, <1>4, <3>1
  <2>2. CASE k \in 1 .. n
    <3>1. k - 1 \in 0 .. n /\ p[k] = q[k]
      BY <1>1, <2>2
    <3> QED
      BY <1>2, <1>4, <1>5, <2>2, <3>1
  <2> QED
    BY <1>1, <2>1, <2>2
<1>6. Changes(set, p, u)
  BY <1>4 DEF Changes
<1> QED
  BY <1>6 DEF p

\* A push, into a full ring or not, as it is for a code that never fell out
\* (queue_push).
LEMMA RingPush ==
  ASSUME NEW X, NEW q \in Seq(X), NEW e \in X, NEW size \in Nat \ {0, 1}, Len(q) <= size - 1, NEW gone,
         NEW r, r = [q |-> q, out |-> gone], NEW r2, r2 = ring_push(r, e, size)
  PROVE  /\ r2.q \in Seq(X) /\ Len(r2.q) <= size - 1 /\ gone \subseteq r2.out
         /\ r2 = [q |-> r2.q, out |-> r2.out]
         /\ \A set, u : u \notin r2.out =>
              /\ DownAt(set, r2.q, Len(r2.q), u)
                   <=> IF e.code = u THEN e.pressed ELSE DownAt(set, q, Len(q), u)
              /\ Changes(set, q, u) /\ (e.code = u /\ ~e.pressed => DownAt(set, q, Len(q), u))
                   => Changes(set, r2.q, u)
<1>0. Len(q) \in Nat /\ r.q = q /\ r.out = gone
  OBVIOUS
<1>1. CASE Len(q) < size - 1
  <2>1. r2 = [q |-> Append(q, e), out |-> gone]
    BY <1>0, <1>1 DEF ring_push
  <2>2. r2.q = Append(q, e) /\ r2.out = gone
    BY <2>1
  <2>3. r2.q \in Seq(X) /\ Len(r2.q) = Len(q) + 1
    BY <2>2
  <2>6. Len(r2.q) <= size - 1
    BY <1>0, <1>1, <2>3
  <2>4. ASSUME NEW set, NEW u PROVE
              /\ DownAt(set, r2.q, Len(r2.q), u)
                   <=> IF e.code = u THEN e.pressed ELSE DownAt(set, q, Len(q), u)
              /\ Changes(set, q, u) /\ (e.code = u /\ ~e.pressed => DownAt(set, q, Len(q), u))
                   => Changes(set, r2.q, u)
    <3>1. DownAt(set, Append(q, e), Len(q) + 1, u) <=> IF e.code = u THEN e.pressed ELSE DownAt(set, q, Len(q), u)
      BY AppendDown
    <3>2. Changes(set, q, u) /\ (e.code = u /\ ~e.pressed => DownAt(set, q, Len(q), u)) => Changes(set, Append(q, e), u)
      BY AppendChanges
    <3> QED
      BY <2>2, <2>3, <3>1, <3>2
  <2> QED
    BY <2>1, <2>2, <2>3, <2>4, <2>6
<1>2. CASE ~(Len(q) < size - 1)
  <2> DEFINE t == Tail(q)
             c == Head(q).code
  <2>1. q # <<>> /\ Len(q) = size - 1
    BY <1>0, <1>2
  <2>2. r2 = [q |-> Append(t, e), out |-> gone \cup {c}]
    BY <1>0, <1>2 DEF ring_push
  <2>3. t \in Seq(X) /\ Len(t) = Len(q) - 1
    BY <2>1
  <2>8. ASSUME NEW set, NEW u, u # c PROVE
          /\ DownAt(set, t, Len(t), u) <=> DownAt(set, q, Len(q), u)
          /\ Changes(set, q, u) => Changes(set, t, u)
    <3>1. \A k \in 0 .. Len(q) - 1 : DownAt(set, t, k, u) <=> DownAt(set, q, k + 1, u)
      BY <2>1, <2>8, DropDown
    <3>2. Changes(set, q, u) => Changes(set, t, u)
      BY <2>1, <3>1, TailChanges
    <3>3. Len(t) \in 0 .. Len(q) - 1 /\ Len(t) + 1 = Len(q)
      BY <1>0, <2>1, <2>3
    <3> QED
      BY <3>1, <3>2, <3>3
  <2> HIDE DEF t, c
  <2>4. r2.q = Append(t, e) /\ r2.out = gone \cup {c}
    BY <2>2
  <2>5. r2.q \in Seq(X) /\ Len(r2.q) = Len(t) + 1
    <3>1. \A s \in Seq(X) : Append(s, e) \in Seq(X) /\ Len(Append(s, e)) = Len(s) + 1
      OBVIOUS
    <3> QED
      BY <2>3, <2>4, <3>1
  <2>6. Len(r2.q) <= size - 1
    BY <1>0, <2>1, <2>3, <2>5
  <2>7. ASSUME NEW set, NEW u, u \notin r2.out PROVE
              /\ DownAt(set, r2.q, Len(r2.q), u)
                   <=> IF e.code = u THEN e.pressed ELSE DownAt(set, q, Len(q), u)
              /\ Changes(set, q, u) /\ (e.code = u /\ ~e.pressed => DownAt(set, q, Len(q), u))
                   => Changes(set, r2.q, u)
    <3>1. DownAt(set, Append(t, e), Len(t) + 1, u) <=> IF e.code = u THEN e.pressed ELSE DownAt(set, t, Len(t), u)
      BY <2>3, AppendDown
    <3>2. Changes(set, t, u) /\ (e.code = u /\ ~e.pressed => DownAt(set, t, Len(t), u)) => Changes(set, Append(t, e), u)
      BY <2>3, AppendChanges
    <3>3. u # c
      BY <2>4, <2>7
    <3> QED
      BY <2>4, <2>5, <2>8, <3>1, <3>2, <3>3
  <2> QED
    BY <2>2, <2>4, <2>5, <2>6, <2>7
<1> QED
  BY <1>1, <1>2

\* A pop: nothing changes for who hears the event, and a release finds the code
\* down (ch374_kbd_pop).
LEMMA RingPop ==
  ASSUME NEW X, NEW q \in Seq(X), q # <<>>, NEW set, NEW u
  PROVE  /\ DownAt(Heard(set, Head(q)), Tail(q), Len(Tail(q)), u) <=> DownAt(set, q, Len(q), u)
         /\ Changes(set, q, u) => Changes(Heard(set, Head(q)), Tail(q), u)
         /\ Changes(set, q, u) /\ Head(q).code = u /\ ~Head(q).pressed => u \in set
<1>1. Len(q) \in Nat \ {0} /\ Len(Tail(q)) = Len(q) - 1 /\ Head(q) = q[1]
  OBVIOUS
<1>2. \A k \in 0 .. Len(q) - 1 : DownAt(Heard(set, Head(q)), Tail(q), k, u) <=> DownAt(set, q, k + 1, u)
  BY TailDown
<1>3. Len(q) - 1 \in 0 .. Len(q) - 1 /\ (Len(q) - 1) + 1 = Len(q)
  BY <1>1
<1>4. Changes(set, q, u) => Changes(Heard(set, Head(q)), Tail(q), u)
  BY <1>2, TailChanges
<1>5. DownAt(set, q, 0, u) <=> u \in set
  BY DEF DownAt
<1>6. Changes(set, q, u) /\ q[1].code = u /\ ~q[1].pressed => u \in set
  <2>1. 1 \in 1 .. Len(q) /\ 1 - 1 = 0
    BY <1>1
  <2> QED
    BY <1>5, <2>1 DEF Changes
<1> QED
  BY <1>1, <1>2, <1>3, <1>4, <1>6

-----------------------------------------------------------------------------
\* The six bytes of a report: no key is in two of them.
KeySlots(keys) ==
  /\ keys \in [1 .. SLOTS -> Keys \cup {0, RollOver}]
  /\ \A i, j \in 1 .. SLOTS : i # j /\ keys[i] = keys[j] => keys[i] \in {0, RollOver}

\* What the assumptions say of the constants.
LEMMA KbdConstants ==
  /\ SLOTS \in Nat \ {0} /\ QUEUE_SIZE \in Nat \ {0, 1} /\ KEY_QUEUE_SIZE \in Nat \ {0, 1}
  /\ 0 \notin AllUsages /\ RollOver \notin Usages
  /\ Modifiers \cap Keys = {} /\ Modifiers \subseteq 224 .. 231 /\ Keys \subseteq Nat
  BY KbdAssumption DEF AllUsages, Usages, RollOver, CH374_USAGE_MODIFIER_BASE

\* The keyboard sends such a report.
LEMMA ReportKeysSlots ==
  ASSUME NEW down, NEW keys \in ReportKeys(down)
  PROVE  KeySlots(keys)
<1>1. CASE Cardinality(down \cap Keys) > SLOTS
  BY <1>1, KbdConstants DEF ReportKeys, KeySlots
<1>2. CASE ~(Cardinality(down \cap Keys) > SLOTS)
  BY <1>2, KbdConstants DEF ReportKeys, KeySlots
<1> QED
  BY <1>1, <1>2

\* What the report before and this one say to be down.
Before == SlotSet(s_prev_keys) \cup s_prev_modifiers
Now(keys, mods) == SlotSet(keys) \cup mods
\* The calls of queue_push that a report can make.
NEvents == 8 + 2 * SLOTS

\* The three loops of process_report.
EventList(E, keys, mods) ==
  /\ \A b \in 0 .. 7 : E[b + 1] = Ev(224 + b \in mods, ModifierCode(mods, b))
  /\ \A j \in 1 .. SLOTS : /\ E[j + 8] = Ev(FALSE, SlotCode(s_prev_keys, keys, j))
                           /\ E[j + 8 + SLOTS] = Ev(TRUE, SlotCode(keys, s_prev_keys, j))

\* The parts of an event.
LEMMA EvBit ==
  ASSUME NEW e, NEW x, NEW mods, NEW c, e = Ev(x \in mods, c)
  PROVE  e.code = c /\ (e.pressed <=> x \in mods) /\ \A C : c \in C => e \in Events(C)
<1>1. e.code = c
  BY DEF Ev
<1>2. e.pressed <=> x \in mods
  BY DEF Ev
<1>3. ASSUME NEW C, c \in C PROVE e \in Events(C)
  BY <1>3 DEF Ev, Events
<1> QED
  BY <1>1, <1>2, <1>3

\* The parts of a release.
LEMMA EvUp ==
  ASSUME NEW e, NEW c, e = Ev(FALSE, c)
  PROVE  e.code = c /\ ~e.pressed /\ \A C : c \in C => e \in Events(C)
  BY DEF Ev, Events

\* The parts of a press.
LEMMA EvDown ==
  ASSUME NEW e, NEW c, e = Ev(TRUE, c)
  PROVE  e.code = c /\ e.pressed /\ \A C : c \in C => e \in Events(C)
  BY DEF Ev, Events

\* An event of a report is of a bit, of a slot let go or of a slot pressed.
LEMMA EventKinds ==
  ASSUME NEW keys, NEW mods
  PROVE  /\ EventList(ReportEvents(keys, mods), keys, mods)
         /\ \A i \in 1 .. NEvents :
              \/ \E b \in 0 .. 7 : i = b + 1
              \/ \E j \in 1 .. SLOTS : i = j + 8
              \/ \E j \in 1 .. SLOTS : i = j + 8 + SLOTS
<1> USE KbdConstants
<1> DEFINE E == ReportEvents(keys, mods)
<1>1. ASSUME NEW b \in 0 .. 7 PROVE E[b + 1] = Ev(224 + b \in mods, ModifierCode(mods, b))
  <2>1. b + 1 \in 1 .. 8 + 2 * SLOTS /\ b + 1 <= 8 /\ (b + 1) - 1 = b
    OBVIOUS
  <2> QED
    BY <2>1 DEF ReportEvents, CH374_USAGE_MODIFIER_BASE
<1>2. ASSUME NEW i \in 1 .. SLOTS PROVE E[i + 8] = Ev(FALSE, SlotCode(s_prev_keys, keys, i))
  <2>1. i + 8 \in 1 .. 8 + 2 * SLOTS /\ ~(i + 8 <= 8) /\ i + 8 <= 8 + SLOTS /\ (i + 8) - 8 = i
    OBVIOUS
  <2> QED
    BY <2>1 DEF ReportEvents
<1>3. ASSUME NEW i \in 1 .. SLOTS PROVE E[i + 8 + SLOTS] = Ev(TRUE, SlotCode(keys, s_prev_keys, i))
  <2>1. i + 8 + SLOTS \in 1 .. 8 + 2 * SLOTS /\ ~(i + 8 + SLOTS <= 8) /\ ~(i + 8 + SLOTS <= 8 + SLOTS)
        /\ (i + 8 + SLOTS) - 8 - SLOTS = i
    OBVIOUS
  <2> QED
    BY <2>1 DEF ReportEvents
<1>4. ASSUME NEW i \in 1 .. NEvents
      PROVE \/ \E b \in 0 .. 7 : i = b + 1
            \/ \E j \in 1 .. SLOTS : i = j + 8
            \/ \E j \in 1 .. SLOTS : i = j + 8 + SLOTS
  <2>1. CASE i <= 8
    <3>1. i - 1 \in 0 .. 7 /\ i = (i - 1) + 1
      BY <2>1 DEF NEvents
    <3> QED
      BY <3>1
  <2>2. CASE i > 8 /\ i <= 8 + SLOTS
    <3>1. i - 8 \in 1 .. SLOTS /\ i = (i - 8) + 8
      BY <2>2 DEF NEvents
    <3> QED
      BY <3>1
  <2>3. CASE i > 8 + SLOTS
    <3>1. i - 8 - SLOTS \in 1 .. SLOTS /\ i = (i - 8 - SLOTS) + 8 + SLOTS
      BY <2>3 DEF NEvents
    <3> QED
      BY <3>1
  <2> QED
    BY <2>1, <2>2, <2>3 DEF NEvents
<1> QED
  BY <1>1, <1>2, <1>3, <1>4 DEF EventList

\* A bit has an event when it differs from the last report.
LEMMA CodeOfBit ==
  ASSUME NEW mods, mods \subseteq Modifiers, s_prev_modifiers \subseteq Modifiers, NEW b \in 0 .. 7
  PROVE  /\ ModifierCode(mods, b) \in Modifiers \cup {0}
         /\ ModifierCode(mods, b) # 0 =>
              ModifierCode(mods, b) = 224 + b /\ (224 + b \in mods <=> 224 + b \notin s_prev_modifiers)
         /\ ModifierCode(mods, b) = 0 => (224 + b \in mods <=> 224 + b \in s_prev_modifiers)
<1>1. 224 + b # 0
  OBVIOUS
<1> QED
  BY <1>1, KbdConstants DEF ModifierCode, CH374_USAGE_MODIFIER_BASE

\* A slot has an event when the other report lacks its key.
LEMMA CodeOfSlot ==
  ASSUME NEW keys, NEW others, KeySlots(keys), NEW i \in 1 .. SLOTS
  PROVE  /\ SlotCode(keys, others, i) \in Keys \cup {0, RollOver}
         /\ SlotCode(keys, others, i) # 0 =>
              /\ SlotCode(keys, others, i) = keys[i]
              /\ keys[i] \in SlotSet(keys) /\ keys[i] \notin SlotSet(others)
         /\ SlotCode(keys, others, i) = 0 => keys[i] = 0 \/ keys[i] \in SlotSet(others)
  BY DEF SlotCode, KeySlots, SlotSet

\* The code of an event tells where it comes from and what it says.
LEMMA EventOf ==
  ASSUME NEW keys, NEW mods, KeySlots(keys), KeySlots(s_prev_keys),
         mods \subseteq Modifiers, s_prev_modifiers \subseteq Modifiers,
         NEW i \in 1 .. NEvents, NEW e, e = ReportEvents(keys, mods)[i], e.code # 0
  PROVE  \/ /\ e.code \in Modifiers /\ i = e.code - 223
            /\ e.pressed <=> e.code \in mods
            /\ e.code \in mods <=> e.code \notin s_prev_modifiers
         \/ \E j \in 1 .. SLOTS :
              /\ i = j + 8 /\ e.code = s_prev_keys[j] /\ ~e.pressed
              /\ e.code \in SlotSet(s_prev_keys) /\ e.code \notin SlotSet(keys)
         \/ \E j \in 1 .. SLOTS :
              /\ i = j + 8 + SLOTS /\ e.code = keys[j] /\ e.pressed
              /\ e.code \in SlotSet(keys) /\ e.code \notin SlotSet(s_prev_keys)
<1> DEFINE E == ReportEvents(keys, mods)
<1>0. /\ EventList(E, keys, mods)
      /\ \/ \E b \in 0 .. 7 : i = b + 1
         \/ \E j \in 1 .. SLOTS : i = j + 8
         \/ \E j \in 1 .. SLOTS : i = j + 8 + SLOTS
  BY EventKinds
<1> HIDE DEF E
<1>1. ASSUME NEW b \in 0 .. 7, i = b + 1
      PROVE  /\ e.code \in Modifiers /\ i = e.code - 223
             /\ e.pressed <=> e.code \in mods
             /\ e.code \in mods <=> e.code \notin s_prev_modifiers
  <2>1. e = Ev(224 + b \in mods, ModifierCode(mods, b))
    BY <1>0, <1>1 DEF E, EventList
  <2>2. (e.pressed <=> 224 + b \in mods) /\ e.code = ModifierCode(mods, b)
    BY <2>1, EvBit
  <2>3. ModifierCode(mods, b) \in Modifiers /\ ModifierCode(mods, b) = 224 + b /\ (224 + b \in mods <=> 224 + b \notin s_prev_modifiers)
    BY <2>2, CodeOfBit
  <2> QED
    BY <1>1, <2>2, <2>3
<1>2. ASSUME NEW j \in 1 .. SLOTS, i = j + 8
      PROVE  /\ e.code = s_prev_keys[j] /\ ~e.pressed
             /\ e.code \in SlotSet(s_prev_keys) /\ e.code \notin SlotSet(keys)
  <2>1. e = Ev(FALSE, SlotCode(s_prev_keys, keys, j))
    BY <1>0, <1>2 DEF E, EventList
  <2>2. ~e.pressed /\ e.code = SlotCode(s_prev_keys, keys, j)
    BY <2>1 DEF Ev
  <2> QED
    BY <2>2, CodeOfSlot
<1>3. ASSUME NEW j \in 1 .. SLOTS, i = j + 8 + SLOTS
      PROVE  /\ e.code = keys[j] /\ e.pressed
             /\ e.code \in SlotSet(keys) /\ e.code \notin SlotSet(s_prev_keys)
  <2>1. e = Ev(TRUE, SlotCode(keys, s_prev_keys, j))
    BY <1>0, <1>3 DEF E, EventList
  <2>2. e.pressed /\ e.code = SlotCode(keys, s_prev_keys, j)
    BY <2>1 DEF Ev
  <2> QED
    BY <2>2, CodeOfSlot
<1> QED
  BY <1>0, <1>1, <1>2, <1>3

\* No modifier is in a slot.
LEMMA SlotSetType ==
  ASSUME NEW keys, KeySlots(keys)
  PROVE  SlotSet(keys) \subseteq Keys \cup {RollOver}
  BY DEF KeySlots, SlotSet

\* An event says what is down now, which was not so before.
LEMMA EventSays ==
  ASSUME NEW keys, NEW mods, KeySlots(keys), KeySlots(s_prev_keys),
         mods \subseteq Modifiers, s_prev_modifiers \subseteq Modifiers,
         NEW i \in 1 .. NEvents, NEW e, e = ReportEvents(keys, mods)[i], e.code # 0
  PROVE  /\ e.code \in AllUsages
         /\ e.pressed <=> e.code \in Now(keys, mods)
         /\ e.code \in Now(keys, mods) <=> e.code \notin Before
<1>1. /\ SlotSet(keys) \subseteq Keys \cup {RollOver}
      /\ SlotSet(s_prev_keys) \subseteq Keys \cup {RollOver}
  BY SlotSetType
<1>2. \A u \in Modifiers : u \notin Keys \cup {RollOver}
  BY KbdConstants DEF Usages
<1> QED
  BY <1>1, <1>2, EventOf DEF AllUsages, Usages, Now, Before

\* No usage has two events in a report, so none is counted twice.
LEMMA EventOnce ==
  ASSUME NEW keys, NEW mods, KeySlots(keys), KeySlots(s_prev_keys),
         mods \subseteq Modifiers, s_prev_modifiers \subseteq Modifiers,
         NEW i \in 1 .. NEvents, NEW j \in 1 .. NEvents, NEW u \in Usages,
         ReportEvents(keys, mods)[i].code = u, ReportEvents(keys, mods)[j].code = u
  PROVE  i = j
<1> DEFINE Bit(k) == u \in Modifiers /\ k = u - 223
           Up(k) == \E x \in 1 .. SLOTS : k = x + 8 /\ u = s_prev_keys[x] /\ u \in SlotSet(s_prev_keys) /\ u \notin SlotSet(keys)
           Down(k) == \E x \in 1 .. SLOTS : k = x + 8 + SLOTS /\ u = keys[x] /\ u \in SlotSet(keys) /\ u \notin SlotSet(s_prev_keys)
<1>0. u # 0 /\ u # RollOver
  BY KbdConstants DEF AllUsages
<1>1. Bit(i) \/ Up(i) \/ Down(i)
  BY <1>0, EventOf
<1>2. Bit(j) \/ Up(j) \/ Down(j)
  BY <1>0, EventOf
<1>3. /\ SlotSet(keys) \subseteq Keys \cup {RollOver}
      /\ SlotSet(s_prev_keys) \subseteq Keys \cup {RollOver}
  BY SlotSetType
<1>4. Up(i) /\ Up(j) => i = j
  BY <1>0 DEF KeySlots
<1>5. Down(i) /\ Down(j) => i = j
  BY <1>0 DEF KeySlots
<1>6. Bit(i) => ~Up(j) /\ ~Down(j)
  BY <1>3, KbdConstants, <1>0
<1>7. Bit(j) => ~Up(i) /\ ~Down(i)
  BY <1>3, KbdConstants, <1>0
<1> QED
  BY <1>1, <1>2, <1>4, <1>5, <1>6, <1>7

\* A usage without an event is as it was.
LEMMA NoEvent ==
  ASSUME NEW keys, NEW mods, KeySlots(keys), KeySlots(s_prev_keys),
         mods \subseteq Modifiers, s_prev_modifiers \subseteq Modifiers,
         NEW u \in AllUsages, \A i \in 1 .. NEvents : ReportEvents(keys, mods)[i].code # u
  PROVE  u \in Now(keys, mods) <=> u \in Before
<1> DEFINE E == ReportEvents(keys, mods)
<1>0. EventList(E, keys, mods)
  BY EventKinds
<1>1. \A i \in 1 .. NEvents : E[i].code # u
  OBVIOUS
<1>2. u # 0
  BY KbdConstants
<1> HIDE DEF E
<1>3. CASE u \in Modifiers
  <2>1. u - 224 \in 0 .. 7 /\ 224 + (u - 224) = u /\ (u - 224) + 1 \in 1 .. NEvents
    BY <1>3, KbdConstants DEF NEvents
  <2>2. ModifierCode(mods, u - 224) # u
    <3>1. E[(u - 224) + 1] = Ev(224 + (u - 224) \in mods, ModifierCode(mods, u - 224))
      BY <1>0, <2>1 DEF EventList
    <3> QED
      BY <1>1, <2>1, <3>1, EvBit
  <2>3. u \in mods <=> u \in s_prev_modifiers
    BY <2>1, <2>2, CodeOfBit
  <2>4. u \notin SlotSet(keys) /\ u \notin SlotSet(s_prev_keys)
    BY <1>3, SlotSetType, KbdConstants DEF Usages
  <2> QED
    BY <2>3, <2>4 DEF Now, Before
<1>4. CASE u \notin Modifiers
  <2>1. ASSUME NEW j \in 1 .. SLOTS PROVE s_prev_keys[j] = u => u \in SlotSet(keys)
    <3>1. j + 8 \in 1 .. NEvents
      BY KbdConstants DEF NEvents
    <3>3. E[j + 8] = Ev(FALSE, SlotCode(s_prev_keys, keys, j))
      BY <1>0 DEF EventList
    <3>2. SlotCode(s_prev_keys, keys, j) # u
      BY <1>1, <3>1, <3>3, EvUp
    <3> QED
      BY <1>2, <3>2 DEF SlotCode
  <2>2. ASSUME NEW j \in 1 .. SLOTS PROVE keys[j] = u => u \in SlotSet(s_prev_keys)
    <3>1. j + 8 + SLOTS \in 1 .. NEvents
      BY KbdConstants DEF NEvents
    <3>3. E[j + 8 + SLOTS] = Ev(TRUE, SlotCode(keys, s_prev_keys, j))
      BY <1>0 DEF EventList
    <3>2. SlotCode(keys, s_prev_keys, j) # u
      BY <1>1, <3>1, <3>3, EvDown
    <3> QED
      BY <1>2, <3>2 DEF SlotCode
  <2>3. u \in SlotSet(keys) <=> u \in SlotSet(s_prev_keys)
    BY <2>1, <2>2 DEF SlotSet
  <2> QED
    BY <1>4, <2>3 DEF Now, Before
<1> QED
  BY <1>3, <1>4

\* An event of a report is an event.
LEMMA EventType ==
  ASSUME NEW keys, NEW mods, NEW i \in 1 .. NEvents, NEW C, NEW e, e = ReportEvents(keys, mods)[i], e.code \in C
  PROVE  e \in Events(C)
<1> DEFINE E == ReportEvents(keys, mods)
<1>0. /\ EventList(E, keys, mods)
      /\ \/ \E b \in 0 .. 7 : i = b + 1
         \/ \E j \in 1 .. SLOTS : i = j + 8
         \/ \E j \in 1 .. SLOTS : i = j + 8 + SLOTS
  BY EventKinds
<1>4. e = E[i]
  OBVIOUS
<1> HIDE DEF E
<1>1. ASSUME NEW b \in 0 .. 7, i = b + 1 PROVE e \in Events(C)
  <2>1. e = Ev(224 + b \in mods, ModifierCode(mods, b))
    BY <1>0, <1>1, <1>4 DEF EventList
  <2> QED
    BY <2>1, EvBit
<1>2. ASSUME NEW j \in 1 .. SLOTS, i = j + 8 PROVE e \in Events(C)
  <2>1. e = Ev(FALSE, SlotCode(s_prev_keys, keys, j))
    BY <1>0, <1>2, <1>4 DEF EventList
  <2> QED
    BY <2>1, EvUp
<1>3. ASSUME NEW j \in 1 .. SLOTS, i = j + 8 + SLOTS PROVE e \in Events(C)
  <2>1. e = Ev(TRUE, SlotCode(keys, s_prev_keys, j))
    BY <1>0, <1>3, <1>4 DEF EventList
  <2> QED
    BY <2>1, EvDown
<1> QED
  BY <1>0, <1>1, <1>2, <1>3

-----------------------------------------------------------------------------
(* Induction, with a set for the predicate: that a set of naturals has a   *)
(* least element is a theorem about sets, and can be used.                 *)

\* A set of naturals that is not empty has a least element.
LEMMA NatSetMin ==
  ASSUME NEW T, T \subseteq Nat, T # {}
  PROVE  \E x \in T : \A y \in T : x <= y
<1>1. PICK x \in T : \A y \in T : ~ (<<y, x>> \in OpToRel(<, Nat))
  BY NatLessThanWellFounded, WFMin
<1>2. \A y \in T : ~(y < x)
  BY <1>1 DEF OpToRel
<1>3. x \in Nat /\ \A y \in T : y \in Nat
  BY <1>1
<1>4. \A y \in T : x <= y
  BY <1>2, <1>3
<1> QED
  BY <1>1, <1>4

\* Induction up to a bound, with a set for the predicate.
LEMMA UpToInduction ==
  ASSUME NEW n \in Nat, NEW T, 0 \in T, \A i \in 1 .. n : i - 1 \in T => i \in T
  PROVE  \A i \in 0 .. n : i \in T
<1> DEFINE C == {i \in 0 .. n : i \notin T}
<1> SUFFICES ASSUME C # {} PROVE FALSE
  OBVIOUS
<1>0. C \subseteq Nat
  OBVIOUS
<1>1. PICK x \in C : \A y \in C : x <= y
  <2> HIDE DEF C
  <2> QED
    BY <1>0, NatSetMin
<1>2. x \in 1 .. n /\ x - 1 \in 0 .. n /\ ~(x <= x - 1)
  BY <1>1
<1>3. x - 1 \in T
  BY <1>1, <1>2
<1> QED
  BY <1>1, <1>2, <1>3

\* The ring before the report.
Unpushed == [q |-> s_queue, out |-> lost]
\* The equation of Pushed for the first k events.
IsPushed(g, evs, k) == g = [i \in 0 .. k |-> IF i = 0 THEN Unpushed ELSE queue_push(g[i - 1], evs[i])]

\* The recursive function of Pushed exists, so it satisfies its equation.
LEMMA PushedIs ==
  ASSUME NEW evs
  PROVE  IsPushed(Pushed(evs), evs, NEvents)
<1>0. NEvents \in Nat
  BY KbdConstants DEF NEvents
<1> DEFINE T == {k \in 0 .. NEvents : \E g : IsPushed(g, evs, k)}
<1>1. 0 \in T
  <2> DEFINE g == [i \in 0 .. 0 |-> Unpushed]
  <2>1. IsPushed(g, evs, 0)
    BY DEF IsPushed
  <2> QED
    BY <1>0, <2>1
<1>2. ASSUME NEW k \in 1 .. NEvents, k - 1 \in T PROVE k \in T
  <2>1. PICK g : IsPushed(g, evs, k - 1)
    BY <1>2
  <2> DEFINE h == [i \in 0 .. k |-> IF i <= k - 1 THEN g[i] ELSE queue_push(g[k - 1], evs[k])]
  <2>2. ASSUME NEW i \in 0 .. k
        PROVE  h[i] = IF i = 0 THEN Unpushed ELSE queue_push(h[i - 1], evs[i])
    <3>1. CASE i = 0
      BY <1>0, <2>1, <3>1 DEF IsPushed
    <3>2. CASE i # 0 /\ i <= k - 1
      <4>1. i \in 0 .. k - 1 /\ i - 1 \in 0 .. k /\ i - 1 <= k - 1
        BY <1>0, <3>2
      <4>2. h[i] = g[i] /\ h[i - 1] = g[i - 1]
        BY <4>1, <3>2
      <4>3. g[i] = queue_push(g[i - 1], evs[i])
        BY <2>1, <4>1, <3>2 DEF IsPushed
      <4> QED
        BY <4>2, <4>3, <3>2
    <3>3. CASE i = k
      <4>1. h[i] = queue_push(g[k - 1], evs[k]) /\ h[i - 1] = g[k - 1] /\ i # 0
        BY <1>0, <3>3
      <4> QED
        BY <4>1, <3>3
    <3> QED
      BY <1>0, <3>1, <3>2, <3>3
  <2>3. h = [i \in 0 .. k |-> h[i]]
    OBVIOUS
  <2> HIDE DEF h
  <2>4. IsPushed(h, evs, k)
    BY <2>2, <2>3 DEF IsPushed
  <2> QED
    BY <1>0, <2>4
<1>3. \A k \in 0 .. NEvents : k \in T
  <2> HIDE DEF T
  <2> QED
    BY <1>0, <1>1, <1>2, UpToInduction
<1>4. \E g : g = [i \in 0 .. 8 + 2 * SLOTS |-> IF i = 0 THEN [q |-> s_queue, out |-> lost] ELSE queue_push(g[i - 1], evs[i])]
  BY <1>0, <1>3 DEF IsPushed, Unpushed, NEvents
<1> QED
  BY <1>4 DEF Pushed, IsPushed, Unpushed, NEvents

\* The ring before the first event, and after each.
LEMMA PushedStep ==
  ASSUME NEW evs, NEW P, P = Pushed(evs)
  PROVE  P[0] = Unpushed /\ \A i \in 1 .. NEvents : P[i] = queue_push(P[i - 1], evs[i])
<1>0. NEvents \in Nat
  BY KbdConstants DEF NEvents
<1>1. P = [i \in 0 .. NEvents |-> IF i = 0 THEN Unpushed ELSE queue_push(P[i - 1], evs[i])]
  BY PushedIs DEF IsPushed
<1>2. P[0] = Unpushed
  BY <1>0, <1>1
<1>3. ASSUME NEW i \in 1 .. NEvents PROVE P[i] = queue_push(P[i - 1], evs[i])
  <2>1. i \in 0 .. NEvents /\ i # 0
    BY <1>0
  <2> QED
    BY <1>1, <2>1
<1> QED
  BY <1>2, <1>3

-----------------------------------------------------------------------------
\* What u is after the first i events of E.
After(E, i, now, before, u) == IF \E j \in 1 .. i : E[j].code = u THEN u \in now ELSE u \in before

\* The ring after the first i of them.
RingOK(r, E, i, now, before) ==
  /\ r = [q |-> r.q, out |-> r.out]
  /\ r.q \in Seq(Events(AllUsages)) /\ Len(r.q) <= QUEUE_SIZE - 1
  /\ lost \subseteq r.out
  /\ \A u \in AllUsages \ r.out : DownAt(seen, r.q, Len(r.q), u) <=> After(E, i, now, before, u) \/ u \in forgot
  /\ \A u \in Usages \ r.out : Changes(seen, r.q, u)

\* One call of queue_push in process_report.
LEMMA PushOne ==
  ASSUME NEW keys, NEW mods, KeySlots(keys), KeySlots(s_prev_keys),
         mods \subseteq Modifiers, s_prev_modifiers \subseteq Modifiers,
         NEW E, E = ReportEvents(keys, mods), NEW i \in 1 .. NEvents,
         NEW now, now = Now(keys, mods), NEW before, before = Before, forgot \cap before = {},
         NEW r, RingOK(r, E, i - 1, now, before), NEW r2, r2 = queue_push(r, E[i])
  PROVE  RingOK(r2, E, i, now, before)
<1> DEFINE e == E[i]
<1>0. e = ReportEvents(keys, mods)[i] /\ r2 = queue_push(r, e) /\ NEvents \in Nat
  BY KbdConstants DEF NEvents
<1>a. \A u \in Usages : \A j \in 1 .. NEvents : E[j].code = u /\ E[i].code = u => j = i
  BY EventOnce
<1>b. \A j \in 1 .. i : j = i \/ j \in 1 .. i - 1
  BY <1>0
<1>c. i \in 1 .. i /\ \A j \in 1 .. i - 1 : j \in 1 .. i /\ j # i /\ j \in 1 .. NEvents
  BY <1>0
<1>1. CASE e.code = 0
  <2>1. r2 = r
    BY <1>0, <1>1 DEF queue_push
  <2>2. \A u \in AllUsages : e.code # u
    BY <1>1, KbdConstants
  <2>3. \A u \in AllUsages : After(E, i, now, before, u) <=> After(E, i - 1, now, before, u)
    BY <1>b, <1>c, <2>2 DEF After
  <2> QED
    BY <2>1, <2>3 DEF RingOK
<1>2. CASE e.code # 0
  <2>1. /\ e.code \in AllUsages
        /\ e.pressed <=> e.code \in now
        /\ e.code \in now <=> e.code \notin before
    BY <1>0, <1>2, EventSays
  <2>2. e \in Events(AllUsages)
    BY <1>0, <2>1, EventType
  <2>3. r2 = ring_push(r, e, QUEUE_SIZE)
    BY <1>0, <1>2 DEF queue_push
  <2> HIDE DEF e
  <2>4. /\ r2.q \in Seq(Events(AllUsages)) /\ Len(r2.q) <= QUEUE_SIZE - 1 /\ r.out \subseteq r2.out
        /\ r2 = [q |-> r2.q, out |-> r2.out]
        /\ \A set, u : u \notin r2.out =>
              /\ DownAt(set, r2.q, Len(r2.q), u)
                   <=> IF e.code = u THEN e.pressed ELSE DownAt(set, r.q, Len(r.q), u)
              /\ Changes(set, r.q, u) /\ (e.code = u /\ ~e.pressed => DownAt(set, r.q, Len(r.q), u))
                   => Changes(set, r2.q, u)
    BY <2>2, <2>3, KbdConstants, RingPush DEF RingOK
  <2>5. ASSUME NEW u \in AllUsages, u \notin r2.out
        PROVE  DownAt(seen, r2.q, Len(r2.q), u) <=> After(E, i, now, before, u) \/ u \in forgot
    <3>1. DownAt(seen, r.q, Len(r.q), u) <=> After(E, i - 1, now, before, u) \/ u \in forgot
      BY <2>4, <2>5 DEF RingOK
    <3>2. DownAt(seen, r2.q, Len(r2.q), u) <=> IF e.code = u THEN e.pressed ELSE DownAt(seen, r.q, Len(r.q), u)
      BY <2>4, <2>5
    <3>3. CASE e.code = u
      <4>1. After(E, i, now, before, u) <=> u \in now
        BY <1>c, <3>3 DEF After, e
      <4>2. u \in forgot => u \in now
        BY <2>1, <3>3
      <4> QED
        BY <2>1, <3>2, <3>3, <4>1, <4>2
    <3>4. CASE e.code # u
      <4>1. After(E, i, now, before, u) <=> After(E, i - 1, now, before, u)
        BY <1>b, <1>c, <3>4 DEF After, e
      <4> QED
        BY <3>1, <3>2, <3>4, <4>1
    <3> QED
      BY <3>3, <3>4
  <2>6. ASSUME NEW u \in Usages, u \notin r2.out PROVE Changes(seen, r2.q, u)
    <3>1. Changes(seen, r.q, u) /\ u \in AllUsages
      BY <2>4, <2>6 DEF RingOK, AllUsages
    <3>2. DownAt(seen, r.q, Len(r.q), u) <=> After(E, i - 1, now, before, u) \/ u \in forgot
      BY <2>4, <2>6, <3>1 DEF RingOK
    <3>3. e.code = u /\ ~e.pressed => DownAt(seen, r.q, Len(r.q), u)
      <4> SUFFICES ASSUME e.code = u, ~e.pressed PROVE DownAt(seen, r.q, Len(r.q), u)
        OBVIOUS
      <4>1. \A j \in 1 .. i - 1 : E[j].code # u
        BY <1>a, <1>c DEF e
      <4>2. After(E, i - 1, now, before, u) <=> u \in before
        BY <4>1 DEF After
      <4> QED
        BY <2>1, <3>2, <4>2
    <3> QED
      BY <2>4, <2>6, <3>1, <3>3
  <2>7. lost \subseteq r2.out
    BY <2>4 DEF RingOK
  <2> QED
    BY <2>4, <2>5, <2>6, <2>7 DEF RingOK
<1> QED
  BY <1>1, <1>2

\* What the driver and its readers have.
QueueInv ==
  /\ KeySlots(s_prev_keys) /\ s_prev_modifiers \subseteq Modifiers
  /\ s_queue \in Seq(Events(AllUsages)) /\ Len(s_queue) <= QUEUE_SIZE - 1
  /\ EventsAreState
  /\ forgot \cap Before = {} /\ forgot \cap Modifiers = {}
  /\ \A u \in Usages \ lost : Changes(seen, s_queue, u)

\* A report leaves the queue in step with the keys, whatever falls out of it.
LEMMA ReportKeeps ==
  ASSUME QueueInv, NEW keys, KeySlots(keys), NEW mods, mods \subseteq Modifiers,
         process_report(keys, mods), seen' = seen
  PROVE  QueueInv' /\ lost \subseteq lost'
<1> DEFINE E == ReportEvents(keys, mods)
           P == Pushed(E)
           now == Now(keys, mods)
           before == Before
           T == {i \in 0 .. NEvents : RingOK(P[i], E, i, now, before)}
<1>b. forgot \cap before = {}
  BY DEF QueueInv
<1>0. NEvents \in Nat
  BY KbdConstants DEF NEvents
<1>1. P[0] = Unpushed /\ \A i \in 1 .. NEvents : P[i] = queue_push(P[i - 1], E[i])
  BY PushedStep
<1>2. 0 \in T
  <2>1. \A u \in AllUsages : After(E, 0, now, before, u) <=> u \in before
    BY DEF After
  <2>2. Unpushed.q = s_queue /\ Unpushed.out = lost
    BY DEF Unpushed
  <2>3. Unpushed = [q |-> Unpushed.q, out |-> Unpushed.out]
    BY DEF Unpushed
  <2>4. \A u \in AllUsages \ lost : DownAt(seen, s_queue, Len(s_queue), u) <=> u \in before \/ u \in forgot
    BY DEF QueueInv, EventsAreState, Before, AllUsages
  <2>5. RingOK(Unpushed, E, 0, now, before)
    <3> HIDE DEF E, now, before
    <3> QED
      BY <2>1, <2>2, <2>3, <2>4 DEF RingOK, QueueInv
  <2> QED
    BY <1>0, <1>1, <2>5
<1>3. ASSUME NEW i \in 1 .. NEvents, i - 1 \in T PROVE i \in T
  <2>1. RingOK(P[i - 1], E, i - 1, now, before) /\ P[i] = queue_push(P[i - 1], E[i])
    BY <1>1, <1>3
  <2>2. KeySlots(s_prev_keys) /\ s_prev_modifiers \subseteq Modifiers
    BY DEF QueueInv
  <2>3. RingOK(P[i], E, i, now, before)
    BY <1>b, <2>1, <2>2, PushOne
  <2> QED
    BY <1>0, <2>3
<1>4. NEvents \in T
  <2> HIDE DEF T
  <2>1. \A i \in 0 .. NEvents : i \in T
    BY <1>0, <1>2, <1>3, UpToInduction
  <2> QED
    BY <1>0, <2>1
<1>5. RingOK(P[NEvents], E, NEvents, now, before)
  BY <1>4
<1>6. s_queue' = P[NEvents].q /\ lost' = P[NEvents].out /\ s_prev_keys' = keys /\ s_prev_modifiers' = mods
      /\ forgot' = forgot \ SlotSet(keys)
  BY DEF process_report, NEvents
<1>7. ASSUME NEW u \in AllUsages PROVE After(E, NEvents, now, before, u) <=> u \in now
  <2>1. KeySlots(s_prev_keys) /\ s_prev_modifiers \subseteq Modifiers
    BY DEF QueueInv
  <2>2. (\A i \in 1 .. NEvents : E[i].code # u) => (u \in now <=> u \in before)
    BY <2>1, NoEvent
  <2> QED
    BY <2>2 DEF After
<1>8. now = SlotSet(s_prev_keys') \cup s_prev_modifiers' /\ now \cup forgot = now \cup forgot'
  BY <1>6 DEF Now
<1>c. (forgot \cap Before = {})'
  <2>1. SlotSet(s_prev_keys)' = SlotSet(keys) /\ forgot \cap Modifiers = {}
    BY <1>6 DEF SlotSet, QueueInv
  <2> QED
    BY <1>6, <2>1 DEF Before
<1> HIDE DEF E, P, now, before, T
<1>9. EventsAreState'
  <2>1. \A u \in AllUsages \ lost' : DownAt(seen', s_queue', Len(s_queue'), u) <=> u \in now \/ u \in forgot
    BY <1>5, <1>6, <1>7 DEF RingOK
  <2>2. SlotSet(s_prev_keys)' = SlotSet(s_prev_keys')
    BY DEF SlotSet
  <2> QED
    BY <1>8, <2>1, <2>2 DEF EventsAreState, AllUsages
<1>10. \A u \in Usages \ lost' : Changes(seen', s_queue', u)
  BY <1>5, <1>6 DEF RingOK
<1>11. KeySlots(s_prev_keys') /\ s_prev_modifiers' \subseteq Modifiers
  BY <1>6
<1> QED
  <2>1. forgot' \cap Modifiers = {}
    BY <1>6 DEF QueueInv
  <2> QED
    BY <1>5, <1>6, <1>9, <1>10, <1>11, <1>c, <2>1 DEF RingOK, QueueInv

\* So does a reader that pops.
LEMMA PopKeeps ==
  ASSUME QueueInv, s_queue # <<>>, seen' = Heard(seen, Head(s_queue)), s_queue' = Tail(s_queue),
         UNCHANGED <<s_prev_keys, s_prev_modifiers, lost, forgot>>
  PROVE  QueueInv'
<1>1. s_queue' \in Seq(Events(AllUsages)) /\ Len(s_queue') <= QUEUE_SIZE - 1
  BY KbdConstants DEF QueueInv
<1>2. \A u : DownAt(seen', s_queue', Len(s_queue'), u) <=> DownAt(seen, s_queue, Len(s_queue), u)
  BY RingPop DEF QueueInv
<1>3. \A u \in Usages \ lost : Changes(seen', s_queue', u)
  BY RingPop DEF QueueInv
<1>4. EventsAreState'
  BY <1>2 DEF QueueInv, EventsAreState, SlotSet
<1> QED
  BY <1>1, <1>3, <1>4 DEF QueueInv, Before, SlotSet

-----------------------------------------------------------------------------
(* The doom client.                                                        *)

\* The doom keys of the usages that are excused.
LostKeys == {DoomKey(u) : u \in lost}
\* The usages of a doom key that are down by the events popped.
Held(d) == {u \in seen : DoomKey(u) = d}

\* The doom client by its types.
DoomTypes ==
  /\ seen \subseteq AllUsages
  /\ s_refcount \in [DoomKeys -> 0 .. 255]
  /\ doom_queue \in Seq(Events(DoomKeys)) /\ Len(doom_queue) <= KEY_QUEUE_SIZE - 1

\* A count of d, which has n usages down: more than n if it hangs.
Counted(k, n, d, hung) == IF d \in hung THEN k > n ELSE k = n

\* s_refcount is the number of usages of the key that are down.
CountInv == client = "doom" =>
  \A d \in DoomKeys \ LostKeys : Counted(s_refcount[d], Cardinality(Held(d)), d, stuck)

\* The game will have the key down when it has popped all, exactly while its
\* count is not 0.
GameInv == client = "doom" =>
  \A d \in DoomKeys \ (LostKeys \cup doom_lost) :
    DownAt(game, doom_queue, Len(doom_queue), d) <=> s_refcount[d] > 0

\* The inductive invariant.
KbdInv == QueueInv /\ DoomTypes /\ CountInv /\ GameInv

\* A doom key has few usages.
LEMMA UsagesOf ==
  ASSUME NEW d \in DoomKeys, NEW S, S \subseteq {u \in Usages : DoomKey(u) = d}
  PROVE  IsFiniteSet(S) /\ Cardinality(S) \in 0 .. 254
<1> DEFINE A == {u \in Usages : DoomKey(u) = d}
<1>1. IsFiniteSet(224 .. 231)
  <2> DEFINE a == 224
             b == 231
  <2>1. a \in Int /\ b \in Int
    OBVIOUS
  <2> HIDE DEF a, b
  <2>2. IsFiniteSet(a .. b)
    BY <2>1, FS_Interval
  <2> QED
    BY <2>2 DEF a, b
<1>2. IsFiniteSet(Modifiers)
  BY <1>1, FS_Subset, KbdConstants
<1>3. IsFiniteSet(Usages)
  BY <1>2, FS_Union, KbdAssumption DEF Usages
<1>4. A \subseteq Usages
  OBVIOUS
<1>5. PICK v \in Usages : d = DoomKey(v)
  BY DEF DoomKeys
<1>6. Cardinality(A) < 255
  BY <1>5, KbdAssumption
<1> HIDE DEF A
<1>7. IsFiniteSet(A)
  BY <1>3, <1>4, FS_Subset
<1>8. IsFiniteSet(S) /\ Cardinality(S) <= Cardinality(A)
  BY <1>7, FS_Subset DEF A
<1>9. Cardinality(A) \in Nat /\ Cardinality(S) \in Nat
  BY <1>7, <1>8, FS_CardinalityType
<1> QED
  BY <1>6, <1>8, <1>9

\* So its count never stops at 255, and is 0 when none of them is down.
LEMMA HeldOf ==
  ASSUME DoomTypes, NEW d \in DoomKeys
  PROVE  /\ Held(d) \subseteq {u \in Usages : DoomKey(u) = d}
         /\ IsFiniteSet(Held(d)) /\ Cardinality(Held(d)) \in 0 .. 254
         /\ Cardinality(Held(d)) > 0 <=> Held(d) # {}
<1>1. d # 0
  BY DEF DoomKeys
<1>2. Held(d) \subseteq {u \in Usages : DoomKey(u) = d}
  BY <1>1, KbdAssumption DEF DoomTypes, Held, AllUsages
<1>3. IsFiniteSet(Held(d)) /\ Cardinality(Held(d)) \in 0 .. 254
  BY <1>2, UsagesOf
<1>4. Cardinality(Held(d)) = 0 <=> Held(d) = {}
  BY <1>3, FS_EmptySet
<1> QED
  BY <1>2, <1>3, <1>4

\* The event that is popped changes the held usages of its own doom key; a
\* release finds its usage down.
LEMMA HeardKeys ==
  ASSUME QueueInv, DoomTypes, s_queue # <<>>, NEW e, e = Head(s_queue), seen' = Heard(seen, e)
  PROVE  /\ e.code \in AllUsages /\ seen' \subseteq AllUsages
         /\ \A d \in DoomKeys : d # DoomKey(e.code) => Held(d)' = Held(d)
         /\ DoomKey(e.code) # 0 => e.code \in Usages /\ DoomKey(e.code) \in DoomKeys
         /\ DoomKey(e.code) # 0 /\ DoomKey(e.code) \notin LostKeys =>
              /\ ~e.pressed => e.code \in seen
              /\ Held(DoomKey(e.code))' =
                   IF e.pressed THEN Held(DoomKey(e.code)) \cup {e.code} ELSE Held(DoomKey(e.code)) \ {e.code}
<1>1. e \in Events(AllUsages)
  BY DEF QueueInv
<1>2. e.code \in AllUsages
  BY <1>1 DEF Events
<1>3. seen' \subseteq AllUsages
  BY <1>2 DEF Heard, DoomTypes
<1>4. \A d \in DoomKeys : d # DoomKey(e.code) => Held(d)' = Held(d)
  BY DEF Held, Heard
<1>5. DoomKey(e.code) # 0 => e.code \in Usages /\ DoomKey(e.code) \in DoomKeys
  BY <1>2, KbdAssumption DEF AllUsages, DoomKeys
<1>6. ASSUME DoomKey(e.code) # 0, DoomKey(e.code) \notin LostKeys
      PROVE  /\ ~e.pressed => e.code \in seen
             /\ Held(DoomKey(e.code))' =
                  IF e.pressed THEN Held(DoomKey(e.code)) \cup {e.code} ELSE Held(DoomKey(e.code)) \ {e.code}
  <2>1. e.code \in Usages \ lost
    BY <1>5, <1>6 DEF LostKeys
  <2>2. Changes(seen, s_queue, e.code)
    BY <2>1 DEF QueueInv
  <2>3. ~e.pressed => e.code \in seen
    BY <2>2, RingPop DEF QueueInv
  <2>4. Held(DoomKey(e.code))' = {u \in Heard(seen, e) : DoomKey(u) = DoomKey(e.code)}
    BY DEF Held
  <2> QED
    BY <2>3, <2>4 DEF Held, Heard
<1> QED
  BY <1>2, <1>3, <1>4, <1>5, <1>6

\* An event for the game, as it is for a key that never fell out.
LEMMA DoomPush ==
  ASSUME DoomTypes, NEW e \in Events(DoomKeys),
         NEW r, r = ring_push([q |-> doom_queue, out |-> doom_lost], e, KEY_QUEUE_SIZE),
         doom_queue' = r.q, doom_lost' = r.out
  PROVE  /\ doom_queue' \in Seq(Events(DoomKeys)) /\ Len(doom_queue') <= KEY_QUEUE_SIZE - 1
         /\ doom_lost \subseteq doom_lost'
         /\ \A set, d : d \notin doom_lost' =>
              (DownAt(set, doom_queue', Len(doom_queue'), d)
                 <=> IF e.code = d THEN e.pressed ELSE DownAt(set, doom_queue, Len(doom_queue), d))
  BY KbdConstants, RingPush DEF DoomTypes

\* The branches of emit.
LEMMA EmitKinds ==
  ASSUME DoomTypes, NEW p, NEW d, d # 0 => d \in DoomKeys, emit(p, d), client' = client, game' = game
  PROVE  \/ /\ d = 0 \/ (~p /\ s_refcount[d] = 0)
            /\ UNCHANGED <<doom_queue, doom_lost, s_refcount>>
         \/ /\ d # 0 /\ p
            /\ s_refcount[d] = 0 => doom_push(TRUE, d)
            /\ s_refcount[d] # 0 => UNCHANGED <<doom_queue, doom_lost>>
            /\ s_refcount' = [s_refcount EXCEPT ![d] = IF @ = 255 THEN @ ELSE @ + 1]
         \/ /\ d # 0 /\ ~p /\ s_refcount[d] # 0
            /\ s_refcount[d] = 1 => doom_push(FALSE, d)
            /\ s_refcount[d] # 1 => UNCHANGED <<doom_queue, doom_lost>>
            /\ s_refcount' = [s_refcount EXCEPT ![d] = @ - 1]
<1>1. CASE d = 0 \/ (~p /\ s_refcount[d] = 0)
  BY <1>1 DEF emit, NoPush
<1>2. CASE d # 0 /\ p
  BY <1>2 DEF emit, NoPush
<1>3. CASE d # 0 /\ ~p /\ s_refcount[d] # 0
  BY <1>3 DEF emit, NoPush
<1> QED
  BY <1>1, <1>2, <1>3

\* A count of 8 bits that goes up (emit).
More(k, k2) == IF k = 255 THEN k2 = 255 ELSE k2 = k + 1

\* How a count follows the usages: none of a key that is down is 0; a press of
\* a usage that is down; of one that is not; and a release.
LEMMA CountedRules ==
  ASSUME NEW k \in 0 .. 255, NEW n \in 0 .. 254, NEW d, NEW hung, Counted(k, n, d, hung)
  PROVE  /\ n > 0 => k # 0
         /\ \A k2, hung2 : More(k, k2) /\ d \in hung2 => Counted(k2, n, d, hung2)
         /\ \A k2, hung2 : n + 1 \in 0 .. 254 /\ More(k, k2) /\ (d \in hung2 <=> d \in hung) => Counted(k2, n + 1, d, hung2)
         /\ \A hung2 : (d \in hung2 <=> d \in hung) => Counted(k - 1, n - 1, d, hung2)
<1>1. CASE d \in hung
  <2>1. k > n
    BY <1>1 DEF Counted
  <2> QED
    BY <1>1, <2>1 DEF Counted, More
<1>2. CASE d \notin hung
  <2>1. k = n
    BY <1>2 DEF Counted
  <2> QED
    BY <1>2, <2>1 DEF Counted, More
<1> QED
  BY <1>1, <1>2

\* The count after a press of a usage that is down already.
LEMMA CountedAgain ==
  ASSUME NEW k, NEW n, NEW d, NEW hung, NEW k2, NEW hung2,
         k \in 0 .. 255, n \in 0 .. 254, Counted(k, n, d, hung), More(k, k2), d \in hung2
  PROVE  Counted(k2, n, d, hung2)
BY CountedRules

\* The count after a press of a usage that is not down.
LEMMA CountedNew ==
  ASSUME NEW k, NEW n, NEW d, NEW hung, NEW k2, NEW hung2,
         k \in 0 .. 255, n \in 0 .. 254, n + 1 \in 0 .. 254,
         Counted(k, n, d, hung), More(k, k2), d \in hung2 <=> d \in hung
  PROVE  Counted(k2, n + 1, d, hung2)
BY CountedRules

\* What doom has after one round of drain.
LEMMA EmitKeeps ==
  ASSUME KbdInv, s_queue # <<>>, client = "doom", NEW e, e = Head(s_queue), seen' = Heard(seen, e),
         emit(e.pressed, DoomKey(e.code)), client' = client, game' = game, lost' = lost,
         stuck' = stuck \cup (IF e.pressed /\ e.code \in seen THEN {DoomKey(e.code)} ELSE {})
  PROVE  DoomTypes' /\ CountInv' /\ GameInv'
<1> DEFINE d == DoomKey(e.code)
<1> USE DEF KbdInv
<1>1. /\ e.code \in AllUsages /\ seen' \subseteq AllUsages
      /\ \A x \in DoomKeys : x # d => Held(x)' = Held(x)
      /\ d # 0 => e.code \in Usages /\ d \in DoomKeys
      /\ d # 0 /\ d \notin LostKeys =>
           /\ ~e.pressed => e.code \in seen
           /\ Held(d)' = IF e.pressed THEN Held(d) \cup {e.code} ELSE Held(d) \ {e.code}
  BY HeardKeys
<1>2. LostKeys' = LostKeys
  BY DEF LostKeys
<1>3. \A x \in DoomKeys : s_refcount[x] \in 0 .. 255
  BY DEF DoomTypes
<1>4. \/ /\ d = 0 \/ (~e.pressed /\ s_refcount[d] = 0)
         /\ UNCHANGED <<doom_queue, doom_lost, s_refcount>>
      \/ /\ d # 0 /\ e.pressed
         /\ s_refcount[d] = 0 => doom_push(TRUE, d)
         /\ s_refcount[d] # 0 => UNCHANGED <<doom_queue, doom_lost>>
         /\ s_refcount' = [s_refcount EXCEPT ![d] = IF @ = 255 THEN @ ELSE @ + 1]
      \/ /\ d # 0 /\ ~e.pressed /\ s_refcount[d] # 0
         /\ s_refcount[d] = 1 => doom_push(FALSE, d)
         /\ s_refcount[d] # 1 => UNCHANGED <<doom_queue, doom_lost>>
         /\ s_refcount' = [s_refcount EXCEPT ![d] = @ - 1]
  BY <1>1, EmitKinds
<1>5. d # 0 => (e.code \in Held(d) <=> e.code \in seen)
  BY DEF Held
<1>6. d # 0 => /\ Held(d) \subseteq {u \in Usages : DoomKey(u) = d}
               /\ IsFiniteSet(Held(d)) /\ Cardinality(Held(d)) \in 0 .. 254
               /\ Cardinality(Held(d)) > 0 <=> Held(d) # {}
  BY <1>1, HeldOf
<1>7. d # 0 /\ d \notin LostKeys => Counted(s_refcount[d], Cardinality(Held(d)), d, stuck)
  BY <1>1 DEF CountInv
<1>b. stuck' = stuck \cup (IF e.pressed /\ e.code \in seen THEN {d} ELSE {})
  OBVIOUS
<1>a. d # 0 => e.code \in {u \in Usages : DoomKey(u) = d}
  BY <1>1
<1> HIDE DEF d
\* Every other key.
<1>8. ASSUME \A x \in DoomKeys : x # d => s_refcount'[x] = s_refcount[x],
             d # 0 /\ d \notin LostKeys => Counted(s_refcount'[d], Cardinality(Held(d)'), d, stuck')
      PROVE  CountInv'
  <2>1. \A x \in DoomKeys : x # 0
    BY DEF DoomKeys
  <2>2. ASSUME NEW x \in DoomKeys \ LostKeys PROVE Counted(s_refcount'[x], Cardinality(Held(x)'), x, stuck')
    <3>1. CASE x = d
      BY <1>8, <2>1, <3>1
    <3>2. CASE x # d
      <4>1. x \in stuck' <=> x \in stuck
        BY <1>b, <3>2
      <4>2. s_refcount'[x] = s_refcount[x] /\ Held(x)' = Held(x) /\ Counted(s_refcount[x], Cardinality(Held(x)), x, stuck)
        BY <1>1, <1>8, <3>2 DEF CountInv
      <4> QED
        BY <4>1, <4>2 DEF Counted
    <3> QED
      BY <3>1, <3>2
  <2>3. \A x \in DoomKeys : Cardinality(Held(x))' = Cardinality(Held(x)')
    OBVIOUS
  <2> QED
    BY <1>2, <2>2, <2>3 DEF CountInv, Counted
<1>9. CASE d = 0 \/ (~e.pressed /\ s_refcount[d] = 0)
  <2>1. UNCHANGED <<doom_queue, doom_lost, s_refcount>>
    BY <1>4, <1>9
  <2>2. d # 0 => d \in LostKeys
    <3> SUFFICES ASSUME d # 0, d \notin LostKeys PROVE FALSE
      OBVIOUS
    <3>1. Cardinality(Held(d)) \in 0 .. 254 /\ Cardinality(Held(d)) > 0
      BY <1>1, <1>5, <1>6, <1>9
    <3>2. s_refcount[d] = 0 /\ Counted(s_refcount[d], Cardinality(Held(d)), d, stuck)
      BY <1>7, <1>9
    <3> QED
      BY <1>1, <1>3, <3>1, <3>2, CountedRules
  <2>3. CountInv'
    BY <1>8, <2>1, <2>2
  <2>4. DoomTypes'
    BY <1>1, <2>1 DEF DoomTypes
  <2>5. GameInv'
    BY <1>2, <2>1 DEF GameInv
  <2> QED
    BY <2>3, <2>4, <2>5
<1>10. CASE d # 0 /\ e.pressed
  <2>1. /\ s_refcount[d] = 0 => doom_push(TRUE, d)
        /\ s_refcount[d] # 0 => UNCHANGED <<doom_queue, doom_lost>>
        /\ s_refcount' = [s_refcount EXCEPT ![d] = IF @ = 255 THEN @ ELSE @ + 1]
    BY <1>4, <1>10
  <2>2. s_refcount' \in [DoomKeys -> 0 .. 255] /\ s_refcount'[d] > 0
        /\ More(s_refcount[d], s_refcount'[d])
        /\ \A x \in DoomKeys : x # d => s_refcount'[x] = s_refcount[x]
    <3> DEFINE w == IF s_refcount[d] = 255 THEN s_refcount[d] ELSE s_refcount[d] + 1
    <3>1. d \in DoomKeys /\ s_refcount[d] \in 0 .. 255
      BY <1>1, <1>3, <1>10
    <3>2. w \in 0 .. 255 /\ w > 0 /\ More(s_refcount[d], w)
      <4>1. \A v \in 0 .. 255 : LET x == IF v = 255 THEN v ELSE v + 1 IN x \in 0 .. 255 /\ x > 0 /\ More(v, x)
        BY DEF More
      <4> QED
        BY <3>1, <4>1
    <3>3. s_refcount' = [s_refcount EXCEPT ![d] = w]
      BY <2>1
    <3> HIDE DEF w
    <3> QED
      BY <3>1, <3>2, <3>3 DEF DoomTypes
  <2>3. d \notin LostKeys => Counted(s_refcount'[d], Cardinality(Held(d)'), d, stuck')
    <3> SUFFICES ASSUME d \notin LostKeys PROVE Counted(s_refcount'[d], Cardinality(Held(d)'), d, stuck')
      OBVIOUS
    <3> DEFINE n == Cardinality(Held(d))
               m == Cardinality(Held(d)')
               now == stuck'
    <3>0. s_refcount[d] \in 0 .. 255 /\ n \in 0 .. 254 /\ Counted(s_refcount[d], n, d, stuck)
      BY <1>1, <1>3, <1>6, <1>7, <1>10
    <3>a. s_refcount'[d] \in 0 .. 255 /\ More(s_refcount[d], s_refcount'[d])
      BY <1>1, <1>10, <2>2
    <3>1. Held(d)' = Held(d) \cup {e.code}
      BY <1>1, <1>10
    <3>2. m \in 0 .. 254
      <4>1. Held(d) \cup {e.code} \subseteq {u \in Usages : DoomKey(u) = d}
        BY <1>6, <1>10, <1>a
      <4> QED
        BY <1>1, <1>10, <3>1, <4>1, UsagesOf
    <3>3. CASE e.code \in Held(d)
      <4>1. m = n /\ d \in now
        BY <1>5, <1>10, <1>b, <3>1, <3>3
      <4> HIDE DEF m, n, d, now
      <4>2. Counted(s_refcount'[d], n, d, now)
        BY <3>0, <3>a, <4>1, CountedAgain
      <4>3. Counted(s_refcount'[d], m, d, now)
        BY <4>1, <4>2, Zenon
      <4> QED
        BY <4>3 DEF m, now
    <3>4. CASE e.code \notin Held(d)
      <4>1. m = n + 1
        BY <1>6, <1>10, <3>1, <3>4, FS_AddElement
      <4>2. d \in now <=> d \in stuck
        BY <1>5, <1>10, <1>b, <3>4
      <4> HIDE DEF m, n, d, now
      <4>3. Counted(s_refcount'[d], n + 1, d, now)
        BY <3>0, <3>2, <3>a, <4>1, <4>2, CountedNew
      <4>4. Counted(s_refcount'[d], m, d, now)
        BY <4>1, <4>3, Zenon
      <4> QED
        BY <4>4 DEF m, now
    <3> QED
      BY <3>3, <3>4
  <2>4. CountInv'
    BY <1>8, <2>2, <2>3
  <2>5. CASE s_refcount[d] = 0
    <3> DEFINE ev == Ev(TRUE, d)
               r == ring_push([q |-> doom_queue, out |-> doom_lost], ev, KEY_QUEUE_SIZE)
    <3>1. ev.code = d /\ ev.pressed /\ ev \in Events(DoomKeys)
      BY <1>1, <1>10, EvDown
    <3>2. doom_queue' = r.q /\ doom_lost' = r.out
      BY <2>1, <2>5 DEF doom_push
    <3> HIDE DEF ev
    <3>3. /\ doom_queue' \in Seq(Events(DoomKeys)) /\ Len(doom_queue') <= KEY_QUEUE_SIZE - 1
          /\ doom_lost \subseteq doom_lost'
          /\ \A set, x : x \notin doom_lost' =>
               (DownAt(set, doom_queue', Len(doom_queue'), x)
                  <=> IF ev.code = x THEN ev.pressed ELSE DownAt(set, doom_queue, Len(doom_queue), x))
      BY <3>1, <3>2, DoomPush
    <3> HIDE DEF r
    <3>4. GameInv'
      <4>1. ASSUME NEW x \in DoomKeys \ (LostKeys \cup doom_lost')
            PROVE  DownAt(game, doom_queue', Len(doom_queue'), x) <=> s_refcount'[x] > 0
        <5>1. CASE x = d
          BY <2>2, <3>1, <3>3, <4>1, <5>1
        <5>2. CASE x # d
          BY <2>2, <3>1, <3>3, <4>1, <5>2 DEF GameInv
        <5> QED
          BY <5>1, <5>2
      <4> QED
        BY <1>2, <4>1 DEF GameInv
    <3>5. DoomTypes'
      BY <1>1, <2>2, <3>3 DEF DoomTypes
    <3> QED
      BY <2>4, <3>4, <3>5
  <2>6. CASE s_refcount[d] # 0
    <3>1. UNCHANGED <<doom_queue, doom_lost>>
      BY <2>1, <2>6
    <3>2. \A x \in DoomKeys : s_refcount'[x] > 0 <=> s_refcount[x] > 0
      <4>1. ASSUME NEW x \in DoomKeys PROVE s_refcount'[x] > 0 <=> s_refcount[x] > 0
        <5>1. s_refcount[x] \in 0 .. 255
          BY <1>3
        <5>2. CASE x # d
          BY <2>2, <5>2
        <5>3. CASE x = d
          <6>1. s_refcount'[d] > 0
            BY <2>2
          <6>2. \A v \in 0 .. 255 : v # 0 => v > 0
            OBVIOUS
          <6> QED
            BY <2>2, <2>6, <5>1, <5>3, <6>1, <6>2
        <5> QED
          BY <5>2, <5>3
      <4> QED
        BY <4>1
    <3>3. GameInv'
      BY <1>2, <3>1, <3>2 DEF GameInv
    <3>4. DoomTypes'
      BY <1>1, <2>2, <3>1 DEF DoomTypes
    <3> QED
      BY <2>4, <3>3, <3>4
  <2> QED
    BY <2>5, <2>6
<1>11. CASE d # 0 /\ ~e.pressed /\ s_refcount[d] # 0
  <2>1. /\ s_refcount[d] = 1 => doom_push(FALSE, d)
        /\ s_refcount[d] # 1 => UNCHANGED <<doom_queue, doom_lost>>
        /\ s_refcount' = [s_refcount EXCEPT ![d] = @ - 1]
    BY <1>4, <1>11
  <2>2. s_refcount' \in [DoomKeys -> 0 .. 255] /\ s_refcount'[d] = s_refcount[d] - 1
        /\ \A x \in DoomKeys : x # d => s_refcount'[x] = s_refcount[x]
    BY <1>1, <1>3, <1>11, <2>1 DEF DoomTypes
  <2>3. d \notin LostKeys => Counted(s_refcount'[d], Cardinality(Held(d)'), d, stuck')
    <3> SUFFICES ASSUME d \notin LostKeys PROVE Counted(s_refcount'[d], Cardinality(Held(d)'), d, stuck')
      OBVIOUS
    <3> DEFINE n == Cardinality(Held(d))
               m == Cardinality(Held(d)')
               now == stuck'
    <3>0. s_refcount[d] \in 0 .. 255 /\ n \in 0 .. 254 /\ Counted(s_refcount[d], n, d, stuck)
      BY <1>1, <1>3, <1>6, <1>7, <1>11
    <3>1. Held(d)' = Held(d) \ {e.code} /\ e.code \in Held(d)
      BY <1>1, <1>5, <1>11
    <3>2. m = n - 1
      BY <1>6, <1>11, <3>1, FS_RemoveElement
    <3>3. d \in now <=> d \in stuck
      BY <1>11, <1>b
    <3> HIDE DEF m, n, now
    <3>5. s_refcount'[d] = s_refcount[d] - 1
      BY <2>2
    <3>6. Counted(s_refcount[d] - 1, n - 1, d, now)
      BY <3>0, <3>3, CountedRules
    <3>4. Counted(s_refcount'[d], m, d, now)
      BY <3>2, <3>5, <3>6
    <3> QED
      BY <3>4 DEF m, now
  <2>4. CountInv'
    BY <1>8, <2>2, <2>3
  <2>5. CASE s_refcount[d] = 1
    <3> DEFINE ev == Ev(FALSE, d)
               r == ring_push([q |-> doom_queue, out |-> doom_lost], ev, KEY_QUEUE_SIZE)
    <3>1. ev.code = d /\ ~ev.pressed /\ ev \in Events(DoomKeys)
      BY <1>1, <1>11, EvUp
    <3>2. doom_queue' = r.q /\ doom_lost' = r.out
      BY <2>1, <2>5 DEF doom_push
    <3> HIDE DEF ev
    <3>3. /\ doom_queue' \in Seq(Events(DoomKeys)) /\ Len(doom_queue') <= KEY_QUEUE_SIZE - 1
          /\ doom_lost \subseteq doom_lost'
          /\ \A set, x : x \notin doom_lost' =>
               (DownAt(set, doom_queue', Len(doom_queue'), x)
                  <=> IF ev.code = x THEN ev.pressed ELSE DownAt(set, doom_queue, Len(doom_queue), x))
      BY <3>1, <3>2, DoomPush
    <3> HIDE DEF r
    <3>4. GameInv'
      <4>1. ASSUME NEW x \in DoomKeys \ (LostKeys \cup doom_lost')
            PROVE  DownAt(game, doom_queue', Len(doom_queue'), x) <=> s_refcount'[x] > 0
        <5>1. CASE x = d
          <6>1. ~(s_refcount'[x] > 0)
            BY <2>2, <2>5, <5>1
          <6> QED
            BY <3>1, <3>3, <4>1, <5>1, <6>1
        <5>2. CASE x # d
          BY <2>2, <3>1, <3>3, <4>1, <5>2 DEF GameInv
        <5> QED
          BY <5>1, <5>2
      <4> QED
        BY <1>2, <4>1 DEF GameInv
    <3>5. DoomTypes'
      BY <1>1, <2>2, <3>3 DEF DoomTypes
    <3> QED
      BY <2>4, <3>4, <3>5
  <2>6. CASE s_refcount[d] # 1
    <3>1. UNCHANGED <<doom_queue, doom_lost>>
      BY <2>1, <2>6
    <3>2. \A x \in DoomKeys : s_refcount'[x] > 0 <=> s_refcount[x] > 0
      <4>1. ASSUME NEW x \in DoomKeys PROVE s_refcount'[x] > 0 <=> s_refcount[x] > 0
        <5>1. s_refcount[x] \in 0 .. 255
          BY <1>3
        <5>2. CASE x # d
          BY <2>2, <5>2
        <5>3. CASE x = d
          <6>1. s_refcount'[d] = s_refcount[d] - 1
            BY <2>2
          <6>2. \A v \in 0 .. 255 : v # 0 /\ v # 1 => v > 0 /\ v - 1 > 0
            OBVIOUS
          <6> QED
            BY <1>11, <2>2, <2>6, <5>1, <5>3, <6>1, <6>2
        <5> QED
          BY <5>2, <5>3
      <4> QED
        BY <4>1
    <3>3. GameInv'
      BY <1>2, <3>1, <3>2 DEF GameInv
    <3>4. DoomTypes'
      BY <1>1, <2>2, <3>1 DEF DoomTypes
    <3> QED
      BY <2>4, <3>3, <3>4
  <2> QED
    BY <2>5, <2>6
<1> QED
  BY <1>9, <1>10, <1>11

-----------------------------------------------------------------------------

\* The invariant holds after ch374_kbd_init.
LEMMA KbdInvInit == KbdInit => KbdInv
<1> SUFFICES ASSUME KbdInit PROVE KbdInv
  OBVIOUS
<1>1. /\ s_prev_keys = NoKeys /\ s_prev_modifiers = {} /\ s_queue = <<>> /\ seen = {} /\ game = {}
      /\ s_refcount = [d \in DoomKeys |-> 0] /\ doom_queue = <<>> /\ forgot = {} /\ stuck = {}
  BY DEF KbdInit
<1>2. KeySlots(s_prev_keys) /\ SlotSet(s_prev_keys) = {}
  BY <1>1 DEF KeySlots, NoKeys, SlotSet
<1>3. /\ <<>> \in Seq(Events(AllUsages)) /\ <<>> \in Seq(Events(DoomKeys)) /\ Len(<<>>) = 0
  OBVIOUS
<1>4. \A u : ~DownAt({}, <<>>, 0, u) /\ Changes({}, <<>>, u)
  BY DEF DownAt, Changes
<1>5. QueueInv
  BY <1>1, <1>2, <1>3, <1>4, KbdConstants DEF QueueInv, EventsAreState
<1>6. DoomTypes
  BY <1>1, <1>3, KbdConstants DEF DoomTypes
<1>7. \A d \in DoomKeys : s_refcount[d] = 0 /\ Held(d) = {}
  BY <1>1 DEF Held
<1>8. CountInv
  BY <1>1, <1>7, FS_EmptySet DEF CountInv, Counted
<1>9. GameInv
  BY <1>1, <1>3, <1>4, <1>7 DEF GameInv
<1> QED
  BY <1>5, <1>6, <1>8, <1>9 DEF KbdInv

\* What the queue part is about.
Driver == <<s_prev_keys, s_prev_modifiers, s_queue, seen, lost, forgot>>
Reader == <<client, s_refcount, doom_queue, game, doom_lost, stuck>>

\* Nothing else disturbs the queue part.
LEMMA QueueFrame == QueueInv /\ UNCHANGED Driver => QueueInv'
  BY DEF Driver, QueueInv, EventsAreState, SlotSet, Before

\* A usage more that is excused takes claims away.
LEMMA DoomFrame ==
  ASSUME DoomTypes, CountInv, GameInv, UNCHANGED <<Reader, seen>>, lost \subseteq lost'
  PROVE  DoomTypes' /\ CountInv' /\ GameInv'
<1>1. LostKeys \subseteq LostKeys'
  BY DEF LostKeys
<1>2. \A d : Held(d)' = Held(d)
  BY DEF Held
<1> QED
  BY <1>1, <1>2 DEF DoomTypes, CountInv, Counted, GameInv, Reader

\* Most steps touch none of it.
LEMMA KbdFrame == KbdInv /\ UNCHANGED <<Driver, Reader>> => KbdInv'
<1> SUFFICES ASSUME KbdInv, UNCHANGED <<Driver, Reader>> PROVE KbdInv'
  OBVIOUS
<1>1. lost' = lost /\ seen' = seen
  BY DEF Driver
<1> QED
  BY <1>1, QueueFrame, DoomFrame DEF KbdInv

\* Every step keeps the invariant.
LEMMA KbdInvNext == KbdInv /\ [KbdNext]_kbd_vars => KbdInv'
<1> SUFFICES ASSUME KbdInv, [KbdNext]_kbd_vars PROVE KbdInv'
  OBVIOUS
<1> USE DEF KbdInv
<1>1. ASSUME ch374_enumerate PROVE KbdInv'
  <2>1. /\ s_prev_keys' = NoKeys /\ forgot' = forgot \cup SlotSet(s_prev_keys)
        /\ UNCHANGED <<s_prev_modifiers, s_queue, kbd_client, lost>>
    BY <1>1 DEF ch374_enumerate
  <2>2. UNCHANGED <<Reader, seen>> /\ s_prev_modifiers' = s_prev_modifiers /\ s_queue' = s_queue
    BY <2>1 DEF kbd_client, Reader
  <2>3. KeySlots(NoKeys) /\ SlotSet(NoKeys) = {} /\ SlotSet(s_prev_keys)' = SlotSet(s_prev_keys')
    BY DEF KeySlots, NoKeys, SlotSet
  <2>4. EventsAreState'
    BY <2>1, <2>2, <2>3 DEF QueueInv, EventsAreState
  <2>6. (forgot \cap Before = {})' /\ forgot' \cap Modifiers = {}
    <3>1. SlotSet(s_prev_keys) \cap Modifiers = {}
      BY SlotSetType, KbdConstants DEF QueueInv, Usages
    <3> QED
      BY <2>1, <2>2, <2>3, <3>1 DEF QueueInv, Before
  <2>5. QueueInv'
    BY <2>1, <2>2, <2>3, <2>4, <2>6 DEF QueueInv
  <2> QED
    BY <2>1, <2>2, <2>5, DoomFrame
<1>2. ASSUME read_report PROVE KbdInv'
  <2>1. PICK keys \in ReportKeys(kbd.down) : process_report(keys, kbd.down \cap Modifiers)
    BY <1>2 DEF read_report
  <2>2. UNCHANGED <<Reader, seen>>
    BY <1>2 DEF read_report, kbd_client, Reader
  <2>3. KeySlots(keys) /\ kbd.down \cap Modifiers \subseteq Modifiers
    BY ReportKeysSlots
  <2>4. QueueInv' /\ lost \subseteq lost'
    BY <2>1, <2>2, <2>3, ReportKeeps
  <2> QED
    BY <2>2, <2>4, DoomFrame
<1>3. ASSUME kbd_pop PROVE KbdInv'
  <2>1. s_queue # <<>> /\ client = "menu" /\ seen' = Heard(seen, Head(s_queue)) /\ s_queue' = Tail(s_queue)
        /\ UNCHANGED <<s_prev_keys, s_prev_modifiers, lost, forgot, client, s_refcount, doom_queue, doom_lost>>
    BY <1>3 DEF kbd_pop
  <2>2. QueueInv'
    BY <2>1, PopKeeps
  <2>3. seen' \subseteq AllUsages
    BY <2>1, HeardKeys
  <2> QED
    BY <2>1, <2>2, <2>3 DEF DoomTypes, CountInv, GameInv
<1>4. ASSUME drain PROVE KbdInv'
  <2>1. s_queue # <<>> /\ client = "doom" /\ seen' = Heard(seen, Head(s_queue)) /\ s_queue' = Tail(s_queue)
        /\ UNCHANGED <<s_prev_keys, s_prev_modifiers, lost, forgot, client, game>>
        /\ stuck' = stuck \cup (IF Head(s_queue).pressed /\ Head(s_queue).code \in seen
                                THEN {DoomKey(Head(s_queue).code)} ELSE {})
        /\ emit(Head(s_queue).pressed, DoomKey(Head(s_queue).code))
    BY <1>4 DEF drain
  <2>2. QueueInv'
    BY <2>1, PopKeeps
  <2>3. DoomTypes' /\ CountInv' /\ GameInv'
    BY <2>1, EmitKeeps
  <2> QED
    BY <2>2, <2>3
<1>5. ASSUME aipc_keyboard_get_event PROVE KbdInv'
  <2>1. /\ doom_queue # <<>> /\ game' = Heard(game, Head(doom_queue)) /\ doom_queue' = Tail(doom_queue)
        /\ UNCHANGED <<s_prev_keys, s_prev_modifiers, s_queue, client, s_refcount, seen, doom_lost, stuck, lost, forgot>>
    BY <1>5 DEF aipc_keyboard_get_event
  <2>2. QueueInv'
    BY <2>1, QueueFrame DEF Driver
  <2>3. doom_queue' \in Seq(Events(DoomKeys)) /\ Len(doom_queue') <= KEY_QUEUE_SIZE - 1
    BY <2>1, KbdConstants DEF DoomTypes
  <2>4. \A d : DownAt(game', doom_queue', Len(doom_queue'), d) <=> DownAt(game, doom_queue, Len(doom_queue), d)
    BY <2>1, RingPop DEF DoomTypes
  <2>5. LostKeys' = LostKeys /\ \A d : Held(d)' = Held(d)
    BY <2>1 DEF LostKeys, Held
  <2> QED
    BY <2>1, <2>2, <2>3, <2>4, <2>5 DEF DoomTypes, CountInv, Counted, GameInv
<1>6. ASSUME enumerate_address \/ enumerate_config PROVE KbdInv'
  <2>1. UNCHANGED <<Driver, Reader>>
    BY <1>6 DEF enumerate_address, enumerate_config, ch374_control_status_in, enum_failed, kbd_client, Driver, Reader
  <2> QED
    BY <2>1, KbdFrame
<1>7. ASSUME ch374_kbd_poll \/ read_nak \/ read_lost \/ read_error PROVE KbdInv'
  <2>1. UNCHANGED <<Driver, Reader>>
    BY <1>7 DEF ch374_kbd_poll, read_nak, read_lost, read_error, Lose, NoReport, kbd_client, Driver, Reader
  <2> QED
    BY <2>1, KbdFrame
<1>8. ASSUME (\E u \in Usages : KeyMoves(u)) \/ Plug \/ DelayEnds PROVE KbdInv'
  <2>1. UNCHANGED <<Driver, Reader>>
    BY <1>8 DEF KeyMoves, Plug, DelayEnds, kbd_driver, kbd_client, Driver, Reader
  <2> QED
    BY <2>1, KbdFrame
<1>9. ASSUME UNCHANGED kbd_vars PROVE KbdInv'
  <2>1. UNCHANGED <<Driver, Reader>>
    BY <1>9 DEF kbd_vars, kbd_client, Driver, Reader
  <2> QED
    BY <2>1, KbdFrame
<1> QED
  BY <1>1, <1>2, <1>3, <1>4, <1>5, <1>6, <1>7, <1>8, <1>9 DEF KbdNext, enumerate, reading, popping

\* The invariant gives the property.
LEMMA KbdInvSays == KbdInv => KeysFollow
<1> SUFFICES ASSUME KbdInv PROVE KeysFollow
  OBVIOUS
<1>1. EventsAreState
  BY DEF KbdInv, QueueInv
<1>2. ASSUME client = "doom", doom_queue = <<>>, NEW d \in DoomKeys \ (doom_lost \cup LostKeys)
      PROVE  d \in game <=> d \in stuck \/ \E u \in seen : DoomKey(u) = d
  <2>1. DownAt(game, doom_queue, Len(doom_queue), d) <=> d \in game
    BY <1>2 DEF DownAt
  <2>2. d \in game <=> s_refcount[d] > 0
    BY <1>2, <2>1 DEF KbdInv, GameInv
  <2>3. Counted(s_refcount[d], Cardinality(Held(d)), d, stuck) /\ s_refcount[d] \in 0 .. 255
    BY <1>2 DEF KbdInv, CountInv, DoomTypes
  <2>4. (Cardinality(Held(d)) > 0 <=> Held(d) # {}) /\ Cardinality(Held(d)) \in 0 .. 254
    BY HeldOf DEF KbdInv
  <2>5. s_refcount[d] > 0 <=> d \in stuck \/ Held(d) # {}
    BY <2>3, <2>4 DEF Counted
  <2> QED
    BY <2>2, <2>5 DEF Held
<1>3. DoomFollows
  BY <1>2 DEF DoomFollows, LostKeys
<1> QED
  BY <1>1, <1>3 DEF KeysFollow

(* Every client's picture of the keys is that of the last report, for any  *)
(* set of keys, any sizes of the rings, and any number of replugs, errors  *)
(* and reports (process_report, emit).  Nothing is said of codes of which  *)
(* an event fell out of a full ring, and the keys that hang are named: a   *)
(* new enumeration forgets those that are down (ch374_enumerate), and the  *)
(* game keeps one that was pressed twice without a release.                *)
THEOREM KeysFollowTheorem == KbdSpec => []KeysFollow
<1>1. KbdSpec => []KbdInv
  BY KbdInvInit, KbdInvNext, PTL DEF KbdSpec
<1> QED
  BY <1>1, KbdInvSays, PTL

-----------------------------------------------------------------------------
(* The NAND programs.                                                      *)

\* A sequence of n elements, of whatever kind.
IsSeq(s, n) == n \in Nat /\ s = [i \in 1 .. n |-> s[i]]

\* u is t behind s.
IsJoined(u, s, m, t, n) ==
  /\ IsSeq(u, m + n)
  /\ \A i \in 1 .. m : u[i] = s[i]
  /\ \A i \in 1 .. n : u[m + i] = t[i]

LEMMA SeqIs ==
  ASSUME NEW s, NEW n, IsSeq(s, n)
  PROVE  Len(s) = n /\ s \in Seq({s[i] : i \in 1 .. n})
<1> DEFINE S == {s[i] : i \in 1 .. n}
<1>1. n \in Nat /\ \A i \in 1 .. n : s[i] \in S
  BY DEF IsSeq
<1>2. s \in [1 .. n -> S]
  <2> HIDE DEF S
  <2> QED
    BY <1>1 DEF IsSeq
<1> HIDE DEF S
<1>3. Len(s) = n /\ s \in Seq(S)
  BY <1>1, <1>2
<1> QED
  BY <1>3 DEF S

LEMMA Joined ==
  ASSUME NEW s, NEW m, IsSeq(s, m), NEW t, NEW n, IsSeq(t, n)
  PROVE  IsJoined(s \o t, s, m, t, n)
<1> DEFINE S == {s[i] : i \in 1 .. m} \cup {t[i] : i \in 1 .. n}
<1>1. s \in Seq(S) /\ t \in Seq(S) /\ Len(s) = m /\ Len(t) = n /\ m \in Nat /\ n \in Nat
  <2>1. m \in Nat /\ n \in Nat /\ (\A i \in 1 .. m : s[i] \in S) /\ \A i \in 1 .. n : t[i] \in S
    BY DEF IsSeq
  <2> HIDE DEF S
  <2>2. s \in [1 .. m -> S] /\ t \in [1 .. n -> S]
    BY <2>1 DEF IsSeq
  <2> QED
    BY <2>1, <2>2, SeqIs
<1> HIDE DEF S
<1>2. s \o t \in Seq(S) /\ Len(s \o t) = m + n
  BY <1>1
<1>3. /\ \A i \in 1 .. m : (s \o t)[i] = s[i]
      /\ \A i \in 1 .. n : (s \o t)[m + i] = t[i]
  BY <1>1
<1>4. s \o t \in [1 .. m + n -> S]
  BY <1>2, LenProperties
<1>5. IsSeq(s \o t, m + n)
  BY <1>1, <1>4 DEF IsSeq
<1> QED
  BY <1>3, <1>5 DEF IsJoined

\* S is A, then E, then z.
IsBetween(S, A, l, E, n, z) ==
  /\ IsSeq(S, l + n + 1) /\ S[l + n + 1] = z
  /\ \A i \in 1 .. l : S[i] = A[i]
  /\ \A i \in 1 .. n : S[l + i] = E[i]

LEMMA Between ==
  ASSUME NEW A, NEW l, IsSeq(A, l), NEW E, NEW n, IsSeq(E, n), NEW z
  PROVE  IsBetween(A \o E \o <<z>>, A, l, E, n, z)
<1> DEFINE Z == <<z>>
           AE == A \o E
           S == AE \o Z
<1>1. IsSeq(Z, 1) /\ Z[1] = z
  BY DEF IsSeq
<1> HIDE DEF Z
<1>2. IsJoined(AE, A, l, E, n)
  BY Joined
<1> HIDE DEF AE
<1>3. IsSeq(AE, l + n) /\ l \in Nat /\ n \in Nat
  BY <1>2 DEF IsJoined, IsSeq
<1>4. IsJoined(S, AE, l + n, Z, 1)
  BY <1>1, <1>3, Joined
<1> HIDE DEF S
<1>5. IsSeq(S, l + n + 1) /\ S[l + n + 1] = z
  BY <1>1, <1>4 DEF IsJoined
<1>6. \A i \in 1 .. l : S[i] = A[i]
  BY <1>2, <1>3, <1>4 DEF IsJoined
<1>7. \A i \in 1 .. n : S[l + i] = E[i]
  <2> TAKE i \in 1 .. n
  <2>1. l + i \in 1 .. l + n
    BY <1>3
  <2> QED
    BY <1>2, <1>4, <2>1 DEF IsJoined
<1>8. IsBetween(S, A, l, E, n, z)
  BY <1>5, <1>6, <1>7 DEF IsBetween
<1> QED
  BY <1>8 DEF S, AE, Z

LEMMA OneIsSeq ==
  ASSUME NEW x
  PROVE  IsSeq(<<x>>, 1) /\ <<x>>[1] = x
  BY DEF IsSeq

LEMMA TwoIsSeq ==
  ASSUME NEW x, NEW y
  PROVE  IsSeq(<<x, y>>, 2) /\ <<x, y>>[1] = x /\ <<x, y>>[2] = y
  BY DEF IsSeq

-----------------------------------------------------------------------------
(* The programs.                                                           *)

\* The places of pieces of m operations.
LEMMA PlaceOf ==
  ASSUME NEW m \in Nat \ {0}, NEW n \in Nat, NEW i \in 1 .. n, NEW k \in 1 .. m
  PROVE  /\ (i - 1) * m + k \in 1 .. n * m
         /\ 1 + (((i - 1) * m + k - 1) \div m) = i /\ 1 + (((i - 1) * m + k - 1) % m) = k
<1> DEFINE q == i - 1  r == k - 1
<1>1. q \in Nat /\ r \in Nat /\ r < m /\ n - i \in Nat
  OBVIOUS
<1>2. (q * m + r) \div m = q /\ (q * m + r) % m = r
  BY <1>1
<1>3. q * m + r = (i - 1) * m + k - 1 /\ 1 + q = i /\ 1 + r = k
  BY <1>1
<1>5. ((i - 1) * m + k - 1) \div m = q /\ ((i - 1) * m + k - 1) % m = r
  BY <1>2, <1>3
<1>4. (n - i) * m \in Nat /\ (n - i) * m = n * m - q * m - m /\ q * m \in Nat
  BY <1>1
<1>6. (i - 1) * m + k \in 1 .. n * m
  BY <1>3, <1>4
<1> QED
  BY <1>3, <1>5, <1>6

LEMMA PlaceIs ==
  ASSUME NEW m \in Nat \ {0}, NEW n \in Nat, NEW a \in 1 .. n * m
  PROVE  \E i \in 1 .. n, k \in 1 .. m : a = (i - 1) * m + k
<1> DEFINE q == (a - 1) \div m  r == (a - 1) % m
<1>1. q \in Nat /\ r \in 0 .. m - 1 /\ a - 1 = q * m + r
  OBVIOUS
<1>2. q < n
  <2> SUFFICES ASSUME q >= n PROVE FALSE
    BY <1>1
  <2> HIDE DEF q, r
  <2>1. (q - n) * m \in Nat /\ (q - n) * m = q * m - n * m
    BY <1>1
  <2> QED
    BY <1>1, <2>1
<1> HIDE DEF q, r
<1> DEFINE i == q + 1  k == r + 1
<1>3. i \in 1 .. n /\ k \in 1 .. m /\ a = (i - 1) * m + k
  BY <1>1, <1>2
<1> HIDE DEF i, k
<1> QED
  BY <1>3, Zenon

\* Behind an operation is the next one of the piece, or the next piece, or
\* the end.
LEMMA NextPlace ==
  ASSUME NEW m \in Nat \ {0}, NEW n \in Nat, NEW i \in 1 .. n, NEW k \in 1 .. m
  PROVE  \/ /\ k < m /\ k + 1 \in 1 .. m
            /\ (i - 1) * m + k + 1 = (i - 1) * m + (k + 1) /\ (i - 1) * m + k + 1 <= n * m
         \/ /\ k = m /\ i < n /\ i + 1 \in 1 .. n
            /\ (i - 1) * m + k + 1 = (i + 1 - 1) * m + 1 /\ (i - 1) * m + k + 1 <= n * m
         \/ k = m /\ i = n /\ (i - 1) * m + k = n * m
<1>1. CASE k < m
  <2>1. k + 1 \in 1 .. m
    BY <1>1
  <2>2. (i - 1) * m + (k + 1) \in 1 .. n * m
    BY <2>1, PlaceOf
  <2>3. (i - 1) * m \in Nat
    OBVIOUS
  <2> QED
    BY <1>1, <2>1, <2>2, <2>3
<1>2. CASE k = m /\ i < n
  <2>1. i + 1 \in 1 .. n /\ 1 \in 1 .. m
    BY <1>2
  <2>2. (i + 1 - 1) * m + 1 \in 1 .. n * m
    BY <2>1, PlaceOf
  <2>3. (i + 1 - 1) * m = (i - 1) * m + m
    OBVIOUS
  <2> QED
    BY <1>2, <2>1, <2>2, <2>3
<1>3. CASE k = m /\ i = n
  <2>1. (i - 1) * m + m = i * m
    OBVIOUS
  <2> QED
    BY <1>3, <2>1
<1> QED
  BY <1>1, <1>2, <1>3

\* The operations of a page.
LEMMA PageOps ==
  ASSUME NEW p
  PROVE  /\ IsSeq(nf_program_page(p), PROGRAM_OPS)
         /\ nf_program_page(p)[1] = Simple("dir")
         /\ nf_program_page(p)[2] = Op("start", p, 0, {"SEQ"}, {"dir"}, 0)
         /\ \A c \in 1 .. TOOL_CHUNKS : nf_program_page(p)[2 + c] = program_chunk(p, c)
         /\ nf_program_page(p)[TOOL_CHUNKS + 3] = Op("confirm", p, 0, {"SEQ"}, {"dir"}, 0)
         /\ nf_program_page(p)[TOOL_CHUNKS + 4] = Simple("undir")
         /\ nf_program_page(p)[TOOL_CHUNKS + 5] = Op("status", p, 0, {"SEQ", "FAIL"}, {}, 0)
<1> DEFINE a == Op("start", p, 0, {"SEQ"}, {"dir"}, 0)
           A == <<a>>
           B == [c \in 1 .. TOOL_CHUNKS |-> program_chunk(p, c)]
           c1 == Op("confirm", p, 0, {"SEQ"}, {"dir"}, 0)
           C == <<c1>>
           d == Simple("dir")
           D == <<d>>
           f == Simple("undir")
           g == Op("status", p, 0, {"SEQ", "FAIL"}, {}, 0)
           F == <<f, g>>
<1>0. TOOL_CHUNKS \in Nat
  BY NandToolsAssumption
<1>6. nf_program_page(p) = D \o (A \o B \o C) \o F
  BY DEF nf_program_page, program_data
<1>2. IsSeq(B, TOOL_CHUNKS) /\ \A c \in 1 .. TOOL_CHUNKS : B[c] = program_chunk(p, c)
  BY <1>0 DEF IsSeq
<1> HIDE DEF a, c1, d, f, g, B
<1>1. /\ IsSeq(A, 1) /\ A[1] = a /\ IsSeq(C, 1) /\ C[1] = c1 /\ IsSeq(D, 1) /\ D[1] = d
      /\ IsSeq(F, 2) /\ F[1] = f /\ F[2] = g
  BY OneIsSeq, TwoIsSeq
<1> HIDE DEF A, C, D, F
<1>7. IsJoined(A \o B, A, 1, B, TOOL_CHUNKS)
  BY <1>1, <1>2, Joined
<1>70. IsSeq(A \o B, 1 + TOOL_CHUNKS)
  BY <1>7 DEF IsJoined
<1>8. IsJoined(A \o B \o C, A \o B, 1 + TOOL_CHUNKS, C, 1)
  BY <1>1, <1>70, Joined
<1>80. IsSeq(A \o B \o C, 1 + TOOL_CHUNKS + 1)
  BY <1>8 DEF IsJoined
<1>9. IsJoined(D \o (A \o B \o C), D, 1, A \o B \o C, 1 + TOOL_CHUNKS + 1)
  BY <1>1, <1>80, Joined
<1>90. IsSeq(D \o (A \o B \o C), 1 + (1 + TOOL_CHUNKS + 1))
  BY <1>9 DEF IsJoined
<1>10. IsJoined(D \o (A \o B \o C) \o F, D \o (A \o B \o C), 1 + (1 + TOOL_CHUNKS + 1), F, 2)
  BY <1>1, <1>90, Joined
<1> DEFINE N == nf_program_page(p)
           AB == A \o B
           ABC == AB \o C
           DABC == D \o ABC
<1>11. /\ IsJoined(N, DABC, TOOL_CHUNKS + 3, F, 2) /\ IsJoined(DABC, D, 1, ABC, TOOL_CHUNKS + 2)
       /\ IsJoined(ABC, AB, TOOL_CHUNKS + 1, C, 1) /\ IsJoined(AB, A, 1, B, TOOL_CHUNKS)
  <2>1. /\ 1 + TOOL_CHUNKS = TOOL_CHUNKS + 1 /\ 1 + TOOL_CHUNKS + 1 = TOOL_CHUNKS + 2
        /\ 1 + (1 + TOOL_CHUNKS + 1) = TOOL_CHUNKS + 3
    BY <1>0
  <2> QED
    BY <1>6, <1>7, <1>8, <1>9, <1>10, <2>1
<1> HIDE DEF N, AB, ABC, DABC
<1>12. N[TOOL_CHUNKS + 4] = f /\ N[TOOL_CHUNKS + 5] = g /\ IsSeq(N, PROGRAM_OPS)
  BY <1>0, <1>1, <1>11 DEF IsJoined, PROGRAM_OPS
<1>13. N[1] = d /\ \A k \in 1 .. TOOL_CHUNKS + 2 : N[1 + k] = ABC[k]
  <2>1. DABC[1] = d /\ \A k \in 1 .. TOOL_CHUNKS + 2 : DABC[1 + k] = ABC[k]
    BY <1>0, <1>1, <1>11 DEF IsJoined
  <2>2. \A k \in 1 .. TOOL_CHUNKS + 3 : N[k] = DABC[k]
    BY <1>11 DEF IsJoined
  <2>3. \A k \in 1 .. TOOL_CHUNKS + 2 : 1 + k \in 1 .. TOOL_CHUNKS + 3
    BY <1>0
  <2>4. 1 \in 1 .. TOOL_CHUNKS + 3
    BY <1>0
  <2> QED
    BY <2>1, <2>2, <2>3, <2>4
<1>14. ABC[TOOL_CHUNKS + 2] = c1 /\ \A k \in 1 .. TOOL_CHUNKS + 1 : ABC[k] = AB[k]
  <2>1. TOOL_CHUNKS + 1 + 1 = TOOL_CHUNKS + 2 /\ 1 \in 1 .. 1
    BY <1>0
  <2> QED
    BY <1>1, <1>11, <2>1 DEF IsJoined
<1>15. AB[1] = a /\ \A c \in 1 .. TOOL_CHUNKS : AB[1 + c] = program_chunk(p, c)
  BY <1>1, <1>2, <1>11 DEF IsJoined
<1>16. N[2] = a /\ N[TOOL_CHUNKS + 3] = c1
  BY <1>0, <1>13, <1>14, <1>15
<1>17. \A c \in 1 .. TOOL_CHUNKS : N[2 + c] = program_chunk(p, c)
  <2> TAKE c \in 1 .. TOOL_CHUNKS
  <2>1. 1 + c \in 1 .. TOOL_CHUNKS + 1 /\ 2 + c = 1 + (1 + c)
    BY <1>0
  <2> QED
    BY <1>0, <1>13, <1>14, <1>15, <2>1
<1> QED
  BY <1>12, <1>13, <1>16, <1>17 DEF N, a, c1, d, f, g

\* nf_write with an argument that it takes.
LEMMA WriteSteps ==
  ASSUME tool = "write", count \in 0 .. TOOL_PAGES
  PROVE  /\ IsSeq(Steps, 2 + count * PROGRAM_OPS)
         /\ Steps[1] = Op("erase", 0, 0, {"SEQ"}, {}, 0) /\ Steps[2] = Op("status", 0, 0, {"SEQ", "FAIL"}, {}, 0)
         /\ \A p \in 1 .. count, k \in 1 .. PROGRAM_OPS :
              Steps[2 + ((p - 1) * PROGRAM_OPS + k)] = nf_program_page(p)[k]
<1> DEFINE m == PROGRAM_OPS
           a == Op("erase", 0, 0, {"SEQ"}, {}, 0)
           b == Op("status", 0, 0, {"SEQ", "FAIL"}, {}, 0)
           A == <<a, b>>
           E == [k \in 1 .. count * m |-> nf_program_page(1 + ((k - 1) \div m))[1 + ((k - 1) % m)]]
<1>0. m \in Nat \ {0} /\ count \in Nat /\ count * m \in Nat /\ ~(count > TOOL_PAGES)
  BY NandToolsAssumption DEF PROGRAM_OPS
<1>1. Steps = A \o E
  BY <1>0 DEF Steps, nf_write, nf_erase_block, Each
<1>2. IsSeq(E, count * m)
  BY <1>0 DEF IsSeq
<1>3. \A p \in 1 .. count, k \in 1 .. m : E[(p - 1) * m + k] = nf_program_page(p)[k]
  <2> TAKE p \in 1 .. count, k \in 1 .. m
  <2> HIDE DEF m
  <2> DEFINE x == (p - 1) * m + k
  <2>1. x \in 1 .. count * m /\ 1 + ((x - 1) \div m) = p /\ 1 + ((x - 1) % m) = k
    BY <1>0, PlaceOf
  <2>3. E[x] = nf_program_page(1 + ((x - 1) \div m))[1 + ((x - 1) % m)]
    BY <2>1
  <2> HIDE DEF x, E
  <2>5. E[x] = nf_program_page(p)[k]
    BY <2>1, <2>3
  <2> QED
    BY <2>5 DEF x
<1> HIDE DEF a, b, E, m
<1>4. IsSeq(A, 2) /\ A[1] = a /\ A[2] = b
  BY TwoIsSeq
<1> HIDE DEF A
<1>5. IsJoined(Steps, A, 2, E, count * m)
  BY <1>1, <1>2, <1>4, Joined
<1>6. \A p \in 1 .. count, k \in 1 .. m : Steps[2 + ((p - 1) * m + k)] = nf_program_page(p)[k]
  <2> TAKE p \in 1 .. count, k \in 1 .. m
  <2>1. (p - 1) * m + k \in 1 .. count * m
    BY <1>0, PlaceOf
  <2> QED
    BY <1>3, <1>5, <2>1 DEF IsJoined
<1>7. IsSeq(Steps, 2 + count * m) /\ Steps[1] = a /\ Steps[2] = b
  BY <1>4, <1>5 DEF IsJoined
<1> QED
  BY <1>6, <1>7 DEF a, b, m

\* nf_read with an argument that it takes.
LEMMA ReadSteps ==
  ASSUME tool = "read", count \in 1 .. TOOL_PAGES
  PROVE  /\ IsSeq(Steps, 1 + count * TOOL_CHUNKS) /\ Steps[1] = Op("id", 0, 0, {"SEQ"}, {}, 0)
         /\ \A p \in 1 .. count, c \in 1 .. TOOL_CHUNKS :
              Steps[1 + ((p - 1) * TOOL_CHUNKS + c)] = nf_read_raw(p, c)
<1> DEFINE m == TOOL_CHUNKS
           a == Op("id", 0, 0, {"SEQ"}, {}, 0)
           A == <<a>>
           E == [k \in 1 .. count * m |-> nf_read_page(1 + ((k - 1) \div m))[1 + ((k - 1) % m)]]
<1>0. m \in Nat \ {0} /\ count \in Nat /\ count * m \in Nat /\ ~(count = 0 \/ count > TOOL_PAGES)
  BY NandToolsAssumption
<1>1. Steps = A \o E
  BY <1>0 DEF Steps, nf_read, Each
<1>2. IsSeq(E, count * m)
  BY <1>0 DEF IsSeq
<1>3. \A p \in 1 .. count, c \in 1 .. m : E[(p - 1) * m + c] = nf_read_raw(p, c)
  <2> TAKE p \in 1 .. count, c \in 1 .. m
  <2>0. nf_read_page(p)[c] = nf_read_raw(p, c)
    BY DEF nf_read_page
  <2> HIDE DEF m
  <2> DEFINE x == (p - 1) * m + c
  <2>1. x \in 1 .. count * m /\ 1 + ((x - 1) \div m) = p /\ 1 + ((x - 1) % m) = c
    BY <1>0, PlaceOf
  <2>3. E[x] = nf_read_page(1 + ((x - 1) \div m))[1 + ((x - 1) % m)]
    BY <2>1
  <2> HIDE DEF x, E
  <2>5. E[x] = nf_read_raw(p, c)
    BY <2>0, <2>1, <2>3
  <2> QED
    BY <2>5 DEF x
<1> HIDE DEF a, E, m
<1>4. IsSeq(A, 1) /\ A[1] = a
  BY OneIsSeq
<1> HIDE DEF A
<1>5. IsJoined(Steps, A, 1, E, count * m)
  BY <1>1, <1>2, <1>4, Joined
<1>6. \A p \in 1 .. count, c \in 1 .. m : Steps[1 + ((p - 1) * m + c)] = nf_read_raw(p, c)
  <2> TAKE p \in 1 .. count, c \in 1 .. m
  <2>1. (p - 1) * m + c \in 1 .. count * m
    BY <1>0, PlaceOf
  <2> QED
    BY <1>3, <1>5, <2>1 DEF IsJoined
<1>7. IsSeq(Steps, 1 + count * m) /\ Steps[1] = a
  BY <1>4, <1>5 DEF IsJoined
<1> QED
  BY <1>6, <1>7 DEF a, m

\* An argument that is refused.
LEMMA ArgSteps ==
  ASSUME tool \in {"write", "read"}, count > TOOL_PAGES \/ (tool = "read" /\ count = 0)
  PROVE  IsSeq(Steps, 1) /\ Steps[1] = Op("arg", 0, 0, {"ARG"}, {}, 0)
<1> DEFINE a == Op("arg", 0, 0, {"ARG"}, {}, 0)
<1>1. Steps = <<a>>
  BY DEF Steps, nf_write, nf_read
<1> HIDE DEF a
<1>2. IsSeq(Steps, 1) /\ Steps[1] = a
  BY <1>1, OneIsSeq
<1> QED
  BY <1>2 DEF a

\* nand_copy.
LEMMA CopySteps ==
  ASSUME tool = "copy", count \in ToolPages
  PROVE  /\ IsSeq(Steps, 1 + count * TOOL_CHUNKS + 1) /\ Steps[1] = Simple("assign")
         /\ \A p \in 1 .. count, c \in 1 .. TOOL_CHUNKS :
              Steps[1 + ((p - 1) * TOOL_CHUNKS + c)] = Op("read", p, c, {"fill"}, {}, 2 + p * TOOL_CHUNKS)
         /\ Steps[1 + count * TOOL_CHUNKS + 1] = Simple("unassign")
<1> DEFINE m == TOOL_CHUNKS
           R(p, c) == Op("read", p, c, {"fill"}, {}, 2 + p * TOOL_CHUNKS)
           a == Simple("assign")
           A == <<a>>
           z == Simple("unassign")
           E == [k \in 1 .. count * m |->
                   [c \in 1 .. TOOL_CHUNKS |-> R(1 + ((k - 1) \div m), c)][1 + ((k - 1) % m)]]
<1>0. m \in Nat \ {0} /\ count \in Nat /\ count * m \in Nat
  BY NandToolsAssumption DEF ToolPages
<1>1. Steps = A \o E \o <<z>>
  BY <1>0 DEF Steps, nand_copy, Each
<1>2. IsSeq(E, count * m)
  BY <1>0 DEF IsSeq
<1>3. \A p \in 1 .. count, c \in 1 .. m : E[(p - 1) * m + c] = R(p, c)
  <2> TAKE p \in 1 .. count, c \in 1 .. m
  <2>0. [d \in 1 .. TOOL_CHUNKS |-> R(p, d)][c] = R(p, c)
    BY DEF m
  <2> HIDE DEF m, R
  <2> DEFINE x == (p - 1) * m + c
  <2>1. x \in 1 .. count * m /\ 1 + ((x - 1) \div m) = p /\ 1 + ((x - 1) % m) = c
    BY <1>0, PlaceOf
  <2>3. E[x] = [d \in 1 .. TOOL_CHUNKS |-> R(1 + ((x - 1) \div m), d)][1 + ((x - 1) % m)]
    BY <2>1
  <2> HIDE DEF x, E
  <2>5. E[x] = R(p, c)
    BY <2>0, <2>1, <2>3
  <2> QED
    BY <2>5 DEF x
<1> HIDE DEF a, z, E, m, R
<1>4. IsSeq(A, 1) /\ A[1] = a
  BY OneIsSeq
<1> HIDE DEF A
<1>50. IsBetween(Steps, A, 1, E, count * m, z)
  BY <1>1, <1>2, <1>4, Between
<1>5. /\ IsSeq(Steps, 1 + count * m + 1) /\ Steps[1 + count * m + 1] = z
      /\ Steps[1] = a /\ \A i \in 1 .. count * m : Steps[1 + i] = E[i]
  BY <1>4, <1>50 DEF IsBetween
<1>9. \A p \in 1 .. count, c \in 1 .. m : Steps[1 + ((p - 1) * m + c)] = R(p, c)
  <2> TAKE p \in 1 .. count, c \in 1 .. m
  <2>1. (p - 1) * m + c \in 1 .. count * m
    BY <1>0, PlaceOf
  <2> QED
    BY <1>3, <1>5, <2>1
<1> QED
  BY <1>5, <1>9 DEF a, z, m, R

\* nand_id.
LEMMA IdSteps ==
  ASSUME tool = "id"
  PROVE  /\ IsSeq(Steps, 2 + NF_PROBES + 1)
         /\ Steps[1] = Simple("assign") /\ Steps[2] = Op("id", 0, 0, {"1"}, {"assign"}, 0)
         /\ \A i \in 1 .. NF_PROBES : Steps[2 + i] = Op("header", 0, i, {"next"}, {}, 3 + i)
         /\ Steps[2 + NF_PROBES + 1] = Simple("unassign")
<1> DEFINE a == Simple("assign")
           b == Op("id", 0, 0, {"1"}, {"assign"}, 0)
           A == <<a, b>>
           z == Simple("unassign")
           E == [i \in 1 .. NF_PROBES |-> Op("header", 0, i, {"next"}, {}, 3 + i)]
<1>0. NF_PROBES \in Nat
  BY NandToolsAssumption
<1>1. Steps = A \o E \o <<z>>
  BY DEF Steps, nand_id
<1>2. IsSeq(E, NF_PROBES) /\ \A i \in 1 .. NF_PROBES : E[i] = Op("header", 0, i, {"next"}, {}, 3 + i)
  BY <1>0 DEF IsSeq
<1> HIDE DEF a, b, z, E
<1>3. IsSeq(A, 2) /\ A[1] = a /\ A[2] = b
  BY TwoIsSeq
<1> HIDE DEF A
<1>40. IsBetween(Steps, A, 2, E, NF_PROBES, z)
  BY <1>1, <1>2, <1>3, Between
<1>4. /\ IsSeq(Steps, 2 + NF_PROBES + 1) /\ Steps[2 + NF_PROBES + 1] = z
      /\ Steps[1] = a /\ Steps[2] = b /\ \A i \in 1 .. NF_PROBES : Steps[2 + i] = E[i]
  BY <1>3, <1>40 DEF IsBetween
<1> QED
  BY <1>2, <1>4 DEF a, b, z

\* nand_dump_min.
MinRead(c) == Op("read", 1, c, {IF c = TOOL_CHUNKS THEN "3" ELSE "2"}, {"assign"}, 0)

LEMMA MinSteps ==
  ASSUME tool = "min"
  PROVE  /\ count = 0 => IsSeq(Steps, 1) /\ Steps[1] = Simple("hwinit")
         /\ count # 0 =>
              /\ IsSeq(Steps, 1 + TOOL_CHUNKS + 1) /\ Steps[1] = Simple("assign")
              /\ \A c \in 1 .. TOOL_CHUNKS : Steps[1 + c] = MinRead(c)
              /\ Steps[1 + TOOL_CHUNKS + 1] = Simple("unassign")
<1> DEFINE a == Simple("assign")
           A == <<a>>
           h == Simple("hwinit")
           z == Simple("unassign")
           E == [c \in 1 .. TOOL_CHUNKS |-> MinRead(c)]
<1>0. TOOL_CHUNKS \in Nat
  BY NandToolsAssumption
<1>1. Steps = IF count = 0 THEN <<h>> ELSE A \o E \o <<z>>
  BY DEF Steps, nand_dump_min, MinRead
<1>2. IsSeq(E, TOOL_CHUNKS) /\ \A c \in 1 .. TOOL_CHUNKS : E[c] = MinRead(c)
  BY <1>0 DEF IsSeq
<1> HIDE DEF a, h, z, E
<1>3. IsSeq(A, 1) /\ A[1] = a /\ IsSeq(<<h>>, 1) /\ <<h>>[1] = h
  BY OneIsSeq
<1> HIDE DEF A
<1>4. CASE count = 0
  BY <1>1, <1>3, <1>4 DEF h
<1>5. CASE count # 0
  <2>0. IsBetween(Steps, A, 1, E, TOOL_CHUNKS, z)
    BY <1>1, <1>2, <1>3, <1>5, Between
  <2>1. /\ IsSeq(Steps, 1 + TOOL_CHUNKS + 1) /\ Steps[1 + TOOL_CHUNKS + 1] = z
        /\ Steps[1] = a /\ \A c \in 1 .. TOOL_CHUNKS : Steps[1 + c] = E[c]
    BY <1>3, <2>0 DEF IsBetween
  <2> QED
    BY <1>2, <1>5, <2>1 DEF a, z
<1> QED
  BY <1>4, <1>5

\* The probe that reads: a and b, n times a chunk or its check, z.
ReadOps(n) == (IF n = 3 THEN PROBE_ITERS ELSE 1) * (TOOL_CHUNKS * ECC_OPS(n))

LEMMA ProbeReadSteps ==
  ASSUME tool = "probe_read", count \in 0 .. 3
  PROVE  /\ ReadOps(count) \in Nat /\ IsSeq(Steps, 2 + ReadOps(count) + 1)
         /\ Steps[1] = Simple("assign") /\ Steps[2] = Op("id", 0, 0, {"FF"}, {"assign"}, 0)
         /\ \A i \in 1 .. ReadOps(count) : \E c \in 1 .. TOOL_CHUNKS :
              \/ Steps[2 + i] = Op("read", 1, c, {"seq", "l2", "dma"}, {"assign"}, 0)
              \/ Steps[2 + i] = Op("clean", 1, c, {"unclean"}, {"assign"}, 0)
         /\ Steps[2 + ReadOps(count) + 1] = Simple("unassign")
<1> DEFINE a == Simple("assign")
           b == Op("id", 0, 0, {"FF"}, {"assign"}, 0)
           A == <<a, b>>
           z == Simple("unassign")
           m == ECC_OPS(count)
           w == TOOL_CHUNKS * m
           n == IF count = 3 THEN PROBE_ITERS ELSE 1
           EccOps(c) == CASE count = 0 -> nf_read_raw_range(c) [] count = 1 -> nf_read_page_with_ecc(c)
                       [] OTHER -> nf_read_page_ecc_snapshot(c, count)
           I == [k \in 1 .. w |-> EccOps(1 + ((k - 1) \div m))[1 + ((k - 1) % m)]]
           E == [k \in 1 .. n * w |-> I[1 + ((k - 1) % w)]]
           R(c) == Op("read", 1, c, {"seq", "l2", "dma"}, {"assign"}, 0)
           C(c) == Op("clean", 1, c, {"unclean"}, {"assign"}, 0)
           Good(x) == \E c \in 1 .. TOOL_CHUNKS : x = R(c) \/ x = C(c)
<1>0. TOOL_CHUNKS \in Nat \ {0} /\ m \in Nat \ {0} /\ n \in Nat /\ w \in Nat \ {0} /\ n * w \in Nat
  BY NandToolsAssumption DEF ECC_OPS
<1>1. Steps = A \o E \o <<z>>
  BY DEF Steps, probe_read, Each
<1>2. IsSeq(E, n * w)
  BY <1>0 DEF IsSeq
<1>3. \A c \in 1 .. TOOL_CHUNKS : \A j \in 1 .. m : Good(EccOps(c)[j])
  <2> TAKE c \in 1 .. TOOL_CHUNKS
  <2> TAKE j \in 1 .. m
  <2>1. CASE count = 3
    <3>1. EccOps(c) = <<R(c)>> \o <<C(c)>> /\ m = 2
      BY <2>1 DEF nf_read_page_ecc_snapshot, nf_read_page_with_ecc, ECC_OPS
    <3> HIDE DEF R, C
    <3>2. IsSeq(<<R(c)>>, 1) /\ <<R(c)>>[1] = R(c) /\ IsSeq(<<C(c)>>, 1) /\ <<C(c)>>[1] = C(c)
      BY OneIsSeq
    <3>3. IsJoined(EccOps(c), <<R(c)>>, 1, <<C(c)>>, 1)
      BY <3>1, <3>2, Joined
    <3>4. EccOps(c)[1] = R(c) /\ EccOps(c)[1 + 1] = C(c)
      BY <3>2, <3>3 DEF IsJoined
    <3>5. j = 1 \/ j = 1 + 1
      BY <3>1
    <3> QED
      BY <3>4, <3>5
  <2>2. CASE count # 3
    <3>1. (EccOps(c) = <<R(c)>> \/ EccOps(c) = <<R(c)>> \o <<>>) /\ m = 1
      BY <2>2 DEF nf_read_page_ecc_snapshot, nf_read_page_with_ecc, nf_read_raw_range, ECC_OPS
    <3> HIDE DEF R, C
    <3>2. <<R(c)>> \o <<>> = <<R(c)>>
      OBVIOUS
    <3>3. EccOps(c)[j] = R(c)
      BY <3>1, <3>2
    <3> QED
      BY <3>3
  <2> QED
    BY <2>1, <2>2
<1> HIDE DEF m, n, EccOps, R, C
<1>4. \A k \in 1 .. w : Good(I[k])
  <2> TAKE k \in 1 .. w
  <2>1. PICK c \in 1 .. TOOL_CHUNKS, j \in 1 .. m : k = (c - 1) * m + j
    BY <1>0, PlaceIs
  <2>2. 1 + ((k - 1) \div m) = c /\ 1 + ((k - 1) % m) = j
    BY <1>0, <2>1, PlaceOf
  <2>3. I[k] = EccOps(c)[j]
    BY <2>2
  <2> QED
    BY <1>3, <2>1, <2>3
<1>5. \A k \in 1 .. n * w : Good(E[k])
  <2> TAKE k \in 1 .. n * w
  <2>1. 1 + ((k - 1) % w) \in 1 .. w
    <3> HIDE DEF w
    <3> QED
      BY <1>0
  <2> HIDE DEF Good, I
  <2> QED
    BY <1>4, <2>1
<1> HIDE DEF a, b, z, E, w, Good
<1>6. IsSeq(A, 2) /\ A[1] = a /\ A[2] = b
  BY TwoIsSeq
<1> HIDE DEF A
<1>70. IsBetween(Steps, A, 2, E, n * w, z)
  BY <1>1, <1>2, <1>6, Between
<1>7. /\ IsSeq(Steps, 2 + n * w + 1) /\ Steps[2 + n * w + 1] = z
      /\ Steps[1] = a /\ Steps[2] = b /\ \A i \in 1 .. n * w : Steps[2 + i] = E[i]
  BY <1>6, <1>70 DEF IsBetween
<1>8. \A i \in 1 .. n * w : Good(Steps[2 + i])
  BY <1>5, <1>7
<1>9. ReadOps(count) = n * w
  BY DEF ReadOps, n, w, m
<1> QED
  BY <1>0, <1>7, <1>8, <1>9 DEF a, b, z, Good, R, C

\* The probe that writes.
Wait(op, codes) == Op(op, 0, 0, codes, {}, 0)
Check(op, c, code) == Op(op, 1, c, {code}, {}, 0)

LEMMA ProbeWriteSteps ==
  ASSUME tool = "probe_write", count \in 0 .. 2
  PROVE  /\ IsSeq(Steps, CASE count = 0 -> 2 [] count = 1 -> 6 [] OTHER -> 6 + (PROGRAM_OPS + TOOL_CHUNKS + 1))
         /\ Steps[1] = Wait("status", {"SEQ_STATUS"}) /\ Steps[2] = Wait("protect", {"WP"})
         /\ count # 0 =>
              /\ Steps[3] = Wait("erase", {"SEQ_ERASE"}) /\ Steps[4] = Wait("status", {"SEQ_ERASE", "FAIL"})
              /\ Steps[5] = probe_read_raw(1, 1) /\ Steps[6] = Check("blank", 1, "NOT_BLANK")
         /\ count = 2 =>
              /\ \A k \in 1 .. PROGRAM_OPS : Steps[6 + k] = nf_program_page(1)[k]
              /\ \A c \in 1 .. TOOL_CHUNKS : Steps[6 + (PROGRAM_OPS + c)] = probe_read_raw(1, c)
              /\ Steps[6 + (PROGRAM_OPS + TOOL_CHUNKS + 1)] = Check("verify", 0, "VERIFY")
<1> DEFINE a == Wait("status", {"SEQ_STATUS"})
           b == Wait("protect", {"WP"})
           P == <<a, b>>
           c1 == Wait("erase", {"SEQ_ERASE"})
           c2 == Wait("status", {"SEQ_ERASE", "FAIL"})
           c3 == probe_read_raw(1, 1)
           c4 == Check("blank", 1, "NOT_BLANK")
           X == <<c1, c2>> \o <<c3, c4>>
           N == nf_program_page(1)
           E == [c \in 1 .. TOOL_CHUNKS |-> probe_read_raw(1, c)]
           z == Check("verify", 0, "VERIFY")
           Y == N \o E \o <<z>>
           n == PROGRAM_OPS + TOOL_CHUNKS + 1
<1>0. TOOL_CHUNKS \in Nat /\ PROGRAM_OPS \in Nat /\ n \in Nat
  BY NandToolsAssumption DEF PROGRAM_OPS
<1>1. Steps = P \o (IF count = 0 THEN <<>> ELSE X) \o (IF count < 2 THEN <<>> ELSE Y)
  BY DEF Steps, probe_write, probe_erase_block, probe_program_page, Wait, Check
<1>2. IsSeq(E, TOOL_CHUNKS) /\ \A c \in 1 .. TOOL_CHUNKS : E[c] = probe_read_raw(1, c)
  BY <1>0 DEF IsSeq
<1>3. IsSeq(N, PROGRAM_OPS)
  BY PageOps
<1> HIDE DEF a, b, c1, c2, c3, c4, N, E, z
<1>4. IsBetween(Y, N, PROGRAM_OPS, E, TOOL_CHUNKS, z)
  BY <1>2, <1>3, Between
<1>5. IsSeq(P, 2) /\ P[1] = a /\ P[2] = b
  BY TwoIsSeq
<1>6. IsSeq(X, 4) /\ X[1] = c1 /\ X[2] = c2 /\ X[3] = c3 /\ X[4] = c4
  <2>1. /\ IsSeq(<<c1, c2>>, 2) /\ <<c1, c2>>[1] = c1 /\ <<c1, c2>>[2] = c2
        /\ IsSeq(<<c3, c4>>, 2) /\ <<c3, c4>>[1] = c3 /\ <<c3, c4>>[2] = c4
    BY TwoIsSeq
  <2>2. IsJoined(X, <<c1, c2>>, 2, <<c3, c4>>, 2)
    BY <2>1, Joined
  <2> QED
    BY <2>1, <2>2 DEF IsJoined
<1>7. IsSeq(<<>>, 0)
  BY DEF IsSeq
<1> HIDE DEF P, X, Y, n
<1>8. CASE count = 0
  <2>1. Steps = P \o <<>> \o <<>>
    BY <1>1, <1>8
  <2>2. IsJoined(P \o <<>>, P, 2, <<>>, 0)
    BY <1>5, <1>7, Joined
  <2>3. IsSeq(P \o <<>>, 2) /\ (P \o <<>>)[1] = a /\ (P \o <<>>)[2] = b
    BY <1>5, <2>2 DEF IsJoined
  <2>4. IsJoined(Steps, P \o <<>>, 2, <<>>, 0)
    BY <1>7, <2>1, <2>3, Joined
  <2>5. IsSeq(Steps, 2) /\ Steps[1] = a /\ Steps[2] = b
    BY <2>3, <2>4 DEF IsJoined
  <2> QED
    BY <1>8, <2>5 DEF a, b
<1> DEFINE Q == P \o X
<1>9. /\ IsSeq(Q, 6) /\ Q[1] = a /\ Q[2] = b /\ Q[3] = c1 /\ Q[4] = c2 /\ Q[5] = c3 /\ Q[6] = c4
  <2>1. IsJoined(Q, P, 2, X, 4)
    BY <1>5, <1>6, Joined
  <2> HIDE DEF Q
  <2>2. 2 + 4 = 6 /\ 2 + 1 = 3 /\ 2 + 2 = 4 /\ 2 + 3 = 5
    OBVIOUS
  <2>3. \A i \in {1, 2, 3, 4} : Q[2 + i] = X[i]
    BY <2>1 DEF IsJoined
  <2> QED
    BY <1>5, <1>6, <2>1, <2>2, <2>3 DEF IsJoined
<1>10. CASE count = 1
  <2>1. Steps = Q \o <<>>
    BY <1>1, <1>10
  <2> HIDE DEF Q
  <2>2. IsJoined(Steps, Q, 6, <<>>, 0)
    BY <1>7, <1>9, <2>1, Joined
  <2>3. IsSeq(Steps, 6) /\ \A i \in 1 .. 6 : Steps[i] = Q[i]
    BY <2>2 DEF IsJoined
  <2>4. /\ Steps[1] = a /\ Steps[2] = b /\ Steps[3] = c1 /\ Steps[4] = c2 /\ Steps[5] = c3 /\ Steps[6] = c4
    BY <1>9, <2>3
  <2> QED
    BY <1>10, <2>3, <2>4 DEF a, b, c1, c2, c3, c4
<1>11. CASE count = 2
  <2>1. Steps = Q \o Y
    BY <1>1, <1>11
  <2> HIDE DEF Q
  <2>2. IsSeq(Y, n) /\ Y[n] = z
    BY <1>4 DEF IsBetween, n
  <2>3. IsJoined(Steps, Q, 6, Y, n)
    BY <1>9, <2>1, <2>2, Joined
  <2>4. IsSeq(Steps, 6 + n) /\ \A i \in 1 .. 6 : Steps[i] = Q[i]
    BY <2>3 DEF IsJoined
  <2>5. /\ Steps[1] = a /\ Steps[2] = b /\ Steps[3] = c1 /\ Steps[4] = c2 /\ Steps[5] = c3 /\ Steps[6] = c4
    BY <1>9, <2>4
  <2>6. \A i \in 1 .. n : Steps[6 + i] = Y[i]
    BY <2>3 DEF IsJoined
  <2>7. Steps[6 + n] = z
    BY <1>0, <2>2, <2>6 DEF n
  <2>8. \A k \in 1 .. PROGRAM_OPS : Steps[6 + k] = N[k]
    <3> TAKE k \in 1 .. PROGRAM_OPS
    <3>1. k \in 1 .. n
      BY <1>0 DEF n
    <3> QED
      BY <1>4, <2>6, <3>1 DEF IsBetween
  <2>9. \A c \in 1 .. TOOL_CHUNKS : Steps[6 + (PROGRAM_OPS + c)] = probe_read_raw(1, c)
    <3> TAKE c \in 1 .. TOOL_CHUNKS
    <3>1. PROGRAM_OPS + c \in 1 .. n
      BY <1>0 DEF n
    <3>2. Y[PROGRAM_OPS + c] = E[c]
      BY <1>4 DEF IsBetween
    <3> QED
      BY <1>2, <2>6, <3>1, <3>2
  <2> QED
    BY <1>11, <2>4, <2>5, <2>7, <2>8, <2>9 DEF a, b, c1, c2, c3, c4, n, N, z
<1> QED
  BY <1>8, <1>10, <1>11

-----------------------------------------------------------------------------
(* Where each program is, and what holds there.                            *)

Vals == {"old", "blank", "new", "bad", "part", "ones"}
Two == {TRUE, FALSE}
ToolNames == {"write", "read", "copy", "id", "min", "probe_write", "probe_read"}

ToolType ==
  /\ tool \in ToolNames /\ count \in Counts[tool] /\ at \in Nat \ {0}
  /\ cells \in [ToolPages -> Vals] /\ mem \in [ToolPages -> [1 .. TOOL_CHUNKS -> Vals]]
  /\ wp \in Two /\ refused \in Two /\ dir_write \in Two /\ assigned \in Two

\* What page p holds, on a chip that is not protected.
CellIs(p, x) == wp = FALSE => cells[p] = x

\* Page p and the chunks before c are in memory.
OldCells == \A p \in ToolPages : cells[p] = "old"
IsOld(p) == \A c \in 1 .. TOOL_CHUNKS : mem[p][c] = "old"
IsOnes(p) == \A c \in 1 .. TOOL_CHUNKS : mem[p][c] = "ones"
OldBefore(p, c) == \A d \in 1 .. TOOL_CHUNKS : d < c => mem[p][d] = "old"

\* nf_program_page at its operation k.
InProgram(p, k) ==
  /\ k \notin 2 .. TOOL_CHUNKS + 4 => dir_write = FALSE
  /\ k <= TOOL_CHUNKS + 3 => CellIs(p, "blank")
  /\ k \in 3 .. TOOL_CHUNKS + 3 => pagereg = k - 3
  /\ k > TOOL_CHUNKS + 3 => refused \/ CellIs(p, "new")
OthersAre(p) == \A q \in ToolPages : (q < p => CellIs(q, "new")) /\ (q > p => CellIs(q, "blank"))

WriteAt ==
  /\ assigned = FALSE
  /\ \/ at = 1 /\ dir_write = FALSE
     \/ at = 2 /\ dir_write = FALSE /\ (refused = FALSE => \A q \in ToolPages : CellIs(q, "blank"))
     \/ \E p \in 1 .. count, k \in 1 .. PROGRAM_OPS :
          at = 2 + ((p - 1) * PROGRAM_OPS + k) /\ OthersAre(p) /\ InProgram(p, k)

ReadAt ==
  /\ assigned = FALSE /\ dir_write = FALSE /\ OldCells
  /\ \/ at = 1
     \/ \E p \in 1 .. count, c \in 1 .. TOOL_CHUNKS :
          /\ at = 1 + ((p - 1) * TOOL_CHUNKS + c)
          /\ (\A q \in ToolPages : q < p => IsOld(q)) /\ OldBefore(p, c)

\* The first n pages of a dump.
Dumped(n) ==
  /\ \A q \in 1 .. n : IsOld(q) \/ IsOnes(q)
  /\ errs = Cardinality({q \in 1 .. n : IsOnes(q)})

CopyAt ==
  /\ dir_write = FALSE /\ OldCells
  /\ \/ at = 1 /\ errs = 0
     \/ \E p \in 1 .. count, c \in 1 .. TOOL_CHUNKS :
          at = 1 + ((p - 1) * TOOL_CHUNKS + c) /\ Dumped(p - 1) /\ OldBefore(p, c)
     \/ at = 1 + count * TOOL_CHUNKS + 1 /\ Dumped(count)

\* nand_id, nand_dump_min and the probe that reads.
AssignedAt == dir_write = FALSE

ProbeWriteAt ==
  /\ assigned = FALSE /\ (at - 6 \notin 2 .. TOOL_CHUNKS + 4 => dir_write = FALSE)
  /\ \A c \in 1 .. TOOL_CHUNKS : c < at - 6 - PROGRAM_OPS => mem[1][c] = cells[1]

ToolAt ==
  /\ at = 1 => dir_write = FALSE /\ assigned = FALSE /\ bound = FALSE
  /\ tool = "write" /\ ~(count > TOOL_PAGES) => WriteAt
  /\ tool = "read" /\ ~(count = 0 \/ count > TOOL_PAGES) => ReadAt
  /\ tool = "copy" => CopyAt
  /\ tool \in {"id", "min", "probe_read"} => AssignedAt
  /\ tool = "probe_write" => ProbeWriteAt

NandInv ==
  /\ ToolType
  /\ ToolRuns => result.rc = None /\ ToolAt
  /\ ~ToolRuns => NandReportIsTrue

-----------------------------------------------------------------------------
(* Steps.                                                                  *)

LEMMA CountOf ==
  ASSUME ToolType
  PROVE  /\ TOOL_PAGES \in Nat \ {0} /\ TOOL_CHUNKS \in Nat \ {0} /\ count \in Nat
         /\ tool \in {"write", "read"} => count \in 0 .. TOOL_PAGES + 1
         /\ tool = "copy" => count \in ToolPages
         /\ tool = "probe_write" => count \in 0 .. 2
         /\ tool = "probe_read" => count \in 0 .. 3
         /\ tool = "min" => count \in 0 .. 1
         /\ tool = "id" => count = 0
<1>1. TOOL_PAGES \in Nat \ {0} /\ TOOL_CHUNKS \in Nat \ {0}
  BY NandToolsAssumption
<1> QED
  BY <1>1 DEF ToolType, ToolNames, Counts, ToolPages

\* The program stays.
LEMMA StepsStay ==
  ASSUME NandToolsNext
  PROVE  /\ tool' = tool /\ count' = count /\ wp' = wp /\ opts' = opts /\ Steps' = Steps /\ ToolRuns
         /\ (ToolRuns' <=> at' <= Len(Steps))
<1>1. tool' = tool /\ count' = count /\ wp' = wp /\ opts' = opts /\ ToolRuns
  BY DEF NandToolsNext, OpDone, OpFails
<1>2. Steps' = Steps
  BY <1>1 DEF Steps
<1> QED
  BY <1>1, <1>2 DEF ToolRuns

\* No result is no claim.
LEMMA NoResult == result.rc = None => NandReportIsTrue
  BY DEF None, NandReportIsTrue, WrittenIsReported, FailIsPrefix, DumpIsHonest, BoardIsAsFound

LEMMA NandInvInit == NandToolsInit => NandInv
<1> SUFFICES ASSUME NandToolsInit PROVE NandInv
  OBVIOUS
<1>1. tool \in ToolNames /\ count \in Counts[tool]
  <2>1. DOMAIN Counts = ToolNames
    BY DEF Counts, ToolNames
  <2> QED
    BY <2>1 DEF NandToolsInit
<1>2. /\ cells \in [ToolPages -> Vals] /\ mem \in [ToolPages -> [1 .. TOOL_CHUNKS -> Vals]]
      /\ wp \in Two /\ refused \in Two /\ dir_write \in Two /\ assigned \in Two /\ at \in Nat \ {0}
  <2>1. BOOLEAN = Two
    BY DEF Two
  <2>2. wp \in Two
    BY <2>1 DEF NandToolsInit
  <2>3. FALSE \in Two
    BY DEF Two
  <2>4. refused \in Two /\ dir_write \in Two /\ assigned \in Two
    BY <2>3 DEF NandToolsInit
  <2> QED
    BY <2>2, <2>4 DEF NandToolsInit, Vals
<1>3. ToolType
  BY <1>1, <1>2 DEF ToolType
<1>4. result.rc = None
  BY DEF NandToolsInit
<1>5. ToolAt
  <2>1. tool = "write" => WriteAt
    BY DEF NandToolsInit, WriteAt
  <2>2. tool = "read" => ReadAt
    BY DEF NandToolsInit, ReadAt, OldCells
  <2>3. tool = "copy" => CopyAt
    BY DEF NandToolsInit, CopyAt, OldCells
  <2>4. AssignedAt
    BY DEF NandToolsInit, AssignedAt
  <2>5. ProbeWriteAt
    <3>1. 1 - 6 \notin 2 .. TOOL_CHUNKS + 4 /\ \A c \in 1 .. TOOL_CHUNKS : ~(c < 1 - 6 - PROGRAM_OPS)
      BY <1>3, CountOf DEF PROGRAM_OPS
    <3> QED
      BY <3>1 DEF NandToolsInit, ProbeWriteAt
  <2> QED
    BY <2>1, <2>2, <2>3, <2>4, <2>5 DEF ToolAt, NandToolsInit
<1> QED
  BY <1>3, <1>4, <1>5, NoResult DEF NandInv

\* An operation that is not the header of nand_id and ends.
LEMMA Ends ==
  ASSUME NEW ok, OpDone(ok), Current.op # "header"
  PROVE  /\ at' = at + 1 /\ ToolFails = FALSE
         /\ at + 1 <= Len(Steps) => result' = result
         /\ ~(at + 1 <= Len(Steps)) => result' = [rc |-> IF errs > 0 THEN "errors" ELSE "ok", fail |-> count]
  BY DEF OpDone

\* What the chip and memory keep.
LEMMA KeepsFlash ==
  ASSUME NEW ok, ChipWorks(ok), Current.op \notin {"erase", "start", "chunk", "confirm"}
  PROVE  cells' = cells /\ pagereg' = pagereg /\ refused' = refused
  BY DEF ChipWorks

\* An operation that fails.
LEMMA Undone ==
  ASSUME ToolType, NEW code, OpFails(code)
  PROVE  /\ dir_write' \in Two /\ assigned' \in Two
         /\ "dir" \in Current.undo \/ dir_write = FALSE => dir_write' = FALSE
         /\ "assign" \in Current.undo \/ assigned = FALSE => assigned' = FALSE
         /\ "assign" \in Current.undo => bound' = FALSE
<1>1. dir_write' = (dir_write /\ "dir" \notin Current.undo) /\ assigned' = (assigned /\ "assign" \notin Current.undo)
  BY DEF OpFails
<1>2. dir_write \in Two /\ assigned \in Two
  BY DEF ToolType
<1>3. "assign" \in Current.undo => bound' = FALSE
  BY DEF OpFails
<1> QED
  BY <1>1, <1>2, <1>3, Zenon DEF Two

LEMMA FailsToEnd ==
  ASSUME NEW code, OpFails(code), Current.to = 0
  PROVE  at' = Len(Steps) + 1 /\ result' = [rc |-> code, fail |-> FailIndex] /\ code \in Current.codes
  BY DEF OpFails

\* The bits that an operation that ends sets.
LEMMA DoneBits ==
  ASSUME NEW ok, OpDone(ok)
  PROVE  /\ Current.op = "undir" => dir_write' = FALSE
         /\ Current.op = "dir" => dir_write' = TRUE
         /\ Current.op \notin {"dir", "undir"} => dir_write' = dir_write
         /\ Current.op = "unassign" => assigned' = FALSE /\ bound' = FALSE
         /\ Current.op = "hwinit" /\ bound = FALSE => bound' = FALSE
         /\ Current.op = "assign" => assigned' = TRUE
         /\ Current.op \notin {"assign", "unassign"} => assigned' = assigned
  BY DEF OpDone, Binds

LEMMA FlashType ==
  ASSUME ToolType, NEW ok \in BOOLEAN, ChipWorks(ok), Current.op = "confirm" => Current.p \in ToolPages
  PROVE  cells' \in [ToolPages -> Vals] /\ refused' \in Two
<1>1. refused' \in Two
  <2>1. refused' \in {TRUE, FALSE} \/ refused' = ~ok \/ refused' = refused
    BY DEF ChipWorks
  <2>2. refused \in Two
    BY DEF ToolType
  <2> QED
    BY <2>1, <2>2, Zenon DEF Two
<1>2. CASE Current.op = "erase"
  BY <1>1, <1>2 DEF ChipWorks, Erased, ToolType, Vals
<1>3. CASE Current.op = "confirm"
  <2>1. cells' \in Programmed(ok)
    BY <1>3 DEF ChipWorks
  <2>2. cells \in [ToolPages -> Vals] /\ cells[Current.p] \in Vals
    BY <1>3 DEF ToolType
  <2>3. cells' = cells \/ \E x \in {"new", "bad", cells[Current.p]} : cells' = [cells EXCEPT ![Current.p] = x]
    BY <2>1 DEF Programmed
  <2> QED
    BY <1>1, <2>2, <2>3 DEF Vals
<1>4. CASE Current.op \notin {"erase", "confirm"}
  BY <1>1, <1>4 DEF ChipWorks, ToolType
<1> QED
  BY <1>2, <1>3, <1>4

LEMMA TypeKeeps ==
  ASSUME ToolType, NandToolsNext, Current.op \in {"read", "confirm"} => Current.p \in ToolPages, at' \in Nat \ {0}
  PROVE  ToolType'
<1>1. CASE \E ok \in BOOLEAN : OpDone(ok)
  <2> PICK ok \in BOOLEAN : OpDone(ok)
    BY <1>1
  <2>1. cells' \in [ToolPages -> Vals] /\ refused' \in Two
    BY FlashType DEF OpDone
  <2>2. mem' \in [ToolPages -> [1 .. TOOL_CHUNKS -> Vals]]
    <3>1. Current.op = "read" => cells[Current.p] \in Vals
      BY DEF ToolType
    <3>2. mem' = IF Current.op = "read" THEN [mem EXCEPT ![Current.p][Current.c] = cells[Current.p]] ELSE mem
      BY DEF OpDone
    <3> QED
      BY <3>1, <3>2 DEF ToolType
  <2>3. dir_write' \in Two /\ assigned' \in Two
    <3>1. TRUE \in Two /\ FALSE \in Two
      BY DEF Two
    <3>2. dir_write \in Two /\ assigned \in Two
      BY DEF ToolType
    <3> QED
      BY <3>1, <3>2, DoneBits
  <2> QED
    BY <2>1, <2>2, <2>3, StepsStay DEF ToolType
<1>2. CASE \E code \in Current.codes : OpFails(code)
  <2> PICK code \in Current.codes : OpFails(code)
    BY <1>2
  <2>1. cells' \in [ToolPages -> Vals] /\ refused' \in Two
    <3>1. ChipWorks(FALSE)
      BY DEF OpFails
    <3> QED
      BY <3>1, FlashType
  <2>2. mem' \in [ToolPages -> [1 .. TOOL_CHUNKS -> Vals]]
    <3>1. \/ mem' = [mem EXCEPT ![Current.p] = [c \in 1 .. TOOL_CHUNKS |-> "ones"]]
          \/ mem' = [mem EXCEPT ![Current.p][Current.c] = "part"] \/ mem' = mem
      BY DEF OpFails, Fill
    <3>2. "part" \in Vals /\ [c \in 1 .. TOOL_CHUNKS |-> "ones"] \in [1 .. TOOL_CHUNKS -> Vals]
      BY DEF Vals
    <3>3. mem \in [ToolPages -> [1 .. TOOL_CHUNKS -> Vals]]
      BY DEF ToolType
    <3> DEFINE ones == [c \in 1 .. TOOL_CHUNKS |-> "ones"]
    <3>4. ones \in [1 .. TOOL_CHUNKS -> Vals]
      BY <3>2
    <3>5. mem' = [mem EXCEPT ![Current.p] = ones] \/ mem' = [mem EXCEPT ![Current.p][Current.c] = "part"] \/ mem' = mem
      BY <3>1
    <3> HIDE DEF ones
    <3>6. [mem EXCEPT ![Current.p] = ones] \in [ToolPages -> [1 .. TOOL_CHUNKS -> Vals]]
      BY <3>3, <3>4
    <3>7. [mem EXCEPT ![Current.p][Current.c] = "part"] \in [ToolPages -> [1 .. TOOL_CHUNKS -> Vals]]
      BY <3>2, <3>3
    <3> QED
      BY <3>3, <3>5, <3>6, <3>7
  <2>3. dir_write' \in Two /\ assigned' \in Two
    BY Undone
  <2> QED
    BY <2>1, <2>2, <2>3, StepsStay DEF ToolType
<1> QED
  BY <1>1, <1>2 DEF NandToolsNext

\* A program that has ended.
LEMMA EndKeeps ==
  ASSUME ToolType', ~ToolRuns', NandReportIsTrue'
  PROVE  NandInv'
  BY DEF NandInv

LEMMA RunKeeps ==
  ASSUME ToolType', result'.rc = None, ToolAt'
  PROVE  NandInv'
<1>1. NandReportIsTrue'
  BY DEF None, NandReportIsTrue, WrittenIsReported, FailIsPrefix, DumpIsHonest, BoardIsAsFound
<1> QED
  BY <1>1 DEF NandInv

\* A refused argument.
LEMMA ArgKeeps ==
  ASSUME NandInv, NandToolsNext, tool \in {"write", "read"}, count > TOOL_PAGES \/ (tool = "read" /\ count = 0)
  PROVE  NandInv'
<1>1. Len(Steps) = 1 /\ Steps[1] = Op("arg", 0, 0, {"ARG"}, {}, 0)
  BY ArgSteps, SeqIs
<1>2. at = 1 /\ ToolRuns /\ tool' = tool /\ count' = count /\ wp' = wp /\ (ToolRuns' <=> at' <= Len(Steps))
  BY <1>1, StepsStay DEF NandInv, ToolType, ToolRuns
<1>3. Current = Op("arg", 0, 0, {"ARG"}, {}, 0)
  BY <1>1, <1>2 DEF Current
<1>4. ~OpDone(TRUE) /\ ~OpDone(FALSE)
  BY <1>3 DEF OpDone, ToolFails, Op
<1>5. OpFails("ARG")
  BY <1>3, <1>4 DEF NandToolsNext, Op
<1>6. /\ result' = [rc |-> "ARG", fail |-> 0] /\ at' = 2 /\ mem' = mem /\ cells' = cells /\ refused' = refused
  <2>1. ChipWorks(FALSE)
    BY <1>5 DEF OpFails
  <2>2. Current.op = "arg" /\ Current.p = 0 /\ Current.to = 0
    BY <1>3 DEF Op
  <2>3. cells' = cells /\ refused' = refused
    BY <2>1, <2>2, KeepsFlash
  <2> QED
    BY <1>1, <1>5, <2>2, <2>3 DEF OpFails, FailIndex
<1>7. dir_write' = FALSE /\ assigned' = FALSE
  BY <1>2, <1>5, Undone DEF NandInv, ToolAt
<1>8. NandReportIsTrue'
  <2>1. WrittenIsReported' /\ FailIsPrefix'
    BY <1>6 DEF WrittenIsReported, FailIsPrefix
  <2>2. DumpIsHonest'
    BY <1>2, <1>6 DEF DumpIsHonest
  <2>3. BoardIsAsFound'
    BY <1>2, <1>6, <1>7 DEF BoardIsAsFound
  <2> QED
    BY <2>1, <2>2, <2>3 DEF NandReportIsTrue
<1>9. ToolType'
  <2>1. dir_write' \in Two /\ assigned' \in Two
    BY <1>5, Undone DEF NandInv
  <2> QED
    BY <1>2, <1>6, <2>1 DEF NandInv, ToolType
<1>10. ~ToolRuns'
  BY <1>1, <1>2, <1>6
<1> QED
  BY <1>8, <1>9, <1>10 DEF NandInv

\* The programs that only read and give L2_ASSIGN back: what they need is
\* that an operation that can end the program undoes the assignment.
LEMMA AssignKeeps ==
  ASSUME NandInv, NandToolsNext, tool \in {"id", "min", "probe_read"}, Len(Steps) \in Nat \ {0},
         Current.op \notin {"dir", "undir", "erase", "confirm"}, Current.op = "read" => Current.p \in ToolPages,
         at = Len(Steps) => Current.op = "unassign" \/ (Current.op = "hwinit" /\ at = 1),
         Current.codes # {} => IF Current.to = 0 THEN "assign" \in Current.undo ELSE Current.to \in 2 .. Len(Steps)
  PROVE  NandInv'
<1>0. /\ ToolRuns /\ at \in Nat \ {0} /\ at <= Len(Steps) /\ dir_write = FALSE /\ tool' = tool
      /\ at = 1 => assigned = FALSE /\ bound = FALSE
      /\ result.rc = None /\ ToolType
  BY StepsStay DEF NandInv, ToolAt, AssignedAt, ToolType, ToolRuns
<1>1. (ToolRuns' <=> at' <= Len(Steps))
  BY StepsStay
<1>e. ASSUME ToolType', dir_write' = FALSE, assigned' = FALSE, bound' = FALSE, ~ToolRuns'
      PROVE  NandInv'
  <2>1. NandReportIsTrue'
    BY <1>0, <1>e DEF NandReportIsTrue, WrittenIsReported, FailIsPrefix, DumpIsHonest, BoardIsAsFound
  <2> QED
    BY <1>e, <2>1, EndKeeps
<1>r. ASSUME ToolType', dir_write' = FALSE, at' # 1, result' = result
      PROVE  NandInv'
  <2>1. ToolAt'
    BY <1>0, <1>r DEF ToolAt, AssignedAt
  <2> QED
    BY <1>0, <1>r, <2>1, RunKeeps
<1>2. CASE \E ok \in BOOLEAN : OpDone(ok)
  <2> PICK ok \in BOOLEAN : OpDone(ok)
    BY <1>2
  <2>1. dir_write' = FALSE
    BY <1>0, DoneBits
  <2>2. CASE at' <= Len(Steps)
    <3>1. at' \in Nat \ {0} /\ at' # 1 /\ result' = result
      <4>1. at' = at + 1 \/ (at' = Len(Steps) /\ at # Len(Steps))
        BY DEF OpDone
      <4>2. result' = result
        BY <2>2 DEF OpDone
      <4> QED
        BY <1>0, <4>1, <4>2
    <3>2. ToolType'
      BY <1>0, <3>1, TypeKeeps
    <3> QED
      BY <1>r, <2>1, <3>1, <3>2
  <2>3. CASE ~(at' <= Len(Steps))
    <3>1. at' = at + 1 /\ at = Len(Steps)
      BY <1>0, <2>3 DEF OpDone
    <3>2. assigned' = FALSE /\ bound' = FALSE
      BY <1>0, <3>1, DoneBits
    <3>3. ToolType'
      BY <1>0, <3>1, TypeKeeps
    <3> QED
      BY <1>e, <1>1, <2>1, <2>3, <3>2, <3>3
  <2> QED
    BY <2>2, <2>3
<1>3. CASE \E code \in Current.codes : OpFails(code)
  <2> PICK code \in Current.codes : OpFails(code)
    BY <1>3
  <2>1. dir_write' = FALSE
    BY <1>0, Undone
  <2>2. CASE Current.to = 0
    <3>1. at' = Len(Steps) + 1 /\ assigned' = FALSE /\ bound' = FALSE
      BY <1>0, <2>2, FailsToEnd, Undone
    <3>2. ToolType' /\ ~(at' <= Len(Steps))
      BY <1>0, <3>1, TypeKeeps
    <3> QED
      BY <1>e, <1>1, <2>1, <3>1, <3>2
  <2>3. CASE Current.to # 0
    <3>1. at' = Current.to /\ Current.to \in 2 .. Len(Steps) /\ result' = result
      BY <2>3 DEF OpFails
    <3>2. at' \in Nat \ {0} /\ at' # 1
      BY <3>1
    <3>3. ToolType'
      BY <1>0, <3>2, TypeKeeps
    <3> QED
      BY <1>r, <2>1, <3>1, <3>2, <3>3
  <2> QED
    BY <2>2, <2>3
<1> QED
  BY <1>2, <1>3 DEF NandToolsNext

LEMMA IdKeeps ==
  ASSUME NandInv, NandToolsNext, tool = "id"
  PROVE  NandInv'
<1>1. Len(Steps) = 2 + NF_PROBES + 1 /\ NF_PROBES \in Nat
  BY IdSteps, SeqIs, NandToolsAssumption
<1>2. at \in 1 .. Len(Steps) /\ Current = Steps[at]
  BY <1>1, StepsStay DEF NandInv, ToolType, ToolRuns, Current
<1>3. \/ at = 1 /\ Current = Simple("assign")
      \/ at = 2 /\ Current = Op("id", 0, 0, {"1"}, {"assign"}, 0)
      \/ \E i \in 1 .. NF_PROBES : at = 2 + i /\ Current = Op("header", 0, i, {"next"}, {}, 3 + i)
      \/ at = Len(Steps) /\ Current = Simple("unassign")
  <2>1. at = 1 \/ at = 2 \/ at - 2 \in 1 .. NF_PROBES \/ at = Len(Steps)
    BY <1>1, <1>2
  <2>2. at - 2 \in 1 .. NF_PROBES => at = 2 + (at - 2)
    BY <1>1, <1>2
  <2> QED
    BY <1>1, <1>2, <2>1, <2>2, IdSteps
<1>4. /\ Current.op \notin {"dir", "undir", "erase", "confirm"} /\ Current.op # "read"
      /\ at = Len(Steps) => Current.op = "unassign"
      /\ Current.codes # {} => IF Current.to = 0 THEN "assign" \in Current.undo ELSE Current.to \in 2 .. Len(Steps)
  BY <1>1, <1>3 DEF Simple, Op
<1> QED
  BY <1>1, <1>4, AssignKeeps

LEMMA MinKeeps ==
  ASSUME NandInv, NandToolsNext, tool = "min"
  PROVE  NandInv'
<1>0. TOOL_CHUNKS \in Nat /\ 1 \in ToolPages
  BY NandToolsAssumption DEF ToolPages
<1>1. Len(Steps) = IF count = 0 THEN 1 ELSE 1 + TOOL_CHUNKS + 1
  <2>1. CASE count = 0
    BY <2>1, MinSteps, SeqIs
  <2>2. CASE count # 0
    BY <2>2, MinSteps, SeqIs
  <2> QED
    BY <2>1, <2>2
<1>2. at \in 1 .. Len(Steps) /\ Current = Steps[at]
  BY <1>0, <1>1, StepsStay DEF NandInv, ToolType, ToolRuns, Current
<1>3. \/ at = 1 /\ Current = Simple("assign") /\ Len(Steps) # 1
      \/ at = 1 /\ Current = Simple("hwinit")
      \/ \E c \in 1 .. TOOL_CHUNKS : at = 1 + c /\ Current = MinRead(c) /\ Len(Steps) = 1 + TOOL_CHUNKS + 1
      \/ at = Len(Steps) /\ Current = Simple("unassign")
  <2>1. count # 0 => at = 1 \/ at - 1 \in 1 .. TOOL_CHUNKS \/ at = Len(Steps)
    BY <1>0, <1>1, <1>2
  <2>2. at - 1 \in 1 .. TOOL_CHUNKS => at = 1 + (at - 1)
    BY <1>0, <1>2
  <2>3. CASE count = 0
    BY <1>1, <1>2, <2>3, MinSteps
  <2>4. CASE count # 0
    BY <1>0, <1>1, <1>2, <2>1, <2>2, <2>4, MinSteps
  <2> QED
    BY <2>3, <2>4
<1>4. /\ Current.op \notin {"dir", "undir", "erase", "confirm"} /\ (Current.op = "read" => Current.p \in ToolPages)
      /\ at = Len(Steps) => Current.op = "unassign" \/ (Current.op = "hwinit" /\ at = 1)
      /\ Current.codes # {} => IF Current.to = 0 THEN "assign" \in Current.undo ELSE Current.to \in 2 .. Len(Steps)
  BY <1>0, <1>1, <1>3 DEF Simple, Op, MinRead
<1> QED
  BY <1>0, <1>1, <1>4, AssignKeeps

LEMMA ProbeReadKeeps ==
  ASSUME NandInv, NandToolsNext, tool = "probe_read"
  PROVE  NandInv'
<1>0. count \in 0 .. 3 /\ 1 \in ToolPages
  BY CountOf, NandToolsAssumption DEF NandInv, ToolPages
<1>1. Len(Steps) = 2 + ReadOps(count) + 1 /\ ReadOps(count) \in Nat
  BY <1>0, ProbeReadSteps, SeqIs
<1>2. at \in 1 .. Len(Steps) /\ Current = Steps[at]
  BY <1>1, StepsStay DEF NandInv, ToolType, ToolRuns, Current
<1>3. \/ at = 1 /\ Current = Simple("assign")
      \/ at = 2 /\ Current = Op("id", 0, 0, {"FF"}, {"assign"}, 0)
      \/ at # Len(Steps) /\ \E c \in 1 .. TOOL_CHUNKS :
              \/ Current = Op("read", 1, c, {"seq", "l2", "dma"}, {"assign"}, 0)
              \/ Current = Op("clean", 1, c, {"unclean"}, {"assign"}, 0)
      \/ at = Len(Steps) /\ Current = Simple("unassign")
  <2>1. at = 1 \/ at = 2 \/ (at - 2 \in 1 .. ReadOps(count) /\ at # Len(Steps)) \/ at = Len(Steps)
    BY <1>1, <1>2
  <2>2. at - 2 \in 1 .. ReadOps(count) => at = 2 + (at - 2)
    BY <1>1, <1>2
  <2>3. CASE at - 2 \in 1 .. ReadOps(count) /\ at # Len(Steps)
    BY <1>0, <1>2, <2>2, <2>3, ProbeReadSteps
  <2> QED
    BY <1>0, <1>1, <1>2, <2>1, <2>3, ProbeReadSteps
<1>4. /\ Current.op \notin {"dir", "undir", "erase", "confirm"} /\ (Current.op = "read" => Current.p \in ToolPages)
      /\ at = Len(Steps) => Current.op = "unassign"
      /\ Current.codes # {} => IF Current.to = 0 THEN "assign" \in Current.undo ELSE Current.to \in 2 .. Len(Steps)
  BY <1>0, <1>1, <1>3 DEF Simple, Op
<1> QED
  BY <1>1, <1>4, AssignKeeps

\* nf_read.
LEMMA ReadKeeps ==
  ASSUME NandInv, NandToolsNext, tool = "read", count \in 1 .. TOOL_PAGES
  PROVE  NandInv'
<1> DEFINE m == TOOL_CHUNKS
<1>0. m \in Nat \ {0} /\ TOOL_PAGES \in Nat /\ 1 .. count \subseteq ToolPages /\ count * m \in Nat
  BY NandToolsAssumption DEF ToolPages
<1>1. Len(Steps) = 1 + count * m
  BY ReadSteps, SeqIs
<1>2. /\ ToolRuns /\ ToolType /\ at \in Nat \ {0} /\ result.rc = None /\ ReadAt
      /\ tool' = tool /\ count' = count /\ (ToolRuns' <=> at' <= Len(Steps)) /\ Current = Steps[at]
  <2>1. ~(count = 0 \/ count > TOOL_PAGES)
    BY <1>0
  <2> QED
    BY <2>1, StepsStay DEF NandInv, ToolType, ToolAt, Current
<1>3. Current.op \in {"id", "read"} => dir_write' = FALSE /\ assigned' = FALSE /\ cells' = cells
  <2> SUFFICES ASSUME Current.op \in {"id", "read"} PROVE dir_write' = FALSE /\ assigned' = FALSE /\ cells' = cells
    OBVIOUS
  <2>1. dir_write = FALSE /\ assigned = FALSE
    BY <1>2 DEF ReadAt
  <2>2. CASE \E ok \in BOOLEAN : OpDone(ok)
    <3> PICK ok \in BOOLEAN : OpDone(ok)
      BY <2>2
    <3>1. cells' = cells
      BY KeepsFlash DEF OpDone
    <3> QED
      BY <2>1, <3>1, DoneBits
  <2>3. CASE \E code \in Current.codes : OpFails(code)
    <3> PICK code \in Current.codes : OpFails(code)
      BY <2>3
    <3>1. ChipWorks(FALSE)
      BY DEF OpFails
    <3>2. cells' = cells
      BY <3>1, KeepsFlash
    <3> QED
      BY <1>2, <2>1, <3>2, Undone
  <2> QED
    BY <2>2, <2>3 DEF NandToolsNext
<1>e. ASSUME Current.op \in {"id", "read"}, Current.op = "read" => Current.p \in ToolPages, ~(at' <= Len(Steps)), at' \in Nat \ {0},
             \A q \in ToolPages : q <= result'.fail => IsOld(q)', result'.fail \in 0 .. count
      PROVE  NandInv'
  <2>1. ToolType'
    BY <1>2, <1>e, TypeKeeps
  <2>2. DumpIsHonest'
    <3>1. \A q \in 1 .. result'.fail : q \in ToolPages /\ q <= result'.fail
      BY <1>0, <1>e
    <3>2. \A q \in 1 .. result'.fail : \A c \in 1 .. TOOL_CHUNKS : mem'[q][c] = "old"
      BY <1>e, <3>1 DEF IsOld
    <3> QED
      BY <1>2, <3>2 DEF DumpIsHonest
  <2>3. WrittenIsReported' /\ FailIsPrefix' /\ BoardIsAsFound'
    BY <1>2, <1>3, <1>e DEF WrittenIsReported, FailIsPrefix, BoardIsAsFound
  <2> QED
    BY <1>2, <1>e, <2>1, <2>2, <2>3, EndKeeps DEF NandReportIsTrue
<1>r. ASSUME Current.op \in {"id", "read"}, Current.op = "read" => Current.p \in ToolPages, result' = result,
             NEW p \in 1 .. count, NEW c \in 1 .. m, at' = 1 + ((p - 1) * m + c), OldBefore(p, c)',
             \A q \in ToolPages : q < p => IsOld(q)'
      PROVE  NandInv'
  <2>1. (p - 1) * m + c \in 1 .. count * m
    BY <1>0, PlaceOf
  <2>2. at' \in Nat \ {0} /\ at' # 1
    BY <1>r, <2>1
  <2>3. ToolType'
    BY <1>2, <1>r, <2>2, TypeKeeps
  <2>4. OldCells'
    BY <1>2, <1>3, <1>r DEF ReadAt, OldCells
  <2>5. ReadAt'
    BY <1>2, <1>3, <1>r, <2>4 DEF ReadAt
  <2>6. ToolAt'
    BY <1>2, <2>2, <2>5 DEF ToolAt
  <2> QED
    BY <1>2, <1>r, <2>3, <2>6, RunKeeps
<1>4. CASE at = 1
  <2>1. Current = Op("id", 0, 0, {"SEQ"}, {}, 0)
    BY <1>2, <1>4, ReadSteps
  <2>2. Current.op = "id" /\ Current.p = 0 /\ Current.to = 0
    BY <2>1 DEF Op
  <2>3. CASE \E ok \in BOOLEAN : OpDone(ok)
    <3> PICK ok \in BOOLEAN : OpDone(ok)
      BY <2>3
    <3>1. 1 \in 1 .. count /\ 1 \in 1 .. m /\ (1 - 1) * m + 1 = 1 /\ 1 + 1 <= 1 + count * m
      BY <1>0
    <3>2. at' = 1 + ((1 - 1) * m + 1) /\ result' = result
      BY <1>1, <1>4, <2>2, <3>1, Ends
    <3>3. OldBefore(1, 1)' /\ \A q \in ToolPages : q < 1 => IsOld(q)'
      BY DEF OldBefore, ToolPages
    <3> QED
      BY <1>r, <2>2, <3>1, <3>2, <3>3
  <2>4. CASE \E code \in Current.codes : OpFails(code)
    <3> PICK code \in Current.codes : OpFails(code)
      BY <2>4
    <3>1. at' = Len(Steps) + 1 /\ result'.fail = 0
      BY <2>2, FailsToEnd DEF FailIndex
    <3>2. at' \in Nat \ {0} /\ ~(at' <= Len(Steps)) /\ result'.fail \in 0 .. count
      BY <1>0, <1>1, <3>1
    <3>3. \A q \in ToolPages : ~(q <= result'.fail)
      BY <3>1 DEF ToolPages
    <3> QED
      BY <1>e, <2>2, <3>2, <3>3
  <2> QED
    BY <2>3, <2>4 DEF NandToolsNext
<1>5. CASE at # 1
  <2> PICK p \in 1 .. count, c \in 1 .. m :
        /\ at = 1 + ((p - 1) * m + c)
        /\ (\A q \in ToolPages : q < p => IsOld(q)) /\ OldBefore(p, c)
    BY <1>2, <1>5 DEF ReadAt
  <2>1. Current = nf_read_raw(p, c)
    BY <1>2, ReadSteps
  <2>2. Current.op = "read" /\ Current.p = p /\ Current.c = c /\ Current.to = 0 /\ p \in ToolPages
    BY <1>0, <2>1 DEF nf_read_raw, Op
  <2>3. mem \in [ToolPages -> [1 .. m -> Vals]] /\ cells[p] = "old"
    BY <1>2, <2>2 DEF ToolType, ReadAt, OldCells
  <2>4. CASE \E ok \in BOOLEAN : OpDone(ok)
    <3> PICK ok \in BOOLEAN : OpDone(ok)
      BY <2>4
    <3>1. mem' = [mem EXCEPT ![p][c] = "old"]
      BY <2>2, <2>3 DEF OpDone
    <3>2. \A q \in ToolPages : q < p => IsOld(q)'
      BY <2>2, <2>3, <3>1 DEF IsOld, ToolPages
    <3>3. OldBefore(p, c + 1)'
      BY <1>0, <2>2, <2>3, <3>1 DEF OldBefore
    <3>4. c = m => IsOld(p)'
      BY <1>0, <3>3 DEF OldBefore, IsOld
    <3>5. CASE c < m /\ at + 1 = 1 + ((p - 1) * m + (c + 1)) /\ at + 1 <= Len(Steps) /\ c + 1 \in 1 .. m
      <4>1. at' = at + 1 /\ result' = result
        BY <2>2, <3>5, Ends
      <4> QED
        BY <1>r, <2>2, <3>2, <3>3, <3>5, <4>1
    <3>6. CASE c = m /\ p + 1 \in 1 .. count /\ at + 1 = 1 + ((p + 1 - 1) * m + 1) /\ at + 1 <= Len(Steps)
      <4>1. at' = at + 1 /\ result' = result
        BY <2>2, <3>6, Ends
      <4>2. 1 \in 1 .. m /\ OldBefore(p + 1, 1)'
        BY <1>0 DEF OldBefore
      <4>3. \A q \in ToolPages : q < p + 1 => IsOld(q)'
        BY <3>2, <3>4, <3>6 DEF ToolPages
      <4> QED
        BY <1>r, <2>2, <3>6, <4>1, <4>2, <4>3
    <3>7. CASE c = m /\ p = count /\ at = Len(Steps)
      <4>0. ~(at + 1 <= Len(Steps))
        BY <1>0, <1>1, <3>7
      <4>5. at' = at + 1 /\ result' = [rc |-> IF errs > 0 THEN "errors" ELSE "ok", fail |-> count]
        BY <2>2, <4>0, Ends
      <4>1. at' = at + 1 /\ result'.fail = count
        BY <4>5
      <4>2. \A q \in ToolPages : q <= count => IsOld(q)'
        BY <3>2, <3>4, <3>7 DEF ToolPages
      <4>3. ~(at' <= Len(Steps)) /\ at' \in Nat \ {0} /\ result'.fail \in 0 .. count
        BY <1>0, <1>1, <3>7, <4>1
      <4> QED
        BY <1>e, <2>2, <4>1, <4>2, <4>3
    <3>8. \/ c < m /\ at + 1 = 1 + ((p - 1) * m + (c + 1)) /\ at + 1 <= Len(Steps) /\ c + 1 \in 1 .. m
          \/ c = m /\ p + 1 \in 1 .. count /\ at + 1 = 1 + ((p + 1 - 1) * m + 1) /\ at + 1 <= Len(Steps)
          \/ c = m /\ p = count /\ at = Len(Steps)
      <4> DEFINE x == (p - 1) * m + c  y == (p - 1) * m + (c + 1)  z == (p + 1 - 1) * m + 1  w == count * m
      <4>1. \/ c < m /\ c + 1 \in 1 .. m /\ x + 1 = y /\ x + 1 <= w
            \/ c = m /\ p + 1 \in 1 .. count /\ x + 1 = z /\ x + 1 <= w
            \/ c = m /\ p = count /\ x = w
        BY <1>0, NextPlace
      <4>2. x \in Nat /\ w \in Nat
        BY <1>0
      <4> HIDE DEF x, y, z, w
      <4>3. at = 1 + x /\ Len(Steps) = 1 + w
        BY <1>1 DEF x, w
      <4>4. \/ c < m /\ at + 1 = 1 + y /\ at + 1 <= Len(Steps) /\ c + 1 \in 1 .. m
            \/ c = m /\ p + 1 \in 1 .. count /\ at + 1 = 1 + z /\ at + 1 <= Len(Steps)
            \/ c = m /\ p = count /\ at = Len(Steps)
        BY <4>1, <4>2, <4>3
      <4> QED
        BY <4>4 DEF y, z
    <3> QED
      BY <3>5, <3>6, <3>7, <3>8
  <2>5. CASE \E code \in Current.codes : OpFails(code)
    <3> PICK code \in Current.codes : OpFails(code)
      BY <2>5
    <3>1. at' = Len(Steps) + 1 /\ result'.fail = p - 1
      BY <2>2, FailsToEnd DEF FailIndex
    <3>2. at' \in Nat \ {0} /\ ~(at' <= Len(Steps)) /\ result'.fail \in 0 .. count
      BY <1>0, <1>1, <3>1
    <3>3. code # "fill"
      BY <2>1 DEF nf_read_raw, Op
    <3>4. mem' = [mem EXCEPT ![p][c] = "part"]
      BY <2>2, <3>3 DEF OpFails
    <3>5. \A q \in ToolPages : q <= result'.fail => IsOld(q)'
      BY <2>2, <2>3, <3>1, <3>4 DEF IsOld, ToolPages
    <3> QED
      BY <1>e, <2>2, <3>2, <3>5
  <2> QED
    BY <2>4, <2>5 DEF NandToolsNext
<1> QED
  BY <1>4, <1>5

\* One more page of a dump.
LEMMA DumpedNext ==
  ASSUME NEW p \in Nat \ {0}, NEW before, NEW n \in Nat, NEW Ones,
         before = Cardinality({q \in 1 .. p - 1 : q \in Ones}),
         n = IF p \in Ones THEN before + 1 ELSE before
  PROVE  n = Cardinality({q \in 1 .. p : q \in Ones}) /\ before \in Nat
<1> DEFINE A == {q \in 1 .. p - 1 : q \in Ones}
           B == {q \in 1 .. p : q \in Ones}
<1>1. IsFiniteSet(A) /\ Cardinality(A) \in Nat
  <2>1. IsFiniteSet(1 .. p - 1)
    BY FS_Interval
  <2>2. A \subseteq 1 .. p - 1
    OBVIOUS
  <2> QED
    BY <2>1, <2>2, FS_Subset, FS_CardinalityType
<1>2. CASE p \in Ones
  <2>1. B = A \cup {p} /\ p \notin A
    BY <1>2
  <2> HIDE DEF A, B
  <2>2. Cardinality(B) = Cardinality(A) + 1
    BY <1>1, <2>1, FS_AddElement
  <2> QED
    BY <1>1, <1>2, <2>2 DEF A, B
<1>3. CASE p \notin Ones
  <2>1. B = A
    BY <1>3
  <2> QED
    BY <1>1, <1>3, <2>1
<1> QED
  BY <1>2, <1>3

LEMMA DumpGrows ==
  ASSUME NEW p \in ToolPages, TOOL_CHUNKS \in Nat \ {0}, Dumped(p - 1),
         \A q \in ToolPages : q < p => mem'[q] = mem[q],
         (IsOld(p)' /\ errs' = errs) \/ (IsOnes(p)' /\ errs' = errs + 1)
  PROVE  Dumped(p)'
<1> DEFINE Ones == {q \in ToolPages : IsOnes(q)'}
<1>0. p \in Nat \ {0} /\ (\A q \in 1 .. p - 1 : q \in ToolPages /\ q < p)
  BY NandToolsAssumption DEF ToolPages
<1>1. \A q \in 1 .. p - 1 : (IsOnes(q)' <=> IsOnes(q)) /\ (IsOld(q)' <=> IsOld(q))
  BY <1>0 DEF IsOnes, IsOld
<1>2. {q \in 1 .. p - 1 : IsOnes(q)} = {q \in 1 .. p - 1 : q \in Ones}
  BY <1>0, <1>1
<1>3. {q \in 1 .. p : IsOnes(q)'} = {q \in 1 .. p : q \in Ones}
  BY <1>0, NandToolsAssumption DEF ToolPages
<1>4. p \in Ones <=> IsOnes(p)'
  OBVIOUS
<1>5. ~(IsOld(p)' /\ IsOnes(p)')
  <2>1. 1 \in 1 .. TOOL_CHUNKS
    OBVIOUS
  <2> QED
    BY <2>1 DEF IsOld, IsOnes
<1>6. errs = Cardinality({q \in 1 .. p - 1 : q \in Ones}) /\ \A q \in 1 .. p - 1 : IsOld(q) \/ IsOnes(q)
  BY <1>2 DEF Dumped
<1>7. errs' = IF p \in Ones THEN errs + 1 ELSE errs
  BY <1>4, <1>5
<1>8. errs \in Nat
  <2>1. IsFiniteSet(1 .. p - 1)
    BY <1>0, FS_Interval
  <2>2. {q \in 1 .. p - 1 : q \in Ones} \subseteq 1 .. p - 1
    OBVIOUS
  <2> HIDE DEF Ones
  <2> QED
    BY <1>6, <2>1, <2>2, FS_Subset, FS_CardinalityType
<1>9. errs' \in Nat
  BY <1>7, <1>8
<1> HIDE DEF Ones
<1>10. errs' = Cardinality({q \in 1 .. p : q \in Ones})
  BY <1>0, <1>6, <1>7, <1>9, DumpedNext
<1>11. \A q \in 1 .. p : (IsOld(q) \/ IsOnes(q))'
  <2> TAKE q \in 1 .. p
  <2>1. q = p \/ q \in 1 .. p - 1
    BY <1>0
  <2> QED
    BY <1>1, <1>6, <2>1
<1> QED
  BY <1>3, <1>10, <1>11 DEF Dumped

LEMMA DumpStays ==
  ASSUME NEW n \in Nat, Dumped(n), errs' = errs, \A q \in 1 .. n : mem'[q] = mem[q]
  PROVE  Dumped(n)'
<1>1. \A q \in 1 .. n : (IsOnes(q)' <=> IsOnes(q)) /\ (IsOld(q)' <=> IsOld(q))
  BY DEF IsOnes, IsOld
<1>2. {q \in 1 .. n : IsOnes(q)'} = {q \in 1 .. n : IsOnes(q)}
  BY <1>1
<1> QED
  BY <1>1, <1>2 DEF Dumped

\* nand_copy.
LEMMA CopyKeeps ==
  ASSUME NandInv, NandToolsNext, tool = "copy"
  PROVE  NandInv'
<1> DEFINE m == TOOL_CHUNKS
<1>0. /\ m \in Nat \ {0} /\ TOOL_PAGES \in Nat /\ count \in ToolPages /\ count \in Nat \ {0}
      /\ 1 .. count \subseteq ToolPages /\ count * m \in Nat
  BY NandToolsAssumption, CountOf DEF NandInv, ToolPages
<1>1. Len(Steps) = 1 + count * m + 1
  BY <1>0, CopySteps, SeqIs
<1>2. /\ ToolRuns /\ ToolType /\ at \in Nat \ {0} /\ result.rc = None /\ CopyAt
      /\ (at = 1 => assigned = FALSE) /\ at <= Len(Steps)
      /\ tool' = tool /\ count' = count /\ (ToolRuns' <=> at' <= Len(Steps)) /\ Current = Steps[at]
  BY StepsStay DEF NandInv, ToolType, ToolAt, Current, ToolRuns
<1>3. Current.op \in {"assign", "read", "unassign"} => dir_write' = FALSE /\ cells' = cells
  <2> SUFFICES ASSUME Current.op \in {"assign", "read", "unassign"} PROVE dir_write' = FALSE /\ cells' = cells
    OBVIOUS
  <2>1. dir_write = FALSE
    BY <1>2 DEF CopyAt
  <2>2. CASE \E ok \in BOOLEAN : OpDone(ok)
    <3> PICK ok \in BOOLEAN : OpDone(ok)
      BY <2>2
    <3>1. cells' = cells
      BY KeepsFlash DEF OpDone
    <3> QED
      BY <2>1, <3>1, DoneBits
  <2>3. CASE \E code \in Current.codes : OpFails(code)
    <3> PICK code \in Current.codes : OpFails(code)
      BY <2>3
    <3>1. ChipWorks(FALSE)
      BY DEF OpFails
    <3>2. cells' = cells
      BY <3>1, KeepsFlash
    <3> QED
      BY <1>2, <2>1, <3>2, Undone
  <2> QED
    BY <2>2, <2>3 DEF NandToolsNext
\* It goes on at a page, or gives the assignment back.
<1>r. ASSUME Current.op \in {"assign", "read"}, Current.op = "read" => Current.p \in ToolPages, result' = result,
             at' \in Nat \ {0}, at' # 1,
             \/ \E p \in 1 .. count, c \in 1 .. m :
                  at' = 1 + ((p - 1) * m + c) /\ Dumped(p - 1)' /\ OldBefore(p, c)'
             \/ at' = 1 + count * m + 1 /\ Dumped(count)'
      PROVE  NandInv'
  <2>3. ToolType'
    BY <1>2, <1>r, TypeKeeps
  <2>4. OldCells'
    BY <1>2, <1>3, <1>r DEF CopyAt, OldCells
  <2>5. CopyAt'
    BY <1>2, <1>3, <1>r, <2>4 DEF CopyAt
  <2>6. ToolAt'
    BY <1>2, <1>r, <2>5 DEF ToolAt
  <2> QED
    BY <1>2, <1>r, <2>3, <2>6, RunKeeps
\* Page p is over.
<1>p. ASSUME Current.op = "read", result' = result, NEW p \in 1 .. count, Current.p = p,
             at' = 2 + p * m, Dumped(p)'
      PROVE  NandInv'
  <2>1. p \in ToolPages /\ p * m \in Nat /\ p \in Nat
    BY <1>0
  <2>2. at' \in Nat \ {0} /\ at' # 1
    BY <1>p, <2>1
  <2>3. CASE p = count
    <3>1. at' = 1 + count * m + 1
      BY <1>0, <1>p, <2>3
    <3>2. Dumped(count)' /\ count' = p
      BY <1>2, <1>p, <2>3 DEF Dumped
    <3> QED
      BY <1>p, <1>r, <2>1, <2>2, <3>1, <3>2
  <2>4. CASE p # count
    <3>1. p + 1 \in 1 .. count /\ 1 \in 1 .. m /\ p + 1 - 1 = p
      BY <1>0, <2>4
    <3>2. at' = 1 + ((p + 1 - 1) * m + 1)
      BY <1>p, <2>1, <3>1
    <3>3. OldBefore(p + 1, 1)'
      BY <1>0 DEF OldBefore
    <3>4. Dumped(p + 1 - 1)'
      BY <1>p, <3>1
    <3> DEFINE i == p + 1  j == 1
    <3>5. i \in 1 .. count /\ j \in 1 .. m /\ at' = 1 + ((i - 1) * m + j) /\ Dumped(i - 1)' /\ OldBefore(i, j)'
      BY <3>1, <3>2, <3>3, <3>4
    <3> HIDE DEF i, j
    <3> QED
      BY <1>p, <1>r, <2>1, <2>2, <3>5
  <2> QED
    BY <2>3, <2>4
<1>4. CASE at = 1
  <2>1. Current = Simple("assign")
    BY <1>0, <1>2, <1>4, CopySteps
  <2>2. Current.op = "assign" /\ Current.codes = {}
    BY <2>1 DEF Simple, Op
  <2>3. PICK ok \in BOOLEAN : OpDone(ok)
    BY <2>2 DEF NandToolsNext
  <2>4. 1 \in 1 .. count /\ 1 \in 1 .. m /\ (1 - 1) * m + 1 = 1 /\ at + 1 <= Len(Steps) /\ 1 - 1 = 0
    BY <1>0, <1>1, <1>4
  <2>50. Current.op # "header" /\ at + 1 <= Len(Steps)
    BY <2>2, <2>4
  <2>51. at' = at + 1 /\ result' = result
    BY <2>3, <2>50, Ends
  <2>5. at' = 2 /\ result' = result
    BY <1>4, <2>51
  <2>6. Dumped(0)'
    <3>1. errs = 0
      <4>1. ASSUME NEW p \in 1 .. count, NEW c \in 1 .. m PROVE at # 1 + ((p - 1) * m + c)
        <5>1. (p - 1) * m + c \in 1 .. count * m
          BY <1>0, PlaceOf
        <5> QED
          BY <1>4, <5>1
      <4>2. at # 1 + count * m + 1
        BY <1>0, <1>4
      <4> QED
        BY <1>2, <4>1, <4>2 DEF CopyAt
    <3>2. errs' = 0
      BY <2>3, <3>1 DEF OpDone
    <3>3. {q \in 1 .. 0 : IsOnes(q)'} = {}
      OBVIOUS
    <3> QED
      BY <3>2, <3>3, FS_EmptySet DEF Dumped
  <2>7. OldBefore(1, 1)'
    BY DEF OldBefore
  <2>8. at' = 1 + ((1 - 1) * m + 1) /\ Dumped(1 - 1)'
    BY <2>4, <2>5, <2>6
  <2> DEFINE i == 1  j == 1
  <2>9. i \in 1 .. count /\ j \in 1 .. m /\ at' = 1 + ((i - 1) * m + j) /\ Dumped(i - 1)' /\ OldBefore(i, j)'
    BY <2>4, <2>7, <2>8
  <2> HIDE DEF i, j
  <2>10. at' \in Nat \ {0} /\ at' # 1
    BY <2>5
  <2> QED
    BY <1>r, <2>2, <2>5, <2>9, <2>10
<1>5. ASSUME NEW p \in 1 .. count, NEW c \in 1 .. m,
             at = 1 + ((p - 1) * m + c), Dumped(p - 1), OldBefore(p, c)
      PROVE  NandInv'
  <2>1. Current = Op("read", p, c, {"fill"}, {}, 2 + p * m)
    BY <1>0, <1>2, <1>5, CopySteps
  <2>2. /\ Current.op = "read" /\ Current.p = p /\ Current.c = c /\ Current.to = 2 + p * m /\ Current.codes = {"fill"} /\ p \in ToolPages
        /\ p * m \in Nat /\ Current.to # 0
    BY <1>0, <2>1 DEF Op
  <2>3. mem \in [ToolPages -> [1 .. m -> Vals]] /\ cells[p] = "old"
    BY <1>2, <2>2 DEF ToolType, CopyAt, OldCells
  <2>4. CASE \E ok \in BOOLEAN : OpDone(ok)
    <3> PICK ok \in BOOLEAN : OpDone(ok)
      BY <2>4
    <3>1. mem' = [mem EXCEPT ![p][c] = "old"] /\ errs' = errs
      BY <2>2, <2>3 DEF OpDone
    <3>2. \A q \in ToolPages : q < p => mem'[q] = mem[q]
      BY <2>2, <2>3, <3>1 DEF ToolPages
    <3>3. OldBefore(p, c + 1)'
      <4> SUFFICES ASSUME NEW d \in 1 .. m, d < c + 1 PROVE mem'[p][d] = "old"
        BY DEF OldBefore
      <4>1. d < c \/ d = c
        BY <1>0
      <4>2. d < c => mem[p][d] = "old"
        BY <1>5 DEF OldBefore
      <4> QED
        BY <2>2, <2>3, <3>1, <4>1, <4>2
    <3> DEFINE x == (p - 1) * m + c  y == (p - 1) * m + (c + 1)
    <3>4. x \in 1 .. count * m
      BY <1>0, PlaceOf
    <3>5. at' = 1 + x + 1 /\ result' = result
      <4> HIDE DEF x
      <4>1. at = 1 + x
        BY <1>5 DEF x
      <4>2. at + 1 <= Len(Steps)
        BY <1>0, <1>1, <3>4, <4>1
      <4> QED
        BY <2>2, <4>1, <4>2, Ends
    <3>6. CASE c < m
      <4>1. c + 1 \in 1 .. m /\ 1 + x + 1 = 1 + y
        BY <1>0, <3>6
      <4>2. p - 1 \in Nat /\ \A q \in 1 .. p - 1 : q \in ToolPages /\ q < p
        BY <1>0 DEF ToolPages
      <4>3. Dumped(p - 1)'
        BY <1>5, <3>1, <3>2, <4>2, DumpStays
      <4>4. at' \in Nat \ {0} /\ at' # 1
        <5> HIDE DEF x
        <5> QED
          BY <3>4, <3>5
      <4> DEFINE j == c + 1
      <4>5. j \in 1 .. m /\ at' = 1 + ((p - 1) * m + j) /\ Dumped(p - 1)' /\ OldBefore(p, j)'
        BY <3>3, <3>5, <4>1, <4>3
      <4> HIDE DEF j
      <4> QED
        BY <1>r, <2>2, <3>5, <4>4, <4>5
    <3>7. CASE c = m
      <4>1. IsOld(p)'
        BY <1>0, <3>3, <3>7 DEF OldBefore, IsOld
      <4>2. Dumped(p)'
        BY <1>0, <1>5, <2>2, <3>1, <3>2, <4>1, DumpGrows
      <4>3. x = p * m
        BY <1>0, <3>7
      <4>4. at' = 2 + p * m
        <5> HIDE DEF x
        <5> QED
          BY <2>2, <3>5, <4>3
      <4> QED
        BY <1>p, <2>2, <3>5, <4>2, <4>4
    <3> QED
      BY <1>0, <3>6, <3>7
  <2>5. CASE \E code \in Current.codes : OpFails(code)
    <3>0. OpFails("fill")
      BY <2>2, <2>5
    <3>1. /\ mem' = [mem EXCEPT ![p] = [d \in 1 .. m |-> "ones"]] /\ errs' = errs + 1
          /\ at' = 2 + p * m /\ result' = result
      BY <2>2, <3>0 DEF OpFails, Fill
    <3>2. \A q \in ToolPages : q < p => mem'[q] = mem[q]
      BY <2>2, <2>3, <3>1 DEF ToolPages
    <3>3. IsOnes(p)'
      BY <2>2, <2>3, <3>1 DEF IsOnes
    <3>4. Dumped(p)'
      BY <1>0, <1>5, <2>2, <3>1, <3>2, <3>3, DumpGrows
    <3> QED
      BY <1>p, <2>2, <3>1, <3>4
  <2> QED
    BY <2>4, <2>5 DEF NandToolsNext
<1>6. CASE at = 1 + count * m + 1 /\ Dumped(count)
  <2>1. Current = Simple("unassign")
    BY <1>0, <1>2, <1>6, CopySteps
  <2>2. Current.op = "unassign" /\ Current.codes = {}
    BY <2>1 DEF Simple, Op
  <2>3. PICK ok \in BOOLEAN : OpDone(ok)
    BY <2>2 DEF NandToolsNext
  <2>4. ~(at + 1 <= Len(Steps)) /\ at + 1 \in Nat \ {0}
    BY <1>0, <1>1, <1>6
  <2>5. at' = at + 1 /\ result' = [rc |-> IF errs > 0 THEN "errors" ELSE "ok", fail |-> count]
    BY <2>2, <2>3, <2>4, Ends
  <2>6. mem' = mem /\ errs' = errs
    BY <2>2, <2>3 DEF OpDone
  <2>7. ToolType'
    BY <1>2, <2>2, <2>4, <2>5, TypeKeeps
  <2>8. Dumped(count)'
    <3>1. PICK n \in Nat : n = count
      BY <1>0
    <3>2. Dumped(n)
      BY <1>6, <3>1
    <3>3. Dumped(n)'
      BY <2>6, <3>2, DumpStays
    <3> QED
      BY <1>2, <3>1, <3>3 DEF Dumped
  <2>9. DumpIsHonest'
    <3>1. result'.rc = IF errs' > 0 THEN "errors" ELSE "ok"
      BY <2>5, <2>6
    <3> QED
      BY <1>2, <2>8, <3>1 DEF DumpIsHonest, Dumped, IsOld, IsOnes
  <2>10. dir_write' = FALSE /\ assigned' = FALSE /\ bound' = FALSE
    BY <1>3, <2>2, <2>3, DoneBits
  <2>11. WrittenIsReported' /\ FailIsPrefix' /\ BoardIsAsFound'
    BY <1>2, <2>10 DEF WrittenIsReported, FailIsPrefix, BoardIsAsFound
  <2> QED
    BY <1>2, <2>4, <2>5, <2>7, <2>9, <2>11, EndKeeps DEF NandReportIsTrue
<1> QED
  BY <1>2, <1>4, <1>5, <1>6 DEF CopyAt

\* The operation k of page p.
IsPageOp(x, p, k) ==
  /\ x.to = 0
  /\ \/ k = 1 /\ x.op = "dir" /\ x.p = 0 /\ x.codes = {} /\ x.undo = {}
     \/ k = 2 /\ x.op = "start" /\ x.p = p /\ x.codes = {"SEQ"} /\ x.undo = {"dir"}
     \/ k \in 3 .. TOOL_CHUNKS + 2 /\ x.op = "chunk" /\ x.p = p /\ x.codes = {"SEQ", "DMA"} /\ x.undo = {"dir"}
     \/ k = TOOL_CHUNKS + 3 /\ x.op = "confirm" /\ x.p = p /\ x.codes = {"SEQ"} /\ x.undo = {"dir"}
     \/ k = TOOL_CHUNKS + 4 /\ x.op = "undir" /\ x.p = 0 /\ x.codes = {} /\ x.undo = {}
     \/ k = TOOL_CHUNKS + 5 /\ x.op = "status" /\ x.p = p /\ x.codes = {"SEQ", "FAIL"} /\ x.undo = {}

LEMMA PageOp ==
  ASSUME NEW p, NEW k \in 1 .. PROGRAM_OPS
  PROVE  IsPageOp(nf_program_page(p)[k], p, k)
<1> DEFINE x == nf_program_page(p)[k]
<1>0. TOOL_CHUNKS \in Nat /\ PROGRAM_OPS = TOOL_CHUNKS + 5
  BY NandToolsAssumption DEF PROGRAM_OPS
<1>1. CASE k = 1
  <2>1. x = Simple("dir")
    BY <1>1, PageOps
  <2> QED
    BY <1>1, <2>1 DEF IsPageOp, Simple, Op
<1>2. CASE k = 2
  <2>1. x = Op("start", p, 0, {"SEQ"}, {"dir"}, 0)
    BY <1>2, PageOps
  <2> QED
    BY <1>2, <2>1 DEF IsPageOp, Op
<1>3. CASE k \in 3 .. TOOL_CHUNKS + 2
  <2>1. k - 2 \in 1 .. TOOL_CHUNKS /\ k = 2 + (k - 2)
    BY <1>0, <1>3
  <2>2. x = program_chunk(p, k - 2)
    BY <2>1, PageOps
  <2> QED
    BY <1>3, <2>2 DEF program_chunk, IsPageOp, Op
<1>4. CASE k = TOOL_CHUNKS + 3
  <2>1. x = Op("confirm", p, 0, {"SEQ"}, {"dir"}, 0)
    BY <1>4, PageOps
  <2> QED
    BY <1>4, <2>1 DEF IsPageOp, Op
<1>5. CASE k = TOOL_CHUNKS + 4
  <2>1. x = Simple("undir")
    BY <1>5, PageOps
  <2> QED
    BY <1>5, <2>1 DEF IsPageOp, Simple, Op
<1>6. CASE k = TOOL_CHUNKS + 5
  <2>1. x = Op("status", p, 0, {"SEQ", "FAIL"}, {}, 0)
    BY <1>6, PageOps
  <2> QED
    BY <1>6, <2>1 DEF IsPageOp, Op
<1>7. k \in 1 .. TOOL_CHUNKS + 5
  BY <1>0
<1> QED
  BY <1>0, <1>1, <1>2, <1>3, <1>4, <1>5, <1>6, <1>7

\* The operation of the probe that writes.
LEMMA ProbeWriteNow ==
  ASSUME tool = "probe_write", count \in 0 .. 2, at \in 1 .. Len(Steps)
  PROVE  /\ Len(Steps) = IF count = 0 THEN 2 ELSE IF count = 1 THEN 6 ELSE 6 + (PROGRAM_OPS + TOOL_CHUNKS + 1)
         /\ Current.op \notin {"header", "assign", "unassign"} /\ Current.to = 0 /\ "ok" \notin Current.codes /\ "fill" \notin Current.codes
         /\ Current.op = "dir" => at = 7
         /\ Current.op # "undir" => at # 6 + (TOOL_CHUNKS + 4)
         /\ Current.codes # {} /\ at - 6 \in 2 .. TOOL_CHUNKS + 4 => "dir" \in Current.undo
         /\ Current.op \in {"read", "confirm"} => Current.p = 1
         /\ at > 6 + PROGRAM_OPS => Current.op \in {"read", "verify"}
         /\ at > 6 + PROGRAM_OPS /\ at # Len(Steps) => Current.op = "read" /\ Current.c = at - 6 - PROGRAM_OPS
         /\ count = 2 /\ at = Len(Steps) => Current.op = "verify"
<1> DEFINE L == IF count = 0 THEN 2 ELSE IF count = 1 THEN 6 ELSE 6 + (PROGRAM_OPS + TOOL_CHUNKS + 1)
<1>0. TOOL_CHUNKS \in Nat \ {0} /\ PROGRAM_OPS = TOOL_CHUNKS + 5
  BY NandToolsAssumption DEF PROGRAM_OPS
<1>1. Len(Steps) = L
  <2>1. IsSeq(Steps, L)
    <3>1. CASE count = 0
      BY <3>1, ProbeWriteSteps
    <3>2. CASE count = 1
      BY <3>2, ProbeWriteSteps
    <3>3. CASE count = 2
      BY <3>3, ProbeWriteSteps
    <3> QED
      BY <3>1, <3>2, <3>3
  <2> HIDE DEF L
  <2> QED
    BY <2>1, SeqIs
<1>2. Current = Steps[at]
  BY DEF Current
<1>3. CASE at \in 1 .. 6
  <2>1. at > 2 => count # 0
    BY <1>1, <1>3
  <2> DEFINE a == Wait("status", {"SEQ_STATUS"})
             b == Wait("protect", {"WP"})
             c1 == Wait("erase", {"SEQ_ERASE"})
             c2 == Wait("status", {"SEQ_ERASE", "FAIL"})
             c3 == probe_read_raw(1, 1)
             c4 == Check("blank", 1, "NOT_BLANK")
  <2>2. \/ at = 1 /\ Current = a
        \/ at = 2 /\ Current = b
        \/ at = 3 /\ Current = c1
        \/ at = 4 /\ Current = c2
        \/ at = 5 /\ Current = c3
        \/ at = 6 /\ Current = c4
    <3>1. at \in {1, 2, 3, 4, 5, 6}
      BY <1>3
    <3>2. Steps[1] = a /\ Steps[2] = b
      BY ProbeWriteSteps
    <3>3. count # 0 => Steps[3] = c1 /\ Steps[4] = c2 /\ Steps[5] = c3 /\ Steps[6] = c4
      BY ProbeWriteSteps
    <3> HIDE DEF a, b, c1, c2, c3, c4
    <3> QED
      BY <1>2, <2>1, <3>1, <3>2, <3>3
  <2>3. /\ Current.op \in {"status", "protect", "erase", "read", "blank"} /\ Current.to = 0 /\ "ok" \notin Current.codes
        /\ "fill" \notin Current.codes /\ (Current.op = "read" => Current.p = 1)
    BY <2>2 DEF Wait, Check, probe_read_raw, Op
  <2>4. ~(at - 6 \in 2 .. TOOL_CHUNKS + 4) /\ ~(at > 6 + PROGRAM_OPS) /\ at # 6 + (TOOL_CHUNKS + 4)
    BY <1>0, <1>3
  <2>5. ~(count = 2 /\ at = Len(Steps))
    BY <1>0, <1>1, <1>3
  <2> QED
    BY <1>1, <2>3, <2>4, <2>5
<1>4. CASE at - 6 \in 1 .. PROGRAM_OPS
  <2>1. count = 2 /\ at = 6 + (at - 6)
    BY <1>0, <1>1, <1>4
  <2> DEFINE k == at - 6
  <2>2. PICK j \in 1 .. PROGRAM_OPS : j = k
    BY <1>4
  <2>3. Current = nf_program_page(1)[j]
    BY <1>2, <2>1, <2>2, ProbeWriteSteps
  <2>4. PICK x : x = Current
    OBVIOUS
  <2>5. IsPageOp(x, 1, j) /\ at = 6 + j
    BY <2>1, <2>2, <2>3, <2>4, PageOp
  <2>7. /\ x.op \in {"dir", "start", "chunk", "confirm", "undir", "status"} /\ x.to = 0
        /\ "ok" \notin x.codes /\ "fill" \notin x.codes
        /\ (x.op = "dir" => j = 1) /\ (x.op # "undir" => j # TOOL_CHUNKS + 4)
        /\ (x.codes # {} /\ j \in 2 .. TOOL_CHUNKS + 4 => "dir" \in x.undo) /\ (x.op = "confirm" => x.p = 1)
    BY <1>0, <2>5 DEF IsPageOp
  <2>8. ~(at > 6 + PROGRAM_OPS) /\ at # Len(Steps) /\ (j = 1 => at = 7) /\ at - 6 = j
        /\ (j # TOOL_CHUNKS + 4 => at # 6 + (TOOL_CHUNKS + 4))
    BY <1>0, <1>1, <2>1, <2>5
  <2> QED
    BY <1>1, <2>4, <2>7, <2>8
<1>5. CASE at - 6 - PROGRAM_OPS \in 1 .. TOOL_CHUNKS
  <2> DEFINE c == at - 6 - PROGRAM_OPS
  <2>1. count = 2 /\ at = 6 + (PROGRAM_OPS + c)
    BY <1>0, <1>1, <1>5
  <2>2. Current = probe_read_raw(1, c)
    BY <1>2, <1>5, <2>1, ProbeWriteSteps
  <2>3. /\ Current.op = "read" /\ Current.p = 1 /\ Current.c = c /\ Current.to = 0 /\ "ok" \notin Current.codes /\ "fill" \notin Current.codes
    BY <2>2 DEF probe_read_raw, Op
  <2>4. at # Len(Steps) /\ ~(at - 6 \in 2 .. TOOL_CHUNKS + 4) /\ at # 6 + (TOOL_CHUNKS + 4)
    BY <1>0, <1>1, <1>5, <2>1
  <2> QED
    BY <1>1, <2>3, <2>4
<1>6. CASE count = 2 /\ at = 6 + (PROGRAM_OPS + TOOL_CHUNKS + 1)
  <2>1. Current = Check("verify", 0, "VERIFY")
    BY <1>2, <1>6, ProbeWriteSteps
  <2>2. Current.op = "verify" /\ Current.to = 0 /\ "ok" \notin Current.codes /\ "fill" \notin Current.codes
    BY <2>1 DEF Check, Op
  <2>3. at = Len(Steps) /\ ~(at - 6 \in 2 .. TOOL_CHUNKS + 4) /\ at # 6 + (TOOL_CHUNKS + 4)
    BY <1>0, <1>1, <1>6
  <2> QED
    BY <1>1, <2>2, <2>3
<1>7. \/ at \in 1 .. 6 \/ at - 6 \in 1 .. PROGRAM_OPS \/ at - 6 - PROGRAM_OPS \in 1 .. TOOL_CHUNKS
      \/ count = 2 /\ at = 6 + (PROGRAM_OPS + TOOL_CHUNKS + 1)
  BY <1>0, <1>1
<1> QED
  BY <1>3, <1>4, <1>5, <1>6, <1>7

LEMMA ProbeWriteKeeps ==
  ASSUME NandInv, NandToolsNext, tool = "probe_write"
  PROVE  NandInv'
<1> DEFINE P == PROGRAM_OPS  T == TOOL_CHUNKS  L == Len(Steps)
<1>0. T \in Nat \ {0} /\ P = T + 5 /\ 1 \in ToolPages /\ count \in 0 .. 2
  BY NandToolsAssumption, CountOf DEF NandInv, PROGRAM_OPS, ToolPages
<1>1. /\ ToolRuns /\ ToolType /\ at \in Nat \ {0} /\ at <= L /\ result.rc = None /\ ProbeWriteAt
      /\ tool' = tool /\ count' = count /\ (ToolRuns' <=> at' <= L)
  BY StepsStay DEF NandInv, ToolType, ToolAt, ToolRuns
<1>2. L \in Nat
  <2>1. \E n \in Nat : IsSeq(Steps, n)
    <3>1. IsSeq(Steps, CASE count = 0 -> 2 [] count = 1 -> 6 [] OTHER -> 6 + (PROGRAM_OPS + TOOL_CHUNKS + 1))
      BY <1>0, ProbeWriteSteps
    <3> QED
      BY <3>1 DEF IsSeq
  <2> QED
    BY <2>1, SeqIs
<1>3. at \in 1 .. L
  BY <1>1, <1>2
<1>4. /\ L = IF count = 0 THEN 2 ELSE IF count = 1 THEN 6 ELSE 6 + (P + T + 1)
      /\ Current.op \notin {"header", "assign", "unassign"} /\ Current.to = 0 /\ "ok" \notin Current.codes /\ "fill" \notin Current.codes
      /\ Current.op = "dir" => at = 7
      /\ Current.op # "undir" => at # 6 + (T + 4)
      /\ Current.codes # {} /\ at - 6 \in 2 .. T + 4 => "dir" \in Current.undo
      /\ Current.op \in {"read", "confirm"} => Current.p = 1
      /\ at > 6 + P => Current.op \in {"read", "verify"}
      /\ at > 6 + P /\ at # L => Current.op = "read" /\ Current.c = at - 6 - P
      /\ count = 2 /\ at = L => Current.op = "verify"
  BY <1>0, <1>3, ProbeWriteNow
<1> HIDE DEF L
<1>5. at' \in Nat \ {0} => ToolType'
  BY <1>0, <1>1, <1>4, TypeKeeps
<1>6. assigned = FALSE /\ (at - 6 \notin 2 .. T + 4 => dir_write = FALSE)
  BY <1>1 DEF ProbeWriteAt
<1>7. CASE \E ok \in BOOLEAN : OpDone(ok)
  <2> PICK ok \in BOOLEAN : OpDone(ok)
    BY <1>7
  <2>1. at' = at + 1 /\ assigned' = FALSE /\ ToolType'
    <3>1. at' = at + 1
      BY <1>4, Ends
    <3>2. assigned' = FALSE
      BY <1>4, <1>6, DoneBits
    <3>3. at' \in Nat \ {0}
      BY <1>1, <3>1
    <3> QED
      BY <1>5, <3>1, <3>2, <3>3
  <2>2. at + 1 - 6 \notin 2 .. T + 4 => dir_write' = FALSE
    <3> SUFFICES ASSUME at + 1 - 6 \notin 2 .. T + 4 PROVE dir_write' = FALSE
      OBVIOUS
    <3>1. at = 6 + (T + 4) \/ (at - 6 \notin 2 .. T + 4 /\ at # 7)
      BY <1>0, <1>1
    <3>2. CASE Current.op = "undir"
      BY <3>2, DoneBits
    <3>3. CASE Current.op # "undir"
      <4>1. Current.op # "dir" /\ dir_write = FALSE
        BY <1>4, <1>6, <3>1, <3>3
      <4> QED
        BY <3>3, <4>1, DoneBits
    <3> QED
      BY <3>2, <3>3
  <2>3. CASE at + 1 <= L
    <3>1. \A c \in 1 .. T : c < at + 1 - 6 - P => mem'[1][c] = cells'[1]
      <4> SUFFICES ASSUME NEW c \in 1 .. T, c < at + 1 - 6 - P PROVE mem'[1][c] = cells'[1]
        OBVIOUS
      <4>1. at > 6 + P /\ at # L /\ (c < at - 6 - P \/ c = at - 6 - P)
        BY <1>0, <1>1, <1>2, <2>3
      <4>2. Current.op = "read" /\ Current.c = at - 6 - P /\ Current.p = 1
        BY <1>4, <4>1
      <4>3. Current.c \in 1 .. T
        BY <1>0, <1>1, <1>2, <1>4, <2>3, <4>1, <4>2
      <4>4. cells' = cells
        BY <4>2, KeepsFlash DEF OpDone
      <4>5. mem' = [mem EXCEPT ![1][Current.c] = cells[1]]
        BY <4>2 DEF OpDone
      <4>6. mem \in [ToolPages -> [1 .. T -> Vals]]
        BY <1>1 DEF ToolType
      <4>7. mem'[1][c] = IF c = Current.c THEN cells[1] ELSE mem[1][c]
        BY <1>0, <4>3, <4>5, <4>6
      <4>8. c # Current.c => mem[1][c] = cells[1]
        BY <1>1, <4>1, <4>2 DEF ProbeWriteAt
      <4> QED
        BY <4>4, <4>7, <4>8
    <3>2. ProbeWriteAt'
      <4>1. at' - 6 \notin 2 .. T + 4 => dir_write' = FALSE
        <5>1. at' - 6 = at + 1 - 6
          <6>1. at' = at + 1 /\ at \in Nat /\ P \in Nat
            BY <1>0, <1>1, <2>1
          <6> HIDE DEF P
          <6> QED
            BY <6>1
        <5> QED
          BY <2>2, <5>1
      <4>2. \A c \in 1 .. T : c < at' - 6 - P => mem'[1][c] = cells'[1]
        <5>1. at' - 6 - P = at + 1 - 6 - P
          <6>1. at' = at + 1 /\ at \in Nat /\ P \in Nat
            BY <1>0, <1>1, <2>1
          <6> HIDE DEF P
          <6> QED
            BY <6>1
        <5> QED
          BY <3>1, <5>1
      <4> QED
        BY <2>1, <4>1, <4>2 DEF ProbeWriteAt, PROGRAM_OPS
    <3>3. result' = result
      BY <1>4, <2>3, Ends DEF L
    <3>4. ToolAt'
      BY <1>1, <2>1, <3>2 DEF ToolAt
    <3> QED
      BY <1>1, <2>1, <3>3, <3>4, RunKeeps
  <2>4. CASE ~(at + 1 <= L)
    <3>1. at = L
      BY <1>1, <1>2, <2>4
    <3>2. dir_write' = FALSE
      BY <1>0, <1>1, <1>4, <2>2, <3>1
    <3>3. count = 2 => cells'[1] = "new" /\ mem'[1] = [c \in 1 .. T |-> "new"]
      <4> SUFFICES ASSUME count = 2 PROVE cells'[1] = "new" /\ mem'[1] = [c \in 1 .. T |-> "new"]
        OBVIOUS
      <4>1. Current.op = "verify" /\ at = 6 + (P + T + 1)
        BY <1>4, <3>1
      <4>2. cells' = cells /\ mem' = mem
        <5>1. cells' = cells
          BY <4>1, KeepsFlash DEF OpDone
        <5> QED
          BY <4>1, <5>1 DEF OpDone
      <4>3. \A c \in 1 .. T : mem[1][c] = "new"
        BY <4>1 DEF OpDone, ToolFails
      <4>4. 1 \in 1 .. T /\ 1 < at - 6 - P
        BY <1>0, <4>1
      <4>5. mem[1][1] = cells[1]
        BY <1>1, <4>4 DEF ProbeWriteAt
      <4>6. mem[1] \in [1 .. T -> Vals]
        BY <1>0, <1>1 DEF ToolType
      <4> QED
        BY <4>2, <4>3, <4>4, <4>5, <4>6
    <3>4. NandReportIsTrue'
      BY <1>1, <2>1, <3>2, <3>3
      DEF NandReportIsTrue, WrittenIsReported, FailIsPrefix, DumpIsHonest, BoardIsAsFound
    <3> QED
      BY <1>1, <2>1, <2>4, <3>4, EndKeeps
  <2> QED
    BY <2>3, <2>4
<1>8. CASE \E code \in Current.codes : OpFails(code)
  <2> PICK code \in Current.codes : OpFails(code)
    BY <1>8
  <2>1. at' = L + 1 /\ result'.rc # "ok"
    <3>1. at' = L + 1 /\ result' = [rc |-> code, fail |-> FailIndex] /\ code \in Current.codes
      BY <1>4, FailsToEnd DEF L
    <3>2. result'.rc = code
      BY <3>1
    <3> QED
      BY <1>4, <3>1, <3>2
  <2>2. dir_write' = FALSE /\ assigned' = FALSE
    <3>1. "dir" \in Current.undo \/ dir_write = FALSE
      BY <1>4, <1>6
    <3> QED
      BY <1>1, <1>6, <3>1, Undone
  <2>3. ToolType' /\ ~(at' <= L)
    BY <1>2, <1>5, <2>1
  <2>4. NandReportIsTrue'
    BY <1>1, <2>1, <2>2 DEF NandReportIsTrue, WrittenIsReported, FailIsPrefix, DumpIsHonest, BoardIsAsFound
  <2> QED
    BY <1>1, <2>3, <2>4, EndKeeps
<1> QED
  BY <1>7, <1>8 DEF NandToolsNext

\* nf_write: the block is erased.
LEMMA EraseKeeps ==
  ASSUME NandInv, NandToolsNext, tool = "write", count \in 0 .. TOOL_PAGES, at \in {1, 2}
  PROVE  NandInv'
<1> DEFINE m == PROGRAM_OPS
<1>0. m \in Nat \ {0} /\ TOOL_PAGES \in Nat /\ TOOL_CHUNKS \in Nat \ {0} /\ count * m \in Nat /\ m = TOOL_CHUNKS + 5
  BY NandToolsAssumption DEF PROGRAM_OPS
<1>1. Len(Steps) = 2 + count * m
  BY WriteSteps, SeqIs
<1>2. /\ ToolRuns /\ ToolType /\ result.rc = None /\ WriteAt
      /\ tool' = tool /\ count' = count /\ wp' = wp /\ (ToolRuns' <=> at' <= Len(Steps)) /\ Current = Steps[at]
  <2>1. ~(count > TOOL_PAGES)
    BY <1>0
  <2> QED
    BY <2>1, StepsStay DEF NandInv, ToolAt, Current
<1>3. /\ assigned = FALSE /\ dir_write = FALSE
      /\ at = 2 => (refused = FALSE => \A q \in ToolPages : CellIs(q, "blank"))
  <2>1. ASSUME NEW p \in 1 .. count, NEW k \in 1 .. m PROVE at # 2 + ((p - 1) * m + k)
    <3>1. (p - 1) * m + k \in 1 .. count * m
      BY <1>0, PlaceOf
    <3> QED
      BY <3>1
  <2> QED
    BY <1>2, <2>1 DEF WriteAt
<1>4. /\ at = 1 => Current = Op("erase", 0, 0, {"SEQ"}, {}, 0)
      /\ at = 2 => Current = Op("status", 0, 0, {"SEQ", "FAIL"}, {}, 0)
  BY <1>2, WriteSteps
<1>5. /\ Current.op = (IF at = 1 THEN "erase" ELSE "status") /\ Current.p = 0 /\ Current.to = 0
      /\ Current.codes \subseteq {"SEQ", "FAIL"} /\ (at = 2 => "FAIL" \in Current.codes)
  BY <1>4 DEF Op
<1>6. at' \in Nat \ {0} => ToolType'
  BY <1>2, <1>5, TypeKeeps
<1>7. CASE \E ok \in BOOLEAN : OpDone(ok)
  <2> PICK ok \in BOOLEAN : OpDone(ok)
    BY <1>7
  <2>1. at' = at + 1 /\ dir_write' = FALSE /\ assigned' = FALSE
    BY <1>3, <1>5, Ends, DoneBits
  <2>2. CASE at = 1
    <3>1. at' = 2 /\ result' = result
      <4>1. at + 1 <= Len(Steps) /\ Current.op # "header"
        BY <1>0, <1>1, <1>5, <2>2
      <4>2. at' = 2
        BY <2>1, <2>2
      <4>3. result' = result
        BY <4>1, Ends
      <4> QED
        BY <4>2, <4>3
    <3>2. refused' = FALSE => \A q \in ToolPages : CellIs(q, "blank")'
      <4> SUFFICES ASSUME refused' = FALSE, wp = FALSE PROVE \A q \in ToolPages : cells'[q] = "blank"
        BY <1>2 DEF CellIs
      <4>1. refused' = ~ok /\ cells' \in Erased(ok)
        BY <1>5, <2>2 DEF OpDone, ChipWorks
      <4>2. ok = TRUE
        BY <4>1
      <4> QED
        BY <4>1, <4>2 DEF Erased
    <3>3. WriteAt'
      BY <2>1, <3>1, <3>2 DEF WriteAt
    <3>4. ToolAt'
      BY <1>2, <3>1, <3>3 DEF ToolAt
    <3>5. ToolType'
      BY <1>6, <3>1
    <3> QED
      BY <1>2, <3>1, <3>4, <3>5, RunKeeps
  <2>3. CASE at = 2
    <3>1. refused = FALSE
      <4>1. ~(Current.op = "status" /\ "FAIL" \in Current.codes /\ refused)
        BY <1>5, <2>3 DEF OpDone, ToolFails
      <4>2. refused \in Two
        BY <1>2 DEF ToolType
      <4> QED
        BY <1>5, <2>3, <4>1, <4>2 DEF Two
    <3>2. cells' = cells
      <4>1. Current.op = "status" /\ ChipWorks(ok)
        BY <1>5, <2>3 DEF OpDone
      <4> QED
        BY <4>1, KeepsFlash
    <3>3. \A q \in ToolPages : CellIs(q, "blank")'
      BY <1>2, <1>3, <2>3, <3>1, <3>2 DEF CellIs
    <3>4. at' = 3 /\ ToolType'
      BY <1>6, <2>1, <2>3
    <3>5. CASE count = 0
      <4>1. ~(at + 1 <= Len(Steps))
        BY <1>0, <1>1, <2>3, <3>5
      <4>2. result' = [rc |-> IF errs > 0 THEN "errors" ELSE "ok", fail |-> count]
        BY <1>5, <2>3, <4>1, Ends
      <4>3. result'.fail = count
        BY <4>2
      <4>4. WrittenIsReported'
        <5>1. \A p \in ToolPages : ~(p <= count)
          BY <3>5 DEF ToolPages
        <5> QED
          BY <1>2, <3>3, <5>1 DEF WrittenIsReported, CellIs
      <4>5. FailIsPrefix' /\ DumpIsHonest' /\ BoardIsAsFound'
        BY <1>0, <1>2, <2>1, <3>5, <4>3 DEF FailIsPrefix, DumpIsHonest, BoardIsAsFound
      <4> QED
        BY <1>2, <2>1, <3>4, <4>1, <4>4, <4>5, EndKeeps DEF NandReportIsTrue
    <3>6. CASE count # 0
      <4>1. 1 \in 1 .. count /\ 1 \in 1 .. m /\ (1 - 1) * m + 1 = 1
        BY <1>0, <3>6
      <4>2. (1 - 1) * m + 1 \in 1 .. count * m
        BY <1>0, <4>1, PlaceOf
      <4>3. at + 1 <= Len(Steps) /\ Current.op # "header"
        BY <1>0, <1>1, <1>5, <2>3, <4>1, <4>2
      <4>4. result' = result
        BY <4>3, Ends
      <4>5. OthersAre(1)' /\ InProgram(1, 1)'
        <5>1. 1 \in ToolPages /\ \A q \in ToolPages : ~(q < 1)
          BY <1>0, <4>1 DEF ToolPages
        <5>2. ~(1 \in 3 .. TOOL_CHUNKS + 3) /\ ~(1 > TOOL_CHUNKS + 3)
          BY <1>0
        <5> QED
          BY <2>1, <3>3, <5>1, <5>2 DEF OthersAre, InProgram
      <4> DEFINE i == 1  j == 1
      <4>6. /\ i \in 1 .. count' /\ j \in 1 .. m /\ at' = 2 + ((i - 1) * m + j) /\ OthersAre(i)' /\ InProgram(i, j)'
        BY <1>2, <3>4, <4>1, <4>5
      <4> HIDE DEF i, j
      <4>7. WriteAt'
        BY <2>1, <4>6 DEF WriteAt
      <4>8. ToolAt'
        BY <1>2, <3>4, <4>7 DEF ToolAt
      <4> QED
        BY <1>2, <3>4, <4>4, <4>8, RunKeeps
    <3> QED
      BY <3>5, <3>6
  <2> QED
    BY <2>2, <2>3
<1>8. CASE \E code \in Current.codes : OpFails(code)
  <2> PICK code \in Current.codes : OpFails(code)
    BY <1>8
  <2>1. at' = Len(Steps) + 1 /\ result' = [rc |-> code, fail |-> FailIndex]
    BY <1>5, FailsToEnd
  <2>2. FailIndex = count
    BY <1>5 DEF FailIndex
  <2>3. result'.rc # "ok" /\ result'.fail = count
    BY <1>5, <2>1, <2>2
  <2>4. dir_write' = FALSE /\ assigned' = FALSE
    BY <1>2, <1>3, Undone
  <2>5. ToolType' /\ ~(at' <= Len(Steps))
    BY <1>0, <1>1, <1>6, <2>1
  <2>6. WrittenIsReported' /\ FailIsPrefix'
    BY <1>2, <2>3 DEF WrittenIsReported, FailIsPrefix
  <2>7. DumpIsHonest' /\ BoardIsAsFound'
    BY <1>2, <2>4 DEF DumpIsHonest, BoardIsAsFound
  <2> QED
    BY <1>2, <2>5, <2>6, <2>7, EndKeeps DEF NandReportIsTrue
<1> QED
  BY <1>7, <1>8 DEF NandToolsNext

\* Programming a page leaves the others.
LEMMA PageFlash ==
  ASSUME ToolType, NEW p \in ToolPages, NEW ok \in BOOLEAN, ChipWorks(ok),
         Current.op # "erase", Current.op = "confirm" => Current.p = p
  PROVE  \A q \in ToolPages : q # p => cells'[q] = cells[q]
<1>1. CASE Current.op = "confirm"
  <2>1. cells' \in Programmed(ok) /\ Current.p = p
    BY <1>1 DEF ChipWorks
  <2>2. cells' = cells \/ \E x \in {"new", "bad", cells[p]} : cells' = [cells EXCEPT ![p] = x]
    BY <2>1 DEF Programmed
  <2> QED
    BY <2>2 DEF ToolType
<1>2. CASE Current.op # "confirm"
  BY <1>2 DEF ChipWorks
<1> QED
  BY <1>1, <1>2

\* An operation of a page that ends.
LEMMA PageDone ==
  ASSUME ToolType, NEW p \in ToolPages, NEW k \in 1 .. PROGRAM_OPS, IsPageOp(Current, p, k), InProgram(p, k),
         NEW ok \in BOOLEAN, OpDone(ok)
  PROVE  /\ k < PROGRAM_OPS => InProgram(p, k + 1)'
         /\ k = PROGRAM_OPS => CellIs(p, "new")' /\ dir_write' = FALSE
<1> DEFINE T == TOOL_CHUNKS
<1>0. T \in Nat \ {0} /\ PROGRAM_OPS = T + 5
  BY NandToolsAssumption DEF PROGRAM_OPS
<1>1. ChipWorks(ok) /\ refused \in Two /\ wp' = wp
  BY DEF OpDone, ToolType
<1>2. CASE k = 1
  <2>1. Current.op = "dir" /\ CellIs(p, "blank")
    BY <1>0, <1>2 DEF IsPageOp, InProgram
  <2>2. cells' = cells
    BY <1>1, <2>1, KeepsFlash
  <2>3. 2 \in 2 .. T + 4 /\ 2 \notin 3 .. T + 3 /\ ~(2 > T + 3) /\ k + 1 = 2 /\ k # PROGRAM_OPS
    BY <1>0, <1>2
  <2> QED
    BY <1>1, <2>1, <2>2, <2>3 DEF InProgram, CellIs
<1>3. CASE k = 2
  <2>1. Current.op = "start" /\ CellIs(p, "blank")
    BY <1>0, <1>3 DEF IsPageOp, InProgram
  <2>2. cells' = cells /\ pagereg' = 0
    BY <1>1, <2>1 DEF ChipWorks
  <2>3. 3 \in 2 .. T + 4 /\ ~(3 > T + 3) /\ k + 1 = 3 /\ k # PROGRAM_OPS /\ 3 - 3 = 0
    BY <1>0, <1>3
  <2> QED
    BY <1>1, <2>1, <2>2, <2>3 DEF InProgram, CellIs
<1>4. CASE k \in 3 .. T + 2
  <2>1. Current.op = "chunk" /\ CellIs(p, "blank") /\ pagereg = k - 3
    BY <1>0, <1>4 DEF IsPageOp, InProgram
  <2>2. cells' = cells /\ pagereg' = pagereg + 1
    BY <1>1, <2>1 DEF ChipWorks
  <2>3. k + 1 \in 2 .. T + 4 /\ ~(k + 1 > T + 3) /\ k # PROGRAM_OPS /\ pagereg' = k + 1 - 3
    BY <1>0, <1>4, <2>1, <2>2
  <2> QED
    BY <1>1, <2>1, <2>2, <2>3 DEF InProgram, CellIs
<1>5. CASE k = T + 3
  <2>1. Current.op = "confirm" /\ Current.p = p
    BY <1>0, <1>5 DEF IsPageOp
  <2>2. CellIs(p, "blank") /\ pagereg = TOOL_CHUNKS
    BY <1>0, <1>5 DEF InProgram
  <2>3. ASSUME wp = FALSE, ~refused' PROVE cells'[p] = "new"
    <3>1. refused' = ~ok /\ cells' \in Programmed(ok)
      BY <1>1, <2>1, <2>3 DEF ChipWorks
    <3>2. ok = TRUE
      BY <2>3, <3>1
    <3>3. cells' = [cells EXCEPT ![p] = "new"]
      BY <2>1, <2>2, <2>3, <3>1, <3>2 DEF Programmed, CellIs
    <3> QED
      BY <3>3 DEF ToolType
  <2>6. refused' \/ CellIs(p, "new")'
    BY <1>1, <2>3 DEF CellIs
  <2>7. /\ k + 1 \in 2 .. T + 4 /\ ~(k + 1 <= T + 3) /\ k # PROGRAM_OPS /\ k + 1 \notin 3 .. T + 3
    BY <1>0, <1>5
  <2> QED
    BY <2>6, <2>7 DEF InProgram
<1>6. CASE k = T + 4
  <2>1. Current.op = "undir" /\ (refused \/ CellIs(p, "new"))
    BY <1>0, <1>6 DEF IsPageOp, InProgram
  <2>2. cells' = cells /\ refused' = refused
    BY <1>1, <2>1, KeepsFlash
  <2>3. dir_write' = FALSE
    BY <2>1, DoneBits
  <2>4. /\ ~(k + 1 <= T + 3) /\ k # PROGRAM_OPS /\ k + 1 \notin 3 .. T + 3
    BY <1>0, <1>6
  <2> QED
    BY <1>1, <2>1, <2>2, <2>3, <2>4 DEF InProgram, CellIs
<1>7. CASE k = T + 5
  <2>1. Current.op = "status" /\ "FAIL" \in Current.codes
    BY <1>0, <1>7 DEF IsPageOp
  <2>2. ~refused
    BY <2>1 DEF OpDone, ToolFails
  <2>3. CellIs(p, "new") /\ dir_write = FALSE
    BY <1>0, <1>7, <2>2 DEF InProgram
  <2>4. cells' = cells
    BY <1>1, <2>1, KeepsFlash
  <2>5. dir_write' = FALSE
    BY <2>1, <2>3, DoneBits
  <2> QED
    BY <1>0, <1>1, <1>7, <2>3, <2>4, <2>5 DEF CellIs
<1>8. k = 1 \/ k = 2 \/ k \in 3 .. T + 2 \/ k = T + 3 \/ k = T + 4 \/ k = T + 5
  BY <1>0
<1> QED
  BY <1>2, <1>3, <1>4, <1>5, <1>6, <1>7, <1>8, Zenon

\* nf_write: a page is programmed.
LEMMA ProgramKeeps ==
  ASSUME NandInv, NandToolsNext, tool = "write", count \in 0 .. TOOL_PAGES,
         NEW p \in 1 .. count, NEW k \in 1 .. PROGRAM_OPS,
         at = 2 + ((p - 1) * PROGRAM_OPS + k), OthersAre(p), InProgram(p, k), assigned = FALSE
  PROVE  NandInv'
<1> DEFINE m == PROGRAM_OPS  o == (p - 1) * m
<1>0. m \in Nat \ {0} /\ TOOL_PAGES \in Nat /\ TOOL_CHUNKS \in Nat \ {0} /\ count * m \in Nat /\ m = TOOL_CHUNKS + 5
  BY NandToolsAssumption DEF PROGRAM_OPS
<1>1. Len(Steps) = 2 + count * m
  BY WriteSteps, SeqIs
<1>2. /\ ToolRuns /\ ToolType /\ result.rc = None /\ p \in ToolPages
      /\ tool' = tool /\ count' = count /\ wp' = wp /\ (ToolRuns' <=> at' <= Len(Steps)) /\ Current = Steps[at]
  BY <1>0, StepsStay DEF NandInv, Current, ToolPages
<1>3. IsPageOp(Current, p, k)
  <2>1. Current = nf_program_page(p)[k]
    BY <1>2, WriteSteps
  <2> QED
    BY <2>1, PageOp
<1>4. /\ Current.to = 0 /\ Current.op \in {"dir", "start", "chunk", "confirm", "undir", "status"}
      /\ Current.codes \subseteq {"SEQ", "DMA", "FAIL"} /\ (Current.codes # {} => Current.p = p) /\ (Current.op = "confirm" => Current.p = p)
      /\ Current.codes # {} => "dir" \in Current.undo \/ k = m
  BY <1>0, <1>3 DEF IsPageOp
<1>5. at' \in Nat \ {0} => ToolType'
  BY <1>2, <1>4, TypeKeeps
<1>6. o \in Nat /\ at = 2 + (o + k) /\ o + k \in 1 .. count * m
  BY <1>0, PlaceOf
<1>7. CASE \E ok \in BOOLEAN : OpDone(ok)
  <2> PICK ok \in BOOLEAN : OpDone(ok)
    BY <1>7
  <2>1. at' = at + 1 /\ assigned' = FALSE
    BY <1>4, Ends, DoneBits
  <2>2. ToolType'
    <3>1. at' = at + 1
      BY <2>1
    <3>2. at' \in Nat \ {0}
      BY <1>6, <3>1
    <3> QED
      BY <1>5, <3>2
  <2>3. \A q \in ToolPages : q # p => cells'[q] = cells[q]
    <3>1. ChipWorks(ok) /\ Current.op # "erase"
      BY <1>4 DEF OpDone
    <3> QED
      BY <1>2, <1>4, <3>1, PageFlash
  <2>4. OthersAre(p)'
    BY <1>2, <2>3 DEF OthersAre, CellIs, ToolPages
  <2>5. /\ k < m => InProgram(p, k + 1)'
        /\ k = m => CellIs(p, "new")' /\ dir_write' = FALSE
    BY <1>2, <1>3, PageDone
  <2>6. \/ /\ k < m /\ k + 1 \in 1 .. m
           /\ o + k + 1 = o + (k + 1) /\ o + k + 1 <= count * m
        \/ /\ k = m /\ p < count /\ p + 1 \in 1 .. count
           /\ o + k + 1 = (p + 1 - 1) * m + 1 /\ o + k + 1 <= count * m
        \/ k = m /\ p = count /\ o + k = count * m
    BY <1>0, NextPlace
  <2> HIDE DEF o, m
  <2>7. ASSUME o + k + 1 <= count * m, WriteAt' PROVE NandInv'
    <3>1. at + 1 <= Len(Steps)
      BY <1>0, <1>1, <1>6, <2>7
    <3>2. result' = result
      BY <1>4, <3>1, Ends
    <3>3. at' # 1
      <4>1. at' = at + 1
        BY <2>1
      <4> QED
        BY <1>6, <4>1
    <3>4. ToolAt'
      BY <1>2, <2>7, <3>3 DEF ToolAt
    <3> QED
      BY <1>2, <2>2, <3>2, <3>4, RunKeeps
  <2>8. CASE k < m
    <3> DEFINE j == k + 1
    <3>1. j \in 1 .. m /\ o + k + 1 = o + j /\ o + k + 1 <= count * m /\ InProgram(p, j)'
      BY <2>5, <2>6, <2>8
    <3> HIDE DEF j
    <3>2. at' = 2 + (o + j)
      <4>1. at' = at + 1
        BY <2>1
      <4> QED
        BY <1>6, <3>1, <4>1
    <3>3. WriteAt'
      BY <1>2, <2>1, <2>4, <3>1, <3>2 DEF WriteAt, o, m
    <3> QED
      BY <2>7, <3>1, <3>3
  <2>9. CASE k = m /\ p < count
    <3> DEFINE i == p + 1  j == 1
    <3>1. i \in 1 .. count /\ o + k + 1 = (i - 1) * m + j /\ o + k + 1 <= count * m /\ j \in 1 .. m
      BY <1>0, <2>6, <2>9
    <3>2. i \in ToolPages /\ \A q \in ToolPages : (q < i => q < p \/ q = p) /\ (q > i => q > p) /\ (i > p)
      BY <1>0, <2>9 DEF ToolPages
    <3>3. OthersAre(i)' /\ CellIs(i, "blank")'
      <4>1. \A q \in ToolPages : (q < p => CellIs(q, "new")') /\ (q > p => CellIs(q, "blank")')
        BY <2>4 DEF OthersAre
      <4>2. CellIs(p, "new")'
        BY <2>5, <2>9
      <4> HIDE DEF i
      <4>3. CellIs(i, "blank")'
        BY <3>2, <4>1
      <4>4. \A q \in ToolPages : (q < i => CellIs(q, "new")') /\ (q > i => CellIs(q, "blank")')
        BY <3>2, <4>1, <4>2
      <4> QED
        BY <4>3, <4>4 DEF OthersAre
    <3> HIDE DEF i
    <3>4. InProgram(i, j)'
      <4>1. ~(1 \in 3 .. TOOL_CHUNKS + 3) /\ ~(1 > TOOL_CHUNKS + 3)
        BY <1>0
      <4> QED
        BY <2>5, <2>9, <3>3, <4>1 DEF InProgram
    <3> HIDE DEF j
    <3>5. at' = 2 + ((i - 1) * m + j)
      <4>1. at' = at + 1
        BY <2>1
      <4> QED
        BY <1>6, <3>1, <4>1
    <3>6. WriteAt'
      BY <1>2, <2>1, <3>1, <3>3, <3>4, <3>5 DEF WriteAt, m
    <3> QED
      BY <2>7, <3>1, <3>6
  <2>10. CASE k = m /\ p = count
    <3>1. ~(at + 1 <= Len(Steps))
      BY <1>0, <1>1, <1>6, <2>6, <2>10
    <3>2. result' = [rc |-> IF errs > 0 THEN "errors" ELSE "ok", fail |-> count]
      BY <1>4, <3>1, Ends
    <3>3. result'.fail = count
      BY <3>2
    <3>4. WrittenIsReported'
      <4>1. \A q \in ToolPages : CellIs(q, IF q <= count THEN "new" ELSE "blank")'
        <5> TAKE q \in ToolPages
        <5>1. (q < p => CellIs(q, "new")') /\ (q > p => CellIs(q, "blank")') /\ CellIs(p, "new")'
          BY <2>4, <2>5, <2>10 DEF OthersAre
        <5>2. q < p \/ q = p \/ q > p
          BY DEF ToolPages
        <5> QED
          BY <1>2, <2>10, <5>1, <5>2 DEF CellIs, ToolPages
      <4> QED
        BY <1>2, <4>1 DEF WrittenIsReported, CellIs
    <3>5. FailIsPrefix' /\ DumpIsHonest' /\ BoardIsAsFound'
      <4>1. ~(count < count)
        BY <1>0
      <4> QED
        BY <1>2, <2>1, <2>5, <2>10, <3>3, <4>1 DEF FailIsPrefix, DumpIsHonest, BoardIsAsFound
    <3> QED
      BY <1>2, <2>1, <2>2, <3>1, <3>4, <3>5, EndKeeps DEF NandReportIsTrue
  <2> QED
    BY <2>6, <2>8, <2>9, <2>10
<1>8. CASE \E code \in Current.codes : OpFails(code)
  <2> PICK code \in Current.codes : OpFails(code)
    BY <1>8
  <2>1. at' = Len(Steps) + 1 /\ result' = [rc |-> code, fail |-> FailIndex] /\ Current.p = p
    BY <1>4, FailsToEnd
  <2>2. FailIndex = p - 1
    <3>1. p > 0
      OBVIOUS
    <3> QED
      BY <2>1, <3>1 DEF FailIndex
  <2>3. result'.rc # "ok" /\ result'.fail = p - 1
    BY <1>4, <2>1, <2>2
  <2>4. dir_write' = FALSE /\ assigned' = FALSE
    <3>1. k = m => dir_write = FALSE
      BY <1>0 DEF InProgram
    <3> QED
      BY <1>2, <1>4, <3>1, Undone
  <2>5. ToolType' /\ ~(at' <= Len(Steps))
    <3>1. at' \in Nat \ {0} /\ ~(at' <= Len(Steps))
      BY <1>0, <1>1, <2>1
    <3> QED
      BY <1>5, <3>1
  <2>6. \A q \in ToolPages : q # p => cells'[q] = cells[q]
    <3>1. ChipWorks(FALSE) /\ Current.op # "erase"
      BY <1>4 DEF OpFails
    <3> QED
      BY <1>2, <1>4, <3>1, PageFlash
  <2>7. FailIsPrefix'
    <3>1. p - 1 + 1 = p
      OBVIOUS
    <3>2. wp = FALSE => \A q \in ToolPages \ {p} : cells'[q] = (IF q <= p - 1 THEN "new" ELSE "blank")
      <4> HAVE wp = FALSE
      <4> TAKE q \in ToolPages \ {p}
      <4>1. (q < p /\ q <= p - 1) \/ (q > p /\ ~(q <= p - 1))
        BY DEF ToolPages
      <4> QED
        BY <2>6, <4>1 DEF OthersAre, CellIs
    <3> QED
      BY <1>2, <2>3, <3>1, <3>2 DEF FailIsPrefix, ToolType, Two
  <2>8. WrittenIsReported' /\ DumpIsHonest' /\ BoardIsAsFound'
    BY <1>2, <2>3, <2>4 DEF WrittenIsReported, DumpIsHonest, BoardIsAsFound
  <2> QED
    BY <1>2, <2>5, <2>7, <2>8, EndKeeps DEF NandReportIsTrue
<1> QED
  BY <1>7, <1>8 DEF NandToolsNext

\* A step of any program.
LEMMA NandInvNext ==
  ASSUME NandInv, [NandToolsNext]_tool_vars
  PROVE  NandInv'
<1>1. CASE UNCHANGED tool_vars
  <2>1. Steps' = Steps /\ Current' = Current
    BY <1>1 DEF tool_vars, Steps, Current
  <2>2. ToolType' /\ (ToolRuns' <=> ToolRuns) /\ result' = result
    BY <1>1, <2>1 DEF NandInv, tool_vars, ToolType, ToolRuns
  <2>3. NandReportIsTrue => NandReportIsTrue'
    BY <1>1 DEF tool_vars, NandReportIsTrue, WrittenIsReported, FailIsPrefix, DumpIsHonest, BoardIsAsFound
  <2>4. ToolAt => ToolAt'
    BY <1>1 DEF tool_vars, ToolAt, WriteAt, OthersAre, InProgram, CellIs, ReadAt, OldCells, IsOld, IsOnes, OldBefore,
                CopyAt, Dumped, AssignedAt, ProbeWriteAt
  <2> QED
    BY <2>2, <2>3, <2>4 DEF NandInv
<1>2. CASE NandToolsNext
  <2>1. /\ tool \in ToolNames /\ TOOL_PAGES \in Nat /\ count \in Nat /\ ToolRuns
        /\ tool \in {"write", "read"} => count \in 0 .. TOOL_PAGES + 1
    BY <1>2, CountOf, StepsStay DEF NandInv, ToolType
  <2>2. CASE tool \in {"write", "read"} /\ (count > TOOL_PAGES \/ (tool = "read" /\ count = 0))
    BY <1>2, <2>2, ArgKeeps
  <2>3. CASE tool = "write" /\ ~(count > TOOL_PAGES)
    <3>1. count \in 0 .. TOOL_PAGES /\ WriteAt
      BY <2>1, <2>3 DEF NandInv, ToolAt
    <3>2. CASE at \in {1, 2}
      BY <1>2, <2>3, <3>1, <3>2, EraseKeeps
    <3>3. CASE at \notin {1, 2}
      <4>1. PICK p \in 1 .. count, k \in 1 .. PROGRAM_OPS :
              at = 2 + ((p - 1) * PROGRAM_OPS + k) /\ OthersAre(p) /\ InProgram(p, k)
        BY <3>1, <3>3 DEF WriteAt
      <4>2. assigned = FALSE
        BY <3>1 DEF WriteAt
      <4> QED
        BY <1>2, <2>3, <3>1, <4>1, <4>2, ProgramKeeps
    <3> QED
      BY <3>2, <3>3
  <2>4. CASE tool = "read" /\ ~(count > TOOL_PAGES) /\ count # 0
    <3>1. count \in 1 .. TOOL_PAGES
      BY <2>1, <2>4
    <3> QED
      BY <1>2, <2>4, <3>1, ReadKeeps
  <2>5. CASE tool = "copy"
    BY <1>2, <2>5, CopyKeeps
  <2>6. CASE tool = "id"
    BY <1>2, <2>6, IdKeeps
  <2>7. CASE tool = "min"
    BY <1>2, <2>7, MinKeeps
  <2>8. CASE tool = "probe_write"
    BY <1>2, <2>8, ProbeWriteKeeps
  <2>9. CASE tool = "probe_read"
    BY <1>2, <2>9, ProbeReadKeeps
  <2> QED
    BY <2>1, <2>2, <2>3, <2>4, <2>5, <2>6, <2>7, <2>8, <2>9 DEF ToolNames
<1> QED
  BY <1>1, <1>2

(* What a NAND program reports is what happened, for every size of the     *)
(* block, of a page and of the lists of the probes: on a chip that is not  *)
(* write protected a stub that says ok has written its pages and a failure *)
(* says where it stopped; a dump is whole pages; the L2 buffer reads again *)
(* and the USB has its buffers.  Only the programs that do not save        *)
(* L2_ASSIGN leave the NAND bound in it (nf_write.c, nf_read.c, nf_common, *)
(* nand_copy.c, nand_id.c, the NAND probes).                               *)
THEOREM NandReportIsTrueTheorem == NandToolsSpec => []NandReportIsTrue
<1>1. NandInv => NandReportIsTrue
  BY NoResult DEF NandInv
<1>2. NandToolsSpec => []NandInv
  BY NandInvInit, NandInvNext, PTL DEF NandToolsSpec
<1> QED
  BY <1>1, <1>2, PTL

=============================================================================
