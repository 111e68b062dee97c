------------------------------- MODULE Timer -------------------------------
(***************************************************************************)
(* The clock of the bare-metal programs (baremetal/lib/timer.c): a         *)
(* hardware counter that counts down and wraps, and the running total that *)
(* timer_ms keeps of it.  payload_call stops the counter, runs the payload *)
(* and starts it again (baremetal/aipc-boot/boot.c).                       *)
(*                                                                         *)
(* Time is in ticks; the division by TICKS_PER_MS is left out.             *)
(***************************************************************************)
EXTENDS Integers

CONSTANTS WRAP,     \* TIMER_COUNT_MASK + 1
          MaxReal   \* bound on the ticks of a run

ASSUME TimerAssumption == WRAP \in Nat \ {0} /\ MaxReal \in Nat

VARIABLES
  live,     \* the counter
  on,       \* it counts
  last,     \* s_last_raw
  total,    \* s_total_ticks
  answer,   \* the last result of timer_ms, or 0
  real,     \* ghost: ticks since timer_init
  gap,      \* ghost: ticks since the total was brought up to date
  late      \* ghost: a gap since timer_init was as long as the counter

vars == <<live, on, last, total, answer, real, gap, late>>

Init ==
  /\ live \in 0 .. WRAP - 1 /\ on = FALSE
  /\ last = 0 /\ total = 0 /\ answer = 0 /\ real = 0 /\ gap = 0 /\ late = FALSE

\* The counter is loaded with its mask and starts.
timer_init ==
  /\ live' = WRAP - 1 /\ on' = TRUE /\ last' = WRAP - 1
  /\ total' = 0 /\ answer' = 0 /\ real' = 0 /\ gap' = 0 /\ late' = FALSE

timer_stop ==
  /\ on /\ on' = FALSE
  /\ UNCHANGED <<live, last, total, answer, real, gap, late>>

\* The difference of two counts, under TIMER_COUNT_MASK.
masked(d) == IF d < 0 THEN d + WRAP ELSE d

\* Mutant: the wrap is not seen.
timer_ms_no_mask ==
  /\ on
  /\ LET d == IF last > live THEN last - live ELSE 0
     IN total' = total + d /\ answer' = total + d
  /\ last' = live /\ gap' = 0
  /\ UNCHANGED <<live, on, real, late>>

timer_ms ==
  /\ on
  /\ total' = total + masked(last - live) /\ answer' = total'
  /\ last' = live /\ gap' = 0
  /\ UNCHANGED <<live, on, real, late>>

\* The hardware counts one tick.
Count ==
  /\ on /\ real < MaxReal
  /\ live' = IF live = 0 THEN WRAP - 1 ELSE live - 1
  /\ real' = real + 1 /\ gap' = gap + 1
  /\ late' = (late \/ gap + 1 >= WRAP)
  /\ UNCHANGED <<on, last, total, answer>>

Next == timer_init \/ timer_stop \/ timer_ms \/ Count

Spec == Init /\ [][Next]_vars

-----------------------------------------------------------------------------
(* Properties.                                                             *)

(* The clock is exact to the tick, across any number of wraps, as long as  *)
(* timer_ms is called more often than the counter wraps: what timer.h asks *)
(* of its callers is enough.                                               *)
Exact == on /\ ~late => total + gap = real

(* A caller never sees the time ahead of the true time, not even after it  *)
(* was late, so that no timeout ends early.                                *)
NeverAhead == answer <= real

=============================================================================
