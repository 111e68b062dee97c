------------------------------ MODULE Touchpad ------------------------------
(***************************************************************************)
(* The touchpad probe (probes/touchpad/stub/touchpad_probe.c): PS/2 by     *)
(* hand on two lines that either side can pull low.  The pad is external:  *)
(* it makes the clock, gives up a frame when the host holds the clock, and *)
(* takes a command when the host asks with the data line.                  *)
(*                                                                         *)
(* The host polls many times in half a clock of the pad, so the pad moves  *)
(* only while the host waits for a level that is not there; and it moves   *)
(* within the timeout, unless it is silent.  What is only recorded (the    *)
(* trace of levels, the ticks, the copies of registers) is left out.       *)
(***************************************************************************)
EXTENDS Integers, Sequences, FiniteSets

CONSTANTS
  BITS,          \* of a byte
  Code,          \* the byte of each command
  ACK, RESEND, MOVE,   \* bytes of the pad: two replies, and a datum
  InitCommands,  \* commands of run_init after the reset
  MaxPolls,      \* bound: cycles of run_poll
  MaxMoves,      \* bound: data that the pad sends on its own
  MaxPadFaults   \* bound: levels read wrong, and a pad that falls silent

Lines == {"clock", "data"}
Values_ == [1 .. BITS -> {0, 1}]
Odd(bits) == (Cardinality({i \in DOMAIN bits : bits[i] = 1}) % 2) = 1

ASSUME TouchpadAssumption ==
  /\ {BITS, MaxPolls} \subseteq Nat \ {0} /\ {MaxMoves, MaxPadFaults} \subseteq Nat
  /\ {ACK, RESEND, MOVE} \subseteq Values_ /\ ACK # RESEND
  /\ \A c \in DOMAIN Code : Code[c] \in Values_ /\ \A d \in DOMAIN Code : Code[c] = Code[d] => c = d

VARIABLES
  mode,          \* the build of the probe
  at,            \* the step of its run_ function
  todo_,         \* what it does: configure, send, ack, more, capture, idle, restore, done
  n,             \* the level that it waits for, of a byte or of the set-up
  bits,          \* bits read of a frame
  more,          \* bytes of a reply still to come
  pins,          \* [dir: the outputs, out: the ones at 1, uart: the pads belong to UART1]
  before,        \* pin_state, and the pins as they were
  send_status, rx, polls,
  pad,           \* external: [st, k, low, frame, queue, seen, on, taken, last]
  glitch,        \* a bit of the frame that is being read was read wrong
  pfaults, pmoves

pad_host == <<mode, at, todo_, n, bits, more, pins, before, send_status, rx, polls>>
touchpad_vars == <<pad_host, pad, glitch, pfaults, pmoves>>

-----------------------------------------------------------------------------
(* Lines.                                                                  *)

HostPulls(l) == ~pins.uart /\ l \in pins.dir /\ l \notin pins.out
Level(l) == IF HostPulls(l) \/ l \in pad.low THEN 0 ELSE 1
clock == Level("clock")
data == Level("data")

line_release(p, ls) == [p EXCEPT !.dir = @ \ ls]
line_low(p, ls) == [p EXCEPT !.out = @ \ ls, !.dir = @ \cup ls]
set_data_bit(p, b) == IF b = 1 THEN line_release(p, {"data"}) ELSE line_low(p, {"data"})

-----------------------------------------------------------------------------
(* What each build does: a command and the bytes after its ACK; in init, a *)
(* step that fails goes to the last one.                                   *)

S(c, m) == [cmd |-> c, more |-> m, strict |-> FALSE]
Strict(c, m) == [cmd |-> c, more |-> m, strict |-> TRUE]
capture == [cmd |-> "capture", more |-> 0, strict |-> FALSE]
More(c) == CASE c = "id" -> 1 [] c \in {"status", "poll"} -> 3 [] c = "reset" -> 2 [] OTHER -> 0

run_diagnostic == <<S("off", 0), S("id", 1), S("status", 3)>>
run_poll == <<S("off", 0), S("remote", 0), S("poll", 3), S("stream", 0), S("off", 0)>>
run_init ==
  <<Strict("reset", 2)>> \o [i \in DOMAIN InitCommands |-> Strict(InitCommands[i], IF InitCommands[i] = "id" THEN 1 ELSE 0)]
    \o <<capture, S("off", 0)>>
run_active == <<S("on", 0), capture, S("off", 0)>>
run_passive == <<capture>>

Runs == [diagnostic |-> run_diagnostic, poll |-> run_poll, init |-> run_init, active |-> run_active, passive |-> run_passive]
run == Runs[mode]
cmd == run[at].cmd

-----------------------------------------------------------------------------
(* ps2_send: the levels it waits for, in order, and what it does at each.  *)

LastClock == 2 * (BITS + 2) + 3
SendEnd == LastClock + 3

SendWants(i) ==
  CASE i = 1 -> clock = 1 /\ data = 1
    [] i = LastClock + 1 -> data = 0
    [] i = LastClock + 2 -> clock = 1
    [] i = SendEnd -> data = 1
    [] OTHER -> clock = IF (i % 2) = 0 THEN 1 ELSE 0

\* Mutant: an even parity.
SendBit_even(c, j) == IF j <= BITS THEN c[j] ELSE IF j = BITS + 1 /\ ~Odd(c) THEN 0 ELSE 1

\* The bits after the start: the byte, the parity, the stop.
SendBit(c, j) == IF j <= BITS THEN c[j] ELSE IF j = BITS + 1 /\ Odd(c) THEN 0 ELSE 1

\* The status of a wait that times out.
SendCode(i) ==
  CASE i <= 3 -> i
    [] i > LastClock -> i - LastClock + 9
    [] i <= 2 * BITS + 3 -> 4 + (i % 2)
    [] OTHER -> i - 2 * BITS + 2

(* ps2_read_byte.                                                          *)
FrameLen == BITS + 3
ReadWants(i) == clock = IF (i % 2) = 1 THEN 0 ELSE 1

\* Mutant: the parity goes unchecked.
ps2_read_valid_parity(f) == f[1] = 0 /\ f[FrameLen] = 1

ps2_read_valid(f) == f[1] = 0 /\ Odd(SubSeq(f, 2, FrameLen - 1)) /\ f[FrameLen] = 1

Nothing == [byte |-> RESEND, valid |-> FALSE, from |-> "none", wrong |-> FALSE, sent |-> RESEND]

-----------------------------------------------------------------------------
(* The host.                                                               *)

Begin(i) ==
  /\ at' = i /\ bits' = <<>> /\ more' = 0
  /\ IF i > Len(run) THEN n' = 1 /\ todo_' = (IF mode = "passive" THEN "done" ELSE "restore")
     ELSE IF run[i].cmd = "capture" THEN n' = 1 /\ todo_' = "capture"
     ELSE n' = 0 /\ todo_' = "send"

\* The end of a step; run_poll goes round until its time is over.
StepEnds(ok) ==
  /\ IF cmd = "poll" THEN todo_' = "idle" /\ n' = 0 /\ bits' = <<>> /\ more' = 0 /\ UNCHANGED at
     ELSE Begin(IF run[at].strict /\ ~ok THEN Len(run) ELSE at + 1)

configure_gpio_lines(i, p) ==
  CASE i = 1 -> line_release(p, Lines) [] i = 2 -> [p EXCEPT !.out = @ \ Lines] [] OTHER -> [p EXCEPT !.uart = FALSE]

restore_gpio_lines(i, p) ==
  CASE i = 1 -> line_release(p, Lines) [] i = 2 -> [p EXCEPT !.out = before.out]
    [] i = 3 -> [p EXCEPT !.uart = before.uart] [] OTHER -> [p EXCEPT !.dir = before.dir]

set_up ==
  /\ todo_ = "configure" /\ pins' = configure_gpio_lines(n, pins)
  /\ IF n = 3 THEN Begin(1) ELSE n' = n + 1 /\ UNCHANGED <<at, todo_, bits, more>>
  /\ UNCHANGED <<mode, before, send_status, rx, polls, pad, glitch, pfaults, pmoves>>

put_back ==
  /\ todo_ = "restore" /\ pins' = restore_gpio_lines(n, pins)
  /\ IF n = 4 THEN todo_' = "done" /\ n' = 0 ELSE n' = n + 1 /\ UNCHANGED todo_
  /\ UNCHANGED <<mode, at, bits, more, before, send_status, rx, polls, pad, glitch, pfaults, pmoves>>

\* The delay holds the clock until the pad has seen it; n is 0 before the
\* first wait and SendEnd + 1 in the delay.
ps2_send ==
  /\ todo_ = "send"
  /\ \/ n = 0 /\ pins' = line_release(pins, Lines) /\ n' = 1 /\ UNCHANGED <<at, todo_, bits, more, send_status>>
     \/ /\ n = 1 /\ SendWants(1) /\ pins' = line_low(pins, {"clock"}) /\ n' = SendEnd + 1
        /\ UNCHANGED <<at, todo_, bits, more, send_status>>
     \/ /\ n = SendEnd + 1 /\ pad.st \in {"idle", "silent"}
        /\ pins' = line_release(line_low(pins, {"data"}), {"clock"}) /\ n' = 2
        /\ UNCHANGED <<at, todo_, bits, more, send_status>>
     \/ /\ n \in 2 .. SendEnd - 1 /\ SendWants(n) /\ n' = n + 1
        /\ pins' = (IF (n % 2) = 1 /\ n >= 3 /\ n < LastClock
                    THEN set_data_bit(pins, SendBit(Code[cmd], (n - 1) \div 2)) ELSE pins)
        /\ UNCHANGED <<at, todo_, bits, more, send_status>>
     \/ /\ n = SendEnd /\ SendWants(n) /\ send_status' = 0 /\ todo_' = "ack" /\ n' = 1 /\ bits' = <<>>
        /\ UNCHANGED <<at, more, pins>>
  /\ glitch' = FALSE
  /\ UNCHANGED <<mode, before, rx, polls, pad, pfaults, pmoves>>

\* A bit is sampled when the clock is low.
Sample(flip) ==
  /\ todo_ \in {"ack", "more", "capture"} /\ mode # "passive" /\ (n % 2) = 1 /\ ReadWants(n)
  /\ bits' = Append(bits, IF flip THEN 1 - data ELSE data) /\ n' = n + 1
  /\ IF flip THEN pfaults < MaxPadFaults /\ pfaults' = pfaults + 1 /\ glitch' = TRUE
     ELSE UNCHANGED <<pfaults, glitch>>
  /\ UNCHANGED <<mode, at, todo_, more, pins, before, send_status, rx, polls, pad, pmoves>>

ClockRises ==
  /\ todo_ \in {"ack", "more", "capture"} /\ mode # "passive" /\ (n % 2) = 0 /\ n < 2 * FrameLen /\ ReadWants(n)
  /\ n' = n + 1
  /\ UNCHANGED <<mode, at, todo_, bits, more, pins, before, send_status, rx, polls, pad, glitch, pfaults, pmoves>>

\* Mutant: any byte is taken for the reply.
is_reply_any(r, c) == r.valid

is_reply(r, c) == r.valid /\ r.byte = c

\* What comes after a read that gave r.
Stored(r) ==
  CASE todo_ = "capture" -> n' = 1 /\ bits' = <<>> /\ UNCHANGED <<at, todo_, more>>
    [] todo_ = "ack" -> IF is_reply(r, ACK) /\ run[at].more > 0
                        THEN todo_' = "more" /\ more' = run[at].more /\ n' = 1 /\ bits' = <<>> /\ UNCHANGED at
                        ELSE StepEnds(is_reply(r, ACK))
    [] OTHER -> IF more > 1 /\ (r.valid \/ ~run[at].strict)
                THEN more' = more - 1 /\ n' = 1 /\ bits' = <<>> /\ UNCHANGED <<at, todo_>>
                ELSE StepEnds(r.valid)

store_rx ==
  /\ todo_ \in {"ack", "more", "capture"} /\ n = 2 * FrameLen /\ ReadWants(n)
  /\ rx' = [byte |-> SubSeq(bits, 2, BITS + 1), valid |-> ps2_read_valid(bits), from |-> pad.last.of, wrong |-> glitch,
            sent |-> pad.last.byte]
  /\ Stored(rx') /\ glitch' = FALSE
  /\ UNCHANGED <<mode, pins, before, send_status, polls, pad, pfaults, pmoves>>

Waits ==
  \/ todo_ = "send" /\ n \in 1 .. SendEnd /\ ~SendWants(n)
  \/ todo_ = "send" /\ n = SendEnd + 1
  \/ todo_ \in {"ack", "more", "capture"} /\ mode # "passive" /\ ~ReadWants(n)
  \/ todo_ = "capture" /\ mode = "passive"
  \/ todo_ = "idle"

\* The pad does nothing before the host does.
Quiet ==
  /\ pad.st \in {"idle", "silent"}
  /\ pad.st = "idle" => ~(clock = 1 /\ (data = 0 \/ pad.queue # <<>>))

\* Mutant: a send that times out tries again.
wait_lines_again ==
  /\ Waits /\ Quiet /\ todo_ \in {"send", "ack", "more"} /\ n <= SendEnd
  /\ IF todo_ = "send" THEN n' = 0 /\ UNCHANGED <<at, todo_, bits, more, send_status, rx>>
     ELSE rx' = Nothing /\ Stored(Nothing) /\ UNCHANGED send_status
  /\ glitch' = FALSE
  /\ UNCHANGED <<mode, pins, before, polls, pad, pfaults, pmoves>>

\* wait_lines times out: the send has a status, the read gives nothing.
wait_lines ==
  /\ Waits /\ Quiet /\ todo_ \in {"send", "ack", "more"} /\ n <= SendEnd
  /\ IF todo_ = "send"
     THEN send_status' = SendCode(n) /\ StepEnds(FALSE) /\ UNCHANGED rx
     ELSE rx' = Nothing /\ Stored(Nothing) /\ UNCHANGED send_status
  /\ glitch' = FALSE
  /\ UNCHANGED <<mode, pins, before, polls, pad, pfaults, pmoves>>

\* The time of a capture, or of a cycle of run_poll, is over, in a frame too.
TimeIsOver ==
  /\ todo_ \in {"capture", "idle"} /\ Waits
  /\ \/ Begin(at + 1) /\ UNCHANGED polls
     \/ todo_ = "idle" /\ polls < MaxPolls /\ polls' = polls + 1 /\ Begin(at)
  /\ glitch' = FALSE
  /\ UNCHANGED <<mode, pins, before, send_status, rx, pad, pfaults, pmoves>>

-----------------------------------------------------------------------------
(* The pad (external).                                                     *)

Frame(b) == <<0>> \o b \o <<IF Odd(b) THEN 0 ELSE 1, 1>>
Reply(c) == <<[byte |-> ACK, of |-> c]>> \o [i \in 1 .. More(c) |-> [byte |-> MOVE, of |-> c]]
Resend == [byte |-> RESEND, of |-> "bad"]

PadStarts ==
  /\ pad.st = "idle" /\ clock = 1 /\ (data = 1 => pad.queue # <<>>)
  /\ pad' = IF data = 0 THEN [pad EXCEPT !.st = "take", !.k = 1, !.queue = <<>>, !.seen = <<>>]
            ELSE [pad EXCEPT !.st = "give", !.k = 1, !.frame = Frame(Head(pad.queue).byte), !.last = Head(pad.queue)]
  /\ UNCHANGED pfaults

\* The clock goes down with the bit, and up again; held by the host, it ends
\* the frame, which is sent again later.
PadGives ==
  /\ pad.st = "give" /\ UNCHANGED pfaults
  /\ pad' = IF "clock" \notin pad.low /\ clock = 0 THEN [pad EXCEPT !.st = "idle", !.low = {}]
            ELSE IF "clock" \notin pad.low
            THEN [pad EXCEPT !.low = {"clock"} \cup (IF pad.frame[pad.k] = 0 THEN {"data"} ELSE {})]
            ELSE IF pad.k < FrameLen THEN [pad EXCEPT !.low = @ \ {"clock"}, !.k = @ + 1]
            ELSE [pad EXCEPT !.low = {}, !.st = "idle", !.queue = Tail(@)]

\* A bit is taken when the clock goes up; the last clock acknowledges.
PadTakes(flip) ==
  /\ pad.st = "take"
  /\ pad' = IF "clock" \notin pad.low
            THEN [pad EXCEPT !.low = IF pad.k = BITS + 3 THEN Lines ELSE {"clock"}]
            ELSE IF pad.k < BITS + 3
            THEN [pad EXCEPT !.low = {}, !.k = @ + 1, !.seen = Append(@, IF flip THEN 1 - data ELSE data)]
            ELSE [pad EXCEPT !.low = {"data"}, !.st = "end"]
  /\ flip => "clock" \in pad.low /\ pad.k < BITS + 3 /\ pfaults < MaxPadFaults
  /\ pfaults' = pfaults + IF flip THEN 1 ELSE 0

PadObeys ==
  /\ pad.st = "end" /\ UNCHANGED pfaults
  /\ LET b == SubSeq(pad.seen, 1, BITS)
         good == Odd(SubSeq(pad.seen, 1, BITS + 1)) /\ pad.seen[BITS + 2] = 1 /\ \E c \in DOMAIN Code : Code[c] = b
         c == CHOOSE x \in DOMAIN Code : Code[x] = b
     IN pad' = IF ~good THEN [pad EXCEPT !.st = "idle", !.low = {}, !.queue = <<Resend>>, !.taken = "none"]
               ELSE [pad EXCEPT !.st = "idle", !.low = {}, !.queue = Reply(c), !.taken = c,
                                !.on = (c = "on") \/ (@ /\ c \notin {"off", "reset", "remote"})]

\* A finger, while the pad may send; the end of the pad.
PadMoves ==
  /\ pad.st = "idle" /\ pad.on /\ pad.queue = <<>> /\ pmoves < MaxMoves /\ pmoves' = pmoves + 1
  /\ pad' = [pad EXCEPT !.queue = <<[byte |-> MOVE, of |-> "stream"]>>] /\ UNCHANGED pfaults

PadFallsSilent ==
  /\ pad.st # "silent" /\ pfaults < MaxPadFaults /\ pfaults' = pfaults + 1
  /\ pad' = [pad EXCEPT !.st = "silent", !.low = {}] /\ UNCHANGED pmoves

PadClocks ==
  Waits /\ (PadStarts \/ PadGives \/ PadObeys \/ \E flip \in BOOLEAN : PadTakes(flip)) /\ UNCHANGED <<pad_host, glitch, pmoves>>

Pad == PadClocks \/ (Waits /\ (PadMoves \/ PadFallsSilent) /\ UNCHANGED <<pad_host, glitch>>)

-----------------------------------------------------------------------------
TouchpadInit ==
  /\ mode \in DOMAIN Runs /\ at = 1 /\ n = 1 /\ bits = <<>> /\ more = 0
  /\ todo_ = (IF mode = "passive" THEN "capture" ELSE "configure")
  /\ pins \in [dir : {{}, Lines}, out : {{}, Lines}, uart : {TRUE}] /\ before = pins
  /\ send_status = 0 /\ rx = Nothing /\ polls = 1 /\ glitch = FALSE /\ pfaults = 0 /\ pmoves = 0
  /\ \E on \in BOOLEAN :
       pad = [st |-> "idle", k |-> 1, low |-> {}, frame |-> <<>>, queue |-> <<>>, seen |-> <<>>, on |-> on,
              taken |-> "none", last |-> Resend]

TouchpadHost ==
  \/ set_up \/ ps2_send \/ ClockRises \/ store_rx \/ wait_lines \/ TimeIsOver \/ put_back
  \/ \E flip \in BOOLEAN : Sample(flip)

TouchpadNext == TouchpadHost \/ Pad

\* The probe runs; a capture has a length; the pad that is not silent goes on.
TouchpadFairness == WF_touchpad_vars(TouchpadHost) /\ WF_touchpad_vars(PadClocks)
TouchpadSpec == TouchpadInit /\ [][TouchpadNext]_touchpad_vars /\ TouchpadFairness

-----------------------------------------------------------------------------
(* Properties.                                                             *)

(* A byte that is stored as valid is the one that the pad sent, and a byte *)
(* that is stored as wrong was read wrong: over frames that the end of a   *)
(* capture, or a command, cut off (ps2_read_byte, ps2_send).               *)
ValidIsSent == rx # Nothing => (rx.valid <=> ~rx.wrong) /\ (rx.valid => rx.byte = rx.sent)

(* A reply that counts as an ACK is the pad's to the command that was just *)
(* sent, which it took as it is: not what it was about to send before, and *)
(* not a byte that a finger made, the same byte though it be (is_reply,    *)
(* store_rx).                                                              *)
AckMeansTaken ==
  [][todo_ = "ack" /\ todo_' # "ack" /\ (todo_' = "more" \/ is_reply(rx', ACK)) => rx'.from = cmd /\ pad.taken = cmd]_touchpad_vars

(* A pad without faults takes every command and acknowledges it, although  *)
(* commands cut its frames off, and is left silent by every build that     *)
(* sends commands.                                                         *)
FaultFreeIsTaken ==
  pfaults = 0 => /\ send_status = 0
                 /\ rx # Nothing => rx.valid /\ rx.from # "bad"
                 /\ todo_ = "done" /\ mode # "passive" => ~pad.on

(* What the probe records is what happened on the lines: no wrong byte is  *)
(* stored as valid, and no good pad is found at fault.                     *)
CaptureIsTrue == ValidIsSent /\ FaultFreeIsTaken

(* The probe ends, with a pad that falls silent at any edge (wait_lines).  *)
ProbeEnds == <>(todo_ = "done")
=============================================================================
