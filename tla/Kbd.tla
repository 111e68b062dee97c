-------------------------------- MODULE Kbd --------------------------------
(***************************************************************************)
(* The internal keyboard: the CH374 host driver (baremetal/lib/ch374.c)    *)
(* with its two clients, the key map of the menu (aipc-boot/kbd.c) and the *)
(* one of doom (doom/src/ch374_keyboard.c), and the USB keyboard behind    *)
(* the bridge, which can be lost at any step.                              *)
(*                                                                         *)
(* A control transfer and an interrupt IN token are one step each, with    *)
(* what ch374_issue_token makes of r9 and r10 as their outcome.  The delay *)
(* of one second is a flag.  A failed SPI transfer shows as the outcome    *)
(* that the register value 0 gives.                                        *)
(***************************************************************************)
EXTENDS Integers, Sequences, FiniteSets

CONSTANTS Keys,           \* usages that go in a slot
          Modifiers,      \* usages of the modifier bits
          SLOTS,          \* 6 slots in a report
          QUEUE_SIZE, KEY_QUEUE_SIZE, MAX_REPORTS_PER_POLL,
          DoomKey(_),     \* usage_to_doom_key, 0 for none
          MenuKey(_),     \* usage_to_key of the menu, 0 for none
          MaxPlugs, MaxErrors, MaxMoves   \* bounds: replugs, bad tokens, key changes

CH374_USAGE_MODIFIER_BASE == 224
RollOver == 1        \* all slots, when more keys are down than slots
Usages == Keys \cup Modifiers

\* No doom key has as many usages as its count can hold (the table gives it two),
\* and the roll-over code gives none.
ASSUME KbdAssumption ==
  /\ Keys \subseteq Nat \ {0, RollOver} /\ IsFiniteSet(Keys) /\ Keys \cap Modifiers = {}
  /\ Modifiers \subseteq CH374_USAGE_MODIFIER_BASE .. CH374_USAGE_MODIFIER_BASE + 7
  /\ {SLOTS, MAX_REPORTS_PER_POLL} \subseteq Nat \ {0}
  /\ {QUEUE_SIZE, KEY_QUEUE_SIZE} \subseteq Nat \ {0, 1}
  /\ DoomKey(RollOver) = 0
  /\ \A v \in Usages : Cardinality({u \in Usages : DoomKey(u) = DoomKey(v)}) < 255

VARIABLES
  \* the keyboard and the bridge
  kbd,              \* [attached, addr, cfg, toggle, down, news]; news: a report waits
  detect,           \* the detect bit of r9 is up
  \* the driver
  s_ready, s_in_toggle, s_prev_keys, s_prev_modifiers, s_queue,
  due,              \* timer_ms() >= s_next_enumerate_ms
  kpc, reports,     \* where it is, reports read in this poll
  \* the client
  client,           \* "menu" or "doom"
  s_refcount, doom_queue,
  \* ghosts
  seen,             \* usages that are down by the events popped so far
  game,             \* doom keys that are down by the events of doom_queue popped so far
  lost,             \* usages of which an event was dropped
  forgot,           \* usages down when the keyboard was enumerated, not in a report since
  doom_lost,        \* doom keys of which an event was dropped
  stuck,            \* doom keys of which a usage was pressed while it was down
  plugs, errors, moves

kbd_dev == <<kbd, detect, plugs, moves>>
kbd_client == <<client, s_refcount, doom_queue, seen, game, doom_lost, stuck>>
kbd_vars == <<kbd_dev, s_ready, s_in_toggle, s_prev_keys, s_prev_modifiers, s_queue, due,
              kpc, reports, kbd_client, lost, forgot, errors>>

NoKeys == [i \in 1 .. SLOTS |-> 0]
DoomKeys == {DoomKey(u) : u \in Usages} \ {0}
SlotSet(keys) == {keys[i] : i \in 1 .. SLOTS} \ {0}
Ev(p, u) == [pressed |-> p, code |-> u]   \* code: a usage or a doom key

\* After ch374_kbd_init, before its ch374_enumerate.
KbdInit ==
  /\ kbd \in [attached : BOOLEAN, addr : {0}, cfg : {FALSE}, toggle : {0}, down : {{}}, news : {FALSE}]
  /\ detect \in BOOLEAN
  /\ s_ready = FALSE /\ s_in_toggle = 0 /\ s_prev_keys = NoKeys /\ s_prev_modifiers = {}
  /\ s_queue = <<>> /\ due = FALSE /\ kpc = "reset" /\ reports = 0
  /\ client \in {"menu", "doom"} /\ s_refcount = [d \in DoomKeys |-> 0] /\ doom_queue = <<>>
  /\ seen = {} /\ game = {} /\ lost = {} /\ forgot = {} /\ doom_lost = {} /\ stuck = {} /\ plugs = 0 /\ errors = 0 /\ moves = 0

-----------------------------------------------------------------------------
(* The rings of events: the driver's and that of doom.  A ring holds one   *)
(* less than its size and drops the oldest.                                *)

\* r is [q, out]: what is in the ring, and the codes that ever fell out.
ring_push(r, e, size) ==
  IF Len(r.q) < size - 1 THEN [q |-> Append(r.q, e), out |-> r.out]
  ELSE [q |-> Append(Tail(r.q), e), out |-> r.out \cup {Head(r.q).code}]

queue_push(r, e) == IF e.code = 0 THEN r ELSE ring_push(r, e, QUEUE_SIZE)

\* What is down for a reader after the event e.
Heard(set, e) == IF e.pressed THEN set \cup {e.code} ELSE set \ {e.code}

-----------------------------------------------------------------------------
(* Enumeration.                                                            *)

enum_failed ==
  /\ kpc' = "idle" /\ due' = FALSE
  /\ UNCHANGED <<s_ready, s_in_toggle, s_prev_keys, s_queue, lost, forgot>>

\* Mutant: the modifiers are forgotten with the keys.
ch374_enumerate_forgets ==
  /\ kpc = "reset"
  /\ s_ready' = FALSE /\ s_in_toggle' = 0 /\ s_prev_keys' = NoKeys /\ s_prev_modifiers' = {}
  /\ forgot' = forgot \cup SlotSet(s_prev_keys)
  /\ detect' = FALSE
  /\ kbd' = [kbd EXCEPT !.addr = 0, !.cfg = FALSE]
  /\ IF kbd.attached THEN kpc' = "address" /\ UNCHANGED due ELSE kpc' = "idle" /\ due' = FALSE
  /\ UNCHANGED <<s_queue, reports, kbd_client, lost, plugs, moves, errors>>

\* ch374_stage1, ch374_stage2 and ch374_port0_reset_enable: the interrupt
\* bits are cleared, the port is reset, and bit 3 of r2 says if a device is there.
ch374_enumerate ==
  /\ kpc = "reset"
  /\ s_ready' = FALSE /\ s_in_toggle' = 0 /\ s_prev_keys' = NoKeys
  /\ forgot' = forgot \cup SlotSet(s_prev_keys)
  /\ detect' = FALSE
  /\ kbd' = [kbd EXCEPT !.addr = 0, !.cfg = FALSE]
  /\ IF kbd.attached THEN kpc' = "address" /\ UNCHANGED due ELSE kpc' = "idle" /\ due' = FALSE
  /\ UNCHANGED <<s_prev_modifiers, s_queue, reports, kbd_client, lost, plugs, moves, errors>>

\* What ch374_issue_token can return: the device's answer; an error when it
\* is away, when the detect bit is up without the transfer bit, or by a fault;
\* and an error or a NAK for a token that the device has served.
Answers(addr) == kbd.attached /\ kbd.addr = addr
KbdFault == errors < MaxErrors /\ errors' = errors + 1

\* SETUP with its status stage, the twenty NAKs of ch374_issue_token_retry included.
ch374_control_status_in(addr, done, next) ==
  \/ /\ Answers(addr) /\ kbd' = done /\ next
     /\ UNCHANGED <<errors, detect>>
  \/ /\ Answers(addr) /\ KbdFault /\ kbd' \in {kbd, done} /\ enum_failed
     /\ UNCHANGED detect
  \/ /\ ~Answers(addr) \/ detect
     /\ enum_failed /\ detect' \in {detect, FALSE}
     /\ UNCHANGED <<kbd, errors>>

\* SET_ADDRESS 2; register 8 follows.
enumerate_address ==
  /\ kpc = "address"
  /\ ch374_control_status_in(0, [kbd EXCEPT !.addr = 2],
       kpc' = "config" /\ UNCHANGED <<due, s_ready, s_in_toggle, s_prev_keys, s_queue, lost, forgot>>)
  /\ UNCHANGED <<s_prev_modifiers, reports, kbd_client, plugs, moves>>

\* Mutant: the answer to SET_CONFIGURATION is not looked at.
enumerate_config_blind ==
  /\ kpc = "config"
  /\ \/ Answers(2) /\ kbd' \in {kbd, [kbd EXCEPT !.cfg = TRUE, !.toggle = 0]}
     \/ ~Answers(2) /\ UNCHANGED kbd
  /\ kpc' = "idle" /\ s_ready' = TRUE
  /\ UNCHANGED <<due, s_in_toggle, s_prev_keys, s_queue, lost, forgot, errors, detect, s_prev_modifiers, reports,
                 kbd_client, plugs, moves>>

\* SET_CONFIGURATION 1, which resets the toggle of the endpoint.
enumerate_config ==
  /\ kpc = "config"
  /\ ch374_control_status_in(2, [kbd EXCEPT !.cfg = TRUE, !.toggle = 0],
       kpc' = "idle" /\ s_ready' = TRUE /\ UNCHANGED <<due, s_in_toggle, s_prev_keys, s_queue, lost, forgot>>)
  /\ UNCHANGED <<s_prev_modifiers, reports, kbd_client, plugs, moves>>

-----------------------------------------------------------------------------
(* Reports.                                                                *)

\* What the keyboard can send: every key in a slot of its own, in any order.
ReportKeys(down) ==
  IF Cardinality(down \cap Keys) > SLOTS THEN {[i \in 1 .. SLOTS |-> RollOver]}
  ELSE {f \in [1 .. SLOTS -> (down \cap Keys) \cup {0}] :
          /\ SlotSet(f) = down \cap Keys
          /\ \A i, j \in 1 .. SLOTS : i # j /\ f[i] = f[j] => f[i] = 0}

\* The code of the event of bit b (0: none), of a slot that the other report lacks.
ModifierCode(mods, b) ==
  LET u == CH374_USAGE_MODIFIER_BASE + b IN IF u \in mods <=> u \in s_prev_modifiers THEN 0 ELSE u
SlotCode(keys, others, i) == IF keys[i] \in SlotSet(others) THEN 0 ELSE keys[i]

\* The calls of queue_push: the bits, the slots let go, the slots pressed.
ReportEvents(keys, mods) ==
  [i \in 1 .. 8 + 2 * SLOTS |->
     IF i <= 8 THEN Ev(CH374_USAGE_MODIFIER_BASE + (i - 1) \in mods, ModifierCode(mods, i - 1))
     ELSE IF i <= 8 + SLOTS THEN Ev(FALSE, SlotCode(s_prev_keys, keys, i - 8))
     ELSE Ev(TRUE, SlotCode(keys, s_prev_keys, i - 8 - SLOTS))]
Pushed(evs) ==
  LET pushed[i \in 0 .. 8 + 2 * SLOTS] ==
        IF i = 0 THEN [q |-> s_queue, out |-> lost] ELSE queue_push(pushed[i - 1], evs[i])
  IN pushed

process_report(keys, mods) ==
  /\ LET r == Pushed(ReportEvents(keys, mods))[8 + 2 * SLOTS] IN s_queue' = r.q /\ lost' = r.out
  /\ forgot' = forgot \ SlotSet(keys)
  /\ s_prev_keys' = keys /\ s_prev_modifiers' = mods

poll_end == kpc' = "idle" /\ reports' = 0
NoReport == UNCHANGED <<s_queue, s_prev_keys, s_prev_modifiers, lost, forgot>>

\* Not ready: the next enumeration, when its time has come.
ch374_kbd_poll ==
  /\ kpc = "idle" /\ (client = "doom" => s_queue = <<>>)
  /\ \/ ~s_ready /\ due /\ kpc' = "reset"
     \/ s_ready /\ kpc' = "read"
  /\ UNCHANGED <<kbd_dev, s_ready, s_in_toggle, s_prev_keys, s_prev_modifiers, s_queue, due,
                 reports, kbd_client, lost, forgot, errors>>

\* A report of eight bytes with the expected toggle.
read_report ==
  /\ kpc = "read" /\ Answers(2) /\ kbd.cfg /\ kbd.news /\ kbd.toggle = s_in_toggle
  /\ \E keys \in ReportKeys(kbd.down) : process_report(keys, kbd.down \cap Modifiers)
  /\ kbd' = [kbd EXCEPT !.news = FALSE, !.toggle = 1 - @]
  /\ s_in_toggle' = 1 - s_in_toggle
  /\ IF reports + 1 = MAX_REPORTS_PER_POLL THEN poll_end ELSE reports' = reports + 1 /\ UNCHANGED kpc
  /\ UNCHANGED <<detect, plugs, moves, s_ready, due, kbd_client, errors>>

\* NAK; no answer reads as a NAK too, and so does r10 when SPI fails.
read_nak ==
  /\ kpc = "read"
  /\ \/ (~Answers(2) \/ ~kbd.news) /\ UNCHANGED <<kbd, errors>>
     \/ /\ Answers(2) /\ kbd.cfg /\ kbd.news /\ KbdFault
        /\ kbd' = [kbd EXCEPT !.news = FALSE, !.toggle = 1 - @]
  /\ poll_end /\ NoReport
  /\ UNCHANGED <<detect, plugs, moves, s_ready, s_in_toggle, due, kbd_client>>

Lose == s_ready' = FALSE /\ due' = FALSE /\ poll_end /\ NoReport /\ UNCHANGED <<plugs, moves, kbd_client>>

\* The detect bit alone, which wait_irq can see before the token is over, or
\* the wrong toggle: the device is lost.
read_lost ==
  /\ kpc = "read"
  /\ \/ detect /\ detect' = FALSE /\ UNCHANGED kbd
     \/ /\ Answers(2) /\ kbd.cfg /\ kbd.news /\ kbd.toggle # s_in_toggle
        /\ kbd' = [kbd EXCEPT !.news = FALSE, !.toggle = 1 - @] /\ UNCHANGED detect
  /\ Lose /\ UNCHANGED <<s_in_toggle, errors>>

\* No interrupt, a STALL, a short report, or a buffer that SPI cannot read.
read_error ==
  /\ kpc = "read" /\ KbdFault
  /\ \/ UNCHANGED <<kbd, s_in_toggle>>
     \/ /\ Answers(2) /\ kbd.cfg /\ kbd.news
        /\ kbd' = [kbd EXCEPT !.news = FALSE, !.toggle = 1 - @]
        /\ s_in_toggle' \in {s_in_toggle, 1 - s_in_toggle}
  /\ Lose /\ UNCHANGED detect

-----------------------------------------------------------------------------
(* The clients.                                                            *)

\* One round of the loop in kbd_pop: the first key that the menu knows ends it.
kbd_pop ==
  /\ client = "menu" /\ kpc = "idle" /\ s_queue # <<>>
  /\ seen' = Heard(seen, Head(s_queue)) /\ s_queue' = Tail(s_queue)
  /\ game' = IF Head(s_queue).pressed /\ MenuKey(Head(s_queue).code) # 0
             THEN {MenuKey(Head(s_queue).code)} ELSE {}
  /\ UNCHANGED <<kbd_dev, s_ready, s_in_toggle, s_prev_keys, s_prev_modifiers, due, kpc, reports,
                 client, s_refcount, doom_queue, doom_lost, stuck, lost, forgot, errors>>

doom_push(p, d) ==
  LET r == ring_push([q |-> doom_queue, out |-> doom_lost], Ev(p, d), KEY_QUEUE_SIZE)
  IN doom_queue' = r.q /\ doom_lost' = r.out
NoPush == UNCHANGED <<doom_queue, doom_lost>>

\* Mutant: every release is passed on.
emit_any(p, d) ==
  CASE d = 0 \/ (~p /\ s_refcount[d] = 0) -> NoPush /\ UNCHANGED s_refcount
    [] d # 0 /\ p -> /\ IF s_refcount[d] = 0 THEN doom_push(TRUE, d) ELSE NoPush
                     /\ s_refcount' = [s_refcount EXCEPT ![d] = IF @ = 255 THEN @ ELSE @ + 1]
    [] OTHER -> doom_push(FALSE, d) /\ s_refcount' = [s_refcount EXCEPT ![d] = @ - 1]

emit(p, d) ==
  CASE d = 0 \/ (~p /\ s_refcount[d] = 0) -> NoPush /\ UNCHANGED s_refcount
    [] d # 0 /\ p -> /\ IF s_refcount[d] = 0 THEN doom_push(TRUE, d) ELSE NoPush
                     /\ s_refcount' = [s_refcount EXCEPT ![d] = IF @ = 255 THEN @ ELSE @ + 1]
    [] OTHER -> /\ IF s_refcount[d] = 1 THEN doom_push(FALSE, d) ELSE NoPush
                /\ s_refcount' = [s_refcount EXCEPT ![d] = @ - 1]

\* One round of the loop after every poll of the doom client.
drain ==
  /\ client = "doom" /\ kpc = "idle" /\ s_queue # <<>>
  /\ seen' = Heard(seen, Head(s_queue)) /\ s_queue' = Tail(s_queue)
  /\ emit(Head(s_queue).pressed, DoomKey(Head(s_queue).code))
  /\ stuck' = stuck \cup (IF Head(s_queue).pressed /\ Head(s_queue).code \in seen
                          THEN {DoomKey(Head(s_queue).code)} ELSE {})
  /\ UNCHANGED <<kbd_dev, s_ready, s_in_toggle, s_prev_keys, s_prev_modifiers, due, kpc, reports,
                 client, game, lost, forgot, errors>>

\* The oldest event goes to the game.
aipc_keyboard_get_event ==
  /\ client = "doom" /\ kpc = "idle" /\ s_queue = <<>> /\ doom_queue # <<>>
  /\ game' = Heard(game, Head(doom_queue))
  /\ doom_queue' = Tail(doom_queue)
  /\ UNCHANGED <<kbd_dev, s_ready, s_in_toggle, s_prev_keys, s_prev_modifiers, s_queue, due, kpc,
                 reports, client, s_refcount, seen, doom_lost, stuck, lost, forgot, errors>>

-----------------------------------------------------------------------------
(* The user, the plug and the clock.                                       *)

kbd_driver == <<s_ready, s_in_toggle, s_prev_keys, s_prev_modifiers, s_queue, kpc, reports,
                kbd_client, lost, forgot, errors>>

KeyMoves(u) ==
  /\ moves < MaxMoves /\ moves' = moves + 1
  /\ kbd' = [kbd EXCEPT !.down = (@ \ {u}) \cup ({u} \ @), !.news = kbd.cfg]
  /\ UNCHANGED <<kbd_driver, detect, due, plugs>>

\* The keyboard loses its power, or has it again.
Plug ==
  /\ plugs < MaxPlugs /\ plugs' = plugs + 1
  /\ kbd' = [kbd EXCEPT !.attached = ~@, !.addr = 0, !.cfg = FALSE, !.toggle = 0, !.news = FALSE]
  /\ detect' = TRUE
  /\ UNCHANGED <<kbd_driver, due, moves>>

\* RETRY_DELAY_MS is over.
DelayEnds == ~due /\ due' = TRUE /\ UNCHANGED <<kbd_driver, kbd_dev>>

enumerate == ch374_enumerate \/ enumerate_address \/ enumerate_config
reading == read_report \/ read_nak \/ read_lost \/ read_error
popping == kbd_pop \/ drain \/ aipc_keyboard_get_event

KbdNext ==
  \/ enumerate \/ ch374_kbd_poll \/ reading \/ popping
  \/ \E u \in Usages : KeyMoves(u)
  \/ Plug \/ DelayEnds

\* The client polls and pops, and time passes.  Nothing is assumed of the detect
\* bit: ch374_issue_token waits before it looks, the transfer bit is then up
\* and comes first, and a keyboard that does not answer reads as one with no
\* news.
KbdFairness ==
  /\ WF_kbd_vars(enumerate) /\ WF_kbd_vars(ch374_kbd_poll) /\ WF_kbd_vars(reading)
  /\ WF_kbd_vars(DelayEnds) /\ WF_kbd_vars(drain)

KbdSpec == KbdInit /\ [][KbdNext]_kbd_vars /\ KbdFairness

-----------------------------------------------------------------------------
(* Properties.                                                             *)

\* u is down for who has set and then hears the first k events of q.
DownAt(set, q, k, u) ==
  \/ u \in set /\ \A i \in 1 .. k : q[i].code # u
  \/ \E i \in 1 .. k : q[i].code = u /\ q[i].pressed /\ \A j \in i + 1 .. k : q[j].code # u

(* The events, those that are queued included, say of every usage what the *)
(* last report said, across errors, replugs and new enumerations, unless   *)
(* one of its events fell out of the queue (process_report).  A new        *)
(* enumeration forgets the keys of the last report without a release: each *)
(* of them, and no modifier, stays down for the reader until a report has  *)
(* it again (ch374_enumerate).                                             *)
EventsAreState ==
  \A u \in (Usages \cup {RollOver}) \ lost :
    DownAt(seen, s_queue, Len(s_queue), u) <=> u \in SlotSet(s_prev_keys) \cup s_prev_modifiers \cup forgot

(* A doom key is down in the game exactly while one of its usages is, when *)
(* the game has popped everything: two modifiers that give one key do not  *)
(* release each other (emit).  A key whose press was heard twice without a *)
(* release, as after a new enumeration, is counted twice and stays down    *)
(* for good.                                                               *)
DoomFollows ==
  client = "doom" /\ s_queue = <<>> /\ doom_queue = <<>> =>
    \A d \in DoomKeys \ (doom_lost \cup {DoomKey(u) : u \in lost}) :
      d \in game <=> d \in stuck \/ \E u \in seen : DoomKey(u) = d

(* Every client's picture of the keys is that of the last report, over     *)
(* replugs, errors and full queues: none is let go, and the keys that hang *)
(* are those that were down when the keyboard was enumerated anew, in doom *)
(* those that were pressed again after it.                                 *)
KeysFollow == EventsAreState /\ DoomFollows

(* A keyboard whose loss the driver has noticed is ready and configured    *)
(* again, whatever state an error, a lost toggle or a failed enumeration   *)
(* left the two in, if it is there and stays (ch374_kbd_poll).  Whether a  *)
(* loss is noticed is not said: see KbdFairness.                           *)
KeyboardReturns ==
  \A n \in 0 .. MaxPlugs :
    (~s_ready /\ kbd.attached /\ plugs = n) ~> (plugs # n \/ (s_ready /\ kbd.cfg))
=============================================================================
