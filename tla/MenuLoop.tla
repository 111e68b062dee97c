----------------------------- MODULE MenuLoop ------------------------------
(***************************************************************************)
(* The main loop of the aipc-boot menu (ui_run in                          *)
(* baremetal/aipc-boot/ui.c): poll_keyboard, power_key_tick, card_poll and *)
(* autoboot_tick in turn, and the boot attempts of ui_launch.c that block  *)
(* the loop.  The user, the card and the time act between any two steps.   *)
(*                                                                         *)
(* Time is counted in units.  What is drawn, the battery and the focus in  *)
(* a page are left out; the CFW page saves as the settings page does, and  *)
(* the info page has no items.                                             *)
(***************************************************************************)
EXTENDS Integers

CONSTANTS Cards,        \* SD cards the user owns
          NoCard,
          ClickTime,    \* KEY_CLICK_MS
          OffTime,      \* KEY_OFF_MS
          AutobootTime  \* settings_timeout()

ASSUME MenuAssumption ==
  /\ NoCard \notin Cards
  /\ ClickTime \in Nat /\ OffTime \in Nat /\ AutobootTime \in Nat
  /\ 0 < ClickTime /\ ClickTime < OffTime /\ 0 < AutobootTime

VARIABLES
  pos,       \* where the loop is, what blocks it, or how it ended
  page, modal,
  autoboot,
  left,      \* time until autoboot boots
  kbd,       \* kbd_ready()
  touched,   \* ghost: a key or the power key was seen
  \* power_key_tick
  key,       \* power_key_down()
  armed, down, shown,
  held,      \* timer_ms() - down_ms, up to OffTime
  broken,    \* ghost: held does not measure one press of the key
  \* card.c, and what was read from the card
  slot,      \* the card in the slot
  state,     \* card_state()
  mounted,   \* the card that storage_mount read
  loaded,    \* the card that reload read settings and entries from
  settle,    \* the settle time is not over
  blind      \* ghost: a card went in while the loop was blocked

ui_vars == <<page, modal, autoboot, left, kbd, touched>>
key_vars == <<key, armed, down, shown, held, broken>>
card_vars == <<slot, state, mounted, loaded, settle, blind>>
vars == <<pos, ui_vars, key_vars, card_vars>>

Pages == {"launch", "payloads", "settings", "tools", "power"}
Modals == {"none", "error", "hold", "reset", "prompt"}
Loop == {"kbd", "power_key", "card", "autoboot"}
Blocked == {"linux", "wince", "prompt", "payload"}
Ended == {"booted", "off", "restart", "key_off"}

-----------------------------------------------------------------------------
(* card.c and reload.                                                      *)

\* mount tries three times; what counts is whether one try works.
mount == \/ state' = "READY" /\ mounted' = slot
         \/ state' = "ERROR" /\ mounted' = NoCard

\* Without the return value, which is state' # state.
card_init == /\ IF slot # NoCard THEN mount
                ELSE state' = "NONE" /\ mounted' = NoCard
             /\ UNCHANGED <<slot, settle>>

\* reload(0): without a card the settings stay.
reload == IF state' = "READY" THEN loaded' = mounted' /\ blind' = FALSE
          ELSE UNCHANGED <<loaded, blind>>

\* A modal is closed before reload, which shows one when entries.ini is wrong.
card_changed ==
  /\ autoboot' = "OFF" /\ reload
  /\ modal' \in IF state' = "READY" THEN {"none", "error"} ELSE {"none"}

\* Callers of card_init: ui_resume and a failed boot_wince.
card_again == /\ card_init
              /\ IF state' # state THEN card_changed
                 ELSE UNCHANGED <<autoboot, modal, loaded, blind>>

-----------------------------------------------------------------------------
\* boot_main and the head of ui_run: power_hold, card_init, reload(1).  The
\* press that turned the device on can still be down.
Init ==
  /\ slot \in Cards \cup {NoCard}
  /\ \/ slot # NoCard /\ state = "READY" /\ mounted = slot
     \/ slot # NoCard /\ state = "ERROR" /\ mounted = NoCard
     \/ slot = NoCard /\ state = "NONE" /\ mounted = NoCard
  /\ loaded = mounted
  /\ \/ state = "READY" /\ modal = "error" /\ autoboot = "OFF"
     \/ state = "READY" /\ modal = "none" /\ autoboot = "WAIT_KBD"
     \/ state # "READY" /\ modal = "none" /\ autoboot = "OFF"
  /\ key \in BOOLEAN /\ armed = FALSE /\ down = FALSE /\ shown = FALSE
  /\ held = 0 /\ broken = FALSE
  /\ pos = "kbd" /\ page = "launch" /\ left = 0 /\ kbd = FALSE
  /\ settle = FALSE /\ touched = FALSE /\ blind = FALSE

-----------------------------------------------------------------------------
(* Boot attempts.                                                          *)

\* boot_linux up to linux_load.  There are entries only on a mounted card, and
\* an entry can have an error of its own.
boot_linux(back) == /\ state = "READY"
                    /\ \/ modal' = "error" /\ pos' = back
                       \/ pos' = "linux" /\ UNCHANGED modal

\* boot_wince up to wince_prepare.  It asks for the power key unless CFW or
\* USB keeps the device on.
boot_wince == \/ pos' = "wince" /\ UNCHANGED modal
              \/ pos' = "prompt" /\ modal' = "prompt"

\* back is where the loop goes on.
launch_boot(back) == boot_linux(back) \/ boot_wince

\* linux_load, and linux_enter when it worked.
linux_done ==
  /\ pos = "linux"
  /\ \/ pos' = "booted" /\ UNCHANGED modal
     \/ pos' = "kbd" /\ modal' = "error"
  /\ UNCHANGED <<page, autoboot, left, kbd, touched, key_vars, card_vars>>

\* The key goes down, or Esc or Enter cancels.
wait_power_key ==
  /\ pos = "prompt"
  /\ \/ key /\ pos' = "wince" /\ UNCHANGED modal
     \/ ~key /\ kbd /\ pos' = "kbd" /\ modal' = "none"
  /\ UNCHANGED <<page, autoboot, left, kbd, touched, key_vars, card_vars>>

\* Mutant: the card is not read again after a failed NAND read.
wince_done_no_reload ==
  /\ pos = "wince"
  /\ \/ pos' = "booted" /\ UNCHANGED <<modal, key_vars, card_vars>>
     \/ /\ pos' = "kbd" /\ modal' = "error"
        /\ card_init /\ UNCHANGED <<loaded, blind>>
        /\ armed' = FALSE
        /\ UNCHANGED <<key, down, shown, held, broken>>
  /\ UNCHANGED <<page, autoboot, left, kbd, touched>>

\* wince_prepare, and wince_enter when it worked.  Otherwise the SD controller
\* gets its pads back, and the error covers what ui_card_changed showed.
wince_done ==
  /\ pos = "wince"
  /\ \/ /\ pos' = "booted"
        /\ UNCHANGED <<modal, autoboot, key_vars, card_vars>>
     \/ /\ pos' = "kbd" /\ modal' = "error"
        /\ card_init
        /\ IF state' # state THEN autoboot' = "OFF" /\ reload
           ELSE UNCHANGED <<autoboot, loaded, blind>>
        /\ armed' = FALSE
        /\ UNCHANGED <<key, down, shown, held, broken>>
  /\ UNCHANGED <<page, left, kbd, touched>>

\* payload_load, payload_call and ui_resume.  boot_hw_init restarts the timer
\* at zero, so a down_ms from before is ahead of it and the unsigned difference
\* is huge; the keyboard has to be found again.
payload_done ==
  /\ pos = "payload" /\ pos' = "kbd"
  /\ \/ modal' = "error" /\ UNCHANGED <<autoboot, kbd, held, broken, card_vars>>
     \/ /\ card_again
        /\ kbd' = FALSE
        /\ held' = IF down THEN OffTime ELSE held
        /\ broken' = (down \/ broken)
  /\ UNCHANGED <<page, left, touched, key, armed, down, shown>>

-----------------------------------------------------------------------------
(* poll_keyboard.                                                          *)

no_key ==
  /\ pos = "kbd" /\ pos' = "power_key"
  /\ UNCHANGED <<ui_vars, key_vars, card_vars>>

\* A failed settings_save shows an error; without a card there is none.
saves == modal' \in IF state = "READY" THEN {"none", "error"} ELSE {"none"}

\* A progress modal takes no keys; the reset question has two answers.
modal_takes_key ==
  /\ CASE modal = "hold"  -> UNCHANGED modal
       [] modal = "reset" -> UNCHANGED modal \/ modal' = "none" \/ saves
       [] OTHER           -> UNCHANGED modal \/ modal' = "none"
  /\ UNCHANGED <<pos, page>>

\* nav_key, and content_key by the page's enter and side.
menu_key ==
  \/ page' \in Pages /\ UNCHANGED <<pos, modal>>
  \/ page = "settings" /\ saves /\ UNCHANGED <<pos, page>>
  \/ page = "settings" /\ state = "READY" /\ modal' = "reset" /\ UNCHANGED <<pos, page>>
  \/ page = "tools" /\ state = "READY" /\ modal' = "error" /\ UNCHANGED <<pos, page>>
  \/ page = "power" /\ pos' \in {"off", "restart"} /\ UNCHANGED <<modal, page>>
  \/ page = "launch" /\ launch_boot("kbd") /\ UNCHANGED page
  \/ page = "payloads" /\ state = "READY" /\ pos' = "payload" /\ UNCHANGED <<modal, page>>

\* Mutant: only keys outside a modal and a boot cancel autoboot.
key_pressed_late_cancel ==
  /\ pos = "kbd" /\ kbd /\ touched' = TRUE
  /\ IF modal # "none" THEN modal_takes_key ELSE menu_key
  /\ autoboot' = IF page' = page THEN autoboot ELSE "OFF"
  /\ UNCHANGED <<left, kbd, key_vars, card_vars>>

\* One key of the queue: it cancels autoboot, whatever else it does.
key_pressed ==
  /\ pos = "kbd" /\ kbd /\ touched' = TRUE /\ autoboot' = "OFF"
  /\ IF modal # "none" THEN modal_takes_key ELSE menu_key
  /\ UNCHANGED <<left, kbd, key_vars, card_vars>>

-----------------------------------------------------------------------------
(* power_key_tick, one action for each of its branches.                    *)

at_power_key == pos = "power_key" /\ UNCHANGED <<left, kbd, key, card_vars>>

unarmed ==
  /\ at_power_key /\ ~armed
  /\ pos' = "card" /\ armed' = ~key
  /\ UNCHANGED <<page, modal, autoboot, touched, down, shown, held, broken>>

\* The hold modal closes after a long press; a short one is a click, which
\* opens the power page.
released ==
  /\ at_power_key /\ armed /\ ~key
  /\ pos' = "card"
  /\ IF down /\ (shown \/ page # "power") THEN modal' = "none" ELSE UNCHANGED modal
  /\ page' = IF down /\ ~shown THEN "power" ELSE page
  /\ down' = FALSE /\ shown' = FALSE /\ broken' = FALSE /\ held' = 0
  /\ UNCHANGED <<autoboot, touched, armed>>

pressed ==
  /\ at_power_key /\ armed /\ key /\ ~down
  /\ pos' = "card" /\ down' = TRUE /\ held' = 0 /\ broken' = FALSE
  /\ autoboot' = "OFF" /\ touched' = TRUE
  /\ UNCHANGED <<page, modal, armed, shown>>

\* Mutant: the full time shows the progress, and nothing else.
held_on_stays ==
  /\ at_power_key /\ armed /\ key /\ down
  /\ pos' = "card"
  /\ shown' = (shown \/ held >= ClickTime)
  /\ modal' = IF held >= ClickTime /\ ~shown THEN "hold" ELSE modal
  /\ UNCHANGED <<page, autoboot, touched, armed, down, held, broken>>

\* power_off does not return.
held_on ==
  /\ at_power_key /\ armed /\ key /\ down
  /\ IF held >= OffTime THEN pos' = "key_off" /\ UNCHANGED <<modal, shown>>
     ELSE /\ pos' = "card"
          /\ shown' = (shown \/ held >= ClickTime)
          /\ modal' = IF held >= ClickTime /\ ~shown THEN "hold" ELSE modal
  /\ UNCHANGED <<page, autoboot, touched, armed, down, held, broken>>

-----------------------------------------------------------------------------
(* card_poll, and ui_card_changed when it returns 1.                       *)

at_card == pos = "card" /\ pos' = "autoboot" /\ UNCHANGED <<page, left, kbd, touched, key_vars, slot>>

card_gone ==
  /\ at_card /\ slot = NoCard /\ state # "NONE"
  /\ state' = "NONE" /\ mounted' = NoCard
  /\ card_changed /\ UNCHANGED settle

card_settling ==
  /\ at_card /\ slot # NoCard /\ state = "NONE"
  /\ state' = "SETTLING" /\ settle' = TRUE
  /\ UNCHANGED <<mounted, autoboot, modal, loaded, blind>>

card_mount ==
  /\ at_card /\ slot # NoCard /\ state = "SETTLING" /\ ~settle
  /\ mount /\ card_changed /\ UNCHANGED settle

card_same ==
  /\ at_card
  /\ \/ slot = NoCard /\ state = "NONE"
     \/ slot # NoCard /\ state \in {"READY", "ERROR"}
     \/ slot # NoCard /\ state = "SETTLING" /\ settle
  /\ UNCHANGED <<state, mounted, settle, autoboot, modal, loaded, blind>>

card_poll == card_gone \/ card_settling \/ card_mount \/ card_same

-----------------------------------------------------------------------------
(* autoboot_tick.                                                          *)

at_autoboot == pos = "autoboot" /\ UNCHANGED <<kbd, touched, key_vars, card_vars>>

autoboot_idle ==
  /\ at_autoboot
  /\ autoboot = "OFF" \/ (autoboot = "WAIT_KBD" /\ ~kbd)
  /\ pos' = "kbd" /\ UNCHANGED <<page, modal, autoboot, left>>

autoboot_start ==
  /\ at_autoboot /\ autoboot = "WAIT_KBD" /\ kbd
  /\ pos' = "kbd" /\ autoboot' = "RUN" /\ left' = AutobootTime
  /\ UNCHANGED <<page, modal>>

\* Mutant: the count starts again on every turn of the loop.
autoboot_count_restarts ==
  /\ at_autoboot /\ autoboot = "RUN"
  /\ pos' = "kbd" /\ left' = AutobootTime /\ UNCHANGED <<page, modal, autoboot>>

autoboot_count ==
  /\ at_autoboot /\ autoboot = "RUN" /\ left > 0
  /\ pos' = "kbd" /\ UNCHANGED <<page, modal, autoboot, left>>

\* The default entry boots: a Linux entry or Windows CE.
autoboot_boot ==
  /\ at_autoboot /\ autoboot = "RUN" /\ left = 0
  /\ autoboot' = "OFF" /\ page' = "launch" /\ UNCHANGED left
  /\ launch_boot("kbd")

autoboot_tick == autoboot_idle \/ autoboot_start \/ autoboot_count \/ autoboot_boot

-----------------------------------------------------------------------------
(* The environment.                                                        *)

\* Time passes for every count that runs.
Tick ==
  /\ pos \notin Ended
  /\ held' = IF down /\ held < OffTime THEN held + 1 ELSE held
  /\ left' = IF autoboot = "RUN" /\ left > 0 THEN left - 1 ELSE left
  /\ settle' = FALSE
  /\ UNCHANGED <<pos, page, modal, autoboot, kbd, touched, key, armed, down, shown,
                 broken, slot, state, mounted, loaded, blind>>

\* The user is slower than the loop: it sees a release before the next press,
\* unless it is blocked.
PowerKey ==
  /\ pos \notin Ended
  /\ key \/ ~down \/ pos \in Blocked
  /\ key' = ~key
  /\ broken' = (broken \/ (down /\ ~key))
  /\ UNCHANGED <<pos, ui_vars, armed, down, shown, held, card_vars>>

CardOut ==
  /\ pos \notin Ended /\ slot # NoCard
  /\ slot' = NoCard
  /\ UNCHANGED <<pos, ui_vars, key_vars, state, mounted, loaded, settle, blind>>

\* Between CardOut and CardIn the loop turns at least once, unless it is blocked.
CardIn ==
  /\ pos \notin Ended /\ slot = NoCard
  /\ state = "NONE" \/ pos \in Blocked
  /\ slot' \in Cards
  /\ blind' = (blind \/ state # "NONE")
  /\ UNCHANGED <<pos, ui_vars, key_vars, state, mounted, loaded, settle>>

Keyboard ==
  /\ pos \notin Ended /\ kbd' = ~kbd
  /\ UNCHANGED <<pos, page, modal, autoboot, left, touched, key_vars, card_vars>>

Step == \/ no_key
        \/ unarmed \/ released \/ pressed \/ held_on
        \/ card_poll \/ autoboot_tick

Off == pos \in Ended /\ UNCHANGED vars

Next == \/ Step \/ key_pressed
        \/ linux_done \/ wait_power_key \/ wince_done \/ payload_done
        \/ Tick \/ PowerKey \/ CardOut \/ CardIn \/ Keyboard
        \/ Off

\* The loop never waits, and time goes on.
Spec == Init /\ [][Next]_vars /\ WF_vars(Step) /\ WF_vars(Tick)

-----------------------------------------------------------------------------
(* Properties.                                                             *)

(* Autoboot runs only over an untouched menu: no key and no press of the   *)
(* power key was seen, no modal is open, nothing boots, the launch page is *)
(* open and the card that started it is mounted (autoboot_cancel, reload). *)
AutobootQuiet ==
  autoboot # "OFF" => /\ ~touched /\ modal = "none" /\ page = "launch"
                      /\ state = "READY" /\ pos \in Loop

(* The settings and entries in memory are those of the card in the slot    *)
(* whenever a card is mounted, unless one went in while a boot attempt     *)
(* blocked the loop (card_poll, card_init, ui_card_changed).               *)
FreshUnlessBlind ==
  state = "READY" /\ slot # NoCard /\ ~blind => mounted = slot /\ loaded = slot

(* Autoboot ends in a boot attempt, or an error, once the keyboard stays,  *)
(* unless the user does something or the card goes (autoboot_tick).        *)
AutobootHappens ==
  <>[]kbd => ((autoboot # "OFF") ~> \/ pos \in Blocked \cup {"booted"}
                                    \/ modal = "error" \/ touched \/ state # "READY")

(* The progress of a long press does not stay: the device turns off or the *)
(* modal closes (power_key_tick).                                          *)
HoldEnds == (modal = "hold") ~> (modal # "hold" \/ pos = "key_off")

-----------------------------------------------------------------------------
(* What comments say and the code does not do.                             *)

(* ui.c: "the full time turns the device off".  Only a press that lasted   *)
(* the full time does.                                                     *)
OffNeedsFullHold == pos = "key_off" => ~broken

(* ui_priv.h: the mounted card is read when it goes in, and again after a  *)
(* change.  What is in memory is of the card that is mounted.              *)
MountedIsLoaded == state = "READY" => loaded = mounted

=============================================================================
