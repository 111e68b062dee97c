---- MODULE MCMenu ----
(* aipc-boot: its loop, its pages, the settings file between loads and     *)
(* saves, and storage_save with the power cut at any write, one of them in *)
(* a behaviour.  The parts that do not take part rest in an initial state. *)
EXTENDS MenuLoop, Pages, MCStorageSave, MCSettings

(* A card whose pages are longer than the window, with settings out of     *)
(* their range and steps, and one whose default entry is gone.             *)
MCCards == {[in |-> TRUE, titles |-> <<"linux">>, pay |-> 6, def |-> "linux", timeout |-> 500, bright |-> 45, dark |-> FALSE],
            [in |-> TRUE, titles |-> <<"b", "linux", "c">>, pay |-> 0, def |-> "gone", timeout |-> 1, bright |-> 15, dark |-> TRUE]}

VARIABLE part

menu_parts == <<vars, page_vars, save_vars, settings_vars, part>>

LoopAtRest ==
  /\ slot = NoCard /\ state = "NONE" /\ mounted = NoCard /\ loaded = NoCard /\ modal = "none" /\ autoboot = "OFF"
  /\ key = FALSE /\ armed = FALSE /\ down = FALSE /\ shown = FALSE /\ held = 0 /\ broken = FALSE
  /\ pos = "kbd" /\ page = "launch" /\ left = 0 /\ kbd = FALSE /\ settle = FALSE /\ touched = FALSE /\ blind = FALSE

SettingsAtRest ==
  ini = <<>> /\ keys = <<>> /\ ready = FALSE /\ origin = <<>> /\ whole = FALSE /\ changed = {}

MenuInit ==
  /\ part \in {"loop", "pages", "save", "settings"}
  /\ IF part = "loop" THEN Init ELSE LoopAtRest
  /\ PagesInit
  /\ SaveInit /\ (part # "save" => used = {} /\ val = (CHOOSE v \in Values : TRUE))
  /\ IF part = "settings" THEN SettingsInit ELSE SettingsAtRest

MenuNext ==
  \/ part = "loop" /\ Next /\ UNCHANGED <<page_vars, save_vars, settings_vars, part>>
  \/ part = "pages" /\ PagesNext /\ UNCHANGED <<vars, save_vars, settings_vars, part>>
  \/ part = "pages" /\ key_count = MaxKeys /\ UNCHANGED menu_parts
  \/ part = "save" /\ SaveNext /\ UNCHANGED <<vars, page_vars, settings_vars, part>>
  \/ part = "settings" /\ SettingsNext /\ UNCHANGED <<vars, page_vars, save_vars, part>>

MenuSpec ==
  MenuInit /\ [][MenuNext]_menu_parts /\ WF_vars(part = "loop" /\ Step) /\ WF_vars(part = "loop" /\ Tick)
====
