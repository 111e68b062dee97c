---- MODULE MCTools ----
(* The clock and the keyboard host, and the programs that run from the     *)
(* debugger: the probes of that host, of the NAND and of the SD card, one  *)
(* of them in a behaviour.  The others rest.                               *)
EXTENDS Timer, Kbd, UsbProbes, NandTools, SdProbes

(* Two keys that the menu and doom tell apart, and two modifiers that doom *)
(* does not.                                                               *)
MCDoomKey(u) == CASE u \in {224, 228} -> 157 [] u = 4 -> 97 [] OTHER -> 0
MCMenuKey(u) == IF u = 5 THEN 1 ELSE 0

VARIABLE part

NandAtRest ==
  /\ tool = (CHOOSE t \in DOMAIN Counts : TRUE) /\ count = (CHOOSE n \in Counts[tool] : TRUE) /\ at = 1
  /\ wp = FALSE /\ cells = [p \in ToolPages |-> "old"] /\ pagereg = 0 /\ refused = FALSE
  /\ mem = [p \in ToolPages |-> [c \in 1 .. TOOL_CHUNKS |-> "part"]] /\ dir_write = FALSE /\ assigned = FALSE /\ bound = FALSE
  /\ errs = 0 /\ result = [rc |-> None, fail |-> 0] /\ opts = [fits |-> 0, unclean |-> 0]

ToolsInit ==
  /\ part \in {"timer", "kbd", "usb", "nand", "sd"}
  /\ Init /\ (part # "timer" => live = 0)
  /\ KbdInit /\ (part # "kbd" => ~kbd.attached /\ ~detect /\ client = "menu")
  /\ UsbProbesInit /\ (part # "usb" => probe = attach_probe /\ usb = Away)
  /\ IF part = "nand" THEN NandToolsInit ELSE NandAtRest
  /\ SdProbesInit

ToolsNext ==
  \/ part = "timer" /\ Next /\ UNCHANGED <<kbd_vars, probe_vars, tool_vars, sdp_vars, part>>
  \/ part = "kbd" /\ KbdNext /\ UNCHANGED <<vars, probe_vars, tool_vars, sdp_vars, part>>
  \/ part = "usb" /\ UsbProbesNext /\ UNCHANGED <<vars, kbd_vars, tool_vars, sdp_vars, part>>
  \/ part = "nand" /\ NandToolsNext /\ UNCHANGED <<vars, kbd_vars, probe_vars, sdp_vars, part>>
  \/ part = "sd" /\ SdProbesNext /\ UNCHANGED <<vars, kbd_vars, probe_vars, tool_vars, part>>

ToolsSpec ==
  /\ ToolsInit /\ [][ToolsNext]_<<vars, kbd_vars, probe_vars, tool_vars, sdp_vars, part>>
  /\ part = "kbd" => KbdFairness
====
