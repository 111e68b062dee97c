------------------------------ MODULE OpenNboot -----------------------------
(***************************************************************************)
(* openNBOOT (baremetal/opennboot/main.c): BOOT.BIN of the card when there *)
(* is one, the IPL of the NAND otherwise.  Fat reads the card and Nand the *)
(* flash; sd_init either works or does not (module Sd).                    *)
(***************************************************************************)
EXTENDS Nand, Fat

VARIABLES
  boot,        \* "start", "card", "nand", and the ends: "boot.bin", "eboot", "halt"
  card_pads    \* the shared pads belong to the card

boot_vars == <<boot, card_pads, nand_vars, fat_vars>>

OpenNbootInit == NandInit /\ FatInit /\ boot = "start" /\ card_pads = FALSE

\* sd_init takes the pads; without a card they go back.
sd_try_boot(ok) ==
  /\ boot = "start"
  /\ IF ok THEN boot' = "card" /\ card_pads' = TRUE /\ fat_start /\ UNCHANGED nand_vars
     ELSE boot' = "nand" /\ card_pads' = FALSE /\ UNCHANGED <<fat_vars, nand_vars>>

\* Mutant: only a load that works gives the pads back.
sd_try_boot_ends_kept ==
  /\ boot = "card" /\ fpc = "done" /\ card_pads' = (frc # "ok")
  /\ boot' = (IF frc = "ok" THEN "boot.bin" ELSE "nand")
  /\ UNCHANGED <<fat_vars, nand_vars>>

\* The end of fat_load_file: the pads go back, then handoff_bare or the NAND.
sd_try_boot_ends ==
  /\ boot = "card" /\ fpc = "done" /\ card_pads' = FALSE
  /\ boot' = (IF frc = "ok" THEN "boot.bin" ELSE "nand")
  /\ UNCHANGED <<fat_vars, nand_vars>>

\* The end of the probe or of the load: handoff_eboot, or halt.
boot_main_ends ==
  /\ boot = "nand" /\ npc = "done" /\ boot' = (IF nrc = "ok" THEN "eboot" ELSE "halt")
  /\ UNCHANGED <<card_pads, fat_vars, nand_vars>>

boot_main ==
  \/ \E ok \in BOOLEAN : sd_try_boot(ok)
  \/ boot = "card" /\ FatStep /\ UNCHANGED <<boot, card_pads, nand_vars>>
  \/ sd_try_boot_ends
  \/ boot = "nand" /\ NandStep /\ UNCHANGED <<boot, card_pads, fat_vars>>
  \/ boot_main_ends

OpenNbootSpec == OpenNbootInit /\ [][boot_main]_boot_vars /\ WF_boot_vars(boot_main)

-----------------------------------------------------------------------------
(* Properties.                                                             *)

(* What is entered is what was loaded: the file, to its last byte, or the  *)
(* image, page for page and with the bit errors that the engine located    *)
(* put right, unless a marker or the block size was taken wrongly or a     *)
(* chunk passed for an erased one (LoadedIsImage); and the pads that the   *)
(* card and the NAND share are given back by then, however fat_load_file   *)
(* ended (boot_main, sd_try_boot).                                         *)
EnteredIsWhole ==
  /\ LoadedIsFile /\ LoadedIsImage
  /\ boot = "boot.bin" => frc = "ok"
  /\ boot = "eboot" => nrc = "ok"
  /\ boot \in {"boot.bin", "nand", "eboot"} => ~card_pads

(* The boot ends, in code or in halt, for any volume, one whose chains run *)
(* in circles included, any flash and any failing reads (fat_load_file,    *)
(* nand_load_image): the board is never left reading.                      *)
BootEnds == <>(boot \in {"boot.bin", "eboot", "halt"})
=============================================================================
