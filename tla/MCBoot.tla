---- MODULE MCBoot ----
(* What is loaded and entered: openNBOOT, the payload loader and the       *)
(* custom firmware, one of them in a behaviour.  The others rest.          *)
EXTENDS MCOpenNboot, Payload, Cfw

(* Words of 0 to 6: DDR is 1 to 5, aipc-boot is at 3 and a framebuffer     *)
(* at 4.                                                                   *)
MCInUse == {[lo |-> 3, hi |-> 4], [lo |-> 4, hi |-> 5]}

(* EBOOTs with the sites of both versions, one of them missing, cut off or *)
(* there twice; NKs the same; module tables without a usable nk.exe.       *)
Fill(p, x) == [k \in DOMAIN Pattern[p] |-> IF Pattern[p][k][2] = Masked THEN <<Pattern[p][k][1], x>> ELSE Pattern[p][k]]
Cut(p) == SubSeq(Fill(p, 1), 1, Len(Pattern[p]) - 1) \o <<Other>>
Sites158 == <<Fill("hold1582", 0), Fill("check", 1), Fill("handoff", 0)>>
Sites188 == <<Fill("check", 2), Fill("hold188", 0), Fill("handoff", 0)>>
MCEboots ==
  {Sites158, Sites188, Sites158 \o <<Fill("hold188", 0)>>, Sites158 \o <<Fill("hold1582", 0)>>, Tail(Sites188) \o <<Fill("handoff", 0)>>,
   Sites158 \o <<Fill("check", 3)>>, <<Cut("hold188"), Fill("check", 1), Fill("handoff", 0)>>,
   Tail(Sites188), <<Fill("hold188", 0), Cut("check"), Fill("handoff", 0)>>, <<Fill("hold1582", 0), Fill("check", 1)>>,
   <<Cut("handoff"), Fill("hold1582", 0), Fill("handoff", 0), <<Other>>, Fill("check", 1)>>}
\* Literal pools after the code.
Rtc(regs, pop, lit) == [Fill("rtc", 7) EXCEPT ![1] = <<"push", regs>>, ![14] = <<"popeq", pop>>] \o <<W(lit)>>
Irq(lit) == [Fill("irq", 1) EXCEPT ![12] = <<"ldr ip", 1>>] \o <<W(lit)>>
Ioctl(lit) == [Fill("ioctl", 1) EXCEPT ![7] = <<"ldr r6", 2>>] \o <<W(lit)>>
NkSites == {Rtc(3, 3, "BOOTARGS"), Rtc(3, 2, "BOOTARGS"), Rtc(3, 3, "other"), Irq("handler"), Irq("other"),
            Ioctl("ioctl table"), Ioctl("other")}
MCNks == {<<x, y>> : x, y \in NkSites} \cup {<<x, Rtc(3, 3, "BOOTARGS"), y>> : x, y \in NkSites}
Sec(scn, compressed, fits) == [scn |-> scn, compressed |-> compressed, fits |-> fits]
Mod(name, e32, o32, secs) == [name |-> name, e32 |-> e32, o32 |-> o32, secs |-> secs]
Good == Mod("nk.exe", TRUE, TRUE, <<Sec(TRUE, FALSE, TRUE), Sec(FALSE, TRUE, FALSE)>>)
MCRoms == {[ecec |-> TRUE, hdr |-> TRUE, table |-> TRUE, mods |-> <<Mod("coredll", TRUE, TRUE, <<>>), Good>>],
           [ecec |-> TRUE, hdr |-> TRUE, table |-> TRUE, mods |-> <<Mod("nk.exe", TRUE, TRUE, <<Sec(TRUE, TRUE, TRUE)>>)>>],
           [ecec |-> TRUE, hdr |-> TRUE, table |-> TRUE, mods |-> <<Mod("nk.exe", TRUE, TRUE, <<Sec(TRUE, FALSE, TRUE), Sec(TRUE, FALSE, TRUE)>>)>>],
           [ecec |-> FALSE, hdr |-> TRUE, table |-> TRUE, mods |-> <<Good>>]}

VARIABLE part

boot_parts == <<boot_vars, vars, cfw_vars, part>>

NbootAtRest ==
  /\ flash = [ppb |-> 1, bad |-> 1 .. 12] /\ pages_per_block = 0 /\ npc = "off" /\ cand = 0 /\ block = 0 /\ skipped = 0
  /\ page = 0 /\ chunk = 1 /\ try = 1 /\ buf = <<>> /\ image = <<>> /\ nrc = "none" /\ misread = FALSE
  /\ vol = (CHOOSE v \in Volumes : v.check = "-2") /\ fpc = "off" /\ cluster = 0 /\ sec = 0 /\ scanned = 0
  /\ fat_buf_lba = -1 /\ fat_buf = Garbage /\ loaded = <<>> /\ frc = "none"
  /\ boot = "halt" /\ card_pads = FALSE

PayloadAtRest == segs = <<>> /\ entry = 0 /\ pc = "check" /\ at = 1 /\ written = {}

BootInit ==
  /\ part \in {"nboot", "payload", "cfw"}
  /\ IF part = "nboot" THEN MCInit ELSE NbootAtRest
  /\ IF part = "payload" THEN Init ELSE PayloadAtRest
  /\ CfwInit

BootNext ==
  \/ part = "nboot" /\ boot_main /\ UNCHANGED <<vars, cfw_vars, part>>
  \/ part = "payload" /\ Next /\ UNCHANGED <<boot_vars, cfw_vars, part>>
  \/ part = "cfw" /\ CfwNext /\ UNCHANGED <<boot_vars, vars, part>>
  \/ /\ \/ part = "nboot" /\ boot \in {"boot.bin", "eboot", "halt"}
        \/ part = "cfw" /\ (where \in {"running", "halted"} \/ boots = MaxBoots)
     /\ UNCHANGED boot_parts

BootSpec == BootInit /\ [][BootNext]_boot_parts /\ WF_boot_vars(boot_main)
====
