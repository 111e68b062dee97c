-------------------------------- MODULE Cfw --------------------------------
(***************************************************************************)
(* The custom firmware of Windows CE: aipc-boot loads EBOOT from NAND and  *)
(* lets CFW patch it (aipc-boot/boot.c, cfw/eboot), EBOOT loads NK and     *)
(* jumps through the patched jump to nkpf (cfw/nkpf), which patches NK.    *)
(* The pattern finder is lib/pf.c, the run over the components             *)
(* cfw/core/core.c.                                                        *)
(*                                                                         *)
(* An instruction is a pair: its name, and the operand that a mask may     *)
(* hide.  An image is a sequence of code sites with other words between    *)
(* them.  A memory address is an index.                                    *)
(***************************************************************************)
EXTENDS Integers, Sequences, FiniteSets, SequencesExt

CONSTANTS
  Eboots,        \* sequences of sites that NAND can hold as EBOOT
  Nks,           \* the same of NK
  Roms,          \* the module tables of NK, see rom_code_range
  WINDOW,        \* words that pf_apply_32 reads ahead
  ARENA,         \* words of patches that fit the arena
  MaxBoots       \* bound: attempts from the menu

ASSUME CfwAssumption == {WINDOW, ARENA, MaxBoots} \subseteq Nat \ {0}

VARIABLES
  where,         \* menu, prepared, stage, nk, running, halted
  enable,        \* .data of CFW: the enabled components
  todo,          \* what cfw_run still does in this stage
  code,          \* the image that is patched: EBOOT, then NK
  rom,           \* the module table of NK
  bss,           \* .bss of CFW: [found, installed, arena]
  resident,      \* [there, irq_orig, ioctl_resume]
  as_loaded,     \* history: EBOOT, and NK, as they were loaded
  eboot,         \* EBOOT as it was entered
  boots          \* attempts so far

cfw_vars == <<where, enable, todo, code, rom, bss, resident, as_loaded, eboot, boots>>

-----------------------------------------------------------------------------
(* Words and patterns.                                                     *)

Masked == -1
W(name) == <<name, 0>>
Ws(names) == [i \in DOMAIN names |-> W(names[i])]
Other == W("other")

hold1582_match == Ws(<<"mvn r3 10000", "str 98", "str r3 94", "mvn r3 0", "str 7c", "mvn r3 0">>)
hold1582_to == Ws(<<"orr r2 200", "mvn r3 r2", "str 98", "str r3 94", "mvn r3 0", "str 7c">>)
hold188_match ==
  Ws(<<"mvn r3 0", "str 8c", "mvn r3 0", "mov r2 0", "str r3 94", "str e0", "str e4", "str e8", "mvn r3 0", "str ec",
       "str f0", "mvn r3 0", "str f4", "mvn r3 0", "str f8", "mvn r3 0", "str fc", "str 80", "str 88", "str 90", "str 98">>)
hold188_out_to == Ws(<<"str fc", "str 80", "str 88", "str 90", "mov r2 200">>)
check_match ==
  <<W("push r4-r5"), W("mov r4 3"), <<"bl", Masked>>, <<"bl", Masked>>, W("cmp r0"), <<"bne", Masked>>, <<"bl", Masked>>,
    <<"mov r5", Masked>>, W("orr r5"), W("cmp r5"), <<"bgt", Masked>>>>
handoff_match == Ws(<<"mov r1 70", "mcr c1", "nop", "mov pc r2", "nop", "mov r2 0", "mcr c8", "mov pc r0", "mov pc lr">>)
rtc_match ==
  <<<<"push", Masked>>, <<"ldr r4", Masked>>, W("mov r1 0"), W("ldr r3 68"), W("cmp r3"), <<"beq", Masked>>, <<"ldr r3", Masked>>,
    W("ldr r3 r3"), W("cmp r3"), <<"ldreq r2", Masked>>, W("ldreq r3"), W("addeq"), W("streq"), <<"popeq", Masked>>, W("bxeq")>>
irq_match ==
  <<W("sub lr"), W("push irq"), <<"add r0", Masked>>, W("cmp 80"), <<"blcc", Masked>>, W("mrs"), W("push r1"), W("mov r0 lr"),
    W("msr"), W("push lr"), W("push r0"), <<"ldr ip", Masked>>, W("mov lr pc"), W("bx ip")>>
ioctl_match ==
  <<W("push r4-r11"), W("sub sp"), W("mov r9"), W("mov sl"), W("mov fp"), W("mov r7"), <<"ldr r6", Masked>>, W("mov r8"),
    W("mov r5 0"), W("ldr lr 8")>>

Pattern ==
  [hold1582 |-> hold1582_match, hold188 |-> hold188_match, check |-> check_match, handoff |-> handoff_match,
   rtc |-> rtc_match, irq |-> irq_match, ioctl |-> ioctl_match]

WordAt(img, i) == IF i \in DOMAIN img THEN img[i] ELSE Other
Put(img, i, ws) == [j \in DOMAIN img |-> IF j \in i .. i + Len(ws) - 1 THEN ws[j - i + 1] ELSE img[j]]

\* ldr_literal: the word that the load at i names, from two words further on.
ldr_literal(img, i) == i + 2 + WordAt(img, i)[2]

-----------------------------------------------------------------------------
(* The pattern finder.                                                     *)

Is(pair, w) == pair[1] = w[1] /\ pair[2] \in {Masked, w[2]}

\* A short pattern is compared with the words read ahead, which a patch may
\* have changed since; a long one with memory.
pf_maskmatch_match(p, a, i) ==
  \A k \in DOMAIN Pattern[p] : Is(Pattern[p][k], WordAt(IF Len(Pattern[p]) < WINDOW THEN a.reads ELSE a.img, i + k - 1))

\* What the callback looks at before it takes a match.
Accepts(p, img, i) ==
  CASE p = "rtc" -> /\ WordAt(img, i)[2] = WordAt(img, i + 13)[2]
                    /\ WordAt(img, ldr_literal(img, i + 6)) = W("BOOTARGS")
    [] p = "irq" -> WordAt(img, ldr_literal(img, i + 11)) \in {W("handler"), W("irq_hook")}
    [] p = "ioctl" -> WordAt(img, ldr_literal(img, i + 6)) = W("ioctl table")
    [] OTHER -> TRUE

\* What the callback writes.
Patch(p, img, i) ==
  CASE p = "hold1582" -> Put(img, i, hold1582_to)
    [] p = "hold188" -> Put(Put(img, i + 2, Ws(<<"mvn r3 200">>)), i + 15, hold188_out_to)
    [] p = "check" -> Put(img, i, Ws(<<"mov r0 1", "bx lr">>))
    [] p = "handoff" -> Put(img, i + 7, Ws(<<"ldr pc", "nk_entry">>))
    [] p = "rtc" -> Put(img, i, Ws(<<"bx lr">>))
    [] p = "irq" -> Put(img, ldr_literal(img, i + 11), Ws(<<"irq_hook">>))
    [] OTHER -> Put(img, i, Ws(<<"b ioctl_hook">>))

\* cfw_patch_once: a second match is a panic.
callback(a, p, i) ==
  IF ~Accepts(p, a.img, i) THEN a
  ELSE IF p \in a.fired THEN [a EXCEPT !.panic = TRUE]
  ELSE [a EXCEPT !.img = Patch(p, a.img, i), !.fired = @ \cup {p}, !.sites = @ @@ (p :> i)]

\* The patches of a set at index i; pf_maskmatch puts the last one first.
MatchOne(a, p, i) == IF ~a.panic /\ pf_maskmatch_match(p, a, i) THEN callback(a, p, i) ELSE a
ApplyAt(a, set, i) == IF Len(set) = 2 THEN MatchOne(MatchOne(a, set[2], i), set[1], i) ELSE MatchOne(a, set[1], i)

\* From index i on, to the next index with a match.  reads are the words as
\* they are read ahead: at index i the next WINDOW ones have been read, and a
\* patch shows only in the words after them.
RECURSIVE pf_apply_32(_, _, _)
pf_apply_32(a, set, i) ==
  LET hits == {j \in DOMAIN a.img : j >= i /\ \E k \in DOMAIN set : pf_maskmatch_match(set[k], a, j)}
      at == Min(hits)
      b == ApplyAt(a, set, at)
  IN IF hits = {} \/ a.panic THEN a
     ELSE pf_apply_32([b EXCEPT !.reads = [j \in DOMAIN @ |-> IF j < at + WINDOW THEN @[j] ELSE b.img[j]]], set, at + 1)

\* Neither of the two holds is required.
Required == {"check", "handoff", "rtc", "irq", "ioctl"}

pf_apply(img, set) ==
  LET a == pf_apply_32([img |-> img, reads |-> img, fired |-> {}, panic |-> FALSE, sites |-> <<>>], set, 1)
  IN [a EXCEPT !.panic = @ \/ \E i \in DOMAIN set : set[i] \in Required \ a.fired]

-----------------------------------------------------------------------------
(* Components.                                                             *)

Components == <<"power_hold", "battery_check_skip", "rtc_stall_fix", "diag">>
\* In a stage: init, the sets of patches, finish.  A component without a
\* patch in it is left out.
Plan(stage, on) ==
  IF stage = "eboot"
  THEN (IF "power_hold" \in on THEN <<<<"hold1582", "hold188">>, <<"finish">>>> ELSE <<>>)
         \o (IF "battery_check_skip" \in on THEN <<<<"check">>>> ELSE <<>>) \o <<<<"handoff">>>>
  ELSE (IF "rtc_stall_fix" \in on THEN <<<<"rtc">>>> ELSE <<>>)
         \o (IF "diag" \in on THEN <<<<"install">>, <<"irq">>, <<"ioctl">>>> ELSE <<>>)

Cleared == [found |-> FALSE, installed |-> FALSE, arena |-> 0]

\* The words that a set allocates.
arena_bytes(set) == LET n(i) == Len(Pattern[set[i]]) IN IF Len(set) = 2 THEN n(1) + n(2) ELSE n(1)

\* panic: in the EBOOT stage back to the menu, in NK the end.
Panic(img) ==
  /\ code' = img
  /\ where' = IF where = "stage" THEN "menu" ELSE "halted"
  /\ todo' = <<>>
  /\ UNCHANGED <<enable, rom, bss, resident, as_loaded, eboot, boots>>

\* Mutant: the arena is not given back.
free_arena_never(used) == used

\* The arena after a set: used from its start again.
free_arena(used) == 0

\* A set of patches: the range, the allocations, the scan.
cfw_run ==
  LET set == todo[1]
      a == pf_apply(code, set)
  IN IF bss.arena + arena_bytes(set) > ARENA THEN Panic(code)
     ELSE IF a.panic THEN Panic(a.img)
     ELSE /\ code' = a.img /\ todo' = Tail(todo)
          /\ bss' = [bss EXCEPT !.found = @ \/ a.fired \cap {"hold1582", "hold188"} # {}, !.arena = free_arena(@ + arena_bytes(set))]
          /\ resident' = [resident EXCEPT
               !.irq_orig = IF "irq" \in a.fired THEN WordAt(code, ldr_literal(code, a.sites["irq"] + 11)) ELSE @,
               !.ioctl_resume = IF "ioctl" \in a.fired THEN a.sites["ioctl"] + 1 ELSE @]
          /\ UNCHANGED <<where, enable, rom, as_loaded, eboot, boots>>

power_hold_finish ==
  IF ~bss.found THEN Panic(code)
  ELSE todo' = Tail(todo) /\ UNCHANGED <<where, enable, code, rom, bss, resident, as_loaded, eboot, boots>>

\* Mutant: the copy of the last boot is kept.
cfw_nk_resident_install_kept ==
  /\ todo' = Tail(todo) /\ bss' = [bss EXCEPT !.installed = TRUE]
  /\ UNCHANGED <<where, enable, code, rom, resident, as_loaded, eboot, boots>>

\* The words irq_orig and ioctl_resume are zero in the copy.
cfw_nk_resident_install ==
  /\ todo' = Tail(todo) /\ bss' = [bss EXCEPT !.installed = TRUE]
  /\ resident' = IF bss.installed THEN resident ELSE [there |-> TRUE, irq_orig |-> Other, ioctl_resume |-> 0]
  /\ UNCHANGED <<where, enable, code, rom, as_loaded, eboot, boots>>

\* rom_code_range: the first module of the name, with one code section that is
\* not compressed and lies in DDR.  FALSE is a panic, or no such module.
rom_code_range(t) ==
  LET named == {i \in DOMAIN t.mods : t.mods[i].name = "nk.exe"}
      m == t.mods[CHOOSE i \in named : \A j \in named : i <= j]
      secs == {j \in DOMAIN m.secs : m.secs[j].scn}
  IN /\ t.ecec /\ t.hdr /\ t.table /\ named # {}
     /\ m.e32 /\ m.o32 /\ Cardinality(secs) = 1
     /\ \A j \in secs : ~m.secs[j].compressed /\ m.secs[j].fits

stage_step ==
  /\ where \in {"stage", "nk"} /\ todo # <<>>
  /\ CASE todo[1] = <<"finish">> -> power_hold_finish
       [] todo[1] = <<"install">> -> cfw_nk_resident_install
       [] where = "nk" /\ ~rom_code_range(rom) -> Panic(code)
       [] OTHER -> cfw_run

-----------------------------------------------------------------------------
(* aipc-boot, EBOOT and nkpf.                                              *)

\* Mutant: the variables of the last attempt stay.
eboot_main_keeps == UNCHANGED bss

\* eboot_stage (entry.S) clears .bss before it calls eboot_main.
eboot_main == bss' = Cleared

\* wince_prepare: EBOOT as NAND has it, or an error.  cfw_install copies the
\* image of CFW with its .data; cfw_mask is what the settings and the defaults
\* enable.
wince_prepare(cfw, on) ==
  /\ where = "menu" /\ boots < MaxBoots /\ boots' = boots + 1
  /\ \/ UNCHANGED <<where, enable, todo, code, rom, bss, resident, as_loaded, eboot>>
     \/ \E img \in Eboots :
          /\ code' = FlattenSeq(img) /\ as_loaded' = [as_loaded EXCEPT !.eboot = code']
          /\ IF cfw THEN where' = "stage" /\ enable' = on /\ todo' = Plan("eboot", on) /\ eboot_main
             ELSE where' = "prepared" /\ enable' = {} /\ todo' = <<>> /\ UNCHANGED bss
          /\ UNCHANGED <<rom, resident, eboot>>

\* The stage returned 0: EBOOT is entered.
wince_enter ==
  /\ where = "prepared" \/ (where = "stage" /\ todo = <<>>)
  /\ where' = "eboot" /\ eboot' = code
  /\ UNCHANGED <<enable, todo, code, rom, bss, resident, as_loaded, boots>>

\* nk_entry clears .bss; the components stay in .data.
nk_entry == UNCHANGED enable /\ bss' = Cleared

\* EBOOT (external) loads NK and jumps: to nk_entry, when its jump says so.
EbootRuns ==
  /\ where = "eboot"
  /\ \E img \in Nks, t \in Roms :
       /\ code' = FlattenSeq(img) /\ rom' = t /\ as_loaded' = [as_loaded EXCEPT !.nk = code']
       /\ IF \E i \in DOMAIN eboot : eboot[i] = W("nk_entry")
          THEN where' = "nk" /\ nk_entry /\ todo' = Plan("nk", enable)
          ELSE where' = "running" /\ todo' = <<>> /\ UNCHANGED <<enable, bss>>
  /\ UNCHANGED <<resident, eboot, boots>>

nkpf_main ==
  /\ where = "nk" /\ todo = <<>> /\ where' = "running"
  /\ UNCHANGED <<enable, todo, code, rom, bss, resident, as_loaded, eboot, boots>>

CfwInit ==
  /\ where = "menu" /\ enable = {} /\ todo = <<>> /\ code = <<>> /\ eboot = <<>> /\ boots = 0
  /\ rom = (CHOOSE t \in Roms : TRUE) /\ bss = Cleared /\ as_loaded = [eboot |-> <<>>, nk |-> <<>>]
  /\ resident = [there |-> FALSE, irq_orig |-> Other, ioctl_resume |-> 0]

CfwNext ==
  \/ \E cfw \in BOOLEAN, on \in SUBSET ToSet(Components) : (cfw \/ on = {}) /\ wince_prepare(cfw, on)
  \/ stage_step
  \/ wince_enter
  \/ EbootRuns
  \/ nkpf_main

CfwSpec == CfwInit /\ [][CfwNext]_cfw_vars

-----------------------------------------------------------------------------
(* Properties, against the definition of a patch on the image as it was    *)
(* loaded.                                                                 *)

\* Where pattern p is in an image, all of it at once.
Sites(p, img) ==
  {i \in DOMAIN img : (\A k \in DOMAIN Pattern[p] : Is(Pattern[p][k], WordAt(img, i + k - 1))) /\ Accepts(p, img, i)}
Once(p, img) == Cardinality(Sites(p, img)) = 1
Holds_ == {"hold1582", "hold188"}

\* The image has what the components need.
Fit(stage, on, img) ==
  IF stage = "eboot"
  THEN /\ Once("handoff", img)
       /\ "power_hold" \in on => /\ \A p \in Holds_ : Cardinality(Sites(p, img)) <= 1
                                 /\ \E p \in Holds_ : Once(p, img)
       /\ "battery_check_skip" \in on => Once("check", img)
  ELSE ("rtc_stall_fix" \in on => Once("rtc", img)) /\ ("diag" \in on => Once("irq", img) /\ Once("ioctl", img))

Patched(ps, img) ==
  LET P(p) == IF p \in ps THEN Sites(p, img) ELSE {}
      one(p, x) == IF P(p) = {} THEN x ELSE Patch(p, x, CHOOSE i \in P(p) : TRUE)
  IN one("hold1582", one("hold188", one("check", one("handoff", one("rtc", one("irq", one("ioctl", img)))))))

EbootPatches(on) ==
  {"handoff"} \cup (IF "power_hold" \in on THEN Holds_ ELSE {}) \cup (IF "battery_check_skip" \in on THEN {"check"} ELSE {})
NkPatches(on) == (IF "rtc_stall_fix" \in on THEN {"rtc"} ELSE {}) \cup (IF "diag" \in on THEN {"irq", "ioctl"} ELSE {})

(* boot.h: an enabled component either applies, or fails wince_prepare.    *)
(* EBOOT and NK run with each pattern of the enabled components found once *)
(* and patched there, and with no other word changed, although the scan    *)
(* goes over words that it patched and over a copy of words that it        *)
(* patches; or, without CFW, as they were loaded.                             *)
RunsAsPatched ==
  /\ where \in {"eboot", "nk", "running", "halted"} =>
       \/ eboot = as_loaded.eboot /\ enable = {} /\ where # "nk"
       \/ Fit("eboot", enable, as_loaded.eboot) /\ eboot = Patched(EbootPatches(enable), as_loaded.eboot)
  /\ where = "running" /\ eboot # as_loaded.eboot =>
       Fit("nk", enable, as_loaded.nk) /\ code = Patched(NkPatches(enable), as_loaded.nk)

(* The hooks in NK lead somewhere: the resident is in place, irq_orig is   *)
(* the handler that the hook replaced and ioctl_resume the word after the  *)
(* one that became a branch.                                               *)
HooksLeadBack ==
  where = "running" /\ eboot # as_loaded.eboot /\ "diag" \in enable =>
    /\ resident.there /\ resident.irq_orig = W("handler")
    /\ WordAt(code, resident.ioctl_resume - 1) = W("b ioctl_hook")

(* What runs is what CFW means to run: the patched words are the right     *)
(* ones, and the hooks behind them lead to code and back.                  *)
PatchesHold == RunsAsPatched /\ HooksLeadBack

(* CFW stops only a boot whose image does not fit: no order of components, *)
(* number of patches or earlier attempt makes it give up, and the NK stage *)
(* works on the components that were chosen.                               *)
StopsOnlyMisfits ==
  [][/\ where = "stage" /\ where' = "menu" => ~Fit("eboot", enable, as_loaded.eboot)
     /\ where = "nk" /\ where' = "halted" => ~(Fit("nk", enable, as_loaded.nk) /\ rom_code_range(rom))
     /\ where = "eboot" /\ where' = "nk" => enable' = enable]_cfw_vars
=============================================================================
