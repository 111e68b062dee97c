# Verification of aipc-os

TLA+ models of the programs of this repository, the TLC runs that check them on
small instances, and TLAPS proofs about them. Source paths below are relative to
`src/`. `PROJECT.json` maps every definition to the lines it models.

## 1. The system

aipc-os brings Linux and a patched Windows CE to a small ARM926 netbook. Its own
code is bare-metal C under `baremetal/`, with stubs for the board under `tools/`:

| Component | State it keeps | Operations | Module |
|---|---|---|---|
| aipc-boot storage (`storage.c`, FatFs) | the FAT volume | load, save, mount | `StorageSave`, `AtomicFile` |
| aipc-boot settings (`settings.c`, `ini.c`) | a table of keys, `settings.ini` | load, set, reset, save | `Settings` |
| aipc-boot menu loop (`ui*.c`, `card.c`, `power.c`) | modal, autoboot, power key, card state | one turn of the loop, boot attempts | `MenuLoop` |
| aipc-boot pages (`ui.c`, `ui_pages.c`, `ui_launch.c`, `ui_modal.c`) | list, focus, scroll, modal, hints | keys, rebuild, card change, theme | `Pages` |
| aipc-boot payload loader (`payload.c`) | DDR | check, load | `Payload` |
| aipc-boot Windows CE boot (`boot.c`) and CFW (`cfw/`, `lib/pf.c`) | images of EBOOT and NK, arena, resident | prepare, patch, enter | `Cfw` |
| timer (`lib/timer.c`) | last raw count, running total | init, stop, read | `Timer` |
| SD card (`lib/sd.c`) | card state, clock, width, pads, DMA | init, high speed, read, write | `Sd` |
| NAND and ECC (`lib/nand.c`, `lib/ecc.c`) | block size, page in progress | probe, page read, image load | `Nand` |
| FAT reader (`lib/fat.c`) | cached FAT sector, cluster | load a file | `Fat` |
| openNBOOT (`opennboot/main.c`) | where it boots from | card, then NAND | `OpenNboot` |
| USB keyboard (`lib/ch374.c`, `aipc-boot/kbd.c`, `doom/src/ch374_keyboard.c`) | enumeration, last report, queues | poll, pop | `Kbd` |
| gdbstub breakpoints (`rsp.c`, `bp.S`, `resume.S`) | breakpoint table, step patch, memory | Z0/z0, m/M/X, c, s, traps | `Breakpoints` |
| gdbstub framing (`rsp.c`) | parser state, buffer, checksum | `rsp_feed` | `RspFraming` |
| gdbstub dialogue (`rsp.c`, `trace.c`) | trace log | every command's reply | `Session` |
| gdbstub decoder (`step.c`) | - | `arm_next_pc` | `StepPc` |
| gdbstub USB (`musb.c`) | EP0 transfer, FIFOs, latches | poll, bulk send | `Ep0`, `BulkIn`, `Musb` |
| NAND stubs (`tools/*/stub`, `probes/nand`) | result words, L2 set-up | erase, program, read, dump | `NandTools` |
| SD probes (`probes/sd`) | result words, saved sectors | read, write and restore | `SdProbes` |
| USB probes (`probes/spi`) | result words | control transfers | `UsbProbes` |
| touchpad probe (`probes/touchpad`) | two lines, bits of a frame | send, receive | `Touchpad` |
| LCD, console, SoC set-up, log, other probes, doom, kernel, site | - | - | not modelled (section 7) |

How they interact. `ui_run` is a cooperative loop: `poll_keyboard`,
`power_key_tick`, `card_poll`, `autoboot_tick`, one after the other, no
interrupts. Boot attempts (`launch_boot`, `payloads_enter`) are calls inside a
turn that block it for seconds, and during which the user can still change the
card and the keys. The settings page changes the table of `settings.c` and
`storage_save` writes it through FatFs, which calls the SD driver. Everything that
waits reads `timer_ms`. A payload takes the machine over and may return
(`payload_call`, `ui_resume`). openNBOOT uses the SD driver and the FAT reader, or the
NAND driver, whose pads the card shares. A Windows CE boot patches EBOOT, which later
jumps into the second stage that patches NK. The gdb stub runs only while the target
is halted; the target enters it through exception vectors, and it talks to gdb over
USB in one polling loop. The stubs and probes are small programs that a host loads
one after the other and that leave their results in memory.

What is hard here, and what makes each part correct:

- *storage*: power is cut or a sector fails between any two writes. A save must
  leave the old or the new file, and say so truthfully.
- *menu loop, pages*: several pieces of static state (`down`, `shown`, `power_armed`,
  `autoboot`, the open modal, the card, the list as it was built) are changed by
  different ticks and survive blocked turns. Autoboot must never run over the user,
  what is shown must be what a key acts on, and a press must be followed to its end.
- *settings*: a fixed table and fixed fields meet a file of another version.
- *payload, Windows CE*: 32-bit sums wrap, loading happens in place, and patterns are
  searched in memory that is being patched, over boots that are tried again.
- *SD, NAND, FAT*: any command, response or data can be lost and is tried again, from
  whatever state the last try left.
- *keyboard*: it comes and goes, and every press needs its release.
- *gdb stub*: words of the program are replaced while it is debugged and every one
  must come back; a step must land where the processor goes; USB cuts the stream
  anywhere, and the host gives up transfers, resets the bus and goes.
- *stubs and probes*: they overwrite flash and card. What they report must be what
  happened, and the machine must be left as the next program needs it.

`PROJECT.json` lists these hazards at their lines with the properties for each.

## 2. The modules and the code

A component `X` has a module `X`. Where something is proved of it the proofs are in
`XProofs`; those of `Ep0`, `BulkIn` and `Musb` are together in `MusbProofs`, those of
`Fat`, `Nand`, `OpenNboot` and `Payload` in `BootProofs`, those of `Timer`, `Kbd`,
`UsbProbes` and `NandTools` in `ToolsProofs`, those of `Pages` with `MenuLoop`'s, those of `Settings`
with `StorageSave`'s and those of `RspFraming` with `Session`'s. The MC modules put components together for TLC and give them
their constants. Definitions carry the names of the C functions they translate. A definition whose name extends that of a function or step and that is
introduced by a comment "Mutant" is a seeded bug: put in place of the definition that
follows it, it must break the property `PROJECT.json` names.

**StorageSave, AtomicFile.** `dir` is the directory (an entry or `Absent` for `path`
and `new`), `used` the chains the FAT marks, `data` the sectors. `storage_save` is
cut at every point where the card changes, and `pc` says where it is:
`Begin`, `f_open` (new entry or truncation), `f_open_remove_chain`, `f_write`,
`f_close` (writes size and start cluster), `abort_unlink`/`abort_remove_chain`
(the clean-up), `f_unlink`, `f_unlink_remove_chain`, `f_rename_register`,
`f_rename_remove`. Each may fail before or after its effect, and a power cut may
come at any point. `begin` is a ghost that remembers what could be loaded when
the save began and whether the two names were apart. Simplifications: a file is
one chain that is allocated or free as a whole; the two directory entries may be
in different sectors (they are when a directory spans sectors); FatFs's retry of
a dirty window is left out. `AtomicFile` is what the caller may believe: one content,
replaced at one moment. `StorageSave` implements it with `stored` mapped to what
`storage_load` would return; the promise is for a save that began sound.

**MenuLoop.** `pos` is the place in the turn, the call that blocks it, or how the
program ended. One action per branch of `power_key_tick`, `card_poll` and
`autoboot_tick`; `key_pressed` handles one key by the modal or the page, with
`saves`, `boot_linux`, `boot_wince` and `payloads_enter` inside. `slot`,
`mounted` and `loaded` are the card that is in, that is mounted and whose settings
are in memory. The environment's actions are the keys, the power key, card in
and out, keyboard in and out, and `Tick`. Ghosts: `touched` (the user did
something), `blind` (a card went in while the loop was blocked), `broken` (the
time of a press is not its own any more).
The user is slower than a turn of the loop, but not slower than a blocked one.

**Pages.** The screen as a record: the page, the list as `ui_rebuild` built it, the
focus, the scroll position, the modal and the hints. `settings_side`, `content_key`,
`nav_key`, `modal_key`, `ui_card_changed` and `ui_apply_theme` are operators on it, in the
order of their calls. Heights are small units in the proportions of the layout.

**Settings.** The table `keys` and the lines of `ini`. `ini_parse` stops at the
first bad line as the C code does; `set` truncates, replaces, removes and drops
at the limit; `Text` regroups by section as `settings_save` does. A name is
either short or longer than its field (`Long`, cut to `Cut`).

**Payload.** Words wrap at `WORD`. `check` with `range_ok`, `overlaps` and the
entry test; then `load_segment` one segment at a time, each of which may fail
after part of it was written.

**Cfw.** `wince_prepare` loads EBOOT and runs the first stage; EBOOT loads NK and jumps to
`nkpf`, which runs the second. `pf_apply` scans with its eight words read ahead, so a
pattern sees the words as they were before a patch that just fired. Every component
of `cfw/` is there with its patterns. A panic ends the attempt and the user can boot
again over what is left in memory. An instruction is its name and the operand that
masks may hide.

**Timer.** The down counter `live`, `last`, `total`; `payload_call`'s stop and
restart. Ghosts give the real time. The 32-bit wrap of the millisecond value
(49 days) and the division are left out.

**Sd.** One step per command or data phase of `sd_init`, `sd_high_speed`, `sd_read_block`,
`sd_write_block` and `sd_read_blocks`, with their retries; `CardSends`, `DmaMoves` and
`CardReady` are the card and the DMA, which go on by themselves. A command can be unseen or
rejected, its response or the data can be lost or damaged, and the card can be pulled. A
card that rejects a command keeps the error bit (`err`) for the next R1, which CMD6, CMD18
and CMD24 look at. What it shows beside its properties: `sd_read_block_once` never
looks at `STA_DATACRCFAIL` (`blind` marks the reads in which that matters); a damaged ACMD41
can give a wrong `g_sdhc` (`sdhc` is whether it is right), after which every transfer goes to
another block; a damaged switch status can pass for agreement, because its words are read
before its CRC (`guessed`); after a lost response of CMD24, a CMD24 that is tried
again after a rejected one, or a CMD12 that the card did not see, the card waits for a block
and every try fails until the next `sd_init`; a lost response of ACMD6 leaves card and
controller with different widths. `sd_high_speed` can return -13 with the clock raised, where
`sd.h:30-32` says of a negative code that the clock stays at 20.67 MHz; `card_start` only
logs the code, and the next transfer runs at a clock that the card agreed to.

**Nand, Fat, OpenNboot.** `Nand` reads a page chunk by chunk with `ecc_locate` by its
cases, tries it again, skips bad blocks, and probes the block size. A chunk that cannot be
corrected is taken when it reads as all ones, on any page (`Blank`). The word with the
bad-block marker passes by the ECC: it comes as it is, with a bit turned over, or not at
all, and `misread` marks that a block was judged wrongly by it. `Fat` takes the
verdict on MBR and boot sector as given and models the walk: root directory, chain,
cached FAT sector. `OpenNboot` composes them.

**Kbd.** The enumeration by its control transfers, the retry delay, reports with their
toggle, the event queue, and the two clients that pop it. The keys that are down may
stand in the slots of a report in any order; more of them than slots is a
roll-over report. An event is popped in one step and what the client makes of it is
part of that step. What `wait_irq` makes of a lost device is an outcome of the token.
`ch374_enumerate` clears the keys of the last report without a release: `forgot` is the
keys that a reader goes on to hold for that reason, and `stuck` those of doom whose count
went up twice.

**Breakpoints.** `mem` against the ghost `image` (the program without patches),
the table `g_bp`, the step `g_step`, the halted or running target with its `pc`.
Memory is RAM, ROM (a store has no effect) and unmapped (an access aborts, also
inside the stub). Where an instruction goes is any address, so `arm_next_pc`
is an arbitrary but truthful choice. As gdb does, a breakpoint is removed before
its word is written, and the program does not store over its own patched code.

**StepPc.** `arm_next_pc` by instruction class, against `Executes`, which says what the
processor does with bits, an adder and its order of loads, and whether it goes on in
Thumb: bit 0 of a BX register, and of a word that LDR or LDM puts into pc. Words have `W` bits. A
register shift into pc is UNPREDICTABLE and not an input.

**RspFraming, Session.** `rsp_feed`, the rounds of its loop with `feed_byte` and
`feed_body`, which takes a run of the body at once, over pieces of any
length, against `Meaning`, a definition on the whole stream. A command that leaves the stub
(a continue, a step, an abort) drops what follows it in its USB packet; gdb sends nothing
behind such a command, and the model reads on. `Session` is the layer
above: a reply is its length in `g_out` and its meaning, gdb repeats a command whose
answer it misses, and the trace log grows and survives a reboot. A step or a continue is
acknowledged alone and answered by the trap after it; one that `do_step` does not take is
answered at once.

**Ep0, BulkIn, Musb.** `Ep0` has the registers of endpoint 0 that carry control
(`csr`), the clear-on-read latch, the software's `g_ep0_*` and a host that may start a
new SETUP or reset the bus at any time. `BulkIn` has a reply as its length,
`send_packet`, `tx_timeout` and a host that reads and may go. `Musb` puts both under the one
polling loop. A SETUP that one poll finds together with SETUPEND or a reset stays
without an interrupt until the host sends the next one; `merged` marks it.

**NandTools, SdProbes, UsbProbes.** A program is the sequence of its operations; an
operation is an action with what it does when it fails: the code it leaves, what it
puts back and where it goes on. `l2_bind` binds buffer 5 to the NAND in L2_ASSIGN (`Binds`);
only the dump programs save that register and put it back. In `SdProbes` the programs follow each other on one
card. **Touchpad** is bit by bit: the host's waits and samples against a pad
that makes the clock, in all five builds of the probe. When timer 2 does not run the
probe does nothing on the lines, as the passive build, and that case has no state of
its own.

## 3. What the runs check

A run takes several components that need no instance of their own: its module
extends them, `part` says which of them moves in a behaviour, and the others
rest in an initial state. The parts share no state, so a run is the sum of its
parts, not their product. Each component's own specification (`SettingsSpec`, `SdSpec`, ...)
is in its module.

| Run | Parts | Shows | Bound |
|---|---|---|---|
| `breakpoints` | Breakpoints | `TypeOK`; `Overlay`: memory is the program plus the patches; `StepStays`; `TrapMeansPatch` | 3 RAM words, 1 ROM, 1 unmapped, 2 slots |
| `wire` | Musb | `HostHasReply`, `HostDataIsOwn`, `PacketIsServed` (neither mistaken nor forgotten); liveness `ControlIsServed` | packets and replies of 2 |
| | RspFraming | `EventsAreMeaning`: the cuts of USB do not matter | streams of 9 bytes, packets of 3, buffer of 2 |
| | Session | `RepliesAreRight`: they fit, are acknowledged once, and make up the whole text | 4 commands, 2 tries, 1 noise, 1 reboot |
| | StepPc | `NextIsExecuted`, but for loads that enter Thumb | words of 6 bits, 4 register values, every instruction class |
| `menu` | MenuLoop | `AutobootQuiet`, `FreshUnlessBlind`; liveness `AutobootHappens`, `HoldEnds` | 2 cards, click 1, off 2, autoboot 2 units |
| | Pages | `ScreenIsTrue`: items, hints and errors on the screen are those of now; `FocusIsVisible` | 11 keys, lists of 5 that scroll |
| | StorageSave | `SaveIsAtomic`, `SuccessReplaces`; `SaveImplementsFile`: it refines `AtomicFile` | 2 contents, 3 chains, saves without limit |
| | Settings | `SettingsSurvive`: the table can be read back from its text, and keys that the user does not change stay | every file of 4 lines, 2 sections, 3 names, table of 2 |
| `lines` | Sd | `SuccessIsTrue` (data read and written), `NothingIsLeft` (DMA, buffer, pads), `ClockFits`, `OneFaultIsCovered` | 2 faults, 3 tries, 3 blocks in chunks of 2 |
| | Touchpad | `CaptureIsTrue`, `AckMeansTaken` | bytes of 3 bits, 1 fault, 2 moves |
| | both | liveness `WaitsEnd` | |
| `tools` | Timer | `Exact` | counter of 4, 14 ticks |
| | Kbd | `KeysFollow`: the menu and doom hold the keys of the last report and, exactly, those that an enumeration forgot; liveness `KeyboardReturns` | 2 keys, 2 modifiers, queues of 4 and 3, 2 plugs, 1 error |
| | UsbProbes | `OutIsTrue` | all 8 probes, 2 faults |
| | NandTools | `NandReportIsTrue` | 3 pages of 2 chunks |
| | SdProbes | `SdReportIsTrue` | 4 programs in a row, 4 units, 1 fault |
| `boot` | OpenNboot | `EnteredIsWhole`; liveness `BootEnds` | images of 3 pages, 2 bad blocks, 6 bit positions, any marker lost or turned, any chunk all ones |
| | Payload | `WritesAreSafe`, `EntryIsLoaded` | words below 7, 2 segments, 2 used ranges |
| | Cfw | `PatchesHold`, `StopsOnlyMisfits` | images that fit, miss or repeat a pattern, 2 boots |

Several of these are conjunctions of named parts, each with its own comment in the
module (`SdReportIsTrue` is `LossIsReported`, `RestoredIsOriginal` and `FaultFreeIsOk`), and
`PROJECT.json` has a seeded bug for each part.

Why the bounds are enough. `StorageSave` needs a chain for each name and one for
the next write; contents are compared only with the previous one. A step patch
and two breakpoints meet in three RAM words in every way. A stream of 9 bytes
holds two packets, or an oversize body and a packet behind it; `Base` 2
keeps the checksum at two digits while making matches and mismatches frequent.
The longest reply is one full packet, the case that `Packet` is about (replies of several
packets are left to the proof), and a request of the host (3) is no multiple of it. Four commands hold a question, its retry and what follows it. In
6 bits every shift amount up to the width, past it and every carry occurs. The menu's
times separate click, progress and off, and autoboot can be overtaken. Eleven keys go to
every page and back through a modal, and the view is shorter than a list. Two faults
hit a try and the retry or the clean-up after it; the tries are three where the code
has more, so that both their success and their end are reached. A frame of 3 bits has
start, data, parity and stop, and every place to be cut. A queue of 4 overflows
with two keys and a modifier. Four programs in a row are the longest sequence that the
SD probes ask for. The bit positions are the edges of `ecc_locate`'s cases. Four lines
fill a table of two and drop a key, and `Long` twice meets the cut name. With words
below 7 every sum wraps for some segment and the used ranges lie inside, at the
start and at the end of others. 14 ticks wrap a counter of 4 three times.

`tools` runs without the deadlock check: its programs end. In the other runs
the stop of a bounded part is a stutter that names the bound or the end.

## 4. Where code and comments disagree

Six runs show a statement of the repository that the code does not keep.

- `storage_loses` (`FailureLeavesACopy`): after a power cut between unlink and
  rename, `path.new` is the only copy and `storage_load` uses it. The next
  `storage_save` truncates it first; if its write fails, it is removed and nothing
  can be loaded. `storage.h:16` promises "the old file or a complete path.new".
- `menu_off` (`OffNeedsFullHold`): a press that is down while a payload runs is
  measured against a restarted clock; the device turns off at once.
- `menu_swap` (`MountedIsLoaded`): `card_init` compares states, not cards. A card
  exchanged during a blocked turn is READY before and after, so it is mounted
  without being read, and the next save puts the other card's settings on it.
  `FreshUnlessBlind` shows that this is the only way to it.
- `settings_keeps` (`KeepsUnknownKeys`): keys past `KEYS_MAX`, behind a bad line, with
  a long name, or in a file that could not be read are lost by the next save.
  `SettingsSurvive` is what holds: a table that took in the whole file keeps it.
- `nand_geometry` (`NoWrongCandidate`): on a part with 32 pages in a block whose block
  1 is bad, the image starts at page 64, which the candidate 64, tried first, takes for
  its block 1. `nand.c:258` says that a wrong candidate cannot pass the probe.

- `step_thumb` (`ThumbIsUndecided`): `arm_next_pc` clears bit 0 of a word that LDR or LDM
  loads into pc and decides the step. On this core (ARMv5TE, `lib/common.mk:16`) that bit
  enters Thumb, so the patch, an ARM word, is put over Thumb code. `step.c:3` says "A Thumb
  pc is undecidable here.", and `gdbstub/README.md:39` that a Thumb pc gives an error, as it
  does for BX. `NextIsExecuted` is what holds of all other steps.

`SuccessReplaces` has a proviso, that the two names were apart when the save
began. A power cut inside `f_rename` leaves both on one chain (`ff.c:5347`), and the
next save frees that chain when it unlinks `path`; nothing is promised of that
save, which returns 0 all the same. Two smaller effects of the static variables of
`power_key_tick` can be followed in `MenuLoop` and have no run of their own: a press
from before a failed WinCE boot still counts as a click after
`ui_power_key_rearm`, which leaves `down` set, and a card change during a long press
closes its progress for good, because `shown` stays set. `block_is_bad` takes a
marker that cannot be read, or of which a bit is wrong, for that of a bad block, so that
`nand_load_image` goes on behind a good one and reports success; and a chunk that the engine
gave up on is taken when it reads as all ones. `LoadedIsImage`, a part of `EnteredIsWhole`,
leaves the loads with such a marker out (`misread`) and allows such a chunk by name. A key
that is down when the keyboard is enumerated anew is never released by `ch374.c:327`, and
when it is reported again doom counts it twice: `KeysFollow` says that these are the only keys
that hang. A keyboard that is pulled reads as one without news (`ch374.c:249`).

## 5. Fairness and liveness

Everything here is one CPU that polls, so weak fairness of the program's own steps is
what the code guarantees; nothing is assumed of a user, a host, or a device, except
that hardware which is at work goes on.

- `MenuLoop`: `Step` (no call in the loop blocks for ever except the prompt for the
  power key, which is the user's) and `Tick`. `AutobootHappens` has as its premise that
  the keyboard is present from some time on, because `autoboot_tick` waits for it.
- `Musb`: the polls, and `bulk_send`, because `bulk_tx_wait` is a bounded loop: either
  the packet goes or the wait ends. Nothing of the host.
- `Sd`: the driver's steps, each wait of which has a limit, and the card and DMA that
  are in a transfer.
- `Kbd`: the polls, the pops and the retry delay. Nothing is assumed of the detect bit:
  `ch374_issue_token` waits before `wait_irq` looks, so the transfer bit can always be up
  and hide it. `KeyboardReturns` therefore starts where the driver has noticed the
  loss, and has as its premise that the keyboard stays.
- `OpenNboot`: `boot_main`.
- `Touchpad`: the probe, whose waits end by time, and the clock of a pad that is not silent.

Liveness is checked by TLC only.

## 6. What is proved

The proofs hold for every value of the constants under the named assumptions of the
modules. Most only say what kind of value a constant is. The ones with content:

- `ReplyAssumption` (`Session`): a register dump and the longest `md32` dump fit
  `OUT_SIZE`; they do with the sizes in `rsp.c`. The other replies are cut
  into packets or clamped to the buffer by the code, and need no assumption.
- `VolumesAssumption` (`Fat`): on a volume that counts as sound, `sound` is the chain of
  the file. Nothing is assumed of the others.
- `NandAssumption` (`Nand`): the bits that can flip are those a position register can
  name, 0 to 4219. The ECC corrects no others, and a chunk has no others.
- `SdTriesAssumption` (`Sd`): a read and a write have more than two tries; `sd.c` has 5
  and 3. Two would not do: the first transfer after `sd_init` costs one, a fault the
  other. The bound of the faults is above one, so that a fault that counts as all is
  told from a single one.
- `PagesAssumption` (`Pages`): one item with the heading above it and its help
  fits the window, as it does with the heights of `ui.c`. Without it no scroll position
  would show the focus.
- `SettingsAssumption` (`Settings`): the keys that the menu sets are in a named section, as
  all in `settings.h` are; those of a file need not be.
- `KbdAssumption` (`Kbd`): usages are not 0, which stands for an empty slot, queues have a
  slot more than they hold, and at most 255 usages are one key of doom, whose count of
  them is a byte.
- `BreakpointsAssumption`: the stub lies outside the program's memory and the patch is
  no word of the program.

The argument for each, with the invariant that makes it inductive:

- **StorageSaveProofs**: `PathIsWhole`, `SaveIsAtomic`, `SuccessReplaces`. None is
  inductive: that `f_unlink` may remove `path` rests on what `f_write` and `f_close` did
  to `path.new` before. `IInv` adds, for each place of the save, `PathSafe` (until
  the unlink, the chain of `path` is allocated and no one else's), `FileSafe` (a FIL
  object with the full size has its content in its chain), `NewSafe` (from the
  unlink on `path.new` is complete) and `ResultSafe`.
  `SaveImplementsFile`, the refinement of `AtomicFile`: `Where` says for each place which
  of the two contents `storage_load` would return, `StoredFrame` and `NewContentStays`
  that a step elsewhere does not change it, and `NextRefines` that the step that does
  (the one that takes `path` away, after which `storage_load` finds `path.new`) is the
  abstract replacement. A power cut and an error are the abstract `Finish`.
  `SettingsSurvive`: `SettingsInv` says that, after a load that could keep the whole file,
  table and file agree with the loaded file on every key that the user did not change, and
  that the table can be written (`Table`): no key is in it twice, and those without a
  section are not behind others, where a `[section]` line would take them in. Three facts
  about the operators carry it: `TextSays` (the text says of every key what the table
  says, however its sections are mixed), `ParseSays` (a load gives every key the value the
  file says) and `HasRoom`, a pigeonhole argument: while the keys of the lines read so
  far are fewer than the file's, `set` finds a free entry.
- **BreakpointsProofs**: `TypeOK`, `Overlay`, `PatchedOnce`, `StepStays` and the action property
  `TrapMeansPatch`. The invariant says of every RAM word that it is the patch
  exactly where a slot or the step is, and that slots and step do not share an
  address; the lemma `TrapIInv` does the four ways into `rsp_trapped` once.
- **MenuLoopProofs**: `AutobootQuiet` needs `PressIsSeen`: a press that `power_key_tick`
  follows has touched the menu. Without it the click at the end of that press could open
  a page under a running countdown. `FreshUnlessBlind` is inductive by itself;
  `CardInitFresh` does the calls that mount a card and load its settings once.
  `ScreenIsTrue` and `FocusIsVisible` of `Pages`, from `PagesInv`: the list on the
  screen is the layout of what would be built from the settings, the entries and the card
  of now, the focus is one of its items and lies within the window, the hints are
  those of list, focus and modal, and a save that failed has its error on the screen. Each of `content_key`, `nav_key`, `modal_key`,
  `ui_card_changed` and `ui_apply_theme` may leave the list stale in the middle; the lemmas
  about `ui_rebuild` and the scroll position say that it is true again when it returns.
- **SdProofs**: `SuccessIsTrue`, `NothingIsLeft`, `ClockFits`, from `SdInv`, and the action
  property `OneFaultIsCovered`, from `CoverInv`. `StepsMatch`
  ties the step to the operation; `PadsInv` and `LeftInv` say which step owns the pads,
  an open DMA request and a turned buffer; `ClockInv` that the card is selected at the
  default clock, so that only a switch that the card agreed to, or whose damaged status
  said so, makes it fast; `MultiInv`
  that moved and open blocks add up to those the DMA was given and that the moved ones are
  the card's; `DataInv` that a write whose data phase ended well is on the card while its
  busy phase is polled. `CoverInv` says of a card that is selected, agrees with the driver
  on width and address and had at most one fault (`Sound`) that at every step it is in
  a state the step expects (`CardAt`), and that the tries are at most the
  faults and the first transfer (`TriesInv`, `Spent`); so a failing try is never the
  last one (`TryLeft`). `ClearInv` says where no error bit of an earlier command is left, so
  that the R1 of a sound command tells of itself. The faults that no try covers
  are counted as all of them (`Fault`), and the comment of the property names them.
- **MusbProofs**: `HostHasReply` of `BulkIn` by `LastIsShort`: what remains of a reply
  always ends in a packet below the maximum. `HostDataIsOwn` and `PacketIsServed` of
  `Ep0` by `CsrInv` (which bits of CSR0 exclude each other), `InInv` (a rest of an
  IN transfer that could still be sent is of the open request, at the offset the host is
  at) and `OutInv` (a rest to receive is the open transfer's, or SETUPEND or a reset
  announces its end). `Musb` steps are steps of one of the two
  or of none (`MusbSteps`), so both hold of the composition.
- **SessionProofs**: `RepliesAreRight`. The first half is about the replies: what
  fits the buffer is written whole (`OutChFits` and its kin), and every command has one
  reply, the logs as output packets that follow each other without a gap (`Pieces`,
  `RegionIsReply`, `PacketsAreReply`). The second is `SesInv`: gdb asks for the piece of
  target.xml behind those it has (`XmlInv`), acknowledgements and commands balance
  through retries (`CountInv`), and the two logs are of two runs although one grows and
  the target reboots (`LogInv`).
  `EventsAreMeaning` of `RspFraming`, from `FramingInv`: the parser between two pieces is
  `Parsing`, which says where the open packet starts and that what is before it has been
  told, however the stream goes on (`Told`, over every extension of the stream: that a
  packet is dropped or ends must not depend on bytes that have not come). `MeaningSkips`,
  `MeaningDrops`, `MeaningPacket` and `MeaningPartial` say what `Meaning` is at a place of
  each kind, `SumConcat` that the checksum of runs is that of the body, and `RoundKeeps` does a
  round of the loop. `Cost` shows that two rounds for a byte are enough, so that
  `rsp_feed` has looked at the whole piece.
- **BootProofs**: `EnteredIsWhole` of `OpenNboot`, from three invariants. `FatInv`: the
  cached FAT sector is one of this volume (`CacheInv`), what was loaded is a prefix of
  the file (`PrefixInv`) and the walk stands on the cluster of its offset (`PlaceInv`,
  through `EntryIsNext`). `NandInv`: the chunks read are those of the page with every
  error that the engine located corrected, or all ones (`BufInv`; `LocateOfError` shows that `ecc_locate` inverts the position
  registers for all 4220 bits, segment by segment), and the image is the pages of the good
  blocks before this one (`LoadInv`, over `BlocksBefore` and `PageOfBlock`), unless a
  block was misjudged by its marker or the probe was wrong about the block size, where
  the property makes no claim.
  `PadsInv`: the pads are the card's only while the card is read.
  `WritesAreSafe` and `EntryIsLoaded` of `Payload`: `RangeSafe` shows that
  `range_ok` has no gap at the wrap; `Checked` keeps for all segments what `check`
  established, and `LoadedSoFar` relates the memory to the loop's index.
- **ToolsProofs**: `KeysFollow` of `Kbd`, from `KbdInv`. `QueueInv`: the events that wait
  in the queue, played on what the client has seen, give the last report and the keys that
  an enumeration forgot, and a release is only of a usage that is down (`Changes`); a usage whose event fell out of
  the full queue (`queue_push` drops the oldest) is excused. `RingPush` and `RingPop` say what the two indices of a ring do to
  the sequence it holds. `CountInv`: doom's count of a key is the number of its usages that
  are down, or more for good when it is `stuck`, so the release that the game sees is that of the last one, and
  `GameInv` that what waits for the game, played on what it has, gives those counts.
  `Exact` and `NeverAhead` of `Timer`: `Due`, the ticks the next
  `timer_ms` will add, links the wrapped difference to the real gap.
  `OutIsTrue` of `UsbProbes`: `SyncInv` (the keyboard sends the next packet, or the last
  one again, and the toggles tell which) gives the descriptor; `TransferInv` and `RetInv`
  (the second result is that of the configuration, and no reset comes after) give the
  report; for OUT, `ProbesOK` shows of each of the eight programs that no word belongs
  to two parts, and `OutInv` that a step writes its own words only.
  `NandReportIsTrue` of `NandTools`, from `NandInv`. The programs are concatenations whose
  length depends on the constants, so the first half says what stands at each place of
  them: `WriteSteps`, `CopySteps` and their kin, over `PlaceOf` and `NextPlace` for a loop of
  pieces of one length. The second half is what holds there: `WriteAt` (the pages before
  this one are written, the ones behind it blank, the page register has the chunks sent so
  far, and after the confirm the page is new or the status says refused), `ReadAt` and
  `CopyAt` (the chunks before this one are in memory, and the errors are the pages of ones),
  `ProbeWriteAt`, that the L2 direction is only set where every failure clears it, and that
  the NAND stays bound in L2_ASSIGN only after a program that does not save it.

Only model-checked, and why:

- liveness (all of section 5) and what rests on `ENABLED`: outside the prover;
- `PatchesHold`: the scan is a RECURSIVE operator on a whole image, patches
  can overlap, and whether they meet each other depends on the images, which are constants.
  Induction over data is possible here where the model uses a recursive function, with
  sets of indices in place of predicates (`NatSetMin` and `UpToInduction`), and that
  is how the proofs of `Settings`, `Kbd` and `RspFraming` go;
- `NextIsExecuted`: bitwise operators;
- `SdReportIsTrue`: the programs follow each other on one card, and each is built by
  filters over its parameters; for `NandTools` and `UsbProbes` the places of a program
  were worked out one by one, here nine programs have 28 variants;
- `CaptureIsTrue` of `Touchpad` is not true for every constant. With one fault in a
  frame it holds, and that is its run; two flipped bits in one frame pass the parity
  check, as they would on the wire.

## 7. Not modelled

LCD, framebuffer console, SoC and MMU set-up are register writes in a straight
line, and so are the other probes (LCD timing, backlight, GPIO), whose result is what a
person sees. `log.c` is a write pointer into a window, of which `Session`'s trace has the
harder form. `entries.c` is a second client of the INI parser, without the save that
makes `Settings` hard; fade, sysinfo and battery compute what is shown. doom, LVGL and
the fonts are third-party or data; of FatFs only what `storage_save` calls is modelled.
The hooks of `cfw/residents/nk` run inside Windows CE, whose code is not in the repository.
The host tools are scripts that call the stubs of `NandTools` in order, and offline
converters. The kernel directory holds patches against a tree that is not here.

Inside the modelled components these are left out: storage's reads in runs of sectors
and `storage_space`, `payload_list`, the atags of `linux_enter`, number parsing and
trimming of the INI parser, the hex text of replies, and everything that only logs or
draws.

## 8. Plan

Done: everything of section 1 in the order of what can lose the user's data, what can
corrupt the program under test, what the user meets, what the drivers promise, and
what the stubs and probes report.

Proved: every safety invariant but the four that section 6 names.

Next, in order:

1. Theorems: `SdReportIsTrue`, program by program, as it was done for `NandTools`.
2. A run of `Breakpoints` in which the debugger does write over a patch.
3. `Kbd` in place of the `kbd` flag of `MenuLoop`, and `Pages` in place of its `modal`.
