-------------------------------- MODULE Fat ---------------------------------
(***************************************************************************)
(* The FAT reader of openNBOOT (baremetal/lib/fat.c): it finds BOOT.BIN in *)
(* the root directory of the first FAT partition and loads it, one sector  *)
(* at a time, with one cached sector of the FAT.  Any read can fail, and   *)
(* then leaves anything in the buffer.                                     *)
(*                                                                         *)
(* A volume is what the reader looks at: the checks of the MBR and the     *)
(* boot sector as one field, the entries of the root directory by sector,  *)
(* the FAT and where the clusters of the file lie.  A byte of data is      *)
(* named by its cluster, sector and place.                                 *)
(***************************************************************************)
EXTENDS Integers, Sequences

CONSTANTS
  SECTOR,                 \* bytes of a sector: 512
  ENTRIES,                \* FAT entries of a sector
  MAX_FAT32_ROOT_SECTORS,
  SD_BOOT_MAX,
  Volumes                 \* [check, fat32, spc, dir, root, file, size, fat, sound]

ASSUME FatAssumption ==
  {SECTOR, ENTRIES, MAX_FAT32_ROOT_SECTORS, SD_BOOT_MAX} \subseteq Nat \ {0}

\* Entries of the FAT that are not clusters.  A bad cluster, or one behind the
\* end of the card, is below EOC: its sectors cannot be read.
EOC == 1000
Beyond == 999

\* What the FAT of v says of cluster c.
Entry(v, c) == IF c \in DOMAIN v.fat THEN v.fat[c] ELSE 0

\* sound is the chain of the file, from its first cluster to one that nothing
\* readable follows, or empty when there is none.
ASSUME VolumesAssumption ==
  \A v \in Volumes :
    /\ v.spc \in Nat \ {0} /\ v.size \in Nat /\ v.root \in Nat /\ v.file \in Nat
    /\ \A c \in DOMAIN v.fat : v.fat[c] \in Nat
    /\ v.sound \in Seq(2 .. Beyond - 1)
    /\ v.sound # <<>> =>
         /\ v.sound[1] = v.file
         /\ \A i \in 1 .. Len(v.sound) - 1 : Entry(v, v.sound[i]) = v.sound[i + 1]
         /\ Entry(v, v.sound[Len(v.sound)]) \notin 2 .. Beyond - 1

VARIABLES
  vol,                    \* external: the volume on the card
  fpc,                    \* "off", "mbr", "bpb", "root", "rootnext", "file", "filenext", "done"
  cluster, sec,           \* the cluster and the sector in it that are next
  scanned,
  fat_buf_lba, fat_buf,   \* the cached sector of the FAT, -1 for none
  loaded,                 \* the bytes at dst
  frc                     \* "none" before the end

fat_vars == <<vol, fpc, cluster, sec, scanned, fat_buf_lba, fat_buf, loaded, frc>>
fat_cache == <<fat_buf_lba, fat_buf>>

Return(rc) ==
  fpc' = "done" /\ frc' = rc /\ UNCHANGED <<cluster, sec, scanned, loaded>>

Lba(c) == c \div ENTRIES
FatSector(l) == [o \in 0 .. ENTRIES - 1 |-> Entry(vol, l * ENTRIES + o)]
At(c) == c % ENTRIES
Garbage == [o \in 0 .. ENTRIES - 1 |-> 2]

\* Mutant: a read that fails leaves the buffer, and the entry comes from it.
fat_entry_early(c, ok) ==
  /\ fat_buf_lba' = Lba(c)
  /\ fat_buf' = (IF Lba(c) = fat_buf_lba THEN fat_buf ELSE IF ok THEN FatSector(Lba(c)) ELSE Garbage)
  /\ cluster' = fat_buf'[At(c)]

\* The entry of cluster c is the next cluster.  A read that fails reads as the
\* end of the chain; the buffer is gone, and still counts as what it was.
fat_entry(c, ok) ==
  IF Lba(c) = fat_buf_lba
  THEN cluster' = fat_buf[At(c)] /\ UNCHANGED fat_cache
  ELSE IF ok
  THEN fat_buf_lba' = Lba(c) /\ fat_buf' = FatSector(Lba(c)) /\ cluster' = FatSector(Lba(c))[At(c)]
  ELSE fat_buf' = Garbage /\ cluster' = EOC /\ UNCHANGED fat_buf_lba

-----------------------------------------------------------------------------
(* fat_load_file.                                                          *)

FatInit ==
  /\ vol \in Volumes /\ fpc = "off" /\ cluster = 0 /\ sec = 0 /\ scanned = 0
  /\ fat_buf_lba = -1 /\ fat_buf = Garbage /\ loaded = <<>> /\ frc = "none"

\* The cache is empty; a FAT32 root starts at its cluster.
fat_start ==
  /\ fpc = "off" /\ fpc' = "mbr" /\ fat_buf_lba' = -1
  /\ cluster' = 0 /\ sec' = 0 /\ scanned' = 0
  /\ UNCHANGED <<vol, fat_buf, loaded, frc>>

\* -1, -2, -3.
read_mbr(ok) ==
  /\ fpc = "mbr" /\ UNCHANGED <<vol, fat_cache>>
  /\ IF ~ok THEN Return("-1")
     ELSE IF vol.check \in {"-2", "-3"} THEN Return(vol.check)
     ELSE fpc' = "bpb" /\ UNCHANGED <<cluster, sec, scanned, loaded, frc>>

\* -4, -5.
read_bpb(ok) ==
  /\ fpc = "bpb" /\ UNCHANGED <<vol, fat_cache>>
  /\ IF ~ok THEN Return("-4")
     ELSE IF vol.check = "-5" THEN Return("-5")
     ELSE /\ fpc' = "root" /\ cluster' = IF vol.fat32 THEN vol.root ELSE 0
          /\ UNCHANGED <<sec, scanned, loaded, frc>>

InChain == cluster < EOC /\ cluster >= 2

\* scan_dir_sector: the first entry that says something, the end of the
\* directory or the file.  Deleted entries, long names and labels do not.
scan_dir_sector(entries) ==
  LET says == SelectSeq(entries, LAMBDA e : e \in {"end", "file"}) IN
  IF says = <<>> THEN "nothing" ELSE Head(says)

\* The entry is there: the checks of its size and first cluster.
FileFound ==
  IF vol.size = 0 \/ vol.file < 2 \/ vol.size > SD_BOOT_MAX
  THEN Return("-9")
  ELSE fpc' = "file" /\ cluster' = vol.file /\ sec' = 0 /\ UNCHANGED <<scanned, loaded, frc>>

\* The sectors of the root directory: of a chain, or of FAT16's fixed place.
DirSector == IF vol.fat32 THEN vol.dir[cluster][sec + 1] ELSE vol.dir[sec + 1]

\* find_in_root gives up before it reads a sector.
RootOver ==
  IF vol.fat32 THEN ~InChain \/ scanned >= MAX_FAT32_ROOT_SECTORS ELSE sec = Len(vol.dir)

\* One sector of find_in_root.  -6 is a read that fails.
find_in_root(ok) ==
  /\ fpc = "root" /\ UNCHANGED <<vol, fat_cache>>
  /\ IF RootOver THEN Return("-7")
     ELSE IF ~ok \/ cluster = Beyond THEN Return("-6")
     ELSE CASE scan_dir_sector(DirSector) = "file" -> FileFound
            [] scan_dir_sector(DirSector) = "end" -> Return("-7")
            [] OTHER -> /\ scanned' = IF vol.fat32 THEN scanned + 1 ELSE scanned
                        /\ sec' = sec + 1
                        /\ fpc' = IF vol.fat32 /\ sec + 1 = vol.spc THEN "rootnext" ELSE "root"
                        /\ UNCHANGED <<cluster, loaded, frc>>

root_next(ok) ==
  /\ fpc = "rootnext" /\ fpc' = "root" /\ sec' = 0
  /\ fat_entry(cluster, ok) /\ UNCHANGED <<vol, scanned, loaded, frc>>

SectorBytes(c, s, n) == [k \in 1 .. n |-> <<c, s, k>>]
Smaller(a, b) == IF a < b THEN a ELSE b

\* One sector of the file: whole to dst, the last one through io_buf.
read_file(ok) ==
  /\ fpc = "file" /\ UNCHANGED <<vol, fat_cache>>
  /\ IF ~InChain \/ Len(loaded) >= vol.size
     THEN Return(IF Len(loaded) = vol.size THEN "ok" ELSE "-10")
     ELSE IF ~ok \/ cluster = Beyond THEN Return("-8")
     ELSE LET n == Smaller(SECTOR, vol.size - Len(loaded)) IN
          /\ loaded' = loaded \o SectorBytes(cluster, sec, n)
          /\ sec' = sec + 1
          /\ fpc' = IF sec + 1 = vol.spc \/ Len(loaded) + n = vol.size THEN "filenext" ELSE "file"
          /\ UNCHANGED <<cluster, scanned, frc>>

\* Looked up after the last cluster, too.
file_next(ok) ==
  /\ fpc = "filenext" /\ fpc' = "file" /\ sec' = 0
  /\ fat_entry(cluster, ok) /\ UNCHANGED <<vol, scanned, loaded, frc>>

FatStep ==
  \/ fat_start
  \/ \E ok \in BOOLEAN :
       read_mbr(ok) \/ read_bpb(ok) \/ find_in_root(ok) \/ root_next(ok) \/ read_file(ok) \/ file_next(ok)

-----------------------------------------------------------------------------
(* Properties.                                                             *)

\* Byte k of the file, by the clusters that the volume was made with.
FileByte(k) ==
  LET s == (k - 1) \div SECTOR
  IN <<vol.sound[(s \div vol.spc) + 1], s % vol.spc, ((k - 1) % SECTOR) + 1>>
FileBytes == [k \in 1 .. vol.size |-> FileByte(k)]

(* What fat_load_file reports as loaded is the file, all of it and nothing *)
(* else, whatever reads failed and whatever the cached sector of the FAT   *)
(* was when it did (fat_entry, fat_load_file).  A chain that runs back     *)
(* into itself is left out: its file has no end.                           *)
LoadedIsFile == frc = "ok" /\ vol.sound # <<>> => loaded = FileBytes
=============================================================================
