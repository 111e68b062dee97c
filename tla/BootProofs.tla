----------------------------- MODULE BootProofs -----------------------------
(***************************************************************************)
(* What is loaded and then entered: openNBOOT, from the card or the NAND   *)
(* (modules Fat, Nand, OpenNboot), and the payloads of aipc-boot (module   *)
(* Payload).  Three inductive invariants: FatInv and NandInv, which        *)
(* OpenNboot combines with the state of the pads in BootInv, and           *)
(* PayloadInv.                                                             *)
(***************************************************************************)
EXTENDS OpenNboot, Payload, FiniteSetTheorems, SequenceTheorems, TLAPS

-----------------------------------------------------------------------------
(* The FAT reader: what it reports as loaded is the file.                  *)

LEMMA DivMod ==
  ASSUME NEW q \in Nat, NEW d \in Nat, d > 0, NEW r \in Nat, r < d
  PROVE  q * d + r \in Nat /\ (q * d + r) \div d = q /\ (q * d + r) % d = r
  OBVIOUS

LEMMA NextMultiple ==
  ASSUME NEW j \in Nat, NEW d \in Nat
  PROVE  (j - 1) * d + d = ((j + 1) - 1) * d + 0
  OBVIOUS

LEMMA DivModOf ==
  ASSUME NEW a \in Nat, NEW d \in Nat, d > 0
  PROVE  /\ a \div d \in Nat /\ a % d \in 0 .. d - 1
         /\ (a \div d) * d + (a % d) = a
  OBVIOUS

Bytes_ == Nat \X Nat \X Nat

FatTypeOK ==
  /\ vol \in Volumes /\ cluster \in Nat /\ sec \in Nat
  /\ loaded \in Seq(Bytes_)
  /\ fpc \in {"off", "mbr", "bpb", "root", "rootnext", "file", "filenext", "done"}

\* The cached sector is the FAT's, but for a read that failed, which ends the
\* chain and so the use of the cache.
CacheOK == fat_buf_lba = -1 \/ (fat_buf_lba \in Nat /\ fat_buf = FatSector(fat_buf_lba))
CacheInv ==
  /\ fpc = "rootnext" => vol.fat32
  /\ \/ CacheOK \/ fpc = "done"
     \/ cluster = EOC /\ (fpc = "file" \/ (fpc = "root" /\ vol.fat32))

\* Before the file is found nothing is loaded; then it is a prefix of the file.
PrefixInv ==
  /\ fpc \in {"off", "mbr", "bpb", "root", "rootnext"} => loaded = <<>>
  /\ fpc # "done" => frc = "none"
  /\ fpc \in {"file", "filenext"} => Len(loaded) <= vol.size
  /\ vol.sound # <<>> => \A k \in 1 .. Len(loaded) : loaded[k] = FileByte(k)

\* The sector that is next is the one behind the prefix.
At_(j) == /\ j \in 1 .. Len(vol.sound) /\ cluster = vol.sound[j]
          /\ Len(loaded) = ((j - 1) * vol.spc + sec) * SECTOR
PlaceInv ==
  vol.sound # <<>> =>
    /\ fpc = "file" => \/ Len(loaded) = vol.size
                       \/ cluster \notin 2 .. Beyond - 1
                       \/ sec < vol.spc /\ \E j \in Nat : At_(j)
    /\ fpc = "filenext" => \/ Len(loaded) = vol.size
                           \/ sec = vol.spc /\ \E j \in Nat : At_(j)

FatOkInv == frc = "ok" => Len(loaded) = vol.size

FatInv == FatTypeOK /\ CacheInv /\ PrefixInv /\ PlaceInv /\ FatOkInv

LEMMA FatSizes ==
  /\ SECTOR \in Nat /\ SECTOR > 0 /\ ENTRIES \in Nat /\ ENTRIES > 0
  /\ EOC = 1000 /\ Beyond = 999
  BY FatAssumption DEF EOC, Beyond

LEMMA VolumeOK ==
  ASSUME vol \in Volumes
  PROVE  /\ vol.spc \in Nat /\ vol.spc > 0 /\ vol.size \in Nat /\ vol.root \in Nat /\ vol.file \in Nat
         /\ \A c \in Nat : Entry(vol, c) \in Nat
         /\ vol.sound \in Seq(2 .. Beyond - 1) /\ Len(vol.sound) \in Nat
         /\ vol.sound # <<>> =>
              /\ Len(vol.sound) > 0 /\ vol.sound[1] = vol.file
              /\ \A i \in 1 .. Len(vol.sound) - 1 : Entry(vol, vol.sound[i]) = vol.sound[i + 1]
              /\ Entry(vol, vol.sound[Len(vol.sound)]) \notin 2 .. Beyond - 1
  BY VolumesAssumption DEF Entry

\* fat_entry of a sound cache is the entry, or the end of the chain.
LEMMA EntryIsNext ==
  ASSUME vol \in Volumes, CacheOK, cluster \in Nat, NEW ok \in BOOLEAN, fat_entry(cluster, ok), vol' = vol
  PROVE  /\ cluster' \in Nat
         /\ \/ CacheOK' /\ cluster' = Entry(vol, cluster)
            \/ cluster' = EOC
<1>1. /\ Lba(cluster) \in Nat /\ At(cluster) \in 0 .. ENTRIES - 1
      /\ Lba(cluster) * ENTRIES + At(cluster) = cluster
  BY DivModOf, FatSizes DEF Lba, At
<1>2. FatSector(Lba(cluster))[At(cluster)] = Entry(vol, cluster)
  BY <1>1 DEF FatSector
<1>3. Entry(vol, cluster) \in Nat
  BY VolumeOK
<1>4. CASE Lba(cluster) = fat_buf_lba
  <2>1. cluster' = fat_buf[At(cluster)] /\ fat_buf_lba' = fat_buf_lba /\ fat_buf' = fat_buf
    BY <1>4 DEF fat_entry, fat_cache
  <2>2. fat_buf = FatSector(fat_buf_lba)
    BY <1>1, <1>4 DEF CacheOK
  <2>3. cluster' = Entry(vol, cluster)
    BY <1>2, <1>4, <2>1, <2>2
  <2>4. CacheOK'
    BY <1>1, <1>4, <2>1, <2>2 DEF CacheOK, FatSector
  <2> QED
    BY <1>3, <2>3, <2>4
<1>5. CASE Lba(cluster) # fat_buf_lba /\ ok
  <2>1. /\ fat_buf_lba' = Lba(cluster) /\ fat_buf' = FatSector(Lba(cluster))
        /\ cluster' = FatSector(Lba(cluster))[At(cluster)]
    BY <1>5 DEF fat_entry
  <2>2. CacheOK'
    BY <1>1, <2>1 DEF CacheOK, FatSector
  <2> QED
    BY <1>2, <1>3, <2>1, <2>2
<1>6. CASE Lba(cluster) # fat_buf_lba /\ ~ok
  BY <1>6, FatSizes DEF fat_entry
<1> QED
  BY <1>4, <1>5, <1>6

LEMMA FatInvInit == FatInit => FatInv
<1> SUFFICES ASSUME FatInit PROVE FatInv
  OBVIOUS
<1>1. <<>> \in Seq(Bytes_) /\ Len(<<>>) = 0
  OBVIOUS
<1> QED
  BY <1>1 DEF FatInit, FatInv, FatTypeOK, CacheInv, CacheOK, PrefixInv, PlaceInv, FatOkInv

LEMMA StartKeeps == ASSUME FatInv, fat_start PROVE FatInv'
<1>1. FatTypeOK'
  BY DEF FatInv, fat_start, FatTypeOK
<1>2. CacheInv'
  BY DEF fat_start, CacheInv, CacheOK
<1>3. PrefixInv' /\ PlaceInv' /\ FatOkInv'
  BY DEF FatInv, fat_start, PrefixInv, PlaceInv, FatOkInv, FileByte
<1> QED
  BY <1>1, <1>2, <1>3 DEF FatInv

\* fat_load_file ends: nothing but the result changes.
LEMMA ReturnKeeps ==
  ASSUME FatInv, NEW rc, Return(rc), vol' = vol, rc = "ok" => Len(loaded) = vol.size
  PROVE  FatInv'
<1>1. FatTypeOK'
  BY DEF FatInv, Return, FatTypeOK
<1>2. CacheInv' /\ PlaceInv' /\ FatOkInv'
  BY DEF Return, CacheInv, PlaceInv, FatOkInv
<1>3. PrefixInv'
  BY DEF FatInv, Return, PrefixInv, FileByte
<1> QED
  BY <1>1, <1>2, <1>3 DEF FatInv

LEMMA MbrKeeps == ASSUME FatInv, NEW ok \in BOOLEAN, read_mbr(ok) PROVE FatInv'
<1>1. CASE fpc' = "done"
  <2>1. \E rc \in {"-1", "-2", "-3"} : Return(rc) /\ vol' = vol
    BY <1>1 DEF read_mbr
  <2> QED
    BY <2>1, ReturnKeeps
<1>2. CASE fpc' # "done"
  <2>1. fpc = "mbr" /\ fpc' = "bpb" /\ UNCHANGED <<vol, fat_buf_lba, fat_buf, cluster, sec, scanned, loaded, frc>>
    BY <1>2 DEF read_mbr, Return, fat_cache
  <2> QED
    BY <2>1 DEF FatInv, FatTypeOK, CacheInv, CacheOK, FatSector, PrefixInv, PlaceInv, FatOkInv, FileByte
<1> QED
  BY <1>1, <1>2

LEMMA BpbKeeps == ASSUME FatInv, NEW ok \in BOOLEAN, read_bpb(ok) PROVE FatInv'
<1>1. CASE fpc' = "done"
  <2>1. \E rc \in {"-4", "-5"} : Return(rc) /\ vol' = vol
    BY <1>1 DEF read_bpb
  <2> QED
    BY <2>1, ReturnKeeps
<1>2. CASE fpc' # "done"
  <2>1. /\ fpc = "bpb" /\ fpc' = "root" /\ UNCHANGED <<vol, fat_buf_lba, fat_buf, sec, scanned, loaded, frc>>
        /\ cluster' = IF vol.fat32 THEN vol.root ELSE 0
    BY <1>2 DEF read_bpb, Return, fat_cache
  <2>2. cluster' \in Nat
    BY <2>1, VolumeOK DEF FatInv, FatTypeOK
  <2> QED
    BY <2>1, <2>2 DEF FatInv, FatTypeOK, CacheInv, CacheOK, FatSector, PrefixInv, PlaceInv, FatOkInv, FileByte
<1> QED
  BY <1>1, <1>2

LEMMA RootKeeps == ASSUME FatInv, NEW ok \in BOOLEAN, find_in_root(ok) PROVE FatInv'
<1>0. fpc = "root" /\ UNCHANGED <<vol, fat_buf_lba, fat_buf>>
  BY DEF find_in_root, fat_cache
<1>1. CASE \E rc \in {"-7", "-6", "-9"} : Return(rc)
  BY <1>0, <1>1, ReturnKeeps
<1> DEFINE Goes == /\ UNCHANGED <<cluster, loaded, frc>> /\ sec' = sec + 1
                   /\ fpc' \in {"root", "rootnext"} /\ (fpc' = "rootnext" => vol.fat32)
           Found == /\ fpc' = "file" /\ cluster' = vol.file /\ sec' = 0 /\ UNCHANGED <<loaded, frc>>
<1>2. (\E rc \in {"-7", "-6", "-9"} : Return(rc)) \/ (~RootOver /\ (Goes \/ Found))
  BY DEF find_in_root, FileFound
<1>3. ~RootOver => CacheOK
  BY <1>0, FatSizes DEF RootOver, InChain, FatInv, CacheInv
<1>4. CASE ~RootOver /\ (Goes \/ Found)
  <2>1. CacheOK'
    BY <1>0, <1>3, <1>4 DEF CacheOK, FatSector
  <2>2. /\ vol.file \in Nat /\ vol.size \in Nat /\ vol.spc \in Nat /\ vol.spc > 0
        /\ vol.sound # <<>> => 1 \in 1 .. Len(vol.sound) /\ vol.sound[1] = vol.file
    BY VolumeOK DEF FatInv, FatTypeOK
  <2>3. FatTypeOK'
    BY <1>0, <1>4, <2>2 DEF FatInv, FatTypeOK
  <2>4. loaded' = <<>> /\ Len(loaded') = 0 /\ frc = "none" /\ frc' = frc
    BY <1>0, <1>4 DEF FatInv, PrefixInv
  <2>5. PrefixInv' /\ FatOkInv'
    <3>1. 0 <= vol'.size
      BY <1>0, <2>2
    <3>2. 1 .. 0 = {}
      OBVIOUS
    <3> QED
      BY <2>4, <3>1, <3>2 DEF PrefixInv, FatOkInv
  <2>6. PlaceInv'
    <3>1. CASE Goes
      BY <3>1 DEF PlaceInv
    <3>2. CASE Found
      <4>1. ((1 - 1) * vol.spc + 0) * SECTOR = 0
        BY <2>2, FatSizes
      <4>2. ASSUME vol'.sound # <<>> PROVE sec' < vol'.spc /\ At_(1)'
        BY <1>0, <2>2, <2>4, <3>2, <4>1, <4>2 DEF At_
      <4> QED
        BY <3>2, <4>2 DEF PlaceInv
    <3> QED
      BY <1>4, <3>1, <3>2
  <2> QED
    BY <1>0, <1>4, <2>1, <2>3, <2>5, <2>6 DEF FatInv, CacheInv
<1> QED
  BY <1>1, <1>2, <1>4

LEMMA RootNextKeeps == ASSUME FatInv, NEW ok \in BOOLEAN, root_next(ok) PROVE FatInv'
<1>1. /\ fpc = "rootnext" /\ fpc' = "root" /\ sec' = 0 /\ fat_entry(cluster, ok)
      /\ UNCHANGED <<vol, loaded, frc>>
  BY DEF root_next
<1>2. CacheOK /\ vol \in Volumes /\ cluster \in Nat
  BY <1>1 DEF FatInv, CacheInv, FatTypeOK
<1>3. cluster' \in Nat /\ (CacheOK' \/ cluster' = EOC)
  BY <1>1, <1>2, EntryIsNext
<1>4. FatTypeOK' /\ PlaceInv' /\ FatOkInv'
  BY <1>1, <1>3 DEF FatInv, FatTypeOK, PlaceInv, PrefixInv, FatOkInv
<1>5. PrefixInv'
  BY <1>1 DEF FatInv, PrefixInv, FileByte
<1>6. CacheInv'
  BY <1>1, <1>3 DEF FatInv, CacheInv
<1> QED
  BY <1>4, <1>5, <1>6 DEF FatInv

LEMMA FileNextKeeps == ASSUME FatInv, NEW ok \in BOOLEAN, file_next(ok) PROVE FatInv'
<1>1. /\ fpc = "filenext" /\ fpc' = "file" /\ sec' = 0 /\ fat_entry(cluster, ok)
      /\ UNCHANGED <<vol, loaded, frc>>
  BY DEF file_next
<1>2. CacheOK /\ vol \in Volumes /\ cluster \in Nat
  BY <1>1 DEF FatInv, CacheInv, FatTypeOK
<1>3. /\ cluster' \in Nat
      /\ (CacheOK' /\ cluster' = Entry(vol, cluster)) \/ cluster' = EOC
  BY <1>1, <1>2, EntryIsNext
<1>4. FatTypeOK' /\ FatOkInv'
  BY <1>1, <1>3 DEF FatInv, FatTypeOK, PrefixInv, FatOkInv
<1>5. PrefixInv'
  BY <1>1 DEF FatInv, PrefixInv, FileByte
<1>6. CacheInv'
  BY <1>1, <1>3 DEF CacheInv
<1>7. PlaceInv'
  <2> SUFFICES ASSUME vol.sound # <<>>, Len(loaded) # vol.size, cluster' # EOC
               PROVE  cluster' \notin 2 .. Beyond - 1 \/ (sec' < vol'.spc /\ \E j \in Nat : At_(j)')
    <3>1. EOC \notin 2 .. Beyond - 1
      BY FatSizes
    <3> QED
      BY <1>1, <3>1 DEF PlaceInv
  <2>1. PICK j \in Nat : At_(j) /\ sec = vol.spc
    BY <1>1 DEF FatInv, PlaceInv
  <2>2. /\ vol.spc \in Nat /\ vol.spc > 0 /\ Len(vol.sound) \in Nat
        /\ \A i \in 1 .. Len(vol.sound) - 1 : Entry(vol, vol.sound[i]) = vol.sound[i + 1]
        /\ Entry(vol, vol.sound[Len(vol.sound)]) \notin 2 .. Beyond - 1
    BY <1>2, VolumeOK
  <2>3. cluster' = Entry(vol, vol.sound[j]) /\ j \in 1 .. Len(vol.sound)
    BY <1>3, <2>1 DEF At_
  <2>4. CASE j = Len(vol.sound)
    BY <2>2, <2>3, <2>4
  <2>5. CASE j # Len(vol.sound)
    <3>1. j \in 1 .. Len(vol.sound) - 1 /\ j + 1 \in 1 .. Len(vol.sound) /\ j + 1 \in Nat
      BY <2>2, <2>3, <2>5
    <3>2. cluster' = vol.sound[j + 1]
      BY <2>2, <2>3, <3>1
    <3>3. (j - 1) * vol.spc + vol.spc = ((j + 1) - 1) * vol.spc + 0
      BY <2>2, NextMultiple
    <3>4. At_(j + 1)'
      BY <1>1, <2>1, <3>1, <3>2, <3>3 DEF At_
    <3> QED
      BY <1>1, <2>2, <3>1, <3>4
  <2> QED
    BY <2>4, <2>5
<1> QED
  BY <1>4, <1>5, <1>6, <1>7 DEF FatInv

LEMMA FileKeeps == ASSUME FatInv, NEW ok \in BOOLEAN, read_file(ok) PROVE FatInv'
<1>0. fpc = "file" /\ UNCHANGED <<vol, fat_buf_lba, fat_buf>> /\ vol \in Volumes
  BY DEF read_file, fat_cache, FatInv, FatTypeOK
<1>1. CASE ~InChain \/ Len(loaded) >= vol.size
  BY <1>0, <1>1, ReturnKeeps DEF read_file
<1>2. CASE InChain /\ Len(loaded) < vol.size /\ (~ok \/ cluster = Beyond)
  BY <1>0, <1>2, ReturnKeeps DEF read_file
<1>3. CASE InChain /\ Len(loaded) < vol.size /\ ok /\ cluster # Beyond
  <2> DEFINE L == Len(loaded)
             n == Smaller(SECTOR, vol.size - L)
             bytes == SectorBytes(cluster, sec, n)
  <2>1. /\ vol.spc \in Nat /\ vol.spc > 0 /\ vol.size \in Nat /\ L \in Nat /\ L < vol.size
        /\ loaded \in Seq(Bytes_) /\ cluster \in Nat /\ sec \in Nat
    BY <1>0, <1>3, VolumeOK DEF FatInv, FatTypeOK
  <2>2. /\ n \in Nat /\ n > 0 /\ n <= SECTOR /\ L + n <= vol.size
        /\ L + n # vol.size => n = SECTOR
    BY <2>1, FatSizes DEF Smaller
  <2>3. /\ loaded' = loaded \o bytes /\ sec' = sec + 1 /\ UNCHANGED <<cluster, frc>>
        /\ fpc' = IF sec + 1 = vol.spc \/ L + n = vol.size THEN "filenext" ELSE "file"
    <3>1. ~(~InChain \/ Len(loaded) >= vol.size) /\ ~(~ok \/ cluster = Beyond)
      BY <1>3, <2>1
    <3> QED
      BY <3>1 DEF read_file
  <2> HIDE DEF n
  <2>4. bytes \in Seq(Bytes_) /\ Len(bytes) = n /\ \A m \in 1 .. n : bytes[m] = <<cluster, sec, m>>
    <3>1. \A m \in 1 .. n : <<cluster, sec, m>> \in Bytes_
      BY <2>1, <2>2 DEF Bytes_
    <3>2. bytes \in [1 .. n -> Bytes_]
      BY <3>1 DEF SectorBytes
    <3> QED
      BY <2>2, <3>2 DEF SectorBytes
  <2> HIDE DEF bytes
  <2>5. /\ loaded' \in Seq(Bytes_) /\ Len(loaded') = L + n
        /\ \A k \in 1 .. L + n : loaded'[k] = IF k <= L THEN loaded[k] ELSE bytes[k - L]
    <3>1. /\ loaded \o bytes \in Seq(Bytes_) /\ Len(loaded \o bytes) = Len(loaded) + Len(bytes)
          /\ \A k \in 1 .. Len(loaded) + Len(bytes) :
               (loaded \o bytes)[k] = IF k <= Len(loaded) THEN loaded[k] ELSE bytes[k - Len(loaded)]
      BY <2>1, <2>4, ConcatProperties
    <3> QED
      BY <2>3, <2>4, <3>1
  <2> HIDE DEF L
  <2>6. FatTypeOK'
    BY <1>0, <2>1, <2>3, <2>5 DEF FatInv, FatTypeOK
  <2>7. CacheOK'
    <3>1. CacheOK
      BY <1>0, <1>3, FatSizes DEF FatInv, CacheInv, InChain
    <3> QED
      BY <1>0, <3>1 DEF CacheOK, FatSector
  <2>8. CacheInv'
    BY <2>3, <2>7 DEF CacheInv
  <2>9. ASSUME vol.sound # <<>>
        PROVE  \E j \in Nat : At_(j) /\ sec < vol.spc
    <3>1. cluster \in 2 .. Beyond - 1
      BY <1>3, <2>1, FatSizes DEF InChain
    <3> QED
      BY <1>0, <2>1, <2>9, <3>1 DEF FatInv, PlaceInv, L
  <2>10. PrefixInv'
    <3>1. ASSUME vol.sound # <<>>, NEW k \in 1 .. L + n PROVE loaded'[k] = FileByte(k)
      <4>1. CASE k <= L
        <5>1. k \in 1 .. L
          BY <2>1, <4>1
        <5>2. loaded[k] = FileByte(k)
          BY <3>1, <5>1 DEF FatInv, PrefixInv, L
        <5> QED
          BY <2>5, <4>1, <5>2
      <4>2. CASE k > L
        <5>1. PICK j \in Nat : At_(j) /\ sec < vol.spc
          BY <2>9, <3>1
        <5> DEFINE m == k - L
                   q == j - 1
                   s == q * vol.spc + sec
        <5>2. m \in 1 .. n /\ m - 1 \in Nat /\ m - 1 < SECTOR /\ k - 1 = L + (m - 1)
          BY <2>1, <2>2, <4>2, FatSizes
        <5>3. q \in Nat /\ cluster = vol.sound[q + 1] /\ L = s * SECTOR
          BY <5>1 DEF At_, L
        <5>4. s \in Nat /\ s \div vol.spc = q /\ s % vol.spc = sec
          <6> DEFINE d == vol.spc
          <6>1. q \in Nat /\ d \in Nat /\ d > 0 /\ sec \in Nat /\ sec < d
            BY <2>1, <5>1, <5>3
          <6> HIDE DEF q, d
          <6>2. q * d + sec \in Nat /\ (q * d + sec) \div d = q /\ (q * d + sec) % d = sec
            BY <6>1, DivMod
          <6> QED
            BY <6>2 DEF d
        <5> HIDE DEF s, q, m
        <5>5. (k - 1) \div SECTOR = s /\ (k - 1) % SECTOR = m - 1
          BY <5>2, <5>3, <5>4, DivMod, FatSizes
        <5>6. FileByte(k) = <<cluster, sec, (m - 1) + 1>>
          BY <5>3, <5>4, <5>5 DEF FileByte
        <5>7. (m - 1) + 1 = m
          BY <5>2
        <5>8. loaded'[k] = bytes[m]
          BY <2>1, <2>2, <2>5, <4>2 DEF m
        <5> QED
          BY <2>4, <5>2, <5>6, <5>7, <5>8
      <4> QED
        BY <2>1, <2>2, <4>1, <4>2
    <3>2. \A k : FileByte(k)' = FileByte(k)
      BY <1>0 DEF FileByte
    <3>3. frc' = "none" /\ fpc' \in {"file", "filenext"}
      BY <1>0, <2>3 DEF FatInv, PrefixInv
    <3> QED
      BY <1>0, <2>2, <2>5, <3>1, <3>2, <3>3 DEF PrefixInv
  <2>11. PlaceInv'
    <3> SUFFICES ASSUME vol.sound # <<>>, L + n # vol.size
                 PROVE  /\ \E j \in Nat : At_(j)'
                        /\ fpc' = "file" => sec' < vol.spc
                        /\ fpc' = "filenext" => sec' = vol.spc
      BY <1>0, <2>3, <2>5 DEF PlaceInv
    <3>1. PICK j \in Nat : At_(j) /\ sec < vol.spc
      BY <2>9
    <3>2. n = SECTOR
      BY <2>2
    <3> DEFINE s == (j - 1) * vol.spc
    <3>3. s \in Int
      BY <2>1
    <3> HIDE DEF s
    <3>4. (s + sec) * SECTOR + SECTOR = (s + (sec + 1)) * SECTOR
      BY <2>1, <3>3, FatSizes
    <3>5. L = (s + sec) * SECTOR
      BY <3>1 DEF At_, L, s
    <3>6. At_(j)'
      BY <1>0, <2>3, <2>5, <3>1, <3>2, <3>4, <3>5 DEF At_, s
    <3>7. /\ fpc' = "file" => sec' < vol.spc
          /\ fpc' = "filenext" => sec' = vol.spc
      BY <2>1, <2>3, <3>1
    <3> QED
      BY <3>6, <3>7
  <2>12. FatOkInv'
    BY <1>0, <2>3 DEF FatInv, PrefixInv, FatOkInv
  <2> QED
    BY <2>6, <2>8, <2>10, <2>11, <2>12 DEF FatInv
<1> QED
  <2>1. Len(loaded) \in Nat /\ vol.size \in Nat
    BY VolumeOK DEF FatInv, FatTypeOK
  <2> QED
    BY <1>1, <1>2, <1>3, <2>1

LEMMA FatInvStep == ASSUME FatInv, FatStep PROVE FatInv'
  BY StartKeeps, MbrKeeps, BpbKeeps, RootKeeps, RootNextKeeps, FileKeeps, FileNextKeeps DEF FatStep

LEMMA FatIsWhole == FatInv => LoadedIsFile
<1> SUFFICES ASSUME FatInv, frc = "ok", vol.sound # <<>> PROVE loaded = FileBytes
  BY DEF LoadedIsFile
<1>1. Len(loaded) = vol.size /\ loaded \in Seq(Bytes_) /\ vol.size \in Nat
  BY VolumeOK DEF FatInv, FatOkInv, FatTypeOK
<1>2. \A k \in 1 .. vol.size : loaded[k] = FileByte(k)
  BY <1>1 DEF FatInv, PrefixInv
<1>3. loaded = [k \in 1 .. vol.size |-> loaded[k]]
  BY <1>1
<1> QED
  BY <1>2, <1>3 DEF FileBytes

-----------------------------------------------------------------------------
(* ecc.c: a position register names the bit that ecc_apply turns over.     *)

Registers == [sel : {{i} : i \in 0 .. 9}, pos : 0 .. 511]
BitOf(i, pos) == 8 * seg_base[i \div 2 + 1] + 2 * pos + (i % 2) - 4

LEMMA LocateIsBit ==
  ASSUME NEW i \in 0 .. 9, NEW pos \in 0 .. 511, NEW reg, reg = [sel |-> {i}, pos |-> pos],
         BitOf(i, pos) >= 0
  PROVE  ecc_locate(reg) = BitOf(i, pos)
<1> DEFINE r0 == 2 * pos + (i % 2) - 4
           r == IF r0 < 0 THEN r0 + 8 ELSE r0
           sb == seg_base[i \div 2 + 1]
           base == sb - (IF r0 < 0 THEN 1 ELSE 0)
           idx == base + r \div 8
<1>1. Cardinality(reg.sel) = 1 /\ (CHOOSE x \in reg.sel : TRUE) = i /\ reg.pos = pos
  BY FS_Singleton
<1>2. ecc_locate(reg) = IF idx < 0 THEN -1 ELSE 8 * idx + (r % 8)
  BY <1>1 DEF ecc_locate
<1>3. sb \in Int
  <2>1. i \div 2 + 1 \in 1 .. 5
    OBVIOUS
  <2> QED
    BY <2>1 DEF seg_base
<1>4. r0 \in Int /\ r0 >= -4
  OBVIOUS
<1>5. BitOf(i, pos) = 8 * sb + r0
  BY <1>3 DEF BitOf
<1> HIDE DEF r0, sb
<1>6. 8 * idx + (r % 8) = 8 * sb + r0 /\ idx \in Int /\ r % 8 \in 0 .. 7
  BY <1>3, <1>4
<1> HIDE DEF idx, r
<1> QED
  BY <1>2, <1>5, <1>6

Named(b) == \E i \in 0 .. 9 : \E pos \in 0 .. 511 : BitOf(i, pos) = b

LEMMA BitHasRegister ==
  ASSUME NEW b \in Nat, b <= 4219
  PROVE  Named(b)
<1> DEFINE j == (b + 900) \div 1024
           o == (b + 900) % 1024
           i == 2 * j + (o % 2)
           pos == o \div 2
<1>1. j \in 0 .. 4 /\ o \in 0 .. 1023 /\ 1024 * j + o = b + 900
  OBVIOUS
<1> HIDE DEF j, o
<1>2. i \in 0 .. 9 /\ pos \in 0 .. 511 /\ i \div 2 = j /\ i % 2 = o % 2 /\ 2 * pos + (o % 2) = o
  BY <1>1
<1> HIDE DEF i, pos
<1>3. seg_base[j + 1] = 128 * j - 112
  BY <1>1 DEF seg_base
<1>4. BitOf(i, pos) = b
  BY <1>1, <1>2, <1>3 DEF BitOf
<1> QED
  BY <1>2, <1>4 DEF Named

\* What the block arithmetic below needs of the assumption: all of it but the range of the bits.
LEMMA NandConstants ==
  /\ Candidates \in Seq(Nat \ {0}) /\ Len(Candidates) > 0
  /\ CHUNKS \in Nat \ {0} /\ PAGE_READ_TRIES \in Nat \ {0}
  /\ MAX_BAD_SKIP \in Nat \ {0} /\ IMAGE_PAGES \in Nat \ {0}
  /\ \A f \in Flashes : f.ppb \in Nat \ {0} /\ f.bad \subseteq Nat
  BY NandAssumption, SMTT(30)

LEMMA LocateOfError ==
  ASSUME NEW b \in FlipBits
  PROVE  ecc_locate(ErrorAt[b]) = b /\ b >= 0 /\ b \in Nat
<1>0. b \in 0 .. 4219
  <2>1. FlipBits \subseteq 0 .. 4219
    BY NandAssumption, SMTT(30)
  <2> QED
    BY <2>1, SMTT(30)
<1>1. b \in Nat /\ b <= 4219
  BY <1>0
<1>2. \E reg \in Registers : \E i \in reg.sel : BitOf(i, reg.pos) = b
  <2>0. PICK i \in 0 .. 9 : \E pos \in 0 .. 511 : BitOf(i, pos) = b
    <3>1. Named(b)
      BY <1>1, BitHasRegister
    <3> QED
      BY <3>1 DEF Named
  <2>1. PICK pos \in 0 .. 511 : BitOf(i, pos) = b
    BY <2>0
  <2> DEFINE reg == [sel |-> {i}, pos |-> pos]
  <2>2. reg \in Registers /\ i \in reg.sel /\ reg.pos = pos
    BY DEF Registers
  <2> QED
    BY <2>1, <2>2
<1>3. ErrorAt[b] = CHOOSE reg \in Registers : \E i \in reg.sel : BitOf(i, reg.pos) = b
  BY DEF ErrorAt, Registers, BitOf
<1>4. ErrorAt[b] \in Registers /\ \E i \in ErrorAt[b].sel : BitOf(i, ErrorAt[b].pos) = b
  BY <1>2, <1>3
<1>5. PICK i \in 0 .. 9, pos \in 0 .. 511 : ErrorAt[b] = [sel |-> {i}, pos |-> pos] /\ BitOf(i, pos) = b
  <2>1. PICK i \in 0 .. 9 : ErrorAt[b].sel = {i}
    BY <1>4 DEF Registers
  <2>2. ErrorAt[b].pos \in 0 .. 511 /\ ErrorAt[b] = [sel |-> ErrorAt[b].sel, pos |-> ErrorAt[b].pos]
    BY <1>4 DEF Registers
  <2>3. BitOf(i, ErrorAt[b].pos) = b
    BY <1>4, <2>1
  <2> QED
    BY <2>1, <2>2, <2>3
<1>6. BitOf(i, pos) >= 0
  BY <1>1, <1>5
<1>7. ecc_locate(ErrorAt[b]) = BitOf(i, pos)
  BY <1>5, <1>6, LocateIsBit
<1> QED
  BY <1>1, <1>5, <1>7

LEMMA LocateOfJunk ==
  ecc_locate(Junk) = -1
<1>1. Cardinality({0, 1}) # 1
  <2>1. IsFiniteSet({0}) /\ Cardinality({0}) = 1
    BY FS_Singleton
  <2>2. Cardinality({0} \cup {1}) = 2
    BY <2>1, FS_AddElement
  <2>3. {0, 1} = {0} \cup {1}
    OBVIOUS
  <2> QED
    BY <2>2, <2>3
<1> QED
  BY <1>1 DEF ecc_locate, Junk

\* What the engine reports of a chunk, in registers.
Regs(v) == {ErrorAt[b] : b \in v.bits} \cup (IF v.junk THEN {Junk} ELSE {})
DataBits(v) == {b \in v.bits : b < 512 * 8}

\* A correction that does not fail turns over the wrong bits and no other.
LEMMA FixIsExact ==
  ASSUME NEW v \in Verdicts, v.kind = "fix", ~ecc_apply(Regs(v)).fails
  PROVE  ecc_apply(Regs(v)).flip = DataBits(v)
<1> DEFINE located == {ecc_locate(reg) : reg \in Regs(v)}
<1>1. v.bits \subseteq FlipBits /\ v.junk \in BOOLEAN
  BY DEF Verdicts
<1>2. -1 \notin located
  BY DEF ecc_apply
<1>3. ~v.junk
  BY <1>1, <1>2, LocateOfJunk DEF Regs
<1>4. Regs(v) = {ErrorAt[b] : b \in v.bits}
  BY <1>3 DEF Regs
<1>5. located = v.bits
  BY <1>1, <1>4, LocateOfError
<1>6. ecc_apply(Regs(v)).flip = {b \in located : b >= 0 /\ b < 512 * 8}
  BY DEF ecc_apply
<1> QED
  BY <1>1, <1>5, <1>6, LocateOfError DEF DataBits

-----------------------------------------------------------------------------
(* The NAND driver: the image grows by the page that the flash holds next. *)

Chunk_ == [of : Int, wrong : {{}}]
Good(k) == [of |-> k, wrong |-> {}]
Sound(k) == {Good(k), Blank}
SoundPage(k) == [1 .. CHUNKS -> Sound(k)]

NandTypeOK ==
  /\ flash \in Flashes /\ cand \in 0 .. Len(Candidates) /\ block \in Nat
  /\ page \in Nat /\ chunk \in 1 .. CHUNKS /\ buf \in Seq(Chunk_)
  /\ image \in Seq([1 .. CHUNKS -> Chunk_])
  /\ npc \in {"off", "probe", "load", "page", "done"}

\* The block size is known while blocks are read; the image starts with the load.
PhaseInv ==
  /\ npc \in {"probe", "load", "page"} => pages_per_block \in Nat \ {0}
  /\ npc = "off" \/ cand > 0 => image = <<>>
  /\ npc = "probe" => cand > 0
  /\ npc = "load" => cand = 0
  /\ npc # "done" => nrc = "none" /\ Len(image) < IMAGE_PAGES

\* The chunks before this one are those of the page, without a wrong bit, or
\* all ones.
BufInv ==
  npc = "page" => /\ chunk - 1 <= Len(buf)
                  /\ \A c \in 1 .. chunk - 1 : buf[c] \in Sound(Content(page))

\* The good blocks of the image before block b.
Before(b) == Cardinality((IPL_START_BLOCK .. b - 1) \ flash.bad)
Offset(o) == /\ page = block * flash.ppb + o
             /\ Len(image) = Before(block) * flash.ppb + o

\* With the block size of the part and no block misjudged, the load has taken
\* the good blocks before this one whole, and of this one the pages before.
LoadInv ==
  ~misread /\ pages_per_block = flash.ppb =>
    /\ npc = "load" => block > 0 /\ Len(image) = Before(block) * flash.ppb
    /\ npc = "page" /\ cand = 0 => /\ block > 0 /\ block \notin flash.bad
                                   /\ \E o \in 0 .. flash.ppb - 1 : Offset(o)
    /\ \A i \in 1 .. Len(image) : image[i] \in SoundPage(i - 1)

NandOkInv == nrc = "ok" => Len(image) = IMAGE_PAGES

NandInv == NandTypeOK /\ PhaseInv /\ BufInv /\ LoadInv /\ NandOkInv

LEMMA BlocksBefore ==
  ASSUME flash \in Flashes, NEW b \in Nat, b > 0
  PROVE  /\ Before(1) = 0 /\ Before(b) \in Nat
         /\ b \in flash.bad => Before(b + 1) = Before(b)
         /\ b \notin flash.bad => Before(b + 1) = Before(b) + 1
<1> DEFINE S == (1 .. b - 1) \ flash.bad
           T == (1 .. (b + 1) - 1) \ flash.bad
<1>1. Before(b) = Cardinality(S) /\ Before(b + 1) = Cardinality(T)
  BY DEF Before, IPL_START_BLOCK
<1>2. IsFiniteSet(S)
  <2>1. IsFiniteSet(1 .. b - 1)
    BY FS_Interval
  <2> QED
    BY <2>1, FS_Difference
<1>3. Cardinality(S) \in Nat
  BY <1>2, FS_CardinalityType
<1>4. b \in flash.bad => T = S
  OBVIOUS
<1>5. b \notin flash.bad => T = S \cup {b} /\ b \notin S
  OBVIOUS
<1>6. Before(1) = 0
  <2>1. (1 .. 1 - 1) \ flash.bad = {}
    OBVIOUS
  <2> QED
    BY <2>1, FS_EmptySet DEF Before, IPL_START_BLOCK
<1> HIDE DEF S, T
<1>7. b \notin flash.bad => Cardinality(T) = Cardinality(S) + 1
  BY <1>2, <1>5, FS_AddElement
<1> QED
  BY <1>1, <1>3, <1>4, <1>6, <1>7

LEMMA PageOfBlock ==
  ASSUME flash \in Flashes, NEW b \in Nat, NEW o \in 0 .. flash.ppb - 1
  PROVE  /\ b * flash.ppb + o \in Nat
         /\ (b * flash.ppb + o) \div flash.ppb = b /\ (b * flash.ppb + o) % flash.ppb = o
<1> DEFINE d == flash.ppb
<1>1. d \in Nat /\ d > 0 /\ o \in Nat /\ o < d
  BY NandConstants
<1> HIDE DEF d
<1>2. b * d + o \in Nat /\ (b * d + o) \div d = b /\ (b * d + o) % d = o
  BY <1>1, DivMod
<1> QED
  BY <1>2 DEF d

\* A page of a good block holds the image page at its place.
LEMMA ContentAt ==
  ASSUME flash \in Flashes, NEW b \in Nat, b > 0, b \notin flash.bad, NEW o \in 0 .. flash.ppb - 1
  PROVE  Content(b * flash.ppb + o) = Before(b) * flash.ppb + o
<1> DEFINE Q == (1 .. b) \ flash.bad
<1>1. (b * flash.ppb + o) \div flash.ppb = b /\ (b * flash.ppb + o) % flash.ppb = o
  BY PageOfBlock
<1>2. b \in Q
  OBVIOUS
<1>3. Content(b * flash.ppb + o) = (Cardinality(Q) - 1) * flash.ppb + o
  BY <1>1, <1>2 DEF Content, IPL_START_BLOCK
<1>4. Cardinality(Q) = Before(b + 1)
  <2>1. (b + 1) - 1 = b
    OBVIOUS
  <2> QED
    BY <2>1 DEF Before, IPL_START_BLOCK
<1>5. Before(b) \in Nat /\ Before(b + 1) = Before(b) + 1
  BY BlocksBefore
<1>6. Cardinality(Q) - 1 = Before(b)
  BY <1>4, <1>5
<1> QED
  BY <1>3, <1>6

LEMMA ContentType ==
  ASSUME flash \in Flashes, NEW p \in Nat
  PROVE  Content(p) \in Int
<1> DEFINE d == flash.ppb
           b == p \div d
           Q == (1 .. b) \ flash.bad
<1>1. d \in Nat /\ d > 0
  BY NandConstants
<1> HIDE DEF d
<1>2. b \in Nat /\ p % d \in Nat
  BY <1>1
<1> HIDE DEF b
<1>3. IsFiniteSet(Q)
  <2>1. IsFiniteSet(1 .. b)
    BY <1>2, FS_Interval
  <2> QED
    BY <2>1, FS_Difference
<1>4. Cardinality(Q) \in Nat
  BY <1>3, FS_CardinalityType
<1>5. Content(p) = IF b \in Q THEN (Cardinality(Q) - 1) * d + (p % d) ELSE -1
  BY DEF Content, IPL_START_BLOCK, b, d
<1> HIDE DEF Q
<1>6. (Cardinality(Q) - 1) * d \in Int
  BY <1>1, <1>4
<1> QED
  BY <1>2, <1>5, <1>6

LEMMA MarkedIsBad ==
  ASSUME flash \in Flashes, NEW b \in Nat
  PROVE  Marked(b * flash.ppb) <=> b \in flash.bad
<1>1. flash.ppb \in Nat /\ 0 \in 0 .. flash.ppb - 1
  BY NandConstants
<1>2. b * flash.ppb + 0 = b * flash.ppb
  BY <1>1
<1>3. (b * flash.ppb) \div flash.ppb = b /\ (b * flash.ppb) % flash.ppb = 0
  BY <1>1, <1>2, PageOfBlock
<1> QED
  BY <1>3 DEF Marked

\* Whatever the engine says, a chunk that is taken has no wrong bit or is all
\* ones.
LEMMA TakenIsGood ==
  ASSUME NEW v \in Verdicts, read_chunk(v)
  PROVE  /\ npc = "page"
         /\ \/ \E g \in Sound(Content(page)) : ChunkDone(g)
            \/ TryFails /\ UNCHANGED <<flash, misread>>
<1> DEFINE got == [of |-> Content(page), wrong |-> DataBits(v)]
           fix == ecc_apply(Regs(v))
<1>1. /\ npc = "page"
      /\ CASE v.kind = "clean" -> ChunkDone(got)
           [] v.kind = "fix" /\ ~fix.fails ->
                ChunkDone([got EXCEPT !.wrong = (@ \ fix.flip) \cup (fix.flip \ @)])
           [] v.kind = "ones" -> ChunkDone(Blank)
           [] OTHER -> TryFails /\ UNCHANGED <<flash, misread>>
  BY DEF read_chunk, Regs, DataBits
<1>2. CASE v.kind = "clean"
  <2>1. v.bits = {}
    BY <1>2 DEF Verdicts
  <2>2. got = Good(Content(page))
    BY <2>1 DEF DataBits, Good
  <2>3. ChunkDone(Good(Content(page)))
    BY <1>1, <1>2, <2>2
  <2> QED
    BY <1>1, <2>3 DEF Sound
<1>3. CASE v.kind = "fix" /\ ~fix.fails
  <2>1. fix.flip = DataBits(v)
    BY <1>3, FixIsExact
  <2>2. [got EXCEPT !.wrong = (got.wrong \ fix.flip) \cup (fix.flip \ got.wrong)]
          = Good(Content(page))
    BY <2>1 DEF Good
  <2>3. ChunkDone(Good(Content(page)))
    BY <1>1, <1>3, <2>2
  <2> QED
    BY <1>1, <2>3 DEF Sound
<1>4. CASE v.kind \in {"late", "bad"} \/ (v.kind = "fix" /\ fix.fails)
  BY <1>1, <1>4
<1>5. CASE v.kind = "ones"
  <2>1. ChunkDone(Blank)
    BY <1>1, <1>5
  <2> QED
    BY <1>1, <2>1 DEF Sound
<1> QED
  BY <1>2, <1>3, <1>4, <1>5 DEF Verdicts

LEMMA NandInitOK == NandInit => NandInv
<1> SUFFICES ASSUME NandInit PROVE NandInv
  OBVIOUS
<1>1. CHUNKS \in Nat \ {0} /\ IMAGE_PAGES \in Nat \ {0} /\ Len(Candidates) \in Nat
  BY NandConstants
<1>2. <<>> \in Seq(Chunk_) /\ <<>> \in Seq([1 .. CHUNKS -> Chunk_]) /\ Len(<<>>) = 0
  OBVIOUS
<1> QED
  BY <1>1, <1>2 DEF NandInit, NandInv, NandTypeOK, PhaseInv, BufInv, LoadInv, NandOkInv

LEMMA NextCandidateStep ==
  ASSUME NandInv, NextCandidate, cand > 0, UNCHANGED <<flash, image>>,
         page' \in Nat, chunk' \in 1 .. CHUNKS, buf' \in Seq(Chunk_), nrc = "none"
  PROVE  NandInv'
<1>1. image = <<>> /\ Len(image) = 0 /\ IMAGE_PAGES > 0 /\ IMAGE_PAGES \in Nat
  BY NandConstants DEF NandInv, PhaseInv
<1>2. cand \in 0 .. Len(Candidates) /\ Len(Candidates) \in Nat
  BY NandConstants DEF NandInv, NandTypeOK
<1>3. CASE cand = Len(Candidates)
  <2>1. npc' = "done" /\ nrc' = "EPROBE" /\ UNCHANGED <<cand, block>>
    BY <1>3 DEF NextCandidate, Fail
  <2>2. NandTypeOK'
    BY <2>1 DEF NandInv, NandTypeOK
  <2> QED
    BY <1>1, <2>1, <2>2 DEF NandInv, PhaseInv, BufInv, LoadInv, NandOkInv
<1>4. CASE cand # Len(Candidates)
  <2>1. /\ npc' = "probe" /\ nrc' = "none" /\ cand' = cand + 1 /\ block' = 1
        /\ pages_per_block' = Candidates[cand + 1]
    BY <1>4 DEF NextCandidate, IPL_START_BLOCK
  <2>2. cand + 1 \in 1 .. Len(Candidates)
    BY <1>2, <1>4
  <2>3. pages_per_block' \in Nat \ {0}
    BY <2>1, <2>2, NandConstants
  <2>4. NandTypeOK'
    BY <2>1, <2>2 DEF NandInv, NandTypeOK
  <2> QED
    BY <1>1, <2>1, <2>2, <2>3, <2>4 DEF NandInv, PhaseInv, BufInv, LoadInv, NandOkInv
<1> QED
  BY <1>3, <1>4

LEMMA TryFailsStep ==
  ASSUME NandInv, npc = "page", TryFails, UNCHANGED <<flash, misread>>
  PROVE  NandInv'
<1>1. UNCHANGED <<page, buf, image>> /\ nrc = "none" /\ NandTypeOK
  BY DEF TryFails, NandInv, PhaseInv
<1>2. CASE try < PAGE_READ_TRIES
  <2>1. chunk' = 1 /\ UNCHANGED <<npc, nrc, pages_per_block, cand, block>>
    BY <1>2 DEF TryFails
  <2>2. NandTypeOK'
    BY <1>1, <2>1, NandConstants DEF NandTypeOK
  <2>3. PhaseInv' /\ NandOkInv'
    BY <1>1, <2>1 DEF NandInv, PhaseInv, NandOkInv
  <2>4. BufInv'
    BY <1>1, <2>1 DEF BufInv, NandTypeOK
  <2>5. LoadInv'
    BY <1>1, <2>1 DEF NandInv, LoadInv, Offset, Before
  <2> QED
    BY <2>2, <2>3, <2>4, <2>5 DEF NandInv
<1>3. CASE ~(try < PAGE_READ_TRIES) /\ cand > 0
  <2>1. NextCandidate /\ chunk' = chunk
    BY <1>3 DEF TryFails
  <2> QED
    BY <1>1, <1>3, <2>1, NextCandidateStep DEF NandTypeOK
<1>4. CASE ~(try < PAGE_READ_TRIES) /\ ~(cand > 0)
  <2>1. npc' = "done" /\ nrc' = "read" /\ UNCHANGED <<chunk, pages_per_block, cand, block>>
    BY <1>4 DEF TryFails, Fail
  <2>2. NandTypeOK'
    BY <1>1, <2>1 DEF NandTypeOK
  <2>3. PhaseInv' /\ NandOkInv' /\ BufInv'
    BY <1>1, <1>4, <2>1 DEF NandInv, PhaseInv, NandOkInv, BufInv
  <2>4. LoadInv'
    BY <1>1, <2>1 DEF NandInv, LoadInv
  <2> QED
    BY <2>2, <2>3, <2>4 DEF NandInv
<1> QED
  BY <1>2, <1>3, <1>4

LEMMA NandStartStep ==
  ASSUME NandInv, nand_init
  PROVE  NandInv'
<1>1. /\ npc' = "probe" /\ cand' = 1 /\ pages_per_block' = Candidates[1] /\ block' = 1
      /\ UNCHANGED <<page, chunk, try, buf, image, nrc, flash>> /\ npc = "off"
  BY DEF nand_init, reading_page, IPL_START_BLOCK
<1>2. 1 \in 1 .. Len(Candidates) /\ Candidates[1] \in Nat \ {0}
  BY NandConstants
<1>3. NandTypeOK'
  BY <1>1, <1>2 DEF NandInv, NandTypeOK
<1>4. image = <<>> /\ Len(image) = 0 /\ nrc = "none" /\ Len(image) < IMAGE_PAGES
  BY <1>1 DEF NandInv, PhaseInv
<1> QED
  BY <1>1, <1>2, <1>3, <1>4 DEF NandInv, PhaseInv, BufInv, LoadInv, NandOkInv

LEMMA ProbeStep ==
  ASSUME NandInv, NEW word \in MarkerReads, nand_probe_geometry(word)
  PROVE  NandInv'
<1>1. npc = "probe" /\ UNCHANGED <<image, flash>> /\ NandTypeOK
  BY DEF nand_probe_geometry, NandInv
<1>2. /\ cand > 0 /\ nrc = "none" /\ image = <<>> /\ pages_per_block \in Nat \ {0}
      /\ Len(image) = 0 /\ Len(image) < IMAGE_PAGES
  BY <1>1 DEF NandInv, PhaseInv
<1>3. CASE ~block_is_bad(word)
  <2>1. /\ npc' = "page" /\ page' = block * pages_per_block /\ chunk' = 1 /\ buf' = <<>>
        /\ UNCHANGED <<pages_per_block, cand, block, nrc>>
    BY <1>3 DEF nand_probe_geometry, StartPage
  <2>2. page' \in Nat
    BY <1>1, <1>2, <2>1 DEF NandTypeOK
  <2>3. 1 \in 1 .. CHUNKS /\ <<>> \in Seq(Chunk_) /\ Len(buf') = 0
    BY <2>1, NandConstants
  <2>4. NandTypeOK'
    BY <1>1, <2>1, <2>2, <2>3 DEF NandTypeOK
  <2>5. PhaseInv' /\ BufInv' /\ LoadInv' /\ NandOkInv'
    BY <1>1, <1>2, <2>1, <2>3 DEF PhaseInv, BufInv, LoadInv, NandOkInv
  <2> QED
    BY <2>4, <2>5 DEF NandInv
<1>4. CASE block_is_bad(word) /\ skipped + 1 < MAX_BAD_SKIP
  <2>1. block' = block + 1 /\ UNCHANGED <<page, chunk, buf, pages_per_block, cand, npc, nrc>>
    BY <1>4 DEF nand_probe_geometry, reading_page
  <2>2. NandTypeOK'
    BY <1>1, <2>1 DEF NandTypeOK
  <2>3. PhaseInv' /\ BufInv' /\ LoadInv' /\ NandOkInv'
    BY <1>1, <1>2, <2>1 DEF PhaseInv, BufInv, LoadInv, NandOkInv
  <2> QED
    BY <2>2, <2>3 DEF NandInv
<1>5. CASE block_is_bad(word) /\ ~(skipped + 1 < MAX_BAD_SKIP)
  <2>1. NextCandidate /\ UNCHANGED <<page, chunk, buf>>
    BY <1>5 DEF nand_probe_geometry, reading_page
  <2> QED
    BY <1>1, <1>2, <2>1, NextCandidateStep DEF NandTypeOK
<1> QED
  BY <1>3, <1>4, <1>5

\* With its block size the load knows of each block whether it is bad.
LEMMA LoadStep ==
  ASSUME NandInv, NEW word \in MarkerReads, nand_load_image(word)
  PROVE  NandInv'
<1>1. /\ npc = "load" /\ UNCHANGED <<pages_per_block, cand, image, flash>> /\ NandTypeOK
      /\ misread' = (misread \/ ~(block_is_bad(word) <=> Marked(block * pages_per_block)))
  BY DEF nand_load_image, Judges, NandInv
<1>2. /\ cand = 0 /\ nrc = "none" /\ pages_per_block \in Nat \ {0} /\ Len(image) < IMAGE_PAGES
  BY <1>1 DEF NandInv, PhaseInv
<1>3. ASSUME ~misread', pages_per_block = flash.ppb
      PROVE  /\ block > 0 /\ Len(image) = Before(block) * flash.ppb
             /\ block_is_bad(word) <=> block \in flash.bad
             /\ \A i \in 1 .. Len(image) : image[i] \in SoundPage(i - 1)
  <2>1. ~misread /\ (block_is_bad(word) <=> Marked(block * pages_per_block))
    BY <1>1, <1>3
  <2>2. Marked(block * pages_per_block) <=> block \in flash.bad
    BY <1>1, <1>3, MarkedIsBad DEF NandTypeOK
  <2> QED
    BY <1>1, <1>3, <2>1, <2>2 DEF NandInv, LoadInv
<1>4. CASE ~block_is_bad(word)
  <2>1. /\ npc' = "page" /\ page' = block * pages_per_block /\ chunk' = 1 /\ buf' = <<>>
        /\ UNCHANGED <<block, nrc>>
    BY <1>4 DEF nand_load_image, StartPage
  <2>2. page' \in Nat
    BY <1>1, <1>2, <2>1 DEF NandTypeOK
  <2>3. 1 \in 1 .. CHUNKS /\ <<>> \in Seq(Chunk_) /\ Len(buf') = 0
    BY <2>1, NandConstants
  <2>4. NandTypeOK'
    BY <1>1, <2>1, <2>2, <2>3 DEF NandTypeOK
  <2>5. PhaseInv' /\ BufInv' /\ NandOkInv'
    BY <1>1, <1>2, <2>1, <2>3 DEF PhaseInv, BufInv, NandOkInv
  <2>6. LoadInv'
    <3> SUFFICES ASSUME ~misread', pages_per_block = flash.ppb
                 PROVE  /\ block > 0 /\ block \notin flash.bad
                        /\ \E o \in 0 .. flash.ppb - 1 : Offset(o)'
                        /\ \A i \in 1 .. Len(image) : image[i] \in SoundPage(i - 1)
      BY <1>1, <2>1 DEF LoadInv
    <3>1. block > 0 /\ Len(image) = Before(block) * flash.ppb /\ block \notin flash.bad
      BY <1>3, <1>4
    <3>2. flash.ppb \in Nat /\ 0 \in 0 .. flash.ppb - 1
      BY <1>1, NandConstants DEF NandTypeOK
    <3>3. Before(block)' = Before(block) /\ Before(block) \in Nat
      BY <1>1, <2>1, <3>1, BlocksBefore DEF Before, NandTypeOK
    <3>4. block * flash.ppb + 0 = block * flash.ppb
          /\ Before(block) * flash.ppb + 0 = Before(block) * flash.ppb
      BY <1>1, <3>2, <3>3 DEF NandTypeOK
    <3>5. Offset(0)'
      BY <1>1, <2>1, <3>1, <3>3, <3>4 DEF Offset
    <3> QED
      BY <1>3, <3>1, <3>2, <3>5
  <2> QED
    BY <2>4, <2>5, <2>6 DEF NandInv
<1>5. CASE block_is_bad(word) /\ skipped + 1 > MAX_BAD_SKIP
  <2>1. npc' = "done" /\ nrc' = "EBADRUN" /\ UNCHANGED <<page, chunk, buf, block>>
    BY <1>5 DEF nand_load_image, reading_page, Fail
  <2>2. NandTypeOK'
    BY <1>1, <2>1 DEF NandTypeOK
  <2>3. PhaseInv' /\ BufInv' /\ NandOkInv'
    BY <1>1, <1>2, <2>1 DEF PhaseInv, BufInv, NandOkInv
  <2>4. LoadInv'
    BY <1>1, <1>3, <2>1 DEF LoadInv
  <2> QED
    BY <2>2, <2>3, <2>4 DEF NandInv
<1>6. CASE block_is_bad(word) /\ ~(skipped + 1 > MAX_BAD_SKIP)
  <2>1. block' = block + 1 /\ UNCHANGED <<page, chunk, buf, npc, nrc>>
    BY <1>6 DEF nand_load_image, reading_page
  <2>2. NandTypeOK'
    BY <1>1, <2>1 DEF NandTypeOK
  <2>3. PhaseInv' /\ BufInv' /\ NandOkInv'
    BY <1>1, <1>2, <2>1 DEF PhaseInv, BufInv, NandOkInv
  <2>4. LoadInv'
    <3> SUFFICES ASSUME ~misread', pages_per_block = flash.ppb
                 PROVE  /\ block' > 0 /\ Len(image) = Before(block)' * flash.ppb
                        /\ \A i \in 1 .. Len(image) : image[i] \in SoundPage(i - 1)
      BY <1>1, <2>1 DEF LoadInv
    <3>1. block > 0 /\ Len(image) = Before(block) * flash.ppb /\ block \in flash.bad
      BY <1>3, <1>6
    <3>2. Before(block)' = Before(block + 1)
      BY <1>1, <2>1 DEF Before
    <3>3. Before(block + 1) = Before(block)
      BY <1>1, <3>1, BlocksBefore DEF NandTypeOK
    <3> QED
      BY <1>1, <1>3, <2>1, <3>1, <3>2, <3>3 DEF NandTypeOK
  <2> QED
    BY <2>2, <2>3, <2>4 DEF NandInv
<1> QED
  BY <1>4, <1>5, <1>6

\* The page in memory once this chunk is there.
Taken(g) == Append(SubSeq(buf, 1, chunk - 1), g)

LEMMA TakenIsPage ==
  ASSUME NandInv, npc = "page", NEW g \in Sound(Content(page))
  PROVE  /\ Taken(g) \in Seq(Chunk_) /\ Len(Taken(g)) = chunk
         /\ \A c \in 1 .. chunk : Taken(g)[c] \in Sound(Content(page))
         /\ chunk = CHUNKS => Taken(g) \in SoundPage(Content(page))
<1>1. NandTypeOK /\ BufInv
  BY DEF NandInv
<1>2. Content(page) \in Int
  BY <1>1, ContentType DEF NandTypeOK
<1>3. Sound(Content(page)) \subseteq Chunk_
  BY <1>2 DEF Sound, Good, Blank, Chunk_
<1> DEFINE S == Sound(Content(page))
           h == SubSeq(buf, 1, chunk - 1)
<1>4. chunk \in Nat /\ chunk >= 1 /\ chunk - 1 \in 0 .. Len(buf) /\ CHUNKS \in Nat
      /\ \A c \in 1 .. chunk - 1 : buf[c] \in S
  BY <1>1, NandConstants DEF NandTypeOK, BufInv
<1>5. buf \in Seq(Chunk_) /\ g \in Chunk_ /\ g \in S
  BY <1>1, <1>3 DEF NandTypeOK
<1> HIDE DEF S
<1>6. h \in Seq(Chunk_) /\ Len(h) = chunk - 1 /\ \A c \in 1 .. chunk - 1 : h[c] \in S
  BY <1>4, <1>5
<1> HIDE DEF h
<1>7. Append(h, g) \in Seq(Chunk_) /\ Len(Append(h, g)) = chunk
      /\ \A c \in 1 .. chunk : Append(h, g)[c] \in S
  BY <1>4, <1>5, <1>6
<1>8. Taken(g) = Append(h, g)
  BY DEF Taken, h
<1>9. Taken(g) \in Seq(Chunk_) /\ Len(Taken(g)) = chunk /\ \A c \in 1 .. chunk : Taken(g)[c] \in S
  BY <1>7, <1>8
<1>10. Taken(g) \in [1 .. chunk -> S]
  <2>1. Taken(g) = [c \in 1 .. Len(Taken(g)) |-> Taken(g)[c]]
    BY <1>9
  <2> QED
    BY <1>9, <2>1
<1>11. ASSUME chunk = CHUNKS PROVE Taken(g) \in SoundPage(Content(page))
  BY <1>10, <1>11 DEF SoundPage, S
<1> QED
  BY <1>9, <1>11 DEF S

\* The image takes the page that is next in it.
LEMMA ImageGrows ==
  ASSUME NandInv, npc = "page", cand = 0, chunk = CHUNKS, NEW g \in Sound(Content(page)),
         image' = Append(image, Taken(g)), flash' = flash
  PROVE  /\ image' \in Seq([1 .. CHUNKS -> Chunk_])
         /\ Len(image') = Len(image) + 1 /\ Len(image) \in Nat
         /\ ~misread /\ pages_per_block = flash.ppb =>
              \A i \in 1 .. Len(image') : image'[i] \in SoundPage(i - 1)
<1> DEFINE W == [1 .. CHUNKS -> Chunk_]
           t == Taken(g)
<1>1. NandTypeOK /\ t \in SoundPage(Content(page))
  BY TakenIsPage DEF NandInv
<1>2. Content(page) \in Int
  BY <1>1, ContentType DEF NandTypeOK
<1>3. t \in W /\ image \in Seq(W)
  <2>1. Sound(Content(page)) \subseteq Chunk_
    BY <1>2 DEF Sound, Good, Blank, Chunk_
  <2>2. t \in [1 .. CHUNKS -> Sound(Content(page))]
    BY <1>1 DEF SoundPage
  <2> HIDE DEF t
  <2> QED
    BY <1>1, <2>1, <2>2 DEF NandTypeOK
<1>0. image' = Append(image, t)
  OBVIOUS
<1> HIDE DEF W, t
<1>4. /\ image' \in Seq(W) /\ Len(image') = Len(image) + 1 /\ Len(image) \in Nat
      /\ \A i \in 1 .. Len(image) : image'[i] = image[i]
      /\ image'[Len(image) + 1] = t
  BY <1>0, <1>3
<1>5. ASSUME ~misread, pages_per_block = flash.ppb
      PROVE  \A i \in 1 .. Len(image') : image'[i] \in SoundPage(i - 1)
  <2>1. PICK o \in 0 .. flash.ppb - 1 : Offset(o)
    BY <1>5 DEF NandInv, LoadInv
  <2>2. block \in Nat /\ block > 0 /\ block \notin flash.bad /\ flash \in Flashes
    BY <1>1, <1>5 DEF NandInv, LoadInv, NandTypeOK
  <2>3. Content(page) = Len(image)
    BY <2>1, <2>2, ContentAt DEF Offset
  <2>4. (Len(image) + 1) - 1 = Len(image)
    BY <1>4
  <2>5. image'[Len(image) + 1] \in SoundPage((Len(image) + 1) - 1)
    BY <1>1, <1>4, <2>3, <2>4
  <2>6. \A i \in 1 .. Len(image) : image'[i] \in SoundPage(i - 1)
    BY <1>4, <1>5 DEF NandInv, LoadInv
  <2> QED
    BY <1>4, <2>5, <2>6
<1> QED
  BY <1>4, <1>5 DEF W

\* The offset of the page behind this one, in this block or the next.
LEMMA NextPageOffset ==
  ASSUME NandInv, npc = "page", cand = 0, ~misread, pages_per_block = flash.ppb
  PROVE  /\ (page + 1) % flash.ppb # 0 =>
              \E o \in 0 .. flash.ppb - 1 : /\ page + 1 = block * flash.ppb + o
                                            /\ Len(image) + 1 = Before(block) * flash.ppb + o
         /\ (page + 1) % flash.ppb = 0 =>
              Len(image) + 1 = Before(block + 1) * flash.ppb
<1> DEFINE d == flash.ppb
           n == Before(block)
<1>1. NandTypeOK /\ block \in Nat /\ block > 0 /\ block \notin flash.bad /\ flash \in Flashes
  BY DEF NandInv, LoadInv, NandTypeOK
<1>2. PICK o \in 0 .. d - 1 : Offset(o)
  BY DEF NandInv, LoadInv
<1>3. page = block * d + o /\ Len(image) = n * d + o
  BY <1>2 DEF Offset
<1>4. d \in Nat /\ d > 0 /\ n \in Nat /\ Before(block + 1) = n + 1
  <2>1. n \in Nat /\ Before(block + 1) = n + 1
    BY <1>1, BlocksBefore
  <2>2. d \in Nat /\ d > 0
    BY <1>1, NandConstants
  <2> QED
    BY <2>1, <2>2
<1> HIDE DEF d, n
<1>5. CASE o + 1 < d
  <2>1. o + 1 \in 0 .. d - 1 /\ page + 1 = block * d + (o + 1) /\ Len(image) + 1 = n * d + (o + 1)
    BY <1>1, <1>3, <1>4, <1>5
  <2>2. (block * d + (o + 1)) % d = o + 1
    BY <1>1, <1>4, <1>5, <2>1, DivMod
  <2>3. (page + 1) % d # 0
    BY <2>1, <2>2
  <2> QED
    BY <2>1, <2>3 DEF d, n
<1>6. CASE o + 1 = d
  <2>1. page + 1 = (block + 1) * d + 0 /\ Len(image) + 1 = (n + 1) * d
    BY <1>1, <1>3, <1>4, <1>6
  <2>2. block + 1 \in Nat /\ 0 \in Nat /\ 0 < d
    BY <1>1, <1>4
  <2>3. ((block + 1) * d + 0) % d = 0
    BY <1>4, <2>2, DivMod
  <2>4. (page + 1) % d = 0
    BY <2>1, <2>3
  <2> QED
    BY <1>4, <2>1, <2>4 DEF d, n
<1> QED
  BY <1>4, <1>5, <1>6

LEMMA ChunkDoneStep ==
  ASSUME NandInv, npc = "page", NEW g \in Sound(Content(page)), ChunkDone(g)
  PROVE  NandInv'
<1>1. NandTypeOK /\ nrc = "none" /\ Len(image) < IMAGE_PAGES /\ pages_per_block \in Nat \ {0}
      /\ flash' = flash /\ misread' = misread
  BY DEF NandInv, PhaseInv, ChunkDone, nand_rest
<1>2. CASE chunk < CHUNKS
  <2>1. /\ buf' = Taken(g) /\ chunk' = chunk + 1
        /\ UNCHANGED <<page, npc, nrc, image, block, flash, pages_per_block, cand, misread>>
    BY <1>2 DEF ChunkDone, nand_rest, Taken
  <2>2. Taken(g) \in Seq(Chunk_) /\ Len(Taken(g)) = chunk
        /\ \A c \in 1 .. chunk : Taken(g)[c] \in Sound(Content(page))
    BY TakenIsPage
  <2>3. NandTypeOK'
    <3>1. chunk + 1 \in 1 .. CHUNKS
      BY <1>1, <1>2, NandConstants DEF NandTypeOK
    <3> QED
      BY <1>1, <2>1, <2>2, <3>1 DEF NandTypeOK
  <2>4. PhaseInv' /\ NandOkInv'
    BY <2>1 DEF NandInv, PhaseInv, NandOkInv
  <2>5. Content(page)' = Content(page)
    BY <2>1 DEF Content
  <2>6. BufInv'
    BY <1>1, <2>1, <2>2, <2>5 DEF BufInv, NandTypeOK
  <2>7. LoadInv'
    BY <2>1 DEF NandInv, LoadInv, Offset, Before
  <2> QED
    BY <2>3, <2>4, <2>6, <2>7 DEF NandInv
<1>3. CASE ~(chunk < CHUNKS) /\ cand > 0
  <2>1. buf' = <<>> /\ UNCHANGED <<page, chunk, image, flash, misread>> /\ image = <<>> /\ Len(image) = 0
    BY <1>3 DEF ChunkDone, NandInv, PhaseInv
  <2>2. <<>> \in Seq(Chunk_)
    OBVIOUS
  <2>3. CASE NextCandidate
    BY <1>1, <1>3, <2>1, <2>2, <2>3, NextCandidateStep DEF NandTypeOK
  <2>4. CASE /\ npc' = "load" /\ cand' = 0 /\ block' = IPL_START_BLOCK
             /\ UNCHANGED <<pages_per_block, nrc>>
    <3>1. NandTypeOK'
      BY <1>1, <2>1, <2>2, <2>4, NandConstants DEF NandTypeOK, IPL_START_BLOCK
    <3>2. PhaseInv' /\ BufInv' /\ NandOkInv'
      BY <1>1, <2>1, <2>4 DEF PhaseInv, BufInv, NandOkInv
    <3>3. Before(block)' = Before(1) /\ Before(1) = 0 /\ flash.ppb \in Nat
      BY <1>1, <2>1, <2>4, BlocksBefore, NandConstants DEF Before, IPL_START_BLOCK, NandTypeOK
    <3>4. LoadInv'
      BY <2>1, <2>4, <3>3 DEF LoadInv, IPL_START_BLOCK
    <3> QED
      BY <3>1, <3>2, <3>4 DEF NandInv
  <2> QED
    BY <1>3, <2>3, <2>4 DEF ChunkDone
<1>4. CASE ~(chunk < CHUNKS) /\ ~(cand > 0)
  <2>1. chunk = CHUNKS /\ cand = 0
    BY <1>1, <1>4, NandConstants DEF NandTypeOK
  <2>2. image' = Append(image, Taken(g)) /\ UNCHANGED <<flash, pages_per_block, cand, misread>>
    BY <1>4 DEF ChunkDone, nand_rest, Taken
  <2>3. /\ image' \in Seq([1 .. CHUNKS -> Chunk_])
        /\ Len(image') = Len(image) + 1 /\ Len(image) \in Nat
        /\ ~misread /\ pages_per_block = flash.ppb =>
             \A i \in 1 .. Len(image') : image'[i] \in SoundPage(i - 1)
    BY <2>1, <2>2, ImageGrows
  <2>4. <<>> \in Seq(Chunk_) /\ CHUNKS \in Nat \ {0} /\ IMAGE_PAGES \in Nat /\ 1 \in 1 .. CHUNKS
    BY NandConstants
  <2>5. CASE Len(image) + 1 = IMAGE_PAGES
    <3>1. npc' = "done" /\ buf' = <<>> /\ UNCHANGED <<block, page, chunk>>
      BY <1>4, <2>5 DEF ChunkDone, Fail
    <3>2. NandTypeOK'
      BY <1>1, <2>2, <2>3, <2>4, <3>1 DEF NandTypeOK
    <3>3. PhaseInv' /\ BufInv' /\ NandOkInv'
      BY <2>1, <2>2, <2>3, <2>5, <3>1 DEF PhaseInv, BufInv, NandOkInv
    <3>4. LoadInv'
      BY <2>2, <2>3, <3>1 DEF LoadInv
    <3> QED
      BY <3>2, <3>3, <3>4 DEF NandInv
  <2>6. CASE Len(image) + 1 # IMAGE_PAGES /\ (page + 1) % pages_per_block # 0
    <3>1. /\ page' = page + 1 /\ chunk' = 1 /\ buf' = <<>> /\ UNCHANGED <<npc, nrc, block>>
      BY <1>4, <2>6 DEF ChunkDone, StartPage
    <3>2. NandTypeOK'
      BY <1>1, <2>2, <2>3, <2>4, <3>1 DEF NandTypeOK
    <3>3. PhaseInv' /\ NandOkInv'
      BY <1>1, <2>1, <2>2, <2>3, <2>4, <2>6, <3>1 DEF PhaseInv, NandOkInv
    <3>4. BufInv'
      BY <3>1 DEF BufInv
    <3>5. LoadInv'
      <4> SUFFICES ASSUME ~misread, pages_per_block = flash.ppb
                   PROVE  /\ block > 0 /\ block \notin flash.bad
                          /\ \E o \in 0 .. flash.ppb - 1 : Offset(o)'
        BY <2>2, <2>3, <3>1 DEF LoadInv
      <4>1. PICK o \in 0 .. flash.ppb - 1 : /\ page + 1 = block * flash.ppb + o
                                            /\ Len(image) + 1 = Before(block) * flash.ppb + o
        BY <2>1, <2>6, NextPageOffset
      <4>2. Before(block)' = Before(block)
        BY <2>2, <3>1 DEF Before
      <4>3. Offset(o)'
        BY <2>2, <2>3, <3>1, <4>1, <4>2 DEF Offset
      <4>4. block > 0 /\ block \notin flash.bad
        BY <2>1 DEF NandInv, LoadInv
      <4> QED
        BY <4>3, <4>4
    <3> QED
      BY <3>2, <3>3, <3>4, <3>5 DEF NandInv
  <2>7. CASE Len(image) + 1 # IMAGE_PAGES /\ ~((page + 1) % pages_per_block # 0)
    <3>1. /\ block' = block + 1 /\ npc' = "load" /\ buf' = <<>> /\ UNCHANGED <<page, chunk, nrc>>
      BY <1>4, <2>7 DEF ChunkDone
    <3>2. NandTypeOK'
      BY <1>1, <2>2, <2>3, <2>4, <3>1 DEF NandTypeOK
    <3>3. PhaseInv' /\ BufInv' /\ NandOkInv'
      BY <1>1, <2>1, <2>2, <2>3, <2>4, <2>7, <3>1 DEF PhaseInv, BufInv, NandOkInv
    <3>4. LoadInv'
      <4> SUFFICES ASSUME ~misread, pages_per_block = flash.ppb
                   PROVE  block + 1 > 0 /\ Len(image) + 1 = Before(block)' * flash.ppb
        BY <2>2, <2>3, <3>1 DEF LoadInv
      <4>1. Len(image) + 1 = Before(block + 1) * flash.ppb
        BY <2>1, <2>7, NextPageOffset
      <4>2. Before(block)' = Before(block + 1)
        BY <2>2, <3>1 DEF Before
      <4> QED
        BY <1>1, <4>1, <4>2 DEF NandTypeOK
    <3> QED
      BY <3>2, <3>3, <3>4 DEF NandInv
  <2> QED
    BY <2>5, <2>6, <2>7
<1> QED
  BY <1>2, <1>3, <1>4

LEMMA NandInvStep ==
  ASSUME NandInv, NandStep
  PROVE  NandInv'
<1>1. CASE nand_init
  BY <1>1, NandStartStep
<1>2. ASSUME NEW word \in MarkerReads, nand_probe_geometry(word) PROVE NandInv'
  BY <1>2, ProbeStep
<1>3. ASSUME NEW word \in MarkerReads, nand_load_image(word) PROVE NandInv'
  BY <1>3, LoadStep
<1>4. ASSUME NEW v \in Verdicts, read_chunk(v) PROVE NandInv'
  BY <1>4, TakenIsGood, ChunkDoneStep, TryFailsStep
<1> QED
  BY <1>1, <1>2, <1>3, <1>4 DEF NandStep

LEMMA NandIsWhole == NandInv => LoadedIsImage
<1> SUFFICES ASSUME NandInv, nrc = "ok", ~misread, pages_per_block = flash.ppb
             PROVE  WholeImage
  BY DEF LoadedIsImage
<1>1. Len(image) = IMAGE_PAGES
  BY DEF NandInv, NandOkInv
<1>2. \A i \in 1 .. IMAGE_PAGES : image[i] \in SoundPage(i - 1)
  BY <1>1 DEF NandInv, LoadInv
<1> QED
  BY <1>1, <1>2 DEF WholeImage, SoundPage, Sound, Good

-----------------------------------------------------------------------------
(* openNBOOT: the card, then the NAND; one of them runs at a time.         *)

\* The pads are the card's only while it is read; an end has its result.
PadsInv ==
  /\ boot \in {"start", "card", "nand", "boot.bin", "eboot", "halt"}
  /\ card_pads => boot = "card"
  /\ boot = "boot.bin" => frc = "ok"
  /\ boot = "eboot" => nrc = "ok"

BootInv == FatInv /\ NandInv /\ PadsInv

LEMMA FatStays == FatInv /\ UNCHANGED fat_vars => FatInv'
  BY DEF FatInv, FatTypeOK, CacheInv, CacheOK, PrefixInv, PlaceInv, At_, FatOkInv, fat_vars,
         FatSector, FileByte

LEMMA NandStays == NandInv /\ UNCHANGED nand_vars => NandInv'
<1> SUFFICES ASSUME NandInv, UNCHANGED nand_vars PROVE NandInv'
  OBVIOUS
<1>1. NandTypeOK' /\ PhaseInv' /\ NandOkInv'
  BY DEF NandInv, NandTypeOK, PhaseInv, NandOkInv, nand_vars
<1>2. BufInv'
  BY DEF NandInv, BufInv, Content, nand_vars
<1>3. LoadInv'
  BY DEF NandInv, LoadInv, Offset, Before, nand_vars
<1> QED
  BY <1>1, <1>2, <1>3 DEF NandInv

(* openNBOOT enters only what it loaded (boot_main): BOOT.BIN to its last  *)
(* byte, or the IPL page for page, each chunk with the located bit errors  *)
(* put right or all ones, with the pads given back, for every volume and   *)
(* flash of any size, any number of chunks, tries and bad blocks, and any  *)
(* failing reads of pages.  Where a marker was read wrongly or not at all, *)
(* or the probe took another block size, nothing is said of the IPL.       *)
THEOREM EnteredIsWholeTheorem == OpenNbootSpec => []EnteredIsWhole
<1>1. OpenNbootInit => BootInv
  BY FatInvInit, NandInitOK DEF OpenNbootInit, BootInv, PadsInv, FatInit, NandInit
<1>2. BootInv /\ [boot_main]_boot_vars => BootInv'
  <2> SUFFICES ASSUME BootInv, [boot_main]_boot_vars PROVE BootInv'
    OBVIOUS
  <2>1. ASSUME NEW ok \in BOOLEAN, sd_try_boot(ok) PROVE BootInv'
    <3>1. CASE ok
      <4>1. fat_start /\ UNCHANGED nand_vars /\ boot' = "card"
        BY <2>1, <3>1 DEF sd_try_boot
      <4> QED
        BY <4>1, StartKeeps, NandStays DEF BootInv, PadsInv
    <3>2. CASE ~ok
      <4>1. UNCHANGED <<fat_vars, nand_vars>> /\ boot' = "nand" /\ card_pads' = FALSE
        BY <2>1, <3>2 DEF sd_try_boot
      <4> QED
        BY <4>1, FatStays, NandStays DEF BootInv, PadsInv
    <3> QED
      BY <3>1, <3>2
  <2>2. CASE boot = "card" /\ FatStep /\ UNCHANGED <<boot, card_pads, nand_vars>>
    <3>1. FatInv' /\ NandInv'
      BY <2>2, FatInvStep, NandStays DEF BootInv
    <3> QED
      BY <2>2, <3>1 DEF BootInv, PadsInv
  <2>3. CASE sd_try_boot_ends
    <3>1. FatInv' /\ NandInv'
      BY <2>3, FatStays, NandStays DEF BootInv, sd_try_boot_ends
    <3> QED
      BY <2>3, <3>1 DEF BootInv, PadsInv, sd_try_boot_ends, fat_vars
  <2>4. CASE boot = "nand" /\ NandStep /\ UNCHANGED <<boot, card_pads, fat_vars>>
    <3>1. FatInv' /\ NandInv'
      BY <2>4, FatStays, NandInvStep DEF BootInv
    <3> QED
      BY <2>4, <3>1 DEF BootInv, PadsInv
  <2>5. CASE boot_main_ends
    <3>1. FatInv' /\ NandInv'
      BY <2>5, FatStays, NandStays DEF BootInv, boot_main_ends
    <3> QED
      BY <2>5, <3>1 DEF BootInv, PadsInv, boot_main_ends, nand_vars
  <2>6. CASE UNCHANGED boot_vars
    <3>1. FatInv' /\ NandInv'
      BY <2>6, FatStays, NandStays DEF BootInv, boot_vars
    <3> QED
      BY <2>6, <3>1 DEF BootInv, PadsInv, boot_vars, fat_vars, nand_vars
  <2> QED
    BY <2>1, <2>2, <2>3, <2>4, <2>5, <2>6 DEF boot_main
<1>3. BootInv => EnteredIsWhole
  BY FatIsWhole, NandIsWhole DEF BootInv, PadsInv, EnteredIsWhole
<1> QED
  BY <1>1, <1>2, <1>3, PTL DEF OpenNbootSpec

-----------------------------------------------------------------------------
(* The payload loader: only checked segments are written, and all of them  *)
(* before the entry.                                                       *)

TypeInv ==
  /\ segs \in UNION {[1 .. n -> Segments] : n \in 0 .. MaxSegments}
  /\ entry \in Words /\ at \in Nat \ {0}

(* The checks that were made are all still good when a segment is loaded.  *)
Checked ==
  pc \in {"load", "run"} => /\ \A i \in DOMAIN segs : segment_ok(segs[i])
                            /\ \E i \in DOMAIN segs : entry_ok(segs[i])

(* Every segment before at is in memory.                                   *)
LoadedSoFar ==
  pc \in {"load", "run"} =>
    \A i \in DOMAIN segs : i < at => Bytes(segs[i].paddr, segs[i].memsz) \subseteq written

Finished == pc = "run" => at > Len(segs)

Start == pc = "check" => at = 1

PayloadInv == TypeInv /\ Start /\ Checked /\ LoadedSoFar /\ Finished /\ WritesAreSafe

(* The headers are a sequence of segments.                                 *)
LEMMA SegsType ==
  ASSUME TypeInv
  PROVE  /\ Len(segs) \in Nat /\ DOMAIN segs = 1 .. Len(segs)
         /\ \A i \in DOMAIN segs : segs[i] \in Segments
<1>1. PICK n \in 0 .. MaxSegments : segs \in [1 .. n -> Segments]
  BY DEF TypeInv
<1>2. n \in Nat
  BY PayloadAssumption
<1>3. segs \in Seq(Segments) /\ Len(segs) = n
  BY <1>1, <1>2
<1> QED
  BY <1>1, <1>2, <1>3

(* A range that range_ok accepts, and every shorter one from its start,    *)
(* has no byte outside DDR or over what is in use; the sum does not wrap.  *)
LEMMA RangeSafe ==
  ASSUME NEW a \in Words, NEW s \in Words, s > 0, range_ok(a, s),
         NEW n \in Nat, n <= s, NEW x \in Bytes(a, n)
  PROVE  /\ x \in Nat /\ a <= x /\ x < a + n
         /\ DDR_LOW <= x /\ x < DDR_HIGH
         /\ \A r \in InUse : ~(r.lo <= x /\ x < r.hi)
<1> USE PayloadAssumption DEF Words
<1>1. a + s < WORD /\ Add(a, s) = a + s
  BY DEF range_ok, Add
<1>2. x \in a .. a + n - 1
  BY <1>1 DEF Bytes
<1>3. a >= DDR_LOW /\ a + s <= DDR_HIGH
  BY <1>1 DEF range_ok
<1>4. ASSUME NEW r \in InUse, r.lo <= x, x < r.hi PROVE FALSE
  <2>1. r.lo \in Words /\ r.hi \in Words
    BY <1>4
  <2>2. ~overlaps(a, a + s, r.lo, r.hi)
    BY <1>1, <1>4 DEF range_ok
  <2> QED
    BY <1>2, <1>4, <2>1, <2>2 DEF overlaps
<1> QED
  BY <1>2, <1>3, <1>4

(* A checked segment has its bytes where range_ok said.                    *)
LEMMA EntryInSegment ==
  ASSUME NEW s \in Segments, entry \in Words, segment_ok(s), entry_ok(s)
  PROVE  entry \in Bytes(s.paddr, s.memsz)
<1> USE PayloadAssumption DEF Words, Segments
<1>1. s.paddr \in Words /\ s.memsz \in Words /\ s.memsz > 0
  BY DEF entry_ok
<1>2. Add(s.paddr, s.memsz) = s.paddr + s.memsz
  BY <1>1 DEF segment_ok, range_ok, Add
<1> QED
  BY <1>1, <1>2 DEF entry_ok, Bytes

LEMMA PayloadInvInit == Init => PayloadInv
<1> SUFFICES ASSUME Init PROVE PayloadInv
  OBVIOUS
<1>1. TypeInv
  BY DEF Init, TypeInv
<1>2. Start /\ Checked /\ LoadedSoFar /\ Finished /\ WritesAreSafe
  BY DEF Init, Start, Checked, LoadedSoFar, Finished, WritesAreSafe
<1> QED
  BY <1>1, <1>2 DEF PayloadInv

(* One turn of the load loop keeps the invariant.                          *)
LEMMA PayloadInvLoad == PayloadInv /\ load_segment => PayloadInv'
<1> SUFFICES ASSUME PayloadInv, load_segment PROVE PayloadInv'
  OBVIOUS
<1>0. /\ Len(segs) \in Nat /\ DOMAIN segs = 1 .. Len(segs)
      /\ \A i \in DOMAIN segs : segs[i] \in Segments
  BY SegsType DEF PayloadInv
<1> DEFINE s == segs[at]
<1>1. /\ at \in DOMAIN segs /\ s \in Segments /\ segment_ok(s)
      /\ s.paddr \in Words /\ s.memsz \in Words /\ s.filesz \in Words
  <2>1. at \in DOMAIN segs
    BY <1>0 DEF PayloadInv, TypeInv, load_segment
  <2> QED
    BY <1>0, <2>1 DEF PayloadInv, Checked, load_segment, Segments
<1>2. segs' = segs /\ entry' = entry
  BY DEF load_segment
<1>3. /\ written \subseteq written'
      /\ pc' \in {"load", "EIO"} /\ at' \in {at, at + 1}
      /\ pc' = "load" => at' = at + 1
      /\ \A x \in written' \ written :
           s.memsz > 0 /\ \E n \in Nat : n <= s.memsz /\ x \in Bytes(s.paddr, n)
      /\ pc' = "load" => s.memsz = 0 \/ Bytes(s.paddr, s.memsz) \subseteq written'
  <2>1. CASE s.memsz > 0 /\ written' = written \cup Bytes(s.paddr, s.memsz)
             /\ at' = at + 1 /\ pc' = pc
    BY <2>1, <1>1, PayloadAssumption DEF load_segment, Words
  <2>2. CASE s.memsz = 0 /\ at' = at + 1 /\ pc' = pc /\ written' = written
    BY <2>2 DEF load_segment
  <2>3. CASE /\ s.memsz > 0 /\ s.filesz > 0 /\ pc' = "EIO" /\ at' = at
             /\ \E n \in 0 .. s.filesz : written' = written \cup Bytes(s.paddr, n)
    <3>1. PICK n \in 0 .. s.filesz : written' = written \cup Bytes(s.paddr, n)
      BY <2>3
    <3>2. s.filesz <= s.memsz
      BY <1>1, <2>3 DEF segment_ok
    <3>3. n \in Nat /\ n <= s.memsz
      BY <1>1, <3>2, PayloadAssumption DEF Words
    <3> QED
      BY <2>3, <3>1, <3>3
  <2> QED
    BY <2>1, <2>2, <2>3 DEF load_segment
<1>4. TypeInv' /\ Start' /\ Finished'
  BY <1>2, <1>3 DEF PayloadInv, TypeInv, Start, Finished
<1>5. Checked'
  BY <1>2, <1>3 DEF PayloadInv, Checked, load_segment, segment_ok, entry_ok
<1>6. LoadedSoFar'
  <2> SUFFICES ASSUME pc' = "load", NEW i \in DOMAIN segs, i < at'
               PROVE  Bytes(segs[i].paddr, segs[i].memsz) \subseteq written'
    BY <1>2, <1>3 DEF LoadedSoFar
  <2>1. CASE i < at
    BY <2>1, <1>3 DEF PayloadInv, LoadedSoFar, load_segment
  <2>2. CASE i = at
    <3>1. CASE s.memsz = 0
      BY <3>1, <2>2, <1>1, PayloadAssumption DEF Bytes, Words
    <3>2. CASE s.memsz # 0
      BY <3>2, <2>2, <1>3
    <3> QED
      BY <3>1, <3>2
  <2> QED
    BY <2>1, <2>2, <1>0, <1>3 DEF PayloadInv, TypeInv
<1>7. WritesAreSafe'
  <2> SUFFICES ASSUME NEW x \in written'
               PROVE  /\ DDR_LOW <= x /\ x < DDR_HIGH
                      /\ \A r \in InUse : ~(r.lo <= x /\ x < r.hi)
    BY DEF WritesAreSafe
  <2>1. CASE x \in written
    BY <2>1 DEF PayloadInv, WritesAreSafe
  <2>2. CASE x \notin written
    <3>1. PICK n \in Nat : n <= s.memsz /\ x \in Bytes(s.paddr, n)
      BY <2>2, <1>3
    <3>2. s.memsz > 0 /\ range_ok(s.paddr, s.memsz)
      BY <2>2, <1>1, <1>3 DEF segment_ok
    <3> QED
      BY <1>1, <3>1, <3>2, RangeSafe
  <2> QED
    BY <2>1, <2>2
<1> QED
  BY <1>4, <1>5, <1>6, <1>7 DEF PayloadInv

LEMMA PayloadInvStep == PayloadInv /\ [Next]_vars => PayloadInv'
<1> SUFFICES ASSUME PayloadInv, [Next]_vars PROVE PayloadInv'
  OBVIOUS
<1>0. /\ Len(segs) \in Nat /\ DOMAIN segs = 1 .. Len(segs)
  BY SegsType DEF PayloadInv
<1>1. ASSUME check PROVE PayloadInv'
  <2>1. TypeInv' /\ Start' /\ Finished' /\ WritesAreSafe'
    BY <1>1 DEF PayloadInv, check, TypeInv, Start, Finished, WritesAreSafe
  <2>2. Checked'
    BY <1>1 DEF check, Checked, segment_ok, entry_ok
  <2>3. LoadedSoFar'
    BY <1>0, <1>1 DEF PayloadInv, Start, check, LoadedSoFar
  <2> QED
    BY <2>1, <2>2, <2>3 DEF PayloadInv
<1>2. ASSUME load_segment PROVE PayloadInv'
  BY <1>2, PayloadInvLoad
<1>3. ASSUME load_done PROVE PayloadInv'
  <2>1. TypeInv' /\ Start' /\ Finished' /\ WritesAreSafe'
    BY <1>3 DEF PayloadInv, load_done, TypeInv, Start, Finished, WritesAreSafe
  <2>2. Checked'
    BY <1>3 DEF PayloadInv, load_done, Checked, segment_ok, entry_ok
  <2>3. LoadedSoFar'
    BY <1>3 DEF PayloadInv, load_done, LoadedSoFar
  <2> QED
    BY <2>1, <2>2, <2>3 DEF PayloadInv
<1>4. ASSUME UNCHANGED vars PROVE PayloadInv'
  BY <1>4 DEF vars, PayloadInv, TypeInv, Start, Checked, LoadedSoFar, Finished, WritesAreSafe,
              segment_ok, entry_ok
<1> QED
  BY <1>1, <1>2, <1>3, <1>4 DEF Next, Done

(* The invariant of payload_load, in every state of a load.                *)
THEOREM PayloadInvariance == Spec => []PayloadInv
  BY PayloadInvInit, PayloadInvStep, PTL DEF Spec

(* No payload, whatever its headers say, is written outside DDR or over    *)
(* aipc-boot or a framebuffer, at any point of its load.                   *)
THEOREM WritesAreSafeTheorem == Spec => []WritesAreSafe
<1>1. PayloadInv => WritesAreSafe
  BY DEF PayloadInv
<1> QED
  BY <1>1, PayloadInvariance, PTL

(* payload_call jumps only to an address that payload_load wrote.          *)
THEOREM EntryIsLoadedTheorem == Spec => []EntryIsLoaded
<1>1. PayloadInv => EntryIsLoaded
  <2> SUFFICES ASSUME PayloadInv, pc = "run" PROVE entry \in written
    BY DEF EntryIsLoaded
  <2>1. /\ Len(segs) \in Nat /\ DOMAIN segs = 1 .. Len(segs)
        /\ \A i \in DOMAIN segs : segs[i] \in Segments
    BY SegsType DEF PayloadInv
  <2>2. PICK i \in DOMAIN segs : entry_ok(segs[i])
    BY DEF PayloadInv, Checked
  <2>3. segment_ok(segs[i]) /\ segs[i] \in Segments /\ entry \in Words
    BY <2>1 DEF PayloadInv, Checked, TypeInv
  <2>4. entry \in Bytes(segs[i].paddr, segs[i].memsz)
    BY <2>2, <2>3, EntryInSegment
  <2>5. i < at
    BY <2>1 DEF PayloadInv, Finished, TypeInv
  <2> QED
    BY <2>4, <2>5 DEF PayloadInv, LoadedSoFar
<1> QED
  BY <1>1, PayloadInvariance, PTL
=============================================================================
