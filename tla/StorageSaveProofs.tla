------------------------- MODULE StorageSaveProofs -------------------------
(***************************************************************************)
(* Proofs about StorageSave for every set of contents and chains, and      *)
(* about Settings for every set of sections, names and texts, every file   *)
(* and every length of the table.                                          *)
(***************************************************************************)
EXTENDS StorageSave, Settings, FiniteSetTheorems, WellFoundedInduction, TLAPS

\* storage_load returns path when path is complete.
LEMMA LoadPath == Complete("path") => Holds(dir["path"].of)
  BY DEF Complete, Holds, storage_load, load_one, Present

\* storage_load falls back to a complete path.new when path is absent.
LEMMA LoadNew == ~Present("path") /\ Complete("new") => Holds(dir["new"].of)
  BY DEF Complete, Holds, storage_load, load_one, Present

\* A content that storage_load returns is the one that an entry records.
LEMMA LoadValue == TypeOK /\ storage_load.rc = "ok" => storage_load.of \in Values
<1>1. \A n \in Names : TypeOK /\ load_one(n).rc = "ok" => load_one(n).of \in Values
  BY DEF load_one, Complete, Present, TypeOK, Names, Entry, Absent
<1> QED
  BY <1>1 DEF storage_load, Names

\* The same two facts about the state after a step.
LEMMA LoadPathNext == Complete("path")' => Holds(dir["path"].of)'
  BY DEF Complete, Holds, storage_load, load_one, Present

LEMMA LoadNewNext == (~Present("path") /\ Complete("new"))' => Holds(dir["new"].of)'
  BY DEF Complete, Holds, storage_load, load_one, Present

\* What storage_load returns depends on the volume alone.
LEMMA LoadFrame ==
  ASSUME UNCHANGED <<dir, used, data, val, begin>>, SaveIsAtomic
  PROVE  SaveIsAtomic'
  BY DEF SaveIsAtomic, Holds, storage_load, load_one, Present, Complete

\* At every point of a save IInv gives the three properties.
LEMMA Consequences == IInv => PathIsWhole /\ SaveIsAtomic /\ SuccessReplaces
<1> SUFFICES ASSUME IInv PROVE PathIsWhole /\ SaveIsAtomic /\ SuccessReplaces
  OBVIOUS
<1>1. PathIsWhole
  BY DEF IInv
<1>2. CASE pc = "idle"
  BY <1>1, <1>2 DEF IInv
<1>3. CASE pc # "idle"
  <2>1. SuccessReplaces
    BY <1>3 DEF IInv, ResultSafe, SuccessReplaces
  <2>2. ASSUME pc \in Early PROVE SaveIsAtomic
    BY <2>2, LoadPath DEF IInv, PathSafe, SaveIsAtomic
  <2>3. ASSUME pc \in {"unlink_chain", "rename"} PROVE SaveIsAtomic
    BY <2>3, LoadNew DEF IInv, NewSafe, SaveIsAtomic, Late
  <2>4. ASSUME pc = "rename_remove" PROVE SaveIsAtomic
    <3>1. begin.apart => Complete("path") /\ dir["path"].of = val
      BY <2>4 DEF IInv, NewSafe, Late, Complete
    <3> QED
      BY <3>1, LoadPath DEF SaveIsAtomic
  <2>5. pc \in Early \/ pc \in {"unlink_chain", "rename"} \/ pc = "rename_remove"
    BY <1>3 DEF IInv, TypeOK, Phases, Early
  <2> QED
    BY <1>1, <2>1, <2>2, <2>3, <2>4, <2>5
<1> QED
  BY <1>2, <1>3

LEMMA InitIInv == SaveInit => IInv
  BY StorageAssumption
  DEF SaveInit, IInv, TypeOK, PathIsWhole, PathSafe, FileSafe, NewSafe, ResultSafe,
      SaveIsAtomic, SuccessReplaces, Early, Late, Phases, Names, Entry, Sizes,
      Sectors, Absent, Present, Complete

\* Every step keeps IInv; one step per action.
LEMMA NextIInv == IInv /\ [SaveNext]_save_vars => IInv'
<1> SUFFICES ASSUME IInv, [SaveNext]_save_vars PROVE IInv'
  OBVIOUS
<1> USE StorageAssumption
<1>a. SaveIsAtomic /\ SuccessReplaces
  BY Consequences
<1>0. CASE UNCHANGED save_vars
  BY <1>0 DEF save_vars, IInv, TypeOK, PathIsWhole, PathSafe, FileSafe, NewSafe, ResultSafe,
     SaveIsAtomic, SuccessReplaces, Holds, storage_load, load_one, Present, Complete
<1>1. ASSUME NEW v \in Values, Begin(v) PROVE IInv'
  <2> USE <1>1 DEF Begin, Go
  <2>1. TypeOK'
    <3>1. begin' \in [of : Values, had : BOOLEAN, sound : BOOLEAN, apart : BOOLEAN]
      BY LoadValue DEF IInv, Complete, OwnsChain
    <3> QED
      BY <3>1 DEF IInv, TypeOK, Phases, Sizes
  <2>2. (PathIsWhole /\ FileSafe /\ NewSafe /\ ResultSafe)'
    BY DEF IInv, PathIsWhole, FileSafe, NewSafe, ResultSafe, Late, Present
  <2>3. PathSafe'
    <3>1. Complete("path") => begin'.of = dir["path"].of
      BY LoadPath DEF Holds
    <3> QED
      BY <3>1 DEF IInv, TypeOK, PathSafe, OwnsChain, Complete, Present
  <2> QED
    BY <2>1, <2>2, <2>3 DEF IInv
<1>2. CASE f_open
  <2> USE <1>2 DEF f_open, Go, Return, EmptyEntry
  <2>1. TypeOK'
    BY DEF IInv, TypeOK, Phases, Sizes, Sectors, Entry, Absent, Names
  <2>2. (PathIsWhole /\ ResultSafe)'
    BY DEF IInv, TypeOK, PathIsWhole, ResultSafe, NewSafe, Late, Present, Absent, Names
  <2>3. PathSafe'
    <3>1. /\ dir'["path"] = dir["path"]
          /\ dir'["new"].chain \in {NoChain, dir["new"].chain}
          /\ dead' \in {dead, dir["new"].chain}
      BY DEF IInv, TypeOK, Names
    <3>2. pc \in Early
      BY DEF Early
    <3> QED
      BY <3>1, <3>2 DEF IInv, TypeOK, PathSafe, Complete, Present
  <2>4. (FileSafe /\ NewSafe)'
    BY DEF IInv, TypeOK, FileSafe, NewSafe, PathSafe, Early, Late, Complete, Present, Names, Entry, Absent
  <2>5. (pc = "idle" => SaveIsAtomic /\ SuccessReplaces)'
    BY <1>a, LoadFrame DEF IInv, SuccessReplaces
  <2> QED
    BY <2>1, <2>2, <2>3, <2>4, <2>5 DEF IInv
<1>3. CASE f_open_remove_chain
  <2> USE <1>3 DEF f_open_remove_chain, Go, Return
  <2>1. TypeOK'
    BY DEF IInv, TypeOK, Phases, Sizes, Sectors, Entry, Absent, Names
  <2>2. (PathIsWhole /\ ResultSafe)'
    BY DEF IInv, TypeOK, PathIsWhole, ResultSafe, NewSafe, Late, Present, Absent, Names
  <2>3. PathSafe'
    BY DEF IInv, TypeOK, PathSafe, Early, Complete, Present, Names, Entry, Absent
  <2>4. (FileSafe /\ NewSafe)'
    BY DEF IInv, TypeOK, FileSafe, NewSafe, PathSafe, Early, Late, Complete, Present, Names, Entry, Absent
  <2>5. (pc = "idle" => SaveIsAtomic /\ SuccessReplaces)'
    <3>1. begin.apart /\ begin.sound => Complete("path")' /\ dir'["path"].of = begin.of
      BY DEF IInv, PathSafe, Early, Complete, Present
    <3>2. SaveIsAtomic'
      BY <3>1, LoadPathNext DEF SaveIsAtomic
    <3> QED
      BY <3>2 DEF SuccessReplaces, IInv, ResultSafe
  <2> QED
    BY <2>1, <2>2, <2>3, <2>4, <2>5 DEF IInv
<1>4. CASE f_write
  <2> USE <1>4 DEF f_write, Go, Return
  <2>1. TypeOK'
    <3>1. ASSUME NEW c \in Chains, NEW size \in Sizes
          PROVE  [data EXCEPT ![c] = [of |-> val, whole |-> size = "full"]] \in [Chains -> Sectors]
      <4>1. [of |-> val, whole |-> size = "full"] \in Sectors
        BY DEF IInv, TypeOK, Sectors
      <4> QED
        BY <4>1 DEF IInv, TypeOK
    <3> QED
      BY <3>1 DEF IInv, TypeOK, Phases, Sizes
  <2>2. (PathIsWhole /\ ResultSafe)'
    BY DEF IInv, TypeOK, PathIsWhole, ResultSafe, NewSafe, Late, Present, Absent, Names
  <2>3. PathSafe'
    BY DEF IInv, TypeOK, PathSafe, Early, Complete, Present, Names, Entry, Absent
  <2>4. (FileSafe /\ NewSafe)'
    <3>1. FileSafe'
      <4>1. ASSUME NEW c \in Chains \ used, NEW size \in Sizes,
                   used' = used \cup {c}, file' = [chain |-> c, size |-> size],
                   data' = [data EXCEPT ![c] = [of |-> val, whole |-> size = "full"]]
            PROVE  FileSafe'
        <5>1. data'[c] = [of |-> val, whole |-> size = "full"]
          BY <4>1 DEF IInv, TypeOK
        <5>2. size = "full" => [of |-> val, whole |-> size = "full"] = [of |-> val, whole |-> TRUE]
          BY Zenon
        <5> QED
          BY <4>1, <5>1, <5>2 DEF FileSafe
      <4>2. ASSUME UNCHANGED file PROVE FileSafe'
        BY <4>2 DEF FileSafe, IInv
      <4> QED
        BY <4>1, <4>2
    <3> QED
      BY <3>1 DEF NewSafe, Late
  <2>5. (pc = "idle" => SaveIsAtomic /\ SuccessReplaces)'
    BY <1>a, LoadFrame DEF IInv, SuccessReplaces
  <2> QED
    BY <2>1, <2>2, <2>3, <2>4, <2>5 DEF IInv
<1>5. CASE f_close
  <2> USE <1>5 DEF f_close, Go, Return
  <2>1. TypeOK'
    BY DEF IInv, TypeOK, Phases, Sizes, Sectors, Entry, Absent, Names
  <2>2. (PathIsWhole /\ ResultSafe)'
    BY DEF IInv, TypeOK, PathIsWhole, ResultSafe, NewSafe, Late, Present, Absent, Names
  <2>3. PathSafe'
    BY DEF IInv, TypeOK, PathSafe, Early, Complete, Present, Names, Entry, Absent
  <2>4. (FileSafe /\ NewSafe)'
    <3>1. ASSUME pc' = "unlink"
          PROVE  /\ dir'["new"] = [chain |-> file.chain, size |-> "full", of |-> val]
                 /\ file.size = "full"
      BY <3>1 DEF IInv, TypeOK, Names
    <3>2. ASSUME pc' = "unlink" PROVE Complete("new")'
      <4>1. file.chain \in used' /\ data'[file.chain] = [of |-> val, whole |-> TRUE]
        BY <3>1, <3>2 DEF IInv, FileSafe
      <4>2. /\ dir'["new"].chain = file.chain /\ dir'["new"].of = val
            /\ dir'["new"].size = "full"
        BY <3>1, <3>2
      <4> HIDE <1>5
      <4> QED
        BY <4>1, <4>2 DEF Complete
    <3> QED
      BY <3>1, <3>2 DEF FileSafe, NewSafe, Late
  <2>5. (pc = "idle" => SaveIsAtomic /\ SuccessReplaces)'
    BY <1>a, LoadFrame DEF IInv, SuccessReplaces
  <2> QED
    BY <2>1, <2>2, <2>3, <2>4, <2>5 DEF IInv
<1>6. CASE abort_unlink
  <2> USE <1>6 DEF abort_unlink, Go, Return
  <2>1. TypeOK'
    BY DEF IInv, TypeOK, Phases, Sizes, Sectors, Entry, Absent, Names
  <2>2. (PathIsWhole /\ ResultSafe)'
    BY DEF IInv, TypeOK, PathIsWhole, ResultSafe, NewSafe, Late, Present, Absent, Names
  <2>3. PathSafe'
    <3>1. /\ dir'["path"] = dir["path"]
          /\ dir'["new"].chain \in {NoChain, dir["new"].chain}
          /\ dead' \in {dead, dir["new"].chain}
      BY DEF IInv, TypeOK, Names, Absent
    <3>2. pc \in Early
      BY DEF Early
    <3> QED
      BY <3>1, <3>2 DEF IInv, TypeOK, PathSafe, Complete, Present
  <2>4. (FileSafe /\ NewSafe)'
    BY DEF IInv, TypeOK, FileSafe, NewSafe, PathSafe, Early, Late, Complete, Present, Names, Entry, Absent
  <2>5. (pc = "idle" => SaveIsAtomic /\ SuccessReplaces)'
    BY <1>a, LoadFrame DEF IInv, SuccessReplaces
  <2> QED
    BY <2>1, <2>2, <2>3, <2>4, <2>5 DEF IInv
<1>7. CASE abort_remove_chain
  <2> USE <1>7 DEF abort_remove_chain, Go, Return
  <2>1. TypeOK'
    BY DEF IInv, TypeOK, Phases, Sizes, Sectors, Entry, Absent, Names
  <2>2. (PathIsWhole /\ ResultSafe)'
    BY DEF IInv, TypeOK, PathIsWhole, ResultSafe, NewSafe, Late, Present, Absent, Names
  <2>3. PathSafe'
    BY DEF IInv, TypeOK, PathSafe, Early, Complete, Present, Names, Entry, Absent
  <2>4. (FileSafe /\ NewSafe)'
    BY DEF IInv, TypeOK, FileSafe, NewSafe, PathSafe, Early, Late, Complete, Present, Names, Entry, Absent
  <2>5. (pc = "idle" => SaveIsAtomic /\ SuccessReplaces)'
    <3>1. begin.apart /\ begin.sound => Complete("path")' /\ dir'["path"].of = begin.of
      BY DEF IInv, PathSafe, Early, Complete, Present
    <3>2. SaveIsAtomic'
      BY <3>1, LoadPathNext DEF SaveIsAtomic
    <3> QED
      BY <3>2 DEF SuccessReplaces, IInv, ResultSafe
  <2> QED
    BY <2>1, <2>2, <2>3, <2>4, <2>5 DEF IInv
<1>8. CASE f_unlink
  <2> USE <1>8 DEF f_unlink, Go, Return
  <2>1. TypeOK'
    BY DEF IInv, TypeOK, Phases, Sizes, Sectors, Entry, Absent, Names
  <2>2. (PathIsWhole /\ ResultSafe)'
    BY DEF IInv, TypeOK, PathIsWhole, ResultSafe, NewSafe, Late, Present, Absent, Names
  <2>3. PathSafe'
    BY DEF IInv, TypeOK, PathSafe, Early, Complete, Present, Names, Entry, Absent
  <2>4. (FileSafe /\ NewSafe)'
    <3>1. dir'["new"] = dir["new"] /\ Complete("new")'
      BY DEF IInv, TypeOK, NewSafe, Late, Names, Complete
    <3>2. pc' = "unlink_chain" => dir'["path"] = Absent /\ dead' = dir["path"].chain
      BY DEF IInv, TypeOK, Names
    <3>3. pc' = "unlink_chain" /\ begin.apart => dead' # dir'["new"].chain
      BY <3>1, <3>2 DEF IInv, PathSafe, Early, Present
    <3> QED
      BY <3>1, <3>2, <3>3 DEF IInv, FileSafe, NewSafe, Late, Present, Absent
  <2>5. (pc = "idle" => SaveIsAtomic /\ SuccessReplaces)'
    BY <1>a, LoadFrame DEF IInv, SuccessReplaces
  <2> QED
    BY <2>1, <2>2, <2>3, <2>4, <2>5 DEF IInv
<1>9. CASE f_unlink_remove_chain
  <2> USE <1>9 DEF f_unlink_remove_chain, Go, Return
  <2>1. TypeOK'
    BY DEF IInv, TypeOK, Phases, Sizes, Sectors, Entry, Absent, Names
  <2>2. (PathIsWhole /\ ResultSafe)'
    BY DEF IInv, TypeOK, PathIsWhole, ResultSafe, NewSafe, Late, Present, Absent, Names
  <2>3. PathSafe'
    BY DEF IInv, TypeOK, PathSafe, Early, Complete, Present, Names, Entry, Absent
  <2>4. (FileSafe /\ NewSafe)'
    BY DEF IInv, TypeOK, FileSafe, NewSafe, PathSafe, Early, Late, Complete, Present, Names, Entry, Absent
  <2>5. (pc = "idle" => SaveIsAtomic /\ SuccessReplaces)'
    <3>1. /\ dir' = dir /\ ~Present("path") /\ dir["new"].of = val
          /\ begin.apart => Complete("new")'
      BY DEF IInv, NewSafe, Late, Complete
    <3>2. SaveIsAtomic'
      BY <3>1, LoadNewNext DEF SaveIsAtomic, Present
    <3> QED
      BY <3>2 DEF SuccessReplaces, IInv, ResultSafe
  <2> QED
    BY <2>1, <2>2, <2>3, <2>4, <2>5 DEF IInv
<1>10. CASE f_rename_register
  <2> USE <1>10 DEF f_rename_register, Go, Return
  <2>1. TypeOK'
    BY DEF IInv, TypeOK, Phases, Sizes, Sectors, Entry, Absent, Names
  <2>2. (PathIsWhole /\ ResultSafe)'
    BY DEF IInv, TypeOK, PathIsWhole, ResultSafe, NewSafe, Late, Present, Absent, Names
  <2>3. PathSafe'
    BY DEF IInv, TypeOK, PathSafe, Early, Complete, Present, Names, Entry, Absent
  <2>4. (FileSafe /\ NewSafe)'
    <3>1. pc' = "rename_remove" => dir'["new"] = dir["new"] /\ dir'["path"] = dir["new"]
      BY DEF IInv, TypeOK, Names
    <3>2. begin.apart => Complete("new")
      BY DEF IInv, NewSafe, Late
    <3> QED
      BY <3>1, <3>2 DEF IInv, FileSafe, NewSafe, Late, Complete
  <2>5. (pc = "idle" => SaveIsAtomic /\ SuccessReplaces)'
    BY <1>a, LoadFrame DEF IInv, SuccessReplaces
  <2> QED
    BY <2>1, <2>2, <2>3, <2>4, <2>5 DEF IInv
<1>11. CASE f_rename_remove
  <2> USE <1>11 DEF f_rename_remove, Go, Return
  <2>1. TypeOK'
    BY DEF IInv, TypeOK, Phases, Sizes, Sectors, Entry, Absent, Names
  <2>2. (PathIsWhole /\ ResultSafe)'
    BY DEF IInv, TypeOK, PathIsWhole, ResultSafe, NewSafe, Late, Present, Absent, Names
  <2>3. PathSafe'
    BY DEF IInv, TypeOK, PathSafe, Early, Complete, Present, Names, Entry, Absent
  <2>4. (FileSafe /\ NewSafe)'
    BY DEF IInv, TypeOK, FileSafe, NewSafe, PathSafe, Early, Late, Complete, Present, Names, Entry, Absent
  <2>5. (pc = "idle" => SaveIsAtomic /\ SuccessReplaces)'
    <3>1. dir'["path"] = dir["path"] /\ dir["path"].of = val
      BY DEF IInv, TypeOK, NewSafe, Late, Names
    <3>2. begin.apart => Complete("path")'
      BY <3>1 DEF IInv, NewSafe, Late, Complete
    <3>3. SaveIsAtomic'
      BY <3>1, <3>2, LoadPathNext DEF SaveIsAtomic
    <3> QED
      BY <3>1, <3>2, <3>3 DEF SuccessReplaces
  <2> QED
    BY <2>1, <2>2, <2>3, <2>4, <2>5 DEF IInv
<1>12. CASE PowerCut
  <2> USE <1>12 DEF PowerCut, Go, Return
  <2>1. TypeOK'
    BY DEF IInv, TypeOK, Phases, Sizes, Sectors, Entry, Absent, Names
  <2>2. (PathIsWhole /\ ResultSafe)'
    BY DEF IInv, TypeOK, PathIsWhole, ResultSafe, NewSafe, Late, Present, Absent, Names
  <2>3. PathSafe'
    BY DEF IInv, TypeOK, PathSafe, Early, Complete, Present, Names, Entry, Absent
  <2>4. (FileSafe /\ NewSafe)'
    BY DEF IInv, TypeOK, FileSafe, NewSafe, PathSafe, Early, Late, Complete, Present, Names, Entry, Absent
  <2>5. (pc = "idle" => SaveIsAtomic /\ SuccessReplaces)'
    BY <1>a, LoadFrame DEF IInv, SuccessReplaces
  <2> QED
    BY <2>1, <2>2, <2>3, <2>4, <2>5 DEF IInv
<1> QED
  BY <1>0, <1>1, <1>2, <1>3, <1>4, <1>5, <1>6, <1>7, <1>8, <1>9, <1>10, <1>11, <1>12 DEF SaveNext

\* storage_save never puts a partial file under path.
THEOREM PathIsWholeTheorem == SaveSpec => []PathIsWhole
<1>1. SaveSpec => []IInv
  BY InitIInv, NextIInv, PTL DEF SaveSpec
<1> QED
  BY <1>1, Consequences, PTL

\* A save over a sound path is atomic under I/O errors and power cuts.
THEOREM SaveIsAtomicTheorem == SaveSpec => []SaveIsAtomic
<1>1. SaveSpec => []IInv
  BY InitIInv, NextIInv, PTL DEF SaveSpec
<1> QED
  BY <1>1, Consequences, PTL

\* A save that reports success has replaced path.
THEOREM SuccessReplacesTheorem == SaveSpec => []SuccessReplaces
<1>1. SaveSpec => []IInv
  BY InitIInv, NextIInv, PTL DEF SaveSpec
<1> QED
  BY <1>1, Consequences, PTL

-----------------------------------------------------------------------------
(* storage_save implements AtomicFile.  Up to f_unlink(path) a load returns *)
(* the content that the save found; from the step that takes path away on   *)
(* it returns the new one.                                                  *)

\* What the abstract file stores is what storage_load holds, or nothing.
LEMMA StoredHolds ==
  ASSUME NEW v, Holds(v)
  PROVE  Stored = v
  BY DEF Holds, Stored

LEMMA StoredType == TypeOK => Stored \in Values \cup {NoChain}
  BY LoadValue DEF Stored

\* Where a save over a sound file stands: the old content before the unlink,
\* the new one after it.
Where ==
  begin.sound /\ begin.apart =>
    /\ pc \in Early => Stored = begin.of
    /\ pc \in Late \ Early => Stored = val

LEMMA WhereHolds == IInv => Where
<1> SUFFICES ASSUME IInv, begin.sound, begin.apart
             PROVE  /\ pc \in Early => Stored = begin.of
                    /\ pc \in Late \ Early => Stored = val
  BY DEF Where
<1>1. ASSUME pc \in Early PROVE Stored = begin.of
  BY <1>1, LoadPath, StoredHolds DEF IInv, PathSafe
<1>2. ASSUME pc \in Late \ Early PROVE Stored = val
  <2>1. CASE pc = "rename_remove"
    <3>1. Complete("path") /\ dir["path"].of = val
      BY <2>1 DEF IInv, NewSafe, Late, Complete
    <3> QED
      BY <3>1, LoadPath, StoredHolds
  <2>2. CASE pc \in {"unlink_chain", "rename"}
    <3>1. ~Present("path") /\ Complete("new") /\ dir["new"].of = val
      BY <2>2 DEF IInv, NewSafe, Late
    <3> QED
      BY <3>1, LoadNew, StoredHolds
  <2> QED
    BY <1>2, <2>1, <2>2 DEF Late, Early
<1> QED
  BY <1>1, <1>2

\* What a load returns depends on the volume alone.
LEMMA StoredFrame == ASSUME UNCHANGED <<dir, used, data>> PROVE Stored' = Stored
  BY DEF Stored, storage_load, load_one, Present, Complete

\* Once path is gone the new content stays, however the save ends.
LEMMA NewContentStays ==
  ASSUME IInv, SaveNext, begin.sound, begin.apart, pc \in Late \ Early, pc' = "idle"
  PROVE  Stored' = val
<1> USE DEF Late, Early
<1>1. Stored = val
  BY WhereHolds DEF Where
<1>2. CASE f_unlink_remove_chain
  <2>1. /\ dir' = dir /\ ~Present("path") /\ dir["new"].of = val
        /\ Complete("new")'
    BY <1>2 DEF f_unlink_remove_chain, IInv, NewSafe, Complete
  <2>2. Holds(val)'
    BY <1>2, <2>1, LoadNewNext DEF Present, f_unlink_remove_chain, Holds
  <2> QED
    BY <1>2, <2>2 DEF f_unlink_remove_chain, Holds, Stored
<1>3. CASE f_rename_register
  BY <1>1, <1>3, StoredFrame DEF f_rename_register, Go, Return
<1>4. CASE f_rename_remove
  <2>1. dir'["path"] = dir["path"] /\ dir["path"].of = val
    BY <1>4 DEF f_rename_remove, IInv, TypeOK, NewSafe, Names
  <2>2. Complete("path")'
    BY <1>4, <2>1 DEF f_rename_remove, IInv, NewSafe, Complete
  <2>3. Holds(val)'
    BY <1>4, <2>1, <2>2, LoadPathNext DEF f_rename_remove, Holds
  <2> QED
    BY <1>4, <2>3 DEF f_rename_remove, Holds, Stored
<1>5. CASE PowerCut
  BY <1>1, <1>5, StoredFrame DEF PowerCut
<1> QED
  BY <1>2, <1>3, <1>4, <1>5
  DEF SaveNext, Begin, f_open, f_open_remove_chain, f_write, f_close, abort_unlink,
      abort_remove_chain, f_unlink, Go

\* What every step of a running save has in common.
LEMMA SaveStep ==
  ASSUME IInv, SaveNext, pc # "idle"
  PROVE  /\ UNCHANGED <<val, begin>>
         /\ pc' # "idle" => result' = result
         /\ pc' = "idle" => result' \in {"ok", "EIO", "cut"}
         /\ pc' \in Early => pc \in Early
  BY DEF SaveNext, Begin, f_open, f_open_remove_chain, f_write, f_close, abort_unlink,
      abort_remove_chain, f_unlink, f_unlink_remove_chain, f_rename_register,
      f_rename_remove, PowerCut, Go, Return, Early

\* A step of a save over a sound file leaves what a load returns, or replaces
\* it by the new content.
LEMMA SoundStep ==
  ASSUME IInv, IInv', SaveNext, pc # "idle", begin.sound, begin.apart
  PROVE  /\ Stored' = Stored \/ Stored' = val
         /\ pc' = "idle" /\ result' = "ok" => Stored' = val
<1>1. UNCHANGED <<val, begin>>
  BY SaveStep
<1>2. Where /\ Where'
  <2>1. IInv' => Where'
    BY WhereHolds, PTL
  <2> QED
    BY <2>1, WhereHolds
<1>3. pc \in Early \/ pc \in Late \ Early
  BY DEF IInv, TypeOK, Phases, Early, Late
<1>4. (PathIsWhole /\ SaveIsAtomic /\ SuccessReplaces)'
  <2>1. IInv' => (PathIsWhole /\ SaveIsAtomic /\ SuccessReplaces)'
    BY Consequences, PTL
  <2> QED
    BY <2>1
<1>5. CASE pc' = "idle"
  <2>1. CASE pc \in Early
    <3>1. Stored = begin.of
      BY <1>2, <2>1 DEF Where
    <3>2. Holds(begin.of)' \/ Holds(val)'
      BY <1>1, <1>4 DEF SaveIsAtomic
    <3>3. Stored' \in {begin.of, val}
      BY <1>1, <3>2 DEF Holds, Stored
    <3>4. result' = "ok" => Stored' = val
      <4> SUFFICES ASSUME result' = "ok" PROVE Stored' = val
        OBVIOUS
      <4>1. Complete("path")' /\ dir'["path"].of = val
        BY <1>1, <1>4 DEF SuccessReplaces
      <4>2. Holds(val)'
        BY <1>1, <4>1, LoadPathNext DEF Holds
      <4> QED
        BY <1>1, <4>2 DEF Holds, Stored
    <3> QED
      BY <3>1, <3>3, <3>4
  <2>2. CASE pc \in Late \ Early
    BY <1>5, <2>2, NewContentStays
  <2> QED
    BY <1>3, <2>1, <2>2
<1>6. CASE pc' # "idle"
  <2>1. CASE pc' \in Early
    BY <1>1, <1>2, <1>6, <2>1, SaveStep DEF Where
  <2>2. CASE pc' \in Late \ Early
    BY <1>1, <1>2, <1>6, <2>2 DEF Where
  <2>3. pc' \in Early \/ pc' \in Late \ Early
    BY <1>6 DEF IInv, TypeOK, Phases, Early, Late
  <2> QED
    BY <2>1, <2>2, <2>3, <1>6
<1> QED
  BY <1>5, <1>6

\* Every step of storage_save is a step of AtomicFile, or leaves it alone.
LEMMA NextRefines ==
  ASSUME IInv, IInv', [SaveNext]_save_vars
  PROVE  [Abstract!AtomicNext]_(Abstract!file_vars)
<1>0. CASE UNCHANGED save_vars
  BY <1>0, StoredFrame DEF save_vars, Abstract!file_vars
<1>1. ASSUME NEW v \in Values, Begin(v) PROVE Abstract!Ask(v)
  <2>1. Stored' = Stored
    BY <1>1, StoredFrame DEF Begin
  <2>2. (begin.sound /\ begin.apart)' => Stored \in Values
    <3> SUFFICES ASSUME Complete("path") PROVE Stored \in Values
      BY <1>1 DEF Begin
    <3>1. Stored = dir["path"].of
      BY LoadPath, StoredHolds
    <3> QED
      BY <3>1 DEF IInv, TypeOK, Complete, Names, Entry, Absent
  <2>3. (begin.sound /\ begin.apart)' \in BOOLEAN
    BY DEF IInv, TypeOK
  <2> QED
    BY <1>1, <2>1, <2>2, <2>3 DEF Begin, Go, Abstract!Ask
<1>2. ASSUME SaveNext, pc # "idle"
      PROVE  Abstract!Work \/ Abstract!Finish \/ UNCHANGED Abstract!file_vars
  <2>1. /\ UNCHANGED <<val, begin>>
        /\ pc' # "idle" => result' = result
        /\ pc' = "idle" => result' \in {"ok", "EIO", "cut"}
    BY <1>2, SaveStep
  <2>2. Stored' \in Values \cup {NoChain}
    <3>1. TypeOK' => (Stored \in Values \cup {NoChain})'
      BY StoredType, PTL
    <3> QED
      BY <3>1 DEF IInv
  <2>3. begin.sound /\ begin.apart =>
          /\ Stored' = Stored \/ Stored' = val
          /\ pc' = "idle" /\ result' = "ok" => Stored' = val
    BY <1>2, SoundStep
  <2>4. CASE pc' = "idle"
    <3>1. Abstract!Finish
      BY <1>2, <2>1, <2>2, <2>3, <2>4
      DEF Abstract!Finish, Abstract!Replace, Abstract!Disturb
    <3> QED
      BY <3>1
  <2>5. CASE pc' # "idle"
    <3>1. begin.sound /\ begin.apart /\ Stored' = Stored => UNCHANGED Abstract!file_vars
      BY <1>2, <2>1, <2>5 DEF Abstract!file_vars
    <3>2. (begin.sound /\ begin.apart => Stored' = val) => Abstract!Work
      BY <1>2, <2>1, <2>2, <2>5 DEF Abstract!Work, Abstract!Replace, Abstract!Disturb
    <3> QED
      BY <2>3, <3>1, <3>2
  <2> QED
    BY <2>4, <2>5
<1>3. SaveNext => pc # "idle" \/ \E v \in Values : Begin(v)
  BY DEF SaveNext, f_open, f_open_remove_chain, f_write, f_close, abort_unlink,
      abort_remove_chain, f_unlink, f_unlink_remove_chain, f_rename_register,
      f_rename_remove, PowerCut
<1> QED
  BY <1>0, <1>1, <1>2, <1>3 DEF Abstract!AtomicNext

LEMMA InitRefines == SaveInit => Abstract!AtomicInit
<1> SUFFICES ASSUME SaveInit PROVE Abstract!AtomicInit
  OBVIOUS
<1>1. TypeOK
  BY InitIInv DEF IInv
<1>2. Stored \in Values \cup {NoChain}
  BY <1>1, StoredType
<1>3. val \in Values /\ pc = "idle" /\ ~begin.sound /\ result = "none"
  BY DEF SaveInit
<1> QED
  BY <1>2, <1>3 DEF Abstract!AtomicInit

\* storage_save implements the atomic file, for every set of contents and
\* chains: a reader, or a power cut at any point of the save, sees the old
\* content or the new one, changed at one moment.
THEOREM SaveImplementsFileTheorem == SaveSpec => SaveImplementsFile
<1>1. SaveSpec => []IInv
  BY InitIInv, NextIInv, PTL DEF SaveSpec
<1>2. IInv /\ IInv' /\ [SaveNext]_save_vars => [Abstract!AtomicNext]_(Abstract!file_vars)
  BY NextRefines
<1> QED
  BY <1>1, <1>2, InitRefines, PTL DEF SaveSpec, SaveImplementsFile, Abstract!AtomicSpec

-----------------------------------------------------------------------------
(* Settings.  Induction runs over sets: the theorems of the library that   *)
(* take a predicate cannot be instantiated, but a set of naturals that is  *)
(* not empty has a least element.                                          *)

\* A set of naturals that is not empty has a least element.
LEMMA NatSetMin ==
  ASSUME NEW T, T \subseteq Nat, T # {}
  PROVE  \E x \in T : \A y \in T : x <= y
<1>1. PICK x \in T : \A y \in T : ~ (<<y, x>> \in OpToRel(<, Nat))
  BY NatLessThanWellFounded, WFMin
<1>2. \A y \in T : ~(y < x)
  BY <1>1 DEF OpToRel
<1>3. x \in Nat /\ \A y \in T : y \in Nat
  BY <1>1
<1>4. \A y \in T : x <= y
  BY <1>2, <1>3
<1> QED
  BY <1>1, <1>4

\* Induction up to a bound, with a set for the predicate.
LEMMA UpToInduction ==
  ASSUME NEW n \in Nat, NEW T, 0 \in T, \A i \in 1 .. n : i - 1 \in T => i \in T
  PROVE  \A i \in 0 .. n : i \in T
<1> DEFINE C == {i \in 0 .. n : i \notin T}
<1> SUFFICES ASSUME C # {} PROVE FALSE
  OBVIOUS
<1>0. C \subseteq Nat
  OBVIOUS
<1>1. PICK x \in C : \A y \in C : x <= y
  <2> HIDE DEF C
  <2> QED
    BY <1>0, NatSetMin
<1>2. x \in 1 .. n /\ x - 1 \in 0 .. n /\ ~(x <= x - 1)
  BY <1>1
<1>3. x - 1 \in T
  BY <1>1, <1>2
<1> QED
  BY <1>1, <1>2, <1>3

\* A bounded set of naturals that is not empty has a greatest element.
LEMMA HasMax ==
  ASSUME NEW n \in Nat, NEW X, X \subseteq 1 .. n, X # {}
  PROVE  \E j \in X : \A k \in X : k <= j
<1> DEFINE Y == {n - j : j \in X}
<1>1. Y \subseteq Nat /\ Y # {}
  <2>1. PICK e \in X : TRUE
    OBVIOUS
  <2>2. n - e \in Y
    OBVIOUS
  <2>3. \A j \in 1 .. n : n - j \in Nat
    OBVIOUS
  <2> QED
    BY <2>2, <2>3
<1>2. PICK y \in Y : \A z \in Y : y <= z
  <2> HIDE DEF Y
  <2> QED
    BY <1>1, NatSetMin
<1>3. PICK j \in X : y = n - j
  BY <1>2
<1>4. ASSUME NEW k \in X PROVE k <= j
  <2>1. n - j <= n - k
    BY <1>2, <1>3
  <2>2. k \in Nat /\ j \in Nat
    OBVIOUS
  <2> QED
    BY <2>1, <2>2
<1> QED
  BY <1>4

\* The function that is a at 0 and goes on with the step F.
Iterated(g, n, a, F) == g = [i \in 0 .. n |-> IF i = 0 THEN a ELSE F[<<i, g[i - 1]>>]]

\* It exists.
LEMMA Iterates ==
  ASSUME NEW n \in Nat, NEW S, NEW a \in S, NEW F \in [(1 .. n) \X S -> S]
  PROVE  \E g \in [0 .. n -> S] : Iterated(g, n, a, F)
<1> DEFINE Is(g, k) == g[0] = a /\ \A i \in 1 .. k : g[i] = F[<<i, g[i - 1]>>]
           T == {k \in 0 .. n : \E g \in [0 .. k -> S] : Is(g, k)}
<1>1. 0 \in T
  <2> DEFINE g == [i \in 0 .. 0 |-> a]
  <2>1. g \in [0 .. 0 -> S] /\ g[0] = a /\ 0 \in 0 .. n
    OBVIOUS
  <2>2. Is(g, 0)
    BY <2>1
  <2> HIDE DEF g
  <2> QED
    BY <2>1, <2>2
<1>2. ASSUME NEW k \in 1 .. n, k - 1 \in T PROVE k \in T
  <2>1. PICK g \in [0 .. k - 1 -> S] : Is(g, k - 1)
    BY <1>2
  <2> DEFINE h == [i \in 0 .. k |-> IF i <= k - 1 THEN g[i] ELSE F[<<k, g[k - 1]>>]]
  <2>2. g[k - 1] \in S
    OBVIOUS
  <2>3. F[<<k, g[k - 1]>>] \in S
    BY <2>2
  <2>4. h \in [0 .. k -> S]
    BY <2>3
  <2>5. ASSUME NEW i \in 1 .. k PROVE h[i] = F[<<i, h[i - 1]>>]
    <3>1. h[i - 1] = g[i - 1]
      OBVIOUS
    <3>2. CASE i <= k - 1
      <4>1. i \in 1 .. k - 1 /\ h[i] = g[i]
        BY <3>2
      <4>2. g[i] = F[<<i, g[i - 1]>>]
        BY <4>1, <2>1
      <4> QED
        BY <4>1, <4>2, <3>1
    <3>3. CASE i = k
      <4>1. h[i] = F[<<k, g[k - 1]>>]
        BY <3>3
      <4> QED
        BY <4>1, <3>1, <3>3
    <3> QED
      BY <3>2, <3>3
  <2>6. h[0] = a
    BY <2>1
  <2> HIDE DEF h
  <2> QED
    BY <2>4, <2>5, <2>6
<1>3. n \in T
  <2> HIDE DEF T
  <2>1. \A i \in 0 .. n : i \in T
    BY <1>1, <1>2, UpToInduction
  <2> QED
    BY <2>1
<1>4. PICK g \in [0 .. n -> S] : Is(g, n)
  BY <1>3
<1>5. ASSUME NEW i \in 0 .. n PROVE g[i] = IF i = 0 THEN a ELSE F[<<i, g[i - 1]>>]
  BY <1>4
<1>6. g = [i \in 0 .. n |-> g[i]]
  OBVIOUS
<1>7. g = [i \in 0 .. n |-> IF i = 0 THEN a ELSE F[<<i, g[i - 1]>>]]
  BY <1>5, <1>6
<1> QED
  BY <1>7 DEF Iterated

-----------------------------------------------------------------------------
(* What a file says, a line at a time.                                     *)

\* The section of a line is that of the line above, unless that is a header.
LEMMA SectionStep ==
  ASSUME NEW lines, NEW i \in Nat \ {0}
  PROVE  /\ SectionOf(lines, 1) = Unnamed
         /\ SectionOf(lines, i + 1) = IF lines[i].kind = "header" THEN lines[i].section ELSE SectionOf(lines, i)
<1> DEFINE above(k) == {j \in 1 .. k - 1 : lines[j].kind = "header"}
<1>0. \A k : SectionOf(lines, k) =
        IF above(k) = {} THEN Unnamed ELSE lines[CHOOSE j \in above(k) : \A m \in above(k) : m <= j].section
  BY DEF SectionOf
<1>1. above(1) = {}
  OBVIOUS
<1>2. CASE lines[i].kind = "header"
  <2>1. i \in above(i + 1) /\ \A j \in above(i + 1) : j <= i /\ j \in Nat
    BY <1>2
  <2>2. above(i + 1) # {}
    BY <2>1
  <2>3. (CHOOSE j \in above(i + 1) : \A k \in above(i + 1) : k <= j) = i
    <3> HIDE DEF above
    <3> QED
      BY <2>1
  <2> QED
    BY <1>0, <1>1, <1>2, <2>2, <2>3
<1>3. CASE lines[i].kind # "header"
  <2>1. above(i + 1) = above(i)
    BY <1>3
  <2> QED
    <3> HIDE DEF above
    <3>1. SectionOf(lines, i + 1) = SectionOf(lines, i) /\ SectionOf(lines, 1) = Unnamed
      BY <1>0, <1>1, <2>1
    <3> QED
      BY <1>3, <3>1
<1> QED
  BY <1>2, <1>3

\* What the first k lines say of a key.
SaysTo(lines, k, s, n) ==
  LET at == {i \in LinesOf(lines, s, n) : i <= k}
  IN IF at = {} THEN {} ELSE {lines[CHOOSE i \in at : \A j \in at : j <= i].value}

IsLineOf(lines, k, s, n) == lines[k].kind = "key" /\ lines[k].name = n /\ SectionOf(lines, k) = s

\* A line more of what the first lines say.
LEMMA SaysStep ==
  ASSUME NEW lines, NEW S, lines \in Seq(S), NEW s, NEW n, NEW k \in 1 .. Len(lines)
  PROVE  /\ SaysTo(lines, 0, s, n) = {}
         /\ SaysTo(lines, Len(lines), s, n) = Says(lines, s, n)
         /\ SaysTo(lines, k, s, n) = IF IsLineOf(lines, k, s, n) THEN {lines[k].value} ELSE SaysTo(lines, k - 1, s, n)
<1> DEFINE at(m) == {i \in LinesOf(lines, s, n) : i <= m}
<1>1. LinesOf(lines, s, n) \subseteq 1 .. Len(lines)
  BY DEF LinesOf
<1>2. at(0) = {} /\ at(Len(lines)) = LinesOf(lines, s, n)
  BY <1>1
<1>3. k \in LinesOf(lines, s, n) <=> IsLineOf(lines, k, s, n)
  BY DEF LinesOf, IsLineOf
<1>4. CASE IsLineOf(lines, k, s, n)
  <2>1. k \in at(k) /\ \A j \in at(k) : j <= k /\ j \in Nat
    BY <1>1, <1>3, <1>4
  <2>2. (CHOOSE i \in at(k) : \A j \in at(k) : j <= i) = k
    <3> HIDE DEF at
    <3> QED
      BY <2>1
  <2>3. SaysTo(lines, k, s, n) = {lines[k].value}
    BY <2>1, <2>2 DEF SaysTo
  <2> QED
    BY <1>2, <2>3, <1>4 DEF SaysTo, Says
<1>5. CASE ~IsLineOf(lines, k, s, n)
  <2>1. at(k) = at(k - 1)
    BY <1>1, <1>3, <1>5
  <2> QED
    BY <1>2, <2>1, <1>5 DEF SaysTo, Says
<1> QED
  BY <1>4, <1>5

\* A line more in a text.
LEMMA SaysAppend ==
  ASSUME NEW t \in Seq(Lines), NEW l \in Lines, NEW s, NEW n
  PROVE  /\ SectionOf(Append(t, l), Len(t) + 1) = SectionOf(t, Len(t) + 1)
         /\ SectionOf(Append(t, l), Len(t) + 2) =
              IF l.kind = "header" THEN l.section ELSE SectionOf(t, Len(t) + 1)
         /\ Says(Append(t, l), s, n) =
              IF l.kind = "key" /\ l.name = n /\ SectionOf(t, Len(t) + 1) = s THEN {l.value} ELSE Says(t, s, n)
<1> DEFINE u == Append(t, l)
           m == Len(t) + 1
<1>1. u \in Seq(Lines) /\ Len(u) = m /\ u[m] = l /\ m \in Nat \ {0} /\ m \in 1 .. Len(u)
  OBVIOUS
<1>2. \A i \in 1 .. Len(t) : u[i] = t[i]
  OBVIOUS
<1> HIDE DEF u
<1>3. ASSUME NEW i \in 1 .. m PROVE SectionOf(u, i) = SectionOf(t, i)
  <2>1. {j \in 1 .. i - 1 : u[j].kind = "header"} = {j \in 1 .. i - 1 : t[j].kind = "header"}
    BY <1>2
  <2> DEFINE X == {j \in 1 .. i - 1 : t[j].kind = "header"}
  <2>0. X \subseteq 1 .. Len(t) /\ Len(t) \in Nat
    OBVIOUS
  <2>3. X # {} => \E j \in X : \A k \in X : k <= j
    <3> HIDE DEF X
    <3> QED
      BY <2>0, HasMax
  <2>4. CASE X = {}
    BY <2>1, <2>4 DEF SectionOf
  <2>5. CASE X # {}
    <3> DEFINE c == CHOOSE j \in X : \A k \in X : k <= j
    <3>1. c \in 1 .. Len(t)
      <4> HIDE DEF X
      <4> QED
        BY <2>0, <2>3, <2>5
    <3>2. SectionOf(u, i) = u[c].section /\ SectionOf(t, i) = t[c].section
      BY <2>1, <2>5 DEF SectionOf
    <3> QED
      BY <3>1, <3>2, <1>2
  <2> QED
    BY <2>4, <2>5
<1>4. SectionOf(u, m) = SectionOf(t, m)
  BY <1>1, <1>3
<1>5. SectionOf(u, m + 1) = IF l.kind = "header" THEN l.section ELSE SectionOf(t, m)
  BY <1>1, <1>4, SectionStep
<1>6. SaysTo(u, m - 1, s, n) = Says(t, s, n)
  <2> DEFINE X == LinesOf(t, s, n)
  <2>1. {i \in LinesOf(u, s, n) : i <= m - 1} = X
    <3>1. \A i \in 1 .. m - 1 : i \in LinesOf(u, s, n) <=> i \in X
      BY <1>1, <1>2, <1>3 DEF LinesOf
    <3>2. X \subseteq 1 .. m - 1 /\ LinesOf(u, s, n) \subseteq 1 .. m /\ m \in Nat
      BY <1>1 DEF LinesOf
    <3>3. \A i \in 1 .. m : i <= m - 1 <=> i \in 1 .. m - 1
      BY <1>1
    <3> HIDE DEF X, m
    <3> QED
      BY <3>1, <3>2, <3>3
  <2>2. X # {} => \E j \in X : \A k \in X : k <= j
    <3>0. X \subseteq 1 .. Len(t) /\ Len(t) \in Nat
      BY DEF LinesOf
    <3> HIDE DEF X
    <3> QED
      BY <3>0, HasMax
  <2>3. CASE X = {}
    BY <2>1, <2>3 DEF SaysTo, Says
  <2>4. CASE X # {}
    <3> DEFINE c == CHOOSE j \in X : \A k \in X : k <= j
    <3>1. c \in X
      BY <2>2, <2>4
    <3>2. c \in 1 .. Len(t)
      BY <3>1 DEF LinesOf
    <3>3. SaysTo(u, m - 1, s, n) = {u[c].value} /\ Says(t, s, n) = {t[c].value}
      BY <2>1, <2>4 DEF SaysTo, Says
    <3> QED
      BY <3>2, <3>3, <1>2
  <2> QED
    BY <2>3, <2>4
<1>7. IsLineOf(u, m, s, n) <=> l.kind = "key" /\ l.name = n /\ SectionOf(t, m) = s
  BY <1>1, <1>4 DEF IsLineOf
<1>8. Says(u, s, n) = IF IsLineOf(u, m, s, n) THEN {l.value} ELSE Says(t, s, n)
  BY <1>1, <1>6, SaysStep
<1>9. m + 1 = Len(t) + 2
  OBVIOUS
<1> QED
  BY <1>4, <1>5, <1>7, <1>8, <1>9 DEF u

-----------------------------------------------------------------------------
(* The table.                                                              *)

KeyRecs == [section : Sections, name : KeyNames, value : Texts]

\* A table that can be written: no key twice, and the keys without a section
\* not behind others.
Distinct(ks) ==
  \A i, j \in 1 .. Len(ks) : ks[i].section = ks[j].section /\ ks[i].name = ks[j].name => i = j
UnnamedFirst(ks) == \A i \in 1 .. Len(ks) : ks[i].section = Unnamed => ks[1].section = Unnamed
Table(ks) == ks \in Seq(KeyRecs) /\ Distinct(ks) /\ UnnamedFirst(ks)

\* A table is a sequence.
LEMMA TableType ==
  ASSUME NEW ks, Table(ks)
  PROVE  ks \in Seq(KeyRecs) /\ DOMAIN ks = 1 .. Len(ks) /\ Len(ks) \in Nat
<1>1. ks \in Seq(KeyRecs)
  BY DEF Table
<1> QED
  BY <1>1

\* Key i of a table is (s, n).
Is(ks, i, s, n) == ks[i].section = s /\ ks[i].name = n

\* A key is found where it is.
LEMMA GetIs ==
  ASSUME NEW ks, Table(ks), NEW i \in 1 .. Len(ks), NEW s, NEW n, Is(ks, i, s, n)
  PROVE  Found(ks, s, n) # {} /\ find(ks, s, n) = i /\ get(ks, s, n) = {ks[i].value}
<1>1. DOMAIN ks = 1 .. Len(ks)
  BY TableType
<1>2. Found(ks, s, n) = {i}
  BY <1>1 DEF Found, Table, Distinct, Is
<1>3. find(ks, s, n) = i
  BY <1>2 DEF find
<1> QED
  BY <1>2, <1>3 DEF get

\* And is not found where it is not.
LEMMA GetNone ==
  ASSUME NEW ks, Table(ks), NEW s, NEW n, \A i \in 1 .. Len(ks) : ~Is(ks, i, s, n)
  PROVE  Found(ks, s, n) = {} /\ get(ks, s, n) = {}
<1>1. DOMAIN ks = 1 .. Len(ks)
  BY TableType
<1>2. Found(ks, s, n) = {}
  BY <1>1 DEF Found, Is
<1> QED
  BY <1>2 DEF get

\* The empty table can be written and has no key.
LEMMA EmptyTable == Table(<<>>) /\ \A s, n : get(<<>>, s, n) = {}
<1>1. Table(<<>>)
  BY DEF Table, Distinct, UnnamedFirst
<1> QED
  BY <1>1, GetNone

\* A new value for a key that is there.
LEMMA SetThere ==
  ASSUME NEW ks, Table(ks), NEW i \in 1 .. Len(ks), NEW s, NEW n, Is(ks, i, s, n), NEW v \in Texts,
         NEW ls, ls = set(ks, s, n, v)
  PROVE  /\ Table(ls) /\ Len(ls) = Len(ks)
         /\ \A j \in 1 .. Len(ks) : ls[j].section = ks[j].section /\ ls[j].name = ks[j].name
         /\ \A t, m : get(ls, t, m) = IF t = s /\ m = n THEN {v} ELSE get(ks, t, m)
<1>0. Found(ks, s, n) # {} /\ find(ks, s, n) = i
  BY GetIs
<1>1. ls = [ks EXCEPT ![i].value = v]
  BY <1>0 DEF set
<1>2. ks \in Seq(KeyRecs)
  BY TableType
<1>3. ks[i] \in KeyRecs
  BY <1>2
<1>4. [ks[i] EXCEPT !.value = v] \in KeyRecs
  BY <1>3 DEF KeyRecs
<1>5. ls \in Seq(KeyRecs) /\ Len(ls) = Len(ks)
  BY <1>1, <1>2, <1>4
<1>6. \A j \in 1 .. Len(ks) : ls[j] = IF j = i THEN [ks[i] EXCEPT !.value = v] ELSE ks[j]
  BY <1>1, <1>2
<1>7. ASSUME NEW j \in 1 .. Len(ks)
      PROVE  ls[j].section = ks[j].section /\ ls[j].name = ks[j].name /\ ls[j].value = IF j = i THEN v ELSE ks[j].value
  BY <1>3, <1>6 DEF KeyRecs
<1>8. Table(ls)
  BY <1>5, <1>7 DEF Table, Distinct, UnnamedFirst
<1>9. ASSUME NEW t, NEW m PROVE get(ls, t, m) = IF t = s /\ m = n THEN {v} ELSE get(ks, t, m)
  <2>1. CASE \E j \in 1 .. Len(ks) : Is(ks, j, t, m)
    <3>1. PICK j \in 1 .. Len(ks) : Is(ks, j, t, m)
      BY <2>1
    <3>2. Is(ls, j, t, m) /\ j \in 1 .. Len(ls)
      BY <3>1, <1>5, <1>7 DEF Is
    <3>3. get(ls, t, m) = {ls[j].value} /\ get(ks, t, m) = {ks[j].value}
      BY <3>1, <3>2, <1>8, GetIs
    <3>4. (t = s /\ m = n) <=> j = i
      BY <3>1 DEF Is, Table, Distinct
    <3> QED
      BY <3>3, <3>4, <1>7
  <2>2. CASE ~\E j \in 1 .. Len(ks) : Is(ks, j, t, m)
    <3>1. \A j \in 1 .. Len(ls) : ~Is(ls, j, t, m)
      BY <2>2, <1>5, <1>7 DEF Is
    <3>2. get(ls, t, m) = {} /\ get(ks, t, m) = {}
      BY <2>2, <3>1, <1>8, GetNone
    <3>3. ~(t = s /\ m = n)
      BY <2>2
    <3> QED
      BY <3>2, <3>3
  <2> QED
    BY <2>1, <2>2
<1> QED
  BY <1>5, <1>7, <1>8, <1>9

\* A key that is new, in a table with room.
LEMMA SetNew ==
  ASSUME NEW ks, Table(ks), NEW s \in Sections, NEW n \in KeyNames \ {Long}, NEW v \in Texts,
         \A i \in 1 .. Len(ks) : ~Is(ks, i, s, n), Len(ks) # KEYS_MAX,
         s = Unnamed => \A i \in 1 .. Len(ks) : ks[i].section = Unnamed,
         NEW ls, ls = set(ks, s, n, v)
  PROVE  /\ Table(ls) /\ Len(ls) = Len(ks) + 1
         /\ \A j \in 1 .. Len(ks) : ls[j] = ks[j]
         /\ Is(ls, Len(ks) + 1, s, n)
         /\ \A t, m : get(ls, t, m) = IF t = s /\ m = n THEN {v} ELSE get(ks, t, m)
<1> DEFINE k == Key(s, n, v)
           l == Len(ks) + 1
<1>1. ls = Append(ks, k)
  BY GetNone DEF set, trunc
<1>2. ks \in Seq(KeyRecs) /\ k \in KeyRecs /\ k.section = s /\ k.name = n /\ k.value = v
  BY TableType DEF Key, KeyRecs
<1> HIDE DEF k
<1>3. ls \in Seq(KeyRecs) /\ Len(ls) = l /\ ls[l] = k /\ l \in 1 .. Len(ls) /\ Len(ks) \in Nat
  BY <1>1, <1>2
<1>4. \A j \in 1 .. Len(ks) : ls[j] = ks[j]
  BY <1>1, <1>2
<1>5. Is(ls, l, s, n)
  BY <1>2, <1>3 DEF Is
<1>6. \A j \in 1 .. Len(ls) : j = l \/ (j \in 1 .. Len(ks) /\ ls[j] = ks[j])
  BY <1>3, <1>4
<1>7. Table(ls)
  <2>1. ASSUME NEW i \in 1 .. Len(ls), NEW j \in 1 .. Len(ls), ls[i].section = ls[j].section, ls[i].name = ls[j].name
        PROVE  i = j
    BY <2>1, <1>2, <1>3, <1>6 DEF Table, Distinct, UnnamedFirst, Is
  <2>2. ASSUME NEW i \in 1 .. Len(ls), ls[i].section = Unnamed PROVE ls[1].section = Unnamed
    <3>1. CASE Len(ks) = 0
      BY <3>1, <2>2, <1>3
    <3>2. CASE Len(ks) # 0
      <4>1. 1 \in 1 .. Len(ks) /\ ls[1] = ks[1]
        BY <3>2, <1>3, <1>4
      <4> QED
        BY <4>1, <2>2, <1>2, <1>3, <1>6 DEF Table, Distinct, UnnamedFirst
    <3> QED
      BY <3>1, <3>2
  <2> QED
    BY <1>3, <2>1, <2>2 DEF Table, Distinct, UnnamedFirst
<1>8. ASSUME NEW t, NEW m PROVE get(ls, t, m) = IF t = s /\ m = n THEN {v} ELSE get(ks, t, m)
  <2>1. CASE t = s /\ m = n
    BY <2>1, <1>2, <1>3, <1>5, <1>7, GetIs
  <2>2. CASE ~(t = s /\ m = n) /\ \E j \in 1 .. Len(ks) : Is(ks, j, t, m)
    <3>1. PICK j \in 1 .. Len(ks) : Is(ks, j, t, m)
      BY <2>2
    <3>2. Is(ls, j, t, m) /\ j \in 1 .. Len(ls)
      BY <3>1, <1>3, <1>4 DEF Is
    <3>3. get(ls, t, m) = {ls[j].value} /\ get(ks, t, m) = {ks[j].value}
      BY <3>1, <3>2, <1>7, GetIs
    <3> QED
      BY <3>3, <2>2, <1>4
  <2>3. CASE ~(t = s /\ m = n) /\ ~\E j \in 1 .. Len(ks) : Is(ks, j, t, m)
    <3>1. \A j \in 1 .. Len(ls) : ~Is(ls, j, t, m)
      BY <2>3, <1>2, <1>3, <1>6 DEF Is
    <3>2. get(ls, t, m) = {} /\ get(ks, t, m) = {}
      BY <2>3, <3>1, <1>7, GetNone
    <3> QED
      BY <3>2, <2>3
  <2> QED
    BY <2>1, <2>2, <2>3
<1> QED
  BY <1>3, <1>4, <1>5, <1>7, <1>8

\* A full table drops a new key.
LEMMA SetFull ==
  ASSUME NEW ks, Table(ks), NEW s, NEW n, NEW v, \A i \in 1 .. Len(ks) : ~Is(ks, i, s, n), Len(ks) = KEYS_MAX
  PROVE  set(ks, s, n, v) = ks
  BY GetNone DEF set

\* A key is removed, and the ones behind it move up.
LEMMA UnsetKeeps ==
  ASSUME NEW ks, Table(ks), NEW s, NEW n, s # Unnamed, NEW ls, ls = unset(ks, s, n)
  PROVE  Table(ls) /\ \A t, m : ~(t = s /\ m = n) => get(ls, t, m) = get(ks, t, m)
<1>1. CASE \A i \in 1 .. Len(ks) : ~Is(ks, i, s, n)
  BY <1>1, GetNone DEF unset
<1>2. CASE \E i \in 1 .. Len(ks) : Is(ks, i, s, n)
  <2>1. PICK i \in 1 .. Len(ks) : Is(ks, i, s, n)
    BY <1>2
  <2> DEFINE old(j) == IF j < i THEN j ELSE j + 1
  <2>2. ls = [j \in 1 .. Len(ks) - 1 |-> ks[old(j)]]
    BY <2>1, GetIs DEF unset
  <2>3. ks \in Seq(KeyRecs) /\ Len(ks) \in Nat
    BY TableType
  <2>4. \A j \in 1 .. Len(ks) - 1 : old(j) \in 1 .. Len(ks) /\ old(j) # i
    BY <2>3
  <2>5. \A j, k \in 1 .. Len(ks) - 1 : old(j) = old(k) => j = k
    BY <2>3
  <2>6. \A j \in 1 .. Len(ks) : j # i => \E k \in 1 .. Len(ks) - 1 : j = old(k)
    <3> SUFFICES ASSUME NEW j \in 1 .. Len(ks), j # i PROVE \E k \in 1 .. Len(ks) - 1 : j = old(k)
      OBVIOUS
    <3> DEFINE k == IF j < i THEN j ELSE j - 1
    <3>1. k \in 1 .. Len(ks) - 1 /\ j = old(k)
      BY <2>3
    <3> QED
      BY <3>1
  <2>7. Len(ks) # 0 /\ i # 1 => 1 \in 1 .. Len(ks) - 1 /\ old(1) = 1
    BY <2>3
  <2>8. Len(ks) - 1 \in Nat
    BY <2>3
  <2> HIDE DEF old
  <2>9. ls \in Seq(KeyRecs) /\ Len(ls) = Len(ks) - 1
    BY <2>2, <2>3, <2>4, <2>8
  <2>10. \A j \in 1 .. Len(ls) : ls[j] = ks[old(j)]
    BY <2>2, <2>9
  <2>11. Table(ls)
    <3>1. ASSUME NEW j \in 1 .. Len(ls), NEW k \in 1 .. Len(ls), ls[j].section = ls[k].section, ls[j].name = ls[k].name
          PROVE  j = k
      <4>1. ks[old(j)].section = ks[old(k)].section /\ ks[old(j)].name = ks[old(k)].name
        BY <3>1, <2>10
      <4>2. old(j) = old(k)
        BY <4>1, <2>4, <2>9 DEF Table, Distinct, UnnamedFirst
      <4> QED
        BY <4>2, <2>5, <2>9
    <3>2. ASSUME NEW j \in 1 .. Len(ls), ls[j].section = Unnamed PROVE ls[1].section = Unnamed
      <4>1. ks[1].section = Unnamed
        BY <3>2, <2>4, <2>9, <2>10 DEF Table, Distinct, UnnamedFirst
      <4>2. i # 1
        BY <4>1, <2>1 DEF Is
      <4>3. 1 \in 1 .. Len(ls) /\ ls[1] = ks[1]
        BY <4>2, <2>3, <2>7, <2>9, <2>10
      <4> QED
        BY <4>1, <4>3
    <3> QED
      BY <2>9, <3>1, <3>2 DEF Table, Distinct, UnnamedFirst
  <2>12. ASSUME NEW t, NEW m, ~(t = s /\ m = n) PROVE get(ls, t, m) = get(ks, t, m)
    <3>1. CASE \E j \in 1 .. Len(ks) : Is(ks, j, t, m)
      <4>1. PICK j \in 1 .. Len(ks) : Is(ks, j, t, m)
        BY <3>1
      <4>2. j # i
        BY <4>1, <2>1, <2>12 DEF Is
      <4>3. PICK k \in 1 .. Len(ks) - 1 : j = old(k)
        BY <4>2, <2>6
      <4>4. k \in 1 .. Len(ls) /\ ls[k] = ks[j]
        BY <4>3, <2>9, <2>10
      <4>5. Is(ls, k, t, m)
        BY <4>1, <4>4 DEF Is
      <4>6. get(ks, t, m) = {ks[j].value}
        BY <4>1, GetIs
      <4>7. get(ls, t, m) = {ls[k].value}
        BY <4>4, <4>5, <2>11, GetIs
      <4> QED
        BY <4>4, <4>6, <4>7
    <3>2. CASE ~\E j \in 1 .. Len(ks) : Is(ks, j, t, m)
      <4>1. \A k \in 1 .. Len(ls) : ~Is(ls, k, t, m)
        BY <3>2, <2>4, <2>9, <2>10 DEF Is
      <4> QED
        BY <3>2, <4>1, <2>11, GetNone
    <3> QED
      BY <3>1, <3>2
  <2> QED
    BY <2>11, <2>12
<1> QED
  BY <1>1, <1>2

-----------------------------------------------------------------------------
(* What settings_save writes.                                              *)

\* The values of a key among the first j of a table.
ValuesTo(ks, j, s, n) == {ks[k].value : k \in {k \in 1 .. j : Is(ks, k, s, n)}}

\* They go to what get finds.
LEMMA ValuesStep ==
  ASSUME NEW ks, Table(ks), NEW s, NEW n, NEW j \in 1 .. Len(ks)
  PROVE  /\ ValuesTo(ks, 0, s, n) = {}
         /\ ValuesTo(ks, j, s, n) = IF Is(ks, j, s, n) THEN {ks[j].value} ELSE ValuesTo(ks, j - 1, s, n)
         /\ ValuesTo(ks, Len(ks), s, n) = get(ks, s, n)
<1> DEFINE K(m) == {k \in 1 .. m : Is(ks, k, s, n)}
<1>0. Len(ks) \in Nat /\ \A m : ValuesTo(ks, m, s, n) = {ks[k].value : k \in K(m)}
  BY TableType DEF ValuesTo
<1>1. K(0) = {} /\ j \in Nat
  OBVIOUS
<1>2. Is(ks, j, s, n) => K(j) = {j}
  BY DEF Table, Distinct, Is
<1>3. ~Is(ks, j, s, n) => K(j) = K(j - 1)
  BY <1>1
<1>4. \A i \in 1 .. Len(ks) : Is(ks, i, s, n) => K(Len(ks)) = {i}
  BY DEF Table, Distinct, Is
<1>5. ValuesTo(ks, Len(ks), s, n) = get(ks, s, n)
  <2>1. CASE \E i \in 1 .. Len(ks) : Is(ks, i, s, n)
    <3>1. PICK i \in 1 .. Len(ks) : Is(ks, i, s, n)
      BY <2>1
    <3>2. get(ks, s, n) = {ks[i].value}
      BY <3>1, GetIs
    <3>3. K(Len(ks)) = {i}
      BY <3>1, <1>4
    <3> HIDE DEF K
    <3> QED
      BY <3>2, <3>3, <1>0
  <2>2. CASE ~\E i \in 1 .. Len(ks) : Is(ks, i, s, n)
    <3>1. K(Len(ks)) = {}
      BY <2>2
    <3>2. get(ks, s, n) = {}
      BY <2>2, GetNone
    <3> HIDE DEF K
    <3> QED
      BY <3>1, <3>2, <1>0
  <2> QED
    BY <2>1, <2>2
<1> HIDE DEF K
<1>6. ValuesTo(ks, 0, s, n) = {}
  BY <1>0, <1>1
<1>7. CASE Is(ks, j, s, n)
  <2>1. ValuesTo(ks, j, s, n) = {ks[j].value}
    BY <1>0, <1>2, <1>7
  <2> QED
    BY <1>5, <1>6, <1>7, <2>1
<1>8. CASE ~Is(ks, j, s, n)
  <2>1. ValuesTo(ks, j, s, n) = ValuesTo(ks, j - 1, s, n)
    BY <1>0, <1>3, <1>8
  <2> QED
    BY <1>5, <1>6, <1>8, <2>1
<1> QED
  BY <1>7, <1>8

\* The line of a key.
LEMMA LineIsLine ==
  ASSUME NEW k \in KeyRecs
  PROVE  /\ Line(k.name, k.value) \in Lines /\ Line(k.name, k.value).kind = "key"
         /\ Line(k.name, k.value).name = k.name /\ Line(k.name, k.value).value = k.value
  BY DEF KeyRecs, Line, Lines

\* The header of a section.
LEMMA HeaderIsLine ==
  ASSUME NEW s \in Sections
  PROVE  Header(s) \in Lines /\ Header(s).kind = "header" /\ Header(s).section = s
  BY DEF Header, Lines

\* The recursive function of section_lines satisfies its equation.
LEMMA SectionLinesStep ==
  ASSUME NEW ks \in Seq(KeyRecs), NEW i \in 1 .. Len(ks), NEW text \in Seq(Lines),
         NEW L, L = section_lines(ks, i, text)
  PROVE  /\ L[0] = section_header(ks, i, text)
         /\ \A j \in 1 .. Len(ks) :
              L[j] = IF ks[j].section = ks[i].section
                     THEN Append(L[j - 1], Line(ks[j].name, ks[j].value)) ELSE L[j - 1]
<1> DEFINE n == Len(ks)
           S == Seq(Lines)
           a == section_header(ks, i, text)
           Step(j, t) == IF ks[j].section = ks[i].section THEN Append(t, Line(ks[j].name, ks[j].value)) ELSE t
           F == [x \in (1 .. n) \X S |-> Step(x[1], x[2])]
<1>1. a \in S
  <2>0. ks[i] \in KeyRecs
    OBVIOUS
  <2>1. ks[i].section \in Sections
    BY <2>0 DEF KeyRecs
  <2>2. Header(ks[i].section) \in Lines
    BY <2>1, HeaderIsLine
  <2> QED
    BY <2>2 DEF section_header
<1>2. ASSUME NEW j \in 1 .. n, NEW t \in S PROVE Step(j, t) \in S
  <2>1. ks[j] \in KeyRecs
    OBVIOUS
  <2>2. Line(ks[j].name, ks[j].value) \in Lines
    BY <2>1, LineIsLine
  <2> QED
    BY <2>2
<1>3. n \in Nat
  OBVIOUS
<1> HIDE DEF n, S, a, Step
<1>4. F \in [(1 .. n) \X S -> S]
  BY <1>2
<1>5. \A j \in 1 .. n, t \in S : F[<<j, t>>] = Step(j, t)
  OBVIOUS
<1> HIDE DEF F
<1>6. PICK g \in [0 .. n -> S] : Iterated(g, n, a, F)
  BY <1>1, <1>3, <1>4, Iterates
<1>7. \A j \in 0 .. n : j # 0 => j \in 1 .. n /\ g[j - 1] \in S
  BY <1>3
<1>8. g = [j \in 0 .. n |-> IF j = 0 THEN a ELSE Step(j, g[j - 1])]
  <2>1. \A j \in 0 .. n : (IF j = 0 THEN a ELSE F[<<j, g[j - 1]>>]) = IF j = 0 THEN a ELSE Step(j, g[j - 1])
    BY <1>5, <1>7
  <2> QED
    BY <1>6, <2>1 DEF Iterated
<1>9. L = [j \in 0 .. n |-> IF j = 0 THEN a ELSE Step(j, L[j - 1])]
  <2>1. L = CHOOSE f : f = [j \in 0 .. n |-> IF j = 0 THEN a ELSE Step(j, f[j - 1])]
    BY DEF section_lines, n, a, Step
  <2> QED
    BY <1>8, <2>1
<1>10. L[0] = a
  BY <1>3, <1>9
<1>11. ASSUME NEW j \in 1 .. n PROVE L[j] = Step(j, L[j - 1])
  <2>1. j \in 0 .. n /\ j # 0
    BY <1>3
  <2> QED
    BY <1>9, <2>1
<1> QED
  BY <1>10, <1>11 DEF n, a, Step

\* A section in the text says what the table says of it, and nothing else
\* changes.
LEMMA SectionWritten ==
  ASSUME NEW ks, Table(ks), NEW i \in 1 .. Len(ks), NEW text \in Seq(Lines), NEW sec, sec = ks[i].section,
         \A n : Says(text, sec, n) = {},
         sec = Unnamed => SectionOf(text, Len(text) + 1) = Unnamed,
         NEW t, t = section_lines(ks, i, text)[Len(ks)]
  PROVE  /\ t \in Seq(Lines)
         /\ \A s, n : Says(t, s, n) = IF s = sec THEN get(ks, s, n) ELSE Says(text, s, n)
<1> DEFINE L == section_lines(ks, i, text)
           Good(u, j) == /\ u \in Seq(Lines) /\ SectionOf(u, Len(u) + 1) = sec
                         /\ \A s, n : Says(u, s, n) = IF s = sec THEN ValuesTo(ks, j, s, n) ELSE Says(text, s, n)
           T == {j \in 0 .. Len(ks) : Good(L[j], j)}
<1>1. ks \in Seq(KeyRecs) /\ Len(ks) \in Nat
  BY TableType
<1>2. /\ L[0] = section_header(ks, i, text)
      /\ \A j \in 1 .. Len(ks) :
           L[j] = IF ks[j].section = sec THEN Append(L[j - 1], Line(ks[j].name, ks[j].value)) ELSE L[j - 1]
  BY <1>1, SectionLinesStep
<1>3. sec \in Sections
  <2>1. ks[i] \in KeyRecs
    BY <1>1
  <2> QED
    BY <2>1 DEF KeyRecs
<1> HIDE DEF L
<1>4. \A s, n : ValuesTo(ks, 0, s, n) = {}
  BY ValuesStep
<1>5. Good(L[0], 0)
  <2>1. CASE sec = Unnamed
    <3>1. L[0] = text
      BY <2>1, <1>2 DEF section_header
    <3> QED
      BY <3>1, <2>1, <1>4
  <2>2. CASE sec # Unnamed
    <3> DEFINE h == Header(sec)
               u == Append(text, h)
    <3>1. L[0] = u
      BY <2>2, <1>2 DEF section_header
    <3>2. h \in Lines /\ h.kind = "header" /\ h.section = sec
      BY <1>3, HeaderIsLine
    <3> HIDE DEF h
    <3>3. SectionOf(u, Len(text) + 2) = sec /\ \A s, n : Says(u, s, n) = Says(text, s, n)
      BY <3>2, SaysAppend
    <3>4. u \in Seq(Lines) /\ Len(u) + 1 = Len(text) + 2
      BY <3>2
    <3> HIDE DEF u
    <3>5. Good(u, 0)
      BY <3>3, <3>4, <1>4
    <3> QED
      BY <3>1, <3>5
  <2> QED
    BY <2>1, <2>2
<1>6. ASSUME NEW j \in 1 .. Len(ks), Good(L[j - 1], j - 1) PROVE Good(L[j], j)
  <2> DEFINE p == L[j - 1]
             l == Line(ks[j].name, ks[j].value)
  <2>1. p \in Seq(Lines) /\ SectionOf(p, Len(p) + 1) = sec
    BY <1>6
  <2>2. \A s, n : Says(p, s, n) = IF s = sec THEN ValuesTo(ks, j - 1, s, n) ELSE Says(text, s, n)
    BY <1>6
  <2>3. \A s, n : ValuesTo(ks, j, s, n) = IF Is(ks, j, s, n) THEN {ks[j].value} ELSE ValuesTo(ks, j - 1, s, n)
    BY ValuesStep
  <2>4. CASE ks[j].section # sec
    <3>1. L[j] = p
      BY <2>4, <1>2
    <3>2. \A n : ValuesTo(ks, j, sec, n) = ValuesTo(ks, j - 1, sec, n)
      BY <2>3, <2>4 DEF Is
    <3> HIDE DEF p
    <3>3. Good(p, j)
      BY <2>1, <2>2, <3>2
    <3> QED
      BY <3>1, <3>3
  <2>5. CASE ks[j].section = sec
    <3> DEFINE u == Append(p, l)
    <3>1. L[j] = u
      BY <2>5, <1>2
    <3>2. ks[j] \in KeyRecs
      BY <1>1
    <3>3. l \in Lines /\ l.kind = "key" /\ l.name = ks[j].name /\ l.value = ks[j].value
      BY <3>2, LineIsLine
    <3> HIDE DEF p, l
    <3>4. /\ SectionOf(u, Len(p) + 2) = sec
          /\ \A s, n : Says(u, s, n) = IF ks[j].name = n /\ sec = s THEN {ks[j].value} ELSE Says(p, s, n)
      BY <3>3, <2>1, SaysAppend
    <3>5. u \in Seq(Lines) /\ Len(u) + 1 = Len(p) + 2
      BY <3>3, <2>1
    <3> HIDE DEF u
    <3>6. ASSUME NEW s, NEW n PROVE Says(u, s, n) = IF s = sec THEN ValuesTo(ks, j, s, n) ELSE Says(text, s, n)
      <4>1. CASE s # sec
        BY <4>1, <3>4, <2>2
      <4>2. CASE s = sec
        <5>1. Is(ks, j, s, n) <=> ks[j].name = n
          BY <4>2, <2>5 DEF Is
        <5> QED
          BY <4>2, <5>1, <3>4, <2>2, <2>3
      <4> QED
        BY <4>1, <4>2
    <3>7. Good(u, j)
      BY <3>4, <3>5, <3>6
    <3> QED
      BY <3>1, <3>7
  <2> QED
    BY <2>4, <2>5
<1> HIDE DEF Good
<1>7. 0 \in T /\ \A j \in 1 .. Len(ks) : j - 1 \in T => j \in T
  BY <1>1, <1>5, <1>6
<1>8. \A j \in 0 .. Len(ks) : j \in T
  <2> HIDE DEF T
  <2> QED
    BY <1>1, <1>7, UpToInduction
<1>9. Good(t, Len(ks))
  <2>1. Len(ks) \in T
    <3> HIDE DEF T
    <3> QED
      BY <1>1, <1>8
  <2> QED
    BY <2>1 DEF L
<1>10. \A s, n : ValuesTo(ks, Len(ks), s, n) = get(ks, s, n)
  BY ValuesStep
<1> QED
  BY <1>9, <1>10 DEF Good

\* An empty file says nothing.
LEMMA EmptyText == \A s, n : Says(<<>>, s, n) = {}
<1>1. \A s, n : LinesOf(<<>>, s, n) = {}
  BY DEF LinesOf
<1> QED
  BY <1>1 DEF Says

\* One step of Written.
WriteStep(ks, i, t) ==
  IF \E j \in 1 .. i - 1 : ks[j].section = ks[i].section THEN t ELSE section_lines(ks, i, t)[Len(ks)]

\* A step of Written on a text is a text.
LEMMA WriteStepType ==
  ASSUME NEW ks \in Seq(KeyRecs), NEW i \in 1 .. Len(ks), NEW text \in Seq(Lines)
  PROVE  WriteStep(ks, i, text) \in Seq(Lines)
<1> DEFINE L == section_lines(ks, i, text)
           T == {j \in 0 .. Len(ks) : L[j] \in Seq(Lines)}
<1>1. /\ L[0] = section_header(ks, i, text)
      /\ \A j \in 1 .. Len(ks) :
           L[j] = IF ks[j].section = ks[i].section
                  THEN Append(L[j - 1], Line(ks[j].name, ks[j].value)) ELSE L[j - 1]
  BY SectionLinesStep
<1>2. ASSUME NEW j \in 1 .. Len(ks) PROVE ks[j] \in KeyRecs /\ ks[j].section \in Sections
  <2>1. ks[j] \in KeyRecs
    OBVIOUS
  <2> QED
    BY <2>1 DEF KeyRecs
<1>3. \A j \in 1 .. Len(ks) : Line(ks[j].name, ks[j].value) \in Lines /\ Header(ks[j].section) \in Lines
  BY <1>2, LineIsLine, HeaderIsLine
<1> HIDE DEF L
<1>4. 0 \in T
  <2>1. section_header(ks, i, text) \in Seq(Lines)
    BY <1>3 DEF section_header
  <2>2. 0 \in 0 .. Len(ks)
    OBVIOUS
  <2> QED
    BY <1>1, <2>1, <2>2
<1>5. ASSUME NEW j \in 1 .. Len(ks), L[j - 1] \in Seq(Lines) PROVE j \in T
  <2> DEFINE p == L[j - 1]
             l == Line(ks[j].name, ks[j].value)
  <2>1. l \in Lines /\ L[j] = IF ks[j].section = ks[i].section THEN Append(p, l) ELSE p
    BY <1>1, <1>3
  <2>2. p \in Seq(Lines)
    BY <1>5
  <2>3. j \in 0 .. Len(ks)
    OBVIOUS
  <2>4. Append(p, l) \in Seq(Lines)
    <3> HIDE DEF p, l
    <3> QED
      BY <2>1, <2>2
  <2>5. L[j] \in Seq(Lines)
    BY <2>1, <2>2, <2>4
  <2> QED
    BY <2>3, <2>5
<1>6. Len(ks) \in T
  <2> HIDE DEF T
  <2>1. Len(ks) \in Nat
    OBVIOUS
  <2>2. \A j \in 1 .. Len(ks) : j - 1 \in T => j \in T
    BY <1>5 DEF T
  <2>3. \A j \in 0 .. Len(ks) : j \in T
    BY <2>1, <2>2, <1>4, UpToInduction
  <2> QED
    BY <2>1, <2>3
<1> QED
  BY <1>6 DEF WriteStep, L

\* The recursive function of Written satisfies its equation.
LEMMA WrittenStep ==
  ASSUME NEW ks \in Seq(KeyRecs), NEW W, W = Written(ks)
  PROVE  W[0] = <<>> /\ \A i \in 1 .. Len(ks) : W[i] = WriteStep(ks, i, W[i - 1])
<1> DEFINE n == Len(ks)
           S == Seq(Lines)
           F == [x \in (1 .. n) \X S |-> WriteStep(ks, x[1], x[2])]
<1>1. <<>> \in S /\ n \in Nat
  OBVIOUS
<1>2. \A j \in 1 .. n, t \in S : WriteStep(ks, j, t) \in S
  BY WriteStepType
<1> HIDE DEF S
<1>4. F \in [(1 .. n) \X S -> S]
  BY <1>2
<1>5. \A j \in 1 .. n, t \in S : F[<<j, t>>] = WriteStep(ks, j, t)
  OBVIOUS
<1> HIDE DEF F
<1>6. PICK g \in [0 .. n -> S] : Iterated(g, n, <<>>, F)
  BY <1>1, <1>4, Iterates
<1>7. \A j \in 0 .. n : j # 0 => j \in 1 .. n /\ g[j - 1] \in S
  BY <1>1
<1>8. g = [j \in 0 .. n |-> IF j = 0 THEN <<>> ELSE WriteStep(ks, j, g[j - 1])]
  <2>1. \A j \in 0 .. n :
          (IF j = 0 THEN <<>> ELSE F[<<j, g[j - 1]>>]) = IF j = 0 THEN <<>> ELSE WriteStep(ks, j, g[j - 1])
    BY <1>5, <1>7
  <2> QED
    BY <1>6, <2>1 DEF Iterated
<1>9. W = [j \in 0 .. n |-> IF j = 0 THEN <<>> ELSE WriteStep(ks, j, W[j - 1])]
  <2>1. W = CHOOSE f : f = [j \in 0 .. n |-> IF j = 0 THEN <<>> ELSE WriteStep(ks, j, f[j - 1])]
    BY DEF Written, WriteStep
  <2> QED
    BY <1>8, <2>1
<1> HIDE DEF n
<1>10. W[0] = <<>>
  BY <1>1, <1>9
<1>11. ASSUME NEW j \in 1 .. n PROVE W[j] = WriteStep(ks, j, W[j - 1])
  <2>1. j \in 0 .. n /\ j # 0
    BY <1>1
  <2> QED
    BY <1>9, <2>1
<1> QED
  BY <1>10, <1>11 DEF n

\* The text of a table says what the table says.
LEMMA TextSays ==
  ASSUME NEW ks, Table(ks)
  PROVE  Text(ks) \in Seq(Lines) /\ \A s, n : Says(Text(ks), s, n) = get(ks, s, n)
<1> DEFINE W == Written(ks)
           Has(i, s) == \E j \in 1 .. i : ks[j].section = s
           Good(t, i) == /\ t \in Seq(Lines)
                         /\ \A s, n : Says(t, s, n) = IF Has(i, s) THEN get(ks, s, n) ELSE {}
           T == {i \in 0 .. Len(ks) : Good(W[i], i)}
<1>1. ks \in Seq(KeyRecs) /\ Len(ks) \in Nat
  BY TableType
<1>2. W[0] = <<>> /\ \A i \in 1 .. Len(ks) : W[i] = WriteStep(ks, i, W[i - 1])
  BY <1>1, WrittenStep
<1>3. Text(ks) = W[Len(ks)]
  BY DEF Text
<1> HIDE DEF W
<1>4. Good(W[0], 0)
  BY <1>2, EmptyText
<1>5. ASSUME NEW i \in 1 .. Len(ks), Good(W[i - 1], i - 1) PROVE Good(W[i], i)
  <2> DEFINE p == W[i - 1]
             sec == ks[i].section
  <2>1. p \in Seq(Lines)
    BY <1>5
  <2>2. \A s, n : Says(p, s, n) = IF Has(i - 1, s) THEN get(ks, s, n) ELSE {}
    BY <1>5
  <2>3. \A s : Has(i, s) <=> (Has(i - 1, s) \/ s = sec)
    OBVIOUS
  <2>4. W[i] = WriteStep(ks, i, p)
    BY <1>2
  <2>5. CASE Has(i - 1, sec)
    <3>1. W[i] = p
      BY <2>4, <2>5 DEF WriteStep
    <3>2. \A s : Has(i, s) <=> Has(i - 1, s)
      BY <2>3, <2>5
    <3> HIDE DEF Has, p
    <3> QED
      BY <3>1, <3>2, <2>1, <2>2
  <2>6. CASE ~Has(i - 1, sec)
    <3>1. W[i] = section_lines(ks, i, p)[Len(ks)]
      BY <2>4, <2>6 DEF WriteStep
    <3>2. \A n : Says(p, sec, n) = {}
      <4> HIDE DEF Has, p, sec
      <4> QED
        BY <2>2, <2>6
    <3>3. ASSUME sec = Unnamed PROVE SectionOf(p, Len(p) + 1) = Unnamed
      <4>1. ks[1].section = Unnamed
        BY <3>3 DEF Table, UnnamedFirst
      <4>2. i = 1
        BY <4>1, <3>3, <2>6, <1>1
      <4>3. p = <<>> /\ Len(p) + 1 = 1
        BY <4>2, <1>2
      <4>4. 1 \in Nat \ {0}
        OBVIOUS
      <4>5. SectionOf(p, 1) = Unnamed
        BY <4>4, SectionStep
      <4> QED
        BY <4>3, <4>5
    <3>4. /\ W[i] \in Seq(Lines)
          /\ \A s, n : Says(W[i], s, n) = IF s = sec THEN get(ks, s, n) ELSE Says(p, s, n)
      <4> HIDE DEF p, Has
      <4> QED
        BY <3>1, <3>2, <3>3, <2>1, SectionWritten
    <3> HIDE DEF Has, p, sec
    <3> QED
      BY <3>4, <2>2, <2>3
  <2> QED
    BY <2>5, <2>6
<1> HIDE DEF Good
<1>6. 0 \in T /\ \A j \in 1 .. Len(ks) : j - 1 \in T => j \in T
  BY <1>1, <1>4, <1>5
<1>7. Good(W[Len(ks)], Len(ks))
  <2>1. \A j \in 0 .. Len(ks) : j \in T
    <3> HIDE DEF T
    <3> QED
      BY <1>1, <1>6, UpToInduction
  <2> QED
    BY <2>1, <1>1
<1>8. \A s, n : ~Has(Len(ks), s) => get(ks, s, n) = {}
  <2> SUFFICES ASSUME NEW s, NEW n, ~Has(Len(ks), s) PROVE get(ks, s, n) = {}
    OBVIOUS
  <2>1. \A i \in 1 .. Len(ks) : ~Is(ks, i, s, n)
    BY DEF Is
  <2> QED
    BY <2>1, GetNone
<1> HIDE DEF Has
<1> QED
  BY <1>3, <1>7, <1>8 DEF Good

-----------------------------------------------------------------------------
(* What settings_load reads.                                               *)

\* The equation of Parsed for the first k lines.
IsParsed(g, lines, k) == g = [i \in 0 .. k |-> IF i = 0 THEN NoLines ELSE parse_line(g[i - 1], lines[i])]

\* The recursive function of Parsed exists, so it satisfies its equation.
LEMMA ParsedIs ==
  ASSUME NEW lines, Len(lines) \in Nat
  PROVE  IsParsed(Parsed(lines), lines, Len(lines))
<1> DEFINE T == {k \in 0 .. Len(lines) : \E g : IsParsed(g, lines, k)}
<1>1. 0 \in T
  <2> DEFINE g == [i \in 0 .. 0 |-> NoLines]
  <2>1. IsParsed(g, lines, 0)
    BY DEF IsParsed
  <2> QED
    BY <2>1
<1>2. ASSUME NEW k \in 1 .. Len(lines), k - 1 \in T PROVE k \in T
  <2>1. PICK g : IsParsed(g, lines, k - 1)
    BY <1>2
  <2> DEFINE h == [i \in 0 .. k |-> IF i <= k - 1 THEN g[i] ELSE parse_line(g[k - 1], lines[k])]
  <2>2. ASSUME NEW i \in 0 .. k
        PROVE  h[i] = IF i = 0 THEN NoLines ELSE parse_line(h[i - 1], lines[i])
    <3>1. CASE i = 0
      BY <2>1, <3>1 DEF IsParsed
    <3>2. CASE i # 0 /\ i <= k - 1
      <4>1. i \in 0 .. k - 1 /\ i - 1 \in 0 .. k /\ i - 1 <= k - 1
        BY <3>2
      <4>2. h[i] = g[i] /\ h[i - 1] = g[i - 1]
        BY <4>1, <3>2
      <4>3. g[i] = parse_line(g[i - 1], lines[i])
        BY <2>1, <4>1, <3>2 DEF IsParsed
      <4> QED
        BY <4>2, <4>3, <3>2
    <3>3. CASE i = k
      <4>1. h[i] = parse_line(g[k - 1], lines[k]) /\ h[i - 1] = g[k - 1] /\ i # 0
        BY <3>3
      <4> QED
        BY <4>1, <3>3
    <3> QED
      BY <3>1, <3>2, <3>3
  <2>3. h = [i \in 0 .. k |-> h[i]]
    OBVIOUS
  <2> HIDE DEF h
  <2>4. IsParsed(h, lines, k)
    BY <2>2, <2>3 DEF IsParsed
  <2> QED
    BY <2>4
<1>3. \A k \in 0 .. Len(lines) : k \in T
  <2> HIDE DEF T
  <2> QED
    BY <1>1, <1>2, UpToInduction
<1>4. \E g : g = [i \in 0 .. Len(lines) |-> IF i = 0 THEN NoLines ELSE parse_line(g[i - 1], lines[i])]
  BY <1>3 DEF IsParsed
<1> QED
  BY <1>4 DEF Parsed, IsParsed

\* What Parsed is after no line, and after each line.
LEMMA ParsedStep ==
  ASSUME NEW lines, Len(lines) \in Nat, NEW P, P = Parsed(lines)
  PROVE  P[0] = NoLines /\ \A i \in 1 .. Len(lines) : P[i] = parse_line(P[i - 1], lines[i])
<1>1. P = [i \in 0 .. Len(lines) |-> IF i = 0 THEN NoLines ELSE parse_line(P[i - 1], lines[i])]
  BY ParsedIs DEF IsParsed
<1>2. P[0] = NoLines
  BY <1>1
<1>3. ASSUME NEW i \in 1 .. Len(lines) PROVE P[i] = parse_line(P[i - 1], lines[i])
  <2>1. i \in 0 .. Len(lines) /\ i # 0
    OBVIOUS
  <2> QED
    BY <1>1, <2>1
<1> QED
  BY <1>2, <1>3

\* A file that can be kept always leaves room for the next of its keys.
LEMMA HasRoom ==
  ASSUME NEW lines \in Seq(Lines), Keepable(lines), NEW ks, Table(ks),
         NEW s \in Sections, NEW n \in KeyNames, LinesOf(lines, s, n) # {},
         \A j \in 1 .. Len(ks) : LinesOf(lines, ks[j].section, ks[j].name) # {},
         \A j \in 1 .. Len(ks) : ~Is(ks, j, s, n)
  PROVE  Len(ks) # KEYS_MAX
<1> SUFFICES ASSUME Len(ks) = KEYS_MAX PROVE FALSE
  OBVIOUS
<1> DEFINE K == {k \in Sections \X KeyNames : LinesOf(lines, k[1], k[2]) # {}}
           D == 1 .. Len(lines)
           h == [i \in D |-> <<SectionOf(lines, i), lines[i].name>>]
           R == {h[i] : i \in D}
           M == KEYS_MAX
<1>1. M \in Nat /\ Cardinality(K) <= M
  BY SettingsAssumption DEF Keepable
<1>2. IsFiniteSet(K) /\ Cardinality(K) \in Nat
  <2>1. IsFiniteSet(D)
    BY FS_Interval
  <2>2. h \in Surjection(D, R)
    BY DEF Surjection
  <2>3. IsFiniteSet(R)
    <3> HIDE DEF D, R, h
    <3> QED
      BY <2>1, <2>2, FS_Surjection
  <2>4. K \subseteq R
    <3> SUFFICES ASSUME NEW k \in K PROVE k \in R
      OBVIOUS
    <3>1. PICK i \in LinesOf(lines, k[1], k[2]) : TRUE
      OBVIOUS
    <3>2. i \in D /\ lines[i].name = k[2] /\ SectionOf(lines, i) = k[1]
      BY <3>1 DEF LinesOf
    <3>3. h[i] = k
      BY <3>2
    <3> QED
      BY <3>2, <3>3
  <2> HIDE DEF K, R
  <2>5. IsFiniteSet(K)
    BY <2>3, <2>4, FS_Subset
  <2> QED
    BY <2>5, FS_CardinalityType
<1> DEFINE N == 1 .. M + 1
           f == [j \in N |-> IF j <= M THEN <<ks[j].section, ks[j].name>> ELSE <<s, n>>]
<1>3. IsFiniteSet(N) /\ Cardinality(N) = M + 1
  BY <1>1, FS_Interval
<1>4. f \in [N -> K]
  <2> SUFFICES ASSUME NEW j \in N PROVE f[j] \in K
    OBVIOUS
  <2>1. CASE j <= M
    <3>1. j \in 1 .. Len(ks)
      BY <2>1, <1>1
    <3>2. ks[j] \in KeyRecs
      BY <3>1, TableType
    <3>3. ks[j].section \in Sections /\ ks[j].name \in KeyNames
      BY <3>2 DEF KeyRecs
    <3> QED
      BY <2>1, <3>1, <3>3
  <2>2. CASE ~(j <= M)
    BY <2>2
  <2> QED
    BY <2>1, <2>2
<1>5. PICK x \in N, y \in N : x # y /\ f[x] = f[y]
  <2>1. Cardinality(K) < Cardinality(N)
    <3> HIDE DEF K, N, M
    <3> QED
      BY <1>1, <1>2, <1>3
  <2> HIDE DEF K, N, f
  <2> QED
    BY <2>1, <1>2, <1>3, <1>4, FS_PigeonHole
<1>6. ASSUME NEW j \in N, NEW k \in N, j < k, f[j] = f[k] PROVE FALSE
  <2>1. j \in 1 .. Len(ks) /\ f[j] = <<ks[j].section, ks[j].name>>
    BY <1>6, <1>1
  <2>2. CASE k <= M
    <3>1. k \in 1 .. Len(ks) /\ f[k] = <<ks[k].section, ks[k].name>>
      BY <2>2, <1>1
    <3>2. ks[j].section = ks[k].section /\ ks[j].name = ks[k].name
      BY <1>6, <2>1, <3>1
    <3>3. j = k
      BY <2>1, <3>1, <3>2 DEF Table, Distinct
    <3> QED
      BY <3>3, <1>6, <1>1
  <2>3. CASE ~(k <= M)
    <3>1. f[k] = <<s, n>>
      BY <2>3
    <3>2. Is(ks, j, s, n)
      BY <1>6, <2>1, <3>1 DEF Is
    <3> QED
      BY <3>2, <2>1
  <2> QED
    BY <2>2, <2>3
<1>7. x < y \/ y < x
  BY <1>1, <1>5
<1> HIDE DEF f, N
<1> QED
  BY <1>5, <1>6, <1>7

\* The kinds of line that a file that can be kept has.
LEMMA LineKinds ==
  ASSUME NEW l \in Lines, l # Bad, l # Header(Unnamed), l.kind = "key" => l.name # Long
  PROVE  \/ l.kind = "header" /\ l.section \in Sections \ {Unnamed}
         \/ l.kind = "key" /\ l.name \in KeyNames \ {Long} /\ l.value \in Texts
<1>1. CASE \E s \in Sections : l = Header(s)
  BY <1>1 DEF Header
<1>2. CASE \E n \in KeyNames, v \in Texts : l = Line(n, v)
  BY <1>2 DEF Line
<1> QED
  BY <1>1, <1>2 DEF Lines

\* How far the parse of a file that can be kept has come after i lines: the
\* table says what these lines say.
ReadTo(p, lines, i) ==
  /\ p = [section |-> p.section, keys |-> p.keys, stop |-> FALSE]
  /\ p.section \in Sections /\ p.section = SectionOf(lines, i + 1)
  /\ Table(p.keys)
  /\ p.section = Unnamed => \A j \in 1 .. Len(p.keys) : p.keys[j].section = Unnamed
  /\ \A j \in 1 .. Len(p.keys) : LinesOf(lines, p.keys[j].section, p.keys[j].name) # {}
  /\ \A s, n : get(p.keys, s, n) = SaysTo(lines, i, s, n)

\* A header changes the section.
LEMMA ReadHeader ==
  ASSUME NEW lines \in Seq(Lines), NEW i \in 1 .. Len(lines), NEW p, ReadTo(p, lines, i - 1),
         lines[i].kind = "header", lines[i].section \in Sections \ {Unnamed},
         NEW q, q = parse_line(p, lines[i])
  PROVE  ReadTo(q, lines, i)
<1> DEFINE sec == lines[i].section
<1>1. p = [section |-> p.section, keys |-> p.keys, stop |-> FALSE]
  BY DEF ReadTo
<1>2. p.stop = FALSE
  BY <1>1
<1>3. q = [p EXCEPT !.section = sec]
  BY <1>2 DEF parse_line
<1>4. q = [section |-> sec, keys |-> p.keys, stop |-> FALSE]
  <2> DEFINE a == p.section
             b == p.keys
  <2>1. p = [section |-> a, keys |-> b, stop |-> FALSE]
    BY <1>1
  <2> HIDE DEF a, b, sec
  <2>2. q = [section |-> sec, keys |-> b, stop |-> FALSE]
    BY <2>1, <1>3
  <2> QED
    BY <2>2 DEF b, sec
<1>5. q.section = sec /\ q.keys = p.keys /\ q.stop = FALSE
  BY <1>4
<1>6. SectionOf(lines, i + 1) = sec
  <2>1. i \in Nat \ {0}
    OBVIOUS
  <2> QED
    BY <2>1, SectionStep
<1>7. \A s, n : SaysTo(lines, i, s, n) = SaysTo(lines, i - 1, s, n)
  <2> SUFFICES ASSUME NEW s, NEW n PROVE SaysTo(lines, i, s, n) = SaysTo(lines, i - 1, s, n)
    OBVIOUS
  <2>1. ~IsLineOf(lines, i, s, n)
    BY DEF IsLineOf
  <2> QED
    BY <2>1, SaysStep
<1> HIDE DEF sec
<1>8. q = [section |-> q.section, keys |-> q.keys, stop |-> FALSE]
  BY <1>4, <1>5
<1> QED
  BY <1>5, <1>6, <1>7, <1>8 DEF ReadTo, sec

\* A key goes into the table, which has room for it.
LEMMA ReadKey ==
  ASSUME NEW lines \in Seq(Lines), Keepable(lines), NEW i \in 1 .. Len(lines), NEW p, ReadTo(p, lines, i - 1),
         lines[i].kind = "key", lines[i].name \in KeyNames \ {Long}, lines[i].value \in Texts,
         NEW q, q = parse_line(p, lines[i])
  PROVE  ReadTo(q, lines, i)
<1> DEFINE n == lines[i].name
           v == lines[i].value
           ks == p.keys
           s == p.section
           ls == set(ks, s, n, v)
<1>1. p = [section |-> s, keys |-> ks, stop |-> FALSE]
  BY DEF ReadTo
<1>2. p.stop = FALSE
  BY <1>1
<1>3. q = [p EXCEPT !.keys = ls]
  BY <1>2 DEF parse_line
<1> HIDE DEF ls
<1>4. q = [section |-> s, keys |-> ls, stop |-> FALSE]
  <2> HIDE DEF s, ks
  <2> QED
    BY <1>1, <1>3
<1>5. q.section = s /\ q.keys = ls
  BY <1>4
<1>6. /\ s \in Sections /\ s = SectionOf(lines, i) /\ Table(ks)
      /\ s = Unnamed => \A j \in 1 .. Len(ks) : ks[j].section = Unnamed
      /\ \A j \in 1 .. Len(ks) : LinesOf(lines, ks[j].section, ks[j].name) # {}
      /\ \A t, m : get(ks, t, m) = SaysTo(lines, i - 1, t, m)
  <2>1. (i - 1) + 1 = i
    OBVIOUS
  <2> QED
    BY <2>1 DEF ReadTo
<1>7. SectionOf(lines, i + 1) = s
  <2>1. i \in Nat \ {0}
    OBVIOUS
  <2> QED
    BY <2>1, <1>6, SectionStep
<1>8. ASSUME NEW t, NEW m
      PROVE  SaysTo(lines, i, t, m) = IF t = s /\ m = n THEN {v} ELSE SaysTo(lines, i - 1, t, m)
  <2>1. IsLineOf(lines, i, t, m) <=> t = s /\ m = n
    BY <1>6 DEF IsLineOf
  <2> QED
    BY <2>1, SaysStep
<1>9. i \in LinesOf(lines, s, n)
  BY <1>6 DEF LinesOf
<1>10. /\ Table(ls)
       /\ s = Unnamed => \A j \in 1 .. Len(ls) : ls[j].section = Unnamed
       /\ \A j \in 1 .. Len(ls) : LinesOf(lines, ls[j].section, ls[j].name) # {}
       /\ \A t, m : get(ls, t, m) = IF t = s /\ m = n THEN {v} ELSE get(ks, t, m)
  <2>0. n \in KeyNames \ {Long} /\ v \in Texts /\ ls = set(ks, s, n, v)
    BY DEF ls
  <2> HIDE DEF n, v, ks, s
  <2>1. CASE \E j \in 1 .. Len(ks) : Is(ks, j, s, n)
    <3>1. PICK j \in 1 .. Len(ks) : Is(ks, j, s, n)
      BY <2>1
    <3>2. /\ Table(ls) /\ Len(ls) = Len(ks)
          /\ \A k \in 1 .. Len(ks) : ls[k].section = ks[k].section /\ ls[k].name = ks[k].name
          /\ \A t, m : get(ls, t, m) = IF t = s /\ m = n THEN {v} ELSE get(ks, t, m)
      BY <2>0, <3>1, <1>6, SetThere
    <3> QED
      BY <3>2, <1>6
  <2>2. CASE ~\E j \in 1 .. Len(ks) : Is(ks, j, s, n)
    <3>1. Len(ks) # KEYS_MAX
      BY <2>0, <2>2, <1>6, <1>9, HasRoom
    <3>2. /\ Table(ls) /\ Len(ls) = Len(ks) + 1
          /\ \A k \in 1 .. Len(ks) : ls[k] = ks[k]
          /\ Is(ls, Len(ks) + 1, s, n)
          /\ \A t, m : get(ls, t, m) = IF t = s /\ m = n THEN {v} ELSE get(ks, t, m)
      BY <2>0, <2>2, <3>1, <1>6, SetNew
    <3>3. ASSUME NEW j \in 1 .. Len(ls)
          PROVE  \/ j \in 1 .. Len(ks) /\ ls[j] = ks[j]
                 \/ ls[j].section = s /\ ls[j].name = n
      <4>1. Len(ks) \in Nat
        BY <1>6, TableType
      <4> QED
        BY <4>1, <3>2 DEF Is
    <3> QED
      BY <3>2, <3>3, <1>6, <1>9
  <2> QED
    BY <2>1, <2>2
<1>11. q = [section |-> q.section, keys |-> q.keys, stop |-> FALSE]
  BY <1>4, <1>5
<1>12. ASSUME NEW t, NEW m PROVE get(q.keys, t, m) = SaysTo(lines, i, t, m)
  <2>1. get(ks, t, m) = SaysTo(lines, i - 1, t, m)
    BY <1>6
  <2>2. SaysTo(lines, i, t, m) = IF t = s /\ m = n THEN {v} ELSE SaysTo(lines, i - 1, t, m)
    BY <1>8
  <2>3. get(ls, t, m) = IF t = s /\ m = n THEN {v} ELSE get(ks, t, m)
    BY <1>10
  <2> HIDE DEF n, v, s, ks
  <2> QED
    BY <1>5, <2>1, <2>2, <2>3
<1>13. q.section \in Sections /\ q.section = SectionOf(lines, i + 1) /\ Table(q.keys)
  <2> HIDE DEF n, v, s, ks
  <2> QED
    BY <1>5, <1>6, <1>7, <1>10
<1>14. /\ q.section = Unnamed => \A j \in 1 .. Len(q.keys) : q.keys[j].section = Unnamed
       /\ \A j \in 1 .. Len(q.keys) : LinesOf(lines, q.keys[j].section, q.keys[j].name) # {}
  <2> HIDE DEF n, v, s, ks
  <2> QED
    BY <1>5, <1>10
<1> QED
  BY <1>11, <1>12, <1>13, <1>14 DEF ReadTo

\* A load gives every key the value that the file says.
LEMMA ParseSays ==
  ASSUME NEW lines \in Seq(Lines), Keepable(lines)
  PROVE  Table(ini_parse(lines)) /\ \A s, n : get(ini_parse(lines), s, n) = Says(lines, s, n)
<1> DEFINE P == Parsed(lines)
           T == {i \in 0 .. Len(lines) : ReadTo(P[i], lines, i)}
<1>1. Len(lines) \in Nat
  OBVIOUS
<1>2. P[0] = NoLines /\ \A i \in 1 .. Len(lines) : P[i] = parse_line(P[i - 1], lines[i])
  BY <1>1, ParsedStep
<1>3. ini_parse(lines) = P[Len(lines)].keys
  BY DEF ini_parse
<1> HIDE DEF P
<1>4. 0 \in T
  <2>1. /\ NoLines.section = Unnamed /\ NoLines.keys = <<>>
        /\ NoLines = [section |-> NoLines.section, keys |-> NoLines.keys, stop |-> FALSE]
    BY DEF NoLines
  <2>2. SectionOf(lines, 0 + 1) = Unnamed
    <3>1. 1 \in Nat \ {0} /\ 0 + 1 = 1
      OBVIOUS
    <3> QED
      BY <3>1, SectionStep
  <2>3. \A s, n : SaysTo(lines, 0, s, n) = {}
    <3>1. ASSUME NEW s, NEW n PROVE {j \in LinesOf(lines, s, n) : j <= 0} = {}
      <4>1. LinesOf(lines, s, n) \subseteq 1 .. Len(lines)
        BY DEF LinesOf
      <4> QED
        BY <4>1
    <3> QED
      BY <3>1 DEF SaysTo
  <2>4. Unnamed \in Sections
    BY SettingsAssumption
  <2>5. Table(NoLines.keys) /\ \A s, n : get(NoLines.keys, s, n) = {}
    BY <2>1, EmptyTable
  <2>6. \A j : j \notin 1 .. Len(NoLines.keys)
    BY <2>1
  <2>7. ReadTo(NoLines, lines, 0)
    BY <2>1, <2>2, <2>3, <2>4, <2>5, <2>6 DEF ReadTo
  <2> QED
    BY <1>1, <1>2, <2>7
<1>5. ASSUME NEW i \in 1 .. Len(lines), i - 1 \in T PROVE i \in T
  <2>1. lines[i] \in Lines
    OBVIOUS
  <2>2. lines[i] # Bad /\ lines[i] # Header(Unnamed) /\ (lines[i].kind = "key" => lines[i].name # Long)
    BY DEF Keepable
  <2>3. ReadTo(P[i - 1], lines, i - 1) /\ P[i] = parse_line(P[i - 1], lines[i])
    BY <1>2, <1>5
  <2>4. CASE lines[i].kind = "header" /\ lines[i].section \in Sections \ {Unnamed}
    BY <2>3, <2>4, ReadHeader
  <2>5. CASE lines[i].kind = "key" /\ lines[i].name \in KeyNames \ {Long} /\ lines[i].value \in Texts
    BY <2>3, <2>5, ReadKey
  <2> QED
    BY <2>1, <2>2, <2>4, <2>5, LineKinds
<1>6. ReadTo(P[Len(lines)], lines, Len(lines))
  <2>1. \A i \in 0 .. Len(lines) : i \in T
    <3> HIDE DEF T
    <3> QED
      BY <1>1, <1>4, <1>5, UpToInduction
  <2> QED
    BY <2>1, <1>1
<1>7. \A s, n : SaysTo(lines, Len(lines), s, n) = Says(lines, s, n)
  <2> SUFFICES ASSUME NEW s, NEW n PROVE SaysTo(lines, Len(lines), s, n) = Says(lines, s, n)
    OBVIOUS
  <2>1. LinesOf(lines, s, n) \subseteq 1 .. Len(lines)
    BY DEF LinesOf
  <2>2. {j \in LinesOf(lines, s, n) : j <= Len(lines)} = LinesOf(lines, s, n)
    BY <2>1, <1>1
  <2> QED
    BY <2>2 DEF SaysTo, Says
<1> QED
  BY <1>3, <1>6, <1>7 DEF ReadTo

-----------------------------------------------------------------------------
(* The specification.                                                      *)

\* Whatever the file, the table holds keys and its text has lines.
LEMMA SetType ==
  ASSUME NEW ks \in Seq(KeyRecs), NEW s \in Sections, NEW n \in KeyNames, NEW v \in Texts
  PROVE  set(ks, s, n, v) \in Seq(KeyRecs)
<1>1. Key(s, trunc(n), v) \in KeyRecs
  BY SettingsAssumption DEF Key, KeyRecs, trunc
<1>2. Append(ks, Key(s, trunc(n), v)) \in Seq(KeyRecs)
  BY <1>1
<1> DEFINE f == find(ks, s, n)
           ls == [ks EXCEPT ![f].value = v]
<1>3. ls \in Seq(KeyRecs)
  <2>1. ls = [j \in 1 .. Len(ks) |-> IF j = f THEN [ks[j] EXCEPT !.value = v] ELSE ks[j]]
    <3> HIDE DEF f
    <3> QED
      OBVIOUS
  <2>2. \A k \in KeyRecs : [k EXCEPT !.value = v] \in KeyRecs
    BY DEF KeyRecs
  <2>3. \A j \in 1 .. Len(ks) : ks[j] \in KeyRecs
    OBVIOUS
  <2> HIDE DEF f, ls
  <2>4. ls \in [1 .. Len(ks) -> KeyRecs]
    BY <2>1, <2>2, <2>3
  <2> QED
    BY <2>4
<1> HIDE DEF f
<1> QED
  BY <1>2, <1>3 DEF set, f

\* The same for a key that is removed.
LEMMA UnsetType ==
  ASSUME NEW ks \in Seq(KeyRecs), NEW s, NEW n
  PROVE  unset(ks, s, n) \in Seq(KeyRecs)
<1> DEFINE f == find(ks, s, n)
           ls == [i \in 1 .. Len(ks) - 1 |-> ks[IF i < f THEN i ELSE i + 1]]
<1>1. CASE Found(ks, s, n) = {}
  BY <1>1 DEF unset
<1>2. CASE Found(ks, s, n) # {}
  <2>1. Len(ks) - 1 \in Nat
    BY <1>2 DEF Found
  <2> HIDE DEF f
  <2>2. \A i \in 1 .. Len(ks) - 1 : i \in 1 .. Len(ks) /\ i + 1 \in 1 .. Len(ks)
    BY <2>1
  <2>3. ls \in [1 .. Len(ks) - 1 -> KeyRecs]
    BY <2>2
  <2>4. ls \in Seq(KeyRecs)
    BY <2>1, <2>3
  <2> QED
    BY <1>2, <2>4 DEF unset, f
<1> QED
  BY <1>1, <1>2

\* The text of any table has lines.
LEMMA TextType ==
  ASSUME NEW ks \in Seq(KeyRecs)
  PROVE  Text(ks) \in Seq(Lines)
<1> DEFINE W == Written(ks)
           T == {i \in 0 .. Len(ks) : W[i] \in Seq(Lines)}
<1>1. W[0] = <<>> /\ \A i \in 1 .. Len(ks) : W[i] = WriteStep(ks, i, W[i - 1])
  BY WrittenStep
<1>2. Len(ks) \in Nat
  OBVIOUS
<1> HIDE DEF W
<1>3. 0 \in T
  <2>1. <<>> \in Seq(Lines) /\ 0 \in 0 .. Len(ks)
    BY <1>2
  <2> QED
    BY <1>1, <2>1
<1>4. \A i \in 1 .. Len(ks) : W[i - 1] \in Seq(Lines) => W[i] \in Seq(Lines)
  BY <1>1, WriteStepType
<1>5. \A i \in 1 .. Len(ks) : i - 1 \in T => i \in T
  BY <1>4
<1>6. Len(ks) \in T
  <2> HIDE DEF T
  <2>1. \A i \in 0 .. Len(ks) : i \in T
    BY <1>2, <1>3, <1>5, UpToInduction
  <2> QED
    BY <1>2, <2>1
<1> QED
  BY <1>6 DEF Text, W

\* A state of the parse.
ParseOK(p) == \E a, k, b : a \in Sections /\ k \in Seq(KeyRecs) /\ p = [section |-> a, keys |-> k, stop |-> b]

\* A line leads from one to another.
LEMMA ParseLineType ==
  ASSUME NEW p, ParseOK(p), NEW l \in Lines, NEW q, q = parse_line(p, l)
  PROVE  ParseOK(q)
<1>1. PICK a, k, b : a \in Sections /\ k \in Seq(KeyRecs) /\ p = [section |-> a, keys |-> k, stop |-> b]
  BY DEF ParseOK
<1>3. p.section = a /\ p.keys = k
  BY <1>1
<1>4. CASE p.stop
  <2>1. q = p
    BY <1>4 DEF parse_line
  <2> QED
    BY <2>1
<1>5. CASE ~p.stop /\ l.kind = "bad"
  <2>1. q = [p EXCEPT !.stop = TRUE]
    BY <1>5 DEF parse_line
  <2>2. q = [section |-> a, keys |-> k, stop |-> TRUE]
    BY <2>1, <1>1
  <2> QED
    BY <1>1, <2>2 DEF ParseOK
<1>6. CASE ~p.stop /\ l.kind = "header"
  <2>1. q = [p EXCEPT !.section = l.section]
    BY <1>6 DEF parse_line
  <2>2. l.section \in Sections
    BY <1>6 DEF Lines, Header, Line, Bad
  <2>3. q = [section |-> l.section, keys |-> k, stop |-> b]
    BY <2>1, <1>1
  <2> QED
    BY <1>1, <2>2, <2>3 DEF ParseOK
<1>7. CASE ~p.stop /\ l.kind = "key"
  <2> DEFINE ls == set(k, a, l.name, l.value)
  <2>1. q = [p EXCEPT !.keys = ls]
    BY <1>3, <1>7 DEF parse_line
  <2>2. l.name \in KeyNames /\ l.value \in Texts
    BY <1>7 DEF Lines, Header, Line, Bad
  <2>3. ls \in Seq(KeyRecs)
    BY <1>1, <2>2, SetType
  <2> HIDE DEF ls
  <2>4. q = [section |-> a, keys |-> ls, stop |-> b]
    BY <2>1, <1>1
  <2> QED
    BY <1>1, <2>3, <2>4 DEF ParseOK
<1>8. l.kind \in {"bad", "header", "key"}
  BY DEF Lines, Header, Line, Bad
<1> QED
  BY <1>4, <1>5, <1>6, <1>7, <1>8

\* So any file gives a table of keys.
LEMMA ParseType ==
  ASSUME NEW lines \in Seq(Lines)
  PROVE  ini_parse(lines) \in Seq(KeyRecs)
<1> DEFINE P == Parsed(lines)
           T == {i \in 0 .. Len(lines) : ParseOK(P[i])}
<1>1. Len(lines) \in Nat
  OBVIOUS
<1>2. P[0] = NoLines /\ \A i \in 1 .. Len(lines) : P[i] = parse_line(P[i - 1], lines[i])
  BY <1>1, ParsedStep
<1> HIDE DEF P
<1>3. ParseOK(NoLines)
  <2>1. Unnamed \in Sections /\ <<>> \in Seq(KeyRecs)
    BY SettingsAssumption
  <2> QED
    BY <2>1 DEF ParseOK, NoLines
<1>4. \A i \in 1 .. Len(lines) : ParseOK(P[i - 1]) => ParseOK(P[i])
  <2>1. \A i \in 1 .. Len(lines) : lines[i] \in Lines
    OBVIOUS
  <2> QED
    BY <1>2, <2>1, ParseLineType
<1>5. 0 \in T /\ \A i \in 1 .. Len(lines) : i - 1 \in T => i \in T
  BY <1>1, <1>2, <1>3, <1>4
<1>6. Len(lines) \in T
  <2> HIDE DEF T
  <2>1. \A i \in 0 .. Len(lines) : i \in T
    BY <1>1, <1>5, UpToInduction
  <2> QED
    BY <1>1, <2>1
<1>7. PICK a, k, b : a \in Sections /\ k \in Seq(KeyRecs) /\ P[Len(lines)] = [section |-> a, keys |-> k, stop |-> b]
  BY <1>6 DEF ParseOK
<1>8. P[Len(lines)].keys = k
  BY <1>7
<1> QED
  BY <1>7, <1>8 DEF ini_parse, P

-----------------------------------------------------------------------------
\* What the ghosts say, when the load could keep the whole file: the table can
\* be written, and table and file agree with the loaded file on every key that
\* the user did not change.
Kept ==
  /\ Table(keys)
  /\ \A s \in Sections, n \in KeyNames : <<s, n>> \notin changed =>
       get(keys, s, n) = Says(origin, s, n) /\ Says(ini, s, n) = Says(origin, s, n)
SettingsInv == ini \in Seq(Lines) /\ keys \in Seq(KeyRecs) /\ (whole => Kept)

\* No load came yet.
LEMMA SettingsInvInit == SettingsInit => SettingsInv
<1> SUFFICES ASSUME SettingsInit PROVE SettingsInv
  OBVIOUS
<1>1. PICK n \in 0 .. MaxLines : ini \in [1 .. n -> Lines]
  BY DEF SettingsInit
<1>2. ini \in Seq(Lines)
  BY <1>1, SettingsAssumption
<1>3. keys \in Seq(KeyRecs) /\ whole = FALSE
  BY DEF SettingsInit
<1> QED
  BY <1>2, <1>3 DEF SettingsInv

\* A change of the table that agrees with the old one on what is not changed
\* keeps the invariant, whether the save works or not.
LEMMA SaveKeeps ==
  ASSUME SettingsInv, settings_save, keys' \in Seq(KeyRecs), changed \subseteq changed',
         whole => /\ Table(keys')
                  /\ \A s \in Sections, n \in KeyNames : <<s, n>> \notin changed' => get(keys', s, n) = get(keys, s, n)
  PROVE  SettingsInv'
<1>1. ini' = ini \/ ini' = Text(keys')
  BY DEF settings_save
<1>2. whole' = whole /\ origin' = origin
  BY DEF settings_save
<1>3. ini' \in Seq(Lines)
  BY <1>1, TextType DEF SettingsInv
<1>4. ASSUME whole PROVE Kept'
  <2>1. Table(keys')
    BY <1>4
  <2>2. ASSUME NEW s \in Sections, NEW n \in KeyNames, <<s, n>> \notin changed'
        PROVE  get(keys', s, n) = Says(origin', s, n) /\ Says(ini', s, n) = Says(origin', s, n)
    <3>1. get(keys', s, n) = get(keys, s, n)
      BY <1>4, <2>2
    <3>2. get(keys, s, n) = Says(origin, s, n) /\ Says(ini, s, n) = Says(origin, s, n)
      BY <1>4, <2>2 DEF SettingsInv, Kept
    <3>3. Says(Text(keys'), s, n) = get(keys', s, n)
      BY <2>1, TextSays
    <3> QED
      BY <3>1, <3>2, <3>3, <1>1, <1>2
  <2> QED
    BY <2>1, <2>2 DEF Kept
<1> QED
  BY <1>2, <1>3, <1>4 DEF SettingsInv

\* A pair that the menu sets.
LEMMA KnownPair ==
  ASSUME NEW k \in Known
  PROVE  k = <<k[1], k[2]>> /\ k[1] \in Sections /\ k[1] # Unnamed /\ k[2] \in KeyNames \ {Long}
  BY SettingsAssumption

\* Every operation keeps it.
LEMMA SettingsInvNext == SettingsInv /\ [SettingsNext]_settings_vars => SettingsInv'
<1> SUFFICES ASSUME SettingsInv, [SettingsNext]_settings_vars PROVE SettingsInv'
  OBVIOUS
<1>0. ini \in Seq(Lines) /\ keys \in Seq(KeyRecs)
  BY DEF SettingsInv
<1>1. CASE settings_load
  <2>1. ini' = ini /\ origin' = ini /\ changed' = {}
    BY <1>1 DEF settings_load
  <2>2. CASE keys' = ini_parse(ini) /\ whole' = Keepable(ini)
    <3>1. keys' \in Seq(KeyRecs)
      BY <2>2, <1>0, ParseType
    <3>2. ASSUME Keepable(ini) PROVE Kept'
      <4>1. Table(keys') /\ \A s, n : get(keys', s, n) = Says(ini, s, n)
        BY <3>2, <2>2, <1>0, ParseSays
      <4> QED
        BY <4>1, <2>1 DEF Kept
    <3> QED
      BY <3>1, <3>2, <2>1, <2>2, <1>0 DEF SettingsInv
  <2>3. CASE keys' = <<>> /\ whole' = FALSE
    BY <2>1, <2>3, <1>0 DEF SettingsInv
  <2> QED
    BY <1>1, <2>2, <2>3 DEF settings_load
<1>2. CASE CardLeaves
  BY <1>2 DEF CardLeaves, SettingsInv, Kept
<1>3. CASE settings_set
  <2>1. PICK k \in Known, v \in Texts :
          keys' = set(keys, k[1], k[2], v) /\ changed' = changed \cup {k} /\ settings_save
    BY <1>3 DEF settings_set
  <2>2. k = <<k[1], k[2]>> /\ k[1] \in Sections /\ k[1] # Unnamed /\ k[2] \in KeyNames \ {Long}
    BY KnownPair
  <2>3. keys' \in Seq(KeyRecs)
    BY <2>1, <2>2, <1>0, SetType
  <2>4. ASSUME whole
        PROVE  /\ Table(keys')
               /\ \A s, n : ~(s = k[1] /\ n = k[2]) => get(keys', s, n) = get(keys, s, n)
    <3>0. Table(keys)
      BY <2>4 DEF SettingsInv, Kept
    <3>1. CASE \E i \in 1 .. Len(keys) : Is(keys, i, k[1], k[2])
      BY <3>0, <3>1, <2>1, SetThere
    <3>2. CASE (~\E i \in 1 .. Len(keys) : Is(keys, i, k[1], k[2])) /\ Len(keys) # KEYS_MAX
      BY <3>0, <3>2, <2>1, <2>2, SetNew
    <3>3. CASE (~\E i \in 1 .. Len(keys) : Is(keys, i, k[1], k[2])) /\ Len(keys) = KEYS_MAX
      BY <3>0, <3>3, <2>1, SetFull
    <3> QED
      BY <3>1, <3>2, <3>3
  <2>5. whole => /\ Table(keys')
                 /\ \A s \in Sections, n \in KeyNames : <<s, n>> \notin changed' => get(keys', s, n) = get(keys, s, n)
    BY <2>1, <2>2, <2>4
  <2> QED
    BY <2>1, <2>3, <2>5, SaveKeeps
<1>4. CASE settings_unset
  <2>1. PICK k \in Known : keys' = unset(keys, k[1], k[2]) /\ changed' = changed \cup {k} /\ settings_save
    BY <1>4 DEF settings_unset
  <2>2. k = <<k[1], k[2]>> /\ k[1] # Unnamed
    BY KnownPair
  <2>3. keys' \in Seq(KeyRecs)
    BY <2>1, <1>0, UnsetType
  <2>4. ASSUME whole
        PROVE  /\ Table(keys')
               /\ \A s, n : ~(s = k[1] /\ n = k[2]) => get(keys', s, n) = get(keys, s, n)
    <3>0. Table(keys)
      BY <2>4 DEF SettingsInv, Kept
    <3> QED
      BY <3>0, <2>1, <2>2, UnsetKeeps
  <2>5. whole => /\ Table(keys')
                 /\ \A s \in Sections, n \in KeyNames : <<s, n>> \notin changed' => get(keys', s, n) = get(keys, s, n)
    BY <2>1, <2>2, <2>4
  <2> QED
    BY <2>1, <2>3, <2>5, SaveKeeps
<1>5. CASE settings_reset
  <2>1. keys' = <<>> /\ changed' = Sections \X KeyNames /\ settings_save
    BY <1>5 DEF settings_reset
  <2>2. keys' \in Seq(KeyRecs) /\ Table(keys')
    BY <2>1, EmptyTable
  <2>3. ini' \in Seq(Lines)
    <3>1. ini' = ini \/ ini' = Text(keys')
      BY <2>1 DEF settings_save
    <3> QED
      BY <3>1, <2>2, <1>0, TextType
  <2>4. Kept'
    BY <2>1, <2>2 DEF Kept
  <2> QED
    BY <2>2, <2>3, <2>4 DEF SettingsInv
<1>6. CASE UNCHANGED settings_vars
  BY <1>6 DEF settings_vars, SettingsInv, Kept
<1> QED
  BY <1>1, <1>2, <1>3, <1>4, <1>5, <1>6 DEF SettingsNext

\* The invariant gives the property: the text of the table says the table.
LEMMA KeptSurvives == SettingsInv => SettingsSurvive
<1> SUFFICES ASSUME SettingsInv, whole
             PROVE  \A s \in Sections, n \in KeyNames :
                      /\ Says(Text(keys), s, n) = get(keys, s, n)
                      /\ <<s, n>> \notin changed => Says(ini, s, n) = Says(origin, s, n)
  BY DEF SettingsSurvive, SaveIsLoadable, UnknownKeysSurvive
<1>1. Kept
  BY DEF SettingsInv
<1> QED
  BY <1>1, TextSays DEF Kept

(* For every file, table size and order of loads, changes and saves of     *)
(* settings.c: a table that was loaded from a file it can keep stays one   *)
(* that can be written, and table and file agree with the loaded file on   *)
(* every key that the user did not change.                                 *)
THEOREM SettingsInvariant == SettingsSpec => []SettingsInv
<1> QED
  BY SettingsInvInit, SettingsInvNext, PTL DEF SettingsSpec

(* What settings_save writes, ini_parse reads back, and loads and saves    *)
(* lose no key that the user did not change, when the load could keep the  *)
(* whole file.                                                             *)
THEOREM SettingsSurviveTheorem == SettingsSpec => []SettingsSurvive
<1> QED
  BY SettingsInvariant, KeptSurvives, PTL
=============================================================================
