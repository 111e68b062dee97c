---------------------------- MODULE StorageSave ----------------------------
(***************************************************************************)
(* storage_save and storage_load of aipc-boot (baremetal/aipc-boot/        *)
(* storage.c), on the FAT volume as FatFs changes it.  A save writes       *)
(* path.new, removes path and renames path.new to path.  Every FatFs call  *)
(* is split where it changes the card: a directory entry and a cluster     *)
(* chain are different sectors, so an I/O error or the loss of power can   *)
(* fall between them.                                                      *)
(*                                                                         *)
(* Simplifications: a file occupies one chain; a cluster chain is          *)
(* allocated or free as a whole; a sector write that fails is either done  *)
(* or lost, and FatFs's later retry of its dirty window is left out.       *)
(***************************************************************************)
EXTENDS FiniteSets, Integers

CONSTANTS Values,   \* the contents that storage_save is asked to write
          Chains,   \* the cluster chains of the volume
          NoChain   \* cluster 0 of a directory entry: nothing allocated

ASSUME StorageAssumption == NoChain \notin Chains /\ Values # {}

VARIABLES
  dir,     \* the directory: for each name an entry or Absent
  used,    \* the chains that the FAT marks as allocated
  data,    \* what the sectors of each chain hold
  pc,      \* where storage_save is
  val,     \* the content that the current or last save writes
  file,    \* the FIL object: the chain and size that f_write reached
  dead,    \* the chain that remove_chain is about to free
  result,  \* how the last save ended
  begin    \* ghost, set when a save begins: the content that storage_load then
           \* returned (had), whether it was path's (sound), and whether no
           \* interrupted f_rename had left path on a shared or free chain (apart)

save_vars == <<dir, used, data, pc, val, file, dead, result, begin>>

Names == {"path", "new"}
Sizes == {"zero", "part", "full"}    \* bytes of the content that are recorded
Absent == [chain |-> NoChain, size |-> "absent", of |-> NoChain]
Entry == [chain : Chains \cup {NoChain}, size : Sizes, of : Values]
Sectors == [of : Values, whole : BOOLEAN]

Phases == {"idle", "open", "truncate", "write", "close", "abort", "abort_chain",
           "unlink", "unlink_chain", "rename", "rename_remove"}

Present(n) == dir[n].size # "absent"

\* A file is complete when its chain is allocated and the sectors hold all of
\* the content whose length the entry records.
Complete(n) == /\ dir[n].size = "full"
               /\ dir[n].chain \in used
               /\ data[dir[n].chain] = [of |-> dir[n].of, whole |-> TRUE]

\* path owns its chain, as on every volume without a cross-link.
OwnsChain == Present("path") => /\ dir["path"].chain \in used
                                /\ dir["path"].chain # dir["new"].chain

-----------------------------------------------------------------------------
(* storage_load.  An empty file is STORAGE_ESIZE.  A chain that the FAT     *)
(* calls free stops the link map with FR_INT_ERR, which stays in the FIL,  *)
(* so that the read fails.  A chain rewritten under an entry, or an entry  *)
(* with a part of the content, reads without an error: "torn".             *)
load_one(n) ==
  CASE ~Present(n)                -> [rc |-> "ENOTFOUND"]
    [] dir[n].size = "zero"       -> [rc |-> "ESIZE"]
    [] Complete(n)                -> [rc |-> "ok", of |-> dir[n].of]
    [] Present(n) /\ dir[n].size # "zero" /\ dir[n].chain \notin used
                                  -> [rc |-> "EIO"]
    [] OTHER                      -> [rc |-> "torn"]

\* Mutant: a path.new that is there goes before path.
storage_load_newest == IF load_one("new").rc = "ok" THEN load_one("new") ELSE load_one("path")

storage_load == IF load_one("path").rc = "ENOTFOUND" THEN load_one("new")
                ELSE load_one("path")

Holds(v) == storage_load = [rc |-> "ok", of |-> v]

-----------------------------------------------------------------------------
TypeOK ==
  /\ dir \in [Names -> Entry \cup {Absent}]
  /\ used \subseteq Chains
  /\ data \in [Chains -> Sectors]
  /\ pc \in Phases
  /\ val \in Values
  /\ file \in [chain : Chains \cup {NoChain}, size : Sizes]
  /\ dead \in Chains \cup {NoChain}
  /\ result \in {"none", "ok", "EIO", "cut"}
  /\ begin \in [of : Values, had : BOOLEAN, sound : BOOLEAN, apart : BOOLEAN]

\* A card without the file, or with a complete one, as a formatting host or an
\* earlier save leaves it.
SaveInit ==
  /\ \E v \in Values, c \in Chains, full \in BOOLEAN :
       /\ dir = [n \in Names |->
                  IF full /\ n = "path" THEN [chain |-> c, size |-> "full", of |-> v]
                  ELSE Absent]
       /\ used = IF full THEN {c} ELSE {}
       /\ data = [k \in Chains |-> [of |-> v, whole |-> TRUE]]
       /\ val = v
       /\ begin = [of |-> v, had |-> FALSE, sound |-> FALSE, apart |-> TRUE]
  /\ pc = "idle" /\ result = "none" /\ dead = NoChain
  /\ file = [chain |-> NoChain, size |-> "zero"]

Go(p) == pc' = p
Return(r) == pc' = "idle" /\ result' = r

\* The caller, settings_save, asks for v.
Begin(v) ==
  /\ pc = "idle"
  /\ val' = v
  /\ begin' = [of |-> IF storage_load.rc = "ok" THEN storage_load.of ELSE v,
               had |-> storage_load.rc = "ok", sound |-> Complete("path"),
               apart |-> OwnsChain]
  /\ file' = [chain |-> NoChain, size |-> "zero"]
  /\ dead' = NoChain
  /\ result' = "none"
  /\ Go("open")
  /\ UNCHANGED <<dir, used, data>>

\* f_open(tmp, FA_WRITE | FA_CREATE_ALWAYS).  The entry of an existing file is
\* zeroed first and its chain is freed after.
EmptyEntry == [chain |-> NoChain, size |-> "zero", of |-> val]

f_open ==
  /\ pc = "open"
  /\ \/ /\ dir' = [dir EXCEPT !["new"] = EmptyEntry]
        /\ dead' = dir["new"].chain
        /\ Go(IF dir["new"].chain # NoChain THEN "truncate" ELSE "write")
        /\ UNCHANGED result
     \/ /\ Return("EIO")
        /\ UNCHANGED <<dir, dead>>
  /\ UNCHANGED <<used, data, val, file, begin>>

f_open_remove_chain ==
  /\ pc = "truncate"
  /\ \/ /\ used' = used \ {dead}
        /\ Go("write")
        /\ UNCHANGED result
     \/ /\ used' \in {used, used \ {dead}}
        /\ Return("EIO")
  /\ UNCHANGED <<dir, data, val, file, dead, begin>>

\* f_write allocates a free chain and fills it; an error or a full volume stops
\* it early, without a cluster at all or with a part of the content.
f_write ==
  /\ pc = "write"
  /\ \/ \E c \in Chains \ used, size \in Sizes :
          /\ used' = used \cup {c}
          /\ data' = [data EXCEPT ![c] = [of |-> val, whole |-> size = "full"]]
          /\ file' = [chain |-> c, size |-> size]
     \/ UNCHANGED <<used, data, file>>
  /\ Go("close")
  /\ UNCHANGED <<dir, val, dead, result, begin>>

\* f_close records the chain and the size in the entry.  It may fail before or
\* after that sector is written; then, or after a short write, tmp is removed.
f_close ==
  /\ pc = "close"
  /\ \E written, ok \in BOOLEAN :
       /\ ok => written
       /\ dir' = IF written
                 THEN [dir EXCEPT !["new"] = [chain |-> file.chain,
                                              size |-> file.size, of |-> val]]
                 ELSE dir
       /\ Go(IF ok /\ file.size = "full" THEN "unlink" ELSE "abort")
  /\ UNCHANGED <<used, data, val, file, dead, result, begin>>

\* Mutant: after a failure it removes path instead of tmp.
abort_unlink_path ==
  /\ pc = "abort"
  /\ dir' = [dir EXCEPT !["path"] = Absent]
  /\ dead' = dir["path"].chain
  /\ Go("abort_chain")
  /\ UNCHANGED <<used, data, val, file, result, begin>>

\* f_unlink(tmp) after a failure.  Its own result is ignored.
abort_unlink ==
  /\ pc = "abort"
  /\ \/ /\ Return("EIO")
        /\ UNCHANGED <<dir, dead>>
     \/ /\ dir' = [dir EXCEPT !["new"] = Absent]
        /\ dead' = dir["new"].chain
        /\ Go("abort_chain")
        /\ UNCHANGED result
  /\ UNCHANGED <<used, data, val, file, begin>>

abort_remove_chain ==
  /\ pc = "abort_chain"
  /\ used' \in {used, used \ {dead}}
  /\ Return("EIO")
  /\ UNCHANGED <<dir, data, val, file, dead, begin>>

\* f_unlink(path).  FR_NO_FILE is no error.
f_unlink ==
  /\ pc = "unlink"
  /\ \/ /\ Present("path")
        /\ dir' = [dir EXCEPT !["path"] = Absent]
        /\ dead' = dir["path"].chain
        /\ Go("unlink_chain")
        /\ UNCHANGED result
     \/ /\ ~Present("path")
        /\ Go("rename")
        /\ UNCHANGED <<dir, dead, result>>
     \/ /\ Return("EIO")
        /\ UNCHANGED <<dir, dead>>
  /\ UNCHANGED <<used, data, val, file, begin>>

f_unlink_remove_chain ==
  /\ pc = "unlink_chain"
  /\ \/ /\ used' = used \ {dead}
        /\ Go("rename")
        /\ UNCHANGED result
     \/ /\ used' \in {used, used \ {dead}}
        /\ Return("EIO")
  /\ UNCHANGED <<dir, data, val, file, dead, begin>>

\* Mutant: the result of f_rename is not looked at.
f_rename_register_unchecked ==
  /\ pc = "rename"
  /\ \/ /\ dir' = [dir EXCEPT !["path"] = dir["new"]]
        /\ Go("rename_remove")
        /\ UNCHANGED result
     \/ /\ Return("ok")
        /\ UNCHANGED dir
  /\ UNCHANGED <<used, data, val, file, dead, begin>>

\* f_rename(tmp, path) registers the new name with a copy of the entry, then
\* removes the old name: in between both names have the same chain.
f_rename_register ==
  /\ pc = "rename"
  /\ \/ /\ dir' = [dir EXCEPT !["path"] = dir["new"]]
        /\ Go("rename_remove")
        /\ UNCHANGED result
     \/ /\ Return("EIO")
        /\ UNCHANGED dir
  /\ UNCHANGED <<used, data, val, file, dead, begin>>

f_rename_remove ==
  /\ pc = "rename_remove"
  /\ \/ /\ dir' = [dir EXCEPT !["new"] = Absent]
        /\ result' \in {"ok", "EIO"}
     \/ /\ dir' = dir
        /\ result' = "EIO"
  /\ pc' = "idle"
  /\ UNCHANGED <<used, data, val, file, dead, begin>>

\* The battery runs out, or the user pulls the card, in the middle of a save.
PowerCut ==
  /\ pc # "idle"
  /\ Return("cut")
  /\ UNCHANGED <<dir, used, data, val, file, dead, begin>>

SaveNext ==
  \/ \E v \in Values : Begin(v)
  \/ f_open \/ f_open_remove_chain \/ f_write \/ f_close
  \/ abort_unlink \/ abort_remove_chain
  \/ f_unlink \/ f_unlink_remove_chain
  \/ f_rename_register \/ f_rename_remove
  \/ PowerCut

SaveSpec == SaveInit /\ [][SaveNext]_save_vars

-----------------------------------------------------------------------------
(* storage_save never leaves path with a part of a content: an entry under  *)
(* path always records the full length.                                    *)
PathIsWhole == Present("path") => dir["path"].size = "full"

\* A save over a sound path that owns its chain is atomic:
\* whatever call fails, and wherever the power goes, storage_load still returns
\* the old content or the new one.
SaveIsAtomic == begin.sound /\ begin.apart => Holds(begin.of) \/ Holds(val)

\* When storage_save returns 0, path itself holds the new content, provided no
\* interrupted f_rename left the two names with one chain before the save.
SuccessReplaces ==
  result = "ok" /\ begin.apart => Complete("path") /\ dir["path"].of = val

\* The strengthening that makes these inductive.  Until path is unlinked, path
\* owns its chain and nothing that the save frees or writes is that chain;
\* from then on path.new is the complete new file.
Early == {"open", "truncate", "write", "close", "abort", "abort_chain", "unlink"}
Late == {"unlink", "unlink_chain", "rename", "rename_remove"}

PathSafe ==
  pc \in Early /\ begin.apart =>
    /\ Present("path") => /\ dir["path"].chain \in used
                          /\ dir["path"].chain \notin {dir["new"].chain, file.chain, dead}
    /\ begin.sound => Complete("path") /\ dir["path"].of = begin.of

FileSafe ==
  /\ pc \in {"open", "truncate", "write"} => file.size = "zero"
  /\ pc = "close" /\ file.size = "full" =>
       file.chain \in used /\ data[file.chain] = [of |-> val, whole |-> TRUE]

NewSafe ==
  pc \in Late =>
    /\ dir["new"].size = "full" /\ dir["new"].of = val
    /\ pc \in {"unlink", "unlink_chain"} \/ begin.apart => Complete("new")
    /\ pc = "unlink_chain" /\ begin.apart => dead # dir["new"].chain
    /\ pc \in {"unlink_chain", "rename"} => ~Present("path")
    /\ pc = "rename_remove" => dir["path"] = dir["new"]

ResultSafe == pc # "idle" => result = "none"

\* The inductive invariant of the proofs.
IInv == /\ TypeOK /\ PathIsWhole /\ PathSafe /\ FileSafe /\ NewSafe /\ ResultSafe
        /\ pc = "idle" => SaveIsAtomic /\ SuccessReplaces

\* The abstract file, as storage_load would show it at this point.
Stored == IF storage_load.rc = "ok" THEN storage_load.of ELSE NoChain

Abstract == INSTANCE AtomicFile
  WITH Lost <- NoChain, stored <- Stored,
       asked <- val, saving <- pc # "idle", sound <- begin.sound /\ begin.apart, answer <- result

\* storage_save implements AtomicFile: the content that can be loaded is the
\* old one up to one step of the save, and the new one from then on, also when
\* the power goes.
SaveImplementsFile == Abstract!AtomicSpec

\* storage.h:16-17, "A failure leaves the old file or a complete path.new":
\* after STORAGE_EIO, a content that could be loaded when the save began, or
\* the new one, can still be loaded.
FailureLeavesACopy ==
  result = "EIO" /\ begin.had => Holds(begin.of) \/ Holds(val)

=============================================================================
