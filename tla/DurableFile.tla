---------------------------- MODULE DurableFile ----------------------------
(***************************************************************************)
(* StateMarker::save and load (state_marker.rs) on a file system that may  *)
(* lose power: write a temporary file, sync it, rename it over the marker, *)
(* sync the directory.  save_metadata (downloader.rs) is the same without  *)
(* the last step.                                                          *)
(*                                                                         *)
(* The file system is external.  Data of an inode is durable once it is    *)
(* synced; before, a power loss may leave it empty or cut.  Changes of the *)
(* directory become durable in order, at any time up to the next sync of   *)
(* the directory.  Versions are counted; 0 is a file that does not exist.  *)
(***************************************************************************)
EXTENDS Naturals, FiniteSets

CONSTANTS MaxSaves,    \* versions saved
          SyncsDir,    \* the directory is synced after the rename
          Torn         \* contents that are not a whole version

ASSUME SavesNat == MaxSaves \in Nat /\ SyncsDir \in BOOLEAN
ASSUME TornIsNoVersion == Torn \notin Nat

VARIABLES dir,       \* the directory: inode of the temporary file and of the marker
          dirs,      \* states of it that a power loss may bring back
          data,      \* contents of the inodes, one per save
          synced,    \* inodes whose contents are durable
          saving,    \* where save stands
          version,   \* the version it saves
          promised   \* the last version whose save returned with the directory synced

fileVars == <<dir, dirs, data, synced, saving, version, promised>>

Inode == 0..MaxSaves     \* 0 when the name does not exist

FileInit ==
  /\ dir = [tmp |-> 0, marker |-> 0] /\ dirs = {dir}
  /\ data = [i \in Inode |-> 0]
  /\ synced = Inode
  /\ saving = "idle" /\ version = 0 /\ promised = 0

Contents(d) == data[d.marker]

-----------------------------------------------------------------------------
(* save.                                                                   *)

\* File::create truncates a temporary file left behind by a save that failed.
Create ==
  /\ saving = "idle" /\ version < MaxSaves
  /\ version' = version + 1
  /\ LET inode == IF dir.tmp # 0 THEN dir.tmp ELSE version'
     IN  /\ dir' = [dir EXCEPT !.tmp = inode]
         /\ data' = [data EXCEPT ![inode] = Torn]
         /\ synced' = synced \ {inode}
  /\ dirs' = dirs \cup {dir'}
  /\ saving' = "write"
  /\ UNCHANGED promised

Write ==
  /\ saving = "write"
  /\ data' = [data EXCEPT ![dir.tmp] = version]
  /\ saving' = "sync"
  /\ UNCHANGED <<dir, dirs, synced, version, promised>>

\* Mutant: no fsync before the rename.
SyncSkipped ==
  /\ saving = "sync"
  /\ saving' = "rename"
  /\ UNCHANGED <<dir, dirs, data, synced, version, promised>>

Sync ==
  /\ saving = "sync"
  /\ synced' = synced \cup {dir.tmp}
  /\ saving' = "rename"
  /\ UNCHANGED <<dir, dirs, data, version, promised>>

Rename ==
  /\ saving = "rename"
  /\ dir' = [tmp |-> 0, marker |-> dir.tmp]
  /\ dirs' = dirs \cup {dir'}
  /\ saving' = IF SyncsDir THEN "directory" ELSE "idle"
  /\ UNCHANGED <<data, synced, version, promised>>

\* Any of these fails: the save returns the error and the marker stays.
SaveFails ==
  /\ saving \in {"write", "sync", "rename"}
  /\ saving' = "idle"
  /\ UNCHANGED <<dir, dirs, data, synced, version, promised>>

\* Mutant: the directory is opened and not synced.
SyncDirMissing ==
  /\ saving = "directory"
  /\ promised' = version
  /\ saving' = "idle"
  /\ UNCHANGED <<dir, dirs, data, synced, version>>

\* Best effort: an error here is not an error of the save.
SyncDir ==
  /\ saving = "directory"
  /\ \/ dirs' = {dir} /\ promised' = version
     \/ UNCHANGED <<dirs, promised>>
  /\ saving' = "idle"
  /\ UNCHANGED <<dir, data, synced, version>>

-----------------------------------------------------------------------------
(* The process dies, or the machine does.                                  *)
Killed ==
  /\ saving # "idle"
  /\ saving' = "idle"
  /\ UNCHANGED <<dir, dirs, data, synced, version, promised>>

PowerLoss ==
  /\ \E d \in dirs : dir' = d /\ dirs' = {d}
  /\ \E lost \in SUBSET (Inode \ synced) :
       data' = [i \in Inode |-> IF i \in lost THEN Torn ELSE data[i]]
  /\ synced' = Inode
  /\ saving' = "idle"
  /\ UNCHANGED <<version, promised>>

FileNext ==
  \/ Create \/ Write \/ Sync \/ Rename \/ SaveFails \/ SyncDir
  \/ Killed \/ PowerLoss

FileSpec == FileInit /\ [][FileNext]_fileVars

-----------------------------------------------------------------------------
(* Properties.                                                             *)
\* A reader, now or after a power loss, never finds a marker that cannot be
\* parsed, and none older than one that was saved with its directory synced: a
\* power loss may bring back that version or a later one (state_marker.rs:232-249).
PromisedSurvives == \A d \in dirs : Contents(d) # Torn /\ Contents(d) >= promised

File == INSTANCE AtomicFile WITH Version <- 1..MaxSaves,
                                 value <- Contents(dir),
                                 kept <- {Contents(d) : d \in dirs}

\* The save implements the atomic file the other modules take the marker to be.
ImplementsAtomicFile == File!Spec
=============================================================================
