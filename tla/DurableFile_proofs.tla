------------------------- MODULE DurableFile_proofs -------------------------
(***************************************************************************)
(* What saving a marker promises, for every number of saves, with and      *)
(* without the sync of the directory.                                      *)
(*                                                                         *)
(* A power loss may bring back any directory of dirs, so all that is said  *)
(* of the marker is said of the marker of each of them.  The argument is   *)
(* that a save never touches an inode some directory of dirs has for a     *)
(* marker: it writes a new inode, or the temporary file a failed save left *)
(* behind, and what it renames is whole and synced by then.                *)
(***************************************************************************)
EXTENDS DurableFile, TLAPS

Directory == [tmp : Inode, marker : Inode]

DurableType ==
  /\ dir \in Directory /\ dirs \subseteq Directory /\ dir \in dirs
  /\ data \in [Inode -> Inode \cup {Torn}]
  /\ synced \subseteq Inode
  /\ saving \in {"idle", "write", "sync", "rename", "directory"}
  /\ version \in Inode /\ promised \in Inode /\ promised <= version

\* A marker, in any directory that may come back, is durable and whole.
MarkersWhole ==
  \A d \in dirs : /\ d.marker \in synced
                  /\ Contents(d) \in Inode /\ Contents(d) >= promised

\* The inode a save would write or has written is the marker of no directory.
TemporaryApart ==
  /\ \A d \in dirs : d.tmp # 0 => d.tmp # d.marker
  /\ \A d \in dirs : dir.tmp # 0 => dir.tmp # d.marker
  /\ \A d \in dirs : d.tmp <= version /\ d.marker <= version

\* What the steps of a save have reached.
SaveProgress ==
  /\ saving \in {"write", "sync", "rename"} => dir.tmp # 0 /\ version # 0
  /\ saving \in {"sync", "rename"} => data[dir.tmp] = version
  /\ saving = "rename" => dir.tmp \in synced
  /\ saving = "directory" => Contents(dir) = version

DurableInv == DurableType /\ MarkersWhole /\ TemporaryApart /\ SaveProgress

-----------------------------------------------------------------------------
(* The steps.  What a step does to a marker is stated on its own: the       *)
(* refinement needs it as well.                                            *)

\* Before the first save there is no file, and that is durable.
LEMMA DurableInit == FileInit => DurableInv
BY SavesNat DEF FileInit, DurableInv, DurableType, Directory, MarkersWhole, Contents,
                TemporaryApart, SaveProgress, Inode

\* The inode a save starts with: not 0, and no marker of a directory that may
\* come back, nor of the one it makes.
SaveInode == IF dir.tmp # 0 THEN dir.tmp ELSE version'

LEMMA CreateInode ==
  ASSUME DurableInv, Create
  PROVE  /\ SaveInode \in Inode /\ SaveInode # 0 /\ SaveInode <= version'
         /\ dir' = [tmp |-> SaveInode, marker |-> dir.marker]
         /\ \A d \in dirs : d.marker # SaveInode
<1>1. version' = version + 1 /\ version' \in Inode /\ version' # 0
  BY SavesNat DEF Create, DurableInv, DurableType, Inode
<1>2. dir' = [dir EXCEPT !.tmp = SaveInode]
  BY DEF Create, SaveInode
<1>3. dir' = [tmp |-> SaveInode, marker |-> dir.marker]
  BY <1>2 DEF DurableInv, DurableType, Directory
<1>4. CASE dir.tmp # 0
  BY <1>1, <1>3, <1>4, SavesNat
    DEF SaveInode, DurableInv, DurableType, Directory, TemporaryApart, Inode
<1>5. CASE dir.tmp = 0
  BY <1>1, <1>3, <1>5, SavesNat
    DEF SaveInode, DurableInv, DurableType, Directory, TemporaryApart, Inode
<1>6. QED
  BY <1>4, <1>5

\* Create cuts the contents of that inode and leaves every marker alone.
LEMMA CreateMarkers ==
  ASSUME DurableInv, Create
  PROVE  /\ dirs' = dirs \cup {dir'} /\ dir'.marker = dir.marker
         /\ \A d \in dirs' : /\ data'[d.marker] = data[d.marker]
                             /\ d.marker \in synced'
                             /\ \E e \in dirs : e.marker = d.marker
<1>1. /\ dirs' = dirs \cup {dir'}
      /\ data' = [data EXCEPT ![SaveInode] = Torn] /\ synced' = synced \ {SaveInode}
  BY DEF Create, SaveInode
<1>2. dir'.marker = dir.marker /\ dir \in dirs
  BY CreateInode DEF DurableInv, DurableType
<1>3. \A d \in dirs' : \E e \in dirs : e.marker = d.marker
  BY <1>1, <1>2
<1>4. \A e \in dirs : e.marker # SaveInode /\ e.marker \in synced /\ e.marker \in Inode
  BY CreateInode DEF DurableInv, DurableType, Directory, MarkersWhole
<1>5. \A e \in dirs : data'[e.marker] = data[e.marker] /\ e.marker \in synced'
  BY <1>1, <1>4 DEF DurableInv, DurableType
<1>6. QED
  BY <1>1, <1>2, <1>3, <1>5

\* Write fills the temporary file, which is no marker.
LEMMA WriteMarkers ==
  ASSUME DurableInv, Write
  PROVE  \A d \in dirs : data'[d.marker] = data[d.marker]
<1>1. dir.tmp # 0 /\ data' = [data EXCEPT ![dir.tmp] = version]
  BY DEF Write, DurableInv, SaveProgress
<1>2. \A d \in dirs : d.marker # dir.tmp /\ d.marker \in Inode
  BY <1>1 DEF DurableInv, DurableType, Directory, TemporaryApart
<1>3. QED
  BY <1>1, <1>2 DEF DurableInv, DurableType

\* A power loss cuts only contents that are not durable.
LEMMA PowerLossMarkers ==
  ASSUME DurableInv, PowerLoss
  PROVE  /\ \A d \in dirs : data'[d.marker] = data[d.marker]
         /\ data' \in [Inode -> Inode \cup {Torn}]
<1> PICK lost \in SUBSET (Inode \ synced) :
           data' = [i \in Inode |-> IF i \in lost THEN Torn ELSE data[i]]
  BY DEF PowerLoss
<1>1. \A d \in dirs : d.marker \in Inode /\ d.marker \notin lost
  BY DEF DurableInv, DurableType, Directory, MarkersWhole
<1>2. QED
  BY <1>1 DEF DurableInv, DurableType

LEMMA CreateInv ==
  ASSUME DurableInv, Create
  PROVE  DurableInv'
<1>1. /\ version' = version + 1 /\ version' \in Inode /\ version' # 0
      /\ promised' = promised /\ saving' = "write" /\ promised <= version
      /\ promised \in Inode /\ version \in Inode
  BY SavesNat DEF Create, DurableInv, DurableType, Inode
<1>2. dir' \in Directory /\ dirs' \subseteq Directory /\ dir' \in dirs'
  BY CreateInode, CreateMarkers DEF DurableInv, DurableType, Directory
<1>3. /\ data' = [data EXCEPT ![SaveInode] = Torn] /\ synced' = synced \ {SaveInode}
  BY DEF Create, SaveInode
<1>4. DurableType'
  BY <1>1, <1>2, <1>3, CreateInode, SavesNat DEF DurableInv, DurableType, Inode
<1>5. MarkersWhole'
  BY <1>1, CreateMarkers DEF DurableInv, MarkersWhole, Contents
<1>6. TemporaryApart'
  <2>1. \A d \in dirs : d.tmp <= version' /\ d.marker <= version'
    BY <1>1, SavesNat DEF DurableInv, DurableType, Directory, TemporaryApart, Inode
  <2>2. dir'.tmp = SaveInode /\ dir'.marker = dir.marker /\ dir \in dirs
    BY CreateInode DEF DurableInv, DurableType
  <2>3. QED
    BY <2>1, <2>2, CreateInode, CreateMarkers DEF DurableInv, TemporaryApart
<1>7. SaveProgress'
  BY <1>1, CreateInode DEF SaveProgress
<1>8. QED
  BY <1>4, <1>5, <1>6, <1>7 DEF DurableInv

LEMMA WriteInv ==
  ASSUME DurableInv, Write
  PROVE  DurableInv'
<1>1. DurableType'
  BY DEF Write, DurableInv, DurableType, Directory, Inode
<1>2. MarkersWhole'
  BY WriteMarkers DEF Write, DurableInv, MarkersWhole, Contents
<1>3. TemporaryApart'
  BY DEF Write, DurableInv, TemporaryApart
<1>4. SaveProgress'
  BY DEF Write, DurableInv, DurableType, Directory, SaveProgress
<1>5. QED
  BY <1>1, <1>2, <1>3, <1>4 DEF DurableInv

LEMMA SyncInv ==
  ASSUME DurableInv, Sync
  PROVE  DurableInv'
<1>1. DurableType'
  BY DEF Sync, DurableInv, DurableType, Directory
<1>2. MarkersWhole' /\ TemporaryApart' /\ SaveProgress'
  BY DEF Sync, DurableInv, MarkersWhole, Contents, TemporaryApart, SaveProgress
<1>3. QED
  BY <1>1, <1>2 DEF DurableInv

\* The marker of the directory a rename makes is the version that was saved.
LEMMA RenameMarker ==
  ASSUME DurableInv, Rename
  PROVE  /\ dir' = [tmp |-> 0, marker |-> dir.tmp] /\ dirs' = dirs \cup {dir'}
         /\ dir.tmp \in synced /\ data[dir.tmp] = version /\ version \in 1..MaxSaves
BY SavesNat DEF Rename, DurableInv, DurableType, SaveProgress, Inode

LEMMA RenameInv ==
  ASSUME DurableInv, Rename
  PROVE  DurableInv'
<1>1. dir.tmp \in Inode /\ dir.tmp <= version /\ 0 \in Inode /\ 0 <= version /\ dir.tmp # 0
  BY SavesNat DEF Rename, DurableInv, DurableType, Directory, TemporaryApart, SaveProgress, Inode
<1>2. DurableType'
  BY <1>1, RenameMarker DEF Rename, DurableInv, DurableType, Directory
<1>3. MarkersWhole'
  BY RenameMarker DEF Rename, DurableInv, DurableType, MarkersWhole, Contents
<1>4. TemporaryApart'
  BY <1>1, RenameMarker DEF Rename, DurableInv, TemporaryApart
<1>5. SaveProgress'
  BY RenameMarker DEF Rename, SaveProgress, Contents
<1>6. QED
  BY <1>2, <1>3, <1>4, <1>5 DEF DurableInv

\* The synced directory holds the last version, so promising it is right.
LEMMA SyncDirInv ==
  ASSUME DurableInv, SyncDir
  PROVE  DurableInv'
<1>1. CASE dirs' = {dir} /\ promised' = version
  <2>1. DurableType'
    BY <1>1, SavesNat DEF SyncDir, DurableInv, DurableType, Inode
  <2>2. MarkersWhole'
    BY <1>1, SavesNat DEF SyncDir, DurableInv, DurableType, MarkersWhole, Contents,
                          SaveProgress, Inode
  <2>3. TemporaryApart' /\ SaveProgress'
    BY <1>1 DEF SyncDir, DurableInv, DurableType, TemporaryApart, SaveProgress
  <2>4. QED
    BY <2>1, <2>2, <2>3 DEF DurableInv
<1>2. CASE UNCHANGED <<dirs, promised>>
  BY <1>2 DEF SyncDir, DurableInv, DurableType, MarkersWhole, Contents, TemporaryApart,
              SaveProgress
<1>3. QED
  BY <1>1, <1>2 DEF SyncDir

\* Only the program counter is reset.
LEMMA GiveUpInv ==
  ASSUME DurableInv, SaveFails \/ Killed
  PROVE  DurableInv'
BY DEF SaveFails, Killed, DurableInv, DurableType, MarkersWhole, Contents, TemporaryApart,
       SaveProgress

LEMMA PowerLossInv ==
  ASSUME DurableInv, PowerLoss
  PROVE  DurableInv'
<1> PICK d \in dirs : dir' = d /\ dirs' = {d}
  BY DEF PowerLoss
<1>1. /\ synced' = Inode /\ saving' = "idle" /\ version' = version /\ promised' = promised
  BY DEF PowerLoss
<1>2. DurableType'
  BY <1>1, PowerLossMarkers DEF DurableInv, DurableType
<1>3. MarkersWhole'
  BY <1>1, PowerLossMarkers DEF DurableInv, DurableType, Directory, MarkersWhole, Contents
<1>4. TemporaryApart'
  BY <1>1 DEF DurableInv, TemporaryApart
<1>5. SaveProgress'
  BY <1>1 DEF SaveProgress
<1>6. QED
  BY <1>2, <1>3, <1>4, <1>5 DEF DurableInv

LEMMA DurableStep == DurableInv /\ [FileNext]_fileVars => DurableInv'
<1> SUFFICES ASSUME DurableInv, [FileNext]_fileVars PROVE DurableInv'
  OBVIOUS
<1>1. CASE UNCHANGED fileVars
  BY <1>1 DEF fileVars, DurableInv, DurableType, MarkersWhole, Contents, TemporaryApart,
              SaveProgress
<1>2. QED
  BY <1>1, CreateInv, WriteInv, SyncInv, RenameInv, SyncDirInv, GiveUpInv, PowerLossInv
    DEF FileNext

\* The invariant holds of the specification.
LEMMA Durable == FileSpec => []DurableInv
BY DurableInit, DurableStep, PTL DEF FileSpec

-----------------------------------------------------------------------------
(* The results.                                                            *)

\* A reader, now or after a power loss, finds a whole version and none older than
\* one whose save returned with its directory synced (state_marker.rs:232-249), for
\* every number of saves, of saves that fail and of power losses.
THEOREM Survives == FileSpec => []PromisedSurvives
<1>1. DurableInv => PromisedSurvives
  BY TornIsNoVersion, SavesNat DEF DurableInv, MarkersWhole, PromisedSurvives, Inode
<1>2. QED
  BY <1>1, Durable, PTL

\* The save implements the atomic file: a rename replaces the version, a synced
\* directory settles it, and no other step of a save is visible.
THEOREM AtomicSave == FileSpec => ImplementsAtomicFile
<1>1. FileInit => File!Init
  BY SavesNat DEF FileInit, File!Init, Contents, Inode
<1>2. ASSUME DurableInv, [FileNext]_fileVars PROVE [File!Next]_(File!fileVars)
  <2>1. dir \in dirs
    BY <1>2 DEF DurableInv, DurableType
  <2>2. CASE Create
    <3>1. Contents(dir)' = Contents(dir)
      BY <1>2, <2>1, <2>2, CreateMarkers DEF Contents
    <3>2. {Contents(d) : d \in dirs}' = {Contents(d) : d \in dirs}
      BY <1>2, <2>1, <2>2, CreateMarkers DEF Contents
    <3>3. QED
      BY <3>1, <3>2 DEF File!fileVars
  <2>3. CASE Write
    BY <1>2, <2>1, <2>3, WriteMarkers DEF Write, Contents, File!fileVars
  <2>4. CASE Rename
    <3>1. version \in 1..MaxSaves /\ Contents(dir)' = version
      BY <1>2, <2>4, RenameMarker DEF Rename, Contents
    <3>2. {Contents(d) : d \in dirs}' = {Contents(d) : d \in dirs} \cup {version}
      BY <1>2, <2>4, <3>1, RenameMarker DEF Rename, Contents
    <3>3. QED
      BY <3>1, <3>2 DEF File!Next, File!Replace
  <2>5. CASE SyncDir
    BY <2>5 DEF SyncDir, Contents, File!Next, File!Settle, File!fileVars
  <2>6. CASE PowerLoss
    <3> PICK d \in dirs : dir' = d /\ dirs' = {d}
      BY <2>6 DEF PowerLoss
    <3>1. Contents(dir)' = Contents(d)
      BY <1>2, <2>6, PowerLossMarkers DEF Contents
    <3>2. {Contents(e) : e \in dirs}' = {Contents(dir)'}
      BY DEF Contents
    <3>3. QED
      BY <3>1, <3>2 DEF File!Next, File!PowerLoss
  <2>7. CASE Sync \/ SaveFails \/ Killed \/ UNCHANGED fileVars
    BY <2>7 DEF Sync, SaveFails, Killed, fileVars, Contents, File!fileVars
  <2>8. QED
    BY <1>2, <2>2, <2>3, <2>4, <2>5, <2>6, <2>7 DEF FileNext
<1>3. QED
  BY <1>1, <1>2, Durable, PTL DEF FileSpec, ImplementsAtomicFile, File!Spec
=============================================================================
