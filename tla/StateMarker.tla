---------------------------- MODULE StateMarker ----------------------------
(***************************************************************************)
(* The persistent state marker of one Discogs version (state_marker.rs):   *)
(* a record of three phases and one operator per method that changes it.   *)
(*                                                                         *)
(* File is the set of data files of the version (one per data type, so     *)
(* files_by_type and progress_by_file have the same keys).  Content stands *)
(* for byte-images and for their SHA-256 at the same time: the hash is     *)
(* taken to be collision free.  None is an absent optional value.          *)
(* Totals, durations, error lists and the publishing phase are derived     *)
(* from the fields below and no branch of the code reads them.             *)
(***************************************************************************)
EXTENDS Integers, FiniteSets

CONSTANTS File, Content, None

ASSUME FileFinite == IsFiniteSet(File)
ASSUME NoneFresh  == None \notin Content /\ None \notin File

PhaseStatus == {"Pending", "InProgress", "Completed", "Failed"}

\* What the marker remembers of one file's processing.  A file without an entry
\* and a file whose entry is Pending are treated alike by every reader.
FileProgress == [status : PhaseStatus, source : Content \cup {None}, records : Nat]

NoProgress == [status |-> "Pending", source |-> None, records |-> 0]

\* startedAt is a logical time, 0 when the processing phase has not started.
Marker == [download   : PhaseStatus,
           checksum   : [File -> Content \cup {None}],
           processing : PhaseStatus,
           startedAt  : Nat,
           processed  : Int,
           progress   : [File -> FileProgress],
           overall    : PhaseStatus]

\* A marker that does not exist or cannot be parsed is replaced by this one.
NewMarker == [download   |-> "Pending",
              checksum   |-> [f \in File |-> None],
              processing |-> "Pending",
              startedAt  |-> 0,
              processed  |-> 0,
              progress   |-> [f \in File |-> NoProgress],
              overall    |-> "Pending"]

IsDone(m, f) == m.progress[f].status = "Completed"

CompletedFiles(m) == {f \in File : IsDone(m, f)}

PendingFiles(m) == {f \in File : ~ IsDone(m, f)}

\* Mutant: an interrupted download discards finished files.
ShouldProcessForgetful(m) ==
  IF m.download \in {"Failed", "InProgress"} THEN "Reprocess"
  ELSE IF m.overall = "Completed" THEN "Skip" ELSE "Continue"

\* Mutant: a version whose broadcast is still owed counts as finished.
ShouldProcessHasty(m) ==
  IF m.processing = "Completed" THEN "Skip"
  ELSE IF m.download \in {"Failed", "InProgress"} /\ CompletedFiles(m) = {} THEN "Reprocess"
  ELSE "Continue"

ShouldProcess(m) ==
  IF m.download \in {"Failed", "InProgress"}
    THEN IF CompletedFiles(m) # {} THEN "Continue" ELSE "Reprocess"
  ELSE IF m.processing \in {"Failed", "InProgress"} THEN "Continue"
  ELSE IF m.overall = "Completed" THEN "Skip" ELSE "Continue"

StartDownload(m) ==
  [m EXCEPT !.download = "InProgress", !.checksum = [f \in File |-> None]]

StartFileDownload(m, f) == [m EXCEPT !.checksum[f] = None]

\* Mutant: new bytes do not drop a completed status.
FileBytesVerifiedTrusting(m, f, c) == [m EXCEPT !.checksum[f] = c]

\* Mutant: dropping a completed status leaves files_processed alone.
FileBytesVerifiedUncounted(m, f, c) ==
  LET bound == [m EXCEPT !.checksum[f] = c]
  IN  IF IsDone(m, f) /\ m.progress[f].source \notin {None, c}
        THEN [bound EXCEPT !.progress[f] = NoProgress, !.processing = "InProgress",
                           !.overall = "InProgress"]
        ELSE bound

\* file_downloaded followed by file_bytes_verified: the bytes c are on disk.  A
\* completed status computed from other bytes is dropped.
FileBytesVerified(m, f, c) ==
  LET bound == [m EXCEPT !.checksum[f] = c]
      stale == IsDone(m, f) /\ m.progress[f].source \notin {None, c}
  IN  IF ~ stale THEN bound
      ELSE [bound EXCEPT
              !.progress[f] = NoProgress,
              !.processed   = IF m.processed > 0 THEN m.processed - 1 ELSE 0,
              !.overall     = IF m.overall = "Completed" THEN "InProgress" ELSE m.overall,
              !.processing  = IF m.processing = "Completed" THEN "InProgress" ELSE m.processing]

CompleteDownload(m) == [m EXCEPT !.download = "Completed"]

StartProcessing(m, now) ==
  [m EXCEPT !.processing = "InProgress", !.startedAt = now, !.processed = 0,
            !.overall = "InProgress"]

StartFileProcessing(m, f) ==
  [m EXCEPT !.progress[f] = [status |-> "InProgress", source |-> m.checksum[f], records |-> 0]]

UpdateFileProgress(m, f, n) == [m EXCEPT !.progress[f].records = n]

CompleteFileProcessing(m, f, n) ==
  [m EXCEPT !.progress[f].status = "Completed", !.progress[f].records = n,
            !.processed = @ + 1]

CompleteProcessing(m) == [m EXCEPT !.processing = "Completed"]

CompleteExtraction(m) == [m EXCEPT !.overall = "Completed"]
=============================================================================
