----------------------------- MODULE Downloader -----------------------------
(***************************************************************************)
(* The download phase of a run (discogs/downloader.rs,                     *)
(* download_discogs_data and download_file): every file of the dump is     *)
(* fetched or recognised as already present, its bytes are checked against *)
(* the published CHECKSUM list when there is one that names it, and the    *)
(* checksum that identifies the bytes is bound to the state marker.        *)
(*                                                                         *)
(* Durable state: the marker file (disk), the dump files (bytes) and the   *)
(* checksum database .discogs_metadata.json (meta).  Volatile state: the   *)
(* marker in memory (mem), the checksum database in memory (trusted) and   *)
(* the position in the download loop.  The next-state relation is          *)
(* completed by the module that runs this phase.                           *)
(***************************************************************************)
EXTENDS StateMarker

CONSTANTS Torn,                \* bytes cut short: their hash is in no database
          Good,                \* the bytes Discogs published
          MaxDownloadRetries   \* attempts of download_file

ASSUME TornFresh == Torn \notin Content /\ Torn # None
ASSUME GoodIsContent == Good \in Content
ASSUME RetriesPositive == MaxDownloadRetries \in Nat \ {0}

VARIABLES disk,       \* the marker file
          mem,        \* the marker of the run in progress
          bytes,      \* what the dump directory holds for each file
          meta,       \* the checksum database on disk
          trusted,    \* the checksum database in memory
          pc,         \* where the run stands
          todo,       \* files the download loop has still to visit
          current,    \* the file being fetched
          attempt,    \* the attempt of download_file
          published,  \* files named by the CHECKSUM list fetched in this run, if any
          budget      \* faults the environment may still inject

dlVars == <<disk, mem, bytes, meta, trusted, pc, todo, current, attempt, published, budget>>

NoBytes == [f \in File |-> None]

\* One of a bounded number of failures, crashes and interventions.
Fault == budget > 0 /\ budget' = budget - 1

\* Downloader::save_state_marker: an error is logged and swallowed.
TrySave(m) == \/ disk' = m /\ UNCHANGED budget
              \/ Fault /\ UNCHANGED disk

\* Mutant: the published list is not consulted for a file that is present.
HaveFileUnchecked(f) == bytes[f] # None /\ trusted[f] = bytes[f]

\* should_download, then the cross-check against the published list.
HaveFile(f) == /\ bytes[f] # None
               /\ trusted[f] = bytes[f]
               /\ f \in published => trusted[f] = Good

-----------------------------------------------------------------------------
\* The CHECKSUM list is optional: a failure to fetch it is not an error, and its
\* lines that do not parse are skipped, so it may name some of the files or none.
StartPhase ==
  /\ pc = "list"
  /\ published' \in SUBSET File
  /\ mem' = StartDownload(mem)
  /\ TrySave(mem')
  /\ todo' = File
  /\ pc' = "next"
  /\ UNCHANGED <<bytes, meta, trusted, current, attempt>>

\* The output directory cannot be created, or a local file cannot be read.
PhaseFails ==
  /\ pc \in {"list", "next"}
  /\ Fault
  /\ pc' = "error"
  /\ UNCHANGED <<disk, mem, bytes, meta, trusted, todo, current, attempt, published>>

AlreadyHave(f) ==
  /\ pc = "next" /\ f \in todo
  /\ HaveFile(f)
  /\ mem' = FileBytesVerified(mem, f, trusted[f])
  /\ TrySave(mem')
  /\ todo' = todo \ {f}
  /\ UNCHANGED <<bytes, meta, trusted, pc, current, attempt, published>>

BeginFetch(f) ==
  /\ pc = "next" /\ f \in todo
  /\ ~ HaveFile(f)
  /\ mem' = StartFileDownload(mem, f)
  /\ TrySave(mem')
  /\ current' = f
  /\ attempt' = 1
  /\ pc' = "request"
  /\ UNCHANGED <<bytes, meta, trusted, todo, published>>

\* Mutant: the hash of the partial file is recorded before the body is complete.
CreateFileTrusting ==
  /\ pc = "request"
  /\ bytes' = [bytes EXCEPT ![current] = Torn]
  /\ trusted' = [trusted EXCEPT ![current] = Torn]
  /\ pc' = "stream"
  /\ UNCHANGED <<disk, mem, meta, todo, current, attempt, published, budget>>

\* A successful response: the local file is created, which truncates it.
CreateFile ==
  /\ pc = "request"
  /\ bytes' = [bytes EXCEPT ![current] = Torn]
  /\ pc' = "stream"
  /\ UNCHANGED <<disk, mem, meta, trusted, todo, current, attempt, published, budget>>

\* File::create fails: the only error that is not retried.
CreateFails ==
  /\ pc = "request"
  /\ Fault
  /\ pc' = "error"
  /\ UNCHANGED <<disk, mem, bytes, meta, trusted, todo, current, attempt, published>>

\* The whole body is written, synced and hashed.  A body that is not the dump
\* (an error page served with status 200) is a fault of the server.
Received(c) ==
  /\ pc = "stream"
  /\ IF c = Good THEN UNCHANGED budget ELSE Fault
  /\ bytes' = [bytes EXCEPT ![current] = c]
  /\ trusted' = [trusted EXCEPT ![current] = c]
  /\ pc' = "verify"
  /\ UNCHANGED <<disk, mem, meta, todo, current, attempt, published>>

\* A request, a chunk or a sync fails.  The partial file is removed before the
\* next attempt and after the last one; the removal itself may fail.
AttemptFails ==
  /\ pc \in {"request", "stream"}
  /\ Fault
  /\ bytes' \in {bytes, [bytes EXCEPT ![current] = None]}
  /\ IF attempt < MaxDownloadRetries
       THEN attempt' = attempt + 1 /\ pc' = "request"
       ELSE pc' = "error" /\ UNCHANGED attempt
  /\ UNCHANGED <<disk, mem, meta, trusted, todo, current, published>>

Mismatch == current \in published /\ trusted[current] # Good

RejectBytes ==
  /\ pc = "verify" /\ Mismatch
  /\ trusted' = [trusted EXCEPT ![current] = None]
  /\ \/ bytes' = [bytes EXCEPT ![current] = None] /\ UNCHANGED budget
     \/ Fault /\ UNCHANGED bytes
  /\ pc' = "error"
  /\ UNCHANGED <<disk, mem, meta, todo, current, attempt, published>>

\* The checksum database is saved after every file; an error is swallowed.
AcceptBytes ==
  /\ pc = "verify" /\ ~ Mismatch
  /\ \/ meta' = trusted /\ UNCHANGED budget
     \/ Fault /\ UNCHANGED meta
  /\ pc' = "record"
  /\ UNCHANGED <<disk, mem, bytes, trusted, todo, current, attempt, published>>

RecordBytes ==
  /\ pc = "record"
  /\ mem' = FileBytesVerified(mem, current, trusted[current])
  /\ TrySave(mem')
  /\ todo' = todo \ {current}
  /\ pc' = "next"
  /\ UNCHANGED <<bytes, meta, trusted, current, attempt, published>>

FinishPhase ==
  /\ pc = "next" /\ todo = {}
  /\ mem' = CompleteDownload(mem)
  /\ TrySave(mem')
  /\ pc' = "metadata"
  /\ UNCHANGED <<bytes, meta, trusted, todo, current, attempt, published>>

\* The last save of the checksum database is the one whose error propagates.
SaveMetadata ==
  /\ pc = "metadata"
  /\ \/ meta' = trusted /\ pc' = "ready" /\ UNCHANGED budget
     \/ Fault /\ pc' = "error" /\ UNCHANGED meta
  /\ UNCHANGED <<disk, mem, bytes, trusted, todo, current, attempt, published>>

DownloadStep ==
  \/ StartPhase \/ PhaseFails
  \/ \E f \in File : AlreadyHave(f) \/ BeginFetch(f)
  \/ CreateFile \/ CreateFails
  \/ \E c \in Content : Received(c)
  \/ AttemptFails \/ RejectBytes \/ AcceptBytes \/ RecordBytes
  \/ FinishPhase \/ SaveMetadata

DownloadPcs == {"list", "next", "request", "stream", "verify", "record", "metadata"}

DlTypeOK ==
  /\ disk \in Marker /\ mem \in Marker
  /\ bytes \in [File -> Content \cup {None, Torn}]
  /\ meta \in [File -> Content \cup {None}]
  /\ trusted \in [File -> Content \cup {None}]
  /\ todo \subseteq File
  /\ current \in File \cup {None}
  /\ pc \in {"request", "stream", "verify", "record"} => current \in File
  /\ attempt \in Nat
  /\ published \subseteq File
  /\ budget \in Nat
=============================================================================
