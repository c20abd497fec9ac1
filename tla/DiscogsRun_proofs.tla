-------------------------- MODULE DiscogsRun_proofs --------------------------
(***************************************************************************)
(* Proofs about DiscogsRun for every set of files, of contents, any number *)
(* of workers and any number of faults: first the types and the inductive  *)
(* invariant that ties marker, broker and dump files to each other; on top *)
(* of it, that what is published is verified, counts are exact, what is    *)
(* finalised was broadcast, and completed progress is kept.                *)
(***************************************************************************)
EXTENDS DiscogsRun, FiniteSetTheorems, TLAPS

-----------------------------------------------------------------------------
(* The marker's methods stay within the marker's type.                     *)

\* The marker a missing or unreadable file is replaced by is well formed.
LEMMA NewMarkerType == NewMarker \in Marker
BY DEF NewMarker, Marker, FileProgress, NoProgress, PhaseStatus

\* StateMarker::start_download, complete_download.
LEMMA DownloadOpsType ==
  ASSUME NEW m \in Marker
  PROVE  StartDownload(m) \in Marker /\ CompleteDownload(m) \in Marker
BY DEF StartDownload, CompleteDownload, Marker, PhaseStatus

\* StateMarker::start_file_download.
LEMMA StartFileDownloadType ==
  ASSUME NEW m \in Marker, NEW f \in File
  PROVE  StartFileDownload(m, f) \in Marker
BY DEF StartFileDownload, Marker

\* StateMarker::file_bytes_verified.
LEMMA VerifiedType ==
  ASSUME NEW m \in Marker, NEW f \in File, NEW c \in Content \cup {None}
  PROVE  FileBytesVerified(m, f, c) \in Marker
<1> DEFINE bound == [m EXCEPT !.checksum[f] = c]
           stale == IsDone(m, f) /\ m.progress[f].source \notin {None, c}
<1>1. bound \in Marker
  BY DEF Marker
<1>2. CASE ~ stale
  BY <1>1, <1>2 DEF FileBytesVerified
<1>3. CASE stale
  <2> DEFINE pr == [m.progress EXCEPT ![f] = NoProgress]
             n  == IF m.processed > 0 THEN m.processed - 1 ELSE 0
             ov == IF m.overall = "Completed" THEN "InProgress" ELSE m.overall
             ps == IF m.processing = "Completed" THEN "InProgress" ELSE m.processing
  <2>1. FileBytesVerified(m, f, c) =
          [bound EXCEPT !.progress = pr, !.processed = n, !.overall = ov, !.processing = ps]
    BY <1>3, <1>1 DEF FileBytesVerified, Marker
  <2>2. pr \in [File -> FileProgress]
    BY DEF Marker, FileProgress, NoProgress, PhaseStatus
  <2>3. n \in Int /\ ov \in PhaseStatus /\ ps \in PhaseStatus
    BY DEF Marker, PhaseStatus
  <2> HIDE DEF bound, pr, n, ov, ps
  <2>4. QED
    BY <1>1, <2>1, <2>2, <2>3 DEF Marker
<1>4. QED
  BY <1>2, <1>3

\* StateMarker::complete_processing, complete_extraction.
LEMMA PhaseOpsType ==
  ASSUME NEW m \in Marker
  PROVE  CompleteProcessing(m) \in Marker /\ CompleteExtraction(m) \in Marker
<1>1. CompleteProcessing(m) \in Marker
  BY DEF CompleteProcessing, Marker, PhaseStatus
<1>2. CompleteExtraction(m) \in Marker
  BY DEF CompleteExtraction, Marker, PhaseStatus
<1>3. QED
  BY <1>1, <1>2

\* StateMarker::start_processing.
LEMMA StartProcessingType ==
  ASSUME NEW m \in Marker, NEW t \in Nat
  PROVE  StartProcessing(m, t) \in Marker
<1> DEFINE ip == "InProgress"
<1>1. ip \in PhaseStatus /\ 0 \in Int
  BY DEF PhaseStatus
<1>2. StartProcessing(m, t) = [m EXCEPT !.processing = ip, !.startedAt = t,
                                        !.processed = 0, !.overall = ip]
  BY DEF StartProcessing
<1> HIDE DEF ip
<1>3. QED
  BY <1>1, <1>2 DEF Marker

\* StateMarker::start_file_processing.
LEMMA StartFileType ==
  ASSUME NEW m \in Marker, NEW f \in File
  PROVE  StartFileProcessing(m, f) \in Marker
BY DEF StartFileProcessing, Marker, FileProgress, PhaseStatus

\* StateMarker::update_file_progress and complete_file_processing.
LEMMA FileOpsType ==
  ASSUME NEW m \in Marker, NEW f \in File, NEW n \in Nat
  PROVE  /\ UpdateFileProgress(m, f, n) \in Marker
         /\ CompleteFileProcessing(m, f, n) \in Marker
<1>2. UpdateFileProgress(m, f, n) \in Marker
  BY DEF UpdateFileProgress, Marker, FileProgress, PhaseStatus
<1>3. CompleteFileProcessing(m, f, n) \in Marker
  <2> DEFINE pr == [m.progress EXCEPT ![f].status = "Completed", ![f].records = n]
             k  == m.processed + 1
  <2>1. pr \in [File -> FileProgress] /\ k \in Int
    BY DEF Marker, FileProgress, PhaseStatus
  <2>2. CompleteFileProcessing(m, f, n) = [m EXCEPT !.progress = pr, !.processed = k]
    BY DEF CompleteFileProcessing, Marker
  <2> HIDE DEF pr, k
  <2>3. QED
    BY <2>1, <2>2 DEF Marker
<1>4. QED
  BY <1>2, <1>3

-----------------------------------------------------------------------------
(* Type correctness.                                                       *)

\* The first attempt at a version starts well typed.
LEMMA InitType == Init => TypeOK
<1> SUFFICES ASSUME Init PROVE TypeOK
  OBVIOUS
<1>1. disk \in Marker /\ mem \in Marker
  BY NewMarkerType DEF Init
<1>2. QED
  BY <1>1, FaultsNat DEF Init, TypeOK, DlTypeOK, NoBytes, NoTasks, Pcs, DownloadPcs, TaskState,
     Outcome, Delivery

\* Every step of the download phase keeps the types.
LEMMA DownloadType ==
  ASSUME TypeOK, Download PROVE TypeOK'
<1> USE DEF TypeOK, DlTypeOK, Download, runVars, Fault, TrySave, Pcs, DownloadPcs
<1>1. CASE StartPhase
  BY <1>1, DownloadOpsType DEF StartPhase
<1>2. CASE PhaseFails
  BY <1>2 DEF PhaseFails
<1>3. ASSUME NEW f \in File, AlreadyHave(f) PROVE TypeOK'
  BY <1>3, VerifiedType DEF AlreadyHave
<1>4. ASSUME NEW f \in File, BeginFetch(f) PROVE TypeOK'
  BY <1>4, StartFileDownloadType DEF BeginFetch
<1>5. CASE CreateFile
  BY <1>5 DEF CreateFile
<1>6. CASE CreateFails
  BY <1>6 DEF CreateFails
<1>7. ASSUME NEW c \in Content, Received(c) PROVE TypeOK'
  BY <1>7 DEF Received
<1>8. CASE AttemptFails
  BY <1>8 DEF AttemptFails
<1>9. CASE RejectBytes
  BY <1>9 DEF RejectBytes
<1>10. CASE AcceptBytes
  BY <1>10 DEF AcceptBytes
<1>11. CASE RecordBytes
  BY <1>11, VerifiedType DEF RecordBytes
<1>12. CASE FinishPhase
  BY <1>12, DownloadOpsType DEF FinishPhase
<1>13. CASE SaveMetadata
  BY <1>13 DEF SaveMetadata
<1>14. QED
  BY <1>1, <1>2, <1>3, <1>4, <1>5, <1>6, <1>7, <1>8, <1>9, <1>10, <1>11, <1>12, <1>13
     DEF DownloadStep

\* What DropLocals leaves behind is well typed.
LEMMA DropLocalsType ==
  ASSUME DropLocals
  PROVE  /\ mem' \in Marker
         /\ trusted' \in [File -> Content \cup {None}]
         /\ todo' \subseteq File /\ current' \in File \cup {None} /\ attempt' \in Nat
         /\ published' \subseteq File /\ fresh' \in BOOLEAN
         /\ task' \in [File -> TaskState]
         /\ \A f \in File : task'[f] = "none"
BY NewMarkerType DEF DropLocals, NoBytes, NoTasks, TaskState

\* Every other step of a run, and every step of the environment.
LEMMA RunType ==
  ASSUME TypeOK, Next, ~ Download PROVE TypeOK'
<1> USE DEF TypeOK, DlTypeOK, Fault, TrySave, SaveOr, Pcs, DownloadPcs
<1>1. CASE BeginRun
  <2>1. mem' \in Marker
    BY <1>1, NewMarkerType DEF BeginRun
  <2>3. \/ fresh' = FALSE /\ UNCHANGED budget
        \/ fresh' = TRUE /\ Fault
    BY <1>1, Zenon DEF BeginRun
  <2>4. budget' \in Nat
    <3>1. budget' = budget \/ (budget > 0 /\ budget' = budget - 1)
      BY <2>3, Zenon
    <3>2. budget \in Nat
      OBVIOUS
    <3> HIDE DEF TypeOK
    <3>3. QED
      BY <3>1, <3>2
  <2>6. fresh' \in BOOLEAN
    BY <2>3, Zenon
  <2>2. trusted' \in [File -> Content \cup {None}]
    BY <1>1 DEF BeginRun, NoBytes
  <2>5. QED
    BY <1>1, <2>1, <2>2, <2>4, <2>6 DEF BeginRun, Outcome
<1>2. CASE SkipRun
  BY <1>2 DEF SkipRun, Outcome, dlVars
<1>3. CASE NothingListed
  BY <1>3 DEF NothingListed, Outcome
<1>4. CASE BeginProcessing
  BY <1>4, StartProcessingType DEF BeginProcessing, TaskState
<1>5. CASE AllProcessed
  <2>1. CASE mem.overall = "Completed"
    BY <1>5, <2>1, DropLocalsType DEF AllProcessed, Outcome
  <2>2. CASE mem.overall # "Completed"
    BY <1>5, <2>2, PhaseOpsType DEF AllProcessed
  <2>3. QED
    BY <2>1, <2>2
<1>6. ASSUME NEW f \in File, TaskStep(f) PROVE TypeOK'
  <2> USE DEF taskRest, TaskSave, HasPermit, TaskState
  <2>1. CASE TaskSkip(f)
    BY <2>1 DEF TaskSkip
  <2>2. CASE TaskBegin(f)
    <3>1. mem' \in Marker
      BY <2>2, StartFileType DEF TaskBegin
    <3>2. disk' \in Marker /\ budget' \in Nat
      BY <2>2, <3>1 DEF TaskBegin
    <3>3. QED
      BY <2>2, <3>1, <3>2 DEF TaskBegin
  <2>3. CASE TaskCount(f)
    <3>1. mem' \in Marker
      BY <2>3, FileOpsType, SizeNat DEF TaskCount
    <3>2. disk' \in Marker /\ budget' \in Nat
      BY <2>3, <3>1 DEF TaskCount
    <3>3. QED
      BY <2>3, <3>1, <3>2 DEF TaskCount
  <2>4. CASE TaskPublish(f)
    BY <2>4 DEF TaskPublish, Delivery
  <2>5. CASE TaskDrained(f)
    BY <2>5 DEF TaskDrained, Delivery
  <2>6. CASE TaskAnnounce(f)
    BY <2>6 DEF TaskAnnounce, Delivery
  <2>7. CASE TaskComplete(f)
    <3>1. mem' \in Marker
      BY <2>7, FileOpsType, SizeNat DEF TaskComplete
    <3>2. disk' \in Marker /\ budget' \in Nat
      BY <2>7, <3>1 DEF TaskComplete
    <3>3. QED
      BY <2>7, <3>1, <3>2 DEF TaskComplete
  <2>8. CASE TaskFails(f)
    <3>1. broker' \in [File -> Delivery]
      <4>1. broker \in [File -> Delivery]
        OBVIOUS
      <4>2. QED
        BY ONLY <2>8, <4>1 DEF TaskFails, Delivery
    <3>2. budget' \in Nat /\ task' \in [File -> TaskState]
      BY <2>8 DEF TaskFails
    <3>3. UNCHANGED <<disk, mem, taskRest>>
      BY <2>8 DEF TaskFails
    <3>4. \A g \in File : task'[g] \in {"drained", "announced"} => task'[g] = task[g]
      BY <2>8 DEF TaskFails
    <3>5. QED
      BY <3>1, <3>2, <3>3, <3>4
  <2>9. QED
    BY <1>6, <2>1, <2>2, <2>3, <2>4, <2>5, <2>6, <2>7, <2>8 DEF TaskStep
<1>7. CASE JoinSuccess
  BY <1>7, PhaseOpsType DEF JoinSuccess
<1>8. CASE JoinFailure
  BY <1>8, DropLocalsType DEF JoinFailure, Outcome
<1>9. CASE BroadcastSent
  BY <1>9 DEF BroadcastSent, Broadcast, StartedAt, Marker, FileProgress
<1>10. CASE BroadcastFails
  <2>1. purge' \in [File -> Nat] /\ counts' \in [File -> Nat]
    BY <1>10 DEF BroadcastFails, Broadcast, StartedAt, Marker, FileProgress
  <2>2. QED
    BY <1>10, <2>1, DropLocalsType DEF BroadcastFails, Outcome
<1>11. CASE Finalise
  <2>1. disk' \in Marker /\ mem' \in Marker
    BY <1>11, PhaseOpsType, DropLocalsType DEF Finalise
  <2>2. CASE DropLocals
    BY <1>11, <2>1, <2>2, DropLocalsType DEF Finalise, Outcome
  <2>3. CASE UNCHANGED <<outcome, trusted, todo, current, attempt, published, task, fresh>>
    BY <1>11, <2>1, <2>3 DEF Finalise, Outcome
  <2>4. QED
    BY <1>11, <2>2, <2>3 DEF Finalise
<1>12. CASE RunError
  BY <1>12, DropLocalsType DEF RunError, Outcome
<1>13. CASE Exit
  BY <1>13 DEF Exit, Outcome
<1>14. CASE Restart
  BY <1>14 DEF Restart, runVars
<1>15. CASE RequestShutdown
  BY <1>15 DEF RequestShutdown
<1>16. CASE Crash
  <2>1. budget' \in Nat
    BY <1>16 DEF Crash
  <2>2. QED
    BY <1>16, <2>1, DropLocalsType DEF Crash, Outcome
<1>17. ASSUME NEW f \in File, OperatorDeletes(f) PROVE TypeOK'
  BY <1>17 DEF OperatorDeletes, runVars
<1>18. QED
  BY <1>1, <1>2, <1>3, <1>4, <1>5, <1>6, <1>7, <1>8, <1>9, <1>10, <1>11, <1>12, <1>13, <1>14,
     <1>15, <1>16, <1>17 DEF Next, RunStep, Environment

\* Every variable stays in its type, for any number of files, workers and faults.
THEOREM TypeCorrect == Spec => []TypeOK
<1>1. Init => TypeOK
  BY InitType
<1>2. TypeOK /\ [Next]_vars => TypeOK'
  <2> SUFFICES ASSUME TypeOK, [Next]_vars PROVE TypeOK'
    OBVIOUS
  <2>1. CASE Next
    BY <2>1, DownloadType, RunType
  <2>2. CASE UNCHANGED vars
    BY <2>2 DEF TypeOK, DlTypeOK, vars, dlVars, runVars
  <2>3. QED
    BY <2>1, <2>2
<1>3. QED
  BY <1>1, <1>2, PTL DEF Spec

-----------------------------------------------------------------------------
(* What the marker's methods change, field by field.                       *)

\* A new marker has nothing started and nothing completed.
LEMMA NewMarkerFields ==
  /\ NewMarker.startedAt = 0 /\ NewMarker.processing = "Pending"
  /\ \A f \in File : ~ IsDone(NewMarker, f)
BY DEF NewMarker, NoProgress, IsDone

\* The download phase's own methods leave the processing phase alone.
LEMMA DownloadOpsFields ==
  ASSUME NEW m \in Marker
  PROVE  /\ StartDownload(m).progress = m.progress
         /\ StartDownload(m).processing = m.processing
         /\ StartDownload(m).startedAt = m.startedAt
         /\ CompleteDownload(m).progress = m.progress
         /\ CompleteDownload(m).processing = m.processing
         /\ CompleteDownload(m).startedAt = m.startedAt
         /\ CompleteDownload(m).checksum = m.checksum
BY DEF StartDownload, CompleteDownload, Marker

\* start_file_download forgets the checksum of one file.
LEMMA StartFileDownloadFields ==
  ASSUME NEW m \in Marker, NEW f \in File
  PROVE  /\ StartFileDownload(m, f).progress = m.progress
         /\ StartFileDownload(m, f).processing = m.processing
         /\ StartFileDownload(m, f).startedAt = m.startedAt
         /\ \A g \in File \ {f} : StartFileDownload(m, f).checksum[g] = m.checksum[g]
BY DEF StartFileDownload, Marker

\* file_bytes_verified binds the checksum and drops at most the status of the
\* file itself, which it must when that status is of other bytes.
LEMMA VerifiedFields ==
  ASSUME NEW m \in Marker, NEW f \in File, NEW c \in Content \cup {None}
  PROVE  LET r == FileBytesVerified(m, f, c)
         IN  /\ r.startedAt = m.startedAt
             /\ r.checksum = [m.checksum EXCEPT ![f] = c]
             /\ r.processing = "Pending" <=> m.processing = "Pending"
             /\ \A g \in File \ {f} : r.progress[g] = m.progress[g]
             /\ \/ /\ r.progress[f] = m.progress[f]
                   /\ IsDone(m, f) => m.progress[f].source \in {None, c}
                \/ r.progress[f].status = "Pending"
<1> DEFINE bound == [m EXCEPT !.checksum[f] = c]
           stale == IsDone(m, f) /\ m.progress[f].source \notin {None, c}
<1>1. /\ bound \in Marker /\ bound.checksum = [m.checksum EXCEPT ![f] = c]
      /\ bound.progress = m.progress /\ bound.startedAt = m.startedAt
      /\ bound.processing = m.processing
  BY DEF Marker
<1>2. CASE ~ stale
  BY <1>1, <1>2 DEF FileBytesVerified
<1>3. CASE stale
  <2> DEFINE pr == [m.progress EXCEPT ![f] = NoProgress]
             n  == IF m.processed > 0 THEN m.processed - 1 ELSE 0
             ov == IF m.overall = "Completed" THEN "InProgress" ELSE m.overall
             ps == IF m.processing = "Completed" THEN "InProgress" ELSE m.processing
             r  == [bound EXCEPT !.progress = pr, !.processed = n, !.overall = ov,
                                 !.processing = ps]
  <2>1. FileBytesVerified(m, f, c) = r
    BY <1>3, <1>1 DEF FileBytesVerified, Marker
  <2>2. /\ \A g \in File \ {f} : pr[g] = m.progress[g]
        /\ pr[f].status = "Pending"
    BY DEF Marker, NoProgress
  <2>3. ps = "Pending" <=> m.processing = "Pending"
    OBVIOUS
  <2> HIDE DEF bound, pr, n, ov, ps
  <2>4. /\ r.progress = pr /\ r.processing = ps
        /\ r.checksum = bound.checksum /\ r.startedAt = bound.startedAt
    BY <1>1 DEF Marker
  <2> HIDE DEF r
  <2>5. QED
    BY <1>1, <2>1, <2>2, <2>3, <2>4
<1>4. QED
  BY <1>2, <1>3

\* start_processing keeps the per-file progress and stamps the phase.
LEMMA StartProcessingFields ==
  ASSUME NEW m \in Marker, NEW t \in Nat
  PROVE  /\ StartProcessing(m, t).progress = m.progress
         /\ StartProcessing(m, t).checksum = m.checksum
         /\ StartProcessing(m, t).startedAt = t
         /\ StartProcessing(m, t).processing = "InProgress"
BY DEF StartProcessing, Marker

\* complete_processing and complete_extraction do not touch the files.
LEMMA CompleteOpsFields ==
  ASSUME NEW m \in Marker
  PROVE  /\ CompleteProcessing(m).progress = m.progress
         /\ CompleteProcessing(m).checksum = m.checksum
         /\ CompleteProcessing(m).startedAt = m.startedAt
         /\ CompleteProcessing(m).processing = "Completed"
         /\ CompleteExtraction(m).progress = m.progress
         /\ CompleteExtraction(m).checksum = m.checksum
         /\ CompleteExtraction(m).startedAt = m.startedAt
         /\ CompleteExtraction(m).processing = m.processing
BY DEF CompleteProcessing, CompleteExtraction, Marker

\* start_file_processing binds the attempt to the bytes it is about to read.
LEMMA StartFileFields ==
  ASSUME NEW m \in Marker, NEW f \in File
  PROVE  LET r == StartFileProcessing(m, f)
         IN  /\ r.checksum = m.checksum /\ r.startedAt = m.startedAt
             /\ r.processing = m.processing
             /\ \A g \in File \ {f} : r.progress[g] = m.progress[g]
             /\ r.progress[f].status = "InProgress"
             /\ r.progress[f].source = m.checksum[f]
BY DEF StartFileProcessing, Marker

\* update_file_progress changes counts only; complete_file_processing the status.
LEMMA FileOpsFields ==
  ASSUME NEW m \in Marker, NEW f \in File, NEW n \in Nat
  PROVE  /\ LET r == UpdateFileProgress(m, f, n)
            IN  /\ r.checksum = m.checksum /\ r.startedAt = m.startedAt
                /\ r.processing = m.processing
                /\ \A g \in File \ {f} : r.progress[g] = m.progress[g]
                /\ r.progress[f].status = m.progress[f].status
                /\ r.progress[f].source = m.progress[f].source
         /\ LET r == CompleteFileProcessing(m, f, n)
            IN  /\ r.checksum = m.checksum /\ r.startedAt = m.startedAt
                /\ r.processing = m.processing
                /\ \A g \in File \ {f} : r.progress[g] = m.progress[g]
                /\ r.progress[f].status = "Completed"
                /\ r.progress[f].source = m.progress[f].source
<1>1. LET r == UpdateFileProgress(m, f, n)
      IN  /\ r.checksum = m.checksum /\ r.startedAt = m.startedAt
          /\ r.processing = m.processing
          /\ \A g \in File \ {f} : r.progress[g] = m.progress[g]
          /\ r.progress[f].status = m.progress[f].status
          /\ r.progress[f].source = m.progress[f].source
  BY DEF UpdateFileProgress, Marker, FileProgress
<1>2. LET r == CompleteFileProcessing(m, f, n)
      IN  /\ r.checksum = m.checksum /\ r.startedAt = m.startedAt
          /\ r.processing = m.processing
          /\ \A g \in File \ {f} : r.progress[g] = m.progress[g]
          /\ r.progress[f].status = "Completed"
          /\ r.progress[f].source = m.progress[f].source
  <2> DEFINE pr == [m.progress EXCEPT ![f].status = "Completed", ![f].records = n]
             k  == m.processed + 1
             r  == [m EXCEPT !.progress = pr, !.processed = k]
  <2>1. /\ \A g \in File \ {f} : pr[g] = m.progress[g]
        /\ pr[f].status = "Completed" /\ pr[f].source = m.progress[f].source
    BY DEF Marker, FileProgress
  <2>2. CompleteFileProcessing(m, f, n) = r
    BY DEF CompleteFileProcessing, Marker
  <2> HIDE DEF pr, k
  <2>3. /\ r.checksum = m.checksum /\ r.startedAt = m.startedAt
        /\ r.processing = m.processing /\ r.progress = pr
    BY DEF Marker
  <2> HIDE DEF r
  <2>4. QED
    BY <2>1, <2>2, <2>3
<1>3. QED
  BY <1>1, <1>2

-----------------------------------------------------------------------------
(* The inductive invariant.                                                *)

\* Before the first run nothing is claimed and nothing was delivered.
LEMMA InitInv == Init => IInv
BY NewMarkerFields DEF Init, IInv, LoopInv, BoundInv, TaskInv, PhaseInv, ClockInv, MarkerInv,
   DownloadPcs, PastDownload, Owed

\* Binding the bytes c of f to a marker that agrees with the broker: it still
\* does, and a Completed status of f that is left is of c.
LEMMA VerifiedInv ==
  ASSUME NEW m \in Marker, NEW f \in File, NEW c \in Content, MarkerInv(m)
  PROVE  LET r == FileBytesVerified(m, f, c)
         IN  /\ MarkerInv(r)
             /\ r.checksum[f] = c
             /\ IsDone(r, f) => r.progress[f].source = c
             /\ \A g \in File \ {f} : /\ r.checksum[g] = m.checksum[g]
                                      /\ r.progress[g] = m.progress[g]
<1> DEFINE r == FileBytesVerified(m, f, c)
<1>1. /\ r.startedAt = m.startedAt
      /\ r.checksum = [m.checksum EXCEPT ![f] = c]
      /\ r.processing = "Pending" <=> m.processing = "Pending"
      /\ \A g \in File \ {f} : r.progress[g] = m.progress[g]
      /\ \/ /\ r.progress[f] = m.progress[f]
            /\ IsDone(m, f) => m.progress[f].source \in {None, c}
         \/ r.progress[f].status = "Pending"
  BY VerifiedFields
<1> HIDE DEF r
<1>2. MarkerInv(r)
  BY <1>1 DEF MarkerInv, IsDone
<1>3. IsDone(r, f) => r.progress[f].source = c
  BY <1>1, NoneFresh DEF MarkerInv, IsDone
<1>4. r.checksum[f] = c /\ \A g \in File \ {f} : r.checksum[g] = m.checksum[g]
  BY <1>1 DEF Marker
<1>5. QED
  BY <1>1, <1>2, <1>3, <1>4 DEF r

\* The download phase: no task runs and the broker hears nothing.
LEMMA DownloadInv ==
  ASSUME TypeOK, TypeOK', IInv, Download PROVE IInv'
<1> USE DEF IInv, LoopInv, BoundInv, TaskInv, PhaseInv, ClockInv, MarkerInv, IsDone,
            DownloadPcs, PastDownload, Owed, Download, runVars, Fault, TrySave
<1>0. mem \in Marker /\ disk \in Marker
  BY DEF TypeOK, DlTypeOK
<1>1. CASE StartPhase
  BY <1>0, <1>1, DownloadOpsFields DEF StartPhase
<1>2. CASE PhaseFails
  BY <1>2 DEF PhaseFails
<1>3. ASSUME NEW f \in File, AlreadyHave(f) PROVE IInv'
  <2>1. trusted[f] \in Content /\ trusted[f] = bytes[f]
    BY <1>3 DEF AlreadyHave, HaveFile, TypeOK, DlTypeOK
  <2> HIDE DEF MarkerInv
  <2>2. /\ MarkerInv(mem') /\ mem'.checksum[f] = bytes[f]
        /\ IsDone(mem', f) => mem'.progress[f].source = bytes[f]
        /\ \A g \in File \ {f} : /\ mem'.checksum[g] = mem.checksum[g]
                                 /\ mem'.progress[g] = mem.progress[g]
    BY <1>0, <1>3, <2>1, VerifiedInv DEF AlreadyHave
  <2>3. MarkerInv(mem)' /\ MarkerInv(disk)'
    BY <1>3, <2>2 DEF AlreadyHave, MarkerInv
  <2>4. QED
    BY <1>3, <2>1, <2>2, <2>3 DEF AlreadyHave
<1>4. ASSUME NEW f \in File, BeginFetch(f) PROVE IInv'
  BY <1>0, <1>4, StartFileDownloadFields DEF BeginFetch
<1>5. CASE CreateFile
  BY <1>5 DEF CreateFile, TypeOK, DlTypeOK
<1>6. CASE CreateFails
  BY <1>6 DEF CreateFails
<1>7. ASSUME NEW c \in Content, Received(c) PROVE IInv'
  BY <1>7 DEF Received, TypeOK, DlTypeOK
<1>8. CASE AttemptFails
  BY <1>8 DEF AttemptFails, TypeOK, DlTypeOK
<1>9. CASE RejectBytes
  BY <1>9 DEF RejectBytes
<1>10. CASE AcceptBytes
  BY <1>10 DEF AcceptBytes
<1>11. CASE RecordBytes
  <2>1. trusted[current] \in Content /\ trusted[current] = bytes[current] /\ current \in File
    BY <1>11 DEF RecordBytes, TypeOK, DlTypeOK
  <2> HIDE DEF MarkerInv
  <2>2. /\ MarkerInv(mem') /\ mem'.checksum[current] = bytes[current]
        /\ IsDone(mem', current) => mem'.progress[current].source = bytes[current]
        /\ \A g \in File \ {current} : /\ mem'.checksum[g] = mem.checksum[g]
                                       /\ mem'.progress[g] = mem.progress[g]
    BY <1>0, <1>11, <2>1, VerifiedInv DEF RecordBytes
  <2>3. MarkerInv(mem)' /\ MarkerInv(disk)'
    BY <1>11, <2>2 DEF RecordBytes, MarkerInv
  <2>4. QED
    BY <1>11, <2>1, <2>2, <2>3 DEF RecordBytes
<1>12. CASE FinishPhase
  BY <1>0, <1>12, DownloadOpsFields DEF FinishPhase
<1>13. CASE SaveMetadata
  BY <1>13 DEF SaveMetadata
<1>14. QED
  BY <1>1, <1>2, <1>3, <1>4, <1>5, <1>6, <1>7, <1>8, <1>9, <1>10, <1>11, <1>12, <1>13
     DEF DownloadStep

\* A step of one file's task: the other tasks neither own the broker's record of
\* this data type nor this file's entry of the shared marker.
LEMMA TaskStepInv ==
  ASSUME TypeOK, TypeOK', IInv, NEW f \in File, TaskStep(f) PROVE IInv'
<1> USE DEF IInv, LoopInv, BoundInv, TaskInv, PhaseInv, ClockInv, MarkerInv, IsDone,
            DownloadPcs, PastDownload, Owed, taskRest, HasPermit, TaskSave, Fault, TrySave
<1>0. mem \in Marker /\ disk \in Marker /\ task \in [File -> TaskState] /\ broker \in [File -> Delivery]
  BY DEF TypeOK, DlTypeOK
<1>1. CASE TaskSkip(f)
  BY <1>0, <1>1 DEF TaskSkip
<1>2. CASE TaskBegin(f)
  <2> DEFINE r == StartFileProcessing(mem, f)
  <2>1. /\ r.checksum = mem.checksum /\ r.startedAt = mem.startedAt
        /\ r.processing = mem.processing
        /\ \A g \in File \ {f} : r.progress[g] = mem.progress[g]
        /\ r.progress[f].status = "InProgress"
        /\ r.progress[f].source = mem.checksum[f]
    BY <1>0, StartFileFields
  <2>2. mem' = r
    BY <1>2 DEF TaskBegin
  <2> HIDE DEF r
  <2>3. QED
    BY <1>0, <1>2, <2>1, <2>2 DEF TaskBegin
<1>3. CASE TaskCount(f)
  <2>1. PICK n \in 1..Size[bytes[f]] : mem' = UpdateFileProgress(mem, f, n)
    BY <1>3 DEF TaskCount
  <2>2. n \in Nat
    BY <1>3, <2>1, SizeNat DEF TaskCount
  <2>3. /\ mem'.checksum = mem.checksum /\ mem'.startedAt = mem.startedAt
        /\ mem'.processing = mem.processing
        /\ \A g \in File \ {f} : mem'.progress[g] = mem.progress[g]
        /\ mem'.progress[f].status = mem.progress[f].status
        /\ mem'.progress[f].source = mem.progress[f].source
    BY <1>0, <2>1, <2>2, FileOpsFields
  <2>4. QED
    BY <1>0, <1>3, <2>3 DEF TaskCount
<1>4. CASE TaskPublish(f)
  BY <1>0, <1>4 DEF TaskPublish, Delivery
<1>5. CASE TaskDrained(f)
  BY <1>0, <1>5 DEF TaskDrained, Delivery, TypeOK
<1>6. CASE TaskAnnounce(f)
  BY <1>0, <1>6 DEF TaskAnnounce, Delivery
<1>7. CASE TaskComplete(f)
  <2>1. Size[bytes[f]] \in Nat
    BY <1>7, SizeNat DEF TaskComplete, TypeOK
  <2>2. /\ mem'.checksum = mem.checksum /\ mem'.startedAt = mem.startedAt
        /\ mem'.processing = mem.processing
        /\ \A g \in File \ {f} : mem'.progress[g] = mem.progress[g]
        /\ mem'.progress[f].status = "Completed"
        /\ mem'.progress[f].source = mem.progress[f].source
    BY <1>0, <1>7, <2>1, FileOpsFields DEF TaskComplete
  <2>3. bytes[f] \in Content
    BY <1>7 DEF TaskComplete, TypeOK
  <2>4. QED
    BY <1>0, <1>7, <2>2, <2>3 DEF TaskComplete
<1>8. CASE TaskFails(f)
  <2>1. /\ \A g \in File : broker'[g].content = broker[g].content /\ broker'[g].at = broker[g].at
        /\ \A g \in File \ {f} : broker'[g].announced = broker[g].announced
        /\ task[f] \in {"queued", "started"} => broker' = broker
    <3>1. CASE UNCHANGED broker
      BY <3>1
    <3>2. CASE task[f] = "drained" /\ \E sent \in BOOLEAN : broker' = [broker EXCEPT ![f].announced = sent]
      BY <1>0, <3>2 DEF Delivery
    <3>3. QED
      BY <1>8, <3>1, <3>2 DEF TaskFails
  <2>2. task' = [task EXCEPT ![f] = "failed"] /\ UNCHANGED <<disk, mem, taskRest>>
    BY <1>8 DEF TaskFails
  <2>3. pc = "tasks" /\ task[f] \in {"queued", "started", "drained"}
    BY <1>8 DEF TaskFails
  <2>4. QED
    BY <1>0, <2>1, <2>2, <2>3
<1>9. QED
  BY <1>1, <1>2, <1>3, <1>4, <1>5, <1>6, <1>7, <1>8 DEF TaskStep

\* What the locals' end leaves to show: the marker on disk and the broker.
LEMMA DropLocalsInv ==
  ASSUME TypeOK', DropLocals, MarkerInv(disk)', ClockInv', pc' \in {"idle", "down"} PROVE IInv'
<1>1. mem' = NewMarker /\ clock' \in Nat
  BY DEF DropLocals, TypeOK
<1>2. MarkerInv(mem)'
  BY <1>1, NewMarkerFields DEF MarkerInv
<1>3. LoopInv' /\ BoundInv' /\ TaskInv' /\ PhaseInv'
  BY DEF LoopInv, BoundInv, TaskInv, PhaseInv, DownloadPcs, PastDownload, Owed
<1>4. QED
  BY <1>2, <1>3 DEF IInv

\* The steps between the downloads and the end of the run, and the process around
\* the runs.
LEMMA RunInv ==
  ASSUME TypeOK, TypeOK', IInv, Next, ~ Download, ~ \E f \in File : TaskStep(f) PROVE IInv'
<1> USE DEF Fault, SaveOr
<1>0. /\ mem \in Marker /\ disk \in Marker /\ clock \in Nat /\ broker \in [File -> Delivery]
      /\ purge \in [File -> Nat] /\ \A f \in File : broker[f].at \in Nat
      /\ mem.startedAt \in Nat /\ disk.startedAt \in Nat
  BY DEF TypeOK, DlTypeOK, Marker, Delivery
<1>1. CASE BeginRun
  <2>1. mem' = disk \/ mem' = NewMarker
    BY <1>1 DEF BeginRun
  <2>2. QED
    BY <1>0, <1>1, <2>1, NewMarkerFields DEF BeginRun, IInv, LoopInv, BoundInv, TaskInv, PhaseInv,
       ClockInv, MarkerInv, DownloadPcs, PastDownload, Owed
<1>2. CASE SkipRun \/ NothingListed \/ RequestShutdown
  BY <1>0, <1>2 DEF SkipRun, NothingListed, RequestShutdown, dlVars, IInv, LoopInv, BoundInv, TaskInv,
     PhaseInv, ClockInv, MarkerInv
<1>3. CASE BeginProcessing
  <2>1. /\ mem'.progress = mem.progress /\ mem'.checksum = mem.checksum
        /\ \/ mem.processing = "Pending" /\ mem'.startedAt = clock /\ mem'.processing = "InProgress"
           \/ mem.processing # "Pending" /\ mem' = mem
    BY <1>0, <1>3, StartProcessingFields DEF BeginProcessing
  <2>2. MarkerInv(mem)' /\ MarkerInv(disk)' /\ ClockInv'
    BY <1>0, <1>3, <2>1 DEF BeginProcessing, IsDone, IInv, PhaseInv, MarkerInv, ClockInv
  <2>3. CASE pc' = "error"
    BY <1>3, <2>2, <2>3 DEF BeginProcessing, IInv, LoopInv, BoundInv, TaskInv, PhaseInv,
       DownloadPcs, PastDownload, Owed
  <2>4. CASE pc' # "error"
    <3>1. /\ pc' \in {"early", "tasks"}
          /\ pc' = "early" => \A f \in File : IsDone(mem', f)
          /\ \A f \in File : task'[f] = "none" \/ task'[f] = "queued"
          /\ \A f \in File : task'[f] = "none" => IsDone(mem', f)
      BY <1>3, <2>4 DEF BeginProcessing, PendingFiles
    <3>2. mem'.processing # "Pending"
      BY <2>1
    <3>3. LoopInv' /\ BoundInv' /\ TaskInv'
      BY <1>3, <2>1, <3>1 DEF BeginProcessing, IInv, LoopInv, BoundInv, TaskInv, IsDone, DownloadPcs,
         PastDownload
    <3>4. PhaseInv'
      BY <1>3, <3>1, <3>2 DEF BeginProcessing, IInv, PhaseInv, PastDownload, Owed
    <3>5. QED
      BY <2>2, <3>3, <3>4 DEF IInv
  <2>5. QED
    BY <2>3, <2>4
<1>4. CASE AllProcessed
  <2>1. CASE mem.overall = "Completed"
    BY <1>0, <1>4, <2>1, DropLocalsInv DEF AllProcessed, IInv, MarkerInv, ClockInv
  <2>2. CASE mem.overall # "Completed"
    BY <1>0, <1>4, <2>2, CompleteOpsFields DEF AllProcessed, IsDone, IInv, LoopInv, BoundInv,
       TaskInv, PhaseInv, ClockInv, MarkerInv, DownloadPcs, PastDownload, Owed
  <2>3. QED
    BY <2>1, <2>2
<1>5. CASE JoinSuccess
  BY <1>0, <1>5, CompleteOpsFields DEF JoinSuccess, Joined, Success, IsDone, IInv, LoopInv, BoundInv,
     TaskInv, PhaseInv, ClockInv, MarkerInv, DownloadPcs, PastDownload, Owed
<1>6. CASE JoinFailure
  BY <1>0, <1>6, DropLocalsInv DEF JoinFailure, IInv, MarkerInv, ClockInv
<1>7. CASE BroadcastSent \/ BroadcastFails
  <2>1. \A f \in File : purge'[f] <= broker[f].at
    BY <1>0, <1>7 DEF BroadcastSent, BroadcastFails, Broadcast, StartedAt, IInv, PhaseInv, ClockInv,
       MarkerInv, Owed, PastDownload
  <2>2. CASE BroadcastSent
    BY <1>0, <2>1, <2>2 DEF BroadcastSent, IInv, LoopInv, BoundInv, TaskInv, PhaseInv, ClockInv,
       MarkerInv, DownloadPcs, PastDownload, Owed
  <2>3. CASE BroadcastFails
    BY <1>0, <2>1, <2>3, DropLocalsInv DEF BroadcastFails, IInv, MarkerInv, ClockInv
  <2>4. QED
    BY <1>7, <2>2, <2>3
<1>8. CASE Finalise
  <2>1. MarkerInv(CompleteExtraction(mem))
    BY <1>0, CompleteOpsFields DEF IInv, MarkerInv, IsDone
  <2>2. CASE pc' = "error" /\ mem' = CompleteExtraction(mem) /\ UNCHANGED disk
    BY <1>0, <1>8, <2>1, <2>2 DEF Finalise, IInv, LoopInv, BoundInv, TaskInv, PhaseInv, ClockInv,
       MarkerInv, DownloadPcs, PastDownload, Owed
  <2>3. CASE DropLocals
    <3>1. MarkerInv(disk)' /\ ClockInv' /\ pc' \in {"idle", "error"}
      BY <1>8, <2>1 DEF Finalise, IInv, MarkerInv, ClockInv
    <3>2. CASE pc' = "idle"
      BY <2>3, <3>1, <3>2, DropLocalsInv
    <3>3. CASE pc' = "error"
      BY <1>8, <2>2, <3>3 DEF Finalise
    <3>4. QED
      BY <3>1, <3>2, <3>3
  <2>4. QED
    BY <1>8, <2>2, <2>3 DEF Finalise
<1>9. CASE RunError \/ Crash
  BY <1>0, <1>9, DropLocalsInv DEF RunError, Crash, IInv, MarkerInv, ClockInv
<1>10. CASE Exit \/ Restart
  BY <1>0, <1>10 DEF Exit, Restart, runVars, IInv, LoopInv, BoundInv, TaskInv, PhaseInv, ClockInv,
     MarkerInv, DownloadPcs, PastDownload, Owed
<1>11. ASSUME NEW f \in File, OperatorDeletes(f) PROVE IInv'
  BY <1>0, <1>11 DEF OperatorDeletes, runVars, IInv, LoopInv, BoundInv, TaskInv, PhaseInv, ClockInv,
     MarkerInv, DownloadPcs, PastDownload, Owed
<1>12. QED
  BY <1>1, <1>2, <1>3, <1>4, <1>5, <1>6, <1>7, <1>8, <1>9, <1>10, <1>11
     DEF Next, RunStep, Environment

\* The inductive invariant holds in every state of every behaviour.
THEOREM Inductive == Spec => []IInv
<1>1. Init => IInv
  BY InitInv
<1>2. TypeOK /\ TypeOK' /\ IInv /\ [Next]_vars => IInv'
  <2> SUFFICES ASSUME TypeOK, TypeOK', IInv, [Next]_vars PROVE IInv'
    OBVIOUS
  <2>1. CASE Next
    BY <2>1, DownloadInv, TaskStepInv, RunInv
  <2>2. CASE UNCHANGED vars
    BY <2>2 DEF vars, dlVars, runVars, IInv, LoopInv, BoundInv, TaskInv, PhaseInv, ClockInv, MarkerInv
  <2>3. QED
    BY <2>1, <2>2
<1>3. QED
  BY <1>1, <1>2, TypeCorrect, PTL DEF Spec

-----------------------------------------------------------------------------
(* The safety properties it was built for.                                 *)

\* A file the marker calls Completed, on disk or in memory, has had every row of
\* the bytes it was computed from confirmed and file_complete sent after them.
THEOREM NeverCompletedUndelivered == Spec => []CompletedWasDelivered
<1>1. IInv => CompletedWasDelivered
  BY DEF IInv, MarkerInv, CompletedWasDelivered
<1>2. QED
  BY <1>1, Inductive, PTL

\* No extraction_complete lets a consumer purge rows of the current dump, however
\* many crashes and resumes lie between their delivery and the broadcast.
THEOREM PurgeIsSafe == Spec => []PurgeKeepsRows
<1>1. IInv => PurgeKeepsRows
  BY DEF IInv, ClockInv, PurgeKeepsRows
<1>2. QED
  BY <1>1, Inductive, PTL

\* Past the download phase no Completed status is of other bytes than those on disk.
THEOREM ProvenanceHolds == Spec => []CompletedMatchesBytes
<1>1. IInv => CompletedMatchesBytes
  BY DEF IInv, LoopInv, BoundInv, CompletedMatchesBytes, PastDownload
<1>2. QED
  BY <1>1, Inductive, PTL

-----------------------------------------------------------------------------
(* Verified bytes.                                                         *)

\* Of the files it has sums for, the download phase leaves only published bytes.
LEMMA PublishedDownload ==
  ASSUME TypeOK, IInv, PublishedInv, Download PROVE PublishedInv'
<1> USE DEF PublishedInv, DownloadPcs, PastDownload, Download, runVars, IInv, LoopInv
<1>0. bytes \in [File -> Content \cup {None, Torn}] /\ trusted \in [File -> Content \cup {None}]
  BY DEF TypeOK, DlTypeOK
<1>1. CASE StartPhase
  BY <1>1 DEF StartPhase
<1>2. CASE PhaseFails
  BY <1>2 DEF PhaseFails
<1>3. ASSUME NEW f \in File, AlreadyHave(f) PROVE PublishedInv'
  BY <1>3 DEF AlreadyHave, HaveFile
<1>4. ASSUME NEW f \in File, BeginFetch(f) PROVE PublishedInv'
  BY <1>4 DEF BeginFetch
<1>5. CASE CreateFile
  BY <1>0, <1>5 DEF CreateFile
<1>6. CASE CreateFails
  BY <1>6 DEF CreateFails
<1>7. ASSUME NEW c \in Content, Received(c) PROVE PublishedInv'
  BY <1>0, <1>7 DEF Received
<1>8. CASE AttemptFails
  <2>1. current \in todo /\ pc' \in {"request", "error"}
    BY <1>8 DEF AttemptFails
  <2>2. \A f \in File \ todo : bytes'[f] = bytes[f]
    BY <1>0, <1>8, <2>1 DEF AttemptFails
  <2>3. UNCHANGED <<published, todo>> /\ pc \in {"request", "stream"} /\ published \subseteq File
    BY <1>8 DEF AttemptFails, TypeOK, DlTypeOK
  <2>4. QED
    BY <2>1, <2>2, <2>3
<1>9. CASE RejectBytes
  BY <1>9 DEF RejectBytes
<1>10. CASE AcceptBytes
  BY <1>10 DEF AcceptBytes, Mismatch
<1>11. CASE RecordBytes
  BY <1>11 DEF RecordBytes
<1>12. CASE FinishPhase
  BY <1>12 DEF FinishPhase
<1>13. CASE SaveMetadata
  BY <1>13 DEF SaveMetadata
<1>14. QED
  BY <1>1, <1>2, <1>3, <1>4, <1>5, <1>6, <1>7, <1>8, <1>9, <1>10, <1>11, <1>12, <1>13
     DEF DownloadStep

\* Afterwards nobody touches the bytes until the run is over.
LEMMA PublishedRun ==
  ASSUME TypeOK, IInv, PublishedInv, Next, ~ Download PROVE PublishedInv'
<1> USE DEF PublishedInv, DownloadPcs, PastDownload
<1>1. CASE DropLocals
  BY <1>1 DEF DropLocals
<1>2. CASE BeginRun
  BY <1>2 DEF BeginRun
<1>3. CASE BeginProcessing \/ AllProcessed \/ JoinSuccess \/ BroadcastSent \/ Finalise
  BY <1>1, <1>3 DEF BeginProcessing, AllProcessed, JoinSuccess, Joined, BroadcastSent, Finalise, SaveOr
<1>4. ASSUME NEW f \in File, TaskStep(f) PROVE PublishedInv'
  BY <1>4 DEF TaskStep, TaskSkip, TaskBegin, TaskCount, TaskPublish, TaskDrained, TaskAnnounce,
     TaskComplete, TaskFails, taskRest
<1>5. CASE JoinFailure \/ BroadcastFails \/ RunError \/ Crash
  BY <1>1, <1>5 DEF JoinFailure, BroadcastFails, RunError, Crash
<1>6. CASE SkipRun \/ NothingListed \/ RequestShutdown
  BY <1>6 DEF SkipRun, NothingListed, RequestShutdown, dlVars
<1>7. CASE Exit \/ Restart
  BY <1>7 DEF Exit, Restart
<1>8. ASSUME NEW f \in File, OperatorDeletes(f) PROVE PublishedInv'
  BY <1>8 DEF OperatorDeletes
<1>9. QED
  BY <1>2, <1>3, <1>4, <1>5, <1>6, <1>7, <1>8 DEF Next, RunStep, Environment

\* Of the files whose sums could be fetched, what is broadcast and finalised is what
\* Discogs published, whichever run delivered it.  Of a file the list does not name
\* nothing is promised: the code takes its bytes unverified (downloader.rs:155-158, 190-192).
THEOREM FinalisedIsVerified == Spec => []VerifiedWhenPublished
<1>1. Init => PublishedInv
  BY DEF Init, PublishedInv
<1>2. TypeOK /\ IInv /\ PublishedInv /\ [Next]_vars => PublishedInv'
  <2> SUFFICES ASSUME TypeOK, IInv, PublishedInv, [Next]_vars PROVE PublishedInv'
    OBVIOUS
  <2>1. CASE UNCHANGED vars
    BY <2>1 DEF vars, dlVars, PublishedInv
  <2>2. QED
    BY <2>1, PublishedDownload, PublishedRun
<1>3. TypeOK /\ IInv /\ PublishedInv => VerifiedWhenPublished
  <2> SUFFICES ASSUME TypeOK, IInv, PublishedInv, pc \in {"broadcast", "finalise"},
                      NEW f \in published
               PROVE  broker[f].content = Good
    BY DEF VerifiedWhenPublished
  <2>1. f \in File /\ f \notin todo
    BY DEF TypeOK, DlTypeOK, IInv, LoopInv, PastDownload
  <2>2. bytes[f] = Good
    BY <2>1 DEF PublishedInv, PastDownload
  <2>3. QED
    BY <2>1, <2>2 DEF IInv, BoundInv, PhaseInv, MarkerInv, PastDownload, Owed
<1>4. QED
  BY <1>1, <1>2, <1>3, TypeCorrect, Inductive, PTL DEF Spec

-----------------------------------------------------------------------------
(* The overall status.                                                     *)

\* Which methods set or keep overall_status.
LEMMA OverallFields ==
  ASSUME NEW m \in Marker, NEW f \in File, NEW n \in Nat
  PROVE  /\ StartDownload(m).overall = m.overall
         /\ CompleteDownload(m).overall = m.overall
         /\ StartFileDownload(m, f).overall = m.overall
         /\ StartProcessing(m, n).overall = "InProgress"
         /\ StartFileProcessing(m, f).overall = m.overall
         /\ UpdateFileProgress(m, f, n).overall = m.overall
         /\ CompleteFileProcessing(m, f, n).overall = m.overall
         /\ CompleteProcessing(m).overall = m.overall
         /\ CompleteExtraction(m).overall = "Completed"
<1>1. /\ StartDownload(m).overall = m.overall
      /\ CompleteDownload(m).overall = m.overall
      /\ StartFileDownload(m, f).overall = m.overall
      /\ StartProcessing(m, n).overall = "InProgress"
  BY DEF StartDownload, CompleteDownload, StartFileDownload, StartProcessing, Marker
<1>2. /\ StartFileProcessing(m, f).overall = m.overall
      /\ UpdateFileProgress(m, f, n).overall = m.overall
      /\ CompleteFileProcessing(m, f, n).overall = m.overall
  BY DEF StartFileProcessing, UpdateFileProgress, CompleteFileProcessing, Marker
<1>3. CompleteProcessing(m).overall = m.overall /\ CompleteExtraction(m).overall = "Completed"
  BY DEF CompleteProcessing, CompleteExtraction, Marker
<1>4. QED
  BY <1>1, <1>2, <1>3

\* A version that is still finalised after a step of its marker was so before.
StillFinal(m, r) ==
  r.overall = "Completed" =>
    m.overall = "Completed" /\ r.progress = m.progress /\ r.startedAt = m.startedAt

\* file_bytes_verified leaves a version finalised only if it drops nothing.
LEMMA VerifiedOverall ==
  ASSUME NEW m \in Marker, NEW f \in File, NEW c \in Content \cup {None}
  PROVE  StillFinal(m, FileBytesVerified(m, f, c))
<1> USE DEF StillFinal
<1> DEFINE bound == [m EXCEPT !.checksum[f] = c]
           stale == IsDone(m, f) /\ m.progress[f].source \notin {None, c}
<1>1. /\ bound \in Marker /\ bound.overall = m.overall /\ bound.progress = m.progress
      /\ bound.startedAt = m.startedAt
  BY DEF Marker
<1>2. CASE ~ stale
  BY <1>1, <1>2 DEF FileBytesVerified
<1>3. CASE stale
  <2> DEFINE pr == [m.progress EXCEPT ![f] = NoProgress]
             n  == IF m.processed > 0 THEN m.processed - 1 ELSE 0
             ov == IF m.overall = "Completed" THEN "InProgress" ELSE m.overall
             ps == IF m.processing = "Completed" THEN "InProgress" ELSE m.processing
             r  == [bound EXCEPT !.progress = pr, !.processed = n, !.overall = ov,
                                 !.processing = ps]
  <2>1. FileBytesVerified(m, f, c) = r
    BY <1>3, <1>1 DEF FileBytesVerified, Marker
  <2>2. ov # "Completed"
    OBVIOUS
  <2> HIDE DEF bound, pr, n, ov, ps
  <2>3. r.overall = ov
    BY <1>1 DEF Marker
  <2>4. QED
    BY <2>1, <2>2, <2>3
<1>4. QED
  BY <1>2, <1>3

\* The download phase broadcasts nothing and finalises nothing.
LEMMA CompletionDownload ==
  ASSUME TypeOK, CompletionInv, Download PROVE CompletionInv'
<1>0. mem \in Marker /\ trusted \in [File -> Content \cup {None}]
  BY DEF TypeOK, DlTypeOK
<1>1. StillFinal(mem, mem')
  <2>1. CASE StartPhase \/ FinishPhase
    <3>1. 0 \in Nat /\ (mem' = StartDownload(mem) \/ mem' = CompleteDownload(mem))
      BY <2>1 DEF StartPhase, FinishPhase
    <3>2. /\ StartDownload(mem).overall = mem.overall
          /\ CompleteDownload(mem).overall = mem.overall
      BY <1>0 DEF StartDownload, CompleteDownload, Marker
    <3>3. QED
      BY <1>0, <3>1, <3>2, DownloadOpsFields DEF StillFinal
  <2>2. ASSUME NEW f \in File, AlreadyHave(f) PROVE StillFinal(mem, mem')
    <3>1. mem' = FileBytesVerified(mem, f, trusted[f]) /\ trusted[f] \in Content \cup {None}
      BY <1>0, <2>2 DEF AlreadyHave
    <3>2. QED
      BY <1>0, <3>1, VerifiedOverall
  <2>3. ASSUME NEW f \in File, BeginFetch(f) PROVE StillFinal(mem, mem')
    <3>1. mem' = StartFileDownload(mem, f) /\ 0 \in Nat
      BY <2>3 DEF BeginFetch
    <3>2. QED
      BY <1>0, <3>1, OverallFields, StartFileDownloadFields DEF StillFinal
  <2>4. CASE RecordBytes
    <3>1. current \in File /\ mem' = FileBytesVerified(mem, current, trusted[current])
      BY <2>4 DEF RecordBytes, TypeOK, DlTypeOK
    <3>2. trusted[current] \in Content \cup {None}
      BY <1>0, <3>1
    <3>3. QED
      BY <1>0, <3>1, <3>2, VerifiedOverall
  <2>5. CASE UNCHANGED mem
    BY <2>5 DEF StillFinal
  <2>6. QED
    BY <2>1, <2>2, <2>3, <2>4, <2>5 DEF Download, DownloadStep, PhaseFails, CreateFile, CreateFails,
       Received, AttemptFails, RejectBytes, AcceptBytes, SaveMetadata
<1>2. disk' = disk \/ disk' = mem'
  BY DEF Download, DownloadStep, StartPhase, PhaseFails, AlreadyHave, BeginFetch, CreateFile,
     CreateFails, Received, AttemptFails, RejectBytes, AcceptBytes, RecordBytes, FinishPhase,
     SaveMetadata, TrySave
<1>3. pc \in DownloadPcs /\ pc' \in DownloadPcs \cup {"ready", "error"}
  BY DEF Download, DownloadStep, StartPhase, PhaseFails, AlreadyHave, BeginFetch, CreateFile,
     CreateFails, Received, AttemptFails, RejectBytes, AcceptBytes, RecordBytes, FinishPhase,
     SaveMetadata, DownloadPcs
<1>4. UNCHANGED <<purge, counts, outcome>>
  BY DEF Download, runVars
<1>5. FinalInv(mem)'
  BY <1>1, <1>4 DEF StillFinal, CompletionInv, FinalInv, IsDone
<1>6. FinalInv(disk)'
  BY <1>2, <1>4, <1>5 DEF CompletionInv, FinalInv, IsDone
<1>7. BroadcastInv'
  BY <1>3 DEF BroadcastInv, DownloadPcs
<1>8. OutcomeInv'
  BY <1>1, <1>2, <1>3, <1>4 DEF StillFinal, CompletionInv, OutcomeInv, DownloadPcs
<1>9. QED
  BY <1>5, <1>6, <1>7, <1>8 DEF CompletionInv

\* A task leaves overall_status alone.
LEMMA CompletionTask ==
  ASSUME TypeOK, CompletionInv, NEW f \in File, TaskStep(f) PROVE CompletionInv'
<1>0. mem \in Marker /\ pc = "tasks" /\ pc' = "tasks"
  BY DEF TypeOK, DlTypeOK, TaskStep, TaskSkip, TaskBegin, TaskCount, TaskPublish, TaskDrained,
     TaskAnnounce, TaskComplete, TaskFails, HasPermit, taskRest
<1>1. UNCHANGED <<purge, counts, outcome>>
  BY DEF TaskStep, TaskSkip, TaskBegin, TaskCount, TaskPublish, TaskDrained, TaskAnnounce,
     TaskComplete, TaskFails, taskRest
<1>2. mem'.overall = mem.overall
  <2>1. CASE TaskBegin(f)
    <3>1. mem' = StartFileProcessing(mem, f) /\ 0 \in Nat
      BY <2>1 DEF TaskBegin
    <3>2. QED
      BY <1>0, <3>1, OverallFields
  <2>2. CASE TaskCount(f)
    <3>1. PICK n \in 1..Size[bytes[f]] : mem' = UpdateFileProgress(mem, f, n)
      BY <2>2 DEF TaskCount
    <3>2. n \in Nat
      BY <2>2, <3>1, SizeNat DEF TaskCount
    <3>3. QED
      BY <1>0, <3>1, <3>2, OverallFields
  <2>3. CASE TaskComplete(f)
    <3>1. mem' = CompleteFileProcessing(mem, f, Size[bytes[f]]) /\ Size[bytes[f]] \in Nat
      BY <2>3, SizeNat DEF TaskComplete, TypeOK
    <3>2. QED
      BY <1>0, <3>1, OverallFields
  <2>4. CASE UNCHANGED mem
    BY <2>4
  <2>5. QED
    BY <2>1, <2>2, <2>3, <2>4 DEF TaskStep, TaskSkip, TaskPublish, TaskDrained, TaskAnnounce, TaskFails
<1>3. disk' = disk \/ disk' = mem'
  BY DEF TaskStep, TaskSkip, TaskBegin, TaskCount, TaskPublish, TaskDrained, TaskAnnounce,
     TaskComplete, TaskFails, TaskSave, TrySave
<1>4. mem'.overall # "Completed"
  BY <1>0, <1>2 DEF CompletionInv, BroadcastInv
<1>5. FinalInv(mem)' /\ FinalInv(disk)'
  BY <1>1, <1>3, <1>4 DEF CompletionInv, FinalInv, IsDone
<1>6. BroadcastInv' /\ OutcomeInv'
  BY <1>0, <1>1, <1>4 DEF CompletionInv, BroadcastInv, OutcomeInv
<1>7. QED
  BY <1>5, <1>6 DEF CompletionInv

\* A run that is over holds no version; what is left is the marker on disk.
LEMMA CompletionDropped ==
  ASSUME DropLocals, FinalInv(disk)', pc' \in {"idle", "down"},
         outcome' \in {"skipped", "finalised"} => pc' = "idle" /\ disk'.overall = "Completed"
  PROVE  CompletionInv'
<1>1. mem'.overall = "Pending"
  BY DEF DropLocals, NewMarker
<1>2. QED
  BY <1>1 DEF CompletionInv, FinalInv, BroadcastInv, OutcomeInv

\* The steps between the downloads and the end of the run, and the process around
\* the runs.
LEMMA CompletionRun ==
  ASSUME TypeOK, IInv, CompletionInv, Next, ~ Download, ~ \E f \in File : TaskStep(f)
  PROVE  CompletionInv'
<1>0. mem \in Marker /\ disk \in Marker /\ clock \in Nat /\ mem.startedAt \in Nat
  BY DEF TypeOK, DlTypeOK, Marker
<1>1. CASE BeginRun
  <2>1. mem' = disk \/ mem' = NewMarker
    BY <1>1 DEF BeginRun
  <2>2. NewMarker.overall = "Pending"
    BY DEF NewMarker
  <2>3. UNCHANGED <<disk, purge, counts>> /\ pc' = "list" /\ outcome' = "running"
    BY <1>1 DEF BeginRun
  <2>4. QED
    BY <2>1, <2>2, <2>3 DEF CompletionInv, FinalInv, BroadcastInv, OutcomeInv, IsDone
<1>2. CASE SkipRun
  <2>1. disk.overall = "Completed"
    BY <1>2 DEF SkipRun, ShouldProcess
  <2>2. QED
    BY <1>2, <2>1 DEF SkipRun, dlVars, CompletionInv, FinalInv, BroadcastInv, OutcomeInv, IsDone
<1>3. CASE NothingListed \/ RequestShutdown
  BY <1>3 DEF NothingListed, RequestShutdown, CompletionInv, FinalInv, BroadcastInv, OutcomeInv, IsDone
<1>4. CASE BeginProcessing
  <2>1. \/ mem'.overall = "InProgress"
        \/ mem' = mem
    BY <1>0, <1>4, OverallFields DEF BeginProcessing, StartProcessing, Marker
  <2>2. disk' = disk \/ disk' = mem'
    BY <1>4 DEF BeginProcessing, SaveOr
  <2>3. pc = "ready" /\ pc' \in {"early", "tasks", "error"} /\ UNCHANGED <<purge, counts, outcome>>
    BY <1>4 DEF BeginProcessing, SaveOr
  <2>4. FinalInv(mem)' /\ FinalInv(disk)'
    BY <2>1, <2>2, <2>3 DEF CompletionInv, FinalInv, IsDone
  <2>5. pc' = "tasks" => mem'.overall # "Completed"
    <3> SUFFICES ASSUME mem'.overall = "Completed" PROVE pc' # "tasks"
      OBVIOUS
    <3>1. \A f \in File : IsDone(mem', f)
      BY <2>4 DEF FinalInv, IsDone
    <3>2. PendingFiles(mem') = {}
      BY <3>1 DEF PendingFiles
    <3>3. QED
      BY <1>4, <3>2 DEF BeginProcessing, SaveOr
  <2>6. BroadcastInv' /\ OutcomeInv'
    BY <2>1, <2>2, <2>3, <2>5 DEF CompletionInv, BroadcastInv, OutcomeInv
  <2>7. QED
    BY <2>4, <2>6 DEF CompletionInv
<1>5. CASE AllProcessed /\ mem.overall = "Completed"
  <2>1. disk.overall = "Completed"
    BY <1>5 DEF AllProcessed, CompletionInv, OutcomeInv
  <2>2. FinalInv(disk)'
    BY <1>5 DEF AllProcessed, CompletionInv, FinalInv, IsDone
  <2>3. QED
    BY <1>5, <2>1, <2>2, CompletionDropped DEF AllProcessed
<1>6. CASE (AllProcessed \/ JoinSuccess) /\ mem.overall # "Completed"
  <2>1. mem' = CompleteProcessing(mem)
    BY <1>6 DEF AllProcessed, JoinSuccess
  <2>2. mem'.overall # "Completed"
    <3>1. CompleteProcessing(mem).overall = mem.overall
      BY <1>0 DEF CompleteProcessing, Marker
    <3>2. QED
      BY <1>6, <2>1, <3>1
  <2>3. UNCHANGED <<purge, counts, outcome>> /\ pc \in {"early", "tasks"}
    BY <1>6 DEF AllProcessed, JoinSuccess, Joined
  <2>4. \/ pc' = "broadcast" /\ disk' = mem'
        \/ pc' = "error" /\ disk' = disk
    BY <1>6, <2>1 DEF AllProcessed, JoinSuccess, SaveOr
  <2>5. QED
    BY <2>2, <2>3, <2>4 DEF CompletionInv, FinalInv, BroadcastInv, OutcomeInv, IsDone
<1>7. CASE JoinSuccess /\ mem.overall = "Completed"
  BY <1>7 DEF JoinSuccess, Joined, CompletionInv, BroadcastInv
<1>8. CASE JoinFailure
  <2>1. FinalInv(disk)'
    BY <1>8 DEF JoinFailure, CompletionInv, FinalInv, IsDone
  <2>2. QED
    BY <1>8, <2>1, CompletionDropped DEF JoinFailure
<1>9. CASE BroadcastSent
  <2>1. disk = mem /\ mem.overall # "Completed" /\ mem.startedAt > 0
    BY <1>0, <1>9 DEF BroadcastSent, CompletionInv, BroadcastInv, IInv, PhaseInv, MarkerInv, PastDownload
  <2>2. \A f \in File : purge'[f] = mem.startedAt /\ counts'[f] = mem.progress[f].records
    BY <1>9, <2>1 DEF BroadcastSent, Broadcast, StartedAt
  <2>3. UNCHANGED <<disk, mem, outcome>> /\ pc = "broadcast" /\ pc' = "finalise"
    BY <1>9 DEF BroadcastSent
  <2>4. QED
    BY <2>1, <2>2, <2>3 DEF CompletionInv, FinalInv, BroadcastInv, OutcomeInv, IsDone
<1>10. CASE BroadcastFails
  <2>1. FinalInv(disk)'
    BY <1>10 DEF BroadcastFails, CompletionInv, BroadcastInv, FinalInv
  <2>2. QED
    BY <1>10, <2>1, CompletionDropped DEF BroadcastFails
<1>11. CASE Finalise
  <2> DEFINE r == CompleteExtraction(mem)
  <2>1. /\ r.overall = "Completed" /\ r.progress = mem.progress /\ r.startedAt = mem.startedAt
    BY <1>0, CompleteOpsFields DEF CompleteExtraction, Marker
  <2>2. mem.startedAt > 0 /\ \A f \in File : IsDone(mem, f)
    BY <1>0, <1>11 DEF Finalise, IInv, PhaseInv, MarkerInv, PastDownload, Owed
  <2>3. \A f \in File : purge[f] = mem.startedAt /\ counts[f] = mem.progress[f].records
    BY <1>11 DEF Finalise, CompletionInv, BroadcastInv
  <2> HIDE DEF r
  <2>4. UNCHANGED <<purge, counts>> /\ pc = "finalise"
    BY <1>11 DEF Finalise
  <2>5. \/ disk' = r /\ pc' = "idle" /\ outcome' = "finalised" /\ DropLocals
        \/ disk' = disk /\ pc' = "error" /\ mem' = r /\ outcome' = outcome
    BY <1>11 DEF Finalise, r
  <2>6. CASE disk' = r /\ pc' = "idle" /\ outcome' = "finalised" /\ DropLocals
    <3>1. FinalInv(disk)'
      BY <2>1, <2>2, <2>3, <2>4, <2>6 DEF FinalInv, IsDone
    <3>2. QED
      BY <2>1, <2>6, <3>1, CompletionDropped
  <2>7. CASE disk' = disk /\ pc' = "error" /\ mem' = r /\ outcome' = outcome
    BY <2>1, <2>2, <2>3, <2>4, <2>7 DEF CompletionInv, FinalInv, BroadcastInv, OutcomeInv, IsDone
  <2>8. QED
    BY <2>5, <2>6, <2>7
<1>12. CASE RunError \/ Crash
  <2>1. FinalInv(disk)'
    BY <1>12 DEF RunError, Crash, CompletionInv, FinalInv, IsDone
  <2>2. QED
    BY <1>12, <2>1, CompletionDropped DEF RunError, Crash
<1>13. CASE Exit \/ Restart
  BY <1>13 DEF Exit, Restart, runVars, CompletionInv, FinalInv, BroadcastInv, OutcomeInv, IsDone
<1>14. ASSUME NEW f \in File, OperatorDeletes(f) PROVE CompletionInv'
  BY <1>14 DEF OperatorDeletes, runVars, CompletionInv, FinalInv, BroadcastInv, OutcomeInv, IsDone
<1>15. QED
  BY <1>1, <1>2, <1>3, <1>4, <1>5, <1>6, <1>7, <1>8, <1>9, <1>10, <1>11, <1>12, <1>13, <1>14
     DEF Next, RunStep, Environment

\* What a marker says of the whole version agrees with the broadcast and the disk.
LEMMA Completion == Spec => []CompletionInv
<1>1. Init => CompletionInv
  BY DEF Init, NewMarker, CompletionInv, FinalInv, BroadcastInv, OutcomeInv
<1>2. TypeOK /\ IInv /\ CompletionInv /\ [Next]_vars => CompletionInv'
  <2> SUFFICES ASSUME TypeOK, IInv, CompletionInv, [Next]_vars PROVE CompletionInv'
    OBVIOUS
  <2>1. CASE UNCHANGED vars
    BY <2>1 DEF vars, dlVars, runVars, CompletionInv, FinalInv, BroadcastInv, OutcomeInv, IsDone
  <2>2. QED
    BY <2>1, CompletionDownload, CompletionTask, CompletionRun
<1>3. QED
  BY <1>1, <1>2, TypeCorrect, Inductive, PTL DEF Spec

\* A run reports success only of a version that the marker on disk calls finalised.
THEOREM SuccessIsFinal == Spec => []ReportedSuccessIsFinal
<1>1. CompletionInv => ReportedSuccessIsFinal
  BY DEF CompletionInv, OutcomeInv, ReportedSuccessIsFinal
<1>2. QED
  BY <1>1, Completion, PTL

-----------------------------------------------------------------------------
(* Counts.                                                                 *)

\* Methods that touch neither the files nor their number keep the tally.
LEMMA TallySame ==
  ASSUME NEW m, NEW r, TallyInv(m), r.progress = m.progress, r.processed = m.processed
  PROVE  TallyInv(r)
BY DEF TallyInv, CompletedFiles, IsDone

\* So do those that touch one file which is not completed and does not become so.
LEMMA TallyUndone ==
  ASSUME NEW m, NEW r, NEW f \in File, TallyInv(m), r.processed = m.processed,
         \A g \in File \ {f} : r.progress[g] = m.progress[g],
         ~ IsDone(m, f), ~ IsDone(r, f)
  PROVE  TallyInv(r)
<1>1. CompletedFiles(r) = CompletedFiles(m)
  BY DEF CompletedFiles, IsDone
<1>2. QED
  BY <1>1 DEF TallyInv, IsDone

\* The completed files are finitely many.
LEMMA CompletedFinite ==
  ASSUME NEW m
  PROVE  IsFiniteSet(CompletedFiles(m)) /\ Cardinality(CompletedFiles(m)) \in Nat
<1>1. CompletedFiles(m) \subseteq File
  BY DEF CompletedFiles
<1>2. QED
  BY <1>1, FileFinite, FS_Subset, FS_CardinalityType

\* complete_file_processing counts the file it completes, once.
LEMMA TallyAdd ==
  ASSUME NEW m, NEW r, NEW f \in File, TallyInv(m), r.processed = m.processed + 1,
         \A g \in File \ {f} : r.progress[g] = m.progress[g],
         ~ IsDone(m, f), IsDone(r, f), r.progress[f].records = Size[r.progress[f].source]
  PROVE  TallyInv(r)
<1>1. CompletedFiles(r) = CompletedFiles(m) \cup {f} /\ f \notin CompletedFiles(m)
  BY DEF CompletedFiles, IsDone
<1>2. Cardinality(CompletedFiles(r)) = Cardinality(CompletedFiles(m)) + 1
  BY <1>1, CompletedFinite, FS_AddElement
<1>3. QED
  BY <1>2 DEF TallyInv, IsDone

\* Dropping a completed status takes the file out of the count, which is not zero.
LEMMA TallyRemove ==
  ASSUME NEW m, NEW r, NEW f \in File, TallyInv(m),
         r.processed = IF m.processed > 0 THEN m.processed - 1 ELSE 0,
         \A g \in File \ {f} : r.progress[g] = m.progress[g],
         IsDone(m, f), ~ IsDone(r, f)
  PROVE  TallyInv(r)
<1> DEFINE done == CompletedFiles(m)
<1>1. CompletedFiles(r) = done \ {f} /\ f \in done
  BY DEF CompletedFiles, IsDone
<1>2. Cardinality(done \ {f}) = Cardinality(done) - 1
  BY <1>1, CompletedFinite, FS_RemoveElement
<1>3. Cardinality(done \ {f}) \in Nat /\ Cardinality(done) \in Nat
  BY <1>1, CompletedFinite
<1>4. Cardinality(done) > 0
  BY <1>2, <1>3
<1>5. QED
  BY <1>1, <1>2, <1>3, <1>4 DEF TallyInv, IsDone

\* file_bytes_verified keeps the tally.
LEMMA TallyVerified ==
  ASSUME NEW m \in Marker, NEW f \in File, NEW c \in Content \cup {None}, TallyInv(m)
  PROVE  TallyInv(FileBytesVerified(m, f, c))
<1> DEFINE bound == [m EXCEPT !.checksum[f] = c]
           stale == IsDone(m, f) /\ m.progress[f].source \notin {None, c}
<1>1. /\ bound \in Marker /\ bound.progress = m.progress /\ bound.processed = m.processed
  BY DEF Marker
<1>2. CASE ~ stale
  <2>1. FileBytesVerified(m, f, c) = bound
    BY <1>2 DEF FileBytesVerified
  <2> HIDE DEF bound
  <2>2. QED
    BY <1>1, <2>1, TallySame
<1>3. CASE stale
  <2> DEFINE pr == [m.progress EXCEPT ![f] = NoProgress]
             n  == IF m.processed > 0 THEN m.processed - 1 ELSE 0
             ov == IF m.overall = "Completed" THEN "InProgress" ELSE m.overall
             ps == IF m.processing = "Completed" THEN "InProgress" ELSE m.processing
             r  == [bound EXCEPT !.progress = pr, !.processed = n, !.overall = ov,
                                 !.processing = ps]
  <2>1. FileBytesVerified(m, f, c) = r
    BY <1>3, <1>1 DEF FileBytesVerified, Marker
  <2>2. (\A g \in File \ {f} : pr[g] = m.progress[g]) /\ pr[f].status = "Pending"
    BY DEF Marker, NoProgress
  <2> HIDE DEF bound, pr, ov, ps
  <2>3. r.progress = pr /\ r.processed = n
    BY <1>1 DEF Marker
  <2> HIDE DEF r
  <2>4. IsDone(m, f) /\ ~ IsDone(r, f)
    BY <1>3, <2>2, <2>3 DEF IsDone
  <2>5. TallyInv(r)
    BY <2>2, <2>3, <2>4, TallyRemove
  <2>6. QED
    BY <2>1, <2>5
<1>4. QED
  BY <1>2, <1>3

\* start_file_download keeps the files and their number.
LEMMA TallyFetch ==
  ASSUME NEW m \in Marker, NEW f \in File
  PROVE  /\ StartFileDownload(m, f).progress = m.progress
         /\ StartFileDownload(m, f).processed = m.processed
BY DEF StartFileDownload, Marker

\* So do the methods that only move a phase.
LEMMA TallyPhases ==
  ASSUME NEW m \in Marker
  PROVE  /\ StartDownload(m).progress = m.progress /\ StartDownload(m).processed = m.processed
         /\ CompleteDownload(m).progress = m.progress /\ CompleteDownload(m).processed = m.processed
         /\ CompleteProcessing(m).progress = m.progress /\ CompleteProcessing(m).processed = m.processed
         /\ CompleteExtraction(m).progress = m.progress /\ CompleteExtraction(m).processed = m.processed
<1>1. /\ StartDownload(m).progress = m.progress /\ StartDownload(m).processed = m.processed
      /\ CompleteDownload(m).progress = m.progress /\ CompleteDownload(m).processed = m.processed
  BY DEF StartDownload, CompleteDownload, Marker
<1>2. /\ CompleteProcessing(m).progress = m.progress /\ CompleteProcessing(m).processed = m.processed
      /\ CompleteExtraction(m).progress = m.progress /\ CompleteExtraction(m).processed = m.processed
  BY DEF CompleteProcessing, CompleteExtraction, Marker
<1>3. QED
  BY <1>1, <1>2

\* What the methods of one file's processing do to the count and to its records.
LEMMA TallyFileFields ==
  ASSUME NEW m \in Marker, NEW f \in File, NEW n \in Nat
  PROVE  /\ StartFileProcessing(m, f).processed = m.processed
         /\ UpdateFileProgress(m, f, n).processed = m.processed
         /\ CompleteFileProcessing(m, f, n).processed = m.processed + 1
         /\ CompleteFileProcessing(m, f, n).progress[f].records = n
<1>1. StartFileProcessing(m, f).processed = m.processed
  BY DEF StartFileProcessing, Marker
<1>2. UpdateFileProgress(m, f, n).processed = m.processed
  BY DEF UpdateFileProgress, Marker
<1>3. /\ CompleteFileProcessing(m, f, n).processed = m.processed + 1
      /\ CompleteFileProcessing(m, f, n).progress[f].records = n
  <2> DEFINE pr == [m.progress EXCEPT ![f].status = "Completed", ![f].records = n]
             k  == m.processed + 1
             r  == [m EXCEPT !.progress = pr, !.processed = k]
  <2>1. pr[f].records = n
    BY DEF Marker, FileProgress
  <2>2. CompleteFileProcessing(m, f, n) = r
    BY DEF CompleteFileProcessing, Marker
  <2> HIDE DEF pr
  <2>3. r.progress = pr /\ r.processed = k
    BY DEF Marker
  <2> HIDE DEF r
  <2>4. QED
    BY <2>1, <2>2, <2>3
<1>4. QED
  BY <1>1, <1>2, <1>3

\* A marker without completed files counts none.
LEMMA TallyNone ==
  ASSUME NEW m, m.processed = 0, \A f \in File : ~ IsDone(m, f)
  PROVE  TallyInv(m)
<1>1. CompletedFiles(m) = {}
  BY DEF CompletedFiles
<1>2. Cardinality({}) = 0
  BY FS_EmptySet
<1>3. QED
  BY <1>1, <1>2 DEF TallyInv

\* A new marker in particular.
LEMMA TallyNew == TallyInv(NewMarker)
<1>1. NewMarker.processed = 0 /\ \A f \in File : ~ IsDone(NewMarker, f)
  BY DEF NewMarker, NoProgress, IsDone
<1>2. QED
  BY <1>1, TallyNone

\* start_processing resets the count; it is called only when no file is completed.
LEMMA TallyStart ==
  ASSUME NEW m \in Marker, NEW t \in Nat, MarkerInv(m), m.processing = "Pending"
  PROVE  TallyInv(StartProcessing(m, t))
<1> DEFINE r == StartProcessing(m, t)
<1>1. r.progress = m.progress
  BY StartProcessingFields
<1>2. r.processed = 0
  BY DEF StartProcessing, Marker
<1> HIDE DEF r
<1>3. \A f \in File : ~ IsDone(r, f)
  BY <1>1 DEF MarkerInv, IsDone
<1>4. TallyInv(r)
  BY <1>2, <1>3, TallyNone
<1>5. QED
  BY <1>4 DEF r

\* The download phase counts nothing but drops what is of other bytes.
LEMMA CountDownload ==
  ASSUME TypeOK, CountInv, Download PROVE CountInv'
<1>0. mem \in Marker /\ trusted \in [File -> Content \cup {None}] /\ TallyInv(mem) /\ TallyInv(disk)
  BY DEF TypeOK, DlTypeOK, CountInv
<1>1. TallyInv(mem')
  <2>1. CASE StartPhase
    BY <1>0, <2>1, TallyPhases, TallySame, Zenon DEF StartPhase
  <2>2. CASE FinishPhase
    BY <1>0, <2>2, TallyPhases, TallySame, Zenon DEF FinishPhase
  <2>3. ASSUME NEW f \in File, AlreadyHave(f) PROVE TallyInv(mem')
    BY <1>0, <2>3, TallyVerified DEF AlreadyHave
  <2>4. ASSUME NEW f \in File, BeginFetch(f) PROVE TallyInv(mem')
    BY <1>0, <2>4, TallyFetch, TallySame, Zenon DEF BeginFetch
  <2>5. CASE RecordBytes
    <3>1. current \in File /\ mem' = FileBytesVerified(mem, current, trusted[current])
      BY <2>5 DEF RecordBytes, TypeOK, DlTypeOK
    <3>2. QED
      BY <1>0, <3>1, TallyVerified
  <2>6. CASE UNCHANGED mem
    BY <1>0, <2>6
  <2>7. QED
    BY <2>1, <2>2, <2>3, <2>4, <2>5, <2>6 DEF Download, DownloadStep, PhaseFails, CreateFile,
       CreateFails, Received, AttemptFails, RejectBytes, AcceptBytes, SaveMetadata
<1>2. disk' = disk \/ disk' = mem'
  BY DEF Download, DownloadStep, StartPhase, PhaseFails, AlreadyHave, BeginFetch, CreateFile,
     CreateFails, Received, AttemptFails, RejectBytes, AcceptBytes, RecordBytes, FinishPhase,
     SaveMetadata, TrySave
<1>3. pc' # "tasks"
  BY DEF Download, DownloadStep, StartPhase, PhaseFails, AlreadyHave, BeginFetch, CreateFile,
     CreateFails, Received, AttemptFails, RejectBytes, AcceptBytes, RecordBytes, FinishPhase,
     SaveMetadata
<1>4. TallyInv(mem)' /\ TallyInv(disk)'
  BY <1>0, <1>1, <1>2 DEF TallyInv, CompletedFiles, IsDone
<1>5. QED
  BY <1>3, <1>4 DEF CountInv

\* A task counts its file once, with the number of records of the bytes it read.
LEMMA CountTask ==
  ASSUME TypeOK, IInv, CountInv, NEW f \in File, TaskStep(f) PROVE CountInv'
<1>0. mem \in Marker /\ task \in [File -> TaskState] /\ TallyInv(mem) /\ TallyInv(disk)
  BY DEF TypeOK, DlTypeOK, CountInv
<1>1. pc = "tasks"
  BY DEF TaskStep, TaskSkip, TaskBegin, TaskCount, TaskPublish, TaskDrained, TaskAnnounce,
     TaskComplete, TaskFails, HasPermit
<1>2. TallyInv(mem') /\ \A g \in File \ {f} : mem'.progress[g] = mem.progress[g]
  <2>1. CASE TaskBegin(f)
    <3>1. mem' = StartFileProcessing(mem, f) /\ ~ IsDone(mem, f)
      BY <1>1, <2>1 DEF TaskBegin, HasPermit, CountInv
    <3>2. /\ \A g \in File \ {f} : mem'.progress[g] = mem.progress[g]
          /\ ~ IsDone(mem', f)
      BY <1>0, <3>1, StartFileFields DEF IsDone
    <3>3. mem'.processed = mem.processed
      BY <1>0, <3>1, TallyFileFields, SMT
    <3>4. QED
      BY <1>0, <3>1, <3>2, <3>3, TallyUndone
  <2>2. CASE TaskCount(f)
    <3>1. PICK n \in 1..Size[bytes[f]] : mem' = UpdateFileProgress(mem, f, n)
      BY <2>2 DEF TaskCount
    <3>2. n \in Nat
      BY <2>2, <3>1, SizeNat DEF TaskCount
    <3>3. ~ IsDone(mem, f)
      BY <1>1, <2>2 DEF TaskCount, IInv, TaskInv
    <3>4. /\ \A g \in File \ {f} : mem'.progress[g] = mem.progress[g]
          /\ ~ IsDone(mem', f)
      BY <1>0, <3>1, <3>2, <3>3, FileOpsFields DEF IsDone
    <3>5. mem'.processed = mem.processed
      BY <1>0, <3>1, <3>2, TallyFileFields
    <3>6. QED
      BY <1>0, <3>3, <3>4, <3>5, TallyUndone
  <2>3. CASE TaskComplete(f)
    <3> DEFINE n == Size[bytes[f]]
    <3>1. mem' = CompleteFileProcessing(mem, f, n) /\ n \in Nat
      BY <2>3, SizeNat DEF TaskComplete, TypeOK
    <3>2. ~ IsDone(mem, f) /\ mem.progress[f].source = bytes[f]
      BY <1>1, <2>3 DEF TaskComplete, IInv, TaskInv
    <3> HIDE DEF n
    <3>3. /\ \A g \in File \ {f} : mem'.progress[g] = mem.progress[g]
          /\ IsDone(mem', f) /\ mem'.progress[f].source = bytes[f]
      BY <1>0, <3>1, <3>2, FileOpsFields DEF IsDone
    <3>4. mem'.processed = mem.processed + 1 /\ mem'.progress[f].records = n
      BY <1>0, <3>1, TallyFileFields
    <3>5. mem'.progress[f].records = Size[mem'.progress[f].source]
      BY <3>3, <3>4 DEF n
    <3>6. QED
      BY <1>0, <3>2, <3>3, <3>4, <3>5, TallyAdd
  <2>4. CASE UNCHANGED mem
    BY <1>0, <2>4
  <2>5. QED
    BY <2>1, <2>2, <2>3, <2>4 DEF TaskStep, TaskSkip, TaskPublish, TaskDrained, TaskAnnounce, TaskFails
<1>3. disk' = disk \/ disk' = mem'
  BY DEF TaskStep, TaskSkip, TaskBegin, TaskCount, TaskPublish, TaskDrained, TaskAnnounce,
     TaskComplete, TaskFails, TaskSave, TrySave
<1>4. \/ task' = task /\ task[f] = "started"
      \/ \E s \in {"started", "drained", "announced", "done", "failed", "skipped"} :
           task' = [task EXCEPT ![f] = s]
  <2>1. CASE TaskSkip(f) \/ TaskFails(f)
    BY <2>1 DEF TaskSkip, TaskFails
  <2>2. CASE TaskBegin(f) \/ TaskComplete(f)
    BY <2>2 DEF TaskBegin, TaskComplete, TaskSave
  <2>3. CASE TaskCount(f) \/ TaskPublish(f)
    BY <2>3 DEF TaskCount, TaskPublish
  <2>4. CASE TaskDrained(f) \/ TaskAnnounce(f)
    BY <2>4 DEF TaskDrained, TaskAnnounce
  <2>5. QED
    BY <2>1, <2>2, <2>3, <2>4 DEF TaskStep
<1>6. \A g \in File : task'[g] = "queued" => g # f /\ task[g] = "queued"
  <2>1. CASE task' = task /\ task[f] = "started"
    BY <2>1
  <2>2. ASSUME NEW s \in {"started", "drained", "announced", "done", "failed", "skipped"},
               task' = [task EXCEPT ![f] = s]
        PROVE  \A g \in File : task'[g] = "queued" => g # f /\ task[g] = "queued"
    BY <1>0, <2>2
  <2>3. QED
    BY <1>4, <2>1, <2>2
<1>5. \A g \in File : task'[g] = "queued" => ~ IsDone(mem', g)
  BY <1>1, <1>2, <1>6 DEF CountInv, IsDone
<1>7. TallyInv(mem') /\ TallyInv(disk')
  BY <1>0, <1>2, <1>3
<1>8. TallyInv(mem)' /\ TallyInv(disk)'
  BY <1>7 DEF TallyInv, CompletedFiles, IsDone
<1>9. QED
  BY <1>5, <1>8 DEF CountInv, IsDone

\* The steps between the downloads and the end of the run, and the process around
\* the runs.
LEMMA CountRun ==
  ASSUME TypeOK, IInv, CountInv, Next, ~ Download, ~ \E f \in File : TaskStep(f)
  PROVE  CountInv'
<1>0. /\ mem \in Marker /\ disk \in Marker /\ clock \in Nat
      /\ TallyInv(mem) /\ TallyInv(disk) /\ TallyInv(NewMarker)
  BY TallyNew DEF TypeOK, DlTypeOK, CountInv
<1>1. TallyInv(CompleteProcessing(mem)) /\ TallyInv(CompleteExtraction(mem))
  BY <1>0, TallyPhases, TallySame, Zenon
<1>2. TallyInv(mem') /\ TallyInv(disk')
  <2>1. CASE BeginRun
    BY <1>0, <2>1, Zenon DEF BeginRun
  <2>2. CASE BeginProcessing
    <3>1. TallyInv(mem')
      BY <1>0, <2>2, TallyStart DEF BeginProcessing, IInv
    <3>2. QED
      BY <1>0, <2>2, <3>1 DEF BeginProcessing, SaveOr
  <2>3. CASE AllProcessed \/ JoinSuccess
    BY <1>0, <1>1, <2>3 DEF AllProcessed, JoinSuccess, SaveOr, DropLocals
  <2>4. CASE JoinFailure
    BY <1>0, <2>4 DEF JoinFailure, DropLocals
  <2>5. CASE BroadcastSent \/ BroadcastFails \/ RunError \/ Crash
    BY <1>0, <2>5 DEF BroadcastSent, BroadcastFails, RunError, Crash, DropLocals
  <2>6. CASE Finalise
    BY <1>0, <1>1, <2>6 DEF Finalise, DropLocals
  <2>7. CASE UNCHANGED <<disk, mem>>
    BY <1>0, <2>7
  <2>8. QED
    BY <2>1, <2>2, <2>3, <2>4, <2>5, <2>6, <2>7 DEF Next, RunStep, Environment, SkipRun,
       NothingListed, RequestShutdown, Exit, Restart, OperatorDeletes, dlVars
<1>3. pc' = "tasks" => \A f \in File : task'[f] = "queued" => ~ IsDone(mem', f)
  <2>1. CASE BeginProcessing
    BY <2>1 DEF BeginProcessing, PendingFiles
  <2>2. CASE UNCHANGED <<pc, mem, task>>
    BY <2>2 DEF CountInv, IsDone
  <2>3. CASE pc' # "tasks"
    BY <2>3
  <2>4. QED
    <3>1. CASE BeginRun \/ SkipRun \/ NothingListed \/ RequestShutdown
      BY <2>2, <2>3, <3>1 DEF BeginRun, SkipRun, NothingListed, RequestShutdown, dlVars
    <3>2. CASE AllProcessed \/ JoinSuccess \/ JoinFailure
      BY <2>3, <3>2 DEF AllProcessed, JoinSuccess, JoinFailure, SaveOr
    <3>3. CASE BroadcastSent \/ BroadcastFails \/ Finalise \/ RunError
      BY <2>3, <3>3 DEF BroadcastSent, BroadcastFails, Finalise, RunError
    <3>4. CASE Exit \/ Restart \/ Crash
      BY <2>3, <3>4 DEF Exit, Restart, Crash
    <3>5. ASSUME NEW f \in File, OperatorDeletes(f)
          PROVE  pc' = "tasks" => \A g \in File : task'[g] = "queued" => ~ IsDone(mem', g)
      BY <2>2, <3>5 DEF OperatorDeletes, runVars
    <3>6. QED
      BY <2>1, <3>1, <3>2, <3>3, <3>4, <3>5 DEF Next, RunStep, Environment
<1>4. TallyInv(mem)' /\ TallyInv(disk)'
  BY <1>2 DEF TallyInv, CompletedFiles, IsDone
<1>5. QED
  BY <1>3, <1>4 DEF CountInv, IsDone

\* The counts of both markers are those of their files, and a file waiting for its
\* task is not completed.
LEMMA Counts == Spec => []CountInv
<1>1. Init => CountInv
  <2> SUFFICES ASSUME Init PROVE CountInv
    OBVIOUS
  <2>1. disk = NewMarker /\ mem = NewMarker /\ pc = "idle"
    BY DEF Init
  <2>2. QED
    BY <2>1, TallyNew DEF CountInv
<1>2. TypeOK /\ IInv /\ CountInv /\ [Next]_vars => CountInv'
  <2> SUFFICES ASSUME TypeOK, IInv, CountInv, [Next]_vars PROVE CountInv'
    OBVIOUS
  <2>1. CASE UNCHANGED vars
    BY <2>1 DEF vars, dlVars, runVars, CountInv, TallyInv, CompletedFiles, IsDone
  <2>2. QED
    BY <2>1, CountDownload, CountTask, CountRun
<1>3. QED
  BY <1>1, <1>2, TypeCorrect, Inductive, PTL DEF Spec

\* files_processed is the number of completed files, through any number of resumes,
\* invalidations and partial failures.
THEOREM CountsAreExact == Spec => []ProcessedIsCount
<1>1. CountInv => ProcessedIsCount
  BY DEF CountInv, TallyInv, ProcessedIsCount
<1>2. QED
  BY <1>1, Counts, PTL

\* A finalised version had extraction_complete sent to every data type, with the
\* start of its own processing phase and the exact record counts.
THEOREM FinalisedWasSent == Spec => []FinalisedWasBroadcast
<1>1. TypeOK /\ CountInv /\ CompletionInv => FinalisedWasBroadcast
  BY DEF CountInv, TallyInv, CompletionInv, FinalInv, FinalisedWasBroadcast
<1>2. QED
  BY <1>1, TypeCorrect, Counts, Completion, PTL

-----------------------------------------------------------------------------
(* Completed progress.                                                     *)

\* A step of the run drops a Completed status only of other bytes than those on disk.
MemKept ==
  \A f \in File : IsDone(mem, f) =>
    \/ mem'.progress[f].status = "Completed" /\ mem'.progress[f].source = mem.progress[f].source
    \/ f \notin todo' /\ bytes' = bytes /\ mem.progress[f].source # bytes[f]

\* What ProgressKept demands of one step.
DiskKept ==
  \A f \in File : IsDone(disk, f) /\ ~ IsDone(disk', f) =>
    fresh \/ disk.progress[f].source # bytes[f]

\* A step within a run that saves its marker, or does not.
LEMMA KeptStep ==
  ASSUME KeptInv, MemKept, pc \notin {"idle", "down"}, pc' # "list", fresh' = fresh,
         disk' = disk \/ disk' = mem',
         \A f \in File : pc # "list" /\ f \notin todo => f \notin todo' /\ bytes'[f] = bytes[f]
  PROVE  KeptInv' /\ DiskKept
<1>1. CASE disk' = disk
  <2>1. KeptInv'
    BY <1>1 DEF KeptInv, MemKept, IsDone
  <2>2. DiskKept
    BY <1>1 DEF DiskKept, IsDone
  <2>3. QED
    BY <2>1, <2>2
<1>2. CASE disk' = mem'
  <2>1. KeptInv'
    BY <1>2 DEF KeptInv, IsDone
  <2>2. DiskKept
    BY <1>2 DEF DiskKept, KeptInv, MemKept, IsDone
  <2>3. QED
    BY <2>1, <2>2
<1>3. QED
  BY <1>1, <1>2

\* A step that ends the run, with or without a last save.
LEMMA KeptEnd ==
  ASSUME KeptInv, pc' \in {"idle", "down"},
         \/ disk' = disk
         \/ pc \notin {"idle", "down"} /\ disk'.progress = mem.progress
  PROVE  KeptInv' /\ DiskKept
<1>1. KeptInv'
  BY DEF KeptInv
<1>2. DiskKept
  BY DEF KeptInv, DiskKept, IsDone
<1>3. QED
  BY <1>1, <1>2

\* file_bytes_verified drops a Completed status only of other bytes than c.
LEMMA VerifiedKept ==
  ASSUME NEW m \in Marker, NEW f \in File, NEW c \in Content \cup {None}, NEW g \in File,
         IsDone(m, g)
  PROVE  LET r == FileBytesVerified(m, f, c)
         IN  \/ r.progress[g].status = "Completed" /\ r.progress[g].source = m.progress[g].source
             \/ g = f /\ m.progress[f].source # c
<1>1. CASE g # f
  <2> DEFINE r == FileBytesVerified(m, f, c)
  <2>1. \A h \in File \ {f} : r.progress[h] = m.progress[h]
    BY VerifiedFields
  <2> HIDE DEF r
  <2>2. r.progress[g].status = "Completed" /\ r.progress[g].source = m.progress[g].source
    BY <1>1, <2>1 DEF IsDone
  <2>3. QED
    BY <2>2 DEF r
<1>2. CASE g = f /\ m.progress[f].source = c
  <2> DEFINE bound == [m EXCEPT !.checksum[f] = c]
  <2>1. FileBytesVerified(m, f, c) = bound
    BY <1>2 DEF FileBytesVerified
  <2>2. bound.progress = m.progress
    BY DEF Marker
  <2> HIDE DEF bound
  <2>3. QED
    BY <1>2, <2>1, <2>2 DEF IsDone
<1>3. QED
  BY <1>1, <1>2

\* The download loop drops what it finds to be of other bytes.
LEMMA KeptDownload ==
  ASSUME TypeOK, IInv, KeptInv, Download PROVE KeptInv' /\ DiskKept
<1>0. mem \in Marker /\ trusted \in [File -> Content \cup {None}]
      /\ bytes \in [File -> Content \cup {None, Torn}]
  BY DEF TypeOK, DlTypeOK
<1>1. MemKept
  <2>1. CASE StartPhase \/ FinishPhase
    <3>1. mem'.progress = mem.progress
      BY <1>0, <2>1, DownloadOpsFields DEF StartPhase, FinishPhase
    <3>2. QED
      BY <3>1 DEF MemKept, IsDone
  <2>2. ASSUME NEW f \in File, AlreadyHave(f) PROVE MemKept
    <3>1. /\ mem' = FileBytesVerified(mem, f, trusted[f]) /\ trusted[f] = bytes[f]
          /\ todo' = todo \ {f} /\ bytes' = bytes
      BY <2>2 DEF AlreadyHave, HaveFile
    <3>2. QED
      BY <1>0, <3>1, VerifiedKept DEF MemKept
  <2>3. ASSUME NEW f \in File, BeginFetch(f) PROVE MemKept
    <3>1. mem'.progress = mem.progress
      BY <1>0, <2>3, StartFileDownloadFields DEF BeginFetch
    <3>2. QED
      BY <3>1 DEF MemKept, IsDone
  <2>4. CASE RecordBytes
    <3>1. /\ mem' = FileBytesVerified(mem, current, trusted[current]) /\ current \in File
          /\ trusted[current] = bytes[current]
          /\ todo' = todo \ {current} /\ bytes' = bytes
      BY <2>4 DEF RecordBytes, IInv, LoopInv, TypeOK, DlTypeOK
    <3>2. QED
      BY <1>0, <3>1, VerifiedKept DEF MemKept
  <2>5. CASE UNCHANGED mem
    BY <2>5 DEF MemKept, IsDone
  <2>6. QED
    BY <2>1, <2>2, <2>3, <2>4, <2>5 DEF Download, DownloadStep, PhaseFails, CreateFile, CreateFails,
       Received, AttemptFails, RejectBytes, AcceptBytes, SaveMetadata
<1>2. disk' = disk \/ disk' = mem'
  BY DEF Download, DownloadStep, StartPhase, PhaseFails, AlreadyHave, BeginFetch, CreateFile,
     CreateFails, Received, AttemptFails, RejectBytes, AcceptBytes, RecordBytes, FinishPhase,
     SaveMetadata, TrySave
<1>3. pc \notin {"idle", "down"} /\ pc' # "list" /\ fresh' = fresh
  BY DEF Download, runVars, DownloadStep, StartPhase, PhaseFails, AlreadyHave, BeginFetch, CreateFile,
     CreateFails, Received, AttemptFails, RejectBytes, AcceptBytes, RecordBytes, FinishPhase,
     SaveMetadata
<1>4. /\ bytes' = bytes \/ (current \in todo /\ \E b : bytes' = [bytes EXCEPT ![current] = b])
      /\ pc = "list" \/ todo' \subseteq todo
  <2>1. CASE StartPhase \/ PhaseFails \/ CreateFails \/ AcceptBytes \/ RecordBytes
             \/ FinishPhase \/ SaveMetadata
    BY <2>1 DEF StartPhase, PhaseFails, CreateFails, AcceptBytes, RecordBytes, FinishPhase, SaveMetadata
  <2>2. ASSUME NEW f \in File, AlreadyHave(f) \/ BeginFetch(f)
        PROVE  bytes' = bytes /\ todo' \subseteq todo
    BY <2>2 DEF AlreadyHave, BeginFetch
  <2>3. CASE CreateFile \/ AttemptFails \/ RejectBytes
    BY <2>3 DEF CreateFile, AttemptFails, RejectBytes, IInv, LoopInv
  <2>4. ASSUME NEW c \in Content, Received(c)
        PROVE  current \in todo /\ bytes' = [bytes EXCEPT ![current] = c] /\ todo' = todo
    BY <2>4 DEF Received, IInv, LoopInv
  <2>5. QED
    BY <2>1, <2>2, <2>3, <2>4 DEF Download, DownloadStep
<1>5. \A f \in File : pc # "list" /\ f \notin todo => f \notin todo' /\ bytes'[f] = bytes[f]
  BY <1>0, <1>4
<1>6. QED
  BY <1>1, <1>2, <1>3, <1>5, KeptStep

\* A task touches no completed file.
LEMMA KeptTask ==
  ASSUME TypeOK, IInv, CountInv, KeptInv, NEW f \in File, TaskStep(f)
  PROVE  KeptInv' /\ DiskKept
<1>0. mem \in Marker
  BY DEF TypeOK, DlTypeOK
<1>1. pc = "tasks" /\ UNCHANGED <<pc, fresh, todo, bytes>>
  BY DEF TaskStep, TaskSkip, TaskBegin, TaskCount, TaskPublish, TaskDrained, TaskAnnounce,
     TaskComplete, TaskFails, HasPermit, taskRest
<1>2. MemKept
  <2>1. CASE TaskBegin(f)
    <3>1. mem' = StartFileProcessing(mem, f) /\ ~ IsDone(mem, f)
      BY <1>1, <2>1 DEF TaskBegin, HasPermit, CountInv
    <3>2. \A g \in File \ {f} : mem'.progress[g] = mem.progress[g]
      BY <1>0, <3>1, StartFileFields
    <3>3. QED
      BY <3>1, <3>2 DEF MemKept, IsDone
  <2>2. CASE TaskCount(f)
    <3>1. PICK n \in 1..Size[bytes[f]] : mem' = UpdateFileProgress(mem, f, n)
      BY <2>2 DEF TaskCount
    <3>2. n \in Nat /\ ~ IsDone(mem, f)
      BY <1>1, <2>2, <3>1, SizeNat DEF TaskCount, IInv, TaskInv
    <3>3. \A g \in File \ {f} : mem'.progress[g] = mem.progress[g]
      BY <1>0, <3>1, <3>2, FileOpsFields
    <3>4. QED
      BY <3>2, <3>3 DEF MemKept, IsDone
  <2>3. CASE TaskComplete(f)
    <3>1. mem' = CompleteFileProcessing(mem, f, Size[bytes[f]]) /\ Size[bytes[f]] \in Nat
      BY <2>3, SizeNat DEF TaskComplete, TypeOK
    <3>2. ~ IsDone(mem, f)
      BY <1>1, <2>3 DEF TaskComplete, IInv, TaskInv
    <3>3. \A g \in File \ {f} : mem'.progress[g] = mem.progress[g]
      BY <1>0, <3>1, FileOpsFields
    <3>4. QED
      BY <3>2, <3>3 DEF MemKept, IsDone
  <2>4. CASE UNCHANGED mem
    BY <2>4 DEF MemKept, IsDone
  <2>5. QED
    BY <2>1, <2>2, <2>3, <2>4 DEF TaskStep, TaskSkip, TaskPublish, TaskDrained, TaskAnnounce, TaskFails
<1>3. disk' = disk \/ disk' = mem'
  BY DEF TaskStep, TaskSkip, TaskBegin, TaskCount, TaskPublish, TaskDrained, TaskAnnounce,
     TaskComplete, TaskFails, TaskSave, TrySave
<1>4. QED
  BY <1>1, <1>2, <1>3, KeptStep

\* The steps between the downloads and the end of the run, and the process around
\* the runs.
LEMMA KeptRun ==
  ASSUME TypeOK, KeptInv, Next, ~ Download, ~ \E f \in File : TaskStep(f)
  PROVE  KeptInv' /\ DiskKept
<1>0. mem \in Marker /\ clock \in Nat
  BY DEF TypeOK, DlTypeOK
<1>1. CASE BeginRun
  <2>1. disk' = disk /\ (~ fresh' => mem' = disk \/ CompletedFiles(disk) = {})
    BY <1>1 DEF BeginRun, ShouldProcess
  <2>2. KeptInv'
    BY <2>1 DEF KeptInv, CompletedFiles, IsDone
  <2>3. DiskKept
    BY <2>1 DEF DiskKept, IsDone
  <2>4. QED
    BY <2>2, <2>3
<1>2. CASE SkipRun \/ NothingListed
  BY <1>2, KeptEnd DEF SkipRun, NothingListed, dlVars
<1>3. CASE RequestShutdown
  <2>1. UNCHANGED <<pc, fresh, disk, mem, todo, bytes>>
    BY <1>3 DEF RequestShutdown
  <2>2. QED
    BY <2>1 DEF KeptInv, DiskKept, IsDone
<1>4. CASE BeginProcessing \/ (AllProcessed /\ mem.overall # "Completed") \/ JoinSuccess
  <2>1. mem'.progress = mem.progress
    BY <1>0, <1>4, StartProcessingFields, CompleteOpsFields
    DEF BeginProcessing, AllProcessed, JoinSuccess
  <2>2. MemKept
    BY <2>1 DEF MemKept, IsDone
  <2>3. /\ disk' = disk \/ disk' = mem'
        /\ pc \notin {"idle", "down"} /\ pc' # "list"
        /\ UNCHANGED <<fresh, todo, bytes>>
    BY <1>4 DEF BeginProcessing, AllProcessed, JoinSuccess, Joined, SaveOr
  <2>4. QED
    BY <2>2, <2>3, KeptStep
<1>5. CASE AllProcessed /\ mem.overall = "Completed"
  BY <1>5, KeptEnd DEF AllProcessed
<1>6. CASE JoinFailure
  BY <1>6, KeptEnd DEF JoinFailure, Joined
<1>7. CASE BroadcastSent
  <2>1. /\ pc \notin {"idle", "down"} /\ pc' # "list"
        /\ UNCHANGED <<disk, mem, fresh, todo, bytes>>
    BY <1>7 DEF BroadcastSent
  <2>2. MemKept
    BY <2>1 DEF MemKept, IsDone
  <2>3. QED
    BY <2>1, <2>2, KeptStep
<1>8. CASE Finalise
  <2>1. CompleteExtraction(mem).progress = mem.progress
    BY <1>0, CompleteOpsFields
  <2>2. CASE pc' = "idle" /\ disk' = CompleteExtraction(mem)
    BY <1>8, <2>1, <2>2, KeptEnd DEF Finalise
  <2>3. CASE pc' = "error" /\ disk' = disk /\ mem' = CompleteExtraction(mem)
             /\ UNCHANGED <<fresh, todo>>
    <3>1. MemKept
      BY <2>1, <2>3 DEF MemKept, IsDone
    <3>2. QED
      BY <1>8, <2>3, <3>1, KeptStep DEF Finalise
  <2>4. QED
    BY <1>8, <2>2, <2>3 DEF Finalise
<1>9. CASE BroadcastFails \/ RunError \/ Crash \/ Exit \/ Restart
  BY <1>9, KeptEnd DEF BroadcastFails, RunError, Crash, Exit, Restart
<1>10. ASSUME NEW f \in File, OperatorDeletes(f) PROVE KeptInv' /\ DiskKept
  BY <1>10, KeptEnd DEF OperatorDeletes
<1>11. QED
  BY <1>1, <1>2, <1>3, <1>4, <1>5, <1>6, <1>7, <1>8, <1>9, <1>10
     DEF Next, RunStep, Environment

\* Completed progress on disk is known to the run that goes on from it.
LEMMA Kept == Spec => []KeptInv /\ [][DiskKept]_vars
<1>1. Init => KeptInv
  BY DEF Init, KeptInv
<1>2. TypeOK /\ IInv /\ CountInv /\ KeptInv /\ [Next]_vars => KeptInv' /\ [DiskKept]_vars
  <2> SUFFICES ASSUME TypeOK, IInv, CountInv, KeptInv, [Next]_vars
               PROVE  KeptInv' /\ [DiskKept]_vars
    OBVIOUS
  <2>1. CASE UNCHANGED vars
    BY <2>1 DEF vars, dlVars, runVars, KeptInv, IsDone
  <2>2. CASE Next
    BY <2>2, KeptDownload, KeptTask, KeptRun
  <2>3. QED
    BY <2>1, <2>2
<1>3. QED
  BY <1>1, <1>2, TypeCorrect, Inductive, Counts, PTL DEF Spec

\* No interruption makes the durable marker forget a finished file: only a run told
\* to start over, or bytes that have changed, takes a Completed status away.
THEOREM ProgressIsKept == Spec => ProgressKept
<1>1. [DiskKept]_vars => [\A f \in File : IsDone(disk, f) /\ ~ IsDone(disk', f) =>
                            fresh \/ disk.progress[f].source # bytes[f]]_vars
  BY DEF DiskKept
<1>2. QED
  BY <1>1, Kept, PTL DEF ProgressKept
=============================================================================
