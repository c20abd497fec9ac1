----------------------------- MODULE DiscogsRun -----------------------------
(***************************************************************************)
(* One version of the Discogs dump from the first attempt to the broadcast *)
(* of extraction_complete, over any number of runs, crashes and restarts   *)
(* (discogs/mod.rs, process_discogs_data and process_single_file).  The    *)
(* download phase is Downloader's; this module adds the decision of what   *)
(* to do, one task per pending file, the broadcast and the final commit.   *)
(*                                                                         *)
(* The broker and the consumers behind it appear through what they have    *)
(* confirmed: for every data type the rows of its last complete pass, and  *)
(* the last extraction_complete.  Time is counted in runs: a consumer that *)
(* receives extraction_complete with started_at t purges the rows it last  *)
(* saw before t.                                                           *)
(***************************************************************************)
EXTENDS Downloader

CONSTANTS Size,         \* records in a byte-image
          MaxWorkers,   \* permits of the file semaphore
          MaxFaults     \* faults the environment may inject

ASSUME SizeNat == Size \in [Content -> Nat \ {0}]
ASSUME WorkersPositive == MaxWorkers \in Nat \ {0}
ASSUME FaultsNat == MaxFaults \in Nat

VARIABLES clock,    \* number of runs begun
          task,     \* the state of each file's task
          shutdown, \* the shutdown flag
          fresh,    \* this run deliberately began from a new marker
          outcome,  \* what the last run reported
          broker,   \* per data type: rows confirmed and whether file_complete followed
          purge,    \* per data type: started_at of the last extraction_complete
          counts    \* per data type: its record count in that message

runVars == <<clock, task, shutdown, fresh, outcome, broker, purge, counts>>
vars == <<dlVars, runVars>>

TaskState == {"none", "queued", "started", "drained", "announced",
              "done", "failed", "skipped"}

Outcome == {"none", "running", "empty", "skipped", "finalised", "failed"}

NoTasks == [f \in File |-> "none"]

\* Rows confirmed by the broker for one data type: the byte-image they are all
\* of (None when they are mixed), a lower bound on when they were sent, and
\* whether file_complete has followed them.
Delivery == [content : Content \cup {None}, at : Nat, announced : BOOLEAN]

Init ==
  /\ disk = NewMarker /\ mem = NewMarker
  /\ bytes = NoBytes /\ meta = NoBytes /\ trusted = NoBytes
  /\ pc = "idle"
  /\ todo = {} /\ current = None /\ attempt = 0
  /\ published = {}
  /\ budget = MaxFaults
  /\ clock = 0
  /\ task = NoTasks
  /\ shutdown = FALSE /\ fresh = FALSE
  /\ outcome = "none"
  /\ broker = [f \in File |-> [content |-> None, at |-> 0, announced |-> FALSE]]
  /\ purge = [f \in File |-> 0]
  /\ counts = [f \in File |-> 0]

-----------------------------------------------------------------------------
(* The run's locals go out of scope: it returned or the process died.      *)
DropLocals ==
  /\ mem' = NewMarker
  /\ trusted' = NoBytes
  /\ todo' = {} /\ current' = None /\ attempt' = 0
  /\ published' = {}
  /\ task' = NoTasks
  /\ fresh' = FALSE

\* A save whose error is propagated with `?`: the run stops.
SaveOr(m, next, stop) ==
  \/ disk' = m /\ pc' = next /\ UNCHANGED budget
  \/ Fault /\ pc' = stop /\ UNCHANGED disk

(* What the marker of the new run is: `force` and an unreadable or corrupt *)
(* marker file both start from a new one.                                  *)
BeginRun ==
  /\ pc = "idle" /\ ~ shutdown
  /\ \E loaded \in {disk, NewMarker} :
       /\ \/ loaded = disk /\ fresh' = FALSE /\ UNCHANGED budget
          \/ loaded = NewMarker /\ fresh' = TRUE /\ Fault
       /\ ShouldProcess(loaded) # "Skip"
       /\ mem' = IF ShouldProcess(loaded) = "Reprocess" THEN NewMarker ELSE loaded
  /\ trusted' \in {meta, NoBytes}
  /\ pc' = "list"
  /\ clock' = clock + 1
  /\ outcome' = "running"
  /\ UNCHANGED <<disk, bytes, meta, todo, current, attempt, published,
                 task, shutdown, broker, purge, counts>>

SkipRun ==
  /\ pc = "idle" /\ ~ shutdown
  /\ ShouldProcess(disk) = "Skip"
  /\ outcome' = "skipped"
  /\ UNCHANGED <<dlVars, clock, task, shutdown, fresh, broker, purge, counts>>

\* The listing fails, or names no complete month: the marker is not touched.
NothingListed ==
  /\ pc = "idle" /\ ~ shutdown
  /\ Fault
  /\ outcome' \in {"empty", "failed"}
  /\ UNCHANGED <<disk, mem, bytes, meta, trusted, pc, todo, current, attempt, published,
                 clock, task, shutdown, fresh, broker, purge, counts>>

Download == DownloadStep /\ UNCHANGED runVars

(* start_processing on a first attempt, the total refreshed on a resume;   *)
(* a phase already Completed is left alone and not saved.                  *)
BeginProcessing ==
  /\ pc = "ready"
  /\ mem' = IF mem.processing = "Pending" THEN StartProcessing(mem, clock) ELSE mem
  /\ LET pending == PendingFiles(mem')
         next    == IF pending = {} THEN "early" ELSE "tasks"
     IN  /\ IF mem.processing \in {"Pending", "InProgress"}
              THEN SaveOr(mem', next, "error")
              ELSE pc' = next /\ UNCHANGED <<disk, budget>>
         /\ task' = [f \in File |-> IF f \in pending THEN "queued" ELSE "none"]
  /\ UNCHANGED <<bytes, meta, trusted, todo, current, attempt, published,
                 clock, shutdown, fresh, outcome, broker, purge, counts>>

\* Every file was already processed: only the broadcast may still be owed.
AllProcessed ==
  /\ pc = "early"
  /\ IF mem.overall = "Completed"
       THEN pc' = "idle" /\ outcome' = "finalised" /\ DropLocals /\ UNCHANGED <<disk, budget>>
       ELSE /\ mem' = CompleteProcessing(mem)
            /\ SaveOr(mem', "broadcast", "error")
            /\ UNCHANGED <<outcome, trusted, todo, current, attempt, published, task, fresh>>
  /\ UNCHANGED <<bytes, meta, clock, shutdown, broker, purge, counts>>

-----------------------------------------------------------------------------
(* One task per pending file.                                              *)
Working == {f \in File : task[f] \in {"started", "drained", "announced"}}

taskRest == <<bytes, meta, trusted, pc, todo, current, attempt, published,
              clock, shutdown, fresh, outcome, purge, counts>>

\* A save by a task: of the shared marker, all of it.
TaskSave(f, m, next) ==
  \/ disk' = m /\ task' = [task EXCEPT ![f] = next] /\ UNCHANGED budget
  \/ Fault /\ task' = [task EXCEPT ![f] = "failed"] /\ UNCHANGED disk

HasPermit(f) == pc = "tasks" /\ task[f] = "queued" /\ Cardinality(Working) < MaxWorkers

TaskSkip(f) ==
  /\ HasPermit(f) /\ shutdown
  /\ task' = [task EXCEPT ![f] = "skipped"]
  /\ UNCHANGED <<disk, mem, budget, broker, taskRest>>

TaskBegin(f) ==
  /\ HasPermit(f) /\ ~ shutdown
  /\ mem' = StartFileProcessing(mem, f)
  /\ TaskSave(f, mem', "started")
  /\ UNCHANGED <<broker, taskRest>>

\* The batcher counts records and saves now and then; its errors are logged.
TaskCount(f) ==
  /\ pc = "tasks" /\ task[f] = "started" /\ bytes[f] \in Content
  /\ \E n \in 1..Size[bytes[f]] :
       /\ n > mem.progress[f].records
       /\ mem' = UpdateFileProgress(mem, f, n)
  /\ TrySave(mem')
  /\ UNCHANGED <<task, broker, taskRest>>

\* The publisher sends a batch: the rows of the type are now of several passes.
TaskPublish(f) ==
  /\ pc = "tasks" /\ task[f] = "started" /\ bytes[f] \in Content
  /\ broker' = [broker EXCEPT ![f].content = None, ![f].announced = FALSE]
  /\ UNCHANGED <<disk, mem, budget, task, taskRest>>

\* All stages of the pipeline have ended without error and the publisher has a
\* confirm for every row.
TaskDrained(f) ==
  /\ pc = "tasks" /\ task[f] = "started" /\ bytes[f] \in Content
  /\ broker' = [broker EXCEPT ![f] = [content |-> bytes[f], at |-> clock, announced |-> FALSE]]
  /\ task' = [task EXCEPT ![f] = "drained"]
  /\ UNCHANGED <<disk, mem, budget, taskRest>>

TaskAnnounce(f) ==
  /\ pc = "tasks" /\ task[f] = "drained"
  /\ broker' = [broker EXCEPT ![f].announced = TRUE]
  /\ task' = [task EXCEPT ![f] = "announced"]
  /\ UNCHANGED <<disk, mem, budget, taskRest>>

\* Mutant: the marker may be committed before file_complete is sent.
TaskCompleteEarly(f) ==
  /\ pc = "tasks" /\ task[f] \in {"drained", "announced"}
  /\ mem' = CompleteFileProcessing(mem, f, Size[bytes[f]])
  /\ TaskSave(f, mem', "done")
  /\ UNCHANGED <<broker, taskRest>>

TaskComplete(f) ==
  /\ pc = "tasks" /\ task[f] = "announced"
  /\ mem' = CompleteFileProcessing(mem, f, Size[bytes[f]])
  /\ TaskSave(f, mem', "done")
  /\ UNCHANGED <<broker, taskRest>>

\* No connection, no exchange, a stage that fails, or a file_complete whose
\* confirm does not come although the broker may have the message.
TaskFails(f) ==
  /\ \/ HasPermit(f) /\ ~ shutdown /\ UNCHANGED broker
     \/ pc = "tasks" /\ task[f] = "started" /\ UNCHANGED broker
     \/ /\ pc = "tasks" /\ task[f] = "drained"
        /\ \E sent \in BOOLEAN : broker' = [broker EXCEPT ![f].announced = sent]
  /\ Fault
  /\ task' = [task EXCEPT ![f] = "failed"]
  /\ UNCHANGED <<disk, mem, taskRest>>

TaskStep(f) ==
  \/ TaskSkip(f) \/ TaskBegin(f) \/ TaskCount(f) \/ TaskPublish(f)
  \/ TaskDrained(f) \/ TaskAnnounce(f) \/ TaskComplete(f) \/ TaskFails(f)

-----------------------------------------------------------------------------
(* The end of a run.                                                       *)
Joined == pc = "tasks" /\ \A f \in File : task[f] \in {"none", "done", "failed", "skipped"}

\* A shutdown request is folded into the result of the tasks.
Success == ~ shutdown /\ \A f \in File : task[f] # "failed"

JoinSuccess ==
  /\ Joined /\ Success
  /\ mem' = CompleteProcessing(mem)
  /\ SaveOr(mem', "broadcast", "error")
  /\ UNCHANGED <<bytes, meta, trusted, todo, current, attempt, published,
                 clock, task, shutdown, fresh, outcome, broker, purge, counts>>

JoinFailure ==
  /\ Joined /\ ~ Success
  /\ \/ disk' = mem /\ UNCHANGED budget
     \/ Fault /\ UNCHANGED disk
  /\ pc' = "idle"
  /\ outcome' = "failed"
  /\ DropLocals
  /\ UNCHANGED <<bytes, meta, clock, shutdown, broker, purge, counts>>

\* Mutant: the broadcast carries the start of the resumed run.
StartedAtResume == clock

StartedAt == IF mem.startedAt = 0 THEN clock ELSE mem.startedAt

\* extraction_complete reaches the exchanges of the data types in S.
Broadcast(S) ==
  /\ purge' = [f \in File |-> IF f \in S THEN StartedAt ELSE purge[f]]
  /\ counts' = [f \in File |-> IF f \in S THEN mem.progress[f].records ELSE counts[f]]

BroadcastSent ==
  /\ pc = "broadcast"
  /\ Broadcast(File)
  /\ pc' = "finalise"
  /\ UNCHANGED <<disk, mem, bytes, meta, trusted, todo, current, attempt, published, budget,
                 clock, task, shutdown, fresh, outcome, broker>>

\* Mutant: a failed broadcast is logged and the version finalised.
BroadcastFailsIgnored ==
  /\ pc = "broadcast"
  /\ Fault
  /\ \E S \in SUBSET File : Broadcast(S)
  /\ pc' = "finalise"
  /\ UNCHANGED <<disk, mem, bytes, meta, trusted, todo, current, attempt, published,
                 clock, task, shutdown, fresh, outcome, broker>>

\* Mutant: a failed broadcast is reported as success.
BroadcastFailsSilently ==
  /\ pc = "broadcast"
  /\ Fault
  /\ \E S \in SUBSET File : Broadcast(S)
  /\ pc' = "idle"
  /\ outcome' = "finalised"
  /\ DropLocals
  /\ UNCHANGED <<disk, bytes, meta, clock, shutdown, broker>>

\* No connection, or some exchange fails: the others have had the message, and
\* the version stays incomplete so that a later run sends it again.
BroadcastFails ==
  /\ pc = "broadcast"
  /\ Fault
  /\ \E S \in SUBSET File : Broadcast(S)
  /\ pc' = "idle"
  /\ outcome' = "failed"
  /\ DropLocals
  /\ UNCHANGED <<disk, bytes, meta, clock, shutdown, broker>>

Finalise ==
  /\ pc = "finalise"
  /\ \/ /\ disk' = CompleteExtraction(mem) /\ UNCHANGED budget
        /\ pc' = "idle" /\ outcome' = "finalised" /\ DropLocals
     \/ /\ Fault /\ UNCHANGED disk
        /\ pc' = "error" /\ mem' = CompleteExtraction(mem)
        /\ UNCHANGED <<outcome, trusted, todo, current, attempt, published, task, fresh>>
  /\ UNCHANGED <<bytes, meta, clock, shutdown, broker, purge, counts>>

\* An error propagated out of the run: the loop resets the status to Failed.
RunError ==
  /\ pc = "error"
  /\ pc' = "idle"
  /\ outcome' = "failed"
  /\ DropLocals
  /\ UNCHANGED <<disk, bytes, meta, budget, clock, shutdown, broker, purge, counts>>

-----------------------------------------------------------------------------
(* The process around the runs.                                            *)
RequestShutdown ==
  /\ pc # "down" /\ ~ shutdown
  /\ Fault
  /\ shutdown' = TRUE
  /\ UNCHANGED <<disk, mem, bytes, meta, trusted, pc, todo, current, attempt, published,
                 clock, task, fresh, outcome, broker, purge, counts>>

Exit ==
  /\ pc = "idle" /\ (shutdown \/ outcome = "failed")
  /\ pc' = "down"
  /\ shutdown' = FALSE
  /\ outcome' = "none"
  /\ UNCHANGED <<disk, mem, bytes, meta, trusted, todo, current, attempt, published, budget,
                 clock, task, fresh, broker, purge, counts>>

Crash ==
  /\ pc # "down"
  /\ Fault
  /\ pc' = "down"
  /\ shutdown' = FALSE
  /\ outcome' = "none"
  /\ DropLocals
  /\ UNCHANGED <<disk, bytes, meta, clock, broker, purge, counts>>

Restart ==
  /\ pc = "down"
  /\ pc' = "idle"
  /\ UNCHANGED <<disk, mem, bytes, meta, trusted, todo, current, attempt, published, budget,
                 runVars>>

\* An operator reclaims disk space between runs.
OperatorDeletes(f) ==
  /\ pc \in {"idle", "down"} /\ bytes[f] # None
  /\ Fault
  /\ bytes' = [bytes EXCEPT ![f] = None]
  /\ UNCHANGED <<disk, mem, meta, trusted, pc, todo, current, attempt, published, runVars>>

RunStep ==
  \/ BeginRun \/ SkipRun
  \/ Download
  \/ BeginProcessing \/ AllProcessed
  \/ \E f \in File : TaskStep(f)
  \/ JoinSuccess \/ JoinFailure
  \/ BroadcastSent \/ BroadcastFails
  \/ Finalise \/ RunError
  \/ Exit \/ Restart

Environment ==
  \/ NothingListed \/ RequestShutdown \/ Crash
  \/ \E f \in File : OperatorDeletes(f)

Next == RunStep \/ Environment

Spec == Init /\ [][Next]_vars

-----------------------------------------------------------------------------
(* Properties.                                                             *)
Pcs == DownloadPcs \cup {"down", "idle", "ready", "early", "tasks", "broadcast", "finalise", "error"}

\* Every variable stays in its type.
TypeOK ==
  /\ DlTypeOK
  /\ pc \in Pcs
  /\ clock \in Nat
  /\ task \in [File -> TaskState]
  /\ pc = "tasks" => \A f \in File : task[f] \in {"drained", "announced"} => bytes[f] \in Content
  /\ shutdown \in BOOLEAN /\ fresh \in BOOLEAN
  /\ outcome \in Outcome
  /\ broker \in [File -> Delivery]
  /\ purge \in [File -> Nat]
  /\ counts \in [File -> Nat]

\* The marker never claims more than the broker has: a file that the marker, on
\* disk or in memory, calls Completed has had every row of the byte-image it was
\* computed from confirmed, and file_complete after them (mod.rs:587-606).
CompletedWasDelivered ==
  \A m \in {disk, mem} : \A f \in File :
    IsDone(m, f) => /\ broker[f].announced
                    /\ broker[f].content = m.progress[f].source

\* A stale-row purge never deletes rows of the current dump: started_at of every
\* extraction_complete is not later than the rows last delivered for the type,
\* even when they were delivered runs ago (mod.rs:171-178).
PurgeKeepsRows == \A f \in File : purge[f] <= broker[f].at

\* A version finalised on disk, the one every later cycle skips, has all files
\* delivered and had extraction_complete sent to every data type with the start
\* of its own processing phase and exact record counts (mod.rs:364-412).
FinalisedWasBroadcast ==
  disk.overall = "Completed" =>
    \A f \in File : /\ IsDone(disk, f)
                    /\ purge[f] = disk.startedAt /\ purge[f] > 0
                    /\ counts[f] = Size[disk.progress[f].source]

PastDownload == {"early", "tasks", "broadcast", "finalise"}

\* After the download phase no Completed status is left that was computed from
\* other bytes than the ones on disk (state_marker.rs:386-439).
CompletedMatchesBytes ==
  pc \in PastDownload =>
    \A f \in File : IsDone(mem, f) => mem.progress[f].source = bytes[f]

\* Of every file that the CHECKSUM list of the run names, what the run finalises is
\* what Discogs published, in whatever run the rows were delivered, and whatever is
\* the case with the files the list lacks (downloader.rs:155-211).
VerifiedWhenPublished ==
  pc \in {"broadcast", "finalise"} => \A f \in published : broker[f].content = Good

\* files_processed is the number of completed files, through resumes,
\* invalidations and partial failures (state_marker.rs:426, 511).
ProcessedIsCount ==
  \A m \in {disk, mem} : m.processed = Cardinality(CompletedFiles(m))

\* A run reports success only when the version is finalised: a failed broadcast
\* is never reported as Completed (mod.rs:233-253, 415-418).
ReportedSuccessIsFinal ==
  outcome \in {"skipped", "finalised"} => disk.overall = "Completed"

\* Completed progress leaves the durable marker only in a run that was told to
\* start over (force, unreadable marker) or because the bytes have changed; an
\* interrupted download phase never discards it (state_marker.rs:294-316).
ProgressKept ==
  [][\A f \in File : IsDone(disk, f) /\ ~ IsDone(disk', f) =>
       fresh \/ disk.progress[f].source # bytes[f]]_vars

-----------------------------------------------------------------------------
(* The inductive invariant behind CompletedWasDelivered, PurgeKeepsRows and *)
(* CompletedMatchesBytes: what has to hold in the middle of a run.         *)
Owed == {"early", "broadcast", "finalise"}

\* The position in the download loop.
LoopInv ==
  /\ pc \in {"request", "stream", "verify", "record"} => current \in todo
  /\ pc \in {"verify", "record"} => trusted[current] = bytes[current] /\ bytes[current] \in Content
  /\ pc \in {"metadata", "ready"} \cup PastDownload => todo = {}

\* The files the loop has visited are whole, their checksum is bound, and no
\* Completed status of other bytes is left.
BoundInv ==
  pc \in (DownloadPcs \ {"list"}) \cup {"ready"} \cup PastDownload =>
    \A f \in File \ todo :
      /\ bytes[f] \in Content
      /\ mem.checksum[f] = bytes[f]
      /\ IsDone(mem, f) => mem.progress[f].source = bytes[f]

\* What each task knows; `done` and `none` are the files that are Completed.
TaskInv ==
  pc = "tasks" => \A f \in File :
    /\ task[f] \in {"started", "drained", "announced"} =>
         ~ IsDone(disk, f) /\ ~ IsDone(mem, f) /\ mem.progress[f].source = bytes[f]
    /\ task[f] \in {"drained", "announced"} =>
         broker[f].content = bytes[f] /\ broker[f].at = clock
    /\ task[f] = "announced" => broker[f].announced
    /\ task[f] \in {"none", "done"} => IsDone(mem, f)
    /\ task[f] = "skipped" => shutdown

\* A marker in itself and against the broker.
MarkerInv(m) ==
  /\ m.startedAt <= clock
  /\ m.processing # "Pending" => m.startedAt > 0
  /\ \A f \in File : IsDone(m, f) =>
       /\ m.processing # "Pending"
       /\ m.progress[f].source \in Content
       /\ broker[f].announced
       /\ broker[f].content = m.progress[f].source
       /\ m.startedAt <= broker[f].at

PhaseInv ==
  /\ pc \notin {"idle", "down"} => clock > 0
  /\ pc \in PastDownload => mem.processing # "Pending"
  /\ pc \in Owed => \A f \in File : IsDone(mem, f)

ClockInv == \A f \in File : broker[f].at <= clock /\ purge[f] <= broker[f].at

IInv == /\ LoopInv /\ BoundInv /\ TaskInv /\ PhaseInv /\ ClockInv
        /\ MarkerInv(disk) /\ MarkerInv(mem)

-----------------------------------------------------------------------------
(* The inductive invariants behind the other properties, on top of IInv.   *)

\* The files visited that the CHECKSUM list names are the published ones.
PublishedInv ==
  /\ pc \in (DownloadPcs \ {"list"}) \cup {"ready"} \cup PastDownload =>
       \A f \in published \ todo : bytes[f] = Good
  /\ pc = "record" /\ current \in published => bytes[current] = Good

\* The counts a marker keeps are those of its completed files.
TallyInv(m) ==
  /\ m.processed = Cardinality(CompletedFiles(m))
  /\ \A f \in File : IsDone(m, f) => m.progress[f].records = Size[m.progress[f].source]

CountInv ==
  /\ TallyInv(disk) /\ TallyInv(mem)
  /\ pc = "tasks" => \A f \in File : task[f] = "queued" => ~ IsDone(mem, f)

\* A finalised marker was broadcast as it stands.
FinalInv(m) ==
  m.overall = "Completed" =>
    /\ m.startedAt > 0
    /\ \A f \in File : /\ IsDone(m, f)
                       /\ purge[f] = m.startedAt
                       /\ counts[f] = m.progress[f].records

\* Nothing is broadcast of a version that is finalised, and what is finalised is
\* what was broadcast.
BroadcastInv ==
  /\ pc = "tasks" => mem.overall # "Completed"
  /\ pc \in {"broadcast", "finalise"} => mem.overall # "Completed" /\ disk = mem
  /\ pc = "finalise" => \A f \in File : /\ purge[f] = mem.startedAt
                                        /\ counts[f] = mem.progress[f].records

\* A run holds a version to be finalised only while the marker on disk says so.
OutcomeInv ==
  /\ outcome \in {"skipped", "finalised"} => pc = "idle" /\ disk.overall = "Completed"
  /\ mem.overall = "Completed" /\ pc # "error" => disk.overall = "Completed"

CompletionInv == /\ FinalInv(disk) /\ FinalInv(mem)
                 /\ BroadcastInv /\ OutcomeInv

\* What is Completed on disk is so in memory too, unless the file was visited and
\* its bytes found to be others.
KeptInv ==
  pc \notin {"idle", "down"} /\ ~ fresh =>
    \A f \in File : IsDone(disk, f) =>
      \/ mem.progress[f].status = "Completed" /\ mem.progress[f].source = disk.progress[f].source
      \/ pc # "list" /\ f \notin todo /\ disk.progress[f].source # bytes[f]

-----------------------------------------------------------------------------
(* Liveness: a supervisor restarts the process and retries the run, so once *)
(* the faults stop the version is finalised for good.                       *)
Fairness == WF_vars(RunStep)

FairSpec == Spec /\ Fairness

\* However the faults fall, no state of the durable marker wedges the pipeline:
\* the version ends finalised.
EventuallyFinalised == <>[](disk.overall = "Completed")
=============================================================================
