---------------------------- MODULE ServiceLoop ----------------------------
(***************************************************************************)
(* The life of the service process (discogs/mod.rs, run_extraction_loop;   *)
(* health.rs; runtime.rs; main.rs): an initial run, then a loop that       *)
(* sleeps until the next periodic check, a POST /trigger or a shutdown.    *)
(*                                                                         *)
(* Actors: the loop, the HTTP handler of /trigger, the signal handler and  *)
(* the monitor task that turns the one-shot Notify into a flag.  A run is  *)
(* seen from outside: it returns Ok(true), Ok(false) or Err and has moved  *)
(* extraction_status accordingly (DiscogsRun is its inside).               *)
(*                                                                         *)
(* Notify::notify_waiters wakes whoever is waiting at that moment and      *)
(* leaves nothing for those who come later.                                *)
(***************************************************************************)
EXTENDS Naturals

CONSTANT Untriggered   \* no trigger

ASSUME NoTrigger == Untriggered \notin BOOLEAN

VARIABLES main,     \* where the loop stands
          kind,     \* the run under way: "initial", "periodic" or "triggered"
          oneShot,  \* started with a local manifest: one run and no loop
          force,    \* its force_reprocess
          failing,  \* the run has decided on Ok(false)
          status,   \* extraction_status, as GET /health reports it
          trigger,  \* the accepted trigger that was not consumed yet
          monitor,  \* the shutdown monitor: not polled yet, parked, woken, done
          woken,    \* the Notified of the loop's select! has been woken
          flag,     \* the pollable shutdown flag
          signal,   \* SIGTERM or SIGINT has been delivered
          lastOk    \* the last attempt at a run succeeded

loopVars == <<main, kind, oneShot, force, failing, status, woken, lastOk>>
serviceVars == <<loopVars, trigger, monitor, flag, signal>>

ServiceInit ==
  /\ main = "create" /\ kind = "initial" /\ force \in BOOLEAN /\ oneShot \in BOOLEAN
  /\ failing = FALSE
  /\ status = "idle"
  /\ trigger = Untriggered
  /\ monitor = "spawned"
  /\ woken = FALSE /\ flag = FALSE /\ signal = FALSE
  /\ lastOk = FALSE

-----------------------------------------------------------------------------
(* The other actors.                                                       *)

\* POST /trigger, which holds the trigger lock and the state lock together.
TriggerHandler(f) ==
  /\ main \notin {"exited", "failed"}
  /\ status # "running"
  /\ trigger' = f
  /\ UNCHANGED <<loopVars, monitor, flag, signal>>

\* The signal handler: one signal, notify_waiters, and the task is over.
Signal ==
  /\ main \notin {"exited", "failed"} /\ ~ signal
  /\ signal' = TRUE
  /\ monitor' = IF monitor = "parked" THEN "woken" ELSE monitor
  /\ woken' = (main = "parked")
  /\ UNCHANGED <<main, kind, oneShot, force, failing, status, trigger, flag, lastOk>>

MonitorParks ==
  /\ monitor = "spawned"
  /\ monitor' = "parked"
  /\ UNCHANGED <<loopVars, trigger, flag, signal>>

MonitorStores ==
  /\ monitor = "woken"
  /\ monitor' = "done"
  /\ flag' = TRUE
  /\ UNCHANGED <<loopVars, trigger, signal>>

otherVars == <<trigger, monitor, flag, signal>>

-----------------------------------------------------------------------------
(* A run.                                                                  *)

\* Downloader::new succeeds.
Created ==
  /\ main = "create"
  /\ main' = "guard"
  /\ UNCHANGED <<kind, oneShot, force, failing, status, woken, lastOk, otherVars>>

\* Mutant: a run that never starts leaves the status as it was.
CreateFailsSilently ==
  /\ main = "create"
  /\ lastOk' = FALSE
  /\ main' = IF kind = "initial" THEN "failed" ELSE "top"
  /\ UNCHANGED <<kind, oneShot, force, failing, status, woken, otherVars>>

\* It fails: the initial run ends the process, any other is recorded as failed.
CreateFails ==
  /\ main = "create"
  /\ lastOk' = FALSE
  /\ IF kind = "initial"
       THEN main' = "failed" /\ UNCHANGED status
       ELSE main' = "top" /\ status' = "failed"
  /\ UNCHANGED <<kind, oneShot, force, failing, woken, otherVars>>

\* process_discogs_data looks at the flag before anything else.
Guard ==
  /\ main = "guard"
  /\ IF flag THEN main' = "outcome" /\ failing' = TRUE
             ELSE main' = "reset" /\ failing' = FALSE
  /\ UNCHANGED <<kind, oneShot, force, status, woken, lastOk, otherVars>>

ResetProgress ==
  /\ main = "reset"
  /\ status' = "running"
  /\ main' = "run"
  /\ UNCHANGED <<kind, oneShot, force, failing, woken, lastOk, otherVars>>

\* Nothing listed, a version to skip, no data files, or everything already
\* processed: these returns do not look at the flag.  The last one can fail.
RunShort(ok) ==
  /\ main = "run"
  /\ failing' = ~ ok
  /\ main' = "record"
  /\ UNCHANGED <<kind, oneShot, force, status, woken, lastOk, otherVars>>

\* The tasks have been joined: a shutdown request seen here fails the run.
RunJoined ==
  /\ main = "run"
  /\ failing' \in {flag, TRUE}
  /\ main' = "record"
  /\ UNCHANGED <<kind, oneShot, force, status, woken, lastOk, otherVars>>

\* The final write of extraction_status.
RecordStatus ==
  /\ main = "record"
  /\ status' = IF failing THEN "failed" ELSE "completed"
  /\ main' = "outcome"
  /\ UNCHANGED <<kind, oneShot, force, failing, woken, lastOk, otherVars>>

\* An early `?`.  The initial run ends the process with the status still
\* Running; the loop resets it.
RunErr ==
  /\ main = "run"
  /\ lastOk' = FALSE
  /\ IF kind = "initial"
       THEN main' = "failed" /\ UNCHANGED status
       ELSE main' = "top" /\ status' = "failed"
  /\ UNCHANGED <<kind, oneShot, force, failing, woken, otherVars>>

\* initial_run_outcome: a shutdown is a clean exit, a failure is not.
Outcome ==
  /\ main = "outcome"
  /\ lastOk' = ~ failing
  /\ main' = IF kind = "initial" /\ failing /\ ~ flag THEN "failed"
             ELSE IF oneShot THEN "exited" ELSE "top"
  /\ UNCHANGED <<kind, oneShot, force, failing, status, woken, otherVars>>

-----------------------------------------------------------------------------
(* The loop between runs.                                                  *)

\* Mutant: the flag is not polled.
TopBlind ==
  /\ main = "top"
  /\ main' = "settle"
  /\ UNCHANGED <<kind, oneShot, force, failing, status, woken, lastOk, otherVars>>

Top ==
  /\ main = "top"
  /\ main' = IF flag THEN "exited" ELSE "settle"
  /\ UNCHANGED <<kind, oneShot, force, failing, status, woken, lastOk, otherVars>>

\* Completed becomes Waiting; Failed stays visible.
Settle ==
  /\ main = "settle"
  /\ status' = IF status = "completed" THEN "waiting" ELSE status
  /\ main' = "select"
  /\ UNCHANGED <<kind, oneShot, force, failing, woken, lastOk, otherVars>>

\* select! creates its futures and polls them.
Park ==
  /\ main = "select"
  /\ main' = "parked"
  /\ woken' = FALSE
  /\ UNCHANGED <<kind, oneShot, force, failing, status, lastOk, otherVars>>

SleepElapsed ==
  /\ main = "parked"
  /\ kind' = "periodic" /\ force' = FALSE
  /\ main' = "create"
  /\ UNCHANGED <<oneShot, failing, status, woken, lastOk, otherVars>>

\* wait_for_trigger takes the trigger away.
TakeTrigger ==
  /\ main = "parked" /\ trigger # Untriggered
  /\ kind' = "triggered" /\ force' = trigger
  /\ trigger' = Untriggered
  /\ main' = "create"
  /\ UNCHANGED <<oneShot, failing, status, woken, lastOk, monitor, flag, signal>>

ShutdownArm ==
  /\ main = "parked" /\ woken
  /\ main' = "exited"
  /\ UNCHANGED <<kind, oneShot, force, failing, status, woken, lastOk, otherVars>>

\* What the loop does of its own accord, or when something wakes it.
LoopStep ==
  \/ Created \/ CreateFails \/ Guard \/ ResetProgress
  \/ (\E ok \in BOOLEAN : RunShort(ok)) \/ RunJoined \/ RunErr \/ RecordStatus \/ Outcome
  \/ Top \/ Settle \/ Park
  \/ TakeTrigger \/ ShutdownArm

Loop == LoopStep \/ SleepElapsed

ServiceNext ==
  \/ Loop
  \/ \E f \in BOOLEAN : TriggerHandler(f)
  \/ Signal \/ MonitorParks \/ MonitorStores

ServiceSpec == ServiceInit /\ [][ServiceNext]_serviceVars

\* Runs end, and the trigger is polled every 500 ms of a sleep of days: a parked
\* loop does not miss it for ever.  That the sleep elapses is not assumed: nothing
\* that has to happen soon may wait for periodic_check_days.
Fairness == /\ WF_serviceVars(LoopStep)
            /\ WF_serviceVars(MonitorParks) /\ WF_serviceVars(MonitorStores)
            /\ SF_serviceVars(TakeTrigger)

FairService == ServiceSpec /\ Fairness

-----------------------------------------------------------------------------
(* Properties.                                                             *)
Ended == main \in {"exited", "failed"}

\* While the service sleeps, /health tells how the last attempt ended: Waiting is
\* never a failure, Failed never a success, and Running or Completed are never
\* left behind, whichever early return the run took (runtime.rs:270-284, mod.rs:816-825).
ParkedStatusIsTruthful ==
  main = "parked" => status = IF lastOk THEN "waiting" ELSE "failed"

\* The process ends in failure, with its cooldown and non-zero exit, only for a
\* failed initial run, and a run that a shutdown interrupted is not one (runtime.rs:303-324).
FailureExitIsFailure ==
  [][main' = "failed" /\ main = "outcome" => ~ flag /\ kind = "initial"]_serviceVars

\* A triggered run has started, or /health says that it could not be.
RunAnswers == kind = "triggered" /\ (main = "guard" \/ (main = "top" /\ status = "failed"))

\* An accepted trigger waits for the loop to sleep and from there starts a run; when
\* no run can be started, the request, consumed by then, is not lost in silence
\* (runtime.rs:257-268, mod.rs:862-873).  Or the process ends.
TriggerServed ==
  /\ trigger # Untriggered ~> (main = "parked" /\ trigger # Untriggered) \/ Ended
  /\ main = "parked" /\ trigger # Untriggered ~> RunAnswers \/ Ended

\* The initial run is past the points where an error ends the process at once.
Decided == main \in {"guard", "record", "outcome"} \/ kind # "initial"

\* The loop will poll the flag before it sleeps, or sleeps with its select! woken.
Listening == main \notin {"settle", "select"} /\ (main = "parked" => woken)

\* With the shutdown flag up, a loop that is in a run, on its way back to the poll
\* or woken ends the process without sleeping (again) (mod.rs:767-771).  And it exits
\* cleanly, without the failure cooldown, even from a run that the shutdown itself
\* made fail (runtime.rs:303-313).
HeardShutdownExits ==
  /\ flag /\ Listening ~> Ended
  /\ flag /\ Listening /\ Decided ~> main = "exited"

\* "If a shutdown arrived during processing (or between iterations), stop before
\* sleeping" (mod.rs:808-810).  One that arrives between the poll and the select!
\* wakes the monitor only: the loop goes to sleep for periodic_check_days.
StopsBeforeSleeping == main = "parked" /\ flag => woken
=============================================================================
