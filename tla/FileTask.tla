------------------------------ MODULE FileTask ------------------------------
(***************************************************************************)
(* What the pipeline of one file promises to the run around it: the view   *)
(* DiscogsRun has of a task.  Rows reach the broker while the task is      *)
(* started; it is drained when every record the rules keep is confirmed;   *)
(* file_complete follows all of them and precedes the commit; a failure    *)
(* at any point ends it.  After a failure more rows are published only     *)
(* when the stages are not joined (no rules), never after a success.       *)
(***************************************************************************)
EXTENDS Naturals

VARIABLES total,  \* records the broker has to confirm
          joined, \* every stage is waited for before the task returns
          phase,  \* where the task stands
          rows    \* records confirmed

taskVars == <<total, joined, phase, rows>>

Init == total \in Nat /\ joined \in BOOLEAN /\ phase = "started" /\ rows = 0

MoreRows == rows' \in (rows + 1)..total /\ UNCHANGED <<total, joined, phase>>

Publish == phase = "started" /\ MoreRows

\* Stages that were left behind go on.
PublishLate == phase = "failed" /\ ~ joined /\ MoreRows

Goto(from, to) == phase \in from /\ phase' = to /\ UNCHANGED <<total, joined, rows>>

Drain    == rows = total /\ Goto({"started"}, "drained")
Announce == Goto({"drained"}, "announced")
Commit   == Goto({"announced"}, "done")
Fail     == Goto({"started", "drained", "announced"}, "failed")

Next == Publish \/ PublishLate \/ Drain \/ Announce \/ Commit \/ Fail

Spec == Init /\ [][Next]_taskVars
=============================================================================
