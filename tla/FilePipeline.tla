---------------------------- MODULE FilePipeline ----------------------------
(***************************************************************************)
(* The stages that process one file (discogs/mod.rs, process_single_file;  *)
(* runtime.rs, message_batcher and message_publisher): tokio tasks chained *)
(* by bounded channels                                                     *)
(*                                                                         *)
(*    parser -> [validator ->] normalizer -> batcher -> publisher          *)
(*                                                                         *)
(* and the function that waits for them, sends file_complete, commits the  *)
(* marker and closes the connection.  A stage ends when its input is       *)
(* closed and empty, when the receiver of its output is gone, or on an     *)
(* error; ending drops its input and closes its output.                    *)
(*                                                                         *)
(* Records are their positions in the file.                                *)
(***************************************************************************)
EXTENDS Naturals, Sequences, FiniteSets

CONSTANTS Records,     \* number of records in the file
          Skipped,     \* records a skip rule drops
          QueueSize,   \* capacity of the record channels
          BatchQueue,  \* capacity of the batch channel
          BatchSize,   \* records in a batch
          MaxFaults    \* faults the environment may inject

ASSUME RecordsNat == Records \in Nat /\ Skipped \subseteq 1..Records
ASSUME SizesPositive ==
  QueueSize \in Nat \ {0} /\ BatchQueue \in Nat \ {0} /\ BatchSize \in Nat \ {0}
ASSUME PipelineFaultsNat == MaxFaults \in Nat

VARIABLES state,     \* of each stage there is: "run", "ok" or "err"
          input,     \* the channel a stage reads
          next,      \* the parser's next record
          held,      \* a record a relaying stage has taken and not yet sent, 0 when none
          batch,     \* records the batcher is collecting
          out,       \* a batch it is about to send
          confirmed, \* records of the batches that were confirmed, in order
          pc,        \* where process_single_file stands
          awaiting,  \* the stage it waits for when there are no rules
          result,    \* what it returns
          announced, \* file_complete was sent
          connection, \* the file's AMQP connection
          faults     \* faults still possible

stageVars == <<state, input, next, held, batch, out, confirmed>>
mainVars  == <<pc, awaiting, result, announced>>
vars == <<stageVars, mainVars, connection, faults>>

\* The stages of this file; the validator is one when DATA_QUALITY_RULES is set.
Stages    == DOMAIN state
WithRules == "validator" \in Stages

Chain == IF WithRules THEN <<"parser", "validator", "normalizer", "batcher", "publisher">>
                      ELSE <<"parser", "normalizer", "batcher", "publisher">>

Position(s) == CHOOSE i \in DOMAIN Chain : Chain[i] = s
Up(s)   == Chain[Position(s) - 1]
Down(s) == Chain[Position(s) + 1]

AlwaysOn == {"parser", "normalizer", "batcher", "publisher"}

Init ==
  /\ state \in {[s \in S |-> "run"] : S \in {AlwaysOn, AlwaysOn \cup {"validator"}}}
  /\ input = [s \in Stages |-> <<>>]
  /\ next = 1
  /\ held = [s \in Stages |-> 0]
  /\ batch = <<>> /\ out = <<>>
  /\ confirmed = <<>>
  /\ pc = "run" /\ awaiting = 1
  /\ result = "none" /\ announced = FALSE
  /\ connection = "open"
  /\ faults = MaxFaults

Fault == faults > 0 /\ faults' = faults - 1

Running(s) == state[s] = "run"

\* The stage that reads what s writes is gone.
Dropped(s) == ~ Running(Down(s))

Capacity(s) == IF s = "publisher" THEN BatchQueue ELSE QueueSize

CanSend(s) == Running(Down(s)) /\ Len(input[Down(s)]) < Capacity(Down(s))

\* recv returns None: the writers are gone and the buffer is empty.
Exhausted(s) == input[s] = <<>> /\ ~ Running(Up(s))

\* A stage ends: what is left in its input is lost.
End(s, how) == /\ state' = [state EXCEPT ![s] = how]
               /\ input' = [input EXCEPT ![s] = <<>>]

-----------------------------------------------------------------------------
(* XmlParser::parse_file, as a producer of records.                        *)
parserRest == <<held, batch, out, confirmed, mainVars, connection>>

ParserSend ==
  /\ Running("parser") /\ next <= Records
  /\ CanSend("parser")
  /\ input' = [input EXCEPT ![Down("parser")] = Append(@, next)]
  /\ next' = next + 1
  /\ UNCHANGED <<state, faults, parserRest>>

\* The end of the file, or a receiver that is gone: both are Ok.
ParserStop ==
  /\ Running("parser")
  /\ next > Records \/ Dropped("parser")
  /\ End("parser", "ok")
  /\ UNCHANGED <<next, faults, parserRest>>

ParserFails ==
  /\ Running("parser")
  /\ Fault
  /\ End("parser", "err")
  /\ UNCHANGED <<next, parserRest>>

-----------------------------------------------------------------------------
(* message_validator and message_normalizer: one record in, one out, except *)
(* the ones a skip rule drops.                                             *)
Relays == Stages \cap {"validator", "normalizer"}
relayRest == <<next, batch, out, confirmed, mainVars, connection, faults>>

RelayReceive(s) ==
  /\ Running(s) /\ held[s] = 0 /\ input[s] # <<>>
  /\ input' = [input EXCEPT ![s] = Tail(@)]
  /\ held' = [held EXCEPT ![s] =
                IF s = "validator" /\ Head(input[s]) \in Skipped THEN 0 ELSE Head(input[s])]
  /\ UNCHANGED <<state, relayRest>>

RelaySend(s) ==
  /\ Running(s) /\ held[s] # 0 /\ CanSend(s)
  /\ input' = [input EXCEPT ![Down(s)] = Append(@, held[s])]
  /\ held' = [held EXCEPT ![s] = 0]
  /\ UNCHANGED <<state, relayRest>>

\* A send error is only logged: the stage still returns Ok.
RelayStop(s) ==
  /\ Running(s)
  /\ IF held[s] # 0 THEN Dropped(s) ELSE Exhausted(s)
  /\ End(s, "ok")
  /\ UNCHANGED <<held, relayRest>>

-----------------------------------------------------------------------------
(* message_batcher.                                                        *)
batcherRest == <<next, held, confirmed, mainVars, connection, faults>>

BatcherReceive ==
  /\ Running("batcher") /\ out = <<>> /\ input["batcher"] # <<>>
  /\ LET filled == Append(batch, Head(input["batcher"]))
     IN  IF Len(filled) >= BatchSize
           THEN out' = filled /\ batch' = <<>>
           ELSE batch' = filled /\ UNCHANGED out
  /\ input' = [input EXCEPT !["batcher"] = Tail(@)]
  /\ UNCHANGED <<state, batcherRest>>

\* Nothing arrived for a while, or nothing will: flush what was collected.
BatcherFlush ==
  /\ Running("batcher") /\ out = <<>> /\ batch # <<>> /\ input["batcher"] = <<>>
  /\ out' = batch /\ batch' = <<>>
  /\ UNCHANGED <<state, input, batcherRest>>

BatcherSend ==
  /\ Running("batcher") /\ out # <<>> /\ CanSend("batcher")
  /\ input' = [input EXCEPT !["publisher"] = Append(@, out)]
  /\ out' = <<>>
  /\ UNCHANGED <<state, batch, batcherRest>>

\* Mutant: the batcher waits for the end of its input although its receiver is gone.
BatcherStopDeaf ==
  /\ Running("batcher")
  /\ out = <<>> /\ batch = <<>> /\ Exhausted("batcher") /\ End("batcher", "ok")
  /\ UNCHANGED <<batch, out, batcherRest>>

BatcherStop ==
  /\ Running("batcher")
  /\ \/ out # <<>> /\ Dropped("batcher") /\ End("batcher", "err")
     \/ out = <<>> /\ batch = <<>> /\ Exhausted("batcher") /\ End("batcher", "ok")
  /\ UNCHANGED <<batch, out, batcherRest>>

-----------------------------------------------------------------------------
(* message_publisher.  A connection that was closed is opened again.       *)
publisherRest == <<next, held, batch, out, mainVars>>

PublishBatch ==
  /\ Running("publisher") /\ input["publisher"] # <<>>
  /\ confirmed' = confirmed \o Head(input["publisher"])
  /\ input' = [input EXCEPT !["publisher"] = Tail(@)]
  /\ connection' = "open"
  /\ UNCHANGED <<state, faults, publisherRest>>

\* Mutant: a failed batch is logged and forgotten.
PublishFailsQuiet ==
  /\ Running("publisher") /\ input["publisher"] # <<>>
  /\ Fault
  /\ input' = [input EXCEPT !["publisher"] = Tail(@)]
  /\ UNCHANGED <<state, confirmed, connection, publisherRest>>

PublishFails ==
  /\ Running("publisher") /\ input["publisher"] # <<>>
  /\ Fault
  /\ End("publisher", "err")
  /\ UNCHANGED <<confirmed, connection, publisherRest>>

PublisherStop ==
  /\ Running("publisher") /\ Exhausted("publisher")
  /\ End("publisher", "ok")
  /\ UNCHANGED <<confirmed, connection, faults, publisherRest>>

-----------------------------------------------------------------------------
(* process_single_file around the stages.                                  *)

\* Mutant: the first stage that fails ends the wait for the others.
JoinAllShort ==
  /\ pc = "run" /\ WithRules
  /\ \/ \A s \in Stages : ~ Running(s)
     \/ \E s \in Stages : state[s] = "err"
  /\ IF \A s \in Stages : state[s] = "ok"
       THEN pc' = "announce" /\ UNCHANGED result
       ELSE pc' = "close" /\ result' = "err"
  /\ UNCHANGED <<stageVars, awaiting, announced, connection, faults>>

\* Mutant: the results of the stages are not looked at.
JoinAllBlind ==
  /\ pc = "run" /\ WithRules
  /\ \A s \in Stages : ~ Running(s)
  /\ pc' = "announce"
  /\ UNCHANGED <<stageVars, result, awaiting, announced, connection, faults>>

\* With rules: try_join! of every handle, then each result is looked at.
JoinAll ==
  /\ pc = "run" /\ WithRules
  /\ \A s \in Stages : ~ Running(s)
  /\ IF \A s \in Stages : state[s] = "ok"
       THEN pc' = "announce" /\ UNCHANGED result
       ELSE pc' = "close" /\ result' = "err"
  /\ UNCHANGED <<stageVars, awaiting, announced, connection, faults>>

\* Mutant: the results of the stages are not looked at.
AwaitNextBlind ==
  /\ pc = "run" /\ ~ WithRules
  /\ ~ Running(Chain[awaiting])
  /\ awaiting' = awaiting + 1
  /\ pc' = IF awaiting = Len(Chain) THEN "announce" ELSE "run"
  /\ UNCHANGED <<stageVars, result, announced, connection, faults>>

\* Without rules: the handles are awaited one after the other, and the first
\* error returns at once.
AwaitNext ==
  /\ pc = "run" /\ ~ WithRules
  /\ ~ Running(Chain[awaiting])
  /\ IF state[Chain[awaiting]] = "err"
       THEN pc' = "close" /\ result' = "err" /\ UNCHANGED awaiting
       ELSE /\ awaiting' = awaiting + 1
            /\ pc' = IF awaiting = Len(Chain) THEN "announce" ELSE "run"
            /\ UNCHANGED result
  /\ UNCHANGED <<stageVars, announced, connection, faults>>

\* file_complete goes out before the marker is committed.
Announce ==
  /\ pc = "announce"
  /\ \/ /\ announced' = TRUE /\ connection' = "open" /\ pc' = "commit"
        /\ UNCHANGED <<result, faults>>
     \/ /\ Fault /\ pc' = "close" /\ result' = "err"
        /\ UNCHANGED <<announced, connection>>
  /\ UNCHANGED <<stageVars, awaiting>>

Commit ==
  /\ pc = "commit"
  /\ \/ result' = "ok" /\ UNCHANGED faults
     \/ result' = "err" /\ Fault
  /\ pc' = "close"
  /\ UNCHANGED <<stageVars, awaiting, announced, connection>>

\* The active-connection entry and the connection are released.
Close ==
  /\ pc = "close"
  /\ connection' = "closed"
  /\ pc' = "returned"
  /\ UNCHANGED <<stageVars, awaiting, result, announced, faults>>

Parser    == ParserSend \/ ParserStop \/ ParserFails
Relay(s)  == RelayReceive(s) \/ RelaySend(s) \/ RelayStop(s)
Batcher   == BatcherReceive \/ BatcherFlush \/ BatcherSend \/ BatcherStop
Publisher == PublishBatch \/ PublishFails \/ PublisherStop
Main      == JoinAll \/ AwaitNext \/ Announce \/ Commit \/ Close

Next == Parser \/ (\E s \in Relays : Relay(s)) \/ Batcher \/ Publisher \/ Main

Spec == Init /\ [][Next]_vars

\* Every task is scheduled again and again by the runtime.
FairSpec == /\ Spec
            /\ WF_vars(Parser) /\ WF_vars(Batcher) /\ WF_vars(Publisher) /\ WF_vars(Main)
            /\ \A s \in {"validator", "normalizer"} : WF_vars(s \in Relays /\ Relay(s))

-----------------------------------------------------------------------------
(* Properties.                                                             *)
\* The records that have to be published.
Kept == {r \in 1..Records : ~ (WithRules /\ r \in Skipped)}

\* q holds the members of K between lo and hi, each once and in order.
Spans(q, lo, hi, K) ==
  /\ \A i \in DOMAIN q : q[i] \in K /\ lo < q[i] /\ q[i] <= hi
  /\ \A i, j \in DOMAIN q : i < j => q[i] < q[j]
  /\ \A r \in K : lo < r /\ r <= hi => \E i \in DOMAIN q : q[i] = r

Finished == pc = "returned" /\ \A s \in Stages : ~ Running(s)

\* Through relays, size flushes, timer flushes and the final flush, records are
\* confirmed in file order, none twice and none missing (runtime.rs:113-208).
ConfirmedInOrder == \E last \in 0..Records : Spans(confirmed, 0, last, Kept)

\* file_complete is sent only when every record the rules keep is confirmed,
\* although three of the stages report Ok when they stop early because the next
\* one is gone (parser.rs:301-304, mod.rs:690-693, 728-731).
AnnouncedWhole == announced => Spans(confirmed, 0, Records, Kept)

\* Once process_single_file has returned, the file's broker connection is
\* closed and stays so (mod.rs:460-465).
ReleasedOnReturn == pc = "returned" => connection = "closed"

\* With rules it is: try_join! waits for every stage before the connection is
\* closed, so nobody is left to open it again (mod.rs:526-527, 631-633).
ReleasedWithRules == WithRules => ReleasedOnReturn

\* Whatever stage fails, no stage waits for ever on a full or an empty channel
\* and the function returns.
Terminates == <>Finished

(* The refinement: the pipeline is what DiscogsRun takes a task to be.     *)
Phase == CASE pc = "run"      -> "started"
           [] pc = "announce" -> "drained"
           [] pc = "commit"   -> "announced"
           [] OTHER           -> IF result = "ok" THEN "done" ELSE "failed"

Task == INSTANCE FileTask WITH total <- Cardinality(Kept), joined <- WithRules,
                               phase <- Phase, rows <- Len(confirmed)

\* The pipeline implements the abstract task.
ImplementsTask == Task!Spec
=============================================================================
