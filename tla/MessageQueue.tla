---------------------------- MODULE MessageQueue ----------------------------
(***************************************************************************)
(* The AMQP publisher of one file or of the final broadcast                *)
(* (message_queue.rs): a connection that its callers re-establish when it  *)
(* is lost, and publishing with mandatory routing and publisher confirms.  *)
(*                                                                         *)
(* A caller publishes its messages either as one pipelined batch           *)
(* (publish_batch: all on the wire, then all confirms in order, the first  *)
(* error ends it) or one by one (publish, send_extraction_complete: every  *)
(* exchange is tried, errors are collected).                               *)
(*                                                                         *)
(* A connection and its channel are one number; connections are counted.   *)
(* The broker is external: it may queue a message, return it as            *)
(* unroutable, refuse it, stay silent, or lose the connection with or      *)
(* without the confirms of what it has queued.                             *)
(***************************************************************************)
EXTENDS Naturals, Sequences, FiniteSets

CONSTANTS Caller,          \* tasks that share the MessageQueue
          Messages,        \* of each caller: how many it publishes
          Pipelined,       \* callers that publish a batch
          MaxRetries,      \* attempts of connect
          MaxConnections,  \* connections the broker grants
          None             \* no connection

ASSUME CallersFinite == IsFiniteSet(Caller) /\ Pipelined \subseteq Caller
ASSUME MessagesNat == Messages \in [Caller -> Nat \ {0}]
ASSUME QueueBoundsNat == MaxRetries \in Nat \ {0} /\ MaxConnections \in Nat \ {0}
ASSUME NoConnection == None \notin Nat /\ None \notin Caller

VARIABLES connection, \* self.connection
          channel,    \* self.channel
          live,       \* connections that are up
          dialled,    \* connections made so far
          mutex,      \* who holds reconnect_mutex
          pc,         \* where each caller stands
          using,      \* its clone of the channel
          retries,    \* failed attempts of the connect it is in
          next,       \* the message it sends or settles
          errors,     \* those of its messages it has met an error with
          frame,      \* what has become of each of its messages
          queued,     \* the messages in the consumers' queues
          closing     \* progress of close(): "no", "channel", "done"

fields  == <<connection, channel, live, dialled>>
callers == <<pc, using, retries, next, errors>>
vars == <<fields, mutex, callers, frame, queued, closing>>

Init ==
  /\ connection = 1 /\ channel = 1 /\ live = {1} /\ dialled = 1
  /\ mutex = None
  /\ pc = [c \in Caller |-> "get"]
  /\ using = [c \in Caller |-> None]
  /\ retries = [c \in Caller |-> 0]
  /\ next = [c \in Caller |-> 1]
  /\ errors = [c \in Caller |-> {}]
  /\ frame = [c \in Caller |-> [i \in 1..Messages[c] |-> "unsent"]]
  /\ queued = <<>>
  /\ closing = "no"

Connected == channel # None /\ channel \in live

\* The confirms of connection k that are still awaited will not come.
Lose(k) ==
  frame' = [c \in Caller |-> [i \in 1..Messages[c] |->
              IF using[c] = k /\ frame[c][i] = "sent" THEN "lost" ELSE frame[c][i]]]

Goto(c, where) == pc' = [pc EXCEPT ![c] = where]

\* Mutant: the first error ends a broadcast too.
FailEndsAll(c) ==
  /\ errors' = [errors EXCEPT ![c] = @ \cup {next[c]}]
  /\ Goto(c, "done") /\ UNCHANGED next

\* An error: a batch is over, a broadcast goes on with its next exchange.
Fail(c) ==
  /\ errors' = [errors EXCEPT ![c] = @ \cup {next[c]}]
  /\ IF c \in Pipelined \/ next[c] = Messages[c]
       THEN Goto(c, "done") /\ UNCHANGED next
       ELSE Goto(c, "get") /\ next' = [next EXCEPT ![c] = @ + 1]

-----------------------------------------------------------------------------
(* get_channel and connect.                                                *)

FastPath(c) ==
  /\ pc[c] = "get"
  /\ IF Connected THEN using' = [using EXCEPT ![c] = channel] /\ Goto(c, "send")
                  ELSE UNCHANGED using /\ Goto(c, "lock")
  /\ UNCHANGED <<fields, mutex, retries, next, errors, frame, queued, closing>>

Lock(c) ==
  /\ pc[c] = "lock" /\ mutex = None
  /\ mutex' = c
  /\ Goto(c, "recheck")
  /\ UNCHANGED <<fields, using, retries, next, errors, frame, queued, closing>>

\* Mutant: the holder of the mutex does not look again.
RecheckSkipped(c) ==
  /\ pc[c] = "recheck"
  /\ Goto(c, "dial")
  /\ UNCHANGED <<fields, mutex, using, retries, next, errors, frame, queued, closing>>

\* Another caller may have reconnected in the meantime.
Recheck(c) ==
  /\ pc[c] = "recheck"
  /\ IF Connected
       THEN /\ using' = [using EXCEPT ![c] = channel]
            /\ mutex' = None
            /\ Goto(c, "send")
       ELSE Goto(c, "dial") /\ UNCHANGED <<using, mutex>>
  /\ UNCHANGED <<fields, retries, next, errors, frame, queued, closing>>

\* The connection is up, its channel open and in confirm mode.
Dialled(c) ==
  /\ pc[c] = "dial" /\ dialled < MaxConnections
  /\ dialled' = dialled + 1
  /\ live' = live \cup {dialled'}
  /\ connection' = dialled'
  /\ retries' = [retries EXCEPT ![c] = 0]
  /\ Goto(c, "install")
  /\ UNCHANGED <<channel, mutex, using, next, errors, frame, queued, closing>>

DialFails(c) ==
  /\ pc[c] = "dial"
  /\ IF retries[c] + 1 >= MaxRetries
       THEN retries' = [retries EXCEPT ![c] = 0] /\ mutex' = None /\ Fail(c)
       ELSE /\ retries' = [retries EXCEPT ![c] = @ + 1]
            /\ UNCHANGED <<mutex, pc, next, errors>>
  /\ UNCHANGED <<fields, using, frame, queued, closing>>

\* The second write of try_connect.
Install(c) ==
  /\ pc[c] = "install"
  /\ channel' = dialled
  /\ Goto(c, "pick")
  /\ UNCHANGED <<connection, live, dialled, mutex, using, retries, next, errors,
                 frame, queued, closing>>

\* The channel is read back; a close may have taken it.
Pick(c) ==
  /\ pc[c] = "pick"
  /\ mutex' = None
  /\ IF channel = None
       THEN Fail(c) /\ UNCHANGED using
       ELSE using' = [using EXCEPT ![c] = channel] /\ Goto(c, "send") /\ UNCHANGED <<next, errors>>
  /\ UNCHANGED <<fields, retries, frame, queued, closing>>

-----------------------------------------------------------------------------
(* Publishing.                                                             *)
pubRest == <<fields, mutex, using, retries, queued, closing>>

\* basic_publish writes the frame.
Send(c) ==
  /\ pc[c] = "send" /\ using[c] \in live
  /\ frame' = [frame EXCEPT ![c][next[c]] = "sent"]
  /\ IF c \notin Pipelined
       THEN Goto(c, "settle") /\ UNCHANGED next
     ELSE IF next[c] < Messages[c]
       THEN next' = [next EXCEPT ![c] = @ + 1] /\ UNCHANGED pc
     ELSE next' = [next EXCEPT ![c] = 1] /\ Goto(c, "settle")
  /\ UNCHANGED <<errors, pubRest>>

\* The connection is gone, or the write is not accepted in time although the
\* frame may be on the wire.
SendFails(c) ==
  /\ pc[c] = "send"
  /\ frame' \in IF using[c] \in live THEN {frame, [frame EXCEPT ![c][next[c]] = "sent"]}
                                     ELSE {frame}
  /\ Fail(c)
  /\ UNCHANGED pubRest

\* Mutant: an ack is a delivery, even of a message that was returned.
DeliveredIfAcked(s) == s \in {"acked", "returned"}

\* check_confirmation: acked and not returned.
Delivered(s) == s = "acked"

\* Mutant: the confirm is awaited without a deadline.
SettlePatiently(c) ==
  /\ pc[c] = "settle" /\ frame[c][next[c]] # "sent"
  /\ IF ~ Delivered(frame[c][next[c]]) THEN Fail(c)
     ELSE IF next[c] < Messages[c]
       THEN /\ next' = [next EXCEPT ![c] = @ + 1]
            /\ IF c \in Pipelined THEN UNCHANGED pc ELSE Goto(c, "get")
            /\ UNCHANGED errors
     ELSE Goto(c, "done") /\ UNCHANGED <<next, errors>>
  /\ UNCHANGED <<frame, pubRest>>

\* A confirm that does not come within PUBLISH_CONFIRM_TIMEOUT is a failure.
Settle(c) ==
  /\ pc[c] = "settle"
  /\ IF ~ Delivered(frame[c][next[c]]) THEN Fail(c)
     ELSE IF next[c] < Messages[c]
       THEN /\ next' = [next EXCEPT ![c] = @ + 1]
            /\ IF c \in Pipelined THEN UNCHANGED pc ELSE Goto(c, "get")
            /\ UNCHANGED errors
     ELSE Goto(c, "done") /\ UNCHANGED <<next, errors>>
  /\ UNCHANGED <<frame, pubRest>>

Call(c) ==
  \/ FastPath(c) \/ Lock(c) \/ Recheck(c)
  \/ Dialled(c) \/ DialFails(c) \/ Install(c) \/ Pick(c)
  \/ Send(c) \/ SendFails(c) \/ Settle(c)

-----------------------------------------------------------------------------
(* close(): best effort on both halves, each under its own lock.           *)

CloseChannel ==
  /\ closing = "no"
  /\ closing' = "channel"
  /\ channel' = None
  /\ live' = live \ {channel}
  /\ Lose(channel)
  /\ UNCHANGED <<connection, dialled, mutex, callers, queued>>

\* Mutant: the connection is forgotten and not closed.
CloseConnectionLeaks ==
  /\ closing = "channel"
  /\ closing' = "done"
  /\ connection' = None
  /\ UNCHANGED <<channel, live, dialled, mutex, callers, frame, queued>>

CloseConnection ==
  /\ closing = "channel"
  /\ closing' = "done"
  /\ connection' = None
  /\ live' = live \ {connection}
  /\ Lose(connection)
  /\ UNCHANGED <<channel, dialled, mutex, callers, queued>>

-----------------------------------------------------------------------------
(* The broker.                                                             *)
brokerRest == <<connection, channel, dialled, mutex, callers, closing>>

\* It takes the messages of a caller in the order they were sent.
BrokerTakes(c, i) ==
  /\ frame[c][i] = "sent" /\ using[c] \in live
  /\ \A j \in 1..(i - 1) : frame[c][j] # "sent"
  /\ \/ frame' = [frame EXCEPT ![c][i] = "acked"] /\ queued' = Append(queued, <<c, i>>)
     \/ frame' = [frame EXCEPT ![c][i] = "returned"] /\ UNCHANGED queued
     \/ frame' = [frame EXCEPT ![c][i] = "nacked"] /\ UNCHANGED queued
  /\ UNCHANGED <<live, brokerRest>>

\* The connection is lost, with the confirms that are still on their way.
ConnectionLost(k) ==
  /\ k \in live
  /\ live' = live \ {k}
  /\ Lose(k)
  /\ UNCHANGED <<queued, brokerRest>>

\* The same, but the broker had queued the first of them.
ConfirmLost(c, i) ==
  /\ frame[c][i] = "sent" /\ using[c] \in live
  /\ \A j \in 1..(i - 1) : frame[c][j] # "sent"
  /\ frame' = [frame EXCEPT ![c][i] = "lost"]
  /\ queued' = Append(queued, <<c, i>>)
  /\ live' = live \ {using[c]}
  /\ UNCHANGED brokerRest

Broker ==
  \/ \E c \in Caller : \E i \in 1..Messages[c] : BrokerTakes(c, i) \/ ConfirmLost(c, i)
  \/ \E k \in live : ConnectionLost(k)

Next ==
  \/ \E c \in Caller : Call(c)
  \/ CloseChannel \/ CloseConnection
  \/ Broker

Spec == Init /\ [][Next]_vars

\* The runtime schedules every caller, and an attempt to connect ends; nothing is
\* assumed of the broker's confirms.  The reconnect mutex of tokio is fair, so no
\* caller waits for it for ever.
FairSpec == Spec /\ \A c \in Caller : WF_vars(Call(c)) /\ SF_vars(Lock(c))

-----------------------------------------------------------------------------
(* Properties.                                                             *)

\* Where the messages of c are in the queues.
Places(c) == {p \in DOMAIN queued : queued[p][1] = c}

\* A publish that returns Ok has put every message into the consumers' queues,
\* once each and in order, whatever was lost, refused or returned, and whether
\* the connection was re-established in between (message_queue.rs:430-440).
OkMeansDelivered ==
  \A c \in Caller : pc[c] = "done" /\ errors[c] = {} =>
    /\ {queued[p][2] : p \in Places(c)} = 1..Messages[c]
    /\ \A p, q \in Places(c) : p < q => queued[p][2] < queued[q][2]

\* One failing exchange does not keep the signal from the others: a broadcast that
\* returns has put it into the queue of every exchange its error does not name
\* (message_queue.rs:477-484).
BroadcastTriesAll ==
  \A c \in Caller \ Pipelined : pc[c] = "done" =>
    \A i \in 1..Messages[c] : i \in errors[c] \/ \E p \in Places(c) : queued[p][2] = i

\* Callers that lose the channel together re-establish it once: a live channel is
\* replaced by nobody (message_queue.rs:370-382).
NoRacingReconnect == [][Connected /\ channel' # channel => channel' = None]_vars

\* A live channel belongs to the connection the queue holds, so that closing the
\* queue ends it; close and reconnect may interleave anywhere (message_queue.rs:234-235, 503-524).
LiveChannelIsOwned == Connected => connection = channel

\* A broker that withholds its confirms, or a reconnect that fails, parks no
\* caller for ever (message_queue.rs:260-277).
EveryCallReturns == \A c \in Caller : <>(pc[c] = "done")
=============================================================================
