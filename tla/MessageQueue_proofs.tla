------------------------- MODULE MessageQueue_proofs ------------------------
(***************************************************************************)
(* What the publisher promises, for any number of callers, messages,       *)
(* retries and connections.                                                *)
(*                                                                         *)
(* Two invariants that need nothing of each other.  The reconnection: who  *)
(* holds the mutex found no live channel, and nobody else makes one until  *)
(* it lets go.  The delivery: a message is sent once, after those before   *)
(* it; the broker takes what is still in flight in that order; what was    *)
(* settled without an error is in the queues.                              *)
(***************************************************************************)
EXTENDS MessageQueue, TLAPS

Reconnecting == {"recheck", "dial", "install", "pick"}

Place == {"get", "lock", "send", "settle", "done"} \cup Reconnecting

\* Connections are numbered as they are made.
ConnectionType ==
  /\ dialled \in Nat /\ live \subseteq 1..dialled
  /\ channel \in Nat => channel <= dialled
  /\ channel \in Nat \cup {None}
  /\ pc \in [Caller -> Place]

\* The mutex is held by who reconnects, and it has found no live channel.  The
\* connection it has made is the queue's own, unless that was closed.
ReconnectInv ==
  /\ ConnectionType
  /\ \A c \in Caller : pc[c] \in Reconnecting => mutex = c
  /\ \A c \in Caller : pc[c] \in {"dial", "install"} => ~ Connected
  /\ \A c \in Caller : pc[c] = "install" /\ dialled \in live => connection = dialled
  /\ LiveChannelIsOwned

-----------------------------------------------------------------------------
(* The reconnection.                                                       *)

\* The queue is made with a connection of its own.
LEMMA ReconnectInit == Init => ReconnectInv
BY NoConnection DEF Init, ReconnectInv, ConnectionType, LiveChannelIsOwned, Connected,
                    Place, Reconnecting

\* A failed call leaves the caller out of the reconnection.
LEMMA FailPlace ==
  ASSUME pc \in [Caller -> Place], NEW c \in Caller, Fail(c)
  PROVE  /\ pc' \in [Caller -> Place] /\ pc'[c] \in {"done", "get"}
         /\ \A d \in Caller \ {c} : pc'[d] = pc[d]
BY DEF Fail, Goto, Place

LEMMA CallReconnects ==
  ASSUME ReconnectInv, NEW c \in Caller, Call(c)
  PROVE  ReconnectInv'
<1> USE NoConnection DEF ReconnectInv, ConnectionType, LiveChannelIsOwned, Connected,
                         fields, callers, Place, Reconnecting
<1>1. CASE FastPath(c)
  BY <1>1 DEF FastPath, Goto
<1>2. CASE Lock(c)
  BY <1>2 DEF Lock, Goto
<1>3. CASE Recheck(c)
  BY <1>3 DEF Recheck, Goto
<1>4. CASE Dialled(c)
  BY <1>4 DEF Dialled, Goto
<1>5. CASE DialFails(c)
  BY <1>5, FailPlace DEF DialFails
<1>6. CASE Install(c)
  BY <1>6 DEF Install, Goto
<1>7. CASE Pick(c)
  BY <1>7, FailPlace DEF Pick, Goto
<1>8. CASE Send(c)
  BY <1>8 DEF Send, Goto, pubRest
<1>9. CASE SendFails(c)
  BY <1>9, FailPlace DEF SendFails, pubRest
<1>10. CASE Settle(c)
  BY <1>10, FailPlace DEF Settle, Goto, pubRest
<1>11. QED
  BY <1>1, <1>2, <1>3, <1>4, <1>5, <1>6, <1>7, <1>8, <1>9, <1>10 DEF Call

LEMMA CloseReconnects ==
  ASSUME ReconnectInv, CloseChannel \/ CloseConnection
  PROVE  ReconnectInv'
BY NoConnection DEF CloseChannel, CloseConnection, ReconnectInv, ConnectionType,
                    LiveChannelIsOwned, Connected, callers

\* The broker only takes connections away.
LEMMA BrokerReconnects ==
  ASSUME ReconnectInv, Broker
  PROVE  ReconnectInv'
<1>1. live' \subseteq live /\ UNCHANGED <<connection, channel, dialled, mutex, pc>>
  BY DEF Broker, BrokerTakes, ConfirmLost, ConnectionLost, brokerRest, callers
<1>2. QED
  BY <1>1 DEF ReconnectInv, ConnectionType, LiveChannelIsOwned, Connected

LEMMA ReconnectStep == ReconnectInv /\ [Next]_vars => ReconnectInv'
<1>1. ReconnectInv /\ UNCHANGED vars => ReconnectInv'
  BY DEF vars, fields, callers, ReconnectInv, ConnectionType, LiveChannelIsOwned, Connected
<1>2. QED
  BY <1>1, CallReconnects, CloseReconnects, BrokerReconnects DEF Next

LEMMA Reconnects == Spec => []ReconnectInv
BY ReconnectInit, ReconnectStep, PTL DEF Spec

\* A live channel belongs to the connection the queue holds, so that close() ends
\* it, wherever it interleaves with a reconnect (message_queue.rs:234-235, 503-524).
THEOREM OwnedChannel == Spec => []LiveChannelIsOwned
<1>1. ReconnectInv => LiveChannelIsOwned
  BY DEF ReconnectInv
<1>2. QED
  BY <1>1, Reconnects, PTL

\* Callers that lose the channel together re-establish it once (message_queue.rs:370-382):
\* who installs a channel holds the mutex and has found none that is live.
THEOREM OneReconnect == Spec => NoRacingReconnect
<1>1. ReconnectInv /\ [Next]_vars
        => [Connected /\ channel' # channel => channel' = None]_vars
  <2> SUFFICES ASSUME ReconnectInv, Next, Connected, channel' # channel
               PROVE  channel' = None
    OBVIOUS
  <2>1. CASE CloseChannel \/ CloseConnection
    BY <2>1 DEF CloseChannel, CloseConnection
  <2>2. CASE Broker
    BY <2>2 DEF Broker, BrokerTakes, ConfirmLost, ConnectionLost, brokerRest
  <2>3. ASSUME NEW c \in Caller, Call(c) PROVE Install(c)
    BY <2>3 DEF Call, FastPath, Lock, Recheck, Dialled, DialFails, Pick, Send, SendFails,
                Settle, fields, pubRest
  <2>4. \A c \in Caller : ~ Install(c)
    BY DEF Install, ReconnectInv
  <2>5. QED
    BY <2>1, <2>2, <2>3, <2>4 DEF Next
<1>2. QED
  BY <1>1, Reconnects, PTL DEF Spec, NoRacingReconnect

-----------------------------------------------------------------------------
(* The delivery.                                                           *)
FrameState == {"unsent", "sent", "acked", "returned", "nacked", "lost"}

DeliveryType ==
  /\ pc \in [Caller -> Place]
  /\ next \in [Caller -> Nat] /\ errors \in [Caller -> SUBSET Nat]
  /\ \A c \in Caller : next[c] \in 1..Messages[c]
  /\ frame = [c \in Caller |-> frame[c]]
  /\ \A c \in Caller : frame[c] \in [1..Messages[c] -> FrameState]
  /\ queued \in Seq(Caller \X Nat)

\* The frames a caller has still to put on the wire, and those it has settled.
Unsent(c) ==
  {i \in 1..Messages[c] : /\ pc[c] # "done"
                          /\ IF pc[c] = "settle" THEN c \notin Pipelined /\ i > next[c]
                                                 ELSE i >= next[c]}

Settled(c) ==
  {i \in 1..Messages[c] : \/ pc[c] = "done"
                          \/ i < next[c] /\ (pc[c] = "settle" \/ c \notin Pipelined)}

\* Each frame goes on the wire once, after those before it.
SentOnce == \A c \in Caller : \A i \in Unsent(c) : frame[c][i] = "unsent"

\* What was settled and did not fail was acked.
OkIsAcked == \A c \in Caller : errors[c] = {} => \A i \in Settled(c) : frame[c][i] = "acked"

\* Acked is queued, queued is no longer in flight, and neither is what was sent before it.
QueueMatchesFrames ==
  /\ \A c \in Caller : \A i \in 1..Messages[c] :
       frame[c][i] = "acked" => \E p \in DOMAIN queued : queued[p] = <<c, i>>
  /\ \A p \in DOMAIN queued : \A i \in 1..Messages[queued[p][1]] :
       i <= queued[p][2] => frame[queued[p][1]][i] # "sent"
  /\ \A p \in DOMAIN queued : /\ queued[p][2] \in 1..Messages[queued[p][1]]
                              /\ frame[queued[p][1]][queued[p][2]] # "unsent"

\* The messages of a caller are queued in order.
QueueInOrder ==
  \A p, q \in DOMAIN queued :
    p < q /\ queued[p][1] = queued[q][1] => queued[p][2] < queued[q][2]

DeliveryInv ==
  DeliveryType /\ SentOnce /\ OkIsAcked /\ QueueMatchesFrames /\ QueueInOrder

\* Nothing is sent before the first call.
LEMMA DeliveryInit == Init => DeliveryInv
<1> SUFFICES ASSUME Init PROVE DeliveryInv
  OBVIOUS
<1>1. \A c \in Caller : Messages[c] \in Nat /\ 1 \in 1..Messages[c]
  BY MessagesNat
<1>2. /\ queued \in Seq(Caller \X Nat) /\ DOMAIN queued = {}
  BY DEF Init
<1>3. /\ frame = [c \in Caller |-> frame[c]]
      /\ \A c \in Caller : frame[c] = [i \in 1..Messages[c] |-> "unsent"]
  BY DEF Init
<1>4. DeliveryType
  BY <1>1, <1>2, <1>3 DEF Init, DeliveryType, FrameState, Place, Reconnecting
<1>5. SentOnce
  BY <1>3 DEF SentOnce, Unsent
<1>6. OkIsAcked
  BY <1>1 DEF Init, OkIsAcked, Settled
<1>7. QueueMatchesFrames
  BY <1>2, <1>3 DEF QueueMatchesFrames
<1>8. QueueInOrder
  BY <1>2 DEF QueueInOrder
<1>9. QED
  BY <1>4, <1>5, <1>6, <1>7, <1>8 DEF DeliveryInv

\* The types of what a caller keeps for itself.
CallerType ==
  /\ pc \in [Caller -> Place]
  /\ next \in [Caller -> Nat] /\ errors \in [Caller -> SUBSET Nat]
  /\ \A c \in Caller : next[c] \in 1..Messages[c]

\* A step that leaves the frames alone: it may send no frame again and calls nothing
\* settled that is not acked.
LEMMA MovesOn ==
  ASSUME DeliveryInv, UNCHANGED <<frame, queued>>, CallerType',
         \A c \in Caller : Unsent(c)' \subseteq Unsent(c),
         \A c \in Caller : errors'[c] = {} => \A i \in Settled(c)' : frame[c][i] = "acked"
  PROVE  DeliveryInv'
<1>1. DeliveryType'
  BY DEF DeliveryInv, DeliveryType, CallerType
<1>2. SentOnce' /\ OkIsAcked'
  BY DEF DeliveryInv, SentOnce, OkIsAcked
<1>3. QueueMatchesFrames' /\ QueueInOrder'
  BY DEF DeliveryInv, QueueMatchesFrames, QueueInOrder
<1>4. QED
  BY <1>1, <1>2, <1>3 DEF DeliveryInv

\* A caller that only reconnects.
LEMMA Waits ==
  ASSUME DeliveryInv, UNCHANGED <<frame, queued, next, errors>>, NEW c \in Caller,
         pc[c] \notin {"settle", "done"},
         pc' \in [Caller -> Place], pc'[c] \notin {"settle", "done"},
         \A d \in Caller \ {c} : pc'[d] = pc[d]
  PROVE  DeliveryInv'
<1>1. CallerType'
  BY DEF DeliveryInv, DeliveryType, CallerType
<1>2. \A d \in Caller : Unsent(d)' = Unsent(d) /\ Settled(d)' = Settled(d)
  BY DEF Unsent, Settled
<1>3. QED
  BY <1>1, <1>2, MovesOn DEF DeliveryInv, OkIsAcked

\* What an error leaves: a batch is over, a broadcast is at the next message.
LEMMA FailMoves ==
  ASSUME CallerType, NEW c \in Caller, Fail(c)
  PROVE  /\ CallerType' /\ errors'[c] # {}
         /\ \A d \in Caller \ {c} : errors'[d] = errors[d] /\ Unsent(d)' = Unsent(d)
                                     /\ Settled(d)' = Settled(d)
         /\ Unsent(c)' \subseteq {i \in 1..Messages[c] : c \notin Pipelined /\ i > next[c]}
<1>1. \A d \in Caller : Messages[d] \in Nat
  BY MessagesNat
<1>2. CASE c \in Pipelined \/ next[c] = Messages[c]
  <2>1. /\ pc' = [pc EXCEPT ![c] = "done"] /\ next' = next
        /\ errors' = [errors EXCEPT ![c] = @ \cup {next[c]}]
    BY <1>2 DEF Fail, Goto
  <2>2. CallerType' /\ errors'[c] # {}
    BY <2>1 DEF CallerType, Place
  <2>3. /\ pc'[c] = "done"
        /\ \A d \in Caller \ {c} : pc'[d] = pc[d] /\ next'[d] = next[d] /\ errors'[d] = errors[d]
    BY <2>1 DEF CallerType
  <2>4. QED
    BY <2>2, <2>3 DEF Unsent, Settled
<1>3. CASE ~ (c \in Pipelined \/ next[c] = Messages[c])
  <2>1. /\ pc' = [pc EXCEPT ![c] = "get"] /\ next' = [next EXCEPT ![c] = next[c] + 1]
        /\ errors' = [errors EXCEPT ![c] = @ \cup {next[c]}]
    BY <1>3 DEF Fail, Goto
  <2>2. next[c] + 1 \in 1..Messages[c] /\ next[c] + 1 \in Nat /\ next[c] \in Nat
    BY <1>1, <1>3 DEF CallerType
  <2>3. CallerType' /\ errors'[c] # {}
    BY <2>1, <2>2 DEF CallerType, Place
  <2>4. /\ pc'[c] = "get" /\ next'[c] = next[c] + 1
        /\ \A d \in Caller \ {c} : pc'[d] = pc[d] /\ next'[d] = next[d] /\ errors'[d] = errors[d]
    BY <2>1 DEF CallerType
  <2>5. Unsent(c)' \subseteq {i \in 1..Messages[c] : i > next[c]}
    BY <1>1, <2>2, <2>4 DEF Unsent
  <2>6. QED
    BY <1>3, <2>3, <2>4, <2>5 DEF Unsent, Settled
<1>4. QED
  BY <1>2, <1>3

\* One frame changes.
LEMMA FrameChange ==
  ASSUME DeliveryType, NEW c \in Caller, NEW i \in 1..Messages[c], NEW s \in FrameState,
         frame' = [frame EXCEPT ![c][i] = s]
  PROVE  /\ frame' = [d \in Caller |-> frame'[d]]
         /\ \A d \in Caller : frame'[d] \in [1..Messages[d] -> FrameState]
         /\ frame'[c][i] = s
         /\ \A j \in 1..Messages[c] : j # i => frame'[c][j] = frame[c][j]
         /\ \A d \in Caller : d # c => frame'[d] = frame[d]
<1> DEFINE mine == [frame[c] EXCEPT ![i] = s]
<1>1. frame' = [frame EXCEPT ![c] = mine]
  OBVIOUS
<1>2. /\ frame[c] \in [1..Messages[c] -> FrameState]
      /\ frame = [d \in Caller |-> frame[d]]
      /\ \A d \in Caller : frame[d] \in [1..Messages[d] -> FrameState]
  BY DEF DeliveryType
<1>3. /\ mine \in [1..Messages[c] -> FrameState] /\ mine[i] = s
      /\ \A j \in 1..Messages[c] : j # i => mine[j] = frame[c][j]
  BY <1>2
<1> HIDE DEF mine
<1>4. DOMAIN frame = Caller
  BY <1>2
<1>5. /\ frame' = [d \in Caller |-> frame'[d]] /\ frame'[c] = mine
      /\ \A d \in Caller : d # c => frame'[d] = frame[d]
  BY <1>1, <1>4
<1>6. QED
  BY <1>2, <1>3, <1>5

\* The next frame goes on the wire: every frame in the queues was sent before it.
LEMMA PutsOnWire ==
  ASSUME DeliveryInv, NEW c \in Caller, pc[c] = "send",
         frame' = [frame EXCEPT ![c][next[c]] = "sent"], queued' = queued,
         CallerType',
         \A d \in Caller \ {c} : /\ errors'[d] = errors[d] /\ Unsent(d)' = Unsent(d)
                                 /\ Settled(d)' = Settled(d),
         Unsent(c)' \subseteq Unsent(c) \ {next[c]},
         errors'[c] = {} => errors[c] = {} /\ Settled(c)' \subseteq Settled(c)
  PROVE  DeliveryInv'
<1>1. next[c] \in 1..Messages[c] /\ DeliveryType /\ "sent" \in FrameState
  BY DEF DeliveryInv, DeliveryType, FrameState
<1>2. /\ frame' = [d \in Caller |-> frame'[d]]
      /\ \A d \in Caller : frame'[d] \in [1..Messages[d] -> FrameState]
      /\ frame'[c][next[c]] = "sent"
      /\ \A j \in 1..Messages[c] : j # next[c] => frame'[c][j] = frame[c][j]
      /\ \A d \in Caller : d # c => frame'[d] = frame[d]
  BY <1>1, FrameChange
<1>3. DeliveryType'
  BY <1>1, <1>2 DEF DeliveryType, CallerType
<1>4. next[c] \in Unsent(c) /\ \A i \in 1..Messages[c] : i >= next[c] => i \in Unsent(c)
  BY <1>1, MessagesNat DEF Unsent
<1>5. \A i \in 1..Messages[c] : i >= next[c] => frame[c][i] = "unsent"
  BY <1>4 DEF DeliveryInv, SentOnce
<1>6. SentOnce'
  <2>1. \A i \in Unsent(c)' : frame'[c][i] = "unsent"
    BY <1>2 DEF DeliveryInv, SentOnce, Unsent
  <2>2. \A d \in Caller \ {c} : \A i \in Unsent(d)' : frame'[d][i] = "unsent"
    BY <1>2 DEF DeliveryInv, SentOnce
  <2>3. QED
    BY <2>1, <2>2 DEF SentOnce
<1>7. OkIsAcked'
  <2>1. ASSUME errors'[c] = {}, NEW i \in Settled(c)' PROVE frame'[c][i] = "acked"
    <3>1. i \in 1..Messages[c] /\ frame[c][i] = "acked"
      BY <2>1 DEF DeliveryInv, OkIsAcked, Settled
    <3>2. i # next[c]
      BY <1>1, <1>5, <3>1
    <3>3. QED
      BY <1>2, <3>1, <3>2
  <2>2. \A d \in Caller \ {c} : errors'[d] = {} => \A i \in Settled(d)' : frame'[d][i] = "acked"
    BY <1>2 DEF DeliveryInv, OkIsAcked
  <2>3. QED
    BY <2>1, <2>2 DEF OkIsAcked
<1>8. ASSUME NEW d \in Caller, NEW i \in 1..Messages[d], frame'[d][i] # frame[d][i]
      PROVE  d = c /\ i = next[c] /\ frame[d][i] = "unsent"
  BY <1>1, <1>2, <1>5, <1>8
<1>9. ASSUME NEW p \in DOMAIN queued, queued[p][1] = c PROVE queued[p][2] < next[c]
  <2>1. queued[p][2] \in 1..Messages[c] /\ frame[c][queued[p][2]] # "unsent"
    BY <1>9 DEF DeliveryInv, QueueMatchesFrames
  <2>2. QED
    BY <1>1, <1>5, <2>1
<1>10. QueueMatchesFrames'
  <2>1. ASSUME NEW d \in Caller, NEW i \in 1..Messages[d], frame'[d][i] = "acked"
        PROVE  \E p \in DOMAIN queued : queued[p] = <<d, i>>
    <3>1. frame[d][i] = "acked"
      BY <1>2, <1>8, <2>1
    <3>2. QED
      BY <3>1 DEF DeliveryInv, QueueMatchesFrames
  <2>2. ASSUME NEW p \in DOMAIN queued
        PROVE  /\ queued[p][2] \in 1..Messages[queued[p][1]]
               /\ frame'[queued[p][1]][queued[p][2]] # "unsent"
               /\ \A i \in 1..Messages[queued[p][1]] :
                    i <= queued[p][2] => frame'[queued[p][1]][i] # "sent"
    <3>1. /\ queued[p][1] \in Caller /\ queued[p][2] \in 1..Messages[queued[p][1]]
          /\ frame[queued[p][1]][queued[p][2]] # "unsent"
          /\ \A i \in 1..Messages[queued[p][1]] :
               i <= queued[p][2] => frame[queued[p][1]][i] # "sent"
      BY DEF DeliveryInv, DeliveryType, QueueMatchesFrames
    <3>2. CASE queued[p][1] = c
      BY <1>1, <1>2, <1>9, <3>1, <3>2
    <3>3. CASE queued[p][1] # c
      BY <1>2, <3>1, <3>3
    <3>4. QED
      BY <3>2, <3>3
  <2>3. QED
    BY <2>1, <2>2 DEF QueueMatchesFrames
<1>11. QueueInOrder'
  BY DEF DeliveryInv, QueueInOrder
<1>12. QED
  BY <1>3, <1>6, <1>7, <1>10, <1>11 DEF DeliveryInv

\* An error that sends nothing.
LEMMA FailsQuietly ==
  ASSUME DeliveryInv, NEW c \in Caller, pc[c] # "done", Fail(c), UNCHANGED <<frame, queued>>
  PROVE  DeliveryInv'
<1>1. CallerType
  BY DEF DeliveryInv, DeliveryType, CallerType
<1>2. {i \in 1..Messages[c] : c \notin Pipelined /\ i > next[c]} \subseteq Unsent(c)
  <2>1. next[c] \in Nat
    BY <1>1 DEF CallerType
  <2>2. QED
    BY <2>1, MessagesNat DEF Unsent
<1>3. /\ \A d \in Caller : Unsent(d)' \subseteq Unsent(d)
      /\ \A d \in Caller : errors'[d] = {} => errors[d] = {} /\ Settled(d)' \subseteq Settled(d)
      /\ CallerType'
  BY <1>1, <1>2, FailMoves
<1>4. \A d \in Caller : errors'[d] = {} => \A i \in Settled(d)' : frame[d][i] = "acked"
  BY <1>3 DEF DeliveryInv, OkIsAcked
<1>5. QED
  BY <1>3, <1>4, MovesOn

LEMMA SendDelivers ==
  ASSUME DeliveryInv, NEW c \in Caller, Send(c)
  PROVE  DeliveryInv'
<1>1. /\ pc[c] = "send" /\ frame' = [frame EXCEPT ![c][next[c]] = "sent"]
      /\ queued' = queued /\ errors' = errors
  BY DEF Send, pubRest
<1>2. /\ pc \in [Caller -> Place] /\ next \in [Caller -> Nat] /\ next[c] \in 1..Messages[c]
      /\ Messages[c] \in Nat /\ CallerType
  BY MessagesNat DEF DeliveryInv, DeliveryType, CallerType
<1>3. CASE c \notin Pipelined
  <2>1. pc' = [pc EXCEPT ![c] = "settle"] /\ next' = next
    BY <1>3 DEF Send, Goto
  <2>2. CallerType'
    BY <1>1, <1>2, <2>1 DEF CallerType, Place
  <2>3. \A d \in Caller \ {c} : Unsent(d)' = Unsent(d) /\ Settled(d)' = Settled(d)
    BY <1>2, <2>1 DEF Unsent, Settled
  <2>4. Unsent(c)' \subseteq Unsent(c) \ {next[c]} /\ Settled(c)' \subseteq Settled(c)
    BY <1>1, <1>2, <1>3, <2>1 DEF Unsent, Settled
  <2>5. QED
    BY <1>1, <2>2, <2>3, <2>4, PutsOnWire
<1>4. CASE c \in Pipelined /\ next[c] < Messages[c]
  <2>1. pc' = pc /\ next' = [next EXCEPT ![c] = next[c] + 1]
    BY <1>4 DEF Send
  <2>2. CallerType'
    BY <1>1, <1>2, <1>4, <2>1 DEF CallerType
  <2>3. \A d \in Caller \ {c} : Unsent(d)' = Unsent(d) /\ Settled(d)' = Settled(d)
    BY <1>2, <2>1 DEF Unsent, Settled
  <2>4. Unsent(c)' \subseteq Unsent(c) \ {next[c]} /\ Settled(c)' \subseteq Settled(c)
    BY <1>1, <1>2, <1>4, <2>1 DEF Unsent, Settled
  <2>5. QED
    BY <1>1, <2>2, <2>3, <2>4, PutsOnWire
<1>5. CASE c \in Pipelined /\ ~ (next[c] < Messages[c])
  <2>1. pc' = [pc EXCEPT ![c] = "settle"] /\ next' = [next EXCEPT ![c] = 1]
    BY <1>5 DEF Send, Goto
  <2>2. CallerType'
    BY <1>1, <1>2, <2>1 DEF CallerType, Place
  <2>3. \A d \in Caller \ {c} : Unsent(d)' = Unsent(d) /\ Settled(d)' = Settled(d)
    BY <1>2, <2>1 DEF Unsent, Settled
  <2>4. Unsent(c)' = {} /\ Settled(c)' = {}
    BY <1>1, <1>2, <1>5, <2>1 DEF Unsent, Settled
  <2>5. QED
    BY <1>1, <2>2, <2>3, <2>4, PutsOnWire
<1>6. QED
  BY <1>3, <1>4, <1>5

LEMMA SendFailsDelivers ==
  ASSUME DeliveryInv, NEW c \in Caller, SendFails(c)
  PROVE  DeliveryInv'
<1>1. pc[c] = "send" /\ Fail(c) /\ queued' = queued
  BY DEF SendFails, pubRest
<1>2. CASE frame' = frame
  BY <1>1, <1>2, FailsQuietly
<1>3. CASE frame' = [frame EXCEPT ![c][next[c]] = "sent"]
  <2>1. CallerType /\ next[c] \in 1..Messages[c] /\ Messages[c] \in Nat
    BY MessagesNat DEF DeliveryInv, DeliveryType, CallerType
  <2>2. /\ CallerType' /\ errors'[c] # {}
        /\ \A d \in Caller \ {c} : errors'[d] = errors[d] /\ Unsent(d)' = Unsent(d)
                                    /\ Settled(d)' = Settled(d)
        /\ Unsent(c)' \subseteq {i \in 1..Messages[c] : c \notin Pipelined /\ i > next[c]}
    BY <1>1, <2>1, FailMoves
  <2>3. Unsent(c)' \subseteq Unsent(c) \ {next[c]}
    <3>1. {i \in 1..Messages[c] : i > next[c]} \subseteq Unsent(c) \ {next[c]}
      BY <1>1, <2>1 DEF Unsent
    <3>2. QED
      BY <2>2, <3>1
  <2>4. QED
    BY <1>1, <1>3, <2>2, <2>3, PutsOnWire
<1>4. QED
  BY <1>2, <1>3 DEF SendFails

\* A confirm that was awaited: the frame counts as settled only when it is acked.
LEMMA SettleDelivers ==
  ASSUME DeliveryInv, NEW c \in Caller, Settle(c)
  PROVE  DeliveryInv'
<1>1. /\ pc[c] = "settle" /\ UNCHANGED <<frame, queued>>
      /\ next[c] \in 1..Messages[c] /\ Messages[c] \in Nat /\ CallerType
  BY MessagesNat DEF Settle, pubRest, DeliveryInv, DeliveryType, CallerType
<1>2. CASE ~ Delivered(frame[c][next[c]])
  BY <1>1, <1>2, FailsQuietly DEF Settle
<1>3. CASE Delivered(frame[c][next[c]])
  <2>1. frame[c][next[c]] = "acked" /\ errors' = errors
    BY <1>3 DEF Settle, Delivered
  <2>2. \A i \in 1..Messages[c] : errors[c] = {} /\ i <= next[c] => frame[c][i] = "acked"
    <3>1. \A i \in 1..Messages[c] : i < next[c] => i \in Settled(c)
      BY <1>1 DEF Settled
    <3>2. QED
      BY <1>1, <2>1, <3>1 DEF DeliveryInv, OkIsAcked
  <2>3. CASE next[c] < Messages[c]
    <3>1. next' = [next EXCEPT ![c] = next[c] + 1]
      BY <1>3, <2>3 DEF Settle
    <3>2. pc' = IF c \in Pipelined THEN pc ELSE [pc EXCEPT ![c] = "get"]
      BY <1>3, <2>3 DEF Settle, Goto
    <3>3. CallerType'
      BY <1>1, <2>1, <2>3, <3>1, <3>2 DEF CallerType, Place
    <3>4. /\ next'[c] = next[c] + 1 /\ pc'[c] = IF c \in Pipelined THEN "settle" ELSE "get"
          /\ \A d \in Caller \ {c} : pc'[d] = pc[d] /\ next'[d] = next[d]
      BY <1>1, <3>1, <3>2 DEF CallerType
    <3>5. /\ Unsent(c)' \subseteq Unsent(c)
          /\ \A i \in Settled(c)' : i \in 1..Messages[c] /\ i <= next[c]
      BY <1>1, <3>4 DEF Unsent, Settled
    <3>6. \A d \in Caller \ {c} : Unsent(d)' = Unsent(d) /\ Settled(d)' = Settled(d)
      BY <3>4 DEF Unsent, Settled
    <3>7. \A d \in Caller : errors'[d] = {} => \A i \in Settled(d)' : frame[d][i] = "acked"
      BY <2>1, <2>2, <3>5, <3>6 DEF DeliveryInv, OkIsAcked
    <3>8. QED
      BY <1>1, <3>3, <3>5, <3>6, <3>7, MovesOn
  <2>4. CASE ~ (next[c] < Messages[c])
    <3>1. pc' = [pc EXCEPT ![c] = "done"] /\ next' = next
      BY <1>3, <2>4 DEF Settle, Goto
    <3>2. CallerType'
      BY <1>1, <2>1, <3>1 DEF CallerType, Place
    <3>3. pc'[c] = "done" /\ \A d \in Caller \ {c} : pc'[d] = pc[d]
      BY <1>1, <3>1 DEF CallerType
    <3>4. Unsent(c)' = {} /\ \A i \in Settled(c)' : i \in 1..Messages[c] /\ i <= next[c]
      BY <1>1, <2>4, <3>3 DEF Unsent, Settled
    <3>5. \A d \in Caller \ {c} : Unsent(d)' = Unsent(d) /\ Settled(d)' = Settled(d)
      BY <3>1, <3>3 DEF Unsent, Settled
    <3>6. \A d \in Caller : errors'[d] = {} => \A i \in Settled(d)' : frame[d][i] = "acked"
      BY <2>1, <2>2, <3>4, <3>5 DEF DeliveryInv, OkIsAcked
    <3>7. QED
      BY <1>1, <3>2, <3>4, <3>5, <3>6, MovesOn
  <2>5. QED
    BY <2>3, <2>4
<1>4. QED
  BY <1>2, <1>3

LEMMA CallDelivers ==
  ASSUME DeliveryInv, NEW c \in Caller, Call(c)
  PROVE  DeliveryInv'
<1>1. pc \in [Caller -> Place]
  BY DEF DeliveryInv, DeliveryType
<1>2. CASE FastPath(c) \/ Lock(c) \/ Recheck(c) \/ Dialled(c) \/ Install(c)
  <2>1. UNCHANGED <<frame, queued, next, errors>> /\ pc[c] \notin {"settle", "done"}
    BY <1>2 DEF FastPath, Lock, Recheck, Dialled, Install
  <2>2. \E w \in Place \ {"settle", "done"} : Goto(c, w)
    BY <1>2 DEF FastPath, Lock, Recheck, Dialled, Install, Place, Reconnecting
  <2>3. QED
    BY <1>1, <2>1, <2>2, Waits DEF Goto
<1>3. CASE DialFails(c) \/ Pick(c)
  <2>1. UNCHANGED <<frame, queued>> /\ pc[c] \notin {"settle", "done"}
    BY <1>3 DEF DialFails, Pick
  <2>2. CASE Fail(c)
    BY <2>1, <2>2, FailsQuietly
  <2>3. CASE UNCHANGED <<pc, next, errors>>
    BY <1>1, <2>1, <2>3, Waits
  <2>4. CASE Goto(c, "send") /\ UNCHANGED <<next, errors>>
    <3>1. pc' \in [Caller -> Place] /\ pc'[c] = "send" /\ \A d \in Caller \ {c} : pc'[d] = pc[d]
      BY <1>1, <2>4 DEF Goto, Place
    <3>2. QED
      BY <2>1, <2>4, <3>1, Waits
  <2>5. QED
    BY <1>3, <2>2, <2>3, <2>4 DEF DialFails, Pick
<1>4. QED
  BY <1>2, <1>3, SendDelivers, SendFailsDelivers, SettleDelivers DEF Call

\* Frames leave the wire without being queued.
LEMMA LeavesWire ==
  ASSUME DeliveryInv, UNCHANGED <<pc, next, errors, queued>>,
         frame' = [c \in Caller |-> frame'[c]],
         \A c \in Caller : frame'[c] \in [1..Messages[c] -> FrameState],
         \A c \in Caller : \A i \in 1..Messages[c] :
           \/ frame'[c][i] = frame[c][i]
           \/ frame[c][i] = "sent" /\ frame'[c][i] \in {"returned", "nacked", "lost"}
  PROVE  DeliveryInv'
<1>1. DeliveryType'
  BY DEF DeliveryInv, DeliveryType
<1>2. \A c \in Caller : Unsent(c)' = Unsent(c) /\ Settled(c)' = Settled(c)
  BY DEF Unsent, Settled
<1>3. \A c \in Caller : Unsent(c) \subseteq 1..Messages[c] /\ Settled(c) \subseteq 1..Messages[c]
  BY DEF Unsent, Settled
<1>4. SentOnce' /\ OkIsAcked'
  <2>1. \A c \in Caller : \A i \in 1..Messages[c] :
          frame[c][i] # "sent" => frame'[c][i] = frame[c][i]
    OBVIOUS
  <2>2. SentOnce'
    BY <1>2, <1>3, <2>1 DEF DeliveryInv, SentOnce
  <2>3. OkIsAcked'
    BY <1>2, <1>3, <2>1 DEF DeliveryInv, OkIsAcked
  <2>4. QED
    BY <2>2, <2>3
<1>5. \A c \in Caller : \A i \in 1..Messages[c] :
        /\ frame'[c][i] = "acked" => frame[c][i] = "acked"
        /\ frame[c][i] # "sent" => frame'[c][i] # "sent"
        /\ frame[c][i] # "unsent" => frame'[c][i] # "unsent"
  OBVIOUS
<1>6. \A p \in DOMAIN queued : queued[p][1] \in Caller
  BY DEF DeliveryInv, DeliveryType
<1>7. QueueMatchesFrames'
  BY <1>5, <1>6 DEF DeliveryInv, QueueMatchesFrames
<1>8. QueueInOrder'
  BY DEF DeliveryInv, QueueInOrder
<1>9. QED
  BY <1>1, <1>4, <1>7, <1>8 DEF DeliveryInv

\* A lost connection or a closed one.
LEMMA LoseDelivers ==
  ASSUME DeliveryInv, NEW k, Lose(k), UNCHANGED <<pc, next, errors, queued>>
  PROVE  DeliveryInv'
<1>1. frame' = [c \in Caller |-> frame'[c]]
  BY DEF Lose
<1>2. ASSUME NEW c \in Caller
      PROVE  /\ frame'[c] \in [1..Messages[c] -> FrameState]
             /\ \A i \in 1..Messages[c] :
                  \/ frame'[c][i] = frame[c][i]
                  \/ frame[c][i] = "sent" /\ frame'[c][i] = "lost"
  <2>1. frame'[c] = [i \in 1..Messages[c] |->
                      IF using[c] = k /\ frame[c][i] = "sent" THEN "lost" ELSE frame[c][i]]
    BY DEF Lose
  <2>2. frame[c] \in [1..Messages[c] -> FrameState]
    BY DEF DeliveryInv, DeliveryType
  <2>3. QED
    BY <2>1, <2>2 DEF FrameState
<1>3. QED
  BY <1>1, <1>2, LeavesWire

\* The broker queues the first frame that is on the wire: all that it queued of
\* the caller before was sent before.
LEMMA Queues ==
  ASSUME DeliveryInv, UNCHANGED <<pc, next, errors>>,
         NEW c \in Caller, NEW i \in 1..Messages[c], NEW s \in {"acked", "lost"},
         frame[c][i] = "sent", \A j \in 1..(i - 1) : frame[c][j] # "sent",
         frame' = [frame EXCEPT ![c][i] = s], queued' = Append(queued, <<c, i>>)
  PROVE  DeliveryInv'
<1> DEFINE n == Len(queued)
<1>1. DeliveryType /\ s \in FrameState /\ i \in Nat /\ Messages[c] \in Nat
  BY MessagesNat DEF DeliveryInv, FrameState
<1>2. /\ frame' = [d \in Caller |-> frame'[d]]
      /\ \A d \in Caller : frame'[d] \in [1..Messages[d] -> FrameState]
      /\ frame'[c][i] = s
      /\ \A j \in 1..Messages[c] : j # i => frame'[c][j] = frame[c][j]
      /\ \A d \in Caller : d # c => frame'[d] = frame[d]
  BY <1>1, FrameChange
<1>3. queued \in Seq(Caller \X Nat) /\ <<c, i>> \in Caller \X Nat
  BY <1>1 DEF DeliveryType
<1>4. /\ n \in Nat /\ DOMAIN queued = 1..n /\ DOMAIN queued' = 1..(n + 1)
      /\ queued'[n + 1] = <<c, i>> /\ queued' \in Seq(Caller \X Nat)
      /\ \A p \in 1..n : queued'[p] = queued[p] /\ queued[p][1] \in Caller
  BY <1>3
<1> HIDE DEF n
<1>5. DeliveryType'
  BY <1>1, <1>2, <1>4 DEF DeliveryType
<1>6. \A d \in Caller : Unsent(d)' = Unsent(d) /\ Settled(d)' = Settled(d)
  BY DEF Unsent, Settled
<1>7. SentOnce' /\ OkIsAcked'
  <2>1. \A d \in Caller : \A j \in 1..Messages[d] :
          frame[d][j] # "sent" => frame'[d][j] = frame[d][j]
    BY <1>2
  <2>2. \A d \in Caller : Unsent(d) \subseteq 1..Messages[d] /\ Settled(d) \subseteq 1..Messages[d]
    BY DEF Unsent, Settled
  <2>3. SentOnce'
    BY <1>6, <2>1, <2>2 DEF DeliveryInv, SentOnce
  <2>4. OkIsAcked'
    BY <1>6, <2>1, <2>2 DEF DeliveryInv, OkIsAcked
  <2>5. QED
    BY <2>3, <2>4
<1>8. ASSUME NEW p \in 1..n, queued[p][1] = c PROVE queued[p][2] < i
  <2>1. queued[p][2] \in 1..Messages[c] /\ ~ (i <= queued[p][2])
    BY <1>4, <1>8 DEF DeliveryInv, QueueMatchesFrames
  <2>2. QED
    BY <1>1, <2>1
<1>9. QueueMatchesFrames'
  <2>1. ASSUME NEW d \in Caller, NEW j \in 1..Messages[d], frame'[d][j] = "acked"
        PROVE  \E p \in DOMAIN queued' : queued'[p] = <<d, j>>
    <3>1. CASE d = c /\ j = i
      <4>1. n + 1 \in 1..(n + 1)
        BY <1>4
      <4>2. QED
        BY <1>4, <3>1, <4>1
    <3>2. CASE ~ (d = c /\ j = i)
      <4>1. frame[d][j] = "acked"
        BY <1>2, <2>1, <3>2
      <4>2. PICK p \in DOMAIN queued : queued[p] = <<d, j>>
        BY <4>1 DEF DeliveryInv, QueueMatchesFrames
      <4>3. p \in 1..(n + 1) /\ queued'[p] = <<d, j>>
        BY <1>4, <4>2
      <4>4. QED
        BY <1>4, <4>3
    <3>3. QED
      BY <3>1, <3>2
  <2>2. ASSUME NEW p \in 1..n
        PROVE  /\ queued[p][2] \in 1..Messages[queued[p][1]]
               /\ frame'[queued[p][1]][queued[p][2]] # "unsent"
               /\ \A j \in 1..Messages[queued[p][1]] :
                    j <= queued[p][2] => frame'[queued[p][1]][j] # "sent"
    <3>1. /\ queued[p][1] \in Caller /\ queued[p][2] \in 1..Messages[queued[p][1]]
          /\ frame[queued[p][1]][queued[p][2]] # "unsent"
          /\ \A j \in 1..Messages[queued[p][1]] :
               j <= queued[p][2] => frame[queued[p][1]][j] # "sent"
      BY <1>4 DEF DeliveryInv, QueueMatchesFrames
    <3>2. CASE queued[p][1] = c
      BY <1>2, <3>1, <3>2
    <3>3. CASE queued[p][1] # c
      BY <1>2, <3>1, <3>3
    <3>4. QED
      BY <3>2, <3>3
  <2>3. \A j \in 1..Messages[c] : j <= i => frame'[c][j] # "sent"
    BY <1>1, <1>2
  <2>4. ASSUME NEW p \in DOMAIN queued'
        PROVE  /\ queued'[p][2] \in 1..Messages[queued'[p][1]]
               /\ frame'[queued'[p][1]][queued'[p][2]] # "unsent"
               /\ \A j \in 1..Messages[queued'[p][1]] :
                    j <= queued'[p][2] => frame'[queued'[p][1]][j] # "sent"
    <3>1. CASE p \in 1..n
      BY <1>4, <2>2, <3>1
    <3>2. CASE p = n + 1
      BY <1>2, <1>4, <2>3, <3>2
    <3>3. QED
      BY <1>4, <3>1, <3>2
  <2>5. QED
    BY <2>1, <2>4 DEF QueueMatchesFrames
<1>10. QueueInOrder'
  <2>1. ASSUME NEW p \in DOMAIN queued', NEW q \in DOMAIN queued',
               p < q, queued'[p][1] = queued'[q][1]
        PROVE  queued'[p][2] < queued'[q][2]
    <3>1. p \in 1..n
      BY <1>4, <2>1
    <3>2. CASE q \in 1..n
      BY <1>4, <2>1, <3>1, <3>2 DEF DeliveryInv, QueueInOrder
    <3>3. CASE q = n + 1
      BY <1>4, <1>8, <2>1, <3>1, <3>3
    <3>4. QED
      BY <1>4, <3>2, <3>3
  <2>2. QED
    BY <2>1 DEF QueueInOrder
<1>11. QED
  BY <1>5, <1>7, <1>9, <1>10 DEF DeliveryInv

LEMMA BrokerDelivers ==
  ASSUME DeliveryInv, Broker
  PROVE  DeliveryInv'
<1>1. UNCHANGED <<pc, next, errors>>
  BY DEF Broker, BrokerTakes, ConfirmLost, ConnectionLost, brokerRest, callers
<1>2. ASSUME NEW c \in Caller, NEW i \in 1..Messages[c],
             BrokerTakes(c, i) \/ ConfirmLost(c, i)
      PROVE  DeliveryInv'
  <2>1. frame[c][i] = "sent" /\ \A j \in 1..(i - 1) : frame[c][j] # "sent"
    BY <1>2 DEF BrokerTakes, ConfirmLost
  <2>2. CASE \E s \in {"acked", "lost"} : /\ frame' = [frame EXCEPT ![c][i] = s]
                                          /\ queued' = Append(queued, <<c, i>>)
    BY <1>1, <2>1, <2>2, Queues
  <2>3. CASE \E s \in {"returned", "nacked"} : /\ frame' = [frame EXCEPT ![c][i] = s]
                                               /\ queued' = queued
    <3> PICK s \in {"returned", "nacked"} : frame' = [frame EXCEPT ![c][i] = s]
      BY <2>3
    <3>1. DeliveryType /\ s \in FrameState
      BY DEF DeliveryInv, FrameState
    <3>2. /\ frame' = [d \in Caller |-> frame'[d]]
          /\ \A d \in Caller : frame'[d] \in [1..Messages[d] -> FrameState]
          /\ frame'[c][i] = s
          /\ \A j \in 1..Messages[c] : j # i => frame'[c][j] = frame[c][j]
          /\ \A d \in Caller : d # c => frame'[d] = frame[d]
      BY <3>1, FrameChange
    <3>3. \A d \in Caller : \A j \in 1..Messages[d] :
            \/ frame'[d][j] = frame[d][j]
            \/ frame[d][j] = "sent" /\ frame'[d][j] \in {"returned", "nacked", "lost"}
      BY <2>1, <3>2
    <3>4. QED
      BY <1>1, <2>3, <3>2, <3>3, LeavesWire
  <2>4. QED
    BY <1>2, <2>2, <2>3 DEF BrokerTakes, ConfirmLost
<1>3. ASSUME NEW k \in live, ConnectionLost(k) PROVE DeliveryInv'
  BY <1>1, <1>3, LoseDelivers DEF ConnectionLost
<1>4. QED
  BY <1>2, <1>3 DEF Broker

LEMMA DeliveryStep == DeliveryInv /\ [Next]_vars => DeliveryInv'
<1> SUFFICES ASSUME DeliveryInv, [Next]_vars PROVE DeliveryInv'
  OBVIOUS
<1>1. CASE CloseChannel \/ CloseConnection
  BY <1>1, LoseDelivers DEF CloseChannel, CloseConnection, callers
<1>2. CASE UNCHANGED vars
  <2>1. CallerType' /\ UNCHANGED <<frame, queued, pc, next, errors>>
    BY <1>2 DEF vars, callers, CallerType, DeliveryInv, DeliveryType
  <2>2. \A c \in Caller : Unsent(c)' = Unsent(c) /\ Settled(c)' = Settled(c)
    BY <2>1 DEF Unsent, Settled
  <2>3. QED
    BY <2>1, <2>2, MovesOn DEF DeliveryInv, OkIsAcked
<1>3. QED
  BY <1>1, <1>2, CallDelivers, BrokerDelivers DEF Next

\* A publish that returns Ok has put every message into the consumers' queues, once
\* each and in order (message_queue.rs:430-440), for any number of callers, messages,
\* retries, lost connections and confirms, and wherever close() falls.
THEOREM OkIsDelivered == Spec => []OkMeansDelivered
<1>1. DeliveryInv => OkMeansDelivered
  <2> SUFFICES ASSUME DeliveryInv, NEW c \in Caller, pc[c] = "done", errors[c] = {}
               PROVE  /\ {queued[p][2] : p \in Places(c)} = 1..Messages[c]
                      /\ \A p, q \in Places(c) : p < q => queued[p][2] < queued[q][2]
    BY DEF OkMeansDelivered
  <2>1. \A i \in 1..Messages[c] : frame[c][i] = "acked"
    BY DEF DeliveryInv, OkIsAcked, Settled
  <2>2. \A i \in 1..Messages[c] : \E p \in DOMAIN queued : queued[p] = <<c, i>>
    BY <2>1 DEF DeliveryInv, QueueMatchesFrames
  <2>3. \A i \in 1..Messages[c] : \E p \in Places(c) : queued[p][2] = i
    BY <2>2 DEF Places
  <2>4. \A p \in Places(c) : queued[p][2] \in 1..Messages[c]
    BY DEF Places, DeliveryInv, QueueMatchesFrames
  <2>5. \A p, q \in Places(c) : p < q => queued[p][2] < queued[q][2]
    BY DEF Places, DeliveryInv, QueueInOrder
  <2>6. QED
    BY <2>3, <2>4, <2>5
<1>2. QED
  BY <1>1, DeliveryInit, DeliveryStep, PTL DEF Spec
=============================================================================
