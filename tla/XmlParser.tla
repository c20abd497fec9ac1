----------------------------- MODULE XmlParser -----------------------------
(***************************************************************************)
(* XmlParser::parse_file (discogs/parser.rs): a pull parser over the XML   *)
(* events of one dump that rebuilds one value per record and isolates      *)
(* malformed records.  A dump is a container of records of a target        *)
(* element; the label dump also nests the target element inside a record   *)
(* (<sublabels><label>).                                                   *)
(*                                                                         *)
(* The document is chosen at the start: the records between the two tags   *)
(* of the container, each a sequence of events, so that a position is a    *)
(* pair of a piece of the document and an event in it.  The reader's       *)
(* errors are a set of positions: an ill-formed piece of text or a         *)
(* mismatched end tag, after which the reader goes on, or, when it is      *)
(* stuck, reports the same error again.  The content of a record is the    *)
(* set of positions of the text it collected.                              *)
(***************************************************************************)
EXTENDS Naturals, Sequences, SequencesExt, FiniteSets

CONSTANTS Shapes,       \* forms of record that occur in the dump
          MaxRecords,   \* records in a dump
          MaxErrors,    \* errors in a dump
          Tolerated     \* MAX_MALFORMED_RECORDS_PER_FILE

ASSUME ShapesKnown == Shapes \subseteq {"plain", "closed", "nested"}
ASSUME BoundsNat == MaxRecords \in Nat /\ MaxErrors \in Nat /\ Tolerated \in Nat

Open(n)  == [kind |-> "start", name |-> n]
Close(n) == [kind |-> "end", name |-> n]
Empty(n) == [kind |-> "empty", name |-> n]
Text     == [kind |-> "text", name |-> "text"]

\* The events of one record; one that closes itself has an id attribute.
Events(shape) ==
  CASE shape = "closed" -> <<Empty("target")>>
    [] shape = "plain"  -> <<Open("target"), Open("child"), Text, Close("child"),
                             Empty("child"), Close("target")>>
    [] shape = "nested" -> <<Open("target"), Text,
                               Open("child"), Open("target"), Text, Close("target"), Close("child"),
                             Close("target")>>

Document(shapes) ==
  <<<<Open("container")>>>> \o [r \in DOMAIN shapes |-> Events(shapes[r])]
                           \o <<<<Close("container")>>>>

VARIABLES doc,       \* the pieces of the dump, each a sequence of events
          bad,       \* positions at which the reader reports an error
          stuck,     \* those of them the reader never gets past
          pos,       \* the next event
          depth,     \* depth in the document
          inTarget,  \* inside a record
          stack,     \* contexts of the open elements of the record
          resyncing, \* looking for the next record after an error
          malformed, \* errors so far
          lastError, \* position of the last one
          emitted,   \* records sent
          result     \* "none", "ok", "dropped" (Ok, the receiver is gone) or "err"

input == <<doc, bad, stuck>>
vars == <<input, pos, depth, inTarget, stack, resyncing, malformed, lastError, emitted, result>>

Within(i) == {<<i, k>> : k \in DOMAIN doc[i]}

Positions == UNION {Within(i) : i \in DOMAIN doc}

EventAt(p) == doc[p[1]][p[2]]

\* The position after p, in the same piece or at the start of the next.
After(p) == IF p[2] < Len(doc[p[1]]) THEN <<p[1], p[2] + 1>> ELSE <<p[1] + 1, 1>>

Init ==
  /\ \E shapes \in BoundedSeq(Shapes, MaxRecords) : doc = Document(shapes)
  /\ bad \in {S \in SUBSET {p \in Positions : EventAt(p).kind \in {"text", "end"}} :
                Cardinality(S) <= MaxErrors}
  /\ stuck \in SUBSET bad
  /\ pos = <<1, 1>>
  /\ depth = 0 /\ inTarget = FALSE /\ stack = <<>>
  /\ resyncing = FALSE /\ malformed = 0 /\ lastError = <<0, 0>>
  /\ emitted = <<>>
  /\ result = "none"

-----------------------------------------------------------------------------
Reading == result = "none" /\ pos \in Positions \ bad

Event == EventAt(pos)

IsTarget == Event.kind \in {"start", "empty"} /\ Event.name = "target"

Skipping == resyncing /\ ~ IsTarget

\* Mutant: depth is carried over an error.
DepthBeforeStale == depth

\* Depth is anchored again at the record the parser resynchronises on.
DepthBefore == IF resyncing THEN 1 ELSE depth

Max0(n) == IF n > 0 THEN n - 1 ELSE 0

Advance == /\ pos' = After(pos)
           /\ resyncing' = FALSE
           /\ UNCHANGED <<input, malformed, lastError>>

\* Context of an element that starts at p.
Context(p) == [at |-> p, text |-> {}]

WithText(ctxs, t) == [ctxs EXCEPT ![Len(ctxs)].text = @ \cup t]

\* sender.send: the receiver may be gone, which ends the parse.
Send(record) ==
  \/ emitted' = Append(emitted, record) /\ UNCHANGED result
  \/ result' = "dropped" /\ UNCHANGED emitted

AfterError == IF pos \in stuck THEN pos ELSE After(pos)

\* Mutant: an error at the same position is tolerated like any other.
ReadErrorSpins ==
  /\ result = "none" /\ pos \in bad
  /\ IF malformed > Tolerated
       THEN result' = "err" /\ UNCHANGED <<pos, stack, inTarget, resyncing, lastError>>
       ELSE /\ lastError' = pos
            /\ pos' = AfterError
            /\ stack' = <<>> /\ inTarget' = FALSE /\ resyncing' = TRUE
            /\ UNCHANGED result
  /\ malformed' = IF pos = lastError THEN malformed ELSE malformed + 1
  /\ UNCHANGED <<input, depth, emitted>>

ReadError ==
  /\ result = "none" /\ pos \in bad
  /\ malformed' = malformed + 1
  /\ IF pos = lastError \/ malformed' > Tolerated
       THEN result' = "err" /\ UNCHANGED <<pos, stack, inTarget, resyncing, lastError>>
       ELSE /\ lastError' = pos
            /\ pos' = AfterError
            /\ stack' = <<>> /\ inTarget' = FALSE /\ resyncing' = TRUE
            /\ UNCHANGED result
  /\ UNCHANGED <<input, depth, emitted>>

SkipEvent ==
  /\ Reading /\ Skipping
  /\ pos' = After(pos)
  /\ UNCHANGED <<input, depth, inTarget, stack, resyncing, malformed, lastError, emitted, result>>

StartTag ==
  /\ Reading /\ ~ Skipping /\ Event.kind = "start"
  /\ depth' = DepthBefore + 1
  /\ LET record == Event.name = "target" /\ depth' = 2
         ctxs   == IF record THEN <<>> ELSE stack
     IN  /\ inTarget' = (record \/ inTarget)
         /\ stack' = IF inTarget' THEN Append(ctxs, Context(pos)) ELSE ctxs
  /\ Advance
  /\ UNCHANGED <<emitted, result>>

\* A record that closes itself is sent at once; a child is added to its parent.
EmptyTag ==
  /\ Reading /\ ~ Skipping /\ Event.kind = "empty"
  /\ depth' = DepthBefore
  /\ IF Event.name = "target" /\ DepthBefore + 1 = 2
       THEN stack' = <<>> /\ inTarget' = FALSE /\ Send(Context(pos))
       ELSE UNCHANGED <<stack, inTarget, emitted, result>>
  /\ Advance

EndTag ==
  /\ Reading /\ ~ Skipping /\ Event.kind = "end"
  /\ depth' = Max0(depth)
  /\ IF ~ inTarget \/ stack = <<>>
       THEN UNCHANGED <<stack, inTarget, emitted, result>>
     ELSE IF Event.name = "target" /\ depth = 2
       THEN stack' = Front(stack) /\ inTarget' = FALSE /\ Send(Last(stack))
     ELSE /\ stack' = IF Len(stack) = 1 THEN <<>>
                      ELSE WithText(Front(stack), Last(stack).text)
          /\ UNCHANGED <<inTarget, emitted, result>>
  /\ Advance

TextEvent ==
  /\ Reading /\ ~ Skipping /\ Event.kind = "text"
  /\ stack' = IF inTarget /\ stack # <<>> THEN WithText(stack, {pos}) ELSE stack
  /\ Advance
  /\ UNCHANGED <<depth, inTarget, emitted, result>>

EndOfFile ==
  /\ result = "none" /\ pos \notin Positions
  /\ result' = "ok"
  /\ UNCHANGED <<input, pos, depth, inTarget, stack, resyncing, malformed, lastError, emitted>>

Next == ReadError \/ SkipEvent \/ StartTag \/ EmptyTag \/ EndTag \/ TextEvent \/ EndOfFile

Spec == Init /\ [][Next]_vars

FairSpec == Spec /\ WF_vars(Next)

-----------------------------------------------------------------------------
(* Properties.                                                             *)
Records == 2..(Len(doc) - 1)

Sound(r) == Within(r) \cap bad = {}

\* The value of a sound record: all of its text and nobody else's.
Value(r) == [at |-> <<r, 1>>, text |-> {p \in Within(r) : EventAt(p).kind = "text"}]

\* The sound records of the dump before piece n.
SoundBefore(n) == {r \in Records : r < n /\ Sound(r)}

\* What was sent is the values of these records, once each, in the order of the dump.
Sent(records) ==
  /\ \A i \in DOMAIN emitted : \E r \in records : emitted[i] = Value(r)
  /\ \A r \in records : \E i \in DOMAIN emitted : emitted[i] = Value(r)
  /\ \A i, j \in DOMAIN emitted : i < j => emitted[i].at[1] < emitted[j].at[1]

\* A malformed record is dropped and nothing else is.  Whatever ends the parse, what
\* was sent is the beginning of the sound records, once each, in order, whole and
\* without a piece of a broken one.  When the parse succeeds it is all of them, and
\* no more were lost than the budget allows (parser.rs:170-171, 199-236).
OnlyMalformedDropped ==
  /\ \E n \in 1..Len(doc) : Sent(SoundBefore(n))
  /\ result = "ok" => Sent(SoundBefore(Len(doc))) /\ malformed <= Tolerated

\* The parse ends, also on a reader that makes no progress (parser.rs:195-209).
Terminates == <>(result # "none")
=============================================================================
