---------------------------- MODULE TokenBucket ----------------------------
(***************************************************************************)
(* The pacing bucket every publisher shares (message_queue.rs, TokenBucket *)
(* and pace): take reserves one token and says how long to wait before     *)
(* using it, so that nobody holds the lock while sleeping.                 *)
(*                                                                         *)
(* Time and tokens are measured in ticks: a record costs Cost ticks of     *)
(* refill (1 / rate), the bucket holds Burst of them.  The rounding of     *)
(* floating point is left out.                                             *)
(***************************************************************************)
EXTENDS Integers, Sequences, FiniteSets

CONSTANTS Publisher,  \* tasks that share the bucket
          Cost,       \* ticks per record
          Burst,      \* capacity, in ticks; at least one record
          Horizon     \* ticks observed

ASSUME PublishersFinite == IsFiniteSet(Publisher)
ASSUME RatesNat == Cost \in Nat \ {0} /\ Burst \in Nat /\ Burst >= Cost /\ Horizon \in Nat

VARIABLES now,      \* the clock
          tokens,   \* what the bucket holds; negative when it is reserved ahead
          last,     \* when it was refilled
          release,  \* of each publisher: when it may send, -1 when it has nothing to send
          reserved  \* the release times, in the order they were reserved

bucketVars == <<now, tokens, last, release, reserved>>

BucketInit ==
  /\ now = 0 /\ tokens = Burst /\ last = 0
  /\ release = [p \in Publisher |-> -1]
  /\ reserved = <<>>

Capped(n) == IF n < Burst THEN n ELSE Burst

\* Mutant: an idle bucket goes on filling.
RefilledUncapped == tokens + (now - last)

\* Mutant: a bucket that is reserved ahead is not refilled.
RefilledWhenPositive == IF tokens < 0 THEN tokens ELSE Capped(tokens + (now - last))

Refilled == Capped(tokens + (now - last))

Take(p) ==
  /\ release[p] = -1
  /\ last' = now
  /\ tokens' = Refilled - Cost
  /\ release' = [release EXCEPT ![p] = IF tokens' >= 0 THEN now ELSE now - tokens']
  /\ reserved' = Append(reserved, release'[p])
  /\ UNCHANGED now

\* The sleep is over, perhaps late.
Send(p) ==
  /\ release[p] \in 0..now
  /\ release' = [release EXCEPT ![p] = -1]
  /\ UNCHANGED <<now, tokens, last, reserved>>

Pass == now < Horizon /\ now' = now + 1 /\ UNCHANGED <<tokens, last, release, reserved>>

BucketNext == Pass \/ \E p \in Publisher : Take(p) \/ Send(p)

BucketSpec == BucketInit /\ [][BucketNext]_bucketVars

-----------------------------------------------------------------------------
(* Properties.                                                             *)

\* The rate is a total over all publishers: any window of time holds releases for
\* no more than one burst and the refill of the window, however the publishers
\* interleave and however long they were idle before (message_queue.rs:60-88, 94-99).
TotalRateHolds ==
  \A i, j \in DOMAIN reserved :
    i <= j => (j - i + 1) * Cost <= Burst + (reserved[j] - reserved[i])

\* Pacing never holds a publisher longer than the records in flight of all of
\* them are worth, so a slow one does not starve the others.
WaitIsFair == \A p \in Publisher : release[p] - now <= Cardinality(Publisher) * Cost
=============================================================================
