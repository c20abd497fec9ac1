--------------------------- MODULE Process_proofs ---------------------------
(***************************************************************************)
(* Proofs about the three components that live as long as the process and  *)
(* share nothing with one another: the HTTP client of the dump service,    *)
(* the bucket that paces the publishers, and the loop of the service.      *)
(***************************************************************************)
EXTENDS PoliteClient, TokenBucket, ServiceLoop, FiniteSetTheorems, TLAPS

-----------------------------------------------------------------------------
(* The HTTP client: the gap and the server's wishes are kept for any       *)
(* number of callers, any gap, cap and number of retries, and whatever     *)
(* hints a server sends.                                                   *)

\* A power of two counts the subsets of a set, of which there is at least one.
LEMMA PowerPositive ==
  ASSUME NEW n \in Nat
  PROVE  2 ^ n \in Nat /\ 2 ^ n >= 1
<1>1. IsFiniteSet(1..n) /\ Cardinality(1..n) = n
  <2>1. 1 \in Int /\ n \in Int
    OBVIOUS
  <2>2. IsFiniteSet(1..n) /\ Cardinality(1..n) = IF 1 > n THEN 0 ELSE n - 1 + 1
    BY <2>1, FS_Interval
  <2>3. QED
    BY <2>2
<1>2. IsFiniteSet(SUBSET (1..n)) /\ Cardinality(SUBSET (1..n)) = 2 ^ n
  BY <1>1, FS_SUBSET
<1>3. Cardinality(SUBSET (1..n)) \in Nat
  BY <1>2, FS_CardinalityType
<1>4. Cardinality(SUBSET (1..n)) # 0
  BY <1>2, FS_EmptySet
<1>5. QED
  BY <1>2, <1>3, <1>4

\* Whatever the attempt, the wait is no shorter than what the server asked for, or than
\* the first backoff, within the cap.
LEMMA WaitCovers ==
  ASSUME NEW hint \in Hint \cup {None}, NEW attempt \in Nat \ {0}
  PROVE  LET asked == Least(IF hint = None THEN Backoff ELSE hint, MaxRetryAfter)
         IN  asked \in Nat /\ ChosenWait(hint, attempt) \in Nat /\ asked <= ChosenWait(hint, attempt)
<1>1. MaxRetryAfter \in Nat /\ Backoff \in Nat /\ (hint = None \/ hint \in Nat)
  BY PoliteNat
<1>2. CASE hint = None
  <2> PICK p : p = 2 ^ (attempt - 1)
    OBVIOUS
  <2>1. p \in Nat /\ p >= 1
    <3>1. attempt - 1 \in Nat
      OBVIOUS
    <3>2. QED
      BY <3>1, PowerPositive
  <2>2. Backoff * p \in Nat /\ Backoff <= Backoff * p
    BY <1>1, <2>1
  <2>3. ChosenWait(hint, attempt) = Least(Backoff * p, MaxRetryAfter)
    BY <1>2 DEF ChosenWait
  <2>4. QED
    BY <1>1, <1>2, <2>2, <2>3 DEF Least
<1>3. CASE hint # None
  BY <1>1, <1>3 DEF ChosenWait, Least
<1>4. QED
  BY <1>2, <1>3

-----------------------------------------------------------------------------
(* The invariant.                                                          *)

\* Who sleeps in the gap holds the lock, so that nobody else is admitted, and sleeps at
\* least what is left of the gap.  A retry sleeps at least what the server asked for.
PoliteInv ==
  /\ recent \in Nat
  /\ pc \in [Caller -> {"lock", "gap", "request", "backoff", "ok", "err"}]
  /\ left \in [Caller -> Nat] /\ owed \in [Caller -> Nat] /\ throttled \in [Caller -> Nat]
  /\ \A c \in Caller : pc[c] = "gap" => holder = c /\ recent <= left[c]
  /\ \A c \in Caller : pc[c] \in {"lock", "gap", "request"} => owed[c] = 0
  /\ \A c \in Caller : pc[c] = "backoff" => owed[c] <= left[c]

LEMMA PoliteInit == Init => PoliteInv
BY DEF Init, PoliteInv

LEMMA LockInv ==
  ASSUME PoliteInv, NEW c \in Caller, Lock(c)
  PROVE  PoliteInv'
<1>1. /\ pc[c] = "lock" /\ holder = None /\ holder' = c
      /\ left' = [left EXCEPT ![c] = recent] /\ pc' = [pc EXCEPT ![c] = "gap"]
      /\ UNCHANGED <<recent, owed, throttled>> /\ recent \in Nat
  BY DEF Lock, Goto, PoliteInv
<1>2. \A d \in Caller : pc[d] # "gap"
  BY <1>1, CallersAreFinite DEF PoliteInv
<1>3. /\ pc' \in [Caller -> {"lock", "gap", "request", "backoff", "ok", "err"}]
      /\ left' \in [Caller -> Nat] /\ pc'[c] = "gap" /\ left'[c] = recent
      /\ \A d \in Caller \ {c} : pc'[d] = pc[d] /\ left'[d] = left[d]
  BY <1>1 DEF PoliteInv
<1>4. QED
  BY <1>1, <1>2, <1>3 DEF PoliteInv

LEMMA AdmitInv ==
  ASSUME PoliteInv, NEW c \in Caller, Admit(c)
  PROVE  PoliteInv'
<1>1. /\ pc[c] = "gap" /\ recent' = MinGap /\ pc' = [pc EXCEPT ![c] = "request"]
      /\ UNCHANGED <<left, owed, throttled>> /\ MinGap \in Nat
  BY PoliteNat DEF Admit, Goto
<1>2. \A d \in Caller \ {c} : pc[d] # "gap"
  BY <1>1 DEF PoliteInv
<1>3. /\ pc' \in [Caller -> {"lock", "gap", "request", "backoff", "ok", "err"}]
      /\ pc'[c] = "request" /\ \A d \in Caller \ {c} : pc'[d] = pc[d]
  BY <1>1 DEF PoliteInv
<1>4. QED
  BY <1>1, <1>2, <1>3 DEF PoliteInv

LEMMA ThrottledInv ==
  ASSUME PoliteInv, NEW c \in Caller, NEW hint \in Hint \cup {None}, Throttled(c, hint)
  PROVE  PoliteInv'
<1> DEFINE asked == Least(IF hint = None THEN Backoff ELSE hint, MaxRetryAfter)
<1>1. /\ pc[c] = "request" /\ throttled' = [throttled EXCEPT ![c] = throttled[c] + 1]
      /\ owed' = [owed EXCEPT ![c] = asked] /\ UNCHANGED <<recent, holder>>
      /\ \/ pc' = [pc EXCEPT ![c] = "err"] /\ left' = left
         \/ /\ left' = [left EXCEPT ![c] = ChosenWait(hint, throttled'[c])]
            /\ pc' = [pc EXCEPT ![c] = "backoff"]
  BY DEF Throttled, Goto
<1>2. throttled' \in [Caller -> Nat] /\ throttled'[c] \in Nat \ {0}
  BY <1>1 DEF PoliteInv
<1> PICK wait : wait = ChosenWait(hint, throttled'[c])
  OBVIOUS
<1>3. asked \in Nat /\ wait \in Nat /\ asked <= wait
  BY <1>2, WaitCovers
<1> HIDE DEF asked
<1>4. /\ owed' \in [Caller -> Nat] /\ owed'[c] = asked
      /\ \A d \in Caller \ {c} : owed'[d] = owed[d]
  BY <1>1, <1>3 DEF PoliteInv
<1>5. CASE pc' = [pc EXCEPT ![c] = "err"] /\ left' = left
  <2>1. /\ pc' \in [Caller -> {"lock", "gap", "request", "backoff", "ok", "err"}]
        /\ pc'[c] = "err" /\ \A d \in Caller \ {c} : pc'[d] = pc[d]
    BY <1>5 DEF PoliteInv
  <2>2. QED
    BY <1>1, <1>2, <1>4, <1>5, <2>1 DEF PoliteInv
<1>6. CASE left' = [left EXCEPT ![c] = wait] /\ pc' = [pc EXCEPT ![c] = "backoff"]
  <2>1. /\ pc' \in [Caller -> {"lock", "gap", "request", "backoff", "ok", "err"}]
        /\ pc'[c] = "backoff" /\ left' \in [Caller -> Nat] /\ left'[c] = wait
        /\ \A d \in Caller \ {c} : pc'[d] = pc[d] /\ left'[d] = left[d]
    BY <1>3, <1>6 DEF PoliteInv
  <2>2. QED
    BY <1>1, <1>2, <1>3, <1>4, <2>1 DEF PoliteInv
<1>7. QED
  BY <1>1, <1>5, <1>6

LEMMA MovesInv ==
  ASSUME PoliteInv, NEW c \in Caller, Answered(c) \/ Retry(c)
  PROVE  PoliteInv'
<1>1. /\ UNCHANGED <<recent, holder, left, owed, throttled>>
      /\ \/ pc[c] = "request" /\ (pc' = [pc EXCEPT ![c] = "ok"] \/ pc' = [pc EXCEPT ![c] = "err"])
         \/ pc[c] = "backoff" /\ left[c] = 0 /\ pc' = [pc EXCEPT ![c] = "lock"]
  BY DEF Answered, Retry, Goto
<1>2. /\ pc' \in [Caller -> {"lock", "gap", "request", "backoff", "ok", "err"}]
      /\ pc'[c] \in {"ok", "err"} \/ (pc'[c] = "lock" /\ owed[c] = 0)
      /\ \A d \in Caller \ {c} : pc'[d] = pc[d]
  BY <1>1 DEF PoliteInv
<1>3. QED
  BY <1>1, <1>2 DEF PoliteInv

\* Time runs alike for the gap, the sleeps and what the server asked for.
LEMMA TickInv ==
  ASSUME PoliteInv, Tick
  PROVE  PoliteInv'
<1>1. /\ recent' = Less(recent) /\ UNCHANGED <<holder, pc, throttled>>
      /\ left' = [c \in Caller |-> Less(left[c])] /\ owed' = [c \in Caller |-> Less(owed[c])]
  BY DEF Tick
<1>2. \A n \in Nat : Less(n) \in Nat
  BY DEF Less
<1>3. \A n, k \in Nat : n <= k => Less(n) <= Less(k)
  BY DEF Less
<1>4. Less(0) = 0
  BY DEF Less
<1>5. /\ recent' \in Nat /\ left' \in [Caller -> Nat] /\ owed' \in [Caller -> Nat]
      /\ \A c \in Caller : left'[c] = Less(left[c]) /\ owed'[c] = Less(owed[c])
  BY <1>1, <1>2 DEF PoliteInv
<1>6. ASSUME NEW c \in Caller PROVE left[c] \in Nat /\ owed[c] \in Nat /\ recent \in Nat
  BY DEF PoliteInv
<1>7. \A c \in Caller : pc'[c] = "gap" => holder' = c /\ recent' <= left'[c]
  BY <1>1, <1>3, <1>5, <1>6 DEF PoliteInv
<1>8. \A c \in Caller : pc'[c] \in {"lock", "gap", "request"} => owed'[c] = 0
  BY <1>1, <1>4, <1>5 DEF PoliteInv
<1>9. \A c \in Caller : pc'[c] = "backoff" => owed'[c] <= left'[c]
  BY <1>1, <1>3, <1>5, <1>6 DEF PoliteInv
<1>10. QED
  BY <1>1, <1>5, <1>7, <1>8, <1>9 DEF PoliteInv

LEMMA PoliteStep == PoliteInv /\ [Next]_vars => PoliteInv'
<1>1. PoliteInv /\ UNCHANGED vars => PoliteInv'
  BY DEF PoliteInv, vars
<1>2. QED
  BY <1>1, TickInv, LockInv, AdmitInv, ThrottledInv, MovesInv DEF Next, Step

LEMMA PoliteHolds == Spec => []PoliteInv
<1>1. QED
  BY PoliteInit, PoliteStep, PTL DEF Spec

\* Only the caller whose sleep in the gap is over is admitted.
LEMMA OnlyAdmit ==
  ASSUME PoliteInv, [Next]_vars, NEW c \in Caller, Admitted(c)
  PROVE  left[c] = 0 /\ pc[c] = "gap"
<1>1. pc[c] = "gap" /\ pc'[c] = "request" /\ pc \in [Caller -> {"lock", "gap", "request", "backoff", "ok", "err"}]
  BY DEF Admitted, PoliteInv
<1>2. PICK d \in Caller : Step(d)
  BY <1>1 DEF Next, Tick, vars
<1>3. d = c
  BY <1>1, <1>2 DEF Step, Lock, Admit, Answered, Retry, Throttled, Goto
<1>4. Admit(c)
  BY <1>1, <1>2, <1>3 DEF Step, Lock, Answered, Retry, Throttled
<1>5. QED
  BY <1>1, <1>4 DEF Admit

\* All requests that share the client are at least the gap apart, retries included, as
\* the lock is held through the sleep (polite_http.rs:134-146).
THEOREM GapIsKept == Spec => GapKept
<1>1. PoliteInv /\ [Next]_vars => \A c \in Caller : Admitted(c) => recent = 0
  <2> SUFFICES ASSUME PoliteInv, [Next]_vars, NEW c \in Caller, Admitted(c) PROVE recent = 0
    OBVIOUS
  <2>1. left[c] = 0 /\ recent <= left[c] /\ recent \in Nat
    BY OnlyAdmit DEF PoliteInv
  <2>2. QED
    BY <2>1
<1>2. QED
  BY <1>1, PoliteHolds, PTL DEF Spec, GapKept

\* No caller asks again before the wait the server asked for is over, hint or backoff,
\* within the cap (polite_http.rs:112-133).
THEOREM ServerHeard == Spec => ServerIsHeard
<1>1. PoliteInv /\ [Next]_vars => \A c \in Caller : Admitted(c) => owed[c] = 0
  BY OnlyAdmit DEF PoliteInv
<1>2. QED
  BY <1>1, PoliteHolds, PTL DEF Spec, ServerIsHeard

-----------------------------------------------------------------------------
(* The bucket: its total rate and the longest wait it asks for, for every  *)
(* rate, burst, number of publishers and length of time.                   *)
(*                                                                         *)
(* last - tokens is the time at which the bucket would have been empty.    *)
(* Every reservation moves it on by at least Cost, whatever the refill is  *)
(* capped at, and no release is earlier than it.  It is ahead of a time to *)
(* come by no more than the releases after that time cost.                 *)

\* The releases s from any one on cost no more than the bucket and the time from
\* that release to e, when the bucket is empty.
Covered(s, e) ==
  \A i \in 1..Len(s) : (Len(s) - i + 1) * Cost <= Burst + e - s[i]

\* TotalRateHolds of a sequence of releases.
Paced(s) ==
  \A i, j \in 1..Len(s) : i <= j => (j - i + 1) * Cost <= Burst + (s[j] - s[i])

PaceInv ==
  /\ now \in Int /\ last \in Int /\ tokens \in Int /\ last <= now /\ tokens <= Burst
  /\ release \in [Publisher -> Int]
  /\ reserved \in Seq(Int)
  /\ Covered(reserved, last - tokens)
  /\ Paced(reserved)

-----------------------------------------------------------------------------
(* A sequence of releases and one more.                                    *)

\* One reservation more costs Cost more.
LEMMA OneMore ==
  ASSUME NEW k \in Int
  PROVE  k * Cost \in Int /\ (k + 1) * Cost = k * Cost + Cost /\ 1 * Cost = Cost
BY RatesNat

\* The new release r is not before the empty time f, which has moved on by Cost.
LEMMA OneMoreCovered ==
  ASSUME NEW s \in Seq(Int), NEW e \in Int, NEW f \in Int, NEW r \in Int,
         Covered(s, e), f >= e + Cost, Cost <= Burst + f - r
  PROVE  Covered(Append(s, r), f)
<1> DEFINE n == Len(s)
           t == Append(s, r)
<1>1. /\ n \in Nat /\ Len(t) = n + 1 /\ t[n + 1] = r
      /\ \A i \in 1..n : t[i] = s[i] /\ s[i] \in Int
  OBVIOUS
<1> SUFFICES ASSUME NEW i \in 1..(n + 1)
             PROVE  (n + 1 - i + 1) * Cost <= Burst + f - t[i]
  BY <1>1 DEF Covered
<1>2. CASE i \in 1..n
  <2> DEFINE debt == (n - i + 1) * Cost
             more == (n + 1 - i + 1) * Cost
  <2>1. debt \in Int /\ more = debt + Cost
    <3>1. n - i + 1 \in Int /\ n + 1 - i + 1 = (n - i + 1) + 1
      BY <1>1
    <3>2. QED
      BY <3>1, OneMore
  <2>2. debt <= Burst + e - s[i]
    BY <1>2 DEF Covered
  <2> HIDE DEF debt, more
  <2>3. more <= Burst + f - s[i]
    BY <1>1, <1>2, <2>1, <2>2, RatesNat
  <2>4. QED
    BY <1>1, <1>2, <2>3 DEF more
<1>3. CASE i = n + 1
  <2>1. n + 1 - i + 1 = 1
    BY <1>1, <1>3
  <2>2. (n + 1 - i + 1) * Cost = Cost
    BY <2>1, OneMore
  <2> HIDE DEF n, t
  <2>3. QED
    BY <1>1, <1>3, <2>2, RatesNat
<1>4. QED
  BY <1>1, <1>2, <1>3

\* A window that ends with the new release, and those that do not.
LEMMA OneMorePaced ==
  ASSUME NEW s \in Seq(Int), NEW f \in Int, NEW r \in Int,
         Paced(s), Covered(Append(s, r), f), r >= f
  PROVE  Paced(Append(s, r))
<1> DEFINE n == Len(s)
           t == Append(s, r)
<1>1. /\ n \in Nat /\ Len(t) = n + 1 /\ t[n + 1] = r
      /\ \A i \in 1..n : t[i] = s[i]
      /\ \A i \in 1..(n + 1) : t[i] \in Int
  OBVIOUS
<1> SUFFICES ASSUME NEW i \in 1..(n + 1), NEW j \in 1..(n + 1), i <= j
             PROVE  (j - i + 1) * Cost <= Burst + (t[j] - t[i])
  BY <1>1 DEF Paced
<1>2. CASE j \in 1..n
  <2>1. i \in 1..n
    BY <1>1, <1>2
  <2>2. (j - i + 1) * Cost <= Burst + (s[j] - s[i])
    BY <1>2, <2>1 DEF Paced
  <2>3. QED
    BY <1>1, <1>2, <2>1, <2>2
<1>3. CASE j = n + 1
  <2> DEFINE worth == (j - i + 1) * Cost
  <2>1. worth \in Int
    BY <1>1, OneMore
  <2>2. worth <= Burst + f - t[i]
    BY <1>1, <1>3 DEF Covered
  <2>3. t[i] \in Int /\ t[j] = r
    BY <1>1, <1>3
  <2> HIDE DEF worth, t
  <2>4. worth <= Burst + (t[j] - t[i])
    BY <2>1, <2>2, <2>3, RatesNat
  <2>5. QED
    BY <2>4 DEF worth
<1>4. QED
  BY <1>1, <1>2, <1>3

-----------------------------------------------------------------------------
(* The steps.                                                              *)

\* When a publisher whose reservation leaves k in the bucket may send.
ReleaseAt(k, t) == IF k >= 0 THEN t ELSE t - k

\* The bucket before and after a reservation made at time t: the empty time moves
\* on by at least Cost, and the release lies between it and the depth of the bucket.
LEMMA Reserve ==
  ASSUME NEW t \in Int, NEW l \in Int, NEW k \in Int, l <= t,
         NEW k2 \in Int, NEW r \in Int,
         k2 = Capped(k + (t - l)) - Cost,
         r = ReleaseAt(k2, t)
  PROVE  /\ k2 <= Burst /\ l - k \in Int /\ t - k2 \in Int
         /\ t - k2 >= (l - k) + Cost /\ r >= t - k2
         /\ Cost <= Burst + (t - k2) - r
BY RatesNat DEF Capped, ReleaseAt

\* Take keeps the invariant.
LEMMA TakeInv ==
  ASSUME PaceInv, NEW p \in Publisher, Take(p)
  PROVE  PaceInv'
<1> DEFINE r == ReleaseAt(tokens', now)
<1>1. now \in Int /\ last \in Int /\ tokens \in Int /\ last <= now
  BY DEF PaceInv
<1>2. tokens' = Capped(tokens + (now - last)) - Cost /\ last' = now /\ now' = now
  BY DEF Take, Refilled
<1>3. tokens' \in Int /\ r \in Int
  BY <1>1, <1>2, RatesNat DEF Capped, ReleaseAt
<1>4. release' = [release EXCEPT ![p] = r] /\ reserved' = Append(reserved, r)
  BY DEF Take, PaceInv, ReleaseAt
<1> HIDE DEF r
<1>5. /\ tokens' <= Burst /\ last - tokens \in Int /\ now - tokens' \in Int
      /\ now - tokens' >= (last - tokens) + Cost /\ r >= now - tokens'
      /\ Cost <= Burst + (now - tokens') - r
  <2>1. r = ReleaseAt(tokens', now)
    BY DEF r
  <2>2. QED
    BY <1>1, <1>2, <1>3, <2>1, Reserve, Zenon
<1>6. reserved \in Seq(Int) /\ Covered(reserved, last - tokens) /\ Paced(reserved)
  BY DEF PaceInv
<1>7. Covered(Append(reserved, r), now - tokens')
  BY <1>3, <1>5, <1>6, OneMoreCovered, Zenon
<1>8. Paced(Append(reserved, r))
  BY <1>3, <1>5, <1>6, <1>7, OneMorePaced, Zenon
<1>9. Covered(reserved', last' - tokens') /\ Paced(reserved')
  BY <1>2, <1>4, <1>7, <1>8, Zenon
<1>10. reserved' \in Seq(Int) /\ release' \in [Publisher -> Int]
  BY <1>3, <1>4, <1>6 DEF PaceInv
<1>11. last' \in Int /\ now' \in Int /\ last' <= now'
  BY <1>1, <1>2
<1>12. QED
  BY <1>3, <1>5, <1>9, <1>10, <1>11, Zenon DEF PaceInv

\* The bucket starts full and nothing is reserved.
LEMMA PaceInit == BucketInit => PaceInv
BY RatesNat DEF BucketInit, PaceInv, Covered, Paced

\* Sending and the clock change neither the reservations nor the empty time.
LEMMA PaceStep == PaceInv /\ [BucketNext]_bucketVars => PaceInv'
<1> SUFFICES ASSUME PaceInv, [BucketNext]_bucketVars PROVE PaceInv'
  OBVIOUS
<1>1. CASE \E p \in Publisher : Take(p)
  BY <1>1, TakeInv
<1>2. ASSUME NEW p \in Publisher, Send(p) PROVE PaceInv'
  BY <1>2 DEF Send, PaceInv, Covered, Paced
<1>3. CASE Pass
  BY <1>3 DEF Pass, PaceInv, Covered, Paced
<1>4. CASE UNCHANGED bucketVars
  BY <1>4 DEF bucketVars, PaceInv, Covered, Paced
<1>5. QED
  BY <1>1, <1>2, <1>3, <1>4 DEF BucketNext

\* Any window of time holds releases for no more than one burst and the refill of
\* the window, for every number of publishers, rate, burst and horizon.
THEOREM TotalRate == BucketSpec => []TotalRateHolds
<1>1. PaceInv => TotalRateHolds
  <2>1. PaceInv => Paced(reserved) /\ DOMAIN reserved = 1..Len(reserved)
    BY DEF PaceInv
  <2>2. QED
    BY <2>1, Zenon DEF Paced, TotalRateHolds
<1>2. QED
  BY <1>1, PaceInit, PaceStep, PTL DEF BucketSpec

-----------------------------------------------------------------------------
(* The longest wait.                                                       *)

\* The publishers that are held beyond t.
HeldBeyond(t) == {p \in Publisher : release[p] > t}

\* The reservations ahead of a time to come are those of publishers that are still
\* held then, and a publisher is held no longer than everything that is reserved.
WaitInv ==
  /\ now \in Nat
  /\ \A t \in Int : t >= now => (last - tokens) - t <= Cardinality(HeldBeyond(t)) * Cost
  /\ \A p \in Publisher : release[p] <= now \/ release[p] <= last - tokens

\* Any of them are finitely many, and cost no more than all of them.
LEMMA HeldFinite ==
  ASSUME NEW P \in SUBSET Publisher
  PROVE  /\ Cardinality(P) \in Nat /\ Cardinality(Publisher) \in Nat
         /\ 0 <= Cardinality(P) * Cost
         /\ Cardinality(P) * Cost <= Cardinality(Publisher) * Cost
<1>1. IsFiniteSet(P) /\ Cardinality(P) <= Cardinality(Publisher)
  BY PublishersFinite, FS_Subset
<1>2. Cardinality(P) \in Nat /\ Cardinality(Publisher) \in Nat
  BY <1>1, PublishersFinite, FS_CardinalityType
<1>3. ASSUME NEW m \in Nat, NEW n \in Nat, m <= n PROVE 0 <= m * Cost /\ m * Cost <= n * Cost
  BY <1>3, RatesNat
<1>4. QED
  BY <1>1, <1>2, <1>3

\* One that was not held and is, is one more.
LEMMA OneMoreHeld ==
  ASSUME NEW P \in SUBSET Publisher, NEW p \in Publisher, p \notin P
  PROVE  Cardinality(P \cup {p}) * Cost = Cardinality(P) * Cost + Cost
<1>1. IsFiniteSet(P)
  BY PublishersFinite, FS_Subset
<1>2. Cardinality(P \cup {p}) = Cardinality(P) + 1 /\ Cardinality(P) \in Nat
  BY <1>1, FS_AddElement, FS_CardinalityType
<1>3. QED
  BY <1>2, OneMore

\* A reservation beyond t is made by a publisher that was not held and now is.
LEMMA TakeWait ==
  ASSUME PaceInv, WaitInv, NEW p \in Publisher, Take(p)
  PROVE  WaitInv'
<1>1. /\ now \in Nat /\ last \in Int /\ tokens \in Int /\ last <= now
      /\ release \in [Publisher -> Int] /\ release[p] = -1
  BY DEF PaceInv, WaitInv, Take
<1>2. /\ last' = now /\ now' = now /\ tokens' = Capped(tokens + (now - last)) - Cost
      /\ release' = [release EXCEPT ![p] = IF tokens' >= 0 THEN now ELSE now - tokens']
  BY DEF Take, Refilled
<1>3. tokens' \in Int /\ now - tokens' >= last - tokens /\ Burst >= Cost /\ Cost \in Nat
  BY <1>1, <1>2, RatesNat DEF Capped
<1>4. ASSUME NEW t \in Int, t >= now'
      PROVE  (last' - tokens') - t <= Cardinality(HeldBeyond(t)') * Cost
  <2>1. CASE now - tokens' <= t
    <3>1. 0 <= Cardinality(HeldBeyond(t)') * Cost /\ Cardinality(HeldBeyond(t)') \in Nat
      BY HeldFinite DEF HeldBeyond
    <3>2. Cardinality(HeldBeyond(t)') * Cost \in Int
      BY <3>1, OneMore
    <3>3. QED
      BY <1>1, <1>2, <1>3, <2>1, <3>1, <3>2
  <2>2. CASE now - tokens' > t
    <3>1. tokens' < 0 /\ tokens' = tokens + (now - last) - Cost
      BY <1>1, <1>2, <1>3, <1>4, <2>2, RatesNat DEF Capped
    <3>2. release'[p] = now - tokens' /\ \A q \in Publisher \ {p} : release'[q] = release[q]
      BY <1>1, <1>2, <1>3, <3>1
    <3>3. HeldBeyond(t)' = HeldBeyond(t) \cup {p} /\ p \notin HeldBeyond(t)
      BY <1>1, <1>2, <1>4, <2>2, <3>2 DEF HeldBeyond
    <3>4. Cardinality(HeldBeyond(t)') * Cost = Cardinality(HeldBeyond(t)) * Cost + Cost
      BY <3>3, OneMoreHeld DEF HeldBeyond
    <3>5. (last - tokens) - t <= Cardinality(HeldBeyond(t)) * Cost
      BY <1>2, <1>4 DEF WaitInv
    <3>6. Cardinality(HeldBeyond(t)) * Cost \in Int
      BY HeldFinite, OneMore DEF HeldBeyond
    <3>7. QED
      BY <1>1, <1>2, <1>3, <3>1, <3>4, <3>5, <3>6
  <2>3. now - tokens' <= t \/ now - tokens' > t
    <3>1. now - tokens' \in Int
      BY <1>1, <1>3
    <3>2. \A m, n \in Int : m <= n \/ m > n
      OBVIOUS
    <3>3. QED
      BY <3>1, <3>2, <1>4
  <2>4. QED
    BY <2>1, <2>2, <2>3, Zenon
<1>5. \A q \in Publisher : release'[q] <= now' \/ release'[q] <= last' - tokens'
  BY <1>1, <1>2, <1>3 DEF WaitInv
<1>6. QED
  BY <1>1, <1>2, <1>4, <1>5 DEF WaitInv

\* A publisher that sends is held beyond no time to come.
LEMMA SendWait ==
  ASSUME PaceInv, WaitInv, NEW p \in Publisher, Send(p)
  PROVE  WaitInv'
<1>1. /\ release \in [Publisher -> Int] /\ release[p] \in 0..now /\ now \in Nat
      /\ release' = [release EXCEPT ![p] = -1] /\ UNCHANGED <<now, tokens, last>>
  BY DEF PaceInv, WaitInv, Send
<1>2. \A t \in Int : t >= now => HeldBeyond(t)' = HeldBeyond(t)
  BY <1>1 DEF HeldBeyond
<1>3. QED
  BY <1>1, <1>2 DEF WaitInv

LEMMA WaitStep == PaceInv /\ WaitInv /\ [BucketNext]_bucketVars => WaitInv'
<1> SUFFICES ASSUME PaceInv, WaitInv, [BucketNext]_bucketVars PROVE WaitInv'
  OBVIOUS
<1>1. CASE Pass
  <2>1. now' \in Nat /\ now' >= now /\ UNCHANGED <<tokens, last, release>> /\ now \in Nat
    BY <1>1 DEF Pass, WaitInv
  <2>2. \A t \in Int : HeldBeyond(t)' = HeldBeyond(t) /\ (t >= now' => t >= now)
    BY <2>1 DEF HeldBeyond
  <2>3. \A p \in Publisher : release'[p] <= now' \/ release'[p] <= last' - tokens'
    BY <2>1 DEF PaceInv, WaitInv
  <2>4. QED
    BY <2>1, <2>2, <2>3 DEF WaitInv
<1>2. CASE UNCHANGED bucketVars
  BY <1>2 DEF bucketVars, WaitInv, HeldBeyond
<1>3. QED
  BY <1>1, <1>2, TakeWait, SendWait DEF BucketNext

\* No publisher is asked to wait longer than one record of every publisher costs
\* (message_queue.rs:60-88), for every number of publishers, rate and burst.
THEOREM FairWait == BucketSpec => []WaitIsFair
<1>1. BucketInit => WaitInv
  <2> SUFFICES ASSUME BucketInit PROVE WaitInv
    OBVIOUS
  <2>1. ASSUME NEW t \in Int, t >= now
        PROVE  (last - tokens) - t <= Cardinality(HeldBeyond(t)) * Cost
    <3>1. 0 <= Cardinality(HeldBeyond(t)) * Cost /\ Cardinality(HeldBeyond(t)) * Cost \in Int
      BY HeldFinite, OneMore DEF HeldBeyond
    <3>2. QED
      BY <2>1, <3>1, RatesNat DEF BucketInit
  <2>2. QED
    BY <2>1 DEF BucketInit, WaitInv
<1>2. PaceInv /\ WaitInv => WaitIsFair
  <2> SUFFICES ASSUME PaceInv, WaitInv, NEW p \in Publisher
               PROVE  release[p] - now <= Cardinality(Publisher) * Cost
    BY DEF WaitIsFair
  <2>1. /\ 0 <= Cardinality(HeldBeyond(now)) * Cost
        /\ Cardinality(HeldBeyond(now)) * Cost <= Cardinality(Publisher) * Cost
        /\ Cardinality(HeldBeyond(now)) * Cost \in Int /\ Cardinality(Publisher) * Cost \in Int
    <3>1. HeldBeyond(now) \in SUBSET Publisher
      BY DEF HeldBeyond
    <3>2. Cardinality(HeldBeyond(now)) \in Nat /\ Cardinality(Publisher) \in Nat
      BY <3>1, HeldFinite
    <3>3. /\ Cardinality(HeldBeyond(now)) * Cost \in Int
          /\ Cardinality(Publisher) * Cost \in Int
      BY <3>2, OneMore
    <3>4. QED
      BY <3>1, <3>3, HeldFinite, Zenon
  <2>2. (last - tokens) - now <= Cardinality(HeldBeyond(now)) * Cost
    BY DEF WaitInv
  <2>3. release[p] \in Int /\ (release[p] <= now \/ release[p] <= last - tokens)
    BY DEF PaceInv, WaitInv
  <2>4. now \in Int /\ last \in Int /\ tokens \in Int
    BY DEF PaceInv
  <2>5. QED
    BY <2>1, <2>2, <2>3, <2>4
<1>3. QED
  BY <1>1, <1>2, PaceInit, PaceStep, WaitStep, PTL DEF BucketSpec

-----------------------------------------------------------------------------
(* The loop of the service: what /health says while it sleeps and what a   *)
(* failed process means, whatever the trigger handler, the signal handler  *)
(* and the shutdown monitor do, without any assumption of fairness.        *)

\* The status of the last attempt, until the loop settles.
Attempted == IF lastOk THEN "completed" ELSE "failed"

\* A run that found the shutdown flag set leaves the status of the run before it: the
\* status and the last attempt agree except when the flag is up, and then the loop
\* ends at its next poll of the flag, before it sleeps.
StatusInv ==
  /\ lastOk \in BOOLEAN /\ failing \in BOOLEAN /\ flag \in BOOLEAN
  /\ main = "outcome" => (flag /\ failing) \/ status = IF failing THEN "failed" ELSE "completed"
  /\ main = "top" => flag \/ status = Attempted
  /\ main = "settle" => status = Attempted
  /\ main \in {"select", "parked"} => status = IF lastOk THEN "waiting" ELSE "failed"

LEMMA StatusInit == ServiceInit => StatusInv
BY DEF ServiceInit, StatusInv

\* The other actors raise the flag and never lower it; they leave the status alone.
LEMMA OthersKeepStatus ==
  ASSUME StatusInv,
         (\E f \in BOOLEAN : TriggerHandler(f)) \/ Signal \/ MonitorParks \/ MonitorStores
  PROVE  StatusInv'
<1>1. UNCHANGED <<main, failing, status, lastOk>> /\ flag' \in {flag, TRUE}
  BY DEF TriggerHandler, Signal, MonitorParks, MonitorStores, loopVars
<1>2. flag => flag'
  BY <1>1
<1>3. QED
  BY <1>1, <1>2 DEF StatusInv, Attempted

LEMMA RunKeepsStatus ==
  ASSUME StatusInv,
         \/ Created \/ CreateFails \/ Guard \/ ResetProgress
         \/ (\E ok \in BOOLEAN : RunShort(ok)) \/ RunJoined \/ RunErr \/ RecordStatus \/ Outcome
  PROVE  StatusInv'
<1>1. CASE Created \/ ResetProgress
  <2>1. UNCHANGED <<failing, lastOk, flag>> /\ main' \in {"guard", "run"}
    BY <1>1 DEF Created, ResetProgress, otherVars
  <2>2. QED
    BY <2>1 DEF StatusInv
<1>2. CASE CreateFails \/ RunErr
  <2>1. /\ UNCHANGED <<failing, flag>> /\ lastOk' = FALSE
        /\ main' = "failed" \/ (main' = "top" /\ status' = "failed")
    BY <1>2 DEF CreateFails, RunErr, otherVars
  <2>2. QED
    BY <2>1 DEF StatusInv, Attempted
<1>3. CASE Guard
  <2>1. /\ UNCHANGED <<lastOk, flag>>
        /\ (main' = "outcome" /\ flag /\ failing' = TRUE) \/ (main' = "reset" /\ failing' = FALSE)
    BY <1>3 DEF Guard, otherVars
  <2>2. QED
    BY <2>1 DEF StatusInv
<1>4. CASE (\E ok \in BOOLEAN : RunShort(ok)) \/ RunJoined
  <2>1. UNCHANGED <<lastOk, flag>> /\ main' = "record" /\ failing' \in BOOLEAN
    BY <1>4 DEF RunShort, RunJoined, otherVars, StatusInv
  <2>2. QED
    BY <2>1 DEF StatusInv
<1>5. CASE RecordStatus
  <2>1. /\ UNCHANGED <<failing, lastOk, flag>> /\ main' = "outcome"
        /\ status' = IF failing THEN "failed" ELSE "completed"
    BY <1>5 DEF RecordStatus, otherVars
  <2>2. QED
    BY <2>1 DEF StatusInv
<1>6. CASE Outcome
  <2>1. /\ UNCHANGED <<failing, status, flag>> /\ main = "outcome"
        /\ lastOk' = ~ failing /\ main' \in {"failed", "exited", "top"}
    BY <1>6 DEF Outcome, otherVars
  <2>2. flag \/ status = IF failing THEN "failed" ELSE "completed"
    BY <2>1 DEF StatusInv
  <2>3. flag' \/ status' = IF lastOk' THEN "completed" ELSE "failed"
    BY <2>1, <2>2 DEF StatusInv
  <2>4. QED
    BY <2>1, <2>3 DEF StatusInv, Attempted
<1>7. QED
  BY <1>1, <1>2, <1>3, <1>4, <1>5, <1>6

LEMMA SleepKeepsStatus ==
  ASSUME StatusInv, Top \/ Settle \/ Park \/ SleepElapsed \/ TakeTrigger \/ ShutdownArm
  PROVE  StatusInv'
<1>1. CASE Top
  <2>1. /\ UNCHANGED <<failing, status, lastOk, flag>> /\ main = "top"
        /\ main' = "exited" \/ (main' = "settle" /\ ~ flag)
    BY <1>1 DEF Top, otherVars
  <2>2. QED
    BY <2>1 DEF StatusInv, Attempted
<1>2. CASE Settle
  <2>1. /\ UNCHANGED <<failing, lastOk, flag>> /\ main = "settle" /\ main' = "select"
        /\ status' = IF status = "completed" THEN "waiting" ELSE status
    BY <1>2 DEF Settle, otherVars
  <2>2. QED
    BY <2>1 DEF StatusInv, Attempted
<1>3. CASE Park
  <2>1. /\ UNCHANGED <<failing, status, lastOk, flag>> /\ main = "select" /\ main' = "parked"
    BY <1>3 DEF Park, otherVars
  <2>2. QED
    BY <2>1 DEF StatusInv
<1>4. CASE SleepElapsed \/ TakeTrigger \/ ShutdownArm
  <2>1. UNCHANGED <<failing, lastOk, flag>> /\ main' \in {"create", "exited"}
    BY <1>4 DEF SleepElapsed, TakeTrigger, ShutdownArm, otherVars
  <2>2. QED
    BY <2>1 DEF StatusInv
<1>5. QED
  BY <1>1, <1>2, <1>3, <1>4

LEMMA StatusHolds == ServiceSpec => []StatusInv
<1>1. ASSUME StatusInv, [ServiceNext]_serviceVars PROVE StatusInv'
  <2>1. CASE UNCHANGED serviceVars
    <3>1. UNCHANGED <<main, failing, status, lastOk, flag>>
      BY <2>1 DEF serviceVars, loopVars
    <3>2. QED
      BY <1>1, <3>1 DEF StatusInv, Attempted
  <2>2. QED
    BY <1>1, <2>1, OthersKeepStatus, RunKeepsStatus, SleepKeepsStatus DEF ServiceNext, Loop, LoopStep
<1>2. QED
  BY <1>1, StatusInit, PTL DEF ServiceSpec

\* While it sleeps the service tells how the last attempt ended, whichever early return
\* that attempt took and whenever the shutdown flag went up (runtime.rs:270-284,
\* mod.rs:816-825).
THEOREM ParkedTellsTheTruth == ServiceSpec => []ParkedStatusIsTruthful
<1>1. StatusInv => ParkedStatusIsTruthful
  BY DEF StatusInv, ParkedStatusIsTruthful
<1>2. QED
  BY <1>1, StatusHolds, PTL

\* Of the runs that ended, only a failed initial one that no shutdown interrupted makes
\* the process fail (runtime.rs:303-324).
THEOREM OnlyFailureFails == ServiceSpec => FailureExitIsFailure
<1>1. ASSUME [ServiceNext]_serviceVars, main' = "failed", main = "outcome"
      PROVE  ~ flag /\ kind = "initial"
  <2>1. Outcome
    BY <1>1 DEF ServiceNext, Loop, LoopStep, Created, CreateFails, Guard, ResetProgress, RunShort, RunJoined,
                RunErr, RecordStatus, Top, Settle, Park, SleepElapsed, TakeTrigger, ShutdownArm,
                TriggerHandler, Signal, MonitorParks, MonitorStores, serviceVars, loopVars
  <2>2. QED
    BY <1>1, <2>1 DEF Outcome
<1>2. QED
  BY <1>1, PTL DEF ServiceSpec, FailureExitIsFailure
=============================================================================
