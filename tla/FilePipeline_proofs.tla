------------------------- MODULE FilePipeline_proofs ------------------------
(***************************************************************************)
(* The pipeline of one file delivers what the rules keep, in file order,   *)
(* for every length of the file, size of the channels and of the batches   *)
(* and number of faults, with and without rules.                           *)
(*                                                                         *)
(* Every stage has two positions in the file: got, up to which it has      *)
(* received records, and sent, up to which it has passed them on.  What it *)
(* holds is the records kept between the two, and what its input holds is  *)
(* the records between its own got and the sent of the stage before it,    *)
(* unless it has ended.  A stage that ended well has passed on all that    *)
(* the one before it, ended as well, had sent; or some stage has failed.   *)
(***************************************************************************)
EXTENDS FilePipeline, FunctionTheorems, FiniteSetTheorems, TLAPS

-----------------------------------------------------------------------------
(* Sequences that span an interval of positions.                           *)

\* Nothing is left between two positions.
LEMMA SpansEmpty ==
  ASSUME NEW lo \in Nat, NEW hi \in Nat, NEW K \in SUBSET Nat
  PROVE  Spans(<<>>, lo, hi, K) <=> \A r \in K : ~ (lo < r /\ r <= hi)
BY DEF Spans

\* The first record, and the others.
LEMMA SpansHead ==
  ASSUME NEW q \in Seq(Nat), NEW lo \in Nat, NEW hi \in Nat, NEW K \in SUBSET Nat,
         Spans(q, lo, hi, K), q # <<>>
  PROVE  /\ Head(q) \in K /\ lo < Head(q) /\ Head(q) <= hi
         /\ \A r \in K : lo < r => r >= Head(q)
         /\ Tail(q) \in Seq(Nat) /\ Spans(Tail(q), Head(q), hi, K)
<1> DEFINE t == Tail(q)
<1>1. /\ Len(q) \in Nat /\ Len(q) >= 1 /\ DOMAIN q = 1..Len(q) /\ Head(q) = q[1]
      /\ t \in Seq(Nat) /\ DOMAIN t = 1..(Len(q) - 1)
      /\ \A i \in 1..(Len(q) - 1) : t[i] = q[i + 1]
      /\ \A i \in 1..Len(q) : q[i] \in Nat
  OBVIOUS
<1>2. /\ \A i \in 1..Len(q) : q[i] \in K /\ lo < q[i] /\ q[i] <= hi
      /\ \A i, j \in 1..Len(q) : i < j => q[i] < q[j]
      /\ \A r \in K : lo < r /\ r <= hi => \E i \in 1..Len(q) : q[i] = r
  BY <1>1 DEF Spans
<1> HIDE DEF t
<1>3. Head(q) \in K /\ lo < Head(q) /\ Head(q) <= hi /\ \A i \in 1..Len(q) : q[i] >= Head(q)
  <2>1. 1 \in 1..Len(q) /\ Head(q) \in Nat
    BY <1>1
  <2>2. ASSUME NEW i \in 1..Len(q) PROVE i = 1 \/ q[1] < q[i]
    BY <1>2, <2>1
  <2>3. QED
    BY <1>1, <1>2, <2>1, <2>2
<1>4. \A r \in K : lo < r => r >= Head(q)
  BY <1>1, <1>2, <1>3
<1>5. /\ \A i \in DOMAIN t : t[i] \in K /\ Head(q) < t[i] /\ t[i] <= hi
      /\ \A i, j \in DOMAIN t : i < j => t[i] < t[j]
  <2>1. ASSUME NEW i \in 1..(Len(q) - 1)
        PROVE  i \in Nat /\ 1 \in 1..Len(q) /\ i + 1 \in 1..Len(q) /\ 1 < i + 1
    BY <1>1
  <2>2. \A i \in DOMAIN t : t[i] \in K /\ Head(q) < t[i] /\ t[i] <= hi
    BY <1>1, <1>2, <2>1
  <2>3. ASSUME NEW i \in DOMAIN t, NEW j \in DOMAIN t, i < j PROVE t[i] < t[j]
    <3>1. i \in 1..(Len(q) - 1) /\ j \in 1..(Len(q) - 1)
      BY <1>1, <2>3
    <3>2. t[i] = q[i + 1] /\ t[j] = q[j + 1]
      BY <1>1, <3>1
    <3>3. i + 1 \in 1..Len(q) /\ j + 1 \in 1..Len(q) /\ i + 1 < j + 1
      BY <2>1, <2>3, <3>1
    <3>4. QED
      BY <1>2, <3>2, <3>3
  <2>4. QED
    BY <2>2, <2>3
<1>6. ASSUME NEW r \in K, Head(q) < r, r <= hi PROVE \E i \in DOMAIN t : t[i] = r
  <2>1. PICK i \in 1..Len(q) : q[i] = r
    BY <1>1, <1>2, <1>3, <1>6
  <2>2. i # 1 /\ i - 1 \in 1..(Len(q) - 1) /\ t[i - 1] = q[i]
    BY <1>1, <1>6, <2>1
  <2>3. QED
    BY <1>1, <2>1, <2>2
<1>7. Spans(t, Head(q), hi, K)
  BY <1>5, <1>6 DEF Spans
<1>8. QED
  BY <1>1, <1>3, <1>4, <1>7 DEF t

\* Two intervals that meet.
LEMMA SpansJoin ==
  ASSUME NEW q \in Seq(Nat), NEW t \in Seq(Nat), NEW K \in SUBSET Nat,
         NEW lo \in Nat, NEW mid \in Nat, NEW hi \in Nat, lo <= mid, mid <= hi,
         Spans(q, lo, mid, K), Spans(t, mid, hi, K)
  PROVE  q \o t \in Seq(Nat) /\ Spans(q \o t, lo, hi, K)
<1> DEFINE m == Len(q)
           n == Len(t)
           u == q \o t
<1>1. /\ m \in Nat /\ n \in Nat /\ DOMAIN q = 1..m /\ DOMAIN t = 1..n /\ DOMAIN u = 1..(m + n)
      /\ u \in Seq(Nat)
      /\ \A i \in 1..m : u[i] = q[i] /\ q[i] \in Nat
      /\ \A i \in 1..n : u[m + i] = t[i] /\ t[i] \in Nat
  OBVIOUS
<1>2. /\ \A i \in 1..m : q[i] \in K /\ lo < q[i] /\ q[i] <= mid
      /\ \A i, j \in 1..m : i < j => q[i] < q[j]
      /\ \A r \in K : lo < r /\ r <= mid => \E i \in 1..m : q[i] = r
  BY <1>1 DEF Spans
<1>3. /\ \A i \in 1..n : t[i] \in K /\ mid < t[i] /\ t[i] <= hi
      /\ \A i, j \in 1..n : i < j => t[i] < t[j]
      /\ \A r \in K : mid < r /\ r <= hi => \E i \in 1..n : t[i] = r
  BY <1>1 DEF Spans
<1> HIDE DEF m, n, u
<1>4. \A i \in 1..(m + n) : i \in 1..m \/ (i - m \in 1..n /\ u[i] = t[i - m])
  BY <1>1
<1>5. \A i \in DOMAIN u : u[i] \in K /\ lo < u[i] /\ u[i] <= hi
  BY <1>1, <1>2, <1>3, <1>4
<1>6. ASSUME NEW r \in K, lo < r, r <= hi PROVE \E i \in DOMAIN u : u[i] = r
  <2>1. CASE r <= mid
    <3>1. PICK i \in 1..m : q[i] = r
      BY <1>2, <1>6, <2>1
    <3>2. i \in 1..(m + n) /\ u[i] = r
      BY <1>1, <3>1
    <3>3. QED
      BY <1>1, <3>2
  <2>2. CASE r > mid
    <3>1. PICK i \in 1..n : t[i] = r
      BY <1>3, <1>6, <2>2
    <3>2. m + i \in 1..(m + n) /\ u[m + i] = r
      BY <1>1, <3>1
    <3>3. QED
      BY <1>1, <3>2
  <2>3. QED
    BY <2>1, <2>2
<1>7. ASSUME NEW i \in DOMAIN u, NEW j \in DOMAIN u, i < j PROVE u[i] < u[j]
  <2>1. CASE j \in 1..m
    BY <1>1, <1>2, <1>7, <2>1
  <2>2. CASE i \notin 1..m
    <3>1. i - m \in 1..n /\ u[i] = t[i - m] /\ i > m
      BY <1>1, <1>4, <1>7, <2>2
    <3>2. i \in 1..(m + n) /\ j \in 1..(m + n)
      BY <1>1, <1>7
    <3>3. j \notin 1..m /\ i - m < j - m
      BY <1>1, <1>7, <3>1, <3>2
    <3>4. j - m \in 1..n /\ u[j] = t[j - m]
      BY <1>4, <3>2, <3>3
    <3>5. QED
      BY <1>3, <3>1, <3>3, <3>4
  <2>3. CASE i \in 1..m /\ j \notin 1..m
    <3>1. u[i] = q[i] /\ j - m \in 1..n /\ u[j] = t[j - m]
      BY <1>1, <1>4, <1>7, <2>3
    <3>2. u[i] <= mid /\ mid < u[j] /\ u[i] \in Nat /\ u[j] \in Nat
      BY <1>1, <1>2, <1>3, <2>3, <3>1
    <3>3. QED
      BY <3>2
  <2>4. QED
    BY <2>1, <2>2, <2>3
<1>8. Spans(u, lo, hi, K)
  BY <1>5, <1>6, <1>7 DEF Spans
<1>9. QED
  BY <1>1, <1>8 DEF u

\* One record more, when nothing is left before it.
LEMMA SpansOne ==
  ASSUME NEW lo \in Nat, NEW r \in Nat, NEW K \in SUBSET Nat, r \in K, lo < r,
         \A s \in K : lo < s => s >= r
  PROVE  <<r>> \in Seq(Nat) /\ Spans(<<r>>, lo, r, K)
BY DEF Spans

LEMMA SpansAppend ==
  ASSUME NEW q \in Seq(Nat), NEW lo \in Nat, NEW hi \in Nat, NEW r \in Nat,
         NEW K \in SUBSET Nat, Spans(q, lo, hi, K), lo <= hi, hi < r, r \in K,
         \A s \in K : hi < s => s >= r
  PROVE  Append(q, r) \in Seq(Nat) /\ Spans(Append(q, r), lo, r, K)
<1>1. Append(q, r) = q \o <<r>>
  OBVIOUS
<1>2. <<r>> \in Seq(Nat) /\ Spans(<<r>>, hi, r, K)
  BY SpansOne
<1>3. hi <= r
  OBVIOUS
<1>4. q \o <<r>> \in Seq(Nat) /\ Spans(q \o <<r>>, lo, r, K)
  BY <1>2, <1>3, SpansJoin
<1>5. QED
  BY <1>1, <1>4

-----------------------------------------------------------------------------
(* The stages and their order.                                             *)

StagesKnown == Stages \in {AlwaysOn, AlwaysOn \cup {"validator"}}

LEMMA StageOrder ==
  ASSUME StagesKnown
  PROVE  /\ AlwaysOn \subseteq Stages /\ Stages \subseteq AlwaysOn \cup {"validator"}
         /\ Down("parser") = IF WithRules THEN "validator" ELSE "normalizer"
         /\ Up("normalizer") = IF WithRules THEN "validator" ELSE "parser"
         /\ WithRules => Up("validator") = "parser" /\ Down("validator") = "normalizer"
         /\ Down("normalizer") = "batcher" /\ Up("batcher") = "normalizer"
         /\ Down("batcher") = "publisher" /\ Up("publisher") = "batcher"
<1>1. CASE WithRules
  <2>1. Chain = <<"parser", "validator", "normalizer", "batcher", "publisher">>
    BY <1>1 DEF Chain
  <2>2. /\ Position("parser") = 1 /\ Position("validator") = 2 /\ Position("normalizer") = 3
        /\ Position("batcher") = 4 /\ Position("publisher") = 5
    BY <2>1 DEF Position
  <2>3. AlwaysOn \subseteq Stages /\ Stages \subseteq AlwaysOn \cup {"validator"}
    BY DEF StagesKnown, AlwaysOn
  <2>4. QED
    BY <1>1, <2>1, <2>2, <2>3 DEF Up, Down
<1>2. CASE ~ WithRules
  <2>1. Chain = <<"parser", "normalizer", "batcher", "publisher">>
    BY <1>2 DEF Chain
  <2>2. /\ Position("parser") = 1 /\ Position("normalizer") = 2
        /\ Position("batcher") = 3 /\ Position("publisher") = 4
    BY <2>1 DEF Position
  <2>3. AlwaysOn \subseteq Stages /\ Stages \subseteq AlwaysOn \cup {"validator"}
    BY DEF StagesKnown, AlwaysOn
  <2>4. /\ Down("parser") = "normalizer" /\ Up("normalizer") = "parser"
        /\ Down("normalizer") = "batcher" /\ Up("batcher") = "normalizer"
        /\ Down("batcher") = "publisher" /\ Up("publisher") = "batcher"
    <3>1. /\ Chain[1] = "parser" /\ Chain[2] = "normalizer"
          /\ Chain[3] = "batcher" /\ Chain[4] = "publisher"
      BY <2>1
    <3>2. /\ Down("parser") = Chain[2] /\ Down("normalizer") = Chain[3] /\ Down("batcher") = Chain[4]
          /\ Up("normalizer") = Chain[1] /\ Up("batcher") = Chain[2] /\ Up("publisher") = Chain[3]
      BY <2>2 DEF Up, Down
    <3>3. QED
      BY <3>1, <3>2
  <2>5. QED
    BY <1>2, <2>3, <2>4
<1>3. QED
  BY <1>1, <1>2

\* Up and Down are inverse to each other.
LEMMA StageChain ==
  ASSUME StagesKnown
  PROVE  /\ \A s \in Stages \ {"parser"} : /\ Up(s) \in Stages \ {"publisher"}
                                          /\ Up(s) # s /\ Down(Up(s)) = s
         /\ \A s \in Stages \ {"publisher"} : /\ Down(s) \in Stages \ {"parser"}
                                             /\ Down(s) # s /\ Up(Down(s)) = s
<1>1. {"parser", "normalizer", "batcher", "publisher"} \subseteq Stages
      /\ Stages \subseteq {"parser", "validator", "normalizer", "batcher", "publisher"}
      /\ (WithRules <=> "validator" \in Stages)
  BY StageOrder DEF AlwaysOn, WithRules
<1>2. QED
  BY <1>1, StageOrder

\* The stages of a file are chosen when it starts.
LEMMA SameStages ==
  ASSUME DOMAIN state' = DOMAIN state
  PROVE  /\ Stages' = Stages /\ WithRules' = WithRules /\ Kept' = Kept /\ Chain' = Chain
         /\ \A s : Up(s)' = Up(s) /\ Down(s)' = Down(s)
<1>1. Stages' = Stages
  BY DEF Stages
<1>2. WithRules' = WithRules
  BY <1>1 DEF WithRules
<1>3. Kept' = Kept /\ Chain' = Chain
  BY <1>2 DEF Kept, Chain
<1>4. \A s : Position(s)' = Position(s)
  BY <1>3 DEF Position
<1>5. QED
  BY <1>1, <1>2, <1>3, <1>4 DEF Up, Down

-----------------------------------------------------------------------------
(* The invariant of the stages.                                            *)

StageType ==
  /\ StagesKnown
  /\ state \in [Stages -> {"run", "ok", "err"}]
  /\ input = [s \in Stages |-> input[s]]
  /\ \A s \in Stages \ {"publisher"} : input[s] \in Seq(Nat)
  /\ input["publisher"] \in Seq(Seq(Nat))
  /\ next \in 1..(Records + 1)
  /\ held \in [Stages -> Nat]
  /\ batch \in Seq(Nat) /\ out \in Seq(Nat) /\ confirmed \in Seq(Nat)
  /\ out # <<>> => batch = <<>>

\* What a stage has received and not passed on.
Holding(s) ==
  CASE s = "batcher" -> IF out # <<>> THEN out ELSE batch
    [] s = "publisher" -> <<>>
    [] OTHER -> IF held[s] = 0 THEN <<>> ELSE <<held[s]>>

\* Only the validator sees the records it drops.
Source(s) == IF s = "validator" THEN 1..Records ELSE Kept

\* The batches of q, none of them empty, end at the positions cut.
BatchesSpan(q, lo, hi) ==
  \E cut \in [0..Len(q) -> Nat] :
    /\ cut[0] = lo /\ cut[Len(q)] = hi
    /\ \A i, j \in 0..Len(q) : i <= j => cut[i] <= cut[j]
    /\ \A i \in 1..Len(q) : q[i] # <<>> /\ Spans(q[i], cut[i - 1], cut[i], Kept)

InputSpans(s, lo, hi) ==
  IF s = "publisher" THEN BatchesSpan(input[s], lo, hi)
                     ELSE Spans(input[s], lo, hi, Source(s))

\* A stage that reads: what it holds and what waits for it, from passed up to given.
Link(s, passed, taken, given) ==
  /\ passed <= taken /\ taken <= given
  /\ Spans(Holding(s), passed, taken, Kept)
  /\ Running(s) => InputSpans(s, taken, given)

SomeFailed == \E s \in Stages : state[s] = "err"

\* Nothing the rules keep is left between the stage before s, which is over, and s.
Drained(s, sent) ==
  IF s = "parser" THEN next > Records
  ELSE ~ Running(Up(s)) /\ \A r \in Kept : ~ (sent[s] < r /\ r <= sent[Up(s)])

Flow(sent, got) ==
  /\ sent["parser"] = next - 1
  /\ \A s \in Stages \ {"parser"} : Link(s, sent[s], got[s], sent[Up(s)])
  /\ Spans(confirmed, 0, sent["publisher"], Kept)
  /\ \A s \in Stages : state[s] = "ok" => SomeFailed \/ Drained(s, sent)

StageInv == StageType /\ \E sent, got \in [Stages -> 0..Records] : Flow(sent, got)

-----------------------------------------------------------------------------
(* What a step of a stage has to show.                                     *)

LEMMA KeptNat == Kept \in SUBSET Nat /\ 1..Records \in SUBSET Nat /\ Records \in Nat
BY RecordsNat DEF Kept

\* A stage that neither it nor the stage before it moves.
LEMMA LinkUntouched ==
  ASSUME NEW s, NEW p, NEW t, NEW g, Link(s, p, t, g), Holding(s)' = Holding(s),
         input'[s] = input[s], state'[s] = state[s] \/ ~ Running(s)', Kept' = Kept
  PROVE  Link(s, p, t, g)'
BY DEF Link, Running, InputSpans, BatchesSpan, Source

\* A stage x that runs goes from sent[x] and got[x] to p and t.
LEMMA StageMoves ==
  ASSUME StageType, NEW sent \in [Stages -> 0..Records], NEW got \in [Stages -> 0..Records],
         Flow(sent, got), StageType', state' = state,
         NEW x \in Stages, Running(x), NEW p \in 0..Records, NEW t \in 0..Records,
         IF x = "parser" THEN p = next' - 1
                         ELSE next' = next /\ Link(x, p, t, sent[Up(x)])',
         x # "publisher" => Link(Down(x), sent[Down(x)], got[Down(x)], p)',
         IF x = "publisher" THEN Spans(confirmed', 0, p, Kept) ELSE confirmed' = confirmed,
         \A s \in Stages \ {"parser", x} :
           x = "publisher" \/ s # Down(x) => Holding(s)' = Holding(s) /\ input'[s] = input[s]
  PROVE  StageInv'
<1> DEFINE sent2 == [sent EXCEPT ![x] = p]
           got2  == [got EXCEPT ![x] = t]
<1>1. StagesKnown /\ DOMAIN state' = DOMAIN state
  BY DEF StageType
<1>2. /\ Stages' = Stages /\ Kept' = Kept /\ \A s : Up(s)' = Up(s) /\ Down(s)' = Down(s)
  BY <1>1, SameStages
<1>3. /\ \A s \in Stages \ {"parser"} : Up(s) \in Stages /\ Up(s) # s /\ Down(Up(s)) = s /\ Up(s) # "publisher"
      /\ x # "publisher" => Down(x) \in Stages \ {"parser"} /\ Down(x) # x /\ Up(Down(x)) = x
      /\ "parser" \in Stages /\ "publisher" \in Stages
  BY <1>1, StageChain, StageOrder DEF AlwaysOn
<1>4. /\ sent2 \in [Stages -> 0..Records] /\ got2 \in [Stages -> 0..Records]
      /\ sent2[x] = p /\ got2[x] = t
      /\ \A s \in Stages \ {x} : sent2[s] = sent[s] /\ got2[s] = got[s]
  OBVIOUS
<1> HIDE DEF sent2, got2
<1>5. sent2["parser"] = next' - 1
  BY <1>3, <1>4 DEF Flow
<1>6. ASSUME NEW s \in Stages \ {"parser"} PROVE Link(s, sent2[s], got2[s], sent2[Up(s)])'
  <2>1. CASE s = x
    BY <1>2, <1>3, <1>4, <2>1
  <2>2. CASE x # "publisher" /\ s = Down(x)
    BY <1>2, <1>3, <1>4, <2>2
  <2>3. CASE s # x /\ (x = "publisher" \/ s # Down(x))
    <3>1. Up(s) # x /\ sent2[s] = sent[s] /\ got2[s] = got[s] /\ sent2[Up(s)] = sent[Up(s)]
      BY <1>3, <1>4, <2>3
    <3>2. Link(s, sent[s], got[s], sent[Up(s)])
      BY DEF Flow
    <3>3. Link(s, sent[s], got[s], sent[Up(s)])'
      BY <1>2, <2>3, <3>2, LinkUntouched
    <3>4. QED
      BY <1>2, <3>1, <3>3
  <2>4. QED
    BY <2>1, <2>2, <2>3
<1>7. Spans(confirmed', 0, sent2["publisher"], Kept)
  BY <1>3, <1>4 DEF Flow
<1>8. ASSUME NEW s \in Stages, state'[s] = "ok" PROVE SomeFailed' \/ Drained(s, sent2)'
  <2>1. SomeFailed' \/ Drained(s, sent)
    BY <1>2, <1>8 DEF Flow, SomeFailed
  <2>2. CASE s = "parser" /\ Drained(s, sent)
    <3>1. x # "parser" /\ next' = next
      BY <1>8, <2>2 DEF Running
    <3>2. QED
      BY <2>2, <3>1 DEF Drained
  <2>3. CASE s # "parser" /\ Drained(s, sent)
    <3>1. ~ Running(Up(s)) /\ \A r \in Kept : ~ (sent[s] < r /\ r <= sent[Up(s)])
      BY <2>3 DEF Drained
    <3>2. s # x /\ Up(s) # x /\ Up(s) \in Stages
      BY <1>3, <1>8, <2>3, <3>1 DEF Running
    <3>3. sent2[s] = sent[s] /\ sent2[Up(s)] = sent[Up(s)]
      BY <1>4, <3>2
    <3>4. ~ Running(Up(s))'
      BY <1>2, <3>1 DEF Running
    <3>5. QED
      BY <1>2, <2>3, <3>1, <3>3, <3>4 DEF Drained
  <2>4. QED
    BY <2>1, <2>2, <2>3
<1>9. Flow(sent2, got2)'
  BY <1>2, <1>5, <1>6, <1>7, <1>8 DEF Flow
<1>10. QED
  BY <1>2, <1>4, <1>9 DEF StageInv

\* A stage x that runs ends; well only when it is drained or something has failed.
LEMMA StageEnds ==
  ASSUME StageType, NEW sent \in [Stages -> 0..Records], NEW got \in [Stages -> 0..Records],
         Flow(sent, got), NEW x \in Stages, Running(x), NEW how \in {"ok", "err"},
         End(x, how), UNCHANGED <<next, held, batch, out, confirmed>>,
         how = "ok" => SomeFailed \/ Drained(x, sent)
  PROVE  StageInv'
<1>1. /\ state' \in [Stages -> {"run", "ok", "err"}] /\ DOMAIN state' = DOMAIN state
      /\ state'[x] = how /\ \A s \in Stages \ {x} : state'[s] = state[s]
  BY DEF End, StageType, Stages
<1>2. /\ Stages' = Stages /\ Kept' = Kept /\ \A s : Up(s)' = Up(s)
  BY <1>1, SameStages
<1>3. \A s \in Stages \ {"parser"} : Up(s) \in Stages
  BY StageChain DEF StageType
<1>4. input' = [input EXCEPT ![x] = <<>>] /\ DOMAIN input = Stages
  BY DEF End, StageType
<1>5. /\ input' = [s \in Stages |-> input'[s]] /\ input'[x] = <<>>
      /\ \A s \in Stages \ {x} : input'[s] = input[s]
  BY <1>4
<1>6. <<>> \in Seq(Nat) /\ <<>> \in Seq(Seq(Nat))
  OBVIOUS
<1>7. StageType'
  <2>1. /\ \A s \in Stages \ {"publisher"} : input'[s] \in Seq(Nat)
        /\ input'["publisher"] \in Seq(Seq(Nat))
    BY <1>5, <1>6, StageOrder DEF StageType, AlwaysOn
  <2>2. StagesKnown'
    BY <1>2 DEF StageType, StagesKnown
  <2>3. /\ next' \in 1..(Records + 1) /\ held' \in [Stages -> Nat]
        /\ batch' \in Seq(Nat) /\ out' \in Seq(Nat) /\ confirmed' \in Seq(Nat)
        /\ (out' # <<>> => batch' = <<>>)
    BY DEF StageType
  <2>4. QED
    BY <1>1, <1>2, <1>5, <2>1, <2>2, <2>3 DEF StageType
<1>8. \A s : Running(s)' => s \notin Stages \/ (s # x /\ Running(s))
  BY <1>1 DEF Running
<1>9. ASSUME NEW s \in Stages \ {"parser"} PROVE Link(s, sent[s], got[s], sent[Up(s)])'
  <2>1. Link(s, sent[s], got[s], sent[Up(s)]) /\ Holding(s)' = Holding(s)
    BY DEF Flow, Holding
  <2>2. CASE s = x
    BY <1>1, <1>2, <2>1, <2>2 DEF Link, Running
  <2>3. CASE s # x
    <3>1. input'[s] = input[s] /\ state'[s] = state[s]
      BY <1>1, <1>5, <2>3
    <3>2. QED
      BY <1>2, <2>1, <3>1, LinkUntouched
  <2>4. QED
    BY <2>2, <2>3
<1>10. SomeFailed => SomeFailed'
  BY <1>1, <1>2 DEF SomeFailed, Running
<1>11. ASSUME NEW s \in Stages, Drained(s, sent) PROVE Drained(s, sent)'
  BY <1>2, <1>3, <1>8, <1>11 DEF Drained
<1>12. \A s \in Stages : state'[s] = "ok" => (SomeFailed \/ Drained(s, sent))'
  BY <1>1, <1>10, <1>11 DEF Flow
<1>13. Flow(sent, got)'
  BY <1>2, <1>9, <1>12 DEF Flow
<1>14. QED
  BY <1>2, <1>7, <1>13 DEF StageInv

\* Whoever finds the next stage gone while it still runs: something has failed, as
\* that stage would have waited for it.
LEMMA GoneIsFailed ==
  ASSUME StageType, NEW sent, NEW got, Flow(sent, got),
         NEW x \in Stages \ {"publisher"}, Running(x), Dropped(x)
  PROVE  SomeFailed
<1>1. Down(x) \in Stages \ {"parser"} /\ Up(Down(x)) = x
  BY StageChain DEF StageType
<1>2. state[Down(x)] = "ok" \/ state[Down(x)] = "err"
  BY <1>1 DEF StageType, Dropped, Running
<1>3. state[Down(x)] = "ok" => SomeFailed
  BY <1>1 DEF Flow, Drained
<1>4. QED
  BY <1>1, <1>2, <1>3 DEF SomeFailed

\* A stage that holds nothing, whose input is empty and whose writer is gone.
LEMMA ExhaustedIsDrained ==
  ASSUME StageType, NEW sent \in [Stages -> 0..Records], NEW got \in [Stages -> 0..Records],
         Flow(sent, got), NEW x \in Stages \ {"parser"}, Running(x),
         Holding(x) = <<>>, Exhausted(x)
  PROVE  Drained(x, sent)
<1>1. /\ Up(x) \in Stages /\ sent[x] \in Nat /\ got[x] \in Nat /\ sent[Up(x)] \in Nat
      /\ Kept \in SUBSET Nat /\ Source(x) \in SUBSET Nat /\ Kept \subseteq Source(x)
  <2>1. Up(x) \in Stages /\ 0..Records \subseteq Nat
    BY StageChain, RecordsNat DEF StageType
  <2>2. Kept \in SUBSET Nat /\ Source(x) \in SUBSET Nat /\ Kept \subseteq Source(x)
    BY KeptNat DEF Source, Kept
  <2>3. QED
    BY <2>1, <2>2
<1>2. Link(x, sent[x], got[x], sent[Up(x)]) /\ input[x] = <<>>
  BY DEF Flow, Exhausted
<1>3. \A r \in Kept : ~ (sent[x] < r /\ r <= got[x])
  BY <1>1, <1>2, SpansEmpty DEF Link
<1>4. CASE x = "publisher"
  <2>1. PICK cut \in [0..Len(<<>>) -> Nat] : cut[0] = got[x] /\ cut[Len(<<>>)] = sent[Up(x)]
    BY <1>2, <1>4 DEF Link, InputSpans, BatchesSpan
  <2>2. Len(<<>>) = 0
    OBVIOUS
  <2>3. got[x] = sent[Up(x)]
    BY <2>1, <2>2
  <2>4. QED
    BY <1>3, <1>4, <2>3 DEF Drained, Exhausted
<1>5. CASE x # "publisher"
  <2>1. Spans(<<>>, got[x], sent[Up(x)], Source(x))
    BY <1>2, <1>5 DEF Link, InputSpans
  <2>2. \A r \in Kept : ~ (got[x] < r /\ r <= sent[Up(x)])
    BY <1>1, <2>1, SpansEmpty
  <2>3. \A r \in Kept : ~ (sent[x] < r /\ r <= sent[Up(x)])
    BY <1>1, <1>3, <2>2
  <2>4. QED
    BY <2>3 DEF Drained, Exhausted
<1>6. QED
  BY <1>4, <1>5

\* One channel changes.
LEMMA InputChange ==
  ASSUME StageType, NEW s \in Stages, NEW v, input' = [input EXCEPT ![s] = v]
  PROVE  /\ input' = [r \in Stages |-> input'[r]] /\ input'[s] = v
         /\ \A r \in Stages \ {s} : input'[r] = input[r]
<1>1. DOMAIN input = Stages
  BY DEF StageType
<1>2. QED
  BY <1>1

\* The types after a step that ends no stage and writes to one channel.
LEMMA StageTypeKept ==
  ASSUME StageType, state' = state, NEW s \in Stages, NEW v, input' = [input EXCEPT ![s] = v],
         v \in IF s = "publisher" THEN Seq(Seq(Nat)) ELSE Seq(Nat),
         next' \in 1..(Records + 1), held' \in [Stages -> Nat],
         batch' \in Seq(Nat), out' \in Seq(Nat), confirmed' \in Seq(Nat),
         out' # <<>> => batch' = <<>>
  PROVE  StageType'
<1>1. Stages' = Stages /\ StagesKnown' /\ "publisher" \in Stages
  BY SameStages, StageOrder DEF StageType, StagesKnown, AlwaysOn
<1>2. /\ input' = [r \in Stages |-> input'[r]] /\ input'[s] = v
      /\ \A r \in Stages \ {s} : input'[r] = input[r]
  BY InputChange
<1>3. /\ \A r \in Stages \ {"publisher"} : input'[r] \in Seq(Nat)
      /\ input'["publisher"] \in Seq(Seq(Nat))
  BY <1>1, <1>2 DEF StageType
<1>4. QED
  BY <1>1, <1>2, <1>3 DEF StageType

-----------------------------------------------------------------------------
(* The parser.                                                             *)
LEMMA ParserSendInv ==
  ASSUME StageInv, ParserSend
  PROVE  StageInv'
<1> PICK sent \in [Stages -> 0..Records], got \in [Stages -> 0..Records] : Flow(sent, got)
  BY DEF StageInv
<1> PICK d : d = Down("parser")
  OBVIOUS
<1>1. /\ StageType /\ "parser" \in Stages /\ d \in Stages \ {"parser", "publisher", "batcher"}
      /\ Up(d) = "parser" /\ Source(d) = 1..Records
  <2>1. StageType /\ "parser" \in Stages /\ Up(d) = "parser" /\ d \in Stages
    BY StageOrder, StageChain DEF StageInv, StageType, AlwaysOn
  <2>2. d = IF WithRules THEN "validator" ELSE "normalizer"
    BY <2>1, StageOrder DEF StageType
  <2>3. QED
    BY <2>1, <2>2 DEF Source, Kept
<1>2. /\ Running("parser") /\ next \in 1..Records /\ next' = next + 1 /\ state' = state
      /\ input' = [input EXCEPT ![d] = Append(input[d], next)]
      /\ UNCHANGED <<held, batch, out, confirmed>>
  BY RecordsNat, <1>1 DEF ParserSend, parserRest, StageType
<1> PICK n \in 1..Records : n = next
  BY <1>2
<1>3. /\ input' = [r \in Stages |-> input'[r]] /\ input'[d] = Append(input[d], next)
      /\ \A r \in Stages \ {d} : input'[r] = input[r]
  BY <1>1, <1>2, InputChange
<1>4. Stages' = Stages /\ Kept' = Kept /\ \A r : Up(r)' = Up(r) /\ Down(r)' = Down(r)
  BY <1>2, SameStages
<1>5. input[d] \in Seq(Nat) /\ next \in Nat /\ next' \in 1..(Records + 1)
  <2>1. input[d] \in Seq(Nat)
    BY <1>1 DEF StageType
  <2>2. next \in Nat /\ next' \in 1..(Records + 1)
    BY <1>2, RecordsNat
  <2>3. QED
    BY <2>1, <2>2
<1>6. Append(input[d], next) \in Seq(Nat)
  BY <1>5
<1>7. StageType'
  BY <1>1, <1>2, <1>5, <1>6, StageTypeKept DEF StageType
<1>8. Link(d, sent[d], got[d], n - 1) /\ got[d] \in Nat /\ sent[d] \in Nat
  BY <1>1 DEF Flow
<1>9. Link(d, sent[d], got[d], n)'
  <2>1. Holding(d)' = Holding(d)
    BY <1>2 DEF Holding
  <2>2. sent[d] <= got[d] /\ got[d] <= n - 1 /\ Spans(Holding(d), sent[d], got[d], Kept)
    BY <1>8 DEF Link
  <2>3. ASSUME Running(d)
        PROVE  Spans(Append(input[d], n), got[d], n, 1..Records)
    <3>1. Spans(input[d], got[d], n - 1, 1..Records) /\ n - 1 \in Nat
      BY <1>1, <1>2, <1>8, <2>3 DEF Link, InputSpans
    <3>2. n - 1 < n /\ \A r \in 1..Records : n - 1 < r => r >= n
      BY <1>2, RecordsNat
    <3>3. 1..Records \in SUBSET Nat
      BY KeptNat
    <3>4. QED
      BY <1>2, <1>5, <1>8, <2>2, <3>1, <3>2, <3>3, SpansAppend
  <2>4. Source(d)' = 1..Records
    BY <1>1, <1>4 DEF Source
  <2>5. Running(d)' => InputSpans(d, got[d], n)'
    BY <1>1, <1>2, <1>3, <2>3, <2>4 DEF InputSpans, Running
  <2>6. got[d] <= n
    BY <1>5, <1>8, <2>2
  <2>7. QED
    BY <1>2, <1>4, <2>1, <2>2, <2>5, <2>6 DEF Link
<1>10. n \in 0..Records /\ n = next' - 1
  BY <1>2
<1>11. \A s \in Stages \ {"parser", "parser"} :
         s # Down("parser") => Holding(s)' = Holding(s) /\ input'[s] = input[s]
  BY <1>2, <1>3 DEF Holding
<1>12. Link(Down("parser"), sent[Down("parser")], got[Down("parser")], n)'
  BY <1>4, <1>9
<1>13. StageInv'
  BY <1>1, <1>2, <1>7, <1>10, <1>11, <1>12, StageMoves
<1>14. QED
  BY <1>13

LEMMA ParserEnds ==
  ASSUME StageInv, ParserStop \/ ParserFails
  PROVE  StageInv'
<1> PICK sent \in [Stages -> 0..Records], got \in [Stages -> 0..Records] : Flow(sent, got)
  BY DEF StageInv
<1>1. StageType /\ "parser" \in Stages \ {"publisher"} /\ Running("parser")
  BY StageOrder DEF StageInv, StageType, AlwaysOn, ParserStop, ParserFails
<1>2. UNCHANGED <<next, held, batch, out, confirmed>>
  BY DEF ParserStop, ParserFails, parserRest
<1>3. CASE ParserStop
  <2>1. next > Records \/ Dropped("parser")
    BY <1>3 DEF ParserStop
  <2>2. SomeFailed \/ Drained("parser", sent)
    BY <1>1, <2>1, GoneIsFailed DEF Drained
  <2>3. End("parser", "ok")
    BY <1>3 DEF ParserStop
  <2>4. QED
    BY <1>1, <1>2, <2>2, <2>3, StageEnds
<1>4. CASE ParserFails
  <2>1. End("parser", "err")
    BY <1>4 DEF ParserFails
  <2>2. QED
    BY <1>1, <1>2, <2>1, StageEnds
<1>5. QED
  BY <1>3, <1>4

-----------------------------------------------------------------------------
(* Receiving.                                                              *)

\* Stage x takes the first record h off its input.
LEMMA Receives ==
  ASSUME StageType, NEW sent \in [Stages -> 0..Records], NEW got \in [Stages -> 0..Records],
         Flow(sent, got), StageType', UNCHANGED <<state, next, confirmed>>,
         NEW x \in Stages \ {"parser", "publisher"}, Running(x), input[x] # <<>>,
         input' = [input EXCEPT ![x] = Tail(input[x])],
         \A s \in Stages \ {x} : Holding(s)' = Holding(s),
         NEW h, h = Head(input[x]), NEW q \in Seq(Nat), q = Holding(x)',
         \/ h \notin Kept /\ q = Holding(x)
         \/ h \in Kept /\ q = Append(Holding(x), h),
         Holding(x) \in Seq(Nat)
  PROVE  StageInv'
<1>1. Stages' = Stages /\ Kept' = Kept /\ \A r : Up(r)' = Up(r) /\ Down(r)' = Down(r)
  BY SameStages
<1>2. /\ input'[x] = Tail(input[x])
      /\ \A r \in Stages \ {x} : input'[r] = input[r]
  BY InputChange
<1>3. /\ Up(x) \in Stages /\ Down(x) \in Stages \ {"parser"} /\ Down(x) # x /\ Up(Down(x)) = x
  BY StageChain DEF StageType
<1>4. /\ sent[x] \in 0..Records /\ got[x] \in 0..Records /\ sent[Up(x)] \in 0..Records
      /\ input[x] \in Seq(Nat)
  BY <1>3 DEF StageType
<1>5. Kept \in SUBSET Nat /\ Source(x) \in SUBSET Nat /\ Kept \subseteq Source(x)
  BY KeptNat DEF Source, Kept
<1>6. 0..Records \subseteq Nat /\ Records \in Nat
  BY RecordsNat
<1>7. /\ sent[x] <= got[x] /\ got[x] <= sent[Up(x)]
      /\ Spans(Holding(x), sent[x], got[x], Kept)
      /\ Spans(input[x], got[x], sent[Up(x)], Source(x))
  BY DEF Flow, Link, InputSpans
<1>8. /\ h \in Source(x) /\ got[x] < h /\ h <= sent[Up(x)]
      /\ \A r \in Source(x) : got[x] < r => r >= h
      /\ Tail(input[x]) \in Seq(Nat) /\ Spans(Tail(input[x]), h, sent[Up(x)], Source(x))
  BY <1>4, <1>5, <1>6, <1>7, SpansHead
<1>9. h \in 0..Records /\ h \in Nat
  BY <1>4, <1>5, <1>6, <1>8
<1>10. Spans(q, sent[x], h, Kept)
  <2>1. CASE h \notin Kept /\ q = Holding(x)
    <3>1. \A r \in Kept : ~ (got[x] < r /\ r <= h)
      BY <1>4, <1>5, <1>6, <1>8, <1>9, <2>1
    <3>2. Spans(<<>>, got[x], h, Kept)
      BY <3>1 DEF Spans
    <3>3. Spans(Holding(x) \o <<>>, sent[x], h, Kept)
      <4>1. got[x] <= h /\ <<>> \in Seq(Nat) /\ sent[x] \in Nat /\ got[x] \in Nat
        BY <1>4, <1>6, <1>8, <1>9
      <4>2. QED
        BY <1>5, <1>7, <1>9, <3>2, <4>1, SpansJoin
    <3>4. Holding(x) \o <<>> = Holding(x)
      OBVIOUS
    <3>5. QED
      BY <2>1, <3>3, <3>4
  <2>2. CASE h \in Kept /\ q = Append(Holding(x), h)
    <3>1. \A r \in Kept : got[x] < r => r >= h
      BY <1>5, <1>8
    <3>2. sent[x] \in Nat /\ got[x] \in Nat
      BY <1>4, <1>6
    <3>3. Spans(Append(Holding(x), h), sent[x], h, Kept)
      BY <1>5, <1>7, <1>8, <1>9, <2>2, <3>1, <3>2, SpansAppend
    <3>4. QED
      BY <2>2, <3>3
  <2>3. QED
    BY <2>1, <2>2
<1>11. sent[x] <= h
  BY <1>4, <1>6, <1>7, <1>8, <1>9
<1>12. PICK given : given = sent[Up(x)]
  OBVIOUS
<1>13. Link(x, sent[x], h, given)'
  <2>1. Source(x)' = Source(x)
    BY <1>1 DEF Source
  <2>2. InputSpans(x, h, given)'
    BY <1>2, <1>8, <1>12, <2>1 DEF InputSpans
  <2>3. QED
    BY <1>1, <1>8, <1>10, <1>11, <1>12, <2>2 DEF Link
<1>14. Link(Down(x), sent[Down(x)], got[Down(x)], sent[x])'
  <2>1. Link(Down(x), sent[Down(x)], got[Down(x)], sent[x])
    BY <1>3 DEF Flow
  <2>2. PICK d \in Stages \ {"parser", x} : d = Down(x)
    BY <1>3
  <2>3. Link(d, sent[d], got[d], sent[x])'
    BY <1>1, <1>2, <2>1, <2>2, LinkUntouched
  <2>4. QED
    BY <1>1, <2>2, <2>3
<1>15. Link(x, sent[x], h, sent[Up(x)])'
  BY <1>1, <1>12, <1>13
<1>16. StageInv'
  BY <1>2, <1>4, <1>9, <1>14, <1>15, StageMoves
<1>17. QED
  BY <1>16

LEMMA RelayReceiveInv ==
  ASSUME StageInv, NEW x \in Relays, RelayReceive(x)
  PROVE  StageInv'
<1> PICK sent \in [Stages -> 0..Records], got \in [Stages -> 0..Records] : Flow(sent, got)
  BY DEF StageInv
<1>1. StageType /\ x \in Stages \ {"parser", "publisher"} /\ x # "batcher"
  BY DEF StageInv, Relays
<1>2. /\ Running(x) /\ held[x] = 0 /\ input[x] # <<>> /\ input[x] \in Seq(Nat)
      /\ input' = [input EXCEPT ![x] = Tail(input[x])]
      /\ UNCHANGED <<state, next, batch, out, confirmed>>
  BY <1>1 DEF RelayReceive, relayRest, StageType
<1> PICK h : h = Head(input[x])
  OBVIOUS
<1> DEFINE keep == IF x = "validator" /\ h \in Skipped THEN 0 ELSE h
<1>3. held' = [held EXCEPT ![x] = keep]
  BY DEF RelayReceive
<1>4. h \in Nat /\ Tail(input[x]) \in Seq(Nat)
  BY <1>2
<1>5. keep \in Nat
  BY <1>4
<1>6. keep = 0 \/ keep = h
  OBVIOUS
<1>7. h \in Source(x) /\ got[x] < h /\ got[x] \in 0..Records
  <2>1. Spans(input[x], got[x], sent[Up(x)], Source(x)) /\ Up(x) \in Stages
    BY <1>1, <1>2, StageChain DEF Flow, Link, InputSpans, StageType
  <2>2. got[x] \in Nat /\ sent[Up(x)] \in Nat /\ Source(x) \in SUBSET Nat
    BY <1>1, <2>1, KeptNat DEF Source
  <2>3. QED
    BY <1>1, <1>2, <2>1, <2>2, SpansHead
<1>8. keep = 0 <=> h \notin Kept
  <2>1. h \in 1..Records
    BY <1>7 DEF Source, Kept
  <2>2. x = "validator" => (h \in Kept <=> h \notin Skipped)
    BY <1>1, <2>1 DEF Kept, WithRules
  <2>3. x # "validator" => h \in Kept
    BY <1>7 DEF Source
  <2>4. QED
    BY <2>1, <2>2, <2>3
<1> HIDE DEF keep
<1>9. /\ held' \in [Stages -> Nat] /\ held'[x] = keep
      /\ \A s \in Stages \ {x} : held'[s] = held[s]
  BY <1>1, <1>3, <1>5 DEF StageType
<1>10. StageType'
  BY <1>1, <1>2, <1>4, <1>9, StageTypeKept DEF StageType
<1>11. \A s \in Stages \ {x} : Holding(s)' = Holding(s)
  BY <1>2, <1>9 DEF Holding
<1>12. Holding(x) = <<>> /\ Holding(x)' = IF keep = 0 THEN <<>> ELSE <<keep>>
  BY <1>1, <1>2, <1>9 DEF Holding
<1>13. CASE keep = 0
  <2>1. Holding(x)' = <<>> /\ <<>> \in Seq(Nat) /\ h \notin Kept
    BY <1>8, <1>12, <1>13
  <2>2. QED
    BY <1>1, <1>2, <1>10, <1>11, <1>12, <2>1, Receives
<1>14. CASE keep # 0
  <2>1. /\ Holding(x)' = Append(<<>>, h) /\ <<>> \in Seq(Nat) /\ Append(<<>>, h) \in Seq(Nat)
        /\ h \in Kept
    BY <1>4, <1>6, <1>8, <1>12, <1>14
  <2>2. QED
    BY <1>1, <1>2, <1>10, <1>11, <1>12, <2>1, Receives
<1>15. QED
  BY <1>13, <1>14

LEMMA BatcherReceiveInv ==
  ASSUME StageInv, BatcherReceive
  PROVE  StageInv'
<1> PICK sent \in [Stages -> 0..Records], got \in [Stages -> 0..Records] : Flow(sent, got)
  BY DEF StageInv
<1> PICK x : x = "batcher"
  OBVIOUS
<1>1. StageType /\ x \in Stages \ {"parser", "publisher"}
  BY StageOrder DEF StageInv, StageType, AlwaysOn
<1>2. /\ Running(x) /\ out = <<>> /\ input[x] # <<>> /\ input[x] \in Seq(Nat)
      /\ input' = [input EXCEPT ![x] = Tail(input[x])] /\ batch \in Seq(Nat)
      /\ UNCHANGED <<state, next, held, confirmed>>
  BY <1>1 DEF BatcherReceive, batcherRest, StageType
<1> PICK h : h = Head(input[x])
  OBVIOUS
<1> PICK filled : filled = Append(batch, h)
  OBVIOUS
<1>3. h \in Nat /\ Tail(input[x]) \in Seq(Nat) /\ filled \in Seq(Nat) /\ filled # <<>>
  BY <1>2
<1>4. \/ out' = filled /\ batch' = <<>>
      \/ batch' = filled /\ out' = <<>>
  BY <1>2 DEF BatcherReceive
<1>5. batch' \in Seq(Nat) /\ out' \in Seq(Nat) /\ (out' # <<>> => batch' = <<>>)
  <2>1. <<>> \in Seq(Nat)
    OBVIOUS
  <2>2. QED
    BY <1>3, <1>4, <2>1
<1>6. StageType'
  BY <1>1, <1>2, <1>3, <1>5, StageTypeKept DEF StageType
<1>7. Holding(x) = batch /\ Holding(x)' = filled
  BY <1>2, <1>3, <1>4 DEF Holding
<1>8. \A s \in Stages \ {x} : Holding(s)' = Holding(s)
  BY <1>2 DEF Holding
<1>9. h \in Kept
  <2>1. Spans(input[x], got[x], sent[Up(x)], Kept) /\ Up(x) \in Stages
    BY <1>1, <1>2, StageChain DEF Flow, Link, InputSpans, Source, StageType
  <2>2. got[x] \in Nat /\ sent[Up(x)] \in Nat
    <3>1. got[x] \in 0..Records /\ sent[Up(x)] \in 0..Records
      BY <1>1, <2>1
    <3>2. QED
      BY <3>1, RecordsNat
  <2>3. QED
    BY <1>1, <1>2, <2>1, <2>2, KeptNat, SpansHead
<1>10. QED
  BY <1>1, <1>2, <1>3, <1>6, <1>7, <1>8, <1>9, Receives

-----------------------------------------------------------------------------
(* Passing on.                                                             *)

\* One batch more at the end of a queue of them.
LEMMA BatchesAppend ==
  ASSUME NEW q \in Seq(Seq(Nat)), NEW lo \in Nat, NEW mid \in Nat, NEW hi \in Nat, mid <= hi,
         BatchesSpan(q, lo, mid), NEW b \in Seq(Nat), b # <<>>, Spans(b, mid, hi, Kept)
  PROVE  Append(q, b) \in Seq(Seq(Nat)) /\ BatchesSpan(Append(q, b), lo, hi)
<1> DEFINE n == Len(q)
           u == Append(q, b)
<1>1. /\ n \in Nat /\ Len(u) = n + 1 /\ u[n + 1] = b /\ u \in Seq(Seq(Nat))
      /\ \A i \in 1..n : u[i] = q[i]
  OBVIOUS
<1> PICK cut \in [0..n -> Nat] :
      /\ cut[0] = lo /\ cut[n] = mid
      /\ \A i, j \in 0..n : i <= j => cut[i] <= cut[j]
      /\ \A i \in 1..n : q[i] # <<>> /\ Spans(q[i], cut[i - 1], cut[i], Kept)
  BY DEF BatchesSpan
<1> DEFINE cut2 == [i \in 0..(n + 1) |-> IF i = n + 1 THEN hi ELSE cut[i]]
<1> HIDE DEF n, u
<1>2. \A i \in 0..(n + 1) : i = n + 1 \/ i \in 0..n
  BY <1>1
<1>3. /\ cut2 \in [0..(n + 1) -> Nat] /\ cut2[n + 1] = hi
      /\ \A i \in 0..n : cut2[i] = cut[i]
  BY <1>1, <1>2
<1> HIDE DEF cut2
<1>4. cut2[0] = lo
  BY <1>1, <1>3
<1>5. \A i \in 0..n : cut[i] <= mid /\ cut[i] \in Nat
  BY <1>1
<1>6. ASSUME NEW i \in 0..(n + 1), NEW j \in 0..(n + 1), i <= j PROVE cut2[i] <= cut2[j]
  <2>1. CASE j \in 0..n
    <3>1. i \in 0..n
      BY <1>1, <1>6, <2>1
    <3>2. QED
      BY <1>3, <1>6, <2>1, <3>1
  <2>2. CASE j = n + 1
    <3>1. CASE i = n + 1
      BY <1>3, <2>2, <3>1
    <3>2. CASE i \in 0..n
      BY <1>3, <1>5, <2>2, <3>2
    <3>3. QED
      BY <1>2, <1>6, <3>1, <3>2
  <2>3. QED
    BY <1>2, <1>6, <2>1, <2>2
<1>7. ASSUME NEW i \in 1..(n + 1) PROVE u[i] # <<>> /\ Spans(u[i], cut2[i - 1], cut2[i], Kept)
  <2>1. CASE i = n + 1
    <3>1. i - 1 = n /\ n \in 0..n
      BY <1>1, <2>1
    <3>2. cut2[i - 1] = mid /\ cut2[i] = hi /\ u[i] = b
      BY <1>1, <1>3, <2>1, <3>1
    <3>3. QED
      BY <3>2
  <2>2. CASE i # n + 1
    <3>1. i \in 1..n /\ i \in 0..n /\ i - 1 \in 0..n
      BY <1>1, <1>7, <2>2
    <3>2. u[i] = q[i] /\ cut2[i] = cut[i] /\ cut2[i - 1] = cut[i - 1]
      BY <1>1, <1>3, <3>1
    <3>3. q[i] # <<>> /\ Spans(q[i], cut[i - 1], cut[i], Kept)
      BY <3>1
    <3>4. QED
      BY <3>2, <3>3
  <2>3. QED
    BY <2>1, <2>2
<1>8. BatchesSpan(u, lo, hi)
  BY <1>1, <1>3, <1>4, <1>6, <1>7 DEF BatchesSpan
<1>9. QED
  BY <1>1, <1>8 DEF u

\* The first batch of a queue, and the others.
LEMMA BatchesHead ==
  ASSUME NEW q \in Seq(Seq(Nat)), NEW lo \in Nat, NEW hi \in Nat,
         BatchesSpan(q, lo, hi), q # <<>>
  PROVE  /\ Head(q) \in Seq(Nat) /\ Head(q) # <<>> /\ Tail(q) \in Seq(Seq(Nat))
         /\ \E mid \in Nat : /\ lo <= mid /\ mid <= hi /\ Spans(Head(q), lo, mid, Kept)
                             /\ BatchesSpan(Tail(q), mid, hi)
<1> DEFINE n == Len(q)
           t == Tail(q)
<1>1. /\ n \in Nat /\ n >= 1 /\ Head(q) = q[1] /\ q[1] \in Seq(Nat)
      /\ t \in Seq(Seq(Nat)) /\ Len(t) = n - 1
      /\ \A i \in 1..(n - 1) : t[i] = q[i + 1]
  OBVIOUS
<1> PICK cut \in [0..n -> Nat] :
      /\ cut[0] = lo /\ cut[n] = hi
      /\ \A i, j \in 0..n : i <= j => cut[i] <= cut[j]
      /\ \A i \in 1..n : q[i] # <<>> /\ Spans(q[i], cut[i - 1], cut[i], Kept)
  BY DEF BatchesSpan
<1> DEFINE cut2 == [i \in 0..(n - 1) |-> cut[i + 1]]
<1> HIDE DEF n, t
<1>2. ASSUME NEW i \in 0..(n - 1) PROVE i + 1 \in 0..n /\ i \in Nat
  BY <1>1
<1>3. cut2 \in [0..(n - 1) -> Nat] /\ \A i \in 0..(n - 1) : cut2[i] = cut[i + 1]
  BY <1>2
<1> HIDE DEF cut2
<1>4. 0 \in 0..(n - 1) /\ n - 1 \in 0..(n - 1) /\ (n - 1) + 1 = n /\ 0 + 1 = 1
      /\ 0 \in 0..n /\ 1 \in 0..n /\ n \in 0..n /\ 1 \in 1..n /\ 0 <= 1 /\ 1 <= n /\ 1 - 1 = 0
  BY <1>1
<1>5. cut2[0] = cut[1] /\ cut2[n - 1] = hi
  BY <1>3, <1>4
<1>6. ASSUME NEW i \in 0..(n - 1), NEW j \in 0..(n - 1), i <= j PROVE cut2[i] <= cut2[j]
  <2>1. i + 1 <= j + 1 /\ i + 1 \in 0..n /\ j + 1 \in 0..n
    BY <1>2, <1>6
  <2>2. QED
    BY <1>3, <1>6, <2>1
<1>7. ASSUME NEW i \in 1..(n - 1) PROVE t[i] # <<>> /\ Spans(t[i], cut2[i - 1], cut2[i], Kept)
  <2>1. /\ i + 1 \in 1..n /\ i - 1 \in 0..(n - 1) /\ i \in 0..(n - 1)
        /\ (i - 1) + 1 = i /\ (i + 1) - 1 = i
    BY <1>1, <1>7
  <2>2. t[i] = q[i + 1] /\ cut2[i - 1] = cut[i] /\ cut2[i] = cut[i + 1]
    BY <1>1, <1>3, <1>7, <2>1
  <2>3. q[i + 1] # <<>> /\ Spans(q[i + 1], cut[(i + 1) - 1], cut[i + 1], Kept)
    BY <2>1
  <2>4. QED
    BY <2>1, <2>2, <2>3
<1>8. BatchesSpan(t, cut[1], hi)
  BY <1>1, <1>3, <1>5, <1>6, <1>7 DEF BatchesSpan
<1>9. /\ cut[1] \in Nat /\ lo <= cut[1] /\ cut[1] <= hi
      /\ q[1] # <<>> /\ Spans(q[1], lo, cut[1], Kept)
  BY <1>4
<1>10. QED
  BY <1>1, <1>8, <1>9 DEF t

\* Stage x passes on all that it holds.
LEMMA PassesOn ==
  ASSUME StageType, NEW sent \in [Stages -> 0..Records], NEW got \in [Stages -> 0..Records],
         Flow(sent, got), StageType', UNCHANGED <<state, next, confirmed>>,
         NEW x \in Stages \ {"parser", "publisher"}, Running(x),
         NEW d, d = Down(x), NEW v, input' = [input EXCEPT ![d] = v],
         Holding(x)' = <<>>, \A s \in Stages \ {x} : Holding(s)' = Holding(s),
         Running(d) /\ input'[d] = v => InputSpans(d, got[d], got[x])'
  PROVE  StageInv'
<1>1. /\ Stages' = Stages /\ Kept' = Kept
      /\ \A r : Up(r)' = Up(r) /\ Down(r)' = Down(r)
  BY SameStages
<1>2. /\ Up(x) \in Stages /\ d \in Stages \ {"parser", x} /\ Up(d) = x
  BY StageChain DEF StageType
<1>3. /\ input'[d] = v
      /\ \A r \in Stages \ {d} : input'[r] = input[r]
  BY <1>2, InputChange
<1>4. /\ sent[x] \in 0..Records /\ got[x] \in 0..Records /\ sent[Up(x)] \in 0..Records
      /\ sent[d] \in 0..Records /\ got[d] \in 0..Records
  BY <1>2
<1>5. 0..Records \subseteq Nat
  BY RecordsNat
<1>6. /\ Link(x, sent[x], got[x], sent[Up(x)]) /\ Link(d, sent[d], got[d], sent[x])
  BY <1>2 DEF Flow
<1> PICK given : given = sent[Up(x)]
  OBVIOUS
<1>7. Link(x, got[x], got[x], given)'
  <2>1. \A r \in Kept : ~ (got[x] < r /\ r <= got[x])
    BY <1>4, <1>5, KeptNat
  <2>2. Spans(<<>>, got[x], got[x], Kept)
    BY <2>1 DEF Spans
  <2>3. got[x] <= got[x] /\ got[x] <= given
    BY <1>4, <1>5, <1>6 DEF Link
  <2>4. Running(x)' => InputSpans(x, got[x], given)'
    <3>1. input'[x] = input[x] /\ Source(x)' = Source(x)
      BY <1>1, <1>2, <1>3 DEF Source
    <3>2. InputSpans(x, got[x], given)
      BY <1>6 DEF Link
    <3>3. QED
      BY <3>1, <3>2 DEF InputSpans
  <2>5. QED
    BY <1>1, <2>2, <2>3, <2>4 DEF Link
<1>8. Link(d, sent[d], got[d], got[x])'
  <2>1. /\ sent[d] <= got[d] /\ got[d] <= sent[x] /\ sent[x] <= got[x]
        /\ Spans(Holding(d), sent[d], got[d], Kept)
    BY <1>6 DEF Link
  <2>2. got[d] <= got[x]
    BY <1>4, <1>5, <2>1
  <2>3. Running(d)' => Running(d)
    BY DEF Running
  <2>4. Running(d)' => InputSpans(d, got[d], got[x])'
    BY <1>3, <2>3
  <2>5. QED
    BY <1>1, <1>2, <2>1, <2>2, <2>4 DEF Link
<1>9. Link(Down(x), sent[Down(x)], got[Down(x)], got[x])' /\ Link(x, got[x], got[x], sent[Up(x)])'
  BY <1>1, <1>7, <1>8
<1>10. \A s \in Stages \ {"parser", x} : s # Down(x) => Holding(s)' = Holding(s) /\ input'[s] = input[s]
  BY <1>3
<1>11. StageInv'
  BY <1>4, <1>9, <1>10, StageMoves
<1>12. QED
  BY <1>11

LEMMA RelaySendInv ==
  ASSUME StageInv, NEW x \in Relays, RelaySend(x)
  PROVE  StageInv'
<1> PICK sent \in [Stages -> 0..Records], got \in [Stages -> 0..Records] : Flow(sent, got)
  BY DEF StageInv
<1> PICK d : d = Down(x)
  OBVIOUS
<1>1. /\ StageType /\ x \in Stages \ {"parser", "publisher", "batcher"}
      /\ d \in Stages \ {"publisher", "validator", "parser"} /\ Up(d) = x
  BY StageOrder, StageChain DEF StageInv, StageType, Relays, WithRules
<1>2. /\ Running(x) /\ held[x] # 0 /\ held[x] \in Nat /\ input[d] \in Seq(Nat)
      /\ input' = [input EXCEPT ![d] = Append(input[d], held[x])]
      /\ held' = [held EXCEPT ![x] = 0]
      /\ UNCHANGED <<state, next, batch, out, confirmed>>
  BY <1>1 DEF RelaySend, relayRest, StageType
<1>3. Append(input[d], held[x]) \in Seq(Nat)
  BY <1>2
<1>4. held' \in [Stages -> Nat] /\ held'[x] = 0 /\ \A s \in Stages \ {x} : held'[s] = held[s]
  BY <1>1, <1>2 DEF StageType
<1>5. StageType'
  BY <1>1, <1>2, <1>3, <1>4, StageTypeKept DEF StageType
<1>6. /\ Holding(x) = <<held[x]>> /\ Holding(x)' = <<>>
      /\ \A s \in Stages \ {x} : Holding(s)' = Holding(s)
  BY <1>1, <1>2, <1>4 DEF Holding
<1>7. ASSUME Running(d), input'[d] = Append(input[d], held[x])
      PROVE  InputSpans(d, got[d], got[x])'
  <2>1. /\ Spans(input[d], got[d], sent[x], Kept) /\ got[d] <= sent[x]
        /\ sent[x] <= got[x] /\ Spans(<<held[x]>>, sent[x], got[x], Kept)
    BY <1>1, <1>6, <1>7 DEF Flow, Link, InputSpans, Source
  <2>2. got[d] \in 0..Records /\ sent[x] \in 0..Records /\ got[x] \in 0..Records
    BY <1>1
  <2>3. got[d] \in Nat /\ sent[x] \in Nat /\ got[x] \in Nat
    BY <2>2, RecordsNat
  <2>4. <<held[x]>> \in Seq(Nat) /\ Append(input[d], held[x]) = input[d] \o <<held[x]>>
    <3>1. \A q \in Seq(Nat), r \in Nat : <<r>> \in Seq(Nat) /\ Append(q, r) = q \o <<r>>
      OBVIOUS
    <3>2. QED
      BY <1>2, <3>1
  <2>5. Spans(input[d] \o <<held[x]>>, got[d], got[x], Kept)
    BY <1>2, <2>1, <2>3, <2>4, KeptNat, SpansJoin
  <2>6. Source(d)' = Kept
    BY <1>1, <1>2, SameStages DEF Source
  <2>7. QED
    BY <1>1, <1>7, <2>4, <2>5, <2>6 DEF InputSpans
<1>8. QED
  BY <1>1, <1>2, <1>5, <1>6, <1>7, PassesOn

LEMMA BatcherSendInv ==
  ASSUME StageInv, BatcherSend
  PROVE  StageInv'
<1> PICK sent \in [Stages -> 0..Records], got \in [Stages -> 0..Records] : Flow(sent, got)
  BY DEF StageInv
<1> PICK x, d : x = "batcher" /\ d = "publisher"
  OBVIOUS
<1>1. StageType /\ x \in Stages \ {"parser", "publisher"} /\ d \in Stages /\ d = Down(x) /\ Up(d) = x
  BY StageOrder DEF StageInv, StageType, AlwaysOn
<1>2. /\ Running(x) /\ out # <<>> /\ out \in Seq(Nat) /\ batch = <<>>
      /\ input[d] \in Seq(Seq(Nat))
      /\ input' = [input EXCEPT ![d] = Append(input[d], out)] /\ out' = <<>>
      /\ UNCHANGED <<state, next, held, batch, confirmed>>
  BY <1>1 DEF BatcherSend, batcherRest, StageType
<1>3. Append(input[d], out) \in Seq(Seq(Nat)) /\ <<>> \in Seq(Nat)
  BY <1>2
<1>4. StageType'
  BY <1>1, <1>2, <1>3, StageTypeKept DEF StageType
<1>5. /\ Holding(x) = out /\ Holding(x)' = <<>>
      /\ \A s \in Stages \ {x} : Holding(s)' = Holding(s)
  BY <1>2 DEF Holding
<1>6. ASSUME Running(d), input'[d] = Append(input[d], out)
      PROVE  InputSpans(d, got[d], got[x])'
  <2>1. /\ BatchesSpan(input[d], got[d], sent[x])
        /\ sent[x] <= got[x] /\ Spans(out, sent[x], got[x], Kept)
    BY <1>1, <1>5, <1>6 DEF Flow, Link, InputSpans
  <2>2. got[d] \in 0..Records /\ sent[x] \in 0..Records /\ got[x] \in 0..Records
    BY <1>1
  <2>3. got[d] \in Nat /\ sent[x] \in Nat /\ got[x] \in Nat
    BY <2>2, RecordsNat
  <2>4. BatchesSpan(Append(input[d], out), got[d], got[x])
    BY <1>2, <2>1, <2>3, BatchesAppend
  <2>5. Kept' = Kept
    BY <1>2, SameStages
  <2>6. QED
    BY <1>6, <2>4, <2>5 DEF InputSpans, BatchesSpan
<1>7. QED
  BY <1>1, <1>2, <1>4, <1>5, <1>6, PassesOn

\* The batcher moves what it collected to where it sends it from.
LEMMA BatcherFlushInv ==
  ASSUME StageInv, BatcherFlush
  PROVE  StageInv'
<1> PICK sent \in [Stages -> 0..Records], got \in [Stages -> 0..Records] : Flow(sent, got)
  BY DEF StageInv
<1> PICK x, d : x = "batcher" /\ d = "publisher"
  OBVIOUS
<1>1. /\ StageType /\ x \in Stages /\ d \in Stages /\ d = Down(x) /\ Up(x) \in Stages
      /\ Up(d) = x /\ x # "parser" /\ x # "publisher" /\ x # d
  BY StageOrder, StageChain DEF StageInv, StageType, AlwaysOn
<1>2. /\ Running(x) /\ batch # <<>> /\ out = <<>> /\ out' = batch /\ batch' = <<>>
      /\ UNCHANGED <<state, input, next, held, confirmed>>
  BY DEF BatcherFlush, batcherRest
<1>3. /\ Stages' = Stages /\ Kept' = Kept
      /\ \A r : Up(r)' = Up(r) /\ Down(r)' = Down(r)
  BY <1>2, SameStages
<1>4. StageType'
  BY <1>1, <1>2, <1>3 DEF StageType, StagesKnown
<1>5. \A s : Holding(s)' = Holding(s)
  BY <1>2 DEF Holding
<1> PICK given : given = sent[Up(x)]
  OBVIOUS
<1>6. Link(x, sent[x], got[x], given)'
  BY <1>1, <1>2, <1>3, <1>5, LinkUntouched DEF Flow
<1>7. Link(d, sent[d], got[d], sent[x])'
  BY <1>1, <1>2, <1>3, <1>5, LinkUntouched DEF Flow
<1>8. Link(Down(x), sent[Down(x)], got[Down(x)], sent[x])' /\ Link(x, sent[x], got[x], sent[Up(x)])'
  BY <1>1, <1>3, <1>6, <1>7
<1>9. StageInv'
  BY <1>1, <1>2, <1>4, <1>5, <1>8, StageMoves
<1>10. QED
  BY <1>9

\* A batch is confirmed.
LEMMA PublishInv ==
  ASSUME StageInv, PublishBatch
  PROVE  StageInv'
<1> PICK sent \in [Stages -> 0..Records], got \in [Stages -> 0..Records] : Flow(sent, got)
  BY DEF StageInv
<1> PICK x, w : x = "publisher" /\ w = "batcher"
  OBVIOUS
<1>1. StageType /\ x \in Stages /\ w \in Stages /\ Up(x) = w /\ x # "parser"
  BY StageOrder DEF StageInv, StageType, AlwaysOn
<1> PICK b : b = Head(input[x])
  OBVIOUS
<1>2. /\ Running(x) /\ input[x] # <<>> /\ input[x] \in Seq(Seq(Nat))
      /\ confirmed' = confirmed \o b /\ input' = [input EXCEPT ![x] = Tail(input[x])]
      /\ UNCHANGED <<state, next, held, batch, out>> /\ confirmed \in Seq(Nat)
  BY <1>1 DEF PublishBatch, publisherRest, StageType
<1>3. /\ Stages' = Stages /\ Kept' = Kept /\ \A r : Up(r)' = Up(r) /\ Down(r)' = Down(r)
  BY <1>2, SameStages
<1>4. sent[x] \in 0..Records /\ got[x] \in 0..Records /\ sent[w] \in 0..Records
  BY <1>1
<1>5. sent[x] \in Nat /\ got[x] \in Nat /\ sent[w] \in Nat /\ Records \in Nat /\ sent[w] <= Records
  BY <1>4, RecordsNat
<1>6. /\ sent[x] <= got[x] /\ Spans(<<>>, sent[x], got[x], Kept)
      /\ BatchesSpan(input[x], got[x], sent[w]) /\ Spans(confirmed, 0, sent[x], Kept)
  <2>1. Holding(x) = <<>>
    BY DEF Holding
  <2>2. QED
    BY <1>1, <1>2, <2>1 DEF Flow, Link, InputSpans
<1>7. b \in Seq(Nat) /\ Tail(input[x]) \in Seq(Seq(Nat))
  BY <1>2, <1>5, <1>6, BatchesHead
<1>8. PICK mid \in Nat : /\ got[x] <= mid /\ mid <= sent[w] /\ Spans(b, got[x], mid, Kept)
                         /\ BatchesSpan(Tail(input[x]), mid, sent[w])
  BY <1>2, <1>5, <1>6, BatchesHead
<1>9. mid \in 0..Records
  BY <1>5, <1>8
<1>10. Spans(confirmed \o b, 0, mid, Kept) /\ confirmed \o b \in Seq(Nat)
  <2>1. <<>> \in Seq(Nat) /\ 0 \in Nat /\ 0 <= sent[x] /\ confirmed \o <<>> = confirmed
    BY <1>2, <1>5
  <2>2. Spans(confirmed, 0, got[x], Kept)
    <3>1. Spans(confirmed \o <<>>, 0, got[x], Kept)
      BY <1>2, <1>5, <1>6, <2>1, KeptNat, SpansJoin
    <3>2. QED
      BY <2>1, <3>1
  <2>3. 0 <= got[x]
    BY <1>5
  <2>4. QED
    BY <1>2, <1>5, <1>7, <1>8, <2>1, <2>2, <2>3, KeptNat, SpansJoin
<1>11. StageType'
  BY <1>1, <1>2, <1>7, <1>10, StageTypeKept DEF StageType
<1>12. input'[x] = Tail(input[x]) /\ \A r \in Stages \ {x} : input'[r] = input[r]
  BY <1>1, <1>2, InputChange
<1> PICK given : given = sent[w]
  OBVIOUS
<1>13. Link(x, mid, mid, given)'
  <2>1. Spans(Holding(x)', mid, mid, Kept)
    <3>1. Holding(x)' = <<>>
      BY DEF Holding
    <3>2. \A r \in Kept : ~ (mid < r /\ r <= mid)
      BY KeptNat
    <3>3. Spans(<<>>, mid, mid, Kept)
      BY <3>2 DEF Spans
    <3>4. QED
      BY <3>1, <3>3
  <2>2. InputSpans(x, mid, given)'
    BY <1>3, <1>8, <1>12 DEF InputSpans, BatchesSpan
  <2>3. mid <= mid /\ mid <= given
    BY <1>8
  <2>4. QED
    BY <1>3, <2>1, <2>2, <2>3 DEF Link
<1>14. Link(x, mid, mid, sent[Up(x)])'
  BY <1>1, <1>3, <1>13
<1>15. \A s : Holding(s)' = Holding(s)
  BY <1>2 DEF Holding
<1>16. Spans(confirmed', 0, mid, Kept)
  BY <1>2, <1>10
<1>17. StageInv'
  BY <1>1, <1>2, <1>9, <1>11, <1>12, <1>14, <1>15, <1>16, StageMoves
<1>18. QED
  BY <1>17

-----------------------------------------------------------------------------
(* Ending.                                                                 *)
LEMMA RelayStopInv ==
  ASSUME StageInv, NEW x \in Relays, RelayStop(x)
  PROVE  StageInv'
<1> PICK sent \in [Stages -> 0..Records], got \in [Stages -> 0..Records] : Flow(sent, got)
  BY DEF StageInv
<1>1. /\ StageType /\ x \in Stages \ {"parser", "publisher", "batcher"} /\ Running(x)
      /\ End(x, "ok") /\ UNCHANGED <<next, held, batch, out, confirmed>>
  BY DEF StageInv, Relays, RelayStop, relayRest
<1>2. CASE held[x] # 0
  <2>1. Dropped(x)
    BY <1>2 DEF RelayStop
  <2>2. SomeFailed
    BY <1>1, <2>1, GoneIsFailed
  <2>3. QED
    BY <1>1, <2>2, StageEnds
<1>3. CASE held[x] = 0
  <2>1. Exhausted(x) /\ Holding(x) = <<>>
    BY <1>1, <1>3 DEF RelayStop, Holding
  <2>2. Drained(x, sent)
    BY <1>1, <2>1, ExhaustedIsDrained
  <2>3. QED
    BY <1>1, <2>2, StageEnds
<1>4. QED
  BY <1>2, <1>3

LEMMA BatcherStopInv ==
  ASSUME StageInv, BatcherStop
  PROVE  StageInv'
<1> PICK sent \in [Stages -> 0..Records], got \in [Stages -> 0..Records] : Flow(sent, got)
  BY DEF StageInv
<1>1. /\ StageType /\ "batcher" \in Stages \ {"parser", "publisher"} /\ Running("batcher")
      /\ UNCHANGED <<next, held, batch, out, confirmed>>
  BY StageOrder DEF StageInv, StageType, AlwaysOn, BatcherStop, batcherRest
<1>2. CASE out # <<>> /\ End("batcher", "err")
  BY <1>1, <1>2, StageEnds
<1>3. CASE out = <<>> /\ batch = <<>> /\ Exhausted("batcher") /\ End("batcher", "ok")
  <2>1. Holding("batcher") = <<>>
    BY <1>3 DEF Holding
  <2>2. Drained("batcher", sent)
    BY <1>1, <1>3, <2>1, ExhaustedIsDrained
  <2>3. QED
    BY <1>1, <1>3, <2>2, StageEnds
<1>4. QED
  BY <1>2, <1>3 DEF BatcherStop

LEMMA PublisherEnds ==
  ASSUME StageInv, PublishFails \/ PublisherStop
  PROVE  StageInv'
<1> PICK sent \in [Stages -> 0..Records], got \in [Stages -> 0..Records] : Flow(sent, got)
  BY DEF StageInv
<1>1. StageType /\ "publisher" \in Stages \ {"parser"} /\ Running("publisher")
  BY StageOrder DEF StageInv, StageType, AlwaysOn, PublishFails, PublisherStop
<1>2. UNCHANGED <<next, held, batch, out, confirmed>>
  BY DEF PublishFails, PublisherStop, publisherRest
<1>3. CASE PublishFails
  <2>1. End("publisher", "err")
    BY <1>3 DEF PublishFails
  <2>2. QED
    BY <1>1, <1>2, <2>1, StageEnds
<1>4. CASE PublisherStop
  <2>1. Exhausted("publisher") /\ End("publisher", "ok") /\ Holding("publisher") = <<>>
    BY <1>4 DEF PublisherStop, Holding
  <2>2. Drained("publisher", sent)
    BY <1>1, <2>1, ExhaustedIsDrained
  <2>3. QED
    BY <1>1, <1>2, <2>1, <2>2, StageEnds
<1>5. QED
  BY <1>3, <1>4

-----------------------------------------------------------------------------
(* The stages together.                                                    *)
LEMMA StageInit == Init => StageInv
<1> SUFFICES ASSUME Init PROVE StageInv
  OBVIOUS
<1>1. PICK S \in {AlwaysOn, AlwaysOn \cup {"validator"}} : state = [s \in S |-> "run"]
  BY DEF Init
<1>2. Stages = S
  BY <1>1 DEF Stages
<1>3. StageType
  <2>1. <<>> \in Seq(Nat) /\ <<>> \in Seq(Seq(Nat))
    OBVIOUS
  <2>2. /\ input = [s \in Stages |-> <<>>] /\ next = 1 /\ held = [s \in Stages |-> 0]
        /\ batch = <<>> /\ out = <<>> /\ confirmed = <<>>
    BY DEF Init
  <2>3. StagesKnown /\ state \in [Stages -> {"run", "ok", "err"}] /\ "publisher" \in Stages
    BY <1>1, <1>2 DEF StagesKnown, AlwaysOn
  <2>4. next \in 1..(Records + 1)
    BY <2>2, RecordsNat
  <2>5. QED
    BY <2>1, <2>2, <2>3, <2>4 DEF StageType
<1> DEFINE zero == [s \in Stages |-> 0]
<1>4. zero \in [Stages -> 0..Records] /\ \A s \in Stages : zero[s] = 0
  BY RecordsNat
<1> HIDE DEF zero
<1>5. \A s \in Stages : state[s] = "run"
  BY <1>1, <1>2
<1>6. Kept \in SUBSET Nat /\ 1..Records \in SUBSET Nat /\ "parser" \in Stages /\ "publisher" \in Stages
  BY <1>3, KeptNat, StageOrder DEF StageType, AlwaysOn
<1>7. Spans(<<>>, 0, 0, Kept) /\ Spans(<<>>, 0, 0, 1..Records)
  <2>1. \A r \in Nat : ~ (0 < r /\ r <= 0)
    OBVIOUS
  <2>2. QED
    BY <1>6, <2>1 DEF Spans
<1>8. ASSUME NEW s \in Stages \ {"parser"} PROVE Link(s, zero[s], zero[s], zero[Up(s)])
  <2>1. zero[s] = 0 /\ zero[Up(s)] = 0
    BY <1>3, <1>4, StageChain DEF StageType
  <2>2. Holding(s) = <<>> /\ input[s] = <<>>
    BY DEF Init, Holding
  <2>3. BatchesSpan(<<>>, 0, 0)
    <3> DEFINE cut == [i \in 0..Len(<<>>) |-> 0]
    <3>1. /\ cut \in [0..Len(<<>>) -> Nat] /\ cut[0] = 0 /\ cut[Len(<<>>)] = 0
          /\ \A i \in 0..Len(<<>>) : cut[i] = 0
      OBVIOUS
    <3> HIDE DEF cut
    <3>2. \A i, j \in 0..Len(<<>>) : i <= j => cut[i] <= cut[j]
      BY <3>1
    <3>3. \A i \in 1..Len(<<>>) : FALSE
      OBVIOUS
    <3>4. QED
      BY <3>1, <3>2, <3>3 DEF BatchesSpan
  <2>4. InputSpans(s, 0, 0)
    BY <1>7, <2>2, <2>3 DEF InputSpans, Source
  <2>5. Link(s, 0, 0, 0)
    BY <1>7, <2>2, <2>4 DEF Link
  <2>6. QED
    BY <2>1, <2>5
<1>9. Flow(zero, zero)
  <2>1. next - 1 = 0 /\ confirmed = <<>>
    BY DEF Init
  <2>2. QED
    BY <1>4, <1>5, <1>6, <1>7, <1>8, <2>1 DEF Flow
<1>10. QED
  BY <1>3, <1>4, <1>9 DEF StageInv

\* The function around the stages does not touch them.
LEMMA StageRest ==
  ASSUME StageInv, UNCHANGED stageVars
  PROVE  StageInv'
<1> PICK sent \in [Stages -> 0..Records], got \in [Stages -> 0..Records] : Flow(sent, got)
  BY DEF StageInv
<1>1. UNCHANGED <<state, input, next, held, batch, out, confirmed>>
  BY DEF stageVars
<1>2. Stages' = Stages /\ Kept' = Kept /\ \A s : Up(s)' = Up(s)
  BY <1>1, SameStages
<1>3. StageType'
  BY <1>1, <1>2 DEF StageInv, StageType, StagesKnown
<1>4. ASSUME NEW s \in Stages \ {"parser"} PROVE Link(s, sent[s], got[s], sent[Up(s)])'
  <2>1. Link(s, sent[s], got[s], sent[Up(s)]) /\ Holding(s)' = Holding(s)
    BY <1>1 DEF Flow, Holding
  <2>2. QED
    BY <1>1, <1>2, <2>1, LinkUntouched
<1>5. ASSUME NEW s \in Stages, state[s] = "ok" PROVE (SomeFailed \/ Drained(s, sent))'
  BY <1>1, <1>2, <1>5 DEF Flow, SomeFailed, Drained, Running
<1>6. Flow(sent, got)'
  BY <1>1, <1>2, <1>4, <1>5 DEF Flow
<1>7. QED
  BY <1>2, <1>3, <1>6 DEF StageInv

LEMMA StageStep == StageInv /\ [Next]_vars => StageInv'
<1> SUFFICES ASSUME StageInv, [Next]_vars PROVE StageInv'
  OBVIOUS
<1>1. CASE Parser
  BY <1>1, ParserSendInv, ParserEnds DEF Parser
<1>2. ASSUME NEW x \in Relays, Relay(x) PROVE StageInv'
  BY <1>2, RelayReceiveInv, RelaySendInv, RelayStopInv DEF Relay
<1>3. CASE Batcher
  BY <1>3, BatcherReceiveInv, BatcherFlushInv, BatcherSendInv, BatcherStopInv DEF Batcher
<1>4. CASE Publisher
  BY <1>4, PublishInv, PublisherEnds DEF Publisher
<1>5. CASE Main
  <2>1. UNCHANGED stageVars
    BY <1>5 DEF Main, JoinAll, AwaitNext, Announce, Commit, Close
  <2>2. QED
    BY <2>1, StageRest
<1>6. CASE UNCHANGED vars
  BY <1>6, StageRest DEF vars
<1>7. QED
  BY <1>1, <1>2, <1>3, <1>4, <1>5, <1>6 DEF Next

LEMMA StagesFlow == Spec => []StageInv
<1>1. QED
  BY StageInit, StageStep, PTL DEF Spec

\* What is confirmed is in file order, without a hole and without a repetition:
\* for every length of the file, every capacity and batch size, and whatever
\* stages fail in whatever order (runtime.rs:113-208).
THEOREM DeliveredInOrder == Spec => []ConfirmedInOrder
<1>1. ASSUME StageInv PROVE ConfirmedInOrder
  <2>1. PICK sent \in [Stages -> 0..Records], got \in [Stages -> 0..Records] : Flow(sent, got)
    BY <1>1 DEF StageInv
  <2>2. "publisher" \in Stages
    BY <1>1, StageOrder DEF StageInv, StageType, AlwaysOn
  <2>3. QED
    BY <2>1, <2>2 DEF Flow, ConfirmedInOrder
<1>2. QED
  BY <1>1, StagesFlow, PTL

-----------------------------------------------------------------------------
(* The function around the stages.                                         *)

AllOk == \A s \in Stages : state[s] = "ok"

MainType ==
  /\ pc \in {"run", "announce", "commit", "close", "returned"}
  /\ result \in IF pc \in {"close", "returned"} THEN {"ok", "err"} ELSE {"none"}
  /\ announced \in BOOLEAN
  /\ awaiting \in Nat /\ awaiting >= 1 /\ (pc = "run" => awaiting <= Len(Chain))

\* It goes on only when every stage has ended well, and with rules it waits for all of
\* them whatever their results are.
MainInv ==
  /\ MainType
  /\ pc = "run" => ~ announced /\ \A i \in 1..(awaiting - 1) : state[Chain[i]] = "ok"
  /\ pc \in {"announce", "commit"} \/ announced \/ result = "ok" => AllOk
  /\ WithRules /\ pc # "run" => \A s \in Stages : ~ Running(s)
  /\ WithRules /\ pc = "returned" => connection = "closed"

\* The chain is all of the stages.
LEMMA ChainStages ==
  ASSUME StagesKnown
  PROVE  /\ Len(Chain) \in Nat /\ Len(Chain) >= 1
         /\ \A s \in Stages : \E i \in 1..Len(Chain) : Chain[i] = s
         /\ \A i \in 1..Len(Chain) : Chain[i] \in Stages
<1>1. CASE WithRules
  <2>1. /\ Chain = <<"parser", "validator", "normalizer", "batcher", "publisher">>
        /\ Stages = {"parser", "validator", "normalizer", "batcher", "publisher"}
    BY <1>1 DEF Chain, WithRules, StagesKnown, AlwaysOn
  <2>2. /\ Len(Chain) = 5 /\ 1..5 = {1, 2, 3, 4, 5}
        /\ Chain[1] = "parser" /\ Chain[2] = "validator" /\ Chain[3] = "normalizer"
        /\ Chain[4] = "batcher" /\ Chain[5] = "publisher"
    BY <2>1
  <2>3. QED
    BY <2>1, <2>2
<1>2. CASE ~ WithRules
  <2>1. /\ Chain = <<"parser", "normalizer", "batcher", "publisher">>
        /\ Stages = {"parser", "normalizer", "batcher", "publisher"}
    BY <1>2 DEF Chain, WithRules, StagesKnown, AlwaysOn
  <2>2. /\ Len(Chain) = 4 /\ 1..4 = {1, 2, 3, 4}
        /\ Chain[1] = "parser" /\ Chain[2] = "normalizer"
        /\ Chain[3] = "batcher" /\ Chain[4] = "publisher"
    BY <2>1
  <2>3. QED
    BY <2>1, <2>2
<1>3. QED
  BY <1>1, <1>2

\* A step of a stage: some stage runs, and one that has ended stays as it is.
StageWork == Parser \/ (\E s \in Relays : Relay(s)) \/ Batcher \/ Publisher

LEMMA StageWorks ==
  ASSUME StageType, StageWork
  PROVE  /\ \E s \in Stages : Running(s)
         /\ DOMAIN state' = DOMAIN state
         /\ \A s \in Stages : ~ Running(s) => state'[s] = state[s]
         /\ UNCHANGED mainVars
<1>1. AlwaysOn \subseteq Stages /\ Relays \subseteq Stages /\ DOMAIN state = Stages
  BY StageOrder DEF StageType, Relays
<1>2. ASSUME NEW x \in Stages, Running(x), state' = state \/ \E how : state' = [state EXCEPT ![x] = how]
      PROVE  DOMAIN state' = DOMAIN state /\ \A s \in Stages : ~ Running(s) => state'[s] = state[s]
  BY <1>1, <1>2 DEF Running
<1>3. CASE Parser
  <2>1. "parser" \in Stages /\ Running("parser") /\ UNCHANGED mainVars
    BY <1>1, <1>3 DEF AlwaysOn, Parser, ParserSend, ParserStop, ParserFails, parserRest
  <2>2. state' = state \/ \E how : state' = [state EXCEPT !["parser"] = how]
    BY <1>3 DEF Parser, ParserSend, ParserStop, ParserFails, End
  <2>3. QED
    BY <1>2, <2>1, <2>2
<1>4. ASSUME NEW x \in Relays, Relay(x)
      PROVE  /\ x \in Stages /\ Running(x) /\ UNCHANGED mainVars
             /\ state' = state \/ \E how : state' = [state EXCEPT ![x] = how]
  BY <1>1, <1>4 DEF Relay, RelayReceive, RelaySend, RelayStop, relayRest, End
<1>5. CASE Batcher
  <2>1. "batcher" \in Stages /\ Running("batcher") /\ UNCHANGED mainVars
    BY <1>1, <1>5 DEF AlwaysOn, Batcher, BatcherReceive, BatcherFlush, BatcherSend, BatcherStop, batcherRest
  <2>2. state' = state \/ \E how : state' = [state EXCEPT !["batcher"] = how]
    BY <1>5 DEF Batcher, BatcherReceive, BatcherFlush, BatcherSend, BatcherStop, End
  <2>3. QED
    BY <1>2, <2>1, <2>2
<1>6. CASE Publisher
  <2>1. "publisher" \in Stages /\ Running("publisher") /\ UNCHANGED mainVars
    BY <1>1, <1>6 DEF AlwaysOn, Publisher, PublishBatch, PublishFails, PublisherStop, publisherRest
  <2>2. state' = state \/ \E how : state' = [state EXCEPT !["publisher"] = how]
    BY <1>6 DEF Publisher, PublishBatch, PublishFails, PublisherStop, End
  <2>3. QED
    BY <1>2, <2>1, <2>2
<1>7. QED
  BY <1>2, <1>3, <1>4, <1>5, <1>6 DEF StageWork

LEMMA MainInit == Init => MainInv
<1> SUFFICES ASSUME Init PROVE MainInv
  OBVIOUS
<1>1. StagesKnown
  BY StageInit DEF StageInv, StageType
<1>2. /\ pc = "run" /\ awaiting = 1 /\ result = "none" /\ announced = FALSE
  BY DEF Init
<1>3. 1 <= Len(Chain)
  BY <1>1, ChainStages
<1>4. MainType
  <2>1. result \in (IF pc \in {"close", "returned"} THEN {"ok", "err"} ELSE {"none"})
    BY <1>2
  <2>2. awaiting \in Nat /\ awaiting >= 1 /\ awaiting <= Len(Chain)
    BY <1>2, <1>3
  <2>3. QED
    BY <1>2, <2>1, <2>2 DEF MainType
<1>5. \A i \in 1..(awaiting - 1) : FALSE
  BY <1>2
<1>6. QED
  BY <1>2, <1>4, <1>5 DEF MainInv

\* A step of a stage: the function has not gone on with rules, and goes on only when
\* no stage is left to take one.
LEMMA WorkInv ==
  ASSUME StageInv, MainInv, StageWork
  PROVE  MainInv'
<1>1. /\ \E s \in Stages : Running(s)
      /\ DOMAIN state' = DOMAIN state /\ UNCHANGED mainVars
      /\ \A s \in Stages : ~ Running(s) => state'[s] = state[s]
  BY StageWorks DEF StageInv
<1>2. /\ Stages' = Stages /\ WithRules' = WithRules /\ Chain' = Chain
      /\ pc' = pc /\ awaiting' = awaiting /\ result' = result /\ announced' = announced
  BY <1>1, SameStages DEF mainVars
<1>3. ~ AllOk /\ (WithRules => pc = "run")
  BY <1>1 DEF AllOk, Running, MainInv
<1>4. MainType'
  BY <1>2 DEF MainInv, MainType
<1>5. \A i \in 1..(awaiting - 1) : pc = "run" => state'[Chain[i]] = "ok"
  <2> SUFFICES ASSUME NEW i \in 1..(awaiting - 1), pc = "run" PROVE state'[Chain[i]] = "ok"
    OBVIOUS
  <2>1. state[Chain[i]] = "ok"
    BY DEF MainInv
  <2>2. i \in 1..Len(Chain)
    BY ChainStages DEF MainInv, MainType, StageInv, StageType
  <2>3. Chain[i] \in Stages
    BY <2>2, ChainStages DEF StageInv, StageType
  <2>4. QED
    BY <1>1, <2>1, <2>3 DEF Running
<1>6. QED
  BY <1>2, <1>3, <1>4, <1>5 DEF MainInv

LEMMA MainStep ==
  ASSUME StageInv, MainInv, Main
  PROVE  MainInv'
<1>1. UNCHANGED stageVars /\ StagesKnown
  BY DEF Main, JoinAll, AwaitNext, Announce, Commit, Close, StageInv, StageType
<1>2. /\ state' = state /\ Stages' = Stages /\ WithRules' = WithRules /\ Chain' = Chain
      /\ (AllOk <=> AllOk') /\ \A s : Running(s)' <=> Running(s)
  BY <1>1, SameStages DEF stageVars, AllOk, Running
<1>3. CASE JoinAll
  <2>1. /\ pc = "run" /\ WithRules /\ \A s \in Stages : ~ Running(s)
        /\ \/ AllOk /\ pc' = "announce" /\ result' = result
           \/ pc' = "close" /\ result' = "err"
        /\ awaiting' = awaiting /\ announced' = announced
    BY <1>3 DEF JoinAll, AllOk
  <2>2. MainType' /\ ~ announced' /\ result' # "ok" /\ pc' \notin {"run", "returned"}
    BY <1>2, <2>1 DEF MainInv, MainType
  <2>3. QED
    BY <1>2, <2>1, <2>2 DEF MainInv
<1>4. CASE AwaitNext /\ pc' = "close"
  <2>1. /\ pc = "run" /\ ~ WithRules /\ announced' = announced
        /\ \/ awaiting' = awaiting /\ result' = "err"
           \/ awaiting' = awaiting + 1 /\ pc' \in {"announce", "run"}
    BY <1>4 DEF AwaitNext
  <2>2. MainType' /\ ~ announced' /\ result' # "ok"
    BY <1>2, <1>4, <2>1 DEF MainInv, MainType
  <2>3. QED
    BY <1>2, <1>4, <2>1, <2>2 DEF MainInv
<1>5. CASE AwaitNext /\ pc' # "close"
  <2>1. /\ pc = "run" /\ ~ WithRules /\ announced' = announced /\ result' = result
        /\ ~ Running(Chain[awaiting]) /\ state[Chain[awaiting]] # "err"
        /\ awaiting' = awaiting + 1 /\ pc' = IF awaiting = Len(Chain) THEN "announce" ELSE "run"
    BY <1>5 DEF AwaitNext
  <2>2. /\ Len(Chain) \in Nat /\ awaiting \in 1..Len(Chain) /\ Chain[awaiting] \in Stages
        /\ ~ announced' /\ result' = "none"
    BY <1>1, <2>1, ChainStages DEF MainInv, MainType
  <2>3. \A i \in 1..awaiting : state[Chain[i]] = "ok"
    <3>1. state[Chain[awaiting]] = "ok"
      BY <2>1, <2>2 DEF Running, StageInv, StageType
    <3>2. \A i \in 1..awaiting : i = awaiting \/ i \in 1..(awaiting - 1)
      BY <2>2
    <3>3. QED
      BY <2>1, <3>1, <3>2 DEF MainInv
  <2>4. MainType'
    BY <1>2, <2>1, <2>2 DEF MainInv, MainType
  <2>5. awaiting' - 1 = awaiting
    BY <2>1, <2>2
  <2>6. pc' # "run" => AllOk
    BY <1>1, <2>1, <2>3, ChainStages DEF AllOk
  <2>7. QED
    BY <1>2, <2>1, <2>2, <2>3, <2>4, <2>5, <2>6 DEF MainInv
<1>6. CASE Announce
  <2>1. /\ pc = "announce" /\ awaiting' = awaiting /\ AllOk /\ result = "none"
        /\ \/ announced' = TRUE /\ pc' = "commit" /\ result' = result
           \/ announced' = announced /\ pc' = "close" /\ result' = "err"
    BY <1>6 DEF Announce, MainInv, MainType
  <2>2. QED
    BY <1>2, <2>1 DEF MainInv, MainType
<1>7. CASE Commit
  <2>1. /\ pc = "commit" /\ awaiting' = awaiting /\ AllOk /\ announced' = announced
        /\ pc' = "close" /\ result' \in {"ok", "err"}
    BY <1>7 DEF Commit, MainInv
  <2>2. QED
    BY <1>2, <2>1 DEF MainInv, MainType
<1>8. CASE Close
  <2>1. /\ pc = "close" /\ pc' = "returned" /\ connection' = "closed"
        /\ UNCHANGED <<awaiting, result, announced>>
    BY <1>8 DEF Close
  <2>2. QED
    BY <1>2, <2>1 DEF MainInv, MainType
<1>9. QED
  BY <1>3, <1>4, <1>5, <1>6, <1>7, <1>8 DEF Main

LEMMA Returning == Spec => []MainInv
<1>1. ASSUME StageInv, MainInv, [Next]_vars PROVE MainInv'
  <2>1. CASE Main
    BY <1>1, <2>1, MainStep
  <2>2. CASE StageWork
    BY <1>1, <2>2, WorkInv
  <2>3. CASE UNCHANGED vars
    <3>1. /\ UNCHANGED <<state, pc, awaiting, result, announced, connection>>
      BY <2>3 DEF vars, stageVars, mainVars
    <3>2. Stages' = Stages /\ WithRules' = WithRules /\ Chain' = Chain
      BY <3>1, SameStages
    <3>3. QED
      BY <1>1, <3>1, <3>2 DEF MainInv, MainType, AllOk, Running
  <2>4. QED
    BY <1>1, <2>1, <2>2, <2>3 DEF Next, StageWork
<1>2. QED
  BY <1>1, MainInit, StagesFlow, PTL DEF Spec

\* Where every stage has ended well, nothing the rules keep is missing.
LEMMA AllDelivered ==
  ASSUME StageInv, AllOk
  PROVE  Spans(confirmed, 0, Records, Kept)
<1> PICK sent \in [Stages -> 0..Records], got \in [Stages -> 0..Records] : Flow(sent, got)
  BY DEF StageInv
<1>1. StageType /\ ~ SomeFailed /\ \A s \in Stages : Drained(s, sent)
  BY DEF StageInv, AllOk, SomeFailed, Flow
<1>2. /\ "parser" \in Stages /\ "normalizer" \in Stages /\ "batcher" \in Stages /\ "publisher" \in Stages
      /\ Kept \in SUBSET Nat /\ Records \in Nat
  BY <1>1, StageOrder, KeptNat DEF StageType, AlwaysOn
<1>3. \A s \in Stages : sent[s] \in Nat /\ sent[s] <= Records
  BY RecordsNat
<1>4. sent["parser"] = Records
  <2>1. next > Records /\ sent["parser"] = next - 1 /\ next \in 1..(Records + 1)
    BY <1>1, <1>2 DEF Drained, Flow, StageType
  <2>2. QED
    BY <1>2, <2>1
<1>5. \A s \in Stages \ {"parser"}, r \in Kept : r <= sent[Up(s)] => r <= sent[s]
  BY <1>1, <1>2, <1>3 DEF Drained
<1>6. /\ Up("publisher") = "batcher" /\ Up("batcher") = "normalizer"
      /\ Up("normalizer") = IF WithRules THEN "validator" ELSE "parser"
      /\ WithRules => "validator" \in Stages /\ Up("validator") = "parser"
  BY <1>1, StageOrder DEF StageType, WithRules
<1>7. \A r \in Kept : r <= Records => r <= sent["normalizer"]
  <2>1. CASE WithRules
    <3>1. \A r \in Kept : r <= Records => r <= sent["validator"]
      BY <1>4, <1>5, <1>6, <2>1
    <3>2. QED
      BY <1>2, <1>5, <1>6, <2>1, <3>1
  <2>2. CASE ~ WithRules
    BY <1>2, <1>4, <1>5, <1>6, <2>2
  <2>3. QED
    BY <2>1, <2>2
<1>8. \A r \in Kept : r <= Records => r <= sent["publisher"]
  BY <1>2, <1>5, <1>6, <1>7
<1>9. Spans(confirmed, 0, sent["publisher"], Kept) /\ confirmed \in Seq(Nat)
  BY <1>1 DEF Flow, StageType
<1>10. \A i \in DOMAIN confirmed : confirmed[i] \in Nat
  BY <1>9
<1>11. \A i \in DOMAIN confirmed : confirmed[i] <= Records
  BY <1>2, <1>3, <1>9, <1>10 DEF Spans
<1>12. QED
  BY <1>8, <1>9, <1>11 DEF Spans

\* file_complete is sent only when the broker has confirmed every record the rules
\* keep: the stages that answer Ok although the next one is gone are never all of them
\* (parser.rs:301-304, mod.rs:690-693, 728-731).
THEOREM AnnouncedIsWhole == Spec => []AnnouncedWhole
<1>1. StageInv /\ MainInv => AnnouncedWhole
  BY AllDelivered DEF AnnouncedWhole, MainInv
<1>2. QED
  BY <1>1, StagesFlow, Returning, PTL

\* With rules the connection of a file that has returned is closed and stays so: no
\* stage is left that could open it again (mod.rs:460-465, 526-527, 631-633).
THEOREM Released == Spec => []ReleasedWithRules
<1>1. MainInv => ReleasedWithRules
  BY DEF MainInv, ReleasedWithRules, ReleasedOnReturn
<1>2. QED
  BY <1>1, Returning, PTL

-----------------------------------------------------------------------------
(* The pipeline implements the task that DiscogsRun takes it to be.        *)

LEMMA KeptFinite == IsFiniteSet(Kept) /\ Cardinality(Kept) \in Nat
<1>1. IsFiniteSet(1..Records)
  BY FS_Interval, RecordsNat
<1>2. Kept \subseteq 1..Records
  BY DEF Kept
<1>3. QED
  BY <1>1, <1>2, FS_Subset, FS_CardinalityType

\* A sequence that spans an interval counts the members of the interval.
LEMMA SpansCount ==
  ASSUME NEW q \in Seq(Nat), NEW lo \in Nat, NEW hi \in Nat, NEW K \in SUBSET Nat,
         IsFiniteSet(K), Spans(q, lo, hi, K)
  PROVE  /\ Len(q) <= Cardinality(K)
         /\ (\A r \in K : lo < r /\ r <= hi) => Len(q) = Cardinality(K)
<1>1. DOMAIN q = 1..Len(q) /\ Len(q) \in Nat /\ q \in [1..Len(q) -> Nat]
  OBVIOUS
<1>2. q \in [1..Len(q) -> K]
  BY <1>1 DEF Spans
<1>3. ASSUME NEW i \in 1..Len(q), NEW j \in 1..Len(q), q[i] = q[j] PROVE i = j
  <2>1. ~ (i < j) /\ ~ (j < i)
    BY <1>1, <1>3 DEF Spans
  <2>2. QED
    BY <2>1
<1>4. q \in Injection(1..Len(q), K)
  BY <1>2, <1>3, Fun_IsInj
<1>5. Cardinality(1..Len(q)) = Len(q)
  <2>1. 1 \in Int /\ Len(q) \in Int
    BY <1>1
  <2>2. Cardinality(1..Len(q)) = IF 1 > Len(q) THEN 0 ELSE Len(q) - 1 + 1
    BY <2>1, FS_Interval
  <2>3. QED
    BY <1>1, <2>2
<1>6. /\ Len(q) <= Cardinality(K)
      /\ Len(q) = Cardinality(K) <=> q \in Surjection(1..Len(q), K)
  BY <1>4, <1>5, FS_Injection
<1>7. ASSUME \A r \in K : lo < r /\ r <= hi PROVE q \in Surjection(1..Len(q), K)
  <2>1. \A r \in K : \E i \in 1..Len(q) : q[i] = r
    BY <1>1, <1>7 DEF Spans
  <2>2. QED
    BY <1>2, <2>1, Fun_IsSurj
<1>8. QED
  BY <1>6, <1>7

RowsBounded == Len(confirmed) \in Nat /\ Len(confirmed) <= Cardinality(Kept)

LEMMA ConfirmedCount ==
  ASSUME StageInv
  PROVE  RowsBounded /\ (AllOk => Len(confirmed) = Cardinality(Kept))
<1>1. confirmed \in Seq(Nat) /\ Kept \in SUBSET Nat /\ Records \in Nat /\ 0..Records \subseteq Nat
  BY KeptNat, RecordsNat DEF StageInv, StageType
<1>2. \E last \in 0..Records : Spans(confirmed, 0, last, Kept)
  <2>1. PICK sent \in [Stages -> 0..Records], got \in [Stages -> 0..Records] : Flow(sent, got)
    BY DEF StageInv
  <2>2. "publisher" \in Stages
    BY StageOrder DEF StageInv, StageType, AlwaysOn
  <2>3. QED
    BY <2>1, <2>2 DEF Flow
<1>3. Len(confirmed) <= Cardinality(Kept)
  BY <1>1, <1>2, KeptFinite, SpansCount
<1>4. ASSUME AllOk PROVE Len(confirmed) = Cardinality(Kept)
  <2>1. Spans(confirmed, 0, Records, Kept)
    BY <1>4, AllDelivered
  <2>2. \A r \in Kept : 0 < r /\ r <= Records
    BY <1>1 DEF Kept
  <2>3. QED
    BY <1>1, <2>1, <2>2, KeptFinite, SpansCount
<1>5. Len(confirmed) \in Nat
  BY <1>1
<1>6. QED
  BY <1>3, <1>4, <1>5 DEF RowsBounded

LEMMA TaskInit == Init => Task!Init
<1> SUFFICES ASSUME Init PROVE Task!Init
  OBVIOUS
<1>1. Phase = "started"
  BY DEF Init, Phase
<1>2. Len(confirmed) = 0
  BY DEF Init
<1>3. WithRules \in BOOLEAN
  BY DEF WithRules
<1>4. QED
  BY <1>1, <1>2, <1>3, KeptFinite DEF Task!Init

\* A confirmed batch is not empty and counts only records that are kept; the function
\* has gone on then only if a stage was left behind by a failure.
LEMMA PublishMaps ==
  ASSUME StageInv, MainInv, RowsBounded', PublishBatch
  PROVE  Task!Publish \/ Task!PublishLate
<1> PICK sent \in [Stages -> 0..Records], got \in [Stages -> 0..Records] : Flow(sent, got)
  BY DEF StageInv
<1>1. /\ "publisher" \in Stages /\ Up("publisher") \in Stages
      /\ input["publisher"] \in Seq(Seq(Nat)) /\ confirmed \in Seq(Nat)
  BY StageOrder, StageChain DEF StageInv, StageType, AlwaysOn
<1>2. /\ Running("publisher") /\ input["publisher"] # <<>>
      /\ confirmed' = confirmed \o Head(input["publisher"])
      /\ state' = state /\ UNCHANGED mainVars
  BY DEF PublishBatch, publisherRest
<1>3. Head(input["publisher"]) \in Seq(Nat) /\ Head(input["publisher"]) # <<>>
  <2>1. /\ BatchesSpan(input["publisher"], got["publisher"], sent[Up("publisher")])
        /\ got["publisher"] \in 0..Records /\ sent[Up("publisher")] \in 0..Records
    BY <1>1, <1>2 DEF Flow, Link, InputSpans
  <2>2. 0..Records \subseteq Nat
    BY RecordsNat
  <2>3. QED
    BY <1>1, <1>2, <2>1, <2>2, BatchesHead
<1>4. Kept' = Kept /\ WithRules' = WithRules
  BY <1>2, SameStages
<1>5. Len(confirmed') \in (Len(confirmed) + 1)..Cardinality(Kept)
  <2>1. /\ Len(confirmed') \in Nat /\ Len(confirmed') <= Cardinality(Kept)
        /\ Cardinality(Kept) \in Nat
    BY <1>4, KeptFinite DEF RowsBounded
  <2>2. Len(confirmed') >= Len(confirmed) + 1
    BY <1>1, <1>2, <1>3
  <2>3. Len(confirmed) \in Nat
    BY <1>1
  <2>4. QED
    BY <2>1, <2>2, <2>3
<1>6. Phase' = Phase
  BY <1>2 DEF Phase, mainVars
<1>7. Task!MoreRows
  BY <1>4, <1>5, <1>6 DEF Task!MoreRows
<1>8. ~ AllOk
  BY <1>1, <1>2 DEF AllOk, Running
<1>9. CASE pc = "run"
  BY <1>7, <1>9 DEF Task!Publish, Phase
<1>10. CASE pc # "run"
  <2>1. pc \in {"close", "returned"} /\ result = "err" /\ ~ WithRules
    BY <1>1, <1>2, <1>8, <1>10 DEF MainInv, MainType
  <2>2. Phase = "failed"
    BY <2>1 DEF Phase
  <2>3. QED
    BY <1>7, <2>1, <2>2 DEF Task!PublishLate
<1>11. QED
  BY <1>9, <1>10

LEMMA MainMaps ==
  ASSUME StageInv, MainInv, MainInv', Main
  PROVE  [Task!Next]_(Task!taskVars)
<1>1. UNCHANGED stageVars
  BY DEF Main, JoinAll, AwaitNext, Announce, Commit, Close
<1>2. Kept' = Kept /\ WithRules' = WithRules /\ confirmed' = confirmed /\ (AllOk' <=> AllOk)
  BY <1>1, SameStages DEF stageVars, AllOk
<1>3. /\ \A from, to : Phase \in from /\ Phase' = to => Task!Goto(from, to)
      /\ Phase' = Phase => UNCHANGED Task!taskVars
  BY <1>2 DEF Task!Goto, Task!taskVars
<1>4. pc \in {"run", "announce", "commit", "close", "returned"} /\ result \in {"none", "ok", "err"}
  BY DEF MainInv, MainType
<1>5. CASE JoinAll \/ AwaitNext
  <2>1. pc = "run" /\ Phase = "started"
    BY <1>5 DEF JoinAll, AwaitNext, Phase
  <2>2. CASE pc' = "announce"
    <3>1. Len(confirmed) = Cardinality(Kept)
      BY <1>2, <2>2, ConfirmedCount DEF MainInv
    <3>2. Phase' = "drained"
      BY <2>2 DEF Phase
    <3>3. Task!Drain
      BY <1>3, <2>1, <3>1, <3>2 DEF Task!Drain
    <3>4. QED
      BY <3>3 DEF Task!Next
  <2>3. CASE pc' = "close"
    <3>1. result' = "err"
      BY <1>5, <2>3 DEF JoinAll, AwaitNext
    <3>2. Phase' = "failed"
      BY <2>3, <3>1 DEF Phase
    <3>3. Task!Fail
      BY <1>3, <2>1, <3>2 DEF Task!Fail
    <3>4. QED
      BY <3>3 DEF Task!Next
  <2>4. CASE pc' = "run"
    BY <1>3, <2>1, <2>4 DEF Phase
  <2>5. pc' \in {"announce", "close", "run"}
    BY <1>5, <2>1 DEF JoinAll, AwaitNext
  <2>6. QED
    BY <2>2, <2>3, <2>4, <2>5
<1>6. CASE Announce
  <2>1. Phase = "drained"
    BY <1>6 DEF Announce, Phase
  <2>2. CASE pc' = "commit"
    <3>1. Phase' = "announced"
      BY <2>2 DEF Phase
    <3>2. Task!Announce
      BY <1>3, <2>1, <3>1 DEF Task!Announce
    <3>3. QED
      BY <3>2 DEF Task!Next
  <2>3. CASE pc' = "close" /\ result' = "err"
    <3>1. Phase' = "failed"
      BY <2>3 DEF Phase
    <3>2. Task!Fail
      BY <1>3, <2>1, <3>1 DEF Task!Fail
    <3>3. QED
      BY <3>2 DEF Task!Next
  <2>4. QED
    BY <1>6, <2>2, <2>3 DEF Announce
<1>7. CASE Commit
  <2>1. Phase = "announced" /\ pc' = "close" /\ result' \in {"ok", "err"}
    BY <1>7 DEF Commit, Phase
  <2>2. CASE result' = "ok"
    <3>1. Phase' = "done"
      BY <2>1, <2>2 DEF Phase
    <3>2. Task!Commit
      BY <1>3, <2>1, <3>1 DEF Task!Commit
    <3>3. QED
      BY <3>2 DEF Task!Next
  <2>3. CASE result' = "err"
    <3>1. Phase' = "failed"
      BY <2>1, <2>3 DEF Phase
    <3>2. Task!Fail
      BY <1>3, <2>1, <3>1 DEF Task!Fail
    <3>3. QED
      BY <3>2 DEF Task!Next
  <2>4. QED
    BY <2>1, <2>2, <2>3
<1>8. CASE Close
  <2>1. Phase' = Phase
    BY <1>8 DEF Close, Phase
  <2>2. QED
    BY <1>3, <2>1
<1>9. QED
  BY <1>5, <1>6, <1>7, <1>8 DEF Main

LEMMA TaskStep ==
  ASSUME StageInv, MainInv, MainInv', RowsBounded', [Next]_vars
  PROVE  [Task!Next]_(Task!taskVars)
<1>1. CASE Main
  BY <1>1, MainMaps
<1>2. CASE PublishBatch
  BY <1>2, PublishMaps DEF Task!Next
<1>3. CASE StageWork /\ ~ PublishBatch
  <2>1. DOMAIN state' = DOMAIN state /\ UNCHANGED mainVars
    BY <1>3, StageWorks DEF StageInv
  <2>2. confirmed' = confirmed
    BY <1>3 DEF StageWork, Parser, ParserSend, ParserStop, ParserFails, parserRest,
                Relay, RelayReceive, RelaySend, RelayStop, relayRest,
                Batcher, BatcherReceive, BatcherFlush, BatcherSend, BatcherStop, batcherRest,
                Publisher, PublishFails, PublisherStop, publisherRest
  <2>3. Kept' = Kept /\ WithRules' = WithRules /\ Phase' = Phase
    BY <2>1, SameStages DEF mainVars, Phase
  <2>4. QED
    BY <2>2, <2>3 DEF Task!taskVars
<1>4. CASE UNCHANGED vars
  <2>1. UNCHANGED <<state, confirmed, pc, result>>
    BY <1>4 DEF vars, stageVars, mainVars
  <2>2. Kept' = Kept /\ WithRules' = WithRules /\ Phase' = Phase
    BY <2>1, SameStages DEF Phase
  <2>3. QED
    BY <2>1, <2>2 DEF Task!taskVars
<1>5. QED
  BY <1>1, <1>2, <1>3, <1>4 DEF Next, StageWork

\* The pipeline is the task: rows only while it is started, or after a failure when the
\* stages are not joined; drained only when every row is there; then file_complete,
\* then the commit (mod.rs:526-527, 577-601).
THEOREM PipelineIsTask == Spec => ImplementsTask
<1>1. StageInv => RowsBounded
  BY ConfirmedCount
<1>2. StageInv /\ MainInv /\ MainInv' /\ RowsBounded' /\ [Next]_vars => [Task!Next]_(Task!taskVars)
  BY TaskStep
<1>3. QED
  BY <1>1, <1>2, TaskInit, StagesFlow, Returning, PTL DEF Spec, ImplementsTask, Task!Spec
=============================================================================
