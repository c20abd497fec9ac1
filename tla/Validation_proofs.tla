--------------------------- MODULE Validation_proofs ---------------------------
(***************************************************************************)
(* What the validator and the normalizer account for, for any dumps, any   *)
(* rules and any shape of the records, and any number of passes.           *)
(*                                                                         *)
(* The inductive invariant has three parts.  FlowInv: the published        *)
(* messages and those still between the two stages are, one after the      *)
(* other, the records that were not skipped.  ReportInv: the report in     *)
(* memory tells of every record taken, and the lines in the log and in the *)
(* buffer together explain it, which is why losing the buffer needs a pass *)
(* that starts over.  CaptureInv: an id is marked as written exactly when  *)
(* a record of this pass was captured under it.                            *)
(***************************************************************************)
EXTENDS Validation, FiniteSetTheorems, TLAPS

IsList(s) == s \in Seq(ToSet(s))

TypeInv ==
  /\ dump \in Dumps /\ validated \in BOOLEAN /\ receiving \in BOOLEAN
  /\ next \in Nat \ {0}
  /\ stage \in {"run", "ending", "ended"}
  /\ IsList(checked) /\ IsList(published) /\ IsList(buffer) /\ IsList(log)
  /\ DOMAIN report = {"total", "skipped", "counts", "records", "values"}
  /\ IsList(report.skipped)

\* After n records: what is received (r), what waits (c) and what is published (p).
Flow(n, r, c, p) ==
  /\ Len(p) <= Cardinality(KeptUpTo(n))
  /\ \A i \in KeptUpTo(n) :
       Cardinality(KeptUpTo(i)) <= Len(p) => p[Cardinality(KeptUpTo(i))] = Publishable(Sent(i))
  /\ r => /\ Len(p) + Len(c) = Cardinality(KeptUpTo(n))
          /\ \A i \in KeptUpTo(n) :
               Cardinality(KeptUpTo(i)) > Len(p)
                 => c[Cardinality(KeptUpTo(i)) - Len(p)] = Sent(i)

FlowInv == Flow(next - 1, receiving, checked, published) /\ (~ validated => checked = <<>>)

\* Told and Explained after n records.
ToldUpTo(n, told) ==
  /\ told.total = n
  /\ Len(told.skipped) = Cardinality(SkippedUpTo(n))
  /\ \A i \in SkippedUpTo(n) :
       told.skipped[Cardinality(SkippedUpTo(i))]
         = [id |-> Message(i).id, reason |-> Head(Skip(Message(i))).reason]
  /\ \A key \in Keys : CountOf(key, told.counts) = Cardinality(Counted(key, n))

ExplainedUpTo(n, lines, told) ==
  /\ \A i \in 1..n : LinesOf(i) \subseteq ToSet(lines)
  /\ \A key \in Keys : CountOf(key, told.counts) <= Cardinality(LinesUnder(lines, key[1]))

ReportInv ==
  /\ validated => ToldUpTo(next - 1, report) /\ ExplainedUpTo(next - 1, log \o buffer, report)
  /\ stage = "ended" => validated /\ buffer = <<>> /\ (next > 1 => reportFile = report)

\* CapturedFirst after n records, with the ids that are marked as written.
CapturedUpTo(n, f, marked) ==
  /\ \A i \in 1..n : FirstCaptured(i) => /\ Message(i).id \in DOMAIN f
                                         /\ f[Message(i).id] \in CaptureOf(i)
  /\ marked = {Message(i).id : i \in {j \in 1..n : CaptureOf(j) # {}}}

CaptureInv == validated => CapturedUpTo(next - 1, files, written)

AccountInv == TypeInv /\ FlowInv /\ ReportInv /\ CaptureInv

-----------------------------------------------------------------------------
(* Lists and bags.                                                         *)

\* One list after another: what it holds, and where.
LEMMA Concatenated ==
  ASSUME NEW s, NEW t, IsList(s), IsList(t)
  PROVE  /\ IsList(s \o t) /\ Len(s \o t) = Len(s) + Len(t)
         /\ Len(s) \in Nat /\ Len(t) \in Nat
         /\ DOMAIN s = 1..Len(s) /\ DOMAIN t = 1..Len(t) /\ DOMAIN (s \o t) = 1..(Len(s) + Len(t))
         /\ \A k \in 1..Len(s) : (s \o t)[k] = s[k]
         /\ \A k \in 1..Len(t) : (s \o t)[Len(s) + k] = t[k]
         /\ ToSet(s \o t) = ToSet(s) \cup ToSet(t)
<1> DEFINE n == Len(s)
           m == Len(t)
           u == s \o t
<1>1. s \in Seq(ToSet(s)) /\ t \in Seq(ToSet(t))
  BY DEF IsList
<1>2. /\ n \in Nat /\ m \in Nat /\ DOMAIN s = 1..n /\ DOMAIN t = 1..m
      /\ \A k \in 1..n : s[k] \in ToSet(s)
      /\ \A k \in 1..m : t[k] \in ToSet(t)
  BY <1>1
<1>3. /\ DOMAIN u = 1..(n + m) /\ Len(u) = n + m
      /\ \A k \in 1..n : u[k] = s[k]
      /\ \A k \in 1..m : u[n + k] = t[k]
      /\ u \in Seq(ToSet(s) \cup ToSet(t))
  BY <1>1, <1>2
<1> HIDE DEF u
<1>4. /\ \A k \in 1..(n + m) : k \in 1..n \/ (k - n \in 1..m /\ k = n + (k - n))
      /\ \A k \in 1..m : n + k \in 1..(n + m)
  BY <1>2
<1>5. ToSet(u) = ToSet(s) \cup ToSet(t)
  <2>1. \A k \in 1..(n + m) : u[k] \in ToSet(s) \cup ToSet(t)
    <3> SUFFICES ASSUME NEW k \in 1..(n + m) PROVE u[k] \in ToSet(s) \cup ToSet(t)
      OBVIOUS
    <3>1. CASE k \in 1..n
      BY <1>2, <1>3, <3>1
    <3>2. CASE k - n \in 1..m /\ k = n + (k - n)
      <4>1. u[n + (k - n)] = t[k - n] /\ t[k - n] \in ToSet(t)
        BY <1>2, <1>3, <3>2
      <4> HIDE DEF n, m
      <4>2. QED
        BY <4>1, <3>2
    <3>3. QED
      BY <1>4, <3>1, <3>2
  <2>2. \A k \in 1..n : s[k] \in ToSet(u)
    BY <1>2, <1>3 DEF ToSet
  <2>3. \A k \in 1..m : t[k] \in ToSet(u)
    BY <1>2, <1>3, <1>4 DEF ToSet
  <2> HIDE DEF n, m
  <2>4. ToSet(u) \subseteq ToSet(s) \cup ToSet(t)
    BY <1>3, <2>1, Zenon DEF ToSet
  <2>5. ToSet(s) \subseteq ToSet(u) /\ ToSet(t) \subseteq ToSet(u)
    BY <1>2, <2>2, <2>3, Zenon DEF ToSet
  <2>6. QED
    BY <2>4, <2>5
<1>6. u \in Seq(ToSet(u))
  BY <1>3, <1>5
<1>7. QED
  BY <1>2, <1>3, <1>5, <1>6 DEF IsList, u

\* One element after a list.
LEMMA Appended ==
  ASSUME NEW s, NEW e, IsList(s)
  PROVE  /\ IsList(Append(s, e)) /\ Len(Append(s, e)) = Len(s) + 1 /\ Len(s) \in Nat
         /\ \A k \in 1..Len(s) : Append(s, e)[k] = s[k]
         /\ Append(s, e)[Len(s) + 1] = e
<1>1. s \in Seq(ToSet(s))
  BY DEF IsList
<1> DEFINE all == ToSet(s) \cup {e}
           t == Append(s, e)
<1>2. s \in Seq(all) /\ e \in all
  BY <1>1
<1> HIDE DEF all
<1>3. /\ t \in Seq(all) /\ Len(t) = Len(s) + 1 /\ Len(s) \in Nat /\ DOMAIN t = 1..Len(t)
      /\ \A k \in 1..Len(s) : t[k] = s[k]
      /\ t[Len(s) + 1] = e
  BY <1>2
<1> HIDE DEF t
<1>4. IsList(t)
  <2>1. \A k \in 1..Len(t) : t[k] \in ToSet(t)
    BY <1>3 DEF ToSet
  <2>2. t \in Seq(ToSet(t))
    BY <1>3, <2>1
  <2>3. QED
    BY <2>2 DEF IsList
<1>5. QED
  BY <1>3, <1>4 DEF t

\* A list of one element, and a list followed by it.
LEMMA Single ==
  ASSUME NEW e
  PROVE  /\ IsList(<<e>>) /\ ToSet(<<e>>) = {e}
         /\ \A s : IsList(s) => Append(s, e) = s \o <<e>>
<1>1. ToSet(<<e>>) = {e}
  BY DEF ToSet
<1>2. <<e>> \in Seq({e})
  OBVIOUS
<1>3. ASSUME NEW s, IsList(s) PROVE Append(s, e) = s \o <<e>>
  <2>1. s \in Seq(ToSet(s) \cup {e}) /\ e \in ToSet(s) \cup {e}
    BY <1>3 DEF IsList
  <2>2. QED
    BY <2>1
<1>4. QED
  BY <1>1, <1>2, <1>3 DEF IsList

\* The positions of a list are finitely many, and so are any of them.
LEMMA FinitePositions ==
  ASSUME NEW s, IsList(s), NEW P \in SUBSET DOMAIN s
  PROVE  IsFiniteSet(P) /\ Cardinality(P) \in Nat
<1>1. Len(s) \in Nat /\ DOMAIN s = 1..Len(s)
  <2>1. s \in Seq(ToSet(s))
    BY DEF IsList
  <2>2. QED
    BY <2>1
<1>2. IsFiniteSet(1..Len(s))
  BY <1>1, FS_Interval
<1>3. QED
  BY <1>1, <1>2, FS_Subset, FS_CardinalityType

\* Sets that share nothing.
LEMMA Disjoint ==
  ASSUME NEW S, NEW T, IsFiniteSet(S), IsFiniteSet(T), S \cap T = {}
  PROVE  /\ IsFiniteSet(S \cup T) /\ Cardinality(S \cup T) = Cardinality(S) + Cardinality(T)
         /\ Cardinality(S) \in Nat /\ Cardinality(T) \in Nat
BY FS_Union, FS_EmptySet, FS_CardinalityType

\* A bag and the elements of a list.
LEMMA CountAdded ==
  ASSUME NEW B, NEW s, NEW e, CountOf(e, B) \in Nat
  PROVE  CountOf(e, B (+) ToBag(s))
           = CountOf(e, B) + Cardinality({k \in DOMAIN s : s[k] = e})
<1> DEFINE C == ToBag(s)
           held == {k \in DOMAIN s : s[k] = e}
<1>1. CountOf(e, C) = Cardinality(held)
  <2>1. CASE e \in Range(s)
    BY <2>1 DEF CountOf, ToBag
  <2>2. CASE e \notin Range(s)
    <3>1. held = {}
      BY <2>2 DEF Range
    <3>2. CountOf(e, C) = 0
      BY <2>2 DEF CountOf, ToBag
    <3>3. QED
      BY <3>1, <3>2, FS_EmptySet
  <2>3. QED
    BY <2>1, <2>2
<1> HIDE DEF C
<1>2. CountOf(e, B (+) C) = CountOf(e, B) + CountOf(e, C)
  BY DEF CountOf, (+)
<1>3. QED
  BY <1>1, <1>2 DEF C

\* The lines under a rule, and more lines.
LEMMA LinesAdded ==
  ASSUME NEW s, NEW t, NEW rule, IsList(s), IsList(t)
  PROVE  /\ Cardinality(LinesUnder(s \o t, rule))
              = Cardinality(LinesUnder(s, rule)) + Cardinality(LinesUnder(t, rule))
         /\ Cardinality(LinesUnder(s, rule)) \in Nat /\ Cardinality(LinesUnder(t, rule)) \in Nat
<1> DEFINE n == Len(s)
           A == LinesUnder(s, rule)
           C == LinesUnder(t, rule)
           B == {n + k : k \in C}
<1>1. /\ n \in Nat /\ Len(t) \in Nat
      /\ DOMAIN s = 1..n /\ DOMAIN t = 1..Len(t) /\ DOMAIN (s \o t) = 1..(n + Len(t))
      /\ \A k \in 1..n : (s \o t)[k] = s[k]
      /\ \A k \in 1..Len(t) : (s \o t)[n + k] = t[k]
  BY Concatenated
<1>2. A \subseteq DOMAIN s /\ C \subseteq DOMAIN t
  BY DEF LinesUnder
<1>3. IsFiniteSet(A) /\ IsFiniteSet(C)
  BY <1>2, FinitePositions
<1>4. IsFiniteSet(B) /\ Cardinality(B) = Cardinality(C)
  <2> DEFINE f == [k \in C |-> n + k]
  <2>1. f \in Bijection(C, B)
    <3>1. f \in [C -> B] /\ \A k \in C : k \in Int
      BY <1>1, <1>2
    <3>2. \A x \in C, y \in C : f[x] = f[y] => x = y
      BY <1>1, <3>1
    <3>3. \A y \in B : \E x \in C : f[x] = y
      OBVIOUS
    <3>4. QED
      BY <3>1, <3>2, <3>3 DEF Bijection, Injection, Surjection, IsInjective
  <2>2. ExistsBijection(C, B)
    BY <2>1 DEF ExistsBijection
  <2>3. QED
    BY <1>3, <2>2, FS_Bijection
<1>5. LinesUnder(s \o t, rule) = A \cup B
  <2>1. \A k \in A : k \in LinesUnder(s \o t, rule)
    BY <1>1, <1>2 DEF LinesUnder
  <2>2. \A k \in C : n + k \in LinesUnder(s \o t, rule)
    BY <1>1, <1>2 DEF LinesUnder
  <2>3. ASSUME NEW k \in LinesUnder(s \o t, rule) PROVE k \in A \cup B
    <3>1. k \in 1..(n + Len(t)) /\ (s \o t)[k].rule = rule
      BY <1>1 DEF LinesUnder
    <3>2. CASE k \in 1..n
      BY <1>1, <3>1, <3>2 DEF LinesUnder
    <3>3. CASE k \notin 1..n
      <4>1. k - n \in 1..Len(t) /\ k = n + (k - n)
        BY <1>1, <3>1, <3>3
      <4>2. t[k - n] = (s \o t)[k]
        BY <1>1, <4>1
      <4>3. k - n \in C
        BY <1>1, <3>1, <4>1, <4>2 DEF LinesUnder
      <4>4. QED
        BY <4>1, <4>3
    <3>4. QED
      BY <3>2, <3>3
  <2>4. QED
    BY <2>1, <2>2, <2>3
<1>6. A \cap B = {}
  BY <1>1, <1>2
<1> HIDE DEF A, B, C
<1>7. QED
  BY <1>3, <1>4, <1>5, <1>6, Disjoint DEF A, C

-----------------------------------------------------------------------------
(* The first records of the dump.                                          *)

\* One record more is kept or skipped.
LEMMA OneMoreRecord ==
  ASSUME NEW n \in Nat
  PROVE  /\ KeptUpTo(n + 1) = IF Skipped(n + 1) THEN KeptUpTo(n) ELSE KeptUpTo(n) \cup {n + 1}
         /\ SkippedUpTo(n + 1)
              = IF Skipped(n + 1) THEN SkippedUpTo(n) \cup {n + 1} ELSE SkippedUpTo(n)
         /\ n + 1 \notin KeptUpTo(n) /\ n + 1 \notin SkippedUpTo(n)
<1>1. 1..(n + 1) = (1..n) \cup {n + 1} /\ n + 1 \notin 1..n
  OBVIOUS
<1>2. QED
  BY <1>1 DEF KeptUpTo, SkippedUpTo

\* Their numbers, and the places of those among them.
LEMMA Places ==
  ASSUME NEW n \in Nat
  PROVE  /\ IsFiniteSet(KeptUpTo(n)) /\ IsFiniteSet(SkippedUpTo(n))
         /\ Cardinality(KeptUpTo(n)) \in Nat /\ Cardinality(SkippedUpTo(n)) \in Nat
         /\ \A i \in KeptUpTo(n) : /\ i \in 1..n /\ Cardinality(KeptUpTo(i)) \in Nat
                                   /\ 1 <= Cardinality(KeptUpTo(i))
                                   /\ Cardinality(KeptUpTo(i)) <= Cardinality(KeptUpTo(n))
         /\ \A i \in SkippedUpTo(n) : /\ i \in 1..n /\ Cardinality(SkippedUpTo(i)) \in Nat
                                      /\ 1 <= Cardinality(SkippedUpTo(i))
                                      /\ Cardinality(SkippedUpTo(i)) <= Cardinality(SkippedUpTo(n))
         /\ Cardinality(KeptUpTo(n + 1))
              = IF Skipped(n + 1) THEN Cardinality(KeptUpTo(n)) ELSE Cardinality(KeptUpTo(n)) + 1
         /\ Cardinality(SkippedUpTo(n + 1))
              = IF Skipped(n + 1) THEN Cardinality(SkippedUpTo(n)) + 1
                ELSE Cardinality(SkippedUpTo(n))
<1>1. ASSUME NEW m \in Nat
      PROVE  /\ IsFiniteSet(KeptUpTo(m)) /\ IsFiniteSet(SkippedUpTo(m))
             /\ Cardinality(KeptUpTo(m)) \in Nat /\ Cardinality(SkippedUpTo(m)) \in Nat
  <2>1. IsFiniteSet(1..m)
    BY FS_Interval
  <2>2. KeptUpTo(m) \subseteq 1..m /\ SkippedUpTo(m) \subseteq 1..m
    BY DEF KeptUpTo, SkippedUpTo
  <2>3. QED
    BY <2>1, <2>2, FS_Subset, FS_CardinalityType
<1>2. ASSUME NEW S, NEW T, S \subseteq T, IsFiniteSet(T), NEW i \in S
      PROVE  1 <= Cardinality(S) /\ Cardinality(S) <= Cardinality(T)
  <2>1. IsFiniteSet(S) /\ Cardinality(S) <= Cardinality(T)
    BY <1>2, FS_Subset
  <2>2. Cardinality(S) \in Nat /\ Cardinality(S) # 0
    BY <1>2, <2>1, FS_EmptySet, FS_CardinalityType
  <2>3. QED
    BY <2>1, <2>2
<1>3. ASSUME NEW i \in 1..n
      PROVE  /\ i \in Nat /\ KeptUpTo(i) \subseteq KeptUpTo(n) /\ SkippedUpTo(i) \subseteq SkippedUpTo(n)
             /\ i \in KeptUpTo(n) => i \in KeptUpTo(i)
             /\ i \in SkippedUpTo(n) => i \in SkippedUpTo(i)
  <2>1. i \in Nat /\ i \in 1..i /\ 1..i \subseteq 1..n
    OBVIOUS
  <2>2. QED
    BY <2>1 DEF KeptUpTo, SkippedUpTo
<1>4. ASSUME NEW i \in KeptUpTo(n)
      PROVE  /\ i \in 1..n /\ Cardinality(KeptUpTo(i)) \in Nat /\ 1 <= Cardinality(KeptUpTo(i))
             /\ Cardinality(KeptUpTo(i)) <= Cardinality(KeptUpTo(n))
  <2>1. i \in 1..n
    BY DEF KeptUpTo
  <2>2. QED
    BY <1>1, <1>2, <1>3, <1>4, <2>1
<1>5. ASSUME NEW i \in SkippedUpTo(n)
      PROVE  /\ i \in 1..n /\ Cardinality(SkippedUpTo(i)) \in Nat /\ 1 <= Cardinality(SkippedUpTo(i))
             /\ Cardinality(SkippedUpTo(i)) <= Cardinality(SkippedUpTo(n))
  <2>1. i \in 1..n
    BY DEF SkippedUpTo
  <2>2. QED
    BY <1>1, <1>2, <1>3, <1>5, <2>1
<1>6. /\ Cardinality(KeptUpTo(n) \cup {n + 1}) = Cardinality(KeptUpTo(n)) + 1
      /\ Cardinality(SkippedUpTo(n) \cup {n + 1}) = Cardinality(SkippedUpTo(n)) + 1
  BY <1>1, OneMoreRecord, FS_AddElement
<1>7. QED
  <2>1. /\ Cardinality(KeptUpTo(n + 1))
             = IF Skipped(n + 1) THEN Cardinality(KeptUpTo(n)) ELSE Cardinality(KeptUpTo(n)) + 1
        /\ Cardinality(SkippedUpTo(n + 1))
             = IF Skipped(n + 1) THEN Cardinality(SkippedUpTo(n)) + 1
               ELSE Cardinality(SkippedUpTo(n))
    BY <1>6, OneMoreRecord
  <2>2. QED
    BY <1>1, <1>4, <1>5, <2>1

\* The violations that count under a key, one record more.
LEMMA OneMoreCounted ==
  ASSUME NEW n \in Nat, NEW key,
         \A i \in 1..(n + 1) : IsList(Violations(Message(i)))
  PROVE  LET here == {k \in DOMAIN Violations(Message(n + 1)) :
                        CountKey(Violations(Message(n + 1))[k]) = key}
         IN  /\ IsFiniteSet(Counted(key, n)) /\ Cardinality(Counted(key, n)) \in Nat
             /\ Cardinality(here) \in Nat
             /\ Cardinality(Counted(key, n + 1))
                  = IF Skipped(n + 1) THEN Cardinality(Counted(key, n))
                    ELSE Cardinality(Counted(key, n)) + Cardinality(here)
<1> DEFINE under(i) == {k \in DOMAIN Violations(Message(i)) :
                          CountKey(Violations(Message(i))[k]) = key}
           pairs(i) == {i} \X under(i)
           new == n + 1
<1>1. ASSUME NEW i \in 1..(n + 1)
      PROVE  /\ IsFiniteSet(under(i)) /\ IsFiniteSet(pairs(i))
             /\ Cardinality(under(i)) \in Nat /\ Cardinality(pairs(i)) = Cardinality(under(i))
  <2>1. IsFiniteSet(under(i)) /\ Cardinality(under(i)) \in Nat
    BY FinitePositions
  <2>2. IsFiniteSet({i}) /\ Cardinality({i}) = 1
    BY FS_Singleton
  <2> HIDE DEF under
  <2>3. IsFiniteSet({i} \X under(i)) /\ Cardinality({i} \X under(i)) = 1 * Cardinality(under(i))
    BY <2>1, <2>2, FS_Product
  <2>4. QED
    BY <2>1, <2>3
<1> HIDE DEF under
<1>2. /\ Counted(key, n) = UNION {pairs(i) : i \in KeptUpTo(n)}
      /\ Counted(key, new) = UNION {pairs(i) : i \in KeptUpTo(new)}
  BY DEF Counted, under
<1>3. IsFiniteSet(Counted(key, n))
  <2> DEFINE all == {pairs(i) : i \in KeptUpTo(n)}
             each == [i \in KeptUpTo(n) |-> pairs(i)]
  <2>1. each \in Surjection(KeptUpTo(n), all)
    BY DEF Surjection
  <2>2. IsFiniteSet(KeptUpTo(n)) /\ KeptUpTo(n) \subseteq 1..(n + 1)
    <3>1. 1..n \subseteq 1..(n + 1)
      OBVIOUS
    <3>2. QED
      BY <3>1, Places DEF KeptUpTo
  <2>3. IsFiniteSet(all)
    BY <2>1, <2>2, FS_Surjection
  <2>4. \A T \in all : IsFiniteSet(T)
    BY <1>1, <2>2
  <2>5. IsFiniteSet(UNION all)
    BY <2>3, <2>4, FS_UNION
  <2>6. QED
    BY <1>2, <2>5
<1>4. Cardinality(Counted(key, n)) \in Nat
  BY <1>3, FS_CardinalityType
<1>5. CASE Skipped(new)
  <2>1. KeptUpTo(new) = KeptUpTo(n)
    BY <1>5, OneMoreRecord
  <2>2. Counted(key, new) = Counted(key, n)
    BY <1>2, <2>1
  <2>3. new \in 1..(n + 1)
    OBVIOUS
  <2>4. Cardinality(under(new)) \in Nat
    BY <1>1, <2>3
  <2>5. QED
    BY <1>3, <1>4, <1>5, <2>2, <2>4 DEF under
<1>6. CASE ~ Skipped(new)
  <2>1. KeptUpTo(new) = KeptUpTo(n) \cup {new} /\ new \notin KeptUpTo(n)
    BY <1>6, OneMoreRecord
  <2>2. Counted(key, new) = Counted(key, n) \cup pairs(new)
    BY <1>2, <2>1
  <2>3. Counted(key, n) \cap pairs(new) = {}
    BY <1>2, <2>1
  <2>4. IsFiniteSet(pairs(new)) /\ Cardinality(pairs(new)) = Cardinality(under(new))
    BY <1>1
  <2>5. Cardinality(Counted(key, new)) = Cardinality(Counted(key, n)) + Cardinality(under(new))
    BY <1>3, <2>2, <2>3, <2>4, Disjoint
  <2>6. Cardinality(under(new)) \in Nat
    <3>1. new \in 1..(n + 1)
      OBVIOUS
    <3>2. QED
      BY <1>1, <3>1
  <2>7. QED
    BY <1>3, <1>4, <1>6, <2>5, <2>6 DEF under
<1>7. QED
  BY <1>5, <1>6

-----------------------------------------------------------------------------
(* The dump does not change.                                               *)

LEMMA SameDump ==
  ASSUME UNCHANGED <<dump, validated>>
  PROVE  /\ \A i : /\ Message(i)' = Message(i) /\ Sent(i)' = Sent(i)
                   /\ Skipped(i)' = Skipped(i)
                   /\ LinesOf(i)' = LinesOf(i) /\ CaptureOf(i)' = CaptureOf(i)
                   /\ FirstCaptured(i)' = FirstCaptured(i)
                   /\ Violations(Message(i))' = Violations(Message(i))
                   /\ Skip(Message(i))' = Skip(Message(i))
                   /\ Publishable(Sent(i))' = Publishable(Sent(i))
         /\ \A n : KeptUpTo(n)' = KeptUpTo(n) /\ SkippedUpTo(n)' = SkippedUpTo(n)
         /\ \A key, n : Counted(key, n)' = Counted(key, n)
         /\ Keys' = Keys
         /\ \A n, r, c, p : Flow(n, r, c, p)' = Flow(n, r, c, p)
         /\ \A n, told, lines : /\ ToldUpTo(n, told)' = ToldUpTo(n, told)
                                /\ ExplainedUpTo(n, lines, told)' = ExplainedUpTo(n, lines, told)
         /\ \A n, f, marked : CapturedUpTo(n, f, marked)' = CapturedUpTo(n, f, marked)
<1>1. \A i : Message(i)' = Message(i)
  BY DEF Message
<1>2. \A i : /\ Violations(Message(i))' = Violations(Message(i))
              /\ Skip(Message(i))' = Skip(Message(i))
              /\ Repaired(Message(i))' = Repaired(Message(i))
  BY <1>1 DEF Violations, Skip, Repaired
<1>3. \A i : Skipped(i)' = Skipped(i) /\ Sent(i)' = Sent(i)
  BY <1>1, <1>2 DEF Skipped, Sent
<1>4. \A i : LinesOf(i)' = LinesOf(i) /\ CaptureOf(i)' = CaptureOf(i)
  BY <1>1, <1>2, <1>3 DEF LinesOf, CaptureOf
<1>5. \A i : FirstCaptured(i)' = FirstCaptured(i)
  BY <1>1, <1>4 DEF FirstCaptured
<1>6. \A i : Publishable(Sent(i))' = Publishable(Sent(i))
  BY <1>3 DEF Publishable
<1>7. \A n : KeptUpTo(n)' = KeptUpTo(n) /\ SkippedUpTo(n)' = SkippedUpTo(n)
  BY <1>3 DEF KeptUpTo, SkippedUpTo
<1>8. \A key, n : Counted(key, n)' = Counted(key, n)
  BY <1>2, <1>7 DEF Counted
<1>9. Keys' = Keys
  BY <1>2 DEF Keys
<1>10. \A n, r, c, p : Flow(n, r, c, p)' = Flow(n, r, c, p)
  BY <1>3, <1>6, <1>7 DEF Flow
<1>11. \A n, told, lines : /\ ToldUpTo(n, told)' = ToldUpTo(n, told)
                           /\ ExplainedUpTo(n, lines, told)' = ExplainedUpTo(n, lines, told)
  BY <1>1, <1>2, <1>4, <1>7, <1>8, <1>9 DEF ToldUpTo, ExplainedUpTo
<1>12. \A n, f, marked : CapturedUpTo(n, f, marked)' = CapturedUpTo(n, f, marked)
  BY <1>1, <1>4, <1>5 DEF CapturedUpTo
<1>13. QED
  BY <1>1, <1>2, <1>3, <1>4, <1>5, <1>6, <1>7, <1>8, <1>9, <1>10, <1>11, <1>12, Zenon

-----------------------------------------------------------------------------
(* What is passed on.                                                      *)

\* A record that is left out.
LEMMA FlowSkips ==
  ASSUME NEW n \in Nat, NEW r \in BOOLEAN, NEW c, NEW p, Flow(n, r, c, p), Skipped(n + 1)
  PROVE  Flow(n + 1, r, c, p)
<1>1. KeptUpTo(n + 1) = KeptUpTo(n)
  BY OneMoreRecord
<1>2. QED
  BY <1>1 DEF Flow

\* A record that passes the validator; nobody waits for it when the normalizer is gone.
LEMMA FlowPasses ==
  ASSUME NEW n \in Nat, NEW r \in BOOLEAN, NEW c, NEW p, IsList(c), IsList(p),
         Flow(n, r, c, p), ~ Skipped(n + 1)
  PROVE  Flow(n + 1, r, IF r THEN Append(c, Sent(n + 1)) ELSE c, p)
<1> DEFINE K(i) == Cardinality(KeptUpTo(i))
           c2 == IF r THEN Append(c, Sent(n + 1)) ELSE c
<1>1. /\ Len(p) \in Nat /\ Len(c) \in Nat
      /\ r => /\ Len(c2) = Len(c) + 1 /\ c2[Len(c) + 1] = Sent(n + 1)
              /\ \A k \in 1..Len(c) : c2[k] = c[k]
  BY Appended
<1>2. /\ KeptUpTo(n + 1) = KeptUpTo(n) \cup {n + 1} /\ K(n + 1) = K(n) + 1 /\ K(n) \in Nat
      /\ \A i \in KeptUpTo(n) : K(i) \in Nat /\ 1 <= K(i) /\ K(i) <= K(n)
  BY OneMoreRecord, Places
<1>3. /\ Len(p) <= K(n)
      /\ \A i \in KeptUpTo(n) : K(i) <= Len(p) => p[K(i)] = Publishable(Sent(i))
      /\ r => /\ Len(p) + Len(c) = K(n)
              /\ \A i \in KeptUpTo(n) : K(i) > Len(p) => c[K(i) - Len(p)] = Sent(i)
  BY DEF Flow
<1> HIDE DEF K, c2
<1>4. \A i \in KeptUpTo(n + 1) : K(i) <= Len(p) => p[K(i)] = Publishable(Sent(i))
  BY <1>1, <1>2, <1>3
<1>5. ASSUME r, NEW i \in KeptUpTo(n + 1), K(i) > Len(p)
      PROVE  c2[K(i) - Len(p)] = Sent(i)
  <2>1. CASE i = n + 1
    <3>1. K(i) - Len(p) = Len(c) + 1
      BY <1>1, <1>2, <1>3, <1>5, <2>1
    <3>2. QED
      BY <1>1, <1>5, <2>1, <3>1
  <2>2. CASE i \in KeptUpTo(n)
    <3>1. K(i) - Len(p) \in 1..Len(c)
      BY <1>1, <1>2, <1>3, <1>5, <2>2
    <3>2. QED
      BY <1>1, <1>3, <1>5, <2>2, <3>1
  <2>3. QED
    BY <1>2, <2>1, <2>2
<1>6. Len(p) <= K(n + 1) /\ (r => Len(p) + Len(c2) = K(n + 1))
  BY <1>1, <1>2, <1>3
<1>7. QED
  BY <1>4, <1>5, <1>6 DEF Flow, K, c2

\* The first message that waits is shaped and published.
LEMMA FlowPublishes ==
  ASSUME NEW n \in Nat, NEW c, NEW p, IsList(c), IsList(p), c # <<>>, Flow(n, TRUE, c, p)
  PROVE  /\ IsList(Tail(c)) /\ Flow(n, TRUE, Tail(c), Append(p, Publishable(Head(c))))
         /\ Flow(n, FALSE, Tail(c), p)
<1> DEFINE K(i) == Cardinality(KeptUpTo(i))
           q == Append(p, Publishable(Head(c)))
           d == Tail(c)
<1>1. /\ Len(p) \in Nat /\ Len(q) = Len(p) + 1 /\ q[Len(p) + 1] = Publishable(Head(c))
      /\ \A k \in 1..Len(p) : q[k] = p[k]
  BY Appended
<1>2. /\ Len(c) \in Nat \ {0} /\ Head(c) = c[1]
      /\ Len(d) = Len(c) - 1 /\ \A k \in 1..(Len(c) - 1) : d[k] = c[k + 1]
      /\ IsList(d)
  <2>1. c \in Seq(ToSet(c))
    BY DEF IsList
  <2>2. /\ Len(c) \in Nat \ {0} /\ Head(c) = c[1] /\ DOMAIN d = 1..(Len(c) - 1)
        /\ Len(d) = Len(c) - 1 /\ \A k \in 1..(Len(c) - 1) : d[k] = c[k + 1]
    BY <2>1
  <2>3. d \in Seq(ToSet(c))
    BY <2>1
  <2> HIDE DEF d
  <2>4. \A k \in 1..Len(d) : d[k] \in ToSet(d)
    BY <2>2 DEF ToSet
  <2>5. d \in Seq(ToSet(d))
    BY <2>3, <2>4
  <2>6. QED
    BY <2>2, <2>5 DEF IsList
<1>3. /\ K(n) \in Nat
      /\ \A i \in KeptUpTo(n) : K(i) \in Nat /\ 1 <= K(i) /\ K(i) <= K(n)
  BY Places
<1>4. /\ Len(p) <= K(n)
      /\ \A i \in KeptUpTo(n) : K(i) <= Len(p) => p[K(i)] = Publishable(Sent(i))
      /\ Len(p) + Len(c) = K(n)
      /\ \A i \in KeptUpTo(n) : K(i) > Len(p) => c[K(i) - Len(p)] = Sent(i)
  BY DEF Flow
<1> HIDE DEF K, q, d
<1>5. ASSUME NEW i \in KeptUpTo(n), K(i) <= Len(q) PROVE q[K(i)] = Publishable(Sent(i))
  <2>1. CASE K(i) <= Len(p)
    BY <1>1, <1>3, <1>4, <2>1
  <2>2. CASE K(i) = Len(p) + 1
    <3>1. K(i) > Len(p) /\ K(i) - Len(p) = 1
      BY <1>1, <2>2
    <3>2. c[1] = Sent(i)
      BY <1>4, <3>1
    <3>3. QED
      BY <1>1, <1>2, <2>2, <3>2
  <2>3. QED
    BY <1>1, <1>3, <1>5, <2>1, <2>2
<1>6. ASSUME NEW i \in KeptUpTo(n), K(i) > Len(q) PROVE d[K(i) - Len(q)] = Sent(i)
  <2>1. /\ K(i) > Len(p) /\ K(i) - Len(q) \in 1..(Len(c) - 1)
        /\ (K(i) - Len(q)) + 1 = K(i) - Len(p)
    BY <1>1, <1>2, <1>3, <1>4, <1>6
  <2>2. d[K(i) - Len(q)] = c[K(i) - Len(p)]
    BY <1>2, <2>1
  <2>3. QED
    BY <1>4, <2>1, <2>2
<1>7. Len(q) <= K(n) /\ Len(q) + Len(d) = K(n)
  BY <1>1, <1>2, <1>3, <1>4
<1>8. QED
  BY <1>2, <1>4, <1>5, <1>6, <1>7 DEF Flow, K, q, d

\* Without a validator the normalizer takes a record from the parser.
LEMMA FlowDirect ==
  ASSUME NEW n \in Nat, NEW p, IsList(p), Flow(n, TRUE, <<>>, p), ~ Skipped(n + 1)
  PROVE  /\ Flow(n + 1, TRUE, <<>>, Append(p, Publishable(Sent(n + 1))))
         /\ Flow(n + 1, FALSE, <<>>, p)
<1>1. IsList(<<>>) /\ Sent(n + 1) = Head(Append(<<>>, Sent(n + 1)))
  BY DEF IsList, ToSet
<1> DEFINE c == Append(<<>>, Sent(n + 1))
<1>2. Flow(n + 1, TRUE, c, p)
  BY <1>1, FlowPasses
<1>3. IsList(c) /\ c # <<>> /\ Tail(c) = <<>> /\ Head(c) = Sent(n + 1)
  <2>1. c = <<Sent(n + 1)>>
    OBVIOUS
  <2>2. IsList(<<Sent(n + 1)>>)
    BY Single
  <2> HIDE DEF c
  <2>3. QED
    BY <2>1, <2>2
<1> HIDE DEF c
<1>4. n + 1 \in Nat
  OBVIOUS
<1>5. /\ Flow(n + 1, TRUE, Tail(c), Append(p, Publishable(Head(c))))
      /\ Flow(n + 1, FALSE, Tail(c), p)
  BY <1>2, <1>3, <1>4, FlowPublishes, Zenon
<1>6. QED
  BY <1>3, <1>5

-----------------------------------------------------------------------------
(* What is reported and explained.                                         *)

IsReport(r) == DOMAIN r = {"total", "skipped", "counts", "records", "values"}

\* What the operations of a report change in it.
LEMMA ReportOperations ==
  ASSUME NEW r, IsReport(r)
  PROVE  /\ IsReport(IncrementTotal(r)) /\ IncrementTotal(r).total = r.total + 1
         /\ IncrementTotal(r).skipped = r.skipped /\ IncrementTotal(r).counts = r.counts
         /\ \A id, reason :
              LET q == RecordSkip(r, id, reason)
              IN  /\ IsReport(q) /\ q.total = r.total /\ q.counts = r.counts
                  /\ q.skipped = Append(r.skipped, [id |-> id, reason |-> reason])
         /\ \A actions :
              LET q == RecordFilterActions(r, actions)
              IN  IsReport(q) /\ q.total = r.total /\ q.skipped = r.skipped /\ q.counts = r.counts
         /\ \A violations :
              LET q == RecordViolations(r, violations)
                  keys == [i \in DOMAIN violations |-> CountKey(violations[i])]
              IN  /\ IsReport(q) /\ q.total = r.total /\ q.skipped = r.skipped
                  /\ q.counts = r.counts (+) ToBag(keys)
<1>1. /\ IsReport(IncrementTotal(r)) /\ IncrementTotal(r).total = r.total + 1
      /\ IncrementTotal(r).skipped = r.skipped /\ IncrementTotal(r).counts = r.counts
  BY DEF IsReport, IncrementTotal
<1>2. ASSUME NEW id, NEW reason
      PROVE  LET q == RecordSkip(r, id, reason)
             IN  /\ IsReport(q) /\ q.total = r.total /\ q.counts = r.counts
                 /\ q.skipped = Append(r.skipped, [id |-> id, reason |-> reason])
  BY DEF IsReport, RecordSkip
<1>3. ASSUME NEW actions
      PROVE  LET q == RecordFilterActions(r, actions)
             IN  IsReport(q) /\ q.total = r.total /\ q.skipped = r.skipped /\ q.counts = r.counts
  BY DEF IsReport, RecordFilterActions
<1>4. ASSUME NEW violations
      PROVE  LET q == RecordViolations(r, violations)
                 keys == [i \in DOMAIN violations |-> CountKey(violations[i])]
             IN  /\ IsReport(q) /\ q.total = r.total /\ q.skipped = r.skipped
                 /\ q.counts = r.counts (+) ToBag(keys)
  BY DEF IsReport, RecordViolations
<1>5. QED
  BY <1>1, <1>2, <1>3, <1>4, Zenon

\* A skipped record: one entry and one line more.
LEMMA SkipTold ==
  ASSUME NEW n \in Nat, NEW told, NEW lines, IsReport(told), IsList(told.skipped), IsList(lines),
         \A i \in 1..(n + 1) : IsList(Violations(Message(i))),
         ToldUpTo(n, told), ExplainedUpTo(n, lines, told), Skipped(n + 1),
         NEW skip, skip = Head(Skip(Message(n + 1))),
         NEW told2, told2 = RecordSkip(IncrementTotal(told), Message(n + 1).id, skip.reason),
         NEW lines2, lines2 = lines \o <<Line(Message(n + 1).id, skip.reason, skip.value)>>
  PROVE  /\ IsReport(told2) /\ IsList(told2.skipped)
         /\ ToldUpTo(n + 1, told2) /\ ExplainedUpTo(n + 1, lines2, told2)
<1> DEFINE entry == [id |-> Message(n + 1).id, reason |-> skip.reason]
           line == Line(Message(n + 1).id, skip.reason, skip.value)
           S(i) == Cardinality(SkippedUpTo(i))
<1>1. /\ IsReport(told2) /\ told2.total = told.total + 1 /\ told2.counts = told.counts
      /\ told2.skipped = Append(told.skipped, entry)
  <2> DEFINE more == IncrementTotal(told)
  <2>1. /\ IsReport(more) /\ more.total = told.total + 1
        /\ more.skipped = told.skipped /\ more.counts = told.counts
    BY ReportOperations
  <2> HIDE DEF more
  <2>2. LET q == RecordSkip(more, Message(n + 1).id, skip.reason)
        IN  /\ IsReport(q) /\ q.total = more.total /\ q.counts = more.counts
            /\ q.skipped = Append(more.skipped, entry)
    <3>1. IsReport(more)
      BY <2>1
    <3>2. \A id, reason :
            LET q == RecordSkip(more, id, reason)
            IN  /\ IsReport(q) /\ q.total = more.total /\ q.counts = more.counts
                /\ q.skipped = Append(more.skipped, [id |-> id, reason |-> reason])
      BY <3>1, ReportOperations, Zenon
    <3>3. QED
      BY <3>2, Zenon
  <2>3. QED
    BY <2>1, <2>2 DEF more
<1>2. /\ IsList(told2.skipped) /\ Len(told2.skipped) = Len(told.skipped) + 1
      /\ \A k \in 1..Len(told.skipped) : told2.skipped[k] = told.skipped[k]
      /\ told2.skipped[Len(told.skipped) + 1] = entry
  <2>1. PICK before : before = told.skipped
    OBVIOUS
  <2>2. PICK e : e = entry
    OBVIOUS
  <2>3. IsList(before) /\ told2.skipped = Append(before, e)
    BY <1>1, <2>1, <2>2
  <2> HIDE DEF entry
  <2>4. /\ IsList(Append(before, e)) /\ Len(Append(before, e)) = Len(before) + 1
        /\ \A k \in 1..Len(before) : Append(before, e)[k] = before[k]
        /\ Append(before, e)[Len(before) + 1] = e
    BY ONLY <2>3, Appended
  <2>5. QED
    BY <2>1, <2>2, <2>3, <2>4, Zenon
<1>3. /\ SkippedUpTo(n + 1) = SkippedUpTo(n) \cup {n + 1} /\ S(n + 1) = S(n) + 1 /\ S(n) \in Nat
      /\ \A i \in SkippedUpTo(n) : S(i) \in Nat /\ 1 <= S(i) /\ S(i) <= S(n)
  BY OneMoreRecord, Places
<1>4. /\ told.total = n /\ Len(told.skipped) = S(n)
      /\ \A i \in SkippedUpTo(n) :
           told.skipped[S(i)] = [id |-> Message(i).id, reason |-> Head(Skip(Message(i))).reason]
      /\ \A key \in Keys : CountOf(key, told.counts) = Cardinality(Counted(key, n))
  BY DEF ToldUpTo
<1> HIDE DEF S
<1>5. ASSUME NEW i \in SkippedUpTo(n + 1)
      PROVE  told2.skipped[S(i)] = [id |-> Message(i).id, reason |-> Head(Skip(Message(i))).reason]
  <2>1. CASE i = n + 1
    BY <1>2, <1>3, <1>4, <2>1
  <2>2. CASE i \in SkippedUpTo(n)
    <3>1. S(i) \in 1..Len(told.skipped)
      BY <1>3, <1>4, <2>2
    <3>2. QED
      BY <1>2, <1>4, <2>2, <3>1
  <2>3. QED
    BY <1>3, <2>1, <2>2
<1>6. \A key \in Keys : CountOf(key, told2.counts) = Cardinality(Counted(key, n + 1))
  BY <1>1, <1>4, OneMoreCounted
<1>7. ToldUpTo(n + 1, told2)
  <2>1. told2.total = n + 1 /\ Len(told2.skipped) = S(n + 1)
    BY <1>1, <1>2, <1>3, <1>4
  <2>2. QED
    BY <1>5, <1>6, <2>1 DEF ToldUpTo, S
<1>8. IsList(<<line>>) /\ ToSet(<<line>>) = {line}
  BY Single
<1> HIDE DEF line
<1>9. ToSet(lines2) = ToSet(lines) \cup {line}
  BY <1>8, Concatenated DEF line
<1>10. LinesOf(n + 1) = {line}
  BY DEF LinesOf, line
<1>11. \A i \in 1..(n + 1) : LinesOf(i) \subseteq ToSet(lines2)
  BY <1>9, <1>10 DEF ExplainedUpTo
<1>12. ASSUME NEW key \in Keys
       PROVE  CountOf(key, told2.counts) <= Cardinality(LinesUnder(lines2, key[1]))
  <2>1. CountOf(key, told.counts) \in Nat
    <3>1. n \in Nat /\ Cardinality(Counted(key, n)) \in Nat
      BY OneMoreCounted
    <3>2. QED
      BY <1>4, <3>1
  <2>2. CountOf(key, told.counts) <= Cardinality(LinesUnder(lines, key[1]))
    BY DEF ExplainedUpTo
  <2>3. /\ Cardinality(LinesUnder(lines2, key[1]))
             = Cardinality(LinesUnder(lines, key[1])) + Cardinality(LinesUnder(<<line>>, key[1]))
        /\ Cardinality(LinesUnder(lines, key[1])) \in Nat
        /\ Cardinality(LinesUnder(<<line>>, key[1])) \in Nat
    BY <1>8, LinesAdded DEF line
  <2>4. QED
    BY <1>1, <2>1, <2>2, <2>3
<1>13. QED
  BY <1>1, <1>2, <1>7, <1>11, <1>12 DEF ExplainedUpTo

\* The lines of a list of violations: one for each, under its rule.
LEMMA LinesOfViolations ==
  ASSUME NEW id, NEW vs, IsList(vs)
  PROVE  /\ IsList(Lines(id, vs))
         /\ \A key : LET under == {k \in DOMAIN vs : CountKey(vs[k]) = key}
                     IN  /\ Cardinality(under) \in Nat
                         /\ Cardinality(under) <= Cardinality(LinesUnder(Lines(id, vs), key[1]))
<1> DEFINE ls == Lines(id, vs)
<1>1. /\ Len(vs) \in Nat /\ DOMAIN vs = 1..Len(vs)
      /\ ls = [k \in 1..Len(vs) |-> Line(id, vs[k].rule, vs[k].value)]
  <2>1. vs \in Seq(ToSet(vs))
    BY DEF IsList
  <2>2. Len(vs) \in Nat /\ DOMAIN vs = 1..Len(vs)
    BY <2>1
  <2>3. QED
    BY <2>2 DEF Lines
<1> HIDE DEF ls
<1>2. IsList(ls)
  <2>1. \A k \in 1..Len(vs) : ls[k] \in ToSet(ls)
    BY <1>1 DEF ToSet
  <2>2. ls \in Seq(ToSet(ls))
    BY <1>1, <2>1
  <2>3. QED
    BY <2>2 DEF IsList
<1>3. ASSUME NEW key
      PROVE  LET under == {k \in DOMAIN vs : CountKey(vs[k]) = key}
             IN  /\ Cardinality(under) \in Nat
                 /\ Cardinality(under) <= Cardinality(LinesUnder(ls, key[1]))
  <2> DEFINE under == {k \in DOMAIN vs : CountKey(vs[k]) = key}
  <2>1. under \subseteq LinesUnder(ls, key[1])
    BY <1>1 DEF LinesUnder, CountKey, Line
  <2>2. LinesUnder(ls, key[1]) \subseteq DOMAIN ls
    BY DEF LinesUnder
  <2>3. IsFiniteSet(LinesUnder(ls, key[1])) /\ Cardinality(under) \in Nat
    BY <1>2, <2>2, FinitePositions
  <2>4. QED
    BY <2>1, <2>3, FS_Subset
<1>4. QED
  BY <1>2, <1>3 DEF ls

\* A record that passes: its violations are counted and explained.
LEMMA CheckTold ==
  ASSUME NEW n \in Nat, NEW told, NEW lines, IsReport(told), IsList(told.skipped), IsList(lines),
         \A i \in 1..(n + 1) : IsList(Violations(Message(i))),
         ToldUpTo(n, told), ExplainedUpTo(n, lines, told), ~ Skipped(n + 1), NEW actions,
         NEW told2, told2 = RecordViolations(RecordFilterActions(IncrementTotal(told), actions),
                                             Violations(Message(n + 1))),
         NEW lines2, lines2 = lines \o Lines(Message(n + 1).id, Violations(Message(n + 1)))
  PROVE  /\ IsReport(told2) /\ IsList(told2.skipped)
         /\ ToldUpTo(n + 1, told2) /\ ExplainedUpTo(n + 1, lines2, told2)
<1> DEFINE vs == Violations(Message(n + 1))
           keys == [k \in DOMAIN vs |-> CountKey(vs[k])]
           ls == Lines(Message(n + 1).id, vs)
           under(key) == {k \in DOMAIN vs : CountKey(vs[k]) = key}
<1>1. /\ IsReport(told2) /\ told2.total = told.total + 1 /\ told2.skipped = told.skipped
      /\ told2.counts = told.counts (+) ToBag(keys)
  <2> DEFINE more == IncrementTotal(told)
             most == RecordFilterActions(more, actions)
  <2>1. /\ IsReport(more) /\ more.total = told.total + 1
        /\ more.skipped = told.skipped /\ more.counts = told.counts
    BY ReportOperations
  <2> HIDE DEF more
  <2>2. /\ IsReport(most) /\ most.total = more.total
        /\ most.skipped = more.skipped /\ most.counts = more.counts
    BY <2>1, ReportOperations
  <2> HIDE DEF most
  <2>3. LET q == RecordViolations(most, vs)
        IN  /\ IsReport(q) /\ q.total = most.total /\ q.skipped = most.skipped
            /\ q.counts = most.counts (+) ToBag(keys)
    BY <2>2, ReportOperations
  <2>4. told2 = RecordViolations(most, vs)
    BY DEF most, more
  <2> HIDE DEF vs, keys
  <2>5. QED
    BY <2>1, <2>2, <2>3, <2>4
<1>2. n + 1 \in 1..(n + 1) /\ n \in Nat
  OBVIOUS
<1>3. IsList(vs)
  BY <1>2
<1>4. /\ IsList(ls)
      /\ \A key : /\ Cardinality(under(key)) \in Nat
                  /\ Cardinality(under(key)) <= Cardinality(LinesUnder(ls, key[1]))
  BY <1>3, LinesOfViolations
<1>5. ASSUME NEW key \in Keys
      PROVE  /\ CountOf(key, told.counts) \in Nat
             /\ CountOf(key, told2.counts) = CountOf(key, told.counts) + Cardinality(under(key))
             /\ CountOf(key, told2.counts) = Cardinality(Counted(key, n + 1))
  <2>1. /\ Cardinality(Counted(key, n)) \in Nat
        /\ Cardinality(Counted(key, n + 1)) = Cardinality(Counted(key, n)) + Cardinality(under(key))
    BY OneMoreCounted
  <2>2. CountOf(key, told.counts) = Cardinality(Counted(key, n))
    BY DEF ToldUpTo
  <2>3. DOMAIN keys = DOMAIN vs /\ \A k \in DOMAIN vs : keys[k] = CountKey(vs[k])
    OBVIOUS
  <2> HIDE DEF keys, vs
  <2>4. CountOf(key, told2.counts)
          = CountOf(key, told.counts) + Cardinality({k \in DOMAIN keys : keys[k] = key})
    BY <1>1, <2>1, <2>2, CountAdded
  <2>5. {k \in DOMAIN keys : keys[k] = key} = under(key)
    BY <2>3
  <2>6. QED
    BY <2>1, <2>2, <2>4, <2>5
<1> HIDE DEF vs, keys, under
<1>6. ToldUpTo(n + 1, told2)
  <2>1. SkippedUpTo(n + 1) = SkippedUpTo(n)
    BY OneMoreRecord
  <2>2. told2.total = n + 1
    BY <1>1 DEF ToldUpTo
  <2>3. QED
    BY <1>1, <1>5, <2>1, <2>2 DEF ToldUpTo
<1>7. ls = Lines(Message(n + 1).id, vs) /\ lines2 = lines \o ls /\ LinesOf(n + 1) = ToSet(ls)
  BY DEF LinesOf, vs
<1> HIDE DEF ls
<1>8. \A i \in 1..(n + 1) : LinesOf(i) \subseteq ToSet(lines2)
  <2>1. ToSet(lines2) = ToSet(lines) \cup ToSet(ls)
    BY <1>4, <1>7, Concatenated
  <2>2. \A i \in 1..(n + 1) : i \in 1..n \/ i = n + 1
    OBVIOUS
  <2>3. QED
    BY <1>7, <2>1, <2>2 DEF ExplainedUpTo
<1>9. ASSUME NEW key \in Keys
      PROVE  CountOf(key, told2.counts) <= Cardinality(LinesUnder(lines2, key[1]))
  <2>1. CountOf(key, told.counts) <= Cardinality(LinesUnder(lines, key[1]))
    BY DEF ExplainedUpTo
  <2>2. /\ Cardinality(LinesUnder(lines2, key[1]))
             = Cardinality(LinesUnder(lines, key[1])) + Cardinality(LinesUnder(ls, key[1]))
        /\ Cardinality(LinesUnder(lines, key[1])) \in Nat
        /\ Cardinality(LinesUnder(ls, key[1])) \in Nat
    <3>1. IsList(lines) /\ IsList(ls) /\ lines2 = lines \o ls
      BY <1>4, <1>7
    <3>2. QED
      BY ONLY <3>1, LinesAdded
  <2>3. QED
    BY <1>4, <1>5, <2>1, <2>2
<1>10. QED
  BY <1>1, <1>6, <1>8, <1>9 DEF ExplainedUpTo

-----------------------------------------------------------------------------
(* What is captured.                                                       *)

\* A record that is captured marks its id, and writes the file if it was not marked.
LEMMA OneMoreCaptured ==
  ASSUME NEW n \in Nat, NEW f, NEW marked, CapturedUpTo(n, f, marked),
         NEW fields, CaptureOf(n + 1) = {fields}
  PROVE  CapturedUpTo(n + 1,
                      IF Message(n + 1).id \in marked THEN f ELSE Over(f, Message(n + 1).id, fields),
                      marked \cup {Message(n + 1).id})
<1> DEFINE id == Message(n + 1).id
           f2 == IF id \in marked THEN f ELSE Over(f, id, fields)
           Kept(m) == {j \in 1..m : CaptureOf(j) # {}}
<1>1. /\ \A i \in 1..n : FirstCaptured(i) => /\ Message(i).id \in DOMAIN f
                                             /\ f[Message(i).id] \in CaptureOf(i)
      /\ marked = {Message(i).id : i \in Kept(n)}
  BY DEF CapturedUpTo
<1>2. Kept(n + 1) = Kept(n) \cup {n + 1} /\ n + 1 \in 1..(n + 1) /\ (n + 1) - 1 = n
  <2>1. 1..(n + 1) = (1..n) \cup {n + 1} /\ (n + 1) - 1 = n
    OBVIOUS
  <2>2. QED
    BY <2>1
<1>3. marked \cup {id} = {Message(i).id : i \in Kept(n + 1)}
  BY <1>1, <1>2
<1>4. ASSUME NEW i \in 1..(n + 1), FirstCaptured(i)
      PROVE  Message(i).id \in DOMAIN f2 /\ f2[Message(i).id] \in CaptureOf(i)
  <2>1. CASE i \in 1..n
    <3>1. Message(i).id \in DOMAIN f /\ f[Message(i).id] \in CaptureOf(i)
      BY <1>1, <1>4, <2>1
    <3>2. Message(i).id \in marked
      BY <1>1, <1>4, <2>1 DEF FirstCaptured
    <3>3. CASE id \in marked
      BY <3>1, <3>3
    <3>4. CASE id \notin marked
      <4>1. Message(i).id # id
        BY <3>2, <3>4
      <4>2. QED
        BY <3>1, <3>4, <4>1 DEF Over
    <3>5. QED
      BY <3>3, <3>4
  <2>2. CASE i = n + 1
    <3>1. \A j \in 1..n : Message(j).id = id => CaptureOf(j) = {}
      BY <1>2, <1>4, <2>2 DEF FirstCaptured
    <3>2. id \notin marked
      BY <1>1, <3>1
    <3>3. id \in DOMAIN f2 /\ f2[id] = fields
      BY <3>2 DEF Over
    <3>4. QED
      BY <2>2, <3>3
  <2>3. i \in 1..n \/ i = n + 1
    OBVIOUS
  <2>4. QED
    BY <2>1, <2>2, <2>3
<1>5. QED
  BY <1>3, <1>4 DEF CapturedUpTo

\* A record that is not captured changes nothing.
LEMMA NoneMoreCaptured ==
  ASSUME NEW n \in Nat, NEW f, NEW marked, CapturedUpTo(n, f, marked), CaptureOf(n + 1) = {}
  PROVE  CapturedUpTo(n + 1, f, marked)
<1>1. 1..(n + 1) = (1..n) \cup {n + 1}
  OBVIOUS
<1>2. ~ FirstCaptured(n + 1)
  BY DEF FirstCaptured
<1>3. {j \in 1..(n + 1) : CaptureOf(j) # {}} = {j \in 1..n : CaptureOf(j) # {}}
  BY <1>1
<1>4. QED
  BY <1>1, <1>2, <1>3 DEF CapturedUpTo

-----------------------------------------------------------------------------
(* The steps.                                                              *)

\* A record that was taken is one of the dump, and the next one follows it.
LEMMA TakenIsListed ==
  ASSUME TypeInv
  PROVE  /\ next - 1 \in Nat /\ next = (next - 1) + 1
         /\ next <= Len(dump.records) => next \in 1..Len(dump.records)
         /\ \A i \in 1..Len(dump.records) : IsList(Violations(Message(i)))
<1>1. next \in Nat \ {0} /\ dump \in Dumps
  BY DEF TypeInv
<1>2. dump.records \in Seq(ToSet(dump.records))
  BY <1>1, DumpsAreLists
<1>3. Len(dump.records) \in Nat
  BY <1>2
<1>4. \A i \in 1..Len(dump.records) : IsList(Violations(Message(i)))
  BY <1>1, ViolationsAreLists DEF IsList, Violations, Message
<1>5. QED
  BY <1>1, <1>3, <1>4

\* Nothing has been taken.
LEMMA NothingTaken ==
  /\ Flow(0, TRUE, <<>>, <<>>)
  /\ IsReport(NewReport) /\ IsList(NewReport.skipped)
  /\ ToldUpTo(0, NewReport)
  /\ \A lines : IsList(lines) => ExplainedUpTo(0, lines, NewReport)
  /\ \A f : CapturedUpTo(0, f, {})
<1>1. KeptUpTo(0) = {} /\ SkippedUpTo(0) = {} /\ 1..0 = {}
  BY DEF KeptUpTo, SkippedUpTo
<1>2. \A key : Counted(key, 0) = {}
  BY <1>1 DEF Counted
<1>3. /\ IsReport(NewReport) /\ NewReport.total = 0 /\ NewReport.skipped = <<>>
      /\ \A key : CountOf(key, NewReport.counts) = 0
  BY DEF IsReport, NewReport, CountOf, EmptyBag, SetToBag
<1>4. Cardinality({}) = 0
  BY FS_EmptySet
<1>5. Flow(0, TRUE, <<>>, <<>>)
  BY <1>1, <1>4 DEF Flow
<1>6. ToldUpTo(0, NewReport)
  BY <1>1, <1>2, <1>3, <1>4 DEF ToldUpTo
<1>7. ASSUME NEW lines, IsList(lines) PROVE ExplainedUpTo(0, lines, NewReport)
  <2>1. \A rule : LinesUnder(lines, rule) \subseteq DOMAIN lines
    BY DEF LinesUnder
  <2>2. \A rule : Cardinality(LinesUnder(lines, rule)) \in Nat
    BY <1>7, <2>1, FinitePositions
  <2>3. QED
    BY <1>1, <1>3, <2>2 DEF ExplainedUpTo
<1>8. \A f : CapturedUpTo(0, f, {})
  BY <1>1 DEF CapturedUpTo
<1>9. IsList(<<>>)
  BY DEF IsList
<1>10. QED
  BY <1>3, <1>5, <1>6, <1>7, <1>8, <1>9

\* The lines in the file and in the buffer.
LEMMA LinesInTwo ==
  ASSUME NEW s, NEW t, IsList(s), IsList(t)
  PROVE  /\ IsList(s \o t) /\ (s \o t) \o <<>> = s \o t /\ s \o <<>> = s /\ IsList(<<>>)
         /\ \A u : IsList(u) => s \o (t \o u) = (s \o t) \o u /\ IsList(t \o u)
<1>1. IsList(s \o t)
  BY Concatenated
<1>2. ASSUME NEW u, IsList(u) PROVE u \o <<>> = u
  <2>1. u \in Seq(ToSet(u))
    BY <1>2 DEF IsList
  <2>2. QED
    BY <2>1
<1>3. ASSUME NEW u, IsList(u) PROVE s \o (t \o u) = (s \o t) \o u
  <2> DEFINE all == ToSet(s) \cup ToSet(t) \cup ToSet(u)
  <2>1. s \in Seq(ToSet(s)) /\ t \in Seq(ToSet(t)) /\ u \in Seq(ToSet(u))
    BY <1>3 DEF IsList
  <2>2. s \in Seq(all) /\ t \in Seq(all) /\ u \in Seq(all)
    BY <2>1
  <2> HIDE DEF all
  <2>3. QED
    BY <2>2
<1>4. \A u : IsList(u) => IsList(t \o u)
  BY Concatenated
<1>5. IsList(<<>>)
  BY DEF IsList
<1>6. QED
  BY <1>1, <1>2, <1>3, <1>4, <1>5

LEMMA InitInv == Init => AccountInv
<1> SUFFICES ASSUME Init PROVE AccountInv
  OBVIOUS
<1>1. /\ dump \in Dumps /\ validated \in BOOLEAN
      /\ next = 1 /\ stage = "run" /\ checked = <<>> /\ receiving = TRUE /\ published = <<>>
      /\ report = NewReport /\ written = {} /\ buffer = <<>> /\ log = <<>>
  BY DEF Init, Fresh
<1>2. next - 1 = 0 /\ IsList(<<>>) /\ <<>> \o <<>> = <<>>
  BY <1>1 DEF IsList
<1>3. TypeInv
  BY <1>1, <1>2, NothingTaken DEF TypeInv, IsReport
<1>4. FlowInv
  BY <1>1, <1>2, NothingTaken DEF FlowInv
<1>5. ReportInv
  BY <1>1, <1>2, NothingTaken DEF ReportInv
<1>6. CaptureInv
  BY <1>1, <1>2, NothingTaken DEF CaptureInv
<1>7. QED
  BY <1>3, <1>4, <1>5, <1>6 DEF AccountInv

\* A pass that starts over: what is on disk stays, and everything else is as at first.
LEMMA RepublishInv == AccountInv /\ Republish => AccountInv'
<1> SUFFICES ASSUME AccountInv, Republish PROVE AccountInv'
  OBVIOUS
<1>1. /\ next' = 1 /\ stage' = "run" /\ checked' = <<>> /\ receiving' = TRUE /\ published' = <<>>
      /\ report' = NewReport /\ written' = {} /\ buffer' = <<>>
      /\ UNCHANGED <<dump, validated, log, files, reportFile>>
  BY DEF Republish, onDisk
<1>2. next' - 1 = 0 /\ IsList(<<>>) /\ IsList(log) /\ log' \o buffer' = log
  BY <1>1, LinesInTwo DEF AccountInv, TypeInv
<1>3. TypeInv'
  BY <1>1, <1>2, NothingTaken DEF AccountInv, TypeInv, IsReport, IsList
<1>4. FlowInv'
  <2>1. Flow(next' - 1, receiving', checked', published')
    BY <1>1, <1>2, NothingTaken, Zenon
  <2>2. QED
    BY <1>1, <2>1, SameDump DEF FlowInv
<1>5. ReportInv'
  BY <1>1, <1>2, NothingTaken, SameDump DEF ReportInv
<1>6. CaptureInv'
  BY <1>1, <1>2, NothingTaken, SameDump DEF CaptureInv
<1>7. QED
  BY <1>3, <1>4, <1>5, <1>6 DEF AccountInv

\* A record that is taken and skipped.
LEMMA SkipRecordInv == AccountInv /\ SkipRecord => AccountInv'
<1> SUFFICES ASSUME AccountInv, SkipRecord PROVE AccountInv'
  OBVIOUS
<1> DEFINE n == next - 1
           skip == Head(Skip(Message(n + 1)))
           line == Line(Message(n + 1).id, skip.reason, skip.value)
<1>1. /\ validated /\ stage = "run" /\ next <= Len(dump.records) /\ Skip(Taken) # <<>>
      /\ next' = next + 1
      /\ UNCHANGED <<dump, validated, stage, checked, receiving, published, log, reportFile>>
  BY DEF SkipRecord, CanValidate
<1>2. TypeInv /\ FlowInv /\ ReportInv /\ CaptureInv
  BY DEF AccountInv
<1>3. /\ n \in Nat /\ next = n + 1 /\ next' - 1 = n + 1 /\ Message(n + 1) = Taken
      /\ \A i \in 1..(n + 1) : IsList(Violations(Message(i)))
  <2>1. n \in Nat /\ next = n + 1 /\ next \in 1..Len(dump.records)
    BY <1>1, <1>2, TakenIsListed
  <2>2. next' - 1 = n + 1 /\ \A i \in 1..(n + 1) : i \in 1..Len(dump.records)
    BY <1>1, <2>1
  <2>3. QED
    BY <1>2, <2>1, <2>2, TakenIsListed DEF Taken
<1> HIDE DEF n
<1>4. Skipped(n + 1)
  BY <1>1, <1>3 DEF Skipped
<1>5. /\ report' = RecordSkip(IncrementTotal(report), Message(n + 1).id, skip.reason)
      /\ buffer' = Append(buffer, line)
      /\ written' = written \cup {Message(n + 1).id}
      /\ files' = IF Message(n + 1).id \in written THEN files
                  ELSE Over(files, Message(n + 1).id, Message(n + 1).data)
  BY <1>3 DEF SkipRecord, Capture
<1> HIDE DEF line, skip
<1>6. /\ IsList(log) /\ IsList(buffer) /\ IsList(<<line>>)
      /\ IsList(buffer') /\ IsList(log \o buffer) /\ log' \o buffer' = (log \o buffer) \o <<line>>
  <2>1. IsList(log) /\ IsList(buffer) /\ IsList(<<line>>) /\ buffer' = buffer \o <<line>>
    BY <1>2, <1>5, Single DEF TypeInv
  <2>2. QED
    BY <1>1, <2>1, LinesInTwo
<1>7. /\ IsReport(report) /\ IsList(report.skipped)
      /\ ToldUpTo(n, report) /\ ExplainedUpTo(n, log \o buffer, report)
      /\ CapturedUpTo(n, files, written) /\ Flow(n, receiving, checked, published)
  BY <1>1, <1>2 DEF TypeInv, IsReport, ReportInv, CaptureInv, FlowInv, n
<1>8. /\ IsReport(report') /\ IsList(report'.skipped)
      /\ ToldUpTo(n + 1, report') /\ ExplainedUpTo(n + 1, log' \o buffer', report')
  BY <1>3, <1>4, <1>5, <1>6, <1>7, SkipTold DEF line, skip
<1>9. TypeInv'
  BY <1>1, <1>2, <1>6, <1>8 DEF TypeInv, IsReport, IsList
<1>10. FlowInv'
  <2>1. Flow(n + 1, receiving, checked, published)
    BY <1>2, <1>3, <1>4, <1>7, FlowSkips DEF TypeInv
  <2>2. QED
    BY <1>1, <1>2, <1>3, <2>1, SameDump DEF FlowInv
<1>11. ReportInv'
  BY <1>1, <1>3, <1>8, SameDump DEF ReportInv
<1>12. CaptureInv'
  <2>1. CaptureOf(n + 1) = {Message(n + 1).data}
    BY <1>4 DEF CaptureOf
  <2>2. CapturedUpTo(n + 1, files', written')
    BY <1>3, <1>5, <1>7, <2>1, OneMoreCaptured
  <2>3. QED
    BY <1>1, <1>3, <2>2, SameDump DEF CaptureInv
<1>13. QED
  BY <1>9, <1>10, <1>11, <1>12 DEF AccountInv

\* A record that is checked and, while the normalizer receives, passed on.
LEMMA CheckRecordInv == AccountInv /\ CheckRecord => AccountInv'
<1> SUFFICES ASSUME AccountInv, CheckRecord PROVE AccountInv'
  OBVIOUS
<1> DEFINE n == next - 1
           vs == Violations(Message(n + 1))
           repaired == Repaired(Message(n + 1))
           ls == Lines(Message(n + 1).id, vs)
<1>1. /\ validated /\ stage = "run" /\ next <= Len(dump.records) /\ Skip(Taken) = <<>>
      /\ next' = next + 1 /\ stage' = IF receiving THEN "run" ELSE "ending"
      /\ UNCHANGED <<dump, validated, receiving, published, log, reportFile>>
  BY DEF CheckRecord, CanValidate
<1>2. TypeInv /\ FlowInv /\ ReportInv /\ CaptureInv
  BY DEF AccountInv
<1>3. /\ n \in Nat /\ next = n + 1 /\ next' - 1 = n + 1 /\ Message(n + 1) = Taken
      /\ \A i \in 1..(n + 1) : IsList(Violations(Message(i)))
  <2>1. n \in Nat /\ next = n + 1 /\ next \in 1..Len(dump.records)
    BY <1>1, <1>2, TakenIsListed
  <2>2. next' - 1 = n + 1 /\ \A i \in 1..(n + 1) : i \in 1..Len(dump.records)
    BY <1>1, <2>1
  <2>3. QED
    BY <1>2, <2>1, <2>2, TakenIsListed DEF Taken
<1> HIDE DEF n
<1>4. ~ Skipped(n + 1)
  BY <1>1, <1>3 DEF Skipped
<1>5. /\ report' = RecordViolations(RecordFilterActions(IncrementTotal(report), repaired.actions), vs)
      /\ buffer' = buffer \o ls
      /\ IF Captures(vs) THEN Capture(Message(n + 1).id, repaired.fields)
                         ELSE UNCHANGED <<written, files>>
      /\ checked' = IF receiving THEN Append(checked, Sent(n + 1)) ELSE checked
  BY <1>1, <1>3 DEF CheckRecord, Sent
<1>6. IsList(ls)
  <2>1. n + 1 \in 1..(n + 1)
    BY <1>3
  <2>2. QED
    BY <1>3, <2>1, LinesOfViolations
<1> HIDE DEF ls, vs, repaired
<1>7. /\ IsList(log) /\ IsList(buffer)
      /\ IsList(buffer') /\ IsList(log \o buffer) /\ log' \o buffer' = (log \o buffer) \o ls
  <2>1. IsList(log) /\ IsList(buffer)
    BY <1>2 DEF TypeInv
  <2>2. QED
    BY <1>1, <1>5, <1>6, <2>1, LinesInTwo
<1>8. /\ IsReport(report) /\ IsList(report.skipped)
      /\ ToldUpTo(n, report) /\ ExplainedUpTo(n, log \o buffer, report)
      /\ CapturedUpTo(n, files, written) /\ Flow(n, receiving, checked, published)
  BY <1>1, <1>2 DEF TypeInv, IsReport, ReportInv, CaptureInv, FlowInv, n
<1>9. /\ IsReport(report') /\ IsList(report'.skipped)
      /\ ToldUpTo(n + 1, report') /\ ExplainedUpTo(n + 1, log' \o buffer', report')
  BY <1>3, <1>4, <1>5, <1>7, <1>8, CheckTold DEF ls, vs
<1>10. IsList(checked) /\ IsList(published) /\ receiving \in BOOLEAN /\ IsList(checked')
  <2>1. IsList(checked) /\ IsList(published) /\ receiving \in BOOLEAN
    BY <1>2 DEF TypeInv
  <2>2. IsList(Append(checked, Sent(n + 1)))
    BY <2>1, Appended
  <2>3. QED
    BY <1>5, <2>1, <2>2
<1>11. TypeInv'
  BY <1>1, <1>2, <1>7, <1>9, <1>10 DEF TypeInv, IsReport, IsList
<1>12. FlowInv'
  <2>1. Flow(n + 1, receiving, checked', published)
    BY <1>3, <1>4, <1>5, <1>8, <1>10, FlowPasses
  <2>2. QED
    BY <1>1, <1>3, <2>1, SameDump DEF FlowInv
<1>13. ReportInv'
  BY <1>1, <1>3, <1>9, SameDump DEF ReportInv
<1>14. CaptureInv'
  <2>1. CapturedUpTo(n + 1, files', written')
    <3>1. CASE Captures(vs)
      <4>1. CaptureOf(n + 1) = {repaired.fields}
        BY <1>4, <3>1 DEF CaptureOf, vs, repaired
      <4>2. /\ written' = written \cup {Message(n + 1).id}
            /\ files' = IF Message(n + 1).id \in written THEN files
                        ELSE Over(files, Message(n + 1).id, repaired.fields)
        BY <1>5, <3>1 DEF Capture
      <4>3. QED
        BY <1>3, <1>8, <4>1, <4>2, OneMoreCaptured
    <3>2. CASE ~ Captures(vs)
      <4>1. CaptureOf(n + 1) = {} /\ UNCHANGED <<written, files>>
        BY <1>4, <1>5, <3>2 DEF CaptureOf, vs
      <4>2. QED
        BY <1>3, <1>8, <4>1, NoneMoreCaptured
    <3>3. QED
      BY <3>1, <3>2
  <2>2. QED
    BY <1>1, <1>3, <2>1, SameDump DEF CaptureInv
<1>15. QED
  BY <1>11, <1>12, <1>13, <1>14 DEF AccountInv

\* Lines move from the buffer to the file, and both together stay.
LEMMA SpillInv == AccountInv /\ (Spill \/ EndValidation) => AccountInv'
<1> SUFFICES ASSUME AccountInv, Spill \/ EndValidation PROVE AccountInv'
  OBVIOUS
<1>1. TypeInv /\ FlowInv /\ ReportInv /\ CaptureInv
  BY DEF AccountInv
<1>2. /\ log' = log \o buffer /\ buffer' = <<>>
      /\ UNCHANGED <<dump, validated, next, checked, receiving, published, report, written, files>>
  BY DEF Spill, EndValidation
<1>3. stage' \in {"run", "ending", "ended"} /\ (stage' = "ended" => validated /\ EndValidation)
  BY <1>1 DEF Spill, EndValidation, TypeInv
<1>4. IsList(log') /\ IsList(buffer') /\ log' \o buffer' = log \o buffer
  BY <1>1, <1>2, LinesInTwo DEF TypeInv
<1>5. TypeInv'
  BY <1>1, <1>2, <1>3, <1>4 DEF TypeInv, IsList
<1>6. FlowInv'
  BY <1>1, <1>2, SameDump DEF FlowInv
<1>7. ReportInv'
  <2>1. validated' => /\ ToldUpTo(next - 1, report)'
                      /\ ExplainedUpTo(next - 1, log \o buffer, report)'
    BY <1>1, <1>2, <1>4, SameDump DEF ReportInv
  <2>2. ASSUME stage' = "ended", next > 1 PROVE reportFile' = report
    <3>1. report.total = next - 1 /\ next \in Nat
      BY <1>1, <1>3, <2>2 DEF ReportInv, ToldUpTo, TypeInv
    <3>2. report.total # 0
      BY <2>2, <3>1
    <3>3. QED
      BY <1>3, <2>2, <3>2 DEF EndValidation
  <2>3. QED
    BY <1>2, <1>3, <2>1, <2>2 DEF ReportInv
<1>8. CaptureInv'
  BY <1>1, <1>2, SameDump DEF CaptureInv
<1>9. QED
  BY <1>5, <1>6, <1>7, <1>8 DEF AccountInv

\* The normalizer takes a message, and publishes it or finds the batcher gone.
LEMMA ReceiveInv == AccountInv /\ (NormalizeRecordStep \/ DownstreamDropped) => AccountInv'
<1> SUFFICES ASSUME AccountInv, NormalizeRecordStep \/ DownstreamDropped PROVE AccountInv'
  OBVIOUS
<1> DEFINE n == next - 1
<1>1. TypeInv /\ FlowInv /\ ReportInv /\ CaptureInv
  BY DEF AccountInv
<1>2. /\ receiving /\ Waiting
      /\ IF validated THEN checked' = Tail(checked) /\ UNCHANGED next
                      ELSE next' = next + 1 /\ UNCHANGED checked
      /\ UNCHANGED <<dump, validated, stage, report, written, buffer, log, files, reportFile>>
  BY DEF NormalizeRecordStep, DownstreamDropped, Receive, onDisk
<1>3. \/ receiving' = TRUE /\ published' = Append(published, Publishable(Received))
      \/ receiving' = FALSE /\ published' = published
  BY <1>1, <1>2 DEF NormalizeRecordStep, DownstreamDropped, TypeInv
<1>4. /\ IsList(checked) /\ IsList(published) /\ receiving = TRUE
      /\ n \in Nat /\ next = n + 1 /\ Flow(n, TRUE, checked, published)
  BY <1>1, <1>2, TakenIsListed DEF TypeInv, FlowInv
<1> HIDE DEF n
<1>5. IsList(published')
  <2>1. IsList(Append(published, Publishable(Received)))
    BY <1>4, Appended
  <2>2. QED
    BY <1>3, <1>4, <2>1
<1>6. CASE validated
  <2>1. checked # <<>> /\ Received = Head(checked) /\ checked' = Tail(checked) /\ next' = next
    BY <1>2, <1>6 DEF Waiting, Received
  <2>2. /\ IsList(checked')
        /\ Flow(n, TRUE, checked', Append(published, Publishable(Received)))
        /\ Flow(n, FALSE, checked', published)
    BY <1>4, <2>1, FlowPublishes
  <2>3. TypeInv'
    BY <1>1, <1>2, <1>3, <1>5, <2>1, <2>2 DEF TypeInv, IsList
  <2>4. Flow(n, receiving', checked', published')
    BY <1>3, <2>2, Zenon
  <2>5. FlowInv'
    BY <1>2, <1>6, <2>1, <2>4, SameDump DEF FlowInv, n
  <2>6. ReportInv' /\ CaptureInv'
    BY <1>1, <1>2, <2>1, SameDump DEF ReportInv, CaptureInv
  <2>7. QED
    BY <2>3, <2>5, <2>6 DEF AccountInv
<1>7. CASE ~ validated
  <2>1. /\ checked = <<>> /\ checked' = <<>> /\ next' = next + 1 /\ Received = Taken
    BY <1>1, <1>2, <1>7 DEF Received, FlowInv
  <2>2. ~ Skipped(n + 1) /\ Sent(n + 1) = Taken /\ next' - 1 = n + 1
    BY <1>4, <1>7, <2>1 DEF Skipped, Sent, Taken
  <2>3. /\ Flow(n + 1, TRUE, <<>>, Append(published, Publishable(Received)))
        /\ Flow(n + 1, FALSE, <<>>, published)
    <3>1. Flow(n, TRUE, <<>>, published)
      BY <1>4, <2>1
    <3>2. /\ Flow(n + 1, TRUE, <<>>, Append(published, Publishable(Sent(n + 1))))
          /\ Flow(n + 1, FALSE, <<>>, published)
      BY <1>4, <2>2, <3>1, FlowDirect
    <3>3. QED
      BY <2>1, <2>2, <3>2
  <2>4. TypeInv'
    <3>1. next' \in Nat \ {0} /\ IsList(checked')
      BY <1>1, <2>1 DEF TypeInv, IsList
    <3>2. receiving' \in BOOLEAN
      BY <1>1, <1>3 DEF TypeInv
    <3>3. QED
      BY <1>1, <1>2, <1>5, <3>1, <3>2 DEF TypeInv
  <2>5. Flow(n + 1, receiving', checked', published')
    BY <1>3, <2>1, <2>3, Zenon
  <2>6. FlowInv'
    BY <1>2, <1>7, <2>1, <2>2, <2>5, SameDump DEF FlowInv
  <2>7. stage # "ended"
    BY <1>1, <1>7 DEF ReportInv
  <2>8. ReportInv' /\ CaptureInv'
    BY <1>2, <1>7, <2>7 DEF ReportInv, CaptureInv
  <2>9. QED
    BY <2>4, <2>6, <2>8 DEF AccountInv
<1>8. QED
  BY <1>6, <1>7

LEMMA NextInv == AccountInv /\ [Next]_vars => AccountInv'
<1> SUFFICES ASSUME AccountInv, UNCHANGED vars PROVE AccountInv'
  BY SkipRecordInv, CheckRecordInv, SpillInv, ReceiveInv, RepublishInv DEF Next
<1>1. UNCHANGED <<dump, validated, next, stage, checked, receiving, published,
                  report, written, buffer, log, files, reportFile>>
  BY DEF vars, volatile, onDisk
<1>2. TypeInv'
  BY <1>1 DEF AccountInv, TypeInv, IsList
<1>3. FlowInv' /\ ReportInv' /\ CaptureInv'
  BY <1>1, SameDump DEF AccountInv, FlowInv, ReportInv, CaptureInv
<1>4. QED
  BY <1>2, <1>3 DEF AccountInv

\* Any crash, any failed send and any number of passes: each record taken is sent on,
\* in order, or the report names it; and at the end of a validation the lines and the
\* captured records on disk bear out the report (mod.rs:642-734, rules.rs:545-892).
THEOREM Accounting == Spec => []NothingUnaccounted
<1>1. AccountInv => NothingUnaccounted
  <2> SUFFICES ASSUME AccountInv PROVE NothingUnaccounted
    OBVIOUS
  <2>1. TypeInv /\ FlowInv /\ ReportInv /\ CaptureInv
    BY DEF AccountInv
  <2>2. PublishedInOrder
    <3>1. Len(published) \in Nat /\ Len(<<>>) = 0
      <4>1. published \in Seq(ToSet(published))
        BY <2>1 DEF TypeInv, IsList
      <4>2. QED
        BY <4>1
    <3>2. QED
      BY <2>1, <3>1 DEF FlowInv, Flow, PublishedInOrder
  <2>3. ASSUME stage = "ended", next > 1
        PROVE  Told(reportFile) /\ Explained(log, reportFile) /\ CapturedFirst
    <3>1. validated /\ buffer = <<>> /\ reportFile = report
      BY <2>1, <2>3 DEF ReportInv
    <3>2. log \o buffer = log
      BY <2>1, <3>1, LinesInTwo DEF TypeInv
    <3>3. /\ ToldUpTo(next - 1, reportFile) /\ ExplainedUpTo(next - 1, log, reportFile)
          /\ CapturedUpTo(next - 1, files, written)
      BY <2>1, <3>1, <3>2 DEF ReportInv, CaptureInv
    <3>4. QED
      BY <3>3 DEF ToldUpTo, ExplainedUpTo, CapturedUpTo, Told, Explained, CapturedFirst
  <2>4. QED
    BY <2>2, <2>3 DEF NothingUnaccounted
<1>2. QED
  BY <1>1, InitInv, NextInv, PTL DEF Spec
=============================================================================
