--------------------------- MODULE XmlParser_proofs ---------------------------
(***************************************************************************)
(* Proofs about XmlParser.  Where the parser reads on without an error, the *)
(* depth, the open elements and what they have collected are those of the  *)
(* position (Standing); after an error it keeps nothing and looks for the  *)
(* next record.                                                            *)
(***************************************************************************)
EXTENDS XmlParser, SequenceTheorems, TLAPS

Plain  == Events("plain")
Closed == Events("closed")
Nested == Events("nested")

\* The context of the element that starts at event k of piece i, with texts T of it.
With(i, k, T) == [at |-> <<i, k>>, text |-> {<<i, t>> : t \in T}]

\* The depth and the open elements of a sound piece before event k.
DepthAt(i, k) ==
  CASE i = 1 -> 0
    [] i # 1 /\ k = 1 -> 1
    [] OTHER -> IF doc[i] = Plain THEN <<1, 2, 3, 3, 2, 2>>[k] ELSE <<1, 2, 2, 3, 4, 4, 3, 2>>[k]

StackAt(i, k) ==
  CASE k = 1 -> <<>>
    [] k # 1 /\ doc[i] = Plain ->
         <<<<>>, <<With(i, 1, {})>>, <<With(i, 1, {}), With(i, 2, {})>>,
           <<With(i, 1, {}), With(i, 2, {3})>>, <<With(i, 1, {3})>>, <<With(i, 1, {3})>>>>[k]
    [] OTHER ->
         <<<<>>, <<With(i, 1, {})>>, <<With(i, 1, {2})>>, <<With(i, 1, {2}), With(i, 3, {})>>,
           <<With(i, 1, {2}), With(i, 3, {}), With(i, 4, {})>>,
           <<With(i, 1, {2}), With(i, 3, {}), With(i, 4, {5})>>,
           <<With(i, 1, {2}), With(i, 3, {5})>>, <<With(i, 1, {2, 5})>>>>[k]

\* Nothing of the piece was an error so far.
Standing ==
  /\ depth = DepthAt(pos[1], pos[2]) /\ stack = StackAt(pos[1], pos[2])
  /\ inTarget = (pos[2] > 1)
  /\ \A k \in 1..(pos[2] - 1) : <<pos[1], k>> \notin bad

\* The reader is past an error of this piece, or of one before.
Resyncing ==
  /\ pos[1] > 1 /\ stack = <<>> /\ inTarget = FALSE
  /\ pos[2] > 1 => \E k \in 1..pos[2] : <<pos[1], k>> \in bad
  /\ doc[pos[1]] = Nested => pos[2] \notin 2..4

DumpType ==
  /\ Len(doc) \in Nat /\ Len(doc) >= 2 /\ DOMAIN doc = 1..Len(doc)
  /\ doc[1] = <<Open("container")>> /\ doc[Len(doc)] = <<Close("container")>>
  /\ \A r \in Records : doc[r] \in {Plain, Closed, Nested}
  /\ \A p \in bad : p \in Positions /\ EventAt(p).kind \in {"text", "end"}

\* In a record that nests another of its name, the text before the inner one is sound.
LabelsIntact == \A r \in Records : doc[r] = Nested => <<r, 2>> \notin bad

AtEnd == pos = <<Len(doc) + 1, 1>>

ParserInv ==
  /\ DumpType
  /\ pos \in Positions \/ AtEnd
  /\ malformed \in Nat /\ resyncing \in BOOLEAN
  /\ DOMAIN emitted = 1..Len(emitted) /\ Len(emitted) \in Nat
  /\ result # "err" => malformed <= Tolerated
  /\ OnlyMalformedDropped
  /\ result = "none" =>
       /\ Sent(SoundBefore(pos[1]))
       /\ pos \in Positions => IF resyncing THEN Resyncing ELSE Standing

-----------------------------------------------------------------------------
(* The dump.                                                               *)

\* The shapes of a record; they differ in their number of events.
LEMMA ShapeEvents ==
  /\ Plain = <<Open("target"), Open("child"), Text, Close("child"), Empty("child"), Close("target")>>
  /\ Closed = <<Empty("target")>>
  /\ Nested = <<Open("target"), Text, Open("child"), Open("target"), Text, Close("target"),
               Close("child"), Close("target")>>
<1>1. QED
  BY DEF Plain, Closed, Nested, Events

LEMMA ShapeLengths ==
  /\ Len(Plain) = 6 /\ Len(Closed) = 1 /\ Len(Nested) = 8
  /\ DOMAIN Plain = 1..6 /\ DOMAIN Closed = 1..1 /\ DOMAIN Nested = 1..8
  /\ Plain # Closed /\ Plain # Nested /\ Closed # Nested
<1>1. /\ Len(Plain) = 6 /\ Len(Closed) = 1 /\ Len(Nested) = 8
      /\ DOMAIN Plain = 1..6 /\ DOMAIN Closed = 1..1 /\ DOMAIN Nested = 1..8
  BY ShapeEvents
<1>2. QED
  BY <1>1

\* A dump is a container of records of the known shapes.
LEMMA DumpInit ==
  Init => DumpType /\ ("nested" \notin Shapes => \A r \in Records : doc[r] # Nested)
<1> SUFFICES ASSUME Init
             PROVE  DumpType /\ ("nested" \notin Shapes => \A r \in Records : doc[r] # Nested)
  OBVIOUS
<1>1. PICK shapes \in BoundedSeq(Shapes, MaxRecords) : doc = Document(shapes)
  BY DEF Init
<1>2. PICK m \in Nat : shapes \in [1..m -> Shapes]
  BY <1>1, BoundsNat DEF BoundedSeq, SeqOf
<1> DEFINE mid == [r \in DOMAIN shapes |-> Events(shapes[r])]
<1>3. /\ \A r \in 1..m : mid[r] \in {Plain, Closed, Nested}
      /\ mid \in Seq({Plain, Closed, Nested}) /\ Len(mid) = m
  <2>1. DOMAIN shapes = 1..m /\ \A r \in 1..m : shapes[r] \in {"plain", "closed", "nested"}
    BY <1>2, ShapesKnown
  <2>2. \A r \in 1..m : mid[r] \in {Plain, Closed, Nested}
    BY <2>1 DEF Plain, Closed, Nested
  <2>3. mid \in [1..m -> {Plain, Closed, Nested}]
    BY <2>1, <2>2
  <2>4. QED
    BY <1>2, <2>2, <2>3
<1> HIDE DEF mid
<1>4. doc = <<<<Open("container")>>>> \o mid \o <<<<Close("container")>>>>
  BY <1>1 DEF Document, mid
<1> DEFINE Piece == {Plain, Closed, Nested, <<Open("container")>>, <<Close("container")>>}
           head == <<<<Open("container")>>>>
           end == <<<<Close("container")>>>>
<1>5. mid \in Seq(Piece) /\ head \in Seq(Piece) /\ end \in Seq(Piece)
  BY <1>3
<1>6. /\ head \o mid \in Seq(Piece) /\ Len(head \o mid) = m + 1
      /\ (head \o mid)[1] = <<Open("container")>>
      /\ \A r \in 2..(m + 1) : (head \o mid)[r] = mid[r - 1]
  BY <1>2, <1>3, <1>5
<1>7. /\ Len(doc) = m + 2 /\ doc \in Seq(Piece)
      /\ doc[m + 2] = <<Close("container")>>
      /\ \A r \in 1..(m + 1) : doc[r] = (head \o mid)[r]
  <2> HIDE DEF Piece
  <2> DEFINE hm == head \o mid
  <2>1. hm \in Seq(Piece) /\ Len(hm) = m + 1 /\ doc = hm \o end
    BY <1>4, <1>6
  <2>2. Len(end) = 1 /\ end[1] = <<Close("container")>>
    OBVIOUS
  <2> HIDE DEF hm, end
  <2>3. /\ doc \in Seq(Piece) /\ Len(doc) = m + 2
        /\ \A r \in 1..(m + 2) : doc[r] = IF r <= m + 1 THEN hm[r] ELSE end[r - (m + 1)]
    <3>1. /\ hm \o end \in Seq(Piece) /\ Len(hm \o end) = Len(hm) + Len(end)
          /\ \A r \in 1..(Len(hm) + Len(end)) :
               (hm \o end)[r] = IF r <= Len(hm) THEN hm[r] ELSE end[r - Len(hm)]
      BY <1>5, <2>1, ConcatProperties
    <3>2. Len(hm) + Len(end) = m + 2
      BY <1>2, <2>1, <2>2
    <3>3. QED
      BY <2>1, <3>1, <3>2
  <2>4. doc[m + 2] = end[1]
    <3>1. m + 2 \in 1..(m + 2) /\ ~ (m + 2 <= m + 1) /\ m + 2 - (m + 1) = 1
      BY <1>2
    <3>2. QED
      BY <2>3, <3>1
  <2>5. \A r \in 1..(m + 1) : doc[r] = hm[r]
    BY <1>2, <2>3
  <2>6. QED
    BY <2>2, <2>3, <2>4, <2>5 DEF hm
<1>8. Records = 2..(m + 1) /\ DOMAIN doc = 1..Len(doc)
  BY <1>2, <1>7 DEF Records
<1>9. /\ Len(doc) \in Nat /\ Len(doc) >= 2
      /\ doc[1] = <<Open("container")>> /\ doc[Len(doc)] = <<Close("container")>>
  BY <1>2, <1>6, <1>7
<1>10. \A r \in Records : doc[r] \in {Plain, Closed, Nested}
  <2> TAKE r \in Records
  <2>1. r \in 1..(m + 1) /\ r \in 2..(m + 1) /\ r - 1 \in 1..m
    BY <1>2, <1>8
  <2>2. doc[r] = mid[r - 1]
    BY <1>6, <1>7, <2>1
  <2>3. QED
    BY <1>3, <2>1, <2>2
<1>11. \A p \in bad : p \in Positions /\ EventAt(p).kind \in {"text", "end"}
  BY DEF Init
<1>12. ASSUME "nested" \notin Shapes, NEW r \in Records PROVE doc[r] # Nested
  <2>1. r \in 1..(m + 1) /\ r \in 2..(m + 1) /\ r - 1 \in 1..m
    BY <1>2, <1>8
  <2>2. doc[r] = mid[r - 1]
    BY <1>6, <1>7, <2>1
  <2>3. shapes[r - 1] \in {"plain", "closed"}
    BY <1>2, <1>12, <2>1, ShapesKnown
  <2>4. mid[r - 1] = Events(shapes[r - 1])
    BY <1>2, <2>1 DEF mid
  <2>5. doc[r] = Plain \/ doc[r] = Closed
    BY <2>2, <2>3, <2>4 DEF Plain, Closed
  <2>6. QED
    BY <2>5, ShapeLengths
<1>13. QED
  BY <1>8, <1>9, <1>10, <1>11, <1>12 DEF DumpType

\* The pieces of a dump and where they end.
LEMMA PieceAt ==
  ASSUME DumpType, NEW i \in DOMAIN doc
  PROVE  /\ i \in Nat
         /\ i = 1 \/ i = Len(doc) \/ i \in Records
         /\ doc[i] \in {Plain, Closed, Nested, <<Open("container")>>, <<Close("container")>>}
         /\ DOMAIN doc[i] = 1..Len(doc[i]) /\ Len(doc[i]) \in Nat \ {0}
<1>1. i \in Nat /\ (i = 1 \/ i = Len(doc) \/ i \in Records)
  BY DEF DumpType, Records
<1>2. doc[i] \in {Plain, Closed, Nested, <<Open("container")>>, <<Close("container")>>}
  BY <1>1 DEF DumpType
<1>3. /\ DOMAIN <<Open("container")>> = 1..1 /\ Len(<<Open("container")>>) = 1
      /\ DOMAIN <<Close("container")>> = 1..1 /\ Len(<<Close("container")>>) = 1
  OBVIOUS
<1>4. DOMAIN doc[i] = 1..Len(doc[i]) /\ Len(doc[i]) \in Nat \ {0}
  <2>1. CASE doc[i] \in {Plain, Closed, Nested}
    <3>1. CASE doc[i] = Plain
      BY <3>1, ShapeLengths
    <3>2. CASE doc[i] = Closed
      BY <3>2, ShapeLengths
    <3>3. CASE doc[i] = Nested
      BY <3>3, ShapeLengths
    <3>4. QED
      BY <2>1, <3>1, <3>2, <3>3
  <2>2. CASE doc[i] = <<Open("container")>>
    BY <1>3, <2>2
  <2>3. CASE doc[i] = <<Close("container")>>
    BY <1>3, <2>3
  <2>4. QED
    BY <1>2, <2>1, <2>2, <2>3
<1>5. QED
  BY <1>1, <1>2, <1>4

LEMMA PositionsAre ==
  ASSUME DumpType
  PROVE  \A i, k : <<i, k>> \in Positions <=> i \in DOMAIN doc /\ k \in 1..Len(doc[i])
<1>1. \A i, k : <<i, k>> \in Positions <=> i \in DOMAIN doc /\ k \in DOMAIN doc[i]
  BY DEF Positions, Within
<1>2. QED
  BY <1>1, PieceAt

\* The position after one that is in the dump.
LEMMA AfterIs ==
  ASSUME DumpType, pos \in Positions
  PROVE  /\ pos = <<pos[1], pos[2]>> /\ pos[1] \in DOMAIN doc /\ pos[2] \in 1..Len(doc[pos[1]])
         /\ pos[1] \in Nat /\ pos[2] \in Nat
         /\ IF pos[2] < Len(doc[pos[1]]) THEN After(pos) = <<pos[1], pos[2] + 1>>
                                       ELSE After(pos) = <<pos[1] + 1, 1>>
         /\ After(pos) \in Positions \/ After(pos) = <<Len(doc) + 1, 1>>
<1>1. PICK i \in DOMAIN doc : \E k \in DOMAIN doc[i] : pos = <<i, k>>
  BY DEF Positions, Within
<1> PICK k \in DOMAIN doc[i] : pos = <<i, k>>
  BY <1>1
<1>2. k \in 1..Len(doc[i]) /\ Len(doc[i]) \in Nat /\ i \in Nat
  BY PieceAt, <1>1
<1>3. pos = <<pos[1], pos[2]>> /\ pos[1] = i /\ pos[2] = k
  OBVIOUS
<1>4. CASE k < Len(doc[i])
  <2>1. After(pos) = <<i, k + 1>> /\ <<i, k + 1>> \in Positions
    BY <1>2, <1>3, <1>4, PositionsAre DEF After
  <2>2. QED
    BY <1>2, <1>3, <1>4, <2>1
<1>5. CASE ~ (k < Len(doc[i]))
  <2>1. After(pos) = <<i + 1, 1>>
    BY <1>3, <1>5 DEF After
  <2>2. i + 1 \in DOMAIN doc => 1 \in 1..Len(doc[i + 1])
    BY PieceAt
  <2>3. i + 1 \in DOMAIN doc \/ i = Len(doc)
    BY DEF DumpType
  <2>4. QED
    BY <1>2, <1>3, <1>5, <2>1, <2>2, <2>3, PositionsAre
<1>6. QED
  BY <1>4, <1>5

-----------------------------------------------------------------------------
(* The open elements.                                                      *)

\* The texts of piece i at the events T.
Texts(i, T) == {<<i, t>> : t \in T}

\* Context c with texts T added.
More(c, T) == [c EXCEPT !.text = @ \cup T]

LEMMA WithMore ==
  ASSUME NEW i, NEW k, NEW T, NEW U
  PROVE  More(With(i, k, T), Texts(i, U)) = With(i, k, T \cup U)
<1>1. Texts(i, T) \cup Texts(i, U) = Texts(i, T \cup U)
  BY DEF Texts
<1>2. \A V : With(i, k, V) = [at |-> <<i, k>>, text |-> Texts(i, V)]
  BY DEF With, Texts
<1>3. [With(i, k, T) EXCEPT !.text = @ \cup Texts(i, U)]
        = [at |-> <<i, k>>, text |-> Texts(i, T) \cup Texts(i, U)]
  <2>1. ASSUME NEW w, NEW x, NEW y, NEW z, w = [at |-> x, text |-> y]
        PROVE  [w EXCEPT !.text = @ \cup z] = [at |-> x, text |-> y \cup z]
    BY <2>1
  <2>2. With(i, k, T) = [at |-> <<i, k>>, text |-> Texts(i, T)]
    BY <1>2
  <2> DEFINE w == With(i, k, T)
             z == Texts(i, U)
             y == Texts(i, T)
             x == <<i, k>>
  <2> HIDE DEF w, x, y, z
  <2>3. w = [at |-> x, text |-> y]
    BY <2>2 DEF w, x, y
  <2>4. [w EXCEPT !.text = @ \cup z] = [at |-> x, text |-> y \cup z]
    BY <2>1, <2>3
  <2>5. QED
    BY <2>4 DEF w, x, y, z
<1>4. QED
  BY <1>1, <1>2, <1>3 DEF More

\* A text goes to the innermost of at most three open elements.
LEMMA TextAdded ==
  /\ \A a, T : WithText(<<a>>, T) = <<More(a, T)>>
  /\ \A a, b, T : WithText(<<a, b>>, T) = <<a, More(b, T)>>
  /\ \A a, b, c, T : WithText(<<a, b, c>>, T) = <<a, b, More(c, T)>>
<1>1. ASSUME NEW a, NEW T
      PROVE  WithText(<<a>>, T) = <<More(a, T)>>
  <2>1. Len(<<a>>) = 1
    OBVIOUS
  <2>2. [<<a>> EXCEPT ![1].text = @ \cup T] = <<[a EXCEPT !.text = @ \cup T]>>
    OBVIOUS
  <2>3. QED
    BY <2>1, <2>2 DEF WithText, More
<1>2. ASSUME NEW a, NEW b, NEW T
      PROVE  WithText(<<a, b>>, T) = <<a, More(b, T)>>
  <2>1. Len(<<a, b>>) = 2
    OBVIOUS
  <2>2. [<<a, b>> EXCEPT ![2].text = @ \cup T] = <<a, [b EXCEPT !.text = @ \cup T]>>
    OBVIOUS
  <2>3. QED
    BY <2>1, <2>2 DEF WithText, More
<1>3. ASSUME NEW a, NEW b, NEW c, NEW T
      PROVE  WithText(<<a, b, c>>, T) = <<a, b, More(c, T)>>
  <2> DEFINE d == [c EXCEPT !.text = @ \cup T]
  <2>1. Len(<<a, b, c>>) = 3
    OBVIOUS
  <2>2. [<<a, b, c>> EXCEPT ![3].text = @ \cup T] = [<<a, b, c>> EXCEPT ![3] = d]
    OBVIOUS
  <2> HIDE DEF d
  <2>3. [<<a, b, c>> EXCEPT ![3] = d] = <<a, b, d>>
    OBVIOUS
  <2>4. QED
    BY <2>1, <2>2, <2>3 DEF WithText, More, d
<1>4. QED
  BY <1>1, <1>2, <1>3, Zenon

\* The innermost element is closed.
LEMMA Popped ==
  /\ \A a : /\ Front(<<a>>) = <<>> /\ Last(<<a>>) = a
            /\ <<a>> # <<>> /\ Len(<<a>>) = 1
  /\ \A a, b : /\ Front(<<a, b>>) = <<a>> /\ Last(<<a, b>>) = b
               /\ <<a, b>> # <<>> /\ Len(<<a, b>>) = 2
  /\ \A a, b, c : /\ Front(<<a, b, c>>) = <<a, b>> /\ Last(<<a, b, c>>) = c
                  /\ <<a, b, c>> # <<>> /\ Len(<<a, b, c>>) = 3
<1>1. ASSUME NEW a
      PROVE  Front(<<a>>) = <<>> /\ Last(<<a>>) = a /\ <<a>> # <<>> /\ Len(<<a>>) = 1
  <2>1. Len(<<a>>) = 1
    OBVIOUS
  <2>2. QED
    BY <2>1, SubSeqEmpty DEF Front, Last
<1>2. ASSUME NEW a, NEW b
      PROVE  /\ Front(<<a, b>>) = <<a>> /\ Last(<<a, b>>) = b
             /\ <<a, b>> # <<>> /\ Len(<<a, b>>) = 2
  <2> DEFINE q == SubSeq(<<a, b>>, 1, 1)
  <2>1. \A i \in 1..1 : <<a, b>>[i] \in {a, b}
    OBVIOUS
  <2>2. q \in Seq({a, b}) /\ Len(q) = 1 /\ \A i \in 1..1 : q[i] = <<a, b>>[i]
    BY <2>1, SubSeqProperties
  <2>3. <<a>> \in Seq({a, b}) /\ Len(<<a>>) = 1 /\ \A i \in 1..1 : <<a>>[i] = <<a, b>>[i]
    OBVIOUS
  <2> HIDE DEF q
  <2>4. q = <<a>>
    BY <2>2, <2>3, SeqEqual
  <2>5. Len(<<a, b>>) = 2
    OBVIOUS
  <2>6. QED
    BY <2>4, <2>5 DEF q, Front, Last
<1>3. ASSUME NEW a, NEW b, NEW c
      PROVE  /\ Front(<<a, b, c>>) = <<a, b>> /\ Last(<<a, b, c>>) = c
             /\ <<a, b, c>> # <<>> /\ Len(<<a, b, c>>) = 3
  <2> DEFINE q == SubSeq(<<a, b, c>>, 1, 2)
  <2>1. \A i \in 1..2 : <<a, b, c>>[i] \in {a, b, c}
    OBVIOUS
  <2>2. q \in Seq({a, b, c}) /\ Len(q) = 2 /\ \A i \in 1..2 : q[i] = <<a, b, c>>[i]
    BY <2>1, SubSeqProperties
  <2>3. /\ <<a, b>> \in Seq({a, b, c}) /\ Len(<<a, b>>) = 2
        /\ \A i \in 1..2 : <<a, b>>[i] = <<a, b, c>>[i]
    OBVIOUS
  <2> HIDE DEF q
  <2>4. q = <<a, b>>
    BY <2>2, <2>3, SeqEqual
  <2>5. Len(<<a, b, c>>) = 3
    OBVIOUS
  <2>6. QED
    BY <2>4, <2>5 DEF q, Front, Last
<1>4. QED
  BY <1>1, <1>2, <1>3, Zenon

-----------------------------------------------------------------------------
(* What a step leaves alone, and what was sent.                            *)

LEMMA SameDump ==
  ASSUME UNCHANGED input
  PROVE  /\ doc' = doc /\ bad' = bad /\ Records' = Records /\ Positions' = Positions
         /\ \A r : Within(r)' = Within(r) /\ Sound(r)' = Sound(r) /\ Value(r)' = Value(r)
         /\ \A p : EventAt(p)' = EventAt(p)
         /\ \A n : SoundBefore(n)' = SoundBefore(n)
         /\ \A i, k : DepthAt(i, k)' = DepthAt(i, k) /\ StackAt(i, k)' = StackAt(i, k)
         /\ DumpType' = DumpType /\ LabelsIntact' = LabelsIntact
<1>1. doc' = doc /\ bad' = bad
  BY DEF input
<1>2. Records' = Records /\ \A r : Within(r)' = Within(r)
  BY <1>1 DEF Records, Within
<1>3. Positions' = Positions /\ \A p : EventAt(p)' = EventAt(p)
  BY <1>1, <1>2 DEF Positions, EventAt
<1>4. \A r : Sound(r)' = Sound(r) /\ Value(r)' = Value(r)
  BY <1>1, <1>2, <1>3 DEF Sound, Value
<1>5. \A n : SoundBefore(n)' = SoundBefore(n)
  BY <1>2, <1>4 DEF SoundBefore
<1>6. \A i, k : DepthAt(i, k)' = DepthAt(i, k) /\ StackAt(i, k)' = StackAt(i, k)
  BY <1>1 DEF DepthAt, StackAt
<1>7. DumpType' = DumpType /\ LabelsIntact' = LabelsIntact
  BY <1>1, <1>2, <1>3 DEF DumpType, LabelsIntact
<1>8. QED
  BY <1>1, <1>2, <1>3, <1>4, <1>5, <1>6, <1>7

\* Nothing is sent of a broken record or of what is no record.
LEMMA SoundPast ==
  ASSUME DumpType, NEW i \in DOMAIN doc, i \in Records => ~ Sound(i)
  PROVE  SoundBefore(i + 1) = SoundBefore(i)
BY DEF DumpType, SoundBefore, Records

\* A sound record is sent after those before it.
LEMMA SentNext ==
  ASSUME DumpType, UNCHANGED input, NEW r \in Records, Sound(r), Sent(SoundBefore(r)),
         DOMAIN emitted = 1..Len(emitted), Len(emitted) \in Nat,
         emitted' = Append(emitted, Value(r))
  PROVE  /\ Sent(SoundBefore(r + 1))'
         /\ DOMAIN emitted' = 1..Len(emitted') /\ Len(emitted') \in Nat
<1> DEFINE n == Len(emitted)
<1>1. /\ Len(emitted') = n + 1 /\ DOMAIN emitted' = 1..(n + 1)
      /\ emitted'[n + 1] = Value(r)
      /\ \A i \in 1..n : emitted'[i] = emitted[i]
  OBVIOUS
<1>2. r \in Nat /\ SoundBefore(r + 1) = SoundBefore(r) \cup {r}
      /\ \A q \in SoundBefore(r) : q \in Nat /\ q < r
  BY DEF DumpType, SoundBefore, Records
<1>3. \A q : Value(q).at[1] = q
  BY DEF Value
<1>4. \A i \in 1..n : \E q \in SoundBefore(r) : emitted[i] = Value(q)
  BY DEF Sent
<1>5. \A i \in 1..n : emitted[i].at[1] \in Nat /\ emitted[i].at[1] < r
  BY <1>2, <1>3, <1>4
<1>6. \A i \in 1..(n + 1) : \E q \in SoundBefore(r + 1) : emitted'[i] = Value(q)
  BY <1>1, <1>2, <1>4
<1>7. \A q \in SoundBefore(r + 1) : \E i \in 1..(n + 1) : emitted'[i] = Value(q)
  <2>1. \A q \in SoundBefore(r) : \E i \in 1..n : emitted[i] = Value(q)
    BY DEF Sent
  <2>2. n + 1 \in 1..(n + 1) /\ \A i \in 1..n : i \in 1..(n + 1)
    OBVIOUS
  <2>3. QED
    BY <1>1, <1>2, <2>1, <2>2
<1>8. \A i, j \in 1..(n + 1) : i < j => emitted'[i].at[1] < emitted'[j].at[1]
  <2> TAKE i, j \in 1..(n + 1)
  <2> SUFFICES ASSUME i < j PROVE emitted'[i].at[1] < emitted'[j].at[1]
    OBVIOUS
  <2>1. CASE j \in 1..n
    BY <1>1, <2>1 DEF Sent
  <2>2. CASE j = n + 1
    BY <1>1, <1>3, <1>5, <2>2
  <2>3. QED
    BY <2>1, <2>2
<1>9. SoundBefore(r + 1)' = SoundBefore(r + 1) /\ \A q : Value(q)' = Value(q)
  BY SameDump
<1>10. \A i \in DOMAIN emitted' : \E q \in SoundBefore(r + 1)' : emitted'[i] = Value(q)'
  BY <1>1, <1>6, <1>9, Zenon
<1>11. \A q \in SoundBefore(r + 1)' : \E i \in DOMAIN emitted' : emitted'[i] = Value(q)'
  BY <1>1, <1>7, <1>9, Zenon
<1>12. Sent(SoundBefore(r + 1))'
  BY <1>1, <1>8, <1>10, <1>11, Zenon DEF Sent
<1>13. QED
  BY <1>1, <1>12

-----------------------------------------------------------------------------
(* The steps that read an event.                                           *)

LEMMA EventKinds ==
  /\ \A n : /\ Open(n).kind = "start" /\ Open(n).name = n
            /\ Close(n).kind = "end" /\ Close(n).name = n
            /\ Empty(n).kind = "empty" /\ Empty(n).name = n
  /\ Text.kind = "text"
BY DEF Open, Close, Empty, Text

At(k) == pos[2] = k
InPlain  == pos[1] \in Records /\ doc[pos[1]] = Plain /\ Len(doc[pos[1]]) = 6
InClosed == pos[1] \in Records /\ doc[pos[1]] = Closed /\ Len(doc[pos[1]]) = 1
InNested == pos[1] \in Records /\ doc[pos[1]] = Nested /\ Len(doc[pos[1]]) = 8
Outside(i) == pos[1] = i /\ Len(doc[pos[1]]) = 1 /\ pos[1] \notin Records

\* Which piece a position is in.
LEMMA PieceIs ==
  ASSUME DumpType, pos \in Positions
  PROVE  Outside(1) \/ Outside(Len(doc)) \/ InClosed \/ InPlain \/ InNested
<1>1. /\ pos[1] \in DOMAIN doc /\ Len(doc) \in Nat /\ Len(doc) >= 2
      /\ pos[1] = 1 \/ pos[1] = Len(doc) \/ pos[1] \in Records
  BY AfterIs, PieceAt DEF DumpType
<1>2. CASE pos[1] = 1
  <2>1. doc[pos[1]] = <<Open("container")>> /\ pos[1] \notin Records
    BY <1>1, <1>2 DEF DumpType, Records
  <2>2. Len(doc[pos[1]]) = 1
    BY <2>1
  <2>3. QED
    BY <1>2, <2>1, <2>2 DEF Outside
<1>3. CASE pos[1] = Len(doc)
  <2>1. doc[pos[1]] = <<Close("container")>> /\ pos[1] \notin Records
    BY <1>1, <1>3 DEF DumpType, Records
  <2>2. Len(doc[pos[1]]) = 1
    BY <2>1
  <2>3. QED
    BY <1>3, <2>1, <2>2 DEF Outside
<1>4. CASE pos[1] \in Records
  <2>1. doc[pos[1]] \in {Plain, Closed, Nested}
    BY <1>4 DEF DumpType
  <2>2. QED
    BY <1>4, <2>1, ShapeLengths DEF InClosed, InPlain, InNested
<1>5. QED
  BY <1>1, <1>2, <1>3, <1>4

\* The events outside the records, and the one of a record that closes itself.
LEMMA SingleEvents ==
  ASSUME DumpType, pos \in Positions
  PROVE  /\ Outside(1) => At(1) /\ Event = Open("container")
         /\ Outside(Len(doc)) => At(1) /\ Event = Close("container")
         /\ InClosed => At(1) /\ Event = Empty("target")
<1>1. pos[2] \in 1..Len(doc[pos[1]]) /\ Event = doc[pos[1]][pos[2]]
  BY AfterIs DEF Event, EventAt
<1>2. Outside(1) \/ Outside(Len(doc)) \/ InClosed => pos[2] = 1 /\ Event = doc[pos[1]][1]
  BY <1>1 DEF Outside, InClosed
<1>3. Closed[1] = Empty("target")
  BY ShapeEvents
<1>4. QED
  BY <1>2, <1>3 DEF DumpType, Outside, InClosed, At

LEMMA PlainEvents ==
  ASSUME DumpType, pos \in Positions, InPlain
  PROVE  /\ At(1) \/ At(2) \/ At(3) \/ At(4) \/ At(5) \/ At(6)
         /\ At(1) => Event = Open("target")
         /\ At(2) => Event = Open("child")
         /\ At(3) => Event = Text
         /\ At(4) => Event = Close("child")
         /\ At(5) => Event = Empty("child")
         /\ At(6) => Event = Close("target")
<1>1. pos[2] \in 1..6 /\ Event = Plain[pos[2]]
  BY AfterIs DEF Event, EventAt, InPlain
<1>2. At(1) \/ At(2) \/ At(3) \/ At(4) \/ At(5) \/ At(6)
  BY <1>1 DEF At
<1>3. At(1) => Event = Open("target")
  BY <1>1, ShapeEvents DEF At
<1>4. At(2) => Event = Open("child")
  BY <1>1, ShapeEvents DEF At
<1>5. At(3) => Event = Text
  BY <1>1, ShapeEvents DEF At
<1>6. At(4) => Event = Close("child")
  BY <1>1, ShapeEvents DEF At
<1>7. At(5) => Event = Empty("child")
  BY <1>1, ShapeEvents DEF At
<1>8. At(6) => Event = Close("target")
  BY <1>1, ShapeEvents DEF At
<1>9. QED
  BY <1>2, <1>3, <1>4, <1>5, <1>6, <1>7, <1>8

LEMMA NestedEvents ==
  ASSUME DumpType, pos \in Positions, InNested
  PROVE  /\ At(1) \/ At(2) \/ At(3) \/ At(4) \/ At(5) \/ At(6) \/ At(7) \/ At(8)
         /\ At(1) => Event = Open("target")
         /\ At(2) => Event = Text
         /\ At(3) => Event = Open("child")
         /\ At(4) => Event = Open("target")
         /\ At(5) => Event = Text
         /\ At(6) => Event = Close("target")
         /\ At(7) => Event = Close("child")
         /\ At(8) => Event = Close("target")
<1>1. pos[2] \in 1..8 /\ Event = Nested[pos[2]]
  BY AfterIs DEF Event, EventAt, InNested
<1>2. At(1) \/ At(2) \/ At(3) \/ At(4) \/ At(5) \/ At(6) \/ At(7) \/ At(8)
  BY <1>1 DEF At
<1>3. At(1) => Event = Open("target")
  BY <1>1, ShapeEvents DEF At
<1>4. At(2) => Event = Text
  BY <1>1, ShapeEvents DEF At
<1>5. At(3) => Event = Open("child")
  BY <1>1, ShapeEvents DEF At
<1>6. At(4) => Event = Open("target")
  BY <1>1, ShapeEvents DEF At
<1>7. At(5) => Event = Text
  BY <1>1, ShapeEvents DEF At
<1>8. At(6) => Event = Close("target")
  BY <1>1, ShapeEvents DEF At
<1>9. At(7) => Event = Close("child")
  BY <1>1, ShapeEvents DEF At
<1>10. At(8) => Event = Close("target")
  BY <1>1, ShapeEvents DEF At
<1>11. QED
  BY <1>2, <1>3, <1>4, <1>5, <1>6, <1>7, <1>8, <1>9, <1>10

\* An event that is not skipped is met by a parser that stands where its piece says:
\* what follows an error is skipped up to the start of a record.
LEMMA Entering ==
  ASSUME ParserInv, Reading, ~ Skipping
  PROVE  /\ stack = StackAt(pos[1], pos[2]) /\ inTarget = (pos[2] > 1)
         /\ DepthBefore = DepthAt(pos[1], pos[2])
         /\ Event.kind \in {"end", "text"} => depth = DepthAt(pos[1], pos[2])
         /\ \A j \in 1..pos[2] : <<pos[1], j>> \notin bad
         /\ result = "none" /\ pos \in Positions
<1>1. /\ DumpType /\ pos \in Positions /\ pos \notin bad /\ result = "none"
      /\ IF resyncing THEN Resyncing ELSE Standing
      /\ pos = <<pos[1], pos[2]>> /\ pos[2] \in Nat \ {0} /\ pos[1] \in Nat
  BY AfterIs DEF ParserInv, Reading
<1>2. CASE ~ resyncing
  <2>1. Standing
    BY <1>1, <1>2
  <2>2. \A j \in 1..pos[2] : j \in 1..(pos[2] - 1) \/ j = pos[2]
    BY <1>1
  <2>3. \A j \in 1..pos[2] : <<pos[1], j>> \notin bad
    BY <1>1, <2>1, <2>2 DEF Standing
  <2>4. QED
    BY <1>1, <1>2, <2>1, <2>3 DEF Standing, DepthBefore
<1>3. CASE resyncing
  <2>1. Resyncing /\ Event.kind \in {"start", "empty"} /\ Event.name = "target"
    BY <1>1, <1>3 DEF Skipping, IsTarget
  <2>2. pos[2] = 1 /\ pos[1] # 1
    <3>1. At(1) \/ (InNested /\ At(4))
      <4>1. ~ Outside(1) /\ ~ Outside(Len(doc))
        BY <1>1, <2>1, SingleEvents, EventKinds
      <4>0. DumpType /\ pos \in Positions
        BY <1>1
      <4>2. CASE InClosed
        BY <4>0, <4>2, SingleEvents, Zenon
      <4>3. CASE InPlain
        BY <4>0, <2>1, <4>3, PlainEvents, EventKinds
      <4>4. CASE InNested
        BY <4>0, <2>1, <4>4, NestedEvents, EventKinds
      <4>5. QED
        BY <1>1, <4>1, <4>2, <4>3, <4>4, PieceIs
    <3>2. ~ (InNested /\ At(4))
      BY <2>1 DEF Resyncing, InNested, At
    <3>3. QED
      BY <1>1, <2>1, <3>1, <3>2 DEF Resyncing, At
  <2>3. DepthBefore = DepthAt(pos[1], pos[2]) /\ StackAt(pos[1], pos[2]) = <<>>
    BY <1>3, <2>2 DEF DepthBefore, DepthAt, StackAt
  <2>4. \A j \in 1..pos[2] : <<pos[1], j>> \notin bad
    <3>1. \A j \in 1..pos[2] : j = pos[2]
      BY <2>2
    <3>2. QED
      BY <1>1, <3>1
  <2>5. stack = StackAt(pos[1], pos[2]) /\ inTarget = FALSE
    BY <2>1, <2>3 DEF Resyncing
  <2>6. inTarget = (pos[2] > 1)
    <3>1. (pos[2] > 1) = FALSE
      BY <2>2
    <3>2. QED
      BY <2>5, <3>1, Zenon
  <2>7. Event.kind \notin {"end", "text"}
    BY <2>1
  <2>8. QED
    BY <1>1, <2>3, <2>4, <2>5, <2>6, <2>7
<1>4. QED
  BY <1>2, <1>3

\* A step inside a piece.
LEMMA Continues ==
  ASSUME ParserInv, Reading, ~ Skipping, Advance, NEW i, NEW k, pos = <<i, k>>, k < Len(doc[i]),
         emitted' = emitted, result' = result, inTarget' = TRUE,
         depth' = DepthAt(i, k + 1), stack' = StackAt(i, k + 1)
  PROVE  ParserInv'
<1>1. DumpType /\ pos \in Positions /\ result = "none" /\ UNCHANGED <<input, malformed>>
  BY Entering DEF ParserInv, Advance
<1>2. i \in DOMAIN doc /\ i \in Nat /\ k \in Nat \ {0} /\ pos' = <<i, k + 1>> /\ pos' \in Positions
  <2>1. pos' = After(pos) /\ pos[1] = i /\ pos[2] = k
    BY DEF Advance
  <2>2. /\ i \in DOMAIN doc /\ i \in Nat /\ k \in 1..Len(doc[i]) /\ k \in Nat
        /\ pos' = <<i, k + 1>> /\ Len(doc[i]) \in Nat
    BY <1>1, <2>1, AfterIs, PieceAt
  <2>3. k + 1 \in 1..Len(doc[i]) /\ k # 0
    BY <2>2
  <2>4. QED
    BY <1>1, <2>2, <2>3, PositionsAre
<1>3. pos[1] = i /\ pos[2] = k /\ pos'[1] = i /\ pos'[2] = k + 1
  BY <1>2
<1>4. /\ DumpType' /\ Positions' = Positions /\ bad' = bad /\ Len(doc)' = Len(doc)
      /\ \A n : Sent(SoundBefore(n))' = Sent(SoundBefore(n))
  <2>1. (\A n : SoundBefore(n)' = SoundBefore(n)) /\ \A r : Value(r)' = Value(r)
    BY <1>1, SameDump
  <2>2. \A n : Sent(SoundBefore(n))' = Sent(SoundBefore(n))
    BY <2>1 DEF Sent
  <2>3. QED
    BY <1>1, <2>2, SameDump
<1>5. Standing'
  <2>1. depth' = DepthAt(pos[1], pos[2])' /\ stack' = StackAt(pos[1], pos[2])'
    <3>1. DepthAt(i, k + 1)' = DepthAt(i, k + 1) /\ StackAt(i, k + 1)' = StackAt(i, k + 1)
      BY <1>1, SameDump
    <3>2. QED
      BY <1>3, <3>1
  <2>2. inTarget' = (pos[2] > 1)'
    <3>1. (pos'[2] > 1) = TRUE
      BY <1>2, <1>3
    <3>2. QED
      BY <3>1, Zenon
  <2>3. \A j \in 1..(pos'[2] - 1) : <<pos'[1], j>> \notin bad'
    <3>1. \A j \in 1..k : <<i, j>> \notin bad
      BY <1>3, Entering
    <3>2. pos'[2] - 1 = k
      BY <1>2, <1>3
    <3>3. QED
      BY <1>3, <1>4, <3>1, <3>2
  <2>4. QED
    BY <2>1, <2>2, <2>3 DEF Standing
<1>6. resyncing' = FALSE
  BY DEF Advance
<1>7. OnlyMalformedDropped'
  <2>1. \E n \in 1..Len(doc) : Sent(SoundBefore(n))
    BY DEF ParserInv, OnlyMalformedDropped
  <2>2. QED
    BY <1>1, <1>4, <2>1 DEF OnlyMalformedDropped
<1>8. Sent(SoundBefore(pos[1]))'
  <2>1. Sent(SoundBefore(i))
    BY <1>1, <1>3 DEF ParserInv
  <2>2. Sent(SoundBefore(i))'
    BY <1>4, <2>1
  <2>3. QED
    BY <1>3, <2>2
<1>9. QED
  BY <1>1, <1>2, <1>4, <1>5, <1>6, <1>7, <1>8 DEF ParserInv, AtEnd

\* A step past the end of a piece, which sends the record that ends there.
LEMMA Finishes ==
  ASSUME ParserInv, Reading, ~ Skipping, Advance, NEW i, NEW k, pos = <<i, k>>, k = Len(doc[i]),
         inTarget' = FALSE, stack' = <<>>, i # Len(doc) => depth' = 1,
         \/ i \notin Records /\ emitted' = emitted /\ result' = result
         \/ i \in Records /\ emitted' = Append(emitted, Value(i)) /\ result' = result
         \/ i \in Records /\ emitted' = emitted /\ result' = "dropped"
  PROVE  ParserInv'
<1>1. DumpType /\ pos \in Positions /\ result = "none" /\ UNCHANGED <<input, malformed>>
  BY Entering DEF ParserInv, Advance
<1>2. /\ i \in DOMAIN doc /\ i \in Nat \ {0} /\ Len(doc) \in Nat
      /\ pos[1] = i /\ pos[2] = k /\ pos' = <<i + 1, 1>>
      /\ pos' \in Positions \/ pos' = <<Len(doc) + 1, 1>>
  <2>1. pos' = After(pos) /\ pos[1] = i /\ pos[2] = k
    BY DEF Advance
  <2>2. i \in DOMAIN doc /\ i \in Nat \ {0} /\ Len(doc) \in Nat /\ Len(doc[i]) \in Nat
    BY <1>1, <2>1, AfterIs, PieceAt DEF DumpType
  <2>3. ~ (k < Len(doc[i]))
    BY <2>2
  <2>4. QED
    BY <1>1, <2>1, <2>2, <2>3, AfterIs
<1>3. pos'[1] = i + 1 /\ pos'[2] = 1
  BY <1>2
<1>4. /\ DumpType' /\ Positions' = Positions /\ bad' = bad /\ Len(doc)' = Len(doc)
      /\ (\A n : SoundBefore(n)' = SoundBefore(n)) /\ \A r : Value(r)' = Value(r)
      /\ \A j, m : DepthAt(j, m)' = DepthAt(j, m) /\ StackAt(j, m)' = StackAt(j, m)
  BY <1>1, SameDump
<1>5. emitted' = emitted => \A n : Sent(SoundBefore(n))' = Sent(SoundBefore(n))
  BY <1>4 DEF Sent
<1>6. Sent(SoundBefore(i))
  BY <1>1, <1>2 DEF ParserInv
<1>7. /\ result' = "none" => Sent(SoundBefore(i + 1))'
      /\ result' = "dropped" => Sent(SoundBefore(i))'
      /\ DOMAIN emitted' = 1..Len(emitted') /\ Len(emitted') \in Nat
      /\ result' \in {"none", "dropped"} /\ (result' = "dropped" => i \in Records)
  <2>1. CASE i \notin Records /\ emitted' = emitted /\ result' = result
    <3>1. SoundBefore(i + 1) = SoundBefore(i)
      BY <1>1, <1>2, <2>1, SoundPast
    <3>2. Sent(SoundBefore(i + 1))'
      BY <1>5, <1>6, <2>1, <3>1
    <3>3. QED
      BY <1>1, <2>1, <3>2 DEF ParserInv
  <2>2. CASE i \in Records /\ emitted' = Append(emitted, Value(i)) /\ result' = result
    <3>1. Sound(i)
      <4>1. \A j \in 1..Len(doc[i]) : <<i, j>> \notin bad
        BY <1>2, Entering
      <4>2. DOMAIN doc[i] = 1..Len(doc[i])
        BY <1>1, <1>2, PieceAt
      <4>3. QED
        BY <4>1, <4>2 DEF Sound, Within
    <3>2. /\ Sent(SoundBefore(i + 1))'
          /\ DOMAIN emitted' = 1..Len(emitted') /\ Len(emitted') \in Nat
      <4>1. DOMAIN emitted = 1..Len(emitted) /\ Len(emitted) \in Nat
        BY DEF ParserInv
      <4>2. QED
        BY <1>1, <1>6, <2>2, <3>1, <4>1, SentNext
    <3>3. QED
      BY <1>1, <2>2, <3>2
  <2>3. CASE i \in Records /\ emitted' = emitted /\ result' = "dropped"
    <3>1. Sent(SoundBefore(i))'
      BY <1>5, <1>6, <2>3
    <3>2. QED
      BY <2>3, <3>1 DEF ParserInv
  <2>4. QED
    BY <2>1, <2>2, <2>3
<1>8. OnlyMalformedDropped'
  <2>1. CASE result' = "none"
    <3>1. i < Len(doc) => Sent(SoundBefore(i + 1))' /\ i + 1 \in 1..Len(doc)
      <4>1. i < Len(doc) => i + 1 \in 1..Len(doc)
        BY <1>2
      <4>2. QED
        BY <1>7, <2>1, <4>1
    <3>2. i >= Len(doc) => i = Len(doc) /\ i \in 1..Len(doc)
      BY <1>1, <1>2 DEF DumpType
    <3>3. i = Len(doc) => SoundBefore(i + 1) = SoundBefore(i) /\ i \notin Records
      BY <1>1, <1>2, SoundPast DEF Records, DumpType
    <3>4. i = Len(doc) => Sent(SoundBefore(i))'
      BY <1>4, <1>7, <2>1, <3>3
    <3>5. i < Len(doc) \/ i >= Len(doc)
      BY <1>2
    <3>6. \E n \in 1..Len(doc) : Sent(SoundBefore(n))'
      BY <3>1, <3>2, <3>4, <3>5
    <3>7. QED
      BY <1>4, <2>1, <3>6 DEF OnlyMalformedDropped
  <2>2. CASE result' = "dropped"
    <3>1. i \in 1..Len(doc) /\ Sent(SoundBefore(i))'
      BY <1>1, <1>2, <1>7, <2>2 DEF DumpType
    <3>2. QED
      BY <1>4, <2>2, <3>1 DEF OnlyMalformedDropped
  <2>3. QED
    BY <1>7, <2>1, <2>2
<1>9. pos' \in Positions => Standing'
  <2> SUFFICES ASSUME pos' \in Positions PROVE Standing'
    OBVIOUS
  <2>1. i # Len(doc) /\ i + 1 # 1
    <3>1. i + 1 \in DOMAIN doc
      BY <1>1, <1>2, PositionsAre
    <3>2. QED
      BY <1>1, <1>2, <3>1 DEF DumpType
  <2>2. depth' = DepthAt(i + 1, 1) /\ stack' = StackAt(i + 1, 1)
    BY <2>1 DEF DepthAt, StackAt
  <2>3. depth' = DepthAt(pos[1], pos[2])' /\ stack' = StackAt(pos[1], pos[2])'
    <3>1. DepthAt(i + 1, 1)' = DepthAt(i + 1, 1) /\ StackAt(i + 1, 1)' = StackAt(i + 1, 1)
      BY <1>4
    <3>2. QED
      BY <1>3, <2>2, <3>1
  <2>4. inTarget' = (pos[2] > 1)'
    <3>1. (pos'[2] > 1) = FALSE
      BY <1>3
    <3>2. QED
      BY <3>1, Zenon
  <2>5. 1..(pos'[2] - 1) = {}
    BY <1>3
  <2>6. QED
    BY <2>3, <2>4, <2>5 DEF Standing
<1>10. resyncing' = FALSE /\ malformed' = malformed
  BY DEF Advance
<1>11. result' = "none" => Sent(SoundBefore(pos[1]))'
  BY <1>3, <1>7
<1>12. pos' \in Positions' \/ AtEnd'
  BY <1>2, <1>4 DEF AtEnd
<1>13. malformed' \in Nat /\ (result' # "err" => malformed' <= Tolerated)
  BY <1>1, <1>10 DEF ParserInv
<1>14. QED
  BY <1>4, <1>7, <1>8, <1>9, <1>10, <1>11, <1>12, <1>13 DEF ParserInv

\* A step after an error: nothing is kept, and the piece it happened in is broken.
LEMMA Skips ==
  ASSUME ParserInv, UNCHANGED input, NEW i, NEW k, pos = <<i, k>>, pos \in Positions,
         result = "none", result' = "none", emitted' = emitted, resyncing' = TRUE,
         stack' = <<>>, inTarget' = FALSE, malformed' \in Nat, malformed' <= Tolerated,
         pos' = pos \/ pos' = After(pos), i # 1,
         i \in Records => \E j \in 1..k : <<i, j>> \in bad,
         doc[i] = Nested => k >= 5
  PROVE  ParserInv'
<1>1. /\ DumpType /\ i \in DOMAIN doc /\ i \in Nat \ {0} /\ Len(doc) \in Nat /\ k \in Nat
      /\ pos[1] = i /\ pos[2] = k /\ k \in 1..Len(doc[i]) /\ Len(doc[i]) \in Nat
  BY AfterIs, PieceAt DEF ParserInv, DumpType
<1>2. /\ DumpType' /\ Positions' = Positions /\ bad' = bad /\ doc' = doc
      /\ (\A n : SoundBefore(n)' = SoundBefore(n)) /\ \A r : Value(r)' = Value(r)
  BY <1>1, SameDump
<1>3. \A n : Sent(SoundBefore(n))' = Sent(SoundBefore(n))
  BY <1>2 DEF Sent
<1>4. Sent(SoundBefore(i)) /\ Sent(SoundBefore(i + 1))
  <2>1. Sent(SoundBefore(i))
    BY <1>1 DEF ParserInv
  <2>2. i \in Records => ~ Sound(i)
    <3> SUFFICES ASSUME i \in Records PROVE ~ Sound(i)
      OBVIOUS
    <3>1. PICK j \in 1..k : <<i, j>> \in bad
      OBVIOUS
    <3>2. j \in DOMAIN doc[i]
      BY <1>1, <3>1, PieceAt
    <3>3. QED
      BY <3>1, <3>2 DEF Sound, Within
  <2>3. QED
    BY <1>1, <2>1, <2>2, SoundPast
<1>5. OnlyMalformedDropped'
  <2>1. \E n \in 1..Len(doc) : Sent(SoundBefore(n))
    BY DEF ParserInv, OnlyMalformedDropped
  <2>2. QED
    BY <1>2, <1>3, <2>1 DEF OnlyMalformedDropped
<1>6. CASE pos' = <<i, k>> \/ (pos' = <<i, k + 1>> /\ k < Len(doc[i]))
  <2>1. pos'[1] = i /\ pos'[2] \in {k, k + 1} /\ pos' \in Positions
    BY <1>1, <1>6, PositionsAre
  <2>2. i \in Records => \E j \in 1..pos'[2] : <<i, j>> \in bad
    <3>1. \A j \in 1..k : j \in 1..pos'[2]
      BY <1>1, <2>1
    <3>2. QED
      BY <3>1
  <2>3. i \notin Records => k = 1 /\ Len(doc[i]) = 1
    <3> SUFFICES ASSUME i \notin Records PROVE k = 1 /\ Len(doc[i]) = 1
      OBVIOUS
    <3>1. doc[i] = <<Close("container")>>
      BY <1>1 DEF DumpType, Records
    <3>2. Len(doc[i]) = 1
      BY <3>1
    <3>3. QED
      BY <1>1, <3>2
  <2>4. pos'[2] > 1 => \E j \in 1..pos'[2] : <<i, j>> \in bad
    <3>1. CASE i \in Records
      BY <2>2, <3>1
    <3>2. CASE i \notin Records
      <4>0. ~ (k < Len(doc[i]))
        <5>1. k = 1 /\ Len(doc[i]) = 1
          BY <2>3, <3>2, Zenon
        <5>2. QED
          BY <5>1
      <4>1. pos' = <<i, k>>
        BY <1>6, <4>0, Zenon
      <4>2. pos'[2] = 1
        BY <2>3, <3>2, <4>1
      <4>3. QED
        BY <4>2
    <3>3. QED
      BY <3>1, <3>2
  <2>5. Resyncing'
    BY <1>1, <1>2, <2>1, <2>4 DEF Resyncing
  <2>6. Sent(SoundBefore(pos[1]))'
    BY <1>3, <1>4, <2>1
  <2>7. QED
    BY <1>2, <1>5, <2>1, <2>5, <2>6 DEF ParserInv
<1>7. CASE pos' = <<i + 1, 1>>
  <2>1. pos'[1] = i + 1 /\ pos'[2] = 1
    BY <1>7
  <2>2. pos' \in Positions \/ pos' = <<Len(doc) + 1, 1>>
    <3>1. i = Len(doc) \/ i + 1 \in DOMAIN doc
      BY <1>1 DEF DumpType
    <3>2. i + 1 \in DOMAIN doc => 1 \in 1..Len(doc[i + 1])
      BY <1>1, PieceAt
    <3>3. QED
      BY <1>1, <1>7, <3>1, <3>2, PositionsAre
  <2>3. Resyncing'
    BY <1>1, <2>1 DEF Resyncing
  <2>4. Sent(SoundBefore(pos[1]))'
    BY <1>3, <1>4, <2>1
  <2>5. QED
    BY <1>2, <1>5, <2>2, <2>3, <2>4 DEF ParserInv, AtEnd
<1>8. QED
  <2>1. (After(pos) = <<i, k + 1>> /\ k < Len(doc[i])) \/ After(pos) = <<i + 1, 1>>
    BY <1>1 DEF After
  <2>2. QED
    BY <1>6, <1>7, <2>1

-----------------------------------------------------------------------------
(* The actions.                                                            *)

\* The stacks and depths of the two longer shapes, one by one.
LEMMA PlainTable ==
  ASSUME NEW i, i # 1, doc[i] = Plain
  PROVE  /\ DepthAt(i, 1) = 1 /\ DepthAt(i, 2) = 2 /\ DepthAt(i, 3) = 3 /\ DepthAt(i, 4) = 3
         /\ DepthAt(i, 5) = 2 /\ DepthAt(i, 6) = 2
         /\ StackAt(i, 1) = <<>> /\ StackAt(i, 2) = <<With(i, 1, {})>>
         /\ StackAt(i, 3) = <<With(i, 1, {}), With(i, 2, {})>>
         /\ StackAt(i, 4) = <<With(i, 1, {}), With(i, 2, {3})>>
         /\ StackAt(i, 5) = <<With(i, 1, {3})>> /\ StackAt(i, 6) = <<With(i, 1, {3})>>
BY DEF DepthAt, StackAt

LEMMA NestedTable ==
  ASSUME NEW i, i # 1, doc[i] = Nested
  PROVE  /\ DepthAt(i, 1) = 1 /\ DepthAt(i, 2) = 2 /\ DepthAt(i, 3) = 2 /\ DepthAt(i, 4) = 3
         /\ DepthAt(i, 5) = 4 /\ DepthAt(i, 6) = 4 /\ DepthAt(i, 7) = 3 /\ DepthAt(i, 8) = 2
         /\ StackAt(i, 1) = <<>> /\ StackAt(i, 2) = <<With(i, 1, {})>>
         /\ StackAt(i, 3) = <<With(i, 1, {2})>>
         /\ StackAt(i, 4) = <<With(i, 1, {2}), With(i, 3, {})>>
         /\ StackAt(i, 5) = <<With(i, 1, {2}), With(i, 3, {}), With(i, 4, {})>>
         /\ StackAt(i, 6) = <<With(i, 1, {2}), With(i, 3, {}), With(i, 4, {5})>>
         /\ StackAt(i, 7) = <<With(i, 1, {2}), With(i, 3, {5})>>
         /\ StackAt(i, 8) = <<With(i, 1, {2, 5})>>
<1>1. Nested # Plain
  BY ShapeLengths
<1>2. QED
  BY <1>1 DEF DepthAt, StackAt

LEMMA EmptyContext == \A i, k : With(i, k, {}) = [at |-> <<i, k>>, text |-> {}]
BY DEF With

\* The values of the records of the three shapes.
LEMMA ValueIs ==
  ASSUME NEW i
  PROVE  /\ doc[i] = Plain => Value(i) = With(i, 1, {3})
         /\ doc[i] = Closed => Value(i) = With(i, 1, {})
         /\ doc[i] = Nested => Value(i) = With(i, 1, {2, 5})
<1> DEFINE texts == {p \in Within(i) : EventAt(p).kind = "text"}
<1>1. \A p : p \in texts <=> \E k \in DOMAIN doc[i] : p = <<i, k>> /\ doc[i][k].kind = "text"
  BY DEF Within, EventAt
<1>2. doc[i] = Plain => texts = Texts(i, {3})
  <2> SUFFICES ASSUME doc[i] = Plain PROVE texts = Texts(i, {3})
    OBVIOUS
  <2>1. \A k \in DOMAIN doc[i] : doc[i][k].kind = "text" <=> k = 3
    <3>1. DOMAIN doc[i] = 1..6
      BY ShapeLengths
    <3>2. /\ Plain[1].kind = "start" /\ Plain[2].kind = "start" /\ Plain[3].kind = "text"
          /\ Plain[4].kind = "end" /\ Plain[5].kind = "empty" /\ Plain[6].kind = "end"
      BY ShapeEvents, EventKinds
    <3>3. \A k \in 1..6 : k = 1 \/ k = 2 \/ k = 3 \/ k = 4 \/ k = 5 \/ k = 6
      OBVIOUS
    <3>4. QED
      BY <3>1, <3>2, <3>3
  <2>2. 3 \in DOMAIN doc[i]
    BY ShapeLengths
  <2>3. \A p : p \in texts <=> p = <<i, 3>>
    BY <1>1, <2>1, <2>2
  <2>4. QED
    BY <2>3 DEF Texts
<1>3. doc[i] = Closed => texts = Texts(i, {})
  <2>1. DOMAIN Closed = 1..1 /\ Closed[1].kind = "empty"
    BY ShapeLengths, ShapeEvents, EventKinds
  <2>2. QED
    BY <1>1, <2>1 DEF Texts
<1>4. doc[i] = Nested => texts = Texts(i, {2, 5})
  <2> SUFFICES ASSUME doc[i] = Nested PROVE texts = Texts(i, {2, 5})
    OBVIOUS
  <2>1. \A k \in DOMAIN doc[i] : doc[i][k].kind = "text" <=> k \in {2, 5}
    <3>1. DOMAIN doc[i] = 1..8
      BY ShapeLengths
    <3>2. /\ Nested[1].kind = "start" /\ Nested[2].kind = "text" /\ Nested[3].kind = "start"
          /\ Nested[4].kind = "start" /\ Nested[5].kind = "text" /\ Nested[6].kind = "end"
          /\ Nested[7].kind = "end" /\ Nested[8].kind = "end"
      BY ShapeEvents, EventKinds
    <3>3. \A k \in 1..8 : k = 1 \/ k = 2 \/ k = 3 \/ k = 4 \/ k = 5 \/ k = 6 \/ k = 7 \/ k = 8
      OBVIOUS
    <3>4. QED
      BY <3>1, <3>2, <3>3
  <2>2. 2 \in DOMAIN doc[i] /\ 5 \in DOMAIN doc[i]
    BY ShapeLengths
  <2>3. \A p : p \in texts <=> p = <<i, 2>> \/ p = <<i, 5>>
    BY <1>1, <2>1, <2>2
  <2>4. QED
    BY <2>3 DEF Texts
<1>5. \A T : With(i, 1, T) = [at |-> <<i, 1>>, text |-> Texts(i, T)]
  BY DEF With, Texts
<1>6. Value(i) = [at |-> <<i, 1>>, text |-> texts]
  BY DEF Value
<1> HIDE DEF texts
<1>7. QED
  BY <1>2, <1>3, <1>4, <1>5, <1>6

\* Where a step that is not skipped starts from.
LEMMA Enters ==
  ASSUME ParserInv, Reading, ~ Skipping
  PROVE  \E i, k : /\ pos = <<i, k>> /\ pos[1] = i /\ pos[2] = k /\ i \in Nat \ {0} /\ k \in Nat \ {0}
                   /\ stack = StackAt(i, k) /\ inTarget = (k > 1) /\ DepthBefore = DepthAt(i, k)
                   /\ Event.kind \in {"end", "text"} => depth = DepthAt(i, k)
                   /\ Outside(1) \/ Outside(Len(doc)) \/ InClosed \/ InPlain \/ InNested
<1>1. DumpType /\ pos \in Positions
  BY DEF ParserInv, Reading
<1>2. pos = <<pos[1], pos[2]>> /\ pos[1] \in Nat \ {0} /\ pos[2] \in Nat \ {0}
  BY <1>1, AfterIs DEF DumpType
<1>3. QED
  BY <1>1, <1>2, Entering, PieceIs

\* The innermost element is opened.
LEMMA Pushed ==
  ASSUME NEW a, NEW b, NEW c
  PROVE  /\ Append(<<>>, a) = <<a>> /\ Append(<<a>>, b) = <<a, b>>
         /\ Append(<<a, b>>, c) = <<a, b, c>>
<1>1. Append(<<>>, a) = <<a>>
  OBVIOUS
<1>2. Append(<<a>>, b) = <<a, b>>
  <2> DEFINE q == Append(<<a>>, b)
             t == <<a, b>>
  <2>1. <<a>> \in Seq({a, b}) /\ Len(<<a>>) = 1
    OBVIOUS
  <2>2. q \in Seq({a, b}) /\ Len(q) = 2 /\ q[1] = a /\ q[2] = b
    BY <2>1
  <2>3. t \in Seq({a, b}) /\ Len(t) = 2 /\ t[1] = a /\ t[2] = b
    OBVIOUS
  <2> HIDE DEF q, t
  <2>4. \A j \in 1..2 : q[j] = t[j]
    BY <2>2, <2>3
  <2>5. q = t
    BY <2>2, <2>3, <2>4, SeqEqual
  <2>6. QED
    BY <2>5 DEF q, t
<1>3. Append(<<a, b>>, c) = <<a, b, c>>
  <2> DEFINE q == Append(<<a, b>>, c)
             t == <<a, b, c>>
  <2>1. <<a, b>> \in Seq({a, b, c}) /\ Len(<<a, b>>) = 2
    OBVIOUS
  <2>2. q \in Seq({a, b, c}) /\ Len(q) = 3 /\ q[1] = a /\ q[2] = b /\ q[3] = c
    BY <2>1
  <2>3. t \in Seq({a, b, c}) /\ Len(t) = 3 /\ t[1] = a /\ t[2] = b /\ t[3] = c
    OBVIOUS
  <2> HIDE DEF q, t
  <2>4. \A j \in 1..3 : q[j] = t[j]
    BY <2>2, <2>3
  <2>5. q = t
    BY <2>2, <2>3, <2>4, SeqEqual
  <2>6. QED
    BY <2>5 DEF q, t
<1>4. QED
  BY <1>1, <1>2, <1>3

\* A start tag at depth 2 of the record's name begins a record; another one an element of it.
LEMMA Opens ==
  ASSUME StartTag, NEW i, NEW k, pos = <<i, k>>
  PROVE  /\ Event.name = "target" /\ DepthBefore = 1 =>
              depth' = 2 /\ inTarget' = TRUE /\ stack' = <<With(i, k, {})>>
         /\ inTarget = TRUE /\ DepthBefore \in {2, 3} =>
              depth' = DepthBefore + 1 /\ inTarget' = TRUE /\ stack' = Append(stack, With(i, k, {}))
         /\ Event.name # "target" /\ inTarget = FALSE =>
              depth' = DepthBefore + 1 /\ inTarget' = FALSE /\ stack' = stack
<1> DEFINE record == Event.name = "target" /\ depth' = 2
           opened == Append(IF record THEN <<>> ELSE stack, Context(pos))
<1>1. /\ inTarget' = (record \/ inTarget) /\ depth' = DepthBefore + 1
      /\ stack' = IF inTarget' THEN opened ELSE IF record THEN <<>> ELSE stack
  BY DEF StartTag
<1>2. Context(pos) = With(i, k, {})
  BY EmptyContext DEF Context
<1>3. ASSUME Event.name = "target", DepthBefore = 1
      PROVE  depth' = 2 /\ inTarget' = TRUE /\ stack' = <<With(i, k, {})>>
  <2>1. depth' = 2
    BY <1>1, <1>3
  <2>2. record = TRUE
    BY <1>3, <2>1
  <2>3. opened = Append(<<>>, With(i, k, {}))
    BY <1>2, <2>2
  <2>4. Append(<<>>, With(i, k, {})) = <<With(i, k, {})>>
    BY Pushed
  <2> HIDE DEF record, opened
  <2>5. QED
    BY <1>1, <2>1, <2>2, <2>3, <2>4
<1>4. ASSUME inTarget = TRUE, DepthBefore \in {2, 3}
      PROVE  depth' = DepthBefore + 1 /\ inTarget' = TRUE /\ stack' = Append(stack, With(i, k, {}))
  <2>1. depth' # 2
    BY <1>1, <1>4
  <2>2. record = FALSE
    BY <2>1
  <2>3. opened = Append(stack, With(i, k, {}))
    BY <1>2, <2>2
  <2> HIDE DEF record, opened
  <2>4. QED
    BY <1>1, <1>4, <2>2, <2>3
<1>5. ASSUME Event.name # "target", inTarget = FALSE
      PROVE  depth' = DepthBefore + 1 /\ inTarget' = FALSE /\ stack' = stack
  <2>1. record = FALSE
    BY <1>5
  <2> HIDE DEF record, opened
  <2>2. QED
    BY <1>1, <1>5, <2>1
<1>6. QED
  BY <1>3, <1>4, <1>5

\* Whether an event is inside its piece.
LEMMA Inside == (1 > 1) = FALSE /\ (2 > 1) = TRUE /\ (3 > 1) = TRUE /\ (4 > 1) = TRUE
                  /\ (5 > 1) = TRUE /\ (6 > 1) = TRUE /\ (7 > 1) = TRUE /\ (8 > 1) = TRUE
OBVIOUS

LEMMA StartInv ==
  ASSUME ParserInv, StartTag
  PROVE  ParserInv'
<1>1. /\ Reading /\ ~ Skipping /\ Advance /\ Event.kind = "start"
      /\ emitted' = emitted /\ result' = result
      /\ DumpType /\ pos \in Positions
  BY DEF StartTag, ParserInv, Reading
<1>2. PICK i, k : /\ pos = <<i, k>> /\ pos[1] = i /\ pos[2] = k /\ i \in Nat \ {0} /\ k \in Nat \ {0}
                  /\ stack = StackAt(i, k) /\ inTarget = (k > 1) /\ DepthBefore = DepthAt(i, k)
                  /\ Event.kind \in {"end", "text"} => depth = DepthAt(i, k)
                  /\ Outside(1) \/ Outside(Len(doc)) \/ InClosed \/ InPlain \/ InNested
  BY <1>1, Enters
<1>3. /\ Event.name = "target" /\ DepthBefore = 1 =>
           depth' = 2 /\ inTarget' = TRUE /\ stack' = <<With(i, k, {})>>
      /\ inTarget = TRUE /\ DepthBefore \in {2, 3} =>
           depth' = DepthBefore + 1 /\ inTarget' = TRUE /\ stack' = Append(stack, With(i, k, {}))
      /\ Event.name # "target" /\ inTarget = FALSE =>
           depth' = DepthBefore + 1 /\ inTarget' = FALSE /\ stack' = stack
  BY <1>2, Opens
<1>5. ~ Outside(Len(doc)) /\ ~ InClosed
  BY <1>1, SingleEvents, EventKinds
<1>6. CASE Outside(1)
  <2>1. /\ i = 1 /\ k = 1 /\ Len(doc[i]) = 1 /\ Event.name # "target" /\ i \notin Records
    BY <1>1, <1>2, <1>6, SingleEvents, EventKinds DEF Outside, At
  <2>2. inTarget = FALSE
    BY <1>2, <2>1, Inside, Zenon
  <2>3. DepthBefore = 0 /\ stack = <<>>
    BY <1>2, <2>1 DEF DepthAt, StackAt
  <2>4. depth' = 1 /\ inTarget' = FALSE /\ stack' = <<>>
    BY <1>3, <2>1, <2>2, <2>3
  <2>5. QED
    BY <1>1, <1>2, <2>1, <2>4, Finishes
<1>7. CASE InPlain
  <2>1. i # 1 /\ doc[i] = Plain /\ Len(doc[i]) = 6
    BY <1>2, <1>7 DEF InPlain, Records
  <2>2. (k = 1 /\ Event.name = "target") \/ k = 2
    BY <1>1, <1>2, <1>7, PlainEvents, EventKinds DEF At
  <2>3. CASE k = 1 /\ Event.name = "target"
    <3>1. depth' = 2 /\ inTarget' = TRUE /\ stack' = <<With(i, 1, {})>>
      BY <1>2, <1>3, <2>1, <2>3, PlainTable
    <3>2. depth' = DepthAt(i, k + 1) /\ stack' = StackAt(i, k + 1) /\ k < Len(doc[i])
      BY <2>1, <2>3, <3>1, PlainTable
    <3>3. QED
      BY <1>1, <1>2, <3>1, <3>2, Continues
  <2>4. CASE k = 2
    <3>1. inTarget = TRUE
      BY <1>2, <2>4, Inside, Zenon
    <3>2. DepthBefore = 2 /\ stack = <<With(i, 1, {})>>
      BY <1>2, <2>1, <2>4, PlainTable
    <3>3. depth' = 3 /\ inTarget' = TRUE /\ stack' = Append(stack, With(i, 2, {}))
      BY <1>3, <2>4, <3>1, <3>2
    <3>4. stack' = <<With(i, 1, {}), With(i, 2, {})>>
      BY <3>2, <3>3, Pushed
    <3>5. depth' = DepthAt(i, k + 1) /\ stack' = StackAt(i, k + 1) /\ k < Len(doc[i])
      BY <2>1, <2>4, <3>3, <3>4, PlainTable
    <3>6. QED
      BY <1>1, <1>2, <3>3, <3>5, Continues
  <2>5. QED
    BY <2>2, <2>3, <2>4
<1>8. CASE InNested
  <2>1. i # 1 /\ doc[i] = Nested /\ Len(doc[i]) = 8
    BY <1>2, <1>8 DEF InNested, Records
  <2>2. (k = 1 /\ Event.name = "target") \/ k = 3 \/ k = 4
    BY <1>1, <1>2, <1>8, NestedEvents, EventKinds DEF At
  <2>3. CASE k = 1 /\ Event.name = "target"
    <3>1. depth' = 2 /\ inTarget' = TRUE /\ stack' = <<With(i, 1, {})>>
      BY <1>2, <1>3, <2>1, <2>3, NestedTable
    <3>2. depth' = DepthAt(i, k + 1) /\ stack' = StackAt(i, k + 1) /\ k < Len(doc[i])
      BY <2>1, <2>3, <3>1, NestedTable
    <3>3. QED
      BY <1>1, <1>2, <3>1, <3>2, Continues
  <2>4. CASE k = 3
    <3>1. inTarget = TRUE
      BY <1>2, <2>4, Inside, Zenon
    <3>2. DepthBefore = 2 /\ stack = <<With(i, 1, {2})>>
      BY <1>2, <2>1, <2>4, NestedTable
    <3>3. depth' = 3 /\ inTarget' = TRUE /\ stack' = Append(stack, With(i, 3, {}))
      BY <1>3, <2>4, <3>1, <3>2
    <3>4. stack' = <<With(i, 1, {2}), With(i, 3, {})>>
      BY <3>2, <3>3, Pushed
    <3>5. depth' = DepthAt(i, k + 1) /\ stack' = StackAt(i, k + 1) /\ k < Len(doc[i])
      BY <2>1, <2>4, <3>3, <3>4, NestedTable
    <3>6. QED
      BY <1>1, <1>2, <3>3, <3>5, Continues
  <2>5. CASE k = 4
    <3>1. inTarget = TRUE
      BY <1>2, <2>5, Inside, Zenon
    <3>2. DepthBefore = 3 /\ stack = <<With(i, 1, {2}), With(i, 3, {})>>
      BY <1>2, <2>1, <2>5, NestedTable
    <3>3. depth' = 4 /\ inTarget' = TRUE /\ stack' = Append(stack, With(i, 4, {}))
      BY <1>3, <2>5, <3>1, <3>2
    <3>4. stack' = <<With(i, 1, {2}), With(i, 3, {}), With(i, 4, {})>>
      BY <3>2, <3>3, Pushed
    <3>5. depth' = DepthAt(i, k + 1) /\ stack' = StackAt(i, k + 1) /\ k < Len(doc[i])
      <4>1. k + 1 = 5 /\ k < Len(doc[i])
        BY <2>1, <2>5
      <4>2. depth' = DepthAt(i, 5)
        BY <2>1, <3>3, NestedTable
      <4>3. stack' = StackAt(i, 5)
        BY <2>1, <3>4, NestedTable
      <4>4. QED
        BY <4>1, <4>2, <4>3
    <3>6. QED
      BY <1>1, <1>2, <3>3, <3>5, Continues
  <2>6. QED
    BY <2>2, <2>3, <2>4, <2>5
<1>9. QED
  BY <1>2, <1>5, <1>6, <1>7, <1>8

\* A record that closes itself is sent at once; a child like that says nothing.
LEMMA EmptyInv ==
  ASSUME ParserInv, EmptyTag
  PROVE  ParserInv'
<1>1. /\ Reading /\ ~ Skipping /\ Advance /\ Event.kind = "empty" /\ depth' = DepthBefore
      /\ DumpType /\ pos \in Positions
  BY DEF EmptyTag, ParserInv, Reading
<1>2. PICK i, k : /\ pos = <<i, k>> /\ pos[1] = i /\ pos[2] = k /\ i \in Nat \ {0} /\ k \in Nat \ {0}
                  /\ stack = StackAt(i, k) /\ inTarget = (k > 1) /\ DepthBefore = DepthAt(i, k)
                  /\ Event.kind \in {"end", "text"} => depth = DepthAt(i, k)
                  /\ Outside(1) \/ Outside(Len(doc)) \/ InClosed \/ InPlain \/ InNested
  BY <1>1, Enters
<1>3. ~ Outside(1) /\ ~ Outside(Len(doc))
  BY <1>1, SingleEvents, EventKinds
<1>4. CASE InClosed
  <2>1. /\ i # 1 /\ k = 1 /\ Len(doc[i]) = 1 /\ doc[i] = Closed /\ i \in Records
        /\ Event.name = "target"
    BY <1>1, <1>2, <1>4, SingleEvents, EventKinds DEF InClosed, At, Records
  <2>2. DepthBefore = 1
    BY <1>2, <2>1 DEF DepthAt
  <2>3. stack' = <<>> /\ inTarget' = FALSE /\ Send(Context(pos))
    BY <2>1, <2>2 DEF EmptyTag
  <2>4. Context(pos) = Value(i)
    BY <1>2, <2>1, ValueIs, EmptyContext DEF Context
  <2>5. CASE emitted' = Append(emitted, Value(i)) /\ result' = result
    BY <1>1, <1>2, <2>1, <2>2, <2>3, <2>5, Finishes
  <2>6. CASE emitted' = emitted /\ result' = "dropped"
    BY <1>1, <1>2, <2>1, <2>2, <2>3, <2>6, Finishes
  <2>7. QED
    BY <2>3, <2>4, <2>5, <2>6 DEF Send
<1>5. CASE InPlain
  <2>1. i # 1 /\ doc[i] = Plain /\ Len(doc[i]) = 6
    BY <1>2, <1>5 DEF InPlain, Records
  <2>2. k = 5 /\ Event.name # "target"
    BY <1>1, <1>2, <1>5, PlainEvents, EventKinds DEF At
  <2>3. stack' = stack /\ inTarget' = inTarget /\ emitted' = emitted /\ result' = result
    BY <2>2 DEF EmptyTag
  <2>4. inTarget = TRUE
    BY <1>2, <2>2, Inside, Zenon
  <2>5. depth' = DepthAt(i, k + 1) /\ stack' = StackAt(i, k + 1) /\ k < Len(doc[i])
    BY <1>1, <1>2, <2>1, <2>2, <2>3, PlainTable
  <2>6. QED
    BY <1>1, <1>2, <2>3, <2>4, <2>5, Continues
<1>6. CASE InNested
  BY <1>1, <1>6, NestedEvents, EventKinds
<1>7. QED
  BY <1>2, <1>3, <1>4, <1>5, <1>6

\* Text goes to the innermost open element of the record.
LEMMA TextInv ==
  ASSUME ParserInv, TextEvent
  PROVE  ParserInv'
<1>1. /\ Reading /\ ~ Skipping /\ Advance /\ Event.kind = "text"
      /\ depth' = depth /\ inTarget' = inTarget /\ emitted' = emitted /\ result' = result
      /\ stack' = IF inTarget /\ stack # <<>> THEN WithText(stack, {pos}) ELSE stack
      /\ DumpType /\ pos \in Positions
  BY DEF TextEvent, ParserInv, Reading
<1>2. PICK i, k : /\ pos = <<i, k>> /\ pos[1] = i /\ pos[2] = k /\ i \in Nat \ {0} /\ k \in Nat \ {0}
                  /\ stack = StackAt(i, k) /\ inTarget = (k > 1) /\ DepthBefore = DepthAt(i, k)
                  /\ Event.kind \in {"end", "text"} => depth = DepthAt(i, k)
                  /\ Outside(1) \/ Outside(Len(doc)) \/ InClosed \/ InPlain \/ InNested
  BY <1>1, Enters
<1>3. ~ Outside(1) /\ ~ Outside(Len(doc)) /\ ~ InClosed
  BY <1>1, SingleEvents, EventKinds
<1>4. depth = DepthAt(i, k) /\ {pos} = Texts(i, {k})
  BY <1>1, <1>2 DEF Texts
<1>5. \A n, T : More(With(i, n, T), {pos}) = With(i, n, T \cup {k})
  BY <1>4, WithMore
<1>6. CASE InPlain
  <2>1. i # 1 /\ doc[i] = Plain /\ Len(doc[i]) = 6
    BY <1>2, <1>6 DEF InPlain, Records
  <2>2. k = 3
    BY <1>1, <1>2, <1>6, PlainEvents, EventKinds DEF At
  <2>3. inTarget = TRUE
    BY <1>2, <2>2, Inside, Zenon
  <2>4. stack = <<With(i, 1, {}), With(i, 2, {})>>
    BY <1>2, <2>1, <2>2, PlainTable
  <2>5. stack' = WithText(stack, {pos})
    BY <1>1, <2>3, <2>4, Popped
  <2>6. stack' = <<With(i, 1, {}), More(With(i, 2, {}), {pos})>>
    <3>1. WithText(<<With(i, 1, {}), With(i, 2, {})>>, {pos})
            = <<With(i, 1, {}), More(With(i, 2, {}), {pos})>>
      <4>1. \A a, b : WithText(<<a, b>>, {pos}) = <<a, More(b, {pos})>>
        BY TextAdded
      <4>2. QED
        BY <4>1, Zenon
    <3>2. QED
      BY <2>4, <2>5, <3>1
  <2>7. {} \cup {k} = {3}
    BY <2>2
  <2>8. stack' = <<With(i, 1, {}), With(i, 2, {3})>>
    BY <1>5, <2>6, <2>7
  <2>9. depth' = DepthAt(i, k + 1) /\ stack' = StackAt(i, k + 1) /\ k < Len(doc[i])
    BY <1>1, <1>4, <2>1, <2>2, <2>8, PlainTable
  <2>10. QED
    BY <1>1, <1>2, <2>3, <2>9, Continues
<1>7. CASE InNested
  <2>1. i # 1 /\ doc[i] = Nested /\ Len(doc[i]) = 8
    BY <1>2, <1>7 DEF InNested, Records
  <2>2. k = 2 \/ k = 5
    BY <1>1, <1>2, <1>7, NestedEvents, EventKinds DEF At
  <2>3. CASE k = 2
    <3>1. inTarget = TRUE
      BY <1>2, <2>3, Inside, Zenon
    <3>2. stack = <<With(i, 1, {})>>
      BY <1>2, <2>1, <2>3, NestedTable
    <3>3. stack' = WithText(stack, {pos})
      BY <1>1, <3>1, <3>2, Popped
    <3>4. stack' = <<More(With(i, 1, {}), {pos})>>
      BY <3>2, <3>3, TextAdded
    <3>5. {} \cup {k} = {2}
      BY <2>3
    <3>6. stack' = <<With(i, 1, {2})>>
      BY <1>5, <3>4, <3>5
    <3>7. depth' = DepthAt(i, k + 1) /\ stack' = StackAt(i, k + 1) /\ k < Len(doc[i])
      BY <1>1, <1>4, <2>1, <2>3, <3>6, NestedTable
    <3>8. QED
      BY <1>1, <1>2, <3>1, <3>7, Continues
  <2>4. CASE k = 5
    <3>1. inTarget = TRUE
      BY <1>2, <2>4, Inside, Zenon
    <3>2. stack = <<With(i, 1, {2}), With(i, 3, {}), With(i, 4, {})>>
      BY <1>2, <2>1, <2>4, NestedTable
    <3>3. stack' = WithText(stack, {pos})
      BY <1>1, <3>1, <3>2, Popped
    <3>4. stack' = <<With(i, 1, {2}), With(i, 3, {}), More(With(i, 4, {}), {pos})>>
      <4>1. WithText(<<With(i, 1, {2}), With(i, 3, {}), With(i, 4, {})>>, {pos})
              = <<With(i, 1, {2}), With(i, 3, {}), More(With(i, 4, {}), {pos})>>
        <5>1. \A a, b, c : WithText(<<a, b, c>>, {pos}) = <<a, b, More(c, {pos})>>
          BY TextAdded
        <5>2. QED
          BY <5>1, Zenon
      <4>2. QED
        BY <3>2, <3>3, <4>1
    <3>5. {} \cup {k} = {5}
      BY <2>4
    <3>6. stack' = <<With(i, 1, {2}), With(i, 3, {}), With(i, 4, {5})>>
      BY <1>5, <3>4, <3>5
    <3>7. depth' = DepthAt(i, k + 1) /\ stack' = StackAt(i, k + 1) /\ k < Len(doc[i])
      BY <1>1, <1>4, <2>1, <2>4, <3>6, NestedTable
    <3>8. QED
      BY <1>1, <1>2, <3>1, <3>7, Continues
  <2>5. QED
    BY <2>2, <2>3, <2>4
<1>8. QED
  BY <1>2, <1>3, <1>6, <1>7

\* An end tag closes the innermost element; at depth 2 of the record's name it ends the record.
LEMMA Closes ==
  ASSUME EndTag, NEW a, NEW b, NEW c, inTarget = TRUE
  PROVE  /\ stack = <<a>> /\ Event.name = "target" /\ depth = 2 =>
              stack' = <<>> /\ inTarget' = FALSE /\ Send(a) /\ depth' = 1
         /\ stack = <<a, b>> /\ depth = 3 =>
              /\ stack' = <<More(a, b.text)>> /\ depth' = 2
              /\ inTarget' = TRUE /\ emitted' = emitted /\ result' = result
         /\ stack = <<a, b, c>> /\ depth = 4 =>
              /\ stack' = <<a, More(b, c.text)>> /\ depth' = 3
              /\ inTarget' = TRUE /\ emitted' = emitted /\ result' = result
<1>1. ASSUME stack = <<a>>, Event.name = "target", depth = 2
      PROVE  stack' = <<>> /\ inTarget' = FALSE /\ Send(a) /\ depth' = 1
  <2>1. stack # <<>> /\ Front(stack) = <<>> /\ Last(stack) = a
    BY <1>1, Popped
  <2>2. stack' = Front(stack) /\ inTarget' = FALSE /\ Send(Last(stack)) /\ depth' = Max0(2)
    BY <1>1, <2>1 DEF EndTag
  <2>3. QED
    BY <2>1, <2>2 DEF Max0
<1>2. ASSUME stack = <<a, b>>, depth = 3
      PROVE  /\ stack' = <<More(a, b.text)>> /\ depth' = 2
             /\ inTarget' = TRUE /\ emitted' = emitted /\ result' = result
  <2>1. stack # <<>> /\ Front(stack) = <<a>> /\ Last(stack) = b /\ Len(stack) = 2
    BY <1>2, Popped
  <2>2. /\ stack' = WithText(Front(stack), Last(stack).text) /\ depth' = Max0(3)
        /\ inTarget' = inTarget /\ emitted' = emitted /\ result' = result
    BY <1>2, <2>1 DEF EndTag
  <2>3. WithText(<<a>>, b.text) = <<More(a, b.text)>>
    BY TextAdded, Zenon
  <2>4. QED
    BY <1>2, <2>1, <2>2, <2>3 DEF Max0
<1>3. ASSUME stack = <<a, b, c>>, depth = 4
      PROVE  /\ stack' = <<a, More(b, c.text)>> /\ depth' = 3
             /\ inTarget' = TRUE /\ emitted' = emitted /\ result' = result
  <2>1. stack # <<>> /\ Front(stack) = <<a, b>> /\ Last(stack) = c /\ Len(stack) = 3
    <3>1. Front(<<a, b, c>>) = <<a, b>> /\ Last(<<a, b, c>>) = c /\ Len(<<a, b, c>>) = 3
      BY Popped
    <3>2. QED
      BY <1>3, <3>1
  <2>2. /\ stack' = WithText(Front(stack), Last(stack).text) /\ depth' = Max0(4)
        /\ inTarget' = inTarget /\ emitted' = emitted /\ result' = result
    BY <1>3, <2>1 DEF EndTag
  <2>3. WithText(<<a, b>>, c.text) = <<a, More(b, c.text)>>
    <3>1. \A T : WithText(<<a, b>>, T) = <<a, More(b, T)>>
      BY TextAdded
    <3>2. QED
      BY <3>1
  <2>4. QED
    BY <1>3, <2>1, <2>2, <2>3 DEF Max0
<1>4. QED
  BY <1>1, <1>2, <1>3

LEMMA EndInv ==
  ASSUME ParserInv, EndTag
  PROVE  ParserInv'
<1>1. /\ Reading /\ ~ Skipping /\ Advance /\ Event.kind = "end"
      /\ DumpType /\ pos \in Positions
  BY DEF EndTag, ParserInv, Reading
<1>2. PICK i, k : /\ pos = <<i, k>> /\ pos[1] = i /\ pos[2] = k /\ i \in Nat \ {0} /\ k \in Nat \ {0}
                  /\ stack = StackAt(i, k) /\ inTarget = (k > 1) /\ DepthBefore = DepthAt(i, k)
                  /\ Event.kind \in {"end", "text"} => depth = DepthAt(i, k)
                  /\ Outside(1) \/ Outside(Len(doc)) \/ InClosed \/ InPlain \/ InNested
  BY <1>1, Enters
<1>3. ~ Outside(1) /\ ~ InClosed
  BY <1>1, SingleEvents, EventKinds
<1>4. depth = DepthAt(i, k) /\ \A n, T : With(i, n, T).text = Texts(i, T)
  BY <1>1, <1>2 DEF With, Texts
<1>5. \A n, T, U : More(With(i, n, T), Texts(i, U)) = With(i, n, T \cup U)
  BY WithMore
<1>6. CASE Outside(Len(doc))
  <2>1. i = Len(doc) /\ k = 1 /\ Len(doc[i]) = 1 /\ i \notin Records
    BY <1>1, <1>2, <1>6, SingleEvents DEF Outside, At
  <2>2. inTarget = FALSE
    BY <1>2, <2>1, Inside, Zenon
  <2>3. stack = <<>>
    BY <1>2, <2>1 DEF StackAt
  <2>4. stack' = stack /\ inTarget' = inTarget /\ emitted' = emitted /\ result' = result
    BY <2>2 DEF EndTag
  <2>5. QED
    BY <1>1, <1>2, <2>1, <2>2, <2>3, <2>4, Finishes
<1>7. CASE InPlain
  <2>1. i # 1 /\ i \in Records /\ doc[i] = Plain /\ Len(doc[i]) = 6
    BY <1>2, <1>7 DEF InPlain, Records
  <2>2. k = 4 \/ (k = 6 /\ Event.name = "target")
    BY <1>1, <1>2, <1>7, PlainEvents, EventKinds DEF At
  <2>3. CASE k = 4
    <3>1. inTarget = TRUE
      BY <1>2, <2>3, Inside, Zenon
    <3>2. depth = 3 /\ stack = <<With(i, 1, {}), With(i, 2, {3})>>
      BY <1>2, <1>4, <2>1, <2>3, PlainTable
    <3>3. /\ stack' = <<More(With(i, 1, {}), With(i, 2, {3}).text)>> /\ depth' = 2
          /\ inTarget' = TRUE /\ emitted' = emitted /\ result' = result
      BY <3>1, <3>2, Closes
    <3>4. stack' = <<With(i, 1, {3})>>
      <4>1. {} \cup {3} = {3}
        OBVIOUS
      <4>2. More(With(i, 1, {}), With(i, 2, {3}).text) = With(i, 1, {3})
        BY <1>4, <1>5, <4>1
      <4>3. QED
        BY <3>3, <4>2
    <3>5. depth' = DepthAt(i, k + 1) /\ stack' = StackAt(i, k + 1) /\ k < Len(doc[i])
      BY <2>1, <2>3, <3>3, <3>4, PlainTable
    <3>6. QED
      BY <1>1, <1>2, <3>3, <3>5, Continues
  <2>4. CASE k = 6 /\ Event.name = "target"
    <3>1. inTarget = TRUE
      BY <1>2, <2>4, Inside, Zenon
    <3>2. depth = 2 /\ stack = <<With(i, 1, {3})>> /\ Value(i) = With(i, 1, {3})
      BY <1>2, <1>4, <2>1, <2>4, PlainTable, ValueIs
    <3>3. stack' = <<>> /\ inTarget' = FALSE /\ Send(Value(i)) /\ depth' = 1
      BY <2>4, <3>1, <3>2, Closes
    <3>4. CASE emitted' = Append(emitted, Value(i)) /\ result' = result
      BY <1>1, <1>2, <2>1, <2>4, <3>3, <3>4, Finishes
    <3>5. CASE emitted' = emitted /\ result' = "dropped"
      BY <1>1, <1>2, <2>1, <2>4, <3>3, <3>5, Finishes
    <3>6. QED
      BY <3>3, <3>4, <3>5 DEF Send
  <2>5. QED
    BY <2>2, <2>3, <2>4
<1>8. CASE InNested
  <2>1. i # 1 /\ i \in Records /\ doc[i] = Nested /\ Len(doc[i]) = 8
    BY <1>2, <1>8 DEF InNested, Records
  <2>2. k = 6 \/ k = 7 \/ (k = 8 /\ Event.name = "target")
    BY <1>1, <1>2, <1>8, NestedEvents, EventKinds DEF At
  <2>3. CASE k = 6
    <3>1. inTarget = TRUE
      BY <1>2, <2>3, Inside, Zenon
    <3>2. depth = 4 /\ stack = <<With(i, 1, {2}), With(i, 3, {}), With(i, 4, {5})>>
      BY <1>2, <1>4, <2>1, <2>3, NestedTable
    <3>3. /\ stack' = <<With(i, 1, {2}), More(With(i, 3, {}), With(i, 4, {5}).text)>> /\ depth' = 3
          /\ inTarget' = TRUE /\ emitted' = emitted /\ result' = result
      BY <3>1, <3>2, Closes
    <3>4. stack' = <<With(i, 1, {2}), With(i, 3, {5})>>
      <4>1. {} \cup {5} = {5}
        OBVIOUS
      <4>2. More(With(i, 3, {}), With(i, 4, {5}).text) = With(i, 3, {5})
        BY <1>4, <1>5, <4>1
      <4>3. QED
        BY <3>3, <4>2
    <3>5. depth' = DepthAt(i, k + 1) /\ stack' = StackAt(i, k + 1) /\ k < Len(doc[i])
      BY <2>1, <2>3, <3>3, <3>4, NestedTable
    <3>6. QED
      BY <1>1, <1>2, <3>3, <3>5, Continues
  <2>4. CASE k = 7
    <3>1. inTarget = TRUE
      BY <1>2, <2>4, Inside, Zenon
    <3>2. depth = 3 /\ stack = <<With(i, 1, {2}), With(i, 3, {5})>>
      BY <1>2, <1>4, <2>1, <2>4, NestedTable
    <3>3. /\ stack' = <<More(With(i, 1, {2}), With(i, 3, {5}).text)>> /\ depth' = 2
          /\ inTarget' = TRUE /\ emitted' = emitted /\ result' = result
      BY <3>1, <3>2, Closes
    <3>4. stack' = <<With(i, 1, {2, 5})>>
      <4>1. {2} \cup {5} = {2, 5}
        OBVIOUS
      <4>2. More(With(i, 1, {2}), With(i, 3, {5}).text) = With(i, 1, {2, 5})
        BY <1>4, <1>5, <4>1
      <4>3. QED
        BY <3>3, <4>2
    <3>5. depth' = DepthAt(i, k + 1) /\ stack' = StackAt(i, k + 1) /\ k < Len(doc[i])
      BY <2>1, <2>4, <3>3, <3>4, NestedTable
    <3>6. QED
      BY <1>1, <1>2, <3>3, <3>5, Continues
  <2>5. CASE k = 8 /\ Event.name = "target"
    <3>1. inTarget = TRUE
      BY <1>2, <2>5, Inside, Zenon
    <3>2. depth = 2 /\ stack = <<With(i, 1, {2, 5})>> /\ Value(i) = With(i, 1, {2, 5})
      BY <1>2, <1>4, <2>1, <2>5, NestedTable, ValueIs
    <3>3. stack' = <<>> /\ inTarget' = FALSE /\ Send(Value(i)) /\ depth' = 1
      BY <2>5, <3>1, <3>2, Closes
    <3>4. CASE emitted' = Append(emitted, Value(i)) /\ result' = result
      BY <1>1, <1>2, <2>1, <2>5, <3>3, <3>4, Finishes
    <3>5. CASE emitted' = emitted /\ result' = "dropped"
      BY <1>1, <1>2, <2>1, <2>5, <3>3, <3>5, Finishes
    <3>6. QED
      BY <3>3, <3>4, <3>5 DEF Send
  <2>6. QED
    BY <2>2, <2>3, <2>4, <2>5
<1>9. QED
  BY <1>2, <1>3, <1>6, <1>7, <1>8

\* What is no record's first event is skipped after an error.
LEMMA SkipInv ==
  ASSUME ParserInv, SkipEvent
  PROVE  ParserInv'
<1>1. /\ Reading /\ Skipping /\ pos' = After(pos) /\ UNCHANGED <<input, stack, inTarget, resyncing>>
      /\ malformed' = malformed /\ emitted' = emitted /\ result' = result
      /\ DumpType /\ pos \in Positions /\ result = "none" /\ resyncing = TRUE /\ Resyncing
      /\ malformed \in Nat /\ malformed <= Tolerated
  BY DEF SkipEvent, ParserInv, Reading, Skipping
<1> DEFINE i == pos[1]
           k == pos[2]
<1>2. pos = <<i, k>> /\ i \in DOMAIN doc /\ k \in Nat \ {0}
  BY <1>1, AfterIs DEF DumpType
<1>3. ~ (Event.kind \in {"start", "empty"} /\ Event.name = "target")
  BY <1>1 DEF Skipping, IsTarget
<1>4. i \in Records => k # 1
  <2> SUFFICES ASSUME i \in Records, k = 1 PROVE FALSE
    OBVIOUS
  <2>1. InClosed \/ InPlain \/ InNested
    BY <1>1, PieceIs DEF Outside
  <2>2. CASE InClosed
    BY <1>1, <1>3, <2>2, SingleEvents, EventKinds
  <2>3. CASE InPlain
    BY <1>1, <1>3, <2>3, PlainEvents, EventKinds DEF At
  <2>4. CASE InNested
    BY <1>1, <1>3, <2>4, NestedEvents, EventKinds DEF At
  <2>5. QED
    BY <2>1, <2>2, <2>3, <2>4
<1>5. doc[i] = Nested => i \in Records
  <2>1. CASE Outside(1) \/ Outside(Len(doc))
    BY <2>1, ShapeLengths DEF Outside
  <2>2. CASE InClosed \/ InPlain \/ InNested
    BY <2>2 DEF InClosed, InPlain, InNested
  <2>3. QED
    BY <1>1, <2>1, <2>2, PieceIs
<1>6. i # 1 /\ (i \in Records => \E j \in 1..k : <<i, j>> \in bad)
  BY <1>1, <1>2, <1>4 DEF Resyncing
<1>7. doc[i] = Nested => k >= 5
  BY <1>1, <1>2, <1>4, <1>5 DEF Resyncing
<1> HIDE DEF i, k
<1>8. stack' = <<>> /\ inTarget' = FALSE /\ resyncing' = TRUE /\ result' = "none" /\ UNCHANGED input
  BY <1>1 DEF Resyncing
<1>9. QED
  BY <1>1, <1>2, <1>6, <1>7, <1>8, Skips

\* An error ends the parse or drops what is open.
LEMMA ErrorInv ==
  ASSUME ParserInv, LabelsIntact, ReadError
  PROVE  ParserInv'
<1>1. /\ result = "none" /\ pos \in bad /\ malformed' = malformed + 1 /\ malformed' \in Nat
      /\ UNCHANGED input /\ emitted' = emitted
      /\ DumpType /\ pos \in Positions /\ EventAt(pos).kind \in {"text", "end"}
  BY DEF ReadError, ParserInv, DumpType
<1>2. CASE result' = "err" /\ UNCHANGED <<pos, stack, inTarget, resyncing, lastError>>
  <2>1. /\ DumpType' /\ Positions' = Positions /\ doc' = doc
        /\ (\A n : SoundBefore(n)' = SoundBefore(n)) /\ \A r : Value(r)' = Value(r)
    BY <1>1, SameDump
  <2>2. \A n : Sent(SoundBefore(n))' = Sent(SoundBefore(n))
    BY <1>1, <2>1 DEF Sent
  <2>3. OnlyMalformedDropped'
    <3>1. \E n \in 1..Len(doc) : Sent(SoundBefore(n))
      BY DEF ParserInv, OnlyMalformedDropped
    <3>2. QED
      BY <1>2, <2>1, <2>2, <3>1 DEF OnlyMalformedDropped
  <2>4. QED
    BY <1>1, <1>2, <2>1, <2>3 DEF ParserInv
<1>3. CASE /\ ~ (pos = lastError \/ malformed' > Tolerated)
           /\ pos' = AfterError /\ stack' = <<>> /\ inTarget' = FALSE /\ resyncing' = TRUE
           /\ result' = result
  <2> DEFINE i == pos[1]
             k == pos[2]
  <2>1. pos = <<i, k>> /\ i \in DOMAIN doc /\ k \in Nat \ {0} /\ <<i, k>> \in bad
    BY <1>1, AfterIs DEF DumpType
  <2>2. i # 1 /\ (doc[i] = Nested => k >= 5)
    <3>1. Event.kind \in {"text", "end"}
      BY <1>1 DEF Event
    <3>2. CASE Outside(1)
      BY <1>1, <3>1, <3>2, SingleEvents, EventKinds
    <3>3. CASE Outside(Len(doc))
      BY <1>1, <3>3, ShapeLengths DEF Outside, DumpType
    <3>4. CASE InClosed \/ InPlain
      BY <3>4, ShapeLengths DEF InClosed, InPlain, Records
    <3>5. CASE InNested
      <4>1. i \in Records /\ doc[i] = Nested /\ i # 1
        BY <3>5 DEF InNested, Records
      <4>2. k # 2
        BY <2>1, <4>1 DEF LabelsIntact
      <4>3. k \in {2, 5, 6, 7, 8}
        BY <1>1, <3>1, <3>5, NestedEvents, EventKinds DEF At
      <4>4. QED
        BY <4>1, <4>2, <4>3
    <3>6. QED
      BY <1>1, <3>2, <3>3, <3>4, <3>5, PieceIs
  <2>3. \E j \in 1..k : <<i, j>> \in bad
    BY <2>1
  <2>4. pos' = pos \/ pos' = After(pos)
    BY <1>3 DEF AfterError
  <2>5. malformed' <= Tolerated
    BY <1>1, <1>3, BoundsNat
  <2> HIDE DEF i, k
  <2>6. result' = "none"
    BY <1>1, <1>3
  <2>7. QED
    BY <1>1, <1>3, <2>1, <2>2, <2>3, <2>4, <2>5, <2>6, Skips
<1>4. QED
  BY <1>2, <1>3 DEF ReadError

\* At the end of the file every sound record was sent.
LEMMA EofInv ==
  ASSUME ParserInv, EndOfFile
  PROVE  ParserInv'
<1>1. /\ result = "none" /\ pos \notin Positions /\ result' = "ok"
      /\ UNCHANGED input /\ pos' = pos /\ emitted' = emitted /\ malformed' = malformed
      /\ resyncing' = resyncing
      /\ AtEnd /\ DumpType /\ malformed <= Tolerated
  BY DEF EndOfFile, ParserInv
<1>2. /\ DumpType' /\ Positions' = Positions /\ doc' = doc
      /\ (\A n : SoundBefore(n)' = SoundBefore(n)) /\ \A r : Value(r)' = Value(r)
  BY <1>1, SameDump
<1>3. \A n : Sent(SoundBefore(n))' = Sent(SoundBefore(n))
  BY <1>1, <1>2 DEF Sent
<1>4. Sent(SoundBefore(Len(doc)))
  <2>1. pos[1] = Len(doc) + 1 /\ Len(doc) \in DOMAIN doc /\ Len(doc) \notin Records
    BY <1>1 DEF AtEnd, DumpType, Records
  <2>2. SoundBefore(Len(doc) + 1) = SoundBefore(Len(doc))
    BY <1>1, <2>1, SoundPast
  <2>3. Sent(SoundBefore(pos[1]))
    BY <1>1 DEF ParserInv
  <2>4. QED
    BY <2>1, <2>2, <2>3
<1>5. Len(doc) \in 1..Len(doc)
  BY <1>1 DEF DumpType
<1>6. OnlyMalformedDropped'
  BY <1>1, <1>2, <1>3, <1>4, <1>5 DEF OnlyMalformedDropped
<1>7. QED
  BY <1>1, <1>2, <1>6 DEF ParserInv, AtEnd

LEMMA ParserInit == Init => ParserInv
<1> SUFFICES ASSUME Init PROVE ParserInv
  OBVIOUS
<1>1. /\ DumpType /\ pos = <<1, 1>> /\ depth = 0 /\ inTarget = FALSE /\ stack = <<>>
      /\ resyncing = FALSE /\ malformed = 0 /\ emitted = <<>> /\ result = "none"
  BY DumpInit DEF Init
<1>2. pos \in Positions /\ pos[1] = 1 /\ pos[2] = 1
  <2>1. 1 \in DOMAIN doc /\ Len(doc[1]) = 1
    BY <1>1 DEF DumpType
  <2>2. QED
    BY <1>1, <2>1, PositionsAre
<1>3. Sent(SoundBefore(1))
  <2>1. SoundBefore(1) = {}
    BY <1>1 DEF SoundBefore, Records, DumpType
  <2>2. DOMAIN emitted = {}
    BY <1>1
  <2>3. QED
    BY <2>1, <2>2 DEF Sent
<1>4. Standing
  <2>1. depth = DepthAt(1, 1) /\ stack = StackAt(1, 1)
    BY <1>1 DEF DepthAt, StackAt
  <2>2. inTarget = (pos[2] > 1)
    BY <1>1, <1>2, Inside, Zenon
  <2>3. 1..(pos[2] - 1) = {}
    BY <1>2
  <2>4. QED
    BY <1>2, <2>1, <2>2, <2>3 DEF Standing
<1>5. OnlyMalformedDropped
  <2>1. 1 \in 1..Len(doc)
    BY <1>1 DEF DumpType
  <2>2. QED
    BY <1>1, <1>3, <2>1 DEF OnlyMalformedDropped
<1>6. DOMAIN emitted = 1..Len(emitted) /\ Len(emitted) \in Nat
  BY <1>1
<1>7. malformed \in Nat /\ malformed <= Tolerated
  BY <1>1, BoundsNat
<1>9. resyncing \in BOOLEAN
  BY <1>1
<1>8. QED
  BY <1>1, <1>2, <1>3, <1>4, <1>5, <1>6, <1>7, <1>9 DEF ParserInv

-----------------------------------------------------------------------------
(* The theorems.                                                           *)

LEMMA StepKeepsDump == [Next]_vars => UNCHANGED input
BY DEF Next, vars, ReadError, SkipEvent, StartTag, EmptyTag, EndTag, TextEvent, EndOfFile, Advance

LEMMA ParserStep == LabelsIntact /\ ParserInv /\ [Next]_vars => ParserInv'
<1> SUFFICES ASSUME LabelsIntact, ParserInv, [Next]_vars PROVE ParserInv'
  OBVIOUS
<1>1. CASE ReadError
  BY <1>1, ErrorInv
<1>2. CASE SkipEvent
  BY <1>2, SkipInv
<1>3. CASE StartTag
  BY <1>3, StartInv
<1>4. CASE EmptyTag
  BY <1>4, EmptyInv
<1>5. CASE EndTag
  BY <1>5, EndInv
<1>6. CASE TextEvent
  BY <1>6, TextInv
<1>7. CASE EndOfFile
  BY <1>7, EofInv
<1>8. CASE UNCHANGED vars
  <2>1. /\ DumpType' = DumpType /\ Positions' = Positions /\ doc' = doc /\ bad' = bad
        /\ (\A n : SoundBefore(n)' = SoundBefore(n)) /\ (\A r : Value(r)' = Value(r))
        /\ \A i, k : DepthAt(i, k)' = DepthAt(i, k) /\ StackAt(i, k)' = StackAt(i, k)
    BY <1>8, SameDump DEF vars
  <2>2. /\ pos' = pos /\ depth' = depth /\ inTarget' = inTarget /\ stack' = stack
        /\ resyncing' = resyncing /\ malformed' = malformed /\ emitted' = emitted /\ result' = result
    BY <1>8 DEF vars
  <2>3. \A n : Sent(SoundBefore(n))' = Sent(SoundBefore(n))
    BY <2>1, <2>2 DEF Sent
  <2>4. OnlyMalformedDropped' = OnlyMalformedDropped
    BY <2>1, <2>2, <2>3 DEF OnlyMalformedDropped
  <2>5. Resyncing' = Resyncing /\ AtEnd' = AtEnd
    BY <2>1, <2>2 DEF Resyncing, AtEnd
  <2>6. Standing => Standing'
    <3>1. depth' = DepthAt(pos[1], pos[2])' <=> depth = DepthAt(pos[1], pos[2])
      BY <2>1, <2>2
    <3>2. QED
      BY <2>1, <2>2 DEF Standing
  <2>7. Sent(SoundBefore(pos[1])) => Sent(SoundBefore(pos[1]))'
    BY <2>2, <2>3
  <2>8. QED
    BY <2>1, <2>2, <2>4, <2>5, <2>6, <2>7 DEF ParserInv
<1>9. QED
  BY <1>1, <1>2, <1>3, <1>4, <1>5, <1>6, <1>7, <1>8 DEF Next

\* In a dump whose nested records are sound up to the inner one, a malformed record is
\* dropped and nothing else is, whatever else is malformed and however the parse ends
\* (parser.rs:170-171, 199-236).
THEOREM SoundAreSent == Spec => [](LabelsIntact => OnlyMalformedDropped)
<1> DEFINE Inv == LabelsIntact => ParserInv
<1>1. Init => Inv
  BY ParserInit
<1>2. Inv /\ [Next]_vars => Inv'
  <2> SUFFICES ASSUME Inv, [Next]_vars, LabelsIntact' PROVE ParserInv'
    OBVIOUS
  <2>1. LabelsIntact
    BY StepKeepsDump, SameDump
  <2>2. QED
    BY <2>1, ParserStep
<1>3. Inv => (LabelsIntact => OnlyMalformedDropped)
  BY DEF ParserInv
<1> HIDE DEF Inv
<1>4. QED
  BY <1>1, <1>2, <1>3, PTL DEF Spec

\* In a dump whose records do not nest one of their own name (artists, masters and
\* releases), a malformed record is dropped and nothing else is (parser.rs:199-236).
THEOREM OnlyMalformedAreDropped ==
  ASSUME "nested" \notin Shapes
  PROVE  Spec => []OnlyMalformedDropped
<1>1. Init => ParserInv /\ LabelsIntact
  BY ParserInit, DumpInit DEF LabelsIntact
<1>2. (ParserInv /\ LabelsIntact) /\ [Next]_vars => (ParserInv /\ LabelsIntact)'
  <2> SUFFICES ASSUME ParserInv, LabelsIntact, [Next]_vars PROVE ParserInv' /\ LabelsIntact'
    OBVIOUS
  <2>1. LabelsIntact'
    BY StepKeepsDump, SameDump
  <2>2. QED
    BY <2>1, ParserStep
<1>3. ParserInv => OnlyMalformedDropped
  BY DEF ParserInv
<1>4. QED
  BY <1>1, <1>2, <1>3, PTL DEF Spec

=============================================================================
