--------------------------- MODULE Transcode_proofs ---------------------------
(***************************************************************************)
(* Proofs about Transcode and the RecordWriters it drives, for all formats *)
(* of the module, all numbers of records and all lists of sources.         *)
(***************************************************************************)
EXTENDS Transcode, SelectionTheorems, SequenceTheorems

\* What a record can be called, and what can be on the stream.
Numbers == 1..MaxRecords
Whole   == {"head", "separator", "tail", "record"} \X Nat
Pieces  == Whole \cup {Torn}

\* A stream after the records s, before the next one and after the last.
Begun(s)    == (IF format \in Headed THEN <<Header>> ELSE <<>>) \o Body(s)
Before(s)   == IF format \in Separated /\ s # <<>> THEN Append(Begun(s), Sep) ELSE Begun(s)
Finished(s) == IF format \in Wrapped THEN Append(Begun(s), Trailer) ELSE Begun(s)

-----------------------------------------------------------------------------
\* What the proofs use of the pieces.

\* The formats that name no class of their own are in none of the others.
LEMMA FormatClasses ==
  /\ "bibtex" \in Separated /\ "bibtex" \notin Headed
  /\ CommaFormats \subseteq Separated /\ CommaFormats \subseteq Wrapped
  /\ Wrapped \subseteq Headed /\ Wrapped \subseteq Closable
  /\ \A f \in Closable : Sticky(f)
  /\ \A f \in Separated : f \in CommaFormats \/ f = "bibtex"
  /\ \A f \in Headed : f \in Wrapped \/ f = "turtle"
  /\ \A f \in Closable : f \in Wrapped \/ f = "mrk"
  /\ "mrk" \notin Headed /\ "mrk" \notin Separated
  /\ "turtle" \notin Separated /\ "turtle" \notin Closable
BY DEF Separated, Headed, CommaFormats, Wrapped, Closable, Sticky

\* The pieces are what they are, and all but a torn one are whole.
LEMMA PieceFacts ==
  /\ {Header, Sep, Trailer} \subseteq Whole /\ \A n \in Nat : Rec(n) \in Whole
  /\ Torn \notin Whole
  /\ Header[1] # "record" /\ Sep[1] # "record" /\ Trailer[1] # "record" /\ Torn[1] # "record"
  /\ \A n \in Nat : Rec(n)[1] = "record" /\ Rec(n)[2] = n
  /\ \A n \in Nat : Rec(n) # Header /\ Rec(n) # Sep /\ Rec(n) # Trailer
BY DEF Header, Sep, Trailer, Torn, Rec, Whole

\* Chunks, as they are taken from a list of one or two.
LEMMA Lists ==
  /\ \A a : Head(<<a>>) = a /\ Tail(<<a>>) = <<>> /\ Len(<<a>>) = 1 /\ <<a>> # <<>>
  /\ \A a, b : /\ Head(<<a, b>>) = a /\ Tail(<<a, b>>) = <<b>>
               /\ Len(<<a, b>>) = 2 /\ <<a, b>> # <<>>
OBVIOUS

\* Putting a list of one or two behind a sequence is putting its elements there.
LEMMA PutBehind ==
  ASSUME NEW S, NEW s \in Seq(S), NEW a \in S, NEW b \in S
  PROVE  /\ s \o <<a>> = Append(s, a) /\ s \o <<a, b>> = Append(Append(s, a), b)
         /\ s \o <<>> = s
OBVIOUS

\* A list of one before a list of one is a list of two.
LEMMA JoinLists ==
  ASSUME NEW S, NEW a \in S, NEW b \in S
  PROVE  <<a>> \o <<b>> = <<a, b>>
<1>1. <<a>> \in Seq(S) /\ <<b>> \in Seq(S)
  OBVIOUS
<1>2. SUFFICES ASSUME NEW s \in Seq(S), s = <<a>>, NEW t \in Seq(S), t = <<b>>
               PROVE  s \o t = <<a, b>>
  BY <1>1
<1>3. Len(s) = 1 /\ Len(t) = 1 /\ s[1] = a /\ t[1] = b
  BY <1>2
<1>4. PICK u : u = s \o t
  OBVIOUS
<1>5. u \in Seq(S) /\ Len(u) = 2
  BY <1>2, <1>3, <1>4
<1>6. u[1] = a /\ u[2] = b
  BY <1>2, <1>3, <1>4
<1>7. u = <<a, b>>
  BY <1>5, <1>6
<1> QED
  BY <1>4, <1>7

\* A longer sequence begins with the sequence it was made from.
LEMMA PrefixOfMore ==
  ASSUME NEW S, NEW s \in Seq(S), NEW a \in S, NEW b \in S
  PROVE  /\ IsPrefix(<<>>, s) /\ IsPrefix(s, s) /\ IsPrefix(s, Append(s, a))
         /\ IsPrefix(s, Append(Append(s, a), b))
BY DEF IsPrefix

\* Taking off what was put at the end.
LEMMA EndOfAppend ==
  ASSUME NEW S, NEW s \in Seq(S), NEW a \in S
  PROVE  /\ Append(s, a) \in Seq(S) /\ Append(s, a) # <<>>
         /\ Front(Append(s, a)) = s /\ Last(Append(s, a)) = a
<1>1. Append(s, a) \in Seq(S) /\ Len(Append(s, a)) = Len(s) + 1 /\ Len(s) \in Nat
  OBVIOUS
<1>2. SubSeq(Append(s, a), 1, Len(s)) = s
  OBVIOUS
<1> QED
  BY <1>1, <1>2 DEF Front, Last

-----------------------------------------------------------------------------
\* The document of a sequence of records.

\* Before the first record there is at most a header.
LEMMA BodyOfNone == Body(<<>>) = <<>>
BY DEF Body

\* A record is put behind the body, with a separator if the format has them.
LEMMA BodyOfMore ==
  ASSUME NEW s \in Seq(Numbers), NEW g \in Numbers
  PROVE  /\ Body(s) \in Seq(Whole)
         /\ Body(Append(s, g)) =
              IF format \in Separated /\ s # <<>> THEN Append(Append(Body(s), Sep), Rec(g))
              ELSE Append(Body(s), Rec(g))
<1> DEFINE t == Append(s, g)
<1>1. PICK n \in Nat : n = Len(s)
  OBVIOUS
<1>2. /\ t \in Seq(Numbers) /\ Len(t) = n + 1 /\ t[n + 1] = g
      /\ \A i \in 1..n : t[i] = s[i] /\ s[i] \in Numbers
  BY <1>1
<1>3. Sep \in Whole /\ \A m \in Numbers : Rec(m) \in Whole
  BY PieceFacts, WriterAssumption DEF Numbers
<1> HIDE DEF t
<1>4. CASE format \notin Separated
  <2>1. Body(s) = [i \in 1..n |-> Rec(s[i])] /\ Body(t) = [i \in 1..(n + 1) |-> Rec(t[i])]
    BY <1>1, <1>2, <1>4 DEF Body
  <2>2. Body(s) \in Seq(Whole) /\ Len(Body(s)) = n
    BY <1>2, <1>3, <2>1
  <2>3. Body(t) = Append(Body(s), Rec(g))
    BY <1>2, <1>3, <2>1, <2>2
  <2> QED
    BY <1>4, <2>2, <2>3 DEF t
<1>5. CASE format \in Separated /\ s = <<>>
  <2>1. n = 0 /\ Len(t) = 1
    BY <1>1, <1>2, <1>5
  <2>2. Body(t) = [i \in 1..1 |-> IF i % 2 = 0 THEN Sep ELSE Rec(t[(i + 1) \div 2])]
    BY <1>5, <2>1 DEF Body
  <2>3. Body(t) = <<Rec(g)>>
    BY <1>2, <2>1, <2>2
  <2> QED
    <3>1. Body(s) = <<>>
      BY <1>5, BodyOfNone
    <3>2. Body(Append(s, g)) = Append(Body(s), Rec(g)) /\ Body(s) \in Seq(Whole)
      BY <2>3, <3>1 DEF t
    <3> QED
      BY <1>5, <3>2
<1>6. CASE format \in Separated /\ s # <<>>
  <2> DEFINE b(u) == [i \in 1..(2 * Len(u) - 1) |->
                        IF i % 2 = 0 THEN Sep ELSE Rec(u[(i + 1) \div 2])]
  <2>1. Body(s) = b(s) /\ Body(t) = b(t) /\ n > 0
    BY <1>1, <1>6 DEF Body
  <2>2. PICK k \in Nat : k = 2 * n - 1 /\ k > 0
    BY <2>1
  <2>3. /\ Body(s) = [i \in 1..k |-> IF i % 2 = 0 THEN Sep ELSE Rec(s[(i + 1) \div 2])]
        /\ Body(t) = [i \in 1..(k + 2) |-> IF i % 2 = 0 THEN Sep ELSE Rec(t[(i + 1) \div 2])]
    BY <1>1, <1>2, <2>1, <2>2
  <2>4. ASSUME NEW i \in 1..k, i % 2 # 0 PROVE (i + 1) \div 2 \in 1..n
    BY <2>2, <2>4
  <2>5. Body(s) \in Seq(Whole) /\ Len(Body(s)) = k
    BY <1>2, <1>3, <2>3, <2>4
  <2>6. (k + 1) % 2 = 0 /\ (k + 2) % 2 # 0 /\ ((k + 2) + 1) \div 2 = n + 1
    BY <2>2
  <2>7. Body(t) \in Seq(Whole \cup {Rec(g)}) /\ Len(Body(t)) = k + 2
    <3>1. ASSUME NEW i \in 1..(k + 2), i % 2 # 0 PROVE (i + 1) \div 2 \in 1..(n + 1)
      BY <2>2, <3>1
    <3> QED
      BY <1>2, <1>3, <2>3, <3>1
  <2>8. Body(t)[k + 1] = Sep /\ Body(t)[k + 2] = Rec(g)
    BY <1>2, <2>3, <2>6
  <2>9. \A i \in 1..k : Body(t)[i] = Body(s)[i]
    BY <1>2, <2>3, <2>4
  <2> HIDE DEF b
  <2>10. Body(t) = Append(Append(Body(s), Sep), Rec(g))
    BY <1>3, <2>5, <2>7, <2>8, <2>9
  <2> QED
    BY <1>6, <2>5, <2>10 DEF t
<1> QED
  BY <1>4, <1>5, <1>6

\* The stages of a stream, each from the one before.
LEMMA Stages ==
  ASSUME NEW s \in Seq(Numbers), NEW g \in Numbers
  PROVE  /\ Begun(s) \in Seq(Whole) /\ Before(s) \in Seq(Whole) /\ Finished(s) \in Seq(Whole)
         /\ Begun(Append(s, g)) = Append(Before(s), Rec(g))
         /\ s = <<>> => Before(s) = Begun(s)
         /\ format \notin Separated => Before(s) = Begun(s)
         /\ format \in Separated /\ s # <<>> => Before(s) = Append(Begun(s), Sep)
<1> DEFINE h == IF format \in Headed THEN <<Header>> ELSE <<>>
<1>1. h \in Seq(Whole) /\ {Sep, Trailer, Rec(g)} \subseteq Whole
  BY PieceFacts, WriterAssumption DEF Numbers
<1>2. Body(s) \in Seq(Whole)
  BY BodyOfMore
<1>3. Begun(s) = h \o Body(s) /\ Begun(Append(s, g)) = h \o Body(Append(s, g))
  BY DEF Begun
<1> HIDE DEF h
<1>4. Begun(s) \in Seq(Whole)
  BY <1>1, <1>2, <1>3
<1>5. CASE format \in Separated /\ s # <<>>
  <2>1. Body(Append(s, g)) = Append(Append(Body(s), Sep), Rec(g))
    BY <1>5, BodyOfMore
  <2>2. Begun(Append(s, g)) = Append(Append(Begun(s), Sep), Rec(g))
    <3> DEFINE b == Body(s)
    <3>1. h \o Append(Append(b, Sep), Rec(g)) = Append(Append(h \o b, Sep), Rec(g))
      <4> HIDE DEF b
      <4>1. b \in Seq(Whole)
        BY <1>2 DEF b
      <4> QED
        BY <1>1, <4>1
    <3> QED
      BY <1>3, <2>1, <3>1
  <2> QED
    BY <1>1, <1>4, <1>5, <2>2 DEF Before, Finished
<1>6. CASE ~(format \in Separated /\ s # <<>>)
  <2>1. Body(Append(s, g)) = Append(Body(s), Rec(g))
    BY <1>6, BodyOfMore
  <2>2. Begun(Append(s, g)) = Append(Begun(s), Rec(g))
    BY <1>1, <1>2, <1>3, <2>1
  <2> QED
    BY <1>1, <1>4, <1>6, <2>2 DEF Before, Finished
<1> QED
  BY <1>5, <1>6

\* Before any record there is a header, in the formats that have one.
LEMMA StartOfStream ==
  Begun(<<>>) = IF format \in Headed THEN <<Header>> ELSE <<>>
<1> DEFINE h == IF format \in Headed THEN <<Header>> ELSE <<>>
<1>1. h \in Seq(Whole)
  BY PieceFacts
<1>2. Begun(<<>>) = h \o <<>>
  BY BodyOfNone DEF Begun
<1> HIDE DEF h
<1>3. h \o <<>> = h
  BY <1>1
<1> QED
  BY <1>2, <1>3 DEF h

\* At every stage a stream is a sequence of whole pieces.
LEMMA StageTypes ==
  ASSUME NEW s \in Seq(Numbers)
  PROVE  Begun(s) \in Seq(Whole) /\ Before(s) \in Seq(Whole) /\ Finished(s) \in Seq(Whole)
<1>1. CASE s = <<>>
  <2>1. Begun(s) = IF format \in Headed THEN <<Header>> ELSE <<>>
    BY <1>1, StartOfStream
  <2>2. Header \in Whole /\ Trailer \in Whole /\ Sep \in Whole
    BY PieceFacts
  <2>3. Begun(s) \in Seq(Whole)
    BY <2>1, <2>2
  <2> QED
    BY <2>2, <2>3 DEF Before, Finished
<1>2. CASE s # <<>>
  <2>1. PICK g \in Numbers : g = s[1]
    BY <1>2
  <2> QED
    BY <2>1, Stages
<1> QED
  BY <1>1, <1>2

\* The document ends where Finished does, but an empty one of Turtle has no header.
LEMMA DocumentIs ==
  ASSUME NEW s \in Seq(Numbers)
  PROVE  /\ format # "turtle" \/ s # <<>> => Document(s) = Finished(s)
         /\ s = <<>> /\ format \notin Wrapped => Document(s) = <<>>
<1>1. /\ Body(s) \in Seq(Whole) /\ {Header, Trailer} \subseteq Whole
      /\ s = <<>> => Body(s) = <<>>
  <2>1. CASE s = <<>>
    <3>1. Body(s) = <<>> /\ <<>> \in Seq(Whole)
      BY <2>1, BodyOfNone
    <3>2. {Header, Trailer} \subseteq Whole
      BY PieceFacts
    <3> QED
      BY <3>1, <3>2
  <2>2. CASE s # <<>>
    <3>1. PICK g \in Numbers : g = s[1]
      BY <2>2
    <3>2. Body(s) \in Seq(Whole)
      BY <3>1, BodyOfMore
    <3>3. {Header, Trailer} \subseteq Whole
      BY PieceFacts
    <3> QED
      BY <2>2, <3>2, <3>3
  <2> QED
    BY <2>1, <2>2
<1>2. format \in Headed <=> (format \in Wrapped \/ format = "turtle")
  BY DEF Headed
<1>3. CASE format \in Wrapped
  BY <1>1, <1>2, <1>3 DEF Document, Finished, Begun
<1>4. CASE format \notin Wrapped
  BY <1>1, <1>2, <1>4 DEF Document, Finished, Begun
<1> QED
  BY <1>3, <1>4


-----------------------------------------------------------------------------
\* The records in a stream.

\* A piece put at the end of a stream adds its record, if it is one.
LEMMA RecordsOfMore ==
  ASSUME NEW s \in Seq(Pieces), NEW p \in Pieces
  PROVE  /\ p[1] = "record" => RecordsIn(Append(s, p)) = Append(RecordsIn(s), p[2])
         /\ p[1] # "record" => RecordsIn(Append(s, p)) = RecordsIn(s)
<1> DEFINE t == Append(s, p)
           T == {i \in DOMAIN s : s[i][1] = "record"}
           U == {i \in DOMAIN t : t[i][1] = "record"}
<1>1. PICK n \in Nat : n = Len(s)
  OBVIOUS
<1>2. /\ t \in Seq(Pieces) /\ Len(t) = n + 1 /\ DOMAIN t = 1..(n + 1) /\ DOMAIN s = 1..n
      /\ t[n + 1] = p /\ \A i \in 1..n : t[i] = s[i]
  BY <1>1
<1> HIDE DEF t
<1>3. \A i \in 1..n : i \in T <=> i \in U
  BY <1>2
<1>4. n + 1 \in U <=> p[1] = "record"
  BY <1>2
<1>5. RecordsIn(s) = [k \in DOMAIN Select(T, n) |-> s[Select(T, n)[k]][2]]
  BY <1>1 DEF RecordsIn
<1>6. RecordsIn(t) = [k \in DOMAIN Select(U, n + 1) |-> t[Select(U, n + 1)[k]][2]]
  BY <1>2 DEF RecordsIn
<1> HIDE DEF T, U
<1>7. PICK at \in Seq(Nat) : at = Select(T, n) /\ at = Select(U, n)
  <2>1. Select(T, n) \in Seq(Nat)
    BY SelectSteps
  <2>2. Select(T, n) = Select(U, n)
    BY <1>3, SelectAgrees
  <2> QED
    BY <2>1, <2>2
<1>8. \A k \in 1..Len(at) : at[k] \in 1..n
  BY <1>7, SelectOnly
<1>9. RecordsIn(s) = [k \in 1..Len(at) |-> s[at[k]][2]]
  BY <1>5, <1>7
<1>10. CASE p[1] = "record"
  <2>1. Select(U, n + 1) = Append(at, n + 1)
    BY <1>4, <1>7, <1>10, SelectSteps
  <2>2. PICK m \in Nat : m = Len(at)
    BY <1>7
  <2>3. RecordsIn(t) = [k \in 1..(m + 1) |-> t[Append(at, n + 1)[k]][2]]
    BY <1>6, <1>7, <2>1, <2>2
  <2>4. RecordsIn(t) = [k \in 1..(m + 1) |-> IF k = m + 1 THEN p[2] ELSE s[at[k]][2]]
    BY <1>2, <1>7, <1>8, <2>2, <2>3
  <2>5. RecordsIn(s) = [k \in 1..m |-> s[at[k]][2]]
    BY <1>9, <2>2
  <2>6. RecordsIn(t) = Append(RecordsIn(s), p[2])
    BY <2>4, <2>5
  <2> QED
    BY <1>10, <2>6 DEF t
<1>11. CASE p[1] # "record"
  <2>1. Select(U, n + 1) = at
    BY <1>4, <1>7, <1>11, SelectSteps
  <2>2. RecordsIn(t) = [k \in 1..Len(at) |-> t[at[k]][2]]
    BY <1>6, <1>7, <2>1
  <2>3. RecordsIn(t) = RecordsIn(s)
    BY <1>2, <1>8, <1>9, <2>2
  <2> QED
    BY <1>11, <2>3 DEF t
<1> QED
  BY <1>10, <1>11

\* The same of the pieces there are.
LEMMA RecordsOfPieces ==
  ASSUME NEW s \in Seq(Pieces)
  PROVE  /\ \A n \in Nat : RecordsIn(Append(s, Rec(n))) = Append(RecordsIn(s), n)
         /\ \A p \in {Header, Sep, Trailer, Torn} : RecordsIn(Append(s, p)) = RecordsIn(s)
<1>1. Whole \subseteq Pieces /\ Torn \in Pieces
  BY DEF Pieces
<1>2. ASSUME NEW n \in Nat PROVE RecordsIn(Append(s, Rec(n))) = Append(RecordsIn(s), n)
  <2>1. Rec(n) \in Pieces /\ Rec(n)[1] = "record" /\ Rec(n)[2] = n
    BY <1>1, PieceFacts
  <2> QED
    BY <2>1, RecordsOfMore
<1>3. ASSUME NEW p \in {Header, Sep, Trailer, Torn} PROVE RecordsIn(Append(s, p)) = RecordsIn(s)
  <2>1. p \in Pieces /\ p[1] # "record"
    BY <1>1, PieceFacts
  <2> QED
    BY <2>1, RecordsOfMore
<1> QED
  BY <1>2, <1>3

\* There are none in an empty one.
LEMMA RecordsOfNone == RecordsIn(<<>>) = <<>>
<1>1. PICK T : T = {i \in DOMAIN <<>> : <<>>[i][1] = "record"}
  OBVIOUS
<1>2. Select(T, 0) = <<>> /\ Len(<<>>) = 0
  BY SelectSteps
<1>3. RecordsIn(<<>>) = [k \in DOMAIN <<>> |-> <<>>[<<>>[k]][2]]
  BY <1>1, <1>2 DEF RecordsIn
<1> QED
  BY <1>3

\* The records of a document are the records it was made of.
LEMMA RecordsOfDocument ==
  ASSUME NEW s \in Seq(Numbers)
  PROVE  RecordsIn(Begun(s)) = s /\ RecordsIn(Before(s)) = s /\ RecordsIn(Finished(s)) = s
<1> DEFINE T == {n \in Nat : \A u \in Seq(Numbers) : Len(u) = n => RecordsIn(Begun(u)) = u}
<1>1. Whole \subseteq Pieces /\ Seq(Whole) \subseteq Seq(Pieces) /\ Numbers \subseteq Nat
  BY DEF Pieces, Numbers
<1>2. 0 \in T
  <2>1. RecordsIn(Begun(<<>>)) = <<>>
    <3>1. CASE format \in Headed
      <4>1. Begun(<<>>) = Append(<<>>, Header) /\ <<>> \in Seq(Pieces)
        BY <3>1, StartOfStream
      <4> QED
        BY <4>1, RecordsOfPieces, RecordsOfNone
    <3>2. CASE format \notin Headed
      BY <3>2, StartOfStream, RecordsOfNone
    <3> QED
      BY <3>1, <3>2
  <2>2. \A u \in Seq(Numbers) : Len(u) = 0 => u = <<>>
    OBVIOUS
  <2> QED
    BY <2>1, <2>2
<1>3. ASSUME NEW u \in Seq(Numbers), RecordsIn(Begun(u)) = u
      PROVE  RecordsIn(Before(u)) = u /\ RecordsIn(Finished(u)) = u
  <2>1. Begun(u) \in Seq(Pieces)
    BY <1>1, StageTypes
  <2> QED
    BY <1>3, <2>1, RecordsOfPieces DEF Before, Finished
<1>4. ASSUME NEW n \in Nat, n \in T PROVE n + 1 \in T
  <2>1. SUFFICES ASSUME NEW u \in Seq(Numbers), Len(u) = n + 1
                 PROVE  RecordsIn(Begun(u)) = u
    OBVIOUS
  <2>2. PICK v \in Seq(Numbers), g \in Numbers : u = Append(v, g)
    <3>1. u # <<>>
      BY <2>1
    <3> QED
      BY <3>1, SequenceEmptyOrAppend
  <2>3. Len(v) = n
    BY <2>1, <2>2
  <2>4. RecordsIn(Begun(v)) = v
    BY <1>4, <2>3
  <2>5. RecordsIn(Before(v)) = v
    BY <1>3, <2>4
  <2>6. Begun(u) = Append(Before(v), Rec(g)) /\ Before(v) \in Seq(Pieces)
    BY <1>1, <2>2, Stages
  <2> QED
    BY <1>1, <2>2, <2>5, <2>6, RecordsOfPieces
<1>5. Len(s) \in T
  <2> HIDE DEF T
  <2> QED
    BY <1>2, <1>4, InductionBySet
<1> QED
  BY <1>3, <1>5

-----------------------------------------------------------------------------
\* The invariant of the stream.

\* The calls that may have left the stream broken off.
Spoilt == err \/ (~Sticky(format) /\ (failed \/ result = "error"))

\* What may be on the stream where a call broke off: no more than the next
\* record is there beyond those taken, and at most one torn piece after it.
Shape(w) ==
  \/ w = <<>> /\ taken = <<>>
  \/ w \in {Begun(taken), Before(taken), Finished(taken)}
  \/ \E g \in Numbers : w = Begun(Append(taken, g))

BrokenOff == \E w \in Seq(Whole) : Shape(w) /\ stream \in {w, Append(w, Torn)}

\* What is on it otherwise, between two calls.
Settled == stream = IF closed THEN Finished(taken)
                    ELSE IF taken = <<>> THEN <<>>
                    ELSE Begun(taken)

\* A Write under way: what it still has to emit, and after which stage.
WriteRuns ==
  /\ ~closed
  /\ \/ /\ pend = << <<Header>>, <<Rec(given)>> >> /\ format \in Headed
        /\ taken = <<>> /\ stream = <<>>
     \/ pend = << <<Rec(given)>> >> /\ stream = Before(taken)
     \/ /\ pend = << <<Sep>>, <<Rec(given)>> >> /\ format = "bibtex"
        /\ taken # <<>> /\ stream = Begun(taken)
     \/ /\ pend = << <<Sep, Rec(given)>> >> /\ format \in CommaFormats
        /\ taken # <<>> /\ stream = Begun(taken)

\* The same of a Close.
CloseRuns ==
  /\ closed /\ format \in Wrapped
  /\ \/ /\ pend = << <<Header>>, <<Trailer>> >>
        /\ taken = <<>> /\ stream = <<>>
     \/ pend = << <<Trailer>> >> /\ stream = Begun(taken)

\* The stream is one of these; the flags of the writer tell which.
StreamInv ==
  /\ Idle /\ Spoilt => BrokenOff
  /\ Idle /\ ~Spoilt => Settled
  /\ ~Idle => ~Spoilt /\ (WriteRuns \/ CloseRuns)
  /\ ~Spoilt /\ ~closed => /\ wrote <=> taken # <<>>
                           /\ opened <=> (taken # <<>> \/ ~Idle)

\* What holds of the variables of the writer, whoever calls it.
WriterInv ==
  /\ format \in Formats
  /\ {opened, closed, wrote, err} \subseteq BOOLEAN
  /\ given \in 0..MaxRecords
  /\ taken \in Seq(Numbers) /\ Len(taken) <= given
  /\ ~Idle /\ ~closed => Len(taken) < given
  /\ result \in {"none", "nil", "error"}
  /\ closed => format \in Closable
  /\ err => Sticky(format)

-----------------------------------------------------------------------------
\* The invariant of runConvert.

\* What holds of the variables of the loop, whoever the caller is.
LoopTypes ==
  /\ caller \in {"convert", "client"}
  /\ place \in {"next", "write", "final", "closing", "done"}
  /\ failed \in BOOLEAN /\ outcome \in {"none", "nil", "error"}
  /\ caller = "client" => outcome = "none"

\* Where the loop stands and what the writer last answered go together: it
\* goes on only after a success, and ends well only after a successful Close.
LoopInv ==
  /\ place \in {"next", "final", "done"} => Idle
  /\ place \in {"next", "write", "final"} => ~closed
  /\ place \in {"next", "write"} => ~failed
  /\ ~failed /\ place \in {"next", "final"} => result # "error" /\ ~err
  /\ place = "write" /\ Idle /\ result = "nil" => ~err
  /\ ~failed /\ place \in {"closing", "done"} /\ Idle /\ result = "nil" =>
       ~err /\ (format \in Closable => closed)
  /\ place = "closing" /\ ~Idle => closed
  /\ outcome = "nil" => place = "done" /\ ~failed /\ result = "nil"

\* The records taken are the first ones of the input.
CountInv ==
  /\ taken = [i \in 1..Len(taken) |-> i]
  /\ given - 1 <= Len(taken)
  /\ ~failed /\ place # "write" => Len(taken) = given
  /\ place = "write" /\ Idle /\ result = "nil" => Len(taken) = given

\* How many records the first sources hold.
InFirst(a) == CHOOSE f : f = [i \in 0..Len(a) |->
                                IF i = 0 THEN 0 ELSE f[i - 1] + Len(a[i].recs)]

\* A source, as the arguments list it.
SourceType == [recs : Seq({"valid", "invalid"}), end : Ends]

\* The first m sources have been read to their ends.
At(m) ==
  /\ Len(srcs) = Len(args) - m
  /\ \A i \in 1..m : args[i].end = "eof"
  /\ \A i \in 2..Len(srcs) : srcs[i] = args[m + i]
  /\ srcs # <<>> => /\ srcs[1].end = args[m + 1].end
                    /\ given + Len(srcs[1].recs) = InFirst(args)[m + 1]
  /\ srcs = <<>> => given = InFirst(args)[m]

\* The loop stands at some source, and closes only after the last.
InputInv ==
  /\ args \in Seq(SourceType) /\ srcs \in Seq(SourceType)
  /\ \E m \in 0..Len(args) : At(m)
  /\ ~failed /\ place \in {"final", "closing", "done"} => srcs = <<>>

\* The inductive invariant.
Inv ==
  /\ WriterInv /\ LoopTypes
  /\ Trusted => StreamInv
  /\ caller = "convert" => LoopInv /\ CountInv /\ InputInv
-----------------------------------------------------------------------------
\* What each step does to the variables of the writer.

\* A Write that is refused leaves the stream alone.
LEMMA WriteRefusedTypes ==
  ASSUME WriterInv, NEW valid \in BOOLEAN, WriteRefused(valid)
  PROVE  WriterInv'
BY WriterAssumption DEF WriterInv, WriteRefused, Idle

\* A Write that begins has a record to take.
LEMMA WriteStartsTypes ==
  ASSUME WriterInv, NEW valid \in BOOLEAN, WriteStarts(valid)
  PROVE  WriterInv'
BY WriterAssumption DEF WriterInv, WriteStarts, Idle

\* A Close with nothing to do.
LEMMA CloseReturnsTypes ==
  ASSUME WriterInv, CloseReturns
  PROVE  WriterInv'
BY DEF WriterInv, CloseReturns, Idle

\* Only the formats that have a trailer begin a Close.
LEMMA CloseStartsTypes ==
  ASSUME WriterInv, CloseStarts
  PROVE  WriterInv'
BY FormatClasses DEF WriterInv, CloseStarts, Idle

\* An emission; the last one of a Write takes its record.
LEMMA EmitTypes ==
  ASSUME WriterInv, Emit
  PROVE  WriterInv'
<1>1. CASE pend' = <<>> /\ ~closed
  <2>1. Len(taken) < given /\ given \in Numbers
    BY <1>1 DEF WriterInv, Emit, Numbers
  <2>2. taken' = Append(taken, given)
    BY <1>1 DEF Emit
  <2>3. taken' \in Seq(Numbers) /\ Len(taken') <= given
    BY <2>1, <2>2 DEF WriterInv
  <2> QED
    BY <1>1, <2>3 DEF WriterInv, Emit, Idle
<1>2. CASE ~(pend' = <<>> /\ ~closed)
  BY <1>2 DEF WriterInv, Emit, Idle
<1> QED
  BY <1>1, <1>2

\* An emission that fails is remembered by a sticky format.
LEMMA EmitFailsTypes ==
  ASSUME WriterInv, EmitFails
  PROVE  WriterInv'
BY DEF WriterInv, EmitFails, Idle, Sticky

-----------------------------------------------------------------------------
\* The stream.

\* The stages are about the format, which never changes.
LEMMA StagesStay ==
  ASSUME format' = format
  PROVE  \A s : Begun(s)' = Begun(s) /\ Before(s)' = Before(s) /\ Finished(s)' = Finished(s)
BY DEF Begun, Before, Finished, Body, Header, Sep, Trailer, Rec

\* A document that is not broken off is at one of its stages.
LEMMA SettledShape ==
  ASSUME WriterInv, Settled
  PROVE  stream \in Seq(Whole) /\ Shape(stream) /\ BrokenOff
<1>1. taken \in Seq(Numbers)
  BY DEF WriterInv
<1>2. Begun(taken) \in Seq(Whole) /\ Finished(taken) \in Seq(Whole)
  BY <1>1, StageTypes
<1>3. stream \in Seq(Whole) /\ Shape(stream)
  BY <1>2 DEF Settled, Shape
<1> QED
  BY <1>3 DEF BrokenOff

\* So is one with part of the chunk of a running call.
LEMMA PartOfChunk ==
  ASSUME WriterInv, ~Idle, WriteRuns \/ CloseRuns,
         NEW n \in 0..Len(Head(pend)), NEW w, w = stream \o SubSeq(Head(pend), 1, n)
  PROVE  w \in Seq(Whole) /\ Shape(w)
<1>1. taken \in Seq(Numbers) /\ (~closed => given \in Numbers)
  BY DEF WriterInv, Numbers
<1>2. /\ Begun(taken) \in Seq(Whole) /\ Before(taken) \in Seq(Whole)
      /\ Finished(taken) \in Seq(Whole)
  BY <1>1, StageTypes
<1>3. /\ {Header, Sep, Trailer} \subseteq Whole /\ (~closed => Rec(given) \in Whole)
  BY <1>1, PieceFacts DEF Numbers
<1>4. ~closed => /\ Begun(Append(taken, given)) = Append(Before(taken), Rec(given))
                 /\ Begun(Append(taken, given)) \in Seq(Whole)
  <2> SUFFICES ASSUME ~closed PROVE  /\ Begun(Append(taken, given)) = Append(Before(taken), Rec(given))
                                    /\ Begun(Append(taken, given)) \in Seq(Whole)
    OBVIOUS
  <2>1. Begun(Append(taken, given)) = Append(Before(taken), Rec(given))
    BY <1>1, Stages
  <2> QED
    BY <1>2, <1>3, <2>1
<1>5. \A s \in Seq(Whole), a \in Whole :
         /\ \A i \in 0..Len(<<a>>) : s \o SubSeq(<<a>>, 1, i) \in {s, Append(s, a)}
         /\ Append(s, a) \in Seq(Whole)
  OBVIOUS
<1>6. \A s \in Seq(Whole), a, b \in Whole : \A i \in 0..Len(<<a, b>>) :
         s \o SubSeq(<<a, b>>, 1, i) \in {s, Append(s, a), Append(Append(s, a), b)}
  OBVIOUS
<1>7. CASE stream = <<>> /\ taken = <<>> /\ Head(pend) = <<Header>> /\ format \in Headed
  <2>1. Begun(<<>>) = Append(<<>>, Header)
    BY <1>7, StartOfStream
  <2>2. w \in {<<>>, Begun(<<>>)}
    BY <1>3, <1>5, <1>7, <2>1
  <2>3. Begun(taken) = Begun(<<>>) /\ <<>> \in Seq(Whole)
    BY <1>7
  <2> QED
    BY <1>2, <1>7, <2>2, <2>3 DEF Shape
<1>8. CASE ~closed /\ stream = Before(taken) /\ Head(pend) = <<Rec(given)>>
  <2>1. w \in {Before(taken), Begun(Append(taken, given))}
    BY <1>2, <1>3, <1>4, <1>5, <1>8
  <2> QED
    BY <1>1, <1>2, <1>4, <1>8, <2>1 DEF Shape
<1>9. CASE stream = Begun(taken) /\ Before(taken) = Append(Begun(taken), Sep) /\ Head(pend) = <<Sep>>
  <2>1. w \in {Begun(taken), Before(taken)}
    BY <1>2, <1>3, <1>5, <1>9
  <2> QED
    BY <1>2, <2>1 DEF Shape
<1>10. CASE /\ ~closed /\ stream = Begun(taken) /\ Before(taken) = Append(Begun(taken), Sep)
            /\ Head(pend) = <<Sep, Rec(given)>>
  <2>1. /\ n \in 0..Len(<<Sep, Rec(given)>>)
        /\ w = Begun(taken) \o SubSeq(<<Sep, Rec(given)>>, 1, n)
    BY <1>10
  <2>2. Begun(taken) \in Seq(Whole) /\ Sep \in Whole /\ Rec(given) \in Whole
    BY <1>2, <1>3, <1>10
  <2>3. \A i \in 0..Len(<<Sep, Rec(given)>>) :
          Begun(taken) \o SubSeq(<<Sep, Rec(given)>>, 1, i) \in
            {Begun(taken), Append(Begun(taken), Sep), Append(Append(Begun(taken), Sep), Rec(given))}
    BY <1>6, <2>2, Zenon
  <2>4. w \in {Begun(taken), Append(Begun(taken), Sep),
               Append(Append(Begun(taken), Sep), Rec(given))}
    BY <2>1, <2>3, Zenon
  <2>5. w \in {Begun(taken), Before(taken), Begun(Append(taken, given))}
    BY <1>4, <1>10, <2>4
  <2> QED
    BY <1>1, <1>2, <1>4, <1>10, <2>5 DEF Shape
<1>11. CASE /\ stream = Begun(taken) /\ Finished(taken) = Append(Begun(taken), Trailer)
            /\ Head(pend) = <<Trailer>>
  <2>1. w \in {Begun(taken), Finished(taken)}
    BY <1>2, <1>3, <1>5, <1>11
  <2> QED
    BY <1>2, <2>1 DEF Shape
<1>12. CASE WriteRuns
  <2>1. format \in Separated /\ taken # <<>> => Before(taken) = Append(Begun(taken), Sep)
    BY DEF Before
  <2>2. /\ ~closed
        /\ \/ stream = <<>> /\ taken = <<>> /\ Head(pend) = <<Header>> /\ format \in Headed
           \/ stream = Before(taken) /\ Head(pend) = <<Rec(given)>>
           \/ stream = Begun(taken) /\ format = "bibtex" /\ taken # <<>> /\ Head(pend) = <<Sep>>
           \/ /\ stream = Begun(taken) /\ format \in CommaFormats /\ taken # <<>>
              /\ Head(pend) = <<Sep, Rec(given)>>
    BY <1>12, Lists DEF WriteRuns
  <2> QED
    BY <1>7, <1>8, <1>9, <1>10, <2>1, <2>2, FormatClasses
<1>13. CASE CloseRuns
  <2>1. \/ stream = <<>> /\ taken = <<>> /\ Head(pend) = <<Header>> /\ format \in Headed
        \/ /\ stream = Begun(taken) /\ Head(pend) = <<Trailer>>
           /\ Finished(taken) = Append(Begun(taken), Trailer)
    BY <1>13, Lists, FormatClasses DEF CloseRuns, Finished
  <2> QED
    BY <1>7, <1>11, <2>1
<1> QED
  BY <1>12, <1>13

\* A write that fails leaves the stream broken off.
LEMMA EmitFailsStream ==
  ASSUME WriterInv, StreamInv, EmitFails, failed' = failed
  PROVE  StreamInv'
<1>1. ~Idle /\ (WriteRuns \/ CloseRuns)
  BY DEF StreamInv, EmitFails
<1>2. PICK n \in 0..Len(Head(pend)), torn \in {<<>>, <<Torn>>} :
        stream' = stream \o SubSeq(Head(pend), 1, n) \o torn
  BY DEF EmitFails
<1>3. PICK w : w = stream \o SubSeq(Head(pend), 1, n)
  OBVIOUS
<1>4. w \in Seq(Whole) /\ Shape(w)
  BY <1>1, <1>3, PartOfChunk
<1>5. stream' \in {w, Append(w, Torn)}
  <2>1. stream' = w \o torn
    BY <1>2, <1>3
  <2>2. w \in Seq(Pieces) /\ Torn \in Pieces
    BY <1>4 DEF Pieces
  <2>3. w \o <<>> = w /\ w \o <<Torn>> = Append(w, Torn)
    BY <2>2
  <2> QED
    BY <2>1, <2>3
<1>6. pend' = <<>> /\ format' = format /\ taken' = taken /\ err' = Sticky(format) /\ result' = "error"
  BY DEF EmitFails
<1>7. Shape(w)'
  BY <1>4, <1>6, StagesStay DEF Shape
<1>8. BrokenOff'
  BY <1>4, <1>5, <1>7 DEF BrokenOff
<1>9. Spoilt' /\ Idle'
  BY <1>6 DEF Spoilt, Idle, Sticky
<1> QED
  BY <1>8, <1>9 DEF StreamInv
\* A chunk that is written brings the stream to its next stage.
LEMMA EmitStream ==
  ASSUME WriterInv, StreamInv, Emit, failed' = failed
  PROVE  StreamInv'
<1>1. ~Idle /\ ~Spoilt /\ (WriteRuns \/ CloseRuns)
  BY DEF StreamInv, Emit
<1>2. taken \in Seq(Numbers) /\ (~closed => given \in Numbers)
  BY <1>1 DEF WriterInv, Numbers
<1>3. Begun(taken) \in Seq(Whole) /\ Before(taken) \in Seq(Whole)
  BY <1>2, StageTypes
<1>4. {Header, Sep, Trailer} \subseteq Whole /\ (~closed => Rec(given) \in Whole)
  BY <1>2, PieceFacts DEF Numbers
<1>5. /\ stream' = stream \o Head(pend) /\ pend' = Tail(pend)
      /\ wrote' = (wrote \/ Contains(Head(pend), Rec(given)))
      /\ pend' = <<>> => result' = "nil"
      /\ pend' = <<>> => taken' = IF closed THEN taken ELSE Append(taken, given)
      /\ pend' # <<>> => result' = result /\ taken' = taken
      /\ format' = format /\ opened' = opened /\ closed' = closed
      /\ err' = err /\ given' = given
  BY DEF Emit
<1>6. ~Spoilt'
  BY <1>1, <1>5 DEF Spoilt
<1>7. CASE WriteRuns
  <2>1. ~closed /\ (wrote <=> taken # <<>>) /\ opened
    BY <1>1, <1>7 DEF StreamInv, WriteRuns
  <2>2. Begun(Append(taken, given)) = Append(Before(taken), Rec(given))
    BY <1>2, <2>1, Stages
  <2>3. Append(taken, given) # <<>>
    BY <1>2, <2>1
  <2>4. ASSUME stream' = Begun(Append(taken, given)), pend' = <<>>, wrote'
        PROVE  StreamInv'
    <3>1. taken' = Append(taken, given)
      BY <1>5, <2>1, <2>4
    <3>2. Settled'
      BY <1>5, <2>1, <2>3, <2>4, <3>1, StagesStay DEF Settled
    <3> QED
      BY <1>5, <1>6, <2>1, <2>3, <2>4, <3>1, <3>2 DEF StreamInv, Idle
  <2>5. ASSUME stream' = Before(taken), pend' = << <<Rec(given)>> >>, wrote' <=> wrote
        PROVE  StreamInv'
    <3>1. pend' # <<>>
      BY <2>5, Lists
    <3>2. WriteRuns'
      BY <1>5, <2>1, <2>5, <3>1, StagesStay DEF WriteRuns
    <3> QED
      BY <1>5, <1>6, <2>1, <2>5, <3>1, <3>2 DEF StreamInv, Idle
  <2>6. CASE /\ pend = << <<Header>>, <<Rec(given)>> >> /\ format \in Headed
             /\ taken = <<>> /\ stream = <<>>
    <3>1. Head(pend) = <<Header>> /\ pend' = << <<Rec(given)>> >>
      BY <1>5, <2>6, Lists
    <3>2. stream' = Before(taken)
      <4>1. stream' = <<Header>>
        BY <1>4, <1>5, <2>6, <3>1
      <4> QED
        BY <2>6, <4>1, StartOfStream DEF Before
    <3>3. wrote' <=> wrote
      <4>1. ~Contains(<<Header>>, Rec(given))
        BY <1>2, <2>1, PieceFacts DEF Contains, Numbers
      <4> QED
        BY <1>5, <3>1, <4>1
    <3> QED
      BY <2>5, <3>1, <3>2, <3>3
  <2>7. CASE pend = << <<Rec(given)>> >> /\ stream = Before(taken)
    <3>1. Head(pend) = <<Rec(given)>> /\ pend' = <<>>
      BY <1>5, <2>7, Lists
    <3>2. stream' = Begun(Append(taken, given))
      BY <1>3, <1>4, <1>5, <2>1, <2>2, <2>7, <3>1
    <3>3. wrote'
      <4>1. Contains(<<Rec(given)>>, Rec(given))
        BY DEF Contains
      <4> QED
        BY <1>5, <3>1, <4>1
    <3> QED
      BY <2>4, <3>1, <3>2, <3>3
  <2>8. CASE /\ pend = << <<Sep>>, <<Rec(given)>> >> /\ format = "bibtex"
             /\ taken # <<>> /\ stream = Begun(taken)
    <3>1. Head(pend) = <<Sep>> /\ pend' = << <<Rec(given)>> >>
      BY <1>5, <2>8, Lists
    <3>2. stream' = Before(taken)
      <4>1. stream' = Append(Begun(taken), Sep)
        BY <1>3, <1>4, <1>5, <2>8, <3>1
      <4> QED
        BY <2>8, <4>1, FormatClasses DEF Before
    <3>3. wrote' <=> wrote
      <4>1. ~Contains(<<Sep>>, Rec(given))
        BY <1>2, <2>1, PieceFacts DEF Contains, Numbers
      <4> QED
        BY <1>5, <3>1, <4>1
    <3> QED
      BY <2>5, <3>1, <3>2, <3>3
  <2>9. CASE /\ pend = << <<Sep, Rec(given)>> >> /\ format \in CommaFormats
             /\ taken # <<>> /\ stream = Begun(taken)
    <3>1. Head(pend) = <<Sep, Rec(given)>> /\ pend' = <<>>
      BY <1>5, <2>9, Lists
    <3>2. stream' = Begun(Append(taken, given))
      <4>1. Before(taken) = Append(Begun(taken), Sep)
        BY <2>9, FormatClasses DEF Before
      <4>2. stream' = Append(Append(Begun(taken), Sep), Rec(given))
        BY <1>3, <1>4, <1>5, <2>1, <2>9, <3>1
      <4> QED
        BY <2>2, <4>1, <4>2
    <3>3. wrote'
      <4>1. Contains(<<Sep, Rec(given)>>, Rec(given))
        BY DEF Contains
      <4> QED
        BY <1>5, <3>1, <4>1
    <3> QED
      BY <2>4, <3>1, <3>2, <3>3
  <2> QED
    BY <1>7, <2>6, <2>7, <2>8, <2>9 DEF WriteRuns
<1>8. CASE CloseRuns
  <2>1. closed /\ format \in Wrapped /\ taken' = taken
    BY <1>5, <1>8 DEF CloseRuns
  <2>2. CASE pend = << <<Header>>, <<Trailer>> >> /\ taken = <<>> /\ stream = <<>>
    <3>1. Head(pend) = <<Header>> /\ pend' = << <<Trailer>> >> /\ pend' # <<>>
      BY <1>5, <2>2, Lists
    <3>2. stream' = Begun(taken)
      <4>1. stream' = <<Header>>
        BY <1>4, <1>5, <2>2, <3>1
      <4> QED
        BY <2>1, <2>2, <4>1, StartOfStream, FormatClasses
    <3>3. CloseRuns'
      BY <1>5, <2>1, <3>1, <3>2, StagesStay DEF CloseRuns, Trailer
    <3> QED
      BY <1>5, <1>6, <2>1, <3>1, <3>3 DEF StreamInv, Idle
  <2>3. CASE pend = << <<Trailer>> >> /\ stream = Begun(taken)
    <3>1. Head(pend) = <<Trailer>> /\ pend' = <<>>
      BY <1>5, <2>3, Lists
    <3>2. stream' = Finished(taken)
      BY <1>3, <1>4, <1>5, <2>1, <2>3, <3>1 DEF Finished
    <3>3. Settled'
      BY <1>5, <2>1, <3>2, StagesStay DEF Settled
    <3> QED
      BY <1>5, <1>6, <2>1, <3>1, <3>3 DEF StreamInv, Idle
  <2> QED
    BY <1>8, <2>2, <2>3 DEF CloseRuns
<1> QED
  BY <1>1, <1>7, <1>8

\* A call that begins has in front of it what brings the stream to the next stage.
LEMMA WriteStartsStream ==
  ASSUME WriterInv, StreamInv, ~Spoilt, NEW valid \in BOOLEAN, WriteStarts(valid),
         failed' = failed
  PROVE  StreamInv'
<1>1. /\ Idle /\ ~err /\ pend' = Opening \o RecordChunks(given') /\ opened' = TRUE
      /\ ~(closed /\ format \in Closable)
      /\ format' = format /\ closed' = closed /\ wrote' = wrote /\ err' = err
      /\ taken' = taken /\ result' = result /\ stream' = stream
  BY DEF WriteStarts, Refused
<1>2. ~closed
  BY <1>1 DEF WriterInv
<1>3. /\ stream = IF taken = <<>> THEN <<>> ELSE Begun(taken)
      /\ wrote <=> taken # <<>>
      /\ opened <=> taken # <<>>
  BY <1>1, <1>2 DEF StreamInv, Settled
<1>4. ~Spoilt'
  BY <1>1 DEF Spoilt
<1>6. \A a, b : <<a>> \o <<b>> = <<a, b>>
  <2> TAKE a, b
  <2>1. a \in {a, b} /\ b \in {a, b}
    OBVIOUS
  <2> QED
    BY <2>1, JoinLists
<1>7. ASSUME pend' # <<>>, WriteRuns' PROVE StreamInv'
  BY <1>1, <1>2, <1>3, <1>4, <1>7 DEF StreamInv, Idle
<1>8. CASE taken = <<>>
  <2>1. RecordChunks(given') = << <<Rec(given')>> >>
    BY <1>3, <1>8 DEF RecordChunks
  <2>2. CASE format \in Headed
    <3>1. pend' = << <<Header>>, <<Rec(given')>> >>
      BY <1>1, <1>3, <1>6, <1>8, <2>1, <2>2 DEF Opening
    <3>2. pend' # <<>>
      BY <3>1, Lists
    <3>3. WriteRuns'
      BY <1>1, <1>2, <1>3, <1>8, <2>2, <3>1 DEF WriteRuns, Header, Rec
    <3> QED
      BY <1>7, <3>2, <3>3
  <2>3. CASE format \notin Headed
    <3>1. pend' = << <<Rec(given')>> >>
      <4>1. Opening = <<>>
        BY <2>3 DEF Opening
      <4> QED
        BY <1>1, <2>1, <4>1
    <3>2. pend' # <<>>
      BY <3>1, Lists
    <3>3. stream = Before(taken)
      BY <1>3, <1>8, <2>3, StartOfStream DEF Before
    <3>4. WriteRuns'
      BY <1>1, <1>2, <3>1, <3>3, StagesStay DEF WriteRuns, Rec
    <3> QED
      BY <1>7, <3>2, <3>4
  <2> QED
    BY <2>2, <2>3
<1>9. CASE taken # <<>>
  <2>1. Opening = <<>> /\ wrote /\ stream = Begun(taken)
    BY <1>3, <1>9 DEF Opening
  <2>2. RecordChunks(given') # <<>> => pend' = RecordChunks(given')
    <3>1. PICK c : c = RecordChunks(given')
      OBVIOUS
    <3>2. c \in { << <<Rec(given')>> >>, << <<Sep>>, <<Rec(given')>> >>, << <<Sep, Rec(given')>> >> }
      BY <3>1 DEF RecordChunks
    <3>3. pend' = <<>> \o c
      BY <1>1, <2>1, <3>1
    <3> QED
      BY <3>1, <3>2, <3>3
  <2>3. CASE format \notin Separated
    <3>1. RecordChunks(given') = << <<Rec(given')>> >>
      BY <2>3 DEF RecordChunks
    <3>2. pend' = << <<Rec(given')>> >> /\ pend' # <<>>
      BY <2>2, <3>1, Lists
    <3>3. WriteRuns'
      BY <1>1, <1>2, <2>1, <2>3, <3>2, StagesStay DEF WriteRuns, Rec, Before
    <3> QED
      BY <1>7, <3>2, <3>3
  <2>4. CASE format = "bibtex"
    <3>1. RecordChunks(given') = << <<Sep>>, <<Rec(given')>> >>
      BY <2>1, <2>4, FormatClasses DEF RecordChunks
    <3>2. pend' = << <<Sep>>, <<Rec(given')>> >> /\ pend' # <<>>
      BY <2>2, <3>1, Lists
    <3>3. WriteRuns'
      BY <1>1, <1>2, <1>9, <2>1, <2>4, <3>2, StagesStay DEF WriteRuns, Rec, Sep
    <3> QED
      BY <1>7, <3>2, <3>3
  <2>5. CASE format \in Separated /\ format # "bibtex"
    <3>1. RecordChunks(given') = << <<Sep, Rec(given')>> >> /\ format \in CommaFormats
      BY <2>1, <2>5, FormatClasses DEF RecordChunks
    <3>2. pend' = << <<Sep, Rec(given')>> >> /\ pend' # <<>>
      BY <2>2, <3>1, Lists
    <3>3. WriteRuns'
      BY <1>1, <1>2, <1>9, <2>1, <3>1, <3>2, StagesStay DEF WriteRuns, Rec, Sep
    <3> QED
      BY <1>7, <3>2, <3>3
  <2> QED
    BY <2>3, <2>4, <2>5
<1> QED
  BY <1>8, <1>9

\* So has a Close.
LEMMA CloseStartsStream ==
  ASSUME WriterInv, StreamInv, CloseStarts, failed' = failed
  PROVE  StreamInv'
<1>1. /\ Idle /\ ~err /\ ~closed /\ format \in Wrapped /\ closed'
      /\ pend' = Opening \o << <<Trailer>> >>
      /\ format' = format /\ wrote' = wrote /\ err' = err
      /\ taken' = taken /\ result' = result /\ stream' = stream
  BY DEF CloseStarts
<1>2. ~Spoilt /\ ~Spoilt'
  BY <1>1, FormatClasses DEF Spoilt
<1>3. /\ stream = IF taken = <<>> THEN <<>> ELSE Begun(taken)
      /\ opened <=> taken # <<>>
  BY <1>1, <1>2 DEF StreamInv, Settled
<1>4. ASSUME pend' # <<>>, CloseRuns' PROVE StreamInv'
  BY <1>1, <1>2, <1>4 DEF StreamInv, Idle
<1>5. CASE taken = <<>>
  <2>1. Opening = << <<Header>> >>
    BY <1>1, <1>3, <1>5, FormatClasses DEF Opening
  <2>2. \A a, b : <<a>> \o <<b>> = <<a, b>>
    <3> TAKE a, b
    <3>1. a \in {a, b} /\ b \in {a, b}
      OBVIOUS
    <3> QED
      BY <3>1, JoinLists
  <2>3. pend' = << <<Header>>, <<Trailer>> >>
    BY <1>1, <2>1, <2>2
  <2>4. pend' # <<>>
    BY <2>3, Lists
  <2>5. CloseRuns'
    BY <1>1, <1>3, <1>5, <2>3 DEF CloseRuns, Header, Trailer
  <2> QED
    BY <1>4, <2>4, <2>5
<1>6. CASE taken # <<>>
  <2>1. Opening = <<>>
    BY <1>3, <1>6 DEF Opening
  <2>2. pend' = <<>> \o << <<Trailer>> >>
    BY <1>1, <2>1
  <2>3. pend' = << <<Trailer>> >>
    BY <2>2
  <2>4. pend' # <<>>
    BY <2>3, Lists
  <2>5. CloseRuns'
    BY <1>1, <1>3, <1>6, <2>3, StagesStay DEF CloseRuns, Trailer
  <2> QED
    BY <1>4, <2>4, <2>5
<1> QED
  BY <1>5, <1>6

\* A step that leaves the stream and the records taken leaves it broken off.
LEMMA BrokenOffStays ==
  ASSUME BrokenOff, format' = format, taken' = taken, stream' = stream
  PROVE  BrokenOff'
BY StagesStay DEF BrokenOff, Shape

\* A Close that writes nothing: the document is at its end already, is broken off,
\* or has no end.
LEMMA CloseReturnsStream ==
  ASSUME WriterInv, StreamInv, CloseReturns, failed' = failed,
         ~Sticky(format) /\ result = "error" => failed
  PROVE  StreamInv'
<1>1. /\ Idle /\ (err \/ closed \/ format \notin Wrapped)
      /\ closed' = (closed \/ (~err /\ format \in Closable))
      /\ result' = IF err /\ format \notin {"ris", "bibtex"} THEN "error" ELSE "nil"
      /\ format' = format /\ opened' = opened /\ wrote' = wrote /\ err' = err
      /\ pend' = pend /\ taken' = taken /\ stream' = stream
  BY DEF CloseReturns
<1>2. Spoilt' <=> Spoilt
  BY <1>1 DEF Spoilt, WriterInv
<1>3. CASE Spoilt
  <2>1. BrokenOff'
    BY <1>1, <1>3, BrokenOffStays DEF StreamInv
  <2> QED
    BY <1>1, <1>2, <1>3, <2>1 DEF StreamInv, Idle
<1>4. CASE ~Spoilt
  <2>1. Settled /\ ~err
    BY <1>1, <1>4 DEF StreamInv, Spoilt
  <2>2. Settled'
    <3>1. CASE closed' <=> closed
      BY <1>1, <2>1, <3>1, StagesStay DEF Settled
    <3>2. CASE closed' /\ ~closed
      <4>1. format = "mrk"
        BY <1>1, <2>1, <3>2, FormatClasses
      <4>2. stream = Begun(taken)
        BY <2>1, <3>2, <4>1, StartOfStream, FormatClasses DEF Settled
      <4>3. Finished(taken) = Begun(taken)
        BY <4>1, FormatClasses DEF Finished
      <4> QED
        BY <1>1, <3>2, <4>2, <4>3, StagesStay DEF Settled
    <3> QED
      BY <1>1, <3>1, <3>2
  <2> QED
    BY <1>1, <1>2, <1>4, <2>1, <2>2 DEF StreamInv, Idle
<1> QED
  BY <1>3, <1>4

\* A Write that is refused leaves everything as it was, and if the writer keeps no
\* error the caller does.
LEMMA WriteRefusedStream ==
  ASSUME WriterInv, StreamInv, NEW valid \in BOOLEAN, WriteRefused(valid), failed' = failed
  PROVE  StreamInv'
<1>1. /\ Idle /\ result' = "error"
      /\ format' = format /\ opened' = opened /\ closed' = closed /\ wrote' = wrote
      /\ err' = err /\ pend' = pend /\ taken' = taken /\ stream' = stream
  BY DEF WriteRefused
<1>2. Spoilt => Spoilt'
  BY <1>1 DEF Spoilt
<1>3. BrokenOff \/ (~Spoilt' /\ Settled)
  BY <1>1, <1>2, SettledShape DEF StreamInv
<1>4. BrokenOff' \/ ~Spoilt'
  BY <1>1, <1>3, BrokenOffStays
<1>5. ~Spoilt' => Settled'
  BY <1>1, <1>2, StagesStay DEF StreamInv, Settled
<1> QED
  BY <1>1, <1>2, <1>4, <1>5 DEF StreamInv, Idle

\* The caller may give up between two calls.
LEMMA LoopStream ==
  ASSUME WriterInv, StreamInv, UNCHANGED writerVars, failed' = failed \/ (Idle /\ failed')
  PROVE  StreamInv'
<1>1. /\ format' = format /\ opened' = opened /\ closed' = closed /\ wrote' = wrote
      /\ err' = err /\ pend' = pend /\ given' = given /\ taken' = taken
      /\ result' = result /\ stream' = stream
  BY DEF writerVars
<1>2. Spoilt => Spoilt'
  BY <1>1 DEF Spoilt, StreamInv
<1>3. Idle => (BrokenOff \/ (~Spoilt' /\ Settled))
  BY <1>1, <1>2, SettledShape DEF StreamInv
<1>4. Idle => (BrokenOff' \/ ~Spoilt')
  BY <1>1, <1>3, BrokenOffStays
<1>5. Idle /\ ~Spoilt' => Settled'
  BY <1>1, <1>2, StagesStay DEF StreamInv, Settled
<1>6. WriteRuns \/ CloseRuns => WriteRuns' \/ CloseRuns'
  BY <1>1, StagesStay DEF WriteRuns, CloseRuns, Header, Sep, Trailer, Rec
<1>7. ~Idle => ~Spoilt'
  BY <1>1 DEF StreamInv, Spoilt
<1> QED
  BY <1>1, <1>2, <1>4, <1>5, <1>6, <1>7 DEF StreamInv, Idle
-----------------------------------------------------------------------------
\* runConvert.

\* How many records the first sources hold, source by source.
LEMMA InFirstSteps ==
  ASSUME NEW a \in Seq(SourceType)
  PROVE  /\ InFirst(a)[0] = 0
         /\ \A i \in 1..Len(a) : InFirst(a)[i] = InFirst(a)[i - 1] + Len(a[i].recs)
<1> DEFINE eq(f) == f = [i \in 0..Len(a) |-> IF i = 0 THEN 0 ELSE f[i - 1] + Len(a[i].recs)]
           c == [i \in Nat |-> IF i \in 1..Len(a) THEN Len(a[i].recs) ELSE 0]
<1>1. PICK n \in Nat : n = Len(a)
  OBVIOUS
<1>2. \A i \in 1..n : Len(a[i].recs) \in Nat
  BY <1>1 DEF SourceType
<1>3. c \in [Nat -> Nat]
  BY <1>1, <1>2
<1>4. \A i \in 1..n : c[i] = Len(a[i].recs)
  BY <1>1
<1> HIDE DEF c
<1>5. PICK g \in [Nat -> Nat] : g[0] = 0 /\ \A i \in Nat : g[i + 1] = g[i] + c[i + 1]
  BY <1>3, PartialSums
<1>6. ASSUME NEW i \in 1..n PROVE g[i] = g[i - 1] + Len(a[i].recs)
  <2>1. PICK j \in Nat : j = i - 1 /\ j + 1 = i
    OBVIOUS
  <2> QED
    BY <1>4, <1>5, <2>1
<1> DEFINE h == [i \in 0..Len(a) |-> g[i]]
<1>7. eq(h)
  <2>1. ASSUME NEW i \in 0..n
        PROVE  g[i] = IF i = 0 THEN 0 ELSE h[i - 1] + Len(a[i].recs)
    <3>1. CASE i = 0
      BY <1>5, <3>1
    <3>2. CASE i # 0
      <4>1. PICK j \in 0..n : j = i - 1 /\ i \in 1..n
        BY <3>2
      <4>2. h[j] = g[j]
        BY <1>1, <4>1
      <4> QED
        BY <1>6, <3>2, <4>1, <4>2
    <3> QED
      BY <3>1, <3>2
  <2> QED
    BY <1>1, <2>1
<1>8. InFirst(a) = CHOOSE f : eq(f)
  BY DEF InFirst
<1>9. eq(InFirst(a))
  <2> HIDE DEF eq, h
  <2> QED
    BY <1>7, <1>8
<1>10. PICK f : f = InFirst(a)
  OBVIOUS
<1>11. f = [i \in 0..n |-> IF i = 0 THEN 0 ELSE f[i - 1] + Len(a[i].recs)]
  BY <1>1, <1>9, <1>10
<1>12. f[0] = 0
  BY <1>11
<1>13. ASSUME NEW i \in 1..n PROVE f[i] = f[i - 1] + Len(a[i].recs)
  <2>1. i \in 0..n /\ i # 0
    OBVIOUS
  <2> QED
    BY <1>11, <2>1
<1> QED
  BY <1>1, <1>10, <1>12, <1>13

\* All of them together are what Supplied counts.
LEMMA SuppliedIs == Supplied = InFirst(args)[Len(args)]
BY DEF Supplied, InFirst

\* Both ways a call of Write begins count the record.
LEMMA WriteCounts ==
  ASSUME WriterInv, NEW valid \in BOOLEAN, WriteStarts(valid) \/ WriteRefused(valid)
  PROVE  /\ given' = given + 1 /\ taken' = taken /\ closed' = closed /\ err' = err
         /\ format' = format
         /\ pend' = <<>> => result' = "error"
<1>1. CASE WriteRefused(valid)
  BY <1>1 DEF WriteRefused
<1>2. CASE WriteStarts(valid)
  <2>1. PICK o \in Seq(Seq(Whole)) : o = Opening
    <3>1. <<Header>> \in Seq(Whole)
      BY PieceFacts
    <3>2. << <<Header>> >> \in Seq(Seq(Whole)) /\ <<>> \in Seq(Seq(Whole))
      BY <3>1
    <3> QED
      BY <3>2 DEF Opening
  <2>2. given' \in Nat
    BY <1>2 DEF WriteStarts, WriterInv
  <2>3. PICK c \in Seq(Seq(Whole)) : c = RecordChunks(given') /\ c # <<>>
    <3>1. <<Rec(given')>> \in Seq(Whole) /\ <<Sep>> \in Seq(Whole) /\ <<Sep, Rec(given')>> \in Seq(Whole)
      BY <2>2, PieceFacts
    <3>2. PICK c : c = RecordChunks(given')
      OBVIOUS
    <3>3. c \in { << <<Rec(given')>> >>, << <<Sep>>, <<Rec(given')>> >>, << <<Sep, Rec(given')>> >> }
      BY <3>2 DEF RecordChunks
    <3>4. \A x, y \in Seq(Whole) : /\ <<x>> \in Seq(Seq(Whole)) /\ <<x>> # <<>>
                                   /\ <<x, y>> \in Seq(Seq(Whole)) /\ <<x, y>> # <<>>
      OBVIOUS
    <3>5. c \in Seq(Seq(Whole)) /\ c # <<>>
      BY <3>1, <3>3, <3>4
    <3> QED
      BY <3>2, <3>5
  <2>4. o \o c # <<>>
    BY <2>1, <2>3
  <2>5. pend' = o \o c
    BY <1>2, <2>1, <2>3 DEF WriteStarts
  <2> QED
    BY <1>2, <2>4, <2>5 DEF WriteStarts
<1> QED
  BY <1>1, <1>2

\* A sequence with another first element.
LEMMA FirstReplaced ==
  ASSUME NEW S, NEW s \in Seq(S), s # <<>>, NEW r \in S
  PROVE  /\ <<r>> \o Tail(s) \in Seq(S) /\ Len(<<r>> \o Tail(s)) = Len(s)
         /\ (<<r>> \o Tail(s))[1] = r
         /\ \A i \in 2..Len(s) : (<<r>> \o Tail(s))[i] = s[i]
<1>1. Tail(s) \in Seq(S) /\ Len(Tail(s)) = Len(s) - 1 /\ \A i \in 1..(Len(s) - 1) : Tail(s)[i] = s[i + 1]
  OBVIOUS
<1>2. SUFFICES ASSUME NEW n \in Nat, n = Len(s), n > 0,
               NEW u \in Seq(S), u = Tail(s), NEW v \in Seq(S), v = <<r>>
      PROVE  /\ v \o u \in Seq(S) /\ Len(v \o u) = n /\ (v \o u)[1] = r
         /\ \A i \in 2..n : (v \o u)[i] = s[i]
  <2>1. <<r>> \in Seq(S) /\ Len(s) \in Nat /\ Len(s) > 0
    OBVIOUS
  <2> QED
    BY <1>1, <2>1
<1>3. Len(v) = 1 /\ v[1] = r /\ Len(u) = n - 1 /\ \A i \in 1..(n - 1) : u[i] = s[i + 1]
  BY <1>1, <1>2
<1>4. v \o u \in Seq(S) /\ Len(v \o u) = n /\ (v \o u)[1] = r
  BY <1>2, <1>3
<1>5. ASSUME NEW i \in 2..n PROVE (v \o u)[i] = s[i]
  <2>1. PICK j \in 1..(n - 1) : j = i - 1 /\ j + 1 = i
    BY <1>2
  <2>2. (v \o u)[i] = u[j]
    BY <1>2, <1>3, <2>1
  <2> QED
    BY <1>3, <2>1, <2>2
<1> QED
  BY <1>4, <1>5

\* The records of a source, but the first.
LEMMA SourceTaken ==
  ASSUME srcs \in Seq(SourceType), srcs # <<>>, Source.recs # <<>>
  PROVE  \E t \in Seq(SourceType) :
           /\ t = <<[Source EXCEPT !.recs = Tail(@)]>> \o Tail(srcs)
           /\ Len(t) = Len(srcs) /\ t # <<>>
           /\ t[1].end = srcs[1].end /\ Len(t[1].recs) = Len(srcs[1].recs) - 1
           /\ \A i \in 2..Len(srcs) : t[i] = srcs[i]
<1>1. srcs[1] \in SourceType /\ Source = srcs[1]
  BY DEF Source
<1>2. PICK r : r = [Source EXCEPT !.recs = Tail(@)]
  OBVIOUS
<1>3. r \in SourceType /\ r.end = srcs[1].end /\ Len(r.recs) = Len(srcs[1].recs) - 1
  <2>1. PICK q \in Seq({"valid", "invalid"}) : q = Source.recs /\ q # <<>>
    BY <1>1 DEF SourceType
  <2>2. Tail(q) \in Seq({"valid", "invalid"}) /\ Len(Tail(q)) = Len(q) - 1
    BY <2>1
  <2>3. r = [recs |-> Tail(q), end |-> Source.end]
    BY <1>1, <1>2, <2>1 DEF SourceType
  <2> QED
    BY <1>1, <2>1, <2>2, <2>3 DEF SourceType
<1>4. PICK t : t = <<r>> \o Tail(srcs)
  OBVIOUS
<1>5. /\ t \in Seq(SourceType) /\ Len(t) = Len(srcs) /\ t[1] = r
      /\ \A i \in 2..Len(srcs) : t[i] = srcs[i]
  BY <1>3, <1>4, FirstReplaced
<1>6. t # <<>>
  BY <1>5
<1> QED
  BY <1>2, <1>3, <1>4, <1>5, <1>6

\* As long as the sources and the count stay, so does the position.
LEMMA PositionStays ==
  ASSUME InputInv, args' = args, srcs' = srcs, given' = given,
         ~failed' /\ place' \in {"final", "closing", "done"} => srcs = <<>>
  PROVE  InputInv'
BY DEF InputInv, At
\* The steps of the loop but ConvertRecord, over the records and the sources.
LEMMA LoopSteps ==
  ASSUME WriterInv, LoopTypes, LoopInv, CountInv, InputInv, caller = "convert",
         \/ SourceFails \/ SourceEnds \/ RecordWritten \/ RecordFails
         \/ SourcesDrained \/ ConvertReturns
  PROVE  /\ UNCHANGED writerVars /\ LoopTypes' /\ (failed' = failed \/ (Idle /\ failed'))
         /\ LoopInv' /\ CountInv' /\ InputInv'
<1>1. /\ UNCHANGED writerVars /\ caller' = caller /\ args' = args
      /\ ~SourceEnds => srcs' = srcs
      /\ failed' = failed \/ (Idle /\ failed')
  BY DEF SourceFails, SourceEnds, RecordWritten, RecordFails, SourcesDrained, ConvertReturns,
         GiveUp, InLoop, CallReturned
<1>2. LoopTypes'
  BY DEF LoopTypes, WriterInv, SourceFails, SourceEnds, RecordWritten, RecordFails,
         SourcesDrained, ConvertReturns, GiveUp
<1>3. LoopInv' /\ CountInv'
  <2>1. /\ opened' = opened /\ closed' = closed /\ err' = err /\ pend' = pend /\ format' = format
        /\ given' = given /\ taken' = taken /\ result' = result
    BY <1>1 DEF writerVars
  <2>2. CASE SourceFails \/ RecordFails
    <3>1. /\ place' = "final" /\ failed' /\ outcome' = outcome
          /\ place \in {"next", "write"} /\ Idle
      BY <2>2 DEF SourceFails, RecordFails, GiveUp, InLoop, CallReturned
    <3>2. LoopInv'
      BY <2>1, <3>1 DEF LoopInv, Idle
    <3>3. CountInv'
      BY <2>1, <3>1 DEF CountInv, Idle
    <3> QED
      BY <3>2, <3>3
  <2>3. CASE SourceEnds \/ SourcesDrained
    <3>1. /\ place = "next" /\ place' \in {"next", "final"} /\ failed' = failed /\ outcome' = outcome
          /\ Idle
      BY <2>3 DEF SourceEnds, SourcesDrained, InLoop
    <3>2. LoopInv'
      BY <2>1, <3>1 DEF LoopInv, Idle
    <3>3. CountInv'
      BY <2>1, <3>1 DEF CountInv, Idle
    <3> QED
      BY <3>2, <3>3
  <2>4. CASE RecordWritten
    <3>1. /\ place = "write" /\ place' = "next" /\ failed' = failed /\ outcome' = outcome
          /\ Idle /\ result = "nil"
      BY <2>4 DEF RecordWritten, CallReturned
    <3>2. LoopInv'
      BY <2>1, <3>1 DEF LoopInv, Idle
    <3>3. CountInv'
      BY <2>1, <3>1 DEF CountInv, Idle
    <3> QED
      BY <3>2, <3>3
  <2>5. CASE ConvertReturns
    <3>1. /\ place = "closing" /\ place' = "done" /\ failed' = failed /\ Idle
          /\ outcome' = IF failed THEN "error" ELSE result
      BY <2>5 DEF ConvertReturns
    <3>2. LoopInv'
      BY <2>1, <3>1 DEF LoopInv, Idle
    <3>3. CountInv'
      BY <2>1, <3>1 DEF CountInv, Idle
    <3> QED
      BY <3>2, <3>3
  <2> QED
    BY <2>2, <2>3, <2>4, <2>5
<1>4. CASE ~SourceEnds
  <2>1. ~failed' /\ place' \in {"final", "closing", "done"} => srcs = <<>>
    BY <1>4 DEF InputInv, SourceFails, RecordWritten, RecordFails, SourcesDrained,
                ConvertReturns, GiveUp, AllRead, LoopTypes
  <2>2. given' = given
    BY <1>1 DEF writerVars
  <2>3. InputInv'
    BY <1>1, <1>4, <2>1, <2>2, PositionStays
  <2> QED
    BY <1>1, <1>2, <1>3, <2>3
<1>5. CASE SourceEnds
  <2>1. /\ srcs # <<>> /\ srcs[1].recs = <<>> /\ srcs[1].end = "eof" /\ srcs' = Tail(srcs)
        /\ place = "next" /\ place' = place
    BY <1>5 DEF SourceEnds, AllRead, Source, InLoop
  <2>2. PICK m \in 0..Len(args) : At(m)
    BY DEF InputInv
  <2>3. /\ srcs' \in Seq(SourceType) /\ Len(srcs') = Len(srcs) - 1
        /\ \A i \in 1..(Len(srcs) - 1) : srcs'[i] = srcs[i + 1]
    BY <2>1 DEF InputInv
  <2>4. PICK k \in Nat, n \in Nat : k = Len(srcs) /\ n = Len(args) /\ k = n - m /\ k > 0
    <3>1. args \in Seq(SourceType) /\ srcs \in Seq(SourceType)
      BY DEF InputInv
    <3>2. Len(srcs) = Len(args) - m
      BY <2>2 DEF At
    <3>3. PICK k \in Nat, n \in Nat : k = Len(srcs) /\ n = Len(args)
      BY <3>1
    <3>4. k > 0
      BY <2>1, <3>1, <3>3
    <3> QED
      BY <3>2, <3>3, <3>4
  <2>5. m + 1 \in 0..n /\ k - 1 = n - (m + 1)
    BY <2>4
  <2>6. \A i \in 1..(m + 1) : args[i].end = "eof"
    BY <2>1, <2>2 DEF At
  <2>7. \A i \in 1..(k - 1) : srcs'[i] = args[m + 1 + i]
    <3> TAKE i \in 1..(k - 1)
    <3>1. i + 1 \in 2..k /\ m + (i + 1) = m + 1 + i
      BY <2>4
    <3> QED
      BY <2>2, <2>3, <2>4, <3>1 DEF At
  <2>8. given = InFirst(args)[m + 1]
    <3>1. Len(srcs[1].recs) = 0
      BY <2>1
    <3> QED
      BY <2>1, <2>2, <3>1, <2>4 DEF At, WriterInv
  <2>9. srcs' # <<>> => /\ srcs'[1].end = args[m + 2].end
                        /\ given + Len(srcs'[1].recs) = InFirst(args)[m + 2]
    <3>1. SUFFICES ASSUME srcs' # <<>>
                   PROVE  /\ srcs'[1].end = args[m + 2].end
                          /\ given + Len(srcs'[1].recs) = InFirst(args)[m + 2]
      OBVIOUS
    <3>2. k > 1
      BY <2>3, <2>4, <3>1
    <3>3. srcs'[1] = args[m + 2] /\ m + 2 \in 1..n /\ (m + 2) - 1 = m + 1
      BY <2>4, <2>7, <3>2
    <3>4. args \in Seq(SourceType)
      BY DEF InputInv
    <3>5. InFirst(args)[m + 2] = InFirst(args)[m + 1] + Len(args[m + 2].recs)
      BY <2>4, <3>3, <3>4, InFirstSteps
    <3> QED
      BY <2>8, <3>3, <3>5
  <2>10. given' = given /\ args' = args
    BY <1>1 DEF writerVars
  <2>11. PICK q : q = m + 1 /\ q \in 0..n /\ q + 1 = m + 2
    BY <2>5
  <2>12. At(q)'
    BY <2>3, <2>4, <2>5, <2>6, <2>7, <2>8, <2>9, <2>10, <2>11 DEF At
  <2>13. InputInv'
    BY <2>1, <2>3, <2>4, <2>10, <2>11, <2>12 DEF InputInv
  <2> QED
    BY <1>1, <1>2, <1>3, <2>13
<1> QED
  BY <1>4, <1>5

\* ConvertRecord, over the records and the sources.
LEMMA ConvertRecordSteps ==
  ASSUME WriterInv, LoopTypes, LoopInv, CountInv, InputInv, ConvertRecord
  PROVE  /\ \E valid \in BOOLEAN : WriteStarts(valid) \/ WriteRefused(valid)
         /\ LoopTypes' /\ failed' = failed /\ ~failed /\ result # "error" /\ ~err
         /\ LoopInv' /\ CountInv' /\ InputInv'
<1>1. /\ caller = "convert" /\ place = "next" /\ Idle /\ srcs # <<>> /\ Source.recs # <<>>
      /\ place' = "write" /\ srcs' = <<[Source EXCEPT !.recs = Tail(@)]>> \o Tail(srcs)
      /\ caller' = caller /\ args' = args /\ failed' = failed /\ outcome' = outcome
      /\ \E valid \in BOOLEAN : WriteStarts(valid) \/ WriteRefused(valid)
  BY DEF ConvertRecord, InLoop, AllRead
<1>2. /\ given' = given + 1 /\ taken' = taken /\ closed' = closed /\ err' = err
      /\ pend' = <<>> => result' = "error"
  BY <1>1, WriteCounts
<1>3. LoopTypes'
  BY <1>1 DEF LoopTypes
<1>4. ~failed /\ result # "error" /\ ~err /\ ~closed
  BY <1>1 DEF LoopInv
<1>5. LoopInv'
  BY <1>1, <1>2, <1>4 DEF LoopInv, Idle
<1>6. CountInv'
  <2>1. Len(taken) = given /\ given \in Nat
    BY <1>1, <1>4 DEF CountInv, WriterInv
  <2>2. taken' = [i \in 1..Len(taken') |-> i]
    BY <1>2 DEF CountInv
  <2> QED
    BY <1>1, <1>2, <2>1, <2>2 DEF CountInv, Idle
<1>7. InputInv'
  <2>1. srcs \in Seq(SourceType) /\ args \in Seq(SourceType)
    BY DEF InputInv
  <2>2. PICK m \in 0..Len(args) : At(m)
    BY DEF InputInv
  <2>3. /\ srcs' \in Seq(SourceType) /\ Len(srcs') = Len(srcs) /\ srcs' # <<>>
        /\ srcs'[1].end = srcs[1].end /\ Len(srcs'[1].recs) = Len(srcs[1].recs) - 1
        /\ \A i \in 2..Len(srcs) : srcs'[i] = srcs[i]
    BY <1>1, <2>1, SourceTaken
  <2>4. PICK c \in Nat : c = Len(srcs[1].recs)
    <3>1. srcs[1] \in SourceType
      BY <1>1, <2>1
    <3> QED
      BY <3>1 DEF SourceType
  <2>5. srcs[1].end = args[m + 1].end /\ given + c = InFirst(args)[m + 1]
    BY <1>1, <2>2, <2>4 DEF At
  <2>6. given' + Len(srcs'[1].recs) = given + c
    BY <1>2, <2>3, <2>4 DEF WriterInv
  <2>7. At(m)'
    BY <1>1, <2>2, <2>3, <2>5, <2>6 DEF At
  <2> QED
    BY <1>1, <2>1, <2>2, <2>3, <2>7 DEF InputInv
<1> QED
  BY <1>1, <1>3, <1>4, <1>5, <1>6, <1>7

\* Finalize, over the records and the sources.
LEMMA FinalizeSteps ==
  ASSUME WriterInv, LoopTypes, LoopInv, CountInv, InputInv, Finalize
  PROVE  /\ CloseStarts \/ CloseReturns
         /\ LoopTypes' /\ failed' = failed /\ (result = "error" => failed)
         /\ LoopInv' /\ CountInv' /\ InputInv'
<1>1. /\ caller = "convert" /\ place = "final" /\ place' = "closing" /\ (CloseStarts \/ CloseReturns)
      /\ caller' = caller /\ args' = args /\ srcs' = srcs /\ failed' = failed /\ outcome' = outcome
  BY DEF Finalize
<1>2. /\ given' = given /\ taken' = taken /\ err' = err /\ format' = format
      /\ closed' => closed \/ ~err
      /\ ~err /\ format \in Closable => closed'
      /\ (pend' = <<>>) \/ closed'
  BY <1>1, FormatClasses DEF CloseStarts, CloseReturns, Idle
<1>3. LoopTypes'
  BY <1>1 DEF LoopTypes
<1>4. result = "error" => failed
  BY <1>1 DEF LoopInv
<1>5. LoopInv'
  BY <1>1, <1>2, <1>4 DEF LoopInv, Idle, LoopTypes
<1>6. CountInv'
  BY <1>1, <1>2 DEF CountInv
<1>7. InputInv'
  BY <1>1, <1>2, PositionStays DEF InputInv
<1> QED
  BY <1>1, <1>3, <1>4, <1>5, <1>6, <1>7

\* The running call, over the records and the sources.
LEMMA WriterRunsSteps ==
  ASSUME WriterInv, StreamInv, LoopTypes, LoopInv, CountInv, InputInv, WriterRuns
  PROVE  LoopInv' /\ CountInv' /\ InputInv'
<1>1. /\ ~Idle /\ (Emit \/ EmitFails) /\ caller' = caller /\ args' = args /\ srcs' = srcs
      /\ place' = place /\ failed' = failed /\ outcome' = outcome
  BY DEF WriterRuns, Running, loopVars, Emit, EmitFails
<1>2. place \in {"write", "closing"} /\ outcome # "nil"
  BY <1>1 DEF LoopInv, LoopTypes
<1>3. /\ given' = given /\ closed' = closed /\ format' = format
      /\ \/ pend' = <<>> /\ result' = "error" /\ taken' = taken
         \/ /\ pend' = <<>> /\ result' = "nil" /\ err' = err
            /\ taken' = IF closed THEN taken ELSE Append(taken, given)
         \/ pend' # <<>> /\ result' = result /\ taken' = taken /\ err' = err
  BY <1>1 DEF Emit, EmitFails
<1>4. ~err
  BY <1>1 DEF StreamInv, Spoilt
<1>5. LoopInv'
  BY <1>1, <1>2, <1>3, <1>4 DEF LoopInv, Idle
<1>6. CountInv'
  <2>1. CASE taken' = taken
    <3>1. taken' = [i \in 1..Len(taken') |-> i] /\ given' - 1 <= Len(taken')
      BY <1>3, <2>1 DEF CountInv
    <3>2. ~(place = "write" /\ pend' = <<>> /\ result' = "nil")
      <4>1. SUFFICES ASSUME place = "write", pend' = <<>>, result' = "nil" PROVE FALSE
        OBVIOUS
      <4>2. ~closed /\ taken' = Append(taken, given)
        BY <1>3, <4>1 DEF LoopInv
      <4>3. taken \in Seq(Numbers) /\ given \in Numbers
        BY <1>1, <4>2 DEF WriterInv, Numbers
      <4> QED
        BY <2>1, <4>2, <4>3
    <3> QED
      BY <1>1, <1>3, <2>1, <3>1, <3>2 DEF CountInv, Idle
  <2>2. CASE /\ ~closed /\ pend' = <<>> /\ taken' = Append(taken, given)
    <3>1. PICK n \in Nat : n = Len(taken)
      BY DEF WriterInv
    <3>2. given = n + 1 /\ given \in Int
      <4>1. n < given /\ given - 1 <= n /\ given \in Nat
        BY <1>1, <2>2, <3>1, WriterAssumption DEF WriterInv, CountInv
      <4> QED
        BY <4>1
    <3>3. taken = [i \in 1..n |-> i]
      BY <3>1 DEF CountInv
    <3>4. taken' = [i \in 1..(n + 1) |-> i]
      BY <2>2, <3>2, <3>3
    <3>5. Len(taken') = n + 1
      BY <3>4
    <3>6. taken' = [i \in 1..Len(taken') |-> i]
      BY <3>4, <3>5
    <3>7. PICK k \in Nat : k = n + 1 /\ k = Len(taken') /\ k = given'
      BY <1>3, <3>2, <3>5
    <3>8. given' - 1 <= Len(taken') /\ Len(taken') = given'
      <4>1. k - 1 <= k
        OBVIOUS
      <4> QED
        BY <3>7, <4>1, Zenon
    <3> QED
      BY <3>6, <3>8 DEF CountInv
  <2> QED
    BY <1>3, <2>1, <2>2
<1>7. InputInv'
  BY <1>1, <1>2, <1>3, PositionStays DEF InputInv
<1> QED
  BY <1>5, <1>6, <1>7

-----------------------------------------------------------------------------
\* The invariant holds.

\* It holds to begin with.
LEMMA InvInit == TranscodeInit => Inv
<1> SUFFICES ASSUME TranscodeInit PROVE Inv
  OBVIOUS
<1>1. WriterInv
  <2>1. taken \in Seq(Numbers) /\ Len(taken) = 0 /\ given = 0 /\ given \in 0..MaxRecords
    BY WriterAssumption DEF TranscodeInit, WriterInit
  <2>2. Len(taken) <= given
    BY <2>1
  <2>3. /\ format \in Formats /\ {opened, closed, wrote, err} \subseteq BOOLEAN
        /\ pend = <<>> /\ result = "none" /\ ~closed /\ ~err
    BY DEF TranscodeInit, WriterInit
  <2> QED
    BY <2>1, <2>2, <2>3 DEF WriterInv, Idle
<1>2. LoopTypes
  BY DEF TranscodeInit, LoopTypes
<1>3. StreamInv
  BY DEF TranscodeInit, WriterInit, StreamInv, Idle, Spoilt, Settled
<1>4. ASSUME caller = "convert" PROVE LoopInv /\ CountInv /\ InputInv
  <2>1. LoopInv
    BY DEF TranscodeInit, WriterInit, LoopInv, Idle
  <2>2. CountInv
    BY DEF TranscodeInit, WriterInit, CountInv
  <2>3. args \in Seq(SourceType) /\ srcs = args /\ given = 0 /\ place = "next"
    BY <1>4, TranscodeAssumption DEF TranscodeInit, WriterInit, SourceType
  <2>4. At(0)
    <3>1. InFirst(args)[0] = 0
      BY <2>3, InFirstSteps
    <3>2. ASSUME srcs # <<>> PROVE given + Len(srcs[1].recs) = InFirst(args)[1]
      <4>1. 1 \in 1..Len(args) /\ 1 - 1 = 0
        BY <2>3, <3>2
      <4>2. InFirst(args)[1] = InFirst(args)[0] + Len(args[1].recs)
        BY <2>3, <4>1, InFirstSteps
      <4> QED
        BY <2>3, <3>1, <4>2
    <3> QED
      BY <2>3, <3>1, <3>2 DEF At
  <2>5. InputInv
    BY <2>3, <2>4 DEF InputInv
  <2> QED
    BY <2>1, <2>2, <2>5
<1> QED
  BY <1>1, <1>2, <1>3, <1>4 DEF Inv

\* Every step keeps it.
LEMMA InvNext == Inv /\ [TranscodeNext]_allVars => Inv'
<1> SUFFICES ASSUME Inv, [TranscodeNext]_allVars PROVE Inv'
  OBVIOUS
<1>1. /\ WriterInv /\ LoopTypes /\ (Trusted => StreamInv)
      /\ caller = "convert" => LoopInv /\ CountInv /\ InputInv
      /\ caller = "convert" => Trusted
  BY DEF Inv, Trusted
<1>2. CASE SourceFails \/ SourceEnds \/ RecordWritten \/ RecordFails \/ SourcesDrained \/ ConvertReturns
  <2>1. caller = "convert" /\ caller' = caller
    BY <1>2 DEF SourceFails, SourceEnds, RecordWritten, RecordFails, SourcesDrained, ConvertReturns,
                GiveUp, InLoop, CallReturned
  <2>2. /\ UNCHANGED writerVars /\ LoopTypes' /\ (failed' = failed \/ (Idle /\ failed'))
        /\ LoopInv' /\ CountInv' /\ InputInv'
    BY <1>1, <1>2, <2>1, LoopSteps
  <2>3. StreamInv'
    BY <1>1, <2>1, <2>2, LoopStream
  <2>4. WriterInv'
    BY <1>1, <2>2 DEF WriterInv, writerVars, Idle
  <2> QED
    BY <2>2, <2>3, <2>4 DEF Inv
<1>3. CASE ConvertRecord
  <2>1. caller = "convert"
    BY <1>3 DEF ConvertRecord, InLoop
  <2>2. /\ \E valid \in BOOLEAN : WriteStarts(valid) \/ WriteRefused(valid)
        /\ LoopTypes' /\ failed' = failed /\ ~failed /\ result # "error" /\ ~err
        /\ LoopInv' /\ CountInv' /\ InputInv'
    BY <1>1, <1>3, <2>1, ConvertRecordSteps
  <2>3. PICK valid \in BOOLEAN : WriteStarts(valid) \/ WriteRefused(valid)
    BY <2>2
  <2>4. ~Spoilt
    BY <2>2 DEF Spoilt
  <2>5. StreamInv'
    BY <1>1, <2>1, <2>2, <2>3, <2>4, WriteStartsStream, WriteRefusedStream
  <2>6. WriterInv'
    BY <1>1, <2>3, WriteStartsTypes, WriteRefusedTypes
  <2> QED
    BY <2>2, <2>5, <2>6 DEF Inv
<1>4. CASE Finalize
  <2>1. caller = "convert"
    BY <1>4 DEF Finalize
  <2>2. /\ CloseStarts \/ CloseReturns
        /\ LoopTypes' /\ failed' = failed /\ (result = "error" => failed)
        /\ LoopInv' /\ CountInv' /\ InputInv'
    BY <1>1, <1>4, <2>1, FinalizeSteps
  <2>3. StreamInv'
    BY <1>1, <2>1, <2>2, CloseStartsStream, CloseReturnsStream
  <2>4. WriterInv'
    BY <1>1, <2>2, CloseStartsTypes, CloseReturnsTypes
  <2> QED
    BY <2>2, <2>3, <2>4 DEF Inv
<1>5. CASE WriterRuns
  <2>1. (Emit \/ EmitFails) /\ UNCHANGED loopVars
    BY <1>5 DEF WriterRuns, Running
  <2>2. WriterInv' /\ format' = format
    BY <1>1, <2>1, EmitTypes, EmitFailsTypes DEF Emit, EmitFails
  <2>3. LoopTypes' /\ caller' = caller /\ failed' = failed
    BY <1>1, <2>1 DEF LoopTypes, loopVars
  <2>4. Trusted => StreamInv'
    BY <1>1, <2>1, <2>3, EmitStream, EmitFailsStream
  <2>5. Trusted' => Trusted
    BY <2>2, <2>3 DEF Trusted, Sticky
  <2>6. caller = "convert" => LoopInv' /\ CountInv' /\ InputInv'
    BY <1>1, <1>5, WriterRunsSteps
  <2> QED
    BY <2>2, <2>3, <2>4, <2>5, <2>6 DEF Inv
<1>6. CASE ClientWrites
  <2>1. PICK valid \in BOOLEAN : WriteStarts(valid) \/ WriteRefused(valid)
    BY <1>6 DEF ClientWrites
  <2>2. caller = "client" /\ UNCHANGED loopVars
    BY <1>6 DEF ClientWrites
  <2>3. WriterInv' /\ format' = format
    BY <1>1, <2>1, WriteStartsTypes, WriteRefusedTypes DEF WriteStarts, WriteRefused
  <2>4. LoopTypes' /\ caller' = caller /\ failed' = failed
    BY <1>1, <2>2 DEF LoopTypes, loopVars
  <2>5. Trusted' => Sticky(format) /\ Trusted
    BY <2>2, <2>3, <2>4 DEF Trusted, Sticky
  <2>6. ASSUME Trusted' PROVE StreamInv'
    <3>1. CASE WriteRefused(valid)
      BY <1>1, <2>4, <2>5, <2>6, <3>1, WriteRefusedStream
    <3>2. CASE WriteStarts(valid)
      <4>1. ~Spoilt
        BY <2>5, <2>6, <3>2 DEF Spoilt, WriteStarts, Refused
      <4> QED
        BY <1>1, <2>4, <2>5, <2>6, <3>2, <4>1, WriteStartsStream
    <3> QED
      BY <2>1, <3>1, <3>2
  <2> QED
    BY <2>2, <2>3, <2>4, <2>6 DEF Inv
<1>7. CASE ClientCloses
  <2>1. caller = "client" /\ UNCHANGED loopVars /\ (CloseStarts \/ CloseReturns)
    BY <1>7 DEF ClientCloses
  <2>2. WriterInv' /\ format' = format
    BY <1>1, <2>1, CloseStartsTypes, CloseReturnsTypes DEF CloseStarts, CloseReturns
  <2>3. LoopTypes' /\ caller' = caller /\ failed' = failed
    BY <1>1, <2>1 DEF LoopTypes, loopVars
  <2>4. Trusted' => Sticky(format) /\ Trusted
    BY <2>1, <2>2, <2>3 DEF Trusted, Sticky
  <2>5. ASSUME Trusted' PROVE StreamInv'
    BY <1>1, <2>1, <2>3, <2>4, <2>5, CloseStartsStream, CloseReturnsStream
  <2> QED
    BY <2>1, <2>2, <2>3, <2>5 DEF Inv
<1>8. CASE UNCHANGED allVars
  <2>1. UNCHANGED writerVars /\ UNCHANGED loopVars
    BY <1>8 DEF allVars
  <2>2. WriterInv' /\ LoopTypes'
    BY <1>1, <2>1 DEF WriterInv, LoopTypes, writerVars, loopVars, Idle
  <2>3. caller' = caller /\ failed' = failed /\ format' = format
    BY <2>1 DEF loopVars, writerVars
  <2>4. Trusted' => StreamInv'
    BY <1>1, <2>1, <2>3, LoopStream DEF Trusted, Sticky
  <2>5. caller = "convert" => LoopInv' /\ CountInv' /\ InputInv'
    BY <1>1, <2>1 DEF LoopInv, CountInv, InputInv, At, writerVars, loopVars, Idle
  <2> QED
    BY <2>2, <2>3, <2>4, <2>5 DEF Inv
<1> QED
  BY <1>2, <1>3, <1>4, <1>5, <1>6, <1>7, <1>8 DEF TranscodeNext, Convert
\* So it always holds.
LEMMA InvAlways == TranscodeSpec => []Inv
<1>1. TranscodeInit => Inv
  BY InvInit
<1>2. Inv /\ [TranscodeNext]_allVars => Inv'
  BY InvNext
<1> QED
  BY <1>1, <1>2, PTL DEF TranscodeSpec

-----------------------------------------------------------------------------
\* Properties.

\* Between the calls and in the middle of one, a stream is at a stage of a
\* document, with at most a torn piece behind it.
LEMMA AlwaysSomeStage ==
  ASSUME Inv, Trusted
  PROVE  BrokenOff
<1>1. WriterInv /\ StreamInv
  BY DEF Inv
<1>2. CASE Idle /\ Spoilt
  BY <1>1, <1>2 DEF StreamInv
<1>3. CASE Idle /\ ~Spoilt
  BY <1>1, <1>3, SettledShape DEF StreamInv
<1>4. CASE ~Idle
  <2>1. WriteRuns \/ CloseRuns
    BY <1>1, <1>4 DEF StreamInv
  <2>2. taken \in Seq(Numbers)
    BY <1>1 DEF WriterInv
  <2>3. stream \in Seq(Whole) /\ 0 \in 0..Len(Head(pend))
    <3>1. Begun(taken) \in Seq(Whole) /\ Before(taken) \in Seq(Whole) /\ <<>> \in Seq(Whole)
      BY <2>2, StageTypes
    <3>2. stream \in Seq(Whole)
      BY <2>1, <3>1 DEF WriteRuns, CloseRuns
    <3>3. \E a, b : Head(pend) \in {<<a>>, <<a, b>>}
      BY <2>1, Lists DEF WriteRuns, CloseRuns
    <3> QED
      BY <3>2, <3>3, Lists
  <2>4. stream \o SubSeq(Head(pend), 1, 0) = stream
    <3>1. SubSeq(Head(pend), 1, 0) = <<>>
      BY SubSeqEmpty
    <3> QED
      BY <2>3, <3>1
  <2>5. Shape(stream)
    BY <1>1, <1>4, <2>1, <2>3, <2>4, PartOfChunk
  <2> QED
    BY <2>3, <2>5 DEF BrokenOff
<1> QED
  BY <1>2, <1>3, <1>4

\* The records of a stage are the records taken, and perhaps one more.
LEMMA RecordsOfShape ==
  ASSUME WriterInv, NEW w \in Seq(Whole), Shape(w)
  PROVE  RecordsIn(w) = taken \/ \E g \in Numbers : w = Begun(Append(taken, g)) /\ RecordsIn(w) = Append(taken, g)
<1>1. taken \in Seq(Numbers)
  BY DEF WriterInv
<1>2. CASE w = <<>> /\ taken = <<>>
  BY <1>2, RecordsOfNone
<1>3. CASE w \in {Begun(taken), Before(taken), Finished(taken)}
  BY <1>1, <1>3, RecordsOfDocument
<1>4. CASE \E g \in Numbers : w = Begun(Append(taken, g))
  <2>1. PICK g \in Numbers : w = Begun(Append(taken, g))
    BY <1>4
  <2>2. Append(taken, g) \in Seq(Numbers)
    BY <1>1
  <2> QED
    BY <2>1, <2>2, RecordsOfDocument
<1> QED
  BY <1>2, <1>3, <1>4 DEF Shape

\* The records on the stream are those taken, or one more where a call failed.
WrittenInv ==
  Trusted => \/ Written = taken
             \/ Spoilt /\ \E g \in Numbers : Written = Append(taken, g)

\* Unless a write has failed, the records on the stream are those taken.
LEMMA WrittenAlways ==
  ASSUME Inv
  PROVE  WrittenInv
<1>1. SUFFICES ASSUME Trusted
               PROVE  \/ Written = taken
                      \/ Spoilt /\ \E g \in Numbers : Written = Append(taken, g)
  BY DEF WrittenInv
<1>2. WriterInv /\ StreamInv /\ taken \in Seq(Numbers)
  BY <1>1 DEF Inv, WriterInv
<1>3. CASE Spoilt
  <2>1. PICK w \in Seq(Whole) : Shape(w) /\ stream \in {w, Append(w, Torn)}
    BY <1>1, AlwaysSomeStage DEF BrokenOff
  <2>2. w \in Seq(Pieces)
    BY <2>1 DEF Pieces
  <2>3. RecordsIn(stream) = RecordsIn(w)
    BY <2>1, <2>2, RecordsOfPieces
  <2>4. RecordsIn(w) = taken \/ \E g \in Numbers : RecordsIn(w) = Append(taken, g)
    BY <1>2, <2>1, RecordsOfShape
  <2> QED
    BY <1>3, <2>3, <2>4 DEF Written
<1>4. CASE ~Spoilt
  <2>1. \/ stream = <<>> /\ taken = <<>>
        \/ stream \in {Begun(taken), Before(taken), Finished(taken)}
    BY <1>2, <1>4 DEF StreamInv, Settled, WriteRuns, CloseRuns
  <2>2. RecordsIn(stream) = taken
    BY <1>2, <2>1, RecordsOfDocument, RecordsOfNone
  <2> QED
    BY <2>2 DEF Written
<1> QED
  BY <1>3, <1>4

\* The code behind a nil answer: see WrittenIsTaken.
LEMMA WrittenIsTakenHolds ==
  ASSUME Inv
  PROVE  WrittenIsTaken
<1>1. SUFFICES ASSUME Trusted PROVE WrittenIsTaken
  BY DEF WrittenIsTaken
<1>2. \/ Written = taken
      \/ Spoilt /\ \E g \in Numbers : Written = Append(taken, g)
  BY <1>1, WrittenAlways DEF WrittenInv
<1>3. CASE Written = taken
  BY <1>3 DEF WrittenIsTaken
<1>4. CASE Spoilt /\ \E g \in Numbers : Written = Append(taken, g)
  <2>1. PICK g \in Numbers : Written = Append(taken, g)
    BY <1>4
  <2>2. taken \in Seq(Numbers)
    BY DEF Inv, WriterInv
  <2>3. Written # <<>> /\ Front(Written) = taken
    BY <2>1, <2>2, EndOfAppend
  <2>4. err \/ failed \/ result = "error"
    BY <1>4 DEF Spoilt
  <2> QED
    BY <2>3, <2>4 DEF WrittenIsTaken
<1> QED
  BY <1>2, <1>3, <1>4

\* What a stage is a beginning of: the document of its records or, with a separator
\* or the header of Turtle at its end, of these and one more.
LEMMA ShapeIsPrefix ==
  ASSUME WriterInv, NEW w \in Seq(Whole), Shape(w)
  PROVE  \E following \in {<<>>, <<given>>} : IsPrefix(w, Document(RecordsIn(w) \o following))
<1>1. taken \in Seq(Numbers) /\ Numbers \subseteq Nat /\ given \in Nat
  BY DEF WriterInv, Numbers
<1>2. {Header, Sep, Trailer} \subseteq Whole /\ \A n \in Nat : Rec(n) \in Whole
  BY PieceFacts
<1>3. \A s \in Seq(Numbers) : s \o <<>> = s
  OBVIOUS
<1>4. ASSUME NEW s \in Seq(Numbers), format # "turtle" \/ s # <<>>
      PROVE  /\ IsPrefix(Begun(s), Document(s)) /\ IsPrefix(Finished(s), Document(s))
             /\ IsPrefix(<<>>, Document(s))
  <2>1. Document(s) = Finished(s) /\ Begun(s) \in Seq(Whole) /\ Finished(s) \in Seq(Whole)
    BY <1>4, DocumentIs, StageTypes
  <2>2. Finished(s) \in {Begun(s), Append(Begun(s), Trailer)}
    BY DEF Finished
  <2> QED
    BY <1>2, <2>1, <2>2, PrefixOfMore
<1>5. CASE w = <<>> /\ taken = <<>>
  <2>1. RecordsIn(w) \o <<>> = <<>>
    BY <1>3, <1>5, RecordsOfNone
  <2>2. IsPrefix(w, Document(taken))
    <3>1. CASE format = "turtle"
      <4>1. Document(taken) = <<>>
        BY <1>1, <1>5, <3>1, DocumentIs DEF Wrapped
      <4> QED
        BY <1>5, <4>1 DEF IsPrefix
    <3>2. CASE format # "turtle"
      BY <1>1, <1>4, <1>5, <3>2
    <3> QED
      BY <3>1, <3>2
  <2> QED
    BY <1>5, <2>1, <2>2
<1>6. CASE format = "turtle" /\ taken = <<>> /\ w \in {Begun(taken), Before(taken), Finished(taken)}
  <2>1. w = <<Header>>
    BY <1>6, StartOfStream DEF Before, Finished, Headed, Wrapped
  <2>2. RecordsIn(w) \o <<given>> = <<given>>
    <3>1. RecordsIn(w) = <<>>
      BY <1>1, <1>6, RecordsOfDocument
    <3> QED
      BY <1>1, <3>1
  <2>3. Document(<<given>>) = <<Header>> \o Body(<<given>>)
    <3>1. <<given>> # <<>> /\ format \notin Wrapped
      BY <1>6, Lists DEF Wrapped
    <3>2. Body(<<given>>) = <<Rec(given)>>
      BY <1>6, FormatClasses, <1>1 DEF Body
    <3> QED
      BY <1>2, <1>6, <3>1, <3>2, <1>1 DEF Document
  <2>4. Body(<<given>>) = <<Rec(given)>>
    BY <1>6, FormatClasses, <1>1 DEF Body
  <2>5. IsPrefix(<<Header>>, <<Header>> \o <<Rec(given)>>)
    <3>1. PICK h \in Seq(Whole) : h = <<Header>>
      <4>1. <<Header>> \in Seq(Whole)
        BY <1>2
      <4> QED
        BY <4>1
    <3>2. h \o <<Rec(given)>> = Append(h, Rec(given)) /\ Rec(given) \in Whole
      BY <1>1, <1>2, <3>1
    <3>3. IsPrefix(h, h \o <<Rec(given)>>)
      BY <3>1, <3>2, PrefixOfMore
    <3> QED
      BY <3>1, <3>3
  <2> QED
    BY <2>1, <2>2, <2>3, <2>4, <2>5
<1>7. CASE /\ format # "turtle" \/ taken # <<>>
           /\ w \in {Begun(taken), Finished(taken)}
  <2>1. RecordsIn(w) \o <<>> = taken
    BY <1>1, <1>3, <1>7, RecordsOfDocument
  <2> QED
    BY <1>1, <1>4, <1>7, <2>1
<1>8. CASE w = Before(taken) /\ w # Begun(taken)
  <2>1. taken # <<>> /\ RecordsIn(w) = taken
    BY <1>1, <1>8, RecordsOfDocument DEF Before
  <2>2. given \in Numbers
    <3>1. Len(taken) > 0 /\ Len(taken) <= given /\ given \in 0..MaxRecords
      BY <1>1, <2>1 DEF WriterInv
    <3> QED
      BY <1>1, <3>1 DEF Numbers
  <2>3. PICK s \in Seq(Numbers) : s = Append(taken, given) /\ s # <<>>
    BY <1>1, <2>2, EndOfAppend
  <2>4. Begun(s) = Append(w, Rec(given))
    BY <1>1, <1>8, <2>2, <2>3, Stages
  <2>5. Document(s) \in {Begun(s), Append(Begun(s), Trailer)}
    BY <2>3, DocumentIs DEF Finished
  <2>6. IsPrefix(w, Document(s))
    BY <1>1, <1>2, <2>4, <2>5, PrefixOfMore
  <2>7. RecordsIn(w) \o <<given>> = s
    BY <1>1, <2>1, <2>2, <2>3
  <2> QED
    BY <2>6, <2>7
<1>9. CASE \E g \in Numbers : w = Begun(Append(taken, g)) /\ RecordsIn(w) = Append(taken, g)
  <2>1. PICK g \in Numbers : w = Begun(Append(taken, g)) /\ RecordsIn(w) = Append(taken, g)
    BY <1>9
  <2>2. PICK s \in Seq(Numbers) : s = Append(taken, g) /\ s # <<>>
    BY <1>1, <2>1
  <2>3. IsPrefix(w, Document(s)) /\ RecordsIn(w) \o <<>> = s
    BY <1>3, <1>4, <2>1, <2>2
  <2> QED
    BY <2>3
<1>10. \A g \in Numbers : w = Begun(Append(taken, g)) => RecordsIn(w) = Append(taken, g)
  <2> TAKE g \in Numbers
  <2>1. Append(taken, g) \in Seq(Numbers)
    BY <1>1
  <2> QED
    BY <2>1, RecordsOfDocument
<1> QED
  BY <1>5, <1>6, <1>7, <1>8, <1>9, <1>10 DEF Shape

\* A torn piece stands at the end of the stream, and without it the stream is the
\* beginning of a document.
LEMMA StreamIsPrefixHolds ==
  ASSUME Inv
  PROVE  StreamIsPrefix
<1>1. SUFFICES ASSUME Trusted PROVE StreamIsPrefix
  BY DEF StreamIsPrefix
<1>2. PICK w \in Seq(Whole) : Shape(w) /\ stream \in {w, Append(w, Torn)}
  BY <1>1, AlwaysSomeStage DEF BrokenOff
<1>3. WriterInv /\ w \in Seq(Pieces) /\ Torn \in Pieces /\ Torn \notin Whole
  BY <1>2, PieceFacts DEF Inv, Pieces
<1>4. PICK whole : whole = IF stream # <<>> /\ Last(stream) = Torn THEN Front(stream) ELSE stream
  OBVIOUS
<1>5. whole = w
  <2>1. CASE stream = w
    <3>1. ASSUME stream # <<>> PROVE Last(stream) # Torn
      <4>1. Len(w) \in 1..Len(w)
        BY <2>1, <3>1
      <4>2. w[Len(w)] \in Whole
        BY <4>1
      <4> QED
        BY <1>3, <2>1, <4>2 DEF Last
    <3> QED
      BY <1>4, <2>1, <3>1
  <2>2. CASE stream = Append(w, Torn)
    BY <1>3, <1>4, <2>2, EndOfAppend
  <2> QED
    BY <1>2, <2>1, <2>2
<1>6. \A i \in DOMAIN stream : stream[i] = Torn => i = Len(stream)
  BY <1>2, <1>3
<1>7. Written = RecordsIn(w)
  BY <1>2, <1>3, RecordsOfPieces DEF Written
<1>8. \E following \in {<<>>, <<given>>} : IsPrefix(whole, Document(Written \o following))
  BY <1>2, <1>3, <1>5, <1>7, ShapeIsPrefix
<1> QED
  BY <1>4, <1>6, <1>8 DEF StreamIsPrefix

\* A stream that is not broken off and has been closed, or whose format has no end,
\* holds the whole document.
LEMMA SettledIsDocument ==
  ASSUME WriterInv, Settled, format \in Closable => closed
  PROVE  stream = Document(taken)
<1>1. taken \in Seq(Numbers)
  BY DEF WriterInv
<1>2. CASE closed
  <2>1. format # "turtle"
    BY <1>2, FormatClasses DEF WriterInv
  <2> QED
    BY <1>1, <1>2, <2>1, DocumentIs DEF Settled
<1>3. CASE ~closed
  <2>1. format \notin Wrapped
    BY <1>3, FormatClasses
  <2>2. CASE taken = <<>>
    BY <1>1, <1>3, <2>1, <2>2, DocumentIs DEF Settled
  <2>3. CASE taken # <<>>
    BY <1>1, <1>3, <2>1, <2>3, DocumentIs DEF Settled, Finished
  <2> QED
    BY <2>2, <2>3
<1> QED
  BY <1>2, <1>3

\* So a writer that has been closed without error has written the document.
LEMMA ClosedMeansCompleteHolds ==
  ASSUME Inv
  PROVE  ClosedMeansComplete
<1>1. SUFFICES ASSUME closed, ~err, Idle, format \in Closable PROVE stream = Document(taken)
  BY DEF ClosedMeansComplete
<1>2. Sticky(format)
  BY <1>1, FormatClasses
<1>3. WriterInv /\ StreamInv /\ ~Spoilt
  BY <1>1, <1>2 DEF Inv, Trusted, Spoilt
<1> QED
  BY <1>1, <1>3, SettledIsDocument DEF StreamInv

\* And runConvert, when it returns nil, has written all its input.
LEMMA ConvertIsFaithfulHolds ==
  ASSUME Inv
  PROVE  ConvertIsFaithful
<1>1. ASSUME caller = "convert" PROVE taken \in {[i \in 1..n |-> i] : n \in {given - 1, given}}
  <2>1. PICK n \in Nat : n = Len(taken) /\ taken = [i \in 1..n |-> i]
    <3>1. Len(taken) \in Nat
      BY DEF Inv, WriterInv
    <3>2. taken = [i \in 1..Len(taken) |-> i]
      BY <1>1 DEF Inv, CountInv
    <3> QED
      BY <3>1, <3>2
  <2>2. given - 1 <= n /\ n <= given /\ given \in Nat
    BY <1>1, <2>1 DEF Inv, WriterInv, CountInv
  <2>3. n = given - 1 \/ n = given
    BY <2>2
  <2> QED
    BY <2>1, <2>3
<1>2. ASSUME outcome = "nil"
      PROVE  /\ \A i \in DOMAIN args : args[i].end = "eof"
             /\ taken = [i \in 1..Supplied |-> i]
             /\ stream = Document(taken)
  <2>1. caller = "convert" /\ WriterInv /\ StreamInv /\ LoopInv /\ CountInv /\ InputInv
    BY <1>2 DEF Inv, LoopTypes, Trusted
  <2>2. place = "done" /\ ~failed /\ result = "nil" /\ Idle /\ srcs = <<>>
    BY <1>2, <2>1 DEF LoopInv, InputInv
  <2>3. ~err /\ (format \in Closable => closed) /\ Len(taken) = given
    BY <2>1, <2>2 DEF LoopInv, CountInv
  <2>4. PICK m \in 0..Len(args) : At(m)
    BY <2>1 DEF InputInv
  <2>5. m = Len(args) /\ given = InFirst(args)[m] /\ \A i \in 1..m : args[i].end = "eof"
    <3>1. PICK n \in Nat : n = Len(args)
      BY <2>1 DEF InputInv
    <3>2. Len(srcs) = 0
      BY <2>2
    <3> QED
      BY <2>2, <2>4, <3>1, <3>2 DEF At
  <2>6. \A i \in DOMAIN args : args[i].end = "eof"
    BY <2>1, <2>5 DEF InputInv
  <2>7. taken = [i \in 1..Supplied |-> i]
    BY <2>1, <2>3, <2>5, SuppliedIs DEF CountInv
  <2>8. stream = Document(taken)
    <3>1. ~Spoilt
      BY <2>2, <2>3 DEF Spoilt
    <3> QED
      BY <2>1, <2>2, <2>3, <3>1, SettledIsDocument DEF StreamInv
  <2> QED
    BY <2>6, <2>7, <2>8
<1> QED
  BY <1>1, <1>2 DEF ConvertIsFaithful

\* Whatever fails and wherever, what is on the stream is the beginning of a
\* well-formed document, with a torn piece only at the very end: writeAll and the
\* sticky errors of the writers.
THEOREM StreamBegins == TranscodeSpec => []StreamIsPrefix
<1>1. Inv => StreamIsPrefix
  BY StreamIsPrefixHolds
<1> QED
  BY <1>1, InvAlways, PTL

\* A record is on the stream if Write returned nil for it, and only if or if its
\* own write failed: what every WriteFile reports rests on it.
THEOREM AnswersAreReliable == TranscodeSpec => []WrittenIsTaken
<1>1. Inv => WrittenIsTaken
  BY WrittenIsTakenHolds
<1> QED
  BY <1>1, InvAlways, PTL

\* After a Close that returned nil the whole document is there.
THEOREM ClosedDocuments == TranscodeSpec => []ClosedMeansComplete
<1>1. Inv => ClosedMeansComplete
  BY ClosedMeansCompleteHolds
<1> QED
  BY <1>1, InvAlways, PTL

\* runConvert loses no record, writes none twice, and reports a source it could
\* not read to its end.
THEOREM Converts == TranscodeSpec => []ConvertIsFaithful
<1>1. Inv => ConvertIsFaithful
  BY ConvertIsFaithfulHolds
<1> QED
  BY <1>1, InvAlways, PTL
-----------------------------------------------------------------------------
\* A writer implements RecordSink.

\* Close writes something.
LEMMA CloseWrites ==
  ASSUME CloseStarts
  PROVE  pend' # <<>>
<1>1. pend' = Opening \o << <<Trailer>> >> /\ Opening \in {<<>>, << <<Header>> >>}
  BY DEF CloseStarts, Opening
<1>2. PICK c \in Seq(Seq(Whole)) : c = << <<Trailer>> >>
  <2>1. <<Trailer>> \in Seq(Whole)
    BY PieceFacts
  <2>2. << <<Trailer>> >> \in Seq(Seq(Whole))
    BY <2>1
  <2> QED
    BY <2>2
<1>3. PICK o \in Seq(Seq(Whole)) : o = Opening
  <2>1. <<Header>> \in Seq(Whole)
    BY PieceFacts
  <2>2. << <<Header>> >> \in Seq(Seq(Whole)) /\ <<>> \in Seq(Seq(Whole))
    BY <2>1
  <2> QED
    BY <1>1, <2>2
<1>4. Len(c) = 1
  BY <1>2
<1>5. o \o c # <<>>
  BY <1>2, <1>3, <1>4
<1> QED
  BY <1>1, <1>2, <1>3, <1>5

\* Where a step leaves the sink, when the writer keeps its errors: as it was, or
\* with one record more, closed, or broken.
LEMMA SinkSteps ==
  ASSUME Inv, Inv', WrittenInv, WrittenInv', [TranscodeNext]_allVars, Sticky(format)
  PROVE  /\ Sticky(format')
         /\ \/ Written' = Written /\ SinkState' = SinkState
            \/ /\ SinkState = "open" /\ SinkState' = "open"
               /\ \E r \in Numbers : Written' = Append(Written, r)
            \/ SinkState = "open" /\ SinkState' = "complete" /\ Written' = Written
            \/ /\ SinkState = "open" /\ SinkState' = "broken"
               /\ Written' = Written \/ \E r \in Numbers : Written' = Append(Written, r)
<1>1. WriterInv /\ StreamInv
  BY DEF Inv, Trusted
<1>2. format' = format
  BY DEF TranscodeNext, Convert, SourceFails, SourceEnds, ConvertRecord, RecordWritten, RecordFails,
         SourcesDrained, Finalize, ConvertReturns, ClientWrites, ClientCloses, WriterRuns, Running,
         Emit, EmitFails, WriteStarts, WriteRefused, CloseStarts, CloseReturns, writerVars, allVars
<1>3. StreamInv'
  BY <1>2 DEF Inv, Trusted
<1>4. (Spoilt <=> err) /\ (Spoilt' <=> err')
  BY <1>2 DEF Spoilt
<1>5. /\ ~err => Written = taken
      /\ ~err' => Written' = taken'
      /\ Written' = taken' \/ \E g \in Numbers : Written' = Append(taken', g)
  BY <1>2, <1>4 DEF WrittenInv, Trusted
<1>6. stream' = stream => Written' = Written
  BY DEF Written
<1>7. CASE UNCHANGED writerVars
  BY <1>2, <1>6, <1>7 DEF writerVars, SinkState, Idle
<1>8. ASSUME NEW valid \in BOOLEAN, WriteRefused(valid) PROVE Written' = Written /\ SinkState' = SinkState
  BY <1>6, <1>8 DEF WriteRefused, SinkState, Idle
<1>9. ASSUME NEW valid \in BOOLEAN, WriteStarts(valid) PROVE Written' = Written /\ SinkState' = SinkState
  <2>1. ~closed
    BY <1>1, <1>9 DEF WriteStarts, Refused, WriterInv
  <2> QED
    BY <1>6, <1>9, <2>1 DEF WriteStarts, SinkState, Idle
<1>10. CASE CloseStarts
  <2>1. pend' # <<>>
    BY <1>10, CloseWrites
  <2> QED
    BY <1>2, <1>6, <1>10, <2>1 DEF CloseStarts, SinkState, Idle
<1>11. CASE CloseReturns
  <2>1. /\ Idle /\ pend' = pend /\ err' = err /\ stream' = stream
        /\ closed' <=> closed \/ (~err /\ format \in Closable)
    BY <1>11 DEF CloseReturns
  <2>2. SinkState' = SinkState \/ (SinkState = "open" /\ SinkState' = "complete")
    BY <2>1 DEF SinkState, Idle
  <2> QED
    BY <1>2, <1>6, <2>1, <2>2
<1>12. CASE Emit
  <2>1. ~Idle /\ ~err /\ ~err' /\ closed' = closed /\ given' = given /\ (WriteRuns \/ CloseRuns)
    BY <1>1, <1>4, <1>12 DEF StreamInv, Emit
  <2>2. SinkState = "open"
    BY <2>1 DEF SinkState
  <2>3. Written = taken /\ Written' = taken'
    BY <1>5, <2>1
  <2>4. CASE pend' # <<>>
    <3>1. taken' = taken
      BY <1>12, <2>4 DEF Emit
    <3>2. SinkState' = "open"
      BY <2>1, <2>4 DEF SinkState, Idle
    <3> QED
      BY <1>2, <2>2, <2>3, <3>1, <3>2
  <2>5. CASE pend' = <<>> /\ closed
    <3>1. taken' = taken
      BY <1>12, <2>5 DEF Emit
    <3>2. SinkState' = "complete"
      BY <2>1, <2>5 DEF SinkState, Idle
    <3> QED
      BY <1>2, <2>2, <2>3, <3>1, <3>2
  <2>6. CASE pend' = <<>> /\ ~closed
    <3>1. taken' = Append(taken, given) /\ given \in Numbers
      BY <1>1, <1>12, <2>1, <2>6 DEF Emit, WriterInv, Numbers
    <3>2. SinkState' = "open"
      BY <2>1, <2>6 DEF SinkState, Idle
    <3> QED
      BY <1>2, <2>2, <2>3, <3>1, <3>2
  <2> QED
    BY <2>4, <2>5, <2>6
<1>13. CASE EmitFails
  <2>1. ~Idle /\ ~err /\ err' /\ taken' = taken
    BY <1>1, <1>4, <1>13 DEF StreamInv, EmitFails
  <2>2. SinkState = "open" /\ SinkState' = "broken"
    <3>1. SinkState = "open"
      BY <2>1 DEF SinkState
    <3>2. closed' = closed /\ Idle'
      BY <1>13 DEF EmitFails, Idle
    <3>3. SinkState' = "broken"
      BY <2>1, <3>2 DEF SinkState
    <3> QED
      BY <3>1, <3>3
  <2>3. Written = taken
    BY <1>5, <2>1
  <2> QED
    BY <1>2, <1>5, <2>1, <2>2, <2>3
<1>14. \/ UNCHANGED writerVars \/ CloseStarts \/ CloseReturns \/ Emit \/ EmitFails
       \/ \E valid \in BOOLEAN : WriteStarts(valid) \/ WriteRefused(valid)
  BY DEF TranscodeNext, Convert, SourceFails, SourceEnds, ConvertRecord, RecordWritten, RecordFails,
         SourcesDrained, Finalize, ConvertReturns, ClientWrites, ClientCloses, WriterRuns, Running,
         allVars
<1> QED
  BY <1>2, <1>7, <1>8, <1>9, <1>10, <1>11, <1>12, <1>13, <1>14

\* The formats whose writers keep their first error implement RecordSink, each with
\* the records on its stream: nothing follows a Close or a failed write.
THEOREM IsRecordSink == TranscodeSpec => ImplementsSink
<1>1. TranscodeInit => Sink!Init
  <2> SUFFICES ASSUME TranscodeInit PROVE Sink!Init
    OBVIOUS
  <2>1. Written = <<>>
    BY RecordsOfNone DEF TranscodeInit, WriterInit, Written
  <2>2. SinkState = "open"
    BY DEF TranscodeInit, WriterInit, SinkState
  <2> QED
    BY <2>1, <2>2 DEF Sink!Init, ForSink
<1>2. Inv => WrittenInv
  BY WrittenAlways
<1>3. Inv /\ Inv' /\ WrittenInv /\ WrittenInv' /\ [TranscodeNext]_allVars => [Sink!Next]_Sink!sinkVars
  <2> SUFFICES ASSUME Inv, Inv', WrittenInv, WrittenInv', [TranscodeNext]_allVars
               PROVE  [Sink!Next]_Sink!sinkVars
    OBVIOUS
  <2>1. CASE Sticky(format)
    <3>1. Sticky(format') /\ Numbers = 1..MaxRecords
      BY <2>1, SinkSteps DEF Numbers
    <3>2. \/ Written' = Written /\ SinkState' = SinkState
          \/ /\ SinkState = "open" /\ SinkState' = "open"
             /\ \E r \in Numbers : Written' = Append(Written, r)
          \/ SinkState = "open" /\ SinkState' = "complete" /\ Written' = Written
          \/ /\ SinkState = "open" /\ SinkState' = "broken"
             /\ Written' = Written \/ \E r \in Numbers : Written' = Append(Written, r)
      BY <2>1, SinkSteps
    <3> QED
      BY <2>1, <3>1, <3>2 DEF Sink!Next, Sink!sinkVars, Sink!Accept, Sink!Complete, Sink!Break,
                               ForSink, Sticky
  <2>2. CASE ~Sticky(format)
    <3>1. ~Sticky(format')
      BY <2>2 DEF Sticky, TranscodeNext, Convert, SourceFails, SourceEnds, ConvertRecord, RecordWritten, RecordFails,
         SourcesDrained, Finalize, ConvertReturns, ClientWrites, ClientCloses, WriterRuns, Running,
         Emit, EmitFails, WriteStarts, WriteRefused, CloseStarts, CloseReturns, writerVars, allVars
    <3> QED
      BY <2>2, <3>1 DEF Sink!sinkVars, ForSink, Sticky
  <2> QED
    BY <2>1, <2>2
<1> QED
  BY <1>1, <1>2, <1>3, InvAlways, PTL DEF TranscodeSpec, ImplementsSink, Sink!Spec
===============================================================================
