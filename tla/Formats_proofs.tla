----------------------------- MODULE Formats_proofs -----------------------------
(***************************************************************************)
(* Proofs about FramingReaders and RecordFields.                           *)
(*                                                                         *)
(* FramingReaders: documents of any number of records, cut anywhere, in    *)
(* every format.  The inductive invariant Inv says what the input looks    *)
(* like (Doc), and that a Reader in step has returned, for its first       *)
(* results, what the document says of its first records, and stands at the *)
(* end of the last of them (ReadSoFar); likewise ReadFile (FileSoFar).     *)
(* Each format's Read is shown to find the next record from there.         *)
(*                                                                         *)
(* RecordFields: records of any number of fields and of any bytes.  What a *)
(* Decoder reads depends on its designations alone (DecodeAlike), and      *)
(* plain ASCII reads as it is (DecodePlain), so the invariant ReadInv says *)
(* of each field that it is what a new Decoder makes of it.                *)
(***************************************************************************)
EXTENDS FramingReaders, RecordFields, SelectionTheorems

-----------------------------------------------------------------------------
\* The shape of a document.

N      == Len(kinds)
Length(f) == IF f = "iso2709" THEN 6 ELSE 4
Outer(f) == IF f \in {"marcjson", "marcxml"} THEN 1 ELSE 0
Reads  == Len(results)

\* All there is to read.
Tokens ==
  Kinds \cup {"leader", "directory", "field", "terminator", "newline",
              "{", "member", "badmember", "}", "[", "]",
              "<record>", "child", "badchild", "</record>", "<collection>", "</collection>",
              "line", "badline", "blank"}

\* What the input says of where it is.  It never changes.
Doc ==
  /\ format \in AllFormats /\ kinds \in Seq(Kinds) /\ tail \in {"eof", "error"}
  /\ format # "iso2709" => \A k \in DOMAIN kinds : kinds[k] \in {"good", "bad"}
  /\ input \in Seq(Tokens)
  /\ end <= 2 * Outer(format) + Length(format) * N
  /\ \A k \in 1..N : \A j \in 0..(Length(format) - 1) :
       Start(k) + j <= end => input[Start(k) + j] = Pieces(format, kinds[k])[j + 1]
  /\ Outer(format) = 1 /\ end >= 1 => input[1] = Wrapper(format)[1][1]
  /\ Outer(format) = 1 /\ end = Start(N + 1) => input[end] = Wrapper(format)[2][1]

\* The records Read accepts, what it says of any record, and where it stops.
Accepted(k) ==
  \/ format = "mrk" /\ ~Refused(k)
  \/ kinds[k] = "oversized" /\ Start(k) + 6 <= end
  \/ kinds[k] = "unsized" /\ tail = "eof" /\ Start(k) + 2 <= end
  \/ kinds[k] \in {"good", "unsized"} /\ Complete(k)
Verdict(k) ==
  IF Accepted(k) THEN "record"
  ELSE IF format \in JsonFormats /\ ~Refused(k) THEN tail ELSE "error"
Reach(k) ==
  IF format = "iso2709" THEN IF kinds[k] = "oversized" THEN 6 ELSE 4
  ELSE IF Refused(k) THEN 1 ELSE 3
StopAt(k) == IF Start(k) + Reach(k) <= end THEN Start(k) + Reach(k) ELSE end
Standing == IF Reads = 0 THEN 0 ELSE StopAt(Reads)

\* The Readers that find the next record after one they refuse.
Regular ==
  \/ format = "marcxml"
  \/ format = "iso2709" /\ ~\E k \in DOMAIN kinds : kinds[k] = "oversized"

\* The first m results are about the first m records.
InOrder(m) ==
  /\ m <= N
  /\ \A i \in 1..m : /\ Start(i) <= end /\ ~Swallowed(i)
                     /\ results[i].from = Start(i) /\ results[i].kind = Verdict(i)

\* What a Read can return.
Outcomes == [kind : {"record", "error", "eof"}, from : Nat, to : Nat]

\* One result for each record, and one that says there are no more.
ReadSoFar ==
  Regular \/ Stops = {} =>
    \/ InOrder(Reads) /\ pos = Standing
    \/ /\ Reads > 0 /\ InOrder(Reads - 1) /\ pos = end
       /\ results[Reads].from = end + 1 /\ results[Reads].kind \in {"eof", "error"}
       /\ format = "iso2709" => results[Reads].kind = tail
       /\ Reads <= N => Start(Reads) > end

\* ReadFile.
FileVerdict(k) ==
  IF kinds[k] \in {"good", "unsized"} /\ Start(k) + 2 <= end THEN "record" ELSE "error"
FileSoFar ==
  Regular /\ format = "iso2709" =>
    /\ fout = [i \in 1..Len(fout) |-> Start(i)]
    /\ Len(fout) <= N
    /\ \A i \in 1..Len(fout) : Start(i) + 1 <= end /\ FileVerdict(i) = "record"
    /\ fpos = IF Len(fout) = 0 THEN 0 ELSE StopAt(Len(fout))
    /\ fend = "nil" => Start(Len(fout) + 1) + 1 > end
    /\ fend = "error" /\ tail = "eof" =>
         Start(Len(fout) + 1) + 1 <= end /\ FileVerdict(Len(fout) + 1) = "error"

Typed == TypeOK /\ Doc /\ results \in Seq(Outcomes) /\ fout \in Seq(Nat)

Inv == Typed /\ ReadSoFar /\ FileSoFar

-----------------------------------------------------------------------------
\* The first token of some kind.

\* There is a first one, or none up to the end.
LEMMA NextOfRange ==
  ASSUME input \in Seq(Tokens), NEW p \in 0..end, NEW S
  PROVE  /\ NextOf(p, S) \in (p + 1)..(end + 1)
         /\ NextOf(p, S) = end + 1 \/ input[NextOf(p, S)] \in S
         /\ \A j \in (p + 1)..(NextOf(p, S) - 1) : input[j] \notin S
<1> DEFINE found(i) == i = end + 1 \/ input[i] \in S
           all == {i \in Nat : i \in (p + 1)..(end + 1) /\ found(i)}
<1>1. PICK e \in Nat : e = end
  BY DEF end
<1>2. all \in SUBSET Nat /\ e + 1 \in all
  BY <1>1
<1>3. PICK m \in all : \A n \in all : m <= n
  BY <1>2, Least
<1>4. m \in (p + 1)..(end + 1) /\ found(m) /\ \A j \in (p + 1)..(m - 1) : ~found(j)
  BY <1>1, <1>3
<1>5. /\ m \in (p + 1)..(end + 1) /\ (m = end + 1 \/ input[m] \in S)
      /\ \A j \in (p + 1)..(m - 1) : input[j] \notin S
  BY <1>4
<1> HIDE DEF found, all
<1> QED
  BY <1>5 DEF NextOf

\* A token of the kind with none before it is the first.
LEMMA NextOfIs ==
  ASSUME input \in Seq(Tokens), NEW p \in 0..end, NEW S, NEW q \in (p + 1)..(end + 1),
         q = end + 1 \/ input[q] \in S, \A j \in (p + 1)..(q - 1) : input[j] \notin S
  PROVE  NextOf(p, S) = q
<1>1. PICK m : m = NextOf(p, S)
  OBVIOUS
<1>2. /\ m \in (p + 1)..(end + 1) /\ (m = end + 1 \/ input[m] \in S)
      /\ \A j \in (p + 1)..(m - 1) : input[j] \notin S
  BY <1>1, NextOfRange
<1>3. PICK e \in Nat : e = end
  BY DEF end
<1>4. ~(m < q) /\ ~(q < m)
  BY <1>2, <1>3
<1>5. m = q
  BY <1>2, <1>3, <1>4
<1> QED
  BY <1>1, <1>5

\* It may be right here.
LEMMA NextOfHere ==
  ASSUME input \in Seq(Tokens), NEW p \in 0..end, NEW S, p + 1 = end + 1 \/ input[p + 1] \in S
  PROVE  NextOf(p, S) = p + 1
<1>1. PICK e \in Nat : e = end
  BY DEF end
<1>2. PICK q : q = p + 1
  OBVIOUS
<1>3. q \in (p + 1)..(end + 1) /\ \A j \in (p + 1)..(q - 1) : input[j] \notin S
  BY <1>1, <1>2
<1> QED
  BY <1>2, <1>3, NextOfIs

\* The same for a token that is not of the kind.
LEMMA NextNotOfIs ==
  ASSUME input \in Seq(Tokens), NEW p \in 0..end, NEW S, NEW q \in (p + 1)..(end + 1),
         q = end + 1 \/ input[q] \notin S, \A j \in (p + 1)..(q - 1) : input[j] \in S
  PROVE  NextNotOf(p, S) = q
<1> DEFINE other == {input[i] : i \in 1..end} \ S
<1>1. PICK e \in Nat : e = end
  BY DEF end
<1>2. q = end + 1 \/ input[q] \in other
  BY <1>1
<1>3. \A j \in (p + 1)..(q - 1) : input[j] \notin other
  OBVIOUS
<1> HIDE DEF other
<1>4. NextOf(p, other) = q
  BY <1>2, <1>3, NextOfIs
<1> QED
  BY <1>4 DEF NextNotOf, other

\* Where it is, whatever it is.
LEMMA NextNotOfRange ==
  ASSUME input \in Seq(Tokens), NEW p \in 0..end, NEW S
  PROVE  /\ NextNotOf(p, S) \in (p + 1)..(end + 1)
         /\ NextNotOf(p, S) = end + 1 \/ input[NextNotOf(p, S)] \notin S
BY NextOfRange DEF NextNotOf

-----------------------------------------------------------------------------
\* The document.

\* The tokens of a record and around a document.
LEMMA RecordTokens ==
  ASSUME NEW f \in AllFormats, NEW kind
  PROVE  /\ f = "iso2709" => Pieces(f, kind) = <<kind, "leader", "directory", "field", "terminator", "newline">>
         /\ f \in JsonFormats =>
              Pieces(f, kind) = <<"{", IF kind = "bad" THEN "badmember" ELSE "member", "member", "}">>
         /\ f = "marcxml" =>
              Pieces(f, kind) = <<"<record>", IF kind = "bad" THEN "badchild" ELSE "child", "child", "</record>">>
         /\ f = "mrk" =>
              Pieces(f, kind) = <<"line", IF kind = "bad" THEN "badline" ELSE "line", "line", "blank">>
<1>1. CASE f = "iso2709"
  BY <1>1 DEF Pieces, JsonFormats
<1>2. CASE f \in JsonFormats
  BY <1>2 DEF Pieces, JsonFormats
<1>3. CASE f = "marcxml"
  BY <1>3 DEF Pieces, JsonFormats
<1>4. CASE f = "mrk"
  BY <1>4 DEF Pieces, JsonFormats
<1> QED
  BY <1>1, <1>2, <1>3, <1>4 DEF AllFormats

\* The forms of a record and of a document.
LEMMA Shapes ==
  ASSUME NEW f \in AllFormats
  PROVE  /\ Size(f) = Length(f)
         /\ Len(Wrapper(f)[1]) = Outer(f) /\ Len(Wrapper(f)[2]) = Outer(f)
         /\ Outer(f) = 1 => Wrapper(f)[1][1] \in Tokens /\ Wrapper(f)[2][1] \in Tokens
         /\ \A kind \in Kinds : \A j \in 1..Length(f) : Pieces(f, kind)[j] \in Tokens
<1>1. Size(f) = Length(f)
  <2>1. CASE f = "iso2709"
    <3>1. Pieces(f, "good") = <<"good", "leader", "directory", "field", "terminator", "newline">>
      BY <2>1, RecordTokens
    <3> QED
      BY <2>1, <3>1 DEF Size, Length
  <2>2. CASE f # "iso2709"
    <3>1. f \in {"mrk", "marcxml"} \cup JsonFormats
      BY <2>2 DEF AllFormats
    <3>2. \E a, b, c, d : Pieces(f, "good") = <<a, b, c, d>>
      BY <3>1, RecordTokens
    <3> QED
      BY <2>2, <3>2 DEF Size, Length
  <2> QED
    BY <2>1, <2>2
<1>2. /\ Len(Wrapper(f)[1]) = Outer(f) /\ Len(Wrapper(f)[2]) = Outer(f)
      /\ Outer(f) = 1 => Wrapper(f)[1][1] \in Tokens /\ Wrapper(f)[2][1] \in Tokens
  <2>1. CASE f = "marcjson"
    BY <2>1 DEF Wrapper, Outer, Tokens
  <2>2. CASE f = "marcxml"
    BY <2>2 DEF Wrapper, Outer, Tokens
  <2>3. CASE f \notin {"marcjson", "marcxml"}
    BY <2>3 DEF Wrapper, Outer
  <2> QED
    BY <2>1, <2>2, <2>3
<1>3. ASSUME NEW kind \in Kinds, NEW j \in 1..Length(f) PROVE Pieces(f, kind)[j] \in Tokens
  <2>1. CASE f = "iso2709"
    <3>1. Pieces(f, kind) = <<kind, "leader", "directory", "field", "terminator", "newline">>
      BY <2>1, RecordTokens
    <3>2. kind \in Tokens /\ j \in 1..6
      BY <2>1 DEF Tokens, Length
    <3>3. {"leader", "directory", "field", "terminator", "newline"} \subseteq Tokens
      BY DEF Tokens
    <3>4. \E a, b \in Tokens : \E c, d, e \in Tokens : Pieces(f, kind) = <<kind, a, b, c, d, e>>
      BY <3>1, <3>3
    <3> QED
      BY <3>2, <3>4
  <2>2. CASE f # "iso2709"
    <3>1. j \in 1..4 /\ f \in {"mrk", "marcxml"} \cup JsonFormats
      BY <2>2 DEF Length, AllFormats
    <3>2. \E a, b \in Tokens : \E c, d \in Tokens : Pieces(f, kind) = <<a, b, c, d>>
      BY <3>1, RecordTokens DEF Tokens
    <3> QED
      BY <3>1, <3>2
  <2> QED
    BY <2>1, <2>2
<1> QED
  BY <1>1, <1>2, <1>3

\* Dividing by the length of a record gives the record and the place in it.
LEMMA Places ==
  ASSUME NEW z \in {4, 6}, NEW m \in Nat, NEW j \in 0..(z - 1)
  PROVE  (z * m + j) \div z = m /\ (z * m + j) % z = j
<1>1. CASE z = 4
  BY <1>1
<1>2. CASE z = 6
  BY <1>2
<1> QED
  BY <1>1, <1>2

\* Where the records begin.
LEMMA Starts ==
  ASSUME Doc, NEW k \in Nat
  PROVE  /\ Start(k) = IF format = "iso2709" THEN 6 * k - 5
                       ELSE 4 * k - 3 + Outer(format)
         /\ Start(k) \in Int /\ Start(k + 1) = Start(k) + Length(format)
<1>1. format \in AllFormats
  BY DEF Doc
<1>2. Start(k) = Outer(format) + Length(format) * (k - 1) + 1
  BY <1>1, Shapes DEF Start
<1>3. Start(k + 1) = Outer(format) + Length(format) * (k + 1 - 1) + 1
  BY <1>1, Shapes DEF Start
<1> QED
  BY <1>2, <1>3 DEF Length, Outer

\* What the input shows of a document that is laid out as Whole says.
LEMMA InputIsLaidOut ==
  ASSUME format \in AllFormats, kinds \in Seq(Kinds),
         NEW cut \in 0..Len(Whole(format, kinds)), input = SubSeq(Whole(format, kinds), 1, cut)
  PROVE  /\ input \in Seq(Tokens)
         /\ end <= 2 * Outer(format) + Length(format) * N
         /\ \A k \in 1..N : \A j \in 0..(Length(format) - 1) :
              Start(k) + j <= end => input[Start(k) + j] = Pieces(format, kinds[k])[j + 1]
         /\ Outer(format) = 1 /\ end >= 1 => input[1] = Wrapper(format)[1][1]
         /\ Outer(format) = 1 /\ end = Start(N + 1) => input[end] = Wrapper(format)[2][1]
<1> DEFINE h == Outer(format)
           z == Length(format)
           whole == Whole(format, kinds)
           pieceAt(i) == IF i <= h THEN Wrapper(format)[1][i]
                         ELSE IF i > h + z * N THEN Wrapper(format)[2][i - h - z * N]
                         ELSE Pieces(format, kinds[1 + ((i - h - 1) \div z)])[1 + ((i - h - 1) % z)]
<1>1. h \in 0..1 /\ z \in {4, 6} /\ N \in Nat
  BY DEF Outer, Length, N
<1>2. PICK n \in Nat : n = N
  BY <1>1
<1>3. whole = [i \in 1..(h + z * n + h) |-> pieceAt(i)]
  BY <1>2, Shapes DEF Whole, N
<1> HIDE DEF h, z, whole
<1>4. z * n \in Nat
  BY <1>1
<1>5. ASSUME NEW k \in 1..n, NEW j \in 0..(z - 1)
      PROVE  \A i : i = h + z * (k - 1) + 1 + j =>
               /\ i \in 1..(h + z * n) /\ i > h
               /\ (i - h - 1) \div z = k - 1 /\ (i - h - 1) % z = j
  <2>1. k - 1 \in Nat /\ h + z * (k - 1) + 1 + j - h - 1 = z * (k - 1) + j
    BY <1>1
  <2>2. (z * (k - 1) + j) \div z = k - 1 /\ (z * (k - 1) + j) % z = j
    BY <1>1, <2>1, Places
  <2>3. h + z * (k - 1) + 1 + j \in 1..(h + z * n) /\ h + z * (k - 1) + 1 + j > h
    BY <1>1
  <2>4. k - 1 \in Nat /\ z * (k - 1) \in Nat
    BY <1>1
  <2>5. ASSUME NEW i, i = h + z * (k - 1) + 1 + j
        PROVE  i - h - 1 = z * (k - 1) + j /\ i \in 1..(h + z * n) /\ i > h
    BY <1>1, <2>3, <2>4, <2>5
  <2> QED
    BY <2>2, <2>5
<1>6. ASSUME NEW i \in 1..(h + z * n + h) PROVE pieceAt(i) \in Tokens
  <2>1. CASE i <= h
    <3>1. h = 1 /\ i = 1
      BY <1>1, <2>1
    <3> QED
      BY <2>1, <3>1, Shapes DEF h
  <2>2. CASE i > h + z * n
    <3>1. h = 1 /\ i - h - z * n = 1 /\ ~(i <= h)
      BY <1>1, <1>4, <2>2
    <3> QED
      BY <1>2, <2>2, <3>1, Shapes DEF h
  <2>3. CASE i > h /\ i <= h + z * n
    <3>1. PICK q : q = i - h - 1
      OBVIOUS
    <3>2. q \in 0..(z * n - 1)
      BY <1>1, <1>4, <2>3, <3>1
    <3>3. q \div z \in 0..(n - 1) /\ q % z \in 0..(z - 1)
      BY <1>1, <1>4, <3>2
    <3>4. 1 + (q \div z) \in 1..n /\ 1 + (q % z) \in 1..z
      BY <1>1, <3>3
    <3>5. kinds[1 + (q \div z)] \in Kinds
      BY <1>2, <3>4 DEF N
    <3>6. pieceAt(i) = Pieces(format, kinds[1 + (q \div z)])[1 + (q % z)]
      BY <1>1, <1>2, <1>4, <2>3, <3>1
    <3> QED
      BY <3>4, <3>5, <3>6, Shapes DEF z
  <2> QED
    BY <1>1, <1>4, <2>1, <2>2, <2>3
<1> HIDE DEF pieceAt
<1>7. whole \in Seq(Tokens) /\ Len(whole) = h + z * n + h
  BY <1>1, <1>3, <1>4, <1>6
<1>8. /\ input \in Seq(Tokens) /\ Len(input) = cut
      /\ \A i \in 1..cut : input[i] = whole[i]
  BY <1>7 DEF whole
<1>9. /\ end = cut /\ cut \in 0..(h + z * n + h)
      /\ \A i \in 1..end : input[i] = pieceAt(i)
  <2>1. end = cut
    BY <1>8 DEF end
  <2>2. cut \in 0..(h + z * n + h)
    BY <1>7 DEF whole
  <2>3. ASSUME NEW i \in 1..cut PROVE input[i] = pieceAt(i)
    <3>1. i \in 1..(h + z * n + h)
      BY <1>1, <1>4, <2>2
    <3> QED
      BY <1>3, <1>8, <2>3, <3>1
  <2> QED
    BY <2>1, <2>2, <2>3
<1>10. end <= 2 * h + z * n
  BY <1>1, <1>4, <1>9
<1>11. ASSUME NEW k \in 1..n, NEW j \in 0..(z - 1), Start(k) + j <= end
       PROVE  input[Start(k) + j] = Pieces(format, kinds[k])[j + 1]
  <2>1. PICK i : i = h + z * (k - 1) + 1 + j
    OBVIOUS
  <2>2. Start(k) + j = i
    BY <1>1, <2>1, Shapes DEF Start, h, z
  <2>3. /\ i \in 1..(h + z * n) /\ i > h
        /\ (i - h - 1) \div z = k - 1 /\ (i - h - 1) % z = j
    BY <1>5, <2>1
  <2>4. input[i] = pieceAt(i)
    BY <1>1, <1>4, <1>9, <1>11, <2>2, <2>3
  <2>5. pieceAt(i) = Pieces(format, kinds[1 + (k - 1)])[1 + j]
    BY <1>1, <1>2, <1>4, <2>3 DEF pieceAt
  <2>6. 1 + (k - 1) = k /\ 1 + j = j + 1
    BY <1>1
  <2> QED
    BY <2>2, <2>4, <2>5, <2>6
<1>12. h = 1 /\ end >= 1 => input[1] = Wrapper(format)[1][1]
  BY <1>9 DEF pieceAt
<1>13. h = 1 /\ end = Start(N + 1) => input[end] = Wrapper(format)[2][1]
  <2>1. Start(N + 1) = h + z * n + 1
    BY <1>1, <1>2, Shapes DEF Start, h, z
  <2> QED
    BY <1>1, <1>2, <1>4, <1>9, <2>1 DEF pieceAt
<1> QED
  BY <1>2, <1>8, <1>10, <1>11, <1>12, <1>13 DEF h, z

\* A run begins with such a document.
LEMMA DocInit == Init => Doc
<1> SUFFICES ASSUME Init PROVE Doc
  OBVIOUS
<1>1. format \in AllFormats /\ kinds \in Seq(Kinds)
  BY FramingAssumption DEF Init
<1>2. PICK cut \in 0..Len(Whole(format, kinds)) : input = SubSeq(Whole(format, kinds), 1, cut)
  BY DEF Init
<1> QED
  BY <1>1, <1>2, InputIsLaidOut DEF Init, Doc

\* It is never changed.
LEMMA DocStays ==
  ASSUME UNCHANGED document
  PROVE  /\ end' = end /\ N' = N
         /\ \A k : Start(k)' = Start(k) /\ Accepted(k)' = Accepted(k) /\ Verdict(k)' = Verdict(k)
                   /\ StopAt(k)' = StopAt(k) /\ FileVerdict(k)' = FileVerdict(k)
                   /\ Swallowed(k)' = Swallowed(k)
         /\ Doc' = Doc /\ Regular' = Regular
BY DEF document, Doc, end, N, Start, Accepted, Verdict, StopAt, Reach, Regular, FileVerdict,
       Refused, Complete, Swallowed

-----------------------------------------------------------------------------
\* One Read.

\* A Read about record k, and one that finds no more of them.
ReadsNext(k) ==
  /\ results' = Append(results, [kind |-> Verdict(k), from |-> Start(k), to |-> StopAt(k)])
  /\ pos' = StopAt(k)
EndsReads ==
  \E w \in {"eof", "error"} : \E f \in 1..(end + 1) :
    /\ results' = Append(results, [kind |-> w, from |-> f, to |-> pos'])
    /\ Regular => f = end + 1 /\ pos' = end
    /\ Regular /\ format = "iso2709" => w = tail

\* What the document is, in numbers.
LEMMA DocNumbers ==
  ASSUME Doc
  PROVE  /\ N \in Nat /\ end \in Nat /\ input \in Seq(Tokens) /\ tail \in {"eof", "error"}
         /\ \A k \in 1..N : kinds[k] \in Kinds
         /\ \A k \in 1..N : format # "iso2709" => kinds[k] \in {"good", "bad"}
         /\ \A k \in 1..N : Start(k) \in Nat \ {0}
<1>1. N \in Nat /\ end \in Nat /\ input \in Seq(Tokens) /\ tail \in {"eof", "error"}
  BY DEF Doc, N, end
<1>2. \A k \in 1..N : kinds[k] \in Kinds
  BY DEF Doc, N
<1>3. \A k \in 1..N : format # "iso2709" => kinds[k] \in {"good", "bad"}
  BY DEF Doc, N
<1>4. ASSUME NEW k \in 1..N PROVE Start(k) \in Nat \ {0}
  <2>1. k \in Nat \ {0}
    BY <1>1
  <2>2. Start(k) = IF format = "iso2709" THEN 6 * k - 5 ELSE 4 * k - 3 + Outer(format)
    BY <2>1, Starts
  <2> QED
    BY <2>1, <2>2 DEF Outer
<1> QED
  BY <1>1, <1>2, <1>3, <1>4

\* The tokens of an ISO 2709 record.
LEMMA IsoTokens ==
  ASSUME Doc, format = "iso2709", NEW k \in 1..N, NEW s, s = Start(k)
  PROVE  /\ s = 6 * k - 5 /\ s \in Nat \ {0}
         /\ s <= end => input[s] = kinds[k]
         /\ s + 1 <= end => input[s + 1] = "leader"
         /\ s + 2 <= end => input[s + 2] = "directory"
         /\ s + 3 <= end => input[s + 3] = "field"
         /\ s + 4 <= end => input[s + 4] = "terminator"
         /\ s + 5 <= end => input[s + 5] = "newline"
<1>1. s = 6 * k - 5 /\ s \in Nat \ {0} /\ N \in Nat
  BY Starts, DocNumbers
<1>2. Pieces(format, kinds[k]) = <<kinds[k], "leader", "directory", "field", "terminator", "newline">>
  BY RecordTokens DEF Doc
<1>3. \A j \in 0..5 : s + j <= end => input[s + j] = Pieces(format, kinds[k])[j + 1]
  BY DEF Doc, Length
<1>4. end \in Nat
  BY DocNumbers
<1>5. /\ s + 0 <= end => input[s + 0] = kinds[k]
      /\ s + 1 <= end => input[s + 1] = "leader"
      /\ s + 2 <= end => input[s + 2] = "directory"
  BY <1>2, <1>3
<1>6. /\ s + 3 <= end => input[s + 3] = "field"
      /\ s + 4 <= end => input[s + 4] = "terminator"
      /\ s + 5 <= end => input[s + 5] = "newline"
  BY <1>2, <1>3
<1>7. s + 0 = s
  BY <1>1
<1> QED
  BY <1>1, <1>5, <1>6, <1>7

\* No token of a record is beyond the last.
LEMMA BegunIsRecord ==
  ASSUME Doc, NEW k \in Nat \ {0}, Start(k) <= end, Outer(format) = 0 \/ Start(k) < end
  PROVE  k <= N
<1>1. /\ Start(k) = IF format = "iso2709" THEN 6 * k - 5 ELSE 4 * k - 3 + Outer(format)
      /\ N \in Nat /\ end \in Nat
  BY Starts, DocNumbers
<1>2. end <= 2 * Outer(format) + Length(format) * N
  BY DEF Doc
<1>3. CASE format = "iso2709"
  <2>1. Outer(format) = 0 /\ Length(format) = 6
    BY <1>3 DEF Outer, Length
  <2> QED
    BY <1>1, <1>2, <1>3, <2>1
<1>4. CASE format # "iso2709"
  <2>1. Outer(format) \in {0, 1} /\ Length(format) = 4
    BY <1>4 DEF Outer, Length
  <2> QED
    BY <1>1, <1>2, <1>4, <2>1
<1> QED
  BY <1>3, <1>4

\* What separates two records is passed over, by Reader and ReadFile alike.
LEMMA IsoNextStart ==
  ASSUME Doc, format = "iso2709", NEW m \in 0..N, m > 0 => Start(m) <= end /\ kinds[m] # "oversized",
         NEW p, p = IF m = 0 THEN 0 ELSE StopAt(m)
  PROVE  /\ p \in 0..end
         /\ NextNotOf(p, Separators) = IF Start(m + 1) <= end THEN Start(m + 1) ELSE end + 1
         /\ Start(m + 1) <= end => m + 1 \in 1..N
<1>1. end \in Nat /\ N \in Nat /\ Start(m + 1) = 6 * m + 1 /\ input \in Seq(Tokens)
  BY DocNumbers, Starts
<1>2. Start(m + 1) <= end => m + 1 \in 1..N
  BY <1>1, BegunIsRecord DEF Outer
<1>3. Start(m + 1) <= end => input[Start(m + 1)] \notin Separators
  <2>1. SUFFICES ASSUME Start(m + 1) <= end PROVE input[Start(m + 1)] \notin Separators
    OBVIOUS
  <2>2. m + 1 \in 1..N
    BY <1>2, <2>1
  <2>3. input[Start(m + 1)] = kinds[m + 1] /\ kinds[m + 1] \in Kinds
    BY <2>1, <2>2, IsoTokens, DocNumbers
  <2> QED
    BY <2>3 DEF Separators, Kinds
<1>4. CASE m = 0
  <2>1. p = 0 /\ Start(m + 1) = 1
    BY <1>1, <1>4
  <2>2. CASE Start(m + 1) <= end
    <3>1. NextNotOf(0, Separators) = 1
      BY <1>1, <1>3, <2>1, <2>2, NextNotOfIs
    <3> QED
      BY <1>1, <1>2, <2>1, <2>2, <3>1
  <2>3. CASE Start(m + 1) > end
    <3>1. end = 0
      BY <1>1, <2>1, <2>3
    <3>2. NextNotOf(0, Separators) = 1
      BY <1>1, <3>1, NextNotOfIs
    <3> QED
      BY <1>1, <1>2, <2>1, <2>3, <3>1, <3>2
  <2> QED
    BY <1>1, <2>2, <2>3
<1>5. CASE m > 0
  <2>1. m \in 1..N /\ Start(m) = 6 * m - 5 /\ Start(m) <= end
    BY <1>1, <1>5, Starts
  <2>2. p = IF Start(m) + 4 <= end THEN Start(m) + 4 ELSE end
    BY <1>5 DEF StopAt, Reach
  <2>3. p \in 0..end
    BY <1>1, <2>1, <2>2
  <2>4. Start(m) + 5 <= end => input[Start(m) + 5] \in Separators
    BY <2>1, IsoTokens DEF Separators
  <2>5. CASE Start(m + 1) <= end
    <3>1. p = 6 * m - 1 /\ Start(m) + 5 = 6 * m /\ Start(m) + 5 <= end
      BY <1>1, <2>1, <2>2, <2>5
    <3>2. \A j \in (p + 1)..(Start(m + 1) - 1) : j = Start(m) + 5
      BY <1>1, <2>1, <3>1
    <3>3. Start(m + 1) \in (p + 1)..(end + 1)
      BY <1>1, <2>1, <2>5, <3>1
    <3>4. NextNotOf(p, Separators) = Start(m + 1)
      BY <1>1, <1>3, <2>3, <2>4, <2>5, <3>1, <3>2, <3>3, NextNotOfIs
    <3> QED
      BY <1>2, <2>3, <2>5, <3>4
  <2>6. CASE Start(m + 1) > end
    <3>1. PICK q : q = end + 1
      OBVIOUS
    <3>2. q \in (p + 1)..(end + 1) /\ \A j \in (p + 1)..(q - 1) : j = Start(m) + 5 /\ Start(m) + 5 <= end
      BY <1>1, <2>1, <2>2, <2>3, <2>6, <3>1
    <3>3. \A j \in (p + 1)..(q - 1) : input[j] \in Separators
      BY <2>4, <3>2
    <3>4. NextNotOf(p, Separators) = q
      BY <1>1, <2>3, <3>1, <3>2, <3>3, NextNotOfIs
    <3> QED
      BY <1>1, <1>2, <2>3, <2>6, <3>1, <3>4
  <2> QED
    BY <1>1, <2>5, <2>6
<1> QED
  BY <1>4, <1>5

\* The end of the record at a leader, and what decode says of it there.
LEMMA IsoVerdict ==
  ASSUME Doc, format = "iso2709", NEW k \in 1..N, NEW s, s = Start(k), s <= end
  PROVE  /\ IsoShort(s) => Verdict(k) = "error" /\ StopAt(k) = end
         /\ ~IsoShort(s) => s + 1 <= end /\ IsoEnd(s) = StopAt(k) /\ DecodeIso(s, IsoEnd(s)) = Verdict(k)
<1>1. /\ s = 6 * k - 5 /\ s \in Nat \ {0} /\ input[s] = kinds[k]
      /\ s + 4 <= end => input[s + 4] = "terminator"
      /\ \A j \in (s + 1)..(s + 3) : j <= end => input[j] # "terminator"
  <2>1. \A j \in (s + 1)..(s + 3) : j = s + 1 \/ j = s + 2 \/ j = s + 3
    BY IsoTokens
  <2> QED
    BY <2>1, IsoTokens
<1>2. end \in Nat /\ N \in Nat /\ tail \in {"eof", "error"} /\ input \in Seq(Tokens) /\ kinds[k] \in Kinds
  BY DocNumbers
<1>3. Complete(k) <=> s + 4 <= end
  BY <1>1, Shapes DEF Complete, Doc, Length
<1>4. Declares(s) <=> s + 1 <= end /\ Declared(s) >= 2
  BY <1>1 DEF Declares, LeaderLen
<1>5. CASE kinds[k] \in {"good", "bad"}
  <2>1. Declared(s) = 5
    BY <1>1, <1>5 DEF Declared, LeaderLen
  <2>2. s + 1 <= end => Declares(s) /\ IsoEnd(s) = s + 4
    BY <1>1, <1>4, <2>1 DEF IsoEnd
  <2>3. IsoShort(s) <=> s + 4 > end
    BY <1>1, <1>2, <2>2 DEF IsoShort, LeaderLen
  <2>4. StopAt(k) = IF s + 4 <= end THEN s + 4 ELSE end
    BY <1>5 DEF StopAt, Reach
  <2>5. Verdict(k) = IF kinds[k] = "good" /\ s + 4 <= end THEN "record" ELSE "error"
    BY <1>3, <1>5 DEF Verdict, Accepted, JsonFormats
  <2>6. s + 4 <= end => DecodeIso(s, s + 4) = Verdict(k)
    BY <1>1, <1>5, <2>5 DEF DecodeIso, BaseAt, LeaderLen
  <2> QED
    BY <1>1, <1>2, <2>2, <2>3, <2>4, <2>5, <2>6
<1>6. CASE kinds[k] = "unsized"
  <2>1. Declared(s) = 0 /\ ~Declares(s)
    BY <1>1, <1>4, <1>6 DEF Declared
  <2>2. s + 1 <= end => NextOf(s + LeaderLen - 1, {"terminator"}) = IF s + 4 <= end THEN s + 4 ELSE end + 1
    <3>1. SUFFICES ASSUME s + 1 <= end
                   PROVE  NextOf(s + LeaderLen - 1, {"terminator"}) = IF s + 4 <= end THEN s + 4 ELSE end + 1
      OBVIOUS
    <3>2. s + LeaderLen - 1 = s + 1 /\ s + 1 \in 0..end
      BY <1>1, <1>2, <3>1 DEF LeaderLen
    <3>3. CASE s + 4 <= end
      <4>1. s + 4 \in (s + 1 + 1)..(end + 1) /\ \A j \in (s + 1 + 1)..(s + 4 - 1) : j \in (s + 1)..(s + 3) /\ j <= end
        BY <1>1, <1>2, <3>3
      <4>2. PICK q : q = s + 4
        OBVIOUS
      <4>3. q \in (s + 1 + 1)..(end + 1) /\ input[q] \in {"terminator"}
        BY <1>1, <3>3, <4>1, <4>2
      <4>4. \A j \in (s + 1 + 1)..(q - 1) : input[j] \notin {"terminator"}
        BY <1>1, <4>1, <4>2
      <4>5. NextOf(s + 1, {"terminator"}) = q
        BY <1>2, <3>2, <4>3, <4>4, NextOfIs
      <4> QED
        BY <3>2, <3>3, <4>2, <4>5
    <3>4. CASE s + 4 > end
      <4>1. end + 1 \in (s + 1 + 1)..(end + 1) /\ \A j \in (s + 1 + 1)..(end + 1 - 1) : j \in (s + 1)..(s + 3) /\ j <= end
        BY <1>1, <1>2, <3>1, <3>4
      <4>2. PICK q : q = end + 1
        OBVIOUS
      <4>3. q \in (s + 1 + 1)..(end + 1)
        BY <4>1, <4>2
      <4>4. \A j \in (s + 1 + 1)..(q - 1) : input[j] \notin {"terminator"}
        BY <1>1, <1>2, <4>1, <4>2
      <4>5. NextOf(s + 1, {"terminator"}) = q
        BY <1>2, <3>2, <4>2, <4>3, <4>4, NextOfIs
      <4> QED
        BY <1>1, <1>2, <3>2, <3>4, <4>2, <4>5
    <3> QED
      BY <1>1, <1>2, <3>3, <3>4
  <2>3. s + 1 <= end => IsoEnd(s) = IF s + 4 <= end THEN s + 4 ELSE end
    BY <1>1, <1>2, <2>1, <2>2 DEF IsoEnd
  <2>4. IsoShort(s) <=> s + 1 > end \/ (tail = "error" /\ s + 4 > end)
    BY <1>1, <1>2, <2>1, <2>2, <2>3 DEF IsoShort, LeaderLen
  <2>5. StopAt(k) = IF s + 4 <= end THEN s + 4 ELSE end
    BY <1>6 DEF StopAt, Reach
  <2>6. Verdict(k) = IF s + 4 <= end \/ (tail = "eof" /\ s + 2 <= end) THEN "record" ELSE "error"
    BY <1>3, <1>6 DEF Verdict, Accepted, JsonFormats
  <2>7. \A e : DecodeIso(s, e) = IF e - s + 1 >= 3 THEN "record" ELSE "error"
    BY <1>1, <1>6 DEF DecodeIso, BaseAt, LeaderLen
  <2> QED
    BY <1>1, <1>2, <2>3, <2>4, <2>5, <2>6, <2>7
<1>7. CASE kinds[k] = "oversized"
  <2>1. Declared(s) = 7
    BY <1>1, <1>7 DEF Declared, LeaderLen
  <2>2. s + 1 <= end => Declares(s) /\ IsoEnd(s) = s + 6
    BY <1>1, <1>4, <2>1 DEF IsoEnd
  <2>3. IsoShort(s) <=> s + 6 > end
    BY <1>1, <1>2, <2>2 DEF IsoShort, LeaderLen
  <2>4. StopAt(k) = IF s + 6 <= end THEN s + 6 ELSE end
    BY <1>7 DEF StopAt, Reach
  <2>5. Verdict(k) = IF s + 6 <= end THEN "record" ELSE "error"
    BY <1>3, <1>7 DEF Verdict, Accepted, JsonFormats
  <2>6. s + 6 <= end => DecodeIso(s, s + 6) = "record"
    BY <1>1, <1>7 DEF DecodeIso, BaseAt, LeaderLen
  <2> QED
    BY <1>1, <1>2, <2>2, <2>3, <2>4, <2>5, <2>6
<1> QED
  BY <1>2, <1>5, <1>6, <1>7 DEF Kinds

\* Where a Read that is in step begins.
Steady ==
  /\ Doc /\ results \in Seq(Outcomes) /\ InOrder(Reads) /\ pos = Standing
  /\ Regular \/ Stops = {}

\* What a Read comes to: the next record, or none.
ReadsOn ==
  \/ /\ Reads + 1 \in 1..N /\ Start(Reads + 1) <= end /\ ~Swallowed(Reads + 1)
     /\ ReadsNext(Reads + 1)
  \/ /\ Reads + 1 <= N => Start(Reads + 1) > end \/ Swallowed(Reads + 1)
     /\ EndsReads

\* A Reader without a stop has accepted all it read.
LEMMA NoStop ==
  ASSUME Steady, Stops = {}, NEW i \in 1..Reads
  PROVE  i \in 1..N /\ Accepted(i) /\ Start(i) <= end
<1>1. i \in DOMAIN results /\ Reads \in Nat
  BY DEF Steady, Reads
<1>2. results[i].kind = "record"
  BY <1>1 DEF Stops
<1>3. i \in 1..N /\ Start(i) <= end /\ results[i].kind = Verdict(i)
  BY <1>1, DocNumbers DEF InOrder, Steady
<1>4. tail # "record"
  BY DocNumbers DEF Steady
<1> QED
  BY <1>2, <1>3, <1>4 DEF Verdict

\* iso2709.Reader.Read reads the next record where it stands.
LEMMA IsoReadsOn ==
  ASSUME Steady, format = "iso2709", IsoRead
  PROVE  ReadsOn
<1>1. end \in Nat /\ N \in Nat /\ Reads \in 0..N /\ input \in Seq(Tokens) /\ tail \in {"eof", "error"}
  BY DocNumbers DEF Steady, InOrder, Reads
<1>2. CASE Reads > 0 => kinds[Reads] # "oversized"
  <2>1. Reads > 0 => Start(Reads) <= end
    BY <1>1 DEF Steady, InOrder
  <2>2. /\ pos \in 0..end
        /\ NextNotOf(pos, Separators) = IF Start(Reads + 1) <= end THEN Start(Reads + 1) ELSE end + 1
        /\ Start(Reads + 1) <= end => Reads + 1 \in 1..N
    BY <1>1, <1>2, <2>1, IsoNextStart DEF Steady, Standing
  <2>3. ~Swallowed(Reads + 1)
    BY <1>1, <1>2 DEF Swallowed
  <2>4. CASE Start(Reads + 1) <= end
    <3>1. NextNotOf(pos, Separators) = Start(Reads + 1) /\ Start(Reads + 1) <= end /\ ~(Start(Reads + 1) > end)
      BY <1>1, <2>2, <2>4, DocNumbers DEF Steady
    <3>2. \/ IsoShort(Start(Reads + 1)) /\ Returns("error", Start(Reads + 1), end)
          \/ /\ ~IsoShort(Start(Reads + 1))
             /\ Returns(DecodeIso(Start(Reads + 1), IsoEnd(Start(Reads + 1))), Start(Reads + 1), IsoEnd(Start(Reads + 1)))
      BY <3>1 DEF IsoRead
    <3>3. ReadsNext(Reads + 1)
      BY <2>2, <2>4, <3>2, IsoVerdict DEF Steady, Returns, ReadsNext
    <3> QED
      BY <2>2, <2>3, <2>4, <3>3 DEF ReadsOn
  <2>5. CASE ~(Start(Reads + 1) <= end)
    <3>1. NextNotOf(pos, Separators) = end + 1 /\ end + 1 > end /\ ~(end + 1 <= end)
      BY <1>1, <2>2, <2>5
    <3>2. Returns(tail, end + 1, end)
      BY <3>1 DEF IsoRead
    <3>3. end + 1 \in 1..(end + 1)
      BY <1>1
    <3>4. EndsReads
      BY <1>1, <3>2, <3>3 DEF EndsReads, Returns
    <3>5. Reads + 1 <= N => Start(Reads + 1) > end
      <4>1. Start(Reads + 1) \in Int
        BY <1>1, Starts DEF Steady
      <4> QED
        BY <1>1, <2>5, <4>1
    <3> QED
      BY <3>4, <3>5 DEF ReadsOn
  <2> QED
    BY <2>4, <2>5
<1>3. CASE Reads > 0 /\ kinds[Reads] = "oversized"
  <2>1. Reads \in 1..N /\ Start(Reads) <= end
    BY <1>1, <1>3 DEF Steady, InOrder
  <2>2. ~Regular /\ Stops = {} /\ Swallowed(Reads + 1)
    BY <1>1, <1>3, <2>1 DEF Regular, Steady, N, Swallowed
  <2>3. Start(Reads) + 6 <= end
    BY <1>3, <2>1, <2>2, NoStop DEF Accepted, Refused
  <2>4. Start(Reads) = 6 * Reads - 5 /\ Start(Reads + 1) = 6 * Reads + 1
    BY <1>1, Starts DEF Steady
  <2>5. pos = Start(Reads + 1) /\ pos \in 1..end
    BY <1>1, <1>3, <2>1, <2>3, <2>4 DEF Steady, Standing, StopAt, Reach
  <2>6. PICK s : s = NextNotOf(pos, Separators)
    OBVIOUS
  <2>7. s \in (pos + 1)..(end + 1) /\ s \in 1..(end + 1) /\ (s > end => s = end + 1)
    BY <1>1, <2>5, <2>6, NextNotOfRange
  <2>8. \E w \in {"eof", "error"} : \E p : Returns(w, s, p)
    <3>1. CASE s > end
      BY <1>1, <2>6, <2>7, <3>1 DEF IsoRead
    <3>2. CASE s <= end /\ IsoShort(s)
      BY <1>1, <2>6, <2>7, <3>2 DEF IsoRead
    <3>3. CASE s <= end /\ ~IsoShort(s)
      <4>1. pos + 1 <= end
        BY <1>1, <2>5, <2>7, <3>3
      <4>2. Reads + 1 \in 1..N
        BY <1>1, <2>1, <2>4, <2>5, BegunIsRecord DEF Steady, Outer
      <4>3. input[pos + 1] = "leader"
        BY <2>5, <4>1, <4>2, IsoTokens DEF Steady
      <4>4. s = pos + 1
        <5>1. PICK q : q = pos + 1
          OBVIOUS
        <5>2. q \in (pos + 1)..(end + 1) /\ input[q] \notin Separators
              /\ \A j \in (pos + 1)..(q - 1) : input[j] \in Separators
          BY <1>1, <2>5, <4>1, <4>3, <5>1 DEF Separators
        <5>3. pos \in 0..end
          BY <2>5
        <5>4. NextNotOf(pos, Separators) = q
          BY <1>1, <5>2, <5>3, NextNotOfIs
        <5> QED
          BY <2>6, <5>1, <5>4
      <4>5. \A e : DecodeIso(s, e) = "error"
        BY <4>3, <4>4 DEF DecodeIso
      <4> QED
        BY <1>1, <2>6, <2>7, <3>3, <4>5 DEF IsoRead
    <3> QED
      BY <1>1, <2>7, <3>1, <3>2, <3>3
  <2>9. EndsReads
    BY <2>2, <2>7, <2>8 DEF EndsReads, Returns
  <2> QED
    BY <2>2, <2>9 DEF ReadsOn
<1> QED
  BY <1>2, <1>3

\* The tokens of the other formats' records: the one that opens it, one within
\* it, a malformed one, and the one that closes it.
Opening == IF format = "mrk" THEN "line" ELSE IF format = "marcxml" THEN "<record>" ELSE "{"
Within  == IF format = "mrk" THEN "line" ELSE IF format = "marcxml" THEN "child" ELSE "member"
Odd     == IF format = "mrk" THEN "badline" ELSE IF format = "marcxml" THEN "badchild" ELSE "badmember"
Closing == IF format = "mrk" THEN "blank" ELSE IF format = "marcxml" THEN "</record>" ELSE "}"

\* Record k is made of them.
LEMMA OtherTokens ==
  ASSUME Doc, format # "iso2709", NEW k \in 1..N, NEW s, s = Start(k)
  PROVE  /\ s = 4 * k - 3 + Outer(format) /\ s \in Nat \ {0}
         /\ s <= end => input[s] = Opening
         /\ s + 1 <= end /\ kinds[k] = "bad" => input[s + 1] = Odd
         /\ s + 1 <= end /\ kinds[k] # "bad" => input[s + 1] = Within
         /\ s + 2 <= end => input[s + 2] = Within
         /\ s + 3 <= end => input[s + 3] = Closing
<1>1. s = 4 * k - 3 + Outer(format) /\ s \in Nat \ {0} /\ N \in Nat
  BY Starts, DocNumbers
<1>2. format \in JsonFormats \cup {"marcxml", "mrk"} /\ "mrk" \notin JsonFormats /\ "marcxml" \notin JsonFormats
  BY DEF Doc, AllFormats, JsonFormats
<1>3. \A j \in 0..3 : s + j <= end => input[s + j] = Pieces(format, kinds[k])[j + 1]
  BY DEF Doc, Length
<1>4. PICK second : second = IF kinds[k] = "bad" THEN Odd ELSE Within
  OBVIOUS
<1>5. PICK t : t = Pieces(format, kinds[k])
  OBVIOUS
<1>6. t = <<Opening, second, Within, Closing>>
  <2>1. CASE format \in JsonFormats
    BY <1>2, <1>4, <1>5, <2>1, RecordTokens DEF Doc, Opening, Within, Odd, Closing
  <2>2. CASE format = "marcxml"
    BY <1>2, <1>4, <1>5, <2>2, RecordTokens DEF Doc, Opening, Within, Odd, Closing
  <2>3. CASE format = "mrk"
    BY <1>2, <1>4, <1>5, <2>3, RecordTokens DEF Doc, Opening, Within, Odd, Closing
  <2> QED
    BY <1>2, <2>1, <2>2, <2>3
<1>7. t[1] = Opening /\ t[2] = second /\ t[3] = Within /\ t[4] = Closing
  BY <1>6
<1>8. /\ s + 0 <= end => input[s + 0] = t[1]
      /\ s + 1 <= end => input[s + 1] = t[2]
      /\ s + 2 <= end => input[s + 2] = t[3]
      /\ s + 3 <= end => input[s + 3] = t[4]
  BY <1>3, <1>5
<1>9. s + 0 = s
  BY <1>1
<1>10. /\ s <= end => input[s] = Opening
       /\ s + 1 <= end => input[s + 1] = second
       /\ s + 2 <= end => input[s + 2] = Within
       /\ s + 3 <= end => input[s + 3] = Closing
  BY <1>7, <1>8, <1>9
<1> QED
  BY <1>1, <1>4, <1>10

\* What is around the records of a document.
LEMMA OuterTokens ==
  ASSUME Doc
  PROVE  /\ end <= 2 * Outer(format) + Length(format) * N
         /\ Outer(format) \in {0, 1}
         /\ format = "marcxml" =>
              /\ end >= 1 => input[1] = "<collection>"
              /\ end = Start(N + 1) => input[end] = "</collection>"
         /\ format = "marcjson" =>
              /\ end >= 1 => input[1] = "["
              /\ end = Start(N + 1) => input[end] = "]"
<1>1. format = "marcxml" => Outer(format) = 1 /\ Wrapper(format) = << <<"<collection>">>, <<"</collection>">> >>
  BY DEF Outer, Wrapper
<1>2. format = "marcjson" => Outer(format) = 1 /\ Wrapper(format) = << <<"[">>, <<"]">> >>
  BY DEF Outer, Wrapper
<1> QED
  BY <1>1, <1>2 DEF Doc, Outer

\* No record begins where the document is over.
LEMMA LastStart ==
  ASSUME Doc, format # "iso2709"
  PROVE  Start(N + 1) = 4 * N + 1 + Outer(format) /\ end <= Start(N + 1) - 1 + Outer(format)
<1>1. N \in Nat /\ Start(N + 1) = 4 * (N + 1) - 3 + Outer(format)
  <2>1. N \in Nat /\ N + 1 \in Nat
    BY DocNumbers
  <2>2. \A k \in Nat : Start(k) = 4 * k - 3 + Outer(format)
    BY Starts
  <2> QED
    BY <2>1, <2>2
<1> QED
  BY <1>1, OuterTokens DEF Length

\* Where the children, or the members, of a record end or one is refused.
LEMMA BodyEnds ==
  ASSUME Doc, format \in JsonFormats \cup {"marcxml"}, NEW k \in 1..N, NEW s, s = Start(k), s <= end
  PROVE  /\ kinds[k] = "bad" => NextNotOf(s, {Within}) = s + 1
         /\ kinds[k] # "bad" => NextNotOf(s, {Within}) = IF s + 3 <= end THEN s + 3 ELSE end + 1
<1>1. /\ format # "iso2709" /\ format # "mrk" /\ end \in Nat /\ s \in Nat \ {0}
      /\ input \in Seq(Tokens) /\ s \in 0..end
  BY DocNumbers DEF JsonFormats
<1>2. kinds[k] = "bad" => NextNotOf(s, {Within}) = s + 1
  <2>1. SUFFICES ASSUME kinds[k] = "bad" PROVE NextNotOf(s, {Within}) = s + 1
    OBVIOUS
  <2>2. PICK q : q = s + 1
    OBVIOUS
  <2>3. s + 1 <= end => input[s + 1] \notin {Within}
    BY <1>1, <2>1, OtherTokens DEF Within, Odd
  <2>4. /\ q \in (s + 1)..(end + 1) /\ (q = end + 1 \/ input[q] \notin {Within})
        /\ \A j \in (s + 1)..(q - 1) : input[j] \in {Within}
    BY <1>1, <2>2, <2>3
  <2> QED
    BY <1>1, <2>2, <2>4, NextNotOfIs
<1>3. kinds[k] # "bad" => NextNotOf(s, {Within}) = IF s + 3 <= end THEN s + 3 ELSE end + 1
  <2>1. SUFFICES ASSUME kinds[k] # "bad"
                 PROVE  NextNotOf(s, {Within}) = IF s + 3 <= end THEN s + 3 ELSE end + 1
    OBVIOUS
  <2>2. PICK q : q = IF s + 3 <= end THEN s + 3 ELSE end + 1
    OBVIOUS
  <2>3. /\ s + 1 <= end => input[s + 1] \in {Within}
        /\ s + 2 <= end => input[s + 2] \in {Within}
        /\ s + 3 <= end => input[s + 3] \notin {Within}
    BY <1>1, <2>1, OtherTokens DEF Within, Closing
  <2>4. q \in (s + 1)..(end + 1) /\ (q = end + 1 \/ input[q] \notin {Within})
    BY <1>1, <2>2, <2>3
  <2>5. \A j \in (s + 1)..(q - 1) : (j = s + 1 \/ j = s + 2) /\ j <= end
    BY <1>1, <2>2
  <2>6. \A j \in (s + 1)..(q - 1) : input[j] \in {Within}
    BY <2>3, <2>5
  <2> QED
    BY <1>1, <2>2, <2>4, <2>6, NextNotOfIs
<1> QED
  BY <1>2, <1>3

\* What marcxml's and marcjson's Read says of a record, and where it stops.
LEMMA BodyVerdict ==
  ASSUME Doc, format \in JsonFormats \cup {"marcxml"}, NEW k \in 1..N, NEW s, s = Start(k), s <= end,
         NEW stop, stop = NextNotOf(s, {Within})
  PROVE  /\ stop > end => /\ Verdict(k) = IF format = "marcxml" THEN "error" ELSE tail
                          /\ StopAt(k) = end
         /\ stop <= end => /\ Verdict(k) = IF input[stop] = Closing THEN "record" ELSE "error"
                           /\ StopAt(k) = stop
<1>1. /\ format # "iso2709" /\ format # "mrk" /\ end \in Nat /\ s \in Nat \ {0} /\ N \in Nat
      /\ kinds[k] \in {"good", "bad"} /\ (format \in JsonFormats <=> format # "marcxml")
  BY DocNumbers DEF JsonFormats
<1>2. Complete(k) <=> s + 3 <= end
  BY <1>1, Shapes DEF Complete, Doc, Length
<1>3. Refused(k) <=> kinds[k] = "bad" /\ s + 1 <= end
  BY <1>1 DEF Refused
<1>4. Verdict(k) = IF kinds[k] = "good" /\ s + 3 <= end THEN "record"
                   ELSE IF format # "marcxml" /\ ~Refused(k) THEN tail ELSE "error"
  BY <1>1, <1>2 DEF Verdict, Accepted
<1>5. StopAt(k) = IF Refused(k) THEN s + 1 ELSE IF s + 3 <= end THEN s + 3 ELSE end
  BY <1>1, <1>3 DEF StopAt, Reach
<1>6. CASE kinds[k] = "bad"
  <2>1. stop = s + 1
    BY <1>6, BodyEnds
  <2>2. s + 1 <= end => input[s + 1] # Closing
    BY <1>1, <1>6, OtherTokens DEF Odd, Closing
  <2>3. CASE s + 1 <= end
    <3>1. Refused(k) /\ stop <= end /\ ~(stop > end) /\ input[stop] # Closing
      BY <1>1, <1>3, <1>6, <2>1, <2>2, <2>3
    <3> QED
      BY <1>4, <1>5, <1>6, <2>1, <3>1
  <2>4. CASE ~(s + 1 <= end)
    <3>1. ~Refused(k) /\ ~(s + 3 <= end) /\ stop > end /\ ~(stop <= end)
      BY <1>1, <1>3, <2>1, <2>4
    <3> QED
      BY <1>4, <1>5, <1>6, <3>1
  <2> QED
    BY <2>3, <2>4
<1>7. CASE kinds[k] = "good"
  <2>1. stop = IF s + 3 <= end THEN s + 3 ELSE end + 1
    BY <1>7, BodyEnds
  <2>2. s + 3 <= end => input[s + 3] = Closing
    BY <1>1, OtherTokens
  <2>3. ~Refused(k)
    BY <1>3, <1>7
  <2>4. CASE s + 3 <= end
    <3>1. stop <= end /\ ~(stop > end) /\ input[stop] = Closing
      BY <1>1, <2>1, <2>2, <2>4
    <3> QED
      BY <1>4, <1>5, <1>7, <2>1, <2>3, <2>4, <3>1
  <2>5. CASE ~(s + 3 <= end)
    <3>1. stop > end /\ ~(stop <= end)
      BY <1>1, <2>1, <2>5
    <3> QED
      BY <1>4, <1>5, <2>3, <2>5, <3>1
  <2> QED
    BY <2>4, <2>5
<1> QED
  BY <1>1, <1>6, <1>7

\* marcxml.Reader.Read finds the next record, also after one it refused.
LEMMA XmlReadsOn ==
  ASSUME Steady, format = "marcxml", XmlRead
  PROVE  ReadsOn
<1>1. /\ end \in Nat /\ N \in Nat /\ Reads \in 0..N /\ input \in Seq(Tokens)
      /\ tail \in {"eof", "error"} /\ Outer(format) = 1 /\ Regular
  BY DocNumbers DEF Steady, InOrder, Reads, Outer, Regular
<1>2. ~Swallowed(Reads + 1)
  <2>1. Reads > 0 => kinds[Reads] # "oversized"
    BY <1>1, DocNumbers DEF Steady
  <2> QED
    BY <1>1, <2>1 DEF Swallowed
<1>3. Start(N + 1) = 4 * N + 2 /\ end <= 4 * N + 2 /\ Start(Reads + 1) = 4 * Reads + 2
  <2>1. Start(N + 1) = 4 * N + 1 + Outer(format) /\ end <= Start(N + 1) - 1 + Outer(format)
    BY LastStart DEF Steady
  <2>2. Start(Reads + 1) = 4 * (Reads + 1) - 3 + Outer(format)
    BY <1>1, Starts DEF Steady
  <2> QED
    BY <1>1, <2>1, <2>2
<1>4. /\ pos \in 0..end
      /\ \A j \in (pos + 1)..end : (Reads + 1 <= N => j < Start(Reads + 1)) => input[j] # "<record>"
  <2>1. CASE Reads = 0
    <3>1. pos = 0 /\ Start(1) = 2
      BY <1>3, <2>1 DEF Steady, Standing
    <3>2. ASSUME NEW j \in (pos + 1)..end, Reads + 1 <= N => j < Start(Reads + 1)
          PROVE  input[j] # "<record>"
      <4>1. j = 1 \/ (N = 0 /\ j = 2 /\ end = 2)
        BY <1>1, <1>3, <2>1, <3>1, <3>2
      <4>2. end >= 1
        BY <1>1, <3>1
      <4> QED
        BY <1>3, <4>1, <4>2, OuterTokens DEF Steady
    <3> QED
      BY <1>1, <3>1, <3>2
  <2>2. CASE Reads > 0
    <3>1. PICK s : s = Start(Reads)
      OBVIOUS
    <3>2. Reads \in 1..N /\ s <= end /\ s = 4 * Reads - 2
      BY <1>1, <2>2, <3>1, Starts DEF Steady, InOrder
    <3>3. pos = StopAt(Reads) /\ (Refused(Reads) => s + 1 <= end)
      BY <1>1, <2>2, <3>1, <3>2 DEF Steady, Standing, Refused
    <3>4. pos \in (s + 1)..end \/ pos = end
      <4>1. Reach(Reads) \in {1, 3} /\ (Refused(Reads) => Reach(Reads) = 1)
        BY DEF Reach
      <4>2. pos = IF s + Reach(Reads) <= end THEN s + Reach(Reads) ELSE end
        BY <3>1, <3>3 DEF StopAt
      <4> QED
        BY <1>1, <3>2, <4>1, <4>2
    <3>5. ASSUME NEW j \in (pos + 1)..end, Reads + 1 <= N => j < Start(Reads + 1)
          PROVE  input[j] # "<record>"
      <4>1. j = s + 2 \/ j = s + 3 \/ (Reads = N /\ j = 4 * N + 2 /\ end = 4 * N + 2)
        BY <1>1, <1>3, <3>2, <3>4, <3>5
      <4>2. s + 2 <= end => input[s + 2] = "child"
        BY <3>1, <3>2, OtherTokens DEF Steady, Within
      <4>3. s + 3 <= end => input[s + 3] = "</record>"
        BY <3>1, <3>2, OtherTokens DEF Steady, Closing
      <4>4. end = 4 * N + 2 => input[end] = "</collection>"
        BY <1>3, OuterTokens DEF Steady
      <4> QED
        BY <1>1, <3>5, <4>1, <4>2, <4>3, <4>4
    <3>6. pos \in 0..end
      BY <1>1, <3>2, <3>4
    <3> QED
      BY <3>5, <3>6
  <2> QED
    BY <1>1, <2>1, <2>2
<1>5. CASE Reads + 1 <= N /\ Start(Reads + 1) <= end
  <2>1. PICK k : k = Reads + 1
    OBVIOUS
  <2>2. PICK s : s = Start(k)
    OBVIOUS
  <2>3. k \in 1..N /\ s \in 0..end /\ input[s] = "<record>"
    BY <1>1, <1>5, <2>1, <2>2, OtherTokens, DocNumbers DEF Steady, Opening
  <2>4. pos < s
    <3>1. CASE Reads = 0
      BY <1>1, <1>3, <2>1, <2>2, <3>1 DEF Steady, Standing
    <3>2. CASE Reads > 0
      <4>1. Start(Reads) = 4 * Reads - 2
        BY <1>1, Starts DEF Steady
      <4> QED
        BY <1>1, <1>3, <1>5, <2>1, <2>2, <3>2, <4>1 DEF Steady, Standing, StopAt, Reach
    <3> QED
      BY <1>1, <3>1, <3>2
  <2>5. NextOf(pos, {"<record>"}) = s
    <3>1. s \in (pos + 1)..(end + 1) /\ \A j \in (pos + 1)..(s - 1) : j \in (pos + 1)..end /\ j < s
      BY <1>1, <1>4, <2>3, <2>4
    <3>2. \A j \in (pos + 1)..(s - 1) : input[j] \notin {"<record>"}
      BY <1>4, <2>1, <2>2, <3>1
    <3> QED
      BY <1>1, <1>4, <2>3, <3>1, <3>2, NextOfIs
  <2>6. PICK stop : stop = NextNotOf(s, {"child"})
    OBVIOUS
  <2>7. stop \in (s + 1)..(end + 1)
    BY <1>1, <2>3, <2>6, NextNotOfRange
  <2>8. /\ stop > end => Verdict(k) = "error" /\ StopAt(k) = end
        /\ stop <= end => /\ Verdict(k) = IF input[stop] = "</record>" THEN "record" ELSE "error"
                          /\ StopAt(k) = stop
    <3>1. Within = "child" /\ Closing = "</record>"
      BY DEF Within, Closing
    <3> QED
      BY <1>1, <1>5, <2>1, <2>2, <2>3, <2>6, <3>1, BodyVerdict DEF Steady
  <2>9. Returns(Verdict(k), s, StopAt(k))
    <3>1. s <= end /\ ~(s > end) /\ (stop > end <=> ~(stop <= end))
      BY <1>1, <2>3, <2>7
    <3> QED
      BY <2>5, <2>6, <2>8, <3>1 DEF XmlRead, XmlBody
  <2> QED
    BY <1>2, <1>5, <2>1, <2>2, <2>3, <2>9 DEF ReadsOn, ReadsNext, Returns
<1>6. CASE ~(Reads + 1 <= N /\ Start(Reads + 1) <= end)
  <2>1. NextOf(pos, {"<record>"}) = end + 1
    <3>1. PICK q : q = end + 1
      OBVIOUS
    <3>2. q \in (pos + 1)..(end + 1) /\ \A j \in (pos + 1)..(q - 1) : j \in (pos + 1)..end
      BY <1>1, <1>4, <3>1
    <3>3. \A j \in (pos + 1)..(q - 1) : Reads + 1 <= N => j < Start(Reads + 1)
      BY <1>1, <1>3, <1>6, <3>2
    <3>4. \A j \in (pos + 1)..(q - 1) : input[j] \notin {"<record>"}
      BY <1>4, <3>2, <3>3
    <3> QED
      BY <1>1, <1>4, <3>1, <3>2, <3>4, NextOfIs
  <2>2. end + 1 > end /\ ~(end + 1 <= end) /\ end + 1 \in 1..(end + 1)
    BY <1>1
  <2>3. \E w \in {"eof", "error"} : Returns(w, end + 1, end)
    BY <1>1, <2>1, <2>2 DEF XmlRead
  <2>4. EndsReads
    BY <2>2, <2>3 DEF EndsReads, Returns
  <2> QED
    BY <1>1, <1>3, <1>6, <2>4 DEF ReadsOn
<1> QED
  BY <1>5, <1>6

\* What mrk's Read says of a block of lines, and where it stops.
LEMMA MrkVerdict ==
  ASSUME Doc, format = "mrk", NEW k \in 1..N, NEW s, s = Start(k), s <= end,
         NEW stop, stop = MrkBody(s)
  PROVE  /\ stop \in (s + 1)..(end + 1)
         /\ stop > end => Verdict(k) = "record" /\ StopAt(k) = end
         /\ stop <= end => /\ Verdict(k) = IF input[stop] = "blank" THEN "record" ELSE "error"
                           /\ StopAt(k) = stop
<1>1. /\ end \in Nat /\ s \in Nat \ {0} /\ N \in Nat /\ s - 1 \in 0..end
      /\ input \in Seq(Tokens) /\ kinds[k] \in {"good", "bad"} /\ "mrk" \notin JsonFormats
  BY DocNumbers DEF JsonFormats
<1>2. Refused(k) <=> kinds[k] = "bad" /\ s + 1 <= end
  BY <1>1 DEF Refused
<1>3. Verdict(k) = IF ~Refused(k) THEN "record" ELSE "error"
  BY <1>1, <1>2 DEF Verdict, Accepted
<1>4. StopAt(k) = IF Refused(k) THEN s + 1 ELSE IF s + 3 <= end THEN s + 3 ELSE end
  BY <1>1, <1>2 DEF StopAt, Reach
<1>5. /\ input[s] = "line"
      /\ s + 1 <= end => input[s + 1] = IF kinds[k] = "bad" THEN "badline" ELSE "line"
      /\ s + 2 <= end => input[s + 2] = "line"
      /\ s + 3 <= end => input[s + 3] = "blank"
  BY OtherTokens DEF Opening, Within, Odd, Closing
<1>6. PICK q : q = IF Refused(k) THEN s + 1 ELSE IF s + 3 <= end THEN s + 3 ELSE end + 1
  OBVIOUS
<1>7. q \in (s + 1)..(end + 1) /\ q \in (s - 1 + 1)..(end + 1)
  BY <1>1, <1>2, <1>6
<1>8. q = end + 1 \/ input[q] \in {"badline", "blank"}
  BY <1>2, <1>5, <1>6
<1>9. \A j \in (s - 1 + 1)..(q - 1) : input[j] \notin {"badline", "blank"}
  <2>1. TAKE j \in (s - 1 + 1)..(q - 1)
  <2>2. j <= end /\ (j = s \/ (j = s + 1 /\ ~Refused(k)) \/ (j = s + 2 /\ ~Refused(k)))
    BY <1>1, <1>6
  <2>3. j = s + 1 => input[j] = "line"
    BY <1>1, <1>2, <1>5, <2>2
  <2> QED
    BY <1>5, <2>2, <2>3
<1>10. stop = q
  <2>1. NextOf(s - 1, {"badline", "blank"}) = q
    BY <1>1, <1>7, <1>8, <1>9, NextOfIs
  <2> QED
    BY <2>1 DEF MrkBody
<1>11. CASE Refused(k)
  <2>1. stop = s + 1 /\ stop <= end /\ ~(stop > end) /\ input[stop] = "badline"
    BY <1>1, <1>2, <1>5, <1>6, <1>10, <1>11
  <2> QED
    BY <1>3, <1>4, <1>7, <1>10, <1>11, <2>1
<1>12. CASE ~Refused(k) /\ s + 3 <= end
  <2>1. stop = s + 3 /\ stop <= end /\ ~(stop > end) /\ input[stop] = "blank"
    BY <1>1, <1>5, <1>6, <1>10, <1>12
  <2> QED
    BY <1>3, <1>4, <1>7, <1>10, <1>12, <2>1
<1>13. CASE ~Refused(k) /\ ~(s + 3 <= end)
  <2>1. stop = end + 1 /\ ~(stop <= end)
    BY <1>1, <1>6, <1>10, <1>13
  <2> QED
    BY <1>3, <1>4, <1>7, <1>10, <1>13, <2>1
<1> QED
  BY <1>11, <1>12, <1>13

\* The Readers of these formats stop right before the next record, as long as
\* they accept what they read.
LEMMA StandsBefore ==
  ASSUME Steady, format \in JsonFormats \cup {"mrk"}
  PROVE  /\ Stops = {} /\ ~Regular /\ ~Swallowed(Reads + 1)
         /\ Reads = 0 => pos = 0
         /\ Reads > 0 => /\ pos \in 1..end
                         /\ pos = Start(Reads + 1) - 1 \/ (format = "mrk" /\ pos = end /\ Start(Reads + 1) > end)
<1>1. end \in Nat /\ N \in Nat /\ Reads \in 0..N /\ format # "iso2709" /\ format # "marcxml"
  BY DocNumbers DEF Steady, InOrder, Reads, JsonFormats
<1>2. Stops = {} /\ ~Regular
  BY <1>1 DEF Steady, Regular
<1>3. Reads > 0 => kinds[Reads] \in {"good", "bad"}
  BY <1>1, DocNumbers DEF Steady
<1>4. ~Swallowed(Reads + 1)
  BY <1>1, <1>3 DEF Swallowed
<1>5. CASE Reads > 0
  <2>1. PICK k : k = Reads
    OBVIOUS
  <2>2. PICK s : s = Start(k)
    OBVIOUS
  <2>3. /\ k \in 1..N /\ s \in Nat \ {0} /\ s <= end /\ Accepted(k) /\ kinds[k] \in {"good", "bad"}
        /\ Start(k + 1) = s + 4
    <3>1. k \in 1..N /\ k \in 1..Reads /\ k \in Nat
      BY <1>1, <1>5, <2>1
    <3>2. Start(k + 1) = s + 4
      BY <1>1, <2>2, <3>1, Starts DEF Steady, Length
    <3> QED
      BY <1>2, <1>3, <1>5, <2>1, <2>2, <3>1, <3>2, NoStop, DocNumbers DEF Steady
  <2>4. ~Refused(k) /\ (format # "mrk" => s + 3 <= end)
    <3>1. Complete(k) /\ format # "mrk" => s + 3 <= end
      BY <1>1, <2>2, <2>3, Shapes DEF Complete, Steady, Doc, Length
    <3> QED
      BY <2>3, <3>1 DEF Accepted, Refused
  <2>5. pos = IF s + 3 <= end THEN s + 3 ELSE end
    BY <1>1, <1>5, <2>1, <2>2, <2>4 DEF Steady, Standing, StopAt, Reach
  <2>6. pos \in 1..end /\ (pos = s + 3 \/ (format = "mrk" /\ pos = end /\ s + 4 > end))
    BY <1>1, <2>3, <2>4, <2>5
  <2> QED
    BY <1>2, <1>4, <1>5, <2>1, <2>3, <2>6
<1>6. CASE Reads = 0
  BY <1>1, <1>2, <1>4, <1>6 DEF Steady, Standing
<1> QED
  BY <1>1, <1>5, <1>6

\* mrk.Reader.Read reads the next block of lines.
LEMMA MrkReadsOn ==
  ASSUME Steady, format = "mrk", MrkRead
  PROVE  ReadsOn
<1>1. /\ end \in Nat /\ N \in Nat /\ Reads \in 0..N /\ input \in Seq(Tokens)
      /\ tail \in {"eof", "error"} /\ Outer(format) = 0
  BY DocNumbers DEF Steady, InOrder, Reads, Outer
<1>2. PICK s : s = Start(Reads + 1)
  OBVIOUS
<1>3. s = 4 * Reads + 1
  BY <1>1, <1>2, Starts DEF Steady
<1>4. pos \in 0..end /\ ~Regular /\ ~Swallowed(Reads + 1) /\ (s <= end => pos = s - 1) /\ (s > end => pos = end)
  <2>1. CASE Reads = 0
    BY <1>1, <1>2, <1>3, <2>1, StandsBefore
  <2>2. CASE Reads > 0
    BY <1>1, <1>2, <1>3, <2>2, StandsBefore
  <2> QED
    BY <1>1, <2>1, <2>2
<1>5. CASE s <= end
  <2>1. PICK k : k = Reads + 1
    OBVIOUS
  <2>2. k \in 1..N /\ s = Start(k)
    BY <1>1, <1>2, <1>5, <2>1, BegunIsRecord DEF Steady
  <2>3. input[s] = "line"
    BY <1>5, <2>2, OtherTokens DEF Steady, Opening
  <2>4. NextOf(pos, {"line", "badline"}) = s
    <3>1. pos + 1 = s
      BY <1>1, <1>3, <1>4, <1>5
    <3> QED
      BY <1>1, <1>4, <2>3, <3>1, NextOfHere
  <2>5. PICK stop : stop = MrkBody(s)
    OBVIOUS
  <2>6. /\ stop \in (s + 1)..(end + 1)
        /\ stop > end => Verdict(k) = "record" /\ StopAt(k) = end
        /\ stop <= end => /\ Verdict(k) = IF input[stop] = "blank" THEN "record" ELSE "error"
                          /\ StopAt(k) = stop
    BY <1>5, <2>2, <2>5, MrkVerdict DEF Steady
  <2>7. Returns(Verdict(k), s, StopAt(k))
    <3>1. ~(s > end) /\ (stop > end <=> ~(stop <= end))
      BY <1>1, <1>3, <1>5, <2>6
    <3> QED
      BY <1>5, <2>4, <2>5, <2>6, <3>1 DEF MrkRead
  <2> QED
    BY <1>4, <1>5, <2>1, <2>2, <2>7 DEF ReadsOn, ReadsNext, Returns
<1>6. CASE s > end
  <2>1. NextOf(pos, {"line", "badline"}) = end + 1
    <3>1. pos = end
      BY <1>4, <1>6
    <3> QED
      BY <1>1, <1>4, <3>1, NextOfHere
  <2>2. MrkBody(end + 1) = end + 1
    <3>1. end + 1 - 1 = end /\ end \in 0..end
      BY <1>1
    <3>2. NextOf(end, {"badline", "blank"}) = end + 1
      BY <1>1, <3>1, NextOfHere
    <3> QED
      BY <3>1, <3>2 DEF MrkBody
  <2>3. end + 1 > end /\ ~(end + 1 <= end) /\ end + 1 \in 1..(end + 1)
    BY <1>1
  <2>4. Returns(tail, end + 1, end)
    BY <2>1, <2>2, <2>3 DEF MrkRead
  <2>5. EndsReads
    BY <1>1, <1>4, <2>3, <2>4 DEF EndsReads, Returns
  <2> QED
    BY <1>2, <1>6, <2>5 DEF ReadsOn
<1> QED
  BY <1>1, <1>3, <1>5, <1>6

\* marcjson.Reader.Read reads the next object.
LEMMA JsonReadsOn ==
  ASSUME Steady, format \in JsonFormats, JsonRead
  PROVE  ReadsOn
<1>1. /\ end \in Nat /\ N \in Nat /\ Reads \in 0..N /\ input \in Seq(Tokens)
      /\ tail \in {"eof", "error"} /\ Outer(format) \in {0, 1}
      /\ format # "iso2709" /\ format # "mrk" /\ format # "marcxml"
      /\ Outer(format) = IF format = "marcjson" THEN 1 ELSE 0
  BY DocNumbers DEF Steady, InOrder, Reads, Outer, JsonFormats
<1>2. PICK m \in 0..N : m = Reads
  BY <1>1
<1>3. PICK t : t = Start(m + 1)
  OBVIOUS
<1>4. t = 4 * m + 1 + Outer(format)
  BY <1>1, <1>3, Starts DEF Steady
<1>5. ~Regular /\ ~Swallowed(m + 1) /\ (m = 0 => pos = 0) /\ (m > 0 => pos = t - 1 /\ pos \in 1..end)
  BY <1>1, <1>2, <1>3, StandsBefore
<1>6. /\ m + 1 \in 1..N /\ t <= end => input[t] = "{"
      /\ m = N /\ t <= end => t = end /\ input[t] = "]"
  <2>1. m + 1 \in 1..N /\ t <= end => input[t] = "{"
    <3>1. PICK k : k = m + 1
      OBVIOUS
    <3>2. k \in 1..N /\ t <= end => input[t] = "{"
      BY <1>1, <1>3, <3>1, OtherTokens DEF Steady, Opening
    <3> QED
      BY <3>1, <3>2
  <2>2. m = N /\ t <= end => t = end /\ Outer(format) = 1
    BY <1>1, <1>3, <1>4, LastStart DEF Steady
  <2>3. m = N /\ t <= end => input[t] = "]"
    BY <1>1, <1>3, <2>2, OuterTokens DEF Steady
  <2> QED
    BY <2>1, <2>2, <2>3
<1>7. end > 0 => (input[1] = "[" <=> format = "marcjson")
  <2>1. end > 0 /\ format = "marcjson" => input[1] = "["
    BY <1>1, OuterTokens DEF Steady
  <2>2. end > 0 /\ format # "marcjson" => input[1] = "{"
    <3>1. SUFFICES ASSUME end > 0, format # "marcjson" PROVE input[1] = "{"
      OBVIOUS
    <3>2. Start(1) = 1
      BY <1>1, <3>1, Starts DEF Steady
    <3>3. 1 \in 1..N
      BY <1>1, <3>1, <3>2, BegunIsRecord DEF Steady
    <3>4. PICK k : k = 1
      OBVIOUS
    <3>5. PICK b : b = Start(k)
      OBVIOUS
    <3>6. b = 1
      BY <3>2, <3>4, <3>5
    <3>7. k \in 1..N /\ b <= end
      BY <1>1, <3>1, <3>3, <3>4, <3>6
    <3>8. Doc /\ format # "iso2709" /\ format # "mrk" /\ format # "marcxml"
      BY <1>1 DEF Steady
    <3>9. input[b] = "{"
      BY <3>5, <3>7, <3>8, OtherTokens DEF Opening
    <3> QED
      BY <3>6, <3>9
  <2> QED
    BY <2>1, <2>2
<1>8. results = <<>> <=> m = 0
  BY <1>2 DEF Steady, Reads
<1>9. PICK s : s = IF (end > 0 /\ input[1] = "[") /\ results = <<>> THEN 2 ELSE pos + 1
  OBVIOUS
<1>10. s = t \/ (end = 0 /\ s = 1 /\ m = 0 /\ t > end)
  <2>1. CASE m = 0
    <3>1. CASE end = 0
      BY <1>1, <1>4, <1>5, <1>9, <2>1, <3>1
    <3>2. CASE end > 0
      BY <1>1, <1>4, <1>5, <1>7, <1>8, <1>9, <2>1, <3>2
    <3> QED
      BY <1>1, <3>1, <3>2
  <2>2. CASE m > 0
    BY <1>1, <1>4, <1>5, <1>8, <1>9, <2>2
  <2> QED
    BY <1>2, <2>1, <2>2
<1>11. PICK stop : stop = JsonBody(s)
  OBVIOUS
<1>12. \/ s > end /\ Returns(tail, s, end)
       \/ s <= end /\ input[s] = "]" /\ Returns("eof", s, s - 1)
       \/ s <= end /\ input[s] = "{" /\ stop > end /\ Returns(tail, s, end)
       \/ s <= end /\ input[s] = "{" /\ stop <= end
            /\ Returns(IF input[stop] = "}" THEN "record" ELSE "error", s, stop)
  BY <1>9, <1>11 DEF JsonRead
<1>13. s \in Nat \ {0} /\ s <= end + 1
  <2>1. CASE m = 0
    BY <1>1, <1>4, <1>5, <1>9, <2>1
  <2>2. CASE m > 0
    BY <1>1, <1>4, <1>5, <1>10, <2>2
  <2> QED
    BY <1>2, <2>1, <2>2
<1>14. CASE m + 1 \in 1..N /\ t <= end
  <2>1. PICK k : k = m + 1
    OBVIOUS
  <2>2. s = t /\ s = Start(k) /\ k \in 1..N /\ s <= end /\ input[s] = "{"
    <3>1. t > 0
      BY <1>1, <1>2, <1>4
    <3>2. s = t
      BY <1>1, <1>4, <1>10, <1>14, <3>1
    <3> QED
      BY <1>3, <1>6, <1>14, <2>1, <3>2
  <2>3. Within = "member" /\ Closing = "}" /\ stop = NextNotOf(s, {Within})
    BY <1>1, <1>11 DEF Within, Closing, JsonBody
  <2>4. /\ stop > end => Verdict(k) = tail /\ StopAt(k) = end
        /\ stop <= end => /\ Verdict(k) = IF input[stop] = "}" THEN "record" ELSE "error"
                          /\ StopAt(k) = stop
    BY <1>1, <2>2, <2>3, BodyVerdict DEF Steady
  <2>5. Returns(Verdict(k), s, StopAt(k))
    <3>1. ~(s > end) /\ input[s] # "]"
      <4>1. ~(s > end)
        <5>1. s <= end /\ s \in Nat /\ end \in Nat
          BY <1>1, <1>13, <2>2
        <5> QED
          BY <5>1
      <4>2. input[s] # "]"
        BY <2>2
      <4> QED
        BY <4>1, <4>2
    <3>2. \/ stop > end /\ Returns(tail, s, end)
          \/ stop <= end /\ Returns(IF input[stop] = "}" THEN "record" ELSE "error", s, stop)
      BY <1>12, <3>1
    <3> QED
      BY <2>4, <3>2
  <2> QED
    BY <1>2, <1>5, <1>14, <1>3, <2>1, <2>2, <2>5 DEF ReadsOn, ReadsNext, Returns
<1>15. CASE ~(m + 1 \in 1..N /\ t <= end)
  <2>1. s > end \/ input[s] = "]"
    <3>1. CASE m = N /\ t <= end
      <4>1. t > 0
        BY <1>1, <1>2, <1>4
      <4>2. s = t
        BY <1>1, <1>4, <1>10, <3>1, <4>1
      <4> QED
        BY <1>6, <3>1, <4>2
    <3>2. CASE t > end
      BY <1>1, <1>4, <1>10, <3>2
    <3>3. m = N \/ t > end
      BY <1>1, <1>2, <1>4, <1>15
    <3> QED
      BY <1>1, <1>4, <3>1, <3>2, <3>3
  <2>2. \E w \in {"eof", "error"} : \E p : Returns(w, s, p)
    <3>1. CASE s > end
      <4>1. ~(s <= end)
        BY <1>1, <1>13, <3>1
      <4> QED
        BY <1>1, <1>12, <4>1
    <3>2. CASE input[s] = "]"
      <4>1. Returns(tail, s, end) \/ Returns("eof", s, s - 1)
        BY <1>12, <3>2
      <4> QED
        BY <1>1, <4>1
    <3> QED
      BY <2>1, <3>1, <3>2
  <2>3. EndsReads
    BY <1>1, <1>5, <1>13, <2>2 DEF EndsReads, Returns
  <2>4. m + 1 <= N => t > end
    BY <1>1, <1>2, <1>4, <1>15
  <2> QED
    BY <1>2, <1>3, <2>3, <2>4 DEF ReadsOn
<1> QED
  BY <1>14, <1>15

-----------------------------------------------------------------------------
\* The ranges of the variables, also of a Reader that has lost its place.

\* A Read consumes tokens there are, and says something about one of them.
LEMMA ReadReturns ==
  ASSUME Typed, Read
  PROVE  \E w \in {"record", "error", "eof"} : \E s \in 1..(end + 1) : \E p \in 0..end : Returns(w, s, p)
<1>1. end \in Nat /\ input \in Seq(Tokens) /\ tail \in {"eof", "error"} /\ pos \in 0..end
  BY DocNumbers DEF Typed, TypeOK
<1>2. CASE format = "iso2709"
  <2>1. IsoRead
    BY <1>2 DEF Read, JsonFormats
  <2>2. PICK s : s = NextNotOf(pos, Separators)
    OBVIOUS
  <2>3. s \in (pos + 1)..(end + 1) /\ s \in 1..(end + 1)
    BY <1>1, <2>2, NextNotOfRange
  <2>4. s <= end /\ ~IsoShort(s) => IsoEnd(s) \in 0..end
    <3>1. SUFFICES ASSUME s <= end, ~IsoShort(s) PROVE IsoEnd(s) \in 0..end
      OBVIOUS
    <3>2. s + 1 <= end /\ ~(IsoEnd(s) > end) /\ s + LeaderLen - 1 = s + 1
      BY <1>1, <2>3, <3>1 DEF IsoShort, LeaderLen
    <3>3. CASE Declares(s)
      <4>1. Declared(s) \in {5, 7, 0} /\ Declared(s) >= 2
        BY <3>3 DEF Declares, Declared, LeaderLen
      <4>2. IsoEnd(s) = s + Declared(s) - 1
        BY <3>3 DEF IsoEnd
      <4> QED
        BY <1>1, <2>3, <3>2, <4>1, <4>2
    <3>4. CASE ~Declares(s)
      <4>1. PICK t : t = NextOf(s + 1, {"terminator"})
        OBVIOUS
      <4>2. s + 1 \in 0..end
        BY <1>1, <2>3, <3>2
      <4>3. t \in (s + 1 + 1)..(end + 1)
        BY <1>1, <4>1, <4>2, NextOfRange
      <4>4. IsoEnd(s) = IF t > end THEN end ELSE t
        BY <3>2, <3>4, <4>1 DEF IsoEnd
      <4> QED
        BY <1>1, <2>3, <4>3, <4>4
    <3> QED
      BY <3>3, <3>4
  <2>5. \A e : DecodeIso(s, e) \in {"record", "error"}
    BY DEF DecodeIso
  <2>6. \/ Returns(tail, s, end) \/ Returns("error", s, end)
        \/ s <= end /\ ~IsoShort(s) /\ Returns(DecodeIso(s, IsoEnd(s)), s, IsoEnd(s))
    BY <2>1, <2>2 DEF IsoRead
  <2> QED
    BY <1>1, <2>3, <2>4, <2>5, <2>6
<1>3. CASE format \in JsonFormats
  <2>1. JsonRead
    BY <1>3 DEF Read, JsonFormats
  <2>2. PICK s : s = IF (end > 0 /\ input[1] = "[") /\ results = <<>> THEN 2 ELSE pos + 1
    OBVIOUS
  <2>3. s \in 1..(end + 1)
    BY <1>1, <2>2
  <2>4. PICK stop : stop = JsonBody(s)
    OBVIOUS
  <2>5. s <= end => stop \in (s + 1)..(end + 1)
    BY <1>1, <2>3, <2>4, NextNotOfRange DEF JsonBody
  <2>6. \/ Returns(tail, s, end) \/ Returns("eof", s, s - 1)
        \/ s <= end /\ stop <= end /\ Returns(IF input[stop] = "}" THEN "record" ELSE "error", s, stop)
    BY <2>1, <2>2, <2>4 DEF JsonRead
  <2>7. s - 1 \in 0..end /\ end \in 0..end /\ (s <= end /\ stop <= end => stop \in 0..end)
    BY <1>1, <2>3, <2>5
  <2> QED
    BY <1>1, <2>3, <2>6, <2>7
<1>4. CASE format = "marcxml"
  <2>1. XmlRead
    BY <1>4 DEF Read, JsonFormats
  <2>2. PICK s : s = NextOf(pos, {"<record>"})
    OBVIOUS
  <2>3. s \in (pos + 1)..(end + 1) /\ s \in 1..(end + 1)
    BY <1>1, <2>2, NextOfRange
  <2>4. PICK stop : stop = XmlBody(s)
    OBVIOUS
  <2>5. s <= end => stop \in (s + 1)..(end + 1)
    BY <1>1, <2>3, <2>4, NextNotOfRange DEF XmlBody
  <2>6. \/ Returns(tail, s, end) \/ Returns("error", s, end)
        \/ s <= end /\ stop <= end /\ Returns(IF input[stop] = "</record>" THEN "record" ELSE "error", s, stop)
    BY <2>1, <2>2, <2>4 DEF XmlRead
  <2>7. end \in 0..end /\ (s <= end /\ stop <= end => stop \in 0..end)
    BY <1>1, <2>3, <2>5
  <2> QED
    BY <1>1, <2>3, <2>6, <2>7
<1>5. CASE format = "mrk"
  <2>1. MrkRead
    BY <1>5 DEF Read, JsonFormats
  <2>2. PICK s : s = NextOf(pos, {"line", "badline"})
    OBVIOUS
  <2>3. s \in (pos + 1)..(end + 1) /\ s \in 1..(end + 1)
    BY <1>1, <2>2, NextOfRange
  <2>4. PICK stop : stop = MrkBody(s)
    OBVIOUS
  <2>5. stop \in (s - 1 + 1)..(end + 1)
    BY <1>1, <2>3, <2>4, NextOfRange DEF MrkBody
  <2>6. \/ Returns(tail, s, end) \/ Returns("record", s, end)
        \/ stop <= end /\ Returns(IF input[stop] = "blank" THEN "record" ELSE "error", s, stop)
    BY <2>1, <2>2, <2>4 DEF MrkRead
  <2>7. end \in 0..end /\ (stop <= end => stop \in 0..end)
    BY <1>1, <2>3, <2>5
  <2> QED
    BY <1>1, <2>3, <2>6, <2>7
<1> QED
  BY <1>2, <1>3, <1>4, <1>5 DEF Read

\* The variables are in their ranges at first ...
LEMMA TypesInit == Init => Typed
<1> SUFFICES ASSUME Init PROVE Typed
  OBVIOUS
<1>1. Doc
  BY DocInit
<1>2. end \in Nat
  BY <1>1, DocNumbers
<1>3. results = <<>> /\ fout = <<>> /\ pos = 0 /\ fpos = 0 /\ fend \in {"running", "nil", "error"}
  BY DEF Init
<1>4. format \in Formats /\ kinds \in Contents /\ tail \in {"eof", "error"}
  BY DEF Init
<1>5. pos \in 0..end /\ fpos \in 0..end
  BY <1>2, <1>3
<1>6. results \in Seq(Outcomes) /\ fout \in Seq(Nat) /\ Len(results) = 0 /\ Len(fout) = 0
  BY <1>3
<1>7. DOMAIN results = {} /\ DOMAIN fout = {}
  BY <1>3
<1> QED
  BY <1>1, <1>3, <1>4, <1>5, <1>6, <1>7 DEF Typed, TypeOK

\* ... and stay there: of Read ...
LEMMA ReadTypes ==
  ASSUME Typed, Read
  PROVE  Typed'
<1>1. UNCHANGED <<document, file>>
  BY DEF Read
<1>2. PICK w \in {"record", "error", "eof"}, s \in 1..(end + 1), p \in 0..end : Returns(w, s, p)
  BY ReadReturns
<1>3. end \in Nat /\ results \in Seq(Outcomes)
  BY DocNumbers DEF Typed
<1>4. end' = end /\ Doc'
  BY <1>1, DocStays DEF Typed
<1>5. PICK r : r = [kind |-> w, from |-> s, to |-> p]
  OBVIOUS
<1>6. r \in Outcomes /\ r.kind = w /\ r.from = s /\ r.to = p
  BY <1>3, <1>5 DEF Outcomes
<1>7. results' = Append(results, r) /\ pos' = p
  BY <1>2, <1>5 DEF Returns
<1>8. results' \in Seq(Outcomes)
  BY <1>3, <1>6, <1>7
<1>9. ASSUME NEW k \in DOMAIN results'
      PROVE  /\ results'[k].kind \in {"record", "error", "eof"}
             /\ results'[k].from \in 1..(end + 1) /\ results'[k].to \in 0..end
  <2>1. results'[k] = r \/ (k \in DOMAIN results /\ results'[k] = results[k])
    BY <1>3, <1>6, <1>7
  <2> QED
    BY <1>2, <1>6, <2>1 DEF Typed, TypeOK
<1> QED
  BY <1>1, <1>2, <1>4, <1>7, <1>8, <1>9 DEF Typed, TypeOK, document, file

\* ... and of ReadFile.
LEMMA FileTypes ==
  ASSUME Typed, FileFails \/ FileEnds \/ FileRecord
  PROVE  Typed'
<1>1. end \in Nat /\ input \in Seq(Tokens) /\ fout \in Seq(Nat) /\ fpos \in 0..end
  BY DocNumbers DEF Typed, TypeOK
<1>2. UNCHANGED <<document, reader>>
  BY DEF FileFails, FileEnds, FileRecord
<1>3. end' = end /\ Doc'
  BY <1>2, DocStays DEF Typed
<1>4. CASE UNCHANGED <<fpos, fout>> /\ fend' \in {"nil", "error"}
  BY <1>2, <1>3, <1>4 DEF Typed, TypeOK, document, reader
<1>5. CASE FileRecord /\ ~(UNCHANGED <<fpos, fout>> /\ fend' \in {"nil", "error"})
  <2>1. PICK s : s = NextNotOf(fpos, Separators)
    OBVIOUS
  <2>2. PICK e : e = FileExtent(s)
    OBVIOUS
  <2>3. s + LeaderLen - 1 <= end /\ fout' = Append(fout, s) /\ fpos' = e /\ UNCHANGED fend
    BY <1>5, <2>1, <2>2 DEF FileRecord
  <2>4. s \in (fpos + 1)..(end + 1)
    BY <1>1, <2>1, NextNotOfRange
  <2>5. s \in 1..end
    BY <1>1, <2>3, <2>4 DEF LeaderLen
  <2>6. e \in 0..end
    <3>1. PICK t : t = NextOf(s - 1, {"terminator"})
      OBVIOUS
    <3>2. t \in (s - 1 + 1)..(end + 1)
      BY <1>1, <2>5, <3>1, NextOfRange
    <3>3. Declares(s) => IsoEnd(s) = s + Declared(s) - 1 /\ Declared(s) \in {0, 5, 7} /\ Declared(s) >= 2
      BY DEF IsoEnd, Declares, Declared, LeaderLen
    <3>4. e = IF Declares(s) /\ IsoEnd(s) <= end THEN IsoEnd(s) ELSE IF t > end THEN end ELSE t
      BY <2>2, <3>1 DEF FileExtent
    <3> QED
      BY <1>1, <2>5, <3>2, <3>3, <3>4
  <2>7. fout' \in Seq(Nat) /\ \A k \in DOMAIN fout' : fout'[k] = s \/ (k \in DOMAIN fout /\ fout'[k] = fout[k])
    BY <1>1, <2>3, <2>5
  <2>8. \A k \in DOMAIN fout' : fout'[k] \in 1..end
    BY <2>5, <2>7 DEF Typed, TypeOK
  <2> QED
    BY <1>2, <1>3, <2>3, <2>6, <2>7, <2>8 DEF Typed, TypeOK, document, reader
<1> QED
  BY <1>4, <1>5 DEF FileFails, FileEnds, FileRecord

\* TypeCorrect: in documents of any length and cut anywhere, the Readers and
\* ReadFile stay within the tokens there are, whatever records they come upon,
\* oversized or refused ones included.
THEOREM TypeCorrect == Spec => []TypeOK
<1>1. Init => Typed
  BY TypesInit
<1>2. Typed /\ [Next]_vars => Typed'
  <2>1. SUFFICES ASSUME Typed, [Next]_vars PROVE Typed'
    OBVIOUS
  <2>2. CASE UNCHANGED vars
    <3>1. UNCHANGED document /\ UNCHANGED reader /\ UNCHANGED file
      BY <2>2 DEF vars
    <3>2. Doc' /\ end' = end
      BY <2>1, <3>1, DocStays DEF Typed
    <3> QED
      BY <2>1, <3>1, <3>2 DEF Typed, TypeOK, document, reader, file
  <2> QED
    BY <2>1, <2>2, ReadTypes, FileTypes DEF Next
<1>3. Typed => TypeOK
  BY DEF Typed
<1> QED
  BY <1>1, <1>2, <1>3, PTL DEF Spec

-----------------------------------------------------------------------------
\* What was read so far.

\* A Reader that may go on, and has not failed where it cannot go on from, is
\* in step.
LEMMA InStep ==
  ASSUME Inv, Read, Regular \/ Stops = {}
  PROVE  Steady
<1>1. Reads \in Nat
  BY DEF Inv, Typed, Reads
<1>2. ASSUME Reads > 0, results[Reads].from = end + 1, results[Reads].kind \in {"eof", "error"}
      PROVE  FALSE
  <2>1. Reads \in DOMAIN results
    BY <1>1, <1>2 DEF Inv, Typed, Reads
  <2>2. results[Reads].kind # "record"
    BY <1>2
  <2>3. Stops # {}
    BY <2>1, <2>2 DEF Stops
  <2>4. end \in Nat
    BY DocNumbers DEF Inv, Typed
  <2>5. results # <<>> /\ results[Len(results)].from > end
    BY <1>2, <2>1, <2>4 DEF Reads
  <2>6. Ended
    BY <2>5 DEF Ended
  <2> QED
    BY <2>6 DEF Read
<1> QED
  BY <1>2 DEF Inv, Typed, ReadSoFar, Steady

\* It goes on.
LEMMA StepOn ==
  ASSUME Steady, Read
  PROVE  ReadsOn
<1>1. CASE format = "iso2709" /\ IsoRead
  BY <1>1, IsoReadsOn
<1>2. CASE format \in JsonFormats /\ JsonRead
  BY <1>2, JsonReadsOn
<1>3. CASE format = "marcxml" /\ XmlRead
  BY <1>3, XmlReadsOn
<1>4. CASE format = "mrk" /\ MrkRead
  BY <1>4, MrkReadsOn
<1> QED
  BY <1>1, <1>2, <1>3, <1>4 DEF Read

\* A result more leaves the others as they are.
LEMMA OneMore ==
  ASSUME results \in Seq(Outcomes), NEW r \in Outcomes, results' = Append(results, r)
  PROVE  /\ Reads \in Nat /\ Reads' = Reads + 1 /\ results'[Reads'] = r
         /\ \A i \in 1..Reads : results'[i] = results[i]
         /\ Stops' = IF r.kind = "record" THEN Stops ELSE Stops \cup {Reads + 1}
         /\ Stops \subseteq 1..Reads
<1>1. /\ Reads \in Nat /\ Reads' = Reads + 1 /\ results'[Reads + 1] = r
      /\ \A i \in 1..Reads : results'[i] = results[i]
      /\ DOMAIN results = 1..Reads /\ DOMAIN results' = 1..(Reads + 1)
  BY DEF Reads
<1>2. Stops = {i \in 1..Reads : results[i].kind # "record"}
  BY <1>1 DEF Stops
<1>3. Stops' = {i \in 1..(Reads + 1) : results'[i].kind # "record"}
  BY <1>1 DEF Stops
<1>4. \A i \in 1..(Reads + 1) : i \in 1..Reads \/ i = Reads + 1
  BY <1>1
<1>5. Reads + 1 \in 1..(Reads + 1) /\ 1..Reads \subseteq 1..(Reads + 1)
  BY <1>1
<1>6. ASSUME NEW i \in Stops' PROVE i \in Stops \/ (i = Reads + 1 /\ r.kind # "record")
  BY <1>1, <1>2, <1>3, <1>4
<1>7. Stops \subseteq Stops'
  BY <1>1, <1>2, <1>3, <1>5
<1>8. r.kind # "record" => Reads + 1 \in Stops'
  BY <1>1, <1>3, <1>5
<1> QED
  BY <1>1, <1>2, <1>6, <1>7, <1>8

\* A Read keeps what is said of them.
LEMMA ReadStep ==
  ASSUME Inv, Read
  PROVE  ReadSoFar'
<1>1. UNCHANGED document
  BY DEF Read
<1>2. /\ end' = end /\ N' = N /\ Regular' = Regular /\ tail' = tail /\ format' = format
      /\ \A k : /\ Start(k)' = Start(k) /\ Verdict(k)' = Verdict(k)
                /\ StopAt(k)' = StopAt(k) /\ Swallowed(k)' = Swallowed(k)
  BY <1>1, DocStays DEF document
<1>3. /\ end \in Nat /\ N \in Nat /\ results \in Seq(Outcomes) /\ tail \in {"eof", "error"}
      /\ \A k \in 1..N : Start(k) \in Nat
  BY DocNumbers DEF Inv, Typed
<1>4. PICK w \in {"record", "error", "eof"}, s \in 1..(end + 1), p \in 0..end : Returns(w, s, p)
  BY ReadReturns DEF Inv
<1>5. PICK r : r = [kind |-> w, from |-> s, to |-> p]
  OBVIOUS
<1>6. /\ r \in Outcomes /\ results' = Append(results, r) /\ pos' = p
      /\ r.kind = w /\ r.from = s
  BY <1>3, <1>4, <1>5 DEF Returns, Outcomes
<1>7. /\ Reads \in Nat /\ Reads' = Reads + 1 /\ results'[Reads'] = r
      /\ \A i \in 1..Reads : results'[i] = results[i]
      /\ Stops' = IF r.kind = "record" THEN Stops ELSE Stops \cup {Reads + 1}
  BY <1>3, <1>6, OneMore
<1>8. CASE ~(Regular \/ Stops = {})
  BY <1>2, <1>7, <1>8 DEF ReadSoFar
<1>9. CASE Regular \/ Stops = {}
  <2>1. Steady /\ ReadsOn
    BY <1>9, InStep, StepOn
  <2>2. Reads <= N
    BY <2>1 DEF Steady, InOrder
  <2>3. \A i \in 1..Reads : /\ Start(i) <= end /\ ~Swallowed(i)
                            /\ results'[i].from = Start(i) /\ results'[i].kind = Verdict(i)
    BY <1>7, <2>1 DEF Steady, InOrder
  <2>4. CASE /\ Reads + 1 \in 1..N /\ Start(Reads + 1) <= end /\ ~Swallowed(Reads + 1)
             /\ ReadsNext(Reads + 1)
    <3>1. PICK k : k = Reads + 1
      OBVIOUS
    <3>2. PICK q : q = [kind |-> Verdict(k), from |-> Start(k), to |-> StopAt(k)]
      OBVIOUS
    <3>3. results' = Append(results, q) /\ q.kind = Verdict(k) /\ q.from = Start(k) /\ pos' = StopAt(k)
      BY <2>4, <3>1, <3>2 DEF ReadsNext
    <3>4. results'[Len(results) + 1] = q
      BY <1>3, <3>3
    <3>5. results'[k] = q
      BY <3>1, <3>4 DEF Reads
    <3>6. \A i \in 1..k : i \in 1..Reads \/ i = k
      BY <1>7, <3>1
    <3>7. \A i \in 1..k : /\ Start(i) <= end /\ ~Swallowed(i)
                          /\ results'[i].from = Start(i) /\ results'[i].kind = Verdict(i)
      BY <2>3, <2>4, <3>1, <3>3, <3>5, <3>6
    <3>8. k <= N /\ Reads' = k /\ k # 0
      BY <1>3, <1>7, <2>4, <3>1
    <3>9. InOrder(k)'
      BY <1>2, <3>7, <3>8 DEF InOrder
    <3>10. pos' = Standing'
      BY <1>2, <3>3, <3>8 DEF Standing
    <3> QED
      BY <3>8, <3>9, <3>10 DEF ReadSoFar
  <2>5. CASE /\ Reads + 1 <= N => Start(Reads + 1) > end \/ Swallowed(Reads + 1)
             /\ EndsReads
    <3>1. PICK v \in {"eof", "error"}, f \in 1..(end + 1) :
            /\ results' = Append(results, [kind |-> v, from |-> f, to |-> pos'])
            /\ Regular => f = end + 1 /\ pos' = end
            /\ Regular /\ format = "iso2709" => v = tail
      BY <2>5 DEF EndsReads
    <3>2. PICK q : q = [kind |-> v, from |-> f, to |-> pos']
      OBVIOUS
    <3>3. results' = Append(results, q) /\ q.kind = v /\ q.from = f
      BY <3>1, <3>2
    <3>4. results'[Len(results) + 1] = q
      BY <1>3, <3>3
    <3>5. r.kind = v /\ r.from = f
      BY <1>3, <1>7, <3>3, <3>4 DEF Reads
    <3>6. Stops' # {}
      BY <1>7, <3>5
    <3>7. CASE ~Regular
      BY <1>2, <3>6, <3>7 DEF ReadSoFar
    <3>8. CASE Regular
      <4>1. ASSUME Reads + 1 <= N PROVE ~Swallowed(Reads + 1)
        <5>1. Reads + 1 > 1 => Reads + 1 - 1 \in DOMAIN kinds /\ Reads + 1 - 1 \in 1..N
          BY <1>3, <1>7, <4>1 DEF Inv, Typed, Doc, N
        <5>2. Reads + 1 > 1 => kinds[Reads + 1 - 1] # "oversized"
          BY <3>8, <5>1, DocNumbers DEF Regular, Inv, Typed
        <5> QED
          BY <1>7, <5>2 DEF Swallowed
      <4>2. PICK m : m = Reads
        OBVIOUS
      <4>3. InOrder(m)'
        BY <1>2, <2>2, <2>3, <4>2 DEF InOrder
      <4>4. results'[Reads'].from = end' + 1 /\ results'[Reads'].kind \in {"eof", "error"} /\ pos' = end'
        BY <1>2, <1>7, <3>1, <3>5, <3>8
      <4>5. format' = "iso2709" => results'[Reads'].kind = tail'
        BY <1>2, <1>7, <3>1, <3>5, <3>8
      <4>6. PICK k : k = Reads + 1
        OBVIOUS
      <4>7. (k <= N => Start(k) > end)'
        BY <1>2, <2>5, <4>1, <4>6
      <4>8. Reads' = k
        BY <1>7, <4>6
      <4>9. (Reads <= N => Start(Reads) > end)'
        BY <4>7, <4>8
      <4>10. Reads' > 0 /\ Reads' - 1 = m
        BY <1>7, <4>2
      <4>11. (Reads > 0 /\ InOrder(Reads - 1))'
        BY <4>3, <4>10
      <4> QED
        BY <4>4, <4>5, <4>9, <4>11 DEF ReadSoFar
    <3> QED
      BY <3>7, <3>8
  <2> QED
    BY <2>1, <2>4, <2>5 DEF ReadsOn
<1> QED
  BY <1>8, <1>9

-----------------------------------------------------------------------------
\* What ReadFile decoded so far.

\* The part of the file it frames as a record, and what decode says of it.
LEMMA FileFrames ==
  ASSUME Doc, format = "iso2709", NEW k \in 1..N, kinds[k] # "oversized", NEW s, s = Start(k), s + 1 <= end
  PROVE  FileExtent(s) = StopAt(k) /\ DecodeIso(s, FileExtent(s)) = FileVerdict(k)
<1>1. /\ s = 6 * k - 5 /\ s \in Nat \ {0} /\ input[s] = kinds[k]
      /\ s + 4 <= end => input[s + 4] = "terminator"
      /\ \A j \in s..(s + 3) : j <= end => input[j] # "terminator"
  <2>1. s = 6 * k - 5 /\ s \in Nat \ {0} /\ end \in Nat /\ N \in Nat
    BY IsoTokens, DocNumbers
  <2>2. s <= end /\ kinds[k] # "terminator"
    BY <2>1, DocNumbers DEF Kinds
  <2>3. \A j \in s..(s + 3) : j = s \/ j = s + 1 \/ j = s + 2 \/ j = s + 3
    BY <2>1
  <2> QED
    BY <2>1, <2>2, <2>3, IsoTokens
<1>2. end \in Nat /\ N \in Nat /\ input \in Seq(Tokens) /\ kinds[k] \in {"good", "bad", "unsized"}
  BY DocNumbers DEF Kinds
<1>3. StopAt(k) = IF s + 4 <= end THEN s + 4 ELSE end
  BY DEF StopAt, Reach
<1>4. NextOf(s - 1, {"terminator"}) = IF s + 4 <= end THEN s + 4 ELSE end + 1
  <2>1. PICK q : q = IF s + 4 <= end THEN s + 4 ELSE end + 1
    OBVIOUS
  <2>2. s - 1 \in 0..end /\ q \in (s - 1 + 1)..(end + 1)
    BY <1>1, <1>2, <2>1
  <2>3. q = end + 1 \/ input[q] \in {"terminator"}
    BY <1>1, <2>1
  <2>4. \A j \in (s - 1 + 1)..(q - 1) : j \in s..(s + 3) /\ j <= end
    BY <1>1, <1>2, <2>1
  <2>5. \A j \in (s - 1 + 1)..(q - 1) : input[j] \notin {"terminator"}
    BY <1>1, <2>4
  <2> QED
    BY <1>2, <2>1, <2>2, <2>3, <2>5, NextOfIs
<1>5. Declares(s) => IsoEnd(s) = s + 4
  BY <1>1, <1>2 DEF Declares, Declared, IsoEnd, LeaderLen
<1>6. FileExtent(s) = StopAt(k)
  <2>1. CASE s + 4 <= end
    BY <1>1, <1>2, <1>3, <1>4, <1>5, <2>1 DEF FileExtent
  <2>2. CASE ~(s + 4 <= end)
    BY <1>1, <1>2, <1>3, <1>4, <1>5, <2>2 DEF FileExtent
  <2> QED
    BY <2>1, <2>2
<1>7. StopAt(k) - s + 1 >= 3 <=> s + 2 <= end
  BY <1>1, <1>2, <1>3
<1>8. DecodeIso(s, StopAt(k)) = FileVerdict(k)
  BY <1>1, <1>2, <1>7 DEF DecodeIso, FileVerdict, BaseAt, LeaderLen
<1> QED
  BY <1>6, <1>8

\* It goes on where the records before leave off.
LEMMA FileStands ==
  ASSUME Inv, Regular, format = "iso2709", NEW m, m = Len(fout)
  PROVE  /\ m \in 0..N /\ Start(m + 1) = 6 * m + 1
         /\ NextNotOf(fpos, Separators) = IF Start(m + 1) <= end THEN Start(m + 1) ELSE end + 1
         /\ Start(m + 1) <= end => m + 1 \in 1..N /\ kinds[m + 1] # "oversized"
<1>1. end \in Nat /\ N \in Nat /\ Doc /\ DOMAIN kinds = 1..N /\ m \in Nat
  BY DocNumbers DEF Inv, Typed, Doc, N
<1>2. /\ m <= N /\ \A i \in 1..m : Start(i) + 1 <= end
      /\ fpos = IF m = 0 THEN 0 ELSE StopAt(m)
  BY DEF Inv, FileSoFar
<1>3. \A k \in 1..N : kinds[k] # "oversized"
  BY <1>1 DEF Regular
<1>4. m \in 0..N /\ Start(m + 1) = 6 * m + 1
  BY <1>1, <1>2, Starts
<1>5. m > 0 => Start(m) <= end /\ kinds[m] # "oversized"
  <2>1. SUFFICES ASSUME m > 0 PROVE Start(m) <= end /\ kinds[m] # "oversized"
    OBVIOUS
  <2>2. m \in 1..m /\ m \in 1..N
    BY <1>1, <1>2, <2>1
  <2>3. Start(m) \in Nat /\ Start(m) + 1 <= end
    BY <1>1, <1>2, <2>2, DocNumbers
  <2> QED
    BY <1>1, <1>3, <2>2, <2>3
<1>6. /\ NextNotOf(fpos, Separators) = IF Start(m + 1) <= end THEN Start(m + 1) ELSE end + 1
      /\ Start(m + 1) <= end => m + 1 \in 1..N
  BY <1>1, <1>2, <1>4, <1>5, IsoNextStart
<1> QED
  BY <1>3, <1>4, <1>6

\* ReadFile keeps what is said of it.
LEMMA FileStep ==
  ASSUME Inv, FileFails \/ FileEnds \/ FileRecord
  PROVE  FileSoFar'
<1> SUFFICES ASSUME Regular', format' = "iso2709"
             PROVE  /\ fout' = [i \in 1..Len(fout') |-> Start(i)']
                    /\ Len(fout') <= N'
                    /\ \A i \in 1..Len(fout') : Start(i)' + 1 <= end' /\ FileVerdict(i)' = "record"
                    /\ fpos' = IF Len(fout') = 0 THEN 0 ELSE StopAt(Len(fout))'
                    /\ fend' = "nil" => Start(Len(fout) + 1)' + 1 > end'
                    /\ fend' = "error" /\ tail' = "eof" =>
                         Start(Len(fout) + 1)' + 1 <= end' /\ FileVerdict(Len(fout) + 1)' = "error"
  BY DEF FileSoFar
<1>1. UNCHANGED document
  BY DEF FileFails, FileEnds, FileRecord
<1>2. /\ end' = end /\ N' = N /\ tail' = tail /\ format' = format
      /\ \A k : Start(k)' = Start(k) /\ StopAt(k)' = StopAt(k) /\ FileVerdict(k)' = FileVerdict(k)
  BY <1>1, DocStays DEF document
<1>3. Regular /\ format = "iso2709"
  BY <1>1, DocStays DEF document
<1>4. end \in Nat /\ N \in Nat /\ tail \in {"eof", "error"} /\ fout \in Seq(Nat)
  BY DocNumbers DEF Inv, Typed
<1>5. PICK m \in Nat : m = Len(fout)
  BY <1>4
<1>6. /\ fout = [i \in 1..m |-> Start(i)] /\ m <= N
      /\ \A i \in 1..m : Start(i) + 1 <= end /\ FileVerdict(i) = "record"
      /\ fpos = IF m = 0 THEN 0 ELSE StopAt(m)
  BY <1>3, <1>5 DEF Inv, FileSoFar
<1>7. PICK s : s = NextNotOf(fpos, Separators)
  OBVIOUS
<1>8. PICK t : t = Start(m + 1)
  OBVIOUS
<1>9. /\ t = 6 * m + 1 /\ s = IF t <= end THEN t ELSE end + 1
      /\ t <= end => m + 1 \in 1..N /\ kinds[m + 1] # "oversized"
  BY <1>3, <1>5, <1>7, <1>8, FileStands
<1>10. s + LeaderLen - 1 = s + 1 /\ (s + 1 <= end <=> t + 1 <= end)
  BY <1>4, <1>9 DEF LeaderLen
<1>11. CASE FileFails \/ FileEnds
  <2>1. fout' = fout /\ fpos' = fpos
    BY <1>11 DEF FileFails, FileEnds
  <2>2. /\ fend' = "nil" => t + 1 > end
        /\ tail = "eof" => fend' # "error"
    BY <1>4, <1>7, <1>9, <1>10, <1>11 DEF FileFails, FileEnds
  <2>3. /\ Len(fout)' = m /\ Start(m + 1)' = t
    BY <1>2, <1>5, <1>8, <2>1
  <2> QED
    BY <1>2, <1>6, <2>1, <2>2, <2>3
<1>12. CASE FileRecord
  <2>1. PICK e : e = FileExtent(s)
    OBVIOUS
  <2>2. /\ fend = "running" /\ s + 1 <= end
        /\ \/ /\ DecodeIso(s, e) = "record"
              /\ fout' = Append(fout, s) /\ fpos' = e /\ UNCHANGED fend
           \/ DecodeIso(s, e) = "error" /\ fend' = "error" /\ UNCHANGED <<fpos, fout>>
    BY <1>7, <1>10, <1>12, <2>1 DEF FileRecord
  <2>3. s = t /\ t + 1 <= end /\ m + 1 \in 1..N /\ kinds[m + 1] # "oversized"
    BY <1>4, <1>9, <1>10, <2>2
  <2>4. e = StopAt(m + 1) /\ DecodeIso(s, e) = FileVerdict(m + 1)
    <3>1. PICK k : k = m + 1
      OBVIOUS
    <3>2. e = StopAt(k) /\ DecodeIso(s, e) = FileVerdict(k)
      BY <1>3, <1>8, <2>1, <2>3, <3>1, FileFrames DEF Inv, Typed
    <3> QED
      BY <3>1, <3>2
  <2>5. CASE fout' = Append(fout, s) /\ fpos' = e /\ fend' = "running" /\ DecodeIso(s, e) = "record"
    <3>1. PICK k : k = m + 1
      OBVIOUS
    <3>2. /\ Len(fout') = k /\ k \in Nat \ {0} /\ k <= N /\ DOMAIN fout' = 1..k
          /\ \A i \in 1..k : fout'[i] = Start(i)
      <4>1. /\ Len(fout') = k /\ k \in Nat \ {0} /\ k <= N /\ DOMAIN fout' = 1..k
            /\ fout'[k] = s /\ \A i \in 1..m : fout'[i] = fout[i]
        BY <1>4, <1>5, <2>3, <2>5, <3>1
      <4>2. \A i \in 1..k : i \in 1..m \/ i = k
        BY <3>1
      <4>3. \A i \in 1..m : fout[i] = Start(i)
        BY <1>6
      <4> QED
        BY <1>8, <2>3, <3>1, <4>1, <4>2, <4>3
    <3>3. fout' \in Seq(Nat)
      BY <1>4, <1>9, <2>3, <2>5
    <3>4. fout' = [i \in 1..k |-> Start(i)]
      BY <3>2, <3>3
    <3>5. \A i \in 1..k : Start(i) + 1 <= end /\ FileVerdict(i) = "record"
      <4>1. \A i \in 1..k : i \in 1..m \/ i = k
        BY <3>1
      <4> QED
        BY <1>6, <1>8, <2>3, <2>4, <2>5, <3>1, <4>1
    <3>6. StopAt(Len(fout))' = e
      BY <1>2, <2>4, <3>1, <3>2
    <3> QED
      BY <1>2, <2>5, <3>2, <3>4, <3>5, <3>6
  <2>6. CASE DecodeIso(s, e) = "error" /\ fend' = "error" /\ UNCHANGED <<fpos, fout>>
    <3>1. Len(fout)' = m /\ Start(m + 1)' = t /\ FileVerdict(m + 1)' = "error"
      BY <1>2, <1>5, <1>8, <2>4, <2>6
    <3> QED
      BY <1>2, <1>6, <2>3, <2>6, <3>1
  <2> QED
    BY <2>2, <2>5, <2>6
<1> QED
  BY <1>11, <1>12

-----------------------------------------------------------------------------
\* The inductive invariant.

\* Nothing was read at first.
LEMMA InvInit == Init => Inv
<1> SUFFICES ASSUME Init PROVE Inv
  OBVIOUS
<1>1. Typed /\ N \in Nat
  BY TypesInit, DocNumbers DEF Typed
<1>2. Reads = 0 /\ Len(fout) = 0 /\ Stops = {} /\ pos = 0 /\ fpos = 0
  BY DEF Init, Reads, Stops
<1>3. 1..0 = {} /\ fout = [i \in 1..0 |-> Start(i)]
  BY DEF Init
<1>4. ReadSoFar
  BY <1>1, <1>2, <1>3 DEF ReadSoFar, InOrder, Standing
<1>5. fend # "error" /\ (format = "iso2709" => fend # "nil")
  BY DEF Init
<1>6. FileSoFar
  BY <1>1, <1>2, <1>3, <1>5 DEF FileSoFar
<1> QED
  BY <1>1, <1>4, <1>6 DEF Inv

\* The two readers do not disturb each other.
LEMMA InvStep ==
  ASSUME Inv, [Next]_vars
  PROVE  Inv'
<1>1. CASE Read
  <2>1. Typed' /\ ReadSoFar'
    BY <1>1, ReadTypes, ReadStep DEF Inv
  <2>2. FileSoFar'
    <3>1. UNCHANGED <<document, fpos, fout, fend>>
      BY <1>1 DEF Read, file
    <3> QED
      BY <3>1, DocStays DEF Inv, FileSoFar, document
  <2> QED
    BY <2>1, <2>2 DEF Inv
<1>2. CASE FileFails \/ FileEnds \/ FileRecord
  <2>1. Typed' /\ FileSoFar'
    BY <1>2, FileTypes, FileStep DEF Inv
  <2>2. ReadSoFar'
    <3>1. UNCHANGED <<document, pos, results>>
      BY <1>2 DEF FileFails, FileEnds, FileRecord, reader
    <3>2. ReadSoFar' = ReadSoFar
      BY <3>1 DEF ReadSoFar, InOrder, Standing, Stops, Reads, document, end, N, Start, Verdict, Accepted,
                  StopAt, Reach, Regular, Refused, Complete, Swallowed
    <3> QED
      BY <3>2 DEF Inv
  <2> QED
    BY <2>1, <2>2 DEF Inv
<1>3. CASE UNCHANGED vars
  <2>1. UNCHANGED <<document, pos, results, fpos, fout, fend>>
    BY <1>3 DEF vars, reader, file
  <2>2. Typed'
    BY <2>1, DocStays DEF Inv, Typed, TypeOK, document
  <2>3. ReadSoFar' = ReadSoFar
    BY <2>1 DEF ReadSoFar, InOrder, Standing, Stops, Reads, document, end, N, Start, Verdict, Accepted,
                StopAt, Reach, Regular, Refused, Complete, Swallowed
  <2>4. FileSoFar'
    BY <2>1, DocStays DEF Inv, FileSoFar, document
  <2> QED
    BY <2>2, <2>3, <2>4 DEF Inv
<1> QED
  BY <1>1, <1>2, <1>3 DEF Next

\* Every run keeps it.
LEMMA InvHolds == Spec => []Inv
<1>1. Inv /\ [Next]_vars => Inv'
  BY InvStep
<1> QED
  BY InvInit, <1>1, PTL DEF Spec

-----------------------------------------------------------------------------
\* One result for each record.

\* OneResultPerRecord: however many records an ISO 2709 or MARCXML document
\* holds and wherever it is cut, Read returns one result for each of them in
\* turn, an error where one is malformed and the record that follows it next.
THEOREM ResultsMatchRecords == Spec => []OneResultPerRecord
<1>1. Inv => OneResultPerRecord
  <2> SUFFICES ASSUME Inv, format \in {"iso2709", "marcxml"},
                      ~\E k \in DOMAIN kinds : kinds[k] = "oversized"
               PROVE  /\ \A r \in DOMAIN results : results[r].from <= end =>
                           /\ results[r].from = Start(r)
                           /\ kinds[r] = "bad" => results[r].kind = "error"
                           /\ kinds[r] # "bad" /\ Complete(r) => results[r].kind = "record"
                           /\ Torn(r) /\ (kinds[r] # "unsized" \/ tail = "error") => results[r].kind = "error"
                      /\ Ended => \A k \in DOMAIN kinds : Begun(k) => k < Len(results)
    BY DEF OneResultPerRecord
  <2>1. Regular /\ format \notin JsonFormats /\ format # "mrk"
    BY DEF Regular, JsonFormats
  <2>2. /\ N \in Nat /\ end \in Nat /\ Reads \in Nat /\ DOMAIN results = 1..Reads
        /\ DOMAIN kinds = 1..N /\ Reads = Len(results)
        /\ \A k \in 1..N : kinds[k] \in Kinds /\ kinds[k] # "oversized" /\ Start(k) \in Nat
    BY DocNumbers DEF Inv, Typed, Doc, Reads, N
  <2>3. ASSUME NEW r \in 1..N, results[r].from = Start(r), results[r].kind = Verdict(r)
        PROVE  /\ results[r].from = Start(r)
               /\ kinds[r] = "bad" => results[r].kind = "error"
               /\ kinds[r] # "bad" /\ Complete(r) => results[r].kind = "record"
               /\ Torn(r) /\ (kinds[r] # "unsized" \/ tail = "error") => results[r].kind = "error"
    <3>1. kinds[r] \in {"good", "bad", "unsized"}
      BY <2>2 DEF Kinds
    <3>2. Accepted(r) <=> \/ kinds[r] = "unsized" /\ tail = "eof" /\ Start(r) + 2 <= end
                          \/ kinds[r] \in {"good", "unsized"} /\ Complete(r)
      BY <2>1, <3>1 DEF Accepted
    <3>3. Verdict(r) = IF Accepted(r) THEN "record" ELSE "error"
      BY <2>1 DEF Verdict
    <3> QED
      BY <2>3, <3>1, <3>2, <3>3 DEF Torn
  <2>4. ASSUME NEW m \in Nat, InOrder(m), NEW r \in 1..m
        PROVE  r \in 1..N /\ Start(r) <= end /\ results[r].from = Start(r) /\ results[r].kind = Verdict(r)
    BY <2>2, <2>4 DEF InOrder
  <2>5. CASE InOrder(Reads)
    <3>1. ~Ended
      <4>1. SUFFICES ASSUME Ended PROVE FALSE
        OBVIOUS
      <4>2. Reads \in 1..Reads
        BY <2>2, <4>1 DEF Ended, Inv, Typed
      <4>3. /\ results[Reads].from = Start(Reads) /\ Start(Reads) <= end /\ Start(Reads) \in Nat
            /\ results[Reads].kind = Verdict(Reads)
        BY <2>2, <2>4, <2>5, <4>2
      <4>4. results[Reads].kind = "eof" \/ results[Reads].from > end
        BY <2>1, <2>2, <4>1 DEF Ended
      <4>5. Verdict(Reads) # "eof"
        BY <2>1 DEF Verdict
      <4> QED
        BY <2>2, <4>3, <4>4, <4>5
    <3> QED
      BY <2>2, <2>3, <2>4, <2>5, <3>1
  <2>6. CASE /\ Reads > 0 /\ InOrder(Reads - 1) /\ results[Reads].from = end + 1
             /\ Reads <= N => Start(Reads) > end
    <3>1. Reads - 1 \in Nat
      BY <2>2, <2>6
    <3>2. ~(results[Reads].from <= end)
      BY <2>2, <2>6
    <3>3. ASSUME NEW k \in 1..N, Begun(k) PROVE k < Reads
      <4>1. SUFFICES ASSUME Reads <= k PROVE FALSE
        BY <2>2
      <4>2. Start(k) \in Nat /\ Start(k) <= end /\ Start(Reads) > end /\ Reads \in 1..N
        BY <2>2, <2>6, <3>3, <4>1 DEF Begun
      <4>3. /\ Start(k) = IF format = "iso2709" THEN 6 * k - 5 ELSE 4 * k - 3 + Outer(format)
            /\ Start(Reads) = IF format = "iso2709" THEN 6 * Reads - 5 ELSE 4 * Reads - 3 + Outer(format)
            /\ Outer(format) \in {0, 1}
        <5>1. Doc /\ k \in Nat /\ Reads \in Nat
          BY <2>2 DEF Inv, Typed
        <5>2. Outer(format) \in {0, 1}
          BY DEF Outer
        <5> QED
          BY <5>1, <5>2, Starts
      <4> QED
        BY <2>2, <4>1, <4>2, <4>3
    <3>4. ASSUME NEW r \in 1..Reads, results[r].from <= end
          PROVE  r \in 1..N /\ results[r].from = Start(r) /\ results[r].kind = Verdict(r)
      <4>1. r \in 1..(Reads - 1)
        BY <2>2, <3>2, <3>4
      <4> QED
        BY <2>4, <2>6, <3>1, <4>1
    <3> QED
      BY <2>2, <2>3, <3>3, <3>4
  <2> QED
    BY <2>1, <2>5, <2>6 DEF Inv, ReadSoFar
<1> QED
  BY <1>1, InvHolds, PTL

-----------------------------------------------------------------------------
\* What a caller gets that stops at the first error or io.EOF.

\* The first stop is a result, the first that is no record.
LEMMA FirstStopIs ==
  ASSUME results \in Seq(Outcomes), Stops # {}
  PROVE  FirstStop \in Stops /\ \A q \in Stops : FirstStop <= q
<1>1. Stops \in SUBSET Nat
  BY DEF Stops
<1>2. \E r \in Stops : \A q \in Stops : r <= q
  BY <1>1, Least
<1> QED
  BY <1>2 DEF FirstStop

\* ReadFile accepts what Read accepts, and also the first tokens of a record
\* that is cut short at the end of the file.
LEMMA FileAccepts ==
  ASSUME Doc, format = "iso2709", tail = "eof", NEW k \in 1..N, kinds[k] # "oversized", Start(k) <= end
  PROVE  /\ Accepted(k) => FileVerdict(k) = "record" /\ Start(k) + 2 <= end
         /\ FileVerdict(k) = "record" => Start(k) + 2 <= end
         /\ ~Accepted(k) => Verdict(k) = "error"
         /\ FileVerdict(k) = "record" /\ ~Accepted(k) => Torn(k) /\ Start(k) + 4 > end
<1>1. end \in Nat /\ Start(k) \in Nat /\ kinds[k] \in {"good", "bad", "unsized"}
  BY DocNumbers DEF Kinds
<1>2. Complete(k) <=> Start(k) + 4 <= end
  BY <1>1, Shapes DEF Complete, Doc, Length
<1>3. Accepted(k) <=> \/ kinds[k] = "unsized" /\ Start(k) + 2 <= end
                      \/ kinds[k] \in {"good", "unsized"} /\ Complete(k)
  BY <1>1 DEF Accepted
<1>4. ~Accepted(k) => Verdict(k) = "error"
  BY DEF Verdict, JsonFormats
<1>5. FileVerdict(k) = "record" <=> kinds[k] \in {"good", "unsized"} /\ Start(k) + 2 <= end
  BY DEF FileVerdict
<1>6. Torn(k) <=> ~(Start(k) + 4 <= end)
  BY <1>2 DEF Torn, Begun
<1> QED
  BY <1>1, <1>2, <1>3, <1>4, <1>5, <1>6

\* FileAgrees: whatever the length of the file, ReadFile, which frames it anew,
\* finds the records a Reader finds up to the first error, and fails where it
\* fails; a record cut short by the end of the file is the only exception.
THEOREM FileFindsWhatReaderFinds == Spec => []FileAgrees
<1>1. Inv => FileAgrees
  <2> SUFFICES ASSUME Inv, format = "iso2709", Ended, fend # "running", tail = "eof",
                      ~\E k \in DOMAIN kinds : kinds[k] = "oversized"
               PROVE  \/ fout = Delivered /\ (fend = "nil" <=> results[FirstStop].kind = "eof")
                      \/ \E k \in DOMAIN kinds :
                           /\ Torn(k) /\ Delivered = [i \in 1..(k - 1) |-> Start(i)]
                           /\ fout \in {Delivered, Append(Delivered, Start(k))}
    BY DEF FileAgrees
  <2>1. Regular /\ format \notin JsonFormats
    BY DEF Regular, JsonFormats
  <2>2. /\ N \in Nat /\ end \in Nat /\ Reads \in Nat /\ DOMAIN results = 1..Reads
        /\ DOMAIN kinds = 1..N /\ Reads = Len(results) /\ Doc
        /\ results \in Seq(Outcomes) /\ fout \in Seq(Nat)
        /\ \A k \in 1..N : kinds[k] # "oversized" /\ Start(k) \in Nat \ {0}
    <3>1. Doc /\ results \in Seq(Outcomes) /\ fout \in Seq(Nat)
      BY DEF Inv, Typed
    <3>2. Reads \in Nat /\ DOMAIN results = 1..Reads /\ Reads = Len(results)
      BY <3>1 DEF Reads
    <3>3. DOMAIN kinds = 1..N
      BY <3>1 DEF Doc, N
    <3>4. \A k \in 1..N : kinds[k] # "oversized"
      BY <3>3
    <3> QED
      BY <3>1, <3>2, <3>3, <3>4, DocNumbers
  <2>3. \A k \in Nat : Start(k) = 6 * k - 5
    BY <2>2, Starts
  <2>4. /\ Reads > 0 /\ InOrder(Reads - 1) /\ results[Reads].kind = "eof"
        /\ Reads <= N => Start(Reads) > end
    <3>1. ~InOrder(Reads)
      <4>1. SUFFICES ASSUME InOrder(Reads) PROVE FALSE
        OBVIOUS
      <4>2. Reads \in 1..Reads /\ Reads \in 1..N
        BY <2>2, <4>1 DEF Ended, InOrder
      <4>3. /\ results[Reads].from = Start(Reads) /\ Start(Reads) <= end
            /\ results[Reads].kind = Verdict(Reads)
        BY <4>1, <4>2 DEF InOrder
      <4>4. results[Reads].kind = "eof" \/ results[Reads].from > end
        BY <2>1, <2>2 DEF Ended
      <4>5. Verdict(Reads) # "eof"
        BY <2>1 DEF Verdict
      <4> QED
        BY <2>2, <4>2, <4>3, <4>4, <4>5
    <3> QED
      BY <2>1, <3>1 DEF Inv, ReadSoFar
  <2>5. PICK m \in Nat : m = Reads - 1
    <3>1. Reads - 1 \in Nat
      BY <2>2, <2>4
    <3> QED
      BY <3>1
  <2>6. /\ m <= N
        /\ \A i \in 1..m : /\ Start(i) <= end /\ results[i].from = Start(i)
                           /\ results[i].kind = Verdict(i)
        /\ m < N => Start(m + 1) > end
    <3>1. InOrder(m) /\ m + 1 = Reads
      BY <2>2, <2>4, <2>5
    <3> QED
      BY <2>2, <2>4, <3>1 DEF InOrder
  <2>7. Reads \in Stops
    BY <2>2, <2>4 DEF Stops
  <2>8. PICK q \in Nat : q = FirstStop
    <3>1. FirstStop \in Stops
      BY <2>2, <2>7, FirstStopIs
    <3>2. FirstStop \in 1..Reads
      BY <2>2, <3>1 DEF Stops
    <3> QED
      BY <2>2, <3>2
  <2>9. /\ q \in 1..(m + 1) /\ results[q].kind # "record"
        /\ \A i \in 1..(q - 1) : i \in 1..m /\ results[i].kind = "record"
    <3>1. q \in Stops /\ \A i \in Stops : q <= i
      BY <2>2, <2>7, <2>8, FirstStopIs
    <3>2. q \in 1..(m + 1) /\ results[q].kind # "record"
      BY <2>2, <2>5, <3>1 DEF Stops
    <3>3. ASSUME NEW i \in 1..(q - 1) PROVE i \in 1..m /\ results[i].kind = "record"
      <4>1. i \in 1..m /\ i \in DOMAIN results /\ i < q /\ ~(q <= i)
        BY <2>2, <2>5, <3>2
      <4> QED
        BY <3>1, <4>1 DEF Stops
    <3> QED
      BY <3>2, <3>3
  <2>10. \A i \in 1..(q - 1) : i \in 1..N /\ Accepted(i) /\ Start(i) <= end
    <3>1. TAKE i \in 1..(q - 1)
    <3>2. i \in 1..m /\ results[i].kind = "record"
      BY <2>9
    <3>3. i \in 1..N
      BY <2>2, <2>6, <3>2
    <3>4. Verdict(i) = "record" /\ Start(i) <= end
      BY <2>6, <3>2
    <3> QED
      BY <2>1, <3>3, <3>4 DEF Verdict
  <2>11. /\ q <= m => q \in 1..N /\ Start(q) <= end /\ ~Accepted(q) /\ results[q].kind = "error"
         /\ q = m + 1 => results[q].kind = "eof"
    <3>1. q = m + 1 => q = Reads
      BY <2>2, <2>5
    <3>2. SUFFICES ASSUME q <= m
                   PROVE  q \in 1..N /\ Start(q) <= end /\ ~Accepted(q) /\ results[q].kind = "error"
      BY <2>4, <3>1
    <3>3. q \in 1..m /\ q \in 1..N
      BY <2>2, <2>6, <2>9, <3>2
    <3>4. Start(q) <= end /\ Verdict(q) # "record" /\ results[q].kind = Verdict(q)
      BY <2>6, <2>9, <3>3
    <3> QED
      BY <2>1, <3>3, <3>4 DEF Verdict
  <2>12. Delivered = [i \in 1..(q - 1) |-> Start(i)]
    <3>1. Delivered = [i \in 1..(q - 1) |-> results[i].from]
      BY <2>7, <2>8 DEF Delivered
    <3>2. \A i \in 1..(q - 1) : results[i].from = Start(i)
      BY <2>6, <2>9
    <3> QED
      BY <3>1, <3>2
  <2>13. PICK f \in Nat : f = Len(fout)
    BY <2>2
  <2>14. /\ fout = [i \in 1..f |-> Start(i)] /\ f <= N
         /\ \A i \in 1..f : Start(i) + 1 <= end /\ FileVerdict(i) = "record"
         /\ fend = "nil" => Start(f + 1) + 1 > end
         /\ fend = "error" => Start(f + 1) + 1 <= end /\ FileVerdict(f + 1) = "error"
         /\ fend \in {"nil", "error"}
    BY <2>1, <2>13 DEF Inv, FileSoFar, Typed, TypeOK
  <2>15. \A i \in Nat \ {0} : Start(i) <= end => i \in 1..m
    <3>1. TAKE i \in Nat \ {0}
    <3>2. HAVE Start(i) <= end
    <3>3. i \in Nat /\ i <= N
      BY <2>2, <3>2, BegunIsRecord DEF Outer
    <3>4. Start(i) = 6 * i - 5 /\ (m < N => 6 * (m + 1) - 5 > end)
      BY <2>3, <2>6, <3>3
    <3> QED
      BY <2>2, <2>6, <3>2, <3>3, <3>4
  <2>16. CASE f + 1 < q
    <3>1. PICK k : k = f + 1
      OBVIOUS
    <3>2. k \in 1..(q - 1) /\ k \in 1..N /\ Accepted(k) /\ Start(k) <= end /\ Start(k) \in Nat
      BY <2>2, <2>10, <2>16, <3>1
    <3>3. FileVerdict(k) = "record" /\ Start(k) + 2 <= end
      BY <2>2, <3>2, FileAccepts
    <3>4. /\ fend = "nil" => Start(k) + 1 > end
          /\ fend = "error" => FileVerdict(k) = "error"
          /\ fend \in {"nil", "error"}
      BY <2>14, <3>1
    <3> QED
      BY <2>2, <3>2, <3>3, <3>4
  <2>17. CASE f + 1 = q
    <3>1. fout = Delivered
      BY <2>12, <2>14, <2>17
    <3>2. q \in Nat /\ Start(q) = 6 * q - 5
      BY <2>3
    <3>3. CASE fend = "error"
      <4>1. Start(q) + 1 <= end /\ q \in Nat \ {0}
        BY <2>9, <2>14, <2>17, <3>3
      <4>2. q <= m
        BY <2>2, <2>15, <3>2, <4>1
      <4> QED
        BY <2>8, <2>11, <3>1, <3>3, <4>2
    <3>4. CASE fend = "nil" /\ q = m + 1
      BY <2>8, <2>11, <3>1, <3>4
    <3>5. CASE fend = "nil" /\ q <= m
      <4>1. Start(q) + 1 > end
        BY <2>14, <2>17, <3>5
      <4>2. q \in DOMAIN kinds /\ Start(q) <= end
        BY <2>2, <2>11, <3>5
      <4>3. Torn(q)
        <5>1. Complete(q) <=> Start(q) + 4 <= end
          BY <2>2, <3>2, Shapes DEF Complete, Doc, Length
        <5> QED
          BY <2>2, <3>2, <4>1, <4>2, <5>1 DEF Torn, Begun
      <4> QED
        BY <2>12, <3>1, <4>2, <4>3
    <3> QED
      BY <2>9, <2>14, <3>3, <3>4, <3>5
  <2>18. CASE f + 1 > q
    <3>1. q \in 1..f /\ q \in Nat \ {0}
      BY <2>9, <2>18
    <3>2. Start(q) + 1 <= end /\ FileVerdict(q) = "record" /\ Start(q) = 6 * q - 5
      BY <2>3, <2>14, <3>1
    <3>3. q \in 1..m
      <4>1. Start(q) <= end
        BY <2>2, <3>1, <3>2
      <4> QED
        BY <2>15, <3>1, <4>1
    <3>4. q \in 1..N /\ Start(q) <= end /\ ~Accepted(q)
      BY <2>11, <3>3
    <3>5. Torn(q) /\ Start(q) + 4 > end
      BY <2>2, <3>2, <3>4, FileAccepts
    <3>6. f = q
      <4>1. SUFFICES ASSUME f # q PROVE FALSE
        OBVIOUS
      <4>2. PICK k : k = q + 1
        OBVIOUS
      <4>3. k \in 1..f /\ k \in Nat
        BY <2>9, <3>1, <4>1, <4>2
      <4>4. Start(k) + 1 <= end /\ Start(k) = 6 * k - 5
        BY <2>3, <2>14, <4>3
      <4> QED
        BY <2>2, <3>2, <3>5, <4>2, <4>4
    <3>7. fout = Append(Delivered, Start(q))
      <4>1. Delivered \in Seq(Nat) /\ Len(Delivered) = q - 1
        <5>1. \A i \in 1..(q - 1) : Start(i) \in Nat
          BY <2>2, <2>10
        <5>2. q - 1 \in Nat
          BY <3>1
        <5> QED
          BY <2>12, <5>1, <5>2
      <4>2. /\ Len(Append(Delivered, Start(q))) = q /\ DOMAIN Append(Delivered, Start(q)) = 1..q
            /\ Append(Delivered, Start(q))[q] = Start(q)
            /\ \A i \in 1..(q - 1) : Append(Delivered, Start(q))[i] = Delivered[i]
            /\ Append(Delivered, Start(q)) \in Seq(Nat)
        BY <2>2, <3>1, <3>4, <4>1
      <4>3. \A i \in 1..q : i \in 1..(q - 1) \/ i = q
        BY <3>1
      <4>4. \A i \in 1..(q - 1) : Delivered[i] = Start(i)
        BY <2>12
      <4>5. \A i \in 1..q : Append(Delivered, Start(q))[i] = Start(i)
        BY <4>2, <4>3, <4>4
      <4>6. PICK longer \in Seq(Nat) : longer = Append(Delivered, Start(q))
        BY <4>2
      <4>7. DOMAIN longer = 1..q /\ \A i \in 1..q : longer[i] = Start(i)
        BY <4>2, <4>5, <4>6
      <4>8. longer = [i \in 1..q |-> Start(i)]
        BY <4>7
      <4> QED
        BY <2>14, <3>6, <4>6, <4>8
    <3> QED
      BY <2>2, <2>12, <3>4, <3>5, <3>7
  <2> QED
    BY <2>9, <2>16, <2>17, <2>18
<1> QED
  BY <1>1, InvHolds, PTL

-----------------------------------------------------------------------------
\* Every Reader is a RecordReader.

\* The records due are those up to some record, the last one due.
LEMMA LastDue ==
  ASSUME Doc
  PROVE  \E d \in Due : /\ \A n \in Due : n <= d
                        /\ Records = [k \in 1..d |-> Start(k)]
<1>1. N \in Nat /\ Due \in SUBSET (0..N) /\ 0 \in Due
  BY DocNumbers DEF Due, N
<1>2. PICK t : t = {n \in Nat : N - n \in Due}
  OBVIOUS
<1>3. t \in SUBSET Nat /\ N \in t
  BY <1>1, <1>2
<1>4. PICK m \in t : \A n \in t : m <= n
  BY <1>3, Least
<1>5. PICK d : d = N - m
  OBVIOUS
<1>6. d \in Due
  BY <1>2, <1>4, <1>5
<1>7. ASSUME NEW n \in Due PROVE n <= d
  <2>1. PICK u : u = N - n
    OBVIOUS
  <2>2. u \in Nat /\ N - u = n
    BY <1>1, <2>1
  <2>3. u \in t
    BY <1>2, <2>2
  <2>4. m <= u /\ m \in Nat
    BY <1>2, <1>4, <2>3
  <2> QED
    BY <1>1, <1>5, <2>1, <2>4
<1>8. \E e \in Due : \A n \in Due : n <= e
  BY <1>6, <1>7
<1>9. PICK e : e = CHOOSE x \in Due : \A n \in Due : n <= x
  OBVIOUS
<1>10. e \in Due /\ \A n \in Due : n <= e
  BY <1>8, <1>9
<1>11. Records = [k \in 1..e |-> Start(k)]
  BY <1>9 DEF Records
<1> QED
  BY <1>10, <1>11

\* Records that were accepted are due.
LEMMA AcceptedAreDue ==
  ASSUME Doc, NEW m \in 0..N,
         \A i \in 1..m : Start(i) <= end /\ Accepted(i) /\ ~Swallowed(i)
  PROVE  m \in Due
<1>1. N \in Nat /\ N = Len(kinds)
  BY DocNumbers DEF N
<1>2. ASSUME NEW i \in 1..m PROVE Begun(i) /\ ~Refused(i) /\ ~Swallowed(i)
  <2>1. Start(i) <= end /\ Accepted(i) /\ ~Swallowed(i)
    OBVIOUS
  <2> QED
    BY <2>1 DEF Begun, Accepted, Refused
<1> QED
  BY <1>1, <1>2 DEF Due

\* What the promise of a RecordReader speaks of.
StreamEnd == IF Stops = {} THEN "none" ELSE results[FirstStop].kind
StreamCut == /\ format \in JsonFormats /\ Stops # {} /\ \E k \in DOMAIN kinds : Torn(k)
             /\ results[FirstStop].kind = "eof"

\* After a stop nothing more counts.
LEMMA StopsForGood ==
  ASSUME results \in Seq(Outcomes), NEW r \in Outcomes, results' = Append(results, r), Stops # {},
         UNCHANGED document
  PROVE  Delivered' = Delivered /\ StreamEnd' = StreamEnd /\ StreamCut' = StreamCut
<1>1. /\ Reads \in Nat /\ \A i \in 1..Reads : results'[i] = results[i]
      /\ Stops' = IF r.kind = "record" THEN Stops ELSE Stops \cup {Reads + 1}
      /\ Stops \subseteq 1..Reads /\ Reads' = Reads + 1
  BY OneMore
<1>2. FirstStop \in Stops /\ \A q \in Stops : FirstStop <= q
  BY FirstStopIs
<1>3. PICK f : f = FirstStop
  OBVIOUS
<1>4. f \in Stops' /\ f \in 1..Reads /\ \A q \in Stops' : f <= q
  BY <1>1, <1>2, <1>3
<1>5. results' \in Seq(Outcomes)
  OBVIOUS
<1>6. Stops' \in SUBSET Nat
  BY <1>1
<1>7. \A g \in Stops' : (\A q \in Stops' : g <= q) => g = f
  BY <1>4, <1>6
<1>8. FirstStop' = f
  <2>1. FirstStop' = CHOOSE g \in Stops' : \A q \in Stops' : g <= q
    BY DEF FirstStop
  <2> QED
    BY <1>4, <1>7, <2>1
<1>9. Stops' # {}
  BY <1>4
<1>10. Delivered' = [i \in 1..(f - 1) |-> results'[i].from] /\ Delivered = [i \in 1..(f - 1) |-> results[i].from]
  BY <1>3, <1>8, <1>9 DEF Delivered
<1>11. \A i \in 1..(f - 1) : i \in 1..Reads
  BY <1>1, <1>4
<1>12. results'[f] = results[f]
  BY <1>1, <1>4
<1> QED
  BY <1>1, <1>3, <1>8, <1>9, <1>10, <1>11, <1>12
     DEF StreamEnd, StreamCut, document, Torn, Begun, Complete, Start, end

\* A Read after which there is none yet hands out a record; one that is the
\* first of them ends the stream.
LEMMA StreamGoesOn ==
  ASSUME results \in Seq(Outcomes), NEW r \in Outcomes, results' = Append(results, r), Stops = {}
  PROVE  /\ Delivered = [i \in 1..Reads |-> results[i].from] /\ StreamEnd = "none" /\ StreamCut = FALSE
         /\ r.kind = "record" => /\ Delivered' = Append(Delivered, r.from)
                                 /\ StreamEnd' = "none" /\ StreamCut' = FALSE
         /\ r.kind # "record" => /\ Delivered' = Delivered /\ StreamEnd' = r.kind
                                 /\ FirstStop' = Reads' /\ Stops' # {} /\ results'[FirstStop'].kind = r.kind
<1>1. /\ Reads \in Nat /\ Reads' = Reads + 1 /\ results'[Reads'] = r
      /\ \A i \in 1..Reads : results'[i] = results[i]
      /\ Stops' = IF r.kind = "record" THEN {} ELSE {Reads + 1}
  BY OneMore
<1>2. Delivered = [i \in 1..Reads |-> results[i].from] /\ StreamEnd = "none" /\ StreamCut = FALSE
  BY DEF Delivered, StreamEnd, StreamCut, Reads
<1>3. \A i \in 1..Reads : results[i].from \in Nat
  <2>1. \A o \in Outcomes : o.from \in Nat
    BY DEF Outcomes
  <2>2. \A i \in 1..Reads : results[i] \in Outcomes
    BY DEF Reads
  <2> QED
    BY <2>1, <2>2
<1>4. r.from \in Nat
  BY DEF Outcomes
<1>5. ASSUME r.kind = "record"
      PROVE  Delivered' = Append(Delivered, r.from) /\ StreamEnd' = "none" /\ StreamCut' = FALSE
  <2>1. Stops' = {}
    BY <1>1, <1>5
  <2>2. StreamEnd' = "none" /\ StreamCut' = FALSE
    BY <2>1 DEF StreamEnd, StreamCut
  <2>3. Delivered' = [i \in 1..(Reads + 1) |-> results'[i].from]
    BY <1>1, <2>1 DEF Delivered, Reads
  <2>4. Delivered \in Seq(Nat) /\ Len(Delivered) = Reads
    BY <1>1, <1>2, <1>3
  <2>5. PICK longer \in Seq(Nat) : longer = Append(Delivered, r.from)
    <3>1. Append(Delivered, r.from) \in Seq(Nat)
      BY <1>4, <2>4
    <3> QED
      BY <3>1
  <2>6. /\ DOMAIN longer = 1..(Reads + 1) /\ longer[Reads + 1] = r.from
        /\ \A i \in 1..Reads : longer[i] = Delivered[i]
    BY <1>1, <1>4, <2>4, <2>5
  <2>7. \A i \in 1..(Reads + 1) : i \in 1..Reads \/ i = Reads + 1
    BY <1>1
  <2>8. \A i \in 1..(Reads + 1) : longer[i] = results'[i].from
    BY <1>1, <1>2, <2>6, <2>7
  <2>9. PICK d : d = [i \in 1..(Reads + 1) |-> results'[i].from]
    OBVIOUS
  <2>10. DOMAIN longer = 1..(Reads + 1) /\ \A i \in 1..(Reads + 1) : longer[i] = d[i]
    BY <2>6, <2>8, <2>9
  <2>11. longer = [i \in 1..(Reads + 1) |-> d[i]]
    BY <2>10
  <2>12. d = [i \in 1..(Reads + 1) |-> d[i]]
    BY <2>9
  <2> QED
    BY <2>2, <2>3, <2>5, <2>9, <2>11, <2>12
<1>6. ASSUME r.kind # "record"
      PROVE  /\ Delivered' = Delivered /\ StreamEnd' = r.kind
             /\ FirstStop' = Reads' /\ Stops' # {} /\ results'[FirstStop'].kind = r.kind
  <2>1. Stops' = {Reads + 1}
    BY <1>1, <1>6
  <2>2. FirstStop' = CHOOSE g \in Stops' : \A q \in Stops' : g <= q
    BY DEF FirstStop
  <2>3. FirstStop' = Reads + 1
    BY <1>1, <2>1, <2>2
  <2>4. Stops' # {}
    BY <2>1
  <2>5. PICK b : b = FirstStop'
    OBVIOUS
  <2>6. PICK d : d = [i \in 1..(b - 1) |-> results'[i].from]
    OBVIOUS
  <2>7. Delivered' = d
    BY <2>4, <2>5, <2>6 DEF Delivered
  <2>8. b - 1 = Reads
    BY <1>1, <2>3, <2>5
  <2>9. DOMAIN d = 1..Reads /\ \A i \in 1..Reads : d[i] = results[i].from
    BY <1>1, <2>6, <2>8
  <2>10. d = [i \in 1..(b - 1) |-> d[i]]
    BY <2>6
  <2>11. d = [i \in 1..Reads |-> results[i].from]
    BY <2>8, <2>9, <2>10
  <2> QED
    BY <1>1, <1>2, <2>3, <2>4, <2>7, <2>11 DEF StreamEnd
<1> QED
  BY <1>2, <1>5, <1>6

\* What a step is to one who only sees the stream.
StreamStutters ==
  Records' = Records /\ Delivered' = Delivered /\ StreamEnd' = StreamEnd /\ StreamCut' = StreamCut
StreamDelivers ==
  /\ StreamEnd = "none" /\ Len(Delivered) < Len(Records)
  /\ Delivered' = Append(Delivered, Records[Len(Delivered) + 1])
  /\ Records' = Records /\ StreamCut' = StreamCut /\ StreamEnd' = StreamEnd
StreamFinishes ==
  /\ StreamEnd = "none" /\ StreamCut = FALSE /\ StreamCut' \in BOOLEAN
  /\ StreamEnd' = "error" \/ (StreamEnd' = "eof" /\ (StreamCut' \/ Len(Delivered) = Len(Records)))
  /\ Records' = Records /\ Delivered' = Delivered

\* It leaves the document alone, and so what is due.
LEMMA RecordsStay ==
  ASSUME UNCHANGED document
  PROVE  Records' = Records
BY DEF document, Records, Due, Start, Begun, Refused, Swallowed, end

\* In step, a Read hands out the next record that is due, or ends the stream.
LEMMA ReadStreams ==
  ASSUME Inv, Read, Stops = {}
  PROVE  StreamDelivers \/ StreamFinishes
<1>1. UNCHANGED document
  BY DEF Read
<1>2. Steady /\ ReadsOn
  BY InStep, StepOn
<1>3. /\ end \in Nat /\ N \in Nat /\ Reads \in 0..N /\ results \in Seq(Outcomes) /\ Reads = Len(results)
      /\ tail \in {"eof", "error"} /\ Doc /\ Records' = Records
  BY <1>1, <1>2, DocNumbers, RecordsStay DEF Steady, InOrder, Reads
<1>4. PICK w \in {"record", "error", "eof"}, s \in 1..(end + 1), p \in 0..end : Returns(w, s, p)
  BY ReadReturns DEF Inv
<1>5. PICK r : r = [kind |-> w, from |-> s, to |-> p]
  OBVIOUS
<1>6. r \in Outcomes /\ results' = Append(results, r) /\ r.kind = w
  BY <1>3, <1>4, <1>5 DEF Returns, Outcomes
<1>7. /\ Delivered = [i \in 1..Reads |-> results[i].from] /\ StreamEnd = "none" /\ StreamCut = FALSE
      /\ r.kind = "record" => /\ Delivered' = Append(Delivered, r.from)
                              /\ StreamEnd' = "none" /\ StreamCut' = FALSE
      /\ r.kind # "record" => /\ Delivered' = Delivered /\ StreamEnd' = r.kind
                              /\ FirstStop' = Reads' /\ Stops' # {} /\ results'[FirstStop'].kind = r.kind
  BY <1>3, <1>6, StreamGoesOn
<1>8. Len(Delivered) = Reads
  <2>1. \A i \in 1..Reads : results[i] \in Outcomes
    BY <1>3
  <2>2. \A o \in Outcomes : o.from \in Nat
    BY DEF Outcomes
  <2>3. Delivered \in Seq(Nat) /\ DOMAIN Delivered = 1..Reads
    BY <1>3, <1>7, <2>1, <2>2
  <2> QED
    BY <1>3, <2>3
<1>9. \A i \in 1..Reads : Start(i) <= end /\ Accepted(i) /\ ~Swallowed(i)
  BY <1>2, NoStop DEF Steady, InOrder
<1>10. PICK d \in Due : (\A n \in Due : n <= d) /\ Records = [k \in 1..d |-> Start(k)]
  BY <1>3, LastDue
<1>11. /\ d \in 0..N /\ Len(Records) = d
       /\ \A k \in 1..d : Records[k] = Start(k) /\ Start(k) <= end /\ ~Swallowed(k)
  <2>1. d \in 0..N /\ \A k \in 1..d : Start(k) <= end /\ ~Swallowed(k)
    BY <1>3 DEF Due, N, Begun
  <2>2. \A k \in 1..d : Start(k) \in Nat
    <3>1. \A k \in 1..d : k \in 1..N
      BY <1>3, <2>1
    <3> QED
      BY <1>3, <3>1, DocNumbers
  <2>3. Records \in Seq(Nat) /\ DOMAIN Records = 1..d /\ \A k \in 1..d : Records[k] = Start(k)
    BY <1>10, <2>1, <2>2
  <2> QED
    BY <2>1, <2>3
<1>12. Reads <= d
  BY <1>3, <1>9, <1>10, AcceptedAreDue
<1>13. PICK k : k = Reads + 1
  OBVIOUS
<1>14. CASE k \in 1..N /\ Start(k) <= end /\ ~Swallowed(k) /\ ReadsNext(k)
  <2>1. r.kind = Verdict(k) /\ r.from = Start(k)
    <3>1. PICK q : q = [kind |-> Verdict(k), from |-> Start(k), to |-> StopAt(k)]
      OBVIOUS
    <3>2. results' = Append(results, q) /\ q.kind = Verdict(k) /\ q.from = Start(k)
      BY <1>14, <3>1 DEF ReadsNext
    <3>3. results'[Len(results) + 1] = q
      BY <1>3, <3>2
    <3>4. results'[Len(results) + 1] = r
      BY <1>3, <1>6
    <3> QED
      BY <3>2, <3>3, <3>4
  <2>2. CASE Verdict(k) = "record"
    <3>1. Accepted(k)
      BY <1>3, <2>2 DEF Verdict
    <3>2. \A i \in 1..k : i \in 1..Reads \/ i = k
      BY <1>3, <1>13
    <3>3. \A i \in 1..k : Start(i) <= end /\ Accepted(i) /\ ~Swallowed(i)
      BY <1>9, <1>14, <3>1, <3>2
    <3>4. k \in Due
      <4>1. k \in 0..N
        BY <1>14
      <4> QED
        BY <1>3, <3>3, <4>1, AcceptedAreDue
    <3>5. k \in 1..d /\ Reads < d
      BY <1>3, <1>10, <1>11, <1>13, <3>4
    <3>6. Records[Reads + 1] = Start(k)
      BY <1>11, <1>13, <3>5
    <3> QED
      BY <1>3, <1>7, <1>8, <1>11, <2>1, <2>2, <3>5, <3>6 DEF StreamDelivers
  <2>3. CASE Verdict(k) # "record"
    <3>1. /\ Delivered' = Delivered /\ StreamEnd' = Verdict(k) /\ Stops' # {}
          /\ results'[FirstStop'].kind = Verdict(k)
      BY <1>7, <2>1, <2>3
    <3>2. StreamCut' \in BOOLEAN
      BY DEF StreamCut
    <3>3. ~Accepted(k) /\ Verdict(k) \in {"eof", "error"}
      BY <1>3, <2>3 DEF Verdict
    <3>4. ASSUME Verdict(k) = "eof" PROVE StreamCut'
      <4>1. format \in JsonFormats /\ ~Refused(k) /\ ~Accepted(k)
        BY <3>3, <3>4 DEF Verdict
      <4>2. format # "iso2709" /\ format # "mrk" /\ Length(format) = 4
        BY <4>1 DEF JsonFormats, Length
      <4>3. kinds[k] \in {"good", "bad"} /\ Start(k) \in Nat \ {0} /\ k \in DOMAIN kinds
        BY <1>3, <1>14, <4>2, DocNumbers DEF Doc, N
      <4>4. Complete(k) <=> Start(k) + 3 <= end
        BY <1>3, <4>2, <4>3, Shapes DEF Complete, Doc
      <4>5. ~Complete(k)
        BY <1>3, <4>1, <4>3, <4>4 DEF Accepted, Refused
      <4>6. Torn(k) /\ k \in DOMAIN kinds
        BY <1>14, <4>3, <4>5 DEF Torn, Begun
      <4>7. (\E i \in DOMAIN kinds : Torn(i)) /\ format \in JsonFormats
        BY <4>1, <4>6
      <4>8. (\E i \in DOMAIN kinds : Torn(i))' /\ format' \in JsonFormats
        BY <1>1, <4>7 DEF document, Torn, Begun, Complete, Start, end
      <4> QED
        BY <3>1, <3>4, <4>8 DEF StreamCut
    <3> QED
      BY <1>3, <1>7, <3>1, <3>2, <3>3, <3>4 DEF StreamFinishes
  <2> QED
    BY <2>2, <2>3
<1>15. CASE /\ k <= N => Start(k) > end \/ Swallowed(k)
            /\ EndsReads
  <2>1. PICK v \in {"eof", "error"}, f \in 1..(end + 1) :
          results' = Append(results, [kind |-> v, from |-> f, to |-> pos'])
    BY <1>15 DEF EndsReads
  <2>2. r.kind = v
    <3>1. PICK q : q = [kind |-> v, from |-> f, to |-> pos']
      OBVIOUS
    <3>2. results' = Append(results, q) /\ q.kind = v
      BY <2>1, <3>1
    <3>3. results'[Len(results) + 1] = q
      BY <1>3, <3>2
    <3>4. results'[Len(results) + 1] = r
      BY <1>3, <1>6
    <3> QED
      BY <3>2, <3>3, <3>4
  <2>3. d = Reads
    <3>1. SUFFICES ASSUME Reads < d PROVE FALSE
      BY <1>3, <1>11, <1>12
    <3>2. k \in 1..d /\ k \in 1..N
      BY <1>3, <1>11, <1>13, <3>1
    <3>3. Start(k) <= end /\ ~Swallowed(k) /\ Start(k) \in Nat
      BY <1>3, <1>11, <3>2, DocNumbers
    <3> QED
      BY <1>3, <1>15, <3>2, <3>3
  <2>4. StreamCut' \in BOOLEAN
    BY DEF StreamCut
  <2> QED
    BY <1>3, <1>7, <1>8, <1>11, <2>2, <2>3, <2>4 DEF StreamFinishes
<1> QED
  BY <1>2, <1>13, <1>14, <1>15 DEF ReadsOn

\* Any step is one of a stream, or none.
LEMMA StepStreams ==
  ASSUME Inv, [Next]_vars
  PROVE  StreamStutters \/ StreamDelivers \/ StreamFinishes
<1>1. CASE Read /\ Stops # {}
  <2>1. UNCHANGED document /\ results \in Seq(Outcomes) /\ end \in Nat
    BY <1>1, DocNumbers DEF Read, Inv, Typed
  <2>2. PICK w \in {"record", "error", "eof"}, s \in 1..(end + 1), p \in 0..end : Returns(w, s, p)
    BY <1>1, ReadReturns DEF Inv
  <2>3. PICK r : r = [kind |-> w, from |-> s, to |-> p]
    OBVIOUS
  <2>4. r \in Outcomes /\ results' = Append(results, r)
    BY <2>1, <2>2, <2>3 DEF Returns, Outcomes
  <2> QED
    BY <1>1, <2>1, <2>4, RecordsStay, StopsForGood DEF StreamStutters
<1>2. CASE Read /\ Stops = {}
  BY <1>2, ReadStreams
<1>3. CASE UNCHANGED <<document, reader>>
  <2>1. UNCHANGED document /\ results' = results
    BY <1>3 DEF reader
  <2>2. Stops' = Stops /\ FirstStop' = FirstStop /\ Delivered' = Delivered /\ Records' = Records
    BY <2>1, RecordsStay DEF Stops, FirstStop, Delivered
  <2>3. StreamEnd' = StreamEnd /\ StreamCut' = StreamCut
    BY <2>1, <2>2 DEF StreamEnd, StreamCut, document, Torn, Begun, Complete, Start, end
  <2> QED
    BY <2>2, <2>3 DEF StreamStutters
<1>4. FileFails \/ FileEnds \/ FileRecord \/ UNCHANGED vars => UNCHANGED <<document, reader>>
  BY DEF FileFails, FileEnds, FileRecord, vars
<1> QED
  BY <1>1, <1>2, <1>3, <1>4 DEF Next

\* StreamsInput: in every format, whatever records a document holds, however
\* many, and wherever it is cut, Read hands out the records that are due in
\* order, none left out or repeated, and io.EOF only after the last; except for
\* marcjson's io.EOF inside a record.
THEOREM ReadersStreamInput == Spec => StreamsInput
<1>1. Init => Source!Init
  <2>1. SUFFICES ASSUME Init PROVE Source!Init
    OBVIOUS
  <2>2. Doc
    BY <2>1, DocInit
  <2>3. PICK d \in Due : Records = [k \in 1..d |-> Start(k)]
    BY <2>2, LastDue
  <2>4. d \in Nat /\ \A k \in 1..d : Start(k) \in Nat
    <3>1. d \in 0..N /\ N \in Nat
      BY <2>2, DocNumbers DEF Due, N
    <3>2. \A k \in 1..d : k \in 1..N
      BY <3>1
    <3> QED
      BY <2>2, <3>1, <3>2, DocNumbers
  <2>5. Records \in Seq(Nat)
    BY <2>3, <2>4
  <2>6. Stops = {} /\ Len(results) = 0
    BY <2>1 DEF Init, Stops
  <2>7. Delivered = <<>>
    BY <2>6 DEF Delivered
  <2> QED
    BY <2>5, <2>6, <2>7 DEF Source!Init
<1>2. Inv /\ [Next]_vars => [Source!Next]_(Source!sourceVars)
  <2>1. SUFFICES ASSUME Inv, [Next]_vars PROVE [Source!Next]_(Source!sourceVars)
    OBVIOUS
  <2>2. CASE StreamStutters
    BY <2>2 DEF StreamStutters, StreamEnd, StreamCut, Source!sourceVars
  <2>3. CASE StreamDelivers
    BY <2>3 DEF StreamDelivers, StreamEnd, StreamCut, Source!Next, Source!Deliver
  <2>4. CASE StreamFinishes
    BY <2>4 DEF StreamFinishes, StreamEnd, StreamCut, Source!Next, Source!Finish
  <2> QED
    BY <2>1, <2>2, <2>3, <2>4, StepStreams
<1> QED
  BY <1>1, <1>2, InvHolds, PTL DEF Spec, StreamsInput, Source!Spec


-----------------------------------------------------------------------------
\* RecordFields.  The Decoder, whatever is in the tables.

Sets == {"ascii", "ansel"} \cup {SetByFinal(f, m) : f \in Nat, m \in BOOLEAN}
Points == {DecodeChar(s, data)[1] : s \in Sets, data \in Seq(Nat)}
          \cup {Marc8Compose[p] : p \in DOMAIN Marc8Compose}
Decoders == [g0 : Sets, g1 : Sets, lossy : BOOLEAN, pending : Seq(Points), text : Seq(Points)]
Turns == [d : Decoders, rest : Seq(Nat)]

\* An escape sequence is some of the data in front, and designates some set.
LEMMA IntermediatesIs ==
  ASSUME NEW data \in Seq(Nat), data # <<>>
  PROVE  Intermediates(data) \in 1..Len(data)
<1> DEFINE is(n) == /\ \A i \in 2..n : data[i] \in 32..47
                    /\ n < Len(data) => data[n + 1] \notin 32..47
           stops == {n \in 1..Len(data) : n = Len(data) \/ data[n + 1] \notin 32..47}
<1>1. stops \in SUBSET Nat /\ Len(data) \in stops
  OBVIOUS
<1>2. PICK n \in stops : \A k \in stops : n <= k
  <2> HIDE DEF stops
  <2> QED
    BY <1>1, Least
<1>3. n \in 1..Len(data) /\ (n = Len(data) \/ data[n + 1] \notin 32..47)
  OBVIOUS
<1>4. ASSUME NEW i \in 2..n PROVE data[i] \in 32..47
  <2>1. i - 1 \in 1..Len(data) /\ i - 1 # Len(data) /\ (i - 1) + 1 = i /\ ~(n <= i - 1)
    <3>1. PICK m : m = Len(data)
      OBVIOUS
    <3>2. m \in Nat /\ n \in 1..m
      BY <1>3, <3>1
    <3> HIDE DEF stops
    <3>3. i - 1 \in 1..m /\ i - 1 # m /\ (i - 1) + 1 = i /\ ~(n <= i - 1)
      BY <3>2
    <3> QED
      BY <3>1, <3>3
  <2>2. i - 1 \notin stops
    BY <1>2, <2>1
  <2> QED
    BY <2>1, <2>2
<1>5. \E k \in 1..Len(data) : is(k)
  <2>1. n < Len(data) => data[n + 1] \notin 32..47
    BY <1>3
  <2> QED
    BY <1>3, <1>4, <2>1
<1>6. Intermediates(data) = CHOOSE k \in 1..Len(data) : is(k)
  BY DEF Intermediates
<1> HIDE DEF is
<1> QED
  BY <1>5, <1>6

\* An escape sequence leaves a Decoder, and takes some of the data.
LEMMA EscapeTypes ==
  ASSUME NEW d \in Decoders, NEW data \in Seq(Nat), data # <<>>
  PROVE  InterpretEscape(d, data)[1] \in Decoders /\ InterpretEscape(d, data)[2] \in Nat
<1>1. PICK n : n = Intermediates(data)
  OBVIOUS
<1>2. n \in 1..Len(data)
  BY <1>1, IntermediatesIs
<1> DEFINE ofTarget == {i \in 2..n : data[i] \in {40, 41, 44, 45}}
           toG1 == ofTarget # {} /\ data[CHOOSE i \in ofTarget : \A j \in ofTarget : j <= i] \in {41, 45}
           multibyte == \E i \in 2..n : data[i] = 36
           set == SetByFinal(data[n + 1], multibyte)
<1>3. InterpretEscape(d, data) =
        IF n = Len(data) \/ data[n + 1] \notin 48..126
          THEN <<[d EXCEPT !.lossy = TRUE], n>>
          ELSE <<IF toG1 THEN [d EXCEPT !.g1 = set] ELSE [d EXCEPT !.g0 = set], n + 1>>
  BY <1>1 DEF InterpretEscape
<1>4. CASE n = Len(data) \/ data[n + 1] \notin 48..126
  <2>1. [d EXCEPT !.lossy = TRUE] \in Decoders
    BY DEF Decoders
  <2> QED
    BY <1>2, <1>3, <1>4, <2>1
<1>5. CASE ~(n = Len(data) \/ data[n + 1] \notin 48..126)
  <2>1. n + 1 \in 1..Len(data)
    BY <1>2, <1>5
  <2>2. data[n + 1] \in Nat /\ multibyte \in BOOLEAN
    BY <2>1
  <2> HIDE DEF multibyte, toG1
  <2>3. set \in Sets
    BY <2>2 DEF Sets
  <2> HIDE DEF set
  <2>4. [d EXCEPT !.g1 = set] \in Decoders /\ [d EXCEPT !.g0 = set] \in Decoders
    BY <2>3 DEF Decoders
  <2>5. n + 1 \in Nat
    BY <1>2
  <2> QED
    BY <1>3, <1>5, <2>4, <2>5
<1> QED
  BY <1>4, <1>5

\* A character is of some bytes of the data.
LEMMA CharTypes ==
  ASSUME NEW set \in Sets, NEW data \in Seq(Nat)
  PROVE  DecodeChar(set, data)[1] \in Points /\ DecodeChar(set, data)[2] \in Nat
<1>1. DecodeChar(set, data)[1] \in Points
  BY DEF Points
<1>2. DecodeEacc(data)[2] \in Nat
  BY DEF DecodeEacc
<1>3. \A table, b, raw : Lookup(table, b, raw)[2] \in Nat
  BY DEF Lookup
<1>4. DecodeChar(set, data)[2] \in Nat
  <2>1. CASE set = "ascii" \/ set = "unsupported"
    BY <2>1 DEF DecodeChar
  <2>2. CASE set = "eacc"
    BY <1>2, <2>2 DEF DecodeChar
  <2>3. CASE set = "ansel"
    BY <1>3, <2>3 DEF DecodeChar
  <2>4. CASE set \notin {"ascii", "unsupported", "eacc", "ansel"}
    BY <1>3, <2>4 DEF DecodeChar
  <2> QED
    BY <2>1, <2>2, <2>3, <2>4
<1> QED
  BY <1>1, <1>4

\* A Decoder's text may be any, and nothing pending.
LEMMA WithTextTypes ==
  ASSUME NEW d \in Decoders, NEW text \in Seq(Points)
  PROVE  [d EXCEPT !.text = text, !.pending = <<>>] \in Decoders
<1>1. PICK texts : texts = Seq(Points)
  OBVIOUS
<1>2. PICK empty : empty = <<>>
  OBVIOUS
<1>3. empty \in texts /\ text \in texts
  BY <1>1, <1>2
<1>4. Decoders = [g0 : Sets, g1 : Sets, lossy : BOOLEAN, pending : texts, text : texts]
  BY <1>1 DEF Decoders
<1>5. [d EXCEPT !.text = text, !.pending = empty] \in Decoders
  BY <1>3, <1>4
<1> QED
  BY <1>2, <1>5

\* Taking a character leaves a Decoder.
LEMMA TakeCharTypes ==
  ASSUME NEW d \in Decoders, NEW char, char[1] \in Points
  PROVE  TakeChar(d, char) \in Decoders
<1> DEFINE lost == d.lossy \/ ~char[3]
           seen == [d EXCEPT !.lossy = lost]
<1>1. lost \in BOOLEAN
  OBVIOUS
<1>2. TakeChar(d, char) = IF IsCombining(char[1]) THEN [seen EXCEPT !.pending = Append(seen.pending, char[1])]
                          ELSE Flush(seen, char[1])
  BY DEF TakeChar
<1> HIDE DEF lost
<1>3. seen \in Decoders
  BY <1>1 DEF Decoders
<1> HIDE DEF seen
<1>4. seen.pending \in Seq(Points) /\ seen.text \in Seq(Points)
  BY <1>3 DEF Decoders
<1>5. Append(seen.pending, char[1]) \in Seq(Points)
  BY <1>4
<1>6. [seen EXCEPT !.pending = Append(seen.pending, char[1])] \in Decoders
  BY <1>3, <1>5 DEF Decoders
<1>7. Flush(seen, char[1]) \in Decoders
  <2>1. PICK base : base = char[1]
    OBVIOUS
  <2>2. base \in Points
    BY <2>1
  <2>3. CASE seen.pending # <<>> /\ <<base, seen.pending[1]>> \in DOMAIN Marc8Compose
    <3>1. PICK one : one = Marc8Compose[<<base, seen.pending[1]>>]
      OBVIOUS
    <3>2. one \in {Marc8Compose[p] : p \in DOMAIN Marc8Compose}
      BY <2>3, <3>1
    <3>3. one \in Points
      <4> HIDE DEF Marc8Compose
      <4> QED
        BY <3>2 DEF Points
    <3>4. PICK text : text = seen.text \o <<one>> \o Tail(seen.pending)
      OBVIOUS
    <3>5. text \in Seq(Points)
      BY <1>4, <2>3, <3>3, <3>4
    <3>6. Flush(seen, base) = [seen EXCEPT !.text = text, !.pending = <<>>]
      BY <2>3, <3>1, <3>4 DEF Flush
    <3>7. [seen EXCEPT !.text = text, !.pending = <<>>] \in Decoders
      BY <1>3, <3>5, WithTextTypes
    <3> QED
      BY <2>1, <3>6, <3>7
  <2>4. CASE ~(seen.pending # <<>> /\ <<base, seen.pending[1]>> \in DOMAIN Marc8Compose)
    <3>1. PICK text : text = seen.text \o <<base>> \o seen.pending
      OBVIOUS
    <3>2. text \in Seq(Points)
      BY <1>4, <2>2, <3>1
    <3>3. Flush(seen, base) = [seen EXCEPT !.text = text, !.pending = <<>>]
      BY <2>4, <3>1 DEF Flush
    <3>4. [seen EXCEPT !.text = text, !.pending = <<>>] \in Decoders
      BY <1>3, <3>2, WithTextTypes
    <3> QED
      BY <2>1, <3>3, <3>4
  <2> QED
    BY <2>3, <2>4
<1> QED
  BY <1>2, <1>6, <1>7

\* What follows the first n bytes.
LEMMA BehindTypes ==
  ASSUME NEW data \in Seq(Nat), NEW n \in Nat
  PROVE  SubSeq(data, n + 1, Len(data)) \in Seq(Nat)
OBVIOUS

\* A turn of the loop leaves a Decoder and some of the data.
LEMMA TurnTypes == \A s \in Turns : TakeUnit(s) \in Turns
<1> SUFFICES ASSUME NEW s \in Turns PROVE TakeUnit(s) \in Turns
  OBVIOUS
<1>1. s.d \in Decoders /\ s.rest \in Seq(Nat) /\ s.d.g0 \in Sets /\ s.d.g1 \in Sets
  BY DEF Turns, Decoders
<1> DEFINE esc == InterpretEscape(s.d, s.rest)
           char == DecodeChar(IF s.rest[1] < 128 THEN s.d.g0 ELSE s.d.g1, s.rest)
<1>2. CASE s.rest = <<>>
  BY <1>2 DEF TakeUnit
<1>3. CASE s.rest # <<>> /\ s.rest[1] = Escape
  <2>1. TakeUnit(s) = [d |-> esc[1], rest |-> SubSeq(s.rest, esc[2] + 1, Len(s.rest))]
    BY <1>3 DEF TakeUnit
  <2>2. esc[1] \in Decoders /\ esc[2] \in Nat
    BY <1>1, <1>3, EscapeTypes
  <2> HIDE DEF esc
  <2>3. SubSeq(s.rest, esc[2] + 1, Len(s.rest)) \in Seq(Nat)
    BY <1>1, <2>2, BehindTypes
  <2> QED
    BY <2>1, <2>2, <2>3 DEF Turns
<1>4. CASE s.rest # <<>> /\ s.rest[1] # Escape
  <2>1. TakeUnit(s) = [d |-> TakeChar(s.d, char), rest |-> SubSeq(s.rest, char[2] + 1, Len(s.rest))]
    BY <1>4 DEF TakeUnit
  <2>2. char[1] \in Points /\ char[2] \in Nat
    <3>1. (IF s.rest[1] < 128 THEN s.d.g0 ELSE s.d.g1) \in Sets
      BY <1>1
    <3> QED
      BY <1>1, <3>1, CharTypes
  <2> HIDE DEF char
  <2>3. SubSeq(s.rest, char[2] + 1, Len(s.rest)) \in Seq(Nat)
    BY <1>1, <2>2, BehindTypes
  <2>4. TakeChar(s.d, char) \in Decoders
    BY <1>1, <2>2, TakeCharTypes
  <2> QED
    BY <2>1, <2>3, <2>4 DEF Turns
<1> QED
  BY <1>2, <1>3, <1>4

-----------------------------------------------------------------------------
\* Decode is so many turns, from an empty text to one with the marks left over.

Started(d, data) == [d |-> [d EXCEPT !.text = <<>>, !.pending = <<>>], rest |-> data]
Finished(d) == [d EXCEPT !.text = d.text \o d.pending, !.pending = <<>>]

\* A Decoder with its text begun or ended is one.
LEMMA StartedTypes ==
  ASSUME NEW d \in Decoders, NEW data \in Seq(Nat)
  PROVE  Started(d, data) \in Turns /\ Finished(d) \in Decoders
<1>1. [d EXCEPT !.text = <<>>, !.pending = <<>>] \in Decoders
  <2>1. <<>> \in Seq(Points)
    OBVIOUS
  <2> QED
    BY <2>1, WithTextTypes
<1>2. Started(d, data) \in Turns
  BY <1>1 DEF Started, Turns
<1>3. Finished(d) \in Decoders
  <2>1. d.text \in Seq(Points) /\ d.pending \in Seq(Points)
    BY DEF Decoders
  <2>2. d.text \o d.pending \in Seq(Points)
    BY <2>1
  <2> QED
    BY <2>2, WithTextTypes DEF Finished
<1> QED
  BY <1>2, <1>3

\* The turns, one after another.
LEMMA TurnsFrom ==
  \A first \in Turns : \E g \in [Nat -> Turns] : g[0] = first /\ \A n \in Nat : g[n + 1] = TakeUnit(g[n])
<1>1. PICK turns, next : turns = Turns /\ next = [n \in Nat |-> [s \in Turns |-> TakeUnit(s)]]
  OBVIOUS
<1>2. next \in [Nat -> [turns -> turns]]
  BY <1>1, TurnTypes
<1>3. \A n \in Nat, s \in Turns : next[n][s] = TakeUnit(s)
  BY <1>1
<1>4. ASSUME NEW first \in Turns
      PROVE  \E g \in [Nat -> Turns] : g[0] = first /\ \A n \in Nat : g[n + 1] = TakeUnit(g[n])
  <2>1. PICK g : g \in Iterates(turns, first, next)
    BY <1>1, <1>2, Recursion
  <2>2. g \in [Nat -> Turns] /\ g[0] = first /\ \A n \in Nat : g[n + 1] = next[n][g[n]]
    BY <1>1, <2>1 DEF Iterates
  <2>3. \A n \in Nat : g[n + 1] = TakeUnit(g[n])
    BY <1>3, <2>2
  <2> QED
    BY <2>2, <2>3
<1> QED
  BY <1>4

\* The turns of a call of Decode.
LEMMA DecodeRun ==
  ASSUME NEW d \in Decoders, NEW data \in Seq(Nat)
  PROVE  \E after \in [Nat -> Turns] :
           /\ after[0] = Started(d, data)
           /\ \A n \in Nat : after[n + 1] = TakeUnit(after[n])
           /\ Decode(d, data) = Finished(after[Len(data)].d)
<1> DEFINE eq(f) == f = [n \in Nat |-> IF n = 0 THEN Started(d, data) ELSE TakeUnit(f[n - 1])]
<1>1. PICK g \in [Nat -> Turns] : g[0] = Started(d, data) /\ \A n \in Nat : g[n + 1] = TakeUnit(g[n])
  <2> HIDE DEF eq
  <2>1. Started(d, data) \in Turns
    BY StartedTypes
  <2> QED
    BY <2>1, TurnsFrom
<1>2. eq(g)
  <2>1. ASSUME NEW n \in Nat
        PROVE  g[n] = IF n = 0 THEN Started(d, data) ELSE TakeUnit(g[n - 1])
    <3>1. n # 0 => n - 1 \in Nat /\ (n - 1) + 1 = n
      OBVIOUS
    <3> QED
      BY <1>1, <3>1
  <2> QED
    BY <1>1, <2>1
<1> DEFINE h == CHOOSE f : eq(f)
<1>3. eq(h)
  <2> HIDE DEF eq
  <2> QED
    BY <1>2
<1>4. Decode(d, data) = Finished(h[Len(data)].d)
  <2>1. [d |-> [d EXCEPT !.pending = <<>>, !.text = <<>>], rest |-> data] = Started(d, data)
    BY DEF Started, Decoders
  <2> QED
    BY <2>1 DEF Decode, Finished
<1> HIDE DEF h
<1>5. DOMAIN h = Nat /\ h[0] = Started(d, data) /\ \A n \in Nat : h[n + 1] = TakeUnit(h[n])
  <2>1. ASSUME NEW n \in Nat PROVE h[n + 1] = TakeUnit(h[n])
    <3>1. n + 1 \in Nat /\ n + 1 # 0 /\ (n + 1) - 1 = n
      OBVIOUS
    <3> QED
      BY <1>3, <3>1
  <2> QED
    BY <1>3, <2>1
<1>6. h \in [Nat -> Turns]
  <2> DEFINE T == {n \in Nat : h[n] \in Turns}
  <2>1. 0 \in T
    BY <1>5, StartedTypes
  <2>2. ASSUME NEW n \in Nat, n \in T PROVE n + 1 \in T
    BY <1>5, <2>2, TurnTypes
  <2>3. Nat \subseteq T
    <3> HIDE DEF T
    <3> QED
      BY <2>1, <2>2, InductionBySet
  <2>4. h = [n \in Nat |-> h[n]]
    BY <1>3
  <2> QED
    BY <2>3, <2>4
<1> QED
  BY <1>4, <1>5, <1>6

\* Decode leaves a Decoder.
LEMMA DecodeTypes ==
  ASSUME NEW d \in Decoders, NEW data \in Seq(Nat)
  PROVE  Decode(d, data) \in Decoders
<1>1. PICK after \in [Nat -> Turns] : Decode(d, data) = Finished(after[Len(data)].d)
  BY DecodeRun
<1>2. Len(data) \in Nat
  OBVIOUS
<1>3. after[Len(data)].d \in Decoders
  BY <1>2 DEF Turns
<1> QED
  BY <1>1, <1>3, <1>2, StartedTypes

-----------------------------------------------------------------------------
\* What is read depends on a Decoder's designations alone.

Alike(d1, d2) == d1.g0 = d2.g0 /\ d1.g1 = d2.g1 /\ d1.pending = d2.pending /\ d1.text = d2.text
\* An escape sequence designates the same in Decoders alike.
LEMMA EscapeAlike ==
  ASSUME NEW d1 \in Decoders, NEW d2 \in Decoders, Alike(d1, d2), NEW data
  PROVE  /\ Alike(InterpretEscape(d1, data)[1], InterpretEscape(d2, data)[1])
         /\ InterpretEscape(d1, data)[2] = InterpretEscape(d2, data)[2]
<1>1. PICK n : n = Intermediates(data)
  OBVIOUS
<1> DEFINE ofTarget == {i \in 2..n : data[i] \in {40, 41, 44, 45}}
           toG1 == ofTarget # {} /\ data[CHOOSE i \in ofTarget : \A j \in ofTarget : j <= i] \in {41, 45}
           multibyte == \E i \in 2..n : data[i] = 36
           set == SetByFinal(data[n + 1], multibyte)
           broken == n = Len(data) \/ data[n + 1] \notin 48..126
<1>2. \A d : InterpretEscape(d, data) =
        IF broken THEN <<[d EXCEPT !.lossy = TRUE], n>>
        ELSE <<IF toG1 THEN [d EXCEPT !.g1 = set] ELSE [d EXCEPT !.g0 = set], n + 1>>
  BY <1>1 DEF InterpretEscape
<1> HIDE DEF broken, toG1, set
<1>3. Alike([d1 EXCEPT !.lossy = TRUE], [d2 EXCEPT !.lossy = TRUE])
  BY DEF Alike, Decoders
<1>4. Alike([d1 EXCEPT !.g1 = set], [d2 EXCEPT !.g1 = set]) /\ Alike([d1 EXCEPT !.g0 = set], [d2 EXCEPT !.g0 = set])
  BY DEF Alike, Decoders
<1>5. CASE broken
  <2>1. /\ InterpretEscape(d1, data) = <<[d1 EXCEPT !.lossy = TRUE], n>>
        /\ InterpretEscape(d2, data) = <<[d2 EXCEPT !.lossy = TRUE], n>>
    BY <1>2, <1>5
  <2> QED
    BY <1>3, <2>1
<1>6. CASE ~broken /\ toG1
  <2>1. /\ InterpretEscape(d1, data) = <<[d1 EXCEPT !.g1 = set], n + 1>>
        /\ InterpretEscape(d2, data) = <<[d2 EXCEPT !.g1 = set], n + 1>>
    BY <1>2, <1>6
  <2> QED
    BY <1>4, <2>1
<1>7. CASE ~broken /\ ~toG1
  <2>1. /\ InterpretEscape(d1, data) = <<[d1 EXCEPT !.g0 = set], n + 1>>
        /\ InterpretEscape(d2, data) = <<[d2 EXCEPT !.g0 = set], n + 1>>
    BY <1>2, <1>7
  <2> QED
    BY <1>4, <2>1
<1> QED
  BY <1>5, <1>6, <1>7

\* A character joins the same text in Decoders alike.
LEMMA CharAlike ==
  ASSUME NEW d1 \in Decoders, NEW d2 \in Decoders, Alike(d1, d2), NEW char
  PROVE  Alike(TakeChar(d1, char), TakeChar(d2, char))
<1> DEFINE seen(d) == [d EXCEPT !.lossy = d.lossy \/ ~char[3]]
<1>1. PICK base : base = char[1]
  OBVIOUS
<1>2. \A d : TakeChar(d, char) = IF IsCombining(base) THEN [seen(d) EXCEPT !.pending = Append(seen(d).pending, base)]
                                 ELSE Flush(seen(d), base)
  BY <1>1 DEF TakeChar
<1>3. PICK s1, s2 : s1 = seen(d1) /\ s2 = seen(d2)
  OBVIOUS
<1>4. s1.g0 = s2.g0 /\ s1.g1 = s2.g1 /\ s1.pending = s2.pending /\ s1.text = s2.text
  BY <1>3 DEF Alike, Decoders
<1>5. DOMAIN s1 = {"g0", "g1", "lossy", "pending", "text"} /\ DOMAIN s2 = {"g0", "g1", "lossy", "pending", "text"}
  BY <1>3 DEF Decoders
<1>6. ASSUME NEW text, NEW marks
      PROVE  /\ Alike([s1 EXCEPT !.text = text, !.pending = marks], [s2 EXCEPT !.text = text, !.pending = marks])
             /\ Alike([s1 EXCEPT !.pending = marks], [s2 EXCEPT !.pending = marks])
  BY <1>4, <1>5 DEF Alike
<1> HIDE DEF seen
<1>7. CASE IsCombining(base)
  <2>1. PICK marks : marks = Append(s1.pending, base)
    OBVIOUS
  <2>2. TakeChar(d1, char) = [s1 EXCEPT !.pending = marks] /\ TakeChar(d2, char) = [s2 EXCEPT !.pending = marks]
    BY <1>2, <1>3, <1>4, <1>7, <2>1
  <2> QED
    BY <1>6, <2>2
<1>8. CASE ~IsCombining(base)
  <2>1. Alike(Flush(s1, base), Flush(s2, base))
    <3> DEFINE with(s, text) == [s EXCEPT !.text = text, !.pending = <<>>]
    <3>0. \A text : Alike(with(s1, text), with(s2, text))
      BY <1>6
    <3>1. CASE s1.pending # <<>> /\ <<base, s1.pending[1]>> \in DOMAIN Marc8Compose
      <4>1. PICK one : one = Marc8Compose[<<base, s1.pending[1]>>]
        OBVIOUS
      <4>2. PICK text : text = s1.text \o <<one>> \o Tail(s1.pending)
        OBVIOUS
      <4>3. Flush(s1, base) = with(s1, text)
        BY <3>1, <4>1, <4>2 DEF Flush
      <4>4. Flush(s2, base) = with(s2, text)
        BY <1>4, <3>1, <4>1, <4>2 DEF Flush
      <4> HIDE DEF with
      <4> QED
        BY <3>0, <4>3, <4>4
    <3>2. CASE ~(s1.pending # <<>> /\ <<base, s1.pending[1]>> \in DOMAIN Marc8Compose)
      <4>1. PICK text : text = s1.text \o <<base>> \o s1.pending
        OBVIOUS
      <4>2. Flush(s1, base) = with(s1, text)
        BY <3>2, <4>1 DEF Flush
      <4>3. Flush(s2, base) = with(s2, text)
        BY <1>4, <3>2, <4>1 DEF Flush
      <4> HIDE DEF with
      <4> QED
        BY <3>0, <4>2, <4>3
    <3> QED
      BY <3>1, <3>2
  <2> QED
    BY <1>2, <1>3, <1>8, <2>1
<1> QED
  BY <1>7, <1>8

\* A turn takes the same from Decoders alike.
LEMMA TurnAlike ==
  ASSUME NEW s \in Turns, NEW t \in Turns, Alike(s.d, t.d), s.rest = t.rest
  PROVE  Alike(TakeUnit(s).d, TakeUnit(t).d) /\ TakeUnit(s).rest = TakeUnit(t).rest
<1>1. PICK data, d1, d2 : data = s.rest /\ d1 = s.d /\ d2 = t.d
  OBVIOUS
<1>2. d1 \in Decoders /\ d2 \in Decoders /\ Alike(d1, d2) /\ t.rest = data
  BY <1>1 DEF Turns
<1>3. d1.g0 = d2.g0 /\ d1.g1 = d2.g1
  BY <1>2 DEF Alike
<1> DEFINE char == DecodeChar(IF data[1] < 128 THEN d1.g0 ELSE d1.g1, data)
<1>4. CASE data = <<>>
  BY <1>1, <1>4 DEF TakeUnit
<1>5. CASE data # <<>> /\ data[1] = Escape
  <2>1. PICK e1, e2 : e1 = InterpretEscape(d1, data) /\ e2 = InterpretEscape(d2, data)
    OBVIOUS
  <2>2. Alike(e1[1], e2[1]) /\ e1[2] = e2[2]
    BY <1>2, <2>1, EscapeAlike
  <2>3. PICK rest : rest = SubSeq(data, e1[2] + 1, Len(data))
    OBVIOUS
  <2>4. TakeUnit(s) = [d |-> e1[1], rest |-> rest]
    BY <1>1, <1>5, <2>1, <2>3 DEF TakeUnit
  <2>5. TakeUnit(t) = [d |-> e2[1], rest |-> SubSeq(data, e2[2] + 1, Len(data))]
    BY <1>1, <1>2, <1>5, <2>1 DEF TakeUnit
  <2>6. TakeUnit(s).d = e1[1] /\ TakeUnit(s).rest = rest
    BY <2>4
  <2>7. TakeUnit(t) = [d |-> e2[1], rest |-> rest]
    BY <2>2, <2>3, <2>5
  <2>8. TakeUnit(t).d = e2[1] /\ TakeUnit(t).rest = rest
    BY <2>7
  <2> QED
    BY <2>2, <2>6, <2>8
<1>6. CASE data # <<>> /\ data[1] # Escape
  <2>1. PICK c : c = char
    OBVIOUS
  <2>2. PICK rest : rest = SubSeq(data, c[2] + 1, Len(data))
    OBVIOUS
  <2>3. TakeUnit(s) = [d |-> TakeChar(d1, c), rest |-> rest]
    BY <1>1, <1>6, <2>1, <2>2 DEF TakeUnit
  <2>4. TakeUnit(t) = [d |-> TakeChar(d2, c), rest |-> rest]
    BY <1>1, <1>2, <1>3, <1>6, <2>1, <2>2 DEF TakeUnit
  <2>5. Alike(TakeChar(d1, c), TakeChar(d2, c))
    BY <1>2, CharAlike
  <2>6. TakeUnit(s).d = TakeChar(d1, c) /\ TakeUnit(s).rest = rest
    BY <2>3
  <2>7. TakeUnit(t).d = TakeChar(d2, c) /\ TakeUnit(t).rest = rest
    BY <2>4
  <2> QED
    BY <2>5, <2>6, <2>7
<1> QED
  BY <1>4, <1>5, <1>6

\* Two Decoders with the same designations read the same, and have the same
\* designations again.
LEMMA DecodeAlike ==
  ASSUME NEW d1 \in Decoders, NEW d2 \in Decoders, d1.g0 = d2.g0, d1.g1 = d2.g1, NEW data \in Seq(Nat)
  PROVE  Alike(Decode(d1, data), Decode(d2, data))
<1>1. PICK run1 \in [Nat -> Turns] : /\ run1[0] = Started(d1, data)
                                     /\ \A n \in Nat : run1[n + 1] = TakeUnit(run1[n])
                                     /\ Decode(d1, data) = Finished(run1[Len(data)].d)
  BY DecodeRun
<1>2. PICK run2 \in [Nat -> Turns] : /\ run2[0] = Started(d2, data)
                                     /\ \A n \in Nat : run2[n + 1] = TakeUnit(run2[n])
                                     /\ Decode(d2, data) = Finished(run2[Len(data)].d)
  BY DecodeRun
<1> DEFINE T == {n \in Nat : Alike(run1[n].d, run2[n].d) /\ run1[n].rest = run2[n].rest}
<1>3. 0 \in T
  <2>1. /\ run1[0].d = [d1 EXCEPT !.text = <<>>, !.pending = <<>>] /\ run1[0].rest = data
        /\ run2[0].d = [d2 EXCEPT !.text = <<>>, !.pending = <<>>] /\ run2[0].rest = data
    BY <1>1, <1>2 DEF Started
  <2>2. Alike([d1 EXCEPT !.text = <<>>, !.pending = <<>>], [d2 EXCEPT !.text = <<>>, !.pending = <<>>])
    BY DEF Alike, Decoders
  <2> QED
    BY <2>1, <2>2
<1>4. ASSUME NEW n \in Nat, n \in T PROVE n + 1 \in T
  <2>1. PICK s, t : s = run1[n] /\ t = run2[n]
    OBVIOUS
  <2>2. s \in Turns /\ t \in Turns /\ Alike(s.d, t.d) /\ s.rest = t.rest
    BY <1>4, <2>1
  <2>3. Alike(TakeUnit(s).d, TakeUnit(t).d) /\ TakeUnit(s).rest = TakeUnit(t).rest
    BY <2>2, TurnAlike
  <2>4. run1[n + 1] = TakeUnit(s) /\ run2[n + 1] = TakeUnit(t) /\ n + 1 \in Nat
    BY <1>1, <1>2, <2>1
  <2> QED
    BY <2>3, <2>4
<1>5. Len(data) \in T
  <2>1. Nat \subseteq T
    <3> HIDE DEF T
    <3> QED
      BY <1>3, <1>4, InductionBySet
  <2> QED
    BY <2>1
<1>6. PICK end1, end2 : end1 = run1[Len(data)].d /\ end2 = run2[Len(data)].d
  OBVIOUS
<1>7. end1 \in Decoders /\ end2 \in Decoders /\ Alike(end1, end2)
  <2>1. Len(data) \in Nat
    OBVIOUS
  <2> QED
    BY <1>5, <1>6, <2>1 DEF Turns
<1>8. PICK text : text = end1.text \o end1.pending
  OBVIOUS
<1>9. /\ Decode(d1, data) = [end1 EXCEPT !.text = text, !.pending = <<>>]
      /\ Decode(d2, data) = [end2 EXCEPT !.text = text, !.pending = <<>>]
  BY <1>1, <1>2, <1>6, <1>7, <1>8 DEF Finished, Alike
<1> QED
  BY <1>7, <1>9 DEF Alike, Decoders

-----------------------------------------------------------------------------
\* Plain ASCII reads as it is.

Plain(data) == \A i \in DOMAIN data : data[i] < 128 /\ data[i] # Escape

\* A byte of plain ASCII, with nothing pending, is its own text.
LEMMA TurnPlain ==
  ASSUME NEW s \in Turns, s.rest # <<>>, s.rest[1] < 128, s.rest[1] # Escape, s.d.g0 = "ascii", s.d.pending = <<>>
  PROVE  /\ TakeUnit(s).rest = Tail(s.rest)
         /\ TakeUnit(s).d.text = Append(s.d.text, s.rest[1])
         /\ TakeUnit(s).d.g0 = "ascii" /\ TakeUnit(s).d.pending = <<>>
<1>1. PICK data, d, b : data = s.rest /\ d = s.d /\ b = data[1]
  OBVIOUS
<1>2. /\ data \in Seq(Nat) /\ data # <<>> /\ b \in Nat /\ b < 128 /\ b # Escape
      /\ d \in Decoders /\ d.g0 = "ascii" /\ d.pending = <<>> /\ d.text \in Seq(Points)
  BY <1>1 DEF Turns, Decoders
<1>3. DecodeChar("ascii", data) = <<b, 1, TRUE>>
  BY <1>1 DEF DecodeChar
<1>4. ~IsCombining(b)
  BY <1>2 DEF IsCombining
<1>5. PICK seen : seen = [d EXCEPT !.lossy = d.lossy \/ ~TRUE]
  OBVIOUS
<1>6. seen.text = d.text /\ seen.pending = <<>> /\ seen.g0 = "ascii" /\ DOMAIN seen = {"g0", "g1", "lossy", "pending", "text"}
  BY <1>2, <1>5 DEF Decoders
<1>7. TakeUnit(s) = [d |-> TakeChar(d, <<b, 1, TRUE>>), rest |-> SubSeq(data, 1 + 1, Len(data))]
  <2>1. TakeUnit(s) = [d |-> TakeChar(s.d, DecodeChar("ascii", data)),
                       rest |-> SubSeq(data, DecodeChar("ascii", data)[2] + 1, Len(data))]
    BY <1>1, <1>2 DEF TakeUnit
  <2>2. DecodeChar("ascii", data)[2] = 1
    BY <1>3
  <2> QED
    BY <1>1, <1>3, <2>1, <2>2
<1>8. TakeChar(d, <<b, 1, TRUE>>) = Flush(seen, b)
  BY <1>4, <1>5 DEF TakeChar
<1>9. Flush(seen, b) = [seen EXCEPT !.text = seen.text \o <<b>> \o <<>>, !.pending = <<>>]
  BY <1>6 DEF Flush
<1>10. d.text \o <<b>> \o <<>> = Append(d.text, b)
  <2>1. d.text \in Seq(Points \cup {b})
    BY <1>2
  <2> QED
    BY <2>1
<1>11. SubSeq(data, 1 + 1, Len(data)) = Tail(data)
  BY <1>2
<1>12. PICK text : text = Append(d.text, b)
  OBVIOUS
<1>13. TakeUnit(s) = [d |-> [seen EXCEPT !.text = text, !.pending = <<>>], rest |-> Tail(data)]
  BY <1>6, <1>7, <1>8, <1>9, <1>10, <1>11, <1>12
<1>14. PICK next : next = [seen EXCEPT !.text = text, !.pending = <<>>]
  OBVIOUS
<1>15. next.text = text /\ next.pending = <<>> /\ next.g0 = "ascii"
  BY <1>6, <1>14
<1>16. TakeUnit(s).d = next /\ TakeUnit(s).rest = Tail(data)
  BY <1>13, <1>14
<1> QED
  BY <1>1, <1>12, <1>15, <1>16

\* A sequence of some things is a sequence of more.
LEMMA Wider ==
  ASSUME NEW S, NEW B, S \subseteq B, NEW s \in Seq(S)
  PROVE  s \in Seq(B)
OBVIOUS

\* An element moved from the front of one sequence to the end of another.
LEMMA Moved ==
  ASSUME NEW S, NEW u \in Seq(S), NEW v \in Seq(S), v # <<>>
  PROVE  Append(u, v[1]) \o Tail(v) = u \o v
<1>1. PICK m, n : m = Len(u) /\ n = Len(v)
  OBVIOUS
<1>2. m \in Nat /\ n \in Nat /\ n # 0
  BY <1>1
<1>3. PICK w, t : w = Append(u, v[1]) /\ t = Tail(v)
  OBVIOUS
<1>4. /\ w \in Seq(S) /\ t \in Seq(S) /\ Len(w) = m + 1 /\ Len(t) = n - 1
      /\ w[m + 1] = v[1] /\ (\A i \in 1..m : w[i] = u[i]) /\ (\A i \in 1..(n - 1) : t[i] = v[i + 1])
  BY <1>1, <1>2, <1>3
<1>5. w \o t \in Seq(S) /\ Len(w \o t) = m + n /\ u \o v \in Seq(S) /\ Len(u \o v) = m + n
  <2>1. w \o t \in Seq(S) /\ Len(w \o t) = Len(w) + Len(t)
    <3>1. w \in Seq(S) /\ t \in Seq(S)
      BY <1>4
    <3> QED
      BY <3>1
  <2>2. u \o v \in Seq(S) /\ Len(u \o v) = Len(u) + Len(v)
    OBVIOUS
  <2>3. (m + 1) + (n - 1) = m + n
    BY <1>2
  <2> QED
    BY <1>1, <1>4, <2>1, <2>2, <2>3
<1>6. ASSUME NEW i \in 1..(m + n) PROVE (w \o t)[i] = (u \o v)[i]
  <2>1. (w \o t)[i] = IF i <= m + 1 THEN w[i] ELSE t[i - (m + 1)]
    BY <1>2, <1>4
  <2>2. (u \o v)[i] = IF i <= m THEN u[i] ELSE v[i - m]
    BY <1>1, <1>2
  <2>3. CASE i <= m
    BY <1>2, <1>4, <2>1, <2>2, <2>3
  <2>4. CASE i = m + 1
    <3>1. i - m = 1 /\ ~(i <= m) /\ i <= m + 1
      BY <1>2, <2>4
    <3>2. (w \o t)[i] = w[i] /\ (u \o v)[i] = v[i - m]
      BY <2>1, <2>2, <3>1
    <3>3. w[i] = v[1]
      BY <1>4, <2>4
    <3>4. v[i - m] = v[1]
      BY <3>1
    <3> QED
      BY <3>2, <3>3, <3>4
  <2>5. CASE i > m + 1
    <3>1. i - (m + 1) \in 1..(n - 1) /\ (i - (m + 1)) + 1 = i - m /\ ~(i <= m) /\ ~(i <= m + 1)
      BY <1>2, <2>5
    <3> QED
      BY <1>4, <2>1, <2>2, <3>1
  <2>6. i <= m \/ i = m + 1 \/ i > m + 1
    BY <1>2
  <2> QED
    BY <2>3, <2>4, <2>5, <2>6
<1>7. w \o t = u \o v
  <2>1. PICK a, b, l : a = w \o t /\ b = u \o v /\ l = m + n
    OBVIOUS
  <2>2. a \in Seq(S) /\ b \in Seq(S) /\ Len(a) = l /\ Len(b) = l /\ \A i \in 1..l : a[i] = b[i]
    BY <1>5, <1>6, <2>1
  <2>3. a = b
    BY <2>2
  <2> QED
    BY <2>1, <2>3
<1> QED
  BY <1>3, <1>7

\* Plain ASCII is its own text, and designates nothing.
LEMMA DecodePlain ==
  ASSUME NEW d \in Decoders, d.g0 = "ascii", NEW data \in Seq(Nat), Plain(data)
  PROVE  Decode(d, data).text = data /\ Decode(d, data).g0 = "ascii"
<1>1. PICK run \in [Nat -> Turns] : /\ run[0] = Started(d, data)
                                    /\ \A n \in Nat : run[n + 1] = TakeUnit(run[n])
                                    /\ Decode(d, data) = Finished(run[Len(data)].d)
  BY DecodeRun
<1>2. PICK l, B : l = Len(data) /\ B = Points \cup Nat
  OBVIOUS
<1>3. l \in Nat
  BY <1>2
<1> DEFINE read(s, n) == /\ s.d.text \o s.rest = data /\ Len(s.rest) = l - n
                         /\ s.d.g0 = "ascii" /\ s.d.pending = <<>>
           T == {n \in Nat : n <= l => read(run[n], n)}
<1>4. 0 \in T
  <2>1. run[0].d = [d EXCEPT !.text = <<>>, !.pending = <<>>] /\ run[0].rest = data
    BY <1>1 DEF Started
  <2>2. run[0].d.text = <<>> /\ run[0].d.pending = <<>> /\ run[0].d.g0 = "ascii"
    BY <2>1 DEF Decoders
  <2>3. <<>> \o data = data /\ l - 0 = l
    BY <1>3
  <2>4. run[0].d.text \o run[0].rest = data
    BY <2>1, <2>2, <2>3
  <2>5. read(run[0], 0)
    BY <1>2, <2>1, <2>2, <2>3, <2>4
  <2> HIDE DEF read
  <2> QED
    BY <2>5
<1>5. ASSUME NEW n \in Nat, n \in T PROVE n + 1 \in T
  <2>1. SUFFICES ASSUME n + 1 <= l PROVE read(run[n + 1], n + 1)
    <3> HIDE DEF read
    <3> QED
      OBVIOUS
  <2>2. PICK s, u, v : s = run[n] /\ u = s.d.text /\ v = s.rest
    OBVIOUS
  <2>3. n <= l /\ l - n # 0 /\ (l - n) - 1 = l - (n + 1)
    BY <1>3, <2>1
  <2>4. s \in Turns /\ u \o v = data /\ Len(v) = l - n /\ s.d.g0 = "ascii" /\ s.d.pending = <<>>
    BY <1>5, <2>2, <2>3
  <2>5. v \in Seq(Nat) /\ u \in Seq(Points)
    BY <2>2, <2>4 DEF Turns, Decoders
  <2>6. v \in Seq(B) /\ u \in Seq(B)
    <3>1. Nat \subseteq B /\ Points \subseteq B
      BY <1>2
    <3> QED
      BY <2>5, <3>1, Wider
  <2>7. v # <<>>
    BY <2>3, <2>4
  <2>8. v[1] < 128 /\ v[1] # Escape
    <3>1. PICK m : m = Len(u)
      OBVIOUS
    <3>2. m \in Nat /\ Len(v) \in Nat /\ Len(v) # 0
      BY <2>5, <2>7, <3>1
    <3>3. m + 1 \in DOMAIN (u \o v) /\ (u \o v)[m + 1] = v[1]
      BY <2>6, <3>1, <3>2
    <3> QED
      BY <2>4, <3>3 DEF Plain
  <2>9. /\ TakeUnit(s).rest = Tail(v) /\ TakeUnit(s).d.text = Append(u, v[1])
        /\ TakeUnit(s).d.g0 = "ascii" /\ TakeUnit(s).d.pending = <<>>
    BY <2>2, <2>4, <2>7, <2>8, TurnPlain
  <2>10. Append(u, v[1]) \o Tail(v) = data
    BY <2>4, <2>6, <2>7, Moved
  <2>11. Len(Tail(v)) = l - (n + 1)
    BY <2>3, <2>4, <2>5, <2>7
  <2>12. run[n + 1] = TakeUnit(s)
    BY <1>1, <2>2
  <2> QED
    BY <2>9, <2>10, <2>11, <2>12
<1>6. PICK last, rest : last = run[l].d /\ rest = run[l].rest
  OBVIOUS
<1>7. last \in Decoders /\ rest \in Seq(Nat) /\ last.text \in Seq(Points)
  BY <1>3, <1>6 DEF Turns, Decoders
<1>8. last.text \o rest = data /\ Len(rest) = 0 /\ last.g0 = "ascii" /\ last.pending = <<>>
  <2>1. l \in T
    <3>1. Nat \subseteq T
      <4> HIDE DEF T
      <4> QED
        BY <1>4, <1>5, InductionBySet
    <3> QED
      BY <1>3, <3>1
  <2>2. l <= l /\ l - l = 0
    BY <1>3
  <2>3. read(run[l], l)
    <3> HIDE DEF read
    <3> QED
      BY <2>1, <2>2
  <2> QED
    BY <1>6, <2>2, <2>3
<1>9. last.text = data /\ last.text \o last.pending = last.text
  BY <1>7, <1>8
<1>10. Decode(d, data) = [last EXCEPT !.text = data, !.pending = <<>>]
  BY <1>1, <1>2, <1>6, <1>9 DEF Finished
<1> QED
  BY <1>7, <1>8, <1>10 DEF Decoders

-----------------------------------------------------------------------------
\* The subfields of a field.

Subs(V) == Seq([code : Nat, value : V])

\* Where a subfield stops: the number before the next delimiter, or the last.
Delims(b) == {i \in DOMAIN b : b[i] = SubfieldDelimiter}
Stop(b, i) == CHOOSE j \in i..Len(b) : /\ j = Len(b) \/ j + 1 \in Delims(b)
                                       /\ \A k \in Delims(b) : k <= i \/ k > j
Long(b, codeLen) == Select({i \in Delims(b) : Stop(b, i) - i >= codeLen}, Len(b))

\* Every subfield stops.
LEMMA StopIs ==
  ASSUME NEW b \in Seq(Nat), NEW i \in Delims(b)
  PROVE  Stop(b, i) \in i..Len(b)
<1>1. PICK n, D : n = Len(b) /\ D = Delims(b)
  OBVIOUS
<1>2. n \in Nat /\ D \subseteq 1..n /\ i \in 1..n
  BY <1>1 DEF Delims
<1> DEFINE is(j) == (j = n \/ j + 1 \in D) /\ \A k \in D : k <= i \/ k > j
           later == {k \in D : k > i}
<1>3. \E j \in i..n : is(j)
  <2>1. CASE later = {}
    <3>1. is(n) /\ n \in i..n
      BY <1>2, <2>1
    <3> QED
      BY <3>1
  <2>2. CASE later # {}
    <3>1. PICK m \in later : \A k \in later : m <= k
      <4>1. later \in SUBSET Nat
        <5>1. \A k \in D : k \in Nat
          BY <1>2
        <5> QED
          BY <5>1
      <4> HIDE DEF later
      <4> QED
        BY <2>2, <4>1, Least
    <3>2. m \in D /\ m \in 1..n /\ m > i /\ m - 1 \in i..n /\ (m - 1) + 1 = m
      BY <1>2
    <3>3. ASSUME NEW k \in D PROVE k <= i \/ k > m - 1
      <4>1. k \in Nat /\ i \in Nat /\ m \in Nat
        BY <1>2, <3>2
      <4>2. k > i => m <= k
        BY <3>1
      <4> QED
        BY <4>1, <4>2
    <3>4. is(m - 1)
      BY <3>2, <3>3
    <3> QED
      BY <3>2, <3>4
  <2> QED
    BY <2>1, <2>2
<1>4. Stop(b, i) = CHOOSE j \in i..n : is(j)
  BY <1>1 DEF Stop
<1> HIDE DEF is
<1>5. Stop(b, i) \in i..n
  BY <1>3, <1>4
<1> QED
  BY <1>1, <1>5

\* The bytes between two places of a sequence of bytes.
LEMMA BytesWithin ==
  ASSUME NEW b \in Seq(Nat), NEW f \in Nat \ {0}, NEW t \in Nat, t <= Len(b)
  PROVE  /\ SubSeq(b, f, t) \in Seq(Nat)
         /\ \A k \in DOMAIN SubSeq(b, f, t) : f + k - 1 \in DOMAIN b /\ SubSeq(b, f, t)[k] = b[f + k - 1]
OBVIOUS

\* A subfield has a code, and a value of the bytes of the field.
LEMMA SubfieldsTypes ==
  ASSUME NEW b \in Seq(Nat), NEW codeLen \in Nat \ {0}
  PROVE  /\ SubfieldsOf(b, codeLen) \in Subs(Seq(Nat))
         /\ Plain(b) => \A s \in DOMAIN SubfieldsOf(b, codeLen) : Plain(SubfieldsOf(b, codeLen)[s].value)
<1>1. PICK long, n : long = Long(b, codeLen) /\ n = Len(b)
  OBVIOUS
<1> DEFINE value(s) == SubSeq(b, long[s] + 1 + codeLen, Stop(b, long[s]))
<1>2. SubfieldsOf(b, codeLen) = [s \in DOMAIN long |-> Sub(b[long[s] + 1], value(s))]
  BY <1>1 DEF SubfieldsOf, Long, Stop, Delims
<1>3. n \in Nat /\ long \in Seq(Nat)
  BY <1>1, SelectSteps DEF Long
<1>4. ASSUME NEW s \in DOMAIN long
      PROVE  b[long[s] + 1] \in Nat /\ value(s) \in Seq(Nat) /\ (Plain(b) => Plain(value(s)))
  <2>1. PICK i, j : i = long[s] /\ j = Stop(b, i)
    OBVIOUS
  <2>2. i \in Delims(b) /\ j - i >= codeLen
    <3> DEFINE T == {k \in Delims(b) : Stop(b, k) - k >= codeLen}
    <3>1. s \in 1..Len(long)
      BY <1>3
    <3>2. long = Select(T, n)
      BY <1>1 DEF Long
    <3>3. i \in T
      <4> HIDE DEF T
      <4> QED
        BY <1>3, <2>1, <3>1, <3>2, SelectOnly
    <3> QED
      BY <2>1, <3>3
  <2>3. i \in 1..n /\ j \in i..n
    BY <1>1, <2>1, <2>2, StopIs DEF Delims
  <2>4. i + 1 \in 1..n
    BY <1>3, <2>2, <2>3
  <2>5. b[i + 1] \in Nat
    BY <1>1, <2>4
  <2>6. PICK f : f = i + 1 + codeLen
    OBVIOUS
  <2>7. f \in Nat \ {0} /\ j \in Nat /\ j <= n
    BY <1>3, <2>3, <2>6
  <2>8. PICK v : v = SubSeq(b, f, j)
    OBVIOUS
  <2>9. v \in Seq(Nat) /\ \A k \in DOMAIN v : \E m \in DOMAIN b : v[k] = b[m]
    <3>1. j <= Len(b)
      BY <1>1, <2>7
    <3>2. /\ v \in Seq(Nat)
          /\ \A k \in DOMAIN v : f + k - 1 \in DOMAIN b /\ v[k] = b[f + k - 1]
      BY <2>7, <2>8, <3>1, BytesWithin
    <3> QED
      BY <3>2
  <2>10. value(s) = v
    BY <2>1, <2>6, <2>8
  <2>11. Plain(b) => Plain(v)
    BY <2>9 DEF Plain
  <2> HIDE DEF value
  <2> QED
    BY <2>1, <2>5, <2>9, <2>10, <2>11
<1> HIDE DEF value
<1>5. PICK ss : ss = SubfieldsOf(b, codeLen)
  OBVIOUS
<1>6. /\ ss = [s \in DOMAIN long |-> Sub(b[long[s] + 1], value(s))]
      /\ \A s \in DOMAIN long : Sub(b[long[s] + 1], value(s)) \in [code : Nat, value : Seq(Nat)]
  BY <1>2, <1>4, <1>5 DEF Sub
<1>7. ss \in Subs(Seq(Nat))
  <2>1. PICK l, V : l = Len(long) /\ V = [code : Nat, value : Seq(Nat)]
    OBVIOUS
  <2>2. l \in Nat /\ DOMAIN long = 1..l
    BY <1>3, <2>1
  <2>3. DOMAIN ss = 1..l /\ ss = [s \in 1..l |-> ss[s]]
    <3>1. PICK g : g = [s \in DOMAIN long |-> Sub(b[long[s] + 1], value(s))]
      OBVIOUS
    <3>2. DOMAIN g = 1..l /\ g = [s \in 1..l |-> g[s]]
      BY <2>2, <3>1
    <3> QED
      BY <1>6, <3>1, <3>2
  <2>4. \A s \in 1..l : ss[s] \in V
    BY <1>6, <2>1, <2>2
  <2>5. ss \in [1..l -> V]
    BY <2>3, <2>4
  <2>6. ss \in Seq(V)
    BY <2>2, <2>5
  <2> QED
    BY <2>1, <2>6 DEF Subs
<1>8. ASSUME NEW s \in DOMAIN ss, Plain(b) PROVE Plain(ss[s].value)
  <2>1. s \in DOMAIN long /\ ss[s] = Sub(b[long[s] + 1], value(s))
    BY <1>6
  <2> QED
    BY <1>4, <1>8, <2>1 DEF Sub
<1> QED
  BY <1>5, <1>7, <1>8

-----------------------------------------------------------------------------
\* Values decoded one after another.

Reading == [d : Decoders, subs : Subs(Seq(Points))]
DecodeOne(s, sub) ==
  [d |-> Decode(s.d, sub.value), subs |-> Append(s.subs, Sub(sub.code, Decode(s.d, sub.value).text))]

\* A value more leaves what was read, and it.
LEMMA DecodeOneTypes ==
  ASSUME NEW s \in Reading, NEW sub \in [code : Nat, value : Seq(Nat)]
  PROVE  DecodeOne(s, sub) \in Reading
<1>1. PICK t : t = Decode(s.d, sub.value)
  OBVIOUS
<1>2. t \in Decoders
  BY <1>1, DecodeTypes DEF Reading
<1>3. t.text \in Seq(Points)
  BY <1>2 DEF Decoders
<1>4. PICK texts, V : texts = Seq(Points) /\ V = [code : Nat, value : texts]
  OBVIOUS
<1>5. Sub(sub.code, t.text) \in V
  BY <1>3, <1>4 DEF Sub
<1>6. Reading = [d : Decoders, subs : Seq(V)]
  BY <1>4 DEF Reading, Subs
<1>7. Append(s.subs, Sub(sub.code, t.text)) \in Seq(V)
  BY <1>5, <1>6
<1>8. DecodeOne(s, sub) = [d |-> t, subs |-> Append(s.subs, Sub(sub.code, t.text))]
  BY <1>1 DEF DecodeOne
<1> QED
  BY <1>2, <1>6, <1>7, <1>8

\* A subfield of some is one.
LEMMA SubsElement ==
  ASSUME NEW V, NEW ss \in Subs(V), NEW i \in 1..Len(ss)
  PROVE  ss[i] \in [code : Nat, value : V]
<1>1. PICK E : E = [code : Nat, value : V]
  OBVIOUS
<1>2. ss \in Seq(E)
  BY <1>1 DEF Subs
<1>3. ss[i] \in E
  BY <1>2
<1> QED
  BY <1>1, <1>3

\* What any first state becomes, value by value.
LEMMA ReadsFrom ==
  ASSUME NEW ss \in Subs(Seq(Nat))
  PROVE  \A first \in Reading : \E g \in [Nat -> Reading] :
           g[0] = first /\ \A n \in Nat : n < Len(ss) => g[n + 1] = DecodeOne(g[n], ss[n + 1])
<1>1. PICK reads, next : /\ reads = Reading
                         /\ next = [n \in Nat |-> [s \in Reading |-> IF n < Len(ss) THEN DecodeOne(s, ss[n + 1]) ELSE s]]
  OBVIOUS
<1>2. ASSUME NEW n \in Nat, n < Len(ss), NEW s \in Reading PROVE DecodeOne(s, ss[n + 1]) \in Reading
  <2>1. ss[n + 1] \in [code : Nat, value : Seq(Nat)]
    <3>1. Len(ss) \in Nat
      BY DEF Subs
    <3>2. n + 1 \in 1..Len(ss)
      BY <1>2, <3>1
    <3> QED
      BY <3>2, SubsElement
  <2> QED
    BY <2>1, DecodeOneTypes
<1>3. next \in [Nat -> [reads -> reads]]
  BY <1>1, <1>2
<1>4. \A n \in Nat, s \in Reading : n < Len(ss) => next[n][s] = DecodeOne(s, ss[n + 1])
  BY <1>1
<1>5. \A first \in reads : \E g : g \in Iterates(reads, first, next)
  BY <1>3, Recursion
<1>6. ASSUME NEW first \in Reading
      PROVE  \E g \in [Nat -> Reading] : g[0] = first /\ \A n \in Nat : n < Len(ss) => g[n + 1] = DecodeOne(g[n], ss[n + 1])
  <2>1. first \in reads
    BY <1>1
  <2>2. PICK g : g \in Iterates(reads, first, next)
    BY <1>5, <2>1
  <2>3. g \in [Nat -> reads] /\ g[0] = first /\ \A n \in Nat : g[n + 1] = next[n][g[n]]
    BY <2>2 DEF Iterates
  <2>4. g \in [Nat -> Reading]
    BY <1>1, <2>3
  <2>5. ASSUME NEW n \in Nat, n < Len(ss) PROVE g[n + 1] = DecodeOne(g[n], ss[n + 1])
    BY <1>4, <2>3, <2>4, <2>5
  <2> QED
    BY <2>3, <2>4, <2>5
<1> QED
  BY <1>6

\* The values of a call of DecodeSubs.
LEMMA SubsRun ==
  ASSUME NEW d \in Decoders, NEW ss \in Subs(Seq(Nat))
  PROVE  \E after \in [0..Len(ss) -> Reading] :
           /\ after[0] = [d |-> d, subs |-> <<>>]
           /\ \A n \in 1..Len(ss) : after[n] = DecodeOne(after[n - 1], ss[n])
           /\ DecodeSubs(d, ss) = after[Len(ss)]
<1>1. PICK l, first : l = Len(ss) /\ first = [d |-> d, subs |-> <<>>]
  OBVIOUS
<1>2. l \in Nat /\ first \in Reading
  BY <1>1 DEF Reading, Subs
<1> DEFINE eq(f) == f = [n \in 0..l |-> IF n = 0 THEN first ELSE DecodeOne(f[n - 1], ss[n])]
           g == CHOOSE f : eq(f)
<1>3. \E f : eq(f)
  <2>1. PICK h \in [Nat -> Reading] : h[0] = first /\ \A n \in Nat : n < l => h[n + 1] = DecodeOne(h[n], ss[n + 1])
    <3>1. \E h \in [Nat -> Reading] : h[0] = first /\ \A n \in Nat : n < Len(ss) => h[n + 1] = DecodeOne(h[n], ss[n + 1])
      <4> HIDE DEF eq
      <4> QED
        BY <1>2, ReadsFrom
    <3> QED
      BY <1>1, <3>1
  <2>2. PICK f : f = [n \in 0..l |-> h[n]]
    OBVIOUS
  <2>3. ASSUME NEW n \in 0..l PROVE f[n] = IF n = 0 THEN first ELSE DecodeOne(f[n - 1], ss[n])
    <3>1. CASE n = 0
      BY <2>1, <2>2, <3>1
    <3>2. CASE n # 0
      <4>1. n - 1 \in Nat /\ n - 1 < l /\ (n - 1) + 1 = n /\ n - 1 \in 0..l
        BY <1>2, <3>2
      <4>2. h[n] = DecodeOne(h[n - 1], ss[n])
        BY <2>1, <4>1
      <4>3. f[n] = h[n] /\ f[n - 1] = h[n - 1]
        BY <2>2, <4>1
      <4> QED
        BY <3>2, <4>2, <4>3
    <3> QED
      BY <3>1, <3>2
  <2>4. eq(f)
    BY <2>2, <2>3
  <2> HIDE DEF eq
  <2> QED
    BY <2>4
<1>4. eq(g)
  <2> HIDE DEF eq
  <2> QED
    BY <1>3
<1>5. DecodeSubs(d, ss) = g[l]
  BY <1>1 DEF DecodeSubs, DecodeOne
<1> HIDE DEF g
<1>6. g[0] = first /\ \A n \in 1..l : g[n] = DecodeOne(g[n - 1], ss[n])
  <2>1. g[0] = first
    BY <1>2, <1>4
  <2>2. ASSUME NEW n \in 1..l PROVE g[n] = DecodeOne(g[n - 1], ss[n])
    <3>1. n \in 0..l /\ n # 0
      BY <1>2
    <3> QED
      BY <1>4, <3>1
  <2> QED
    BY <2>1, <2>2
<1>7. g \in [0..l -> Reading]
  <2> DEFINE T == {n \in Nat : n <= l => g[n] \in Reading}
  <2>1. 0 \in T
    BY <1>2, <1>6
  <2>2. ASSUME NEW n \in Nat, n \in T PROVE n + 1 \in T
    <3>1. SUFFICES ASSUME n + 1 <= l PROVE g[n + 1] \in Reading
      OBVIOUS
    <3>2. n <= l /\ n + 1 \in 1..l /\ (n + 1) - 1 = n
      BY <1>2, <3>1
    <3>3. g[n] \in Reading /\ g[n + 1] = DecodeOne(g[n], ss[n + 1])
      BY <1>6, <2>2, <3>2
    <3>4. ss[n + 1] \in [code : Nat, value : Seq(Nat)]
      BY <1>1, <3>2, SubsElement
    <3> QED
      BY <3>3, <3>4, DecodeOneTypes
  <2>3. Nat \subseteq T
    <3> HIDE DEF T
    <3> QED
      BY <2>1, <2>2, InductionBySet
  <2>4. g = [n \in 0..l |-> g[n]]
    BY <1>4
  <2>5. \A n \in 0..l : g[n] \in Reading
    BY <1>2, <2>3
  <2> QED
    BY <2>4, <2>5
<1> QED
  BY <1>1, <1>5, <1>6, <1>7

\* Decoders with the same designations read the same values.
LEMMA SubsAlike ==
  ASSUME NEW d1 \in Decoders, NEW d2 \in Decoders, d1.g0 = d2.g0, d1.g1 = d2.g1, NEW ss \in Subs(Seq(Nat))
  PROVE  DecodeSubs(d1, ss).subs = DecodeSubs(d2, ss).subs
<1>1. PICK l : l = Len(ss)
  OBVIOUS
<1>2. l \in Nat
  BY <1>1 DEF Subs
<1>3. PICK run1 \in [0..l -> Reading] : /\ run1[0] = [d |-> d1, subs |-> <<>>]
                                        /\ \A n \in 1..l : run1[n] = DecodeOne(run1[n - 1], ss[n])
                                        /\ DecodeSubs(d1, ss) = run1[l]
  BY <1>1, SubsRun
<1>4. PICK run2 \in [0..l -> Reading] : /\ run2[0] = [d |-> d2, subs |-> <<>>]
                                        /\ \A n \in 1..l : run2[n] = DecodeOne(run2[n - 1], ss[n])
                                        /\ DecodeSubs(d2, ss) = run2[l]
  BY <1>1, SubsRun
<1> DEFINE same(s, t) == s.subs = t.subs /\ s.d.g0 = t.d.g0 /\ s.d.g1 = t.d.g1
           T == {n \in Nat : n <= l => same(run1[n], run2[n])}
<1>5. 0 \in T
  BY <1>3, <1>4
<1>6. ASSUME NEW n \in Nat, n \in T PROVE n + 1 \in T
  <2>1. SUFFICES ASSUME n + 1 <= l PROVE same(run1[n + 1], run2[n + 1])
    <3> HIDE DEF same
    <3> QED
      OBVIOUS
  <2>2. n <= l /\ n \in 0..l /\ n + 1 \in 1..l /\ (n + 1) - 1 = n
    BY <1>2, <2>1
  <2>3. PICK s, t, sub : s = run1[n] /\ t = run2[n] /\ sub = ss[n + 1]
    OBVIOUS
  <2>4. s \in Reading /\ t \in Reading /\ same(s, t)
    BY <1>6, <2>2, <2>3
  <2>5. s.d \in Decoders /\ t.d \in Decoders /\ s.d.g0 = t.d.g0 /\ s.d.g1 = t.d.g1 /\ s.subs = t.subs
    BY <2>4 DEF Reading
  <2>6. sub.value \in Seq(Nat)
    <3>1. sub \in [code : Nat, value : Seq(Nat)]
      BY <1>1, <2>2, <2>3, SubsElement
    <3> QED
      BY <3>1
  <2>7. PICK e1, e2 : e1 = Decode(s.d, sub.value) /\ e2 = Decode(t.d, sub.value)
    OBVIOUS
  <2>8. e1.text = e2.text /\ e1.g0 = e2.g0 /\ e1.g1 = e2.g1
    <3>1. Alike(Decode(s.d, sub.value), Decode(t.d, sub.value))
      BY <2>5, <2>6, DecodeAlike
    <3> QED
      BY <2>7, <3>1 DEF Alike
  <2>9. PICK more : more = Append(s.subs, Sub(sub.code, e1.text))
    OBVIOUS
  <2>10. run1[n + 1] = DecodeOne(s, sub) /\ run2[n + 1] = DecodeOne(t, sub)
    BY <1>3, <1>4, <2>2, <2>3
  <2>11. run1[n + 1] = [d |-> e1, subs |-> more]
    BY <2>7, <2>9, <2>10 DEF DecodeOne
  <2>12. run2[n + 1] = [d |-> e2, subs |-> more]
    BY <2>5, <2>7, <2>8, <2>9, <2>10 DEF DecodeOne
  <2>13. run1[n + 1].d = e1 /\ run1[n + 1].subs = more /\ run2[n + 1].d = e2 /\ run2[n + 1].subs = more
    BY <2>11, <2>12
  <2> QED
    BY <2>8, <2>13
<1>7. same(run1[l], run2[l])
  <2>1. l \in T
    <3>1. Nat \subseteq T
      <4> HIDE DEF T
      <4> QED
        BY <1>5, <1>6, InductionBySet
    <3> QED
      BY <1>2, <3>1
  <2>2. l <= l
    BY <1>2
  <2> HIDE DEF same
  <2> QED
    BY <2>1, <2>2
<1>8. run1[l].subs = run2[l].subs
  BY <1>7
<1> QED
  BY <1>3, <1>4, <1>8

\* Values of plain ASCII are read as they are.
LEMMA SubsPlain ==
  ASSUME NEW d \in Decoders, d.g0 = "ascii", NEW ss \in Subs(Seq(Nat)),
         \A k \in DOMAIN ss : Plain(ss[k].value)
  PROVE  DecodeSubs(d, ss).subs = ss
<1>1. PICK l, V : l = Len(ss) /\ V = [code : Nat, value : Seq(Nat)]
  OBVIOUS
<1>2. l \in Nat /\ ss \in Seq(V) /\ DOMAIN ss = 1..l
  BY <1>1 DEF Subs
<1>3. PICK run \in [0..l -> Reading] : /\ run[0] = [d |-> d, subs |-> <<>>]
                                       /\ \A n \in 1..l : run[n] = DecodeOne(run[n - 1], ss[n])
                                       /\ DecodeSubs(d, ss) = run[l]
  BY <1>1, SubsRun
<1> DEFINE read(s, n) == /\ s.d.g0 = "ascii" /\ s.subs \in Seq(V) /\ Len(s.subs) = n
                         /\ \A k \in 1..n : s.subs[k] = ss[k]
           T == {n \in Nat : n <= l => read(run[n], n)}
<1>4. 0 \in T
  <2>1. run[0].d = d /\ run[0].subs = <<>>
    BY <1>3
  <2>2. read(run[0], 0)
    BY <2>1
  <2> HIDE DEF read
  <2> QED
    BY <2>2
<1>5. ASSUME NEW n \in Nat, n \in T PROVE n + 1 \in T
  <2>1. SUFFICES ASSUME n + 1 <= l PROVE read(run[n + 1], n + 1)
    <3> HIDE DEF read
    <3> QED
      OBVIOUS
  <2>2. n <= l /\ n \in 0..l /\ n + 1 \in 1..l /\ (n + 1) - 1 = n
    BY <1>2, <2>1
  <2>3. PICK s, sub : s = run[n] /\ sub = ss[n + 1]
    OBVIOUS
  <2>4. s \in Reading /\ read(s, n)
    BY <1>5, <2>2, <2>3
  <2>5. sub \in V /\ sub.value \in Seq(Nat) /\ sub = [code |-> sub.code, value |-> sub.value] /\ Plain(sub.value)
    <3>1. sub \in V /\ Plain(sub.value)
      BY <1>2, <2>2, <2>3
    <3> QED
      BY <1>1, <3>1
  <2>6. s.d \in Decoders /\ s.d.g0 = "ascii"
    BY <2>4 DEF Reading
  <2>7. PICK e : e = Decode(s.d, sub.value)
    OBVIOUS
  <2>8. e.text = sub.value /\ e.g0 = "ascii"
    BY <2>5, <2>6, <2>7, DecodePlain
  <2>9. run[n + 1] = DecodeOne(s, sub)
    BY <1>3, <2>2, <2>3
  <2>10. run[n + 1] = [d |-> e, subs |-> Append(s.subs, sub)]
    BY <2>5, <2>7, <2>8, <2>9 DEF DecodeOne, Sub
  <2>11. PICK subs, more : subs = s.subs /\ more = Append(subs, sub)
    OBVIOUS
  <2>12. subs \in Seq(V) /\ Len(subs) = n /\ \A k \in 1..n : subs[k] = ss[k]
    BY <2>4, <2>11
  <2>13. more \in Seq(V) /\ Len(more) = n + 1 /\ more[n + 1] = sub /\ \A k \in 1..n : more[k] = subs[k]
    BY <2>5, <2>11, <2>12
  <2>14. ASSUME NEW k \in 1..(n + 1) PROVE more[k] = ss[k]
    <3>1. k \in 1..n \/ k = n + 1
      OBVIOUS
    <3> QED
      BY <2>3, <2>12, <2>13, <3>1
  <2>15. run[n + 1].d = e /\ run[n + 1].subs = more
    BY <2>10, <2>11
  <2> QED
    BY <2>8, <2>13, <2>14, <2>15
<1>6. read(run[l], l)
  <2>1. l \in T
    <3>1. Nat \subseteq T
      <4> HIDE DEF T
      <4> QED
        BY <1>4, <1>5, InductionBySet
    <3> QED
      BY <1>2, <3>1
  <2>2. l <= l
    BY <1>2
  <2> HIDE DEF read
  <2> QED
    BY <2>1, <2>2
<1>7. PICK subs : subs = run[l].subs
  OBVIOUS
<1>8. subs \in Seq(V) /\ Len(subs) = l /\ \A k \in 1..l : subs[k] = ss[k]
  BY <1>6, <1>7
<1>9. subs = ss
  <2>1. DOMAIN subs = 1..l
    BY <1>8
  <2>2. subs = [k \in 1..l |-> subs[k]] /\ ss = [k \in 1..l |-> ss[k]]
    BY <1>2, <1>8, <2>1
  <2> QED
    BY <1>8, <2>2
<1> QED
  BY <1>3, <1>7, <1>9

-----------------------------------------------------------------------------
\* A field, and the bytes that it is of.

RecordBytes == [coding : STRING, indicators : Nat, codeLen : Nat \ {0},
                directory : Seq([tag : STRING, length : Nat, start : Nat]), body : Seq(Nat)]
Raw(b) == IF Len(b) >= iso.indicators
            THEN SubfieldsOf(SubSeq(b, iso.indicators + 1, Len(b)), iso.codeLen) ELSE <<>>
Inds(b) ==
  LET ind(i) == IF Len(b) >= iso.indicators /\ i <= iso.indicators THEN b[i] ELSE Blank
  IN <<ind(1), ind(2)>>
AsItIs(tag, b, d) == TakeField(tag, b, d, TRUE)
Decoded(tag, b, d) == TakeField(tag, b, d, FALSE)

\* What TakeField makes of a field of plain ASCII or UTF-8, and of another.
LEMMA TakeFieldIs ==
  ASSUME NEW tag, NEW b, NEW d
  PROVE  /\ AsItIs(tag, b, d).d = d
         /\ AsItIs(tag, b, d).field = IF tag \in ControlTags THEN Control(tag, b) ELSE Data(tag, Inds(b), Raw(b))
         /\ Decoded(tag, b, d).d = IF tag \in ControlTags THEN Decode(d, b) ELSE DecodeSubs(d, Raw(b)).d
         /\ Decoded(tag, b, d).field = IF tag \in ControlTags THEN Control(tag, Decode(d, b).text)
                                       ELSE Data(tag, Inds(b), DecodeSubs(d, Raw(b)).subs)
<1>1. CASE tag \in ControlTags
  <2>1. AsItIs(tag, b, d) = [d |-> d, field |-> Control(tag, b)]
    BY <1>1 DEF AsItIs, TakeField
  <2>2. Decoded(tag, b, d) = [d |-> Decode(d, b), field |-> Control(tag, Decode(d, b).text)]
    BY <1>1 DEF Decoded, TakeField
  <2> QED
    BY <1>1, <2>1, <2>2
<1>2. CASE tag \notin ControlTags
  <2>1. AsItIs(tag, b, d) = [d |-> d, field |-> Data(tag, Inds(b), Raw(b))]
    BY <1>2 DEF AsItIs, TakeField, Raw, Inds
  <2>2. Decoded(tag, b, d) = [d |-> DecodeSubs(d, Raw(b)).d, field |-> Data(tag, Inds(b), DecodeSubs(d, Raw(b)).subs)]
    BY <1>2 DEF Decoded, TakeField, Raw, Inds
  <2> QED
    BY <1>2, <2>1, <2>2
<1> QED
  BY <1>1, <1>2

\* The subfields of a field, and that they are plain ASCII if it is.
LEMMA RawTypes ==
  ASSUME iso \in RecordBytes, NEW b \in Seq(Nat)
  PROVE  /\ Raw(b) \in Subs(Seq(Nat))
         /\ Plain(b) => \A s \in DOMAIN Raw(b) : Plain(Raw(b)[s].value)
<1>1. PICK m, c, n : m = iso.indicators /\ c = iso.codeLen /\ n = Len(b)
  OBVIOUS
<1>2. m \in Nat /\ c \in Nat \ {0} /\ n \in Nat
  BY <1>1 DEF RecordBytes
<1>3. CASE n >= m
  <2>1. PICK v : v = SubSeq(b, m + 1, n)
    OBVIOUS
  <2>2. v \in Seq(Nat)
    BY <1>1, <1>2, <2>1
  <2>3. Plain(b) => Plain(v)
    <3>1. PICK f : f = m + 1
      OBVIOUS
    <3>2. f \in Nat \ {0} /\ v = SubSeq(b, f, n)
      BY <1>2, <2>1, <3>1
    <3>3. ASSUME NEW k \in DOMAIN v PROVE f + k - 1 \in DOMAIN b /\ v[k] = b[f + k - 1]
      <4>1. n <= Len(b)
        BY <1>1, <1>2
      <4> QED
        BY <1>2, <3>2, <4>1, BytesWithin
    <3> QED
      BY <3>3 DEF Plain
  <2>4. Raw(b) = SubfieldsOf(v, c)
    BY <1>1, <1>3, <2>1 DEF Raw
  <2>5. /\ SubfieldsOf(v, c) \in Subs(Seq(Nat))
        /\ Plain(v) => \A s \in DOMAIN SubfieldsOf(v, c) : Plain(SubfieldsOf(v, c)[s].value)
    BY <1>2, <2>2, SubfieldsTypes
  <2> QED
    BY <2>3, <2>4, <2>5
<1>4. CASE ~(n >= m)
  <2>1. Raw(b) = <<>>
    BY <1>1, <1>4 DEF Raw
  <2>2. <<>> \in Subs(Seq(Nat)) /\ DOMAIN <<>> = {}
    BY DEF Subs
  <2> QED
    BY <2>1, <2>2
<1> QED
  BY <1>3, <1>4

\* A field leaves a Decoder.
LEMMA TakeFieldTypes ==
  ASSUME iso \in RecordBytes, NEW tag, NEW b \in Seq(Nat), NEW d \in Decoders
  PROVE  AsItIs(tag, b, d).d \in Decoders /\ Decoded(tag, b, d).d \in Decoders
<1>1. Decode(d, b) \in Decoders
  BY DecodeTypes
<1>2. DecodeSubs(d, Raw(b)).d \in Decoders
  <2>1. PICK ss, l : ss = Raw(b) /\ l = Len(ss)
    OBVIOUS
  <2>2. ss \in Subs(Seq(Nat))
    BY <2>1, RawTypes
  <2>3. l \in 0..l
    BY <2>1, <2>2 DEF Subs
  <2>4. PICK after \in [0..l -> Reading] : DecodeSubs(d, ss) = after[l]
    BY <2>1, <2>2, SubsRun
  <2> QED
    BY <2>1, <2>3, <2>4 DEF Reading
<1> QED
  BY <1>1, <1>2, TakeFieldIs

\* Decoders with the same designations read the same field.
LEMMA FieldAlike ==
  ASSUME iso \in RecordBytes, NEW tag, NEW b \in Seq(Nat),
         NEW d1 \in Decoders, NEW d2 \in Decoders, d1.g0 = d2.g0, d1.g1 = d2.g1
  PROVE  Decoded(tag, b, d1).field = Decoded(tag, b, d2).field
<1>1. Decode(d1, b).text = Decode(d2, b).text
  BY DecodeAlike DEF Alike
<1>2. DecodeSubs(d1, Raw(b)).subs = DecodeSubs(d2, Raw(b)).subs
  BY RawTypes, SubsAlike
<1> QED
  BY <1>1, <1>2, TakeFieldIs

\* A field of plain ASCII taken as it is, is what a Decoder that stands at ASCII
\* reads.
LEMMA FieldPlain ==
  ASSUME iso \in RecordBytes, NEW tag, NEW b \in Seq(Nat), Plain(b),
         NEW d, NEW n \in Decoders, n.g0 = "ascii"
  PROVE  AsItIs(tag, b, d).field = Decoded(tag, b, n).field
<1>1. Decode(n, b).text = b
  BY DecodePlain
<1>2. DecodeSubs(n, Raw(b)).subs = Raw(b)
  BY RawTypes, SubsPlain
<1> QED
  BY <1>1, <1>2, TakeFieldIs

\* The bytes of an entry of the directory are bytes.
LEMMA BytesTypes ==
  ASSUME iso \in RecordBytes, NEW e \in [tag : STRING, length : Nat, start : Nat], Inside(e)
  PROVE  BytesOf(e) \in Seq(Nat)
<1>1. PICK b, n : b = SubSeq(iso.body, e.start + 1, e.start + e.length) /\ n = Len(b)
  OBVIOUS
<1>2. b \in Seq(Nat) /\ n \in Nat /\ n = Len(b)
  <2>1. PICK body, from, to : body = iso.body /\ from = e.start + 1 /\ to = e.start + e.length
    OBVIOUS
  <2>2. body \in Seq(Nat) /\ from \in Nat \ {0} /\ to \in Nat /\ to <= Len(body)
    BY <2>1 DEF Inside, RecordBytes
  <2>3. SubSeq(body, from, to) \in Seq(Nat)
    BY <2>2, BytesWithin
  <2>4. b \in Seq(Nat)
    BY <1>1, <2>1, <2>3
  <2>5. Len(b) \in Nat
    BY <2>4
  <2>6. n = Len(b)
    BY <1>1
  <2> QED
    BY <2>4, <2>5, <2>6
<1> DEFINE is(m) == /\ m # 0 => b[m] # FieldTerminator
                    /\ \A i \in (m + 1)..n : b[i] = FieldTerminator
           tails == {m \in 0..n : \A i \in (m + 1)..n : b[i] = FieldTerminator}
<1>3. \E m \in 0..n : is(m)
  <2>1. tails \in SUBSET Nat /\ n \in tails
    BY <1>2
  <2>2. PICK m \in tails : \A k \in tails : m <= k
    <3> HIDE DEF tails
    <3> QED
      BY <2>1, Least
  <2>3. m \in 0..n /\ \A i \in (m + 1)..n : b[i] = FieldTerminator
    OBVIOUS
  <2>4. ASSUME m # 0, b[m] = FieldTerminator PROVE FALSE
    <3>1. m - 1 \in 0..n /\ (m - 1) + 1 = m /\ ~(m <= m - 1)
      BY <1>2, <2>3, <2>4
    <3>2. ASSUME NEW i \in m..n PROVE b[i] = FieldTerminator
      <4>1. i = m \/ i \in (m + 1)..n
        BY <1>2, <2>3
      <4> QED
        BY <2>3, <2>4, <4>1
    <3>3. m - 1 \in tails
      BY <3>1, <3>2
    <3> QED
      BY <2>2, <3>1, <3>3
  <2>5. is(m)
    BY <2>3, <2>4
  <2> QED
    BY <2>3, <2>5
<1>4. PICK m : m = CHOOSE k \in 0..n : is(k)
  OBVIOUS
<1>5. BytesOf(e) = SubSeq(b, 1, m)
  BY <1>1, <1>4 DEF BytesOf, StripTerminators
<1>6. m \in 0..n
  <2> HIDE DEF is
  <2> QED
    BY <1>3, <1>4
<1>7. SubSeq(b, 1, m) \in Seq(Nat)
  <2>1. m \in Nat /\ m <= Len(b)
    BY <1>2, <1>6
  <2> QED
    BY <1>2, <2>1
<1> QED
  BY <1>5, <1>7

-----------------------------------------------------------------------------
\* The fields read, one for each entry dealt with.

Taken(k) == Decoded(iso.directory[k].tag, BytesOf(iso.directory[k]), NewDecoder).field
AllInside == iso.coding # "a" /\ \A k \in DOMAIN iso.directory : Inside(iso.directory[k])
ReadInv ==
  /\ iso \in RecordBytes
  /\ at \in 0..Len(iso.directory)
  /\ dec \in Decoders
  /\ \E S : fields \in Seq(S)
  /\ AllInside => Len(fields) = at /\ \A k \in 1..at : fields[k] = Taken(k)

\* A new Decoder is one, and a Decoder reset is as a new one.
LEMMA NewDecoderTypes ==
  /\ NewDecoder \in Decoders /\ NewDecoder.g0 = "ascii" /\ NewDecoder.g1 = "ansel"
  /\ \A d \in Decoders : Reset(d) \in Decoders /\ Reset(d).g0 = "ascii" /\ Reset(d).g1 = "ansel"
<1>1. "ascii" \in Sets /\ "ansel" \in Sets /\ <<>> \in Seq(Points)
  BY DEF Sets
<1>2. NewDecoder \in Decoders
  BY <1>1 DEF NewDecoder, Decoders
<1>3. ASSUME NEW d \in Decoders PROVE Reset(d) \in Decoders /\ Reset(d).g0 = "ascii" /\ Reset(d).g1 = "ansel"
  BY <1>1 DEF Reset, Decoders
<1> QED
  BY <1>2, <1>3 DEF NewDecoder

\* The record begins with no field.
LEMMA ReadBegins == ReadInit => ReadInv
<1> SUFFICES ASSUME ReadInit PROVE ReadInv
  OBVIOUS
<1>1. iso \in RecordBytes
  BY ReceivedAssumption DEF ReadInit, RecordBytes
<1>2. at = 0 /\ dec = NewDecoder /\ fields = <<>>
  BY DEF ReadInit
<1>3. at \in 0..Len(iso.directory)
  <2>1. Len(iso.directory) \in Nat
    BY <1>1 DEF RecordBytes
  <2> QED
    BY <1>2, <2>1
<1>4. fields \in Seq({}) /\ Len(fields) = 0
  BY <1>2
<1> QED
  BY <1>1, <1>2, <1>3, <1>4, NewDecoderTypes DEF ReadInv

\* What is read of the bytes depends on the bytes alone.
LEMMA SameBytes ==
  ASSUME iso' = iso
  PROVE  /\ AllInside' = AllInside
         /\ \A k : Taken(k)' = Taken(k)
<1>1. AllInside' = AllInside
  BY DEF AllInside, Inside
<1>2. ASSUME NEW k PROVE Taken(k)' = Taken(k)
  BY DEF Taken, Decoded, TakeField, BytesOf
<1> QED
  BY <1>1, <1>2

\* An entry that is inside the data gives one field, as a new Decoder would read it.
LEMMA EntryRead ==
  ASSUME ReadInv, at < Len(iso.directory), NEW e, e = iso.directory[at + 1], Inside(e),
         NEW b, b = BytesOf(e),
         NEW plain, plain = (iso.coding = "a" \/ ~NeedsTranscode(b)),
         NEW taken, taken = TakeField(e.tag, b, IF plain THEN dec ELSE Reset(dec), plain)
  PROVE  taken.d \in Decoders /\ (iso.coding # "a" => taken.field = Taken(at + 1))
<1>1. e \in [tag : STRING, length : Nat, start : Nat]
  <2>1. PICK dir, E : dir = iso.directory /\ E = [tag : STRING, length : Nat, start : Nat]
    OBVIOUS
  <2>2. dir \in Seq(E)
    BY <2>1 DEF ReadInv, RecordBytes
  <2>3. at + 1 \in 1..Len(dir)
    BY <2>1, <2>2 DEF ReadInv
  <2>4. dir[at + 1] \in E
    BY <2>2, <2>3
  <2> QED
    BY <2>1, <2>4
<1>2. iso \in RecordBytes /\ dec \in Decoders
  BY DEF ReadInv
<1>3. b \in Seq(Nat)
  BY <1>1, <1>2, BytesTypes
<1>4. Taken(at + 1) = Decoded(e.tag, b, NewDecoder).field
  BY DEF Taken
<1>5. CASE iso.coding = "a" \/ ~NeedsTranscode(b)
  <2>1. taken = AsItIs(e.tag, b, dec)
    BY <1>5 DEF AsItIs
  <2>2. taken.d \in Decoders
    BY <1>2, <1>3, <2>1, TakeFieldTypes
  <2>3. ASSUME iso.coding # "a" PROVE taken.field = Taken(at + 1)
    <3>1. ~NeedsTranscode(b)
      BY <1>5, <2>3
    <3>2. Plain(b)
      <4>1. ASSUME NEW i \in DOMAIN b PROVE b[i] < 128 /\ b[i] # Escape
        <5>1. b[i] \in Nat
          BY <1>3
        <5>2. ~(b[i] >= 128) /\ b[i] # Escape
          BY <3>1 DEF NeedsTranscode
        <5> QED
          BY <5>1, <5>2
      <4> QED
        BY <4>1 DEF Plain
    <3>3. AsItIs(e.tag, b, dec).field = Decoded(e.tag, b, NewDecoder).field
      BY <1>2, <1>3, <3>2, NewDecoderTypes, FieldPlain
    <3> QED
      BY <1>4, <2>1, <3>3
  <2> QED
    BY <2>2, <2>3
<1>6. CASE ~(iso.coding = "a" \/ ~NeedsTranscode(b))
  <2>1. PICK d : d = Reset(dec)
    OBVIOUS
  <2>2. d \in Decoders /\ d.g0 = "ascii" /\ d.g1 = "ansel"
    BY <1>2, <2>1, NewDecoderTypes
  <2>3. taken = Decoded(e.tag, b, d)
    BY <1>6, <2>1 DEF Decoded
  <2>4. taken.d \in Decoders
    BY <1>2, <1>3, <2>2, <2>3, TakeFieldTypes
  <2>5. taken.field = Decoded(e.tag, b, NewDecoder).field
    BY <1>2, <1>3, <2>2, <2>3, NewDecoderTypes, FieldAlike
  <2> QED
    BY <1>4, <2>4, <2>5
<1> QED
  BY <1>5, <1>6

\* An entry of the directory keeps the invariant.
LEMMA EntryStep ==
  ASSUME ReadInv, DecodeField
  PROVE  ReadInv'
<1>1. PICK n : n = Len(iso.directory)
  OBVIOUS
<1>2. /\ iso \in RecordBytes /\ n \in Nat /\ at \in 0..n /\ at < n
      /\ iso' = iso /\ at' = at + 1 /\ at + 1 \in 0..n
  <2>1. iso \in RecordBytes /\ at \in 0..n /\ at < n /\ iso' = iso /\ at' = at + 1
    BY <1>1 DEF ReadInv, DecodeField
  <2>2. n \in Nat
    BY <1>1, <2>1 DEF RecordBytes
  <2> QED
    BY <2>1, <2>2
<1>3. iso' \in RecordBytes /\ at' \in 0..Len(iso'.directory)
  BY <1>1, <1>2
<1>4. PICK e : e = iso.directory[at + 1]
  OBVIOUS
<1>5. CASE ~Inside(e)
  <2>1. dec' = dec /\ fields' = fields
    BY <1>4, <1>5 DEF DecodeField
  <2>2. ~AllInside
    <3>1. at + 1 \in DOMAIN iso.directory
      BY <1>1, <1>2 DEF RecordBytes
    <3> QED
      BY <1>4, <1>5, <3>1 DEF AllInside
  <2>3. ~AllInside'
    BY <1>2, <2>2, SameBytes
  <2>4. dec' \in Decoders /\ \E S : fields' \in Seq(S)
    BY <2>1 DEF ReadInv
  <2> QED
    BY <1>3, <2>3, <2>4 DEF ReadInv
<1>6. CASE Inside(e)
  <2>1. PICK b : b = BytesOf(e)
    OBVIOUS
  <2>2. PICK plain : plain = (iso.coding = "a" \/ ~NeedsTranscode(b))
    OBVIOUS
  <2>3. PICK taken : taken = TakeField(e.tag, b, IF plain THEN dec ELSE Reset(dec), plain)
    OBVIOUS
  <2>4. dec' = taken.d /\ fields' = Append(fields, taken.field)
    BY <1>4, <1>6, <2>1, <2>2, <2>3 DEF DecodeField
  <2>5. taken.d \in Decoders /\ (iso.coding # "a" => taken.field = Taken(at + 1))
    BY <1>1, <1>2, <1>4, <1>6, <2>1, <2>2, <2>3, EntryRead
  <2>6. PICK S : fields \in Seq(S)
    BY DEF ReadInv
  <2>7. PICK f, T, l : f = taken.field /\ T = S \cup {f} /\ l = Len(fields)
    OBVIOUS
  <2>8. fields \in Seq(T) /\ f \in T /\ l \in Nat
    BY <2>6, <2>7, Wider
  <2>9. /\ fields' \in Seq(T) /\ Len(fields') = l + 1 /\ fields'[l + 1] = f
        /\ \A k \in 1..l : fields'[k] = fields[k]
    BY <2>4, <2>7, <2>8
  <2>10. ASSUME AllInside' PROVE Len(fields') = at' /\ \A k \in 1..at' : fields'[k] = Taken(k)'
    <3>1. AllInside /\ \A k : Taken(k)' = Taken(k)
      BY <1>2, <2>10, SameBytes
    <3>2. l = at /\ \A k \in 1..at : fields[k] = Taken(k)
      BY <2>7, <3>1 DEF ReadInv
    <3>3. f = Taken(at + 1)
      BY <2>5, <2>7, <3>1 DEF AllInside
    <3>4. ASSUME NEW k \in 1..at' PROVE fields'[k] = Taken(k)'
      <4>1. k \in 1..at \/ k = at + 1
        BY <1>2
      <4>2. CASE k \in 1..at
        BY <2>9, <3>1, <3>2, <4>2
      <4>3. CASE k = at + 1
        BY <2>9, <3>1, <3>2, <3>3, <4>3
      <4> QED
        BY <4>1, <4>2, <4>3
    <3> QED
      BY <1>2, <2>9, <3>2, <3>4
  <2>11. dec' \in Decoders /\ \E R : fields' \in Seq(R)
    BY <2>4, <2>5, <2>9
  <2> QED
    BY <1>3, <2>10, <2>11 DEF ReadInv
<1> QED
  BY <1>5, <1>6

\* Where nothing of the record changes, the invariant stays.
LEMMA RecordRests ==
  ASSUME ReadInv, UNCHANGED <<iso, at, dec, fields>>
  PROVE  ReadInv'
<1>1. AllInside' = AllInside /\ \A k : Taken(k)' = Taken(k)
  BY SameBytes
<1> QED
  BY <1>1 DEF ReadInv

\* Each field of a record that is MARC-8 and lies inside its data is read as a new
\* Decoder would read it (iso2709.Decode, Decoder.Reset): no designation that one
\* field makes is seen by another, and that plain ASCII is not decoded is not seen.
THEOREM FieldsAlwaysStandAlone == ReadSpec => []FieldsStandAlone
<1>1. ReadInit => ReadInv
  BY ReadBegins
<1>2. ReadInv /\ [ReadNext]_fieldVars => ReadInv'
  <2> SUFFICES ASSUME ReadInv, [ReadNext]_fieldVars PROVE ReadInv'
    OBVIOUS
  <2>1. CASE DecodeField
    BY <2>1, EntryStep
  <2>2. CASE DecodeEnds("done")
    BY <2>2, RecordRests DEF DecodeEnds
  <2>3. CASE UNCHANGED fieldVars
    BY <2>3, RecordRests DEF fieldVars
  <2> QED
    BY <2>1, <2>2, <2>3 DEF ReadNext
<1>3. ReadInv => FieldsStandAlone
  <2> SUFFICES ASSUME ReadInv, AllInside, NEW k \in DOMAIN fields
               PROVE  \E e \in {iso.directory[k]} : fields[k] = TakeField(e.tag, BytesOf(e), NewDecoder, FALSE).field
    BY DEF FieldsStandAlone, AllInside
  <2>1. PICK S : fields \in Seq(S)
    BY DEF ReadInv
  <2>2. Len(fields) = at /\ \A i \in 1..at : fields[i] = Taken(i)
    BY DEF ReadInv
  <2>3. fields[k] = Taken(k)
    BY <2>1, <2>2
  <2> QED
    BY <2>3, Zenon DEF Taken, Decoded
<1> QED
  BY <1>1, <1>2, <1>3, PTL DEF ReadSpec
===============================================================================
