--------------------------- MODULE SruReader_proofs ---------------------------
(***************************************************************************)
(* Proofs about SruReader, for every result set, page size and bound.      *)
(***************************************************************************)
EXTENDS SruReader, SelectionTheorems, TLAPS

-----------------------------------------------------------------------------
\* The catalog is a sequence of the record kinds, so size is a natural number.
LEMMA SizeNat == SruTypeOK => size \in Nat /\ catalog \in Seq(Kinds)
BY SruAssumption DEF SruTypeOK, size

\* What taking the head of the page leaves of it.
LEMMA TailOfPage ==
  ASSUME NEW S, NEW s \in Seq(S), s # <<>>
  PROVE  /\ Head(s) \in S /\ Tail(s) \in Seq(S)
         /\ Head(s) = s[1]
         /\ Len(Tail(s)) = Len(s) - 1
         /\ \A i \in DOMAIN Tail(s) : Tail(s)[i] = s[i + 1]
OBVIOUS

\* A response of well-formed records and numbers leaves the pager well formed.
PagerTyped ==
  /\ page \in Seq(1..size) /\ next \in Nat \ {0} /\ fetched \in Nat
  /\ total \in {-1, size} /\ noMore \in BOOLEAN

\* Its numbers may be any the server can give.
LEMMA ResponseType ==
  ASSUME SruTypeOK, NEW records \in Seq(1..size), NEW position \in Nat,
         NEW count \in {-1, size}, Response(records, position, count)
  PROVE  PagerTyped' /\ UNCHANGED <<catalog, conforming, out>>
<1>1. size \in Nat /\ size' = size
  BY SizeNat DEF Response, server, size
<1>2. page' \in Seq(1..size) /\ fetched' \in Nat /\ total' \in {-1, size}
  BY <1>1 DEF SruTypeOK, Response
<1>3. next' \in Nat \ {0}
  BY <1>1, <1>2 DEF SruTypeOK, Response
<1>4. noMore' \in BOOLEAN
  BY DEF SruTypeOK, Response
<1> QED
  BY <1>1, <1>2, <1>3, <1>4 DEF PagerTyped, Response, server

\* Type correctness is preserved by every step.
LEMMA TypeStep == SruTypeOK /\ [SruNext]_sruVars => SruTypeOK'
<1> SUFFICES ASSUME SruTypeOK, [SruNext]_sruVars
             PROVE  SruTypeOK'
  OBVIOUS
<1> USE SizeNat
<1>1. CASE Read
  BY <1>1 DEF SruTypeOK, Read, server, paging, size
<1>2. CASE SkipRecord
  BY <1>2, TailOfPage DEF SruTypeOK, SkipRecord, AtRecord, Advance, server, control, size
<1>3. CASE DeliverRecord
  <2>1. page # <<>> /\ page \in Seq(1..size) /\ out \in Seq(1..size)
    BY <1>3 DEF DeliverRecord, AtRecord, SruTypeOK
  <2>2. Tail(page) \in Seq(1..size) /\ Append(out, Head(page)) \in Seq(1..size)
    BY <2>1, TailOfPage
  <2> QED
    BY <1>3, <2>2 DEF SruTypeOK, DeliverRecord, Advance, server, size
<1>4. CASE CorruptRecord
  BY <1>4, TailOfPage DEF SruTypeOK, CorruptRecord, AtRecord, Advance, Stop, server, size
<1>5. CASE Exhausted
  BY <1>5 DEF SruTypeOK, Exhausted, Stop, server, paging, size
<1>6. CASE RequestFails
  BY <1>6 DEF SruTypeOK, RequestFails, Stop, server, paging, size
<1>7. CASE EmptyResponse
  <2>1. PICK count \in {-1, size} : Response(<<>>, 0, count)
    BY <1>7 DEF EmptyResponse
  <2>2. <<>> \in Seq(1..size)
    OBVIOUS
  <2> QED
    BY <1>7, <2>1, <2>2, ResponseType DEF SruTypeOK, PagerTyped, EmptyResponse, Stop, size
<1>8. CASE ConformingResponse
  <2>1. PICK n \in 1..PageSize, count \in {-1, size}, named \in BOOLEAN :
          LET more == next + n <= size
          IN /\ next + n - 1 <= size
             /\ Response([i \in 1..n |-> next + i - 1],
                         IF named /\ more THEN next + n ELSE 0, count)
             /\ cut' = (cut \/ (more /\ ~named /\ count = -1))
             /\ pages' = pages + 1
    BY <1>8 DEF ConformingResponse
  <2>2. [i \in 1..n |-> next + i - 1] \in Seq(1..size)
    BY <2>1, SruAssumption DEF SruTypeOK
  <2>3. (IF named /\ next + n <= size THEN next + n ELSE 0) \in Nat
    BY SruAssumption DEF SruTypeOK
  <2>4. PagerTyped' /\ UNCHANGED <<catalog, conforming, out>>
    BY <2>1, <2>2, <2>3, ResponseType
  <2>5. cut' \in BOOLEAN /\ pages' \in Nat
    BY <2>1 DEF SruTypeOK
  <2> QED
    BY <1>8, <2>4, <2>5 DEF SruTypeOK, PagerTyped, ConformingResponse, control, size
<1>9. CASE OtherResponse
  <2>1. PICK n \in 1..PageSize, position \in 0..(size + MaxPages) :
          /\ n <= size
          /\ \E count \in IF pages = 0 THEN {-1, size} ELSE {total} :
               Response([i \in 1..n |-> i], position, count)
    BY <1>9 DEF OtherResponse
  <2>2. PICK count \in {-1, size} : Response([i \in 1..n |-> i], position, count)
    BY <2>1 DEF SruTypeOK
  <2>3. [i \in 1..n |-> i] \in Seq(1..size)
    BY <2>1, SruAssumption
  <2>p. position \in Nat
    BY SruAssumption
  <2>4. PagerTyped' /\ UNCHANGED <<catalog, conforming, out>>
    BY <2>2, <2>3, <2>p, ResponseType
  <2> QED
    BY <1>9, <2>4 DEF SruTypeOK, PagerTyped, OtherResponse, control, size
<1>10. CASE UNCHANGED sruVars
  <2>1. /\ catalog' = catalog /\ conforming' = conforming
        /\ reading' = reading /\ readErr' = readErr /\ out' = out
        /\ page' = page /\ next' = next /\ fetched' = fetched /\ total' = total
        /\ noMore' = noMore /\ cut' = cut /\ pages' = pages
    BY <1>10 DEF sruVars, server, control, paging
  <2> QED
    BY <2>1 DEF SruTypeOK, size
<1> QED
  BY <1>1, <1>2, <1>3, <1>4, <1>5, <1>6, <1>7, <1>8, <1>9, <1>10
     DEF SruNext, Step, Fetch

\* The variables of the reader keep to their ranges (Reader's fields, sru/reader.go).
THEOREM TypeCorrect == SruSpec => []SruTypeOK
<1>1. SruInit => SruTypeOK
  <2> SUFFICES ASSUME SruInit PROVE SruTypeOK
    OBVIOUS
  <2>1. page \in Seq(1..size) /\ out \in Seq(1..size)
    BY DEF SruInit
  <2>2. next \in Nat \ {0} /\ fetched \in Nat /\ pages \in Nat /\ total \in {-1, size}
    BY DEF SruInit
  <2>3. {conforming, reading, noMore, cut} \subseteq BOOLEAN
    BY DEF SruInit
  <2>4. catalog \in Catalogs /\ readErr \in {"none", "eof", "error"}
    BY DEF SruInit
  <2> QED
    BY <2>1, <2>2, <2>3, <2>4 DEF SruTypeOK
<1> QED
  BY <1>1, TypeStep, PTL DEF SruSpec

-----------------------------------------------------------------------------
\* Taking a record off the page moves the reader through exactly one position.
LEMMA AdvanceByOne ==
  ASSUME SruTypeOK, NoGapNoRepeat, conforming, page # <<>>, Advance
  PROVE  /\ Head(page) = through + 1 /\ through' = through + 1
         /\ through' \in 1..size
         /\ fetched' \in Len(page')..size'
         /\ ~noMore' => next' = fetched' + 1
         /\ \A i \in DOMAIN page' : page'[i] = through' + i
<1>1. size \in Nat /\ size' = size /\ page \in Seq(1..size) /\ fetched \in Nat
  BY SizeNat DEF SruTypeOK, Advance, server, size
<1>2. /\ Len(page) \in Nat \ {0} /\ Head(page) = page[1] /\ 1 \in DOMAIN page
      /\ Len(page') = Len(page) - 1
      /\ \A i \in DOMAIN page' : page'[i] = page[i + 1] /\ i + 1 \in DOMAIN page
      /\ \A i \in DOMAIN page' : i \in Nat
  BY <1>1, TailOfPage DEF Advance
<1>3. fetched' = fetched /\ next' = next /\ noMore' = noMore
  BY DEF Advance
<1>4. through' = through + 1
  BY <1>1, <1>2, <1>3 DEF through
<1>5. fetched \in Len(page)..size /\ through \in Nat
  BY <1>1, <1>2 DEF NoGapNoRepeat, through
<1>6. Head(page) = through + 1
  BY <1>2 DEF NoGapNoRepeat
<1>7. \A i \in DOMAIN page' : page'[i] = through' + i
  BY <1>2, <1>4, <1>5 DEF NoGapNoRepeat
<1>8. through' \in 1..size /\ fetched' \in Len(page')..size'
  BY <1>1, <1>2, <1>3, <1>4, <1>5 DEF through
<1> QED
  BY <1>3, <1>4, <1>6, <1>7, <1>8 DEF NoGapNoRepeat

\* A page asked for at next, when nothing is buffered, continues the result set.
LEMMA PageContinues ==
  ASSUME SruTypeOK, NoGapNoRepeat, conforming, Fetching, ~noMore,
         NEW n \in Nat \ {0}, next + n - 1 <= size,
         NEW position \in {0, next + n}, NEW count \in {-1, size},
         Response([i \in 1..n |-> next + i - 1], position, count)
  PROVE  /\ through' = through /\ fetched' = fetched + n /\ fetched' = next + n - 1
         /\ fetched' \in Len(page')..size'
         /\ ~noMore' => next' = fetched' + 1
         /\ \A i \in DOMAIN page' : page'[i] = through' + i
<1> DEFINE records == [i \in 1..n |-> next + i - 1]
<1>1. size \in Nat /\ size' = size /\ fetched \in Nat /\ next \in Nat
  BY SizeNat DEF SruTypeOK, Response, server, size
<1>2. Len(page) = 0 /\ through = fetched /\ next = fetched + 1
  BY <1>1 DEF Fetching, NoGapNoRepeat, through
<1>3. Len(records) = n /\ records # <<>> /\ DOMAIN records = 1..n
  OBVIOUS
<1>4. page' = records /\ fetched' = fetched + n
  BY <1>3 DEF Response
<1>5. through' = through
  BY <1>1, <1>2, <1>3, <1>4 DEF through
<1>6. ~noMore' => next' = fetched' + 1
  <2>1. ~noMore' => position > next \/ fetched' < count
    <3>1. ~noMore' => ~(position <= next /\ fetched' >= count)
      BY Zenon DEF Response
    <3>2. position \in Nat /\ count \in Int /\ fetched' \in Nat
      BY <1>1, <1>4
    <3> QED
      BY <1>1, <3>1, <3>2
  <2>2. next' = IF position > next THEN position
                ELSE IF fetched' < count THEN next + n ELSE next
    BY <1>3 DEF Response
  <2>3. position > next => next' = fetched' + 1
    BY <1>1, <1>2, <1>4, <2>2
  <2>4. position <= next /\ fetched' < count => next' = fetched' + 1
    BY <1>1, <1>2, <1>4, <2>2
  <2>5. position \in Nat
    BY <1>1
  <2> QED
    BY <1>1, <2>1, <2>3, <2>4, <2>5
<1>7. \A i \in DOMAIN page' : page'[i] = through' + i
  BY <1>1, <1>2, <1>3, <1>4, <1>5
<1> QED
  BY <1>1, <1>2, <1>3, <1>4, <1>5, <1>6, <1>7

\* Every step keeps the pager from repeating or passing over a record.
LEMMA NoGapStep == SruTypeOK /\ NoGapNoRepeat /\ [SruNext]_sruVars => NoGapNoRepeat'
<1> SUFFICES ASSUME SruTypeOK, NoGapNoRepeat, [SruNext]_sruVars, conforming'
             PROVE  NoGapNoRepeat'
  BY DEF NoGapNoRepeat
<1>0. conforming /\ catalog' = catalog /\ size' = size /\ size \in Nat
  BY SizeNat DEF SruNext, Read, Step, Fetch, SkipRecord, DeliverRecord, CorruptRecord, Advance,
     Exhausted, RequestFails, EmptyResponse, ConformingResponse, OtherResponse,
     Response, sruVars, server, size
<1>a. fetched \in Nat /\ Len(page) \in Nat /\ through \in Nat /\ out \in Seq(1..size)
  BY <1>0 DEF SruTypeOK, NoGapNoRepeat, through
<1>1. ASSUME UNCHANGED <<page, next, fetched, noMore, out>>
      PROVE  NoGapNoRepeat'
  BY <1>0, <1>1 DEF NoGapNoRepeat, through
<1>2. ASSUME page # <<>>, Advance, catalog[Head(page)] # "marcxml", UNCHANGED out
      PROVE  NoGapNoRepeat'
  <2>1. /\ Head(page) = through + 1 /\ through' = through + 1
        /\ fetched' \in Len(page')..size'
        /\ ~noMore' => next' = fetched' + 1
        /\ \A i \in DOMAIN page' : page'[i] = through' + i
    BY <1>0, <1>2, AdvanceByOne
  <2>2. \A k \in DOMAIN out : out[k] \in Nat
    BY <1>0, <1>a
  <2>3. \A k \in DOMAIN out' : out'[k] <= through'
    BY <1>0, <1>2, <1>a, <2>1, <2>2 DEF NoGapNoRepeat
  <2>4. \A j, k \in DOMAIN out' : j < k => out'[j] < out'[k]
    BY <1>0, <1>2 DEF NoGapNoRepeat
  <2>5. \A i \in 1..through' : catalog'[i] = "marcxml" => \E k \in DOMAIN out' : out'[k] = i
    BY <1>0, <1>2, <1>a, <2>1 DEF NoGapNoRepeat
  <2> QED
    BY <2>1, <2>3, <2>4, <2>5 DEF NoGapNoRepeat
<1>3. CASE DeliverRecord
  <2>1. page # <<>> /\ Advance /\ out' = Append(out, Head(page))
    BY <1>3 DEF DeliverRecord, AtRecord
  <2>2. /\ Head(page) = through + 1 /\ through' = through + 1 /\ through' \in 1..size
        /\ fetched' \in Len(page')..size'
        /\ ~noMore' => next' = fetched' + 1
        /\ \A i \in DOMAIN page' : page'[i] = through' + i
    BY <1>0, <2>1, AdvanceByOne
  <2>3. /\ Len(out') = Len(out) + 1 /\ out'[Len(out) + 1] = through'
        /\ \A k \in DOMAIN out : k \in DOMAIN out' /\ out'[k] = out[k]
        /\ DOMAIN out' = 1..(Len(out) + 1) /\ DOMAIN out = 1..Len(out) /\ Len(out) \in Nat
    BY <1>a, <2>1, <2>2
  <2>4. \A k \in DOMAIN out : out[k] \in Nat /\ out[k] <= through
    BY <1>0, <1>a DEF NoGapNoRepeat
  <2>5. \A k \in DOMAIN out' : out'[k] <= through'
    BY <1>a, <2>2, <2>3, <2>4
  <2>6. \A j, k \in DOMAIN out' : j < k => out'[j] < out'[k]
    <3> TAKE j, k \in DOMAIN out'
    <3> HAVE j < k
    <3>1. j \in DOMAIN out
      BY <2>3
    <3>2. CASE k \in DOMAIN out
      BY <1>0, <2>3, <3>1, <3>2 DEF NoGapNoRepeat
    <3>3. CASE k = Len(out) + 1
      BY <1>a, <2>2, <2>3, <2>4, <3>1, <3>3
    <3> QED
      BY <2>3, <3>2, <3>3
  <2>7. \A i \in 1..through' : catalog'[i] = "marcxml" => \E k \in DOMAIN out' : out'[k] = i
    <3> TAKE i \in 1..through'
    <3> HAVE catalog'[i] = "marcxml"
    <3>1. CASE i = through'
      BY <2>3, <3>1
    <3>2. CASE i \in 1..through
      BY <1>0, <2>3, <3>2 DEF NoGapNoRepeat
    <3> QED
      BY <1>a, <2>2, <3>1, <3>2
  <2> QED
    BY <2>2, <2>5, <2>6, <2>7 DEF NoGapNoRepeat
<1>4. CASE EmptyResponse
  <2>1. PICK count \in {-1, size} : Response(<<>>, 0, count)
    BY <1>4 DEF EmptyResponse
  <2>2. page = <<>> /\ page' = <<>> /\ fetched' = fetched /\ out' = out
    BY <1>4, <1>a, <2>1 DEF EmptyResponse, Fetching, Response
  <2>3. noMore'
    BY <2>1, Zenon DEF Response
  <2> QED
    BY <1>0, <1>a, <2>2, <2>3 DEF NoGapNoRepeat, through
<1>5. CASE ConformingResponse
  <2>1. PICK n \in 1..PageSize, count \in {-1, size}, named \in BOOLEAN :
          /\ next + n - 1 <= size
          /\ Response([i \in 1..n |-> next + i - 1],
                      IF named /\ next + n <= size THEN next + n ELSE 0, count)
    BY <1>5 DEF ConformingResponse
  <2>2. n \in Nat \ {0} /\ next \in Nat
    BY SruAssumption DEF SruTypeOK
  <2>3. Fetching /\ ~noMore
    BY <1>5 DEF ConformingResponse
  <2>4. /\ through' = through
        /\ fetched' \in Len(page')..size'
        /\ ~noMore' => next' = fetched' + 1
        /\ \A i \in DOMAIN page' : page'[i] = through' + i
    BY <1>0, <2>1, <2>2, <2>3, PageContinues
  <2>5. out' = out
    BY <2>1 DEF Response
  <2> QED
    BY <1>0, <2>4, <2>5 DEF NoGapNoRepeat
<1>6. CASE Read
  BY <1>1, <1>6 DEF Read, paging
<1>7. CASE SkipRecord
  BY <1>2, <1>7 DEF SkipRecord, AtRecord
<1>8. CASE CorruptRecord
  BY <1>2, <1>8 DEF CorruptRecord, AtRecord
<1>9. CASE Exhausted \/ RequestFails
  BY <1>1, <1>9 DEF Exhausted, RequestFails, paging
<1>10. CASE OtherResponse
  BY <1>0, <1>10 DEF OtherResponse
<1>11. CASE UNCHANGED sruVars
  BY <1>1, <1>11 DEF sruVars, paging
<1> QED
  BY <1>3, <1>4, <1>5, <1>6, <1>7, <1>8, <1>9, <1>10, <1>11 DEF SruNext, Step, Fetch

\* sru.Reader neither repeats nor passes over a record of a conforming server's
\* result set, for every result set and page size, whichever of its two numbers
\* each page carries.
THEOREM NeitherGapNorRepeat == SruSpec => []NoGapNoRepeat
<1>1. SruInit => NoGapNoRepeat
  <2> SUFFICES ASSUME SruInit PROVE NoGapNoRepeat
    OBVIOUS
  <2>1. size \in Nat
    BY SruAssumption DEF SruInit, size
  <2>2. Len(page) = 0 /\ Len(out) = 0 /\ fetched = 0 /\ next = 1
    BY DEF SruInit
  <2> QED
    BY <2>1, <2>2 DEF NoGapNoRepeat, through, SruInit
<1> QED
  BY <1>1, TypeCorrect, NoGapStep, PTL DEF SruSpec

-----------------------------------------------------------------------------
\* The reader stops only at the end of the result set, or at a page that left
\* out both the count and the next position while records remained.
LEMMA EOFStep == SruTypeOK /\ NoGapNoRepeat /\ EOFIsTheEnd /\ [SruNext]_sruVars => EOFIsTheEnd'
<1> SUFFICES ASSUME SruTypeOK, NoGapNoRepeat, EOFIsTheEnd, [SruNext]_sruVars,
                    conforming', noMore', ~cut'
             PROVE  fetched' = size'
  BY DEF EOFIsTheEnd
<1>0. conforming /\ size' = size /\ size \in Nat /\ next \in Nat \ {0} /\ fetched \in Nat
  BY SizeNat DEF SruTypeOK, SruNext, Read, Step, Fetch, SkipRecord, DeliverRecord, CorruptRecord,
     Advance, Exhausted, RequestFails, EmptyResponse, ConformingResponse, OtherResponse,
     Response, sruVars, server, size
<1>1. ASSUME UNCHANGED <<fetched, noMore, cut>>
      PROVE  fetched' = size'
  BY <1>0, <1>1 DEF EOFIsTheEnd
<1>2. CASE EmptyResponse
  <2>1. ~noMore /\ next > size /\ fetched' = fetched
    BY <1>0, <1>2 DEF EmptyResponse, Response
  <2> QED
    BY <1>0, <2>1 DEF NoGapNoRepeat
<1>3. CASE ConformingResponse
  <2>1. PICK n \in 1..PageSize, count \in {-1, size}, named \in BOOLEAN :
          LET more == next + n <= size
          IN /\ next + n - 1 <= size
             /\ Response([i \in 1..n |-> next + i - 1],
                         IF named /\ more THEN next + n ELSE 0, count)
             /\ cut' = (cut \/ (more /\ ~named /\ count = -1))
    BY <1>3 DEF ConformingResponse
  <2> DEFINE position == IF named /\ next + n <= size THEN next + n ELSE 0
             records  == [i \in 1..n |-> next + i - 1]
  <2>2. n \in Nat \ {0} /\ Len(records) = n /\ records # <<>>
    BY SruAssumption
  <2>3. ~noMore /\ Fetching
    BY <1>3 DEF ConformingResponse
  <2>4. fetched' = fetched + n /\ fetched + 1 = next
    BY <1>0, <2>1, <2>2, <2>3 DEF Response, NoGapNoRepeat
  <2>5. position <= next /\ fetched' >= count
    BY <2>1, <2>2, <2>3, Zenon DEF Response
  <2>6. ~(next + n <= size /\ ~named /\ count = -1)
    BY <2>1, Zenon
  <2>7. CASE next + n <= size
    \* More records were to come, so the count was there and is not reached.
    <3>1. ~named
      BY <1>0, <2>2, <2>5, <2>7
    <3>2. count = size
      BY <2>6, <2>7, <3>1
    <3> QED
      BY <1>0, <2>2, <2>4, <2>5, <2>7, <3>2
  <2> QED
    BY <1>0, <2>1, <2>2, <2>4, <2>7
<1>4. CASE Read
  BY <1>1, <1>4 DEF Read, paging
<1>5. CASE SkipRecord \/ DeliverRecord \/ CorruptRecord
  BY <1>1, <1>5 DEF SkipRecord, DeliverRecord, CorruptRecord, Advance
<1>6. CASE Exhausted \/ RequestFails
  BY <1>1, <1>6 DEF Exhausted, RequestFails, paging
<1>7. CASE OtherResponse
  BY <1>0, <1>7 DEF OtherResponse
<1>8. CASE UNCHANGED sruVars
  BY <1>1, <1>8 DEF sruVars, paging
<1> QED
  BY <1>2, <1>3, <1>4, <1>5, <1>6, <1>7, <1>8 DEF SruNext, Step, Fetch

\* A conforming server's result set was received whole when sru.Reader stops,
\* unless a page named neither its size nor where to go on.
THEOREM EndOfResultSet == SruSpec => []EOFIsTheEnd
<1>1. SruInit => EOFIsTheEnd
  BY DEF SruInit, EOFIsTheEnd
<1> QED
  BY <1>1, TypeCorrect, NeitherGapNorRepeat, EOFStep, PTL DEF SruSpec

-----------------------------------------------------------------------------
\* The stream Read hands out is the one a codex.RecordReader promises.

\* What was returned is what there was to return among the records Read is
\* through with; a record that does not decode among them was the last.
StreamSoFar ==
  /\ readErr # "none" => ~reading
  /\ conforming => /\ out = Select(Readable, through)
                   /\ readErr = "none" => \A j \in 1..through : catalog[j] # "corrupt"

\* The result set is the server's, and does not change.
LEMMA SameResultSet ==
  ASSUME SruTypeOK, [SruNext]_sruVars
  PROVE  /\ catalog' = catalog /\ conforming' = conforming
         /\ size' = size /\ size \in Nat /\ Readable' = Readable
<1>1. catalog' = catalog /\ conforming' = conforming
  BY DEF SruNext, Read, Step, Fetch, SkipRecord, DeliverRecord, CorruptRecord, Advance,
     Exhausted, RequestFails, EmptyResponse, ConformingResponse, OtherResponse,
     Response, sruVars, server
<1> QED
  BY <1>1, SizeNat DEF size, Readable

\* A fetch of a conforming server's records leaves Read where it was among them.
LEMMA FetchThrough ==
  ASSUME SruTypeOK, NoGapNoRepeat, conforming, EmptyResponse \/ ConformingResponse
  PROVE  through' = through /\ out' = out
<1>1. CASE EmptyResponse
  <2>1. PICK count \in {-1, size} : Response(<<>>, 0, count)
    BY <1>1 DEF EmptyResponse
  <2> QED
    BY <1>1, <2>1 DEF EmptyResponse, Fetching, Response, through, SruTypeOK
<1>2. CASE ConformingResponse
  <2>1. PICK n \in 1..PageSize, count \in {-1, size}, named \in BOOLEAN :
          /\ next + n - 1 <= size
          /\ Response([i \in 1..n |-> next + i - 1],
                      IF named /\ next + n <= size THEN next + n ELSE 0, count)
    BY <1>2 DEF ConformingResponse
  <2>2. n \in Nat \ {0} /\ next \in Nat /\ Fetching /\ ~noMore
    BY <1>2, SruAssumption DEF SruTypeOK, ConformingResponse
  <2>3. (IF named /\ next + n <= size THEN next + n ELSE 0) \in {0, next + n}
    OBVIOUS
  <2>4. through' = through
    BY <2>1, <2>2, <2>3, PageContinues
  <2> QED
    BY <2>1, <2>4 DEF Response
<1> QED
  BY <1>1, <1>2

\* Taking a record off the page: it is delivered if and only if it is to be.
LEMMA AdvanceStream ==
  ASSUME SruTypeOK, NoGapNoRepeat, StreamSoFar, conforming, [SruNext]_sruVars,
         SkipRecord \/ DeliverRecord \/ CorruptRecord
  PROVE  StreamSoFar'
<1>1. page # <<>> /\ Advance /\ reading
  BY DEF SkipRecord, DeliverRecord, CorruptRecord, AtRecord
<1>2. Head(page) = through + 1 /\ through' = through + 1 /\ through' \in 1..size'
  BY <1>1, AdvanceByOne, SameResultSet
<1>3. /\ catalog' = catalog /\ conforming' = conforming /\ Readable' = Readable
      /\ size' = size /\ size \in Nat
  BY SameResultSet
<1>4. through \in Nat /\ through + 1 \in DOMAIN catalog
  <2>1. catalog \in Seq(Kinds)
    BY SizeNat
  <2> QED
    BY <1>2, <1>3, <2>1 DEF size, SruTypeOK, NoGapNoRepeat, through
<1>5. out = Select(Readable, through) /\ \A j \in 1..through : catalog[j] # "corrupt"
  BY <1>1 DEF StreamSoFar
<1>6. /\ through + 1 \in Readable => Select(Readable, through + 1) = Append(out, through + 1)
      /\ through + 1 \notin Readable => Select(Readable, through + 1) = out
  BY <1>4, <1>5, SelectSteps
<1>7. \A j \in 1..(through + 1) : j \in 1..through \/ j = through + 1
  BY <1>4
<1>8. through + 1 \in Readable <=> catalog[through + 1] = "marcxml"
  BY <1>4, <1>5, <1>7 DEF Readable
<1>9. CASE SkipRecord
  BY <1>2, <1>3, <1>5, <1>6, <1>7, <1>8, <1>9
     DEF SkipRecord, AtRecord, StreamSoFar, control
<1>10. CASE DeliverRecord
  BY <1>2, <1>3, <1>5, <1>6, <1>7, <1>8, <1>10 DEF DeliverRecord, AtRecord, StreamSoFar
<1>11. CASE CorruptRecord
  BY <1>2, <1>3, <1>6, <1>8, <1>11 DEF CorruptRecord, AtRecord, Stop, StreamSoFar
<1> QED
  BY <1>9, <1>10, <1>11

\* Every step keeps what was returned the readable part of what is done with.
LEMMA StreamStep ==
  SruTypeOK /\ NoGapNoRepeat /\ StreamSoFar /\ [SruNext]_sruVars => StreamSoFar'
<1> SUFFICES ASSUME SruTypeOK, NoGapNoRepeat, StreamSoFar, [SruNext]_sruVars PROVE StreamSoFar'
  OBVIOUS
<1>1. /\ catalog' = catalog /\ conforming' = conforming /\ Readable' = Readable
  BY SameResultSet
<1>2. ASSUME readErr' # "none" => ~reading', through' = through, out' = out,
             readErr' = "none" => readErr = "none"
      PROVE  StreamSoFar'
  BY <1>1, <1>2 DEF StreamSoFar
<1>3. readErr' # "none" => ~reading'
  BY DEF StreamSoFar, SruNext, Read, Step, Fetch, SkipRecord, DeliverRecord, CorruptRecord,
     AtRecord, Exhausted, RequestFails, EmptyResponse, ConformingResponse, OtherResponse,
     Fetching, Stop, sruVars, control
<1>4. readErr' = "none" => readErr = "none"
  BY DEF SruNext, Read, Step, Fetch, SkipRecord, DeliverRecord, CorruptRecord, Exhausted,
     RequestFails, EmptyResponse, ConformingResponse, OtherResponse, Stop, sruVars, control
<1>5. CASE ~conforming
  BY <1>1, <1>3, <1>5 DEF StreamSoFar
<1>6. CASE conforming /\ (SkipRecord \/ DeliverRecord \/ CorruptRecord)
  BY <1>6, AdvanceStream
<1>7. CASE conforming /\ (EmptyResponse \/ ConformingResponse)
  BY <1>2, <1>3, <1>4, <1>7, FetchThrough
<1>8. CASE Read \/ Exhausted \/ RequestFails \/ UNCHANGED sruVars
  <2>1. page' = page /\ fetched' = fetched /\ out' = out
    BY <1>8 DEF Read, Exhausted, RequestFails, sruVars, paging
  <2> QED
    BY <1>2, <1>3, <1>4, <2>1 DEF through
<1>9. CASE OtherResponse
  BY <1>5, <1>9 DEF OtherResponse
<1> QED
  BY <1>5, <1>6, <1>7, <1>8, <1>9 DEF SruNext, Step, Fetch

\* Every step of sru.Reader is one of a RecordSource, or none.
LEMMA SourceStep ==
  SruTypeOK /\ NoGapNoRepeat /\ EOFIsTheEnd /\ StreamSoFar /\ StreamSoFar' /\ [SruNext]_sruVars
    => [SruSource!Next]_(SruSource!sourceVars)
<1> SUFFICES ASSUME SruTypeOK, NoGapNoRepeat, EOFIsTheEnd, StreamSoFar, StreamSoFar', [SruNext]_sruVars
             PROVE  [SruSource!Next]_(SruSource!sourceVars)
  OBVIOUS
<1>1. /\ catalog' = catalog /\ conforming' = conforming /\ Readable' = Readable
      /\ size' = size /\ size \in Nat
  BY SameResultSet
<1>2. Select(Readable, size)' = Select(Readable, size)
  BY <1>1
<1> DEFINE stream == Select(Readable, size)
           closed == cut /\ readErr # "none"
<1>3. CASE ~conforming
  BY <1>1, <1>2, <1>3 DEF SruSource!sourceVars, IfConforming
<1>4. ASSUME conforming, out' = out, readErr' = readErr, closed' = closed
      PROVE  UNCHANGED SruSource!sourceVars
  BY <1>1, <1>2, <1>4 DEF SruSource!sourceVars, IfConforming
<1>5. ASSUME conforming, reading, out' = out, cut' \in BOOLEAN,
             \/ readErr' = "error"
             \/ readErr' = "eof" /\ (cut' \/ Len(out) = Len(stream))
      PROVE  SruSource!Finish
  <2>1. readErr = "none" /\ closed = FALSE /\ closed' = cut'
    BY <1>5 DEF StreamSoFar
  <2> QED
    BY <1>1, <1>2, <1>5, <2>1 DEF SruSource!Finish, IfConforming
<1>6. CASE conforming /\ DeliverRecord
  <2>1. page # <<>> /\ Advance /\ reading /\ out' = Append(out, Head(page)) /\ readErr' = readErr
        /\ cut' = cut
    BY <1>6 DEF DeliverRecord, AtRecord, Advance
  <2>2. Head(page) = through + 1 /\ through' = through + 1 /\ through' \in 1..size
    BY <1>1, <1>6, <2>1, AdvanceByOne
  <2>3. readErr = "none" /\ out = Select(Readable, through) /\ out' = Select(Readable, through + 1)
    BY <1>1, <1>6, <2>1, <2>2 DEF StreamSoFar
  <2>4. through \in Nat /\ through < size
    BY <1>1, <1>6, <2>2 DEF NoGapNoRepeat, SruTypeOK, through
  <2>5. through + 1 \in Readable
    <3>1. out # out'
      <4>1. out \in Seq(1..size)
        BY DEF SruTypeOK
      <4>2. Len(out') = Len(out) + 1
        BY <2>1, <4>1
      <4> QED
        BY <4>1, <4>2
    <3> QED
      BY <2>3, <2>4, <3>1, SelectSteps
  <2>6. Len(out) < Len(stream) /\ stream[Len(out) + 1] = through + 1
    BY <1>1, <2>3, <2>4, <2>5, SelectNext
  <2>7. SruSource!Deliver
    BY <1>1, <1>2, <1>6, <2>1, <2>2, <2>3, <2>6 DEF SruSource!Deliver, IfConforming
  <2> QED
    BY <2>7 DEF SruSource!Next
<1>7. CASE conforming /\ Exhausted
  <2>1. reading /\ page = <<>> /\ noMore /\ readErr' = "eof" /\ out' = out /\ cut' = cut
    BY <1>7 DEF Exhausted, Fetching, Stop, paging
  <2>2. ~cut => through = size
    BY <1>1, <1>7, <2>1 DEF EOFIsTheEnd, SruTypeOK, through
  <2>3. cut' \/ Len(out) = Len(stream)
    BY <1>7, <2>1, <2>2 DEF StreamSoFar
  <2>4. cut' \in BOOLEAN
    BY <2>1 DEF SruTypeOK
  <2> QED
    BY <1>5, <1>7, <2>1, <2>3, <2>4 DEF SruSource!Next
<1>8. CASE conforming /\ EmptyResponse
  <2>1. reading /\ page = <<>> /\ ~noMore /\ next > size /\ readErr' = "eof" /\ cut' = cut
    BY <1>8 DEF EmptyResponse, Fetching, Stop
  <2>2. through = size
    BY <1>1, <1>8, <2>1 DEF NoGapNoRepeat, SruTypeOK, through
  <2>3. out' = out /\ Len(out) = Len(stream)
    BY <1>8, <2>2, FetchThrough DEF StreamSoFar
  <2>4. cut' \in BOOLEAN
    BY <2>1 DEF SruTypeOK
  <2> QED
    BY <1>5, <1>8, <2>1, <2>3, <2>4 DEF SruSource!Next
<1>9. CASE conforming /\ (RequestFails \/ CorruptRecord)
  <2>1. reading /\ readErr' = "error" /\ out' = out /\ cut' = cut
    BY <1>9 DEF RequestFails, CorruptRecord, AtRecord, Fetching, Advance, Stop, paging
  <2>2. cut' \in BOOLEAN
    BY <2>1 DEF SruTypeOK
  <2> QED
    BY <1>5, <1>9, <2>1, <2>2 DEF SruSource!Next
<1>10. CASE conforming /\ (Read \/ SkipRecord \/ UNCHANGED sruVars)
  <2>1. out' = out /\ readErr' = readErr /\ cut' = cut
    BY <1>10 DEF Read, SkipRecord, Advance, sruVars, control, paging
  <2> QED
    BY <1>4, <1>10, <2>1
<1>11. CASE conforming /\ ConformingResponse
  <2>1. readErr' = readErr /\ readErr = "none"
    BY <1>11 DEF ConformingResponse, Fetching, control, StreamSoFar
  <2>2. out' = out
    BY <1>11, FetchThrough
  <2> QED
    BY <1>4, <1>11, <2>1, <2>2
<1>12. CASE OtherResponse
  BY <1>3, <1>12 DEF OtherResponse
<1> QED
  BY <1>3, <1>6, <1>7, <1>8, <1>9, <1>10, <1>11, <1>12 DEF SruNext, Step, Fetch

\* Over a server that keeps to the protocol, sru.Reader is a codex.RecordReader of
\* the MARCXML records of the result set: one at a time, in order, each once, up
\* to the first that does not decode, and io.EOF at their end (unless a page left
\* out both of its numbers) and once and for all.
THEOREM ReadsResultSet == SruSpec => StreamsResultSet
<1>1. SruInit => StreamSoFar
  <2> SUFFICES ASSUME SruInit PROVE StreamSoFar
    OBVIOUS
  <2>1. out = <<>> /\ readErr = "none"
    BY DEF SruInit
  <2>2. Len(page) = 0 /\ fetched = 0
    BY DEF SruInit
  <2>3. through = 0
    BY <2>2 DEF through
  <2> QED
    BY <2>1, <2>3, SelectSteps DEF StreamSoFar
<1>2. SruInit => SruSource!Init
  <2> SUFFICES ASSUME SruInit PROVE SruSource!Init
    OBVIOUS
  <2>1. size \in Nat
    BY SruAssumption DEF SruInit, size
  <2>2. Select(Readable, size) \in Seq(Nat)
    BY <2>1, SelectSteps
  <2> QED
    BY <2>2 DEF SruInit, SruSource!Init, IfConforming
<1> QED
  BY <1>1, <1>2, TypeCorrect, NeitherGapNorRepeat, EndOfResultSet, StreamStep, SourceStep, PTL
     DEF SruSpec, StreamsResultSet, SruSource!Spec
=============================================================================
