------------------------------ MODULE SruReader ------------------------------
(***************************************************************************)
(* sru.Reader (sru/reader.go): Read hands out the MARCXML records of a     *)
(* searchRetrieve result set page by page.  A response is parsed into its  *)
(* records, NextRecordPosition (0 when absent) and NumberOfRecords (0 and  *)
(* not countKnown when absent); SRU lets a server leave either out, and    *)
(* fetch decides from what is there whether and where to go on.            *)
(*                                                                         *)
(* The HTTP exchange is one step with one of its results.  A conforming    *)
(* server sends the records from startRecord on, as many as it likes of    *)
(* those asked for; the numbers another server sends are arbitrary.        *)
(***************************************************************************)
EXTENDS Integers, Sequences, Selection

CONSTANTS
  Catalogs,    \* result sets, each the record schemas in it
  PageSize,    \* Client.maxRecords()
  MaxPages     \* bound: pages fetched from a server that does not

Kinds == {"marcxml", "other", "corrupt"}

ASSUME SruAssumption ==
  /\ Catalogs \subseteq Seq(Kinds)
  /\ PageSize \in Nat \ {0} /\ MaxPages \in Nat \ {0}

VARIABLES
  catalog,  \* the result set
  conforming, \* whether the server keeps to the protocol
  reading,  \* a Read call is in progress
  page,     \* Reader.buf[i:], as positions in the result set
  next,     \* Reader.next
  fetched,  \* Reader.fetched
  total,    \* Reader.total
  noMore,   \* Reader.done
  readErr,  \* Reader.err: "none", "eof" or "error"
  out,      \* positions of the records Read has returned
  cut,      \* a page left out both numbers though records remained
  pages     \* how many pages with records were fetched

control == <<reading, readErr>>
paging  == <<page, next, fetched, total, noMore, cut, pages>>
server  == <<catalog, conforming>>
sruVars == <<server, control, paging, out>>

size == Len(catalog)

SruInit ==
  /\ catalog \in Catalogs /\ conforming \in BOOLEAN
  /\ reading = FALSE /\ page = <<>> /\ next = 1 /\ fetched = 0 /\ total = -1
  /\ noMore = FALSE /\ readErr = "none" /\ out = <<>> /\ cut = FALSE /\ pages = 0

-----------------------------------------------------------------------------
\* Read, and its loop over the buffered page.
Read ==
  /\ ~reading /\ readErr = "none"
  /\ reading' = TRUE
  /\ UNCHANGED <<server, readErr, paging, out>>

AtRecord(kind) == reading /\ page # <<>> /\ catalog[Head(page)] = kind
Advance == page' = Tail(page)
           /\ UNCHANGED <<server, next, fetched, total, noMore, cut, pages>>

\* Mutant: a record in another schema is not stepped over.
SkipRecord_InPlace == AtRecord("other") /\ UNCHANGED sruVars

SkipRecord    == AtRecord("other") /\ Advance /\ UNCHANGED <<control, out>>
DeliverRecord == AtRecord("marcxml") /\ Advance /\ out' = Append(out, Head(page))
                   /\ reading' = FALSE /\ UNCHANGED readErr

Stop(e) == readErr' = e /\ reading' = FALSE

\* Mutant: a record that does not decode leaves no sticky error.
CorruptRecord_NotSticky == AtRecord("corrupt") /\ Advance
                           /\ reading' = FALSE /\ UNCHANGED <<readErr, out>>

CorruptRecord == AtRecord("corrupt") /\ Advance /\ Stop("error") /\ UNCHANGED out

-----------------------------------------------------------------------------
\* fetch
Fetching == reading /\ page = <<>>

Exhausted ==
  /\ Fetching /\ noMore
  /\ Stop("eof") /\ UNCHANGED <<server, paging, out>>

\* A transport or parse error, or diagnostics in place of records.
RequestFails ==
  /\ Fetching /\ ~noMore
  /\ Stop("error") /\ UNCHANGED <<server, paging, out>>

\* Mutants: the position named is taken as it is; the pager advances by what it
\* asked for; a page that names no position is the last.
Response_TrustsPosition(records, position, count) ==
  /\ total' = IF count >= 0 THEN count ELSE total
  /\ page' = records
  /\ fetched' = fetched + Len(records)
  /\ next' = position
  /\ noMore' = (noMore \/ records = <<>> \/ fetched' >= count)
  /\ UNCHANGED <<server, out>>
Response_ByPageSize(records, position, count) ==
  /\ total' = IF count >= 0 THEN count ELSE total
  /\ page' = records
  /\ fetched' = fetched + Len(records)
  /\ next' = IF records = <<>> THEN next
             ELSE IF position > next THEN position
             ELSE IF fetched' < count THEN next + PageSize ELSE next
  /\ noMore' = (noMore \/ records = <<>> \/ (position <= next /\ fetched' >= count))
  /\ UNCHANGED <<server, out>>
Response_NoFallback(records, position, count) ==
  /\ total' = IF count >= 0 THEN count ELSE total
  /\ page' = records
  /\ fetched' = fetched + Len(records)
  /\ next' = IF position > next THEN position ELSE next
  /\ noMore' = (noMore \/ records = <<>> \/ position <= next)
  /\ UNCHANGED <<server, out>>

\* A response: its records, the position it names next (0: none) and the count
\* it reports (-1: none).
Response(records, position, count) ==
  /\ total' = IF count >= 0 THEN count ELSE total
  /\ page' = records
  /\ fetched' = fetched + Len(records)
  /\ next' = IF records = <<>> THEN next
             ELSE IF position > next THEN position
             ELSE IF fetched' < count THEN next + Len(records) ELSE next
  /\ noMore' = (noMore \/ records = <<>> \/ (position <= next /\ fetched' >= count))
  /\ UNCHANGED <<server, out>>

\* No records, with or without the count: the end.
EmptyResponse ==
  /\ Fetching /\ ~noMore /\ (conforming => next > size)
  /\ \E count \in {-1, size} : Response(<<>>, 0, count)
  /\ Stop("eof") /\ UNCHANGED <<cut, pages>>

\* Records from startRecord on.  The next position is given only if there is
\* one, and a server that gives neither number cuts the stream short unseen.
ConformingResponse ==
  /\ Fetching /\ ~noMore /\ conforming /\ next <= size
  /\ \E n \in 1..PageSize, count \in {-1, size}, named \in BOOLEAN :
       LET more == next + n <= size
       IN /\ next + n - 1 <= size
          /\ Response([i \in 1..n |-> next + i - 1],
                      IF named /\ more THEN next + n ELSE 0, count)
          /\ cut' = (cut \/ (more /\ ~named /\ count = -1))
          /\ pages' = pages + 1
  /\ UNCHANGED control

\* Some records and any next position, with the count on all pages or on none.
OtherResponse ==
  /\ Fetching /\ ~noMore /\ ~conforming /\ pages < MaxPages
  /\ \E n \in 1..PageSize, position \in 0..(size + MaxPages) :
       /\ n <= size
       /\ \E count \in IF pages = 0 THEN {-1, size} ELSE {total} :
            Response([i \in 1..n |-> i], position, count)
  /\ cut' = TRUE /\ pages' = pages + 1
  /\ UNCHANGED control

Fetch == Exhausted \/ RequestFails \/ EmptyResponse \/ ConformingResponse
           \/ OtherResponse
Step == SkipRecord \/ DeliverRecord \/ CorruptRecord \/ Fetch
SruNext == Read \/ Step

SruSpec == SruInit /\ [][SruNext]_sruVars

\* Read runs to its end; an HTTP request ends, by the client's timeout or its
\* context if in no other way.
FairSruSpec == SruSpec /\ WF_sruVars(Step)

-----------------------------------------------------------------------------
\* Properties.

\* Ranges of the variables.
SruTypeOK ==
  /\ catalog \in Catalogs /\ conforming \in BOOLEAN /\ reading \in BOOLEAN
  /\ page \in Seq(1..size) /\ out \in Seq(1..size)
  /\ next \in Nat \ {0} /\ fetched \in Nat /\ total \in {-1, size}
  /\ noMore \in BOOLEAN /\ cut \in BOOLEAN /\ pages \in Nat
  /\ readErr \in {"none", "eof", "error"}

\* The pager neither repeats nor passes over a record, whichever of the two
\* numbers the pages carry: what was delivered, skipped or is still buffered is
\* exactly the records before the next one asked for, and Read has returned the
\* MARCXML ones among those it is through with, once each and in order.
through == fetched - Len(page)
NoGapNoRepeat ==
  conforming =>
    /\ fetched \in Len(page)..size
    /\ ~noMore => next = fetched + 1
    /\ \A i \in DOMAIN page : page[i] = through + i
    /\ \A k \in DOMAIN out : out[k] <= through
    /\ \A j, k \in DOMAIN out : j < k => out[j] < out[k]
    /\ \A i \in 1..through : catalog[i] = "marcxml" => \E k \in DOMAIN out : out[k] = i

\* io.EOF means the result set is exhausted: the reader stops only when every
\* record was received, unless a page named neither count nor next position.
EOFIsTheEnd == (conforming /\ noMore /\ ~cut) => fetched = size

\* As a codex.RecordReader over a conforming server it streams the MARCXML
\* records up to the first that does not decode.
Readable == {i \in DOMAIN catalog :
               catalog[i] = "marcxml" /\ \A j \in 1..i : catalog[j] # "corrupt"}
IfConforming(value, default) == IF conforming THEN value ELSE default
SruSource == INSTANCE RecordSource WITH
            Streams <- Seq(Nat), stream <- Select(Readable, size),
            delivered <- IfConforming(out, <<>>),
            cut <- IfConforming(cut /\ readErr # "none", FALSE),
            end <- IfConforming(readErr, "none")
StreamsResultSet == SruSource!Spec

\* A Read of a conforming server's result set returns.
ReadReturns == (reading /\ conforming) ~> ~reading
=============================================================================
