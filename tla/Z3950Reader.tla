----------------------------- MODULE Z3950Reader -----------------------------
(***************************************************************************)
(* z3950.Reader over the session of Z3950Conn: Read dials on first use,    *)
(* runs Initialize and Search, then fetches Present pages and hands out    *)
(* the records it can decode.  Every call is made with the one context     *)
(* NewReader was given, and any error closes the connection for good.      *)
(*                                                                         *)
(* Conn's requests are those of this reader: one query, and Present ranges *)
(* <<start, count>>.  The result set the server finds is any of Catalogs,  *)
(* given as the kind of each record in it.                                 *)
(***************************************************************************)
EXTENDS Z3950Conn, Integers, Selection

CONSTANTS
  Catalogs,  \* the result sets a search may find
  PageSize,  \* Client.pageSize()
  Query,     \* the reader's query
  Ctx        \* the reader's context

ASSUME ReaderAssumption ==
  /\ Catalogs \subseteq Seq({"marc", "surrogate", "text", "corrupt"})
  /\ PageSize \in Nat \ {0}
  /\ Query \in Queries /\ Ctx \in Ctxs
  /\ \A c \in Catalogs : \A first \in DOMAIN c, n \in 1..PageSize : <<first, n>> \in Positions

VARIABLES
  catalog,   \* the result set of the reader's search
  reading,   \* a Read call is in progress
  conn,      \* Reader.conn # nil
  total,     \* Reader.total
  next,      \* Reader.next
  page,      \* Reader.buf[i:], the positions of the records still buffered
  err,       \* Reader.err: "none", "eof" or "error"
  out,       \* positions of the records Read has returned
  cut        \* the server sent an empty page, or the caller closed early

readerVars == <<catalog, reading, conn, total, next, page, err, out, cut>>
allVars    == <<vars, readerVars>>

ReaderInit ==
  /\ Init /\ catalog \in Catalogs
  /\ reading = FALSE /\ conn = FALSE /\ total = -1 /\ next = 1
  /\ page = <<>> /\ err = "none" /\ out = <<>> /\ cut = FALSE

-----------------------------------------------------------------------------
Smaller(a, b) == IF a < b THEN a ELSE b

\* The outcome of the last call Read made and has not acted on yet: a call was
\* made and returned, and what to do next is not already decided by the page.
lastOp   == IF cur = 0 THEN "none" ELSE calls[cur].req.op
Answered == reading /\ page = <<>> /\ pc \in {"idle", "over"} /\ nc # "nil"
Succeeded == cur > 0 /\ ret[cur].kind = "ok"

\* Mutant: fetch does not close the Conn whose Search failed.
CloseConn_OnlyKept == IF nc = "open" /\ conn THEN Close ELSE UNCHANGED vars

\* Reader.Close, also run by fail: the Conn is closed if Read has kept it.
\* A Conn whose Search failed was never kept, and fetch closes it itself.
CloseConn == IF nc = "open" /\ cur > 0 THEN Close ELSE UNCHANGED vars

Fail(e) ==
  /\ err' = e /\ reading' = FALSE /\ conn' = FALSE
  /\ CloseConn
  /\ UNCHANGED <<catalog, total, next, page, out>>

\* Read: a sticky error is returned without doing anything, so Read matters
\* only while there is none.
Read ==
  /\ ~reading /\ err = "none" /\ pc # "crashed"
  /\ reading' = TRUE
  /\ UNCHANGED <<vars, catalog, conn, total, next, page, err, out, cut>>

\* The loop over the page, by the kind of the record at its head.
AtRecord(kinds) ==
  reading /\ page # <<>> /\ pc # "crashed" /\ catalog[Head(page)] \in kinds

SkipRecord ==
  /\ AtRecord({"surrogate", "text"})
  /\ page' = Tail(page)
  /\ UNCHANGED <<vars, catalog, reading, conn, total, next, err, out, cut>>

DeliverRecord ==
  /\ AtRecord({"marc"})
  /\ page' = Tail(page) /\ out' = Append(out, Head(page)) /\ reading' = FALSE
  /\ UNCHANGED <<vars, catalog, conn, total, next, err, cut>>

RecordFails ==
  /\ AtRecord({"corrupt"})
  /\ Fail("error") /\ UNCHANGED cut

\* fetch: Connect.
Dial ==
  /\ Answered /\ cur = 0
  /\ \/ Begin(InitReq, Ctx) /\ UNCHANGED readerVars
     \/ Fail("error") /\ UNCHANGED cut

\* fetch: Search, once Initialize has succeeded.
Search ==
  /\ Answered /\ lastOp = "init" /\ Succeeded
  /\ Begin(SearchReq(Query), Ctx)
  /\ UNCHANGED readerVars

SearchDone ==
  /\ Answered /\ lastOp = "search" /\ Succeeded /\ ~conn
  /\ conn' = TRUE /\ total' = Len(catalog)
  /\ UNCHANGED <<vars, catalog, reading, next, page, err, out, cut>>

\* Mutant: a failed call is made again on the same Conn.
CallFails_Retried ==
  /\ Answered /\ cur > 0 /\ ~Succeeded
  /\ Begin(calls[cur].req, Ctx)
  /\ UNCHANGED readerVars

CallFails ==
  /\ Answered /\ cur > 0 /\ ~Succeeded
  /\ Fail("error") /\ UNCHANGED cut

\* fetch: the next page, of as many records as there can still be.
Exhausted ==
  /\ Answered /\ conn /\ Succeeded /\ next > total
  /\ Fail("eof") /\ UNCHANGED cut

\* The page last asked for has not been taken in yet.
pending == lastOp = "present" /\ calls[cur].req.arg[1] = next

PresentPage ==
  /\ Answered /\ conn /\ Succeeded /\ ~pending /\ next <= total
  /\ Begin(PresentReq(<<next, Smaller(PageSize, total - next + 1)>>), Ctx)
  /\ UNCHANGED readerVars

\* Mutant: the pager advances by what it asked for.
PageArrives_AsAsked ==
  /\ Answered /\ Succeeded /\ pending
  /\ \E n \in 1..(total - next + 1) :
       page' = [i \in 1..n |-> next + i - 1]
  /\ next' = next + PageSize
  /\ UNCHANGED <<vars, catalog, reading, conn, total, err, out, cut>>

\* The records of the page.  A server may return fewer than asked for, or more,
\* and fetch counts what came.
PageArrives ==
  /\ Answered /\ Succeeded /\ pending
  /\ \E n \in 1..(total - next + 1) :
       /\ page' = [i \in 1..n |-> next + i - 1]
       /\ next' = next + n
  /\ UNCHANGED <<vars, catalog, reading, conn, total, err, out, cut>>

\* A page without records ends the stream with io.EOF, short of the total.
EmptyPage ==
  /\ Answered /\ Succeeded /\ pending
  /\ cut' = TRUE
  /\ Fail("eof")

\* Reader.Close between two Reads.
CloseReader ==
  /\ ~reading /\ err = "none" /\ pc # "crashed"
  /\ cut' = TRUE
  /\ Fail("eof")

ReadSteps == \/ SkipRecord \/ DeliverRecord \/ RecordFails \/ Dial \/ Search
             \/ SearchDone \/ CallFails \/ Exhausted \/ PresentPage
             \/ PageArrives \/ EmptyPage
ConnSteps    == Roundtrip /\ UNCHANGED readerVars
AfterFuncs   == AfterFuncRuns /\ UNCHANGED readerVars
Environment  == /\ pc \notin {"over", "crashed"} /\ (Contexts \/ Server)
                /\ UNCHANGED readerVars

ReaderNext == Read \/ ReadSteps \/ CloseReader \/ ConnSteps \/ AfterFuncs
                \/ Environment

ReaderSpec == ReaderInit /\ [][ReaderNext]_allVars

\* The reading goroutine and the AfterFunc goroutines run when they can.  What
\* ends a Read that waits for the server is either an answer or the context.
FairReaderSpec == /\ ReaderSpec
                  /\ WF_allVars(ReadSteps) /\ WF_allVars(ConnSteps)
                  /\ WF_allVars(AfterFuncs)

-----------------------------------------------------------------------------
\* Properties.

\* Ranges of the reader's variables, on top of the Conn's.
ReaderTypeOK ==
  /\ TypeOK /\ catalog \in Catalogs
  /\ reading \in BOOLEAN /\ conn \in BOOLEAN /\ cut \in BOOLEAN
  /\ total \in {-1, Len(catalog)} /\ next \in 1..(Len(catalog) + 1)
  /\ page \in Seq(1..Len(catalog)) /\ out \in Seq(1..Len(catalog))
  /\ err \in {"none", "eof", "error"}

\* The reader's stream: the MARC records of the result set up to the first that
\* does not decode.  It delivers each exactly once and in order over any paging,
\* and reports io.EOF only after all of them, an empty page or a Close.
Decodable == {i \in DOMAIN catalog :
                catalog[i] = "marc" /\ \A j \in 1..i : catalog[j] # "corrupt"}

Source == INSTANCE RecordSource WITH
            Streams <- Seq(Nat), stream <- Select(Decodable, Len(catalog)),
            delivered <- out, cut <- cut, end <- err
StreamsResultSet == Source!Spec

\* One failed call ends the session, so no Read ever sees the answer to another
\* request than its own, which a Conn alone does not give.
AnswersAreOwn == \A k \in DOMAIN ret : ret[k].kind \in AnswerKinds => ret[k].pdu.call = k

\* "The connection is ... closed automatically at the end of the result set or
\* on error": once Read has returned an error no socket is left open.
NoSocketLeft == (err # "none" /\ cur > 0) => nc # "open"

\* A Read in progress ends once the reader's context does, even if the server
\* never answers.
ReadEndsWithCtx == (reading /\ Ctx \in ended \cup timeUp) ~> (~reading \/ pc = "crashed")

\* Close is "safe to call at any time", and Read closes on error: neither ends
\* the program.
NoCrash == pc # "crashed"
=============================================================================
