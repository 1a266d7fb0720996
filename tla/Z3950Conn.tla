------------------------------ MODULE Z3950Conn ------------------------------
(***************************************************************************)
(* One Z39.50 session of package z3950: a Conn (z3950/z3950.go) used by    *)
(* one goroutine, the contexts its calls are given, the goroutines that    *)
(* context.AfterFunc starts for them, the socket and the server at the     *)
(* other end.                                                              *)
(*                                                                         *)
(* A call is one roundTrip: it puts the context's deadline on the socket,  *)
(* registers a function that moves that deadline to "now" when the context *)
(* ends, writes one request and reads until co.buf holds one whole APDU.   *)
(* Z39.50 responses carry no request identifier here, so what pairs a      *)
(* response with its call is only the order on the wire.                   *)
(*                                                                         *)
(* A response travels as Parts pieces, because a Read returns whatever     *)
(* bytes have arrived.  Whole requests are written or none of one is.      *)
(***************************************************************************)
EXTENDS Naturals, Sequences

CONSTANTS
  Queries,      \* the queries a caller may search for
  NoQuery,      \* "the server holds no result set"
  Positions,    \* the record ranges a caller may Present
  Ctxs,         \* the contexts calls are made with
  EndingCtxs,   \* those that can end; the others are context.Background()
  DeadlineCtxs, \* those that end because of a deadline, or earlier if cancelled
  MaxCalls,     \* bound: calls made on the connection, Initialize included
  Parts,        \* pieces one response arrives in
  Forms         \* what a server may answer with, see Serve

ASSUME ConnAssumption ==
  /\ NoQuery \notin Queries
  /\ EndingCtxs \subseteq Ctxs
  /\ DeadlineCtxs \subseteq EndingCtxs
  /\ MaxCalls \in Nat \ {0}
  /\ Parts \in Nat \ {0}
  /\ Forms \subseteq {"ok", "diag", "undecodable", "unframed", "close"}

VARIABLES
  pc,       \* where the calling goroutine is in roundTrip
  nc,       \* Conn.nc: an open socket, a closed one, or the nil interface
  calls,    \* the calls made so far, in order: request and context
  ret,      \* how they returned, in the same order
  deadline, \* the socket's deadline: none, the current call's, or gone by
  ended,    \* contexts that are done
  timeUp,   \* deadline contexts whose instant has been reached
  armed,    \* the running call's AfterFunc is registered and has not started
  started,  \* goroutines AfterFunc has started that have not run yet
  buf,      \* Conn.buf: pieces read and not yet consumed
  toServer, \* requests in flight, as call numbers
  toClient, \* response pieces in flight
  up,       \* the server has not hung up
  rs        \* the server's default result set, as the query that made it

callerVars == <<pc, nc, calls, ret>>
ctxVars    == <<ended, timeUp>>
netVars    == <<toServer, toClient, up, rs>>
afterVars  == <<armed, started>>
vars       == <<callerVars, ctxVars, netVars, afterVars, deadline, buf>>

-----------------------------------------------------------------------------
InitReq       == [op |-> "init", arg |-> NoQuery]
SearchReq(q)  == [op |-> "search", arg |-> q]
PresentReq(p) == [op |-> "present", arg |-> p]
Requests == {InitReq} \cup {SearchReq(q) : q \in Queries}
                      \cup {PresentReq(p) : p \in Positions}

\* A response names the call it answers, what became of it, and the result
\* set it was computed from.
PDUs   == [call : 1..MaxCalls, form : Forms, rs : Queries \cup {NoQuery}]
Pieces == [pdu : PDUs, part : 1..Parts]
Split(pdu) == [i \in 1..Parts |-> [pdu |-> pdu, part |-> i]]

cur      == Len(calls)
cursCtx  == calls[cur].ctx
\* The outcome of a call that consumed no response, and of one that did, each
\* with whether the call's context was done by then (ctx.Err() # nil).
Failed(kind)   == [kind |-> kind, ctxDone |-> cursCtx \in ended]
Got(kind, pdu) == [kind |-> kind, ctxDone |-> cursCtx \in ended, pdu |-> pdu]
FailureKinds == {"unsent", "timeout", "eof", "unframed"}
AnswerKinds  == {"ok", "diag", "undecodable", "closed", "mismatch"}
Outcomes == [kind : FailureKinds, ctxDone : BOOLEAN]
              \cup [kind : AnswerKinds, ctxDone : BOOLEAN, pdu : PDUs]

Init ==
  /\ pc = "idle" /\ nc = "open" /\ calls = <<>> /\ ret = <<>>
  /\ deadline = "none" /\ ended = {} /\ timeUp = {}
  /\ armed = FALSE /\ started = 0
  /\ buf = <<>> /\ toServer = <<>> /\ toClient = <<>>
  /\ up = TRUE /\ rs = NoQuery

-----------------------------------------------------------------------------
\* The calling goroutine.

\* roundTrip replaces whatever deadline an earlier call left on the socket.
Begin(rq, c) ==
  /\ pc = "idle" /\ nc = "open" /\ cur < MaxCalls
  /\ calls' = Append(calls, [req |-> rq, ctx |-> c])
  /\ deadline' = CASE c \notin DeadlineCtxs -> "none"
                   [] c \in timeUp -> "past"
                   [] OTHER -> "pending"
  /\ pc' = "arm"
  /\ UNCHANGED <<nc, ret, ctxVars, netVars, afterVars, buf>>

\* Mutant: the context's end is not acted on.
Arm_NotRegistered ==
  /\ pc = "arm" /\ pc' = "write"
  /\ UNCHANGED <<nc, calls, ret, ctxVars, netVars, afterVars, deadline, buf>>

\* context.AfterFunc: a context that is already done starts the goroutine now.
Arm ==
  /\ pc = "arm"
  /\ IF cursCtx \in ended THEN started' = started + 1 /\ armed' = armed
                           ELSE armed' = TRUE /\ started' = started
  /\ pc' = "write"
  /\ UNCHANGED <<nc, calls, ret, ctxVars, netVars, deadline, buf>>

WriteRequest ==
  /\ pc = "write" /\ deadline # "past"
  /\ toServer' = Append(toServer, cur)
  /\ pc' = "read"
  /\ UNCHANGED <<nc, calls, ret, ctxVars, toClient, up, rs, deadline, afterVars, buf>>

\* Mutant: no deferred stop().
Return_WithoutStop(o) ==
  /\ ret' = Append(ret, o)
  /\ IF calls[cur].req.op = "init" /\ o.kind # "ok"
       THEN nc' = "closed" /\ pc' = "over"
       ELSE nc' = nc /\ pc' = "idle"
  /\ UNCHANGED <<calls, ctxVars, netVars, armed, started, deadline>>

\* Every return runs the deferred stop(), which keeps an armed function from
\* ever starting and does nothing about one that has started.  A failed
\* Initialize closes the socket and the caller never sees the Conn.
Return(o) ==
  /\ ret' = Append(ret, o)
  /\ armed' = FALSE
  /\ IF calls[cur].req.op = "init" /\ o.kind # "ok"
       THEN nc' = "closed" /\ pc' = "over"
       ELSE nc' = nc /\ pc' = "idle"
  /\ UNCHANGED <<calls, ctxVars, netVars, started, deadline>>

WriteFails ==
  /\ pc = "write" /\ (deadline = "past" \/ ~up)
  /\ Return(Failed("unsent"))
  /\ UNCHANGED buf

\* berSize on co.buf: not a BER element, or a whole one.
Unframed == buf # <<>> /\ Head(buf).pdu.form = "unframed"
HasPDU   == Len(buf) >= Parts /\ ~Unframed

ReadChunk ==
  /\ pc = "read" /\ ~HasPDU /\ ~Unframed /\ deadline # "past"
  /\ \E n \in 1..Len(toClient) :
       /\ buf' = buf \o SubSeq(toClient, 1, n)
       /\ toClient' = SubSeq(toClient, n + 1, Len(toClient))
  /\ UNCHANGED <<callerVars, ctxVars, toServer, up, rs, deadline, afterVars>>

\* Mutant: the bytes of an incomplete APDU are dropped, as in package sip2.
ReadFails_DropsBuffer ==
  /\ pc = "read" /\ ~HasPDU /\ ~Unframed
  /\ \/ deadline = "past" /\ Return(Failed("timeout"))
     \/ /\ deadline # "past" /\ ~up /\ toClient = <<>>
        /\ Return(Failed("eof"))
  /\ buf' = <<>>

\* A read past the deadline fails even when bytes are waiting.
ReadFails ==
  /\ pc = "read" /\ ~HasPDU /\ ~Unframed
  /\ \/ deadline = "past" /\ Return(Failed("timeout"))
     \/ /\ deadline # "past" /\ ~up /\ toClient = <<>>
        /\ Return(Failed("eof"))
  /\ UNCHANGED buf

FramingFails ==
  /\ pc = "read" /\ Unframed
  /\ Return(Failed("unframed"))
  /\ UNCHANGED buf

\* Mutant: the diagnostics of a response are not looked at.
OutcomeOf_NoDiagnostics(pdu) ==
  IF pdu.form = "undecodable" THEN "undecodable"
  ELSE IF pdu.form = "close" THEN "closed"
  ELSE IF calls[pdu.call].req.op # calls[cur].req.op THEN "mismatch"
  ELSE "ok"

\* What Connect, Search and Present make of the APDU roundTrip took: its type
\* is compared with the request's, nothing else ties the two together.
OutcomeOf(pdu) ==
  IF pdu.form = "undecodable" THEN "undecodable"
  ELSE IF pdu.form = "close" THEN "closed"
  ELSE IF calls[pdu.call].req.op # calls[cur].req.op THEN "mismatch"
  ELSE IF pdu.form = "diag" THEN "diag"
  ELSE "ok"

\* Mutant: the APDU stays in co.buf.
TakePDU_KeepsBuffer ==
  /\ pc = "read" /\ HasPDU
  /\ LET pdu == Head(buf).pdu IN Return(Got(OutcomeOf(pdu), pdu))
  /\ UNCHANGED buf

TakePDU ==
  /\ pc = "read" /\ HasPDU
  /\ LET pdu == Head(buf).pdu IN Return(Got(OutcomeOf(pdu), pdu))
  /\ buf' = SubSeq(buf, Parts + 1, Len(buf))

\* Conn.Close.  Its Close APDU is best effort and its answer is never read.
Close ==
  /\ pc = "idle" /\ nc = "open" /\ cur > 0
  /\ nc' = "nil" /\ pc' = "over"
  /\ UNCHANGED <<calls, ret, ctxVars, netVars, deadline, afterVars, buf>>

-----------------------------------------------------------------------------
\* Contexts, and the goroutine context.AfterFunc starts.

TimePasses(c) ==
  /\ c \in DeadlineCtxs \ timeUp
  /\ timeUp' = timeUp \cup {c}
  /\ deadline' = IF deadline = "pending" /\ cursCtx = c THEN "past" ELSE deadline
  /\ UNCHANGED <<callerVars, ended, netVars, afterVars, buf>>

\* Cancellation, or the context's own timer, which need not fire at the
\* instant the socket's does.
CtxEnds(c) ==
  /\ c \in EndingCtxs \ ended
  /\ ended' = ended \cup {c}
  /\ IF armed /\ cursCtx = c THEN armed' = FALSE /\ started' = started + 1
                              ELSE UNCHANGED afterVars
  /\ UNCHANGED <<callerVars, timeUp, netVars, deadline, buf>>

\* The function reads co.nc unsynchronised with the caller.  Once Close has
\* stored nil it finds either the old, closed socket or nil, and a method
\* call on a nil interface ends the program.
AfterFuncRuns ==
  /\ started > 0 /\ pc # "crashed"
  /\ started' = started - 1
  /\ deadline' = IF nc = "open" THEN "past" ELSE deadline
  /\ pc' \in IF nc = "nil" THEN {pc, "crashed"} ELSE {pc}
  /\ UNCHANGED <<nc, calls, ret, ctxVars, netVars, armed, buf>>

-----------------------------------------------------------------------------
\* The server: requests in order, each answered once, until it hangs up.

Serve(form) ==
  /\ up /\ toServer # <<>>
  /\ LET k  == Head(toServer)
         rq == calls[k].req
         made == IF rq.op = "search" /\ form = "ok" THEN rq.arg ELSE rs
     IN /\ form = "ok" /\ rq.op = "present" => rs # NoQuery
        /\ rs' = made
        /\ toServer' = Tail(toServer)
        /\ toClient' = toClient \o Split([call |-> k, form |-> form, rs |-> made])
  /\ up' = (form # "close")
  /\ UNCHANGED <<callerVars, ctxVars, afterVars, deadline, buf>>

HangUp ==
  /\ up
  /\ up' = FALSE
  /\ UNCHANGED <<callerVars, ctxVars, toServer, toClient, rs, afterVars, deadline, buf>>

-----------------------------------------------------------------------------
\* A direct user of a Conn that Connect has returned makes any calls and then
\* closes it; Z3950Reader adds the Initialize call that Connect makes.
Start == \E c \in Ctxs, rq \in Requests \ {InitReq} : Begin(rq, c)

Roundtrip == Arm \/ WriteRequest \/ WriteFails \/ ReadChunk \/ ReadFails
               \/ FramingFails \/ TakePDU
Contexts == \E c \in EndingCtxs : TimePasses(c) \/ CtxEnds(c)
Server   == HangUp \/ \E form \in Forms : Serve(form)

\* Once the caller is through with the Conn only a started function can still
\* matter, so the rest of the world is left out of it.
Next == \/ Start \/ Roundtrip \/ Close
        \/ pc \notin {"over", "crashed"} /\ (Contexts \/ Server)
        \/ AfterFuncRuns

Spec == Init /\ [][Next]_vars

-----------------------------------------------------------------------------
\* Properties.

\* Every variable stays in its range, each call made has at most one outcome
\* and at most one AfterFunc, and only a running call's is registered.
TypeOK ==
  /\ pc \in {"idle", "arm", "write", "read", "over", "crashed"}
  /\ nc \in {"open", "closed", "nil"}
  /\ calls \in Seq([req : Requests, ctx : Ctxs]) /\ Len(calls) <= MaxCalls
  /\ ret \in Seq(Outcomes)
  /\ Len(ret) = IF pc \in {"arm", "write", "read"} THEN Len(calls) - 1 ELSE Len(calls)
  /\ deadline \in {"none", "pending", "past"}
  /\ ended \subseteq EndingCtxs /\ timeUp \subseteq DeadlineCtxs
  /\ armed \in BOOLEAN /\ (armed => pc \in {"write", "read"})
  /\ started \in 0..Len(calls)
  /\ buf \in Seq(Pieces) /\ toClient \in Seq(Pieces)
  /\ toServer \in Seq(1..MaxCalls)
  /\ up \in BOOLEAN /\ rs \in Queries \cup {NoQuery}

\* A call that gave up between its write and its answer leaves that answer to
\* come; the others (a failed write, a diagnostic) leave nothing behind.
Abandoned(k) == ret[k].kind = "timeout"

\* As long as no call on this Conn has been abandoned, every response a call
\* accepts or reports is the response to that call (Conn's doc: "the protocol
\* is strictly request/response").
InStepUntilAbandoned ==
  \A k \in DOMAIN ret :
    (ret[k].kind \in AnswerKinds /\ \A j \in 1..(k - 1) : ~Abandoned(j))
      => ret[k].pdu.call = k

\* And then Present reads the result set of the last Search that reported a
\* count, Search's "replacing the session's default result set".
PresentReadsLastSearch ==
  \A k \in DOMAIN ret :
    (/\ ret[k].kind = "ok" /\ calls[k].req.op = "present"
     /\ \A j \in 1..(k - 1) : ~Abandoned(j))
      => \E j \in 1..(k - 1) :
           /\ ret[j].kind = "ok" /\ calls[j].req = SearchReq(ret[k].pdu.rs)
           /\ \A i \in (j + 1)..(k - 1) : ~(ret[i].kind = "ok" /\ calls[i].req.op = "search")

\* Framing survives any failure: a partly read response stays in co.buf, so
\* the next piece to decode starts an APDU and every APDU is whole.
FramingKept ==
  LET inFlight == buf \o toClient
  IN inFlight # <<>> =>
       /\ inFlight[1].part = 1 /\ inFlight[Len(inFlight)].part = Parts
       /\ \A i \in 2..Len(inFlight) :
            IF inFlight[i].part = 1
              THEN inFlight[i - 1].part = Parts
              ELSE inFlight[i] = [pdu |-> inFlight[i - 1].pdu, part |-> inFlight[i - 1].part + 1]

\* A call times out only for its own context, or for an earlier call's that was
\* done before that call returned: a context cancelled once its call is over has
\* no way left to the socket.
TimeoutHasCause ==
  \A k \in DOMAIN ret :
    ret[k].kind = "timeout" => \/ calls[k].ctx \in ended \cup timeUp
                               \/ \E j \in 1..(k - 1) : ret[j].ctxDone
=============================================================================
