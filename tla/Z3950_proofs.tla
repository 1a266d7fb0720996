----------------------------- MODULE Z3950_proofs -----------------------------
(***************************************************************************)
(* Proofs about Z3950Conn and, from its invariant, about Z3950Reader, for  *)
(* all queries, contexts, numbers of calls and of pieces a response may    *)
(* arrive in, and for all result sets and page sizes.                      *)
(***************************************************************************)
EXTENDS Z3950Reader, SequenceTheorems, SelectionTheorems

\* All that has left the server and has not been taken, in order.
wire == buf \o toClient

-----------------------------------------------------------------------------
\* Type correctness.

\* The socket is given up only with the session, no more functions were
\* registered than calls made, and only calls that were made are on their way.
SessionOpen ==
  /\ nc # "open" => pc \in {"over", "crashed"}
  /\ started + (IF armed \/ pc = "arm" THEN 1 ELSE 0) <= Len(calls)
  /\ \A j \in 1..Len(toServer) : toServer[j] <= Len(calls)

Typed == TypeOK /\ SessionOpen

\* What a prefix or a suffix of a sequence holds is what the sequence held.
LEMMA PartOfSequence ==
  ASSUME NEW S, NEW s \in Seq(S), NEW n \in 0..Len(s)
  PROVE  /\ SubSeq(s, 1, n) \in Seq(S) /\ Len(SubSeq(s, 1, n)) = n
         /\ \A i \in 1..n : SubSeq(s, 1, n)[i] = s[i]
         /\ SubSeq(s, n + 1, Len(s)) \in Seq(S) /\ Len(SubSeq(s, n + 1, Len(s))) = Len(s) - n
         /\ \A i \in 1..(Len(s) - n) : SubSeq(s, n + 1, Len(s))[i] = s[i + n]
OBVIOUS

\* Three sequences make one, whichever two are joined first.
LEMMA Regroup ==
  ASSUME NEW S, NEW s \in Seq(S), NEW t \in Seq(S), NEW u \in Seq(S)
  PROVE  (s \o t) \o u = s \o (t \o u)
BY ConcatAssociative

\* A Search asks with a query.
LEMMA RequestType == \A rq \in Requests : rq.op = "search" => rq.arg \in Queries /\ rq = SearchReq(rq.arg)
BY DEF Requests, InitReq, SearchReq, PresentReq

\* A response in pieces.
LEMMA SplitType ==
  ASSUME NEW pdu \in PDUs
  PROVE  /\ Split(pdu) \in Seq(Pieces) /\ Len(Split(pdu)) = Parts
         /\ \A i \in 1..Parts : Split(pdu)[i].pdu = pdu /\ Split(pdu)[i].part = i
<1>1. Parts \in Nat
  BY ConnAssumption
<1>2. \A i \in 1..Parts : [pdu |-> pdu, part |-> i] \in Pieces
  BY DEF Pieces
<1>3. [i \in 1..Parts |-> [pdu |-> pdu, part |-> i]] \in [1..Parts -> Pieces]
  BY <1>2
<1> QED
  BY <1>1, <1>3 DEF Split

\* The APDU at the front of co.buf.
LEMMA FrontType ==
  ASSUME Typed, HasPDU
  PROVE  /\ buf \in Seq(Pieces) /\ Parts \in 0..Len(buf) /\ buf # <<>>
         /\ Head(buf) = buf[1] /\ Head(buf).pdu \in PDUs
<1>1. buf \in Seq(Pieces) /\ Len(buf) >= Parts /\ Parts \in Nat \ {0} /\ buf # <<>>
  BY ConnAssumption DEF Typed, TypeOK, HasPDU
<1>2. Head(buf) \in Pieces /\ Head(buf) = buf[1]
  BY <1>1, HeadTailProperties
<1> QED
  BY <1>1, <1>2 DEF Pieces

\* Both kinds of outcome are outcomes.
LEMMA OutcomeType ==
  /\ \A kind \in FailureKinds : Failed(kind) \in Outcomes
  /\ \A kind \in AnswerKinds, pdu \in PDUs : Got(kind, pdu) \in Outcomes
<1>1. (cursCtx \in ended) \in BOOLEAN
  OBVIOUS
<1> QED
  BY <1>1 DEF Failed, Got, Outcomes

\* Whatever Connect, Search and Present make of an APDU is an answer.
LEMMA OutcomeOfType == \A pdu : OutcomeOf(pdu) \in AnswerKinds
BY DEF OutcomeOf, AnswerKinds

\* Return ends a call with one outcome and nothing registered.
LEMMA ReturnType ==
  ASSUME Typed, NEW o \in Outcomes, pc \in {"write", "read"}, Return(o)
  PROVE  /\ pc' \in {"idle", "over"} /\ nc' \in {"open", "closed", "nil"}
         /\ ret' \in Seq(Outcomes) /\ Len(ret') = Len(calls) /\ Len(ret) = Len(calls) - 1
         /\ armed' = FALSE /\ calls' = calls /\ started' = started /\ deadline' = deadline
         /\ UNCHANGED <<ctxVars, netVars>>
         /\ SessionOpen'
<1>1. /\ calls' = calls /\ started' = started /\ deadline' = deadline /\ armed' = FALSE
      /\ UNCHANGED <<ctxVars, netVars>> /\ ret' = Append(ret, o)
  BY DEF Return
<1>2. ret \in Seq(Outcomes) /\ Len(ret) = Len(calls) - 1 /\ Len(calls) \in Nat /\ nc = "open"
      /\ started \in Nat /\ started <= Len(calls)
  BY DEF Typed, TypeOK, SessionOpen
<1>3. /\ nc' \in {"open", "closed"} /\ pc' \in {"idle", "over"}
      /\ nc' # "open" => pc' = "over"
  BY <1>2 DEF Return
<1>4. SessionOpen'
  BY <1>1, <1>2, <1>3 DEF SessionOpen, Typed, netVars
<1> QED
  BY <1>1, <1>2, <1>3, <1>4

\* A call that ends keeps the types if what it leaves in buf has them.
LEMMA ReturnKeepsTypes ==
  ASSUME Typed, NEW o \in Outcomes, pc \in {"write", "read"}, Return(o), buf' \in Seq(Pieces)
  PROVE  Typed'
<1>1. /\ pc' \in {"idle", "over"} /\ nc' \in {"open", "closed", "nil"}
      /\ ret' \in Seq(Outcomes) /\ Len(ret') = Len(calls)
      /\ armed' = FALSE /\ calls' = calls /\ started' = started /\ deadline' = deadline
      /\ UNCHANGED <<ctxVars, netVars>> /\ SessionOpen'
  BY ReturnType
<1> QED
  BY <1>1 DEF Typed, TypeOK, ctxVars, netVars

\* A call that begins, Initialize among them, keeps the types.
LEMMA TypeBegin ==
  ASSUME Typed, NEW c \in Ctxs, NEW rq \in Requests, Begin(rq, c)
  PROVE  Typed'
<1>0. MaxCalls \in Nat \ {0} /\ Parts \in Nat \ {0}
  BY ConnAssumption
<1> USE DEF Typed
<1>1. [req |-> rq, ctx |-> c] \in [req : Requests, ctx : Ctxs]
  OBVIOUS
<1>2. calls' \in Seq([req : Requests, ctx : Ctxs]) /\ Len(calls') = Len(calls) + 1 /\ Len(calls') <= MaxCalls
  BY <1>0, <1>1 DEF TypeOK, Begin, cur
<1>3. deadline' \in {"none", "pending", "past"}
  BY DEF Begin
<1>4. TypeOK'
  BY <1>2, <1>3 DEF TypeOK, Begin, ctxVars, netVars, afterVars
<1>5. SessionOpen'
  <2>1. /\ nc' # "open" => pc' \in {"over", "crashed"}
        /\ started' + (IF armed' \/ pc' = "arm" THEN 1 ELSE 0) <= Len(calls')
    BY <1>2 DEF TypeOK, SessionOpen, Begin, afterVars
  <2>2. \A j \in 1..Len(toServer) : toServer[j] \in Nat /\ toServer[j] <= Len(calls)
    BY <1>0 DEF TypeOK, SessionOpen
  <2>3. toServer' = toServer /\ Len(calls) \in Nat
    BY DEF Begin, netVars, TypeOK
  <2> QED
    BY <1>2, <2>1, <2>2, <2>3 DEF SessionOpen
<1> QED
  BY <1>4, <1>5

\* Type correctness is preserved by every step.
LEMMA TypeStep == Typed /\ [Next]_vars => Typed'
<1> SUFFICES ASSUME Typed, [Next]_vars PROVE Typed'
  OBVIOUS
<1>0. MaxCalls \in Nat \ {0} /\ Parts \in Nat \ {0} /\ DeadlineCtxs \subseteq EndingCtxs /\ EndingCtxs \subseteq Ctxs
  BY ConnAssumption
<1> USE DEF Typed
<1>1. ASSUME NEW c \in Ctxs, NEW rq \in Requests \ {InitReq}, Begin(rq, c) PROVE Typed'
  BY <1>1, TypeBegin
<1>2. CASE Arm
  <2>1. /\ calls' = calls /\ ret' = ret /\ nc' = nc /\ deadline' = deadline /\ buf' = buf
        /\ ended' = ended /\ timeUp' = timeUp /\ toServer' = toServer /\ toClient' = toClient
        /\ up' = up /\ rs' = rs /\ pc = "arm" /\ pc' = "write"
    BY <1>2 DEF Arm, ctxVars, netVars
  <2>2. started \in Nat /\ started + 1 <= Len(calls) /\ armed = FALSE /\ Len(calls) \in Nat
    BY <2>1 DEF TypeOK, SessionOpen
  <2>3. \/ started' = started + 1 /\ armed' = FALSE
        \/ started' = started /\ armed' = TRUE
    BY <1>2, <2>2 DEF Arm
  <2>4. started' \in 0..Len(calls) /\ armed' \in BOOLEAN
    <3>1. started' = started + 1 \/ started' = started
      BY <2>3
    <3>2. started' \in 0..Len(calls)
      BY <2>2, <3>1
    <3>3. armed' \in BOOLEAN
      BY <2>3, Zenon
    <3> QED
      BY <3>2, <3>3
  <2>5. started' + (IF armed' \/ pc' = "arm" THEN 1 ELSE 0) <= Len(calls)
    BY <2>1, <2>2, <2>3
  <2> QED
    BY <2>1, <2>4, <2>5 DEF TypeOK, SessionOpen
<1>3. CASE WriteRequest
  <2>1. cur \in 1..MaxCalls
    BY <1>0, <1>3 DEF TypeOK, WriteRequest, cur
  <2>2. toServer' \in Seq(1..MaxCalls)
    BY <1>3, <2>1 DEF TypeOK, WriteRequest
  <2>3. \A j \in 1..Len(toServer') : toServer'[j] <= Len(calls)
    <3>1. toServer \in Seq(1..MaxCalls) /\ toServer' = Append(toServer, cur) /\ cur = Len(calls) /\ Len(calls) \in Nat
      BY <1>3 DEF TypeOK, WriteRequest, cur
    <3>2. /\ Len(toServer') = Len(toServer) + 1 /\ Len(toServer) \in Nat
          /\ toServer'[Len(toServer) + 1] = cur
          /\ \A j \in 1..Len(toServer) : toServer'[j] = toServer[j]
      BY <2>1, <3>1, AppendProperties
    <3>3. \A j \in 1..Len(toServer) : toServer[j] <= Len(calls)
      BY DEF SessionOpen
    <3> HIDE DEF cur
    <3>4. \A j \in 1..Len(toServer') : j = Len(toServer) + 1 \/ j \in 1..Len(toServer)
      BY <3>2
    <3> QED
      BY <3>1, <3>2, <3>3, <3>4
  <2> QED
    BY <1>3, <2>2, <2>3 DEF TypeOK, SessionOpen, WriteRequest, ctxVars, afterVars
<1>4. CASE WriteFails
  <2>1. Return(Failed("unsent")) /\ Failed("unsent") \in Outcomes
    BY <1>4, OutcomeType DEF WriteFails, FailureKinds
  <2>2. buf' \in Seq(Pieces)
    BY <1>4 DEF WriteFails, TypeOK
  <2> QED
    BY <1>4, <2>1, <2>2, ReturnKeepsTypes DEF WriteFails
<1>5. CASE ReadChunk
  <2>1. PICK n \in 1..Len(toClient) :
          /\ buf' = buf \o SubSeq(toClient, 1, n)
          /\ toClient' = SubSeq(toClient, n + 1, Len(toClient))
    BY <1>5 DEF ReadChunk
  <2>2. buf \in Seq(Pieces) /\ toClient \in Seq(Pieces) /\ n \in 0..Len(toClient)
    BY <2>1 DEF TypeOK
  <2>3. SubSeq(toClient, 1, n) \in Seq(Pieces) /\ toClient' \in Seq(Pieces)
    BY <2>1, <2>2, PartOfSequence
  <2>4. buf' \in Seq(Pieces)
    BY <2>1, <2>2, <2>3
  <2> QED
    BY <1>5, <2>3, <2>4 DEF TypeOK, SessionOpen, ReadChunk, callerVars, ctxVars, afterVars
<1>6. CASE ReadFails
  <2>1. PICK kind \in {"timeout", "eof"} : Return(Failed(kind))
    BY <1>6 DEF ReadFails
  <2>2. Failed(kind) \in Outcomes
    BY OutcomeType DEF FailureKinds
  <2>3. buf' \in Seq(Pieces) /\ pc = "read"
    BY <1>6 DEF ReadFails, TypeOK
  <2> QED
    BY <2>1, <2>2, <2>3, ReturnKeepsTypes
<1>7. CASE FramingFails
  <2>1. Return(Failed("unframed")) /\ Failed("unframed") \in Outcomes
    BY <1>7, OutcomeType DEF FramingFails, FailureKinds
  <2>2. buf' \in Seq(Pieces) /\ pc = "read"
    BY <1>7 DEF FramingFails, TypeOK
  <2> QED
    BY <2>1, <2>2, ReturnKeepsTypes
<1>8. CASE TakePDU
  <2> DEFINE pdu == Head(buf).pdu
  <2>1. buf \in Seq(Pieces) /\ Len(buf) >= Parts /\ Parts \in 0..Len(buf) /\ buf # <<>>
    BY <1>0, <1>8 DEF TypeOK, TakePDU, HasPDU
  <2>2. pdu \in PDUs
    <3>1. Head(buf) \in Pieces
      BY <2>1, HeadTailProperties
    <3> QED
      BY <3>1 DEF Pieces
  <2>3. Got(OutcomeOf(pdu), pdu) \in Outcomes
    BY <2>2, OutcomeType, OutcomeOfType
  <2>4. buf' \in Seq(Pieces)
    BY <1>8, <2>1, PartOfSequence DEF TakePDU
  <2>5. Return(Got(OutcomeOf(pdu), pdu)) /\ pc = "read"
    BY <1>8 DEF TakePDU
  <2> QED
    BY <2>3, <2>4, <2>5, ReturnKeepsTypes
<1>9. CASE Close
  BY <1>9 DEF TypeOK, SessionOpen, Close, ctxVars, netVars, afterVars
<1>10. ASSUME NEW c \in EndingCtxs, TimePasses(c) PROVE Typed'
  BY <1>10 DEF TypeOK, SessionOpen, TimePasses, callerVars, netVars, afterVars
<1>11. ASSUME NEW c \in EndingCtxs, CtxEnds(c) PROVE Typed'
  <2>1. /\ calls' = calls /\ ret' = ret /\ nc' = nc /\ deadline' = deadline /\ buf' = buf
        /\ timeUp' = timeUp /\ toServer' = toServer /\ toClient' = toClient
        /\ up' = up /\ rs' = rs /\ pc' = pc /\ ended' = ended \cup {c}
    BY <1>11 DEF CtxEnds, callerVars, netVars
  <2>2. started \in Nat /\ Len(calls) \in Nat /\ started + (IF armed \/ pc = "arm" THEN 1 ELSE 0) <= Len(calls)
        /\ armed \in BOOLEAN
    BY DEF TypeOK, SessionOpen
  <2>3. \/ started' = started + 1 /\ armed = TRUE /\ armed' = FALSE /\ pc # "arm"
        \/ started' = started /\ armed' = armed
    BY <1>11 DEF CtxEnds, afterVars, TypeOK
  <2>4. started' \in 0..Len(calls) /\ armed' \in BOOLEAN /\ (armed' => armed)
    <3>1. armed' \in BOOLEAN /\ (armed' => armed)
      <4>1. armed \in BOOLEAN
        BY DEF TypeOK
      <4>2. (armed = TRUE /\ armed' = FALSE) \/ armed' = armed
        BY <2>3
      <4> QED
        <5>1. CASE armed = TRUE /\ armed' = FALSE
          BY <5>1
        <5>2. CASE armed' = armed
          BY <4>1, <5>2
        <5> QED
          BY <4>2, <5>1, <5>2
    <3>2. started + 1 <= Len(calls) \/ started' = started
      BY <2>2, <2>3
    <3>3. started' = started + 1 \/ started' = started
      BY <2>3
    <3>4. started <= Len(calls)
      BY DEF TypeOK
    <3>5. started' \in 0..Len(calls)
      BY <2>2, <3>2, <3>3, <3>4
    <3> QED
      BY <3>1, <3>5
  <2>5. started' + (IF armed' \/ pc' = "arm" THEN 1 ELSE 0) <= Len(calls)
    BY <2>1, <2>2, <2>3
  <2> QED
    BY <2>1, <2>4, <2>5 DEF TypeOK, SessionOpen
<1>12. ASSUME NEW form \in Forms, Serve(form) PROVE Typed'
  <2> DEFINE k == Head(toServer)
             rq == calls[k].req
             made == IF rq.op = "search" /\ form = "ok" THEN rq.arg ELSE rs
             pdu == [call |-> k, form |-> form, rs |-> made]
  <2>1. toServer \in Seq(1..MaxCalls) /\ toServer # <<>>
    BY <1>12 DEF TypeOK, Serve
  <2>2. k \in 1..MaxCalls /\ toServer' \in Seq(1..MaxCalls)
    BY <1>12, <2>1, HeadTailProperties DEF Serve
  <2>3. k = toServer[1] /\ Len(toServer) \in Nat \ {0} /\ k \in DOMAIN calls
    BY <2>1, <2>2, EmptySeq DEF TypeOK, SessionOpen
  <2>4. rq \in Requests
    <3>1. calls \in Seq([req : Requests, ctx : Ctxs]) /\ k \in 1..Len(calls)
      BY <2>3 DEF TypeOK
    <3>2. calls[k] \in [req : Requests, ctx : Ctxs]
      BY <3>1, ElementOfSeq
    <3> QED
      BY <3>2
  <2>5. made \in Queries \cup {NoQuery}
    BY <2>4, RequestType DEF TypeOK
  <2>6. pdu \in PDUs
    BY <2>2, <2>5 DEF PDUs
  <2>7. /\ rs' = made /\ toServer' = Tail(toServer) /\ toClient' = toClient \o Split(pdu)
        /\ up' = (form # "close") /\ UNCHANGED <<callerVars, ctxVars, afterVars, deadline, buf>>
    BY <1>12 DEF Serve
  <2> HIDE DEF pdu, made
  <2>8. toClient' \in Seq(Pieces)
    BY <2>6, <2>7, SplitType DEF TypeOK
  <2>9. up' \in BOOLEAN
    BY <2>7
  <2>10. TypeOK'
    BY <2>2, <2>5, <2>7, <2>8, <2>9 DEF TypeOK, callerVars, ctxVars, afterVars
  <2>11. \A j \in 1..Len(toServer') : toServer'[j] = toServer[j + 1] /\ j + 1 \in 1..Len(toServer)
    BY <2>1, <2>7, HeadTailProperties
  <2>12. SessionOpen'
    BY <2>7, <2>11 DEF SessionOpen, callerVars, afterVars
  <2> QED
    BY <2>10, <2>12
<1>13. CASE HangUp
  BY <1>13 DEF TypeOK, SessionOpen, HangUp, callerVars, ctxVars, afterVars
<1>14. CASE AfterFuncRuns
  BY <1>14 DEF TypeOK, SessionOpen, AfterFuncRuns, ctxVars, netVars
<1>15. CASE UNCHANGED vars
  BY <1>15 DEF TypeOK, SessionOpen, vars, callerVars, ctxVars, netVars, afterVars
<1> QED
  BY <1>1, <1>2, <1>3, <1>4, <1>5, <1>6, <1>7, <1>8, <1>9, <1>10, <1>11, <1>12, <1>13, <1>14, <1>15
     DEF Next, Start, Roundtrip, Contexts, Server

\* A new session is well formed.
LEMMA TypeInit == Init => Typed
<1> SUFFICES ASSUME Init PROVE Typed
  OBVIOUS
<1>1. MaxCalls \in Nat /\ calls = <<>> /\ ret = <<>> /\ buf = <<>> /\ toServer = <<>> /\ toClient = <<>>
  BY ConnAssumption DEF Init
<1>2. Len(calls) = 0 /\ Len(ret) = 0 /\ Len(toServer) = 0
  BY <1>1
<1>3. /\ calls \in Seq([req : Requests, ctx : Ctxs]) /\ ret \in Seq(Outcomes)
      /\ buf \in Seq(Pieces) /\ toClient \in Seq(Pieces) /\ toServer \in Seq(1..MaxCalls)
  BY <1>1
<1>4. started \in 0..Len(calls) /\ Len(calls) <= MaxCalls
  BY <1>1, <1>2 DEF Init
<1>5. Len(ret) = IF pc \in {"arm", "write", "read"} THEN Len(calls) - 1 ELSE Len(calls)
  BY <1>2 DEF Init
<1>6. TypeOK
  BY <1>3, <1>4, <1>5 DEF Init, TypeOK
<1>7. SessionOpen
  BY <1>2 DEF Init, SessionOpen
<1> QED
  BY <1>6, <1>7 DEF Typed

\* The fields of a Conn, its outcomes and what is on the socket keep to their
\* ranges; of its calls only the running one has a function registered, and each
\* had at most one (z3950/z3950.go).
THEOREM TypeCorrect == Spec => []TypeOK
<1>1. Typed => TypeOK
  BY DEF Typed
<1> QED
  BY <1>1, TypeInit, TypeStep, PTL DEF Spec
-----------------------------------------------------------------------------
\* Why a call times out.

\* A call returned when its context was done.
DoneBefore == \E j \in 1..Len(ret) : ret[j].ctxDone = TRUE

\* What can have put the socket's deadline in the past, and what started the
\* functions that may still do it.
DeadlineHasCause ==
  /\ pc \in {"arm", "write", "read"} /\ deadline = "past"
       => cursCtx \in ended \cup timeUp \/ DoneBefore
  /\ started > 0 => DoneBefore \/ (pc \in {"write", "read"} /\ cursCtx \in ended)

\* A deadline without a cause is never made by a step that ends no call.
LEMMA CauseKept ==
  ASSUME Typed, DeadlineHasCause, TimeoutHasCause, ret' = ret,
         calls' = calls, ended \subseteq ended', timeUp \subseteq timeUp'
  PROVE  /\ DoneBefore' <=> DoneBefore
         /\ TimeoutHasCause'
         /\ cursCtx' = cursCtx
<1>1. \A k \in DOMAIN ret : ret[k].kind = "timeout" =>
        calls[k].ctx \in ended' \cup timeUp' \/ \E j \in 1..(k - 1) : ret[j].ctxDone
  BY DEF TimeoutHasCause
<1> QED
  BY <1>1 DEF DoneBefore, TimeoutHasCause, cursCtx, cur

\* Nor by the end of a call: one that times out had the cause.
LEMMA CauseAtReturn ==
  ASSUME Typed, DeadlineHasCause, TimeoutHasCause, pc \in {"write", "read"},
         NEW o \in Outcomes, Return(o), o.ctxDone = (cursCtx \in ended),
         o.kind = "timeout" => deadline = "past"
  PROVE  DeadlineHasCause' /\ TimeoutHasCause'
<1> DEFINE n == Len(ret)
<1>1. /\ ret \in Seq(Outcomes) /\ ret' = Append(ret, o) /\ calls' = calls /\ ended' = ended
      /\ timeUp' = timeUp /\ started' = started /\ n = cur - 1 /\ pc' \notin {"arm", "write", "read"}
  BY ReturnType DEF Return, Typed, TypeOK, ctxVars, cur
<1>2. /\ n \in Nat /\ Len(ret') = n + 1 /\ ret'[n + 1] = o
      /\ \A j \in 1..n : ret'[j] = ret[j]
  BY <1>1, AppendProperties
<1>3. ret' \in Seq(Outcomes) /\ cur \in Nat /\ cur = n + 1
  BY <1>1, <1>2 DEF Typed, TypeOK, cur
<1>4. DoneBefore => DoneBefore'
  BY <1>2 DEF DoneBefore
<1>5. cursCtx \in ended => DoneBefore'
  <2>1. cursCtx \in ended => ret'[n + 1].ctxDone = TRUE
    BY <1>2
  <2>2. n + 1 \in 1..Len(ret')
    BY <1>2
  <2> QED
    BY <2>1, <2>2 DEF DoneBefore
<1>6. DeadlineHasCause'
  BY <1>1, <1>4, <1>5 DEF DeadlineHasCause
<1>7. ASSUME NEW k \in DOMAIN ret', ret'[k].kind = "timeout"
      PROVE  calls[k].ctx \in ended \cup timeUp \/ \E j \in 1..(k - 1) : ret'[j].ctxDone
  <2>1. k \in 1..n \/ k = n + 1
    BY <1>2, <1>3
  <2>2. CASE k \in 1..n
    <3>1. calls[k].ctx \in ended \cup timeUp \/ \E j \in 1..(k - 1) : ret[j].ctxDone
      BY <1>1, <1>2, <1>7, <2>2 DEF TimeoutHasCause
    <3>2. \A j \in 1..(k - 1) : j \in 1..n
      BY <1>2, <2>2
    <3> QED
      BY <1>2, <3>1, <3>2
  <2>3. CASE k = n + 1
    <3>1. deadline = "past"
      BY <1>2, <1>7, <2>3
    <3>2. cursCtx = calls[k].ctx
      BY <1>3, <2>3 DEF cursCtx
    <3>3. calls[k].ctx \in ended \cup timeUp \/ DoneBefore
      BY <3>1, <3>2 DEF DeadlineHasCause
    <3>4. DoneBefore => \E j \in 1..(k - 1) : ret'[j].ctxDone
      BY <1>2, <2>3 DEF DoneBefore
    <3> QED
      BY <3>3, <3>4
  <2> QED
    BY <2>1, <2>2, <2>3
<1> QED
  BY <1>1, <1>6, <1>7 DEF TimeoutHasCause

\* Every step keeps to its cause.
LEMMA CauseStep ==
  Typed /\ DeadlineHasCause /\ TimeoutHasCause /\ [Next]_vars => DeadlineHasCause' /\ TimeoutHasCause'
<1> SUFFICES ASSUME Typed, DeadlineHasCause, TimeoutHasCause, [Next]_vars
             PROVE  DeadlineHasCause' /\ TimeoutHasCause'
  OBVIOUS
<1>0. started \in Nat /\ calls \in Seq([req : Requests, ctx : Ctxs]) /\ Len(calls) \in Nat
  BY DEF Typed, TypeOK
<1>1. ASSUME NEW c \in Ctxs, NEW rq \in Requests \ {InitReq}, Begin(rq, c)
      PROVE  DeadlineHasCause' /\ TimeoutHasCause'
  <2>1. /\ ret' = ret /\ ended' = ended /\ timeUp' = timeUp /\ started' = started
        /\ calls' = Append(calls, [req |-> rq, ctx |-> c]) /\ pc = "idle" /\ pc' = "arm"
    BY <1>1 DEF Begin, ctxVars, afterVars
  <2>2. [req |-> rq, ctx |-> c] \in [req : Requests, ctx : Ctxs]
    OBVIOUS
  <2>3. /\ Len(calls') = Len(calls) + 1 /\ calls'[Len(calls) + 1] = [req |-> rq, ctx |-> c]
        /\ \A j \in 1..Len(calls) : calls'[j] = calls[j]
    BY <1>0, <2>1, <2>2, AppendProperties
  <2>4. cursCtx' = c
    BY <2>3 DEF cursCtx, cur
  <2>5. DoneBefore' <=> DoneBefore
    BY <2>1 DEF DoneBefore
  <2>6. deadline' = "past" => c \in timeUp
    BY <1>1 DEF Begin
  <2>7. DeadlineHasCause'
    BY <2>1, <2>4, <2>5, <2>6 DEF DeadlineHasCause
  <2>8. \A k \in DOMAIN ret : calls'[k] = calls[k]
    BY <2>1, <2>3 DEF Typed, TypeOK
  <2> QED
    BY <2>1, <2>7, <2>8 DEF TimeoutHasCause
<1>2. CASE Arm
  <2>1. /\ ret' = ret /\ ended' = ended /\ timeUp' = timeUp /\ calls' = calls
        /\ deadline' = deadline /\ pc = "arm" /\ pc' = "write"
        /\ started' = started \/ cursCtx \in ended
    BY <1>2 DEF Arm, ctxVars
  <2>2. (DoneBefore' <=> DoneBefore) /\ TimeoutHasCause' /\ cursCtx' = cursCtx
    BY <2>1, CauseKept
  <2> QED
    BY <2>1, <2>2 DEF DeadlineHasCause
<1>3. CASE WriteRequest
  <2>1. /\ ret' = ret /\ ended' = ended /\ timeUp' = timeUp /\ calls' = calls
        /\ deadline' = deadline /\ pc = "write" /\ pc' = "read" /\ started' = started
    BY <1>3 DEF WriteRequest, ctxVars, afterVars
  <2>2. (DoneBefore' <=> DoneBefore) /\ TimeoutHasCause' /\ cursCtx' = cursCtx
    BY <2>1, CauseKept
  <2> QED
    BY <2>1, <2>2 DEF DeadlineHasCause
<1>4. ASSUME NEW kind \in FailureKinds, Return(Failed(kind)), pc \in {"write", "read"},
             kind = "timeout" => deadline = "past"
      PROVE  DeadlineHasCause' /\ TimeoutHasCause'
  <2>1. Failed(kind) \in Outcomes
    BY OutcomeType
  <2>2. Failed(kind).ctxDone = (cursCtx \in ended) /\ Failed(kind).kind = kind
    BY DEF Failed
  <2> QED
    BY <1>4, <2>1, <2>2, CauseAtReturn
<1>5. CASE WriteFails
  BY <1>4, <1>5 DEF WriteFails, FailureKinds
<1>6. CASE ReadFails
  BY <1>4, <1>6 DEF ReadFails, FailureKinds
<1>7. CASE FramingFails
  BY <1>4, <1>7 DEF FramingFails, FailureKinds
<1>8. CASE TakePDU
  <2> DEFINE pdu == Head(buf).pdu
             o == Got(OutcomeOf(pdu), pdu)
  <2>1. Return(o) /\ pc = "read" /\ HasPDU
    BY <1>8 DEF TakePDU
  <2>2. pdu \in PDUs
    BY <2>1, FrontType
  <2>3. o \in Outcomes
    BY <2>2, OutcomeType, OutcomeOfType
  <2>4. o.ctxDone = (cursCtx \in ended) /\ o.kind \in AnswerKinds
    BY OutcomeOfType DEF Got
  <2>5. o.kind # "timeout"
    BY <2>4 DEF AnswerKinds
  <2> HIDE DEF o
  <2> QED
    BY <2>1, <2>3, <2>4, <2>5, CauseAtReturn
<1>9. CASE ReadChunk
  <2>1. /\ ret' = ret /\ ended' = ended /\ timeUp' = timeUp /\ calls' = calls
        /\ deadline' = deadline /\ pc' = pc /\ started' = started
    BY <1>9 DEF ReadChunk, callerVars, ctxVars, afterVars
  <2>2. (DoneBefore' <=> DoneBefore) /\ TimeoutHasCause' /\ cursCtx' = cursCtx
    BY <2>1, CauseKept
  <2> QED
    BY <2>1, <2>2 DEF DeadlineHasCause
<1>10. CASE Close
  <2>1. /\ ret' = ret /\ ended' = ended /\ timeUp' = timeUp /\ calls' = calls
        /\ deadline' = deadline /\ pc = "idle" /\ pc' = "over" /\ started' = started
    BY <1>10 DEF Close, ctxVars, afterVars
  <2>2. (DoneBefore' <=> DoneBefore) /\ TimeoutHasCause' /\ cursCtx' = cursCtx
    BY <2>1, CauseKept
  <2> QED
    BY <2>1, <2>2 DEF DeadlineHasCause
<1>11. ASSUME NEW c \in EndingCtxs, TimePasses(c) PROVE DeadlineHasCause' /\ TimeoutHasCause'
  <2>1. /\ ret' = ret /\ ended' = ended /\ timeUp' = timeUp \cup {c} /\ calls' = calls
        /\ pc' = pc /\ started' = started
        /\ deadline' = deadline \/ cursCtx = c
    BY <1>11 DEF TimePasses, callerVars, afterVars
  <2>2. (DoneBefore' <=> DoneBefore) /\ TimeoutHasCause' /\ cursCtx' = cursCtx
    BY <2>1, CauseKept
  <2> QED
    BY <2>1, <2>2 DEF DeadlineHasCause
<1>12. ASSUME NEW c \in EndingCtxs, CtxEnds(c) PROVE DeadlineHasCause' /\ TimeoutHasCause'
  <2>1. /\ ret' = ret /\ ended' = ended \cup {c} /\ timeUp' = timeUp /\ calls' = calls
        /\ pc' = pc /\ deadline' = deadline
        /\ started' = started \/ (armed /\ cursCtx = c)
    BY <1>12 DEF CtxEnds, callerVars, afterVars
  <2>2. (DoneBefore' <=> DoneBefore) /\ TimeoutHasCause' /\ cursCtx' = cursCtx
    BY <2>1, CauseKept
  <2>3. armed => pc \in {"write", "read"}
    BY DEF Typed, TypeOK
  <2> QED
    BY <2>1, <2>2, <2>3 DEF DeadlineHasCause
<1>13. ASSUME NEW form \in Forms, Serve(form) PROVE DeadlineHasCause' /\ TimeoutHasCause'
  <2>1. /\ ret' = ret /\ ended' = ended /\ timeUp' = timeUp /\ calls' = calls
        /\ deadline' = deadline /\ pc' = pc /\ started' = started
    BY <1>13 DEF Serve, callerVars, ctxVars, afterVars
  <2>2. (DoneBefore' <=> DoneBefore) /\ TimeoutHasCause' /\ cursCtx' = cursCtx
    BY <2>1, CauseKept
  <2> QED
    BY <2>1, <2>2 DEF DeadlineHasCause
<1>14. CASE HangUp
  <2>1. /\ ret' = ret /\ ended' = ended /\ timeUp' = timeUp /\ calls' = calls
        /\ deadline' = deadline /\ pc' = pc /\ started' = started
    BY <1>14 DEF HangUp, callerVars, ctxVars, afterVars
  <2>2. (DoneBefore' <=> DoneBefore) /\ TimeoutHasCause' /\ cursCtx' = cursCtx
    BY <2>1, CauseKept
  <2> QED
    BY <2>1, <2>2 DEF DeadlineHasCause
<1>15. CASE AfterFuncRuns
  <2>1. /\ ret' = ret /\ ended' = ended /\ timeUp' = timeUp /\ calls' = calls
        /\ started > 0 /\ started' = started - 1
        /\ pc' = pc \/ (nc = "nil" /\ pc' = "crashed")
    BY <1>15 DEF AfterFuncRuns, ctxVars
  <2>2. (DoneBefore' <=> DoneBefore) /\ TimeoutHasCause' /\ cursCtx' = cursCtx
    BY <2>1, CauseKept
  <2>3. nc = "nil" => pc \notin {"arm", "write", "read"}
    BY DEF Typed, SessionOpen
  <2>4. DoneBefore \/ (pc \in {"write", "read"} /\ cursCtx \in ended)
    BY <2>1 DEF DeadlineHasCause
  <2> QED
    BY <2>1, <2>2, <2>3, <2>4 DEF DeadlineHasCause
<1>16. CASE UNCHANGED vars
  <2>1. /\ ret' = ret /\ ended' = ended /\ timeUp' = timeUp /\ calls' = calls
        /\ deadline' = deadline /\ pc' = pc /\ started' = started
    BY <1>16 DEF vars, callerVars, ctxVars, afterVars
  <2>2. (DoneBefore' <=> DoneBefore) /\ TimeoutHasCause' /\ cursCtx' = cursCtx
    BY <2>1, CauseKept
  <2> QED
    BY <2>1, <2>2 DEF DeadlineHasCause
<1> QED
  BY <1>1, <1>2, <1>3, <1>5, <1>6, <1>7, <1>8, <1>9, <1>10, <1>11, <1>12, <1>13, <1>14, <1>15, <1>16
     DEF Next, Start, Roundtrip, Contexts, Server

\* A call times out only for its own context, or for that of an earlier call that
\* was done before that call returned (roundTrip, z3950/z3950.go).
THEOREM TimeoutsHaveCauses == Spec => []TimeoutHasCause
<1>1. Init => DeadlineHasCause /\ TimeoutHasCause
  <2> SUFFICES ASSUME Init PROVE DeadlineHasCause /\ TimeoutHasCause
    OBVIOUS
  <2>1. ret = <<>> /\ started = 0 /\ pc = "idle"
    BY DEF Init
  <2>2. DOMAIN ret = {}
    BY <2>1
  <2> QED
    BY <2>1, <2>2 DEF DeadlineHasCause, TimeoutHasCause
<1> QED
  BY <1>1, TypeInit, TypeStep, CauseStep, PTL DEF Spec
-----------------------------------------------------------------------------
\* What a call finds on the wire.

\* What has left the server and has not been taken is in co.buf first.
LEMMA WireType ==
  ASSUME Typed
  PROVE  /\ wire \in Seq(Pieces) /\ Len(wire) = Len(buf) + Len(toClient)
         /\ \A i \in 1..Len(buf) : wire[i] = buf[i]
BY DEF Typed, TypeOK, wire

\* Reading into co.buf takes nothing off the wire.
LEMMA ReadWire == Typed /\ ReadChunk => wire' = wire
<1> SUFFICES ASSUME Typed, ReadChunk PROVE wire' = wire
  OBVIOUS
<1>1. PICK n \in 1..Len(toClient) :
        /\ buf' = buf \o SubSeq(toClient, 1, n)
        /\ toClient' = SubSeq(toClient, n + 1, Len(toClient))
  BY DEF ReadChunk
<1>2. buf \in Seq(Pieces) /\ toClient \in Seq(Pieces)
  BY DEF Typed, TypeOK
<1>3. n \in 0..Len(toClient)
  BY <1>1, <1>2
<1>4. toClient = SubSeq(toClient, 1, n) \o SubSeq(toClient, n + 1, Len(toClient))
  BY <1>2, <1>3
<1> DEFINE a == SubSeq(toClient, 1, n)
           b == SubSeq(toClient, n + 1, Len(toClient))
<1>5. a \in Seq(Pieces) /\ b \in Seq(Pieces)
  BY <1>2, <1>3, PartOfSequence
<1>6. buf' = buf \o a /\ toClient' = b /\ toClient = a \o b
  BY <1>1, <1>4
<1> HIDE DEF a, b
<1>7. (buf \o a) \o b = buf \o (a \o b)
  <2>1. PICK S, r, s, t : S = Pieces /\ r = buf /\ s = a /\ t = b
    OBVIOUS
  <2>2. r \in Seq(S) /\ s \in Seq(S) /\ t \in Seq(S)
    BY <1>2, <1>5, <2>1
  <2>3. (r \o s) \o t = r \o (s \o t)
    BY <2>2, Regroup
  <2> QED
    BY <2>1, <2>3
<1> QED
  BY <1>6, <1>7 DEF wire

\* No call so far gave up between its write and its answer.
NoneAbandoned == \A j \in 1..Len(ret) : ret[j].kind # "timeout"

\* Of the calls c, returned so r, call i is a Search that reported a count.
Counted(i, r, c) == r[i].kind = "ok" /\ c[i].req.op = "search"

\* The last of the first n that did so searched for q.
SearchedLast(q, n, r, c) ==
  \E j \in 1..n :
    /\ r[j].kind = "ok" /\ c[j].req = SearchReq(q)
    /\ \A i \in (j + 1)..n : ~Counted(i, r, c)

\* The server's result set, when it has one, is that Search's.
Remembered(q) == q = NoQuery \/ SearchedLast(q, Len(ret), ret, calls)

\* What a response to the running call says of the server's result set.
Answers(pdu) ==
  /\ pdu.call = cur
  /\ pdu.form = "ok" /\ calls[cur].req.op = "present" => SearchedLast(pdu.rs, Len(ret), ret, calls)
  /\ up => rs = pdu.rs
  /\ IF pdu.form = "ok" /\ calls[cur].req.op = "search"
       THEN calls[cur].req = SearchReq(pdu.rs)
       ELSE Remembered(pdu.rs)

\* As long as no call was abandoned, a call finds a broken APDU, or the end, or
\* nothing left by the calls before it: its own request or the whole of its own
\* response.
Finished == ~up /\ toClient = <<>> /\ Len(buf) < Parts
Quiet    == up /\ pc # "read" /\ buf = <<>> /\ toClient = <<>> /\ toServer = <<>> /\ Remembered(rs)
Asked    == up /\ pc = "read" /\ buf = <<>> /\ toClient = <<>> /\ toServer = <<cur>> /\ Remembered(rs)
Responded == /\ pc = "read" /\ (up => toServer = <<>>)
            /\ \E pdu \in PDUs : Answers(pdu) /\ wire = Split(pdu)
NothingLeft == NoneAbandoned => Unframed \/ Finished \/ Quiet \/ Asked \/ Responded

InOrder == NothingLeft /\ InStepUntilAbandoned /\ PresentReadsLastSearch

\* The type of a call, by its number.
LEMMA CallType ==
  ASSUME Typed
  PROVE  /\ calls \in Seq([req : Requests, ctx : Ctxs]) /\ ret \in Seq(Outcomes)
         /\ Len(calls) \in Nat /\ Len(ret) \in Nat /\ Len(ret) <= Len(calls)
         /\ DOMAIN ret = 1..Len(ret) /\ DOMAIN calls = 1..Len(calls)
         /\ \A j \in 1..Len(calls) : calls[j].req \in Requests
         /\ pc = "read" => Len(ret) = cur - 1 /\ cur \in 1..Len(calls)
<1>1. /\ calls \in Seq([req : Requests, ctx : Ctxs]) /\ ret \in Seq(Outcomes)
      /\ Len(calls) \in Nat /\ Len(ret) \in Nat
      /\ Len(ret) = IF pc \in {"arm", "write", "read"} THEN Len(calls) - 1 ELSE Len(calls)
  BY DEF Typed, TypeOK
<1>2. \A j \in 1..Len(calls) : calls[j] \in [req : Requests, ctx : Ctxs]
  BY <1>1, ElementOfSeq
<1> QED
  BY <1>1, <1>2 DEF cur

\* The past of a call is what it was as long as calls are only added to it.
LEMMA PastKept ==
  ASSUME NEW r, NEW c, NEW rr, NEW cc, NEW n \in Nat, NEW q,
         \A j \in 1..n : rr[j] = r[j] /\ cc[j] = c[j]
  PROVE  SearchedLast(q, n, rr, cc) <=> SearchedLast(q, n, r, c)
<1>1. \A i \in 1..n : Counted(i, rr, cc) <=> Counted(i, r, c)
  BY DEF Counted
<1>2. \A j \in 1..n : \A i \in (j + 1)..n : i \in 1..n
  OBVIOUS
<1> HIDE DEF Counted
<1> QED
  BY <1>1, <1>2 DEF SearchedLast

\* One more call changes who searched last only if it reported a count.
LEMMA OneMore ==
  ASSUME NEW r, NEW c, NEW rr, NEW n \in Nat, NEW q, \A j \in 1..n : rr[j] = r[j]
  PROVE  /\ SearchedLast(q, n, r, c) /\ ~Counted(n + 1, rr, c) => SearchedLast(q, n + 1, rr, c)
         /\ rr[n + 1].kind = "ok" /\ c[n + 1].req = SearchReq(q) => SearchedLast(q, n + 1, rr, c)
<1>1. \A i \in 1..n : Counted(i, rr, c) <=> Counted(i, r, c)
  BY DEF Counted
<1>2. ASSUME SearchedLast(q, n, r, c), ~Counted(n + 1, rr, c) PROVE SearchedLast(q, n + 1, rr, c)
  <2>1. PICK j \in 1..n : /\ r[j].kind = "ok" /\ c[j].req = SearchReq(q)
                          /\ \A i \in (j + 1)..n : ~Counted(i, r, c)
    BY <1>2 DEF SearchedLast
  <2>2. \A i \in (j + 1)..(n + 1) : i = n + 1 \/ (i \in (j + 1)..n /\ i \in 1..n)
    OBVIOUS
  <2>3. \A i \in (j + 1)..(n + 1) : ~Counted(i, rr, c)
    BY <1>1, <1>2, <2>1, <2>2
  <2> QED
    BY <2>1, <2>3 DEF SearchedLast
<1>3. ASSUME rr[n + 1].kind = "ok", c[n + 1].req = SearchReq(q) PROVE SearchedLast(q, n + 1, rr, c)
  BY <1>3 DEF SearchedLast
<1> QED
  BY <1>2, <1>3

\* InStepUntilAbandoned and PresentReadsLastSearch, call by call.
AbandonedBefore(k, r) == \E j \in 1..(k - 1) : r[j].kind = "timeout"
InStepAt(k, r) == r[k].kind \in AnswerKinds /\ ~AbandonedBefore(k, r) => r[k].pdu.call = k
ReadsLastAt(k, r, c) ==
  r[k].kind = "ok" /\ c[k].req.op = "present" /\ ~AbandonedBefore(k, r)
    => SearchedLast(r[k].pdu.rs, k - 1, r, c)

\* The properties speak of one call at a time.
LEMMA CallByCall ==
  /\ InStepUntilAbandoned <=> \A k \in DOMAIN ret : InStepAt(k, ret)
  /\ PresentReadsLastSearch <=> \A k \in DOMAIN ret : ReadsLastAt(k, ret, calls)
<1>1. \A k : ~AbandonedBefore(k, ret) <=> \A j \in 1..(k - 1) : ~Abandoned(j)
  BY DEF AbandonedBefore, Abandoned
<1>2. InStepUntilAbandoned <=> \A k \in DOMAIN ret : InStepAt(k, ret)
  BY <1>1 DEF InStepUntilAbandoned, InStepAt
<1>3. PresentReadsLastSearch <=> \A k \in DOMAIN ret : ReadsLastAt(k, ret, calls)
  BY <1>1 DEF PresentReadsLastSearch, ReadsLastAt, SearchedLast, Counted
<1> QED
  BY <1>2, <1>3

\* Calls that have returned stay as they are.
LEMMA ReturnedStay ==
  ASSUME NEW r, NEW c, NEW rr, NEW cc, NEW n \in Nat, NEW k \in 1..n,
         \A j \in 1..n : rr[j] = r[j] /\ cc[j] = c[j]
  PROVE  /\ InStepAt(k, rr) <=> InStepAt(k, r)
         /\ ReadsLastAt(k, rr, cc) <=> ReadsLastAt(k, r, c)
<1>1. k - 1 \in Nat /\ \A j \in 1..(k - 1) : j \in 1..n
  OBVIOUS
<1>2. AbandonedBefore(k, rr) <=> AbandonedBefore(k, r)
  BY <1>1 DEF AbandonedBefore
<1>3. \A q : SearchedLast(q, k - 1, rr, cc) <=> SearchedLast(q, k - 1, r, c)
  BY <1>1, PastKept
<1> QED
  BY <1>2, <1>3 DEF InStepAt, ReadsLastAt
\* A step that returns nothing keeps what was true of the calls that returned.
LEMMA NothingReturned ==
  ASSUME Typed, InStepUntilAbandoned, PresentReadsLastSearch, ret' = ret,
         \A j \in 1..Len(ret) : calls'[j] = calls[j]
  PROVE  /\ InStepUntilAbandoned' /\ PresentReadsLastSearch'
         /\ NoneAbandoned' <=> NoneAbandoned
         /\ \A q : SearchedLast(q, Len(ret), ret, calls) => SearchedLast(q, Len(ret'), ret', calls')
<1>1. Len(ret) \in Nat /\ DOMAIN ret = 1..Len(ret) /\ DOMAIN ret' = 1..Len(ret)
  BY CallType
<1>2. \A k \in 1..Len(ret) : /\ InStepAt(k, ret') <=> InStepAt(k, ret)
                             /\ ReadsLastAt(k, ret', calls') <=> ReadsLastAt(k, ret, calls)
  BY <1>1, ReturnedStay
<1>3. \A q : SearchedLast(q, Len(ret), ret', calls') <=> SearchedLast(q, Len(ret), ret, calls)
  BY <1>1, PastKept
<1>4. \A k \in DOMAIN ret : InStepAt(k, ret) /\ ReadsLastAt(k, ret, calls)
  BY CallByCall
<1>5. \A k \in DOMAIN ret' : InStepAt(k, ret') /\ ReadsLastAt(k, ret', calls')
  BY <1>1, <1>2, <1>4
<1>6. InStepUntilAbandoned' /\ PresentReadsLastSearch'
  <2>1. /\ (InStepUntilAbandoned <=> \A k \in DOMAIN ret : InStepAt(k, ret))'
        /\ (PresentReadsLastSearch <=> \A k \in DOMAIN ret : ReadsLastAt(k, ret, calls))'
    BY CallByCall, PTL
  <2> QED
    BY <1>5, <2>1
<1>7. NoneAbandoned' <=> NoneAbandoned
  BY DEF NoneAbandoned
<1> QED
  BY <1>3, <1>6, <1>7

\* A step that touches neither the wire nor the calls that returned.
LEMMA StillThere ==
  ASSUME Typed, InOrder, ret' = ret, \A j \in 1..Len(ret) : calls'[j] = calls[j],
         UNCHANGED <<buf, netVars>>, pc' = "read" <=> pc = "read", pc = "read" => calls' = calls
  PROVE  InOrder'
<1>1. buf' = buf /\ toClient' = toClient /\ toServer' = toServer /\ up' = up /\ rs' = rs
      /\ wire' = wire
  BY DEF netVars, wire
<1>2. /\ InStepUntilAbandoned' /\ PresentReadsLastSearch'
      /\ NoneAbandoned' <=> NoneAbandoned
      /\ \A q : SearchedLast(q, Len(ret), ret, calls) => SearchedLast(q, Len(ret'), ret', calls')
  BY NothingReturned DEF InOrder
<1>3. Remembered(rs) => Remembered(rs)'
  BY <1>1, <1>2 DEF Remembered
<1>4. (Unframed => Unframed') /\ (Finished => Finished')
  BY <1>1 DEF Unframed, Finished
<1>5. Quiet => Quiet'
  BY <1>1, <1>3 DEF Quiet
<1>6. ASSUME Asked PROVE Asked'
  <2>1. cur' = cur
    BY <1>6 DEF Asked, cur
  <2> QED
    BY <1>1, <1>3, <1>6, <2>1 DEF Asked
<1>7. ASSUME Responded PROVE Responded'
  <2>1. calls' = calls /\ cur' = cur
    BY <1>7 DEF Responded, cur
  <2>2. PICK pdu \in PDUs : Answers(pdu) /\ wire = Split(pdu)
    BY <1>7 DEF Responded
  <2>3. Answers(pdu)'
    BY <1>1, <1>2, <2>1, <2>2 DEF Answers, Remembered
  <2> QED
    BY <1>1, <1>7, <2>2, <2>3 DEF Responded, Split
<1> QED
  BY <1>2, <1>4, <1>5, <1>6, <1>7 DEF InOrder, NothingLeft
\* A written request is the only thing on an empty wire.
LEMMA WriteOrder == Typed /\ InOrder /\ WriteRequest => InOrder'
<1> SUFFICES ASSUME Typed, InOrder, WriteRequest PROVE InOrder'
  OBVIOUS
<1>1. /\ ret' = ret /\ calls' = calls /\ buf' = buf /\ toClient' = toClient /\ up' = up /\ rs' = rs
      /\ toServer' = Append(toServer, cur) /\ pc = "write" /\ pc' = "read" /\ cur' = cur
  BY DEF WriteRequest, cur
<1>2. /\ InStepUntilAbandoned' /\ PresentReadsLastSearch'
      /\ NoneAbandoned' <=> NoneAbandoned
  BY <1>1, NothingReturned DEF InOrder
<1>3. (Unframed => Unframed') /\ (Finished => Finished')
  BY <1>1 DEF Unframed, Finished
<1>4. ASSUME Quiet PROVE Asked'
  <2>1. toServer' = <<cur>>
    BY <1>1, <1>4 DEF Quiet
  <2>2. Remembered(rs)'
    BY <1>1, <1>4 DEF Quiet, Remembered
  <2> QED
    BY <1>1, <1>4, <2>1, <2>2 DEF Quiet, Asked
<1>5. ~Asked /\ ~Responded
  BY <1>1 DEF Asked, Responded
<1> QED
  BY <1>2, <1>3, <1>4, <1>5 DEF InOrder, NothingLeft

\* A read moves what is on the wire into co.buf.
LEMMA ReadOrder == Typed /\ InOrder /\ ReadChunk => InOrder'
<1> SUFFICES ASSUME Typed, InOrder, ReadChunk PROVE InOrder'
  OBVIOUS
<1>1. /\ ret' = ret /\ calls' = calls /\ up' = up /\ rs' = rs /\ toServer' = toServer
      /\ pc = "read" /\ pc' = pc /\ cur' = cur /\ wire' = wire /\ ~Unframed
  BY ReadWire DEF ReadChunk, callerVars, cur
<1>2. toClient # <<>>
  BY DEF ReadChunk, Typed, TypeOK
<1>3. /\ InStepUntilAbandoned' /\ PresentReadsLastSearch'
      /\ NoneAbandoned' <=> NoneAbandoned
  BY <1>1, NothingReturned DEF InOrder
<1>4. ~Finished /\ ~Quiet /\ ~Asked
  BY <1>1, <1>2 DEF Finished, Quiet, Asked
<1>5. ASSUME Responded PROVE Responded'
  <2>1. PICK pdu \in PDUs : Answers(pdu) /\ wire = Split(pdu)
    BY <1>5 DEF Responded
  <2>2. Answers(pdu)'
    BY <1>1, <2>1 DEF Answers, Remembered
  <2> QED
    BY <1>1, <1>5, <2>1, <2>2 DEF Responded, Split
<1> QED
  BY <1>1, <1>3, <1>4, <1>5 DEF InOrder, NothingLeft

\* A server that hangs up answers nothing more.
LEMMA HangUpOrder == Typed /\ InOrder /\ HangUp => InOrder'
<1> SUFFICES ASSUME Typed, InOrder, HangUp PROVE InOrder'
  OBVIOUS
<1>1. /\ ret' = ret /\ calls' = calls /\ rs' = rs /\ toServer' = toServer /\ up /\ up' = FALSE
      /\ buf' = buf /\ toClient' = toClient /\ pc' = pc /\ cur' = cur /\ wire' = wire
  BY DEF HangUp, callerVars, cur, wire
<1>2. /\ InStepUntilAbandoned' /\ PresentReadsLastSearch'
      /\ NoneAbandoned' <=> NoneAbandoned
  BY <1>1, NothingReturned DEF InOrder
<1>3. (Unframed => Unframed') /\ ~Finished
  BY <1>1 DEF Unframed, Finished
<1>4. Quiet \/ Asked => Finished'
  <2>1. buf = <<>> => Len(buf) < Parts
    BY ConnAssumption
  <2> QED
    BY <1>1, <2>1 DEF Quiet, Asked, Finished
<1>5. ASSUME Responded PROVE Responded'
  <2>1. PICK pdu \in PDUs : Answers(pdu) /\ wire = Split(pdu)
    BY <1>5 DEF Responded
  <2>2. Answers(pdu)'
    BY <1>1, <2>1 DEF Answers, Remembered
  <2> QED
    BY <1>1, <1>5, <2>1, <2>2 DEF Responded, Split
<1> QED
  BY <1>2, <1>3, <1>4, <1>5 DEF InOrder, NothingLeft

\* What the server puts on the wire is a whole response.
LEMMA ServeWire ==
  ASSUME Typed, NEW form \in Forms, Serve(form)
  PROVE  /\ up /\ toServer # <<>> /\ toServer' = Tail(toServer) /\ UNCHANGED <<pc, ret, calls, buf>>
         /\ up' = (form # "close")
         /\ \E pdu \in PDUs :
              /\ pdu.call = Head(toServer) /\ pdu.form = form /\ pdu.rs = rs'
              /\ toClient' = toClient \o Split(pdu)
              /\ wire' = wire \o Split(pdu)
         /\ LET rq == calls[Head(toServer)].req
            IN /\ form = "ok" /\ rq.op = "present" => rs # NoQuery
               /\ rs' = IF rq.op = "search" /\ form = "ok" THEN rq.arg ELSE rs
<1> DEFINE k == Head(toServer)
           rq == calls[k].req
           made == IF rq.op = "search" /\ form = "ok" THEN rq.arg ELSE rs
           pdu == [call |-> k, form |-> form, rs |-> made]
<1>1. /\ up /\ toServer # <<>> /\ toServer' = Tail(toServer) /\ UNCHANGED <<pc, ret, calls, buf>>
      /\ up' = (form # "close") /\ rs' = made /\ toClient' = toClient \o Split(pdu)
      /\ form = "ok" /\ rq.op = "present" => rs # NoQuery
  BY DEF Serve, callerVars
<1>2. k \in 1..MaxCalls /\ k = toServer[1] /\ k \in 1..Len(calls)
  <2>1. toServer \in Seq(1..MaxCalls) /\ toServer # <<>>
    BY <1>1 DEF Typed, TypeOK
  <2>2. k \in 1..MaxCalls /\ k = toServer[1] /\ Len(toServer) \in Nat \ {0}
    <3>1. k \in 1..MaxCalls
      BY <2>1, HeadTailProperties
    <3>2. k = toServer[1]
      BY <2>1
    <3>3. Len(toServer) \in Nat \ {0}
      BY <2>1, EmptySeq
    <3> QED
      BY <3>1, <3>2, <3>3
  <2>3. k <= Len(calls) /\ Len(calls) \in Nat
    BY <2>2 DEF Typed, SessionOpen, TypeOK
  <2>4. k \in Nat \ {0}
    BY <2>2, ConnAssumption
  <2> QED
    BY <2>2, <2>3, <2>4
<1>3. made \in Queries \cup {NoQuery}
  <2>1. rq \in Requests
    BY <1>2, CallType
  <2> QED
    BY <2>1, RequestType DEF Typed, TypeOK
<1>4. pdu \in PDUs /\ pdu.call = k /\ pdu.form = form /\ pdu.rs = made
  BY <1>2, <1>3 DEF PDUs
<1> HIDE DEF pdu, made
<1>5. Split(pdu) \in Seq(Pieces)
  BY <1>4, SplitType
<1>6. wire' = wire \o Split(pdu)
  <2>1. buf \in Seq(Pieces) /\ toClient \in Seq(Pieces)
    BY DEF Typed, TypeOK
  <2>2. wire' = buf \o (toClient \o Split(pdu))
    BY <1>1 DEF wire
  <2> QED
    BY <1>5, <2>1, <2>2, ConcatAssociative DEF wire
<1> QED
  BY <1>1, <1>4, <1>6 DEF made

\* Serving the only request there is puts its response on the empty wire.
LEMMA ServeOrder ==
  ASSUME Typed, InOrder, NEW form \in Forms, Serve(form)
  PROVE  InOrder'
<1>1. /\ up /\ toServer # <<>> /\ toServer' = Tail(toServer)
      /\ pc' = pc /\ ret' = ret /\ calls' = calls /\ buf' = buf /\ cur' = cur
      /\ up' = (form # "close")
  BY ServeWire DEF cur
<1>2. /\ InStepUntilAbandoned' /\ PresentReadsLastSearch'
      /\ NoneAbandoned' <=> NoneAbandoned
  BY <1>1, NothingReturned DEF InOrder
<1>3. (Unframed => Unframed') /\ ~Finished /\ ~Quiet
  BY <1>1 DEF Unframed, Finished, Quiet
<1>4. ~Responded
  BY <1>1 DEF Responded
<1>5. ASSUME Asked PROVE Responded'
  <2>1. PICK pdu \in PDUs : /\ pdu.call = Head(toServer) /\ pdu.form = form /\ pdu.rs = rs'
                            /\ wire' = wire \o Split(pdu)
    BY ServeWire
  <2>2. Head(toServer) = cur /\ toServer' = <<>>
    BY <1>1, <1>5 DEF Asked
  <2>3. wire' = Split(pdu)
    <3>1. wire = <<>>
      BY <1>5 DEF Asked, wire
    <3> QED
      BY <2>1, <3>1, SplitType, ConcatEmptySeq
  <2>4. Remembered(rs) /\ pc = "read"
    BY <1>5 DEF Asked
  <2>5. /\ form = "ok" /\ calls[cur].req.op = "present" => rs # NoQuery
        /\ rs' = IF calls[cur].req.op = "search" /\ form = "ok" THEN calls[cur].req.arg ELSE rs
    BY <2>2, ServeWire
  <2>6. calls[cur].req \in Requests
    BY <2>4, CallType DEF cur
  <2>7. CASE form = "ok" /\ calls[cur].req.op = "search"
    <3>1. calls[cur].req = SearchReq(rs')
      BY <2>5, <2>6, <2>7, RequestType
    <3>2. Answers(pdu)'
      BY <1>1, <2>1, <2>2, <2>7, <3>1 DEF Answers, SearchReq
    <3> QED
      BY <1>1, <2>2, <2>3, <2>4, <3>2 DEF Responded, Split
  <2>8. CASE ~(form = "ok" /\ calls[cur].req.op = "search")
    <3>1. rs' = rs
      BY <2>5, <2>8
    <3>2. Answers(pdu)'
      BY <1>1, <2>1, <2>2, <2>4, <2>5, <2>8, <3>1 DEF Answers, Remembered
    <3> QED
      BY <1>1, <2>2, <2>3, <2>4, <3>2 DEF Responded, Split
  <2> QED
    BY <2>7, <2>8
<1> QED
  BY <1>2, <1>3, <1>4, <1>5 DEF InOrder, NothingLeft
\* The outcome a call returns with joins those of the calls before it.
LEMMA ReturnPast ==
  ASSUME Typed, NEW o \in Outcomes, pc \in {"write", "read"}, Return(o)
  PROVE  /\ calls' = calls /\ cur' = cur /\ UNCHANGED netVars /\ pc' \in {"idle", "over"}
         /\ Len(ret) \in Nat /\ cur = Len(ret) + 1 /\ cur \in 1..Len(calls)
         /\ DOMAIN ret' = 1..cur /\ Len(ret') = cur /\ ret'[cur] = o
         /\ \A j \in 1..Len(ret) : ret'[j] = ret[j]
         /\ NoneAbandoned' <=> NoneAbandoned /\ o.kind # "timeout"
<1>1. /\ calls' = calls /\ UNCHANGED netVars /\ pc' \in {"idle", "over"} /\ ret' = Append(ret, o)
      /\ Len(ret) = Len(calls) - 1 /\ ret' \in Seq(Outcomes)
  BY ReturnType DEF Return
<1>2. ret \in Seq(Outcomes) /\ Len(ret) \in Nat /\ Len(calls) \in Nat
  BY CallType
<1>3. /\ Len(ret') = Len(ret) + 1 /\ ret'[Len(ret) + 1] = o
      /\ \A j \in 1..Len(ret) : ret'[j] = ret[j]
  BY <1>1, <1>2, AppendProperties
<1>4. cur = Len(ret) + 1 /\ cur \in 1..Len(calls) /\ cur' = cur
  BY <1>1, <1>2 DEF cur
<1>5. DOMAIN ret' = 1..cur
  BY <1>1, <1>3, <1>4
<1>6. NoneAbandoned' <=> NoneAbandoned /\ o.kind # "timeout"
  <2>1. \A j \in 1..Len(ret') : j = Len(ret) + 1 \/ j \in 1..Len(ret)
    BY <1>2, <1>3
  <2>2. \A j \in 1..Len(ret) : j \in 1..Len(ret')
    BY <1>2, <1>3
  <2>3. Len(ret) + 1 \in 1..Len(ret')
    BY <1>2, <1>3
  <2> QED
    BY <1>3, <2>1, <2>2, <2>3 DEF NoneAbandoned
<1> QED
  BY <1>1, <1>2, <1>3, <1>4, <1>5, <1>6

\* An outcome that is in order keeps the calls that returned in order.
LEMMA ReturnInOrder ==
  ASSUME Typed, InOrder, NEW o \in Outcomes, pc \in {"write", "read"}, Return(o),
         o.kind \in AnswerKinds /\ NoneAbandoned => o.pdu.call = cur,
         o.kind = "ok" /\ calls[cur].req.op = "present" /\ NoneAbandoned
           => SearchedLast(o.pdu.rs, Len(ret), ret, calls)
  PROVE  InStepUntilAbandoned' /\ PresentReadsLastSearch'
<1>1. /\ calls' = calls /\ Len(ret) \in Nat /\ cur = Len(ret) + 1
      /\ DOMAIN ret' = 1..cur /\ ret'[cur] = o
      /\ \A j \in 1..Len(ret) : ret'[j] = ret[j]
  BY ReturnPast
<1>2. \A k \in 1..Len(ret) : InStepAt(k, ret) /\ ReadsLastAt(k, ret, calls)
  <2>1. DOMAIN ret = 1..Len(ret)
    BY CallType
  <2>2. InStepUntilAbandoned /\ PresentReadsLastSearch
    BY DEF InOrder
  <2> QED
    BY <2>1, <2>2, CallByCall
<1>3. \A k \in 1..Len(ret) : InStepAt(k, ret') /\ ReadsLastAt(k, ret', calls')
  <2>1. \A j \in 1..Len(ret) : ret'[j] = ret[j] /\ calls'[j] = calls[j]
    BY <1>1
  <2>2. Len(ret) \in Nat
    BY <1>1
  <2>3. \A k \in 1..Len(ret) : /\ InStepAt(k, ret') <=> InStepAt(k, ret)
                               /\ ReadsLastAt(k, ret', calls') <=> ReadsLastAt(k, ret, calls)
    BY <2>1, <2>2, ReturnedStay
  <2> QED
    BY <1>2, <2>3
<1>4. AbandonedBefore(cur, ret') <=> ~NoneAbandoned
  <2>1. cur - 1 = Len(ret)
    BY <1>1
  <2> HIDE DEF cur
  <2> QED
    BY <1>1, <2>1 DEF AbandonedBefore, NoneAbandoned
<1>5. InStepAt(cur, ret')
  BY <1>1, <1>4 DEF InStepAt
<1>6. ReadsLastAt(cur, ret', calls')
  <2>1. \A q : SearchedLast(q, Len(ret), ret', calls') <=> SearchedLast(q, Len(ret), ret, calls)
    BY <1>1, PastKept
  <2>2. cur - 1 = Len(ret)
    BY <1>1
  <2> QED
    BY <1>1, <1>4, <2>1, <2>2 DEF ReadsLastAt
<1>7. \A k \in DOMAIN ret' : InStepAt(k, ret') /\ ReadsLastAt(k, ret', calls')
  <2>1. \A k \in 1..cur : k = cur \/ k \in 1..Len(ret)
    BY <1>1
  <2> QED
    BY <1>1, <1>3, <1>5, <1>6, <2>1
<1>8. /\ (InStepUntilAbandoned <=> \A k \in DOMAIN ret : InStepAt(k, ret))'
      /\ (PresentReadsLastSearch <=> \A k \in DOMAIN ret : ReadsLastAt(k, ret, calls))'
  BY CallByCall, PTL
<1> QED
  BY <1>7, <1>8

\* A call that consumed no response leaves what it found, or is abandoned.
LEMMA FailOrder ==
  ASSUME Typed, InOrder, NEW kind \in FailureKinds, Return(Failed(kind)), buf' = buf,
         pc \in {"write", "read"}, kind # "timeout" => Unframed \/ Finished \/ pc = "write"
  PROVE  InOrder'
<1> DEFINE o == Failed(kind)
<1>1. o \in Outcomes /\ o.kind = kind /\ o.kind \notin AnswerKinds /\ o.kind # "ok"
  BY OutcomeType DEF Failed, FailureKinds, AnswerKinds
<1>2. InStepUntilAbandoned' /\ PresentReadsLastSearch'
  BY <1>1, ReturnInOrder
<1> HIDE DEF o
<1>3. Return(o)
  BY DEF o
<1>4. /\ calls' = calls /\ UNCHANGED netVars /\ pc' \in {"idle", "over"}
      /\ Len(ret) \in Nat /\ cur = Len(ret) + 1 /\ Len(ret') = cur /\ ret'[cur] = o
      /\ \A j \in 1..Len(ret) : ret'[j] = ret[j]
      /\ NoneAbandoned' <=> NoneAbandoned /\ o.kind # "timeout"
  BY <1>1, <1>3, ReturnPast
<1>5. toClient' = toClient /\ toServer' = toServer /\ up' = up /\ rs' = rs
  BY <1>4 DEF netVars
<1>6. (Unframed => Unframed') /\ (Finished => Finished')
  BY <1>5 DEF Unframed, Finished
<1>7. ASSUME Quiet PROVE Quiet'
  <2>1. \A q : SearchedLast(q, Len(ret), ret, calls) => SearchedLast(q, Len(ret) + 1, ret', calls)
    <3>1. ~Counted(Len(ret) + 1, ret', calls)
      BY <1>1, <1>4 DEF Counted
    <3> QED
      BY <1>4, <3>1, OneMore
  <2>2. Remembered(rs)'
    BY <1>4, <1>5, <1>7, <2>1 DEF Quiet, Remembered
  <2> QED
    BY <1>4, <1>5, <1>7, <2>2 DEF Quiet
<1>8. pc = "write" => ~Asked /\ ~Responded
  BY DEF Asked, Responded
<1>9. NothingLeft'
  BY <1>1, <1>4, <1>6, <1>7, <1>8 DEF InOrder, NothingLeft
<1> QED
  BY <1>2, <1>9 DEF InOrder

\* A call that takes an APDU, if none was abandoned, takes the whole of its own.
LEMMA TakeOrder == Typed /\ InOrder /\ TakePDU => InOrder'
<1> SUFFICES ASSUME Typed, InOrder, TakePDU PROVE InOrder'
  OBVIOUS
<1> DEFINE pdu == Head(buf).pdu
           o == Got(OutcomeOf(pdu), pdu)
<1>1. /\ pc = "read" /\ HasPDU /\ ~Unframed /\ Return(o) /\ buf' = SubSeq(buf, Parts + 1, Len(buf))
      /\ Parts \in Nat \ {0} /\ Len(buf) >= Parts
  BY ConnAssumption DEF TakePDU, HasPDU
<1>2. buf \in Seq(Pieces) /\ buf # <<>> /\ Head(buf) = buf[1] /\ pdu \in PDUs /\ Parts \in 0..Len(buf)
  BY <1>1, FrontType
<1>3. o \in Outcomes /\ o.kind = OutcomeOf(pdu) /\ o.pdu = pdu /\ o.kind \in AnswerKinds
  BY <1>2, OutcomeType, OutcomeOfType DEF Got
<1>4. pdu.form \in Forms /\ pdu.form # "unframed"
  BY <1>1, <1>2 DEF PDUs, Unframed
<1>5. o.kind = "ok" => pdu.form = "ok" /\ calls[pdu.call].req.op = calls[cur].req.op
  BY <1>3, <1>4, ConnAssumption DEF OutcomeOf
<1>6. pdu.form = "ok" /\ pdu.call = cur => o.kind = "ok"
  BY <1>3 DEF OutcomeOf
<1> HIDE DEF o, pdu
<1>7. ASSUME NoneAbandoned
      PROVE  /\ Answers(pdu) /\ (up => toServer = <<>>)
             /\ Len(buf) = Parts /\ toClient = <<>>
  <2>1. ~Finished /\ ~Quiet /\ ~Asked
    <3>1. Len(buf) > 0 /\ ~(Len(buf) < Parts)
      BY <1>1
    <3> QED
      BY <1>1, <1>2, <3>1 DEF Finished, Quiet, Asked
  <2>2. Responded
    BY <1>1, <1>7, <2>1 DEF InOrder, NothingLeft
  <2>3. PICK r \in PDUs : Answers(r) /\ wire = Split(r)
    BY <2>2 DEF Responded
  <2>4. /\ wire[1] = buf[1] /\ Len(wire) = Len(buf) + Len(toClient) /\ Len(buf) \in Nat
        /\ toClient \in Seq(Pieces) /\ Len(toClient) \in Nat
    <3>1. 1 \in 1..Len(buf)
      BY <1>1, <1>2
    <3> QED
      BY <1>2, <3>1, WireType DEF Typed, TypeOK
  <2>5. Len(wire) = Parts /\ wire[1].pdu = r
    <3>1. 1 \in 1..Parts
      BY <1>1
    <3> QED
      BY <2>3, <3>1, SplitType
  <2>6. pdu = r
    BY <1>2, <2>4, <2>5 DEF pdu
  <2>7. Len(buf) = Parts /\ Len(toClient) = 0
    BY <1>1, <2>4, <2>5
  <2>8. toClient = <<>>
    BY <2>4, <2>7, EmptySeq
  <2> QED
    BY <2>2, <2>3, <2>6, <2>7, <2>8 DEF Responded
<1>8. o.kind = "ok" /\ calls[cur].req.op = "present" /\ NoneAbandoned
        => SearchedLast(o.pdu.rs, Len(ret), ret, calls)
  BY <1>3, <1>5, <1>7 DEF Answers
<1>9. InStepUntilAbandoned' /\ PresentReadsLastSearch'
  BY <1>1, <1>3, <1>7, <1>8, ReturnInOrder DEF Answers
<1>10. /\ calls' = calls /\ UNCHANGED netVars /\ pc' \in {"idle", "over"}
       /\ Len(ret) \in Nat /\ cur = Len(ret) + 1 /\ Len(ret') = cur /\ ret'[cur] = o
       /\ \A j \in 1..Len(ret) : ret'[j] = ret[j]
       /\ NoneAbandoned' <=> NoneAbandoned /\ o.kind # "timeout"
  BY <1>1, <1>3, ReturnPast
<1>11. toClient' = toClient /\ toServer' = toServer /\ up' = up /\ rs' = rs
  BY <1>10 DEF netVars
<1>12. ASSUME NoneAbandoned PROVE Finished' \/ Quiet'
  <2>1. Answers(pdu) /\ (up => toServer = <<>>) /\ toClient = <<>> /\ Len(buf) = Parts
    BY <1>7, <1>12
  <2>2. buf' = <<>> /\ Len(buf') = 0
    <3>1. Len(SubSeq(buf, Parts + 1, Len(buf))) = Len(buf) - Parts
          /\ SubSeq(buf, Parts + 1, Len(buf)) \in Seq(Pieces)
      BY <1>2, PartOfSequence
    <3>2. Len(buf') = 0 /\ buf' \in Seq(Pieces)
      BY <1>1, <2>1, <3>1
    <3> QED
      BY <3>2, EmptySeq
  <2>3. CASE ~up
    BY <1>1, <1>11, <2>1, <2>2, <2>3 DEF Finished
  <2>4. CASE up
    <3>1. rs = pdu.rs
      BY <2>1, <2>4 DEF Answers
    <3>2. Remembered(rs)'
      <4>1. CASE pdu.form = "ok" /\ calls[cur].req.op = "search"
        <5>1. calls[cur].req = SearchReq(rs) /\ o.kind = "ok"
          BY <1>6, <2>1, <3>1, <4>1 DEF Answers
        <5>2. \A q : calls[Len(ret) + 1].req = SearchReq(q) => SearchedLast(q, Len(ret) + 1, ret', calls)
          BY <1>10, <5>1, OneMore
        <5> QED
          BY <1>10, <1>11, <5>1, <5>2 DEF Remembered
      <4>2. CASE ~(pdu.form = "ok" /\ calls[cur].req.op = "search")
        <5>1. Remembered(rs)
          BY <2>1, <3>1, <4>2 DEF Answers
        <5>2. ~Counted(Len(ret) + 1, ret', calls)
          BY <1>5, <1>10, <4>2 DEF Counted
        <5>3. \A q : SearchedLast(q, Len(ret), ret, calls) => SearchedLast(q, Len(ret) + 1, ret', calls)
          BY <1>10, <5>2, OneMore
        <5> QED
          BY <1>10, <1>11, <5>1, <5>3 DEF Remembered
      <4> QED
        BY <4>1, <4>2
    <3> QED
      BY <1>10, <1>11, <2>1, <2>2, <2>4, <3>2 DEF Quiet
  <2> QED
    BY <2>3, <2>4
<1> QED
  BY <1>9, <1>10, <1>12 DEF InOrder, NothingLeft
\* A call that begins finds what the calls before it left.
LEMMA OrderBegin ==
  ASSUME Typed, InOrder, NEW c \in Ctxs, NEW rq \in Requests, Begin(rq, c)
  PROVE  InOrder'
<1>1. [req |-> rq, ctx |-> c] \in [req : Requests, ctx : Ctxs]
  OBVIOUS
<1>2. /\ ret' = ret /\ calls' = Append(calls, [req |-> rq, ctx |-> c])
      /\ UNCHANGED <<buf, netVars>> /\ pc = "idle" /\ pc' = "arm"
  BY DEF Begin
<1>3. \A j \in 1..Len(ret) : calls'[j] = calls[j]
  <2>1. calls \in Seq([req : Requests, ctx : Ctxs]) /\ \A j \in 1..Len(ret) : j \in 1..Len(calls)
    BY CallType
  <2> QED
    BY <1>1, <1>2, <2>1, AppendProperties
<1> QED
  BY <1>2, <1>3, StillThere

\* Every step keeps the calls in order.
LEMMA OrderStep == Typed /\ InOrder /\ [Next]_vars => InOrder'
<1> SUFFICES ASSUME Typed, InOrder, [Next]_vars PROVE InOrder'
  OBVIOUS
<1>1. ASSUME NEW c \in Ctxs, NEW rq \in Requests \ {InitReq}, Begin(rq, c) PROVE InOrder'
  BY <1>1, OrderBegin
<1>2. ASSUME Arm \/ Close \/ (\E c \in EndingCtxs : TimePasses(c) \/ CtxEnds(c)) \/ AfterFuncRuns
             \/ UNCHANGED vars
      PROVE  InOrder'
  <2>1. ret' = ret /\ calls' = calls /\ UNCHANGED <<buf, netVars>>
    BY <1>2 DEF Arm, Close, TimePasses, CtxEnds, AfterFuncRuns, vars, callerVars
  <2>2. pc' = "read" <=> pc = "read"
    <3>1. nc = "nil" => pc # "read"
      BY DEF Typed, SessionOpen
    <3> QED
      BY <1>2, <3>1 DEF Arm, Close, TimePasses, CtxEnds, AfterFuncRuns, vars, callerVars
  <2> QED
    BY <2>1, <2>2, StillThere
<1>3. CASE WriteFails
  BY <1>3, FailOrder DEF WriteFails, FailureKinds
<1>4. CASE ReadFails
  <2>1. PICK kind \in {"timeout", "eof"} :
          Return(Failed(kind)) /\ (kind = "eof" => ~up /\ toClient = <<>>)
    BY <1>4 DEF ReadFails
  <2>2. Len(buf) < Parts /\ pc = "read" /\ buf' = buf
    BY <1>4, ConnAssumption DEF ReadFails, HasPDU, Typed, TypeOK
  <2>3. kind # "timeout" => Finished
    BY <2>1, <2>2 DEF Finished
  <2> QED
    BY <2>1, <2>2, <2>3, FailOrder DEF FailureKinds
<1>5. CASE FramingFails
  BY <1>5, FailOrder DEF FramingFails, FailureKinds
<1>6. ASSUME NEW form \in Forms, Serve(form) PROVE InOrder'
  BY <1>6, ServeOrder
<1> QED
  BY <1>1, <1>2, <1>3, <1>4, <1>5, <1>6, WriteOrder, ReadOrder, TakeOrder, HangUpOrder
     DEF Next, Start, Roundtrip, Contexts, Server

\* A new session has nothing left on its wire.
LEMMA OrderInit == Init => InOrder
<1> SUFFICES ASSUME Init PROVE InOrder
  OBVIOUS
<1>1. ret = <<>> /\ DOMAIN ret = {}
  BY DEF Init
<1>2. Quiet
  BY DEF Init, Quiet, Remembered
<1> QED
  BY <1>1, <1>2 DEF InOrder, NothingLeft, InStepUntilAbandoned, PresentReadsLastSearch

\* As long as no call on a Conn has been abandoned, what a call accepts or reports
\* is the response to that call (Conn, z3950/z3950.go).
THEOREM InStep == Spec => []InStepUntilAbandoned
<1>1. InOrder => InStepUntilAbandoned
  BY DEF InOrder
<1> QED
  BY <1>1, TypeInit, TypeStep, OrderInit, OrderStep, PTL DEF Spec

\* And Present reads the result set of the last Search that reported a count
\* (Search and Present, z3950/z3950.go).
THEOREM PresentReads == Spec => []PresentReadsLastSearch
<1>1. InOrder => PresentReadsLastSearch
  BY DEF InOrder
<1> QED
  BY <1>1, TypeInit, TypeStep, OrderInit, OrderStep, PTL DEF Spec
-----------------------------------------------------------------------------
\* Framing.

\* Piece i of the sequence w stands in the middle of a whole response.
InWhole(w, i) ==
  LET before == i - w[i].part
  IN /\ before >= 0 /\ before + Parts <= Len(w)
     /\ \A d \in 1..Parts : w[before + d] = [pdu |-> w[i].pdu, part |-> d]
Whole(w) == \A i \in 1..Len(w) : InWhole(w, i)

\* Such a sequence starts, goes on and ends as FramingKept says.
LEMMA WholeIsFramed ==
  ASSUME NEW w \in Seq(Pieces), Whole(w), w # <<>>
  PROVE  /\ w[1].part = 1 /\ w[Len(w)].part = Parts
         /\ \A i \in 2..Len(w) :
              IF w[i].part = 1
                THEN w[i - 1].part = Parts
                ELSE w[i] = [pdu |-> w[i - 1].pdu, part |-> w[i - 1].part + 1]
<1>1. Len(w) \in Nat \ {0} /\ Parts \in Nat \ {0}
  BY EmptySeq, ConnAssumption
<1>2. \A i \in 1..Len(w) : w[i] \in Pieces /\ w[i].part \in 1..Parts
  <2>1. \A i \in 1..Len(w) : w[i] \in Pieces
    BY ElementOfSeq
  <2> QED
    BY <2>1 DEF Pieces
<1>3. \A i \in 1..Len(w) : i - w[i].part >= 0 /\ i - w[i].part + Parts <= Len(w)
  BY DEF Whole, InWhole
<1>4. w[1].part = 1 /\ w[Len(w)].part = Parts
  <2>1. 1 \in 1..Len(w) /\ Len(w) \in 1..Len(w)
    BY <1>1
  <2> QED
    BY <1>1, <1>2, <1>3, <2>1
<1>5. ASSUME NEW i \in 2..Len(w), w[i].part = 1 PROVE w[i - 1].part = Parts
  <2> DEFINE p == w[i - 1].part
             before == (i - 1) - p
  <2>1. i - 1 \in 1..Len(w) /\ p \in 1..Parts
    BY <1>1, <1>2
  <2>2. \A d \in 1..Parts : w[before + d] = [pdu |-> w[i - 1].pdu, part |-> d]
    BY <2>1 DEF Whole, InWhole
  <2>3. CASE p < Parts
    <3>1. p + 1 \in 1..Parts /\ before + (p + 1) = i
      BY <1>1, <2>1, <2>3
    <3> HIDE DEF before, p
    <3>2. w[before + (p + 1)] = [pdu |-> w[i - 1].pdu, part |-> p + 1]
      BY <2>2, <3>1
    <3>3. w[i].part = p + 1
      BY <3>1, <3>2
    <3>4. p \in Nat \ {0}
      BY <1>1, <2>1
    <3> QED
      BY <1>5, <3>3, <3>4
  <2> QED
    BY <1>1, <2>1, <2>3
<1>6. ASSUME NEW i \in 2..Len(w), w[i].part # 1
      PROVE  w[i] = [pdu |-> w[i - 1].pdu, part |-> w[i - 1].part + 1]
  <2> DEFINE p == w[i].part
  <2>1. i \in 1..Len(w) /\ p \in 1..Parts /\ p # 1
    BY <1>1, <1>2, <1>6
  <2>2. \A d \in 1..Parts : w[i - p + d] = [pdu |-> w[i].pdu, part |-> d]
    BY <2>1 DEF Whole, InWhole
  <2> HIDE DEF p
  <2>3. p - 1 \in 1..Parts /\ i - p + (p - 1) = i - 1 /\ i - p + p = i
    BY <1>1, <2>1
  <2>4. w[i - 1] = [pdu |-> w[i].pdu, part |-> p - 1] /\ w[i] = [pdu |-> w[i].pdu, part |-> p]
    BY <2>1, <2>2, <2>3
  <2>5. w[i - 1].pdu = w[i].pdu /\ w[i - 1].part + 1 = p
    BY <1>1, <2>1, <2>4
  <2> QED
    BY <2>4, <2>5
<1> QED
  BY <1>4, <1>5, <1>6

\* Where what is put behind a sequence comes to stand.
LEMMA BehindSequence ==
  ASSUME NEW S, NEW w \in Seq(S), NEW e \in Seq(S), NEW v, v = w \o e
  PROVE  /\ v \in Seq(S) /\ Len(v) = Len(w) + Len(e)
         /\ \A i \in 1..Len(w) : v[i] = w[i]
         /\ \A d \in 1..Len(e) : v[Len(w) + d] = e[d]
OBVIOUS

\* A response put behind whole responses.
LEMMA WholeAppend ==
  ASSUME NEW w \in Seq(Pieces), Whole(w), NEW pdu \in PDUs
  PROVE  Whole(w \o Split(pdu))
<1> DEFINE e == Split(pdu)
           v == w \o e
           n == Len(w)
<1>1. /\ e \in Seq(Pieces) /\ Len(e) = Parts /\ Parts \in Nat \ {0} /\ n \in Nat
      /\ \A d \in 1..Parts : e[d] = [pdu |-> pdu, part |-> d]
  BY SplitType, ConnAssumption DEF Split
<1> HIDE DEF e
<1>2. /\ v \in Seq(Pieces) /\ Len(v) = n + Parts
      /\ \A i \in 1..n : v[i] = w[i]
      /\ \A d \in 1..Parts : v[n + d] = e[d]
  <2>0. v = w \o e
    OBVIOUS
  <2> HIDE DEF v
  <2>1. /\ v \in Seq(Pieces) /\ Len(v) = Len(w) + Len(e)
        /\ \A i \in 1..Len(w) : v[i] = w[i]
        /\ \A d \in 1..Len(e) : v[Len(w) + d] = e[d]
    <3>1. e \in Seq(Pieces)
      BY <1>1
    <3> QED
      BY <2>0, <3>1, BehindSequence
  <2> QED
    BY <1>1, <2>1
<1> HIDE DEF v
<1>3. \A i \in 1..n : w[i].part \in 1..Parts
  <2>1. \A i \in 1..n : w[i] \in Pieces
    BY ElementOfSeq
  <2> QED
    BY <2>1 DEF Pieces
<1>4. ASSUME NEW i \in 1..n PROVE InWhole(v, i)
  <2> DEFINE before == i - w[i].part
  <2>1. /\ before >= 0 /\ before + Parts <= n
        /\ \A d \in 1..Parts : w[before + d] = [pdu |-> w[i].pdu, part |-> d]
    BY DEF Whole, InWhole
  <2>2. before \in Int /\ v[i] = w[i]
    BY <1>1, <1>2, <1>3
  <2> HIDE DEF before
  <2>3. \A d \in 1..Parts : before + d \in 1..n
    BY <1>1, <2>1, <2>2
  <2>4. \A d \in 1..Parts : v[before + d] = [pdu |-> v[i].pdu, part |-> d]
    BY <1>2, <2>1, <2>2, <2>3
  <2>5. before + Parts <= Len(v)
    BY <1>1, <1>2, <2>1, <2>2
  <2>6. before = i - v[i].part
    BY <2>2 DEF before
  <2> QED
    BY <2>1, <2>4, <2>5, <2>6 DEF InWhole
<1>5. ASSUME NEW c \in 1..Parts PROVE InWhole(v, n + c)
  <2>1. v[n + c] = [pdu |-> pdu, part |-> c]
    BY <1>1, <1>2
  <2>2. (n + c) - v[n + c].part = n
    BY <1>1, <2>1
  <2>3. \A d \in 1..Parts : v[n + d] = [pdu |-> v[n + c].pdu, part |-> d]
    <3>1. v[n + c].pdu = pdu
      BY <2>1
    <3>2. \A d \in 1..Parts : v[n + d] = [pdu |-> pdu, part |-> d]
      BY <1>1, <1>2
    <3> QED
      BY <3>1, <3>2
  <2>4. n >= 0 /\ n + Parts <= Len(v)
    BY <1>1, <1>2
  <2> HIDE DEF n
  <2> QED
    BY <2>2, <2>3, <2>4 DEF InWhole
<1>6. ASSUME NEW i \in 1..Len(v) PROVE InWhole(v, i)
  <2>1. i \in 1..n \/ (i - n \in 1..Parts /\ n + (i - n) = i)
    BY <1>1, <1>2
  <2> QED
    BY <1>4, <1>5, <2>1
<1> QED
  BY <1>6 DEF Whole, v, e

\* What is left when the first response is taken off.
LEMMA WholeDrop ==
  ASSUME NEW w \in Seq(Pieces), Whole(w), NEW v \in Seq(Pieces), w # <<>>,
         Len(v) = Len(w) - Parts, \A i \in 1..Len(v) : v[i] = w[i + Parts]
  PROVE  Whole(v)
<1>1. Len(w) \in Nat \ {0} /\ Parts \in Nat \ {0} /\ Len(v) \in Nat
  BY EmptySeq, ConnAssumption
<1>2. \A i \in 1..Len(w) : w[i].part \in 1..Parts
  <2>1. \A i \in 1..Len(w) : w[i] \in Pieces
    BY ElementOfSeq
  <2> QED
    BY <2>1 DEF Pieces
<1>3. \A d \in 1..Parts : w[d].part = d
  <2>1. 1 \in 1..Len(w) /\ w[1].part = 1
    BY <1>1, WholeIsFramed
  <2> DEFINE before == 1 - w[1].part
  <2>2. \A d \in 1..Parts : w[before + d] = [pdu |-> w[1].pdu, part |-> d]
    BY <2>1 DEF Whole, InWhole
  <2>0. before = 0 /\ before \in Int
    BY <2>1
  <2> HIDE DEF before
  <2>3. ASSUME NEW d \in 1..Parts PROVE w[d].part = d
    <3>1. before + d = d
      BY <1>1, <2>0
    <3>2. w[before + d] = [pdu |-> w[1].pdu, part |-> d]
      BY <2>2, Zenon
    <3>3. w[d] = [pdu |-> w[1].pdu, part |-> d]
      BY <3>1, <3>2
    <3> QED
      BY <3>3
  <2> QED
    BY <2>3
<1>4. ASSUME NEW i \in 1..Len(v) PROVE InWhole(v, i)
  <2> DEFINE k == i + Parts
             before == k - w[k].part
  <2>1. k \in 1..Len(w) /\ w[k].part \in 1..Parts /\ v[i] = w[k] /\ k > Parts
    BY <1>1, <1>2
  <2>2. /\ before >= 0 /\ before + Parts <= Len(w)
        /\ \A d \in 1..Parts : w[before + d] = [pdu |-> w[k].pdu, part |-> d]
    BY <2>1 DEF Whole, InWhole
  <2>3. before \in Int /\ before > 0
    BY <1>1, <2>1
  <2> HIDE DEF before, k
  <2>4. before >= Parts
    <3>1. CASE before + 1 <= Parts
      <4>1. before + 1 \in 1..Parts /\ 1 \in 1..Parts
        BY <1>1, <2>3, <3>1
      <4>2. w[before + 1].part = before + 1
        BY <1>3, <4>1
      <4>3. w[before + 1] = [pdu |-> w[k].pdu, part |-> 1]
        BY <2>2, <4>1
      <4> QED
        BY <2>3, <4>2, <4>3
    <3> QED
      BY <1>1, <2>3, <3>1
  <2>5. i - v[i].part = before - Parts
    BY <1>1, <2>1 DEF before, k
  <2>6. \A d \in 1..Parts : before - Parts + d \in 1..Len(v) /\ (before - Parts + d) + Parts = before + d
    BY <1>1, <2>2, <2>3, <2>4
  <2>7. \A d \in 1..Parts : v[before - Parts + d] = [pdu |-> v[i].pdu, part |-> d]
    BY <2>1, <2>2, <2>6
  <2>8. before - Parts >= 0 /\ before - Parts + Parts <= Len(v)
    BY <1>1, <2>2, <2>3, <2>4
  <2> QED
    BY <2>5, <2>7, <2>8 DEF InWhole
<1> QED
  BY <1>4 DEF Whole
\* Taking an APDU takes the first response off the wire.
LEMMA TakeWire ==
  ASSUME Typed, TakePDU
  PROVE  /\ wire # <<>> /\ wire' \in Seq(Pieces) /\ Len(wire') = Len(wire) - Parts
         /\ \A i \in 1..Len(wire') : wire'[i] = wire[i + Parts]
<1>1. HasPDU /\ buf' = SubSeq(buf, Parts + 1, Len(buf)) /\ toClient' = toClient
  BY DEF TakePDU, Return, netVars
<1>2. /\ buf \in Seq(Pieces) /\ toClient \in Seq(Pieces) /\ Parts \in 0..Len(buf) /\ buf # <<>>
      /\ Len(buf) \in Nat \ {0} /\ Len(toClient) \in Nat
  <2>1. buf \in Seq(Pieces) /\ toClient \in Seq(Pieces) /\ Parts \in 0..Len(buf) /\ buf # <<>>
    BY <1>1, FrontType DEF Typed, TypeOK
  <2> QED
    BY <2>1, EmptySeq
<1>3. /\ buf' \in Seq(Pieces) /\ Len(buf') = Len(buf) - Parts
      /\ \A i \in 1..(Len(buf) - Parts) : buf'[i] = buf[i + Parts]
  BY <1>1, <1>2, PartOfSequence
<1>4. /\ wire \in Seq(Pieces) /\ Len(wire) = Len(buf) + Len(toClient)
      /\ \A i \in 1..Len(buf) : wire[i] = buf[i]
      /\ \A d \in 1..Len(toClient) : wire[Len(buf) + d] = toClient[d]
  BY <1>2, BehindSequence DEF wire
<1>5. /\ wire' \in Seq(Pieces) /\ Len(wire') = Len(buf') + Len(toClient)
      /\ \A i \in 1..Len(buf') : wire'[i] = buf'[i]
      /\ \A d \in 1..Len(toClient) : wire'[Len(buf') + d] = toClient[d]
  <2>1. wire' = buf' \o toClient
    BY <1>1 DEF wire
  <2>2. buf' \in Seq(Pieces) /\ toClient \in Seq(Pieces)
    BY <1>2, <1>3
  <2> QED
    BY <2>1, <2>2, BehindSequence
<1>6. wire # <<>>
  BY <1>2, <1>4
<1>7. Len(wire') = Len(wire) - Parts
  BY <1>2, <1>3, <1>4, <1>5
<1>8. ASSUME NEW i \in 1..Len(wire') PROVE wire'[i] = wire[i + Parts]
  <2>1. CASE i <= Len(buf')
    <3>1. i \in 1..Len(buf') /\ i \in 1..(Len(buf) - Parts) /\ i + Parts \in 1..Len(buf)
      BY <1>2, <1>3, <1>5, <2>1
    <3> QED
      BY <1>3, <1>4, <1>5, <3>1
  <2>2. CASE i > Len(buf')
    <3> DEFINE d == i - Len(buf')
    <3>1. d \in 1..Len(toClient) /\ Len(buf') + d = i /\ Len(buf) + d = i + Parts
      BY <1>2, <1>3, <1>5, <2>2
    <3> HIDE DEF d
    <3>2. wire'[Len(buf') + d] = toClient[d] /\ wire[Len(buf) + d] = toClient[d]
      BY <1>4, <1>5, <3>1
    <3> QED
      BY <3>1, <3>2
  <2> QED
    BY <1>2, <1>3, <1>5, <2>1, <2>2
<1> QED
  BY <1>5, <1>6, <1>7, <1>8

\* Every step leaves whole responses on the wire.
LEMMA WholeStep == Typed /\ Whole(wire) /\ [Next]_vars => Whole(wire)'
<1> SUFFICES ASSUME Typed, Whole(wire), [Next]_vars PROVE Whole(wire')
  BY DEF Whole, InWhole
<1>1. wire \in Seq(Pieces)
  BY WireType
<1>2. ASSUME UNCHANGED <<buf, toClient>> PROVE Whole(wire')
  <2>1. wire' = wire
    BY <1>2 DEF wire
  <2> QED
    BY <2>1
<1>3. CASE ReadChunk
  <2>1. wire' = wire
    BY <1>3, ReadWire
  <2> QED
    BY <2>1
<1>4. CASE TakePDU
  <2>1. /\ wire # <<>> /\ wire' \in Seq(Pieces) /\ Len(wire') = Len(wire) - Parts
        /\ \A i \in 1..Len(wire') : wire'[i] = wire[i + Parts]
    BY <1>4, TakeWire
  <2> QED
    BY <1>1, <2>1, WholeDrop
<1>5. ASSUME NEW form \in Forms, Serve(form) PROVE Whole(wire')
  <2>1. PICK pdu \in PDUs : wire' = wire \o Split(pdu)
    BY <1>5, ServeWire
  <2>2. Whole(wire \o Split(pdu))
    BY <1>1, WholeAppend
  <2> QED
    BY <2>1, <2>2
<1>6. ASSUME \/ \E c \in Ctxs, rq \in Requests \ {InitReq} : Begin(rq, c)
             \/ Arm \/ WriteRequest \/ WriteFails \/ ReadFails \/ FramingFails \/ Close
             \/ (\E c \in EndingCtxs : TimePasses(c) \/ CtxEnds(c))
             \/ HangUp \/ AfterFuncRuns \/ UNCHANGED vars
      PROVE  Whole(wire')
  <2>1. UNCHANGED <<buf, toClient>>
    BY <1>6 DEF Begin, Arm, WriteRequest, WriteFails, ReadFails, FramingFails, Return, Close,
                TimePasses, CtxEnds, HangUp, AfterFuncRuns, vars, netVars
  <2> QED
    BY <1>2, <2>1
<1> QED
  BY <1>3, <1>4, <1>5, <1>6 DEF Next, Start, Roundtrip, Contexts, Server

\* Framing survives any failure: what is left to decode always starts with an APDU,
\* and every APDU of it is whole (roundTrip and Conn.buf, z3950/z3950.go).
THEOREM FramingSurvives == Spec => []FramingKept
<1>1. Init => Whole(wire)
  <2> SUFFICES ASSUME Init PROVE Whole(wire)
    OBVIOUS
  <2>1. wire = <<>>
    BY DEF Init, wire
  <2> QED
    BY <2>1 DEF Whole
<1>2. Typed /\ Whole(wire) => FramingKept
  BY WireType, WholeIsFramed DEF FramingKept, wire
<1> QED
  BY <1>1, <1>2, TypeInit, TypeStep, WholeStep, PTL DEF Spec

-----------------------------------------------------------------------------
\* The Reader on its Conn.

\* Ranges of the Reader's own variables.
ReaderTyped ==
  /\ catalog \in Catalogs
  /\ reading \in BOOLEAN /\ conn \in BOOLEAN /\ cut \in BOOLEAN
  /\ total \in {-1, Len(catalog)} /\ next \in 1..(Len(catalog) + 1)
  /\ page \in Seq(1..Len(catalog)) /\ out \in Seq(1..Len(catalog))
  /\ err \in {"none", "eof", "error"}

\* A result set is a finite sequence.
LEMMA CatalogType ==
  ASSUME ReaderTyped
  PROVE  Len(catalog) \in Nat /\ next \in Nat \ {0} /\ total \in Int
<1>1. catalog \in Seq({"marc", "surrogate", "text", "corrupt"})
  BY ReaderAssumption DEF ReaderTyped
<1>2. Len(catalog) \in Nat
  BY <1>1
<1> QED
  BY <1>2 DEF ReaderTyped

\* A step of the Reader asks the server something, ...
AsksConn ==
  /\ \E rq \in Requests : Begin(rq, Ctx)
  /\ cur = 0 \/ Succeeded
  /\ reading /\ UNCHANGED readerVars

\* ... or is one of the Conn, its contexts or the server, ...
ConnAlone ==
  /\ Roundtrip \/ AfterFuncRuns \/ (pc \notin {"over", "crashed"} /\ (Contexts \/ Server))
       \/ UNCHANGED vars
  /\ UNCHANGED readerVars

\* ... or gives up or is closed, or touches nothing but the Reader.
GivesUp     == cut' \in BOOLEAN /\ \E e \in {"eof", "error"} : Fail(e)
ReaderAlone == Read \/ SkipRecord \/ DeliverRecord \/ SearchDone \/ PageArrives

\* The Reader's page requests are requests.
LEMMA PageRequest ==
  ASSUME ReaderTyped, next <= total
  PROVE  PresentReq(<<next, Smaller(PageSize, total - next + 1)>>) \in Requests
<1> DEFINE n == Smaller(PageSize, total - next + 1)
<1>1. /\ catalog \in Catalogs /\ Len(catalog) \in Nat /\ next \in Nat \ {0}
      /\ PageSize \in Nat \ {0} /\ total \in {-1, Len(catalog)}
      /\ catalog \in Seq({"marc", "surrogate", "text", "corrupt"})
  BY CatalogType, ReaderAssumption DEF ReaderTyped
<1>2. total = Len(catalog)
  BY <1>1
<1>3. next \in DOMAIN catalog /\ n \in 1..PageSize
  BY <1>1, <1>2 DEF Smaller
<1>4. <<next, n>> \in Positions
  BY <1>1, <1>3, ReaderAssumption
<1> QED
  BY <1>4 DEF Requests

\* There is no other step.
LEMMA StepKinds ==
  ASSUME ReaderTyped, [ReaderNext]_allVars
  PROVE  AsksConn \/ ConnAlone \/ GivesUp \/ ReaderAlone
<1>1. Ctx \in Ctxs /\ InitReq \in Requests /\ SearchReq(Query) \in Requests
  BY ReaderAssumption DEF Requests
<1>2. cut \in BOOLEAN
  BY DEF ReaderTyped
<1>3. CASE Dial
  BY <1>1, <1>2, <1>3 DEF Dial, Answered, AsksConn, GivesUp
<1>4. CASE Search
  BY <1>1, <1>4 DEF Search, Answered, AsksConn
<1>5. CASE PresentPage
  <2>1. next <= total /\ Begin(PresentReq(<<next, Smaller(PageSize, total - next + 1)>>), Ctx)
        /\ reading /\ Succeeded /\ UNCHANGED readerVars
    BY <1>5 DEF PresentPage, Answered
  <2> QED
    BY <2>1, PageRequest DEF AsksConn
<1>6. CASE RecordFails \/ CallFails \/ Exhausted \/ EmptyPage \/ CloseReader
  BY <1>2, <1>6 DEF RecordFails, CallFails, Exhausted, EmptyPage, CloseReader, GivesUp
<1>7. CASE Read \/ SkipRecord \/ DeliverRecord \/ SearchDone \/ PageArrives
  BY <1>7 DEF ReaderAlone
<1>8. CASE ConnSteps \/ AfterFuncs \/ Environment \/ UNCHANGED allVars
  BY <1>8 DEF ConnSteps, AfterFuncs, Environment, allVars, ConnAlone
<1> QED
  BY <1>3, <1>4, <1>5, <1>6, <1>7, <1>8 DEF ReaderNext, ReadSteps

\* A Reader that gives up closes its Conn, if there is one to close.
LEMMA GivesUpConn ==
  ASSUME GivesUp
  PROVE  /\ Close \/ UNCHANGED vars
         /\ nc = "open" /\ cur > 0 => Close
         /\ err' \in {"eof", "error"} /\ reading' = FALSE /\ conn' = FALSE
         /\ UNCHANGED <<catalog, total, next, page, out>>
BY DEF GivesUp, Fail, CloseConn

\* To the Conn, a step of the Reader is one of its own, or begins a call.
LEMMA ConnMoves ==
  ASSUME ReaderTyped, [ReaderNext]_allVars, Typed
  PROVE  [Next]_vars \/ \E rq \in Requests : Begin(rq, Ctx)
<1>1. CASE AsksConn
  BY <1>1 DEF AsksConn
<1>2. CASE GivesUp
  BY <1>2, GivesUpConn DEF Next
<1>3. CASE ReaderAlone
  BY <1>3 DEF ReaderAlone, Read, SkipRecord, DeliverRecord, SearchDone, PageArrives
<1>4. CASE ConnAlone
  BY <1>4 DEF ConnAlone, Next
<1> QED
  BY <1>1, <1>2, <1>3, <1>4, StepKinds

\* The Conn under a Reader keeps its types, and its calls stay in order.
LEMMA ConnKept ==
  Typed /\ InOrder /\ ReaderTyped /\ [ReaderNext]_allVars => Typed' /\ InOrder'
<1> SUFFICES ASSUME Typed, InOrder, ReaderTyped, [ReaderNext]_allVars PROVE Typed' /\ InOrder'
  OBVIOUS
<1>1. ASSUME NEW rq \in Requests, Begin(rq, Ctx) PROVE Typed' /\ InOrder'
  BY <1>1, TypeBegin, OrderBegin, ReaderAssumption
<1>2. CASE [Next]_vars
  BY <1>2, TypeStep, OrderStep
<1> QED
  BY <1>1, <1>2, ConnMoves

\* Ranges are kept by the Reader's steps.
LEMMA ReaderTypeStep == Typed /\ ReaderTyped /\ [ReaderNext]_allVars => ReaderTyped'
<1> SUFFICES ASSUME Typed, ReaderTyped, [ReaderNext]_allVars PROVE ReaderTyped'
  OBVIOUS
<1>0. Len(catalog) \in Nat /\ next \in Nat \ {0} /\ total \in Int /\ next <= Len(catalog) + 1
  BY CatalogType DEF ReaderTyped
<1>1. CASE UNCHANGED readerVars
  BY <1>1 DEF ReaderTyped, readerVars
<1>2. CASE GivesUp
  <2>1. cut' \in BOOLEAN
    BY <1>2 DEF GivesUp
  <2> QED
    BY <1>2, <2>1, GivesUpConn DEF ReaderTyped
<1>3. CASE Read
  BY <1>3 DEF Read, ReaderTyped
<1>4. CASE SkipRecord
  <2>1. page' \in Seq(1..Len(catalog))
    BY <1>4, HeadTailProperties DEF SkipRecord, AtRecord, ReaderTyped
  <2> QED
    BY <1>4, <2>1 DEF SkipRecord, ReaderTyped
<1>5. CASE DeliverRecord
  <2>1. Head(page) \in 1..Len(catalog) /\ page' \in Seq(1..Len(catalog))
    BY <1>5, HeadTailProperties DEF DeliverRecord, AtRecord, ReaderTyped
  <2>2. out' \in Seq(1..Len(catalog))
    BY <1>5, <2>1 DEF DeliverRecord, ReaderTyped
  <2> QED
    BY <1>5, <2>1, <2>2 DEF DeliverRecord, ReaderTyped
<1>6. CASE SearchDone
  BY <1>6 DEF SearchDone, ReaderTyped
<1>7. CASE PageArrives
  <2>1. PICK n \in 1..(total - next + 1) : page' = [i \in 1..n |-> next + i - 1] /\ next' = next + n
    BY <1>7 DEF PageArrives
  <2>2. total = Len(catalog) /\ n \in Nat \ {0}
    BY <1>0, <2>1 DEF ReaderTyped
  <2>3. next' \in 1..(Len(catalog) + 1)
    BY <1>0, <2>1, <2>2
  <2>4. \A i \in 1..n : next + i - 1 \in 1..Len(catalog)
    BY <1>0, <2>1, <2>2
  <2>5. page' \in [1..n -> 1..Len(catalog)]
    BY <2>1, <2>4
  <2>6. page' \in Seq(1..Len(catalog))
    BY <2>2, <2>5
  <2> QED
    BY <1>7, <2>3, <2>6 DEF PageArrives, ReaderTyped
<1> QED
  BY <1>1, <1>2, <1>3, <1>4, <1>5, <1>6, <1>7, StepKinds DEF AsksConn, ConnAlone, ReaderAlone

-----------------------------------------------------------------------------
\* What the Reader's one session gives.

\* Only the last call of the session may have failed.
OnlyLastFails == \A k \in 1..Len(ret) : k < cur => ret[k].kind = "ok"

\* Once Read has returned an error nothing is asked any more.
Over == err # "none" => ~reading /\ (cur > 0 => nc # "open")

\* A step of the Conn that begins no call adds at most the outcome of the last.
LEMMA ConnReturns ==
  ASSUME Typed, Roundtrip \/ AfterFuncRuns \/ Contexts \/ Server \/ UNCHANGED vars \/ Close
  PROVE  /\ calls' = calls /\ cur' = cur /\ Len(ret) \in Nat /\ Len(calls) \in Nat
         /\ Len(ret) <= Len(ret') /\ Len(ret') \in Nat
         /\ \A j \in 1..Len(ret) : ret'[j] = ret[j]
         /\ Len(ret') > Len(ret) => Len(ret) = cur - 1 /\ Len(ret') = cur
         /\ nc # "open" => nc' # "open"
<1>0. Len(ret) \in Nat /\ Len(calls) \in Nat
  BY CallType
<1>1. ASSUME ret' = ret, calls' = calls, nc' \in {nc, "nil"} PROVE
         /\ calls' = calls /\ cur' = cur /\ Len(ret) <= Len(ret') /\ Len(ret') \in Nat
         /\ \A j \in 1..Len(ret) : ret'[j] = ret[j]
         /\ Len(ret') > Len(ret) => Len(ret) = cur - 1 /\ Len(ret') = cur
         /\ nc # "open" => nc' # "open"
  BY <1>0, <1>1 DEF cur
<1>2. ASSUME NEW o \in Outcomes, pc \in {"write", "read"}, Return(o) PROVE
         /\ calls' = calls /\ cur' = cur /\ Len(ret) <= Len(ret') /\ Len(ret') \in Nat
         /\ \A j \in 1..Len(ret) : ret'[j] = ret[j]
         /\ Len(ret') > Len(ret) => Len(ret) = cur - 1 /\ Len(ret') = cur
         /\ nc # "open" => nc' # "open"
  <2>1. /\ calls' = calls /\ cur' = cur /\ Len(ret) \in Nat /\ cur = Len(ret) + 1
        /\ Len(ret') = cur /\ \A j \in 1..Len(ret) : ret'[j] = ret[j]
    BY <1>2, ReturnPast
  <2>2. nc = "open"
    BY <1>2 DEF Typed, SessionOpen
  <2> QED
    BY <2>1, <2>2
<1>3. CASE WriteFails \/ ReadFails \/ FramingFails
  <2>1. PICK kind \in FailureKinds : Return(Failed(kind))
    BY <1>3 DEF WriteFails, ReadFails, FramingFails, FailureKinds
  <2>2. Failed(kind) \in Outcomes /\ pc \in {"write", "read"}
    BY <1>3, OutcomeType DEF WriteFails, ReadFails, FramingFails
  <2> QED
    BY <1>0, <1>2, <2>1, <2>2
<1>4. CASE TakePDU
  <2> DEFINE pdu == Head(buf).pdu
             o == Got(OutcomeOf(pdu), pdu)
  <2>1. Return(o) /\ pc = "read" /\ HasPDU
    BY <1>4 DEF TakePDU
  <2>2. o \in Outcomes
    BY <2>1, FrontType, OutcomeType, OutcomeOfType
  <2> HIDE DEF o
  <2> QED
    BY <1>0, <1>2, <2>1, <2>2
<1>5. CASE Arm \/ WriteRequest \/ ReadChunk \/ AfterFuncRuns \/ Contexts \/ Server \/ UNCHANGED vars \/ Close
  <2>1. ret' = ret /\ calls' = calls /\ nc' \in {nc, "nil"}
    BY <1>5 DEF Arm, WriteRequest, ReadChunk, AfterFuncRuns, Contexts, TimePasses, CtxEnds,
                Server, HangUp, Serve, vars, callerVars, Close
  <2> QED
    BY <1>0, <1>1, <2>1
<1> QED
  BY <1>3, <1>4, <1>5 DEF Roundtrip

\* A Reader asks again only after a success, and closes what it gives up.
LEMMA SessionStep ==
  Typed /\ ReaderTyped /\ OnlyLastFails /\ Over /\ [ReaderNext]_allVars => OnlyLastFails' /\ Over'
<1> SUFFICES ASSUME Typed, ReaderTyped, OnlyLastFails, Over, [ReaderNext]_allVars
             PROVE  OnlyLastFails' /\ Over'
  OBVIOUS
<1>1. CASE AsksConn
  <2>1. PICK rq \in Requests : Begin(rq, Ctx)
    BY <1>1 DEF AsksConn
  <2>2. ret' = ret /\ pc = "idle" /\ reading' = reading /\ err' = err /\ reading
    BY <1>1, <2>1 DEF Begin, AsksConn, readerVars
  <2>3. Len(ret) = cur /\ cur \in Nat
    BY <2>2 DEF Typed, TypeOK, cur
  <2>4. \A k \in 1..Len(ret) : ret[k].kind = "ok"
    <3>1. \A k \in 1..Len(ret) : k < cur \/ k = cur
      BY <2>3
    <3>2. cur = 0 \/ ret[cur].kind = "ok"
      BY <1>1 DEF AsksConn, Succeeded
    <3> HIDE DEF cur
    <3> QED
      BY <2>3, <3>1, <3>2 DEF OnlyLastFails
  <2> QED
    BY <2>2, <2>4 DEF OnlyLastFails, Over
<1>2. ASSUME Roundtrip \/ AfterFuncRuns \/ Contexts \/ Server \/ UNCHANGED vars \/ Close
      PROVE  OnlyLastFails' /\ (cur' > 0 <=> cur > 0) /\ (nc # "open" => nc' # "open")
  <2>1. /\ cur' = cur /\ Len(ret) \in Nat /\ Len(ret') \in Nat /\ Len(ret) <= Len(ret')
        /\ \A j \in 1..Len(ret) : ret'[j] = ret[j]
        /\ Len(ret') > Len(ret) => Len(ret) = cur - 1 /\ Len(ret') = cur
        /\ nc # "open" => nc' # "open"
    BY <1>2, ConnReturns
  <2>2. cur \in Nat
    BY CallType DEF cur
  <2> HIDE DEF cur
  <2>3. \A k \in 1..Len(ret') : k < cur => k \in 1..Len(ret)
    BY <2>1, <2>2
  <2>4. \A k \in 1..Len(ret') : k < cur' => ret'[k].kind = "ok"
    BY <2>1, <2>3 DEF OnlyLastFails
  <2> QED
    BY <2>1, <2>4 DEF OnlyLastFails
<1>3. CASE ConnAlone
  <2>1. OnlyLastFails' /\ (cur' > 0 <=> cur > 0) /\ (nc # "open" => nc' # "open")
    BY <1>2, <1>3 DEF ConnAlone
  <2>2. err' = err /\ reading' = reading
    BY <1>3 DEF ConnAlone, readerVars
  <2> QED
    BY <2>1, <2>2 DEF Over
<1>4. CASE GivesUp
  <2>1. /\ Close \/ UNCHANGED vars
        /\ nc = "open" /\ cur > 0 => Close
        /\ reading' = FALSE
    BY <1>4, GivesUpConn
  <2>2. OnlyLastFails' /\ (cur' > 0 <=> cur > 0) /\ (nc # "open" => nc' # "open")
    BY <1>2, <2>1
  <2>3. Close => nc' # "open"
    BY DEF Close
  <2> QED
    BY <2>1, <2>2, <2>3 DEF Over
<1>5. CASE ReaderAlone
  <2>1. UNCHANGED vars /\ err' = err /\ (reading' => reading \/ err = "none")
    BY <1>5 DEF ReaderAlone, Read, SkipRecord, DeliverRecord, SearchDone, PageArrives
  <2>2. OnlyLastFails' /\ (cur' > 0 <=> cur > 0) /\ (nc # "open" => nc' # "open")
    BY <1>2, <2>1
  <2> QED
    BY <2>1, <2>2 DEF Over
<1> QED
  BY <1>1, <1>3, <1>4, <1>5, StepKinds

\* All of it together is inductive.
ReaderInv == Typed /\ InOrder /\ ReaderTyped /\ OnlyLastFails /\ Over

\* A Reader begins without a session.
LEMMA ReaderInvInit == ReaderInit => ReaderInv
<1> SUFFICES ASSUME ReaderInit PROVE ReaderInv
  OBVIOUS
<1>1. Init /\ ret = <<>> /\ Len(ret) = 0
  BY DEF ReaderInit, Init
<1>2. Typed /\ InOrder
  BY <1>1, TypeInit, OrderInit
<1>3. catalog \in Catalogs /\ Len(catalog) \in Nat
  <2>1. catalog \in Catalogs
    BY DEF ReaderInit
  <2>2. catalog \in Seq({"marc", "surrogate", "text", "corrupt"})
    BY <2>1, ReaderAssumption
  <2> QED
    BY <2>1, <2>2
<1>4. ReaderTyped
  <2>1. next \in 1..(Len(catalog) + 1)
    BY <1>3 DEF ReaderInit
  <2>2. page \in Seq(1..Len(catalog)) /\ out \in Seq(1..Len(catalog))
    BY DEF ReaderInit
  <2> QED
    BY <1>3, <2>1, <2>2 DEF ReaderInit, ReaderTyped
<1>5. OnlyLastFails
  BY <1>1 DEF OnlyLastFails
<1>6. Over
  BY DEF ReaderInit, Over
<1> QED
  BY <1>2, <1>4, <1>5, <1>6 DEF ReaderInv

\* Every step of the Reader or the Conn keeps it.
LEMMA ReaderInvStep == ReaderInv /\ [ReaderNext]_allVars => ReaderInv'
BY ConnKept, ReaderTypeStep, SessionStep DEF ReaderInv

\* The fields of a Reader keep to their ranges, whatever the server sends
\* (Reader, z3950/reader.go).
THEOREM ReaderTypeCorrect == ReaderSpec => []ReaderTypeOK
<1>1. ReaderInv => ReaderTypeOK
  BY DEF ReaderInv, ReaderTyped, ReaderTypeOK, Typed
<1> QED
  BY <1>1, ReaderInvInit, ReaderInvStep, PTL DEF ReaderSpec

\* No Read sees the answer to another request than its own, although nothing in a
\* response names its request: the first failure ends the session (fail,
\* z3950/reader.go).
THEOREM OwnAnswers == ReaderSpec => []AnswersAreOwn
<1>1. ReaderInv => AnswersAreOwn
  <2> SUFFICES ASSUME ReaderInv, NEW k \in DOMAIN ret, ret[k].kind \in AnswerKinds
               PROVE  ret[k].pdu.call = k
    BY DEF AnswersAreOwn
  <2>1. DOMAIN ret = 1..Len(ret) /\ Len(ret) \in Nat /\ Len(ret) <= cur /\ cur \in Nat
    BY CallType DEF ReaderInv, cur
  <2> HIDE DEF cur
  <2>2. ASSUME NEW j \in 1..(k - 1) PROVE ~Abandoned(j)
    <3>1. j \in 1..Len(ret) /\ j < cur
      BY <2>1
    <3> QED
      BY <3>1 DEF ReaderInv, OnlyLastFails, Abandoned
  <2> QED
    BY <2>2 DEF ReaderInv, InOrder, InStepUntilAbandoned
<1> QED
  BY <1>1, ReaderInvInit, ReaderInvStep, PTL DEF ReaderSpec

\* Once Read has returned an error, io.EOF among them, no socket is left open
\* (Reader.Close and fail, z3950/reader.go).
THEOREM SocketsClosed == ReaderSpec => []NoSocketLeft
<1>1. ReaderInv => NoSocketLeft
  BY DEF ReaderInv, Over, NoSocketLeft
<1> QED
  BY <1>1, ReaderInvInit, ReaderInvStep, PTL DEF ReaderSpec

-----------------------------------------------------------------------------
\* The stream Read hands out is the one a codex.RecordReader promises.

\* How many records of the result set Read is through with.
behind == next - 1 - Len(page)

\* The page continues them, what was returned is what there was to return among
\* them, and a kept Conn knows how many there are.
StreamSoFar ==
  /\ behind \in Nat
  /\ \A i \in 1..Len(page) : page[i] = behind + i
  /\ out = Select(Decodable, behind)
  /\ err = "none" => \A j \in 1..behind : catalog[j] # "corrupt"
  /\ conn => total = Len(catalog)

\* Nothing has been read at first.
LEMMA StreamInit == ReaderInit => StreamSoFar
<1> SUFFICES ASSUME ReaderInit PROVE StreamSoFar
  OBVIOUS
<1>1. next = 1 /\ Len(page) = 0
  BY DEF ReaderInit
<1>2. behind = 0
  BY <1>1 DEF behind
<1> QED
  BY <1>1, <1>2, SelectSteps DEF StreamSoFar, ReaderInit

\* The result set is the server's, and does not change.
LEMMA SameCatalog ==
  ASSUME ReaderTyped, [ReaderNext]_allVars
  PROVE  catalog' = catalog /\ Decodable' = Decodable
<1>1. catalog' = catalog
  BY StepKinds DEF AsksConn, ConnAlone, GivesUp, Fail, ReaderAlone, Read, SkipRecord,
     DeliverRecord, SearchDone, PageArrives, readerVars
<1> QED
  BY <1>1 DEF Decodable

\* Taking a record off the page: it is delivered if and only if it is to be.
LEMMA NextRecord ==
  ASSUME ReaderTyped, StreamSoFar, page # <<>>
  PROVE  /\ Head(page) = behind + 1 /\ behind + 1 \in DOMAIN catalog
         /\ page' = Tail(page) /\ next' = next =>
              /\ behind' = behind + 1
              /\ \A i \in 1..Len(page') : page'[i] = behind' + i
<1>1. page \in Seq(1..Len(catalog)) /\ next \in Nat /\ Len(catalog) \in Nat
      /\ catalog \in Seq({"marc", "surrogate", "text", "corrupt"})
  BY CatalogType, ReaderAssumption DEF ReaderTyped
<1>2. /\ Len(page) \in Nat \ {0} /\ Head(page) = page[1] /\ Head(page) \in 1..Len(catalog)
      /\ Len(Tail(page)) = Len(page) - 1
      /\ \A i \in 1..(Len(page) - 1) : Tail(page)[i] = page[i + 1]
  BY <1>1
<1>3. behind \in Nat /\ \A i \in 1..Len(page) : page[i] = behind + i
  BY DEF StreamSoFar
<1>4. Head(page) = behind + 1 /\ behind + 1 \in DOMAIN catalog
  BY <1>1, <1>2, <1>3
<1>5. ASSUME page' = Tail(page), next' = next
      PROVE  behind' = behind + 1 /\ \A i \in 1..Len(page') : page'[i] = behind' + i
  <2>1. behind' = behind + 1
    BY <1>1, <1>2, <1>5 DEF behind
  <2> HIDE DEF behind
  <2> QED
    BY <1>2, <1>3, <1>5, <2>1
<1> QED
  BY <1>4, <1>5

\* Every step keeps it so: a page continues the last, and records are taken off one by one.
LEMMA StreamStep ==
  ReaderTyped /\ StreamSoFar /\ Over /\ [ReaderNext]_allVars => StreamSoFar'
<1> SUFFICES ASSUME ReaderTyped, StreamSoFar, Over, [ReaderNext]_allVars PROVE StreamSoFar'
  OBVIOUS
<1>1. catalog' = catalog /\ Decodable' = Decodable
  BY SameCatalog
<1>2. ASSUME page' = page, next' = next, out' = out, err' = "none" => err = "none",
             conn' => total' = Len(catalog)
      PROVE  StreamSoFar'
  BY <1>1, <1>2 DEF StreamSoFar, behind
<1>3. CASE UNCHANGED readerVars
  BY <1>2, <1>3 DEF readerVars, StreamSoFar
<1>4. CASE GivesUp
  BY <1>2, <1>4, GivesUpConn
<1>5. CASE Read \/ SearchDone
  BY <1>1, <1>2, <1>5 DEF Read, SearchDone, StreamSoFar
<1>6. CASE SkipRecord \/ DeliverRecord
  <2>1. /\ page # <<>> /\ page' = Tail(page) /\ next' = next /\ err' = err /\ reading
        /\ conn' = conn /\ total' = total
    BY <1>6 DEF SkipRecord, DeliverRecord, AtRecord
  <2>2. /\ Head(page) = behind + 1 /\ behind + 1 \in DOMAIN catalog /\ behind' = behind + 1
        /\ \A i \in 1..Len(page') : page'[i] = behind' + i
    BY <2>1, NextRecord
  <2>3. err = "none" /\ behind \in Nat /\ out = Select(Decodable, behind)
        /\ \A j \in 1..behind : catalog[j] # "corrupt"
    BY <2>1 DEF StreamSoFar, Over
  <2> HIDE DEF behind
  <2>4. /\ behind + 1 \in Decodable => Select(Decodable, behind + 1) = Append(out, behind + 1)
        /\ behind + 1 \notin Decodable => Select(Decodable, behind + 1) = out
    BY <2>3, SelectSteps
  <2>5. \A j \in 1..(behind + 1) : j \in 1..behind \/ j = behind + 1
    BY <2>3
  <2>6. catalog[behind + 1] \in {"surrogate", "text", "marc"}
    BY <1>6, <2>2 DEF SkipRecord, DeliverRecord, AtRecord
  <2>7. \A j \in 1..(behind + 1) : catalog[j] # "corrupt"
    BY <2>3, <2>5, <2>6
  <2>8. behind + 1 \in Decodable <=> catalog[behind + 1] = "marc"
    BY <2>2, <2>7 DEF Decodable
  <2>9. out' = Select(Decodable, behind + 1)
    BY <1>6, <2>2, <2>4, <2>8 DEF SkipRecord, DeliverRecord, AtRecord
  <2>10. conn' => total' = Len(catalog)
    BY <2>1 DEF StreamSoFar
  <2> QED
    BY <1>1, <2>2, <2>3, <2>7, <2>9, <2>10 DEF StreamSoFar
<1>7. CASE PageArrives
  <2>1. PICK n \in 1..(total - next + 1) :
          page' = [i \in 1..n |-> next + i - 1] /\ next' = next + n
    BY <1>7 DEF PageArrives
  <2>2. page = <<>> /\ UNCHANGED <<out, err, conn, total>>
    BY <1>7 DEF PageArrives, Answered
  <2>3. next \in Nat \ {0} /\ n \in Nat /\ Len(page) = 0
    BY <2>1, <2>2, CatalogType
  <2>4. Len(page') = n
    BY <2>1, <2>3
  <2>5. behind = next - 1 /\ behind' = next - 1
    BY <2>1, <2>3, <2>4 DEF behind
  <2>6. \A i \in 1..Len(page') : page'[i] = behind' + i
    BY <2>1, <2>3, <2>4, <2>5
  <2> QED
    BY <1>1, <2>2, <2>5, <2>6 DEF StreamSoFar
<1> QED
  BY <1>3, <1>4, <1>5, <1>6, <1>7, StepKinds DEF AsksConn, ConnAlone, ReaderAlone

\* Every step of z3950.Reader is one of a RecordSource, or none.
LEMMA SourceStep ==
  ReaderTyped /\ Over /\ StreamSoFar /\ StreamSoFar' /\ [ReaderNext]_allVars
    => [Source!Next]_(Source!sourceVars)
<1> SUFFICES ASSUME ReaderTyped, Over, StreamSoFar, StreamSoFar', [ReaderNext]_allVars
             PROVE  [Source!Next]_(Source!sourceVars)
  OBVIOUS
<1>1. catalog' = catalog /\ Decodable' = Decodable /\ Len(catalog) \in Nat
  BY SameCatalog, CatalogType
<1> DEFINE stream == Select(Decodable, Len(catalog))
<1>2. stream' = stream
  BY <1>1
<1>3. ASSUME out' = out, err' = err, cut' = cut PROVE UNCHANGED Source!sourceVars
  BY <1>2, <1>3 DEF Source!sourceVars
<1>4. ASSUME err = "none", out' = out, cut' = cut \/ cut' = TRUE,
             \/ err' = "error"
             \/ err' = "eof" /\ (cut' \/ Len(out) = Len(stream))
      PROVE  Source!Next
  <2>1. cut' \in IF cut THEN {TRUE} ELSE BOOLEAN
    BY <1>4 DEF ReaderTyped
  <2>2. Source!Finish
    BY <1>2, <1>4, <2>1 DEF Source!Finish
  <2> QED
    BY <2>2 DEF Source!Next
<1>5. CASE RecordFails \/ CallFails \/ (Dial /\ Fail("error") /\ UNCHANGED cut)
  <2>1. reading /\ out' = out /\ err' = "error" /\ cut' = cut
    BY <1>5 DEF RecordFails, CallFails, Dial, AtRecord, Answered, Fail
  <2> QED
    BY <1>4, <2>1 DEF Over
<1>6. CASE EmptyPage \/ CloseReader
  <2>1. (reading \/ err = "none") /\ out' = out /\ err' = "eof" /\ cut' = TRUE
    BY <1>6 DEF EmptyPage, CloseReader, Answered, Fail
  <2> QED
    BY <1>4, <2>1 DEF Over
<1>7. CASE Exhausted
  <2>1. /\ reading /\ page = <<>> /\ conn /\ next > total
        /\ out' = out /\ err' = "eof" /\ cut' = cut
    BY <1>7 DEF Exhausted, Answered, Fail
  <2>2. total = Len(catalog) /\ next <= Len(catalog) + 1 /\ next \in Nat /\ Len(page) = 0
    BY <2>1, CatalogType DEF StreamSoFar, ReaderTyped
  <2>3. behind = Len(catalog)
    BY <1>1, <2>1, <2>2 DEF behind
  <2>4. Len(out) = Len(stream)
    BY <2>3 DEF StreamSoFar
  <2> QED
    BY <1>4, <2>1, <2>4 DEF Over
<1>8. CASE DeliverRecord
  <2>1. page # <<>> /\ reading /\ page' = Tail(page) /\ next' = next
        /\ out' = Append(out, Head(page)) /\ err' = err /\ cut' = cut
    BY <1>8 DEF DeliverRecord, AtRecord
  <2>2. Head(page) = behind + 1 /\ behind + 1 \in DOMAIN catalog /\ behind' = behind + 1
    BY <2>1, NextRecord
  <2>3. err = "none" /\ behind \in Nat /\ behind < Len(catalog)
        /\ out = Select(Decodable, behind) /\ out' = Select(Decodable, behind + 1)
    <3>1. catalog \in Seq({"marc", "surrogate", "text", "corrupt"})
      BY ReaderAssumption DEF ReaderTyped
    <3>2. DOMAIN catalog = 1..Len(catalog)
      BY <3>1
    <3> QED
      BY <1>1, <2>1, <2>2, <3>2 DEF StreamSoFar, Over
  <2> HIDE DEF behind
  <2>4. behind + 1 \in Decodable
    <3>1. out \in Seq(1..Len(catalog))
      BY DEF ReaderTyped
    <3>2. Len(out') = Len(out) + 1 /\ Len(out) \in Nat
      BY <2>1, <3>1
    <3>3. out # out'
      BY <3>2
    <3> QED
      BY <2>3, <3>3, SelectSteps
  <2>5. Len(out) < Len(stream) /\ stream[Len(out) + 1] = behind + 1
    BY <1>1, <2>3, <2>4, SelectNext
  <2>6. Source!Deliver
    BY <1>2, <2>1, <2>2, <2>3, <2>5 DEF Source!Deliver
  <2> QED
    BY <2>6 DEF Source!Next
<1>9. CASE Read \/ SkipRecord \/ SearchDone \/ PageArrives
  BY <1>3, <1>9 DEF Read, SkipRecord, SearchDone, PageArrives
<1>10. CASE UNCHANGED readerVars
  BY <1>3, <1>10 DEF readerVars
<1>11. Dial => (Fail("error") /\ UNCHANGED cut) \/ UNCHANGED readerVars
  BY DEF Dial
<1>12. Search \/ PresentPage \/ ConnSteps \/ AfterFuncs \/ Environment \/ UNCHANGED allVars
         => UNCHANGED readerVars
  BY DEF Search, PresentPage, ConnSteps, AfterFuncs, Environment, allVars
<1> QED
  BY <1>5, <1>6, <1>7, <1>8, <1>9, <1>10, <1>11, <1>12 DEF ReaderNext, ReadSteps

\* z3950.Reader is a codex.RecordReader of the MARC records of its result set: one
\* at a time, in order, each once over any paging, up to the first that does not
\* decode, and io.EOF only at their end, an empty page or a Close, once and for all.
THEOREM ReadsResultSet == ReaderSpec => StreamsResultSet
<1>1. ReaderInit => Source!Init
  <2> SUFFICES ASSUME ReaderInit PROVE Source!Init
    OBVIOUS
  <2>1. catalog \in Seq({"marc", "surrogate", "text", "corrupt"})
    BY ReaderAssumption DEF ReaderInit
  <2>2. Len(catalog) \in Nat
    BY <2>1
  <2>3. Select(Decodable, Len(catalog)) \in Seq(Nat)
    BY <2>2, SelectSteps
  <2> QED
    BY <2>3 DEF ReaderInit, Source!Init
<1>2. ReaderInv /\ StreamSoFar /\ [ReaderNext]_allVars => ReaderInv' /\ StreamSoFar'
  BY ReaderInvStep, StreamStep DEF ReaderInv
<1>3. ReaderInv /\ StreamSoFar /\ StreamSoFar' /\ [ReaderNext]_allVars
        => [Source!Next]_(Source!sourceVars)
  BY SourceStep DEF ReaderInv
<1> QED
  BY <1>1, <1>2, <1>3, ReaderInvInit, StreamInit, PTL
     DEF ReaderSpec, StreamsResultSet, Source!Spec
===============================================================================
