----------------------------- MODULE Sip2Session -----------------------------
(***************************************************************************)
(* One SIP2 session of package sip2: a Conn (sip2/sip2.go) used by one     *)
(* goroutine, its bufio.Reader, the TCP connection and the ACS.            *)
(*                                                                         *)
(* roundTrip writes one message and reads one line ending in CR.  Unlike   *)
(* z3950's it acts on the context's deadline only, and what bufio had of   *)
(* an incomplete line is lost when the read fails.  A message carries a    *)
(* rolling sequence number (AY) that the ACS echoes and nobody compares.   *)
(*                                                                         *)
(* A reply is a text piece and its CR, which may arrive apart; an ACS may  *)
(* end its lines with CR LF.                                               *)
(***************************************************************************)
EXTENDS Naturals, Sequences

CONSTANTS
  Items,     \* barcodes a caller asks about
  Login,     \* the barcode's place in a Login call
  Rollover,    \* AY numbers roll over at Rollover (10 in the code)
  MaxCalls   \* bound: messages a caller sends on the connection

ASSUME SipAssumption ==
  /\ Login \notin Items
  /\ Rollover \in Nat \ {0} /\ MaxCalls \in Nat \ {0}

VARIABLES
  pc,       \* "idle", "write", "read", or "over": the socket is closed
  calls,    \* barcode asked about by each call so far, in order
  sentSeq,  \* AY number each call framed its message with
  ret,      \* how the calls returned, in order
  seq,      \* Conn.seq
  deadline, \* of the running call: none, still to come, or gone by
  rbuf,     \* pieces in the bufio.Reader
  toServer, \* messages in flight: call and AY number
  toClient, \* reply pieces in flight
  up        \* the ACS has not hung up

callVars == <<calls, sentSeq, ret, seq>>
netVars  == <<toServer, toClient, up>>
vars     == <<pc, callVars, deadline, rbuf, netVars>>

-----------------------------------------------------------------------------
Forms   == {"ok", "short"}  \* a proper reply, or one its parser refuses
Replies == [call : 1..MaxCalls, seq : 0..(Rollover - 1), form : Forms]
Parts   == {"text", "cr", "lf"}
Pieces  == [reply : Replies, part : Parts]
Piece(r, part) == [reply |-> r, part |-> part]
Outcomes == [kind : {"unsent", "timeout", "eof", "malformed"}]
              \cup [kind : {"ok", "short"}, reply : Replies]

cur == Len(calls)

Init ==
  /\ pc = "idle" /\ calls = <<>> /\ sentSeq = <<>> /\ ret = <<>>
  /\ seq = 0 /\ deadline = "none" /\ rbuf = <<>>
  /\ toServer = <<>> /\ toClient = <<>> /\ up = TRUE

-----------------------------------------------------------------------------
\* The calling goroutine.

\* ItemInformation, or the login of a Connect with a User, which is always the
\* first call.  SetDeadline replaces what an earlier call left on the socket.
Begin(item) ==
  /\ pc = "idle" /\ cur < MaxCalls
  /\ item = Login => cur = 0
  /\ calls' = Append(calls, item)
  /\ sentSeq' = Append(sentSeq, seq)
  /\ deadline' \in {"none", "pending"}
  /\ pc' = "write"
  /\ UNCHANGED <<ret, seq, rbuf, netVars>>

\* Mutant: the number does not move on.
WriteMessage_SameSeq ==
  /\ pc = "write" /\ deadline # "past"
  /\ toServer' = Append(toServer, [call |-> cur, seq |-> seq])
  /\ pc' = "read"
  /\ UNCHANGED <<calls, sentSeq, ret, seq, deadline, rbuf, toClient, up>>

\* Only a message that was written uses up its sequence number.
WriteMessage ==
  /\ pc = "write" /\ deadline # "past"
  /\ toServer' = Append(toServer, [call |-> cur, seq |-> seq % Rollover])
  /\ seq' = (seq + 1) % Rollover
  /\ pc' = "read"
  /\ UNCHANGED <<calls, sentSeq, ret, deadline, rbuf, toClient, up>>

\* A failed login closes the connection and no Conn is returned.
Return(o) ==
  /\ ret' = Append(ret, o)
  /\ pc' = IF calls[cur] = Login /\ o.kind # "ok" THEN "over" ELSE "idle"
  /\ UNCHANGED <<calls, sentSeq, deadline>>

WriteFails ==
  /\ pc = "write" /\ (deadline = "past" \/ ~up)
  /\ Return([kind |-> "unsent"])
  /\ UNCHANGED <<seq, rbuf, netVars>>

HasLine == \E i \in DOMAIN rbuf : rbuf[i].part = "cr"
Fill ==
  /\ pc = "read" /\ ~HasLine /\ deadline # "past"
  /\ \E n \in 1..Len(toClient) :
       /\ rbuf' = rbuf \o SubSeq(toClient, 1, n)
       /\ toClient' = SubSeq(toClient, n + 1, Len(toClient))
  /\ UNCHANGED <<pc, callVars, deadline, toServer, up>>

\* Mutant: the connection's deadline is not set for reads.
ReadFails_NoDeadline ==
  /\ pc = "read" /\ ~HasLine
  /\ deadline # "past" /\ ~up /\ toClient = <<>>
  /\ Return([kind |-> "eof"])
  /\ rbuf' = <<>>
  /\ UNCHANGED <<seq, netVars>>

\* ReadString hands back, and roundTrip drops, what it had of the line.
ReadFails ==
  /\ pc = "read" /\ ~HasLine
  /\ \/ deadline = "past" /\ Return([kind |-> "timeout"])
     \/ /\ deadline # "past" /\ ~up /\ toClient = <<>>
        /\ Return([kind |-> "eof"])
  /\ rbuf' = <<>>
  /\ UNCHANGED <<seq, netVars>>

\* What login and parseItemInfo make of a line: its text has to begin with the
\* code of the response to the message sent, so a line that begins with the
\* rest of an earlier one is refused.  Neither the barcode nor AY is compared.
Parse(line) ==
  LET r == line[1].reply
      isLogin(k) == calls[k] = Login
  IN IF line[1].part = "text" /\ (isLogin(r.call) <=> isLogin(cur))
       THEN [kind |-> r.form, reply |-> r]
       ELSE [kind |-> "malformed"]

\* The CR at end closes the first line of rbuf.
LineEnd(end) == rbuf[end].part = "cr" /\ \A i \in 1..(end - 1) : rbuf[i].part # "cr"

\* Mutant: the line is peeked at and stays in the buffer.
TakeLine_Peeked ==
  /\ pc = "read"
  /\ \E end \in DOMAIN rbuf : LineEnd(end) /\ Return(Parse(SubSeq(rbuf, 1, end)))
  /\ UNCHANGED <<rbuf, seq, netVars>>

TakeLine ==
  /\ pc = "read"
  /\ \E end \in DOMAIN rbuf :
       /\ LineEnd(end)
       /\ Return(Parse(SubSeq(rbuf, 1, end)))
       /\ rbuf' = SubSeq(rbuf, end + 1, Len(rbuf))
  /\ UNCHANGED <<seq, netVars>>

Close ==
  /\ pc = "idle"
  /\ pc' = "over"
  /\ UNCHANGED <<callVars, deadline, rbuf, netVars>>

-----------------------------------------------------------------------------
\* The clock and the ACS, which answers in order and echoes AY.

TimePasses ==
  /\ deadline = "pending" /\ pc # "over"
  /\ deadline' = "past"
  /\ UNCHANGED <<pc, callVars, rbuf, netVars>>

Serve(form, crlf) ==
  /\ up /\ toServer # <<>> /\ pc # "over"
  /\ LET m == Head(toServer)
         r == [call |-> m.call, seq |-> m.seq, form |-> form]
         eol == IF crlf THEN <<Piece(r, "cr"), Piece(r, "lf")>> ELSE <<Piece(r, "cr")>>
     IN toClient' = toClient \o <<Piece(r, "text")>> \o eol
  /\ toServer' = Tail(toServer)
  /\ UNCHANGED <<pc, callVars, deadline, rbuf, up>>

HangUp ==
  /\ up /\ pc # "over"
  /\ up' = FALSE
  /\ UNCHANGED <<pc, callVars, deadline, rbuf, toServer, toClient>>

Roundtrip == WriteMessage \/ WriteFails \/ Fill \/ ReadFails \/ TakeLine

Next == \/ \E item \in Items \cup {Login} : Begin(item)
        \/ Roundtrip
        \/ Close
        \/ TimePasses
        \/ \E form \in Forms, crlf \in BOOLEAN : Serve(form, crlf)
        \/ HangUp

Spec == Init /\ [][Next]_vars

\* The goroutine runs when it can.
FairSpec == Spec /\ WF_vars(Roundtrip)

-----------------------------------------------------------------------------
\* Properties.

\* Ranges, one outcome per call that has returned, AY within a digit.
TypeOK ==
  /\ pc \in {"idle", "write", "read", "over"}
  /\ calls \in Seq(Items \cup {Login}) /\ Len(calls) <= MaxCalls
  /\ sentSeq \in Seq(0..(Rollover - 1)) /\ Len(sentSeq) = Len(calls)
  /\ ret \in Seq(Outcomes)
  /\ Len(ret) = IF pc \in {"write", "read"} THEN Len(calls) - 1 ELSE Len(calls)
  /\ seq \in 0..(Rollover - 1)
  /\ deadline \in {"none", "pending", "past"}
  /\ rbuf \in Seq(Pieces) /\ toClient \in Seq(Pieces)
  /\ toServer \in Seq([call : 1..MaxCalls, seq : 0..(Rollover - 1)])
  /\ up \in BOOLEAN

\* A call that failed after its message was written leaves a reply to come.
Abandoned(k) == ret[k].kind = "timeout"
HasReply(k)  == ret[k].kind \in {"ok", "short"}

\* "A session is strictly request/response": while no call has been abandoned,
\* the reply a call takes is the reply to its own message.
InStepUntilAbandoned ==
  \A k \in DOMAIN ret :
    (HasReply(k) /\ \A j \in 1..(k - 1) : ~Abandoned(j)) => ret[k].reply.call = k

\* Out of step is for good: every reply a call takes answers the message of an
\* earlier call or its own, never one before a reply already taken, so a lost
\* step is not made up, and the gap only grows.
NeverCatchesUp ==
  \A j, k \in DOMAIN ret :
    (j < k /\ HasReply(j) /\ HasReply(k)) =>
      /\ ret[j].reply.call < ret[k].reply.call
      /\ ret[j].reply.call < j => ret[k].reply.call < k

\* The AY number framed into a message would tell every stale reply from the
\* call's own, as long as fewer than Rollover messages lie between them ("seq is
\* the caller's rolling 0-9 sequence number, echoed by the ACS in its reply").
SeqTellsStaleReply ==
  \A k \in DOMAIN ret :
    (HasReply(k) /\ ret[k].reply.call # k /\ k - ret[k].reply.call < Rollover)
      => ret[k].reply.seq # sentSeq[k]

\* "The context's deadline, when set, bounds the whole exchange": a call whose
\* deadline comes returns, whatever the ACS does.
DeadlineBoundsExchange ==
  \A k \in 1..MaxCalls :
    (cur = k /\ pc \in {"write", "read"} /\ deadline = "past") ~> (Len(ret) >= k)

\* "ItemInformation requests circulation status for one item barcode (17) and
\* parses the response (18)": what it returns is the status of that item.
StatusIsOfItemAsked ==
  \A k \in DOMAIN ret :
    ret[k].kind = "ok" => calls[ret[k].reply.call] = calls[k]
=============================================================================
