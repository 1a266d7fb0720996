-------------------------- MODULE Sip2Session_proofs --------------------------
(***************************************************************************)
(* Proofs about Sip2Session, for all sets of items, numbers of calls and   *)
(* AY numbers.                                                             *)
(***************************************************************************)
EXTENDS Sip2Session, SequenceTheorems, TLAPS

\* All that has left the ACS and has not been taken, in order.
wire == rbuf \o toClient

-----------------------------------------------------------------------------
\* Type correctness.

\* A rolled-over number is an AY number.
LEMMA RollsOver == \A n \in Nat : n % Rollover \in 0..(Rollover - 1)
BY SipAssumption

\* What a prefix or a suffix of a sequence holds is what the sequence held.
LEMMA PartOfSequence ==
  ASSUME NEW S, NEW s \in Seq(S), NEW n \in 0..Len(s)
  PROVE  /\ SubSeq(s, 1, n) \in Seq(S) /\ Len(SubSeq(s, 1, n)) = n
         /\ \A i \in 1..n : SubSeq(s, 1, n)[i] = s[i]
         /\ SubSeq(s, n + 1, Len(s)) \in Seq(S) /\ Len(SubSeq(s, n + 1, Len(s))) = Len(s) - n
         /\ \A i \in 1..(Len(s) - n) : SubSeq(s, n + 1, Len(s))[i] = s[i + n]
OBVIOUS

\* Three sequences make one, whichever two are joined first.
LEMMA Regroup ==
  ASSUME NEW S, NEW s \in Seq(S), NEW t \in Seq(S), NEW u \in Seq(S)
  PROVE  (s \o t) \o u = s \o (t \o u)
BY ConcatAssociative

\* Where the elements put behind two sequences come to stand.
LEMMA BehindSequence ==
  ASSUME NEW S, NEW s \in Seq(S), NEW t \in Seq(S), NEW a \in S, NEW e \in Seq(S),
         NEW w, w = s \o (t \o <<a>> \o e), NEW v, v = s \o t
  PROVE  /\ Len(w) = Len(v) + 1 + Len(e)
         /\ \A i \in 1..Len(v) : w[i] = v[i]
         /\ w[Len(v) + 1] = a
         /\ \A i \in 1..Len(e) : w[Len(v) + 1 + i] = e[i]
OBVIOUS

\* What Return leaves of the types, with any outcome.
LEMMA ReturnType ==
  ASSUME TypeOK, NEW o \in Outcomes, pc \in {"write", "read"}, Return(o)
  PROVE  /\ pc' \in {"idle", "over"}
         /\ ret' \in Seq(Outcomes) /\ ret' = Append(ret, o)
         /\ Len(ret') = Len(calls) /\ Len(ret) = Len(calls) - 1
         /\ calls' = calls /\ sentSeq' = sentSeq /\ deadline' = deadline
BY DEF TypeOK, Return

\* The outcomes of calls that took no reply.
LEMMA NoReplyOutcome ==
  \A kind \in {"unsent", "timeout", "eof", "malformed"} : [kind |-> kind] \in Outcomes
BY DEF Outcomes

\* Whatever line was taken, Parse makes an outcome of it.
LEMMA ParseType ==
  ASSUME NEW line \in Seq(Pieces), line # <<>>
  PROVE  Parse(line) \in Outcomes
<1>1. line[1] \in Pieces
  OBVIOUS
<1>2. line[1].reply \in Replies /\ line[1].reply.form \in {"ok", "short"}
  BY <1>1 DEF Pieces, Replies, Forms
<1>3. [kind |-> line[1].reply.form, reply |-> line[1].reply] \in Outcomes
  BY <1>2 DEF Outcomes
<1> QED
  BY <1>3, NoReplyOutcome DEF Parse

\* Type correctness is preserved by every step.
LEMMA TypeStep == TypeOK /\ [Next]_vars => TypeOK'
<1> SUFFICES ASSUME TypeOK, [Next]_vars PROVE TypeOK'
  OBVIOUS
<1>0. MaxCalls \in Nat \ {0} /\ Rollover \in Nat \ {0}
  BY SipAssumption
<1>1. ASSUME NEW item \in Items \cup {Login}, Begin(item) PROVE TypeOK'
  <2>1. /\ calls' \in Seq(Items \cup {Login}) /\ Len(calls') = Len(calls) + 1
        /\ Len(calls') <= MaxCalls
    BY <1>0, <1>1 DEF TypeOK, Begin, cur
  <2>2. sentSeq' \in Seq(0..(Rollover - 1)) /\ Len(sentSeq') = Len(calls')
    BY <1>0, <1>1, <2>1 DEF TypeOK, Begin
  <2> QED
    BY <1>1, <2>1, <2>2 DEF TypeOK, Begin, netVars
<1>2. CASE WriteMessage
  <2>1. cur \in 1..MaxCalls
    BY <1>0, <1>2 DEF TypeOK, WriteMessage, cur
  <2>2. seq % Rollover \in 0..(Rollover - 1) /\ (seq + 1) % Rollover \in 0..(Rollover - 1)
    <3>1. seq \in Nat /\ seq + 1 \in Nat
      BY <1>0 DEF TypeOK
    <3> QED
      BY <3>1, RollsOver
  <2>3. toServer' \in Seq([call : 1..MaxCalls, seq : 0..(Rollover - 1)])
    BY <1>2, <2>1, <2>2 DEF TypeOK, WriteMessage
  <2> QED
    BY <1>2, <2>2, <2>3 DEF TypeOK, WriteMessage
<1>3. CASE WriteFails
  <2>1. Return([kind |-> "unsent"])
    BY <1>3 DEF WriteFails
  <2> QED
    BY <1>3, <2>1, ReturnType, NoReplyOutcome DEF TypeOK, WriteFails, netVars
<1>4. CASE Fill
  <2>1. PICK n \in 1..Len(toClient) :
          /\ rbuf' = rbuf \o SubSeq(toClient, 1, n)
          /\ toClient' = SubSeq(toClient, n + 1, Len(toClient))
    BY <1>4 DEF Fill
  <2>2. rbuf \in Seq(Pieces) /\ toClient \in Seq(Pieces) /\ n \in 0..Len(toClient)
    BY <2>1 DEF TypeOK
  <2>3. SubSeq(toClient, 1, n) \in Seq(Pieces) /\ toClient' \in Seq(Pieces)
    BY <2>1, <2>2, PartOfSequence
  <2>4. rbuf' \in Seq(Pieces)
    BY <2>1, <2>2, <2>3
  <2> QED
    BY <1>4, <2>3, <2>4 DEF TypeOK, Fill, callVars
<1>5. CASE ReadFails
  <2>1. \E kind \in {"timeout", "eof"} : Return([kind |-> kind])
    BY <1>5 DEF ReadFails
  <2>2. PICK kind \in {"timeout", "eof"} : Return([kind |-> kind])
    BY <2>1
  <2>3. rbuf' \in Seq(Pieces)
    BY <1>5 DEF ReadFails
  <2> QED
    BY <1>5, <2>2, <2>3, ReturnType, NoReplyOutcome DEF TypeOK, ReadFails, netVars
<1>6. CASE TakeLine
  <2>1. PICK end \in DOMAIN rbuf :
          /\ LineEnd(end) /\ Return(Parse(SubSeq(rbuf, 1, end)))
          /\ rbuf' = SubSeq(rbuf, end + 1, Len(rbuf))
    BY <1>6 DEF TakeLine
  <2>2. end \in 1..Len(rbuf) /\ end \in 0..Len(rbuf) /\ rbuf \in Seq(Pieces)
    <3>1. rbuf \in Seq(Pieces)
      BY DEF TypeOK
    <3> QED
      BY <2>1, <3>1
  <2>3. SubSeq(rbuf, 1, end) \in Seq(Pieces) /\ SubSeq(rbuf, 1, end) # <<>>
    BY <2>2, PartOfSequence
  <2>4. rbuf' \in Seq(Pieces)
    BY <2>1, <2>2, PartOfSequence
  <2> QED
    BY <1>6, <2>1, <2>3, <2>4, ParseType, ReturnType DEF TypeOK, TakeLine, netVars
<1>7. CASE Close
  BY <1>7 DEF TypeOK, Close, callVars, netVars
<1>8. CASE TimePasses
  BY <1>8 DEF TypeOK, TimePasses, callVars, netVars
<1>9. ASSUME NEW form \in Forms, NEW crlf \in BOOLEAN, Serve(form, crlf) PROVE TypeOK'
  <2> DEFINE m == Head(toServer)
             r == [call |-> m.call, seq |-> m.seq, form |-> form]
             eol == IF crlf THEN <<Piece(r, "cr"), Piece(r, "lf")>> ELSE <<Piece(r, "cr")>>
  <2>1. toClient' = toClient \o <<Piece(r, "text")>> \o eol /\ toServer' = Tail(toServer)
    BY <1>9 DEF Serve
  <2>2. m \in [call : 1..MaxCalls, seq : 0..(Rollover - 1)] /\ toServer' \in Seq([call : 1..MaxCalls, seq : 0..(Rollover - 1)])
    <3>1. toServer \in Seq([call : 1..MaxCalls, seq : 0..(Rollover - 1)]) /\ toServer # <<>>
      BY <1>9 DEF Serve, TypeOK
    <3> QED
      BY <2>1, <3>1, HeadTailProperties
  <2>3. r \in Replies
    BY <2>2 DEF Replies
  <2>4. Piece(r, "text") \in Pieces /\ Piece(r, "cr") \in Pieces /\ Piece(r, "lf") \in Pieces
    BY <2>3 DEF Piece, Pieces, Parts
  <2>5. eol \in Seq(Pieces) /\ <<Piece(r, "text")>> \in Seq(Pieces)
    BY <2>4
  <2> HIDE DEF eol, r
  <2>6. toClient' \in Seq(Pieces)
    BY <2>1, <2>5 DEF TypeOK
  <2> QED
    BY <1>9, <2>2, <2>6 DEF TypeOK, Serve, callVars
<1>10. CASE HangUp
  BY <1>10 DEF TypeOK, HangUp, callVars
<1>11. CASE UNCHANGED vars
  BY <1>11 DEF TypeOK, vars, callVars, netVars
<1> QED
  BY <1>1, <1>2, <1>3, <1>4, <1>5, <1>6, <1>7, <1>8, <1>9, <1>10, <1>11 DEF Next, Roundtrip

\* The fields of a Conn, its bufio.Reader and what is on the socket keep to their
\* ranges, and each call that returned has one outcome (sip2/sip2.go).
THEOREM TypeCorrect == Spec => []TypeOK
<1>1. Init => TypeOK
  BY SipAssumption DEF Init, TypeOK
<1> QED
  BY <1>1, TypeStep, PTL DEF Spec

-----------------------------------------------------------------------------
\* The invariant.

\* q may come after p on its way from the ACS: replies in the order of their
\* messages, each as its text, its CR and perhaps an LF.
Follows(p, q) ==
  \/ p.reply.call < q.reply.call
  \/ /\ p.reply.call = q.reply.call
     /\ (p.part = "text" /\ q.part # "text") \/ (p.part = "cr" /\ q.part = "lf")

\* The last call whose message was written.
written == IF pc = "write" THEN cur - 1 ELSE cur

\* Messages and replies pass on the wire in the order of the calls, and a text
\* that has left the ACS has its CR behind it.
WireInOrder ==
  /\ \A i, j \in 1..Len(wire) : i < j => Follows(wire[i], wire[j])
  /\ \A i, j \in 1..Len(toServer) : i < j => toServer[i].call < toServer[j].call
  /\ \A i \in 1..Len(wire), j \in 1..Len(toServer) : wire[i].reply.call < toServer[j].call
  /\ \A i \in 1..Len(wire) : wire[i].reply.call <= written
  /\ \A j \in 1..Len(toServer) : toServer[j].call <= written
  /\ \A i \in 1..Len(wire) : wire[i].part = "text" =>
       i < Len(wire) /\ wire[i + 1].part = "cr" /\ wire[i + 1].reply = wire[i].reply

\* A reply that was taken is behind every text and message still under way.
TakenFirst ==
  \A k \in 1..Len(ret) : HasReply(k) =>
    /\ ret[k].reply.call <= k
    /\ \A i \in 1..Len(wire) : wire[i].part = "text" => ret[k].reply.call < wire[i].reply.call
    /\ \A j \in 1..Len(toServer) : ret[k].reply.call < toServer[j].call

\* The line that answers message m, or m itself, is still to come.
Owed(m) ==
  \/ \E i \in 1..Len(wire) : wire[i].part = "cr" /\ wire[i].reply.call = m
  \/ \E j \in 1..Len(toServer) : toServer[j].call = m

\* A call that reads is owed its own line, and once a call has taken the reply
\* of an earlier one, a line of a call that is over is owed for good.
LinesOwed ==
  /\ pc = "read" => Owed(cur)
  /\ (\E j \in 1..Len(ret) : HasReply(j) /\ ret[j].reply.call < j) => \E m \in 1..Len(ret) : Owed(m)

\* As long as no call timed out, nothing but line ends is left for the next one.
NothingLeft ==
  (\A j \in 1..Len(ret) : ~Abandoned(j)) =>
    /\ \A i \in 1..Len(wire) : wire[i].part # "lf" => pc = "read" /\ wire[i].reply.call = cur
    /\ up => \A j \in 1..Len(toServer) : pc = "read" /\ toServer[j].call = cur

-----------------------------------------------------------------------------
\* What the steps do to what is on the wire.

\* The first n pieces leave it.
Drops(n) ==
  /\ n \in 0..Len(wire) /\ Len(wire') = Len(wire) - n
  /\ \A i \in 1..Len(wire') : wire'[i] = wire[i + n]

\* The wire is made of pieces, the bufio.Reader's first.
LEMMA WireType ==
  ASSUME TypeOK
  PROVE  /\ wire \in Seq(Pieces) /\ Len(wire) = Len(rbuf) + Len(toClient)
         /\ \A i \in 1..Len(rbuf) : wire[i] = rbuf[i]
         /\ \A i \in 1..Len(toClient) : wire[Len(rbuf) + i] = toClient[i]
BY DEF TypeOK, wire

\* A piece is of a reply to a call.
LEMMA PieceType ==
  ASSUME NEW p \in Pieces
  PROVE  p.reply.call \in Nat /\ p.part \in {"text", "cr", "lf"}
BY SipAssumption DEF Pieces, Replies, Parts

\* A message is of a call and has an AY number.
Messages == [call : 1..MaxCalls, seq : 0..(Rollover - 1)]

\* What is on its way to the ACS, as a sequence of messages.
LEMMA MessageType ==
  ASSUME TypeOK
  PROVE  /\ toServer \in Seq(Messages) /\ DOMAIN toServer = 1..Len(toServer)
         /\ \A j \in DOMAIN toServer : toServer[j] \in Messages /\ toServer[j].call \in Nat
<1>1. toServer \in Seq(Messages)
  BY DEF TypeOK, Messages
<1>2. \A j \in DOMAIN toServer : toServer[j] \in Messages
  BY <1>1, ElementOfSeq
<1>3. \A m \in Messages : m.call \in Nat
  BY SipAssumption DEF Messages
<1> QED
  BY <1>1, <1>2, <1>3

\* Reading into the bufio.Reader takes nothing off the wire.
LEMMA FillWire == TypeOK /\ Fill => wire' = wire
<1> SUFFICES ASSUME TypeOK, Fill PROVE wire' = wire
  OBVIOUS
<1>1. PICK n \in 1..Len(toClient) :
        /\ rbuf' = rbuf \o SubSeq(toClient, 1, n)
        /\ toClient' = SubSeq(toClient, n + 1, Len(toClient))
  BY DEF Fill
<1>2. rbuf \in Seq(Pieces) /\ toClient \in Seq(Pieces)
  BY DEF TypeOK
<1>3. n \in 0..Len(toClient)
  BY <1>1, <1>2
<1>4. toClient = SubSeq(toClient, 1, n) \o SubSeq(toClient, n + 1, Len(toClient))
  BY <1>2, <1>3
<1>5. /\ SubSeq(toClient, 1, n) \in Seq(Pieces)
      /\ SubSeq(toClient, n + 1, Len(toClient)) \in Seq(Pieces)
  BY <1>2, <1>3, PartOfSequence
<1>6. ASSUME NEW s \in Seq(Pieces), NEW t \in Seq(Pieces) PROVE (rbuf \o s) \o t = rbuf \o (s \o t)
  <2>1. PICK S, r : S = Pieces /\ r = rbuf
    OBVIOUS
  <2>2. r \in Seq(S) /\ s \in Seq(S) /\ t \in Seq(S)
    BY <1>2, <2>1
  <2>3. (r \o s) \o t = r \o (s \o t)
    BY <2>2, Regroup
  <2> QED
    BY <2>1, <2>3
<1> QED
  BY <1>1, <1>4, <1>5, <1>6 DEF wire

\* A call that reads takes the first line, and makes at most a reply of its text.
LEMMA TakeWire ==
  ASSUME TypeOK, TakeLine
  PROVE  /\ pc = "read" /\ toServer' = toServer /\ up' = up
         /\ \E end \in 1..Len(wire), o \in Outcomes :
              /\ Drops(end) /\ Return(o) /\ o.kind \notin {"timeout", "unsent"}
              /\ wire[end].part = "cr" /\ \A i \in 1..(end - 1) : wire[i].part # "cr"
              /\ o.kind \in {"ok", "short"} => wire[1].part = "text" /\ o.reply = wire[1].reply
<1>1. PICK end \in DOMAIN rbuf :
        /\ LineEnd(end) /\ Return(Parse(SubSeq(rbuf, 1, end)))
        /\ rbuf' = SubSeq(rbuf, end + 1, Len(rbuf))
  BY DEF TakeLine
<1>2. rbuf \in Seq(Pieces) /\ toClient \in Seq(Pieces) /\ toClient' = toClient
  BY DEF TypeOK, TakeLine, netVars
<1>3. end \in 1..Len(rbuf) /\ end \in 0..Len(rbuf)
  BY <1>1, <1>2
<1> DEFINE line == SubSeq(rbuf, 1, end)
           o == Parse(line)
<1>4. line \in Seq(Pieces) /\ line # <<>> /\ line[1] = rbuf[1]
  BY <1>2, <1>3, PartOfSequence
<1>5. rbuf' \in Seq(Pieces) /\ Len(rbuf') = Len(rbuf) - end
      /\ \A i \in 1..Len(rbuf') : rbuf'[i] = rbuf[i + end]
  BY <1>1, <1>2, <1>3, PartOfSequence
<1>6. end \in 1..Len(wire) /\ \A i \in 1..Len(rbuf) : wire[i] = rbuf[i]
  BY <1>2, <1>3, WireType
<1>7. Drops(end)
  <2>1. Len(wire') = Len(rbuf') + Len(toClient) /\ Len(wire) = Len(rbuf) + Len(toClient)
    BY <1>2, <1>5 DEF wire
  <2>2. \A i \in 1..Len(wire') : wire'[i] = wire[i + end]
    BY <1>2, <1>3, <1>5 DEF wire
  <2> QED
    BY <1>2, <1>3, <1>5, <2>1, <2>2 DEF Drops
<1>8. o \in Outcomes
  BY <1>4, ParseType
<1>9. /\ o.kind \notin {"timeout", "unsent"}
      /\ o.kind \in {"ok", "short"} => wire[1].part = "text" /\ o.reply = wire[1].reply
  <2>1. line[1] \in Pieces /\ line[1] = wire[1]
    BY <1>3, <1>4, <1>6
  <2>2. line[1].reply.form \in {"ok", "short"}
    BY <2>1 DEF Pieces, Replies, Forms
  <2> HIDE DEF line
  <2> QED
    BY <2>1, <2>2 DEF Parse
<1>10. wire[end].part = "cr" /\ \A i \in 1..(end - 1) : wire[i].part # "cr"
  <2>1. rbuf[end].part = "cr" /\ \A i \in 1..(end - 1) : rbuf[i].part # "cr"
    BY <1>1 DEF LineEnd
  <2>2. end \in Nat /\ Len(rbuf) \in Nat /\ end <= Len(rbuf)
    BY <1>2, <1>3
  <2> QED
    BY <2>1, <2>2, <1>3, <1>6
<1> QED
  BY <1>1, <1>6, <1>7, <1>8, <1>9, <1>10 DEF TakeLine, netVars

\* A failed read drops the beginning of a line, and only a deadline leaves more
\* of it, or more lines, to come from an ACS that is up.
LEMMA FailWire ==
  ASSUME TypeOK, ReadFails
  PROVE  /\ pc = "read" /\ toServer' = toServer /\ up' = up
         /\ \E n \in 0..Len(wire), o \in Outcomes :
              /\ Drops(n) /\ Return(o) /\ o.kind \in {"timeout", "eof"}
              /\ \A i \in 1..n : wire[i].part # "cr"
              /\ o.kind = "eof" => n = Len(wire) /\ ~up
<1> DEFINE n == Len(rbuf)
<1>1. rbuf \in Seq(Pieces) /\ toClient \in Seq(Pieces) /\ toClient' = toClient /\ rbuf' = <<>>
  BY DEF TypeOK, ReadFails, netVars
<1>2. n \in 0..Len(wire) /\ \A i \in 1..n : wire[i] = rbuf[i]
  BY <1>1, WireType
<1>3. wire' = toClient
  BY <1>1 DEF wire
<1>4. Drops(n)
  BY <1>1, <1>2, <1>3, WireType DEF Drops
<1>5. \A i \in 1..n : wire[i].part # "cr"
  BY <1>1, <1>2 DEF ReadFails, HasLine
<1>6. \E o \in Outcomes : /\ Return(o) /\ o.kind \in {"timeout", "eof"}
                          /\ o.kind = "eof" => n = Len(wire) /\ ~up
  <2>1. CASE Return([kind |-> "timeout"])
    BY <2>1, NoReplyOutcome
  <2>2. CASE ~up /\ toClient = <<>> /\ Return([kind |-> "eof"])
    BY <2>2, NoReplyOutcome, WireType
  <2> QED
    BY <2>1, <2>2 DEF ReadFails
<1> QED
  BY <1>2, <1>4, <1>5, <1>6 DEF ReadFails, netVars

\* The ACS puts the reply to its first message behind all that is on the wire.
LEMMA ServeWire ==
  ASSUME TypeOK, NEW form \in Forms, NEW crlf \in BOOLEAN, Serve(form, crlf)
  PROVE  /\ toServer # <<>> /\ up /\ toServer' = Tail(toServer)
         /\ UNCHANGED <<pc, calls, ret, up>>
         /\ Len(wire') \in {Len(wire) + 2, Len(wire) + 3}
         /\ \A i \in 1..Len(wire) : wire'[i] = wire[i]
         /\ \E r \in Replies :
              /\ r.call = toServer[1].call /\ r.seq = toServer[1].seq
              /\ wire'[Len(wire) + 1] = Piece(r, "text")
              /\ wire'[Len(wire) + 2] = Piece(r, "cr")
              /\ Len(wire') = Len(wire) + 3 => wire'[Len(wire) + 3] = Piece(r, "lf")
<1> DEFINE r == [call |-> Head(toServer).call, seq |-> Head(toServer).seq, form |-> form]
           eol == IF crlf THEN <<Piece(r, "cr"), Piece(r, "lf")>> ELSE <<Piece(r, "cr")>>
<1>1. rbuf \in Seq(Pieces) /\ toClient \in Seq(Pieces) /\ rbuf' = rbuf
      /\ toClient' = toClient \o <<Piece(r, "text")>> \o eol
  BY DEF TypeOK, Serve
<1>2. toServer \in Seq(Messages) /\ toServer # <<>>
  BY MessageType DEF Serve
<1>3. r.call = toServer[1].call /\ r.seq = toServer[1].seq /\ r \in Replies
  <2>1. Head(toServer) \in Messages /\ Head(toServer) = toServer[1]
    BY <1>2
  <2> QED
    BY <2>1 DEF Replies, Messages
<1> HIDE DEF r
<1>4. /\ Piece(r, "text") \in Pieces /\ eol \in Seq(Pieces) /\ Len(eol) \in {1, 2}
      /\ eol[1] = Piece(r, "cr") /\ (Len(eol) = 2 => eol[2] = Piece(r, "lf"))
  <2>1. \A part \in {"text", "cr", "lf"} : Piece(r, part) \in Pieces
    BY <1>3 DEF Piece, Pieces, Parts
  <2> QED
    BY <2>1
<1> HIDE DEF eol
<1>5. wire' = rbuf \o (toClient \o <<Piece(r, "text")>> \o eol) /\ wire = rbuf \o toClient
  BY <1>1 DEF wire
<1>6. /\ Len(wire') = Len(wire) + 1 + Len(eol)
      /\ \A i \in 1..Len(wire) : wire'[i] = wire[i]
      /\ wire'[Len(wire) + 1] = Piece(r, "text")
      /\ \A i \in 1..Len(eol) : wire'[Len(wire) + 1 + i] = eol[i]
  <2>1. rbuf \in Seq(Pieces) /\ toClient \in Seq(Pieces) /\ Piece(r, "text") \in Pieces /\ eol \in Seq(Pieces)
    BY <1>1, <1>4
  <2> QED
    BY <1>5, <2>1, BehindSequence, SMTT(30)
<1>7. Len(wire) \in Nat
  BY WireType
<1> QED
  <2>1. /\ up /\ toServer' = Tail(toServer) /\ UNCHANGED <<pc, calls, ret, up>>
    BY DEF Serve, callVars
  <2>2. wire'[Len(wire) + 2] = Piece(r, "cr")
    BY <1>4, <1>6, <1>7
  <2>3. Len(wire') = Len(wire) + 3 => wire'[Len(wire) + 3] = Piece(r, "lf")
    BY <1>4, <1>6, <1>7
  <2>4. Len(wire') \in {Len(wire) + 2, Len(wire) + 3}
    BY <1>4, <1>6, <1>7
  <2> QED
    BY <2>1, <2>2, <2>3, <2>4, <1>2, <1>3, <1>6

-----------------------------------------------------------------------------
\* The invariant is preserved.

Inv == /\ TypeOK /\ WireInOrder /\ TakenFirst /\ LinesOwed /\ NothingLeft
       /\ InStepUntilAbandoned /\ NeverCatchesUp

\* Elements of the wire, of the messages and of the outcomes, for the provers.
LEMMA Elements ==
  ASSUME TypeOK
  PROVE  /\ Len(wire) \in Nat /\ DOMAIN wire = 1..Len(wire)
         /\ \A i \in 1..Len(wire) : wire[i].reply.call \in Nat /\ wire[i].part \in {"text", "cr", "lf"}
         /\ Len(toServer) \in Nat /\ DOMAIN toServer = 1..Len(toServer)
         /\ \A j \in 1..Len(toServer) : toServer[j].call \in Nat
         /\ cur \in Nat /\ Len(ret) \in Nat /\ DOMAIN ret = 1..Len(ret)
         /\ Len(ret) = IF pc \in {"write", "read"} THEN cur - 1 ELSE cur
         /\ \A k \in 1..Len(ret) : HasReply(k) => ret[k].reply.call \in Nat
<1>1. wire \in Seq(Pieces) /\ \A i \in 1..Len(wire) : wire[i] \in Pieces
  BY WireType, ElementOfSeq
<1>2. \A k \in 1..Len(ret) : ret[k] \in Outcomes
  BY ElementOfSeq DEF TypeOK
<1>3. \A o \in Outcomes : o.kind \in {"ok", "short"} => o.reply.call \in Nat
  BY SipAssumption DEF Outcomes, Replies
<1>4. /\ Len(wire) \in Nat /\ DOMAIN wire = 1..Len(wire)
      /\ \A i \in 1..Len(wire) : wire[i].reply.call \in Nat /\ wire[i].part \in {"text", "cr", "lf"}
  BY <1>1, PieceType
<1>5. /\ Len(toServer) \in Nat /\ DOMAIN toServer = 1..Len(toServer)
      /\ \A j \in 1..Len(toServer) : toServer[j].call \in Nat
  BY MessageType
<1>6. /\ cur \in Nat /\ Len(ret) \in Nat /\ DOMAIN ret = 1..Len(ret)
      /\ Len(ret) = IF pc \in {"write", "read"} THEN cur - 1 ELSE cur
  BY DEF TypeOK, cur
<1> QED
  BY <1>2, <1>3, <1>4, <1>5, <1>6 DEF HasReply

\* After a step the same sequences are sequences.
LEMMA ElementsNext ==
  ASSUME TypeOK'
  PROVE  /\ Len(wire') \in Nat /\ DOMAIN wire' = 1..Len(wire')
         /\ Len(toServer') \in Nat /\ DOMAIN toServer' = 1..Len(toServer')
         /\ Len(ret') \in Nat /\ DOMAIN ret' = 1..Len(ret')
<1>1. wire' \in Seq(Pieces)
  BY DEF TypeOK, wire
<1>2. toServer' \in Seq(Messages)
  BY DEF TypeOK, Messages
<1>3. ret' \in Seq(Outcomes)
  BY DEF TypeOK
<1> QED
  BY <1>1, <1>2, <1>3

\* A step that moves nothing on the wire and returns from no call.
LEMMA QuietStep ==
  ASSUME Inv, TypeOK', wire' = wire, toServer' = toServer, ret' = ret, up' => up,
         written' = written, pc' = "read" <=> pc = "read", pc' = "read" => cur' = cur
  PROVE  Inv'
<1>1. WireInOrder'
  BY DEF Inv, WireInOrder
<1>2. TakenFirst'
  BY DEF Inv, TakenFirst, HasReply
<1>3. LinesOwed'
  BY DEF Inv, LinesOwed, HasReply, Owed
<1>4. NothingLeft'
  BY DEF Inv, NothingLeft, Abandoned
<1>5. InStepUntilAbandoned' /\ NeverCatchesUp'
  BY DEF Inv, InStepUntilAbandoned, NeverCatchesUp, HasReply, Abandoned
<1> QED
  BY <1>1, <1>2, <1>3, <1>4, <1>5 DEF Inv

\* A message that is written is the last of all under way.
LEMMA WriteStep ==
  ASSUME Inv, TypeOK', WriteMessage
  PROVE  Inv'
<1>1. /\ pc = "write" /\ pc' = "read" /\ ret' = ret /\ up' = up /\ cur' = cur /\ wire' = wire
      /\ toServer' = Append(toServer, [call |-> cur, seq |-> seq % Rollover])
  BY DEF WriteMessage, cur, wire
<1>2. /\ Len(toServer') = Len(toServer) + 1 /\ toServer'[Len(toServer) + 1].call = cur
      /\ \A j \in 1..Len(toServer) : toServer'[j] = toServer[j]
  BY <1>1 DEF Inv, TypeOK
<1>3. written = cur - 1 /\ written' = cur
  BY <1>1 DEF written
<1> USE Elements DEF Inv
<1>4. WireInOrder'
  <2>1. /\ \A i \in 1..Len(wire) : wire[i].reply.call < cur
        /\ \A j \in 1..Len(toServer) : toServer[j].call < cur
    BY <1>3 DEF WireInOrder
  <2>2. Len(toServer) \in Nat
    OBVIOUS
  <2>3. ASSUME NEW i \in 1..Len(toServer'), NEW j \in 1..Len(toServer'), i < j
        PROVE  toServer'[i].call < toServer'[j].call
    <3>1. i \in 1..Len(toServer) /\ toServer'[i] = toServer[i]
      BY <1>2, <2>2, <2>3
    <3>2. CASE j = Len(toServer) + 1
      BY <1>2, <2>1, <3>1, <3>2
    <3>3. CASE j \in 1..Len(toServer)
      BY <1>2, <2>3, <3>1, <3>3 DEF WireInOrder
    <3> QED
      BY <1>2, <2>2, <3>2, <3>3
  <2>4. \A i \in 1..Len(wire), j \in 1..Len(toServer') : wire[i].reply.call < toServer'[j].call
    BY <1>2, <2>1, <2>2 DEF WireInOrder
  <2>5. /\ \A i \in 1..Len(wire) : wire[i].reply.call <= cur
        /\ \A j \in 1..Len(toServer') : toServer'[j].call <= cur
    <3>1. \A i \in 1..Len(wire) : wire[i].reply.call <= cur
      BY <1>3 DEF WireInOrder
    <3>2. \A j \in 1..Len(toServer) : toServer'[j].call <= cur
      BY <1>2, <1>3 DEF WireInOrder
    <3>3. cur <= cur /\ toServer'[Len(toServer) + 1].call = cur
      BY <1>2
    <3>4. \A j \in 1..Len(toServer') : j \in 1..Len(toServer) \/ j = Len(toServer) + 1
      BY <1>2, <2>2
    <3> QED
      BY <3>1, <3>2, <3>3, <3>4
  <2> QED
    BY <1>1, <1>3, <2>3, <2>4, <2>5 DEF WireInOrder
<1>5. TakenFirst'
  BY <1>1, <1>2 DEF TakenFirst, HasReply
<1>6. LinesOwed'
  <2>1. \A m : Owed(m) => Owed(m)'
    BY <1>1, <1>2 DEF Owed
  <2>2. Owed(cur)'
    BY <1>1, <1>2 DEF Owed
  <2> QED
    BY <1>1, <2>1, <2>2 DEF LinesOwed, HasReply
<1>7. NothingLeft'
  BY <1>1, <1>2 DEF NothingLeft, Abandoned
<1>8. InStepUntilAbandoned' /\ NeverCatchesUp'
  BY <1>1 DEF InStepUntilAbandoned, NeverCatchesUp, HasReply, Abandoned
<1> QED
  BY <1>4, <1>5, <1>6, <1>7, <1>8

\* A reply comes to stand behind all that is on the wire, and its message was
\* before all the others.
LEMMA ServeStep ==
  ASSUME Inv, TypeOK', NEW form \in Forms, NEW crlf \in BOOLEAN, Serve(form, crlf)
  PROVE  Inv'
<1>1. /\ toServer # <<>> /\ up /\ toServer' = Tail(toServer)
      /\ pc' = pc /\ calls' = calls /\ ret' = ret /\ up' = up
  BY ServeWire DEF Inv
<1>L. PICK L \in Nat : L = Len(wire)
  BY Elements DEF Inv
<1>M. PICK M \in {L + 2, L + 3} : M = Len(wire')
  BY <1>L, ServeWire DEF Inv
<1>K. PICK K \in Nat : K = Len(toServer') /\ K + 1 = Len(toServer)
  <2>1. toServer \in Seq(Messages)
    BY MessageType DEF Inv
  <2>2. Len(toServer) \in Nat \ {0} /\ Len(toServer') = Len(toServer) - 1
    BY <1>1, <2>1, EmptySeq, HeadTailProperties
  <2> QED
    BY <2>2
<1>c. PICK c \in Nat : c = toServer[1].call
  BY <1>K, Elements DEF Inv
<1>s. \A j \in 1..K : toServer'[j] = toServer[j + 1]
  <2>1. toServer \in Seq(Messages)
    BY MessageType DEF Inv
  <2> QED
    BY <1>1, <1>K, <2>1, HeadTailProperties
<1>w. \A i \in 1..L : wire'[i] = wire[i]
  BY <1>L, ServeWire DEF Inv
<1>n. /\ \A i \in 1..L : wire[i].reply.call \in Nat
      /\ \A j \in 1..K : toServer'[j].call \in Nat
  <2>1. \A i \in 1..L : wire[i].reply.call \in Nat
    BY <1>L, Elements DEF Inv
  <2>2. \A j \in 1..(K + 1) : toServer[j].call \in Nat
    BY <1>K, Elements DEF Inv
  <2>3. \A j \in 1..K : j + 1 \in 1..(K + 1)
    OBVIOUS
  <2> QED
    BY <1>s, <2>1, <2>2, <2>3
<1>r. /\ DOMAIN ret = 1..Len(ret) /\ Len(ret) \in Nat
      /\ \A k \in 1..Len(ret) : HasReply(k) => ret[k].reply.call \in Nat
  BY Elements DEF Inv
<1>2. PICK r \in Replies :
        /\ r.call = toServer[1].call
        /\ wire'[Len(wire) + 1] = Piece(r, "text")
        /\ wire'[Len(wire) + 2] = Piece(r, "cr")
        /\ Len(wire') = Len(wire) + 3 => wire'[Len(wire) + 3] = Piece(r, "lf")
  BY ServeWire DEF Inv
<1>3. /\ wire'[L + 1].reply = r /\ wire'[L + 1].part = "text"
      /\ wire'[L + 2].reply = r /\ wire'[L + 2].part = "cr"
      /\ M = L + 3 => wire'[L + 3].reply = r /\ wire'[L + 3].part = "lf"
      /\ r.call = c
  BY <1>L, <1>M, <1>c, <1>2 DEF Piece
<1>4. \A i \in (L + 1)..M : i = L + 1 \/ i = L + 2 \/ (i = L + 3 /\ M = L + 3)
  OBVIOUS
<1>5. written' = written /\ cur' = cur
  BY <1>1 DEF written, cur
<1>6. \A j \in 1..K : c < toServer'[j].call
  BY <1>K, <1>c, <1>s DEF Inv, WireInOrder
<1>7. \A i \in (L + 1)..M : wire'[i].reply.call = c
  BY <1>3, <1>4
<1>8. c <= written /\ \A i \in 1..L : wire[i].reply.call < c
  BY <1>L, <1>K, <1>c DEF Inv, WireInOrder
<1>9. written \in Int
  BY Elements DEF Inv, written
<1>10. WireInOrder'
  <2>1. ASSUME NEW i \in 1..M, NEW j \in 1..M, i < j
        PROVE  Follows(wire'[i], wire'[j])
    <3>1. CASE j <= L
      <4>1. i \in 1..L /\ j \in 1..L
        BY <2>1, <3>1
      <4> QED
        BY <1>L, <1>w, <2>1, <4>1 DEF Inv, WireInOrder
    <3>2. CASE i <= L /\ j > L
      <4>1. i \in 1..L /\ j \in (L + 1)..M
        BY <3>2
      <4> QED
        BY <1>7, <1>8, <1>w, <4>1 DEF Follows
    <3>3. CASE i > L
      <4>1. i \in (L + 1)..M /\ j \in (L + 1)..M
        BY <2>1, <3>3
      <4>2. \/ i = L + 1 /\ j = L + 2
            \/ i = L + 1 /\ j = L + 3 /\ M = L + 3
            \/ i = L + 2 /\ j = L + 3 /\ M = L + 3
        BY <1>4, <2>1, <4>1
      <4> QED
        BY <1>3, <4>2 DEF Follows
    <3> QED
      BY <3>1, <3>2, <3>3
  <2>2. \A i, j \in 1..K : i < j => toServer'[i].call < toServer'[j].call
    BY <1>K, <1>s DEF Inv, WireInOrder
  <2>s. \A i \in 1..M : i \in 1..L \/ i \in (L + 1)..M
    OBVIOUS
  <2>3. \A i \in 1..M, j \in 1..K : wire'[i].reply.call < toServer'[j].call
    <3>1. ASSUME NEW i \in 1..M, NEW j \in 1..K PROVE wire'[i].reply.call < toServer'[j].call
      <4>1. CASE i \in 1..L
        BY <1>w, <1>n, <1>6, <1>8, <4>1
      <4>2. CASE i \in (L + 1)..M
        BY <1>6, <1>7, <4>2
      <4> QED
        BY <2>s, <4>1, <4>2
    <3> QED
      BY <3>1
  <2>4. \A i \in 1..M : wire'[i].reply.call <= written
    <3>1. ASSUME NEW i \in 1..L PROVE wire'[i].reply.call <= written
      BY <1>w, <1>n, <1>8, <1>9
    <3> QED
      BY <1>7, <1>8, <2>s, <3>1
  <2>5. \A j \in 1..K : toServer'[j].call <= written
    BY <1>K, <1>s DEF Inv, WireInOrder
  <2>6. \A i \in 1..M : wire'[i].part = "text" =>
          i < M /\ wire'[i + 1].part = "cr" /\ wire'[i + 1].reply = wire'[i].reply
    <3>1. ASSUME NEW i \in 1..L, wire'[i].part = "text"
          PROVE  i < M /\ wire'[i + 1].part = "cr" /\ wire'[i + 1].reply = wire'[i].reply
      <4>1. i < L /\ wire[i + 1].part = "cr" /\ wire[i + 1].reply = wire[i].reply
        BY <1>L, <1>w, <3>1 DEF Inv, WireInOrder
      <4>2. i + 1 \in 1..L /\ i < M
        BY <4>1
      <4> QED
        BY <1>w, <4>1, <4>2
    <3>2. ASSUME NEW i \in (L + 1)..M, wire'[i].part = "text"
          PROVE  i < M /\ wire'[i + 1].part = "cr" /\ wire'[i + 1].reply = wire'[i].reply
      <4>1. i = L + 1
        BY <1>3, <1>4, <3>2
      <4> QED
        BY <1>3, <4>1
    <3> QED
      BY <2>s, <3>1, <3>2
  <2>7. /\ \A i, j \in 1..Len(wire') : i < j => Follows(wire'[i], wire'[j])
        /\ \A i, j \in 1..Len(toServer') : i < j => toServer'[i].call < toServer'[j].call
    BY <1>M, <1>K, <2>1, <2>2
  <2>8. \A i \in 1..Len(wire'), j \in 1..Len(toServer') : wire'[i].reply.call < toServer'[j].call
    BY <1>M, <1>K, <2>3
  <2>9. /\ \A i \in 1..Len(wire') : wire'[i].reply.call <= written'
        /\ \A j \in 1..Len(toServer') : toServer'[j].call <= written'
    BY <1>M, <1>K, <1>5, <2>4, <2>5
  <2>10. \A i \in 1..Len(wire') : wire'[i].part = "text" =>
           i < Len(wire') /\ wire'[i + 1].part = "cr" /\ wire'[i + 1].reply = wire'[i].reply
    BY <1>M, <2>6
  <2> QED
    BY <2>7, <2>8, <2>9, <2>10 DEF WireInOrder
<1>11. TakenFirst'
  <2>1. ASSUME NEW k \in 1..Len(ret), HasReply(k)
        PROVE  /\ ret[k].reply.call <= k
               /\ \A i \in 1..M : wire'[i].part = "text" => ret[k].reply.call < wire'[i].reply.call
               /\ \A j \in 1..K : ret[k].reply.call < toServer'[j].call
    <3>1. /\ ret[k].reply.call \in Nat /\ ret[k].reply.call <= k /\ ret[k].reply.call < c
      BY <1>r, <1>K, <1>c, <2>1 DEF Inv, TakenFirst
    <3>2. \A i \in 1..L : wire'[i].part = "text" => ret[k].reply.call < wire'[i].reply.call
      BY <1>L, <1>w, <2>1 DEF Inv, TakenFirst
    <3>3. \A i \in (L + 1)..M : ret[k].reply.call < wire'[i].reply.call
      BY <1>7, <3>1
    <3>4. \A i \in 1..M : i \in 1..L \/ i \in (L + 1)..M
      OBVIOUS
    <3>5. \A j \in 1..K : ret[k].reply.call < toServer'[j].call
      BY <1>n, <1>6, <3>1
    <3> QED
      BY <3>1, <3>2, <3>3, <3>4, <3>5
  <2> QED
    BY <1>1, <1>M, <1>K, <2>1 DEF TakenFirst, HasReply
<1>12. LinesOwed'
  <2>1. \A m : Owed(m) => Owed(m)'
    <3> SUFFICES ASSUME NEW m, Owed(m) PROVE Owed(m)'
      OBVIOUS
    <3>1. ASSUME NEW i \in 1..L, wire[i].part = "cr", wire[i].reply.call = m PROVE Owed(m)'
      <4>1. i \in 1..M /\ wire'[i].part = "cr" /\ wire'[i].reply.call = m
        BY <1>w, <3>1
      <4> QED
        BY <1>M, <4>1 DEF Owed
    <3>2. ASSUME NEW j \in 1..(K + 1), toServer[j].call = m PROVE Owed(m)'
      <4>1. CASE j = 1
        <5>1. L + 2 \in 1..M /\ wire'[L + 2].part = "cr" /\ wire'[L + 2].reply.call = m
          BY <1>3, <1>c, <3>2, <4>1
        <5> QED
          BY <1>M, <5>1 DEF Owed
      <4>2. CASE j # 1
        <5>1. j - 1 \in 1..K /\ toServer'[j - 1].call = m
          BY <1>s, <3>2, <4>2
        <5> QED
          BY <1>K, <5>1 DEF Owed
      <4> QED
        BY <4>1, <4>2
    <3> QED
      BY <1>L, <1>K, <3>1, <3>2 DEF Owed
  <2>2. (pc = "read" => Owed(cur)) /\
        ((\E j \in 1..Len(ret) : HasReply(j) /\ ret[j].reply.call < j) => \E m \in 1..Len(ret) : Owed(m))
    BY DEF Inv, LinesOwed
  <2>3. pc' = "read" => Owed(cur)'
    BY <1>1, <1>5, <2>1, <2>2 DEF Owed
  <2> QED
    BY <1>1, <2>1, <2>2, <2>3 DEF LinesOwed, HasReply
<1>13. NothingLeft'
  <2>1. ASSUME \A j \in 1..Len(ret) : ~Abandoned(j)
        PROVE  /\ \A i \in 1..M : wire'[i].part # "lf" => pc = "read" /\ wire'[i].reply.call = cur
               /\ \A j \in 1..K : pc = "read" /\ toServer'[j].call = cur
    <3>1. /\ \A i \in 1..L : wire[i].part # "lf" => pc = "read" /\ wire[i].reply.call = cur
          /\ \A j \in 1..(K + 1) : pc = "read" /\ toServer[j].call = cur
      BY <1>1, <1>L, <1>K, <2>1 DEF Inv, NothingLeft
    <3>2. pc = "read" /\ c = cur
      BY <1>c, <3>1
    <3>3. \A i \in 1..M : i \in 1..L \/ i \in (L + 1)..M
      OBVIOUS
    <3>4. \A j \in 1..K : j + 1 \in 1..(K + 1)
      OBVIOUS
    <3> QED
      BY <1>7, <1>s, <1>w, <3>1, <3>2, <3>3, <3>4
  <2> QED
    BY <1>1, <1>5, <1>M, <1>K, <2>1 DEF NothingLeft, Abandoned
<1>14. InStepUntilAbandoned' /\ NeverCatchesUp'
  BY <1>1 DEF Inv, InStepUntilAbandoned, NeverCatchesUp, HasReply, Abandoned
<1> QED
  BY <1>10, <1>11, <1>12, <1>13, <1>14 DEF Inv

\* What is left when the first n pieces left.
LEMMA DropLengths ==
  ASSUME TypeOK, NEW n, Drops(n)
  PROVE  n \in Nat /\ Len(wire') \in Nat /\ Len(wire') + n = Len(wire)
<1>1. Len(wire) \in Nat
  BY Elements
<1>2. n \in 0..Len(wire) /\ Len(wire') = Len(wire) - n
  BY DEF Drops
<1> QED
  BY <1>1, <1>2

\* Return appends the outcome and ends the call.
LEMMA ReturnEffect ==
  ASSUME TypeOK, NEW o, pc \in {"write", "read"}, Return(o)
  PROVE  /\ cur' = cur /\ pc' # "read" /\ written' = cur /\ written <= cur
         /\ Len(ret) = cur - 1 /\ Len(ret') = cur /\ ret'[cur] = o
         /\ \A k \in 1..Len(ret) : ret'[k] = ret[k]
<1>1. ret \in Seq(Outcomes) /\ Len(ret) = Len(calls) - 1 /\ cur \in Nat
  BY DEF TypeOK, cur
<1>2. ret' = Append(ret, o) /\ calls' = calls /\ pc' \in {"idle", "over"}
  BY DEF Return
<1>3. Len(ret') = cur /\ ret'[cur] = o /\ \A k \in 1..Len(ret) : ret'[k] = ret[k]
  BY <1>1, <1>2 DEF cur
<1> QED
  BY <1>1, <1>2, <1>3 DEF cur, written

\* Pieces that leave at the front disturb no order.
LEMMA EndOrder ==
  ASSUME Inv, NEW n, Drops(n), NEW o, Return(o), pc \in {"write", "read"}, toServer' = toServer
  PROVE  WireInOrder'
<1>L. PICK L \in Nat : L = Len(wire)
  BY Elements DEF Inv
<1>M. PICK M \in Nat : M = Len(wire') /\ n \in Nat /\ M + n = L
  BY <1>L, DropLengths DEF Inv
<1>1. \A i \in 1..M : i + n \in 1..L /\ wire'[i] = wire[i + n]
  BY <1>L, <1>M DEF Drops
<1>2. \A i \in 1..L : wire[i].reply.call \in Nat /\ wire[i].reply.call <= written
  BY <1>L, Elements DEF Inv, WireInOrder
<1>3. \A j \in 1..Len(toServer) : toServer[j].call \in Nat /\ toServer[j].call <= written
  BY Elements DEF Inv, WireInOrder
<1>4. written <= written' /\ written \in Int /\ written' \in Int
  BY ReturnEffect, Elements DEF Inv, written
<1>5. \A i, j \in 1..M : i < j => Follows(wire'[i], wire'[j])
  <2>1. \A i, j \in 1..L : i < j => Follows(wire[i], wire[j])
    BY <1>L DEF Inv, WireInOrder
  <2> QED
    BY <1>1, <1>M, <2>1
<1>6. \A i \in 1..M, j \in 1..Len(toServer) : wire'[i].reply.call < toServer[j].call
  BY <1>1, <1>L DEF Inv, WireInOrder
<1>7. \A i \in 1..M : wire'[i].reply.call <= written'
  BY <1>1, <1>2, <1>4
<1>8. \A j \in 1..Len(toServer) : toServer[j].call <= written'
  BY <1>3, <1>4
<1>9. \A i \in 1..M : wire'[i].part = "text" =>
        i < M /\ wire'[i + 1].part = "cr" /\ wire'[i + 1].reply = wire'[i].reply
  <2> SUFFICES ASSUME NEW i \in 1..M, wire'[i].part = "text"
               PROVE  i < M /\ wire'[i + 1].part = "cr" /\ wire'[i + 1].reply = wire'[i].reply
    OBVIOUS
  <2>1. i + n < L /\ wire[(i + n) + 1].part = "cr" /\ wire[(i + n) + 1].reply = wire'[i].reply
    BY <1>1, <1>L DEF Inv, WireInOrder
  <2>2. i + 1 \in 1..M /\ (i + 1) + n = (i + n) + 1
    BY <1>M, <2>1
  <2> QED
    BY <1>1, <2>1, <2>2
<1>10. /\ \A i, j \in 1..Len(toServer) : i < j => toServer[i].call < toServer[j].call
  BY DEF Inv, WireInOrder
<1> QED
  BY <1>M, <1>5, <1>6, <1>7, <1>8, <1>9, <1>10 DEF WireInOrder

\* What is not among the pieces that leave stays owed.
LEMMA StillOwed ==
  ASSUME Inv, NEW n, Drops(n), toServer' = toServer, NEW m, Owed(m),
         \A i \in 1..n : ~(wire[i].part = "cr" /\ wire[i].reply.call = m)
  PROVE  Owed(m)'
<1>L. PICK L \in Nat : L = Len(wire)
  BY Elements DEF Inv
<1>M. PICK M \in Nat : M = Len(wire') /\ n \in Nat /\ M + n = L
  BY <1>L, DropLengths DEF Inv
<1>1. ASSUME NEW i \in 1..L, wire[i].part = "cr", wire[i].reply.call = m
      PROVE  Owed(m)'
  <2>1. i \notin 1..n
    BY <1>1
  <2>2. i - n \in 1..M /\ (i - n) + n = i
    BY <1>M, <2>1
  <2>3. wire'[i - n] = wire[(i - n) + n]
    BY <1>M, <2>2 DEF Drops
  <2>4. wire'[i - n].part = "cr" /\ wire'[i - n].reply.call = m
    BY <1>1, <2>2, <2>3
  <2> QED
    BY <1>M, <2>2, <2>4 DEF Owed
<1>2. ASSUME NEW j \in 1..Len(toServer), toServer[j].call = m
      PROVE  Owed(m)'
  BY <1>2 DEF Owed
<1> QED
  BY <1>1, <1>2, <1>L DEF Owed

\* The first line on the wire is the oldest one owed.
LEMMA FirstLine ==
  ASSUME Inv, NEW n \in 1..Len(wire), wire[n].part = "cr",
         \A i \in 1..(n - 1) : wire[i].part # "cr", NEW m \in Nat, Owed(m)
  PROVE  wire[n].reply.call <= m
<1>L. PICK L \in Nat : L = Len(wire) /\ n \in 1..L /\ wire[n].reply.call \in Nat
  BY Elements DEF Inv
<1>1. ASSUME NEW i \in 1..L, wire[i].part = "cr", wire[i].reply.call = m
      PROVE  wire[n].reply.call <= m
  <2>1. i >= n
    BY <1>L, <1>1
  <2>2. CASE i = n
    BY <1>1, <1>L, <2>2
  <2>3. CASE i > n
    <3>1. Follows(wire[n], wire[i])
      BY <1>L, <2>3 DEF Inv, WireInOrder
    <3> QED
      BY <1>L, <1>1, <3>1 DEF Follows
  <2> QED
    BY <1>L, <2>1, <2>2, <2>3
<1>2. ASSUME NEW j \in 1..Len(toServer), toServer[j].call = m
      PROVE  wire[n].reply.call <= m
  BY <1>L, <1>2 DEF Inv, WireInOrder
<1> QED
  BY <1>1, <1>2, <1>L DEF Owed

\* A line that begins with a text is of one reply.
LEMMA WholeLine ==
  ASSUME Inv, NEW n \in 1..Len(wire), wire[n].part = "cr",
         \A i \in 1..(n - 1) : wire[i].part # "cr", wire[1].part = "text"
  PROVE  n = 2 /\ wire[n].reply = wire[1].reply
<1>1. PICK L \in Nat : L = Len(wire) /\ n \in 1..L
  BY Elements DEF Inv
<1>2. 1 < L /\ wire[2].part = "cr" /\ wire[2].reply = wire[1].reply
  BY <1>1 DEF Inv, WireInOrder
<1>3. n # 1 /\ ~(2 \in 1..(n - 1))
  BY <1>2
<1>4. n = 2
  BY <1>1, <1>3
<1> QED
  BY <1>2, <1>4

\* A call that ends without a reply leaves every line owed, and nothing to the
\* next one unless its time was up.
LEMMA FailStep ==
  ASSUME Inv, TypeOK', NEW n, Drops(n), NEW o, Return(o), pc \in {"write", "read"},
         toServer' = toServer, up' = up, o.kind \in {"unsent", "timeout", "eof"},
         \A i \in 1..n : wire[i].part # "cr",
         o.kind = "unsent" => pc = "write" /\ n = 0,
         o.kind = "eof" => n = Len(wire) /\ ~up
  PROVE  Inv'
<1>1. /\ cur' = cur /\ pc' # "read" /\ cur \in Nat
      /\ Len(ret) = cur - 1 /\ Len(ret') = cur /\ ret'[cur] = o
      /\ \A k \in 1..Len(ret) : ret'[k] = ret[k]
  BY ReturnEffect, Elements DEF Inv
<1>2. /\ \A k \in 1..Len(ret) : HasReply(k)' <=> HasReply(k)
      /\ \A k \in 1..Len(ret) : Abandoned(k)' <=> Abandoned(k)
      /\ ~HasReply(cur)'
  BY <1>1 DEF HasReply, Abandoned
<1>3. \A k \in 1..Len(ret') : HasReply(k)' => k \in 1..Len(ret) /\ HasReply(k) /\ ret'[k] = ret[k]
  BY <1>1, <1>2 DEF HasReply
<1>4. PICK L \in Nat : L = Len(wire)
  BY Elements DEF Inv
<1>5. PICK M \in Nat : M = Len(wire') /\ n \in Nat /\ M + n = L
  BY <1>4, DropLengths DEF Inv
<1>6. \A i \in 1..M : i + n \in 1..L /\ wire'[i] = wire[i + n]
  BY <1>4, <1>5 DEF Drops
<1>7. WireInOrder'
  BY EndOrder
<1>8. TakenFirst'
  <2>1. ASSUME NEW k \in 1..Len(ret), HasReply(k)
        PROVE  /\ ret[k].reply.call <= k
               /\ \A i \in 1..L : wire[i].part = "text" => ret[k].reply.call < wire[i].reply.call
               /\ \A j \in 1..Len(toServer) : ret[k].reply.call < toServer[j].call
    BY <1>4, <2>1 DEF Inv, TakenFirst
  <2>2. ASSUME NEW k \in 1..Len(ret), HasReply(k)
        PROVE  \A i \in 1..M : wire'[i].part = "text" => ret[k].reply.call < wire'[i].reply.call
    BY <1>6, <2>1, <2>2
  <2> QED
    BY <1>3, <1>5, <2>1, <2>2 DEF TakenFirst
<1>9. LinesOwed'
  <2>1. ASSUME NEW m, Owed(m) PROVE Owed(m)'
    BY <2>1, StillOwed
  <2>2. ASSUME NEW j \in 1..Len(ret), HasReply(j), ret[j].reply.call < j
        PROVE  \E m \in 1..Len(ret) : Owed(m)
    BY <2>2 DEF Inv, LinesOwed
  <2>3. ASSUME NEW j \in 1..Len(ret'), HasReply(j)', ret'[j].reply.call < j
        PROVE  \E m \in 1..Len(ret') : Owed(m)'
    BY <1>1, <1>3, <2>1, <2>2, <2>3
  <2> QED
    BY <1>1, <2>3 DEF LinesOwed
<1>10. NothingLeft'
  <2>1. ASSUME \A j \in 1..Len(ret') : ~Abandoned(j)'
        PROVE  /\ \A i \in 1..M : wire'[i].part = "lf"
               /\ ~up \/ Len(toServer) = 0
    <3>1. (\A j \in 1..Len(ret) : ~Abandoned(j)) /\ o.kind # "timeout"
      <4>1. \A j \in 1..Len(ret) : j \in 1..Len(ret')
        BY <1>1
      <4>2. cur \in 1..Len(ret')
        BY <1>1, Elements DEF Inv
      <4> QED
        BY <1>1, <1>2, <2>1, <4>1, <4>2 DEF Abandoned
    <3>2. CASE o.kind = "eof"
      BY <1>4, <1>5, <3>2
    <3>3. CASE o.kind = "unsent"
      <4>1. /\ \A i \in 1..L : wire[i].part = "lf"
            /\ up => \A j \in 1..Len(toServer) : FALSE
        BY <1>4, <3>1, <3>3 DEF Inv, NothingLeft
      <4> QED
        BY <1>6, <4>1, Elements DEF Inv
    <3> QED
      BY <3>1, <3>2, <3>3
  <2> QED
    BY <1>5, <2>1 DEF NothingLeft
<1>11. InStepUntilAbandoned'
  <2> SUFFICES ASSUME NEW k \in 1..Len(ret'), HasReply(k)', \A j \in 1..(k - 1) : ~Abandoned(j)'
               PROVE  ret'[k].reply.call = k
    BY ElementsNext DEF InStepUntilAbandoned
  <2>1. k \in 1..Len(ret) /\ HasReply(k) /\ ret'[k] = ret[k]
    BY <1>3
  <2>2. \A j \in 1..(k - 1) : ~Abandoned(j)
    BY <1>1, <1>2, <2>1
  <2> QED
    BY <2>1, <2>2, Elements DEF Inv, InStepUntilAbandoned
<1>12. NeverCatchesUp'
  <2> SUFFICES ASSUME NEW j \in 1..Len(ret'), NEW k \in 1..Len(ret'), j < k, HasReply(j)', HasReply(k)'
               PROVE  /\ ret'[j].reply.call < ret'[k].reply.call
                      /\ ret'[j].reply.call < j => ret'[k].reply.call < k
    BY ElementsNext DEF NeverCatchesUp
  <2>1. /\ j \in 1..Len(ret) /\ HasReply(j) /\ ret'[j] = ret[j]
        /\ k \in 1..Len(ret) /\ HasReply(k) /\ ret'[k] = ret[k]
    BY <1>3
  <2> QED
    BY <2>1, Elements DEF Inv, NeverCatchesUp
<1> QED
  BY <1>7, <1>8, <1>9, <1>10, <1>11, <1>12 DEF Inv

\* A call that takes a line: its reply is older than all that is left, its own
\* line is owed on if the line taken was not it, and was it if none was lost.
LEMMA TakeStep ==
  ASSUME Inv, TypeOK', NEW n \in 1..Len(wire), Drops(n), NEW o \in Outcomes, Return(o), pc = "read",
         toServer' = toServer, up' = up, o.kind # "timeout",
         wire[n].part = "cr", \A i \in 1..(n - 1) : wire[i].part # "cr",
         o.kind \in {"ok", "short"} => wire[1].part = "text" /\ o.reply = wire[1].reply
  PROVE  Inv'
<1>1. /\ cur' = cur /\ pc' # "read" /\ cur \in Nat /\ written = cur
      /\ Len(ret) = cur - 1 /\ Len(ret') = cur /\ ret'[cur] = o
      /\ \A k \in 1..Len(ret) : ret'[k] = ret[k]
  BY ReturnEffect, Elements DEF Inv, written
<1>2. /\ \A k \in 1..Len(ret) : HasReply(k)' <=> HasReply(k)
      /\ \A k \in 1..Len(ret) : Abandoned(k)' <=> Abandoned(k)
      /\ HasReply(cur)' <=> o.kind \in {"ok", "short"}
  BY <1>1 DEF HasReply, Abandoned
<1>3. \A k \in 1..Len(ret') : k = cur \/ k \in 1..Len(ret)
  BY <1>1
<1>4. PICK L \in Nat : L = Len(wire) /\ n \in 1..L
  BY Elements DEF Inv
<1>5. PICK M \in Nat : M = Len(wire') /\ n \in Nat /\ M + n = L
  BY <1>4, DropLengths DEF Inv
<1>6. \A i \in 1..M : i + n \in 1..L /\ wire'[i] = wire[i + n]
  BY <1>4, <1>5 DEF Drops
<1>c. /\ \A i \in 1..L : wire[i].reply.call \in Nat /\ wire[i].reply.call <= cur
      /\ \A j \in 1..Len(toServer) : toServer[j].call \in Nat /\ toServer[j].call <= cur
      /\ \A i \in 1..L, j \in 1..Len(toServer) : wire[i].reply.call < toServer[j].call
  BY <1>1, <1>4, Elements DEF Inv, WireInOrder
\* The reply taken is that of the whole first line.
<1>7. ASSUME o.kind \in {"ok", "short"}
      PROVE  /\ wire[1].part = "text" /\ o.reply = wire[1].reply /\ wire[n].reply = wire[1].reply
             /\ o.reply.call \in Nat /\ o.reply.call <= cur
  <2>1. wire[1].part = "text" /\ o.reply = wire[1].reply
    BY <1>7
  <2> QED
    BY <2>1, <1>4, <1>c, WholeLine
\* Its call is not later than any that is owed a line.
<1>8. Owed(cur)
  BY DEF Inv, LinesOwed
<1>9. ASSUME NEW m \in Nat, Owed(m) PROVE wire[n].reply.call <= m
  BY <1>9, FirstLine
<1>10. WireInOrder'
  BY EndOrder
<1>11. TakenFirst'
  <2>1. ASSUME NEW k \in 1..Len(ret), HasReply(k)
        PROVE  /\ ret[k].reply.call <= k
               /\ \A i \in 1..M : wire'[i].part = "text" => ret[k].reply.call < wire'[i].reply.call
               /\ \A j \in 1..Len(toServer) : ret[k].reply.call < toServer[j].call
    <3>1. \A i \in 1..L : wire[i].part = "text" => ret[k].reply.call < wire[i].reply.call
      BY <1>4, <2>1 DEF Inv, TakenFirst
    <3> QED
      BY <1>6, <2>1, <3>1 DEF Inv, TakenFirst
  <2>2. ASSUME o.kind \in {"ok", "short"}
        PROVE  /\ o.reply.call <= cur
               /\ \A i \in 1..M : wire'[i].part = "text" => o.reply.call < wire'[i].reply.call
               /\ \A j \in 1..Len(toServer) : o.reply.call < toServer[j].call
    <3>1. \A j \in 1..Len(toServer) : o.reply.call < toServer[j].call
      BY <1>4, <1>c, <1>7, <2>2
    <3>2. ASSUME NEW i \in 1..M, wire'[i].part = "text"
          PROVE  o.reply.call < wire'[i].reply.call
      <4>1. i + n \in 1..L /\ wire'[i] = wire[i + n] /\ n < i + n
        BY <1>5, <1>6
      <4>2. Follows(wire[n], wire[i + n])
        BY <1>4, <4>1 DEF Inv, WireInOrder
      <4> QED
        BY <1>7, <2>2, <3>2, <4>1, <4>2 DEF Follows
    <3> QED
      BY <1>7, <2>2, <3>1, <3>2
  <2>3. ASSUME NEW k \in 1..Len(ret'), HasReply(k)'
        PROVE  /\ ret'[k].reply.call <= k
               /\ \A i \in 1..M : wire'[i].part = "text" => ret'[k].reply.call < wire'[i].reply.call
               /\ \A j \in 1..Len(toServer) : ret'[k].reply.call < toServer[j].call
    <3>1. CASE k = cur
      BY <1>1, <1>2, <2>2, <2>3, <3>1
    <3>2. CASE k \in 1..Len(ret)
      BY <1>1, <1>2, <2>1, <2>3, <3>2
    <3> QED
      BY <1>3, <3>1, <3>2
  <2> QED
    BY <1>5, <2>3 DEF TakenFirst
\* An earlier line than the own one is the first, and the own one stays owed.
<1>12. ASSUME wire[n].reply.call < cur PROVE Owed(cur)'
  <2>1. ASSUME NEW i \in 1..n PROVE ~(wire[i].part = "cr" /\ wire[i].reply.call = cur)
    <3>1. i = n \/ i \in 1..(n - 1)
      OBVIOUS
    <3> QED
      BY <1>12, <1>1, <1>4, <1>c, <3>1
  <2>2. PICK m : m = cur
    OBVIOUS
  <2>3. Owed(m)'
    BY <1>8, <2>1, <2>2, StillOwed
  <2> QED
    BY <1>1, <2>2, <2>3 DEF Owed
\* Once a call is behind, so is every later one.
<1>13. ASSUME NEW j \in 1..Len(ret), HasReply(j), ret[j].reply.call < j
       PROVE  wire[n].reply.call < cur
  <2>1. PICK m \in 1..Len(ret) : Owed(m)
    BY <1>13 DEF Inv, LinesOwed
  <2>2. m \in Nat /\ m < cur /\ wire[n].reply.call <= m
    BY <1>1, <1>9, <2>1
  <2> QED
    BY <1>1, <1>4, <1>c, <2>2
<1>14. LinesOwed'
  <2>1. ASSUME NEW j \in 1..Len(ret'), HasReply(j)', ret'[j].reply.call < j
        PROVE  \E m \in 1..Len(ret') : Owed(m)'
    <3>1. wire[n].reply.call < cur
      <4>1. CASE j = cur
        BY <1>1, <1>2, <1>7, <2>1, <4>1
      <4>2. CASE j \in 1..Len(ret)
        BY <1>1, <1>2, <1>13, <2>1, <4>2
      <4> QED
        BY <1>3, <4>1, <4>2
    <3>2. Owed(cur)' /\ cur \in 1..Len(ret')
      BY <1>1, <1>12, <2>1, <3>1
    <3>3. PICK m : m = cur
      OBVIOUS
    <3>4. Owed(m)'
      BY <1>1, <3>2, <3>3 DEF Owed
    <3> QED
      BY <3>2, <3>3, <3>4
  <2> QED
    BY <1>1, <2>1 DEF LinesOwed
\* With no call abandoned the first line is the own one, and the last.
<1>15. ASSUME \A j \in 1..Len(ret) : ~Abandoned(j)
       PROVE  /\ wire[n].reply.call = cur
              /\ \A i \in 1..L : wire[i].part # "lf" => wire[i].reply.call = cur
  BY <1>4, <1>15 DEF Inv, NothingLeft
<1>16. NothingLeft'
  <2>1. ASSUME \A j \in 1..Len(ret') : ~Abandoned(j)'
        PROVE  /\ \A i \in 1..M : wire'[i].part = "lf"
               /\ Len(toServer) = 0
    <3>1. \A j \in 1..Len(ret) : ~Abandoned(j)
      <4>1. \A j \in 1..Len(ret) : j \in 1..Len(ret')
        BY <1>1
      <4> QED
        BY <1>2, <2>1, <4>1
    <3>2. wire[n].reply.call = cur /\ \A i \in 1..L : wire[i].part # "lf" => wire[i].reply.call = cur
      BY <1>15, <3>1
    <3>3. \A j \in 1..Len(toServer) : FALSE
      BY <1>1, <1>4, <1>c, <3>2
    <3>4. ASSUME NEW i \in 1..M, wire'[i].part # "lf" PROVE FALSE
      <4>1. i + n \in 1..L /\ wire'[i] = wire[i + n] /\ n < i + n
        BY <1>5, <1>6
      <4>2. Follows(wire[n], wire[i + n])
        BY <1>4, <4>1 DEF Inv, WireInOrder
      <4> QED
        BY <1>1, <1>4, <1>c, <3>2, <3>4, <4>1, <4>2 DEF Follows
    <3> QED
      BY <3>3, <3>4, Elements DEF Inv
  <2> QED
    BY <1>5, <2>1 DEF NothingLeft
<1>17. InStepUntilAbandoned'
  <2> SUFFICES ASSUME NEW k \in 1..Len(ret'), HasReply(k)', \A j \in 1..(k - 1) : ~Abandoned(j)'
               PROVE  ret'[k].reply.call = k
    BY ElementsNext DEF InStepUntilAbandoned
  <2>1. \A j \in 1..(k - 1) : j \in 1..Len(ret) /\ ~Abandoned(j)
    BY <1>1, <1>2
  <2>2. CASE k = cur
    <3>1. \A j \in 1..Len(ret) : ~Abandoned(j)
      BY <1>1, <2>1, <2>2
    <3> QED
      BY <1>1, <1>2, <1>7, <1>15, <2>2, <3>1
  <2>3. CASE k \in 1..Len(ret)
    BY <1>1, <1>2, <2>1, <2>3, Elements DEF Inv, InStepUntilAbandoned
  <2> QED
    BY <1>3, <2>2, <2>3
<1>18. NeverCatchesUp'
  <2> SUFFICES ASSUME NEW j \in 1..Len(ret'), NEW k \in 1..Len(ret'), j < k, HasReply(j)', HasReply(k)'
               PROVE  /\ ret'[j].reply.call < ret'[k].reply.call
                      /\ ret'[j].reply.call < j => ret'[k].reply.call < k
    BY ElementsNext DEF NeverCatchesUp
  <2>1. j \in 1..Len(ret) /\ HasReply(j) /\ ret'[j] = ret[j]
    BY <1>1, <1>2, <1>3
  <2>2. CASE k = cur
    <3>1. o.kind \in {"ok", "short"} /\ ret'[k] = o
      BY <1>1, <1>2, <2>2
    <3>2. ret[j].reply.call < o.reply.call
      BY <1>4, <1>7, <2>1, <3>1 DEF Inv, TakenFirst
    <3>3. ret[j].reply.call < j => o.reply.call < cur
      BY <1>7, <1>13, <2>1, <3>1
    <3> QED
      BY <2>1, <2>2, <3>1, <3>2, <3>3
  <2>3. CASE k \in 1..Len(ret)
    <3>1. HasReply(k) /\ ret'[k] = ret[k]
      BY <1>1, <1>2, <2>3
    <3> QED
      BY <2>1, <2>3, <3>1, Elements DEF Inv, NeverCatchesUp
  <2> QED
    BY <1>3, <2>2, <2>3
<1> QED
  BY <1>10, <1>11, <1>14, <1>16, <1>17, <1>18 DEF Inv

\* A new session owes nothing.
LEMMA InitInv == Init => Inv
<1> SUFFICES ASSUME Init PROVE Inv
  OBVIOUS
<1>1. TypeOK
  BY SipAssumption DEF Init, TypeOK
<1>2. Len(wire) = 0 /\ Len(toServer) = 0 /\ Len(ret) = 0 /\ ret = <<>> /\ pc = "idle"
  BY DEF Init, wire
<1>3. WireInOrder /\ TakenFirst /\ LinesOwed /\ NothingLeft
  BY <1>2 DEF WireInOrder, TakenFirst, LinesOwed, NothingLeft
<1>4. InStepUntilAbandoned /\ NeverCatchesUp
  BY <1>2 DEF InStepUntilAbandoned, NeverCatchesUp
<1> QED
  BY <1>1, <1>3, <1>4 DEF Inv

\* Every step of the caller, the clock and the ACS preserves the invariant.
LEMMA StepInv == Inv /\ [Next]_vars => Inv'
<1> SUFFICES ASSUME Inv, [Next]_vars PROVE Inv'
  OBVIOUS
<1>0. TypeOK'
  BY TypeStep DEF Inv
<1>1. ASSUME NEW item \in Items \cup {Login}, Begin(item) PROVE Inv'
  <2>1. pc = "idle" /\ pc' = "write" /\ wire' = wire /\ toServer' = toServer /\ ret' = ret /\ up' = up
    BY <1>1 DEF Begin, netVars, wire
  <2>2. written' = written
    BY <1>1, <2>1 DEF Begin, written, cur, Inv, TypeOK
  <2> QED
    BY <1>0, <2>1, <2>2, QuietStep
<1>2. CASE WriteMessage
  BY <1>0, <1>2, WriteStep
<1>3. CASE WriteFails
  <2>1. pc = "write" /\ Return([kind |-> "unsent"]) /\ toServer' = toServer /\ up' = up /\ wire' = wire
    BY <1>3 DEF WriteFails, netVars, wire
  <2>2. Drops(0)
    BY <2>1, Elements DEF Inv, Drops
  <2> QED
    BY <1>0, <2>1, <2>2, FailStep
<1>4. CASE Fill
  <2>1. pc' = pc /\ wire' = wire /\ toServer' = toServer /\ ret' = ret /\ up' = up /\ calls' = calls
    BY <1>4, FillWire DEF Fill, callVars, Inv
  <2>2. written' = written /\ cur' = cur
    BY <2>1 DEF written, cur
  <2> QED
    BY <1>0, <2>1, <2>2, QuietStep
<1>5. CASE ReadFails
  <2>1. PICK n \in 0..Len(wire), o \in Outcomes :
          /\ Drops(n) /\ Return(o) /\ o.kind \in {"timeout", "eof"}
          /\ \A i \in 1..n : wire[i].part # "cr"
          /\ o.kind = "eof" => n = Len(wire) /\ ~up
    BY <1>5, FailWire DEF Inv
  <2>2. pc = "read" /\ toServer' = toServer /\ up' = up
    BY <1>5, FailWire DEF Inv
  <2> QED
    BY <1>0, <2>1, <2>2, FailStep
<1>6. CASE TakeLine
  <2>1. PICK end \in 1..Len(wire), o \in Outcomes :
          /\ Drops(end) /\ Return(o) /\ o.kind # "timeout"
          /\ wire[end].part = "cr" /\ \A i \in 1..(end - 1) : wire[i].part # "cr"
          /\ o.kind \in {"ok", "short"} => wire[1].part = "text" /\ o.reply = wire[1].reply
    BY <1>6, TakeWire DEF Inv
  <2>2. pc = "read" /\ toServer' = toServer /\ up' = up
    BY <1>6, TakeWire DEF Inv
  <2> QED
    BY <1>0, <2>1, <2>2, TakeStep
<1>7. CASE Close
  <2>1. /\ pc = "idle" /\ pc' = "over" /\ wire' = wire /\ toServer' = toServer
        /\ ret' = ret /\ up' = up /\ calls' = calls
    BY <1>7 DEF Close, callVars, netVars, wire
  <2>2. written' = written
    BY <2>1 DEF written, cur
  <2> QED
    BY <1>0, <2>1, <2>2, QuietStep
<1>8. CASE TimePasses
  <2>1. pc' = pc /\ wire' = wire /\ toServer' = toServer /\ ret' = ret /\ up' = up /\ calls' = calls
    BY <1>8 DEF TimePasses, callVars, netVars, wire
  <2>2. written' = written /\ cur' = cur
    BY <2>1 DEF written, cur
  <2> QED
    BY <1>0, <2>1, <2>2, QuietStep
<1>9. ASSUME NEW form \in Forms, NEW crlf \in BOOLEAN, Serve(form, crlf) PROVE Inv'
  BY <1>0, <1>9, ServeStep
<1>10. CASE HangUp
  <2>1. pc' = pc /\ wire' = wire /\ toServer' = toServer /\ ret' = ret /\ up /\ calls' = calls
    BY <1>10 DEF HangUp, callVars, wire
  <2>2. written' = written /\ cur' = cur
    BY <2>1 DEF written, cur
  <2> QED
    BY <1>0, <2>1, <2>2, QuietStep
<1>11. CASE UNCHANGED vars
  <2>1. pc' = pc /\ wire' = wire /\ toServer' = toServer /\ ret' = ret /\ up' = up /\ calls' = calls
    BY <1>11 DEF vars, callVars, netVars, wire
  <2>2. written' = written /\ cur' = cur
    BY <2>1 DEF written, cur
  <2> QED
    BY <1>0, <2>1, <2>2, QuietStep
<1> QED
  BY <1>1, <1>2, <1>3, <1>4, <1>5, <1>6, <1>7, <1>8, <1>9, <1>10, <1>11 DEF Next, Roundtrip

\* Calls, messages, replies and line ends keep together: the invariant the
\* theorems below rest on.
THEOREM SessionInvariant == Spec => []Inv
BY InitInv, StepInv, PTL DEF Spec

\* "A session is strictly request/response": on a Conn of which no call has been
\* abandoned, roundTrip returns to each call the reply to its own message, however
\* replies are cut into reads and whatever ends their lines.
THEOREM InStep == Spec => []InStepUntilAbandoned
BY SessionInvariant, PTL DEF Inv

\* And once roundTrip has returned a call the reply to an earlier one, no later
\* ItemInformation on that Conn returns its own.
THEOREM OutOfStepForGood == Spec => []NeverCatchesUp
BY SessionInvariant, PTL DEF Inv

-----------------------------------------------------------------------------
\* The AY numbers.

\* The message of call m was written.
Sent(m) == m \in 1..cur /\ m <= written /\ (m <= Len(ret) => ret[m].kind # "unsent")

\* The AY number d messages after n.
Turn(n, d) == IF n + d < Rollover THEN n + d ELSE n + d - Rollover

\* Every message, reply and outcome carries the number its call was framed with.
Stamped(m) == Sent(m.call) /\ m.seq = sentSeq[m.call]
Stamps ==
  /\ \A j \in 1..Len(toServer) : Stamped(toServer[j])
  /\ \A i \in 1..Len(wire) : Stamped(wire[i].reply)
  /\ \A k \in 1..Len(ret) : HasReply(k) => Stamped(ret[k].reply)

\* The numbers of two calls fewer than Rollover messages apart, and the next one,
\* are as far apart as there were messages written from the first one on.
Turns ==
  /\ pc = "write" => sentSeq[cur] = seq
  /\ \A j \in 1..cur : written + 1 - j < Rollover =>
       \E d \in 0..(written + 1 - j) : seq = Turn(sentSeq[j], d) /\ (Sent(j) => d > 0)
  /\ \A j, k \in 1..cur : j < k /\ k - j < Rollover =>
       \E d \in 0..(k - j) : sentSeq[k] = Turn(sentSeq[j], d) /\ (Sent(j) => d > 0)

\* seq % Rollover as the code computes it.
LEMMA NextNumber ==
  ASSUME NEW n \in 0..(Rollover - 1)
  PROVE  n % Rollover = n /\ (n + 1) % Rollover = Turn(n, 1)
<1>1. Rollover \in Nat \ {0} /\ n \in Nat /\ n < Rollover
  BY SipAssumption
<1>2. n % Rollover = n
  BY <1>1
<1>3. n + 1 < Rollover => (n + 1) % Rollover = n + 1
  BY <1>1
<1>4. n + 1 = Rollover => (n + 1) % Rollover = 0
  BY <1>1
<1> QED
  BY <1>1, <1>2, <1>3, <1>4 DEF Turn

\* One more message.
LEMMA OneMore ==
  ASSUME NEW n \in 0..(Rollover - 1), NEW d \in Nat, d + 1 < Rollover
  PROVE  Turn(Turn(n, d), 1) = Turn(n, d + 1)
BY SipAssumption DEF Turn

\* What the numbers are about, for the provers.
LEMMA Numbers ==
  ASSUME TypeOK
  PROVE  /\ Rollover \in Nat \ {0} /\ cur \in Nat /\ written \in Int
         /\ Len(sentSeq) = cur /\ seq \in 0..(Rollover - 1)
         /\ \A k \in 1..cur : sentSeq[k] \in 0..(Rollover - 1)
BY SipAssumption DEF TypeOK, cur, written

\* A step that writes no message: the calls and numbers stay, and what was
\* written stays written.
LEMMA NumbersStay ==
  ASSUME TypeOK, Turns, sentSeq' = sentSeq, seq' = seq, calls' = calls,
         pc' # "write" \/ pc = "write", \A m \in 1..cur : Sent(m)' => Sent(m)
  PROVE  Turns'
<1>1. cur' = cur /\ written <= written'
  BY Numbers DEF cur, written
<1>2. cur \in Nat /\ written \in Int /\ written' \in Int /\ Rollover \in Nat
  BY <1>1, Numbers DEF written
<1>3. ASSUME NEW j \in 1..cur, written' + 1 - j < Rollover
      PROVE  \E d \in 0..(written' + 1 - j) : seq' = Turn(sentSeq'[j], d) /\ (Sent(j)' => d > 0)
  <2>0. PICK w \in Int, v \in Int : w = written /\ v = written'
    BY <1>2
  <2>1. PICK d \in 0..(written + 1 - j) : seq = Turn(sentSeq[j], d) /\ (Sent(j) => d > 0)
    <3>1. j \in Int /\ w <= v
      BY <1>1, <1>2, <2>0
    <3>2. v + 1 - j < Rollover
      BY <1>3, <2>0
    <3>3. w + 1 - j < Rollover
      BY <1>2, <3>1, <3>2
    <3> QED
      BY <2>0, <3>3 DEF Turns
  <2>2. d \in 0..(written' + 1 - j)
    <3>1. j \in Int /\ w <= v /\ d \in 0..(w + 1 - j)
      BY <1>1, <1>2, <2>0
    <3>2. d \in 0..(v + 1 - j)
      BY <3>1
    <3> QED
      BY <2>0, <3>2
  <2> QED
    BY <2>1, <2>2 DEF Turn
<1>4. ASSUME NEW j \in 1..cur, NEW k \in 1..cur, j < k, k - j < Rollover
      PROVE  \E d \in 0..(k - j) : sentSeq'[k] = Turn(sentSeq'[j], d) /\ (Sent(j)' => d > 0)
  <2>1. PICK d \in 0..(k - j) : sentSeq[k] = Turn(sentSeq[j], d) /\ (Sent(j) => d > 0)
    BY <1>4 DEF Turns
  <2> QED
    BY <2>1 DEF Turn
<1>5. pc' = "write" => sentSeq'[cur'] = seq'
  BY <1>1 DEF Turns
<1> QED
  BY <1>1, <1>3, <1>4, <1>5 DEF Turns, Turn

\* A step after which the same messages count as written, and those carried are
\* among those carried before.
LEMMA StampsStay ==
  ASSUME TypeOK, Stamps, \A m : Sent(m) => Sent(m)' /\ sentSeq'[m] = sentSeq[m],
         \A j \in 1..Len(toServer') : \E i \in 1..Len(toServer) : toServer'[j] = toServer[i],
         \A j \in 1..Len(wire') : \/ \E i \in 1..Len(wire) : wire'[j].reply = wire[i].reply
                                  \/ Stamped(wire'[j].reply),
         \A k \in 1..Len(ret') : HasReply(k)' =>
            \/ k \in 1..Len(ret) /\ HasReply(k) /\ ret'[k] = ret[k]
            \/ Stamped(ret'[k].reply)
  PROVE  Stamps'
<1>1. \A m : Stamped(m) => Sent(m.call)' /\ m.seq = sentSeq'[m.call]
  BY DEF Stamped
<1>2. \A j \in 1..Len(toServer') : Stamped(toServer'[j])
  BY DEF Stamps
<1>3. \A j \in 1..Len(wire') : Stamped(wire'[j].reply)
  BY DEF Stamps
<1>4. \A k \in 1..Len(ret') : HasReply(k)' => Stamped(ret'[k].reply)
  BY DEF Stamps
<1> QED
  BY <1>1, <1>2, <1>3, <1>4 DEF Stamps, Stamped

\* A call that begins is framed with the next number.
LEMMA BeginNumbers ==
  ASSUME TypeOK, Stamps, Turns, NEW item \in Items \cup {Login}, Begin(item)
  PROVE  Stamps' /\ Turns'
<1>1. /\ pc = "idle" /\ pc' = "write" /\ seq' = seq /\ cur' = cur + 1
      /\ Len(sentSeq) = cur /\ sentSeq'[cur + 1] = seq
      /\ \A k \in 1..cur : sentSeq'[k] = sentSeq[k]
  BY DEF TypeOK, Begin, cur
<1>2. written = cur /\ written' = cur /\ cur \in Nat /\ Rollover \in Nat \ {0}
  BY <1>1, Numbers DEF written
<1>3. ret' = ret /\ toServer' = toServer /\ wire' = wire
  BY DEF Begin, netVars, wire
<1>4. \A m : Sent(m)' <=> Sent(m)
  BY <1>1, <1>2, <1>3 DEF Sent
<1>5. Stamps'
  <2>1. \A m : Sent(m) => Sent(m)' /\ sentSeq'[m] = sentSeq[m]
    BY <1>1, <1>4 DEF Sent
  <2> QED
    BY <1>3, <2>1, StampsStay DEF HasReply
<1>6. ASSUME NEW j \in 1..(cur + 1), cur + 1 - j < Rollover
      PROVE  \E d \in 0..(cur + 1 - j) : seq = Turn(sentSeq'[j], d) /\ (Sent(j)' => d > 0)
  <2>1. CASE j \in 1..cur
    <3>1. PICK d \in 0..(cur + 1 - j) : seq = Turn(sentSeq[j], d) /\ (Sent(j) => d > 0)
      BY <1>2, <1>6, <2>1 DEF Turns
    <3> QED
      BY <1>1, <1>4, <2>1, <3>1
  <2>2. CASE j = cur + 1
    <3>1. seq = Turn(seq, 0)
      BY Numbers DEF Turn
    <3>2. ~Sent(j)'
      BY <1>2, <2>2 DEF Sent
    <3>3. 0 \in 0..(cur + 1 - j)
      BY <1>2, <2>2
    <3> QED
      BY <1>1, <2>2, <3>1, <3>2, <3>3
  <2> QED
    BY <1>2, <2>1, <2>2
<1>7. ASSUME NEW j \in 1..(cur + 1), NEW k \in 1..(cur + 1), j < k, k - j < Rollover
      PROVE  \E d \in 0..(k - j) : sentSeq'[k] = Turn(sentSeq'[j], d) /\ (Sent(j)' => d > 0)
  <2>0. j \in 1..cur
    BY <1>2, <1>7
  <2>1. CASE k \in 1..cur
    <3>1. PICK d \in 0..(k - j) : sentSeq[k] = Turn(sentSeq[j], d) /\ (Sent(j) => d > 0)
      BY <1>7, <2>0, <2>1 DEF Turns
    <3> QED
      BY <1>1, <1>4, <2>0, <2>1, <3>1
  <2>2. CASE k = cur + 1
    <3>1. \E d \in 0..(cur + 1 - j) : seq = Turn(sentSeq'[j], d) /\ (Sent(j)' => d > 0)
      BY <1>2, <1>6, <1>7, <2>2
    <3> QED
      BY <1>1, <2>2, <3>1
  <2> QED
    BY <1>2, <2>1, <2>2
<1>8. Turns'
  <2>1. pc' = "write" => sentSeq'[cur'] = seq'
    BY <1>1
  <2>2. \A j \in 1..cur' : written' + 1 - j < Rollover =>
          \E d \in 0..(written' + 1 - j) : seq' = Turn(sentSeq'[j], d) /\ (Sent(j)' => d > 0)
    BY <1>1, <1>2, <1>6
  <2>3. \A j, k \in 1..cur' : j < k /\ k - j < Rollover =>
          \E d \in 0..(k - j) : sentSeq'[k] = Turn(sentSeq'[j], d) /\ (Sent(j)' => d > 0)
    BY <1>1, <1>7
  <2> QED
    BY <2>1, <2>2, <2>3 DEF Turns, Turn
<1> QED
  BY <1>5, <1>8

\* A message that is written carries its call's number and uses it up.
LEMMA WriteNumbers ==
  ASSUME TypeOK, Stamps, Turns, WriteMessage
  PROVE  Stamps' /\ Turns'
<1>1. /\ pc = "write" /\ pc' = "read" /\ cur' = cur /\ sentSeq' = sentSeq /\ ret' = ret
      /\ wire' = wire /\ seq' = (seq + 1) % Rollover
      /\ toServer' = Append(toServer, [call |-> cur, seq |-> seq % Rollover])
  BY DEF WriteMessage, cur, wire
<1>2. /\ cur \in Nat \ {0} /\ Len(ret) = cur - 1 /\ Rollover \in Nat \ {0}
      /\ seq \in 0..(Rollover - 1) /\ \A k \in 1..cur : sentSeq[k] \in 0..(Rollover - 1)
  <2>1. Len(ret) \in Nat /\ Len(ret) = cur - 1
    BY <1>1 DEF TypeOK, cur
  <2> QED
    BY <2>1, Numbers
<1>3. written = cur - 1 /\ written' = cur
  BY <1>1, <1>2 DEF written
<1>4. seq % Rollover = seq /\ seq' = Turn(seq, 1) /\ sentSeq[cur] = seq
  BY <1>1, <1>2, NextNumber DEF Turns
<1>5. /\ \A m \in 1..(cur - 1) : Sent(m)' <=> Sent(m)
      /\ \A m : Sent(m) => Sent(m)'
      /\ Sent(cur)'
  BY <1>1, <1>2, <1>3 DEF Sent
<1>6. Stamps'
  <2>1. /\ Len(toServer') = Len(toServer) + 1 /\ Len(toServer) \in Nat
        /\ toServer'[Len(toServer) + 1] = [call |-> cur, seq |-> seq]
        /\ \A j \in 1..Len(toServer) : toServer'[j] = toServer[j]
    BY <1>1, <1>4 DEF TypeOK
  <2>2. \A m : Stamped(m) => Sent(m.call)' /\ m.seq = sentSeq'[m.call]
    BY <1>1, <1>5 DEF Stamped
  <2>3. \A m : m.call = cur /\ m.seq = seq => Sent(m.call)' /\ m.seq = sentSeq'[m.call]
    BY <1>1, <1>4, <1>5
  <2>4. ASSUME NEW j \in 1..Len(toServer')
        PROVE  Stamped(toServer'[j]) \/ (toServer'[j].call = cur /\ toServer'[j].seq = seq)
    <3>1. CASE j \in 1..Len(toServer)
      BY <2>1, <3>1 DEF Stamps
    <3>2. CASE j = Len(toServer) + 1
      BY <2>1, <3>2
    <3> QED
      BY <2>1, <3>1, <3>2
  <2>5. \A m : Stamped(m) \/ (m.call = cur /\ m.seq = seq)
                 => Sent(m.call)' /\ m.seq = sentSeq'[m.call]
    BY <2>2, <2>3
  <2>6. \A i \in 1..Len(wire') : Stamped(wire'[i].reply)
    BY <1>1 DEF Stamps
  <2>7. \A k \in 1..Len(ret') : HasReply(k)' => Stamped(ret'[k].reply)
    BY <1>1 DEF Stamps, HasReply
  <2> QED
    BY <2>4, <2>5, <2>6, <2>7 DEF Stamps, Stamped
<1>7. ASSUME NEW j \in 1..cur, cur + 1 - j < Rollover
      PROVE  \E d \in 0..(cur + 1 - j) : seq' = Turn(sentSeq[j], d) /\ d > 0
  <2>1. PICK d \in 0..(cur - j) : seq = Turn(sentSeq[j], d)
    <3>1. written + 1 - j = cur - j /\ cur - j < Rollover
      BY <1>2, <1>3, <1>7
    <3> QED
      BY <3>1 DEF Turns
  <2>2. d \in Nat /\ d + 1 < Rollover /\ d + 1 \in 0..(cur + 1 - j)
    BY <1>2, <1>7
  <2>3. seq' = Turn(sentSeq[j], d + 1)
    BY <1>2, <1>4, <2>1, <2>2, OneMore
  <2> QED
    BY <2>2, <2>3
<1>8. Turns'
  <2>1. \A j \in 1..cur' : written' + 1 - j < Rollover =>
          \E d \in 0..(written' + 1 - j) : seq' = Turn(sentSeq'[j], d) /\ (Sent(j)' => d > 0)
    BY <1>1, <1>3, <1>7
  <2>2. ASSUME NEW j \in 1..cur, NEW k \in 1..cur, j < k, k - j < Rollover
        PROVE  \E d \in 0..(k - j) : sentSeq'[k] = Turn(sentSeq'[j], d) /\ (Sent(j)' => d > 0)
    <3>1. PICK d \in 0..(k - j) : sentSeq[k] = Turn(sentSeq[j], d) /\ (Sent(j) => d > 0)
      BY <2>2 DEF Turns
    <3>2. j \in 1..(cur - 1)
      BY <1>2, <2>2
    <3> QED
      BY <1>1, <1>5, <3>1, <3>2
  <2> QED
    BY <1>1, <2>1, <2>2 DEF Turns, Turn
<1> QED
  BY <1>6, <1>8

\* A call that returns as unsent was never written, and no other call is.
LEMMA ReturnSent ==
  ASSUME TypeOK, NEW o \in Outcomes, pc \in {"write", "read"}, Return(o),
         o.kind = "unsent" <=> pc = "write"
  PROVE  \A m : Sent(m)' <=> Sent(m)
<1>1. /\ cur' = cur /\ written' = cur /\ Len(ret) = cur - 1 /\ Len(ret') = cur
      /\ ret'[cur] = o /\ \A k \in 1..Len(ret) : ret'[k] = ret[k]
  BY ReturnEffect
<1>2. cur \in Nat /\ written = IF pc = "write" THEN cur - 1 ELSE cur
  BY Numbers DEF written
<1>3. \A m : m \in 1..cur => m = cur \/ m \in 1..(cur - 1)
  BY <1>2
<1>4. \A m \in 1..(cur - 1) : Sent(m)' <=> Sent(m)
  BY <1>1, <1>2 DEF Sent
<1>5. cur \in 1..cur => (Sent(cur)' <=> Sent(cur))
  BY <1>1, <1>2 DEF Sent
<1>6. \A m : m \notin 1..cur => ~Sent(m)' /\ ~Sent(m)
  BY <1>1 DEF Sent
<1> SUFFICES ASSUME NEW m, m \in 1..cur PROVE Sent(m)' <=> Sent(m)
  BY <1>6
<1>7. CASE m = cur
  BY <1>1, <1>5, <1>7 DEF Sent
<1> QED
  BY <1>3, <1>4, <1>7

\* A call that returns, with the reply to a message that was written or none.
LEMMA ReturnNumbers ==
  ASSUME Inv, Stamps, Turns, NEW n, Drops(n), NEW o \in Outcomes, Return(o),
         pc \in {"write", "read"}, o.kind = "unsent" <=> pc = "write",
         toServer' = toServer, seq' = seq,
         o.kind \in {"ok", "short"} => n \in 1..Len(wire) /\ o.reply = wire[1].reply
  PROVE  Stamps' /\ Turns'
<1>1. /\ calls' = calls /\ sentSeq' = sentSeq /\ pc' # "write"
      /\ cur' = cur /\ Len(ret) = cur - 1 /\ Len(ret') = cur /\ ret'[cur] = o
      /\ \A k \in 1..Len(ret) : ret'[k] = ret[k]
  BY ReturnEffect DEF Inv, Return
<1>2. \A m : Sent(m)' <=> Sent(m)
  BY ReturnSent DEF Inv
<1>3. Turns'
  BY <1>1, <1>2, NumbersStay DEF Inv
<1>4. \A m : Sent(m) => Sent(m)' /\ sentSeq'[m] = sentSeq[m]
  BY <1>1, <1>2
<1>5. ASSUME NEW j \in 1..Len(wire') PROVE \E i \in 1..Len(wire) : wire'[j].reply = wire[i].reply
  <2>1. PICK L \in Nat, M \in Nat : L = Len(wire) /\ M = Len(wire') /\ n \in Nat /\ M + n = L
    BY DropLengths, Elements DEF Inv
  <2>2. j + n \in 1..L /\ wire'[j] = wire[j + n]
    BY <2>1 DEF Drops
  <2> QED
    BY <2>1, <2>2
<1>6. o.kind \in {"ok", "short"} => Stamped(o.reply)
  <2>1. n \in 1..Len(wire) => 1 \in 1..Len(wire)
    BY Elements DEF Inv
  <2> QED
    BY <2>1 DEF Stamps
<1>7. ASSUME NEW k \in 1..Len(ret'), HasReply(k)'
      PROVE  \/ k \in 1..Len(ret) /\ HasReply(k) /\ ret'[k] = ret[k]
             \/ Stamped(ret'[k].reply)
  <2>1. cur \in Nat
    BY Elements DEF Inv
  <2>2. ret'[k].kind \in {"ok", "short"}
    BY <1>7 DEF HasReply
  <2>3. CASE k = cur
    BY <1>1, <1>6, <2>2, <2>3
  <2>4. CASE k \in 1..Len(ret)
    BY <1>1, <2>2, <2>4 DEF HasReply
  <2> QED
    BY <1>1, <2>1, <2>3, <2>4
<1>8. Stamps'
  BY <1>4, <1>5, <1>7, StampsStay DEF Inv
<1> QED
  BY <1>3, <1>8

\* A reply carries the number of the message it answers.
LEMMA ServeNumbers ==
  ASSUME Inv, Stamps, Turns, NEW form \in Forms, NEW crlf \in BOOLEAN, Serve(form, crlf)
  PROVE  Stamps' /\ Turns'
<1>1. /\ pc' = pc /\ calls' = calls /\ ret' = ret /\ sentSeq' = sentSeq /\ seq' = seq
      /\ toServer' = Tail(toServer) /\ toServer # <<>>
  BY ServeWire DEF Inv, Serve, callVars
<1>2. \A m : Sent(m)' <=> Sent(m)
  BY <1>1 DEF Sent, cur, written
<1>3. Turns'
  BY <1>1, <1>2, NumbersStay DEF Inv
<1>4. toServer \in Seq(Messages)
  BY MessageType DEF Inv
<1>5. \A j \in 1..Len(toServer') : \E i \in 1..Len(toServer) : toServer'[j] = toServer[i]
  BY <1>1, <1>4
<1>6. Len(toServer) \in Nat /\ Len(toServer) > 0
  BY <1>1, <1>4
<1>7. PICK r \in Replies :
        /\ r.call = toServer[1].call /\ r.seq = toServer[1].seq
        /\ wire'[Len(wire) + 1] = Piece(r, "text")
        /\ wire'[Len(wire) + 2] = Piece(r, "cr")
        /\ Len(wire') = Len(wire) + 3 => wire'[Len(wire) + 3] = Piece(r, "lf")
  BY ServeWire DEF Inv
<1>8. Stamped(r)
  <2>1. Stamped(toServer[1])
    BY <1>6 DEF Stamps
  <2> QED
    BY <1>7, <2>1 DEF Stamped
<1>9. ASSUME NEW j \in 1..Len(wire')
      PROVE  (\E i \in 1..Len(wire) : wire'[j].reply = wire[i].reply) \/ Stamped(wire'[j].reply)
  <2>1. PICK L \in Nat : L = Len(wire)
    BY Elements DEF Inv
  <2>2. Len(wire') \in {L + 2, L + 3} /\ \A i \in 1..L : wire'[i] = wire[i]
    BY <2>1, ServeWire DEF Inv
  <2>3. j \in 1..L \/ j = L + 1 \/ j = L + 2 \/ (j = L + 3 /\ Len(wire') = L + 3)
    BY <2>2
  <2>4. CASE j \in 1..L
    BY <2>1, <2>2, <2>4
  <2>5. CASE j \notin 1..L
    <3>1. wire'[j].reply = r
      BY <1>7, <2>1, <2>3, <2>5 DEF Piece
    <3> QED
      BY <1>8, <3>1
  <2> QED
    BY <2>4, <2>5
<1>10. Stamps'
  BY <1>1, <1>2, <1>5, <1>9, StampsStay DEF Inv, HasReply
<1> QED
  BY <1>3, <1>10

\* The numbers keep telling the calls apart.
LEMMA NumbersStep == Inv /\ Stamps /\ Turns /\ [Next]_vars => Stamps' /\ Turns'
<1> SUFFICES ASSUME Inv, Stamps, Turns, [Next]_vars PROVE Stamps' /\ Turns'
  OBVIOUS
<1>1. ASSUME NEW item \in Items \cup {Login}, Begin(item) PROVE Stamps' /\ Turns'
  BY <1>1, BeginNumbers DEF Inv
<1>2. CASE WriteMessage
  BY <1>2, WriteNumbers DEF Inv
<1>3. CASE WriteFails
  <2>1. /\ pc = "write" /\ Return([kind |-> "unsent"]) /\ toServer' = toServer
        /\ wire' = wire /\ seq' = seq
    BY <1>3 DEF WriteFails, netVars, wire
  <2>2. Drops(0)
    BY <2>1, Elements DEF Inv, Drops
  <2> QED
    BY <2>1, <2>2, NoReplyOutcome, ReturnNumbers
<1>4. CASE ReadFails
  <2>1. PICK n \in 0..Len(wire), o \in Outcomes :
          Drops(n) /\ Return(o) /\ o.kind \in {"timeout", "eof"}
    BY <1>4, FailWire DEF Inv
  <2>2. pc = "read" /\ toServer' = toServer /\ seq' = seq
    BY <1>4, FailWire DEF Inv, ReadFails
  <2> QED
    BY <2>1, <2>2, ReturnNumbers
<1>5. CASE TakeLine
  <2>1. PICK end \in 1..Len(wire), o \in Outcomes :
          /\ Drops(end) /\ Return(o) /\ o.kind \notin {"timeout", "unsent"}
          /\ o.kind \in {"ok", "short"} => o.reply = wire[1].reply
    BY <1>5, TakeWire DEF Inv
  <2>2. pc = "read" /\ toServer' = toServer /\ seq' = seq
    BY <1>5, TakeWire DEF Inv, TakeLine
  <2> QED
    BY <2>1, <2>2, ReturnNumbers
<1>6. ASSUME NEW form \in Forms, NEW crlf \in BOOLEAN, Serve(form, crlf) PROVE Stamps' /\ Turns'
  BY <1>6, ServeNumbers
<1>7. CASE Fill \/ Close \/ TimePasses \/ HangUp \/ UNCHANGED vars
  <2>1. /\ calls' = calls /\ sentSeq' = sentSeq /\ ret' = ret /\ seq' = seq
        /\ toServer' = toServer /\ wire' = wire
        /\ pc' = pc \/ (pc = "idle" /\ pc' = "over")
    BY <1>7, FillWire DEF Inv, Fill, Close, TimePasses, HangUp, vars, callVars, netVars, wire
  <2>2. \A m : Sent(m)' <=> Sent(m)
    BY <2>1 DEF Sent, cur, written
  <2>3. Turns'
    BY <2>1, <2>2, NumbersStay DEF Inv
  <2>4. Stamps'
    BY <2>1, <2>2, StampsStay DEF Inv, HasReply
  <2> QED
    BY <2>3, <2>4
<1> QED
  BY <1>1, <1>2, <1>3, <1>4, <1>5, <1>6, <1>7 DEF Next, Roundtrip

\* "seq is the caller's rolling 0-9 sequence number, echoed by the ACS in its
\* reply": the AY number of a stale reply is never that of the call that takes it,
\* unless the number rolled over in between; sip2.Conn has it and does not look.
THEOREM NumbersTellStaleReplies == Spec => []SeqTellsStaleReply
<1>1. Init => Stamps /\ Turns
  <2> SUFFICES ASSUME Init PROVE Stamps /\ Turns
    OBVIOUS
  <2>1. Len(wire) = 0 /\ Len(toServer) = 0 /\ Len(ret) = 0 /\ cur = 0 /\ pc = "idle"
    BY DEF Init, wire, cur
  <2> QED
    BY <2>1 DEF Stamps, Turns
<1>2. Inv /\ Stamps /\ Turns => SeqTellsStaleReply
  <2> SUFFICES ASSUME Inv, Stamps, Turns, NEW k \in 1..Len(ret), HasReply(k),
                      ret[k].reply.call # k, k - ret[k].reply.call < Rollover
               PROVE  ret[k].reply.seq # sentSeq[k]
    BY Elements DEF Inv, SeqTellsStaleReply
  <2>1. PICK j : j = ret[k].reply.call
    OBVIOUS
  <2>2. Sent(j) /\ ret[k].reply.seq = sentSeq[j] /\ j <= k
    BY <2>1 DEF Inv, Stamps, Stamped, TakenFirst
  <2>3. j \in 1..cur /\ k \in 1..cur /\ j < k /\ k - j < Rollover
    BY <2>1, <2>2, Elements DEF Inv, Sent
  <2>4. PICK d \in 0..(k - j) : sentSeq[k] = Turn(sentSeq[j], d) /\ d > 0
    BY <2>2, <2>3 DEF Turns
  <2>5. sentSeq[j] \in 0..(Rollover - 1) /\ Rollover \in Nat /\ d \in 1..(Rollover - 1)
    BY <2>3, <2>4, Numbers DEF Inv
  <2>6. Turn(sentSeq[j], d) # sentSeq[j]
    BY <2>5 DEF Turn
  <2> QED
    BY <2>2, <2>4, <2>6
<1> QED
  BY <1>1, <1>2, NumbersStep, SessionInvariant, PTL DEF Spec
===============================================================================
