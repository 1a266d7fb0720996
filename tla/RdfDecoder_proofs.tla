--------------------------- MODULE RdfDecoder_proofs ---------------------------
(***************************************************************************)
(* Proofs about RdfDecoder, for every bound on the triples of an input.    *)
(***************************************************************************)
EXTENDS RdfDecoder, TLAPS

\* Where the producer stands: a triple parsed is in its hands until it is taken,
\* and what was taken is the beginning of the input.
HandedOver ==
  /\ \A i \in DOMAIN received : received[i] = i
  /\ producer = "parsing" => parsed = Len(received)
  /\ producer = "sending" => parsed = Len(received) + 1
  /\ parsed \in {Len(received), Len(received) + 1}

\* What errc and the closing of ch tell the consumer, and when.
ResultWaits ==
  /\ open <=> producer # "exited"
  /\ producer \in {"parsing", "sending"} => errc = <<>>
  /\ errc # <<>> => errc = <<input.end>> /\ Len(received) = input.triples
  /\ producer \in {"closing", "exited"} /\ ~done /\ ~finished => errc # <<>>
  /\ consumer = "receiving" => ~finished

Inv == PipeTypeOK /\ HandedOver /\ ResultWaits

-----------------------------------------------------------------------------
\* The goroutines begin apart, with nothing parsed, taken or reported.
LEMMA InitInv == PipeInit => Inv
<1> SUFFICES ASSUME PipeInit PROVE Inv
  OBVIOUS
<1>1. /\ received \in Seq(1..MaxTriples) /\ Len(received) = 0
      /\ \A i \in DOMAIN received : received[i] = i
  BY DecoderAssumption DEF PipeInit
<1>2. input.triples \in Nat /\ parsed \in 0..input.triples
  BY DecoderAssumption DEF PipeInit, PipeInputs
<1>3. PipeTypeOK
  BY <1>1, <1>2 DEF PipeInit, PipeTypeOK
<1>4. HandedOver
  BY <1>1 DEF PipeInit, HandedOver
<1>5. ResultWaits
  BY DEF PipeInit, ResultWaits
<1> QED
  BY <1>3, <1>4, <1>5 DEF Inv

\* What is taken next continues the beginning of the input that was taken.
LEMMA TakenNext ==
  ASSUME NEW S, NEW s \in Seq(S), NEW n \in S, n = Len(s) + 1,
         \A i \in DOMAIN s : s[i] = i
  PROVE  /\ Append(s, n) \in Seq(S) /\ Len(Append(s, n)) = n
         /\ \A i \in DOMAIN Append(s, n) : Append(s, n)[i] = i
OBVIOUS

\* The hand-over is the one step of both goroutines.
LEMMA HandoverInv == Inv /\ Handover => Inv'
<1> SUFFICES ASSUME Inv, Handover PROVE Inv'
  OBVIOUS
<1> USE DEF Inv
<1>1. parsed \in 1..MaxTriples /\ parsed = Len(received) + 1
  BY DecoderAssumption DEF Handover, PipeTypeOK, HandedOver, PipeInputs
<1>2. /\ received' \in Seq(1..MaxTriples) /\ Len(received') = parsed
      /\ \A i \in DOMAIN received' : received'[i] = i
  BY <1>1, TakenNext DEF Handover, PipeTypeOK, HandedOver
<1>3. PipeTypeOK'
  BY <1>2 DEF Handover, PipeTypeOK
<1>4. HandedOver'
  BY <1>2 DEF Handover, HandedOver
<1>5. ResultWaits'
  BY DEF Handover, ResultWaits
<1> QED
  BY <1>3, <1>4, <1>5

\* The invariant is preserved by every step of either goroutine.
LEMMA StepInv == Inv /\ [PipeNext]_pipeVars => Inv'
<1> SUFFICES ASSUME Inv, [PipeNext]_pipeVars PROVE Inv'
  OBVIOUS
<1> USE DecoderAssumption DEF Inv, PipeTypeOK, HandedOver, ResultWaits, PipeInputs
<1>1. CASE ParseTriple
  BY <1>1 DEF ParseTriple, consumerVars
<1>2. CASE EmitStopped
  BY <1>2 DEF EmitStopped, consumerVars
<1>3. CASE ParseEnds
  BY <1>3 DEF ParseEnds, consumerVars
<1>4. CASE CloseChannel
  BY <1>4 DEF CloseChannel, consumerVars
<1>5. CASE Handover
  BY <1>5, HandoverInv
<1>6. CASE Decode
  BY <1>6 DEF Decode, producerVars
<1>7. CASE ReceiveClosed
  BY <1>7 DEF ReceiveClosed
<1>8. CASE Break
  BY <1>8 DEF Break, producerVars
<1>9. CASE CloseDecoder
  BY <1>9 DEF CloseDecoder, producerVars, consumerVars
<1>10. CASE Leave
  BY <1>10 DEF Leave, producerVars
<1>11. CASE UNCHANGED pipeVars
  BY <1>11 DEF pipeVars, producerVars, consumerVars
<1> QED
  BY <1>1, <1>2, <1>3, <1>4, <1>5, <1>6, <1>7, <1>8, <1>9, <1>10, <1>11
     DEF PipeNext, Producer, Consumer

\* Both goroutines' variables keep together: the invariant the theorems rest on.
THEOREM Together == PipeSpec => []Inv
BY InitInv, StepInv, PTL DEF PipeSpec

\* The variables of pipe and of its consumer keep to their ranges
\* (rdf/decoder.go).
THEOREM TypeCorrect == PipeSpec => []PipeTypeOK
BY Together, PTL DEF Inv

\* "In constant memory": however long the input, the producer goroutine of pipe
\* holds at most one triple that Decode has not returned.
THEOREM NeverMoreThanOneAhead == PipeSpec => []OneAhead
<1>1. Inv => OneAhead
  BY DEF Inv, PipeTypeOK, HandedOver, OneAhead, PipeInputs
<1> QED
  BY <1>1, Together, PTL

-----------------------------------------------------------------------------
\* A Decoder nobody closed ends as its input ended: nextQuad's io.EOF is not the
\* closing of ch overtaking an error on its way through errc.
THEOREM EndIsTheInputs == PipeSpec => EOFMeansEnded
<1>1. Inv /\ [PipeNext]_pipeVars =>
        [(finished' /\ ~finished /\ ~done) =>
           termErr' = input.end /\ Len(received) = input.triples]_pipeVars
  <2> SUFFICES ASSUME Inv, [PipeNext]_pipeVars, finished', ~finished, ~done
               PROVE  termErr' = input.end /\ Len(received) = input.triples
    OBVIOUS
  <2>1. ReceiveClosed
    BY DEF PipeNext, Producer, Consumer, ParseTriple, EmitStopped, ParseEnds, CloseChannel,
           Handover, Decode, Break, CloseDecoder, Leave, pipeVars, consumerVars, producerVars
  <2>2. errc # <<>>
    BY <2>1 DEF ReceiveClosed, Inv, ResultWaits
  <2>3. errc = <<input.end>> /\ Len(received) = input.triples
    BY <2>2 DEF Inv, ResultWaits
  <2> QED
    BY <2>1, <2>3 DEF ReceiveClosed
<1> QED
  BY <1>1, Together, PTL DEF PipeSpec, EOFMeansEnded

-----------------------------------------------------------------------------
\* The refinement of RecordSource.

\* Before anything is returned a Decoder is a source at its beginning.
LEMMA SourceInit == PipeInit => PipeSource!Init
BY DecoderAssumption DEF PipeInit, PipeInputs, PipeSource!Init

\* A hand-over delivers the next triple of the input.
LEMMA HandoverDelivers == Inv /\ Handover => PipeSource!Deliver
<1> SUFFICES ASSUME Inv, Handover PROVE PipeSource!Deliver
  OBVIOUS
<1> DEFINE stream == [i \in 1..input.triples |-> i]
<1>1. parsed = Len(received) + 1 /\ parsed \in 1..input.triples /\ input.triples \in Nat
  BY DecoderAssumption DEF Inv, PipeTypeOK, HandedOver, Handover, PipeInputs
<1>2. Len(stream) = input.triples /\ stream[Len(received) + 1] = parsed
  BY <1>1
<1>3. termErr = "none" /\ termErr' = "none"
  BY DEF Inv, PipeTypeOK, ResultWaits, Handover
<1>4. received' = Append(received, stream[Len(received) + 1]) /\ Len(received) < Len(stream)
  BY <1>1, <1>2 DEF Handover
<1>5. input' = input
  BY DEF Handover
<1> QED
  BY <1>3, <1>4, <1>5 DEF PipeSource!Deliver

\* The end nextQuad reports is one the source may come to: io.EOF before all was
\* returned only from an input that a Close cut short.
LEMMA ReceiveFinishes == Inv /\ ReceiveClosed => PipeSource!Finish
<1> SUFFICES ASSUME Inv, ReceiveClosed PROVE PipeSource!Finish
  OBVIOUS
<1> DEFINE stream == [i \in 1..input.triples |-> i]
<1>1. termErr = "none" /\ termErr' \in {"eof", "error"}
  BY DEF Inv, PipeTypeOK, ResultWaits, ReceiveClosed
<1>2. input' = input /\ received' = received
  BY DEF ReceiveClosed
<1>3. Len(received) \in Nat /\ Len(received) <= input.triples /\ input.triples \in Nat
  BY DecoderAssumption DEF Inv, PipeTypeOK, HandedOver, PipeInputs
<1>4. Len(stream) = input.triples
  BY <1>3
<1>5. (Len(received) < input.triples) \/ Len(received) = Len(stream)
  BY <1>3, <1>4
<1> QED
  BY <1>1, <1>2, <1>5 DEF PipeSource!Finish

\* Every step of the goroutines is one of the source or invisible to it.
LEMMA SourceStep == Inv /\ [PipeNext]_pipeVars => [PipeSource!Next]_(PipeSource!sourceVars)
<1> SUFFICES ASSUME Inv, [PipeNext]_pipeVars PROVE [PipeSource!Next]_(PipeSource!sourceVars)
  OBVIOUS
<1>1. CASE Handover
  BY <1>1, HandoverDelivers DEF PipeSource!Next
<1>2. CASE ReceiveClosed
  BY <1>2, ReceiveFinishes DEF PipeSource!Next
<1>3. CASE ~Handover /\ ~ReceiveClosed
  <2>1. UNCHANGED <<input, received, termErr>>
    BY <1>3 DEF PipeNext, Producer, Consumer, ParseTriple, EmitStopped, ParseEnds, CloseChannel,
                Decode, Break, CloseDecoder, Leave, pipeVars, consumerVars, producerVars
  <2> QED
    BY <2>1 DEF PipeSource!sourceVars
<1> QED
  BY <1>1, <1>2, <1>3

\* rdf.Decoder implements the contract of a reader: the triples of its input, in
\* order and without a gap, and io.EOF early only after a Close.
THEOREM DecoderIsASource == PipeSpec => StreamsInput
BY Together, SourceInit, SourceStep, PTL DEF PipeSpec, StreamsInput, PipeSource!Spec
===============================================================================
