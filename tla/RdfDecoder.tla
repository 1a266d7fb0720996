------------------------------ MODULE RdfDecoder ------------------------------
(***************************************************************************)
(* rdf.Decoder over RDF/XML and Turtle (pipe in rdf/decoder.go): a         *)
(* producer goroutine parses the input and hands each triple over an       *)
(* unbuffered channel ch to the goroutine that calls Decode; done stops    *)
(* it, errc holds what it returned, and closing ch tells the consumer that *)
(* there is no more.                                                       *)
(*                                                                         *)
(* The consumer calls Decode and Close as it likes, or ranges over All,    *)
(* which closes the Decoder however the loop ends.  An input is how many   *)
(* triples it yields before it ends, in a parse or read error or cleanly.  *)
(***************************************************************************)
EXTENDS Naturals, Sequences

CONSTANT MaxTriples

ASSUME DecoderAssumption == MaxTriples \in Nat

PipeInputs == [triples : 0..MaxTriples, end : {"eof", "error"}]

VARIABLES
  input,     \* what r holds
  parsed,    \* triples the producer has parsed
  producer,  \* "parsing", "sending", "closing" or "exited"
  done,      \* done is closed
  errc,      \* the value in errc: <<>>, or one of the input's ends
  open,      \* ch is not closed
  consumer,  \* "idle", "receiving" (in nextQuad) or "gone"
  ranging,   \* the consumer is in an All loop
  received,  \* triples nextQuad has returned
  finished,  \* nextQuad's finished
  termErr    \* and its termErr: "none", "eof" or "error"

producerVars == <<parsed, producer, errc, open>>
consumerVars == <<consumer, ranging, received, finished, termErr>>
pipeVars == <<input, done, producerVars, consumerVars>>

PipeInit ==
  /\ input \in PipeInputs /\ parsed = 0 /\ producer = "parsing"
  /\ done = FALSE /\ errc = <<>> /\ open = TRUE
  /\ consumer = "idle" /\ ranging \in BOOLEAN
  /\ received = <<>> /\ finished = FALSE /\ termErr = "none"

-----------------------------------------------------------------------------
\* The producer goroutine.

\* Mutant: a buffered channel lets the producer run ahead.
ParseTriple_Buffered ==
  /\ producer \in {"parsing", "sending"} /\ parsed < input.triples
  /\ parsed' = parsed + 1 /\ producer' = "sending"
  /\ UNCHANGED <<input, done, errc, open, consumerVars>>

ParseTriple ==
  /\ producer = "parsing" /\ parsed < input.triples
  /\ parsed' = parsed + 1 /\ producer' = "sending"
  /\ UNCHANGED <<input, done, errc, open, consumerVars>>

\* Mutant: emit returns instead of panicking.
EmitStopped_GoesOn ==
  /\ producer = "sending" /\ done
  /\ producer' = "parsing"
  /\ UNCHANGED <<input, done, parsed, errc, open, consumerVars>>

\* emit's select: with done closed and a receiver waiting either case is taken.
EmitStopped ==
  /\ producer = "sending" /\ done
  /\ producer' = "closing"
  /\ UNCHANGED <<input, done, parsed, errc, open, consumerVars>>

\* Mutant: ch is closed before the result is in errc.
ParseEnds_ClosesFirst ==
  /\ producer = "parsing" /\ parsed = input.triples
  /\ open' = FALSE /\ producer' = "closing"
  /\ UNCHANGED <<input, done, parsed, errc, consumerVars>>

ParseEnds ==
  /\ producer = "parsing" /\ parsed = input.triples
  /\ errc' = <<input.end>> /\ producer' = "closing"
  /\ UNCHANGED <<input, done, parsed, open, consumerVars>>

\* Mutant: ch stays open.
CloseChannel_Forgotten ==
  /\ producer = "closing"
  /\ producer' = "exited"
  /\ UNCHANGED <<input, done, parsed, errc, open, consumerVars>>

\* The deferred close(ch).
CloseChannel ==
  /\ producer = "closing"
  /\ open' = FALSE /\ producer' = "exited"
  /\ UNCHANGED <<input, done, parsed, errc, consumerVars>>

\* The unbuffered channel: both sides at once.
Handover ==
  /\ producer = "sending" /\ consumer = "receiving"
  /\ received' = Append(received, parsed)
  /\ producer' = "parsing" /\ consumer' = "idle"
  /\ UNCHANGED <<input, done, parsed, errc, open, ranging, finished, termErr>>

-----------------------------------------------------------------------------
\* The consumer.

\* Once finished nextQuad returns termErr again.
Decode ==
  /\ consumer = "idle" /\ ~finished
  /\ consumer' = "receiving"
  /\ UNCHANGED <<input, done, producerVars, ranging, received, finished, termErr>>

\* ch is closed: errc is read without blocking, and io.EOF stands in for what
\* it does not hold.  All's loop ends here, and its deferred stop runs.
ReceiveClosed ==
  /\ consumer = "receiving" /\ ~open
  /\ finished' = TRUE
  /\ termErr' = IF errc = <<>> THEN "eof" ELSE errc[1]
  /\ errc' = <<>>
  /\ consumer' = IF ranging THEN "gone" ELSE "idle"
  /\ done' = (done \/ ranging)
  /\ UNCHANGED <<input, parsed, producer, open, ranging, received>>

\* Mutant: without the deferred stop.
Break_WithoutStop ==
  /\ consumer = "idle" /\ ranging
  /\ consumer' = "gone"
  /\ UNCHANGED <<input, done, producerVars, ranging, received, finished, termErr>>

\* The loop body of All breaks, and the deferred stop runs.
Break ==
  /\ consumer = "idle" /\ ranging
  /\ done' = TRUE /\ consumer' = "gone"
  /\ UNCHANGED <<input, producerVars, ranging, received, finished, termErr>>

CloseDecoder ==
  /\ consumer = "idle" /\ ~ranging
  /\ done' = TRUE
  /\ UNCHANGED <<input, producerVars, consumerVars>>

\* A caller of Decode that walks away, closed or not.
Leave ==
  /\ consumer = "idle" /\ ~ranging
  /\ consumer' = "gone"
  /\ UNCHANGED <<input, done, producerVars, ranging, received, finished, termErr>>

Producer == ParseTriple \/ EmitStopped \/ ParseEnds \/ CloseChannel
Consumer == Decode \/ ReceiveClosed \/ Break \/ CloseDecoder \/ Leave

PipeNext == Producer \/ Handover \/ Consumer

PipeSpec == PipeInit /\ [][PipeNext]_pipeVars

\* The goroutines run, and reads of r return.  Nothing makes a caller call.
FairPipeSpec == PipeSpec /\ WF_pipeVars(Producer) /\ WF_pipeVars(Handover) /\ WF_pipeVars(ReceiveClosed)

-----------------------------------------------------------------------------
\* Properties.

\* Ranges of the variables.
PipeTypeOK ==
  /\ input \in PipeInputs /\ parsed \in 0..input.triples
  /\ producer \in {"parsing", "sending", "closing", "exited"}
  /\ {done, open, ranging, finished} \subseteq BOOLEAN
  /\ errc \in {<<>>, <<"eof">>, <<"error">>}
  /\ consumer \in {"idle", "receiving", "gone"}
  /\ received \in Seq(1..MaxTriples)
  /\ termErr \in {"none", "eof", "error"} /\ (finished <=> termErr # "none")

\* "In constant memory": the producer is never more than one triple ahead.
OneAhead == parsed - Len(received) \in {0, 1}

\* "io.EOF therefore means the input ended": unless the caller closed the
\* Decoder first, io.EOF is returned only after all of an input that is well
\* formed, and the error of one that is not is never lost.
EOFMeansEnded ==
  [][(finished' /\ ~finished /\ ~done) =>
       termErr' = input.end /\ Len(received) = input.triples]_pipeVars

\* A Decoder that was closed may go on handing out triples before it ends; they
\* are still the input's, in order and without a gap.
PipeSource == INSTANCE RecordSource WITH
            Streams <- Seq(Nat), stream <- [i \in 1..input.triples |-> i],
            delivered <- received, end <- termErr,
            cut <- termErr = "eof" /\ Len(received) < input.triples
StreamsInput == PipeSource!Spec

\* "Breaking out of the loop stops the producer", Close releases it, and it has
\* nothing left to do once the end was reported.
ProducerReleased ==
  (done \/ finished \/ (ranging /\ consumer = "gone")) ~> (producer = "exited")

\* A Decode returns.
DecodeReturns == (consumer = "receiving") ~> (consumer # "receiving")
=============================================================================
