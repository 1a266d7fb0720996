------------------------------ MODULE Transcode ------------------------------
(***************************************************************************)
(* Who drives a codex.RecordWriter: runConvert (cmd/libcodex/convert.go),  *)
(* which drains its input sources into it one after the other with         *)
(* codex.Convert and finalizes it, also when it gives up; or a client of   *)
(* the package, who calls Write and Close in any order and may go on after *)
(* an error.                                                               *)
(*                                                                         *)
(* A source is a stream a codex.RecordReader reads: its records, by        *)
(* whether the writer's validation accepts them, and how it ends.  One     *)
(* that ends "undetected" is refused before it is read.                    *)
(***************************************************************************)
EXTENDS RecordWriter

CONSTANT Inputs  \* the lists of sources the command may be given

Ends == {"eof", "error", "undetected"}
ASSUME TranscodeAssumption ==
  Inputs \subseteq Seq([recs : Seq({"valid", "invalid"}), end : Ends])

VARIABLES
  caller,  \* "convert" or "client"
  args,    \* the sources the command was given
  srcs,    \* what is left of them
  place,   \* runConvert: "next" (source or record), "write", "final", or done
  failed,  \* the error it will return, if any: BOOLEAN
  outcome  \* what it returned: "none", "nil" or "error"

loopVars == <<caller, args, srcs, place, failed, outcome>>
allVars  == <<writerVars, loopVars>>

TranscodeInit ==
  /\ WriterInit
  /\ caller \in {"convert", "client"}
  /\ args \in IF caller = "convert" THEN Inputs ELSE {<<>>}
  /\ srcs = args
  /\ place = "next" /\ failed = FALSE /\ outcome = "none"

AllRead == srcs = <<>>
Source  == Head(srcs)
InLoop  == caller = "convert" /\ place = "next" /\ Idle

-----------------------------------------------------------------------------
\* runConvert's loop over its sources around codex.Convert's over their records.

GiveUp == place' = "final" /\ failed' = TRUE /\ UNCHANGED <<caller, args, srcs, outcome>>

SourceFails ==
  /\ InLoop /\ ~AllRead
  /\ Source.end = "undetected" \/ (Source.recs = <<>> /\ Source.end = "error")
  /\ GiveUp /\ UNCHANGED writerVars

\* Mutant: any error of a reader is taken for the end of its stream.
SourceEnds_OnError ==
  /\ InLoop /\ ~AllRead /\ Source.recs = <<>> /\ Source.end # "undetected"
  /\ srcs' = Tail(srcs)
  /\ UNCHANGED <<writerVars, caller, args, place, failed, outcome>>

SourceEnds ==
  /\ InLoop /\ ~AllRead /\ Source.recs = <<>> /\ Source.end = "eof"
  /\ srcs' = Tail(srcs)
  /\ UNCHANGED <<writerVars, caller, args, place, failed, outcome>>

ConvertRecord ==
  /\ InLoop /\ ~AllRead /\ Source.recs # <<>> /\ Source.end # "undetected"
  /\ LET valid == Head(Source.recs) = "valid"
     IN WriteStarts(valid) \/ WriteRefused(valid)
  /\ srcs' = <<[Source EXCEPT !.recs = Tail(@)]>> \o Tail(srcs)
  /\ place' = "write"
  /\ UNCHANGED <<caller, args, failed, outcome>>

CallReturned == caller = "convert" /\ place = "write" /\ Idle

RecordWritten ==
  /\ CallReturned /\ result = "nil"
  /\ place' = "next"
  /\ UNCHANGED <<writerVars, caller, args, srcs, failed, outcome>>

RecordFails ==
  /\ CallReturned /\ result = "error"
  /\ GiveUp /\ UNCHANGED writerVars

SourcesDrained ==
  /\ InLoop /\ AllRead
  /\ place' = "final"
  /\ UNCHANGED <<writerVars, caller, args, srcs, failed, outcome>>

\* codex.Close(w), whose error counts only when there is no other.
Finalize ==
  /\ caller = "convert" /\ place = "final"
  /\ CloseStarts \/ CloseReturns
  /\ place' = "closing"
  /\ UNCHANGED <<caller, args, srcs, failed, outcome>>

ConvertReturns ==
  /\ caller = "convert" /\ place = "closing" /\ Idle
  /\ outcome' = IF failed THEN "error" ELSE result
  /\ place' = "done"
  /\ UNCHANGED <<writerVars, caller, args, srcs, failed>>

-----------------------------------------------------------------------------
ClientWrites ==
  /\ caller = "client"
  /\ \E valid \in BOOLEAN : WriteStarts(valid) \/ WriteRefused(valid)
  /\ UNCHANGED loopVars

ClientCloses ==
  /\ caller = "client"
  /\ CloseStarts \/ CloseReturns
  /\ UNCHANGED loopVars

WriterRuns == Running /\ UNCHANGED loopVars

Convert == \/ SourceFails \/ SourceEnds \/ ConvertRecord \/ RecordWritten
           \/ RecordFails \/ SourcesDrained \/ Finalize \/ ConvertReturns

TranscodeNext == Convert \/ ClientWrites \/ ClientCloses \/ WriterRuns

TranscodeSpec == TranscodeInit /\ [][TranscodeNext]_allVars

-----------------------------------------------------------------------------
\* Properties.

TranscodeTypeOK ==
  /\ WriterTypeOK
  /\ place \in {"next", "write", "final", "closing", "done"}
  /\ failed \in BOOLEAN /\ outcome \in {"none", "nil", "error"}

\* iso2709.Writer keeps no error, so it is only as good as a caller that stops
\* at the first one, as codex.Convert and every WriteFile do.
Trusted == caller = "convert" \/ Sticky(format)

\* Whatever fails and wherever, what is on the stream is the beginning of the
\* well-formed document of the records in it, or of these and the next one: one
\* header, separators between records and nowhere else, one trailer, and a torn
\* piece only at the very end.
StreamIsPrefix ==
  Trusted =>
    LET whole == IF stream # <<>> /\ Last(stream) = Torn THEN Front(stream) ELSE stream
    IN /\ \A i \in DOMAIN stream : stream[i] = Torn => i = Len(stream)
       /\ \E following \in {<<>>, <<given>>} : IsPrefix(whole, Document(Written \o following))

\* Write's answer is reliable: the records on the stream are those it returned
\* nil for, in order, and perhaps the one whose write failed after it was out.
WrittenIsTaken ==
  Trusted =>
    \/ Written = taken
    \/ /\ err \/ failed \/ result = "error"
       /\ Written # <<>> /\ Front(Written) = taken

\* A nil error from the last Close means the whole document is there.
ClosedMeansComplete ==
  (closed /\ ~err /\ Idle /\ format \in Closable) => stream = Document(taken)

\* runConvert returns nil only if every source was read to its end and all their
\* records are in a complete document; what it wrote before it gave up is the
\* first records of the input, and no others.
Supplied ==
  LET inFirst[i \in 0..Len(args)] ==
        IF i = 0 THEN 0 ELSE inFirst[i - 1] + Len(args[i].recs)
  IN inFirst[Len(args)]
ConvertIsFaithful ==
  /\ outcome = "nil" => /\ \A i \in DOMAIN args : args[i].end = "eof"
                        /\ taken = [i \in 1..Supplied |-> i]
                        /\ stream = Document(taken)
  /\ caller = "convert" => taken \in {[i \in 1..n |-> i] : n \in {given - 1, given}}

\* The writer as a RecordSink: nothing follows a Close or a failed write.
SinkState == IF err THEN "broken" ELSE IF closed /\ Idle THEN "complete" ELSE "open"
ForSink(value, default) ==
  IF Sticky(format) THEN value ELSE default
Sink == INSTANCE RecordSink WITH
          Records <- 1..MaxRecords,
          written <- ForSink(Written, <<>>),
          state <- ForSink(SinkState, "open")
ImplementsSink == Sink!Spec
=============================================================================
