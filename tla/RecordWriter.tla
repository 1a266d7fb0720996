----------------------------- MODULE RecordWriter -----------------------------
(***************************************************************************)
(* The codex.RecordWriters of the repository over one io.Writer.  They     *)
(* share one design and differ in what they put around and between the     *)
(* records and in which calls they refuse, so one module describes them    *)
(* all, parameterised by the format.                                       *)
(*                                                                         *)
(* A call decides what it will write, as chunks that each go to the        *)
(* io.Writer in one Write; the first chunk that fails ends the call.  Such *)
(* a Write may have put out any part of its chunk.  Some formats validate  *)
(* a record before anything is written.                                    *)
(***************************************************************************)
EXTENDS Integers, Sequences, SequencesExt, Selection

CONSTANTS
  Formats,     \* the output formats to look at
  MaxRecords   \* bound: records handed to Write

Wrapped      == {"marcxml", "mods", "oai_dc", "rdfxml",
                 "marcjson", "dcjson", "schemaorg", "jsonld"}
Headed       == Wrapped \cup {"turtle"}
CommaFormats == {"marcjson", "dcjson", "schemaorg", "jsonld"}
Separated    == CommaFormats \cup {"bibtex"}
Validating   == {"marcxml", "marcjson", "mrk", "iso2709"}
Closable     == Wrapped \cup {"mrk"}  \* those whose Close rejects further writes
Sticky(f)    == f # "iso2709"         \* keep the first write error for good
AllFormats   == Headed \cup Separated \cup Validating \cup {"ris", "ntriples", "nquads"}

ASSUME WriterAssumption == Formats \subseteq AllFormats /\ MaxRecords \in Nat

VARIABLES
  format,    \* the writer's format
  opened,    \* the header was attempted (started in TurtleWriter)
  closed,    \* Close was called
  wrote,     \* the next record needs a separator (idx > 0 in JSONLDWriter)
  err,       \* a sticky write error
  pend,      \* chunks the running call has still to write
  given,     \* records handed to Write so far
  taken,     \* those for which Write returned nil, in order
  result,    \* how the last call ended: "none", "nil" or "error"
  stream     \* what reached the io.Writer

writerVars == <<format, opened, closed, wrote, err, pend, given, taken, result, stream>>

-----------------------------------------------------------------------------
Header  == <<"head", 0>>
Sep     == <<"separator", 0>>
Trailer == <<"tail", 0>>
Torn    == <<"torn", 0>>  \* part of one of the others
Rec(n)  == <<"record", n>>

\* What a stream of this format holds once s has been written and it is closed.
Body(s) ==
  IF format \notin Separated THEN [i \in DOMAIN s |-> Rec(s[i])]
  ELSE [i \in 1..(2 * Len(s) - 1) |-> IF i % 2 = 0 THEN Sep ELSE Rec(s[(i + 1) \div 2])]
Document(s) == (IF format \in Wrapped \/ (format = "turtle" /\ s # <<>>) THEN <<Header>> ELSE <<>>)
                 \o Body(s)
                 \o (IF format \in Wrapped THEN <<Trailer>> ELSE <<>>)

WriterInit ==
  /\ format \in Formats
  /\ opened = FALSE /\ closed = FALSE /\ wrote = FALSE /\ err = FALSE
  /\ pend = <<>> /\ given = 0 /\ taken = <<>> /\ result = "none" /\ stream = <<>>

Idle == pend = <<>>

-----------------------------------------------------------------------------
\* The chunks of Write: the header first if it is still to come, then the record
\* with the separator before it; BibTeX writes its separator on its own.
Opening == IF format \in Headed /\ ~opened THEN << <<Header>> >> ELSE <<>>
RecordChunks(n) ==
  IF ~wrote \/ format \notin Separated THEN << <<Rec(n)>> >>
  ELSE IF format = "bibtex" THEN << <<Sep>>, <<Rec(n)>> >>
  ELSE << <<Sep, Rec(n)>> >>

\* Mutant: Write does not look at closed.
Refused_NotByClose(valid) == err \/ (~valid /\ format \in Validating)

Refused(valid) == err \/ (closed /\ format \in Closable)
                    \/ (~valid /\ format \in Validating)

\* Write returns an error and touches neither the stream nor its own state.
WriteRefused(valid) ==
  /\ Idle /\ given < MaxRecords /\ Refused(valid)
  /\ given' = given + 1 /\ result' = "error"
  /\ UNCHANGED <<format, opened, closed, wrote, err, pend, taken, stream>>

WriteStarts(valid) ==
  /\ Idle /\ given < MaxRecords /\ ~Refused(valid)
  /\ given' = given + 1
  /\ pend' = Opening \o RecordChunks(given')
  /\ opened' = TRUE
  /\ UNCHANGED <<format, closed, wrote, err, taken, result, stream>>

\* codex.Close and the Close it finds.  Formats without one, and those whose
\* Close only reports, change nothing.
CloseReturns ==
  /\ Idle /\ (err \/ closed \/ format \notin Wrapped)
  /\ closed' = (closed \/ (~err /\ format \in Closable))
  /\ result' = IF err /\ format \notin {"ris", "bibtex"} THEN "error" ELSE "nil"
  /\ UNCHANGED <<format, opened, wrote, err, pend, given, taken, stream>>

\* Mutant: an empty document gets no header.
CloseStarts_WithoutOpen ==
  /\ Idle /\ ~err /\ ~closed /\ format \in Wrapped
  /\ closed' = TRUE
  /\ pend' = << <<Trailer>> >>
  /\ UNCHANGED <<format, opened, wrote, err, given, taken, result, stream>>

CloseStarts ==
  /\ Idle /\ ~err /\ ~closed /\ format \in Wrapped
  /\ closed' = TRUE /\ opened' = TRUE
  /\ pend' = Opening \o << <<Trailer>> >>
  /\ UNCHANGED <<format, wrote, err, given, taken, result, stream>>

\* writeAll: the io.Writer takes the chunk.  With the last one the call returns.
Emit ==
  /\ ~Idle
  /\ stream' = stream \o Head(pend) /\ pend' = Tail(pend)
  /\ wrote' = (wrote \/ Contains(Head(pend), Rec(given)))
  /\ IF pend' = <<>>
       THEN result' = "nil" /\ taken' = IF closed THEN taken ELSE Append(taken, given)
       ELSE UNCHANGED <<result, taken>>
  /\ UNCHANGED <<format, opened, closed, err, given>>

\* Mutants: the error is dropped; the error is returned and not kept.
EmitFails_Unreported ==
  /\ ~Idle
  /\ \E n \in 0..Len(Head(pend)) : stream' = stream \o SubSeq(Head(pend), 1, n)
  /\ pend' = <<>> /\ result' = "nil"
  /\ taken' = IF closed THEN taken ELSE Append(taken, given)
  /\ UNCHANGED <<format, opened, closed, wrote, err, given>>
EmitFails_NotSticky ==
  /\ ~Idle
  /\ \E n \in 0..Len(Head(pend)), torn \in {<<>>, <<Torn>>} :
       /\ n = Len(Head(pend)) => torn = <<>>
       /\ stream' = stream \o SubSeq(Head(pend), 1, n) \o torn
  /\ pend' = <<>> /\ result' = "error"
  /\ wrote' = (wrote \/ Contains(Head(pend), Rec(given)))
  /\ UNCHANGED <<format, opened, closed, err, given, taken>>

\* Or it fails, having taken some whole pieces of the chunk and perhaps a part
\* of the next, and the call returns its error.
EmitFails ==
  /\ ~Idle
  /\ \E n \in 0..Len(Head(pend)), torn \in {<<>>, <<Torn>>} :
       /\ n = Len(Head(pend)) => torn = <<>>
       /\ stream' = stream \o SubSeq(Head(pend), 1, n) \o torn
  /\ pend' = <<>> /\ result' = "error"
  /\ err' = Sticky(format)
  /\ wrote' = (wrote \/ Contains(Head(pend), Rec(given)))
  /\ UNCHANGED <<format, opened, closed, given, taken>>

Running == Emit \/ EmitFails

-----------------------------------------------------------------------------
\* Properties.

\* The records that reached the stream whole.
RecordsIn(s) == LET at == Select({i \in DOMAIN s : s[i][1] = "record"}, Len(s))
                IN [k \in DOMAIN at |-> s[at[k]][2]]
Written == RecordsIn(stream)

\* Ranges of the variables.
WriterTypeOK ==
  /\ format \in Formats
  /\ {opened, closed, wrote, err} \subseteq BOOLEAN
  /\ given \in 0..MaxRecords
  /\ taken \in Seq(1..MaxRecords) /\ Len(taken) <= given
  /\ result \in {"none", "nil", "error"}
  /\ Len(pend) <= 3
=============================================================================
