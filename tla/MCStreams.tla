------------------------------- MODULE MCStreams -------------------------------
(* Instances of Sip2Session, of SruReader, of Transcode and of RdfDecoder: an  *)
(* exchange with a server, a result set of one, a conversion into a stream and *)
(* a parser's goroutine.  They share no state; a behaviour of MCSpec is one of *)
(* one of them, while the others have nothing to do and do not begin.          *)
EXTENDS MCSip2Session, SruReader, Transcode, RdfDecoder

\* Result sets of none to five records of every schema, in pages of up to two,
\* from a server that may leave either number out of each page.
MCCatalogs == {<<>>, <<"marcxml">>, <<"other", "marcxml">>,
               <<"marcxml", "other", "marcxml", "corrupt", "marcxml">>,
               <<"marcxml", "marcxml", "other", "marcxml", "marcxml">>}

\* Every format, and up to three records: from a client, or from sources of every
\* length and ending, among them a broken one before and after others.
MCFormats == AllFormats
Sources(recs, end) == [recs |-> recs, end |-> end]
MCInputs == {<<>>,
  <<Sources(<<>>, "eof"), Sources(<<"valid", "valid">>, "eof")>>,
  <<Sources(<<"valid", "valid", "valid">>, "eof")>>,
  <<Sources(<<"valid">>, "eof"), Sources(<<"valid">>, "error")>>,
  <<Sources(<<"valid">>, "eof"), Sources(<<"valid">>, "undetected")>>,
  <<Sources(<<"valid", "invalid", "valid">>, "eof")>>,
  <<Sources(<<>>, "error"), Sources(<<"valid">>, "eof")>>}

\* For the RDF decoder, inputs of up to four triples, well formed or not, read by
\* a caller of Decode or by an All loop.
-----------------------------------------------------------------------------
VARIABLE part

PagerRest   == SruInit /\ catalog = <<>> /\ conforming
ConvertRest == TranscodeInit /\ format = "iso2709" /\ caller = "convert" /\ args = <<>>
PipeRest    == PipeInit /\ input = [triples |-> 0, end |-> "eof"] /\ ~ranging

MCInit ==
  \/ part = "session" /\ Init /\ PagerRest /\ ConvertRest /\ PipeRest
  \/ part = "pager" /\ Init /\ SruInit /\ ConvertRest /\ PipeRest
  \/ part = "convert" /\ Init /\ PagerRest /\ TranscodeInit /\ PipeRest
  \/ part = "pipe" /\ Init /\ PagerRest /\ ConvertRest /\ PipeInit
MCNext ==
  /\ UNCHANGED part
  /\ \/ part = "session" /\ Next /\ UNCHANGED <<sruVars, allVars, pipeVars>>
     \/ part = "pager" /\ SruNext /\ UNCHANGED <<vars, allVars, pipeVars>>
     \/ part = "convert" /\ TranscodeNext /\ UNCHANGED <<vars, sruVars, pipeVars>>
     \/ part = "pipe" /\ PipeNext /\ UNCHANGED <<vars, sruVars, allVars>>
mcVars == <<vars, sruVars, allVars, pipeVars, part>>

\* The fairness of each specification, for the part that runs.
MCSpec ==
  /\ MCInit /\ [][MCNext]_mcVars
  /\ WF_vars(part = "session" /\ Roundtrip)
  /\ WF_sruVars(part = "pager" /\ Step)
  /\ WF_pipeVars(part = "pipe" /\ Producer)
  /\ WF_pipeVars(part = "pipe" /\ Handover)
  /\ WF_pipeVars(part = "pipe" /\ ReceiveClosed)
===============================================================================
