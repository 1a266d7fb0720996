------------------------------- MODULE MCFormats -------------------------------
(* Instances of FramingReaders, on how a stream is cut into records, of        *)
(* RecordText, on what becomes of the bytes of one, and of Bibframe, on what   *)
(* becomes of its fields as a graph.  They share no state; a behaviour of      *)
(* MCSpec is one of one of them, the others staying at the end of an empty     *)
(* document, an empty record and an empty collection.                          *)
EXTENDS MCFramingReaders, RecordText, MCBibframe

\* Letters of every kind a charset has: plain, composed, marks, of each set.
Letters(encoding) ==
  CASE encoding = "marc8" -> {\h61, \hE1, \h301, \h323, \h306, \h141, \h410, \h491, \h6B3, \h64E, \h3B1, \h4E00}
    [] encoding = "utf8"  -> {\h61, \hE1, \h4E00, \h301, \h1F}
    [] OTHER -> {\h61, \h68, \hE1, \h301, \h302, \h323, \hF8, \h141, \h1FD, \h1E2B, \hE6}
Texts(encoding) == UNION {[1..n -> Letters(encoding)] : n \in 0..3}
\* Fields as a caller can make them: a tag that is too short, a value beside
\* subfields, subfields under the tag of a control field.
MCPrintableTags == {"001", "008", "245", "500"}
MCMisplaced ==
  {[how |-> how, codes |-> <<>>,
    fields |-> <<[Control("001", <<\h61>>) EXCEPT !.subs = ss],
                 [Data(tag, <<49, 0>>, <<Sub(\h61, <<\h61>>)>>) EXCEPT !.value = v]>>] :
     how \in {"marc8", "utf8"}, tag \in {"245", "24"},
     ss \in {<<>>, <<Sub(SubfieldDelimiter, <<\h1D>>)>>}, v \in {<<>>, <<\h61>>, <<\h2603>>}}
MCWritten ==
  {[how |-> h[1], codes |-> h[2],
    fields |-> <<Control("001", <<\h61>>),
                 Data("245", <<49, 0>>, <<Sub(\h61, t), Sub(\h62, u)>>),
                 Data("500", <<32, 32>>, <<Sub(\h61, t)>>)>>] :
     h \in {<<"marc8", <<>>>>}, t \in Texts("marc8"), u \in {<<\h61, \h301>>, <<>>}}
  \cup
  {[how |-> h[1], codes |-> h[2], fields |-> <<Control("008", t), Data("500", <<32, 32>>, <<Sub(\h61, t)>>)>>] :
     h \in {<<"unimarc", <<"50", "03">>>>, <<"unimarc", <<"02">>>>}, t \in Texts("iso5426")}
  \cup
  {[how |-> h[1], codes |-> h[2], fields |-> <<Control("008", t), Data("500", <<32, 32>>, <<>>)>>] :
     h \in {<<"utf8", <<>>>>, <<"unimarc", <<"01", "50">>>>}, t \in Texts("utf8")}
  \cup MCMisplaced

\* Runs of bytes with designations of every kind, whole and broken, in the first of
\* three fields; the last entry of the directory points outside the record or not.
Units == {<<\h61>>, <<\hE2>>, <<\hA1>>, <<\hC0>>, <<\h1B, \h28, \h4E>>, <<\h1B, \h29, \h51>>, <<\h1B, \h29, \h45>>,
          <<\h1B, \h29, \h42>>, <<\h1B, \h24, \h31>>, <<\h21, \h30, \h21>>, <<\h1B, \h28>>, <<\h1B, \h73>>, <<\h1F, \h62>>}
Raw == {FlattenSeq(p) : p \in UNION {[1..n -> Units] : n \in 0..3}}
MCReceived ==
  {[how |-> "marc8", codes |-> <<>>,
    iso |-> [coding |-> " ", indicators |-> 2, codeLen |-> 1,
             directory |-> <<[tag |-> "500", length |-> Len(b) + 5, start |-> 0],
                             [tag |-> "001", length |-> 3, start |-> Len(b) + 5],
                             [tag |-> "008", length |-> n, start |-> Len(b) + 7]>>,
             body |-> <<32, 32, \h1F, \h61>> \o b \o <<\h1E, \h61, \hE2, \h1E, \h1D>>]] : b \in Raw, n \in {1, 4}}
-----------------------------------------------------------------------------
VARIABLE part

FramingRest == Init /\ format = "mrk" /\ kinds = <<>> /\ tail = "eof"
RecordRest ==
  /\ source = [how |-> "utf8", codes |-> <<>>, fields |-> <<>>] /\ iso = NoRecord
  /\ at = 0 /\ dec = NewDecoder /\ fields = <<>> /\ lossy = FALSE /\ stage = "done"

GraphRest ==
  /\ producer = "libcodex" /\ given = <<>> /\ records = <<>> /\ graph = <<>> /\ before = <<>>
  /\ idx = 0 /\ round = MaxRounds

MCInit ==
  \/ part = "framing" /\ Init /\ RecordRest /\ GraphRest
  \/ part = "record" /\ FramingRest /\ RecordInit /\ GraphRest
  \/ part = "graph" /\ FramingRest /\ RecordRest /\ BibInit
MCNext ==
  /\ UNCHANGED part
  /\ \/ part = "framing" /\ Next /\ UNCHANGED recordVars /\ UNCHANGED bibVars
     \/ part = "record" /\ RecordNext /\ UNCHANGED vars /\ UNCHANGED bibVars
     \/ part = "graph" /\ BibNext /\ UNCHANGED vars /\ UNCHANGED recordVars
MCSpec == MCInit /\ [][MCNext]_<<vars, recordVars, bibVars, part>>
===============================================================================
