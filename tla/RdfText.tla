------------------------------- MODULE RdfText -------------------------------
(***************************************************************************)
(* What rdf.NewDecoder makes of text: the Turtle path, which cuts the      *)
(* input into statements as chunks of it arrive and parses each by itself  *)
(* (rdf/decoder.go: streamTurtle, turtleSplitter), and how the line path   *)
(* of RdfLines reads a term (rdf/ntriples.go).  The goroutine the Turtle   *)
(* path runs in is in RdfDecoder.  A document is a sequence of tokens, see *)
(* TurtleParser.                                                           *)
(***************************************************************************)
EXTENDS RdfWriter, RdfLines

CONSTANTS ReadSizes,          \* how much one Read of the io.Reader may return
          MaxStatementBytes

VARIABLES buf,     \* the splitter's buffer
          parser   \* the turtleParser

textVars == <<lineVars, buf, parser>>
-----------------------------------------------------------------------------
\* Turtle: skipQuoted and statementEnd.  A "." ends a statement only before one
\* of Followers, and not as the last character there is.
Followers == Space \cup {"#", "<", "@", "[", "("}

SkipQuoted(b, i) ==
  LET delim == Delimiter(b, i)
      j == ClosedAt(b, i + Len(delim), delim)
  IN  IF j > Len(b) THEN j ELSE j + Len(delim)

SkipIri(b, i) ==
  LET Close[k \in Nat] == IF k > Len(b) THEN Len(b) + 1
                          ELSE IF b[k] = ">" THEN k + 1
                          ELSE IF b[k] = "\\" THEN Close[k + 2] ELSE Close[k + 1]
  IN  Close[i + 1]

RECURSIVE ScanFrom(_, _)
ScanFrom(b, i) ==
  IF i > Len(b) THEN 0
  ELSE CASE b[i] = "#" -> ScanFrom(b, FirstAt(b, i, LAMBDA c : c = "\n"))
         [] b[i] = "<" -> ScanFrom(b, SkipIri(b, i))
         [] b[i] \in {"\"", "'"} -> ScanFrom(b, SkipQuoted(b, i))
         [] b[i] = "." -> IF i = Len(b) THEN 0 ELSE IF b[i+1] \in Followers THEN i ELSE ScanFrom(b, i + 1)
         [] OTHER -> ScanFrom(b, i + 1)
StatementEnd_AtAnyDot(b) ==   \* a wrong version: at the end of the buffer too
  IF b # <<>> /\ Last(b) = "." /\ ScanFrom(b, 1) = 0 THEN Len(b) ELSE ScanFrom(b, 1)
StatementEnd(b) == ScanFrom(b, 1)

ParseStatement(stmt) == Stmt([parser EXCEPT !.s = stmt, !.i = 1, !.done = FALSE])
TurtleSource == input.format = "turtle" /\ over = "no"

SplitStatement ==
  LET e == StatementEnd(buf)
      p == ParseStatement(SubSeq(buf, 1, e))
  IN  /\ TurtleSource /\ e > 0
      /\ buf' = SubSeq(buf, e + 1, Len(buf))
      /\ parser' = p
      /\ over' = IF p.ok \/ p.done THEN "no" ELSE "syntax error"
      /\ UNCHANGED <<input, at, lineNo, got>>

TooLarge ==
  /\ TurtleSource /\ StatementEnd(buf) = 0 /\ Len(buf) > MaxStatementBytes
  /\ over' = "statement too large"
  /\ UNCHANGED <<input, at, buf, parser, lineNo, got>>

\* One Read of the source, when the buffer holds no statement: any number of tokens
\* that ReadSizes allows, or all there are.  The end of the input comes with the last
\* of them or by itself, as the io.Reader has it; bufio.Reader passes both on as they are.
ReadsOn == TurtleSource /\ StatementEnd(buf) = 0 /\ Len(buf) <= MaxStatementBytes
Unread == Len(input.text) - at
BufferAtEnd == buf \o SubSeq(input.text, at + 1, Len(input.text))

Fill ==
  /\ ReadsOn /\ Unread > 0
  /\ \E n \in (ReadSizes \cap 1..Unread) \cup {Unread} :
       /\ buf' = buf \o SubSeq(input.text, at + 1, at + n)
       /\ at' = at + n
  /\ UNCHANGED <<input, parser, lineNo, got, over>>

ReadFails ==
  /\ ReadsOn /\ input.ending = "error"
  /\ buf' = BufferAtEnd /\ at' = Len(input.text)
  /\ over' = "error"
  /\ UNCHANGED <<input, parser, lineNo, got>>

\* At io.EOF all of the buffer is a statement, unless it is white space.
LastStatement ==
  LET p == ParseStatement(BufferAtEnd)
  IN  /\ ReadsOn /\ input.ending = "EOF" /\ ~(ToSet(BufferAtEnd) \subseteq Space)
      /\ buf' = <<>> /\ at' = Len(input.text)
      /\ parser' = p
      /\ over' = IF p.ok \/ p.done THEN "no" ELSE "syntax error"
      /\ UNCHANGED <<input, lineNo, got>>

TurtleEnds ==
  /\ ReadsOn /\ input.ending = "EOF" /\ ToSet(BufferAtEnd) \subseteq Space
  /\ buf' = BufferAtEnd /\ at' = Len(input.text)
  /\ over' = "EOF"
  /\ UNCHANGED <<input, parser, lineNo, got>>
-----------------------------------------------------------------------------
\* readNTTerm, the value of ReadTerm.
Found(i, term) == [ok |-> TRUE, i |-> i, term |-> term]

ReadLiteral(s, i) ==
  LET close == ClosedAt(s, i + 1, <<"\"">>)
      v == Unescape(SubSeq(s, i + 1, close - 1))
      after == close + 1
      gt == FirstAt(s, after, LAMBDA c : c = ">")
  IN  CASE close > Len(s) -> NoTerm
        [] Has(s, after, {"^^"}) /\ Has(s, after + 1, {"<"}) ->
             IF gt > Len(s) THEN NoTerm
             ELSE Found(gt + 1, Literal(v, <<>>, Unescape(SubSeq(s, after + 2, gt - 1))))
        [] Has(s, after, {"@"}) ->
             Found(LangEnd(s, after + 1), Literal(v, SubSeq(s, after + 1, LangEnd(s, after + 1) - 1), <<>>))
        [] OTHER -> Found(after, Literal(v, <<>>, <<>>))

ReadNTTerm(s, i) ==
  LET gt == FirstAt(s, i, LAMBDA c : c = ">")
      sp == FirstAt(s, i, LAMBDA c : c \in Blanks1)
      e == CHOOSE k \in (i+2)..sp : (\A m \in k..(sp-1) : s[m] = ".") /\ (k = i + 2 \/ s[k-1] # ".")
  IN  CASE i > Len(s) -> NoTerm
        [] s[i] = "<" -> IF gt > Len(s) THEN NoTerm ELSE Found(gt + 1, Iri(Unescape(SubSeq(s, i + 1, gt - 1))))
        [] s[i] = "_" /\ i < Len(s) /\ s[i+1] = ":" -> Found(e, Blank(SubSeq(s, i + 2, e - 1)))
        [] s[i] = "\"" -> ReadLiteral(s, i)
        [] OTHER -> NoTerm
-----------------------------------------------------------------------------
TextInit ==
  /\ LineInit
  /\ buf = <<>> /\ parser = NewParser(<<>>, MaxIRICacheEntries)

TextNext ==
  \/ SplitStatement \/ TooLarge \/ Fill \/ ReadFails \/ LastStatement \/ TurtleEnds
  \/ LineNext /\ UNCHANGED <<buf, parser>>

TextSpec == TextInit /\ [][TextNext]_textVars
-----------------------------------------------------------------------------
\* What ParseTurtle makes of each document as a whole.
Texts == {d.text : d \in {x \in Documents : x.format = "turtle"}}
WholeOf == [t \in Texts |-> ParseTurtle(t, MaxIRICacheEntries)]
IsPrefixOf(a, b) == Len(a) <= Len(b) /\ a = SubSeq(b, 1, Len(a))

\* The statements of a document that the splitter can tell apart: each ended by
\* a "." and followed by nothing or by one of Followers.
Splittable(t) ==
  \A k \in ToSet(WholeOf[t].ends) : t[k-1] = "." /\ (k > Len(t) \/ t[k] \in Followers)

\* The parser takes one statement of what it is given.  When the end of the input
\* came with more than one, the others are lost; a text that SplitStatement
\* cut, or that an end by itself left, holds no second one.
StatementsLost ==
  LET e == StatementEnd(parser.s)
  IN  e > 0 /\ SkipWs(parser.s, e + 1) <= Len(parser.s)

\* Wherever the chunks are cut, streaming a document yields the triples of parsing
\* it whole, blank node labels and the error included, unless the end of the input
\* comes with several statements; then, and if the io.Reader fails, it yields a beginning of them.
StreamingIsParsing ==
  input.format = "turtle" /\ Splittable(input.text) =>
    LET whole == WholeOf[input.text] IN
    /\ IsPrefixOf(parser.out, whole.out)
    /\ over = "EOF" /\ ~StatementsLost => parser.out = whole.out /\ whole.ok
    /\ over = "syntax error" => parser.out = whole.out /\ ~whole.ok

\* "io.EOF therefore means the input ended, not that it ended and some of it was
\* unreadable": streamTurtle has emitted "each statement's triples" by then.
EveryStatementIsParsed ==
  input.format = "turtle" /\ Splittable(input.text) /\ over = "EOF" =>
    parser.out = WholeOf[input.text].out

\* Whatever the terms of a graph hold, the document Encoder writes of it reads back
\* as that graph, up to the names of its blank nodes, of which no two are merged; but
\* for the statements lost as above.
WrittenIsRead ==
  input.graph # <<>> /\ over = "EOF" /\ ~(input.format = "turtle" /\ StatementsLost) =>
    LET graph == ToSet(input.graph)
        read == IF input.format = "turtle" THEN {t \o <<DefaultG>> : t \in ToSet(parser.out)}
                ELSE {g.triple \o <<g.graph>> : g \in ToSet(got)}
        BlanksIn(qs) == {t \in {q[c] : q \in qs, c \in 1..4} : t[1] = "blank"}
        nodes == BlanksIn(graph)
        found == BlanksIn(read)
        Renamed(q, f) == [c \in 1..4 |-> IF q[c] \in nodes THEN f[q[c]] ELSE q[c]]
    IN  Cardinality(nodes) = Cardinality(found)
        /\ \E f \in Bijection(nodes, found) : read = {Renamed(q, f) : q \in graph}

=============================================================================
