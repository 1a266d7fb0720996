-------------------------------- MODULE MCRdf --------------------------------
(* Instances of RdfText, RdfCanon and RdfStore.  The three share no state; a  *)
(* behaviour of MCSpec is one of one of them, the others staying where an     *)
(* empty document, an empty graph and empty containers leave them.            *)
EXTENDS RdfText, RdfCanon, RdfStore

I(c) == <<"<", c, ">">>
sp == <<" ">>
Cat(parts) == FlattenSeq(parts)
SPO == Cat(<<I("x"), sp, I("a"), sp>>)

MCStatements ==
  { SPO \o Cat(<<I("."), <<".">>>>),                                            \* <x> <a> <.>.
    Cat(<<I("x"), <<" ", "a", " ", "\"", "a", ".", " ", "\"", "@", "e", ",", "1", ".", "1", " ", ".">>>>),
    Cat(<<<<"_", ":", "a", " ", "x", ":", "a", ".", "a", " ", "[">>, I("a"), <<"(", "1", " ", "T", ")", ";", "]", ".">>>>),
    Cat(<<<<"[", "a">>, I("x"), <<"]", ".">>>>),
    SPO \o <<"'", "'", "'", "'", ".", " ", "'", "'", "'", "^^", "x", ":", "a", ".">>,  \* a long string
    SPO \o <<"\"", "\\", "\"", ".", " ", "\"", ".">>,                            \* an escaped quote
    SPO \o <<"_", ":", "a", ".">>,                                               \* a label, then the end
    SPO \o <<"#", ".", " ", "\"", "\n", "1", ".">>,                              \* a comment inside
    Cat(<<SPO, <<"[">>, I("a"), <<"[">>, I("a"), <<"[", "]", "]", "]", ".">>>>),       \* too deep
    SPO \o <<"\"", "a", ".", " ">>,                                              \* a string left open
    <<"@", "P", " ", "x", ":", "<", "a", ">", ".">> }
MCPrefix == <<"@", "P", " ", "x", ":", "<", "x", ">", ".", " ">>
MCGaps == {<<>>, <<" ">>, <<"#", ".", "\n">>}

Turtle(text, ending) ==
  [format |-> "turtle", text |-> text, ending |-> ending, skipBad |-> FALSE, graph |-> <<>>]
MCTurtle ==
  {Turtle(Cat(<<MCPrefix, a, g, b>>), "EOF") : a, b \in MCStatements, g \in MCGaps}
  \cup {Turtle(Cat(<<MCPrefix, a, <<" ">>, a>>), "error") : a \in MCStatements}

MCLines ==
  { SPO \o <<"\"", "\\", "\"", "\"", "@", "e", "-", "1", " ", "<", "a", ">", " ", ".">>,
    SPO \o <<"_", ":", "a", ".">>,
    SPO \o <<"\"", "a", "\"", "^^", "<", "x", ">", " ", "_", ":", "x", " ", ".">>,
    <<"\"", "a", "\"", " ", "<", "a", ">", " ", "<", "x", ">", ".">>,            \* a literal subject
    <<"#", ".">>, <<>> }
MCNQuads ==
  UNION {LET text == Cat(<<a, <<"\n">>, b, <<"\n">>, c>>) IN
         {[format |-> "nquads", text |-> SubSeq(text, 1, n), ending |-> e, skipBad |-> s, graph |-> <<>>] :
             n \in 0..Len(text), e \in {"EOF", "error"}, s \in BOOLEAN} : a, b, c \in MCLines}

\* Documents written by the package: two graphs, each a scope of its own, whose
\* labels and contents would go wrong if they were copied as they are.
MCObjects == {Iri(<<"x", ".">>), Iri(<<"x", "a", ".", "1">>), Iri(<<"x", ">", " ", ".">>), Iri(<<"a", "x">>),
              Blank(<<".">>), Literal(<<"\\", "\"", ".", " ", "\n">>, <<>>, <<>>), Literal(<<"a">>, <<"e">>, <<>>),
              Literal(<<"'">>, <<>>, <<"x", "a">>), Literal(<<>>, <<>>, <<"x", ".">>), TypeIRI}
MCSubjects == {Blank(<<"x">>), Iri(<<"x", "P">>)}
MCGraphs == {<< <<s, TypeIRI, o>>, <<Blank(<<".">>), Iri(<<"x", "a">>), s>>, <<s, TypeIRI, Iri(<<"x">>)>> >>
               : s \in MCSubjects, o \in MCObjects}
MCPrefixes == (<<"x">> :> <<"x">>) @@ (<<"a">> :> <<"x", "a">>) @@ (<<>> :> <<"a">>)
Scoped(gr, k) ==   \* the blank nodes of one graph are not those of another
  [i \in DOMAIN gr |-> [c \in 1..3 |-> IF gr[i][c][1] = "blank" THEN Blank(gr[i][c][2] \o <<k>>) ELSE gr[i][c]]]
WithGraph(ts, gt) == [i \in DOMAIN ts |-> ts[i] \o <<gt>>]
MCOther == <<<<Blank(<<"x">>), Iri(<<"x", "a">>), Blank(<<".">>)>>>>
MCWritten ==
  {[format |-> "turtle", ending |-> "EOF", skipBad |-> FALSE,
    text |-> TurtleHeader(MCPrefixes) \o AppendTurtle(AppendTurtle(NewWriter, ga, MCPrefixes), MCOther, MCPrefixes).text,
    graph |-> WithGraph(Scoped(ga, "1") \o Scoped(MCOther, "2"), DefaultG)] : ga \in MCGraphs}
  \cup
  {[format |-> "nquads", ending |-> "EOF", skipBad |-> FALSE,
    text |-> AppendNQuads(AppendNQuads(NewWriter, ga, <<>>), MCOther, <<Iri(<<"x", ">">>)>>).text,
    graph |-> WithGraph(Scoped(ga, "1"), DefaultG) \o WithGraph(Scoped(MCOther, "2"), Iri(<<"x", ">">>))]
     : ga \in MCGraphs}

MCTwoStatements == {Turtle(Cat(<<MCPrefix, SPO, I("x"), <<" ", ".", " ">>, SPO, I("a"), <<" ", ".">>>>), "EOF")}
MCDocuments == MCTurtle \cup MCNQuads \cup MCWritten
MCReadSizes == {1, 4}
-----------------------------------------------------------------------------
\* Small graphs to label, every listing of which is tried: every naming of their
\* blank nodes 1 to 4 and every order of their statements.
MCBlanks == 1..4
MCShapes ==
  { <<<<1, 21, 2, 0>>, <<2, 21, 3, 0>>, <<3, 21, 4, 0>>>>,                       \* a chain
    <<<<1, 21, 2, 4>>, <<2, 21, 3, 4>>, <<3, 21, 1, 4>>>>,                       \* a ring in a blank graph
    <<<<1, 21, 2, 0>>, <<2, 21, 1, 0>>, <<3, 21, 4, 0>>, <<4, 21, 3, 0>>>>,      \* two rings
    <<<<1, 21, 2, 0>>, <<3, 21, 4, 0>>, <<2, 22, 11, 0>>, <<4, 22, 12, 0>>>>,    \* told apart further on
    <<<<1, 21, 1, 0>>, <<1, 21, 2, 0>>, <<3, 21, 2, 0>>, <<3, 22, 3, 0>>>>,      \* loops
    <<<<1, 21, 2, 3>>, <<2, 21, 1, 4>>, <<11, 22, 3, 0>>, <<11, 22, 4, 0>>>>,    \* blank graph names
    <<<<1, 21, 2, 0>>, <<3, 21, 4, 0>>, <<3, 21, 4, 0>>>>,                       \* a statement twice
    <<<<1, 21, 2, 0>>, <<3, 21, 4, 0>>>> }                                       \* and once
MCOnceAndTwice == {<<<<1, 21, 2, 0>>>>, <<<<1, 21, 2, 0>>, <<1, 21, 2, 0>>>>}
-----------------------------------------------------------------------------
VARIABLE part

TextRest ==
  /\ input = [format |-> "nquads", text |-> <<>>, ending |-> "EOF", skipBad |-> FALSE, graph |-> <<>>]
  /\ parser = NewParser(<<>>, MaxIRICacheEntries)
  /\ at = 0 /\ buf = <<>> /\ lineNo = 0 /\ got = <<>> /\ over = "no"
CanonRest ==
  /\ quads = <<>> /\ firstDegree = <<>> /\ canonical = <<>> /\ ambiguous = <<>>
  /\ work = 0 /\ out = <<>> /\ pc = "first"

MCInit ==
  \/ part = "text" /\ TextInit /\ CanonRest /\ StoreInit
  \/ part = "canon" /\ TextRest /\ CanonInit /\ StoreInit
  \/ part = "store" /\ TextRest /\ CanonRest /\ StoreInit
MCNext ==
  /\ UNCHANGED part
  /\ \/ part = "text" /\ TextNext /\ UNCHANGED <<canonVars, storeVars>>
     \/ part = "canon" /\ CanonNext /\ UNCHANGED <<textVars, storeVars>>
     \/ part = "store" /\ StoreNext /\ UNCHANGED <<textVars, canonVars>>
MCSpec == MCInit /\ [][MCNext]_<<textVars, canonVars, storeVars, part>>
===============================================================================
