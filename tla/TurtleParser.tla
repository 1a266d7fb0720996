---------------------------- MODULE TurtleParser ----------------------------
(***************************************************************************)
(* rdf/turtle.go and rdf/turtle_lex.go: the recursive-descent parser that  *)
(* ParseTurtle runs over a document and the streaming decoder over one     *)
(* statement at a time.  A document is a sequence of tokens: a character   *)
(* that the grammar tells apart, "a", "x" and "e" for letters, "P", "B"    *)
(* and "T" for the words prefix, base and true.  A parser is a record with *)
(* the fields of turtleParser; an operation takes one and returns the one  *)
(* it leaves, term being the Term it returned.  TLC only: it recurses.     *)
(***************************************************************************)
EXTENDS RdfTerms, Naturals, Sequences, SequencesExt, FiniteSetsExt, TLC

CONSTANTS MaxParseDepth, MaxIRICacheEntries

ASSUME ParserAssumption == MaxParseDepth \in Nat /\ MaxIRICacheEntries \in Nat

Letter == {"a", "b", "e", "n", "u", "x", "P", "B", "T"}
Digit == {"1", "2", "3", "4"}
NameChar == Letter \cup Digit \cup {"_", "-", "."}

TypeIRI == Iri(<<"type">>)
FirstIRI == Iri(<<"first">>)
RestIRI == Iri(<<"rest">>)
NilIRI == Iri(<<"nil">>)

\* The first place from i on where Test holds, or just past the end.
FirstAt(s, i, Test(_)) ==
  CHOOSE j \in i..(Len(s) + 1) :
    /\ j = Len(s) + 1 \/ Test(s[j])
    /\ \A k \in i..(j-1) : ~Test(s[k])

\* Backslash escapes: "n" is a newline, "u" and one token for the four hex digits
\* the character with that code, any other the character itself.
CodeOf == (" " :> "0020") @@ ("\"" :> "0022") @@ ("<" :> "003C") @@ (">" :> "003E") @@ ("\\" :> "005C")
CharOf == [h \in Range(CodeOf) |-> CHOOSE c \in DOMAIN CodeOf : CodeOf[c] = h]
RECURSIVE Unescape(_)
Unescape(s) ==
  IF s = <<>> THEN s
  ELSE IF Head(s) = "\\" /\ Len(s) > 2 /\ s[2] = "u" /\ s[3] \in DOMAIN CharOf
       THEN <<CharOf[s[3]]>> \o Unescape(SubSeq(s, 4, Len(s)))
  ELSE IF Head(s) = "\\" /\ Len(s) > 1
       THEN <<IF s[2] = "n" THEN "\n" ELSE s[2]>> \o Unescape(SubSeq(s, 3, Len(s)))
  ELSE <<Head(s)>> \o Unescape(Tail(s))

\* Where the string whose content goes on at i is closed by delim.
RECURSIVE ClosedAt(_, _, _)
ClosedAt(s, i, delim) ==
  IF i > Len(s) THEN Len(s) + 1
  ELSE IF s[i] = "\\" THEN ClosedAt(s, i + 2, delim)
  ELSE IF i + Len(delim) - 1 <= Len(s) /\ SubSeq(s, i, i + Len(delim) - 1) = delim THEN i
  ELSE ClosedAt(s, i + 1, delim)
Delimiter(s, i) ==
  IF i + 2 <= Len(s) /\ s[i+1] = s[i] /\ s[i+2] = s[i] THEN <<s[i], s[i], s[i]>> ELSE <<s[i]>>

\* The end of a name at i: a "." is part of it, but not its last character.
NameEnd(s, i) ==
  LET e == FirstAt(s, i, LAMBDA c : c \notin NameChar) IN
  CHOOSE k \in i..e : (\A m \in k..(e-1) : s[m] = ".") /\ (k = i \/ s[k-1] # ".")

RECURSIVE LangEnd(_, _)
LangEnd(s, i) ==   \* past letters, then past groups of "-" and letters or digits
  LET e == FirstAt(s, i, LAMBDA c : c \notin Letter)
      Subtag[k \in i..(Len(s) + 1)] ==
        IF k > Len(s) \/ s[k] # "-" THEN k
        ELSE LET m == FirstAt(s, k + 1, LAMBDA c : c \notin Letter \cup Digit)
             IN  IF m = k + 1 THEN k ELSE Subtag[m]
  IN  IF e = i THEN i ELSE Subtag[e]

RECURSIVE SkipWs(_, _)
SkipWs(s, i) ==
  IF i > Len(s) THEN i
  ELSE IF s[i] \in Space THEN SkipWs(s, i + 1)
  ELSE IF s[i] = "#" THEN SkipWs(s, FirstAt(s, i, LAMBDA c : c = "\n"))
  ELSE i
-----------------------------------------------------------------------------
NewParser(s, cacheSize) ==
  [s |-> s, i |-> 1, ok |-> TRUE, done |-> FALSE, out |-> <<>>, term |-> <<>>,
   blanks |-> 0, depth |-> 0, base |-> <<>>, prefixes |-> <<>>, cache |-> <<>>, cacheSize |-> cacheSize]

Peek(p) == IF p.i <= Len(p.s) THEN p.s[p.i] ELSE "end"
PeekNext(p) == IF p.i < Len(p.s) THEN p.s[p.i + 1] ELSE "end"
Skip(p, n) == [p EXCEPT !.i = @ + n]
Fail(p) == [p EXCEPT !.ok = FALSE]
Ws(p) == [p EXCEPT !.i = SkipWs(p.s, p.i)]
Expect(p, c) == IF p.ok /\ Peek(p) = c THEN Skip(p, 1) ELSE Fail(p)
Take(p, j, term) == [p EXCEPT !.i = j, !.term = term]
Emit(p, s, pr, o) == [p EXCEPT !.out = Append(@, <<s, pr, o>>)]
Fresh(p) ==
  [p EXCEPT !.blanks = @ + 1, !.term = Blank(<<"t">> \o [k \in 1..(p.blanks + 1) |-> "1"])]

HasScheme(ref) ==
  \E k \in 2..Len(ref) :
    /\ ref[k] = ":" /\ ref[1] \in Letter
    /\ \A m \in 1..(k-1) : ref[m] \in Letter \cup Digit \cup {"+", "-", "."}

Resolve(base, raw) == IF base # <<>> /\ ~HasScheme(raw) THEN base \o raw ELSE raw
IriTo(p, gt) ==
  IF gt > Len(p.s) THEN Fail(p)
  ELSE Take(p, gt + 1, Iri(Resolve(p.base, Unescape(SubSeq(p.s, p.i + 1, gt - 1)))))
IriRef(p) == IF Peek(p) # "<" THEN Fail(p) ELSE IriTo(p, FirstAt(p.s, p.i, LAMBDA c : c = ">"))

\* The IRI of a prefixed name, kept for the next time.
ExpandPName(p, label, local) ==
  IF <<label, local>> \in DOMAIN p.cache THEN [p EXCEPT !.term = Iri(p.cache[label, local])]
  ELSE [p EXCEPT !.term = Iri(p.prefixes[label] \o local),
                 !.cache = IF Cardinality({k \in DOMAIN @ : k[1] = label}) < p.cacheSize
                           THEN (<<label, local>> :> (p.prefixes[label] \o local)) @@ @ ELSE @]

LocalName(p, label, end) ==
  IF label \notin DOMAIN p.prefixes THEN Fail(p)
  ELSE ExpandPName([p EXCEPT !.i = end], label, SubSeq(p.s, p.i, end - 1))
PName(p, colon) ==
  IF colon > Len(p.s) \/ p.s[colon] # ":" THEN Fail(p)
  ELSE LocalName([p EXCEPT !.i = colon + 1], SubSeq(p.s, p.i, colon - 1), NameEnd(p.s, colon + 1))
IriOrPName(p) ==
  IF Peek(p) = "<" THEN IriRef(p) ELSE PName(p, FirstAt(p.s, p.i, LAMBDA c : c \notin NameChar))

LabelTo(p, end) ==
  IF end = p.i THEN Fail(p) ELSE Take(p, end, Blank(<<"u">> \o SubSeq(p.s, p.i, end - 1)))
BlankLabel(p) ==
  IF PeekNext(p) # ":" THEN Fail(p) ELSE LabelTo(Skip(p, 2), NameEnd(p.s, p.i + 2))

StringTo(p, close, length) ==
  IF close > Len(p.s) THEN Fail(p)
  ELSE Take(p, close + length, Unescape(SubSeq(p.s, p.i, close - 1)))
QuotedFrom(p, delim) == StringTo(p, ClosedAt(p.s, p.i, delim), Len(delim))
QuotedString(p) == QuotedFrom(Skip(p, Len(Delimiter(p.s, p.i))), Delimiter(p.s, p.i))

Tagged(p, end) == Take(p, end, Literal(p.term, SubSeq(p.s, p.i, end - 1), <<>>))
Typed(p, value) == IF p.ok THEN [p EXCEPT !.term = Literal(value, <<>>, @[2])] ELSE p
Suffixed(p) ==
  IF ~p.ok THEN p
  ELSE CASE Peek(p) = "@"  -> Tagged(Skip(p, 1), LangEnd(p.s, p.i + 1))
         [] Peek(p) = "^^" -> Typed(IriOrPName(Skip(p, 1)), p.term)
         [] OTHER          -> [p EXCEPT !.term = Literal(@, <<>>, <<>>)]
StringLiteral(p) == Suffixed(QuotedString(p))

\* number: digits, a fraction and an exponent, from first, whole and mantissa on.
DigitsEnd(s, i) == FirstAt(s, i, LAMBDA c : c \notin Digit)
Has(s, i, cs) == i <= Len(s) /\ s[i] \in cs
NumberTo(p, end, type) == Take(p, end, Literal(SubSeq(p.s, p.i, end - 1), <<>>, <<type>>))
Exponent(p, power, end) == IF end = power THEN Fail(p) ELSE NumberTo(p, end, "double")
ExponentFrom(p, power) == Exponent(p, power, DigitsEnd(p.s, power))
Mantissa(p, first, end, type) ==
  CASE end = first -> Fail(p)
    [] end > first /\ Has(p.s, end, {"e"}) ->
         ExponentFrom(p, IF Has(p.s, end + 1, {"+", "-"}) THEN end + 2 ELSE end + 1)
    [] OTHER -> NumberTo(p, end, type)
WholePart(p, first, end) ==
  IF Has(p.s, end, {"."}) /\ Has(p.s, end + 1, Digit)
  THEN Mantissa(p, first, DigitsEnd(p.s, end + 1), "decimal") ELSE Mantissa(p, first, end, "integer")
NumberFrom(p, first) == WholePart(p, first, DigitsEnd(p.s, first))
Number(p) == NumberFrom(p, IF Peek(p) \in {"+", "-"} THEN p.i + 1 ELSE p.i)

Verb(p) ==
  IF Peek(p) = "a" /\ PeekNext(p) \in Space \cup {"end", "<"} THEN Take(p, p.i + 1, TypeIRI)
  ELSE IriOrPName(p)

RECURSIVE Object(_), ObjectList(_, _, _), PredicateObjectList(_, _), Items(_, _), Semicolons(_)
MoreObjects(p, subj, verb) == IF Peek(p) = "," THEN ObjectList(Skip(p, 1), subj, verb) ELSE p
ObjectRead(o, subj, verb) ==
  IF o.ok THEN MoreObjects(Ws(Emit(o, subj, verb, o.term)), subj, verb) ELSE o
ObjectList(p, subj, verb) == ObjectRead(Object(p), subj, verb)

Semicolons(p) == IF Peek(p) = ";" THEN Semicolons(Ws(Skip(p, 1))) ELSE p
AfterSemicolons(p, subj) ==
  IF Peek(p) \in {".", "]", "end"} THEN p ELSE PredicateObjectList(p, subj)
MorePredicates(p, subj) ==
  IF p.ok /\ Peek(p) = ";" THEN AfterSemicolons(Semicolons(p), subj) ELSE p
VerbRead(v, subj) == IF v.ok THEN MorePredicates(ObjectList(v, subj, v.term), subj) ELSE v
PredicateObjectList(p, subj) == VerbRead(Verb(Ws(p)), subj)

\* "[" and "(" may be nested MaxParseDepth deep.
Leave(p, term) == [p EXCEPT !.depth = @ - 1, !.term = term]
InBrackets(p, node) ==
  Leave(IF Peek(p) = "]" THEN Skip(p, 1) ELSE Expect(Ws(PredicateObjectList(p, node)), "]"), node)
Bracketed(p) == InBrackets(p, p.term)
BlankPropertyList(p) ==
  IF p.depth >= MaxParseDepth THEN Fail(p)
  ELSE Bracketed(Fresh(Ws(Skip([p EXCEPT !.depth = @ + 1], 1))))

ItemRead(o, items) == IF o.ok THEN Items(o, Append(items, o.term)) ELSE o
Items(p, items) ==   \* the objects up to ")", left in term
  IF Peek(Ws(p)) = ")" THEN [Skip(Ws(p), 1) EXCEPT !.term = items] ELSE ItemRead(Object(p), items)
Cell(p, node, item, last) ==   \* one cell of the list; term is the next one
  LET first == Emit(p, node, FirstIRI, item)
      next == IF last THEN [first EXCEPT !.term = NilIRI] ELSE Fresh(first)
  IN  Emit(next, node, RestIRI, next.term)
Linked(p, items) ==
  Leave(FoldLeft(LAMBDA q, k : Cell(q, q.term, items[k], k = Len(items)), p, [k \in DOMAIN items |-> k]), p.term)
Collected(p) ==
  IF ~p.ok THEN p ELSE IF p.term = <<>> THEN Leave(p, NilIRI) ELSE Linked(Fresh(p), p.term)
Collection(p) ==
  IF p.depth >= MaxParseDepth THEN Fail(p)
  ELSE Collected(Items(Skip([p EXCEPT !.depth = @ + 1], 1), <<>>))

ObjectAt(p) ==
  CASE Peek(p) \in {"\"", "'"} -> StringLiteral(p)
    [] Peek(p) = "_" -> BlankLabel(p)
    [] Peek(p) = "[" -> BlankPropertyList(p)
    [] Peek(p) = "(" -> Collection(p)
    [] Peek(p) = "T" /\ PeekNext(p) \notin NameChar ->
         Take(p, p.i + 1, Literal(<<"T">>, <<>>, <<"boolean">>))
    [] Peek(p) \in Digit \cup {"+", "-"} \/ (Peek(p) = "." /\ PeekNext(p) \in Digit) -> Number(p)
    [] OTHER -> IriOrPName(p)
Object(p) == ObjectAt(Ws(p))

Subject(p) ==
  CASE Peek(p) = "_" -> BlankLabel(p)
    [] Peek(p) = "[" -> BlankPropertyList(p)
    [] Peek(p) = "(" -> Collection(p)
    [] OTHER -> IriOrPName(p)

SubjectRead(p, bracketed) ==
  IF ~p.ok THEN p
  ELSE IF bracketed /\ Peek(Ws(p)) = "." THEN Skip(Ws(p), 1)
  ELSE Expect(Ws(PredicateObjectList(p, p.term)), ".")
Triples(p) == SubjectRead(Subject(p), Peek(p) = "[")

SetPrefix(p, label) == IF p.ok THEN [p EXCEPT !.prefixes = (label :> p.term[2]) @@ @] ELSE p
SetBase(p) == IF p.ok THEN [p EXCEPT !.base = p.term[2]] ELSE p
PrefixLabelTo(p, end) ==
  SetPrefix(IriRef(Ws([p EXCEPT !.i = IF Has(p.s, end, {":"}) THEN end + 1 ELSE end])), SubSeq(p.s, p.i, end - 1))
DirectiveOf(p, kind) ==
  CASE kind = <<"P">> -> PrefixLabelTo(p, FirstAt(p.s, p.i, LAMBDA c : c \notin NameChar))
    [] kind = <<"B">> -> SetBase(IriRef(p))
    [] OTHER -> Fail(p)
BareWordTo(p, end) == DirectiveOf(Ws([p EXCEPT !.i = end]), SubSeq(p.s, p.i, end - 1))
BareWord(p) == BareWordTo(p, FirstAt(p.s, p.i, LAMBDA c : c \notin Letter))
Directive(p) == IF Peek(p) = "@" THEN Expect(Ws(BareWord(Skip(p, 1))), ".") ELSE BareWord(p)

\* One directive or statement; done at the end of the input.
StmtAt(p) ==
  CASE Peek(p) = "end" -> [p EXCEPT !.done = TRUE]
    [] Peek(p) = "@" \/ (Peek(p) \in {"P", "B"} /\ PeekNext(p) \in Space \cup {"end"}) -> Directive(p)
    [] OTHER -> Triples(p)
Stmt(p) == StmtAt(Ws(p))

\* ParseTurtle, and where each of its statements ended.
RECURSIVE ParseOn(_, _)
ParseOn(p, ends) ==
  IF p.done \/ ~p.ok THEN [out |-> p.out, ok |-> p.ok, ends |-> ends] ELSE ParseOn(Stmt(p), Append(ends, p.i))
ParseTurtle(s, cacheSize) == ParseOn(Stmt(NewParser(s, cacheSize)), <<>>)
=============================================================================
