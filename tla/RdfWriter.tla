------------------------------ MODULE RdfWriter ------------------------------
(***************************************************************************)
(* The rdf package's serialisers: Encoder with its blankNamer              *)
(* (rdf/quad.go, rdf/ntriples.go) and the Turtle writer                    *)
(* (rdf/turtle_write.go).  A writer is a record: the text so far, and m    *)
(* and n of blankNamer, which names the blank nodes b1, b2, ...            *)
(***************************************************************************)
EXTENDS TurtleParser

NewWriter == [text |-> <<>>, m |-> <<>>, n |-> 0]
Put(w, tokens) == [w EXCEPT !.text = @ \o tokens]
NewScope_Restarts(w) == [w EXCEPT !.m = <<>>, !.n = 0]   \* a wrong version
NewScope(w) == [w EXCEPT !.m = <<>>]

BlankName(w, label) ==
  IF label \in DOMAIN w.m THEN Put(w, w.m[label])
  ELSE LET name == <<"b", ToString(w.n + 1)>> IN
       Put([w EXCEPT !.n = @ + 1, !.m = (label :> name) @@ @], name)

EscapeIri(v) ==
  FlattenSeq([k \in DOMAIN v |-> IF v[k] \in DOMAIN CodeOf THEN <<"\\", "u", CodeOf[v[k]]>> ELSE <<v[k]>>])
EscapeLiteral(v) ==
  FlattenSeq([k \in DOMAIN v |-> CASE v[k] \in {"\\", "\""} -> <<"\\", v[k]>>
                                   [] v[k] = "\n" -> <<"\\", "n">>
                                   [] OTHER -> <<v[k]>>])
Quoted(v) == <<"\"">> \o EscapeLiteral(v) \o <<"\"">>
Angled(v) == <<"<">> \o EscapeIri(v) \o <<">">>

\* appendNTTerm; the empty datatype stands for xsd:string as well.
NTTerm(w, t) ==
  CASE t[1] = "iri" -> Put(w, Angled(t[2]))
    [] t[1] = "blank" -> BlankName(Put(w, <<"_", ":">>), t[2])
    [] OTHER -> Put(w, Quoted(t[2]) \o (IF t[3] # <<>> THEN <<"@">> \o t[3]
                                         ELSE IF t[4] # <<>> THEN <<"^^">> \o Angled(t[4]) ELSE <<>>))

NTTerms(w, terms) == FoldLeft(LAMBDA acc, t : Put(NTTerm(acc, t), <<" ">>), w, terms)
AppendQuad(w, triple, graph) == Put(NTTerms(w, triple \o graph), <<".", "\n">>)
AppendNQuads(w, triples, graph) ==   \* graph is <<>> for the default graph
  FoldLeft(LAMBDA acc, t : AppendQuad(acc, t, graph), NewScope(w), triples)
-----------------------------------------------------------------------------
\* validLocal, and the longest namespace that leaves a valid local name.
ValidLocal_AnyEnd(s) == s # <<>> /\ ToSet(s) \subseteq NameChar   \* a wrong version
ValidLocal(s) == s # <<>> /\ Last(s) # "." /\ ToSet(s) \subseteq NameChar
Local(iri, ns) == SubSeq(iri, Len(ns) + 1, Len(iri))
CompactIri(iri, prefixes) ==
  LET fit == {l \in DOMAIN prefixes : /\ prefixes[l] # <<>> /\ IsPrefix(prefixes[l], iri)
                                      /\ ValidLocal(Local(iri, prefixes[l]))}
      best == CHOOSE l \in fit : \A k \in fit : Len(prefixes[k]) <= Len(prefixes[l])
  IN  IF fit = {} THEN Angled(iri) ELSE best \o <<":">> \o Local(iri, prefixes[best])

TurtleTerm(w, t, prefixes, predicate) ==
  CASE t[1] = "iri" -> IF predicate /\ t = TypeIRI THEN Put(w, <<"a">>) ELSE Put(w, CompactIri(t[2], prefixes))
    [] t[1] = "literal" /\ t[3] = <<>> /\ t[4] # <<>> -> Put(w, Quoted(t[2]) \o <<"^^">> \o CompactIri(t[4], prefixes))
    [] OTHER -> NTTerm(w, t)

FirstSeen(s) == FoldLeft(LAMBDA acc, x : IF Contains(acc, x) THEN acc ELSE Append(acc, x), <<>>, s)
Each(s, c) == [k \in DOMAIN s |-> s[k][c]]

\* One predicate with its objects, one subject with its predicates.
PredicateBlock(w, triples, pr, prefixes) ==
  FoldLeft(LAMBDA acc, o : TurtleTerm(Put(acc, IF o = 1 THEN <<" ">> ELSE <<",", " ">>), triples[o][3], prefixes, FALSE),
           TurtleTerm(w, pr, prefixes, TRUE), [o \in DOMAIN triples |-> o])
SubjectBlock(w, triples, prefixes) ==
  LET preds == FirstSeen(Each(triples, 2))
      Of(pr) == SelectSeq(triples, LAMBDA t : t[2] = pr)
      start == TurtleTerm(w, triples[1][1], prefixes, FALSE)
      Block(acc, k) == PredicateBlock(Put(acc, IF k = 1 THEN <<" ">> ELSE <<" ", ";", "\n", " ">>),
                                      Of(preds[k]), preds[k], prefixes)
  IN  Put(FoldLeft(Block, start, [k \in DOMAIN preds |-> k]), <<" ", ".", "\n">>)
AppendTurtle(w, triples, prefixes) ==
  IF triples = <<>> THEN w
  ELSE FoldLeft(LAMBDA acc, s : SubjectBlock(acc, SelectSeq(triples, LAMBDA t : t[1] = s), prefixes),
                NewScope(w), FirstSeen(Each(triples, 1)))

\* The labels in the order sort.Strings gives them, which no reader depends on.
TurtleHeader(prefixes) ==
  FlattenSeq(SetToSeq({<<"@", "P", " ">> \o l \o <<":", " ", "<">> \o EscapeIri(prefixes[l]) \o <<">", " ", ".", "\n">>
                       : l \in DOMAIN prefixes}))
=============================================================================
