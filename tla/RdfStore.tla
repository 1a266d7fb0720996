------------------------------ MODULE RdfStore ------------------------------
(***************************************************************************)
(* The in-memory containers of the rdf package and what they cache:        *)
(* Dataset with its counts per graph (rdf/quad.go), a GraphView of each of *)
(* its graphs (rdf/graphview.go), and a Graph with its lazy subject index  *)
(* (rdf/rdf.go).  One goroutine calls them in any order.  A triple is      *)
(* <<subject, predicate, object>>, a quad has its graph as a fourth.       *)
(***************************************************************************)
EXTENDS Naturals, Sequences, FiniteSets, Selection

CONSTANTS Subjects, Predicates, Objs, GraphTerms,
          MaxStatements, \* in the two containers together
          MapAbove       \* objectSetMapAbove

VARIABLES dataset,   \* Dataset: Quads, counts, countsGen
          views,     \* the GraphView of each graph term: spo, gen, spoOK
          graph,     \* Graph: Triples, spo
          direct     \* triples the client appended to graph.Triples since spo was built

storeVars == <<dataset, views, graph, direct>>

\* The elements of s at some positions, and each of them once, where it first stands.
ElementsAt(s, positions) == [k \in DOMAIN positions |-> s[positions[k]]]
Firsts(s) == {i \in DOMAIN s : \A j \in 1..(i - 1) : s[j] # s[i]}
Distinct(s) == ElementsAt(s, Select(Firsts(s), Len(s)))
Elements(s) == {s[i] : i \in DOMAIN s}
NoIndex == [x \in {} |-> <<>>]

\* The positions of each subject's statements among those that are mine, in document
\* order (index, subjectIndex).
IndexOf(s, mine) ==
  [x \in {s[i][1] : i \in mine} |-> Select({i \in mine : s[i][1] = x}, Len(s))]
Bucket(spo, x) == IF x \in DOMAIN spo THEN spo[x] ELSE <<>>

\* objectSet: distinct objects by scanning, and by a hash set past MapAbove.
ObjectSetAppend(acc, o) ==
  IF acc.seen # {} THEN IF o \in acc.seen THEN acc ELSE [out |-> Append(acc.out, o), seen |-> acc.seen \cup {o}]
  ELSE IF o \in Elements(acc.out) THEN acc
  ELSE [out |-> Append(acc.out, o), seen |-> IF Len(acc.out) >= MapAbove THEN Elements(acc.out) \cup {o} ELSE {}]
ObjectSet(objs) ==
  LET after[k \in Nat] == IF k = 0 THEN [out |-> <<>>, seen |-> {}] ELSE ObjectSetAppend(after[k - 1], objs[k])
  IN after[Len(objs)].out
\* ObjectsWithRepeats: what a bucket holds for a predicate.  Object, HasType and
\* Literal look for the first of these, or for one of a kind.
ObjectsWithRepeats(s, bucket, p) ==
  LET hits == Select({k \in DOMAIN bucket : s[bucket[k]][2] = p}, Len(bucket))
  IN  [k \in DOMAIN hits |-> s[bucket[hits[k]]][3]]
ObjectsAt(s, bucket, p) == ObjectSet(ObjectsWithRepeats(s, bucket, p))
FirstOf(s, bucket, p) ==
  LET all == ObjectsWithRepeats(s, bucket, p) IN IF all = <<>> THEN <<>> ELSE <<Head(all)>>

\* SubjectsOfType scans the statements, never the index.
SubjectsOfType(s, mine, p, o) ==
  LET hits == Select({i \in mine : s[i][2] = p /\ s[i][3] = o}, Len(s))
  IN  Distinct([k \in DOMAIN hits |-> s[hits[k]][1]])
-----------------------------------------------------------------------------
InGraph(quads, g) == {i \in DOMAIN quads : quads[i][4] = g}

\* Dataset.graphCounts: one entry per graph term, in the order they are first seen.
CountsOf(quads) ==
  LET terms == Distinct([i \in DOMAIN quads |-> quads[i][4]])
  IN  [k \in DOMAIN terms |-> [g |-> terms[k], n |-> Cardinality(InGraph(quads, terms[k]))]]
Counted(d) ==
  IF d.counts # <<>> /\ d.countsGen = Len(d.Quads) THEN d
  ELSE [d EXCEPT !.counts = CountsOf(d.Quads), !.countsGen = Len(d.Quads)]
GraphLen(d, g) ==
  LET c == Counted(d).counts
      hit == {k \in DOMAIN c : c[k].g = g}
  IN  IF hit = {} THEN 0 ELSE c[CHOOSE k \in hit : TRUE].n
GraphsOf(d) == [k \in DOMAIN Counted(d).counts |-> Counted(d).counts[k].g]

\* GraphView.subjectIndex; an append to the dataset is seen by its length.
Indexed_Once(v, d, g) ==
  IF v.spoOK THEN v
  ELSE [spo |-> IndexOf(d.Quads, InGraph(d.Quads, g)), gen |-> Len(d.Quads), spoOK |-> TRUE]
Indexed(v, d, g) ==
  IF v.spoOK /\ v.gen = Len(d.Quads) THEN v
  ELSE [spo |-> IndexOf(d.Quads, InGraph(d.Quads, g)), gen |-> Len(d.Quads), spoOK |-> TRUE]
ViewObjects(v, d, g, s, p) == ObjectsAt(d.Quads, Bucket(Indexed(v, d, g).spo, s), p)
ViewObject(v, d, g, s, p) == FirstOf(d.Quads, Bucket(Indexed(v, d, g).spo, s), p)
ViewSubjectsOfType(d, g, p, o) == SubjectsOfType(d.Quads, InGraph(d.Quads, g), p, o)

\* Dataset.Graph copies the triples of one graph term.
TriplesOf(d, g) ==
  LET mine == Select(InGraph(d.Quads, g), Len(d.Quads))
  IN  [k \in DOMAIN mine |-> <<d.Quads[mine[k]][1], d.Quads[mine[k]][2], d.Quads[mine[k]][3]>>]

\* Graph.index, and Graph.Objects over it.
GraphIndexed(g) ==
  IF g.indexed THEN g ELSE [g EXCEPT !.spo = IndexOf(g.Triples, DOMAIN g.Triples), !.indexed = TRUE]
GraphObjects(g, s, p) == ObjectsAt(g.Triples, Bucket(GraphIndexed(g).spo, s), p)
GraphObject(g, s, p) == FirstOf(g.Triples, Bucket(GraphIndexed(g).spo, s), p)
-----------------------------------------------------------------------------
TripleSpace == Subjects \X Predicates \X Objs
QuadSpace == Subjects \X Predicates \X Objs \X GraphTerms

StoreInit ==
  /\ dataset = [Quads |-> <<>>, counts |-> <<>>, countsGen |-> 0]
  /\ views = [g \in GraphTerms |-> [spo |-> NoIndex, gen |-> 0, spoOK |-> FALSE]]
  /\ graph = [Triples |-> <<>>, spo |-> NoIndex, indexed |-> FALSE]
  /\ direct = 0

Held == Len(dataset.Quads) + Len(graph.Triples)

\* Dataset.Add, or an append to its Quads: the same to its caches.
AddQuad ==
  /\ Held < MaxStatements
  /\ \E q \in QuadSpace : dataset' = [dataset EXCEPT !.Quads = Append(@, q)]
  /\ UNCHANGED <<views, graph, direct>>

\* GraphLen, HasGraph, Graphs, Len and Empty.
Count ==
  /\ dataset' = Counted(dataset)
  /\ UNCHANGED <<views, graph, direct>>

\* The subject-keyed queries of a GraphView.
QueryView ==
  /\ \E g \in GraphTerms : views' = [views EXCEPT ![g] = Indexed(@, dataset, g)]
  /\ UNCHANGED <<dataset, graph, direct>>

AddTriple ==
  /\ Held < MaxStatements
  /\ \E t \in TripleSpace : graph' = [Triples |-> Append(graph.Triples, t), spo |-> NoIndex, indexed |-> FALSE]
  /\ direct' = 0
  /\ UNCHANGED <<dataset, views>>

\* The client appends to the exported slice instead.
AppendTriple ==
  /\ Held < MaxStatements
  /\ \E t \in TripleSpace : graph' = [graph EXCEPT !.Triples = Append(@, t)]
  /\ direct' = IF graph.indexed THEN direct + 1 ELSE 0
  /\ UNCHANGED <<dataset, views>>

QueryGraph ==
  /\ graph' = GraphIndexed(graph)
  /\ UNCHANGED <<dataset, views, direct>>

Dedupe_KeepsIndex ==   \* a wrong version
  /\ graph' = [graph EXCEPT !.Triples = Distinct(@)]
  /\ UNCHANGED <<dataset, views, direct>>
Dedupe ==
  LET out == Distinct(graph.Triples) IN
  /\ IF Len(out) < Len(graph.Triples)
     THEN graph' = [Triples |-> out, spo |-> NoIndex, indexed |-> FALSE] /\ direct' = 0
     ELSE UNCHANGED <<graph, direct>>
  /\ UNCHANGED <<dataset, views>>

StoreNext ==
  \/ AddQuad \/ Count \/ QueryView
  \/ AddTriple \/ AppendTriple \/ QueryGraph \/ Dedupe

StoreSpec == StoreInit /\ [][StoreNext]_storeVars

IsIndex(spo) == DOMAIN spo \subseteq Subjects /\ \A x \in DOMAIN spo : spo[x] \in Seq(Nat)
StoreTypeOK ==
  /\ dataset \in [Quads : Seq(QuadSpace), counts : Seq([g : GraphTerms, n : Nat]), countsGen : Nat]
  /\ dataset.countsGen <= Len(dataset.Quads)
  /\ DOMAIN views = GraphTerms
  /\ \A g \in GraphTerms : /\ IsIndex(views[g].spo) /\ views[g].spoOK \in BOOLEAN
                           /\ views[g].gen \in 0..Len(dataset.Quads)
  /\ DOMAIN graph = {"Triples", "spo", "indexed"}
  /\ graph.Triples \in Seq(TripleSpace) /\ IsIndex(graph.spo) /\ graph.indexed \in BOOLEAN
  /\ direct \in 0..Len(graph.Triples)
-----------------------------------------------------------------------------
\* What each query means, read off the statements themselves.
Meant(triples, s, p) ==
  LET hits == Select({i \in DOMAIN triples : triples[i][1] = s /\ triples[i][2] = p}, Len(triples))
  IN  Distinct([k \in DOMAIN hits |-> triples[hits[k]][3]])
MeantFirst(triples, s, p) ==
  LET all == Meant(triples, s, p) IN IF all = <<>> THEN <<>> ELSE <<Head(all)>>

\* A GraphView that has been queried at any earlier moment answers as the graph
\* copied out of the dataset now would, and the cached counts agree with both:
\* "a view stays correct across Add" (GraphView).
ViewsAgree ==
  \A g \in GraphTerms :
    /\ \A s \in Subjects, p \in Predicates :
         /\ ViewObjects(views[g], dataset, g, s, p) = Meant(TriplesOf(dataset, g), s, p)
         /\ ViewObject(views[g], dataset, g, s, p) = MeantFirst(TriplesOf(dataset, g), s, p)
    /\ \A p \in Predicates, o \in Objs :
         Elements(ViewSubjectsOfType(dataset, g, p, o)) =
           {s \in Subjects : o \in Elements(ViewObjects(views[g], dataset, g, s, p))}
    /\ GraphLen(dataset, g) = Len(TriplesOf(dataset, g))
    /\ g \in Elements(GraphsOf(dataset)) <=> TriplesOf(dataset, g) # <<>>

\* A Graph answers from its triples whatever was added, deduplicated and asked
\* before; only triples appended to its slice behind its back are missed, and
\* only until the next Add or a Dedupe that removes one.  No query reads past the
\* end of the triples.
Reachable(g) == \A x \in DOMAIN g.spo : \A k \in DOMAIN g.spo[x] : g.spo[x][k] \in DOMAIN g.Triples
IndexAgrees ==
  LET known == SubSeq(graph.Triples, 1, Len(graph.Triples) - direct) IN
  /\ graph.indexed => Reachable(graph)
  /\ \A s \in Subjects, p \in Predicates :
       /\ GraphObjects(graph, s, p) = Meant(known, s, p)
       /\ GraphObject(graph, s, p) = MeantFirst(known, s, p)
=============================================================================
