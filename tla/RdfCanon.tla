------------------------------ MODULE RdfCanon ------------------------------
(***************************************************************************)
(* rdf/canon.go: canonicalize, the RDFC-1.0 labelling of blank nodes.      *)
(* A statement is <<subject, predicate, object, graph>>; terms are numbers,*)
(* the blank nodes those in Blanks and DefaultGraph the zero Term.  What   *)
(* the code writes as text is a sequence of numbers here, and SHA-256 is   *)
(* Digest, two independent polynomial hashes: like the real one it says    *)
(* nothing of the order of what it was made from.  The action HashGroup is *)
(* nondeterministic where Go's map iteration and its unstable sort are.    *)
(* TLC only: the algorithm recurses.                                       *)
(***************************************************************************)
EXTENDS Naturals, Sequences, SequencesExt, FiniteSetsExt, TLC

CONSTANTS Blanks, Shapes, MaxCanonWork, MaxCanonDepth

ASSUME CanonAssumption == Blanks \subseteq 1..9 /\ MaxCanonWork \in Nat /\ MaxCanonDepth \in Nat

VARIABLES quads,      \* the statements, in the order of d.Quads
          firstDegree,\* the memo of first-degree hashes, once it is filled
          canonical,  \* blank nodes in the order they got c14n0, c14n1, ...
          ambiguous,  \* the first-degree hashes still to be disambiguated
          work,       \* what spend has charged
          out,        \* the lines of the result
          pc

canonVars == <<quads, firstDegree, canonical, ambiguous, work, out, pc>>

DefaultGraph == 0
Error == <<<<999>>>>   \* ErrCanonComplexity: no statement has this form

\* Labels as they occur in hash inputs and paths; b0 < c14n0 as in the code.
NodeItself == 31
OtherNode == 32
TempId(iss, r) == 40 + CHOOSE i \in DOMAIN iss : iss[i] = r
CanonId(can, r) == 60 + CHOOSE i \in DOMAIN can : can[i] = r
Position == <<70, 0, 71, 72>>     \* 's', 'o' and 'g' of components 1, 3, 4

Less(a, b) ==
  \/ IsStrictPrefix(a, b)
  \/ \E i \in DOMAIN a \cap DOMAIN b : a[i] < b[i] /\ \A j \in 1..(i-1) : a[j] = b[j]

Digest(s) ==
  LET H[i \in 0..Len(s)] ==
        IF i = 0 THEN <<17, 5>>
        ELSE LET h == H[i-1] IN <<100 + ((h[1] * 24593 + s[i] * 131) % 30011),
                                  100 + ((h[2] * 17389 + s[i] * 769) % 29989)>>
  IN  H[Len(s)]

Issue(iss, r) == IF Contains(iss, r) THEN iss ELSE Append(iss, r)

BlanksOf(qs) == {qs[i][c] : i \in DOMAIN qs, c \in {1, 3, 4}} \cap Blanks

\* The statements a blank node occurs in, once per occurrence (blankQuads).
BlankQuads(qs, b) ==
  FlattenSeq([i \in DOMAIN qs |->
    [k \in 1..Cardinality({c \in {1, 3, 4} : qs[i][c] = b}) |-> qs[i]]])

HashFirstDegree_Unsorted(qs, b) ==   \* a wrong version
  LET Term(t) == IF t \notin Blanks THEN t ELSE IF t = b THEN NodeItself ELSE OtherNode
      own == BlankQuads(qs, b)
  IN  Digest(FlattenSeq([i \in DOMAIN own |-> [c \in 1..4 |-> Term(own[i][c])]]))
HashFirstDegree(qs, b) ==
  LET Term(t) == IF t \notin Blanks THEN t ELSE IF t = b THEN NodeItself ELSE OtherNode
      own == BlankQuads(qs, b)
      lines == [i \in DOMAIN own |-> [c \in 1..4 |-> Term(own[i][c])]]
  IN  Digest(FlattenSeq(SortSeq(lines, Less)))

\* The memo c.firstDegree, filled for every blank node before any is read.
FirstDegree(qs) == [b \in BlanksOf(qs) |-> HashFirstDegree(qs, b)]

HashRelated(can, iss, fd, r, q, c) ==
  Digest(<<Position[c]>> \o (IF c # 4 THEN <<q[2]>> ELSE <<>>) \o
         (CASE Contains(can, r) -> <<CanonId(can, r)>>
            [] ~Contains(can, r) /\ Contains(iss, r) -> <<TempId(iss, r)>>
            [] OTHER -> fd[r]))

\* The blank nodes next to b, each with the hash of its place (addRelated).
Related(qs, can, iss, fd, b) ==
  LET Near(q) == FlattenSeq([k \in 1..3 |->
        LET c == <<1, 3, 4>>[k] IN
        IF q[c] \in Blanks \ {b} THEN <<[node |-> q[c], hash |-> HashRelated(can, iss, fd, q[c], q, c)]>>
                                 ELSE <<>>])
      own == BlankQuads(qs, b)
  IN  FlattenSeq([i \in DOMAIN own |-> Near(own[i])])

\* permute: every ordering of a list, in the order of Heap's algorithm.
Swap(a, i, j) == [a EXCEPT ![i] = a[j], ![j] = a[i]]
RECURSIVE Heap(_, _)
Heap(k, a) ==
  IF k <= 1 THEN [visits |-> <<a>>, last |-> a]
  ELSE FoldLeft(LAMBDA acc, i :
                  LET sub == Heap(k-1, acc.last) IN
                  [visits |-> acc.visits \o sub.visits,
                   last |-> Swap(sub.last, IF k % 2 = 0 THEN i ELSE 1, k)],
                [visits |-> <<>>, last |-> a], [i \in 1..k |-> i])
Permute(a) == Heap(Len(a), a).visits

Nodes(related) == [i \in DOMAIN related |-> related[i].node]

\* A path that can no longer be the least is given up.
Beaten(path, chosen) ==
  chosen # <<>> /\ Len(path) >= Len(chosen) /\ Less(chosen, path)

\* One ordering of a group: name its nodes along it, then recurse into those that
\* got their temporary label here.
Named(can, acc, r, known) ==
  LET new == ~known /\ ~Contains(acc.iss, r) IN
  [acc EXCEPT !.iss = IF new THEN Issue(@, r) ELSE @,
              !.path = Append(@, IF known THEN CanonId(can, r)
                                 ELSE IF new THEN 41 + Len(acc.iss) ELSE TempId(acc.iss, r)),
              !.rec = IF new THEN Append(@, r) ELSE @]
Visited(acc, r, sub) ==
  [acc EXCEPT !.iss = sub.iss, !.path = @ \o <<TempId(acc.iss, r)>> \o sub.hash, !.work = @ + sub.work]
Pruned(acc, best) == [acc EXCEPT !.skip = Beaten(acc.path, best.path)]
Least(best, walked) ==
  IF ~walked.skip /\ (best.path = <<>> \/ Less(walked.path, best.path))
  THEN [path |-> walked.path, iss |-> walked.iss, work |-> walked.work]
  ELSE [best EXCEPT !.work = walked.work]

RECURSIVE HashNDegree(_, _, _, _, _, _)
Visit(qs, can, fd, depth, best, iss, perm) ==
  LET Name(acc, r) == IF acc.skip THEN acc ELSE Pruned(Named(can, acc, r, Contains(can, r)), best)
      Recurse(acc, r) ==
        IF acc.skip THEN acc
        ELSE Pruned(Visited(acc, r, HashNDegree(qs, can, fd, r, acc.iss, depth + 1)), best)
      Walk(named) == FoldLeft(Recurse, named, named.rec)
  IN  Least(best, Walk(FoldLeft(Name, [iss |-> iss, path |-> <<>>, rec |-> <<>>, skip |-> FALSE,
                                       work |-> best.work + Len(iss) + 1], perm)))

HashGroups(qs, can, fd, depth, iss, related) ==
  LET In(h) == SelectSeq(related, LAMBDA e : e.hash = h)
      Best(acc, h) == FoldLeft(LAMBDA a, perm : Visit(qs, can, fd, depth, a, acc.iss, perm),
                               [path |-> <<>>, iss |-> acc.iss, work |-> acc.work], Permute(Nodes(In(h))))
      Add(acc, h, best) == [data |-> acc.data \o h \o best.path, iss |-> best.iss, work |-> best.work]
  IN  FoldLeft(LAMBDA acc, h : Add(acc, h, Best(acc, h)), [data |-> <<>>, iss |-> iss, work |-> 0],
               SortSeq(SetToSeq({related[i].hash : i \in DOMAIN related}), Less))
HashNDegree(qs, can, fd, b, iss, depth) ==
  LET Result(end) == [hash |-> Digest(end.data), iss |-> end.iss, work |-> end.work]
  IN  IF depth > MaxCanonDepth
      THEN [hash |-> <<>>, iss |-> iss, work |-> MaxCanonWork + 1]
      ELSE Result(HashGroups(qs, can, fd, depth, iss, Related(qs, can, iss, fd, b)))

Group(fd, h) == {b \in DOMAIN fd : fd[b] = h}
HashesOf(fd) == SortSeq(SetToSeq({fd[b] : b \in DOMAIN fd}), Less)
Lone(fd) ==    \* blank nodes that share their hash with no other, in hash order
  LET hs == SelectSeq(HashesOf(fd), LAMBDA h : Cardinality(Group(fd, h)) = 1)
  IN  [i \in DOMAIN hs |-> CHOOSE b \in Group(fd, hs[i]) : TRUE]
Shared(fd) == SelectSeq(HashesOf(fd), LAMBDA h : Cardinality(Group(fd, h)) # 1)

\* Every member of a group that has no canonical label yet, with its n-degree hash.
Results(qs, can, fd, h) ==
  [b \in {x \in Group(fd, h) : ~Contains(can, x)} |-> HashNDegree(qs, can, fd, b, <<b>>, 0)]
\* What sort.Slice may leave: any order in which the hashes do not decrease.
Sorted(results) ==
  {p \in SetToSeqs(DOMAIN results) :
     \A i, j \in DOMAIN p : i < j => ~Less(results[p[j]].hash, results[p[i]].hash)}
IssueAll(can, results, p) ==
  FoldLeft(Issue, can, FlattenSeq([i \in DOMAIN p |-> results[p[i]].iss]))
WorkOf(results) == MapThenSumSet(LAMBDA b : results[b].work, DOMAIN results)

Relabel(can, t) == IF t \in Blanks /\ Contains(can, t) THEN CanonId(can, t) ELSE t
Lines(qs, can) ==
  SortSeq(SetToSeq({[c \in 1..4 |-> Relabel(can, qs[i][c])] : i \in DOMAIN qs}), Less)
-----------------------------------------------------------------------------
\* The same graph under other names and in another order.
Rename(f, qs) ==
  [i \in DOMAIN qs |-> [c \in 1..4 |-> IF qs[i][c] \in Blanks THEN f[qs[i][c]] ELSE qs[i][c]]]
Listing(shape, f, o) == [i \in DOMAIN shape |-> Rename(f, shape)[o[i]]]

CanonInit ==
  /\ \E shape \in Shapes : \E f \in Permutations(Blanks), o \in Permutations(DOMAIN shape) :
       quads = Listing(shape, f, o)
  /\ firstDegree = <<>> /\ canonical = <<>> /\ ambiguous = <<>> /\ work = 0 /\ out = <<>> /\ pc = "first"

IssueUnique ==
  /\ pc = "first"
  /\ firstDegree' = FirstDegree(quads)
  /\ canonical' = Lone(firstDegree')
  /\ ambiguous' = Shared(firstDegree')
  /\ pc' = "groups"
  /\ UNCHANGED <<quads, work, out>>

GroupResults == Results(quads, canonical, firstDegree, Head(ambiguous))

HashGroup ==
  /\ pc = "groups" /\ ambiguous # <<>>
  /\ \E results \in {GroupResults} :
       /\ work + WorkOf(results) <= MaxCanonWork
       /\ work' = work + WorkOf(results)
       /\ \E p \in Sorted(results) : canonical' = IssueAll(canonical, results, p)
  /\ ambiguous' = Tail(ambiguous)
  /\ UNCHANGED <<quads, firstDegree, out, pc>>

OverBudget ==
  /\ pc = "groups" /\ ambiguous # <<>>
  /\ work + WorkOf(GroupResults) > MaxCanonWork
  /\ out' = Error /\ pc' = "done"
  /\ UNCHANGED <<quads, firstDegree, canonical, ambiguous, work>>

Serialize ==
  /\ pc = "groups" /\ ambiguous = <<>>
  /\ out' = Lines(quads, canonical) /\ pc' = "done"
  /\ UNCHANGED <<quads, firstDegree, canonical, ambiguous, work>>

CanonNext == IssueUnique \/ HashGroup \/ OverBudget \/ Serialize

CanonSpec == CanonInit /\ [][CanonNext]_canonVars
-----------------------------------------------------------------------------
\* The whole function, with the first of the orders its sorts may leave.
LabelGroup(qs, can, fd, results) == IssueAll(can, results, CHOOSE p \in Sorted(results) : TRUE)
LabelAll(qs, fd) ==
  FoldLeft(LAMBDA can, h : LabelGroup(qs, can, fd, Results(qs, can, fd, h)), Lone(fd), Shared(fd))
Canonicalize(qs) == Lines(qs, LabelAll(qs, FirstDegree(qs)))

FormOf == [shape \in Shapes |-> Canonicalize(shape)]
SameGraph(qs, shape) == \E f \in Permutations(Blanks) : ToSet(Rename(f, shape)) = ToSet(qs)
SameListing(qs, shape) ==     \* and each statement as often
  \E f \in Permutations(Blanks) : SortSeq(Rename(f, shape), Less) = SortSeq(qs, Less)

\* Two listings with the same canonical form are the same set of statements up to the
\* names of its blank nodes; and the same graph, listed with the same repeats if it
\* has any, gets the same form whatever order the statements come in, Go ranges
\* over its maps in and sort.Slice leaves equal hashes in
\* (Dataset.Canonical: "two datasets that differ only in statement order or
\* blank-node labels produce byte-identical output").
CanonicalDecidesIsomorphism ==
  pc = "done" /\ out # Error =>
    \A shape \in Shapes :
      /\ out = FormOf[shape] => SameGraph(quads, shape)
      /\ SameListing(quads, shape) => out = FormOf[shape]

\* "Canonical already collapses duplicates on its way to canonical form", so that
\* "Dedupe is not needed before comparing two graphs": how often a statement
\* is listed does not show in the form.
DuplicatesCollapse ==
  pc = "done" /\ out # Error =>
    \A shape \in Shapes : SameGraph(quads, shape) => out = FormOf[shape]

=============================================================================
