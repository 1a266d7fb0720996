------------------------------ MODULE Rdf_proofs ------------------------------
(***************************************************************************)
(* What the indexes and the views of RdfStore answer, and what RdfLines    *)
(* tells of a document of any length.                                      *)
(***************************************************************************)
EXTENDS RdfStore, RdfLines, SelectionTheorems

-----------------------------------------------------------------------------
\* Distinct elements.

\* The elements that first stand in the first n places.
UpTo(s, n) == ElementsAt(s, Select(Firsts(s), n))

\* Each element of a sequence stands somewhere first.
LEMMA FirstPlace ==
  ASSUME NEW s, NEW n \in Nat, DOMAIN s = 1..n, NEW i \in 1..n
  PROVE  \E j \in 1..i : j \in Firsts(s) /\ s[j] = s[i]
<1> DEFINE places == {j \in 1..n : s[j] = s[i]}
<1>1. places \in SUBSET Nat /\ i \in places
  OBVIOUS
<1>2. PICK j \in places : \A k \in places : j <= k
  BY <1>1, Least
<1>3. j \in 1..n /\ s[j] = s[i] /\ j <= i
  BY <1>1, <1>2
<1>4. ASSUME NEW k \in 1..(j - 1), s[k] = s[j] PROVE FALSE
  <2>1. k \in 1..n /\ k < j
    BY <1>3
  <2>2. k \in places
    BY <1>3, <1>4, <2>1
  <2> QED
    BY <1>2, <2>1, <2>2
<1>5. j \in Firsts(s)
  BY <1>3, <1>4 DEF Firsts
<1> QED
  BY <1>3, <1>5

\* What UpTo is made of: the elements of the first n places, each once, one more
\* with each place that has a new one.
LEMMA UpToSteps ==
  ASSUME NEW s, NEW m \in Nat, DOMAIN s = 1..m
  PROVE  /\ UpTo(s, 0) = <<>>
         /\ \A n \in 0..m :
              /\ UpTo(s, n) \in Seq(Elements(s))
              /\ Elements(UpTo(s, n)) = {s[i] : i \in 1..n}
         /\ \A n \in 0..(m - 1) :
              UpTo(s, n + 1) = IF n + 1 \in Firsts(s) THEN Append(UpTo(s, n), s[n + 1]) ELSE UpTo(s, n)
<1> DEFINE sel(n) == Select(Firsts(s), n)
<1>1. ASSUME NEW n \in 0..m
      PROVE  /\ sel(n) \in Seq(Nat) /\ Len(sel(n)) \in Nat /\ DOMAIN sel(n) = 1..Len(sel(n))
             /\ \A k \in 1..Len(sel(n)) : sel(n)[k] \in Firsts(s) /\ sel(n)[k] \in 1..n
  <2>1. n \in Nat
    OBVIOUS
  <2>2. sel(n) \in Seq(Nat)
    BY <2>1, SelectSteps
  <2>3. Len(sel(n)) \in Nat /\ DOMAIN sel(n) = 1..Len(sel(n))
    BY <2>2
  <2> QED
    BY <2>1, <2>2, <2>3, SelectOnly
<1>2. ASSUME NEW n \in 0..m PROVE UpTo(s, n) = [k \in 1..Len(sel(n)) |-> s[sel(n)[k]]]
  BY <1>1 DEF UpTo, ElementsAt
<1>3. UpTo(s, 0) = <<>>
  <2>1. 0 \in 0..m /\ sel(0) = <<>>
    BY SelectSteps
  <2> QED
    BY <1>2, <2>1
<1>4. ASSUME NEW n \in 0..m
      PROVE  /\ UpTo(s, n) \in Seq(Elements(s))
             /\ Elements(UpTo(s, n)) = {s[i] : i \in 1..n}
  <2> DEFINE b == sel(n) u == UpTo(s, n) z == Len(b)
  <2>1. z \in Nat /\ u = [k \in 1..z |-> s[b[k]]] /\ \A k \in 1..z : b[k] \in 1..n
    BY <1>1, <1>2
  <2>2. \A i \in 1..n : \E k \in 1..z : s[b[k]] = s[i]
    <3>1. SUFFICES ASSUME NEW i \in 1..n PROVE \E k \in 1..z : s[b[k]] = s[i]
      OBVIOUS
    <3>2. i \in 1..m
      OBVIOUS
    <3>3. PICK j \in 1..i : j \in Firsts(s) /\ s[j] = s[i]
      BY <3>2, FirstPlace
    <3>4. n \in Nat /\ j \in 1..n
      OBVIOUS
    <3>5. \E k \in 1..z : b[k] = j
      BY <3>3, <3>4, SelectAll
    <3> QED
      BY <3>3, <3>5
  <2>3. \A k \in 1..n : k \in 1..m
    OBVIOUS
  <2> HIDE DEF b, u, z
  <2>4. u \in Seq(Elements(s))
    <3>1. \A k \in 1..z : s[b[k]] \in Elements(s)
      BY <2>1, <2>3 DEF Elements
    <3> QED
      BY <2>1, <3>1
  <2>5. Elements(u) = {s[i] : i \in 1..n}
    <3>1. DOMAIN u = 1..z /\ \A k \in 1..z : u[k] = s[b[k]]
      BY <2>1
    <3>2. Elements(u) = {s[b[k]] : k \in 1..z}
      BY <3>1 DEF Elements
    <3>3. \A k \in 1..z : s[b[k]] \in {s[i] : i \in 1..n}
      BY <2>1
    <3>4. \A i \in 1..n : s[i] \in {s[b[k]] : k \in 1..z}
      BY <2>2
    <3> QED
      BY <3>2, <3>3, <3>4
  <2> QED
    BY <2>4, <2>5 DEF u
<1>5. ASSUME NEW n \in 0..(m - 1)
      PROVE  UpTo(s, n + 1) = IF n + 1 \in Firsts(s) THEN Append(UpTo(s, n), s[n + 1]) ELSE UpTo(s, n)
  <2> DEFINE b == sel(n) b1 == sel(n + 1) z == Len(b) z1 == Len(b1)
  <2>1. n \in Nat /\ n \in 0..m /\ n + 1 \in 0..m
    OBVIOUS
  <2>2. /\ b \in Seq(Nat) /\ z \in Nat /\ z = Len(b)
        /\ UpTo(s, n) = [k \in 1..z |-> s[b[k]]]
        /\ UpTo(s, n + 1) = [k \in 1..z1 |-> s[b1[k]]]
    BY <1>1, <1>2, <2>1
  <2>3. CASE n + 1 \in Firsts(s)
    <3>1. b1 = Append(b, n + 1)
      BY <2>1, <2>3, SelectSteps
    <3>6. z1 = Len(b1)
      OBVIOUS
    <3> HIDE DEF b, b1, z, z1
    <3>2. z1 = z + 1 /\ b1[z + 1] = n + 1 /\ \A k \in 1..z : b1[k] = b[k]
      BY <2>2, <3>1, <3>6
    <3> DEFINE u == UpTo(s, n) u1 == UpTo(s, n + 1)
    <3>3. Len(u) = z /\ u = [k \in 1..z |-> s[b[k]]] /\ u1 = [k \in 1..(z + 1) |-> s[b1[k]]]
      BY <2>2, <3>2
    <3> HIDE DEF u, u1
    <3>4. Append(u, s[n + 1]) = [k \in 1..(z + 1) |-> IF k = z + 1 THEN s[n + 1] ELSE u[k]]
      BY <2>2, <3>3
    <3>5. \A k \in 1..(z + 1) : s[b1[k]] = IF k = z + 1 THEN s[n + 1] ELSE u[k]
      BY <2>2, <3>2, <3>3
    <3>7. u1 = Append(u, s[n + 1])
      BY <3>3, <3>4, <3>5
    <3> QED
      BY <2>3, <3>7 DEF u, u1
  <2>4. CASE n + 1 \notin Firsts(s)
    <3>1. b1 = b
      BY <2>1, <2>4, SelectSteps
    <3> QED
      BY <2>2, <2>4, <3>1
  <2> QED
    BY <2>3, <2>4
<1> QED
  BY <1>3, <1>4, <1>5

\* Distinct takes out repetitions and nothing else, and leaves the first in front.
LEMMA DistinctElements ==
  ASSUME NEW S, NEW s \in Seq(S)
  PROVE  /\ Distinct(s) \in Seq(S)
         /\ Elements(Distinct(s)) = Elements(s)
         /\ s # <<>> => Distinct(s) # <<>> /\ Head(Distinct(s)) = Head(s)
         /\ s = <<>> => Distinct(s) = <<>>
<1> DEFINE n == Len(s) d == Distinct(s)
<1>1. n \in Nat /\ DOMAIN s = 1..n /\ n \in 0..n /\ Elements(s) \subseteq S
  BY DEF Elements
<1>2. d = UpTo(s, n)
  BY DEF UpTo, Distinct
<1>3. d \in Seq(Elements(s)) /\ Elements(d) = {s[i] : i \in 1..n}
  <2> HIDE DEF d, n
  <2> QED
    BY <1>1, <1>2, UpToSteps
<1>4. d \in Seq(S)
  BY <1>1, <1>3
<1>5. Elements(d) = Elements(s)
  BY <1>1, <1>3 DEF Elements
<1>6. ASSUME s # <<>> PROVE d # <<>> /\ Head(d) = Head(s)
  <2>1. n > 0 /\ Head(s) = s[1]
    BY <1>6
  <2>2. 1 \in Firsts(s)
    BY <1>1, <2>1 DEF Firsts
  <2> DEFINE b == Select(Firsts(s), n)
  <2>3. 0 < n /\ 0 + 1 = 1 /\ 0 \in Nat /\ n \in Nat
    BY <1>1, <2>1
  <2>4. Select(Firsts(s), 0) = <<>>
    BY SelectSteps
  <2>5. Len(Select(Firsts(s), 0)) < Len(b) /\ b[Len(Select(Firsts(s), 0)) + 1] = 1
    BY <2>2, <2>3, SelectNext
  <2>6. b \in Seq(Nat)
    BY <2>3, SelectSteps
  <2>7. 0 < Len(b) /\ b[1] = 1
    BY <2>4, <2>5
  <2> HIDE DEF b
  <2>8. d = [k \in DOMAIN b |-> s[b[k]]]
    BY DEF Distinct, ElementsAt, b
  <2>9. 1 \in DOMAIN b
    BY <2>6, <2>7
  <2>10. d[1] = s[1] /\ 1 \in DOMAIN d
    BY <2>7, <2>8, <2>9
  <2> HIDE DEF d
  <2> QED
    BY <1>4, <2>1, <2>10
<1>7. ASSUME s = <<>> PROVE d = <<>>
  <2>1. n = 0
    BY <1>7
  <2> QED
    BY <1>1, <1>2, <2>1, UpToSteps
<1> QED
  BY <1>4, <1>5, <1>6, <1>7

-----------------------------------------------------------------------------
\* objectSet.

\* What objectSet makes of a sequence, by its recursion.
LEMMA ObjectSetSteps ==
  ASSUME NEW objs, NEW E, E = {objs[k] : k \in Nat}
  PROVE  \E f \in [Nat -> [out : Seq(E), seen : SUBSET E]] :
           /\ f[0] = [out |-> <<>>, seen |-> {}]
           /\ \A k \in Nat : f[k + 1] = ObjectSetAppend(f[k], objs[k + 1])
           /\ Len(objs) \in Nat => ObjectSet(objs) = f[Len(objs)].out
<1> DEFINE S == [out : Seq(E), seen : SUBSET E]
           none == [out |-> <<>>, seen |-> {}]
           eq(f) == f = [k \in Nat |-> IF k = 0 THEN none ELSE ObjectSetAppend(f[k - 1], objs[k])]
           step == [n \in Nat |-> [a \in S |-> ObjectSetAppend(a, objs[n + 1])]]
<1>1. none \in S
  OBVIOUS
<1>2. ASSUME NEW n \in Nat, NEW a \in S PROVE ObjectSetAppend(a, objs[n + 1]) \in S
  <2>1. objs[n + 1] \in E /\ a.out \in Seq(E) /\ a.seen \in SUBSET E
    OBVIOUS
  <2>2. Append(a.out, objs[n + 1]) \in Seq(E) /\ Elements(a.out) \in SUBSET E
    BY <2>1 DEF Elements
  <2> QED
    BY <2>1, <2>2 DEF ObjectSetAppend
<1>3. step \in [Nat -> [S -> S]]
  <2>1. ASSUME NEW n \in Nat PROVE [a \in S |-> ObjectSetAppend(a, objs[n + 1])] \in [S -> S]
    <3> HIDE DEF S
    <3> QED
      BY <1>2
  <2>2. step = [n \in Nat |-> [a \in S |-> ObjectSetAppend(a, objs[n + 1])]]
    OBVIOUS
  <2> HIDE DEF S, step
  <2> QED
    BY <2>1, <2>2
<1>4. \A n \in Nat, a \in S : step[n][a] = ObjectSetAppend(a, objs[n + 1])
  <2> HIDE DEF S
  <2> QED
    OBVIOUS
<1>5. PICK g : g \in [Nat -> S] /\ g[0] = none /\ \A n \in Nat : g[n + 1] = step[n][g[n]]
  <2> HIDE DEF S, none, step
  <2>1. \E g : g \in Iterates(S, none, step)
    BY <1>1, <1>3, Recursion
  <2> QED
    BY <2>1 DEF Iterates
<1>6. \A n \in Nat : g[n + 1] = ObjectSetAppend(g[n], objs[n + 1])
  <2> HIDE DEF step, S
  <2> QED
    BY <1>4, <1>5
<1>7. eq(g)
  <2> HIDE DEF S, step, none
  <2>1. ASSUME NEW i \in Nat
        PROVE  g[i] = IF i = 0 THEN none ELSE ObjectSetAppend(g[i - 1], objs[i])
    <3>1. i # 0 => i - 1 \in Nat /\ (i - 1) + 1 = i
      OBVIOUS
    <3> QED
      BY <1>5, <1>6, <3>1
  <2> QED
    BY <1>5, <2>1
<1> DEFINE h == CHOOSE f : eq(f)
<1>8. eq(h)
  <2> HIDE DEF eq
  <2> QED
    BY <1>7
<1>9. ObjectSet(objs) = h[Len(objs)].out
  BY DEF ObjectSet
<1>10. h[0] = none /\ \A k \in Nat : h[k + 1] = ObjectSetAppend(h[k], objs[k + 1])
  <2> HIDE DEF none, S, h
  <2>1. 0 \in Nat /\ \A k \in Nat : k + 1 \in Nat /\ k + 1 # 0 /\ (k + 1) - 1 = k
    OBVIOUS
  <2> QED
    BY <1>8, <2>1
<1>11. h \in [Nat -> S]
  <2>1. DOMAIN h = Nat /\ h = [k \in Nat |-> h[k]]
    <3> HIDE DEF none, S, h
    <3> QED
      BY <1>8
  <2> DEFINE T == {n \in Nat : h[n] \in S}
  <2>2. 0 \in T
    <3> HIDE DEF none, S, h
    <3> QED
      BY <1>1, <1>10
  <2>3. ASSUME NEW n \in Nat, n \in T PROVE n + 1 \in T
    <3> HIDE DEF none, S, h
    <3> QED
      BY <1>2, <1>10, <2>3
  <2>4. Nat \subseteq T
    <3> HIDE DEF T
    <3> QED
      BY <2>2, <2>3, InductionBySet
  <2> HIDE DEF h, S
  <2> QED
    BY <2>1, <2>4
<1> HIDE DEF h
<1> QED
  BY <1>9, <1>10, <1>11

\* However it tells repetitions, by scanning or by its hash set, objectSet keeps
\* the distinct objects in the order in which they come.
LEMMA ObjectSetIsDistinct ==
  ASSUME NEW A, NEW objs \in Seq(A)
  PROVE  ObjectSet(objs) = Distinct(objs)
<1> DEFINE E == {objs[k] : k \in Nat} m == Len(objs)
<1>1. m \in Nat /\ DOMAIN objs = 1..m
  OBVIOUS
<1>2. PICK f \in [Nat -> [out : Seq(E), seen : SUBSET E]] :
        /\ f[0] = [out |-> <<>>, seen |-> {}]
        /\ \A k \in Nat : f[k + 1] = ObjectSetAppend(f[k], objs[k + 1])
        /\ m \in Nat => ObjectSet(objs) = f[m].out
  <2> HIDE DEF E
  <2>1. E = {objs[k] : k \in Nat}
    BY DEF E
  <2> QED
    BY <2>1, ObjectSetSteps
<1> HIDE DEF E, m
<1>6. /\ UpTo(objs, 0) = <<>>
      /\ \A n \in 0..m : /\ UpTo(objs, n) \in Seq(Elements(objs))
                         /\ Elements(UpTo(objs, n)) = {objs[i] : i \in 1..n}
      /\ \A n \in 0..(m - 1) :
           UpTo(objs, n + 1) = IF n + 1 \in Firsts(objs) THEN Append(UpTo(objs, n), objs[n + 1]) ELSE UpTo(objs, n)
  BY <1>1, UpToSteps
<1> DEFINE S == {n \in Nat : n <= m => /\ f[n].out = UpTo(objs, n)
                                       /\ f[n].seen # {} => f[n].seen = Elements(f[n].out)}
<1>3. 0 \in S
  <2>1. f[0].out = UpTo(objs, 0) /\ f[0].seen = {}
    BY <1>2, <1>6
  <2> QED
    BY <2>1
<1>4. ASSUME NEW n \in Nat, n \in S PROVE n + 1 \in S
  <2>1. SUFFICES ASSUME n + 1 <= m
                 PROVE  /\ f[n + 1].out = UpTo(objs, n + 1)
                        /\ f[n + 1].seen # {} => f[n + 1].seen = Elements(f[n + 1].out)
    OBVIOUS
  <2> DEFINE acc == f[n] o == objs[n + 1] u == UpTo(objs, n)
  <2>2. n \in 0..m /\ n \in 0..(m - 1) /\ n + 1 \in 0..m /\ n + 1 \in 1..m
    BY <1>1, <2>1
  <2>3. /\ acc.out = u /\ acc \in [out : Seq(E), seen : SUBSET E]
        /\ acc.seen # {} => acc.seen = Elements(u)
    <3>1. f[n] \in [out : Seq(E), seen : SUBSET E]
      BY <1>2
    <3>2. n <= m
      BY <2>2, <1>1
    <3>3. f[n].out = UpTo(objs, n) /\ (f[n].seen # {} => f[n].seen = Elements(f[n].out))
      BY <1>4, <3>2
    <3> QED
      BY <3>1, <3>3
  <2>4. u \in Seq(Elements(objs)) /\ Elements(u) = {objs[i] : i \in 1..n}
    BY <1>6, <2>2
  <2>5. UpTo(objs, n + 1) = IF n + 1 \in Firsts(objs) THEN Append(u, o) ELSE u
    BY <1>6, <2>2
  <2>6. n + 1 \in Firsts(objs) <=> o \notin Elements(u)
    <3>1. n + 1 \in Firsts(objs) <=> \A j \in 1..((n + 1) - 1) : objs[j] # o
      BY <1>1, <2>2 DEF Firsts
    <3>2. (n + 1) - 1 = n
      OBVIOUS
    <3> QED
      BY <2>4, <3>1, <3>2
  <2>7. f[n + 1] = ObjectSetAppend(acc, o)
    BY <1>2
  <2> HIDE DEF acc, o, u
  <2>8. CASE o \in Elements(u)
    <3>1. f[n + 1] = acc
      BY <2>3, <2>7, <2>8 DEF ObjectSetAppend
    <3> QED
      BY <2>3, <2>5, <2>6, <2>8, <3>1
  <2>9. CASE o \notin Elements(u)
    <3>1. /\ f[n + 1].out = Append(u, o)
          /\ f[n + 1].seen \in {{}, Elements(u) \cup {o}}
      <4>0. acc.out = u /\ o \notin Elements(acc.out)
        BY <2>3, <2>9
      <4>1. CASE acc.seen # {}
        <5>1. f[n + 1] = IF o \in acc.seen THEN acc
                         ELSE [out |-> Append(acc.out, o), seen |-> acc.seen \cup {o}]
          BY <2>7, <4>1 DEF ObjectSetAppend
        <5>2. acc.seen = Elements(u) /\ o \notin acc.seen
          BY <2>3, <2>9, <4>1
        <5>3. f[n + 1] = [out |-> Append(u, o), seen |-> Elements(u) \cup {o}]
          BY <4>0, <5>1, <5>2
        <5> QED
          BY <5>3
      <4>2. CASE acc.seen = {}
        <5>1. f[n + 1] = IF o \in Elements(acc.out) THEN acc
                         ELSE [out |-> Append(acc.out, o),
                               seen |-> IF Len(acc.out) >= MapAbove THEN Elements(acc.out) \cup {o} ELSE {}]
          BY <2>7, <4>2 DEF ObjectSetAppend
        <5>2. f[n + 1] = [out |-> Append(u, o),
                          seen |-> IF Len(u) >= MapAbove THEN Elements(u) \cup {o} ELSE {}]
          BY <4>0, <5>1
        <5> QED
          BY <5>2
      <4> QED
        BY <4>1, <4>2
    <3>2. Elements(Append(u, o)) = Elements(u) \cup {o}
      <4>1. Len(u) \in Nat /\ DOMAIN u = 1..Len(u) /\ DOMAIN Append(u, o) = 1..(Len(u) + 1)
        BY <2>4
      <4>2. Append(u, o)[Len(u) + 1] = o /\ \A i \in 1..Len(u) : Append(u, o)[i] = u[i]
        BY <2>4
      <4>3. \A i \in 1..(Len(u) + 1) : i \in 1..Len(u) \/ i = Len(u) + 1
        <5>1. \A z \in Nat : \A i \in 1..(z + 1) : i \in 1..z \/ i = z + 1
          OBVIOUS
        <5> QED
          BY <4>1, <5>1
      <4>4. Len(u) + 1 \in 1..(Len(u) + 1) /\ \A i \in 1..Len(u) : i \in 1..(Len(u) + 1)
        BY <4>1
      <4> QED
        BY <4>1, <4>2, <4>3, <4>4 DEF Elements
    <3> QED
      BY <2>5, <2>6, <2>9, <3>1, <3>2
  <2> QED
    BY <2>8, <2>9
<1>5. m \in S
  <2> HIDE DEF S
  <2> QED
    BY <1>1, <1>3, <1>4, InductionBySet
<1>7. ObjectSet(objs) = UpTo(objs, m)
  <2>1. f[m].out = UpTo(objs, m)
    BY <1>1, <1>5
  <2> QED
    BY <1>1, <1>2, <2>1
<1> QED
  BY <1>7 DEF Distinct, UpTo, m

-----------------------------------------------------------------------------
\* What a query makes of the statements.

\* The statements of x with predicate p among those that are mine.
Matching(s, mine, x, p) == {i \in mine : s[i][1] = x /\ s[i][2] = p}

\* One component of the statements at the positions in T, in document order.
Column(s, T, c) ==
  LET hits == Select(T, Len(s)) IN [k \in DOMAIN hits |-> s[hits[k]][c]]

\* What stands in it.
Entries(s, T, c) == {s[i][c] : i \in T}

\* A column has the components of the statements of T and no others, and is
\* empty only when T is.
LEMMA ColumnElements ==
  ASSUME NEW A, NEW s \in Seq(A), NEW T \in SUBSET (1..Len(s)), NEW c
  PROVE  /\ Elements(Column(s, T, c)) = Entries(s, T, c)
         /\ Column(s, T, c) \in Seq(Entries(s, T, c))
         /\ Len(Column(s, T, c)) = Cardinality(T)
         /\ Column(s, T, c) = <<>> <=> T = {}
<1> DEFINE h == Select(T, Len(s)) v == Column(s, T, c) z == Len(h) C == {s[i][c] : i \in T}
<1>1. Len(s) \in Nat
  OBVIOUS
<1>2. h \in Seq(Nat)
  BY <1>1, SelectSteps
<1>3. z \in Nat /\ DOMAIN h = 1..z
  BY <1>2
<1>4. v = [k \in 1..z |-> s[h[k]][c]]
  BY <1>3 DEF Column
<1>5. \A k \in 1..z : h[k] \in T
  BY <1>1, SelectOnly
<1>6. \A i \in T : \E k \in 1..z : h[k] = i
  BY <1>1, SelectAll
<1>7. z = Cardinality(T)
  <2>1. T \cap 1..Len(s) = T
    OBVIOUS
  <2> QED
    BY <1>1, <2>1, SelectCounts
<1> HIDE DEF h, z, v
<1>8. v \in Seq(C)
  <2>1. \A k \in 1..z : s[h[k]][c] \in C
    BY <1>5
  <2> HIDE DEF C
  <2> QED
    BY <1>3, <1>4, <2>1
<1>9. Len(v) = z /\ DOMAIN v = 1..z
  BY <1>3, <1>4
<1>10. Elements(v) = C
  <2>1. \A k \in 1..z : v[k] = s[h[k]][c]
    BY <1>4
  <2>2. ASSUME NEW e \in Elements(v) PROVE e \in C
    BY <1>5, <1>9, <2>1 DEF Elements
  <2>3. ASSUME NEW e \in C PROVE e \in Elements(v)
    <3>1. PICK i \in T : e = s[i][c]
      OBVIOUS
    <3>2. PICK k \in 1..z : h[k] = i
      BY <1>6
    <3> QED
      BY <1>9, <2>1, <3>1, <3>2 DEF Elements
  <2> HIDE DEF C
  <2> QED
    BY <2>2, <2>3
<1>11. v = <<>> <=> T = {}
  <2>1. ASSUME T = {} PROVE v = <<>>
    <3>1. z = 0
      BY <1>3, <1>5, <2>1
    <3> QED
      BY <1>4, <3>1
  <2>2. ASSUME v = <<>> PROVE T = {}
    <3>1. z = 0
      BY <1>9, <2>2
    <3> QED
      BY <1>6, <3>1
  <2> QED
    BY <2>1, <2>2
<1> QED
  BY <1>7, <1>8, <1>9, <1>10, <1>11 DEF v, Entries

\* A bucket holds the positions of a subject's statements, none if it has none.
LEMMA BucketOfIndex ==
  ASSUME NEW A, NEW s \in Seq(A), NEW mine \in SUBSET (1..Len(s)), NEW x
  PROVE  Bucket(IndexOf(s, mine), x) = Select({i \in mine : s[i][1] = x}, Len(s))
<1> DEFINE T == {i \in mine : s[i][1] = x}
<1>1. CASE T # {}
  <2>1. x \in {s[i][1] : i \in mine}
    BY <1>1
  <2> QED
    BY <2>1 DEF Bucket, IndexOf
<1>2. CASE T = {}
  <2>1. x \notin {s[i][1] : i \in mine}
    BY <1>2
  <2>2. Bucket(IndexOf(s, mine), x) = <<>>
    BY <2>1 DEF Bucket, IndexOf
  <2>3. Len(s) \in Nat /\ 0 \in Nat /\ 0 <= Len(s) /\ \A i \in (0 + 1)..Len(s) : i \notin T
    BY <1>2
  <2> HIDE DEF T
  <2>4. Select(T, Len(s)) = Select(T, 0)
    BY <2>3, SelectSame
  <2>5. Select(T, 0) = <<>>
    BY SelectSteps
  <2> QED
    BY <2>2, <2>4, <2>5 DEF T
<1> QED
  BY <1>1, <1>2

\* What the index finds for a subject and a predicate are the objects of the
\* statements that match, in document order.  (The statements looked up may be
\* more than those indexed.)
LEMMA IndexFinds ==
  ASSUME NEW A, NEW s \in Seq(A), NEW all \in Seq(A), Len(s) <= Len(all),
         \A i \in 1..Len(s) : all[i] = s[i],
         NEW mine \in SUBSET (1..Len(s)), NEW x, NEW p
  PROVE  ObjectsWithRepeats(all, Bucket(IndexOf(s, mine), x), p) = Column(s, Matching(s, mine, x, p), 3)
<1> DEFINE n == Len(s)
           T == {i \in mine : s[i][1] = x}
           U == {i \in 1..n : s[i][2] = p}
           b == Select(T, n)
           h == Select({k \in DOMAIN b : b[k] \in U}, Len(b))
           both == Select(Matching(s, mine, x, p), n)
<1>1. n \in Nat
  OBVIOUS
<1>2. Bucket(IndexOf(s, mine), x) = b
  BY BucketOfIndex
<1>3. Matching(s, mine, x, p) = T \cap U
  BY DEF Matching
<1>4. b \in Seq(Nat) /\ \A k \in DOMAIN b : b[k] \in 1..n
  <2>1. b \in Seq(Nat)
    BY <1>1, SelectSteps
  <2>2. \A k \in 1..Len(b) : b[k] \in 1..n
    BY <1>1, SelectOnly
  <2> QED
    BY <2>1, <2>2
<1> HIDE DEF T, U, n, b
<1>5. DOMAIN both = DOMAIN h /\ \A k \in DOMAIN h : both[k] = b[h[k]]
  <2> DEFINE V == {k \in DOMAIN b : b[k] \in U} W == Matching(s, mine, x, p)
  <2>1. \A k \in 1..Len(b) : k \in V <=> b[k] \in W
    <3>1. \A k \in 1..Len(b) : k \in DOMAIN b /\ b[k] \in T
      BY <1>1, <1>4, SelectOnly DEF b
    <3> QED
      BY <1>3, <3>1
  <2>2. W \subseteq T
    BY <1>3
  <2>3. h = Select(V, Len(b)) /\ both = Select(W, n) /\ b = Select(T, n)
    BY DEF b
  <2> HIDE DEF h, V, W, both
  <2>4. Len(h) = Len(both) /\ \A k \in 1..Len(both) : both[k] = b[h[k]]
    <3>1. SelectsAgain(V, W, T, n)
      <4>1. PlacesOf(V, W, T, n)
        BY <2>1, <2>2, <2>3 DEF PlacesOf
      <4> QED
        BY <1>1, <4>1, SelectAgain
    <3> QED
      BY <2>3, <3>1 DEF SelectsAgain
  <2>5. h \in Seq(Nat) /\ both \in Seq(Nat)
    <3>1. Len(b) \in Nat
      BY <1>4
    <3> QED
      BY <1>1, <2>3, <3>1, SelectSteps
  <2>6. DOMAIN h = 1..Len(h) /\ DOMAIN both = 1..Len(both)
    BY <2>5
  <2> QED
    BY <2>4, <2>6
<1>6. \A k \in DOMAIN b : all[b[k]][2] = p <=> b[k] \in U
  BY <1>4 DEF U, n
<1>7. {k \in DOMAIN b : all[b[k]][2] = p} = {k \in DOMAIN b : b[k] \in U}
  BY <1>6
<1>8. ObjectsWithRepeats(all, b, p) = [k \in DOMAIN h |-> all[b[h[k]]][3]]
  BY <1>7 DEF ObjectsWithRepeats
<1>9. DOMAIN both = DOMAIN h /\ \A k \in DOMAIN h : both[k] = b[h[k]]
  BY <1>5
<1>10. \A k \in DOMAIN h : all[b[h[k]]] = s[both[k]]
  <2>1. \A k \in 1..Len(both) : both[k] \in 1..n
    BY <1>1, SelectOnly
  <2>2. both \in Seq(Nat)
    BY <1>1, SelectSteps
  <2>3. DOMAIN both = 1..Len(both)
    BY <2>2
  <2> HIDE DEF both, h
  <2> QED
    BY <1>9, <2>1, <2>3 DEF n
<1>11. Column(s, Matching(s, mine, x, p), 3) = [k \in DOMAIN both |-> s[both[k]][3]]
  BY DEF Column, n
<1> HIDE DEF both, h
<1> QED
  BY <1>2, <1>8, <1>9, <1>10, <1>11

\* And what the query means of the statements copied out.
LEMMA CopyMeans ==
  ASSUME NEW A, NEW s \in Seq(A), NEW mine \in SUBSET (1..Len(s)), NEW x, NEW p,
         NEW copy, copy = LET m == Select(mine, Len(s))
                          IN [k \in DOMAIN m |-> <<s[m[k]][1], s[m[k]][2], s[m[k]][3]>>]
  PROVE  Meant(copy, x, p) = Distinct(Column(s, Matching(s, mine, x, p), 3))
<1> DEFINE n == Len(s)
           U == {i \in 1..n : s[i][1] = x /\ s[i][2] = p}
           b == Select(mine, n)
           h == Select({k \in DOMAIN b : b[k] \in U}, Len(b))
           both == Select(Matching(s, mine, x, p), n)
<1>1. n \in Nat
  OBVIOUS
<1>3. Matching(s, mine, x, p) = mine \cap U
  BY DEF Matching
<1>4. b \in Seq(Nat) /\ \A k \in DOMAIN b : b[k] \in 1..n
  <2>1. b \in Seq(Nat)
    BY <1>1, SelectSteps
  <2>2. \A k \in 1..Len(b) : b[k] \in 1..n
    BY <1>1, SelectOnly
  <2> QED
    BY <2>1, <2>2
<1>2. copy = [k \in DOMAIN b |-> <<s[b[k]][1], s[b[k]][2], s[b[k]][3]>>]
  OBVIOUS
<1> HIDE DEF U, n, b
<1>5. DOMAIN both = DOMAIN h /\ \A k \in DOMAIN h : both[k] = b[h[k]]
  <2> DEFINE V == {k \in DOMAIN b : b[k] \in U} W == Matching(s, mine, x, p)
  <2>1. \A k \in 1..Len(b) : k \in V <=> b[k] \in W
    <3>1. \A k \in 1..Len(b) : k \in DOMAIN b /\ b[k] \in mine
      BY <1>1, <1>4, SelectOnly DEF b
    <3> QED
      BY <1>3, <3>1
  <2>2. W \subseteq mine
    BY <1>3
  <2>3. h = Select(V, Len(b)) /\ both = Select(W, n) /\ b = Select(mine, n)
    BY DEF b
  <2> HIDE DEF h, V, W, both
  <2>4. Len(h) = Len(both) /\ \A k \in 1..Len(both) : both[k] = b[h[k]]
    <3>1. SelectsAgain(V, W, mine, n)
      <4>1. PlacesOf(V, W, mine, n)
        BY <2>1, <2>2, <2>3 DEF PlacesOf
      <4> QED
        BY <1>1, <4>1, SelectAgain
    <3> QED
      BY <2>3, <3>1 DEF SelectsAgain
  <2>5. h \in Seq(Nat) /\ both \in Seq(Nat)
    <3>1. Len(b) \in Nat
      BY <1>4
    <3> QED
      BY <1>1, <2>3, <3>1, SelectSteps
  <2>6. DOMAIN h = 1..Len(h) /\ DOMAIN both = 1..Len(both)
    BY <2>5
  <2> QED
    BY <2>4, <2>6
<1>6. /\ DOMAIN copy = DOMAIN b /\ Len(copy) = Len(b)
      /\ \A k \in DOMAIN b : copy[k][1] = s[b[k]][1] /\ copy[k][2] = s[b[k]][2] /\ copy[k][3] = s[b[k]][3]
  <2>1. DOMAIN b = 1..Len(b) /\ Len(b) \in Nat
    BY <1>4
  <2>2. DOMAIN copy = 1..Len(b)
    BY <1>2, <2>1
  <2>3. Len(copy) = Len(b)
    BY <1>2, <2>1
  <2> QED
    BY <1>2, <2>1, <2>2, <2>3
<1>7. {k \in DOMAIN copy : copy[k][1] = x /\ copy[k][2] = p} = {k \in DOMAIN b : b[k] \in U}
  BY <1>4, <1>6 DEF U
<1>8. Select({k \in DOMAIN copy : copy[k][1] = x /\ copy[k][2] = p}, Len(copy)) = h
  BY <1>6, <1>7
<1>9. Meant(copy, x, p) = Distinct([k \in DOMAIN h |-> copy[h[k]][3]])
  <2> DEFINE hits == Select({k \in DOMAIN copy : copy[k][1] = x /\ copy[k][2] = p}, Len(copy))
  <2>1. Meant(copy, x, p) = Distinct([k \in DOMAIN hits |-> copy[hits[k]][3]])
    BY DEF Meant
  <2>2. hits = h
    BY <1>8
  <2> HIDE DEF hits, h
  <2> QED
    BY <2>1, <2>2
<1>10. \A k \in DOMAIN h : h[k] \in DOMAIN b
  <2>1. b \in Seq(Nat) /\ Len(b) \in Nat
    BY <1>4
  <2>2. h \in Seq(Nat) /\ \A k \in 1..Len(h) : h[k] \in {k1 \in DOMAIN b : b[k1] \in U}
    BY <2>1, SelectSteps, SelectOnly
  <2> HIDE DEF h
  <2> QED
    BY <2>2
<1>11. DOMAIN both = DOMAIN h /\ \A k \in DOMAIN h : both[k] = b[h[k]]
  BY <1>5
<1>12. \A k \in DOMAIN h : copy[h[k]][3] = s[both[k]][3]
  <2> HIDE DEF h, both
  <2> QED
    BY <1>6, <1>10, <1>11
<1>13. Column(s, Matching(s, mine, x, p), 3) = [k \in DOMAIN both |-> s[both[k]][3]]
  BY DEF Column, n
<1> HIDE DEF both, h
<1>14. [k \in DOMAIN h |-> copy[h[k]][3]] = [k \in DOMAIN both |-> s[both[k]][3]]
  BY <1>11, <1>12
<1> QED
  BY <1>9, <1>13, <1>14

\* What the answer for one subject and predicate is, and its first.
LEMMA AnswersAreMeant ==
  ASSUME NEW A, NEW s \in Seq(A), NEW T \in SUBSET (1..Len(s)), NEW all, all = Column(s, T, 3),
         NEW meant, meant = Distinct(all)
  PROVE  /\ ObjectSet(all) = meant
         /\ (IF all = <<>> THEN <<>> ELSE <<Head(all)>>) = (IF meant = <<>> THEN <<>> ELSE <<Head(meant)>>)
         /\ Elements(meant) = Entries(s, T, 3)
<1> DEFINE C == Entries(s, T, 3)
<1>0. Elements(Column(s, T, 3)) = C /\ Column(s, T, 3) \in Seq(C)
  BY ColumnElements
<1> HIDE DEF C
<1>1. all \in Seq(C) /\ Elements(all) = C
  BY <1>0
<1> HIDE DEF C
<1>2. ObjectSet(all) = Distinct(all)
  BY <1>1, ObjectSetIsDistinct
<1>3. /\ Elements(meant) = Elements(all)
      /\ all # <<>> => meant # <<>> /\ Head(meant) = Head(all)
      /\ all = <<>> => meant = <<>>
  BY <1>1, DistinctElements
<1> QED
  BY <1>1, <1>2, <1>3 DEF C

-----------------------------------------------------------------------------
\* Types.

\* An index of well-typed statements.
LEMMA IndexType ==
  ASSUME NEW A, NEW s \in Seq(A), NEW mine \in SUBSET (1..Len(s)), \A i \in mine : s[i][1] \in Subjects
  PROVE  IsIndex(IndexOf(s, mine))
<1>1. Len(s) \in Nat
  OBVIOUS
<1>2. \A x : Select({i \in mine : s[i][1] = x}, Len(s)) \in Seq(Nat)
  BY <1>1, SelectSteps
<1>3. DOMAIN IndexOf(s, mine) = {s[i][1] : i \in mine}
  BY DEF IndexOf
<1>4. \A x \in DOMAIN IndexOf(s, mine) : IndexOf(s, mine)[x] = Select({i \in mine : s[i][1] = x}, Len(s))
  BY DEF IndexOf
<1> QED
  BY <1>2, <1>3, <1>4 DEF IsIndex

\* A quad and a triple have what their spaces say.
LEMMA StatementTypes ==
  /\ \A q \in QuadSpace : q[1] \in Subjects /\ q[2] \in Predicates /\ q[3] \in Objs /\ q[4] \in GraphTerms
  /\ \A t \in TripleSpace : t[1] \in Subjects /\ t[2] \in Predicates /\ t[3] \in Objs
BY DEF QuadSpace, TripleSpace

\* The statements of a graph are among the quads, and finitely many.
LEMMA InGraphPart ==
  ASSUME NEW A, NEW quads \in Seq(A), NEW g
  PROVE  /\ InGraph(quads, g) \in SUBSET (1..Len(quads))
         /\ IsFiniteSet(InGraph(quads, g)) /\ Cardinality(InGraph(quads, g)) \in Nat
<1>1. Len(quads) \in Nat /\ DOMAIN quads = 1..Len(quads)
  OBVIOUS
<1>2. InGraph(quads, g) \in SUBSET (1..Len(quads))
  BY <1>1 DEF InGraph
<1>3. IsFiniteSet(1..Len(quads))
  BY <1>1, FS_Interval
<1>4. IsFiniteSet(InGraph(quads, g))
  BY <1>2, <1>3, FS_Subset
<1> QED
  BY <1>2, <1>4, FS_CardinalityType

\* The counts name each graph term in use, with the number of its quads.
LEMMA CountsMean ==
  ASSUME NEW quads \in Seq(QuadSpace)
  PROVE  /\ CountsOf(quads) \in Seq([g : GraphTerms, n : Nat])
         /\ \A k \in DOMAIN CountsOf(quads) :
              CountsOf(quads)[k].n = Cardinality(InGraph(quads, CountsOf(quads)[k].g))
         /\ \A g : (\E k \in DOMAIN CountsOf(quads) : CountsOf(quads)[k].g = g) <=> InGraph(quads, g) # {}
<1> DEFINE col == [i \in DOMAIN quads |-> quads[i][4]] terms == Distinct(col) c == CountsOf(quads)
<1>1. Len(quads) \in Nat /\ DOMAIN quads = 1..Len(quads) /\ \A i \in DOMAIN quads : quads[i][4] \in GraphTerms
  BY StatementTypes
<1>2. col \in Seq(GraphTerms) /\ DOMAIN col = DOMAIN quads /\ \A i \in DOMAIN quads : col[i] = quads[i][4]
  BY <1>1
<1> HIDE DEF col
<1>3. terms \in Seq(GraphTerms) /\ Elements(terms) = Elements(col)
  BY <1>2, DistinctElements
<1>4. c = [k \in DOMAIN terms |-> [g |-> terms[k], n |-> Cardinality(InGraph(quads, terms[k]))]]
  BY DEF CountsOf, col
<1> HIDE DEF terms, c
<1>5. \A g : Cardinality(InGraph(quads, g)) \in Nat
  BY InGraphPart
<1>6. DOMAIN terms = 1..Len(terms) /\ Len(terms) \in Nat /\ \A k \in DOMAIN terms : terms[k] \in GraphTerms
  BY <1>3
<1>7. \A k \in DOMAIN terms : c[k] = [g |-> terms[k], n |-> Cardinality(InGraph(quads, terms[k]))]
  BY <1>4
<1>8. DOMAIN c = DOMAIN terms
  BY <1>4
<1>9. c \in Seq([g : GraphTerms, n : Nat])
  <2>1. \A k \in 1..Len(terms) : [g |-> terms[k], n |-> Cardinality(InGraph(quads, terms[k]))] \in [g : GraphTerms, n : Nat]
    BY <1>5, <1>6
  <2>2. c = [k \in 1..Len(terms) |-> [g |-> terms[k], n |-> Cardinality(InGraph(quads, terms[k]))]]
    BY <1>4, <1>6
  <2> QED
    BY <1>6, <2>1, <2>2
<1>10. \A k \in DOMAIN c : c[k].g = terms[k] /\ c[k].n = Cardinality(InGraph(quads, c[k].g))
  BY <1>7, <1>8
<1>11. \A g : (\E k \in DOMAIN c : c[k].g = g) <=> g \in Elements(terms)
  BY <1>8, <1>10 DEF Elements
<1>12. \A g : g \in Elements(col) <=> InGraph(quads, g) # {}
  BY <1>2 DEF Elements, InGraph
<1> QED
  BY <1>3, <1>9, <1>10, <1>11, <1>12 DEF c


-----------------------------------------------------------------------------
\* The invariant.

\* The triples the index was built from, when there is one.
Known == SubSeq(graph.Triples, 1, Len(graph.Triples) - direct)

\* A cache that is as long as its statements was built from them.
CountsFresh ==
  dataset.counts # <<>> /\ dataset.countsGen = Len(dataset.Quads) => dataset.counts = CountsOf(dataset.Quads)
ViewFresh(g) ==
  views[g].spoOK /\ views[g].gen = Len(dataset.Quads) =>
    views[g].spo = IndexOf(dataset.Quads, InGraph(dataset.Quads, g))
GraphFresh == IF graph.indexed THEN graph.spo = IndexOf(Known, DOMAIN Known) ELSE direct = 0

Fresh == CountsFresh /\ (\A g \in GraphTerms : ViewFresh(g)) /\ GraphFresh

\* The parts of the type invariant, one per container.
DatasetTyped ==
  /\ dataset \in [Quads : Seq(QuadSpace), counts : Seq([g : GraphTerms, n : Nat]), countsGen : Nat]
  /\ dataset.countsGen <= Len(dataset.Quads)
ViewTyped(g) ==
  /\ IsIndex(views[g].spo) /\ views[g].spoOK \in BOOLEAN
  /\ views[g].gen \in 0..Len(dataset.Quads)
ViewsTyped == DOMAIN views = GraphTerms /\ \A g \in GraphTerms : ViewTyped(g)
GraphTyped ==
  /\ DOMAIN graph = {"Triples", "spo", "indexed"}
  /\ graph.Triples \in Seq(TripleSpace) /\ IsIndex(graph.spo) /\ graph.indexed \in BOOLEAN
  /\ direct \in 0..Len(graph.Triples)

\* Together they are all of it.
LEMMA TypeParts == StoreTypeOK <=> DatasetTyped /\ ViewsTyped /\ GraphTyped
BY DEF StoreTypeOK, DatasetTyped, ViewsTyped, ViewTyped, GraphTyped

DatasetInv == DatasetTyped /\ CountsFresh
ViewsInv == ViewsTyped /\ \A g \in GraphTerms : ViewFresh(g)
GraphInv == GraphTyped /\ GraphFresh
StoreInv == DatasetInv /\ ViewsInv /\ GraphInv

\* Nothing is held and nothing cached.
LEMMA InitInv == StoreInit => StoreInv
<1> SUFFICES ASSUME StoreInit PROVE StoreInv
  OBVIOUS
<1>1. IsIndex(NoIndex)
  BY DEF IsIndex, NoIndex
<1>2. DatasetInv
  <2>1. /\ dataset.Quads = <<>> /\ dataset.counts = <<>> /\ dataset.countsGen = 0
        /\ dataset = [Quads |-> <<>>, counts |-> <<>>, countsGen |-> 0]
    BY DEF StoreInit
  <2>2. <<>> \in Seq(QuadSpace) /\ <<>> \in Seq([g : GraphTerms, n : Nat]) /\ Len(<<>>) = 0
    OBVIOUS
  <2> QED
    BY <2>1, <2>2 DEF DatasetInv, DatasetTyped, CountsFresh
<1>3. ViewsInv
  <2>1. DOMAIN views = GraphTerms /\ Len(dataset.Quads) = 0
    BY DEF StoreInit
  <2>2. \A g \in GraphTerms : views[g].spo = NoIndex /\ views[g].gen = 0 /\ views[g].spoOK = FALSE
    BY DEF StoreInit
  <2>3. \A g \in GraphTerms : ViewTyped(g) /\ ViewFresh(g)
    <3>1. 0 \in 0..0 /\ FALSE \in BOOLEAN
      OBVIOUS
    <3>2. SUFFICES ASSUME NEW g \in GraphTerms PROVE ViewTyped(g) /\ ViewFresh(g)
      OBVIOUS
    <3>3. ViewTyped(g)
      BY <1>1, <2>1, <2>2, <3>1 DEF ViewTyped
    <3>4. ViewFresh(g)
      BY <2>2 DEF ViewFresh
    <3> QED
      BY <3>3, <3>4
  <2> QED
    BY <2>1, <2>3 DEF ViewsInv, ViewsTyped
<1>4. GraphInv
  BY <1>1 DEF StoreInit, GraphInv, GraphTyped, GraphFresh
<1> QED
  BY <1>2, <1>3, <1>4 DEF StoreInv

\* A quad more makes every cache of the dataset older than it.
LEMMA AddQuadInv == StoreInv /\ AddQuad => StoreInv'
<1> SUFFICES ASSUME StoreInv, AddQuad PROVE StoreInv'
  OBVIOUS
<1>1. PICK q \in QuadSpace : dataset' = [dataset EXCEPT !.Quads = Append(@, q)]
  BY DEF AddQuad
<1>2. /\ dataset.Quads \in Seq(QuadSpace) /\ dataset.counts \in Seq([g : GraphTerms, n : Nat])
      /\ dataset.countsGen \in Nat /\ dataset.countsGen <= Len(dataset.Quads) /\ Len(dataset.Quads) \in Nat
  BY DEF StoreInv, DatasetInv, DatasetTyped
<1>3. dataset' = [Quads |-> Append(dataset.Quads, q), counts |-> dataset.counts, countsGen |-> dataset.countsGen]
  BY <1>1 DEF StoreInv, DatasetInv, DatasetTyped
<1>4. /\ dataset'.Quads = Append(dataset.Quads, q) /\ dataset'.counts = dataset.counts
      /\ dataset'.countsGen = dataset.countsGen
  BY <1>3
<1>5. Append(dataset.Quads, q) \in Seq(QuadSpace) /\ Len(dataset'.Quads) = Len(dataset.Quads) + 1
  BY <1>2, <1>4
<1>6. DatasetInv'
  <2>1. dataset'.countsGen <= Len(dataset'.Quads) /\ dataset'.countsGen # Len(dataset'.Quads)
    BY <1>2, <1>4, <1>5
  <2> QED
    BY <1>2, <1>3, <1>5, <2>1 DEF DatasetInv, DatasetTyped, CountsFresh
<1>7. ViewsInv'
  <2>1. views' = views /\ DOMAIN views = GraphTerms
    BY DEF AddQuad, StoreInv, ViewsInv, ViewsTyped
  <2>2. ASSUME NEW g \in GraphTerms PROVE ViewTyped(g)' /\ ViewFresh(g)'
    <3>1. /\ IsIndex(views[g].spo) /\ views[g].spoOK \in BOOLEAN
          /\ views[g].gen \in 0..Len(dataset.Quads)
      BY DEF StoreInv, ViewsInv, ViewsTyped, ViewTyped
    <3>2. views[g].gen \in 0..Len(dataset'.Quads) /\ views[g].gen # Len(dataset'.Quads)
      BY <1>2, <1>5, <3>1
    <3> QED
      BY <2>1, <3>1, <3>2 DEF ViewTyped, ViewFresh, IsIndex
  <2> QED
    BY <2>1, <2>2 DEF ViewsInv, ViewsTyped
<1>8. GraphInv'
  BY DEF AddQuad, StoreInv, GraphInv, GraphTyped, GraphFresh, Known, IsIndex
<1> QED
  BY <1>6, <1>7, <1>8 DEF StoreInv

\* What Counted answers from is what the quads come to.
LEMMA CountedMeans ==
  ASSUME DatasetInv
  PROVE  Counted(dataset).counts = CountsOf(dataset.Quads)
<1>1. CASE dataset.counts # <<>> /\ dataset.countsGen = Len(dataset.Quads)
  BY <1>1 DEF Counted, DatasetInv, CountsFresh
<1>2. CASE ~ (dataset.counts # <<>> /\ dataset.countsGen = Len(dataset.Quads))
  <2>1. Counted(dataset) = [dataset EXCEPT !.counts = CountsOf(dataset.Quads), !.countsGen = Len(dataset.Quads)]
    BY <1>2 DEF Counted
  <2>2. dataset = [Quads |-> dataset.Quads, counts |-> dataset.counts, countsGen |-> dataset.countsGen]
    BY DEF DatasetInv, DatasetTyped
  <2> QED
    BY <2>1, <2>2
<1> QED
  BY <1>1, <1>2

\* Counting leaves the counts of the quads as they are.
LEMMA CountInv == StoreInv /\ Count => StoreInv'
<1> SUFFICES ASSUME StoreInv, Count PROVE StoreInv'
  OBVIOUS
<1>1. dataset' = Counted(dataset) /\ DatasetInv
  BY DEF Count, StoreInv
<1>2. dataset.Quads \in Seq(QuadSpace) /\ Len(dataset.Quads) \in Nat
  BY <1>1 DEF DatasetInv, DatasetTyped
<1>3. DatasetInv' /\ dataset'.Quads = dataset.Quads
  <2>1. CASE dataset.counts # <<>> /\ dataset.countsGen = Len(dataset.Quads)
    <3>1. dataset' = dataset
      BY <1>1, <2>1 DEF Counted
    <3> QED
      BY <1>1, <3>1 DEF DatasetInv, DatasetTyped, CountsFresh
  <2>2. CASE ~ (dataset.counts # <<>> /\ dataset.countsGen = Len(dataset.Quads))
    <3>1. dataset' = [dataset EXCEPT !.counts = CountsOf(dataset.Quads), !.countsGen = Len(dataset.Quads)]
      BY <1>1, <2>2 DEF Counted
    <3>2. dataset' = [Quads |-> dataset.Quads, counts |-> CountsOf(dataset.Quads), countsGen |-> Len(dataset.Quads)]
      BY <1>1, <3>1 DEF DatasetInv, DatasetTyped
    <3>3. CountsOf(dataset.Quads) \in Seq([g : GraphTerms, n : Nat])
      BY <1>2, CountsMean
    <3>4. /\ dataset'.Quads = dataset.Quads /\ dataset'.counts = CountsOf(dataset.Quads)
          /\ dataset'.countsGen = Len(dataset.Quads)
      BY <3>2
    <3>5. CountsFresh'
      BY <3>4 DEF CountsFresh
    <3>6. DatasetTyped'
      BY <1>2, <3>2, <3>3, <3>4 DEF DatasetTyped
    <3> QED
      BY <3>4, <3>5, <3>6 DEF DatasetInv
  <2> QED
    BY <2>1, <2>2
<1>4. ViewsInv'
  <2>1. views' = views
    BY DEF Count
  <2> QED
    BY <1>3, <2>1 DEF StoreInv, ViewsInv, ViewsTyped, ViewTyped, ViewFresh, IsIndex
<1>5. GraphInv'
  BY DEF Count, StoreInv, GraphInv, GraphTyped, GraphFresh, Known, IsIndex
<1> QED
  BY <1>3, <1>4, <1>5 DEF StoreInv

\* What a view answers from is the index of the quads of its graph.
LEMMA IndexedMeans ==
  ASSUME DatasetInv, ViewsInv, NEW g \in GraphTerms
  PROVE  /\ Indexed(views[g], dataset, g).spo = IndexOf(dataset.Quads, InGraph(dataset.Quads, g))
         /\ Indexed(views[g], dataset, g).gen = Len(dataset.Quads)
         /\ Indexed(views[g], dataset, g).spoOK = TRUE
<1>1. CASE views[g].spoOK /\ views[g].gen = Len(dataset.Quads)
  BY <1>1 DEF Indexed, ViewsInv, ViewsTyped, ViewTyped, ViewFresh
<1>2. CASE ~ (views[g].spoOK /\ views[g].gen = Len(dataset.Quads))
  BY <1>2 DEF Indexed
<1> QED
  BY <1>1, <1>2

\* A query leaves the view with the index it answered from.
LEMMA QueryViewInv == StoreInv /\ QueryView => StoreInv'
<1> SUFFICES ASSUME StoreInv, QueryView PROVE StoreInv'
  OBVIOUS
<1>1. PICK g \in GraphTerms : views' = [views EXCEPT ![g] = Indexed(@, dataset, g)]
  BY DEF QueryView
<1>2. dataset' = dataset /\ graph' = graph /\ direct' = direct /\ DatasetInv /\ ViewsInv
  BY DEF QueryView, StoreInv
<1>3. dataset.Quads \in Seq(QuadSpace) /\ Len(dataset.Quads) \in Nat /\ DOMAIN views = GraphTerms
  BY <1>2 DEF DatasetInv, DatasetTyped, ViewsInv, ViewsTyped
<1>4. DatasetInv'
  BY <1>2 DEF DatasetInv, DatasetTyped, CountsFresh
<1>5. ViewsInv'
  <2>1. DOMAIN views' = GraphTerms
    BY <1>1, <1>3
  <2>2. ASSUME NEW h \in GraphTerms PROVE ViewTyped(h)' /\ ViewFresh(h)'
    <3>1. CASE h = g
      <4>1. views'[h] = Indexed(views[h], dataset, h)
        BY <1>1, <1>3, <3>1
      <4>2. /\ views'[h].spo = IndexOf(dataset.Quads, InGraph(dataset.Quads, h))
            /\ views'[h].gen = Len(dataset.Quads) /\ views'[h].spoOK = TRUE
        BY <1>2, <4>1, IndexedMeans
      <4>3. IsIndex(IndexOf(dataset.Quads, InGraph(dataset.Quads, h)))
        <5>1. InGraph(dataset.Quads, h) \in SUBSET (1..Len(dataset.Quads))
          BY <1>3, InGraphPart
        <5>2. \A i \in 1..Len(dataset.Quads) : dataset.Quads[i][1] \in Subjects
          BY <1>3, StatementTypes
        <5> QED
          BY <1>3, <5>1, <5>2, IndexType
      <4>4. Len(dataset.Quads) \in 0..Len(dataset.Quads)
        BY <1>3
      <4> QED
        BY <1>2, <4>2, <4>3, <4>4 DEF ViewTyped, ViewFresh, IsIndex
    <3>2. CASE h # g
      <4>1. views'[h] = views[h]
        BY <1>1, <1>3, <3>2
      <4> QED
        BY <1>2, <4>1 DEF ViewsInv, ViewsTyped, ViewTyped, ViewFresh, IsIndex
    <3> QED
      BY <3>1, <3>2
  <2> QED
    BY <2>1, <2>2 DEF ViewsInv, ViewsTyped
<1>6. GraphInv'
  BY <1>2 DEF StoreInv, GraphInv, GraphTyped, GraphFresh, Known, IsIndex
<1> QED
  BY <1>4, <1>5, <1>6 DEF StoreInv


\* A graph that was given new triples has forgotten its index.
Forgotten(triples) == [Triples |-> triples, spo |-> NoIndex, indexed |-> FALSE]

\* Forgetting the index leaves nothing to be stale.
LEMMA ForgottenInv ==
  ASSUME NEW triples \in Seq(TripleSpace), graph' = Forgotten(triples), direct' = 0
  PROVE  GraphInv'
<1>1. graph'.Triples = triples /\ graph'.spo = NoIndex /\ graph'.indexed = FALSE
  BY DEF Forgotten
<1>2. DOMAIN graph' = {"Triples", "spo", "indexed"}
  BY DEF Forgotten
<1>3. IsIndex(NoIndex)
  BY DEF IsIndex, NoIndex
<1>4. Len(triples) \in Nat /\ 0 \in 0..Len(triples)
  OBVIOUS
<1> QED
  BY <1>1, <1>2, <1>3, <1>4 DEF GraphInv, GraphTyped, GraphFresh, IsIndex

\* The dataset and its views are not touched by what a Graph does.
LEMMA DatasetStays == StoreInv /\ UNCHANGED <<dataset, views>> => DatasetInv' /\ ViewsInv'
BY DEF StoreInv, DatasetInv, DatasetTyped, CountsFresh, ViewsInv, ViewsTyped, ViewTyped, ViewFresh, IsIndex

\* Add forgets the index.
LEMMA AddTripleInv == StoreInv /\ AddTriple => StoreInv'
<1> SUFFICES ASSUME StoreInv, AddTriple PROVE StoreInv'
  OBVIOUS
<1>1. PICK t \in TripleSpace : graph' = Forgotten(Append(graph.Triples, t))
  BY DEF AddTriple, Forgotten
<1>2. Append(graph.Triples, t) \in Seq(TripleSpace)
  BY DEF StoreInv, GraphInv, GraphTyped
<1>3. GraphInv'
  BY <1>1, <1>2, ForgottenInv DEF AddTriple
<1> QED
  BY <1>3, DatasetStays DEF AddTriple, StoreInv

\* The triples known to an index are the first of the graph's.
LEMMA KnownIsPrefix ==
  ASSUME GraphTyped
  PROVE  /\ Known \in Seq(TripleSpace) /\ Len(Known) = Len(graph.Triples) - direct
         /\ Len(Known) \in Nat /\ Len(Known) <= Len(graph.Triples)
         /\ \A i \in 1..Len(Known) : graph.Triples[i] = Known[i]
         /\ direct = 0 => Known = graph.Triples
<1> DEFINE s == graph.Triples n == Len(s) m == n - direct
<1>1. s \in Seq(TripleSpace) /\ n \in Nat /\ direct \in 0..n
  BY DEF GraphTyped
<1>2. m \in 0..n
  BY <1>1
<1> HIDE DEF s
<1>3. Known = SubSeq(s, 1, m)
  BY DEF Known, s
<1> HIDE DEF m
<1>4. /\ SubSeq(s, 1, m) \in Seq(TripleSpace) /\ Len(SubSeq(s, 1, m)) = m
      /\ \A i \in 1..m : SubSeq(s, 1, m)[i] = s[i]
  BY <1>1, <1>2
<1>5. ASSUME direct = 0 PROVE Known = s
  <2>1. m = n
    BY <1>1, <1>5 DEF m
  <2> QED
    BY <1>1, <1>3, <2>1
<1> QED
  BY <1>1, <1>2, <1>3, <1>4, <1>5 DEF s, m

\* What is appended behind the graph's back leaves what the index knows as it was.
LEMMA AppendTripleInv == StoreInv /\ AppendTriple => StoreInv'
<1> SUFFICES ASSUME StoreInv, AppendTriple PROVE StoreInv'
  OBVIOUS
<1>1. PICK t \in TripleSpace : graph' = [graph EXCEPT !.Triples = Append(@, t)]
  BY DEF AppendTriple
<1> DEFINE s == graph.Triples s1 == Append(s, t) n == Len(s)
<1>2. /\ s \in Seq(TripleSpace) /\ n \in Nat /\ direct \in 0..n /\ GraphTyped /\ GraphFresh
      /\ IsIndex(graph.spo) /\ graph.indexed \in BOOLEAN
  BY DEF StoreInv, GraphInv, GraphTyped
<1>3. /\ graph'.Triples = s1 /\ graph'.spo = graph.spo /\ graph'.indexed = graph.indexed
      /\ DOMAIN graph' = {"Triples", "spo", "indexed"}
  BY <1>1, <1>2 DEF GraphTyped
<1>4. direct' = IF graph.indexed THEN direct + 1 ELSE 0
  BY DEF AppendTriple
<1> HIDE DEF s
<1>5. s1 \in Seq(TripleSpace) /\ Len(s1) = n + 1
  BY <1>2
<1>6. direct' \in 0..Len(s1)
  <2>1. direct + 1 \in 0..(n + 1) /\ 0 \in 0..(n + 1)
    BY <1>2
  <2> QED
    BY <1>4, <1>5, <2>1
<1>7. GraphTyped'
  BY <1>2, <1>3, <1>5, <1>6 DEF GraphTyped, IsIndex
<1>8. GraphFresh'
  <2>1. CASE graph.indexed
    <3>1. graph.spo = IndexOf(Known, DOMAIN Known)
      BY <1>2, <2>1 DEF GraphFresh
    <3>2. Known' = Known
      <4> DEFINE m == n - direct
      <4>1. Known' = SubSeq(s1, 1, m)
        <5>1. Len(s1) - (direct + 1) = m
          BY <1>2, <1>5
        <5> QED
          BY <1>3, <1>4, <2>1, <5>1 DEF Known
      <4>2. Known = SubSeq(s, 1, m)
        BY DEF Known, s
      <4>3. m \in 0..n
        BY <1>2
      <4> HIDE DEF m
      <4>4. \A i \in 1..m : s1[i] = s[i]
        BY <1>2, <4>3
      <4>5. SubSeq(s1, 1, m) = SubSeq(s, 1, m)
        BY <1>2, <1>5, <4>3, <4>4
      <4> QED
        BY <4>1, <4>2, <4>5
    <3> QED
      BY <1>3, <2>1, <3>1, <3>2 DEF GraphFresh
  <2>2. CASE ~graph.indexed
    BY <1>3, <1>4, <2>2 DEF GraphFresh
  <2> QED
    BY <2>1, <2>2
<1> QED
  BY <1>7, <1>8, DatasetStays DEF AppendTriple, StoreInv, GraphInv

\* What a Graph answers from is the index of the triples known to it.
LEMMA GraphIndexedMeans ==
  ASSUME GraphInv
  PROVE  GraphIndexed(graph).spo = IndexOf(Known, DOMAIN Known) /\ GraphIndexed(graph).Triples = graph.Triples
<1>1. CASE graph.indexed
  BY <1>1 DEF GraphIndexed, GraphInv, GraphFresh
<1>2. CASE ~graph.indexed
  <2>1. GraphIndexed(graph) = [graph EXCEPT !.spo = IndexOf(graph.Triples, DOMAIN graph.Triples), !.indexed = TRUE]
    BY <1>2 DEF GraphIndexed
  <2>2. Known = graph.Triples
    BY <1>2, KnownIsPrefix DEF GraphInv, GraphFresh
  <2>3. DOMAIN graph = {"Triples", "spo", "indexed"}
    BY DEF GraphInv, GraphTyped
  <2> QED
    BY <2>1, <2>2, <2>3
<1> QED
  BY <1>1, <1>2

\* A query leaves the graph with the index it answered from.
LEMMA QueryGraphInv == StoreInv /\ QueryGraph => StoreInv'
<1> SUFFICES ASSUME StoreInv, QueryGraph PROVE StoreInv'
  OBVIOUS
<1>1. graph' = GraphIndexed(graph) /\ direct' = direct /\ GraphInv /\ GraphTyped
  BY DEF QueryGraph, StoreInv, GraphInv
<1>2. GraphInv'
  <2>1. CASE graph.indexed
    <3>1. graph' = graph
      BY <1>1, <2>1 DEF GraphIndexed
    <3> QED
      BY <1>1, <3>1 DEF GraphInv, GraphTyped, GraphFresh, Known, IsIndex
  <2>2. CASE ~graph.indexed
    <3>1. graph' = [graph EXCEPT !.spo = IndexOf(graph.Triples, DOMAIN graph.Triples), !.indexed = TRUE]
      BY <1>1, <2>2 DEF GraphIndexed
    <3>2. DOMAIN graph = {"Triples", "spo", "indexed"} /\ graph.Triples \in Seq(TripleSpace)
      BY <1>1 DEF GraphTyped
    <3>3. /\ graph'.Triples = graph.Triples /\ graph'.spo = IndexOf(graph.Triples, DOMAIN graph.Triples)
          /\ graph'.indexed = TRUE /\ DOMAIN graph' = {"Triples", "spo", "indexed"}
      BY <3>1, <3>2
    <3>4. Known' = Known /\ Known = graph.Triples
      <4>1. Known = graph.Triples
        BY <1>1, <2>2, KnownIsPrefix DEF GraphInv, GraphFresh
      <4> QED
        BY <1>1, <3>3, <4>1 DEF Known
    <3>5. IsIndex(graph'.spo)
      <4>1. DOMAIN graph.Triples = 1..Len(graph.Triples)
        BY <3>2
      <4>2. \A i \in 1..Len(graph.Triples) : graph.Triples[i][1] \in Subjects
        BY <3>2, StatementTypes
      <4>3. IsIndex(IndexOf(graph.Triples, 1..Len(graph.Triples)))
        BY <3>2, <4>2, IndexType
      <4> QED
        BY <3>3, <4>1, <4>3
    <3>6. GraphTyped'
      BY <1>1, <3>2, <3>3, <3>5 DEF GraphTyped, IsIndex
    <3> QED
      BY <3>3, <3>4, <3>6 DEF GraphInv, GraphFresh
  <2> QED
    BY <1>1, <2>1, <2>2 DEF GraphTyped
<1> QED
  BY <1>2, DatasetStays DEF QueryGraph, StoreInv

\* A Dedupe that takes something out forgets the index, another changes nothing.
LEMMA DedupeInv == StoreInv /\ Dedupe => StoreInv'
<1> SUFFICES ASSUME StoreInv, Dedupe PROVE StoreInv'
  OBVIOUS
<1>1. GraphInv /\ graph.Triples \in Seq(TripleSpace)
  BY DEF StoreInv, GraphInv, GraphTyped
<1>2. Distinct(graph.Triples) \in Seq(TripleSpace)
  BY <1>1, DistinctElements
<1>3. CASE Len(Distinct(graph.Triples)) < Len(graph.Triples)
  <2>1. graph' = Forgotten(Distinct(graph.Triples)) /\ direct' = 0
    BY <1>3 DEF Dedupe, Forgotten
  <2>2. GraphInv'
    BY <1>2, <2>1, ForgottenInv
  <2> QED
    BY <2>2, DatasetStays DEF Dedupe, StoreInv
<1>4. CASE ~ (Len(Distinct(graph.Triples)) < Len(graph.Triples))
  <2>1. graph' = graph /\ direct' = direct
    BY <1>4 DEF Dedupe
  <2>2. GraphInv'
    BY <1>1, <2>1 DEF GraphInv, GraphTyped, GraphFresh, Known, IsIndex
  <2> QED
    BY <2>2, DatasetStays DEF Dedupe, StoreInv
<1> QED
  BY <1>3, <1>4

\* Every step keeps the invariant.
LEMMA StoreStepInv == StoreInv /\ [StoreNext]_storeVars => StoreInv'
<1> SUFFICES ASSUME StoreInv, [StoreNext]_storeVars PROVE StoreInv'
  OBVIOUS
<1>1. CASE UNCHANGED storeVars
  <2>1. graph' = graph /\ direct' = direct /\ UNCHANGED <<dataset, views>>
    BY <1>1 DEF storeVars
  <2>2. GraphInv'
    BY <2>1 DEF StoreInv, GraphInv, GraphTyped, GraphFresh, Known, IsIndex
  <2> QED
    BY <2>1, <2>2, DatasetStays DEF StoreInv
<1> QED
  BY <1>1, AddQuadInv, CountInv, QueryViewInv, AddTripleInv, AppendTripleInv, QueryGraphInv, DedupeInv
     DEF StoreNext

-----------------------------------------------------------------------------
\* What the queries answer.

\* A view answers from the quads of its graph, whenever it was indexed.
LEMMA ViewAnswers ==
  ASSUME DatasetInv, ViewsInv, NEW g \in GraphTerms, NEW s, NEW p
  PROVE  /\ ViewObjects(views[g], dataset, g, s, p) = Meant(TriplesOf(dataset, g), s, p)
         /\ ViewObject(views[g], dataset, g, s, p) = MeantFirst(TriplesOf(dataset, g), s, p)
         /\ Elements(ViewObjects(views[g], dataset, g, s, p)) =
              Entries(dataset.Quads, Matching(dataset.Quads, InGraph(dataset.Quads, g), s, p), 3)
<1> DEFINE quads == dataset.Quads mine == InGraph(quads, g) T == Matching(quads, mine, s, p)
           all == Column(quads, T, 3) meant == Meant(TriplesOf(dataset, g), s, p)
           copy == TriplesOf(dataset, g) bucket == Bucket(Indexed(views[g], dataset, g).spo, s)
<1>1. quads \in Seq(QuadSpace)
  BY DEF DatasetInv, DatasetTyped
<1>2. mine \in SUBSET (1..Len(quads))
  BY <1>1, InGraphPart
<1>3. T \in SUBSET (1..Len(quads))
  BY <1>2 DEF Matching
<1>4. bucket = Bucket(IndexOf(quads, mine), s)
  BY IndexedMeans
<1>5. copy = LET m == Select(mine, Len(quads)) IN [k \in DOMAIN m |-> <<quads[m[k]][1], quads[m[k]][2], quads[m[k]][3]>>]
  BY DEF TriplesOf
<1>6. ViewObjects(views[g], dataset, g, s, p) = ObjectSet(ObjectsWithRepeats(quads, bucket, p))
  BY DEF ViewObjects, ObjectsAt
<1>7. ViewObject(views[g], dataset, g, s, p) =
        IF ObjectsWithRepeats(quads, bucket, p) = <<>> THEN <<>> ELSE <<Head(ObjectsWithRepeats(quads, bucket, p))>>
  BY DEF ViewObject, FirstOf
<1>8. MeantFirst(copy, s, p) = IF meant = <<>> THEN <<>> ELSE <<Head(meant)>>
  BY DEF MeantFirst
<1>9. meant = Distinct(Column(quads, Matching(quads, mine, s, p), 3))
  <2> HIDE DEF quads, mine, copy
  <2>1. Meant(copy, s, p) = Distinct(Column(quads, Matching(quads, mine, s, p), 3))
    BY <1>1, <1>2, <1>5, CopyMeans
  <2> QED
    BY <2>1 DEF copy
<1> HIDE DEF quads, mine, bucket, meant
<1>10. ObjectsWithRepeats(quads, bucket, p) = all
  <2>1. Len(quads) <= Len(quads) /\ \A i \in 1..Len(quads) : quads[i] = quads[i]
    BY <1>1
  <2> QED
    BY <1>1, <1>2, <1>4, <2>1, IndexFinds
<1>11. meant = Distinct(all)
  BY <1>9
<1> HIDE DEF T, all
<1>12. /\ ObjectSet(all) = meant
       /\ (IF all = <<>> THEN <<>> ELSE <<Head(all)>>) = (IF meant = <<>> THEN <<>> ELSE <<Head(meant)>>)
       /\ Elements(meant) = Entries(quads, T, 3)
  <2>1. all = Column(quads, T, 3)
    BY DEF all
  <2> QED
    BY <1>1, <1>3, <1>11, <2>1, AnswersAreMeant
<1> QED
  BY <1>6, <1>7, <1>8, <1>10, <1>12 DEF quads, mine, T, meant

\* SubjectsOfType finds by a scan whom Objects answers for.
LEMMA SubjectsAnswer ==
  ASSUME DatasetInv, ViewsInv, NEW g \in GraphTerms, NEW p, NEW o
  PROVE  Elements(ViewSubjectsOfType(dataset, g, p, o)) =
           {s \in Subjects : o \in Elements(ViewObjects(views[g], dataset, g, s, p))}
<1> DEFINE quads == dataset.Quads mine == InGraph(quads, g) T == {i \in mine : quads[i][2] = p /\ quads[i][3] = o}
           found == Column(quads, T, 1) who == ViewSubjectsOfType(dataset, g, p, o)
<1>1. quads \in Seq(QuadSpace) /\ Len(quads) \in Nat /\ \A i \in 1..Len(quads) : quads[i][1] \in Subjects
  BY StatementTypes DEF DatasetInv, DatasetTyped
<1>2. mine \in SUBSET (1..Len(quads)) /\ T \in SUBSET (1..Len(quads))
  BY <1>1, InGraphPart
<1>3. who = Distinct(found)
  BY DEF ViewSubjectsOfType, SubjectsOfType, Column
<1>4. \A s : Elements(ViewObjects(views[g], dataset, g, s, p)) = Entries(quads, Matching(quads, mine, s, p), 3)
  BY ViewAnswers
<1> HIDE DEF quads, mine, who
<1>5. found \in Seq(Entries(quads, T, 1)) /\ Elements(found) = Entries(quads, T, 1)
  <2> HIDE DEF T
  <2> QED
    BY <1>1, <1>2, ColumnElements
<1> HIDE DEF found
<1>6. Elements(who) = Entries(quads, T, 1)
  BY <1>3, <1>5, DistinctElements
<1>7. \A s : o \in Entries(quads, Matching(quads, mine, s, p), 3) <=> \E i \in T : quads[i][1] = s
  BY DEF Entries, Matching
<1>8. \A s : s \in Entries(quads, T, 1) <=> \E i \in T : quads[i][1] = s
  BY DEF Entries
<1>9. \A s : s \in Entries(quads, T, 1) => s \in Subjects
  BY <1>1, <1>2 DEF Entries
<1>10. \A s : s \in Elements(who) <=> s \in Subjects /\ o \in Elements(ViewObjects(views[g], dataset, g, s, p))
  BY <1>4, <1>6, <1>7, <1>8, <1>9
<1> QED
  BY <1>10 DEF who

\* The counts agree with the copies.
LEMMA CountsAnswer ==
  ASSUME DatasetInv, NEW g \in GraphTerms
  PROVE  /\ GraphLen(dataset, g) = Len(TriplesOf(dataset, g))
         /\ g \in Elements(GraphsOf(dataset)) <=> TriplesOf(dataset, g) # <<>>
<1> DEFINE quads == dataset.Quads mine == InGraph(quads, g) c == Counted(dataset).counts
           hit == {k \in DOMAIN c : c[k].g = g} copy == TriplesOf(dataset, g) m == Select(mine, Len(quads))
<1>1. quads \in Seq(QuadSpace) /\ Len(quads) \in Nat
  BY DEF DatasetInv, DatasetTyped
<1>2. mine \in SUBSET (1..Len(quads)) /\ IsFiniteSet(mine) /\ Cardinality(mine) \in Nat
  BY <1>1, InGraphPart
<1>3. c = CountsOf(quads)
  BY CountedMeans
<1>4. /\ \A k \in DOMAIN c : c[k].n = Cardinality(InGraph(quads, c[k].g))
      /\ hit # {} <=> mine # {}
  <2> HIDE DEF quads
  <2>1. \A k \in DOMAIN c : c[k].n = Cardinality(InGraph(quads, c[k].g))
    BY <1>1, <1>3, CountsMean
  <2>2. (\E k \in DOMAIN c : c[k].g = g) <=> InGraph(quads, g) # {}
    BY <1>1, <1>3, CountsMean
  <2> QED
    BY <2>1, <2>2
<1>5. GraphLen(dataset, g) = IF hit = {} THEN 0 ELSE c[CHOOSE k \in hit : TRUE].n
  BY DEF GraphLen
<1>6. copy = [k \in DOMAIN m |-> <<quads[m[k]][1], quads[m[k]][2], quads[m[k]][3]>>]
  BY DEF TriplesOf
<1>7. m \in Seq(Nat) /\ Len(m) = Cardinality(mine)
  <2>1. mine \cap 1..Len(quads) = mine
    BY <1>2
  <2> HIDE DEF quads, mine
  <2> QED
    BY <1>1, <2>1, SelectSteps, SelectCounts
<1>8. Elements(GraphsOf(dataset)) = {c[k].g : k \in DOMAIN c}
  BY DEF GraphsOf, Elements
<1> HIDE DEF quads, mine, c, copy, m
<1>9. Len(copy) = Cardinality(mine) /\ (copy = <<>> <=> Cardinality(mine) = 0)
  <2>1. Len(m) \in Nat /\ DOMAIN m = 1..Len(m)
    BY <1>7
  <2>2. Len(copy) = Len(m)
    BY <1>6, <2>1
  <2>3. copy = <<>> <=> Len(m) = 0
    BY <1>6, <2>1, <2>2
  <2> QED
    BY <1>7, <2>2, <2>3
<1>10. Cardinality(mine) = 0 <=> mine = {}
  BY <1>2, FS_EmptySet
<1>11. GraphLen(dataset, g) = Cardinality(mine)
  <2>1. CASE hit = {}
    BY <1>4, <1>5, <1>10, <2>1
  <2>2. CASE hit # {}
    <3>1. PICK k : k = CHOOSE j \in hit : TRUE
      OBVIOUS
    <3>2. k \in hit
      BY <2>2, <3>1
    <3>3. GraphLen(dataset, g) = c[k].n /\ c[k].g = g /\ k \in DOMAIN c
      BY <1>5, <2>2, <3>1, <3>2
    <3>4. c[k].n = Cardinality(InGraph(quads, g))
      BY <1>4, <3>3
    <3> QED
      BY <3>3, <3>4 DEF mine
  <2> QED
    BY <2>1, <2>2
<1>12. g \in Elements(GraphsOf(dataset)) <=> hit # {}
  BY <1>8
<1> QED
  BY <1>4, <1>9, <1>10, <1>11, <1>12 DEF copy

\* A Graph answers from the triples its index knows, whatever was appended since.
LEMMA GraphAnswers ==
  ASSUME GraphInv, NEW s, NEW p
  PROVE  /\ GraphObjects(graph, s, p) = Meant(Known, s, p)
         /\ GraphObject(graph, s, p) = MeantFirst(Known, s, p)
<1> DEFINE all == graph.Triples known == Known n == Len(known) T == Matching(known, 1..n, s, p)
           found == Column(known, T, 3) meant == Meant(known, s, p) bucket == Bucket(GraphIndexed(graph).spo, s)
<1>1. /\ all \in Seq(TripleSpace) /\ known \in Seq(TripleSpace) /\ n \in Nat /\ n <= Len(all)
      /\ \A i \in 1..n : all[i] = known[i]
  BY KnownIsPrefix DEF GraphInv, GraphTyped
<1>2. DOMAIN known = 1..n
  BY <1>1
<1>3. bucket = Bucket(IndexOf(known, 1..n), s)
  BY <1>2, GraphIndexedMeans
<1>4. GraphObjects(graph, s, p) = ObjectSet(ObjectsWithRepeats(all, bucket, p))
  BY DEF GraphObjects, ObjectsAt
<1>5. GraphObject(graph, s, p) =
        IF ObjectsWithRepeats(all, bucket, p) = <<>> THEN <<>> ELSE <<Head(ObjectsWithRepeats(all, bucket, p))>>
  BY DEF GraphObject, FirstOf
<1>6. MeantFirst(known, s, p) = IF meant = <<>> THEN <<>> ELSE <<Head(meant)>>
  BY DEF MeantFirst
<1> HIDE DEF all, known, bucket
<1>7. ObjectsWithRepeats(all, bucket, p) = found
  <2>1. 1..n \in SUBSET (1..Len(known))
    OBVIOUS
  <2> QED
    BY <1>1, <1>3, <2>1, IndexFinds
<1>8. T \in SUBSET (1..Len(known)) /\ T = {i \in DOMAIN known : known[i][1] = s /\ known[i][2] = p}
  BY <1>2 DEF Matching
<1>9. meant = Distinct(found)
  BY <1>8 DEF Meant, Column
<1> HIDE DEF T, found, meant
<1>10. /\ ObjectSet(found) = meant
       /\ (IF found = <<>> THEN <<>> ELSE <<Head(found)>>) = (IF meant = <<>> THEN <<>> ELSE <<Head(meant)>>)
  <2>1. found = Column(known, T, 3)
    BY DEF found
  <2>2. PICK A : A = TripleSpace
    OBVIOUS
  <2>3. PICK k : k = known
    OBVIOUS
  <2>4. PICK F : F = found
    OBVIOUS
  <2>5. PICK M : M = meant
    OBVIOUS
  <2>6. k \in Seq(A) /\ T \in SUBSET (1..Len(k)) /\ F = Column(k, T, 3) /\ M = Distinct(F)
    BY <1>1, <1>8, <1>9, <2>1, <2>2, <2>3, <2>4, <2>5
  <2>7. /\ ObjectSet(F) = M
        /\ (IF F = <<>> THEN <<>> ELSE <<Head(F)>>) = (IF M = <<>> THEN <<>> ELSE <<Head(M)>>)
    BY <2>6, AnswersAreMeant
  <2> QED
    BY <2>4, <2>5, <2>7
<1> QED
  BY <1>4, <1>5, <1>6, <1>7, <1>10 DEF known, meant

-----------------------------------------------------------------------------
\* The theorems.

\* The invariant holds in every state.
LEMMA StoreAlways == StoreSpec => []StoreInv
BY InitInv, StoreStepInv, PTL DEF StoreSpec

\* The containers and their caches keep their types: no cache is of more
\* statements than its container has (countsGen and gen in rdf/quad.go and
\* rdf/graphview.go).
THEOREM StoreTypeCorrect == StoreSpec => []StoreTypeOK
<1>1. StoreInv => StoreTypeOK
  BY TypeParts DEF StoreInv, DatasetInv, ViewsInv, GraphInv
<1> QED
  BY <1>1, StoreAlways, PTL

\* A GraphView queried at any earlier moment, and after any Adds since, answers
\* as the graph copied out of its Dataset would, and so do the cached counts,
\* whatever the sizes of the containers and of objectSet's hash set.
THEOREM ViewsAlwaysAgree == StoreSpec => []ViewsAgree
<1>1. StoreInv => ViewsAgree
  <2> SUFFICES ASSUME DatasetInv, ViewsInv PROVE ViewsAgree
    BY DEF StoreInv
  <2> QED
    BY ViewAnswers, SubjectsAnswer, CountsAnswer DEF ViewsAgree
<1> QED
  BY <1>1, StoreAlways, PTL

\* The index of a Graph holds positions of its triples only (index in rdf/rdf.go).
LEMMA IndexReaches == GraphInv /\ graph.indexed => Reachable(graph)
<1> SUFFICES ASSUME GraphInv, graph.indexed,
                    NEW x \in DOMAIN graph.spo, NEW k \in DOMAIN graph.spo[x]
             PROVE  graph.spo[x][k] \in DOMAIN graph.Triples
  BY DEF Reachable
<1> DEFINE n == Len(Known) T == {i \in DOMAIN Known : Known[i][1] = x}
<1>1. /\ Known \in Seq(TripleSpace) /\ n \in Nat /\ n <= Len(graph.Triples)
      /\ graph.Triples \in Seq(TripleSpace)
  BY KnownIsPrefix DEF GraphInv, GraphTyped
<1>2. graph.spo[x] = Select(T, n)
  BY DEF GraphInv, GraphFresh, IndexOf
<1>3. k \in 1..Len(Select(T, n))
  BY <1>1, <1>2, SelectSteps
<1>4. Select(T, n)[k] \in 1..n
  BY <1>1, <1>3, SelectOnly
<1> QED
  BY <1>1, <1>2, <1>4

\* A Graph answers from its triples after any order of Add, Dedupe, queries and
\* appends to its slice, the appended ones being missed until the index is built
\* again.
THEOREM IndexAlwaysAgrees == StoreSpec => []IndexAgrees
<1>1. StoreInv => IndexAgrees
  BY GraphAnswers, IndexReaches DEF StoreInv, IndexAgrees, Known
<1> QED
  BY <1>1, StoreAlways, PTL

-----------------------------------------------------------------------------
Newlines(t) == {k \in DOMAIN t : t[k] = "\n"}
LinesTo(t, a) == SplitLines(SubSeq(t, 1, a))
NewlinesTo(t, a) == Select(Newlines(t), a)

\* A function of the first m numbers is a sequence.
LEMMA FunctionIsSequence ==
  ASSUME NEW m \in Nat, NEW f, f = [k \in 1..m |-> f[k]]
  PROVE  /\ f \in Seq({f[k] : k \in 1..m})
         /\ Len(f) = m /\ DOMAIN f = 1..m
<1> DEFINE S == {f[k] : k \in 1..m}
<1>1. \A k \in 1..m : f[k] \in S
  OBVIOUS
<1> HIDE DEF S
<1>2. f \in [1..m -> S]
  BY <1>1
<1>3. f \in Seq(S)
  BY <1>2
<1>4. DOMAIN f = 1..m /\ DOMAIN f = 1..Len(f) /\ Len(f) \in Nat
  BY <1>2, <1>3
<1>5. Len(f) = m
  BY <1>4
<1> QED
  BY <1>3, <1>4, <1>5 DEF S

\* What a beginning of a text is.
LEMMA Beginning ==
  ASSUME NEW S, NEW t \in Seq(S), NEW a \in 0..Len(t)
  PROVE  /\ SubSeq(t, 1, a) \in Seq(S) /\ Len(SubSeq(t, 1, a)) = a /\ DOMAIN SubSeq(t, 1, a) = 1..a
         /\ \A k \in 1..a : SubSeq(t, 1, a)[k] = t[k]
         /\ \A i \in 1..(a + 1), j \in 0..a : SubSeq(SubSeq(t, 1, a), i, j) = SubSeq(t, i, j)
<1> DEFINE x == SubSeq(t, 1, a)
<1>1. x \in Seq(S) /\ Len(x) = a /\ DOMAIN x = 1..a /\ \A k \in 1..a : x[k] = t[k]
  OBVIOUS
<1>2. ASSUME NEW i \in 1..(a + 1), NEW j \in 0..a PROVE SubSeq(x, i, j) = SubSeq(t, i, j)
  <2> HIDE DEF x
  <2>1. \A k \in 1..(j - i + 1) : x[i + k - 1] = t[i + k - 1]
    BY <1>1
  <2>2. /\ SubSeq(x, i, j) = [k \in 1..(j - i + 1) |-> x[i + k - 1]]
        /\ SubSeq(t, i, j) = [k \in 1..(j - i + 1) |-> t[i + k - 1]]
    OBVIOUS
  <2> QED
    BY <2>1, <2>2
<1> QED
  BY <1>1, <1>2

\* Where the lines of a beginning of a text start and end.
LEMMA LinesOfBeginning ==
  ASSUME NEW t \in Seq(STRING), NEW a \in 0..Len(t)
  PROVE  LET ends == NewlinesTo(t, a) IN
         /\ ends \in Seq(Nat) /\ Len(ends) \in Nat
         /\ \A k \in 1..Len(ends) : ends[k] \in 1..a /\ t[ends[k]] = "\n"
         /\ LinesTo(t, a) = [n \in 1..(Len(ends) + 1) |->
              SubSeq(t, IF n = 1 THEN 1 ELSE ends[n - 1] + 1, IF n = Len(ends) + 1 THEN a ELSE ends[n] - 1)]
<1> DEFINE x == SubSeq(t, 1, a)
           ends == NewlinesTo(t, a)
           C == {k \in DOMAIN x : x[k] = "\n"} \cup {Len(x) + 1}
           all == Select(C, Len(x) + 1)
<1>1. /\ Len(x) = a /\ DOMAIN x = 1..a /\ \A k \in 1..a : x[k] = t[k]
      /\ \A i \in 1..(a + 1), j \in 0..a : SubSeq(x, i, j) = SubSeq(t, i, j)
  BY Beginning
<1>2. a \in Nat /\ DOMAIN t = 1..Len(t) /\ Len(t) \in Nat /\ 1..a \subseteq 1..Len(t)
  OBVIOUS
<1>3. ends \in Seq(Nat) /\ Len(ends) \in Nat /\ DOMAIN ends = 1..Len(ends)
  <2>1. ends \in Seq(Nat)
    BY <1>2, SelectSteps DEF NewlinesTo
  <2> QED
    BY <2>1
<1>4. \A k \in 1..Len(ends) : ends[k] \in Newlines(t) /\ ends[k] \in 1..a
  BY <1>2, SelectOnly DEF NewlinesTo
<1>5. all = Append(ends, a + 1)
  <2> HIDE DEF x
  <2>1. \A k \in 1..a : k \in C <=> k \in Newlines(t)
    BY <1>1, <1>2 DEF Newlines
  <2>2. a + 1 \in C
    BY <1>1
  <2> HIDE DEF C
  <2>3. Select(C, a) = Select(Newlines(t), a)
    BY <1>2, <2>1, SelectAgrees
  <2>4. Select(C, a + 1) = Append(Select(C, a), a + 1)
    BY <1>2, <2>2, SelectSteps
  <2> QED
    BY <1>1, <2>3, <2>4 DEF NewlinesTo
<1>6. SplitLines(x) = [n \in DOMAIN all |-> SubSeq(x, IF n = 1 THEN 1 ELSE all[n - 1] + 1, all[n] - 1)]
  BY DEF SplitLines
<1> HIDE DEF ends, all, x
<1>7. /\ DOMAIN all = 1..(Len(ends) + 1) /\ all[Len(ends) + 1] = a + 1
      /\ \A k \in 1..Len(ends) : all[k] = ends[k]
  BY <1>2, <1>3, <1>5
<1>8. ASSUME NEW n \in 1..(Len(ends) + 1)
      PROVE  SubSeq(x, IF n = 1 THEN 1 ELSE all[n - 1] + 1, all[n] - 1)
             = SubSeq(t, IF n = 1 THEN 1 ELSE ends[n - 1] + 1, IF n = Len(ends) + 1 THEN a ELSE ends[n] - 1)
  <2> DEFINE i == IF n = 1 THEN 1 ELSE all[n - 1] + 1
             j == all[n] - 1
  <2>1. i = IF n = 1 THEN 1 ELSE ends[n - 1] + 1
    <3>1. n # 1 => n - 1 \in 1..Len(ends)
      BY <1>3
    <3> QED
      BY <1>7, <3>1
  <2>2. j = IF n = Len(ends) + 1 THEN a ELSE ends[n] - 1
    <3>1. n # Len(ends) + 1 => n \in 1..Len(ends)
      BY <1>3
    <3> QED
      BY <1>2, <1>7, <3>1
  <2>3. i \in 1..(a + 1)
    <3>1. n # 1 => n - 1 \in 1..Len(ends)
      BY <1>3
    <3> QED
      BY <1>2, <1>4, <2>1, <3>1
  <2>4. j \in 0..a
    <3>1. n # Len(ends) + 1 => n \in 1..Len(ends)
      BY <1>3
    <3> QED
      BY <1>2, <1>4, <2>2, <3>1
  <2> HIDE DEF i, j
  <2>5. SubSeq(x, i, j) = SubSeq(t, i, j)
    BY <1>1, <2>3, <2>4
  <2> QED
    BY <2>1, <2>2, <2>5 DEF i, j
<1>9. LinesTo(t, a) = [n \in 1..(Len(ends) + 1) |->
        SubSeq(t, IF n = 1 THEN 1 ELSE ends[n - 1] + 1, IF n = Len(ends) + 1 THEN a ELSE ends[n] - 1)]
  BY <1>6, <1>7, <1>8 DEF LinesTo, x
<1>10. \A k \in 1..Len(ends) : ends[k] \in 1..a /\ t[ends[k]] = "\n"
  BY <1>4 DEF Newlines
<1> QED
  BY <1>3, <1>9, <1>10 DEF ends

-----------------------------------------------------------------------------
\* Reading a line.

\* There is a line behind every place but the end.
LEMMA LineEndIs ==
  ASSUME NEW t \in Seq(STRING), NEW a \in 0..Len(t), a # Len(t)
  PROVE  /\ LineEnd(t, a) \in (a + 1)..Len(t)
         /\ LineEnd(t, a) < Len(t) => t[LineEnd(t, a)] = "\n"
         /\ \A k \in (a + 1)..(LineEnd(t, a) - 1) : t[k] # "\n"
<1> DEFINE stops == {k \in (a + 1)..Len(t) : t[k] = "\n" \/ k = Len(t)}
           is(e) == (e < Len(t) => t[e] = "\n") /\ \A k \in (a + 1)..(e - 1) : t[k] # "\n"
<1>1. stops \in SUBSET Nat /\ Len(t) \in stops
  OBVIOUS
<1>2. PICK e \in stops : \A k \in stops : e <= k
  <2> HIDE DEF stops
  <2> QED
    BY <1>1, Least
<1>3. e \in (a + 1)..Len(t) /\ (e < Len(t) => t[e] = "\n")
  OBVIOUS
<1>4. ASSUME NEW k \in (a + 1)..(e - 1) PROVE t[k] # "\n"
  <2>1. k \in (a + 1)..Len(t) /\ k < e
    BY <1>3
  <2>2. k \notin stops
    BY <1>1, <1>2, <2>1
  <2> QED
    BY <2>1, <2>2
<1>5. \E d \in (a + 1)..Len(t) : is(d)
  BY <1>3, <1>4
<1>6. LineEnd(t, a) = CHOOSE d \in (a + 1)..Len(t) : is(d)
  BY DEF LineEnd
<1> HIDE DEF is
<1>7. LineEnd(t, a) \in (a + 1)..Len(t) /\ is(LineEnd(t, a))
  BY <1>5, <1>6
<1> QED
  BY <1>7 DEF is

\* A newline at the end of a line is blank.
LEMMA TrimNewline ==
  ASSUME NEW l \in Seq(STRING), NEW m \in Seq(STRING), m = Append(l, "\n")
  PROVE  TrimSpace(m) = TrimSpace(l)
<1> DEFINE solid(s) == {k \in DOMAIN s : s[k] \notin Space}
<1>1. Len(m) = Len(l) + 1 /\ m[Len(l) + 1] = "\n" /\ \A k \in 1..Len(l) : m[k] = l[k]
  OBVIOUS
<1>2. solid(m) = solid(l)
  <2>1. "\n" \in Space
    BY DEF Space
  <2>2. DOMAIN m = 1..(Len(l) + 1) /\ DOMAIN l = 1..Len(l) /\ Len(l) \in Nat
    BY <1>1
  <2> QED
    BY <1>1, <2>1, <2>2
<1> DEFINE S == solid(l)
           first == CHOOSE k \in S : \A n \in S : k <= n
           last == CHOOSE k \in S : \A n \in S : n <= k
<1>3. TrimSpace(l) = IF S = {} THEN <<>> ELSE SubSeq(l, first, last)
  BY DEF TrimSpace
<1>4. TrimSpace(m) = IF S = {} THEN <<>> ELSE SubSeq(m, first, last)
  <2> DEFINE M == solid(m)
  <2>1. TrimSpace(m) = IF M = {} THEN <<>>
                       ELSE SubSeq(m, CHOOSE k \in M : \A n \in M : k <= n, CHOOSE k \in M : \A n \in M : n <= k)
    BY DEF TrimSpace
  <2>2. M = S
    BY <1>2
  <2> HIDE DEF M, S
  <2> QED
    BY <2>1, <2>2
<1>5. S \subseteq 1..Len(l) /\ Len(l) \in Nat
  OBVIOUS
<1> HIDE DEF S
<1>6. CASE S = {}
  BY <1>3, <1>4, <1>6
<1>7. CASE S # {}
  <2>1. first \in S
    <3>1. \E k \in S : \A n \in S : k <= n
      BY <1>5, <1>7, Least
    <3> QED
      BY <3>1
  <2>2. last \in S
    <3> DEFINE bounds == {b \in Nat : \A n \in S : n <= b}
    <3>1. bounds \in SUBSET Nat /\ Len(l) \in bounds
      BY <1>5
    <3>2. PICK b \in bounds : \A d \in bounds : b <= d
      <4> HIDE DEF bounds
      <4> QED
        BY <3>1, Least
    <3>3. b \in S
      <4>1. SUFFICES ASSUME b \notin S PROVE FALSE
        OBVIOUS
      <4>2. b # 0 /\ b - 1 \in Nat
        <5>1. PICK n \in S : n \in 1..Len(l)
          BY <1>5, <1>7
        <5>2. n <= b
          BY <3>2
        <5> QED
          BY <5>1, <5>2
      <4>3. \A n \in S : n <= b - 1
        BY <1>5, <4>1, <4>2
      <4>4. b <= b - 1
        BY <3>2, <4>2, <4>3
      <4> QED
        BY <4>2, <4>4
    <3>4. \E k \in S : \A n \in S : n <= k
      BY <3>3
    <3> QED
      BY <3>4
  <2> HIDE DEF first, last
  <2>3. first \in 1..Len(l) /\ last \in 1..Len(l)
    BY <1>5, <2>1, <2>2
  <2>4. /\ SubSeq(m, first, last) = [k \in 1..(last - first + 1) |-> m[first + k - 1]]
        /\ SubSeq(l, first, last) = [k \in 1..(last - first + 1) |-> l[first + k - 1]]
    BY <2>3
  <2>5. \A k \in 1..(last - first + 1) : m[first + k - 1] = l[first + k - 1]
    BY <1>1, <2>3
  <2>6. SubSeq(m, first, last) = SubSeq(l, first, last)
    BY <2>4, <2>5
  <2> QED
    BY <1>3, <1>4, <1>7, <2>6
<1> QED
  BY <1>6, <1>7
-----------------------------------------------------------------------------
\* Whole lines of the text, each with its newline, are in front of a ...
WholeLines(t, a) == a \in 0..Len(t) /\ (a = 0 \/ t[a] = "\n")
\* ... so there is one more line, in which nothing is written yet.
NothingBehind(t, a, m) ==
  /\ m = Len(NewlinesTo(t, a)) /\ m \in Nat
  /\ DOMAIN LinesTo(t, a) = 1..(m + 1) /\ LinesTo(t, a)[m + 1] = <<>>

\* The last newline that was read is at a, if any was.
EndsAt(ends, a) == (Len(ends) = 0 => a = 0) /\ (Len(ends) # 0 => ends[Len(ends)] = a)

\* What was read ends with the last newline in it.
LEMMA LastNewline ==
  ASSUME NEW t \in Seq(STRING), NEW a, WholeLines(t, a)
  PROVE  EndsAt(NewlinesTo(t, a), a)
<1>1. a \in 0..Len(t) /\ Len(t) \in Nat /\ DOMAIN t = 1..Len(t)
  BY DEF WholeLines
<1>2. CASE a = 0
  <2>1. NewlinesTo(t, a) = <<>>
    BY <1>2, SelectSteps DEF NewlinesTo
  <2> QED
    BY <1>2, <2>1 DEF EndsAt
<1>3. CASE a # 0
  <2>1. a - 1 \in Nat /\ (a - 1) + 1 = a /\ a \in DOMAIN t
    BY <1>1, <1>3
  <2>2. a \in Newlines(t)
    BY <1>3, <2>1 DEF Newlines, WholeLines
  <2>3. Select(Newlines(t), (a - 1) + 1) = Append(Select(Newlines(t), a - 1), (a - 1) + 1)
    BY <2>1, <2>2, SelectSteps
  <2>4. Select(Newlines(t), a - 1) \in Seq(Nat)
    BY <2>1, SelectSteps
  <2>5. NewlinesTo(t, a) = Append(Select(Newlines(t), a - 1), a)
    BY <2>1, <2>3 DEF NewlinesTo
  <2> QED
    BY <1>1, <2>4, <2>5 DEF EndsAt
<1> QED
  BY <1>2, <1>3

\* What was read ends in a line in which nothing is written.
LEMMA LastIsEmpty ==
  ASSUME NEW t \in Seq(STRING), NEW a, WholeLines(t, a)
  PROVE  NothingBehind(t, a, Len(NewlinesTo(t, a)))
<1> DEFINE ends == NewlinesTo(t, a)
           m == Len(ends)
           lines == LinesTo(t, a)
<1>1. a \in 0..Len(t) /\ (a = 0 \/ t[a] = "\n")
  BY DEF WholeLines
<1>2. /\ ends \in Seq(Nat) /\ m \in Nat
      /\ lines = [n \in 1..(m + 1) |->
           SubSeq(t, IF n = 1 THEN 1 ELSE ends[n - 1] + 1, IF n = m + 1 THEN a ELSE ends[n] - 1)]
  BY <1>1, LinesOfBeginning
<1>3. (m = 0 => a = 0) /\ (m # 0 => ends[m] = a)
  BY LastNewline DEF EndsAt
<1> HIDE DEF ends, m, lines
<1>4. DOMAIN lines = 1..(m + 1) /\ m + 1 \in 1..(m + 1)
  BY <1>2
<1>5. lines[m + 1] = SubSeq(t, IF m + 1 = 1 THEN 1 ELSE ends[(m + 1) - 1] + 1, a)
  BY <1>2, <1>4
<1>6. lines[m + 1] = SubSeq(t, a + 1, a)
  <2>1. (m + 1) - 1 = m /\ (m + 1 = 1 <=> m = 0)
    BY <1>2
  <2>2. (IF m + 1 = 1 THEN 1 ELSE ends[(m + 1) - 1] + 1) = a + 1
    BY <1>3, <2>1
  <2> QED
    BY <1>5, <2>2
<1>7. SubSeq(t, a + 1, a) = <<>>
  BY <1>1
<1> QED
  BY <1>2, <1>4, <1>6, <1>7 DEF NothingBehind, ends, m, lines

\* The lines of what is read with the next, m lines being read before.
Grown(t, a, m) ==
  LET e == LineEnd(t, a)
      next == LinesTo(t, e)
      k == IF t[e] = "\n" THEN m + 2 ELSE m + 1
  IN  /\ e \in (a + 1)..Len(t) /\ (t[e] = "\n" \/ e = Len(t))
      /\ DOMAIN next = 1..k /\ \A n \in 1..m : next[n] = LinesTo(t, a)[n]
      /\ TrimSpace(next[m + 1]) = TrimSpace(SubSeq(t, a + 1, e))
      /\ t[e] = "\n" => m + 1 = Len(NewlinesTo(t, e)) /\ next[m + 2] = <<>>

\* Reading a line leaves the lines before it, and adds it, with an empty one
\* behind it if it ended in a newline.
LEMMA LinesGrow ==
  ASSUME NEW t \in Seq(STRING), NEW a, WholeLines(t, a), a # Len(t)
  PROVE  Grown(t, a, Len(NewlinesTo(t, a)))
<1> DEFINE e == LineEnd(t, a)
           ends == NewlinesTo(t, a)
           m == Len(ends)
           more == NewlinesTo(t, e)
           old == LinesTo(t, a)
           new == LinesTo(t, e)
           l == SubSeq(t, a + 1, e)
<1>1. a \in 0..Len(t) /\ Len(t) \in Nat /\ DOMAIN t = 1..Len(t)
  BY DEF WholeLines
<1>2. e \in (a + 1)..Len(t)
  BY <1>1, LineEndIs
<1>21. (e < Len(t) => t[e] = "\n") /\ \A k \in (a + 1)..(e - 1) : t[k] # "\n"
  BY <1>1, LineEndIs
<1>3. /\ ends \in Seq(Nat) /\ m \in Nat
      /\ \A k \in 1..m : ends[k] \in 1..a
      /\ old = [n \in 1..(m + 1) |->
           SubSeq(t, IF n = 1 THEN 1 ELSE ends[n - 1] + 1, IF n = m + 1 THEN a ELSE ends[n] - 1)]
  BY <1>1, LinesOfBeginning
<1>4. DOMAIN old = 1..(m + 1) /\ old[m + 1] = <<>>
  BY LastIsEmpty DEF NothingBehind
<1>20. a \in Nat /\ e \in Nat /\ Len(t) \in Nat /\ a < e /\ e <= Len(t)
  <2>1. PICK n : n = Len(t)
    OBVIOUS
  <2>2. PICK f : f = e
    OBVIOUS
  <2>3. a \in 0..n /\ n \in Nat /\ f \in (a + 1)..n
    BY <1>1, <1>2, <2>1, <2>2
  <2>4. a \in Nat /\ f \in Nat /\ n \in Nat /\ a < f /\ f <= n
    BY <2>3
  <2> QED
    BY <2>1, <2>2, <2>4
<1> HIDE DEF e
<1>5. e \in 0..Len(t)
  BY <1>20
<1>6. /\ more \in Seq(Nat) /\ Len(more) \in Nat
      /\ new = [n \in 1..(Len(more) + 1) |->
           SubSeq(t, IF n = 1 THEN 1 ELSE more[n - 1] + 1, IF n = Len(more) + 1 THEN e ELSE more[n] - 1)]
  BY <1>5, LinesOfBeginning
<1>7. (m = 0 => a = 0) /\ (m # 0 => ends[m] = a)
  BY LastNewline DEF EndsAt
<1>8. more = IF t[e] = "\n" THEN Append(ends, e) ELSE ends
  <2>1. e - 1 \in Nat /\ (e - 1) + 1 = e /\ a \in Nat /\ a <= e - 1
    BY <1>20
  <2>2. \A i \in (a + 1)..(e - 1) : i \notin Newlines(t)
    BY <1>21 DEF Newlines
  <2>3. Select(Newlines(t), e - 1) = Select(Newlines(t), a)
    BY <2>1, <2>2, SelectSame
  <2>4. e \in Newlines(t) <=> t[e] = "\n"
    <3>1. e \in DOMAIN t
      <4>1. e \in 1..Len(t)
        BY <1>20
      <4> QED
        BY <1>1, <4>1
    <3> QED
      BY <3>1 DEF Newlines
  <2>5. /\ (e - 1) + 1 \in Newlines(t) => Select(Newlines(t), (e - 1) + 1) = Append(Select(Newlines(t), e - 1), (e - 1) + 1)
        /\ (e - 1) + 1 \notin Newlines(t) => Select(Newlines(t), (e - 1) + 1) = Select(Newlines(t), e - 1)
    BY <2>1, SelectSteps
  <2> QED
    BY <2>1, <2>3, <2>4, <2>5 DEF NewlinesTo
<1> HIDE DEF ends, m, more, old, new
<1>m. m = Len(ends)
  BY DEF m
<1>9. DOMAIN ends = 1..m /\ m \in Nat /\ (\A k \in 1..m : ends[k] \in 1..a) /\ ends \in Seq(Nat)
  BY <1>3, <1>m
<1>10. /\ Len(more) = (IF t[e] = "\n" THEN m + 1 ELSE m)
       /\ \A k \in 1..m : more[k] = ends[k]
       /\ t[e] = "\n" => more[m + 1] = e
  BY <1>8, <1>9, <1>m
<1>11. DOMAIN new = 1..(IF t[e] = "\n" THEN m + 2 ELSE m + 1)
  BY <1>6, <1>9, <1>10
<1>12. ASSUME NEW n \in 1..m PROVE new[n] = old[n]
  <2>1. n \in 1..(Len(more) + 1) /\ n \in 1..(m + 1) /\ n # m + 1 /\ n # Len(more) + 1
    BY <1>9, <1>10
  <2>2. more[n] = ends[n] /\ (n # 1 => more[n - 1] = ends[n - 1])
    <3>1. n # 1 => n - 1 \in 1..m
      BY <1>9
    <3> QED
      BY <1>10, <3>1
  <2>3. new[n] = SubSeq(t, IF n = 1 THEN 1 ELSE more[n - 1] + 1, more[n] - 1)
    BY <1>6, <2>1
  <2>4. old[n] = SubSeq(t, IF n = 1 THEN 1 ELSE ends[n - 1] + 1, ends[n] - 1)
    BY <1>3, <2>1
  <2> QED
    BY <2>2, <2>3, <2>4
<1>13. new[m + 1] = SubSeq(t, a + 1, IF t[e] = "\n" THEN e - 1 ELSE e)
  <2>1. m + 1 \in 1..(Len(more) + 1) /\ (m + 1) - 1 = m /\ (m + 1 = 1 <=> m = 0) /\ (m # 0 => m \in 1..m)
    BY <1>9, <1>10
  <2>2. new[m + 1] = SubSeq(t, IF m + 1 = 1 THEN 1 ELSE more[(m + 1) - 1] + 1,
                            IF m + 1 = Len(more) + 1 THEN e ELSE more[m + 1] - 1)
    BY <1>6, <2>1
  <2>3. (IF m + 1 = 1 THEN 1 ELSE more[(m + 1) - 1] + 1) = a + 1
    BY <1>7, <1>10, <2>1
  <2>4. (IF m + 1 = Len(more) + 1 THEN e ELSE more[m + 1] - 1) = (IF t[e] = "\n" THEN e - 1 ELSE e)
    BY <1>9, <1>10
  <2> QED
    BY <2>2, <2>3, <2>4
<1>14. ASSUME t[e] = "\n" PROVE new[m + 2] = <<>>
  <2>1. m + 2 \in 1..(Len(more) + 1) /\ (m + 2) - 1 = m + 1 /\ m + 2 # 1 /\ m + 2 = Len(more) + 1
    BY <1>9, <1>10, <1>14
  <2>2. new[m + 2] = SubSeq(t, more[(m + 2) - 1] + 1, e)
    BY <1>6, <2>1
  <2>3. new[m + 2] = SubSeq(t, e + 1, e)
    BY <1>10, <1>14, <2>1, <2>2
  <2> QED
    BY <1>2, <2>3
<1>15. TrimSpace(new[m + 1]) = TrimSpace(l)
  <2>1. CASE t[e] # "\n"
    BY <1>13, <2>1
  <2>2. CASE t[e] = "\n"
    <3> DEFINE s == SubSeq(t, a + 1, e - 1)
    <3>1. /\ s \in Seq(STRING) /\ Len(s) = e - 1 - a /\ \A k \in 1..(e - 1 - a) : s[k] = t[a + k]
          /\ l \in Seq(STRING) /\ Len(l) = e - a /\ \A k \in 1..(e - a) : l[k] = t[a + k]
      BY <1>20
    <3>2. l[e - a] = "\n"
      <4>1. e - a \in 1..(e - a) /\ a + (e - a) = e
        BY <1>20
      <4> QED
        BY <2>2, <3>1, <4>1
    <3>3. l = Append(s, "\n")
      <4> HIDE DEF s, l
      <4>1. e - a \in Nat /\ e - 1 - a \in Nat /\ (e - 1 - a) + 1 = e - a
        BY <1>20
      <4> QED
        BY <3>1, <3>2, <4>1
    <3> HIDE DEF s, l
    <3>4. TrimSpace(l) = TrimSpace(s)
      BY <3>1, <3>3, TrimNewline
    <3> QED
      BY <1>13, <2>2, <3>4 DEF s
  <2> QED
    BY <2>1, <2>2
<1>16. Grown(t, a, m) <=>
          /\ e \in (a + 1)..Len(t) /\ (t[e] = "\n" \/ e = Len(t))
          /\ DOMAIN new = 1..(IF t[e] = "\n" THEN m + 2 ELSE m + 1) /\ \A n \in 1..m : new[n] = old[n]
          /\ TrimSpace(new[m + 1]) = TrimSpace(l)
          /\ t[e] = "\n" => m + 1 = Len(more) /\ new[m + 2] = <<>>
  BY DEF Grown, e, new, old, more
<1>17. t[e] = "\n" \/ e = Len(t)
  <2>1. e < Len(t) \/ e = Len(t)
    BY <1>20
  <2> QED
    BY <1>21, <2>1
<1>18. t[e] = "\n" => m + 1 = Len(more)
  BY <1>10
<1>19. Grown(t, a, m)
  BY <1>2, <1>11, <1>12, <1>14, <1>15, <1>16, <1>17, <1>18
<1> QED
  BY <1>19 DEF m, ends
-----------------------------------------------------------------------------
\* What is told of the lines.

Asked(parsed, skip) ==
  {n \in DOMAIN parsed : parsed[n].kind = "statement" \/ (parsed[n].kind = "malformed" /\ ~skip)}

\* The results of n lines.
Results(parsed, n) == DOMAIN parsed = 1..n /\ Len(parsed) = n

\* Each line is parsed to one result.
LEMMA ParsedEach ==
  ASSUME NEW lines, NEW n \in Nat, DOMAIN lines = 1..n
  PROVE  /\ Results(Parsed(lines), n)
         /\ \A k \in 1..n : Parsed(lines)[k] = Trimmed(TrimSpace(lines[k]))
<1> DEFINE parsed == Parsed(lines)
<1>1. parsed = [k \in 1..n |-> ParseNTLine(lines[k])]
  BY DEF Parsed
<1> HIDE DEF parsed
<1>2. parsed = [k \in 1..n |-> parsed[k]]
  BY <1>1
<1>3. DOMAIN parsed = 1..n /\ Len(parsed) = n
  BY <1>2, FunctionIsSequence
<1>4. \A k \in 1..n : parsed[k] = Trimmed(TrimSpace(lines[k]))
  BY <1>1 DEF ParseNTLine
<1> QED
  BY <1>3, <1>4 DEF parsed, Results

\* The caller is told of the lines that are asked for, and of no others.
LEMMA ToldIs ==
  ASSUME NEW parsed, NEW n \in Nat, Results(parsed, n), NEW skip
  PROVE  /\ ToldOf(parsed, skip) = Select(Asked(parsed, skip), n)
         /\ ToldOf(parsed, skip) \in Seq(Nat) /\ Len(ToldOf(parsed, skip)) \in Nat
         /\ \A k \in 1..Len(ToldOf(parsed, skip)) :
              ToldOf(parsed, skip)[k] \in 1..n /\ ToldOf(parsed, skip)[k] \in Asked(parsed, skip)
<1> DEFINE told == ToldOf(parsed, skip)
<1>1. told = Select(Asked(parsed, skip), n)
  BY DEF ToldOf, Asked, Results
<1> HIDE DEF told
<1>2. told \in Seq(Nat)
  BY <1>1, SelectSteps
<1>3. Len(told) \in Nat
  BY <1>2
<1>4. \A k \in 1..Len(told) : told[k] \in Asked(parsed, skip) /\ told[k] \in 1..n
  BY <1>1, SelectOnly
<1> QED
  BY <1>1, <1>2, <1>3, <1>4 DEF told

\* Nothing is told of a line in which nothing is written.
LEMMA EmptyIsIgnored == Trimmed(TrimSpace(<<>>)).kind = "ignorable"
<1>1. TrimSpace(<<>>) = <<>>
  <2>1. {k \in DOMAIN <<>> : <<>>[k] \notin Space} = {}
    OBVIOUS
  <2> QED
    BY <2>1 DEF TrimSpace
<1> QED
  BY <1>1 DEF Trimmed

\* What the reading of a line adds to what is told.
ToldGrows(old, new, q, m, skip) ==
  /\ \A n \in 1..m : new[n] = old[n]
  /\ new[m + 1] = q
  /\ \A k \in 1..Len(ToldOf(old, skip)) : ToldOf(old, skip)[k] \in 1..m
  /\ ToldOf(new, skip) = IF q.kind = "statement" \/ (q.kind = "malformed" /\ ~skip)
                         THEN Append(ToldOf(old, skip), m + 1) ELSE ToldOf(old, skip)

\* Reading a line adds to what is told that line, if it is asked for.
LEMMA NextIsTold ==
  ASSUME NEW t \in Seq(STRING), NEW a, WholeLines(t, a), a # Len(t), NEW skip
  PROVE  ToldGrows(Parsed(LinesTo(t, a)), Parsed(LinesTo(t, LineEnd(t, a))),
                   ParseNTLine(SubSeq(t, a + 1, LineEnd(t, a))), Len(NewlinesTo(t, a)), skip)
<1>1. PICK m : m = Len(NewlinesTo(t, a))
  OBVIOUS
<1>2. PICK e : e = LineEnd(t, a)
  OBVIOUS
<1>3. PICK lines : lines = LinesTo(t, a)
  OBVIOUS
<1>4. PICK more : more = LinesTo(t, e)
  OBVIOUS
<1>5. PICK l : l = SubSeq(t, a + 1, e)
  OBVIOUS
<1> DEFINE old == Parsed(lines)
           new == Parsed(more)
           q == Trimmed(TrimSpace(l))
<1>6. m \in Nat /\ DOMAIN lines = 1..(m + 1) /\ lines[m + 1] = <<>>
  BY <1>1, <1>3, LastIsEmpty DEF NothingBehind
<1>7. PICK k : k = IF t[e] = "\n" THEN m + 2 ELSE m + 1
  OBVIOUS
<1>8. /\ DOMAIN more = 1..k /\ \A n \in 1..m : more[n] = lines[n]
      /\ TrimSpace(more[m + 1]) = TrimSpace(l)
      /\ k # m + 1 => more[m + 2] = <<>>
  <2>1. Grown(t, a, m)
    BY <1>1, LinesGrow
  <2> QED
    BY <1>2, <1>3, <1>4, <1>5, <1>7, <2>1 DEF Grown
<1>9. k \in Nat /\ (k = m + 1 \/ k = m + 2) /\ m + 1 \in Nat
  BY <1>6, <1>7
<1>10. /\ Results(old, m + 1) /\ Results(new, k)
       /\ \A n \in 1..(m + 1) : old[n] = Trimmed(TrimSpace(lines[n]))
       /\ \A n \in 1..k : new[n] = Trimmed(TrimSpace(more[n]))
  BY <1>6, <1>8, <1>9, ParsedEach
<1> HIDE DEF old, new, q
<1>11. \A n \in 1..m : new[n] = old[n] /\ n \in 1..k /\ n \in 1..(m + 1)
  BY <1>6, <1>8, <1>9, <1>10
<1>12. new[m + 1] = q /\ m + 1 \in 1..k
  <2>1. m + 1 \in 1..k
    BY <1>6, <1>9
  <2> QED
    BY <1>8, <1>10, <2>1 DEF q
<1>13. old[m + 1].kind = "ignorable"
  <2>1. m + 1 \in 1..(m + 1)
    BY <1>6
  <2> QED
    BY <1>6, <1>10, <2>1, EmptyIsIgnored
<1>14. k # m + 1 => k = m + 2 /\ new[m + 2].kind = "ignorable"
  <2>1. k # m + 1 => m + 2 \in 1..k
    BY <1>6, <1>9
  <2> QED
    BY <1>8, <1>9, <1>10, <2>1, EmptyIsIgnored
<1>15. \A n \in 1..m : n \in Asked(new, skip) <=> n \in Asked(old, skip)
  BY <1>10, <1>11 DEF Asked, Results
<1>16. m + 1 \notin Asked(old, skip)
  BY <1>13 DEF Asked
<1>17. k # m + 1 => k = (m + 1) + 1 /\ (m + 1) + 1 \notin Asked(new, skip)
  <2>1. k # m + 1 => k = (m + 1) + 1 /\ (m + 1) + 1 = m + 2
    BY <1>6, <1>9
  <2>2. k # m + 1 => m + 2 \notin Asked(new, skip)
    BY <1>14 DEF Asked
  <2> QED
    BY <2>1, <2>2
<1>18. m + 1 \in Asked(new, skip) <=> q.kind = "statement" \/ (q.kind = "malformed" /\ ~skip)
  <2>1. m + 1 \in DOMAIN new
    BY <1>10, <1>12 DEF Results
  <2> QED
    BY <1>12, <2>1 DEF Asked
<1>19. ToldOf(old, skip) = Select(Asked(old, skip), m)
  <2>1. ToldOf(old, skip) = Select(Asked(old, skip), m + 1)
    BY <1>9, <1>10, ToldIs
  <2> QED
    BY <1>6, <1>16, <2>1, SelectSteps
<1>20. ToldOf(new, skip) = Select(Asked(new, skip), m + 1)
  <2>1. ToldOf(new, skip) = Select(Asked(new, skip), k)
    BY <1>9, <1>10, ToldIs
  <2>2. k # m + 1 => Select(Asked(new, skip), k) = Select(Asked(new, skip), m + 1)
    BY <1>9, <1>17, SelectSteps
  <2> QED
    BY <2>1, <2>2
<1>21. Select(Asked(new, skip), m) = Select(Asked(old, skip), m)
  BY <1>6, <1>15, SelectAgrees
<1>22. /\ m + 1 \in Asked(new, skip) =>
            Select(Asked(new, skip), m + 1) = Append(Select(Asked(new, skip), m), m + 1)
       /\ m + 1 \notin Asked(new, skip) => Select(Asked(new, skip), m + 1) = Select(Asked(new, skip), m)
  BY <1>6, SelectSteps
<1>23. ToldOf(new, skip) = IF q.kind = "statement" \/ (q.kind = "malformed" /\ ~skip)
                           THEN Append(ToldOf(old, skip), m + 1) ELSE ToldOf(old, skip)
  BY <1>18, <1>19, <1>20, <1>21, <1>22
<1>24. \A n \in 1..Len(ToldOf(old, skip)) : ToldOf(old, skip)[n] \in 1..m
  BY <1>6, <1>19, SelectOnly
<1>25. ToldGrows(old, new, q, m, skip)
  BY <1>11, <1>12, <1>23, <1>24 DEF ToldGrows
<1> QED
  BY <1>1, <1>2, <1>3, <1>4, <1>5, <1>25 DEF old, new, q, ParseNTLine
-----------------------------------------------------------------------------
\* Up to the first malformed line.

\* j is the place of the first malformed one of n results, or behind them all.
FirstAt(results, n, j) ==
  /\ j \in 1..(n + 1)
  /\ j <= n => results[j].kind = "malformed"
  /\ \A k \in 1..(j - 1) : results[k].kind # "malformed"

\* There is one such place, and FirstMalformed is it.
LEMMA FirstMalformedIs ==
  ASSUME NEW results, NEW n \in Nat, Results(results, n)
  PROVE  /\ FirstAt(results, n, FirstMalformed(results))
         /\ \A j : FirstAt(results, n, j) => FirstMalformed(results) = j
<1> DEFINE places == {j \in 1..(n + 1) : j = n + 1 \/ results[j].kind = "malformed"}
<1>1. places \in SUBSET Nat /\ n + 1 \in places
  OBVIOUS
<1>2. PICK j \in places : \A k \in places : j <= k
  <2> HIDE DEF places
  <2> QED
    BY <1>1, Least
<1>3. j \in 1..(n + 1) /\ (j # n + 1 => results[j].kind = "malformed")
  OBVIOUS
<1>4. ASSUME NEW k \in 1..(j - 1) PROVE results[k].kind # "malformed"
  <2>1. k \in 1..(n + 1) /\ ~(j <= k)
    BY <1>3
  <2>2. k \notin places
    BY <1>2, <2>1
  <2> QED
    BY <2>1, <2>2
<1>5. FirstAt(results, n, j)
  <2>1. j <= n => j # n + 1
    BY <1>3
  <2> QED
    BY <1>3, <1>4, <2>1 DEF FirstAt
<1>6. FirstMalformed(results) = CHOOSE d \in 1..(n + 1) : /\ d <= n => results[d].kind = "malformed"
                                                          /\ \A k \in 1..(d - 1) : results[k].kind # "malformed"
  BY DEF FirstMalformed, Results
<1>7. FirstAt(results, n, FirstMalformed(results))
  BY <1>5, <1>6 DEF FirstAt
<1>8. ASSUME NEW i, NEW d, FirstAt(results, n, i), FirstAt(results, n, d), i < d PROVE FALSE
  <2>1. i \in 1..(n + 1) /\ d \in 1..(n + 1)
    BY <1>8 DEF FirstAt
  <2>2. i <= n /\ i \in 1..(d - 1)
    BY <1>8, <2>1
  <2> QED
    BY <1>8, <2>2 DEF FirstAt
<1>9. ASSUME NEW d, FirstAt(results, n, d) PROVE FirstMalformed(results) = d
  <2>1. FirstMalformed(results) \in 1..(n + 1) /\ d \in 1..(n + 1)
    BY <1>7, <1>9 DEF FirstAt
  <2>2. ~(FirstMalformed(results) < d) /\ ~(d < FirstMalformed(results))
    BY <1>7, <1>8, <1>9
  <2> QED
    BY <2>1, <2>2
<1> QED
  BY <1>7, <1>9

\* The first results are of the lines the caller is told of.
Reports(g, parsed, told) ==
  /\ Len(g) = Len(told)
  /\ \A k \in DOMAIN g :
       /\ g[k].kind = parsed[told[k]].kind
       /\ IF g[k].kind = "statement" THEN g[k].triple = parsed[told[k]].triple ELSE g[k].line = told[k]

\* What ParseNTriples makes of the parsed lines.
Statements(parsed) == {n \in DOMAIN parsed : parsed[n].kind = "statement"}
TriplesTo(parsed) ==
  LET good == Select(Statements(parsed), FirstMalformed(parsed) - 1)
  IN  [k \in DOMAIN good |-> parsed[good[k]].triple]
BadOf(parsed) == IF FirstMalformed(parsed) > Len(parsed) THEN 0 ELSE FirstMalformed(parsed)

\* The triples of the results in front of the first malformed one, and its line.
SameStart(g, parsed) ==
  LET bad == FirstMalformed(g) IN
  /\ TriplesTo(parsed) = [k \in 1..(bad - 1) |-> g[k].triple]
  /\ bad <= Len(g) => BadOf(parsed) = g[bad].line

\* Reports of all lines that are not ignorable begin with the triples in front of
\* the first malformed line, and report that line next.
LEMMA ReportsStart ==
  ASSUME NEW parsed, NEW n \in Nat, Results(parsed, n), NEW skip, ~skip,
         NEW S, NEW g \in Seq(S), Reports(g, parsed, ToldOf(parsed, skip))
  PROVE  SameStart(g, parsed)
<1>1. PICK told : told = ToldOf(parsed, skip)
  OBVIOUS
<1>2. PICK asked : asked = Asked(parsed, skip)
  OBVIOUS
<1>3. PICK b : b = FirstMalformed(parsed)
  OBVIOUS
<1>4. PICK bad : bad = FirstMalformed(g)
  OBVIOUS
<1>5. /\ told = Select(asked, n) /\ told \in Seq(Nat) /\ Len(told) \in Nat
      /\ \A k \in 1..Len(told) : told[k] \in 1..n /\ told[k] \in asked
  BY <1>1, <1>2, ToldIs
<1>6. FirstAt(parsed, n, b)
  BY <1>3, FirstMalformedIs
<1>7. Len(g) = Len(told) /\ Results(g, Len(told))
  BY <1>1 DEF Reports, Results
<1>8. \A k \in 1..Len(told) :
        /\ g[k].kind = parsed[told[k]].kind
        /\ IF g[k].kind = "statement" THEN g[k].triple = parsed[told[k]].triple ELSE g[k].line = told[k]
  BY <1>1, <1>7 DEF Reports, Results
<1>9. b \in 1..(n + 1) /\ b - 1 \in Nat /\ (b - 1) + 1 = b /\ b - 1 <= n
  BY <1>6 DEF FirstAt
<1>10. PICK good : good = Select(Statements(parsed), b - 1)
  OBVIOUS
<1>11. \A i \in 1..(b - 1) : i \in Statements(parsed) <=> i \in asked
  <2>1. \A i \in 1..(b - 1) : parsed[i].kind # "malformed"
    BY <1>6 DEF FirstAt
  <2> QED
    BY <1>2, <2>1 DEF Statements, Asked
<1>12. good = Select(asked, b - 1)
  BY <1>9, <1>10, <1>11, SelectAgrees
<1>13. PICK m : m = Len(good)
  OBVIOUS
<1>14. m \in Nat /\ good \in Seq(Nat) /\ DOMAIN good = 1..m
  <2>1. good \in Seq(Nat)
    BY <1>9, <1>12, SelectSteps
  <2> QED
    BY <1>13, <2>1
<1>15. \A k \in 1..m : good[k] \in Statements(parsed)
  BY <1>9, <1>10, <1>13, SelectOnly
<1>16. m <= Len(told) /\ \A k \in 1..m : told[k] = good[k]
  BY <1>5, <1>9, <1>12, <1>13, SelectBegins
<1>17. \A k \in 1..m : k \in 1..Len(told)
  BY <1>5, <1>14, <1>16
<1>18. \A k \in 1..m : g[k].kind = "statement" /\ g[k].triple = parsed[good[k]].triple
  BY <1>8, <1>15, <1>16, <1>17 DEF Statements
<1>19. CASE b = n + 1
  <2>1. told = good /\ Len(told) = m
    <3>1. b - 1 = n
      BY <1>19
    <3> QED
      BY <1>5, <1>12, <1>13, <3>1
  <2>2. FirstAt(g, Len(told), m + 1)
    <3>1. m + 1 \in 1..(Len(told) + 1) /\ ~(m + 1 <= Len(told)) /\ (m + 1) - 1 = m
      BY <1>14, <2>1
    <3>2. \A k \in 1..m : g[k].kind # "malformed"
      BY <1>18
    <3> QED
      BY <3>1, <3>2 DEF FirstAt
  <2>3. bad = m + 1
    BY <1>4, <1>5, <1>7, <2>2, FirstMalformedIs
  <2>4. bad - 1 = m /\ ~(bad <= Len(g))
    BY <1>7, <1>14, <2>1, <2>3
  <2>5. TriplesTo(parsed) = [k \in 1..m |-> g[k].triple]
    BY <1>3, <1>10, <1>14, <1>18 DEF TriplesTo
  <2> QED
    BY <1>4, <2>4, <2>5 DEF SameStart
<1>20. CASE b # n + 1
  <2>1. b \in 1..n /\ b <= n
    BY <1>9, <1>20
  <2>2. parsed[b].kind = "malformed"
    BY <1>6, <2>1 DEF FirstAt
  <2>3. b \in asked
    BY <1>2, <2>1, <2>2 DEF Asked, Results
  <2>4. Len(Select(asked, b - 1)) < Len(Select(asked, n)) /\ Select(asked, n)[Len(Select(asked, b - 1)) + 1] = b
    <3>1. b - 1 < n /\ (b - 1) + 1 \in asked
      BY <1>9, <2>1, <2>3
    <3> QED
      BY <1>9, <3>1, SelectNext
  <2>5. m < Len(told) /\ told[m + 1] = b
    BY <1>5, <1>12, <1>13, <2>4
  <2>6. m + 1 \in 1..Len(told) /\ (m + 1) - 1 = m /\ m + 1 \in 1..(Len(told) + 1)
    BY <1>5, <1>14, <2>5
  <2>7. g[m + 1].kind = "malformed" /\ g[m + 1].line = b
    BY <1>8, <2>2, <2>5, <2>6
  <2>8. FirstAt(g, Len(told), m + 1)
    <3>1. \A k \in 1..m : g[k].kind # "malformed"
      BY <1>18
    <3> QED
      BY <2>6, <2>7, <3>1 DEF FirstAt
  <2>9. bad = m + 1
    BY <1>4, <1>5, <1>7, <2>8, FirstMalformedIs
  <2>10. TriplesTo(parsed) = [k \in 1..m |-> g[k].triple]
    BY <1>3, <1>10, <1>14, <1>18 DEF TriplesTo
  <2>11. BadOf(parsed) = b
    BY <1>3, <2>1 DEF BadOf, Results
  <2> QED
    BY <1>4, <2>6, <2>7, <2>9, <2>10, <2>11 DEF SameStart
<1> QED
  BY <1>19, <1>20

\* What ParseNTriples gives, by the parsed lines.
LEMMA ParseNTriplesIs ==
  ASSUME NEW text
  PROVE  /\ ParseNTriples(text).triples = TriplesTo(Parsed(SplitLines(text)))
         /\ ParseNTriples(text).bad = BadOf(Parsed(SplitLines(text)))
BY DEF ParseNTriples, TriplesTo, BadOf, Statements
-----------------------------------------------------------------------------
\* A stream of lines.

\* What can be told of a line.
Told == {ParseNQuadLine(l) : l \in Seq(STRING)} \cup {[kind |-> "malformed", line |-> n] : n \in Nat}

\* What holds of a stream of lines: it stands behind a newline or at the end, it
\* counts the newlines it read, and it told of the lines that are asked for.
LineInv ==
  /\ input \in Documents /\ at \in 0..Len(input.text) /\ lineNo \in Nat /\ got \in Seq(Told)
  /\ WholeLines(input.text, at) \/ at = Len(input.text)
  /\ WholeLines(input.text, at) => lineNo = Len(NewlinesTo(input.text, at))
  /\ LET parsed == Parsed(LinesTo(input.text, at))
     IN  Reports(got, parsed, ToldOf(parsed, input.skipBad))

\* r reports the result p of line n.
ReportOf(r, p, n) ==
  r.kind = p.kind /\ IF r.kind = "statement" THEN r.triple = p.triple ELSE r.line = n

\* Reports stay reports when there are more lines, and with one of the next line.
LEMMA ReportsMore ==
  ASSUME NEW m \in Nat, NEW old, NEW new, NEW told \in Seq(Nat), NEW S, NEW g \in Seq(S),
         Reports(g, old, told),
         \A k \in 1..Len(told) : told[k] \in 1..m,
         \A n \in 1..m : new[n] = old[n]
  PROVE  /\ Reports(g, new, told)
         /\ \A r : ReportOf(r, new[m + 1], m + 1) => Reports(Append(g, r), new, Append(told, m + 1))
<1>1. Len(g) = Len(told) /\ DOMAIN g = 1..Len(told) /\ Len(told) \in Nat
  BY DEF Reports
<1>2. \A k \in 1..Len(told) :
        /\ g[k].kind = new[told[k]].kind
        /\ IF g[k].kind = "statement" THEN g[k].triple = new[told[k]].triple ELSE g[k].line = told[k]
  BY <1>1 DEF Reports
<1>3. Reports(g, new, told)
  BY <1>1, <1>2 DEF Reports
<1>4. ASSUME NEW r, ReportOf(r, new[m + 1], m + 1)
      PROVE  Reports(Append(g, r), new, Append(told, m + 1))
  <2>1. PICK h : h = Append(g, r)
    OBVIOUS
  <2>2. PICK more : more = Append(told, m + 1)
    OBVIOUS
  <2>3. PICK n : n = Len(told)
    OBVIOUS
  <2>4. /\ Len(h) = n + 1 /\ DOMAIN h = 1..(n + 1) /\ h[n + 1] = r
        /\ \A k \in 1..n : h[k] = g[k]
    BY <1>1, <2>1, <2>3
  <2>5. Len(more) = n + 1 /\ more[n + 1] = m + 1 /\ \A k \in 1..n : more[k] = told[k]
    BY <1>1, <2>2, <2>3
  <2>6. ASSUME NEW k \in 1..(n + 1)
        PROVE  /\ h[k].kind = new[more[k]].kind
               /\ IF h[k].kind = "statement" THEN h[k].triple = new[more[k]].triple ELSE h[k].line = more[k]
    <3>1. CASE k = n + 1
      BY <1>4, <2>4, <2>5, <3>1 DEF ReportOf
    <3>2. CASE k # n + 1
      <4>1. k \in 1..n
        BY <1>1, <2>3, <3>2
      <4> QED
        BY <1>2, <2>3, <2>4, <2>5, <4>1
    <3> QED
      BY <3>1, <3>2
  <2> QED
    BY <2>1, <2>2, <2>4, <2>5, <2>6 DEF Reports
<1> QED
  BY <1>3, <1>4

\* A stream starts with nothing read and nothing told.
LEMMA LineInitInv == LineInit => LineInv
<1> SUFFICES ASSUME LineInit PROVE LineInv
  OBVIOUS
<1>1. input \in Documents /\ at = 0 /\ lineNo = 0 /\ got = <<>>
  BY DEF LineInit
<1>2. PICK t : t = input.text
  OBVIOUS
<1>3. t \in Seq(STRING)
  BY <1>1, <1>2, LineAssumption
<1>4. WholeLines(t, 0)
  BY <1>3 DEF WholeLines
<1>5. NewlinesTo(t, 0) = <<>>
  BY SelectSteps DEF NewlinesTo
<1>6. DOMAIN LinesTo(t, 0) = 1..1 /\ LinesTo(t, 0)[1] = <<>>
  <2>1. Len(NewlinesTo(t, 0)) = 0
    BY <1>5
  <2>2. NothingBehind(t, 0, 0)
    BY <1>3, <1>4, <2>1, LastIsEmpty
  <2> QED
    BY <2>2 DEF NothingBehind
<1>7. PICK parsed : parsed = Parsed(LinesTo(t, 0))
  OBVIOUS
<1>8. Results(parsed, 1) /\ parsed[1].kind = "ignorable"
  <2>1. PICK lines : lines = LinesTo(t, 0)
    OBVIOUS
  <2>2. Results(parsed, 1) /\ \A k \in 1..1 : parsed[k] = Trimmed(TrimSpace(lines[k]))
    BY <1>6, <1>7, <2>1, ParsedEach
  <2>3. parsed[1] = Trimmed(TrimSpace(<<>>))
    BY <1>6, <2>1, <2>2
  <2> QED
    BY <2>2, <2>3, EmptyIsIgnored
<1>9. PICK told : told = ToldOf(parsed, input.skipBad)
  OBVIOUS
<1>10. told = <<>>
  <2>1. told = Select(Asked(parsed, input.skipBad), 1)
    BY <1>8, <1>9, ToldIs
  <2>2. 0 + 1 \notin Asked(parsed, input.skipBad)
    BY <1>8 DEF Asked
  <2>3. Select(Asked(parsed, input.skipBad), 0 + 1) = Select(Asked(parsed, input.skipBad), 0)
    BY <2>2, SelectSteps
  <2> QED
    BY <2>1, <2>3, SelectSteps
<1>11. Reports(got, parsed, told)
  BY <1>1, <1>10 DEF Reports
<1>12. at \in 0..Len(t) /\ lineNo \in Nat /\ got \in Seq(Told)
  BY <1>1, <1>3
<1>13. WholeLines(t, at) /\ lineNo = Len(NewlinesTo(t, at))
  BY <1>1, <1>4, <1>5
<1> QED
  BY <1>1, <1>2, <1>7, <1>9, <1>11, <1>12, <1>13 DEF LineInv

\* Reading a line tells of it if it is asked for.
LEMMA DecodeLineInv == LineInv /\ DecodeLine => LineInv'
<1> SUFFICES ASSUME LineInv, DecodeLine PROVE LineInv'
  OBVIOUS
<1>1. PICK t : t = input.text
  OBVIOUS
<1>2. PICK skip : skip = input.skipBad
  OBVIOUS
<1>3. PICK a : a = at
  OBVIOUS
<1>4. PICK e : e = LineEnd(t, a)
  OBVIOUS
<1>5. PICK m : m = lineNo
  OBVIOUS
<1>6. PICK g : g = got
  OBVIOUS
<1>7. /\ input \in Documents /\ a \in 0..Len(t) /\ m \in Nat /\ g \in Seq(Told)
      /\ WholeLines(t, a) \/ a = Len(t)
      /\ WholeLines(t, a) => m = Len(NewlinesTo(t, a))
      /\ Reports(g, Parsed(LinesTo(t, a)), ToldOf(Parsed(LinesTo(t, a)), skip))
  BY <1>1, <1>2, <1>3, <1>5, <1>6 DEF LineInv
<1>8. t \in Seq(STRING) /\ Len(t) \in Nat
  <2>1. t \in Seq(STRING)
    BY <1>1, <1>7, LineAssumption
  <2> QED
    BY <2>1
<1> DEFINE l == SubSeq(t, a + 1, e)
           p == ParseNTLine(l)
           q == ParseNQuadLine(l)
<1>9. /\ a < Len(t) /\ at' = e /\ lineNo' = m + 1 /\ input' = input
      /\ got' = CASE q.kind = "statement" -> Append(g, q)
                  [] q.kind = "malformed" /\ ~skip -> Append(g, [kind |-> "malformed", line |-> m + 1])
                  [] OTHER -> g
  BY <1>1, <1>2, <1>3, <1>4, <1>5, <1>6 DEF DecodeLine
<1>10. a # Len(t)
  BY <1>7, <1>8, <1>9
<1>11. WholeLines(t, a) /\ m = Len(NewlinesTo(t, a))
  BY <1>7, <1>10
<1>12. Grown(t, a, m)
  BY <1>8, <1>10, <1>11, LinesGrow
<1>13. PICK old : old = Parsed(LinesTo(t, a))
  OBVIOUS
<1>14. PICK new : new = Parsed(LinesTo(t, e))
  OBVIOUS
<1>15. ToldGrows(old, new, p, m, skip)
  BY <1>4, <1>8, <1>10, <1>11, <1>13, <1>14, NextIsTold
<1>16. q.kind = p.kind /\ (p.kind = "statement" => q.triple = p.triple)
  BY DEF ParseNQuadLine, GraphTerm
<1>17. e \in (a + 1)..Len(t) /\ (t[e] = "\n" \/ e = Len(t))
  BY <1>4, <1>12 DEF Grown
<1>18. t[e] = "\n" => m + 1 = Len(NewlinesTo(t, e))
  BY <1>4, <1>12 DEF Grown
<1>19. l \in Seq(STRING)
  <2>1. PICK n : n = Len(t)
    OBVIOUS
  <2>2. a \in 0..n /\ n \in Nat /\ e \in (a + 1)..n
    BY <1>7, <1>8, <1>17, <2>1
  <2>3. a \in Nat /\ e \in Nat /\ a < e /\ e <= n
    BY <2>2
  <2> QED
    BY <1>8, <2>1, <2>3
<1>20. PICK told : told = ToldOf(old, skip)
  OBVIOUS
<1>21. PICK r : r = IF q.kind = "statement" THEN q ELSE [kind |-> "malformed", line |-> m + 1]
  OBVIOUS
<1>22. r \in Told
  <2>1. q \in Told
    BY <1>19 DEF Told
  <2>2. [kind |-> "malformed", line |-> m + 1] \in Told
    BY <1>7 DEF Told
  <2> QED
    BY <1>21, <2>1, <2>2
<1> HIDE DEF l, p, q
<1>23. Reports(g, old, told) /\ told \in Seq(Nat) /\ (\A k \in 1..Len(told) : told[k] \in 1..m)
       /\ (\A n \in 1..m : new[n] = old[n]) /\ new[m + 1] = p
  <2>1. DOMAIN LinesTo(t, a) = 1..(m + 1) /\ m + 1 \in Nat
    BY <1>7, <1>8, <1>11, LastIsEmpty DEF NothingBehind
  <2>2. Results(old, m + 1)
    BY <1>13, <2>1, ParsedEach
  <2>3. told \in Seq(Nat)
    BY <1>20, <2>1, <2>2, ToldIs
  <2> QED
    BY <1>7, <1>13, <1>15, <1>20, <2>3 DEF ToldGrows
<1>24. PICK ask : ask = (p.kind = "statement" \/ (p.kind = "malformed" /\ ~skip))
  OBVIOUS
<1>25. ToldOf(new, skip) = IF ask THEN Append(told, m + 1) ELSE told
  BY <1>15, <1>20, <1>24 DEF ToldGrows
<1>26. got' = IF ask THEN Append(g, r) ELSE g
  BY <1>9, <1>16, <1>21, <1>24
<1>27. ask => ReportOf(r, new[m + 1], m + 1)
  BY <1>16, <1>21, <1>23, <1>24 DEF ReportOf
<1>28. /\ Reports(g, new, told)
       /\ \A x : ReportOf(x, new[m + 1], m + 1) => Reports(Append(g, x), new, Append(told, m + 1))
  BY <1>7, <1>23, ReportsMore
<1>29. Reports(got', new, ToldOf(new, skip))
  BY <1>25, <1>26, <1>27, <1>28
<1>30. got' \in Seq(Told)
  <2>1. Append(g, r) \in Seq(Told)
    BY <1>7, <1>22
  <2> QED
    BY <1>7, <1>26, <2>1
<1>31. e \in 0..Len(t) /\ m + 1 \in Nat /\ e # 0
  <2>1. PICK n : n = Len(t)
    OBVIOUS
  <2>2. a \in 0..n /\ n \in Nat /\ e \in (a + 1)..n
    BY <1>7, <1>8, <1>17, <2>1
  <2>3. e \in 0..n /\ e # 0
    BY <2>2
  <2> QED
    BY <1>7, <2>1, <2>3
<1>32. WholeLines(t, e) \/ e = Len(t)
  BY <1>17, <1>31 DEF WholeLines
<1>33. WholeLines(t, e) => m + 1 = Len(NewlinesTo(t, e))
  BY <1>18, <1>31 DEF WholeLines
<1>34. input'.text = t /\ input'.skipBad = skip
  BY <1>1, <1>2, <1>9
<1> QED
  BY <1>7, <1>9, <1>14, <1>29, <1>30, <1>31, <1>32, <1>33, <1>34 DEF LineInv

\* Every step of a stream keeps what holds of it.
LEMMA LineStepInv == LineInv /\ [LineNext]_lineVars => LineInv'
<1> SUFFICES ASSUME LineInv, [LineNext]_lineVars PROVE LineInv'
  OBVIOUS
<1>1. CASE DecodeLine
  BY <1>1, DecodeLineInv
<1>2. CASE LinesEnd
  BY <1>2 DEF LinesEnd, LineInv
<1>3. CASE UNCHANGED lineVars
  BY <1>3 DEF lineVars, LineInv
<1> QED
  BY <1>1, <1>2, <1>3 DEF LineNext

\* What holds of a stream is that it agrees with the parser.
LEMMA LinesAgree == LineInv => LinesAreParsing
<1> SUFFICES ASSUME LineInv PROVE LinesAreParsing
  OBVIOUS
<1>1. PICK t : t = input.text
  OBVIOUS
<1>2. PICK skip : skip = input.skipBad
  OBVIOUS
<1>3. PICK seen : seen = SubSeq(t, 1, at)
  OBVIOUS
<1>4. PICK parsed : parsed = Parsed(SplitLines(seen))
  OBVIOUS
<1>5. PICK told : told = ToldOf(parsed, skip)
  OBVIOUS
<1>6. got \in Seq(Told) /\ Reports(got, parsed, told) /\ at \in 0..Len(t) /\ input \in Documents
  BY <1>1, <1>2, <1>3, <1>4, <1>5 DEF LineInv, LinesTo
<1>7. t \in Seq(STRING)
  BY <1>1, <1>6, LineAssumption
<1>8. ~skip => SameStart(got, parsed)
  <2>1. PICK n \in Nat : DOMAIN SplitLines(seen) = 1..n
    <3>1. PICK m \in Nat : m = Len(NewlinesTo(t, at))
      BY <1>6, <1>7, LinesOfBeginning
    <3>2. DOMAIN LinesTo(t, at) = 1..(m + 1)
      BY <1>6, <1>7, <3>1, LinesOfBeginning
    <3> QED
      BY <1>3, <3>2 DEF LinesTo
  <2>2. Results(parsed, n)
    BY <1>4, <2>1, ParsedEach
  <2> QED
    BY <1>5, <1>6, <2>2, ReportsStart
<1>9. /\ ParseNTriples(seen).triples = TriplesTo(parsed)
      /\ ParseNTriples(seen).bad = BadOf(parsed)
  BY <1>4, ParseNTriplesIs
<1>10. LinesAreParsing <=>
         (input.format = "nquads" =>
           /\ Reports(got, parsed, told)
           /\ ~skip =>
                /\ ParseNTriples(seen).triples = [k \in 1..(FirstMalformed(got) - 1) |-> got[k].triple]
                /\ FirstMalformed(got) <= Len(got) => ParseNTriples(seen).bad = got[FirstMalformed(got)].line)
  BY <1>1, <1>2, <1>3, <1>4, <1>5 DEF LinesAreParsing, Reports
<1> QED
  BY <1>6, <1>8, <1>9, <1>10 DEF SameStart

\* Reading N-Quads line by line, for any number of lines and past every malformed
\* one, tells what parsing the document tells, in the same order.
THEOREM LinesAlwaysAgree == LineSpec => []LinesAreParsing
<1>1. LineSpec => []LineInv
  BY LineInitInv, LineStepInv, PTL DEF LineSpec
<1> QED
  BY <1>1, LinesAgree, PTL
===============================================================================
