--------------------------- MODULE SelectionTheorems ---------------------------
(***************************************************************************)
(* Induction and primitive recursion over the natural numbers, stated for  *)
(* sets and functions, and what follows from them for Select.  (The rules  *)
(* of NaturalsInduction take an operator, which no prover can supply.)     *)
(***************************************************************************)
EXTENDS Selection, FiniteSetTheorems, WellFoundedInduction, TLAPS

\* A set of numbers that is not empty has a least one.
LEMMA Least ==
  ASSUME NEW T \in SUBSET Nat, T # {}
  PROVE  \E m \in T : \A n \in T : m <= n
<1> DEFINE R == OpToRel(<, Nat)
<1>1. \E x \in T : \A y \in T : ~(<<y, x>> \in R)
  BY NatLessThanWellFounded, WFMin
<1>2. \A x, y \in Nat : <<y, x>> \in R <=> y < x
  BY DEF OpToRel
<1> HIDE DEF R
<1>3. PICK m \in T : \A y \in T : ~(<<y, m>> \in R)
  BY <1>1
<1>4. ASSUME NEW n \in T PROVE m <= n
  <2>1. m \in Nat /\ n \in Nat
    OBVIOUS
  <2>2. ~(<<n, m>> \in R)
    BY <1>3
  <2>3. ~(n < m)
    BY <1>2, <2>1, <2>2
  <2> QED
    BY <2>1, <2>3
<1> QED
  BY <1>4

\* A set of numbers that has 0, and with a number the next, has all.
LEMMA InductionBySet ==
  ASSUME NEW T, 0 \in T, \A n \in Nat : n \in T => n + 1 \in T
  PROVE  Nat \subseteq T
<1> DEFINE N == Nat \ T
<1>1. SUFFICES ASSUME N # {} PROVE FALSE
  OBVIOUS
<1>2. PICK m \in N : \A n \in N : m <= n
  <2>1. N \in SUBSET Nat
    OBVIOUS
  <2> HIDE DEF N
  <2> QED BY <1>1, <2>1, Least
<1>3. m \in Nat /\ m # 0 /\ m - 1 \in Nat /\ m - 1 + 1 = m
  BY <1>2
<1>4. m - 1 \in T
  BY <1>2, <1>3
<1> QED
  BY <1>2, <1>3, <1>4

\* The functions with a given first value, and each further one made from the one before.
Iterates(S, b, step) ==
  {f \in [Nat -> S] : f[0] = b /\ \A n \in Nat : f[n + 1] = step[n][f[n]]}

\* A first value and a function that makes each value from the one before define
\* a function of all numbers.
LEMMA Recursion ==
  ASSUME NEW S, NEW b \in S, NEW step \in [Nat -> [S -> S]]
  PROVE  \E f : f \in Iterates(S, b, step)
<1> DEFINE Upto(n, f) == f \in [0..n -> S] /\ f[0] = b /\ \A i \in 0..(n-1) : f[i + 1] = step[i][f[i]]
           T == {n \in Nat : \E f \in [0..n -> S] : Upto(n, f)}
<1>1. 0 \in T
  <2>1. [i \in 0..0 |-> b] \in [0..0 -> S] /\ Upto(0, [i \in 0..0 |-> b])
    OBVIOUS
  <2> QED BY <2>1
<1>2. ASSUME NEW n \in Nat, n \in T PROVE n + 1 \in T
  <2>1. PICK f \in [0..n -> S] : Upto(n, f)
    BY <1>2
  <2> DEFINE g == [i \in 0..(n+1) |-> IF i = n + 1 THEN step[n][f[n]] ELSE f[i]]
  <2>2. g \in [0..(n+1) -> S] 
    BY <2>1
  <2>3. Upto(n+1, g)
    BY <2>1, <2>2
  <2> HIDE DEF Upto, g
  <2> QED BY <2>2, <2>3
<1>3. \A n \in Nat : \E f : Upto(n, f)
  <2>1. Nat \subseteq T
    <3> HIDE DEF T
    <3> QED BY <1>1, <1>2, InductionBySet
  <2> QED BY <2>1
<1>4. ASSUME NEW n \in Nat, NEW m \in Nat, NEW f, NEW g, Upto(n, f), Upto(m, g)
      PROVE \A i \in Nat : i <= n /\ i <= m => f[i] = g[i]
  <2> DEFINE E == {i \in Nat : i <= n /\ i <= m => f[i] = g[i]}
  <2>1. 0 \in E
    BY <1>4
  <2>2. ASSUME NEW i \in Nat, i \in E PROVE i + 1 \in E
    BY <1>4, <2>2
  <2>3. Nat \subseteq E
    <3> HIDE DEF E
    <3> QED BY <2>1, <2>2, InductionBySet
  <2> QED BY <2>3
<1> DEFINE up == [n \in Nat |-> CHOOSE f : Upto(n, f)]
           h == [n \in Nat |-> up[n][n]]
<1>5. \A n \in Nat : Upto(n, up[n])
  BY <1>3
<1> HIDE DEF up
<1>6. h \in [Nat -> S]
  BY <1>5
<1>7. h[0] = b
  BY <1>5
<1>8. ASSUME NEW n \in Nat PROVE h[n + 1] = step[n][h[n]]
  <2>1. Upto(n, up[n]) /\ Upto(n + 1, up[n+1])
    BY <1>5
  <2>2. up[n][n] = up[n+1][n]
    <3> HIDE DEF Upto
    <3> QED BY <2>1, <1>4
  <2>3. up[n+1][n+1] = step[n][up[n+1][n]]
    <3>1. n \in 0..((n + 1) - 1)
      OBVIOUS
    <3> QED BY <2>1, <3>1
  <2> QED BY <2>2, <2>3
<1> HIDE DEF h, Upto
<1>9. h \in Iterates(S, b, step)
  BY <1>6, <1>7, <1>8 DEF Iterates
<1> QED BY <1>9

\* The sums of the first terms of a series of numbers.
LEMMA PartialSums ==
  ASSUME NEW c
  PROVE  c \in [Nat -> Nat] =>
           \E f \in [Nat -> Nat] : f[0] = 0 /\ \A n \in Nat : f[n + 1] = f[n] + c[n + 1]
<1> DEFINE step == [n \in Nat |-> [x \in Nat |-> x + c[n + 1]]]
<1>1. SUFFICES ASSUME c \in [Nat -> Nat]
               PROVE  \E f \in [Nat -> Nat] : f[0] = 0 /\ \A n \in Nat : f[n + 1] = f[n] + c[n + 1]
  OBVIOUS
<1>2. step \in [Nat -> [Nat -> Nat]] /\ \A n \in Nat, x \in Nat : step[n][x] = x + c[n + 1]
  BY <1>1
<1> HIDE DEF step
<1>3. PICK f : f \in Iterates(Nat, 0, step)
  BY <1>2, Recursion
<1>4. f \in [Nat -> Nat] /\ f[0] = 0 /\ \A n \in Nat : f[n + 1] = step[n][f[n]]
  BY <1>3 DEF Iterates
<1>5. \A n \in Nat : f[n + 1] = f[n] + c[n + 1]
  BY <1>2, <1>4
<1> QED
  BY <1>4, <1>5

-----------------------------------------------------------------------------
\* The recursion that defines Select has a solution, which it therefore is.
LEMMA SelectFunction ==
  ASSUME NEW T
  PROVE  \E h : /\ h = [i \in Nat |-> IF i = 0 THEN <<>>
                                      ELSE IF i \in T THEN Append(h[i - 1], i)
                                      ELSE h[i - 1]]
                /\ \A n \in Nat : Select(T, n) = h[n]
<1> DEFINE eq(f) == f = [i \in Nat |-> IF i = 0 THEN <<>>
                                       ELSE IF i \in T THEN Append(f[i - 1], i)
                                       ELSE f[i - 1]]
           step == [n \in Nat |-> [s \in Seq(Nat) |->
                      IF n + 1 \in T THEN Append(s, n + 1) ELSE s]]
<1>1. step \in [Nat -> [Seq(Nat) -> Seq(Nat)]] /\ <<>> \in Seq(Nat)
  OBVIOUS
<1>2. \A n \in Nat, s \in Seq(Nat) : step[n][s] = IF n + 1 \in T THEN Append(s, n + 1) ELSE s
  OBVIOUS
<1>3. PICK g : g \in Iterates(Seq(Nat), <<>>, step)
  <2> HIDE DEF step, eq
  <2> QED
    BY <1>1, Recursion
<1>4. g \in [Nat -> Seq(Nat)] /\ g[0] = <<>> /\ \A n \in Nat : g[n + 1] = step[n][g[n]]
  <2> HIDE DEF step, eq
  <2> QED
    BY <1>3 DEF Iterates
<1>5. \A n \in Nat : g[n + 1] = IF n + 1 \in T THEN Append(g[n], n + 1) ELSE g[n]
  <2> HIDE DEF step
  <2> QED
    BY <1>2, <1>4
<1>6. eq(g)
  <2>1. ASSUME NEW i \in Nat
        PROVE  g[i] = IF i = 0 THEN <<>> ELSE IF i \in T THEN Append(g[i - 1], i) ELSE g[i - 1]
    <3>1. i # 0 => i - 1 \in Nat /\ (i - 1) + 1 = i
      OBVIOUS
    <3> QED
      BY <1>4, <1>5, <3>1
  <2> QED
    BY <1>4, <2>1
<1> DEFINE h == CHOOSE f : eq(f)
<1>7. eq(h)
  <2> HIDE DEF eq
  <2> QED
    BY <1>6
<1>8. \A n \in Nat : Select(T, n) = h[n]
  BY DEF Select
<1> QED
  BY <1>7, <1>8

\* Select by its recursion: nothing of nothing, and position n + 1 joins what is
\* selected of the first n if it is in T.
LEMMA SelectSteps ==
  ASSUME NEW T
  PROVE  /\ Select(T, 0) = <<>>
         /\ \A n \in Nat : Select(T, n) \in Seq(Nat)
         /\ \A n \in Nat : n + 1 \in T => Select(T, n + 1) = Append(Select(T, n), n + 1)
         /\ \A n \in Nat : n + 1 \notin T => Select(T, n + 1) = Select(T, n)
<1>1. PICK h : /\ h = [i \in Nat |-> IF i = 0 THEN <<>>
                                     ELSE IF i \in T THEN Append(h[i - 1], i)
                                     ELSE h[i - 1]]
               /\ \A n \in Nat : Select(T, n) = h[n]
  BY SelectFunction
<1>2. h[0] = <<>>
  BY <1>1
<1>3. ASSUME NEW n \in Nat
      PROVE  /\ n + 1 \in T => h[n + 1] = Append(h[n], n + 1)
             /\ n + 1 \notin T => h[n + 1] = h[n]
  <2>1. n + 1 \in Nat /\ n + 1 # 0 /\ (n + 1) - 1 = n
    OBVIOUS
  <2>2. h[n + 1] = IF n + 1 \in T THEN Append(h[(n + 1) - 1], n + 1) ELSE h[(n + 1) - 1]
    BY <1>1, <2>1
  <2> QED
    BY <2>1, <2>2
<1>4. Nat \subseteq {n \in Nat : h[n] \in Seq(Nat)}
  <2> DEFINE S == {n \in Nat : h[n] \in Seq(Nat)}
  <2>1. 0 \in S
    <3>1. <<>> \in Seq(Nat)
      OBVIOUS
    <3> QED
      BY <1>2, <3>1, Zenon
  <2>2. ASSUME NEW n \in Nat, n \in S PROVE n + 1 \in S
    <3>1. h[n] \in Seq(Nat) /\ n + 1 \in Nat
      BY <2>2
    <3>2. Append(h[n], n + 1) \in Seq(Nat)
      BY <3>1
    <3> QED
      BY <1>3, <3>1, <3>2
  <2> HIDE DEF S
  <2>3. Nat \subseteq S
    BY <2>1, <2>2, InductionBySet
  <2> QED
    BY <2>3 DEF S
<1>5. 0 \in Nat /\ \A n \in Nat : n + 1 \in Nat
  OBVIOUS
<1> QED
  BY <1>1, <1>2, <1>3, <1>4, <1>5

\* What is selected of a beginning begins what is selected of more.
LEMMA SelectBegins ==
  ASSUME NEW T, NEW m \in Nat, NEW n \in Nat, m <= n
  PROVE  /\ Len(Select(T, m)) <= Len(Select(T, n))
         /\ \A k \in 1..Len(Select(T, m)) : Select(T, n)[k] = Select(T, m)[k]
<1> DEFINE part(i) == /\ Len(Select(T, m)) <= Len(Select(T, m + i))
                      /\ \A k \in 1..Len(Select(T, m)) : Select(T, m + i)[k] = Select(T, m)[k]
           S == {i \in Nat : part(i)}
<1>1. ASSUME NEW i \in Nat PROVE Select(T, i) \in Seq(Nat) /\ Len(Select(T, i)) \in Nat
  <2>1. Select(T, i) \in Seq(Nat)
    BY SelectSteps
  <2> QED
    BY <2>1
<1>2. 0 \in S
  BY <1>1
<1>3. ASSUME NEW i \in Nat, i \in S PROVE i + 1 \in S
  <2> DEFINE s == Select(T, m) t == Select(T, m + i) u == Select(T, m + (i + 1))
  <2>1. u = t \/ u = Append(t, m + i + 1)
    <3>1. m + i \in Nat /\ m + (i + 1) = (m + i) + 1
      OBVIOUS
    <3>2. \/ Select(T, (m + i) + 1) = Append(Select(T, m + i), (m + i) + 1)
          \/ Select(T, (m + i) + 1) = Select(T, m + i)
      BY <3>1, SelectSteps
    <3> QED
      BY <3>1, <3>2
  <2>2. s \in Seq(Nat) /\ t \in Seq(Nat) /\ Len(s) \in Nat /\ Len(t) \in Nat
    BY <1>1
  <2>3. Len(s) <= Len(t) /\ \A k \in 1..Len(s) : t[k] = s[k]
    BY <1>3
  <2> HIDE DEF s, t, u
  <2>4. Len(s) <= Len(u) /\ \A k \in 1..Len(s) : u[k] = s[k]
    BY <2>1, <2>2, <2>3
  <2> QED
    BY <2>4 DEF s, u
<1>4. n - m \in S
  <2>1. Nat \subseteq S
    <3> HIDE DEF S
    <3> QED
      BY <1>2, <1>3, InductionBySet
  <2> QED
    BY <2>1
<1> QED
  BY <1>4

\* A selected position is behind what is selected before it.
LEMMA SelectNext ==
  ASSUME NEW T, NEW m \in Nat, NEW n \in Nat, m < n, m + 1 \in T
  PROVE  /\ Len(Select(T, m)) < Len(Select(T, n))
         /\ Select(T, n)[Len(Select(T, m)) + 1] = m + 1
         /\ Select(T, m + 1) = Append(Select(T, m), m + 1)
<1> DEFINE s == Select(T, m) t == Select(T, m + 1) u == Select(T, n)
<1>1. s \in Seq(Nat) /\ t \in Seq(Nat) /\ u \in Seq(Nat) /\ t = Append(s, m + 1)
  <2>1. m + 1 \in Nat
    OBVIOUS
  <2> QED
    BY <2>1, SelectSteps
<1>2. Len(t) <= Len(u) /\ \A k \in 1..Len(t) : u[k] = t[k]
  BY SelectBegins
<1> HIDE DEF s, t, u
<1>3. Len(s) < Len(u) /\ u[Len(s) + 1] = m + 1
  BY <1>1, <1>2
<1> QED
  BY <1>1, <1>3 DEF s, t, u

\* Nothing more is selected where nothing more is to be.
LEMMA SelectSame ==
  ASSUME NEW T, NEW m \in Nat, NEW n \in Nat, m <= n, \A i \in (m + 1)..n : i \notin T
  PROVE  Select(T, n) = Select(T, m)
<1> DEFINE S == {i \in Nat : m + i <= n => Select(T, m + i) = Select(T, m)}
<1>1. 0 \in S
  OBVIOUS
<1>2. ASSUME NEW i \in Nat, i \in S PROVE i + 1 \in S
  <2>1. m + i \in Nat /\ m + (i + 1) = (m + i) + 1
    OBVIOUS
  <2>2. (m + i) + 1 \notin T => Select(T, (m + i) + 1) = Select(T, m + i)
    BY <2>1, SelectSteps
  <2> QED
    BY <1>2, <2>1, <2>2
<1>3. n - m \in S
  <2>1. Nat \subseteq S
    <3> HIDE DEF S
    <3> QED
      BY <1>1, <1>2, InductionBySet
  <2> QED
    BY <2>1
<1> QED
  BY <1>3

\* Only positions that are in T, and not behind n, are selected.
LEMMA SelectOnly ==
  ASSUME NEW T, NEW n \in Nat
  PROVE  \A k \in 1..Len(Select(T, n)) : Select(T, n)[k] \in T /\ Select(T, n)[k] \in 1..n
<1> DEFINE only(i) == \A k \in 1..Len(Select(T, i)) :
                        Select(T, i)[k] \in T /\ Select(T, i)[k] \in 1..i
           S == {i \in Nat : only(i)}
<1>1. 0 \in S
  BY SelectSteps
<1>2. ASSUME NEW i \in Nat, i \in S PROVE i + 1 \in S
  <2> DEFINE s == Select(T, i) t == Select(T, i + 1)
  <2>1. s \in Seq(Nat) /\ (t = s \/ (t = Append(s, i + 1) /\ i + 1 \in T))
    BY SelectSteps
  <2>2. \A k \in 1..Len(s) : s[k] \in T /\ s[k] \in 1..i
    BY <1>2
  <2> HIDE DEF s, t
  <2>3. ASSUME NEW k \in 1..Len(t) PROVE t[k] \in T /\ t[k] \in 1..(i + 1)
    <3>1. CASE t = s
      BY <2>2, <3>1
    <3>2. CASE t = Append(s, i + 1) /\ i + 1 \in T
      <4>1. Len(t) = Len(s) + 1 /\ t[Len(s) + 1] = i + 1 /\ Len(s) \in Nat
        BY <2>1, <3>2
      <4>2. CASE k = Len(s) + 1
        BY <3>2, <4>1, <4>2
      <4>3. CASE k # Len(s) + 1
        <5>1. k \in 1..Len(s) /\ t[k] = s[k]
          BY <2>1, <3>2, <4>1, <4>3
        <5> QED
          BY <2>2, <5>1
      <4> QED
        BY <4>2, <4>3
    <3> QED
      BY <2>1, <3>1, <3>2
  <2> QED
    BY <2>3 DEF t
<1>3. n \in S
  <2> HIDE DEF S
  <2> QED
    BY <1>1, <1>2, InductionBySet
<1> QED
  BY <1>3

\* What is selected of the first n depends on nothing behind them.
LEMMA SelectAgrees ==
  ASSUME NEW T, NEW U, NEW n \in Nat, \A i \in 1..n : i \in T <=> i \in U
  PROVE  Select(T, n) = Select(U, n)
<1> DEFINE S == {i \in Nat : i <= n => Select(T, i) = Select(U, i)}
<1>1. 0 \in S
  BY SelectSteps
<1>2. ASSUME NEW i \in Nat, i \in S PROVE i + 1 \in S
  <2>1. SUFFICES ASSUME i + 1 <= n PROVE Select(T, i + 1) = Select(U, i + 1)
    OBVIOUS
  <2>2. Select(T, i) = Select(U, i) /\ (i + 1 \in T <=> i + 1 \in U)
    BY <1>2, <2>1
  <2>3. CASE i + 1 \in T
    BY <2>2, <2>3, SelectSteps
  <2>4. CASE i + 1 \notin T
    BY <2>2, <2>4, SelectSteps
  <2> QED
    BY <2>3, <2>4
<1>3. n \in S
  <2> HIDE DEF S
  <2> QED
    BY <1>1, <1>2, InductionBySet
<1> QED
  BY <1>3

\* Every position of T is selected.
LEMMA SelectAll ==
  ASSUME NEW T, NEW n \in Nat, NEW i \in 1..n, i \in T
  PROVE  \E k \in 1..Len(Select(T, n)) : Select(T, n)[k] = i
<1>1. i - 1 \in Nat /\ i - 1 < n /\ (i - 1) + 1 = i
  OBVIOUS
<1>2. /\ Len(Select(T, i - 1)) < Len(Select(T, n))
      /\ Select(T, n)[Len(Select(T, i - 1)) + 1] = i
  BY <1>1, SelectNext
<1>3. Select(T, i - 1) \in Seq(Nat) /\ Select(T, n) \in Seq(Nat)
  BY <1>1, SelectSteps
<1>4. Len(Select(T, i - 1)) + 1 \in 1..Len(Select(T, n))
  BY <1>2, <1>3
<1> QED
  BY <1>2, <1>4

\* As many positions are selected as there are.
LEMMA SelectCounts ==
  ASSUME NEW T, NEW n \in Nat
  PROVE  /\ IsFiniteSet(T \cap 1..n)
         /\ Len(Select(T, n)) = Cardinality(T \cap 1..n)
<1> DEFINE S == {i \in Nat : /\ IsFiniteSet(T \cap 1..i)
                             /\ Len(Select(T, i)) = Cardinality(T \cap 1..i)}
<1>1. 0 \in S
  <2>1. T \cap 1..0 = {} /\ Len(Select(T, 0)) = 0
    BY SelectSteps
  <2> QED
    BY <2>1, FS_EmptySet
<1>2. ASSUME NEW i \in Nat, i \in S PROVE i + 1 \in S
  <2>1. Select(T, i) \in Seq(Nat) /\ i + 1 \in Nat
    BY SelectSteps
  <2>2. CASE i + 1 \in T
    <3>1. T \cap 1..(i + 1) = (T \cap 1..i) \cup {i + 1} /\ i + 1 \notin T \cap 1..i
      BY <2>2
    <3>2. Select(T, i + 1) = Append(Select(T, i), i + 1)
      BY <2>2, SelectSteps
    <3>3. Len(Select(T, i + 1)) = Len(Select(T, i)) + 1
      BY <2>1, <3>2
    <3>4. /\ IsFiniteSet(T \cap 1..(i + 1))
          /\ Cardinality(T \cap 1..(i + 1)) = Cardinality(T \cap 1..i) + 1
      <4> DEFINE old == T \cap 1..i new == T \cap 1..(i + 1)
      <4>1. IsFiniteSet(old) /\ new = old \cup {i + 1} /\ i + 1 \notin old
        BY <1>2, <3>1
      <4> HIDE DEF old, new
      <4>2. IsFiniteSet(new) /\ Cardinality(new) = Cardinality(old) + 1
        BY <4>1, FS_AddElement
      <4> QED
        BY <4>2 DEF old, new
    <3> QED
      BY <1>2, <2>1, <3>3, <3>4
  <2>3. CASE i + 1 \notin T
    <3>1. T \cap 1..(i + 1) = T \cap 1..i
      BY <2>3
    <3>2. Select(T, i + 1) = Select(T, i)
      BY <2>3, SelectSteps
    <3> QED
      BY <1>2, <2>1, <3>1, <3>2
  <2> QED
    BY <2>2, <2>3
<1>3. n \in S
  <2> HIDE DEF S
  <2> QED
    BY <1>1, <1>2, InductionBySet
<1> QED
  BY <1>3

\* V has the places in a selection of T of what is in W, a part of T, ...
PlacesOf(V, W, T, n) ==
  W \subseteq T /\ \A k \in 1..Len(Select(T, n)) : k \in V <=> Select(T, n)[k] \in W
\* ... and selecting by them from it selects W.
SelectsAgain(V, W, T, n) ==
  /\ Len(Select(V, Len(Select(T, n)))) = Len(Select(W, n))
  /\ \A k \in 1..Len(Select(W, n)) : Select(W, n)[k] = Select(T, n)[Select(V, Len(Select(T, n)))[k]]

\* To select W from what is selected by T is to select by W at once.
LEMMA SelectAgain ==
  ASSUME NEW T, NEW W, NEW n \in Nat, NEW V, PlacesOf(V, W, T, n)
  PROVE  SelectsAgain(V, W, T, n)
<1> W \subseteq T /\ \A k \in 1..Len(Select(T, n)) : k \in V <=> Select(T, n)[k] \in W
  BY DEF PlacesOf
<1> SUFFICES /\ Len(Select(V, Len(Select(T, n)))) = Len(Select(W, n))
             /\ \A k \in 1..Len(Select(W, n)) : Select(W, n)[k] = Select(T, n)[Select(V, Len(Select(T, n)))[k]]
  BY DEF SelectsAgain
<1> DEFINE sel(i) == Select(T, i)
           sub(i) == Select({k \in DOMAIN sel(i) : sel(i)[k] \in W}, Len(sel(i)))
           both(i) == Select(W, i)
           S == {i \in Nat : /\ Len(both(i)) = Len(sub(i))
                             /\ \A k \in 1..Len(sub(i)) : both(i)[k] = sel(i)[sub(i)[k]]}
<1>0. ASSUME NEW i \in Nat
      PROVE  sel(i) \in Seq(Nat) /\ sub(i) \in Seq(Nat) /\ both(i) \in Seq(Nat) /\ Len(sel(i)) \in Nat
  <2>1. sel(i) \in Seq(Nat) /\ both(i) \in Seq(Nat)
    BY SelectSteps
  <2>2. Len(sel(i)) \in Nat
    BY <2>1
  <2> QED
    BY <2>1, <2>2, SelectSteps
<1>1. 0 \in S
  <2>1. sel(0) = <<>> /\ both(0) = <<>>
    BY SelectSteps
  <2>2. Len(sel(0)) = 0
    BY <2>1
  <2>3. sub(0) = <<>>
    BY <2>2, SelectSteps
  <2> HIDE DEF sel, sub, both
  <2>4. Len(both(0)) = Len(sub(0)) /\ \A k \in 1..Len(sub(0)) : both(0)[k] = sel(0)[sub(0)[k]]
    BY <2>1, <2>3
  <2> QED
    BY <2>4
<1>2. ASSUME NEW i \in Nat, i \in S PROVE i + 1 \in S
  <2> DEFINE s == sel(i) s1 == sel(i + 1) g == sub(i) g1 == sub(i + 1) c == both(i) c1 == both(i + 1)
             m == Len(s)
  <2>1. /\ s \in Seq(Nat) /\ g \in Seq(Nat) /\ c \in Seq(Nat) /\ m \in Nat
        /\ Len(c) = Len(g) /\ \A k \in 1..Len(g) : c[k] = s[g[k]]
    BY <1>0, <1>2
  <2>2. i + 1 \in T => s1 = Append(s, i + 1)
    BY SelectSteps
  <2>3. i + 1 \notin T => s1 = s /\ g1 = g /\ c1 = c
    <3>1. i + 1 \notin T => i + 1 \notin W
      OBVIOUS
    <3> QED
      BY <3>1, SelectSteps
  <2>4. i + 1 \in W => c1 = Append(c, i + 1)
    BY SelectSteps
  <2>5. i + 1 \notin W => c1 = c
    BY SelectSteps
  <2>6. \A k \in 1..Len(g) : g[k] \in 1..m
    <3>1. \A k \in 1..Len(Select({j \in DOMAIN s : s[j] \in W}, m)) :
             Select({j \in DOMAIN s : s[j] \in W}, m)[k] \in 1..m
      BY <2>1, SelectOnly
    <3> QED
      BY <3>1
  <2> HIDE DEF s, s1, c, c1
  <2>10. m \in Nat /\ m = Len(s)
    BY <2>1
  <2> HIDE DEF m, g, g1
  <2>0. s \in Seq(Nat) /\ m \in Nat /\ m = Len(s) /\ i + 1 \in Nat
    BY <2>1, <2>10
  <2> USE DEF g, g1
  <2>7. ASSUME i + 1 \in T
        PROVE  /\ i + 1 \in W => g1 = Append(g, m + 1)
               /\ i + 1 \notin W => g1 = g
    <3> DEFINE before == {k \in DOMAIN s : s[k] \in W}
               now == {k \in DOMAIN s1 : s1[k] \in W}
    <3>1. s1 = Append(s, i + 1)
      BY <2>2, <2>7
    <3>2. /\ Len(s1) = m + 1 /\ DOMAIN s = 1..m /\ DOMAIN s1 = 1..(m + 1)
          /\ s1[m + 1] = i + 1 /\ \A k \in 1..m : s1[k] = s[k]
      BY <2>0, <3>1
    <3>3. \A k \in 1..m : k \in now <=> k \in before
      <4>1. ASSUME NEW k \in 1..m PROVE k \in now <=> k \in before
        <5>1. k \in 1..(m + 1)
          BY <2>0
        <5> QED
          BY <3>2, <5>1
      <4> QED
        BY <4>1
    <3>4. m + 1 \in now <=> i + 1 \in W
      <4>1. m + 1 \in 1..(m + 1)
        BY <2>0
      <4> QED
        BY <3>2, <4>1
    <3> HIDE DEF before, now
    <3>5. Select(now, m) = Select(before, m)
      BY <2>1, <3>3, SelectAgrees
    <3>6. /\ m + 1 \in now => Select(now, m + 1) = Append(Select(now, m), m + 1)
          /\ m + 1 \notin now => Select(now, m + 1) = Select(now, m)
      BY <2>1, SelectSteps
    <3>7. g = Select(before, m) /\ g1 = Select(now, m + 1)
      <4>1. g = Select({k \in DOMAIN s : s[k] \in W}, Len(s))
        BY DEF s
      <4>2. g1 = Select({k \in DOMAIN s1 : s1[k] \in W}, Len(s1))
        BY DEF s1
      <4> QED
        BY <3>2, <4>1, <4>2 DEF before, now, m
    <3> HIDE DEF g, g1
    <3> QED
      BY <3>4, <3>5, <3>6, <3>7
  <2> HIDE DEF g, g1
  <2>8. Len(c1) = Len(g1) /\ \A k \in 1..Len(g1) : c1[k] = s1[g1[k]]
    <3>1. CASE i + 1 \notin T
      BY <2>1, <2>3, <3>1
    <3>2. CASE i + 1 \in T /\ i + 1 \notin W
      <4>1. g1 = g /\ c1 = c /\ s1 = Append(s, i + 1)
        BY <2>2, <2>5, <2>7, <3>2
      <4>2. \A k \in 1..m : s1[k] = s[k]
        BY <2>1, <4>1 DEF m
      <4> QED
        BY <2>1, <2>6, <4>1, <4>2
    <3>3. CASE i + 1 \in T /\ i + 1 \in W
      <4>1. g1 = Append(g, m + 1) /\ c1 = Append(c, i + 1) /\ s1 = Append(s, i + 1)
        BY <2>2, <2>4, <2>7, <3>3
      <4>2. (\A k \in 1..m : s1[k] = s[k]) /\ s1[m + 1] = i + 1
        BY <2>1, <4>1 DEF m
      <4>3. Len(g1) = Len(g) + 1 /\ Len(c1) = Len(c) + 1 /\ Len(g) \in Nat
        BY <2>1, <4>1
      <4>4. ASSUME NEW k \in 1..Len(g1) PROVE c1[k] = s1[g1[k]]
        <5>1. CASE k = Len(g) + 1
          <6>1. g1[k] = m + 1 /\ c1[k] = i + 1
            BY <2>1, <4>1, <5>1
          <6> QED
            BY <4>2, <6>1
        <5>2. CASE k # Len(g) + 1
          <6>1. k \in 1..Len(g) /\ k \in 1..Len(c)
            BY <2>1, <4>3, <5>2
          <6>2. g1[k] = g[k] /\ c1[k] = c[k]
            BY <2>1, <4>1, <6>1
          <6> QED
            BY <2>1, <2>6, <4>2, <6>1, <6>2
        <5> QED
          BY <5>1, <5>2
      <4> QED
        BY <2>1, <4>3, <4>4
    <3> QED
      BY <3>1, <3>2, <3>3
  <2>9. i + 1 \in Nat
    OBVIOUS
  <2> QED
    BY <2>8, <2>9 DEF s1, g1, c1
<1>3. n \in S
  <2> HIDE DEF S
  <2> QED
    BY <1>1, <1>2, InductionBySet
<1>4. sub(n) = Select(V, Len(Select(T, n)))
  <2> DEFINE s == Select(T, n)
  <2>1. s \in Seq(Nat) /\ Len(s) \in Nat /\ DOMAIN s = 1..Len(s)
    <3>1. s \in Seq(Nat)
      BY SelectSteps
    <3> QED
      BY <3>1
  <2> DEFINE V1 == {k \in DOMAIN s : s[k] \in W}
  <2>2. \A k \in 1..Len(s) : k \in V <=> k \in V1
    BY <2>1
  <2> HIDE DEF s, V1
  <2>3. Select(V, Len(s)) = Select(V1, Len(s))
    BY <2>1, <2>2, SelectAgrees
  <2> QED
    BY <2>3 DEF s, V1
<1> HIDE DEF sub
<1> QED
  BY <1>3, <1>4
=============================================================================
