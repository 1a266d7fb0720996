------------------------------- MODULE Selection -------------------------------
(***************************************************************************)
(* The part of a sequence that has some property, given by the positions   *)
(* that have it: what SelectSeq makes of the sequence 1, 2, ..., n, as a   *)
(* recursive function that can be reasoned about.                          *)
(***************************************************************************)
EXTENDS Naturals, Sequences

\* The numbers of T from 1 to n, ascending.
Select(T, n) ==
  LET upTo[i \in Nat] == IF i = 0 THEN <<>>
                         ELSE IF i \in T THEN Append(upTo[i - 1], i)
                         ELSE upTo[i - 1]
  IN upTo[n]
================================================================================
