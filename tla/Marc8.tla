--------------------------------- MODULE Marc8 ---------------------------------
(***************************************************************************)
(* internal/marc8: code points to MARC-8 bytes, with the tables and the    *)
(* sets of the Decoder.  A mark is written before its base, and an escape  *)
(* sequence before the first character of another set.                     *)
(***************************************************************************)
EXTENDS Marc8Decoder, FiniteSets

-----------------------------------------------------------------------------
\* How a code point is written, as the set and the bytes.
EncSingleSets == <<"cyrillic", "extCyrillic", "arabic", "extArabic", "greek", "symbols">>
ByteOf(table, r) ==   \* the lowest byte of those that mean r
  CHOOSE b \in DOMAIN table : table[b] = r /\ \A c \in DOMAIN table : table[c] = r => b <= c
Means(table, r) == \E b \in DOMAIN table : table[b] = r
EncodeSingle(r) ==
  LET has == {i \in DOMAIN EncSingleSets : Means(Single[EncSingleSets[i]].dec, r)}
      set == EncSingleSets[CHOOSE i \in has : \A j \in has : i <= j]
  IN IF has = {} THEN <<>> ELSE <<set, <<ByteOf(Single[set].dec, r)>>>>
CombiningByte(r) == IF Means(AnselCombining, r) THEN <<"ansel", <<ByteOf(AnselCombining, r)>>>> ELSE EncodeSingle(r)
EaccEncode(r) ==
  LET codes == {c \in DOMAIN Eacc : Eacc[c] = r}
      value(c) == c[1] * 65536 + c[2] * 256 + c[3]
  IN IF codes = {} THEN <<>>
     ELSE <<"eacc", CHOOSE c \in codes : \A o \in codes : value(c) <= value(o)>>
\* The base of r in its set, and the mark it contains; <<>> when no set has it.
Encoded(r) ==
  IF r < 128 THEN IF r \in Structural THEN <<>> ELSE <<"ascii", <<r>>>>
  ELSE IF Means(AnselGraphic, r) THEN <<"ansel", <<ByteOf(AnselGraphic, r)>>>>
  ELSE IF Means(Marc8Compose, r)
    THEN LET pair == CHOOSE p \in DOMAIN Marc8Compose : Marc8Compose[p] = r IN <<"ascii", <<pair[1]>>, pair[2]>>
  ELSE IF EncodeSingle(r) # <<>> THEN EncodeSingle(r) ELSE EaccEncode(r)

NewEncoder == [out |-> <<>>, g0 |-> "ascii", g1 |-> "ansel", ok |-> TRUE]
Designation(set, toG1) ==
  <<Escape, IF set = "eacc" THEN \h24 ELSE IF toG1 THEN \h29 ELSE \h28, Final(set)>>
Designate(e, set) ==
  LET toG1 == HomeG1(set)
  IN IF set = (IF toG1 THEN e.g1 ELSE e.g0) THEN e
     ELSE IF toG1 THEN [e EXCEPT !.g1 = set, !.out = @ \o Designation(set, TRUE)]
     ELSE [e EXCEPT !.g0 = set, !.out = @ \o Designation(set, FALSE)]
Emit(e, coded) == LET s == Designate(e, coded[1]) IN [s EXCEPT !.out = @ \o coded[2]]

RECURSIVE EmitMarks(_, _)
EmitMarks(e, marks) ==
  IF marks = <<>> THEN e ELSE EmitMarks(Emit(e, CombiningByte(marks[1])), Tail(marks))

\* The marks at the front of t that can be written.
MarksOf(t) ==
  LET n == CHOOSE n \in 0..Len(t) :
             /\ \A i \in 1..n : IsCombining(t[i]) /\ CombiningByte(t[i]) # <<>>
             /\ n < Len(t) => ~(IsCombining(t[n + 1]) /\ CombiningByte(t[n + 1]) # <<>>)
  IN SubSeq(t, 1, n)

RECURSIVE EncodeFrom(_, _)
EncodeFrom(e, t) ==
  IF t = <<>> \/ ~e.ok THEN e
  ELSE IF IsCombining(t[1])
    THEN IF CombiningByte(t[1]) = <<>> THEN [e EXCEPT !.ok = FALSE]
         ELSE EncodeFrom(Emit(e, CombiningByte(t[1])), Tail(t))
  ELSE IF Encoded(t[1]) = <<>> THEN [e EXCEPT !.ok = FALSE]
  ELSE LET coded == Encoded(t[1])
           marks == MarksOf(Tail(t))
           own == IF Len(coded) = 3 THEN <<coded[3]>> ELSE <<>>
       IN EncodeFrom(Emit(EmitMarks(e, own \o marks), coded), SubSeq(t, 2 + Len(marks), Len(t)))

\* Encode returns to the default sets, so each value stands by itself.
EncodeReset_KeepsG1(e) == Designate(e, "ascii")
EncodeReset(e) == Designate(Designate(e, "ascii"), "ansel")
Encode(t) == EncodeReset(EncodeFrom(NewEncoder, t))
===============================================================================
