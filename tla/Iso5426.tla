-------------------------------- MODULE Iso5426 --------------------------------
(***************************************************************************)
(* internal/iso5426: the extended Latin set of UNIMARC to code points and  *)
(* back.  Marks are stored before their base; there are no designations.   *)
(* The byte \hF9 is both a letter and a mark.                              *)
(***************************************************************************)
EXTENDS Naturals, Sequences, FiniteSets, TLC

Iso5426Graphic   == (\hE8 :> \h141) @@ (\hF1 :> \hE6) @@ (\hF9 :> \hF8)                 \* Ł æ ø
Iso5426Combining == (\hC2 :> \h301) @@ (\hC3 :> \h302) @@ (\hC8 :> \h308) @@ (\hC9 :> \h308)
                    @@ (\hD6 :> \h323) @@ (\hF9 :> \h32E)
Iso5426Compose   == (<<\hC2, \h61>> :> \hE1) @@ (<<\hC3, \h61>> :> \hE2) @@ (<<\hD6, \h61>> :> \h1EA1)
                    @@ (<<\hD6, \h68>> :> \h1E25) @@ (<<\hC2, \hF1>> :> \h1FD) @@ (<<\hF9, \h68>> :> \h1E2B)

GraphicRune(c) == IF c \in DOMAIN Iso5426Graphic THEN Iso5426Graphic[c] ELSE c   \* else Latin-1
DecodeRune(c)  == IF c < 128 THEN c ELSE GraphicRune(c)
Composing(base, mark) ==   \* the byte pairs that mean the base with the mark
  {k \in DOMAIN Iso5426Compose : DecodeRune(k[2]) = base /\ Iso5426Combining[k[1]] = mark}
WithMarks(base, marks) ==
  IF marks # <<>> /\ Composing(base, marks[1]) # {}
    THEN <<Iso5426Compose[CHOOSE k \in Composing(base, marks[1]) : TRUE]>> \o Tail(marks)
    ELSE <<base>> \o marks

\* Whether the byte at i of data is read as a mark: one that is a letter too only
\* when nothing is pending and it composes with the next byte.
ReadAsMark(data, i, pending) ==
  /\ data[i] \in DOMAIN Iso5426Combining
  /\ data[i] \in DOMAIN Iso5426Graphic =>
       pending = <<>> /\ i < Len(data) /\ <<data[i], data[i + 1]>> \in DOMAIN Iso5426Compose

\* The text and whether a byte had no meaning.
RECURSIVE DecodeIsoFrom(_, _, _)
DecodeIsoFrom(data, i, d) ==
  IF i > Len(data) THEN [text |-> d.text \o d.pending, lossy |-> d.lossy]
  ELSE DecodeIsoFrom(data, i + 1,
         IF ReadAsMark(data, i, d.pending) THEN [d EXCEPT !.pending = Append(@, Iso5426Combining[data[i]])]
         ELSE [text |-> d.text \o WithMarks(DecodeRune(data[i]), d.pending), pending |-> <<>>,
               lossy |-> d.lossy \/ (data[i] >= 128 /\ data[i] \notin DOMAIN Iso5426Graphic)])
DecodeLossy(data) == DecodeIsoFrom(data, 1, [text |-> <<>>, pending |-> <<>>, lossy |-> FALSE])

-----------------------------------------------------------------------------
\* The inverse tables; the lowest byte, or pair of bytes, is the one written.
LowestByte(bytes) == CHOOSE b \in bytes : \A c \in bytes : b <= c
EncGraphic(r)   == {b \in DOMAIN Iso5426Graphic : r >= 128 /\ Iso5426Graphic[b] = r}
EncCombining(r) == {b \in DOMAIN Iso5426Combining \ DOMAIN Iso5426Graphic : Iso5426Combining[b] = r}
EncPairs(r)     == {k \in DOMAIN Iso5426Compose : Iso5426Compose[k] = r}
EncCompose(r) ==
  CHOOSE k \in EncPairs(r) : \A o \in EncPairs(r) : k[1] < o[1] \/ (k[1] = o[1] /\ k[2] <= o[2])

\* The base with the marks gathered after it; <<>> when it cannot be written.
EncodeBase(r, outerMarks) ==
  IF r < 128 THEN IF r \in {\h1B, \h1D, \h1E, \h1F} THEN <<>> ELSE outerMarks \o <<r>>
  ELSE IF EncGraphic(r) # {} THEN outerMarks \o <<LowestByte(EncGraphic(r))>>
  ELSE IF EncPairs(r) # {} THEN <<EncCompose(r)[1]>> \o outerMarks \o <<EncCompose(r)[2]>>
  ELSE <<>>

\* How many marks begin t.
Marks(t) == CHOOSE n \in 0..Len(t) : /\ \A i \in 1..n : EncCombining(t[i]) # {}
                                     /\ n < Len(t) => EncCombining(t[n + 1]) = {}

RECURSIVE EncodeIsoFrom(_, _)
EncodeIsoFrom(e, t) ==
  IF t = <<>> \/ ~e.ok THEN e
  ELSE IF EncCombining(t[1]) # {} /\ (Len(t) = 1 \/ Composing(t[2], t[1]) = {})
    THEN EncodeIsoFrom([e EXCEPT !.out = Append(@, LowestByte(EncCombining(t[1])))], Tail(t))
  ELSE LET leading == EncCombining(t[1]) # {}   \* a mark and the base it composes with
           n == IF leading THEN 1 ELSE Marks(Tail(t))
           bytes == IF leading
                      THEN EncodeBase(Iso5426Compose[CHOOSE k \in Composing(t[2], t[1]) : TRUE], <<>>)
                      ELSE EncodeBase(t[1], [i \in 1..n |-> LowestByte(EncCombining(t[i + 1]))])
       IN EncodeIsoFrom([out |-> e.out \o bytes, ok |-> bytes # <<>>], SubSeq(t, n + 2, Len(t)))
EncodeIso5426(t) == EncodeIsoFrom([out |-> <<>>, ok |-> TRUE], t)
===============================================================================
