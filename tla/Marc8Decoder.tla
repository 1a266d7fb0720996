----------------------------- MODULE Marc8Decoder -----------------------------
(***************************************************************************)
(* internal/marc8: MARC-8 bytes to code points.  The two working sets, G0  *)
(* for bytes below \h80 and G1 for those above, are changed by escape      *)
(* sequences; combining marks are stored before their base.  Bytes and     *)
(* code points are numbers; of each table, entries enough to have a letter *)
(* or a mark of every kind are kept.                                       *)
(***************************************************************************)
EXTENDS Naturals, Sequences, TLC

Escape      == \h1B
Replacement == \hFFFD
Structural  == {\h1B, \h1D, \h1E, \h1F}   \* no data: escape and ISO 2709 separators

-----------------------------------------------------------------------------
\* Tables: ANSEL, the precomposed letters, and the single-byte sets.
AnselGraphic   == (\hA1 :> \h141) @@ (\hB1 :> \h142)
AnselCombining == (\hE2 :> \h301) @@ (\hF2 :> \h323) @@ (\hE6 :> \h306)
Marc8Compose   == (<<\h61, \h301>> :> \hE1) @@ (<<\h61, \h306>> :> \h103)   \* á ă
\* The set's byte is in its home range, G0 or G1.
Single == [cyrillic   |-> [final |-> \h4E, homeG1 |-> FALSE, dec |-> (\h61 :> \h410) @@ (\h21 :> \h21)],
           extCyrillic|-> [final |-> \h51, homeG1 |-> TRUE,  dec |-> (\hC0 :> \h491)],
           arabic     |-> [final |-> \h33, homeG1 |-> FALSE, dec |-> (\h61 :> \h641) @@ (\h6E :> \h64E)],
           extArabic  |-> [final |-> \h34, homeG1 |-> TRUE,  dec |-> (\hE2 :> \h6B3) @@ (\hFD :> \h306)],
           greek      |-> [final |-> \h53, homeG1 |-> FALSE, dec |-> (\h61 :> \h3B1) @@ (\h22 :> \h301)],
           symbols    |-> [final |-> \h67, homeG1 |-> FALSE, dec |-> (\h61 :> \h3B1)]]
Eacc == (<<\h21, \h30, \h21>> :> \h4E00) @@ (<<\h21, \h23, \h20>> :> \h3000) @@ (<<\h21, \h23, \h21>> :> \h3000)

IsCombining(r) == r \in {\h300, \h301, \h306, \h323, \h64E}

Final(set) == CASE set = "ascii" -> \h42 [] set = "ansel" -> \h45 [] set = "eacc" -> \h31
                [] OTHER -> Single[set].final
HomeG1(set) == set = "ansel" \/ (set \in DOMAIN Single /\ Single[set].homeG1)
SetByFinal(final, multibyte) ==
  LET sets == {s \in {"ascii", "ansel"} \cup DOMAIN Single : Final(s) = final}
  IN IF multibyte THEN IF final = Final("eacc") THEN "eacc" ELSE "unsupported"
     ELSE IF final = \h73 THEN "ascii"         \* ESC s
     ELSE IF sets = {} THEN "unsupported" ELSE CHOOSE s \in sets : TRUE

\* A byte moved into the home range of a set.
Home(b, inG1) == IF inG1 THEN (b % 128) + 128 ELSE b % 128

\* The character at the front of data in a set: code point, bytes, defined.
DecodeEacc_CutIsSound(data) ==
  IF Len(data) < 3 THEN <<Replacement, Len(data), TRUE>>
  ELSE LET code == [i \in 1..3 |-> data[i] % 128]
       IN IF code \in DOMAIN Eacc THEN <<Eacc[code], 3, TRUE>> ELSE <<Replacement, 3, FALSE>>
DecodeEacc(data) ==
  IF Len(data) < 3 THEN <<Replacement, Len(data), FALSE>>
  ELSE LET code == [i \in 1..3 |-> data[i] % 128]
       IN IF code \in DOMAIN Eacc THEN <<Eacc[code], 3, TRUE>> ELSE <<Replacement, 3, FALSE>>
Lookup(table, b, raw) == IF b \in DOMAIN table THEN <<table[b], 1, TRUE>> ELSE <<raw, 1, FALSE>>
DecodeChar(set, data) ==
  CASE set = "ascii"       -> <<data[1], 1, TRUE>>
    [] set = "unsupported" -> <<data[1], 1, FALSE>>
    [] set = "eacc"        -> DecodeEacc(data)
    [] set = "ansel"       -> Lookup(AnselGraphic @@ AnselCombining, Home(data[1], TRUE), data[1])
    [] OTHER -> Lookup(Single[set].dec, Home(data[1], Single[set].homeG1), data[1])

-----------------------------------------------------------------------------
\* A Decoder.  What a Decode call leaves is its designations and lossy; pending
\* and text are of the call.
NewDecoder == [g0 |-> "ascii", g1 |-> "ansel", lossy |-> FALSE, pending |-> <<>>, text |-> <<>>]
Reset_KeepsG1(d) == [d EXCEPT !.g0 = "ascii"]
Reset(d) == [d EXCEPT !.g0 = "ascii", !.g1 = "ansel"]

\* The escape sequence at the front of data: its length and what it designates.
Intermediates(data) ==
  LET n == CHOOSE n \in 1..Len(data) :
             /\ \A i \in 2..n : data[i] \in \h20..\h2F
             /\ n < Len(data) => data[n + 1] \notin \h20..\h2F
  IN n
InterpretEscape(d, data) ==
  LET n == Intermediates(data)
      ofTarget == {i \in 2..n : data[i] \in {\h28, \h29, \h2C, \h2D}}
      toG1 == /\ ofTarget # {}
              /\ data[CHOOSE i \in ofTarget : \A j \in ofTarget : j <= i] \in {\h29, \h2D}
      set == SetByFinal(data[n + 1], \E i \in 2..n : data[i] = \h24)
  IN IF n = Len(data) \/ data[n + 1] \notin \h30..\h7E
       THEN <<[d EXCEPT !.lossy = TRUE], n>>
       ELSE <<IF toG1 THEN [d EXCEPT !.g1 = set] ELSE [d EXCEPT !.g0 = set], n + 1>>

\* A base takes the marks read before it, the first of them composed with it.
Flush(d, base) ==
  IF d.pending # <<>> /\ <<base, d.pending[1]>> \in DOMAIN Marc8Compose
    THEN [d EXCEPT !.text = @ \o <<Marc8Compose[<<base, d.pending[1]>>]>> \o Tail(d.pending),
                   !.pending = <<>>]
    ELSE [d EXCEPT !.text = @ \o <<base>> \o d.pending, !.pending = <<>>]
TakeChar(d, char) ==
  LET seen == [d EXCEPT !.lossy = @ \/ ~char[3]]
  IN IF IsCombining(char[1]) THEN [seen EXCEPT !.pending = Append(@, char[1])] ELSE Flush(seen, char[1])

\* One turn of the loop of Decode, on the decoder and what is left of the data.
TakeUnit(s) ==
  LET esc == InterpretEscape(s.d, s.rest)
      char == DecodeChar(IF s.rest[1] < 128 THEN s.d.g0 ELSE s.d.g1, s.rest)
      Behind(n) == SubSeq(s.rest, n + 1, Len(s.rest))
  IN CASE s.rest = <<>> -> s
       [] s.rest # <<>> /\ s.rest[1] = Escape -> [d |-> esc[1], rest |-> Behind(esc[2])]
       [] s.rest # <<>> /\ s.rest[1] # Escape -> [d |-> TakeChar(s.d, char), rest |-> Behind(char[2])]

\* A turn takes a byte or more, so Len(data) of them take all.  Marks with no base
\* behind them end the text.
Decode(d, data) ==
  LET after[n \in Nat] == IF n = 0 THEN [d |-> [d EXCEPT !.pending = <<>>, !.text = <<>>], rest |-> data]
                          ELSE TakeUnit(after[n - 1])
      end == after[Len(data)].d
  IN [end EXCEPT !.text = @ \o end.pending, !.pending = <<>>]
===============================================================================
