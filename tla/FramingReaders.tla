---------------------------- MODULE FramingReaders ----------------------------
(***************************************************************************)
(* The codex.RecordReaders over a stream of bytes, iso2709, marcjson,      *)
(* marcxml and mrk, as far as they find where a record begins and ends;    *)
(* and iso2709.ReadFile, which frames a whole file by itself.              *)
(*                                                                         *)
(* The bytes are tokens, as coarse as framing allows: a leader, which      *)
(* declares the record's length and base address, and the other pieces of  *)
(* an ISO 2709 record; lines; tags and child elements; braces and members. *)
(* A document is a list of records, whole or cut short at any token, after *)
(* which the io.Reader reports io.EOF or fails.                            *)
(***************************************************************************)
EXTENDS Naturals, Sequences

CONSTANTS
  Formats,   \* the formats to look at
  Contents   \* the lists of record kinds a document may hold

\* MARC-in-JSON comes as an array or as a stream of objects.
JsonFormats == {"marcjson", "marcjson-stream"}
AllFormats  == {"iso2709", "marcxml", "mrk"} \cup JsonFormats

\* "good"; "bad": framed, but refused by the decoder.  ISO 2709 only:
\* "unsized": no declared length; "oversized": one that is too long.
Kinds == {"good", "bad", "unsized", "oversized"}

ASSUME FramingAssumption == Formats \subseteq AllFormats /\ Contents \subseteq Seq(Kinds)

-----------------------------------------------------------------------------
\* Documents.  An ISO 2709 leader is two tokens, the first of which tells the
\* record's kind; the record has LeaderLen + 3 tokens and its base address is
\* after the directory.
LeaderLen == 2
BaseAt    == LeaderLen + 1
Pieces(format, kind) ==
  LET member(good, bad) == IF kind = "bad" THEN bad ELSE good
  IN CASE format = "iso2709"  -> <<kind, "leader", "directory", "field", "terminator", "newline">>
       [] format \in JsonFormats -> <<"{", member("member", "badmember"), "member", "}">>
       [] format = "marcxml"  -> <<"<record>", member("child", "badchild"), "child", "</record>">>
       [] format = "mrk"      -> <<"line", member("line", "badline"), "line", "blank">>
Wrapper(format) == CASE format = "marcjson" -> << <<"[">>, <<"]">> >>
                     [] format = "marcxml"  -> << <<"<collection>">>, <<"</collection>">> >>
                     [] OTHER               -> << <<>>, <<>> >>

\* Every record of a format has the same number of tokens.
Size(format) == Len(Pieces(format, "good"))
Whole(format, kinds) ==
  LET head == Len(Wrapper(format)[1])
      body == Size(format) * Len(kinds)
  IN [i \in 1..(head + body + Len(Wrapper(format)[2])) |->
        IF i <= head THEN Wrapper(format)[1][i]
        ELSE IF i > head + body THEN Wrapper(format)[2][i - head - body]
        ELSE LET k == i - head - 1
             IN Pieces(format, kinds[1 + (k \div Size(format))])[1 + (k % Size(format))]]

VARIABLES
  format,  \* the document's format
  kinds,   \* the kinds of its records
  input,   \* the tokens of it that the io.Reader yields
  tail,    \* what it reports after them: "eof" or "error"
  pos,     \* tokens the Reader has consumed
  results, \* what its Read calls returned: kind and the tokens it is about
  fpos,    \* tokens ReadFile has dealt with
  fout,    \* the records it has decoded
  fend     \* "running", or how it returned: "nil" or "error"

document == <<format, kinds, input, tail>>
reader   == <<pos, results>>
file     == <<fpos, fout, fend>>
vars     == <<document, reader, file>>

Init ==
  /\ format \in Formats /\ kinds \in Contents
  /\ format # "iso2709" => \A k \in DOMAIN kinds : kinds[k] \in {"good", "bad"}
  /\ \E cut \in 0..Len(Whole(format, kinds)) : input = SubSeq(Whole(format, kinds), 1, cut)
  /\ tail \in {"eof", "error"}
  /\ pos = 0 /\ results = <<>>
  /\ fpos = 0 /\ fout = <<>> /\ fend = IF format = "iso2709" THEN "running" ELSE "nil"

end == Len(input)

\* The first position after p that holds one of the tokens, or end + 1.
NextOf(p, tokens) ==
  CHOOSE i \in (p + 1)..(end + 1) :
    /\ i = end + 1 \/ input[i] \in tokens
    /\ \A j \in (p + 1)..(i - 1) : input[j] \notin tokens
NextNotOf(p, tokens) == NextOf(p, {input[i] : i \in 1..end} \ tokens)

\* Read returns, having consumed the input up to p.
Returns(kind, from, p) ==
  /\ results' = Append(results, [kind |-> kind, from |-> from, to |-> p])
  /\ pos' = p

-----------------------------------------------------------------------------
\* iso2709
Separators == {"newline", "terminator"}

\* The length that the token at s declares as the first of a leader; what is
\* not the beginning of a leader declares none.
Declared(s) == CASE input[s] \in {"good", "bad"} -> LeaderLen + 3
                 [] input[s] = "oversized"       -> LeaderLen + 5
                 [] OTHER                        -> 0

\* decode wants a base address that lies in the record.
DecodeIso(s, e) ==
  IF input[s] \in {"good", "unsized", "oversized"} /\ e - s + 1 >= BaseAt
    THEN "record" ELSE "error"

\* The end of the record at s: where its leader declares it, else at its
\* terminator or the end of the input.
Declares(s) == s + LeaderLen - 1 <= end /\ Declared(s) >= LeaderLen
IsoEnd(s) ==
  IF Declares(s) THEN s + Declared(s) - 1
  ELSE LET t == NextOf(s + LeaderLen - 1, {"terminator"}) IN IF t > end THEN end ELSE t

\* A leader or a declared body that ends early, and a scan that fails.
IsoShort(s) ==
  s + LeaderLen - 1 <= end =>
    \/ IsoEnd(s) > end
    \/ ~Declares(s) /\ tail = "error" /\ NextOf(s + LeaderLen - 1, {"terminator"}) > end

\* Mutant: a body that ends early is taken for the whole of it.
IsoRead_TakesPartial ==
  LET s == NextNotOf(pos, Separators)
      e == IF IsoEnd(s) > end THEN end ELSE IsoEnd(s)
  IN \/ s > end /\ Returns(tail, s, end)
     \/ s <= end /\ s + LeaderLen - 1 > end /\ Returns("error", s, end)
     \/ s + LeaderLen - 1 <= end /\ Returns(DecodeIso(s, e), s, e)

\* Separators, the leader, then as many bytes as it declares or all up to the
\* terminator.
IsoRead ==
  LET s == NextNotOf(pos, Separators)
  IN \/ s > end /\ Returns(tail, s, end)
     \/ s <= end /\ IsoShort(s) /\ Returns("error", s, end)
     \/ s <= end /\ ~IsoShort(s) /\ Returns(DecodeIso(s, IsoEnd(s)), s, IsoEnd(s))

-----------------------------------------------------------------------------
\* marcjson.

\* Where the members of the record at s end, or one is refused.
JsonBody(s) == NextNotOf(s, {"member"})

\* The scanner's io.EOF is returned as it is, inside a record too.  The closing
\* bracket is only looked at.
JsonRead ==
  LET array == end > 0 /\ input[1] = "["
      s     == IF array /\ results = <<>> THEN 2 ELSE pos + 1
      stop  == JsonBody(s)
  IN \/ s > end /\ Returns(tail, s, end)
     \/ s <= end /\ input[s] = "]" /\ Returns("eof", s, s - 1)
     \/ s <= end /\ input[s] = "{" /\ stop > end /\ Returns(tail, s, end)
     \/ s <= end /\ input[s] = "{" /\ stop <= end
          /\ Returns(IF input[stop] = "}" THEN "record" ELSE "error", s, stop)

-----------------------------------------------------------------------------
\* marcxml.
XmlBody(s) == NextNotOf(s, {"child"})

\* encoding/xml reports io.EOF only with no element open.
XmlOpen == end > 0 /\ input[end] # "</collection>"
XmlRead ==
  LET s    == NextOf(pos, {"<record>"})
      stop == XmlBody(s)
  IN \/ s > end /\ Returns(IF XmlOpen THEN "error" ELSE tail, s, end)
     \/ s <= end /\ stop > end /\ Returns("error", s, end)
     \/ s <= end /\ stop <= end
          /\ Returns(IF input[stop] = "</record>" THEN "record" ELSE "error", s, stop)

-----------------------------------------------------------------------------
\* mrk.
MrkBody(s) == NextOf(s - 1, {"badline", "blank"})

\* Mutant: only a blank line ends a record.
MrkRead_OnlyAtBlank ==
  LET s    == NextOf(pos, {"line", "badline"})
      stop == MrkBody(s)
  IN \/ stop > end /\ Returns(tail, s, end)
     \/ stop <= end /\ Returns(IF input[stop] = "blank" THEN "record" ELSE "error", s, stop)

\* Blank lines, then lines up to the next blank one; whatever ends the input,
\* io.EOF or an error, ends the record that has begun.
MrkRead ==
  LET s    == NextOf(pos, {"line", "badline"})
      stop == MrkBody(s)
  IN \/ s > end /\ Returns(tail, s, end)
     \/ s <= end /\ stop > end /\ Returns("record", s, end)
     \/ stop <= end /\ Returns(IF input[stop] = "blank" THEN "record" ELSE "error", s, stop)

-----------------------------------------------------------------------------
\* The caller reads until nothing is left, also past errors; but not past one of
\* marcjson, which leaves the scanner inside the record.
Ended ==
  /\ results # <<>>
  /\ LET last == results[Len(results)]
     IN \/ last.kind = "eof" \/ last.from > end
        \/ last.kind = "error" /\ format \in JsonFormats

Read ==
  /\ ~Ended
  /\ \/ format = "iso2709" /\ IsoRead
     \/ format \in JsonFormats /\ JsonRead
     \/ format = "marcxml" /\ XmlRead
     \/ format = "mrk" /\ MrkRead
  /\ UNCHANGED <<document, file>>

\* iso2709.ReadFile: os.ReadFile fails, ...
FileFails ==
  /\ fend = "running" /\ tail = "error"
  /\ fend' = "error"
  /\ UNCHANGED <<document, reader, fpos, fout>>

\* ... or less than a leader is left, ...
FileEnds ==
  /\ fend = "running" /\ tail = "eof"
  /\ NextNotOf(fpos, Separators) + LeaderLen - 1 > end
  /\ fend' = "nil"
  /\ UNCHANGED <<document, reader, fpos, fout>>

\* ... or the next record, up to the first terminator or all of the rest if the
\* length its leader declares is none or more than there is.
FileExtent(s) ==
  LET t == NextOf(s - 1, {"terminator"})
  IN IF Declares(s) /\ IsoEnd(s) <= end THEN IsoEnd(s) ELSE IF t > end THEN end ELSE t

\* Mutant: a record that does not decode is passed over.
FileRecord_PassesOver ==
  LET s == NextNotOf(fpos, Separators)
      e == FileExtent(s)
  IN /\ fend = "running" /\ tail = "eof" /\ s + LeaderLen - 1 <= end
     /\ fpos' = e
     /\ fout' = IF DecodeIso(s, e) = "record" THEN Append(fout, s) ELSE fout
     /\ UNCHANGED <<document, reader, fend>>

FileRecord ==
  LET s == NextNotOf(fpos, Separators)
      e == FileExtent(s)
  IN /\ fend = "running" /\ tail = "eof" /\ s + LeaderLen - 1 <= end
     /\ \/ /\ DecodeIso(s, e) = "record"
           /\ fout' = Append(fout, s) /\ fpos' = e /\ UNCHANGED fend
        \/ DecodeIso(s, e) = "error" /\ fend' = "error" /\ UNCHANGED <<fpos, fout>>
     /\ UNCHANGED <<document, reader>>

Next == Read \/ FileFails \/ FileEnds \/ FileRecord

Spec == Init /\ [][Next]_vars

-----------------------------------------------------------------------------
\* Properties.

\* Ranges of the variables.
TypeOK ==
  /\ format \in Formats /\ kinds \in Contents /\ tail \in {"eof", "error"}
  /\ pos \in 0..end /\ fpos \in 0..end /\ fend \in {"running", "nil", "error"}
  /\ \A k \in DOMAIN results :
       /\ results[k].kind \in {"record", "error", "eof"}
       /\ results[k].from \in 1..(end + 1) /\ results[k].to \in 0..end
  /\ \A k \in DOMAIN fout : fout[k] \in 1..end

\* Where record k of the document begins, whether its first token and whether
\* all of them (the separator apart) are in the input.
Start(k) == Len(Wrapper(format)[1]) + Size(format) * (k - 1) + 1
Begun(k) == Start(k) <= end
Complete(k) == Start(k) + Size(format) - (IF format \in {"iso2709", "mrk"} THEN 2 ELSE 1) <= end
Torn(k) == Begun(k) /\ ~Complete(k)
Refused(k) == kinds[k] = "bad" /\ Start(k) < end
Swallowed(k) == k > 1 /\ kinds[k - 1] = "oversized"

\* "A non-EOF error indicates that the current record was malformed; ... the
\* caller may continue calling Read for subsequent records": iso2709 and marcxml
\* return one result for each record, in the order of the records, a record for
\* one that is whole and sound and an error for any other, and nothing more.  Not with
\* an ISO 2709 length that runs into the next record; and the end of the input
\* completes a record that declares none.
OneResultPerRecord ==
  (format \in {"iso2709", "marcxml"} /\ ~\E k \in DOMAIN kinds : kinds[k] = "oversized") =>
    /\ \A r \in DOMAIN results : results[r].from <= end =>
         /\ results[r].from = Start(r)
         /\ kinds[r] = "bad" => results[r].kind = "error"
         /\ kinds[r] # "bad" /\ Complete(r) => results[r].kind = "record"
         /\ Torn(r) /\ (kinds[r] # "unsized" \/ tail = "error") => results[r].kind = "error"
    /\ Ended => \A k \in DOMAIN kinds : Begun(k) => k < Len(results)

\* What the Reader handed out before its first error or io.EOF.
Stops == {r \in DOMAIN results : results[r].kind # "record"}
FirstStop == CHOOSE r \in Stops : \A q \in Stops : r <= q
Delivered == [r \in 1..(IF Stops = {} THEN Len(results) ELSE FirstStop - 1) |-> results[r].from]

\* The records a caller that stops at the first error should get: all whose
\* beginning is in the input, up to one that is refused or whose beginning the
\* record before it claims.
Due == {n \in 0..Len(kinds) : \A k \in 1..n : Begun(k) /\ ~Refused(k) /\ ~Swallowed(k)}
Records == [k \in 1..(CHOOSE n \in Due : \A m \in Due : m <= n) |-> Start(k)]

\* Every Reader is a RecordReader: the records in order, none left out or
\* repeated, and io.EOF only after the last, except for marcjson's, which takes
\* the end of the input inside a record for the end of the stream.
Source == INSTANCE RecordSource WITH
            Streams <- Seq(Nat), stream <- Records, delivered <- Delivered,
            end <- IF Stops = {} THEN "none" ELSE results[FirstStop].kind,
            cut <- /\ format \in JsonFormats /\ Stops # {} /\ \E k \in DOMAIN kinds : Torn(k)
                   /\ results[FirstStop].kind = "eof"
StreamsInput == Source!Spec

\* ReadFile frames a file by itself: it must find the records a Reader finds, and
\* fail where it fails.  Only a torn record at the end of the file is taken
\* as it is, or passed over, where the Reader reports it; and a length that is too long
\* is put right.
FileAgrees ==
  (format = "iso2709" /\ Ended /\ fend # "running" /\ tail = "eof"
     /\ ~\E k \in DOMAIN kinds : kinds[k] = "oversized") =>
    \/ fout = Delivered /\ (fend = "nil" <=> results[FirstStop].kind = "eof")
    \/ \E k \in DOMAIN kinds :
         /\ Torn(k) /\ Delivered = [i \in 1..(k - 1) |-> Start(i)]
         /\ fout \in {Delivered, Append(Delivered, Start(k))}

\* "Read returns the next record, or io.EOF when the stream is exhausted":
\* io.EOF is not returned while a record of the input is unfinished.
EOFMeansExhausted ==
  \A r \in DOMAIN results : results[r].kind = "eof" => ~\E k \in DOMAIN kinds : Torn(k)

=============================================================================
