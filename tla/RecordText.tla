------------------------------- MODULE RecordText -------------------------------
(***************************************************************************)
(* The values of a record on their way through ISO 2709: transcoded by     *)
(* EncodeMARC8 or not at all, laid out by EncodeInto, read again as in      *)
(* RecordFields, and, when the record is UNIMARC, transcoded by            *)
(* unimarc.Decode.  A record's values are sequences of code points; those  *)
(* of a record in hand may still be the bytes read, while they are raw.    *)
(***************************************************************************)
EXTENDS RecordFields, Marc8, Iso5426, SequencesExt

CONSTANTS
  Written,       \* records to write: how, and their fields
  PrintableTags, \* of their tags, those of three printable ASCII bytes
  MaxFieldLen,   \* 9999: the most four digits hold
  MaxLen         \* 99999

RecordTerminator  == \h1D
Delimiters == {SubfieldDelimiter, FieldTerminator, RecordTerminator}

IsControl(f) == f.tag \in ControlTags
MapValues(fs, F(_)) ==
  [k \in DOMAIN fs |->
     [fs[k] EXCEPT !.value = F(fs[k].value),
                   !.subs = [s \in DOMAIN fs[k].subs |-> Sub(fs[k].subs[s].code, F(fs[k].subs[s].value))]]]
Values(fs) ==
  UNION {{f.value} \cup {s.value : s \in Range(f.subs)} : f \in Range(fs)}

\* Go's strings are UTF-8; below \h10000.
Utf8Of(r) == CASE r < \h80  -> <<r>>
               [] r < \h800 -> <<\hC0 + (r \div 64), \h80 + (r % 64)>>
               [] OTHER -> <<\hE0 + (r \div 4096), \h80 + ((r \div 64) % 64), \h80 + (r % 64)>>
Utf8(t) == FlattenSeq([i \in DOMAIN t |-> Utf8Of(t[i])])
RECURSIVE Runes(_)
Runes(b) ==
  CASE b = <<>> -> <<>>
    [] b # <<>> /\ b[1] < \hC0 -> <<b[1]>> \o Runes(Tail(b))
    [] b # <<>> /\ b[1] \in \hC0..\hDF -> <<((b[1] % 32) * 64) + (b[2] % 64)>> \o Runes(SubSeq(b, 3, Len(b)))
    [] OTHER -> <<((b[1] % 16) * 4096) + ((b[2] % 64) * 64) + (b[3] % 64)>> \o Runes(SubSeq(b, 4, Len(b)))

-----------------------------------------------------------------------------
\* Writing.
FieldBytes(f) ==
  IF IsControl(f) THEN Append(f.value, FieldTerminator)
  ELSE [i \in 1..2 |-> IF f.ind[i] = 0 THEN Blank ELSE f.ind[i]]
       \o FlattenSeq([s \in DOMAIN f.subs |-> <<SubfieldDelimiter, f.subs[s].code>> \o f.subs[s].value])
       \o <<FieldTerminator>>
\* What the layout has a place for: not the subfields of a field whose tag makes it
\* a control field, and not a value beside subfields.
Placed(f) == IF IsControl(f) THEN Control(f.tag, f.value) ELSE Data(f.tag, f.ind, f.subs)

ValidTag(tag) == tag \in PrintableTags
Carries(f) ==   \* three bytes of tag, no reserved byte, no value without a place, and short enough
  /\ ValidTag(f.tag)
  /\ ~IsControl(f) => f.value = <<>> /\ Range(f.ind) \cap Delimiters = {}
  /\ \A v \in Values(<<Placed(f)>>) : Range(v) \cap Delimiters = {}
  /\ \A s \in Range(Placed(f).subs) : s.code \notin Delimiters
  /\ Len(FieldBytes(f)) <= MaxFieldLen
EncodeInto(fs, coding) ==
  LET length[k \in 1..Len(fs)] == Len(FieldBytes(fs[k]))
      start[k \in 1..Len(fs)] == IF k = 1 THEN 0 ELSE start[k - 1] + length[k - 1]
  IN [coding |-> coding, indicators |-> 2, codeLen |-> 1,
      directory |-> [k \in 1..Len(fs) |-> [tag |-> fs[k].tag, length |-> length[k], start |-> start[k]]],
      body |-> FlattenSeq([k \in 1..Len(fs) |-> FieldBytes(fs[k])]) \o <<RecordTerminator>>]

\* unimarc.Decode: the graphic sets a record declares in field 100.
Charset(codes) ==
  CASE "03" \in Range(codes) -> "latin5426"
    [] "03" \notin Range(codes) /\ Range(codes) \cap {"02", "04", "05"} # {} -> "unsupported"
    [] OTHER -> "utf8"

\* The encoding of a record's values: its how is EncodeMARC8's, Encode's, or that
\* of a UNIMARC record, whose values another system encoded as iso5426.Encode does.
Encoding(r) ==
  CASE r.how = "marc8" -> "marc8"
    [] r.how = "unimarc" /\ Charset(r.codes) # "utf8" -> "iso5426"
    [] OTHER -> "utf8"
Transcoded(encoding, t) ==
  CASE encoding = "marc8" -> Encode(t).out [] encoding = "utf8" -> Utf8(t) [] OTHER -> EncodeIso5426(t).out
Transcodes(encoding, t) ==
  CASE encoding = "marc8" -> Encode(t).ok [] encoding = "utf8" -> TRUE [] OTHER -> EncodeIso5426(t).ok
Accepts(encoding, fs, out) ==
  /\ \A t \in Values(fs) : Transcodes(encoding, t)
  /\ \A k \in DOMAIN out : Carries(out[k])
  /\ 24 + 12 * Len(out) + 1 + Len(FlattenSeq([k \in DOMAIN out |-> FieldBytes(out[k])])) + 1 <= MaxLen

VARIABLE source   \* the record that is written; its fields are <<>> for one received;
                  \* its stage is "write" before, "read UNIMARC" in unimarc.Decode,
                  \* and "refused" for one that cannot be written

recordVars == <<source, fieldVars>>

NoRecord == [coding |-> "a", indicators |-> 2, codeLen |-> 1, directory |-> <<>>, body |-> <<>>]
RecordInit ==
  /\ \/ source \in Written /\ iso = NoRecord /\ stage = "write"
     \/ \E r \in Received : source = [how |-> r.how, codes |-> r.codes, fields |-> <<>>] /\ iso = r.iso /\ stage = "read"
  /\ at = 0 /\ dec = NewDecoder /\ fields = <<>> /\ lossy = FALSE

\* The copy toMARC8 makes, before its values are transcoded: what has no place is not in
\* it, so that EncodeInto does not see it.
ToMarc8(fs) == [k \in DOMAIN fs |-> Placed(fs[k])]

WriteRecord ==
  /\ stage = "write"
  /\ \E given \in {IF source.how = "marc8" THEN ToMarc8(source.fields) ELSE source.fields} :
     \E out \in {MapValues(given, LAMBDA t : Transcoded(Encoding(source), t))} :
       IF Accepts(Encoding(source), given, out)
         THEN iso' = EncodeInto(out, IF source.how = "marc8" THEN " " ELSE "a") /\ stage' = "read"
         ELSE iso' = iso /\ stage' = "refused"
  /\ UNCHANGED <<source, at, dec, fields, lossy>>

\* Every value, read so far as it is, decoded anew.
Retranscode ==
  /\ stage = "read UNIMARC"
  /\ IF Charset(source.codes) = "utf8" THEN UNCHANGED <<fields, lossy>>
     ELSE /\ fields' = MapValues(fields, LAMBDA b : DecodeLossy(b).text)
          /\ lossy' = (Charset(source.codes) = "unsupported" \/ \E b \in Values(fields) : DecodeLossy(b).lossy)
  /\ stage' = "done"
  /\ UNCHANGED <<source, iso, at, dec>>

RecordNext ==
  \/ WriteRecord \/ Retranscode
  \/ DecodeField /\ UNCHANGED source
  \/ DecodeEnds(IF source.how = "unimarc" THEN "read UNIMARC" ELSE "done") /\ UNCHANGED source
RecordSpec == RecordInit /\ [][RecordNext]_recordVars

-----------------------------------------------------------------------------
\* A text with every base and the mark after it made one letter, where the
\* charset's tables have it.
RECURSIVE Composed(_, _)
Composed(encoding, t) ==
  IF Len(t) < 2 THEN t
  ELSE LET pair == <<t[1], t[2]>>
           one == IF encoding = "marc8" /\ pair \in DOMAIN Marc8Compose THEN <<Marc8Compose[pair]>>
                  ELSE IF encoding = "iso5426" /\ Composing(t[1], t[2]) # {}
                    THEN WithMarks(t[1], <<t[2]>>) ELSE <<>>
       IN IF one # <<>> THEN one \o Composed(encoding, SubSeq(t, 3, Len(t)))
          ELSE <<t[1]>> \o Composed(encoding, Tail(t))
Mark(r) == r \in {\h301, \h302, \h306, \h308, \h323, \h32E, \h64E}
\* A mark with no base before it is read as a mark of the base after it; and ISO
\* 5426 writes ø and h, and ḫ with a mark, as it writes something else.
Settled(encoding, t) ==
  /\ t # <<>> => ~Mark(t[1])
  /\ encoding = "iso5426" => \A i \in 1..(Len(t) - 1) :
                          ~(t[i] = \hF8 /\ t[i + 1] = \h68) /\ ~(t[i] = \h1E2B /\ Mark(t[i + 1]))

\* The data fields whose raw value was written, without an error, and is not read.
RawValuesLost ==
  {k \in DOMAIN source.fields :
     /\ stage = "done" /\ ~IsControl(source.fields[k])
     /\ source.fields[k].value # <<>> /\ fields[k].value = <<>>}

\* A record that the library accepts to write is read back with the same fields,
\* and text, as composed by the charset, except that only EncodeMARC8 accepts a data
\* field with a raw value, without which it is read; and is called lossy only if its
\* charset is one that cannot be read.
RecordReadsAsWritten ==
  (stage = "done" /\ source.fields # <<>> /\ \A t \in Values(source.fields) : Settled(Encoding(source), t)) =>
    /\ lossy = (source.how = "unimarc" /\ Charset(source.codes) = "unsupported")
    /\ MapValues(fields, LAMBDA v : IF Encoding(source) = "utf8" THEN Runes(v) ELSE v)
         = [k \in DOMAIN source.fields |->
              LET f == Placed(source.fields[k]) IN
              [MapValues(<<f>>, LAMBDA t : Composed(Encoding(source), t))[1] EXCEPT
                 !.ind = [i \in 1..2 |-> IF IsControl(f) \/ @[i] # 0 THEN @[i] ELSE Blank]]]
    /\ RawValuesLost # {} => source.how = "marc8"

\* toMARC8 "returns a copy of r with every value transcoded", and a data field's raw
\* value is one "which the format cannot encode and would silently drop": a
\* record that has one is refused, however it is encoded, or read with it.
NoRawValueIsLost == RawValuesLost = {}

\* Read while G1 holds ASCII, a byte above \h80 is a Latin-1 character and is not
\* called lossy, even one that MARC-8 does not have.
PassedThrough(t) == \E r \in Range(t) : r \in \h80..\hFF /\ Encoded(r) = <<>>
\* Any other MARC-8 record that is read and not called lossy can be written in MARC-8
\* again, and reads as it did.
NotLossyIsWritable ==
  (stage = "done" /\ source.how = "marc8" /\ ~lossy) =>
    \A t \in Values(fields) :
      (Settled("marc8", t) /\ ~PassedThrough(t)) => Encode(t).ok /\ Decode(NewDecoder, Encode(t).out).text = Composed("marc8", t)
=================================================================================
