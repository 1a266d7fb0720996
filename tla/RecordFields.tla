------------------------------ MODULE RecordFields ------------------------------
(***************************************************************************)
(* iso2709.Decode: the fields of one record, from its directory and the    *)
(* bytes of its data.  Unless the record says that it is UTF-8, the values *)
(* are MARC-8, and one Decoder is kept for all its fields.                 *)
(***************************************************************************)
EXTENDS Marc8Decoder, Selection

CONSTANT Received   \* records from elsewhere, as they lie in a file

ASSUME ReceivedAssumption ==
  \A r \in Received :
    r.iso \in [coding : STRING, indicators : Nat, codeLen : Nat \ {0},
               directory : Seq([tag : STRING, length : Nat, start : Nat]), body : Seq(Nat)]

VARIABLES
  iso,      \* the record as bytes: what its leader declares, the directory, the field data
  at,       \* directory entries dealt with
  dec,      \* the MARC-8 Decoder of the record
  fields,   \* the fields read
  lossy,    \* as reported with the record
  stage     \* "read", "done", or what RecordText does with it

fieldVars == <<iso, at, dec, fields, lossy, stage>>

SubfieldDelimiter == \h1F
FieldTerminator   == \h1E
Blank == \h20

ControlTags == {"001", "008"}
Control(tag, v) == [tag |-> tag, ind |-> <<0, 0>>, value |-> v, subs |-> <<>>]
Data(tag, ind, ss) == [tag |-> tag, ind |-> ind, value |-> <<>>, subs |-> ss]
Sub(code, v) == [code |-> code, value |-> v]
-----------------------------------------------------------------------------
StripTerminators(b) ==
  LET n == CHOOSE n \in 0..Len(b) : /\ n # 0 => b[n] # FieldTerminator
                                    /\ \A i \in (n + 1)..Len(b) : b[i] = FieldTerminator
  IN SubSeq(b, 1, n)
NeedsTranscode(b) == \E i \in DOMAIN b : b[i] >= \h80 \/ b[i] = Escape

\* The subfields of b: a delimiter, a code of codeLen bytes, a value.
SubfieldsOf(b, codeLen) ==
  LET delims == {i \in DOMAIN b : b[i] = SubfieldDelimiter}
      stop(i) == CHOOSE j \in i..Len(b) : /\ j = Len(b) \/ j + 1 \in delims
                                         /\ \A k \in delims : k <= i \/ k > j
      long == Select({i \in delims : stop(i) - i >= codeLen}, Len(b))
  IN [s \in DOMAIN long |-> Sub(b[long[s] + 1], SubSeq(b, long[s] + 1 + codeLen, stop(long[s])))]

\* Values decoded one after another by one Decoder.
DecodeSubs(d, ss) ==
  LET after[n \in 0..Len(ss)] ==
        IF n = 0 THEN [d |-> d, subs |-> <<>>]
        ELSE LET s == after[n - 1]
                 t == Decode(s.d, ss[n].value)
             IN [d |-> t, subs |-> Append(s.subs, Sub(ss[n].code, t.text))]
  IN after[Len(ss)]

\* A field of plain ASCII is taken as it is; another is decoded.
TakeField(tag, b, d, plain) ==
  LET inds == Len(b) >= iso.indicators
      ind(i) == IF inds /\ i <= iso.indicators THEN b[i] ELSE Blank
      raw == IF inds THEN SubfieldsOf(SubSeq(b, iso.indicators + 1, Len(b)), iso.codeLen) ELSE <<>>
      read == IF plain THEN [d |-> d, subs |-> raw] ELSE DecodeSubs(d, raw)
      end == Decode(d, b)
  IN IF tag \in ControlTags
       THEN IF plain THEN [d |-> d, field |-> Control(tag, b)] ELSE [d |-> end, field |-> Control(tag, end.text)]
     ELSE [d |-> read.d, field |-> Data(tag, <<ind(1), ind(2)>>, read.subs)]

\* The bytes of an entry of the directory; it may point outside the data.
Inside(e) == e.start + e.length <= Len(iso.body)
BytesOf(e) == StripTerminators(SubSeq(iso.body, e.start + 1, e.start + e.length))

ReadInit ==
  /\ \E r \in Received : iso = r.iso
  /\ at = 0 /\ dec = NewDecoder /\ fields = <<>> /\ lossy = FALSE /\ stage = "read"

\* The next entry of the directory: a field, unless it points outside the data.  For
\* one that is not plain, the Decoder starts from the default sets.
DecodeField ==
  /\ stage = "read" /\ at < Len(iso.directory)
  /\ at' = at + 1
  /\ \E e \in {iso.directory[at + 1]} :
       IF ~Inside(e) THEN UNCHANGED <<dec, fields>>
       ELSE \E b \in {BytesOf(e)} :
            \E plain \in {iso.coding = "a" \/ ~NeedsTranscode(b)} :
            \E taken \in {TakeField(e.tag, b, IF plain THEN dec ELSE Reset(dec), plain)} :
              dec' = taken.d /\ fields' = Append(fields, taken.field)
  /\ UNCHANGED <<iso, lossy, stage>>

\* What follows the last entry is up to who decodes.
DecodeEnds(next) ==
  /\ stage = "read" /\ at = Len(iso.directory)
  /\ stage' = next
  /\ lossy' = dec.lossy
  /\ UNCHANGED <<iso, at, dec, fields>>

ReadNext == DecodeField \/ DecodeEnds("done")
ReadSpec == ReadInit /\ [][ReadNext]_fieldVars
-----------------------------------------------------------------------------
\* "Designations persist across a field's subfields, not across fields", and a field
\* of plain ASCII "decodes identically in MARC-8 and UTF-8": each field of a record
\* that is not UTF-8 reads as a new Decoder would read it, wherever it stands.
FieldsStandAlone ==
  (stage \in {"read", "done"} /\ iso.coding # "a" /\ \A k \in DOMAIN iso.directory : Inside(iso.directory[k])) =>
    \A k \in DOMAIN fields :
      \E e \in {iso.directory[k]} : fields[k] = TakeField(e.tag, BytesOf(e), NewDecoder, FALSE).field
=================================================================================
