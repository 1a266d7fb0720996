--------------------------- MODULE BibframeForward ---------------------------
(***************************************************************************)
(* bibframe.FromRecord: the crosswalk from a MARC record to the Work and   *)
(* the Instance it describes.                                              *)
(*                                                                         *)
(* A text is a sequence of words and marks, the spaces between them left   *)
(* out; the empty sequence is Go's "".  A field is its tag, its indicators *)
(* and its subfields, each a code and a text; a control field is given as  *)
(* if the positions the crosswalk reads were its subfields ("07" of an 008 *)
(* its first date, and so on), one that is missing being out of range.  Of *)
(* the code lists (carriers, languages, schemes) the model has the entries *)
(* its instances use.                                                      *)
(***************************************************************************)
EXTENDS Integers, Sequences, SequencesExt

MarcField(tag, i1, i2, subs) == [tag |-> tag, i1 |-> i1, i2 |-> i2, subs |-> subs]
PlainField(tag, subs)        == MarcField(tag, " ", " ", subs)

Each(F(_), s)  == FlattenSeq([i \in DOMAIN s |-> F(s[i])])
If(cond, s)    == IF cond THEN s ELSE <<>>
Known(t)       == If(t # <<>>, <<t>>)
OfTags(fs, tags)     == SelectSeq(fs, LAMBDA f : f.tag \in tags)
ValuesOf(f, code)    == Each(LAMBDA s : If(s[1] = code, <<s[2]>>), f.subs)
FirstOf(s)           == IF s = <<>> THEN <<>> ELSE s[1]
ValueOf(f, code)     == FirstOf(ValuesOf(f, code))
LastOf(fs, tags)     == LET found == OfTags(fs, tags) IN If(found # <<>>, <<Last(found)>>)
LastValue(fs, tags, code) == Each(LAMBDA f : ValueOf(f, code), LastOf(fs, tags))
ControlValue(fs, tag, pos) == IF OfTags(fs, {tag}) = <<>> THEN <<>> ELSE ValueOf(OfTags(fs, {tag})[1], pos)
Once(s) == FoldLeft(LAMBDA acc, x : IF x \in Range(acc) THEN acc ELSE Append(acc, x), <<>>, s)
-----------------------------------------------------------------------------
(* Texts *)

TrimISBD(t) == IF t # <<>> /\ Last(t) \in {"/", ":", ";", ","} THEN Front(t) ELSE t
Trimmed(f, code)    == TrimISBD(ValueOf(f, code))
AllTrimmed(f, code) == Each(LAMBDA v : Known(TrimISBD(v)), ValuesOf(f, code))

\* What is left of t without the words of the set at its left, or at its right.
DropLeft(t, words)  == LET k == SelectInSeq(t, LAMBDA w : w \notin words)
                       IN IF k = 0 THEN <<>> ELSE SubSeq(t, k, Len(t))
DropRight(t, words) == Reverse(DropLeft(Reverse(t), words))
CleanDate(t) == DropRight(DropRight(DropLeft(t, {"[", "]", "(", ")"}), {"[", "]", "(", ")"}), {".", ",", ";", ":"})

Split(t, seps) == FoldLeft(LAMBDA acc, w : IF w \in seps THEN Append(acc, <<>>)
                                           ELSE [acc EXCEPT ![Len(acc)] = Append(@, w)], <<(<<>>)>>, t)

SplitParenthetical(t) ==
  LET open == SelectInSeq(t, LAMBDA w : w = "(")
      end  == IF open = 0 THEN 0 ELSE SelectInSubSeq(t, open, Len(t), LAMBDA w : w = ")")
  IN  IF end = 0 THEN [value |-> t, qualifier |-> <<>>]
      ELSE [value |-> SubSeq(t, 1, open - 1) \o SubSeq(t, end + 1, Len(t)),
            qualifier |-> SubSeq(t, open + 1, end - 1)]

MarcKeyOf(f) == <<f.tag, f.i1, f.i2>> \o Each(LAMBDA s : <<"$", s[1]>> \o s[2], f.subs)

\* An absolute URI is its scheme, its host with the path's beginning, and the rest.
IsIRI(t) == t # <<>> /\ t[1] = "http:"
FirstIRI(f, code) == FirstOf(SelectSeq(ValuesOf(f, code), IsIRI))
-----------------------------------------------------------------------------
(* The Work *)

WorkClass == [a |-> "Text", t |-> "Text", c |-> "NotatedMusic", d |-> "NotatedMusic", e |-> "Cartography",
              f |-> "Cartography", g |-> "MovingImage", i |-> "NonMusicAudio", j |-> "MusicAudio",
              k |-> "StillImage", m |-> "Multimedia", o |-> "MixedMaterial", p |-> "MixedMaterial", r |-> "Object"]
Content06 == [a |-> "txt", t |-> "txt", c |-> "ntm", d |-> "ntm", e |-> "cri", f |-> "cri", g |-> "tdi",
              i |-> "spw", j |-> "prm", k |-> "sti", m |-> "cop", r |-> "tdf"]
In(table, key) == IF key \in DOMAIN table THEN <<table[key]>> ELSE <<>>

Digits == {"1", "2", "3", "4", "5", "6", "7", "8", "9"}
TitleOf(f) == [main |-> Trimmed(f, "a"), sub |-> Trimmed(f, "b"), num |-> Trimmed(f, "n"),
               name |-> Trimmed(f, "p"), nonsort |-> If(f.i2 \in Digits, <<f.i2>>)]
Transcribed(fs) == Each(LAMBDA f : If(TitleOf(f).main # <<>>, <<TitleOf(f)>>), LastOf(fs, {"245"}))
Uniform(fs) == Each(LAMBDA f : If(TitleOf(f).main # <<>>, <<[TitleOf(f) EXCEPT !.sub = <<>>, !.nonsort = <<>>]>>),
                    LastOf(fs, {"130", "240"}))

VariantType == ("0" :> <<"portion">>) @@ ("2" :> <<"distinctive">>)
  @@ ("3" :> <<"other">>) @@ ("4" :> <<"cover">>) @@ ("5" :> <<"added", "title", "page">>)
  @@ ("6" :> <<"caption">>) @@ ("7" :> <<"running">>) @@ ("8" :> <<"spine">>)
OnInstance == {"4", "8"}
VariantsOf(f) ==
  If(f.tag = "246" /\ (Trimmed(f, "a") # <<>> \/ Trimmed(f, "b") # <<>>),
     <<[parallel |-> f.i2 = "1", type |-> FirstOf(In(VariantType, f.i2)),
        title |-> [TitleOf(f) EXCEPT !.nonsort = <<>>]]>>)

EntryClass(tag) == CASE tag \in {"100", "700"} -> "Person" [] tag \in {"110", "710"} -> "Organization"
                     [] tag \in {"111", "711"} -> "Meeting" [] OTHER -> ""
AgentSubclass(class, i1) == CASE class = "Person" /\ i1 = "3" -> "Family"
                              [] class = "Organization" /\ i1 = "1" -> "Jurisdiction" [] OTHER -> class
LabelCodes(class) == CASE class = "Organization" -> {"a", "b", "c", "d", "n", "g", "k"}
                       [] class = "Meeting" -> {"a", "c", "d", "e", "n", "g", "q"}
                       [] OTHER -> {"a", "b", "c", "d", "q", "j", "k"}
AgentLabel(f, codes) ==
  LET k == SelectInSeq(f.subs, LAMBDA s : s[1] = "t")
      before == IF k = 0 THEN f.subs ELSE SubSeq(f.subs, 1, k - 1)
  IN  TrimISBD(Each(LAMBDA s : If(s[1] \in codes, s[2]), before))

RelatorCodes == {"aut", "edt", "trl"}
RelatorRole(v) == IF v[1] \in RelatorCodes THEN [iri |-> <<"relators">> \o v, term |-> v]
                  ELSE IF IsIRI(v) THEN [iri |-> v, term |-> <<>>] ELSE [iri |-> <<>>, term |-> v]
SplitRoleTerms(t) == Each(Known, Split(t, {",", "&", "and"}))
ContribRoles(f, roleSub) ==
  Each(LAMBDA v : If(v # <<>>, <<RelatorRole(v)>>), ValuesOf(f, "4"))
  \o Each(LAMBDA v : Each(LAMBDA t : <<[iri |-> <<>>, term |-> t]>>, SplitRoleTerms(TrimISBD(v))), ValuesOf(f, roleSub))
AgentAuthority(f) == IF FirstIRI(f, "1") # <<>> THEN FirstIRI(f, "1") ELSE FirstIRI(f, "0")

IsNameTitle(f) == ValueOf(f, "t") # <<>>
IsPrimary(f) == f.tag \in {"100", "110", "111"}
ContributionsOf(f) ==
  LET class == EntryClass(f.tag)
      label == AgentLabel(f, LabelCodes(class))
  IN  If(class # "" /\ ~IsNameTitle(f) /\ label # <<>>,
         <<[primary |-> IsPrimary(f), class |-> AgentSubclass(class, f.i1), label |-> label,
            roles |-> ContribRoles(f, IF class = "Meeting" THEN "j" ELSE "e"), authority |-> AgentAuthority(f)]>>)
RelatedWorksOf(f) ==
  LET class == EntryClass(f.tag)
      name  == AgentLabel(f, LabelCodes(class))
  IN  If(class # "" /\ IsNameTitle(f) /\ (name # <<>> \/ Trimmed(f, "t") # <<>>),
         <<[primary |-> IsPrimary(f), class |-> AgentSubclass(class, f.i1), name |-> name, title |-> Trimmed(f, "t")]>>)

\* The relationship a linking entry states, by its tag or by its second indicator.
ByTag == ("765" :> "translationof") @@ ("767" :> "translatedas") @@ ("770" :> "supplement") @@ ("772" :> "supplementto")
  @@ ("773" :> "partof") @@ ("774" :> "part") @@ ("775" :> "otheredition") @@ ("776" :> "otherphysicalformat")
  @@ ("777" :> "issuedwith") @@ ("786" :> "datasource") @@ ("787" :> "relatedwork")
Preceding(i2)  == CASE i2 = "1" -> "continuedinpart" [] i2 = "4" -> "mergerof" [] i2 \in {"5", "6"} -> "absorptionof"
                    [] i2 = "7" -> "separatedfrom" [] i2 = "0" -> "continuationof" [] OTHER -> "precededby"
Succeeding(i2) == CASE i2 = "1" -> "continuedinpartby" [] i2 \in {"4", "5"} -> "absorbedby" [] i2 = "6" -> "splitinto"
                    [] i2 = "7" -> "mergedtoform" [] i2 \in {"0", "8"} -> "continuedby" [] OTHER -> "succeededby"
RelationCodeFor(tag, i2) == CASE tag = "780" -> <<Preceding(i2)>> [] tag = "785" -> <<Succeeding(i2)>>
                              [] OTHER -> In(ByTag, tag)
RelationsOf(f) ==
  LET code  == RelationCodeFor(f.tag, f.i2)
      title == IF Trimmed(f, "t") # <<>> THEN Trimmed(f, "t") ELSE Trimmed(f, "s")
  IN  If(code # <<>> /\ (\E v \in {title, Trimmed(f, "a"), Trimmed(f, "x"), Trimmed(f, "z")} : v # <<>>),
         <<[code |-> code[1], name |-> Trimmed(f, "a"), title |-> title, issn |-> Trimmed(f, "x"),
            isbn |-> Trimmed(f, "z"), key |-> MarcKeyOf(f)]>>)

SeriesOf(f) ==
  If(f.tag = "490" /\ Trimmed(f, "a") # <<>>,
     <<[title |-> Trimmed(f, "a"), enum |-> Trimmed(f, "v"), issn |-> Trimmed(f, "x"), traced |-> f.i1 = "1"]>>)
SeriesEntryTags == {"760", "762", "800", "810", "811", "830"}
SeriesEntryClass(tag) == CASE tag = "800" -> "Person" [] tag = "811" -> "Meeting" [] tag = "830" -> ""
                           [] OTHER -> "Organization"
SeriesEntriesOf(f) ==
  LET named == SeriesEntryClass(f.tag) # ""
      name  == If(named, Trimmed(f, "a"))
      title == Trimmed(f, IF named THEN "t" ELSE "a")
  IN  If(f.tag \in SeriesEntryTags /\ (name # <<>> \/ title # <<>>),
         <<[subseries |-> f.tag = "762", name |-> name, class |-> SeriesEntryClass(f.tag), title |-> title,
            enum |-> Trimmed(f, "v"), issn |-> Trimmed(f, "x"), key |-> MarcKeyOf(f)]>>)

Subdivisions == {"x", "y", "z", "v"}
HasSubdivision(f) == \E i \in DOMAIN f.subs : f.subs[i][1] \in Subdivisions /\ f.subs[i][2] # <<>>
Subdivided(f) == LET parts == SelectSeq(f.subs, LAMBDA s : s[1] \in {"a"} \cup Subdivisions /\ s[2] # <<>>)
                 IN If(parts # <<>>, FoldLeft(LAMBDA acc, s : acc \o <<"--">> \o s[2], parts[1][2], Tail(parts)))
ThesaurusByInd2 == ("0" :> <<"lcsh">>) @@ ("1" :> <<"lcshac">>) @@ ("2" :> <<"mesh">>) @@ ("3" :> <<"nal">>)
  @@ ("5" :> <<"cash">>) @@ ("6" :> <<"rvm">>)
SubjectSource(f) == IF f.i2 \in DOMAIN ThesaurusByInd2 THEN ThesaurusByInd2[f.i2] ELSE Trimmed(f, "2")
SubjectClass(f) == CASE f.tag = "650" \/ (f.tag = "655" /\ HasSubdivision(f)) -> "Topic" [] f.tag = "651" -> "Place"
                     [] f.tag = "600" -> "Person" [] f.tag = "610" -> "Organization" [] f.tag = "611" -> "Meeting"
                     [] OTHER -> ""
SubjectsOf(f) ==
  LET label == IF f.tag \in {"600", "610", "611"} THEN Trimmed(f, "a") ELSE Subdivided(f)
  IN  If(SubjectClass(f) # "" /\ label # <<>>,
         <<[class |-> SubjectClass(f), label |-> label, source |-> SubjectSource(f), authority |-> FirstIRI(f, "0")]>>)
GenreFormsOf(f) == If(f.tag = "655" /\ ~HasSubdivision(f), Known(Trimmed(f, "a")))

ClassTags == ("050" :> "ClassificationLcc") @@ ("082" :> "ClassificationDdc") @@ ("072" :> "Classification")
  @@ ("084" :> "Classification")
DeweyEdition(i1) == CASE i1 = "0" -> <<"full">> [] i1 = "1" -> <<"abridged">> [] OTHER -> <<>>
ClassificationsOf(f) ==
  If(f.tag \in DOMAIN ClassTags,
     Each(LAMBDA v : If(v # <<>>,
       <<[class |-> ClassTags[f.tag], value |-> v, item |-> If(f.tag # "072", Trimmed(f, "b")),
          edition |-> If(f.tag = "082", DeweyEdition(f.i1)), source |-> If(f.tag # "050", Trimmed(f, "2"))]>>),
       IF f.tag = "084" THEN AllTrimmed(f, "a") ELSE <<Trimmed(f, "a")>>))

LangCodes == {"eng", "fre", "ger"}
NormalizeLang(word) == IF word \in LangCodes THEN <<word>> ELSE In([en |-> "eng", fr |-> "fre"], word)
LanguageCodes(fs, code) ==
  Each(LAMBDA f : Each(LAMBDA v : Each(NormalizeLang, v), ValuesOf(f, code)), OfTags(fs, {"041"}))
Languages(fs)     == Once(Each(NormalizeLang, ControlValue(fs, "008", "35")) \o LanguageCodes(fs, "a"))
OriginalLangs(fs) == Once(LanguageCodes(fs, "h"))

NoteType == ("500" :> <<>>) @@ ("504" :> <<"bibliography">>) @@ ("511" :> <<"performers">>) @@ ("521" :> <<"audience">>)
  @@ ("533" :> <<"reproduction">>) @@ ("538" :> <<"systemDetails">>) @@ ("546" :> <<"language">>)
WorkNotes == {"511", "521", "546"}
NoteLabel(f) == Each(LAMBDA s : If(s[1] \notin {"6", "8"}, s[2]), f.subs)
NotesOf(f) == If(f.tag \in DOMAIN NoteType /\ NoteLabel(f) # <<>>, <<[type |-> NoteType[f.tag], label |-> NoteLabel(f)]>>)

WorkOf(r) ==
  LET fs == r.fields
      code336 == Each(LAMBDA f : Known(Trimmed(f, "b")), OfTags(fs, {"336"}))
  IN [class |-> In(WorkClass, r.leader.type),
      content |-> IF code336 # <<>> THEN Last(code336) ELSE In(Content06, r.leader.type),
      titles |-> IF Uniform(fs) # <<>> THEN Uniform(fs) ELSE Transcribed(fs),
      variants |-> Each(VariantsOf, SelectSeq(fs, LAMBDA f : f.i2 \notin OnInstance)),
      contributions |-> Each(ContributionsOf, fs), related |-> Each(RelatedWorksOf, fs),
      relations |-> Each(RelationsOf, fs), series |-> Each(SeriesOf, fs), entries |-> Each(SeriesEntriesOf, fs),
      subjects |-> Each(SubjectsOf, fs), genres |-> Each(GenreFormsOf, fs),
      languages |-> Languages(fs), originals |-> OriginalLangs(fs),
      classifications |-> Each(ClassificationsOf, fs),
      summary |-> Each(LAMBDA f : Known(ValueOf(f, "a")), OfTags(fs, {"520"})),
      toc |-> Each(LAMBDA f : Known(ValueOf(f, "a")), OfTags(fs, {"505"})),
      notes |-> Each(NotesOf, OfTags(fs, WorkNotes))]
-----------------------------------------------------------------------------
(* The Instance *)

Issuance == [m |-> "mono", s |-> "serl", i |-> "intg", c |-> "coll", d |-> "coll"]
FormatDate005(t) == If(t # <<>> /\ t[1] # "malformed", t)
Date008(r)    == LET d == ControlValue(r.fields, "008", "07") IN If(d \notin {<<" ">>, <<"0000">>}, d)
CountryCodes  == {"nyu", "enk"}
Country008(r) == LET c == ControlValue(r.fields, "008", "15") IN If(c # <<>> /\ c[1] \in CountryCodes, c)

ProvisionClass(f) == CASE f.tag = "264" /\ f.i2 = "0" -> "Production" [] f.tag = "264" /\ f.i2 = "2" -> "Distribution"
                       [] f.tag = "264" /\ f.i2 = "3" -> "Manufacture" [] OTHER -> "Publication"
IsCopyright(f) == f.tag = "264" /\ f.i2 = "4"
ProvisionsOf(f) ==
  LET p == [class |-> ProvisionClass(f), place |-> Trimmed(f, "a"), publisher |-> Trimmed(f, "b"),
            date |-> CleanDate(ValueOf(f, "c")), country |-> <<>>]
  IN  If(f.tag \in {"260", "264"} /\ ~IsCopyright(f) /\ (p.place # <<>> \/ p.publisher # <<>> \/ p.date # <<>>), <<p>>)
CopyrightDate(fs) == FirstOf(Each(LAMBDA f : If(IsCopyright(f), Known(CleanDate(ValueOf(f, "c")))), fs))

\* The country and, failing a date of its own, the date of the 008 go to the first
\* Publication, one being made for a country or for the date of a record without any.
IsPublication(p) == p.class = "Publication"
Dated(p, r) == [p EXCEPT !.country = IF Country008(r) # <<>> THEN Country008(r) ELSE @,
                         !.date = IF @ = <<>> THEN Date008(r) ELSE @]
AddProvisions(r) ==
  LET ps  == Each(ProvisionsOf, r.fields)
      pub == SelectInSeq(ps, IsPublication)
      new == [class |-> "Publication", place |-> <<>>, publisher |-> <<>>, date |-> <<>>, country |-> <<>>]
  IN  CASE pub # 0 -> [ps EXCEPT ![pub] = Dated(@, r)]
        [] pub = 0 /\ (Country008(r) # <<>> \/ (ps = <<>> /\ Date008(r) # <<>>)) -> Append(ps, Dated(new, r))
        [] OTHER -> ps

Extent(f) == Each(LAMBDA code : Trimmed(f, code), <<"a", "b", "f", "g">>)
RDATerm(f) == [code |-> Trimmed(f, "b"), label |-> Trimmed(f, "a")]
RDATerms(fs, tag) == Each(LAMBDA f : <<RDATerm(f)>>, OfTags(fs, {tag}))
Coded(code) == [code |-> <<code>>, label |-> <<>>]
HasCode(terms, code) == \E i \in DOMAIN terms : terms[i].code = <<code>>

\* Carriers and the first bytes of the 007 each has; a disc's differ.
Carrier007 == <<<<"cr", "cr">>, <<"cd", "co">>, <<"sd", "sd">>, <<"vd", "vd">>>>
CarrierFor007(coded) == FirstOf(SelectSeq(Carrier007, LAMBDA m : <<m[2]>> = coded))
AddCarrier(terms, coded) ==
  LET m == CarrierFor007(coded) IN IF m # <<>> /\ ~HasCode(terms, m[1]) THEN Append(terms, Coded(m[1])) ELSE terms
CodedCarriers(fs) ==
  FoldLeft(AddCarrier, RDATerms(fs, "338"), Each(LAMBDA f : <<ValueOf(f, "00")>>, OfTags(fs, {"007"})))
CodedMedia(fs) ==
  LET terms == RDATerms(fs, "337")
  IN  IF (\E i \in DOMAIN fs : fs[i].tag = "006" /\ ValueOf(fs[i], "00") = <<"m">>) /\ ~HasCode(terms, "c")
      THEN Append(terms, Coded("c")) ELSE terms

FormCarrier008 == [a |-> "hd", d |-> "nc", o |-> "cr", s |-> "cz"]
FormMedia008   == (" " :> "n") @@ [a |-> "h", d |-> "n", o |-> "c", s |-> "c"]
FormOfItemPos(type) == IF type \in {"e", "f", "g", "k", "o", "r"} THEN "29" ELSE "23"
ApplyFormOfItem(r, terms, table) ==
  LET form == ControlValue(r.fields, "008", FormOfItemPos(r.leader.type))
  IN  IF terms = <<>> /\ form # <<>> /\ form[1] \in DOMAIN table THEN <<Coded(table[form[1]])>> ELSE terms

DigitalClass == [a |-> "FileType", b |-> "EncodingFormat"]
DigitalOf(f) ==
  Each(LAMBDA s : If(s[1] \in DOMAIN DigitalClass /\ TrimISBD(s[2]) # <<>>,
                     <<[class |-> DigitalClass[s[1]], label |-> TrimISBD(s[2])]>>), f.subs)

CancInv == <<"cancinv">>
Incorrect == <<"incorrect">>
Identifier(class, value, source, qualifier, status) ==
  If(value # <<>>, <<[class |-> class, value |-> value, source |-> source, qualifier |-> qualifier, status |-> status]>>)
Scheme024ByInd1 == ("0" :> "Isrc") @@ ("1" :> "Upc") @@ ("2" :> "Ismn") @@ ("3" :> "Ean") @@ ("4" :> "Sici")
Scheme024ByCode == [doi |-> "Doi", isan |-> "Isan", urn |-> "Urn"]
Identifier024(f) ==   \* its class and its source
  LET scheme == Trimmed(f, "2")
      coded == scheme # <<>> /\ scheme[1] \in DOMAIN Scheme024ByCode
  IN  CASE f.i1 \in DOMAIN Scheme024ByInd1 -> <<Scheme024ByInd1[f.i1], <<>>>>
        [] f.i1 = "7" -> IF coded THEN <<Scheme024ByCode[scheme[1]], <<>>>> ELSE <<"Identifier", scheme>>
        [] OTHER -> <<"Identifier", <<>>>>
AppendIdentifiers(f, class, source, qualified) ==
  LET q == If(qualified, Trimmed(f, "q"))
      Valid(v) == IF ~qualified THEN Identifier(class, v, source, <<>>, <<>>)
                  ELSE Identifier(class, SplitParenthetical(v).value, source,
                                  IF q # <<>> THEN q ELSE SplitParenthetical(v).qualifier, <<>>)
  IN  Each(LAMBDA s : CASE s[1] = "a" -> Valid(TrimISBD(s[2]))
                        [] s[1] = "z" -> Identifier(class, TrimISBD(s[2]), source, <<>>, CancInv)
                        [] s[1] = "y" /\ class = "Issn" -> Identifier(class, TrimISBD(s[2]), source, <<>>, Incorrect)
                        [] OTHER -> <<>>, f.subs)
IdentifiersOf(f) ==
  CASE f.tag = "010" -> Identifier("Lccn", ValueOf(f, "a"), <<>>, <<>>, <<>>)
                        \o Each(LAMBDA v : Identifier("Lccn", v, <<>>, <<>>, CancInv), ValuesOf(f, "z"))
    [] f.tag = "020" -> AppendIdentifiers(f, "Isbn", Trimmed(f, "2"), TRUE)
    [] f.tag = "022" -> AppendIdentifiers(f, "Issn", Trimmed(f, "2"), FALSE)
    [] f.tag = "024" -> AppendIdentifiers(f, Identifier024(f)[1], Identifier024(f)[2], FALSE)
    [] f.tag = "037" -> Identifier("Identifier", Trimmed(f, "a"),
                                   IF Trimmed(f, "2") # <<>> THEN Trimmed(f, "2") ELSE Trimmed(f, "b"), <<>>, <<>>)
    [] OTHER -> <<>>
LocatorsOf(f) ==
  If(f.tag = "856",
     Each(LAMBDA u : If(u # <<>>, <<[url |-> u, materials |-> ValueOf(f, "3"), note |-> ValueOf(f, "z"),
                                    link |-> ValueOf(f, "y")]>>), ValuesOf(f, "u")))

AdminOf(fs) ==
  LET of(code) == TrimISBD(LastValue(fs, {"040"}, code))
      all(code) == Each(LAMBDA f : AllTrimmed(f, code), OfTags(fs, {"040"}))
  IN [agency |-> of("a"), language |-> of("b"), transcriber |-> of("c"), modifiers |-> all("d"), conventions |-> all("e"),
      number |-> ControlValue(fs, "001", "00"), org |-> ControlValue(fs, "003", "00"),
      changed |-> FormatDate005(ControlValue(fs, "005", "00"))]

InstanceOf(r) ==
  LET fs == r.fields
  IN [titles |-> Transcribed(fs), variants |-> Each(VariantsOf, SelectSeq(fs, LAMBDA f : f.i2 \in OnInstance)),
      responsibility |-> TrimISBD(LastValue(fs, {"245"}, "c")), edition |-> TrimISBD(LastValue(fs, {"250"}, "a")),
      provisions |-> AddProvisions(r), copyright |-> CopyrightDate(fs),
      extent |-> Each(LAMBDA f : Known(Extent(f)), OfTags(fs, {"300"})),
      dimensions |-> Each(LAMBDA f : AllTrimmed(f, "c"), OfTags(fs, {"300"})),
      duration |-> Each(LAMBDA f : Each(Known, ValuesOf(f, "a")), OfTags(fs, {"306"})),
      digital |-> Each(DigitalOf, OfTags(fs, {"347"})),
      media |-> ApplyFormOfItem(r, CodedMedia(fs), FormMedia008),
      carrier |-> ApplyFormOfItem(r, CodedCarriers(fs), FormCarrier008),
      issuance |-> In(Issuance, r.leader.level), notes |-> Each(NotesOf, SelectSeq(fs, LAMBDA f : f.tag \notin WorkNotes)),
      identifiers |-> Each(IdentifiersOf, fs), locators |-> Each(LocatorsOf, fs), admin |-> AdminOf(fs)]

FromRecord(r) == [work |-> WorkOf(r), inst |-> InstanceOf(r)]

\* The stem of a record's nodes: its control number, or its place in the stream.
SanitizeID(t) == SelectSeq(t, LAMBDA w : w \notin {" ", "/", "#"})
ResolveBase(r, idx) ==
  LET id == SanitizeID(ControlValue(r.fields, "001", "00")) IN IF id # <<>> THEN id ELSE <<"r", ToString(idx)>>
==============================================================================
