---------------------------- MODULE BibframeReader ----------------------------
(***************************************************************************)
(* bibframe.Decode: the crosswalk back from a graph to MARC records, one   *)
(* for every Work and Instance that are linked.                            *)
(*                                                                         *)
(* Every helper asks the graph for the objects of a node and a predicate;  *)
(* a node that is missing is NoNode, which no triple describes, as the     *)
(* zero Term of the code.                                                  *)
(***************************************************************************)
EXTENDS BibframeShape

NoNode == Node("none", <<>>)

Objects(g, s, p)   == Once(Each(LAMBDA t : If(t.s = s /\ t.p = p, <<t.o>>), g))
OneObject(g, s, p) == LET k == SelectInSeq(g, LAMBDA t : t.s = s /\ t.p = p) IN IF k = 0 THEN NoNode ELSE g[k].o
LiteralOf(g, s, p) == LET k == SelectInSeq(g, LAMBDA t : t.s = s /\ t.p = p /\ t.o.kind = "literal")
                      IN IF k = 0 THEN <<>> ELSE g[k].o.value
HasType(g, s, class)     == \E k \in DOMAIN g : g[k].s = s /\ g[k].p = "type" /\ g[k].o = IRINode(<<class>>)
SubjectsOfType(g, class) == Once(Each(LAMBDA t : If(t.p = "type" /\ t.o = IRINode(<<class>>), <<t.s>>), g))
LiteralsOf(g, s, p) == Each(LAMBDA o : If(o.kind = "literal" /\ o.value # <<>>, <<o.value>>), Objects(g, s, p))
LabelsOf(g, s, p)   == Each(LAMBDA o : LET label == LiteralOf(g, o, "label")
                                       IN IF label # <<>> THEN <<label>> ELSE If(o.kind = "literal", Known(o.value)),
                            Objects(g, s, p))
ClassesOf(g, s)  == Each(LAMBDA o : o.value, Objects(g, s, "type"))
TypeExcept(g, s, exclude) == LET rest == SelectSeq(ClassesOf(g, s), LAMBDA c : c # exclude)
                             IN IF rest = <<>> THEN "" ELSE rest[1]
SourceLabel(g, s) == LiteralOf(g, OneObject(g, s, "source"), "label")
StatusLabel(g, s) == LiteralOf(g, OneObject(g, s, "status"), "label")
\* The code of an IRI that is under a vocabulary.
Under(vocab, n)  == If(n.kind = "iri" /\ n.value # <<>> /\ n.value[1] = vocab, Tail(n.value))

Subfield(code, text)  == If(text # <<>>, <<<<code, text>>>>)
Subfields(code, texts) == Each(LAMBDA t : Subfield(code, t), texts)
Field(tag, i1, i2, subs) == <<MarcField(tag, i1, i2, subs)>>
FieldIf(tag, i1, i2, subs) == If(subs # <<>>, Field(tag, i1, i2, subs))
-----------------------------------------------------------------------------
(* Titles and names *)

FirstTitle(g, s) ==
  LET main == SelectSeq(Objects(g, s, "title"), LAMBDA n : ~HasType(g, n, "VariantTitle") /\ ~HasType(g, n, "ParallelTitle"))
      n == IF main = <<>> THEN NoNode ELSE main[1]
      Part(p) == LiteralOf(g, n, p)
  IN [main |-> Part("mainTitle"), sub |-> Part("subtitle"), num |-> Part("partNumber"), name |-> Part("partName"),
      nonsort |-> Part("nonSortNum")]
RecordedTitle(g, work, inst) ==
  IF FirstTitle(g, inst).main # <<>> THEN FirstTitle(g, inst) ELSE FirstTitle(g, work)
TitleSubfields(t, resp) ==
  <<<<"a", t.main>>>> \o Subfield("b", t.sub) \o Subfield("n", t.num) \o Subfield("p", t.name) \o Subfield("c", resp)
Ind2ForVariant(parallel, type) ==
  LET codes == {c \in DOMAIN VariantType : VariantType[c] = type}
  IN IF parallel THEN "1" ELSE IF codes = {} THEN " " ELSE CHOOSE c \in codes : TRUE
VariantTitleFields(g, s) ==
  Each(LAMBDA n : LET Part(p) == LiteralOf(g, n, p)
                      parallel == HasType(g, n, "ParallelTitle")
                  IN If(parallel \/ HasType(g, n, "VariantTitle"),
                        Field("246", " ", Ind2ForVariant(parallel, Part("variantType")),
                              <<<<"a", Part("mainTitle")>>>> \o Subfield("b", Part("subtitle")) \o Subfield("n", Part("partNumber"))
                              \o Subfield("p", Part("partName")))),
       Objects(g, s, "title"))

AgentClasses == <<"Organization", "Meeting", "Person", "Family", "Jurisdiction">>
AgentClass(g, agent) == LET found == SelectSeq(AgentClasses, LAMBDA c : HasType(g, agent, c))
                        IN IF found = <<>> THEN "" ELSE found[1]
ContribTag(class, primary) ==
  CASE class \in {"Organization", "Jurisdiction"} -> IF primary THEN "110" ELSE "710"
    [] class = "Meeting" -> IF primary THEN "111" ELSE "711"
    [] OTHER -> IF primary THEN "100" ELSE "700"
\* Mutant: a family comes back as a person.
Ind1ForClassFamilyLost(class) == IF class \in {"Organization", "Meeting"} THEN "2" ELSE "1"
Ind1ForClass(class) == CASE class = "Family" -> "3" [] class \in {"Organization", "Meeting"} -> "2" [] OTHER -> "1"
IsPrimaryNode(g, c) == HasType(g, c, "PrimaryContribution")
LocAuthorities == {"loc-names", "loc-subjects"}
AuthoritySubcode(iri) == IF iri[2] \in LocAuthorities THEN "0" ELSE "1"
RoleSubfields(g, c, class) ==
  Each(LAMBDA r : IF r.kind = "iri" THEN Subfield("4", IF Under("relators", r) # <<>> THEN Under("relators", r) ELSE r.value)
                  ELSE Subfield(IF class = "Meeting" THEN "j" ELSE "e", LiteralOf(g, r, "label")),
       Objects(g, c, "role"))
ContributionField(g, c, agent, class) ==
  If(LiteralOf(g, agent, "label") # <<>>,
     Field(ContribTag(class, IsPrimaryNode(g, c)), Ind1ForClass(class), " ",
           Subfield("a", LiteralOf(g, agent, "label")) \o RoleSubfields(g, c, class)
           \o If(agent.kind = "iri", Subfield(AuthoritySubcode(agent.value), agent.value))))
ContributionFields(g, work) ==
  Each(LAMBDA c : ContributionField(g, c, OneObject(g, c, "agent"), AgentClass(g, OneObject(g, c, "agent"))),
       Objects(g, work, "contribution"))
RelatedWorkFields(g, work) ==
  Each(LAMBDA rw : LET c == OneObject(g, rw, "contribution")
                       agent == OneObject(g, c, "agent")
                       class == AgentClass(g, agent)
                   IN FieldIf(ContribTag(class, IsPrimaryNode(g, c)), Ind1ForClass(class), " ",
                              Subfield("a", LiteralOf(g, agent, "label")) \o Subfield("t", FirstTitle(g, rw).main)),
       Objects(g, work, "relatedTo"))
-----------------------------------------------------------------------------
(* Relations and series, the field itself from a note where there is one *)

ParseMARCKey(key) ==
  LET subs == Each(LAMBDA part : If(part # <<>>, <<<<part[1], Tail(part)>>>>), Split(SubSeq(key, 5, Len(key)), {"$"}))
  IN  If(Len(key) > 4 /\ key[4] = "$" /\ subs # <<>>, Field(key[1], key[2], key[3], subs))
\* Mutant: the note is taken whatever field it keeps, so a series entry is a relation too.
NoteKeysOfAnyTag(g, s, tags) ==
  LET notes == SelectSeq(Objects(g, s, "note"), LAMBDA n : HasType(g, n, "internal"))
      found == Each(LAMBDA n : ParseMARCKey(LiteralOf(g, n, "label")), notes)
  IN  If(found # <<>>, <<found[1]>>)
NoteKeys(g, s, tags) ==
  LET notes == SelectSeq(Objects(g, s, "note"), LAMBDA n : HasType(g, n, "internal"))
      found == SelectSeq(Each(LAMBDA n : ParseMARCKey(LiteralOf(g, n, "label")), notes), LAMBDA f : f.tag \in tags)
  IN  If(found # <<>>, <<found[1]>>)

LinkingTags == (DOMAIN ByTag) \cup {"780", "785"}
RelationshipCode(g, rel) ==
  LET code == Under("relationship", OneObject(g, rel, "relationship")) IN IF code = <<>> THEN "" ELSE code[1]
AssociatedName(g, res) == LiteralOf(g, OneObject(g, OneObject(g, res, "contribution"), "agent"), "label")
AssociatedNumber(g, res, isbn) ==
  FirstOf(Each(LAMBDA id : If((TypeExcept(g, id, "") = "Isbn") = isbn, Known(LiteralOf(g, id, "value"))),
               Objects(g, res, "identifiedBy")))
\* The field a relationship and its resource amount to, when no note says more.
RelationField(code) ==
  LET tags == {t \in DOMAIN ByTag : ByTag[t] = code}
      before == {i \in {"0", "1", "2", "4", "5", "7"} : Preceding(i) = code}
      after  == {i \in {"0", "1", "2", "4", "6", "7"} : Succeeding(i) = code}
  IN  IF tags # {} THEN <<CHOOSE t \in tags : TRUE, " ">>
      ELSE IF before # {} THEN <<"780", CHOOSE i \in before : TRUE>>
      ELSE IF after # {} THEN <<"785", CHOOSE i \in after : TRUE>>
      ELSE <<>>
RelationFromProperties(g, rel, res) ==
  LET known == RelationField(RelationshipCode(g, rel))
      subs  == Subfield("a", AssociatedName(g, res)) \o Subfield("t", FirstTitle(g, res).main)
               \o Subfield("x", AssociatedNumber(g, res, FALSE)) \o Subfield("z", AssociatedNumber(g, res, TRUE))
  IN  If(known # <<>> /\ subs # <<>>, Field(known[1], " ", known[2], subs))
RelationFields(g, work) ==
  Each(LAMBDA rel : LET noted == NoteKeys(g, rel, LinkingTags)
                    IN IF noted # <<>> THEN noted ELSE RelationFromProperties(g, rel, OneObject(g, rel, "associatedResource")),
       Objects(g, work, "relation"))

SeriesTraced(g, res) ==
  \E k \in DOMAIN Objects(g, res, "status") :
    \/ Objects(g, res, "status")[k] = VocabIRI("mstatus", <<"tr">>)
    \/ LiteralOf(g, Objects(g, res, "status")[k], "label") = <<"traced">>
SeriesFields(g, work) ==
  Each(LAMBDA rel : LET res == OneObject(g, rel, "associatedResource")
                        title == FirstTitle(g, res).main
                    IN If(RelationshipCode(g, rel) = "series" /\ ~HasType(g, res, "Hub") /\ title # <<>>,
                          Field("490", IF SeriesTraced(g, res) THEN "1" ELSE "0", " ",
                                Subfield("a", title) \o Subfield("x", AssociatedNumber(g, res, FALSE))
                                \o Subfield("v", LiteralOf(g, rel, "seriesEnumeration")))),
       Objects(g, work, "relation"))
SeriesEntryFromProperties(g, rel, res) ==
  LET title == FirstTitle(g, res).main
      name == AssociatedName(g, res)
      tag == IF RelationshipCode(g, rel) = "subseries" THEN "762" ELSE IF name # <<>> THEN "800" ELSE "830"
  IN  If(title # <<>> \/ name # <<>>,
         Field(tag, " ", " ", (IF name # <<>> THEN Subfield("a", name) \o Subfield("t", title) ELSE Subfield("a", title))
                              \o Subfield("x", AssociatedNumber(g, res, FALSE)) \o Subfield("v", LiteralOf(g, rel, "seriesEnumeration"))))
SeriesEntryFields(g, work) ==
  Each(LAMBDA rel : LET res == OneObject(g, rel, "associatedResource")
                        noted == NoteKeys(g, rel, SeriesEntryTags)
                    IN If(RelationshipCode(g, rel) \in {"series", "subseries"} /\ HasType(g, res, "Hub"),
                          IF noted # <<>> THEN noted ELSE SeriesEntryFromProperties(g, rel, res)),
       Objects(g, work, "relation"))
-----------------------------------------------------------------------------
(* Subjects, identifiers, classifications, languages *)

SourceFromIRI(iri) == CASE iri[2] = "loc-subjects" -> <<"lcsh">> [] iri[2] = "fast" -> <<"fast">> [] OTHER -> <<>>
SubjectInd2(source) ==
  LET codes == {c \in DOMAIN ThesaurusByInd2 : ThesaurusByInd2[c] = source}
  IN IF source = <<>> THEN " " ELSE IF codes # {} THEN CHOOSE c \in codes : TRUE ELSE "7"
JoinDashes(t) ==  \* a heading whose parts are joined by dashes, as the parts' subfields
  LET parts == Split(t, {"--"}) IN <<<<"a", parts[1]>>>> \o Each(LAMBDA p : <<<<"x", p>>>>, Tail(parts))
SubjectTag == [Topic |-> "650", Place |-> "651", Person |-> "600", Organization |-> "610", Meeting |-> "611"]
SubjectField(g, s, label) ==
  LET authority == If(s.kind = "iri", s.value)
      source == IF SourceLabel(g, s) = <<>> /\ authority # <<>> THEN SourceFromIRI(authority) ELSE SourceLabel(g, s)
      class == IF TypeExcept(g, s, "") = "" THEN "Topic" ELSE TypeExcept(g, s, "")
      i2 == SubjectInd2(source)
      i1 == CASE class = "Person" -> "1" [] class \in {"Organization", "Meeting"} -> "2" [] OTHER -> " "
  IN  If(label # <<>> /\ class \in DOMAIN SubjectTag,
         Field(SubjectTag[class], i1, i2,
               (IF class \in {"Topic", "Place"} THEN JoinDashes(label) ELSE Subfield("a", label))
               \o If(i2 = "7", Subfield("2", source)) \o Subfield("0", authority)))
SubjectFields(g, work) == Each(LAMBDA s : SubjectField(g, s, LiteralOf(g, s, "label")), Objects(g, work, "subject"))

IdentifierField(tag, i1, value, source, qualifier, status) ==
  LET code == CASE status = CancInv -> "z" [] status = Incorrect -> "y" [] OTHER -> "a"
  IN  Field(tag, i1, " ", Subfield(code, value) \o Subfield("q", qualifier) \o Subfield("2", source))
Identifier024Field(class, value, source, qualifier, status) ==
  LET inds  == {i \in DOMAIN Scheme024ByInd1 : Scheme024ByInd1[i] = class}
      codes == {c \in DOMAIN Scheme024ByCode : Scheme024ByCode[c] = class}
  IN  IF inds # {} THEN IdentifierField("024", CHOOSE i \in inds : TRUE, value, <<>>, qualifier, status)
      ELSE IF codes # {} THEN IdentifierField("024", "7", value, <<CHOOSE c \in codes : TRUE>>, qualifier, status)
      ELSE IdentifierField("024", IF source # <<>> THEN "7" ELSE "8", value, source, qualifier, status)
IdentifierFields(g, inst) ==
  Each(LAMBDA id : LET value == LiteralOf(g, id, "value")
                       class == TypeExcept(g, id, "")
                       status == StatusLabel(g, id)
                       qualifier == LiteralOf(g, id, "qualifier")
                   IN If(value # <<>>,
                         CASE class = "Isbn" -> IdentifierField("020", " ", value, SourceLabel(g, id), qualifier, status)
                           [] class = "Issn" -> IdentifierField("022", " ", value, SourceLabel(g, id), qualifier, status)
                           [] class = "Lccn" -> Field("010", " ", " ", Subfield(IF status = CancInv THEN "z" ELSE "a", value))
                           [] OTHER -> Identifier024Field(class, value, SourceLabel(g, id), qualifier, status)),
       Objects(g, inst, "identifiedBy"))

DeweyInd1(edition) == CASE edition = <<"full">> -> "0" [] edition = <<"abridged">> -> "1" [] OTHER -> " "
ClassificationFields(g, work) ==
  Each(LAMBDA c : LET subs == Subfield("a", LiteralOf(g, c, "classificationPortion")) \o Subfield("b", LiteralOf(g, c, "itemPortion"))
                      source == Subfield("2", SourceLabel(g, c))
                      class == TypeExcept(g, c, "")
                  IN If(LiteralOf(g, c, "classificationPortion") # <<>>,
                        CASE class = "ClassificationLcc" -> Field("050", " ", "4", subs)
                          [] class = "ClassificationDdc" ->
                               Field("082", DeweyInd1(LiteralOf(g, c, "edition")), "4", subs \o source)
                          [] class = "Classification" -> Field("072", " ", "7", subs \o source) [] OTHER -> <<>>),
       Objects(g, work, "classification"))

LangCode(g, n) ==
  LET found == SelectSeq(<<LiteralOf(g, n, "code"), Under("languages", n), LiteralOf(g, n, "label")>>,
                         LAMBDA t : Len(t) = 1 /\ t[1] \in LangCodes)
  IN  IF found = <<>> THEN <<>> ELSE found[1]
IsOriginal(g, n) == LiteralOf(g, n, "part") = <<"original">>
LanguageCodesOf(g, work, original) ==
  Each(LAMBDA n : If(IsOriginal(g, n) = original, Known(LangCode(g, n))), Objects(g, work, "language"))
LanguageField(g, work) ==
  FieldIf("041", " ", " ", Subfields("a", LanguageCodesOf(g, work, FALSE)) \o Subfields("h", LanguageCodesOf(g, work, TRUE)))
PrimaryLanguage(g, work) == FirstOf(LanguageCodesOf(g, work, FALSE))
-----------------------------------------------------------------------------
(* The Instance *)

FirstNonEmpty(a, b) == IF a # <<>> THEN a ELSE b
ProvisionDate(g, prov) == FirstNonEmpty(LiteralOf(g, prov, "date"), LiteralOf(g, prov, "simpleDate"))
CountryCode(g, prov) == Under("countries", OneObject(g, prov, "place"))
ProvisionFields(g, inst) ==
  Each(LAMBDA prov : FieldIf("260", " ", " ", Subfield("a", LiteralOf(g, prov, "simplePlace"))
                             \o Subfield("b", LiteralOf(g, prov, "simpleAgent")) \o Subfield("c", ProvisionDate(g, prov))),
       Objects(g, inst, "provisionActivity"))
  \o FieldIf("264", " ", "4", Subfield("c", LiteralOf(g, inst, "copyrightDate")))

\* The one year the provisions agree on, the positions that are known, and the rest blank.
IsYear(t) == Len(t) = 1 /\ t[1] \in {"1993", "1994"}
SoleProvisionYear(g, inst) ==
  LET years == Once(Each(LAMBDA prov : If(IsYear(ProvisionDate(g, prov)), <<ProvisionDate(g, prov)>>),
                         Objects(g, inst, "provisionActivity")))
  IN  IF Len(years) = 1 THEN years[1] ELSE <<>>
ProvisionCountry(g, inst) ==
  FirstOf(Each(LAMBDA prov : Known(CountryCode(g, prov)), Objects(g, inst, "provisionActivity")))
Control008(g, work, inst) ==
  LET known == <<<<"07", SoleProvisionYear(g, inst)>>, <<"15", ProvisionCountry(g, inst)>>, <<"23", <<>>>>, <<"29", <<>>>>,
                 <<"35", PrimaryLanguage(g, work)>>>>
  IN  If(\E i \in DOMAIN known : known[i][2] # <<>>,
         Field("008", " ", " ", Each(LAMBDA s : Subfield(s[1], IF s[2] = <<>> THEN <<" ">> ELSE s[2]), known)))

PhysicalFields(g, inst) ==
  LET extents == LabelsOf(g, inst, "extent")
      dims == Subfields("c", LiteralsOf(g, inst, "dimensions"))
  IN  IF extents = <<>> THEN FieldIf("300", " ", " ", dims)
      ELSE Field("300", " ", " ", Subfield("a", extents[1]) \o dims)
           \o Each(LAMBDA e : Field("300", " ", " ", Subfield("a", e)), Tail(extents))
DurationField(g, inst) == FieldIf("306", " ", " ", Subfields("a", LiteralsOf(g, inst, "duration")))
DigitalField(g, inst) ==
  FieldIf("347", " ", " ",
    Each(LAMBDA n : CASE TypeExcept(g, n, "") = "FileType" -> Subfield("a", LiteralOf(g, n, "label"))
                      [] TypeExcept(g, n, "") = "EncodingFormat" -> Subfield("b", LiteralOf(g, n, "label"))
                      [] OTHER -> <<>>, Objects(g, inst, "digitalCharacteristic")))

ContentField(g, work) ==
  LET code == Under("contentTypes", OneObject(g, work, "content"))
  IN  If(code # <<>>, Field("336", " ", " ", Subfield("b", code) \o Subfield("2", <<"rdacontent">>)))
RdaFields(g, inst, p, tag, vocab, source) ==
  Each(LAMBDA n : LET code == Under(vocab, n)
                      label == LiteralOf(g, n, "label")
                  IN FieldIf(tag, " ", " ", If(label # code, Subfield("a", label))
                                            \o If(code # <<>>, Subfield("b", code) \o Subfield("2", source))),
       Objects(g, inst, p))
F007ForCarrier(code) == Each(LAMBDA m : If(<<m[1]>> = code, <<<<m[2]>>>>), Carrier007)
CodedFields(g, inst, type) ==
  Each(LAMBDA coded : Field("007", " ", " ", Subfield("00", coded)),
       Once(Each(LAMBDA n : F007ForCarrier(Under("carriers", n)), Objects(g, inst, "carrier"))))
  \o If(type # "m" /\ VocabIRI("mediaTypes", <<"c">>) \in Range(Objects(g, inst, "media")),
        Field("006", " ", " ", Subfield("00", <<"m">>)))

TagForNoteType(type) ==
  LET tags == {t \in DOMAIN NoteType : NoteType[t] = type} IN IF tags = {} THEN "500" ELSE CHOOSE t \in tags : TRUE
NoteFields(g, s) ==
  Each(LAMBDA n : FieldIf(TagForNoteType(LiteralOf(g, n, "noteType")), " ", " ", Subfield("a", LiteralOf(g, n, "label"))),
       Objects(g, s, "note"))
LocatorFields(g, inst) ==
  Each(LAMBDA loc : LET notes == Objects(g, loc, "note")
                        text == Each(LAMBDA n : If(n.kind = "literal", <<n.value>>), notes)
                        link == Each(LAMBDA n : If(n.kind # "literal" /\ LiteralOf(g, n, "noteType") = <<"link", "text">>,
                                                   <<LiteralOf(g, n, "label")>>), notes)
                    IN FieldIf("856", "4", "0", Subfield("u", loc.value) \o Subfield("3", LiteralOf(g, loc, "label"))
                               \o If(text # <<>>, Subfield("z", Last(text))) \o If(link # <<>>, Subfield("y", Last(link)))),
       Objects(g, inst, "electronicLocator"))

\* Field 040 from its note, or else from what the properties say of it.
AgencyCode(g, n) == FirstNonEmpty(LiteralOf(g, n, "code"), Under("organizations", n))
VocabCode(g, n, vocab) == FirstNonEmpty(LiteralOf(g, n, "code"), Under(vocab, n))
Field040FromProperties(g, admin) ==
  FieldIf("040", " ", " ",
    Subfield("a", AgencyCode(g, OneObject(g, admin, "assigner")))
    \o Subfield("b", VocabCode(g, OneObject(g, admin, "descriptionLanguage"), "languages"))
    \o Each(LAMBDA m : Subfield("d", AgencyCode(g, m)), Objects(g, admin, "descriptionModifier"))
    \o Each(LAMBDA c : Subfield("e", VocabCode(g, c, "conventions")), Objects(g, admin, "descriptionConventions")))
CatalogingSource(g, work, inst) ==
  LET admins == Objects(g, inst, "adminMetadata") \o Objects(g, work, "adminMetadata")
      noted == Each(LAMBDA a : NoteKeys(g, a, {"040"}), admins)
      stated == Each(LAMBDA a : Field040FromProperties(g, a), admins)
  IN  CASE noted # <<>> -> <<noted[1]>> [] noted = <<>> /\ stated # <<>> -> <<stated[1]>> [] OTHER -> <<>>
-----------------------------------------------------------------------------
(* The record *)

FallbackBases == {<<"r", ToString(i)>> : i \in 0..9}
ControlNumber(work) == LET id == SubSeq(work.value, 2, Len(work.value) - 1) IN If(id \notin FallbackBases, id)
TitleFields(wt, it, resp, hasPrimary) ==
  If(wt.main # <<>> /\ wt.main # it.main, Field(IF hasPrimary THEN "240" ELSE "130", "0", " ", TitleSubfields(wt, <<>>)))
  \o If(it.main # <<>>, Field("245", IF hasPrimary THEN "1" ELSE "0", IF it.nonsort # <<>> THEN it.nonsort[1] ELSE "0",
                              TitleSubfields(it, resp)))
HasPrimary(g, work) ==
  \E k \in DOMAIN Objects(g, work, "contribution") :
    LET c == Objects(g, work, "contribution")[k]
    IN  IsPrimaryNode(g, c) /\ LiteralOf(g, OneObject(g, c, "agent"), "label") # <<>>
RecordType(class) ==
  CASE class = "Text" -> "a" [] class = "NotatedMusic" -> "c" [] class = "Cartography" -> "e" [] class = "MovingImage" -> "g"
    [] class = "NonMusicAudio" -> "i" [] class = "MusicAudio" -> "j" [] class = "StillImage" -> "k"
    [] class = "Multimedia" -> "m" [] class = "MixedMaterial" -> "o" [] class = "Object" -> "r" [] OTHER -> "a"
LevelForIssuance == [mono |-> "m", serl |-> "s", intg |-> "i", coll |-> "c"]
LeaderFor(class, code) ==
  [type |-> RecordType(class),
   level |-> IF code # <<>> /\ code[1] \in DOMAIN LevelForIssuance THEN LevelForIssuance[code[1]] ELSE "m"]

FieldsOf(g, work, inst, type) ==
  Each(LAMBDA id : Field("001", " ", " ", Subfield("00", id)), Known(ControlNumber(work))) \o CatalogingSource(g, work, inst)
  \o TitleFields(FirstTitle(g, work), RecordedTitle(g, work, inst), LiteralOf(g, inst, "responsibilityStatement"), HasPrimary(g, work))
  \o VariantTitleFields(g, work) \o VariantTitleFields(g, inst)
  \o ContributionFields(g, work) \o RelatedWorkFields(g, work) \o RelationFields(g, work) \o SubjectFields(g, work)
  \o IdentifierFields(g, inst) \o ClassificationFields(g, work) \o LanguageField(g, work)
  \o Each(LAMBDA t : Field("655", " ", "0", Subfield("a", t)), LabelsOf(g, work, "genreForm"))
  \o FieldIf("250", " ", " ", Subfield("a", LiteralOf(g, inst, "editionStatement")))
  \o SeriesFields(g, work) \o SeriesEntryFields(g, work) \o DurationField(g, inst) \o DigitalField(g, inst)
  \o ProvisionFields(g, inst) \o Control008(g, work, inst) \o PhysicalFields(g, inst) \o ContentField(g, work)
  \o RdaFields(g, inst, "media", "337", "mediaTypes", <<"rdamedia">>)
  \o RdaFields(g, inst, "carrier", "338", "carriers", <<"rdacarrier">>) \o CodedFields(g, inst, type)
  \o Each(LAMBDA t : Field("520", " ", " ", Subfield("a", t)), LabelsOf(g, work, "summary"))
  \o Each(LAMBDA t : Field("505", " ", " ", Subfield("a", t)), LiteralsOf(g, work, "tableOfContents"))
  \o NoteFields(g, work) \o NoteFields(g, inst) \o LocatorFields(g, inst)

TagOrder == <<"001", "006", "007", "008", "010", "020", "022", "024", "040", "041", "050", "072", "082", "100", "110", "111",
  "130", "240", "245", "246", "250", "260", "264", "300", "306", "336", "337", "338", "347", "490", "500", "504", "505", "511",
  "520", "521", "533", "538", "546", "600", "610", "611", "650", "651", "655", "700", "710", "711", "760", "762", "765", "767",
  "770", "772", "773", "774", "775", "776", "777", "780", "785", "786", "787", "800", "810", "811", "830", "856">>
SortedByTag(fs) == Each(LAMBDA tag : OfTags(fs, {tag}), TagOrder)

RecordFrom(g, work, inst) ==
  Each(LAMBDA leader : <<[leader |-> leader, fields |-> SortedByTag(FieldsOf(g, work, inst, leader.type))]>>,
       <<LeaderFor(TypeExcept(g, work, "Work"), Under("issuance", OneObject(g, inst, "issuance")))>>)

RelatedWorkSet(g) == {g[k].o : k \in {i \in DOMAIN g : g[i].p \in {"relatedTo", "associatedResource"}}}
InstancesOf(g, work) ==
  Once(Each(LAMBDA t : If(t.p = "hasInstance" /\ t.s = work, <<t.o>>) \o If(t.p = "instanceOf" /\ t.o = work, <<t.s>>), g))
WithInstances(insts) == IF insts = <<>> THEN <<NoNode>> ELSE insts
DecodeGraph(g) ==
  Each(LAMBDA work : Each(LAMBDA inst : RecordFrom(g, work, inst), WithInstances(InstancesOf(g, work))),
       SelectSeq(SubjectsOfType(g, "Work"), LAMBDA n : n \notin RelatedWorkSet(g)))
===============================================================================
