---------------------------- MODULE BibframeShape ----------------------------
(***************************************************************************)
(* The shape of the graph: emitWork and emitInstance into the graph sink.  *)
(*                                                                         *)
(* A graph is a sequence of triples, as rdf.Graph holds it.  Predicates    *)
(* and classes are given by their local names.  A node made without an IRI *)
(* is blank and has a label of its own, which the writers keep distinct    *)
(* over the records of a stream; here the label says which place of which  *)
(* record the node stands for.  A node made with an IRI is the same node   *)
(* wherever the document makes it again.                                   *)
(***************************************************************************)
EXTENDS BibframeForward

Node(kind, value) == [kind |-> kind, value |-> value]
IRINode(value)    == Node("iri", value)
BlankNode(at)     == Node("blank", at)
Literal(text)     == Node("literal", text)
VocabIRI(vocab, code) == IRINode(<<vocab>> \o code)
NodeFor(iri, at)  == IF iri = <<>> THEN BlankNode(at) ELSE IRINode(iri)
WorkIRI(base)     == IRINode(<<"#">> \o base \o <<"Work">>)
InstanceIRI(base) == IRINode(<<"#">> \o base \o <<"Instance">>)

\* A malformed code makes no IRI of a vocabulary.
IsRDACode(code) == Len(code) = 1 /\ code[1] # "Bad"
RdaIRI(vocab, code, at) == IF IsRDACode(code) THEN VocabIRI(vocab, code) ELSE BlankNode(at)
OrgIRI(code, at) == IF Len(code) = 1 THEN VocabIRI("organizations", code) ELSE BlankNode(at)

Triple(s, p, o) == <<[s |-> s, p |-> p, o |-> o]>>
Types(n, classes) == Each(LAMBDA c : Triple(n, "type", IRINode(<<c>>)), classes)
Lit(s, p, text)   == If(text # <<>>, Triple(s, p, Literal(text)))
Lits(s, p, texts) == Each(LAMBDA t : Triple(s, p, Literal(t)), texts)
Child(s, p, n, classes) == Triple(s, p, n) \o Types(n, classes)
Place(at, p, k)   == at \o <<p, ToString(k)>>
\* The children emitted for the items of a list, each in its place.
EachAt(E(_, _), items, at, p) == FlattenSeq([k \in DOMAIN items |-> E(items[k], Place(at, p, k))])

EmitLabeled(s, p, class, label, at) == Child(s, p, BlankNode(at), <<class>>) \o Lit(BlankNode(at), "label", label)
EmitSource(s, source, at) == If(source # <<>>, EmitLabeled(s, "source", "Source", source, at \o <<"source">>))
-----------------------------------------------------------------------------
EmitTitleParts(n, t) == Lit(n, "mainTitle", t.main) \o Lit(n, "subtitle", t.sub) \o Lit(n, "partNumber", t.num)
                        \o Lit(n, "partName", t.name)
EmitTitle(s, t, at) == Child(s, "title", BlankNode(at), <<"Title">>) \o EmitTitleParts(BlankNode(at), t)
                       \o Lit(BlankNode(at), "nonSortNum", t.nonsort)
MainTitle(text) == [main |-> text, sub |-> <<>>, num |-> <<>>, name |-> <<>>, nonsort |-> <<>>]
EmitMainTitle(s, text, at) == If(text # <<>>, EmitTitle(s, MainTitle(text), at \o <<"title">>))
EmitVariantTitle(s, vt, at) ==
  Child(s, "title", BlankNode(at), <<IF vt.parallel THEN "ParallelTitle" ELSE "VariantTitle">>)
  \o EmitTitleParts(BlankNode(at), vt.title) \o Lit(BlankNode(at), "variantType", vt.type)
EmitTitles(s, b, at) == EachAt(LAMBDA t, a : EmitTitle(s, t, a), b.titles, at, "title")
                        \o EachAt(LAMBDA vt, a : EmitVariantTitle(s, vt, a), b.variants, at, "variant")

EmitRole(s, r, at) == Child(s, "role", NodeFor(r.iri, at), <<"Role">>) \o Lit(NodeFor(r.iri, at), "label", r.term)
EmitAgent(s, class, label, authority, at) ==
  Child(s, "agent", NodeFor(authority, at), <<class>>) \o Lit(NodeFor(authority, at), "label", label)
EmitContribution(s, c, at) ==
  LET n == BlankNode(at)
  IN  Child(s, "contribution", n, <<IF c.primary THEN "PrimaryContribution" ELSE "Contribution">>)
      \o EmitAgent(n, c.class, c.label, c.authority, at \o <<"agent">>)
      \o EachAt(LAMBDA r, a : EmitRole(n, r, a), c.roles, at, "role")
EmitCreator(s, primary, class, name, at) ==
  If(name # <<>>, EmitContribution(s, [primary |-> primary, class |-> class, label |-> name, roles |-> <<>>,
                                       authority |-> <<>>], at \o <<"creator">>))
EmitRelatedWork(s, rw, at) ==
  LET n == BlankNode(at)
  IN  Child(s, "relatedTo", n, <<"Work">>) \o EmitCreator(n, rw.primary, rw.class, rw.name, at)
      \o EmitTitle(n, MainTitle(rw.title), at \o <<"title">>)

EmitIdentifier(s, id, at) ==
  LET n == BlankNode(at)
  IN  Child(s, "identifiedBy", n, <<id.class>>) \o Lit(n, "value", id.value) \o Lit(n, "qualifier", id.qualifier)
      \o If(id.status # <<>>, EmitLabeled(n, "status", "Status", id.status, at \o <<"status">>))
      \o EmitSource(n, id.source, at)
EmitNumber(s, class, value, at) ==
  Each(LAMBDA id : EmitIdentifier(s, id, at \o <<class>>), Identifier(class, value, <<>>, <<>>, <<>>))
EmitKey(s, key, at) ==
  If(key # <<>>, Child(s, "note", BlankNode(at \o <<"key">>), <<"Note", "internal">>)
                 \o Lit(BlankNode(at \o <<"key">>), "label", key))
EmitRelationship(s, code, at) == Child(s, "relation", BlankNode(at), <<"Relation">>)
                                 \o Triple(BlankNode(at), "relationship", VocabIRI("relationship", <<code>>))
EmitRelation(s, rel, at) ==
  LET n == BlankNode(at)
      res == BlankNode(at \o <<"resource">>)
  IN  EmitRelationship(s, rel.code, at) \o Child(n, "associatedResource", res, <<"Work">>)
      \o EmitCreator(res, FALSE, "Agent", rel.name, at) \o EmitMainTitle(res, rel.title, at)
      \o EmitNumber(res, "Issn", rel.issn, at) \o EmitNumber(res, "Isbn", rel.isbn, at) \o EmitKey(n, rel.key, at)
\* A status is described where the record first mentions it.
EmitSeriesStatus(s, code, label, described) ==
  Triple(s, "status", VocabIRI("mstatus", <<code>>))
  \o If(~described, Types(VocabIRI("mstatus", <<code>>), <<"Status">>) \o Lit(VocabIRI("mstatus", <<code>>), "label", <<label>>))
EmitSeries(s, series, k, at) ==
  LET ser == series[k]
      n == BlankNode(at)
      res == BlankNode(at \o <<"resource">>)
  IN  EmitRelationship(s, "series", at) \o Child(n, "associatedResource", res, <<"Series">>)
      \o EmitSeriesStatus(res, "t", "transcribed", k > 1)
      \o If(ser.traced, EmitSeriesStatus(res, "tr", "traced", \E j \in 1..(k - 1) : series[j].traced))
      \o EmitMainTitle(res, ser.title, at) \o EmitNumber(res, "Issn", ser.issn, at) \o Lit(n, "seriesEnumeration", ser.enum)
EmitSeriesEntry(s, e, at) ==
  LET n == BlankNode(at)
      res == BlankNode(at \o <<"resource">>)
  IN  EmitRelationship(s, IF e.subseries THEN "subseries" ELSE "series", at)
      \o Child(n, "associatedResource", res, <<"Hub", "Series">>) \o EmitCreator(res, FALSE, e.class, e.name, at)
      \o EmitMainTitle(res, e.title, at) \o EmitNumber(res, "Issn", e.issn, at)
      \o Lit(n, "seriesEnumeration", e.enum) \o EmitKey(n, e.key, at)

EmitSubject(s, sub, at) ==
  LET n == NodeFor(sub.authority, at)
  IN  Child(s, "subject", n, <<sub.class>>) \o Lit(n, "label", sub.label) \o EmitSource(n, sub.source, at)
EmitRDA(s, p, class, vocab, t, at) ==
  LET n == RdaIRI(vocab, t.code, at)
  IN  Child(s, p, n, <<class>>) \o Lit(n, "label", IF t.label # <<>> THEN t.label ELSE t.code)
EmitLanguage(s, code, part) ==
  LET n == VocabIRI("languages", <<code>>)
  IN  Child(s, "language", n, <<"Language">>) \o Lit(n, "code", <<code>>) \o Lit(n, "part", part)
EmitClassification(s, c, at) ==
  LET n == BlankNode(at)
  IN  Child(s, "classification", n, <<c.class>>) \o Lit(n, "classificationPortion", c.value)
      \o Lit(n, "itemPortion", c.item) \o Lit(n, "edition", c.edition) \o EmitSource(n, c.source, at)
EmitNote(s, note, at) == EmitLabeled(s, "note", "Note", note.label, at) \o Lit(BlankNode(at), "noteType", note.type)
EmitNotes(s, notes, at) == EachAt(LAMBDA x, a : EmitNote(s, x, a), notes, at, "note")

EmitWork(w, base, at) ==
  LET s == WorkIRI(base)
  IN  Types(s, <<"Work">> \o w.class) \o EmitTitles(s, w, at \o <<"work">>)
      \o EachAt(LAMBDA x, a : EmitContribution(s, x, a), w.contributions, at, "contribution")
      \o EachAt(LAMBDA x, a : EmitRelatedWork(s, x, a), w.related, at, "related")
      \o EachAt(LAMBDA x, a : EmitRelation(s, x, a), w.relations, at, "relation")
      \o FlattenSeq([k \in DOMAIN w.series |-> EmitSeries(s, w.series, k, Place(at, "series", k))])
      \o EachAt(LAMBDA x, a : EmitSeriesEntry(s, x, a), w.entries, at, "entry")
      \o EachAt(LAMBDA x, a : EmitSubject(s, x, a), w.subjects, at, "subject")
      \o If(w.content # <<>>, EmitRDA(s, "content", "Content", "contentTypes", [code |-> w.content, label |-> <<>>],
                                      at \o <<"content">>))
      \o EachAt(LAMBDA x, a : EmitLabeled(s, "genreForm", "GenreForm", x, a), w.genres, at, "genre")
      \o Each(LAMBDA c : EmitLanguage(s, c, <<>>), w.languages) \o Each(LAMBDA c : EmitLanguage(s, c, <<"original">>), w.originals)
      \o EachAt(LAMBDA x, a : EmitClassification(s, x, a), w.classifications, at, "class")
      \o EachAt(LAMBDA x, a : EmitLabeled(s, "summary", "Summary", x, a), w.summary, at, "summary")
      \o Lits(s, "tableOfContents", w.toc) \o EmitNotes(s, w.notes, at \o <<"work">>)
      \o Triple(s, "hasInstance", InstanceIRI(base))
-----------------------------------------------------------------------------
EmitLocator(s, loc, at) ==
  LET n == IRINode(loc.url)
      link == BlankNode(at \o <<"link">>)
  IN  Triple(s, "electronicLocator", n) \o Lit(n, "label", loc.materials) \o Lit(n, "note", loc.note)
      \o If(loc.link # <<>>, Child(n, "note", link, <<"Note">>) \o Lit(link, "noteType", <<"link", "text">>)
                             \o Lit(link, "label", loc.link))
EmitProvision(s, p, at) ==
  LET n == BlankNode(at)
      country == VocabIRI("countries", p.country)
  IN  Child(s, "provisionActivity", n, <<p.class>>)
      \o If(p.country # <<>>, Child(n, "place", country, <<"Place">>) \o Lit(country, "label", p.country))
      \o Lit(n, "simplePlace", p.place) \o Lit(n, "simpleAgent", p.publisher) \o Lit(n, "date", p.date)
      \o Lit(n, "simpleDate", p.date)

\* An agency is described where the record first mentions it; agencies gives them in order.
EmitAgency(s, p, agencies, k, at) ==
  LET code == agencies[k]
      n == OrgIRI(code, at)
  IN  IF \E j \in 1..(k - 1) : agencies[j] = code THEN Triple(s, p, n)
      ELSE Child(s, p, n, <<"Agent">>) \o Lit(n, "code", code)
MarcKey040(a) ==
  LET sub(code, v) == If(v # <<>>, <<"$", code>> \o v)
      key == sub("a", a.agency) \o sub("b", a.language) \o sub("c", a.transcriber)
             \o Each(LAMBDA v : sub("d", v), a.modifiers) \o Each(LAMBDA v : sub("e", v), a.conventions)
  IN  If(key # <<>>, <<"040", " ", " ">> \o key)
EmitAdmin(s, a, at) ==
  LET n == BlankNode(at)
      named == Known(a.agency) \o a.modifiers
      convention(c, x) == RdaIRI("conventions", c, x)
      number == BlankNode(at \o <<"number">>)
  IN  Child(s, "adminMetadata", n, <<"AdminMetadata">>)
      \o EmitLabeled(n, "generationProcess", "GenerationProcess", <<"libcodex">>, at \o <<"process">>)
      \o Lit(n, "changeDate", a.changed)
      \o FlattenSeq([k \in DOMAIN named |->
           EmitAgency(n, IF k = 1 /\ a.agency # <<>> THEN "assigner" ELSE "descriptionModifier", named, k, Place(at, "agency", k))])
      \o Each(LAMBDA c : Child(n, "descriptionLanguage", VocabIRI("languages", c), <<"Language">>)
                         \o Lit(VocabIRI("languages", c), "code", c), Known(a.language))
      \o EachAt(LAMBDA c, x : Child(n, "descriptionConventions", convention(c, x), <<"DescriptionConventions">>)
                              \o Lit(convention(c, x), "code", c), a.conventions, at, "convention")
      \o EmitKey(n, MarcKey040(a), at)
      \o If(a.number # <<>>,
            Child(n, "identifiedBy", number, <<"Local">>) \o Lit(number, "value", a.number)
            \o Each(LAMBDA org : EmitAgency(number, "assigner", Append(named, org), Len(named) + 1, at \o <<"org">>), Known(a.org)))

EmitInstance(in, base, at) ==
  LET s == InstanceIRI(base)
  IN  Types(s, <<"Instance">>) \o Triple(s, "instanceOf", WorkIRI(base))
      \o Each(LAMBDA code : Triple(s, "issuance", VocabIRI("issuance", <<code>>)), in.issuance) \o EmitTitles(s, in, at)
      \o Lit(s, "responsibilityStatement", in.responsibility) \o Lit(s, "editionStatement", in.edition)
      \o EachAt(LAMBDA x, a : EmitProvision(s, x, a), in.provisions, at, "provision") \o Lit(s, "copyrightDate", in.copyright)
      \o EachAt(LAMBDA x, a : EmitLabeled(s, "extent", "Extent", x, a), in.extent, at, "extent")
      \o Lits(s, "dimensions", in.dimensions) \o Lits(s, "duration", in.duration)
      \o EachAt(LAMBDA x, a : EmitLabeled(s, "digitalCharacteristic", x.class, x.label, a), in.digital, at, "digital")
      \o EachAt(LAMBDA x, a : EmitRDA(s, "media", "Media", "mediaTypes", x, a), in.media, at, "media")
      \o EachAt(LAMBDA x, a : EmitRDA(s, "carrier", "Carrier", "carriers", x, a), in.carrier, at, "carrier")
      \o EachAt(LAMBDA x, a : EmitIdentifier(s, x, a), in.identifiers, at, "identifier")
      \o EachAt(LAMBDA x, a : EmitLocator(s, x, a), in.locators, at, "locator") \o EmitNotes(s, in.notes, at)
      \o EmitAdmin(s, in.admin, at \o <<"admin">>)

GraphOf(bib, base, at) == EmitWork(bib.work, base, at \o <<"Work">>) \o EmitInstance(bib.inst, base, at \o <<"Instance">>)
GraphFromRecord(r, idx) == GraphOf(FromRecord(r), ResolveBase(r, idx), <<ToString(idx)>>)
==============================================================================
