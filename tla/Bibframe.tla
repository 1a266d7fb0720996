------------------------------- MODULE Bibframe -------------------------------
(***************************************************************************)
(* A collection of records written as one BIBFRAME document, read back and *)
(* written again.  A writer appends the graph of one record after another, *)
(* the reader parses the whole document before it gives the first record,  *)
(* so what the nodes of one record say is there when the next is read.     *)
(* Another producer writes the same graph without the notes in which this  *)
(* one keeps whole fields, and the reader makes do with the properties.    *)
(* The serialization between them is left to the modules on RDF.           *)
(***************************************************************************)
EXTENDS BibframeReader, FiniteSets

CONSTANTS Collections,   \* the sequences of records that are written first
          Elsewhere,     \* those among them another producer writes too
          MaxRounds      \* how often they are written and read back

VARIABLES producer, given, records, idx, graph, before, round

bibVars == <<producer, given, records, idx, graph, before, round>>

BibInit == /\ \/ producer = "libcodex" /\ given \in Collections
              \/ producer = "another" /\ given \in Elsewhere
           /\ records = given /\ idx = 0 /\ graph = <<>> /\ before = <<>> /\ round = 0

WithoutNotes(g) == SelectSeq(g, LAMBDA t : ~HasType(g, t.s, "internal") /\ ~HasType(g, t.o, "internal"))
Document(g) == IF producer = "libcodex" THEN g ELSE WithoutNotes(g)

WriteGraph ==
  /\ round < MaxRounds /\ idx < Len(records)
  /\ graph' = graph \o Document(GraphFromRecord(records[idx + 1], idx))
  /\ idx' = idx + 1
  /\ UNCHANGED <<producer, given, records, before, round>>

ReadDocument ==
  /\ round < MaxRounds /\ idx = Len(records)
  /\ records' = DecodeGraph(graph) /\ before' = records
  /\ round' = round + 1 /\ idx' = 0 /\ graph' = <<>>
  /\ UNCHANGED <<producer, given>>

BibNext == WriteGraph \/ ReadDocument
-----------------------------------------------------------------------------
(* Properties *)

SameEntries(s, t) == \A x \in Range(s) \cup Range(t) :
  Cardinality({i \in DOMAIN s : s[i] = x}) = Cardinality({i \in DOMAIN t : t[i] = x})
SameSet(s, t) == Range(s) = Range(t)

\* The nodes a record describes under an IRI of their own, with what it says of each.
Described(r, i) ==
  {<<t.s, t.p, t.o>> : t \in {u \in Range(GraphFromRecord(r, i)) : u.s.kind = "iri" /\ u.s.value[1] # "#"}}
\* No two records, and no two fields of one, say different things of a node, a
\* language is not the content's here and the original's there, and no two
\* records have one stem.
OwnNodes(rs) ==
  /\ \A d, e \in UNION {Described(rs[i], i - 1) : i \in DOMAIN rs} : d[1] = e[1] /\ d[2] = e[2] => d[3] = e[3]
  /\ \A i, j \in DOMAIN rs : Range(Languages(rs[i].fields)) \cap Range(OriginalLangs(rs[j].fields)) = {}
  /\ \A i, j \in DOMAIN rs : ResolveBase(rs[i], i - 1) = ResolveBase(rs[j], j - 1) => i = j

\* Texts a second trimming would not change, a control number that is a stem as it is
\* and not one made up for a record without, a title that is the Work's under 245 only.
Tidy(r) ==
  /\ OfTags(r.fields, {"245"}) # <<>>
  /\ LET number == ControlValue(r.fields, "001", "00") IN number = SanitizeID(number) /\ number \notin FallbackBases
  /\ \A f \in Range(r.fields) : \A k \in DOMAIN f.subs : LET t == f.subs[k][2] IN
       TrimISBD(TrimISBD(t)) = TrimISBD(t) /\ CleanDate(CleanDate(t)) = CleanDate(t) /\ "$" \notin Range(t)
  /\ \A t \in Range(Uniform(r.fields)) : \A u \in Range(Transcribed(r.fields)) : t.main # u.main

Statements(inst) == {<<p.place, p.publisher, p.date>> : p \in Range(inst.provisions)} \ {<<<<>>, <<>>, <<>>>>}
BareSubjects(work) == Each(LAMBDA s : <<<<s.class, s.label, s.authority>>>>, work.subjects)
Numbered(work) == Each(LAMBDA c : <<[c EXCEPT !.item = IF c.class = "Classification" THEN <<>> ELSE @]>>, work.classifications)

\* Of a linked entry, its source field where a note keeps it, else what the graph states.
Stated(entries) ==
  [k \in DOMAIN entries |-> LET e == entries[k] IN
     IF producer = "libcodex" THEN e ELSE [part \in DOMAIN e \ {"key", "class"} |-> e[part]]]

SameWork(was, is) ==
  /\ (was.class # <<>> => is.class = was.class) /\ (IsRDACode(was.content) => is.content = was.content) /\ is.titles = was.titles
  /\ \A part \in {"variants", "contributions", "related", "series", "genres", "notes", "summary"} :
       SameEntries(was[part], is[part])
  /\ SameEntries(Stated(was.relations), Stated(is.relations)) /\ SameEntries(Stated(was.entries), Stated(is.entries))
  /\ SameEntries(Numbered(was), Numbered(is)) /\ SameSet(BareSubjects(was), BareSubjects(is))
  /\ is.languages = was.languages /\ is.originals = was.originals /\ SameSet(was.toc, is.toc)
SameInstance(was, is) ==
  /\ (was.issuance # <<>> => is.issuance = was.issuance)
  /\ is.titles = was.titles /\ is.responsibility = was.responsibility /\ is.edition = was.edition
  /\ is.copyright = was.copyright /\ Statements(is) = Statements(was)
  /\ \A part \in {"variants", "extent", "digital", "notes", "identifiers", "locators"} : SameEntries(was[part], is[part])
  /\ SameSet(was.dimensions, is.dimensions) /\ SameSet(was.duration, is.duration)
  /\ (was.media # <<>> => SameSet(was.media, is.media)) /\ SameSet(was.carrier, is.carrier)
  /\ \A part \in {"agency", "language", "modifiers", "conventions", "number"} : is.admin[part] = was.admin[part]
  /\ (producer = "libcodex" => is.admin.transcriber = was.admin.transcriber)

\* A collection comes back as as many records, in order, and each says of its Work and
\* its Instance what the record written said: every heading with its roles and its
\* authority, every title, series, relation, classification, number, statement and note,
\* on the condition that no node of the document is described in two ways.
EntriesReturn ==
  round = 1 /\ OwnNodes(given) =>
    /\ Len(records) = Len(given)
    /\ \A i \in DOMAIN given : Tidy(given[i]) =>
         /\ SameWork(WorkOf(given[i]), WorkOf(records[i]))
         /\ SameInstance(InstanceOf(given[i]), InstanceOf(records[i]))

\* Whatever was lost or normalised on the way, it stays so: after the third round the
\* records that come back are those that were written, so a catalogue that is converted
\* again and again neither loses an entry each time nor gains one.
CrosswalkSettles == round > 3 => records = before

\* The language position of the 008, which the round trip's test table claims.
LanguageReturns ==
  round = 1 => \A i \in DOMAIN records :
    LET was == ControlValue(given[i].fields, "008", "35")
    IN  was # <<>> /\ was[1] \in LangCodes => ControlValue(records[i].fields, "008", "35") = was
===============================================================================
