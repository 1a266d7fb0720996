# A TLA+ development for libcodex

libcodex is a Go library that reads, writes and converts MARC bibliographic
records. What this development models is, first, the parts that keep state over many
calls, talk to something that fails, or run more than one goroutine: the protocol
clients, the streaming Readers and Writers, the streaming RDF decoder. Second, the
transformations a record or a graph must survive: the character sets, the layout of
ISO 2709, the Turtle and N-Quads texts, the canonical labelling of graphs, and the
crosswalk to BIBFRAME and back.

    tlc -workers 2 -config MCStreams.cfg MCStreams         # one run
    tlapm Z3950_proofs.tla                                 # the proofs of one module

## Inventory

| Part | State | Operations | What is hard about it | What makes it correct |
|---|---|---|---|---|
| `z3950.Conn` | socket `nc`, unconsumed bytes `buf` | Connect, Search, Present, Close, all through `roundTrip` | deadlines and cancellation act on the socket from another goroutine; a call can give up before its answer comes; responses carry no id | an answer belongs to its call; framing survives failures; no call times out for another's sake |
| `z3950.Reader` | `conn`, `total`, `next`, page, sticky `err` | Read, Close | a failure anywhere in dial, search, present; pages of unexpected size | every decodable record once and in order; the socket is released; cancellation ends a Read |
| `sip2.Conn` | socket, `bufio.Reader`, rolling `seq` | Connect (login), ItemInformation, Close | late replies, partial lines, CR LF | a reply belongs to its message |
| `sru.Reader` | page, `next`, `fetched`, `total`, `done`, sticky `err` | Read | servers leave out either or both of the numbers paging depends on | no gap, no repeat, io.EOF only at the end |
| format Writers | `opened`, `closed`, `wrote`, sticky `err` | Write, Close | an io.Writer that fails inside a chunk; refusals; Close twice, Close first, Write after Close | the stream is the beginning of one well-formed document of the records reported written |
| `codex.Convert`, `runConvert` | position in the sources | one loop over sources and records | a source that fails half way while the output is finalised anyway | nil means a complete conversion |
| `rdf.Decoder` (pipe) | channels `ch`, `done`, `errc`; `finished`, `termErr` | Decode, Close, All | producer and consumer goroutines, early stop, the order of error and channel close | io.EOF means the input ended; no goroutine left behind |
| `codex.Record` | leader and field slice | builders, edits, queries | aliasing of the slice handed out | order of fields |
| framing readers (iso2709, marcjson, marcxml, mrk) | position in the input | Read | truncated input, bad records | no record lost without an error |
| `rdf` Turtle and N-Quads | the parser's prefixes, base, labels and name cache; the splitter's buffer; the writer's blank node names | NewDecoder, ParseTurtle, ParseNTriples, Encoder, Turtle writer | a stream is cut into statements before it is parsed, at chunks that end anywhere; state outlives a statement | streaming is parsing; what is written is read |
| `rdf` canonicalisation | hashes, issuers, the work spent | Canonical | recursion over permutations of equal hashes, map iteration, an unstable sort, a limit | equal labellings exactly for isomorphic graphs |
| `rdf.Graph`, `Dataset`, `GraphView` | triples or quads; a lazy index, counts and generations | Add, Append, Dedupe, queries | the caches are filled by queries and must notice edits | a query answers from the statements there are |
| `marc8`, `iso5426`, record text | working sets G0 and G1, pending marks, the lossy flag | decode, encode of a record's values; its directory | designations persist within a field; escape sequences cut short; marks before their base in one form and behind it in the other | what is written is read; a field reads the same wherever it stands |
| `bibframe` | none of its own; the graph of a whole document | FromRecord, the graph writers, Decode | nodes with an IRI are shared by fields and records; lists several functions pick from | entries come back; repeated conversion settles |
| other mappings (mods, dublincore, schemaorg, citation, skos, unimarc to MARC 21) | none | one record in, one out | data only | by test suites and samples |

They interact by calls: `Convert` pulls from a `RecordReader` and pushes to a
`RecordWriter`; the search Readers are RecordReaders over a protocol client. The
format Readers and Writers call the character sets, `bibframe` calls the RDF
serialisers and parses a document whole before it gives a record. The
two places with a second goroutine are `context.AfterFunc` in `z3950` and `pipe`
in `rdf`.

## Modules

| Module | Models | Correspondence |
|---|---|---|
| `RecordSource` | the contract of `codex.RecordReader` | `delivered` grows along `stream`; `end` is io.EOF or an error |
| `RecordSink` | the contract of `codex.RecordWriter` and `codex.Close` | `written` grows while `open`; then `complete` or `broken` |
| `Selection` | what a Reader hands out of a result set | `Select(T, n)` is the numbers of `T` up to `n` in order, the SelectSeq of `readable`, as a recursive function that can be proved about |
| `Z3950Conn` | `z3950/z3950.go` | `nc`, `buf` are the fields; `pc` is the place in `roundTrip`; one action for each of its socket calls and each return; `AfterFuncRuns` is the registered function, `armed`/`started` what `stop()` can and cannot prevent; the server is `Serve` and `HangUp` |
| `Z3950Reader` | `z3950/reader.go` over `Z3950Conn` | extends the Conn: `Dial`, `Search`, `PresentPage` begin its calls, `SearchDone`, `PageArrives`, `EmptyPage`, `CallFails` take their outcomes |
| `Sip2Session` | `sip2/sip2.go` | `seq` and `rbuf` (the bufio.Reader) are the fields; a reply is a text piece, its CR and perhaps an LF |
| `SruReader` | `sru/reader.go` | variables named as the fields (`noMore` and `readErr` are `done` and `err`); `Response` is the body of `fetch` after the request, used with what a conforming or another server sends |
| `RecordWriter` | the Writers of fifteen formats | one module with the format as a variable; the sets `Wrapped`, `Headed`, `Separated`, `Validating`, `Closable` and `Sticky` say how the formats differ; `pend` holds the `writeAll` chunks of the running call |
| `Transcode` | `codex.Convert` and `runConvert` over `RecordWriter`, or a free client | `place` is where in its loop the command is; a client takes the Writer's actions in any order |
| `RdfDecoder` | `pipe` in `rdf/decoder.go` | `ch` unbuffered is `Handover`, a step of both; `errc` is a queue of one; `open` is the channel not closed |
| `FramingReaders` | the Readers of iso2709, marcjson, marcxml and mrk, and `iso2709.ReadFile` | `input` and `pos` are the io.Reader and how far it was consumed; each `...Read` is one Read, with the token its record begins at and the one where it ends or is refused; `FileRecord`, `FileEnds`, `FileFails` are the turns of ReadFile's loop, over the same input |
| `TurtleParser` | `rdf/turtle.go`, `rdf/turtle_lex.go` | a parser is a record with the fields of `turtleParser`; one operator per method, which takes a parser and returns the one it leaves |
| `RdfWriter` | `Encoder`, `blankNamer`, the Turtle writer | a writer is the text so far and the names given; the functions are named as in the code |
| `RdfTerms` | `rdf.Term` | one operator per constructor; what a Turtle and an N-Quads text have in common |
| `RdfLines` | the line path of `NewDecoder`, `ParseNTriples` | `DecodeLine` is one turn of the loop, a line; `readNTTerm` is the constant `ReadTerm`, so that what is proved holds whatever it makes of a term; what `parseNTLineInto` and `parseNQuadLine` both spell out is written once |
| `RdfText` | `streamTurtle` and `turtleSplitter`, `readNTTerm` | `buf` and `parser` are the splitter's; `Fill`, `SplitStatement`, `LastStatement`, `TooLarge`, `ReadFails`, `TurtleEnds` are the turns of its loop, the last three of which may take the rest of the input with its end; a document is read by these or by the steps of `RdfLines`, whose `ReadTerm` is its `ReadNTTerm` |
| `RdfCanon` | `rdf/canon.go` | `work`, `canonical` and the memo are the fields of `canonicalizer`; `HashGroup` takes any of the ambiguous hashes in any order a map and an unstable sort may give |
| `RdfStore` | `Graph`, `Dataset`, `GraphView` | the caches are variables beside the statements: `spo`, `spoOK`, `gen`, `counts`, `countsGen` |
| `Marc8Decoder`, `Marc8` | `internal/marc8`: reading, writing | a Decoder is a record of its two sets, its marks and its flag; the tables hold a letter of every kind |
| `Iso5426` | `internal/iso5426` | likewise |
| `RecordFields` | `iso2709.Decode` of one record | `iso` is the leader, directory and field data; `at` the entry in turn; one action per entry |
| `RecordText` | `iso2709` encoding of one record, `unimarc.Decode` | writes, reads by the steps of `RecordFields`, and decodes what is UNIMARC |
| `BibframeForward` | `bibframe.FromRecord` | `WorkOf`, `InstanceOf` and one operator for each of its functions |
| `BibframeShape` | `shape.go`, `graph.go` | `emitWork`, `emitInstance` as the sequence of triples they add |
| `BibframeReader` | `reader.go`, `reader_crosswalk.go` | every helper asks the graph for the objects of a node and a predicate, as there |
| `Bibframe` | writing and reading a document again and again | `WriteGraph` is one Write, `ReadDocument` the parse and all Reads; `producer` may be one that does not write this library's notes |
| `MC...` | instances for TLC | values of the constants; `MCStreams` holds four systems, `MCRdf` and `MCFormats` three each, that share no state and of which a behaviour runs one |
| `SruReader_proofs`, `Z3950_proofs`, `Sip2Session_proofs`, `Transcode_proofs`, `Formats_proofs`, `RdfDecoder_proofs`, `Rdf_proofs` | theorems about the module of that name; those about `RecordWriter` are with `Transcode`, those about `Z3950Conn` and `Z3950Reader` in `Z3950_proofs`, those about `RdfStore` and `RdfLines` in `Rdf_proofs`, those about `FramingReaders` and `RecordFields` in `Formats_proofs` | see Proofs |
| `SelectionTheorems` | lemmas about `Select`, least elements, induction and recursive functions | see Proofs |

Operators whose names contain an underscore and stand before the one they
resemble (`TakePDU_KeepsBuffer`) are wrong versions of it: replacing the one
by the other must break the property it is listed with in PROJECT.json.

Data is abstracted to what the properties tell apart. A document in
`FramingReaders` is a list of records of so many tokens each, an ISO 2709 leader
being two of them so that it can be cut; what is left of a marcjson record after
an error is not modelled, so the caller stops there; what follows an ISO 2709
record whose length runs into the next one is taken not to decode. A Z39.50 response is the
call it answers and what becomes of it (fine, diagnostic, undecodable, not BER,
Close); a SIP2 reply is its call, its AY number and whether it parses; a record is
its position and its kind; an output chunk is a list of header, record,
separator and trailer tokens, and a write that fails may leave a torn token.
What travels over a socket travels in pieces, because a Read returns what has come.
RDF text is a list of the characters the grammar tells apart, with one token for
each word of it; IRIs, labels and strings are one or two letters. In `RdfCanon`
terms are numbers and SHA-256 is a pair of polynomial hashes, which the instances
do not bring to collide. Characters are code points, and of each table
the letters of a dozen entries are kept. In the BIBFRAME modules a text is a list of words and
marks, and a control field is the positions of it that the crosswalk reads.

## Runs

All runs check for errors in every reachable state of the instance. Deadlock is
not checked: in every system here the caller may stop, and the counters end.

| Run | Shows | Bounds |
|---|---|---|
| `z3950_conn` | until a call is abandoned, every answer is its call's and Present reads the last successful Search's result set; a failure never breaks framing; a call times out only for its own context or one that was done while an earlier call was running | three calls on a Conn that Connect has returned (one to set up, one to be abandoned, or to arm the stray function, and one to suffer from it), two queries, two contexts, responses of two pieces |
| `z3950_reader` | implements `RecordSource` for its catalog; all answers are own; no socket left; the context ends a Read | four result sets of up to five records, pages of two, so up to seven calls; one context with a deadline that can also be cancelled |
| `z3950_reader_crash` | **violated**: the stray function finds a nil `nc` | as above |
| `streams`, first part | pairing until abandoned; out of step the gap never closes; AY would tell | three messages, two items, AY modulo 2 so that it rolls over within a run |
| `streams`, second part | no gap, no repeat, end, refinement, progress | five result sets of up to five records with all schemas; pages of up to two; five pages of a server that sends arbitrary numbers |
| `streams`, third part | prefix of one document, reliable answers, complete when closed, faithful conversion, refinement of `RecordSink` | all fifteen formats, three records (first, middle and last of the separators), seven lists of sources with every ending in every position |
| `streams`, fourth part | one ahead, error not lost, in order, released, Decode returns | inputs of up to four triples, either ending, Decode and Close calls or an All loop |
| `sip2_stale` | **violated**: the status of another item is returned without an error | as `streams`, first part |
| `framing`, first part | one result for each record, recovery after a bad one (iso2709, marcxml); ReadFile agrees with Reader; refinement of `RecordSource` | documents of up to three records (one before and one after the odd one) of all kinds and formats, cut at every token, io.EOF or an error there |
| `framing`, second part | a record accepted is read as it was written, but for the raw value EncodeMARC8 drops; a field reads as if alone; what is read without loss can be written again | texts of up to three letters of every kind, in MARC-8, UTF-8 and the UNIMARC charsets, one or two subfields; a tag too short, a value beside subfields, subfields under a control tag; received fields of up to three units (letters, marks, designations whole and broken, a subfield), directories inside and outside the record; fields over 16 bytes and records over 104 are refused |
| `framing`, third part | entries come back from BIBFRAME; repeated conversion settles | collections of one record with one or two fields that meet on the way, and of two records that share a heading, a language, a term, a link or a stem; up to four rounds; another producer for the linked and series entries |
| `json_truncated` | **violated**: an input cut inside a record ends in a plain io.EOF | as `framing`, first part, marcjson |
| `bibframe_language` | **violated**: the 008 language is lost | as `framing`, third part |
| `marc8_raw_value` | **violated**: EncodeMARC8 drops the raw value of a data field | as `framing`, second part, the records with a value or subfields out of place |
| `rdf`, first part | streaming a Turtle document is parsing it, unless its end comes with several statements; lines read one by one are the lines parsed; what Encoder and the Turtle writer write is read | two statements of eleven kinds behind a prefix, with what may stand between them, read one, four or all the tokens at a time, with io.EOF or an error after the last of them or together with them; three N-Quads lines cut at every token; two graphs, each a scope of its own, in one document; nesting up to 2, one cached name, statements up to 40 tokens |
| `rdf`, second part | listings with one canonical form are the same set of statements; listings of one graph, with the same repeats, have one form | every listing (naming and order) of eight graphs of up to four blank nodes: chain, rings, blank graph names, loops, a statement held twice, and the same held once; a work limit of 63 |
| `rdf`, third part | indexes, counts and views agree with the statements | three statements over two subjects, one predicate, two objects and two graphs, added to a Dataset, a Graph or behind its back, with queries and Dedupe in any order |
| `turtle_end_with_data` | **violated**: an end that comes with data loses statements | a prefix and two statements, as `rdf`, first part |
| `canon_duplicates` | **violated**: a repeated statement changes the canonical form | one statement between two blank nodes, once and twice |

Why the bounds are enough: each hazard needs one actor to be a step behind
another, once. Three calls on a connection, a page boundary in the middle and one
at the end of the result set, and a third record after a second separator are the
smallest instances in which each occurs, and nothing in the code counts further.
For the transformations the bounds come from the look-ahead of the code: the
splitter and the lexers look one or two characters ahead and keep state from one
statement to the next, so two statements cut at every place meet every case; a
designation or a mark affects what follows it, so three units do; four blank nodes
are the fewest that make two rings, which first-degree hashes cannot tell apart,
and the work limit lies above what two rings of blank nodes need and below what a ring of three in a blank graph needs; three statements are
an old one, one that makes an index stale and one after; two fields are what
can meet in a node. A third field or record would meet each of the others in the same node.
A type invariant is kept in the modules with state but is the subject of no
run; those of the modules with proofs are proved.

What some properties set aside, each named in its module: `Splittable`
documents (a "." directly before a letter ends a statement for the parser and not for the
splitter), `StatementsLost` (the end of the input came with several statements, see
`turtle_end_with_data`), what is not `Placed` (the format has no place for it, see
`marc8_raw_value`), listings that differ in how often they hold a statement (see `canon_duplicates`), `Settled` and `PassedThrough` texts, `Tidy` and `OwnNodes`
collections. What happens outside of these is listed under "Also seen".

### What the violated runs say

* `NoCrash`. `stop()` returned by `context.AfterFunc` does not wait for a
  function that has already started. If the context ends while a call returns,
  and the Reader closes the Conn for the error, the function may run after
  `co.nc = nil` and call a method on a nil interface. `reader.go:125` says Close
  is "safe to call at any time".
* `StatusIsOfItemAsked`. After a timeout on a `sip2.Conn` the late reply is
  returned by the next `ItemInformation`, whose comment (`sip2.go:127-128`) says
  it gives the status of its item. Neither the AB field nor AY is compared;
  `SeqTellsStaleReply` shows AY would do.
* `EOFMeansExhausted`. The marcjson scanner's io.EOF reaches the caller from
  inside a record too, so that `Convert`, `ReadAll` and `ReadFile` return nil for a
  truncated file, without its last record. The package's tests ask for an error there and
  io.EOF is one; callers take it for the end.
* `LanguageReturns`. `emitLanguage` (`bibframe/shape.go:637`) marks the node of an
  original's language as `bf:part "original"`. The node is the one of the shared
  vocabulary, so a content language with the same code, in the same record (041 $a
  eng $h eng) or in another of the document, is read as an original too: the
  008 comes back with blanks in 35-37 and the 041 with $h only. The table of
  `bibframe/lossgate_test.go:59-81` claims the position.
* `NoRawValueIsLost`. `EncodeInto` refuses a data field with a raw Value, "which the format
  cannot encode and would silently drop". `toMARC8` copies the record before that check and
  leaves the Value out (`iso2709/writer.go:95`), so `EncodeMARC8` accepts the record that
  `Encode` refuses, without the value. Its comment says "a copy of r with every value transcoded".
  `RecordReadsAsWritten` says that nothing else is lost, and this by no other encoding.
* `EveryStatementIsParsed`. `turtleSplitter.next` asks `bufio.Reader` for 64 KiB, more than its
  buffer, and so gets what the io.Reader under it returns: for an HTTP body or a gzip stream, the
  last bytes together with io.EOF. It then takes the whole buffer as the last statement
  (`rdf/decoder.go:298`), of which `streamTurtle` parses one. A document that comes in
  one such Read yields the triples of its first statement, or none if that is a directive, and io.EOF. The
  tests read from memory, where io.EOF comes by itself. `StreamingIsParsing` and `WrittenIsRead` hold
  but for this, and what is lost is always at the end.
* `DuplicatesCollapse`. `Canonical` drops repeated statements from its output only; each
  copy enters the hashes (`rdf/canon.go:242`). With SHA-256, `_:x <q> _:y .` is labelled
  `_:c14n0 <q> _:c14n1 .` listed once and `_:c14n1 <q> _:c14n0 .` listed twice.
  `rdf/rdf.go:108` and `rdf/dedupe_test.go:171` say that Canonical collapses duplicates and
  that Dedupe "is not needed before comparing two graphs"; it is. `CanonicalDecidesIsomorphism` says what holds:
  different graphs never get the same form, and one graph gets one form for given repeats.

### Also seen

Met while modelling, without a run of its own.

* `sru/reader.go:82-85` says "next strictly increases either way, so paging always
  terminates". It does increase; a server that goes on naming a later
  nextRecordPosition is followed past `numberOfRecords` without end.
* `iso2709.ReadFile` frames the file by itself. Less than a leader at the end of it
  is passed over, and a record shorter than its leader declares is decoded with the fields
  that are there, with a nil error. `FileAgrees` says these are the only differences from the
  Reader.
* `turtle_lex.go:38-43`: the cache of expanded names is keyed by the prefix label and outlives
  a directive that redefines the prefix. In `@prefix x: <x>. x:a ... @prefix x: <a>. x:a ...`
  the second `x:a` is still the first IRI. Both paths do it, so `StreamingIsParsing` holds.
* `iso2709` writes a field by its tag: subfields of a field whose tag is below 010 are left out and
  not refused, by `Encode` too.
* `marc8`: with ASCII in G1, bytes above 0x80 pass as Latin-1 characters and are not
  flagged lossy. A space read under a single-byte G0 other than ASCII is flagged. A mark
  that begins a value is taken by the base after it.
* `iso5426`: the bytes of "ø" and "h" are those of "ḫ" (0xF9 is a letter and a mark),
  and "ḫ" with a second mark does not come back, where the comment of `encodeBase`
  says that the byte order round-trips.
* `bibframe`, on what the second conversion loses or changes: a trailing mark goes with each
  round (`trimISBD`; `cleanDate` makes "[1993]." into "1993]" first, and its
  comment says "1993"); a record without form of item in its 008 gets a blank position 23 and
  with it a media term; 084 $b; a uniform title with the $a of the 245 (with its $n and
  $p); levels a and b, which become m; the statements of 260 and 264, which become one class;
  003, 005 and 040 $c without a note; a "$" in a value; the title of a 762 without a name, when
  another producer wrote it. Headings under one authority IRI are one node and
  merge, also across records. Control numbers that are the same once sanitised, or one that reads like
  the "r1" made up for a record without, collide. `Decode`'s comment
  (`bibframe/reader.go:132`) says that re-encoding yields an equivalent graph;
  `CrosswalkSettles` says after how many rounds it does. The number, three, is that of the
  collections checked, whose texts end in at most three marks: `trimISBD` takes one a round, and a text with
  more of them needs more.

### Fairness

Fairness is given to the goroutines of the program only: the reading
goroutine's own steps, a started AfterFunc, the producer, the hand-over and the
receive of the RDF decoder. The Go scheduler runs a runnable goroutine. Nothing
makes a server answer, a context end, or a caller call, so what is to happen
(`ReadEndsWithCtx`, `DeadlineBoundsExchange`, `ReadReturns`, `ProducerReleased`,
`DecodeReturns`) happens without their help. In `SruReader` the HTTP exchange is one
step of the reading goroutine and so assumed to end, by an answer, an error, the
client's timeout or the context. In `RdfDecoder` a read of the input is assumed
to return.

## Proofs

Seven modules hold the theorems, an eighth
the lemmas they share. Each rests on the assumptions on the constants of its module alone
(`SruAssumption`, `DecoderAssumption`, `SipAssumption`, `ConnAssumption`, and for the
Reader `ReaderAssumption` too, `WriterAssumption` with `TranscodeAssumption`,
`FramingAssumption`; for the lines of a document `LineAssumption`, that it is a finite text; for the fields of a record `ReceivedAssumption`,
that it is bytes with a directory and a subfield code of one byte at least; those of `RdfStore` on none), which say no more than that
the bounds are positive and the sets are what they stand for; TLC evaluates them in the runs.
Every property below holds for all values of the constants: result sets and page
sizes, numbers of calls, queries, contexts, pieces of a response, documents of any
number of records cut anywhere, lists of sources, containers of statements. The inductive invariants were checked by TLC on the
instances of the runs before they were proved.

`SelectionTheorems`: the library's induction theorems take an operator, which the provers
cannot instantiate. `InductionBySet` takes the set of the numbers that have the property, so it can be
cited; it follows from `Least`, and that from the well-foundedness of `<`. `Recursion`
says that a function with `f[0]` and a step exists (`Iterates` is the set of them), `PartialSums` is the case of adding up, and with
them recursive functions can be reasoned about: the `Select...`
lemmas (`SelectBegins`: what is selected of less is a beginning of what is selected of more; `SelectNext`,
`SelectSame`: what one more number adds; `SelectAll`, `SelectCounts`: that nothing is left out;
`SelectAgain`: to select from what was selected is to select at once) carry the refinements of both search
Readers and the indexes of the rdf containers, and the sums place the records of a document and of a list of sources.

`SruReader_proofs`:

* `TypeCorrect`: `SruTypeOK` is inductive; the one delicate
  step is `next`, which stays positive as `Response` only replaces it by a
  greater position or adds the records received.
* `NeitherGapNorRepeat`: `NoGapNoRepeat` relates the
  four places a record may be in: delivered, stepped over, in the page, not yet
  asked for, with `through == fetched - Len(page)` as the boundary. It is inductive
  together with `SruTypeOK` because it says both where the page stands in the result set and,
  while not `noMore`, that `next = fetched + 1`.
* `EndOfResultSet`: `EOFIsTheEnd`, from the two above: when
  `Response` takes its default case the page named no position, so there are
  either no more records or the count was given (then `fetched >= count = size`), or
  the page is one that `cut` records.
* `ReadsResultSet`, the refinement of `RecordSource`. `StreamSoFar`: what was
  returned is `Select(Readable, through)`, the MARCXML records among those Read is through with,
  and none of these failed to decode while the error is unset. A Read that returns a record is
  Deliver, one that sets the error Finish; stepping over a record of another schema, and
  fetching, are stutters because they select nothing.

`RdfDecoder_proofs`: `TypeCorrect`, `NeverMoreThanOneAhead`, `EndIsTheInputs` and
`DecoderIsASource`, the refinement of `RecordSource`. The invariant adds two
parts to the types. `HandedOver`: what was received is the beginning of the input, and the
producer is at the next triple or holds it. `ResultWaits`: the channel is open
until the producer has exited, and it exits only with its result in errc, unless
the Decoder was closed. Without the second part a `ReceiveClosed` step might find errc empty
and take the end of the channel for that of the input. The refinement has a step for
each action: `Handover` is Deliver, `ReceiveClosed` is Finish, all others stutter.

`Sip2Session_proofs`: `TypeCorrect`, `InStep`, `OutOfStepForGood` and `NumbersTellStaleReplies`. The
properties speak of what was returned; the invariant of what is on its way. It is stated
over `wire == rbuf \o toClient`, so that a `Fill` changes nothing. `WireInOrder`:
messages and replies pass in the order of their calls, none is of a call not yet
written, and a text has its CR behind it. `TakenFirst`: a reply that was taken is of an earlier
call than every text and message still under way. `LinesOwed`: a call that reads is owed
its own line, and once a call was given an earlier reply a line of a call that is over is
owed for good; this is why the session cannot catch up, as the next call would have to
take that line first. `NothingLeft`: until a call is abandoned, nothing but line
ends is under way that is not the running call's. In-step follows from the last,
never catching up from the first three. For the AY numbers, `Stamps` says that
every message and reply bears the number its call was framed with, and `Turns` that the
numbers of two calls are as many turns apart as messages were written from
the one on to the other: at least one, if the earlier one was written, and fewer than a rollover, if the calls are.
So the number of a stale reply differs from the one expected unless they
are a rollover or more apart.

`Z3950_proofs`, about the Conn: `TypeCorrect` (with `SessionOpen`: an open session until its end and
no more functions than calls), `TimeoutsHaveCauses`, `InStep`, `PresentReads` and
`FramingSurvives`. `DeadlineHasCause` says why the deadline on the socket may
have passed, or a started function may still move it: the running call's context, or one that was
done when an earlier call returned. `NothingLeft` names the five situations of a session without an
abandoned call: an APDU that does not frame is in front, the server hung up and too little is
left, nothing is under way, a request is, or the whole of its response is. `InOrder` adds the
two properties. For framing, `Whole(w)` says that each piece of the sequence `w` of
pieces on the way stands in a response whose pieces are all in it, in order; steps append
whole responses, move pieces from the socket to `buf`, or drop one whole response in front.

`Z3950_proofs`, about the Reader: `ReaderTypeCorrect`, `OwnAnswers`, `SocketsClosed` and
`ReadsResultSet`. They rest on the Conn's, since every step of the Reader begins a call,
leaves the Conn alone or is the Conn's own, and take `Typed` and `InOrder` from
them. They add `OnlyLastFails`, that every call before the current one succeeded, because
`fail` ends the session; so no call was abandoned when another is made, and
in-step applies to all. `Over` ties the sticky error to the closed socket.
The refinement has the `StreamSoFar` of this Reader: the page continues the `next - 1 - Len(page)` records
Read is through with, what was returned is what is decodable among them, and while there is a session `total` is
the size of the result set. A page is asked for at `next` and so continues them.

`Transcode_proofs`, about all writers and both callers. `WriterInv` and `LoopTypes` are the
types. For a caller that stops at an error or a format that
keeps it (`Trusted`), `StreamInv` is added: between two calls the stream is `Begun` (header and the
records taken, with separators) or `Finished` with the trailer; during one, what is on the stream and what is in `pend` make the next of these;
and when a call has failed, it is one of the three stages (`Before` is after a separator), perhaps with one torn token
and perhaps with the record of the failed call. `StreamBegins`, `AnswersAreReliable` and
`ClosedDocuments` (`StreamIsPrefix`, `WrittenIsTaken`, `ClosedMeansComplete`) follow from the shape.
For `Converts` (`ConvertIsFaithful`), `LoopInv` ties the place in runConvert's loop to the writer's last answer, `CountInv` says
that the records taken are the first ones given, and `InputInv` that the loop stands
at the source whose predecessors hold as many records as were given before it; nil is then returned only
behind the last source. `IsRecordSink` is the refinement of `RecordSink` for the formats with a sticky
error. It found that the state of the sink was ambiguous in the model when a writer had failed and was closed;
`broken` comes first now.

`Formats_proofs`, about `FramingReaders`: `TypeCorrect`, `ResultsMatchRecords` (`OneResultPerRecord`),
`FileFindsWhatReaderFinds` (`FileAgrees`) and `ReadersStreamInput`, the refinement of `RecordSource`.
`Doc` says what the input shows: which token stands at which place of which
record, up to the cut. `ReadSoFar` says that the results are, one by one, the verdicts on the first
records and that the Reader stands where it stops in the last of them (`StopAt`: behind the separator, or
within a refused record), or that one more result said there are no more. `FileSoFar` is the same for
ReadFile's loop. So one Read is about the next record or about none, which is a lemma for
each format (`IsoReadsOn` and the like), and everything else follows from comparing the two. Only a Reader that finds the next record
behind a bad one (`Regular`) is held to this throughout; a marcjson or mrk Reader, or one that
has met an oversized record, up to the first record refused. For the refinement,
what is due is the records accepted up to the first stop, and the records handed out are a beginning of them.

`Formats_proofs`, about `RecordFields`: `FieldsAlwaysStandAlone` (`FieldsStandAlone`), for a record of any number of
fields, whatever its directory says and whatever bytes it holds. Its `ReadSpec` reads a record
from elsewhere; the run reads by the same two actions what it wrote as well. The Decoder is one for
all fields, so what has to be shown is how little of it can matter. The text of a value depends on the two
sets designated and not on the flag kept since the record began (`DecodeAlike`, `SubsAlike`), so a
Decoder that was `Reset` reads like a new one. A field without a byte from 0x80 and without an escape is not given to the
Decoder at all, and a new one would leave it as it is (`DecodePlain`, `SubsPlain`). Decoding is a recursive function over a value,
which `Recursion` and `InductionBySet` make induction of: `DecodeRun` gives the turns by which a text comes about, and
each lemma says what one turn keeps (`TurnAlike`, `TurnPlain`). The tables are not opened for that, but for one
fact: nothing below 0x80 is a combining character. `ReadInv` then says that there is one field for each entry
dealt with, read as by a new Decoder.

`Rdf_proofs`, about `RdfStore`: `StoreTypeCorrect`, `ViewsAlwaysAgree` (`ViewsAgree`) and
`IndexAlwaysAgrees` (`IndexAgrees`), for containers of any size. Neither property
is inductive: each compares answers, and an answer is right because of when the cache it came from was
built. `Fresh` says that: counts and a view's index that are as long as the dataset (`countsGen`,
`gen`) are those of its quads, and the index of a Graph is that of the triples it had without the `direct`
ones. An Add makes every cache shorter than its statements, so the types, which
say that none is ever longer, are what keeps a stale one from passing for a fresh one.
The rest is what the queries compute: `Distinct` keeps the elements and the first of them (`DistinctElements`),
`objectSet` is `Distinct` wherever it turns from scanning to hashing (`ObjectSetIsDistinct`), a bucket
searched for a predicate finds the statements that match both (`IndexFinds`), and so does a scan
of the copy (`CopyMeans`); the last two are `SelectAgain`. Dedupe changes an index only by forgetting it.

`Rdf_proofs`, about `RdfLines`: `LinesAlwaysAgree` (`LinesAreParsing`), for documents of any length and any
`ReadTerm`. The property compares the results with a parse of the text read so far, so it says nothing of where the
next line starts. `LineInv` adds it: the stream stands behind a newline or at the end (`WholeLines`), and the line number is the
number of newlines in front. Then reading on leaves the lines before as they are and adds one (`LinesGrow`, from the
positions `Select` gives `SplitLines`), with an empty line behind it if it ended in a newline; that
one is ignored by the parser, and `TrimNewline` says that the newline ReadString keeps is too. What the caller is told grows
by that line if it is asked for (`NextIsTold`), and results of this form begin with the triples
`ParseNTriples` gives and its line number (`ReportsStart`).

Model-checked only, and why:

* liveness (`ReadEndsWithCtx`, `DeadlineBoundsExchange`, `ReadReturns`,
  `ProducerReleased`, `DecodeReturns`) is out of the prover's reach;
* `StreamingIsParsing`, `WrittenIsRead`, `CanonicalDecidesIsomorphism`, `RecordReadsAsWritten`, `NotLossyIsWritable`,
  `EntriesReturn` and `CrosswalkSettles`: the modules `RdfText`, `RdfCanon`, `RecordText` and `Bibframe` are built on recursive operators
  (parsers, permutations, encoders, crosswalks of lists of fields), about which the prover cannot reason.

## Not modelled

* `rdf` RDF/XML and JSON-LD, which wrap encoding/xml and encoding/json, and the
  BIBFRAME sinks that write them. A BIBFRAME document is its graph here.
* In `bibframe`: the WorkInstances API, field 758, the flat series statements
  of older documents, and what the reader looks for in documents of others when this library's own
  properties are missing (`transcribedPlace` and the like of provisions, `prefLabel` of subjects): no graph
  in the model has them.
* `mods`, `dublincore`, `schemaorg`, `citation` and `skos`, beyond their
  Writers, and UNIMARC to MARC 21: projections of one record without state or a way back, where a
  model would repeat the code.
* Editing a `codex.Record`: operations on one slice, one caller, covered by unit tests.
* BER, query and CQL encoding, HTTP and XML decoding: what comes of them is a choice
  of the model (it decodes or it does not).
* In the commands: flags, sniffing, files and output.
* What a marcjson Reader does after an error; two goroutines that use one Decoder or one Conn.

## What could come next

Editing of `codex.Record` (order under InsertField and RemoveFields, aliasing of Fields());
MODS and BIBFRAME of one record against each other.
