------------------------------- MODULE RdfLines -------------------------------
(***************************************************************************)
(* The line path of rdf.NewDecoder, for N-Triples and N-Quads: one line at *)
(* a time, for as long as the caller asks (rdf/decoder.go), and the parser *)
(* of a whole document it must agree with (rdf/ntriples.go).  How one term *)
(* is read off a line is a parameter.                                      *)
(***************************************************************************)
EXTENDS RdfTerms, Naturals, Sequences, Selection

CONSTANTS Documents,       \* records [format, text, ending, skipBad, graph]: graph
                           \* holds the quads a document was written from, if any
          ReadTerm(_, _)   \* readNTTerm: the term of s at i, as [ok, i, term], i
                           \* being what follows

ASSUME LineAssumption == \A d \in Documents : d.text \in Seq(STRING)

VARIABLES input,   \* the document, a member of Documents
          at,      \* how much of its text was read
          lineNo,
          got,     \* what DecodeQuad has returned on the line path
          over     \* "no", or how the stream ended

lineVars == <<input, at, lineNo, got, over>>
-----------------------------------------------------------------------------
\* strings.TrimSpace, and TrimLeft of blanks.
TrimSpace(s) ==
  LET solid == {k \in DOMAIN s : s[k] \notin Space}
      first == CHOOSE k \in solid : \A m \in solid : k <= m
      last == CHOOSE k \in solid : \A m \in solid : m <= k
  IN  IF solid = {} THEN <<>> ELSE SubSeq(s, first, last)
Blanks1 == {" "}
TrimLeft(s, i) ==
  CHOOSE j \in i..(Len(s) + 1) : (j <= Len(s) => s[j] \notin Blanks1) /\ \A k \in i..(j - 1) : s[k] \in Blanks1

\* What the two line parsers have in common: three terms, then whatever follows.
NoTerm == [ok |-> FALSE, i |-> 0, term |-> <<>>]
Malformed == [kind |-> "malformed"]
ObjectTerm(s, subj, pred, obj) ==
  IF ~obj.ok THEN Malformed
  ELSE [kind |-> "statement", triple |-> <<subj, pred, obj.term>>, rest |-> SubSeq(s, TrimLeft(s, obj.i), Len(s))]
PredicateTerm(s, subj, pred) ==
  IF ~pred.ok \/ pred.term[1] # "iri" THEN Malformed
  ELSE ObjectTerm(s, subj, pred.term, ReadTerm(s, TrimLeft(s, pred.i)))
SubjectTerm(s, subj) ==
  IF ~subj.ok \/ subj.term[1] = "literal" THEN Malformed
  ELSE PredicateTerm(s, subj.term, ReadTerm(s, TrimLeft(s, subj.i)))
Trimmed(s) == IF s = <<>> \/ s[1] = "#" THEN [kind |-> "ignorable"] ELSE SubjectTerm(s, ReadTerm(s, 1))
ParseNTLine(line) == Trimmed(TrimSpace(line))

GraphTerm(st, g) ==
  IF st.kind # "statement" THEN [kind |-> st.kind]
  ELSE [kind |-> "statement", triple |-> st.triple,
        graph |-> IF st.rest # <<>> /\ st.rest[1] # "." /\ g.ok /\ g.term[1] # "literal"
                  THEN g.term ELSE DefaultG]
RestOf(st) == IF st.kind = "statement" THEN ReadTerm(st.rest, 1) ELSE NoTerm
ParseNQuadLine_Strict(line) ==   \* a wrong version: refuses a graph name it cannot read
  LET st == ParseNTLine(line) IN
  IF st.kind = "statement" /\ st.rest # <<>> /\ st.rest[1] # "." /\ ~RestOf(st).ok THEN Malformed
  ELSE GraphTerm(st, RestOf(st))
ParseNQuadLine(line) == LET st == ParseNTLine(line) IN GraphTerm(st, RestOf(st))
-----------------------------------------------------------------------------
\* bufio.Reader.ReadString: the line behind i with its newline, or what there is.
LineEnd(text, i) ==
  CHOOSE e \in (i + 1)..Len(text) : (e < Len(text) => text[e] = "\n") /\ \A k \in (i + 1)..(e - 1) : text[k] # "\n"

\* One turn of the loop in nextQuad that reads a line.
DecodeLine ==
  LET end == LineEnd(input.text, at)
      q == ParseNQuadLine(SubSeq(input.text, at + 1, end))
  IN  /\ input.format = "nquads" /\ over = "no" /\ at < Len(input.text)
      /\ at' = end
      /\ lineNo' = lineNo + 1
      /\ got' = CASE q.kind = "statement" -> Append(got, q)
                  [] q.kind = "malformed" /\ ~input.skipBad -> Append(got, [kind |-> "malformed", line |-> lineNo'])
                  [] OTHER -> got
      /\ UNCHANGED <<input, over>>

LinesEnd ==
  /\ input.format = "nquads" /\ over = "no" /\ at = Len(input.text)
  /\ over' = input.ending
  /\ UNCHANGED <<input, at, lineNo, got>>

LineInit == input \in Documents /\ at = 0 /\ lineNo = 0 /\ got = <<>> /\ over = "no"
LineNext == DecodeLine \/ LinesEnd
LineSpec == LineInit /\ [][LineNext]_lineVars
-----------------------------------------------------------------------------
\* parseNTriples: every line, up to the first that is malformed.
SplitLines(text) ==
  LET ends == Select({k \in DOMAIN text : text[k] = "\n"} \cup {Len(text) + 1}, Len(text) + 1)
  IN  [n \in DOMAIN ends |-> SubSeq(text, IF n = 1 THEN 1 ELSE ends[n - 1] + 1, ends[n] - 1)]
Parsed(lines) == [n \in DOMAIN lines |-> ParseNTLine(lines[n])]
FirstMalformed(results) ==
  CHOOSE j \in 1..(Len(results) + 1) : /\ j <= Len(results) => results[j].kind = "malformed"
                                       /\ \A k \in 1..(j - 1) : results[k].kind # "malformed"
ParseNTriples(text) ==
  LET parsed == Parsed(SplitLines(text))
      bad == FirstMalformed(parsed)
      good == Select({n \in DOMAIN parsed : parsed[n].kind = "statement"}, bad - 1)
  IN  [triples |-> [k \in DOMAIN good |-> parsed[good[k]].triple], bad |-> IF bad > Len(parsed) THEN 0 ELSE bad]
-----------------------------------------------------------------------------
\* The numbers of the lines a caller is told of.
ToldOf(parsed, skipBad) ==
  Select({n \in DOMAIN parsed : parsed[n].kind = "statement" \/ (parsed[n].kind = "malformed" /\ ~skipBad)},
         Len(parsed))

\* Reading N-Quads line by line, past every malformed line, gives one result for
\* each line that is neither blank nor a comment, in order; up to the first
\* malformed line these are the triples ParseNTriples gives, which reports the
\* same line, and SkipMalformed leaves out the malformed ones and nothing else.
LinesAreParsing ==
  input.format = "nquads" =>
    LET seen == SubSeq(input.text, 1, at)
        parsed == Parsed(SplitLines(seen))
        told == ToldOf(parsed, input.skipBad)
        bad == FirstMalformed(got)
    IN  /\ Len(got) = Len(told)
        /\ \A k \in DOMAIN got :
             /\ got[k].kind = parsed[told[k]].kind
             /\ IF got[k].kind = "statement" THEN got[k].triple = parsed[told[k]].triple ELSE got[k].line = told[k]
        /\ ~input.skipBad =>
             /\ ParseNTriples(seen).triples = [k \in 1..(bad - 1) |-> got[k].triple]
             /\ bad <= Len(got) => ParseNTriples(seen).bad = got[bad].line
===============================================================================
