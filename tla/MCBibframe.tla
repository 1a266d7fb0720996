------------------------------ MODULE MCBibframe ------------------------------
(* Collections for Bibframe: records with one or two fields beside their title, *)
(* under leaders of every kind, and pairs of records that share what the graph  *)
(* has one node for: a heading's authority, a language, a term, a link, a stem. *)
EXTENDS Bibframe

\* What the crosswalk reads of an 008.
Fixed(date, country, form, lang) ==
  PlainField("008", <<<<"07", date>>, <<"15", country>>, <<"23", form>>, <<"29", form>>, <<"35", lang>>>>)

FieldLibrary == <<
  PlainField("006", <<<<"00", <<"m">>>>>>),
  PlainField("007", <<<<"00", <<"cr">>>>>>),
  PlainField("007", <<<<"00", <<"co">>>>>>),
  Fixed(<<"1993">>, <<"nyu">>, <<"o">>, <<"eng">>),
  Fixed(<<"1994">>, <<" ">>, <<"a">>, <<"fre">>),
  Fixed(<<" ">>, <<"enk">>, <<" ">>, <<" ">>),
  MarcField("010", " ", " ", <<<<"a", <<"n1">>>>, <<"z", <<"n2">>>>>>),
  MarcField("020", " ", " ", <<<<"a", <<"9", "(", "pbk", ")", ":">>>>, <<"z", <<"8">>>>, <<"q", <<"hbk">>>>>>),
  MarcField("022", " ", " ", <<<<"a", <<"1">>>>, <<"y", <<"2">>>>, <<"z", <<"3">>>>, <<"2", <<"iss">>>>>>),
  MarcField("024", "7", " ", <<<<"a", <<"d">>>>, <<"2", <<"doi">>>>, <<"z", <<"e">>>>>>),
  MarcField("024", "1", " ", <<<<"a", <<"u">>>>>>),
  MarcField("024", "7", " ", <<<<"a", <<"x">>>>, <<"2", <<"mine">>>>>>),
  MarcField("024", "8", " ", <<<<"a", <<"x">>>>>>),
  PlainField("037", <<<<"a", <<"s">>>>, <<"b", <<"vendor">>>>>>),
  PlainField("040", <<<<"a", <<"DLC">>>>, <<"b", <<"eng">>>>, <<"c", <<"DLC">>>>, <<"d", <<"OCL">>>>, <<"d", <<"DLC">>>>, <<"e", <<"rda">>>>>>),
  PlainField("041", <<<<"a", <<"fre">>>>, <<"h", <<"ger">>>>>>),
  PlainField("041", <<<<"a", <<"eng", "fre">>>>>>),
  PlainField("041", <<<<"h", <<"eng">>>>>>),
  MarcField("050", " ", "0", <<<<"a", <<"QA">>>>, <<"b", <<"A1">>>>>>),
  MarcField("082", "0", "0", <<<<"a", <<"5">>>>, <<"b", <<"B">>>>, <<"2", <<"23">>>>>>),
  MarcField("072", " ", "7", <<<<"a", <<"FIC">>>>, <<"2", <<"bisac">>>>>>),
  PlainField("084", <<<<"a", <<"k">>>>, <<"a", <<"l">>>>, <<"b", <<"m">>>>, <<"2", <<"rvk">>>>>>),
  MarcField("100", "1", " ", <<<<"a", <<"Doe", ",">>>>, <<"d", <<"1900-">>>>, <<"e", <<"author", "and", "editor", ".">>>>, <<"4", <<"aut">>>>, <<"0", <<"http:", "loc-names", "n1">>>>>>),
  MarcField("100", "3", " ", <<<<"a", <<"Doe">>>>, <<"t", <<"Works">>>>>>),
  MarcField("110", "1", " ", <<<<"a", <<"France">>>>, <<"b", <<"Senate">>>>, <<"1", <<"http:", "viaf", "9">>>>, <<"0", <<"http:", "loc-names", "n1">>>>>>),
  MarcField("111", "2", " ", <<<<"a", <<"Conf">>>>, <<"j", <<"host">>>>, <<"4", <<"http:", "roles", "h">>>>>>),
  MarcField("130", "0", " ", <<<<"a", <<"Uniform">>>>, <<"n", <<"2">>>>>>),
  MarcField("240", "1", "0", <<<<"a", <<"Title">>>>, <<"p", <<"Part">>>>>>),
  MarcField("245", "1", "4", <<<<"a", <<"Title", ":">>>>, <<"b", <<"sub", ",", "/">>>>, <<"c", <<"by">>>>>>),
  MarcField("246", "3", "1", <<<<"a", <<"Par">>>>>>),
  MarcField("246", "1", "4", <<<<"a", <<"Cov">>>>, <<"n", <<"1">>>>>>),
  MarcField("246", "3", "5", <<<<"b", <<"Add">>>>>>),
  PlainField("250", <<<<"a", <<"2nd">>>>>>),
  MarcField("264", " ", "1", <<<<"a", <<"NY", ":">>>>, <<"b", <<"P", ",">>>>, <<"c", <<"[", "1993", "]", ".">>>>>>),
  MarcField("264", " ", "0", <<<<"c", <<"1993">>>>>>),
  MarcField("264", " ", "4", <<<<"c", <<"c1993">>>>>>),
  PlainField("260", <<<<"a", <<"LDN">>>>>>),
  PlainField("300", <<<<"a", <<"2v">>>>, <<"c", <<"24cm">>>>>>),
  PlainField("300", <<<<"a", <<"1", "disc", ";">>>>, <<"c", <<"12cm">>>>>>),
  PlainField("306", <<<<"a", <<"002">>>>>>),
  PlainField("336", <<<<"a", <<"text">>>>, <<"b", <<"txt">>>>>>),
  PlainField("336", <<<<"b", <<"Bad">>>>>>),
  PlainField("337", <<<<"a", <<"computer">>>>, <<"b", <<"c">>>>>>),
  PlainField("338", <<<<"a", <<"online">>>>, <<"b", <<"cr">>>>>>),
  PlainField("338", <<<<"a", <<"roll">>>>>>),
  PlainField("347", <<<<"a", <<"audio">>>>, <<"b", <<"mp3">>>>>>),
  MarcField("490", "1", " ", <<<<"a", <<"Ser">>>>, <<"v", <<"1">>>>, <<"x", <<"12">>>>>>),
  MarcField("490", "0", " ", <<<<"a", <<"Ser">>>>, <<"v", <<"1">>>>>>),
  PlainField("500", <<<<"a", <<"note">>>>, <<"6", <<"880">>>>>>),
  PlainField("504", <<<<"a", <<"bib">>>>>>),
  PlainField("546", <<<<"a", <<"in">>>>, <<"b", <<"eng">>>>>>),
  PlainField("520", <<<<"a", <<"sum">>>>>>),
  PlainField("505", <<<<"a", <<"toc">>>>>>),
  MarcField("600", "1", "0", <<<<"a", <<"Doe">>>>, <<"0", <<"http:", "loc-names", "n1">>>>>>),
  MarcField("610", "2", "0", <<<<"a", <<"Org">>>>>>),
  MarcField("650", " ", "0", <<<<"a", <<"Cats">>>>, <<"v", <<"Fic">>>>, <<"0", <<"http:", "loc-subjects", "sh1">>>>>>),
  MarcField("650", " ", "7", <<<<"a", <<"Cats">>>>, <<"2", <<"fast">>>>>>),
  MarcField("650", " ", "4", <<<<"a", <<"Dogs">>>>, <<"0", <<"http:", "loc-subjects", "sh1">>>>>>),
  MarcField("651", " ", "0", <<<<"a", <<"NY">>>>, <<"x", <<"Hist">>>>>>),
  MarcField("655", " ", "7", <<<<"a", <<"Novels">>>>>>),
  MarcField("655", " ", "7", <<<<"a", <<"Novels">>>>, <<"x", <<"Rus">>>>, <<"2", <<"fast">>>>>>),
  MarcField("700", "1", " ", <<<<"a", <<"Roe">>>>, <<"e", <<"tr">>>>, <<"0", <<"http:", "loc-names", "n1">>>>>>),
  MarcField("710", "2", " ", <<<<"a", <<"Org">>>>, <<"t", <<"Rep">>>>>>),
  MarcField("773", "0", " ", <<<<"t", <<"Host">>>>, <<"x", <<"12">>>>, <<"w", <<"9">>>>>>),
  MarcField("780", "0", "6", <<<<"a", <<"Old">>>>, <<"s", <<"O">>>>, <<"z", <<"4">>>>>>),
  MarcField("785", "0", "5", <<<<"t", <<"New">>>>, <<"z", <<"5">>>>>>),
  MarcField("760", "0", " ", <<<<"a", <<"Org">>>>, <<"t", <<"Main">>>>>>),
  MarcField("762", "0", " ", <<<<"a", <<"Org">>>>, <<"t", <<"Part">>>>, <<"x", <<"34">>>>>>),
  MarcField("830", " ", "0", <<<<"a", <<"Ser">>>>, <<"v", <<"1">>>>>>),
  MarcField("856", "4", "0", <<<<"u", <<"http:u">>>>, <<"3", <<"toc">>>>, <<"z", <<"free">>>>, <<"y", <<"here">>>>>>),
  MarcField("856", "4", "1", <<<<"u", <<"http:u">>>>, <<"u", <<"http:v">>>>, <<"z", <<"paid">>>>>>)>>

RecordWith(type, level, number, fs) ==
  [leader |-> [type |-> type, level |-> level],
   fields |-> If(number # <<>>, <<PlainField("001", <<<<"00", number>>>>)>>)
              \o <<MarcField("245", "0", "0", <<<<"a", <<"Title">>>>>>)>> \o fs]
Numbers == {<<<<>>, <<>>>>, <<<<"x">>, <<"x">>>>, <<<<"x">>, <<"y", "/">>>>, <<<<"r", "1">>, <<>>>>, <<<<>>, <<"r", "1">>>>}
SharingTags == {"008", "037", "041", "100", "110", "130", "338", "600", "650", "700", "856"}
Sharing == {i \in DOMAIN FieldLibrary : FieldLibrary[i].tag \in SharingTags}

Singles == {<<RecordWith("a", "m", <<"x">>, <<FieldLibrary[i]>>)>> : i \in DOMAIN FieldLibrary}
CodedFieldIds == {i \in DOMAIN FieldLibrary : FieldLibrary[i].tag \in {"006", "007", "008", "336", "337", "338"}}
Leaders == {<<RecordWith(l[1], l[2], <<"x">>, <<FieldLibrary[i]>>)>> :
  i \in CodedFieldIds, l \in {<<"d", "s">>, <<"f", "i">>, <<"g", "d">>, <<"m", "a">>, <<"p", "c">>, <<"j", "m">>, <<"r", "m">>}}
\* Fields that meet on the way: in one list of the Work or the Instance, in one node, or
\* because one is derived from the other.
Meeting == {
  {"100", "110", "111", "130", "240", "245", "246", "600", "610", "650", "651", "655", "700", "710"},
  {"006", "007", "008", "260", "264", "300", "336", "337", "338", "347", "306"},
  {"008", "040", "041", "500", "504", "505", "520", "546", "856"},
  {"490", "710", "760", "762", "773", "780", "785", "830"},
  {"010", "020", "022", "024", "037", "050", "072", "082", "084"}}
Pairs == {<<RecordWith("a", "m", <<>>, <<FieldLibrary[p[1]], FieldLibrary[p[2]]>>)>> :
  p \in {q \in (DOMAIN FieldLibrary) \X (DOMAIN FieldLibrary) : /\ q[1] < q[2]
        /\ \E tags \in Meeting : FieldLibrary[q[1]].tag \in tags /\ FieldLibrary[q[2]].tag \in tags}}
Twos == {<<RecordWith("a", "m", <<"x">>, <<FieldLibrary[p[1]]>>), RecordWith("t", "s", <<"y">>, <<FieldLibrary[p[2]]>>)>> :
  p \in Sharing \X Sharing}
Stems == {<<RecordWith("a", "m", n[1], <<FieldLibrary[i]>>), RecordWith("a", "m", n[2], <<FieldLibrary[j]>>)>> :
  n \in Numbers, i, j \in {k \in DOMAIN FieldLibrary : FieldLibrary[k].tag \in {"020", "130", "700"}}}
MCElsewhere == {c \in Singles \cup Pairs : \E f \in Range(c[1].fields) : f.tag \in LinkingTags \cup SeriesEntryTags \cup {"040"}}
MCCollections == Singles \cup Leaders \cup Pairs \cup Twos \cup Stems

BibSpec == BibInit /\ [][BibNext]_bibVars
===============================================================================
