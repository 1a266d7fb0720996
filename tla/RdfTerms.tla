------------------------------- MODULE RdfTerms -------------------------------
(***************************************************************************)
(* rdf.Term, as a tuple of its kind and its strings, and the characters    *)
(* that part what is written of terms.  A text is a sequence of tokens,    *)
(* see TurtleParser.                                                       *)
(***************************************************************************)
Space == {" ", "\n"}

Iri(v) == <<"iri", v>>
Blank(v) == <<"blank", v>>
Literal(v, lang, datatype) == <<"literal", v, lang, datatype>>

DefaultG == <<"default">>   \* the zero Term, as a graph name
===============================================================================
