---------------------------- MODULE MCZ3950Reader ----------------------------
(* Result sets of none to five records of every kind, read in pages of two   *)
(* under a context with a deadline that can also be cancelled.               *)
EXTENDS Z3950Reader

CONSTANTS q, none, deadlineCtx

MCQueries == {q}
MCCtxs    == {deadlineCtx}
MCCatalogs == {<<>>, <<"marc", "surrogate", "marc", "text", "corrupt">>,
               <<"text", "surrogate", "marc", "marc", "marc">>,
               <<"marc", "corrupt", "marc">>}
MCRanges  == (1..5) \X (1..2)
MCForms   == {"ok", "diag", "undecodable", "unframed", "close"}
=============================================================================
