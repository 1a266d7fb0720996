----------------------------- MODULE MCZ3950Conn -----------------------------
(* A small instance of Z3950Conn: a caller with the Conn that Connect gave   *)
(* makes three calls, each under a deadline that can also be cancelled or    *)
(* under none.                                                               *)
EXTENDS Z3950Conn, TLC

CONSTANTS q1, q2, none, cDeadline, background

MCQueries      == {q1, q2}
MCCtxs         == {cDeadline, background}
MCDeadlineCtxs == {cDeadline}
MCPositions    == {1}
MCForms        == {"ok", "diag", "unframed", "close"}
QuerySymmetry  == Permutations(MCQueries)
=============================================================================
