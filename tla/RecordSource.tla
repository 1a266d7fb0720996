----------------------------- MODULE RecordSource -----------------------------
(***************************************************************************)
(* What codex.RecordReader promises (codex.go): Read hands out the records *)
(* of a stream one at a time and in order, and returns io.EOF when the     *)
(* stream is exhausted.  A reader may also fail, and a stream may be cut   *)
(* short by its source or by a caller that closes it; after the end,       *)
(* whatever it was, no further record comes.                               *)
(***************************************************************************)
EXTENDS Naturals, Sequences

CONSTANT Streams  \* the sequences of records a stream may hold

VARIABLES
  stream,         \* the records this reader should hand out, in order
  delivered,      \* the records Read has returned
  cut,            \* the source ended early, or the caller closed the reader
  end             \* "none", or how the stream ended: "eof" or "error"

sourceVars == <<stream, delivered, cut, end>>

Init == stream \in Streams /\ delivered = <<>> /\ cut = FALSE /\ end = "none"

Deliver ==
  /\ end = "none" /\ Len(delivered) < Len(stream)
  /\ delivered' = Append(delivered, stream[Len(delivered) + 1])
  /\ UNCHANGED <<stream, cut, end>>

\* io.EOF comes only when everything was delivered, unless the stream was cut.
Finish ==
  /\ end = "none"
  /\ cut' \in IF cut THEN {TRUE} ELSE BOOLEAN
  /\ \/ end' = "error"
     \/ end' = "eof" /\ (cut' \/ Len(delivered) = Len(stream))
  /\ UNCHANGED <<stream, delivered>>

Next == Deliver \/ Finish

Spec == Init /\ [][Next]_sourceVars
=============================================================================
