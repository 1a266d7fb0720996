------------------------------ MODULE RecordSink ------------------------------
(***************************************************************************)
(* What codex.RecordWriter and codex.Close promise (codex.go): Write puts  *)
(* records on a stream in the order they are given, Close completes the    *)
(* document, and a stream that a write has failed on takes nothing more.   *)
(* The write that fails may or may not have got its record across.         *)
(***************************************************************************)
EXTENDS Naturals, Sequences

CONSTANT Records

VARIABLES
  written,  \* the records on the stream, in order
  state     \* "open", "complete" or "broken"

sinkVars == <<written, state>>

Init == written = <<>> /\ state = "open"

Accept ==
  /\ state = "open" /\ state' = "open"
  /\ \E r \in Records : written' = Append(written, r)

Complete == state = "open" /\ state' = "complete" /\ UNCHANGED written

Break ==
  /\ state = "open" /\ state' = "broken"
  /\ UNCHANGED written \/ \E r \in Records : written' = Append(written, r)

Next == Accept \/ Complete \/ Break

Spec == Init /\ [][Next]_sinkVars
=============================================================================
