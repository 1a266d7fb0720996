-------------------------- MODULE MCFramingReaders --------------------------
(* Documents of up to three records of any kind in every format, cut at any  *)
(* token, from an io.Reader that ends or fails there.                        *)
EXTENDS FramingReaders

MCContents == UNION {[1..n -> Kinds] : n \in 0..3}
=============================================================================
