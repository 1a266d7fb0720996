---------------------------- MODULE MCSip2Session ----------------------------
(* A caller who logs in and asks about two items, an ACS that may end its    *)
(* lines either way, refuse to answer properly, or hang up.                  *)
EXTENDS Sip2Session

CONSTANTS i1, i2, login

MCItems == {i1, i2}
=============================================================================
