------------------------------- MODULE MCEngine -------------------------------
(* Two requests, one read as a stream and one by generate().                  *)
EXTENDS Engine
=============================================================================
