------------------------ MODULE MCBoundarySnapshots ------------------------
(* Two engines, two requests: the requests share an engine or do not. *)
EXTENDS BoundarySnapshots, TLC
CONSTANTS r1, r2, e1, e2
Lengths == (r1 :> 4) @@ (r2 :> 1)
Bases == (r1 :> 0) @@ (r2 :> 2)
Together == (r1 :> e1) @@ (r2 :> e1)
=============================================================================
