---------------------------- MODULE MCStorage ----------------------------
(***************************************************************************)
(* Model checking of Storage with the empty root and two others, so that a *)
(* block can return to a state that is on disk or in memory only.          *)
(***************************************************************************)
EXTENDS Storage

MCRoots == {"empty", "r1", "r2"}
=============================================================================
