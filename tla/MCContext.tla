------------------------------ MODULE MCContext ------------------------------
(* An instance of CompactedProjection for TLC: three calls of the host, up *)
(* to two of them under way at once.                                       *)
EXTENDS CompactedProjection, TLC

(* The places of calls are interchangeable. *)
Symmetry == Permutations(Places)
=============================================================================
