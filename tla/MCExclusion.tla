---------------------------- MODULE MCExclusion ----------------------------
(* An instance of SessionExclusion for TLC: a child that expands more than *)
(* once, and lives longer than its budget is kept.                         *)
EXTENDS SessionExclusion
=============================================================================
