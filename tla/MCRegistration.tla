---------------------------- MODULE MCRegistration ----------------------------
(***************************************************************************)
(* An instance of Registration for TLC.  Pipes, paths and queries are told *)
(* apart by equality only.                                                 *)
(***************************************************************************)
EXTENDS Registration, TLC

Symmetry == Permutations(Pipe) \cup Permutations(Path) \cup Permutations(Query)
=============================================================================
