---------------------------- MODULE MCRequestRouter ----------------------------
(* Model checking of RequestRouter: two nested prefixes, and URIs below    *)
(* both, below the outer one only, and below neither.                      *)
EXTENDS RequestRouter, TLC

CONSTANTS a, b, c

MCPath == {<<a>>, <<a, b>>}
MCUri == {<<a, b, c>>, <<a, c>>, <<b>>, Malformed}

(* Messages of a kind and Routes are interchangeable.                      *)
Symmetry == Permutations(Request) \cup Permutations(Push) \cup Permutations(Route)
=============================================================================
