------------------------------ MODULE MCHatTrie ------------------------------
(* Model checking of HatTrie.                                              *)
EXTENDS HatTrie

MCHash(key) == FoldLeft(LAMBDA h, c : 3 * h + c, 1, key)
MCKey == {<<1>>, <<1, 1>>, <<1, 1, 2>>, <<1, 2>>, <<2>>}
MCProbe == MCKey \cup {<< >>, <<1, 1, 1>>, <<1, 1, 2, 1>>, <<2, 1>>, <<2, 2>>}
MCValue(key) == IF key = <<1>> THEN {key, << >>} ELSE {key}
=============================================================================
