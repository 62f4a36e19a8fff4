----------------------------- MODULE MCBrowsers -----------------------------
(* Two browsers of one member. *)
EXTENDS Browsers, TLC

CONSTANTS b1, b2, u1

Jars == {b1, b2}
Owner == [b \in Jars |-> u1]

Symmetry == Permutations(Requests) \cup Permutations(Jars)
=============================================================================
