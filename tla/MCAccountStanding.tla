------------------------- MODULE MCAccountStanding -------------------------
(* AccountStanding on small instances. *)
EXTENDS AccountStanding, TLC

\* Calls and moderators are interchangeable.
Symmetry == Permutations(Calls) \cup Permutations(Moderators)
=============================================================================
