----------------------------- MODULE MCSessions -----------------------------
(* Sessions on small instances. *)
EXTENDS Sessions, TLC

\* Members and handler instances are interchangeable.
Symmetry == Permutations(Users) \cup Permutations(Requests)
=============================================================================
