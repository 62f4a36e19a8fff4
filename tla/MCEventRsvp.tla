----------------------------- MODULE MCEventRsvp -----------------------------
(* The roster on small instances. *)
EXTENDS EventRsvp, TLC

\* Handler instances are interchangeable, and so are those who run nothing.
Symmetry == Permutations(Requests) \cup Permutations(Members \ Organizers)
=============================================================================
