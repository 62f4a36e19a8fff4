--------------------------- MODULE MCChatGateway ---------------------------
(* ChatGateway on small instances. *)
EXTENDS ChatGateway, TLC

CONSTANTS u1, f1, f2

\* A member with two devices, or with one.
OneMember == (f1 :> u1) @@ (f2 :> u1)
Single    == f1 :> u1

\* Connections and checks are interchangeable, and the sessions of one member.
Symmetry == Permutations(Sockets) \cup Permutations(Checks)
DeviceSymmetry == Symmetry \cup Permutations(Sessions)
=============================================================================
