---------------------------- MODULE SessionLedger ----------------------------
(***************************************************************************)
(* What the refresh-token store promises about a session (a refresh-token  *)
(* FAMILY), stated without rows, requests, clocks or transactions.         *)
(*                                                                         *)
(* A family is "new" until a sign-in opens it (or its id is spent on a row *)
(* of another family, which closes it unused).  It is "live" while a row   *)
(* of it is unrevoked.  It is "lingering" when no row is live but the      *)
(* rotation grace window may still mint one.  Once "closed" it is over:    *)
(* the only way back for that device is a fresh sign-in, a new family.     *)
(* Module Sessions is shown to implement this specification.               *)
(***************************************************************************)
CONSTANT Family

VARIABLE phase

Phases == {"new", "live", "lingering", "closed"}

LedgerTypeOK == phase \in [Family -> Phases]

LedgerInit == phase = [f \in Family |-> "new"]

\* The phases a family may pass to in one step.
Successors(p) ==
  CASE p = "new"       -> {"new", "live", "closed"}
    [] p = "live"      -> {"live", "lingering", "closed"}
    [] p = "lingering" -> {"lingering", "live", "closed"}
    [] p = "closed"    -> {"closed"}

\* One step of the store may end many families (a sweep, a purge, an erasure,
\* the passing of time) but opens at most one.
LedgerNext ==
  /\ phase' \in [Family -> Phases]
  /\ \A f \in Family : phase'[f] \in Successors(phase[f])
  /\ \A f, g \in Family :
       /\ phase[f] # "live" /\ phase'[f] = "live"
       /\ phase[g] # "live" /\ phase'[g] = "live"
       => f = g

LedgerSpec == LedgerInit /\ [][LedgerNext]_phase
=============================================================================
