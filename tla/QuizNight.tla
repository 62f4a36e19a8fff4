------------------------------ MODULE QuizNight ------------------------------
(***************************************************************************)
(* What a Pulse Live session promises whoever reads its rows: the quiz is  *)
(* asked in its order and every question at most once, what was revealed   *)
(* stays revealed, and the night is over once, with a results card exactly *)
(* when it was played to its end.                                          *)
(***************************************************************************)
EXTENDS Naturals, Sequences

CONSTANT Questions   \* pairs of a round and a place in it

VARIABLES
  asked,     \* the questions asked so far, in order
  revealed,  \* how many of them were revealed, by their place in asked
  ending     \* "open", "finished" or "abandoned"

vars == <<asked, revealed, ending>>

Before(x, y) == x[1] < y[1] \/ (x[1] = y[1] /\ x[2] < y[2])
AskedSet     == {asked[i] : i \in DOMAIN asked}

Init == asked = <<>> /\ revealed = {} /\ ending = "open"

\* The next question of the quiz; the one before it was revealed or passed over.
Ask(x) ==
  /\ ending = "open" /\ x \notin AskedSet
  /\ \A y \in Questions : Before(y, x) => y \in AskedSet
  /\ asked' = Append(asked, x)
  /\ UNCHANGED <<revealed, ending>>

Reveal ==
  /\ ending = "open" /\ asked # <<>> /\ Len(asked) \notin revealed
  /\ revealed' = revealed \cup {Len(asked)}
  /\ UNCHANGED <<asked, ending>>

End(how) == ending = "open" /\ ending' = how /\ UNCHANGED <<asked, revealed>>

Next == (\E x \in Questions : Ask(x)) \/ Reveal \/ End("finished") \/ End("abandoned")

Spec == Init /\ [][Next]_vars
=============================================================================
