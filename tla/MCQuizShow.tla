------------------------------ MODULE MCQuizShow ------------------------------
(* A Pulse Live session on small quizzes. *)
EXTENDS QuizShow, TLC

OneOfEach    == <<[kind |-> "quiz", size |-> 1], [kind |-> "caption", size |-> 1]>>
TwoQuestions == <<[kind |-> "quiz", size |-> 2]>>
Question     == <<[kind |-> "quiz", size |-> 1]>>
Caption      == <<[kind |-> "caption", size |-> 1]>>
Detector     == <<[kind |-> "lie", size |-> 1]>>

Symmetry == Permutations(Players)
=============================================================================
