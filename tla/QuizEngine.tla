------------------------------ MODULE QuizEngine ------------------------------
(***************************************************************************)
(* The engine of a Pulse Live session: the functions that the host's and   *)
(* the players' commands, the phase timer and the idle sweep run on the    *)
(* live state in memory.  Each takes a step so far and returns it with its *)
(* own part done: the live state, the writes it asks for and the phase     *)
(* timer it leaves.  The engine never waits, so a command is one step.     *)
(*                                                                         *)
(* Solo play.  A quiz answer is right or wrong and a right one is worth a  *)
(* point; a vote received, a vote for the truth and the host's favourite   *)
(* are worth a point each.  Speed and streak bonuses, jokers and teams     *)
(* only change how many points that is.                                    *)
(*                                                                         *)
(* Times are kept as what remains of them: a deadline is the time left to  *)
(* it, negative once it has passed.  Moments the code compares (joined,    *)
(* removed, opened, revealed) are the phase id they fell in.               *)
(***************************************************************************)
EXTENDS Integers, Sequences, FiniteSets, FiniteSetsExt

CONSTANTS
  Players,
  Rounds,      \* the quiz snapshot: a sequence of [kind, size]
  ReviewOn,    \* is_review_on
  ReadTime,    \* readPhaseMs
  AnswerTime,  \* the limit of open, write and vote
  ExtraTime,   \* that limit times extraTimeFactor
  Grace,       \* answerGraceMs
  None

Kinds == {"quiz", "caption", "lie"}

ASSUME QuizAssumption ==
  /\ Rounds \in Seq([kind : Kinds, size : Nat \ {0}]) /\ Rounds # <<>>
  /\ ReviewOn \in BOOLEAN
ASSUME TimeAssumption ==
  /\ ReadTime \in Nat /\ AnswerTime \in Nat /\ ExtraTime \in Nat /\ Grace \in Nat
  /\ AnswerTime <= ExtraTime

Truth == "truth"   \* the option no player wrote

ASSUME PlayersAssumption == IsFiniteSet(Players) /\ Truth \notin Players

\* An answer in memory: what was said, what it earned, whether the host has hidden it.
Answers == [payload : {"right", "wrong", "text"}, points : Int, hidden : BOOLEAN]

Questions      == UNION {{r} \X (1..Rounds[r].size) : r \in 1..Len(Rounds)}
KindOf(x)      == Rounds[x[1]].kind
IsParty(x)     == KindOf(x) # "quiz"
IsLast(x)      == x[2] = Rounds[x[1]].size
IsLastRound(r) == r = Len(Rounds)

ASSUME NoneAssumption ==
  /\ None \notin Int /\ None \notin Players \cup {Truth} /\ None \notin Answers
  /\ \A S \in SUBSET (Players \cup {Truth}) : None # S

Open   == {"lobby", "running", "paused"}
Closed == {"finished", "abandoned"}

QuestionPhases   == {"read", "open", "write", "review", "vote"}
SubmissionPhases == {"open", "write", "vote"}
TimedPhases      == {"read", "open", "write", "vote"}
Phases == QuestionPhases \cup
          {"lobby", "round_intro", "reveal", "scores", "leaderboard", "podium", "ended"}

\* What one command writes; everything in it lands together or not at all.
NoWrites == [question   |-> None,     \* the question its answer and vote rows are of
             wipe       |-> FALSE,    \* delete_question_plays
             answers    |-> <<>>,     \* insert_answer: payload by author
             votes      |-> <<>>,     \* insert_vote: option by voter
             shown      |-> {},       \* set_answer_vote_options: the authors
             hidden     |-> <<>>,     \* set_answer_hidden: by author
             points     |-> <<>>,     \* save_scoring: points_awarded by author
             scores     |-> <<>>,     \* save_scoring: score by player
             joined     |-> <<>>,     \* insert_player
             removed    |-> <<>>,     \* update_player removedAt, hide_player_answers
             extraTime  |-> <<>>,     \* update_player hasExtraTime
             row        |-> None]     \* checkpoint, finish or abandon: the session row

\* A command starts from the state and the timer as they are.
StepFrom(live, timer) ==
  [live |-> live, timer |-> timer, writes |-> NoWrites, saves |-> FALSE]

Noted(s) == [s EXCEPT !.live.hostSeen = TRUE]
Saved(s) == [s EXCEPT !.saves = TRUE]

----------------------------------------------------------------------------
Cursor(live)   == <<live.round, live.question>>
Active(live)   == {p \in Players : live.joined[p] # None /\ live.removed[p] = None}
Answered(play) == {p \in Players : play.answers[p] # None}
Visible(play)  == {p \in Answered(play) : ~play.answers[p].hidden}
EntryOf(log, x) == Max({i \in DOMAIN log : log[i].at = x})

PlayNow(live) == live.play # None
EligibleNow(live) == Active(live) \cap live.play.eligible

OwnDeadline(live, p) ==
  IF p \in live.play.extra THEN live.extraDeadline ELSE live.deadline

InTime(live, p) == OwnDeadline(live, p) = None \/ OwnDeadline(live, p) >= -Grace

Submitted(live, p) ==
  IF live.phase = "vote" THEN live.play.votes[p] # None ELSE live.play.answers[p] # None

Awaited(live, p) == p \in EligibleNow(live) /\ ~Submitted(live, p) /\ InTime(live, p)

Armed(s) ==
  LET grace == IF s.live.phase = "read" THEN 0 ELSE Grace
  IN  IF s.live.deadline = None THEN s
      ELSE [s EXCEPT !.timer = [id |-> s.live.phaseId, left |-> s.live.deadline + grace]]

Advance(s, phase, round, question, time, extra) ==
  LET moved == [s.live EXCEPT !.phaseId = @ + 1, !.phase = phase,
                              !.round = round, !.question = question,
                              !.deadline = time, !.extraDeadline = extra,
                              !.pausedLeft = None, !.pausedExtra = None,
                              !.recovery = FALSE]
  IN  [s EXCEPT !.live = moved]

Untimed(s, phase, round, question) == Advance(s, phase, round, question, None, None)
Timed(s, phase) == Armed(Advance(s, phase, s.live.round, s.live.question, AnswerTime, ExtraTime))

----------------------------------------------------------------------------
NewPlay(live, x) ==
  [at        |-> x,
   eligible  |-> Active(live),
   extra     |-> {p \in Active(live) : live.extraTime[p]},
   answers   |-> [p \in Players |-> None],
   votes     |-> [p \in Players |-> None],
   options   |-> None,
   favourite |-> None,
   scored    |-> FALSE,
   counted   |-> {}]      \* the keys of pointsByPlayer

OpenQuestion(s, x) ==
  LET entry == [at |-> x, opened |-> s.live.phaseId + 1, revealed |-> None, skipped |-> FALSE]
      t     == [s EXCEPT !.live.play = NewPlay(s.live, x), !.live.log = Append(@, entry)]
  IN  Saved(Armed(IF IsParty(x)
                  THEN Advance(t, "write", x[1], x[2], AnswerTime, ExtraTime)
                  ELSE Advance(t, "read", x[1], x[2], ReadTime, None)))

OpenAnswers(s)       == Saved(Timed(s, "open"))
OpenRoundIntro(s, r) == Saved(Untimed(s, "round_intro", r, None))
ShowScores(s)        == Saved(Untimed(s, "scores", s.live.round, s.live.question))
ShowLeaderboard(s)   == Saved(Untimed(s, "leaderboard", s.live.round, None))
ShowPodium(s) ==
  Saved(Untimed([s EXCEPT !.live.status = "running", !.timer = None], "podium", None, None))

AfterQuestion(s) ==
  LET x == Cursor(s.live)
  IN  IF ~IsLast(x) THEN OpenQuestion(s, <<x[1], x[2] + 1>>)
      ELSE IF ~IsLastRound(x[1]) THEN ShowLeaderboard(s)
      ELSE ShowPodium(s)

\* The session is over: its state leaves the memory with this step.
EndSession(s, status) ==
  Saved(Untimed([s EXCEPT !.live.status = status, !.timer = None], "ended", None, None))

----------------------------------------------------------------------------
VotesFor(play, option, voters) == Cardinality({v \in voters : play.votes[v] = option})

\* What an answer earned: its own rightness, or the votes it drew while it can be seen.
Earned(live, p) ==
  LET play == live.play
  IN  IF ~IsParty(play.at) THEN (IF play.answers[p].payload = "right" THEN 1 ELSE 0)
      ELSE IF p \in Visible(play)
           THEN VotesFor(play, p, {v \in Players : live.removed[v] = None})
           ELSE 0

\* What a question earned a player: their answer, and on Lie Detector their own vote.
PointsOf(live, p) ==
  (IF p \in Answered(live.play) THEN Earned(live, p) ELSE 0)
  + (IF live.play.votes[p] = Truth THEN 1 ELSE 0)

\* Only those who count for the scoring get their answer marked on a quiz round.
MarkedAnswer(live, p) ==
  LET answer == live.play.answers[p]
  IN  IF answer = None \/ (~IsParty(live.play.at) /\ p \notin EligibleNow(live)) THEN answer
      ELSE [answer EXCEPT !.points = Earned(live, p)]

ScoreQuestion(s) ==
  LET live == s.live
      present == EligibleNow(live)
      scored  == [live.play EXCEPT !.scored = TRUE, !.counted = present,
                                   !.answers = [p \in Players |-> MarkedAnswer(live, p)]]
  IN  IF live.play.scored THEN s
      ELSE [s EXCEPT !.live.play = scored,
                     !.live.score = [p \in Players |->
                        IF p \in present THEN live.score[p] + PointsOf(live, p)
                        ELSE live.score[p]]]

\* Slip: the points of the answers are saved, the players' scores are not.
SavePointsOnly(s) ==
  LET play == s.live.play
  IN  [s EXCEPT !.writes.question = play.at,
                !.writes.points = [p \in Answered(play) |-> play.answers[p].points]]

SaveScoring(s) ==
  LET play == s.live.play
  IN  [s EXCEPT !.writes.question = play.at,
                !.writes.points = [p \in Answered(play) |-> play.answers[p].points],
                !.writes.scores = [p \in play.counted |-> s.live.score[p]]]

RevealQuestion(s) ==
  LET t == ScoreQuestion(s)
      x == t.live.play.at
      i == EntryOf(t.live.log, x)
      u == [t EXCEPT !.live.log[i].revealed = t.live.phaseId + 1, !.live.hasScored = TRUE]
  IN  Saved(SaveScoring(Untimed(u, "reveal", x[1], x[2])))

StartVote(s) ==
  LET play    == s.live.play
      authors == Visible(play)
      options == authors \cup (IF KindOf(play.at) = "lie" THEN {Truth} ELSE {})
      t       == [s EXCEPT !.live.play.options = options,
                           !.writes.question = play.at, !.writes.shown = authors]
  IN  IF Cardinality(options) < 2 THEN RevealQuestion(t) ELSE Saved(Timed(t, "vote"))

AfterWrite(s) ==
  IF ReviewOn /\ Visible(s.live.play) # {}
  THEN Saved(Untimed(s, "review", s.live.round, s.live.question))
  ELSE StartVote(s)

\* Slips: it waits for them however late they are; it waits for nobody.
CloseWhenDone(s, waits) ==
  LET live == s.live
  IN  IF /\ waits /\ live.extraDeadline # None
         /\ \E p \in live.play.extra \cap EligibleNow(live) : ~Submitted(live, p)
      THEN [s EXCEPT !.timer = [id |-> live.phaseId, left |-> live.extraDeadline + Grace]]
      ELSE IF live.phase = "write" THEN AfterWrite(s) ELSE RevealQuestion(s)
CloseAtOnce(s, waits) ==
  IF s.live.phase = "write" THEN AfterWrite(s) ELSE RevealQuestion(s)

\* The timer waits for those with extra time; the host and the last submission do not.
CloseTimedPhase(s, waits) ==
  LET live == s.live
  IN  IF /\ waits
         /\ live.extraDeadline # None /\ live.extraDeadline > -Grace
         /\ \E p \in live.play.extra : Awaited(live, p)
      THEN [s EXCEPT !.timer = [id |-> live.phaseId, left |-> live.extraDeadline + Grace]]
      ELSE IF live.phase = "write" THEN AfterWrite(s) ELSE RevealQuestion(s)

CloseIfEveryoneDone(s) ==
  IF /\ s.live.status = "running" /\ PlayNow(s.live) /\ s.live.phase \in SubmissionPhases
     /\ ~\E p \in s.live.play.eligible : Awaited(s.live, p)
  THEN CloseTimedPhase(s, FALSE)
  ELSE s

HideAnswer(s, p) ==
  LET live   == s.live
      play   == live.play
      hidden == [play EXCEPT !.answers[p].hidden = TRUE]
      passed == IF play.favourite = p THEN [hidden EXCEPT !.favourite = None] ELSE hidden
      voided == [passed EXCEPT !.answers[p].points = 0]
  IN  IF live.phase = "review" \/ play.options = None THEN [s EXCEPT !.live.play = hidden]
      ELSE IF ~play.scored THEN [s EXCEPT !.live.play = passed]
      ELSE SaveScoring([s EXCEPT !.live.play = voided,
                                 !.live.score[p] = @ - play.answers[p].points])

----------------------------------------------------------------------------
(* host:next, by the phase it is sent in. *)
NextAllowed == Phases \ {"lobby", "ended"}

NextEffects(s) ==
  LET live == s.live
  IN  CASE live.phase = "round_intro" -> OpenQuestion(s, <<live.round, 1>>)
        [] live.phase = "read"        -> OpenAnswers(s)
        [] live.phase \in SubmissionPhases -> CloseTimedPhase(s, FALSE)
        [] live.phase = "review"      -> StartVote(s)
        [] live.phase = "reveal" /\ ~IsParty(Cursor(live)) -> ShowScores(s)
        [] live.phase = "reveal" /\ IsParty(Cursor(live))  -> AfterQuestion(s)
        [] live.phase = "scores"      -> AfterQuestion(s)
        [] live.phase = "leaderboard" -> OpenRoundIntro(s, live.round + 1)
        [] live.phase = "podium"      -> EndSession(s, "finished")

Skipped(s) ==
  LET i == EntryOf(s.live.log, s.live.play.at)
  IN  [s EXCEPT !.live.log[i].skipped = TRUE]

Paused(s) ==
  LET live    == [s.live EXCEPT !.status = "paused"]
      stopped == [live EXCEPT !.pausedLeft = live.deadline, !.pausedExtra = live.extraDeadline,
                              !.deadline = None, !.extraDeadline = None]
  IN  IF live.phase \in TimedPhases /\ live.deadline # None
      THEN Saved([s EXCEPT !.live = stopped, !.timer = None])
      ELSE Saved([s EXCEPT !.live = live])

\* The log less the entries of a question.
Without(log, x) ==
  LET kept[i \in 0..Len(log)] ==
        IF i = 0 THEN <<>>
        ELSE IF log[i].at = x THEN kept[i - 1]
        ELSE Append(kept[i - 1], log[i])
  IN  kept[Len(log)]

\* Slip: its place in the log is kept.
ReplayedLogged(s) ==
  LET x == Cursor(s.live)
  IN  OpenQuestion([s EXCEPT !.writes.question = x, !.writes.wipe = TRUE,
                             !.live.status = "running"], x)

\* The play was lost with the process: the question starts again from nothing.
Replayed(s) ==
  LET x == Cursor(s.live)
  IN  OpenQuestion([s EXCEPT !.writes.question = x, !.writes.wipe = TRUE,
                             !.live.log = Without(@, x),
                             !.live.status = "running"], x)

Resumed(s) ==
  LET live == s.live
      back == IF live.pausedLeft = None THEN live
              ELSE [live EXCEPT !.deadline = live.pausedLeft, !.extraDeadline = live.pausedExtra]
      on   == [back EXCEPT !.pausedLeft = None, !.pausedExtra = None,
                           !.recovery = FALSE, !.status = "running"]
  IN  Saved(Armed([s EXCEPT !.live = on]))

TimeAdded(s, time) ==
  LET live == s.live
      more == IF live.extraDeadline = None THEN None ELSE live.extraDeadline + time
  IN  Saved(Armed([s EXCEPT !.live.deadline = live.deadline + time, !.live.extraDeadline = more]))

Picked(play, p) == [play EXCEPT !.favourite = p, !.answers[p].points = @ + 1,
                                !.counted = @ \cup {p}]

\* Slip: the pick is shown and never saved.
FavouredUnsaved(s, p) ==
  [s EXCEPT !.live.play = Picked(@, p), !.live.score[p] = @ + 1]

Favoured(s, p) ==
  SaveScoring([s EXCEPT !.live.play = Picked(@, p), !.live.score[p] = @ + 1])

\* A phase timer that goes off in the phase it was armed for.
Elapsed(s) ==
  LET live == s.live
  IN  CASE live.phase = "read" /\ live.deadline > 0  -> Armed(s)
        [] live.phase = "read" /\ live.deadline <= 0 -> OpenAnswers(s)
        [] live.phase \in SubmissionPhases /\ live.deadline > -Grace -> Armed(s)
        [] live.phase \in SubmissionPhases /\ live.deadline <= -Grace ->
             CloseTimedPhase(s, TRUE)
        [] OTHER -> s
=============================================================================
