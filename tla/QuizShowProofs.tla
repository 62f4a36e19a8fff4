---------------------------- MODULE QuizShowProofs ----------------------------
(***************************************************************************)
(* What is proved of a Pulse Live session, for any players, any quiz and   *)
(* any times.                                                              *)
(***************************************************************************)
EXTENDS QuizShow, SumLemmas

(* The types of the memory, of a step of the engine, and of the rows. *)

PartOf(V)   == UNION {[S -> V] : S \in SUBSET Players}

Lives == [status    : Open \cup Closed,
          recovery  : BOOLEAN,
          play      : Maybe(Plays),
          hasScored : BOOLEAN,
          phase     : Phases,
          round     : Maybe(1..Len(Rounds)),
          question  : Maybe(Nat),
          phaseId   : Nat,
          log       : Seq(Entries),
          hostSeen  : BOOLEAN,
          deadline  : Maybe(Int), extraDeadline : Maybe(Int),
          pausedLeft : Maybe(Int), pausedExtra  : Maybe(Int),
          joined    : Positions,
          removed   : Positions,
          extraTime : [Players -> BOOLEAN],
          score     : [Players -> Int]]

\* The cursor stands where the phase can use it.
AtQuestion(r) == r.phase \in QuestionPhases \cup {"reveal", "scores"} => Cursor(r) \in Questions
AtRound(r)    == /\ r.phase = "round_intro" => r.round \in 1..Len(Rounds)
                 /\ r.phase = "leaderboard" => r.round \in 1..Len(Rounds) /\ r.round + 1 \in 1..Len(Rounds)
InLobby(r)    == r.status = "lobby" => r.phase = "lobby"
Placed(r)     == AtQuestion(r) /\ AtRound(r) /\ InLobby(r)

Rows == {r \in RowTypes : Placed(r)}

Writes == [question  : Maybe(Questions),
           wipe      : BOOLEAN,
           answers   : PartOf({"right", "wrong", "text"}),
           votes     : PartOf(PlayerVotes),
           shown     : SUBSET Players,
           hidden    : PartOf(BOOLEAN),
           points    : PartOf(Int),
           scores    : PartOf(Int),
           joined    : PartOf(Nat),
           removed   : PartOf(Nat),
           extraTime : PartOf(BOOLEAN),
           row       : Maybe(Rows)]

Timers == [id : Nat, left : Int]
Steps  == [live : Lives, timer : Maybe(Timers), writes : Writes, saves : BOOLEAN]

Stores == [row       : Rows,
           joined    : Positions,
           removed   : Positions,
           extraTime : [Players -> BOOLEAN],
           score     : [Players -> Int],
           answers   : [Questions -> [Players -> Maybe(AnswerRows)]],
           votes     : [Questions -> [Players -> Maybe(PlayerVotes)]],
           results   : BOOLEAN]

\* A question that can go on has its play, and a clock that runs or can run again.
Going(l)    == l.status = "running" \/ ~l.recovery
PlayKept(l) == l.phase \in QuestionPhases /\ Going(l) => l.play \in Plays
OnTheClock(l) ==
  /\ l.phase \in TimedPhases =>
       /\ l.status = "running" => l.deadline \in Int
       /\ l.status = "paused" /\ ~l.recovery => l.pausedLeft \in Int
  /\ l.phase \in SubmissionPhases =>
       /\ l.status = "running" => l.extraDeadline \in Int
       /\ l.status = "paused" /\ ~l.recovery => l.pausedExtra \in Int
LiveOK(l) == Placed(l) /\ PlayKept(l) /\ OnTheClock(l)

Core ==
  /\ live # None => live \in Lives /\ live.status \in Open /\ LiveOK(live)
  /\ timer \in Maybe(Timers)
  /\ queue \in Seq(Writes) /\ late \in Seq(Writes)
  /\ db \in Stores

----------------------------------------------------------------------------
(* The quiz. *)

LEMMA QuizFacts ==
  /\ Len(Rounds) \in Nat \ {0}
  /\ \A r \in 1..Len(Rounds) :
       Rounds[r].kind \in Kinds /\ Rounds[r].size \in Nat /\ Rounds[r].size > 0
<1> DEFINE Round == [kind : Kinds, size : Nat \ {0}]
<1>1. Rounds \in Seq(Round) /\ Rounds # <<>>
  BY QuizAssumption
<1>2. \A x \in Round : x.kind \in Kinds /\ x.size \in Nat /\ x.size > 0
  OBVIOUS
<1> HIDE DEF Round
<1> QED BY <1>1, <1>2

LEMMA QuestionIs ==
  ASSUME NEW x
  PROVE  x \in Questions <=> \E r \in 1..Len(Rounds) : \E k \in 1..Rounds[r].size : x = <<r, k>>
<1> SUFFICES \A r : {r} \X (1..Rounds[r].size) = {y \in {r} \X (1..Rounds[r].size) : \E k \in 1..Rounds[r].size : y = <<r, k>>}
  BY DEF Questions
<1> QED OBVIOUS

LEMMA QuestionPlace ==
  ASSUME NEW x \in Questions
  PROVE  /\ x[1] \in 1..Len(Rounds) /\ x[2] \in 1..Rounds[x[1]].size
         /\ x[2] \in Nat /\ Rounds[x[1]].size \in Nat
         /\ x = <<x[1], x[2]>>
<1>1. PICK r \in 1..Len(Rounds) : \E k \in 1..Rounds[r].size : x = <<r, k>>
  BY QuestionIs
<1> QED BY <1>1, QuizFacts

LEMMA FirstQuestion ==
  ASSUME NEW r \in 1..Len(Rounds)
  PROVE  <<r, 1>> \in Questions
BY QuestionIs, QuizFacts

LEMMA NextQuestion ==
  ASSUME NEW x \in Questions, ~IsLast(x)
  PROVE  <<x[1], x[2] + 1>> \in Questions
<1>1. x[2] + 1 \in 1..Rounds[x[1]].size
  BY QuestionPlace DEF IsLast
<1> QED BY <1>1, QuestionIs, QuestionPlace

----------------------------------------------------------------------------
(* Steps. *)

LEMMA NoWritesTyped == NoWrites \in Writes
<1>1. ASSUME NEW V PROVE <<>> \in PartOf(V)
  <2>1. <<>> \in [{} -> V] OBVIOUS
  <2> QED BY <2>1 DEF PartOf
<1> QED BY <1>1 DEF NoWrites, Writes, Maybe

LEMMA SavedFacts ==
  ASSUME NEW s \in Steps
  PROVE  /\ Saved(s) \in Steps /\ Saved(s).live = s.live /\ Saved(s).timer = s.timer
         /\ Saved(s).writes = s.writes /\ Saved(s).saves
BY DEF Saved, Steps

\* What Advance changes, and what it leaves alone.
Arrives(t, s, phase, round, question, time, extra) ==
  /\ t \in Steps /\ t.timer = s.timer /\ t.writes = s.writes /\ t.saves = s.saves
  /\ t.live.phaseId = s.live.phaseId + 1 /\ t.live.phase = phase
  /\ t.live.round = round /\ t.live.question = question
  /\ t.live.deadline = time /\ t.live.extraDeadline = extra /\ t.live.recovery = FALSE
  /\ t.live.status = s.live.status /\ t.live.play = s.live.play /\ t.live.log = s.live.log
  /\ t.live.score = s.live.score /\ t.live.joined = s.live.joined
  /\ t.live.removed = s.live.removed /\ t.live.extraTime = s.live.extraTime
  /\ t.live.hasScored = s.live.hasScored /\ t.live.hostSeen = s.live.hostSeen

LEMMA AdvanceFacts ==
  ASSUME NEW s \in Steps, NEW phase \in Phases,
         NEW round \in Maybe(1..Len(Rounds)), NEW question \in Maybe(Nat),
         NEW time \in Maybe(Int), NEW extra \in Maybe(Int)
  PROVE  Arrives(Advance(s, phase, round, question, time, extra),
                 s, phase, round, question, time, extra)
<1> DEFINE l == s.live
           a == [l EXCEPT !.phaseId = @ + 1, !.phase = phase, !.round = round,
                          !.question = question]
           b == [a EXCEPT !.deadline = time, !.extraDeadline = extra]
           c == [b EXCEPT !.pausedLeft = None, !.pausedExtra = None]
           m == [c EXCEPT !.recovery = FALSE]
           t == Advance(s, phase, round, question, time, extra)
<1>1. l \in Lives
  BY DEF Steps
<1>2. a \in Lives
  <2>1. l.phaseId + 1 \in Nat
    BY <1>1 DEF Lives
  <2> QED BY <1>1, <2>1 DEF Lives
<1>3. b \in Lives
  <2> HIDE DEF a
  <2> QED BY <1>2, Zenon DEF Lives
<1>4. c \in Lives
  <2> HIDE DEF b
  <2> QED BY <1>3, Zenon DEF Lives, Maybe
<1>5. m \in Lives
  <2> HIDE DEF c
  <2> QED BY <1>4, Zenon DEF Lives
<1>6. /\ m.phaseId = l.phaseId + 1 /\ m.phase = phase /\ m.round = round
      /\ m.question = question /\ m.deadline = time /\ m.extraDeadline = extra
      /\ m.recovery = FALSE /\ m.status = l.status /\ m.play = l.play /\ m.log = l.log
      /\ m.score = l.score /\ m.joined = l.joined /\ m.removed = l.removed
      /\ m.extraTime = l.extraTime /\ m.hasScored = l.hasScored /\ m.hostSeen = l.hostSeen
  BY <1>1 DEF Lives
<1>7. t = [s EXCEPT !.live = m]
  BY DEF Advance
<1> HIDE DEF l, m, t
<1>8. t \in Steps /\ t.live = m /\ t.timer = s.timer /\ t.writes = s.writes /\ t.saves = s.saves
  BY <1>5, <1>7 DEF Steps
<1> QED BY <1>6, <1>8 DEF l, Arrives, t

LEMMA ArmedFacts ==
  ASSUME NEW s \in Steps, NEW t, t = Armed(s)
  PROVE  t \in Steps /\ t.live = s.live /\ t.writes = s.writes /\ t.saves = s.saves
<1> DEFINE left == s.live.deadline + (IF s.live.phase = "read" THEN 0 ELSE Grace)
           timer1 == [id |-> s.live.phaseId, left |-> left]
<1>1. CASE s.live.deadline = None
  BY <1>1 DEF Armed
<1>2. CASE s.live.deadline # None
  <2>1. s.live.deadline \in Int /\ s.live.phaseId \in Nat
    BY <1>2 DEF Steps, Lives, Maybe
  <2>2. timer1 \in Timers
    BY <2>1, TimeAssumption DEF Timers
  <2>3. t = [s EXCEPT !.timer = timer1]
    BY <1>2 DEF Armed
  <2> HIDE DEF timer1
  <2> QED BY <2>2, <2>3 DEF Steps, Maybe
<1> QED BY <1>1, <1>2

\* A step the engine has taken: typed, and its state in order.
Good(s) == s \in Steps /\ LiveOK(s.live)

\* What a command of the engine leaves behind: a state in order that is to be saved.
Leaves(t, status) == Good(t) /\ t.saves /\ t.live.status = status

LEMMA WithLive ==
  ASSUME NEW s \in Steps, NEW m \in Lives, NEW t, t = [s EXCEPT !.live = m]
  PROVE  /\ t \in Steps /\ t.live = m /\ t.timer = s.timer /\ t.writes = s.writes
         /\ t.saves = s.saves
BY DEF Steps

LEMMA PhaseFacts ==
  /\ \A phase \in QuestionPhases \cup {"reveal", "scores"} : phase \in Phases
  /\ TimedPhases \subseteq QuestionPhases /\ SubmissionPhases \subseteq TimedPhases
BY DEF Phases, QuestionPhases, TimedPhases, SubmissionPhases

LEMMA NewPlayTyped ==
  ASSUME NEW l \in Lives, NEW x \in Questions
  PROVE  NewPlay(l, x) \in Plays
BY DEF NewPlay, Plays, Active, Maybe

LEMMA OpenQuestionGood ==
  ASSUME NEW s \in Steps, NEW x \in Questions, s.live.status = "running"
  PROVE  Leaves(OpenQuestion(s, x), "running")
<1> DEFINE u == OpenQuestion(s, x)
           entry == [at |-> x, opened |-> s.live.phaseId + 1, revealed |-> None, skipped |-> FALSE]
           play  == NewPlay(s.live, x)
           m     == [s.live EXCEPT !.play = play, !.log = Append(@, entry)]
           t     == [s EXCEPT !.live = m]
           a     == IF IsParty(x) THEN Advance(t, "write", x[1], x[2], AnswerTime, ExtraTime)
                    ELSE Advance(t, "read", x[1], x[2], ReadTime, None)
<1>1. s.live \in Lives
  BY DEF Steps
<1>2. play \in Plays
  BY <1>1, NewPlayTyped
<1>3. m \in Lives /\ m.play = play /\ m.status = "running"
  <2>1. entry \in Entries
    BY <1>1 DEF Entries, Lives, Maybe
  <2>2. Append(s.live.log, entry) \in Seq(Entries)
    BY <1>1, <2>1 DEF Lives
  <2> HIDE DEF entry, play
  <2>3. m \in Lives
    BY <1>1, <1>2, <2>2, Zenon DEF Lives, Maybe
  <2>4. m.play = play /\ m.status = s.live.status
    BY <1>1, Zenon DEF Lives
  <2> QED BY <2>3, <2>4
<1>4. t \in Steps /\ t.live = m
  BY <1>3, WithLive
<1>5. u = Saved(Armed(a))
  <2>1. t = [s EXCEPT !.live.play = play, !.live.log = Append(@, entry)]
    OBVIOUS
  <2> HIDE DEF m, play, entry
  <2> QED BY <2>1 DEF OpenQuestion, entry, play
<1>6. x[1] \in Maybe(1..Len(Rounds)) /\ x[2] \in Maybe(Nat) /\ x = <<x[1], x[2]>>
  BY QuestionPlace DEF Maybe
<1>7. /\ ReadTime \in Maybe(Int) /\ AnswerTime \in Maybe(Int) /\ ExtraTime \in Maybe(Int)
      /\ ReadTime \in Int /\ AnswerTime \in Int /\ ExtraTime \in Int /\ None \in Maybe(Int)
  BY TimeAssumption DEF Maybe
<1> HIDE DEF t, m, play
<1>8. /\ a \in Steps /\ a.live.status = "running" /\ a.live.play = play
      /\ Cursor(a.live) = x /\ a.live.deadline \in Int /\ a.live.recovery = FALSE
      /\ a.live.phase = "write" => a.live.extraDeadline \in Int
      /\ a.live.phase \in {"read", "write"}
  <2>1. CASE IsParty(x)
    <3>1. a = Advance(t, "write", x[1], x[2], AnswerTime, ExtraTime)
      BY <2>1
    <3>2. "write" \in Phases
      BY DEF Phases, QuestionPhases
    <3>3. Arrives(a, t, "write", x[1], x[2], AnswerTime, ExtraTime)
      BY <1>4, <1>6, <1>7, <3>1, <3>2, AdvanceFacts
    <3> HIDE DEF a
    <3> QED BY <1>3, <1>4, <1>6, <1>7, <3>3 DEF Cursor, Arrives
  <2>2. CASE ~IsParty(x)
    <3>1. a = Advance(t, "read", x[1], x[2], ReadTime, None)
      BY <2>2
    <3>2. "read" \in Phases
      BY DEF Phases, QuestionPhases
    <3>3. Arrives(a, t, "read", x[1], x[2], ReadTime, None)
      BY <1>4, <1>6, <1>7, <3>1, <3>2, AdvanceFacts
    <3> HIDE DEF a
    <3> QED BY <1>3, <1>4, <1>6, <1>7, <3>3 DEF Cursor, Arrives
  <2> QED BY <2>1, <2>2
<1> HIDE DEF a
<1>9. Armed(a) \in Steps /\ Armed(a).live = a.live
  BY <1>8, ArmedFacts
<1>10. u \in Steps /\ u.live = a.live /\ u.saves
  BY <1>5, <1>9, SavedFacts
<1>11. LiveOK(a.live)
  BY <1>2, <1>8
     DEF LiveOK, Placed, AtQuestion, AtRound, InLobby, PlayKept, OnTheClock, Going,
         TimedPhases, SubmissionPhases
<1> QED BY <1>8, <1>10, <1>11 DEF Good, Leaves

\* A phase without a clock.
LEMMA UntimedGood ==
  ASSUME NEW s \in Steps, NEW phase \in Phases, phase \notin TimedPhases,
         NEW round \in Maybe(1..Len(Rounds)), NEW question \in Maybe(Nat),
         s.live.status # "lobby",
         phase \in QuestionPhases \cup {"reveal", "scores"} => <<round, question>> \in Questions,
         phase \in QuestionPhases => s.live.play \in Plays,
         phase = "round_intro" => round \in 1..Len(Rounds),
         phase = "leaderboard" => round \in 1..Len(Rounds) /\ round + 1 \in 1..Len(Rounds)
  PROVE  /\ Good(Untimed(s, phase, round, question))
         /\ Untimed(s, phase, round, question).live.status = s.live.status
         /\ Untimed(s, phase, round, question).live.play = s.live.play
         /\ Untimed(s, phase, round, question).live.removed = s.live.removed
<1> DEFINE u == Untimed(s, phase, round, question)
<1> HIDE DEF u
<1>1. u = Advance(s, phase, round, question, None, None) /\ None \in Maybe(Int)
  BY DEF u, Untimed, Maybe
<1>2. /\ u \in Steps /\ u.live.status = s.live.status /\ u.live.play = s.live.play
      /\ u.live.phase = phase /\ u.live.round = round /\ u.live.question = question
      /\ u.live.removed = s.live.removed
  <2>1. Arrives(u, s, phase, round, question, None, None)
    BY <1>1, AdvanceFacts
  <2> QED BY <2>1 DEF Arrives
<1>3. LiveOK(u.live)
  BY <1>2, PhaseFacts
     DEF LiveOK, Placed, AtQuestion, AtRound, InLobby, PlayKept, OnTheClock, Cursor
<1> QED BY <1>2, <1>3 DEF Good, u

\* A phase of the question in play that its clock will end.
LEMMA TimedGood ==
  ASSUME NEW s \in Steps, NEW phase \in {"open", "vote"}, s.live.status = "running",
         s.live.play \in Plays, Cursor(s.live) \in Questions
  PROVE  /\ Good(Timed(s, phase)) /\ Timed(s, phase).live.status = "running"
         /\ Timed(s, phase).live.play = s.live.play
         /\ Timed(s, phase).live.removed = s.live.removed
<1> DEFINE u == Timed(s, phase)
           a == Advance(s, phase, s.live.round, s.live.question, AnswerTime, ExtraTime)
<1>1. /\ AnswerTime \in Maybe(Int) /\ ExtraTime \in Maybe(Int)
      /\ AnswerTime \in Int /\ ExtraTime \in Int /\ phase \in Phases
  BY TimeAssumption DEF Maybe, Phases, QuestionPhases
<1>2. s.live.round \in Maybe(1..Len(Rounds)) /\ s.live.question \in Maybe(Nat)
  BY DEF Steps, Lives
<1> HIDE DEF a, u
<1>3. /\ a \in Steps /\ a.live.status = "running" /\ a.live.play = s.live.play
      /\ a.live.phase = phase /\ a.live.round = s.live.round
      /\ a.live.question = s.live.question /\ a.live.deadline \in Int
      /\ a.live.extraDeadline \in Int /\ a.live.removed = s.live.removed
  <2>1. Arrives(a, s, phase, s.live.round, s.live.question, AnswerTime, ExtraTime)
    BY <1>1, <1>2, AdvanceFacts DEF a
  <2> QED BY <1>1, <2>1 DEF Arrives
<1>4. u = Armed(a)
  BY DEF Timed, a, u
<1>5. u \in Steps /\ u.live = a.live
  BY <1>3, <1>4, ArmedFacts
<1>6. LiveOK(a.live)
  BY <1>3
     DEF LiveOK, Placed, AtQuestion, AtRound, InLobby, PlayKept, OnTheClock, Cursor, Going
<1> QED BY <1>3, <1>5, <1>6 DEF Good, u

LEMMA SavedLeaves ==
  ASSUME NEW s, Good(s)
  PROVE  Leaves(Saved(s), s.live.status)
BY SavedFacts DEF Good, Leaves

LEMMA CursorTyped ==
  ASSUME NEW s \in Steps
  PROVE  /\ s.live \in Lives /\ s.live.round \in Maybe(1..Len(Rounds))
         /\ s.live.question \in Maybe(Nat)
         /\ None \in Maybe(1..Len(Rounds)) /\ None \in Maybe(Nat)
BY DEF Steps, Lives, Maybe

LEMMA OpenRoundIntroGood ==
  ASSUME NEW s \in Steps, s.live.status = "running", NEW r \in 1..Len(Rounds)
  PROVE  Leaves(OpenRoundIntro(s, r), "running")
<1> DEFINE u == Untimed(s, "round_intro", r, None)
<1>1. "round_intro" \in Phases /\ "round_intro" \notin TimedPhases \cup QuestionPhases
  BY DEF Phases, TimedPhases, QuestionPhases
<1>2. r \in Maybe(1..Len(Rounds)) /\ None \in Maybe(Nat)
  BY DEF Maybe
<1>3. Good(u) /\ u.live.status = "running"
  BY <1>1, <1>2, UntimedGood
<1> HIDE DEF u
<1> QED BY <1>3, SavedLeaves DEF OpenRoundIntro, u

LEMMA ShowScoresGood ==
  ASSUME NEW s \in Steps, s.live.status = "running", Cursor(s.live) \in Questions
  PROVE  Leaves(ShowScores(s), "running")
<1> DEFINE u == Untimed(s, "scores", s.live.round, s.live.question)
<1>1. "scores" \in Phases /\ "scores" \notin TimedPhases \cup QuestionPhases
  BY DEF Phases, TimedPhases, QuestionPhases
<1>2. <<s.live.round, s.live.question>> \in Questions
  BY DEF Cursor
<1>3. Good(u) /\ u.live.status = "running"
  BY <1>1, <1>2, CursorTyped, UntimedGood
<1>4. ShowScores(s) = Saved(u)
  BY DEF ShowScores
<1> HIDE DEF u
<1> QED BY <1>3, <1>4, SavedLeaves

LEMMA ShowLeaderboardGood ==
  ASSUME NEW s \in Steps, s.live.status = "running", s.live.round \in 1..Len(Rounds),
         ~IsLastRound(s.live.round)
  PROVE  Leaves(ShowLeaderboard(s), "running")
<1> DEFINE u == Untimed(s, "leaderboard", s.live.round, None)
<1>1. "leaderboard" \in Phases /\ "leaderboard" \notin TimedPhases \cup QuestionPhases
  BY DEF Phases, TimedPhases, QuestionPhases
<1>2. s.live.round + 1 \in 1..Len(Rounds)
  BY QuizFacts DEF IsLastRound
<1>3. Good(u) /\ u.live.status = "running"
  BY <1>1, <1>2, CursorTyped, UntimedGood
<1>4. ShowLeaderboard(s) = Saved(u)
  BY DEF ShowLeaderboard
<1> HIDE DEF u
<1> QED BY <1>3, <1>4, SavedLeaves

\* The status and the timer are set before a phase without a question is shown.
LEMMA StoppedFacts ==
  ASSUME NEW s \in Steps, NEW status \in Open \cup Closed,
         NEW t, t = [s EXCEPT !.live.status = status, !.timer = None]
  PROVE  t \in Steps /\ t.live.status = status
<1> DEFINE m == [s.live EXCEPT !.status = status]
<1>0. s.live \in Lives
  BY CursorTyped
<1>1. m \in Lives /\ m.status = status
  BY <1>0, Zenon DEF Lives
<1>2. t = [s EXCEPT !.live = m, !.timer = None]
  OBVIOUS
<1> HIDE DEF m
<1> QED BY <1>1, <1>2 DEF Steps, Maybe

LEMMA ShowPodiumGood ==
  ASSUME NEW s \in Steps
  PROVE  Leaves(ShowPodium(s), "running")
<1> DEFINE t == [s EXCEPT !.live.status = "running", !.timer = None]
           u == Untimed(t, "podium", None, None)
<1>1. "podium" \in Phases /\ "podium" \notin TimedPhases \cup QuestionPhases
  BY DEF Phases, TimedPhases, QuestionPhases
<1>2. t \in Steps /\ t.live.status = "running"
  <2>1. "running" \in Open \cup Closed
    BY DEF Open
  <2> QED BY <2>1, StoppedFacts, Zenon
<1>0. ShowPodium(s) = Saved(u)
  BY DEF ShowPodium
<1> HIDE DEF t
<1>3. Good(u) /\ u.live.status = "running"
  <2>1. None \in Maybe(1..Len(Rounds)) /\ None \in Maybe(Nat)
    BY DEF Maybe
  <2>2. "podium" \notin {"round_intro", "leaderboard", "reveal", "scores"}
    OBVIOUS
  <2> QED BY <1>1, <1>2, <2>1, <2>2, UntimedGood, Zenon
<1> HIDE DEF u
<1>4. Leaves(Saved(u), "running")
  BY <1>3, SavedLeaves
<1> QED BY <1>0, <1>4

LEMMA EndSessionGood ==
  ASSUME NEW s \in Steps, NEW status \in Closed
  PROVE  Leaves(EndSession(s, status), status)
<1> DEFINE t == [s EXCEPT !.live.status = status, !.timer = None]
           u == Untimed(t, "ended", None, None)
<1>1. "ended" \in Phases /\ "ended" \notin TimedPhases \cup QuestionPhases
  BY DEF Phases, TimedPhases, QuestionPhases
<1>2. t \in Steps /\ t.live.status = status /\ status # "lobby"
  <2>1. status \in Open \cup Closed /\ status # "lobby"
    BY DEF Closed
  <2> QED BY <2>1, StoppedFacts, Zenon
<1>0. EndSession(s, status) = Saved(u)
  BY DEF EndSession
<1> HIDE DEF t
<1>3. Good(u) /\ u.live.status = status
  <2>1. None \in Maybe(1..Len(Rounds)) /\ None \in Maybe(Nat)
    BY DEF Maybe
  <2>2. "ended" \notin {"round_intro", "leaderboard", "reveal", "scores"}
    OBVIOUS
  <2> QED BY <1>1, <1>2, <2>1, <2>2, UntimedGood, Zenon
<1> HIDE DEF u
<1>4. Leaves(Saved(u), status)
  BY <1>3, SavedLeaves
<1> QED BY <1>0, <1>4

LEMMA AfterQuestionGood ==
  ASSUME NEW s \in Steps, s.live.status = "running", Cursor(s.live) \in Questions
  PROVE  Leaves(AfterQuestion(s), "running")
<1> DEFINE x == Cursor(s.live)
<1>1. x[1] \in 1..Len(Rounds) /\ x[1] = s.live.round
  BY QuestionPlace DEF Cursor
<1>2. CASE ~IsLast(x)
  <2>1. <<x[1], x[2] + 1>> \in Questions
    BY <1>2, NextQuestion
  <2>2. AfterQuestion(s) = OpenQuestion(s, <<x[1], x[2] + 1>>)
    BY <1>2 DEF AfterQuestion
  <2> QED BY <2>1, <2>2, OpenQuestionGood
<1>3. CASE IsLast(x) /\ ~IsLastRound(x[1])
  BY <1>1, <1>3, ShowLeaderboardGood DEF AfterQuestion
<1>4. CASE IsLast(x) /\ IsLastRound(x[1])
  BY <1>4, ShowPodiumGood DEF AfterQuestion
<1> QED BY <1>2, <1>3, <1>4

\* A question is in play.
InPlay(s) == /\ s \in Steps /\ s.live.status = "running" /\ s.live.play \in Plays
             /\ Cursor(s.live) \in Questions

LEMMA OpenAnswersGood ==
  ASSUME NEW s, InPlay(s)
  PROVE  Leaves(OpenAnswers(s), "running")
<1>1. Good(Timed(s, "open")) /\ Timed(s, "open").live.status = "running"
  BY TimedGood DEF InPlay
<1> QED BY <1>1, SavedLeaves DEF OpenAnswers

----------------------------------------------------------------------------
(* Scoring. *)

LEMMA VotesForTyped ==
  ASSUME NEW play, NEW option, NEW voters \in SUBSET Players
  PROVE  VotesFor(play, option, voters) \in Nat
<1>1. IsFiniteSet(voters)
  BY PlayersAssumption, FS_Subset
<1> QED BY <1>1, FS_Subset, FS_CardinalityType DEF VotesFor

LEMMA EarnedTyped ==
  ASSUME NEW l, NEW p
  PROVE  Earned(l, p) \in Int
<1> DEFINE voters == {v \in Players : l.removed[v] = None}
<1>1. VotesFor(l.play, p, voters) \in Nat
  BY VotesForTyped
<1> HIDE DEF voters
<1> QED BY <1>1 DEF Earned, voters

LEMMA PointsOfTyped ==
  ASSUME NEW l, NEW p
  PROVE  PointsOf(l, p) \in Int
BY EarnedTyped DEF PointsOf

LEMMA MarkedAnswerTyped ==
  ASSUME NEW l \in Lives, l.play \in Plays, NEW p \in Players
  PROVE  /\ MarkedAnswer(l, p) \in Maybe(Answers)
         /\ l.play.answers[p] # None => MarkedAnswer(l, p) # None
<1>1. l.play.answers[p] \in Maybe(Answers)
  BY DEF Plays
<1>2. CASE l.play.answers[p] = None
  BY <1>2 DEF MarkedAnswer, Maybe
<1>3. CASE l.play.answers[p] # None
  <2>1. l.play.answers[p] \in Answers
    BY <1>1, <1>3 DEF Maybe
  <2>2. \A i \in Int : [l.play.answers[p] EXCEPT !.points = i] \in Answers
    BY <2>1 DEF Answers
  <2>3. MarkedAnswer(l, p) \in Answers
    BY <1>3, <2>1, <2>2, EarnedTyped DEF MarkedAnswer
  <2> QED BY <2>3, NoneAssumption DEF Maybe
<1> QED BY <1>2, <1>3

LEMMA LogTyped ==
  ASSUME NEW log \in Seq(Entries), NEW i
  PROVE  /\ \A v \in Maybe(Nat) : [log EXCEPT ![i].revealed = v] \in Seq(Entries)
         /\ \A b \in BOOLEAN : [log EXCEPT ![i].skipped = b] \in Seq(Entries)
<1>1. \A e \in Entries : /\ \A v \in Maybe(Nat) : [e EXCEPT !.revealed = v] \in Entries
                         /\ \A b \in BOOLEAN : [e EXCEPT !.skipped = b] \in Entries
  BY DEF Entries
<1>2. ASSUME NEW e, i \in DOMAIN log => e \in Entries
      PROVE  [log EXCEPT ![i] = e] \in Seq(Entries)
  <2> DEFINE n == Len(log)
             f == [j \in 1..n |-> IF j = i THEN e ELSE log[j]]
  <2>1. n \in Nat /\ log \in [1..n -> Entries] /\ [log EXCEPT ![i] = e] = f
    OBVIOUS
  <2>2. f \in [1..n -> Entries]
    BY <1>2, <2>1
  <2> HIDE DEF n, f
  <2>3. f \in Seq(Entries)
    BY <2>1, <2>2
  <2> QED BY <2>1, <2>3
<1>3. i \in DOMAIN log => log[i] \in Entries
  OBVIOUS
<1> QED BY <1>1, <1>2, <1>3


\* kept is what the filter of a log has kept after each of its first m entries.
KeptOver(kept, log, x, m) ==
  kept = [i \in 0..m |-> IF i = 0 THEN <<>>
                         ELSE IF log[i].at = x THEN kept[i - 1]
                         ELSE Append(kept[i - 1], log[i])]
KeptOf(log, x, m) == CHOOSE kept : KeptOver(kept, log, x, m)

LEMMA KeptExists ==
  ASSUME NEW log, NEW x, NEW n \in Nat
  PROVE  KeptOver(KeptOf(log, x, n), log, x, n)
<1> DEFINE C == {m \in Nat : ~KeptOver(KeptOf(log, x, m), log, x, m)}
<1>1. SUFFICES ASSUME C # {} PROVE FALSE
  <2>1. C = {} => KeptOver(KeptOf(log, x, n), log, x, n)
    OBVIOUS
  <2>. QED BY <2>1
<1>2. PICK m \in C : \A k \in C : m <= k
  <2>1. C \in SUBSET Nat
    OBVIOUS
  <2>. HIDE DEF C
  <2>. QED BY <1>1, <2>1, LeastNatural
<1>3. m # 0
  <2>1. ASSUME m = 0 PROVE FALSE
    <3> DEFINE f == [i \in 0..0 |-> <<>>]
    <3>1. KeptOver(f, log, x, 0)
      BY DEF KeptOver
    <3>2. KeptOver(KeptOf(log, x, 0), log, x, 0)
      BY <3>1 DEF KeptOf
    <3> QED BY <2>1, <3>2
  <2> QED BY <2>1
<1> DEFINE k == m - 1
           g == KeptOf(log, x, k)
           f == [i \in 0..m |-> IF i = m THEN IF log[m].at = x THEN g[k] ELSE Append(g[k], log[m])
                                ELSE g[i]]
<1>4. k \in Nat /\ ~(m <= k) /\ m \in Nat /\ m = k + 1
  BY <1>3
<1>5. KeptOver(g, log, x, k)
  <2>1. k \notin C
    BY <1>2, <1>4
  <2> QED BY <1>4, <2>1
<1> HIDE DEF g
<1>6. \A i \in 0..k : g[i] = IF i = 0 THEN <<>> ELSE IF log[i].at = x THEN g[i - 1]
                             ELSE Append(g[i - 1], log[i])
  BY <1>5 DEF KeptOver
<1>7. \A i \in 0..m : f[i] = IF i = 0 THEN <<>> ELSE IF log[i].at = x THEN f[i - 1]
                             ELSE Append(f[i - 1], log[i])
  <2> TAKE i \in 0..m
  <2>1. CASE i = m
    <3>1. f[i - 1] = g[k]
      BY <1>4, <2>1
    <3>2. f[i] = IF log[m].at = x THEN g[k] ELSE Append(g[k], log[m])
      BY <2>1
    <3> QED BY <1>3, <2>1, <3>1, <3>2
  <2>2. CASE i # m
    <3>1. i \in 0..k
      BY <1>4, <2>2
    <3>2. f[i] = g[i] /\ (i # 0 => f[i - 1] = g[i - 1])
      BY <1>4, <2>2
    <3> HIDE DEF f
    <3> QED BY <1>6, <3>1, <3>2
  <2> QED BY <2>1, <2>2
<1>8. KeptOver(f, log, x, m)
  <2>1. f = [i \in 0..m |-> f[i]]
    OBVIOUS
  <2> HIDE DEF f
  <2> QED BY <1>7, <2>1 DEF KeptOver
<1> HIDE DEF f
<1>9. KeptOver(KeptOf(log, x, m), log, x, m)
  BY <1>8 DEF KeptOf
<1> QED BY <1>2, <1>9

LEMMA WithoutTyped ==
  ASSUME NEW log \in Seq(Entries), NEW x
  PROVE  Without(log, x) \in Seq(Entries)
<1> DEFINE n == Len(log)
           f == KeptOf(log, x, n)
           C == {i \in 0..n : f[i] \notin Seq(Entries)}
<1>1. n \in Nat /\ KeptOver(f, log, x, n)
  BY KeptExists
<1>4. Without(log, x) = f[n]
  BY DEF Without, KeptOf, KeptOver
<1> HIDE DEF n, f
<1>2. ASSUME C # {} PROVE FALSE
  <2>1. PICK i \in C : \A k \in C : i <= k
    <3>1. C \in SUBSET Nat
      BY <1>1
    <3> HIDE DEF C
    <3> QED BY <1>2, <3>1, LeastNatural
  <2>2. f[i] = IF i = 0 THEN <<>> ELSE IF log[i].at = x THEN f[i - 1]
               ELSE Append(f[i - 1], log[i])
    BY <1>1 DEF KeptOver
  <2>7. f[i] \notin Seq(Entries) /\ i \in 0..n /\ <<>> \in Seq(Entries)
    OBVIOUS
  <2> HIDE DEF C
  <2>3. i # 0
    BY <2>2, <2>7
  <2>4. i - 1 \in 0..n /\ ~(i <= i - 1) /\ i \in 1..n
    BY <1>1, <2>3, <2>7
  <2>5. f[i - 1] \in Seq(Entries)
    BY <2>1, <2>4 DEF C
  <2>6. log[i] \in Entries
    BY <2>4 DEF n
  <2> QED BY <2>2, <2>3, <2>5, <2>6, <2>7
<1>3. n \in 0..n
  BY <1>1
<1> QED BY <1>2, <1>3, <1>4

\* The answers and votes that were given stay given, and who was removed stays so.
Keeps(s, t) ==
  /\ t.live.play.votes = s.live.play.votes /\ t.live.removed = s.live.removed
  /\ \A p \in Players : s.live.play.answers[p] # None => t.live.play.answers[p] # None

\* The same question in play, whatever it has earned meanwhile.
SamePlace(s, t) ==
  /\ t \in Steps /\ t.live.play \in Plays /\ t.live.play.at = s.live.play.at
  /\ t.live.status = s.live.status /\ t.live.phase = s.live.phase
  /\ t.live.phaseId = s.live.phaseId /\ Cursor(t.live) = Cursor(s.live)

LEMMA ScoreQuestionFacts ==
  ASSUME NEW s \in Steps, s.live.play \in Plays
  PROVE  SamePlace(s, ScoreQuestion(s)) /\ Keeps(s, ScoreQuestion(s))
<1> DEFINE here    == s.live
           present == EligibleNow(here)
           marked  == [p \in Players |-> MarkedAnswer(here, p)]
           score   == [p \in Players |-> IF p \in present THEN here.score[p] + PointsOf(here, p)
                                         ELSE here.score[p]]
           play    == [here.play EXCEPT !.scored = TRUE, !.counted = present, !.answers = marked]
           m       == [here EXCEPT !.play = play, !.score = score]
           t       == [s EXCEPT !.live = m]
<1>1. CASE here.play.scored
  BY <1>1 DEF ScoreQuestion, SamePlace, Keeps
<1>2. CASE ~here.play.scored
  <2>1. here \in Lives /\ here.score \in [Players -> Int]
    BY CursorTyped DEF Lives
  <2>2. marked \in [Players -> Maybe(Answers)]
    BY <2>1, MarkedAnswerTyped
  <2>3. score \in [Players -> Int]
    BY <2>1, PointsOfTyped
  <2>4. present \in SUBSET Players
    BY DEF EligibleNow, Active
  <2>5. ScoreQuestion(s) = [s EXCEPT !.live.play = play, !.live.score = score]
    BY <1>2 DEF ScoreQuestion
  <2>6. \A p \in Players : here.play.answers[p] # None => marked[p] # None
    BY <2>1, MarkedAnswerTyped
  <2> HIDE DEF marked, score, present
  <2>8. play \in Plays /\ play.at = here.play.at /\ play.votes = here.play.votes
        /\ play.answers = marked
    BY <2>2, <2>4 DEF Plays
  <2> HIDE DEF play
  <2>7. ScoreQuestion(s) = t
    BY <2>5
  <2>9. m \in Lives /\ m.play = play /\ m.status = here.status /\ m.phase = here.phase
        /\ m.phaseId = here.phaseId /\ m.round = here.round /\ m.question = here.question
        /\ m.removed = here.removed
    <3>1. m \in Lives
      BY <2>1, <2>3, <2>8, Zenon DEF Lives, Maybe
    <3> QED BY <2>1, <3>1, Zenon DEF Lives
  <2>10. t \in Steps /\ t.live = m
    BY <2>9, WithLive
  <2> HIDE DEF m, t
  <2> QED BY <2>6, <2>7, <2>8, <2>9, <2>10 DEF SamePlace, Keeps, Cursor
<1> QED BY <1>1, <1>2

\* Writes that go with a step leave its state as it is.
LEMMA WithWrites ==
  ASSUME NEW s \in Steps, NEW w \in Writes, NEW t, t = [s EXCEPT !.writes = w]
  PROVE  t \in Steps /\ t.live = s.live /\ t.timer = s.timer /\ t.saves = s.saves
BY DEF Steps

LEMMA SaveScoringFacts ==
  ASSUME NEW s \in Steps, s.live.play \in Plays
  PROVE  SaveScoring(s) \in Steps /\ SaveScoring(s).live = s.live
<1> DEFINE play   == s.live.play
           points == [p \in Answered(play) |-> play.answers[p].points]
           scores == [p \in play.counted |-> s.live.score[p]]
           w      == [s.writes EXCEPT !.question = play.at, !.points = points, !.scores = scores]
<1>1. points \in PartOf(Int)
  <2>1. Answered(play) \in SUBSET Players
    BY DEF Answered
  <2>2. \A p \in Answered(play) : play.answers[p] \in Answers
    BY DEF Answered, Plays, Maybe
  <2>3. \A p \in Answered(play) : play.answers[p].points \in Int
    BY <2>2 DEF Answers
  <2>4. points \in [Answered(play) -> Int]
    BY <2>3
  <2> QED BY <2>1, <2>4 DEF PartOf
<1>2. scores \in PartOf(Int)
  <2>1. play.counted \in SUBSET Players /\ s.live.score \in [Players -> Int]
    BY CursorTyped DEF Plays, Lives
  <2>2. scores \in [play.counted -> Int]
    BY <2>1
  <2> QED BY <2>1, <2>2 DEF PartOf
<1>3. play.at \in Maybe(Questions)
  BY DEF Plays, Maybe
<1>4. SaveScoring(s) = [s EXCEPT !.writes.question = play.at, !.writes.points = points,
                                 !.writes.scores = scores]
  BY DEF SaveScoring
<1> HIDE DEF play, points, scores
<1>5. w \in Writes
  BY <1>1, <1>2, <1>3 DEF Writes, Steps
<1>6. SaveScoring(s) = [s EXCEPT !.writes = w]
  BY <1>4
<1> QED BY <1>5, <1>6, WithWrites

LEMMA RevealQuestionGood ==
  ASSUME NEW s, InPlay(s)
  PROVE  Leaves(RevealQuestion(s), "running") /\ Keeps(s, RevealQuestion(s))
<1> DEFINE t == ScoreQuestion(s)
           x == t.live.play.at
           i == EntryOf(t.live.log, x)
           log == [t.live.log EXCEPT ![i].revealed = t.live.phaseId + 1]
           m == [t.live EXCEPT !.log = log, !.hasScored = TRUE]
           u == [t EXCEPT !.live = m]
           v == Untimed(u, "reveal", x[1], x[2])
           w == SaveScoring(v)
<1>1. SamePlace(s, t) /\ Keeps(s, t)
  BY ScoreQuestionFacts DEF InPlay
<1> HIDE DEF t
<1>2. t \in Steps /\ t.live \in Lives /\ t.live.play \in Plays /\ t.live.status = "running"
      /\ x \in Questions
  BY <1>1, CursorTyped DEF InPlay, SamePlace, Plays
<1>3. log \in Seq(Entries)
  <2>1. t.live.phaseId + 1 \in Maybe(Nat) /\ t.live.log \in Seq(Entries)
    BY <1>2 DEF Lives, Maybe
  <2> HIDE DEF i
  <2> QED BY <2>1, LogTyped
<1>4. RevealQuestion(s) = Saved(SaveScoring(Untimed(
         [t EXCEPT !.live.log[i].revealed = t.live.phaseId + 1, !.live.hasScored = TRUE],
         "reveal", x[1], x[2])))
  BY DEF RevealQuestion, t
<1>5. [t EXCEPT !.live.log[i].revealed = t.live.phaseId + 1, !.live.hasScored = TRUE] = u
  <2> HIDE DEF i
  <2> QED OBVIOUS
<1> HIDE DEF i, log, x
<1>6. m \in Lives /\ m.play = t.live.play /\ m.status = "running" /\ m.removed = t.live.removed
  BY <1>2, <1>3 DEF Lives
<1> HIDE DEF m
<1>7. u \in Steps /\ u.live = m
  BY <1>2, <1>6, WithLive
<1> HIDE DEF u
<1>8. /\ Good(v) /\ v.live.status = "running" /\ v.live.play = t.live.play
      /\ v.live.removed = t.live.removed
  <2>1. "reveal" \in Phases /\ "reveal" \notin TimedPhases \cup QuestionPhases
    BY DEF Phases, TimedPhases, QuestionPhases
  <2>2. x[1] \in Maybe(1..Len(Rounds)) /\ x[2] \in Maybe(Nat) /\ <<x[1], x[2]>> \in Questions
    BY <1>2, QuestionPlace DEF Maybe
  <2> QED BY <1>6, <1>7, <2>1, <2>2, UntimedGood
<1> HIDE DEF v
<1>9. w \in Steps /\ w.live = v.live
  BY <1>2, <1>8, SaveScoringFacts DEF Good
<1>10. RevealQuestion(s) = Saved(w)
  BY <1>4, <1>5 DEF v, w
<1> HIDE DEF w
<1>11. Good(w)
  BY <1>8, <1>9 DEF Good
<1>12. Leaves(Saved(w), "running") /\ Saved(w).live = w.live
  BY <1>8, <1>9, <1>11, SavedLeaves, SavedFacts
<1> QED BY <1>1, <1>8, <1>9, <1>10, <1>12 DEF Keeps

LEMMA StartVoteGood ==
  ASSUME NEW s, InPlay(s)
  PROVE  Leaves(StartVote(s), "running") /\ Keeps(s, StartVote(s))
<1> DEFINE play    == s.live.play
           authors == Visible(play)
           options == authors \cup (IF KindOf(play.at) = "lie" THEN {Truth} ELSE {})
           played  == [play EXCEPT !.options = options]
           m       == [s.live EXCEPT !.play = played]
           w       == [s.writes EXCEPT !.question = play.at, !.shown = authors]
           r       == [s EXCEPT !.live = m]
           t       == [r EXCEPT !.writes = w]
<1>1. s \in Steps /\ play \in Plays /\ s.live \in Lives
  BY CursorTyped DEF InPlay
<1>2. authors \in SUBSET Players /\ options \in Maybe(SUBSET PlayerVotes)
  BY DEF Visible, Answered, PlayerVotes, Maybe
<1>3. StartVote(s) = IF Cardinality(options) < 2
                     THEN RevealQuestion([s EXCEPT !.live.play.options = options,
                                            !.writes.question = play.at, !.writes.shown = authors])
                     ELSE Saved(Timed([s EXCEPT !.live.play.options = options,
                                         !.writes.question = play.at, !.writes.shown = authors], "vote"))
  BY DEF StartVote
<1> HIDE DEF authors, options
<1>4. played \in Plays /\ played.answers = play.answers /\ played.votes = play.votes
  BY <1>1, <1>2 DEF Plays
<1>5. w \in Writes
  <2>1. play.at \in Maybe(Questions)
    BY <1>1 DEF Plays, Maybe
  <2> HIDE DEF play
  <2> QED BY <1>1, <1>2, <2>1 DEF Steps, Writes
<1>6. [s EXCEPT !.live.play.options = options, !.writes.question = play.at,
                !.writes.shown = authors] = t
  BY <1>1 DEF Steps
<1> HIDE DEF played
<1>7. /\ m \in Lives /\ m.play = played /\ m.status = s.live.status
      /\ m.round = s.live.round /\ m.question = s.live.question
      /\ m.removed = s.live.removed
  <2>1. m \in Lives
    BY <1>1, <1>4, Zenon DEF Lives, Maybe
  <2> QED BY <1>1, <2>1, Zenon DEF Lives
<1> HIDE DEF m, w
<1>8. r \in Steps /\ r.live = m
  BY <1>1, <1>7, WithLive
<1> HIDE DEF r
<1>9. t \in Steps /\ t.live = m
  BY <1>5, <1>8, WithWrites
<1> HIDE DEF t
<1>10. InPlay(t) /\ Keeps(s, t)
  BY <1>4, <1>7, <1>9 DEF InPlay, Keeps, Cursor
<1>11. CASE Cardinality(options) < 2
  <2>1. StartVote(s) = RevealQuestion(t)
    BY <1>3, <1>6, <1>11
  <2>2. Leaves(RevealQuestion(t), "running") /\ Keeps(t, RevealQuestion(t))
    BY <1>10, RevealQuestionGood
  <2> QED BY <1>10, <2>1, <2>2 DEF Keeps
<1>12. CASE ~(Cardinality(options) < 2)
  <2> DEFINE u == Timed(t, "vote")
  <2>1. /\ Good(u) /\ u.live.status = "running" /\ u.live.play = t.live.play
        /\ u.live.removed = t.live.removed
    BY <1>10, TimedGood DEF InPlay
  <2>2. StartVote(s) = Saved(u)
    BY <1>3, <1>6, <1>12
  <2> HIDE DEF u
  <2>3. Leaves(Saved(u), "running") /\ Saved(u).live = u.live
    BY <2>1, SavedLeaves, SavedFacts DEF Good
  <2> QED BY <1>10, <2>1, <2>2, <2>3 DEF Keeps
<1> QED BY <1>11, <1>12

LEMMA AfterWriteGood ==
  ASSUME NEW s, InPlay(s)
  PROVE  Leaves(AfterWrite(s), "running") /\ Keeps(s, AfterWrite(s))
<1> DEFINE u == Untimed(s, "review", s.live.round, s.live.question)
<1>1. CASE ReviewOn /\ Visible(s.live.play) # {}
  <2>1. "review" \in Phases /\ "review" \notin TimedPhases
    BY DEF Phases, TimedPhases, QuestionPhases
  <2>2. <<s.live.round, s.live.question>> \in Questions /\ s \in Steps
    BY DEF InPlay, Cursor
  <2>3. /\ Good(u) /\ u.live.status = "running" /\ u.live.play = s.live.play
        /\ u.live.removed = s.live.removed
    BY <2>1, <2>2, CursorTyped, UntimedGood DEF InPlay
  <2>4. AfterWrite(s) = Saved(u)
    BY <1>1 DEF AfterWrite
  <2> HIDE DEF u
  <2>5. Leaves(Saved(u), "running") /\ Saved(u).live = u.live
    BY <2>3, SavedLeaves, SavedFacts DEF Good
  <2> QED BY <2>3, <2>4, <2>5 DEF Keeps
<1>2. CASE ~(ReviewOn /\ Visible(s.live.play) # {})
  BY <1>2, StartVoteGood DEF AfterWrite
<1> QED BY <1>1, <1>2

\* The timer alone changes.
LEMMA WithTimer ==
  ASSUME NEW s \in Steps, NEW left \in Int, NEW id \in Nat,
         NEW t, t = [s EXCEPT !.timer = [id |-> id, left |-> left]]
  PROVE  t \in Steps /\ t.live = s.live
<1> DEFINE timer1 == [id |-> id, left |-> left]
<1>1. timer1 \in Maybe(Timers)
  BY DEF Timers, Maybe
<1> HIDE DEF timer1
<1> QED BY <1>1 DEF Steps, timer1

\* Who is left to wait for when a phase is to close on time.
Waits(here, waits) ==
  /\ waits
  /\ here.extraDeadline # None /\ here.extraDeadline > -Grace
  /\ \E p \in here.play.extra : Awaited(here, p)

LEMMA CloseTimedPhaseGood ==
  ASSUME NEW s, InPlay(s), Good(s), NEW waits \in BOOLEAN
  PROVE  LET t == CloseTimedPhase(s, waits)
         IN  /\ Good(t) /\ t.live.status = "running" /\ Keeps(s, t)
             /\ Waits(s.live, waits) => t.live = s.live
<1> DEFINE t == CloseTimedPhase(s, waits)
<1> SUFFICES /\ Good(t) /\ t.live.status = "running" /\ Keeps(s, t)
             /\ Waits(s.live, waits) => t.live = s.live
  OBVIOUS
<1>1. CASE Waits(s.live, waits)
  <2>1. t = [s EXCEPT !.timer = [id |-> s.live.phaseId, left |-> s.live.extraDeadline + Grace]]
    BY <1>1 DEF CloseTimedPhase, Waits
  <2>2. s.live.phaseId \in Nat /\ s.live.extraDeadline + Grace \in Int /\ s \in Steps
    <3>1. s \in Steps /\ s.live \in Lives
      BY CursorTyped DEF InPlay
    <3> QED BY <1>1, <3>1, TimeAssumption DEF Waits, Lives, Maybe
  <2> HIDE DEF t
  <2>3. t \in Steps /\ t.live = s.live
    BY <2>1, <2>2, WithTimer
  <2> QED BY <2>3 DEF Good, Keeps, InPlay
<1>2. CASE ~Waits(s.live, waits)
  <2>1. t = IF s.live.phase = "write" THEN AfterWrite(s) ELSE RevealQuestion(s)
    BY <1>2 DEF CloseTimedPhase, Waits
  <2> HIDE DEF t
  <2> QED BY <1>2, <2>1, AfterWriteGood, RevealQuestionGood DEF Leaves
<1> QED BY <1>1, <1>2

----------------------------------------------------------------------------
(* What the host and the players do to the question in play. *)

\* The phase that is on, its place and its clock.
SameMoment(l, m) ==
  /\ m.status = l.status /\ m.phase = l.phase /\ m.phaseId = l.phaseId
  /\ m.round = l.round /\ m.question = l.question /\ m.recovery = l.recovery
  /\ m.deadline = l.deadline /\ m.extraDeadline = l.extraDeadline
  /\ m.pausedLeft = l.pausedLeft /\ m.pausedExtra = l.pausedExtra

LEMMA SameMomentOK ==
  ASSUME NEW l, NEW m, LiveOK(l), SameMoment(l, m), l.play \in Plays => m.play \in Plays
  PROVE  LiveOK(m)
BY DEF LiveOK, SameMoment, Placed, AtQuestion, AtRound, InLobby, PlayKept, Going, OnTheClock, Cursor

\* Only the play and the scores change.
Edits(s, t, play, score) ==
  /\ t \in Steps /\ t.live.play = play /\ t.live.score = score
  /\ t.timer = s.timer /\ t.writes = s.writes /\ t.saves = s.saves
  /\ SameMoment(s.live, t.live) /\ t.live.log = s.live.log /\ t.live.hasScored = s.live.hasScored
  /\ t.live.joined = s.live.joined /\ t.live.removed = s.live.removed
  /\ t.live.extraTime = s.live.extraTime /\ t.live.hostSeen = s.live.hostSeen

LEMMA EditFacts ==
  ASSUME NEW s \in Steps, NEW play \in Plays, NEW score \in [Players -> Int]
  PROVE  Edits(s, [s EXCEPT !.live = [s.live EXCEPT !.play = play, !.score = score]], play, score)
<1> DEFINE m == [s.live EXCEPT !.play = play, !.score = score]
           t == [s EXCEPT !.live = m]
<1>0. s.live \in Lives
  BY CursorTyped
<1>1. m \in Lives
  BY <1>0, Zenon DEF Lives, Maybe
<1>2. /\ m.play = play /\ m.score = score /\ SameMoment(s.live, m) /\ m.log = s.live.log
      /\ m.hasScored = s.live.hasScored /\ m.joined = s.live.joined
      /\ m.removed = s.live.removed /\ m.extraTime = s.live.extraTime
      /\ m.hostSeen = s.live.hostSeen
  BY CursorTyped DEF Lives, SameMoment
<1> HIDE DEF m
<1>3. t \in Steps /\ t.live = m /\ t.timer = s.timer /\ t.writes = s.writes /\ t.saves = s.saves
  BY <1>1, WithLive
<1> HIDE DEF t
<1>4. Edits(s, t, play, score)
  BY <1>2, <1>3 DEF Edits
<1> QED BY <1>4 DEF t, m

\* One answer changes.
LEMMA AnsweringFacts ==
  ASSUME NEW play \in Plays, NEW p \in Players, NEW answer \in Answers
  PROVE  LET a == [play EXCEPT !.answers[p] = answer]
         IN  /\ a \in Plays /\ a.at = play.at /\ a.votes = play.votes /\ a.eligible = play.eligible
             /\ a.extra = play.extra /\ a.options = play.options /\ a.favourite = play.favourite
             /\ a.scored = play.scored /\ a.counted = play.counted
             /\ a.answers = [play.answers EXCEPT ![p] = answer]
             /\ a.answers[p] = answer
<1> DEFINE answers == [play.answers EXCEPT ![p] = answer]
           a == [play EXCEPT !.answers = answers]
<1>1. answers \in [Players -> Maybe(Answers)] /\ answers[p] = answer
  BY DEF Plays, Maybe
<1>2. a = [play EXCEPT !.answers[p] = answer]
  OBVIOUS
<1> HIDE DEF answers
<1>3. /\ a \in Plays /\ a.at = play.at /\ a.votes = play.votes /\ a.eligible = play.eligible
      /\ a.extra = play.extra /\ a.options = play.options /\ a.favourite = play.favourite
      /\ a.scored = play.scored /\ a.counted = play.counted /\ a.answers = answers
  BY <1>1 DEF Plays
<1> HIDE DEF a
<1> QED BY <1>1, <1>2, <1>3 DEF answers


\* Nobody is waited for more or less than before.
SameRoom(l, m) ==
  /\ SameMoment(l, m) /\ m.joined = l.joined /\ m.removed = l.removed /\ m.play \in Plays
  /\ m.play.at = l.play.at /\ m.play.eligible = l.play.eligible /\ m.play.extra = l.play.extra
  /\ m.play.votes = l.play.votes
  /\ \A q \in Players : m.play.answers[q] # None <=> l.play.answers[q] # None

\* A play that differs from another only in what answers are worth or hidden.
SameAnswers(play, other) ==
  /\ other \in Plays /\ other.at = play.at /\ other.eligible = play.eligible
  /\ other.extra = play.extra /\ other.votes = play.votes
  /\ \A q \in Players : other.answers[q] # None <=> play.answers[q] # None

LEMMA EditRoom ==
  ASSUME NEW s \in Steps, s.live.play \in Plays, NEW play, SameAnswers(s.live.play, play),
         NEW t, NEW score, Edits(s, t, play, score)
  PROVE  t \in Steps /\ SameRoom(s.live, t.live)
BY DEF Edits, SameRoom, SameAnswers

LEMMA AnswerWith ==
  ASSUME NEW answer \in Answers
  PROVE  /\ answer.points \in Int
         /\ \A b \in BOOLEAN : [answer EXCEPT !.hidden = b] \in Answers
         /\ \A i \in Int : [answer EXCEPT !.points = i] \in Answers
BY DEF Answers

LEMMA Reworked ==
  ASSUME NEW play \in Plays, NEW p \in Players, play.answers[p] # None, NEW answer \in Answers
  PROVE  /\ SameAnswers(play, [play EXCEPT !.answers[p] = answer])
         /\ [play EXCEPT !.answers[p] = answer].answers[p] = answer
<1> DEFINE a == [play EXCEPT !.answers[p] = answer]
<1>1. /\ a \in Plays /\ a.at = play.at /\ a.votes = play.votes /\ a.eligible = play.eligible
      /\ a.extra = play.extra /\ a.answers = [play.answers EXCEPT ![p] = answer]
      /\ a.answers[p] = answer
  BY AnsweringFacts
<1>2. \A q \in Players : a.answers[q] # None <=> play.answers[q] # None
  BY <1>1, NoneAssumption DEF Plays
<1> HIDE DEF a
<1> QED BY <1>1, <1>2 DEF SameAnswers, a

LEMMA HideAnswerFacts ==
  ASSUME NEW s \in Steps, s.live.play \in Plays, NEW p \in Players,
         s.live.play.answers[p] # None
  PROVE  HideAnswer(s, p) \in Steps /\ SameRoom(s.live, HideAnswer(s, p).live)
<1> DEFINE here   == s.live
           play   == here.play
           hidden == [play EXCEPT !.answers[p].hidden = TRUE]
           passed == IF play.favourite = p THEN [hidden EXCEPT !.favourite = None] ELSE hidden
           voided == [passed EXCEPT !.answers[p].points = 0]
           score  == [here.score EXCEPT ![p] = @ - play.answers[p].points]
           t      == [s EXCEPT !.live = [here EXCEPT !.play = hidden, !.score = here.score]]
           u      == [s EXCEPT !.live = [here EXCEPT !.play = passed, !.score = here.score]]
           v      == [s EXCEPT !.live = [here EXCEPT !.play = voided, !.score = score]]
<1>1. play.answers[p] \in Answers /\ here.score \in [Players -> Int] /\ here \in Lives
  BY CursorTyped DEF Plays, Maybe, Lives
<1>2. score \in [Players -> Int]
  <2>1. here.score[p] - play.answers[p].points \in Int
    BY <1>1, AnswerWith
  <2> QED BY <1>1, <2>1
<1>3. SameAnswers(play, hidden) /\ hidden.answers[p] \in Answers
  <2> DEFINE a == [play.answers[p] EXCEPT !.hidden = TRUE]
  <2>1. a \in Answers
    BY <1>1, AnswerWith
  <2>2. hidden = [play EXCEPT !.answers[p] = a]
    OBVIOUS
  <2> HIDE DEF a, hidden
  <2>3. SameAnswers(play, hidden) /\ hidden.answers[p] = a
    BY <2>1, <2>2, Reworked
  <2> QED BY <2>1, <2>3
<1> HIDE DEF hidden
<1>4. SameAnswers(play, passed) /\ passed.answers[p] \in Answers
  <2>1. [hidden EXCEPT !.favourite = None] \in Plays
    BY <1>3 DEF SameAnswers, Plays, Maybe
  <2> QED BY <1>3, <2>1 DEF SameAnswers, Plays
<1> HIDE DEF passed
<1>5. SameAnswers(play, voided)
  <2> DEFINE a == [passed.answers[p] EXCEPT !.points = 0]
  <2>1. a \in Answers
    BY <1>4, AnswerWith
  <2>2. voided = [passed EXCEPT !.answers[p] = a]
    OBVIOUS
  <2>3. passed.answers[p] # None /\ passed \in Plays
    BY <1>4, NoneAssumption DEF SameAnswers
  <2> HIDE DEF a
  <2>4. SameAnswers(passed, voided)
    BY <2>1, <2>2, <2>3, Reworked
  <2> QED BY <1>4, <2>4 DEF SameAnswers
<1> HIDE DEF voided
<1>6. HideAnswer(s, p) = IF here.phase = "review" \/ play.options = None THEN t
                         ELSE IF ~play.scored THEN u ELSE SaveScoring(v)
  <2>1. HideAnswer(s, p) = IF here.phase = "review" \/ play.options = None
                           THEN [s EXCEPT !.live.play = hidden]
                           ELSE IF ~play.scored THEN [s EXCEPT !.live.play = passed]
                           ELSE SaveScoring([s EXCEPT !.live.play = voided,
                                       !.live.score[p] = @ - play.answers[p].points])
    BY DEF HideAnswer, hidden, passed, voided
  <2>2. \A pl : [s EXCEPT !.live.play = pl]
                 = [s EXCEPT !.live = [here EXCEPT !.play = pl, !.score = here.score]]
    BY <1>1 DEF Lives
  <2>3. [s EXCEPT !.live.play = voided, !.live.score[p] = @ - play.answers[p].points] = v
    OBVIOUS
  <2> HIDE DEF t, u, v
  <2>4. t = [s EXCEPT !.live.play = hidden] /\ u = [s EXCEPT !.live.play = passed]
    BY <2>2 DEF t, u
  <2> QED BY <2>1, <2>3, <2>4
<1>7. t \in Steps /\ SameRoom(here, t.live) /\ u \in Steps /\ SameRoom(here, u.live)
  BY <1>1, <1>3, <1>4, EditFacts, EditRoom DEF SameAnswers
<1>8. v \in Steps /\ SameRoom(here, v.live)
  BY <1>2, <1>5, EditFacts, EditRoom DEF SameAnswers
<1> HIDE DEF t, u, v
<1>9. SaveScoring(v) \in Steps /\ SaveScoring(v).live = v.live
  BY <1>8, SaveScoringFacts DEF SameRoom
<1> QED BY <1>6, <1>7, <1>8, <1>9

LEMMA InPlayHere ==
  ASSUME NEW s, Good(s), s.live.status = "running", s.live.phase \in QuestionPhases
  PROVE  InPlay(s)
BY DEF Good, InPlay, LiveOK, Placed, AtQuestion, PlayKept, Going

LEMMA CloseIfEveryoneDoneGood ==
  ASSUME NEW s, Good(s)
  PROVE  LET t == CloseIfEveryoneDone(s)
         IN  /\ Good(t)
             /\ t # s => /\ Keeps(s, t)
                         /\ ~\E p \in s.live.play.eligible : Awaited(s.live, p)
<1> DEFINE t == CloseIfEveryoneDone(s)
           done == /\ s.live.status = "running" /\ PlayNow(s.live)
                   /\ s.live.phase \in SubmissionPhases
                   /\ ~\E p \in s.live.play.eligible : Awaited(s.live, p)
<1>1. CASE done
  <2>1. InPlay(s)
    BY <1>1, InPlayHere, PhaseFacts
  <2>2. t = CloseTimedPhase(s, FALSE)
    BY <1>1 DEF CloseIfEveryoneDone
  <2> HIDE DEF t
  <2>3. Good(t) /\ Keeps(s, t)
    BY <2>1, <2>2, CloseTimedPhaseGood
  <2> QED BY <1>1, <2>3 DEF t
<1>2. CASE ~done
  BY <1>2 DEF CloseIfEveryoneDone
<1> QED BY <1>1, <1>2

LEMMA NextEffectsGood ==
  ASSUME NEW s, Good(s), s.live.status = "running", s.live.phase \in NextAllowed
  PROVE  Good(NextEffects(s))
<1> DEFINE here == s.live
<1>1. s \in Steps /\ here \in Lives
  BY CursorTyped DEF Good
<1>2. here.phase \in QuestionPhases => InPlay(s)
  BY InPlayHere
<1>3. here.phase \in {"reveal", "scores"} => Cursor(here) \in Questions
  BY DEF Good, LiveOK, Placed, AtQuestion
<1>4. CASE here.phase = "round_intro"
  <2>1. NextEffects(s) = OpenQuestion(s, <<here.round, 1>>)
    BY <1>4 DEF NextEffects, SubmissionPhases
  <2>2. here.round \in 1..Len(Rounds)
    BY <1>4 DEF Good, LiveOK, Placed, AtRound
  <2>3. <<here.round, 1>> \in Questions
    BY <2>2, FirstQuestion
  <2> QED BY <1>1, <2>1, <2>3, OpenQuestionGood DEF Leaves
<1>5. CASE here.phase = "read"
  <2>1. NextEffects(s) = OpenAnswers(s)
    BY <1>5 DEF NextEffects, SubmissionPhases
  <2> QED BY <1>2, <1>5, <2>1, OpenAnswersGood DEF Leaves, QuestionPhases
<1>6. CASE here.phase \in SubmissionPhases
  <2>1. NextEffects(s) = CloseTimedPhase(s, FALSE)
    BY <1>6 DEF NextEffects, SubmissionPhases
  <2>2. InPlay(s)
    BY <1>2, <1>6, PhaseFacts
  <2> QED BY <2>1, <2>2, CloseTimedPhaseGood
<1>7. CASE here.phase = "review"
  <2>1. NextEffects(s) = StartVote(s)
    BY <1>7 DEF NextEffects, SubmissionPhases
  <2> QED BY <1>2, <1>7, <2>1, StartVoteGood DEF Leaves, QuestionPhases
<1>8. CASE here.phase = "reveal"
  <2>1. NextEffects(s) = IF IsParty(Cursor(here)) THEN AfterQuestion(s) ELSE ShowScores(s)
    BY <1>8 DEF NextEffects, SubmissionPhases
  <2> QED BY <1>1, <1>3, <1>8, <2>1, AfterQuestionGood, ShowScoresGood DEF Leaves
<1>9. CASE here.phase = "scores"
  <2>1. NextEffects(s) = AfterQuestion(s)
    BY <1>9 DEF NextEffects, SubmissionPhases
  <2> QED BY <1>1, <1>3, <1>9, <2>1, AfterQuestionGood DEF Leaves
<1>10. CASE here.phase = "leaderboard"
  <2>1. NextEffects(s) = OpenRoundIntro(s, here.round + 1)
    BY <1>10 DEF NextEffects, SubmissionPhases
  <2>2. here.round + 1 \in 1..Len(Rounds)
    BY <1>10 DEF Good, LiveOK, Placed, AtRound
  <2> QED BY <1>1, <2>1, <2>2, OpenRoundIntroGood DEF Leaves
<1>11. CASE here.phase = "podium"
  <2>1. NextEffects(s) = EndSession(s, "finished")
    BY <1>11 DEF NextEffects, SubmissionPhases
  <2>2. "finished" \in Closed
    BY DEF Closed
  <2> QED BY <1>1, <2>1, <2>2, EndSessionGood DEF Leaves
<1> QED BY <1>4, <1>5, <1>6, <1>7, <1>8, <1>9, <1>10, <1>11
        DEF NextAllowed, Phases, QuestionPhases, SubmissionPhases

LEMMA SkippedFacts ==
  ASSUME NEW s \in Steps
  PROVE  /\ Skipped(s) \in Steps /\ Skipped(s).live.status = s.live.status
         /\ Cursor(Skipped(s).live) = Cursor(s.live)
<1> DEFINE i == EntryOf(s.live.log, s.live.play.at)
           log == [s.live.log EXCEPT ![i].skipped = TRUE]
           m == [s.live EXCEPT !.log = log]
           t == [s EXCEPT !.live = m]
<1>1. s.live \in Lives /\ s.live.log \in Seq(Entries)
  BY CursorTyped DEF Lives
<1>2. Skipped(s) = [s EXCEPT !.live.log[i].skipped = TRUE]
  BY DEF Skipped
<1> HIDE DEF i
<1>3. log \in Seq(Entries)
  BY <1>1, LogTyped
<1>4. Skipped(s) = t
  BY <1>2
<1> HIDE DEF log
<1>5. m \in Lives /\ m.status = s.live.status /\ m.round = s.live.round
      /\ m.question = s.live.question
  BY <1>1, <1>3 DEF Lives
<1> HIDE DEF m
<1>6. t \in Steps /\ t.live = m
  BY <1>5, WithLive
<1> QED BY <1>4, <1>5, <1>6 DEF Cursor

LEMMA PausedGood ==
  ASSUME NEW s, Good(s), s.live.status = "running"
  PROVE  Good(Paused(s))
<1> DEFINE here    == [s.live EXCEPT !.status = "paused"]
           stopped == [here EXCEPT !.pausedLeft = here.deadline, !.pausedExtra = here.extraDeadline,
                                   !.deadline = None, !.extraDeadline = None]
           t       == [s EXCEPT !.live = here]
           u       == [s EXCEPT !.live = stopped, !.timer = None]
           timed   == here.phase \in TimedPhases /\ here.deadline # None
<1>1. s \in Steps /\ s.live \in Lives /\ LiveOK(s.live)
  BY CursorTyped DEF Good
<1>2. /\ here \in Lives /\ here.status = "paused" /\ here.phase = s.live.phase
      /\ here.round = s.live.round /\ here.question = s.live.question
      /\ here.deadline = s.live.deadline /\ here.extraDeadline = s.live.extraDeadline
      /\ here.play = s.live.play
  BY <1>1 DEF Lives, Open
<1>3. Paused(s) = IF timed THEN Saved(u) ELSE Saved(t)
  BY DEF Paused
<1> HIDE DEF here
<1>4. /\ stopped \in Lives /\ stopped.status = "paused" /\ stopped.phase = s.live.phase
      /\ stopped.round = s.live.round /\ stopped.question = s.live.question
      /\ stopped.pausedLeft = s.live.deadline /\ stopped.pausedExtra = s.live.extraDeadline
      /\ stopped.play = s.live.play
  <2>1. stopped \in Lives
    BY <1>2, Zenon DEF Lives, Maybe
  <2> QED BY <1>2, <2>1, Zenon DEF Lives
<1> HIDE DEF stopped
<1>5. CASE timed
  <2>1. u \in Steps /\ u.live = stopped
    BY <1>1, <1>4 DEF Steps, Maybe
  <2>2. LiveOK(stopped)
    BY <1>1, <1>4, PhaseFacts
       DEF LiveOK, Placed, AtQuestion, AtRound, InLobby, PlayKept, Going, OnTheClock, Cursor
  <2> HIDE DEF u
  <2> QED BY <1>3, <1>5, <2>1, <2>2, SavedLeaves DEF Good, Leaves
<1>6. CASE ~timed
  <2>1. t \in Steps /\ t.live = here
    BY <1>1, <1>2, WithLive
  <2>2. here.phase \notin TimedPhases
    BY <1>1, <1>2, <1>6, NoneAssumption DEF LiveOK, OnTheClock
  <2>3. LiveOK(here)
    BY <1>1, <1>2, <2>2, PhaseFacts
       DEF LiveOK, Placed, AtQuestion, AtRound, InLobby, PlayKept, Going, OnTheClock, Cursor
  <2> HIDE DEF t
  <2> QED BY <1>3, <1>6, <2>1, <2>3, SavedLeaves DEF Good, Leaves
<1> QED BY <1>5, <1>6

LEMMA ReplayedGood ==
  ASSUME NEW s, Good(s), s.live.phase \in QuestionPhases
  PROVE  Good(Replayed(s))
<1> DEFINE x   == Cursor(s.live)
           log == Without(s.live.log, x)
           m   == [s.live EXCEPT !.log = log, !.status = "running"]
           w   == [s.writes EXCEPT !.question = x, !.wipe = TRUE]
           r   == [s EXCEPT !.live = m]
           t   == [r EXCEPT !.writes = w]
<1>1. s \in Steps /\ s.live \in Lives /\ x \in Questions /\ s.writes \in Writes
  BY CursorTyped DEF Good, LiveOK, Placed, AtQuestion, Steps
<1>2. log \in Seq(Entries)
  BY <1>1, WithoutTyped DEF Lives
<1>3. Replayed(s) = OpenQuestion([s EXCEPT !.writes.question = x, !.writes.wipe = TRUE,
                                           !.live.log = log, !.live.status = "running"], x)
  BY DEF Replayed
<1> HIDE DEF log, x
<1>4. [s EXCEPT !.writes.question = x, !.writes.wipe = TRUE,
                !.live.log = log, !.live.status = "running"] = t
  BY <1>1 DEF Steps
<1>5. m \in Lives /\ m.status = "running"
  BY <1>1, <1>2 DEF Lives, Open
<1>6. w \in Writes
  BY <1>1 DEF Writes, Maybe
<1> HIDE DEF m, w
<1>7. r \in Steps /\ r.live = m
  BY <1>1, <1>5, WithLive
<1> HIDE DEF r
<1>8. t \in Steps /\ t.live = m
  BY <1>6, <1>7, WithWrites
<1> HIDE DEF t
<1> QED BY <1>1, <1>3, <1>4, <1>5, <1>8, OpenQuestionGood DEF Leaves

LEMMA ResumedGood ==
  ASSUME NEW s, Good(s), s.live.status = "paused",
         ~(s.live.recovery /\ s.live.phase \in QuestionPhases)
  PROVE  Good(Resumed(s))
<1> DEFINE here == s.live
           moved == [here EXCEPT !.deadline = here.pausedLeft, !.extraDeadline = here.pausedExtra]
           back == IF here.pausedLeft = None THEN here ELSE moved
           on   == [back EXCEPT !.pausedLeft = None, !.pausedExtra = None,
                                !.recovery = FALSE, !.status = "running"]
           t    == [s EXCEPT !.live = on]
<1>1. s \in Steps /\ here \in Lives /\ LiveOK(here)
  BY CursorTyped DEF Good
<1>2. /\ moved \in Lives /\ moved.status = here.status /\ moved.phase = here.phase
      /\ moved.round = here.round /\ moved.question = here.question /\ moved.play = here.play
      /\ moved.deadline = here.pausedLeft /\ moved.extraDeadline = here.pausedExtra
  BY <1>1 DEF Lives
<1> HIDE DEF moved
<1>3. /\ back \in Lives /\ back.phase = here.phase /\ back.round = here.round
      /\ back.question = here.question /\ back.play = here.play
      /\ here.phase \in TimedPhases => back.deadline \in Int
      /\ here.phase \in SubmissionPhases => back.extraDeadline \in Int
  BY <1>1, <1>2, NoneAssumption, PhaseFacts DEF LiveOK, OnTheClock
<1>4. Resumed(s) = Saved(Armed(t))
  BY DEF Resumed, moved
<1> HIDE DEF back
<1>5. /\ on \in Lives /\ on.status = "running" /\ on.phase = here.phase
      /\ on.round = here.round /\ on.question = here.question /\ on.play = here.play
      /\ on.deadline = back.deadline /\ on.extraDeadline = back.extraDeadline
      /\ on.recovery = FALSE
  <2>1. on \in Lives
    BY <1>3, Zenon DEF Lives, Maybe, Open
  <2> QED BY <1>3, <2>1, Zenon DEF Lives
<1> HIDE DEF on
<1>6. t \in Steps /\ t.live = on
  BY <1>1, <1>5, WithLive
<1> HIDE DEF t
<1>7. LiveOK(on)
  BY <1>1, <1>3, <1>5, PhaseFacts
     DEF LiveOK, Placed, AtQuestion, AtRound, InLobby, PlayKept, Going, OnTheClock, Cursor
<1>8. Good(Armed(t))
  BY <1>6, <1>7, ArmedFacts DEF Good
<1> QED BY <1>4, <1>8, SavedLeaves DEF Leaves

LEMMA TimeAddedGood ==
  ASSUME NEW s, Good(s), s.live.deadline # None, NEW time \in Int
  PROVE  Good(TimeAdded(s, time))
<1> DEFINE here == s.live
           more == IF here.extraDeadline = None THEN None ELSE here.extraDeadline + time
           m    == [here EXCEPT !.deadline = here.deadline + time, !.extraDeadline = more]
           t    == [s EXCEPT !.live = m]
<1>1. s \in Steps /\ here \in Lives /\ LiveOK(here)
  BY CursorTyped DEF Good
<1>2. here.deadline + time \in Int /\ more \in Maybe(Int)
      /\ (here.extraDeadline \in Int => more \in Int)
  BY <1>1, NoneAssumption DEF Lives, Maybe
<1>3. TimeAdded(s, time) = Saved(Armed(
         [s EXCEPT !.live.deadline = here.deadline + time, !.live.extraDeadline = more]))
  BY DEF TimeAdded
<1> HIDE DEF more
<1>4. [s EXCEPT !.live.deadline = here.deadline + time, !.live.extraDeadline = more] = t
  OBVIOUS
<1>5. /\ m \in Lives /\ m.status = here.status /\ m.phase = here.phase
      /\ m.round = here.round /\ m.question = here.question /\ m.play = here.play
      /\ m.deadline = here.deadline + time /\ m.extraDeadline = more
      /\ m.recovery = here.recovery
      /\ m.pausedLeft = here.pausedLeft /\ m.pausedExtra = here.pausedExtra
  <2>1. here.deadline + time \in Maybe(Int)
    BY <1>2 DEF Maybe
  <2> QED BY <1>1, <1>2, <2>1 DEF Lives
<1> HIDE DEF m
<1>6. t \in Steps /\ t.live = m
  BY <1>1, <1>5, WithLive
<1> HIDE DEF t
<1>7. LiveOK(m)
  BY <1>1, <1>2, <1>5, PhaseFacts
     DEF LiveOK, Placed, AtQuestion, AtRound, InLobby, PlayKept, Going, OnTheClock, Cursor
<1>8. Good(Armed(t))
  BY <1>6, <1>7, ArmedFacts DEF Good
<1> QED BY <1>3, <1>4, <1>8, SavedLeaves DEF Leaves

LEMMA FavouredGood ==
  ASSUME NEW s, Good(s), s.live.play \in Plays, NEW p \in Players,
         s.live.play.answers[p] # None
  PROVE  Good(Favoured(s, p))
<1> DEFINE play   == s.live.play
           answer == [play.answers[p] EXCEPT !.points = @ + 1]
           one    == [play EXCEPT !.answers[p] = answer]
           picked == [one EXCEPT !.favourite = p, !.counted = @ \cup {p}]
           score  == [s.live.score EXCEPT ![p] = @ + 1]
           t      == [s EXCEPT !.live = [s.live EXCEPT !.play = picked, !.score = score]]
<1>1. s \in Steps /\ s.live \in Lives /\ LiveOK(s.live)
  BY CursorTyped DEF Good
<1>2. play.answers[p] \in Answers
  BY DEF Plays, Maybe
<1>3. answer \in Answers
  <2>1. play.answers[p].points + 1 \in Int
    BY <1>2, AnswerWith
  <2> QED BY <1>2, <2>1, AnswerWith
<1>4. score \in [Players -> Int]
  BY <1>1 DEF Lives
<1>5. Picked(play, p) = picked
  BY DEF Picked, Plays
<1>6. Favoured(s, p) = SaveScoring([s EXCEPT !.live.play = Picked(play, p), !.live.score[p] = @ + 1])
  BY DEF Favoured
<1> HIDE DEF answer
<1>7. one \in Plays
  BY <1>3, AnsweringFacts
<1> HIDE DEF one
<1>8. picked \in Plays
  BY <1>7 DEF Plays, Maybe
<1> HIDE DEF picked, play
<1>9. [s EXCEPT !.live.play = Picked(play, p), !.live.score[p] = @ + 1] = t
  BY <1>5
<1> HIDE DEF score
<1>10. Edits(s, t, picked, score)
  BY <1>1, <1>4, <1>8, EditFacts
<1> HIDE DEF t
<1>11. t \in Steps /\ t.live.play \in Plays /\ LiveOK(t.live)
  BY <1>1, <1>8, <1>10, SameMomentOK DEF Edits
<1>12. SaveScoring(t) \in Steps /\ SaveScoring(t).live = t.live
  BY <1>11, SaveScoringFacts
<1> QED BY <1>6, <1>9, <1>11, <1>12 DEF Good

LEMMA ElapsedGood ==
  ASSUME NEW s, Good(s), s.live.status = "running"
  PROVE  LET t == Elapsed(s)
         IN  /\ Good(t)
             /\ \/ t.live = s.live
                \/ s.live.phase \notin SubmissionPhases
                \/ /\ s.live.deadline <= -Grace /\ ~Waits(s.live, TRUE)
<1> DEFINE t == Elapsed(s)
           here == s.live
<1> SUFFICES /\ Good(t)
             /\ \/ t.live = s.live
                \/ s.live.phase \notin SubmissionPhases
                \/ /\ s.live.deadline <= -Grace /\ ~Waits(s.live, TRUE)
  OBVIOUS
<1>1. s \in Steps /\ here \in Lives /\ LiveOK(here)
  BY CursorTyped DEF Good
<1>2. Good(Armed(s)) /\ Armed(s).live = here
  BY <1>1, ArmedFacts DEF Good
<1>3. CASE here.phase = "read"
  <2>1. here.deadline \in Int
    BY <1>1, <1>3 DEF LiveOK, OnTheClock, TimedPhases
  <2>2. t = Armed(s) \/ t = OpenAnswers(s)
    BY <1>3, <2>1 DEF Elapsed, SubmissionPhases
  <2>3. InPlay(s) /\ here.phase \notin SubmissionPhases
    BY <1>3, InPlayHere DEF QuestionPhases, SubmissionPhases
  <2> HIDE DEF t
  <2> QED BY <1>2, <2>2, <2>3, OpenAnswersGood DEF Leaves
<1>4. CASE here.phase \in SubmissionPhases
  <2>1. here.deadline \in Int
    BY <1>1, <1>4, PhaseFacts DEF LiveOK, OnTheClock
  <2>2. t = Armed(s) \/ (here.deadline <= -Grace /\ t = CloseTimedPhase(s, TRUE))
    <3>1. here.phase # "read" /\ (here.deadline > -Grace <=> ~(here.deadline <= -Grace))
      BY <1>4, <2>1, TimeAssumption DEF SubmissionPhases
    <3>2. CASE here.deadline <= -Grace
      BY <1>4, <3>1, <3>2 DEF Elapsed
    <3>3. CASE here.deadline > -Grace
      BY <1>4, <3>1, <3>3 DEF Elapsed
    <3> HIDE DEF t
    <3> QED BY <3>1, <3>2, <3>3
  <2>3. InPlay(s)
    BY <1>4, InPlayHere, PhaseFacts
  <2>4. Good(CloseTimedPhase(s, TRUE))
        /\ (Waits(here, TRUE) => CloseTimedPhase(s, TRUE).live = here)
    BY <2>3, CloseTimedPhaseGood
  <2> HIDE DEF t
  <2> QED BY <1>2, <2>2, <2>4
<1>5. CASE here.phase \notin SubmissionPhases \cup {"read"}
  <2>1. t = s
    BY <1>5 DEF Elapsed
  <2> QED BY <2>1
<1> QED BY <1>3, <1>4, <1>5

----------------------------------------------------------------------------
(* The commands as steps of the session. *)

LEMMA PartTyped ==
  ASSUME NEW V, NEW p \in Players, NEW v \in V
  PROVE  Only(p, v) \in PartOf(V)
<1>1. Only(p, v) \in [{p} -> V] /\ {p} \in SUBSET Players
  BY DEF Only
<1> QED BY <1>1 DEF PartOf

LEMMA BatchTyped ==
  ASSUME NEW s, Good(s)
  PROVE  Batch(s) \in Writes
<1> DEFINE row == IF s.saves THEN Row(s.live) ELSE None
<1>1. s \in Steps /\ s.live \in Lives /\ LiveOK(s.live) /\ s.writes \in Writes
  BY CursorTyped DEF Good, Steps
<1>2. Row(s.live) \in RowTypes
  BY <1>1 DEF Row, RowTypes, Lives
<1>3. Placed(Row(s.live))
  BY <1>1 DEF Row, LiveOK, Placed, AtQuestion, AtRound, InLobby, Cursor
<1>4. row \in Maybe(Rows)
  BY <1>2, <1>3 DEF Rows, Maybe
<1>5. Batch(s) = [s.writes EXCEPT !.row = row]
  BY DEF Batch
<1> HIDE DEF row
<1> QED BY <1>1, <1>4, <1>5 DEF Writes

LEMMA ExecuteCore ==
  ASSUME Core, NEW s, Good(s), Execute(s)
  PROVE  Core'
<1>1. s \in Steps /\ s.live \in Lives /\ LiveOK(s.live) /\ s.timer \in Maybe(Timers)
  BY CursorTyped DEF Good, Steps
<1>2. live' # None => live' = s.live /\ s.live.status \in Open
  BY <1>1 DEF Execute, Lives
<1>3. queue' \in Seq(Writes)
  <2>1. Batch(s) \in Writes
    BY BatchTyped
  <2>2. queue' = queue \/ queue' = Append(queue, Batch(s))
    BY DEF Execute
  <2> QED BY <2>1, <2>2 DEF Core
<1>4. timer' \in Maybe(Timers) /\ late' = late /\ db' = db
  BY <1>1 DEF Execute
<1> QED BY <1>1, <1>2, <1>3, <1>4 DEF Core

LEMMA StepFromFacts ==
  ASSUME Core, live # None, NEW time \in Maybe(Timers)
  PROVE  /\ Good(StepFrom(live, time)) /\ StepFrom(live, time) \in Steps
         /\ StepFrom(live, time).live = live /\ live \in Lives
         /\ StepFrom(live, time).writes = NoWrites
BY NoWritesTyped DEF Core, StepFrom, Steps, Good

\* All that a command finds, the host's presence aside.
Finds(l, m) ==
  /\ SameMoment(l, m) /\ m.play = l.play /\ m.removed = l.removed /\ m.joined = l.joined
  /\ m.extraTime = l.extraTime /\ m.score = l.score /\ m.log = l.log
  /\ m.hasScored = l.hasScored

LEMMA BegunFacts ==
  ASSUME Core, live # None
  PROVE  Good(Begun) /\ Begun \in Steps /\ Finds(live, Begun.live)
<1> DEFINE s == StepFrom(live, timer)
           m == [live EXCEPT !.hostSeen = TRUE]
           t == [s EXCEPT !.live = m]
<1>1. Good(s) /\ s \in Steps /\ s.live = live /\ live \in Lives
  BY StepFromFacts DEF Core
<1>2. m \in Lives /\ Finds(live, m)
  BY <1>1 DEF Lives, Finds, SameMoment
<1>3. Begun = t
  BY <1>1 DEF Begun, Noted
<1> HIDE DEF s, m
<1>4. t \in Steps /\ t.live = m
  BY <1>1, <1>2, WithLive
<1>5. LiveOK(m)
  BY <1>1, <1>2, SameMomentOK DEF Good, Finds
<1> QED BY <1>2, <1>3, <1>4, <1>5 DEF Good

LEMMA SavedGood ==
  ASSUME NEW s, Good(s)
  PROVE  Good(Saved(s))
BY SavedLeaves DEF Leaves

LEMMA HostDoesCore ==
  ASSUME Core, NEW s, Good(s), HostDoes(s)
  PROVE  Core'
BY SavedGood, ExecuteCore DEF HostDoes

LEMMA HostRepeatsCore == Core /\ HostRepeats => Core'
BY BegunFacts, SavedGood, ExecuteCore DEF HostRepeats, Tap, Ready

LEMMA HostRefusedCore == Core /\ HostRefused => Core'
BY BegunFacts, ExecuteCore DEF HostRefused, Tap, Ready

LEMMA WithStatus ==
  ASSUME NEW s \in Steps, NEW status \in Open \cup Closed
  PROVE  /\ [s EXCEPT !.live.status = status] \in Steps
         /\ [s EXCEPT !.live.status = status].live.status = status
<1> DEFINE m == [s.live EXCEPT !.status = status]
           t == [s EXCEPT !.live = m]
<1>0. s.live \in Lives
  BY CursorTyped
<1>1. m \in Lives /\ m.status = status
  BY <1>0, Zenon DEF Lives
<1>2. [s EXCEPT !.live.status = status] = t
  OBVIOUS
<1> HIDE DEF m
<1>3. t \in Steps /\ t.live = m
  BY <1>1, WithLive
<1> QED BY <1>1, <1>2, <1>3

LEMMA HostStartCore == Core /\ HostStart => Core'
<1> SUFFICES ASSUME Core, HostStart PROVE Core'
  OBVIOUS
<1> DEFINE s == [Begun EXCEPT !.live.status = "running"]
<1>1. Begun \in Steps
  BY BegunFacts DEF HostStart, Ready
<1>2. s \in Steps /\ s.live.status = "running"
  BY <1>1, WithStatus DEF Open
<1>3. HostDoes(OpenRoundIntro(s, 1))
  BY DEF HostStart
<1> HIDE DEF s
<1>4. Good(OpenRoundIntro(s, 1))
  BY <1>2, QuizFacts, OpenRoundIntroGood DEF Leaves
<1> QED BY <1>3, <1>4, HostDoesCore

LEMMA HostNextCore == Core /\ HostNext => Core'
BY BegunFacts, NextEffectsGood, HostDoesCore DEF HostNext, Ready, Finds, SameMoment

LEMMA HostRevealCore == Core /\ HostReveal => Core'
<1> SUFFICES ASSUME Core, HostReveal PROVE Core'
  OBVIOUS
<1>1. Good(Begun) /\ Begun.live.status = "running" /\ Begun.live.phase \in QuestionPhases
  BY BegunFacts DEF HostReveal, Ready, Finds, SameMoment, QuestionPhases
<1>2. Good(CloseTimedPhase(Begun, FALSE))
  BY <1>1, InPlayHere, CloseTimedPhaseGood
<1> QED BY <1>2, HostDoesCore DEF HostReveal

LEMMA HostSkipCore == Core /\ HostSkip => Core'
<1> SUFFICES ASSUME Core, HostSkip PROVE Core'
  OBVIOUS
<1>1. /\ Good(Begun) /\ Begun \in Steps /\ Begun.live.status = "running"
      /\ Begun.live.phase = live.phase /\ Cursor(Begun.live) = Cursor(live)
  BY BegunFacts DEF HostSkip, Ready, Finds, SameMoment, Cursor
<1>2. Cursor(Begun.live) \in Questions
  BY <1>1 DEF HostSkip, Good, LiveOK, Placed, AtQuestion
<1>3. Good(AfterQuestion(Begun))
  BY <1>1, <1>2, AfterQuestionGood DEF Leaves
<1>4. Good(AfterQuestion(Skipped(Begun)))
  BY <1>1, <1>2, SkippedFacts, AfterQuestionGood DEF Leaves
<1> QED BY <1>3, <1>4, HostDoesCore DEF HostSkip

LEMMA HostShowAnswersCore == Core /\ HostShowAnswers => Core'
<1> SUFFICES ASSUME Core, HostShowAnswers PROVE Core'
  OBVIOUS
<1>1. Good(Begun) /\ Begun.live.status = "running" /\ Begun.live.phase \in QuestionPhases
  BY BegunFacts DEF HostShowAnswers, Ready, Finds, SameMoment, QuestionPhases
<1>2. Good(StartVote(Begun))
  BY <1>1, InPlayHere, StartVoteGood DEF Leaves
<1> QED BY <1>2, HostDoesCore DEF HostShowAnswers

LEMMA HostPauseCore == Core /\ HostPause => Core'
BY BegunFacts, PausedGood, HostDoesCore DEF HostPause, Ready, Finds, SameMoment

LEMMA HostResumeCore == Core /\ HostResume => Core'
<1> SUFFICES ASSUME Core, HostResume PROVE Core'
  OBVIOUS
<1>1. /\ Good(Begun) /\ Begun.live.status = "paused"
      /\ Begun.live.phase = live.phase /\ Begun.live.recovery = live.recovery
  BY BegunFacts DEF HostResume, Ready, Finds, SameMoment
<1>2. CASE live.recovery /\ live.phase \in QuestionPhases
  BY <1>1, <1>2, ReplayedGood, HostDoesCore DEF HostResume
<1>3. CASE ~(live.recovery /\ live.phase \in QuestionPhases)
  BY <1>1, <1>3, ResumedGood, HostDoesCore DEF HostResume
<1> QED BY <1>2, <1>3

LEMMA HostAddTimeCore == Core /\ HostAddTime => Core'
<1> SUFFICES ASSUME Core, HostAddTime PROVE Core'
  OBVIOUS
<1>1. Good(Begun) /\ Begun.live.deadline # None
  BY BegunFacts DEF HostAddTime, Ready, Finds, SameMoment
<1>2. Good(Saved(TimeAdded(Begun, 1)))
  BY <1>1, TimeAddedGood, SavedGood
<1> QED BY <1>2, ExecuteCore DEF HostAddTime

LEMMA HostEndCore == Core /\ HostEnd => Core'
<1> SUFFICES ASSUME Core, HostEnd PROVE Core'
  OBVIOUS
<1>1. Begun \in Steps
  BY BegunFacts DEF HostEnd, Ready
<1>2. \A status \in Closed : Good(EndSession(Begun, status))
  BY <1>1, EndSessionGood DEF Leaves
<1>3. Good(ShowPodium(Begun))
  BY <1>1, ShowPodiumGood DEF Leaves
<1> QED BY <1>2, <1>3, HostDoesCore DEF HostEnd, Closed

LEMMA HidingGood ==
  ASSUME NEW s, Good(s), s.live.play \in Plays, NEW p \in Players, NEW hidden \in BOOLEAN
  PROVE  Good(Hiding(s, p, hidden))
<1> DEFINE part == Only(p, hidden)
           w    == [s.writes EXCEPT !.question = s.live.play.at, !.hidden = part]
<1>1. part \in PartOf(BOOLEAN)
  BY PartTyped
<1>2. Hiding(s, p, hidden) = [s EXCEPT !.writes.question = s.live.play.at, !.writes.hidden = part]
  BY DEF Hiding
<1> HIDE DEF part
<1>3. Hiding(s, p, hidden) = [s EXCEPT !.writes = w]
  BY <1>2
<1>4. w \in Writes
  <2>1. s.live.play.at \in Maybe(Questions)
    BY DEF Plays, Maybe
  <2> QED BY <1>1, <2>1 DEF Good, Steps, Writes
<1> HIDE DEF w
<1> QED BY <1>3, <1>4, WithWrites DEF Good

\* The play that is loaded is typed, before and after the host has been seen.
LEMMA PlayBegun ==
  ASSUME Core, live # None, PlayNow(live)
  PROVE  live.play \in Plays /\ Begun.live.play = live.play
BY BegunFacts DEF Core, Lives, Maybe, PlayNow, Finds

LEMMA SameRoomGood ==
  ASSUME NEW s, Good(s), NEW t \in Steps, SameRoom(s.live, t.live)
  PROVE  Good(t)
BY SameMomentOK DEF Good, SameRoom

LEMMA HostHidesAnswerCore == \A p \in Players : Core /\ HostHidesAnswer(p) => Core'
<1> SUFFICES ASSUME NEW p \in Players, Core, HostHidesAnswer(p) PROVE Core'
  OBVIOUS
<1>1. Good(Begun) /\ Begun \in Steps /\ Begun.live.play \in Plays
      /\ Begun.live.play.answers[p] # None
  BY BegunFacts, PlayBegun DEF HostHidesAnswer, PromptInPlay, Ready
<1> DEFINE t == HideAnswer(Begun, p)
<1>2. t \in Steps /\ SameRoom(Begun.live, t.live)
  BY <1>1, HideAnswerFacts
<1>3. Good(t) /\ t.live.play \in Plays
  BY <1>1, <1>2, SameRoomGood DEF SameRoom
<1>4. HostDoes(Hiding(t, p, TRUE))
  BY DEF HostHidesAnswer
<1> HIDE DEF t
<1>5. Good(Hiding(t, p, TRUE))
  BY <1>3, HidingGood
<1> QED BY <1>4, <1>5, HostDoesCore

LEMMA HostShowsAnswerCore == \A p \in Players : Core /\ HostShowsAnswer(p) => Core'
<1> SUFFICES ASSUME NEW p \in Players, Core, HostShowsAnswer(p) PROVE Core'
  OBVIOUS
<1> DEFINE s      == Begun
           play   == s.live.play
           answer == [play.answers[p] EXCEPT !.hidden = FALSE]
           shown  == [play EXCEPT !.answers[p] = answer]
           t      == [s EXCEPT !.live = [s.live EXCEPT !.play = shown, !.score = s.live.score]]
<1>1. Good(s) /\ s \in Steps /\ play \in Plays /\ play.answers[p] # None /\ s.live \in Lives
  BY BegunFacts, PlayBegun, CursorTyped DEF HostShowsAnswer, PromptInPlay, Ready
<1>2. HostDoes(Hiding([s EXCEPT !.live.play.answers[p].hidden = FALSE], p, FALSE))
  BY DEF HostShowsAnswer
<1> HIDE DEF s
<1>3. answer \in Answers
  BY <1>1, AnswerWith DEF Plays, Maybe
<1>4. [s EXCEPT !.live.play.answers[p].hidden = FALSE] = [s EXCEPT !.live.play = shown]
  OBVIOUS
<1> HIDE DEF answer
<1>5. SameAnswers(play, shown)
  BY <1>1, <1>3, Reworked
<1> HIDE DEF shown
<1>6. [s EXCEPT !.live.play = shown] = t
  BY <1>1 DEF Lives
<1>7. Edits(s, t, shown, s.live.score) /\ s.live.score \in [Players -> Int]
  BY <1>1, <1>5, EditFacts DEF Lives, SameAnswers
<1> HIDE DEF t
<1>8. Good(t) /\ t.live.play \in Plays
  <2>1. t \in Steps /\ SameRoom(s.live, t.live)
    BY <1>1, <1>5, <1>7, EditRoom
  <2> QED BY <1>1, <2>1, SameRoomGood DEF SameRoom
<1>9. Good(Hiding(t, p, FALSE))
  BY <1>8, HidingGood
<1> QED BY <1>2, <1>4, <1>6, <1>9, HostDoesCore

LEMMA HostPicksFavouriteCore == \A p \in Players : Core /\ HostPicksFavourite(p) => Core'
<1> SUFFICES ASSUME NEW p \in Players, Core, HostPicksFavourite(p) PROVE Core'
  OBVIOUS
<1>1. Good(Begun) /\ Begun.live.play \in Plays /\ Begun.live.play.answers[p] # None
  BY BegunFacts, PlayBegun DEF HostPicksFavourite, Ready
<1>2. Good(Favoured(Begun, p))
  BY <1>1, FavouredGood
<1> QED BY <1>2, HostDoesCore DEF HostPicksFavourite

\* Only where a player stands changes.
Moves(s, t) ==
  /\ t \in Steps /\ SameMoment(s.live, t.live) /\ t.live.play = s.live.play
  /\ t.live.log = s.live.log /\ t.live.score = s.live.score

LEMMA MovesGood ==
  ASSUME NEW s, Good(s), NEW t, Moves(s, t)
  PROVE  Good(t)
BY SameMomentOK DEF Good, Moves

LEMMA RemovingFacts ==
  ASSUME NEW s \in Steps, NEW p \in Players, NEW n \in Nat
  PROVE  LET t == [s EXCEPT !.live.removed[p] = n, !.writes.removed = Only(p, n)]
         IN  Moves(s, t) /\ t.live.removed = [s.live.removed EXCEPT ![p] = n]
                         /\ t.live.joined = s.live.joined
<1> DEFINE part    == Only(p, n)
           removed == [s.live.removed EXCEPT ![p] = n]
           m       == [s.live EXCEPT !.removed = removed]
           w       == [s.writes EXCEPT !.removed = part]
           r       == [s EXCEPT !.live = m]
           t       == [r EXCEPT !.writes = w]
<1>1. part \in PartOf(Nat) /\ s.live \in Lives /\ s.writes \in Writes
  BY PartTyped, CursorTyped DEF Steps
<1>2. removed \in Positions
  BY <1>1 DEF Lives, Positions, Maybe
<1> HIDE DEF part
<1>3. [s EXCEPT !.live.removed[p] = n, !.writes.removed = part] = t
  BY DEF Steps
<1> HIDE DEF removed
<1>4. m \in Lives /\ m.removed = removed /\ m.joined = s.live.joined /\ m.play = s.live.play
      /\ m.log = s.live.log /\ m.score = s.live.score /\ SameMoment(s.live, m)
  BY <1>1, <1>2 DEF Lives, SameMoment
<1>5. w \in Writes
  BY <1>1 DEF Writes
<1> HIDE DEF m, w
<1>6. r \in Steps /\ r.live = m
  BY <1>4, WithLive
<1> HIDE DEF r
<1>7. t \in Steps /\ t.live = m
  BY <1>5, <1>6, WithWrites
<1> HIDE DEF t
<1>8. Moves(s, t) /\ t.live.removed = removed /\ t.live.joined = s.live.joined
  BY <1>4, <1>7 DEF Moves
<1> QED BY <1>3, <1>8 DEF part, removed

LEMMA JoinLobbyCore == \A p \in Players : Core /\ JoinLobby(p) => Core'
<1> SUFFICES ASSUME NEW p \in Players, Core, JoinLobby(p) PROVE Core'
  OBVIOUS
<1> DEFINE s      == StepFrom(live, timer)
           part   == Only(p, live.phaseId)
           joined == [live.joined EXCEPT ![p] = live.phaseId]
           m      == [live EXCEPT !.joined = joined]
           w      == [s.writes EXCEPT !.joined = part]
           r      == [s EXCEPT !.live = m]
           t      == [r EXCEPT !.writes = w]
<1>1. Good(s) /\ s \in Steps /\ s.live = live /\ live \in Lives /\ s.writes \in Writes
  BY StepFromFacts, NoWritesTyped DEF JoinLobby, Ready, Core
<1>2. Execute([s EXCEPT !.live.joined[p] = live.phaseId, !.writes.joined = part])
  BY DEF JoinLobby
<1> HIDE DEF s
<1>3. part \in PartOf(Nat)
  BY <1>1, PartTyped DEF Lives
<1>4. joined \in Positions
  BY <1>1 DEF Lives, Positions, Maybe
<1> HIDE DEF part
<1>5. [s EXCEPT !.live.joined[p] = live.phaseId, !.writes.joined = part] = t
  BY <1>1 DEF Steps
<1> HIDE DEF joined
<1>6. m \in Lives /\ m.play = live.play /\ m.log = live.log /\ m.score = live.score
      /\ SameMoment(live, m)
  BY <1>1, <1>4 DEF Lives, SameMoment
<1>7. w \in Writes
  BY <1>1, <1>3 DEF Writes
<1> HIDE DEF m, w
<1>8. r \in Steps /\ r.live = m
  BY <1>1, <1>6, WithLive
<1> HIDE DEF r
<1>9. t \in Steps /\ t.live = m
  BY <1>7, <1>8, WithWrites
<1> HIDE DEF t
<1>10. Good(t)
  BY <1>1, <1>6, <1>9, MovesGood DEF Moves
<1> QED BY <1>2, <1>5, <1>10, ExecuteCore

LEMMA SetExtraTimeCore == \A p \in Players : Core /\ SetExtraTime(p) => Core'
<1> SUFFICES ASSUME NEW p \in Players, Core, SetExtraTime(p) PROVE Core'
  OBVIOUS
<1> DEFINE s     == StepFrom(live, timer)
           part  == Only(p, ~live.extraTime[p])
           extra == [live.extraTime EXCEPT ![p] = ~@]
           m     == [live EXCEPT !.extraTime = extra]
           w     == [s.writes EXCEPT !.extraTime = part]
           r     == [s EXCEPT !.live = m]
           t     == [r EXCEPT !.writes = w]
<1>1. Good(s) /\ s \in Steps /\ s.live = live /\ live \in Lives /\ s.writes \in Writes
  BY StepFromFacts, NoWritesTyped DEF SetExtraTime, Ready, Core
<1>2. Execute([s EXCEPT !.live.extraTime[p] = ~@, !.writes.extraTime = part])
  BY DEF SetExtraTime
<1> HIDE DEF s
<1>3. part \in PartOf(BOOLEAN)
  BY <1>1, PartTyped DEF Lives
<1>4. extra \in [Players -> BOOLEAN]
  BY <1>1 DEF Lives
<1> HIDE DEF part
<1>5. [s EXCEPT !.live.extraTime[p] = ~@, !.writes.extraTime = part] = t
  BY <1>1 DEF Steps
<1> HIDE DEF extra
<1>6. m \in Lives /\ m.play = live.play /\ m.log = live.log /\ m.score = live.score
      /\ SameMoment(live, m)
  BY <1>1, <1>4 DEF Lives, SameMoment
<1>7. w \in Writes
  BY <1>1, <1>3 DEF Writes
<1> HIDE DEF m, w
<1>8. r \in Steps /\ r.live = m
  BY <1>1, <1>6, WithLive
<1> HIDE DEF r
<1>9. t \in Steps /\ t.live = m
  BY <1>7, <1>8, WithWrites
<1> HIDE DEF t
<1>10. Good(t)
  BY <1>1, <1>6, <1>9, MovesGood DEF Moves
<1> QED BY <1>2, <1>5, <1>10, ExecuteCore

\* Everyone but p is waited for as before, and nobody else was removed.
OthersAsBefore(l, m, p) ==
  /\ m.phase = l.phase /\ m.deadline = l.deadline /\ m.extraDeadline = l.extraDeadline
  /\ m.play.eligible = l.play.eligible /\ m.play.extra = l.play.extra
  /\ \A q \in Players \ {p} :
       /\ m.joined[q] = l.joined[q] /\ m.removed[q] = l.removed[q]
       /\ m.play.votes[q] = l.play.votes[q]
       /\ m.play.answers[q] # None <=> l.play.answers[q] # None

LEMMA StillAwaited ==
  ASSUME NEW l, NEW m, NEW p, OthersAsBefore(l, m, p), NEW q \in Players \ {p}, Awaited(l, q)
  PROVE  Awaited(m, q) /\ q \in m.play.eligible
BY DEF OthersAsBefore, Awaited, EligibleNow, Active, Submitted, InTime, OwnDeadline

\* A submission or a removal: what it does to the one it is about, and whether all are done.
SettledFor(s, p) ==
  /\ Good(s) /\ s.live.phaseId = live.phaseId
  /\ PlayNow(live) /\ live.phase \in SubmissionPhases => OthersAsBefore(live, s.live, p)
  /\ Execute(CloseIfEveryoneDone(s)) \/ Execute(Saved(CloseIfEveryoneDone(s)))

LEMMA SettledCore ==
  ASSUME Core, NEW s, NEW p, SettledFor(s, p)
  PROVE  Core'
<1>1. Good(CloseIfEveryoneDone(s)) /\ Good(Saved(CloseIfEveryoneDone(s)))
  BY CloseIfEveryoneDoneGood, SavedGood DEF SettledFor
<1> QED BY <1>1, ExecuteCore DEF SettledFor

\* Of a player whose answer is on the table: it is there, and can be hidden.
LEMMA PromptFacts ==
  ASSUME Core, live # None, NEW p, PromptInPlay(p)
  PROVE  live.play \in Plays /\ Begun.live.play = live.play /\ live.play.answers[p] # None
BY PlayBegun DEF PromptInPlay

LEMMA HostRemovesPlayerSettles ==
  ASSUME Core, NEW p \in Players, HostRemovesPlayer(p)
  PROVE  \E s : /\ SettledFor(s, p) /\ s.live.removed[p] # None
                /\ Execute(Saved(CloseIfEveryoneDone(s)))
<1> DEFINE s == [Begun EXCEPT !.live.removed[p] = live.phaseId,
                              !.writes.removed = Only(p, live.phaseId)]
           hides == PromptInPlay(p) /\ ~live.play.answers[p].hidden
           t == IF hides THEN HideAnswer(s, p) ELSE s
<1>1. Good(Begun) /\ Begun \in Steps /\ Finds(live, Begun.live) /\ live # None /\ live \in Lives
  BY BegunFacts DEF HostRemovesPlayer, Ready, Core
<1>2. live.phaseId \in Nat /\ live.removed \in Positions
  BY <1>1 DEF Lives
<1>3. /\ Moves(Begun, s) /\ s.live.removed = [Begun.live.removed EXCEPT ![p] = live.phaseId]
      /\ s.live.joined = Begun.live.joined
  BY <1>1, <1>2, RemovingFacts, ZenonT(60)
<1>4. Execute(Saved(CloseIfEveryoneDone(t)))
  BY DEF HostRemovesPlayer, HostDoes
<1> HIDE DEF s
<1>5. Good(s) /\ s \in Steps
  BY <1>1, <1>3, MovesGood DEF Moves
<1>6. /\ s.live.play = live.play /\ s.live.phaseId = live.phaseId /\ s.live.phase = live.phase
      /\ s.live.deadline = live.deadline /\ s.live.extraDeadline = live.extraDeadline
      /\ s.live.joined = live.joined /\ s.live.removed = [live.removed EXCEPT ![p] = live.phaseId]
  BY <1>1, <1>3 DEF Finds, Moves, SameMoment
<1>7. s.live.removed[p] # None
  BY <1>2, <1>6, NoneAssumption DEF Positions
<1>8. OthersAsBefore(live, s.live, p)
  BY <1>2, <1>6 DEF OthersAsBefore, Positions
<1>9. CASE hides
  <2>1. live.play \in Plays /\ live.play.answers[p] # None
    BY <1>1, <1>9, PromptFacts
  <2>2. t \in Steps /\ SameRoom(s.live, t.live)
    BY <1>5, <1>6, <1>9, <2>1, HideAnswerFacts
  <2> HIDE DEF t
  <2>3. Good(t) /\ t.live.phaseId = live.phaseId /\ t.live.removed[p] # None
    BY <1>5, <1>6, <1>7, <2>2, SameRoomGood DEF SameRoom, SameMoment
  <2>4. OthersAsBefore(live, t.live, p)
    BY <1>8, <2>2 DEF OthersAsBefore, SameRoom, SameMoment
  <2> QED BY <1>4, <2>3, <2>4 DEF SettledFor
<1>10. CASE ~hides
  BY <1>4, <1>5, <1>6, <1>7, <1>8, <1>10 DEF SettledFor
<1> QED BY <1>9, <1>10

LEMMA SubmitAnswerSettles ==
  ASSUME Core, NEW p \in Players, SubmitAnswer(p)
  PROVE  \E s : /\ SettledFor(s, p) /\ s.live.play \in Plays /\ s.live.play.answers[p] # None
                /\ Execute(CloseIfEveryoneDone(s))
<1>1. PICK payload \in Payloads(live.play.at) :
        LET answer == [payload |-> payload, points |-> 0, hidden |-> FALSE]
        IN  Execute(CloseIfEveryoneDone([StepFrom(live, timer) EXCEPT
              !.live.play.answers[p] = answer,
              !.writes.question = live.play.at, !.writes.answers = Only(p, payload)]))
  BY DEF SubmitAnswer
<1> DEFINE s      == StepFrom(live, timer)
           part   == Only(p, payload)
           answer == [payload |-> payload, points |-> 0, hidden |-> FALSE]
           play   == [live.play EXCEPT !.answers[p] = answer]
           w      == [s.writes EXCEPT !.question = live.play.at, !.answers = part]
           r      == [s EXCEPT !.live = [s.live EXCEPT !.play = play, !.score = s.live.score]]
           t      == [r EXCEPT !.writes = w]
<1>2. Good(s) /\ s \in Steps /\ s.live = live /\ live \in Lives /\ live.play \in Plays
      /\ s.writes \in Writes
  BY StepFromFacts, NoWritesTyped, PlayBegun DEF SubmitAnswer, MaySubmit, Ready, Core
<1>3. payload \in {"right", "wrong", "text"}
  BY <1>1 DEF Payloads
<1>4. answer \in Answers /\ part \in PartOf({"right", "wrong", "text"})
  BY <1>3, PartTyped DEF Answers
<1>5. Execute(CloseIfEveryoneDone([s EXCEPT !.live.play.answers[p] = answer,
              !.writes.question = live.play.at, !.writes.answers = part]))
  BY <1>1
<1> HIDE DEF s, part, answer
<1>6. [s EXCEPT !.live.play.answers[p] = answer, !.writes.question = live.play.at,
                !.writes.answers = part] = t
  <2>1. [s EXCEPT !.live.play.answers[p] = answer, !.writes.question = live.play.at,
                  !.writes.answers = part]
        = [[s EXCEPT !.live = [live EXCEPT !.play = play]] EXCEPT !.writes = w]
    BY <1>2 DEF Steps
  <2> HIDE DEF play
  <2>2. [live EXCEPT !.play = play] = [s.live EXCEPT !.play = play, !.score = s.live.score]
    BY <1>2 DEF Lives
  <2> QED BY <2>1, <2>2
<1>7. /\ play \in Plays /\ play.eligible = live.play.eligible /\ play.extra = live.play.extra
      /\ play.votes = live.play.votes /\ play.answers = [live.play.answers EXCEPT ![p] = answer]
      /\ play.answers[p] = answer
  BY <1>2, <1>4, AnsweringFacts
<1> HIDE DEF play
<1>8. Edits(s, r, play, s.live.score)
  <2>1. s.live.score \in [Players -> Int]
    BY <1>2 DEF Lives
  <2> QED BY <1>2, <1>7, <2>1, EditFacts
<1>9. w \in Writes
  <2>1. live.play.at \in Maybe(Questions)
    BY <1>2 DEF Plays, Maybe
  <2> QED BY <1>2, <1>4, <2>1 DEF Writes
<1> HIDE DEF r, w
<1>10. t \in Steps /\ t.live = r.live
  BY <1>8, <1>9, WithWrites DEF Edits
<1> HIDE DEF t
<1>11. Good(t)
  BY <1>2, <1>7, <1>8, <1>10, SameMomentOK DEF Good, Edits
<1>12. OthersAsBefore(live, t.live, p) /\ t.live.phaseId = live.phaseId
  BY <1>2, <1>7, <1>8, <1>10 DEF OthersAsBefore, Edits, SameMoment, Plays
<1>13. t.live.play \in Plays /\ t.live.play.answers[p] # None
  BY <1>4, <1>7, <1>8, <1>10, NoneAssumption DEF Edits
<1> QED BY <1>5, <1>6, <1>11, <1>12, <1>13 DEF SettledFor

LEMMA SubmitVoteSettles ==
  ASSUME Core, NEW p \in Players, SubmitVote(p)
  PROVE  \E s : /\ SettledFor(s, p) /\ s.live.play \in Plays /\ s.live.play.votes[p] # None
                /\ Execute(CloseIfEveryoneDone(s))
<1>1. PICK option \in live.play.options \ {p} :
        Execute(CloseIfEveryoneDone([StepFrom(live, timer) EXCEPT
          !.live.play.votes[p] = option,
          !.writes.question = live.play.at, !.writes.votes = Only(p, option)]))
  BY DEF SubmitVote
<1> DEFINE s     == StepFrom(live, timer)
           part  == Only(p, option)
           votes == [live.play.votes EXCEPT ![p] = option]
           play  == [live.play EXCEPT !.votes = votes]
           w     == [s.writes EXCEPT !.question = live.play.at, !.votes = part]
           r     == [s EXCEPT !.live = [s.live EXCEPT !.play = play, !.score = s.live.score]]
           t     == [r EXCEPT !.writes = w]
<1>2. Good(s) /\ s \in Steps /\ s.live = live /\ live \in Lives /\ live.play \in Plays
      /\ s.writes \in Writes
  BY StepFromFacts, NoWritesTyped, PlayBegun DEF SubmitVote, MaySubmit, Ready, Core
<1>3. option \in PlayerVotes
  <2>1. live.play.options # None
    BY DEF SubmitVote
  <2> QED BY <1>1, <1>2, <2>1 DEF Plays, Maybe
<1>4. part \in PartOf(PlayerVotes)
  BY <1>3, PartTyped
<1>5. votes \in [Players -> Maybe(PlayerVotes)] /\ votes[p] = option
      /\ \A q \in Players \ {p} : votes[q] = live.play.votes[q]
  BY <1>2, <1>3 DEF Plays, Maybe
<1>6. Execute(CloseIfEveryoneDone([s EXCEPT !.live.play.votes[p] = option,
              !.writes.question = live.play.at, !.writes.votes = part]))
  BY <1>1
<1> HIDE DEF s, part
<1>7. [s EXCEPT !.live.play.votes[p] = option, !.writes.question = live.play.at,
                !.writes.votes = part] = t
  <2>1. [s EXCEPT !.live.play.votes[p] = option, !.writes.question = live.play.at,
                  !.writes.votes = part]
        = [[s EXCEPT !.live = [live EXCEPT !.play = play]] EXCEPT !.writes = w]
    BY <1>2 DEF Steps
  <2> HIDE DEF play
  <2>2. [live EXCEPT !.play = play] = [s.live EXCEPT !.play = play, !.score = s.live.score]
    BY <1>2 DEF Lives
  <2> QED BY <2>1, <2>2
<1> HIDE DEF votes
<1>8. /\ play \in Plays /\ play.eligible = live.play.eligible /\ play.extra = live.play.extra
      /\ play.votes = votes /\ play.answers = live.play.answers
  BY <1>2, <1>5 DEF Plays
<1> HIDE DEF play
<1>9. Edits(s, r, play, s.live.score)
  <2>1. s.live.score \in [Players -> Int]
    BY <1>2 DEF Lives
  <2> QED BY <1>2, <1>8, <2>1, EditFacts
<1>10. w \in Writes
  <2>1. live.play.at \in Maybe(Questions)
    BY <1>2 DEF Plays, Maybe
  <2> QED BY <1>2, <1>4, <2>1 DEF Writes
<1> HIDE DEF r, w
<1>11. t \in Steps /\ t.live = r.live
  BY <1>9, <1>10, WithWrites DEF Edits
<1> HIDE DEF t
<1>12. Good(t)
  BY <1>2, <1>8, <1>9, <1>11, SameMomentOK DEF Good, Edits
<1>13. OthersAsBefore(live, t.live, p) /\ t.live.phaseId = live.phaseId
  BY <1>2, <1>5, <1>8, <1>9, <1>11 DEF OthersAsBefore, Edits, SameMoment
<1>14. t.live.play \in Plays /\ t.live.play.votes[p] # None
  BY <1>3, <1>5, <1>8, <1>9, <1>11, NoneAssumption DEF Edits, PlayerVotes
<1> QED BY <1>6, <1>7, <1>12, <1>13, <1>14 DEF SettledFor

\* A submission sent again is about nobody: everybody is as before.
LEMMA SubmitAgainSettles ==
  ASSUME Core, NEW p \in Players, SubmitAgain(p)
  PROVE  \E s : SettledFor(s, None)
<1> DEFINE s == StepFrom(live, timer)
<1>1. Good(s) /\ s.live = live
  BY StepFromFacts DEF SubmitAgain, Ready, Core
<1>2. Execute(CloseIfEveryoneDone(s))
  BY DEF SubmitAgain
<1> HIDE DEF s
<1>3. OthersAsBefore(live, s.live, None)
  BY <1>1 DEF OthersAsBefore
<1> QED BY <1>1, <1>2, <1>3 DEF SettledFor

LEMMA RoomCore ==
  \A p \in Players :
    Core /\ (HostRemovesPlayer(p) \/ SubmitAnswer(p) \/ SubmitVote(p) \/ SubmitAgain(p)) => Core'
BY HostRemovesPlayerSettles, SubmitAnswerSettles, SubmitVoteSettles, SubmitAgainSettles,
   SettledCore

----------------------------------------------------------------------------
(* Time, the ends nobody asked for, and the chain. *)

LEMMA TickCore == Core /\ Tick => Core'
<1> SUFFICES ASSUME Core, Tick PROVE Core'
  OBVIOUS
<1> DEFINE extra == Shifted(live.extraDeadline)
           m     == [live EXCEPT !.deadline = @ - 1, !.extraDeadline = extra]
<1>1. live \in Lives /\ LiveOK(live) /\ live.status \in Open
  BY DEF Tick, Core
<1>2. live.deadline \in Int /\ live.deadline - 1 \in Maybe(Int) /\ live.deadline - 1 \in Int
  <2>1. live.deadline \in Int
    BY <1>1 DEF Tick, Lives, Maybe
  <2> QED BY <2>1 DEF Maybe
<1>3. extra \in Maybe(Int) /\ (live.extraDeadline \in Int => extra \in Int)
  BY <1>1, NoneAssumption DEF Shifted, Lives, Maybe
<1>4. live' = m
  BY DEF Tick
<1> HIDE DEF extra
<1>5. /\ m \in Lives /\ m.status = live.status /\ m.phase = live.phase /\ m.round = live.round
      /\ m.question = live.question /\ m.play = live.play /\ m.recovery = live.recovery
      /\ m.deadline = live.deadline - 1 /\ m.extraDeadline = extra
  BY <1>1, <1>2, <1>3 DEF Lives
<1> HIDE DEF m
<1>6. LiveOK(m)
  BY <1>1, <1>2, <1>3, <1>5
     DEF Tick, LiveOK, Placed, AtQuestion, AtRound, InLobby, PlayKept, Going, OnTheClock, Cursor
<1>7. timer' \in Maybe(Timers)
  BY DEF Tick, Core, Timers, Maybe
<1> QED BY <1>1, <1>4, <1>5, <1>6, <1>7 DEF Core, Tick

LEMMA TimerElapsedCore == Core /\ TimerElapsed => Core'
<1> SUFFICES ASSUME Core, TimerElapsed PROVE Core'
  OBVIOUS
<1> DEFINE s == StepFrom(live, None)
<1>1. Good(s) /\ s.live = live
  BY StepFromFacts DEF TimerElapsed, Ready, Maybe
<1>2. live.status = "running" => Good(Elapsed(s))
  BY <1>1, ElapsedGood
<1>3. Execute(s) \/ (live.status = "running" /\ Execute(Elapsed(s)))
  BY DEF TimerElapsed
<1> HIDE DEF s
<1> QED BY <1>1, <1>2, <1>3, ExecuteCore

\* A row, or the state of a session, that the host has left.
LEMMA Unseen ==
  /\ \A d \in Stores : [d EXCEPT !.row.hostSeen = FALSE] \in Stores
  /\ \A l \in Lives : LiveOK(l) =>
       /\ [l EXCEPT !.hostSeen = FALSE] \in Lives /\ LiveOK([l EXCEPT !.hostSeen = FALSE])
       /\ [l EXCEPT !.hostSeen = FALSE].status = l.status
<1>1. ASSUME NEW d \in Stores PROVE [d EXCEPT !.row.hostSeen = FALSE] \in Stores
  <2> DEFINE row == [d.row EXCEPT !.hostSeen = FALSE]
  <2>1. d.row \in RowTypes /\ Placed(d.row)
    BY DEF Stores, Rows
  <2>2. row \in RowTypes /\ Placed(row)
    BY <2>1 DEF RowTypes, Placed, AtQuestion, AtRound, InLobby, Cursor
  <2>3. row \in Rows
    BY <2>2 DEF Rows
  <2>4. [d EXCEPT !.row.hostSeen = FALSE] = [d EXCEPT !.row = row]
    OBVIOUS
  <2> HIDE DEF row
  <2> QED BY <2>3, <2>4 DEF Stores
<1>2. ASSUME NEW l \in Lives, LiveOK(l)
      PROVE  /\ [l EXCEPT !.hostSeen = FALSE] \in Lives /\ LiveOK([l EXCEPT !.hostSeen = FALSE])
             /\ [l EXCEPT !.hostSeen = FALSE].status = l.status
  <2> DEFINE m == [l EXCEPT !.hostSeen = FALSE]
  <2>1. m \in Lives /\ SameMoment(l, m) /\ m.play = l.play
    BY DEF Lives, SameMoment
  <2> HIDE DEF m
  <2>2. LiveOK(m) /\ m.status = l.status
    BY <1>2, <2>1, SameMomentOK DEF SameMoment
  <2> QED BY <2>1, <2>2 DEF m
<1> QED BY <1>1, <1>2

LEMMA HostLeavesCore == Core /\ HostLeaves => Core'
BY Unseen DEF HostLeaves, Core

LEMMA MarkAbandonedCore == Core /\ MarkAbandoned => Core'
<1> SUFFICES ASSUME Core, MarkAbandoned PROVE Core'
  OBVIOUS
<1> DEFINE row == [db.row EXCEPT !.status = "abandoned", !.phase = "ended", !.round = None,
                                 !.question = None, !.recovery = FALSE, !.phaseId = @ + 1]
<1>1. db.row \in RowTypes /\ db \in Stores
  BY DEF Core, Stores, Rows
<1>2. row \in RowTypes /\ row.phase = "ended" /\ row.status = "abandoned"
  <2>1. db.row.phaseId + 1 \in Nat
    BY <1>1 DEF RowTypes
  <2> DEFINE a == [db.row EXCEPT !.status = "abandoned", !.phase = "ended", !.round = None]
  <2>2. a \in RowTypes /\ a.phaseId = db.row.phaseId
    BY <1>1 DEF RowTypes, Maybe, Closed, Phases
  <2>3. row = [a EXCEPT !.question = None, !.recovery = FALSE, !.phaseId = @ + 1]
    BY <1>1 DEF RowTypes
  <2>4. a.phase = "ended" /\ a.status = "abandoned"
    BY <1>1 DEF RowTypes
  <2> HIDE DEF a, row
  <2> QED BY <2>1, <2>2, <2>3, <2>4 DEF RowTypes, Maybe
<1>3. db' = [db EXCEPT !.row = row]
  BY DEF MarkAbandoned
<1> HIDE DEF row
<1>4. row \in Rows
  BY <1>2 DEF Rows, Placed, AtQuestion, AtRound, InLobby, QuestionPhases
<1>5. db' \in Stores
  BY <1>1, <1>3, <1>4 DEF Stores
<1> QED BY <1>5 DEF Core, MarkAbandoned

LEMMA AbandonCore == Core /\ Abandon => Core'
<1> SUFFICES ASSUME Core, Abandon PROVE Core'
  OBVIOUS
<1>1. StepFrom(live, timer) \in Steps
  BY StepFromFacts DEF Abandon, Ready, Core
<1>2. Good(EndSession(StepFrom(live, timer), "abandoned"))
  BY <1>1, EndSessionGood DEF Leaves, Closed
<1> QED BY <1>2, ExecuteCore DEF Abandon

----------------------------------------------------------------------------
(* Loading, writing out, and what a new process finds. *)

LEMMA StoredPlayTyped ==
  ASSUME NEW d \in Stores, d.row.phase \in {"reveal", "scores"}
  PROVE  StoredPlay(d) \in Plays
<1> DEFINE x        == <<d.row.round, d.row.question>>
           entry    == d.row.log[EntryOf(d.row.log, x)]
           eligible == {p \in Players : /\ d.joined[p] # None /\ d.joined[p] < entry.opened
                                        /\ d.removed[p] = None \/ d.removed[p] >= entry.opened}
           present  == {p \in eligible : SeenAtReveal(d, entry, p)}
           shown    == {p \in Players : d.answers[x][p] # None /\ d.answers[x][p].shown}
           options  == shown \cup (IF KindOf(x) = "lie" THEN {Truth} ELSE {})
           drawn(p) == Cardinality({v \in Players : d.votes[x][v] = p /\ SeenAtReveal(d, entry, v)})
           favoured == {p \in shown : /\ KindOf(x) = "caption" /\ ~d.answers[x][p].hidden
                                      /\ d.answers[x][p].points - drawn(p) = 1}
           extra    == {p \in eligible : d.extraTime[p]}
           answers  == [p \in Players |->
                         IF d.answers[x][p] = None THEN None
                         ELSE [payload |-> d.answers[x][p].payload,
                               points  |-> d.answers[x][p].points,
                               hidden  |-> d.answers[x][p].hidden]]
           picked   == IF favoured = {} THEN None ELSE CHOOSE p \in favoured : TRUE
           offered  == IF options = {} THEN None ELSE options
<1>1. x \in Questions
  BY DEF Stores, Rows, Placed, AtQuestion, Cursor
<1>2. /\ d.answers[x] \in [Players -> Maybe(AnswerRows)]
      /\ d.votes[x] \in [Players -> Maybe(PlayerVotes)]
  BY <1>1 DEF Stores
<1>3. eligible \in SUBSET Players /\ present \in SUBSET Players /\ extra \in SUBSET Players
  OBVIOUS
<1>4. answers \in [Players -> Maybe(Answers)]
  <2>1. ASSUME NEW p \in Players, d.answers[x][p] # None
        PROVE  [payload |-> d.answers[x][p].payload, points |-> d.answers[x][p].points,
                hidden |-> d.answers[x][p].hidden] \in Answers
    <3>1. d.answers[x][p] \in AnswerRows
      BY <1>2, <2>1 DEF Maybe
    <3> QED BY <3>1 DEF AnswerRows, Answers
  <2> HIDE DEF x
  <2> QED BY <2>1 DEF Maybe
<1>5. picked \in Maybe(Players)
  <2>1. favoured \subseteq Players
    OBVIOUS
  <2> HIDE DEF favoured
  <2> QED BY <2>1 DEF Maybe
<1>6. offered \in Maybe(SUBSET PlayerVotes)
  BY DEF Maybe, PlayerVotes
<1>7. StoredPlay(d) = [at |-> x, eligible |-> eligible, extra |-> extra, answers |-> answers,
                       votes |-> d.votes[x], options |-> offered, favourite |-> picked,
                       scored |-> TRUE, counted |-> present]
  BY DEF StoredPlay
<1> HIDE DEF x, eligible, present, extra, answers, picked, offered
<1> QED BY <1>1, <1>2, <1>3, <1>4, <1>5, <1>6, <1>7 DEF Plays

LEMMA LiveFromGood ==
  ASSUME NEW d \in Stores, d.row.status \in Open
  PROVE  LiveFrom(d) \in Lives /\ LiveOK(LiveFrom(d))
<1> DEFINE m == LiveFrom(d)
<1>1. d.row \in RowTypes /\ Placed(d.row)
  BY DEF Stores, Rows
<1>2. (IF d.row.phase \in {"reveal", "scores"} THEN StoredPlay(d) ELSE None) \in Maybe(Plays)
  BY StoredPlayTyped DEF Maybe
<1>3. Interrupted(d.row) \in BOOLEAN
  BY DEF Interrupted
<1>4. m \in Lives
  <2> DEFINE play == IF d.row.phase \in {"reveal", "scores"} THEN StoredPlay(d) ELSE None
             status == IF Interrupted(d.row) THEN "paused" ELSE d.row.status
             recovery == Interrupted(d.row) \/ d.row.recovery
             scored == \E i \in DOMAIN d.row.log : /\ d.row.log[i].revealed # None
                                                   /\ ~d.row.log[i].skipped
  <2>1. /\ status \in Open \cup Closed /\ recovery \in BOOLEAN /\ play \in Maybe(Plays)
        /\ scored \in BOOLEAN /\ None \in Maybe(Int)
    BY <1>1, <1>2 DEF RowTypes, Open, Maybe
  <2>2. /\ d.row.phase \in Phases /\ d.row.round \in Maybe(1..Len(Rounds))
        /\ d.row.question \in Maybe(Nat) /\ d.row.phaseId \in Nat
        /\ d.row.log \in Seq(Entries) /\ d.row.hostSeen \in BOOLEAN
    BY <1>1 DEF RowTypes
  <2>3. /\ d.joined \in Positions /\ d.removed \in Positions
        /\ d.extraTime \in [Players -> BOOLEAN] /\ d.score \in [Players -> Int]
    BY DEF Stores
  <2>4. m = [status |-> status, recovery |-> recovery, play |-> play, hasScored |-> scored,
             phase |-> d.row.phase, round |-> d.row.round, question |-> d.row.question,
             phaseId |-> d.row.phaseId, log |-> d.row.log, hostSeen |-> d.row.hostSeen,
             deadline |-> None, extraDeadline |-> None, pausedLeft |-> None,
             pausedExtra |-> None, joined |-> d.joined, removed |-> d.removed,
             extraTime |-> d.extraTime, score |-> d.score]
    BY DEF LiveFrom
  <2> HIDE DEF play, status, recovery, scored, m
  <2> QED BY <2>1, <2>2, <2>3, <2>4 DEF Lives
<1>5. /\ m.status = IF Interrupted(d.row) THEN "paused" ELSE d.row.status
      /\ m.recovery = (Interrupted(d.row) \/ d.row.recovery)
      /\ m.phase = d.row.phase /\ m.round = d.row.round /\ m.question = d.row.question
  BY DEF LiveFrom
<1> HIDE DEF m
<1>6. Placed(m)
  BY <1>1, <1>5 DEF Placed, AtQuestion, AtRound, InLobby, Cursor
<1>7. m.phase \in QuestionPhases => m.status = "paused" /\ m.recovery
  <2>1. d.row.status = "lobby" => d.row.phase = "lobby"
    BY <1>1 DEF Placed, InLobby
  <2> QED BY <1>5, <2>1 DEF Interrupted, Open, QuestionPhases
<1>8. LiveOK(m)
  BY <1>6, <1>7, PhaseFacts DEF LiveOK, PlayKept, Going, OnTheClock
<1> QED BY <1>4, <1>8 DEF m

LEMMA LoadCore == Core /\ Load => Core'
<1> SUFFICES ASSUME Core, Load PROVE Core'
  OBVIOUS
<1> DEFINE s == StepFrom(LiveFrom(db), None)
<1>1. LiveFrom(db) \in Lives /\ LiveOK(LiveFrom(db))
  BY LiveFromGood DEF Load, Core
<1>2. Good(s)
  BY <1>1, NoWritesTyped DEF StepFrom, Steps, Good, Maybe
<1>3. Execute(s) \/ Execute(Saved(s))
  BY DEF Load
<1> HIDE DEF s
<1> QED BY <1>2, <1>3, SavedGood, ExecuteCore

LEMMA OverTyped ==
  ASSUME NEW V, NEW f \in PartOf(V), NEW g \in [Players -> Maybe(V)]
  PROVE  Over(f, g) \in [Players -> Maybe(V)]
<1>1. PICK S \in SUBSET Players : f \in [S -> V]
  BY DEF PartOf
<1> QED BY <1>1 DEF Over, Maybe

LEMMA OverKinds ==
  ASSUME NEW V, NEW f \in PartOf(V), NEW g \in [Players -> V]
  PROVE  Over(f, g) \in [Players -> V]
<1>1. PICK S \in SUBSET Players : f \in [S -> V]
  BY DEF PartOf
<1> QED BY <1>1 DEF Over

LEMMA PartAt ==
  ASSUME NEW V, NEW f \in PartOf(V), NEW p \in DOMAIN f
  PROVE  f[p] \in V
<1>1. PICK S \in SUBSET Players : f \in [S -> V]
  BY DEF PartOf
<1> QED BY <1>1

LEMMA AnswerRowTyped ==
  ASSUME NEW d \in Stores, NEW b \in Writes, b.question \in Questions, NEW p \in Players
  PROVE  AnswerRow(d, b, p) \in Maybe(AnswerRows)
<1> DEFINE stored == IF b.wipe THEN None ELSE d.answers[b.question][p]
           row == IF p \in DOMAIN b.answers
                  THEN [payload |-> b.answers[p], points |-> 0, hidden |-> FALSE, shown |-> FALSE]
                  ELSE stored
<1>1. stored \in Maybe(AnswerRows)
  BY DEF Stores, Maybe
<1>2. row \in Maybe(AnswerRows)
  <2>1. CASE p \in DOMAIN b.answers
    <3>1. b.answers[p] \in {"right", "wrong", "text"}
      BY <2>1, PartAt DEF Writes
    <3> QED BY <2>1, <3>1 DEF AnswerRows, Maybe
  <2> QED BY <1>1, <2>1
<1>3. AnswerRow(d, b, p) =
        IF row = None THEN None
        ELSE [row EXCEPT !.shown  = @ \/ p \in b.shown,
                         !.hidden = IF p \in DOMAIN b.hidden THEN b.hidden[p] ELSE @,
                         !.points = IF p \in DOMAIN b.points THEN b.points[p] ELSE @]
  BY DEF AnswerRow
<1> HIDE DEF row
<1>4. CASE row # None
  <2> DEFINE shown  == row.shown \/ p \in b.shown
             hidden == IF p \in DOMAIN b.hidden THEN b.hidden[p] ELSE row.hidden
             points == IF p \in DOMAIN b.points THEN b.points[p] ELSE row.points
  <2>1. row \in AnswerRows
    BY <1>2, <1>4 DEF Maybe
  <2>2. shown \in BOOLEAN
    OBVIOUS
  <2>3. hidden \in BOOLEAN /\ points \in Int
    <3>1. b.hidden \in PartOf(BOOLEAN) /\ b.points \in PartOf(Int)
      BY DEF Writes
    <3> QED BY <2>1, <3>1, PartAt DEF AnswerRows
  <2>4. AnswerRow(d, b, p) = [row EXCEPT !.shown = shown, !.hidden = hidden, !.points = points]
    BY <1>3, <1>4, <2>1 DEF AnswerRows
  <2> HIDE DEF shown, hidden, points
  <2> QED BY <2>1, <2>2, <2>3, <2>4 DEF AnswerRows, Maybe
<1> QED BY <1>3, <1>4 DEF Maybe

LEMMA HiddenWithTyped ==
  ASSUME NEW rows \in [Players -> Maybe(AnswerRows)], NEW gone
  PROVE  HiddenWith(rows, gone) \in [Players -> Maybe(AnswerRows)]
<1>1. ASSUME NEW p \in Players, rows[p] # None
      PROVE  [rows[p] EXCEPT !.hidden = TRUE] \in AnswerRows
  <2>1. rows[p] \in AnswerRows
    BY <1>1 DEF Maybe
  <2> QED BY <2>1 DEF AnswerRows
<1> QED BY <1>1 DEF HiddenWith, Maybe

LEMMA AppliedTyped ==
  ASSUME NEW d \in Stores, NEW b \in Writes
  PROVE  Applied(d, b) \in Stores
<1> DEFINE row     == RowAfter(d, b)
           joined  == Over(b.joined, d.joined)
           removed == Over(b.removed, d.removed)
           extra   == Over(b.extraTime, d.extraTime)
           score   == Over(b.scores, d.score)
           answers == [x \in Questions |->
                        HiddenWith(IF x = b.question THEN [p \in Players |-> AnswerRow(d, b, p)]
                                   ELSE d.answers[x], DOMAIN b.removed)]
           votes   == [x \in Questions |->
                        IF x = b.question THEN [p \in Players |-> VoteRow(d, b, p)]
                        ELSE d.votes[x]]
           results == d.results \/ (RowAfter(d, b) # d.row /\ b.row.status = "finished")
<1>1. row \in Rows
  BY DEF RowAfter, Stores, Writes, Maybe
<1>2. joined \in Positions /\ removed \in Positions
  BY OverTyped DEF Stores, Writes, Positions
<1>3. extra \in [Players -> BOOLEAN] /\ score \in [Players -> Int]
  BY OverKinds DEF Stores, Writes
<1>4. answers \in [Questions -> [Players -> Maybe(AnswerRows)]]
  <2>1. ASSUME NEW x \in Questions
        PROVE  (IF x = b.question THEN [p \in Players |-> AnswerRow(d, b, p)] ELSE d.answers[x])
                 \in [Players -> Maybe(AnswerRows)]
    BY AnswerRowTyped DEF Stores
  <2> QED BY <2>1, HiddenWithTyped
<1>5. votes \in [Questions -> [Players -> Maybe(PlayerVotes)]]
  <2>1. ASSUME NEW x \in Questions, x = b.question, NEW p \in Players
        PROVE  VoteRow(d, b, p) \in Maybe(PlayerVotes)
    <3>1. d.votes[b.question][p] \in Maybe(PlayerVotes)
      BY <2>1 DEF Stores
    <3>2. b.votes \in PartOf(PlayerVotes)
      BY DEF Writes
    <3> QED BY <3>1, <3>2, PartAt DEF VoteRow, Maybe
  <2> QED BY <2>1 DEF Stores
<1>6. results \in BOOLEAN
  BY DEF Stores
<1>7. Applied(d, b) = IF Conflicts(d, b) THEN d
                      ELSE [row |-> row, joined |-> joined, removed |-> removed,
                            extraTime |-> extra, score |-> score, answers |-> answers,
                            votes |-> votes, results |-> results]
  BY DEF Applied
<1> HIDE DEF row, joined, removed, extra, score, answers, votes, results
<1> QED BY <1>1, <1>2, <1>3, <1>4, <1>5, <1>6, <1>7 DEF Stores

LEMMA ChainCore ==
  Core /\ (WriteBatch \/ LateWrite \/ WriteFails \/ LateWritesDropped) => Core'
<1> SUFFICES ASSUME Core, WriteBatch \/ LateWrite \/ WriteFails \/ LateWritesDropped PROVE Core'
  OBVIOUS
<1>1. ASSUME NEW q \in Seq(Writes), q # <<>> PROVE Head(q) \in Writes /\ Tail(q) \in Seq(Writes)
  BY <1>1
<1>2. CASE WriteBatch
  BY <1>1, <1>2, AppliedTyped DEF WriteBatch, Core
<1>3. CASE LateWrite
  BY <1>1, <1>3, AppliedTyped DEF LateWrite, Core
<1>4. CASE WriteFails
  BY <1>1, <1>4 DEF WriteFails, Core
<1>5. CASE LateWritesDropped
  <2>1. <<>> \in Seq(Writes)
    OBVIOUS
  <2> QED BY <1>5, <2>1 DEF LateWritesDropped, Core
<1> QED BY <1>2, <1>3, <1>4, <1>5

LEMMA BootedTyped ==
  ASSUME Core, Booted
  PROVE  db' \in Stores /\ (db.row.status \in Closed => db' = db)
<1>1. db \in Stores /\ db.row \in RowTypes /\ Placed(db.row)
  BY DEF Core, Stores, Rows
<1> DEFINE row == Recovered(db.row)
<1>2. row \in Rows
  <2>1. CASE db.row.status # "running"
    BY <1>1, <2>1 DEF Recovered, Rows
  <2>2. CASE db.row.status = "running"
    <3> DEFINE midway == db.row.phase \in QuestionPhases
               a      == [db.row EXCEPT !.status = "paused", !.recovery = midway]
    <3>1. row = a
      BY <2>2 DEF Recovered
    <3>2. a \in RowTypes
      <4>1. midway \in BOOLEAN
        OBVIOUS
      <4> HIDE DEF midway
      <4> QED BY <1>1, <4>1 DEF RowTypes, Open
    <3>3. Placed(a)
      BY <1>1 DEF RowTypes, Placed, AtQuestion, AtRound, InLobby, Cursor
    <3> QED BY <3>1, <3>2, <3>3 DEF Rows
  <2> QED BY <2>1, <2>2
<1>3. db' = db \/ db' = [db EXCEPT !.row = row]
  BY DEF Booted
<1>4. db.row.status \in Closed => row = db.row
  BY DEF Recovered, Closed
<1> HIDE DEF row
<1> QED BY <1>1, <1>2, <1>3, <1>4 DEF Stores

LEMMA NewProcessCore == Core /\ (Restart \/ Deploy) => Core'
<1> SUFFICES ASSUME Core, Restart \/ Deploy PROVE Core'
  OBVIOUS
<1>1. db' \in Stores
  BY BootedTyped DEF Restart, Deploy
<1>2. <<>> \in Seq(Writes)
  OBVIOUS
<1> QED BY <1>1, <1>2 DEF Restart, Deploy, Core, Maybe

LEMMA InitCore == Init => Core
<1> SUFFICES ASSUME Init PROVE Core
  OBVIOUS
<1>1. Nobody \in Positions /\ \A S : Nobody \in [Players -> Maybe(S)]
  BY DEF Nobody, Positions, Maybe
<1>2. FreshRow \in Rows
  <2>1. FreshRow \in RowTypes
    BY DEF FreshRow, RowTypes, Maybe, Open, Phases
  <2>2. Placed(FreshRow)
    BY DEF FreshRow, Placed, AtQuestion, AtRound, InLobby, QuestionPhases
  <2> QED BY <2>1, <2>2 DEF Rows
<1>3. db \in Stores
  BY <1>1, <1>2 DEF Init, Stores
<1>4. <<>> \in Seq(Writes)
  OBVIOUS
<1> QED BY <1>3, <1>4 DEF Init, Core, Maybe

\* What a step of the session may be.
LEMMA NextCore == Core /\ Next => Core'
<1> SUFFICES ASSUME Core, Next PROVE Core'
  OBVIOUS
<1>1. CASE HostActs
  BY <1>1, HostRepeatsCore, HostRefusedCore, HostStartCore, HostNextCore, HostRevealCore,
     HostSkipCore, HostShowAnswersCore, HostPauseCore, HostResumeCore, HostAddTimeCore,
     HostEndCore, HostHidesAnswerCore, HostShowsAnswerCore, HostPicksFavouriteCore, RoomCore
     DEF HostActs
<1>2. CASE PlayersAct
  BY <1>2, JoinLobbyCore, SetExtraTimeCore, RoomCore DEF PlayersAct
<1>3. CASE TimePasses
  BY <1>3, TickCore, TimerElapsedCore, HostLeavesCore DEF TimePasses
<1>4. CASE AbandonIfIdle \/ AbandonNow
  BY <1>4, AbandonCore, MarkAbandonedCore DEF AbandonIfIdle, AbandonNow
<1>5. CASE Load
  BY <1>5, LoadCore
<1>6. CASE WriteBatch \/ WriteFails \/ LateWrite \/ LateWritesDropped
  BY <1>6, ChainCore
<1>7. CASE Restart \/ Deploy
  BY <1>7, NewProcessCore
<1> QED BY <1>1, <1>2, <1>3, <1>4, <1>5, <1>6, <1>7 DEF Next

LEMMA StutterCore == Core /\ UNCHANGED vars => Core'
BY DEF vars, Core

LEMMA CoreAlways == Spec => []Core
BY InitCore, NextCore, StutterCore, PTL DEF Spec

LEMMA CoreTypes == Core => QuizTypeOK
<1> SUFFICES ASSUME Core PROVE QuizTypeOK
  OBVIOUS
<1>1. ASSUME live # None
      PROVE  /\ live.status \in Open /\ live.phase \in Phases
             /\ live.round \in Maybe(1..Len(Rounds)) /\ live.question \in Maybe(Nat)
             /\ live.phaseId \in Nat
             /\ {live.deadline, live.extraDeadline, live.pausedLeft, live.pausedExtra}
                  \subseteq Maybe(Int)
             /\ live.joined \in Positions /\ live.removed \in Positions
             /\ live.log \in Seq(Entries) /\ live.score \in [Players -> Int]
  BY <1>1 DEF Core, Lives
<1>2. ASSUME live # None, PlayNow(live) PROVE live.play \in Plays
  BY <1>2, PlayBegun
<1>3. timer # None => timer.id \in Nat /\ timer.left \in Int
  BY DEF Core, Timers, Maybe
<1>4. /\ db.row.status \in Open \cup Closed /\ db.row.phase \in Phases
      /\ db.row.log \in Seq(Entries) /\ db.score \in [Players -> Int]
  BY DEF Core, Stores, Rows, RowTypes
<1> QED BY <1>1, <1>2, <1>3, <1>4 DEF QuizTypeOK

\* The live state, the timer and the rows keep their types, whatever crashes, deploys,
\* failed writes and late batches come between a command and its rows.
THEOREM QuizTypeCorrect == Spec => []QuizTypeOK
BY CoreAlways, CoreTypes, PTL

----------------------------------------------------------------------------
(* A session that has ended. *)

LEMMA AppliedFinal ==
  ASSUME NEW d \in Stores, NEW b, d.row.status \in Closed
  PROVE  Applied(d, b).row = d.row /\ Applied(d, b).results = d.results
<1>1. RowAfter(d, b) = d.row
  BY DEF RowAfter, Open, Closed
<1>2. d.results \in BOOLEAN
  BY DEF Stores
<1> QED BY <1>1, <1>2 DEF Applied

LEMMA EndedStepFinal ==
  Core /\ [Next]_vars => [db.row.status \in Closed =>
                            db'.row.status = db.row.status /\ db'.results = db.results]_vars
<1> SUFFICES ASSUME Core, Next, db.row.status \in Closed
             PROVE  db'.row.status = db.row.status /\ db'.results = db.results
  OBVIOUS
<1>1. db \in Stores /\ db.row.status \notin Open
  BY DEF Core, Open, Closed
<1>2. CASE WriteBatch \/ LateWrite
  BY <1>1, <1>2, AppliedFinal DEF WriteBatch, LateWrite
<1>3. CASE Restart \/ Deploy
  BY <1>3, BootedTyped DEF Restart, Deploy
<1>4. CASE ~(WriteBatch \/ LateWrite \/ Restart \/ Deploy)
  <2>1. ASSUME NEW s, Execute(s) PROVE db' = db
    BY <2>1 DEF Execute
  <2>2. ~HostLeaves /\ ~MarkAbandoned
    BY <1>1 DEF HostLeaves, MarkAbandoned
  <2>3. CASE HostActs
    BY <2>1, <2>3, Zenon
       DEF HostActs, HostRepeats, HostRefused, HostStart, HostNext, HostReveal, HostSkip,
           HostShowAnswers, HostPause, HostResume, HostAddTime, HostEnd, HostHidesAnswer,
           HostShowsAnswer, HostPicksFavourite, HostRemovesPlayer, HostDoes
  <2>4. CASE PlayersAct
    BY <2>1, <2>4 DEF PlayersAct, JoinLobby, SetExtraTime, SubmitAnswer, SubmitVote, SubmitAgain
  <2>5. CASE TimePasses
    BY <2>1, <2>2, <2>5 DEF TimePasses, Tick, TimerElapsed
  <2>6. CASE AbandonIfIdle \/ AbandonNow
    BY <2>1, <2>2, <2>6 DEF AbandonIfIdle, AbandonNow, Abandon
  <2>7. CASE Load \/ WriteFails \/ LateWritesDropped
    BY <2>1, <2>7 DEF Load, WriteFails, LateWritesDropped
  <2> QED BY <1>4, <2>3, <2>4, <2>5, <2>6, <2>7 DEF Next
<1> QED BY <1>2, <1>3, <1>4

\* A row that has ended never opens again or changes how it ended: not by a batch still in
\* the chain of this process or the one before it, not by a boot, not by the sweep.
THEOREM EndedIsFinalHolds == Spec => EndedIsFinal
BY CoreAlways, EndedStepFinal, PTL DEF Spec, EndedIsFinal

----------------------------------------------------------------------------
(* Nobody is cut short. *)

LEMMA ExecuteLive ==
  ASSUME NEW s, Execute(s), live' # None
  PROVE  live' = s.live
BY DEF Execute

\* A phase that closes because all are done leaves nobody behind.
LEMMA SettledLeavesNobody ==
  ASSUME Core, NEW s, NEW p, SettledFor(s, p), live' # None,
         live.phase \in SubmissionPhases, PlayNow(live),
         NEW q \in Players \ {p}, StillToCome(q)
  PROVE  live'.phaseId = live.phaseId
<1> DEFINE t == CloseIfEveryoneDone(s)
<1>1. Good(t) /\ (t # s => ~\E r \in s.live.play.eligible : Awaited(s.live, r))
  BY CloseIfEveryoneDoneGood DEF SettledFor
<1>2. Awaited(s.live, q) /\ q \in s.live.play.eligible
  BY StillAwaited DEF SettledFor, StillToCome
<1>3. t = s
  BY <1>1, <1>2
<1>4. live' = t.live
  <2>1. Execute(t) \/ Execute(Saved(t))
    BY DEF SettledFor
  <2> HIDE DEF t
  <2>2. Saved(t).live = t.live
    BY <1>1, SavedFacts DEF Good
  <2> QED BY <2>1, <2>2, ExecuteLive
<1> HIDE DEF t
<1> QED BY <1>3, <1>4 DEF SettledFor

\* What was given is still there once the phase has closed.
LEMMA SettledKeeps ==
  ASSUME Core, NEW s, NEW p, SettledFor(s, p), live' # None
  PROVE  /\ live'.removed = s.live.removed /\ live'.play.votes = s.live.play.votes
         /\ \A q \in Players : s.live.play.answers[q] # None => live'.play.answers[q] # None
<1> DEFINE t == CloseIfEveryoneDone(s)
<1>1. Good(t) /\ (t = s \/ Keeps(s, t))
  BY CloseIfEveryoneDoneGood DEF SettledFor
<1>2. live' = t.live
  <2>1. Execute(t) \/ Execute(Saved(t))
    BY DEF SettledFor
  <2> HIDE DEF t
  <2>2. Saved(t).live = t.live
    BY <1>1, SavedFacts DEF Good
  <2> QED BY <2>1, <2>2, ExecuteLive
<1> HIDE DEF t
<1> QED BY <1>1, <1>2 DEF Keeps

LEMMA TimerCutsNobodyShort ==
  ASSUME Core, TimerElapsed, live' # None, live.phase \in SubmissionPhases, PlayNow(live),
         NEW p \in Players, StillToCome(p)
  PROVE  live'.phaseId = live.phaseId
<1> DEFINE s == StepFrom(live, None)
           t == Elapsed(s)
<1>1. Good(s) /\ s.live = live
  BY StepFromFacts DEF TimerElapsed, Ready, Maybe
<1>2. live.status = "running" =>
        t.live = live \/ (live.deadline <= -Grace /\ ~Waits(live, TRUE))
  BY <1>1, ElapsedGood
<1>3. Execute(s) \/ (live.status = "running" /\ Execute(t))
  BY DEF TimerElapsed
<1> HIDE DEF s, t
<1>4. ASSUME live.status = "running", live.deadline <= -Grace, ~Waits(live, TRUE) PROVE FALSE
  <2>1. live.deadline \in Int /\ live.extraDeadline \in Int
    BY <1>1, <1>4, PhaseFacts DEF Good, LiveOK, OnTheClock
  <2>2. live.deadline # None /\ live.extraDeadline # None
    BY <2>1, NoneAssumption
  <2>3. Awaited(live, p) /\ OwnDeadline(live, p) > -Grace
    BY <2>2 DEF StillToCome, OwnDeadline
  <2>4. CASE p \in live.play.extra
    BY <1>4, <2>2, <2>3, <2>4 DEF OwnDeadline, Waits
  <2>5. CASE p \notin live.play.extra
    BY <1>4, <2>1, <2>3, <2>5, TimeAssumption DEF OwnDeadline
  <2> QED BY <2>4, <2>5
<1>5. live' = live
  BY <1>1, <1>2, <1>3, <1>4, ExecuteLive
<1> QED BY <1>5

LEMMA NobodyStep ==
  Core /\ [Next]_vars =>
    [ /\ TimerElapsed \/ PlayersAct \/ \E q \in Players : HostRemovesPlayer(q)
      /\ live.phase \in SubmissionPhases /\ PlayNow(live) /\ live' # None
      => \A p \in Players : StillToCome(p) /\ live'.removed[p] = None => SubmittedBy(p)]_vars
<1> SUFFICES ASSUME Core,
                    TimerElapsed \/ PlayersAct \/ \E q \in Players : HostRemovesPlayer(q),
                    live.phase \in SubmissionPhases, PlayNow(live), live' # None,
                    NEW p \in Players, StillToCome(p), live'.removed[p] = None
             PROVE  SubmittedBy(p)
  OBVIOUS
<1>1. CASE TimerElapsed
  BY <1>1, TimerCutsNobodyShort DEF SubmittedBy
<1>2. ASSUME NEW q \in Players, HostRemovesPlayer(q) PROVE SubmittedBy(p)
  <2>1. PICK s : SettledFor(s, q) /\ s.live.removed[q] # None
    BY <1>2, HostRemovesPlayerSettles
  <2>2. p # q
    BY <2>1, SettledKeeps
  <2> QED BY <2>1, <2>2, SettledLeavesNobody DEF SubmittedBy
<1>3. ASSUME NEW q \in Players, SubmitAnswer(q) PROVE SubmittedBy(p)
  <2>1. PICK s : SettledFor(s, q) /\ s.live.play.answers[q] # None
    BY <1>3, SubmitAnswerSettles
  <2>2. live.phase # "vote"
    BY <1>3 DEF SubmitAnswer, MaySubmit
  <2>3. CASE p = q
    BY <2>1, <2>2, <2>3, SettledKeeps DEF SubmittedBy
  <2>4. CASE p # q
    BY <2>1, <2>4, SettledLeavesNobody DEF SubmittedBy
  <2> QED BY <2>3, <2>4
<1>4. ASSUME NEW q \in Players, SubmitVote(q) PROVE SubmittedBy(p)
  <2>1. PICK s : SettledFor(s, q) /\ s.live.play.votes[q] # None
    BY <1>4, SubmitVoteSettles
  <2>2. live.phase = "vote"
    BY <1>4 DEF SubmitVote, MaySubmit
  <2>3. CASE p = q
    BY <2>1, <2>2, <2>3, SettledKeeps DEF SubmittedBy
  <2>4. CASE p # q
    BY <2>1, <2>4, SettledLeavesNobody DEF SubmittedBy
  <2> QED BY <2>3, <2>4
<1>5. ASSUME NEW q \in Players, SubmitAgain(q) PROVE SubmittedBy(p)
  <2>1. p \in Players \ {None}
    BY NoneAssumption
  <2> QED BY <1>5, <2>1, SubmitAgainSettles, SettledLeavesNobody DEF SubmittedBy
<1>6. ASSUME NEW q \in Players, JoinLobby(q) \/ SetExtraTime(q) PROVE live'.phaseId = live.phaseId
  <2>1. live \in Lives
    BY <1>6 DEF Core, JoinLobby, SetExtraTime, Ready
  <2>2. CASE JoinLobby(q)
    <3> DEFINE s == [StepFrom(live, timer) EXCEPT !.live.joined[q] = live.phaseId,
                                                  !.writes.joined = Only(q, live.phaseId)]
    <3>1. Execute(s)
      BY <2>2 DEF JoinLobby
    <3>2. s.live = [live EXCEPT !.joined[q] = live.phaseId]
      BY DEF StepFrom
    <3> HIDE DEF s
    <3> QED BY <2>1, <3>1, <3>2, ExecuteLive DEF Lives
  <2>3. CASE SetExtraTime(q)
    <3> DEFINE s == [StepFrom(live, timer) EXCEPT !.live.extraTime[q] = ~@,
                                                  !.writes.extraTime = Only(q, ~live.extraTime[q])]
    <3>1. Execute(s)
      BY <2>3 DEF SetExtraTime
    <3>2. s.live = [live EXCEPT !.extraTime[q] = ~live.extraTime[q]]
      BY DEF StepFrom
    <3> HIDE DEF s
    <3> QED BY <2>1, <3>1, <3>2, ExecuteLive DEF Lives
  <2> QED BY <1>6, <2>2, <2>3
<1> QED BY <1>1, <1>2, <1>3, <1>4, <1>5, <1>6 DEF PlayersAct, SubmittedBy

\* Neither the timer, nor the last submission, nor a removal ends a phase for another
\* player who has time left, extra time and the grace period included.
THEOREM NobodyCutShortHolds == Spec => NobodyCutShort
BY CoreAlways, NobodyStep, PTL DEF Spec, NobodyCutShort

=============================================================================
