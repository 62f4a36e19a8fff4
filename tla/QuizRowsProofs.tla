---------------------------- MODULE QuizRowsProofs ----------------------------
(***************************************************************************)
(* That the rows of a Pulse Live session and its memory tell the same      *)
(* night, for any players, any quiz and a chain of any length: the stored  *)
(* scores are the sum of what was stored for each question, the rows catch *)
(* up with the memory, a reload rebuilds the play that was lost, and what  *)
(* the rows tell is a quiz night (QuizNight).                              *)
(*                                                                         *)
(* A command shows its outcome before its batch is written, so nothing of  *)
(* this can be seen from the memory and the rows as they are.  The         *)
(* invariant plays the chain out: there are contents of the store, one for *)
(* each batch of the chain, that begin with the rows as they are, go on    *)
(* from one to the next by at most one turn of the quiz (Follows), and end *)
(* with rows the memory agrees with (Chained, Stands).                     *)
(*                                                                         *)
(* QuizStepsProofs says what rows and memory must agree on (Base for the   *)
(* rows alone, Twin for both) and that every transition of the engine      *)
(* leaves a step whose writes, once committed, leave such rows (Sound).    *)
(* Here is first what those transitions do to the order of the quiz: each  *)
(* stays with the question it is at, asks the next one or reveals the last *)
(* one (Turns).  Then the commands built from them, one lemma for every    *)
(* action on a loaded session (Continues), and the chain: what a batch, a  *)
(* load, a crash or the sweep does to it.                                  *)
(***************************************************************************)
EXTENDS QuizStepsProofs

----------------------------------------------------------------------------
(* The order of the quiz. *)

Earlier(x, y) == x[1] < y[1] \/ (x[1] = y[1] /\ x[2] < y[2])
Sorted(log)   == \A i, j \in DOMAIN log : i < j => Earlier(log[i].at, log[j].at)

\* The questions that a state or a row has come to, by its phase and its cursor.
Reached(r, y) ==
  \/ r.phase \in AtPhases /\ UpTo(y, Cursor(r))
  \/ r.phase = "round_intro" /\ y[1] < r.round
  \/ r.phase = "leaderboard" /\ y[1] <= r.round

\* The log is in the order of the quiz and passes over no question.
InOrder(r) == Sorted(r.log) /\ \A y \in Questions : Reached(r, y) => y \in Asked(r.log)

\* From log g to log h nothing is asked or revealed, the next question is asked, or the
\* last one is revealed.
SameTurn(g, h, i) == h[i].at = g[i].at /\ h[i].revealed = g[i].revealed
Rests(g, h)       == Len(h) = Len(g) /\ \A i \in DOMAIN g : SameTurn(g, h, i)
Asks(g, h) ==
  /\ Len(h) = Len(g) + 1 /\ \A i \in DOMAIN g : SameTurn(g, h, i)
  /\ h[Len(h)].revealed = None /\ h[Len(h)].at \in Questions
  /\ \A y \in Questions : y \in Asked(g) <=> Earlier(y, h[Len(h)].at)
Discloses(g, h) ==
  /\ Len(h) = Len(g) /\ Len(g) > 0
  /\ \A i \in DOMAIN g : h[i].at = g[i].at /\ (i # Len(g) => h[i].revealed = g[i].revealed)
  /\ g[Len(g)].revealed = None /\ h[Len(g)].revealed # None

\* What may become of the row r: it stays with the question it is at, or it takes one turn.
Still(r, l) == InOrder(l) /\ Rests(r.log, l.log)
Turns(r, m) ==
  InOrder(m) /\ (Rests(r.log, m.log)
                 \/ (m.status \in Open /\ (Asks(r.log, m.log) \/ Discloses(r.log, m.log))))

LEMMA StillTurns ==
  ASSUME NEW r, NEW l, Still(r, l)
  PROVE  Turns(r, l)
BY DEF Still, Turns

LEMMA SameRowStill ==
  ASSUME NEW l, NEW r, SameRow(l, r), InOrder(r)
  PROVE  Still(r, l) /\ InOrder(l)
BY DEF SameRow, Still, InOrder, Rests, SameTurn, Reached, Cursor

\* Nothing is asked, and no question that was not asked is reached.
LEMMA EditStill ==
  ASSUME NEW r, NEW l, Still(r, l), NEW m, m.log = l.log,
         \A y \in Questions : Reached(m, y) => Reached(l, y)
  PROVE  Still(r, m)
BY DEF Still, InOrder

LEMMA StaysStill ==
  ASSUME NEW r, NEW l, Still(r, l), NEW m, StaysAt(l, m)
  PROVE  Still(r, m)
<1>1. \A y \in Questions : Reached(m, y) => Reached(l, y)
  BY DEF StaysAt, Reached, Cursor
<1> QED BY <1>1, EditStill DEF StaysAt

LEMMA StaysHere ==
  ASSUME NEW r, InOrder(r), NEW l, StaysAt(r, l)
  PROVE  Still(r, l)
<1>1. Rests(r.log, l.log)
  BY DEF StaysAt, Rests, SameTurn
<1>2. \A y \in Questions : Reached(l, y) => Reached(r, y)
  BY DEF StaysAt, Reached, Cursor
<1> QED BY <1>1, <1>2 DEF Still, InOrder, StaysAt

LEMMA RowTurns ==
  ASSUME NEW r, NEW l, Turns(r, l)
  PROVE  Turns(r, Row(l)) /\ InOrder(Row(l))
<1>1. /\ Row(l).log = l.log /\ Row(l).phase = l.phase /\ Row(l).round = l.round
      /\ Row(l).question = l.question /\ Row(l).status = l.status
  BY DEF Row
<1>2. \A y \in Questions : Reached(Row(l), y) <=> Reached(l, y)
  BY <1>1 DEF Reached, Cursor
<1> QED BY <1>1, <1>2 DEF Turns, InOrder

LEMMA LogPlaces ==
  ASSUME NEW log \in Seq(Entries)
  PROVE  /\ Len(log) \in Nat /\ DOMAIN log = 1..Len(log)
         /\ \A i \in DOMAIN log : /\ log[i] \in Entries /\ log[i].at \in Questions
                                  /\ log[i].at[1] \in Nat /\ log[i].at[2] \in Nat
                                  /\ log[i].revealed \in Maybe(Nat)
<1>1. \A i \in DOMAIN log : log[i] \in Entries
  OBVIOUS
<1>2. \A i \in DOMAIN log : log[i].at \in Questions /\ log[i].revealed \in Maybe(Nat)
  BY <1>1 DEF Entries
<1>3. \A x \in Questions : x[1] \in Nat /\ x[2] \in Nat
  BY QuestionPlace, QuizFacts
<1> QED BY <1>1, <1>2, <1>3

\* The next question of the quiz is asked.
LEMMA OpensTurns ==
  ASSUME NEW r, r.log \in Seq(Entries), NEW l \in Lives, Still(r, l), NEW x \in Questions,
         NEW m, Opens(l, m, x), m.status \in Open,
         \A y \in Questions : y \in Asked(l.log) <=> Earlier(y, x)
  PROVE  Turns(r, m)
<1> DEFINE g == r.log
           k == l.log
           h == m.log
           n == Len(k)
           e == NewEntry(l, x)
<1>1. /\ k \in Seq(Entries) /\ h = Append(k, e) /\ e.at = x /\ e.revealed = None
      /\ m.phase \in AtPhases /\ Cursor(m) = x
  BY DEF Opens, NewEntry, Lives, AtPhases, QuestionPhases
<1>2. /\ DOMAIN h = 1..(n + 1) /\ DOMAIN k = 1..n /\ n \in Nat /\ h[n + 1] = e
      /\ (\A i \in DOMAIN k : h[i] = k[i]) /\ Len(h) = n + 1
  BY <1>1, AppendAt
<1>3. Len(g) = n /\ DOMAIN g = 1..n /\ \A i \in DOMAIN g : SameTurn(g, k, i)
  BY LogPlaces DEF Still, Rests
<1>4. Sorted(k)
  BY DEF Still, InOrder
<1>5. Asked(g) = Asked(k)
  BY <1>2, <1>3 DEF Asked, SameTurn
<1>6. \A i \in DOMAIN k : Earlier(k[i].at, x)
  <2>1. \A i \in DOMAIN k : k[i].at \in Asked(k) /\ k[i].at \in Questions
    BY <1>1, LogPlaces DEF Asked
  <2> QED BY <2>1
<1> HIDE DEF g, k, h, n, e
<1>7. Sorted(h)
  <2> SUFFICES ASSUME NEW i \in 1..(n + 1), NEW j \in 1..(n + 1), i < j
               PROVE  Earlier(h[i].at, h[j].at)
    BY <1>2 DEF Sorted
  <2>1. i \in DOMAIN k /\ h[i] = k[i]
    BY <1>2
  <2>2. CASE j = n + 1
    BY <1>1, <1>2, <1>6, <2>1, <2>2
  <2>3. CASE j # n + 1
    <3>1. j \in DOMAIN k
      BY <1>2, <2>3
    <3> QED BY <1>2, <1>4, <2>1, <3>1 DEF Sorted
  <2> QED BY <2>2, <2>3
<1>8. Asked(k) \subseteq Asked(h) /\ x \in Asked(h)
  <2>1. \A i \in DOMAIN k : i \in DOMAIN h
    BY <1>2
  <2>2. n + 1 \in DOMAIN h
    BY <1>2
  <2> QED BY <1>1, <1>2, <2>1, <2>2 DEF Asked
<1>9. ASSUME NEW y \in Questions, Reached(m, y) PROVE y \in Asked(h)
  <2>1. UpTo(y, x)
    BY <1>1, <1>9 DEF Reached, AtPhases, QuestionPhases, RevealPhases
  <2>2. y = <<y[1], y[2]>> /\ x = <<x[1], x[2]>> /\ y[2] \in Nat /\ x[2] \in Nat
    BY QuestionPlace
  <2>3. y = x \/ Earlier(y, x)
    BY <2>1, <2>2 DEF UpTo, Earlier
  <2> QED BY <1>8, <2>3 DEF k
<1>10. Asks(g, h)
  <2>1. \A i \in DOMAIN g : SameTurn(g, h, i)
    BY <1>2, <1>3 DEF SameTurn
  <2>2. \A y \in Questions : y \in Asked(g) <=> Earlier(y, x)
    BY <1>5 DEF k
  <2> QED BY <1>1, <1>2, <1>3, <2>1, <2>2 DEF Asks
<1> QED BY <1>7, <1>9, <1>10 DEF Turns, InOrder, g, h

\* The question that is on is the last one that was asked.
LEMMA CursorLast ==
  ASSUME NEW l, l.log \in Seq(Entries), Sorted(l.log), LogPlaced(l), l.phase \in AtPhases,
         NEW i \in DOMAIN l.log, l.log[i].at = Cursor(l)
  PROVE  i = Len(l.log)
<1> DEFINE k == l.log
           n == Len(k)
<1> SUFFICES ASSUME i # n PROVE FALSE
  OBVIOUS
<1>1. n \in Nat /\ i < n /\ n \in DOMAIN k
  BY LogPlaces
<1>2. Earlier(k[i].at, k[n].at)
  BY <1>1 DEF Sorted
<1>3. UpTo(k[n].at, k[i].at)
  BY <1>1 DEF LogPlaced, EntryPlaced
<1>4. /\ k[i].at[1] \in Nat /\ k[i].at[2] \in Nat /\ k[n].at[1] \in Nat /\ k[n].at[2] \in Nat
  BY <1>1, LogPlaces
<1> HIDE DEF k, n
<1> QED BY <1>2, <1>3, <1>4 DEF Earlier, UpTo

\* The question that is on is revealed.
LEMMA RevealsTurns ==
  ASSUME NEW r, r.log \in Seq(Entries), NEW l \in Lives, Still(r, l), LogPlaced(l),
         l.phase \in QuestionPhases, Cursor(l) = l.play.at,
         NEW i \in DOMAIN l.log, l.log[i].at = l.play.at,
         NEW m, Reveals(l, m, i), m.status \in Open
  PROVE  Turns(r, m)
<1> DEFINE g == r.log
           k == l.log
           h == m.log
           x == Cursor(l)
           n == Len(k)
<1>1. /\ k \in Seq(Entries) /\ l.phaseId \in Nat /\ l.phase \in AtPhases
      /\ h = [k EXCEPT ![i].revealed = l.phaseId + 1] /\ Cursor(m) = x /\ m.phase = "reveal"
  BY DEF Lives, AtPhases, Reveals
<1>2. n \in Nat /\ DOMAIN k = 1..n /\ DOMAIN g = 1..n /\ Len(g) = n
      /\ (\A j \in DOMAIN g : SameTurn(g, k, j)) /\ \A j \in DOMAIN k : k[j] \in Entries
  BY <1>1, LogPlaces DEF Still, Rests
<1>3. h \in Seq(Entries)
  <2>1. l.phaseId + 1 \in Maybe(Nat)
    BY <1>1 DEF Maybe
  <2> QED BY <1>1, <2>1, LogTyped
<1>4. /\ DOMAIN h = DOMAIN k /\ Len(h) = n
      /\ \A j \in DOMAIN k : h[j].at = k[j].at /\ (j # i => h[j].revealed = k[j].revealed)
      /\ h[i].revealed = l.phaseId + 1
  <2>1. DOMAIN h = DOMAIN k /\ (\A j \in DOMAIN k : j # i => h[j] = k[j])
        /\ h[i] = [k[i] EXCEPT !.revealed = l.phaseId + 1]
    BY <1>1
  <2>2. h[i].at = k[i].at /\ h[i].revealed = l.phaseId + 1
    BY <1>2, <2>1 DEF Entries
  <2>3. Len(h) = n
    BY <1>2, <1>3, <2>1
  <2> HIDE DEF h
  <2> QED BY <2>1, <2>2, <2>3
<1>5. k[i].revealed = None
  BY <1>1 DEF LogPlaced, EntryPlaced, QuestionPhases, RevealPhases
<1>6. i = n
  BY <1>1, CursorLast DEF Still, InOrder
<1>7. Sorted(h)
  BY <1>4 DEF Sorted, Still, InOrder
<1>8. Asked(h) = Asked(k)
  BY <1>4 DEF Asked
<1>9. \A y \in Questions : Reached(m, y) => Reached(l, y)
  BY <1>1 DEF Reached, AtPhases, RevealPhases
<1>10. Discloses(g, h)
  <2>1. k[i].revealed = g[i].revealed /\ i = Len(g) /\ n > 0
    BY <1>2, <1>6 DEF SameTurn
  <2>2. l.phaseId + 1 # None
    BY <1>1, NoneAssumption
  <2> HIDE DEF g, h, k, n
  <2> QED BY <1>2, <1>4, <1>5, <1>6, <2>1, <2>2 DEF Discloses, SameTurn
<1> QED BY <1>7, <1>8, <1>9, <1>10 DEF Turns, Still, InOrder

----------------------------------------------------------------------------
(* The phases, and the turns they take. *)

\* A step so far that has asked and revealed nothing that is not in the row r.
Poised(r, s) ==
  r.log \in Seq(Entries) /\ Good(s) /\ LogPlaced(s.live) /\ Still(r, s.live)

LEMMA LevelPoised ==
  ASSUME NEW d, NEW s, Level(d, s), Still(d.row, s.live)
  PROVE  Poised(d.row, s)
<1>1. d \in Stores /\ LogPlaced(s.live) /\ Good(s)
  BY LevelHere DEF Level, Tells
<1>2. d.row.log \in Seq(Entries)
  BY <1>1 DEF Stores, Rows, RowTypes
<1> QED BY <1>1, <1>2 DEF Poised

LEMMA PoisedFacts ==
  ASSUME NEW r, NEW s, Poised(r, s)
  PROVE  /\ s \in Steps /\ s.live \in Lives /\ LiveOK(s.live) /\ s.live.log \in Seq(Entries)
         /\ Still(r, s.live) /\ Sorted(s.live.log) /\ LogPlaced(s.live)
         /\ \A y \in Questions : Reached(s.live, y) => y \in Asked(s.live.log)
         /\ \A y \in Questions : y[1] \in Nat /\ y[2] \in Nat
         /\ \A y \in Asked(s.live.log) : \E i \in DOMAIN s.live.log : s.live.log[i].at = y
<1>1. Good(s) /\ Still(r, s.live) /\ LogPlaced(s.live)
  BY DEF Poised
<1>2. s \in Steps /\ s.live \in Lives /\ s.live.log \in Seq(Entries) /\ LiveOK(s.live)
  BY <1>1, GoodTypes
<1>3. \A y \in Questions : y[1] \in Nat /\ y[2] \in Nat
  BY QuestionPlace, QuizFacts
<1>4. \A y \in Asked(s.live.log) : \E i \in DOMAIN s.live.log : s.live.log[i].at = y
  BY DEF Asked
<1> QED BY <1>1, <1>2, <1>3, <1>4 DEF Still, InOrder

\* What has been asked, by the phase.
LEMMA AskedHere ==
  ASSUME NEW r, NEW s, Poised(r, s), NEW y \in Questions
  PROVE  /\ s.live.phase \in AtPhases =>
              (y \in Asked(s.live.log) <=> UpTo(y, Cursor(s.live)))
         /\ s.live.phase = "round_intro" => (y \in Asked(s.live.log) <=> y[1] < s.live.round)
         /\ s.live.phase = "leaderboard" => (y \in Asked(s.live.log) <=> y[1] <= s.live.round)
<1>1. Reached(s.live, y) => y \in Asked(s.live.log)
  BY PoisedFacts
<1>2. y \in Asked(s.live.log) =>
        /\ s.live.phase \in AtPhases => UpTo(y, Cursor(s.live))
        /\ s.live.phase = "round_intro" => y[1] < s.live.round
        /\ s.live.phase = "leaderboard" => y[1] <= s.live.round
  BY PoisedFacts DEF LogPlaced, EntryPlaced
<1> QED BY <1>1, <1>2 DEF Reached

LEMMA OpenQuestionTurns ==
  ASSUME NEW r, NEW s, Poised(r, s), s.live.status = "running", NEW x \in Questions,
         \A y \in Questions : y \in Asked(s.live.log) <=> Earlier(y, x)
  PROVE  Turns(r, OpenQuestion(s, x).live)
<1>1. s \in Steps /\ s.live \in Lives /\ Still(r, s.live) /\ r.log \in Seq(Entries)
  BY PoisedFacts DEF Poised
<1>2. Opens(s.live, OpenQuestion(s, x).live, x)
  BY <1>1, OpenQuestionOpens
<1>3. OpenQuestion(s, x).live.status \in Open
  BY <1>1, OpenQuestionGood DEF Leaves, Open
<1> QED BY <1>1, <1>2, <1>3, OpensTurns

\* A phase is saved as it begins.
LEMMA UntimedSaved ==
  ASSUME NEW s \in Steps, NEW phase \in Phases,
         NEW round \in Maybe(1..Len(Rounds)), NEW question \in Maybe(Nat)
  PROVE  LET u == Untimed(s, phase, round, question)
         IN  Saved(u).live = u.live /\ Comes(s.live, u.live, phase, round, question)
<1> DEFINE u == Untimed(s, phase, round, question)
<1>1. None \in Maybe(Int)
  BY DEF Maybe
<1>2. u \in Steps
  BY <1>1, AdvanceComes DEF Untimed
<1>3. Comes(s.live, u.live, phase, round, question)
  BY UntimedComes
<1> HIDE DEF u
<1>4. Saved(u).live = u.live
  BY <1>2, SavedFacts
<1> QED BY <1>3, <1>4 DEF u

LEMMA TimedSteps ==
  ASSUME NEW s \in Steps, NEW phase \in Phases
  PROVE  Timed(s, phase) \in Steps
<1> DEFINE t == Advance(s, phase, s.live.round, s.live.question, AnswerTime, ExtraTime)
<1>1. /\ s.live.round \in Maybe(1..Len(Rounds)) /\ s.live.question \in Maybe(Nat)
      /\ AnswerTime \in Maybe(Int) /\ ExtraTime \in Maybe(Int)
  BY CursorTyped, TimeAssumption DEF Maybe
<1>2. t \in Steps
  BY <1>1, AdvanceComes
<1> HIDE DEF t
<1> QED BY <1>2, ArmedFacts DEF Timed, t

\* One phase comes after another, and no question that was not asked is reached.
LEMMA ComesStill ==
  ASSUME NEW r, NEW l, Still(r, l), NEW m, NEW phase, NEW round, NEW question,
         Comes(l, m, phase, round, question),
         \A y \in Questions :
           /\ phase \in AtPhases /\ UpTo(y, <<round, question>>) => y \in Asked(l.log)
           /\ phase = "round_intro" /\ y[1] < round => y \in Asked(l.log)
           /\ phase = "leaderboard" /\ y[1] <= round => y \in Asked(l.log)
  PROVE  Still(r, m)
BY DEF Still, InOrder, Reached, Comes, Passes, Cursor

\* A phase of the same question.
LEMMA ComesHereStill ==
  ASSUME NEW r, NEW s, Poised(r, s), s.live.phase \in AtPhases, NEW phase \in AtPhases, NEW m,
         Comes(s.live, m, phase, s.live.round, s.live.question)
  PROVE  Still(r, m)
<1>1. Still(r, s.live)
  BY DEF Poised
<1>2. \A y \in Questions : UpTo(y, <<s.live.round, s.live.question>>) => y \in Asked(s.live.log)
  BY AskedHere DEF Cursor
<1>3. phase # "round_intro" /\ phase # "leaderboard"
  BY DEF AtPhases, QuestionPhases, RevealPhases
<1> QED BY <1>1, <1>2, <1>3, ComesStill

LEMMA OpenAnswersStill ==
  ASSUME NEW r, NEW s, Poised(r, s), s.live.phase = "read"
  PROVE  Still(r, OpenAnswers(s).live)
<1> DEFINE u == Timed(s, "open")
<1>1. /\ s \in Steps /\ "open" \in Phases /\ "open" \in AtPhases /\ s.live.phase \in AtPhases
      /\ LiveOK(s.live)
  BY PoisedFacts, PhaseFacts DEF QuestionPhases, AtPhases
<1>2. Comes(s.live, u.live, "open", s.live.round, s.live.question)
  BY <1>1, TimedComes
<1>3. u \in Steps
  BY <1>1, TimedSteps
<1> HIDE DEF u
<1>4. Still(r, u.live)
  BY <1>1, <1>2, ComesHereStill
<1> QED BY <1>3, <1>4, SavedFacts DEF OpenAnswers, u

LEMMA ShowScoresStill ==
  ASSUME NEW r, NEW s, Poised(r, s), s.live.phase = "reveal"
  PROVE  Still(r, ShowScores(s).live)
<1>1. s \in Steps /\ "scores" \in Phases /\ "scores" \in AtPhases /\ s.live.phase \in AtPhases
  BY PoisedFacts DEF Phases, AtPhases, RevealPhases
<1> DEFINE u == Untimed(s, "scores", s.live.round, s.live.question)
<1>2. /\ Comes(s.live, u.live, "scores", s.live.round, s.live.question)
      /\ Saved(u).live = u.live
  BY <1>1, CursorTyped, UntimedSaved
<1> HIDE DEF u
<1>3. Still(r, u.live)
  BY <1>1, <1>2, ComesHereStill
<1> QED BY <1>2, <1>3 DEF ShowScores, u

LEMMA OpenRoundIntroStill ==
  ASSUME NEW r, NEW s, Poised(r, s), NEW n \in 1..Len(Rounds),
         \A y \in Questions : y[1] < n => y \in Asked(s.live.log)
  PROVE  Still(r, OpenRoundIntro(s, n).live)
<1> DEFINE u == Untimed(s, "round_intro", n, None)
<1>1. s \in Steps /\ "round_intro" \in Phases /\ Still(r, s.live)
  BY PoisedFacts DEF Phases
<1>2. n \in Maybe(1..Len(Rounds)) /\ None \in Maybe(Nat)
  BY DEF Maybe
<1>3. Comes(s.live, u.live, "round_intro", n, None) /\ Saved(u).live = u.live
  BY <1>1, <1>2, UntimedSaved
<1>4. "round_intro" \notin AtPhases /\ "round_intro" # "leaderboard"
  BY DEF AtPhases, QuestionPhases, RevealPhases
<1> HIDE DEF u
<1>5. u.live.log = s.live.log /\ u.live.phase = "round_intro" /\ u.live.round = n
  BY <1>3 DEF Comes, Passes
<1>6. Still(r, u.live)
  BY <1>1, <1>4, <1>5 DEF Still, InOrder, Reached
<1> QED BY <1>3, <1>6 DEF OpenRoundIntro, u

LEMMA ShowLeaderboardStill ==
  ASSUME NEW r, NEW s, Poised(r, s), s.live.round \in 1..Len(Rounds),
         \A y \in Questions : y[1] <= s.live.round => y \in Asked(s.live.log)
  PROVE  Still(r, ShowLeaderboard(s).live)
<1> DEFINE u == Untimed(s, "leaderboard", s.live.round, None)
<1>1. s \in Steps /\ "leaderboard" \in Phases /\ Still(r, s.live)
  BY PoisedFacts DEF Phases
<1>2. s.live.round \in Maybe(1..Len(Rounds)) /\ None \in Maybe(Nat)
  BY DEF Maybe
<1>3. Comes(s.live, u.live, "leaderboard", s.live.round, None) /\ Saved(u).live = u.live
  BY <1>1, <1>2, UntimedSaved
<1>4. "leaderboard" \notin AtPhases /\ "leaderboard" # "round_intro"
  BY DEF AtPhases, QuestionPhases, RevealPhases
<1> HIDE DEF u
<1>5. u.live.log = s.live.log /\ u.live.phase = "leaderboard" /\ u.live.round = s.live.round
  BY <1>3 DEF Comes, Passes
<1>6. Still(r, u.live)
  BY <1>1, <1>4, <1>5 DEF Still, InOrder, Reached
<1> QED BY <1>3, <1>6 DEF ShowLeaderboard, u

\* The podium, and the end.
LEMMA LastPhaseStill ==
  ASSUME NEW r, NEW s, Poised(r, s), NEW status \in Open \cup Closed,
         NEW phase \in {"podium", "ended"}
  PROVE  Still(r, Saved(Untimed([s EXCEPT !.live.status = status, !.timer = None],
                                phase, None, None)).live)
<1> DEFINE t == [s EXCEPT !.live.status = status, !.timer = None]
           u == Untimed(t, phase, None, None)
<1>1. s \in Steps /\ phase \in Phases /\ Still(r, s.live)
  BY PoisedFacts DEF Phases
<1>2. t \in Steps /\ Passes(s.live, t.live)
  BY <1>1, StoppedPasses
<1>3. None \in Maybe(1..Len(Rounds)) /\ None \in Maybe(Nat)
  BY DEF Maybe
<1> HIDE DEF t
<1>4. Comes(t.live, u.live, phase, None, None) /\ Saved(u).live = u.live
  BY <1>1, <1>2, <1>3, UntimedSaved
<1>5. phase \notin AtPhases /\ phase # "round_intro" /\ phase # "leaderboard"
  BY DEF AtPhases, QuestionPhases, RevealPhases
<1> HIDE DEF u
<1>6. u.live.log = s.live.log /\ u.live.phase = phase
  BY <1>2, <1>4 DEF Comes, Passes
<1>7. Still(r, u.live)
  BY <1>1, <1>5, <1>6, EditStill DEF Reached
<1> QED BY <1>4, <1>7 DEF u, t

LEMMA ShowPodiumStill ==
  ASSUME NEW r, NEW s, Poised(r, s)
  PROVE  Still(r, ShowPodium(s).live)
BY LastPhaseStill DEF ShowPodium, Open

LEMMA EndSessionStill ==
  ASSUME NEW r, NEW s, Poised(r, s), NEW status \in Closed
  PROVE  Still(r, EndSession(s, status).live)
BY LastPhaseStill DEF EndSession

\* After a question: the next one of its round, or the end of the round or of the quiz.
LEMMA AfterQuestionTurns ==
  ASSUME NEW r, NEW s, Poised(r, s), s.live.status = "running", s.live.phase \in AtPhases
  PROVE  Turns(r, AfterQuestion(s).live)
<1> DEFINE x == Cursor(s.live)
           z == <<x[1], x[2] + 1>>
<1>1. s \in Steps /\ LiveOK(s.live) /\ s.live \in Lives
  BY PoisedFacts
<1>2. x \in Questions /\ \A y \in Questions : y \in Asked(s.live.log) <=> UpTo(y, x)
  BY <1>1, AskedHere DEF LiveOK, Placed, AtQuestion, AtPhases, RevealPhases
<1>3. /\ x[1] \in 1..Len(Rounds) /\ x[2] \in Nat /\ x[1] = s.live.round
      /\ x[1] \in Nat
  BY <1>2, QuestionPlace, QuizFacts DEF Cursor
<1>4. \A y \in Questions : /\ y[1] \in Nat /\ y[2] \in Nat
                           /\ y[2] <= Rounds[y[1]].size /\ Rounds[y[1]].size \in Nat
  BY QuestionPlace, QuizFacts
<1> HIDE DEF x
<1>5. CASE ~IsLast(x)
  <2>1. z \in Questions /\ z[1] = x[1] /\ z[2] = x[2] + 1
    BY <1>2, <1>5, NextQuestion
  <2>2. AfterQuestion(s) = OpenQuestion(s, z)
    BY <1>5 DEF AfterQuestion, x
  <2> HIDE DEF z
  <2>3. \A y \in Questions : UpTo(y, x) <=> Earlier(y, z)
    BY <1>3, <1>4, <2>1 DEF UpTo, Earlier
  <2> QED BY <1>2, <2>1, <2>2, <2>3, OpenQuestionTurns
<1>6. CASE IsLast(x) /\ ~IsLastRound(x[1])
  <2>1. AfterQuestion(s) = ShowLeaderboard(s)
    BY <1>6 DEF AfterQuestion, x
  <2>2. \A y \in Questions : y[1] <= x[1] => UpTo(y, x)
    BY <1>3, <1>4, <1>6 DEF UpTo, IsLast
  <2>3. Still(r, ShowLeaderboard(s).live)
    BY <1>2, <1>3, <2>2, ShowLeaderboardStill
  <2> QED BY <2>1, <2>3, StillTurns
<1>7. CASE IsLast(x) /\ IsLastRound(x[1])
  <2>1. AfterQuestion(s) = ShowPodium(s)
    BY <1>7 DEF AfterQuestion, x
  <2> QED BY <2>1, ShowPodiumStill, StillTurns
<1> QED BY <1>5, <1>6, <1>7

\* The first question of a round.
LEMMA FirstQuestionTurns ==
  ASSUME NEW r, NEW s, Poised(r, s), s.live.status = "running", s.live.phase = "round_intro"
  PROVE  Turns(r, OpenQuestion(s, <<s.live.round, 1>>).live)
<1> DEFINE x == <<s.live.round, 1>>
<1>1. s.live.round \in 1..Len(Rounds) /\ x \in Questions
  BY PoisedFacts, FirstQuestion DEF LiveOK, Placed, AtRound
<1>2. \A y \in Questions : /\ y \in Asked(s.live.log) <=> y[1] < s.live.round
                           /\ y[1] \in Nat /\ y[2] \in Nat /\ y[2] >= 1
  BY AskedHere, QuestionPlace, QuizFacts
<1>3. x[1] = s.live.round /\ x[2] = 1
  OBVIOUS
<1> HIDE DEF x
<1>4. \A y \in Questions : y[1] < s.live.round <=> Earlier(y, x)
  BY <1>1, <1>2, <1>3 DEF Earlier
<1> QED BY <1>1, <1>2, <1>4, OpenQuestionTurns DEF x

\* A question is in play and has not been revealed.
Asking(s) ==
  /\ InPlay(s) /\ s.live.phase \in QuestionPhases
  /\ s.live.play.at = Cursor(s.live) /\ ~s.live.play.scored

LEMMA SoundAsking ==
  ASSUME NEW d, NEW s, Sound(d, s), InPlay(s), s.live.phase \in QuestionPhases
  PROVE  Asking(s)
<1>1. s.live.play \in Plays /\ s.live.play # None
  BY RowsAssumption DEF InPlay
<1>2. ~s.live.play.scored
  BY <1>1, ScoredAt
<1>3. s.live.play.at = Cursor(s.live)
  BY <1>1 DEF Sound, PhaseFits, Here, AtPhases
<1> QED BY <1>2, <1>3 DEF Asking

LEMMA SortedOnce ==
  ASSUME NEW log \in Seq(Entries), Sorted(log)
  PROVE  Once(log)
<1> SUFFICES ASSUME NEW i \in DOMAIN log, NEW j \in DOMAIN log, log[i].at = log[j].at, i # j
             PROVE  FALSE
  BY DEF Once
<1>1. i < j \/ j < i
  BY LogPlaces
<1>2. log[i].at[1] \in Nat /\ log[i].at[2] \in Nat
  BY LogPlaces
<1>3. Earlier(log[i].at, log[i].at)
  BY <1>1 DEF Sorted
<1> QED BY <1>2, <1>3 DEF Earlier

LEMMA RevealQuestionTurns ==
  ASSUME NEW r, NEW s, Poised(r, s), Asking(s)
  PROVE  Turns(r, RevealQuestion(s).live)
<1> DEFINE l == s.live
<1>1. /\ l \in Lives /\ l.log \in Seq(Entries) /\ Still(r, l) /\ Sorted(l.log) /\ LogPlaced(l)
      /\ r.log \in Seq(Entries)
  BY PoisedFacts DEF Poised
<1>2. InPlay(s) /\ l.phase \in QuestionPhases /\ Cursor(l) = l.play.at /\ ~l.play.scored
  BY DEF Asking
<1>3. PICK i \in DOMAIN l.log : l.log[i].at = l.play.at
  BY <1>1, <1>2 DEF LogPlaced, Asked, AtPhases
<1>4. i = EntryOf(l.log, l.play.at)
  BY <1>1, <1>3, SortedOnce, EntryOfIs
<1>5. Reveals(l, RevealQuestion(s).live, i)
  BY <1>2, <1>4, RevealQuestionReveals
<1>6. RevealQuestion(s).live.status \in Open
  BY <1>2, RevealQuestionGood DEF Leaves, Open
<1> QED BY <1>1, <1>2, <1>3, <1>5, <1>6, RevealsTurns

\* A step poised still when its log and its place are the same.
LEMMA PoisedAlike ==
  ASSUME NEW r, NEW s, Poised(r, s), NEW t, Good(t), t.live.log = s.live.log,
         t.live.phase = s.live.phase, Cursor(t.live) = Cursor(s.live),
         t.live.round = s.live.round
  PROVE  Poised(r, t)
BY DEF Poised, Still, InOrder, Reached, LogPlaced, EntryPlaced

\* The step in which a play goes to the vote.
LEMMA VoteBegins ==
  ASSUME NEW r, NEW s, Poised(r, s), Asking(s), NEW options \in SUBSET PlayerVotes,
         NEW authors \in SUBSET Players,
         NEW t, t = [s EXCEPT !.live.play.options = options,
                              !.writes.question = s.live.play.at, !.writes.shown = authors]
  PROVE  Poised(r, t) /\ Asking(t)
<1> DEFINE play   == s.live.play
           played == [play EXCEPT !.options = options]
           m      == [s.live EXCEPT !.play = played]
           w      == Showing(s.writes, play.at, authors)
           u      == [s EXCEPT !.live = m]
<1>1. /\ s \in Steps /\ play \in Plays /\ s.live \in Lives /\ LiveOK(s.live)
      /\ play.at \in Questions
  BY PoisedFacts DEF Asking, InPlay, Plays
<1>2. played \in Plays /\ played.at = play.at /\ played.scored = play.scored
  BY <1>1 DEF Plays, Maybe
<1>3. w \in Writes
  <2>1. play.at \in Maybe(Questions)
    BY <1>1 DEF Maybe
  <2> HIDE DEF play
  <2> QED BY <1>1, <2>1 DEF Steps, Writes, Showing
<1>4. t = [u EXCEPT !.writes = w]
  BY <1>1 DEF Steps, Showing
<1> HIDE DEF played, w
<1>5. m \in Lives /\ m.play = played /\ SameMoment(s.live, m) /\ m.log = s.live.log
  <2>1. m = [s.live EXCEPT !.play = played] /\ s.live \in Lives /\ played \in Plays
    BY <1>1, <1>2
  <2> HIDE DEF m
  <2> QED BY <2>1, PlayReplaced DEF SamePlaceAs
<1>6. u \in Steps /\ u.live = m
  <2> HIDE DEF m
  <2> QED BY <1>1, <1>5, WithLive
<1> HIDE DEF u, m
<1>7. t \in Steps /\ t.live = m
  BY <1>3, <1>4, <1>6, WithWrites
<1>8. LiveOK(m)
  BY <1>1, <1>2, <1>5, SameMomentOK
<1>9. Good(t) /\ t.live.log = s.live.log /\ t.live.phase = s.live.phase
      /\ Cursor(t.live) = Cursor(s.live) /\ t.live.round = s.live.round
      /\ t.live.status = s.live.status
  BY <1>5, <1>7, <1>8 DEF Good, SameMoment, Cursor
<1>10. Poised(r, t)
  BY <1>9, PoisedAlike
<1> QED BY <1>2, <1>5, <1>7, <1>9, <1>10 DEF Asking, InPlay

LEMMA StartVoteTurns ==
  ASSUME NEW r, NEW s, Poised(r, s), Asking(s)
  PROVE  Turns(r, StartVote(s).live)
<1> DEFINE authors == Visible(s.live.play)
           options == ToVote(s.live.play)
           t == [s EXCEPT !.live.play.options = options,
                          !.writes.question = s.live.play.at, !.writes.shown = authors]
           u == Timed(t, "vote")
<1>1. authors \in SUBSET Players /\ options \in SUBSET PlayerVotes
  BY DEF Visible, Answered, PlayerVotes, ToVote
<1>2. StartVote(s) = IF Cardinality(options) < 2 THEN RevealQuestion(t) ELSE Saved(u)
  BY DEF StartVote, ToVote
<1> HIDE DEF authors, options
<1>3. Poised(r, t) /\ Asking(t)
  BY <1>1, VoteBegins
<1> HIDE DEF t
<1>4. Turns(r, RevealQuestion(t).live)
  BY <1>3, RevealQuestionTurns
<1>5. "vote" \in Phases /\ "vote" \in AtPhases /\ t \in Steps /\ t.live.phase \in AtPhases
  BY <1>3, PoisedFacts, PhaseFacts DEF QuestionPhases, AtPhases, Asking
<1>6. u \in Steps /\ Comes(t.live, u.live, "vote", t.live.round, t.live.question)
  BY <1>5, TimedSteps, TimedComes
<1> HIDE DEF u
<1>7. Still(r, u.live)
  BY <1>3, <1>5, <1>6, ComesHereStill
<1>8. Turns(r, Saved(u).live)
  BY <1>6, <1>7, SavedFacts, StillTurns
<1> QED BY <1>2, <1>4, <1>8

LEMMA AfterWriteTurns ==
  ASSUME NEW r, NEW s, Poised(r, s), Asking(s)
  PROVE  Turns(r, AfterWrite(s).live)
<1> DEFINE u == Untimed(s, "review", s.live.round, s.live.question)
<1>1. s \in Steps /\ "review" \in Phases /\ "review" \in AtPhases /\ s.live.phase \in AtPhases
  BY PoisedFacts DEF Phases, AtPhases, QuestionPhases, Asking
<1>2. Comes(s.live, u.live, "review", s.live.round, s.live.question) /\ Saved(u).live = u.live
  BY <1>1, CursorTyped, UntimedSaved
<1>3. AfterWrite(s) = Saved(u) \/ AfterWrite(s) = StartVote(s)
  BY DEF AfterWrite
<1> HIDE DEF u
<1>4. Still(r, u.live)
  BY <1>1, <1>2, ComesHereStill
<1>5. Turns(r, Saved(u).live)
  BY <1>2, <1>4, StillTurns
<1> QED BY <1>3, <1>5, StartVoteTurns

LEMMA CloseTimedPhaseTurns ==
  ASSUME NEW r, NEW s, Poised(r, s), Asking(s), NEW waits \in BOOLEAN
  PROVE  Turns(r, CloseTimedPhase(s, waits).live)
<1>1. Still(r, s.live) /\ InPlay(s) /\ Good(s)
  BY DEF Poised, Asking
<1>2. CASE Waits(s.live, waits)
  <2>1. CloseTimedPhase(s, waits).live = s.live
    BY <1>1, <1>2, CloseTimedPhaseGood
  <2> QED BY <1>1, <2>1, StillTurns
<1>3. CASE ~Waits(s.live, waits)
  <2>1. CloseTimedPhase(s, waits) = IF s.live.phase = "write" THEN AfterWrite(s)
                                    ELSE RevealQuestion(s)
    BY <1>3 DEF CloseTimedPhase, Waits
  <2> QED BY <2>1, AfterWriteTurns, RevealQuestionTurns
<1> QED BY <1>2, <1>3

LEMMA CloseIfEveryoneDoneTurns ==
  ASSUME NEW d, NEW s, Sound(d, s), Still(d.row, s.live)
  PROVE  Turns(d.row, CloseIfEveryoneDone(s).live)
<1>1. CASE CloseIfEveryoneDone(s) = s
  BY <1>1, StillTurns
<1>2. CASE CloseIfEveryoneDone(s) # s
  <2>1. /\ s.live.status = "running" /\ s.live.phase \in SubmissionPhases
        /\ CloseIfEveryoneDone(s) = CloseTimedPhase(s, FALSE)
    BY <1>2 DEF CloseIfEveryoneDone
  <2>2. Good(s) /\ s.live.phase \in QuestionPhases /\ Poised(d.row, s)
    BY <2>1, PhaseFacts, LevelHere, LevelPoised DEF Sound
  <2>3. Asking(s)
    BY <2>1, <2>2, InPlayHere, SoundAsking
  <2> QED BY <2>1, <2>2, <2>3, CloseTimedPhaseTurns
<1> QED BY <1>1, <1>2

LEMMA NextEffectsTurns ==
  ASSUME NEW d, NEW s, Sound(d, s), Still(d.row, s.live), s.live.status = "running",
         s.live.phase \in NextAllowed
  PROVE  Turns(d.row, NextEffects(s).live)
<1> DEFINE here == s.live
           r == d.row
<1>1. Poised(r, s) /\ Good(s) /\ LiveOK(here) /\ s \in Steps
  BY LevelPoised, PoisedFacts DEF Sound, Poised
<1>2. here.phase \in QuestionPhases => Asking(s)
  BY <1>1, InPlayHere, SoundAsking
<1> HIDE DEF r
<1>3. CASE here.phase = "round_intro"
  <2>1. NextEffects(s) = OpenQuestion(s, <<here.round, 1>>)
    BY <1>3 DEF NextEffects, SubmissionPhases
  <2> QED BY <1>1, <1>3, <2>1, FirstQuestionTurns DEF r
<1>4. CASE here.phase = "read"
  <2>1. NextEffects(s) = OpenAnswers(s)
    BY <1>4 DEF NextEffects, SubmissionPhases
  <2> QED BY <1>1, <1>4, <2>1, OpenAnswersStill, StillTurns DEF r
<1>5. CASE here.phase \in SubmissionPhases
  <2>1. NextEffects(s) = CloseTimedPhase(s, FALSE)
    BY <1>5 DEF NextEffects, SubmissionPhases
  <2> QED BY <1>1, <1>2, <1>5, <2>1, PhaseFacts, CloseTimedPhaseTurns DEF r
<1>6. CASE here.phase = "review"
  <2>1. NextEffects(s) = StartVote(s)
    BY <1>6 DEF NextEffects, SubmissionPhases
  <2> QED BY <1>1, <1>2, <1>6, <2>1, StartVoteTurns DEF QuestionPhases, r
<1>7. CASE here.phase = "reveal"
  <2>1. NextEffects(s) = IF IsParty(Cursor(here)) THEN AfterQuestion(s) ELSE ShowScores(s)
    BY <1>7 DEF NextEffects, SubmissionPhases
  <2>2. Turns(r, ShowScores(s).live)
    BY <1>1, <1>7, ShowScoresStill, StillTurns
  <2>3. Turns(r, AfterQuestion(s).live)
    BY <1>1, <1>7, AfterQuestionTurns DEF AtPhases, RevealPhases
  <2> QED BY <2>1, <2>2, <2>3 DEF r
<1>8. CASE here.phase = "scores"
  <2>1. NextEffects(s) = AfterQuestion(s)
    BY <1>8 DEF NextEffects, SubmissionPhases
  <2> QED BY <1>1, <1>8, <2>1, AfterQuestionTurns DEF AtPhases, RevealPhases, r
<1>9. CASE here.phase = "leaderboard"
  <2>1. NextEffects(s) = OpenRoundIntro(s, here.round + 1)
    BY <1>9 DEF NextEffects, SubmissionPhases
  <2>2. here.round + 1 \in 1..Len(Rounds) /\ here.round \in 1..Len(Rounds)
    BY <1>1, <1>9 DEF LiveOK, Placed, AtRound
  <2>3. \A y \in Questions : y[1] < here.round + 1 => y \in Asked(here.log)
    <3>1. \A y \in Questions : y[1] \in Nat /\ (y \in Asked(here.log) <=> y[1] <= here.round)
      BY <1>1, <1>9, AskedHere, PoisedFacts
    <3> HIDE DEF here
    <3> QED BY <2>2, <3>1, QuizFacts
  <2> QED BY <1>1, <2>1, <2>2, <2>3, OpenRoundIntroStill, StillTurns DEF r
<1>10. CASE here.phase = "podium"
  <2>1. NextEffects(s) = EndSession(s, "finished")
    BY <1>10 DEF NextEffects, SubmissionPhases
  <2>2. "finished" \in Closed
    BY DEF Closed
  <2> QED BY <1>1, <2>1, <2>2, EndSessionStill, StillTurns DEF r
<1> QED BY <1>3, <1>4, <1>5, <1>6, <1>7, <1>8, <1>9, <1>10
        DEF NextAllowed, Phases, QuestionPhases, SubmissionPhases

LEMMA ElapsedTurns ==
  ASSUME NEW d, NEW s, Sound(d, s), Still(d.row, s.live), s.live.status = "running"
  PROVE  Turns(d.row, Elapsed(s).live)
<1> DEFINE here == s.live
           r == d.row
           t == Elapsed(s)
<1>1. Poised(r, s) /\ Good(s) /\ LiveOK(here) /\ s \in Steps
  BY LevelPoised, PoisedFacts DEF Sound, Poised
<1>2. here.phase \in QuestionPhases => Asking(s)
  BY <1>1, InPlayHere, SoundAsking
<1>3. Turns(r, Armed(s).live) /\ Turns(r, here)
  BY <1>1, ArmedFacts, StillTurns
<1> HIDE DEF r, t
<1>4. CASE here.phase = "read"
  <2>1. here.deadline \in Int
    BY <1>1, <1>4 DEF LiveOK, OnTheClock, TimedPhases
  <2>2. t = Armed(s) \/ t = OpenAnswers(s)
    BY <1>4, <2>1 DEF Elapsed, SubmissionPhases, t
  <2>3. Turns(r, OpenAnswers(s).live)
    BY <1>1, <1>4, OpenAnswersStill, StillTurns
  <2> QED BY <1>3, <2>2, <2>3 DEF r, t
<1>5. CASE here.phase \in SubmissionPhases
  <2>1. here.deadline \in Int
    BY <1>1, <1>5, PhaseFacts DEF LiveOK, OnTheClock
  <2>2. here.phase # "read" /\ (here.deadline > -Grace \/ here.deadline <= -Grace)
    BY <1>5, <2>1, TimeAssumption DEF SubmissionPhases
  <2>3. t = Armed(s) \/ t = CloseTimedPhase(s, TRUE)
    <3>1. CASE here.deadline <= -Grace
      <4>1. ~(here.deadline > -Grace)
        BY <2>1, <3>1, TimeAssumption
      <4> QED BY <1>5, <2>2, <3>1, <4>1 DEF Elapsed, t
    <3>2. CASE here.deadline > -Grace
      <4>1. ~(here.deadline <= -Grace)
        BY <2>1, <3>2, TimeAssumption
      <4> QED BY <1>5, <2>2, <3>2, <4>1 DEF Elapsed, t
    <3> QED BY <2>2, <3>1, <3>2
  <2>4. Turns(r, CloseTimedPhase(s, TRUE).live)
    BY <1>1, <1>2, <1>5, PhaseFacts, CloseTimedPhaseTurns
  <2> QED BY <1>3, <2>3, <2>4 DEF r, t
<1>6. CASE here.phase \notin SubmissionPhases \cup {"read"}
  <2>1. t = s
    BY <1>6 DEF Elapsed, t
  <2> QED BY <1>3, <2>1 DEF r, t
<1> QED BY <1>4, <1>5, <1>6

\* Of a question that was asked last, only its own place in the log is given up.
LEMMA WithoutLast ==
  ASSUME NEW log \in Seq(Entries), NEW x, Len(log) > 0, log[Len(log)].at = x,
         \A k \in 1..(Len(log) - 1) : log[k].at # x
  PROVE  /\ Without(log, x) \in Seq(Entries) /\ Len(Without(log, x)) = Len(log) - 1
         /\ \A k \in 1..(Len(log) - 1) : Without(log, x)[k] = log[k]
<1> DEFINE n == Len(log)
           f == KeptOf(log, x, n)
           Copies(g, i) == /\ g \in Seq(Entries) /\ Len(g) = i
                           /\ \A k \in 1..i : g[k] = log[k]
           C == {i \in 0..(n - 1) : ~Copies(f[i], i)}
<1>1. n \in Nat /\ n > 0 /\ KeptOver(f, log, x, n) /\ \A k \in 1..n : log[k] \in Entries
  BY KeptExists
<1>2. Without(log, x) = f[n]
  BY DEF Without, KeptOf, KeptOver
<1>3. \A i \in 0..n : f[i] = IF i = 0 THEN <<>> ELSE IF log[i].at = x THEN f[i - 1]
                             ELSE Append(f[i - 1], log[i])
  BY <1>1 DEF KeptOver
<1>4. log[n].at = x /\ \A k \in 1..(n - 1) : log[k].at # x
  OBVIOUS
<1> HIDE DEF n, f
<1>5. ASSUME C # {} PROVE FALSE
  <2>1. PICK i \in C : \A k \in C : i <= k
    <3>1. C \in SUBSET Nat
      BY <1>1
    <3> HIDE DEF C
    <3> QED BY <1>5, <3>1, LeastNatural
  <2>2. ~Copies(f[i], i) /\ i \in 0..(n - 1)
    OBVIOUS
  <2>3. i # 0
    <3>1. Copies(<<>>, 0)
      OBVIOUS
    <3>2. f[0] = <<>>
      BY <1>1, <1>3
    <3> HIDE DEF Copies
    <3> QED BY <2>2, <3>1, <3>2
  <2> HIDE DEF C
  <2>4. i - 1 \in 0..(n - 1) /\ ~(i <= i - 1) /\ i \in 1..(n - 1) /\ i \in 0..n
    BY <1>1, <2>2, <2>3
  <2>5. Copies(f[i - 1], i - 1)
    BY <2>1, <2>4 DEF C
  <2>6. f[i] = Append(f[i - 1], log[i]) /\ log[i] \in Entries
    <3>1. log[i].at # x
      BY <1>4, <2>4
    <3>2. f[i] = IF i = 0 THEN <<>> ELSE IF log[i].at = x THEN f[i - 1]
                 ELSE Append(f[i - 1], log[i])
      BY <1>3, <2>4
    <3>3. i \in 1..n
      BY <1>1, <2>4
    <3>4. \A k \in 1..n : log[k] \in Entries
      BY <1>1
    <3> QED BY <2>3, <3>1, <3>2, <3>3, <3>4
  <2>7. Copies(f[i], i)
    <3> DEFINE g == f[i - 1]
               h == f[i]
    <3>1. /\ g \in Seq(Entries) /\ Len(g) = i - 1 /\ (\A k \in 1..(i - 1) : g[k] = log[k])
          /\ h = Append(g, log[i])
      BY <2>5, <2>6
    <3> HIDE DEF g, h
    <3>2. h \in Seq(Entries) /\ Len(h) = i
      BY <2>4, <2>6, <3>1
    <3>3. \A k \in 1..i : h[k] = log[k]
      <4> TAKE k \in 1..i
      <4>1. CASE k = i
        BY <2>4, <3>1, <4>1
      <4>2. CASE k # i
        <5>1. k \in 1..(i - 1)
          BY <2>4, <4>2
        <5> QED BY <3>1, <5>1
      <4> QED BY <4>1, <4>2
    <3> QED BY <3>2, <3>3 DEF h
  <2> QED BY <2>2, <2>7
<1>6. n - 1 \in 0..(n - 1) /\ n \in 0..n /\ n # 0
  BY <1>1
<1>7. Copies(f[n - 1], n - 1)
  BY <1>5, <1>6
<1>8. f[n] = f[n - 1]
  BY <1>3, <1>4, <1>6
<1> QED BY <1>2, <1>7, <1>8 DEF n

----------------------------------------------------------------------------
(* The changes that leave the session where it is. *)

LEMMA HideAnswerStays ==
  ASSUME NEW s \in Steps, s.live.play \in Plays, NEW p \in Players,
         s.live.play.answers[p] # None
  PROVE  StaysAt(s.live, HideAnswer(s, p).live)
<1> DEFINE l == s.live
           t == HideAnswer(s, p)
<1>1. \A v \in Steps : SaveScoring(v).live = v.live
  BY DEF SaveScoring, Steps
<1>2. ASSUME NEW v, NEW play, NEW score, Edits(s, v, play, score)
      PROVE  StaysAt(l, v.live) /\ StaysAt(l, SaveScoring(v).live)
  BY <1>1, <1>2 DEF Edits, SameMoment, StaysAt
<1>3. IF l.phase = "review" \/ l.play.options = None
      THEN Edits(s, t, HiddenIn(l.play, p), l.score)
      ELSE IF ~l.play.scored THEN Edits(s, t, Passed(l.play, p), l.score)
      ELSE \E v : Edits(s, v, Voided(l.play, p), Docked(l, p)) /\ t = SaveScoring(v)
  BY HideAnswerIs
<1> HIDE DEF t, l
<1> QED BY <1>2, <1>3 DEF t, l

LEMMA FavouredStays ==
  ASSUME NEW s, Good(s), s.live.play \in Plays, NEW p \in Players
  PROVE  StaysAt(s.live, Favoured(s, p).live)
<1> DEFINE t == [s EXCEPT !.live.play = Picked(@, p), !.live.score[p] = @ + 1]
<1>1. s \in Steps /\ s.live \in Lives
  BY CursorTyped DEF Good
<1>2. Favoured(s, p).live = t.live
  BY <1>1 DEF Favoured, SaveScoring, Steps
<1>3. /\ t.live.log = s.live.log /\ t.live.phase = s.live.phase
      /\ t.live.round = s.live.round /\ t.live.question = s.live.question
  BY <1>1 DEF Steps, Lives
<1> QED BY <1>2, <1>3 DEF StaysAt

LEMMA ShownStays ==
  ASSUME NEW s, Good(s), NEW p \in Players, NEW hidden \in BOOLEAN
  PROVE  LET u == [s EXCEPT !.live.play.answers[p].hidden = hidden]
         IN  StaysAt(s.live, Hiding(u, p, hidden).live)
<1> DEFINE u == [s EXCEPT !.live.play.answers[p].hidden = hidden]
<1>1. s \in Steps /\ s.live \in Lives
  BY CursorTyped DEF Good
<1>2. Hiding(u, p, hidden).live = u.live
  BY <1>1 DEF Hiding, Steps
<1>3. /\ u.live.log = s.live.log /\ u.live.phase = s.live.phase
      /\ u.live.round = s.live.round /\ u.live.question = s.live.question
  BY <1>1 DEF Steps, Lives
<1> HIDE DEF u
<1> QED BY <1>2, <1>3 DEF StaysAt, u

LEMMA SkippedStill ==
  ASSUME NEW d, NEW s, Sound(d, s), Still(d.row, s.live), s.live.play # None,
         s.live.phase \in QuestionPhases
  PROVE  Poised(d.row, Skipped(s))
<1> DEFINE l == s.live
           m == Skipped(s).live
<1>1. /\ Level(d, Skipped(s)) /\ m.phase = l.phase /\ m.round = l.round
      /\ Cursor(m) = Cursor(l) /\ SameEntries(l.log, m.log)
  BY SkippedLevel
<1>2. Still(d.row, l) /\ l.log \in Seq(Entries) /\ m.log \in Seq(Entries)
      /\ d.row.log \in Seq(Entries)
  <2>1. Level(d, s) /\ Poised(d.row, s)
    BY LevelPoised DEF Sound
  <2> QED BY <1>1, <2>1, PoisedFacts, LevelHere, GoodTypes DEF Poised
<1> HIDE DEF l, m
<1>3. /\ DOMAIN m.log = DOMAIN l.log /\ Len(m.log) = Len(l.log) /\ Asked(m.log) = Asked(l.log)
      /\ \A i \in DOMAIN l.log : m.log[i].at = l.log[i].at /\ m.log[i].revealed = l.log[i].revealed
  <2>1. DOMAIN m.log = DOMAIN l.log
        /\ \A i \in DOMAIN l.log : m.log[i].at = l.log[i].at /\ m.log[i].revealed = l.log[i].revealed
    BY <1>1 DEF SameEntries
  <2> QED BY <1>2, <2>1 DEF Asked
<1>4. \A y \in Questions : Reached(m, y) => Reached(l, y)
  BY <1>1 DEF Reached
<1>5. Sorted(m.log)
  BY <1>2, <1>3 DEF Still, InOrder, Sorted
<1>6. Rests(d.row.log, m.log)
  <2>1. DOMAIN d.row.log = DOMAIN l.log
    BY <1>2, LogPlaces DEF Still, Rests
  <2> QED BY <1>2, <1>3, <2>1 DEF Still, Rests, SameTurn
<1>7. Still(d.row, m)
  BY <1>2, <1>3, <1>4, <1>5, <1>6 DEF Still, InOrder
<1> QED BY <1>1, <1>7, LevelPoised DEF m

LEMMA BelowLast ==
  ASSUME NEW n \in Nat
  PROVE  (n \in 1..n => n > 0) /\ \A i \in 1..(n - 1) : i \in 1..n /\ i # n
OBVIOUS

\* The last question is taken out of the log and asked again.
LEMMA ReopenedStill ==
  ASSUME NEW r, r.log \in Seq(Entries), NEW l, l.log \in Seq(Entries), Still(r, l),
         LogPlaced(l), l.phase \in QuestionPhases, NEW x \in Questions, x = Cursor(l),
         NEW m, m.log = Without(l.log, x), NEW u, Opens(m, u, x)
  PROVE  Still(r, u)
<1> DEFINE k == l.log
           n == Len(k)
           g == m.log
           e == NewEntry(m, x)
           h == u.log
<1>1. /\ k \in Seq(Entries) /\ Sorted(k) /\ g = Without(k, x) /\ h = Append(g, e)
      /\ e.at = x /\ e.revealed = None /\ n \in Nat /\ DOMAIN k = 1..n
  BY LogPlaces DEF Still, InOrder, Opens, NewEntry
<1>2. \A i \in DOMAIN k : k[i].at = x => i = n /\ k[i].revealed = None
  <2>1. \A i \in DOMAIN k : k[i].at = x => i = n
    BY <1>1, CursorLast DEF AtPhases
  <2>2. \A i \in DOMAIN k : k[i].at = x => k[i].revealed = None
    BY DEF LogPlaced, EntryPlaced, AtPhases, QuestionPhases, RevealPhases
  <2> QED BY <2>1, <2>2
<1>3. \E i \in DOMAIN k : k[i].at = x
  BY DEF LogPlaced, AtPhases, Asked
<1>4. n > 0 /\ k[n].at = x /\ k[n].revealed = None /\ \A i \in 1..(n - 1) : k[i].at # x
  <2>1. n \in Nat /\ DOMAIN k = 1..n
    BY <1>1
  <2> HIDE DEF k, n
  <2>2. n \in DOMAIN k /\ k[n].at = x /\ k[n].revealed = None
    BY <1>2, <1>3, Zenon
  <2>3. \A i \in 1..(n - 1) : i \in DOMAIN k /\ i # n
    BY <2>1, BelowLast, Zenon
  <2>4. n > 0
    BY <2>1, <2>2, BelowLast, Zenon
  <2> QED BY <1>2, <2>2, <2>3, <2>4, Zenon
<1> HIDE DEF k, g, h, e
<1>5. g \in Seq(Entries) /\ Len(g) = n - 1 /\ \A i \in 1..(n - 1) : g[i] = k[i]
  BY <1>1, <1>4, WithoutLast, Zenon
<1>6. /\ Len(h) = n /\ DOMAIN h = 1..n /\ h[n] = e
      /\ \A i \in 1..(n - 1) : h[i] = k[i]
  <2>0. g \in Seq(Entries) /\ h = Append(g, e)
    BY <1>1, <1>5
  <2>1. /\ DOMAIN h = 1..(Len(g) + 1) /\ DOMAIN g = 1..Len(g) /\ h[Len(g) + 1] = e
        /\ \A i \in DOMAIN g : h[i] = g[i]
    BY <2>0, AppendAt
  <2>2. Len(h) = Len(g) + 1
    BY <2>0
  <2>3. Len(g) + 1 = n /\ Len(g) = n - 1
    BY <1>1, <1>5
  <2> HIDE DEF n
  <2> QED BY <1>5, <2>1, <2>2, <2>3
<1> HIDE DEF n
<1>7. \A i \in 1..n : h[i].at = k[i].at /\ h[i].revealed = k[i].revealed
  <2> TAKE i \in 1..n
  <2>1. CASE i = n
    BY <1>1, <1>4, <1>6, <2>1
  <2>2. CASE i # n
    <3>1. i \in 1..(n - 1)
      BY <1>1, <2>2
    <3> QED BY <1>6, <3>1
  <2> QED BY <2>1, <2>2
<1>8. Sorted(h) /\ Asked(h) = Asked(k)
  BY <1>1, <1>6, <1>7 DEF Sorted, Asked
<1>9. Rests(r.log, h)
  <2>1. Len(r.log) = n /\ DOMAIN r.log = 1..n /\ \A i \in DOMAIN r.log : SameTurn(r.log, k, i)
    BY LogPlaces DEF Still, Rests, n, k
  <2> QED BY <1>6, <1>7, <2>1 DEF Rests, SameTurn
<1>10. \A y \in Questions : Reached(u, y) => y \in Asked(k)
  <2>1. Cursor(u) = Cursor(l) /\ u.phase \in AtPhases /\ l.phase \in AtPhases
    BY DEF Opens, AtPhases, QuestionPhases
  <2>2. u.phase # "round_intro" /\ u.phase # "leaderboard"
    BY DEF Opens
  <2>3. \A y \in Questions : Reached(u, y) => Reached(l, y)
    BY <2>1, <2>2 DEF Reached
  <2> QED BY <2>3 DEF Still, InOrder, k
<1> QED BY <1>8, <1>9, <1>10 DEF Still, InOrder, h

----------------------------------------------------------------------------
(* A command, on the rows d that the chain leads to. *)

\* The rows as the chain will leave them are d, and the memory agrees with them.
Backed(d) == live # None /\ d \in Stores /\ Base(d) /\ InOrder(d.row) /\ Twin(live, d)

\* A command's step keeps the books on d and takes at most one turn of the quiz; one that
\* saves no row leaves what the row says.
Steady(d, s)  == Sound(d, s) /\ (~s.saves => SameRow(s.live, d.row)) /\ Turns(d.row, s.live)
Continues(d)  == \E s : Execute(s) /\ Steady(d, s)

LEMMA FindsFits ==
  ASSUME NEW l, NEW m, Finds(l, m), PhaseFits(l)
  PROVE  PhaseFits(m)
BY DEF Finds, SameMoment, PhaseFits, Here, Suits, Cursor

LEMMA BackedStart ==
  ASSUME Core, NEW d, Backed(d), NEW s, Good(s), NothingYet(s.writes), Finds(live, s.live)
  PROVE  /\ Sound(d, s) /\ SameRow(s.live, d.row) /\ Still(d.row, s.live)
         /\ d.row.status \in Open
         /\ s.live.play = live.play /\ s.live.phase = live.phase /\ s.live.status = live.status
<1>1. /\ d \in Stores /\ d.row.status \in Open /\ Base(d)
  BY DEF Backed, Core, Twin, Fits, Mirrors, SameRow
<1>2. SameRow(live, d.row) /\ Mirrors(live, d)
  BY DEF Backed, Twin, Fits, Mirrors
<1>3. /\ s.live.log = d.row.log /\ s.live.phase = d.row.phase /\ s.live.round = d.row.round
      /\ s.live.question = d.row.question /\ s.live.phaseId = d.row.phaseId
      /\ s.live.status = d.row.status
  BY <1>2 DEF SameRow, Finds, SameMoment
<1>4. /\ s.live.joined = d.joined /\ s.live.removed = d.removed
      /\ s.live.extraTime = d.extraTime /\ s.live.score = d.score
      /\ s.live.hasScored <=> \E i \in DOMAIN d.row.log : d.row.log[i].revealed # None
  BY <1>2 DEF Mirrors, Finds
<1>5. s.live.play # None => PlayOf(s.live.play, d)
  BY DEF Backed, Twin, Fits, Finds
<1>6. PhaseFits(s.live)
  BY FindsFits DEF Backed, Twin
<1>7. Sound(d, s)
  BY <1>1, <1>3, <1>4, <1>5, <1>6, StartSound
<1>8. SameRow(s.live, d.row)
  BY <1>3 DEF SameRow
<1>9. Still(d.row, s.live)
  BY <1>8, SameRowStill DEF Backed
<1> QED BY <1>1, <1>7, <1>8, <1>9 DEF Finds, SameMoment

LEMMA BegunSound ==
  ASSUME Core, NEW d, Backed(d)
  PROVE  /\ Sound(d, Begun) /\ NothingYet(Begun.writes) /\ SameRow(Begun.live, d.row)
         /\ Still(d.row, Begun.live)
         /\ Good(Begun) /\ Begun \in Steps /\ Finds(live, Begun.live)
         /\ Begun.live.play = live.play /\ Begun.live.phase = live.phase
         /\ Begun.live.status = live.status
<1>1. live # None
  BY DEF Backed
<1>2. Begun.writes = NoWrites
  BY DEF Begun, Noted, StepFrom
<1> QED BY <1>1, <1>2, NoWritesYet, BegunFacts, BackedStart

LEMMA FromSound ==
  ASSUME Core, NEW d, Backed(d), NEW time \in Maybe(Timers),
         NEW s, s = StepFrom(live, time)
  PROVE  /\ Sound(d, s) /\ NothingYet(s.writes) /\ SameRow(s.live, d.row)
         /\ Still(d.row, s.live)
         /\ Good(s) /\ s \in Steps /\ s.live = live /\ live \in Lives
<1>1. live # None
  BY DEF Backed
<1>2. Finds(live, live)
  BY DEF Finds, SameMoment
<1> QED BY <1>1, <1>2, NoWritesYet, StepFromFacts, BackedStart

LEMMA HostContinues ==
  ASSUME NEW d, NEW s, Sound(d, s), Turns(d.row, s.live), Execute(Saved(s))
  PROVE  Continues(d)
<1>1. Sound(d, Saved(s))
  BY SavedSound
<1>2. Saved(s).saves /\ Saved(s).live = s.live
  BY SavedFacts DEF Sound, Level, Tells, Good
<1> QED BY <1>1, <1>2 DEF Continues, Steady

LEMMA ClosingSaves ==
  ASSUME NEW s, Good(s)
  PROVE  CloseIfEveryoneDone(s) = s \/ CloseIfEveryoneDone(s).saves
<1>1. CASE CloseIfEveryoneDone(s) = s
  BY <1>1
<1>2. CASE CloseIfEveryoneDone(s) # s
  <2>1. /\ s.live.status = "running" /\ PlayNow(s.live) /\ s.live.phase \in SubmissionPhases
        /\ CloseIfEveryoneDone(s) = CloseTimedPhase(s, FALSE)
    BY <1>2 DEF CloseIfEveryoneDone
  <2>2. CloseTimedPhase(s, FALSE)
          = IF s.live.phase = "write" THEN AfterWrite(s) ELSE RevealQuestion(s)
    BY DEF CloseTimedPhase
  <2>3. InPlay(s)
    BY <2>1, PhaseFacts, InPlayHere DEF SubmissionPhases, QuestionPhases
  <2> QED BY <2>1, <2>2, <2>3, AfterWriteGood, RevealQuestionGood DEF Leaves
<1> QED BY <1>1, <1>2

LEMMA SettlesContinues ==
  ASSUME NEW d, NEW t, Sound(d, t), Unpaying(t) \/ t.live.phase \notin SubmissionPhases,
         SameRow(t.live, d.row) \/ t.saves, Still(d.row, t.live),
         Execute(CloseIfEveryoneDone(t))
  PROVE  Continues(d)
<1>1. Sound(d, CloseIfEveryoneDone(t))
  BY CloseIfEveryoneDoneSound
<1>2. CloseIfEveryoneDone(t) = t \/ CloseIfEveryoneDone(t).saves
  BY ClosingSaves DEF Sound, Level, Tells
<1>3. Turns(d.row, CloseIfEveryoneDone(t).live)
  BY CloseIfEveryoneDoneTurns
<1> QED BY <1>1, <1>2, <1>3 DEF Continues, Steady

\* Player p, who may, says one thing that was not said: the answer in a or the vote in b.
Says(l, m, w, a, b, p) ==
  /\ l.play \in Plays /\ p \in l.play.eligible /\ l.removed[p] = None /\ ~l.play.scored
  /\ \A q \in Players \ {p} : /\ m.play.answers[q] = l.play.answers[q]
                              /\ m.play.votes[q] = l.play.votes[q]
  /\ \/ /\ DOMAIN a = {p} /\ b = w.votes /\ m.play.votes[p] = l.play.votes[p]
        /\ l.play.answers[p] = None /\ m.play.answers[p] # None
        /\ m.play.answers[p].payload = a[p]
        /\ m.play.answers[p].points = 0 /\ ~m.play.answers[p].hidden
     \/ /\ a = w.answers /\ DOMAIN b = {p} /\ l.play.votes[p] = None
        /\ m.play.answers[p] = l.play.answers[p] /\ m.play.votes[p] = b[p]

LEMMA SubmissionAdds ==
  ASSUME NEW l, NEW m, NEW v, NEW w, NEW at, NEW a, NEW b, NothingYet(w), NEW p \in Players,
         Submits(l, m, v, w, at, a, b), at = l.play.at, Says(l, m, w, a, b, p)
  PROVE  Adds(l, m, v, p)
<1>1. /\ DOMAIN w.answers = {} /\ DOMAIN w.votes = {} /\ DOMAIN w.hidden = {}
      /\ DOMAIN w.points = {} /\ DOMAIN w.scores = {} /\ DOMAIN w.joined = {}
      /\ DOMAIN w.removed = {} /\ DOMAIN w.extraTime = {} /\ ~w.wipe /\ w.shown = {}
  BY DEF NothingYet, Bare
<1>2. /\ SamePlaceAs(l, m) /\ m.joined = l.joined /\ m.removed = l.removed
      /\ m.extraTime = l.extraTime /\ m.score = l.score
      /\ m.play \in Plays /\ m.play.at = l.play.at /\ m.play.eligible = l.play.eligible
      /\ m.play.options = l.play.options /\ m.play.scored = l.play.scored
      /\ m.play.counted = l.play.counted /\ m.play.favourite = l.play.favourite
      /\ v.question = l.play.at /\ ~v.wipe /\ v.shown = {} /\ DOMAIN v.hidden = {}
      /\ DOMAIN v.points = {} /\ DOMAIN v.scores = {} /\ DOMAIN v.joined = {}
      /\ DOMAIN v.removed = {} /\ DOMAIN v.extraTime = {} /\ v.answers = a /\ v.votes = b
  BY <1>1 DEF Submits
<1>3. /\ \A q \in Players \ {p} : q \notin DOMAIN v.answers /\ q \notin DOMAIN v.votes
      /\ p \in DOMAIN v.answers => l.play.answers[p] = None
      /\ p \in DOMAIN v.votes => l.play.votes[p] = None
  BY <1>1, <1>2 DEF Says
<1>4. Tells1(l, m, v, p)
  BY <1>2, <1>3 DEF Tells1, Says
<1> QED BY <1>1, <1>2, <1>4 DEF Adds, Says

LEMMA MayAdd ==
  ASSUME Core, NEW d, Backed(d), NEW p \in Players, NEW phases \in SUBSET SubmissionPhases,
         MaySubmit(p, phases), NEW s, s = StepFrom(live, timer)
  PROVE  /\ Sound(d, s) /\ Good(s) /\ s.live = live /\ NothingYet(s.writes)
         /\ SameRow(s.live, d.row)
         /\ live.play \in Plays /\ p \in live.play.eligible /\ live.removed[p] = None
         /\ ~live.play.scored /\ live.phase \in SubmissionPhases
<1>1. live # None /\ PlayNow(live) /\ p \in EligibleNow(live) /\ live.phase \in SubmissionPhases
  BY DEF MaySubmit, Ready
<1>2. timer \in Maybe(Timers)
  BY DEF Core
<1>3. Sound(d, s) /\ Good(s) /\ s.live = live /\ NothingYet(s.writes) /\ SameRow(s.live, d.row)
  BY <1>2, FromSound
<1>4. live.play \in Plays
  BY <1>1, PlayBegun
<1>5. live.phase \in QuestionPhases
  BY <1>1 DEF SubmissionPhases, QuestionPhases
<1>6. ~live.play.scored
  BY <1>3, <1>4, <1>5, ScoredAt
<1> QED BY <1>1, <1>3, <1>4, <1>6 DEF EligibleNow, Active

LEMMA SubmitAnswerContinues ==
  ASSUME Core, NEW d, Backed(d), NEW p \in Players, SubmitAnswer(p)
  PROVE  Continues(d)
<1> DEFINE s == StepFrom(live, timer)
<1>1. PICK payload \in Payloads(live.play.at) :
        LET answer == [payload |-> payload, points |-> 0, hidden |-> FALSE]
        IN  Execute(CloseIfEveryoneDone([s EXCEPT
              !.live.play.answers[p] = answer,
              !.writes.question = live.play.at, !.writes.answers = Only(p, payload)]))
  BY DEF SubmitAnswer
<1>2. /\ Sound(d, s) /\ Good(s) /\ s.live = live /\ NothingYet(s.writes)
      /\ SameRow(s.live, d.row)
      /\ live.play \in Plays /\ p \in live.play.eligible /\ live.removed[p] = None
      /\ ~live.play.scored /\ live.play.answers[p] = None
  <2>1. MaySubmit(p, {"open", "write"}) /\ live.play.answers[p] = None
    BY DEF SubmitAnswer
  <2>2. {"open", "write"} \in SUBSET SubmissionPhases
    BY DEF SubmissionPhases
  <2> HIDE DEF s
  <2> QED BY <2>1, <2>2, MayAdd DEF s
<1> HIDE DEF s
<1> DEFINE answer == [payload |-> payload, points |-> 0, hidden |-> FALSE]
           part   == Only(p, payload)
           t      == Answering(s, p, answer, live.play.at, part)
<1>3. Execute(CloseIfEveryoneDone(t))
  BY <1>1 DEF Answering
<1>4. payload \in {"right", "wrong", "text"}
  BY <1>1 DEF Payloads
<1>5. /\ answer \in Answers /\ answer.payload = payload /\ answer.points = 0 /\ ~answer.hidden
      /\ answer # None
  <2>1. answer \in Answers
    BY <1>4 DEF Answers
  <2> QED BY <2>1, NoneAssumption
<1>6. part \in PartOf({"right", "wrong", "text"}) /\ DOMAIN part = {p} /\ part[p] = payload
  BY <1>4, PartTyped DEF Only
<1> HIDE DEF answer, part
<1>7. /\ Good(t) /\ t.saves = s.saves
      /\ Submits(s.live, t.live, t.writes, s.writes, live.play.at, part, s.writes.votes)
      /\ t.live.play.votes = s.live.play.votes /\ t.live.play.answers[p] = answer
      /\ \A q \in Players \ {p} : t.live.play.answers[q] = s.live.play.answers[q]
  BY SMTT(60), <1>2, <1>5, <1>6, AnsweringIs
<1> HIDE DEF t
<1>8. Adds(s.live, t.live, t.writes, p)
  <2>1. Says(s.live, t.live, s.writes, part, s.writes.votes, p)
    BY <1>2, <1>5, <1>6, <1>7 DEF Says
  <2> QED BY <1>2, <1>7, <2>1, SubmissionAdds
<1>9. Sound(d, t) /\ Unpaying(t)
  BY <1>2, <1>7, <1>8, AddedSound
<1>10. SameRow(t.live, d.row)
  <2>1. t.live.status = s.live.status
    BY <1>7 DEF Submits
  <2> QED BY <1>2, <1>7, <2>1 DEF Submits, SamePlaceAs, SameRow
<1>11. Still(d.row, t.live)
  BY <1>10, SameRowStill DEF Backed
<1> QED BY <1>3, <1>9, <1>10, <1>11, SettlesContinues

LEMMA SubmitAgainContinues ==
  ASSUME Core, NEW d, Backed(d), NEW p \in Players, SubmitAgain(p)
  PROVE  Continues(d)
<1> DEFINE s == StepFrom(live, timer)
<1>1. Execute(CloseIfEveryoneDone(s))
  BY DEF SubmitAgain
<1>2. timer \in Maybe(Timers)
  BY DEF Core
<1>3. Sound(d, s) /\ NothingYet(s.writes) /\ SameRow(s.live, d.row) /\ Still(d.row, s.live)
  BY <1>2, FromSound
<1> HIDE DEF s
<1> QED BY <1>1, <1>3, NothingUnpaying, SettlesContinues

LEMMA SubmitVoteContinues ==
  ASSUME Core, NEW d, Backed(d), NEW p \in Players, SubmitVote(p)
  PROVE  Continues(d)
<1> DEFINE s == StepFrom(live, timer)
<1>1. PICK option \in live.play.options \ {p} :
        Execute(CloseIfEveryoneDone([s EXCEPT
          !.live.play.votes[p] = option,
          !.writes.question = live.play.at, !.writes.votes = Only(p, option)]))
  BY DEF SubmitVote
<1>2. /\ Sound(d, s) /\ Good(s) /\ s.live = live /\ NothingYet(s.writes)
      /\ SameRow(s.live, d.row)
      /\ live.play \in Plays /\ p \in live.play.eligible /\ live.removed[p] = None
      /\ ~live.play.scored /\ live.play.votes[p] = None /\ live.play.options # None
  <2>1. MaySubmit(p, {"vote"}) /\ live.play.votes[p] = None /\ live.play.options # None
    BY DEF SubmitVote
  <2>2. {"vote"} \in SUBSET SubmissionPhases
    BY DEF SubmissionPhases
  <2> HIDE DEF s
  <2> QED BY <2>1, <2>2, MayAdd DEF s
<1> HIDE DEF s
<1> DEFINE part   == Only(p, option)
           t      == Voting(s, p, option, live.play.at, part)
<1>3. Execute(CloseIfEveryoneDone(t))
  BY <1>1 DEF Voting
<1>4. option \in PlayerVotes
  BY <1>1, <1>2 DEF Plays, Maybe
<1>6. part \in PartOf(PlayerVotes) /\ DOMAIN part = {p} /\ part[p] = option
  BY <1>4, PartTyped DEF Only
<1> HIDE DEF part
<1>7. /\ Good(t) /\ t.saves = s.saves
      /\ Submits(s.live, t.live, t.writes, s.writes, live.play.at, s.writes.answers, part)
      /\ t.live.play.answers = s.live.play.answers /\ t.live.play.votes[p] = option
      /\ \A q \in Players \ {p} : t.live.play.votes[q] = s.live.play.votes[q]
  BY <1>2, <1>4, <1>6, VotingIs
<1> HIDE DEF t
<1>8. Adds(s.live, t.live, t.writes, p)
  <2>1. Says(s.live, t.live, s.writes, s.writes.answers, part, p)
    BY <1>2, <1>6, <1>7 DEF Says
  <2> QED BY <1>2, <1>7, <2>1, SubmissionAdds
<1>9. Sound(d, t) /\ Unpaying(t)
  BY <1>2, <1>7, <1>8, AddedSound
<1>10. SameRow(t.live, d.row)
  <2>1. t.live.status = s.live.status
    BY <1>7 DEF Submits
  <2> QED BY <1>2, <1>7, <2>1 DEF Submits, SamePlaceAs, SameRow
<1>11. Still(d.row, t.live)
  BY <1>10, SameRowStill DEF Backed
<1> QED BY <1>3, <1>9, <1>10, <1>11, SettlesContinues

----------------------------------------------------------------------------
(* A player is removed. *)

\* Who could answer and who was there when a question was revealed, by the rows d.
Eligible(d, e, q) == /\ d.joined[q] # None /\ d.joined[q] < e.opened
                     /\ d.removed[q] = None \/ d.removed[q] >= e.opened

SameStanding(e, f) ==
  \A i \in DOMAIN e.row.log, q \in Players :
    /\ Eligible(f, e.row.log[i], q) <=> Eligible(e, e.row.log[i], q)
    /\ e.row.log[i].revealed # None =>
         (SeenAtReveal(f, e.row.log[i], q) <=> SeenAtReveal(e, e.row.log[i], q))

SamePaper(e, f) ==
  \A x \in Questions, q \in Players :
    /\ f.answers[x][q] = None <=> e.answers[x][q] = None
    /\ f.answers[x][q] # None =>
         /\ f.answers[x][q].payload = e.answers[x][q].payload
         /\ f.answers[x][q].points = e.answers[x][q].points
         /\ f.answers[x][q].shown = e.answers[x][q].shown
    /\ f.votes[x][q] = e.votes[x][q]

LEMMA StandingPlay ==
  ASSUME NEW e, NEW f, f.row.log = e.row.log, SameStanding(e, f), SamePaper(e, f),
         NEW play, play.at \in Questions, PlayOf(play, e),
         \A q \in Players : IsParty(play.at) /\ play.answers[q] # None =>
           /\ f.answers[play.at][q].hidden = play.answers[q].hidden
           /\ f.removed[q] # None => play.answers[q].hidden
  PROVE  PlayOf(play, f)
<1>1. PICK i \in DOMAIN e.row.log : EntryFits(play, e, e.row.log[i])
  BY DEF PlayOf
<1> DEFINE n == e.row.log[i]
<1>2. \A q \in Players : Eligible(f, n, q) <=> Eligible(e, n, q)
  BY DEF SameStanding
<1>3. n.revealed # None =>
        \A q \in Players : SeenAtReveal(f, n, q) <=> SeenAtReveal(e, n, q)
  BY DEF SameStanding
<1>4. /\ n.at = play.at /\ (play.scored <=> n.revealed # None)
      /\ play.eligible = {q \in Players : Eligible(e, n, q)}
      /\ play.scored => play.counted = {q \in play.eligible : SeenAtReveal(e, n, q)}
      /\ play.scored /\ KindOf(n.at) = "caption" =>
           \A q \in Players :
             play.answers[q] # None /\ ~play.answers[q].hidden =>
               play.answers[q].points = Cardinality(Drawn(e, n, q)) + (IF play.favourite = q THEN 1 ELSE 0)
  BY <1>1 DEF EntryFits, Eligible
<1>5. n = f.row.log[i] /\ i \in DOMAIN f.row.log
  OBVIOUS
<1> HIDE DEF n
<1>6. play.eligible = {q \in Players : Eligible(f, n, q)}
  BY <1>2, <1>4
<1>7. ASSUME play.scored
      PROVE  /\ play.counted = {q \in play.eligible : SeenAtReveal(f, n, q)}
             /\ \A q \in Players : Drawn(f, n, q) = Drawn(e, n, q)
  <2>1. \A q \in Players : SeenAtReveal(f, n, q) <=> SeenAtReveal(e, n, q)
    BY <1>3, <1>4, <1>7
  <2>2. play.eligible \subseteq Players
    BY <1>4
  <2>3. play.counted = {q \in play.eligible : SeenAtReveal(e, n, q)}
    BY <1>4, <1>7
  <2>4. {q \in play.eligible : SeenAtReveal(f, n, q)} = {q \in play.eligible : SeenAtReveal(e, n, q)}
    BY <2>1, <2>2, Zenon
  <2>5. \A v \in Players : f.votes[n.at][v] = e.votes[n.at][v]
    BY <1>4 DEF SamePaper
  <2>6. ASSUME NEW q \in Players PROVE Drawn(f, n, q) = Drawn(e, n, q)
    BY <2>1, <2>5, Zenon DEF Drawn
  <2> QED BY <2>3, <2>4, <2>6
<1>9. EntryFits(play, f, n)
  <2>1. play.scored => play.counted = {q \in play.eligible : SeenAtReveal(f, n, q)}
    BY <1>7
  <2>2. play.scored /\ KindOf(n.at) = "caption" =>
           \A q \in Players :
             play.answers[q] # None /\ ~play.answers[q].hidden =>
               play.answers[q].points = Cardinality(Drawn(f, n, q)) + (IF play.favourite = q THEN 1 ELSE 0)
    BY <1>4, <1>7
  <2>3. play.eligible = {q \in Players : /\ f.joined[q] # None /\ f.joined[q] < n.opened
                                         /\ f.removed[q] = None \/ f.removed[q] >= n.opened}
    BY <1>6, Zenon DEF Eligible
  <2>4. n.at = play.at /\ (play.scored <=> n.revealed # None)
    BY <1>4
  <2> QED BY <2>1, <2>2, <2>3, <2>4, Zenon DEF EntryFits
<1>10. ASSUME NEW q \in Players PROVE Stored(play, f, q) /\ Fair(play, f, q)
  <2>1. Stored(play, e, q) /\ Fair(play, e, q)
    BY DEF PlayOf
  <2>2. SameAnswer(play.at, play.answers[q], f.answers[play.at][q])
    BY <2>1 DEF Stored, SameAnswer, SamePaper
  <2>3. play.votes[q] = f.votes[play.at][q]
    BY <2>1 DEF Stored, SamePaper
  <2> QED BY <2>1, <2>2, <2>3 DEF Stored, Fair
<1>11. OptionsFit(play, f)
  <2>1. Shown(f, play.at) = Shown(e, play.at)
    BY DEF Shown, SamePaper
  <2> QED BY <2>1 DEF PlayOf, OptionsFit
<1> QED BY <1>5, <1>9, <1>10, <1>11 DEF PlayOf

LEMMA StandingAccounts ==
  ASSUME NEW e \in Stores, NEW f \in Stores, Accounts(e), f.row.log = e.row.log,
         f.row.phaseId = e.row.phaseId, StampsOK(f), SameStanding(e, f), SamePaper(e, f),
         f.score = e.score
  PROVE  Accounts(f)
<1>1. SameEntries(e.row.log, f.row.log)
  BY DEF SameEntries
<1>2. e.row.phaseId \in Nat
  BY DEF Stores, Rows, RowTypes
<1>3. \A y \in Questions, q \in Players : Seen(f, y, q) <=> Seen(e, y, q)
  BY DEF Seen, SameStanding
<1>4. PaidCells(e, f, Questions)
  BY DEF PaidCells, SamePaper
<1> QED BY <1>1, <1>2, <1>3, <1>4, AccountsStay

\* A step that, unlike h, removes p at the moment n in place of hiding their answer.
NoSubmissions(w) ==
  /\ ~w.wipe /\ w.shown = {} /\ DOMAIN w.answers = {} /\ DOMAIN w.votes = {}
  /\ DOMAIN w.joined = {} /\ DOMAIN w.extraTime = {}

RemovesIn(v, w, p, n) ==
  /\ NoSubmissions(v) /\ NoSubmissions(w) /\ Bare(v) /\ Bare(w)
  /\ DOMAIN v.removed = {} /\ DOMAIN w.removed = {p} /\ w.removed[p] = n
  /\ w.points = v.points /\ w.scores = v.scores /\ DOMAIN w.hidden = {}
  /\ w.question \in {None, v.question}
  /\ \A q \in DOMAIN v.hidden : q = p /\ v.hidden[q]

RemovalOf(l, m, p, n) ==
  /\ SamePlaceAs(l, m) /\ m.status = l.status /\ m.play = l.play /\ m.joined = l.joined
  /\ m.extraTime = l.extraTime /\ m.score = l.score
  /\ m.removed = [l.removed EXCEPT ![p] = n]

LEMMA RemovedCell ==
  ASSUME NEW d \in Stores, NEW v \in Writes, NEW w \in Writes, NEW p \in Players, NEW n,
         RemovesIn(v, w, p, n), NEW x \in Questions, NEW q \in Players,
         NEW a, a = AnswerCell(d, v, x, q), NEW b, b = AnswerCell(d, w, x, q)
  PROVE  /\ b = None <=> a = None
         /\ b # None => /\ b.payload = a.payload /\ b.points = a.points /\ b.shown = a.shown
                        /\ b.hidden = (q = p \/ a.hidden)
         /\ VoteCell(d, w, x, q) = VoteCell(d, v, x, q)
<1>1. /\ NoSubmissions(v) /\ NoSubmissions(w) /\ Bare(v) /\ Bare(w)
      /\ DOMAIN v.removed = {} /\ DOMAIN w.removed = {p} /\ w.removed[p] = n
      /\ w.points = v.points /\ DOMAIN w.hidden = {}
      /\ w.question \in {None, v.question}
      /\ \A r \in DOMAIN v.hidden : r = p /\ v.hidden[r]
  BY DEF RemovesIn
<1>2. Given(d, v, x, q) = d.answers[x][q] /\ Given(d, w, x, q) = d.answers[x][q]
  BY <1>1 DEF Given, NoSubmissions
<1>3. d.answers[x][q] # None => d.answers[x][q] \in AnswerRows
  BY DEF Stores, Maybe
<1>4. d.answers[x][q] # None => d.answers[x][q].hidden \in BOOLEAN
  BY <1>3 DEF AnswerRows
<1>5. CASE v.question \in {None, x}
  <2>1. w.question \in {None, x}
    BY <1>1, <1>5
  <2>2. /\ CellIs(a, v, q, d.answers[x][q]) /\ CellIs(b, w, q, d.answers[x][q])
        /\ VoteCell(d, v, x, q) = d.votes[x][q] /\ VoteCell(d, w, x, q) = d.votes[x][q]
    BY <1>1, <1>2, <1>5, <2>1, CellHere DEF NoSubmissions
  <2>3. (a = None <=> d.answers[x][q] = None) /\ (b = None <=> d.answers[x][q] = None)
    BY <2>2 DEF CellIs
  <2>4. ASSUME b # None
        PROVE  /\ b.payload = a.payload /\ b.points = a.points /\ b.shown = a.shown
               /\ b.hidden = (q = p \/ a.hidden)
    <3> DEFINE row == d.answers[x][q]
    <3>1. a # None /\ row # None /\ row.hidden \in BOOLEAN
      BY <1>4, <2>3, <2>4
    <3>2. CellIs(a, v, q, row) /\ CellIs(b, w, q, row)
      BY <2>2
    <3> HIDE DEF row
    <3>3. /\ b.payload = a.payload /\ b.points = a.points
          /\ b.shown = (row.shown \/ q \in w.shown) /\ a.shown = (row.shown \/ q \in v.shown)
          /\ a.hidden = (q \in DOMAIN v.removed
                         \/ (IF q \in DOMAIN v.hidden THEN v.hidden[q] ELSE row.hidden))
          /\ b.hidden = (q \in DOMAIN w.removed
                         \/ (IF q \in DOMAIN w.hidden THEN w.hidden[q] ELSE row.hidden))
      BY <1>1, <2>4, <3>1, <3>2, Zenon DEF CellIs
    <3>4. w.shown = v.shown
      BY <1>1 DEF NoSubmissions
    <3>5. a.hidden = (IF q \in DOMAIN v.hidden THEN v.hidden[q] ELSE row.hidden)
      <4>1. q \in DOMAIN v.hidden => v.hidden[q] \in BOOLEAN
        BY PartAt DEF Writes
      <4> QED BY <1>1, <3>1, <3>3, <4>1
    <3>6. b.hidden = (q = p \/ row.hidden)
      BY <1>1, <3>1, <3>3
    <3>7. q \in DOMAIN v.hidden => q = p /\ v.hidden[q]
      BY <1>1
    <3>8. b.hidden = (q = p \/ a.hidden)
      <4>1. CASE q = p
        BY <3>6, <4>1
      <4>2. CASE q # p
        BY <3>1, <3>5, <3>6, <3>7, <4>2
      <4> QED BY <4>1, <4>2
    <3> QED BY <3>3, <3>4, <3>8
  <2> QED BY <2>2, <2>3, <2>4
<1>6. CASE v.question \notin {None, x}
  <2>1. x # v.question /\ x # w.question
    BY <1>1, <1>6, RowsAssumption
  <2>2. /\ a = d.answers[x][q]
        /\ VoteCell(d, v, x, q) = d.votes[x][q] /\ VoteCell(d, w, x, q) = d.votes[x][q]
    BY <1>1, <2>1 DEF AnswerCell, VoteCell
  <2>3. b = IF q = p /\ d.answers[x][q] # None THEN [d.answers[x][q] EXCEPT !.hidden = TRUE]
            ELSE d.answers[x][q]
    BY <1>1, <2>1 DEF AnswerCell
  <2>4. CASE d.answers[x][q] = None
    BY <2>2, <2>3, <2>4
  <2>5. CASE d.answers[x][q] # None /\ q # p
    BY <1>4, <2>2, <2>3, <2>5
  <2>6. CASE d.answers[x][q] # None /\ q = p
    <3> DEFINE row == d.answers[x][q]
    <3>1. row \in AnswerRows /\ b = [row EXCEPT !.hidden = TRUE] /\ a = row
      BY <1>3, <2>2, <2>3, <2>6
    <3> HIDE DEF row
    <3>2. /\ b \in AnswerRows /\ b.payload = row.payload /\ b.points = row.points
          /\ b.shown = row.shown /\ b.hidden = TRUE
      BY <3>1 DEF AnswerRows
    <3>3. b # None /\ a # None
      BY <3>1, <3>2, RowsAssumption
    <3> QED BY <2>2, <2>6, <3>1, <3>2, <3>3
  <2> QED BY <2>4, <2>5, <2>6
<1> QED BY <1>5, <1>6

LEMMA LevelFacts ==
  ASSUME NEW d, NEW s, Level(d, s), NEW e, e = Lands(d, s)
  PROVE  /\ e \in Stores /\ Accounts(e) /\ Mirrors(s.live, e) /\ LogOK(e.row) /\ StampsOK(e)
         /\ e.row = Row(s.live) /\ e.row.log = s.live.log /\ e.row.phaseId = s.live.phaseId
         /\ s.live.phaseId \in Nat
         /\ s.live.joined = e.joined /\ s.live.removed = e.removed
         /\ s.live.extraTime = e.extraTime /\ s.live.score = e.score
         /\ s.live.play # None => PlayOf(s.live.play, e) /\ s.live.play \in Plays
                                  /\ s.live.play.at \in Questions
<1>1. Tells(d, s) /\ Base(e) /\ Fits(s.live, e)
  BY DEF Level
<1>2. e \in Stores /\ e.row = Row(s.live)
  BY <1>1, LandsOf
<1>3. s.live \in Lives
  BY <1>1, GoodTypes DEF Tells
<1>4. s.live.phaseId \in Nat
  BY <1>3 DEF Lives
<1>5. s.live.play # None => s.live.play \in Plays /\ s.live.play.at \in Questions
  BY <1>3, PlayAt
<1> QED BY <1>1, <1>2, <1>4, <1>5 DEF Base, Accounts, Fits, Mirrors, Row

LEMMA RemovedSound ==
  ASSUME NEW d, NEW h, Sound(d, h), NEW t, Good(t), NEW p \in Players,
         NEW n, n = h.live.phaseId, RemovalOf(h.live, t.live, p, n),
         RemovesIn(h.writes, t.writes, p, n), h.live.removed[p] = None,
         h.live.play # None /\ IsParty(h.live.play.at) /\ h.live.play.answers[p] # None
           => h.live.play.answers[p].hidden
  PROVE  Sound(d, t)
<1> DEFINE l == h.live
           m == t.live
           v == h.writes
           w == t.writes
           e == Lands(d, h)
           f == Lands(d, t)
           play == l.play
<1>1. /\ e \in Stores /\ Accounts(e) /\ Mirrors(l, e) /\ LogOK(e.row) /\ StampsOK(e)
      /\ e.row = Row(l) /\ e.row.log = l.log /\ e.row.phaseId = n /\ n \in Nat
      /\ l.joined = e.joined /\ l.removed = e.removed
      /\ l.extraTime = e.extraTime /\ l.score = e.score
      /\ l.play # None => PlayOf(l.play, e) /\ l.play \in Plays /\ l.play.at \in Questions
  BY LevelFacts DEF Sound
<1>2. /\ NoSubmissions(v) /\ NoSubmissions(w) /\ Bare(w)
      /\ DOMAIN v.removed = {} /\ DOMAIN w.removed = {p} /\ w.removed[p] = n
      /\ w.scores = v.scores
  BY DEF RemovesIn
<1>3. Tells(d, h)
  BY DEF Sound, Level
<1>4. /\ d \in Stores /\ v \in Writes /\ w \in Writes
      /\ e.joined = Over(v.joined, d.joined) /\ e.removed = Over(v.removed, d.removed)
      /\ e.extraTime = Over(v.extraTime, d.extraTime) /\ e.score = Over(v.scores, d.score)
      /\ \A x \in Questions, q \in Players :
           /\ e.answers[x][q] = AnswerCell(d, v, x, q) /\ e.votes[x][q] = VoteCell(d, v, x, q)
  BY <1>3, LandsOf, GoodTypes
<1>5. Tells(d, t)
  <2>1. ~Conflicts(d, w)
    BY <1>2 DEF Conflicts, NoSubmissions
  <2> QED BY <1>2, <1>3, <2>1 DEF Tells
<1>6. /\ f \in Stores /\ f.row = Row(m)
      /\ f.joined = Over(w.joined, d.joined) /\ f.removed = Over(w.removed, d.removed)
      /\ f.extraTime = Over(w.extraTime, d.extraTime) /\ f.score = Over(w.scores, d.score)
      /\ \A x \in Questions, q \in Players :
           /\ f.answers[x][q] = AnswerCell(d, w, x, q) /\ f.votes[x][q] = VoteCell(d, w, x, q)
  BY <1>5, LandsOf
<1>7. /\ SamePlaceAs(l, m) /\ m.play = play /\ m.joined = l.joined
      /\ m.extraTime = l.extraTime /\ m.score = l.score
      /\ m.removed = [l.removed EXCEPT ![p] = n]
  BY DEF RemovalOf
<1>8. f.row.log = e.row.log /\ f.row.phaseId = e.row.phaseId
  BY <1>1, <1>6, <1>7 DEF Row, SamePlaceAs
<1> HIDE DEF l, m, v, w, e, f, play
<1>9. /\ f.joined = e.joined /\ f.extraTime = e.extraTime /\ f.score = e.score
      /\ f.removed = m.removed
  <2>1. d.joined \in [Players -> Maybe(Nat)] /\ d.removed \in [Players -> Maybe(Nat)]
        /\ d.extraTime \in [Players -> BOOLEAN]
    BY <1>4 DEF Stores, Positions
  <2>2. Over(v.joined, d.joined) = d.joined /\ Over(w.joined, d.joined) = d.joined
    BY <1>2, <2>1, NothingOver DEF NoSubmissions
  <2>3. Over(v.extraTime, d.extraTime) = d.extraTime /\ Over(w.extraTime, d.extraTime) = d.extraTime
    BY <1>2, <2>1, NothingOver DEF NoSubmissions
  <2>4. Over(v.removed, d.removed) = d.removed
    BY <1>2, <2>1, NothingOver
  <2>5. Over(w.removed, d.removed) = [d.removed EXCEPT ![p] = n]
    BY <1>2, <2>1 DEF Over
  <2> QED BY <1>1, <1>2, <1>4, <1>6, <1>7, <2>2, <2>3, <2>4, <2>5
<1>10. RemovesIn(v, w, p, n) /\ l.removed[p] = None
       /\ (play # None /\ IsParty(play.at) /\ play.answers[p] # None => play.answers[p].hidden)
       /\ l.play = play
  BY DEF v, w, l, play
<1>11. \A x \in Questions, q \in Players :
         /\ f.answers[x][q] = None <=> e.answers[x][q] = None
         /\ f.answers[x][q] # None =>
              /\ f.answers[x][q].payload = e.answers[x][q].payload
              /\ f.answers[x][q].points = e.answers[x][q].points
              /\ f.answers[x][q].shown = e.answers[x][q].shown
              /\ f.answers[x][q].hidden = (q = p \/ e.answers[x][q].hidden)
         /\ f.votes[x][q] = e.votes[x][q]
  <2> TAKE x \in Questions, q \in Players
  <2> QED BY <1>4, <1>6, <1>10, RemovedCell
<1>12. SamePaper(e, f)
  BY <1>11 DEF SamePaper
<1>13. f.removed[p] = n /\ e.removed[p] = None /\ \A q \in Players \ {p} : f.removed[q] = e.removed[q]
  BY <1>1, <1>7, <1>9, <1>10 DEF Stores, Positions
<1>14. SameStanding(e, f)
  <2> SUFFICES ASSUME NEW i \in DOMAIN e.row.log, NEW q \in Players
               PROVE  /\ Eligible(f, e.row.log[i], q) <=> Eligible(e, e.row.log[i], q)
                      /\ e.row.log[i].revealed # None =>
                           (SeenAtReveal(f, e.row.log[i], q) <=> SeenAtReveal(e, e.row.log[i], q))
    BY DEF SameStanding
  <2>1. /\ e.row.log[i].opened \in Nat /\ e.row.log[i].revealed \in Maybe(Nat)
        /\ e.row.log[i].opened <= n
        /\ e.row.log[i].revealed # None => e.row.log[i].revealed <= n
    BY <1>1, LogEntry DEF LogOK, EntryOK
  <2>2. CASE q = p
    <3>1. n >= e.row.log[i].opened /\ (e.row.log[i].revealed # None => n >= e.row.log[i].revealed)
      BY <1>1, <2>1 DEF Maybe
    <3> QED BY <1>9, <1>13, <2>2, <3>1 DEF Eligible, SeenAtReveal
  <2>3. CASE q # p
    BY <1>9, <1>13, <2>3 DEF Eligible, SeenAtReveal
  <2> QED BY <2>2, <2>3
<1>15. StampsOK(f)
  <2>1. n <= n
    BY <1>1
  <2> QED BY <1>1, <1>8, <1>9, <1>13, <2>1 DEF StampsOK
<1>16. Accounts(f)
  BY <1>1, <1>6, <1>8, <1>9, <1>12, <1>14, <1>15, StandingAccounts
<1>17. play # None => PlayOf(play, f)
  <2> SUFFICES ASSUME play # None PROVE PlayOf(play, f)
    OBVIOUS
  <2>1. PlayOf(play, e) /\ play \in Plays /\ play.at \in Questions
    BY <1>1, <1>10
  <2>2. ASSUME NEW q \in Players, IsParty(play.at), play.answers[q] # None
        PROVE  /\ f.answers[play.at][q].hidden = play.answers[q].hidden
               /\ f.removed[q] # None => play.answers[q].hidden
    <3>1. Stored(play, e, q) /\ Fair(play, e, q)
      BY <2>1 DEF PlayOf
    <3>2. e.answers[play.at][q] # None /\ play.answers[q].hidden = e.answers[play.at][q].hidden
      BY <2>2, <3>1 DEF Stored, SameAnswer
    <3>3. play.answers[q].hidden \in BOOLEAN
      BY <2>1, <2>2 DEF Plays, Maybe, Answers
    <3>4. f.answers[play.at][q].hidden = (q = p \/ e.answers[play.at][q].hidden)
      BY <1>11, <2>1, <3>2
    <3>5. CASE q = p
      <4>1. play.answers[q].hidden
        BY <1>10, <2>2, <3>5
      <4> QED BY <3>3, <3>4, <3>5, <4>1
    <3>6. CASE q # p
      <4>1. f.answers[play.at][q].hidden = play.answers[q].hidden
        BY <3>2, <3>3, <3>4, <3>6
      <4>2. f.removed[q] # None => play.answers[q].hidden
        BY <1>13, <2>2, <3>1, <3>6 DEF Fair
      <4> QED BY <4>1, <4>2
    <3> QED BY <3>5, <3>6
  <2> QED BY <1>8, <1>12, <1>14, <2>1, <2>2, StandingPlay
<1>18. SameTerms(l, m)
  BY <1>7, <1>10 DEF SameTerms
<1> QED BY <1>1, <1>5, <1>6, <1>7, <1>9, <1>10, <1>16, <1>17, <1>18, EditSound DEF l, m, f

Removing(s, p, n) == [s EXCEPT !.live.removed[p] = n, !.writes.removed = Only(p, n)]

\* Everything of a step that a removal leaves as it was, seat and part apart.
LEMMA RemovingIs ==
  ASSUME NEW s, Good(s), NEW p \in Players, NEW n \in Nat, NEW t, t = Removing(s, p, n)
  PROVE  /\ Good(t) /\ t.saves = s.saves /\ t.timer = s.timer
         /\ RemovalOf(s.live, t.live, p, n) /\ SameMoment(s.live, t.live)
         /\ t.live.hostSeen = s.live.hostSeen
         /\ t.writes = [s.writes EXCEPT !.removed = Only(p, n)]
<1> DEFINE part    == Only(p, n)
           removed == [s.live.removed EXCEPT ![p] = n]
           m       == [s.live EXCEPT !.removed = removed]
           w       == [s.writes EXCEPT !.removed = part]
           r       == [s EXCEPT !.live = m]
           u       == [r EXCEPT !.writes = w]
<1>1. s \in Steps /\ LiveOK(s.live)
  BY DEF Good
<1>2. part \in PartOf(Nat) /\ s.live \in Lives /\ s.writes \in Writes
  BY <1>1, PartTyped, CursorTyped DEF Steps
<1>3. removed \in Positions
  BY <1>2 DEF Lives, Positions, Maybe
<1> HIDE DEF part
<1>4. Removing(s, p, n) = u
  BY <1>1 DEF Removing, Steps, part
<1>5. t = u
  BY <1>4
<1> HIDE DEF removed
<1>6. m \in Lives /\ m.removed = removed /\ m.joined = s.live.joined /\ m.play = s.live.play
      /\ m.log = s.live.log /\ m.score = s.live.score /\ SameMoment(s.live, m)
  BY <1>2, <1>3 DEF Lives, SameMoment
<1>7. m.extraTime = s.live.extraTime /\ m.hasScored = s.live.hasScored /\ m.hostSeen = s.live.hostSeen
  BY <1>2 DEF Lives
<1>8. w \in Writes /\ w = [s.writes EXCEPT !.removed = part]
  BY <1>2 DEF Writes
<1> HIDE DEF m, w
<1>9. r \in Steps /\ r.live = m /\ r.timer = s.timer /\ r.writes = s.writes /\ r.saves = s.saves
  BY <1>1, <1>6, WithLive DEF m
<1> HIDE DEF r
<1>10. u \in Steps /\ u.live = r.live /\ u.timer = r.timer /\ u.saves = r.saves /\ u.writes = w
  BY <1>8, <1>9, WithWrites DEF Steps
<1> HIDE DEF u
<1>11. LiveOK(m)
  BY <1>1, <1>6, SameMomentOK
<1>12. RemovalOf(s.live, m, p, n)
  BY <1>6, <1>7 DEF RemovalOf, SamePlaceAs, SameMoment, removed
<1> QED BY <1>5, <1>6, <1>7, <1>8, <1>9, <1>10, <1>11, <1>12 DEF Good, part

LEMMA TwoEdits ==
  ASSUME NEW b, NEW s, NEW p, NEW n, RemovalOf(b.live, s.live, p, n),
         SameMoment(b.live, s.live), NEW play, NEW score, NEW u, NEW t,
         Edits(b, u, play, score), Edits(s, t, play, score)
  PROVE  RemovalOf(u.live, t.live, p, n)
BY DEF RemovalOf, SamePlaceAs, SameMoment, Edits

\* What a removal with its answer hidden writes, beside the hiding alone.
LEMMA RemovalWrites ==
  ASSUME NEW w \in Writes, NothingYet(w), NEW p \in Players, NEW n \in Nat,
         NEW at \in Questions,
         NEW v, v = [w EXCEPT !.question = at, !.hidden = Only(p, TRUE)],
         NEW x, x = [w EXCEPT !.removed = Only(p, n)]
  PROVE  RemovesIn(v, x, p, n)
<1> DEFINE hidden == Only(p, TRUE)
           gone   == Only(p, n)
<1>1. /\ DOMAIN hidden = {p} /\ hidden[p] = TRUE /\ DOMAIN gone = {p} /\ gone[p] = n
  BY DEF Only
<1>2. v = [w EXCEPT !.question = at, !.hidden = hidden] /\ x = [w EXCEPT !.removed = gone]
  OBVIOUS
<1> HIDE DEF hidden, gone
<1>3. /\ v.question = at /\ v.hidden = hidden /\ v.wipe = w.wipe /\ v.shown = w.shown
      /\ v.answers = w.answers /\ v.votes = w.votes /\ v.points = w.points
      /\ v.scores = w.scores /\ v.joined = w.joined /\ v.removed = w.removed
      /\ v.extraTime = w.extraTime
  BY ZenonT(60), <1>2 DEF Writes
<1>4. /\ x.question = w.question /\ x.hidden = w.hidden /\ x.wipe = w.wipe /\ x.shown = w.shown
      /\ x.answers = w.answers /\ x.votes = w.votes /\ x.points = w.points
      /\ x.scores = w.scores /\ x.joined = w.joined /\ x.removed = gone
      /\ x.extraTime = w.extraTime
  BY <1>2 DEF Writes
<1>5. /\ w.question = None /\ ~w.wipe /\ w.shown = {} /\ DOMAIN w.answers = {}
      /\ DOMAIN w.votes = {} /\ DOMAIN w.hidden = {} /\ DOMAIN w.points = {}
      /\ DOMAIN w.joined = {} /\ DOMAIN w.removed = {} /\ DOMAIN w.extraTime = {}
      /\ DOMAIN w.scores = {}
  BY DEF NothingYet, Bare
<1>6. at # None
  BY RowsAssumption
<1>7. NoSubmissions(v) /\ NoSubmissions(x)
  BY <1>3, <1>4, <1>5 DEF NoSubmissions
<1>8. Bare(v) /\ Bare(x)
  BY <1>3, <1>4, <1>5, <1>6 DEF Bare
<1>9. \A q \in DOMAIN v.hidden : q = p /\ v.hidden[q]
  BY <1>1, <1>3
<1> QED BY <1>1, <1>3, <1>4, <1>5, <1>7, <1>8, <1>9 DEF RemovesIn

\* The writes v also hide what the writes y name, for question at.
AlsoHide(y, v, at, hidden) ==
  /\ v.question = at /\ v.hidden = hidden /\ v.wipe = y.wipe /\ v.shown = y.shown
  /\ v.answers = y.answers /\ v.votes = y.votes /\ v.points = y.points
  /\ v.scores = y.scores /\ v.joined = y.joined /\ v.removed = y.removed
  /\ v.extraTime = y.extraTime

LEMMA QuestionHidden ==
  ASSUME NEW y \in Writes, NEW at, NEW hidden
  PROVE  AlsoHide(y, [y EXCEPT !.question = at, !.hidden = hidden], at, hidden)
BY DEF Writes, AlsoHide

LEMMA PaidRemovalWrites ==
  ASSUME NEW w \in Writes, NothingYet(w), NEW p \in Players, NEW n \in Nat,
         NEW play \in Plays, NEW score \in [Players -> Int],
         NEW v \in Writes, v = [Pays(w, play, score) EXCEPT !.question = play.at,
                                                           !.hidden = Only(p, TRUE)],
         NEW r \in Writes, r = [w EXCEPT !.removed = Only(p, n)],
         NEW x, x = Pays(r, play, score)
  PROVE  RemovesIn(v, x, p, n)
<1> DEFINE hidden == Only(p, TRUE)
           gone   == Only(p, n)
           y      == Pays(w, play, score)
<1>1. /\ DOMAIN hidden = {p} /\ hidden[p] = TRUE /\ DOMAIN gone = {p} /\ gone[p] = n
  BY DEF Only
<1>2. v = [y EXCEPT !.question = play.at, !.hidden = hidden] /\ r = [w EXCEPT !.removed = gone]
  OBVIOUS
<1>3. /\ y \in Writes /\ y.question = play.at /\ y.question # None
      /\ y.wipe = w.wipe /\ y.answers = w.answers /\ y.votes = w.votes /\ y.shown = w.shown
      /\ y.hidden = w.hidden /\ y.joined = w.joined /\ y.removed = w.removed
      /\ y.extraTime = w.extraTime
      /\ y.points = [q \in Answered(play) |-> play.answers[q].points]
      /\ y.scores = [q \in play.counted |-> score[q]]
  BY PaysTyped
<1>4. /\ x.question = play.at
      /\ x.wipe = r.wipe /\ x.answers = r.answers /\ x.votes = r.votes /\ x.shown = r.shown
      /\ x.hidden = r.hidden /\ x.joined = r.joined /\ x.removed = r.removed
      /\ x.extraTime = r.extraTime
      /\ x.points = [q \in Answered(play) |-> play.answers[q].points]
      /\ x.scores = [q \in play.counted |-> score[q]]
  <2>1. ASSUME NEW f \in Writes
        PROVE  LET g == Pays(f, play, score)
               IN  /\ g.question = play.at
                   /\ g.wipe = f.wipe /\ g.answers = f.answers /\ g.votes = f.votes
                   /\ g.shown = f.shown /\ g.hidden = f.hidden /\ g.joined = f.joined
                   /\ g.removed = f.removed /\ g.extraTime = f.extraTime
                   /\ g.points = [q \in Answered(play) |-> play.answers[q].points]
                   /\ g.scores = [q \in play.counted |-> score[q]]
    BY PaysTyped
  <2> QED BY <2>1
<1> HIDE DEF hidden, gone, y
<1>5. /\ v.question = play.at /\ v.hidden = hidden /\ v.wipe = y.wipe /\ v.shown = y.shown
      /\ v.answers = y.answers /\ v.votes = y.votes /\ v.points = y.points
      /\ v.scores = y.scores /\ v.joined = y.joined /\ v.removed = y.removed
      /\ v.extraTime = y.extraTime
  <2>1. AlsoHide(y, v, play.at, hidden)
    <3>1. y \in Writes /\ v = [y EXCEPT !.question = play.at, !.hidden = hidden]
      BY <1>2, <1>3
    <3>2. AlsoHide(y, [y EXCEPT !.question = play.at, !.hidden = hidden], play.at, hidden)
      BY <3>1, QuestionHidden, Zenon
    <3> QED BY <3>1, <3>2, Zenon
  <2> QED BY <2>1, Zenon DEF AlsoHide
<1>6. /\ r.question = w.question /\ r.hidden = w.hidden /\ r.wipe = w.wipe /\ r.shown = w.shown
      /\ r.answers = w.answers /\ r.votes = w.votes
      /\ r.joined = w.joined /\ r.removed = gone /\ r.extraTime = w.extraTime
  BY <1>2 DEF Writes
<1>7. /\ w.question = None /\ ~w.wipe /\ w.shown = {} /\ DOMAIN w.answers = {}
      /\ DOMAIN w.votes = {} /\ DOMAIN w.hidden = {}
      /\ DOMAIN w.joined = {} /\ DOMAIN w.removed = {} /\ DOMAIN w.extraTime = {}
  BY DEF NothingYet, Bare
<1>8. play.at # None
  BY <1>3
<1>9. NoSubmissions(v) /\ NoSubmissions(x)
  BY <1>3, <1>4, <1>5, <1>6, <1>7 DEF NoSubmissions
<1>10. Bare(v) /\ Bare(x)
  BY <1>4, <1>5, <1>8 DEF Bare
<1>11. \A q \in DOMAIN v.hidden : q = p /\ v.hidden[q]
  BY <1>1, <1>5
<1>12. DOMAIN v.removed = {} /\ DOMAIN x.removed = {p} /\ x.removed[p] = n
  BY <1>1, <1>3, <1>4, <1>5, <1>6, <1>7
<1>13. x.points = v.points /\ x.scores = v.scores
  BY <1>3, <1>4, <1>5
<1>14. DOMAIN x.hidden = {} /\ x.question \in {None, v.question}
  BY <1>4, <1>5, <1>6, <1>7
<1> QED BY <1>9, <1>10, <1>11, <1>12, <1>13, <1>14 DEF RemovesIn

Hid(s, p) == Hiding(HideAnswer(s, p), p, TRUE)

\* A removal that hides an answer is the hiding and then the removal.
LEMMA RemovalHidesIs ==
  ASSUME NEW b, Good(b), NothingYet(b.writes), b.live.play \in Plays, NEW p \in Players,
         b.live.play.answers[p] # None, NEW n \in Nat,
         NEW s, s = Removing(b, p, n), NEW h, h = Hid(b, p),
         NEW u, u = HideAnswer(b, p), h.live = u.live, Good(h),
         NEW t, t = HideAnswer(s, p)
  PROVE  /\ RemovalOf(h.live, t.live, p, n) /\ RemovesIn(h.writes, t.writes, p, n)
         /\ t.live.play.answers[p] # None /\ t.live.play.answers[p].hidden
         /\ ~b.live.play.scored => t.writes = s.writes
<1> DEFINE l    == b.live
           play == l.play
           w    == b.writes
           gone == [w EXCEPT !.removed = Only(p, n)]
<1>1. /\ Good(s) /\ RemovalOf(l, s.live, p, n) /\ SameMoment(l, s.live) /\ s.writes = gone
  BY RemovingIs
<1>2. b \in Steps /\ s \in Steps /\ w \in Writes /\ l \in Lives /\ s.live.play = play
      /\ s.live.phase = l.phase /\ s.live.score = l.score /\ s.writes \in Writes
  BY <1>1, GoodTypes DEF Good, RemovalOf, SameMoment
<1>3. h.writes = [u.writes EXCEPT !.question = u.live.play.at, !.hidden = Only(p, TRUE)]
  <2>1. u \in Steps
    BY <1>2, HideAnswerFacts
  <2> DEFINE part == Only(p, TRUE)
  <2> HIDE DEF part
  <2>2. Hiding(u, p, TRUE) = [u EXCEPT !.writes.question = u.live.play.at, !.writes.hidden = part]
    BY DEF Hiding, part
  <2>3. Hiding(u, p, TRUE).writes = [u.writes EXCEPT !.question = u.live.play.at, !.hidden = part]
    BY <2>1, <2>2 DEF Steps
  <2> QED BY <2>3 DEF part, Hid
<1>4. Docked(s.live, p) = Docked(l, p)
  BY <1>2 DEF Docked
<1>5. IF l.phase = "review" \/ play.options = None
      THEN Edits(b, u, HiddenIn(play, p), l.score)
      ELSE IF ~play.scored THEN Edits(b, u, Passed(play, p), l.score)
      ELSE \E v : Edits(b, v, Voided(play, p), Docked(l, p)) /\ u = SaveScoring(v)
  BY <1>2, HideAnswerIs
<1>6. IF l.phase = "review" \/ play.options = None
      THEN Edits(s, t, HiddenIn(play, p), l.score)
      ELSE IF ~play.scored THEN Edits(s, t, Passed(play, p), l.score)
      ELSE \E v : Edits(s, v, Voided(play, p), Docked(l, p)) /\ t = SaveScoring(v)
  <2>1. IF s.live.phase = "review" \/ s.live.play.options = None
        THEN Edits(s, t, HiddenIn(s.live.play, p), s.live.score)
        ELSE IF ~s.live.play.scored THEN Edits(s, t, Passed(s.live.play, p), s.live.score)
        ELSE \E v : Edits(s, v, Voided(s.live.play, p), Docked(s.live, p)) /\ t = SaveScoring(v)
    BY <1>2, HideAnswerIs
  <2> QED BY <1>2, <1>4, <2>1
<1> HIDE DEF l, play, w, gone
<1>7. ASSUME NEW new, NEW score, Edits(b, u, new, score), Edits(s, t, new, score),
             Loses(play, new, p)
      PROVE  /\ RemovalOf(h.live, t.live, p, n) /\ RemovesIn(h.writes, t.writes, p, n)
             /\ t.live.play.answers[p] # None /\ t.live.play.answers[p].hidden
             /\ t.writes = s.writes
  <2>1. RemovalOf(b.live, s.live, p, n) /\ SameMoment(b.live, s.live)
    BY <1>1 DEF l
  <2>2. RemovalOf(u.live, t.live, p, n)
    BY <1>7, <2>1, TwoEdits
  <2>3. u.writes = w /\ t.writes = gone /\ u.live.play = new /\ t.live.play = new
    BY <1>1, <1>7 DEF Edits, w
  <2>4. new.at \in Questions /\ new.answers[p] # None /\ new.answers[p].hidden
    BY <1>7 DEF Loses, Plays
  <2>5. h.writes = [w EXCEPT !.question = new.at, !.hidden = Only(p, TRUE)]
    BY <1>3, <2>3
  <2>6. NothingYet(w)
    BY DEF w
  <2>7. RemovesIn(h.writes, t.writes, p, n)
    <3> DEFINE v == h.writes
               x == t.writes
    <3>1. v = [w EXCEPT !.question = new.at, !.hidden = Only(p, TRUE)]
          /\ x = [w EXCEPT !.removed = Only(p, n)]
      BY <2>3, <2>5 DEF gone
    <3> HIDE DEF v, x
    <3>2. RemovesIn(v, x, p, n)
      BY <1>2, <2>4, <2>6, <3>1, RemovalWrites
    <3> QED BY <3>2 DEF v, x
  <2> QED BY <1>1, <2>2, <2>3, <2>4, <2>7
<1>8. CASE l.phase = "review" \/ play.options = None
  <2>1. Loses(play, HiddenIn(play, p), p)
    BY HiddenIs DEF play, l
  <2> QED BY <1>5, <1>6, <1>7, <1>8, <2>1
<1>9. CASE ~(l.phase = "review" \/ play.options = None) /\ ~play.scored
  <2>1. Loses(play, Passed(play, p), p)
    BY PassedIs DEF play, l
  <2> QED BY <1>5, <1>6, <1>7, <1>9, <2>1
<1>10. CASE ~(l.phase = "review" \/ play.options = None) /\ play.scored
  <2> DEFINE new   == Voided(play, p)
             score == Docked(l, p)
  <2>1. Loses(play, new, p) /\ play \in Plays
    BY VoidedIs DEF play, l
  <2>2. score \in [Players -> Int]
    <3>1. l.score \in [Players -> Int] /\ play.answers[p].points \in Int
      BY <1>2 DEF Lives, play, l, Plays, Maybe, Answers
    <3> QED BY <3>1 DEF Docked, play
  <2>3. PICK v1 : Edits(b, v1, new, score) /\ u = SaveScoring(v1)
    BY <1>5, <1>10
  <2>4. PICK v2 : Edits(s, v2, new, score) /\ t = SaveScoring(v2)
    BY <1>6, <1>10
  <2> HIDE DEF new, score
  <2>5. new \in Plays /\ new.at \in Questions /\ new.answers[p] # None /\ new.answers[p].hidden
    BY <2>1 DEF Loses, Plays
  <2>6. /\ v1 \in Steps /\ v1.live.play = new /\ v1.live.score = score /\ v1.writes = w
        /\ v2 \in Steps /\ v2.live.play = new /\ v2.live.score = score /\ v2.writes = gone
    BY <1>1, <2>3, <2>4 DEF Edits, w
  <2>7. /\ u.live = v1.live /\ u.writes = Pays(w, new, score)
        /\ t.live = v2.live /\ t.writes = Pays(gone, new, score)
    BY <2>3, <2>4, <2>5, <2>6, SaveScoringFacts, SaveScoringPays
  <2>8. RemovalOf(b.live, s.live, p, n) /\ SameMoment(b.live, s.live)
    BY <1>1 DEF l
  <2>9. RemovalOf(v1.live, v2.live, p, n)
    BY <2>3, <2>4, <2>8, TwoEdits
  <2>10. RemovesIn(h.writes, t.writes, p, n)
    <3> DEFINE v == h.writes
               x == t.writes
    <3>1. v = [Pays(w, new, score) EXCEPT !.question = new.at, !.hidden = Only(p, TRUE)]
      BY <1>3, <2>6, <2>7
    <3>2. x = Pays(gone, new, score) /\ gone = [w EXCEPT !.removed = Only(p, n)]
      BY <2>7 DEF gone
    <3>3. v \in Writes /\ gone \in Writes /\ w \in Writes /\ NothingYet(w)
      BY <1>1, <1>2, GoodTypes DEF w
    <3> HIDE DEF v, x
    <3>4. RemovesIn(v, x, p, n)
      BY <2>2, <2>5, <3>1, <3>2, <3>3, PaidRemovalWrites
    <3> QED BY <3>4 DEF v, x
  <2>11. t.live.play = new
    BY <2>6, <2>7
  <2> QED BY <1>10, <2>5, <2>7, <2>9, <2>10, <2>11 DEF play, l
<1> QED BY <1>8, <1>9, <1>10

\* A removal that leaves the answers alone.
LEMMA PlainRemovalSound ==
  ASSUME NEW d, NEW b, Sound(d, b), NothingYet(b.writes), NEW p \in Players,
         b.live.removed[p] = None,
         b.live.play # None /\ IsParty(b.live.play.at) /\ b.live.play.answers[p] # None
           => b.live.play.answers[p].hidden,
         NEW n, n = b.live.phaseId, NEW s, s = Removing(b, p, n)
  PROVE  Sound(d, s) /\ Unpaying(s) /\ StaysAt(b.live, s.live)
<1>1. Good(b) /\ b \in Steps /\ b.writes \in Writes /\ n \in Nat
  BY GoodTypes DEF Sound, Level, Tells
<1>2. /\ Good(s) /\ RemovalOf(b.live, s.live, p, n)
      /\ s.writes = [b.writes EXCEPT !.removed = Only(p, n)]
  BY <1>1, RemovingIs
<1> DEFINE w == b.writes
           v == s.writes
           gone == Only(p, n)
<1>3. v = [w EXCEPT !.removed = gone]
  BY <1>2
<1>4. DOMAIN gone = {p} /\ gone[p] = n
  BY DEF Only
<1>5. /\ w.question = None /\ ~w.wipe /\ w.shown = {} /\ DOMAIN w.answers = {}
      /\ DOMAIN w.votes = {} /\ DOMAIN w.hidden = {} /\ DOMAIN w.points = {}
      /\ DOMAIN w.joined = {} /\ DOMAIN w.removed = {} /\ DOMAIN w.extraTime = {}
      /\ DOMAIN w.scores = {}
  BY DEF NothingYet, Bare
<1>6. w \in Writes
  BY <1>1
<1> HIDE DEF w, v, gone
<1>7. /\ v.question = w.question /\ v.hidden = w.hidden /\ v.wipe = w.wipe /\ v.shown = w.shown
      /\ v.answers = w.answers /\ v.votes = w.votes /\ v.points = w.points
      /\ v.scores = w.scores /\ v.joined = w.joined /\ v.removed = gone
      /\ v.extraTime = w.extraTime
  BY <1>3, <1>6 DEF Writes
<1>8. NoSubmissions(v) /\ NoSubmissions(w)
  BY <1>5, <1>7 DEF NoSubmissions
<1>9. Bare(v) /\ Bare(w)
  BY <1>5, <1>7 DEF Bare
<1>10. \A q \in DOMAIN w.hidden : q = p /\ w.hidden[q]
  BY <1>5
<1>11. RemovesIn(w, v, p, n)
  BY <1>4, <1>5, <1>7, <1>8, <1>9, <1>10 DEF RemovesIn
<1>12. Sound(d, s)
  <2>1. RemovesIn(b.writes, s.writes, p, n)
    BY <1>11 DEF w, v
  <2> QED BY <1>1, <1>2, <2>1, RemovedSound
<1>13. StaysAt(b.live, s.live)
  BY <1>2 DEF RemovalOf, SamePlaceAs, StaysAt
<1> QED BY <1>5, <1>7, <1>12, <1>13 DEF Unpaying, v

LEMMA HidingRemovalSound ==
  ASSUME NEW d, NEW b, Sound(d, b), NothingYet(b.writes), b.live.play \in Plays,
         NEW p \in Players, b.live.removed[p] = None, IsParty(b.live.play.at),
         b.live.play.answers[p] # None,
         NEW n, n = b.live.phaseId, NEW s, s = Removing(b, p, n),
         NEW t, t = HideAnswer(s, p)
  PROVE  /\ Sound(d, t) /\ (t.live.phase \in SubmissionPhases => Unpaying(t))
         /\ StaysAt(b.live, t.live)
<1>1. Good(b) /\ b \in Steps /\ b.writes \in Writes /\ n \in Nat
  BY GoodTypes DEF Sound, Level, Tells
<1> DEFINE u == HideAnswer(b, p)
           h == Hiding(u, p, TRUE)
<1>2. Sound(d, h) /\ Good(u) /\ u.live.play \in Plays /\ Good(h) /\ h.live = u.live
  BY ZenonT(60), HidesSound
<1>3. /\ RemovalOf(h.live, t.live, p, n) /\ RemovesIn(h.writes, t.writes, p, n)
      /\ t.live.play.answers[p] # None /\ t.live.play.answers[p].hidden
      /\ ~b.live.play.scored => t.writes = s.writes
  <2>1. h = Hid(b, p) /\ u = HideAnswer(b, p) /\ h.live = u.live /\ Good(h)
    BY <1>2 DEF Hid
  <2> DEFINE m == n
             r == Removing(b, p, m)
             g == HideAnswer(r, p)
  <2>2. r = Removing(b, p, m) /\ g = HideAnswer(r, p) /\ m \in Nat
    BY <1>1
  <2> HIDE DEF h, u, m, r, g
  <2>3. /\ RemovalOf(h.live, g.live, p, m) /\ RemovesIn(h.writes, g.writes, p, m)
        /\ g.live.play.answers[p] # None /\ g.live.play.answers[p].hidden
        /\ ~b.live.play.scored => g.writes = r.writes
    BY <1>1, <2>1, <2>2, RemovalHidesIs
  <2> QED BY <2>3 DEF g, r, m
<1>4. /\ Good(s) /\ RemovalOf(b.live, s.live, p, n)
      /\ s.writes = [b.writes EXCEPT !.removed = Only(p, n)]
  BY <1>1, RemovingIs
<1>5. s \in Steps /\ s.live.play \in Plays /\ s.live.play.answers[p] # None
  BY <1>4 DEF Good, RemovalOf
<1>6. Good(t) /\ SameRoom(s.live, t.live)
  BY <1>4, <1>5, HideAnswerFacts, SameRoomGood
<1>7. SameRoom(b.live, u.live)
  BY <1>1, HideAnswerFacts
<1> HIDE DEF h, u
<1>8. h.live.phaseId = n /\ h.live.removed[p] = None /\ h.live.play = t.live.play
  <2>1. u.live.phaseId = n /\ u.live.removed = b.live.removed
    BY <1>7, Zenon DEF SameRoom, SameMoment
  <2>2. h.live.play = t.live.play
    BY ZenonT(60), <1>3 DEF RemovalOf
  <2> QED BY <1>2, <2>1, <2>2
<1>9. h.live.play.answers[p].hidden
  BY SMTT(60), <1>3, <1>8
<1>10. Sound(d, t)
  BY ZenonT(60), <1>2, <1>3, <1>6, <1>8, <1>9, RemovedSound
<1>11. ASSUME t.live.phase \in SubmissionPhases PROVE Unpaying(t)
  <2>1. b.live.phase \in QuestionPhases
    BY ZenonT(60), <1>4, <1>6, <1>11 DEF SameRoom, SameMoment, RemovalOf, SamePlaceAs, SubmissionPhases, QuestionPhases
  <2>2. ~b.live.play.scored
    BY <2>1, ScoredAt
  <2>3. t.writes = s.writes
    BY <1>3, <2>2
  <2>4. t.writes.scores = b.writes.scores /\ t.writes.question = b.writes.question
    BY <1>1, <1>4, <2>3 DEF Writes
  <2> QED BY SMTT(60), <2>4 DEF Unpaying, NothingYet
<1>12. StaysAt(b.live, t.live)
  <2>1. StaysAt(s.live, t.live)
    BY <1>5, HideAnswerStays
  <2> QED BY <1>4, <2>1 DEF RemovalOf, SamePlaceAs, StaysAt
<1> QED BY <1>10, <1>11, <1>12

LEMMA HostRemovesPlayerContinues ==
  ASSUME Core, NEW d, Backed(d), NEW p \in Players, HostRemovesPlayer(p)
  PROVE  Continues(d)
<1> DEFINE b == Begun
           n == b.live.phaseId
           s == Removing(b, p, n)
           t == IF PromptInPlay(p) /\ ~live.play.answers[p].hidden THEN HideAnswer(s, p) ELSE s
<1>1. /\ Sound(d, b) /\ NothingYet(b.writes) /\ Good(b) /\ b \in Steps /\ Finds(live, b.live)
      /\ b.live.play = live.play /\ Still(d.row, b.live)
  BY BegunSound
<1>2. live # None /\ live.removed[p] = None
  BY DEF Backed, HostRemovesPlayer, Active
<1>3. n = live.phaseId /\ b.live.removed[p] = None /\ n \in Nat
  BY <1>1, <1>2, GoodTypes DEF Finds, SameMoment
<1>4. s = [Begun EXCEPT !.live.removed[p] = live.phaseId,
                        !.writes.removed = Only(p, live.phaseId)]
  BY <1>3 DEF Removing
<1>5. Execute(Saved(CloseIfEveryoneDone(t)))
  BY <1>4 DEF HostRemovesPlayer, HostDoes
<1>6. PromptInPlay(p) => live.play \in Plays /\ b.live.play = live.play /\ live.play.answers[p] # None
                         /\ IsParty(live.play.at)
  BY <1>2, PromptFacts DEF PromptInPlay
<1>7. /\ Sound(d, t) /\ (t.live.phase \in SubmissionPhases => Unpaying(t))
      /\ StaysAt(b.live, t.live)
  <2>1. CASE PromptInPlay(p) /\ ~live.play.answers[p].hidden
    <3>1. t = HideAnswer(s, p) /\ s = Removing(b, p, n) /\ n = b.live.phaseId
      BY <2>1
    <3>2. /\ Sound(d, b) /\ NothingYet(b.writes) /\ b.live.play \in Plays /\ b.live.removed[p] = None
          /\ IsParty(b.live.play.at) /\ b.live.play.answers[p] # None
      BY <1>1, <1>3, <1>6, <2>1
    <3> HIDE DEF b, n, s, t
    <3> QED BY <3>1, <3>2, HidingRemovalSound
  <2>2. CASE ~(PromptInPlay(p) /\ ~live.play.answers[p].hidden)
    <3>1. t = s /\ s = Removing(b, p, n) /\ n = b.live.phaseId
      BY <2>2
    <3>2. b.live.play # None /\ IsParty(b.live.play.at) /\ b.live.play.answers[p] # None
            => b.live.play.answers[p].hidden
      BY <1>1, <2>2 DEF PromptInPlay, PlayNow
    <3> HIDE DEF b, n, s, t
    <3> QED BY <1>1, <1>3, <3>1, <3>2, PlainRemovalSound
  <2> QED BY <2>1, <2>2
<1> HIDE DEF b, n, s, t
<1>8. Sound(d, CloseIfEveryoneDone(t))
  BY <1>7, CloseIfEveryoneDoneSound
<1>9. Turns(d.row, CloseIfEveryoneDone(t).live)
  <2>1. Still(d.row, t.live)
    BY <1>1, <1>7, StaysStill
  <2> QED BY <1>7, <2>1, CloseIfEveryoneDoneTurns
<1> QED BY <1>5, <1>8, <1>9, HostContinues

----------------------------------------------------------------------------
(* A player joins, or asks for extra time. *)

\* Somebody takes a seat, or says what time they need: no answer and no point moves.
Seats(l, m) ==
  /\ SamePlaceAs(l, m) /\ m.status = l.status /\ m.play = l.play
  /\ m.removed = l.removed /\ m.score = l.score
  /\ \A q \in Players : \/ m.joined[q] = l.joined[q]
                        \/ l.joined[q] = None /\ m.joined[q] = l.phaseId

Seating(l, m, w) ==
  /\ w.question = None /\ Bare(w) /\ DOMAIN w.removed = {} /\ DOMAIN w.scores = {}
  /\ m.joined = Over(w.joined, l.joined) /\ m.extraTime = Over(w.extraTime, l.extraTime)

LEMMA SeatedSound ==
  ASSUME NEW d, NEW s, Sound(d, s), NothingYet(s.writes), NEW t, Good(t),
         Seats(s.live, t.live), Seating(s.live, t.live, t.writes)
  PROVE  Sound(d, t)
<1> DEFINE l == s.live
           m == t.live
           v == s.writes
           w == t.writes
           e == Lands(d, s)
           f == Lands(d, t)
           n == l.phaseId
           play == l.play
<1>1. /\ e \in Stores /\ Accounts(e) /\ Mirrors(l, e) /\ LogOK(e.row) /\ StampsOK(e)
      /\ e.row = Row(l) /\ e.row.log = l.log /\ e.row.phaseId = n /\ n \in Nat
      /\ l.joined = e.joined /\ l.removed = e.removed
      /\ l.extraTime = e.extraTime /\ l.score = e.score
      /\ l.play # None => PlayOf(l.play, e) /\ l.play \in Plays /\ l.play.at \in Questions
  BY LevelFacts DEF Sound
<1>2. /\ w.question = None /\ Bare(w) /\ DOMAIN w.removed = {} /\ DOMAIN w.scores = {}
      /\ m.joined = Over(w.joined, l.joined) /\ m.extraTime = Over(w.extraTime, l.extraTime)
  BY DEF Seating
<1>3. Tells(d, s)
  BY DEF Sound, Level
<1>4. /\ d \in Stores /\ d.row.status \in Open /\ Good(s)
  BY <1>3 DEF Tells
<1>5. /\ e.joined = d.joined /\ e.removed = d.removed
      /\ e.extraTime = d.extraTime /\ e.score = d.score /\ SameCells(d, e)
  BY <1>4, NothingLands
<1>6. Tells(d, t)
  <2>1. ~Conflicts(d, w)
    BY <1>2 DEF Conflicts
  <2> QED BY <1>2, <1>3, <2>1 DEF Tells
<1>7. /\ f \in Stores /\ f.row = Row(m)
      /\ f.joined = Over(w.joined, d.joined) /\ f.removed = Over(w.removed, d.removed)
      /\ f.extraTime = Over(w.extraTime, d.extraTime) /\ f.score = Over(w.scores, d.score)
      /\ \A x \in Questions, q \in Players :
           /\ f.answers[x][q] = AnswerCell(d, w, x, q) /\ f.votes[x][q] = VoteCell(d, w, x, q)
  BY <1>6, LandsOf
<1>8. /\ SamePlaceAs(l, m) /\ m.play = play /\ m.removed = l.removed /\ m.score = l.score
      /\ \A q \in Players : \/ m.joined[q] = l.joined[q]
                            \/ l.joined[q] = None /\ m.joined[q] = n
  BY DEF Seats
<1>9. f.row.log = e.row.log /\ f.row.phaseId = e.row.phaseId
  BY <1>1, <1>7, <1>8 DEF Row, SamePlaceAs
<1>10. l.play = play
  OBVIOUS
<1> HIDE DEF l, m, v, w, e, f, play, n
<1>11. SameCells(e, f)
  <2> SUFFICES ASSUME NEW x \in Questions, NEW q \in Players
               PROVE  f.answers[x][q] = e.answers[x][q] /\ f.votes[x][q] = e.votes[x][q]
    BY DEF SameCells
  <2>1. AnswerCell(d, w, x, q) = d.answers[x][q] /\ VoteCell(d, w, x, q) = d.votes[x][q]
    BY <1>2, <1>4, BareCells
  <2> QED BY <1>5, <1>7, <2>1 DEF SameCells
<1>12. /\ f.joined = m.joined /\ f.extraTime = m.extraTime
       /\ f.removed = e.removed /\ f.score = e.score
  <2>1. d.removed \in [Players -> Maybe(Nat)] /\ d.score \in [Players -> Int]
    BY <1>4 DEF Stores, Positions
  <2>2. Over(w.removed, d.removed) = d.removed
    BY <1>2, <2>1, NothingOver
  <2>3. Over(w.scores, d.score) = d.score
    BY <1>2, <2>1, NothingOver
  <2> QED BY <1>1, <1>2, <1>5, <1>7, <2>2, <2>3
<1>13. SamePaper(e, f)
  BY <1>11 DEF SamePaper, SameCells
<1>14. SameStanding(e, f)
  <2> SUFFICES ASSUME NEW i \in DOMAIN e.row.log, NEW q \in Players
               PROVE  /\ Eligible(f, e.row.log[i], q) <=> Eligible(e, e.row.log[i], q)
                      /\ e.row.log[i].revealed # None =>
                           (SeenAtReveal(f, e.row.log[i], q) <=> SeenAtReveal(e, e.row.log[i], q))
    BY DEF SameStanding
  <2>1. /\ e.row.log[i].opened \in Nat /\ e.row.log[i].opened <= n
    BY <1>1, LogEntry DEF LogOK, EntryOK
  <2>2. ~(n < e.row.log[i].opened)
    BY <1>1, <2>1
  <2>3. Eligible(f, e.row.log[i], q) <=> Eligible(e, e.row.log[i], q)
    BY <1>1, <1>8, <1>12, <2>2 DEF Eligible
  <2> QED BY <1>12, <2>3 DEF SeenAtReveal
<1>15. StampsOK(f)
  <2>1. n <= n /\ f.row.phaseId = n
    BY <1>1, <1>9
  <2> QED BY <1>1, <1>8, <1>12, <2>1 DEF StampsOK
<1>16. Accounts(f)
  BY <1>1, <1>7, <1>9, <1>12, <1>13, <1>14, <1>15, StandingAccounts
<1>17. play # None => PlayOf(play, f)
  <2> SUFFICES ASSUME play # None PROVE PlayOf(play, f)
    OBVIOUS
  <2>1. PlayOf(play, e) /\ play \in Plays /\ play.at \in Questions
    BY <1>1, <1>10
  <2>2. ASSUME NEW q \in Players, IsParty(play.at), play.answers[q] # None
        PROVE  /\ f.answers[play.at][q].hidden = play.answers[q].hidden
               /\ f.removed[q] # None => play.answers[q].hidden
    <3>1. Stored(play, e, q) /\ Fair(play, e, q)
      BY <2>1 DEF PlayOf
    <3>2. f.answers[play.at][q] = e.answers[play.at][q]
      BY <1>11, <2>1 DEF SameCells
    <3> QED BY <1>12, <2>2, <3>1, <3>2 DEF Stored, SameAnswer, Fair
  <2> QED BY <1>9, <1>13, <1>14, <2>1, <2>2, StandingPlay
<1>18. SameTerms(l, m)
  BY <1>8, <1>10 DEF SameTerms
<1> QED BY <1>1, <1>6, <1>7, <1>8, <1>10, <1>12, <1>16, <1>17, <1>18, EditSound DEF l, m, f

LEMMA SeatedContinues ==
  ASSUME Core, NEW d, Backed(d), NEW s, s = StepFrom(live, timer), NEW t, Good(t),
         Seats(s.live, t.live), Seating(s.live, t.live, t.writes), Execute(t)
  PROVE  Continues(d)
<1>1. timer \in Maybe(Timers)
  BY DEF Core
<1>2. /\ Sound(d, s) /\ NothingYet(s.writes) /\ SameRow(s.live, d.row)
  BY <1>1, FromSound
<1>3. Sound(d, t)
  BY <1>2, SeatedSound
<1>4. SameRow(t.live, d.row)
  BY <1>2 DEF Seats, SamePlaceAs, SameRow
<1>5. Turns(d.row, t.live)
  BY <1>4, SameRowStill, StillTurns DEF Backed
<1> QED BY <1>3, <1>4, <1>5 DEF Continues, Steady

LEMMA JoinLobbyContinues ==
  ASSUME Core, NEW d, Backed(d), NEW p \in Players, JoinLobby(p)
  PROVE  Continues(d)
<1> DEFINE s      == StepFrom(live, timer)
           part   == Only(p, live.phaseId)
           joined == [live.joined EXCEPT ![p] = live.phaseId]
           m      == [live EXCEPT !.joined = joined]
           w      == [s.writes EXCEPT !.joined = part]
           r      == [s EXCEPT !.live = m]
           t      == [r EXCEPT !.writes = w]
<1>1. /\ Good(s) /\ s \in Steps /\ s.live = live /\ live \in Lives /\ s.writes \in Writes
      /\ s.writes = NoWrites
  BY StepFromFacts, NoWritesTyped DEF JoinLobby, Ready, Core
<1>2. Execute([s EXCEPT !.live.joined[p] = live.phaseId, !.writes.joined = part])
      /\ live.joined[p] = None
  BY DEF JoinLobby
<1>0. NothingYet(s.writes)
  BY <1>1, NoWritesYet
<1> HIDE DEF s
<1>3. part \in PartOf(Nat) /\ DOMAIN part = {p} /\ part[p] = live.phaseId
  BY <1>1, PartTyped DEF Lives, Only
<1>4. joined \in Positions /\ joined = Over(part, live.joined)
  <2>1. live.joined \in [Players -> Maybe(Nat)] /\ live.phaseId \in Maybe(Nat)
    BY <1>1 DEF Lives, Positions, Maybe
  <2> HIDE DEF part
  <2>2. joined = Over(part, live.joined)
    BY <1>3, <2>1 DEF Over
  <2> QED BY <2>1, <2>2 DEF Positions
<1> HIDE DEF part
<1>5. [s EXCEPT !.live.joined[p] = live.phaseId, !.writes.joined = part] = t
  BY <1>1 DEF Steps
<1>6. \A q \in Players : joined[q] = live.joined[q] \/ (live.joined[q] = None /\ joined[q] = live.phaseId)
  BY <1>1, <1>2 DEF Lives, Positions
<1> HIDE DEF joined
<1>7. m \in Lives /\ m.play = live.play /\ m.log = live.log /\ m.score = live.score
      /\ SameMoment(live, m)
  BY <1>1, <1>4 DEF Lives, SameMoment
<1>8. m.joined = joined /\ m.removed = live.removed /\ m.extraTime = live.extraTime
      /\ m.hasScored = live.hasScored
  BY <1>1 DEF Lives
<1>9. w \in Writes
  BY <1>1, <1>3 DEF Writes
<1>10. /\ w.question = s.writes.question /\ w.wipe = s.writes.wipe /\ w.shown = s.writes.shown
       /\ w.answers = s.writes.answers /\ w.votes = s.writes.votes /\ w.hidden = s.writes.hidden
       /\ w.points = s.writes.points
  BY <1>1 DEF Writes
<1>11. /\ w.scores = s.writes.scores /\ w.joined = part /\ w.removed = s.writes.removed
       /\ w.extraTime = s.writes.extraTime
  BY <1>1 DEF Writes
<1> HIDE DEF m, w
<1>12. r \in Steps /\ r.live = m
  BY <1>1, <1>7, WithLive
<1> HIDE DEF r
<1>13. t \in Steps /\ t.live = m /\ t.writes = w
  BY <1>9, <1>12, WithWrites DEF Steps
<1> HIDE DEF t
<1>14. Good(t)
  BY <1>1, <1>7, <1>13, MovesGood DEF Moves
<1>15. Seats(s.live, t.live)
  BY <1>1, <1>6, <1>7, <1>8, <1>13 DEF Seats, SamePlaceAs, SameMoment
<1>16. Seating(s.live, t.live, t.writes)
  <2>1. w.question = None /\ Bare(w) /\ DOMAIN w.removed = {} /\ DOMAIN w.scores = {}
        /\ DOMAIN w.extraTime = {}
    BY <1>0, <1>10, <1>11 DEF NothingYet, Bare
  <2>2. Over(w.extraTime, live.extraTime) = live.extraTime
    BY <1>1, <2>1, NothingOver DEF Lives
  <2> QED BY <1>1, <1>4, <1>8, <1>11, <1>13, <2>1, <2>2 DEF Seating
<1>17. Execute(t)
  BY <1>2, <1>5
<1>18. s = StepFrom(live, timer)
  BY DEF s
<1> QED BY <1>14, <1>15, <1>16, <1>17, <1>18, SeatedContinues

LEMMA SetExtraTimeContinues ==
  ASSUME Core, NEW d, Backed(d), NEW p \in Players, SetExtraTime(p)
  PROVE  Continues(d)
<1> DEFINE s     == StepFrom(live, timer)
           part  == Only(p, ~live.extraTime[p])
           extra == [live.extraTime EXCEPT ![p] = ~@]
           m     == [live EXCEPT !.extraTime = extra]
           w     == [s.writes EXCEPT !.extraTime = part]
           r     == [s EXCEPT !.live = m]
           t     == [r EXCEPT !.writes = w]
<1>1. /\ Good(s) /\ s \in Steps /\ s.live = live /\ live \in Lives /\ s.writes \in Writes
      /\ s.writes = NoWrites
  BY StepFromFacts, NoWritesTyped DEF SetExtraTime, Ready, Core
<1>2. Execute([s EXCEPT !.live.extraTime[p] = ~@, !.writes.extraTime = part])
  BY DEF SetExtraTime
<1>0. NothingYet(s.writes)
  BY <1>1, NoWritesYet
<1> HIDE DEF s
<1>3. part \in PartOf(BOOLEAN) /\ DOMAIN part = {p}
  BY <1>1, PartTyped DEF Lives, Only
<1>4. extra \in [Players -> BOOLEAN] /\ extra = Over(part, live.extraTime)
  <2>1. live.extraTime \in [Players -> BOOLEAN]
    BY <1>1 DEF Lives
  <2>2. part[p] = ~live.extraTime[p]
    BY DEF Only
  <2> HIDE DEF part
  <2>3. extra = Over(part, live.extraTime)
    BY <1>3, <2>1, <2>2 DEF Over
  <2> QED BY <2>1, <2>3
<1> HIDE DEF part
<1>5. [s EXCEPT !.live.extraTime[p] = ~@, !.writes.extraTime = part] = t
  BY ZenonT(60), <1>1 DEF Steps
<1> HIDE DEF extra
<1>7. m \in Lives /\ m.play = live.play /\ m.log = live.log /\ m.score = live.score
      /\ SameMoment(live, m)
  BY ZenonT(60), <1>1, <1>4 DEF Lives, SameMoment
<1>8. m.joined = live.joined /\ m.removed = live.removed /\ m.extraTime = extra
      /\ m.hasScored = live.hasScored
  BY <1>1 DEF Lives
<1>9. w \in Writes
  BY <1>1, <1>3 DEF Writes
<1>10. /\ w.question = s.writes.question /\ w.wipe = s.writes.wipe /\ w.shown = s.writes.shown
       /\ w.answers = s.writes.answers /\ w.votes = s.writes.votes /\ w.hidden = s.writes.hidden
       /\ w.points = s.writes.points
  BY <1>1 DEF Writes
<1>11. /\ w.scores = s.writes.scores /\ w.joined = s.writes.joined /\ w.removed = s.writes.removed
       /\ w.extraTime = part
  BY <1>1 DEF Writes
<1> HIDE DEF m, w
<1>12. r \in Steps /\ r.live = m
  BY <1>1, <1>7, WithLive
<1> HIDE DEF r
<1>13. t \in Steps /\ t.live = m /\ t.writes = w
  BY <1>9, <1>12, WithWrites DEF Steps
<1> HIDE DEF t
<1>14. Good(t)
  BY <1>1, <1>7, <1>13, MovesGood DEF Moves
<1>15. Seats(s.live, t.live)
  BY <1>1, <1>7, <1>8, <1>13 DEF Seats, SamePlaceAs, SameMoment
<1>16. Seating(s.live, t.live, t.writes)
  <2>1. w.question = None /\ Bare(w) /\ DOMAIN w.removed = {} /\ DOMAIN w.scores = {}
        /\ DOMAIN w.joined = {}
    BY <1>0, <1>10, <1>11 DEF NothingYet, Bare
  <2>2. Over(w.joined, live.joined) = live.joined
    BY <1>1, <2>1, NothingOver DEF Lives, Positions
  <2> QED BY <1>1, <1>4, <1>8, <1>11, <1>13, <2>1, <2>2 DEF Seating
<1>17. Execute(t)
  BY <1>2, <1>5
<1>18. s = StepFrom(live, timer)
  BY DEF s
<1> QED BY <1>14, <1>15, <1>16, <1>17, <1>18, SeatedContinues

LEMMA HostHidesAnswerContinues ==
  ASSUME Core, NEW d, Backed(d), NEW p \in Players, HostHidesAnswer(p)
  PROVE  Continues(d)
<1> DEFINE b == Begun
           u == HideAnswer(b, p)
           t == Hiding(u, p, TRUE)
<1>1. /\ Sound(d, b) /\ NothingYet(b.writes) /\ b.live.play = live.play
      /\ Still(d.row, b.live) /\ b \in Steps
  BY BegunSound
<1>2. live # None /\ PromptInPlay(p) /\ Execute(Saved(t))
  BY DEF HostHidesAnswer, HostDoes, Ready
<1>3. live.play \in Plays /\ live.play.answers[p] # None /\ IsParty(live.play.at)
  BY <1>2, PromptFacts DEF PromptInPlay
<1> HIDE DEF b
<1>4. Sound(d, t) /\ t.live = u.live
  BY <1>1, <1>3, HidesSound
<1>5. StaysAt(b.live, u.live)
  BY <1>1, <1>3, HideAnswerStays
<1> HIDE DEF t, u
<1>6. Turns(d.row, t.live)
  BY <1>1, <1>4, <1>5, StaysStill, StillTurns
<1> QED BY <1>2, <1>4, <1>6, HostContinues

LEMMA HostShowsAnswerContinues ==
  ASSUME Core, NEW d, Backed(d), NEW p \in Players, HostShowsAnswer(p)
  PROVE  Continues(d)
<1> DEFINE b == Begun
           u == [b EXCEPT !.live.play.answers[p].hidden = FALSE]
           t == Hiding(u, p, FALSE)
<1>1. /\ Sound(d, b) /\ NothingYet(b.writes) /\ b.live.play = live.play /\ Finds(live, b.live)
      /\ b.live.phase = live.phase /\ Still(d.row, b.live) /\ Good(b)
  BY BegunSound
<1>2. /\ live # None /\ PromptInPlay(p) /\ Execute(Saved(t))
      /\ live.phase = "review" /\ live.removed[p] = None
  BY DEF HostShowsAnswer, HostDoes, Ready
<1>3. live.play \in Plays /\ live.play.answers[p] # None /\ IsParty(live.play.at)
  BY <1>2, PromptFacts DEF PromptInPlay
<1>4. b.live.removed[p] = None
  BY <1>1, <1>2 DEF Finds
<1> HIDE DEF b
<1>5. Sound(d, t)
  BY <1>1, <1>2, <1>3, <1>4, ShowsSound
<1>6. StaysAt(b.live, t.live)
  BY <1>1, ShownStays
<1> HIDE DEF t, u
<1>7. Turns(d.row, t.live)
  BY <1>1, <1>6, StaysStill, StillTurns
<1> QED BY <1>2, <1>5, <1>7, HostContinues

LEMMA HostPicksFavouriteContinues ==
  ASSUME Core, NEW d, Backed(d), NEW p \in Players, HostPicksFavourite(p)
  PROVE  Continues(d)
<1> DEFINE b == Begun
           t == Favoured(b, p)
<1>1. /\ Sound(d, b) /\ NothingYet(b.writes) /\ b.live.play = live.play
      /\ b.live.phase = live.phase /\ Still(d.row, b.live) /\ Good(b)
  BY BegunSound
<1>2. /\ live # None /\ PlayNow(live) /\ Execute(Saved(t))
      /\ live.phase = "reveal" /\ KindOf(live.play.at) = "caption" /\ live.play.favourite = None
      /\ live.play.options # None /\ p \in live.play.options
      /\ live.play.answers[p] # None /\ ~live.play.answers[p].hidden
  BY DEF HostPicksFavourite, HostDoes, Ready
<1>3. live.play \in Plays
  BY <1>2, PlayBegun
<1> HIDE DEF b
<1>4. Sound(d, t)
  BY <1>1, <1>2, <1>3, FavouredSound
<1>5. StaysAt(b.live, t.live)
  BY <1>1, <1>3, FavouredStays
<1> HIDE DEF t
<1>6. Turns(d.row, t.live)
  BY <1>1, <1>5, StaysStill, StillTurns
<1> QED BY <1>2, <1>4, <1>6, HostContinues

----------------------------------------------------------------------------
(* The other commands of the host. *)

LEMMA HostRepeatsContinues ==
  ASSUME Core, NEW d, Backed(d), HostRepeats
  PROVE  Continues(d)
<1> DEFINE b == Begun
<1>1. Sound(d, b) /\ Turns(d.row, b.live)
  BY BegunSound, StillTurns
<1>2. Execute(Saved(b))
  BY DEF HostRepeats
<1> HIDE DEF b
<1> QED BY <1>1, <1>2, HostContinues

LEMMA HostRefusedContinues ==
  ASSUME Core, NEW d, Backed(d), HostRefused
  PROVE  Continues(d)
<1> DEFINE b == Begun
<1>1. Sound(d, b) /\ SameRow(b.live, d.row) /\ Turns(d.row, b.live)
  BY BegunSound, StillTurns
<1>2. Execute(b)
  BY DEF HostRefused
<1> HIDE DEF b
<1> QED BY <1>1, <1>2 DEF Continues, Steady

LEMMA HostStartContinues ==
  ASSUME Core, NEW d, Backed(d), HostStart
  PROVE  Continues(d)
<1> DEFINE b == Begun
           t == [b EXCEPT !.live.status = "running"]
<1>1. Sound(d, b) /\ b.live.status = live.status /\ Good(b) /\ Still(d.row, b.live)
  BY BegunSound
<1>2. live.status = "lobby" /\ Execute(Saved(OpenRoundIntro(t, 1)))
  BY DEF HostStart, HostDoes
<1> HIDE DEF b
<1>3. Sound(d, t) /\ t.live.status = "running" /\ StaysAt(b.live, t.live)
  BY <1>1, <1>2, WithStatusLevel
<1>4. b.live.phase = "lobby"
  BY <1>1, <1>2 DEF Good, LiveOK, Placed, InLobby
<1>5. LogPlaced(b.live)
  BY <1>1, LevelHere DEF Sound
<1>6. \A i \in DOMAIN t.live.log : t.live.log[i].at[1] < 1
  BY <1>3, <1>4, <1>5 DEF LogPlaced, EntryPlaced, StaysAt
<1>7. 1 \in 1..Len(Rounds)
  BY QuizFacts
<1> HIDE DEF t
<1> DEFINE u == OpenRoundIntro(t, 1)
<1>8. Sound(d, u)
  BY <1>3, <1>6, <1>7, OpenRoundIntroSound DEF Sound
<1>9. Execute(Saved(u))
  BY <1>2
<1>10. Turns(d.row, u.live)
  <2>1. Poised(d.row, t)
    BY <1>1, <1>3, StaysStill, LevelPoised DEF Sound
  <2>2. \A y \in Questions : ~(y[1] < 1)
    BY QuestionPlace
  <2> HIDE DEF u
  <2> QED BY <1>7, <2>1, <2>2, OpenRoundIntroStill, StillTurns DEF u
<1> HIDE DEF u
<1> QED BY <1>8, <1>9, <1>10, HostContinues

LEMMA HostNextContinues ==
  ASSUME Core, NEW d, Backed(d), HostNext
  PROVE  Continues(d)
<1> DEFINE b == Begun
           t == NextEffects(b)
<1>1. Sound(d, b) /\ NothingYet(b.writes) /\ b.live.status = live.status
      /\ b.live.phase = live.phase /\ Still(d.row, b.live)
  BY BegunSound
<1>2. live.status = "running" /\ live.phase \in NextAllowed /\ Execute(Saved(t))
  BY DEF HostNext, HostDoes
<1> HIDE DEF b
<1>3. Sound(d, t)
  BY <1>1, <1>2, NextEffectsSound
<1>4. Turns(d.row, t.live)
  BY <1>1, <1>2, NextEffectsTurns
<1> HIDE DEF t
<1> QED BY <1>2, <1>3, <1>4, HostContinues

LEMMA HostRevealContinues ==
  ASSUME Core, NEW d, Backed(d), HostReveal
  PROVE  Continues(d)
<1> DEFINE b  == Begun
           no == FALSE
           t  == CloseTimedPhase(b, no)
<1>1. /\ Sound(d, b) /\ NothingYet(b.writes) /\ b.live.status = live.status
      /\ b.live.phase = live.phase /\ Good(b) /\ Still(d.row, b.live)
  BY BegunSound
<1>2. live.status = "running" /\ live.phase \in {"open", "vote"} /\ Execute(Saved(t))
  BY DEF HostReveal, HostDoes
<1> HIDE DEF b
<1>3. b.live.phase \in SubmissionPhases /\ b.live.phase \in QuestionPhases
  BY <1>1, <1>2 DEF SubmissionPhases, QuestionPhases
<1>4. InPlay(b) /\ Unpaying(b)
  BY <1>1, <1>2, <1>3, InPlayHere, NothingUnpaying
<1>5. no \in BOOLEAN
  OBVIOUS
<1> HIDE DEF no
<1>6. Sound(d, t)
  BY <1>1, <1>3, <1>4, <1>5, CloseTimedPhaseSound
<1>7. Turns(d.row, t.live)
  BY <1>1, <1>3, <1>4, <1>5, LevelPoised, SoundAsking, CloseTimedPhaseTurns DEF Sound
<1> HIDE DEF t
<1> QED BY <1>2, <1>6, <1>7, HostContinues

LEMMA HostSkipContinues ==
  ASSUME Core, NEW d, Backed(d), HostSkip
  PROVE  Continues(d)
<1> DEFINE b == Begun
           k == Skipped(b)
           t == AfterQuestion(k)
           u == AfterQuestion(b)
<1>1. /\ Sound(d, b) /\ b.live.status = live.status
      /\ b.live.phase = live.phase /\ b.live.play = live.play /\ Still(d.row, b.live)
  BY BegunSound
<1>2. /\ live.status = "running"
      /\ \/ live.phase \in QuestionPhases /\ live.play # None /\ Execute(Saved(t))
         \/ live.phase = "reveal" /\ Execute(Saved(u))
  BY DEF HostSkip, HostDoes, PlayNow
<1> HIDE DEF b
<1>3. CASE live.phase \in QuestionPhases /\ live.play # None /\ Execute(Saved(t))
  <2>1. /\ Level(d, k) /\ k.live.status = "running" /\ k.live.phase \in AtPhases
    BY <1>1, <1>2, <1>3, SkippedLevel DEF AtPhases
  <2>2. Poised(d.row, k)
    BY <1>1, <1>3, SkippedStill
  <2> HIDE DEF k
  <2>3. Sound(d, t) /\ Turns(d.row, t.live)
    BY <2>1, <2>2, AfterQuestionSound, AfterQuestionTurns
  <2> HIDE DEF t
  <2> QED BY <1>3, <2>3, HostContinues
<1>4. CASE live.phase = "reveal" /\ Execute(Saved(u))
  <2>1. Level(d, b) /\ b.live.status = "running" /\ b.live.phase \in AtPhases
    BY <1>1, <1>2, <1>4 DEF AtPhases, RevealPhases, Sound
  <2>2. Poised(d.row, b)
    BY <1>1, <2>1, LevelPoised
  <2>3. Sound(d, u) /\ Turns(d.row, u.live)
    BY <2>1, <2>2, AfterQuestionSound, AfterQuestionTurns
  <2> HIDE DEF u
  <2> QED BY <1>4, <2>3, HostContinues
<1> QED BY <1>2, <1>3, <1>4

LEMMA HostShowAnswersContinues ==
  ASSUME Core, NEW d, Backed(d), HostShowAnswers
  PROVE  Continues(d)
<1> DEFINE b == Begun
           t == StartVote(b)
<1>1. /\ Sound(d, b) /\ NothingYet(b.writes) /\ b.live.status = live.status
      /\ b.live.phase = live.phase /\ Good(b) /\ Still(d.row, b.live)
  BY BegunSound
<1>2. live.status = "running" /\ live.phase = "review" /\ Execute(Saved(t))
  BY DEF HostShowAnswers, HostDoes
<1> HIDE DEF b
<1>3. b.live.phase \in QuestionPhases
  BY <1>1, <1>2 DEF QuestionPhases
<1>4. InPlay(b)
  BY <1>1, <1>2, <1>3, InPlayHere
<1>5. IsParty(b.live.play.at) /\ b.live.play.options = None /\ Here(b.live)
  <2>1. b.live.play # None
    BY <1>4, RowsAssumption DEF InPlay
  <2> QED BY <1>1, <1>2, <2>1 DEF Sound, PhaseFits, Suits
<1>6. DOMAIN b.writes.scores = {} /\ b.writes.question = None
  BY <1>1 DEF NothingYet
<1>7. Sound(d, t)
  BY <1>1, <1>3, <1>4, <1>5, <1>6, StartVoteSound DEF Sound
<1>8. Turns(d.row, t.live)
  BY <1>1, <1>3, <1>4, LevelPoised, SoundAsking, StartVoteTurns DEF Sound
<1> HIDE DEF t
<1> QED BY <1>2, <1>7, <1>8, HostContinues

LEMMA HostPauseContinues ==
  ASSUME Core, NEW d, Backed(d), HostPause
  PROVE  Continues(d)
<1> DEFINE b == Begun
           t == Paused(b)
<1>1. Sound(d, b) /\ b.live.status = live.status /\ Still(d.row, b.live)
  BY BegunSound
<1>2. live.status = "running" /\ Execute(Saved(t))
  BY DEF HostPause, HostDoes
<1> HIDE DEF b
<1>3. Sound(d, t) /\ StaysAt(b.live, t.live)
  BY <1>1, <1>2, PausedSound
<1> HIDE DEF t
<1>4. Turns(d.row, t.live)
  BY <1>1, <1>3, StaysStill, StillTurns
<1> QED BY <1>2, <1>3, <1>4, HostContinues

LEMMA HostAddTimeContinues ==
  ASSUME Core, NEW d, Backed(d), HostAddTime
  PROVE  Continues(d)
<1> DEFINE b == Begun
           t == TimeAdded(b, 1)
<1>1. Sound(d, b) /\ Finds(live, b.live) /\ Still(d.row, b.live)
  BY BegunSound
<1>2. live.deadline # None /\ Execute(Saved(t))
  BY DEF HostAddTime
<1>3. b.live.deadline # None
  BY <1>1, <1>2 DEF Finds, SameMoment
<1> HIDE DEF b
<1>4. Sound(d, t) /\ StaysAt(b.live, t.live)
  BY <1>1, <1>3, TimeAddedSound
<1> HIDE DEF t
<1>5. Turns(d.row, t.live)
  BY <1>1, <1>4, StaysStill, StillTurns
<1> QED BY <1>2, <1>4, <1>5, HostContinues

LEMMA HostEndContinues ==
  ASSUME Core, NEW d, Backed(d), HostEnd
  PROVE  Continues(d)
<1> DEFINE b == Begun
           t == IF live.phase = "podium" THEN EndSession(b, "finished")
                ELSE IF live.status = "lobby" \/ ~live.hasScored THEN EndSession(b, "abandoned")
                ELSE ShowPodium(b)
<1>1. Sound(d, b) /\ Still(d.row, b.live)
  BY BegunSound
<1>2. Execute(Saved(t))
  BY DEF HostEnd, HostDoes
<1> HIDE DEF b
<1>3. Level(d, b) /\ "finished" \in Closed /\ "abandoned" \in Closed
  BY <1>1 DEF Sound, Closed
<1>4. Sound(d, EndSession(b, "finished")) /\ Sound(d, EndSession(b, "abandoned"))
      /\ Sound(d, ShowPodium(b))
  BY <1>3, EndSessionSound, ShowPodiumSound
<1>5. Still(d.row, EndSession(b, "finished").live) /\ Still(d.row, EndSession(b, "abandoned").live)
      /\ Still(d.row, ShowPodium(b).live)
  <2>1. Poised(d.row, b)
    BY <1>1, <1>3, LevelPoised
  <2> QED BY <1>3, <2>1, EndSessionStill, ShowPodiumStill
<1>6. Sound(d, t) /\ Turns(d.row, t.live)
  BY <1>4, <1>5, StillTurns
<1> HIDE DEF t
<1> QED BY <1>2, <1>6, HostContinues

LEMMA AbandonContinues ==
  ASSUME Core, NEW d, Backed(d), Abandon
  PROVE  Continues(d)
<1> DEFINE s == StepFrom(live, timer)
           t == EndSession(s, "abandoned")
<1>1. timer \in Maybe(Timers)
  BY DEF Core
<1>2. s = StepFrom(live, timer)
  OBVIOUS
<1>3. Execute(t)
  BY DEF Abandon
<1> HIDE DEF s
<1>4. Sound(d, s) /\ "abandoned" \in Closed /\ Still(d.row, s.live)
  BY <1>1, <1>2, FromSound DEF Closed
<1>5. Sound(d, t)
  BY <1>4, EndSessionSound DEF Sound
<1>6. t.saves
  BY <1>4, EndSessionGood DEF Sound, Level, Tells, Good, Leaves
<1>7. Turns(d.row, t.live)
  BY <1>4, LevelPoised, EndSessionStill, StillTurns DEF Sound
<1> HIDE DEF t
<1> QED BY <1>3, <1>5, <1>6, <1>7 DEF Continues, Steady

\* A timer that goes off moves the session on, and saves it, or leaves it as it is.
LEMMA ElapsedLeaves ==
  ASSUME NEW s, Good(s), s.live.status = "running"
  PROVE  Elapsed(s).live = s.live \/ Elapsed(s).saves
<1> DEFINE t == Elapsed(s)
           here == s.live
           yes == TRUE
<1>1. s \in Steps /\ here \in Lives /\ LiveOK(here)
  BY CursorTyped DEF Good
<1>2. Armed(s).live = here
  BY <1>1, ArmedFacts
<1>3. CASE here.phase = "read"
  <2>1. here.deadline \in Int
    BY <1>1, <1>3 DEF LiveOK, OnTheClock, TimedPhases
  <2>2. t = Armed(s) \/ t = OpenAnswers(s)
    BY <1>3, <2>1 DEF Elapsed, SubmissionPhases
  <2>3. InPlay(s)
    BY <1>3, InPlayHere DEF QuestionPhases
  <2> HIDE DEF t
  <2> QED BY <1>2, <2>2, <2>3, OpenAnswersGood DEF Leaves, t
<1>4. CASE here.phase \in SubmissionPhases
  <2>1. t = s \/ t = Armed(s) \/ t = CloseTimedPhase(s, yes) \/ t = OpenAnswers(s)
    <3>1. here.deadline \in Int
      BY <1>1, <1>4, PhaseFacts DEF LiveOK, OnTheClock
    <3>2. here.phase # "read" /\ (here.deadline > -Grace <=> ~(here.deadline <= -Grace))
      BY <1>4, <3>1, TimeAssumption DEF SubmissionPhases
    <3>3. CASE here.deadline <= -Grace
      BY <1>4, <3>2, <3>3 DEF Elapsed
    <3>4. CASE here.deadline > -Grace
      BY <1>4, <3>2, <3>4 DEF Elapsed
    <3> HIDE DEF t
    <3> QED BY <3>2, <3>3, <3>4
  <2>2. InPlay(s)
    BY <1>4, InPlayHere, PhaseFacts
  <2>3. CloseTimedPhase(s, yes).live = here \/ CloseTimedPhase(s, yes).saves
    <3> DEFINE u == CloseTimedPhase(s, yes)
    <3>0. yes \in BOOLEAN
      OBVIOUS
    <3> HIDE DEF yes
    <3>1. CASE Waits(here, yes)
      <4>1. Good(s)
        OBVIOUS
      <4> HIDE DEF here
      <4> QED BY <2>2, <3>0, <3>1, <4>1, CloseTimedPhaseGood DEF here
    <3>2. CASE ~Waits(here, yes)
      <4>1. u = IF here.phase = "write" THEN AfterWrite(s) ELSE RevealQuestion(s)
        BY <3>2 DEF CloseTimedPhase, Waits
      <4> QED BY <2>2, <4>1, AfterWriteGood, RevealQuestionGood DEF Leaves
    <3> QED BY <3>1, <3>2
  <2> HIDE DEF t
  <2> QED BY <1>2, <2>1, <2>2, <2>3, OpenAnswersGood DEF Leaves, t
<1>5. CASE here.phase \notin SubmissionPhases \cup {"read"}
  <2>1. t = s
    BY <1>5 DEF Elapsed
  <2> QED BY <2>1
<1> QED BY <1>3, <1>4, <1>5

LEMMA TimerElapsedContinues ==
  ASSUME Core, NEW d, Backed(d), TimerElapsed
  PROVE  Continues(d)
<1> DEFINE s == StepFrom(live, None)
           t == Elapsed(s)
<1>1. None \in Maybe(Timers)
  BY DEF Maybe
<1>2. s = StepFrom(live, None)
  OBVIOUS
<1>3. \/ Execute(s)
      \/ live.status = "running" /\ Execute(t)
  BY DEF TimerElapsed
<1>4. ~s.saves
  BY DEF StepFrom
<1> HIDE DEF s
<1>5. Sound(d, s) /\ NothingYet(s.writes) /\ SameRow(s.live, d.row) /\ Good(s) /\ s.live = live
      /\ Still(d.row, s.live)
  BY <1>1, <1>2, FromSound
<1>6. CASE Execute(s)
  BY <1>5, <1>6, StillTurns DEF Continues, Steady
<1>7. CASE live.status = "running" /\ Execute(t)
  <2>1. Sound(d, t)
    BY <1>5, <1>7, ElapsedSound
  <2>2. t.live = s.live \/ t.saves
    BY <1>5, <1>7, ElapsedLeaves
  <2>3. Turns(d.row, t.live)
    BY <1>5, <1>7, ElapsedTurns
  <2> HIDE DEF t
  <2> QED BY <1>5, <1>7, <2>1, <2>2, <2>3 DEF Continues, Steady
<1> QED BY <1>3, <1>6, <1>7

----------------------------------------------------------------------------
(* A question that starts again from nothing. *)

\* g is what the first i entries of the log leave when those of x are taken out.
Sifts(g, log, x, i) ==
  /\ g \in Seq(Entries)
  /\ \A j \in DOMAIN g : \E k \in 1..i : g[j] = log[k] /\ log[k].at # x
  /\ \A k \in 1..i : log[k].at # x => \E j \in DOMAIN g : g[j] = log[k]
  /\ Once(log) => Once(g)

LEMMA SiftsNext ==
  ASSUME NEW log \in Seq(Entries), NEW x, NEW i \in 1..Len(log), NEW g, Sifts(g, log, x, i - 1),
         NEW h, h = IF log[i].at = x THEN g ELSE Append(g, log[i])
  PROVE  Sifts(h, log, x, i)
<1> DEFINE e == log[i]
           c == Append(g, e)
           n == Len(g) + 1
<1>1. /\ g \in Seq(Entries) /\ (Once(log) => Once(g))
      /\ \A j \in DOMAIN g : \E k \in 1..(i - 1) : g[j] = log[k] /\ log[k].at # x
      /\ \A k \in 1..(i - 1) : log[k].at # x => \E j \in DOMAIN g : g[j] = log[k]
  BY DEF Sifts
<1>2. Len(log) \in Nat /\ DOMAIN log = 1..Len(log) /\ e \in Entries
  OBVIOUS
<1>3. /\ \A k \in 1..(i - 1) : k \in 1..i /\ k # i /\ k \in DOMAIN log
      /\ \A k \in 1..i : k \in 1..(i - 1) \/ k = i
      /\ i \in 1..i /\ i \in DOMAIN log
  BY <1>2
<1>4. e = log[i] /\ (e.at = x => h = g) /\ (e.at # x => h = c)
  OBVIOUS
<1>5. /\ n \in DOMAIN c /\ c[n] = e
      /\ \A j \in DOMAIN g : j \in DOMAIN c /\ c[j] = g[j]
      /\ \A j \in DOMAIN c : j \in DOMAIN g \/ j = n
  <2> HIDE DEF e
  <2> QED BY <1>1, AppendAt
<1>6. c \in Seq(Entries)
  BY <1>1, <1>2
<1> HIDE DEF e, c, n
<1>7. CASE e.at = x
  <2>1. h = g
    BY <1>4, <1>7
  <2>2. \A j \in DOMAIN g : \E k \in 1..i : g[j] = log[k] /\ log[k].at # x
    BY <1>1, <1>3
  <2>3. \A k \in 1..i : log[k].at # x => \E j \in DOMAIN g : g[j] = log[k]
    BY <1>1, <1>3, <1>4, <1>7
  <2> QED BY <1>1, <2>1, <2>2, <2>3 DEF Sifts
<1>8. CASE e.at # x
  <2>1. h = c
    BY <1>4, <1>8
  <2>2. \A j \in DOMAIN c : \E k \in 1..i : c[j] = log[k] /\ log[k].at # x
    <3> TAKE j \in DOMAIN c
    <3>1. CASE j \in DOMAIN g
      BY <1>1, <1>3, <1>5, <3>1
    <3>2. CASE j = n
      BY <1>3, <1>4, <1>5, <1>8, <3>2
    <3> QED BY <1>5, <3>1, <3>2
  <2>3. \A k \in 1..i : log[k].at # x => \E j \in DOMAIN c : c[j] = log[k]
    <3> TAKE k \in 1..i
    <3>1. CASE k = i
      BY <1>4, <1>5, <3>1
    <3>2. CASE k \in 1..(i - 1)
      BY <1>1, <1>5, <3>2
    <3> QED BY <1>3, <3>1, <3>2
  <2>4. ASSUME Once(log) PROVE Once(c)
    <3>1. Once(g)
      BY <1>1, <2>4
    <3>2. ASSUME NEW j \in DOMAIN g, g[j].at = e.at PROVE FALSE
      <4>1. PICK k \in 1..(i - 1) : g[j] = log[k]
        BY <1>1, <3>2
      <4> QED BY <1>3, <1>4, <2>4, <3>2, <4>1 DEF Once
    <3>3. ASSUME NEW j \in DOMAIN c, NEW k \in DOMAIN c, c[j].at = c[k].at PROVE j = k
      BY <1>5, <3>1, <3>2, <3>3 DEF Once
    <3> QED BY <3>3 DEF Once
  <2>5. Sifts(c, log, x, i)
    BY <1>6, <2>2, <2>3, <2>4, Zenon DEF Sifts
  <2> QED BY <2>1, <2>5
<1> QED BY <1>7, <1>8

LEMMA WithoutSifts ==
  ASSUME NEW log \in Seq(Entries), NEW x
  PROVE  Sifts(Without(log, x), log, x, Len(log))
<1> DEFINE n == Len(log)
           f == KeptOf(log, x, n)
           C == {i \in 0..n : ~Sifts(f[i], log, x, i)}
<1>1. n \in Nat /\ KeptOver(f, log, x, n)
  BY KeptExists
<1>2. Without(log, x) = f[n]
  BY DEF Without, KeptOf, KeptOver
<1>3. \A i \in 1..n : i \in 1..Len(log)
  OBVIOUS
<1> HIDE DEF n, f
<1>4. ASSUME C # {} PROVE FALSE
  <2>1. PICK i \in C : \A k \in C : i <= k
    <3>1. C \in SUBSET Nat
      BY <1>1
    <3> HIDE DEF C
    <3> QED BY <1>4, <3>1, LeastNatural
  <2>2. f[i] = IF i = 0 THEN <<>> ELSE IF log[i].at = x THEN f[i - 1]
               ELSE Append(f[i - 1], log[i])
    BY <1>1 DEF KeptOver
  <2>3. ~Sifts(f[i], log, x, i) /\ i \in 0..n
    OBVIOUS
  <2> HIDE DEF C
  <2>4. i # 0
    <3>1. Sifts(<<>>, log, x, 0)
      BY DEF Sifts, Once
    <3> QED BY <2>2, <2>3, <3>1
  <2>5. i - 1 \in 0..n /\ ~(i <= i - 1) /\ i \in 1..n
    BY <1>1, <2>3, <2>4
  <2>6. Sifts(f[i - 1], log, x, i - 1)
    BY <2>1, <2>5 DEF C
  <2>7. f[i] = IF log[i].at = x THEN f[i - 1] ELSE Append(f[i - 1], log[i])
    BY <2>2, <2>4
  <2> QED BY <1>3, <2>3, <2>5, <2>6, <2>7, SiftsNext
<1>5. n \in 0..n
  BY <1>1
<1> QED BY <1>2, <1>4, <1>5 DEF n

Restarts(e, f, x) ==
  /\ f.row.log = Without(e.row.log, x) /\ f.row.phaseId = e.row.phaseId
  /\ f.joined = e.joined /\ f.removed = e.removed /\ f.score = e.score
  /\ \A y \in Questions \ {x}, q \in Players :
       f.answers[y][q] = e.answers[y][q] /\ f.votes[y][q] = e.votes[y][q]
  /\ \A q \in Players : f.answers[x][q] = None /\ f.votes[x][q] = None

LEMMA RestartedLog ==
  ASSUME NEW log \in Seq(Entries), NEW x, NEW g, g = Without(log, x)
  PROVE  /\ g \in Seq(Entries) /\ (Once(log) => Once(g)) /\ x \notin Asked(g)
         /\ \A j \in DOMAIN g : \E k \in DOMAIN log : g[j] = log[k] /\ log[k].at # x
         /\ \A k \in DOMAIN log : log[k].at # x => \E j \in DOMAIN g : g[j] = log[k]
<1>1. Sifts(g, log, x, Len(log)) /\ DOMAIN log = 1..Len(log)
  BY WithoutSifts
<1>2. \A j \in DOMAIN g : \E k \in DOMAIN log : g[j] = log[k] /\ log[k].at # x
  BY <1>1 DEF Sifts
<1>3. \A k \in DOMAIN log : log[k].at # x => \E j \in DOMAIN g : g[j] = log[k]
  BY <1>1 DEF Sifts
<1>4. g \in Seq(Entries) /\ (Once(log) => Once(g))
  BY <1>1 DEF Sifts
<1> QED BY <1>2, <1>3, <1>4 DEF Asked

LEMMA RestartedAccounts ==
  ASSUME NEW e \in Stores, NEW f \in Stores, NEW x \in Questions, Restarts(e, f, x),
         Accounts(e),
         \A i \in DOMAIN e.row.log : e.row.log[i].at = x => e.row.log[i].revealed = None,
         x \in Asked(e.row.log)
  PROVE  Accounts(f)
<1> DEFINE log == e.row.log
           g   == f.row.log
<1>1. /\ g = Without(log, x) /\ f.row.phaseId = e.row.phaseId
      /\ f.joined = e.joined /\ f.removed = e.removed /\ f.score = e.score
      /\ \A y \in Questions \ {x}, q \in Players :
           f.answers[y][q] = e.answers[y][q] /\ f.votes[y][q] = e.votes[y][q]
      /\ \A q \in Players : f.answers[x][q] = None /\ f.votes[x][q] = None
  BY DEF Restarts
<1>2. log \in Seq(Entries)
  BY DEF Stores, Rows, RowTypes
<1>3. /\ g \in Seq(Entries) /\ (Once(log) => Once(g)) /\ x \notin Asked(g)
      /\ \A j \in DOMAIN g : \E k \in DOMAIN log : g[j] = log[k] /\ log[k].at # x
      /\ \A k \in DOMAIN log : log[k].at # x => \E j \in DOMAIN g : g[j] = log[k]
  <2>1. g = Without(log, x)
    BY <1>1
  <2> HIDE DEF g, log
  <2> QED BY <1>2, <2>1, RestartedLog
<1>4. /\ Once(log) /\ \A i \in DOMAIN log : EntryOK(e.row, log[i])
      /\ StampsOK(e) /\ Ahead(e) /\ Unpaid(e) /\ AddsUp(e)
  BY DEF Accounts, LogOK
<1>5. \A i \in DOMAIN log : log[i].at \in Questions /\ (log[i].at = x => log[i].revealed = None)
  BY LogEntry
<1>6. x \in Asked(log)
  OBVIOUS
<1>7. log = e.row.log /\ g = f.row.log
  OBVIOUS
<1> HIDE DEF log, g
<1>8. LogOK(f.row)
  <2>1. Once(g)
    BY <1>3, <1>4
  <2>2. \A j \in DOMAIN g : EntryOK(f.row, g[j])
    BY <1>1, <1>3, <1>4 DEF EntryOK
  <2> QED BY <1>7, <2>1, <2>2 DEF LogOK
<1>9. StampsOK(f)
  BY <1>1, <1>4 DEF StampsOK
<1>10. Ahead(f)
  <2>1. \A y \in Questions \ {x} : y \in Asked(log) => y \in Asked(g)
    BY SMTT(60), <1>3 DEF Asked
  <2> QED BY SMTT(60), <1>1, <1>4, <1>7, <2>1 DEF Ahead
<1>11. Unpaid(f)
  <2> SUFFICES ASSUME NEW j \in DOMAIN g, g[j].revealed = None, NEW q \in Players,
                      f.answers[g[j].at][q] # None
               PROVE  f.answers[g[j].at][q].points = 0
    BY ZenonT(60), <1>7 DEF Unpaid
  <2>1. PICK k \in DOMAIN log : g[j] = log[k] /\ log[k].at # x
    BY <1>3
  <2>2. f.answers[g[j].at][q] = e.answers[g[j].at][q]
    BY <1>1, <1>5, <2>1
  <2> QED BY ZenonT(60), <1>4, <1>7, <2>1, <2>2 DEF Unpaid
<1>12. AddsUp(f)
  <2>1. ASSUME NEW y \in Questions, NEW q \in Players PROVE Seen(f, y, q) <=> Seen(e, y, q)
    <3>1. \A n : SeenAtReveal(f, n, q) <=> SeenAtReveal(e, n, q)
      BY <1>1, SeenLater
    <3>2. ASSUME Seen(f, y, q) PROVE Seen(e, y, q)
      <4>1. PICK j \in DOMAIN g : g[j].at = y /\ g[j].revealed # None /\ SeenAtReveal(f, g[j], q)
        BY <1>7, <3>2 DEF Seen
      <4>2. PICK k \in DOMAIN log : g[j] = log[k]
        BY <1>3
      <4> QED BY <1>7, <3>1, <4>1, <4>2 DEF Seen
    <3>3. ASSUME Seen(e, y, q) PROVE Seen(f, y, q)
      <4>1. PICK k \in DOMAIN log : log[k].at = y /\ log[k].revealed # None /\ SeenAtReveal(e, log[k], q)
        BY <1>7, <3>3 DEF Seen
      <4>2. PICK j \in DOMAIN g : g[j] = log[k]
        BY <1>3, <1>5, <4>1
      <4> QED BY <1>7, <3>1, <4>1, <4>2 DEF Seen
    <3> QED BY <3>2, <3>3
  <2>2. ASSUME NEW q \in Players PROVE Held(e, x, q) = 0 /\ Held(f, x, q) = 0
    <3>1. ~Seen(e, x, q)
      BY <1>5, <1>7 DEF Seen
    <3>2. e.answers[x][q] # None => e.answers[x][q].points = 0
      BY <1>4, <1>5, <1>6, <1>7 DEF Asked, Unpaid
    <3> QED BY <1>1, <2>1, <3>1, <3>2 DEF Held
  <2>3. ASSUME NEW y \in Questions, NEW q \in Players PROVE Held(f, y, q) = Held(e, y, q)
    <3>1. CASE y = x
      BY <2>2, <3>1
    <3>2. CASE y # x
      <4>1. f.answers[y][q] = e.answers[y][q] /\ f.votes[y][q] = e.votes[y][q]
        BY <1>1, <3>2
      <4> QED BY <2>1, <4>1 DEF Held
    <3> QED BY <3>1, <3>2
  <2> QED BY <1>1, <1>4, <2>3, ScoresStay
<1> QED BY <1>8, <1>9, <1>10, <1>11, <1>12 DEF Accounts

Wiping(w, x) == [w EXCEPT !.question = x, !.wipe = TRUE]

LEMMA WipingIs ==
  ASSUME NEW w \in Writes, NothingYet(w), NEW x \in Questions
  PROVE  LET v == Wiping(w, x)
         IN  /\ v \in Writes /\ Bare(v) /\ v.question = x /\ v.wipe /\ x # None
             /\ DOMAIN v.answers = {} /\ DOMAIN v.votes = {} /\ DOMAIN v.joined = {}
             /\ DOMAIN v.removed = {} /\ DOMAIN v.extraTime = {} /\ DOMAIN v.scores = {}
<1> DEFINE v == Wiping(w, x)
<1>1. v \in Writes
  BY DEF Wiping, Writes, Maybe
<1>2. /\ v.question = x /\ v.wipe /\ v.answers = w.answers /\ v.votes = w.votes
      /\ v.joined = w.joined /\ v.removed = w.removed
      /\ v.extraTime = w.extraTime /\ v.scores = w.scores
  BY DEF Wiping, Writes
<1>3. x # None
  BY RowsAssumption
<1> HIDE DEF v
<1>4. Bare(v)
  BY <1>2, <1>3 DEF Bare
<1>5. /\ DOMAIN w.answers = {} /\ DOMAIN w.votes = {} /\ DOMAIN w.joined = {}
      /\ DOMAIN w.removed = {} /\ DOMAIN w.extraTime = {} /\ DOMAIN w.scores = {}
  BY DEF NothingYet, Bare
<1> QED BY <1>1, <1>2, <1>3, <1>4, <1>5 DEF v

\* The step a replay begins with: the question's rows are to be wiped, its place in the
\* log is given up.
Emptied(s, x) == [s EXCEPT !.writes = Wiping(s.writes, x),
                           !.live = [s.live EXCEPT !.log = Without(s.live.log, x)]]

LEMMA EmptiedIs ==
  ASSUME NEW s \in Steps, NothingYet(s.writes), NEW x \in Questions
  PROVE  LET t == Emptied(s, x)
         IN  /\ t \in Steps /\ t.writes = Wiping(s.writes, x)
             /\ SameMoment(s.live, t.live) /\ t.live.log = Without(s.live.log, x)
             /\ t.live.play = s.live.play /\ t.live.hasScored = s.live.hasScored
             /\ t.live.joined = s.live.joined /\ t.live.removed = s.live.removed
             /\ t.live.extraTime = s.live.extraTime /\ t.live.score = s.live.score
<1> DEFINE log == Without(s.live.log, x)
           m   == [s.live EXCEPT !.log = log]
           w   == Wiping(s.writes, x)
           r   == [s EXCEPT !.live = m]
           t   == [r EXCEPT !.writes = w]
<1>1. s.live \in Lives /\ s.writes \in Writes
  BY CursorTyped DEF Steps
<1>2. log \in Seq(Entries)
  BY <1>1, WithoutTyped DEF Lives
<1>3. w \in Writes
  BY <1>1, WipingIs
<1>4. t = Emptied(s, x)
  BY <1>1 DEF Steps, Emptied
<1> HIDE DEF log, w
<1>5. m \in Lives /\ m.log = log /\ SameMoment(s.live, m)
  BY <1>1, <1>2 DEF Lives, SameMoment
<1>6. /\ m.joined = s.live.joined /\ m.removed = s.live.removed
      /\ m.extraTime = s.live.extraTime /\ m.score = s.live.score
      /\ m.hasScored = s.live.hasScored /\ m.play = s.live.play
  BY <1>1 DEF Lives
<1> HIDE DEF m
<1>7. r \in Steps /\ r.live = m
  BY <1>1, <1>5, WithLive
<1> HIDE DEF r
<1>8. t \in Steps /\ t.live = m /\ t.writes = w
  BY <1>3, <1>7, WithWrites DEF Steps
<1> HIDE DEF t
<1> QED BY <1>4, <1>5, <1>6, <1>8 DEF log, w

LEMMA EmptiedLands ==
  ASSUME NEW d, NEW s, Sound(d, s), NothingYet(s.writes), s.live.phase \in QuestionPhases,
         s.live.status = "paused", s.live.recovery, NEW x, x = Cursor(s.live),
         NEW t, t = Emptied(s, x)
  PROVE  /\ x \in Questions /\ Tells(d, t) /\ Lands(d, t) \in Stores
         /\ Lands(d, t).row = Row(t.live) /\ Lands(d, t).extraTime = Lands(d, s).extraTime
         /\ Restarts(Lands(d, s), Lands(d, t), x)
<1> DEFINE l == s.live
           m == t.live
           w == s.writes
           v == t.writes
           e == Lands(d, s)
           f == Lands(d, t)
<1>1. e \in Stores /\ e.row = Row(l) /\ e.row.log = l.log /\ e.row.phaseId = l.phaseId
  BY LevelFacts DEF Sound
<1>2. s \in Steps /\ Good(s) /\ l \in Lives /\ w \in Writes
  BY LevelHere, GoodTypes DEF Sound
<1>3. x \in Questions
  BY <1>2 DEF Good, LiveOK, Placed, AtQuestion
<1>4. d \in Stores /\ d.row.status \in Open
  BY DEF Sound, Level, Tells
<1>5. /\ t \in Steps /\ v = Wiping(w, x)
      /\ SameMoment(l, m) /\ m.log = Without(l.log, x)
      /\ m.play = l.play /\ m.hasScored = l.hasScored
      /\ m.joined = l.joined /\ m.removed = l.removed
      /\ m.extraTime = l.extraTime /\ m.score = l.score
  BY <1>2, <1>3, EmptiedIs
<1>6. Good(t)
  BY <1>2, <1>5, SameMomentOK DEF Good
<1>7. /\ v \in Writes /\ Bare(v) /\ v.question = x /\ v.wipe /\ x # None
      /\ DOMAIN v.answers = {} /\ DOMAIN v.votes = {} /\ DOMAIN v.joined = {}
      /\ DOMAIN v.removed = {} /\ DOMAIN v.extraTime = {} /\ DOMAIN v.scores = {}
  BY <1>2, <1>3, <1>5, WipingIs
<1>8. /\ e.joined = d.joined /\ e.removed = d.removed /\ e.extraTime = d.extraTime
      /\ e.score = d.score /\ SameCells(d, e)
  BY <1>2, <1>4, NothingLands
<1> HIDE DEF l, m, w, v, e, f
<1>9. Tells(d, t)
  <2>1. ~Conflicts(d, v)
    BY <1>7 DEF Conflicts
  <2> QED BY <1>4, <1>6, <1>7, <2>1 DEF Tells, v
<1>10. /\ f \in Stores /\ f.row = Row(m)
       /\ f.joined = Over(v.joined, d.joined) /\ f.removed = Over(v.removed, d.removed)
       /\ f.extraTime = Over(v.extraTime, d.extraTime) /\ f.score = Over(v.scores, d.score)
       /\ \A y \in Questions, q \in Players :
            /\ f.answers[y][q] = AnswerCell(d, v, y, q) /\ f.votes[y][q] = VoteCell(d, v, y, q)
  BY <1>9, LandsOf DEF f, m, v
<1>11. \A q \in Players : f.answers[x][q] = None /\ f.votes[x][q] = None
  <2> TAKE q \in Players
  <2>1. Given(d, v, x, q) = None
    BY <1>7 DEF Given
  <2>2. v.question \in {None, x}
    BY <1>7
  <2>3. /\ CellIs(AnswerCell(d, v, x, q), v, q, Given(d, v, x, q))
        /\ VoteCell(d, v, x, q) = IF q \in DOMAIN v.votes THEN v.votes[q]
                                  ELSE IF v.wipe THEN None ELSE d.votes[x][q]
    BY <1>3, <1>4, <1>7, <2>2, CellHere
  <2> QED BY <1>3, <1>7, <1>10, <2>1, <2>3 DEF CellIs
<1>12. \A y \in Questions \ {x}, q \in Players :
         f.answers[y][q] = e.answers[y][q] /\ f.votes[y][q] = e.votes[y][q]
  <2> TAKE y \in Questions \ {x}, q \in Players
  <2>1. v.question # y /\ q \notin DOMAIN v.removed
    BY <1>7
  <2>2. v \in Writes /\ Bare(v)
    BY <1>7
  <2>3. AnswerCell(d, v, y, q) = d.answers[y][q] /\ VoteCell(d, v, y, q) = d.votes[y][q]
    BY <1>4, <2>1, <2>2, CellElsewhere
  <2> QED BY <1>8, <1>10, <2>3 DEF SameCells
<1>13. /\ f.joined = e.joined /\ f.removed = e.removed
       /\ f.score = e.score /\ f.extraTime = e.extraTime
  <2>1. d.joined \in [Players -> Maybe(Nat)] /\ d.removed \in [Players -> Maybe(Nat)]
    BY <1>4 DEF Stores, Positions
  <2>2. d.score \in [Players -> Int] /\ d.extraTime \in [Players -> BOOLEAN]
    BY <1>4 DEF Stores
  <2>3. Over(v.joined, d.joined) = d.joined
    BY <1>7, <2>1, NothingOver
  <2>4. Over(v.removed, d.removed) = d.removed
    BY <1>7, <2>1, NothingOver
  <2>5. Over(v.scores, d.score) = d.score
    BY <1>7, <2>2, NothingOver
  <2>6. Over(v.extraTime, d.extraTime) = d.extraTime
    BY <1>7, <2>2, NothingOver
  <2> QED BY <1>8, <1>10, <2>3, <2>4, <2>5, <2>6
<1>14. f.row.log = Without(e.row.log, x) /\ f.row.phaseId = e.row.phaseId
  BY <1>1, <1>5, <1>10 DEF Row, SameMoment
<1> QED BY <1>3, <1>9, <1>10, <1>11, <1>12, <1>13, <1>14 DEF Restarts, e, f, m

LEMMA ReplayedIs ==
  ASSUME NEW s \in Steps, NothingYet(s.writes), NEW x \in Questions, x = Cursor(s.live),
         NEW t, t = Emptied(s, x)
  PROVE  Replayed(s).writes = t.writes /\ Opens(t.live, Replayed(s).live, x)
<1> DEFINE log == Without(s.live.log, x)
           m == [s.live EXCEPT !.log = log]
           n == [m EXCEPT !.status = "running"]
           w == Wiping(s.writes, x)
           r == [s EXCEPT !.live = n]
           a == [r EXCEPT !.writes = w]
           u == OpenQuestion(a, x)
<1>1. /\ t \in Steps /\ t.writes = w /\ s.live \in Lives /\ s.writes \in Writes
  BY EmptiedIs, CursorTyped DEF Steps
<1>2. log \in Seq(Entries) /\ w \in Writes
  BY <1>1, WithoutTyped, WipingIs DEF Lives
<1>3. t.live = m
  BY DEF Emptied, Steps
<1>4. Replayed(s) = OpenQuestion([s EXCEPT !.writes.question = x, !.writes.wipe = TRUE,
                                           !.live.log = log, !.live.status = "running"], x)
  BY DEF Replayed
<1> HIDE DEF log
<1>5. [s EXCEPT !.writes.question = x, !.writes.wipe = TRUE,
                !.live.log = log, !.live.status = "running"] = a
  BY <1>1 DEF Steps, Wiping
<1>6. m \in Lives
  BY <1>1, <1>2 DEF Lives
<1> HIDE DEF m, w
<1>7. n \in Lives
  BY <1>6 DEF Lives, Open
<1>8. /\ n.log = m.log /\ n.phaseId = m.phaseId /\ n.joined = m.joined /\ n.removed = m.removed
      /\ n.extraTime = m.extraTime /\ n.score = m.score /\ n.hasScored = m.hasScored
  BY <1>6 DEF Lives
<1> HIDE DEF n
<1>9. r \in Steps /\ r.live = n
  BY <1>7, WithLive
<1> HIDE DEF r
<1>10. a \in Steps /\ a.live = n /\ a.writes = w
  BY <1>2, <1>9, WithWrites DEF Steps
<1> HIDE DEF a
<1>11. u.writes = w /\ Opens(n, u.live, x)
  BY <1>10, OpenQuestionOpens
<1> HIDE DEF u
<1>12. NewPlay(n, x) = NewPlay(m, x)
  BY <1>8 DEF NewPlay, Active
<1>13. NewEntry(n, x) = NewEntry(m, x)
  BY <1>8 DEF NewEntry
<1>14. Opens(m, u.live, x)
  BY <1>8, <1>11, <1>12, <1>13 DEF Opens
<1> QED BY <1>1, <1>3, <1>4, <1>5, <1>11, <1>14 DEF u

LEMMA ReplayedSound ==
  ASSUME NEW d, NEW s, Sound(d, s), NothingYet(s.writes), s.live.phase \in QuestionPhases,
         s.live.status = "paused", s.live.recovery
  PROVE  Sound(d, Replayed(s)) /\ (Still(d.row, s.live) => Still(d.row, Replayed(s).live))
<1> DEFINE l == s.live
           x == Cursor(l)
           t == Emptied(s, x)
           m == t.live
           u == Replayed(s)
           e == Lands(d, s)
           f == Lands(d, t)
<1>1. /\ e \in Stores /\ Accounts(e) /\ Mirrors(l, e) /\ e.row.log = l.log
  BY LevelFacts DEF Sound
<1>2. LogPlaced(l) /\ s \in Steps /\ Good(s) /\ l \in Lives
  BY LevelHere DEF Sound
<1> HIDE DEF x
<1>13. x = Cursor(s.live)
  BY DEF x
<1>3. /\ x \in Questions /\ Tells(d, t) /\ f \in Stores /\ f.row = Row(m)
      /\ f.extraTime = e.extraTime /\ Restarts(e, f, x)
  BY <1>13, EmptiedLands
<1>4. /\ t \in Steps /\ SameMoment(l, m) /\ m.log = Without(l.log, x)
      /\ m.play = l.play /\ m.hasScored = l.hasScored
      /\ m.joined = l.joined /\ m.removed = l.removed
      /\ m.extraTime = l.extraTime /\ m.score = l.score
  BY <1>2, <1>3, EmptiedIs
<1>5. u.writes = t.writes /\ Opens(m, u.live, x)
  BY <1>2, <1>3, <1>13, ReplayedIs
<1>6. Good(u)
  BY <1>2, ReplayedGood
<1>7. /\ \A i \in DOMAIN l.log : l.log[i].at = x => l.log[i].revealed = None
      /\ \A i \in DOMAIN l.log : UpTo(l.log[i].at, x)
      /\ x \in Asked(l.log)
  BY <1>2, <1>13 DEF LogPlaced, EntryPlaced, AtPhases, RevealPhases, QuestionPhases
<1>8. l.log \in Seq(Entries)
  BY <1>2 DEF Lives
<1> HIDE DEF t, u, e, f, l, m
<1>9. Accounts(f)
  BY <1>1, <1>3, <1>7, RestartedAccounts
<1>10. /\ x \notin Asked(m.log)
       /\ \A j \in DOMAIN m.log : \E k \in DOMAIN l.log : m.log[j] = l.log[k] /\ l.log[k].at # x
       /\ \A k \in DOMAIN l.log : l.log[k].at # x => \E j \in DOMAIN m.log : m.log[j] = l.log[k]
  <2> DEFINE log == l.log
             g   == m.log
  <2>1. g = Without(log, x) /\ log \in Seq(Entries)
    BY <1>4, <1>8
  <2> HIDE DEF g, log
  <2>2. /\ x \notin Asked(g)
        /\ \A j \in DOMAIN g : \E k \in DOMAIN log : g[j] = log[k] /\ log[k].at # x
        /\ \A k \in DOMAIN log : log[k].at # x => \E j \in DOMAIN g : g[j] = log[k]
    BY <2>1, RestartedLog
  <2> QED BY <2>2 DEF g, log
<1>11. Mirrors(m, f)
  <2>1. SameRow(m, f.row) /\ f.row.log = m.log
    BY <1>3 DEF SameRow, Row
  <2>2. m.joined = f.joined /\ m.removed = f.removed /\ m.score = f.score
    BY <1>1, <1>3, <1>4 DEF Restarts, Mirrors
  <2>3. m.extraTime = f.extraTime
    BY <1>1, <1>3, <1>4 DEF Mirrors
  <2>4. m.hasScored <=> \E i \in DOMAIN m.log : m.log[i].revealed # None
    <3>1. l.hasScored <=> \E i \in DOMAIN l.log : l.log[i].revealed # None
      BY <1>1 DEF Mirrors
    <3>2. (\E i \in DOMAIN l.log : l.log[i].revealed # None)
            <=> (\E j \in DOMAIN m.log : m.log[j].revealed # None)
      BY <1>7, <1>10
    <3> QED BY <1>4, <3>1, <3>2
  <2> QED BY <2>1, <2>2, <2>3, <2>4 DEF Mirrors
<1>12. \A i \in DOMAIN m.log : UpTo(m.log[i].at, x)
  BY <1>7, <1>10
<1>14. Sound(d, u)
  BY <1>3, <1>5, <1>6, <1>9, <1>10, <1>11, <1>12, OpenedSound DEF m, f
<1>15. d.row.log \in Seq(Entries)
  BY DEF Sound, Level, Tells, Stores, Rows, RowTypes
<1>16. Still(d.row, l) => Still(d.row, u.live)
  BY <1>2, <1>3, <1>4, <1>5, <1>8, <1>13, <1>15, ReopenedStill DEF l
<1> QED BY <1>14, <1>16 DEF u, l

LEMMA HostResumeContinues ==
  ASSUME Core, NEW d, Backed(d), HostResume
  PROVE  Continues(d)
<1>1. /\ Sound(d, Begun) /\ NothingYet(Begun.writes) /\ Finds(live, Begun.live)
      /\ Begun.live.phase = live.phase /\ Begun.live.status = live.status
      /\ Still(d.row, Begun.live)
  BY BegunSound DEF HostResume, Ready
<1>2. Begun.live.status = "paused" /\ Begun.live.recovery = live.recovery
  BY <1>1 DEF HostResume, Finds, SameMoment
<1>3. CASE live.recovery /\ live.phase \in QuestionPhases
  <2>1. Sound(d, Replayed(Begun)) /\ Turns(d.row, Replayed(Begun).live)
    BY <1>1, <1>2, <1>3, ReplayedSound, StillTurns
  <2>2. Execute(Saved(Replayed(Begun)))
    BY <1>3 DEF HostResume, HostDoes
  <2> QED BY <2>1, <2>2, HostContinues
<1>4. CASE ~(live.recovery /\ live.phase \in QuestionPhases)
  <2>1. Sound(d, Resumed(Begun)) /\ StaysAt(Begun.live, Resumed(Begun).live)
    BY SMTT(60), <1>1, <1>2, <1>4, ResumedSound
  <2>2. Execute(Saved(Resumed(Begun)))
    BY SMTT(60), <1>4 DEF HostResume, HostDoes
  <2>3. Turns(d.row, Resumed(Begun).live)
    BY <1>1, <2>1, StaysStill, StillTurns
  <2> QED BY <2>1, <2>2, <2>3, HostContinues
<1> QED BY <1>3, <1>4

----------------------------------------------------------------------------
(* What a load rebuilds. *)

OptionsFrom(d, x) == Shown(d, x) \cup (IF KindOf(x) = "lie" THEN {Truth} ELSE {})
Favourites(d, e, x) ==
  {p \in Shown(d, x) : /\ KindOf(x) = "caption" /\ ~d.answers[x][p].hidden
                       /\ d.answers[x][p].points - Cardinality(Drawn(d, e, p)) = 1}

\* The parts of a play r rebuilt from the rows d and the log entry e.
Parts(r, d, e, x) ==
  /\ r.at = x /\ r.scored = TRUE /\ r.votes = d.votes[x]
  /\ r.eligible = {p \in Players : Eligible(d, e, p)}
  /\ r.counted = {p \in r.eligible : SeenAtReveal(d, e, p)}
  /\ r.options = IF OptionsFrom(d, x) = {} THEN None ELSE OptionsFrom(d, x)
  /\ r.favourite = IF Favourites(d, e, x) = {} THEN None
                   ELSE CHOOSE p \in Favourites(d, e, x) : TRUE
  /\ \A p \in Players :
       /\ r.answers[p] = None <=> d.answers[x][p] = None
       /\ r.answers[p] # None => /\ r.answers[p].payload = d.answers[x][p].payload
                                 /\ r.answers[p].points = d.answers[x][p].points
                                 /\ r.answers[p].hidden = d.answers[x][p].hidden

LEMMA StoredPlayIs ==
  ASSUME NEW d \in Stores, NEW x \in Questions, x = Cursor(d.row), Once(d.row.log),
         NEW i \in DOMAIN d.row.log, NEW e, e = d.row.log[i], e.at = x
  PROVE  Parts(StoredPlay(d), d, e, x)
<1> DEFINE drawn(p) == Cardinality({v \in Players : d.votes[x][v] = p /\ SeenAtReveal(d, e, v)})
           favoured == {p \in Shown(d, x) : /\ KindOf(x) = "caption" /\ ~d.answers[x][p].hidden
                                            /\ d.answers[x][p].points - drawn(p) = 1}
           eligible == {p \in Players : Eligible(d, e, p)}
           copy(p)  == [payload |-> d.answers[x][p].payload, points  |-> d.answers[x][p].points,
                        hidden  |-> d.answers[x][p].hidden]
<1>1. EntryOf(d.row.log, x) = i
  BY EntryOfIs
<1>2. x = <<d.row.round, d.row.question>> /\ d.row.log[EntryOf(d.row.log, x)] = e
  BY <1>1 DEF Cursor
<1>3. favoured = Favourites(d, e, x)
  BY DEF Favourites, Drawn
<1>4. StoredPlay(d) =
        [at        |-> x,
         eligible  |-> eligible,
         extra     |-> {p \in eligible : d.extraTime[p]},
         answers   |-> [p \in Players |-> IF d.answers[x][p] = None THEN None ELSE copy(p)],
         votes     |-> d.votes[x],
         options   |-> IF OptionsFrom(d, x) = {} THEN None ELSE OptionsFrom(d, x),
         favourite |-> IF favoured = {} THEN None ELSE CHOOSE p \in favoured : TRUE,
         scored    |-> TRUE,
         counted   |-> {p \in eligible : SeenAtReveal(d, e, p)}]
  BY <1>2 DEF StoredPlay, OptionsFrom, Shown, Eligible
<1>5. \A p \in Players : d.answers[x][p] # None => copy(p) # None
  <2> SUFFICES ASSUME NEW p \in Players, d.answers[x][p] # None
               PROVE  copy(p) # None
    OBVIOUS
  <2>1. d.answers[x][p] \in AnswerRows
    BY DEF Stores, Maybe
  <2>2. copy(p) \in Answers
    BY <2>1 DEF AnswerRows, Answers
  <2> QED BY <2>2, NoneAssumption
<1> HIDE DEF favoured, eligible
<1> QED BY <1>3, <1>4, <1>5 DEF eligible, Parts

\* A play that fits the rows is the one a load rebuilds from them, the extra time and the
\* hidden quiz answers aside, which nothing reads any more.
Rebuilt(play, r) ==
  /\ r.at = play.at /\ r.eligible = play.eligible /\ r.counted = play.counted
  /\ r.favourite = play.favourite
  /\ r.options = IF play.options = {} THEN None ELSE play.options

LEMMA RebuiltPlay ==
  ASSUME NEW d \in Stores, Once(d.row.log), NEW play \in Plays, play.at = Cursor(d.row),
         play.scored, PlayOf(play, d)
  PROVE  Rebuilt(play, StoredPlay(d)) /\ PlayOf(StoredPlay(d), d)
<1> DEFINE r == StoredPlay(d)
           x == play.at
<1>1. PICK i \in DOMAIN d.row.log : EntryFits(play, d, d.row.log[i])
  BY DEF PlayOf
<1> DEFINE e == d.row.log[i]
<1>2. EntryFits(play, d, e) /\ e.at = x /\ x \in Questions
  BY <1>1 DEF EntryFits, Plays
<1>3. \A p \in Players : Stored(play, d, p) /\ Fair(play, d, p)
  BY DEF PlayOf
<1>4. OptionsFit(play, d)
  BY DEF PlayOf
<1>5. \A p \in Players : d.answers[x][p] # None => d.answers[x][p].points \in Int
                                                   /\ d.answers[x][p].hidden \in BOOLEAN
  BY <1>2 DEF Stores, Maybe, AnswerRows
<1>6. Parts(r, d, e, x)
  <2> HIDE DEF e, x
  <2>1. x \in Questions /\ e.at = x /\ x = Cursor(d.row) /\ e = d.row.log[i]
    BY <1>2 DEF x, e
  <2> QED BY <2>1, StoredPlayIs DEF r
<1>7. \A p \in Players : Cardinality(Drawn(d, e, p)) \in Nat
  <2> TAKE p \in Players
  <2>1. IsFiniteSet(Drawn(d, e, p))
    BY PlayersAssumption, FS_Subset DEF Drawn
  <2> QED BY <2>1, FS_CardinalityType
<1>8. play.options \in Maybe(SUBSET PlayerVotes) /\ play.favourite \in Maybe(Players)
  BY DEF Plays
<1> HIDE DEF r, x, e
<1>9. r.eligible = play.eligible /\ r.counted = play.counted
  BY <1>2, <1>6 DEF Parts, EntryFits, Eligible
<1>10. r.options = IF play.options = {} THEN None ELSE play.options
  <2>1. CASE play.options = None
    <3>1. Shown(d, x) = {} /\ KindOf(x) # "lie"
      BY <1>4, <2>1 DEF OptionsFit, Offered, x
    <3>2. OptionsFrom(d, x) = {}
      BY <3>1 DEF OptionsFrom
    <3> QED BY <1>6, <2>1, <3>2 DEF Parts
  <2>2. CASE play.options # None
    <3>1. Shown(d, x) = play.options \ {Truth}
      BY <1>4, <2>2 DEF OptionsFit, Offered, x
    <3>2. Truth \in play.options <=> KindOf(x) = "lie"
      BY <1>4, <2>2 DEF OptionsFit, x
    <3>3. OptionsFrom(d, x) = play.options
      BY <1>8, <2>2, <3>1, <3>2 DEF OptionsFrom, Maybe
    <3> QED BY <1>6, <3>3 DEF Parts
  <2> QED BY <2>1, <2>2
<1>11. \A p \in Players : p \in Favourites(d, e, x) <=> play.favourite = p
  <2> TAKE p \in Players
  <2>1. ASSUME p \in Favourites(d, e, x) PROVE play.favourite = p
    <3>1. /\ KindOf(x) = "caption" /\ d.answers[x][p] # None /\ ~d.answers[x][p].hidden
          /\ d.answers[x][p].points - Cardinality(Drawn(d, e, p)) = 1
      BY <2>1 DEF Favourites, Shown
    <3>2. play.answers[p] # None /\ play.answers[p].points = d.answers[x][p].points
          /\ ~play.answers[p].hidden
      BY <1>3, <3>1 DEF Stored, SameAnswer, IsParty, x
    <3>3. play.answers[p].points = Cardinality(Drawn(d, e, p))
                                   + (IF play.favourite = p THEN 1 ELSE 0)
      BY <1>2, <3>1, <3>2 DEF EntryFits
    <3> QED BY <1>5, <1>7, <3>1, <3>2, <3>3
  <2>2. ASSUME play.favourite = p PROVE p \in Favourites(d, e, x)
    <3>1. p # None /\ p # Truth
      BY NoneAssumption, PlayersAssumption
    <3>2. /\ KindOf(x) = "caption" /\ play.options # None /\ p \in play.options
          /\ play.answers[p] # None /\ ~play.answers[p].hidden
      BY <1>4, <2>2, <3>1 DEF OptionsFit, x
    <3>3. p \in Shown(d, x)
      BY <1>4, <3>1, <3>2 DEF OptionsFit, Offered, x
    <3>4. play.answers[p].points = d.answers[x][p].points /\ d.answers[x][p] # None
          /\ ~d.answers[x][p].hidden
      BY <1>3, <3>2 DEF Stored, SameAnswer, IsParty, x
    <3>5. play.answers[p].points = Cardinality(Drawn(d, e, p)) + 1
      BY <1>2, <2>2, <3>2 DEF EntryFits
    <3>6. d.answers[x][p].points - Cardinality(Drawn(d, e, p)) = 1
      BY <1>5, <1>7, <3>4, <3>5
    <3> QED BY <3>2, <3>3, <3>4, <3>6 DEF Favourites
  <2> QED BY <2>1, <2>2
<1>12. r.favourite = play.favourite
  <2>1. Favourites(d, e, x) \subseteq Players
    BY DEF Favourites, Shown
  <2>2. CASE play.favourite = None
    <3>1. Favourites(d, e, x) = {}
      BY <1>11, <2>1, <2>2, NoneAssumption
    <3> QED BY <1>6, <2>2, <3>1 DEF Parts
  <2>3. CASE play.favourite # None
    <3>1. play.favourite \in Players
      BY <1>8, <2>3 DEF Maybe
    <3>2. Favourites(d, e, x) = {play.favourite}
      BY <1>11, <2>1, <3>1
    <3> QED BY <1>6, <3>2 DEF Parts
  <2> QED BY <2>2, <2>3
<1>13. Rebuilt(play, r)
  BY <1>6, <1>9, <1>10, <1>12 DEF Parts, Rebuilt, x
<1>14. EntryFits(r, d, e)
  <2>1. /\ e.at = r.at
        /\ r.eligible = {p \in Players : /\ d.joined[p] # None /\ d.joined[p] < e.opened
                                         /\ d.removed[p] = None \/ d.removed[p] >= e.opened}
    BY <1>2, <1>6 DEF Parts, Eligible
  <2>2. e.revealed # None
    BY <1>2 DEF EntryFits
  <2>3. ASSUME KindOf(e.at) = "caption", NEW p \in Players,
               r.answers[p] # None, ~r.answers[p].hidden
        PROVE  r.answers[p].points = Cardinality(Drawn(d, e, p))
                                     + (IF r.favourite = p THEN 1 ELSE 0)
    <3>1. d.answers[x][p] # None /\ ~d.answers[x][p].hidden
          /\ r.answers[p].points = d.answers[x][p].points
      BY <1>6, <2>3 DEF Parts
    <3>2. play.answers[p] # None /\ play.answers[p].points = d.answers[x][p].points
          /\ ~play.answers[p].hidden
      BY <1>2, <1>3, <2>3, <3>1 DEF Stored, SameAnswer, IsParty, x
    <3> QED BY <1>2, <1>12, <2>3, <3>1, <3>2 DEF EntryFits
  <2> QED BY <1>6, <2>1, <2>2, <2>3 DEF Parts, EntryFits
<1>15. \A p \in Players : Stored(r, d, p) /\ Fair(r, d, p)
  <2> TAKE p \in Players
  <2>1. Stored(r, d, p)
    BY <1>6 DEF Parts, Stored, SameAnswer
  <2>2. Fair(r, d, p)
    <3>1. Stored(play, d, p) /\ Fair(play, d, p)
      BY <1>3
    <3>2. /\ r.answers[p] = None <=> play.answers[p] = None
          /\ r.answers[p] # None => /\ r.answers[p].points = play.answers[p].points
                                    /\ IsParty(x) => r.answers[p].hidden = play.answers[p].hidden
          /\ r.votes[p] = play.votes[p]
      BY <1>6, <3>1 DEF Parts, Stored, SameAnswer, x
    <3> QED BY <1>6, <1>9, <3>1, <3>2 DEF Parts, Fair, x
  <2> QED BY <2>1, <2>2
<1>16. OptionsFit(r, d)
  <2>1. Offered(r) = Shown(d, r.at)
    <3>1. OptionsFrom(d, x) \ {Truth} = Shown(d, x)
      BY PlayersAssumption DEF OptionsFrom, Shown
    <3>2. OptionsFrom(d, x) \in SUBSET (Players \cup {Truth})
      BY DEF OptionsFrom, Shown
    <3>3. OptionsFrom(d, x) # None
      BY <3>2, NoneAssumption
    <3> QED BY <1>6, <3>1, <3>3 DEF Parts, Offered
  <2>2. r.options # None => IsParty(r.at) /\ (Truth \in r.options <=> KindOf(r.at) = "lie")
    BY <1>4, <1>6, <1>10 DEF Parts, OptionsFit, x
  <2>3. KindOf(r.at) = "lie" => r.options # None
    <3>1. KindOf(x) = "lie" => play.options # None /\ Truth \in play.options
      BY <1>4 DEF OptionsFit, x
    <3> QED BY <1>6, <1>10, <3>1 DEF Parts
  <2>4. r.favourite # None =>
          /\ KindOf(r.at) = "caption"
          /\ r.options # None /\ r.favourite \in r.options
          /\ r.answers[r.favourite] # None /\ ~r.answers[r.favourite].hidden
    <3> SUFFICES ASSUME r.favourite # None
                 PROVE  /\ KindOf(r.at) = "caption"
                        /\ r.options # None /\ r.favourite \in r.options
                        /\ r.answers[r.favourite] # None /\ ~r.answers[r.favourite].hidden
      OBVIOUS
    <3>1. /\ KindOf(x) = "caption" /\ play.options # None /\ r.favourite \in play.options
      BY <1>4, <1>12 DEF OptionsFit, x
    <3>2. r.favourite \in Players /\ r.favourite \in Favourites(d, e, x)
      BY <1>8, <1>11, <1>12 DEF Maybe
    <3>3. d.answers[x][r.favourite] # None /\ ~d.answers[x][r.favourite].hidden
      BY <3>2 DEF Favourites, Shown
    <3> QED BY <1>6, <1>10, <3>1, <3>2, <3>3 DEF Parts
  <2> QED BY <1>6, <2>1, <2>2, <2>3, <2>4 DEF Parts, OptionsFit
<1>17. PlayOf(r, d)
  BY <1>14, <1>15, <1>16 DEF PlayOf, e
<1> QED BY <1>13, <1>17 DEF r

LEMMA TwinRebuilds ==
  ASSUME NEW e \in Stores, Base(e), NEW l \in Lives, Twin(l, e)
  PROVE  /\ Rebuilds(e)
         /\ l.phase \in RevealPhases => l.play \in Plays /\ Rebuilt(l.play, StoredPlay(e))
<1>1. l.phase = e.row.phase /\ Cursor(l) = Cursor(e.row)
  BY DEF Twin, Fits, Mirrors, SameRow, Cursor
<1>2. SUFFICES ASSUME l.phase \in RevealPhases
               PROVE  /\ PlayOf(StoredPlay(e), e) /\ l.play \in Plays
                      /\ Rebuilt(l.play, StoredPlay(e))
  BY <1>1 DEF Rebuilds
<1> DEFINE play == l.play
<1>3. play \in Plays /\ play # None
  BY <1>2, RowsAssumption DEF Twin, PhaseFits, Here
<1>4. play.at = Cursor(e.row)
  BY <1>1, <1>2, <1>3 DEF Twin, PhaseFits, Here, AtPhases
<1>5. PlayOf(play, e)
  BY <1>3 DEF Twin, Fits
<1>6. Once(e.row.log) /\ LogPlaced(e.row)
  BY DEF Base, Accounts, LogOK
<1> HIDE DEF play
<1>7. play.scored
  <2>1. PICK i \in DOMAIN e.row.log : EntryFits(play, e, e.row.log[i])
    BY <1>5 DEF PlayOf
  <2>2. e.row.log[i].at = Cursor(e.row) /\ (play.scored <=> e.row.log[i].revealed # None)
    BY <1>4, <2>1 DEF EntryFits
  <2>3. e.row.log[i].revealed # None
    BY <1>1, <1>2, <1>6, <2>2 DEF LogPlaced, EntryPlaced, AtPhases
  <2> QED BY <2>2, <2>3
<1>8. Rebuilt(play, StoredPlay(e)) /\ PlayOf(StoredPlay(e), e)
  BY <1>3, <1>4, <1>5, <1>6, <1>7, RebuiltPlay
<1> QED BY <1>3, <1>8 DEF play

\* Rows that say the same of the memory fit it as well.
SameRows(e, g) ==
  /\ g.joined = e.joined /\ g.removed = e.removed /\ g.extraTime = e.extraTime
  /\ g.score = e.score /\ SameCells(e, g)

LEMMA SameRowsTwin ==
  ASSUME NEW e \in Stores, Base(e), NEW l \in Lives, Twin(l, e),
         NEW g \in Stores, SameRows(e, g), SameRow(l, g.row)
  PROVE  Base(g) /\ Twin(l, g)
<1>1. /\ g.row.log = e.row.log /\ g.row.phaseId = e.row.phaseId /\ e.row.log = l.log
      /\ SameRow(l, e.row)
  BY DEF Twin, Fits, Mirrors, SameRow
<1>2. Alike(e, g) /\ g.row.phaseId >= e.row.phaseId
  BY <1>1 DEF Alike, SameEntries, SameRows, Stores, Rows, RowTypes
<1>3. Accounts(g)
  BY <1>2, AlikeAccounts DEF Base
<1>4. LogPlaced(g.row)
  BY <1>1, SameRowPlaced DEF Base
<1>5. Mirrors(l, g)
  BY <1>1 DEF Twin, Fits, Mirrors, SameRows
<1>6. l.play # None => PlayOf(l.play, g)
  BY <1>2, PlayAt, AlikePlay DEF Twin, Fits
<1> QED BY <1>3, <1>4, <1>5, <1>6 DEF Base, Twin, Fits

LEMMA LoadSound ==
  ASSUME NEW d \in Stores, d.row.status \in Open, Base(d), Rebuilds(d),
         NEW l, l = LiveFrom(d), NEW s, s = StepFrom(l, None)
  PROVE  /\ Sound(d, s) /\ s.writes = NoWrites /\ ~s.saves /\ s.live = l
         /\ StaysAt(d.row, l)
         /\ ~(d.row.status = "running" /\ Interrupted(d.row)) => SameRow(l, d.row)
<1>1. l \in Lives /\ LiveOK(l)
  BY LiveFromGood
<1>2. Good(s) /\ s.live = l /\ s.writes = NoWrites /\ ~s.saves
  BY <1>1, NoWritesTyped DEF StepFrom, Steps, Good, Maybe
<1>3. /\ l.log = d.row.log /\ l.phase = d.row.phase /\ l.round = d.row.round
      /\ l.question = d.row.question /\ l.phaseId = d.row.phaseId
      /\ l.joined = d.joined /\ l.removed = d.removed
      /\ l.extraTime = d.extraTime /\ l.score = d.score
      /\ l.status = IF Interrupted(d.row) THEN "paused" ELSE d.row.status
      /\ l.play = IF d.row.phase \in RevealPhases THEN StoredPlay(d) ELSE None
      /\ l.hasScored = \E i \in DOMAIN d.row.log : /\ d.row.log[i].revealed # None
                                                   /\ ~d.row.log[i].skipped
  BY DEF LiveFrom, RevealPhases
<1>4. l.hasScored <=> \E i \in DOMAIN d.row.log : d.row.log[i].revealed # None
  <2>1. \A i \in DOMAIN d.row.log : d.row.log[i].revealed # None => ~d.row.log[i].skipped
    BY DEF Base, Accounts, LogOK, EntryOK
  <2> QED BY <1>3, <2>1
<1>5. l.play # None => PlayOf(l.play, d)
  BY <1>3 DEF Rebuilds
<1>6. PhaseFits(l)
  <2>1. CASE d.row.phase \in RevealPhases
    <3>1. l.play \in Plays
      BY <1>3, <2>1, StoredPlayTyped DEF RevealPhases
    <3>2. l.play.at = Cursor(l)
      <4>1. StoredPlay(d).at = <<d.row.round, d.row.question>>
        BY DEF StoredPlay
      <4> QED BY <1>3, <2>1, <4>1 DEF Cursor
    <3>3. l.phase \notin QuestionPhases
      BY <1>3, <2>1 DEF RevealPhases, QuestionPhases
    <3> QED BY <3>1, <3>2, <3>3 DEF PhaseFits, Here, Suits, QuestionPhases
  <2>2. CASE d.row.phase \notin RevealPhases
    BY <1>3, <2>2 DEF PhaseFits, Here, Suits
  <2> QED BY <2>1, <2>2
<1>7. Sound(d, s)
  <2>1. NothingYet(s.writes)
    BY <1>2, NoWritesYet
  <2> QED BY <1>2, <1>3, <1>4, <1>5, <1>6, <2>1, StartSound
<1>8. ~(d.row.status = "running" /\ Interrupted(d.row)) => SameRow(l, d.row)
  BY <1>3 DEF SameRow, Interrupted
<1>9. StaysAt(d.row, l)
  BY <1>3 DEF StaysAt
<1> QED BY <1>2, <1>7, <1>8, <1>9

----------------------------------------------------------------------------
(* What a command leaves in the chain. *)

\* Batches that differ in the session row alone.
SameBut(b, c) ==
  /\ c.question = b.question /\ c.wipe = b.wipe /\ c.answers = b.answers /\ c.votes = b.votes
  /\ c.shown = b.shown /\ c.hidden = b.hidden /\ c.points = b.points /\ c.scores = b.scores
  /\ c.joined = b.joined /\ c.removed = b.removed /\ c.extraTime = b.extraTime

LEMMA RowAside ==
  ASSUME NEW w \in Writes, NEW row
  PROVE  SameBut(w, [w EXCEPT !.row = row]) /\ [w EXCEPT !.row = row].row = row
BY DEF SameBut, Writes

LEMMA SameButApplied ==
  ASSUME NEW d, NEW b, NEW c, SameBut(b, c), ~Conflicts(d, b),
         NEW e, e = Applied(d, b), NEW g, g = Applied(d, c)
  PROVE  SameRows(e, g) /\ g.row = RowAfter(d, c)
<1>1. ~Conflicts(d, c)
  BY DEF Conflicts, SameBut
<1>2. \A p : AnswerRow(d, c, p) = AnswerRow(d, b, p)
  BY DEF AnswerRow, SameBut
<1>3. \A p : VoteRow(d, c, p) = VoteRow(d, b, p)
  BY DEF VoteRow, SameBut
<1>4. /\ g.row = RowAfter(d, c)
      /\ g.joined = Over(b.joined, d.joined) /\ g.removed = Over(b.removed, d.removed)
      /\ g.extraTime = Over(b.extraTime, d.extraTime) /\ g.score = Over(b.scores, d.score)
      /\ g.answers = [x \in Questions |->
                       HiddenWith(IF x = b.question THEN [p \in Players |-> AnswerRow(d, c, p)]
                                  ELSE d.answers[x], DOMAIN b.removed)]
      /\ g.votes = [x \in Questions |->
                     IF x = b.question THEN [p \in Players |-> VoteRow(d, c, p)]
                     ELSE d.votes[x]]
  BY <1>1 DEF Applied, SameBut
<1>5. /\ e.joined = Over(b.joined, d.joined) /\ e.removed = Over(b.removed, d.removed)
      /\ e.extraTime = Over(b.extraTime, d.extraTime) /\ e.score = Over(b.scores, d.score)
      /\ e.answers = [x \in Questions |->
                       HiddenWith(IF x = b.question THEN [p \in Players |-> AnswerRow(d, b, p)]
                                  ELSE d.answers[x], DOMAIN b.removed)]
      /\ e.votes = [x \in Questions |->
                     IF x = b.question THEN [p \in Players |-> VoteRow(d, b, p)]
                     ELSE d.votes[x]]
  BY DEF Applied
<1>6. [p \in Players |-> AnswerRow(d, c, p)] = [p \in Players |-> AnswerRow(d, b, p)]
  BY <1>2
<1>7. [p \in Players |-> VoteRow(d, c, p)] = [p \in Players |-> VoteRow(d, b, p)]
  BY <1>3
<1>8. g.answers = e.answers /\ g.votes = e.votes
  BY <1>4, <1>5, <1>6, <1>7
<1> QED BY <1>4, <1>5, <1>8 DEF SameRows, SameCells

\* What the rows of a session that is not over become: they stay, or they take one turn.
Follows(r, q) == q = r \/ (r.status \in Open /\ Turns(r, q))

LEMMA BatchLands ==
  ASSUME NEW d \in Stores, NEW s, Steady(d, s), NEW b, b = Batch(s),
         NEW g, g = IF b = NoWrites THEN d ELSE Applied(d, b)
  PROVE  /\ g \in Stores /\ Base(g) /\ Twin(s.live, g) /\ s.live \in Lives /\ b \in Writes
         /\ InOrder(g.row) /\ Follows(d.row, g.row)
<1> DEFINE e == Lands(d, s)
           w == s.writes
           l == s.live
<1>1. /\ Good(s) /\ w \in Writes /\ l \in Lives /\ ~Conflicts(d, w) /\ d.row.status \in Open
  BY LandsOf, GoodTypes DEF Steady, Sound, Level, Tells
<1>2. e \in Stores /\ Base(e) /\ Twin(l, e) /\ e = Applied(d, [w EXCEPT !.row = Row(l)])
  BY LevelHere DEF Steady, Sound, Level, Twin, Lands
<1>3. b \in Writes
  BY <1>1, BatchTyped
<1>4. CASE s.saves
  <2>1. b = [w EXCEPT !.row = Row(l)]
    BY <1>4 DEF Batch
  <2>2. b.row = Row(l) /\ Row(l) # None
    BY <1>1, <2>1, RowAside, RowTyped
  <2>3. b # NoWrites
    BY <2>2 DEF NoWrites
  <2>4. g = e
    BY <1>2, <2>1, <2>3
  <2>5. g.row = Row(l)
    BY <2>4, LevelFacts DEF Steady, Sound
  <2>6. InOrder(g.row) /\ Follows(d.row, g.row)
    BY <1>1, <2>5, RowTurns DEF Steady, Follows
  <2> QED BY <1>1, <1>2, <1>3, <2>4, <2>6
<1>5. CASE ~s.saves
  <2>1. b = [w EXCEPT !.row = None]
    BY <1>5 DEF Batch
  <2>2. SameBut(w, b) /\ b.row = None
    BY <1>1, <2>1, RowAside
  <2>3. SameRow(l, d.row)
    BY <1>5 DEF Steady
  <2>6. InOrder(d.row)
    BY <2>3, SameRowStill DEF Steady, Turns, SameRow
  <2>4. CASE b = NoWrites
    <3>1. NothingYet(w)
      <4>1. SameBut(w, NoWrites)
        BY <2>2, <2>4
      <4> HIDE DEF w
      <4> QED BY <4>1, NoWritesYet DEF NothingYet, Bare, SameBut
    <3>2. SameRows(e, d)
      <4>1. /\ e.joined = d.joined /\ e.removed = d.removed
            /\ e.extraTime = d.extraTime /\ e.score = d.score /\ SameCells(d, e)
        BY <1>1, <3>1, NothingLands
      <4> QED BY <4>1 DEF SameRows, SameCells
    <3>3. Base(d) /\ Twin(l, d)
      BY <1>1, <1>2, <2>3, <3>2, SameRowsTwin
    <3> QED BY <1>1, <1>3, <2>4, <2>6, <3>3 DEF Follows
  <2>5. CASE b # NoWrites
    <3> DEFINE c == [w EXCEPT !.row = Row(l)]
    <3>1. g = Applied(d, b) /\ g \in Stores
      BY <1>3, <2>5, AppliedTyped
    <3>2. SameBut(w, c)
      BY <1>1, RowAside
    <3>3. SameBut(c, b) /\ ~Conflicts(d, c)
      BY <1>1, <2>2, <3>2 DEF SameBut, Conflicts
    <3>4. e = Applied(d, c)
      BY <1>2
    <3> HIDE DEF c, e, w, l
    <3>5. SameRows(e, g) /\ g.row = RowAfter(d, b)
      BY <3>1, <3>3, <3>4, SameButApplied
    <3>6. g.row = d.row
      BY <2>2, <3>5 DEF RowAfter
    <3>7. Base(g) /\ Twin(l, g)
      BY <1>1, <1>2, <2>3, <3>1, <3>5, <3>6, SameRowsTwin
    <3> QED BY <1>1, <1>3, <2>6, <3>1, <3>6, <3>7 DEF l, Follows
  <2> QED BY <2>4, <2>5
<1> QED BY <1>4, <1>5

----------------------------------------------------------------------------
(* The rows the chain leads to. *)

\* Rows a crash may leave: the books balance, a load rebuilds the play they tell of, and
\* the log is in the order of the quiz.
Fine(d) == d \in Stores /\ Base(d) /\ Rebuilds(d) /\ InOrder(d.row)

\* D holds the rows d and what each batch of the chain q in its turn makes of them.
Chain(D, q, d) ==
  /\ D[0] = d
  /\ \A i \in 1..Len(q) : D[i] = Applied(D[i - 1], q[i]) /\ Follows(D[i - 1].row, D[i].row)
  /\ \A i \in 0..Len(q) : Fine(D[i])

\* Every rows the chain goes through are fine, and the last ones agree with the memory.
Stands(l, q, d) == \E D : Chain(D, q, d) /\ (l # None => Twin(l, D[Len(q)]))

LEMMA StandsFirst ==
  ASSUME NEW d, Fine(d), NEW l, l # None => Twin(l, d)
  PROVE  Stands(l, <<>>, d)
<1> DEFINE D == [i \in 0..0 |-> d]
<1>1. D[0] = d
  OBVIOUS
<1>2. Len(<<>>) = 0 /\ 1..0 = {} /\ 0..0 = {0}
  OBVIOUS
<1> HIDE DEF D
<1>3. Chain(D, <<>>, d)
  BY <1>1, <1>2 DEF Chain
<1> QED BY <1>1, <1>2, <1>3 DEF Stands

LEMMA StandsEmpty ==
  ASSUME NEW d, NEW l, Stands(l, <<>>, d)
  PROVE  Fine(d) /\ (l # None => Twin(l, d))
<1>1. PICK D : Chain(D, <<>>, d) /\ (l # None => Twin(l, D[Len(<<>>)]))
  BY DEF Stands
<1>2. Len(<<>>) = 0 /\ 0 \in 0..Len(<<>>)
  OBVIOUS
<1> QED BY <1>1, <1>2 DEF Chain

LEMMA StandsFine ==
  ASSUME NEW q \in Seq(Writes), NEW d, NEW l, Stands(l, q, d)
  PROVE  Fine(d) /\ Stands(None, q, d)
<1>1. PICK D : Chain(D, q, d)
  BY DEF Stands
<1>2. 0 \in 0..Len(q)
  OBVIOUS
<1> QED BY <1>1, <1>2 DEF Chain, Stands

LEMMA StandsTail ==
  ASSUME NEW q \in Seq(Writes), q # <<>>, NEW d, NEW l, Stands(l, q, d)
  PROVE  Stands(l, Tail(q), Applied(d, Head(q))) /\ Follows(d.row, Applied(d, Head(q)).row)
<1>1. PICK D : Chain(D, q, d) /\ (l # None => Twin(l, D[Len(q)]))
  BY DEF Stands
<1> DEFINE n == Len(q)
           t == Tail(q)
           C == [i \in 0..(n - 1) |-> D[i + 1]]
<1>2. n \in Nat /\ n > 0 /\ t \in Seq(Writes) /\ Len(t) = n - 1 /\ Head(q) = q[1]
  OBVIOUS
<1>3. \A i \in 1..(n - 1) : t[i] = q[i + 1]
  OBVIOUS
<1>4. \A i \in 0..(n - 1) : C[i] = D[i + 1]
  OBVIOUS
<1>5. /\ D[0] = d
      /\ \A i \in 1..n : D[i] = Applied(D[i - 1], q[i]) /\ Follows(D[i - 1].row, D[i].row)
  BY <1>1 DEF Chain
<1>6. \A i \in 0..n : Fine(D[i])
  BY <1>1 DEF Chain
<1> HIDE DEF C, t, n
<1>7. C[0] = Applied(d, Head(q)) /\ Follows(d.row, C[0].row)
  <2>1. 1 \in 1..n /\ 0 \in 0..(n - 1) /\ 0 + 1 = 1 /\ 1 - 1 = 0
    BY <1>2
  <2>2. D[1] = Applied(D[0], q[1]) /\ Follows(D[0].row, D[1].row)
    BY <1>5, <2>1
  <2>3. C[0] = D[1]
    BY <1>4, <2>1
  <2> QED BY <1>2, <1>5, <2>2, <2>3
<1>8. ASSUME NEW i \in 1..Len(t)
      PROVE  C[i] = Applied(C[i - 1], t[i]) /\ Follows(C[i - 1].row, C[i].row)
  <2>1. i \in 1..(n - 1) /\ i \in 0..(n - 1) /\ i - 1 \in 0..(n - 1) /\ i + 1 \in 1..n
        /\ (i + 1) - 1 = i /\ (i - 1) + 1 = i
    BY <1>2
  <2>2. C[i] = D[i + 1] /\ C[i - 1] = D[i]
    BY <1>4, <2>1
  <2>3. D[i + 1] = Applied(D[i], q[i + 1]) /\ Follows(D[i].row, D[i + 1].row)
    BY <1>5, <2>1
  <2> QED BY <1>3, <2>1, <2>2, <2>3
<1>9. ASSUME NEW i \in 0..Len(t) PROVE Fine(C[i])
  <2>1. i \in 0..(n - 1) /\ i + 1 \in 0..n
    BY <1>2
  <2> QED BY <1>4, <1>6, <2>1
<1>10. C[Len(t)] = D[n]
  <2>1. n - 1 \in 0..(n - 1) /\ (n - 1) + 1 = n
    BY <1>2
  <2> QED BY <1>2, <1>4, <2>1
<1>11. Chain(C, t, Applied(d, Head(q)))
  BY <1>7, <1>8, <1>9 DEF Chain
<1> QED BY <1>1, <1>7, <1>10, <1>11 DEF Stands, t, n

LEMMA StandsAppend ==
  ASSUME NEW q \in Seq(Writes), NEW d, NEW D, Chain(D, q, d), NEW b \in Writes,
         NEW g, g = Applied(D[Len(q)], b), Fine(g),
         Follows(D[Len(q)].row, g.row), NEW l, l # None => Twin(l, g)
  PROVE  Stands(l, Append(q, b), d)
<1> DEFINE n == Len(q)
           a == Append(q, b)
           C == [i \in 0..(n + 1) |-> IF i = n + 1 THEN g ELSE D[i]]
<1>1. n \in Nat /\ Len(a) = n + 1 /\ a[n + 1] = b /\ \A i \in 1..n : a[i] = q[i]
  OBVIOUS
<1>2. C[n + 1] = g /\ \A i \in 0..n : C[i] = D[i]
  BY <1>1
<1>3. /\ D[0] = d
      /\ \A i \in 1..n : D[i] = Applied(D[i - 1], q[i]) /\ Follows(D[i - 1].row, D[i].row)
  BY DEF Chain
<1>4. \A i \in 0..n : Fine(D[i])
  BY DEF Chain
<1>5. g = Applied(D[n], b) /\ Follows(D[n].row, g.row)
  OBVIOUS
<1> HIDE DEF C, a, n
<1>6. C[0] = d
  BY <1>1, <1>2, <1>3
<1>7. ASSUME NEW i \in 1..Len(a)
      PROVE  C[i] = Applied(C[i - 1], a[i]) /\ Follows(C[i - 1].row, C[i].row)
  <2>1. CASE i = n + 1
    <3>1. i - 1 = n /\ n \in 0..n
      BY <1>1, <2>1
    <3> QED BY <1>1, <1>2, <1>5, <2>1, <3>1
  <2>2. CASE i # n + 1
    <3>1. i \in 1..n /\ i \in 0..n /\ i - 1 \in 0..n
      BY <1>1, <2>2
    <3> QED BY <1>1, <1>2, <1>3, <3>1
  <2> QED BY <2>1, <2>2
<1>8. ASSUME NEW i \in 0..Len(a) PROVE Fine(C[i])
  <2>1. CASE i = n + 1
    BY <1>2, <2>1
  <2>2. CASE i # n + 1
    <3>1. i \in 0..n
      BY <1>1, <2>2
    <3> QED BY <1>2, <1>4, <3>1
  <2> QED BY <2>1, <2>2
<1>9. Chain(C, a, d)
  BY <1>6, <1>7, <1>8 DEF Chain
<1> QED BY <1>1, <1>2, <1>9 DEF Stands, a

\* The session row alone is another, and its log and its place are the same.
RowOnly(d, g) ==
  /\ g.row.phase = d.row.phase /\ g.row.round = d.row.round
  /\ g.row.question = d.row.question /\ g.row.phaseId = d.row.phaseId /\ g.row.log = d.row.log
  /\ g.joined = d.joined /\ g.removed = d.removed /\ g.extraTime = d.extraTime
  /\ g.score = d.score /\ g.answers = d.answers /\ g.votes = d.votes

LEMMA RowOnlyAlike ==
  ASSUME NEW d \in Stores, NEW g \in Stores, g.row.log = d.row.log,
         g.joined = d.joined, g.removed = d.removed, g.score = d.score,
         g.answers = d.answers, g.votes = d.votes
  PROVE  Alike(d, g)
BY DEF Alike, SameEntries, SameCells

LEMMA RowOnlyFine ==
  ASSUME NEW d, Fine(d), NEW g \in Stores, RowOnly(d, g)
  PROVE  Fine(g)
<1>1. d \in Stores /\ Accounts(d) /\ LogPlaced(d.row) /\ Rebuilds(d)
  BY DEF Fine, Base
<1>2. Alike(d, g)
  BY <1>1, RowOnlyAlike DEF RowOnly
<1>3. g.row.phaseId >= d.row.phaseId
  BY <1>1 DEF RowOnly, Stores, Rows, RowTypes
<1>4. Accounts(g)
  BY <1>1, <1>2, <1>3, AlikeAccounts
<1>5. LogPlaced(g.row)
  BY <1>1, <1>2, PlacedAlike DEF Alike, RowOnly
<1>6. Rebuilds(g)
  <2>1. SUFFICES ASSUME g.row.phase \in RevealPhases PROVE PlayOf(StoredPlay(g), g)
    BY DEF Rebuilds
  <2>2. StoredPlay(g) = StoredPlay(d)
    BY DEF RowOnly, StoredPlay, SeenAtReveal
  <2>3. StoredPlay(d) \in Plays
    BY <1>1, <2>1, StoredPlayTyped DEF RowOnly, RevealPhases
  <2>4. StoredPlay(d).at \in Questions
    BY <2>3 DEF Plays
  <2>5. PlayOf(StoredPlay(d), d)
    BY <1>1, <2>1 DEF Rebuilds, RowOnly
  <2> QED BY <1>1, <1>2, <2>2, <2>4, <2>5, AlikePlay
<1>7. InOrder(g.row)
  <2>1. StaysAt(d.row, g.row)
    BY DEF RowOnly, StaysAt
  <2> QED BY <2>1, StaysHere DEF Fine, Still
<1> QED BY <1>4, <1>5, <1>6, <1>7 DEF Fine, Base

\* What a command leaves, and what its batch will make of the rows the chain leads to.
LEMMA ExecuteStands ==
  ASSUME Core, NEW D, Chain(D, queue, db), NEW s, Execute(s), Steady(D[Len(queue)], s)
  PROVE  late' = late /\ Stands(live', queue', db')
<1> DEFINE d == D[Len(queue)]
           b == Batch(s)
           g == IF b = NoWrites THEN d ELSE Applied(d, b)
<1>1. queue \in Seq(Writes) /\ Len(queue) \in 0..Len(queue)
  BY DEF Core
<1>2. Fine(d) /\ d \in Stores
  BY <1>1 DEF Chain, Fine
<1> HIDE DEF g, b, d
<1>3. /\ g \in Stores /\ Base(g) /\ Twin(s.live, g) /\ s.live \in Lives /\ b \in Writes
      /\ InOrder(g.row) /\ Follows(d.row, g.row)
  BY <1>2, BatchLands DEF b, g, d
<1>4. Fine(g)
  BY <1>3, TwinRebuilds DEF Fine
<1>5. live' = None \/ live' = s.live
  BY DEF Execute
<1>6. live' # None => Twin(live', g)
  BY <1>3, <1>5
<1>7. db' = db /\ late' = late
  BY DEF Execute
<1>8. CASE b = NoWrites
  <2>1. queue' = queue /\ g = d
    BY <1>8 DEF Execute, b, g
  <2> QED BY <1>6, <1>7, <2>1 DEF Stands, d
<1>9. CASE b # NoWrites
  <2>1. queue' = Append(queue, b) /\ g = Applied(d, b)
    BY <1>9 DEF Execute, b, g
  <2>2. Stands(live', Append(queue, b), db)
    BY <1>1, <1>3, <1>4, <1>6, <2>1, StandsAppend DEF d
  <2> QED BY <1>7, <2>1, <2>2
<1> QED BY <1>8, <1>9

\* Every batch is still in the chain or was written in its turn, and the chain leads from
\* the rows to the memory.
Chained == late = <<>> /\ Stands(live, queue, db)

LEMMA ContinuesChained ==
  ASSUME Core, Chained, live # None,
         \A d : Backed(d) => Continues(d)
  PROVE  Chained'
<1>1. PICK D : Chain(D, queue, db) /\ Twin(live, D[Len(queue)])
  BY DEF Chained, Stands
<1>2. Fine(D[Len(queue)])
  <2>1. Len(queue) \in 0..Len(queue)
    BY DEF Core
  <2> QED BY <1>1, <2>1 DEF Chain
<1>3. Backed(D[Len(queue)])
  BY <1>1, <1>2 DEF Fine, Backed
<1>4. PICK s : Execute(s) /\ Steady(D[Len(queue)], s)
  BY <1>3 DEF Continues
<1>5. late' = late /\ Stands(live', queue', db')
  BY <1>1, <1>4, ExecuteStands
<1> QED BY <1>5 DEF Chained

LEMMA HostActsChained == Core /\ Chained /\ HostActs => Chained'
<1> SUFFICES ASSUME Core, Chained, HostActs PROVE Chained'
  OBVIOUS
<1>1. live # None
  BY Zenon DEF HostActs, HostRepeats, HostRefused, HostStart, HostNext, HostReveal, HostSkip,
         HostShowAnswers, HostPause, HostResume, HostAddTime, HostEnd, HostHidesAnswer,
         HostShowsAnswer, HostPicksFavourite, HostRemovesPlayer, Tap, Ready
<1>2. SUFFICES ASSUME NEW d, Backed(d) PROVE Continues(d)
  BY <1>1, ContinuesChained
<1>3. CASE HostRepeats
  BY <1>2, <1>3, HostRepeatsContinues
<1>4. CASE HostRefused
  BY <1>2, <1>4, HostRefusedContinues
<1>5. CASE HostStart
  BY <1>2, <1>5, HostStartContinues
<1>6. CASE HostNext
  BY <1>2, <1>6, HostNextContinues
<1>7. CASE HostReveal
  BY <1>2, <1>7, HostRevealContinues
<1>8. CASE HostSkip
  BY <1>2, <1>8, HostSkipContinues
<1>9. CASE HostShowAnswers
  BY <1>2, <1>9, HostShowAnswersContinues
<1>10. CASE HostPause
  BY <1>2, <1>10, HostPauseContinues
<1>11. CASE HostResume
  BY <1>2, <1>11, HostResumeContinues
<1>12. CASE HostAddTime
  BY <1>2, <1>12, HostAddTimeContinues
<1>13. CASE HostEnd
  BY <1>2, <1>13, HostEndContinues
<1>14. ASSUME NEW p \in Players, HostHidesAnswer(p) \/ HostShowsAnswer(p)
                                 \/ HostPicksFavourite(p) \/ HostRemovesPlayer(p)
       PROVE  Continues(d)
  BY <1>2, <1>14, HostHidesAnswerContinues, HostShowsAnswerContinues,
     HostPicksFavouriteContinues, HostRemovesPlayerContinues
<1> QED BY <1>3, <1>4, <1>5, <1>6, <1>7, <1>8, <1>9, <1>10, <1>11, <1>12, <1>13, <1>14
     DEF HostActs

LEMMA PlayersActChained == Core /\ Chained /\ PlayersAct => Chained'
<1> SUFFICES ASSUME Core, Chained, PlayersAct PROVE Chained'
  BY SMTT(60)
<1>1. live # None
  BY ZenonT(60) DEF PlayersAct, JoinLobby, SetExtraTime, SubmitAnswer, SubmitVote, SubmitAgain,
                    MaySubmit, Ready
<1>2. SUFFICES ASSUME NEW d, Backed(d) PROVE Continues(d)
  BY <1>1, ContinuesChained
<1> QED BY <1>2, JoinLobbyContinues, SetExtraTimeContinues, SubmitAnswerContinues,
           SubmitVoteContinues, SubmitAgainContinues DEF PlayersAct

LEMMA TimerElapsedChained == Core /\ Chained /\ TimerElapsed => Chained'
<1> SUFFICES ASSUME Core, Chained, TimerElapsed PROVE Chained'
  OBVIOUS
<1>1. live # None
  BY DEF TimerElapsed, Ready
<1> QED BY <1>1, ContinuesChained, TimerElapsedContinues

LEMMA AbandonChained == Core /\ Chained /\ Abandon => Chained'
<1> SUFFICES ASSUME Core, Chained, Abandon PROVE Chained'
  OBVIOUS
<1>1. live # None
  BY DEF Abandon, Ready
<1> QED BY <1>1, ContinuesChained, AbandonContinues

LEMMA LoadChained == Core /\ Chained /\ Load => Chained'
<1> SUFFICES ASSUME Core, Chained, Load PROVE Chained'
  OBVIOUS
<1> DEFINE l == LiveFrom(db)
           s == StepFrom(l, None)
           t == IF db.row.status = "running" /\ Interrupted(db.row) THEN Saved(s) ELSE s
<1>1. queue = <<>> /\ db.row.status \in Open /\ Execute(t)
  BY DEF Load
<1>2. PICK D : Chain(D, queue, db)
  BY DEF Chained, Stands
<1>3. Len(queue) = 0 /\ D[Len(queue)] = db /\ Fine(db)
  BY <1>1, <1>2 DEF Chain
<1>4. db \in Stores /\ Base(db) /\ Rebuilds(db)
  BY <1>3 DEF Fine
<1>5. /\ Sound(db, s) /\ s.live = l /\ StaysAt(db.row, s.live)
      /\ ~(db.row.status = "running" /\ Interrupted(db.row)) => SameRow(s.live, db.row)
  <2> HIDE DEF l, s
  <2>1. l = LiveFrom(db) /\ s = StepFrom(l, None)
    BY DEF l, s
  <2> QED BY <1>1, <1>4, <2>1, LoadSound
<1> HIDE DEF s, l
<1>9. Turns(db.row, s.live)
  BY <1>3, <1>5, StaysHere, StillTurns DEF Fine
<1>6. Steady(db, t)
  <2>1. CASE db.row.status = "running" /\ Interrupted(db.row)
    <3>1. t = Saved(s)
      BY <2>1
    <3>2. Saved(s).saves
      BY <1>5, SavedFacts, LevelHere DEF Sound
    <3>3. Saved(s).live = s.live
      BY <1>5, SavedFacts, LevelHere DEF Sound
    <3> QED BY <1>5, <1>9, <3>1, <3>2, <3>3, SavedSound DEF Steady
  <2>2. CASE ~(db.row.status = "running" /\ Interrupted(db.row))
    BY <1>5, <1>9, <2>2 DEF Steady
  <2> QED BY <2>1, <2>2
<1> HIDE DEF t
<1> QED BY <1>1, <1>2, <1>3, <1>6, ExecuteStands DEF Chained

LEMMA WriteBatchChained == Core /\ Chained /\ WriteBatch => Chained'
<1> SUFFICES ASSUME Core, Chained, WriteBatch PROVE Chained'
  OBVIOUS
<1>1. queue \in Seq(Writes) /\ queue # <<>> /\ Stands(live, queue, db)
  BY DEF Core, WriteBatch, Chained
<1>2. Stands(live, Tail(queue), Applied(db, Head(queue)))
  BY <1>1, StandsTail
<1> QED BY <1>2 DEF WriteBatch, Chained

\* A state that differs in its clocks and in who was seen alone.
SameTale(l, m) ==
  /\ m.status = l.status /\ m.phase = l.phase /\ m.round = l.round /\ m.question = l.question
  /\ m.phaseId = l.phaseId /\ m.log = l.log /\ m.joined = l.joined /\ m.removed = l.removed
  /\ m.extraTime = l.extraTime /\ m.score = l.score /\ m.hasScored = l.hasScored
  /\ m.play = l.play

LEMMA SameTaleTwin ==
  ASSUME NEW l, NEW m, SameTale(l, m), NEW d, Twin(l, d)
  PROVE  Twin(m, d)
<1>1. SameRow(m, d.row) /\ Mirrors(m, d)
  BY DEF Twin, Fits, Mirrors, SameTale, SameRow
<1>2. Fits(m, d)
  BY <1>1 DEF Twin, Fits, SameTale
<1>3. Here(m)
  BY DEF Twin, PhaseFits, Here, SameTale, Cursor
<1>4. Suits(m, m.phase)
  BY DEF Twin, PhaseFits, Suits, SameTale
<1> QED BY <1>2, <1>3, <1>4 DEF Twin, PhaseFits

LEMMA TickChained == Core /\ Chained /\ Tick => Chained'
<1> SUFFICES ASSUME Core, Chained, Tick PROVE Chained'
  OBVIOUS
<1> DEFINE extra == Shifted(live.extraDeadline)
           m     == [live EXCEPT !.deadline = @ - 1, !.extraDeadline = extra]
<1>1. live # None /\ live' = m /\ UNCHANGED <<queue, late, db>>
  BY DEF Tick
<1>2. live \in Lives
  BY <1>1 DEF Core
<1>3. SameTale(live, m)
  <2> HIDE DEF extra
  <2> QED BY <1>2 DEF Lives, SameTale
<1> HIDE DEF m
<1>4. PICK D : Chain(D, queue, db) /\ Twin(live, D[Len(queue)])
  BY <1>1 DEF Chained, Stands
<1>5. Twin(m, D[Len(queue)])
  BY <1>3, <1>4, SameTaleTwin
<1> QED BY <1>1, <1>4, <1>5 DEF Chained, Stands

LEMMA HostLeavesChained == Core /\ Chained /\ HostLeaves => Chained'
<1> SUFFICES ASSUME Core, Chained, HostLeaves PROVE Chained'
  OBVIOUS
<1>1. /\ queue = <<>> /\ late = <<>> /\ UNCHANGED <<queue, late>>
      /\ db' = [db EXCEPT !.row.hostSeen = FALSE]
      /\ live' = IF live = None THEN None ELSE [live EXCEPT !.hostSeen = FALSE]
  BY DEF HostLeaves
<1>2. Fine(db) /\ (live # None => Twin(live, db))
  BY <1>1, StandsEmpty DEF Chained
<1>3. db \in Stores /\ db' \in Stores
  BY <1>1, Unseen DEF Core
<1> DEFINE row == [db.row EXCEPT !.hostSeen = FALSE]
<1>4. /\ row.phase = db.row.phase /\ row.round = db.row.round /\ row.status = db.row.status
      /\ row.question = db.row.question /\ row.phaseId = db.row.phaseId /\ row.log = db.row.log
  BY <1>3 DEF Stores, Rows, RowTypes
<1>5. db' = [db EXCEPT !.row = row]
  BY <1>1
<1> HIDE DEF row
<1>6. /\ db'.row = row /\ db'.joined = db.joined /\ db'.removed = db.removed
      /\ db'.extraTime = db.extraTime /\ db'.score = db.score
      /\ db'.answers = db.answers /\ db'.votes = db.votes
  BY <1>3, <1>5 DEF Stores
<1>7. Fine(db')
  <2>1. RowOnly(db, db')
    BY <1>4, <1>6 DEF RowOnly
  <2> QED BY <1>2, <1>3, <2>1, RowOnlyFine
<1>8. live' # None => Twin(live', db')
  <2> SUFFICES ASSUME live # None PROVE Twin(live', db')
    BY <1>1
  <2> DEFINE m == [live EXCEPT !.hostSeen = FALSE]
  <2>1. live \in Lives /\ live' = m
    BY <1>1 DEF Core
  <2>2. SameTale(live, m)
    BY <2>1 DEF Lives, SameTale
  <2> HIDE DEF m
  <2>3. SameRows(db, db')
    BY <1>6 DEF SameRows, SameCells
  <2>4. SameRow(live, db'.row)
    BY <1>2, <1>4, <1>6 DEF Twin, Fits, Mirrors, SameRow
  <2>5. Twin(live, db')
    BY <1>2, <1>3, <2>1, <2>3, <2>4, SameRowsTwin DEF Fine
  <2> QED BY <2>1, <2>2, <2>5, SameTaleTwin
<1> QED BY <1>1, <1>7, <1>8, StandsFirst DEF Chained

LEMMA MarkAbandonedChained == Core /\ Chained /\ MarkAbandoned => Chained'
<1> SUFFICES ASSUME Core, Chained, MarkAbandoned PROVE Chained'
  OBVIOUS
<1> DEFINE row == [db.row EXCEPT !.status = "abandoned", !.phase = "ended", !.round = None,
                                 !.question = None, !.recovery = FALSE, !.phaseId = @ + 1]
<1>1. /\ queue = <<>> /\ live = None /\ UNCHANGED <<live, queue, late>>
      /\ db' = [db EXCEPT !.row = row]
  BY DEF MarkAbandoned
<1>2. Fine(db)
  BY <1>1, StandsEmpty DEF Chained
<1>3. db \in Stores /\ db' \in Stores /\ db.row.phaseId \in Nat
  <2>1. db' \in Stores
    BY MarkAbandonedCore DEF Core
  <2> QED BY <2>1 DEF Core, Stores, Rows, RowTypes
<1>4. row.phase = "ended" /\ row.phaseId = db.row.phaseId + 1 /\ row.log = db.row.log
  BY <1>3 DEF Stores, Rows, RowTypes
<1> HIDE DEF row
<1>5. /\ db'.row = row /\ db'.joined = db.joined /\ db'.removed = db.removed
      /\ db'.score = db.score /\ db'.answers = db.answers /\ db'.votes = db.votes
  BY <1>1, <1>3 DEF Stores
<1>6. Alike(db, db')
  BY <1>3, <1>4, <1>5, RowOnlyAlike
<1>7. Accounts(db')
  BY <1>2, <1>3, <1>4, <1>5, <1>6, AlikeAccounts DEF Fine, Base
<1>8. LogPlaced(db'.row) /\ Rebuilds(db')
  BY <1>4, <1>5, PlacedElsewhere DEF Rebuilds, RevealPhases, AtPhases, QuestionPhases
<1>9. InOrder(db'.row)
  <2>1. InOrder(db.row)
    BY <1>2 DEF Fine
  <2>2. \A y : ~Reached(db'.row, y)
    BY <1>4, <1>5 DEF Reached, AtPhases, QuestionPhases, RevealPhases
  <2> QED BY <1>4, <1>5, <2>1, <2>2 DEF InOrder
<1>10. Fine(db')
  BY <1>3, <1>7, <1>8, <1>9 DEF Fine, Base
<1> QED BY <1>1, <1>10, StandsFirst DEF Chained

LEMMA RestartChained == Core /\ Chained /\ Restart => Chained'
<1> SUFFICES ASSUME Core, Chained, Restart PROVE Chained'
  OBVIOUS
<1>1. live' = None /\ queue' = <<>> /\ late' = <<>> /\ Booted
  BY DEF Restart
<1>2. Fine(db) /\ db \in Stores
  BY StandsFine DEF Chained, Core
<1>3. db' \in Stores
  BY <1>1, BootedTyped
<1>4. Fine(db')
  <2> DEFINE row == Recovered(db.row)
  <2>1. CASE db' = db
    BY <1>2, <2>1
  <2>2. CASE db' = [db EXCEPT !.row = row]
    <3>1. /\ row.phase = db.row.phase /\ row.round = db.row.round
          /\ row.question = db.row.question /\ row.phaseId = db.row.phaseId
          /\ row.log = db.row.log
      BY <1>2 DEF Recovered, Stores, Rows, RowTypes
    <3> HIDE DEF row
    <3>2. RowOnly(db, db')
      BY <1>2, <2>2, <3>1 DEF Stores, RowOnly
    <3> QED BY <1>2, <1>3, <3>2, RowOnlyFine
  <2> QED BY <1>1, <2>1, <2>2 DEF Booted
<1> QED BY <1>1, <1>4, StandsFirst DEF Chained

LEMMA InitChained == Init => Chained
<1> SUFFICES ASSUME Init PROVE Chained
  OBVIOUS
<1>1. db \in Stores
  BY InitCore DEF Core
<1>2. /\ live = None /\ queue = <<>> /\ late = <<>> /\ db.row = FreshRow
      /\ db.joined = Nobody /\ db.removed = Nobody /\ db.score = [p \in Players |-> 0]
      /\ db.answers = [x \in Questions |-> Nobody] /\ db.votes = [x \in Questions |-> Nobody]
  BY DEF Init
<1>3. db.row.log = <<>> /\ db.row.phase = "lobby" /\ DOMAIN db.row.log = {}
  BY <1>2 DEF FreshRow
<1>4. LogOK(db.row) /\ LogPlaced(db.row)
  BY <1>3 DEF LogOK, Once, LogPlaced, AtPhases, QuestionPhases, RevealPhases
<1>5. StampsOK(db) /\ Ahead(db) /\ Unpaid(db)
  BY <1>2, <1>3 DEF StampsOK, Ahead, Unpaid, Nobody
<1>6. AddsUp(db)
  <2> SUFFICES ASSUME NEW p \in Players
               PROVE  db.score[p] = Total(Holdings(db, p), Questions)
    BY DEF AddsUp
  <2>1. \A x \in Questions : Held(db, x, p) = 0
    <3> TAKE x \in Questions
    <3>1. db.answers[x][p] = None /\ db.votes[x][p] = None
      BY <1>2 DEF Nobody
    <3>2. None # Truth
      BY NoneAssumption
    <3> QED BY <3>1, <3>2 DEF Held
  <2>2. \A x \in Questions : Holdings(db, p)[x] = 0
    BY <2>1 DEF Holdings
  <2>3. Total(Holdings(db, p), Questions) = 0
    BY <2>2, QuestionsFinite, TotalOfZeros
  <2>4. db.score[p] = 0
    BY <1>2
  <2> QED BY <2>3, <2>4
<1>7. Rebuilds(db)
  BY <1>3 DEF Rebuilds, RevealPhases
<1>8. InOrder(db.row)
  BY <1>3 DEF InOrder, Sorted, Reached, AtPhases, QuestionPhases, RevealPhases
<1>9. Fine(db)
  BY <1>1, <1>4, <1>5, <1>6, <1>7, <1>8 DEF Fine, Base, Accounts
<1> QED BY <1>2, <1>9, StandsFirst DEF Chained

----------------------------------------------------------------------------
(* Every step of the session. *)

SpentOK == spent \in [restarts : Nat, deploys : Nat, failures : Nat,
                      adds : Nat, aways : Nat, taps : Nat]

LEMMA SpentStep ==
  ASSUME SpentOK, Next
  PROVE  SpentOK' /\ (NothingLost' => NothingLost /\ ~WriteFails /\ ~Deploy)
<1>1. CASE UNCHANGED spent
  <2>1. ~WriteFails /\ ~Deploy
    BY <1>1 DEF SpentOK, WriteFails, Deploy
  <2> QED BY <1>1, <2>1 DEF SpentOK, NothingLost
<1>2. CASE WriteFails
  BY <1>2 DEF SpentOK, WriteFails, NothingLost
<1>3. CASE Deploy
  BY <1>3 DEF SpentOK, Deploy, NothingLost
<1>4. CASE \/ spent' = [spent EXCEPT !.restarts = @ + 1] \/ spent' = [spent EXCEPT !.adds = @ + 1]
           \/ spent' = [spent EXCEPT !.aways = @ + 1] \/ spent' = [spent EXCEPT !.taps = @ + 1]
  <2>1. SpentOK'
    BY <1>4 DEF SpentOK
  <2>2. spent'.failures = spent.failures /\ spent'.deploys = spent.deploys
    BY <1>4 DEF SpentOK
  <2>3. ~WriteFails /\ ~Deploy
    BY SMTT(60), <2>2 DEF SpentOK, WriteFails, Deploy
  <2> QED BY <2>1, <2>2, <2>3 DEF NothingLost
<1>5. HostActs => UNCHANGED spent \/ spent' = [spent EXCEPT !.adds = @ + 1]
                  \/ spent' = [spent EXCEPT !.taps = @ + 1]
  BY ZenonT(60) DEF HostActs, HostRepeats, HostRefused, HostStart, HostNext, HostReveal, HostSkip,
         HostShowAnswers, HostPause, HostResume, HostAddTime, HostEnd, HostHidesAnswer,
         HostShowsAnswer, HostPicksFavourite, HostRemovesPlayer, HostDoes, Tap
<1>6. PlayersAct => UNCHANGED spent
  BY ZenonT(60) DEF PlayersAct, JoinLobby, SetExtraTime, SubmitAnswer, SubmitVote, SubmitAgain
<1>7. TimePasses => UNCHANGED spent \/ spent' = [spent EXCEPT !.aways = @ + 1]
  BY DEF TimePasses, Tick, TimerElapsed, HostLeaves
<1>8. AbandonIfIdle \/ AbandonNow => UNCHANGED spent
  BY DEF AbandonIfIdle, AbandonNow, Abandon, MarkAbandoned
<1>9. Load \/ WriteBatch \/ LateWrite \/ LateWritesDropped => UNCHANGED spent
  BY DEF Load, WriteBatch, LateWrite, LateWritesDropped
<1>10. Restart => spent' = [spent EXCEPT !.restarts = @ + 1]
  BY DEF Restart
<1> QED BY <1>1, <1>2, <1>3, <1>4, <1>5, <1>6, <1>7, <1>8, <1>9, <1>10 DEF Next

\* While nothing is lost, the chain leads from the rows to the memory.
Told == Core /\ SpentOK /\ (NothingLost => Chained)

LEMMA ChainedStep ==
  ASSUME Core, Chained, Next, ~WriteFails, ~Deploy
  PROVE  Chained'
<1>1. CASE HostActs
  BY <1>1, HostActsChained
<1>2. CASE PlayersAct
  BY <1>2, PlayersActChained
<1>3. CASE TimePasses
  BY <1>3, TickChained, TimerElapsedChained, HostLeavesChained DEF TimePasses
<1>4. CASE AbandonIfIdle \/ AbandonNow
  BY <1>4, AbandonChained, MarkAbandonedChained DEF AbandonIfIdle, AbandonNow
<1>5. CASE Load
  BY <1>5, LoadChained
<1>6. CASE WriteBatch
  BY <1>6, WriteBatchChained
<1>7. CASE Restart
  BY <1>7, RestartChained
<1>8. ~LateWrite /\ ~LateWritesDropped
  BY DEF Chained, LateWrite, LateWritesDropped
<1> QED BY <1>1, <1>2, <1>3, <1>4, <1>5, <1>6, <1>7, <1>8 DEF Next

LEMMA ToldInit == Init => Told
<1> SUFFICES ASSUME Init PROVE Told
  OBVIOUS
<1>1. SpentOK
  BY DEF Init, SpentOK
<1> QED BY <1>1, InitCore, InitChained DEF Told

LEMMA ToldStep == Told /\ [Next]_vars => Told'
<1>1. ASSUME Told, Next PROVE Told'
  <2>1. Core' /\ SpentOK'
    BY <1>1, NextCore, SpentStep DEF Told
  <2>2. NothingLost' => NothingLost /\ ~WriteFails /\ ~Deploy
    BY <1>1, SpentStep DEF Told
  <2> QED BY <1>1, <2>1, <2>2, ChainedStep DEF Told
<1>2. ASSUME Told, UNCHANGED vars PROVE Told'
  BY <1>2, StutterCore DEF Told, vars, SpentOK, NothingLost, Chained
<1> QED BY <1>1, <1>2

LEMMA ToldAlways == Spec => []Told
BY ToldInit, ToldStep, PTL DEF Spec

----------------------------------------------------------------------------
(* The theorems. *)

LEMMA ToldScores == Told => ScoresAddUp
<1> SUFFICES ASSUME Told, NothingLost, NEW p \in Players
             PROVE  db.score[p] = MapThenSumSet(LAMBDA x : StoredPoints(db, x, p), Questions)
  BY DEF ScoresAddUp
<1>1. Fine(db)
  BY StandsFine DEF Told, Chained, Core
<1>2. Once(db.row.log) /\ db.score[p] = Total(Holdings(db, p), Questions)
  BY <1>1 DEF Fine, Base, Accounts, LogOK, AddsUp
<1> QED BY <1>2, SumIsTotal

\* No crash, replay, reload, hidden answer or withdrawn favourite pays a player twice or
\* loses points: however much of the chain is written when the process dies, the stored
\* scores are the sum of what the stored answers and votes earned.
THEOREM ScoresAddUpHolds == Spec => []ScoresAddUp
BY ToldAlways, ToldScores, PTL

LEMMA RowFields ==
  ASSUME NEW r \in RowTypes
  PROVE  r = [status |-> r.status, phase |-> r.phase, round |-> r.round,
              question |-> r.question, phaseId |-> r.phaseId, recovery |-> r.recovery,
              log |-> r.log, hostSeen |-> r.hostSeen]
<1>1. \A A, B, C, D, E, F, G, H : \A x \in [status : A, phase : B, round : C, question : D,
                                          phaseId : E, recovery : F, log : G, hostSeen : H] :
        x = [status |-> x.status, phase |-> x.phase, round |-> x.round,
             question |-> x.question, phaseId |-> x.phaseId, recovery |-> x.recovery,
             log |-> x.log, hostSeen |-> x.hostSeen]
  OBVIOUS
<1> QED BY <1>1 DEF RowTypes

LEMMA DurableIs ==
  ASSUME NEW r \in RowTypes, NEW q \in RowTypes, SameRow(r, q)
  PROVE  Durable(r) = Durable(q)
<1>1. ASSUME NEW t \in RowTypes
      PROVE  /\ Durable(t) \in RowTypes
             /\ Durable(t).status = t.status /\ Durable(t).phase = t.phase
             /\ Durable(t).round = t.round /\ Durable(t).question = t.question
             /\ Durable(t).phaseId = t.phaseId /\ Durable(t).recovery = FALSE
             /\ Durable(t).log = t.log /\ Durable(t).hostSeen = TRUE
  BY DEF RowTypes, Durable
<1> DEFINE a == Durable(r)
           c == Durable(q)
<1>2. /\ a.status = c.status /\ a.phase = c.phase /\ a.round = c.round
      /\ a.question = c.question /\ a.phaseId = c.phaseId /\ a.recovery = c.recovery
      /\ a.log = c.log /\ a.hostSeen = c.hostSeen
  BY <1>1 DEF SameRow
<1>3. a \in RowTypes /\ c \in RowTypes
  BY <1>1
<1> HIDE DEF a, c
<1>4. a = c
  <2> DEFINE f(x) == [status |-> x.status, phase |-> x.phase, round |-> x.round,
                      question |-> x.question, phaseId |-> x.phaseId,
                      recovery |-> x.recovery, log |-> x.log, hostSeen |-> x.hostSeen]
  <2>1. a = f(a) /\ c = f(c)
    BY <1>3, RowFields
  <2>2. f(a) = f(c)
    BY <1>2
  <2> HIDE DEF f
  <2> QED BY <2>1, <2>2
<1> QED BY <1>4 DEF a, c

LEMMA ToldMatches == Told => StoredMatchesMemory
<1> SUFFICES ASSUME Told, live # None, queue = <<>>, NothingLost
             PROVE  /\ Durable(Row(live)) = Durable(db.row)
                    /\ live.joined = db.joined /\ live.removed = db.removed
                    /\ live.extraTime = db.extraTime /\ live.score = db.score
                    /\ PlayNow(live) =>
                         \A p \in Players :
                           /\ SameAnswer(live.play.at, live.play.answers[p],
                                         db.answers[live.play.at][p])
                           /\ live.play.votes[p] = db.votes[live.play.at][p]
  BY DEF StoredMatchesMemory
<1>1. Twin(live, db) /\ live \in Lives /\ db.row \in RowTypes
  BY StandsEmpty DEF Told, Chained, Core, Stores, Rows
<1>2. Row(live) \in RowTypes
  BY <1>1 DEF Row, Lives, RowTypes
<1>3. SameRow(Row(live), db.row)
  BY <1>1 DEF Twin, Fits, Mirrors, SameRow, Row
<1>4. Durable(Row(live)) = Durable(db.row)
  BY <1>1, <1>2, <1>3, DurableIs
<1>5. ASSUME PlayNow(live), NEW p \in Players
      PROVE  /\ SameAnswer(live.play.at, live.play.answers[p], db.answers[live.play.at][p])
             /\ live.play.votes[p] = db.votes[live.play.at][p]
  BY <1>1, <1>5 DEF Twin, Fits, PlayOf, Stored, PlayNow
<1> QED BY <1>1, <1>4, <1>5 DEF Twin, Fits, Mirrors

\* Whatever the commands did, once the chain is written out the rows say what the memory
\* says: no command changes the state and forgets to save it, or saves something else.
THEOREM StoredMatchesMemoryHolds == Spec => []StoredMatchesMemory
BY ToldAlways, ToldMatches, PTL

LEMMA ToldReloads == Told => ReloadLosesNothing
<1> SUFFICES ASSUME Told, live # None, live.phase \in {"reveal", "scores"}, queue = <<>>,
                    NothingLost
             PROVE  /\ StoredPlay(db).at = live.play.at
                    /\ StoredPlay(db).eligible = live.play.eligible
                    /\ StoredPlay(db).counted = live.play.counted
                    /\ StoredPlay(db).favourite = live.play.favourite
                    /\ StoredPlay(db).options = IF live.play.options = {} THEN None
                                                ELSE live.play.options
                    /\ live.hasScored = LiveFrom(db).hasScored
  BY DEF ReloadLosesNothing
<1>1. Fine(db) /\ Twin(live, db) /\ live \in Lives
  BY StandsEmpty DEF Told, Chained, Core
<1>2. Rebuilt(live.play, StoredPlay(db))
  BY <1>1, TwinRebuilds DEF Fine, RevealPhases
<1>3. live.hasScored = LiveFrom(db).hasScored
  <2>1. LiveFrom(db).hasScored = \E i \in DOMAIN db.row.log : /\ db.row.log[i].revealed # None
                                                              /\ ~db.row.log[i].skipped
    BY DEF LiveFrom
  <2>2. \A i \in DOMAIN db.row.log : db.row.log[i].revealed # None => ~db.row.log[i].skipped
    BY <1>1 DEF Fine, Base, Accounts, LogOK, EntryOK
  <2>3. live.hasScored \in BOOLEAN
    BY <1>1 DEF Lives
  <2>4. live.hasScored <=> \E i \in DOMAIN db.row.log : db.row.log[i].revealed # None
    BY <1>1 DEF Twin, Fits, Mirrors
  <2> QED BY <2>1, <2>2, <2>3, <2>4
<1> QED BY <1>2, <1>3 DEF Rebuilt

\* A question that is being revealed when the process dies, or is replaced once its
\* writes are out, comes back as it was: for any history of the session the rows hold who
\* could answer, who was counted, what could be voted for and the favourite.
THEOREM ReloadLosesNothingHolds == Spec => []ReloadLosesNothing
BY ToldAlways, ToldReloads, PTL
----------------------------------------------------------------------------
(* The night that the rows tell of. *)

LogAsked(log)    == [i \in DOMAIN log |-> log[i].at]
LogRevealed(log) == {i \in DOMAIN log : log[i].revealed # None}
Ending(row)      == IF row.status \in Closed THEN row.status ELSE "open"

LEMMA RestsNight ==
  ASSUME NEW g \in Seq(Entries), NEW h \in Seq(Entries), Rests(g, h)
  PROVE  LogAsked(h) = LogAsked(g) /\ LogRevealed(h) = LogRevealed(g)
<1>1. DOMAIN h = DOMAIN g
  BY LogPlaces DEF Rests
<1>2. \A i \in DOMAIN g : h[i].at = g[i].at /\ h[i].revealed = g[i].revealed
  BY DEF Rests, SameTurn
<1> QED BY <1>1, <1>2 DEF LogAsked, LogRevealed

LEMMA AsksNight ==
  ASSUME NEW g \in Seq(Entries), NEW h \in Seq(Entries), Asks(g, h)
  PROVE  \E x \in Questions :
           /\ LogAsked(h) = Append(LogAsked(g), x) /\ LogRevealed(h) = LogRevealed(g)
           /\ x \notin Asked(g) /\ \A y \in Questions : Earlier(y, x) => y \in Asked(g)
<1> DEFINE n == Len(g)
           x == h[n + 1].at
           a == LogAsked(g)
           b == LogAsked(h)
<1>1. n \in Nat /\ DOMAIN g = 1..n /\ Len(h) = n + 1 /\ DOMAIN h = 1..(n + 1)
  BY LogPlaces DEF Asks
<1>2. /\ h[n + 1].revealed = None /\ x \in Questions
      /\ \A y \in Questions : y \in Asked(g) <=> Earlier(y, x)
  BY <1>1 DEF Asks
<1>3. \A i \in 1..n : h[i].at = g[i].at /\ h[i].revealed = g[i].revealed
  BY <1>1 DEF Asks, SameTurn
<1>4. ~Earlier(x, x)
  BY <1>2, QuestionPlace, QuizFacts DEF Earlier
<1>5. LogRevealed(h) = LogRevealed(g)
  BY <1>1, <1>2, <1>3 DEF LogRevealed
<1>6. b = Append(a, x)
  <2>1. a \in [1..n -> Questions] /\ \A i \in 1..n : a[i] = g[i].at
    BY <1>1, LogPlaces DEF LogAsked
  <2>2. b = [i \in 1..(n + 1) |-> h[i].at]
    BY <1>1 DEF LogAsked
  <2> HIDE DEF a, b
  <2>3. a \in Seq(Questions) /\ Len(a) = n
    BY <1>1, <2>1
  <2>4. Append(a, x) = [i \in 1..(n + 1) |-> IF i = n + 1 THEN x ELSE a[i]]
    BY <1>1, <1>2, <2>3
  <2>5. \A i \in 1..(n + 1) : h[i].at = IF i = n + 1 THEN x ELSE a[i]
    BY <1>1, <1>3, <2>1
  <2> QED BY <2>2, <2>4, <2>5
<1> QED BY <1>2, <1>4, <1>5, <1>6

LEMMA DisclosesNight ==
  ASSUME NEW g \in Seq(Entries), NEW h \in Seq(Entries), Discloses(g, h)
  PROVE  /\ LogAsked(h) = LogAsked(g) /\ LogRevealed(h) = LogRevealed(g) \cup {Len(g)}
         /\ LogAsked(g) # <<>> /\ Len(LogAsked(g)) = Len(g) /\ Len(g) \notin LogRevealed(g)
<1> DEFINE n == Len(g)
<1>1. n \in Nat /\ DOMAIN g = 1..n /\ Len(h) = n /\ DOMAIN h = 1..n /\ n > 0
  <2>1. n \in Nat /\ DOMAIN g = 1..n /\ DOMAIN h = 1..Len(h)
    BY LogPlaces
  <2>2. Len(h) = n /\ n > 0
    BY DEF Discloses
  <2> QED BY <2>1, <2>2
<1>2. /\ \A i \in 1..n : h[i].at = g[i].at /\ (i # n => h[i].revealed = g[i].revealed)
      /\ g[n].revealed = None /\ h[n].revealed # None
  BY <1>1, Zenon DEF Discloses
<1>3. LogAsked(h) = LogAsked(g)
  BY <1>1, <1>2, Zenon DEF LogAsked
<1>4. LogRevealed(h) = LogRevealed(g) \cup {n} /\ n \notin LogRevealed(g)
  <2>1. \A i : i \in LogRevealed(h) <=> i \in 1..n /\ h[i].revealed # None
    BY <1>1 DEF LogRevealed
  <2>2. \A i : i \in LogRevealed(g) <=> i \in 1..n /\ g[i].revealed # None
    BY <1>1 DEF LogRevealed
  <2>3. n \in 1..n
    BY <1>1
  <2> HIDE DEF n
  <2>4. \A i : i \in LogRevealed(h) <=> i \in LogRevealed(g) \cup {n}
    BY <1>2, <2>1, <2>2, <2>3
  <2> QED BY <1>2, <2>2, <2>4
<1>5. LogAsked(g) # <<>> /\ Len(LogAsked(g)) = n
  <2> DEFINE a == LogAsked(g)
  <2>1. a \in [1..n -> Questions]
    BY <1>1, LogPlaces DEF LogAsked
  <2> HIDE DEF a
  <2>2. a \in Seq(Questions) /\ Len(a) = n
    BY <1>1, <2>1
  <2>3. Len(<<>>) = 0
    OBVIOUS
  <2> QED BY <1>1, <2>2, <2>3 DEF a
<1> QED BY <1>3, <1>4, <1>5

\* A row that takes one turn takes a step of the night, or none.
LEMMA FollowsNight ==
  ASSUME Core, Core', Follows(db.row, db'.row)
  PROVE  [Night!Next]_(Night!vars)
<1> DEFINE g == db.row.log
           h == db'.row.log
<1>1. /\ g \in Seq(Entries) /\ h \in Seq(Entries)
      /\ db.row.status \in Open \cup Closed /\ db'.row.status \in Open \cup Closed
  BY DEF Core, Stores, Rows, RowTypes
<1>2. CASE db'.row = db.row
  BY <1>2 DEF Night!vars
<1>3. ASSUME db.row.status \in Open, Rests(g, h)
      PROVE  Night!End("finished") \/ Night!End("abandoned") \/ UNCHANGED Night!vars
  <2>1. LogAsked(h) = LogAsked(g) /\ LogRevealed(h) = LogRevealed(g)
    BY <1>1, <1>3, RestsNight
  <2>2. Ending(db.row) = "open"
    BY <1>3 DEF Ending, Open, Closed
  <2>3. Ending(db'.row) \in {"open", "finished", "abandoned"}
    BY DEF Ending, Closed
  <2> QED BY <2>1, <2>2, <2>3 DEF Night!End, Night!vars, LogAsked, LogRevealed, Ending
<1>4. ASSUME db.row.status \in Open, db'.row.status \in Open, Asks(g, h)
      PROVE  \E x \in Questions : Night!Ask(x)
  <2>1. PICK x \in Questions :
          /\ LogAsked(h) = Append(LogAsked(g), x) /\ LogRevealed(h) = LogRevealed(g)
          /\ x \notin Asked(g) /\ \A y \in Questions : Earlier(y, x) => y \in Asked(g)
    BY <1>1, <1>4, AsksNight
  <2>2. Ending(db.row) = "open" /\ Ending(db'.row) = "open"
    BY <1>4 DEF Ending, Open, Closed
  <2>3. Night!AskedSet = Asked(g)
    BY DEF Night!AskedSet, Asked
  <2>4. \A y \in Questions : Night!Before(y, x) => y \in Night!AskedSet
    BY <2>1, <2>3, Zenon DEF Night!Before, Earlier
  <2>5. Night!Ask(x)
    BY <2>1, <2>2, <2>3, <2>4 DEF Night!Ask, LogAsked, LogRevealed, Ending
  <2> QED BY <2>5
<1>5. ASSUME db.row.status \in Open, db'.row.status \in Open, Discloses(g, h)
      PROVE  Night!Reveal
  <2>1. /\ LogAsked(h) = LogAsked(g) /\ LogRevealed(h) = LogRevealed(g) \cup {Len(g)}
        /\ LogAsked(g) # <<>> /\ Len(LogAsked(g)) = Len(g) /\ Len(g) \notin LogRevealed(g)
    BY <1>1, <1>5, DisclosesNight
  <2>2. Ending(db.row) = "open" /\ Ending(db'.row) = "open"
    BY <1>5 DEF Ending, Open, Closed
  <2> QED BY <2>1, <2>2 DEF Night!Reveal, LogAsked, LogRevealed, Ending
<1>6. CASE db.row.status \in Open /\ Turns(db.row, db'.row)
  BY <1>3, <1>4, <1>5, <1>6 DEF Turns, Night!Next
<1> QED BY <1>2, <1>6 DEF Follows

LEMMA CommandsKeepRows ==
  HostActs \/ PlayersAct \/ Tick \/ TimerElapsed \/ Abandon \/ Load => db' = db
<1>1. ASSUME NEW s, Execute(s) PROVE db' = db
  BY <1>1 DEF Execute
<1>2. HostActs => db' = db
  BY <1>1, ZenonT(60)
     DEF HostActs, HostRepeats, HostRefused, HostStart, HostNext, HostReveal, HostSkip,
         HostShowAnswers, HostPause, HostResume, HostAddTime, HostEnd, HostHidesAnswer,
         HostShowsAnswer, HostPicksFavourite, HostRemovesPlayer, HostDoes
<1>3. PlayersAct => db' = db
  BY <1>1, ZenonT(60) DEF PlayersAct, JoinLobby, SetExtraTime, SubmitAnswer, SubmitVote,
                          SubmitAgain
<1>4. Tick \/ TimerElapsed \/ Abandon \/ Load => db' = db
  BY <1>1 DEF Tick, TimerElapsed, Abandon, Load
<1> QED BY <1>2, <1>3, <1>4

\* Of all the steps of a session only three write a row: a batch, the sweep of a session no
\* process holds, and a boot; a host who leaves touches nothing that the night is about.
LEMMA NightStep ==
  ASSUME Core, Core', Chained, Next, ~WriteFails, ~Deploy
  PROVE  [Night!Next]_(Night!vars)
<1>1. CASE db' = db
  BY <1>1 DEF Night!vars
<1>2. CASE WriteBatch
  <2>1. queue \in Seq(Writes) /\ queue # <<>> /\ Stands(live, queue, db)
    BY <1>2 DEF Core, WriteBatch, Chained
  <2>2. Follows(db.row, db'.row)
    BY <1>2, <2>1, StandsTail DEF WriteBatch
  <2> QED BY <2>2, FollowsNight
<1>3. ASSUME db'.row.log = db.row.log, db.row.status \in Open
      PROVE  [Night!Next]_(Night!vars)
  <2>1. Ending(db.row) = "open" /\ Ending(db'.row) \in {"open", "finished", "abandoned"}
    BY <1>3 DEF Ending, Open, Closed
  <2> QED BY <1>3, <2>1 DEF Night!Next, Night!End, Night!vars, Ending
<1>4. CASE HostLeaves
  <2>1. db'.row.log = db.row.log /\ db.row.status \in Open
    BY <1>4 DEF HostLeaves, Core, Stores, Rows, RowTypes
  <2> QED BY <1>3, <2>1
<1>5. CASE MarkAbandoned
  <2>1. db'.row.log = db.row.log /\ db.row.status \in Open
    BY <1>5 DEF MarkAbandoned, Core, Stores, Rows, RowTypes
  <2> QED BY <1>3, <2>1
<1>6. CASE Restart
  <2>1. db' = db \/ (db.row.status = "running" /\ db'.row.log = db.row.log)
    <3>1. db' = [db EXCEPT !.row = Recovered(db.row)] \/ db' = db
      BY <1>6 DEF Restart, Booted
    <3>2. db.row \in RowTypes /\ db \in Stores
      BY DEF Core, Stores, Rows
    <3>3. Recovered(db.row) = db.row \/ (db.row.status = "running"
                                         /\ Recovered(db.row).log = db.row.log)
      BY <3>2 DEF Recovered, RowTypes
    <3>4. db' # db => db'.row = Recovered(db.row)
      BY <3>1, <3>2 DEF Stores
    <3>5. Recovered(db.row) = db.row => db' = db
      BY <3>1, <3>2 DEF Stores
    <3> QED BY <3>3, <3>4, <3>5
  <2> QED BY <1>1, <1>3, <2>1 DEF Open
<1>7. ~LateWrite /\ ~LateWritesDropped
  BY DEF Chained, LateWrite, LateWritesDropped
<1>8. CASE HostActs \/ PlayersAct \/ Tick \/ TimerElapsed \/ Abandon \/ Load
  <2>1. db' = db
    BY <1>8, CommandsKeepRows
  <2> QED BY <1>1, <2>1
<1> QED BY <1>2, <1>4, <1>5, <1>6, <1>7, <1>8 DEF Next, TimePasses, AbandonIfIdle, AbandonNow

\* Whoever reads the rows of a session sees a quiz night, whatever crashes, replays,
\* late timers and sweeps it went through, as long as no batch was lost: the questions
\* come in the order of the quiz, none is passed over or asked twice, what was revealed
\* stays revealed, and the night ends once.
THEOREM NightRefinement == Spec /\ []NothingLost => ImplementsNight
<1>1. Init => Night!Init
  <2> SUFFICES ASSUME Init PROVE Night!Init
    OBVIOUS
  <2>1. db.row = FreshRow
    BY DEF Init
  <2>2. db.row.log = <<>> /\ db.row.status = "lobby"
    BY <2>1 DEF FreshRow
  <2>3. DOMAIN db.row.log = {}
    BY <2>2
  <2> QED BY <2>2, <2>3 DEF Night!Init, Closed
<1>2. Told /\ Told' /\ NothingLost /\ NothingLost' /\ [Next]_vars => [Night!Next]_(Night!vars)
  <2>1. ASSUME Told, Told', NothingLost, NothingLost', Next PROVE [Night!Next]_(Night!vars)
    <3>1. ~WriteFails /\ ~Deploy
      BY <2>1, SpentStep DEF Told
    <3> QED BY <2>1, <3>1, NightStep DEF Told
  <2>2. ASSUME UNCHANGED vars PROVE UNCHANGED Night!vars
    BY <2>2 DEF vars, Night!vars
  <2> QED BY <2>1, <2>2
<1> QED BY <1>1, <1>2, ToldAlways, PTL DEF Spec, ImplementsNight, Night!Spec
=============================================================================
