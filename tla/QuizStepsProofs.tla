---------------------------- MODULE QuizStepsProofs ----------------------------
(***************************************************************************)
(* What each transition of the engine does to the memory of a Pulse Live   *)
(* session and to the rows its writes will leave.                          *)
(*                                                                         *)
(* A transition works on a step: a memory that is still being changed and  *)
(* the writes it has gathered.  What must hold of rows alone is Base, of   *)
(* rows and memory together Twin; Sound says of a step that its writes,    *)
(* once committed, leave such rows (Lands).  There is one lemma for every  *)
(* phase and for every change of the play of a question; QuizRowsProofs    *)
(* puts them together into commands and chains of batches.                 *)
(***************************************************************************)
EXTENDS QuizShowProofs

RevealPhases == {"reveal", "scores"}
AtPhases     == QuestionPhases \cup RevealPhases

----------------------------------------------------------------------------
(* What the rows d hold of the questions. *)

Asked(log) == {log[i].at : i \in DOMAIN log}
Once(log)  == \A i, j \in DOMAIN log : log[i].at = log[j].at => i = j
UpTo(x, y) == x[1] < y[1] \/ (x[1] = y[1] /\ x[2] <= y[2])

EntryOK(r, e) ==
  /\ e.opened <= r.phaseId
  /\ e.revealed # None => e.opened <= e.revealed /\ e.revealed <= r.phaseId /\ ~e.skipped

\* The log r.log ends where the cursor of r stands.
EntryPlaced(r, e) ==
  /\ r.phase # "lobby"
  /\ r.phase \in AtPhases => UpTo(e.at, Cursor(r))
  /\ r.phase = "round_intro" => e.at[1] < r.round
  /\ r.phase = "leaderboard" => e.at[1] <= r.round
  /\ r.phase \in AtPhases /\ e.at = Cursor(r) => (e.revealed # None <=> r.phase \in RevealPhases)

LogOK(r)     == Once(r.log) /\ \A i \in DOMAIN r.log : EntryOK(r, r.log[i])
LogPlaced(r) == /\ \A i \in DOMAIN r.log : EntryPlaced(r, r.log[i])
                /\ r.phase \in AtPhases => Cursor(r) \in Asked(r.log)

StampsOK(d) ==
  \A p \in Players : /\ d.joined[p] # None => d.joined[p] <= d.row.phaseId
                     /\ d.removed[p] # None => d.removed[p] <= d.row.phaseId

\* Nothing is stored for a question before it is asked, and nothing paid before it is
\* revealed.
Ahead(d) ==
  \A x \in Questions : x \notin Asked(d.row.log) =>
    \A p \in Players : d.answers[x][p] = None /\ d.votes[x][p] = None
Unpaid(d) ==
  \A i \in DOMAIN d.row.log : d.row.log[i].revealed = None =>
    \A p \in Players :
      d.answers[d.row.log[i].at][p] # None => d.answers[d.row.log[i].at][p].points = 0

\* What player p holds of question x, and of each.
Seen(d, x, p) ==
  \E i \in DOMAIN d.row.log :
    /\ d.row.log[i].at = x /\ d.row.log[i].revealed # None
    /\ SeenAtReveal(d, d.row.log[i], p)
Held(d, x, p) ==
  (IF d.answers[x][p] = None THEN 0 ELSE d.answers[x][p].points)
  + (IF d.votes[x][p] = Truth /\ Seen(d, x, p) THEN 1 ELSE 0)
Holdings(d, p) == [x \in Questions |-> Held(d, x, p)]
AddsUp(d)      == \A p \in Players : d.score[p] = Total(Holdings(d, p), Questions)

Accounts(d) == LogOK(d.row) /\ StampsOK(d) /\ Ahead(d) /\ Unpaid(d) /\ AddsUp(d)
Base(d)     == Accounts(d) /\ LogPlaced(d.row)

----------------------------------------------------------------------------
(* The play in memory and the rows of its question. *)

Drawn(d, e, p) == {v \in Players : d.votes[e.at][v] = p /\ SeenAtReveal(d, e, v)}

\* Entry e of the log says who could answer, and who counted.
EntryFits(play, d, e) ==
  /\ e.at = play.at
  /\ play.eligible = {p \in Players : /\ d.joined[p] # None /\ d.joined[p] < e.opened
                                      /\ d.removed[p] = None \/ d.removed[p] >= e.opened}
  /\ play.scored <=> e.revealed # None
  /\ play.scored => play.counted = {p \in play.eligible : SeenAtReveal(d, e, p)}
  /\ play.scored /\ KindOf(e.at) = "caption" =>
       \A p \in Players :
         play.answers[p] # None /\ ~play.answers[p].hidden =>
           play.answers[p].points = Cardinality(Drawn(d, e, p)) + (IF play.favourite = p THEN 1 ELSE 0)

\* What it says of player p is what is stored, and what may have been said.
Stored(play, d, p) ==
  /\ SameAnswer(play.at, play.answers[p], d.answers[play.at][p])
  /\ play.votes[p] = d.votes[play.at][p]
Fair(play, d, p) ==
  /\ play.answers[p] # None \/ play.votes[p] # None => p \in play.eligible
  /\ play.answers[p] # None =>
       /\ play.answers[p].points # 0 => play.scored /\ p \in play.counted
       /\ IsParty(play.at) /\ d.removed[p] # None => play.answers[p].hidden

Shown(d, x) == {p \in Players : d.answers[x][p] # None /\ d.answers[x][p].shown}
Offered(play) == IF play.options = None THEN {} ELSE play.options \ {Truth}
OptionsFit(play, d) ==
  /\ Offered(play) = Shown(d, play.at)
  /\ play.options # None => IsParty(play.at) /\ (Truth \in play.options <=> KindOf(play.at) = "lie")
  /\ play.scored /\ KindOf(play.at) = "lie" => play.options # None
  /\ play.favourite # None =>
       /\ play.scored /\ KindOf(play.at) = "caption"
       /\ play.options # None /\ play.favourite \in play.options
       /\ play.answers[play.favourite] # None /\ ~play.answers[play.favourite].hidden

PlayOf(play, d) ==
  /\ \E i \in DOMAIN d.row.log : EntryFits(play, d, d.row.log[i])
  /\ \A p \in Players : Stored(play, d, p) /\ Fair(play, d, p)
  /\ OptionsFit(play, d)

SameRow(l, r) ==
  /\ l.status = r.status /\ l.phase = r.phase /\ l.round = r.round
  /\ l.question = r.question /\ l.phaseId = r.phaseId /\ l.log = r.log

Mirrors(l, d) ==
  /\ SameRow(l, d.row)
  /\ l.joined = d.joined /\ l.removed = d.removed /\ l.extraTime = d.extraTime
  /\ l.score = d.score
  /\ l.hasScored <=> \E i \in DOMAIN d.row.log : d.row.log[i].revealed # None

\* A play that is on is of the question at the cursor, which has not been skipped.
Here(l) ==
  /\ l.phase \in RevealPhases => l.play \in Plays
  /\ l.play # None /\ l.phase \in AtPhases => l.play.at = Cursor(l)
  /\ l.play # None /\ l.phase \in QuestionPhases =>
       \A i \in DOMAIN l.log : l.log[i].at = Cursor(l) => ~l.log[i].skipped
Suits(l, phase) ==
  l.play # None =>
    /\ phase \in {"read", "open"} => ~IsParty(l.play.at)
    /\ phase \in {"write", "review"} => IsParty(l.play.at) /\ l.play.options = None
    /\ phase = "vote" => IsParty(l.play.at) /\ l.play.options # None
PhaseFits(l) == Here(l) /\ Suits(l, l.phase)

Fits(l, d) == Mirrors(l, d) /\ (l.play # None => PlayOf(l.play, d))
Twin(l, d) == Fits(l, d) /\ PhaseFits(l)

\* A question that is being revealed can be rebuilt.
Rebuilds(d) == d.row.phase \in RevealPhases => PlayOf(StoredPlay(d), d)

----------------------------------------------------------------------------
(* Sums. *)

LEMMA QuestionsFinite == IsFiniteSet(Questions)
<1> DEFINE Of(r) == {r} \X (1..Rounds[r].size)
           S == {Of(r) : r \in 1..Len(Rounds)}
<1>1. IsFiniteSet(1..Len(Rounds))
  BY QuizFacts, FS_Interval
<1>2. IsFiniteSet(S)
  <2> DEFINE f == [r \in 1..Len(Rounds) |-> Of(r)]
  <2>1. f \in Surjection(1..Len(Rounds), S)
    <3> HIDE DEF Of
    <3> QED BY DEF Surjection
  <2> HIDE DEF f, S
  <2> QED BY <1>1, <2>1, FS_Surjection
<1>3. ASSUME NEW r \in 1..Len(Rounds) PROVE IsFiniteSet(Of(r))
  <2>1. IsFiniteSet(1..Rounds[r].size)
    <3>1. 1 \in Int /\ Rounds[r].size \in Int
      BY QuizFacts
    <3> QED BY <3>1, FS_Interval, Zenon
  <2>2. IsFiniteSet({r})
    BY FS_Singleton
  <2> QED BY <2>1, <2>2, FS_Product
<1>4. \A T \in S : IsFiniteSet(T)
  BY <1>3
<1> QED BY <1>2, <1>4, FS_UNION DEF Questions

LEMMA HeldIs ==
  ASSUME NEW d, Once(d.row.log), NEW x, NEW p
  PROVE  StoredPoints(d, x, p) = Held(d, x, p)
<1> DEFINE log == d.row.log
<1>1. CASE ~\E i \in DOMAIN log : log[i].at = x
  BY <1>1 DEF StoredPoints, Held, Seen
<1>2. ASSUME NEW i \in DOMAIN log, log[i].at = x
      PROVE  StoredPoints(d, x, p) = Held(d, x, p)
  <2>1. {j \in DOMAIN log : log[j].at = x} = {i}
    BY <1>2 DEF Once
  <2>2. EntryOf(log, x) = Max({i})
    BY <2>1 DEF EntryOf
  <2>3. Max({i}) = i
    BY DEF Max
  <2>4. Seen(d, x, p) <=> log[i].revealed # None /\ SeenAtReveal(d, log[i], p)
    BY <1>2 DEF Once, Seen
  <2> QED BY <1>2, <2>2, <2>3, <2>4 DEF StoredPoints, Held
<1> QED BY <1>1, <1>2

\* The sum that ScoresAddUp takes of the stored points is the total of the holdings.
LEMMA SumIsTotal ==
  ASSUME NEW d, Once(d.row.log), NEW p
  PROVE  MapThenSumSet(LAMBDA x : StoredPoints(d, x, p), Questions) = Total(Holdings(d, p), Questions)
<1> DEFINE S == Questions
           F(it) == it = [s \in SUBSET S |-> IF s = {} THEN 0
                            ELSE StoredPoints(d, CHOOSE x \in s : TRUE, p)
                                 + it[s \ {CHOOSE x \in s : TRUE}]]
           it0 == CHOOSE it : F(it)
           w == Holdings(d, p)
<1>1. MapThenSumSet(LAMBDA x : StoredPoints(d, x, p), Questions) = it0[S]
  BY DEF MapThenSumSet, MapThenFoldSet
<1>2. ASSUME NEW it PROVE F(it) <=> SumsOver(it, w, S)
  <2>1. ASSUME NEW s \in SUBSET S, s # {}
        PROVE  StoredPoints(d, Pick(s), p) = w[Pick(s)]
    <3>1. Pick(s) \in s
      BY <2>1, PickInSet
    <3>2. StoredPoints(d, Pick(s), p) = Held(d, Pick(s), p)
      BY HeldIs
    <3> QED BY <3>1, <3>2 DEF Holdings
  <2>2. [s \in SUBSET S |-> IF s = {} THEN 0 ELSE StoredPoints(d, Pick(s), p) + it[s \ {Pick(s)}]]
        = [s \in SUBSET S |-> IF s = {} THEN 0 ELSE w[Pick(s)] + it[s \ {Pick(s)}]]
    <3> HIDE DEF w, S
    <3> QED BY <2>1
  <2> QED BY <2>2, Zenon DEF SumsOver, Pick
<1> DEFINE a == SumsOf(w, S)
<1>3. SumsOver(a, w, S)
  BY QuestionsFinite, SumsExist
<1>4. F(it0)
  <2> HIDE DEF F, a
  <2>1. F(a)
    BY <1>3, <1>2
  <2> QED BY <2>1, Zenon DEF it0
<1>5. SumsOver(it0, w, S)
  <2> HIDE DEF F, it0
  <2> QED BY <1>4, <1>2
<1>6. it0[S] = a[S]
  <2> HIDE DEF it0, a, w
  <2> QED BY <1>3, <1>5, QuestionsFinite, SumsAgree
<1> QED BY <1>1, <1>6 DEF Total

LEMMA HeldTyped ==
  ASSUME NEW d \in Stores, NEW x \in Questions, NEW p \in Players
  PROVE  Held(d, x, p) \in Int
<1>1. d.answers[x][p] \in Maybe(AnswerRows)
  BY DEF Stores
<1>2. d.answers[x][p] # None => d.answers[x][p].points \in Int
  BY <1>1 DEF Maybe, AnswerRows
<1> QED BY <1>2 DEF Held

\* Scores add up still when nothing is held of any question but x, and the score moves as
\* what is held of x does.
LEMMA ScoresMove ==
  ASSUME NEW d \in Stores, NEW e \in Stores, NEW x \in Questions, AddsUp(d),
         \A y \in Questions \ {x}, p \in Players : Held(e, y, p) = Held(d, y, p),
         \A p \in Players : e.score[p] = d.score[p] + Held(e, x, p) - Held(d, x, p)
  PROVE  AddsUp(e)
<1> SUFFICES ASSUME NEW p \in Players PROVE e.score[p] = Total(Holdings(e, p), Questions)
  BY DEF AddsUp
<1> DEFINE w == Holdings(d, p)
           v == Holdings(e, p)
<1>1. \A y \in Questions : w[y] = Held(d, y, p) /\ v[y] = Held(e, y, p)
  BY DEF Holdings
<1>2. \A y \in Questions : w[y] \in Int /\ v[y] \in Int
  BY <1>1, HeldTyped
<1>3. \A y \in Questions \ {x} : w[y] = v[y]
  BY <1>1
<1>4. d.score[p] = Total(w, Questions)
  BY DEF AddsUp
<1> HIDE DEF w, v
<1>5. Total(v, Questions) = Total(w, Questions) + v[x] - w[x]
  BY <1>2, <1>3, QuestionsFinite, TotalMoves
<1>6. e.score[p] = Total(v, Questions)
  BY <1>1, <1>4, <1>5
<1> QED BY <1>6 DEF v

LEMMA ScoresStay ==
  ASSUME NEW d \in Stores, NEW e \in Stores, AddsUp(d), e.score = d.score,
         \A y \in Questions, p \in Players : Held(e, y, p) = Held(d, y, p)
  PROVE  AddsUp(e)
<1> SUFFICES ASSUME NEW p \in Players PROVE e.score[p] = Total(Holdings(e, p), Questions)
  BY DEF AddsUp
<1>1. \A y \in Questions : Holdings(d, p)[y] = Holdings(e, p)[y]
  BY DEF Holdings
<1>2. Total(Holdings(d, p), Questions) = Total(Holdings(e, p), Questions)
  BY <1>1, QuestionsFinite, TotalAgrees
<1> QED BY <1>2 DEF AddsUp


----------------------------------------------------------------------------
(* What the rows will be once the writes of a step so far are committed and its *)
(* row is saved. *)

Lands(d, s) == Applied(d, [s.writes EXCEPT !.row = Row(s.live)])

AnswerCell(d, w, x, p) ==
  LET cell == IF x = w.question THEN AnswerRow(d, w, p) ELSE d.answers[x][p]
  IN  IF p \in DOMAIN w.removed /\ cell # None THEN [cell EXCEPT !.hidden = TRUE] ELSE cell
VoteCell(d, w, x, p) == IF x = w.question THEN VoteRow(d, w, p) ELSE d.votes[x][p]

LEMMA RowTyped ==
  ASSUME NEW s, Good(s)
  PROVE  Row(s.live) \in Rows /\ Row(s.live) # None /\ SameRow(s.live, Row(s.live))
<1>1. Row(s.live) \in RowTypes /\ SameRow(s.live, Row(s.live))
  BY DEF Good, Steps, Lives, Row, RowTypes, SameRow
<1>2. Placed(Row(s.live))
  BY DEF Good, LiveOK, Placed, AtQuestion, AtRound, InLobby, Cursor, Row
<1> QED BY <1>1, <1>2, RowsAssumption DEF Rows

LEMMA LandsFields ==
  ASSUME NEW d \in Stores, d.row.status \in Open, NEW s, Good(s), ~Conflicts(d, s.writes),
         NEW e, e = Lands(d, s)
  PROVE  /\ e \in Stores /\ e.row = Row(s.live)
         /\ e.joined = Over(s.writes.joined, d.joined)
         /\ e.removed = Over(s.writes.removed, d.removed)
         /\ e.extraTime = Over(s.writes.extraTime, d.extraTime)
         /\ e.score = Over(s.writes.scores, d.score)
         /\ \A x \in Questions, p \in Players :
              /\ e.answers[x][p] = AnswerCell(d, s.writes, x, p)
              /\ e.votes[x][p] = VoteCell(d, s.writes, x, p)
<1> DEFINE r == Row(s.live)
           w == s.writes
           b == [w EXCEPT !.row = r]
<1>1. r \in Rows /\ r # None
  BY RowTyped
<1>2. w \in Writes
  BY DEF Good, Steps
<1> HIDE DEF r, w
<1>3. /\ b \in Writes /\ b.row = r /\ b.question = w.question /\ b.wipe = w.wipe
      /\ b.answers = w.answers /\ b.votes = w.votes /\ b.shown = w.shown
      /\ b.hidden = w.hidden /\ b.points = w.points /\ b.scores = w.scores
      /\ b.joined = w.joined /\ b.removed = w.removed /\ b.extraTime = w.extraTime
  BY <1>1, <1>2 DEF Writes, Maybe
<1> HIDE DEF b
<1>4. ~Conflicts(d, b)
  <2>1. ~Conflicts(d, w)
    BY DEF w
  <2> QED BY <1>3, <2>1 DEF Conflicts
<1>5. RowAfter(d, b) = r
  BY <1>1, <1>3 DEF RowAfter
<1>6. e = Applied(d, b)
  BY DEF Lands, b, r, w
<1>7. \A p : AnswerRow(d, b, p) = AnswerRow(d, w, p) /\ VoteRow(d, b, p) = VoteRow(d, w, p)
  <2> TAKE p
  <2>1. AnswerRow(d, b, p) = AnswerRow(d, w, p)
    BY <1>3, ZenonT(60) DEF AnswerRow
  <2>2. VoteRow(d, b, p) = VoteRow(d, w, p)
    BY <1>3, Zenon DEF VoteRow
  <2> QED BY <2>1, <2>2
<1> DEFINE answers == [x \in Questions |->
                        HiddenWith(IF x = b.question THEN [p \in Players |-> AnswerRow(d, b, p)]
                                   ELSE d.answers[x], DOMAIN b.removed)]
           votes   == [x \in Questions |->
                        IF x = b.question THEN [p \in Players |-> VoteRow(d, b, p)]
                        ELSE d.votes[x]]
<1>8. /\ e.row = r /\ e.joined = Over(b.joined, d.joined) /\ e.removed = Over(b.removed, d.removed)
      /\ e.extraTime = Over(b.extraTime, d.extraTime) /\ e.score = Over(b.scores, d.score)
      /\ e.answers = answers /\ e.votes = votes
  BY <1>4, <1>5, <1>6 DEF Applied
<1>9. ASSUME NEW x \in Questions, NEW p \in Players
      PROVE  e.answers[x][p] = AnswerCell(d, w, x, p) /\ e.votes[x][p] = VoteCell(d, w, x, p)
  <2>1. e.answers[x] = HiddenWith(IF x = b.question THEN [q \in Players |-> AnswerRow(d, b, q)]
                                  ELSE d.answers[x], DOMAIN b.removed)
    BY <1>8
  <2>2. e.votes[x] = IF x = b.question THEN [q \in Players |-> VoteRow(d, b, q)] ELSE d.votes[x]
    BY <1>8
  <2> HIDE DEF answers, votes
  <2> DEFINE h == IF x = b.question THEN [q \in Players |-> AnswerRow(d, b, q)] ELSE d.answers[x]
             cell == IF x = w.question THEN AnswerRow(d, w, p) ELSE d.answers[x][p]
  <2>4. h[p] = cell
    BY <1>3, <1>7
  <2>5. e.answers[x] = HiddenWith(h, DOMAIN w.removed)
    BY <1>3, <2>1
  <2>6. AnswerCell(d, w, x, p)
          = IF p \in DOMAIN w.removed /\ cell # None THEN [cell EXCEPT !.hidden = TRUE] ELSE cell
    BY DEF AnswerCell
  <2>3. e.answers[x][p] = AnswerCell(d, w, x, p)
    <3> HIDE DEF h, cell
    <3> QED BY <2>4, <2>5, <2>6 DEF HiddenWith
  <2> QED BY <1>3, <1>7, <2>2, <2>3 DEF VoteCell
<1>10. e \in Stores
  BY <1>3, <1>6, AppliedTyped
<1> QED BY <1>3, <1>8, <1>9, <1>10 DEF r, w


----------------------------------------------------------------------------
(* Rows that say the same of the questions. *)

\* Every answer and vote is stored as it was.
SameCells(d, e) ==
  \A x \in Questions, p \in Players :
    e.answers[x][p] = d.answers[x][p] /\ e.votes[x][p] = d.votes[x][p]

\* The same log, but for a question that is skipped.
SameEntries(log, new) ==
  /\ DOMAIN new = DOMAIN log
  /\ \A i \in DOMAIN log : /\ new[i].at = log[i].at /\ new[i].opened = log[i].opened
                           /\ new[i].revealed = log[i].revealed
                           /\ log[i].revealed # None => new[i].skipped = log[i].skipped

Alike(d, e) ==
  /\ SameEntries(d.row.log, e.row.log) /\ e.joined = d.joined /\ e.removed = d.removed
  /\ e.score = d.score /\ SameCells(d, e)

LEMMA LogEntry ==
  ASSUME NEW d \in Stores, NEW i \in DOMAIN d.row.log
  PROVE  /\ d.row.log[i] \in Entries /\ d.row.log[i].at \in Questions
         /\ d.row.log[i].opened \in Nat /\ d.row.log[i].revealed \in Maybe(Nat)
         /\ d.row.phaseId \in Nat
<1>1. d.row.log \in Seq(Entries) /\ d.row.phaseId \in Nat
  BY DEF Stores, Rows, RowTypes
<1>2. d.row.log[i] \in Entries
  BY <1>1
<1> QED BY <1>1, <1>2 DEF Entries

LEMMA SeenLater ==
  ASSUME NEW d, NEW e, e.removed = d.removed, NEW entry, NEW p
  PROVE  SeenAtReveal(e, entry, p) <=> SeenAtReveal(d, entry, p)
BY DEF SeenAtReveal

\* What is stored for a question that has not been revealed is worth nothing.
LEMMA UnpaidIs ==
  ASSUME NEW d, Accounts(d), NEW i \in DOMAIN d.row.log, d.row.log[i].revealed = None,
         NEW p \in Players, d.answers[d.row.log[i].at][p] # None
  PROVE  d.answers[d.row.log[i].at][p].points = 0
BY Zenon DEF Accounts, Unpaid

LEMMA UnpaidStays ==
  ASSUME NEW d \in Stores, Accounts(d), NEW e, SameEntries(d.row.log, e.row.log),
         \A x \in Questions, p \in Players : e.answers[x][p] # None =>
           d.answers[x][p] # None /\ e.answers[x][p].points = d.answers[x][p].points
  PROVE  Unpaid(e)
<1> SUFFICES ASSUME NEW i \in DOMAIN e.row.log, e.row.log[i].revealed = None, NEW p \in Players,
                    e.answers[e.row.log[i].at][p] # None
             PROVE  e.answers[e.row.log[i].at][p].points = 0
  BY Zenon DEF Unpaid
<1>1. /\ i \in DOMAIN d.row.log /\ e.row.log[i].at = d.row.log[i].at
      /\ d.row.log[i].revealed = None
  BY DEF SameEntries
<1>2. d.row.log[i].at \in Questions
  BY <1>1, LogEntry
<1>3. /\ d.answers[d.row.log[i].at][p] # None
      /\ e.answers[d.row.log[i].at][p].points = d.answers[d.row.log[i].at][p].points
  BY <1>1, <1>2, Zenon
<1>4. d.answers[d.row.log[i].at][p].points = 0
  BY <1>1, <1>3, UnpaidIs, Zenon
<1> QED BY <1>1, <1>3, <1>4, Zenon

LEMMA AlikeAccounts ==
  ASSUME NEW d \in Stores, NEW e \in Stores, Alike(d, e), Accounts(d),
         e.row.phaseId >= d.row.phaseId
  PROVE  Accounts(e)
<1>1. \A i \in DOMAIN d.row.log : /\ d.row.log[i].at \in Questions
                                  /\ d.row.log[i].opened \in Nat
                                  /\ d.row.log[i].revealed \in Maybe(Nat)
  BY LogEntry
<1>2. d.row.phaseId \in Nat /\ e.row.phaseId \in Nat
  BY DEF Stores, Rows, RowTypes
<1>3. LogOK(e.row)
  <2>1. Once(e.row.log)
    BY DEF Accounts, Alike, SameEntries, LogOK, Once
  <2>2. \A i \in DOMAIN e.row.log : EntryOK(e.row, e.row.log[i])
    BY <1>1, <1>2 DEF Accounts, Alike, SameEntries, LogOK, EntryOK, Maybe
  <2> QED BY <2>1, <2>2 DEF LogOK
<1>4. StampsOK(e)
  BY SMTT(60), <1>2 DEF Accounts, Alike, StampsOK, Stores, Positions, Maybe
<1>5. Ahead(e)
  BY SMTT(60) DEF Accounts, Alike, SameEntries, SameCells, Ahead, Asked
<1>6. Unpaid(e)
  BY UnpaidStays, Zenon DEF Alike, SameCells
<1>7. AddsUp(e)
  <2>1. \A x \in Questions, p \in Players : Seen(e, x, p) <=> Seen(d, x, p)
    BY DEF Alike, SameEntries, Seen, SeenAtReveal
  <2>2. \A x \in Questions, p \in Players : Held(e, x, p) = Held(d, x, p)
    BY <2>1 DEF Alike, SameCells, Held
  <2> QED BY <2>2, ScoresStay DEF Accounts, Alike
<1> QED BY <1>3, <1>4, <1>5, <1>6, <1>7 DEF Accounts

LEMMA AlikePlay ==
  ASSUME NEW d \in Stores, NEW e \in Stores, Alike(d, e), NEW play, play.at \in Questions,
         PlayOf(play, d)
  PROVE  PlayOf(play, e)
<1> DEFINE x == play.at
<1>1. \A p \in Players : Stored(play, e, p) /\ Fair(play, e, p)
  BY DEF PlayOf, Stored, Fair, Alike, SameCells
<1>2. OptionsFit(play, e)
  <2>1. Shown(e, x) = Shown(d, x)
    BY DEF Shown, Alike, SameCells
  <2> QED BY <2>1 DEF PlayOf, OptionsFit
<1>3. \E i \in DOMAIN e.row.log : EntryFits(play, e, e.row.log[i])
  <2>1. PICK i \in DOMAIN d.row.log : EntryFits(play, d, d.row.log[i])
    BY DEF PlayOf
  <2> DEFINE a == d.row.log[i]
             b == e.row.log[i]
  <2>2. /\ i \in DOMAIN e.row.log /\ b.at = a.at /\ b.opened = a.opened
        /\ b.revealed = a.revealed
    BY DEF Alike, SameEntries
  <2> HIDE DEF a, b
  <2>3. \A p : SeenAtReveal(e, b, p) <=> SeenAtReveal(d, a, p)
    BY <2>2 DEF SeenAtReveal, Alike
  <2>4. a.at = play.at
    BY <2>1 DEF EntryFits, a
  <2>5. \A p : Drawn(e, b, p) = Drawn(d, a, p)
    BY <2>2, <2>3, <2>4 DEF Drawn, Alike, SameCells
  <2>6. EntryFits(play, d, a) /\ e.joined = d.joined /\ e.removed = d.removed
    BY <2>1 DEF a, Alike
  <2>7. EntryFits(play, e, b)
    BY <2>2, <2>3, <2>5, <2>6 DEF EntryFits
  <2> QED BY <2>2, <2>7 DEF b
<1> QED BY <1>1, <1>2, <1>3 DEF PlayOf


----------------------------------------------------------------------------
(* A step so far whose memory and rows, once written, tell the same night. *)

\* Writes that name no question change none.
Bare(w) ==
  w.question = None => /\ ~w.wipe /\ w.shown = {}
                       /\ DOMAIN w.answers = {} /\ DOMAIN w.votes = {}
                       /\ DOMAIN w.hidden = {} /\ DOMAIN w.points = {}

Tells(d, s) ==
  /\ d \in Stores /\ d.row.status \in Open /\ Good(s)
  /\ ~Conflicts(d, s.writes) /\ Bare(s.writes)

Level(d, s) == Tells(d, s) /\ Base(Lands(d, s)) /\ Fits(s.live, Lands(d, s))
Sound(d, s) == Level(d, s) /\ PhaseFits(s.live)

LEMMA SameRowPlaced ==
  ASSUME NEW l, NEW r, SameRow(l, r)
  PROVE  LogPlaced(l) <=> LogPlaced(r)
BY DEF SameRow, LogPlaced, EntryPlaced, Cursor, Asked

\* The same writes leave the same rows.
LEMMA SameWritesLand ==
  ASSUME NEW d, NEW s, Tells(d, s), NEW t, Good(t), t.writes = s.writes
  PROVE  /\ Tells(d, t) /\ Lands(d, t) \in Stores /\ Lands(d, s) \in Stores
         /\ Lands(d, t).row = Row(t.live) /\ SameCells(Lands(d, s), Lands(d, t))
         /\ Lands(d, t).joined = Lands(d, s).joined
         /\ Lands(d, t).removed = Lands(d, s).removed
         /\ Lands(d, t).extraTime = Lands(d, s).extraTime
         /\ Lands(d, t).score = Lands(d, s).score
<1>1. Tells(d, t)
  BY DEF Tells
<1> QED BY <1>1, LandsFields DEF Tells, SameCells

\* What a change of the phase leaves as it was.
Passes(l, m) ==
  /\ m.play = l.play /\ m.log = l.log /\ m.joined = l.joined /\ m.removed = l.removed
  /\ m.extraTime = l.extraTime /\ m.score = l.score /\ m.hasScored = l.hasScored
  /\ m.phaseId >= l.phaseId

LEMMA GoodTypes ==
  ASSUME NEW s, Good(s)
  PROVE  /\ s \in Steps /\ s.live \in Lives /\ s.writes \in Writes /\ LiveOK(s.live)
         /\ s.live.play \in Maybe(Plays) /\ s.live.log \in Seq(Entries)
         /\ s.live.phaseId \in Nat
         /\ SameRow(s.live, Row(s.live)) /\ Row(s.live).phaseId = s.live.phaseId
<1>1. s \in Steps /\ s.live \in Lives /\ s.writes \in Writes /\ LiveOK(s.live)
  BY DEF Good, Steps
<1> QED BY <1>1, RowTyped DEF Lives, Row

LEMMA PlayAt ==
  ASSUME NEW l \in Lives, l.play # None
  PROVE  l.play \in Plays /\ l.play.at \in Questions
BY DEF Lives, Maybe, Plays

LEMMA PassesSound ==
  ASSUME NEW d, NEW s, Level(d, s), NEW t, Good(t), t.writes = s.writes,
         Passes(s.live, t.live), LogPlaced(t.live), PhaseFits(t.live)
  PROVE  Sound(d, t)
<1> DEFINE l == s.live
           m == t.live
           e == Lands(d, s)
           f == Lands(d, t)
<1>1. /\ Tells(d, t) /\ f \in Stores /\ e \in Stores /\ f.row = Row(m) /\ SameCells(e, f)
      /\ f.joined = e.joined /\ f.removed = e.removed
      /\ f.extraTime = e.extraTime /\ f.score = e.score
  BY SameWritesLand DEF Level
<1>2. m \in Lives /\ SameRow(m, f.row) /\ f.row.phaseId = m.phaseId /\ m.phaseId \in Nat
  BY <1>1, GoodTypes
<1>3. Mirrors(l, e) /\ Accounts(e)
  BY DEF Level, Fits, Base
<1> HIDE DEF l, m, e, f
<1>4. Passes(l, m) /\ LogPlaced(m) /\ PhaseFits(m)
  BY DEF l, m
<1>5. f.row.log = e.row.log /\ f.row.phaseId >= e.row.phaseId
  BY <1>2, <1>3, <1>4 DEF Mirrors, SameRow, Passes
<1>6. Alike(e, f)
  BY <1>1, <1>5 DEF Alike, SameEntries
<1>7. Accounts(f)
  BY <1>1, <1>3, <1>5, <1>6, AlikeAccounts
<1>8. LogPlaced(f.row)
  BY <1>2, <1>4, SameRowPlaced
<1>9. Mirrors(m, f)
  BY <1>1, <1>2, <1>3, <1>4, <1>5 DEF Mirrors, Passes
<1>10. m.play # None => PlayOf(m.play, f)
  <2>1. SUFFICES ASSUME m.play # None PROVE PlayOf(m.play, f)
    OBVIOUS
  <2>2. m.play.at \in Questions
    BY <1>2, <2>1, PlayAt
  <2>3. PlayOf(m.play, e)
    <3>1. l.play # None => PlayOf(l.play, e)
      BY DEF Level, Fits, l, e
    <3> QED BY <2>1, <3>1, <1>4 DEF Passes
  <2> QED BY <1>1, <1>6, <2>2, <2>3, AlikePlay
<1>11. Base(f) /\ Fits(m, f)
  BY <1>4, <1>7, <1>8, <1>9, <1>10 DEF Base, Fits
<1> QED BY <1>1, <1>4, <1>11 DEF Sound, Level, m, f

LEMMA SavedSound ==
  ASSUME NEW d, NEW s, Sound(d, s)
  PROVE  Sound(d, Saved(s))
<1> DEFINE t == Saved(s)
<1>1. Good(t) /\ t.live = s.live /\ t.writes = s.writes
  BY SavedLeaves, SavedFacts, GoodTypes DEF Sound, Level, Tells, Leaves, Good
<1>2. s.live.phaseId \in Nat /\ SameRow(s.live, Lands(d, s).row)
  BY GoodTypes DEF Sound, Level, Tells, Fits, Mirrors
<1>3. LogPlaced(s.live) /\ PhaseFits(s.live) /\ Passes(s.live, s.live)
  BY <1>2, SameRowPlaced DEF Sound, Level, Base, Passes
<1> HIDE DEF t
<1> QED BY <1>1, <1>3, PassesSound DEF t, Sound


----------------------------------------------------------------------------
(* The phases that follow. *)

Comes(l, m, phase, round, question) ==
  Passes(l, m) /\ m.phase = phase /\ m.round = round /\ m.question = question

LEMMA AdvanceComes ==
  ASSUME NEW s \in Steps, NEW phase \in Phases,
         NEW round \in Maybe(1..Len(Rounds)), NEW question \in Maybe(Nat),
         NEW time \in Maybe(Int), NEW extra \in Maybe(Int)
  PROVE  LET t == Advance(s, phase, round, question, time, extra)
         IN  /\ t \in Steps /\ t.writes = s.writes
             /\ Comes(s.live, t.live, phase, round, question)
             /\ t.live.status = s.live.status
<1> DEFINE t == Advance(s, phase, round, question, time, extra)
<1>1. Arrives(t, s, phase, round, question, time, extra)
  BY AdvanceFacts
<1>2. s.live.phaseId \in Nat
  BY DEF Steps, Lives
<1> HIDE DEF t
<1>3. t \in Steps /\ t.writes = s.writes /\ t.live.status = s.live.status
  BY <1>1 DEF Arrives
<1>4. Comes(s.live, t.live, phase, round, question)
  BY <1>1, <1>2 DEF Arrives, Comes, Passes
<1> QED BY <1>3, <1>4 DEF t

LEMMA UntimedComes ==
  ASSUME NEW s \in Steps, NEW phase \in Phases,
         NEW round \in Maybe(1..Len(Rounds)), NEW question \in Maybe(Nat)
  PROVE  /\ Untimed(s, phase, round, question).writes = s.writes
         /\ Comes(s.live, Untimed(s, phase, round, question).live, phase, round, question)
<1>1. None \in Maybe(Int)
  BY DEF Maybe
<1> QED BY <1>1, AdvanceComes DEF Untimed

LEMMA TimedComes ==
  ASSUME NEW s \in Steps, NEW phase \in Phases
  PROVE  /\ Timed(s, phase).writes = s.writes
         /\ Comes(s.live, Timed(s, phase).live, phase, s.live.round, s.live.question)
<1> DEFINE a == Advance(s, phase, s.live.round, s.live.question, AnswerTime, ExtraTime)
<1>1. AnswerTime \in Maybe(Int) /\ ExtraTime \in Maybe(Int)
  BY TimeAssumption DEF Maybe
<1>2. s.live.round \in Maybe(1..Len(Rounds)) /\ s.live.question \in Maybe(Nat)
  BY CursorTyped
<1>3. a \in Steps /\ a.writes = s.writes
      /\ Comes(s.live, a.live, phase, s.live.round, s.live.question)
  BY <1>1, <1>2, AdvanceComes
<1>4. Timed(s, phase) = Armed(a)
  BY DEF Timed
<1> HIDE DEF a
<1> QED BY <1>3, <1>4, ArmedFacts

\* The log goes with the cursor.
LEMMA PlacedHere ==
  ASSUME NEW l, NEW m, LogPlaced(l), m.log = l.log, Cursor(m) = Cursor(l),
         l.phase \in AtPhases, m.phase \in AtPhases,
         l.phase \in RevealPhases <=> m.phase \in RevealPhases
  PROVE  LogPlaced(m)
BY DEF LogPlaced, EntryPlaced, AtPhases, QuestionPhases, RevealPhases, Asked

\* At the end of a round, and of the quiz.
LEMMA PlacedElsewhere ==
  ASSUME NEW m, m.phase \notin AtPhases, m.phase # "lobby",
         m.phase = "round_intro" => \A i \in DOMAIN m.log : m.log[i].at[1] < m.round,
         m.phase = "leaderboard" => \A i \in DOMAIN m.log : m.log[i].at[1] <= m.round
  PROVE  LogPlaced(m)
BY DEF LogPlaced, EntryPlaced

LEMMA LevelHere ==
  ASSUME NEW d, NEW s, Level(d, s)
  PROVE  /\ LogPlaced(s.live) /\ Good(s) /\ s \in Steps
         /\ s.live \in Lives /\ Passes(s.live, s.live)
         /\ Lands(d, s) \in Stores /\ Lands(d, s).row = Row(s.live)
<1>1. s.live.phaseId \in Nat /\ SameRow(s.live, Lands(d, s).row) /\ Good(s)
  BY GoodTypes DEF Level, Tells, Fits, Mirrors
<1> QED BY <1>1, SameRowPlaced, GoodTypes, SameWritesLand
        DEF Level, Base, Passes

\* From here to a phase of the same question.
LEMMA ComesHereSound ==
  ASSUME NEW d, NEW s, Level(d, s), NEW phase, NEW t, Good(t), t.writes = s.writes,
         Comes(s.live, t.live, phase, s.live.round, s.live.question), Here(s.live),
         s.live.phase \in AtPhases, phase \in AtPhases,
         s.live.phase \in RevealPhases <=> phase \in RevealPhases,
         Suits(s.live, phase)
  PROVE  Sound(d, t)
<1> DEFINE l == s.live
           m == t.live
<1>1. LogPlaced(l) /\ Here(l) /\ Suits(l, phase)
  BY LevelHere
<1> HIDE DEF l, m
<1>2. Passes(l, m) /\ m.phase = phase /\ m.round = l.round /\ m.question = l.question
  BY DEF Comes, l, m
<1>3. Cursor(m) = Cursor(l) /\ m.log = l.log /\ m.play = l.play
  BY <1>2 DEF Cursor, Passes
<1>4. LogPlaced(m)
  BY <1>1, <1>2, <1>3, PlacedHere DEF l
<1>5. Here(m)
  BY <1>1, <1>2, <1>3 DEF Here, l, AtPhases, RevealPhases, QuestionPhases
<1>6. Suits(m, m.phase)
  BY <1>1, <1>2, <1>3 DEF Suits
<1> QED BY <1>2, <1>4, <1>5, <1>6, PassesSound DEF l, m, PhaseFits

\* From here to where no question is.
LEMMA ComesElsewhereSound ==
  ASSUME NEW d, NEW s, Level(d, s), NEW phase, NEW round, NEW question, NEW t, Good(t),
         t.writes = s.writes, Comes(s.live, t.live, phase, round, question),
         phase \notin AtPhases, phase # "lobby",
         phase = "round_intro" => \A i \in DOMAIN s.live.log : s.live.log[i].at[1] < round,
         phase = "leaderboard" => \A i \in DOMAIN s.live.log : s.live.log[i].at[1] <= round
  PROVE  Sound(d, t)
<1>1. Passes(s.live, t.live) /\ t.live.phase = phase /\ t.live.round = round
      /\ t.live.log = s.live.log
  BY DEF Comes, Passes
<1>2. LogPlaced(t.live)
  BY <1>1, PlacedElsewhere
<1>3. PhaseFits(t.live)
  BY <1>1 DEF PhaseFits, Here, Suits, AtPhases, QuestionPhases, RevealPhases
<1> QED BY <1>1, <1>2, <1>3, PassesSound


\* One change of phase after another.
LEMMA ComesOn ==
  ASSUME NEW l \in Lives, NEW m \in Lives, NEW n \in Lives, Passes(l, m),
         NEW phase, NEW round, NEW question, Comes(m, n, phase, round, question)
  PROVE  Comes(l, n, phase, round, question)
BY DEF Comes, Passes, Lives

LEMMA StoppedPasses ==
  ASSUME NEW s \in Steps, NEW status \in Open \cup Closed,
         NEW t, t = [s EXCEPT !.live.status = status, !.timer = None]
  PROVE  t \in Steps /\ t.live.status = status /\ t.writes = s.writes /\ Passes(s.live, t.live)
<1> DEFINE m == [s.live EXCEPT !.status = status]
<1>3. s.live \in Lives /\ s.live.phaseId \in Nat
  BY CursorTyped DEF Lives
<1>4. /\ m \in Lives /\ m.status = status /\ m.play = s.live.play /\ m.log = s.live.log
      /\ m.joined = s.live.joined /\ m.removed = s.live.removed
      /\ m.extraTime = s.live.extraTime /\ m.score = s.live.score
      /\ m.hasScored = s.live.hasScored /\ m.phaseId = s.live.phaseId
  BY <1>3 DEF Lives
<1>1. m \in Lives /\ m.status = status /\ Passes(s.live, m)
  BY <1>3, <1>4 DEF Passes
<1>2. t = [s EXCEPT !.live = m, !.timer = None]
  OBVIOUS
<1> HIDE DEF m
<1> QED BY <1>1, <1>2 DEF Steps, Maybe

----------------------------------------------------------------------------
(* Where the host goes next. *)

LEMMA OpenAnswersSound ==
  ASSUME NEW d, NEW s, Sound(d, s), InPlay(s), s.live.phase = "read"
  PROVE  Sound(d, OpenAnswers(s))
<1> DEFINE u == Timed(s, "open")
<1>1. Good(u)
  BY TimedGood DEF InPlay
<1>2. u.writes = s.writes /\ Comes(s.live, u.live, "open", s.live.round, s.live.question)
  <2>1. "open" \in Phases /\ s \in Steps
    BY PhaseFacts DEF QuestionPhases, InPlay
  <2> QED BY <2>1, TimedComes
<1>3. Suits(s.live, "open") /\ Here(s.live)
  BY DEF Sound, PhaseFits, Suits
<1> HIDE DEF u
<1>4. Sound(d, u)
  BY <1>1, <1>2, <1>3, ComesHereSound DEF Sound, AtPhases, QuestionPhases, RevealPhases
<1> QED BY <1>4, SavedSound DEF OpenAnswers, u

LEMMA ShowScoresSound ==
  ASSUME NEW d, NEW s, Sound(d, s), s.live.status = "running", s.live.phase = "reveal"
  PROVE  Sound(d, ShowScores(s))
<1> DEFINE u == Untimed(s, "scores", s.live.round, s.live.question)
<1>1. s \in Steps /\ LiveOK(s.live)
  BY LevelHere DEF Sound, Good
<1>2. Cursor(s.live) \in Questions
  BY <1>1 DEF LiveOK, Placed, AtQuestion
<1>3. "scores" \in Phases /\ "scores" \notin TimedPhases \cup QuestionPhases
  BY DEF Phases, TimedPhases, QuestionPhases
<1>4. Good(u)
  BY <1>1, <1>2, <1>3, CursorTyped, UntimedGood DEF Cursor
<1>5. u.writes = s.writes /\ Comes(s.live, u.live, "scores", s.live.round, s.live.question)
  BY <1>1, <1>3, CursorTyped, UntimedComes
<1>6. Suits(s.live, "scores") /\ Here(s.live)
  BY DEF Sound, PhaseFits, Suits
<1> HIDE DEF u
<1>7. Sound(d, u)
  BY <1>4, <1>5, <1>6, ComesHereSound DEF Sound, AtPhases, RevealPhases
<1> QED BY <1>7, SavedSound DEF ShowScores, u

LEMMA OpenRoundIntroSound ==
  ASSUME NEW d, NEW s, Level(d, s), s.live.status = "running", NEW r \in 1..Len(Rounds),
         \A i \in DOMAIN s.live.log : s.live.log[i].at[1] < r
  PROVE  Sound(d, OpenRoundIntro(s, r))
<1> DEFINE u == Untimed(s, "round_intro", r, None)
<1>1. /\ "round_intro" \in Phases /\ "round_intro" \notin TimedPhases \cup QuestionPhases
      /\ "round_intro" \notin AtPhases
  BY DEF Phases, TimedPhases, QuestionPhases, AtPhases, RevealPhases
<1>2. r \in Maybe(1..Len(Rounds)) /\ None \in Maybe(Nat) /\ s \in Steps
  BY LevelHere DEF Maybe
<1>3. Good(u)
  BY <1>1, <1>2, UntimedGood
<1>4. u.writes = s.writes /\ Comes(s.live, u.live, "round_intro", r, None)
  BY <1>1, <1>2, UntimedComes
<1> HIDE DEF u
<1>5. Sound(d, u)
  BY <1>1, <1>3, <1>4, ComesElsewhereSound
<1> QED BY <1>5, SavedSound DEF OpenRoundIntro, u

LEMMA ShowLeaderboardSound ==
  ASSUME NEW d, NEW s, Level(d, s), s.live.status = "running",
         s.live.round \in 1..Len(Rounds), ~IsLastRound(s.live.round),
         \A i \in DOMAIN s.live.log : s.live.log[i].at[1] <= s.live.round
  PROVE  Sound(d, ShowLeaderboard(s))
<1> DEFINE u == Untimed(s, "leaderboard", s.live.round, None)
<1>1. /\ "leaderboard" \in Phases /\ "leaderboard" \notin TimedPhases \cup QuestionPhases
      /\ "leaderboard" \notin AtPhases
  BY DEF Phases, TimedPhases, QuestionPhases, AtPhases, RevealPhases
<1>2. s.live.round + 1 \in 1..Len(Rounds) /\ s \in Steps
  BY QuizFacts, LevelHere DEF IsLastRound
<1>3. Good(u)
  BY <1>1, <1>2, CursorTyped, UntimedGood
<1>4. u.writes = s.writes /\ Comes(s.live, u.live, "leaderboard", s.live.round, None)
  BY <1>1, <1>2, CursorTyped, UntimedComes
<1> HIDE DEF u
<1>5. Sound(d, u)
  BY <1>1, <1>3, <1>4, ComesElsewhereSound
<1> QED BY <1>5, SavedSound DEF ShowLeaderboard, u

\* The podium, and the end.
LEMMA LastPhaseSound ==
  ASSUME NEW d, NEW s, Level(d, s), NEW status \in Open \cup Closed, status # "lobby",
         NEW phase \in {"podium", "ended"}
  PROVE  Sound(d, Saved(Untimed([s EXCEPT !.live.status = status, !.timer = None],
                                phase, None, None)))
<1> DEFINE t == [s EXCEPT !.live.status = status, !.timer = None]
           u == Untimed(t, phase, None, None)
<1>1. /\ phase \in Phases /\ phase \notin TimedPhases \cup QuestionPhases
      /\ phase \notin AtPhases
  BY DEF Phases, TimedPhases, QuestionPhases, AtPhases, RevealPhases
<1>8. s \in Steps /\ s.live \in Lives
  BY LevelHere
<1>2. t \in Steps /\ t.live.status = status /\ t.writes = s.writes /\ Passes(s.live, t.live)
  BY <1>8, StoppedPasses
<1> HIDE DEF t
<1>3. Good(u)
  BY <1>1, <1>2, CursorTyped, UntimedGood
<1>4. u.writes = s.writes /\ Comes(t.live, u.live, phase, None, None)
  BY <1>1, <1>2, CursorTyped, UntimedComes
<1>5. u.live \in Lives /\ t.live \in Lives
  BY <1>2, <1>3, CursorTyped DEF Good
<1> HIDE DEF u
<1>6. Comes(s.live, u.live, phase, None, None)
  BY <1>2, <1>4, <1>5, <1>8, ComesOn
<1>7. Sound(d, u)
  BY <1>1, <1>3, <1>4, <1>6, ComesElsewhereSound
<1> QED BY <1>7, SavedSound DEF u, t

LEMMA ShowPodiumSound ==
  ASSUME NEW d, NEW s, Level(d, s)
  PROVE  Sound(d, ShowPodium(s))
BY LastPhaseSound DEF ShowPodium, Open

LEMMA EndSessionSound ==
  ASSUME NEW d, NEW s, Level(d, s), NEW status \in Closed
  PROVE  Sound(d, EndSession(s, status))
BY LastPhaseSound DEF EndSession, Closed


\* The same moment of the same question.
LEMMA StaysSound ==
  ASSUME NEW d, NEW s, Sound(d, s), NEW t, Good(t), t.writes = s.writes,
         Comes(s.live, t.live, s.live.phase, s.live.round, s.live.question)
  PROVE  Sound(d, t)
<1> DEFINE l == s.live
           m == t.live
<1>1. LogPlaced(l) /\ PhaseFits(l)
  BY LevelHere DEF Sound
<1> HIDE DEF l, m
<1>2. /\ Passes(l, m) /\ m.phase = l.phase /\ m.round = l.round /\ m.question = l.question
      /\ m.log = l.log /\ m.play = l.play /\ Cursor(m) = Cursor(l)
  BY DEF Comes, l, m, Passes, Cursor
<1>3. LogPlaced(m) /\ PhaseFits(m)
  BY <1>1, <1>2 DEF LogPlaced, EntryPlaced, Asked, PhaseFits, Here, Suits
<1> QED BY <1>2, <1>3, PassesSound DEF Sound, l, m

LEMMA ArmedSound ==
  ASSUME NEW d, NEW s, Sound(d, s)
  PROVE  Sound(d, Armed(s))
<1> DEFINE t == Armed(s)
<1>1. s \in Steps /\ Good(s) /\ Passes(s.live, s.live)
  BY LevelHere DEF Sound
<1>2. t \in Steps /\ t.live = s.live /\ t.writes = s.writes
  BY <1>1, ArmedFacts
<1> HIDE DEF t
<1>3. Good(t) /\ Comes(s.live, t.live, s.live.phase, s.live.round, s.live.question)
  BY <1>1, <1>2 DEF Good, Comes
<1> QED BY <1>2, <1>3, StaysSound DEF t

\* Writes that name no question leave the answers and the votes.
LEMMA BareCells ==
  ASSUME NEW d \in Stores, NEW w, Bare(w), w.question = None, NEW x \in Questions, NEW p \in Players
  PROVE  /\ AnswerCell(d, w, x, p) =
              IF p \in DOMAIN w.removed /\ d.answers[x][p] # None
              THEN [d.answers[x][p] EXCEPT !.hidden = TRUE] ELSE d.answers[x][p]
         /\ VoteCell(d, w, x, p) = d.votes[x][p]
<1>1. ~w.wipe /\ w.shown = {} /\ DOMAIN w.answers = {} /\ DOMAIN w.votes = {}
      /\ DOMAIN w.hidden = {} /\ DOMAIN w.points = {}
  BY DEF Bare
<1>2. d.answers[x][p] \in Maybe(AnswerRows)
  BY DEF Stores
<1>3. x = w.question => AnswerRow(d, w, p) = d.answers[x][p]
  <2>1. SUFFICES ASSUME x = w.question PROVE AnswerRow(d, w, p) = d.answers[x][p]
    OBVIOUS
  <2>2. CASE d.answers[x][p] = None
    BY <1>1, <2>1, <2>2 DEF AnswerRow
  <2>3. CASE d.answers[x][p] # None
    <3>1. d.answers[x][p] \in AnswerRows
      BY <1>2, <2>3 DEF Maybe
    <3> DEFINE a == d.answers[x][p]
    <3>2. [a EXCEPT !.shown = @, !.hidden = @, !.points = @] = a
      BY <3>1 DEF AnswerRows
    <3>3. AnswerRow(d, w, p) = [a EXCEPT !.shown = @, !.hidden = @, !.points = @]
      <4>1. a \in AnswerRows /\ a # None /\ a.shown \in BOOLEAN
        BY <2>3, <3>1 DEF AnswerRows
      <4>2. AnswerRow(d, w, p) = [a EXCEPT !.shown = @ \/ FALSE, !.hidden = @, !.points = @]
        BY <1>1, <2>1, <2>3 DEF AnswerRow
      <4> QED BY <4>1, <4>2
    <3> QED BY <3>2, <3>3
  <2> QED BY <2>2, <2>3
<1>4. x = w.question => VoteRow(d, w, p) = d.votes[x][p]
  BY <1>1 DEF VoteRow
<1> QED BY <1>3, <1>4 DEF AnswerCell, VoteCell

LEMMA NothingOver ==
  ASSUME NEW V, NEW g \in [Players -> V], NEW f, DOMAIN f = {}
  PROVE  Over(f, g) = g
BY DEF Over

NothingYet(w) ==
  /\ w.question = None /\ Bare(w) /\ DOMAIN w.removed = {} /\ DOMAIN w.joined = {}
  /\ DOMAIN w.extraTime = {} /\ DOMAIN w.scores = {}

LEMMA NoWritesYet == NothingYet(NoWrites)
BY DEF NothingYet, NoWrites, Bare

LEMMA NothingLands ==
  ASSUME NEW d \in Stores, d.row.status \in Open, NEW s, Good(s), NothingYet(s.writes)
  PROVE  /\ Tells(d, s) /\ Lands(d, s) \in Stores /\ Lands(d, s).row = Row(s.live)
         /\ Lands(d, s).joined = d.joined /\ Lands(d, s).removed = d.removed
         /\ Lands(d, s).extraTime = d.extraTime /\ Lands(d, s).score = d.score
         /\ SameCells(d, Lands(d, s))
<1> DEFINE e == Lands(d, s)
           w == s.writes
<1>1. ~Conflicts(d, w) /\ Bare(w)
  BY DEF NothingYet, Conflicts
<1>2. Tells(d, s)
  BY <1>1 DEF Tells
<1>3. /\ e \in Stores /\ e.row = Row(s.live)
      /\ e.joined = Over(w.joined, d.joined) /\ e.removed = Over(w.removed, d.removed)
      /\ e.extraTime = Over(w.extraTime, d.extraTime) /\ e.score = Over(w.scores, d.score)
      /\ \A x \in Questions, p \in Players :
           e.answers[x][p] = AnswerCell(d, w, x, p) /\ e.votes[x][p] = VoteCell(d, w, x, p)
  BY <1>1, LandsFields
<1>4. NothingYet(w)
  OBVIOUS
<1> HIDE DEF e, w
<1>5. SameCells(d, e)
  BY <1>1, <1>3, <1>4, BareCells DEF SameCells, NothingYet
<1>6. /\ e.joined = d.joined /\ e.removed = d.removed
      /\ e.extraTime = d.extraTime /\ e.score = d.score
  BY <1>3, <1>4, NothingOver, ZenonT(60) DEF NothingYet, Stores, Positions
<1> QED BY <1>2, <1>3, <1>5, <1>6 DEF e

\* A command begins with the memory and the rows as they are.
LEMMA StartSound ==
  ASSUME NEW d \in Stores, d.row.status \in Open, Base(d), NEW s, Good(s), NothingYet(s.writes),
         s.live.log = d.row.log, s.live.phase = d.row.phase, s.live.round = d.row.round,
         s.live.question = d.row.question, s.live.phaseId = d.row.phaseId,
         s.live.joined = d.joined, s.live.removed = d.removed,
         s.live.extraTime = d.extraTime, s.live.score = d.score,
         s.live.hasScored <=> \E i \in DOMAIN d.row.log : d.row.log[i].revealed # None,
         s.live.play # None => PlayOf(s.live.play, d), PhaseFits(s.live)
  PROVE  Sound(d, s)
<1> DEFINE e == Lands(d, s)
           l == s.live
<1>1. /\ Tells(d, s) /\ e \in Stores /\ e.row = Row(l)
      /\ e.joined = d.joined /\ e.removed = d.removed
      /\ e.extraTime = d.extraTime /\ e.score = d.score /\ SameCells(d, e)
  BY NothingLands
<1> HIDE DEF e
<1>2. /\ l \in Lives /\ SameRow(l, e.row) /\ e.row.log = d.row.log /\ e.row.phaseId = d.row.phaseId
      /\ d.row.phaseId \in Nat
  BY <1>1, GoodTypes DEF Row
<1>3. Alike(d, e)
  BY <1>1, <1>2 DEF Alike, SameEntries
<1>4. Accounts(e)
  BY <1>1, <1>2, <1>3, AlikeAccounts DEF Base
<1>5. LogPlaced(e.row)
  <2>1. LogPlaced(l)
    BY DEF Base, LogPlaced, EntryPlaced, Cursor, Asked
  <2> QED BY <1>2, <2>1, SameRowPlaced
<1>6. Mirrors(l, e)
  BY <1>1, <1>2 DEF Mirrors
<1>7. l.play # None => PlayOf(l.play, e)
  BY <1>1, <1>2, <1>3, PlayAt, AlikePlay
<1> QED BY <1>1, <1>4, <1>5, <1>6, <1>7 DEF Sound, Level, Base, Fits, e


----------------------------------------------------------------------------
(* The clock, pauses and the start. *)

\* The clock and the status apart, the state stays as it is.
LEMMA Unmoved ==
  ASSUME NEW s \in Steps, NEW m \in Lives,
         m.phase = s.live.phase, m.round = s.live.round, m.question = s.live.question,
         m.play = s.live.play, m.log = s.live.log, m.joined = s.live.joined,
         m.removed = s.live.removed, m.extraTime = s.live.extraTime, m.score = s.live.score,
         m.hasScored = s.live.hasScored, m.phaseId = s.live.phaseId
  PROVE  Comes(s.live, m, s.live.phase, s.live.round, s.live.question)
<1>1. s.live.phaseId \in Nat
  BY CursorTyped DEF Lives
<1> QED BY <1>1 DEF Comes, Passes

\* Nothing of the log or of the cursor is touched.
StaysAt(l, m) ==
  m.log = l.log /\ m.phase = l.phase /\ m.round = l.round /\ m.question = l.question

LEMMA PausedSound ==
  ASSUME NEW d, NEW s, Sound(d, s), s.live.status = "running"
  PROVE  Sound(d, Paused(s)) /\ StaysAt(s.live, Paused(s).live)
<1> DEFINE here    == [s.live EXCEPT !.status = "paused"]
           stopped == [here EXCEPT !.pausedLeft = here.deadline, !.pausedExtra = here.extraDeadline,
                                   !.deadline = None, !.extraDeadline = None]
           t       == [s EXCEPT !.live = here]
           u       == [s EXCEPT !.live = stopped, !.timer = None]
<1>1. s \in Steps /\ s.live \in Lives /\ Good(s)
  BY LevelHere DEF Sound
<1>2. Good(Paused(s))
  BY <1>1, PausedGood
<1>3. Paused(s) = Saved(u) \/ Paused(s) = Saved(t)
  BY DEF Paused
<1>4. /\ here \in Lives
      /\ Comes(s.live, here, s.live.phase, s.live.round, s.live.question)
      /\ here.deadline \in Maybe(Int) /\ here.extraDeadline \in Maybe(Int)
  <2>1. here \in Lives
    BY <1>1 DEF Lives, Open
  <2>2. /\ here.phase = s.live.phase /\ here.round = s.live.round
        /\ here.question = s.live.question
        /\ here.play = s.live.play /\ here.log = s.live.log /\ here.joined = s.live.joined
        /\ here.removed = s.live.removed /\ here.extraTime = s.live.extraTime
        /\ here.score = s.live.score
        /\ here.hasScored = s.live.hasScored /\ here.phaseId = s.live.phaseId
        /\ here.deadline \in Maybe(Int) /\ here.extraDeadline \in Maybe(Int)
    BY <1>1 DEF Lives
  <2> HIDE DEF here
  <2> QED BY <1>1, <2>1, <2>2, Unmoved
<1> HIDE DEF here
<1>5. /\ stopped \in Lives
      /\ Comes(s.live, stopped, s.live.phase, s.live.round, s.live.question)
  <2>1. stopped \in Lives
    BY <1>4 DEF Lives, Maybe
  <2>2. /\ stopped.phase = here.phase /\ stopped.round = here.round
        /\ stopped.question = here.question
        /\ stopped.play = here.play /\ stopped.log = here.log /\ stopped.joined = here.joined
        /\ stopped.removed = here.removed /\ stopped.extraTime = here.extraTime
        /\ stopped.score = here.score
        /\ stopped.hasScored = here.hasScored /\ stopped.phaseId = here.phaseId
    BY <1>4 DEF Lives
  <2> HIDE DEF stopped
  <2> QED BY <1>4, <2>1, <2>2 DEF Comes, Passes
<1> HIDE DEF stopped
<1>6. t \in Steps /\ t.live = here /\ t.writes = s.writes
  BY <1>1, <1>4, WithLive
<1>7. u \in Steps /\ u.live = stopped /\ u.writes = s.writes
  BY <1>1, <1>5 DEF Steps, Maybe
<1> HIDE DEF t, u
<1>8. CASE Paused(s) = Saved(t)
  BY <1>2, <1>4, <1>6, <1>8, SavedFacts, StaysSound DEF Comes, Passes, StaysAt
<1>9. CASE Paused(s) = Saved(u)
  BY <1>2, <1>5, <1>7, <1>9, SavedFacts, StaysSound DEF Comes, Passes, StaysAt
<1> QED BY <1>3, <1>8, <1>9

LEMMA ResumedSound ==
  ASSUME NEW d, NEW s, Sound(d, s), s.live.status = "paused",
         ~(s.live.recovery /\ s.live.phase \in QuestionPhases)
  PROVE  Sound(d, Resumed(s)) /\ StaysAt(s.live, Resumed(s).live)
<1> DEFINE here == s.live
           moved == [here EXCEPT !.deadline = here.pausedLeft, !.extraDeadline = here.pausedExtra]
           back == IF here.pausedLeft = None THEN here ELSE moved
           on   == [back EXCEPT !.pausedLeft = None, !.pausedExtra = None,
                                !.recovery = FALSE, !.status = "running"]
           t    == [s EXCEPT !.live = on]
<1>1. s \in Steps /\ here \in Lives /\ Good(s)
  BY LevelHere DEF Sound
<1>2. Good(Resumed(s))
  BY <1>1, ResumedGood
<1>3. Resumed(s) = Saved(Armed(t))
  BY DEF Resumed
<1>4. moved \in Lives /\ Comes(here, moved, here.phase, here.round, here.question)
  <2>1. moved \in Lives
    BY <1>1 DEF Lives
  <2>2. /\ moved.phase = here.phase /\ moved.round = here.round
        /\ moved.question = here.question
        /\ moved.play = here.play /\ moved.log = here.log /\ moved.joined = here.joined
        /\ moved.removed = here.removed /\ moved.extraTime = here.extraTime
        /\ moved.score = here.score
        /\ moved.hasScored = here.hasScored /\ moved.phaseId = here.phaseId
    BY <1>1 DEF Lives
  <2> HIDE DEF moved
  <2> QED BY <1>1, <2>1, <2>2, Unmoved
<1>5. Comes(here, here, here.phase, here.round, here.question)
  BY <1>1, Unmoved
<1> HIDE DEF moved
<1>6. back \in Lives /\ Comes(here, back, here.phase, here.round, here.question)
  BY <1>1, <1>4, <1>5
<1> HIDE DEF back
<1>7. on \in Lives /\ Comes(here, on, here.phase, here.round, here.question)
  <2>1. on \in Lives
    BY ZenonT(60), <1>6 DEF Lives, Maybe, Open
  <2>2. /\ on.phase = back.phase /\ on.round = back.round
        /\ on.question = back.question
        /\ on.play = back.play /\ on.log = back.log /\ on.joined = back.joined
        /\ on.removed = back.removed /\ on.extraTime = back.extraTime
        /\ on.score = back.score
        /\ on.hasScored = back.hasScored /\ on.phaseId = back.phaseId
    BY <1>6 DEF Lives
  <2> HIDE DEF on
  <2> QED BY <1>6, <2>1, <2>2 DEF Comes, Passes
<1> HIDE DEF on, here
<1>8. t \in Steps /\ t.live = on /\ t.writes = s.writes
  BY <1>1, <1>7, WithLive
<1> HIDE DEF t
<1>9. Armed(t) \in Steps /\ Armed(t).live = on /\ Armed(t).writes = s.writes
  BY <1>8, ArmedFacts
<1>10. Resumed(s).live = on /\ Resumed(s).writes = s.writes
  BY <1>3, <1>9, SavedFacts
<1> QED BY <1>2, <1>7, <1>10, StaysSound DEF here, Comes, Passes, StaysAt

LEMMA TimeAddedSound ==
  ASSUME NEW d, NEW s, Sound(d, s), s.live.deadline # None, NEW time \in Int
  PROVE  Sound(d, TimeAdded(s, time)) /\ StaysAt(s.live, TimeAdded(s, time).live)
<1> DEFINE here == s.live
           more == IF here.extraDeadline = None THEN None ELSE here.extraDeadline + time
           m    == [here EXCEPT !.deadline = here.deadline + time, !.extraDeadline = more]
           t    == [s EXCEPT !.live = m]
<1>1. s \in Steps /\ here \in Lives /\ Good(s)
  BY LevelHere DEF Sound
<1>2. Good(TimeAdded(s, time))
  BY <1>1, TimeAddedGood
<1>3. here.deadline + time \in Maybe(Int) /\ more \in Maybe(Int)
  BY <1>1, NoneAssumption DEF Lives, Maybe
<1>4. TimeAdded(s, time) = Saved(Armed(t))
  BY DEF TimeAdded
<1> HIDE DEF more
<1>5. m \in Lives /\ Comes(here, m, here.phase, here.round, here.question)
  <2>1. m \in Lives
    BY <1>1, <1>3 DEF Lives
  <2>2. /\ m.phase = here.phase /\ m.round = here.round /\ m.question = here.question
        /\ m.play = here.play /\ m.log = here.log /\ m.joined = here.joined
        /\ m.removed = here.removed /\ m.extraTime = here.extraTime
        /\ m.score = here.score
        /\ m.hasScored = here.hasScored /\ m.phaseId = here.phaseId
    BY <1>1 DEF Lives
  <2> HIDE DEF m
  <2> QED BY <1>1, <2>1, <2>2, Unmoved
<1> HIDE DEF m, here
<1>6. t \in Steps /\ t.live = m /\ t.writes = s.writes
  BY <1>1, <1>5, WithLive DEF here
<1> HIDE DEF t
<1>7. Armed(t) \in Steps /\ Armed(t).live = m /\ Armed(t).writes = s.writes
  BY <1>6, ArmedFacts
<1>8. TimeAdded(s, time).live = m /\ TimeAdded(s, time).writes = s.writes
  BY <1>4, <1>7, SavedFacts
<1> QED BY <1>2, <1>5, <1>8, StaysSound DEF here, Comes, Passes, StaysAt

\* A session that starts, before its first round is shown.
LEMMA WithStatusLevel ==
  ASSUME NEW d, NEW s, Sound(d, s), s.live.status = "lobby",
         NEW t, t = [s EXCEPT !.live.status = "running"]
  PROVE  Sound(d, t) /\ t.live.status = "running" /\ StaysAt(s.live, t.live)
<1> DEFINE m == [s.live EXCEPT !.status = "running"]
<1>1. s \in Steps /\ s.live \in Lives /\ Good(s)
  BY LevelHere DEF Sound
<1>2. m \in Lives /\ Comes(s.live, m, s.live.phase, s.live.round, s.live.question)
      /\ m.status = "running" /\ m.phase = s.live.phase /\ m.log = s.live.log
  <2>1. m \in Lives
    BY <1>1 DEF Lives, Open
  <2>2. /\ m.phase = s.live.phase /\ m.round = s.live.round /\ m.question = s.live.question
        /\ m.play = s.live.play /\ m.log = s.live.log /\ m.joined = s.live.joined
        /\ m.removed = s.live.removed /\ m.extraTime = s.live.extraTime
        /\ m.score = s.live.score /\ m.status = "running"
        /\ m.hasScored = s.live.hasScored /\ m.phaseId = s.live.phaseId
    BY <1>1 DEF Lives
  <2> HIDE DEF m
  <2> QED BY <1>1, <2>1, <2>2, Unmoved
<1>3. t = [s EXCEPT !.live = m]
  OBVIOUS
<1> HIDE DEF m
<1>4. t \in Steps /\ t.live = m /\ t.writes = s.writes
  BY <1>1, <1>2, <1>3, WithLive
<1>5. s.live.phase = "lobby"
  BY <1>1 DEF Good, LiveOK, Placed, InLobby
<1>6. LiveOK(m)
  BY <1>2, <1>5 DEF LiveOK, Placed, AtQuestion, AtRound, InLobby, PlayKept, OnTheClock,
         QuestionPhases, TimedPhases, SubmissionPhases
<1>7. Sound(d, t)
  BY <1>2, <1>4, <1>6, StaysSound DEF Good
<1> QED BY <1>2, <1>4, <1>7 DEF Comes, Passes, StaysAt


----------------------------------------------------------------------------
(* A question opens. *)

NewEntry(l, x) == [at |-> x, opened |-> l.phaseId + 1, revealed |-> None, skipped |-> FALSE]

\* What opening question x makes of state l.
Opens(l, m, x) ==
  /\ m.play = NewPlay(l, x) /\ m.log = Append(l.log, NewEntry(l, x))
  /\ m.phaseId = l.phaseId + 1 /\ m.phase = (IF IsParty(x) THEN "write" ELSE "read")
  /\ Cursor(m) = x
  /\ m.joined = l.joined /\ m.removed = l.removed /\ m.extraTime = l.extraTime
  /\ m.score = l.score /\ m.hasScored = l.hasScored

LEMMA OpenQuestionOpens ==
  ASSUME NEW s \in Steps, NEW x \in Questions
  PROVE  OpenQuestion(s, x).writes = s.writes /\ Opens(s.live, OpenQuestion(s, x).live, x)
<1> DEFINE u == OpenQuestion(s, x)
           entry == NewEntry(s.live, x)
           play  == NewPlay(s.live, x)
           log   == Append(s.live.log, entry)
           m     == [s.live EXCEPT !.play = play, !.log = log]
           t     == [s EXCEPT !.live = m]
           a     == IF IsParty(x) THEN Advance(t, "write", x[1], x[2], AnswerTime, ExtraTime)
                    ELSE Advance(t, "read", x[1], x[2], ReadTime, None)
           phase == IF IsParty(x) THEN "write" ELSE "read"
<1>1. s.live \in Lives
  BY DEF Steps
<1>2. play \in Plays
  BY <1>1, NewPlayTyped
<1>3. log \in Seq(Entries)
  <2>1. entry \in Entries
    BY <1>1 DEF Entries, Lives, Maybe, NewEntry
  <2> QED BY <1>1, <2>1 DEF Lives
<1>4. u = Saved(Armed(a))
  <2>1. t = [s EXCEPT !.live.play = play, !.live.log = log]
    OBVIOUS
  <2> HIDE DEF m
  <2> QED BY <2>1 DEF OpenQuestion, NewEntry
<1> HIDE DEF play, entry
<1>5. /\ m \in Lives /\ m.play = play /\ m.log = log
      /\ m.phaseId = s.live.phaseId /\ m.joined = s.live.joined
      /\ m.removed = s.live.removed /\ m.extraTime = s.live.extraTime
      /\ m.score = s.live.score /\ m.hasScored = s.live.hasScored
  <2> HIDE DEF log
  <2>1. m \in Lives
    BY <1>1, <1>2, <1>3, Zenon DEF Lives, Maybe
  <2> QED BY <1>1, <2>1, Zenon DEF Lives
<1> HIDE DEF m, log
<1>6. t \in Steps /\ t.live = m /\ t.writes = s.writes
  BY <1>5, WithLive
<1> HIDE DEF t
<1>7. x[1] \in Maybe(1..Len(Rounds)) /\ x[2] \in Maybe(Nat) /\ x = <<x[1], x[2]>>
  BY QuestionPlace DEF Maybe
<1>8. /\ ReadTime \in Maybe(Int) /\ AnswerTime \in Maybe(Int) /\ ExtraTime \in Maybe(Int)
      /\ None \in Maybe(Int) /\ "write" \in Phases /\ "read" \in Phases
  BY TimeAssumption, PhaseFacts DEF Maybe, QuestionPhases
<1>9. /\ a \in Steps /\ a.writes = t.writes /\ a.live.play = m.play /\ a.live.log = m.log
      /\ a.live.phaseId = m.phaseId + 1 /\ a.live.phase = phase
      /\ a.live.round = x[1] /\ a.live.question = x[2]
      /\ a.live.joined = m.joined /\ a.live.removed = m.removed
      /\ a.live.extraTime = m.extraTime
      /\ a.live.score = m.score /\ a.live.hasScored = m.hasScored
  <2>1. CASE IsParty(x)
    <3>1. Arrives(a, t, "write", x[1], x[2], AnswerTime, ExtraTime)
      BY <1>6, <1>7, <1>8, <2>1, AdvanceFacts
    <3> HIDE DEF a
    <3> QED BY <1>6, <2>1, <3>1 DEF Arrives
  <2>2. CASE ~IsParty(x)
    <3>1. Arrives(a, t, "read", x[1], x[2], ReadTime, None)
      BY <1>6, <1>7, <1>8, <2>2, AdvanceFacts
    <3> HIDE DEF a
    <3> QED BY <1>6, <2>2, <3>1 DEF Arrives
  <2> QED BY <2>1, <2>2
<1> HIDE DEF a
<1>10. Armed(a) \in Steps /\ Armed(a).live = a.live /\ Armed(a).writes = a.writes
  BY <1>9, ArmedFacts
<1>11. u.live = a.live /\ u.writes = a.writes
  BY <1>4, <1>10, SavedFacts
<1> HIDE DEF u
<1>12. Opens(s.live, u.live, x)
  <2>1. Cursor(u.live) = x
    BY <1>7, <1>9, <1>11 DEF Cursor
  <2> QED BY <1>5, <1>9, <1>11, <2>1 DEF Opens, play, log, entry
<1> QED BY <1>6, <1>9, <1>11, <1>12 DEF u

\* The rows of a new question are those of a play nobody has answered.
LEMMA NewPlayFits ==
  ASSUME NEW f \in Stores, NEW l \in Lives, NEW x \in Questions,
         f.joined = l.joined, f.removed = l.removed, f.row.phaseId = l.phaseId + 1,
         \A p \in Players : /\ l.joined[p] # None => l.joined[p] <= l.phaseId
                            /\ l.removed[p] # None => l.removed[p] <= l.phaseId,
         \A p \in Players : f.answers[x][p] = None /\ f.votes[x][p] = None,
         NEW i \in DOMAIN f.row.log, f.row.log[i] = NewEntry(l, x)
  PROVE  PlayOf(NewPlay(l, x), f)
<1> DEFINE play == NewPlay(l, x)
           e == NewEntry(l, x)
<1>1. /\ play.at = x /\ play.eligible = Active(l) /\ ~play.scored /\ play.options = None
      /\ play.favourite = None
      /\ \A p \in Players : play.answers[p] = None /\ play.votes[p] = None
  BY DEF NewPlay
<1>2. e.at = x /\ e.opened = l.phaseId + 1 /\ e.revealed = None
  BY DEF NewEntry
<1>3. play.eligible = {p \in Players : /\ f.joined[p] # None /\ f.joined[p] < e.opened
                                       /\ f.removed[p] = None \/ f.removed[p] >= e.opened}
  <2>1. \A p \in Players : l.joined[p] \in Maybe(Nat) /\ l.removed[p] \in Maybe(Nat)
    BY DEF Lives, Positions
  <2>2. l.phaseId \in Nat
    BY DEF Lives
  <2> HIDE DEF play, e
  <2>3. \A p \in Players : (l.joined[p] # None /\ l.removed[p] = None) <=>
               /\ f.joined[p] # None /\ f.joined[p] < e.opened
               /\ f.removed[p] = None \/ f.removed[p] >= e.opened
    BY <1>2, <2>1, <2>2 DEF Maybe
  <2> QED BY <1>1, <2>3 DEF Active
<1> HIDE DEF play, e
<1>4. EntryFits(play, f, e)
  BY <1>1, <1>2, <1>3 DEF EntryFits
<1>5. \A p \in Players : Stored(play, f, p) /\ Fair(play, f, p)
  BY <1>1 DEF Stored, Fair, SameAnswer
<1>6. OptionsFit(play, f)
  BY <1>1 DEF OptionsFit, Offered, Shown
<1> QED BY <1>4, <1>5, <1>6 DEF PlayOf, play, e

LEMMA AppendAt ==
  ASSUME NEW log \in Seq(Entries), NEW e
  PROVE  /\ DOMAIN Append(log, e) = 1..(Len(log) + 1) /\ DOMAIN log = 1..Len(log)
         /\ Len(log) \in Nat /\ Len(log) + 1 \in DOMAIN Append(log, e)
         /\ Append(log, e)[Len(log) + 1] = e
         /\ \A i \in DOMAIN log : i \in DOMAIN Append(log, e) /\ Append(log, e)[i] = log[i]
         /\ \A i \in DOMAIN Append(log, e) : i \in DOMAIN log \/ i = Len(log) + 1
OBVIOUS

LEMMA OpenedAccounts ==
  ASSUME NEW d \in Stores, NEW f \in Stores, Accounts(d), NEW l \in Lives,
         SameRow(l, d.row), NEW x \in Questions, x \notin Asked(d.row.log),
         f.row.log = Append(d.row.log, NewEntry(l, x)), f.row.phaseId = d.row.phaseId + 1,
         f.joined = d.joined, f.removed = d.removed, f.score = d.score, SameCells(d, f)
  PROVE  Accounts(f)
<1> DEFINE n == Len(d.row.log) + 1
           e == NewEntry(l, x)
<1>1. d.row.log \in Seq(Entries) /\ d.row.phaseId \in Nat /\ l.phaseId = d.row.phaseId
  BY DEF Stores, Rows, RowTypes, SameRow
<1>2. /\ e.at = x /\ e.opened = d.row.phaseId + 1 /\ e.revealed = None
  BY <1>1 DEF NewEntry
<1> HIDE DEF e
<1>3. /\ n \in DOMAIN f.row.log /\ f.row.log[n] = e /\ n \notin DOMAIN d.row.log
      /\ \A i \in DOMAIN d.row.log : i \in DOMAIN f.row.log /\ f.row.log[i] = d.row.log[i]
      /\ \A i \in DOMAIN f.row.log : i \in DOMAIN d.row.log \/ i = n
  BY <1>1, AppendAt DEF e
<1> HIDE DEF n
<1>4. \A i \in DOMAIN d.row.log : d.row.log[i].opened \in Nat /\ d.row.log[i].revealed \in Maybe(Nat)
  BY LogEntry
<1>5. LogOK(f.row)
  <2>1. Once(f.row.log)
    BY SMTT(60), <1>2, <1>3 DEF Accounts, LogOK, Once, Asked
  <2>2. \A i \in DOMAIN f.row.log : EntryOK(f.row, f.row.log[i])
    <3> TAKE i \in DOMAIN f.row.log
    <3>1. CASE i = n
      BY <1>1, <1>2, <1>3, <3>1 DEF EntryOK
    <3>2. CASE i \in DOMAIN d.row.log
      BY SMTT(60), <1>1, <1>3, <1>4, <3>2 DEF EntryOK, Accounts, LogOK, Maybe
    <3> QED BY <1>3, <3>1, <3>2
  <2> QED BY <2>1, <2>2 DEF LogOK
<1>6. StampsOK(f)
  BY <1>1 DEF Accounts, StampsOK, Stores, Positions, Maybe
<1>7. Ahead(f)
  BY SMTT(60), <1>3 DEF Accounts, Ahead, Asked, SameCells
<1>8. Unpaid(f)
  <2> SUFFICES ASSUME NEW i \in DOMAIN f.row.log, f.row.log[i].revealed = None, NEW p \in Players,
                      f.answers[f.row.log[i].at][p] # None
               PROVE  f.answers[f.row.log[i].at][p].points = 0
    BY ZenonT(60) DEF Unpaid
  <2>1. CASE i = n
    BY SMTT(60), <1>2, <1>3, <2>1 DEF Accounts, Ahead, SameCells
  <2>2. CASE i \in DOMAIN d.row.log
    <3>1. f.row.log[i] = d.row.log[i] /\ d.row.log[i].at \in Questions
      BY <1>3, <2>2, LogEntry
    <3>2. f.answers[d.row.log[i].at][p] = d.answers[d.row.log[i].at][p]
      BY <3>1 DEF SameCells
    <3> QED BY ZenonT(60), <2>2, <3>1, <3>2 DEF Accounts, Unpaid
  <2> QED BY ZenonT(60), <1>3, <2>1, <2>2
<1>9. AddsUp(f)
  <2>1. \A y \in Questions, p \in Players : Seen(f, y, p) <=> Seen(d, y, p)
    BY <1>2, <1>3, SeenLater DEF Seen
  <2>2. \A y \in Questions, p \in Players : Held(f, y, p) = Held(d, y, p)
    BY <2>1 DEF Held, SameCells
  <2> QED BY <2>2, ScoresStay DEF Accounts
<1> QED BY <1>5, <1>6, <1>7, <1>8, <1>9 DEF Accounts


\* The log of a question just opened goes with its cursor.
LEMMA OpenedPlaced ==
  ASSUME NEW l \in Lives, NEW m, NEW x \in Questions, Opens(l, m, x),
         \A i \in DOMAIN l.log : UpTo(l.log[i].at, x), x \notin Asked(l.log)
  PROVE  LogPlaced(m) /\ PhaseFits(m)
<1> DEFINE n == Len(l.log) + 1
           e == NewEntry(l, x)
<1>1. l.log \in Seq(Entries)
  BY DEF Lives
<1>2. e.at = x /\ e.revealed = None /\ ~e.skipped
  BY DEF NewEntry
<1> HIDE DEF e
<1>3. /\ n \in DOMAIN m.log /\ m.log[n] = e
      /\ \A i \in DOMAIN m.log : i = n \/ (i \in DOMAIN l.log /\ m.log[i] = l.log[i])
  BY <1>1, AppendAt DEF Opens, e
<1> HIDE DEF n
<1>4. m.phase \in {"read", "write"} /\ Cursor(m) = x /\ m.play = NewPlay(l, x)
  BY DEF Opens
<1>5. m.play.at = x /\ m.play.options = None /\ (m.phase = "read" <=> ~IsParty(x))
  BY <1>4 DEF Opens, NewPlay
<1>6. UpTo(x, x)
  BY QuestionPlace DEF UpTo
<1>7. \A i \in DOMAIN m.log :
         /\ UpTo(m.log[i].at, x)
         /\ m.log[i].at = x => m.log[i].revealed = None /\ ~m.log[i].skipped
  BY <1>2, <1>3, <1>6 DEF Asked
<1>8. LogPlaced(m)
  <2>1. \A i \in DOMAIN m.log : EntryPlaced(m, m.log[i])
    BY <1>4, <1>7 DEF EntryPlaced, RevealPhases
  <2>2. x \in Asked(m.log)
    BY <1>2, <1>3 DEF Asked
  <2> QED BY <1>4, <2>1, <2>2 DEF LogPlaced
<1>9. PhaseFits(m)
  BY <1>4, <1>5, <1>7 DEF PhaseFits, Here, Suits, RevealPhases
<1> QED BY <1>8, <1>9

LEMMA OpenedSound ==
  ASSUME NEW d, NEW s, Tells(d, s), Accounts(Lands(d, s)), Mirrors(s.live, Lands(d, s)),
         NEW x \in Questions, x \notin Asked(s.live.log),
         \A i \in DOMAIN s.live.log : UpTo(s.live.log[i].at, x),
         NEW u, Good(u), u.writes = s.writes, Opens(s.live, u.live, x)
  PROVE  Sound(d, u)
<1> DEFINE l == s.live
           m == u.live
           e == Lands(d, s)
           f == Lands(d, u)
<1>1. s \in Steps /\ l \in Lives
  BY GoodTypes DEF Tells
<1>2. Good(u) /\ u.writes = s.writes /\ Opens(l, m, x)
  OBVIOUS
<1>3. /\ Tells(d, u) /\ f \in Stores /\ e \in Stores /\ f.row = Row(m) /\ SameCells(e, f)
      /\ f.joined = e.joined /\ f.removed = e.removed
      /\ f.extraTime = e.extraTime /\ f.score = e.score
  BY <1>2, SameWritesLand
<1>4. SameRow(m, f.row) /\ f.row.phaseId = m.phaseId /\ m \in Lives
  BY <1>2, <1>3, GoodTypes
<1>5. Accounts(e) /\ Mirrors(l, e) /\ \A i \in DOMAIN l.log : UpTo(l.log[i].at, x)
  OBVIOUS
<1> HIDE DEF e, f, m, l
<1>6. SameRow(l, e.row) /\ x \notin Asked(e.row.log) /\ x \notin Asked(l.log)
  BY <1>5 DEF Mirrors, SameRow, l
<1>7. f.row.log = Append(e.row.log, NewEntry(l, x)) /\ f.row.phaseId = e.row.phaseId + 1
      /\ f.row.phaseId = l.phaseId + 1
  BY <1>2, <1>4, <1>6 DEF Opens, SameRow
<1>13. \E n : /\ n \in DOMAIN f.row.log /\ f.row.log[n] = NewEntry(l, x)
              /\ \A i \in DOMAIN e.row.log : i \in DOMAIN f.row.log /\ f.row.log[i] = e.row.log[i]
              /\ \A i \in DOMAIN f.row.log : i \in DOMAIN e.row.log \/ i = n
  <2> DEFINE entry == NewEntry(l, x)
             log   == e.row.log
             n     == Len(log) + 1
  <2>1. log \in Seq(Entries) /\ f.row.log = Append(log, entry)
    BY <1>3, <1>7 DEF Stores, Rows, RowTypes
  <2> HIDE DEF entry, log
  <2>2. /\ n \in DOMAIN f.row.log /\ f.row.log[n] = entry
        /\ \A i \in DOMAIN log : i \in DOMAIN f.row.log /\ f.row.log[i] = log[i]
        /\ \A i \in DOMAIN f.row.log : i \in DOMAIN log \/ i = n
    BY <2>1, AppendAt
  <2> HIDE DEF n
  <2> QED BY <2>2 DEF entry, log
<1>8. Accounts(f)
  BY <1>1, <1>3, <1>5, <1>6, <1>7, OpenedAccounts
<1>9. LogPlaced(m) /\ PhaseFits(m)
  BY <1>1, <1>2, <1>5, <1>6, OpenedPlaced
<1>10. LogPlaced(f.row)
  BY <1>4, <1>9, SameRowPlaced
<1>11. PlayOf(m.play, f)
  <2>1. /\ f.joined = l.joined /\ f.removed = l.removed
        /\ \A p \in Players : /\ l.joined[p] # None => l.joined[p] <= l.phaseId
                              /\ l.removed[p] # None => l.removed[p] <= l.phaseId
    BY <1>3, <1>5, <1>6 DEF Mirrors, Accounts, StampsOK, SameRow
  <2>2. \A p \in Players : f.answers[x][p] = None /\ f.votes[x][p] = None
    BY <1>3, <1>5, <1>6 DEF SameCells, Accounts, Ahead
  <2>4. PICK i \in DOMAIN f.row.log : f.row.log[i] = NewEntry(l, x)
    BY <1>13
  <2>5. PlayOf(NewPlay(l, x), f)
    BY <1>1, <1>3, <1>7, <2>1, <2>2, <2>4, NewPlayFits
  <2> QED BY <1>2, <2>5 DEF Opens
<1>12. Mirrors(m, f)
  <2>1. (\E i \in DOMAIN f.row.log : f.row.log[i].revealed # None)
          <=> \E i \in DOMAIN e.row.log : e.row.log[i].revealed # None
    <3>1. NewEntry(l, x).revealed = None
      BY DEF NewEntry
    <3> QED BY <1>13, <3>1
  <2> QED BY <1>2, <1>3, <1>4, <1>5, <2>1 DEF Mirrors, Opens
<1> QED BY <1>3, <1>8, <1>9, <1>10, <1>11, <1>12 DEF Sound, Level, Base, Fits, f, m

LEMMA OpenQuestionSound ==
  ASSUME NEW d, NEW s, Tells(d, s), Accounts(Lands(d, s)), Mirrors(s.live, Lands(d, s)),
         s.live.status = "running", NEW x \in Questions, x \notin Asked(s.live.log),
         \A i \in DOMAIN s.live.log : UpTo(s.live.log[i].at, x)
  PROVE  Sound(d, OpenQuestion(s, x))
<1> DEFINE u == OpenQuestion(s, x)
<1>1. s \in Steps
  BY GoodTypes DEF Tells
<1>2. Good(u) /\ u.writes = s.writes /\ Opens(s.live, u.live, x)
  BY <1>1, OpenQuestionGood, OpenQuestionOpens DEF Leaves
<1> HIDE DEF u
<1>3. Sound(d, u)
  BY <1>2, OpenedSound
<1> QED BY <1>3 DEF u


LEMMA EntryOfIs ==
  ASSUME NEW log, Once(log), NEW i \in DOMAIN log
  PROVE  EntryOf(log, log[i].at) = i
<1>1. {j \in DOMAIN log : log[j].at = log[i].at} = {i}
  BY DEF Once
<1>2. EntryOf(log, log[i].at) = Max({i})
  BY <1>1 DEF EntryOf
<1>3. Max({i}) = i
  BY DEF Max
<1> QED BY <1>2, <1>3

\* The play that is on has its entry in the log.
LEMMA PlayEntry ==
  ASSUME NEW d, NEW s, Level(d, s), s.live.play # None
  PROVE  \E i \in DOMAIN s.live.log :
           /\ s.live.log[i].at = s.live.play.at /\ EntryOf(s.live.log, s.live.play.at) = i
           /\ EntryFits(s.live.play, Lands(d, s), s.live.log[i])
           /\ s.live.play \in Plays /\ s.live.play.at \in Questions
<1> DEFINE e == Lands(d, s)
           l == s.live
<1>1. Mirrors(l, e) /\ Accounts(e) /\ PlayOf(l.play, e) /\ l \in Lives
  BY LevelHere DEF Level, Base, Fits
<1> HIDE DEF e, l
<1>2. Once(l.log) /\ l.log = e.row.log
  BY <1>1 DEF Mirrors, SameRow, Accounts, LogOK
<1>3. PICK i \in DOMAIN l.log : EntryFits(l.play, e, l.log[i])
  BY <1>1, <1>2 DEF PlayOf
<1>4. l.log[i].at = l.play.at
  BY <1>3 DEF EntryFits
<1>5. EntryOf(l.log, l.play.at) = i
  BY <1>2, <1>4, EntryOfIs
<1>6. l.play \in Plays /\ l.play.at \in Questions
  BY <1>1, PlayAt DEF l
<1> QED BY <1>3, <1>4, <1>5, <1>6 DEF e, l

LEMMA PlacedAlike ==
  ASSUME NEW l, NEW m, LogPlaced(l), SameEntries(l.log, m.log),
         m.phase = l.phase, m.round = l.round, m.question = l.question
  PROVE  LogPlaced(m)
<1>1. Cursor(m) = Cursor(l)
  BY DEF Cursor
<1>2. Asked(m.log) = Asked(l.log)
  BY DEF Asked, SameEntries
<1>3. ASSUME NEW i \in DOMAIN m.log PROVE EntryPlaced(m, m.log[i])
  <2>1. /\ i \in DOMAIN l.log /\ m.log[i].at = l.log[i].at
        /\ m.log[i].revealed = l.log[i].revealed
    BY DEF SameEntries
  <2>2. EntryPlaced(l, l.log[i])
    BY <2>1 DEF LogPlaced
  <2> QED BY <1>1, <2>1, <2>2 DEF EntryPlaced
<1> QED BY <1>1, <1>2, <1>3 DEF LogPlaced

\* A question that is skipped is left behind.
LEMMA SkippedLevel ==
  ASSUME NEW d, NEW s, Sound(d, s), s.live.play # None, s.live.phase \in QuestionPhases
  PROVE  /\ Level(d, Skipped(s)) /\ Skipped(s).live.status = s.live.status
         /\ Skipped(s).live.phase = s.live.phase
         /\ Cursor(Skipped(s).live) = Cursor(s.live)
         /\ Skipped(s).live.round = s.live.round
         /\ SameEntries(s.live.log, Skipped(s).live.log)
<1> DEFINE l == s.live
           i == EntryOf(l.log, l.play.at)
           log == [l.log EXCEPT ![i].skipped = TRUE]
           m == [l EXCEPT !.log = log]
           t == Skipped(s)
           e == Lands(d, s)
           f == Lands(d, t)
<1>1. /\ s \in Steps /\ l \in Lives /\ Good(s) /\ l.log \in Seq(Entries)
      /\ LogPlaced(l) /\ Here(l) /\ Level(d, s)
  BY LevelHere, GoodTypes DEF Sound, PhaseFits
<1>2. i \in DOMAIN l.log /\ l.log[i].at = l.play.at
  BY <1>1, PlayEntry
<1>3. l.log[i].revealed = None
  BY <1>1, <1>2
     DEF Here, LogPlaced, EntryPlaced, AtPhases, RevealPhases, QuestionPhases
<1>4. t = [s EXCEPT !.live = m]
  BY DEF Skipped
<1> HIDE DEF i
<1>5. /\ log \in Seq(Entries) /\ SameEntries(l.log, log)
  <2>1. log \in Seq(Entries)
    BY <1>1, LogTyped
  <2>2. \A j \in DOMAIN l.log : l.log[j] \in Entries
    BY <1>1
  <2>3. DOMAIN log = DOMAIN l.log /\ \A j \in DOMAIN l.log \ {i} : log[j] = l.log[j]
    OBVIOUS
  <2>4. log[i] = [l.log[i] EXCEPT !.skipped = TRUE]
    BY <1>2
  <2>5. /\ log[i].at = l.log[i].at /\ log[i].opened = l.log[i].opened
        /\ log[i].revealed = l.log[i].revealed
    BY <1>2, <2>2, <2>4 DEF Entries
  <2> HIDE DEF log, l
  <2> QED BY <1>3, <2>1, <2>3, <2>5 DEF SameEntries
<1>6. /\ m \in Lives /\ m.log = log /\ m.status = l.status /\ m.phase = l.phase
      /\ m.round = l.round /\ m.question = l.question /\ m.phaseId = l.phaseId
      /\ m.joined = l.joined /\ m.removed = l.removed /\ m.extraTime = l.extraTime
      /\ m.score = l.score /\ m.hasScored = l.hasScored /\ m.play = l.play
  <2> HIDE DEF log, l
  <2> QED BY <1>1, <1>5 DEF Lives
<1>12. /\ m.recovery = l.recovery /\ m.deadline = l.deadline
       /\ m.extraDeadline = l.extraDeadline /\ m.pausedLeft = l.pausedLeft
       /\ m.pausedExtra = l.pausedExtra
  <2> HIDE DEF log, l
  <2> QED BY <1>1 DEF Lives
<1> HIDE DEF m, log
<1>7. t \in Steps /\ t.live = m /\ t.writes = s.writes
  BY <1>1, <1>4, <1>6, WithLive
<1> HIDE DEF t
<1>8. Good(t)
  BY <1>1, <1>6, <1>7, <1>12 DEF Good, LiveOK, Placed, AtQuestion, AtRound, InLobby, PlayKept,
                          Going, OnTheClock, Cursor
<1>9. /\ Tells(d, t) /\ f \in Stores /\ e \in Stores /\ f.row = Row(m) /\ SameCells(e, f)
      /\ f.joined = e.joined /\ f.removed = e.removed
      /\ f.extraTime = e.extraTime /\ f.score = e.score
  BY <1>1, <1>7, <1>8, SameWritesLand DEF Level
<1>10. SameRow(m, f.row) /\ f.row.phaseId = m.phaseId /\ m.phaseId \in Nat
  BY <1>7, <1>8, <1>9, GoodTypes
<1>11. Base(e) /\ Mirrors(l, e) /\ PlayOf(l.play, e) /\ l.play.at \in Questions
  BY <1>1, PlayAt DEF Level, Fits
<1> HIDE DEF e, f
<1>13. /\ SameEntries(e.row.log, f.row.log) /\ f.row.log = m.log
       /\ f.row.phaseId = e.row.phaseId
  BY <1>5, <1>6, <1>10, <1>11 DEF Mirrors, SameRow
<1>14. Alike(e, f)
  BY <1>9, <1>13 DEF Alike
<1>15. Accounts(f)
  <2>1. f.row.phaseId >= e.row.phaseId
    BY <1>10, <1>13
  <2> QED BY <1>9, <1>11, <1>14, <2>1, AlikeAccounts DEF Base
<1>16. LogPlaced(f.row)
  <2>1. LogPlaced(m)
    BY <1>1, <1>5, <1>6, PlacedAlike
  <2> QED BY <1>10, <2>1, SameRowPlaced
<1>17. PlayOf(m.play, f)
  BY <1>6, <1>9, <1>11, <1>14, AlikePlay
<1>18. Mirrors(m, f)
  <2>1. (\E j \in DOMAIN f.row.log : f.row.log[j].revealed # None)
          <=> \E j \in DOMAIN e.row.log : e.row.log[j].revealed # None
    BY <1>13 DEF SameEntries
  <2> QED BY <1>6, <1>9, <1>10, <1>11, <2>1 DEF Mirrors
<1>19. Level(d, t)
  BY <1>7, <1>9, <1>15, <1>16, <1>17, <1>18 DEF Level, Base, Fits, f
<1>20. /\ t.live.status = l.status /\ t.live.phase = l.phase /\ Cursor(t.live) = Cursor(l)
       /\ t.live.round = l.round /\ SameEntries(l.log, t.live.log)
  BY <1>5, <1>6, <1>7 DEF Cursor
<1> QED BY <1>19, <1>20 DEF t

\* The next question, the end of the round or the podium.
LEMMA AfterQuestionSound ==
  ASSUME NEW d, NEW s, Level(d, s), s.live.status = "running", s.live.phase \in AtPhases
  PROVE  Sound(d, AfterQuestion(s))
<1> DEFINE x == Cursor(s.live)
           y == <<x[1], x[2] + 1>>
<1>1. /\ LogPlaced(s.live) /\ LiveOK(s.live) /\ Tells(d, s) /\ Accounts(Lands(d, s))
      /\ Mirrors(s.live, Lands(d, s)) /\ s.live \in Lives
  BY LevelHere DEF Level, Base, Fits, Good
<1>2. x \in Questions
  BY <1>1 DEF LiveOK, Placed, AtQuestion, AtPhases, RevealPhases
<1>3. x[1] \in 1..Len(Rounds) /\ x[2] \in Nat /\ x[1] = s.live.round
  BY <1>2, QuestionPlace DEF Cursor
<1>4. \A i \in DOMAIN s.live.log : s.live.log[i].at \in Questions /\ UpTo(s.live.log[i].at, x)
  <2>1. s.live.log \in Seq(Entries)
    BY <1>1 DEF Lives
  <2>2. \A i \in DOMAIN s.live.log : s.live.log[i] \in Entries
    BY <2>1
  <2> QED BY <1>1, <2>2 DEF LogPlaced, EntryPlaced, Entries
<1>5. \A i \in DOMAIN s.live.log :
         /\ s.live.log[i].at[1] \in Nat /\ s.live.log[i].at[2] \in Nat
         /\ s.live.log[i].at[1] <= x[1]
  BY <1>3, <1>4, QuizFacts, QuestionPlace DEF UpTo
<1> HIDE DEF x
<1>6. CASE ~IsLast(x)
  <2>1. y \in Questions /\ y[1] = x[1] /\ y[2] = x[2] + 1
    BY <1>2, <1>6, NextQuestion
  <2>2. AfterQuestion(s) = OpenQuestion(s, y)
    BY <1>6 DEF AfterQuestion, x
  <2> HIDE DEF y
  <2>3. \A i \in DOMAIN s.live.log : UpTo(s.live.log[i].at, y) /\ s.live.log[i].at # y
    BY <1>3, <1>4, <1>5, <2>1 DEF UpTo
  <2>4. y \notin Asked(s.live.log)
    BY <2>3 DEF Asked
  <2> QED BY <1>1, <2>1, <2>2, <2>3, <2>4, OpenQuestionSound
<1>7. CASE IsLast(x) /\ ~IsLastRound(x[1])
  <2>1. AfterQuestion(s) = ShowLeaderboard(s)
    BY <1>7 DEF AfterQuestion, x
  <2> QED BY <1>3, <1>5, <1>7, <2>1, ShowLeaderboardSound
<1>8. CASE IsLast(x) /\ IsLastRound(x[1])
  BY <1>8, ShowPodiumSound DEF AfterQuestion, x
<1> QED BY <1>6, <1>7, <1>8

LEMMA FirstQuestionSound ==
  ASSUME NEW d, NEW s, Level(d, s), s.live.status = "running", s.live.phase = "round_intro"
  PROVE  Sound(d, OpenQuestion(s, <<s.live.round, 1>>))
<1> DEFINE x == <<s.live.round, 1>>
<1>1. /\ LogPlaced(s.live) /\ LiveOK(s.live) /\ Tells(d, s) /\ Accounts(Lands(d, s))
      /\ Mirrors(s.live, Lands(d, s)) /\ s.live \in Lives
  BY LevelHere DEF Level, Base, Fits, Good
<1>2. x \in Questions /\ s.live.round \in 1..Len(Rounds)
  BY <1>1, FirstQuestion DEF LiveOK, Placed, AtRound
<1>3. \A i \in DOMAIN s.live.log :
        s.live.log[i].at \in Questions /\ s.live.log[i].at[1] < s.live.round
  <2>1. s.live.log \in Seq(Entries)
    BY <1>1 DEF Lives
  <2>2. \A i \in DOMAIN s.live.log : s.live.log[i] \in Entries
    BY <2>1
  <2> QED BY <1>1, <2>2 DEF LogPlaced, EntryPlaced, Entries
<1>4. \A i \in DOMAIN s.live.log : s.live.log[i].at[1] \in Nat
  BY <1>3, QuizFacts, QuestionPlace
<1>5. x[1] = s.live.round
  OBVIOUS
<1> HIDE DEF x
<1>6. \A i \in DOMAIN s.live.log : UpTo(s.live.log[i].at, x) /\ s.live.log[i].at # x
  BY <1>2, <1>3, <1>4, <1>5, QuizFacts DEF UpTo
<1>7. x \notin Asked(s.live.log)
  BY <1>6 DEF Asked
<1> QED BY <1>1, <1>2, <1>6, <1>7, OpenQuestionSound DEF x


----------------------------------------------------------------------------
(* What a batch leaves of an answer and a vote. *)

\* The answer that a batch finds or inserts.
Given(d, w, x, p) ==
  IF p \in DOMAIN w.answers
  THEN [payload |-> w.answers[p], points |-> 0, hidden |-> FALSE, shown |-> FALSE]
  ELSE IF w.wipe THEN None ELSE d.answers[x][p]

CellIs(c, w, p, row) ==
  /\ c = None <=> row = None
  /\ c # None =>
       /\ c.payload = row.payload
       /\ c.points = (IF p \in DOMAIN w.points THEN w.points[p] ELSE row.points)
       /\ c.shown = (row.shown \/ p \in w.shown)
       /\ c.hidden = (p \in DOMAIN w.removed
                      \/ (IF p \in DOMAIN w.hidden THEN w.hidden[p] ELSE row.hidden))

LEMMA GivenTyped ==
  ASSUME NEW d \in Stores, NEW w \in Writes, NEW x \in Questions, NEW p \in Players
  PROVE  Given(d, w, x, p) \in Maybe(AnswerRows)
<1>1. d.answers[x][p] \in Maybe(AnswerRows) /\ None \in Maybe(AnswerRows)
  BY DEF Stores, Maybe
<1>2. p \in DOMAIN w.answers => w.answers[p] \in {"right", "wrong", "text"}
  BY PartAt DEF Writes
<1> QED BY <1>1, <1>2 DEF Given, Maybe, AnswerRows

\* Of the question that the batch is about.
LEMMA CellHere ==
  ASSUME NEW d \in Stores, NEW w \in Writes, Bare(w), NEW x \in Questions,
         w.question \in {None, x}, NEW p \in Players
  PROVE  /\ CellIs(AnswerCell(d, w, x, p), w, p, Given(d, w, x, p))
         /\ VoteCell(d, w, x, p) = IF p \in DOMAIN w.votes THEN w.votes[p]
                                   ELSE IF w.wipe THEN None ELSE d.votes[x][p]
<1> DEFINE row == Given(d, w, x, p)
           c   == AnswerCell(d, w, x, p)
<1>1. row \in Maybe(AnswerRows) /\ None \notin AnswerRows
  BY GivenTyped, RowsAssumption
<1>2. CASE w.question = x
  <2> DEFINE a == AnswerRow(d, w, p)
             kept == [row EXCEPT !.shown  = @ \/ p \in w.shown,
                                 !.hidden = IF p \in DOMAIN w.hidden THEN w.hidden[p] ELSE @,
                                 !.points = IF p \in DOMAIN w.points THEN w.points[p] ELSE @]
  <2>1. a = IF row = None THEN None ELSE kept
    BY <1>2 DEF AnswerRow, Given
  <2>2. c = IF p \in DOMAIN w.removed /\ a # None THEN [a EXCEPT !.hidden = TRUE] ELSE a
    BY <1>2 DEF AnswerCell
  <2> HIDE DEF c, a, row
  <2>3. ASSUME row = None PROVE CellIs(c, w, p, row)
    BY <2>1, <2>2, <2>3 DEF CellIs
  <2>4. ASSUME row # None PROVE CellIs(c, w, p, row)
    <3>1. row \in AnswerRows
      BY <1>1, <2>4 DEF Maybe
    <3>2. /\ p \in DOMAIN w.points => w.points[p] \in Int
          /\ p \in DOMAIN w.hidden => w.hidden[p] \in BOOLEAN
      BY PartAt DEF Writes
    <3>3. /\ kept \in AnswerRows /\ kept.payload = row.payload
          /\ kept.points = (IF p \in DOMAIN w.points THEN w.points[p] ELSE row.points)
          /\ kept.shown = (row.shown \/ p \in w.shown)
          /\ kept.hidden = (IF p \in DOMAIN w.hidden THEN w.hidden[p] ELSE row.hidden)
      BY <3>1, <3>2 DEF AnswerRows
    <3> HIDE DEF kept
    <3>4. a = kept /\ a # None
      BY <1>1, <2>1, <2>4, <3>3
    <3>5. CASE p \in DOMAIN w.removed
      <4>1. c = [a EXCEPT !.hidden = TRUE]
        BY <2>2, <3>4, <3>5
      <4>2. /\ c \in AnswerRows /\ c.payload = a.payload /\ c.points = a.points
            /\ c.shown = a.shown /\ c.hidden
        BY <3>3, <3>4, <4>1 DEF AnswerRows
      <4> QED BY ZenonT(60), <1>1, <2>4, <3>3, <3>4, <3>5, <4>2 DEF CellIs
    <3>6. CASE p \notin DOMAIN w.removed
      <4>1. c = kept /\ kept.hidden \in BOOLEAN /\ kept.shown \in BOOLEAN
        BY <2>2, <3>3, <3>4, <3>6 DEF AnswerRows
      <4> QED BY <2>4, <3>3, <3>4, <3>6, <4>1 DEF CellIs
    <3> QED BY <3>5, <3>6
  <2>5. CellIs(c, w, p, row)
    BY <2>3, <2>4
  <2> QED BY <1>2, <2>5 DEF VoteCell, VoteRow, c, row
<1>3. CASE w.question = None
  <2>1. ~w.wipe /\ w.shown = {} /\ DOMAIN w.answers = {} /\ DOMAIN w.votes = {}
        /\ DOMAIN w.hidden = {} /\ DOMAIN w.points = {}
    BY <1>3 DEF Bare
  <2>2. row = d.answers[x][p]
    BY <2>1 DEF Given
  <2>3. /\ c = IF p \in DOMAIN w.removed /\ row # None THEN [row EXCEPT !.hidden = TRUE] ELSE row
        /\ VoteCell(d, w, x, p) = d.votes[x][p]
    BY <1>3, <2>2, BareCells
  <2> HIDE DEF c, row
  <2>4. ASSUME row = None PROVE CellIs(c, w, p, row)
    BY <2>3, <2>4 DEF CellIs
  <2>5. ASSUME row # None PROVE CellIs(c, w, p, row)
    <3>1. row \in AnswerRows
      BY <1>1, <2>5 DEF Maybe
    <3>2. CASE p \in DOMAIN w.removed
      <4>1. c = [row EXCEPT !.hidden = TRUE]
        BY <2>3, <2>5, <3>2
      <4>2. /\ c \in AnswerRows /\ c.payload = row.payload /\ c.points = row.points
            /\ c.shown = row.shown /\ c.hidden
        BY <3>1, <4>1 DEF AnswerRows
      <4> QED BY <1>1, <2>1, <2>5, <3>1, <3>2, <4>2 DEF CellIs, AnswerRows
    <3>3. CASE p \notin DOMAIN w.removed
      <4>1. c = row /\ row.shown \in BOOLEAN /\ row.hidden \in BOOLEAN
        BY <2>3, <3>1, <3>3 DEF AnswerRows
      <4> QED BY <2>1, <2>5, <3>3, <4>1 DEF CellIs
    <3> QED BY <3>2, <3>3
  <2>6. CellIs(c, w, p, row)
    BY <2>4, <2>5
  <2> QED BY <2>1, <2>3, <2>6 DEF c, row
<1> QED BY <1>2, <1>3

\* Of the others: only a removal hides what its player said.
LEMMA CellElsewhere ==
  ASSUME NEW d \in Stores, NEW w \in Writes, Bare(w), NEW y \in Questions,
         w.question # y, NEW p \in Players
  PROVE  /\ d.answers[y][p] = None <=> AnswerCell(d, w, y, p) = None
         /\ AnswerCell(d, w, y, p) # None =>
              AnswerCell(d, w, y, p).points = d.answers[y][p].points
         /\ p \notin DOMAIN w.removed => AnswerCell(d, w, y, p) = d.answers[y][p]
         /\ VoteCell(d, w, y, p) = d.votes[y][p]
<1> DEFINE row == d.answers[y][p]
           c   == AnswerCell(d, w, y, p)
<1>1. row \in Maybe(AnswerRows) /\ None \notin AnswerRows
  BY RowsAssumption DEF Stores
<1>2. c = IF p \in DOMAIN w.removed /\ row # None THEN [row EXCEPT !.hidden = TRUE] ELSE row
  BY DEF AnswerCell
<1>3. VoteCell(d, w, y, p) = d.votes[y][p]
  BY DEF VoteCell
<1> HIDE DEF row, c
<1>4. CASE p \in DOMAIN w.removed /\ row # None
  <2>1. c = [row EXCEPT !.hidden = TRUE] /\ row \in AnswerRows
    BY <1>1, <1>2, <1>4 DEF Maybe
  <2>2. c \in AnswerRows /\ c.points = row.points
    BY <2>1 DEF AnswerRows
  <2>3. c # None
    BY <1>1, <2>2
  <2> QED BY <1>3, <1>4, <2>2, <2>3 DEF row, c
<1>5. CASE ~(p \in DOMAIN w.removed /\ row # None)
  <2>1. c = row
    BY <1>2, <1>5
  <2> QED BY <1>3, <2>1 DEF row, c
<1> QED BY <1>4, <1>5

----------------------------------------------------------------------------
(* Accounts that are kept. *)

\* The answers to the questions of S earned what they earned, and the votes stay.
PaidCells(d, e, S) ==
  \A y \in S, p \in Players :
    /\ d.answers[y][p] = None <=> e.answers[y][p] = None
    /\ e.answers[y][p] # None => e.answers[y][p].points = d.answers[y][p].points
    /\ e.votes[y][p] = d.votes[y][p]

LEMMA LogKept ==
  ASSUME NEW d \in Stores, NEW e \in Stores, LogOK(d.row), SameEntries(d.row.log, e.row.log),
         e.row.phaseId >= d.row.phaseId
  PROVE  LogOK(e.row) /\ Asked(e.row.log) = Asked(d.row.log)
<1>1. \A i \in DOMAIN d.row.log : /\ d.row.log[i].opened \in Nat
                                  /\ d.row.log[i].revealed \in Maybe(Nat)
  BY LogEntry
<1>2. d.row.phaseId \in Nat /\ e.row.phaseId \in Nat
  BY DEF Stores, Rows, RowTypes
<1>3. Once(e.row.log)
  BY DEF SameEntries, LogOK, Once
<1>4. \A i \in DOMAIN e.row.log : EntryOK(e.row, e.row.log[i])
  BY <1>1, <1>2 DEF SameEntries, LogOK, EntryOK, Maybe
<1> QED BY <1>3, <1>4 DEF LogOK, Asked, SameEntries

\* One question alone earns more or less, and the scores follow it.
LEMMA AccountsMove ==
  ASSUME NEW d \in Stores, NEW e \in Stores, Accounts(d), SameEntries(d.row.log, e.row.log),
         e.row.phaseId >= d.row.phaseId, StampsOK(e),
         NEW x \in Questions, x \in Asked(d.row.log),
         \A y \in Questions, p \in Players : Seen(e, y, p) <=> Seen(d, y, p),
         PaidCells(d, e, Questions \ {x}),
         \A i \in DOMAIN d.row.log : d.row.log[i].at = x /\ d.row.log[i].revealed = None =>
           \A p \in Players : e.answers[x][p] # None => e.answers[x][p].points = 0,
         \A p \in Players : e.score[p] = d.score[p] + Held(e, x, p) - Held(d, x, p)
  PROVE  Accounts(e)
<1>1. LogOK(e.row) /\ Asked(e.row.log) = Asked(d.row.log)
  BY SMTT(60), LogKept DEF Accounts
<1>2. Ahead(e)
  BY SMTT(60), <1>1 DEF Accounts, Ahead, PaidCells
<1>3. Unpaid(e)
  <2> SUFFICES ASSUME NEW i \in DOMAIN e.row.log, e.row.log[i].revealed = None, NEW p \in Players,
                      e.answers[e.row.log[i].at][p] # None
               PROVE  e.answers[e.row.log[i].at][p].points = 0
    BY ZenonT(60) DEF Unpaid
  <2>1. /\ i \in DOMAIN d.row.log /\ e.row.log[i].at = d.row.log[i].at
        /\ d.row.log[i].revealed = None
    BY DEF SameEntries
  <2>2. d.row.log[i].at \in Questions
    BY SMTT(60), <2>1, LogEntry
  <2>3. CASE d.row.log[i].at = x
    BY SMTT(60), <2>1, <2>3
  <2>4. CASE d.row.log[i].at # x
    <3> DEFINE y == d.row.log[i].at
    <3>0. y \in Questions \ {x} /\ e.answers[y][p] # None
      BY <2>1, <2>2, <2>4
    <3> HIDE DEF y
    <3>1. d.answers[y][p] # None /\ e.answers[y][p].points = d.answers[y][p].points
      BY <3>0, Zenon DEF PaidCells
    <3> USE DEF y
    <3>2. d.answers[d.row.log[i].at][p].points = 0
      BY <2>1, <3>1, UnpaidIs, Zenon
    <3> QED BY <2>1, <3>1, <3>2, Zenon
  <2> QED BY ZenonT(60), <2>3, <2>4
<1>4. AddsUp(e)
  <2>1. \A y \in Questions \ {x}, p \in Players : Held(e, y, p) = Held(d, y, p)
    BY DEF Held, PaidCells
  <2> QED BY <2>1, ScoresMove DEF Accounts
<1> QED BY <1>1, <1>2, <1>3, <1>4 DEF Accounts

LEMMA AccountsStay ==
  ASSUME NEW d \in Stores, NEW e \in Stores, Accounts(d), SameEntries(d.row.log, e.row.log),
         e.row.phaseId >= d.row.phaseId, StampsOK(e),
         \A y \in Questions, p \in Players : Seen(e, y, p) <=> Seen(d, y, p),
         PaidCells(d, e, Questions), e.score = d.score
  PROVE  Accounts(e)
<1>1. LogOK(e.row) /\ Asked(e.row.log) = Asked(d.row.log)
  BY LogKept DEF Accounts
<1>2. Ahead(e)
  BY <1>1 DEF Accounts, Ahead, PaidCells
<1>3. Unpaid(e)
  BY UnpaidStays, Zenon DEF PaidCells
<1>4. AddsUp(e)
  <2>1. \A y \in Questions, p \in Players : Held(e, y, p) = Held(d, y, p)
    BY DEF Held, PaidCells
  <2> QED BY <2>1, ScoresStay DEF Accounts
<1> QED BY <1>1, <1>2, <1>3, <1>4 DEF Accounts


\* A step in the phase that is on, with rows of its own.
SamePlaceAs(l, m) ==
  /\ m.phase = l.phase /\ m.round = l.round /\ m.question = l.question
  /\ m.phaseId = l.phaseId /\ m.log = l.log /\ m.hasScored = l.hasScored

\* A play whose answers and votes are the same stays stored when its rows are.
LEMMA StoredStays ==
  ASSUME NEW play, NEW d, NEW e, NEW p, NEW x, x = play.at, Stored(play, d, p),
         e.answers[x][p] = None <=> d.answers[x][p] = None,
         e.answers[x][p] # None =>
           /\ e.answers[x][p].payload = d.answers[x][p].payload
           /\ e.answers[x][p].points = d.answers[x][p].points
           /\ e.answers[x][p].hidden = d.answers[x][p].hidden,
         e.votes[x][p] = d.votes[x][p],
         NEW other, other.at = x, other.answers = play.answers, other.votes = play.votes
  PROVE  Stored(other, e, p)
BY DEF Stored, SameAnswer

\* Only the play changes.
LEMMA PlayReplaced ==
  ASSUME NEW l \in Lives, NEW play \in Plays, NEW m, m = [l EXCEPT !.play = play]
  PROVE  /\ m \in Lives /\ m.play = play /\ SamePlaceAs(l, m) /\ SameMoment(l, m)
         /\ m.joined = l.joined /\ m.removed = l.removed
         /\ m.extraTime = l.extraTime /\ m.score = l.score
<1>1. m \in Lives
  BY Zenon DEF Lives, Maybe
<1>2. m.play = play
  BY Zenon DEF Lives
<1>3. SamePlaceAs(l, m)
  BY Zenon DEF Lives, SamePlaceAs
<1>4. SameMoment(l, m)
  BY Zenon DEF Lives, SameMoment
<1>5. m.joined = l.joined /\ m.removed = l.removed
      /\ m.extraTime = l.extraTime /\ m.score = l.score
  BY Zenon DEF Lives
<1> QED BY <1>1, <1>2, <1>3, <1>4, <1>5

LEMMA EditLevel ==
  ASSUME NEW d, NEW s, Level(d, s), NEW t, Tells(d, t), SamePlaceAs(s.live, t.live),
         Accounts(Lands(d, t)), Lands(d, t).row = Row(t.live),
         t.live.joined = Lands(d, t).joined, t.live.removed = Lands(d, t).removed,
         t.live.extraTime = Lands(d, t).extraTime, t.live.score = Lands(d, t).score,
         t.live.play # None => PlayOf(t.live.play, Lands(d, t))
  PROVE  Level(d, t)
<1> DEFINE l == s.live
           m == t.live
           e == Lands(d, s)
           f == Lands(d, t)
<1>1. LogPlaced(l) /\ Mirrors(l, e)
  BY LevelHere DEF Level, Fits
<1>2. SameRow(m, f.row)
  BY GoodTypes DEF Tells
<1> HIDE DEF e, l
<1>3. SamePlaceAs(l, m) /\ f.joined = m.joined /\ f.removed = m.removed
      /\ f.extraTime = m.extraTime /\ f.score = m.score
  BY DEF l
<1> HIDE DEF m, f
<1>4. LogPlaced(m)
  BY <1>1, <1>3 DEF SamePlaceAs, LogPlaced, EntryPlaced, Cursor, Asked
<1>5. LogPlaced(f.row)
  BY <1>2, <1>4, SameRowPlaced
<1>6. Mirrors(m, f)
  BY <1>1, <1>2, <1>3 DEF Mirrors, SameRow, SamePlaceAs
<1> QED BY <1>5, <1>6 DEF Level, Base, Fits, m, f

\* The play keeps what its phase asks of it.
SameTerms(l, m) ==
  /\ m.play = None <=> l.play = None
  /\ l.play # None => m.play.at = l.play.at /\ m.play.options = l.play.options

LEMMA EditFits ==
  ASSUME NEW l, NEW m, PhaseFits(l), SamePlaceAs(l, m), SameTerms(l, m), m \in Lives
  PROVE  PhaseFits(m)
<1>1. m.play # None => m.play \in Plays
  BY PlayAt
<1>2. l.phase \in RevealPhases => l.play # None
  BY RowsAssumption DEF PhaseFits, Here
<1> QED BY <1>1, <1>2 DEF PhaseFits, Here, Suits, SamePlaceAs, SameTerms, Cursor


----------------------------------------------------------------------------
(* A question is revealed. *)

\* The writes of save_scoring beside the ones before it.
Pays(w, play, score) ==
  [w EXCEPT !.question = play.at,
            !.points = [p \in Answered(play) |-> play.answers[p].points],
            !.scores = [p \in play.counted |-> score[p]]]

LEMMA SaveScoringPays ==
  ASSUME NEW s \in Steps, s.live.play \in Plays
  PROVE  SaveScoring(s).writes = Pays(s.writes, s.live.play, s.live.score)
<1> DEFINE w == Pays(s.writes, s.live.play, s.live.score)
<1>1. SaveScoring(s) = [s EXCEPT !.writes = w]
  BY DEF SaveScoring, Pays
<1> HIDE DEF w
<1> QED BY <1>1 DEF w, Steps

ScoredPlay(l) == [l.play EXCEPT !.scored = TRUE, !.counted = EligibleNow(l),
                                !.answers = [p \in Players |-> MarkedAnswer(l, p)]]
NewScore(l)   == [p \in Players |-> IF p \in EligibleNow(l) THEN l.score[p] + PointsOf(l, p)
                                    ELSE l.score[p]]

\* What the reveal makes of state l, whose question has entry i of the log.
Reveals(l, m, i) ==
  /\ m.play = ScoredPlay(l) /\ m.play \in Plays /\ m.score = NewScore(l) /\ m.hasScored
  /\ m.log = [l.log EXCEPT ![i].revealed = l.phaseId + 1]
  /\ m.phaseId = l.phaseId + 1 /\ m.phase = "reveal" /\ Cursor(m) = l.play.at
  /\ m.joined = l.joined /\ m.removed = l.removed /\ m.extraTime = l.extraTime

LEMMA ScoreQuestionIs ==
  ASSUME NEW s \in Steps, s.live.play \in Plays, ~s.live.play.scored,
         NEW t, t = ScoreQuestion(s)
  PROVE  /\ t \in Steps /\ t.writes = s.writes
         /\ t.live.play = ScoredPlay(s.live) /\ t.live.play \in Plays
         /\ t.live.play.at = s.live.play.at /\ t.live.score = NewScore(s.live)
         /\ t.live.log = s.live.log /\ t.live.phaseId = s.live.phaseId
         /\ t.live.joined = s.live.joined /\ t.live.removed = s.live.removed
         /\ t.live.extraTime = s.live.extraTime /\ t.live.status = s.live.status
<1> DEFINE here    == s.live
           marked  == [p \in Players |-> MarkedAnswer(here, p)]
           present == EligibleNow(here)
           play    == ScoredPlay(here)
           score   == NewScore(here)
           m       == [here EXCEPT !.play = play, !.score = score]
<1>1. here \in Lives /\ here.score \in [Players -> Int] /\ here.play \in Plays
  BY CursorTyped DEF Lives
<1>2. marked \in [Players -> Maybe(Answers)]
  BY <1>1, MarkedAnswerTyped
<1>3. score \in [Players -> Int]
  BY <1>1, PointsOfTyped DEF NewScore
<1>4. present \in SUBSET Players
  BY DEF EligibleNow, Active
<1>5. t = [s EXCEPT !.live.play = play, !.live.score = score]
  BY DEF ScoreQuestion, ScoredPlay, NewScore
<1>6. play = [here.play EXCEPT !.scored = TRUE, !.counted = present, !.answers = marked]
  BY DEF ScoredPlay
<1> HIDE DEF marked, score, present, play
<1>7. play \in Plays /\ play.at = here.play.at
  BY <1>1, <1>2, <1>4, <1>6 DEF Plays
<1>8. /\ m \in Lives /\ m.play = play /\ m.score = score /\ m.log = here.log
      /\ m.phaseId = here.phaseId /\ m.joined = here.joined /\ m.removed = here.removed
      /\ m.extraTime = here.extraTime /\ m.status = here.status
  <2>1. m \in Lives
    BY <1>1, <1>3, <1>7, Zenon DEF Lives, Maybe
  <2> QED BY <1>1, <2>1, Zenon DEF Lives
<1>9. t = [s EXCEPT !.live = m]
  BY <1>5
<1> HIDE DEF m
<1>10. t \in Steps /\ t.live = m /\ t.writes = s.writes
  BY <1>8, <1>9, WithLive
<1> QED BY <1>7, <1>8, <1>10 DEF play, score

LEMMA RevealQuestionReveals ==
  ASSUME NEW s, InPlay(s), ~s.live.play.scored,
         NEW i, i = EntryOf(s.live.log, s.live.play.at)
  PROVE  LET u == RevealQuestion(s)
         IN  /\ Good(u) /\ Reveals(s.live, u.live, i)
             /\ u.writes = Pays(s.writes, u.live.play, u.live.score)
<1> DEFINE t == ScoreQuestion(s)
           x == s.live.play.at
           log == [s.live.log EXCEPT ![i].revealed = s.live.phaseId + 1]
           m == [t.live EXCEPT !.log = log, !.hasScored = TRUE]
           u == [t EXCEPT !.live = m]
           v == Untimed(u, "reveal", x[1], x[2])
           w == SaveScoring(v)
<1>1. /\ t \in Steps /\ t.writes = s.writes
      /\ t.live.play = ScoredPlay(s.live) /\ t.live.play \in Plays
      /\ t.live.play.at = x /\ t.live.score = NewScore(s.live)
      /\ t.live.log = s.live.log /\ t.live.phaseId = s.live.phaseId
      /\ t.live.joined = s.live.joined /\ t.live.removed = s.live.removed
      /\ t.live.extraTime = s.live.extraTime
  BY ScoreQuestionIs DEF InPlay
<1>2. RevealQuestion(s) = Saved(SaveScoring(Untimed(
         [t EXCEPT !.live.log[EntryOf(t.live.log, t.live.play.at)].revealed = t.live.phaseId + 1,
                   !.live.hasScored = TRUE],
         "reveal", t.live.play.at[1], t.live.play.at[2])))
  BY DEF RevealQuestion
<1> HIDE DEF t
<1>3. t.live \in Lives /\ s.live.play \in Plays /\ x \in Questions
  BY <1>1, CursorTyped DEF InPlay, Plays
<1>4. log \in Seq(Entries)
  <2>1. s.live.phaseId + 1 \in Maybe(Nat) /\ s.live.log \in Seq(Entries)
    BY <1>1, <1>3 DEF Lives, Maybe
  <2> QED BY <2>1, LogTyped
<1>5. [t EXCEPT !.live.log[i].revealed = t.live.phaseId + 1, !.live.hasScored = TRUE] = u
  BY <1>1
<1>6. RevealQuestion(s) = Saved(w)
  BY ZenonT(60), <1>1, <1>2, <1>5
<1>7. Good(RevealQuestion(s))
  BY RevealQuestionGood DEF Leaves
<1> HIDE DEF log
<1>8. /\ m \in Lives /\ m.play = t.live.play /\ m.log = log /\ m.hasScored
      /\ m.score = t.live.score /\ m.phaseId = t.live.phaseId /\ m.joined = t.live.joined
      /\ m.removed = t.live.removed /\ m.extraTime = t.live.extraTime
  BY <1>3, <1>4 DEF Lives
<1> HIDE DEF m
<1>9. u \in Steps /\ u.live = m /\ u.writes = t.writes
  BY <1>1, <1>8, WithLive
<1> HIDE DEF u
<1>10. Arrives(v, u, "reveal", x[1], x[2], None, None)
  <2>1. "reveal" \in Phases
    BY DEF Phases
  <2>2. x[1] \in Maybe(1..Len(Rounds)) /\ x[2] \in Maybe(Nat) /\ None \in Maybe(Int)
    BY <1>3, QuestionPlace DEF Maybe
  <2> HIDE DEF x
  <2> QED BY <1>9, <2>1, <2>2, AdvanceFacts DEF Untimed
<1> HIDE DEF v
<1>11. /\ v \in Steps /\ v.writes = s.writes /\ v.live.play = t.live.play
       /\ v.live.score = t.live.score
       /\ v.live.log = log /\ v.live.hasScored /\ v.live.phaseId = s.live.phaseId + 1
       /\ v.live.phase = "reveal" /\ Cursor(v.live) = x
       /\ v.live.joined = s.live.joined /\ v.live.removed = s.live.removed
       /\ v.live.extraTime = s.live.extraTime
  <2>1. x = <<x[1], x[2]>>
    BY <1>3, QuestionPlace
  <2> QED BY <1>1, <1>8, <1>9, <1>10, <2>1 DEF Arrives, Cursor
<1>12. w \in Steps /\ w.live = v.live /\ w.writes = Pays(v.writes, v.live.play, v.live.score)
  BY <1>1, <1>11, SaveScoringFacts, SaveScoringPays
<1> HIDE DEF w
<1>13. RevealQuestion(s).live = v.live /\ RevealQuestion(s).writes = w.writes
  BY <1>6, <1>12, SavedFacts
<1>14. Reveals(s.live, v.live, i)
  BY <1>1, <1>11 DEF Reveals, log, x
<1>15. w.writes = Pays(s.writes, v.live.play, v.live.score)
  BY <1>11, <1>12
<1> QED BY <1>7, <1>13, <1>14, <1>15


LEMMA MarkedIs ==
  ASSUME NEW l \in Lives, l.play \in Plays, NEW p \in Players
  PROVE  /\ MarkedAnswer(l, p) = None <=> l.play.answers[p] = None
         /\ l.play.answers[p] # None =>
              /\ MarkedAnswer(l, p).payload = l.play.answers[p].payload
              /\ MarkedAnswer(l, p).hidden = l.play.answers[p].hidden
              /\ MarkedAnswer(l, p).points =
                   IF ~IsParty(l.play.at) /\ p \notin EligibleNow(l)
                   THEN l.play.answers[p].points ELSE Earned(l, p)
<1> DEFINE answer == l.play.answers[p]
<1>1. answer \in Maybe(Answers)
  BY DEF Plays
<1>2. CASE answer = None
  BY <1>2 DEF MarkedAnswer
<1>3. CASE answer # None
  <2>1. answer \in Answers
    BY <1>1, <1>3 DEF Maybe
  <2>2. MarkedAnswer(l, p) = IF ~IsParty(l.play.at) /\ p \notin EligibleNow(l) THEN answer
                             ELSE [answer EXCEPT !.points = Earned(l, p)]
    BY <1>3 DEF MarkedAnswer
  <2>3. MarkedAnswer(l, p) # None
    BY <1>3, MarkedAnswerTyped
  <2> HIDE DEF answer
  <2>4. /\ MarkedAnswer(l, p).payload = answer.payload /\ MarkedAnswer(l, p).hidden = answer.hidden
        /\ MarkedAnswer(l, p).points =
             IF ~IsParty(l.play.at) /\ p \notin EligibleNow(l) THEN answer.points ELSE Earned(l, p)
    BY <2>1, <2>2 DEF Answers
  <2> QED BY <1>3, <2>3, <2>4 DEF answer
<1> QED BY <1>2, <1>3

\* The state l has the play of an entry e that is not revealed yet.
Unrevealed(l, d, e) ==
  /\ EntryFits(l.play, d, e) /\ ~l.play.scored /\ e.revealed = None
  /\ l.joined = d.joined /\ l.removed = d.removed
  /\ \A p \in Players : Stored(l.play, d, p) /\ Fair(l.play, d, p)

\* Who has gone earns nothing.
LEMMA GoneEarnNothing ==
  ASSUME NEW l \in Lives, l.play \in Plays, NEW d, NEW e, Unrevealed(l, d, e),
         NEW p \in Players, p \notin EligibleNow(l)
  PROVE  /\ l.play.answers[p] # None => MarkedAnswer(l, p).points = 0
         /\ l.play.answers[p] # None \/ l.play.votes[p] # None => l.removed[p] # None
<1>1. l.play.answers[p] # None \/ l.play.votes[p] # None => l.removed[p] # None
  BY DEF Unrevealed, Fair, EntryFits, EligibleNow, Active
<1>2. ASSUME l.play.answers[p] # None PROVE MarkedAnswer(l, p).points = 0
  <2>1. CASE IsParty(l.play.at)
    <3>1. l.play.answers[p].hidden
      BY <1>1, <1>2, <2>1 DEF Unrevealed, Fair
    <3>2. Earned(l, p) = 0
      BY <2>1, <3>1 DEF Earned, Visible
    <3> QED BY <1>2, <2>1, <3>2, MarkedIs
  <2>2. CASE ~IsParty(l.play.at)
    <3>1. l.play.answers[p].points = 0
      BY <1>2 DEF Unrevealed, Fair
    <3> QED BY <1>2, <2>2, <3>1, MarkedIs
  <2> QED BY <2>1, <2>2
<1> QED BY <1>1, <1>2

\* What the reveal pays.
LEMMA PaysPoints ==
  ASSUME NEW l \in Lives, l.play \in Plays, NEW d, NEW e, Unrevealed(l, d, e),
         NEW p \in Players
  PROVE  NewScore(l)[p] = l.score[p]
           + (IF l.play.answers[p] = None THEN 0 ELSE MarkedAnswer(l, p).points)
           + (IF l.play.votes[p] = Truth /\ l.removed[p] = None THEN 1 ELSE 0)
<1>1. l.score[p] \in Int /\ Earned(l, p) \in Int
  BY EarnedTyped DEF Lives
<1>2. Truth # None
  BY NoneAssumption
<1>3. CASE p \in EligibleNow(l)
  <2>1. l.removed[p] = None
    BY <1>3 DEF EligibleNow, Active
  <2>2. NewScore(l)[p] = l.score[p] + PointsOf(l, p)
    BY <1>3 DEF NewScore
  <2>3. l.play.answers[p] # None => MarkedAnswer(l, p).points = Earned(l, p)
    BY <1>3, MarkedIs
  <2> QED BY <1>1, <2>1, <2>2, <2>3 DEF PointsOf, Answered
<1>4. CASE p \notin EligibleNow(l)
  <2>1. NewScore(l)[p] = l.score[p]
    BY <1>4 DEF NewScore
  <2>2. /\ l.play.answers[p] # None => MarkedAnswer(l, p).points = 0
        /\ l.play.votes[p] # None => l.removed[p] # None
    BY <1>4, GoneEarnNothing
  <2> QED BY <1>1, <1>2, <2>1, <2>2
<1> QED BY <1>3, <1>4

\* The writes of save_scoring, over those of a step so far.
LEMMA PaysTyped ==
  ASSUME NEW w \in Writes, NEW play \in Plays, NEW score \in [Players -> Int],
         NEW v, v = Pays(w, play, score)
  PROVE  /\ v \in Writes /\ v.question = play.at /\ v.question # None
         /\ v.wipe = w.wipe /\ v.answers = w.answers /\ v.votes = w.votes /\ v.shown = w.shown
         /\ v.hidden = w.hidden /\ v.joined = w.joined /\ v.removed = w.removed
         /\ v.extraTime = w.extraTime
         /\ v.points = [p \in Answered(play) |-> play.answers[p].points]
         /\ v.scores = [p \in play.counted |-> score[p]]
<1> DEFINE points == [p \in Answered(play) |-> play.answers[p].points]
           scores == [p \in play.counted |-> score[p]]
<1>1. points \in PartOf(Int)
  <2>1. \A p \in Answered(play) : play.answers[p].points \in Int
    BY DEF Answered, Plays, Maybe, Answers
  <2>2. Answered(play) \in SUBSET Players
    BY DEF Answered
  <2> QED BY <2>1, <2>2 DEF PartOf
<1>2. scores \in PartOf(Int)
  <2>1. play.counted \in SUBSET Players
    BY DEF Plays
  <2> QED BY <2>1 DEF PartOf
<1>3. play.at \in Questions /\ play.at # None
  BY RowsAssumption DEF Plays
<1>4. v = [w EXCEPT !.question = play.at, !.points = points, !.scores = scores]
  BY DEF Pays
<1> HIDE DEF points, scores
<1>5. /\ v \in Writes /\ v.question = play.at
      /\ v.wipe = w.wipe /\ v.answers = w.answers /\ v.votes = w.votes /\ v.shown = w.shown
      /\ v.hidden = w.hidden /\ v.joined = w.joined /\ v.removed = w.removed
      /\ v.extraTime = w.extraTime /\ v.points = points /\ v.scores = scores
  BY ZenonT(60), <1>1, <1>2, <1>3, <1>4 DEF Writes, Maybe
<1> QED BY <1>3, <1>5 DEF points, scores

\* The rows e after a step so far, and f when its question is paid beside.
PaidRows(e, f, play, score) ==
  /\ f.joined = e.joined /\ f.removed = e.removed /\ f.extraTime = e.extraTime
  /\ \A p \in Players : f.score[p] = IF p \in play.counted THEN score[p] ELSE e.score[p]
  /\ \A y \in Questions, p \in Players : f.votes[y][p] = e.votes[y][p]
  /\ \A y \in Questions \ {play.at}, p \in Players : f.answers[y][p] = e.answers[y][p]
  /\ \A p \in Players :
       /\ f.answers[play.at][p] = None <=> e.answers[play.at][p] = None
       /\ f.answers[play.at][p] # None =>
            /\ f.answers[play.at][p].payload = e.answers[play.at][p].payload
            /\ f.answers[play.at][p].shown = e.answers[play.at][p].shown
            /\ f.answers[play.at][p].hidden = e.answers[play.at][p].hidden
            /\ p \in Answered(play) => f.answers[play.at][p].points = play.answers[p].points

LEMMA PaysLand ==
  ASSUME NEW d, NEW s, Tells(d, s), DOMAIN s.writes.scores = {},
         NEW play \in Plays, NEW score \in [Players -> Int],
         s.writes.question \in {None, play.at},
         NEW t, Good(t), t.writes = Pays(s.writes, play, score)
  PROVE  /\ Tells(d, t) /\ Lands(d, t) \in Stores /\ Lands(d, s) \in Stores
         /\ Lands(d, t).row = Row(t.live)
         /\ PaidRows(Lands(d, s), Lands(d, t), play, score)
<1> DEFINE w == s.writes
           v == t.writes
           e == Lands(d, s)
           f == Lands(d, t)
           x == play.at
<1>1. /\ d \in Stores /\ d.row.status \in Open /\ Good(s) /\ ~Conflicts(d, w) /\ Bare(w)
      /\ w \in Writes /\ x \in Questions
  BY GoodTypes DEF Tells, Plays
<1>2. /\ v \in Writes /\ v.question = x /\ v.question # None
      /\ v.wipe = w.wipe /\ v.answers = w.answers /\ v.votes = w.votes /\ v.shown = w.shown
      /\ v.hidden = w.hidden /\ v.joined = w.joined /\ v.removed = w.removed
      /\ v.extraTime = w.extraTime
      /\ v.points = [p \in Answered(play) |-> play.answers[p].points]
      /\ v.scores = [p \in play.counted |-> score[p]]
  BY <1>1, PaysTyped
<1>3. w.question \in {None, x} /\ DOMAIN w.scores = {}
  OBVIOUS
<1>4. Tells(d, t)
  <2> HIDE DEF w, v, x
  <2>1. ~Conflicts(d, v) /\ Bare(v)
    BY <1>1, <1>2, <1>3 DEF Conflicts, Bare
  <2> QED BY <1>1, <2>1 DEF Tells, v
<1>5. /\ e \in Stores /\ e.joined = Over(w.joined, d.joined)
      /\ e.removed = Over(w.removed, d.removed) /\ e.extraTime = Over(w.extraTime, d.extraTime)
      /\ e.score = Over(w.scores, d.score)
      /\ \A y \in Questions, p \in Players : /\ e.answers[y][p] = AnswerCell(d, w, y, p)
                                             /\ e.votes[y][p] = VoteCell(d, w, y, p)
  BY <1>1, LandsFields
<1>6. /\ f \in Stores /\ f.row = Row(t.live) /\ f.joined = Over(v.joined, d.joined)
      /\ f.removed = Over(v.removed, d.removed) /\ f.extraTime = Over(v.extraTime, d.extraTime)
      /\ f.score = Over(v.scores, d.score)
      /\ \A y \in Questions, p \in Players : /\ f.answers[y][p] = AnswerCell(d, v, y, p)
                                             /\ f.votes[y][p] = VoteCell(d, v, y, p)
  BY <1>4, LandsFields DEF Tells
<1> HIDE DEF w, v, e, f, x
<1>7. \A p \in Players : f.score[p] = IF p \in play.counted THEN score[p] ELSE e.score[p]
  <2>1. d.score \in [Players -> Int] /\ DOMAIN v.scores = play.counted
    BY <1>1, <1>2 DEF Stores
  <2>2. e.score = d.score
    BY <1>3, <1>5, <2>1, NothingOver
  <2> QED BY <1>2, <1>6, <2>1, <2>2 DEF Over
<1>8. ASSUME NEW y \in Questions \ {x}, NEW p \in Players
      PROVE  f.answers[y][p] = e.answers[y][p] /\ f.votes[y][p] = e.votes[y][p]
  <2>1. w.question # y /\ v.question # y
    BY <1>2, <1>3, RowsAssumption
  <2>2. AnswerCell(d, v, y, p) = AnswerCell(d, w, y, p) /\ VoteCell(d, v, y, p) = VoteCell(d, w, y, p)
    BY <1>2, <2>1 DEF AnswerCell, VoteCell
  <2> QED BY <1>5, <1>6, <2>2
<1>9. ASSUME NEW p \in Players
      PROVE  /\ f.votes[x][p] = e.votes[x][p]
             /\ f.answers[x][p] = None <=> e.answers[x][p] = None
             /\ f.answers[x][p] # None =>
                  /\ f.answers[x][p].payload = e.answers[x][p].payload
                  /\ f.answers[x][p].shown = e.answers[x][p].shown
                  /\ f.answers[x][p].hidden = e.answers[x][p].hidden
                  /\ p \in Answered(play) => f.answers[x][p].points = play.answers[p].points
  <2> DEFINE row == Given(d, w, x, p)
  <2>1. Given(d, v, x, p) = row
    BY <1>2 DEF Given
  <2>2. /\ CellIs(AnswerCell(d, w, x, p), w, p, row)
        /\ VoteCell(d, w, x, p) = IF p \in DOMAIN w.votes THEN w.votes[p]
                                  ELSE IF w.wipe THEN None ELSE d.votes[x][p]
    BY <1>1, <1>3, CellHere
  <2>3. /\ CellIs(AnswerCell(d, v, x, p), v, p, row)
        /\ VoteCell(d, v, x, p) = IF p \in DOMAIN v.votes THEN v.votes[p]
                                  ELSE IF v.wipe THEN None ELSE d.votes[x][p]
    BY <1>1, <1>2, <1>4, <2>1, CellHere DEF Tells, v
  <2>4. VoteCell(d, v, x, p) = VoteCell(d, w, x, p)
    BY <1>2, <2>2, <2>3
  <2> HIDE DEF row
  <2>5. CellIs(e.answers[x][p], w, p, row) /\ CellIs(f.answers[x][p], v, p, row)
        /\ f.votes[x][p] = e.votes[x][p]
    BY <1>1, <1>5, <1>6, <2>2, <2>3, <2>4
  <2>6. p \in Answered(play) => p \in DOMAIN v.points /\ v.points[p] = play.answers[p].points
    BY <1>2
  <2> QED BY <1>2, <2>5, <2>6 DEF CellIs
<1>10. \A y \in Questions, p \in Players : f.votes[y][p] = e.votes[y][p]
  BY <1>8, <1>9
<1>11. PaidRows(e, f, play, score)
  <2>1. f.joined = e.joined /\ f.removed = e.removed /\ f.extraTime = e.extraTime
    BY <1>2, <1>5, <1>6
  <2> QED BY <1>7, <1>8, <1>9, <1>10, <2>1 DEF PaidRows, x
<1> QED BY <1>4, <1>5, <1>6, <1>11 DEF e, f


\* State l and rows e before a reveal, state m and rows f after it; i is the entry of the
\* question in the log.
Revealing(l, e, m, f, i) ==
  /\ l \in Lives /\ e \in Stores /\ m \in Lives /\ f \in Stores /\ l.play \in Plays
  /\ Accounts(e) /\ Mirrors(l, e) /\ PlayOf(l.play, e) /\ LogPlaced(l)
  /\ l.phase \in QuestionPhases /\ Cursor(l) = l.play.at
  /\ KindOf(l.play.at) = "lie" => l.play.options # None
  /\ i \in DOMAIN l.log /\ l.log[i].at = l.play.at /\ ~l.log[i].skipped
  /\ EntryFits(l.play, e, l.log[i])
  /\ Reveals(l, m, i) /\ SameRow(m, f.row) /\ PaidRows(e, f, m.play, m.score)

LEMMA RevealedLog ==
  ASSUME NEW l, NEW e, NEW m, NEW f, NEW i, Revealing(l, e, m, f, i)
  PROVE  /\ l.log = e.row.log /\ f.row.log = m.log /\ DOMAIN m.log = DOMAIN l.log
         /\ e.row.phaseId = l.phaseId /\ f.row.phaseId = l.phaseId + 1 /\ l.phaseId \in Nat
         /\ \A j \in DOMAIN l.log : /\ l.log[j].at \in Questions /\ l.log[j].opened \in Nat
                                    /\ l.log[j].revealed \in Maybe(Nat)
                                    /\ l.log[j].at = l.play.at => j = i
                                    /\ EntryOK(e.row, l.log[j])
                                    /\ j # i => m.log[j] = l.log[j]
         /\ m.log[i].at = l.play.at /\ m.log[i].opened = l.log[i].opened
         /\ m.log[i].revealed = l.phaseId + 1 /\ ~m.log[i].skipped /\ l.log[i].revealed = None
<1>1. /\ l.log = e.row.log /\ f.row.log = m.log /\ e.row.phaseId = l.phaseId
      /\ f.row.phaseId = l.phaseId + 1
      /\ m.log = [l.log EXCEPT ![i].revealed = l.phaseId + 1]
  BY DEF Revealing, Mirrors, SameRow, Reveals
<1>2. l.phaseId \in Nat /\ e \in Stores /\ l.log \in Seq(Entries)
  BY DEF Revealing, Lives
<1>3. \A j \in DOMAIN l.log : /\ l.log[j] \in Entries /\ l.log[j].at \in Questions
                              /\ l.log[j].opened \in Nat /\ l.log[j].revealed \in Maybe(Nat)
  BY <1>1, <1>2, LogEntry
<1>4. i \in DOMAIN l.log /\ l.log[i].at = l.play.at /\ ~l.log[i].skipped
      /\ LogPlaced(l) /\ l.phase \in QuestionPhases /\ Cursor(l) = l.play.at /\ LogOK(e.row)
  BY DEF Revealing, Accounts
<1>5. l.log[i].revealed = None
  BY <1>4 DEF LogPlaced, EntryPlaced, AtPhases, RevealPhases, QuestionPhases
<1>6. \A j \in DOMAIN l.log : /\ l.log[j].at = l.play.at => j = i
                              /\ EntryOK(e.row, l.log[j])
  BY <1>1, <1>4 DEF LogOK, Once
<1>7. /\ DOMAIN m.log = DOMAIN l.log /\ \A j \in DOMAIN l.log : j # i => m.log[j] = l.log[j]
      /\ m.log[i] = [l.log[i] EXCEPT !.revealed = l.phaseId + 1]
  BY <1>1, <1>4
<1>8. /\ m.log[i].at = l.log[i].at /\ m.log[i].opened = l.log[i].opened
      /\ m.log[i].revealed = l.phaseId + 1 /\ m.log[i].skipped = l.log[i].skipped
  BY <1>3, <1>4, <1>7 DEF Entries
<1> QED BY <1>1, <1>2, <1>3, <1>4, <1>5, <1>6, <1>7, <1>8

LEMMA RevealedLogOK ==
  ASSUME NEW l, NEW e, NEW m, NEW f, NEW i, Revealing(l, e, m, f, i)
  PROVE  LogOK(f.row) /\ LogPlaced(m)
<1> USE RevealedLog
<1>1. Once(m.log)
  <2>1. Once(l.log)
    BY DEF Revealing, Accounts, LogOK
  <2>2. \A j \in DOMAIN m.log : m.log[j].at = l.log[j].at
    BY DEF Revealing
  <2> QED BY <2>1, <2>2 DEF Once
<1>2. ASSUME NEW j \in DOMAIN m.log PROVE EntryOK(f.row, m.log[j])
  <2>1. CASE j = i
    <3>1. l.log[i].opened <= l.phaseId /\ l.log[i].opened \in Nat /\ i \in DOMAIN l.log
      BY DEF EntryOK, Revealing
    <3>2. l.phaseId + 1 # None
      BY NoneAssumption
    <3> QED BY <2>1, <3>1, <3>2 DEF EntryOK
  <2>2. CASE j # i
    BY <2>2, NoneAssumption DEF EntryOK, Maybe
  <2> QED BY <2>1, <2>2
<1>3. LogOK(f.row)
  BY <1>1, <1>2 DEF LogOK
<1>4. m.phase = "reveal" /\ Cursor(m) = l.play.at /\ LogPlaced(l) /\ Cursor(l) = l.play.at
      /\ l.phase \in QuestionPhases /\ i \in DOMAIN l.log
  BY DEF Revealing, Reveals
<1>5. ASSUME NEW j \in DOMAIN m.log PROVE EntryPlaced(m, m.log[j])
  <2>5. DOMAIN m.log = DOMAIN l.log
    OBVIOUS
  <2>3. j \in DOMAIN l.log /\ m.log[j].at = l.log[j].at
    <3>1. j = i => m.log[j].at = l.log[j].at
      BY DEF Revealing
    <3>2. j # i => m.log[j] = l.log[j]
      BY <2>5
    <3> QED BY <2>5, <3>1, <3>2
  <2>4. EntryPlaced(l, l.log[j])
    BY <1>4, <2>3 DEF LogPlaced
  <2>1. UpTo(m.log[j].at, Cursor(m))
    BY <1>4, <2>3, <2>4 DEF EntryPlaced, AtPhases
  <2>2. m.log[j].at = Cursor(m) => m.log[j].revealed # None
    BY <1>4, NoneAssumption
  <2> QED BY <1>4, <2>1, <2>2 DEF EntryPlaced, RevealPhases
<1>6. Cursor(m) \in Asked(m.log)
  BY <1>4 DEF Asked
<1> QED BY <1>3, <1>4, <1>5, <1>6 DEF LogPlaced


LEMMA RevealedUnrevealed ==
  ASSUME NEW l, NEW e, NEW m, NEW f, NEW i, Revealing(l, e, m, f, i)
  PROVE  /\ Unrevealed(l, e, l.log[i]) /\ l.play.favourite = None
         /\ m.play \in Plays /\ m.play.at = l.play.at /\ m.play.at \in Questions
         /\ m.play.eligible = l.play.eligible /\ m.play.votes = l.play.votes
         /\ m.play.options = l.play.options /\ m.play.favourite = l.play.favourite
         /\ m.play.scored /\ m.play.counted = EligibleNow(l)
         /\ \A p \in Players : m.play.answers[p] = MarkedAnswer(l, p)
         /\ f.joined = e.joined /\ f.removed = e.removed /\ l.removed = e.removed
         /\ l.joined = e.joined /\ m.removed = l.removed
<1>1. l.play \in Plays /\ m.play = ScoredPlay(l) /\ m.play \in Plays
  BY DEF Revealing, Reveals
<1>2. /\ m.play.at = l.play.at /\ m.play.eligible = l.play.eligible
      /\ m.play.votes = l.play.votes /\ m.play.options = l.play.options
      /\ m.play.favourite = l.play.favourite
      /\ m.play.scored /\ m.play.counted = EligibleNow(l)
      /\ \A p \in Players : m.play.answers[p] = MarkedAnswer(l, p)
  <2> DEFINE marked  == [p \in Players |-> MarkedAnswer(l, p)]
             present == EligibleNow(l)
  <2>1. m.play = [l.play EXCEPT !.scored = TRUE, !.counted = present, !.answers = marked]
    BY <1>1 DEF ScoredPlay
  <2>2. \A p \in Players : marked[p] = MarkedAnswer(l, p)
    OBVIOUS
  <2> HIDE DEF marked, present
  <2>3. /\ m.play.at = l.play.at /\ m.play.eligible = l.play.eligible
        /\ m.play.votes = l.play.votes /\ m.play.options = l.play.options
        /\ m.play.favourite = l.play.favourite
        /\ m.play.scored /\ m.play.counted = present /\ m.play.answers = marked
    BY <1>1, <2>1 DEF Plays
  <2> QED BY <2>2, <2>3 DEF present
<1>3. m.play.at \in Questions
  BY <1>1 DEF Plays
<1>4. l.joined = e.joined /\ l.removed = e.removed /\ f.joined = e.joined /\ f.removed = e.removed
      /\ m.removed = l.removed
  BY DEF Revealing, Mirrors, PaidRows, Reveals
<1>5. l.log[i].revealed = None
  BY RevealedLog
<1>6. EntryFits(l.play, e, l.log[i]) /\ PlayOf(l.play, e)
  BY DEF Revealing
<1>7. ~l.play.scored
  BY <1>5, <1>6 DEF EntryFits
<1>8. Unrevealed(l, e, l.log[i]) /\ l.play.favourite = None
  BY <1>4, <1>5, <1>6, <1>7 DEF Unrevealed, PlayOf, OptionsFit
<1> QED BY <1>1, <1>2, <1>3, <1>4, <1>8

\* The reveal is in the accounts.
LEMMA RevealedAccounts ==
  ASSUME NEW l, NEW e, NEW m, NEW f, NEW i, Revealing(l, e, m, f, i)
  PROVE  Accounts(f)
<1> DEFINE x == l.play.at
<1>1. /\ l \in Lives /\ e \in Stores /\ f \in Stores /\ Accounts(e) /\ i \in DOMAIN l.log
      /\ PlayOf(l.play, e) /\ Mirrors(l, e) /\ PaidRows(e, f, m.play, m.score)
      /\ m.score = NewScore(l) /\ l.play \in Plays
  BY DEF Revealing, Reveals
<1>2. /\ l.log = e.row.log /\ f.row.log = m.log /\ DOMAIN m.log = DOMAIN l.log
      /\ e.row.phaseId = l.phaseId /\ f.row.phaseId = l.phaseId + 1 /\ l.phaseId \in Nat
      /\ \A j \in DOMAIN l.log : /\ l.log[j].at \in Questions
                                 /\ l.log[j].at = x => j = i
                                 /\ j # i => m.log[j] = l.log[j]
      /\ m.log[i].at = x /\ m.log[i].revealed = l.phaseId + 1 /\ l.log[i].revealed = None
      /\ l.log[i].at = x
  BY RevealedLog DEF Revealing
<1>3. /\ Unrevealed(l, e, l.log[i]) /\ m.play.at = x /\ x \in Questions
      /\ m.play.votes = l.play.votes /\ m.play.counted = EligibleNow(l)
      /\ \A p \in Players : m.play.answers[p] = MarkedAnswer(l, p)
      /\ f.removed = e.removed /\ l.removed = e.removed /\ f.joined = e.joined
  BY RevealedUnrevealed
<1> HIDE DEF x
<1>4. /\ \A y \in Questions \ {x}, p \in Players : f.answers[y][p] = e.answers[y][p]
      /\ \A y \in Questions, p \in Players : f.votes[y][p] = e.votes[y][p]
      /\ \A p \in Players : f.answers[x][p] = None <=> e.answers[x][p] = None
      /\ \A p \in Players : f.answers[x][p] # None /\ p \in Answered(m.play) =>
           f.answers[x][p].points = m.play.answers[p].points
      /\ \A p \in Players : f.score[p] = IF p \in EligibleNow(l) THEN m.score[p] ELSE e.score[p]
  BY <1>1, <1>3 DEF PaidRows
<1>5. LogOK(f.row)
  BY RevealedLogOK
<1>6. StampsOK(f)
  BY <1>1, <1>2, <1>3 DEF Accounts, StampsOK, Stores, Positions, Maybe
<1>7. Ahead(f)
  <2>1. Asked(f.row.log) = Asked(e.row.log)
    BY <1>1, <1>2 DEF Asked
  <2>2. x \in Asked(e.row.log)
    BY SMTT(60), <1>1, <1>2 DEF Asked
  <2> QED BY <1>1, <1>4, <2>1, <2>2 DEF Accounts, Ahead
<1>8. Unpaid(f)
  <2> SUFFICES ASSUME NEW j \in DOMAIN f.row.log, f.row.log[j].revealed = None, NEW p \in Players,
                      f.answers[f.row.log[j].at][p] # None
               PROVE  f.answers[f.row.log[j].at][p].points = 0
    BY ZenonT(60) DEF Unpaid
  <2>1. j # i
    BY <1>2, NoneAssumption
  <2>2. f.row.log[j] = e.row.log[j] /\ j \in DOMAIN e.row.log /\ f.row.log[j].at \in Questions \ {x}
    BY <1>2, <2>1
  <2>3. f.answers[f.row.log[j].at][p] = e.answers[e.row.log[j].at][p]
    <3> DEFINE y == f.row.log[j].at
    <3>1. y = e.row.log[j].at /\ y \in Questions \ {x}
      BY <2>2
    <3> HIDE DEF y
    <3>2. f.answers[y][p] = e.answers[y][p]
      BY <1>4, <3>1, Zenon
    <3> QED BY <3>1, <3>2, Zenon DEF y
  <2>4. e.answers[e.row.log[j].at][p].points = 0
    <3>1. Accounts(e) /\ e.row.log[j].revealed = None /\ e.answers[e.row.log[j].at][p] # None
      BY <1>1, <2>2, <2>3, Zenon
    <3> QED BY <2>2, <3>1, UnpaidIs, Zenon
  <2> QED BY <2>3, <2>4, Zenon
<1>9. AddsUp(f)
  <2>1. ASSUME NEW y \in Questions \ {x}, NEW p \in Players PROVE Held(f, y, p) = Held(e, y, p)
    <3>1. Seen(f, y, p) <=> Seen(e, y, p)
      BY <1>1, <1>2, <1>3 DEF Seen, SeenAtReveal
    <3> QED BY <1>4, <3>1 DEF Held
  <2>2. ASSUME NEW p \in Players PROVE f.score[p] = e.score[p] + Held(f, x, p) - Held(e, x, p)
    <3>1. Held(e, x, p) = 0
      <4>1. ~Seen(e, x, p)
        BY <1>2 DEF Seen
      <4>2. e.answers[x][p] # None => e.answers[x][p].points = 0
        BY <1>1, <1>2 DEF Accounts, Unpaid
      <4> QED BY <4>1, <4>2 DEF Held
    <3>2. Seen(f, x, p) <=> e.removed[p] = None
      <4>1. e.removed[p] # None => e.removed[p] <= l.phaseId /\ e.removed[p] \in Nat
        BY <1>1, <1>2 DEF Accounts, StampsOK, Stores, Positions, Maybe
      <4>2. Seen(f, x, p) <=> SeenAtReveal(f, m.log[i], p)
        BY <1>1, <1>2, NoneAssumption DEF Seen
      <4>3. SeenAtReveal(f, m.log[i], p) <=> e.removed[p] = None \/ e.removed[p] >= l.phaseId + 1
        BY <1>2, <1>3 DEF SeenAtReveal
      <4> QED BY <1>2, <4>1, <4>2, <4>3
    <3>3. /\ l.play.answers[p] = None <=> e.answers[x][p] = None
          /\ f.votes[x][p] = l.play.votes[p]
      BY <1>1, <1>3, <1>4 DEF PlayOf, Stored, SameAnswer, x
    <3>4. f.answers[x][p] # None => f.answers[x][p].points = MarkedAnswer(l, p).points
      <4>1. l.play.answers[p] # None => m.play.answers[p] # None
        BY <1>1, <1>3, MarkedAnswerTyped
      <4> QED BY <1>3, <1>4, <3>3, <4>1 DEF Answered
    <3>5. Held(f, x, p) = (IF l.play.answers[p] = None THEN 0 ELSE MarkedAnswer(l, p).points)
                        + (IF l.play.votes[p] = Truth /\ l.removed[p] = None THEN 1 ELSE 0)
      BY <1>3, <1>4, <3>2, <3>3, <3>4 DEF Held
    <3>6. NewScore(l)[p] = l.score[p]
           + (IF l.play.answers[p] = None THEN 0 ELSE MarkedAnswer(l, p).points)
           + (IF l.play.votes[p] = Truth /\ l.removed[p] = None THEN 1 ELSE 0)
      BY <1>1, <1>3, PaysPoints
    <3>7. Held(f, x, p) \in Int /\ e.score[p] \in Int /\ l.score = e.score
      BY <1>1, <1>3, HeldTyped DEF Stores, Mirrors
    <3>8. f.score[p] = NewScore(l)[p]
      <4>1. p \notin EligibleNow(l) => NewScore(l)[p] = l.score[p]
        BY DEF NewScore
      <4> QED BY <1>1, <1>4, <3>7, <4>1
    <3>9. NewScore(l)[p] = e.score[p] + Held(f, x, p)
      <4>1. l.play.answers[p] # None => MarkedAnswer(l, p).points \in Int
        BY <1>1, MarkedAnswerTyped DEF Maybe, Answers
      <4> QED BY <3>5, <3>6, <3>7, <4>1
    <3> QED BY <3>1, <3>7, <3>8, <3>9
  <2> QED BY <1>1, <1>3, <2>1, <2>2, ScoresMove DEF Accounts
<1> QED BY <1>5, <1>6, <1>7, <1>8, <1>9 DEF Accounts


\* What an answer that can be seen drew is what the rows say it drew.
LEMMA RevealedDraws ==
  ASSUME NEW l, NEW e, NEW m, NEW f, NEW i, Revealing(l, e, m, f, i), NEW p \in Players,
         IsParty(l.play.at), p \in Visible(l.play)
  PROVE  MarkedAnswer(l, p).points = Cardinality(Drawn(f, m.log[i], p))
<1>1. /\ l \in Lives /\ l.play \in Plays /\ e \in Stores /\ Accounts(e) /\ PlayOf(l.play, e)
      /\ PaidRows(e, f, m.play, m.score) /\ i \in DOMAIN l.log
  BY DEF Revealing
<1>2. m.log[i].revealed = l.phaseId + 1 /\ m.log[i].at = l.play.at /\ l.phaseId \in Nat
      /\ e.row.phaseId = l.phaseId
  BY RevealedLog
<1>3. f.removed = e.removed /\ l.removed = e.removed /\ l.play.at \in Questions
  BY RevealedUnrevealed
<1>4. \A v \in Players : SeenAtReveal(f, m.log[i], v) <=> l.removed[v] = None
  <2> TAKE v \in Players
  <2>1. e.removed[v] # None => e.removed[v] <= l.phaseId /\ e.removed[v] \in Nat
    BY <1>1, <1>2 DEF Accounts, StampsOK, Stores, Positions, Maybe
  <2>2. SeenAtReveal(f, m.log[i], v) <=> e.removed[v] = None \/ e.removed[v] >= l.phaseId + 1
    BY <1>2, <1>3 DEF SeenAtReveal
  <2> QED BY <1>2, <1>3, <2>1, <2>2
<1>5. \A v \in Players : f.votes[l.play.at][v] = l.play.votes[v]
  BY <1>1, <1>3 DEF PlayOf, Stored, PaidRows
<1>6. Drawn(f, m.log[i], p) = {v \in {v \in Players : l.removed[v] = None} : l.play.votes[v] = p}
  BY <1>2, <1>4, <1>5 DEF Drawn
<1>7. Earned(l, p) = Cardinality(Drawn(f, m.log[i], p))
  BY <1>6 DEF Earned, VotesFor
<1>8. l.play.answers[p] # None
  BY DEF Visible, Answered
<1> QED BY <1>1, <1>7, <1>8, MarkedIs

LEMMA RevealedPlay ==
  ASSUME NEW l, NEW e, NEW m, NEW f, NEW i, Revealing(l, e, m, f, i)
  PROVE  PlayOf(m.play, f)
<1> DEFINE x == l.play.at
           play == m.play
<1>1. /\ l \in Lives /\ l.play \in Plays /\ e \in Stores /\ Accounts(e) /\ PlayOf(l.play, e)
      /\ PaidRows(e, f, play, m.score) /\ i \in DOMAIN l.log
      /\ EntryFits(l.play, e, l.log[i]) /\ (KindOf(x) = "lie" => l.play.options # None)
  BY DEF Revealing
<1>2. /\ m.log[i].revealed = l.phaseId + 1 /\ m.log[i].at = x /\ l.phaseId \in Nat
      /\ m.log[i].opened = l.log[i].opened /\ i \in DOMAIN m.log
      /\ e.row.phaseId = l.phaseId /\ f.row.log = m.log
  BY RevealedLog DEF Revealing
<1>3. /\ Unrevealed(l, e, l.log[i]) /\ l.play.favourite = None
      /\ play \in Plays /\ play.at = x /\ x \in Questions
      /\ play.eligible = l.play.eligible /\ play.votes = l.play.votes
      /\ play.options = l.play.options /\ play.favourite = l.play.favourite
      /\ play.scored /\ play.counted = EligibleNow(l)
      /\ \A p \in Players : play.answers[p] = MarkedAnswer(l, p)
      /\ f.joined = e.joined /\ f.removed = e.removed /\ l.removed = e.removed
      /\ l.joined = e.joined
  BY RevealedUnrevealed
<1>4. \A p \in Players : p \in Visible(l.play) /\ IsParty(x) =>
         MarkedAnswer(l, p).points = Cardinality(Drawn(f, m.log[i], p))
  BY RevealedDraws
<1>5. \A p \in Players :
         /\ play.answers[p] = None <=> l.play.answers[p] = None
         /\ play.answers[p] # None => /\ play.answers[p].payload = l.play.answers[p].payload
                                      /\ play.answers[p].hidden = l.play.answers[p].hidden
  BY <1>1, <1>3, MarkedIs
<1> HIDE DEF x, play
<1>6. EntryFits(play, f, m.log[i])
  <2>1. \A p \in Players : e.removed[p] # None => e.removed[p] <= l.phaseId /\ e.removed[p] \in Nat
    BY <1>1, <1>2 DEF Accounts, StampsOK, Stores, Positions, Maybe
  <2>2. \A p \in Players : SeenAtReveal(f, m.log[i], p) <=> l.removed[p] = None
    <3> TAKE p \in Players
    <3>1. SeenAtReveal(f, m.log[i], p) <=> e.removed[p] = None \/ e.removed[p] >= l.phaseId + 1
      BY <1>2, <1>3 DEF SeenAtReveal
    <3> QED BY <1>2, <1>3, <2>1, <3>1
  <2>3. play.eligible = {p \in Players : /\ f.joined[p] # None /\ f.joined[p] < m.log[i].opened
                                         /\ f.removed[p] = None \/ f.removed[p] >= m.log[i].opened}
    BY <1>1, <1>2, <1>3 DEF EntryFits
  <2>4. play.counted = {p \in play.eligible : SeenAtReveal(f, m.log[i], p)}
    <3>1. play.eligible \in SUBSET Players /\ \A p \in play.eligible : l.joined[p] # None
      BY <1>1, <1>3 DEF EntryFits, Plays
    <3>2. play.counted = {p \in play.eligible : l.removed[p] = None}
      BY <1>3, <3>1 DEF EligibleNow, Active
    <3> QED BY <2>2, <3>1, <3>2
  <2>5. ASSUME KindOf(x) = "caption", NEW p \in Players, play.answers[p] # None,
               ~play.answers[p].hidden
        PROVE  play.answers[p].points
                 = Cardinality(Drawn(f, m.log[i], p)) + (IF play.favourite = p THEN 1 ELSE 0)
    <3>1. p \in Visible(l.play) /\ IsParty(x)
      BY <1>5, <2>5 DEF Visible, Answered, IsParty
    <3>2. play.answers[p].points = Cardinality(Drawn(f, m.log[i], p))
      BY <1>3, <1>4, <3>1
    <3>3. play.favourite # p
      BY <1>3, NoneAssumption
    <3>4. play.answers[p].points \in Int
      BY <1>3, <2>5 DEF Plays, Maybe, Answers
    <3> QED BY <3>2, <3>3, <3>4
  <2>6. m.log[i].revealed # None
    BY <1>2, NoneAssumption
  <2> QED BY <1>2, <1>3, <2>3, <2>4, <2>5, <2>6 DEF EntryFits
<1>7. ASSUME NEW p \in Players PROVE Stored(play, f, p) /\ Fair(play, f, p)
  <2>1. /\ Stored(l.play, e, p) /\ Fair(l.play, e, p)
    BY SMTT(60), <1>1 DEF PlayOf
  <2>2. f.votes[x][p] = e.votes[x][p] /\ l.play.votes[p] = e.votes[x][p]
    <3>1. f.votes[x][p] = e.votes[x][p]
      BY <1>1, <1>3, Zenon DEF PaidRows
    <3>2. l.play.votes[p] = e.votes[x][p]
      BY <2>1, Zenon DEF Stored, x
    <3> QED BY <3>1, <3>2
  <2>3. play.answers[p] = None => f.answers[x][p] = None
    <3>1. l.play.answers[p] = None => e.answers[x][p] = None
      BY <2>1, Zenon DEF Stored, SameAnswer, x
    <3>2. e.answers[x][p] = None => f.answers[x][p] = None
      BY <1>1, <1>3, Zenon DEF PaidRows
    <3> QED BY <1>1, <1>3, <1>5, <3>1, <3>2
  <2>4. ASSUME play.answers[p] # None
        PROVE  /\ f.answers[x][p] # None /\ play.answers[p].payload = f.answers[x][p].payload
               /\ play.answers[p].points = f.answers[x][p].points
               /\ IsParty(x) => play.answers[p].hidden = f.answers[x][p].hidden
    <3>1. e.answers[x][p] # None /\ l.play.answers[p].payload = e.answers[x][p].payload
          /\ (IsParty(x) => l.play.answers[p].hidden = e.answers[x][p].hidden)
      BY <1>5, <2>1, <2>4 DEF Stored, SameAnswer, x
    <3>2. /\ f.answers[x][p] # None /\ f.answers[x][p].payload = e.answers[x][p].payload
          /\ f.answers[x][p].hidden = e.answers[x][p].hidden
          /\ p \in Answered(play) => f.answers[x][p].points = play.answers[p].points
      BY <1>1, <1>3, <3>1 DEF PaidRows
    <3> QED BY <1>5, <2>4, <3>1, <3>2 DEF Answered
  <2>5. Stored(play, f, p)
    BY <1>3, <2>2, <2>3, <2>4 DEF Stored, SameAnswer
  <2>6. Fair(play, f, p)
    <3>1. play.answers[p] # None /\ play.answers[p].points # 0 => p \in play.counted
      BY <1>1, <1>3, <1>5, GoneEarnNothing
    <3> QED BY <1>3, <1>5, <2>1, <3>1 DEF Fair, x
  <2> QED BY <2>5, <2>6
<1>8. OptionsFit(play, f)
  <2>1. Shown(f, x) = Shown(e, x)
    <3>1. \A p \in Players : (f.answers[x][p] # None /\ f.answers[x][p].shown)
                               <=> (e.answers[x][p] # None /\ e.answers[x][p].shown)
      BY <1>1, <1>3 DEF PaidRows
    <3> QED BY <3>1 DEF Shown
  <2>2. OptionsFit(l.play, e)
    BY <1>1 DEF PlayOf
  <2> QED BY <1>1, <1>3, <2>1, <2>2 DEF OptionsFit, Offered, x
<1> QED BY <1>2, <1>6, <1>7, <1>8 DEF PlayOf, play

\* The reveal, from any phase of the question.
LEMMA RevealQuestionSound ==
  ASSUME NEW d, NEW s, Level(d, s), InPlay(s), Here(s.live), s.live.phase \in QuestionPhases,
         DOMAIN s.writes.scores = {}, s.writes.question \in {None, s.live.play.at},
         KindOf(s.live.play.at) = "lie" => s.live.play.options # None
  PROVE  Sound(d, RevealQuestion(s))
<1> DEFINE l == s.live
           e == Lands(d, s)
           u == RevealQuestion(s)
           m == u.live
           f == Lands(d, u)
<1>1. /\ LogPlaced(l) /\ l \in Lives /\ e \in Stores /\ Tells(d, s) /\ Accounts(e)
      /\ Mirrors(l, e) /\ l.play \in Plays /\ l.play # None
  BY LevelHere, RowsAssumption DEF Level, Base, Fits, InPlay
<1>2. PlayOf(l.play, e) /\ l.play.at = Cursor(l)
      /\ (\A i \in DOMAIN l.log : l.log[i].at = Cursor(l) => ~l.log[i].skipped)
  BY <1>1 DEF Level, Fits, Here, AtPhases
<1>3. PICK i \in DOMAIN l.log : /\ l.log[i].at = l.play.at /\ EntryOf(l.log, l.play.at) = i
                                /\ EntryFits(l.play, e, l.log[i])
  BY <1>1, PlayEntry
<1>4. ~l.play.scored
  BY <1>1, <1>2, <1>3 DEF LogPlaced, EntryPlaced, EntryFits, AtPhases, RevealPhases, QuestionPhases
<1>5. /\ Good(u) /\ Reveals(l, m, i) /\ u.writes = Pays(s.writes, m.play, m.score)
  BY <1>3, <1>4, RevealQuestionReveals
<1>6. m \in Lives /\ m.play \in Plays /\ m.score \in [Players -> Int]
  BY SMTT(60), <1>5, GoodTypes DEF Reveals, Lives
<1> HIDE DEF u, l
<1>7. m.play.at = l.play.at
  BY ZenonT(60), <1>1, <1>5 DEF Reveals, ScoredPlay, Plays
<1>8. /\ Tells(d, u) /\ f \in Stores /\ f.row = Row(m) /\ PaidRows(e, f, m.play, m.score)
  <2>1. s.writes.question \in {None, m.play.at}
    BY <1>7 DEF l
  <2> HIDE DEF m
  <2> QED BY <1>1, <1>5, <1>6, <2>1, PaysLand DEF m
<1>9. SameRow(m, f.row)
  BY <1>5, <1>8, GoodTypes
<1> HIDE DEF m, f, e
<1>10. Revealing(l, e, m, f, i)
  BY <1>1, <1>2, <1>3, <1>5, <1>6, <1>8, <1>9 DEF Revealing, l
<1>11. Accounts(f) /\ LogPlaced(m) /\ PlayOf(m.play, f)
  BY <1>10, RevealedAccounts, RevealedLogOK, RevealedPlay
<1>12. LogPlaced(f.row)
  BY <1>9, <1>11, SameRowPlaced
<1>13. Mirrors(m, f)
  <2>1. m.joined = f.joined /\ m.removed = f.removed /\ m.extraTime = f.extraTime
    BY <1>1, <1>5, <1>8 DEF Mirrors, Reveals, PaidRows
  <2>2. m.score = f.score
    <3>1. f.score \in [Players -> Int] /\ m.score \in [Players -> Int]
      BY <1>6, <1>8 DEF Stores
    <3>2. m.score = NewScore(l) /\ l.score = e.score /\ m.play.counted = EligibleNow(l)
      BY <1>1, <1>5, <1>10, RevealedUnrevealed DEF Mirrors, Reveals
    <3>3. \A p \in Players : f.score[p] = IF p \in m.play.counted THEN m.score[p] ELSE e.score[p]
      BY <1>8 DEF PaidRows
    <3>4. \A p \in Players : p \notin EligibleNow(l) => m.score[p] = e.score[p]
      BY <3>2 DEF NewScore
    <3>5. \A p \in Players : m.score[p] = f.score[p]
      BY <3>2, <3>3, <3>4
    <3> QED BY <3>1, <3>5
  <2>3. m.hasScored /\ \E j \in DOMAIN f.row.log : f.row.log[j].revealed # None
    <3>1. m.log[i].revealed = l.phaseId + 1 /\ l.phaseId \in Nat /\ f.row.log = m.log
          /\ i \in DOMAIN m.log
      BY <1>3, <1>10, RevealedLog
    <3> QED BY <1>5, <3>1, NoneAssumption DEF Reveals
  <2> QED BY <1>9, <2>1, <2>2, <2>3 DEF Mirrors
<1>14. PhaseFits(m)
  BY <1>5, <1>6, <1>7 DEF PhaseFits, Here, Suits, Reveals, RevealPhases, QuestionPhases, AtPhases
<1> QED BY <1>8, <1>11, <1>12, <1>13, <1>14 DEF Sound, Level, Base, Fits, m, f, u


----------------------------------------------------------------------------
(* An answer round goes to the vote. *)

LEMMA LandsOf ==
  ASSUME NEW d, NEW s, Tells(d, s)
  PROVE  /\ d \in Stores /\ Good(s) /\ s.writes \in Writes /\ Bare(s.writes)
         /\ ~Conflicts(d, s.writes)
         /\ Lands(d, s) \in Stores /\ Lands(d, s).row = Row(s.live)
         /\ Lands(d, s).joined = Over(s.writes.joined, d.joined)
         /\ Lands(d, s).removed = Over(s.writes.removed, d.removed)
         /\ Lands(d, s).extraTime = Over(s.writes.extraTime, d.extraTime)
         /\ Lands(d, s).score = Over(s.writes.scores, d.score)
         /\ \A x \in Questions, p \in Players :
              /\ Lands(d, s).answers[x][p] = AnswerCell(d, s.writes, x, p)
              /\ Lands(d, s).votes[x][p] = VoteCell(d, s.writes, x, p)
BY LandsFields, GoodTypes DEF Tells

\* The answers that go to the vote, and what is written of it.
ToVote(play)             == Visible(play) \cup (IF KindOf(play.at) = "lie" THEN {Truth} ELSE {})
Showing(w, x, authors)   == [w EXCEPT !.question = x, !.shown = authors]

\* The rows of the answers that go to the vote.
LEMMA ShownCells ==
  ASSUME NEW d, NEW s, Tells(d, s), NEW x \in Questions, s.writes.question \in {None, x},
         NEW authors \in SUBSET Players,
         NEW t, Good(t), t.writes = Showing(s.writes, x, authors),
         Shown(Lands(d, s), x) = {}
  PROVE  /\ Tells(d, t) /\ Lands(d, t) \in Stores /\ Lands(d, s) \in Stores
         /\ Lands(d, t).row = Row(t.live)
         /\ Lands(d, t).joined = Lands(d, s).joined /\ Lands(d, t).removed = Lands(d, s).removed
         /\ Lands(d, t).extraTime = Lands(d, s).extraTime /\ Lands(d, t).score = Lands(d, s).score
         /\ PaidCells(Lands(d, s), Lands(d, t), Questions)
         /\ \A p \in Players : Lands(d, t).answers[x][p] # None =>
              /\ Lands(d, t).answers[x][p].payload = Lands(d, s).answers[x][p].payload
              /\ Lands(d, t).answers[x][p].hidden = Lands(d, s).answers[x][p].hidden
              /\ Lands(d, t).answers[x][p].shown <=> p \in authors
<1> DEFINE w == s.writes
           v == t.writes
           e == Lands(d, s)
           f == Lands(d, t)
<1>1. /\ d \in Stores /\ d.row.status \in Open /\ Good(s) /\ ~Conflicts(d, w) /\ Bare(w)
      /\ w \in Writes /\ v \in Writes
  BY GoodTypes DEF Tells
<1>2. /\ v.question = x /\ v.shown = authors /\ x # None
      /\ v.wipe = w.wipe /\ v.answers = w.answers /\ v.votes = w.votes
      /\ v.hidden = w.hidden /\ v.joined = w.joined /\ v.removed = w.removed
      /\ v.extraTime = w.extraTime /\ v.points = w.points /\ v.scores = w.scores
  <2>1. v = [w EXCEPT !.question = x, !.shown = authors]
    BY DEF Showing
  <2> HIDE DEF w, v
  <2> QED BY <1>1, <2>1, RowsAssumption DEF Writes
<1>3. w.question \in {None, x} /\ Shown(e, x) = {}
  OBVIOUS
<1>4. Tells(d, t)
  <2> HIDE DEF w, v
  <2>1. ~Conflicts(d, v) /\ Bare(v)
    BY <1>1, <1>2, <1>3 DEF Conflicts, Bare
  <2> QED BY <1>1, <2>1 DEF Tells, v
<1>5. /\ e \in Stores /\ e.joined = Over(w.joined, d.joined)
      /\ e.removed = Over(w.removed, d.removed) /\ e.extraTime = Over(w.extraTime, d.extraTime)
      /\ e.score = Over(w.scores, d.score)
      /\ \A y \in Questions, p \in Players : /\ e.answers[y][p] = AnswerCell(d, w, y, p)
                                             /\ e.votes[y][p] = VoteCell(d, w, y, p)
  BY <1>1, LandsFields
<1>6. /\ f \in Stores /\ f.row = Row(t.live) /\ f.joined = Over(v.joined, d.joined)
      /\ f.removed = Over(v.removed, d.removed) /\ f.extraTime = Over(v.extraTime, d.extraTime)
      /\ f.score = Over(v.scores, d.score)
      /\ \A y \in Questions, p \in Players : /\ f.answers[y][p] = AnswerCell(d, v, y, p)
                                             /\ f.votes[y][p] = VoteCell(d, v, y, p)
  BY <1>4, LandsOf
<1>7. Bare(v)
  BY <1>4 DEF Tells
<1> HIDE DEF w, v, e, f
<1>8. ASSUME NEW y \in Questions \ {x}, NEW p \in Players
      PROVE  f.answers[y][p] = e.answers[y][p] /\ f.votes[y][p] = e.votes[y][p]
  <2>1. w.question # y /\ v.question # y
    BY <1>2, <1>3, RowsAssumption
  <2>2. AnswerCell(d, v, y, p) = AnswerCell(d, w, y, p) /\ VoteCell(d, v, y, p) = VoteCell(d, w, y, p)
    BY <1>2, <2>1 DEF AnswerCell, VoteCell
  <2> QED BY <1>5, <1>6, <2>2
<1>9. ASSUME NEW p \in Players
      PROVE  /\ f.votes[x][p] = e.votes[x][p]
             /\ f.answers[x][p] = None <=> e.answers[x][p] = None
             /\ f.answers[x][p] # None =>
                  /\ f.answers[x][p].payload = e.answers[x][p].payload
                  /\ f.answers[x][p].points = e.answers[x][p].points
                  /\ f.answers[x][p].hidden = e.answers[x][p].hidden
                  /\ f.answers[x][p].shown <=> p \in authors
  <2> DEFINE row == Given(d, w, x, p)
  <2>1. Given(d, v, x, p) = row
    BY <1>2 DEF Given
  <2>2. /\ CellIs(AnswerCell(d, w, x, p), w, p, row)
        /\ VoteCell(d, w, x, p) = IF p \in DOMAIN w.votes THEN w.votes[p]
                                  ELSE IF w.wipe THEN None ELSE d.votes[x][p]
    BY <1>1, <1>3, CellHere
  <2>3. /\ CellIs(AnswerCell(d, v, x, p), v, p, row)
        /\ VoteCell(d, v, x, p) = IF p \in DOMAIN v.votes THEN v.votes[p]
                                  ELSE IF v.wipe THEN None ELSE d.votes[x][p]
    BY <1>1, <1>2, <1>7, <2>1, CellHere
  <2> HIDE DEF row
  <2>4. CellIs(e.answers[x][p], w, p, row) /\ CellIs(f.answers[x][p], v, p, row)
        /\ f.votes[x][p] = e.votes[x][p]
    BY <1>1, <1>2, <1>5, <1>6, <2>2, <2>3
  <2>5. e.answers[x][p] # None => ~e.answers[x][p].shown
    BY <1>3 DEF Shown
  <2>6. e.answers[x][p] # None => e.answers[x][p].shown = (row.shown \/ p \in w.shown)
    BY <2>4 DEF CellIs
  <2>7. f.answers[x][p] # None => f.answers[x][p].shown = (row.shown \/ p \in authors)
    BY <1>2, <2>4 DEF CellIs
  <2>8. f.answers[x][p] # None => f.answers[x][p].shown \in BOOLEAN
    BY <1>6 DEF Stores, Maybe, AnswerRows
  <2>9. f.answers[x][p] = None <=> e.answers[x][p] = None
    BY <2>4 DEF CellIs
  <2>10. f.answers[x][p] # None => (f.answers[x][p].shown <=> p \in authors)
    BY <2>5, <2>6, <2>7, <2>8, <2>9
  <2> QED BY <1>2, <2>4, <2>9, <2>10 DEF CellIs
<1>10. PaidCells(e, f, Questions)
  BY <1>8, <1>9 DEF PaidCells
<1>11. f.joined = e.joined /\ f.removed = e.removed /\ f.extraTime = e.extraTime
       /\ f.score = e.score
  BY <1>2, <1>5, <1>6
<1> QED BY <1>4, <1>5, <1>6, <1>9, <1>10, <1>11 DEF e, f


\* A play goes to the vote with the answers of these authors: in memory, and in the rows.
Puts(play, played, authors, options) ==
  /\ play \in Plays /\ played \in Plays /\ ~play.scored /\ ~played.scored /\ IsParty(play.at)
  /\ authors \in SUBSET Players /\ authors \subseteq Answered(play)
  /\ options # None /\ options \ {Truth} = authors
  /\ Truth \in options <=> KindOf(play.at) = "lie"
  /\ played.at = play.at /\ played.eligible = play.eligible /\ played.answers = play.answers
  /\ played.votes = play.votes /\ played.options = options /\ played.favourite = None
  /\ played.counted = play.counted
Shows(e, f, x, authors) ==
  /\ f.row.log = e.row.log /\ f.joined = e.joined /\ f.removed = e.removed
  /\ \A p \in Players :
       /\ f.answers[x][p] = None <=> e.answers[x][p] = None
       /\ f.votes[x][p] = e.votes[x][p]
       /\ f.answers[x][p] # None => /\ f.answers[x][p].payload = e.answers[x][p].payload
                                    /\ f.answers[x][p].points = e.answers[x][p].points
                                    /\ f.answers[x][p].hidden = e.answers[x][p].hidden
                                    /\ f.answers[x][p].shown <=> p \in authors

LEMMA PlayOffers ==
  ASSUME NEW play, NEW e, NEW f, PlayOf(play, e), NEW authors, NEW options, NEW played,
         Puts(play, played, authors, options), NEW x, x = play.at, Shows(e, f, x, authors)
  PROVE  PlayOf(played, f)
<1>0. x = played.at
  BY Zenon DEF Puts
<1>1. \A p \in Players : Stored(play, e, p) /\ Fair(play, e, p)
  BY DEF PlayOf
<1>2. \A p \in Players :
        /\ f.answers[x][p] = None <=> e.answers[x][p] = None
        /\ f.votes[x][p] = e.votes[x][p]
        /\ f.answers[x][p] # None => /\ f.answers[x][p].payload = e.answers[x][p].payload
                                     /\ f.answers[x][p].points = e.answers[x][p].points
                                     /\ f.answers[x][p].hidden = e.answers[x][p].hidden
                                     /\ f.answers[x][p].shown <=> p \in authors
  BY Zenon DEF Shows
<1>3. \E i \in DOMAIN f.row.log : EntryFits(played, f, f.row.log[i])
  <2>1. PICK i \in DOMAIN e.row.log : EntryFits(play, e, e.row.log[i])
    BY DEF PlayOf
  <2> DEFINE entry == e.row.log[i]
             able  == {p \in Players : /\ e.joined[p] # None /\ e.joined[p] < entry.opened
                                       /\ e.removed[p] = None \/ e.removed[p] >= entry.opened}
  <2>2. entry.at = play.at /\ play.eligible = able /\ entry.revealed = None
    BY <2>1, Zenon DEF EntryFits, Puts
  <2>3. able = {p \in Players : /\ f.joined[p] # None /\ f.joined[p] < entry.opened
                                /\ f.removed[p] = None \/ f.removed[p] >= entry.opened}
    <3>1. f.joined = e.joined /\ f.removed = e.removed
      BY Zenon DEF Shows
    <3> QED BY <3>1
  <2>4. f.row.log = e.row.log
    BY Zenon DEF Shows
  <2> HIDE DEF able, entry
  <2>5. EntryFits(played, f, entry)
    BY <2>2, <2>3, Zenon DEF EntryFits, Puts
  <2> QED BY <2>4, <2>5, Zenon DEF entry
<1>4. ASSUME NEW p \in Players PROVE Stored(played, f, p)
  <2>1. Stored(play, e, p)
    BY <1>1
  <2>2. /\ f.answers[x][p] = None <=> e.answers[x][p] = None
        /\ f.votes[x][p] = e.votes[x][p]
        /\ f.answers[x][p] # None =>
             /\ f.answers[x][p].payload = e.answers[x][p].payload
             /\ f.answers[x][p].points = e.answers[x][p].points
             /\ f.answers[x][p].hidden = e.answers[x][p].hidden
    BY <1>2, Zenon
  <2>3. played.answers = play.answers /\ played.votes = play.votes
    BY Zenon DEF Puts
  <2> QED BY <1>0, <2>1, <2>2, <2>3, StoredStays
<1>5. ASSUME NEW p \in Players PROVE Fair(played, f, p)
  <2>1. Fair(play, e, p)
    BY <1>1
  <2>2. /\ played.answers = play.answers /\ played.votes = play.votes /\ played.at = play.at
        /\ played.eligible = play.eligible /\ played.counted = play.counted
        /\ ~play.scored /\ f.removed = e.removed
    BY Zenon DEF Puts, Shows
  <2> QED BY <2>1, <2>2, Zenon DEF Fair
<1>6. OptionsFit(played, f)
  <2>1. \A p \in authors : f.answers[x][p] # None
    <3> TAKE p \in authors
    <3>1. p \in Players /\ play.answers[p] # None
      BY Zenon DEF Puts, Answered
    <3>2. SameAnswer(play.at, play.answers[p], e.answers[x][p])
      BY <1>1, <3>1, Zenon DEF Stored
    <3>3. e.answers[x][p] # None
      BY <3>1, <3>2, Zenon DEF SameAnswer
    <3> QED BY <1>2, <3>1, <3>3, Zenon
  <2>2. authors \subseteq Players
    BY DEF Puts
  <2>3. Shown(f, x) = authors
    <3>1. ASSUME NEW p \in Players
          PROVE  f.answers[x][p] # None /\ f.answers[x][p].shown <=> p \in authors
      BY <1>2, <2>1, Zenon
    <3> QED BY <2>2, <3>1, Zenon DEF Shown
  <2>4. Offered(played) = authors
    BY Zenon DEF Offered, Puts
  <2> QED BY <1>0, <2>3, <2>4, Zenon DEF OptionsFit, Puts
<1> QED BY <1>3, <1>4, <1>5, <1>6, Zenon DEF PlayOf

LEMMA ShownLevel ==
  ASSUME NEW d, NEW s, Level(d, s), InPlay(s), Here(s.live), s.live.phase \in QuestionPhases,
         IsParty(s.live.play.at), s.live.play.options = None,
         s.writes.question \in {None, s.live.play.at},
         NEW played, played = [s.live.play EXCEPT !.options = ToVote(s.live.play)],
         NEW t, Good(t), t.writes = Showing(s.writes, s.live.play.at, Visible(s.live.play)),
         t.live = [s.live EXCEPT !.play = played]
  PROVE  Level(d, t) /\ Here(t.live) /\ Suits(t.live, "vote")
         /\ t.live.phase = s.live.phase /\ t.live.play = played
<1> DEFINE l == s.live
           m == t.live
           e == Lands(d, s)
           f == Lands(d, t)
           play == l.play
           x == play.at
           authors == Visible(play)
           options == ToVote(play)
<1>1. /\ LogPlaced(l) /\ l \in Lives /\ e \in Stores /\ Tells(d, s) /\ Accounts(e)
      /\ Mirrors(l, e) /\ play \in Plays /\ play # None /\ x \in Questions
  BY LevelHere, RowsAssumption DEF Level, Base, Fits, InPlay, Plays
<1>2. PlayOf(play, e) /\ x = Cursor(l)
  BY <1>1 DEF Level, Fits, Here, AtPhases
<1>3. PICK i \in DOMAIN l.log : l.log[i].at = x /\ EntryFits(play, e, l.log[i])
  BY <1>1, PlayEntry
<1>4. ~play.scored /\ play.favourite = None
  <2>1. ~play.scored
    BY <1>1, <1>2, <1>3 DEF LogPlaced, EntryPlaced, EntryFits, AtPhases, RevealPhases, QuestionPhases
  <2> QED BY <1>2, <2>1 DEF PlayOf, OptionsFit
<1>5. authors \in SUBSET Players /\ authors \subseteq Answered(play)
  BY DEF Visible, Answered
<1>6. /\ options \in SUBSET PlayerVotes /\ options # None /\ options \ {Truth} = authors
      /\ (Truth \in options <=> KindOf(x) = "lie")
  <2>1. options = authors \cup (IF KindOf(x) = "lie" THEN {Truth} ELSE {})
    BY DEF ToVote
  <2>2. Truth \notin authors
    BY <1>5, PlayersAssumption
  <2> QED BY <1>5, <2>1, <2>2, NoneAssumption DEF PlayerVotes
<1>7. Shown(e, x) = {}
  BY <1>2 DEF PlayOf, OptionsFit, Offered
<1>8. /\ played \in Plays /\ played.at = x /\ played.eligible = play.eligible
      /\ played.answers = play.answers /\ played.votes = play.votes /\ played.options = options
      /\ played.favourite = None /\ ~played.scored /\ played.counted = play.counted
  <2> HIDE DEF play, options
  <2>1. played = [play EXCEPT !.options = options]
    BY DEF play, options
  <2> QED BY <1>1, <1>4, <1>6, <2>1 DEF Plays, Maybe, x
<1>9. /\ m \in Lives /\ m.play = played /\ SamePlaceAs(l, m)
      /\ m.joined = l.joined /\ m.removed = l.removed
      /\ m.extraTime = l.extraTime /\ m.score = l.score
  <2> HIDE DEF l, m
  <2>1. m = [l EXCEPT !.play = played]
    BY DEF l, m
  <2>2. l \in Lives /\ played \in Plays
    BY <1>1, <1>8
  <2> QED BY <2>1, <2>2, PlayReplaced
<1>10. /\ Tells(d, t) /\ f \in Stores /\ f.row = Row(m)
       /\ f.joined = e.joined /\ f.removed = e.removed
       /\ f.extraTime = e.extraTime /\ f.score = e.score
       /\ PaidCells(e, f, Questions)
       /\ \A p \in Players : f.answers[x][p] # None =>
            /\ f.answers[x][p].payload = e.answers[x][p].payload
            /\ f.answers[x][p].hidden = e.answers[x][p].hidden
            /\ f.answers[x][p].shown <=> p \in authors
  <2>1. /\ s.writes.question \in {None, x} /\ t.writes = Showing(s.writes, x, authors)
        /\ Good(t) /\ m = t.live
    OBVIOUS
  <2> HIDE DEF x, authors, play, l, m
  <2> QED BY SMTT(60), <1>1, <1>5, <1>7, <2>1, ShownCells DEF m
<1>11. SameRow(m, f.row) /\ f.row.log = e.row.log /\ f.row.phaseId = e.row.phaseId
       /\ e.row.phaseId \in Nat
  <2>1. SameRow(m, f.row) /\ m.phaseId \in Nat
    BY ZenonT(60), <1>10, GoodTypes
  <2> HIDE DEF l, m, e, f
  <2> QED BY <1>1, <1>9, <2>1 DEF SameRow, Mirrors, SamePlaceAs
<1> HIDE DEF f, e, m
<1>12. Accounts(f)
  <2>1. SameEntries(e.row.log, f.row.log)
    BY <1>11 DEF SameEntries
  <2>2. StampsOK(f)
    BY ZenonT(60), <1>1, <1>10, <1>11 DEF Accounts, StampsOK
  <2>3. \A y \in Questions, p \in Players : Seen(f, y, p) <=> Seen(e, y, p)
    BY ZenonT(60), <1>10, <1>11 DEF Seen, SeenAtReveal
  <2>4. /\ e \in Stores /\ f \in Stores /\ Accounts(e) /\ e.row.phaseId \in Nat
        /\ f.row.phaseId = e.row.phaseId /\ f.score = e.score /\ PaidCells(e, f, Questions)
    BY <1>1, <1>10, <1>11, Zenon
  <2> HIDE DEF l, play, x, authors, options
  <2> QED BY <2>1, <2>2, <2>3, <2>4, AccountsStay
<1>13. PlayOf(played, f)
  <2>1. Puts(play, played, authors, options)
    <3>1. options # None /\ IsParty(play.at) /\ x = play.at
      BY <1>6
    <3> HIDE DEF l, play, x, authors, options
    <3> QED BY <1>1, <1>4, <1>5, <1>6, <1>8, <3>1 DEF Puts
  <2>2. Shows(e, f, x, authors)
    <3> HIDE DEF l, play, x, authors, options
    <3> QED BY SMTT(60), <1>1, <1>10, <1>11 DEF Shows, PaidCells
  <2>3. PlayOf(play, e) /\ x = play.at
    BY SMTT(60), <1>2
  <2> HIDE DEF l, play, x, authors, options
  <2> QED BY <2>1, <2>2, <2>3, PlayOffers
<1>14. Level(d, t)
  <2>1. m.joined = f.joined /\ m.removed = f.removed /\ m.extraTime = f.extraTime
        /\ m.score = f.score
    BY ZenonT(60), <1>1, <1>9, <1>10 DEF Mirrors
  <2> QED BY ZenonT(60), <1>9, <1>10, <1>12, <1>13, <2>1, EditLevel DEF f, m
<1>15. Here(m) /\ Suits(m, "vote")
  <2>1. m.phase = l.phase /\ m.log = l.log /\ Cursor(m) = Cursor(l)
    BY <1>9 DEF SamePlaceAs, Cursor
  <2>2. Here(l)
    OBVIOUS
  <2> HIDE DEF l
  <2>3. Here(m)
    BY <1>1, <1>8, <1>9, <2>1, <2>2 DEF Here, play
  <2> QED BY <1>6, <1>8, <1>9, <2>3 DEF Suits
<1> QED BY <1>9, <1>14, <1>15 DEF m, SamePlaceAs

LEMMA StartVoteSound ==
  ASSUME NEW d, NEW s, Level(d, s), InPlay(s), Good(s), Here(s.live),
         s.live.phase \in QuestionPhases,
         IsParty(s.live.play.at), s.live.play.options = None,
         DOMAIN s.writes.scores = {}, s.writes.question \in {None, s.live.play.at}
  PROVE  Sound(d, StartVote(s))
<1> DEFINE play    == s.live.play
           authors == Visible(play)
           options == ToVote(play)
           played  == [play EXCEPT !.options = options]
           m       == [s.live EXCEPT !.play = played]
           w       == Showing(s.writes, play.at, authors)
           r       == [s EXCEPT !.live = m]
           t       == [r EXCEPT !.writes = w]
<1>1. s \in Steps /\ play \in Plays /\ s.live \in Lives /\ LiveOK(s.live) /\ play.at \in Questions
  BY CursorTyped DEF InPlay, Good, Plays
<1>2. authors \in SUBSET Players /\ options \in SUBSET PlayerVotes
  BY DEF Visible, Answered, PlayerVotes, ToVote
<1>3. StartVote(s) = IF Cardinality(options) < 2
                     THEN RevealQuestion([s EXCEPT !.live.play.options = options,
                                            !.writes.question = play.at, !.writes.shown = authors])
                     ELSE Saved(Timed([s EXCEPT !.live.play.options = options,
                                         !.writes.question = play.at, !.writes.shown = authors], "vote"))
  BY DEF StartVote, ToVote
<1> HIDE DEF authors, options
<1>4. played \in Plays /\ played.at = play.at /\ played.options = options
  BY <1>1, <1>2 DEF Plays, Maybe
<1>5. w \in Writes /\ w.scores = s.writes.scores /\ w.question = play.at
  <2>1. play.at \in Maybe(Questions)
    BY <1>1 DEF Maybe
  <2> HIDE DEF play
  <2> QED BY <1>1, <1>2, <2>1 DEF Steps, Writes, Showing
<1>6. [s EXCEPT !.live.play.options = options, !.writes.question = play.at,
                !.writes.shown = authors] = t
  BY <1>1 DEF Steps, Showing
<1> HIDE DEF played, w
<1>7. /\ m \in Lives /\ m.play = played /\ SameMoment(s.live, m)
  <2>1. m = [s.live EXCEPT !.play = played] /\ s.live \in Lives /\ played \in Plays
    BY <1>1, <1>4
  <2> HIDE DEF m
  <2> QED BY <2>1, PlayReplaced
<1>8. r \in Steps /\ r.live = m
  <2> HIDE DEF m
  <2> QED BY <1>1, <1>7, WithLive
<1>9. t \in Steps /\ t.live = m /\ t.writes = w
  <2>1. t.writes = w
    BY <1>8 DEF Steps
  <2> HIDE DEF r, w, m
  <2> QED BY <1>5, <1>8, <2>1, WithWrites
<1> HIDE DEF t, r
<1>10. Good(t)
  <2>1. LiveOK(m)
    <3> HIDE DEF m
    <3> QED BY <1>1, <1>4, <1>7, SameMomentOK
  <2> QED BY <1>9, <2>1 DEF Good
<1>11. /\ Level(d, t) /\ Here(t.live) /\ Suits(t.live, "vote")
       /\ t.live.phase = s.live.phase /\ t.live.play = played
  <2>1. t.live = [s.live EXCEPT !.play = played]
    BY <1>9
  <2>2. t.writes = Showing(s.writes, s.live.play.at, Visible(s.live.play))
    BY <1>9 DEF w, authors
  <2>3. played = [s.live.play EXCEPT !.options = ToVote(s.live.play)]
    BY DEF played, options
  <2> HIDE DEF play
  <2> QED BY <1>10, <2>1, <2>2, <2>3, ShownLevel
<1> HIDE DEF m
<1>12. InPlay(t)
  BY <1>4, <1>7, <1>9 DEF InPlay, SameMoment, Cursor
<1>13. CASE Cardinality(options) < 2
  <2>1. StartVote(s) = RevealQuestion(t)
    BY <1>3, <1>6, <1>13
  <2>2. options # None
    BY <1>2, NoneAssumption DEF PlayerVotes
  <2>3. DOMAIN t.writes.scores = {} /\ t.writes.question = t.live.play.at
        /\ t.live.play.options # None
    BY <1>4, <1>5, <1>9, <1>11, <2>2
  <2> QED BY <1>11, <1>12, <2>1, <2>3, RevealQuestionSound
<1>14. CASE ~(Cardinality(options) < 2)
  <2> DEFINE u == Timed(t, "vote")
  <2>1. Good(u)
    BY <1>12, TimedGood DEF InPlay
  <2>2. u.writes = t.writes /\ Comes(t.live, u.live, "vote", t.live.round, t.live.question)
    <3>1. "vote" \in Phases
      BY PhaseFacts DEF QuestionPhases
    <3> QED BY <1>9, <3>1, TimedComes
  <2>3. StartVote(s) = Saved(u)
    BY <1>3, <1>6, <1>14
  <2> HIDE DEF u
  <2>4. Sound(d, u)
    BY <1>11, <2>1, <2>2, ComesHereSound DEF AtPhases, QuestionPhases, RevealPhases
  <2> QED BY <2>3, <2>4, SavedSound
<1> QED BY <1>13, <1>14


----------------------------------------------------------------------------
(* The phases that end by themselves, or because everyone is done. *)

\* Nothing is paid yet, and nothing is written but of the question that is on.
Unpaying(s) ==
  DOMAIN s.writes.scores = {} /\ (s.live.play # None => s.writes.question \in {None, s.live.play.at})

LEMMA NothingUnpaying ==
  ASSUME NEW s, NothingYet(s.writes)
  PROVE  Unpaying(s)
BY DEF NothingYet, Unpaying

LEMMA AfterWriteSound ==
  ASSUME NEW d, NEW s, Sound(d, s), InPlay(s), s.live.phase = "write", Unpaying(s)
  PROVE  Sound(d, AfterWrite(s))
<1> DEFINE u == Untimed(s, "review", s.live.round, s.live.question)
<1>1. s.live.play \in Plays /\ s.live.play # None /\ s \in Steps
  BY RowsAssumption DEF InPlay
<1>2. /\ Level(d, s) /\ Good(s) /\ Here(s.live) /\ IsParty(s.live.play.at)
      /\ s.live.play.options = None
  BY <1>1, LevelHere DEF Sound, PhaseFits, Suits
<1>3. CASE ReviewOn /\ Visible(s.live.play) # {}
  <2>1. "review" \in Phases /\ "review" \notin TimedPhases
    BY DEF Phases, TimedPhases, QuestionPhases
  <2>2. <<s.live.round, s.live.question>> \in Questions
    BY DEF InPlay, Cursor
  <2>3. Good(u)
    BY <1>1, <2>1, <2>2, CursorTyped, UntimedGood DEF InPlay
  <2>4. u.writes = s.writes /\ Comes(s.live, u.live, "review", s.live.round, s.live.question)
    BY <1>1, <2>1, CursorTyped, UntimedComes
  <2>5. AfterWrite(s) = Saved(u)
    BY <1>3 DEF AfterWrite
  <2>6. Suits(s.live, "review")
    BY <1>2 DEF Suits
  <2> HIDE DEF u
  <2>7. Sound(d, u)
    BY <1>2, <2>3, <2>4, <2>6, ComesHereSound DEF AtPhases, QuestionPhases, RevealPhases
  <2> QED BY <2>5, <2>7, SavedSound
<1>4. CASE ~(ReviewOn /\ Visible(s.live.play) # {})
  <2>1. AfterWrite(s) = StartVote(s)
    BY <1>4 DEF AfterWrite
  <2> QED BY <1>1, <1>2, <2>1, StartVoteSound DEF QuestionPhases, Unpaying
<1> QED BY <1>3, <1>4

LEMMA CloseTimedPhaseSound ==
  ASSUME NEW d, NEW s, Sound(d, s), InPlay(s), s.live.phase \in SubmissionPhases, Unpaying(s),
         NEW waits \in BOOLEAN
  PROVE  Sound(d, CloseTimedPhase(s, waits))
<1> DEFINE t == CloseTimedPhase(s, waits)
<1>1. s.live.play \in Plays /\ s.live.play # None /\ s \in Steps /\ s.live \in Lives
  BY RowsAssumption, CursorTyped DEF InPlay
<1>2. Level(d, s) /\ Good(s) /\ Here(s.live) /\ Suits(s.live, s.live.phase)
      /\ Passes(s.live, s.live)
  BY LevelHere DEF Sound, PhaseFits
<1>3. CASE Waits(s.live, waits)
  <2> DEFINE timer1 == [id |-> s.live.phaseId, left |-> s.live.extraDeadline + Grace]
  <2>1. t = [s EXCEPT !.timer = timer1]
    BY <1>3 DEF CloseTimedPhase, Waits
  <2>2. timer1 \in Maybe(Timers)
    <3>1. s.live.phaseId \in Nat /\ s.live.extraDeadline + Grace \in Int
      BY <1>1, <1>3, TimeAssumption DEF Waits, Lives, Maybe
    <3> QED BY <3>1 DEF Timers, Maybe
  <2> HIDE DEF t, timer1
  <2>3. t \in Steps /\ t.live = s.live /\ t.writes = s.writes
    BY <1>1, <2>1, <2>2 DEF Steps
  <2>4. Good(t) /\ Comes(s.live, t.live, s.live.phase, s.live.round, s.live.question)
    BY <1>2, <2>3 DEF Good, Comes
  <2>5. Sound(d, t)
    BY <2>3, <2>4, StaysSound
  <2> QED BY <2>5 DEF t
<1>4. CASE ~Waits(s.live, waits)
  <2>1. t = IF s.live.phase = "write" THEN AfterWrite(s) ELSE RevealQuestion(s)
    BY <1>4 DEF CloseTimedPhase, Waits
  <2>2. CASE s.live.phase = "write"
    BY <2>1, <2>2, AfterWriteSound
  <2>3. CASE s.live.phase # "write"
    <3>1. s.live.phase \in QuestionPhases
      BY PhaseFacts
    <3>2. s.live.phase \in {"open", "vote"}
      BY <2>3 DEF SubmissionPhases
    <3>3. KindOf(s.live.play.at) = "lie" => s.live.play.options # None
      BY <1>1, <1>2, <3>2 DEF Suits, IsParty
    <3> HIDE DEF t
    <3>4. Sound(d, RevealQuestion(s))
      BY <1>1, <1>2, <3>1, <3>3, RevealQuestionSound DEF Unpaying
    <3> QED BY <2>1, <2>3, <3>4 DEF t
  <2> QED BY <2>2, <2>3
<1> QED BY <1>3, <1>4

LEMMA CloseIfEveryoneDoneSound ==
  ASSUME NEW d, NEW s, Sound(d, s), s.live.phase \in SubmissionPhases => Unpaying(s)
  PROVE  Sound(d, CloseIfEveryoneDone(s))
<1> DEFINE done == /\ s.live.status = "running" /\ PlayNow(s.live)
                   /\ s.live.phase \in SubmissionPhases
                   /\ ~\E p \in s.live.play.eligible : Awaited(s.live, p)
<1>1. CASE done
  <2>1. Good(s)
    BY LevelHere DEF Sound
  <2>2. InPlay(s)
    BY <1>1, <2>1, InPlayHere, PhaseFacts
  <2>3. CloseIfEveryoneDone(s) = CloseTimedPhase(s, FALSE)
    BY <1>1 DEF CloseIfEveryoneDone
  <2> QED BY <1>1, <2>2, <2>3, CloseTimedPhaseSound
<1>2. CASE ~done
  BY <1>2 DEF CloseIfEveryoneDone
<1> QED BY <1>1, <1>2

LEMMA NextEffectsSound ==
  ASSUME NEW d, NEW s, Sound(d, s), s.live.status = "running", s.live.phase \in NextAllowed,
         NothingYet(s.writes)
  PROVE  Sound(d, NextEffects(s))
<1> DEFINE here == s.live
<1>1. s \in Steps /\ here \in Lives /\ Good(s) /\ Level(d, s) /\ Unpaying(s) /\ LogPlaced(here)
      /\ PhaseFits(here) /\ LiveOK(here)
  BY LevelHere, NothingUnpaying DEF Sound, Good
<1>2. here.phase \in QuestionPhases => InPlay(s)
  BY <1>1, InPlayHere
<1>4. CASE here.phase = "round_intro"
  <2>1. NextEffects(s) = OpenQuestion(s, <<here.round, 1>>)
    BY <1>4 DEF NextEffects, SubmissionPhases
  <2> QED BY <1>1, <1>4, <2>1, FirstQuestionSound
<1>5. CASE here.phase = "read"
  <2>1. NextEffects(s) = OpenAnswers(s)
    BY <1>5 DEF NextEffects, SubmissionPhases
  <2> QED BY <1>2, <1>5, <2>1, OpenAnswersSound DEF QuestionPhases
<1>6. CASE here.phase \in SubmissionPhases
  <2>1. NextEffects(s) = CloseTimedPhase(s, FALSE)
    BY <1>6 DEF NextEffects, SubmissionPhases
  <2>2. InPlay(s)
    BY <1>2, <1>6, PhaseFacts
  <2> QED BY <1>1, <1>6, <2>1, <2>2, CloseTimedPhaseSound
<1>7. CASE here.phase = "review"
  <2>1. NextEffects(s) = StartVote(s)
    BY <1>7 DEF NextEffects, SubmissionPhases
  <2>2. InPlay(s) /\ here.phase \in QuestionPhases /\ here.play # None
    BY <1>2, <1>7, RowsAssumption DEF QuestionPhases, InPlay
  <2>3. Here(here) /\ IsParty(here.play.at) /\ here.play.options = None
    BY <1>1, <1>7, <2>2 DEF PhaseFits, Suits
  <2> QED BY <1>1, <2>1, <2>2, <2>3, StartVoteSound DEF Unpaying
<1>8. CASE here.phase = "reveal"
  <2>1. NextEffects(s) = IF IsParty(Cursor(here)) THEN AfterQuestion(s) ELSE ShowScores(s)
    BY <1>8 DEF NextEffects, SubmissionPhases
  <2> QED BY <1>1, <1>8, <2>1, AfterQuestionSound, ShowScoresSound DEF AtPhases, RevealPhases
<1>9. CASE here.phase = "scores"
  <2>1. NextEffects(s) = AfterQuestion(s)
    BY <1>9 DEF NextEffects, SubmissionPhases
  <2> QED BY <1>1, <1>9, <2>1, AfterQuestionSound DEF AtPhases, RevealPhases
<1>10. CASE here.phase = "leaderboard"
  <2>1. NextEffects(s) = OpenRoundIntro(s, here.round + 1)
    BY <1>10 DEF NextEffects, SubmissionPhases
  <2>2. here.round + 1 \in 1..Len(Rounds) /\ here.round \in 1..Len(Rounds)
    BY <1>1, <1>10 DEF LiveOK, Placed, AtRound
  <2>3. \A i \in DOMAIN here.log : here.log[i].at[1] <= here.round /\ here.log[i].at \in Questions
    <3>1. here.log \in Seq(Entries)
      BY <1>1 DEF Lives
    <3>2. \A i \in DOMAIN here.log : here.log[i] \in Entries
      BY <3>1
    <3> QED BY <1>1, <1>10, <3>2 DEF LogPlaced, EntryPlaced, Entries
  <2>4. \A i \in DOMAIN here.log : here.log[i].at[1] < here.round + 1
    BY <2>2, <2>3, QuizFacts, QuestionPlace
  <2> QED BY <1>1, <2>1, <2>2, <2>4, OpenRoundIntroSound
<1>11. CASE here.phase = "podium"
  <2>1. NextEffects(s) = EndSession(s, "finished")
    BY <1>11 DEF NextEffects, SubmissionPhases
  <2>2. "finished" \in Closed
    BY DEF Closed
  <2> QED BY <1>1, <2>1, <2>2, EndSessionSound
<1> QED BY <1>4, <1>5, <1>6, <1>7, <1>8, <1>9, <1>10, <1>11
        DEF NextAllowed, Phases, QuestionPhases, SubmissionPhases

LEMMA ElapsedSound ==
  ASSUME NEW d, NEW s, Sound(d, s), s.live.status = "running", NothingYet(s.writes)
  PROVE  Sound(d, Elapsed(s))
<1> DEFINE t == Elapsed(s)
           here == s.live
<1>1. Good(s) /\ here \in Lives /\ LiveOK(here) /\ Unpaying(s)
  BY LevelHere, NothingUnpaying DEF Sound, Good
<1>2. Sound(d, Armed(s))
  BY ArmedSound
<1>3. CASE here.phase = "read"
  <2>1. here.deadline \in Int
    BY <1>1, <1>3 DEF LiveOK, OnTheClock, TimedPhases
  <2>2. t = Armed(s) \/ t = OpenAnswers(s)
    BY <1>3, <2>1 DEF Elapsed, SubmissionPhases
  <2>3. InPlay(s)
    BY <1>1, <1>3, InPlayHere DEF QuestionPhases
  <2> QED BY <1>2, <1>3, <2>2, <2>3, OpenAnswersSound
<1>4. CASE here.phase \in SubmissionPhases
  <2>1. here.deadline \in Int
    BY <1>1, <1>4, PhaseFacts DEF LiveOK, OnTheClock
  <2>2. t = Armed(s) \/ t = CloseTimedPhase(s, TRUE)
    <3>1. here.phase # "read" /\ (here.deadline > -Grace <=> ~(here.deadline <= -Grace))
      BY <1>4, <2>1, TimeAssumption DEF SubmissionPhases
    <3>2. CASE here.deadline <= -Grace
      BY <1>4, <3>1, <3>2 DEF Elapsed
    <3>3. CASE here.deadline > -Grace
      BY <1>4, <3>1, <3>3 DEF Elapsed
    <3> HIDE DEF t
    <3> QED BY <3>1, <3>2, <3>3
  <2>3. InPlay(s)
    BY <1>1, <1>4, InPlayHere, PhaseFacts
  <2>4. Sound(d, CloseTimedPhase(s, TRUE))
    BY <1>1, <1>4, <2>3, CloseTimedPhaseSound
  <2> QED BY <1>2, <2>2, <2>4
<1>5. CASE here.phase \notin SubmissionPhases \cup {"read"}
  <2>1. t = s
    BY <1>5 DEF Elapsed
  <2> QED BY <2>1
<1> QED BY <1>3, <1>4, <1>5

----------------------------------------------------------------------------
(* The host and the players change the question that is on. *)

\* The stored answer of q to x that the writes v find, or that they insert.
Before(e, v, x, q) ==
  IF q \in DOMAIN v.answers
  THEN [payload |-> v.answers[q], points |-> 0, hidden |-> FALSE, shown |-> FALSE]
  ELSE e.answers[x][q]

LEMMA EditCells ==
  ASSUME NEW d, NEW s, Level(d, s), NothingYet(s.writes), NEW x \in Questions,
         NEW e, e = Lands(d, s), NEW t, Good(t), NEW v, v = t.writes,
         v.question = x, ~v.wipe, DOMAIN v.joined = {}, DOMAIN v.removed = {},
         DOMAIN v.extraTime = {},
         \A p \in DOMAIN v.answers : e.answers[x][p] = None,
         \A p \in DOMAIN v.votes : e.votes[x][p] = None
  PROVE  /\ Tells(d, t) /\ e \in Stores /\ Lands(d, t) \in Stores /\ Lands(d, t).row = Row(t.live)
         /\ Lands(d, t).joined = e.joined /\ Lands(d, t).removed = e.removed
         /\ Lands(d, t).extraTime = e.extraTime /\ Lands(d, t).score = Over(v.scores, e.score)
         /\ \A y \in Questions \ {x}, q \in Players :
              /\ Lands(d, t).answers[y][q] = e.answers[y][q]
              /\ Lands(d, t).votes[y][q] = e.votes[y][q]
         /\ \A q \in Players :
              /\ CellIs(Lands(d, t).answers[x][q], v, q, Before(e, v, x, q))
              /\ Lands(d, t).votes[x][q] = IF q \in DOMAIN v.votes THEN v.votes[q] ELSE e.votes[x][q]
<1> DEFINE f == Lands(d, t)
<1>1. /\ d \in Stores /\ d.row.status \in Open /\ Good(s) /\ Tells(d, s)
  BY DEF Level, Tells
<1>2. /\ e \in Stores /\ e.joined = d.joined /\ e.removed = d.removed
      /\ e.extraTime = d.extraTime /\ e.score = d.score /\ SameCells(d, e)
  BY <1>1, NothingLands
<1>3. v \in Writes /\ x # None /\ Bare(v)
  BY GoodTypes, RowsAssumption DEF Bare
<1>4. ~Conflicts(d, v)
  <2>1. \A p \in DOMAIN v.answers \cup DOMAIN v.votes : p \in Players
    BY <1>3, PartAt DEF Writes, PartOf
  <2>2. \A p \in Players : d.answers[x][p] = e.answers[x][p] /\ d.votes[x][p] = e.votes[x][p]
    BY <1>2 DEF SameCells
  <2> QED BY <1>3, <2>1, <2>2 DEF Conflicts
<1>5. Tells(d, t)
  BY <1>1, <1>3, <1>4 DEF Tells
<1>6. /\ f \in Stores /\ f.row = Row(t.live) /\ f.joined = Over(v.joined, d.joined)
      /\ f.removed = Over(v.removed, d.removed) /\ f.extraTime = Over(v.extraTime, d.extraTime)
      /\ f.score = Over(v.scores, d.score)
      /\ \A y \in Questions, p \in Players : /\ f.answers[y][p] = AnswerCell(d, v, y, p)
                                             /\ f.votes[y][p] = VoteCell(d, v, y, p)
  BY <1>5, LandsOf
<1> HIDE DEF f
<1>7. /\ f.joined = e.joined /\ f.removed = e.removed
      /\ f.extraTime = e.extraTime /\ f.score = Over(v.scores, e.score)
  <2>1. Over(v.joined, d.joined) = d.joined
    BY <1>1, NothingOver DEF Stores, Positions
  <2>2. Over(v.removed, d.removed) = d.removed
    BY <1>1, NothingOver DEF Stores, Positions
  <2>3. Over(v.extraTime, d.extraTime) = d.extraTime
    BY <1>1, NothingOver DEF Stores
  <2> QED BY <1>2, <1>6, <2>1, <2>2, <2>3
<1>8. ASSUME NEW y \in Questions \ {x}, NEW q \in Players
      PROVE  f.answers[y][q] = e.answers[y][q] /\ f.votes[y][q] = e.votes[y][q]
  <2>1. v.question # y /\ q \notin DOMAIN v.removed
    OBVIOUS
  <2>2. AnswerCell(d, v, y, q) = d.answers[y][q] /\ VoteCell(d, v, y, q) = d.votes[y][q]
    BY <1>1, <1>3, <2>1, CellElsewhere
  <2> QED BY <1>2, <1>6, <2>2 DEF SameCells
<1>9. ASSUME NEW q \in Players
      PROVE  /\ CellIs(f.answers[x][q], v, q, Before(e, v, x, q))
             /\ f.votes[x][q] = IF q \in DOMAIN v.votes THEN v.votes[q] ELSE e.votes[x][q]
  <2>1. Given(d, v, x, q) = Before(e, v, x, q)
    BY <1>2 DEF Given, Before, SameCells
  <2>2. /\ CellIs(AnswerCell(d, v, x, q), v, q, Given(d, v, x, q))
        /\ VoteCell(d, v, x, q) = IF q \in DOMAIN v.votes THEN v.votes[q]
                                  ELSE IF v.wipe THEN None ELSE d.votes[x][q]
    BY <1>1, <1>3, CellHere
  <2> QED BY <1>2, <1>6, <2>1, <2>2 DEF SameCells
<1> QED BY <1>2, <1>5, <1>6, <1>7, <1>8, <1>9 DEF f

\* The same answer and vote are stored of player q.
SameCell(e, f, x, q) ==
  /\ f.answers[x][q] = None <=> e.answers[x][q] = None
  /\ f.answers[x][q] # None =>
       /\ f.answers[x][q].payload = e.answers[x][q].payload
       /\ f.answers[x][q].points = e.answers[x][q].points
       /\ f.answers[x][q].hidden = e.answers[x][q].hidden
       /\ f.answers[x][q].shown = e.answers[x][q].shown
  /\ f.votes[x][q] = e.votes[x][q]

\* What is said of player p alone changes, from state l and rows e to state m and rows f.
Reworks(l, e, m, f, p) ==
  /\ l \in Lives /\ e \in Stores /\ m \in Lives /\ f \in Stores
  /\ l.play \in Plays /\ m.play \in Plays /\ PlayOf(l.play, e)
  /\ f.row.log = e.row.log /\ f.joined = e.joined /\ f.removed = e.removed
  /\ m.play.at = l.play.at /\ m.play.eligible = l.play.eligible
  /\ m.play.options = l.play.options /\ m.play.scored = l.play.scored
  /\ m.play.counted = l.play.counted
  /\ \A q \in Players \ {p} : /\ m.play.answers[q] = l.play.answers[q]
                              /\ m.play.votes[q] = l.play.votes[q]
                              /\ m.play.favourite = q <=> l.play.favourite = q
                              /\ SameCell(e, f, l.play.at, q)
  /\ (f.answers[l.play.at][p] # None /\ f.answers[l.play.at][p].shown)
       <=> (e.answers[l.play.at][p] # None /\ e.answers[l.play.at][p].shown)

LEMMA ReworkedPlay ==
  ASSUME NEW l, NEW e, NEW m, NEW f, NEW p \in Players, Reworks(l, e, m, f, p),
         Stored(m.play, f, p), Fair(m.play, f, p),
         m.play.scored => f.votes[l.play.at][p] = e.votes[l.play.at][p],
         m.play.favourite # None =>
           /\ m.play.scored /\ KindOf(m.play.at) = "caption" /\ m.play.options # None
           /\ m.play.favourite \in m.play.options
           /\ m.play.answers[m.play.favourite] # None
           /\ ~m.play.answers[m.play.favourite].hidden,
         \A i \in DOMAIN e.row.log :
           /\ EntryFits(l.play, e, e.row.log[i])
           /\ m.play.scored /\ KindOf(m.play.at) = "caption"
           /\ m.play.answers[p] # None /\ ~m.play.answers[p].hidden
           => m.play.answers[p].points = Cardinality(Drawn(e, e.row.log[i], p))
                                         + (IF m.play.favourite = p THEN 1 ELSE 0)
  PROVE  PlayOf(m.play, f)
<1> DEFINE x == l.play.at
           old == l.play
           new == m.play
<1>1. PICK i \in DOMAIN e.row.log : EntryFits(old, e, e.row.log[i])
  BY DEF Reworks, PlayOf
<1> DEFINE entry == e.row.log[i]
<1>2. /\ old \in Plays /\ new \in Plays /\ x \in Questions /\ new.at = x
      /\ new.eligible = old.eligible /\ new.options = old.options /\ new.scored = old.scored
      /\ new.counted = old.counted
      /\ f.row.log = e.row.log /\ f.joined = e.joined /\ f.removed = e.removed
      /\ \A q \in Players : Stored(old, e, q) /\ Fair(old, e, q)
      /\ OptionsFit(old, e)
  BY DEF Reworks, Plays, PlayOf
<1>3. \A q \in Players \ {p} : /\ new.answers[q] = old.answers[q] /\ new.votes[q] = old.votes[q]
                               /\ new.favourite = q <=> old.favourite = q
                               /\ SameCell(e, f, x, q)
  BY DEF Reworks
<1>4. (f.answers[x][p] # None /\ f.answers[x][p].shown)
        <=> (e.answers[x][p] # None /\ e.answers[x][p].shown)
  BY DEF Reworks
<1>5. /\ Stored(new, f, p) /\ Fair(new, f, p)
      /\ new.scored => f.votes[x][p] = e.votes[x][p]
      /\ new.scored /\ KindOf(new.at) = "caption" /\ new.answers[p] # None /\ ~new.answers[p].hidden
         => new.answers[p].points = Cardinality(Drawn(e, entry, p))
                                    + (IF new.favourite = p THEN 1 ELSE 0)
      /\ EntryFits(old, e, entry) /\ i \in DOMAIN f.row.log /\ f.row.log[i] = entry
  BY <1>1, <1>2
<1>6. new.favourite # None =>
        /\ new.scored /\ KindOf(new.at) = "caption" /\ new.options # None
        /\ new.favourite \in new.options
        /\ new.answers[new.favourite] # None /\ ~new.answers[new.favourite].hidden
  OBVIOUS
<1> HIDE DEF x, old, new, entry
<1>7. ASSUME NEW q \in Players PROVE Stored(new, f, q) /\ Fair(new, f, q)
  <2>1. CASE q = p
    BY <1>5, <2>1
  <2>2. CASE q # p
    <3>1. /\ new.answers[q] = old.answers[q] /\ new.votes[q] = old.votes[q]
          /\ SameCell(e, f, x, q) /\ Stored(old, e, q) /\ Fair(old, e, q) /\ old.at = x
      BY SMTT(60), <1>2, <1>3, <2>2 DEF x, old
    <3>2. Stored(new, f, q)
      <4>1. new.at = x /\ old.at = x
        BY <1>2, <3>1, Zenon
      <4>2. SameAnswer(x, new.answers[q], f.answers[x][q])
        <5>1. SameAnswer(x, old.answers[q], e.answers[x][q])
          BY <3>1, <4>1, Zenon DEF Stored
        <5> QED BY <3>1, <5>1, Zenon DEF SameAnswer, SameCell
      <4>3. new.votes[q] = f.votes[x][q]
        BY <3>1, <4>1, Zenon DEF Stored, SameCell
      <4> QED BY <4>1, <4>2, <4>3, Zenon DEF Stored
    <3>3. Fair(new, f, q)
      BY <1>2, <3>1 DEF Fair
    <3> QED BY <3>2, <3>3
  <2> QED BY <2>1, <2>2
<1>8. OptionsFit(new, f)
  <2>1. Shown(f, x) = Shown(e, x)
    BY <1>3, <1>4 DEF Shown, SameCell
  <2>2. old.at = x
    BY DEF x, old
  <2> QED BY <1>2, <1>6, <2>1, <2>2 DEF OptionsFit, Offered
<1>9. EntryFits(new, f, entry)
  <2>1. entry.at = x /\ old.at = x
    BY <1>5 DEF EntryFits, x, old
  <2>2. new.scored => \A q : Drawn(f, entry, q) = Drawn(e, entry, q)
    <3>1. new.scored => \A v \in Players : f.votes[x][v] = e.votes[x][v]
      BY <1>3, <1>5 DEF SameCell
    <3> QED BY <1>2, <2>1, <3>1 DEF Drawn, SeenAtReveal
  <2>3. new.scored /\ KindOf(x) = "caption" =>
          \A q \in Players :
            new.answers[q] # None /\ ~new.answers[q].hidden =>
              new.answers[q].points = Cardinality(Drawn(f, entry, q))
                                      + (IF new.favourite = q THEN 1 ELSE 0)
    <3> SUFFICES ASSUME new.scored, KindOf(x) = "caption", NEW q \in Players,
                        new.answers[q] # None, ~new.answers[q].hidden
                 PROVE  new.answers[q].points = Cardinality(Drawn(f, entry, q))
                                                + (IF new.favourite = q THEN 1 ELSE 0)
      OBVIOUS
    <3>1. CASE q = p
      BY <1>2, <1>5, <2>2, <3>1
    <3>2. CASE q # p
      <4>1. new.answers[q] = old.answers[q] /\ (new.favourite = q <=> old.favourite = q)
        BY <1>3, <3>2
      <4>2. old.answers[q].points = Cardinality(Drawn(e, entry, q))
                                    + (IF old.favourite = q THEN 1 ELSE 0)
        BY <1>2, <1>5, <2>1, <4>1 DEF EntryFits
      <4> QED BY <2>2, <4>1, <4>2
    <3> QED BY <3>1, <3>2
  <2>4. \A q : SeenAtReveal(f, entry, q) <=> SeenAtReveal(e, entry, q)
    BY <1>2 DEF SeenAtReveal
  <2> QED BY <1>2, <1>5, <2>1, <2>3, <2>4 DEF EntryFits
<1> QED BY <1>5, <1>7, <1>8, <1>9 DEF PlayOf, new


\* The rows f, of the same log and room as the rows e.
SameRoomRows(e, f) ==
  /\ e \in Stores /\ f \in Stores /\ Accounts(e)
  /\ f.row.log = e.row.log /\ f.row.phaseId = e.row.phaseId
  /\ f.joined = e.joined /\ f.removed = e.removed

LEMMA SameRoomSeen ==
  ASSUME NEW e, NEW f, SameRoomRows(e, f)
  PROVE  /\ SameEntries(e.row.log, f.row.log) /\ StampsOK(f) /\ f.row.phaseId >= e.row.phaseId
         /\ \A y \in Questions, q \in Players : Seen(f, y, q) <=> Seen(e, y, q)
<1>1. e.row.phaseId \in Nat
  BY DEF SameRoomRows, Stores, Rows, RowTypes
<1>2. StampsOK(f)
  BY DEF SameRoomRows, Accounts, StampsOK
<1>3. \A y \in Questions, q \in Players : Seen(f, y, q) <=> Seen(e, y, q)
  BY DEF SameRoomRows, Seen, SeenAtReveal
<1> QED BY <1>1, <1>2, <1>3 DEF SameRoomRows, SameEntries

LEMMA EditedRow ==
  ASSUME NEW l, NEW m, NEW e, NEW f, Mirrors(l, e), SamePlaceAs(l, m), f.row = Row(m)
  PROVE  f.row.log = e.row.log /\ f.row.phaseId = e.row.phaseId
BY DEF Mirrors, SameRow, SamePlaceAs, Row

\* Every answer is worth what it was.
LEMMA PaidAlike ==
  ASSUME NEW e, NEW f, SameRoomRows(e, f), f.score = e.score, PaidCells(e, f, Questions)
  PROVE  Accounts(f)
BY SameRoomSeen, AccountsStay DEF SameRoomRows

\* Nothing is worth anything yet of the question that changes.
LEMMA PaidLater ==
  ASSUME NEW e, NEW f, SameRoomRows(e, f), f.score = e.score,
         NEW i \in DOMAIN e.row.log, NEW x \in Questions, e.row.log[i].at = x,
         e.row.log[i].revealed = None,
         \A y \in Questions \ {x}, q \in Players :
           f.answers[y][q] = e.answers[y][q] /\ f.votes[y][q] = e.votes[y][q],
         \A q \in Players : f.answers[x][q] # None => f.answers[x][q].points = 0
  PROVE  Accounts(f)
<1>1. e \in Stores /\ f \in Stores /\ Accounts(e) /\ x \in Asked(e.row.log)
  BY DEF SameRoomRows, Asked
<1>2. \A j \in DOMAIN e.row.log : e.row.log[j].at = x => j = i
  BY <1>1 DEF Accounts, LogOK, Once
<1>3. ASSUME NEW q \in Players PROVE f.score[q] = e.score[q] + Held(f, x, q) - Held(e, x, q)
  <2>1. ~Seen(e, x, q) /\ ~Seen(f, x, q)
    BY <1>2, SameRoomSeen DEF Seen
  <2>2. e.answers[x][q] # None => e.answers[x][q].points = 0
    BY <1>1 DEF Accounts, Unpaid
  <2>3. Held(e, x, q) = 0 /\ Held(f, x, q) = 0
    BY <2>1, <2>2 DEF Held
  <2>4. e.score[q] \in Int
    BY <1>1 DEF Stores
  <2> QED BY <2>3, <2>4
<1>4. PaidCells(e, f, Questions \ {x})
  BY DEF PaidCells
<1> QED BY <1>1, <1>3, <1>4, SameRoomSeen, AccountsMove

\* An answer is worth more or less, and so is the score of its author.
LEMMA PaidAnew ==
  ASSUME NEW e, NEW f, SameRoomRows(e, f),
         NEW i \in DOMAIN e.row.log, NEW x \in Questions, e.row.log[i].at = x,
         e.row.log[i].revealed # None, NEW p \in Players, NEW gain \in Int,
         \A y \in Questions \ {x}, q \in Players :
           f.answers[y][q] = e.answers[y][q] /\ f.votes[y][q] = e.votes[y][q],
         \A q \in Players \ {p} : SameCell(e, f, x, q) /\ f.score[q] = e.score[q],
         e.answers[x][p] # None, f.answers[x][p] # None, f.votes[x][p] = e.votes[x][p],
         f.answers[x][p].points = e.answers[x][p].points + gain,
         f.score[p] = e.score[p] + gain
  PROVE  Accounts(f)
<1>1. e \in Stores /\ f \in Stores /\ Accounts(e) /\ x \in Asked(e.row.log)
  BY DEF SameRoomRows, Asked
<1>2. \A j \in DOMAIN e.row.log : e.row.log[j].at = x => j = i
  BY <1>1 DEF Accounts, LogOK, Once
<1>3. ASSUME NEW q \in Players PROVE f.score[q] = e.score[q] + Held(f, x, q) - Held(e, x, q)
  <2>1. Seen(f, x, q) <=> Seen(e, x, q)
    BY SameRoomSeen
  <2>2. Held(e, x, q) \in Int /\ Held(f, x, q) \in Int /\ e.score[q] \in Int
    BY <1>1, HeldTyped DEF Stores
  <2>3. CASE q = p
    <3>1. e.answers[x][p].points \in Int
      BY <1>1 DEF Stores, Maybe, AnswerRows
    <3>2. Held(f, x, p) = Held(e, x, p) + gain
      BY <2>1, <2>3, <3>1 DEF Held
    <3> QED BY <2>2, <2>3, <3>2
  <2>4. CASE q # p
    <3>1. Held(f, x, q) = Held(e, x, q)
      BY <2>1, <2>4 DEF Held, SameCell
    <3> QED BY <2>2, <2>4, <3>1
  <2> QED BY <2>3, <2>4
<1>4. PaidCells(e, f, Questions \ {x})
  BY DEF PaidCells
<1>5. \A j \in DOMAIN e.row.log : ~(e.row.log[j].at = x /\ e.row.log[j].revealed = None)
  BY <1>2
<1> QED BY <1>1, <1>3, <1>4, <1>5, SameRoomSeen, AccountsMove

LEMMA EditSound ==
  ASSUME NEW d, NEW s, Sound(d, s), NEW t, Tells(d, t), SamePlaceAs(s.live, t.live),
         SameTerms(s.live, t.live), Accounts(Lands(d, t)), Lands(d, t).row = Row(t.live),
         t.live.joined = Lands(d, t).joined, t.live.removed = Lands(d, t).removed,
         t.live.extraTime = Lands(d, t).extraTime, t.live.score = Lands(d, t).score,
         t.live.play # None => PlayOf(t.live.play, Lands(d, t))
  PROVE  Sound(d, t)
<1>1. Level(d, t)
  BY EditLevel DEF Sound
<1>2. PhaseFits(t.live)
  <2>1. t.live \in Lives
    BY GoodTypes DEF Tells
  <2> QED BY <2>1, EditFits DEF Sound
<1> QED BY <1>1, <1>2 DEF Sound


\* A stored answer that nothing is written about stays what it is.
LEMMA CellStays ==
  ASSUME NEW v, NEW q, NEW e, NEW f, NEW x,
         e.answers[x][q] # None => e.answers[x][q] \in AnswerRows,
         CellIs(f.answers[x][q], v, q, e.answers[x][q]),
         q \notin DOMAIN v.hidden, q \notin DOMAIN v.removed, v.shown = {},
         e.answers[x][q] # None /\ q \in DOMAIN v.points => v.points[q] = e.answers[x][q].points,
         f.votes[x][q] = e.votes[x][q]
  PROVE  SameCell(e, f, x, q)
<1> DEFINE row == e.answers[x][q]
           c   == f.answers[x][q]
<1>0. /\ CellIs(c, v, q, row)
      /\ row # None => row \in AnswerRows
      /\ row # None /\ q \in DOMAIN v.points => v.points[q] = row.points
  OBVIOUS
<1> HIDE DEF row, c
<1>1. c = None <=> row = None
  BY <1>0 DEF CellIs
<1>2. ASSUME c # None
      PROVE  /\ c.payload = row.payload /\ c.points = row.points
             /\ c.hidden = row.hidden /\ c.shown = row.shown
  <2>1. row.hidden \in BOOLEAN /\ row.shown \in BOOLEAN /\ row # None
    BY <1>0, <1>1, <1>2 DEF AnswerRows
  <2>2. c.payload = row.payload /\ c.points = row.points
    BY <1>0, <1>2, <2>1 DEF CellIs
  <2>3. c.shown = (row.shown \/ q \in v.shown) /\ c.hidden = (q \in DOMAIN v.removed \/ row.hidden)
    BY ZenonT(60), <1>0, <1>2 DEF CellIs
  <2> QED BY <2>1, <2>2, <2>3
<1> QED BY <1>1, <1>2 DEF SameCell, row, c

\* What is said of player p changes, from l to m by the writes v, and of nobody else.
Tells1(l, m, v, p) ==
  /\ l.play \in Plays /\ m.play \in Plays /\ SamePlaceAs(l, m)
  /\ m.joined = l.joined /\ m.removed = l.removed /\ m.extraTime = l.extraTime
  /\ m.play.at = l.play.at /\ m.play.eligible = l.play.eligible
  /\ m.play.options = l.play.options /\ m.play.scored = l.play.scored
  /\ m.play.counted = l.play.counted
  /\ v.question = l.play.at /\ ~v.wipe /\ v.shown = {} /\ DOMAIN v.joined = {}
  /\ DOMAIN v.removed = {} /\ DOMAIN v.extraTime = {}
  /\ \A q \in Players \ {p} :
       /\ m.play.answers[q] = l.play.answers[q] /\ m.play.votes[q] = l.play.votes[q]
       /\ m.play.favourite = q <=> l.play.favourite = q
       /\ m.score[q] = l.score[q]
       /\ q \notin DOMAIN v.answers /\ q \notin DOMAIN v.votes /\ q \notin DOMAIN v.hidden
       /\ q \in DOMAIN v.points =>
            l.play.answers[q] # None /\ v.points[q] = l.play.answers[q].points
       /\ q \in DOMAIN v.scores => v.scores[q] = l.score[q]
  /\ p \in DOMAIN v.answers => l.play.answers[p] = None
  /\ p \in DOMAIN v.votes => l.play.votes[p] = None

\* How the rows e become the rows f by the writes v, which are about player p alone.
OneLands(l, e, m, f, v, x, p) ==
  /\ f.row = Row(m) /\ x \in Questions
  /\ SameRoomRows(e, f) /\ f.extraTime = e.extraTime
  /\ Reworks(l, e, m, f, p) <=>
       ((f.answers[x][p] # None /\ f.answers[x][p].shown)
         <=> (e.answers[x][p] # None /\ e.answers[x][p].shown))
  /\ \A y \in Questions \ {x}, q \in Players :
       f.answers[y][q] = e.answers[y][q] /\ f.votes[y][q] = e.votes[y][q]
  /\ \A q \in Players \ {p} : SameCell(e, f, x, q) /\ f.score[q] = e.score[q]
  /\ f.score[p] = IF p \in DOMAIN v.scores THEN v.scores[p] ELSE e.score[p]
  /\ CellIs(f.answers[x][p], v, p, Before(e, v, x, p))
  /\ f.votes[x][p] = IF p \in DOMAIN v.votes THEN v.votes[p] ELSE e.votes[x][p]
  /\ Stored(l.play, e, p) /\ Fair(l.play, e, p) /\ PlayOf(l.play, e)
  /\ Mirrors(l, e)

LEMMA TellsOne ==
  ASSUME NEW d, NEW s, Level(d, s), NothingYet(s.writes), NEW t, Good(t),
         NEW p \in Players, NEW v, v = t.writes, Tells1(s.live, t.live, v, p),
         NEW e, e = Lands(d, s), NEW x, x = s.live.play.at, NEW f, f = Lands(d, t)
  PROVE  Tells(d, t) /\ OneLands(s.live, e, t.live, f, v, x, p)
<1> DEFINE l == s.live
           m == t.live
<1>1. /\ x \in Questions /\ l.play # None /\ v \in Writes /\ l \in Lives /\ m \in Lives
      /\ Good(s)
  BY GoodTypes, PlayAt, RowsAssumption DEF Tells1, Plays, Level, Tells
<1>2. /\ PlayOf(l.play, e) /\ Mirrors(l, e) /\ Accounts(e)
      /\ \A q \in Players : Stored(l.play, e, q) /\ Fair(l.play, e, q)
  BY <1>1 DEF Level, Fits, Base, PlayOf
<1>3. Tells1(l, m, v, p)
  OBVIOUS
<1> HIDE DEF l, m
<1>4. \A q \in DOMAIN v.answers : e.answers[x][q] = None
  <2>1. \A q \in DOMAIN v.answers : q \in Players
    BY <1>1, PartAt DEF Writes, PartOf
  <2>2. \A q \in DOMAIN v.answers : q = p
    BY <1>3, <2>1 DEF Tells1
  <2>3. l.play.answers[p] = None => e.answers[x][p] = None
    BY ZenonT(60), <1>2, NoneAssumption DEF Stored, SameAnswer, l
  <2> QED BY <1>3, <2>2, <2>3 DEF Tells1
<1>5. \A q \in DOMAIN v.votes : e.votes[x][q] = None
  <2>1. \A q \in DOMAIN v.votes : q \in Players
    BY <1>1, PartAt DEF Writes, PartOf
  <2>2. \A q \in DOMAIN v.votes : q = p
    BY <1>3, <2>1 DEF Tells1
  <2>3. l.play.votes[p] = None => e.votes[x][p] = None
    BY <1>2 DEF Stored, l
  <2> QED BY <1>3, <2>2, <2>3 DEF Tells1
<1>6. /\ v.question = x /\ ~v.wipe /\ DOMAIN v.joined = {} /\ DOMAIN v.removed = {}
      /\ DOMAIN v.extraTime = {}
  BY <1>3 DEF Tells1, l
<1>7. /\ Tells(d, t) /\ e \in Stores /\ f \in Stores /\ f.row = Row(m)
      /\ f.joined = e.joined /\ f.removed = e.removed
      /\ f.extraTime = e.extraTime /\ f.score = Over(v.scores, e.score)
      /\ \A y \in Questions \ {x}, q \in Players :
           f.answers[y][q] = e.answers[y][q] /\ f.votes[y][q] = e.votes[y][q]
      /\ \A q \in Players :
           /\ CellIs(f.answers[x][q], v, q, Before(e, v, x, q))
           /\ f.votes[x][q] = IF q \in DOMAIN v.votes THEN v.votes[q] ELSE e.votes[x][q]
  BY SMTT(60), <1>1, <1>4, <1>5, <1>6, EditCells DEF m
<1>8. \A q \in Players : f.score[q] = IF q \in DOMAIN v.scores THEN v.scores[q] ELSE e.score[q]
  BY <1>7 DEF Over, Stores
<1>9. ASSUME NEW q \in Players \ {p} PROVE SameCell(e, f, x, q) /\ f.score[q] = e.score[q]
  <2>1. /\ q \notin DOMAIN v.answers /\ q \notin DOMAIN v.votes /\ q \notin DOMAIN v.hidden
        /\ q \in DOMAIN v.points =>
             l.play.answers[q] # None /\ v.points[q] = l.play.answers[q].points
        /\ q \in DOMAIN v.scores => v.scores[q] = l.score[q]
        /\ v.shown = {} /\ q \notin DOMAIN v.removed
    BY SMTT(60), <1>3 DEF Tells1
  <2>2. l.play.answers[q] # None => e.answers[x][q].points = l.play.answers[q].points
    BY ZenonT(60), <1>2 DEF Stored, SameAnswer, l
  <2>3. Before(e, v, x, q) = e.answers[x][q]
    BY <2>1 DEF Before
  <2>4. e.answers[x][q] # None => e.answers[x][q] \in AnswerRows
    <3>1. e \in Stores /\ x \in Questions /\ q \in Players
      BY <1>1, <1>7
    <3>2. e.answers[x][q] \in Maybe(AnswerRows)
      BY SMTT(60), <3>1 DEF Stores
    <3> QED BY <3>2 DEF Maybe
  <2>5. SameCell(e, f, x, q)
    <3>1. CellIs(f.answers[x][q], v, q, e.answers[x][q])
      BY <1>7, <2>3
    <3>2. e.answers[x][q] # None /\ q \in DOMAIN v.points => v.points[q] = e.answers[x][q].points
      BY <2>1, <2>2
    <3>3. f.votes[x][q] = e.votes[x][q]
      BY <1>7, <2>1
    <3>4. q \notin DOMAIN v.hidden /\ q \notin DOMAIN v.removed /\ v.shown = {}
      BY <2>1
    <3> QED BY ZenonT(60), <2>4, <3>1, <3>2, <3>3, <3>4, CellStays
  <2>6. f.score[q] = e.score[q]
    BY <1>2, <1>8, <2>1 DEF Mirrors
  <2> QED BY <2>5, <2>6
<1>10. SameRoomRows(e, f)
  <2>1. f.row.log = e.row.log /\ f.row.phaseId = e.row.phaseId
    <3>1. Mirrors(l, e) /\ f.row = Row(m)
      BY SMTT(60), <1>2, <1>7
    <3>2. SamePlaceAs(l, m)
      BY ZenonT(60), <1>3 DEF Tells1
    <3> QED BY <3>1, <3>2, EditedRow
  <2> QED BY <1>2, <1>7, <2>1 DEF SameRoomRows
<1>11. Reworks(l, e, m, f, p) <=>
              ((f.answers[x][p] # None /\ f.answers[x][p].shown)
                <=> (e.answers[x][p] # None /\ e.answers[x][p].shown))
  <2>1. l.play.at = x
    BY DEF l
  <2>2. /\ l \in Lives /\ e \in Stores /\ m \in Lives /\ f \in Stores /\ PlayOf(l.play, e)
        /\ f.row.log = e.row.log /\ f.joined = e.joined /\ f.removed = e.removed
    BY <1>1, <1>2, <1>7, <1>10 DEF SameRoomRows
  <2>3. /\ l.play \in Plays /\ m.play \in Plays
        /\ m.play.at = l.play.at /\ m.play.eligible = l.play.eligible
        /\ m.play.options = l.play.options /\ m.play.scored = l.play.scored
        /\ m.play.counted = l.play.counted
    BY <1>3 DEF Tells1
  <2>4. \A q \in Players \ {p} : /\ m.play.answers[q] = l.play.answers[q]
                                 /\ m.play.votes[q] = l.play.votes[q]
                                 /\ m.play.favourite = q <=> l.play.favourite = q
                                 /\ SameCell(e, f, x, q)
    BY SMTT(60), <1>3, <1>9 DEF Tells1
  <2> QED BY ZenonT(60), <2>1, <2>2, <2>3, <2>4 DEF Reworks
<1>12. OneLands(l, e, m, f, v, x, p)
  <2> QED BY ZenonT(60), <1>1, <1>2, <1>7, <1>8, <1>9, <1>10, <1>11 DEF OneLands
<1> QED BY <1>7, <1>12 DEF l, m

----------------------------------------------------------------------------
(* An answer is hidden, and shown again. *)

LEMMA HidingIs ==
  ASSUME NEW s, Good(s), s.live.play \in Plays, NEW p \in Players, NEW b \in BOOLEAN,
         NEW t, t = Hiding(s, p, b)
  PROVE  /\ Good(t) /\ t.live = s.live /\ t.writes \in Writes
         /\ t.writes.question = s.live.play.at /\ t.writes.hidden = Only(p, b)
         /\ t.writes.wipe = s.writes.wipe /\ t.writes.shown = s.writes.shown
         /\ t.writes.answers = s.writes.answers /\ t.writes.votes = s.writes.votes
         /\ t.writes.points = s.writes.points /\ t.writes.scores = s.writes.scores
         /\ t.writes.joined = s.writes.joined /\ t.writes.removed = s.writes.removed
         /\ t.writes.extraTime = s.writes.extraTime
<1> DEFINE part == Only(p, b)
           w    == [s.writes EXCEPT !.question = s.live.play.at, !.hidden = part]
<1>1. part \in PartOf(BOOLEAN)
  BY PartTyped
<1>2. t = [s EXCEPT !.writes.question = s.live.play.at, !.writes.hidden = part]
  BY DEF Hiding
<1> HIDE DEF part
<1>3. t = [s EXCEPT !.writes = w] /\ s \in Steps
  BY <1>2 DEF Good
<1>4. s.live.play.at \in Maybe(Questions) /\ s.writes \in Writes
  BY GoodTypes DEF Plays, Maybe
<1>5. /\ w \in Writes /\ w.question = s.live.play.at /\ w.hidden = part
      /\ w.wipe = s.writes.wipe /\ w.shown = s.writes.shown
      /\ w.answers = s.writes.answers /\ w.votes = s.writes.votes
      /\ w.points = s.writes.points /\ w.scores = s.writes.scores
      /\ w.joined = s.writes.joined /\ w.removed = s.writes.removed
      /\ w.extraTime = s.writes.extraTime
  BY <1>1, <1>4 DEF Writes
<1> HIDE DEF w
<1>6. t \in Steps /\ t.live = s.live /\ t.writes = w
  BY <1>3, <1>5, WithWrites DEF Steps
<1> QED BY <1>5, <1>6 DEF Good, part

\* The play less or with the answer of player p.
Veiled(play, p, b) == [play EXCEPT !.answers[p] = [play.answers[p] EXCEPT !.hidden = b]]

LEMMA VeiledIs ==
  ASSUME NEW play \in Plays, NEW p \in Players, play.answers[p] # None, NEW b \in BOOLEAN,
         NEW new, new = Veiled(play, p, b)
  PROVE  /\ new \in Plays /\ new.at = play.at /\ new.votes = play.votes
         /\ new.eligible = play.eligible /\ new.extra = play.extra
         /\ new.options = play.options /\ new.favourite = play.favourite
         /\ new.scored = play.scored /\ new.counted = play.counted
         /\ new.answers[p] # None /\ new.answers[p].payload = play.answers[p].payload
         /\ new.answers[p].points = play.answers[p].points /\ new.answers[p].hidden = b
         /\ \A q \in Players \ {p} : new.answers[q] = play.answers[q]
         /\ new = [play EXCEPT !.answers[p].hidden = b]
<1> DEFINE old == play.answers[p]
           a   == [old EXCEPT !.hidden = b]
<1>1. old \in Answers
  BY DEF Plays, Maybe
<1>2. a \in Answers /\ a.payload = old.payload /\ a.points = old.points /\ a.hidden = b
  BY <1>1 DEF Answers
<1>3. new = [play EXCEPT !.answers[p] = a]
  BY DEF Veiled
<1>4. new = [play EXCEPT !.answers[p].hidden = b]
  BY DEF Veiled
<1> HIDE DEF a
<1>5. /\ new \in Plays /\ new.at = play.at /\ new.votes = play.votes
      /\ new.eligible = play.eligible /\ new.extra = play.extra
      /\ new.options = play.options /\ new.favourite = play.favourite
      /\ new.scored = play.scored /\ new.counted = play.counted
      /\ new.answers = [play.answers EXCEPT ![p] = a] /\ new.answers[p] = a
  BY <1>2, <1>3, AnsweringFacts
<1>6. a # None
  BY <1>2, NoneAssumption
<1>7. DOMAIN play.answers = Players
  BY DEF Plays
<1> QED BY <1>2, <1>4, <1>5, <1>6, <1>7

\* The host hides or shows an answer that is worth nothing yet, or that went to no vote.
LEMMA VeiledSound ==
  ASSUME NEW d, NEW s, Sound(d, s), NothingYet(s.writes), s.live.play \in Plays,
         NEW p \in Players, s.live.play.answers[p] # None, NEW b \in BOOLEAN,
         IsParty(s.live.play.at), ~b => s.live.removed[p] = None,
         s.live.play.scored => b /\ s.live.play.options = None,
         NEW u, Good(u), u.writes = s.writes,
         Edits(s, u, Veiled(s.live.play, p, b), s.live.score)
  PROVE  Sound(d, Hiding(u, p, b)) /\ Good(Hiding(u, p, b))
         /\ Hiding(u, p, b).live = u.live
<1> DEFINE t == Hiding(u, p, b)
           v == t.writes
           l == s.live
           m == t.live
           e == Lands(d, s)
           f == Lands(d, t)
           x == l.play.at
           old == l.play
           new == Veiled(old, p, b)
<1>1. /\ new \in Plays /\ new.at = x /\ new.votes = old.votes
      /\ new.eligible = old.eligible /\ new.extra = old.extra
      /\ new.options = old.options /\ new.favourite = old.favourite
      /\ new.scored = old.scored /\ new.counted = old.counted
      /\ new.answers[p] # None /\ new.answers[p].payload = old.answers[p].payload
      /\ new.answers[p].points = old.answers[p].points /\ new.answers[p].hidden = b
      /\ \A q \in Players \ {p} : new.answers[q] = old.answers[q]
  BY SMTT(60), VeiledIs
<1> HIDE DEF new
<1>2. u.live.play = new /\ u.live.play \in Plays /\ u.live.play.at = x
  BY <1>1 DEF Edits, new
<1>3. /\ Good(t) /\ m = u.live /\ v.question = x /\ v.hidden = Only(p, b)
      /\ v.wipe = s.writes.wipe /\ v.shown = s.writes.shown
      /\ v.answers = s.writes.answers /\ v.votes = s.writes.votes
      /\ v.points = s.writes.points /\ v.scores = s.writes.scores
      /\ v.joined = s.writes.joined /\ v.removed = s.writes.removed
      /\ v.extraTime = s.writes.extraTime
  BY <1>2, HidingIs
<1> HIDE DEF t, v
<1>4. /\ ~v.wipe /\ v.shown = {} /\ DOMAIN v.joined = {} /\ DOMAIN v.removed = {}
      /\ DOMAIN v.extraTime = {} /\ DOMAIN v.answers = {} /\ DOMAIN v.votes = {}
      /\ DOMAIN v.points = {} /\ DOMAIN v.scores = {} /\ DOMAIN v.hidden = {p} /\ v.hidden[p] = b
  BY <1>3 DEF NothingYet, Bare, Only
<1>5. /\ SamePlaceAs(l, m) /\ m.play = new /\ m.score = l.score /\ m.joined = l.joined
      /\ m.removed = l.removed /\ m.extraTime = l.extraTime
  BY <1>2, <1>3 DEF Edits, SameMoment, SamePlaceAs
<1>6. Tells1(l, m, v, p)
  BY SMTT(60), <1>1, <1>3, <1>4, <1>5 DEF Tells1
<1>7. Level(d, s)
  BY DEF Sound
<1>8. /\ Tells(d, t) /\ f.row = Row(m) /\ x \in Questions
      /\ SameRoomRows(e, f) /\ f.extraTime = e.extraTime
      /\ Reworks(l, e, m, f, p) <=>
           ((f.answers[x][p] # None /\ f.answers[x][p].shown)
             <=> (e.answers[x][p] # None /\ e.answers[x][p].shown))
      /\ \A y \in Questions \ {x}, q \in Players :
           f.answers[y][q] = e.answers[y][q] /\ f.votes[y][q] = e.votes[y][q]
      /\ \A q \in Players \ {p} : SameCell(e, f, x, q) /\ f.score[q] = e.score[q]
      /\ f.score[p] = IF p \in DOMAIN v.scores THEN v.scores[p] ELSE e.score[p]
      /\ CellIs(f.answers[x][p], v, p, Before(e, v, x, p))
      /\ f.votes[x][p] = IF p \in DOMAIN v.votes THEN v.votes[p] ELSE e.votes[x][p]
      /\ Stored(old, e, p) /\ Fair(old, e, p) /\ PlayOf(old, e) /\ Mirrors(l, e)
  <2>1. Tells(d, t) /\ OneLands(l, e, m, f, v, x, p)
    BY SMTT(60), <1>3, <1>6, <1>7, TellsOne DEF v
  <2> HIDE DEF l, m, e, f, v
  <2> QED BY ZenonT(60), <2>1 DEF OneLands, old
<1> HIDE DEF l, m, e, f
<1>9. /\ f.answers[x][p] # None /\ e.answers[x][p] # None
      /\ f.answers[x][p].payload = e.answers[x][p].payload
      /\ f.answers[x][p].points = e.answers[x][p].points
      /\ f.answers[x][p].shown = e.answers[x][p].shown
      /\ f.answers[x][p].hidden = b
      /\ f.votes[x][p] = e.votes[x][p] /\ f.score[p] = e.score[p]
  <2>1. old.answers[p] # None
    BY SMTT(60) DEF old, l
  <2>2. e.answers[x][p] # None
    BY ZenonT(60), <1>8, <2>1 DEF Stored, SameAnswer, old, x
  <2>3. e.answers[x][p] \in AnswerRows
    BY SMTT(60), <1>8, <2>2 DEF SameRoomRows, Stores, Maybe
  <2>4. Before(e, v, x, p) = e.answers[x][p]
    BY SMTT(60), <1>4 DEF Before
  <2> QED BY ZenonT(60), <1>4, <1>8, <2>2, <2>3, <2>4 DEF CellIs, AnswerRows
<1>10. Reworks(l, e, m, f, p)
  BY ZenonT(60), <1>8, <1>9
<1>11. old.answers[p] # None /\ IsParty(x)
  BY DEF old, l, x
<1>12. l.removed = e.removed /\ f.removed = e.removed /\ old.at = x
  BY SMTT(60), <1>8 DEF Mirrors, SameRoomRows, x, old
<1>13. Stored(new, f, p)
  <2>1. Stored(old, e, p)
    BY <1>8
  <2>2. new.at = x /\ old.at = x
    BY <1>1, <1>12
  <2>3. SameAnswer(x, new.answers[p], f.answers[x][p])
    <3>1. SameAnswer(x, old.answers[p], e.answers[x][p])
      BY <2>1, <2>2, Zenon DEF Stored
    <3>2. /\ e.answers[x][p] # None /\ old.answers[p].payload = e.answers[x][p].payload
          /\ old.answers[p].points = e.answers[x][p].points
      BY <1>11, <3>1, Zenon DEF SameAnswer
    <3> QED BY <1>1, <1>9, <1>11, <3>2 DEF SameAnswer
  <2>4. new.votes[p] = f.votes[x][p]
    <3>1. old.votes[p] = e.votes[x][p]
      BY <2>1, <2>2, Zenon DEF Stored
    <3> QED BY <1>1, <1>9, <3>1
  <2> QED BY <2>2, <2>3, <2>4, Zenon DEF Stored
<1>14. Fair(new, f, p)
  <2>1. ~b => e.removed[p] = None
    BY <1>12 DEF l
  <2> QED BY ZenonT(60), <1>1, <1>8, <1>11, <1>12, <2>1 DEF Fair
<1>15. old.scored => b /\ old.options = None
  BY DEF old, l
<1>16. new.favourite = None
  BY ZenonT(60), <1>1, <1>8, <1>15 DEF PlayOf, OptionsFit
<1>17. PlayOf(m.play, f)
  BY ZenonT(60), <1>1, <1>5, <1>9, <1>10, <1>13, <1>14, <1>15, <1>16, ReworkedPlay DEF x, old
<1>18. Accounts(f)
  <2>1. PaidCells(e, f, Questions)
    <3>1. ASSUME NEW q \in Players
          PROVE  /\ e.answers[x][q] = None <=> f.answers[x][q] = None
                 /\ f.answers[x][q] # None => f.answers[x][q].points = e.answers[x][q].points
                 /\ f.votes[x][q] = e.votes[x][q]
      <4>1. CASE q = p
        BY <1>9, <4>1
      <4>2. CASE q # p
        <5>1. SameCell(e, f, x, q)
          BY <1>8, <4>2
        <5> QED BY <5>1 DEF SameCell
      <4> QED BY <4>1, <4>2
    <3>2. ASSUME NEW y \in Questions, NEW q \in Players
          PROVE  /\ e.answers[y][q] = None <=> f.answers[y][q] = None
                 /\ f.answers[y][q] # None => f.answers[y][q].points = e.answers[y][q].points
                 /\ f.votes[y][q] = e.votes[y][q]
      <4>1. CASE y = x
        BY <3>1, <4>1
      <4>2. CASE y # x
        BY <1>8, <4>2
      <4> QED BY <4>1, <4>2
    <3> QED BY <3>2, Zenon DEF PaidCells
  <2>2. f.score = e.score
    <3>1. \A q \in Players : f.score[q] = e.score[q]
      BY ZenonT(60), <1>8, <1>9
    <3> QED BY SMTT(60), <1>8, <3>1 DEF SameRoomRows, Stores
  <2> QED BY <1>8, <2>1, <2>2, PaidAlike
<1>19. /\ m.joined = f.joined /\ m.removed = f.removed /\ m.extraTime = f.extraTime
       /\ m.score = f.score
  <2>1. f.score = e.score
    <3>1. \A q \in Players : f.score[q] = e.score[q]
      BY ZenonT(60), <1>8, <1>9
    <3> QED BY SMTT(60), <1>8, <3>1 DEF SameRoomRows, Stores
  <2> QED BY <1>5, <1>8, <2>1 DEF SameRoomRows, Mirrors
<1>20. SameTerms(l, m)
  <2>1. new # None
    BY SMTT(60), <1>1, RowsAssumption
  <2>2. old # None
    BY SMTT(60), RowsAssumption DEF old, l
  <2> QED BY <1>1, <1>5, <2>1, <2>2 DEF SameTerms, old, x
<1>21. Sound(d, t)
  BY ZenonT(60), <1>5, <1>8, <1>17, <1>18, <1>19, <1>20, EditSound DEF l, m, f
<1> QED BY <1>3, <1>21 DEF t, m

----------------------------------------------------------------------------
(* What a hidden answer had earned is taken back. *)

\* Of a question whose points have been paid, the answer of player p is worth gain more.
Repays(l, m, v, p, gain) ==
  /\ Tells1(l, m, v, p) /\ l.play.scored /\ l.play.answers[p] # None
  /\ m.play.answers[p] # None /\ m.play.answers[p].payload = l.play.answers[p].payload
  /\ m.play.answers[p].points = l.play.answers[p].points + gain
  /\ m.play.votes[p] = l.play.votes[p] /\ m.score[p] = l.score[p] + gain
  /\ p \in DOMAIN v.points /\ v.points[p] = m.play.answers[p].points
  /\ p \notin DOMAIN v.answers /\ p \notin DOMAIN v.votes
  /\ m.play.answers[p].hidden = IF p \in DOMAIN v.hidden THEN v.hidden[p]
                                ELSE l.play.answers[p].hidden
  /\ IF p \in DOMAIN v.scores THEN v.scores[p] = m.score[p] ELSE gain = 0

LEMMA RepaidSound ==
  ASSUME NEW d, NEW s, Sound(d, s), NothingYet(s.writes), NEW t, Good(t),
         NEW p \in Players, NEW gain \in Int, Repays(s.live, t.live, t.writes, p, gain),
         NEW e, e = Lands(d, s), Fair(t.live.play, e, p),
         t.live.play.favourite # None =>
           /\ KindOf(t.live.play.at) = "caption" /\ t.live.play.options # None
           /\ t.live.play.favourite \in t.live.play.options
           /\ t.live.play.answers[t.live.play.favourite] # None
           /\ ~t.live.play.answers[t.live.play.favourite].hidden,
         \A i \in DOMAIN e.row.log :
           /\ EntryFits(s.live.play, e, e.row.log[i])
           /\ KindOf(s.live.play.at) = "caption" /\ ~t.live.play.answers[p].hidden
           => t.live.play.answers[p].points = Cardinality(Drawn(e, e.row.log[i], p))
                                              + (IF t.live.play.favourite = p THEN 1 ELSE 0)
  PROVE  Sound(d, t)
<1> DEFINE v == t.writes
           l == s.live
           m == t.live
           f == Lands(d, t)
           x == l.play.at
           old == l.play
           new == m.play
<1>1. /\ Repays(l, m, v, p, gain) /\ Tells1(l, m, v, p) /\ Level(d, s)
      /\ old \in Plays /\ new \in Plays /\ new.at = x /\ new.options = old.options
      /\ new.scored /\ old.scored /\ SamePlaceAs(l, m)
      /\ m.joined = l.joined /\ m.removed = l.removed /\ m.extraTime = l.extraTime
      /\ \A q \in Players \ {p} : m.score[q] = l.score[q]
      /\ m.score \in [Players -> Int]
  <2>1. m \in Lives
    BY GoodTypes
  <2> QED BY ZenonT(60), <2>1 DEF Repays, Tells1, Sound, Lives
<1>2. Fair(new, e, p)
  OBVIOUS
<1>3. new.favourite # None =>
           /\ new.scored /\ KindOf(new.at) = "caption" /\ new.options # None
           /\ new.favourite \in new.options
           /\ new.answers[new.favourite] # None
           /\ ~new.answers[new.favourite].hidden
  BY <1>1
<1>4. \A i \in DOMAIN e.row.log :
           /\ EntryFits(old, e, e.row.log[i])
           /\ new.scored /\ KindOf(new.at) = "caption" /\ new.answers[p] # None
           /\ ~new.answers[p].hidden
           => new.answers[p].points = Cardinality(Drawn(e, e.row.log[i], p))
                                      + (IF new.favourite = p THEN 1 ELSE 0)
  BY SMTT(60), <1>1
<1>5. /\ Tells(d, t) /\ f.row = Row(m) /\ x \in Questions
      /\ SameRoomRows(e, f) /\ f.extraTime = e.extraTime
      /\ Reworks(l, e, m, f, p) <=>
           ((f.answers[x][p] # None /\ f.answers[x][p].shown)
             <=> (e.answers[x][p] # None /\ e.answers[x][p].shown))
      /\ \A y \in Questions \ {x}, q \in Players :
           f.answers[y][q] = e.answers[y][q] /\ f.votes[y][q] = e.votes[y][q]
      /\ \A q \in Players \ {p} : SameCell(e, f, x, q) /\ f.score[q] = e.score[q]
      /\ f.score[p] = IF p \in DOMAIN v.scores THEN v.scores[p] ELSE e.score[p]
      /\ CellIs(f.answers[x][p], v, p, Before(e, v, x, p))
      /\ f.votes[x][p] = IF p \in DOMAIN v.votes THEN v.votes[p] ELSE e.votes[x][p]
      /\ Stored(old, e, p) /\ Fair(old, e, p) /\ PlayOf(old, e) /\ Mirrors(l, e)
  <2>1. Tells(d, t) /\ OneLands(l, e, m, f, v, x, p)
    BY SMTT(60), <1>1, TellsOne
  <2> HIDE DEF l, m, f, v
  <2> QED BY ZenonT(60), <2>1 DEF OneLands, old
<1> HIDE DEF l, m, f, v
<1>6. /\ old.answers[p] # None /\ new.answers[p] # None
      /\ new.answers[p].payload = old.answers[p].payload
      /\ new.answers[p].points = old.answers[p].points + gain
      /\ new.votes[p] = old.votes[p] /\ m.score[p] = l.score[p] + gain
      /\ p \in DOMAIN v.points /\ v.points[p] = new.answers[p].points
      /\ p \notin DOMAIN v.answers /\ p \notin DOMAIN v.votes /\ v.shown = {}
      /\ p \notin DOMAIN v.removed
      /\ new.answers[p].hidden = IF p \in DOMAIN v.hidden THEN v.hidden[p]
                                 ELSE old.answers[p].hidden
      /\ IF p \in DOMAIN v.scores THEN v.scores[p] = m.score[p] ELSE gain = 0
  BY ZenonT(60), <1>1 DEF Repays, Tells1, old, new
<1>7. /\ f.answers[x][p] # None /\ e.answers[x][p] # None
      /\ f.answers[x][p].payload = e.answers[x][p].payload
      /\ f.answers[x][p].points = e.answers[x][p].points + gain
      /\ f.answers[x][p].points = new.answers[p].points
      /\ f.answers[x][p].shown = e.answers[x][p].shown
      /\ IsParty(x) => f.answers[x][p].hidden = new.answers[p].hidden
      /\ f.votes[x][p] = e.votes[x][p]
  <2>1. /\ e.answers[x][p] # None /\ e.answers[x][p].points = old.answers[p].points
        /\ IsParty(x) => e.answers[x][p].hidden = old.answers[p].hidden
    BY ZenonT(60), <1>5, <1>6 DEF Stored, SameAnswer, x, old
  <2>2. e.answers[x][p] \in AnswerRows
    <3>1. e \in Stores /\ x \in Questions
      BY <1>5, Zenon DEF SameRoomRows
    <3>2. e.answers[x][p] \in Maybe(AnswerRows)
      BY <3>1 DEF Stores
    <3> QED BY <2>1, <3>2 DEF Maybe
  <2>3. Before(e, v, x, p) = e.answers[x][p]
    BY <1>6 DEF Before
  <2>4. new.answers[p].hidden \in BOOLEAN
    BY SMTT(60), <1>1, <1>6 DEF Plays, Maybe, Answers
  <2>5. CellIs(f.answers[x][p], v, p, e.answers[x][p])
    BY ZenonT(60), <1>5, <2>3
  <2>6. f.answers[x][p] # None /\ f.answers[x][p].payload = e.answers[x][p].payload
        /\ f.answers[x][p].points = v.points[p]
        /\ f.answers[x][p].shown = (e.answers[x][p].shown \/ p \in v.shown)
        /\ f.answers[x][p].hidden
             = (p \in DOMAIN v.removed
                \/ (IF p \in DOMAIN v.hidden THEN v.hidden[p] ELSE e.answers[x][p].hidden))
    BY <1>6, <2>1, <2>5, Zenon DEF CellIs
  <2>7. e.answers[x][p].hidden \in BOOLEAN /\ e.answers[x][p].shown \in BOOLEAN
    BY SMTT(60), <2>2 DEF AnswerRows
  <2>8. IsParty(x) => f.answers[x][p].hidden = new.answers[p].hidden
    BY ZenonT(60), <1>6, <2>1, <2>4, <2>6, <2>7
  <2>9. f.answers[x][p].points = e.answers[x][p].points + gain
    BY ZenonT(60), <1>6, <2>1, <2>6
  <2> QED BY ZenonT(60), <1>5, <1>6, <2>1, <2>6, <2>7, <2>8, <2>9
<1>8. Reworks(l, e, m, f, p)
  BY ZenonT(60), <1>5, <1>7
<1>9. l.removed = e.removed /\ f.removed = e.removed /\ old.at = x
  BY ZenonT(60), <1>5 DEF Mirrors, SameRoomRows, x, old
<1>10. Stored(new, f, p)
  <2>1. /\ old.answers[p].payload = e.answers[x][p].payload /\ old.votes[p] = e.votes[x][p]
    BY ZenonT(60), <1>5, <1>6, <1>9 DEF Stored, SameAnswer
  <2>2. SameAnswer(x, new.answers[p], f.answers[x][p])
    BY ZenonT(60), <1>6, <1>7, <2>1 DEF SameAnswer
  <2>3. new.at = x
    BY <1>1, <1>9, Zenon
  <2>4. new.votes[p] = f.votes[x][p]
    <3>1. new.votes[p] = old.votes[p] /\ f.votes[x][p] = e.votes[x][p]
      BY <1>1, <1>6, <1>7, Zenon
    <3> QED BY <2>1, <3>1
  <2> QED BY <2>2, <2>3, <2>4, Zenon DEF Stored
<1>11. Fair(new, f, p)
  BY SMTT(60), <1>2, <1>9 DEF Fair
<1>12. PlayOf(new, f)
  BY ZenonT(60), <1>3, <1>4, <1>7, <1>8, <1>10, <1>11, ReworkedPlay DEF x, old, new
<1>13. f.score[p] = e.score[p] + gain /\ m.score[p] = f.score[p]
  <2>1. l.score = e.score /\ e.score[p] \in Int
    BY ZenonT(60), <1>5 DEF Mirrors, SameRoomRows, Stores
  <2> QED BY SMTT(60), <1>5, <1>6, <2>1
<1>14. Accounts(f)
  <2>1. PICK i \in DOMAIN e.row.log : EntryFits(old, e, e.row.log[i])
    BY ZenonT(60), <1>5 DEF PlayOf
  <2>2. e.row.log[i].at = x /\ e.row.log[i].revealed # None
    BY SMTT(60), <1>1, <2>1 DEF EntryFits, x, old
  <2>3. /\ SameRoomRows(e, f) /\ x \in Questions /\ gain \in Int
        /\ \A y \in Questions \ {x}, q \in Players :
             f.answers[y][q] = e.answers[y][q] /\ f.votes[y][q] = e.votes[y][q]
        /\ \A q \in Players \ {p} : SameCell(e, f, x, q) /\ f.score[q] = e.score[q]
        /\ e.answers[x][p] # None /\ f.answers[x][p] # None /\ f.votes[x][p] = e.votes[x][p]
        /\ f.answers[x][p].points = e.answers[x][p].points + gain
        /\ f.score[p] = e.score[p] + gain
    BY ZenonT(60), <1>5, <1>7, <1>13
  <2> HIDE DEF x
  <2> QED BY SMTT(60), <2>2, <2>3, PaidAnew
<1>15. m.score = f.score
  <2>1. \A q \in Players : f.score[q] = m.score[q]
    BY SMTT(60), <1>1, <1>5, <1>13 DEF Mirrors
  <2> QED BY SMTT(60), <1>1, <1>5, <2>1 DEF SameRoomRows, Stores
<1>16. m.joined = f.joined /\ m.removed = f.removed /\ m.extraTime = f.extraTime
  BY ZenonT(60), <1>1, <1>5 DEF SameRoomRows, Mirrors
<1>17. SameTerms(l, m)
  BY <1>1, RowsAssumption DEF SameTerms, old, new, x
<1> QED BY ZenonT(60), <1>1, <1>5, <1>12, <1>14, <1>15, <1>16, <1>17, EditSound DEF l, m, f, new

\* The play once the answer of p has been hidden: before the vote, before it was scored
\* and after.
HiddenIn(play, p) == Veiled(play, p, TRUE)
Passed(play, p) ==
  IF play.favourite = p THEN [HiddenIn(play, p) EXCEPT !.favourite = None]
  ELSE HiddenIn(play, p)
Voided(play, p) == [Passed(play, p) EXCEPT !.answers[p].points = 0]
Docked(l, p)    == [l.score EXCEPT ![p] = @ - l.play.answers[p].points]

\* All but the answer of p and the favourite are as they were.
Loses(play, new, p) ==
  /\ new \in Plays /\ new.at = play.at /\ new.votes = play.votes
  /\ new.eligible = play.eligible /\ new.extra = play.extra
  /\ new.options = play.options
  /\ new.favourite \in {play.favourite, None}
  /\ play.favourite # p => new.favourite = play.favourite
  /\ new.scored = play.scored /\ new.counted = play.counted
  /\ new.answers[p] # None /\ new.answers[p].payload = play.answers[p].payload
  /\ new.answers[p].hidden
  /\ \A q \in Players \ {p} : new.answers[q] = play.answers[q]

LEMMA HiddenIs ==
  ASSUME NEW play \in Plays, NEW p \in Players, play.answers[p] # None
  PROVE  /\ Loses(play, HiddenIn(play, p), p)
         /\ HiddenIn(play, p).answers[p].points = play.answers[p].points
         /\ HiddenIn(play, p).favourite = play.favourite
<1> DEFINE b   == TRUE
           new == Veiled(play, p, b)
<1>1. b \in BOOLEAN /\ new = Veiled(play, p, b)
  OBVIOUS
<1>2. b /\ HiddenIn(play, p) = new
  BY DEF HiddenIn
<1> HIDE DEF b, new
<1>3. /\ new \in Plays /\ new.at = play.at /\ new.votes = play.votes
      /\ new.eligible = play.eligible /\ new.extra = play.extra
      /\ new.options = play.options /\ new.favourite = play.favourite
      /\ new.scored = play.scored /\ new.counted = play.counted
      /\ new.answers[p] # None /\ new.answers[p].payload = play.answers[p].payload
      /\ new.answers[p].points = play.answers[p].points /\ new.answers[p].hidden = b
      /\ \A q \in Players \ {p} : new.answers[q] = play.answers[q]
  BY <1>1, VeiledIs
<1> QED BY <1>2, <1>3 DEF Loses

LEMMA PassedIs ==
  ASSUME NEW play \in Plays, NEW p \in Players, play.answers[p] # None
  PROVE  /\ Loses(play, Passed(play, p), p) /\ Passed(play, p).favourite # p
         /\ Passed(play, p).answers[p].points = play.answers[p].points
<1> DEFINE hid == HiddenIn(play, p)
           new == Passed(play, p)
<1>1. /\ Loses(play, hid, p) /\ hid.answers[p].points = play.answers[p].points
      /\ hid.favourite = play.favourite
  BY HiddenIs
<1>2. new = IF play.favourite = p THEN [hid EXCEPT !.favourite = None] ELSE hid
  BY DEF Passed
<1> HIDE DEF hid, new
<1>3. hid \in Plays /\ p # None
  BY <1>1, NoneAssumption DEF Loses
<1>4. new \in Plays
  BY <1>2, <1>3 DEF Plays, Maybe
<1>5. /\ new.at = hid.at /\ new.votes = hid.votes /\ new.eligible = hid.eligible
      /\ new.extra = hid.extra /\ new.options = hid.options /\ new.scored = hid.scored
      /\ new.counted = hid.counted /\ new.answers = hid.answers
      /\ new.favourite = IF play.favourite = p THEN None ELSE play.favourite
  BY <1>1, <1>2, <1>3 DEF Plays
<1>6. Loses(play, new, p) /\ new.favourite # p /\ new.answers[p].points = play.answers[p].points
  BY <1>1, <1>3, <1>4, <1>5 DEF Loses
<1> QED BY <1>6 DEF new

LEMMA VoidedIs ==
  ASSUME NEW play \in Plays, NEW p \in Players, play.answers[p] # None
  PROVE  /\ Loses(play, Voided(play, p), p) /\ Voided(play, p).favourite # p
         /\ Voided(play, p).answers[p].points = 0
<1> DEFINE passed == Passed(play, p)
           old    == passed.answers[p]
           a      == [old EXCEPT !.points = 0]
           new    == Voided(play, p)
<1>1. Loses(play, passed, p) /\ passed.favourite # p
  BY PassedIs
<1>2. new = [passed EXCEPT !.answers[p] = a]
  BY DEF Voided
<1> HIDE DEF passed, new
<1>3. passed \in Plays /\ old \in Answers
  BY <1>1 DEF Loses, Plays, Maybe
<1>4. a \in Answers /\ a.payload = old.payload /\ a.points = 0 /\ a.hidden = old.hidden
  BY <1>3 DEF Answers
<1> HIDE DEF a
<1>5. /\ new \in Plays /\ new.at = passed.at /\ new.votes = passed.votes
      /\ new.eligible = passed.eligible /\ new.extra = passed.extra
      /\ new.options = passed.options /\ new.favourite = passed.favourite
      /\ new.scored = passed.scored /\ new.counted = passed.counted
      /\ new.answers = [passed.answers EXCEPT ![p] = a] /\ new.answers[p] = a
  BY <1>2, <1>3, <1>4, AnsweringFacts
<1>6. a # None
  BY <1>4, NoneAssumption
<1>7. \A q \in Players \ {p} : new.answers[q] = passed.answers[q]
  BY <1>3, <1>5 DEF Plays
<1>8. Loses(play, new, p) /\ new.favourite # p /\ new.answers[p].points = 0
  BY ZenonT(60), <1>1, <1>4, <1>5, <1>6, <1>7 DEF Loses
<1> QED BY <1>8 DEF new

LEMMA HideAnswerIs ==
  ASSUME NEW s \in Steps, s.live.play \in Plays, NEW p \in Players,
         s.live.play.answers[p] # None
  PROVE  LET l == s.live
             t == HideAnswer(s, p)
         IN  IF l.phase = "review" \/ l.play.options = None
             THEN Edits(s, t, HiddenIn(l.play, p), l.score)
             ELSE IF ~l.play.scored THEN Edits(s, t, Passed(l.play, p), l.score)
             ELSE \E v : Edits(s, v, Voided(l.play, p), Docked(l, p)) /\ t = SaveScoring(v)
<1> DEFINE here   == s.live
           play   == here.play
           hidden == HiddenIn(play, p)
           passed == Passed(play, p)
           voided == Voided(play, p)
           score  == Docked(here, p)
           t      == [s EXCEPT !.live = [here EXCEPT !.play = hidden, !.score = here.score]]
           u      == [s EXCEPT !.live = [here EXCEPT !.play = passed, !.score = here.score]]
           v      == [s EXCEPT !.live = [here EXCEPT !.play = voided, !.score = score]]
<1>1. play.answers[p] \in Answers /\ here.score \in [Players -> Int] /\ here \in Lives
  BY CursorTyped DEF Plays, Maybe, Lives
<1>2. score \in [Players -> Int]
  <2>1. here.score[p] - play.answers[p].points \in Int
    BY <1>1, AnswerWith
  <2> QED BY <1>1, <2>1 DEF Docked
<1>3. hidden \in Plays /\ passed \in Plays /\ voided \in Plays
  BY HiddenIs, PassedIs, VoidedIs DEF Loses
<1>6. HideAnswer(s, p) = IF here.phase = "review" \/ play.options = None
                         THEN [s EXCEPT !.live.play = hidden]
                         ELSE IF ~play.scored THEN [s EXCEPT !.live.play = passed]
                         ELSE SaveScoring([s EXCEPT !.live.play = voided,
                                     !.live.score[p] = @ - play.answers[p].points])
  BY DEF HideAnswer, HiddenIn, Veiled, Passed, Voided
<1>8. [s EXCEPT !.live.play = voided, !.live.score[p] = @ - play.answers[p].points] = v
  BY DEF Docked
<1> HIDE DEF hidden, passed, voided, score
<1>7. \A pl : [s EXCEPT !.live.play = pl]
               = [s EXCEPT !.live = [here EXCEPT !.play = pl, !.score = here.score]]
  BY <1>1 DEF Lives
<1>9. /\ Edits(s, t, hidden, here.score) /\ Edits(s, u, passed, here.score)
      /\ Edits(s, v, voided, score)
  BY <1>1, <1>2, <1>3, EditFacts
<1>10. HideAnswer(s, p) = IF here.phase = "review" \/ play.options = None THEN t
                          ELSE IF ~play.scored THEN u ELSE SaveScoring(v)
  BY <1>6, <1>7, <1>8
<1> HIDE DEF t, u, v
<1> QED BY <1>9, <1>10 DEF hidden, passed, voided, score

\* The host hides an answer before its points are paid.
LEMMA HidUnpaidSound ==
  ASSUME NEW d, NEW s, Sound(d, s), NothingYet(s.writes), s.live.play \in Plays,
         NEW p \in Players, s.live.play.answers[p] # None, IsParty(s.live.play.at),
         NEW b \in BOOLEAN, ~b => s.live.removed[p] = None,
         s.live.play.scored => b /\ s.live.play.options = None,
         NEW new, new = HiddenIn(s.live.play, p), new = Veiled(s.live.play, p, b),
         NEW u, Edits(s, u, new, s.live.score)
  PROVE  Sound(d, Hiding(u, p, b)) /\ Good(u) /\ u.live.play \in Plays
         /\ Good(Hiding(u, p, b)) /\ Hiding(u, p, b).live = u.live
<1>1. HiddenIn(s.live.play, p) \in Plays
  BY HiddenIs DEF Loses
<1>2. new \in Plays
  BY <1>1
<1>3. Good(s)
  BY DEF Sound, Level, Tells
<1>4. Good(u) /\ u.writes = s.writes /\ u.live.play \in Plays
  BY <1>2, <1>3, SameMomentOK DEF Edits, Good
<1>5. Edits(s, u, Veiled(s.live.play, p, b), s.live.score)
  OBVIOUS
<1>6. Sound(d, Hiding(u, p, b)) /\ Good(Hiding(u, p, b)) /\ Hiding(u, p, b).live = u.live
  BY <1>4, <1>5, VeiledSound
<1> QED BY <1>4, <1>6

LEMMA HidPaidSound ==
  ASSUME NEW d, NEW s, Sound(d, s), NothingYet(s.writes), s.live.play \in Plays,
         NEW p \in Players, s.live.play.answers[p] # None,
         s.live.play.scored, s.live.play.options # None,
         NEW v, Edits(s, v, Voided(s.live.play, p), Docked(s.live, p)),
         NEW b \in BOOLEAN, Voided(s.live.play, p).answers[p].hidden = b,
         NEW u, u = SaveScoring(v)
  PROVE  Sound(d, Hiding(u, p, b)) /\ Good(u) /\ u.live.play \in Plays
         /\ Good(Hiding(u, p, b)) /\ Hiding(u, p, b).live = u.live
<1> DEFINE l    == s.live
           old  == l.play
           new  == Voided(old, p)
           score == Docked(l, p)
           gain == -old.answers[p].points
           t    == Hiding(u, p, b)
           w    == t.writes
           m    == t.live
           e    == Lands(d, s)
<1>1. Loses(old, new, p) /\ new.favourite # p /\ new.answers[p].points = 0
      /\ new.answers[p].hidden = b
  BY VoidedIs
<1>2. /\ Good(s) /\ s \in Steps /\ l \in Lives /\ l.score \in [Players -> Int]
      /\ old.answers[p].points \in Int
  BY GoodTypes DEF Sound, Level, Tells, Lives, Plays, Maybe, Answers
<1>3. /\ gain \in Int /\ \A q \in Players \ {p} : score[q] = l.score[q]
      /\ score[p] = l.score[p] + gain /\ score \in [Players -> Int]
  BY <1>2 DEF Docked
<1> HIDE DEF new, score, gain
<1>4. /\ v \in Steps /\ v.live.play = new /\ new \in Plays /\ v.live.score = score
      /\ v.writes = s.writes /\ Good(v)
  BY <1>1, <1>2, SameMomentOK DEF Edits, Good, Loses, new, score
<1>5. /\ u.writes = Pays(s.writes, new, score) /\ u.live = v.live /\ u \in Steps /\ Good(u)
      /\ u.live.play \in Plays
  BY <1>4, SaveScoringPays, SaveScoringFacts DEF Good
<1> DEFINE y == Pays(s.writes, new, score)
<1>6. s.writes \in Writes
  BY <1>2, GoodTypes
<1>7. /\ y.wipe = s.writes.wipe /\ y.answers = s.writes.answers /\ y.votes = s.writes.votes
      /\ y.shown = s.writes.shown /\ y.joined = s.writes.joined
      /\ y.removed = s.writes.removed /\ y.extraTime = s.writes.extraTime
      /\ y.points = [q \in Answered(new) |-> new.answers[q].points]
      /\ y.scores = [q \in new.counted |-> score[q]]
  BY <1>3, <1>4, <1>6, PaysTyped
<1>8. u.writes = y
  BY <1>5
<1> HIDE DEF y
<1>21. u.live.play = new /\ t = Hiding(u, p, b)
  BY <1>4, <1>5
<1> HIDE DEF t
<1>9. /\ Good(t) /\ m = u.live /\ w.question = new.at /\ w.hidden = Only(p, b)
      /\ w.wipe = y.wipe /\ w.shown = y.shown /\ w.answers = y.answers /\ w.votes = y.votes
      /\ w.points = y.points /\ w.scores = y.scores /\ w.joined = y.joined
      /\ w.removed = y.removed /\ w.extraTime = y.extraTime
  BY <1>5, <1>8, <1>21, HidingIs
<1> HIDE DEF w
<1>10. /\ ~w.wipe /\ w.shown = {} /\ DOMAIN w.joined = {} /\ DOMAIN w.removed = {}
       /\ DOMAIN w.extraTime = {} /\ DOMAIN w.answers = {} /\ DOMAIN w.votes = {}
       /\ DOMAIN w.hidden = {p} /\ w.hidden[p] = b
       /\ w.points = [q \in Answered(new) |-> new.answers[q].points]
       /\ w.scores = [q \in new.counted |-> score[q]]
  BY <1>7, <1>9 DEF NothingYet, Bare, Only
<1>11. /\ SamePlaceAs(l, m) /\ m.play = new /\ m.score = score /\ m.joined = l.joined
       /\ m.removed = l.removed /\ m.extraTime = l.extraTime
  BY <1>4, <1>5, <1>9 DEF Edits, SameMoment, SamePlaceAs
<1>12. /\ \A q \in Players \ {p} : q \in DOMAIN w.points =>
            old.answers[q] # None /\ w.points[q] = old.answers[q].points
       /\ \A q \in Players \ {p} : q \in DOMAIN w.scores => w.scores[q] = l.score[q]
       /\ p \in DOMAIN w.points /\ w.points[p] = new.answers[p].points
       /\ IF p \in DOMAIN w.scores THEN w.scores[p] = score[p] ELSE p \notin new.counted
  BY <1>1, <1>3, <1>10 DEF Answered, Loses
<1>13. \A q \in Players \ {p} : new.favourite = q <=> old.favourite = q
  BY <1>1, NoneAssumption DEF Loses
<1>14. /\ Fair(old, e, p) /\ PlayOf(old, e) /\ OptionsFit(old, e)
       /\ \A q \in Players : Fair(old, e, q)
  <2>1. old # None
    BY SMTT(60), RowsAssumption
  <2> QED BY SMTT(60), <2>1 DEF Sound, Level, Fits, PlayOf
<1>15. Tells1(l, m, w, p)
  BY ZenonT(60), <1>1, <1>3, <1>9, <1>10, <1>11, <1>12, <1>13 DEF Tells1, Loses
<1>16. Repays(l, m, w, p, gain)
  <2>1. p \notin new.counted => gain = 0
    BY <1>1, <1>2, <1>14 DEF Fair, Loses, gain
  <2>2. new.answers[p].points = old.answers[p].points + gain
    BY <1>1, <1>2 DEF gain
  <2> QED BY ZenonT(60), <1>1, <1>3, <1>10, <1>11, <1>12, <1>15, <2>1, <2>2 DEF Repays, Loses
<1>17. Fair(new, e, p)
  BY <1>1, <1>14 DEF Fair, Loses
<1>18. new.favourite # None =>
           /\ KindOf(new.at) = "caption" /\ new.options # None
           /\ new.favourite \in new.options
           /\ new.answers[new.favourite] # None /\ ~new.answers[new.favourite].hidden
  <2>1. CASE new.favourite = None
    BY <2>1
  <2>2. CASE new.favourite # None
    <3>1. new.favourite = old.favourite /\ old.favourite # None
      BY <1>1, <2>2 DEF Loses
    <3>2. /\ KindOf(old.at) = "caption" /\ old.options # None /\ old.favourite \in old.options
          /\ old.answers[old.favourite] # None /\ ~old.answers[old.favourite].hidden
      BY <1>14, <3>1 DEF OptionsFit
    <3>3. old.favourite \in Players \ {p}
      BY <1>1, <3>1 DEF Plays, Maybe
    <3>4. new.at = old.at /\ new.options = old.options
          /\ new.answers[old.favourite] = old.answers[old.favourite]
      BY SMTT(60), <1>1, <3>3 DEF Loses
    <3> QED BY <3>1, <3>2, <3>4
  <2> QED BY <2>1, <2>2
<1>19. new.answers[p].hidden
  BY <1>1 DEF Loses
<1>20. Sound(d, t)
  BY ZenonT(60), <1>3, <1>9, <1>11, <1>16, <1>17, <1>18, <1>19, RepaidSound DEF w
<1> QED BY <1>5, <1>9, <1>20 DEF t

LEMMA HidesSound ==
  ASSUME NEW d, NEW s, Sound(d, s), NothingYet(s.writes), s.live.play \in Plays,
         NEW p \in Players, s.live.play.answers[p] # None, IsParty(s.live.play.at),
         NEW u, u = HideAnswer(s, p)
  PROVE  Sound(d, Hiding(u, p, TRUE)) /\ Good(u) /\ u.live.play \in Plays
         /\ Good(Hiding(u, p, TRUE)) /\ Hiding(u, p, TRUE).live = u.live
<1> DEFINE l == s.live
           b == TRUE
<1>1. /\ b \in BOOLEAN /\ HiddenIn(l.play, p) = Veiled(l.play, p, b)
      /\ ~b => l.removed[p] = None
      /\ l.play.options = None => b /\ l.play.options = None
      /\ Voided(l.play, p).answers[p].hidden = b
  <2>1. Voided(l.play, p).answers[p].hidden \in BOOLEAN
    BY VoidedIs DEF Loses, Plays, Maybe, Answers
  <2> QED BY <2>1, VoidedIs DEF HiddenIn, Loses
<1> HIDE DEF b
<1>2. s \in Steps
  BY DEF Sound, Level, Tells, Good
<1>3. IF l.phase = "review" \/ l.play.options = None
      THEN Edits(s, u, HiddenIn(l.play, p), l.score)
      ELSE IF ~l.play.scored THEN Edits(s, u, Passed(l.play, p), l.score)
      ELSE \E v : Edits(s, v, Voided(l.play, p), Docked(l, p)) /\ u = SaveScoring(v)
  BY <1>2, HideAnswerIs
<1>4. l.play # None
  BY RowsAssumption
<1>5. l.phase = "review" => l.play.options = None
  BY <1>4 DEF Sound, PhaseFits, Suits
<1>6. ~l.play.scored => l.play.favourite = None
  BY <1>4 DEF Sound, Level, Fits, PlayOf, OptionsFit
<1>7. ASSUME l.phase = "review" \/ l.play.options = None
      PROVE  Sound(d, Hiding(u, p, b)) /\ Good(u) /\ u.live.play \in Plays
             /\ Good(Hiding(u, p, b)) /\ Hiding(u, p, b).live = u.live
  BY <1>1, <1>3, <1>5, <1>7, HidUnpaidSound
<1>8. ASSUME ~(l.phase = "review" \/ l.play.options = None), ~l.play.scored
      PROVE  Sound(d, Hiding(u, p, b)) /\ Good(u) /\ u.live.play \in Plays
             /\ Good(Hiding(u, p, b)) /\ Hiding(u, p, b).live = u.live
  <2>1. Passed(l.play, p) = HiddenIn(l.play, p)
    BY <1>6, <1>8, NoneAssumption DEF Passed
  <2> QED BY <1>1, <1>3, <1>8, <2>1, HidUnpaidSound
<1>9. ASSUME ~(l.phase = "review" \/ l.play.options = None), l.play.scored
      PROVE  Sound(d, Hiding(u, p, b)) /\ Good(u) /\ u.live.play \in Plays
             /\ Good(Hiding(u, p, b)) /\ Hiding(u, p, b).live = u.live
  <2>1. PICK v : Edits(s, v, Voided(l.play, p), Docked(l, p)) /\ u = SaveScoring(v)
    BY <1>3, <1>9
  <2> QED BY <1>1, <1>9, <2>1, HidPaidSound
<1> QED BY <1>7, <1>8, <1>9 DEF b

\* Before the reveal nothing is scored, in the reveal all is.
LEMMA ScoredAt ==
  ASSUME NEW d, NEW s, Sound(d, s), s.live.play \in Plays
  PROVE  /\ s.live.phase \in QuestionPhases => ~s.live.play.scored
         /\ s.live.phase \in RevealPhases => s.live.play.scored
         /\ PlayOf(s.live.play, Lands(d, s)) /\ Mirrors(s.live, Lands(d, s))
         /\ \E i \in DOMAIN s.live.log : /\ EntryFits(s.live.play, Lands(d, s), s.live.log[i])
                                         /\ Lands(d, s).row.log = s.live.log
<1> DEFINE l == s.live
<1>1. l.play # None /\ Level(d, s)
  BY RowsAssumption DEF Sound
<1>2. PICK i \in DOMAIN l.log : /\ l.log[i].at = l.play.at
                                /\ EntryFits(l.play, Lands(d, s), l.log[i])
  BY <1>1, PlayEntry
<1>3. LogPlaced(l)
  BY <1>1, LevelHere
<1>4. l.phase \in AtPhases => l.play.at = Cursor(l)
  BY <1>1 DEF Sound, PhaseFits, Here
<1>5. l.phase \in AtPhases => (l.log[i].revealed # None <=> l.phase \in RevealPhases)
  BY <1>2, <1>3, <1>4 DEF LogPlaced, EntryPlaced
<1>6. QuestionPhases \cap RevealPhases = {} /\ AtPhases = QuestionPhases \cup RevealPhases
  BY DEF QuestionPhases, RevealPhases, AtPhases
<1>7. l.play.scored <=> l.log[i].revealed # None
  BY <1>2 DEF EntryFits
<1>8. PlayOf(l.play, Lands(d, s)) /\ Mirrors(l, Lands(d, s)) /\ Lands(d, s).row.log = l.log
  BY <1>1 DEF Level, Fits, Mirrors, SameRow
<1> QED BY <1>2, <1>5, <1>6, <1>7, <1>8

LEMMA ShowsSound ==
  ASSUME NEW d, NEW s, Sound(d, s), NothingYet(s.writes), s.live.play \in Plays,
         NEW p \in Players, s.live.play.answers[p] # None, IsParty(s.live.play.at),
         s.live.phase = "review", s.live.removed[p] = None,
         NEW u, u = [s EXCEPT !.live.play.answers[p].hidden = FALSE]
  PROVE  Sound(d, Hiding(u, p, FALSE)) /\ Good(u)
<1> DEFINE l   == s.live
           b   == FALSE
           new == Veiled(l.play, p, b)
<1>1. /\ s \in Steps /\ l \in Lives /\ Good(s)
  BY GoodTypes DEF Sound, Level, Tells
<1>2. ~l.play.scored
  BY ScoredAt DEF QuestionPhases
<1>3. b \in BOOLEAN /\ u = [s EXCEPT !.live.play = new]
  BY DEF Veiled
<1>4. \A pl : [s EXCEPT !.live.play = pl] = [s EXCEPT !.live = [l EXCEPT !.play = pl, !.score = l.score]]
  BY <1>1 DEF Lives
<1>7. new = Veiled(l.play, p, b)
  OBVIOUS
<1> HIDE DEF b
<1> HIDE DEF new
<1>5. new \in Plays
  BY <1>3, <1>7, VeiledIs
<1>6. Edits(s, u, new, l.score)
  <2>1. l.score \in [Players -> Int]
    BY SMTT(60), <1>1 DEF Lives
  <2>2. u = [s EXCEPT !.live = [l EXCEPT !.play = new, !.score = l.score]]
    BY ZenonT(60), <1>3, <1>4
  <2>3. Edits(s, [s EXCEPT !.live = [s.live EXCEPT !.play = new, !.score = l.score]], new, l.score)
    BY ZenonT(60), <1>1, <1>5, <2>1, EditFacts
  <2> QED BY ZenonT(60), <2>2, <2>3
<1>8. Good(u) /\ u.writes = s.writes
  BY <1>1, <1>5, <1>6, SameMomentOK DEF Edits, Good
<1>9. Sound(d, Hiding(u, p, b))
  BY ZenonT(60), <1>2, <1>3, <1>6, <1>7, <1>8, VeiledSound
<1> QED BY ZenonT(60), <1>8, <1>9 DEF b

----------------------------------------------------------------------------
(* The favourite of the host. *)

LEMMA FavouredIs ==
  ASSUME NEW s, Good(s), s.live.play \in Plays, NEW p \in Players,
         s.live.play.answers[p] # None, p \in s.live.play.counted,
         NEW new, new = Picked(s.live.play, p),
         NEW score, score = [s.live.score EXCEPT ![p] = @ + 1]
  PROVE  /\ new \in Plays /\ new.at = s.live.play.at /\ new.votes = s.live.play.votes
         /\ new.eligible = s.live.play.eligible /\ new.options = s.live.play.options
         /\ new.scored = s.live.play.scored /\ new.counted = s.live.play.counted
         /\ new.favourite = p /\ new.answers[p] # None
         /\ new.answers[p].payload = s.live.play.answers[p].payload
         /\ new.answers[p].hidden = s.live.play.answers[p].hidden
         /\ new.answers[p].points = s.live.play.answers[p].points + 1
         /\ \A q \in Players \ {p} : new.answers[q] = s.live.play.answers[q]
         /\ score \in [Players -> Int] /\ score[p] = s.live.score[p] + 1
         /\ \A q \in Players \ {p} : score[q] = s.live.score[q]
         /\ \E v : Edits(s, v, new, score) /\ Favoured(s, p) = SaveScoring(v)
<1> DEFINE play   == s.live.play
           old    == play.answers[p]
           answer == [old EXCEPT !.points = @ + 1]
           one    == [play EXCEPT !.answers[p] = answer]
           t      == [s EXCEPT !.live = [s.live EXCEPT !.play = new, !.score = score]]
<1>1. s \in Steps /\ s.live \in Lives
  BY CursorTyped DEF Good
<1>2. old \in Answers /\ old.points \in Int
  BY AnswerWith DEF Plays, Maybe
<1>3. /\ answer \in Answers /\ answer.payload = old.payload /\ answer.hidden = old.hidden
      /\ answer.points = old.points + 1
  BY <1>2 DEF Answers
<1>4. score \in [Players -> Int] /\ score[p] = s.live.score[p] + 1
      /\ \A q \in Players \ {p} : score[q] = s.live.score[q]
  BY <1>1 DEF Lives
<1>5. new = [one EXCEPT !.favourite = p, !.counted = @ \cup {p}]
  BY DEF Picked, Plays
<1>6. Favoured(s, p) = SaveScoring([s EXCEPT !.live.play = new, !.live.score[p] = @ + 1])
  BY DEF Favoured
<1> HIDE DEF answer
<1>7. /\ one \in Plays /\ one.at = play.at /\ one.votes = play.votes
      /\ one.eligible = play.eligible /\ one.options = play.options
      /\ one.scored = play.scored /\ one.counted = play.counted
      /\ one.answers = [play.answers EXCEPT ![p] = answer] /\ one.answers[p] = answer
  BY <1>3, AnsweringFacts
<1>8. \A q \in Players \ {p} : one.answers[q] = play.answers[q]
  BY <1>7 DEF Plays
<1> HIDE DEF one
<1>9. one.counted \cup {p} = one.counted
  BY <1>7
<1>10. new \in Plays
  BY <1>5, <1>7, <1>9 DEF Plays, Maybe
<1>11. /\ new.at = one.at /\ new.votes = one.votes /\ new.eligible = one.eligible
       /\ new.options = one.options /\ new.scored = one.scored /\ new.counted = one.counted
       /\ new.answers = one.answers /\ new.favourite = p
  BY <1>5, <1>7, <1>9 DEF Plays
<1>12. [s EXCEPT !.live.play = new, !.live.score[p] = @ + 1] = t
  OBVIOUS
<1>13. Edits(s, t, new, score)
  BY ZenonT(60), <1>1, <1>4, <1>10, EditFacts
<1>14. answer # None
  BY <1>3, NoneAssumption
<1> HIDE DEF t
<1>15. Edits(s, t, new, score) /\ Favoured(s, p) = SaveScoring(t)
  BY <1>6, <1>12, <1>13
<1> QED BY ZenonT(60), <1>3, <1>4, <1>7, <1>8, <1>10, <1>11, <1>14, <1>15

LEMMA FavouredSound ==
  ASSUME NEW d, NEW s, Sound(d, s), NothingYet(s.writes), s.live.play \in Plays,
         s.live.phase = "reveal", NEW p \in Players, KindOf(s.live.play.at) = "caption",
         s.live.play.favourite = None, s.live.play.options # None,
         p \in s.live.play.options, s.live.play.answers[p] # None,
         ~s.live.play.answers[p].hidden
  PROVE  Sound(d, Favoured(s, p)) /\ Good(Favoured(s, p))
<1> DEFINE l    == s.live
           old  == l.play
           new  == Picked(old, p)
           score == [l.score EXCEPT ![p] = @ + 1]
           u    == Favoured(s, p)
           w    == u.writes
           m    == u.live
           e    == Lands(d, s)
           y    == Pays(s.writes, new, score)
<1>1. /\ Good(s) /\ s \in Steps /\ l \in Lives /\ l.score \in [Players -> Int]
      /\ old.answers[p].points \in Int /\ s.writes \in Writes
  BY GoodTypes DEF Sound, Level, Tells, Lives, Plays, Maybe, Answers
<1>2. old.scored /\ PlayOf(old, e) /\ Mirrors(l, e)
  BY ScoredAt DEF RevealPhases
<1>3. p \in old.counted
  <2>1. PICK i \in DOMAIN e.row.log : EntryFits(old, e, e.row.log[i])
    BY <1>2 DEF PlayOf
  <2>2. p \in old.eligible /\ e.removed[p] = None
    BY <1>2 DEF PlayOf, Fair, IsParty
  <2> QED BY <1>2, <2>1, <2>2 DEF EntryFits, SeenAtReveal
<1>4. /\ new \in Plays /\ new.at = old.at /\ new.votes = old.votes
      /\ new.eligible = old.eligible /\ new.options = old.options
      /\ new.scored = old.scored /\ new.counted = old.counted
      /\ new.favourite = p /\ new.answers[p] # None
      /\ new.answers[p].payload = old.answers[p].payload
      /\ new.answers[p].hidden = old.answers[p].hidden
      /\ new.answers[p].points = old.answers[p].points + 1
      /\ \A q \in Players \ {p} : new.answers[q] = old.answers[q]
      /\ score \in [Players -> Int] /\ score[p] = l.score[p] + 1
      /\ \A q \in Players \ {p} : score[q] = l.score[q]
      /\ \E v : Edits(s, v, new, score) /\ u = SaveScoring(v)
  BY <1>1, <1>3, FavouredIs
<1> HIDE DEF new, score, u
<1>5. PICK v : Edits(s, v, new, score) /\ u = SaveScoring(v)
  BY <1>4
<1>6. /\ v \in Steps /\ v.live.play = new /\ v.live.score = score
      /\ v.writes = s.writes /\ Good(v)
  BY <1>1, <1>4, <1>5, SameMomentOK DEF Edits, Good
<1>7. /\ u.writes = y /\ u.live = v.live /\ u \in Steps /\ Good(u)
  BY <1>4, <1>5, <1>6, SaveScoringPays, SaveScoringFacts DEF Good
<1>8. /\ y.question = new.at
      /\ y.wipe = s.writes.wipe /\ y.answers = s.writes.answers /\ y.votes = s.writes.votes
      /\ y.shown = s.writes.shown /\ y.joined = s.writes.joined /\ y.hidden = s.writes.hidden
      /\ y.removed = s.writes.removed /\ y.extraTime = s.writes.extraTime
      /\ y.points = [q \in Answered(new) |-> new.answers[q].points]
      /\ y.scores = [q \in new.counted |-> score[q]]
  BY <1>1, <1>4, PaysTyped
<1> HIDE DEF y, w
<1>9. w = y
  BY <1>7 DEF w
<1>10. /\ ~w.wipe /\ w.shown = {} /\ DOMAIN w.joined = {} /\ DOMAIN w.removed = {}
       /\ DOMAIN w.extraTime = {} /\ DOMAIN w.answers = {} /\ DOMAIN w.votes = {}
       /\ DOMAIN w.hidden = {} /\ w.question = new.at
       /\ w.points = [q \in Answered(new) |-> new.answers[q].points]
       /\ w.scores = [q \in new.counted |-> score[q]]
  BY SMTT(60), <1>8, <1>9 DEF NothingYet, Bare
<1>11. /\ SamePlaceAs(l, m) /\ m.play = new /\ m.score = score /\ m.joined = l.joined
       /\ m.removed = l.removed /\ m.extraTime = l.extraTime
  BY SMTT(60), <1>5, <1>6, <1>7 DEF Edits, SameMoment, SamePlaceAs
<1>12. /\ \A q \in Players \ {p} : q \in DOMAIN w.points =>
            old.answers[q] # None /\ w.points[q] = old.answers[q].points
       /\ \A q \in Players \ {p} : q \in DOMAIN w.scores => w.scores[q] = l.score[q]
       /\ p \in DOMAIN w.points /\ w.points[p] = new.answers[p].points
       /\ p \in DOMAIN w.scores /\ w.scores[p] = score[p]
  BY <1>3, <1>4, <1>10 DEF Answered
<1>13. \A q \in Players \ {p} : new.favourite = q <=> old.favourite = q
  BY <1>4, NoneAssumption
<1>14. Tells1(l, m, w, p)
  BY ZenonT(60), <1>4, <1>10, <1>11, <1>12, <1>13 DEF Tells1
<1>15. Repays(l, m, w, p, 1)
  BY ZenonT(60), <1>2, <1>4, <1>10, <1>11, <1>12, <1>14 DEF Repays
<1>16. Fair(new, e, p)
  <2>1. Fair(old, e, p)
    BY <1>2 DEF PlayOf
  <2> QED BY <1>2, <1>3, <1>4, <2>1 DEF Fair
<1>17. /\ KindOf(new.at) = "caption" /\ new.options # None /\ new.favourite \in new.options
       /\ new.answers[new.favourite] # None /\ ~new.answers[new.favourite].hidden
  BY <1>4
<1>18. \A i \in DOMAIN e.row.log :
           /\ EntryFits(old, e, e.row.log[i])
           /\ KindOf(old.at) = "caption" /\ ~new.answers[p].hidden
           => new.answers[p].points = Cardinality(Drawn(e, e.row.log[i], p))
                                      + (IF new.favourite = p THEN 1 ELSE 0)
  <2> TAKE i \in DOMAIN e.row.log
  <2> HAVE EntryFits(old, e, e.row.log[i])
  <2>1. old.answers[p].points = Cardinality(Drawn(e, e.row.log[i], p)) + 0
    <3>1. old.favourite # p /\ e.row.log[i].at = old.at
      BY SMTT(60), NoneAssumption DEF EntryFits
    <3>2. KindOf(e.row.log[i].at) = "caption"
      BY <3>1
    <3> QED BY <1>2, <3>1, <3>2 DEF EntryFits
  <2>2. Cardinality(Drawn(e, e.row.log[i], p)) \in Nat
    BY ZenonT(60), PlayersAssumption, FS_Subset, FS_CardinalityType DEF Drawn
  <2> QED BY <1>1, <1>4, <2>1, <2>2
<1>19. 1 \in Int
  OBVIOUS
<1>20. Sound(d, u)
  BY SMTT(60), <1>7, <1>11, <1>15, <1>16, <1>17, <1>18, <1>19, RepaidSound DEF w
<1> QED BY <1>7, <1>20 DEF u

----------------------------------------------------------------------------
(* An answer or a vote comes in. *)

\* A submission: a new answer of p, or a new vote.
Adds(l, m, v, p) ==
  /\ Tells1(l, m, v, p) /\ ~l.play.scored /\ p \in l.play.eligible /\ l.removed[p] = None
  /\ m.play.favourite = l.play.favourite /\ m.score = l.score
  /\ DOMAIN v.points = {} /\ DOMAIN v.scores = {} /\ DOMAIN v.hidden = {}
  /\ \/ /\ DOMAIN v.answers = {p} /\ DOMAIN v.votes = {} /\ m.play.votes[p] = l.play.votes[p]
        /\ m.play.answers[p] # None /\ m.play.answers[p].payload = v.answers[p]
        /\ m.play.answers[p].points = 0 /\ ~m.play.answers[p].hidden
     \/ /\ DOMAIN v.answers = {} /\ DOMAIN v.votes = {p}
        /\ m.play.answers[p] = l.play.answers[p] /\ m.play.votes[p] = v.votes[p]

LEMMA AddedSound ==
  ASSUME NEW d, NEW s, Sound(d, s), NothingYet(s.writes), NEW t, Good(t),
         NEW p \in Players, Adds(s.live, t.live, t.writes, p)
  PROVE  Sound(d, t) /\ Unpaying(t)
<1> DEFINE v == t.writes
           l == s.live
           m == t.live
           e == Lands(d, s)
           f == Lands(d, t)
           x == l.play.at
           old == l.play
           new == m.play
<1>1. /\ Adds(l, m, v, p) /\ Tells1(l, m, v, p) /\ Level(d, s)
      /\ old \in Plays /\ new \in Plays /\ new.at = x /\ new.options = old.options
      /\ ~new.scored /\ ~old.scored /\ SamePlaceAs(l, m)
      /\ m.joined = l.joined /\ m.removed = l.removed /\ m.extraTime = l.extraTime
      /\ m.score = l.score /\ v.question = x /\ v.shown = {} /\ DOMAIN v.removed = {}
      /\ new.eligible = old.eligible
      /\ DOMAIN v.points = {} /\ DOMAIN v.scores = {} /\ DOMAIN v.hidden = {}
      /\ new.favourite = old.favourite /\ p \in old.eligible /\ l.removed[p] = None
  BY ZenonT(60) DEF Adds, Tells1, Sound
<1>2. /\ Tells(d, t) /\ f.row = Row(m) /\ x \in Questions
      /\ SameRoomRows(e, f) /\ f.extraTime = e.extraTime
      /\ Reworks(l, e, m, f, p) <=>
           ((f.answers[x][p] # None /\ f.answers[x][p].shown)
             <=> (e.answers[x][p] # None /\ e.answers[x][p].shown))
      /\ \A y \in Questions \ {x}, q \in Players :
           f.answers[y][q] = e.answers[y][q] /\ f.votes[y][q] = e.votes[y][q]
      /\ \A q \in Players \ {p} : SameCell(e, f, x, q) /\ f.score[q] = e.score[q]
      /\ f.score[p] = IF p \in DOMAIN v.scores THEN v.scores[p] ELSE e.score[p]
      /\ CellIs(f.answers[x][p], v, p, Before(e, v, x, p))
      /\ f.votes[x][p] = IF p \in DOMAIN v.votes THEN v.votes[p] ELSE e.votes[x][p]
      /\ Stored(old, e, p) /\ Fair(old, e, p) /\ PlayOf(old, e) /\ Mirrors(l, e)
  <2>1. Tells(d, t) /\ OneLands(l, e, m, f, v, x, p)
    BY SMTT(60), <1>1, TellsOne
  <2> HIDE DEF l, m, e, f, v
  <2> QED BY ZenonT(60), <2>1 DEF OneLands, old
<1>3. \/ /\ DOMAIN v.answers = {p} /\ DOMAIN v.votes = {} /\ new.votes[p] = old.votes[p]
         /\ new.answers[p] # None /\ new.answers[p].payload = v.answers[p]
         /\ new.answers[p].points = 0 /\ ~new.answers[p].hidden
         /\ old.answers[p] = None
      \/ /\ DOMAIN v.answers = {} /\ DOMAIN v.votes = {p}
         /\ new.answers[p] = old.answers[p] /\ new.votes[p] = v.votes[p]
  BY <1>1 DEF Adds, Tells1
<1> HIDE DEF l, m, f, v, e
<1>4. l.removed = e.removed /\ f.removed = e.removed /\ old.at = x
  BY <1>2 DEF Mirrors, SameRoomRows, x, old
<1>5. PICK i \in DOMAIN e.row.log : EntryFits(old, e, e.row.log[i])
  BY <1>2 DEF PlayOf
<1>6. e.row.log[i].at = x /\ e.row.log[i].revealed = None
  BY SMTT(60), <1>1, <1>5 DEF EntryFits, x, old
<1>7. \A q \in Players : e.answers[x][q] # None => e.answers[x][q].points = 0
  <2>1. Accounts(e)
    BY <1>2, Zenon DEF SameRoomRows
  <2> HIDE DEF x
  <2> QED BY <1>6, <2>1, UnpaidIs, Zenon
<1>8. /\ Stored(new, f, p) /\ Fair(new, f, p)
      /\ f.answers[x][p] # None => f.answers[x][p].points = 0
      /\ (f.answers[x][p] # None /\ f.answers[x][p].shown)
           <=> (e.answers[x][p] # None /\ e.answers[x][p].shown)
  <2>1. CASE /\ DOMAIN v.answers = {p} /\ DOMAIN v.votes = {} /\ new.votes[p] = old.votes[p]
             /\ new.answers[p] # None /\ new.answers[p].payload = v.answers[p]
             /\ new.answers[p].points = 0 /\ ~new.answers[p].hidden
             /\ old.answers[p] = None
    <3>1. e.answers[x][p] = None
      BY <1>2, <2>1 DEF Stored, SameAnswer, x, old
    <3> DEFINE row == [payload |-> v.answers[p], points |-> 0, hidden |-> FALSE, shown |-> FALSE]
    <3>2. Before(e, v, x, p) = row
      BY <2>1 DEF Before
    <3>3. CellIs(f.answers[x][p], v, p, row)
      BY <1>2, <3>2
    <3>4. row # None
      <4>1. new.answers[p] \in Answers
        BY <1>1, <2>1 DEF Plays, Maybe
      <4>2. row \in AnswerRows
        BY <2>1, <4>1 DEF Answers, AnswerRows
      <4> QED BY <4>2, RowsAssumption
    <3>5. /\ row.payload = v.answers[p] /\ row.points = 0 /\ row.hidden = FALSE /\ row.shown = FALSE
      OBVIOUS
    <3> HIDE DEF row
    <3>6. /\ f.answers[x][p] # None /\ f.answers[x][p].payload = v.answers[p]
          /\ f.answers[x][p].points = 0
          /\ f.answers[x][p].shown = (row.shown \/ p \in v.shown)
          /\ f.answers[x][p].hidden = (p \in DOMAIN v.removed
                                       \/ (IF p \in DOMAIN v.hidden THEN v.hidden[p] ELSE row.hidden))
      BY ZenonT(60), <1>1, <3>3, <3>4, <3>5 DEF CellIs
    <3>7. ~f.answers[x][p].shown /\ ~f.answers[x][p].hidden
      BY <1>1, <3>5, <3>6
    <3>8. new.answers[p].hidden = f.answers[x][p].hidden
      <4>1. new.answers[p].hidden \in BOOLEAN
        BY <1>1, <2>1 DEF Plays, Maybe, Answers
      <4>2. f.answers[x][p].hidden = FALSE
        BY ZenonT(60), <1>1, <3>5, <3>6
      <4> QED BY <2>1, <4>1, <4>2
    <3>9. new.votes[p] = f.votes[x][p]
      BY ZenonT(60), <1>2, <1>4, <2>1 DEF Stored
    <3>10. Stored(new, f, p)
      <4>1. SameAnswer(x, new.answers[p], f.answers[x][p])
        BY <2>1, <3>6, <3>8 DEF SameAnswer
      <4> QED BY <1>1, <3>9, <4>1 DEF Stored
    <3>11. Fair(new, f, p)
      BY <1>1, <1>4, <2>1 DEF Fair
    <3> QED BY <3>1, <3>6, <3>7, <3>10, <3>11
  <2>2. CASE /\ DOMAIN v.answers = {} /\ DOMAIN v.votes = {p}
             /\ new.answers[p] = old.answers[p] /\ new.votes[p] = v.votes[p]
    <3>1. Before(e, v, x, p) = e.answers[x][p]
      BY <2>2 DEF Before
    <3>2. CellIs(f.answers[x][p], v, p, e.answers[x][p])
      BY <1>2, <3>1
    <3>3. f.answers[x][p] = None <=> e.answers[x][p] = None
      BY <3>2 DEF CellIs
    <3>4. SameAnswer(x, old.answers[p], e.answers[x][p])
      BY ZenonT(60), <1>2, <1>4 DEF Stored
    <3>5. ASSUME e.answers[x][p] # None
          PROVE  /\ f.answers[x][p].payload = e.answers[x][p].payload
                 /\ f.answers[x][p].points = e.answers[x][p].points
                 /\ f.answers[x][p].shown = e.answers[x][p].shown
                 /\ f.answers[x][p].hidden = e.answers[x][p].hidden
      <4>1. e.answers[x][p] \in AnswerRows
        BY SMTT(60), <1>2, <3>5 DEF SameRoomRows, Stores, Maybe
      <4>2. e.answers[x][p].hidden \in BOOLEAN /\ e.answers[x][p].shown \in BOOLEAN
        BY <4>1 DEF AnswerRows
      <4> QED BY ZenonT(60), <1>1, <3>2, <3>3, <3>5, <4>2 DEF CellIs
    <3>6. SameAnswer(x, new.answers[p], f.answers[x][p])
      BY <2>2, <3>3, <3>4, <3>5 DEF SameAnswer
    <3>7. f.votes[x][p] = v.votes[p]
      BY <1>2, <2>2
    <3>8. Stored(new, f, p)
      BY <1>1, <2>2, <3>6, <3>7 DEF Stored
    <3>9. Fair(new, f, p)
      BY ZenonT(60), <1>1, <1>2, <1>4, <2>2 DEF Fair
    <3> QED BY ZenonT(60), <1>7, <3>3, <3>5, <3>8, <3>9
  <2> QED BY <1>3, <2>1, <2>2
<1>9. Reworks(l, e, m, f, p)
  BY ZenonT(60), <1>2, <1>8
<1>10. new.favourite = None
  BY <1>1, <1>2 DEF PlayOf, OptionsFit
<1>11. PlayOf(new, f)
  BY ZenonT(60), <1>1, <1>8, <1>9, <1>10, ReworkedPlay
<1>12. f.score = e.score
  <2>1. \A q \in Players : f.score[q] = e.score[q]
    BY SMTT(60), <1>1, <1>2
  <2> QED BY <1>2, <2>1 DEF SameRoomRows, Stores
<1>13. Accounts(f)
  <2>1. ASSUME NEW q \in Players, f.answers[x][q] # None PROVE f.answers[x][q].points = 0
    <3>1. CASE q = p
      BY <1>8, <2>1, <3>1, Zenon
    <3>2. CASE q # p
      <4>1. SameCell(e, f, x, q)
        BY <1>2, <3>2
      <4>2. e.answers[x][q] # None /\ f.answers[x][q].points = e.answers[x][q].points
        BY <2>1, <4>1, Zenon DEF SameCell
      <4> QED BY <1>7, <4>2, Zenon
    <3> QED BY <3>1, <3>2
  <2>2. /\ SameRoomRows(e, f) /\ x \in Questions
        /\ \A y \in Questions \ {x}, q \in Players :
             f.answers[y][q] = e.answers[y][q] /\ f.votes[y][q] = e.votes[y][q]
    BY <1>2
  <2> HIDE DEF x
  <2> QED BY SMTT(60), <1>6, <1>12, <2>1, <2>2, PaidLater
<1>14. m.joined = f.joined /\ m.removed = f.removed /\ m.extraTime = f.extraTime
       /\ m.score = f.score
  BY SMTT(60), <1>1, <1>2, <1>12 DEF SameRoomRows, Mirrors
<1>15. SameTerms(l, m)
  BY SMTT(60), <1>1, RowsAssumption DEF SameTerms, old, new, x
<1>16. Sound(d, t)
  BY ZenonT(60), <1>1, <1>2, <1>11, <1>13, <1>14, <1>15, EditSound DEF l, m, f, new
<1>17. Unpaying(t)
  BY SMTT(60), <1>1 DEF Unpaying, v, m, new
<1> QED BY <1>16, <1>17

\* What a step so far does to the live state once q's answer or vote is in.
Submits(l, m, v, w, at, answers, votes) ==
  /\ m.status = l.status
  /\ SamePlaceAs(l, m) /\ m.joined = l.joined /\ m.removed = l.removed
  /\ m.extraTime = l.extraTime /\ m.score = l.score
  /\ m.play \in Plays /\ m.play.at = at /\ m.play.eligible = l.play.eligible
  /\ m.play.options = l.play.options /\ m.play.scored = l.play.scored
  /\ m.play.counted = l.play.counted /\ m.play.favourite = l.play.favourite
  /\ v.question = at /\ v.wipe = w.wipe /\ v.shown = w.shown /\ v.hidden = w.hidden
  /\ v.points = w.points /\ v.scores = w.scores /\ v.joined = w.joined
  /\ v.removed = w.removed /\ v.extraTime = w.extraTime
  /\ v.answers = answers /\ v.votes = votes

Answering(s, p, answer, at, part) ==
  [s EXCEPT !.live.play.answers[p] = answer, !.writes.question = at, !.writes.answers = part]
Voting(s, p, option, at, part) ==
  [s EXCEPT !.live.play.votes[p] = option, !.writes.question = at, !.writes.votes = part]

LEMMA AnsweringIs ==
  ASSUME NEW s, Good(s), s.live.play \in Plays, NEW p \in Players,
         NEW answer \in Answers, NEW part \in PartOf({"right", "wrong", "text"}),
         NEW at, at = s.live.play.at
  PROVE  LET t == Answering(s, p, answer, at, part)
         IN  /\ Good(t) /\ t.saves = s.saves
             /\ Submits(s.live, t.live, t.writes, s.writes, at, part, s.writes.votes)
             /\ t.live.play.votes = s.live.play.votes /\ t.live.play.answers[p] = answer
             /\ \A q \in Players \ {p} : t.live.play.answers[q] = s.live.play.answers[q]
<1> DEFINE t == Answering(s, p, answer, at, part)
           play == [s.live.play EXCEPT !.answers[p] = answer]
           w    == [s.writes EXCEPT !.question = at, !.answers = part]
           r    == [s EXCEPT !.live = [s.live EXCEPT !.play = play, !.score = s.live.score]]
           u    == [r EXCEPT !.writes = w]
<1>1. s \in Steps /\ s.live \in Lives /\ s.writes \in Writes
  BY GoodTypes
<1>3. t = u
  <2>1. t = [[s EXCEPT !.live = [s.live EXCEPT !.play = play]] EXCEPT !.writes = w]
    BY <1>1 DEF Steps, Answering, Voting
  <2> HIDE DEF play
  <2>2. [s.live EXCEPT !.play = play] = [s.live EXCEPT !.play = play, !.score = s.live.score]
    BY <1>1 DEF Lives
  <2> QED BY <2>1, <2>2
<1> HIDE DEF t
<1>4. /\ play \in Plays /\ play.at = s.live.play.at /\ play.eligible = s.live.play.eligible
      /\ play.options = s.live.play.options /\ play.favourite = s.live.play.favourite
      /\ play.scored = s.live.play.scored /\ play.counted = s.live.play.counted
      /\ play.votes = s.live.play.votes /\ play.answers = [s.live.play.answers EXCEPT ![p] = answer]
      /\ play.answers[p] = answer
  BY AnsweringFacts
<1>5. \A q \in Players \ {p} : play.answers[q] = s.live.play.answers[q]
  BY <1>4 DEF Plays
<1> HIDE DEF play
<1>6. Edits(s, r, play, s.live.score)
  <2>1. s.live.score \in [Players -> Int]
    BY <1>1 DEF Lives
  <2> QED BY <1>1, <1>4, <2>1, EditFacts
<1>7. w \in Writes
  <2>1. at \in Maybe(Questions)
    BY DEF Plays, Maybe
  <2> QED BY <1>1, <2>1 DEF Writes
<1>8. /\ w.question = at /\ w.wipe = s.writes.wipe /\ w.shown = s.writes.shown
      /\ w.hidden = s.writes.hidden /\ w.points = s.writes.points /\ w.scores = s.writes.scores
      /\ w.joined = s.writes.joined /\ w.removed = s.writes.removed
      /\ w.extraTime = s.writes.extraTime /\ w.answers = part /\ w.votes = s.writes.votes
  BY <1>1 DEF Writes
<1> HIDE DEF r, w
<1>9. u \in Steps /\ u.live = r.live /\ u.saves = r.saves
  BY <1>6, <1>7, WithWrites DEF Edits
<1>10. u.writes = w
  BY <1>6 DEF Edits, Steps
<1> HIDE DEF u
<1>11. Good(u)
  BY <1>4, <1>6, <1>9, SameMomentOK DEF Good, Edits
<1>12. SamePlaceAs(s.live, u.live) /\ u.live.status = s.live.status
  BY <1>6, <1>9 DEF Edits, SameMoment, SamePlaceAs
<1>13. Submits(s.live, u.live, u.writes, s.writes, at, part, s.writes.votes)
  BY <1>4, <1>6, <1>8, <1>9, <1>10, <1>12 DEF Edits, Submits
<1>14. Good(t) /\ t.saves = s.saves
  BY <1>3, <1>6, <1>9, <1>11 DEF Edits
<1>15. Submits(s.live, t.live, t.writes, s.writes, at, part, s.writes.votes)
  BY <1>3, <1>13
<1>16. t.live.play = play
  BY <1>3, <1>6, <1>9 DEF Edits
<1>17. /\ t.live.play.votes = s.live.play.votes /\ t.live.play.answers[p] = answer
       /\ \A q \in Players \ {p} : t.live.play.answers[q] = s.live.play.answers[q]
  BY <1>4, <1>5, <1>16
<1> QED BY ZenonT(60), <1>14, <1>15, <1>17 DEF t

LEMMA VotingIs ==
  ASSUME NEW s, Good(s), s.live.play \in Plays, NEW p \in Players,
         NEW option \in PlayerVotes, NEW part \in PartOf(PlayerVotes),
         NEW at, at = s.live.play.at
  PROVE  LET t == Voting(s, p, option, at, part)
         IN  /\ Good(t) /\ t.saves = s.saves
             /\ Submits(s.live, t.live, t.writes, s.writes, at, s.writes.answers, part)
             /\ t.live.play.answers = s.live.play.answers /\ t.live.play.votes[p] = option
             /\ \A q \in Players \ {p} : t.live.play.votes[q] = s.live.play.votes[q]
<1> DEFINE t == Voting(s, p, option, at, part)
           votes == [s.live.play.votes EXCEPT ![p] = option]
           play == [s.live.play EXCEPT !.votes = votes]
           w    == [s.writes EXCEPT !.question = at, !.votes = part]
           r    == [s EXCEPT !.live = [s.live EXCEPT !.play = play, !.score = s.live.score]]
           u    == [r EXCEPT !.writes = w]
<1>1. s \in Steps /\ s.live \in Lives /\ s.writes \in Writes
  BY GoodTypes
<1>14. votes \in [Players -> Maybe(PlayerVotes)] /\ votes[p] = option
       /\ \A q \in Players \ {p} : votes[q] = s.live.play.votes[q]
  BY DEF Plays, Maybe
<1>3. t = u
  <2>1. t = [[s EXCEPT !.live = [s.live EXCEPT !.play = play]] EXCEPT !.writes = w]
    BY <1>1 DEF Steps, Answering, Voting
  <2> HIDE DEF play
  <2>2. [s.live EXCEPT !.play = play] = [s.live EXCEPT !.play = play, !.score = s.live.score]
    BY <1>1 DEF Lives
  <2> QED BY <2>1, <2>2
<1> HIDE DEF t
<1> HIDE DEF votes
<1>4. /\ play \in Plays /\ play.at = s.live.play.at /\ play.eligible = s.live.play.eligible
      /\ play.options = s.live.play.options /\ play.favourite = s.live.play.favourite
      /\ play.scored = s.live.play.scored /\ play.counted = s.live.play.counted
      /\ play.answers = s.live.play.answers /\ play.votes = votes
  BY <1>14 DEF Plays
<1> HIDE DEF play
<1>6. Edits(s, r, play, s.live.score)
  <2>1. s.live.score \in [Players -> Int]
    BY <1>1 DEF Lives
  <2> QED BY <1>1, <1>4, <2>1, EditFacts
<1>7. w \in Writes
  <2>1. at \in Maybe(Questions)
    BY DEF Plays, Maybe
  <2> QED BY <1>1, <2>1 DEF Writes
<1>8. /\ w.question = at /\ w.wipe = s.writes.wipe /\ w.shown = s.writes.shown
      /\ w.hidden = s.writes.hidden /\ w.points = s.writes.points /\ w.scores = s.writes.scores
      /\ w.joined = s.writes.joined /\ w.removed = s.writes.removed
      /\ w.extraTime = s.writes.extraTime /\ w.votes = part /\ w.answers = s.writes.answers
  BY <1>1 DEF Writes
<1> HIDE DEF r, w
<1>9. u \in Steps /\ u.live = r.live /\ u.saves = r.saves
  BY <1>6, <1>7, WithWrites DEF Edits
<1>10. u.writes = w
  BY <1>6 DEF Edits, Steps
<1> HIDE DEF u
<1>11. Good(u)
  BY <1>4, <1>6, <1>9, SameMomentOK DEF Good, Edits
<1>12. SamePlaceAs(s.live, u.live) /\ u.live.status = s.live.status
  BY <1>6, <1>9 DEF Edits, SameMoment, SamePlaceAs
<1>13. Submits(s.live, u.live, u.writes, s.writes, at, s.writes.answers, part)
  BY <1>4, <1>6, <1>8, <1>9, <1>10, <1>12 DEF Edits, Submits
<1>15. /\ Good(t) /\ t.saves = s.saves
       /\ Submits(s.live, t.live, t.writes, s.writes, at, s.writes.answers, part)
       /\ t.live.play.answers = s.live.play.answers /\ t.live.play.votes[p] = option
       /\ \A q \in Players \ {p} : t.live.play.votes[q] = s.live.play.votes[q]
  BY <1>3, <1>4, <1>6, <1>9, <1>11, <1>13, <1>14 DEF Edits
<1> QED BY ZenonT(60), <1>15 DEF t

================================================================================
