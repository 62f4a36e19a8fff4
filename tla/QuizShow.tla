------------------------------- MODULE QuizShow -------------------------------
(***************************************************************************)
(* One Pulse Live session: the engine's live state in the memory of the    *)
(* process that runs it, its phase timer, the rows it is stored in and the *)
(* ordered chain of writes between the two.                                *)
(*                                                                         *)
(* A command changes the memory and shows everyone the outcome at once;    *)
(* its writes join the chain as one batch, captured when it is queued, and *)
(* commit together later.  A batch that fails is logged and dropped, and   *)
(* the ones behind it go on.  When the process dies the memory, the timer  *)
(* and the chain are gone; the next one pauses what was running.  In a     *)
(* deploy the old process may still be writing out its chain (late) while  *)
(* the new one serves.                                                     *)
(***************************************************************************)
EXTENDS QuizEngine

CONSTANTS
  ExtraTimers,   \* the players who may ask for extra time
  MaxQueue,      \* bound: batches waiting in the chain
  MaxTime,       \* bound: what host:addTime may stretch a deadline to
  MaxLate,       \* bound: how late the event loop runs a due timer
  MaxRestarts, MaxDeploys, MaxFailures, MaxAdds, MaxAways,
  MaxRemovals, MaxTaps   \* bounds on what may happen

ASSUME BoundsAssumption ==
  /\ ExtraTimers \subseteq Players
  /\ \A n \in {MaxQueue, MaxTime, MaxLate, MaxRestarts, MaxDeploys, MaxFailures, MaxAdds,
            MaxAways, MaxRemovals, MaxTaps} :
       n \in Nat

Maybe(S) == S \cup {None}

\* An entry of question_log, and the session row that holds the log.
Entries == [at : Questions, opened : Nat, revealed : Maybe(Nat), skipped : BOOLEAN]
RowTypes == [status : Open \cup Closed, phase : Phases, round : Maybe(1..Len(Rounds)),
             question : Maybe(Nat), phaseId : Nat, recovery : BOOLEAN,
             log : Seq(Entries), hostSeen : BOOLEAN]

\* A stored answer: shown is set when it goes to the vote.
AnswerRows == [payload : {"right", "wrong", "text"}, points : Int, hidden : BOOLEAN,
               shown : BOOLEAN]

PlayerVotes == Players \cup {Truth}

\* The play of a question.
Plays == [at        : Questions,
          eligible  : SUBSET Players,
          extra     : SUBSET Players,
          answers   : [Players -> Maybe(Answers)],
          votes     : [Players -> Maybe(PlayerVotes)],
          options   : Maybe(SUBSET PlayerVotes),
          favourite : Maybe(Players),
          scored    : BOOLEAN,
          counted   : SUBSET Players]

Positions == [Players -> Maybe(Nat)]

ASSUME RowsAssumption ==
  None \notin RowTypes /\ None \notin AnswerRows /\ None \notin Plays /\ None \notin Questions

VARIABLES
  live,    \* the live state, or None when no process has the session loaded
  timer,   \* the phase timer: the phase it is for and the time left to it
  queue,   \* the write chain, oldest first
  late,    \* the chain of the process a deploy replaced
  db,      \* the session row with its players, answers, votes and results
  spent    \* the restarts, failures and added times so far

vars == <<live, timer, queue, late, db, spent>>

Row(state) ==
  [status    |-> state.status,  phase    |-> state.phase,
   round     |-> state.round,   question |-> state.question,
   phaseId   |-> state.phaseId, recovery |-> state.recovery,
   log       |-> state.log,     hostSeen |-> state.hostSeen]

Nobody == [p \in Players |-> None]

\* The lobby as openForQuiz inserts it.
FreshRow == [status |-> "lobby", phase |-> "lobby", round |-> None, question |-> None,
             phaseId |-> 0, recovery |-> FALSE, log |-> <<>>, hostSeen |-> TRUE]

Init ==
  /\ live = None /\ timer = None /\ queue = <<>> /\ late = <<>>
  /\ db = [row       |-> FreshRow,
           joined    |-> Nobody,
           removed   |-> Nobody,
           extraTime |-> [p \in Players |-> FALSE],
           score     |-> [p \in Players |-> 0],
           answers   |-> [x \in Questions |-> Nobody],
           votes     |-> [x \in Questions |-> Nobody],
           results   |-> FALSE]
  /\ spent = [restarts |-> 0, deploys |-> 0, failures |-> 0, adds |-> 0, aways |-> 0, taps |-> 0]

----------------------------------------------------------------------------
(* The write chain. *)

Only(p, value)  == [q \in {p} |-> value]
Over(new, rows) == [p \in DOMAIN rows |-> IF p \in DOMAIN new THEN new[p] ELSE rows[p]]

\* The transaction of a batch, on the rows as they are when it runs.
AnswerRow(d, b, p) ==
  LET stored == IF b.wipe THEN None ELSE d.answers[b.question][p]
      row == IF p \in DOMAIN b.answers
             THEN [payload |-> b.answers[p], points |-> 0, hidden |-> FALSE, shown |-> FALSE]
             ELSE stored
  IN  IF row = None THEN None
      ELSE [row EXCEPT !.shown  = @ \/ p \in b.shown,
                       !.hidden = IF p \in DOMAIN b.hidden THEN b.hidden[p] ELSE @,
                       !.points = IF p \in DOMAIN b.points THEN b.points[p] ELSE @]

VoteRow(d, b, p) ==
  IF p \in DOMAIN b.votes THEN b.votes[p]
  ELSE IF b.wipe THEN None ELSE d.votes[b.question][p]

HiddenWith(answers, gone) ==
  [p \in Players |-> IF p \in gone /\ answers[p] # None
                     THEN [answers[p] EXCEPT !.hidden = TRUE] ELSE answers[p]]

\* A second answer or vote of a player to a question breaks a unique index.
Conflicts(d, b) ==
  /\ b.question # None /\ ~b.wipe
  /\ \/ \E p \in DOMAIN b.answers : d.answers[b.question][p] # None
     \/ \E p \in DOMAIN b.votes : d.votes[b.question][p] # None

\* Slip: a checkpoint is written over whatever the row has become.
RowOverwritten(d, b) == IF b.row # None THEN b.row ELSE d.row

RowAfter(d, b) == IF b.row # None /\ d.row.status \in Open THEN b.row ELSE d.row

Applied(d, b) ==
  IF Conflicts(d, b) THEN d
  ELSE [row       |-> RowAfter(d, b),
        joined    |-> Over(b.joined, d.joined),
        removed   |-> Over(b.removed, d.removed),
        extraTime |-> Over(b.extraTime, d.extraTime),
        score     |-> Over(b.scores, d.score),
        answers   |-> [x \in Questions |->
                        HiddenWith(IF x = b.question THEN [p \in Players |-> AnswerRow(d, b, p)]
                                   ELSE d.answers[x], DOMAIN b.removed)],
        votes     |-> [x \in Questions |->
                        IF x = b.question THEN [p \in Players |-> VoteRow(d, b, p)]
                        ELSE d.votes[x]],
        results   |-> d.results \/ (RowAfter(d, b) # d.row /\ b.row.status = "finished")]

Batch(s) == [s.writes EXCEPT !.row = IF s.saves THEN Row(s.live) ELSE None]

\* Slip: an ended session stays loaded.
ExecuteAndKeep(s) ==
  /\ live' = s.live /\ timer' = s.timer
  /\ queue' = IF Batch(s) = NoWrites THEN queue ELSE Append(queue, Batch(s))
  /\ UNCHANGED <<late, db>>

\* execute(): the command has run on the state; its writes and its timer follow.
Execute(s) ==
  /\ live' = IF s.live.status \in Closed THEN None ELSE s.live
  /\ timer' = s.timer
  /\ queue' = IF Batch(s) = NoWrites THEN queue ELSE Append(queue, Batch(s))
  /\ UNCHANGED <<late, db>>

WriteBatch ==
  /\ queue # <<>>
  /\ db' = Applied(db, Head(queue)) /\ queue' = Tail(queue)
  /\ UNCHANGED <<live, timer, late, spent>>

WriteFails ==
  /\ queue # <<>> /\ spent.failures < MaxFailures
  /\ queue' = Tail(queue) /\ spent' = [spent EXCEPT !.failures = @ + 1]
  /\ UNCHANGED <<live, timer, late, db>>

LateWrite ==
  /\ late # <<>>
  /\ db' = Applied(db, Head(late)) /\ late' = Tail(late)
  /\ UNCHANGED <<live, timer, queue, spent>>

\* The five seconds of the shutdown drain are over.
LateWritesDropped ==
  /\ late # <<>> /\ late' = <<>>
  /\ UNCHANGED <<live, timer, queue, db, spent>>

----------------------------------------------------------------------------
(* Loading, and what a new process finds. *)

\* Slip: who is gone by now was not there then.
StillThere(d, entry, p) == d.removed[p] = None

SeenAtReveal(d, entry, p) == d.removed[p] = None \/ d.removed[p] >= entry.revealed

\* loadQuestionPlay: only a question that is being revealed has its play rebuilt.
StoredPlay(d) ==
  LET x        == <<d.row.round, d.row.question>>
      entry    == d.row.log[EntryOf(d.row.log, x)]
      eligible == {p \in Players : /\ d.joined[p] # None /\ d.joined[p] < entry.opened
                                   /\ d.removed[p] = None \/ d.removed[p] >= entry.opened}
      present  == {p \in eligible : SeenAtReveal(d, entry, p)}
      shown    == {p \in Players : d.answers[x][p] # None /\ d.answers[x][p].shown}
      options  == shown \cup (IF KindOf(x) = "lie" THEN {Truth} ELSE {})
      drawn(p) == Cardinality({v \in Players : d.votes[x][v] = p /\ SeenAtReveal(d, entry, v)})
      favoured == {p \in shown : /\ KindOf(x) = "caption" /\ ~d.answers[x][p].hidden
                                 /\ d.answers[x][p].points - drawn(p) = 1}
  IN  [at        |-> x,
       eligible  |-> eligible,
       extra     |-> {p \in eligible : d.extraTime[p]},
       answers   |-> [p \in Players |->
                       IF d.answers[x][p] = None THEN None
                       ELSE [payload |-> d.answers[x][p].payload,
                             points  |-> d.answers[x][p].points,
                             hidden  |-> d.answers[x][p].hidden]],
       votes     |-> d.votes[x],
       options   |-> IF options = {} THEN None ELSE options,
       favourite |-> IF favoured = {} THEN None ELSE CHOOSE p \in favoured : TRUE,
       scored    |-> TRUE,
       counted   |-> present]

Interrupted(row) == row.status \in {"running", "paused"} /\ row.phase \in QuestionPhases

\* What a pause had left of a question is not kept here: the replay starts it afresh.
LiveFrom(d) ==
  [status   |-> IF Interrupted(d.row) THEN "paused" ELSE d.row.status,
   recovery |-> Interrupted(d.row) \/ d.row.recovery,
   play     |-> IF d.row.phase \in {"reveal", "scores"} THEN StoredPlay(d) ELSE None,
   hasScored |-> \E i \in DOMAIN d.row.log : /\ d.row.log[i].revealed # None
                                             /\ ~d.row.log[i].skipped,
   phase |-> d.row.phase, round |-> d.row.round, question |-> d.row.question,
   phaseId |-> d.row.phaseId, log |-> d.row.log, hostSeen |-> d.row.hostSeen,
   deadline |-> None, extraDeadline |-> None, pausedLeft |-> None, pausedExtra |-> None,
   joined |-> d.joined, removed |-> d.removed, extraTime |-> d.extraTime, score |-> d.score]

\* getOrLoad, once the end of an earlier life of the session has been written.
Load ==
  /\ live = None /\ queue = <<>> /\ db.row.status \in Open
  /\ LET s == StepFrom(LiveFrom(db), None)
     IN  Execute(IF db.row.status = "running" /\ Interrupted(db.row) THEN Saved(s) ELSE s)
  /\ UNCHANGED spent

Recovered(row) ==
  IF row.status # "running" THEN row
  ELSE [row EXCEPT !.status = "paused", !.recovery = row.phase \in QuestionPhases]

\* The boot's recovery of running sessions may itself fail; loading makes up for it.
Booted == \/ db' = [db EXCEPT !.row = Recovered(@)]
          \/ db' = db

Restart ==
  /\ spent.restarts < MaxRestarts /\ spent' = [spent EXCEPT !.restarts = @ + 1]
  /\ Booted
  /\ live' = None /\ timer' = None /\ queue' = <<>> /\ late' = <<>>

Deploy ==
  /\ spent.deploys < MaxDeploys /\ spent' = [spent EXCEPT !.deploys = @ + 1]
  /\ late = <<>> /\ late' = queue
  /\ Booted
  /\ live' = None /\ timer' = None /\ queue' = <<>>

----------------------------------------------------------------------------
(* What the host does. *)

Ready == live # None /\ Len(queue) < MaxQueue

HostDoes(s) == Execute(Saved(s)) /\ UNCHANGED spent
Begun == Noted(StepFrom(live, timer))

Tap == Ready /\ spent.taps < MaxTaps /\ spent' = [spent EXCEPT !.taps = @ + 1]

\* A tap that names the phase before this one, or asks for what already is.
HostRepeats == Tap /\ Execute(Saved(Begun))

\* A refused tap still shows that the host is there; nothing of it is written.
HostRefused == Tap /\ Execute(Begun)

HostStart ==
  /\ Ready /\ live.status = "lobby" /\ Active(live) # {}
  /\ HostDoes(OpenRoundIntro([Begun EXCEPT !.live.status = "running"], 1))

HostNext ==
  /\ Ready /\ live.status = "running" /\ live.phase \in NextAllowed
  /\ HostDoes(NextEffects(Begun))

HostReveal ==
  /\ Ready /\ live.status = "running" /\ live.phase \in {"open", "vote"}
  /\ HostDoes(CloseTimedPhase(Begun, FALSE))

HostSkip ==
  /\ Ready /\ live.status = "running"
  /\ \/ /\ live.phase \in QuestionPhases /\ PlayNow(live)
        /\ HostDoes(AfterQuestion(Skipped(Begun)))
     \/ /\ live.phase = "reveal" /\ ~IsParty(Cursor(live))
        /\ HostDoes(AfterQuestion(Begun))

HostShowAnswers ==
  /\ Ready /\ live.status = "running" /\ live.phase = "review"
  /\ HostDoes(StartVote(Begun))

HostPause ==
  /\ Ready /\ live.status = "running" /\ live.phase \notin {"lobby", "ended"}
  /\ HostDoes(Paused(Begun))

HostResume ==
  /\ Ready /\ live.status = "paused"
  /\ HostDoes(IF live.recovery /\ live.phase \in QuestionPhases
              THEN Replayed(Begun) ELSE Resumed(Begun))

HostAddTime ==
  /\ Ready /\ live.status = "running" /\ live.phase \in TimedPhases /\ live.deadline # None
  /\ live.deadline < MaxTime /\ spent.adds < MaxAdds
  /\ Execute(Saved(TimeAdded(Begun, 1))) /\ spent' = [spent EXCEPT !.adds = @ + 1]

HostEnd ==
  /\ Ready
  /\ HostDoes(IF live.phase = "podium" THEN EndSession(Begun, "finished")
              ELSE IF live.status = "lobby" \/ ~live.hasScored
                   THEN EndSession(Begun, "abandoned")
              ELSE ShowPodium(Begun))

PromptInPlay(p) == PlayNow(live) /\ IsParty(live.play.at) /\ live.play.answers[p] # None

Hiding(s, p, hidden) == [s EXCEPT !.writes.question = s.live.play.at,
                                  !.writes.hidden = Only(p, hidden)]

HostHidesAnswer(p) ==
  /\ Ready /\ PromptInPlay(p) /\ ~live.play.answers[p].hidden
  /\ HostDoes(Hiding(HideAnswer(Begun, p), p, TRUE))

HostShowsAnswer(p) ==
  /\ Ready /\ PromptInPlay(p) /\ live.play.answers[p].hidden
  /\ live.phase = "review" /\ live.removed[p] = None
  /\ HostDoes(Hiding([Begun EXCEPT !.live.play.answers[p].hidden = FALSE], p, FALSE))

HostPicksFavourite(p) ==
  /\ Ready /\ live.status = "running" /\ live.phase = "reveal" /\ PlayNow(live)
  /\ KindOf(live.play.at) = "caption" /\ live.play.favourite = None
  /\ live.play.options # None /\ p \in live.play.options
  /\ live.play.answers[p] # None /\ ~live.play.answers[p].hidden
  /\ HostDoes(Favoured(Begun, p))

HostRemovesPlayer(p) ==
  /\ Ready /\ p \in Active(live)
  /\ Cardinality({q \in Players : live.removed[q] # None}) < MaxRemovals
  /\ LET s == [Begun EXCEPT !.live.removed[p] = live.phaseId,
                            !.writes.removed = Only(p, live.phaseId)]
         t == IF PromptInPlay(p) /\ ~live.play.answers[p].hidden THEN HideAnswer(s, p) ELSE s
     IN  HostDoes(CloseIfEveryoneDone(t))

----------------------------------------------------------------------------
(* What the players do. *)

JoinLobby(p) ==
  /\ Ready /\ live.joined[p] = None
  /\ Execute([StepFrom(live, timer) EXCEPT !.live.joined[p] = live.phaseId,
                                           !.writes.joined = Only(p, live.phaseId)])
  /\ UNCHANGED spent

SetExtraTime(p) ==
  /\ Ready /\ p \in Active(live) \cap ExtraTimers
  /\ Execute([StepFrom(live, timer) EXCEPT !.live.extraTime[p] = ~@,
                                           !.writes.extraTime = Only(p, ~live.extraTime[p])])
  /\ UNCHANGED spent

\* A submission that comes from the player's view of the phase that is on.
MaySubmit(p, phases) ==
  /\ Ready /\ live.status = "running" /\ live.phase \in phases
  /\ PlayNow(live) /\ p \in EligibleNow(live) /\ InTime(live, p)

Payloads(x) == IF IsParty(x) THEN {"text"} ELSE {"right", "wrong"}

SubmitAnswer(p) ==
  /\ MaySubmit(p, {"open", "write"}) /\ live.play.answers[p] = None
  /\ \E payload \in Payloads(live.play.at) :
       LET answer == [payload |-> payload, points |-> 0, hidden |-> FALSE]
       IN  Execute(CloseIfEveryoneDone([StepFrom(live, timer) EXCEPT
                     !.live.play.answers[p] = answer,
                     !.writes.question = live.play.at, !.writes.answers = Only(p, payload)]))
  /\ UNCHANGED spent

SubmitVote(p) ==
  /\ MaySubmit(p, {"vote"}) /\ live.play.votes[p] = None /\ live.play.options # None
  /\ \E option \in live.play.options \ {p} :
       /\ option \in Players => ~live.play.answers[option].hidden
       /\ Execute(CloseIfEveryoneDone([StepFrom(live, timer) EXCEPT
                    !.live.play.votes[p] = option,
                    !.writes.question = live.play.at, !.writes.votes = Only(p, option)]))
  /\ UNCHANGED spent

\* A submission sent again, or late, to the question in play: what is stored stays, yet
\* whoever was waited for may have gone, or run out of time, since the first one.
SubmitAgain(p) ==
  /\ Ready /\ live.removed[p] = None /\ PlayNow(live)
  /\ live.play.answers[p] # None \/ live.play.votes[p] # None
  /\ Execute(CloseIfEveryoneDone(StepFrom(live, timer)))
  /\ UNCHANGED spent

----------------------------------------------------------------------------
(* Time, the timer, and the ends nobody in the room asked for. *)

Shifted(time) == IF time = None THEN None ELSE time - 1

\* Time passes for a phase that is timed; a due timer runs soon.  Elsewhere it is not
\* counted, and a timer left over from a phase that was cut short may go off any moment.
Tick ==
  /\ live # None /\ live.status = "running" /\ live.deadline # None
  /\ timer # None => timer.left > -MaxLate
  /\ live' = [live EXCEPT !.deadline = @ - 1, !.extraDeadline = Shifted(@)]
  /\ timer' = IF timer = None THEN None ELSE [timer EXCEPT !.left = @ - 1]
  /\ UNCHANGED <<queue, late, db, spent>>

TimerElapsed ==
  /\ Ready /\ timer # None
  /\ timer.left <= 0 \/ live.deadline = None
  /\ LET s == StepFrom(live, None)
     IN  Execute(IF timer.id = live.phaseId /\ live.status = "running" THEN Elapsed(s) ELSE s)
  /\ UNCHANGED spent

\* Two hours without a host command; every phase timer has long run.
HostLeaves ==
  /\ timer = None /\ queue = <<>> /\ late = <<>> /\ db.row.status \in Open
  /\ db.row.hostSeen \/ (live # None /\ live.hostSeen)
  /\ spent.aways < MaxAways /\ spent' = [spent EXCEPT !.aways = @ + 1]
  /\ db' = [db EXCEPT !.row.hostSeen = FALSE]
  /\ live' = IF live = None THEN None ELSE [live EXCEPT !.hostSeen = FALSE]
  /\ UNCHANGED <<timer, queue, late>>

\* A session no process has loaded is ended in its row.
MarkAbandoned ==
  /\ live = None /\ queue = <<>> /\ db.row.status \in Open
  /\ db' = [db EXCEPT !.row.status = "abandoned", !.row.phase = "ended", !.row.round = None,
                      !.row.question = None, !.row.recovery = FALSE, !.row.phaseId = @ + 1]
  /\ UNCHANGED <<live, timer, queue, late, spent>>

Abandon == /\ Ready /\ Execute(EndSession(StepFrom(live, timer), "abandoned"))
           /\ UNCHANGED spent

\* Slip: the sweep looks at the sessions of its own memory.
AbandonIfLoaded == live # None /\ ~live.hostSeen /\ Abandon

\* The sweep, and joining by code: a session with no host command for two hours.
AbandonIfIdle == \/ live # None /\ ~live.hostSeen /\ Abandon
                 \/ ~db.row.hostSeen /\ MarkAbandoned

\* The event was cancelled or deleted, or the owner of the game is leaving.
AbandonNow == Abandon \/ MarkAbandoned

----------------------------------------------------------------------------
HostActs ==
  \/ HostRepeats \/ HostRefused \/ HostStart \/ HostNext \/ HostReveal \/ HostSkip
  \/ HostShowAnswers \/ HostPause \/ HostResume \/ HostAddTime \/ HostEnd
  \/ \E p \in Players : \/ HostHidesAnswer(p) \/ HostShowsAnswer(p)
                        \/ HostPicksFavourite(p) \/ HostRemovesPlayer(p)

PlayersAct ==
  \E p \in Players : \/ JoinLobby(p) \/ SetExtraTime(p)
                    \/ SubmitAnswer(p) \/ SubmitVote(p) \/ SubmitAgain(p)

TimePasses == Tick \/ TimerElapsed \/ HostLeaves

Next ==
  \/ HostActs \/ PlayersAct \/ TimePasses
  \/ AbandonIfIdle \/ AbandonNow
  \/ Load \/ WriteBatch \/ WriteFails \/ LateWrite \/ LateWritesDropped
  \/ Restart \/ Deploy

Spec == Init /\ [][Next]_vars

\* The chain is always written out: a batch lands or is dropped.
ChainRuns == WF_vars(WriteBatch \/ WriteFails)

\* Time passes and the event loop runs what is due; the sweep comes round.  Strongly fair
\* only because MaxQueue, which the code has not, keeps a command waiting now and then.
ClockRuns == WF_vars(Tick) /\ SF_vars(TimerElapsed)
SweepRuns == SF_vars(AbandonIfIdle)

ClockSpec == Spec /\ ChainRuns /\ ClockRuns
SweepSpec == Spec /\ ChainRuns /\ SweepRuns

----------------------------------------------------------------------------
(* Properties. *)

\* The live state, the timer and the rows keep their types.
QuizTypeOK ==
  /\ live # None =>
       /\ live.status \in Open /\ live.phase \in Phases
       /\ live.round \in Maybe(1..Len(Rounds)) /\ live.question \in Maybe(Nat)
       /\ live.phaseId \in Nat
       /\ {live.deadline, live.extraDeadline, live.pausedLeft, live.pausedExtra}
            \subseteq Maybe(Int)
       /\ live.joined \in Positions /\ live.removed \in Positions
       /\ live.log \in Seq(Entries) /\ live.score \in [Players -> Int]
       /\ PlayNow(live) => live.play \in Plays
  /\ timer # None => timer.id \in Nat /\ timer.left \in Int
  /\ db.row.status \in Open \cup Closed /\ db.row.phase \in Phases
  /\ db.row.log \in Seq(Entries) /\ db.score \in [Players -> Int]

\* What a player holds by the stored rows d of one question.
StoredPoints(d, x, p) ==
  LET log   == d.row.log
      entry == log[EntryOf(log, x)]
      asked == \E i \in DOMAIN log : log[i].at = x
  IN  (IF d.answers[x][p] = None THEN 0 ELSE d.answers[x][p].points)
      + (IF /\ d.votes[x][p] = Truth /\ asked
            /\ entry.revealed # None /\ SeenAtReveal(d, entry, p)
         THEN 1 ELSE 0)

\* No batch has failed, and none was left to be written by a process that a deploy
\* replaced; what a crash drops of the chain goes with the memory it told of.
NothingLost == spent.failures = 0 /\ spent.deploys = 0

\* A player's stored score is the sum of what the stored answers and votes earned them,
\* at every moment a crash could leave the rows in: no question is scored twice, by a
\* replay, a reload, a hidden answer or a withdrawn favourite, and none is lost.
ScoresAddUp ==
  NothingLost =>
    \A p \in Players :
      db.score[p] = MapThenSumSet(LAMBDA x : StoredPoints(db, x, p), Questions)

SameAnswer(x, inMemory, stored) ==
  \/ inMemory = None /\ stored = None
  \/ /\ inMemory # None /\ stored # None
     /\ inMemory.payload = stored.payload /\ inMemory.points = stored.points
     /\ IsParty(x) => inMemory.hidden = stored.hidden

\* What a refused tap and the load of a paused question set in memory alone.
Durable(row) == [row EXCEPT !.hostSeen = TRUE, !.recovery = FALSE]

\* Once the chain is written out, the rows are the memory: no command forgets a write.
StoredMatchesMemory ==
  live # None /\ queue = <<>> /\ NothingLost =>
    /\ Durable(Row(live)) = Durable(db.row)
    /\ live.joined = db.joined /\ live.removed = db.removed
    /\ live.extraTime = db.extraTime /\ live.score = db.score
    /\ PlayNow(live) =>
         \A p \in Players :
           /\ SameAnswer(live.play.at, live.play.answers[p], db.answers[live.play.at][p])
           /\ live.play.votes[p] = db.votes[live.play.at][p]

\* A reload in the reveal or on the scores rebuilds the very play that was in memory:
\* who could answer, who was counted, what could be voted for and the favourite.
ReloadLosesNothing ==
  /\ live # None /\ live.phase \in {"reveal", "scores"} /\ queue = <<>> /\ NothingLost
  => LET stored == StoredPlay(db)
         play   == live.play
     IN  /\ stored.at = play.at /\ stored.eligible = play.eligible
         /\ stored.counted = play.counted /\ stored.favourite = play.favourite
         /\ stored.options = IF play.options = {} THEN None ELSE play.options
         /\ live.hasScored = LiveFrom(db).hasScored

\* A row that has ended never opens again or changes how it ended, whatever is still in
\* the chain of this process or of the one before it.
EndedIsFinal ==
  [][db.row.status \in Closed => db'.row.status = db.row.status /\ db'.results = db.results]_vars

StillToCome(p) ==
  Awaited(live, p) /\ (OwnDeadline(live, p) = None \/ OwnDeadline(live, p) > -Grace)

SubmittedBy(p) ==
  live'.phaseId = live.phaseId \/ (IF live.phase = "vote" THEN live'.play.votes[p] # None
                                   ELSE live'.play.answers[p] # None)

\* Neither the timer nor a player's submission nor a removal ends a phase for another
\* player who has time left, extra time included, and has not submitted.
NobodyCutShort ==
  [][ /\ TimerElapsed \/ PlayersAct \/ \E q \in Players : HostRemovesPlayer(q)
      /\ live.phase \in SubmissionPhases /\ PlayNow(live) /\ live' # None
      => \A p \in Players : StillToCome(p) /\ live'.removed[p] = None => SubmittedBy(p)]_vars

\* The rows keep the promise of a quiz night.
Night == INSTANCE QuizNight WITH
  asked    <- [i \in DOMAIN db.row.log |-> db.row.log[i].at],
  revealed <- {i \in DOMAIN db.row.log : db.row.log[i].revealed # None},
  ending   <- IF db.row.status \in Closed THEN db.row.status ELSE "open"

ImplementsNight == Night!Spec

Timing(x) ==
  live # None /\ live.status = "running" /\ live.phase \in TimedPhases /\ Cursor(live) = x

\* A question that runs against the clock is closed, paused or left behind: one timed
\* phase after the other its time runs out and the timer goes off, late timers, extra
\* time and added time included.
QuestionCloses == \A x \in Questions : Timing(x) ~> ~Timing(x)

HostSeen == db.row.hostSeen \/ (live # None /\ live.hostSeen)

\* A session whose host has gone for good ends, wherever a crash or a failed write left it.
IdleSessionEnds == <>[](~HostSeen) => <>(db.row.status \in Closed)
=============================================================================
