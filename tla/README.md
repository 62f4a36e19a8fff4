# Verification of the QueerPulse backend

TLA+ modules, TLC runs and TLAPS proofs about the backend in `src/`: a NestJS
application over TypeORM and PostgreSQL (READ COMMITTED), with JWT cookie
sessions, a socket.io gateway and a set of cron sweepers in a single process.

The program is mostly handlers that read rows, decide, and write rows back. What
is hard to test is what happens when two of them interleave at an `await`, when
an answer arrives late, or when one of several writes is lost. The project
models the five parts where that matters most so far: **refresh-token sessions**
(with the browsers that use them), the **roster of a gathering**, a **live quiz
session**, the **standing of an account** and the **sockets of the chat gateway**
(with presence and the platform settings they are admitted under).

## 1. Inventory

| Component | State | Operations | What is hard | What makes it correct |
|---|---|---|---|---|
| Refresh-token sessions (`auth/auth.service.ts`, `account/account.service.ts`, `auth/auth-maintenance.service.ts`) | `refresh_tokens` rows: owner, family, expiry, `revoked_at`, `replaced_by` | sign in, rotate, grace replacement, reuse burn, logout, sign out one / others / all, purge, erasure | tabs rotating one cookie at once; sweeps against open transactions; stale `save()`; crashes between claim and insert; the edge of the grace window | one winner per rotation, one owner per family, revocation is permanent, a session that is over stays over, honest tabs are not taken for thieves |
| Auth HTTP surface and cookies (`auth/auth.controller.ts`, `auth/auth-cookies.ts`) | the browser's cookie jar | refresh, logout, sign-in | answers out of order | what the jar holds is safe to present |
| Access-token admission (`auth/strategies/jwt.strategy.ts`) | none of its own; reads sessions and users | admit, lazily lift a suspension | a cached admission that is stale | a revoked session is not admitted |
| Event roster and waitlist (`events/rsvp.service.ts`, `event-bans`, `event-check-in`) | `event_rsvps`, `event_bans` | RSVP, cancel, remove, promote, guest count, sweep, bar, lift, check in | the last seat; parties with guests; writers that skip the event lock | no overbooking, a fair queue, removed and barred members stay off, the host keeps the seat |
| Event editing and cancellation (`events/events.service.ts`) | the `events` row | update, cancel, reconcile | whole-entity `save()` of a stale read | cancelled is terminal, a raise of capacity reaches the waitlist |
| Email-code sign-in (`auth/email-code`) | challenges, attempts, rate windows | issue, verify, consume | parallel attempts on one code | at most N guesses, a code is used once |
| Sign-up, invites, join requests (`membership/`) | invites, join requests | claim, expire, revoke, approve | claim against expiry and a second claimant | one member per invite |
| Account lifecycle (`account/account.service.ts`, `account-deletion-processor.service.ts`) | users' status, `account_deactivation`, `deletion_request` | pause, ask for erasure, cancel it, come back by signing in, warn, claim and erase | a status kept in three tables; the processor against a change of mind | nobody who came back is erased; leaving and returning changes no sanction |
| Account enforcement, ban ratification and appeals (`moderation/account-enforcement`, `ban-ratification`) | users' status and its end, `ban_ratifications` | suspend, ask for a ban, join one, ratify, decline, lapse, lift, overturn | two moderators at once; a decision on a member who is leaving | a ban needs two people, a hold is settled once |
| Chat gateway (`chat/chat.gateway.ts`, `presence.service.ts`, `chat-session-enforcement`, `platform-settings`) | sockets with a timer each, checks in flight, presence and its grace windows, broadcasts, the copy of the settings | connect, re-authenticate, disconnect, drop on revocation, on expiry and on a lockdown, 60 s sweep, restart | a revocation, a disconnect or a lockdown between the check and the join; timers against renewals; broadcasts overtaking each other | an end reaches every socket, none outlives its token, who is online is true |
| Conversations and messages (`messaging/`) | conversations, requests, read cursors | send, accept, decline, read | crossing requests, late cursors | no message past a refusal |
| Live quiz engine (`quizshow/quizshow-engine-*.ts`, `quizshow-runtime`, `quizshow-persistence`) | the live state of a session in memory, its timer, the chain of writes behind it, its rows | host commands, join, answer, vote, hide, extra time, timers, load, restart, deploy, abandonment | what is shown at once is stored later, or never; a timer against a command; a play rebuilt from rows | totals that add up, a reload that loses nothing, nobody cut short, one end |
| Connections and vouches, storage garbage collection, governance motions | rows each | request/accept; delete unreferenced; vote/close | crossing requests; a reference saved during a sweep; a vote at the closing | see the plan |
| The rest (ban evasion, push, matching, studio, listings, communities, profiles, reports, cinema, settings, migrations) | CRUD rows | CRUD | little shared state | not planned, see section 8 |

How they interact: every HTTP request passes access-token admission, which looks
up the session; account lifecycle and moderation end sessions through
`revokeAllUserSessions`; each revocation emits `USER_SESSION_REVOKED`, which the
chat gateway listens to; the erasure of a member cascades to their sessions and
hands over their gatherings; an edit of a gathering's capacity calls the roster's
sweep, and a bar calls its removal.

## 2. Modules

| Module | What it is | Code |
|---|---|---|
| `SessionLedger` | abstract specification of a session: new, live, lingering, closed | what `auth.service.ts` promises |
| `Sessions` | the refresh-token table and every handler that writes it | `auth.service.ts`, `account.service.ts`, `auth-maintenance.service.ts`, the erasure's cascade |
| `Browsers` | `Sessions` driven by honest browsers with cookie jars and answers in flight | `auth.controller.ts`, `auth-cookies.ts` |
| `EventRsvp` | one gathering: its row, roster, waitlist and bans | `rsvp.service.ts`, `event-bans.service.ts`, `event-check-in.service.ts`, `events.service.ts` |
| `QuizEngine` | the engine as functions from a live state to a step: the next live state, the phase timer, the writes | `quizshow-engine-phases.ts`, `-state.ts`, `-players.ts` |
| `QuizShow` | one session: the live state, the timer, the chain of writes, the chain of a replaced process, the rows | `quizshow-runtime.service.ts`, `quizshow-persistence.service.ts`, the commands of the engine |
| `QuizNight` | abstract specification of what the rows of a session promise: questions in order, revealed once, one end | |
| `AccountStanding` | one member's rows, the holds on them and the calls in flight | `account.service.ts`, `account-deletion-processor.service.ts`, `account-enforcement.service.ts`, `ban-ratification.service.ts`, `jwt.strategy.ts` |
| `ChatGateway` | sockets, credential checks in flight, presence, and what ends a socket | `chat.gateway.ts`, `presence.service.ts`, `chat-session-enforcement.service.ts`, `platform-settings.service.ts` |
| `SessionsProofs` (also of `Browsers`), `EventRsvpProofs`, `QuizShowProofs`, `AccountStandingProofs`, `ChatGatewayProofs` | theorems and proofs | |
| `QuizStepsProofs`, `QuizRowsProofs` | what every transition of the quiz engine does to rows and memory; the order of the quiz, the chain of batches and the theorems on it | |
| `SumLemmas` | lemmas on totals over finite sets, for the proofs that count seats | |
| `MCSessions`, `MCBrowsers`, `MCEventRsvp`, `MCQuizShow`, `MCAccountStanding`, `MCChatGateway` | symmetry sets and constants for TLC | |

`Browsers` extends `Sessions` and reuses its actions, restricting which token a
request may present. `Sessions` instantiates `SessionLedger` with the phase of
every family as refinement mapping (`FamilyPhase`), and `QuizShow` instantiates
`QuizNight` with what can be read off its rows. `ChatGateway` sees a session only as
the ledger does: it takes the phases, and the way to a new life, from
`SessionLedger` instead of repeating the table.

### How the code becomes steps

A *request* is a handler instance: a record `req[q]` whose `pc` says where it is
and whose other fields are the locals it still needs. Every database await is a
step, so requests interleave where the handlers yield and nowhere else. A
definition keeps the name of the method it models; where a method is cut into
steps, each carries a suffix for its part (`RotateClaim`, `RotateCommit`).

What is assumed of the database, and where the code relies on it:

* *A conditional UPDATE* (`... WHERE revoked_at IS NULL`) waits for the row's lock
  and then re-checks its condition on the version it finds.
* *An open transaction* is invisible until it commits. A rotation is therefore a
  claim step (it holds the row's lock) and a commit step (revocation and
  successor appear together).
* *A multi-row UPDATE* under READ COMMITTED picks its rows when it starts and
  re-checks them when it gets their locks; a row inserted meanwhile is missed. It
  is a start step (`snap`) and a write step.
* *TypeORM's `save()`* compares the entity in hand with the stored row and writes
  the columns that differ: the stale copy wins. In `revokeOtherSessions` the
  comparison and the write are two steps (`OthersDiff`, `OthersSave`).
* *A transaction under the event lock* (`SELECT ... FOR UPDATE` on the event) is a
  step that takes the lock and reads the member's row, and a step that counts,
  decides, writes and commits. Between them only the writers that take no lock
  can move.

`Fail` ends a request of `Sessions` between any two steps: an open transaction
rolls back and a statement that has not written writes nothing. That covers a
crash of the process, a lost connection and a deadlock broken by PostgreSQL. In
`Browsers` the same step (`TabFail`) also decides what the tab hears: a failed refresh
clears its cookies, a dead process answers nothing. An answer that is lost after the
commit is not modelled: it would leave the jar with a rotated token (see below).

*The quiz* runs in the memory of one process: a command there is one step, and so
is the load of a session, since commands wait for it in one queue. What takes
time is the chain of writes. A step appends one batch, captured as it is queued;
`WriteBatch` commits the oldest, `WriteFails` drops it as the code does when it
logs an error and goes on. `Restart` loses memory, timer and chain. `Deploy`
does too, except that the old process may still write out its chain (`late`)
beside the new one. Time is relative: a deadline is what is left of it, and
`Tick` takes one from each. A phase is numbered by `phaseId` as in the code, and
the number also stands for the moment of what is stamped with the clock there
(an opening, a reveal, a removal): only their order is ever compared. A submission
that is already stored changes nothing but asks again whether everybody is done
(`SubmitAgain`).

*The standing of an account* lives in rows that every handler reads without a
lock and writes later in one transaction. A call is two steps: `Start...` keeps
what it read in `call[c].seen`, and the step named after the method commits, its
WHERE clauses evaluated on the rows of that moment. `LookAgain` is the one
handler that reads the member twice (`restoreUser`). `Fail` ends a call between
them. Nothing bounds the time a call takes. The history variable `verdict` is the
decision that stands, and it is given up for good in two cases the properties
name: a commit wrote from rows that changed after it read them (`overtaken`), or
a decision fell in a grace period, which `deletion_request.previous_status` is
not told of (`unsynced`).

*The chat gateway* is one process. A credential check (`check[a]`, of a handshake or
a re-authentication) has a step at each await: the settings are read, from memory
or from the row, then the session, and then the answer is acted on; whatever
happened in between has happened. The end of a session is likewise two steps, the
rows (`End`) and the event that the gateway hears (`HandleSessionRevoked`), and so
is a change of the settings (`SaveLockdown`, `SettingsSaved`), a status sweep
(`Revalidate`, `RevalidateDrops`) and a presence broadcast (`Announce`,
`Broadcast`). What socket.io does in the same turn as `disconnect(true)`, calling
`handleDisconnect`, is part of the step that drops the socket (`Disconnect`). Time
is relative: `Tick` takes one from every token, timer and window, once the timers
that are due have run. `Restart` leaves the rows and nothing else. Three history
variables name what the code does not promise: `crowded`, that a broadcast began
while another about the member was in flight; `missed`, which marks a check, then
the socket it admits, whose answer an event or a lockdown had overtaken; and
`replaced`, the sessions that a new sign-in in the same browser ended, for which the
code emits no event on purpose. One update of the settings and one sweep run at a time.

Data is reduced to what the properties tell apart. A refresh token is the id of
its row, a family the id of its first row, a date an integer. Retention and
`JWT_REFRESH_TTL` are one constant, as they are one value in the code. The
removal stamp of an RSVP is a boolean. The gathering's clock is a phase: before
the RSVP cutoff, after it, ended.

Definitions marked `Slip:` in the modules are deliberate mistakes kept next to
the definition they would replace. Substituting one makes the property it is
paired with in `PROJECT.json` fail, so every property is known to be able to.

## 3. Runs

Every run finishes in about three minutes at most. All of them set
`CHECK_DEADLOCK FALSE`: the row, position and time bounds make a run end, and the
real system may simply receive no request.

### Sessions

| Run | Properties | Shows |
|---|---|---|
| `races` | `TypeOK`, `RotationLineage`, `OneFamilyOneOwner`, `RevocationIsPermanent`, `ClosedStaysClosed`, `ImplementsLedger` | all client-driven routes of two members and their erasure, two requests at a time, with failures between steps: the table keeps its lineage, a session that is over stays over, and the table implements the ledger |
| `live` | `RequestsFinish`, `ReuseBurnsLiveRows`, `PurgeForgetsOnlyExpiredTokens` | under fairness no request waits for ever on a lock, and a detected reuse revokes every row that was live then; the purge against rotations and sign-outs, the clock running past retention |

Bounds: three rows are a sign-in, its rotation and a grace replacement, or two
sessions one of which rotates; two requests are every pairwise interleaving;
time runs from before the grace window to one instant after it (`races`), and
past the retention of a revoked row that has not expired yet (`live`: lifetime 2,
clock to 3). Requests may begin only while the table has room for the row they
would insert (`HasRoom`), so the bound never makes an insert fail. The proofs
below lift these bounds for every property of `races` and for the purge's.

### Browsers

| Run | Properties | Shows |
|---|---|---|
| `tabs` | `TabsNeverLookLikeTheft` | two requests at a time from the tabs of two browsers, refreshes mixed with logouts, sign-ins over a session and "log out other devices", any of which may die before its commit, answers in any order: what a jar holds is safe to present unless it was signed out (`JarIsSafeToPresent`), and a burn always traces back to a sign-out (`RotationAloneNeverBurns`) |

`PromptTick` states the one timing assumption: the round trip of a refresh, and
the save of "log out other devices", take less than the grace window (ten seconds
in the code), and that an answer arrives in the end. Without it a browser that lost the answer of its own rotation is
signed out everywhere ten seconds later, which is the design.

### Gatherings

| Run | Properties | Shows |
|---|---|---|
| `roster` | `RosterTypeOK`, `WaitlistIsAQueue`, `WaitlistKeepsOrder`, `NoOverbooking` | three members with guests compete for two seats beside the host's, two requests at a time, check-ins that save stale rows among them: nobody loses their place (`PlacesAreKept`), and a sweep seats from the front (`SweepIsInOrder`) |
| `desk` | `HostHoldsSeat`, `NoOverbooking`, `BarredStaysOff` | edits, bars, lifts, check-ins, the cancellation and the clock interleave with RSVPs: nothing that had passed its checks when a bar was saved leaves a barred member on the roster |

Bounds: capacity 3 with parties of one or two makes the head of the queue too
large for the free seat while the next one fits; three members are the least
that can disagree about order; four positions leave gaps behind leavers and
out-of-turn promotions (`RsvpLock` refuses to begin past the last position).
`desk` lets capacity move between 1, 2 and unlimited, both ways, under two
requests.

`NoOverbooking` names its exceptions, which are what the code accepts: a check-in
or an unlocked guest-count write, and a locked transaction whose own row such a
write changed meanwhile. `PlacesAreKept` names one (`GetsPlaceBack`): a raise of the
guest count that had read a waiting row, and overwrites the check-in that seated it
meanwhile, puts the member back at the place it had read. Capacity lowered below what is taken is not overbooking:
the property speaks of steps that let more people in. `BarredStaysOff` reads the two
transactions of a bar as the one act the code calls them: a barred member is on the
roster only while their removal is still to come (`RemovalToCome`), and its one
exception is a check-in that had read the seat before.

### Quiz night

| Run | Properties | Shows |
|---|---|---|
| `night` | `QuizTypeOK`, `ScoresAddUp`, `StoredMatchesMemory`, `ReloadLosesNothing`, `ImplementsNight` | a quiz round and a caption round for two players, the host in every order, one crash anywhere: the totals are the sum of what was stored, the rows catch up with the memory, a reload rebuilds what was lost, and the rows keep the promise of `QuizNight` |
| `deploy` | `EndedIsFinal`, `IdleSessionEnds` | an old process writing out its chain beside the new one, a dropped batch and a host who goes away: an ended session stays ended, and the idle sweep ends the session in the row or in memory |
| `clock` | `NobodyCutShort`, `QuestionCloses` | timers and late timers, added time, pauses, extra time and a removed player: a running phase closes in the end, and never early for somebody who may still answer |

Bounds: two players are the fewest with a majority and a disagreement; one
question of each kind covers answers and votes, the end of a round and the end
of the quiz; one crash is enough, since a restart leaves no trace but the rows.
Player symmetry is used where the run states no liveness. A chain of one batch
(`MaxQueue`) is enough for a batch to be lost with the next one already shown.
`clock` gives one of the two players extra time and stretches one deadline once.
Everything these runs check but the liveness is proved without the bounds.

### Account standing

| Run | Properties | Shows |
|---|---|---|
| `standing` | `StandingTypeOK`, `SanctionSurvivesLeaving`, `BansAreRatified`, `HiddenWhileLeaving`, `OneOpenOfEach`, `HoldsAreSettledOnce`, `OnlyAStandingRequestErases` | any two calls of the member, two moderators and the sweeps, interleaved between reads and commits, with failures |
| `declined` | `NoBanWithoutASecondModerator` (violated) | the finding of section 6, with one call at a time |

Bounds: two calls are every pairwise race and two moderators a proposer and a
decider; two requests and two holds let one be reopened after the first is
settled; every period is one instant, so that each can be met before, at and past
its end. Histories stop at the first overtaken commit (`PastOvertaking`), of
which no property speaks. All seven properties are proved without these bounds.

### Chat gateway

| Run | Properties | Shows |
|---|---|---|
| `sockets` | `GatewayTypeOK`, `PresenceIsTrue`, `OneTimerForItsToken`, `EndsReachEverySocket` | two devices on two connections, signed out one by one, together or by a new sign-in, renewed and dropped, lockdowns set and lifted, a check in flight: who is online is who has a socket or is in the window, a renewal leaves one timer, and an end misses only sockets admitted on an answer it had overtaken |
| `life` | `PresenceIsReported`, `SocketsEndWithTheirSession`, `InactiveGoDark` | with due timers running, a socket whose session is over is dropped in the end, the missed ones included; with the status sweep coming round, a member who stays inactive is dropped again and again, though a token from before lets them reconnect; and broadcasts that do not overlap report who is online |

Bounds: two sockets are the least that can share a session, a room and a presence
entry; two sessions with one check, since an event speaks of sessions and a check
is overtaken alone; tokens of one unit can run out under way, and of two (`life`)
be old or new when they are presented. Connections and sessions are
interchangeable where no liveness is stated. A socket id is used again once nothing
refers to it, so connections never run out. `MaxNews` bounds the broadcasts in
flight when a handshake begins; the ones it sets off may overlap. All the
invariants are proved without the bounds.

## 4. Fairness

The `FairSpec` of `Sessions` makes the next step of each request weakly fair: the
event loop resumes every handler, PostgreSQL finishes every statement, and a lock
wait ends when the holder commits. Nothing makes clients send requests or time
pass. The safety runs assume no fairness.

In `QuizShow`, `ChainRuns` makes the chain move: a batch commits or fails, since
each is awaited and its error caught. `ClockRuns` lets time pass and makes the
event loop run a timer that is due; `SweepRuns` makes the idle sweep come round.
The last two are strong fairness for one reason: the model accepts a command only
while its bounded chain has room, so a timer or a sweep that is due is disabled
now and then, where the code's chain has no bound and never makes it wait. The
host and the players are under no fairness: they may leave at any time.

In `ChatGateway`, `TimersRun` lets time pass and makes the event loop run a timer
that is due; it is the hypothesis of `SocketsEndWithTheirSession` and of nothing
else. No session is made to end, and no event is made to arrive. `SweepRuns` makes
the sweep's interval come round and its query be answered. `InactiveGoDark` has
that alone: time may stand still there, so that a token from before need not run
out.

## 5. What is proved

All proofs hold for any members, requests, bounds and times that satisfy the
named assumptions: at least one row (`BoundsAssumption`), a grace window shorter
than the refresh lifetime (`TimesAssumption`), `Null` outside the data
(`NullAssumption`); every browser with a member (`OwnerAssumption`); finitely many
members, the host one of them and no co-host (`PeopleAssumption`), natural capacities
and guest counts (`SeatsAssumption`); a quiz of at least one round, each of at least
one question (`QuizAssumption`), natural times, extra time no shorter than the
ordinary (`TimeAssumption`), finitely many players, none of them the true answer
(`PlayersAssumption`), `None` outside the data (`NoneAssumption`, `RowsAssumption`); natural periods, numbered rows and `Null`
outside the data (`AccountAssumption`); lifetimes of at least one unit and every
session with an owner (`GatewayAssumption`).

| Theorem | Statement |
|---|---|
| `SessionsProofs!TypeCorrect` | `Spec => []TypeOK` |
| `SessionsProofs!RevocationPermanence` | `Spec => RevocationIsPermanent` |
| `SessionsProofs!RotationLineageHolds` | `Spec => []RotationLineage` |
| `SessionsProofs!OneFamilyOneOwnerHolds` | `Spec => []OneFamilyOneOwner` |
| `SessionsProofs!PurgeIsSafe` | `Spec => PurgeForgetsOnlyExpiredTokens` |
| `SessionsProofs!ClosedStaysClosedHolds` | `Spec => ClosedStaysClosed` |
| `SessionsProofs!Refinement` | `Spec => ImplementsLedger` |
| `SessionsProofs!TabsNeverLookLikeTheftHolds` | `BrowsersSpec => []TabsNeverLookLikeTheft` |
| `EventRsvpProofs!RosterTypeCorrect` | `Spec => []RosterTypeOK` |
| `EventRsvpProofs!WaitlistStaysAQueue` | `Spec => []WaitlistIsAQueue` |
| `EventRsvpProofs!WaitlistKeepsOrderAlways` | `Spec => WaitlistKeepsOrder` |
| `EventRsvpProofs!NeverOverbooked` | `Spec => NoOverbooking` |
| `EventRsvpProofs!BarredStaysOffAlways` | `Spec => BarredStaysOff` |
| `EventRsvpProofs!HostHoldsSeatAlways` | `Spec => []HostHoldsSeat` |
| `QuizShowProofs!QuizTypeCorrect` | `Spec => []QuizTypeOK` |
| `QuizShowProofs!EndedIsFinalHolds` | `Spec => EndedIsFinal` |
| `QuizShowProofs!NobodyCutShortHolds` | `Spec => NobodyCutShort` |
| `QuizRowsProofs!ScoresAddUpHolds` | `Spec => []ScoresAddUp` |
| `QuizRowsProofs!StoredMatchesMemoryHolds` | `Spec => []StoredMatchesMemory` |
| `QuizRowsProofs!ReloadLosesNothingHolds` | `Spec => []ReloadLosesNothing` |
| `QuizRowsProofs!NightRefinement` | `Spec /\ []NothingLost => ImplementsNight` |
| `AccountStandingProofs!StandingTypeCorrect` | `Spec => []StandingTypeOK` |
| `AccountStandingProofs!OneOpenOfEachHolds` | `Spec => []OneOpenOfEach` |
| `AccountStandingProofs!HoldsAreSettledOnceHolds` | `Spec => HoldsAreSettledOnce` |
| `AccountStandingProofs!OnlyAStandingRequestErasesHolds` | `Spec => OnlyAStandingRequestErases` |
| `AccountStandingProofs!HiddenWhileLeavingHolds` | `Spec => []HiddenWhileLeaving` |
| `AccountStandingProofs!SanctionSurvivesLeavingHolds` | `Spec => []SanctionSurvivesLeaving` |
| `AccountStandingProofs!BansAreRatifiedHolds` | `Spec => []BansAreRatified` |
| `ChatGatewayProofs!GatewayIsTyped` | `Spec => []GatewayTypeOK` |
| `ChatGatewayProofs!PresenceStaysTrue` | `Spec => []PresenceIsTrue` |
| `ChatGatewayProofs!PresenceGetsReported` | `Spec => []PresenceIsReported` |
| `ChatGatewayProofs!TimersFollowTokens` | `Spec => []OneTimerForItsToken` |
| `ChatGatewayProofs!EndsReach` | `Spec => []EndsReachEverySocket` |

*The argument for sessions.* `TypeOK` is not inductive: a rotation's record holds
a row, an owner and a family it read steps ago, and the commit uses them. `Core`
adds what stays true of such a record until it is used: ids are handed out in
order (`TableBound`); a record agrees with the row it was read from, a claimed row
is live, and a statement picked only ids that exist (`ReqOK`); and no two requests
hold one claim (`ClaimsExclusive`). Two lemmas carry every action: `MoveCore` for
steps that only move a request, `WriteCore` for those that write the table.
`Lineage` then strengthens `RotationLineage` with every successor id lying below
`nextId`, and `Owners` strengthens `OneFamilyOneOwner` to the owner and family
that requests hold as well as the rows, since a grace replacement is minted from
the request alone.

*The purge and the ledger.* `Times` says a row expires at most one lifetime after
now, and after the moment any pending write will stamp it with; so a row past
retention is past its JWT too. That a closed family stays closed follows from
`Lingering`, which lists what may still revive one: a rotated row inside the
window, a granted grace replacement whose member still has an account, a pending `save()` about to re-stamp a rotated
row. The refinement is the case split of that theorem over the four phases, and
that one step never opens two families because it inserts at most one row.

*The browsers.* Every step of a browser is a step of the table or leaves it alone, so
`Core` and `Lineage` hold here too. `TabsInv` adds the life of a token. It is minted
into an answer that nobody has read (`AnswersAreFresh`), reaches one jar
(`OneJarEach`), is presented by requests of that jar's browser alone
(`SentFromTheJar`), and once it is rotated the answer with its successor is on its way
to that jar (`SuccessorOnItsWay`). While it is, and while a tab that sent the old token
has yet to hear, time is held back to the grace window (`PromptRows`,
`PromptRequests`), so whoever presents the old one is late and not a thief
(`LosersAreLate`). A request that dies changes no row, and its answer carries no token
(`FailKeepsTabs`).

*The roster.* One invariant, `RosterInv`, carries the six theorems. A handler writes
back a whole row that it read a step ago; under the event lock only two writers can
have moved that row meanwhile, one that leaves status and position alone (a guest
count, the lift of a removal) and a check-in, which seats. So a copy agrees with the
stored row, or that row is seated (`Agrees`); and the place a copy may restore belongs
to nobody, since places are given out only under the lock and the next one is behind
everybody (`NextPosition`). The host's part is that no request about the host is one
that gives a seat up, and that every copy of the host's row is a going row. The action
properties follow step by step (`StepKeepsOrder`, `StepNeverOverbooks`): a sweep seats
from the head as long as the seats last. `BarredStaysOff` needs one more (`BarInv`):
an RSVP of a barred member that is past its check holds the lock, and the bar that
overtook it still has its removal to do, which waits for that lock. Seats are totals over finite sets; the
library defines none that can be reasoned about here, so `SumLemmas` shows how a total
grows by one member, taking the smallest counterexample where one would use induction.

*Quiz night.* `Core` types the memory, the timer, both chains and the rows, and adds
what the engine needs to go on: the cursor stands where the phase can use it
(`Placed`), a question under way has its play (`PlayKept`), and a timed phase has a
clock that runs, or can be resumed (`OnTheClock`). One lemma for each operator of the
engine says what it keeps, one for each command puts them together. `EndedIsFinal`
follows, since every writer of the row asks whether it is open: `RowAfter` keeps a row
that has ended whatever a batch of either process says. `NobodyCutShort` is a case
split over how a phase can close: by its timer, only when nobody is waited for any
more; by the last submission or a removal, only when everybody else was done
(`SettledFor`, `StillAwaited`); and what was given stays given (`Keeps`).

*The rows of a quiz night.* A command shows its outcome at once and its batch lands
later, so what the rows and the memory promise each other cannot be read off the two
as they are. The invariant plays the chain out (`Chained`): there are contents of the
store, one for each batch of the chain, that begin with the rows as they are, each the
last one with the next batch applied, all `Fine`, and the memory agrees with the last
(`Twin`). `Fine` says of rows alone what a crash may leave: the log names each question
once and ends where the cursor stands, nothing is stored for a question before it is
asked and nothing paid before it is revealed, the scores are the totals of what is held
(`AddsUp`), and a question being revealed can be rebuilt from its answers, votes and
log entry (`Rebuilds`). `Twin` says it of the play in memory: who could answer, who was
counted, every answer and vote, the options that were shown, and that a captioned
answer earned its votes and one more if it is the favourite, which is how a load finds
the favourite again.

Commands are built from functions of the engine, so between them there is a step that
has changed the memory and gathered writes, of which no row has been written: `Sound`
says that its writes, were they committed now, would leave rows that are in order and
agree with its memory. One lemma for each function says that it keeps `Sound`
(from `OpenAnswersSound` to `ReplayedSound`, all in `QuizStepsProofs`), one for each
action that it `Continues`, and
`BatchLands` turns the last step into one more batch of the chain. A batch that saves no
cursor (a join, an answer) is sound because the row it leaves alone already says the
same. `ScoresAddUp` is then the first rows of the chain, the other two the case of an
empty chain. The totals are those of `SumLemmas`; a replay, a hidden answer or a
favourite changes the weight of one question, and a total moves by the difference.

*The night the rows tell.* `QuizNight` sees the log and the status of the row and
nothing else, and that the row moves by one turn of the quiz at a time is again a
matter of the chain: all rows in it follow the ones before (`Follows`), so a batch that
is written is a step of `QuizNight` or none. The invariant gets one more part, `InOrder`: the
entries of the log are in the order of the quiz, and every question that the phase and
the cursor have come to is in it (`Reached`). That is what asking the next question
relies on: on the leaderboard the whole round has been asked, so the first question of
the next round passes over none. Per function of the engine, `Turns` says that the log rests, has the next question appended, or has its
last question revealed. A command makes one such turn at most: a phase that closes
writes down the reveal or the next question and never both, and a command that ends the
session asks and reveals nothing. The other steps that write the row (`MarkAbandoned`,
`Restart`, `HostLeaves`) leave the log alone (`NightStep`).

These four suppose `NothingLost`; the first three say so themselves, the refinement in
its statement. A failed batch that asked a question leaves the rows one turn short,
and the next one brings two turns at once; a batch of a replaced process may put an older log
over a newer one. TLC finds either in a dozen steps once `night` is allowed a failure
or a deploy. With a failed batch all four are false by intention of the code, which
logs and goes on. After a deploy `StoredMatchesMemory` is false as well, even when the old process has written its last batch: that batch may have put the
cursor of the old process over the row the new one has loaded. Looking for the invariant
brought that up, and the property used to ask only that the old chain be empty.

*Account standing.* `Core` is the inductive invariant under everything else: the
types, `OneOpenOfEach`, no hold left after an erasure, and for each call what
remains true of the row it is about between its reads and its commit (`CallOK`: a
moderator deciding a hold is not the one who asked for it; a request being swept
was due, and once claimed is still being processed). `Frame` says how other calls
may change rows under it, and one lemma per kind of step (`BeginCore`,
`FinishCore`, `StandingCore`, `MoveCore`, `SettlingCore`) carries the actions. The
two action properties follow from `Core`. `HiddenWhileLeaving` is inductive beside
it, and `SanctionSurvivesLeaving` beside both: a commit that was not overtaken
wrote from the rows as they are, so the status it put back is the one recorded
when the member left. `BansAreRatified` needs a fact about histories, that a member
under an endless sanction has a hold that was ratified and stays so
(`EndlessIsRatified`, `RatifiedStays`).

*The chat gateway.* `SocketSteps` sorts the steps by what they do to sockets and
presence: most drop a set of sockets (`Disconnect`) or touch none. `PresenceIsTrue`
is then inductive with one more fact, `ReauthsAreOfTheMember`: a re-authentication
in flight belongs to the member whose socket it is for, even when that socket has
gone meanwhile, so its answer cannot move a socket from one member's presence to
another's. `PresenceIsReported` follows from `ReportInv`, that a broadcast which does
not overlap another says what is so while it is under way; `NewsSteps` sorts what a
step does to a member's listing and to the broadcasts about them. `OneTimerForItsToken` is inductive with the types. `EndsReachEverySocket`
is not: a check carries what it found out over several steps. `ChecksAreCovered`
says of every check in flight that its session is live, or its end is still to be
heard of, or the check is marked as overtaken; and that the lockdown lets it
through, or its socket is gone for good (`ClosedStays`). `SavingIsOfTheRow` ties the
update of the settings under way to the row.

Only model-checked: liveness (fairness is out of the prover's reach).
`SocketsEndWithTheirSession` and `InactiveGoDark`, which bound what `EndsReachEverySocket` leaves out, are liveness.

## 6. Findings

`declined`: a comment of `account-enforcement.service.ts` says a permanent ban
lands only once a second, different moderator confirms it. A member is
suspended, asks for erasure (which records "suspended"), a ban is asked for and
declined, which releases the member but does not tell the deletion request, and
cancelling the request then puts the suspension back without an end. Quotation
and lines are in `PROJECT.json`.

Disagreements met while modelling that have no run of their own, each listed as a
hazard and, unless it says otherwise, excluded by name from the property it would break:

* The grace replacement of a refresh does not ask whether its family still has a
  live row, so a device signed out inside the window can come back
  (`ClosedStaysClosed` is what does hold).
* A burn's UPDATE misses the successor that a rotation commits while the UPDATE
  waits for its row (`ReuseBurnsLiveRows`).
* "Log out other devices" leaves the other device with a token that reads as
  stolen; its next silent refresh burns the caller's session too.
* `PlatformSettingsService.update` busts its copy only after the commit, so that no
  concurrent read may bring the old state back. A read whose query began before
  the commit and is answered after the bust does just that, and for the life of
  that copy handshakes are admitted under a lockdown that has already dropped every
  socket (`EndsReachEverySocket` names them: `missed`).
* The presence service re-reads its state so that a member who is back online is
  never reported offline. The state is read when the transition is decided, and the
  broadcast then awaits queries of its own: the offline of the old socket may be
  told after the online of the new one, and nothing corrects it until the next
  transition (`PresenceIsReported` speaks of broadcasts that do not overlap).
* An edit read before a cancellation and saved after it publishes the gathering
  again; a check-in read before a removal puts the removed member back; two edits
  of a guest count outside the lock can add a seat (`NoOverbooking`).
* A check-in saves its whole row without the event lock. A raise of the guest count
  that read the row as waiting and commits afterwards puts the member back in the
  queue, at a place that later arrivals may already be behind (`GetsPlaceBack`); the
  proof that the queue keeps its order is what brought it up.
* The lift of an expired suspension clears one imposed since it read the old one;
  a sanction in a grace period is laundered by cancelling the deletion; a second
  sanction replaces the date of a ratified ban (`overtaken`, `unsynced`).
* A ban that joins a pending hold writes the date of the hold it had read, whatever
  became of the hold meanwhile (`JoinBanHold`): a member whose ban was declined is
  suspended again to that date, and a ratified ban without end becomes a dated one. No
  property speaks of it.

## 7. Plan

1. **Sessions, ledger, browsers** and their proofs: done. Left: the access-token
   claims (a revoked session's access token lives until admission looks).
2. **Gatherings**: done for one event, with their proofs. Left: invites and the cap they put on
   guests, undoing a check-in, a bar that fails between its two transactions, the
   hand-over to a co-host when the host is erased, the question whether a waiting
   member who fits is eventually seated.
3. **Quiz night**: done for solo play. Left: teams, jokers and streaks, the
   screen names.
4. **Account standing**: done, with its proofs. Left: the retry of a failed
   erasure, the restricted flag, carve-outs for staff.
5. **Chat gateway**: done, with its proofs. Left: the rooms of conversations (a
   member removed while a join is under way), a ticket's single use, the drain of
   sends at shutdown.
6. **Sign-up and invites**: the conditional claim against expiry, revocation and a
   second claimant. Theorem: one invite, one member.
7. **Email codes**: attempts, consumption and rate windows, with their integers.
8. As space allows: message requests, storage garbage collection, governance
   motions.

## 8. What is not modelled, and why

* In `Sessions`: OAuth and e-mail codes before a sign-in (they only decide who
  signs in), access tokens, device labels and IP columns, the events emitted on a
  revocation. A row purged between the find and the save of
  `revokeOtherSessions` is skipped, where the code would write it back revoked
  and expired.
* In `EventRsvp`: blocks and audience rules (further guards on who may RSVP),
  invites, series, `checked_in_at`, undoing a check-in, notifications. The phase
  only moves forward: an edit that moves the start later is not modelled, and
  neither is a request that fails between its steps.
* In `QuizShow`: teams, jokers and streaks (they change how many points a right
  answer is, not when it scores; every right answer is one point), names and
  avatars, renaming, muting, organisers, and the frames sent to sockets. What is
  left of a paused timer is not kept over a restart, because a question is
  replayed from its start.
* In `AccountStanding`: what an erasure does to the member's content, the
  sessions a sanction ends (in `Sessions`), the restricted flag, warnings,
  carve-outs for staff and house accounts, reports, step-up codes. A settled row
  keeps only its status.
* In `ChatGateway`: messages, typing and the rooms of conversations, rate limits,
  the single use of a ticket, tokens from before the `sid` claim, the privacy
  switches of presence, a broadcast or a sweep whose query fails, the drain of
  sends at shutdown, and several replicas. A session's end by its refresh lifetime
  is the end of its credentials there.
* Listings, communities, profiles, admin consoles, studio and similar: CRUD whose
  correctness is row constraints and queries. Ban evasion and matching are
  heuristics without a protocol. Push, e-mail and the video service are external
  deliveries. Settings, metrics, health, bootstrap and migrations are process
  plumbing. Each is listed with its reason in `PROJECT.json`.
* Most of the repository's half a million lines are such CRUD, with its tests,
  seeds and migrations, so the modelled share of the lines stays small; the
  modules cover the places where state is shared between actors that interleave.
