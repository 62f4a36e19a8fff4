-------------------------- MODULE AccountStanding --------------------------
(***************************************************************************)
(* The standing of one member's account: what the member does to it (pause *)
(* it, ask for its erasure, change their mind, sign back in), what         *)
(* moderators do (suspend, ban behind a second signature, lift, overturn)  *)
(* and what the clock does (an expired suspension, the deletion sweeps).   *)
(*                                                                         *)
(* Every handler reads the rows without a lock and writes later in one     *)
(* transaction, so a call is two steps: the reads, kept in call[c].seen,   *)
(* and the commit, whose WHERE clauses are evaluated on the rows of that   *)
(* moment.  The reads of one handler are one step, except where it reads   *)
(* users a second time (restoreUser).                                      *)
(***************************************************************************)
EXTENDS Naturals

CONSTANTS Calls,         \* requests and cron runs that may be in flight
          Moderators,    \* staff accounts
          Deletions,     \* ids of deletion_request rows
          Holds,         \* ids of ban_ratifications rows
          DeletionGrace, \* DELETION_GRACE_DAYS
          WarningLead,   \* DELETION_FINAL_WARNING_LEAD_DAYS
          HoldWindow,    \* BAN_RATIFICATION_WINDOW_HOURS
          Suspension,    \* the duration a moderator gives a suspension
          MaxTime,       \* the bound on the clock
          PastOvertaking, \* a bound: whether calls begin once one was overtaken
          Null

ASSUME AccountAssumption ==
  /\ {DeletionGrace, WarningLead, HoldWindow, Suspension, MaxTime} \subseteq Nat
  /\ PastOvertaking \in BOOLEAN
  /\ Deletions \subseteq Nat /\ Holds \subseteq Nat
  /\ Null \notin Nat \cup Moderators

VARIABLES user,      \* users: status and suspended_until
          pause,     \* account_deactivation: the member's row
          deletion,  \* deletion_request rows
          hold,      \* ban_ratifications rows
          now,       \* the clock
          call,      \* the calls in flight
          verdict    \* history: the decision that stands, see below

vars == <<user, pause, deletion, hold, now, call, verdict>>

Standings == {"active", "suspended"}
Statuses == Standings \cup {"deactivated", "erased"}
Users == [status : Statuses, until : Nat \cup {Null}]
Pauses == [state : {"none", "open", "closed"}, previous : Standings]
DeletionRows == [status : {"none", "grace", "processing", "erased", "cancelled"},
                 due : Nat, previous : Standings, warnings : Nat]
HoldRows == [status : {"none", "pending", "ratified", "declined", "expired", "withdrawn"},
             expires : Nat, by : Moderators \cup {Null}]

NoPause == [state |-> "none", previous |-> "active"]
NoDeletion == [status |-> "none", due |-> 0, previous |-> "active", warnings |-> 0]
NoHold == [status |-> "none", expires |-> 0, by |-> Null]

\* A settled row keeps its status: nothing reads its other columns again.
ClosedRequest(status) == [NoDeletion EXCEPT !.status = status]
SettledHold(status) == [NoHold EXCEPT !.status = status]

\* Rows are numbered in the order of their insertion.
IsNext(id, table, unused) ==
  table[id] = unused /\ \A e \in DOMAIN table : e < id => table[e] # unused

InGrace(d) == deletion[d].status = "grace"
IsOpen(d) == deletion[d].status \in {"grace", "processing"}
IsPending(h) == hold[h].status = "pending"
IsErased == user.status = "erased"

(***************************************************************************)
(* Calls: the moderator who makes it, the row it is about, the date it     *)
(* reckoned from the clock when it began, and what it read.                *)
(***************************************************************************)
Ops == {"none", "deactivate", "requestDeletion", "cancelDeletion", "signIn", "visit",
        "suspend", "joinBan", "ban", "ratify", "decline", "lift", "restore", "withdraw",
        "claim", "erase", "stamp", "warn"}

\* The open request, of which UQ_deletion_request_open_user allows one.
Asked == {[status |-> deletion[d].status, previous |-> deletion[d].previous] :
            d \in {x \in Deletions : IsOpen(x)}}
AskedSets == SUBSET [status : {"grace", "processing"}, previous : Standings]

StatusReaders == {"suspend", "joinBan", "ban", "ratify", "decline", "restore"}

\* What a handler reads and does not check again when it writes.
Reads(op) ==
  CASE op \in {"deactivate", "requestDeletion"} ->
         [status |-> user.status, pause |-> pause, asked |-> Asked]
    [] op = "cancelDeletion" -> [asked |-> Asked]
    [] op = "signIn" -> [pause |-> pause, asked |-> Asked]
    [] op = "visit" -> [user |-> user]
    [] op \in StatusReaders -> [status |-> user.status]
    [] OTHER -> Null

SeenBy(op) ==
  CASE op \in {"deactivate", "requestDeletion"} ->
         [status : Statuses, pause : Pauses, asked : AskedSets]
    [] op = "cancelDeletion" -> [asked : AskedSets]
    [] op = "signIn" -> [pause : Pauses, asked : AskedSets]
    [] op = "visit" -> [user : Users]
    [] op \in StatusReaders -> [status : Statuses]
    [] OTHER -> {Null}

Idle == [op |-> "none", by |-> Null, on |-> Null, date |-> Null, seen |-> Null]
CallStates ==
  [op : Ops, by : Moderators \cup {Null}, on : Deletions \cup Holds \cup {Null}, date : Nat \cup {Null},
   seen : SeenBy("deactivate") \cup SeenBy("cancelDeletion") \cup SeenBy("signIn")
          \cup SeenBy("visit") \cup SeenBy("suspend") \cup SeenBy("none")]

Begin(c, op, by, on, date) ==
  /\ call[c].op = "none"
  /\ ~IsErased
  /\ verdict = "overtaken" => PastOvertaking
  /\ call' = [call EXCEPT ![c] = [op |-> op, by |-> by, on |-> on, date |-> date,
                                      seen |-> Reads(op)]]
  /\ UNCHANGED <<user, pause, deletion, hold, now, verdict>>

Step(c, op) == call' = [call EXCEPT ![c].op = op]
Finish(c) == call' = [call EXCEPT ![c] = Idle]

(***************************************************************************)
(* The verdict is the last decision that stands: the member is "free" or   *)
(* "sanctioned".  It is given up for good when a commit writes from rows   *)
(* that changed after it read them ("overtaken"), and when a decision      *)
(* falls in a grace period, of which the deletion request's recorded       *)
(* status does not learn ("unsynced").                                     *)
(***************************************************************************)
IsOvertaken(c) == verdict = "overtaken" \/ call[c].seen # Reads(call[c].op)
IsUnsynced == verdict = "unsynced" \/ (pause.state # "open" /\ \E d \in Deletions : IsOpen(d))

Decide(c, decision) ==
  verdict' = CASE IsOvertaken(c) -> "overtaken"
               [] ~IsOvertaken(c) /\ IsUnsynced -> "unsynced"
               [] OTHER -> decision
Keep(c) == verdict' = IF IsOvertaken(c) THEN "overtaken" ELSE verdict

\* The answer is an error and nothing is written.
Refuse(c) == Finish(c) /\ UNCHANGED <<user, pause, deletion, hold, now, verdict>>

(***************************************************************************)
(* What the member does.                                                   *)
(***************************************************************************)
GracePrevious(seen) ==
  LET rows == {a \in seen.asked : a.status = "grace"}
  IN  IF rows = {} THEN "active" ELSE (CHOOSE a \in rows : TRUE).previous

\* Slip: records the status as it is read, hidden or not.
RestoreStatusAsRead(seen) == seen.status

\* The status a later return has to put back.
RestoreStatus(seen) ==
  CASE seen.status # "deactivated" -> seen.status
    [] seen.status = "deactivated" /\ seen.pause.state = "open" -> seen.pause.previous
    [] OTHER -> GracePrevious(seen)

Hidden == [user EXCEPT !.status = "deactivated"]

StartDeactivate(c) == Begin(c, "deactivate", Null, Null, Null)

\* account_deactivation has one row per user, rewritten by every pause: two
\* first pauses at once collide on its unique index.
Deactivate(c) ==
  /\ call[c].op = "deactivate"
  /\ IF IsErased \/ (call[c].seen.pause.state = "none" /\ pause.state # "none")
     THEN Refuse(c)
     ELSE /\ pause' = [state |-> "open", previous |-> RestoreStatus(call[c].seen)]
          /\ user' = Hidden
          /\ Keep(c)
          /\ Finish(c)
          /\ UNCHANGED <<deletion, hold, now>>

StartRequestDeletion(c) ==
  /\ ~ \E d \in Deletions : IsOpen(d)
  /\ Begin(c, "requestDeletion", Null, Null, now + DeletionGrace)

\* Slip: no such index, only the check before the transaction.
IndexMissing == FALSE

\* UQ_deletion_request_open_user: one open request per user.
IndexRefuses == \E d \in Deletions : IsOpen(d)

RequestDeletion(c) ==
  /\ call[c].op = "requestDeletion"
  /\ IF IsErased \/ IndexRefuses
     THEN Refuse(c)
     ELSE \E d \in Deletions :
            /\ IsNext(d, deletion, NoDeletion)
            /\ deletion' = [deletion EXCEPT ![d] =
                 [status |-> "grace", due |-> call[c].date,
                  previous |-> RestoreStatus(call[c].seen), warnings |-> 0]]
            /\ user' = Hidden
            /\ Keep(c)
            /\ Finish(c)
            /\ UNCHANGED <<pause, hold, now>>

StartCancelDeletion(c) ==
  /\ \E d \in Deletions : InGrace(d)
  /\ ~ \E d \in Deletions : deletion[d].status = "processing"
  /\ Begin(c, "cancelDeletion", Null, Null, Null)

Cancelled == [d \in Deletions |->
                IF InGrace(d) THEN ClosedRequest("cancelled") ELSE deletion[d]]

\* An open pause keeps the member hidden; otherwise the recorded status is
\* restored, on a row that is still deactivated.
CancelDeletion(c) ==
  /\ call[c].op = "cancelDeletion"
  /\ IF ~ \E d \in Deletions : InGrace(d)
     THEN Refuse(c)
     ELSE /\ deletion' = Cancelled
          /\ IF pause.state # "open" /\ user.status = "deactivated"
             THEN /\ user' = [user EXCEPT !.status = GracePrevious(call[c].seen)]
                  /\ Keep(c)
             ELSE UNCHANGED <<user, verdict>>
          /\ Finish(c)
          /\ UNCHANGED <<pause, hold, now>>

\* Signing back in ends a pause, never a deletion request.
StartSignIn(c) ==
  /\ user.status = "deactivated"
  /\ ~ \E d \in Deletions : IsOpen(d)
  /\ pause.state = "open"
  /\ Begin(c, "signIn", Null, Null, Null)

ReactivateIfDeactivated(c) ==
  /\ call[c].op = "signIn"
  /\ pause' = IF pause.state = "open" THEN [pause EXCEPT !.state = "closed"] ELSE pause
  /\ IF user.status = "deactivated"
     THEN /\ user' = [user EXCEPT !.status = call[c].seen.pause.previous]
          /\ Keep(c)
     ELSE UNCHANGED <<user, verdict>>
  /\ Finish(c)
  /\ UNCHANGED <<deletion, hold, now>>

\* The first authenticated request after a suspension has run out.
StartVisit(c) ==
  /\ user.status = "suspended" /\ user.until # Null /\ user.until <= now
  /\ Begin(c, "visit", Null, Null, Null)

LiftExpiredSuspension(c) ==
  /\ call[c].op = "visit"
  /\ IF user.status = "suspended"
     THEN /\ user' = [status |-> "active", until |-> Null]
          /\ Decide(c, "free")
     ELSE UNCHANGED <<user, verdict>>
  /\ Finish(c)
  /\ UNCHANGED <<pause, deletion, hold, now>>

(***************************************************************************)
(* What moderators do.  Impose and Release are the writes of every         *)
(* sanction and of every restoration: a member who had hidden themselves   *)
(* stays hidden and the open pause learns what to come back to.            *)
(***************************************************************************)
\* Slips: the open pause is not told; the hidden member is brought out.
SyncNothing(status) == pause' = pause
KeptVisible(c, status) == status

SyncDeactivationPreviousStatus(status) ==
  pause' = IF pause.state = "open" THEN [pause EXCEPT !.previous = status] ELSE pause

Kept(c, status) == IF call[c].seen.status = "deactivated" THEN user.status ELSE status

Impose(c, until) ==
  /\ user' = [status |-> Kept(c, "suspended"), until |-> until]
  /\ SyncDeactivationPreviousStatus("suspended")
  /\ Decide(c, "sanctioned")

\* Slip: a restoration that the open pause does not learn of.
ReleaseUnsynced(c) ==
  /\ user' = [status |-> Kept(c, "active"), until |-> Null]
  /\ pause' = pause
  /\ Decide(c, "free")

Release(c) ==
  /\ user' = [status |-> Kept(c, "active"), until |-> Null]
  /\ SyncDeactivationPreviousStatus("active")
  /\ Decide(c, "free")

StartSuspend(c) == Begin(c, "suspend", Null, Null, now + Suspension)

Suspend(c) ==
  /\ call[c].op = "suspend"
  /\ IF IsErased
     THEN Refuse(c)
     ELSE /\ Impose(c, call[c].date)
          /\ Finish(c)
          /\ UNCHANGED <<deletion, hold, now>>

\* A ban joins the hold pending on the member, unless that has lapsed.
StartJoinBan(c) ==
  \E h \in Holds :
    /\ IsPending(h) /\ hold[h].expires > now
    /\ Begin(c, "joinBan", Null, Null, hold[h].expires)

JoinBanHold(c) ==
  /\ call[c].op = "joinBan"
  /\ IF IsErased
     THEN Refuse(c)
     ELSE /\ Impose(c, call[c].date)
          /\ Finish(c)
          /\ UNCHANGED <<deletion, hold, now>>

StartBan(c) ==
  \E m \in Moderators :
    /\ \E h \in Holds : hold[h] = NoHold
    /\ IF \E h \in Holds : IsPending(h)
       THEN \E h \in Holds : /\ IsPending(h) /\ hold[h].expires <= now
                            /\ Begin(c, "ban", m, h, now + HoldWindow)
       ELSE Begin(c, "ban", m, Null, now + HoldWindow)

\* A lapsed hold is settled first, if it is still pending.
Settled(c) ==
  [h \in Holds |-> IF h = call[c].on /\ IsPending(h)
                   THEN SettledHold("expired") ELSE hold[h]]

\* UQ_ban_ratifications_pending_target: one pending hold per member.
PendingIndexRefuses(c) == \E h \in Holds : Settled(c)[h].status = "pending"

OpenBanHold(c) ==
  /\ call[c].op = "ban"
  /\ IF IsErased \/ PendingIndexRefuses(c)
     THEN Refuse(c)
     ELSE /\ \E h \in Holds :
               /\ IsNext(h, hold, NoHold)
               /\ hold' = [Settled(c) EXCEPT ![h] =
                    [status |-> "pending", expires |-> call[c].date, by |-> call[c].by]]
          /\ Impose(c, call[c].date)
          /\ Finish(c)
          /\ UNCHANGED <<deletion, now>>

\* Run at the head of every read of the queue and of every decision.
ExpireDueHolds ==
  /\ \E h \in Holds :
       /\ IsPending(h) /\ hold[h].expires <= now
       /\ hold' = [hold EXCEPT ![h] = SettledHold("expired")]
  /\ UNCHANGED <<user, pause, deletion, now, call, verdict>>

\* The second signature: a hold still pending, not lapsed, not one's own.
StartDecide(c) ==
  \E m \in Moderators, h \in Holds, op \in {"ratify", "decline"} :
    /\ IsPending(h) /\ hold[h].expires > now
    /\ hold[h].by # m
    /\ Begin(c, op, m, h, Null)

Decided(h, status) == [hold EXCEPT ![h] = SettledHold(status)]

\* Slip: the decision relies on the hold as it was read.
ClaimsAnyHold(c) == TRUE

ClaimsHold(c) == IsPending(call[c].on)

ApplyRatifiedBan(c) ==
  /\ call[c].op = "ratify"
  /\ IF ~ClaimsHold(c)
     THEN Refuse(c)
     ELSE /\ hold' = Decided(call[c].on, "ratified")
          /\ Impose(c, Null)
          /\ Finish(c)
          /\ UNCHANGED <<deletion, now>>

DeclineBan(c) ==
  /\ call[c].op = "decline"
  /\ IF ~ClaimsHold(c)
     THEN Refuse(c)
     ELSE /\ hold' = Decided(call[c].on, "declined")
          /\ Release(c)
          /\ Finish(c)
          /\ UNCHANGED <<deletion, now>>

\* A moderator lifts a suspension, or an appeal against one is overturned.
StartLift(c) == user.status = "suspended" /\ Begin(c, "lift", Null, Null, Null)

\* An appeal overturned when the member is not suspended withdraws the hold.
StartOverturn(c) ==
  /\ user.status # "suspended" /\ \E h \in Holds : IsPending(h)
  /\ Begin(c, "withdraw", Null, Null, Null)

\* restoreUser reads the user again.
LookAgain(c) ==
  /\ call[c].op = "lift"
  /\ call' = [call EXCEPT ![c].op = "restore", ![c].seen = Reads("restore")]
  /\ UNCHANGED <<user, pause, deletion, hold, now, verdict>>

Withdrawn ==
  [h \in Holds |-> IF IsPending(h) THEN SettledHold("withdrawn") ELSE hold[h]]

LiftSuspension(c) ==
  /\ call[c].op = "restore"
  /\ IF IsErased
     THEN Refuse(c)
     ELSE /\ Release(c)
          /\ hold' = Withdrawn
          /\ Finish(c)
          /\ UNCHANGED <<deletion, now>>

WithdrawPendingHold(c) ==
  /\ call[c].op = "withdraw"
  /\ hold' = Withdrawn
  /\ Finish(c)
  /\ UNCHANGED <<user, pause, deletion, now, verdict>>

(***************************************************************************)
(* The daily sweeps, one call for each row they found.  Each claims its    *)
(* row with a conditional UPDATE first, so that replicas may overlap.      *)
(***************************************************************************)
StartErase(c) ==
  \E d \in Deletions :
    /\ InGrace(d) /\ deletion[d].due <= now
    /\ Begin(c, "claim", Null, d, Null)

\* Slip: erases what the sweep found, though it may be cancelled by now.
ClaimsFound(c) == TRUE

ClaimsDeletion(c) == InGrace(call[c].on)

ClaimDeletion(c) ==
  /\ call[c].op = "claim"
  /\ IF ~ClaimsDeletion(c)
     THEN Refuse(c)
     ELSE /\ deletion' = [deletion EXCEPT ![call[c].on].status = "processing"]
          /\ Step(c, "erase")
          /\ UNCHANGED <<user, pause, hold, now, verdict>>

\* Deleting the users row cascades to the pause and to the holds; the
\* deletion_request row has no foreign key and stays.
EraseAccount(c) ==
  /\ call[c].op = "erase"
  /\ user' = [status |-> "erased", until |-> Null]
  /\ pause' = NoPause
  /\ hold' = [h \in Holds |-> NoHold]
  /\ Step(c, "stamp")
  /\ UNCHANGED <<deletion, now, verdict>>

StampErased(c) ==
  /\ call[c].op = "stamp"
  /\ deletion' = [deletion EXCEPT ![call[c].on] = ClosedRequest("erased")]
  /\ Finish(c)
  /\ UNCHANGED <<user, pause, hold, now, verdict>>

StartWarn(c) ==
  \E d \in Deletions :
    /\ InGrace(d) /\ deletion[d].warnings = 0
    /\ deletion[d].due <= now + WarningLead /\ deletion[d].due > now
    /\ Begin(c, "warn", Null, d, Null)

\* Slip: only the status is checked again.
ClaimsInGrace(c) == InGrace(call[c].on)

\* finalWarningSentAt IS NULL: no warning has been created.
ClaimsWarning(c) == InGrace(call[c].on) /\ deletion[call[c].on].warnings = 0

WarnUpcomingDeletion(c) ==
  /\ call[c].op = "warn"
  /\ IF ~ClaimsWarning(c)
     THEN Refuse(c)
     ELSE /\ deletion' = [deletion EXCEPT ![call[c].on].warnings = @ + 1]
          /\ Finish(c)
          /\ UNCHANGED <<user, pause, hold, now, verdict>>

(***************************************************************************)
(* The environment: a call dies (a crash, an error, the victim of a        *)
(* deadlock), and time passes.  A call may take arbitrarily long.          *)
(***************************************************************************)
Fail(c) == call[c].op # "none" /\ Refuse(c)

Tick ==
  /\ now < MaxTime
  /\ now' = now + 1
  /\ UNCHANGED <<user, pause, deletion, hold, call, verdict>>

Init ==
  /\ user = [status |-> "active", until |-> Null]
  /\ pause = NoPause
  /\ deletion = [d \in Deletions |-> NoDeletion]
  /\ hold = [h \in Holds |-> NoHold]
  /\ now = 0
  /\ call = [c \in Calls |-> Idle]
  /\ verdict = "free"

MemberActs(c) ==
  \/ StartDeactivate(c) \/ Deactivate(c)
  \/ StartRequestDeletion(c) \/ RequestDeletion(c)
  \/ StartCancelDeletion(c) \/ CancelDeletion(c)
  \/ StartSignIn(c) \/ ReactivateIfDeactivated(c)
  \/ StartVisit(c) \/ LiftExpiredSuspension(c)

ModeratorActs(c) ==
  \/ StartSuspend(c) \/ Suspend(c)
  \/ StartJoinBan(c) \/ JoinBanHold(c) \/ StartBan(c) \/ OpenBanHold(c)
  \/ StartDecide(c) \/ ApplyRatifiedBan(c) \/ DeclineBan(c)
  \/ StartLift(c) \/ LookAgain(c) \/ LiftSuspension(c)
  \/ StartOverturn(c) \/ WithdrawPendingHold(c)

SweepActs(c) ==
  \/ StartErase(c) \/ ClaimDeletion(c) \/ EraseAccount(c) \/ StampErased(c)
  \/ StartWarn(c) \/ WarnUpcomingDeletion(c)

Next ==
  \/ \E c \in Calls : MemberActs(c) \/ ModeratorActs(c) \/ SweepActs(c) \/ Fail(c)
  \/ ExpireDueHolds
  \/ Tick

Spec == Init /\ [][Next]_vars

(***************************************************************************)
(* Properties.                                                             *)
(***************************************************************************)
StandingTypeOK ==
  /\ user \in Users
  /\ pause \in Pauses
  /\ deletion \in [Deletions -> DeletionRows]
  /\ hold \in [Holds -> HoldRows]
  /\ now \in Nat
  /\ call \in [Calls -> CallStates]
  /\ \A c \in Calls : call[c].seen \in SeenBy(call[c].op)
  /\ verdict \in {"free", "sanctioned", "unsynced", "overtaken"}

\* Pausing, asking for erasure and coming back never changes whether the
\* member is under a sanction: it is neither laundered away nor re-applied.
\* It holds while no commit wrote from rows that had changed under it and no
\* decision fell in a grace period, which deletion_request.previous_status
\* does not learn of.
SanctionSurvivesLeaving ==
  verdict \in {"free", "sanctioned"} =>
    /\ user.status \in Standings => (user.status = "suspended" <=> verdict = "sanctioned")
    /\ user.status = "deactivated" =>
         \/ pause.state = "open" /\ (pause.previous = "suspended" <=> verdict = "sanctioned")
         \/ pause.state # "open" /\ \E d \in Deletions :
              InGrace(d) /\ (deletion[d].previous = "suspended" <=> verdict = "sanctioned")
         \/ \E d \in Deletions : deletion[d].status = "processing"

\* A permanent suspension is a ban a second moderator ratified, under the
\* same two conditions.
BansAreRatified ==
  verdict \in {"free", "sanctioned"} =>
    (user = [status |-> "suspended", until |-> Null] =>
       \E h \in Holds : hold[h].status = "ratified")

\* A member who paused their account or asked for its erasure is hidden for
\* as long as that stands, whatever moderators and the clock do meanwhile.
HiddenWhileLeaving ==
  verdict # "overtaken" /\ (pause.state = "open" \/ \E d \in Deletions : IsOpen(d))
    => user.status \in {"deactivated", "erased"}

\* Overlapping submissions and sweeps leave one open request, one pending hold
\* and one warning: settling the one leaves no other behind, and a member is
\* told of their coming erasure once.
OneOpenOfEach ==
  /\ \A d, e \in Deletions : IsOpen(d) /\ IsOpen(e) => d = e
  /\ \A h, g \in Holds : IsPending(h) /\ IsPending(g) => h = g
  /\ \A d \in Deletions : deletion[d].warnings <= 1

\* A hold is settled once: one withdrawn, declined or lapsed is not ratified
\* by a late decision.  It is ratified or declined only by a moderator who
\* did not ask for it.
HoldsAreSettledOnce ==
  [][\A h \in Holds : hold'[h] # hold[h] =>
       \/ hold[h].status = "none"
       \/ IsPending(h) /\ (hold'[h].status \in {"ratified", "declined"} =>
            \E c \in Calls : /\ call[c].op \in {"ratify", "decline"} /\ call'[c].op = "none"
                             /\ call[c].by \in Moderators \ {hold[h].by})
       \/ IsErased' /\ ~IsErased]_vars

\* An account is erased for a request that is being processed after its date
\* and was never cancelled; a cancelled request stays cancelled.
OnlyAStandingRequestErases ==
  [][/\ IsErased' /\ ~IsErased =>
          \E d \in Deletions : deletion[d].status = "processing" /\ deletion[d].due <= now
     /\ \A d \in Deletions :
          deletion[d].status = "cancelled" => deletion'[d].status = "cancelled"]_vars

\* The documented rule without the two conditions: nobody is banned for good
\* without a second signature.
NoBanWithoutASecondModerator ==
  user = [status |-> "suspended", until |-> Null] =>
    \E h \in Holds : hold[h].status = "ratified"
=============================================================================
