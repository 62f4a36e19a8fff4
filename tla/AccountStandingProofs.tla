------------------------ MODULE AccountStandingProofs ------------------------
(***************************************************************************)
(* Theorems about AccountStanding, for any calls, moderators, rows, grace  *)
(* periods and clock.                                                      *)
(***************************************************************************)
EXTENDS AccountStanding, TLAPS

-----------------------------------------------------------------------------
(* What stays true of a call between its reads and its commit, whatever the
   others do to the rows meanwhile. *)

Dated == {"requestDeletion", "suspend", "joinBan", "ban"}
Deciding == {"ratify", "decline"}
Sweeping == {"claim", "warn", "erase", "stamp"}

\* A decision is about a hold that has been opened, by somebody else.
DecisionOK(r) ==
  r.op \in Deciding =>
    /\ r.by \in Moderators /\ r.on \in Holds
    /\ hold[r.on].status # "none" \/ IsErased
    /\ IsPending(r.on) => hold[r.on].by # r.by

\* A sweep is about a request that was made, and claims it when it is due.
SweepOK(r) ==
  /\ r.op \in Sweeping => r.on \in Deletions
  /\ r.op = "claim" => deletion[r.on].status # "none" /\ deletion[r.on].due <= now
  /\ r.op \in {"erase", "stamp"} => deletion[r.on].status \in {"processing", "erased"}
  /\ r.op = "erase" => /\ deletion[r.on].due <= now
                       /\ deletion[r.on].status = "erased" => IsErased
  /\ r.op = "stamp" => IsErased

CallOK(r) ==
  /\ r.op \in {"deactivate", "requestDeletion"} => r.seen.status # "erased"
  /\ r.op \in Dated => r.date \in Nat
  /\ r.op = "ban" => r.by \in Moderators
  /\ r.op = "signIn" => r.seen.pause.state = "open" /\ r.seen.asked = {}
  /\ r.op = "visit" => r.seen.user.status = "suspended"
  /\ DecisionOK(r)
  /\ SweepOK(r)

\* An erased member has no hold that a late decision could act on.
NoHoldAfterErasure == IsErased => \A h \in Holds : hold[h].status = "none"

Core ==
  /\ StandingTypeOK
  /\ OneOpenOfEach
  /\ NoHoldAfterErasure
  /\ \A c \in Calls : CallOK(call[c])

\* A sanction without an end was ratified, also while the member is hidden.
EndlessIsRatified ==
  verdict = "sanctioned" /\ ~IsErased /\ user.until = Null =>
    \E h \in Holds : hold[h].status = "ratified"

-----------------------------------------------------------------------------
(* Types. *)

LEMMA AskedType ==
  ASSUME StandingTypeOK
  PROVE  Asked \in AskedSets
BY DEF StandingTypeOK, Asked, AskedSets, IsOpen, DeletionRows

LEMMA ReadsType ==
  ASSUME StandingTypeOK, NEW op \in Ops
  PROVE  Reads(op) \in SeenBy(op)
BY AskedType DEF StandingTypeOK, Reads, SeenBy, Ops, StatusReaders, Users

LEMMA BeginType ==
  ASSUME StandingTypeOK, NEW c \in Calls, NEW op \in Ops,
         NEW by \in Moderators \cup {Null}, NEW on \in Deletions \cup Holds \cup {Null},
         NEW date \in Nat \cup {Null}, Begin(c, op, by, on, date)
  PROVE  StandingTypeOK'
<1>1. Reads(op) \in SeenBy(op)
  BY ReadsType
<1>2. SeenBy(op) \subseteq SeenBy("deactivate") \cup SeenBy("cancelDeletion")
        \cup SeenBy("signIn") \cup SeenBy("visit") \cup SeenBy("suspend") \cup SeenBy("none")
  BY DEF SeenBy, StatusReaders, Ops
<1>3. [op |-> op, by |-> by, on |-> on, date |-> date, seen |-> Reads(op)] \in CallStates
  BY <1>1, <1>2 DEF CallStates
<1> QED BY <1>1, <1>3 DEF StandingTypeOK, Begin

LEMMA IdleType == Idle \in CallStates /\ Idle.seen \in SeenBy(Idle.op)
BY DEF Idle, CallStates, Ops, SeenBy, StatusReaders

LEMMA FinishType ==
  ASSUME StandingTypeOK, NEW c \in Calls, Finish(c)
  PROVE  /\ call' \in [Calls -> CallStates]
         /\ \A b \in Calls : call'[b].seen \in SeenBy(call'[b].op)
BY IdleType DEF StandingTypeOK, Finish

LEMMA SeenTypes ==
  ASSUME NEW op
  PROVE  /\ op \in {"deactivate", "requestDeletion"} =>
              SeenBy(op) = [status : Statuses, pause : Pauses, asked : AskedSets]
         /\ op = "cancelDeletion" => SeenBy(op) = [asked : AskedSets]
         /\ op = "signIn" => SeenBy(op) = [pause : Pauses, asked : AskedSets]
         /\ op = "visit" => SeenBy(op) = [user : Users]
         /\ op \in StatusReaders => SeenBy(op) = [status : Statuses]
BY DEF SeenBy, StatusReaders

LEMMA GracePreviousType ==
  ASSUME NEW seen, seen.asked \in AskedSets
  PROVE  GracePrevious(seen) \in Standings
BY DEF GracePrevious, AskedSets, Standings

LEMMA RestoreStatusType ==
  ASSUME NEW seen \in SeenBy("deactivate"), seen.status # "erased"
  PROVE  RestoreStatus(seen) \in Standings
<1>1. seen \in [status : Statuses, pause : Pauses, asked : AskedSets]
  BY SeenTypes
<1>2. seen.status \in Statuses /\ seen.pause.previous \in Standings
  BY <1>1 DEF Pauses
<1>3. GracePrevious(seen) \in Standings
  BY <1>1, GracePreviousType
<1> QED BY <1>2, <1>3 DEF RestoreStatus, Statuses
-----------------------------------------------------------------------------
(* How rows may change under a call in flight: time moves on, an erased member
   stays erased, a request keeps its date until it is settled, one that is being
   processed is settled by the erasure alone, and a hold keeps its author for as
   long as it is pending. *)

Frame ==
  /\ now <= now'
  /\ IsErased => IsErased'
  /\ \A d \in Deletions :
       /\ deletion[d].status # "none" =>
            /\ deletion'[d].status # "none"
            /\ deletion'[d].due = deletion[d].due \/ deletion'[d].due = 0
       /\ deletion[d].status \in {"processing", "erased"} =>
            \/ deletion'[d].status = deletion[d].status
            \/ deletion'[d].status = "erased" /\ IsErased'
  /\ \A h \in Holds : hold[h].status # "none" =>
       /\ hold'[h].status # "none" \/ IsErased'
       /\ hold'[h].status = "pending" => hold'[h] = hold[h]

LEMMA FrameKeepsCalls ==
  ASSUME Core, StandingTypeOK', NoHoldAfterErasure', Frame, NEW b \in Calls,
         call'[b] = call[b] \/ call'[b] = Idle
  PROVE  CallOK(call[b])'
<1>1. CASE call'[b] = Idle
  BY <1>1 DEF CallOK, DecisionOK, SweepOK, Idle, Dated, Deciding, Sweeping
<1>2. CASE call'[b] = call[b]
  <2>1. CallOK(call[b])
    BY DEF Core
  <2>2. DecisionOK(call[b])'
    BY <1>2, <2>1 DEF CallOK, DecisionOK, Frame, Deciding, IsPending, NoHoldAfterErasure
  <2>3. SweepOK(call[b])'
    BY <1>2, <2>1 DEF CallOK, SweepOK, Frame, Sweeping, Core, StandingTypeOK, DeletionRows
  <2> QED BY <1>2, <2>1, <2>2, <2>3 DEF CallOK, Dated
<1> QED BY <1>1, <1>2

Verdicts == {"free", "sanctioned", "unsynced", "overtaken"}

\* The rows of the next state have their types.
RowsType ==
  /\ user' \in Users
  /\ pause' \in Pauses
  /\ deletion' \in [Deletions -> DeletionRows]
  /\ hold' \in [Holds -> HoldRows]
  /\ now' \in Nat
  /\ verdict' \in Verdicts

LEMMA VerdictType ==
  ASSUME StandingTypeOK, NEW c \in Calls, NEW d \in {"free", "sanctioned"},
         Decide(c, d) \/ Keep(c) \/ UNCHANGED verdict
  PROVE  verdict' \in Verdicts
BY DEF StandingTypeOK, Decide, Keep, Verdicts

\* A commit ends its call.
LEMMA FinishCore ==
  ASSUME Core, (\E c \in Calls : Finish(c)) \/ UNCHANGED call,
         RowsType, OneOpenOfEach', NoHoldAfterErasure', Frame
  PROVE  Core'
<1>1. /\ call' \in [Calls -> CallStates]
      /\ \A b \in Calls : call'[b].seen \in SeenBy(call'[b].op)
  BY FinishType DEF Core, StandingTypeOK
<1>2. StandingTypeOK'
  BY <1>1 DEF RowsType, StandingTypeOK, Verdicts
<1>3. \A b \in Calls : call'[b] = call[b] \/ call'[b] = Idle
  BY DEF Core, StandingTypeOK, Finish
<1>4. \A b \in Calls : CallOK(call[b])'
  BY <1>2, <1>3, FrameKeepsCalls
<1> QED BY <1>2, <1>4 DEF Core

\* A commit that leaves the requests and the holds alone.
LEMMA StandingCore ==
  ASSUME Core, NEW c \in Calls, Finish(c), UNCHANGED <<deletion, hold, now>>,
         IsErased' <=> IsErased,
         user' \in Users, pause' \in Pauses, verdict' \in Verdicts
  PROVE  Core'
<1>1. RowsType
  BY DEF Core, StandingTypeOK, RowsType
<1>2. Frame
  BY DEF Frame, Core, StandingTypeOK
<1>3. OneOpenOfEach' /\ NoHoldAfterErasure'
  BY DEF Core, OneOpenOfEach, NoHoldAfterErasure, IsOpen, IsPending
<1> QED BY <1>1, <1>2, <1>3, FinishCore

LEMMA RefuseCore ==
  ASSUME Core, NEW c \in Calls, Refuse(c)
  PROVE  Core'
BY StandingCore DEF Core, StandingTypeOK, Refuse, IsErased, Verdicts

\* The start of a call whose record is sound.
LEMMA BeginCore ==
  ASSUME Core, NEW c \in Calls, NEW op \in Ops,
         NEW by \in Moderators \cup {Null}, NEW on \in Deletions \cup Holds \cup {Null},
         NEW date \in Nat \cup {Null}, Begin(c, op, by, on, date),
         CallOK([op |-> op, by |-> by, on |-> on, date |-> date, seen |-> Reads(op)])
  PROVE  Core'
<1>1. StandingTypeOK'
  BY BeginType DEF Core
<1>2. OneOpenOfEach' /\ NoHoldAfterErasure'
  BY DEF Begin, Core, OneOpenOfEach, NoHoldAfterErasure, IsOpen, IsPending, IsErased
<1>3. Frame
  BY DEF Frame, Begin, Core, StandingTypeOK, IsErased
<1>4. \A b \in Calls \ {c} : CallOK(call[b])'
  BY <1>1, <1>2, <1>3, FrameKeepsCalls DEF Begin, Core, StandingTypeOK
<1>5. CallOK(call[c])'
  <2> DEFINE r == [op |-> op, by |-> by, on |-> on, date |-> date, seen |-> Reads(op)]
  <2>1. call'[c] = r
    BY DEF Begin, Core, StandingTypeOK
  <2>2. CallOK(r)
    OBVIOUS
  <2> HIDE DEF r
  <2> QED BY <2>1, <2>2 DEF CallOK, DecisionOK, SweepOK, Begin, IsErased, IsPending
<1> QED BY <1>1, <1>2, <1>4, <1>5 DEF Core

-----------------------------------------------------------------------------
(* The calls begin. *)

\* What each handler reads, by its name.
LEMMA ReadsOf ==
  ASSUME NEW op
  PROVE  /\ op \in {"deactivate", "requestDeletion"} =>
              Reads(op) = [status |-> user.status, pause |-> pause, asked |-> Asked]
         /\ op = "cancelDeletion" => Reads(op) = [asked |-> Asked]
         /\ op = "signIn" => Reads(op) = [pause |-> pause, asked |-> Asked]
         /\ op = "visit" => Reads(op) = [user |-> user]
         /\ op \in StatusReaders => Reads(op) = [status |-> user.status]
BY DEF Reads, StatusReaders

\* Calls that carry nothing but what they read.
LEMMA PlainCore ==
  ASSUME Core, NEW c \in Calls,
         NEW op \in {"deactivate", "cancelDeletion", "signIn", "visit", "lift", "withdraw"},
         Begin(c, op, Null, Null, Null),
         op = "signIn" => pause.state = "open" /\ Asked = {},
         op = "visit" => user.status = "suspended"
  PROVE  Core'
<1> DEFINE r == [op |-> op, by |-> Null, on |-> Null, date |-> Null, seen |-> Reads(op)]
<1>1. op = "deactivate" => r.seen.status # "erased"
  BY ReadsOf DEF Begin, IsErased
<1>2. op = "signIn" => r.seen.pause.state = "open" /\ r.seen.asked = {}
  BY ReadsOf
<1>3. op = "visit" => r.seen.user.status = "suspended"
  BY ReadsOf
<1>4. r.op = op
  OBVIOUS
<1> HIDE DEF r
<1>5. CallOK(r)
  BY <1>1, <1>2, <1>3, <1>4 DEF CallOK, DecisionOK, SweepOK, Dated, Deciding, Sweeping
<1>6. op \in Ops
  BY DEF Ops
<1> QED BY <1>5, <1>6, BeginCore DEF r

LEMMA MemberBegins ==
  ASSUME Core, NEW c \in Calls,
         \/ StartDeactivate(c) \/ StartCancelDeletion(c) \/ StartSignIn(c) \/ StartVisit(c)
         \/ StartLift(c) \/ StartOverturn(c)
  PROVE  Core'
<1>1. CASE StartSignIn(c)
  <2>1. Asked = {}
    BY <1>1 DEF StartSignIn, Asked
  <2> QED BY <1>1, <2>1, PlainCore DEF StartSignIn
<1>2. CASE StartVisit(c)
  BY <1>2, PlainCore DEF StartVisit
<1>3. CASE StartDeactivate(c) \/ StartCancelDeletion(c) \/ StartLift(c) \/ StartOverturn(c)
  BY <1>3, PlainCore DEF StartDeactivate, StartCancelDeletion, StartLift, StartOverturn
<1> QED BY <1>1, <1>2, <1>3

\* Calls that reckon a date.
LEMMA DatedBegins ==
  ASSUME Core, NEW c \in Calls,
         StartRequestDeletion(c) \/ StartSuspend(c) \/ StartJoinBan(c) \/ StartBan(c)
  PROVE  Core'
<1>1. PICK op \in Dated, by \in Moderators \cup {Null}, on \in Holds \cup {Null}, date \in Nat :
        /\ Begin(c, op, by, on, date)
        /\ op = "ban" => by \in Moderators
  <2>1. CASE StartRequestDeletion(c)
    <3>1. now + DeletionGrace \in Nat
      BY AccountAssumption DEF Core, StandingTypeOK
    <3>2. Begin(c, "requestDeletion", Null, Null, now + DeletionGrace)
      BY <2>1 DEF StartRequestDeletion
    <3> QED BY <3>1, <3>2 DEF Dated
  <2>2. CASE StartSuspend(c)
    <3>1. now + Suspension \in Nat
      BY AccountAssumption DEF Core, StandingTypeOK
    <3>2. Begin(c, "suspend", Null, Null, now + Suspension)
      BY <2>2 DEF StartSuspend
    <3> QED BY <3>1, <3>2 DEF Dated
  <2>3. CASE StartJoinBan(c)
    BY <2>3 DEF StartJoinBan, Core, StandingTypeOK, HoldRows, Dated
  <2>4. CASE StartBan(c)
    <3>1. now + HoldWindow \in Nat
      BY AccountAssumption DEF Core, StandingTypeOK
    <3>2. \E m \in Moderators, on \in Holds \cup {Null} :
            Begin(c, "ban", m, on, now + HoldWindow)
      BY <2>4 DEF StartBan
    <3> QED BY <3>1, <3>2 DEF Dated
  <2> QED BY <2>1, <2>2, <2>3, <2>4
<1> DEFINE r == [op |-> op, by |-> by, on |-> on, date |-> date, seen |-> Reads(op)]
<1>2. op = "requestDeletion" => r.seen.status # "erased"
  BY <1>1, ReadsOf DEF Begin, IsErased
<1>3. r.op = op /\ r.by = by /\ r.date = date
  OBVIOUS
<1> HIDE DEF r
<1>4. CallOK(r)
  BY <1>1, <1>2, <1>3 DEF CallOK, DecisionOK, SweepOK, Dated, Deciding, Sweeping
<1>5. op \in Ops
  BY DEF Ops, Dated
<1> QED BY <1>1, <1>4, <1>5, BeginCore DEF r

LEMMA DecisionBegins ==
  ASSUME Core, NEW c \in Calls, StartDecide(c)
  PROVE  Core'
<1>1. PICK m \in Moderators, h \in Holds, op \in Deciding :
        IsPending(h) /\ hold[h].by # m /\ Begin(c, op, m, h, Null)
  BY DEF StartDecide, Deciding
<1> DEFINE r == [op |-> op, by |-> m, on |-> h, date |-> Null, seen |-> Reads(op)]
<1>2. r.op = op /\ r.by = m /\ r.on = h
  OBVIOUS
<1> HIDE DEF r
<1>3. CallOK(r)
  BY <1>1, <1>2 DEF CallOK, DecisionOK, SweepOK, Dated, Deciding, Sweeping, IsPending
<1>4. op \in Ops
  BY DEF Ops, Deciding
<1> QED BY <1>1, <1>3, <1>4, BeginCore DEF r

LEMMA SweepBegins ==
  ASSUME Core, NEW c \in Calls, StartErase(c) \/ StartWarn(c)
  PROVE  Core'
<1>1. PICK d \in Deletions, op \in {"claim", "warn"} :
        /\ InGrace(d) /\ Begin(c, op, Null, d, Null)
        /\ op = "claim" => deletion[d].due <= now
  BY DEF StartErase, StartWarn
<1> DEFINE r == [op |-> op, by |-> Null, on |-> d, date |-> Null, seen |-> Reads(op)]
<1>2. r.op = op /\ r.on = d
  OBVIOUS
<1> HIDE DEF r
<1>3. CallOK(r)
  BY <1>1, <1>2 DEF CallOK, DecisionOK, SweepOK, Dated, Deciding, Sweeping, InGrace
<1>4. op \in Ops
  BY DEF Ops
<1> QED BY <1>1, <1>3, <1>4, BeginCore DEF r

-----------------------------------------------------------------------------
(* The commits. *)

LEMMA KeepOrDecide ==
  ASSUME Core, NEW c \in Calls,
         Keep(c) \/ Decide(c, "free") \/ Decide(c, "sanctioned") \/ UNCHANGED verdict
  PROVE  verdict' \in Verdicts
BY VerdictType DEF Core

\* What sanctions and restorations write.
LEMMA ImposeTypes ==
  ASSUME Core, ~IsErased, NEW c \in Calls, NEW until \in Nat \cup {Null}, Impose(c, until)
  PROVE  user' \in Users /\ pause' \in Pauses /\ verdict' \in Verdicts /\ ~IsErased'
<1>1. Kept(c, "suspended") \in Statuses /\ Kept(c, "suspended") # "erased"
  BY DEF Core, StandingTypeOK, Users, Kept, IsErased, Statuses, Standings
<1>2. user' \in Users /\ ~IsErased'
  BY <1>1 DEF Impose, Users, IsErased
<1>3. pause' \in Pauses
  BY DEF Core, StandingTypeOK, Impose, SyncDeactivationPreviousStatus, Pauses, Standings
<1> QED BY <1>2, <1>3, KeepOrDecide DEF Impose

LEMMA ReleaseTypes ==
  ASSUME Core, ~IsErased, NEW c \in Calls, Release(c)
  PROVE  user' \in Users /\ pause' \in Pauses /\ verdict' \in Verdicts /\ ~IsErased'
<1>1. Kept(c, "active") \in Statuses /\ Kept(c, "active") # "erased"
  BY DEF Core, StandingTypeOK, Users, Kept, IsErased, Statuses, Standings
<1>2. user' \in Users /\ ~IsErased'
  BY <1>1 DEF Release, Users, IsErased
<1>3. pause' \in Pauses
  BY DEF Core, StandingTypeOK, Release, SyncDeactivationPreviousStatus, Pauses, Standings
<1> QED BY <1>2, <1>3, KeepOrDecide DEF Release

LEMMA DeactivateCore ==
  ASSUME Core, NEW c \in Calls, Deactivate(c)
  PROVE  Core'
<1>1. CASE Refuse(c)
  BY <1>1, RefuseCore
<1>2. CASE ~Refuse(c)
  <2>1. RestoreStatus(call[c].seen) \in Standings
    BY RestoreStatusType, SeenTypes DEF Deactivate, Core, StandingTypeOK, CallOK
  <2>2. pause' \in Pauses
    BY <1>2, <2>1 DEF Deactivate, Pauses
  <2>3. user' \in Users /\ ~IsErased' /\ ~IsErased
    BY <1>2 DEF Deactivate, Hidden, Users, Core, StandingTypeOK, IsErased, Statuses
  <2> QED BY <1>2, <2>2, <2>3, KeepOrDecide, StandingCore DEF Deactivate
<1> QED BY <1>1, <1>2

LEMMA ReactivateCore ==
  ASSUME Core, NEW c \in Calls, ReactivateIfDeactivated(c)
  PROVE  Core'
<1>1. call[c].seen.pause.previous \in Standings
  <2>1. call[c].seen \in [pause : Pauses, asked : AskedSets]
    BY SeenTypes DEF ReactivateIfDeactivated, Core, StandingTypeOK
  <2> QED BY <2>1 DEF Pauses
<1>2. user' \in Users /\ (IsErased' <=> IsErased)
  BY <1>1 DEF ReactivateIfDeactivated, Core, StandingTypeOK, Users, IsErased, Statuses, Standings
<1>3. pause' \in Pauses
  BY DEF ReactivateIfDeactivated, Core, StandingTypeOK, Pauses
<1> QED BY <1>2, <1>3, KeepOrDecide, StandingCore DEF ReactivateIfDeactivated

LEMMA VisitCore ==
  ASSUME Core, NEW c \in Calls, LiftExpiredSuspension(c)
  PROVE  Core'
<1>1. user' \in Users /\ (IsErased' <=> IsErased)
  BY DEF LiftExpiredSuspension, Core, StandingTypeOK, Users, IsErased, Statuses, Standings
<1>2. pause' \in Pauses
  BY DEF LiftExpiredSuspension, Core, StandingTypeOK
<1> QED BY <1>1, <1>2, KeepOrDecide, StandingCore DEF LiftExpiredSuspension

LEMMA SuspendCore ==
  ASSUME Core, NEW c \in Calls, Suspend(c) \/ JoinBanHold(c)
  PROVE  Core'
<1>1. CASE Refuse(c)
  BY <1>1, RefuseCore
<1>2. CASE ~Refuse(c)
  <2>1. call[c].date \in Nat
    BY DEF Suspend, JoinBanHold, Core, CallOK, Dated
  <2>2. /\ Impose(c, call[c].date) /\ ~IsErased
        /\ Finish(c) /\ UNCHANGED <<deletion, hold, now>>
    BY <1>2 DEF Suspend, JoinBanHold
  <2> QED BY <2>1, <2>2, ImposeTypes, StandingCore
<1> QED BY <1>1, <1>2

\* The hold that a decision still finds pending was not cascaded away.
LEMMA DecisionCore ==
  ASSUME Core, NEW c \in Calls, ApplyRatifiedBan(c) \/ DeclineBan(c)
  PROVE  Core'
<1>1. CASE Refuse(c)
  BY <1>1, RefuseCore
<1>2. CASE ~Refuse(c)
  <2>1. PICK status \in {"ratified", "declined"} :
          /\ hold' = Decided(call[c].on, status)
          /\ Finish(c) /\ UNCHANGED <<deletion, now>>
          /\ Impose(c, Null) \/ Release(c)
          /\ IsPending(call[c].on) /\ call[c].op \in Deciding
    BY <1>2 DEF ApplyRatifiedBan, DeclineBan, ClaimsHold, Deciding
  <2>2. call[c].on \in Holds
    BY <2>1 DEF Core, CallOK, DecisionOK
  <2>3. ~IsErased
    BY <2>1, <2>2 DEF Core, NoHoldAfterErasure, IsPending
  <2>4. user' \in Users /\ pause' \in Pauses /\ verdict' \in Verdicts /\ ~IsErased'
    BY <2>1, <2>3, ImposeTypes, ReleaseTypes
  <2>5. SettledHold(status) \in HoldRows /\ SettledHold(status).status = status
    BY DEF SettledHold, NoHold, HoldRows
  <2> HIDE DEF SettledHold
  <2>6. /\ hold' \in [Holds -> HoldRows]
        /\ \A h \in Holds : hold'[h].status # "none" \/ hold'[h] = hold[h]
        /\ \A h \in Holds : hold'[h].status = "pending" => hold'[h] = hold[h]
    BY <2>1, <2>5 DEF Decided, Core, StandingTypeOK
  <2>7. RowsType
    BY <2>1, <2>4, <2>6 DEF RowsType, Core, StandingTypeOK
  <2>8. Frame
    BY <2>1, <2>3, <2>6 DEF Frame, Core, StandingTypeOK
  <2>9. OneOpenOfEach' /\ NoHoldAfterErasure'
    BY <2>1, <2>4, <2>6 DEF Core, OneOpenOfEach, NoHoldAfterErasure, IsOpen, IsPending
  <2> QED BY <2>1, <2>7, <2>8, <2>9, FinishCore
<1> QED BY <1>1, <1>2

\* Holds that are only settled, by a call or at the head of a read.
LEMMA SettlingCore ==
  ASSUME Core, (\E c \in Calls : Finish(c)) \/ UNCHANGED call,
         NEW S \in {"expired", "withdrawn"},
         hold' \in [Holds -> HoldRows],
         \A h \in Holds : hold'[h] = hold[h] \/ (IsPending(h) /\ hold'[h] = SettledHold(S)),
         UNCHANGED <<deletion, now>>,
         user' \in Users, pause' \in Pauses, verdict' \in Verdicts, IsErased' <=> IsErased
  PROVE  Core'
<1>1. SettledHold(S).status = S
  BY DEF SettledHold, NoHold
<1> HIDE DEF SettledHold
<1>2. RowsType
  BY DEF RowsType, Core, StandingTypeOK
<1>3. Frame
  BY <1>1 DEF Frame, Core, StandingTypeOK
<1>4. OneOpenOfEach' /\ NoHoldAfterErasure'
  BY <1>1 DEF Core, OneOpenOfEach, NoHoldAfterErasure, IsOpen, IsPending
<1> QED BY <1>2, <1>3, <1>4, FinishCore

LEMMA SettledRow ==
  ASSUME NEW S \in {"expired", "withdrawn", "ratified", "declined"}
  PROVE  SettledHold(S) \in HoldRows /\ SettledHold(S).status = S
BY DEF SettledHold, NoHold, HoldRows

LEMMA WithdrawnRows ==
  ASSUME Core, hold' = Withdrawn
  PROVE  /\ hold' \in [Holds -> HoldRows]
         /\ \A h \in Holds : hold'[h] = hold[h] \/ (IsPending(h) /\ hold'[h] = SettledHold("withdrawn"))
BY SettledRow DEF Withdrawn, Core, StandingTypeOK

LEMMA WithdrawCore ==
  ASSUME Core, NEW c \in Calls, WithdrawPendingHold(c) \/ LiftSuspension(c)
  PROVE  Core'
<1>1. CASE Refuse(c)
  BY <1>1, RefuseCore
<1>2. CASE WithdrawPendingHold(c)
  <2>1. user' \in Users /\ pause' \in Pauses /\ verdict' \in Verdicts /\ (IsErased' <=> IsErased)
    BY <1>2 DEF WithdrawPendingHold, Core, StandingTypeOK, Verdicts, IsErased
  <2>2. hold' = Withdrawn /\ Finish(c) /\ UNCHANGED <<deletion, now>>
    BY <1>2 DEF WithdrawPendingHold
  <2> QED BY <2>1, <2>2, WithdrawnRows, SettlingCore
<1>3. CASE LiftSuspension(c) /\ ~Refuse(c)
  <2>1. /\ Release(c) /\ ~IsErased
        /\ hold' = Withdrawn /\ Finish(c) /\ UNCHANGED <<deletion, now>>
    BY <1>3 DEF LiftSuspension
  <2> QED BY <2>1, ReleaseTypes, WithdrawnRows, SettlingCore
<1> QED BY <1>1, <1>2, <1>3

LEMMA ExpireCore ==
  ASSUME Core, ExpireDueHolds
  PROVE  Core'
<1>1. /\ hold' \in [Holds -> HoldRows]
      /\ \A h \in Holds : hold'[h] = hold[h] \/ (IsPending(h) /\ hold'[h] = SettledHold("expired"))
  BY SettledRow DEF ExpireDueHolds, Core, StandingTypeOK
<1>2. user' \in Users /\ pause' \in Pauses /\ verdict' \in Verdicts /\ (IsErased' <=> IsErased)
  BY DEF ExpireDueHolds, Core, StandingTypeOK, Verdicts, IsErased
<1> QED BY <1>1, <1>2, SettlingCore DEF ExpireDueHolds

\* The new hold is the only pending one: the lapsed one has been settled.
LEMMA OpenHoldCore ==
  ASSUME Core, NEW c \in Calls, OpenBanHold(c)
  PROVE  Core'
<1>1. CASE Refuse(c)
  BY <1>1, RefuseCore
<1>2. CASE ~Refuse(c)
  <2>1. PICK h \in Holds :
          /\ IsNext(h, hold, NoHold)
          /\ hold' = [Settled(c) EXCEPT ![h] =
               [status |-> "pending", expires |-> call[c].date, by |-> call[c].by]]
    BY <1>2 DEF OpenBanHold
  <2>2. /\ ~IsErased /\ ~PendingIndexRefuses(c)
        /\ Impose(c, call[c].date) /\ Finish(c) /\ UNCHANGED <<deletion, now>>
    BY <1>2 DEF OpenBanHold
  <2>3. call[c].date \in Nat /\ call[c].by \in Moderators
    BY DEF OpenBanHold, Core, CallOK, Dated
  <2> DEFINE fresh == [status |-> "pending", expires |-> call[c].date, by |-> call[c].by]
  <2>4. fresh \in HoldRows /\ fresh.status = "pending"
    BY <2>3 DEF HoldRows
  <2>5. hold[h].status = "none"
    BY <2>1 DEF IsNext, NoHold
  <2>6. /\ Settled(c) \in [Holds -> HoldRows]
        /\ \A g \in Holds : Settled(c)[g] = hold[g] \/ Settled(c)[g].status = "expired"
        /\ \A g \in Holds : Settled(c)[g].status # "pending"
        /\ \A g \in Holds : Settled(c)[g].status = "none" => hold[g].status = "none"
    BY <2>2, SettledRow DEF Settled, PendingIndexRefuses, Core, StandingTypeOK
  <2> HIDE DEF fresh
  <2>7. /\ hold' \in [Holds -> HoldRows]
        /\ hold'[h] = fresh
        /\ \A g \in Holds \ {h} : hold'[g] = Settled(c)[g]
    BY <2>1, <2>4, <2>6 DEF fresh
  <2>8. user' \in Users /\ pause' \in Pauses /\ verdict' \in Verdicts /\ ~IsErased'
    BY <2>2, <2>3, ImposeTypes
  <2>9. RowsType
    BY <2>2, <2>7, <2>8 DEF RowsType, Core, StandingTypeOK
  <2>10. Frame
    BY <2>2, <2>4, <2>5, <2>6, <2>7 DEF Frame, Core, StandingTypeOK
  <2>11. OneOpenOfEach' /\ NoHoldAfterErasure'
    BY <2>2, <2>6, <2>7, <2>8 DEF Core, OneOpenOfEach, NoHoldAfterErasure, IsOpen, IsPending
  <2> QED BY <2>2, <2>9, <2>10, <2>11, FinishCore
<1> QED BY <1>1, <1>2

\* The new request is the only open one.
LEMMA RequestCore ==
  ASSUME Core, NEW c \in Calls, RequestDeletion(c)
  PROVE  Core'
<1>1. CASE Refuse(c)
  BY <1>1, RefuseCore
<1>2. CASE ~Refuse(c)
  <2> DEFINE fresh == [status |-> "grace", due |-> call[c].date,
                       previous |-> RestoreStatus(call[c].seen), warnings |-> 0]
  <2>1. PICK d \in Deletions :
          IsNext(d, deletion, NoDeletion) /\ deletion' = [deletion EXCEPT ![d] = fresh]
    BY <1>2 DEF RequestDeletion
  <2>2. /\ ~IsErased /\ ~IndexRefuses
        /\ user' = Hidden /\ Keep(c) /\ Finish(c) /\ UNCHANGED <<pause, hold, now>>
    BY <1>2 DEF RequestDeletion
  <2>3. call[c].op = "requestDeletion"
    BY DEF RequestDeletion
  <2>4. RestoreStatus(call[c].seen) \in Standings /\ call[c].date \in Nat
    BY <2>3, RestoreStatusType, SeenTypes DEF Core, StandingTypeOK, CallOK, Dated
  <2>5. fresh \in DeletionRows /\ fresh.status = "grace" /\ fresh.warnings = 0
    BY <2>4 DEF DeletionRows
  <2>6. deletion[d].status = "none"
    BY <2>1 DEF IsNext, NoDeletion
  <2> HIDE DEF fresh
  <2>7. user' \in Users /\ ~IsErased'
    BY <2>2 DEF Hidden, Users, Core, StandingTypeOK, IsErased, Statuses
  <2>8. RowsType
    BY <2>1, <2>2, <2>5, <2>7, KeepOrDecide DEF RowsType, Core, StandingTypeOK
  <2>9. Frame
    BY <2>1, <2>2, <2>5, <2>6 DEF Frame, Core, StandingTypeOK
  <2>10. OneOpenOfEach' /\ NoHoldAfterErasure'
    BY <2>1, <2>2, <2>5, <2>7 DEF Core, StandingTypeOK, OneOpenOfEach, NoHoldAfterErasure,
         IsOpen, IsPending, IndexRefuses
  <2> QED BY <2>2, <2>8, <2>9, <2>10, FinishCore
<1> QED BY <1>1, <1>2

LEMMA CancelCore ==
  ASSUME Core, NEW c \in Calls, CancelDeletion(c)
  PROVE  Core'
<1>1. CASE Refuse(c)
  BY <1>1, RefuseCore
<1>2. CASE ~Refuse(c)
  <2>1. /\ deletion' = Cancelled /\ Finish(c) /\ UNCHANGED <<pause, hold, now>>
    BY <1>2 DEF CancelDeletion
  <2>2. /\ ClosedRequest("cancelled") \in DeletionRows
        /\ ClosedRequest("cancelled").status = "cancelled"
        /\ ClosedRequest("cancelled").due = 0
        /\ ClosedRequest("cancelled").warnings = 0
    BY DEF ClosedRequest, NoDeletion, DeletionRows, Standings
  <2> HIDE DEF ClosedRequest
  <2>3. GracePrevious(call[c].seen) \in Standings
    <3>1. call[c].seen \in [asked : AskedSets]
      BY SeenTypes DEF CancelDeletion, Core, StandingTypeOK
    <3> QED BY <3>1, GracePreviousType
  <2>4. user' \in Users /\ (IsErased' <=> IsErased)
    BY <1>2, <2>3 DEF CancelDeletion, Core, StandingTypeOK, Users, IsErased, Statuses, Standings
  <2>5. verdict' \in Verdicts
    BY <1>2, KeepOrDecide DEF CancelDeletion
  <2>6. /\ deletion' \in [Deletions -> DeletionRows]
        /\ \A d \in Deletions : \/ deletion'[d] = deletion[d]
                                \/ InGrace(d) /\ deletion'[d] = ClosedRequest("cancelled")
    BY <2>1, <2>2 DEF Cancelled, Core, StandingTypeOK
  <2>7. RowsType
    BY <2>1, <2>4, <2>5, <2>6 DEF RowsType, Core, StandingTypeOK
  <2>8. Frame
    BY <2>1, <2>2, <2>4, <2>6 DEF Frame, Core, StandingTypeOK, InGrace
  <2>9. OneOpenOfEach' /\ NoHoldAfterErasure'
    BY <2>1, <2>2, <2>4, <2>6 DEF Core, OneOpenOfEach, NoHoldAfterErasure, IsOpen, IsPending
  <2> QED BY <2>1, <2>7, <2>8, <2>9, FinishCore
<1> QED BY <1>1, <1>2

\* A call that goes on to its next step.
LEMMA MoveCore ==
  ASSUME Core, NEW c \in Calls,
         call' \in [Calls -> CallStates], call'[c].seen \in SeenBy(call'[c].op),
         \A b \in Calls \ {c} : call'[b] = call[b],
         RowsType, OneOpenOfEach', NoHoldAfterErasure', Frame, CallOK(call[c])'
  PROVE  Core'
<1>1. StandingTypeOK'
  BY DEF RowsType, Core, StandingTypeOK, Verdicts
<1>2. \A b \in Calls \ {c} : CallOK(call[b])'
  BY <1>1, FrameKeepsCalls
<1> QED BY <1>1, <1>2 DEF Core

LEMMA SweepSeen ==
  ASSUME NEW op \in Sweeping
  PROVE  SeenBy(op) = {Null}
BY DEF SeenBy, Sweeping, StatusReaders

\* The next step of a sweep carries the same row.
LEMMA SweepMoves ==
  ASSUME Core, NEW c \in Calls, call[c].op \in Sweeping, NEW op \in Sweeping, Step(c, op)
  PROVE  /\ call' \in [Calls -> CallStates]
         /\ call'[c].seen \in SeenBy(call'[c].op)
         /\ \A b \in Calls \ {c} : call'[b] = call[b]
         /\ call'[c].op = op /\ call'[c].on = call[c].on
<1>1. op \in Ops
  BY DEF Sweeping, Ops
<1>2. call[c] \in CallStates /\ call[c].seen \in SeenBy(call[c].op)
  BY DEF Core, StandingTypeOK
<1>3. [call[c] EXCEPT !.op = op] \in CallStates
  BY <1>1, <1>2 DEF CallStates
<1>4. call' = [call EXCEPT ![c] = [call[c] EXCEPT !.op = op]]
  BY DEF Step
<1>5. /\ call' \in [Calls -> CallStates] /\ call'[c] = [call[c] EXCEPT !.op = op]
      /\ \A b \in Calls \ {c} : call'[b] = call[b]
  BY <1>3, <1>4 DEF Core, StandingTypeOK
<1>6. /\ call'[c].op = op /\ call'[c].on = call[c].on /\ call'[c].seen = call[c].seen
  BY <1>2, <1>5 DEF CallStates
<1> QED BY <1>2, <1>5, <1>6, SweepSeen

LEMMA ClaimCore ==
  ASSUME Core, NEW c \in Calls, ClaimDeletion(c)
  PROVE  Core'
<1>1. CASE Refuse(c)
  BY <1>1, RefuseCore
<1>2. CASE ~Refuse(c)
  <2>1. /\ InGrace(call[c].on) /\ call[c].op = "claim"
        /\ deletion' = [deletion EXCEPT ![call[c].on].status = "processing"]
        /\ Step(c, "erase") /\ UNCHANGED <<user, pause, hold, now, verdict>>
    BY <1>2 DEF ClaimDeletion, ClaimsDeletion
  <2>2. /\ call[c].on \in Deletions /\ deletion[call[c].on].due <= now
    BY <2>1 DEF Core, CallOK, SweepOK, Sweeping
  <2>3. PICK d \in Deletions : d = call[c].on
    BY <2>2
  <2>4. /\ deletion' \in [Deletions -> DeletionRows]
        /\ deletion'[d] = [deletion[d] EXCEPT !.status = "processing"]
        /\ \A e \in Deletions \ {d} : deletion'[e] = deletion[e]
    BY <2>1, <2>3 DEF Core, StandingTypeOK, DeletionRows
  <2>5. /\ deletion'[d].status = "processing" /\ deletion'[d].due = deletion[d].due
        /\ deletion'[d].warnings = deletion[d].warnings
    BY <2>4 DEF Core, StandingTypeOK, DeletionRows
  <2>6. RowsType
    BY <2>1, <2>4 DEF RowsType, Core, StandingTypeOK, Verdicts
  <2>7. Frame
    BY <2>1, <2>3, <2>4, <2>5 DEF Frame, Core, StandingTypeOK, InGrace, IsErased
  <2>8. OneOpenOfEach' /\ NoHoldAfterErasure'
    BY <2>1, <2>3, <2>4, <2>5 DEF Core, OneOpenOfEach, NoHoldAfterErasure, IsOpen, IsPending,
         InGrace, IsErased
  <2>9. /\ call' \in [Calls -> CallStates] /\ call'[c].seen \in SeenBy(call'[c].op)
        /\ \A b \in Calls \ {c} : call'[b] = call[b]
        /\ call'[c].op = "erase" /\ call'[c].on = d
    BY <2>1, <2>3, SweepMoves DEF Sweeping
  <2>10. CallOK(call[c])'
    BY <2>1, <2>2, <2>3, <2>5, <2>9 DEF CallOK, DecisionOK, SweepOK, Dated, Deciding, Sweeping
  <2> QED BY <2>6, <2>7, <2>8, <2>9, <2>10, MoveCore
<1> QED BY <1>1, <1>2

LEMMA EraseCore ==
  ASSUME Core, NEW c \in Calls, EraseAccount(c)
  PROVE  Core'
<1>1. /\ call[c].op = "erase" /\ Step(c, "stamp") /\ UNCHANGED <<deletion, now, verdict>>
      /\ user' = [status |-> "erased", until |-> Null] /\ pause' = NoPause
      /\ hold' = [h \in Holds |-> NoHold]
  BY DEF EraseAccount
<1>2. /\ call[c].on \in Deletions
      /\ deletion[call[c].on].status \in {"processing", "erased"}
  BY <1>1 DEF Core, CallOK, SweepOK, Sweeping
<1>3. /\ call' \in [Calls -> CallStates] /\ call'[c].seen \in SeenBy(call'[c].op)
      /\ \A b \in Calls \ {c} : call'[b] = call[b]
      /\ call'[c].op = "stamp" /\ call'[c].on = call[c].on
  BY <1>1, SweepMoves DEF Sweeping
<1>4. IsErased'
  BY <1>1 DEF IsErased
<1>5. /\ NoHold \in HoldRows /\ NoHold.status = "none"
      /\ NoPause \in Pauses
  BY DEF NoHold, HoldRows, NoPause, Pauses, Standings
<1> HIDE DEF NoHold, NoPause
<1>6. RowsType
  BY <1>1, <1>5 DEF RowsType, Core, StandingTypeOK, Users, Statuses, Verdicts
<1>7. Frame
  BY <1>1, <1>4, <1>5 DEF Frame, Core, StandingTypeOK
<1>8. OneOpenOfEach' /\ NoHoldAfterErasure'
  BY <1>1, <1>5 DEF Core, OneOpenOfEach, NoHoldAfterErasure, IsOpen, IsPending
<1>9. CallOK(call[c])'
  BY <1>1, <1>2, <1>3, <1>4 DEF CallOK, DecisionOK, SweepOK, Dated, Deciding, Sweeping
<1> QED BY <1>3, <1>6, <1>7, <1>8, <1>9, MoveCore

LEMMA StampCore ==
  ASSUME Core, NEW c \in Calls, StampErased(c)
  PROVE  Core'
<1>1. /\ call[c].op = "stamp" /\ Finish(c) /\ UNCHANGED <<user, pause, hold, now, verdict>>
      /\ deletion' = [deletion EXCEPT ![call[c].on] = ClosedRequest("erased")]
  BY DEF StampErased
<1>2. /\ call[c].on \in Deletions /\ IsErased
      /\ deletion[call[c].on].status \in {"processing", "erased"}
  BY <1>1 DEF Core, CallOK, SweepOK, Sweeping
<1>3. /\ ClosedRequest("erased") \in DeletionRows
      /\ ClosedRequest("erased").status = "erased"
      /\ ClosedRequest("erased").due = 0 /\ ClosedRequest("erased").warnings = 0
  BY DEF ClosedRequest, NoDeletion, DeletionRows, Standings
<1> HIDE DEF ClosedRequest
<1>4. RowsType
  BY <1>1, <1>3 DEF RowsType, Core, StandingTypeOK, Verdicts
<1>5. Frame
  BY <1>1, <1>2, <1>3 DEF Frame, Core, StandingTypeOK, IsErased
<1>6. OneOpenOfEach' /\ NoHoldAfterErasure'
  BY <1>1, <1>2, <1>3 DEF Core, StandingTypeOK, OneOpenOfEach, NoHoldAfterErasure, IsOpen,
       IsPending, IsErased
<1> QED BY <1>1, <1>4, <1>5, <1>6, FinishCore

\* The claim of a warning is what keeps the count at one.
LEMMA WarnCore ==
  ASSUME Core, NEW c \in Calls, WarnUpcomingDeletion(c)
  PROVE  Core'
<1>1. CASE Refuse(c)
  BY <1>1, RefuseCore
<1>2. CASE ~Refuse(c)
  <2>1. PICK d \in Deletions :
          /\ deletion[d].warnings = 0
          /\ deletion' = [deletion EXCEPT ![d].warnings = @ + 1]
    BY <1>2 DEF WarnUpcomingDeletion, ClaimsWarning, Core, CallOK, SweepOK, Sweeping
  <2>2. Finish(c) /\ UNCHANGED <<user, pause, hold, now, verdict>>
    BY <1>2 DEF WarnUpcomingDeletion
  <2>3. /\ deletion' \in [Deletions -> DeletionRows]
        /\ \A e \in Deletions : /\ deletion'[e].status = deletion[e].status
                                /\ deletion'[e].due = deletion[e].due
        /\ deletion'[d].warnings = 1
        /\ \A e \in Deletions \ {d} : deletion'[e] = deletion[e]
    BY <2>1 DEF Core, StandingTypeOK, DeletionRows
  <2>4. RowsType
    BY <2>2, <2>3 DEF RowsType, Core, StandingTypeOK, Verdicts
  <2>5. Frame
    BY <2>2, <2>3 DEF Frame, Core, StandingTypeOK, IsErased
  <2>6. OneOpenOfEach' /\ NoHoldAfterErasure'
    BY <2>2, <2>3 DEF Core, OneOpenOfEach, NoHoldAfterErasure, IsOpen, IsPending, IsErased
  <2> QED BY <2>2, <2>4, <2>5, <2>6, FinishCore
<1> QED BY <1>1, <1>2

LEMMA LookAgainCore ==
  ASSUME Core, NEW c \in Calls, LookAgain(c)
  PROVE  Core'
<1> DEFINE r == [call[c] EXCEPT !.op = "restore", !.seen = Reads("restore")]
<1>1. /\ call[c] \in CallStates
      /\ Reads("restore") \in [status : Statuses] /\ SeenBy("restore") = [status : Statuses]
  BY ReadsType, SeenTypes DEF Core, StandingTypeOK, Ops, StatusReaders
<1>2. SeenBy("suspend") = [status : Statuses]
  BY SeenTypes DEF StatusReaders
<1>3. r \in CallStates /\ r.op = "restore" /\ r.seen = Reads("restore")
  BY <1>1, <1>2 DEF CallStates, Ops
<1>4. call' = [call EXCEPT ![c] = r]
  BY DEF LookAgain
<1> HIDE DEF r
<1>5. /\ call' \in [Calls -> CallStates]
      /\ \A b \in Calls \ {c} : call'[b] = call[b]
      /\ call'[c].op = "restore" /\ call'[c].seen \in SeenBy(call'[c].op)
  BY <1>1, <1>3, <1>4 DEF Core, StandingTypeOK
<1>6. UNCHANGED <<user, pause, deletion, hold, now, verdict>>
  BY DEF LookAgain
<1>7. RowsType /\ Frame
  BY <1>6 DEF RowsType, Frame, Core, StandingTypeOK, Verdicts, IsErased
<1>8. OneOpenOfEach' /\ NoHoldAfterErasure'
  BY <1>6 DEF Core, OneOpenOfEach, NoHoldAfterErasure, IsOpen, IsPending, IsErased
<1>9. CallOK(call[c])'
  BY <1>5 DEF CallOK, DecisionOK, SweepOK, Dated, Deciding, Sweeping
<1> QED BY <1>5, <1>7, <1>8, <1>9, MoveCore

LEMMA TickCore ==
  ASSUME Core, Tick
  PROVE  Core'
<1>1. RowsType /\ Frame
  BY DEF Tick, RowsType, Frame, Core, StandingTypeOK, Verdicts, IsErased
<1>2. OneOpenOfEach' /\ NoHoldAfterErasure'
  BY DEF Tick, Core, OneOpenOfEach, NoHoldAfterErasure, IsOpen, IsPending, IsErased
<1> QED BY <1>1, <1>2, FinishCore DEF Tick

LEMMA InitCore == Init => Core
<1> SUFFICES ASSUME Init PROVE Core
  OBVIOUS
<1>1. StandingTypeOK
  BY IdleType DEF Init, StandingTypeOK, Users, Statuses, Standings, NoPause, Pauses,
     NoDeletion, DeletionRows, NoHold, HoldRows
<1>2. OneOpenOfEach /\ NoHoldAfterErasure
  BY DEF Init, OneOpenOfEach, NoHoldAfterErasure, IsOpen, IsPending, NoDeletion, NoHold
<1>3. \A c \in Calls : CallOK(call[c])
  BY DEF Init, Idle, CallOK, DecisionOK, SweepOK, Dated, Deciding, Sweeping
<1> QED BY <1>1, <1>2, <1>3 DEF Core

LEMMA CoreStep == Core /\ [Next]_vars => Core'
<1> SUFFICES ASSUME Core, [Next]_vars PROVE Core'
  OBVIOUS
<1>1. CASE \E c \in Calls : MemberActs(c)
  BY <1>1, MemberBegins, DatedBegins, DeactivateCore, RequestCore, CancelCore, ReactivateCore,
     VisitCore DEF MemberActs
<1>2. CASE \E c \in Calls : ModeratorActs(c)
  BY <1>2, MemberBegins, DatedBegins, DecisionBegins, SuspendCore, OpenHoldCore, DecisionCore,
     LookAgainCore, WithdrawCore DEF ModeratorActs
<1>3. CASE \E c \in Calls : SweepActs(c)
  BY <1>3, SweepBegins, ClaimCore, EraseCore, StampCore, WarnCore DEF SweepActs
<1>4. CASE \E c \in Calls : Fail(c)
  BY <1>4, RefuseCore DEF Fail
<1>5. CASE ExpireDueHolds
  BY <1>5, ExpireCore
<1>6. CASE Tick
  BY <1>6, TickCore
<1>7. CASE UNCHANGED vars
  <2>1. RowsType /\ Frame
    BY <1>7 DEF vars, RowsType, Frame, Core, StandingTypeOK, Verdicts, IsErased
  <2>2. OneOpenOfEach' /\ NoHoldAfterErasure'
    BY <1>7 DEF vars, Core, OneOpenOfEach, NoHoldAfterErasure, IsOpen, IsPending, IsErased
  <2> QED BY <1>7, <2>1, <2>2, FinishCore DEF vars
<1> QED BY <1>1, <1>2, <1>3, <1>4, <1>5, <1>6, <1>7 DEF Next

\* The rows and the calls keep their types.
THEOREM StandingTypeCorrect == Spec => []StandingTypeOK
<1>1. Core => StandingTypeOK
  BY DEF Core
<1> QED BY <1>1, InitCore, CoreStep, PTL DEF Spec

\* However submissions, decisions and sweeps overlap, one deletion request is
\* open, one hold is pending and one final warning is sent.
THEOREM OneOpenOfEachHolds == Spec => []OneOpenOfEach
<1>1. Core => OneOpenOfEach
  BY DEF Core
<1> QED BY <1>1, InitCore, CoreStep, PTL DEF Spec

-----------------------------------------------------------------------------
(* What a step may do to the holds and to the requests. *)

MaySettle(h) ==
  hold'[h] # hold[h] =>
    \/ hold[h].status = "none"
    \/ IsPending(h) /\ (hold'[h].status \in {"ratified", "declined"} =>
         \E c \in Calls : /\ call[c].op \in {"ratify", "decline"} /\ call'[c].op = "none"
                          /\ call[c].by \in Moderators \ {hold[h].by})
    \/ IsErased' /\ ~IsErased

\* The decider of a hold that is still pending is not its author.
LEMMA DecisionSettles ==
  ASSUME Core, NEW c \in Calls, ApplyRatifiedBan(c) \/ DeclineBan(c), NEW h \in Holds
  PROVE  MaySettle(h)
<1>1. CASE Refuse(c)
  BY <1>1 DEF Refuse, MaySettle
<1>2. CASE ~Refuse(c)
  <2>1. PICK status \in {"ratified", "declined"} :
          /\ hold' = Decided(call[c].on, status) /\ Finish(c)
          /\ IsPending(call[c].on) /\ call[c].op \in Deciding
    BY <1>2 DEF ApplyRatifiedBan, DeclineBan, ClaimsHold, Deciding
  <2>2. call[c].on \in Holds /\ call[c].by \in Moderators \ {hold[call[c].on].by}
    BY <2>1 DEF Core, CallOK, DecisionOK
  <2>3. call'[c].op = "none"
    BY <2>1 DEF Finish, Idle, Core, StandingTypeOK
  <2>4. h # call[c].on => hold'[h] = hold[h]
    BY <2>1 DEF Decided, Core, StandingTypeOK
  <2> QED BY <2>1, <2>2, <2>3, <2>4 DEF MaySettle, Deciding
<1> QED BY <1>1, <1>2

LEMMA OpeningSettles ==
  ASSUME Core, NEW c \in Calls, OpenBanHold(c), NEW h \in Holds
  PROVE  MaySettle(h)
<1>1. CASE Refuse(c)
  BY <1>1 DEF Refuse, MaySettle
<1>2. CASE ~Refuse(c)
  <2>1. PICK g \in Holds : hold[g] = NoHold /\ \E r : hold' = [Settled(c) EXCEPT ![g] = r]
    BY <1>2 DEF OpenBanHold, IsNext
  <2>2. CASE h = g
    BY <2>1, <2>2 DEF MaySettle, NoHold
  <2>3. CASE h # g
    BY <2>1, <2>3, SettledRow DEF Settled, MaySettle
  <2> QED BY <2>2, <2>3
<1> QED BY <1>1, <1>2

LEMMA SettlingSettles ==
  ASSUME Core, NEW h \in Holds,
         \/ \E c \in Calls : WithdrawPendingHold(c) \/ LiftSuspension(c) \/ EraseAccount(c)
         \/ ExpireDueHolds
  PROVE  MaySettle(h)
<1>1. CASE \E c \in Calls : WithdrawPendingHold(c) \/ LiftSuspension(c)
  BY <1>1, SettledRow DEF WithdrawPendingHold, LiftSuspension, Refuse, Withdrawn, MaySettle
<1>2. CASE \E c \in Calls : EraseAccount(c)
  BY <1>2 DEF EraseAccount, MaySettle, IsErased, Core, NoHoldAfterErasure
<1>3. CASE ExpireDueHolds
  BY <1>3, SettledRow DEF ExpireDueHolds, MaySettle, Core, StandingTypeOK
<1> QED BY <1>1, <1>2, <1>3

\* The other actions leave the holds alone.
LEMMA HoldsUntouched ==
  ASSUME NEW c \in Calls, MemberActs(c) \/ ModeratorActs(c) \/ SweepActs(c) \/ Fail(c)
  PROVE  \/ UNCHANGED hold
         \/ ApplyRatifiedBan(c) \/ DeclineBan(c) \/ OpenBanHold(c)
         \/ WithdrawPendingHold(c) \/ LiftSuspension(c) \/ EraseAccount(c)
<1>1. CASE MemberActs(c)
  BY <1>1 DEF MemberActs, StartDeactivate, Deactivate, StartRequestDeletion, RequestDeletion,
     StartCancelDeletion, CancelDeletion, StartSignIn, ReactivateIfDeactivated, StartVisit,
     LiftExpiredSuspension, Begin, Refuse
<1>2. CASE ModeratorActs(c)
  BY <1>2 DEF ModeratorActs, StartSuspend, Suspend, StartJoinBan, JoinBanHold, StartBan,
     StartDecide, StartLift, LookAgain, StartOverturn, Begin, Refuse
<1>3. CASE SweepActs(c)
  BY <1>3 DEF SweepActs, StartErase, ClaimDeletion, StampErased, StartWarn,
     WarnUpcomingDeletion, Begin, Refuse
<1>4. CASE Fail(c)
  BY <1>4 DEF Fail, Refuse
<1> QED BY <1>1, <1>2, <1>3, <1>4

LEMMA HoldsChange ==
  ASSUME Core, [Next]_vars, NEW h \in Holds
  PROVE  MaySettle(h)
<1>1. UNCHANGED hold => MaySettle(h)
  BY DEF MaySettle
<1>2. CASE \E c \in Calls : MemberActs(c) \/ ModeratorActs(c) \/ SweepActs(c) \/ Fail(c)
  BY <1>1, <1>2, HoldsUntouched, DecisionSettles, OpeningSettles, SettlingSettles
<1>3. CASE ExpireDueHolds
  BY <1>3, SettlingSettles
<1>4. CASE Tick \/ UNCHANGED vars
  BY <1>1, <1>4 DEF Tick, vars
<1> QED BY <1>2, <1>3, <1>4 DEF Next

\* A hold is settled once, and ratified or declined by somebody who did not
\* ask for it, for any holds, moderators and overlapping calls.
THEOREM HoldsAreSettledOnceHolds == Spec => HoldsAreSettledOnce
<1>1. Core /\ [Next]_vars =>
        [\A h \in Holds : hold'[h] # hold[h] =>
           \/ hold[h].status = "none"
           \/ IsPending(h) /\ (hold'[h].status \in {"ratified", "declined"} =>
                \E c \in Calls : /\ call[c].op \in {"ratify", "decline"} /\ call'[c].op = "none"
                                 /\ call[c].by \in Moderators \ {hold[h].by})
           \/ IsErased' /\ ~IsErased]_vars
  BY HoldsChange DEF MaySettle
<1> QED BY <1>1, InitCore, CoreStep, PTL DEF Spec, HoldsAreSettledOnce

\* Nothing but the sweep writes an erased account.
LEMMA OnlyTheSweepErases ==
  ASSUME Core, ~IsErased, NEW c \in Calls,
         MemberActs(c) \/ ModeratorActs(c) \/ SweepActs(c) \/ Fail(c), ~EraseAccount(c)
  PROVE  ~IsErased'
<1>1. CASE UNCHANGED user
  BY <1>1 DEF IsErased
<1>2. CASE Impose(c, Null) \/ Release(c)
  BY <1>2, ImposeTypes, ReleaseTypes
<1>3. CASE Impose(c, call[c].date) /\ call[c].op \in Dated
  BY <1>3, ImposeTypes DEF Core, CallOK
<1>4. CASE MemberActs(c) /\ ~UNCHANGED user
  <2>1. CASE Deactivate(c) \/ RequestDeletion(c)
    BY <1>4, <2>1 DEF Deactivate, RequestDeletion, Refuse, Hidden, IsErased, Core, StandingTypeOK,
       Users, Statuses
  <2>2. CASE ReactivateIfDeactivated(c)
    <3>1. call[c].seen \in [pause : Pauses, asked : AskedSets]
      BY <2>2, SeenTypes DEF ReactivateIfDeactivated, Core, StandingTypeOK
    <3>2. call[c].seen.pause.previous \in Standings
      BY <3>1 DEF Pauses
    <3> QED BY <1>4, <2>2, <3>2 DEF ReactivateIfDeactivated, IsErased, Core, StandingTypeOK, Users,
            Standings
  <2>3. CASE CancelDeletion(c)
    <3>1. call[c].seen \in [asked : AskedSets]
      BY <2>3, SeenTypes DEF CancelDeletion, Core, StandingTypeOK
    <3>2. GracePrevious(call[c].seen) \in Standings
      BY <3>1, GracePreviousType
    <3> QED BY <1>4, <2>3, <3>2 DEF CancelDeletion, Refuse, IsErased, Core, StandingTypeOK, Users,
            Standings
  <2>4. CASE LiftExpiredSuspension(c)
    BY <1>4, <2>4 DEF LiftExpiredSuspension, IsErased
  <2> QED BY <1>4, <2>1, <2>2, <2>3, <2>4 DEF MemberActs, StartDeactivate, StartRequestDeletion,
          StartCancelDeletion, StartSignIn, StartVisit, Begin
<1>5. CASE ModeratorActs(c)
  BY <1>1, <1>2, <1>3, <1>5 DEF ModeratorActs, StartSuspend, Suspend, StartJoinBan, JoinBanHold,
     StartBan, OpenBanHold, StartDecide, ApplyRatifiedBan, DeclineBan, StartLift, LookAgain,
     LiftSuspension, StartOverturn, WithdrawPendingHold, Begin, Refuse, Dated
<1>6. CASE SweepActs(c) \/ Fail(c)
  BY <1>1, <1>6 DEF SweepActs, StartErase, ClaimDeletion, StampErased, StartWarn,
     WarnUpcomingDeletion, Fail, Begin, Refuse
<1> QED BY <1>1, <1>4, <1>5, <1>6

\* A request that was cancelled is nobody's row any more.
LEMMA CancelledStays ==
  ASSUME Core, [Next]_vars, NEW d \in Deletions, deletion[d].status = "cancelled"
  PROVE  deletion'[d].status = "cancelled"
<1>1. CASE UNCHANGED deletion
  BY <1>1
<1>2. CASE \E c \in Calls : RequestDeletion(c) \/ CancelDeletion(c)
  BY <1>2 DEF RequestDeletion, CancelDeletion, Refuse, Cancelled, IsNext, NoDeletion, InGrace,
     Core, StandingTypeOK
<1>3. CASE \E c \in Calls : ClaimDeletion(c) \/ StampErased(c)
  BY <1>3 DEF ClaimDeletion, ClaimsDeletion, StampErased, Refuse, InGrace, Core, StandingTypeOK,
     CallOK, SweepOK, Sweeping
<1>4. CASE \E c \in Calls : WarnUpcomingDeletion(c)
  BY <1>4 DEF WarnUpcomingDeletion, ClaimsWarning, Refuse, InGrace, Core, StandingTypeOK,
     DeletionRows
<1>5. CASE \E c \in Calls : MemberActs(c) /\ ~RequestDeletion(c) /\ ~CancelDeletion(c)
  BY <1>1, <1>5 DEF MemberActs, StartDeactivate, Deactivate, StartRequestDeletion,
     StartCancelDeletion, StartSignIn, ReactivateIfDeactivated, StartVisit,
     LiftExpiredSuspension, Begin, Refuse
<1>6. CASE \E c \in Calls : ModeratorActs(c)
  BY <1>1, <1>6 DEF ModeratorActs, StartSuspend, Suspend, StartJoinBan, JoinBanHold, StartBan,
     OpenBanHold, StartDecide, ApplyRatifiedBan, DeclineBan, StartLift, LookAgain,
     LiftSuspension, StartOverturn, WithdrawPendingHold, Begin, Refuse
<1>7. CASE \E c \in Calls : Fail(c) \/ StartErase(c) \/ StartWarn(c) \/ EraseAccount(c)
  BY <1>1, <1>7 DEF Fail, StartErase, StartWarn, EraseAccount, Begin, Refuse
<1>8. CASE ExpireDueHolds \/ Tick \/ UNCHANGED vars
  BY <1>1, <1>8 DEF ExpireDueHolds, Tick, vars
<1> QED BY <1>2, <1>3, <1>4, <1>5, <1>6, <1>7, <1>8 DEF Next, SweepActs

\* An account is erased only for a request that was claimed when it was due, and
\* a request cancelled in time is never taken up again, whatever the overlap of
\* the member's calls and the sweeps.
THEOREM OnlyAStandingRequestErasesHolds == Spec => OnlyAStandingRequestErases
<1>1. ASSUME Core, [Next]_vars, IsErased', ~IsErased
      PROVE  \E d \in Deletions : deletion[d].status = "processing" /\ deletion[d].due <= now
  <2>1. ~ (ExpireDueHolds \/ Tick \/ UNCHANGED vars)
    BY <1>1 DEF ExpireDueHolds, Tick, vars, IsErased
  <2>2. PICK c \in Calls : EraseAccount(c)
    BY <1>1, <2>1, OnlyTheSweepErases DEF Next
  <2>3. SweepOK(call[c]) /\ call[c].op = "erase"
    BY <1>1, <2>2 DEF EraseAccount, Core, CallOK
  <2> QED BY <1>1, <2>3 DEF SweepOK, Sweeping
<1>2. Core /\ [Next]_vars =>
        [/\ IsErased' /\ ~IsErased =>
              \E d \in Deletions : deletion[d].status = "processing" /\ deletion[d].due <= now
         /\ \A d \in Deletions :
              deletion[d].status = "cancelled" => deletion'[d].status = "cancelled"]_vars
  BY <1>1, CancelledStays
<1> QED BY <1>2, InitCore, CoreStep, PTL DEF Spec, OnlyAStandingRequestErases

-----------------------------------------------------------------------------
(* The verdict: a commit that was not overtaken wrote from the rows as they
   were. *)

Free == {"free", "sanctioned"}

LEMMA NotOvertaken ==
  ASSUME NEW c \in Calls, NEW d \in Free, Keep(c) \/ Decide(c, d), verdict' # "overtaken"
  PROVE  call[c].seen = Reads(call[c].op) /\ verdict # "overtaken"
BY DEF Keep, Decide, IsOvertaken

LEMMA DecisionStands ==
  ASSUME Core, NEW c \in Calls, NEW d \in Free, Decide(c, d), verdict' \in Free
  PROVE  /\ verdict' = d /\ verdict \in Free
         /\ pause.state = "open" \/ \A e \in Deletions : ~IsOpen(e)
         /\ call[c].seen = Reads(call[c].op)
BY DEF Decide, IsOvertaken, IsUnsynced, Free, Core, StandingTypeOK

LEMMA SeenStatus ==
  ASSUME NEW c \in Calls, call[c].op \in StatusReaders, call[c].seen = Reads(call[c].op)
  PROVE  call[c].seen.status = user.status
BY ReadsOf

\* The commits of moderators, by what they write.
Sanctions(c) == /\ call[c].op \in StatusReaders /\ ~IsErased /\ UNCHANGED deletion
                /\ \/ Impose(c, call[c].date) /\ call[c].op \in Dated
                   \/ Impose(c, Null) /\ ApplyRatifiedBan(c) /\ ~Refuse(c)
                   \/ Release(c)

LEMMA ModeratorWrites ==
  ASSUME Core, NEW c \in Calls, ModeratorActs(c)
  PROVE  UNCHANGED <<user, pause, deletion, verdict>> \/ Sanctions(c)
<1>1. CASE Suspend(c) \/ JoinBanHold(c) \/ OpenBanHold(c) \/ LiftSuspension(c)
  BY <1>1 DEF Suspend, JoinBanHold, OpenBanHold, LiftSuspension, Sanctions, Refuse, StatusReaders,
     Dated
<1>2. CASE ApplyRatifiedBan(c) \/ DeclineBan(c)
  <2>1. ~Refuse(c) => ~IsErased
    BY <1>2 DEF ApplyRatifiedBan, DeclineBan, ClaimsHold, Core, CallOK, DecisionOK, Deciding,
       NoHoldAfterErasure, IsPending
  <2> QED BY <1>2, <2>1 DEF ApplyRatifiedBan, DeclineBan, Sanctions, Refuse, StatusReaders
<1>3. CASE \/ StartSuspend(c) \/ StartJoinBan(c) \/ StartBan(c) \/ StartDecide(c)
           \/ StartLift(c) \/ StartOverturn(c) \/ LookAgain(c) \/ WithdrawPendingHold(c)
  BY <1>3 DEF StartSuspend, StartJoinBan, StartBan, StartDecide, StartLift, StartOverturn,
     LookAgain, WithdrawPendingHold, Begin
<1> QED BY <1>1, <1>2, <1>3 DEF ModeratorActs

LEMMA MemberWrites ==
  ASSUME NEW c \in Calls, MemberActs(c)
  PROVE  \/ UNCHANGED <<user, pause, deletion, verdict>>
         \/ ~Refuse(c) /\ (\/ Deactivate(c) \/ RequestDeletion(c) \/ CancelDeletion(c)
                           \/ ReactivateIfDeactivated(c) \/ LiftExpiredSuspension(c))
BY DEF MemberActs, StartDeactivate, StartRequestDeletion, StartCancelDeletion, StartSignIn,
   StartVisit, Begin, Refuse

LEMMA SweepWrites ==
  ASSUME NEW c \in Calls, SweepActs(c)
  PROVE  \/ UNCHANGED <<user, pause, deletion, verdict>>
         \/ ~Refuse(c) /\ (ClaimDeletion(c) \/ WarnUpcomingDeletion(c))
         \/ EraseAccount(c) \/ StampErased(c)
BY DEF SweepActs, StartErase, StartWarn, Begin, Refuse

\* What the sweeps leave of the standing.
LEMMA SweepEffect ==
  ASSUME Core, NEW c \in Calls, SweepActs(c)
  PROVE  \/ UNCHANGED <<user, pause, deletion, verdict>>
         \/ IsErased'
         \/ /\ UNCHANGED <<user, pause, verdict>>
            /\ \A d \in Deletions : IsOpen(d)' <=> IsOpen(d)
            /\ \/ \E d \in Deletions : deletion'[d].status = "processing"
               \/ \A d \in Deletions : /\ deletion'[d].status = deletion[d].status
                                       /\ deletion'[d].previous = deletion[d].previous
<1>1. CASE ClaimDeletion(c) /\ ~Refuse(c)
  <2>1. PICK d \in Deletions :
          InGrace(d) /\ deletion' = [deletion EXCEPT ![d].status = "processing"]
    BY <1>1 DEF ClaimDeletion, ClaimsDeletion, Core, CallOK, SweepOK, Sweeping
  <2>2. deletion'[d].status = "processing" /\ \A e \in Deletions \ {d} : deletion'[e] = deletion[e]
    BY <2>1 DEF Core, StandingTypeOK, DeletionRows
  <2> QED BY <1>1, <2>1, <2>2 DEF ClaimDeletion, InGrace, IsOpen
<1>2. CASE WarnUpcomingDeletion(c) /\ ~Refuse(c)
  <2>1. PICK d \in Deletions : deletion' = [deletion EXCEPT ![d].warnings = @ + 1]
    BY <1>2 DEF WarnUpcomingDeletion, ClaimsWarning, Core, CallOK, SweepOK, Sweeping
  <2>2. \A e \in Deletions : /\ deletion'[e].status = deletion[e].status
                             /\ deletion'[e].previous = deletion[e].previous
    BY <2>1 DEF Core, StandingTypeOK, DeletionRows
  <2> QED BY <1>2, <2>2 DEF WarnUpcomingDeletion, IsOpen
<1>3. CASE EraseAccount(c)
  BY <1>3 DEF EraseAccount, IsErased
<1>4. CASE StampErased(c)
  BY <1>4 DEF StampErased, IsErased, Core, CallOK, SweepOK
<1> QED BY <1>1, <1>2, <1>3, <1>4, SweepWrites

-----------------------------------------------------------------------------
(* HiddenWhileLeaving. *)

Leaving == pause.state = "open" \/ \E d \in Deletions : IsOpen(d)

LEMMA HiddenSanction ==
  ASSUME Core, HiddenWhileLeaving, NEW c \in Calls, Sanctions(c)
  PROVE  HiddenWhileLeaving'
<1> SUFFICES ASSUME verdict' # "overtaken", Leaving'
             PROVE  user'.status \in {"deactivated", "erased"}
  BY DEF HiddenWhileLeaving, Leaving
<1>1. PICK status \in {"active", "suspended"}, d \in Free :
        /\ user'.status = Kept(c, status)
        /\ pause' = pause \/ pause' = [pause EXCEPT !.previous = status]
        /\ Decide(c, d)
  BY DEF Sanctions, Impose, Release, SyncDeactivationPreviousStatus, Free
<1>2. verdict # "overtaken" /\ call[c].seen.status = user.status
  BY <1>1, NotOvertaken, SeenStatus DEF Sanctions
<1>3. Leaving
  BY <1>1 DEF Sanctions, Leaving, IsOpen, Core, StandingTypeOK, Pauses
<1>4. user.status = "deactivated"
  BY <1>2, <1>3 DEF HiddenWhileLeaving, Leaving, Sanctions, IsErased
<1> QED BY <1>1, <1>2, <1>4 DEF Kept

LEMMA HiddenMember ==
  ASSUME Core, HiddenWhileLeaving, NEW c \in Calls, MemberActs(c)
  PROVE  HiddenWhileLeaving'
<1> SUFFICES ASSUME verdict' # "overtaken", Leaving'
             PROVE  user'.status \in {"deactivated", "erased"}
  BY DEF HiddenWhileLeaving, Leaving
<1>1. CASE UNCHANGED <<user, pause, deletion, verdict>>
  BY <1>1 DEF HiddenWhileLeaving, Leaving, IsOpen
<1>2. CASE ~Refuse(c) /\ (Deactivate(c) \/ RequestDeletion(c))
  BY <1>2 DEF Deactivate, RequestDeletion, Hidden, Core, StandingTypeOK, Users
<1>3. CASE ~Refuse(c) /\ CancelDeletion(c)
  <2>1. \A d \in Deletions : ~IsOpen(d)'
    BY <1>3 DEF CancelDeletion, Cancelled, ClosedRequest, NoDeletion, IsOpen, InGrace, Core,
       OneOpenOfEach
  <2>2. pause.state = "open" /\ UNCHANGED <<user, verdict>>
    BY <1>3, <2>1 DEF CancelDeletion, Leaving
  <2> QED BY <2>2 DEF HiddenWhileLeaving
<1>4. CASE ReactivateIfDeactivated(c)
  <2>1. pause'.state # "open" /\ UNCHANGED deletion
    BY <1>4 DEF ReactivateIfDeactivated, Core, StandingTypeOK, Pauses
  <2>2. \E d \in Deletions : IsOpen(d)
    BY <2>1 DEF Leaving, IsOpen
  <2>3. CASE user.status = "deactivated"
    <3>1. Keep(c) /\ call[c].op = "signIn" /\ call[c].seen.asked = {}
      BY <1>4, <2>3 DEF ReactivateIfDeactivated, Core, CallOK
    <3>2. call[c].seen.asked = Asked
      BY <3>1, NotOvertaken, ReadsOf DEF Free
    <3> QED BY <2>2, <3>1, <3>2 DEF Asked
  <2>4. CASE user.status # "deactivated"
    BY <1>4, <2>2, <2>4 DEF ReactivateIfDeactivated, HiddenWhileLeaving
  <2> QED BY <2>3, <2>4
<1>5. CASE LiftExpiredSuspension(c)
  <2>1. Leaving
    BY <1>5 DEF LiftExpiredSuspension, Leaving, IsOpen
  <2>2. verdict # "overtaken"
    BY <1>5, NotOvertaken DEF LiftExpiredSuspension, Free
  <2> QED BY <1>5, <2>1, <2>2 DEF LiftExpiredSuspension, HiddenWhileLeaving, Leaving
<1> QED BY <1>1, <1>2, <1>3, <1>4, <1>5, MemberWrites

LEMMA HiddenSweep ==
  ASSUME Core, HiddenWhileLeaving, NEW c \in Calls, SweepActs(c)
  PROVE  HiddenWhileLeaving'
<1>1. CASE UNCHANGED <<user, pause, deletion, verdict>>
  BY <1>1 DEF HiddenWhileLeaving, IsOpen
<1>2. CASE IsErased'
  BY <1>2 DEF HiddenWhileLeaving, IsErased
<1>3. CASE UNCHANGED <<user, pause, verdict>> /\ \A d \in Deletions : IsOpen(d)' <=> IsOpen(d)
  BY <1>3 DEF HiddenWhileLeaving
<1> QED BY <1>1, <1>2, <1>3, SweepEffect

\* Steps that concern none of these rows.
LEMMA OtherSteps ==
  ASSUME [Next]_vars
  PROVE  \/ UNCHANGED <<user, pause, deletion, verdict>>
         \/ \E c \in Calls : MemberActs(c) \/ ModeratorActs(c) \/ SweepActs(c)
BY DEF Next, vars, Fail, Refuse, ExpireDueHolds, Tick

LEMMA HiddenStep == Core /\ HiddenWhileLeaving /\ [Next]_vars => HiddenWhileLeaving'
<1> SUFFICES ASSUME Core, HiddenWhileLeaving, [Next]_vars PROVE HiddenWhileLeaving'
  OBVIOUS
<1>1. CASE UNCHANGED <<user, pause, deletion, verdict>>
  BY <1>1 DEF HiddenWhileLeaving, IsOpen
<1>2. CASE \E c \in Calls : ModeratorActs(c)
  BY <1>1, <1>2, ModeratorWrites, HiddenSanction
<1>3. CASE \E c \in Calls : MemberActs(c) \/ SweepActs(c)
  BY <1>3, HiddenMember, HiddenSweep
<1> QED BY <1>1, <1>2, <1>3, OtherSteps

LEMMA HiddenInit == Init => HiddenWhileLeaving
BY DEF Init, HiddenWhileLeaving, NoPause, NoDeletion, IsOpen

\* Whatever moderators and the clock do, a member who paused or asked to be
\* erased stays hidden, as long as no commit wrote from rows that had changed.
THEOREM HiddenWhileLeavingHolds == Spec => []HiddenWhileLeaving
BY InitCore, CoreStep, HiddenInit, HiddenStep, PTL DEF Spec

-----------------------------------------------------------------------------
(* SanctionSurvivesLeaving. *)

Standing == Core /\ HiddenWhileLeaving /\ SanctionSurvivesLeaving

LEMMA SurvivesSanction ==
  ASSUME Standing, NEW c \in Calls, Sanctions(c)
  PROVE  SanctionSurvivesLeaving'
<1> SUFFICES ASSUME verdict' \in Free
             PROVE  SanctionSurvivesLeaving'
  BY DEF SanctionSurvivesLeaving, Free
<1>1. PICK status \in {"active", "suspended"}, d \in Free :
        /\ user'.status = Kept(c, status)
        /\ pause' = IF pause.state = "open" THEN [pause EXCEPT !.previous = status] ELSE pause
        /\ Decide(c, d)
        /\ status = "suspended" <=> d = "sanctioned"
  BY DEF Sanctions, Impose, Release, SyncDeactivationPreviousStatus, Free
<1>2. /\ verdict' = d /\ verdict \in Free
      /\ pause.state = "open" \/ \A e \in Deletions : ~IsOpen(e)
      /\ call[c].seen = Reads(call[c].op)
  BY <1>1, DecisionStands DEF Standing
<1>3. call[c].seen.status = user.status
  BY <1>2, SeenStatus DEF Sanctions
<1>4. CASE user.status = "deactivated"
  <2>1. pause.state = "open"
    BY <1>2, <1>4 DEF Standing, SanctionSurvivesLeaving, Free, IsOpen, InGrace, Standings
  <2>2. pause'.state = "open" /\ pause'.previous = status
    BY <1>1, <2>1 DEF Standing, Core, StandingTypeOK, Pauses
  <2>3. user'.status = "deactivated"
    BY <1>1, <1>3, <1>4 DEF Kept
  <2> QED BY <1>1, <1>2, <2>2, <2>3 DEF SanctionSurvivesLeaving, Standings
<1>5. CASE user.status # "deactivated"
  <2>1. user'.status = status
    BY <1>1, <1>3, <1>5 DEF Kept
  <2> QED BY <1>1, <1>2, <2>1 DEF SanctionSurvivesLeaving, Standings
<1> QED BY <1>4, <1>5

\* What a handler takes for the recorded status is that of the request in grace.
LEMMA GraceOf ==
  ASSUME Core, NEW d \in Deletions, InGrace(d), NEW seen, seen.asked = Asked
  PROVE  GracePrevious(seen) = deletion[d].previous
<1> DEFINE row == [status |-> deletion[d].status, previous |-> deletion[d].previous]
<1> DEFINE rows == {a \in seen.asked : a.status = "grace"}
<1>1. rows = {row}
  BY DEF Asked, Core, OneOpenOfEach, IsOpen, InGrace
<1>2. row.previous = deletion[d].previous
  OBVIOUS
<1>3. GracePrevious(seen) = IF rows = {} THEN "active" ELSE (CHOOSE a \in rows : TRUE).previous
  BY DEF GracePrevious
<1> HIDE DEF row, rows
<1>4. (CHOOSE a \in {row} : TRUE) = row
  OBVIOUS
<1> QED BY <1>1, <1>2, <1>3, <1>4

\* The status recorded by a leave that was not overtaken agrees with the verdict.
LEMMA RecordedStatus ==
  ASSUME Standing, ~IsErased, verdict \in Free,
         NEW seen, seen = [status |-> user.status, pause |-> pause, asked |-> Asked],
         user.status = "deactivated" /\ pause.state # "open" =>
           \A d \in Deletions : deletion[d].status # "processing"
  PROVE  \/ RestoreStatus(seen) = "suspended" <=> verdict = "sanctioned"
         \/ pause.state = "open" /\ \E d \in Deletions : deletion[d].status = "processing"
<1>1. user.status \in Standings \cup {"deactivated"}
  BY DEF Standing, Core, StandingTypeOK, Users, Statuses, IsErased
<1>2. CASE user.status # "deactivated"
  BY <1>1, <1>2 DEF RestoreStatus, Standing, SanctionSurvivesLeaving, Free, Standings
<1>3. CASE user.status = "deactivated" /\ pause.state = "open"
  BY <1>3 DEF RestoreStatus, Standing, SanctionSurvivesLeaving, Free, Standings
<1>4. CASE user.status = "deactivated" /\ pause.state # "open"
  <2>1. PICK d \in Deletions :
          InGrace(d) /\ (deletion[d].previous = "suspended" <=> verdict = "sanctioned")
    BY <1>4 DEF Standing, SanctionSurvivesLeaving, Free
  <2>3. GracePrevious(seen) = deletion[d].previous
    BY <2>1, GraceOf DEF Standing
  <2> QED BY <1>4, <2>1, <2>3 DEF RestoreStatus
<1> QED BY <1>2, <1>3, <1>4

LEMMA SurvivesLeave ==
  ASSUME Standing, NEW c \in Calls, Deactivate(c) \/ RequestDeletion(c), ~Refuse(c)
  PROVE  SanctionSurvivesLeaving'
<1> SUFFICES ASSUME verdict' \in Free
             PROVE  SanctionSurvivesLeaving'
  BY DEF SanctionSurvivesLeaving, Free
<1>1. /\ user'.status = "deactivated" /\ ~IsErased /\ Keep(c)
      /\ call[c].op \in {"deactivate", "requestDeletion"}
  BY DEF Deactivate, RequestDeletion, Hidden, Standing, Core, StandingTypeOK, Users
<1>2. /\ call[c].seen = [status |-> user.status, pause |-> pause, asked |-> Asked]
      /\ verdict' = verdict
  <2>1. call[c].seen = Reads(call[c].op)
    BY <1>1, NotOvertaken DEF Free
  <2>2. verdict' = verdict
    BY <1>1 DEF Keep, Free
  <2> QED BY <1>1, <2>1, <2>2, ReadsOf
<1>3. CASE Deactivate(c)
  <2>1. /\ pause' = [state |-> "open", previous |-> RestoreStatus(call[c].seen)]
        /\ deletion' = deletion
    BY <1>3 DEF Deactivate
  <2>2. pause'.state = "open" /\ pause'.previous = RestoreStatus(call[c].seen)
    BY <2>1
  <2>3. CASE \E d \in Deletions : deletion[d].status = "processing"
    BY <1>1, <2>1, <2>3 DEF SanctionSurvivesLeaving, Standings
  <2>4. CASE \A d \in Deletions : deletion[d].status # "processing"
    <3>1. RestoreStatus(call[c].seen) = "suspended" <=> verdict = "sanctioned"
      BY <1>1, <1>2, <2>4, RecordedStatus
    <3> QED BY <1>1, <1>2, <2>2, <3>1 DEF SanctionSurvivesLeaving, Standings
  <2> QED BY <2>3, <2>4
<1>4. CASE RequestDeletion(c)
  <2> DEFINE fresh == [status |-> "grace", due |-> call[c].date,
                       previous |-> RestoreStatus(call[c].seen), warnings |-> 0]
  <2>1. /\ \A d \in Deletions : ~IsOpen(d)
        /\ UNCHANGED pause
        /\ \E d \in Deletions : deletion' = [deletion EXCEPT ![d] = fresh]
    BY <1>4 DEF RequestDeletion, IndexRefuses
  <2>2. fresh.status = "grace" /\ fresh.previous = RestoreStatus(call[c].seen)
    OBVIOUS
  <2>3. RestoreStatus(call[c].seen) = "suspended" <=> verdict = "sanctioned"
    BY <1>1, <1>2, <2>1, RecordedStatus DEF IsOpen
  <2> HIDE DEF fresh
  <2>4. PICK d \in Deletions : deletion'[d] = fresh
    BY <2>1 DEF Standing, Core, StandingTypeOK
  <2>5. CASE pause.state = "open"
    <3>1. user.status = "deactivated"
      BY <1>1, <1>2, <2>5 DEF Standing, HiddenWhileLeaving, IsErased, Free
    <3> QED BY <1>1, <1>2, <2>1, <2>5, <3>1 DEF Standing, SanctionSurvivesLeaving, Free, IsOpen,
            InGrace, Standings
  <2>6. CASE pause.state # "open"
    BY <1>1, <1>2, <2>1, <2>2, <2>3, <2>4, <2>6 DEF SanctionSurvivesLeaving, InGrace, Standings
  <2> QED BY <2>5, <2>6
<1> QED BY <1>3, <1>4

LEMMA SurvivesCancel ==
  ASSUME Standing, NEW c \in Calls, CancelDeletion(c), ~Refuse(c)
  PROVE  SanctionSurvivesLeaving'
<1> SUFFICES ASSUME verdict' \in Free
             PROVE  SanctionSurvivesLeaving'
  BY DEF SanctionSurvivesLeaving, Free
<1>1. PICK d \in Deletions : InGrace(d)
  BY DEF CancelDeletion
<1>2. \A e \in Deletions : deletion[e].status # "processing"
  BY <1>1 DEF Standing, Core, OneOpenOfEach, IsOpen, InGrace
<1>3. UNCHANGED pause
  BY DEF CancelDeletion
<1>4. CASE pause.state # "open" /\ user.status = "deactivated"
  <2>1. Keep(c) /\ user'.status = GracePrevious(call[c].seen) /\ call[c].op = "cancelDeletion"
    BY <1>4 DEF CancelDeletion, Standing, Core, StandingTypeOK, Users
  <2>2. verdict' = verdict /\ call[c].seen = [asked |-> Asked]
    BY <2>1, NotOvertaken, ReadsOf DEF Keep, Free
  <2>3. user'.status = deletion[d].previous
    BY <1>1, <2>1, <2>2, GraceOf DEF Standing
  <2>4. deletion[d].previous = "suspended" <=> verdict = "sanctioned"
    BY <1>1, <1>2, <1>4, <2>2 DEF Standing, Core, OneOpenOfEach, IsOpen, InGrace,
       SanctionSurvivesLeaving, Free
  <2>5. deletion[d].previous \in Standings
    BY DEF Standing, Core, StandingTypeOK, DeletionRows
  <2> QED BY <2>2, <2>3, <2>4, <2>5 DEF SanctionSurvivesLeaving, Standings
<1>5. CASE ~(pause.state # "open" /\ user.status = "deactivated")
  <2>1. UNCHANGED <<user, verdict>>
    BY <1>5 DEF CancelDeletion
  <2> QED BY <1>2, <1>3, <1>5, <2>1 DEF Standing, SanctionSurvivesLeaving, Free, Standings
<1> QED BY <1>4, <1>5

LEMMA SurvivesReturn ==
  ASSUME Standing, NEW c \in Calls, ReactivateIfDeactivated(c) \/ LiftExpiredSuspension(c)
  PROVE  SanctionSurvivesLeaving'
<1> SUFFICES ASSUME verdict' \in Free
             PROVE  SanctionSurvivesLeaving'
  BY DEF SanctionSurvivesLeaving, Free
<1>1. CASE ReactivateIfDeactivated(c) /\ user.status = "deactivated"
  <2>1. Keep(c) /\ user'.status = call[c].seen.pause.previous /\ call[c].op = "signIn"
    BY <1>1 DEF ReactivateIfDeactivated, Standing, Core, StandingTypeOK, Users
  <2>2. verdict' = verdict /\ call[c].seen = [pause |-> pause, asked |-> Asked]
    BY <2>1, NotOvertaken, ReadsOf DEF Keep, Free
  <2>3. call[c].seen.pause.state = "open" /\ call[c].seen.asked = {}
    BY <2>1 DEF Standing, Core, CallOK
  <2>4. pause.state = "open" /\ Asked = {} /\ user'.status = pause.previous
    BY <2>1, <2>2, <2>3
  <2>5. \A d \in Deletions : ~IsOpen(d)
    BY <2>4 DEF Asked
  <2>6. pause.previous = "suspended" <=> verdict = "sanctioned"
    BY <1>1, <2>2, <2>4, <2>5 DEF Standing, SanctionSurvivesLeaving, Free, IsOpen
  <2>7. pause.previous \in Standings
    BY DEF Standing, Core, StandingTypeOK, Pauses
  <2> QED BY <2>2, <2>4, <2>6, <2>7 DEF SanctionSurvivesLeaving, Standings
<1>2. CASE ReactivateIfDeactivated(c) /\ user.status # "deactivated"
  BY <1>2 DEF ReactivateIfDeactivated, Standing, SanctionSurvivesLeaving, Free
<1>3. CASE LiftExpiredSuspension(c) /\ user.status = "suspended"
  <2>1. verdict' = "free" /\ user'.status = "active"
    BY <1>3, DecisionStands DEF LiftExpiredSuspension, Standing, Free
  <2> QED BY <2>1 DEF SanctionSurvivesLeaving
<1>4. CASE LiftExpiredSuspension(c) /\ user.status # "suspended"
  BY <1>4 DEF LiftExpiredSuspension, Standing, SanctionSurvivesLeaving, Free, InGrace
<1> QED BY <1>1, <1>2, <1>3, <1>4

LEMMA SurvivesIdle ==
  ASSUME SanctionSurvivesLeaving, UNCHANGED <<user, pause, deletion, verdict>>
  PROVE  SanctionSurvivesLeaving'
BY DEF SanctionSurvivesLeaving, InGrace

LEMMA SurvivesSweep ==
  ASSUME Standing, NEW c \in Calls, SweepActs(c)
  PROVE  SanctionSurvivesLeaving'
<1>1. CASE UNCHANGED <<user, pause, deletion, verdict>>
  BY <1>1, SurvivesIdle DEF Standing
<1>2. CASE IsErased'
  BY <1>2 DEF SanctionSurvivesLeaving, IsErased, Standings
<1>3. CASE /\ UNCHANGED <<user, pause, verdict>>
           /\ \E d \in Deletions : deletion'[d].status = "processing"
  BY <1>3 DEF Standing, SanctionSurvivesLeaving, Standings
<1>4. CASE /\ UNCHANGED <<user, pause, verdict>>
           /\ \A d \in Deletions : /\ deletion'[d].status = deletion[d].status
                                   /\ deletion'[d].previous = deletion[d].previous
  BY <1>4 DEF Standing, SanctionSurvivesLeaving, Standings, InGrace
<1> QED BY <1>1, <1>2, <1>3, <1>4, SweepEffect DEF Standing

LEMMA SurvivesStep == Standing /\ [Next]_vars => SanctionSurvivesLeaving'
<1> SUFFICES ASSUME Standing, [Next]_vars PROVE SanctionSurvivesLeaving'
  OBVIOUS
<1>1. CASE UNCHANGED <<user, pause, deletion, verdict>>
  BY <1>1, SurvivesIdle DEF Standing
<1>2. CASE \E c \in Calls : ModeratorActs(c)
  BY <1>1, <1>2, ModeratorWrites, SurvivesSanction DEF Standing
<1>3. CASE \E c \in Calls : MemberActs(c)
  BY <1>1, <1>3, MemberWrites, SurvivesLeave, SurvivesCancel, SurvivesReturn
<1>4. CASE \E c \in Calls : SweepActs(c)
  BY <1>4, SurvivesSweep
<1> QED BY <1>1, <1>2, <1>3, <1>4, OtherSteps

LEMMA SurvivesInit == Init => SanctionSurvivesLeaving
BY DEF Init, SanctionSurvivesLeaving, Standings

\* Pausing, asking for erasure and coming back, overlapping with every decision
\* of moderators, neither launders a sanction away nor re-applies a lifted one.
THEOREM SanctionSurvivesLeavingHolds == Spec => []SanctionSurvivesLeaving
<1>1. Init => Standing
  BY InitCore, HiddenInit, SurvivesInit DEF Standing
<1>2. Standing /\ [Next]_vars => Standing'
  BY CoreStep, HiddenStep, SurvivesStep DEF Standing
<1>3. Standing => SanctionSurvivesLeaving
  BY DEF Standing
<1> QED BY <1>1, <1>2, <1>3, PTL DEF Spec

-----------------------------------------------------------------------------
(* BansAreRatified. *)

\* A ratified hold stays ratified for as long as the account exists.
LEMMA RatifiedStays ==
  ASSUME Core, [Next]_vars, ~IsErased', NEW h \in Holds, hold[h].status = "ratified"
  PROVE  hold'[h].status = "ratified"
<1>1. MaySettle(h)
  BY HoldsChange
<1> QED BY <1>1 DEF MaySettle, IsPending

LEMMA EndlessSanction ==
  ASSUME Core, EndlessIsRatified, NEW c \in Calls, Sanctions(c)
  PROVE  EndlessIsRatified'
<1> SUFFICES ASSUME verdict' = "sanctioned", user'.until = Null
             PROVE  \E h \in Holds : hold'[h].status = "ratified"
  BY DEF EndlessIsRatified
<1>1. ~Release(c)
  BY DecisionStands DEF Release, Free
<1>2. CASE Impose(c, call[c].date) /\ call[c].op \in Dated
  BY <1>2, AccountAssumption DEF Impose, Core, CallOK
<1>3. CASE Impose(c, Null) /\ ApplyRatifiedBan(c) /\ ~Refuse(c)
  BY <1>3, SettledRow DEF ApplyRatifiedBan, Decided, Core, StandingTypeOK, CallOK, DecisionOK,
     Deciding
<1> QED BY <1>1, <1>2, <1>3 DEF Sanctions

\* The others leave the end of a sanction alone, or lift it.
LEMMA EndlessMember ==
  ASSUME Core, EndlessIsRatified, NEW c \in Calls, MemberActs(c),
         verdict' = "sanctioned", user'.until = Null, ~IsErased'
  PROVE  verdict = "sanctioned" /\ user.until = Null /\ ~IsErased
<1>1. ~LiftExpiredSuspension(c) \/ UNCHANGED <<user, verdict>>
  BY DecisionStands DEF LiftExpiredSuspension, Free
<1>2. verdict = "sanctioned"
  BY <1>1, MemberWrites DEF Deactivate, RequestDeletion, CancelDeletion, ReactivateIfDeactivated,
     Keep
<1>3. user'.until = user.until /\ ~IsErased
  BY <1>1, MemberWrites DEF Deactivate, RequestDeletion, CancelDeletion, ReactivateIfDeactivated,
     Hidden, IsErased, Core, StandingTypeOK, Users
<1> QED BY <1>2, <1>3

LEMMA EndlessStep == Core /\ EndlessIsRatified /\ [Next]_vars => EndlessIsRatified'
<1> SUFFICES ASSUME Core, EndlessIsRatified, [Next]_vars,
                    verdict' = "sanctioned", user'.until = Null, ~IsErased'
             PROVE  \E h \in Holds : hold'[h].status = "ratified"
  BY DEF EndlessIsRatified
<1>1. CASE verdict = "sanctioned" /\ user.until = Null /\ ~IsErased
  BY <1>1, RatifiedStays DEF EndlessIsRatified
<1>2. CASE UNCHANGED <<user, pause, deletion, verdict>>
  BY <1>1, <1>2 DEF IsErased
<1>3. CASE \E c \in Calls : ModeratorActs(c)
  BY <1>2, <1>3, ModeratorWrites, EndlessSanction DEF EndlessIsRatified
<1>4. CASE \E c \in Calls : MemberActs(c)
  BY <1>1, <1>4, EndlessMember
<1>5. CASE \E c \in Calls : SweepActs(c)
  BY <1>1, <1>2, <1>5, SweepEffect DEF IsErased
<1> QED BY <1>2, <1>3, <1>4, <1>5, OtherSteps

LEMMA EndlessInit == Init => EndlessIsRatified
BY DEF Init, EndlessIsRatified

\* Every permanent suspension has a second signature, whatever submissions,
\* decisions and departures overlap.
THEOREM BansAreRatifiedHolds == Spec => []BansAreRatified
<1> DEFINE Inv == Standing /\ EndlessIsRatified
<1>1. Init => Inv
  BY InitCore, HiddenInit, SurvivesInit, EndlessInit DEF Standing
<1>2. Inv /\ [Next]_vars => Inv'
  BY CoreStep, HiddenStep, SurvivesStep, EndlessStep DEF Standing
<1>3. Inv => BansAreRatified
  <2> SUFFICES ASSUME Inv, verdict \in {"free", "sanctioned"},
                      user = [status |-> "suspended", until |-> Null]
               PROVE  \E h \in Holds : hold[h].status = "ratified"
    BY DEF BansAreRatified
  <2>1. user.status = "suspended" /\ user.until = Null
    OBVIOUS
  <2>2. verdict = "sanctioned"
    BY <2>1 DEF Standing, SanctionSurvivesLeaving, Standings
  <2> QED BY <2>1, <2>2 DEF EndlessIsRatified, IsErased
<1> QED BY <1>1, <1>2, <1>3, PTL DEF Spec
=============================================================================
