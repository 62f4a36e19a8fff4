------------------------------ MODULE Sessions ------------------------------
(***************************************************************************)
(* The refresh-token store and every operation that writes it:             *)
(* AuthService (sign-in, rotation, reuse detection, logout, sign-out       *)
(* everywhere), AccountService (sign out one device, sign out the other    *)
(* devices), AuthMaintenanceService (the purge) and the erasure of a       *)
(* member, which cascades.                                                 *)
(*                                                                         *)
(* A request is a handler instance.  Each await on the database is a step  *)
(* of its own, so requests interleave exactly where the handlers yield.    *)
(* PostgreSQL runs at READ COMMITTED:                                      *)
(*   - a rotation transaction holds its claimed row's lock from the claim  *)
(*     to the commit; until then nobody sees the claim or the new row;     *)
(*   - a multi-row UPDATE picks its rows when the statement starts, waits  *)
(*     for the locks on them, and re-checks revoked_at IS NULL on the      *)
(*     version it finds then.  Rows inserted meanwhile are missed.         *)
(*                                                                         *)
(* A refresh token is named by the id of its row (its hash is unique, see  *)
(* the jti).  A family is named by the id of its first row.                *)
(***************************************************************************)
EXTENDS Integers, FiniteSets

CONSTANTS
  Users,       \* members
  Requests,    \* handler instances that can be in flight together
  Routes,      \* the operations a run exercises
  MaxRows,     \* bound: refresh-token rows ever inserted
  MaxTime,     \* bound: the last instant of the clock
  Grace,       \* REFRESH_ROTATION_GRACE_MS
  RefreshTtl,  \* JWT_REFRESH_TTL, also the purge's retention
  Null

RowIds   == 1..MaxRows
AllRoutes == {"signIn", "signInOver", "refresh", "logout", "revokeAll", "revokeSession",
              "revokeOthers", "purge", "erase", "fail"}

ASSUME BoundsAssumption ==
  /\ MaxRows \in Nat \ {0}
  /\ MaxTime \in Nat
ASSUME TimesAssumption ==
  /\ Grace \in Nat
  /\ RefreshTtl \in Nat
  /\ Grace < RefreshTtl
ASSUME NullAssumption ==
  /\ Null \notin Int
  /\ Null \notin Users
ASSUME RoutesAssumption == Routes \subseteq AllRoutes

VARIABLES
  now,      \* the clock
  users,    \* members whose users row exists
  rows,     \* the refresh_tokens table: a function from stored ids to rows
  nextId,   \* the id the next insert gets
  req       \* the handler instances

vars == <<now, users, rows, nextId, req>>

Row == [user       : Users,
        family     : RowIds,
        expiresAt  : Nat,
        revokedAt  : Nat \cup {Null},
        replacedBy : RowIds \cup {Null}]

Pcs == {"idle",
        "verified", "rotate", "claimed", "lost", "grace", "burn",
        "endFamily", "sweeping",
        "replace", "replacing", "issue",
        "others", "saving"}

Request == [pc     : Pcs,
            row    : RowIds \cup {Null},    \* the token presented
            user   : Users \cup {Null},     \* whose session it is about
            family : RowIds \cup {Null},    \* which session it is about
            at     : Nat,                   \* the Date it captured
            snap   : SUBSET RowIds,         \* the rows its statement picked
            erase  : SUBSET RowIds]         \* rows whose replaced_by save() nulls

Idle == [pc |-> "idle", row |-> Null, user |-> Null, family |-> Null,
         at |-> 0, snap |-> {}, erase |-> {}]

TypeOK ==
  /\ now \in Nat
  /\ users \subseteq Users
  /\ nextId \in 1..(MaxRows + 1)
  /\ DOMAIN rows \subseteq RowIds
  /\ rows \in [DOMAIN rows -> Row]
  /\ req \in [Requests -> Request]

Init ==
  /\ now = 0
  /\ users = Users
  /\ rows = [i \in {} |-> Null]
  /\ nextId = 1
  /\ req = [q \in Requests |-> Idle]

-----------------------------------------------------------------------------
(* Reading the table *)

Stored(i)  == i \in DOMAIN rows
IsLive(i)  == Stored(i) /\ rows[i].revokedAt = Null
LiveRows   == {i \in DOMAIN rows : rows[i].revokedAt = Null}

\* Slip: the row is read FOR UPDATE, on another connection than the claim's.
LockedSinceRead(i) ==
  \E q \in Requests : req[q].pc \in {"rotate", "claimed"} /\ req[q].row = i

\* Only an open rotation transaction holds a row lock between two steps.
Locked(i) == \E q \in Requests : req[q].pc = "claimed" /\ req[q].row = i

\* Slip: the window is one instant short.
WithinShorterGrace(i) ==
  /\ Stored(i)
  /\ rows[i].revokedAt # Null
  /\ rows[i].replacedBy # Null
  /\ now - rows[i].revokedAt < Grace

\* withinRotationGrace: revoked by a rotation, and moments ago.
WithinRotationGrace(i) ==
  /\ Stored(i)
  /\ rows[i].revokedAt # Null
  /\ rows[i].replacedBy # Null
  /\ now - rows[i].revokedAt <= Grace

(* Writing the table *)

\* The row a mint writes: live, and good for one refresh lifetime.
FreshRow(u, f) ==
  [user |-> u, family |-> f, expiresAt |-> now + RefreshTtl,
   revokedAt |-> Null, replacedBy |-> Null]

\* The family a sign-in opens (familyId defaults to a new UUID).  Slips: none is
\* passed on to the row; one made when the service was built is used for all.
NoFamily     == Null
SharedFamily == 1
NewFamily    == nextId

\* issueTokensWithRow + persistRefreshToken outside a transaction.
Insert(u, f) ==
  /\ nextId <= MaxRows
  /\ rows' = [i \in DOMAIN rows \cup {nextId} |->
                IF i = nextId THEN FreshRow(u, f) ELSE rows[i]]
  /\ nextId' = nextId + 1

\* Delete rows: replaced_by is ON DELETE SET NULL.
Delete(S) ==
  rows' = [i \in DOMAIN rows \ S |->
             [rows[i] EXCEPT !.replacedBy = IF @ \in S THEN Null ELSE @]]

\* Bound: a request that may insert a row begins only while the table has room
\* for it beside those already on their way, so that no insert is ever refused.
Minting == {"verified", "rotate", "claimed", "lost", "grace",
            "replace", "replacing", "issue"}
HasRoom == nextId + Cardinality({q \in Requests : req[q].pc \in Minting}) <= MaxRows

Goto(q, r) == req' = [req EXCEPT ![q] = r]
Done(q)    == Goto(q, Idle)
-----------------------------------------------------------------------------
(* POST /auth/refresh: rotateRefreshToken *)

\* Step 1.  The JWT verifies: signed by us and not expired.  A token whose
\* row is gone is refused in step 2 whatever its JWT says, and changes nothing.
RefreshVerify(q, i) ==
  /\ "refresh" \in Routes
  /\ req[q].pc = "idle"
  /\ Stored(i)
  /\ now < rows[i].expiresAt
  /\ HasRoom
  /\ Goto(q, [Idle EXCEPT !.pc = "verified", !.row = i])
  /\ UNCHANGED <<now, users, rows, nextId>>

\* The handler goes on about the row it read.
GoOn(q, pc) ==
  LET i == req[q].row IN
  Goto(q, [Idle EXCEPT !.pc = pc, !.row = i,
                       !.user = rows[i].user, !.family = rows[i].family])

\* Steps 2-4.  The row is read, and the member with it (a row outlives its
\* member nowhere, the foreign key cascades).
RefreshRefused(q) ==
  /\ req[q].pc = "verified"
  /\ \/ ~Stored(req[q].row)
     \/ IsLive(req[q].row) /\ rows[req[q].row].expiresAt < now
  /\ Done(q)
  /\ UNCHANGED <<now, users, rows, nextId>>

RefreshAdmitted(q) ==
  /\ req[q].pc = "verified"
  /\ IsLive(req[q].row)
  /\ rows[req[q].row].expiresAt >= now
  /\ GoOn(q, "rotate")
  /\ UNCHANGED <<now, users, rows, nextId>>

\* Slip: any rotated token passes for a race, however old.
RefreshOldAbsorbed(q) ==
  /\ req[q].pc = "verified"
  /\ Stored(req[q].row)
  /\ rows[req[q].row].replacedBy # Null
  /\ GoOn(q, "grace")
  /\ UNCHANGED <<now, users, rows, nextId>>

RefreshRaceAbsorbed(q) ==
  /\ req[q].pc = "verified"
  /\ WithinRotationGrace(req[q].row)
  /\ GoOn(q, "grace")
  /\ UNCHANGED <<now, users, rows, nextId>>

RefreshReuseDetected(q) ==
  /\ req[q].pc = "verified"
  /\ Stored(req[q].row)
  /\ ~IsLive(req[q].row)
  /\ ~WithinRotationGrace(req[q].row)
  /\ GoOn(q, "burn")
  /\ UNCHANGED <<now, users, rows, nextId>>

\* Step 5.  The conditional claim inside the transaction.  The UPDATE waits for
\* the row's lock and then finds the row live, or not.
RotateClaim(q) ==
  /\ req[q].pc = "rotate"
  /\ ~Locked(req[q].row)
  /\ IsLive(req[q].row)
  /\ Goto(q, [req[q] EXCEPT !.pc = "claimed", !.at = now])
  /\ UNCHANGED <<now, users, rows, nextId>>

RotateClaimLost(q) ==
  /\ req[q].pc = "rotate"
  /\ ~Locked(req[q].row)
  /\ ~IsLive(req[q].row)
  /\ Goto(q, [req[q] EXCEPT !.pc = "lost"])
  /\ UNCHANGED <<now, users, rows, nextId>>

\* What the rotation makes of the presented row, and the row it inserts.
\* Slip: the successor starts a family of its own.
RotatedRow(q) ==
  [rows[req[q].row] EXCEPT !.revokedAt = req[q].at, !.replacedBy = nextId]
SuccessorAlone(q) == FreshRow(req[q].user, nextId)
SuccessorRow(q)   == FreshRow(req[q].user, req[q].family)

\* The transaction inserts the successor and commits: the revocation of the
\* presented row and the new row become visible together.  The insert's foreign
\* key needs the member.
RotateCommit(q) ==
  /\ req[q].pc = "claimed"
  /\ req[q].user \in users
  /\ nextId <= MaxRows
  /\ rows' = [j \in DOMAIN rows \cup {nextId} |->
                CASE j = nextId     -> SuccessorRow(q)
                  [] j = req[q].row -> RotatedRow(q)
                  [] OTHER          -> rows[j]]
  /\ nextId' = nextId + 1
  /\ Done(q)
  /\ UNCHANGED <<now, users>>

\* Step 6.  The loser of the claim re-reads the row.
LoserAbsorbed(q) ==
  /\ req[q].pc = "lost"
  /\ WithinRotationGrace(req[q].row)
  /\ Goto(q, [req[q] EXCEPT !.pc = "grace"])
  /\ UNCHANGED <<now, users, rows, nextId>>

LoserReuseDetected(q) ==
  /\ req[q].pc = "lost"
  /\ ~WithinRotationGrace(req[q].row)
  /\ Goto(q, [req[q] EXCEPT !.pc = "burn"])
  /\ UNCHANGED <<now, users, rows, nextId>>

\* Slip: the presented token is given back instead of a new one.
ReinstatePresented(q) ==
  /\ req[q].pc = "grace"
  /\ rows' = [i \in DOMAIN rows |-> IF i = req[q].row
                                    THEN [rows[i] EXCEPT !.revokedAt = Null]
                                    ELSE rows[i]]
  /\ Done(q)
  /\ UNCHANGED <<now, users, nextId>>

\* Slip: the row has no foreign key to its member.
IssueWithoutMember(q) ==
  /\ req[q].pc = "grace"
  /\ Insert(req[q].user, req[q].family)
  /\ Done(q)
  /\ UNCHANGED <<now, users>>

\* issueGraceReplacement: a further live row in the same family, written
\* outside any transaction, on the strength of the row read before.
IssueGraceReplacement(q) ==
  /\ req[q].pc = "grace"
  /\ \/ req[q].user \in users /\ Insert(req[q].user, req[q].family)
     \/ req[q].user \notin users /\ UNCHANGED <<rows, nextId>>
  /\ Done(q)
  /\ UNCHANGED <<now, users>>

-----------------------------------------------------------------------------
(* The sweeps: UPDATE ... SET revoked_at = <at> WHERE ... revoked_at IS NULL *)

\* The statement starts and picks the rows it will write.
SweepStart(q, S, pc) ==
  /\ Goto(q, [req[q] EXCEPT !.pc = pc, !.at = now, !.snap = S, !.row = Null])
  /\ UNCHANGED <<now, users, rows, nextId>>

\* The statement gets every lock it waits for, re-checks, and writes.
SweepWrites(q) ==
  /\ \A i \in req[q].snap : ~Locked(i)
  /\ rows' = [i \in DOMAIN rows |->
                IF i \in req[q].snap /\ IsLive(i)
                THEN [rows[i] EXCEPT !.revokedAt = req[q].at]
                ELSE rows[i]]

LiveOfUser(u)   == {i \in LiveRows : rows[i].user = u}
LiveOfFamily(f) == {i \in LiveRows : rows[i].family = f}

\* Slip: reuse ends the session it was found in, and no other.
BurnFamilyStart(q) ==
  /\ req[q].pc = "burn"
  /\ SweepStart(q, LiveOfFamily(req[q].family), "sweeping")

\* revokeAllUserSessions on reuse detection, and for a global sign-out, a
\* deactivation, a deletion request or a moderation action.
BurnStart(q) ==
  /\ req[q].pc = "burn"
  /\ SweepStart(q, LiveOfUser(req[q].user), "sweeping")

RevokeAllForUser(q, u) ==
  /\ "revokeAll" \in Routes
  /\ req[q].pc = "idle"
  /\ Goto(q, [Idle EXCEPT !.pc = "sweeping", !.at = now, !.user = u,
                          !.snap = LiveOfUser(u)])
  /\ UNCHANGED <<now, users, rows, nextId>>

\* AccountService.revokeSession: one named session of the caller's own.  A
\* family with nothing live is a 404.
RevokeSession(q, u, f) ==
  /\ "revokeSession" \in Routes
  /\ req[q].pc = "idle"
  /\ LiveOfFamily(f) \cap LiveOfUser(u) # {}
  /\ Goto(q, [Idle EXCEPT !.pc = "sweeping", !.at = now, !.user = u,
                          !.family = f,
                          !.snap = LiveOfFamily(f) \cap LiveOfUser(u)])
  /\ UNCHANGED <<now, users, rows, nextId>>

\* revokeRefreshToken (logout): find the row, live, then sweep its family.
Logout(q, i) ==
  /\ "logout" \in Routes
  /\ req[q].pc = "idle"
  /\ IsLive(i)
  /\ Goto(q, [Idle EXCEPT !.pc = "endFamily", !.family = rows[i].family,
                          !.user = rows[i].user])
  /\ UNCHANGED <<now, users, rows, nextId>>

LogoutSweep(q) ==
  /\ req[q].pc = "endFamily"
  /\ SweepStart(q, LiveOfFamily(req[q].family), "sweeping")

SweepCommit(q) ==
  /\ req[q].pc = "sweeping"
  /\ SweepWrites(q)
  /\ Done(q)
  /\ UNCHANGED <<now, users, nextId>>

-----------------------------------------------------------------------------
(* Signing in: revokeSessionForToken, then issueTokens *)

\* The browser presents no cookie, or one whose row is gone.
SignIn(q, u) ==
  /\ "signIn" \in Routes
  /\ req[q].pc = "idle"
  /\ u \in users
  /\ HasRoom
  /\ Goto(q, [Idle EXCEPT !.pc = "issue", !.user = u])
  /\ UNCHANGED <<now, users, rows, nextId>>

\* The browser presents a cookie, whoever it belongs to and dead or alive.
SignInOver(q, u, i) ==
  /\ "signInOver" \in Routes
  /\ req[q].pc = "idle"
  /\ u \in users
  /\ Stored(i)
  /\ HasRoom
  /\ Goto(q, [Idle EXCEPT !.pc = "replace", !.user = u,
                          !.family = rows[i].family])
  /\ UNCHANGED <<now, users, rows, nextId>>

ReplaceSweep(q) ==
  /\ req[q].pc = "replace"
  /\ SweepStart(q, LiveOfFamily(req[q].family), "replacing")

ReplaceCommit(q) ==
  /\ req[q].pc = "replacing"
  /\ SweepWrites(q)
  /\ Goto(q, [Idle EXCEPT !.pc = "issue", !.user = req[q].user])
  /\ UNCHANGED <<now, users, nextId>>

\* issueTokens: a new family.  The insert's foreign key needs the member.
IssueTokens(q) ==
  /\ req[q].pc = "issue"
  /\ \/ req[q].user \in users /\ Insert(req[q].user, NewFamily)
     \/ req[q].user \notin users /\ UNCHANGED <<rows, nextId>>
  /\ Done(q)
  /\ UNCHANGED <<now, users>>

-----------------------------------------------------------------------------
(* AccountService.revokeOtherSessions: find, then save the entities *)

\* The guard: JwtStrategy let the caller in on session f.
RevokeOtherSessions(q, u, f) ==
  LET others == {i \in LiveOfUser(u) : rows[i].family # f} IN
  /\ "revokeOthers" \in Routes
  /\ req[q].pc = "idle"
  /\ \E i \in LiveOfFamily(f) : rows[i].user = u /\ rows[i].expiresAt > now
  /\ others # {}
  /\ Goto(q, [Idle EXCEPT !.pc = "others", !.at = now, !.user = u,
                          !.family = f, !.snap = others])
  /\ UNCHANGED <<now, users, rows, nextId>>

\* save() re-reads the entities and writes every column that differs from the
\* copies the handler holds: replaced_by too, where a rotation set it since.
OthersDiff(q) ==
  /\ req[q].pc = "others"
  /\ Goto(q, [req[q] EXCEPT
                !.pc = "saving",
                !.erase = {i \in req[q].snap :
                             Stored(i) /\ rows[i].replacedBy # Null}])
  /\ UNCHANGED <<now, users, rows, nextId>>

\* The UPDATEs by id, unconditional.  A row purged since is skipped (save()
\* would put it back revoked and long expired, which is as good as gone).
OthersSave(q) ==
  /\ req[q].pc = "saving"
  /\ \A i \in req[q].snap : ~Locked(i)
  /\ rows' = [i \in DOMAIN rows |->
                IF i \in req[q].snap
                THEN [rows[i] EXCEPT
                        !.revokedAt = req[q].at,
                        !.replacedBy = IF i \in req[q].erase THEN Null ELSE @]
                ELSE rows[i]]
  /\ Done(q)
  /\ UNCHANGED <<now, users, nextId>>

-----------------------------------------------------------------------------
(* Maintenance, erasure, failure, time *)

\* Slip: the retention is left out.
PurgeableAtOnce ==
  {i \in DOMAIN rows :
     \/ rows[i].expiresAt < now
     \/ rows[i].revokedAt # Null /\ rows[i].revokedAt < now}

\* Rows past their retention: one refresh lifetime after expiry or revocation.
Purgeable ==
  {i \in DOMAIN rows :
     \/ rows[i].expiresAt < now - RefreshTtl
     \/ rows[i].revokedAt # Null /\ rows[i].revokedAt < now - RefreshTtl}

PurgeExpiredRefreshTokens ==
  /\ "purge" \in Routes
  /\ Purgeable # {}
  /\ \A i \in Purgeable : ~Locked(i)
  /\ Delete(Purgeable)
  /\ UNCHANGED <<now, users, nextId, req>>

\* The users row goes, its refresh tokens cascade.  The cascade waits for the
\* lock of an open rotation.
EraseUser(u) ==
  LET owned == {i \in DOMAIN rows : rows[i].user = u} IN
  /\ "erase" \in Routes
  /\ u \in users
  /\ \A i \in owned : ~Locked(i)
  /\ users' = users \ {u}
  /\ Delete(owned)
  /\ UNCHANGED <<now, nextId, req>>

\* A request dies between two steps: a database error, a deadlock broken by
\* PostgreSQL, a restart.  An open transaction rolls back, a statement that
\* has not written writes nothing.
Fail(q) ==
  /\ "fail" \in Routes
  /\ req[q].pc # "idle"
  /\ Done(q)
  /\ UNCHANGED <<now, users, rows, nextId>>

Tick ==
  /\ now < MaxTime
  /\ now' = now + 1
  /\ UNCHANGED <<users, rows, nextId, req>>

-----------------------------------------------------------------------------
\* The steps a request takes once it has begun.
Step(q) ==
  \/ RefreshRefused(q) \/ RefreshAdmitted(q) \/ RefreshRaceAbsorbed(q)
  \/ RefreshReuseDetected(q) \/ RotateClaim(q) \/ RotateClaimLost(q)
  \/ RotateCommit(q) \/ LoserAbsorbed(q) \/ LoserReuseDetected(q)
  \/ IssueGraceReplacement(q) \/ BurnStart(q) \/ LogoutSweep(q)
  \/ SweepCommit(q) \/ ReplaceSweep(q) \/ ReplaceCommit(q) \/ IssueTokens(q)
  \/ OthersDiff(q) \/ OthersSave(q)

\* The requests a client may begin.
Begin(q) ==
  \/ \E i \in RowIds : RefreshVerify(q, i) \/ Logout(q, i)
  \/ \E u \in Users :
       \/ SignIn(q, u)
       \/ \E i \in RowIds : SignInOver(q, u, i)
       \/ RevokeAllForUser(q, u)
       \/ \E f \in RowIds : RevokeSession(q, u, f) \/ RevokeOtherSessions(q, u, f)

Next ==
  \/ \E q \in Requests : Begin(q) \/ Step(q) \/ Fail(q)
  \/ PurgeExpiredRefreshTokens
  \/ \E u \in Users : EraseUser(u)
  \/ Tick

Spec == Init /\ [][Next]_vars
-----------------------------------------------------------------------------
(* Properties *)

\* The rotation chain of every stored row is sound whatever races with it: the
\* successor a row names continues the same session of the same member, came
\* later, and no two rows name the same successor (one winner per rotation).
\* It is what issueTokensWithRow(newRowId) and the conditional claim are for.
RotationLineage ==
  \A i \in DOMAIN rows :
    LET j == rows[i].replacedBy IN
    /\ j # Null =>
         /\ rows[i].revokedAt # Null
         /\ i < j
         /\ Stored(j) => /\ rows[j].family = rows[i].family
                         /\ rows[j].user = rows[i].user
         /\ \A k \in DOMAIN rows : rows[k].replacedBy = j => k = i

\* Every row of a family belongs to the same member: a sweep by family never
\* reaches another member's rows, and a rotation or a grace replacement never
\* moves a session to another member.
OneFamilyOneOwner ==
  \A i, j \in DOMAIN rows :
    rows[i].family = rows[j].family => rows[i].user = rows[j].user

\* A row that has been revoked stays revoked for as long as it is stored: no
\* stale save(), late commit or failed transaction brings a dead token back.
RevocationIsPermanent ==
  [][\A i \in DOMAIN rows :
       rows[i].revokedAt # Null /\ i \in DOMAIN rows' => rows'[i].revokedAt # Null]_vars

\* No row leaves the table while its JWT still verifies, unless its member was
\* erased: the purge never turns a replayed token from "reuse detected" (which
\* burns the member's sessions) into "unknown", nor a live one into a sign-out.
PurgeForgetsOnlyExpiredTokens ==
  [][\A i \in DOMAIN rows \ DOMAIN rows' :
       rows[i].user \in users' => rows[i].expiresAt <= now]_vars

\* What may still bring a family to life: a live row; a rotated row inside the
\* grace window; a request that has already been granted a grace replacement,
\* for as long as the member has an account; a pending save() that is about to put a rotated row back in the window.
HasLive(f)   == LiveOfFamily(f) # {}
Lingering(f) ==
  \/ \E i \in DOMAIN rows : rows[i].family = f /\ WithinRotationGrace(i)
  \/ \E q \in Requests :
       req[q].pc = "grace" /\ req[q].family = f /\ req[q].user \in users
  \/ \E q \in Requests :
       /\ req[q].pc = "saving"
       /\ now - req[q].at <= Grace
       /\ \E i \in (req[q].snap \ req[q].erase) \cap DOMAIN rows :
            rows[i].family = f /\ rows[i].replacedBy # Null
MayRevive(f) == HasLive(f) \/ Lingering(f)

\* A session that nothing above keeps alive is over for good: whatever tokens
\* of it are presented, and whatever requests about it are still in flight, it
\* never has a live row again.  Only a sign-in, a new family, does.  The erasure
\* of the member ends all of theirs at once, the requests in flight included.
ClosedStaysClosed ==
  [][\A f \in 1..(nextId - 1) : ~MayRevive(f) => ~MayRevive(f)']_vars

\* The phases of the families, as the abstract ledger knows them.
PhaseOf(f) ==
  IF f >= nextId THEN "new"
  ELSE IF HasLive(f) THEN "live"
  ELSE IF Lingering(f) THEN "lingering"
  ELSE "closed"

\* A row id that was not the first of its family names no family.
FamilyPhase == [f \in RowIds |-> PhaseOf(f)]

Ledger == INSTANCE SessionLedger WITH Family <- RowIds, phase <- FamilyPhase

\* The table, its races and its grace window implement the abstract ledger: a
\* family that leaves "live" and "lingering" is closed for good, and no step
\* brings two sessions to life.
ImplementsLedger == Ledger!LedgerSpec

(* Liveness.  The event loop and PostgreSQL run every request to its end, and
   a lock wait ends when the lock's holder commits: each request's next step
   is weakly fair.  Nothing makes clients send requests. *)
FairSpec == Spec /\ \A q \in Requests : WF_vars(Step(q))

\* No request waits for ever, on a row lock or otherwise.
RequestsFinish == \A q \in Requests : req[q].pc # "idle" ~> req[q].pc = "idle"

\* A replay found to be reuse burns every row of the member that is live at
\* that moment, even those another request is just rotating.
ReuseBurnsLiveRows ==
  \A q \in Requests, i \in RowIds :
    (req[q].pc = "burn" /\ i \in LiveOfUser(req[q].user)) ~> ~IsLive(i)

=============================================================================
