--------------------------- MODULE SessionsProofs ---------------------------
(***************************************************************************)
(* Theorems about Sessions, for any members, requests, bounds and times,   *)
(* and about Browsers, for any browsers, rows and grace window.            *)
(***************************************************************************)
EXTENDS Browsers, TLAPS

USE DEF RowIds

LEMMA IdleType == Idle \in Request
BY DEF Idle, Request, Pcs

LEMMA FreshRowType ==
  ASSUME TypeOK, NEW u \in Users, NEW f \in RowIds
  PROVE  FreshRow(u, f) \in Row
BY TimesAssumption DEF TypeOK, FreshRow, Row

LEMMA InsertType ==
  ASSUME TypeOK, NEW u \in Users, NEW f \in RowIds, Insert(u, f)
  PROVE  /\ nextId' \in 1..(MaxRows + 1)
         /\ DOMAIN rows' = DOMAIN rows \cup {nextId}
         /\ DOMAIN rows' \subseteq RowIds
         /\ rows' \in [DOMAIN rows' -> Row]
BY FreshRowType, BoundsAssumption DEF TypeOK, Insert

LEMMA DeleteType ==
  ASSUME TypeOK, NEW S, Delete(S)
  PROVE  /\ DOMAIN rows' = DOMAIN rows \ S
         /\ DOMAIN rows' \subseteq RowIds
         /\ rows' \in [DOMAIN rows' -> Row]
BY DEF TypeOK, Delete, Row
-----------------------------------------------------------------------------
(* The inductive invariant.  A request's record is only as good as the table it
   was read from: these are the facts about it that survive until it is used. *)

Used == 1..(nextId - 1)

\* Ids are handed out in order and never twice.
TableBound == \A i \in DOMAIN rows : i \in Used /\ rows[i].family \in Used

\* r is a request record that agrees with the table.
ReqOK(r) ==
  /\ r.pc \in {"verified", "rotate", "claimed", "lost"} => r.row \in Used
  /\ r.pc \in {"rotate", "claimed", "lost", "grace"} =>
       r.user \in Users /\ r.family \in Used
  /\ r.pc \in {"rotate", "claimed", "lost"} /\ Stored(r.row) =>
       rows[r.row].user = r.user /\ rows[r.row].family = r.family
  /\ r.pc = "claimed" => IsLive(r.row)
  /\ r.snap \subseteq Used

ClaimsExclusive ==
  \A p, q \in Requests :
    req[p].pc = "claimed" /\ req[q].pc = "claimed" /\ req[p].row = req[q].row => p = q

Core ==
  /\ TypeOK
  /\ TableBound
  /\ \A q \in Requests : ReqOK(req[q])
  /\ ClaimsExclusive

LEMMA IdleOK == ReqOK(Idle)
BY DEF ReqOK, Idle, Stored, IsLive

\* A step that only moves request q on keeps Core if its new record is sound.
LEMMA MoveCore ==
  ASSUME Core, NEW q \in Requests, NEW r \in Request,
         ReqOK(r), r.pc = "claimed" => ~Locked(r.row),
         Goto(q, r), UNCHANGED <<now, users, rows, nextId>>
  PROVE  Core'
<1>1. TypeOK' /\ TableBound'
  BY DEF Core, TypeOK, TableBound, Used, Goto
<1>2. \A p \in Requests : ReqOK(req[p])'
  BY DEF Core, TypeOK, ReqOK, Used, Goto, Stored, IsLive
<1>3. ClaimsExclusive'
  BY DEF Core, TypeOK, ClaimsExclusive, Goto, Locked
<1> QED BY <1>1, <1>2, <1>3 DEF Core

\* What a table write must keep for the requests it does not belong to.
Kept ==
  \A i \in DOMAIN rows' : i \in Used =>
    /\ i \in DOMAIN rows
    /\ rows'[i].user = rows[i].user
    /\ rows'[i].family = rows[i].family

LiveAfter(i) == i \in DOMAIN rows' /\ rows'[i].revokedAt = Null

LEMMA WriteCore ==
  ASSUME Core, NEW r \in Request,
         now' \in Nat, users' \subseteq Users,
         nextId' \in 1..(MaxRows + 1), nextId' >= nextId,
         DOMAIN rows' \subseteq RowIds, rows' \in [DOMAIN rows' -> Row],
         TableBound', Kept,
         \/ UNCHANGED req
         \/ \E q \in Requests : Goto(q, r),
         r.pc # "claimed", ReqOK(r)',
         \A p \in Requests : req[p].pc = "claimed" /\ req'[p] # r => LiveAfter(req[p].row)
  PROVE  Core'
<1>1. TypeOK'
  BY DEF Core, TypeOK, Goto
<1>2. \A p \in Requests : req'[p] = req[p] \/ req'[p] = r
  BY DEF Core, TypeOK, Goto
<1>3. Used \subseteq Used'
  BY DEF Core, TypeOK, Used
<1>4. \A p \in Requests : ReqOK(req[p])'
  <2> SUFFICES ASSUME NEW p \in Requests, req'[p] = req[p], req'[p] # r
               PROVE  ReqOK(req[p])'
    BY <1>2 DEF Core, ReqOK, Stored, IsLive, Used
  <2>1. req[p].pc \in {"verified", "rotate", "claimed", "lost"} => req[p].row \in Used
    BY DEF Core, ReqOK
  <2>2. \A i \in Used : Stored(i)' => Stored(i) /\ rows'[i].user = rows[i].user
                                                /\ rows'[i].family = rows[i].family
    BY DEF Kept, Stored
  <2>3. req[p].pc = "claimed" => IsLive(req[p].row)'
    BY DEF LiveAfter, IsLive, Stored
  <2> QED BY <1>3, <2>1, <2>2, <2>3 DEF Core, ReqOK
<1>5. ClaimsExclusive'
  BY <1>2 DEF Core, ClaimsExclusive
<1> QED BY <1>1, <1>4, <1>5 DEF Core
-----------------------------------------------------------------------------
(* Each action keeps Core. *)

LEMMA LiveUsed ==
  ASSUME Core
  PROVE  /\ LiveRows \subseteq Used /\ LiveRows \subseteq RowIds
         /\ \A u : LiveOfUser(u) \subseteq LiveRows
         /\ \A f : LiveOfFamily(f) \subseteq LiveRows
BY DEF Core, TypeOK, TableBound, LiveRows, LiveOfUser, LiveOfFamily

LEMMA RefreshStepCore ==
  ASSUME Core, NEW q \in Requests,
         \/ RefreshRefused(q) \/ RefreshAdmitted(q) \/ RefreshRaceAbsorbed(q)
         \/ RefreshReuseDetected(q) \/ \E i \in RowIds : RefreshVerify(q, i)
  PROVE  Core'
<1>1. CASE \E i \in RowIds : RefreshVerify(q, i)
  <2> PICK i \in RowIds : RefreshVerify(q, i)
    BY <1>1
  <2> DEFINE r == [Idle EXCEPT !.pc = "verified", !.row = i]
  <2>1. r \in Request /\ r.pc = "verified" /\ r.row = i /\ r.snap = {}
    BY DEF Idle, Request, Pcs
  <2>2. ReqOK(r)
    BY <2>1 DEF ReqOK, Core, TableBound, RefreshVerify, Stored
  <2> QED BY <2>1, <2>2, MoveCore DEF RefreshVerify
<1>2. CASE RefreshRefused(q)
  BY <1>2, MoveCore, IdleType, IdleOK DEF RefreshRefused, Done, Idle
<1>3. ASSUME NEW pc \in {"rotate", "grace", "burn"}, req[q].pc = "verified",
             Stored(req[q].row), GoOn(q, pc), UNCHANGED <<now, users, rows, nextId>>
      PROVE  Core'
  <2> DEFINE i == req[q].row
             r == [Idle EXCEPT !.pc = pc, !.row = i,
                               !.user = rows[i].user, !.family = rows[i].family]
  <2>1. i \in DOMAIN rows /\ i \in RowIds /\ rows[i] \in Row
    BY <1>3 DEF Core, TypeOK, Stored
  <2>2. /\ r \in Request /\ r.pc = pc /\ r.row = i /\ r.snap = {}
        /\ r.user = rows[i].user /\ r.family = rows[i].family
    BY <2>1 DEF Idle, Request, Pcs, Row
  <2>3. ReqOK(r)
    BY <2>1, <2>2 DEF ReqOK, Core, TableBound, Row
  <2> QED BY <1>3, <2>2, <2>3, MoveCore DEF GoOn
<1>4. CASE RefreshAdmitted(q)
  BY <1>3, <1>4 DEF RefreshAdmitted, IsLive
<1>5. CASE RefreshRaceAbsorbed(q)
  BY <1>3, <1>5 DEF RefreshRaceAbsorbed, WithinRotationGrace
<1>6. CASE RefreshReuseDetected(q)
  BY <1>3, <1>6 DEF RefreshReuseDetected
<1> QED BY <1>1, <1>2, <1>4, <1>5, <1>6

LEMMA RotateStepCore ==
  ASSUME Core, NEW q \in Requests,
         \/ RotateClaim(q) \/ RotateClaimLost(q)
         \/ LoserAbsorbed(q) \/ LoserReuseDetected(q)
  PROVE  Core'
<1> req[q] \in Request /\ ReqOK(req[q])
  BY DEF Core, TypeOK
<1>1. CASE RotateClaim(q)
  <2> DEFINE r == [req[q] EXCEPT !.pc = "claimed", !.at = now]
  <2>1. /\ r \in Request /\ r.pc = "claimed" /\ r.row = req[q].row
        /\ r.user = req[q].user /\ r.family = req[q].family /\ r.snap = req[q].snap
    BY DEF Request, Pcs, Core, TypeOK
  <2>2. ReqOK(r)
    BY <1>1, <2>1 DEF ReqOK, RotateClaim
  <2> QED BY <1>1, <2>1, <2>2, MoveCore DEF RotateClaim
<1>2. ASSUME NEW pc \in {"lost", "grace", "burn"}, req[q].pc \in {"rotate", "lost"},
             Goto(q, [req[q] EXCEPT !.pc = pc]), UNCHANGED <<now, users, rows, nextId>>
      PROVE  Core'
  <2> DEFINE r == [req[q] EXCEPT !.pc = pc]
  <2>1. /\ r \in Request /\ r.pc = pc /\ r.row = req[q].row
        /\ r.user = req[q].user /\ r.family = req[q].family /\ r.snap = req[q].snap
    BY DEF Request, Pcs
  <2>2. ReqOK(r)
    BY <1>2, <2>1 DEF ReqOK
  <2> QED BY <1>2, <2>1, <2>2, MoveCore
<1>3. CASE RotateClaimLost(q)
  BY <1>2, <1>3 DEF RotateClaimLost
<1>4. CASE LoserAbsorbed(q)
  BY <1>2, <1>4 DEF LoserAbsorbed
<1>5. CASE LoserReuseDetected(q)
  BY <1>2, <1>5 DEF LoserReuseDetected
<1> QED BY <1>1, <1>3, <1>4, <1>5

\* The steps that begin a sweep, a sign-in or a sign-out hold nothing but a set
\* of rows picked from the table.
LEMMA PickCore ==
  ASSUME Core, NEW q \in Requests, NEW r \in Request,
         r.pc \in {"sweeping", "endFamily", "replace", "replacing", "issue",
                   "others", "saving"},
         r.snap \subseteq Used,
         Goto(q, r), UNCHANGED <<now, users, rows, nextId>>
  PROVE  Core'
<1>1. ReqOK(r)
  BY DEF ReqOK
<1> QED BY <1>1, MoveCore

LEMMA SweepStartCore ==
  ASSUME Core, NEW q \in Requests,
         \/ BurnStart(q) \/ LogoutSweep(q) \/ ReplaceSweep(q) \/ OthersDiff(q)
  PROVE  Core'
<1> req[q] \in Request /\ ReqOK(req[q]) /\ now \in Nat
  BY DEF Core, TypeOK
<1>1. ASSUME NEW S, S \subseteq LiveRows, NEW pc \in {"sweeping", "replacing"},
             SweepStart(q, S, pc)
      PROVE  Core'
  <2> DEFINE r == [req[q] EXCEPT !.pc = pc, !.at = now, !.snap = S, !.row = Null]
  <2>1. S \subseteq Used /\ S \subseteq RowIds
    BY <1>1, LiveUsed
  <2>2. r \in Request /\ r.pc = pc /\ r.snap = S
    BY <2>1 DEF Request, Pcs
  <2> QED BY <1>1, <2>1, <2>2, PickCore DEF SweepStart
<1>2. CASE BurnStart(q)
  BY <1>1, <1>2, LiveUsed DEF BurnStart
<1>3. CASE LogoutSweep(q)
  BY <1>1, <1>3, LiveUsed DEF LogoutSweep
<1>4. CASE ReplaceSweep(q)
  BY <1>1, <1>4, LiveUsed DEF ReplaceSweep
<1>5. CASE OthersDiff(q)
  <2> DEFINE E == {i \in req[q].snap : Stored(i) /\ rows[i].replacedBy # Null}
             r == [req[q] EXCEPT !.pc = "saving", !.erase = E]
  <2>1. r \in Request /\ r.pc = "saving" /\ r.snap = req[q].snap
    BY DEF Request, Pcs
  <2> HIDE DEF r
  <2>2. r.snap \subseteq Used
    BY <2>1 DEF ReqOK
  <2>3. Goto(q, r) /\ UNCHANGED <<now, users, rows, nextId>>
    BY <1>5 DEF OthersDiff, r
  <2> QED BY <2>1, <2>2, <2>3, PickCore
<1> QED BY <1>2, <1>3, <1>4, <1>5
LEMMA BeginCore ==
  ASSUME Core, NEW q \in Requests, NEW u \in Users, NEW i \in RowIds,
         \/ Logout(q, i) \/ SignIn(q, u) \/ SignInOver(q, u, i)
         \/ RevokeAllForUser(q, u) \/ RevokeSession(q, u, i)
         \/ RevokeOtherSessions(q, u, i)
  PROVE  Core'
<1> now \in Nat /\ Idle \in Request /\ i \in RowIds \cup {Null}
  BY IdleType DEF Core, TypeOK
<1>1. CASE Logout(q, i)
  <2> DEFINE r == [Idle EXCEPT !.pc = "endFamily", !.family = rows[i].family,
                               !.user = rows[i].user]
  <2>1. rows[i] \in Row
    BY <1>1 DEF Logout, IsLive, Stored, Core, TypeOK
  <2>2. r \in Request /\ r.pc = "endFamily" /\ r.snap = {}
    BY <2>1 DEF Idle, Request, Pcs, Row
  <2> QED BY <1>1, <2>2, PickCore DEF Logout
<1>2. CASE SignIn(q, u)
  <2> DEFINE r == [Idle EXCEPT !.pc = "issue", !.user = u]
  <2>1. r \in Request /\ r.pc = "issue" /\ r.snap = {}
    BY DEF Idle, Request, Pcs
  <2> QED BY <1>2, <2>1, PickCore DEF SignIn
<1>3. CASE SignInOver(q, u, i)
  <2> DEFINE r == [Idle EXCEPT !.pc = "replace", !.user = u,
                               !.family = rows[i].family]
  <2>1. rows[i] \in Row
    BY <1>3 DEF SignInOver, Stored, Core, TypeOK
  <2>2. r \in Request /\ r.pc = "replace" /\ r.snap = {}
    BY <2>1 DEF Idle, Request, Pcs, Row
  <2> QED BY <1>3, <2>2, PickCore DEF SignInOver
<1>4. CASE RevokeAllForUser(q, u)
  <2> DEFINE S == LiveOfUser(u)
             r == [Idle EXCEPT !.pc = "sweeping", !.at = now, !.user = u, !.snap = S]
  <2>1. S \subseteq Used /\ S \subseteq RowIds
    BY LiveUsed
  <2>2. r \in Request /\ r.pc = "sweeping" /\ r.snap = S
    BY <2>1 DEF Idle, Request, Pcs
  <2> QED BY <1>4, <2>1, <2>2, PickCore DEF RevokeAllForUser
<1>5. CASE RevokeSession(q, u, i)
  <2> DEFINE S == LiveOfFamily(i) \cap LiveOfUser(u)
             r == [Idle EXCEPT !.pc = "sweeping", !.at = now, !.user = u,
                               !.family = i, !.snap = S]
  <2>1. S \subseteq Used /\ S \subseteq RowIds
    BY LiveUsed
  <2>2. r \in Request /\ r.pc = "sweeping" /\ r.snap = S
    BY <2>1 DEF Idle, Request, Pcs
  <2> QED BY <1>5, <2>1, <2>2, PickCore DEF RevokeSession
<1>6. CASE RevokeOtherSessions(q, u, i)
  <2> DEFINE S == {j \in LiveOfUser(u) : rows[j].family # i}
             r == [Idle EXCEPT !.pc = "others", !.at = now, !.user = u,
                               !.family = i, !.snap = S]
  <2>1. S \subseteq Used /\ S \subseteq RowIds
    BY LiveUsed
  <2>2. r \in Request /\ r.pc = "others" /\ r.snap = S
    BY <2>1 DEF Idle, Request, Pcs
  <2> QED BY <1>6, <2>1, <2>2, PickCore DEF RevokeOtherSessions
<1> QED BY <1>1, <1>2, <1>3, <1>4, <1>5, <1>6

\* Inserting a row of a known family, or of the one it founds.
LEMMA InsertCore ==
  ASSUME Core, NEW q \in Requests, NEW u \in Users, NEW f \in Used \cup {nextId},
         req[q].pc # "claimed",
         Insert(u, f), Done(q), UNCHANGED <<now, users>>
  PROVE  Core'
<1> TypeOK /\ nextId \in RowIds /\ f \in RowIds
  <2>1. TypeOK /\ nextId \in Nat /\ 1 <= nextId /\ nextId <= MaxRows
    BY BoundsAssumption DEF Core, TypeOK, Insert
  <2> QED BY <2>1, BoundsAssumption DEF Used
<1>1. /\ nextId' \in 1..(MaxRows + 1)
      /\ DOMAIN rows' = DOMAIN rows \cup {nextId}
      /\ DOMAIN rows' \subseteq RowIds
      /\ rows' \in [DOMAIN rows' -> Row]
  BY InsertType
<1>2. /\ rows'[nextId].family = f
      /\ \A i \in DOMAIN rows : i # nextId /\ rows'[i] = rows[i]
  BY DEF Insert, FreshRow, Core, TableBound, Used
<1>3. nextId' = nextId + 1 /\ Used' = Used \cup {nextId}
  BY DEF Insert, Used, Core, TypeOK
<1>4. TableBound'
  BY <1>1, <1>2, <1>3 DEF TableBound, Core
<1>5. Kept
  BY <1>1, <1>2 DEF Kept, Used, Core, TypeOK
<1>6. ReqOK(Idle)'
  BY DEF ReqOK, Idle
<1>7. \A p \in Requests : req[p].pc = "claimed" => LiveAfter(req[p].row)
  BY <1>1, <1>2 DEF Core, ReqOK, IsLive, Stored, LiveAfter
<1> QED BY <1>1, <1>3, <1>4, <1>5, <1>6, <1>7, WriteCore, IdleType
       DEF Done, Core, TypeOK, Idle

LEMMA MintCore ==
  ASSUME Core, NEW q \in Requests,
         IssueGraceReplacement(q) \/ IssueTokens(q)
  PROVE  Core'
<1> ReqOK(req[q]) /\ users \subseteq Users
  BY DEF Core, TypeOK
<1>1. CASE IssueGraceReplacement(q)
  <2>1. CASE req[q].user \in users /\ Insert(req[q].user, req[q].family)
    BY <1>1, <2>1, InsertCore DEF IssueGraceReplacement, ReqOK
  <2>2. CASE req[q].user \notin users /\ UNCHANGED <<rows, nextId>>
    BY <1>1, <2>2, MoveCore, IdleType, IdleOK DEF IssueGraceReplacement, Done, Idle
  <2> QED BY <1>1, <2>1, <2>2 DEF IssueGraceReplacement
<1>2. CASE IssueTokens(q)
  <2>1. CASE req[q].user \in users /\ Insert(req[q].user, NewFamily)
    BY <1>2, <2>1, InsertCore DEF IssueTokens, NewFamily
  <2>2. CASE req[q].user \notin users /\ UNCHANGED <<rows, nextId>>
    BY <1>2, <2>2, MoveCore, IdleType, IdleOK DEF IssueTokens, NewFamily, Done, Idle
  <2> QED BY <1>2, <2>1, <2>2 DEF IssueTokens, NewFamily
<1> QED BY <1>1, <1>2

\* What a rotation's commit writes.
LEMMA CommitWrites ==
  ASSUME Core, NEW q \in Requests, RotateCommit(q)
  PROVE  /\ req[q].row \in DOMAIN rows
         /\ DOMAIN rows' = DOMAIN rows \cup {nextId} /\ nextId \in RowIds
         /\ nextId \notin DOMAIN rows /\ Used' = Used \cup {nextId}
         /\ rows'[nextId] = FreshRow(req[q].user, req[q].family)
         /\ rows'[req[q].row] = [rows[req[q].row] EXCEPT !.revokedAt = req[q].at,
                                                         !.replacedBy = nextId]
         /\ \A j \in DOMAIN rows : j # req[q].row => rows'[j] = rows[j]
BY BoundsAssumption
   DEF RotateCommit, RotatedRow, SuccessorRow, Core, TypeOK, TableBound, Used, ReqOK,
       IsLive, Stored

LEMMA RotateCommitCore ==
  ASSUME Core, NEW q \in Requests, RotateCommit(q)
  PROVE  Core'
<1> DEFINE i == req[q].row
           u == req[q].user
           f == req[q].family
<1> /\ TypeOK /\ req[q] \in Request /\ rows[i] \in Row
    /\ u \in Users /\ f \in Used /\ f \in RowIds
  <2>1. TypeOK /\ req[q] \in Request /\ rows[i] \in Row
    BY CommitWrites DEF Core, TypeOK
  <2>2. u \in Users /\ f \in Used
    BY DEF Core, ReqOK, RotateCommit
  <2>3. Used \subseteq RowIds
    BY <2>1, BoundsAssumption DEF TypeOK, Used
  <2> QED BY <2>1, <2>2, <2>3
<1>1. FreshRow(u, f) \in Row
  BY FreshRowType
<1>2. [rows[i] EXCEPT !.revokedAt = req[q].at, !.replacedBy = nextId] \in Row
  BY CommitWrites DEF Row, Request
<1>3. DOMAIN rows' \subseteq RowIds /\ rows' \in [DOMAIN rows' -> Row]
  <2>1. DOMAIN rows' \subseteq RowIds
    BY CommitWrites DEF TypeOK
  <2>2. ASSUME NEW j \in DOMAIN rows' PROVE rows'[j] \in Row
    <3>1. /\ DOMAIN rows' = DOMAIN rows \cup {nextId} /\ rows'[nextId] \in Row /\ rows'[i] \in Row
          /\ \A k \in DOMAIN rows : k # i => rows'[k] = rows[k]
      BY <1>1, <1>2, CommitWrites
    <3>2. \A k \in DOMAIN rows : rows[k] \in Row
      BY DEF TypeOK
    <3>. HIDE DEF i
    <3>. QED BY <3>1, <3>2
  <2>3. rows' = [j \in DOMAIN rows' |-> rows'[j]]
    BY DEF RotateCommit
  <2> QED BY <2>1, <2>2, <2>3
<1>4. nextId' = nextId + 1 /\ nextId' \in 1..(MaxRows + 1)
  BY BoundsAssumption DEF RotateCommit, TypeOK
<1>5. /\ rows'[i].family = rows[i].family /\ rows'[i].user = rows[i].user
      /\ rows'[nextId].family = f
  <2>0. rows'[nextId] = FreshRow(u, f)
    BY CommitWrites
  <2>1. rows'[nextId].family = f
    BY <2>0 DEF FreshRow
  <2>2. ASSUME NEW r \in Row
        PROVE  LET x == [r EXCEPT !.revokedAt = req[q].at, !.replacedBy = nextId]
               IN  x.family = r.family /\ x.user = r.user
    BY DEF Row
  <2> QED BY <2>1, <2>2, CommitWrites
<1>5a. TableBound'
  <2>1. \A j \in DOMAIN rows : rows'[j].family = rows[j].family
    BY <1>5, CommitWrites
  <2>2. \A j \in DOMAIN rows : j \in Used /\ rows[j].family \in Used
    BY DEF TableBound, Core
  <2>3. DOMAIN rows' = DOMAIN rows \cup {nextId} /\ Used' = Used \cup {nextId}
    BY CommitWrites
  <2>4. \A j \in DOMAIN rows' : j \in Used' /\ rows'[j].family \in Used'
    BY <1>5, <2>1, <2>2, <2>3
  <2> QED BY <2>4 DEF TableBound
<1>6. Kept
  <2>1. nextId \notin Used
    BY DEF Used, TypeOK
  <2> QED BY <1>5, <2>1, CommitWrites DEF Kept
<1>7. ReqOK(Idle)'
  BY DEF ReqOK, Idle
<1>8. \A p \in Requests : req[p].pc = "claimed" /\ p # q => LiveAfter(req[p].row)
  BY CommitWrites DEF RotateCommit, Core, ReqOK, IsLive, Stored, ClaimsExclusive, LiveAfter
<1>9. req'[q] = Idle /\ Goto(q, Idle)
  BY DEF RotateCommit, Done, Goto, TypeOK
<1>10. \A p \in Requests : req[p].pc = "claimed" /\ req'[p] # Idle => LiveAfter(req[p].row)
  BY <1>8, <1>9
<1>11. now' \in Nat /\ users' \subseteq Users /\ nextId' >= nextId
  BY <1>4 DEF RotateCommit, TypeOK
<1> HIDE DEF i, u, f
<1> QED BY <1>3, <1>4, <1>5a, <1>6, <1>7, <1>9, <1>10, <1>11, WriteCore, IdleType DEF Idle

\* A write that revokes rows nobody has locked, and inserts none.
LEMMA RevokeCore ==
  ASSUME Core, NEW q \in Requests, NEW r \in Request, NEW S,
         req[q].pc # "claimed",
         r.pc \in {"idle", "issue"}, r.snap = {},
         \A i \in S : ~Locked(i),
         DOMAIN rows' = DOMAIN rows, rows' \in [DOMAIN rows -> Row],
         \A i \in DOMAIN rows :
           /\ rows'[i].user = rows[i].user
           /\ rows'[i].family = rows[i].family
           /\ i \notin S => rows'[i] = rows[i],
         Goto(q, r), UNCHANGED <<now, users, nextId>>
  PROVE  Core'
<1> TypeOK /\ TableBound
  BY DEF Core
<1>1. Used' = Used /\ TableBound'
  BY DEF TableBound, Used
<1>2. Kept
  BY DEF Kept
<1>3. ReqOK(r)'
  BY DEF ReqOK
<1>4. \A p \in Requests : req[p].pc = "claimed" => LiveAfter(req[p].row)
  <2> SUFFICES ASSUME NEW p \in Requests, req[p].pc = "claimed"
               PROVE  LiveAfter(req[p].row)
    OBVIOUS
  <2>1. req[p].row \notin S
    BY DEF Locked
  <2>2. IsLive(req[p].row)
    BY DEF Core, ReqOK
  <2> QED BY <2>1, <2>2 DEF IsLive, Stored, LiveAfter
<1> QED BY <1>1, <1>2, <1>3, <1>4, WriteCore DEF TypeOK

\* The rows a sweep writes.
LEMMA SweepEffect ==
  ASSUME Core, NEW q \in Requests, SweepWrites(q)
  PROVE  /\ DOMAIN rows' = DOMAIN rows /\ rows' \in [DOMAIN rows -> Row]
         /\ \A i \in DOMAIN rows :
              /\ rows'[i].user = rows[i].user
              /\ rows'[i].family = rows[i].family
              /\ rows'[i].expiresAt = rows[i].expiresAt
              /\ rows'[i].replacedBy = rows[i].replacedBy
              /\ rows'[i].revokedAt =
                   IF i \in req[q].snap /\ IsLive(i) THEN req[q].at
                   ELSE rows[i].revokedAt
              /\ i \notin req[q].snap => rows'[i] = rows[i]
<1> TypeOK /\ req[q].at \in Nat
  BY DEF Core, TypeOK, Request
<1>1. DOMAIN rows' = DOMAIN rows
  BY DEF SweepWrites
<1>2. ASSUME NEW i \in DOMAIN rows
      PROVE  /\ rows'[i] \in Row
             /\ rows'[i].user = rows[i].user
             /\ rows'[i].family = rows[i].family
             /\ rows'[i].expiresAt = rows[i].expiresAt
             /\ rows'[i].replacedBy = rows[i].replacedBy
             /\ rows'[i].revokedAt =
                  IF i \in req[q].snap /\ IsLive(i) THEN req[q].at
                  ELSE rows[i].revokedAt
             /\ i \notin req[q].snap => rows'[i] = rows[i]
  <2>1. rows[i] \in Row
    BY DEF TypeOK
  <2>2. CASE i \in req[q].snap /\ IsLive(i)
    <3>1. rows'[i] = [rows[i] EXCEPT !.revokedAt = req[q].at]
      BY <2>2 DEF SweepWrites
    <3> QED BY <2>1, <2>2, <3>1 DEF Row
  <2>3. CASE ~(i \in req[q].snap /\ IsLive(i))
    BY <2>1, <2>3 DEF SweepWrites
  <2> QED BY <2>2, <2>3
<1> QED BY <1>1, <1>2 DEF SweepWrites

LEMMA OthersEffect ==
  ASSUME Core, NEW q \in Requests, OthersSave(q)
  PROVE  /\ DOMAIN rows' = DOMAIN rows /\ rows' \in [DOMAIN rows -> Row]
         /\ \A i \in DOMAIN rows :
              /\ rows'[i].user = rows[i].user
              /\ rows'[i].family = rows[i].family
              /\ rows'[i].expiresAt = rows[i].expiresAt
              /\ rows'[i].replacedBy =
                   IF i \in req[q].snap /\ i \in req[q].erase THEN Null
                   ELSE rows[i].replacedBy
              /\ i \in req[q].snap => rows'[i].revokedAt = req[q].at
              /\ i \notin req[q].snap => rows'[i] = rows[i]
<1> TypeOK /\ req[q].at \in Nat
  BY DEF Core, TypeOK, Request
<1>1. DOMAIN rows' = DOMAIN rows
  BY DEF OthersSave
<1>2. ASSUME NEW i \in DOMAIN rows
      PROVE  /\ rows'[i] \in Row
             /\ rows'[i].user = rows[i].user
             /\ rows'[i].family = rows[i].family
             /\ rows'[i].expiresAt = rows[i].expiresAt
             /\ rows'[i].replacedBy =
                  IF i \in req[q].snap /\ i \in req[q].erase THEN Null
                  ELSE rows[i].replacedBy
             /\ i \in req[q].snap => rows'[i].revokedAt = req[q].at
             /\ i \notin req[q].snap => rows'[i] = rows[i]
  <2>1. rows[i] \in Row
    BY DEF TypeOK
  <2>2. CASE i \in req[q].snap
    <3> DEFINE n == IF i \in req[q].erase THEN Null ELSE rows[i].replacedBy
    <3>1. rows'[i] = [rows[i] EXCEPT !.revokedAt = req[q].at, !.replacedBy = n]
      BY <2>2 DEF OthersSave
    <3>2. n \in RowIds \cup {Null}
      BY <2>1 DEF Row
    <3> HIDE DEF n
    <3>3. /\ rows'[i] \in Row /\ rows'[i].user = rows[i].user
          /\ rows'[i].family = rows[i].family
          /\ rows'[i].expiresAt = rows[i].expiresAt
          /\ rows'[i].replacedBy = n /\ rows'[i].revokedAt = req[q].at
      BY <2>1, <3>1, <3>2 DEF Row
    <3> QED BY <2>2, <3>3 DEF n
  <2>3. CASE i \notin req[q].snap
    BY <2>1, <2>3 DEF OthersSave
  <2> QED BY <2>2, <2>3
<1> QED BY <1>1, <1>2 DEF OthersSave

LEMMA WriteStepCore ==
  ASSUME Core, NEW q \in Requests,
         SweepCommit(q) \/ ReplaceCommit(q) \/ OthersSave(q)
  PROVE  Core'
<1>1. CASE SweepCommit(q)
  BY <1>1, SweepEffect, RevokeCore, IdleType
     DEF SweepCommit, SweepWrites, Done, Idle
<1>2. CASE ReplaceCommit(q)
  <2> DEFINE r == [Idle EXCEPT !.pc = "issue", !.user = req[q].user]
  <2>1. r \in Request /\ r.pc = "issue" /\ r.snap = {}
    BY DEF Core, TypeOK, Idle, Request, Pcs
  <2>2. Goto(q, r) /\ UNCHANGED <<now, users, nextId>> /\ req[q].pc # "claimed"
    BY <1>2 DEF ReplaceCommit
  <2> HIDE DEF r
  <2> QED BY <1>2, <2>1, <2>2, SweepEffect, RevokeCore DEF ReplaceCommit, SweepWrites
<1>3. CASE OthersSave(q)
  <2>1. /\ Goto(q, Idle) /\ UNCHANGED <<now, users, nextId>> /\ req[q].pc # "claimed"
        /\ \A i \in req[q].snap : ~Locked(i)
    BY <1>3 DEF OthersSave, Done
  <2> QED BY <1>3, <2>1, OthersEffect, RevokeCore, IdleType DEF Idle
<1> QED BY <1>1, <1>2, <1>3

\* Deleting rows nobody has locked.
LEMMA DeleteEffect ==
  ASSUME Core, NEW S, Delete(S)
  PROVE  /\ DOMAIN rows' = DOMAIN rows \ S
         /\ DOMAIN rows' \subseteq RowIds
         /\ rows' \in [DOMAIN rows' -> Row]
         /\ \A i \in DOMAIN rows' :
              /\ rows'[i].user = rows[i].user
              /\ rows'[i].family = rows[i].family
              /\ rows'[i].expiresAt = rows[i].expiresAt
              /\ rows'[i].revokedAt = rows[i].revokedAt
              /\ rows'[i].replacedBy =
                   IF rows[i].replacedBy \in S THEN Null ELSE rows[i].replacedBy
<1> TypeOK
  BY DEF Core
<1>1. ASSUME NEW i \in DOMAIN rows'
      PROVE  /\ rows'[i].user = rows[i].user
             /\ rows'[i].family = rows[i].family
             /\ rows'[i].expiresAt = rows[i].expiresAt
             /\ rows'[i].revokedAt = rows[i].revokedAt
             /\ rows'[i].replacedBy =
                  IF rows[i].replacedBy \in S THEN Null ELSE rows[i].replacedBy
  <2> DEFINE n == IF rows[i].replacedBy \in S THEN Null ELSE rows[i].replacedBy
  <2>1. rows[i] \in Row /\ rows'[i] = [rows[i] EXCEPT !.replacedBy = n]
    BY DEF TypeOK, Delete
  <2> HIDE DEF n
  <2>2. /\ rows'[i].user = rows[i].user /\ rows'[i].family = rows[i].family
        /\ rows'[i].expiresAt = rows[i].expiresAt
        /\ rows'[i].revokedAt = rows[i].revokedAt /\ rows'[i].replacedBy = n
    BY <2>1 DEF Row
  <2> QED BY <2>2 DEF n
<1> QED BY <1>1, DeleteType

LEMMA DeleteCore ==
  ASSUME Core, NEW S, Delete(S), \A i \in S : ~Locked(i),
         users' \subseteq Users, UNCHANGED <<now, nextId, req>>
  PROVE  Core'
<1> TypeOK /\ TableBound
  BY DEF Core
<1>0. /\ DOMAIN rows' = DOMAIN rows \ S
      /\ DOMAIN rows' \subseteq RowIds
      /\ rows' \in [DOMAIN rows' -> Row]
      /\ \A i \in DOMAIN rows' :
           /\ rows'[i].user = rows[i].user
           /\ rows'[i].family = rows[i].family
           /\ rows'[i].revokedAt = rows[i].revokedAt
  BY DeleteEffect
<1>1. Used' = Used
  BY DEF Used
<1>2. TableBound' /\ Kept
  BY <1>0, <1>1 DEF TableBound, Kept
<1>3. ReqOK(Idle)'
  BY DEF ReqOK, Idle
<1>4. \A p \in Requests : req[p].pc = "claimed" => LiveAfter(req[p].row)
  <2> SUFFICES ASSUME NEW p \in Requests, req[p].pc = "claimed"
               PROVE  LiveAfter(req[p].row)
    OBVIOUS
  <2>1. req[p].row \notin S
    BY DEF Locked
  <2>2. IsLive(req[p].row)
    BY DEF Core, ReqOK
  <2>3. req[p].row \in DOMAIN rows'
    BY <1>0, <2>1, <2>2 DEF IsLive, Stored
  <2> QED BY <1>0, <2>2, <2>3 DEF IsLive, LiveAfter
<1>5. /\ nextId' \in 1..(MaxRows + 1) /\ nextId' >= nextId /\ now' \in Nat
      /\ DOMAIN rows' \subseteq RowIds /\ rows' \in [DOMAIN rows' -> Row]
  BY <1>0, BoundsAssumption DEF TypeOK
<1> QED BY <1>2, <1>3, <1>4, <1>5, WriteCore, IdleType DEF Idle

LEMMA CoreInit == Init => Core
<1> SUFFICES ASSUME Init PROVE Core
  OBVIOUS
<1>1. TypeOK
  BY IdleType, BoundsAssumption DEF Init, TypeOK
<1>2. \A q \in Requests : ReqOK(req[q]) /\ req[q].pc = "idle"
  BY IdleOK DEF Init, Idle
<1>3. TableBound
  BY DEF Init, TableBound
<1> QED BY <1>1, <1>2, <1>3 DEF Core, ClaimsExclusive

LEMMA CoreStep == Core /\ [Next]_vars => Core'
<1> SUFFICES ASSUME Core, [Next]_vars PROVE Core'
  OBVIOUS
<1>1. ASSUME NEW q \in Requests, Begin(q) PROVE Core'
  <2>1. CASE \E i \in RowIds : RefreshVerify(q, i) \/ Logout(q, i)
    <3>1. CASE \E i \in RowIds : RefreshVerify(q, i)
      BY <3>1, RefreshStepCore
    <3>2. CASE \E i \in RowIds : Logout(q, i)
      <4>1. PICK i \in RowIds : Logout(q, i)
        BY <3>2
      <4>2. rows[i].user \in Users
        BY <4>1 DEF Logout, IsLive, Stored, Core, TypeOK, Row
      <4> QED BY <4>1, <4>2, BeginCore
    <3> QED BY <2>1, <3>1, <3>2
  <2>2. CASE \E u \in Users : SignIn(q, u) \/ RevokeAllForUser(q, u)
    <3>1. 1 \in RowIds
      BY BoundsAssumption
    <3> QED BY <2>2, <3>1, BeginCore
  <2>3. CASE \E u \in Users, i \in RowIds :
               SignInOver(q, u, i) \/ RevokeSession(q, u, i) \/ RevokeOtherSessions(q, u, i)
    BY <2>3, BeginCore
  <2> QED BY <1>1, <2>1, <2>2, <2>3 DEF Begin
<1>2. ASSUME NEW q \in Requests, Step(q) PROVE Core'
  BY <1>2, RefreshStepCore, RotateStepCore, SweepStartCore, MintCore,
     RotateCommitCore, WriteStepCore DEF Step
<1>3. ASSUME NEW q \in Requests, Fail(q) PROVE Core'
  BY <1>3, MoveCore, IdleType, IdleOK DEF Fail, Done, Idle
<1>4. CASE PurgeExpiredRefreshTokens
  <2>1. users' \subseteq Users
    BY <1>4 DEF PurgeExpiredRefreshTokens, Core, TypeOK
  <2> QED BY <1>4, <2>1, DeleteCore DEF PurgeExpiredRefreshTokens
<1>5. ASSUME NEW u \in Users, EraseUser(u) PROVE Core'
  <2>1. users' \subseteq Users
    BY <1>5 DEF EraseUser, Core, TypeOK
  <2> QED BY <1>5, <2>1, DeleteCore DEF EraseUser
<1>6. CASE Tick
  BY <1>6 DEF Tick, Core, TypeOK, TableBound, Used, ReqOK, Stored, IsLive, ClaimsExclusive
<1>7. CASE UNCHANGED vars
  BY <1>7 DEF vars, Core, TypeOK, TableBound, Used, ReqOK, Stored, IsLive, ClaimsExclusive
<1> QED BY <1>1, <1>2, <1>3, <1>4, <1>5, <1>6, <1>7 DEF Next

LEMMA CoreInvariant == Spec => []Core
BY CoreInit, CoreStep, PTL DEF Spec

\* Every reachable state of the store and of its handlers is well-typed, for
\* any number of members, requests and rows.
THEOREM TypeCorrect == Spec => []TypeOK
<1>1. Core => TypeOK
  BY DEF Core
<1> QED BY <1>1, CoreInvariant, PTL
-----------------------------------------------------------------------------
(* The few ways in which a step writes the table: a handler's first, then any. *)

\* q mints a row of family f for u: a sign-in, or a grace replacement.
Mints(q, u, f) ==
  /\ Insert(u, f) /\ Done(q) /\ UNCHANGED <<now, users>> /\ u \in users
  /\ \/ req[q].pc = "issue" /\ f = nextId
     \/ req[q].pc = "grace" /\ f \in Used /\ f = req[q].family /\ u = req[q].user

Sweeps(q) == SweepCommit(q) \/ ReplaceCommit(q)

LEMMA HandlerKinds ==
  ASSUME Core, NEW q \in Requests, Step(q)
  PROVE  \/ UNCHANGED <<users, rows, nextId>>
         \/ \E u \in Users, f \in RowIds : Mints(q, u, f)
         \/ RotateCommit(q) \/ Sweeps(q) \/ OthersSave(q)
<1>1. ASSUME ~(RotateCommit(q) \/ Sweeps(q) \/ OthersSave(q)
               \/ IssueGraceReplacement(q) \/ IssueTokens(q))
      PROVE  UNCHANGED <<users, rows, nextId>>
  BY <1>1 DEF Step, Sweeps, RefreshRefused, RefreshAdmitted, RefreshRaceAbsorbed,
              RefreshReuseDetected, RotateClaim, RotateClaimLost, LoserAbsorbed,
              LoserReuseDetected, BurnStart, LogoutSweep, ReplaceSweep, SweepStart,
              OthersDiff
<1>2. ASSUME IssueGraceReplacement(q) \/ IssueTokens(q)
      PROVE  \/ UNCHANGED <<users, rows, nextId>>
             \/ \E u \in Users, f \in RowIds : Mints(q, u, f)
  <2>1. users \subseteq Users /\ Used \subseteq RowIds
    BY BoundsAssumption DEF Core, TypeOK, Used
  <2>2. req[q].pc = "grace" => req[q].family \in Used
    BY DEF Core, ReqOK
  <2>3. CASE IssueGraceReplacement(q)
    BY <2>1, <2>2, <2>3 DEF IssueGraceReplacement, Mints
  <2>4. CASE IssueTokens(q)
    <3>1. CASE req[q].user \in users /\ Insert(req[q].user, NewFamily)
      <4>1. nextId \in RowIds
        BY <3>1, BoundsAssumption DEF Insert, Core, TypeOK
      <4> QED BY <2>1, <2>4, <3>1, <4>1 DEF IssueTokens, Mints, NewFamily
    <3> QED BY <2>4, <3>1 DEF IssueTokens
  <2> QED BY <1>2, <2>3, <2>4
<1> QED BY <1>1, <1>2

LEMMA StepKinds ==
  ASSUME Core, [Next]_vars
  PROVE  \/ UNCHANGED <<users, rows, nextId>>
         \/ \E q \in Requests, u \in Users, f \in RowIds : Mints(q, u, f)
         \/ \E q \in Requests : RotateCommit(q) \/ Sweeps(q) \/ OthersSave(q)
         \/ PurgeExpiredRefreshTokens
         \/ \E u \in Users : EraseUser(u)
<1>1. ASSUME NEW q \in Requests, Begin(q) PROVE UNCHANGED <<users, rows, nextId>>
  BY <1>1 DEF Begin, RefreshVerify, Logout, SignIn, SignInOver, RevokeAllForUser,
              RevokeSession, RevokeOtherSessions
<1>2. ASSUME NEW q \in Requests, Fail(q) PROVE UNCHANGED <<users, rows, nextId>>
  BY <1>2 DEF Fail
<1>3. Tick \/ UNCHANGED vars => UNCHANGED <<users, rows, nextId>>
  BY DEF Tick, vars
<1> QED BY <1>1, <1>2, <1>3, HandlerKinds DEF Next

LEMMA MintWrites ==
  ASSUME Core, NEW q \in Requests, NEW u \in Users, NEW f \in RowIds, Mints(q, u, f)
  PROVE  /\ DOMAIN rows' = DOMAIN rows \cup {nextId} /\ nextId \notin DOMAIN rows
         /\ nextId \in RowIds /\ Used' = Used \cup {nextId} /\ nextId \notin Used
         /\ rows'[nextId] = FreshRow(u, f)
         /\ \A i \in DOMAIN rows : rows'[i] = rows[i]
BY BoundsAssumption DEF Mints, Insert, Core, TypeOK, TableBound, Used

LEMMA NullRow == Null \notin RowIds /\ Null \notin Nat
BY NullAssumption

\* No step of any handler brings a revoked refresh token back to life.
THEOREM RevocationPermanence == Spec => RevocationIsPermanent
<1>1. ASSUME Core, [Next]_vars, NEW i \in DOMAIN rows,
             rows[i].revokedAt # Null, i \in DOMAIN rows'
      PROVE  rows'[i].revokedAt # Null
  <2>1. CASE UNCHANGED <<users, rows, nextId>>
    BY <1>1, <2>1
  <2>2. CASE \E q \in Requests, u \in Users, f \in RowIds : Mints(q, u, f)
    BY <1>1, <2>2, MintWrites
  <2>3. ASSUME NEW q \in Requests, RotateCommit(q) PROVE rows'[i].revokedAt # Null
    <3>1. req[q].row # i
      BY <1>1, <2>3 DEF RotateCommit, Core, ReqOK, IsLive
    <3> QED BY <1>1, <2>3, <3>1, CommitWrites
  <2>4. ASSUME NEW q \in Requests, Sweeps(q) PROVE rows'[i].revokedAt # Null
    <3>1. rows'[i].revokedAt = rows[i].revokedAt
      BY <1>1, <2>4, SweepEffect DEF Sweeps, SweepCommit, ReplaceCommit, IsLive
    <3> QED BY <1>1, <3>1
  <2>5. ASSUME NEW q \in Requests, OthersSave(q) PROVE rows'[i].revokedAt # Null
    <3>1. req[q].at \in Nat
      BY <1>1 DEF Core, TypeOK, Request
    <3> QED BY <1>1, <2>5, <3>1, OthersEffect, NullRow
  <2>6. ASSUME NEW S, Delete(S) PROVE rows'[i].revokedAt # Null
    BY <1>1, <2>6, DeleteEffect
  <2> QED BY <1>1, <2>1, <2>2, <2>3, <2>4, <2>5, <2>6, StepKinds
          DEF PurgeExpiredRefreshTokens, EraseUser
<1>2. Core /\ [Next]_vars =>
        [\A i \in DOMAIN rows :
           rows[i].revokedAt # Null /\ i \in DOMAIN rows' => rows'[i].revokedAt # Null]_vars
  BY <1>1
<1> QED BY <1>2, CoreInvariant, PTL DEF Spec, RevocationIsPermanent
-----------------------------------------------------------------------------
(* The rotation chains. *)

\* RotationLineage, with the successor's id already handed out: a row inserted
\* later is nobody's successor by accident.
Lineage ==
  \A i \in DOMAIN rows :
    LET j == rows[i].replacedBy IN
    j # Null =>
      /\ j \in Used
      /\ rows[i].revokedAt # Null
      /\ i < j
      /\ Stored(j) => rows[j].family = rows[i].family /\ rows[j].user = rows[i].user
      /\ \A k \in DOMAIN rows : rows[k].replacedBy = j => k = i

\* A write that keeps every row's member, family and revokedness, and links no
\* row to a successor, keeps the lineage.
LEMMA LineageKept ==
  ASSUME Core, Lineage, DOMAIN rows' \subseteq DOMAIN rows, UNCHANGED nextId,
         \A i \in DOMAIN rows' :
           /\ rows'[i].family = rows[i].family /\ rows'[i].user = rows[i].user
           /\ rows[i].revokedAt # Null => rows'[i].revokedAt # Null
           /\ rows'[i].replacedBy \in {rows[i].replacedBy, Null}
  PROVE  Lineage'
BY DEF Lineage, Stored, Used

LEMMA LineageStep == Core /\ Lineage /\ [Next]_vars => Lineage'
<1> SUFFICES ASSUME Core, Lineage, [Next]_vars PROVE Lineage'
  OBVIOUS
<1>1. CASE UNCHANGED <<users, rows, nextId>>
  BY <1>1 DEF Lineage, Stored, Used
<1>2. ASSUME NEW q \in Requests, NEW u \in Users, NEW f \in RowIds, Mints(q, u, f)
      PROVE  Lineage'
  <2>0. rows'[nextId] = FreshRow(u, f)
    BY <1>2, MintWrites
  <2>1. rows'[nextId].replacedBy = Null
    BY <2>0 DEF FreshRow
  <2>2. /\ DOMAIN rows' = DOMAIN rows \cup {nextId} /\ nextId \notin DOMAIN rows
        /\ Used' = Used \cup {nextId} /\ nextId \notin Used
        /\ \A i \in DOMAIN rows : rows'[i] = rows[i]
    BY <1>2, MintWrites
  <2> QED BY <2>1, <2>2 DEF Lineage, Stored
<1>3. ASSUME NEW q \in Requests, RotateCommit(q)
      PROVE  Lineage'
  <2> DEFINE i == req[q].row
  <2>1. /\ i \in DOMAIN rows /\ i \in Used /\ i < nextId
        /\ rows[i].user = req[q].user /\ rows[i].family = req[q].family
        /\ rows[i].revokedAt = Null /\ rows[i] \in Row
        /\ req[q].at \in Nat
    BY <1>3 DEF RotateCommit, Core, TypeOK, ReqOK, IsLive, Stored, Used, Request
  <2>2. /\ DOMAIN rows' = DOMAIN rows \cup {nextId} /\ nextId \notin DOMAIN rows
        /\ Used' = Used \cup {nextId} /\ nextId \in RowIds
        /\ rows'[nextId] = FreshRow(req[q].user, req[q].family)
        /\ rows'[i] = [rows[i] EXCEPT !.revokedAt = req[q].at, !.replacedBy = nextId]
        /\ \A j \in DOMAIN rows : j # i => rows'[j] = rows[j]
    BY <1>3, CommitWrites
  <2>3. nextId \notin Used /\ nextId # Null
    BY <2>2, NullRow DEF Used
  <2>4. /\ rows'[nextId].replacedBy = Null
        /\ rows'[nextId].family = req[q].family /\ rows'[nextId].user = req[q].user
    BY <2>2 DEF FreshRow
  <2>5. /\ rows'[i].replacedBy = nextId /\ rows'[i].revokedAt = req[q].at
        /\ rows'[i].family = rows[i].family /\ rows'[i].user = rows[i].user
    BY <2>1, <2>2 DEF Row
  <2>6. req[q].at # Null /\ rows[i].replacedBy = Null
    BY <2>1, NullRow DEF Lineage
  <2> HIDE DEF i
  <2>7. ASSUME NEW j \in DOMAIN rows', rows'[j].replacedBy # Null
        PROVE  LET k == rows'[j].replacedBy IN
               /\ k \in Used' /\ rows'[j].revokedAt # Null /\ j < k
               /\ k \in DOMAIN rows' => /\ rows'[k].family = rows'[j].family
                                        /\ rows'[k].user = rows'[j].user
               /\ \A l \in DOMAIN rows' : rows'[l].replacedBy = k => l = j
    <3>1. CASE j = i
      <4>1. \A l \in DOMAIN rows : l # i => rows[l].replacedBy # nextId
        BY <2>3 DEF Lineage
      <4> QED BY <2>1, <2>2, <2>3, <2>4, <2>5, <2>6, <3>1, <4>1
    <3>2. CASE j # i
      <4>1. j \in DOMAIN rows /\ rows'[j] = rows[j]
        BY <2>2, <2>4, <2>7, <3>2
      <4>2. LET k == rows[j].replacedBy IN
            /\ k \in Used /\ rows[j].revokedAt # Null /\ j < k
            /\ k \in DOMAIN rows => /\ rows[k].family = rows[j].family
                                    /\ rows[k].user = rows[j].user
            /\ \A l \in DOMAIN rows : rows[l].replacedBy = k => l = j
        BY <2>7, <4>1 DEF Lineage, Stored
      <4> DEFINE k == rows[j].replacedBy
      <4>3. k # Null /\ k # nextId
        BY <2>3, <2>7, <4>1, <4>2
      <4>4. k \in Used' /\ rows'[j].revokedAt # Null /\ j < k
        BY <2>2, <4>1, <4>2
      <4>5. ASSUME k \in DOMAIN rows'
            PROVE  rows'[k].family = rows'[j].family /\ rows'[k].user = rows'[j].user
        <5>1. k \in DOMAIN rows
          BY <2>2, <4>3, <4>5
        <5>2. rows'[k].family = rows[k].family /\ rows'[k].user = rows[k].user
          BY <2>2, <2>5, <5>1
        <5> QED BY <4>1, <4>2, <5>1, <5>2
      <4>6. ASSUME NEW l \in DOMAIN rows', rows'[l].replacedBy = k PROVE l = j
        <5>1. l # nextId /\ l # i
          BY <2>4, <2>5, <4>3, <4>6
        <5>2. l \in DOMAIN rows /\ rows[l].replacedBy = k
          BY <2>2, <4>6, <5>1
        <5> QED BY <4>2, <5>2
      <4> QED BY <4>1, <4>4, <4>5, <4>6
    <3> QED BY <3>1, <3>2
  <2> QED BY <2>7 DEF Lineage, Stored
<1>4. ASSUME NEW q \in Requests, Sweeps(q) PROVE Lineage'
  <2>1. SweepWrites(q) /\ UNCHANGED nextId /\ req[q].at \in Nat
    BY <1>4 DEF Sweeps, SweepCommit, ReplaceCommit, Core, TypeOK, Request
  <2> QED BY <2>1, SweepEffect, LineageKept, NullRow
<1>5. ASSUME NEW q \in Requests, OthersSave(q) PROVE Lineage'
  <2>1. UNCHANGED nextId /\ req[q].at \in Nat
    BY <1>5 DEF OthersSave, Core, TypeOK, Request
  <2> QED BY <1>5, <2>1, OthersEffect, LineageKept, NullRow
<1>6. ASSUME NEW S, Delete(S), UNCHANGED nextId PROVE Lineage'
  BY <1>6, DeleteEffect, LineageKept
<1> QED BY <1>1, <1>2, <1>3, <1>4, <1>5, <1>6, StepKinds
        DEF PurgeExpiredRefreshTokens, EraseUser

\* Rotation keeps a session one chain of one member, with one winner per row.
THEOREM RotationLineageHolds == Spec => []RotationLineage
<1>1. Init => Lineage
  BY DEF Init, Lineage
<1>2. Lineage => RotationLineage
  BY DEF Lineage, RotationLineage
<1> QED BY <1>1, <1>2, LineageStep, CoreInvariant, PTL DEF Spec

-----------------------------------------------------------------------------
(* Members own families. *)

\* The requests that may still write a row of the family they read.
WriterPcs == {"rotate", "claimed", "lost", "grace"}

\* Somewhere, in the table or in a request's hands, family f is u's.  The
\* requests count: they outlive the rows they read.
RowHolds(u, f) == \E i \in DOMAIN rows : rows[i].user = u /\ rows[i].family = f
ReqHolds(u, f) == \E q \in Requests :
                    req[q].pc \in WriterPcs /\ req[q].user = u /\ req[q].family = f
Holds(u, f)    == RowHolds(u, f) \/ ReqHolds(u, f)

Owners == \A u, v, f : Holds(u, f) /\ Holds(v, f) => u = v

LEMMA HoldsUsed == Core => \A u, f : Holds(u, f) => f \in Used
BY DEF Core, Holds, RowHolds, ReqHolds, TableBound, ReqOK, WriterPcs

\* A step that moves request q on hands out no family it does not hold.
LEMMA GotoHolds ==
  ASSUME Core, NEW q \in Requests, NEW r, Goto(q, r),
         r.pc \in WriterPcs => Holds(r.user, r.family),
         NEW u, NEW f, ReqHolds(u, f)'
  PROVE  Holds(u, f)
<1>1. PICK p \in Requests : req'[p].pc \in WriterPcs /\ req'[p].user = u /\ req'[p].family = f
  BY DEF ReqHolds
<1>2. req'[p] = req[p] \/ req'[p] = r
  BY DEF Goto, Core, TypeOK
<1> QED BY <1>1, <1>2 DEF Holds, ReqHolds

LEMMA GoOnHolds ==
  ASSUME Core, NEW q \in Requests, NEW pc, Stored(req[q].row), GoOn(q, pc),
         NEW u, NEW f, ReqHolds(u, f)'
  PROVE  Holds(u, f)
<1> DEFINE i == req[q].row
           r == [Idle EXCEPT !.pc = pc, !.row = i,
                             !.user = rows[i].user, !.family = rows[i].family]
<1>1. r.user = rows[i].user /\ r.family = rows[i].family
  BY DEF Idle
<1>2. Holds(r.user, r.family)
  BY <1>1 DEF Holds, RowHolds, Stored
<1>3. Goto(q, r)
  BY DEF GoOn
<1> HIDE DEF r
<1> QED BY <1>2, <1>3, GotoHolds

\* The step moves request q on, and nothing else about the requests.
Moves(q) == req' = [req EXCEPT ![q] = req'[q]]

LEMMA WriterGoesOn ==
  ASSUME Core, NEW q \in Requests, Moves(q),
         req'[q].pc \in WriterPcs =>
           /\ req[q].pc \in WriterPcs
           /\ req'[q].user = req[q].user /\ req'[q].family = req[q].family,
         NEW u, NEW f, ReqHolds(u, f)'
  PROVE  Holds(u, f)
<1>1. req'[q].pc \in WriterPcs => Holds(req'[q].user, req'[q].family)
  BY DEF Holds, ReqHolds
<1> QED BY <1>1, GotoHolds DEF Goto, Moves

\* Requests take families from the table or keep the one they have.
LEMMA ReqHoldsStep ==
  ASSUME Core, [Next]_vars, NEW u, NEW f, ReqHolds(u, f)'
  PROVE  Holds(u, f)
<1> req \in [Requests -> Request]
  BY DEF Core, TypeOK
<1>0. ASSUME UNCHANGED req PROVE Holds(u, f)
  BY <1>0 DEF Holds, ReqHolds
<1>1. ASSUME NEW q \in Requests, Begin(q) PROVE Holds(u, f)
  <2>1. Moves(q) /\ req'[q].pc \notin WriterPcs
    <3>1. ASSUME NEW v, NEW i, Logout(q, i) \/ RefreshVerify(q, i) \/ SignIn(q, v)
          PROVE  Moves(q) /\ req'[q].pc \notin WriterPcs
      BY <3>1 DEF Goto, Moves, Logout, RefreshVerify, SignIn, WriterPcs, Idle
    <3>2. ASSUME NEW v, NEW i, SignInOver(q, v, i) PROVE Moves(q) /\ req'[q].pc \notin WriterPcs
      BY <3>2 DEF Goto, Moves, SignInOver, WriterPcs, Idle
    <3>4. ASSUME NEW v, RevokeAllForUser(q, v) PROVE Moves(q) /\ req'[q].pc \notin WriterPcs
      BY <3>4 DEF Goto, Moves, RevokeAllForUser, WriterPcs, Idle
    <3>3. ASSUME NEW v, NEW i, RevokeSession(q, v, i)
          PROVE  Moves(q) /\ req'[q].pc \notin WriterPcs
      BY <3>3 DEF Goto, Moves, RevokeSession, WriterPcs, Idle
    <3>5. ASSUME NEW v, NEW i, RevokeOtherSessions(q, v, i)
          PROVE  Moves(q) /\ req'[q].pc \notin WriterPcs
      BY <3>5 DEF Goto, Moves, RevokeOtherSessions, WriterPcs, Idle
    <3> QED BY <1>1, <3>1, <3>2, <3>3, <3>4, <3>5 DEF Begin
  <2> QED BY <2>1, WriterGoesOn
<1>2. ASSUME NEW q \in Requests, RefreshAdmitted(q) \/ RefreshRaceAbsorbed(q)
             \/ RefreshReuseDetected(q)
      PROVE  Holds(u, f)
  BY <1>2, GoOnHolds DEF RefreshAdmitted, RefreshRaceAbsorbed, RefreshReuseDetected,
                         IsLive, WithinRotationGrace
<1>3. ASSUME NEW q \in Requests, RotateClaim(q) \/ RotateClaimLost(q) \/ LoserAbsorbed(q)
      PROVE  Holds(u, f)
  <2>1. /\ Moves(q) /\ req[q].pc \in WriterPcs
        /\ req'[q].user = req[q].user /\ req'[q].family = req[q].family
    BY <1>3
       DEF Goto, Moves, RotateClaim, RotateClaimLost, LoserAbsorbed, WriterPcs, Request
  <2> QED BY <2>1, WriterGoesOn
<1>4. ASSUME NEW q \in Requests,
             \/ LoserReuseDetected(q) \/ BurnStart(q) \/ LogoutSweep(q)
             \/ ReplaceSweep(q) \/ OthersDiff(q)
      PROVE  Holds(u, f)
  <2>0. req \in [Requests -> Request]
    BY DEF Core, TypeOK
  <2>1. Moves(q) /\ req'[q].pc \notin WriterPcs
    <3>1. CASE LoserReuseDetected(q)
      BY <2>0, <3>1 DEF LoserReuseDetected, Goto, Moves, WriterPcs, Request
    <3>2. CASE BurnStart(q)
      BY <2>0, <3>2 DEF BurnStart, SweepStart, Goto, Moves, WriterPcs, Request
    <3>3. CASE LogoutSweep(q)
      BY <2>0, <3>3 DEF LogoutSweep, SweepStart, Goto, Moves, WriterPcs, Request
    <3>4. CASE ReplaceSweep(q)
      BY <2>0, <3>4 DEF ReplaceSweep, SweepStart, Goto, Moves, WriterPcs, Request
    <3>5. CASE OthersDiff(q)
      BY <2>0, <3>5 DEF OthersDiff, Goto, Moves, WriterPcs, Request
    <3> QED BY <1>4, <3>1, <3>2, <3>3, <3>4, <3>5
  <2> QED BY <2>1, WriterGoesOn
<1>5. ASSUME NEW q \in Requests,
             \/ RefreshRefused(q) \/ RotateCommit(q) \/ IssueGraceReplacement(q)
             \/ SweepCommit(q) \/ ReplaceCommit(q) \/ IssueTokens(q)
             \/ OthersSave(q) \/ Fail(q)
      PROVE  Holds(u, f)
  <2>1. Done(q) \/ ReplaceCommit(q)
    BY <1>5 DEF RefreshRefused, RotateCommit, IssueGraceReplacement, SweepCommit,
                IssueTokens, OthersSave, Fail
  <2>2. Moves(q) /\ req'[q].pc \notin WriterPcs
    <3>1. CASE Done(q)
      BY <3>1 DEF Goto, Moves, Done, Idle, WriterPcs
    <3>2. CASE ReplaceCommit(q)
      BY <3>2 DEF Goto, Moves, ReplaceCommit, Idle, WriterPcs
    <3> QED BY <2>1, <3>1, <3>2
  <2> QED BY <2>2, WriterGoesOn
<1>6. PurgeExpiredRefreshTokens \/ (\E v \in Users : EraseUser(v)) \/ Tick
        \/ UNCHANGED vars => UNCHANGED req
  BY DEF PurgeExpiredRefreshTokens, EraseUser, Tick, vars
<1> QED BY <1>0, <1>1, <1>2, <1>3, <1>4, <1>5, <1>6 DEF Next, Step

\* The table gets families from requests, and one new family from a sign-in.
LEMMA RowHoldsStep ==
  ASSUME Core, [Next]_vars
  PROVE  \E w : \A u, f : RowHolds(u, f)' => Holds(u, f) \/ (f = nextId /\ u = w)
<1>1. ASSUME DOMAIN rows' \subseteq DOMAIN rows,
             \A i \in DOMAIN rows' : rows'[i].user = rows[i].user
                                     /\ rows'[i].family = rows[i].family
      PROVE  \A u, f : RowHolds(u, f)' => Holds(u, f)
  BY <1>1 DEF RowHolds, Holds
<1>2. CASE UNCHANGED <<users, rows, nextId>>
  BY <1>2 DEF RowHolds, Holds
<1>3. ASSUME NEW q \in Requests, NEW w \in Users, NEW g \in RowIds, Mints(q, w, g),
             NEW u, NEW f, RowHolds(u, f)'
      PROVE  Holds(u, f) \/ (f = nextId /\ u = w)
  <2>1. /\ DOMAIN rows' = DOMAIN rows \cup {nextId}
        /\ rows'[nextId] = FreshRow(w, g)
        /\ \A i \in DOMAIN rows : rows'[i] = rows[i]
    BY <1>3, MintWrites
  <2>2. rows'[nextId].user = w /\ rows'[nextId].family = g
    BY <2>1 DEF FreshRow
  <2>3. g = nextId \/ Holds(w, g)
    BY <1>3 DEF Mints, Holds, ReqHolds, WriterPcs
  <2>4. PICK i \in DOMAIN rows' : rows'[i].user = u /\ rows'[i].family = f
    BY <1>3 DEF RowHolds
  <2>5. CASE i = nextId
    BY <2>2, <2>3, <2>4, <2>5
  <2>6. CASE i \in DOMAIN rows
    BY <2>1, <2>4, <2>6 DEF Holds, RowHolds
  <2> QED BY <2>1, <2>5, <2>6
<1>4. ASSUME NEW q \in Requests, RotateCommit(q), NEW u, NEW f, RowHolds(u, f)'
      PROVE  Holds(u, f)
  <2> DEFINE j == req[q].row
  <2>1. /\ DOMAIN rows' = DOMAIN rows \cup {nextId} /\ j \in DOMAIN rows
        /\ rows'[nextId] = FreshRow(req[q].user, req[q].family)
        /\ rows'[j] = [rows[j] EXCEPT !.revokedAt = req[q].at, !.replacedBy = nextId]
        /\ \A i \in DOMAIN rows : i # j => rows'[i] = rows[i]
    BY <1>4, CommitWrites
  <2>2. rows'[nextId].user = req[q].user /\ rows'[nextId].family = req[q].family
    BY <2>1 DEF FreshRow
  <2>3. Holds(req[q].user, req[q].family)
    BY <1>4 DEF RotateCommit, Holds, ReqHolds, WriterPcs
  <2>4. rows'[j].user = rows[j].user /\ rows'[j].family = rows[j].family
    BY <2>1 DEF Core, TypeOK, Row
  <2>5. PICK i \in DOMAIN rows' : rows'[i].user = u /\ rows'[i].family = f
    BY <1>4 DEF RowHolds
  <2>6. CASE i = nextId
    BY <2>2, <2>3, <2>5, <2>6
  <2>7. CASE i \in DOMAIN rows
    <3>1. rows[i].user = u /\ rows[i].family = f
      BY <2>1, <2>4, <2>5, <2>7
    <3> QED BY <2>7, <3>1 DEF Holds, RowHolds
  <2> QED BY <2>1, <2>6, <2>7
<1>5. ASSUME NEW q \in Requests, Sweeps(q) PROVE \A u, f : RowHolds(u, f)' => Holds(u, f)
  BY <1>1, <1>5, SweepEffect DEF Sweeps, SweepCommit, ReplaceCommit
<1>6. ASSUME NEW q \in Requests, OthersSave(q)
      PROVE  \A u, f : RowHolds(u, f)' => Holds(u, f)
  BY <1>1, <1>6, OthersEffect
<1>7. ASSUME NEW S, Delete(S) PROVE \A u, f : RowHolds(u, f)' => Holds(u, f)
  BY <1>1, <1>7, DeleteEffect
<1> QED BY <1>2, <1>3, <1>4, <1>5, <1>6, <1>7, StepKinds
        DEF PurgeExpiredRefreshTokens, EraseUser

LEMMA OwnersStep == Core /\ Owners /\ [Next]_vars => Owners'
<1> SUFFICES ASSUME Core, Owners, [Next]_vars PROVE Owners'
  OBVIOUS
<1>1. PICK w : \A u, f : RowHolds(u, f)' => Holds(u, f) \/ (f = nextId /\ u = w)
  BY RowHoldsStep
<1>2. \A u, f : Holds(u, f)' => Holds(u, f) \/ (f = nextId /\ u = w)
  BY <1>1, ReqHoldsStep DEF Holds
<1>3. \A u : ~Holds(u, nextId)
  BY HoldsUsed DEF Used, Core, TypeOK
<1>4. ASSUME NEW u, NEW v, NEW f, Holds(u, f)', Holds(v, f)' PROVE u = v
  BY <1>2, <1>3, <1>4 DEF Owners
<1> QED BY <1>4 DEF Owners

\* A session never changes hands: no family ever has rows of two members, so
\* neither a sweep nor a rotation reaches across members.
THEOREM OneFamilyOneOwnerHolds == Spec => []OneFamilyOneOwner
<1>1. Init => Owners
  BY DEF Init, Owners, Holds, RowHolds, ReqHolds, Idle, WriterPcs
<1>2. Owners => OneFamilyOneOwner
  BY DEF Owners, OneFamilyOneOwner, Holds, RowHolds
<1> QED BY <1>1, <1>2, OwnersStep, CoreInvariant, PTL DEF Spec

-----------------------------------------------------------------------------
(* What the clock has to do with it: the purge forgets nothing a client could *)
(* still present, and a session that is over stays over. *)

\* Request record r knows when: the rows it is about to revoke were minted no
\* later than the Date it will write.
Timely(r) ==
  \A i \in DOMAIN rows :
    i \in r.snap \/ (r.pc = "claimed" /\ i = r.row) => rows[i].expiresAt <= r.at + RefreshTtl

\* A row is revoked within its lifetime, or after it.
Times ==
  /\ \A i \in DOMAIN rows :
       /\ rows[i].expiresAt <= now + RefreshTtl
       /\ rows[i].revokedAt # Null => rows[i].expiresAt <= rows[i].revokedAt + RefreshTtl
  /\ \A q \in Requests : Timely(req[q])

\* How request p's record changes, as far as the rows and the Date it holds.
LEMMA ReqTimes ==
  ASSUME Core, [Next]_vars, NEW p \in Requests
  PROVE  \/ req'[p] = req[p]
         \/ req'[p].at = now
         \/ req'[p].pc # "claimed" /\ req'[p].snap = {}
         \/ req'[p].pc # "claimed" /\ req'[p].snap = req[p].snap /\ req'[p].at = req[p].at
<1> DEFINE Goal == \/ req'[p] = req[p]
                   \/ req'[p].at = now
                   \/ req'[p].pc # "claimed" /\ req'[p].snap = {}
                   \/ req'[p].pc # "claimed" /\ req'[p].snap = req[p].snap
                                             /\ req'[p].at = req[p].at
<1> req \in [Requests -> Request]
  BY DEF Core, TypeOK
<1>1. ASSUME NEW q \in Requests, Begin(q) PROVE Goal
  <2>1. ASSUME NEW v, NEW i, Logout(q, i) \/ RefreshVerify(q, i) \/ SignIn(q, v) PROVE Goal
    BY <2>1 DEF Goto, Logout, RefreshVerify, SignIn, Idle
  <2>2. ASSUME NEW v, NEW i, SignInOver(q, v, i) \/ RevokeAllForUser(q, v) PROVE Goal
    BY <2>2 DEF Goto, SignInOver, RevokeAllForUser, Idle
  <2>3. ASSUME NEW v, NEW i, RevokeSession(q, v, i) \/ RevokeOtherSessions(q, v, i)
        PROVE  Goal
    BY <2>3 DEF Goto, RevokeSession, RevokeOtherSessions, Idle
  <2> QED BY <1>1, <2>1, <2>2, <2>3 DEF Begin
<1>2. ASSUME NEW q \in Requests, NEW pc, GoOn(q, pc), pc # "claimed" PROVE Goal
  BY <1>2 DEF GoOn, Goto, Idle
<1>3. ASSUME NEW q \in Requests, RotateClaim(q) \/ BurnStart(q) \/ LogoutSweep(q) \/ ReplaceSweep(q)
      PROVE  Goal
  BY <1>3 DEF RotateClaim, BurnStart, LogoutSweep, ReplaceSweep, SweepStart, Goto, Request
<1>4. ASSUME NEW q \in Requests, RotateClaimLost(q) \/ LoserAbsorbed(q)
             \/ LoserReuseDetected(q) \/ OthersDiff(q)
      PROVE  Goal
  <2>1. CASE RotateClaimLost(q) \/ LoserAbsorbed(q)
    BY <2>1 DEF RotateClaimLost, LoserAbsorbed, Goto, Request
  <2>2. CASE LoserReuseDetected(q)
    BY <2>2 DEF LoserReuseDetected, Goto, Request
  <2>3. CASE OthersDiff(q)
    BY <2>3 DEF OthersDiff, Goto, Request
  <2> QED BY <1>4, <2>1, <2>2, <2>3
<1>5. ASSUME NEW q \in Requests, Done(q) PROVE Goal
  BY <1>5 DEF Done, Goto, Idle
<1>6. ASSUME NEW q \in Requests, ReplaceCommit(q) PROVE Goal
  BY <1>6 DEF ReplaceCommit, Goto, Idle
<1>7. ASSUME UNCHANGED req PROVE Goal
  BY <1>7
<1>8. ASSUME NEW q \in Requests, Step(q) PROVE Goal
  <2>1. CASE RefreshAdmitted(q) \/ RefreshRaceAbsorbed(q) \/ RefreshReuseDetected(q)
    BY <1>2, <2>1 DEF RefreshAdmitted, RefreshRaceAbsorbed, RefreshReuseDetected
  <2>2. CASE \/ RefreshRefused(q) \/ RotateCommit(q) \/ IssueGraceReplacement(q)
             \/ SweepCommit(q) \/ IssueTokens(q) \/ OthersSave(q)
    BY <1>5, <2>2 DEF RefreshRefused, RotateCommit, IssueGraceReplacement, SweepCommit,
                      IssueTokens, OthersSave
  <2> QED BY <1>3, <1>4, <1>6, <1>8, <2>1, <2>2 DEF Step
<1>9. PurgeExpiredRefreshTokens \/ (\E v \in Users : EraseUser(v)) \/ Tick
        \/ UNCHANGED vars => UNCHANGED req
  BY DEF PurgeExpiredRefreshTokens, EraseUser, Tick, vars
<1> HIDE DEF Goal
<1>10. Goal
  BY <1>1, <1>5, <1>7, <1>8, <1>9 DEF Next, Fail
<1> QED BY <1>10 DEF Goal

\* A row keeps its expiry and is revoked at a Date that came after its birth.
LEMMA RowTimes ==
  ASSUME Core, Times, [Next]_vars, NEW i \in DOMAIN rows'
  PROVE  /\ i \in DOMAIN rows => rows'[i].expiresAt = rows[i].expiresAt
         /\ i \notin DOMAIN rows => i \notin Used /\ rows'[i].expiresAt = now + RefreshTtl
         /\ rows'[i].revokedAt # Null =>
              rows'[i].expiresAt <= rows'[i].revokedAt + RefreshTtl
<1> DEFINE Goal ==
         /\ i \in DOMAIN rows => rows'[i].expiresAt = rows[i].expiresAt
         /\ i \notin DOMAIN rows => i \notin Used /\ rows'[i].expiresAt = now + RefreshTtl
         /\ rows'[i].revokedAt # Null =>
              rows'[i].expiresAt <= rows'[i].revokedAt + RefreshTtl
<1>1. CASE UNCHANGED <<users, rows, nextId>>
  BY <1>1 DEF Times
<1>2. ASSUME NEW q \in Requests, NEW u \in Users, NEW f \in RowIds, Mints(q, u, f)
      PROVE  Goal
  <2>1. /\ DOMAIN rows' = DOMAIN rows \cup {nextId} /\ nextId \notin Used
        /\ rows'[nextId] = FreshRow(u, f)
        /\ \A j \in DOMAIN rows : rows'[j] = rows[j]
    BY <1>2, MintWrites
  <2>2. rows'[nextId].expiresAt = now + RefreshTtl /\ rows'[nextId].revokedAt = Null
    BY <2>1 DEF FreshRow
  <2>3. CASE i \in DOMAIN rows
    BY <2>1, <2>3 DEF Times
  <2>4. CASE i \notin DOMAIN rows
    BY <2>1, <2>2, <2>4
  <2> QED BY <2>3, <2>4
<1>3. ASSUME NEW q \in Requests, RotateCommit(q) PROVE Goal
  <2> DEFINE c == req[q].row
  <2>1. /\ DOMAIN rows' = DOMAIN rows \cup {nextId} /\ nextId \in RowIds
        /\ c \in DOMAIN rows
        /\ rows'[nextId] = FreshRow(req[q].user, req[q].family)
        /\ rows'[c] = [rows[c] EXCEPT !.revokedAt = req[q].at, !.replacedBy = nextId]
        /\ \A j \in DOMAIN rows : j # c => rows'[j] = rows[j]
    BY <1>3, CommitWrites
  <2>2. rows'[nextId].expiresAt = now + RefreshTtl /\ rows'[nextId].revokedAt = Null
    BY <2>1 DEF FreshRow
  <2>3. rows'[c].expiresAt = rows[c].expiresAt /\ rows'[c].revokedAt = req[q].at
    BY <2>1 DEF Core, TypeOK, Row
  <2>4. rows[c].expiresAt <= req[q].at + RefreshTtl
    BY <1>3, <2>1 DEF Times, Timely, RotateCommit
  <2>5. nextId \notin Used
    BY <2>1 DEF Used
  <2>6. CASE i \in DOMAIN rows
    <3>1. CASE i = c
      BY <2>3, <2>4, <2>6, <3>1
    <3>2. CASE i # c
      BY <2>1, <2>6, <3>2 DEF Times
    <3> QED BY <3>1, <3>2
  <2>7. CASE i \notin DOMAIN rows
    BY <2>1, <2>2, <2>5, <2>7
  <2> QED BY <2>6, <2>7
<1>4. ASSUME NEW q \in Requests, Sweeps(q) PROVE Goal
  <2>1. SweepWrites(q)
    BY <1>4 DEF Sweeps, SweepCommit, ReplaceCommit
  <2>2. /\ i \in DOMAIN rows /\ rows'[i].expiresAt = rows[i].expiresAt
        /\ rows'[i].revokedAt = IF i \in req[q].snap /\ IsLive(i) THEN req[q].at
                                ELSE rows[i].revokedAt
    BY <2>1, SweepEffect
  <2>3. CASE i \in req[q].snap /\ IsLive(i)
    BY <2>2, <2>3 DEF Times, Timely
  <2>4. CASE ~(i \in req[q].snap /\ IsLive(i))
    BY <2>2, <2>4 DEF Times
  <2> QED BY <2>3, <2>4
<1>5. ASSUME NEW q \in Requests, OthersSave(q) PROVE Goal
  <2>1. /\ i \in DOMAIN rows /\ rows'[i].expiresAt = rows[i].expiresAt
        /\ i \in req[q].snap => rows'[i].revokedAt = req[q].at
        /\ i \notin req[q].snap => rows'[i] = rows[i]
    BY <1>5, OthersEffect
  <2>2. CASE i \in req[q].snap
    BY <2>1, <2>2 DEF Times, Timely
  <2>3. CASE i \notin req[q].snap
    BY <2>1, <2>3 DEF Times
  <2> QED BY <2>2, <2>3
<1>6. ASSUME NEW S, Delete(S) PROVE Goal
  <2>1. /\ i \in DOMAIN rows
        /\ rows'[i].expiresAt = rows[i].expiresAt /\ rows'[i].revokedAt = rows[i].revokedAt
    BY <1>6, DeleteEffect
  <2> QED BY <2>1 DEF Times
<1> HIDE DEF Goal
<1>7. Goal
  BY <1>1, <1>2, <1>3, <1>4, <1>5, <1>6, StepKinds DEF Goal, PurgeExpiredRefreshTokens, EraseUser
<1> QED BY <1>7 DEF Goal

LEMMA ClockMoves ==
  ASSUME Core, [Next]_vars
  PROVE  /\ now \in Nat /\ now' \in Nat /\ now' >= now
         /\ nextId \in Nat /\ nextId' \in Nat /\ nextId' >= nextId /\ Core'
<1>1. now' = now \/ now' = now + 1
  <2>1. ASSUME NEW q \in Requests, Begin(q) PROVE now' = now
    BY <2>1 DEF Begin, RefreshVerify, Logout, SignIn, SignInOver, RevokeAllForUser,
                RevokeSession, RevokeOtherSessions
  <2>2. ASSUME NEW q \in Requests, Step(q) PROVE now' = now
    <3>1. CASE \/ RefreshRefused(q) \/ RefreshAdmitted(q) \/ RefreshRaceAbsorbed(q)
               \/ RefreshReuseDetected(q) \/ RotateClaim(q) \/ RotateClaimLost(q)
      BY <3>1 DEF RefreshRefused, RefreshAdmitted, RefreshRaceAbsorbed, RefreshReuseDetected,
                  RotateClaim, RotateClaimLost
    <3>2. CASE \/ RotateCommit(q) \/ LoserAbsorbed(q) \/ LoserReuseDetected(q)
               \/ IssueGraceReplacement(q) \/ BurnStart(q) \/ LogoutSweep(q)
      BY <3>2 DEF RotateCommit, LoserAbsorbed, LoserReuseDetected, IssueGraceReplacement,
                  BurnStart, LogoutSweep, SweepStart
    <3>3. CASE \/ SweepCommit(q) \/ ReplaceSweep(q) \/ ReplaceCommit(q) \/ IssueTokens(q)
               \/ OthersDiff(q) \/ OthersSave(q)
      BY <3>3 DEF SweepCommit, ReplaceSweep, ReplaceCommit, IssueTokens, OthersDiff, OthersSave,
                  SweepStart
    <3> QED BY <2>2, <3>1, <3>2, <3>3 DEF Step
  <2>3. ASSUME NEW q \in Requests, Fail(q) PROVE now' = now
    BY <2>3 DEF Fail
  <2>4. PurgeExpiredRefreshTokens \/ (\E u \in Users : EraseUser(u)) => now' = now
    BY DEF PurgeExpiredRefreshTokens, EraseUser
  <2>5. Tick => now' = now + 1
    BY DEF Tick
  <2>6. UNCHANGED vars => now' = now
    BY DEF vars
  <2> QED BY <2>1, <2>2, <2>3, <2>4, <2>5, <2>6 DEF Next
<1>2. nextId' = nextId \/ nextId' = nextId + 1
  BY StepKinds DEF Mints, Insert, Sweeps, SweepCommit, ReplaceCommit, RotateCommit,
                   OthersSave, PurgeExpiredRefreshTokens, EraseUser
<1> QED BY <1>1, <1>2, CoreStep, BoundsAssumption DEF Core, TypeOK

LEMMA TimesStep == Core /\ Times /\ [Next]_vars => Times'
<1> SUFFICES ASSUME Core, Times, [Next]_vars PROVE Times'
  OBVIOUS
<1>1. now \in Nat /\ now' \in Nat /\ now' >= now /\ RefreshTtl \in Nat /\ Core'
  BY ClockMoves, TimesAssumption
<1>2. ASSUME NEW i \in DOMAIN rows' PROVE rows'[i].expiresAt <= now + RefreshTtl
  <2>1. CASE i \in DOMAIN rows
    BY <2>1, RowTimes DEF Times
  <2>2. CASE i \notin DOMAIN rows
    BY <1>1, <2>2, RowTimes
  <2> QED BY <2>1, <2>2
<1>3. ASSUME NEW i \in DOMAIN rows' PROVE rows'[i].expiresAt <= now' + RefreshTtl
  <2>1. rows'[i].expiresAt \in Nat
    BY <1>1 DEF Core, TypeOK, Row
  <2> QED BY <1>1, <1>2, <2>1
<1>4. ASSUME NEW p \in Requests, NEW i \in DOMAIN rows',
             i \in req'[p].snap \/ (req'[p].pc = "claimed" /\ i = req'[p].row)
      PROVE  rows'[i].expiresAt <= req'[p].at + RefreshTtl
  <2>1. CASE req'[p].at = now
    BY <1>2, <2>1
  <2>2. CASE req'[p] = req[p]
    <3>1. i \in Used
      BY <1>4, <2>2 DEF Core, ReqOK
    <3>2. i \in DOMAIN rows /\ rows'[i].expiresAt = rows[i].expiresAt
      BY <3>1, RowTimes
    <3> QED BY <1>4, <2>2, <3>2 DEF Times, Timely
  <2>3. CASE /\ req'[p].pc # "claimed" /\ req'[p].snap = req[p].snap
             /\ req'[p].at = req[p].at
    <3>1. i \in req[p].snap /\ i \in Used
      BY <1>4, <2>3 DEF Core, ReqOK
    <3>2. i \in DOMAIN rows /\ rows'[i].expiresAt = rows[i].expiresAt
      BY <3>1, RowTimes
    <3> QED BY <2>3, <3>1, <3>2 DEF Times, Timely
  <2> QED BY <1>4, <2>1, <2>2, <2>3, ReqTimes
<1>5. \A i \in DOMAIN rows' : rows'[i].revokedAt # Null =>
        rows'[i].expiresAt <= rows'[i].revokedAt + RefreshTtl
  BY RowTimes
<1> QED BY <1>3, <1>4, <1>5 DEF Times, Timely

LEMMA TimesInvariant == Spec => []Times
<1>1. Init => Times
  BY DEF Init, Times, Timely
<1> QED BY <1>1, TimesStep, CoreInvariant, PTL DEF Spec

\* The purge never forgets a token that could still be presented: while its JWT
\* verifies, its row is there to be rotated, absorbed or recognised as reuse.
THEOREM PurgeIsSafe == Spec => PurgeForgetsOnlyExpiredTokens
<1>1. ASSUME Core, Times, [Next]_vars, NEW i \in DOMAIN rows \ DOMAIN rows',
             rows[i].user \in users'
      PROVE  rows[i].expiresAt <= now
  <2>1. DOMAIN rows \subseteq DOMAIN rows' \/ PurgeExpiredRefreshTokens
          \/ \E u \in Users : EraseUser(u)
    <3>1. \A q \in Requests : Sweeps(q) \/ OthersSave(q) => DOMAIN rows' = DOMAIN rows
      BY <1>1, SweepEffect, OthersEffect DEF Sweeps, SweepCommit, ReplaceCommit
    <3>2. \A q \in Requests : RotateCommit(q) => DOMAIN rows \subseteq DOMAIN rows'
      BY <1>1, CommitWrites
    <3>3. \A q \in Requests, u \in Users, f \in RowIds :
            Mints(q, u, f) => DOMAIN rows \subseteq DOMAIN rows'
      BY <1>1, MintWrites
    <3> QED BY <1>1, <3>1, <3>2, <3>3, StepKinds
  <2>2. ASSUME NEW u \in Users, EraseUser(u) PROVE FALSE
    <3> DEFINE owned == {j \in DOMAIN rows : rows[j].user = u}
    <3>1. Delete(owned) /\ users' = users \ {u}
      BY <2>2 DEF EraseUser
    <3> HIDE DEF owned
    <3>2. DOMAIN rows' = DOMAIN rows \ owned
      BY <1>1, <3>1, DeleteEffect
    <3> QED BY <1>1, <3>1, <3>2 DEF owned
  <2>3. CASE PurgeExpiredRefreshTokens
    <3>1. i \in Purgeable
      <4>1. Delete(Purgeable)
        BY <2>3 DEF PurgeExpiredRefreshTokens
      <4>2. DOMAIN rows' = DOMAIN rows \ Purgeable
        BY <1>1, <4>1, DeleteEffect
      <4> QED BY <1>1, <4>2
    <3>2. /\ rows[i].expiresAt \in Nat /\ rows[i].revokedAt \in Nat \cup {Null}
          /\ now \in Nat /\ RefreshTtl \in Nat
      BY <1>1, TimesAssumption DEF Core, TypeOK, Row
    <3>3. CASE rows[i].expiresAt < now - RefreshTtl
      BY <3>2, <3>3
    <3>4. CASE rows[i].revokedAt # Null /\ rows[i].revokedAt < now - RefreshTtl
      <4>1. rows[i].expiresAt <= rows[i].revokedAt + RefreshTtl /\ rows[i].revokedAt \in Nat
        BY <1>1, <3>2, <3>4 DEF Times
      <4> QED BY <3>2, <3>4, <4>1
    <3> QED BY <3>1, <3>3, <3>4 DEF Purgeable
  <2> QED BY <1>1, <2>1, <2>2, <2>3
<1>2. Core /\ Times /\ [Next]_vars =>
        [\A i \in DOMAIN rows \ DOMAIN rows' :
           rows[i].user \in users' => rows[i].expiresAt <= now]_vars
  BY <1>1
<1> QED BY <1>2, CoreInvariant, TimesInvariant, PTL DEF Spec, PurgeForgetsOnlyExpiredTokens

-----------------------------------------------------------------------------
(* Sessions that are over. *)

\* Where a row of the new table comes from: it was minted in this step, or it
\* is an old row, and if it was not live then its marks are the old ones, or
\* those a stale save() put there.
Minted(i) ==
  /\ i = nextId /\ i \notin DOMAIN rows /\ nextId' = nextId + 1
  /\ rows'[i].revokedAt = Null /\ rows'[i].replacedBy = Null
  /\ \/ rows'[i].family = nextId
     \/ HasLive(rows'[i].family)
     \/ \E q \in Requests : /\ req[q].pc = "grace" /\ req[q].family = rows'[i].family
                            /\ req[q].user \in users

Unmoved(i) ==
  /\ rows'[i].revokedAt = rows[i].revokedAt
  /\ rows'[i].replacedBy \in {rows[i].replacedBy, Null}

Overwritten(i, q) ==
  /\ req[q].pc = "saving" /\ i \in req[q].snap /\ now' = now
  /\ rows'[i].revokedAt = req[q].at /\ req[q].at # Null
  /\ rows'[i].replacedBy = IF i \in req[q].erase THEN Null ELSE rows[i].replacedBy

Kin(i) ==
  /\ i \in DOMAIN rows /\ rows'[i].family = rows[i].family
  /\ IsLive(i) \/ Unmoved(i) \/ \E q \in Requests : Overwritten(i, q)

LEMMA RowFate ==
  ASSUME Core, [Next]_vars, NEW i \in DOMAIN rows'
  PROVE  Minted(i) \/ Kin(i)
<1>1. CASE UNCHANGED <<users, rows, nextId>>
  BY <1>1 DEF Kin, Unmoved
<1>2. ASSUME NEW q \in Requests, NEW u \in Users, NEW f \in RowIds, Mints(q, u, f)
      PROVE  Minted(i) \/ Kin(i)
  <2>1. /\ DOMAIN rows' = DOMAIN rows \cup {nextId} /\ nextId \notin DOMAIN rows
        /\ rows'[nextId] = FreshRow(u, f)
        /\ \A j \in DOMAIN rows : rows'[j] = rows[j]
    BY <1>2, MintWrites
  <2>2. /\ rows'[nextId].family = f /\ rows'[nextId].revokedAt = Null
        /\ rows'[nextId].replacedBy = Null
    BY <2>1 DEF FreshRow
  <2>3. /\ nextId' = nextId + 1
        /\ \/ f = nextId
           \/ req[q].pc = "grace" /\ req[q].family = f /\ req[q].user \in users
    BY <1>2 DEF Mints, Insert
  <2>4. CASE i = nextId
    BY <2>1, <2>2, <2>3, <2>4 DEF Minted
  <2>5. CASE i \in DOMAIN rows
    BY <2>1, <2>5 DEF Kin, Unmoved
  <2> QED BY <2>1, <2>4, <2>5
<1>3. ASSUME NEW q \in Requests, RotateCommit(q) PROVE Minted(i) \/ Kin(i)
  <2> DEFINE c == req[q].row
  <2>1. /\ DOMAIN rows' = DOMAIN rows \cup {nextId} /\ nextId \notin DOMAIN rows
        /\ c \in DOMAIN rows
        /\ rows'[nextId] = FreshRow(req[q].user, req[q].family)
        /\ rows'[c] = [rows[c] EXCEPT !.revokedAt = req[q].at, !.replacedBy = nextId]
        /\ \A j \in DOMAIN rows : j # c => rows'[j] = rows[j]
    BY <1>3, CommitWrites
  <2>2. /\ rows'[nextId].family = req[q].family /\ rows'[nextId].revokedAt = Null
        /\ rows'[nextId].replacedBy = Null
    BY <2>1 DEF FreshRow
  <2>3. rows'[c].family = rows[c].family
    BY <2>1 DEF Core, TypeOK, Row
  <2>4. nextId' = nextId + 1 /\ IsLive(c) /\ rows[c].family = req[q].family
    BY <1>3 DEF RotateCommit, Core, ReqOK, IsLive
  <2>5. HasLive(req[q].family)
    BY <2>4 DEF HasLive, LiveOfFamily, LiveRows, IsLive, Stored
  <2>6. CASE i = nextId
    BY <2>1, <2>2, <2>4, <2>5, <2>6 DEF Minted
  <2>7. CASE i = c
    BY <2>1, <2>3, <2>4, <2>7 DEF Kin
  <2>8. CASE i \in DOMAIN rows /\ i # c
    BY <2>1, <2>8 DEF Kin, Unmoved
  <2> QED BY <2>1, <2>6, <2>7, <2>8
<1>4. ASSUME NEW q \in Requests, Sweeps(q) PROVE Minted(i) \/ Kin(i)
  <2>1. SweepWrites(q)
    BY <1>4 DEF Sweeps, SweepCommit, ReplaceCommit
  <2>2. /\ i \in DOMAIN rows /\ rows'[i].family = rows[i].family
        /\ rows'[i].replacedBy = rows[i].replacedBy
        /\ rows'[i].revokedAt = IF i \in req[q].snap /\ IsLive(i) THEN req[q].at
                                ELSE rows[i].revokedAt
    BY <2>1, SweepEffect
  <2> QED BY <2>2 DEF Kin, Unmoved
<1>5. ASSUME NEW q \in Requests, OthersSave(q) PROVE Minted(i) \/ Kin(i)
  <2>1. /\ i \in DOMAIN rows /\ rows'[i].family = rows[i].family
        /\ rows'[i].replacedBy = IF i \in req[q].snap /\ i \in req[q].erase THEN Null
                                 ELSE rows[i].replacedBy
        /\ i \in req[q].snap => rows'[i].revokedAt = req[q].at
        /\ i \notin req[q].snap => rows'[i] = rows[i]
    BY <1>5, OthersEffect
  <2>2. req[q].pc = "saving" /\ now' = now /\ req[q].at # Null
    BY <1>5, NullRow DEF OthersSave, Core, TypeOK, Request
  <2>3. CASE i \in req[q].snap
    BY <2>1, <2>2, <2>3 DEF Kin, Overwritten
  <2>4. CASE i \notin req[q].snap
    BY <2>1, <2>4 DEF Kin, Unmoved
  <2> QED BY <2>3, <2>4
<1>6. ASSUME NEW S, Delete(S) PROVE Minted(i) \/ Kin(i)
  <2>1. /\ i \in DOMAIN rows /\ rows'[i].family = rows[i].family
        /\ rows'[i].revokedAt = rows[i].revokedAt
        /\ rows'[i].replacedBy = IF rows[i].replacedBy \in S THEN Null
                                 ELSE rows[i].replacedBy
    BY <1>6, DeleteEffect
  <2> QED BY <2>1 DEF Kin, Unmoved
<1> QED BY <1>1, <1>2, <1>3, <1>4, <1>5, <1>6, StepKinds
        DEF PurgeExpiredRefreshTokens, EraseUser

\* Where a request that may still mint, or overwrite, comes from: it was there
\* before, or it starts on the strength of the table it reads in this step.
Granted(p) ==
  /\ req'[p].pc = "grace"
  /\ \E i \in DOMAIN rows : rows[i].family = req'[p].family /\ WithinRotationGrace(i)

Diffed(p) ==
  /\ req'[p].pc = "saving" /\ UNCHANGED rows
  /\ \A i \in req'[p].snap \cap DOMAIN rows : i \notin req'[p].erase => rows[i].replacedBy = Null

LEMMA ReqFate ==
  ASSUME Core, [Next]_vars, NEW p \in Requests, req'[p].pc \in {"grace", "saving"}
  PROVE  req'[p] = req[p] \/ Granted(p) \/ Diffed(p)
<1> DEFINE Goal == req'[p] = req[p] \/ Granted(p) \/ Diffed(p)
<1> req \in [Requests -> Request]
  BY DEF Core, TypeOK
<1>1. ASSUME NEW q \in Requests, Moves(q), q = p => req'[q].pc \notin {"grace", "saving"}
      PROVE  Goal
  BY <1>1 DEF Moves
<1>2. ASSUME NEW q \in Requests, Begin(q) PROVE Goal
  <2>1. ASSUME NEW v, NEW i, Logout(q, i) \/ RefreshVerify(q, i) \/ SignIn(q, v)
        PROVE  Moves(q) /\ req'[q].pc \notin {"grace", "saving"}
    BY <2>1 DEF Goto, Moves, Logout, RefreshVerify, SignIn, Idle
  <2>2. ASSUME NEW v, NEW i, SignInOver(q, v, i) \/ RevokeAllForUser(q, v)
        PROVE  Moves(q) /\ req'[q].pc \notin {"grace", "saving"}
    BY <2>2 DEF Goto, Moves, SignInOver, RevokeAllForUser, Idle
  <2>3. ASSUME NEW v, NEW i, RevokeSession(q, v, i) \/ RevokeOtherSessions(q, v, i)
        PROVE  Moves(q) /\ req'[q].pc \notin {"grace", "saving"}
    BY <2>3 DEF Goto, Moves, RevokeSession, RevokeOtherSessions, Idle
  <2> QED BY <1>1, <1>2, <2>1, <2>2, <2>3 DEF Begin
<1>3. ASSUME NEW q \in Requests, RefreshAdmitted(q) \/ RefreshReuseDetected(q) PROVE Goal
  <2>1. Moves(q) /\ req'[q].pc \notin {"grace", "saving"}
    BY <1>3 DEF RefreshAdmitted, RefreshReuseDetected, GoOn, Goto, Moves, Idle
  <2> QED BY <1>1, <2>1
<1>4. ASSUME NEW q \in Requests,
             \/ RotateClaim(q) \/ RotateClaimLost(q) \/ LoserReuseDetected(q)
             \/ BurnStart(q) \/ LogoutSweep(q) \/ ReplaceSweep(q)
      PROVE  Goal
  <2>0. req \in [Requests -> Request]
    BY DEF Core, TypeOK
  <2>1. Moves(q) /\ req'[q].pc \notin {"grace", "saving"}
    <3>1. CASE RotateClaim(q)
      BY <2>0, <3>1 DEF RotateClaim, Goto, Moves, Request
    <3>2. CASE RotateClaimLost(q)
      BY <2>0, <3>2 DEF RotateClaimLost, Goto, Moves, Request
    <3>3. CASE LoserReuseDetected(q)
      BY <2>0, <3>3 DEF LoserReuseDetected, Goto, Moves, Request
    <3>4. CASE BurnStart(q)
      BY <2>0, <3>4 DEF BurnStart, SweepStart, Goto, Moves, Request
    <3>5. CASE LogoutSweep(q)
      BY <2>0, <3>5 DEF LogoutSweep, SweepStart, Goto, Moves, Request
    <3>6. CASE ReplaceSweep(q)
      BY <2>0, <3>6 DEF ReplaceSweep, SweepStart, Goto, Moves, Request
    <3> QED BY <1>4, <3>1, <3>2, <3>3, <3>4, <3>5, <3>6
  <2> QED BY <1>1, <2>1
<1>5. ASSUME NEW q \in Requests, Done(q) PROVE Goal
  <2>1. Moves(q) /\ req'[q].pc \notin {"grace", "saving"}
    BY <1>5 DEF Done, Goto, Moves, Idle
  <2> QED BY <1>1, <2>1
<1>6. ASSUME NEW q \in Requests, ReplaceCommit(q) PROVE Goal
  <2>1. Moves(q) /\ req'[q].pc \notin {"grace", "saving"}
    BY <1>6 DEF ReplaceCommit, Goto, Moves, Idle
  <2> QED BY <1>1, <2>1
<1>7. ASSUME NEW q \in Requests, RefreshRaceAbsorbed(q) PROVE Goal
  <2> DEFINE i == req[q].row
  <2>1. Stored(i) /\ WithinRotationGrace(i)
    BY <1>7 DEF RefreshRaceAbsorbed, WithinRotationGrace
  <2>2. Moves(q) /\ req'[q].pc = "grace" /\ req'[q].family = rows[i].family
    BY <1>7 DEF RefreshRaceAbsorbed, GoOn, Goto, Moves, Idle
  <2>3. CASE p = q
    BY <2>1, <2>2, <2>3 DEF Granted, Stored
  <2>4. CASE p # q
    BY <2>2, <2>4 DEF Moves
  <2> QED BY <2>3, <2>4
<1>8. ASSUME NEW q \in Requests, LoserAbsorbed(q) PROVE Goal
  <2> DEFINE i == req[q].row
  <2>1. Stored(i) /\ WithinRotationGrace(i) /\ rows[i].family = req[q].family
    BY <1>8 DEF LoserAbsorbed, WithinRotationGrace, Core, ReqOK
  <2>2. Moves(q) /\ req'[q].pc = "grace" /\ req'[q].family = req[q].family
    BY <1>8 DEF LoserAbsorbed, Goto, Moves, Request
  <2>3. CASE p = q
    BY <2>1, <2>2, <2>3 DEF Granted, Stored
  <2>4. CASE p # q
    BY <2>2, <2>4 DEF Moves
  <2> QED BY <2>3, <2>4
<1>9. ASSUME NEW q \in Requests, OthersDiff(q) PROVE Goal
  <2>1. /\ Moves(q) /\ req'[q].pc = "saving" /\ UNCHANGED rows
        /\ req'[q].snap = req[q].snap
        /\ req'[q].erase = {i \in req[q].snap : Stored(i) /\ rows[i].replacedBy # Null}
    BY <1>9 DEF OthersDiff, Goto, Moves, Request
  <2>2. CASE p = q
    BY <2>1, <2>2 DEF Diffed, Stored
  <2>3. CASE p # q
    BY <2>1, <2>3 DEF Moves
  <2> QED BY <2>2, <2>3
<1>10. ASSUME NEW q \in Requests, Step(q) PROVE Goal
  <2>1. CASE \/ RefreshRefused(q) \/ RotateCommit(q) \/ IssueGraceReplacement(q)
             \/ SweepCommit(q) \/ IssueTokens(q) \/ OthersSave(q)
    BY <1>5, <2>1 DEF RefreshRefused, RotateCommit, IssueGraceReplacement, SweepCommit,
                      IssueTokens, OthersSave
  <2> QED BY <1>3, <1>4, <1>6, <1>7, <1>8, <1>9, <1>10, <2>1 DEF Step
<1>11. PurgeExpiredRefreshTokens \/ (\E v \in Users : EraseUser(v)) \/ Tick
        \/ UNCHANGED vars => UNCHANGED req
  BY DEF PurgeExpiredRefreshTokens, EraseUser, Tick, vars
<1>12. ASSUME UNCHANGED req PROVE Goal
  BY <1>12
<1> HIDE DEF Goal
<1>13. Goal
  BY <1>2, <1>5, <1>10, <1>11, <1>12 DEF Next, Fail
<1> QED BY <1>13 DEF Goal

\* A family comes to life only through the one row a step mints.
LEMMA LiveStep ==
  ASSUME Core, [Next]_vars, NEW f, HasLive(f)', ~HasLive(f)
  PROVE  Minted(nextId) /\ rows'[nextId].family = f
<1>1. PICK i \in DOMAIN rows' : rows'[i].revokedAt = Null /\ rows'[i].family = f
  BY DEF HasLive, LiveOfFamily, LiveRows
<1>2. ~Kin(i)
  <2> SUFFICES ASSUME Kin(i) PROVE FALSE
    OBVIOUS
  <2>1. i \in DOMAIN rows /\ rows[i].family = f
    BY <1>1 DEF Kin
  <2>2. ~IsLive(i)
    BY <2>1 DEF HasLive, LiveOfFamily, LiveRows, IsLive
  <2>3. ~Unmoved(i)
    BY <1>1, <2>1, <2>2 DEF Unmoved, IsLive, Stored
  <2>4. ASSUME NEW q \in Requests, Overwritten(i, q) PROVE FALSE
    BY <1>1, <2>4 DEF Overwritten
  <2> QED BY <2>2, <2>3, <2>4 DEF Kin
<1>3. Minted(i)
  BY <1>2, RowFate
<1> QED BY <1>1, <1>3 DEF Minted

\* Nothing comes to linger that was not live or lingering.
LEMMA LingerStep ==
  ASSUME Core, [Next]_vars, NEW f, Lingering(f)'
  PROVE  MayRevive(f)
<1>0. now \in Nat /\ now' \in Nat /\ now' >= now /\ Grace \in Nat
  BY ClockMoves, TimesAssumption
<1>1. ASSUME NEW i \in DOMAIN rows, rows[i].family = f, IsLive(i) PROVE MayRevive(f)
  BY <1>1 DEF MayRevive, HasLive, LiveOfFamily, LiveRows, IsLive
<1>2. ASSUME NEW i \in DOMAIN rows, rows[i].family = f, WithinRotationGrace(i)
      PROVE  MayRevive(f)
  BY <1>2 DEF MayRevive, Lingering
<1>3. ASSUME NEW q \in Requests, req[q].pc = "saving", now - req[q].at <= Grace,
             NEW i \in DOMAIN rows, i \in req[q].snap, i \notin req[q].erase,
             rows[i].family = f, rows[i].replacedBy # Null
      PROVE  MayRevive(f)
  BY <1>3 DEF MayRevive, Lingering
<1>4. CASE \E i \in DOMAIN rows' : rows'[i].family = f /\ WithinRotationGrace(i)'
  <2>1. PICK i \in DOMAIN rows' : /\ rows'[i].family = f
                                  /\ rows'[i].revokedAt # Null /\ rows'[i].replacedBy # Null
                                  /\ now' - rows'[i].revokedAt <= Grace
    BY <1>4 DEF WithinRotationGrace
  <2>2. Kin(i) /\ i \in DOMAIN rows /\ rows[i].family = f
    BY <2>1, RowFate DEF Minted, Kin
  <2>3. rows[i].revokedAt \in Nat \cup {Null}
    BY <2>2 DEF Core, TypeOK, Row
  <2>4. CASE Unmoved(i)
    <3>1. /\ rows[i].revokedAt # Null /\ rows[i].replacedBy # Null
          /\ now' - rows[i].revokedAt <= Grace
      BY <2>1, <2>4 DEF Unmoved
    <3>2. now - rows[i].revokedAt <= Grace
      BY <1>0, <2>3, <3>1
    <3>3. WithinRotationGrace(i)
      BY <2>2, <3>1, <3>2 DEF WithinRotationGrace, Stored
    <3> QED BY <1>2, <2>2, <3>3
  <2>5. ASSUME NEW q \in Requests, Overwritten(i, q) PROVE MayRevive(f)
    <3>1. /\ req[q].pc = "saving" /\ i \in req[q].snap /\ i \notin req[q].erase
          /\ rows[i].replacedBy # Null /\ now - req[q].at <= Grace
      BY <2>1, <2>5 DEF Overwritten
    <3> QED BY <1>3, <2>2, <3>1
  <2> QED BY <1>1, <2>2, <2>4, <2>5 DEF Kin
<1>5. CASE \E p \in Requests :
             req'[p].pc = "grace" /\ req'[p].family = f /\ req'[p].user \in users'
  <2>1. PICK p \in Requests :
          req'[p].pc = "grace" /\ req'[p].family = f /\ req'[p].user \in users'
    BY <1>5
  <2>0. users' \subseteq users
    BY StepKinds DEF Mints, Sweeps, SweepCommit, ReplaceCommit, RotateCommit, OthersSave,
                     PurgeExpiredRefreshTokens, EraseUser
  <2>2. CASE req'[p] = req[p]
    BY <2>0, <2>1, <2>2 DEF MayRevive, Lingering
  <2>3. CASE Granted(p)
    BY <1>2, <2>1, <2>3 DEF Granted
  <2> QED BY <2>1, <2>2, <2>3, ReqFate DEF Diffed
<1>6. CASE \E p \in Requests :
             /\ req'[p].pc = "saving" /\ now' - req'[p].at <= Grace
             /\ \E i \in (req'[p].snap \ req'[p].erase) \cap DOMAIN rows' :
                  rows'[i].family = f /\ rows'[i].replacedBy # Null
  <2>1. PICK p \in Requests, i \in DOMAIN rows' :
          /\ req'[p].pc = "saving" /\ now' - req'[p].at <= Grace
          /\ i \in req'[p].snap /\ i \notin req'[p].erase
          /\ rows'[i].family = f /\ rows'[i].replacedBy # Null
    BY <1>6
  <2>2. Kin(i) /\ i \in DOMAIN rows /\ rows[i].family = f
    BY <2>1, RowFate DEF Minted, Kin
  <2>3. CASE IsLive(i)
    BY <1>1, <2>2, <2>3
  <2>4. CASE ~IsLive(i)
    <3>1. rows[i].replacedBy # Null
      BY <2>1, <2>2, <2>4 DEF Kin, Unmoved, Overwritten
    <3>2. ~Diffed(p) /\ ~Granted(p)
      BY <2>1, <2>2, <3>1 DEF Diffed, Granted
    <3>3. req'[p] = req[p] /\ req[p].at \in Nat
      BY <2>1, <3>2, ReqFate DEF Core, TypeOK, Request
    <3>4. now - req[p].at <= Grace
      BY <1>0, <2>1, <3>3
    <3> QED BY <1>3, <2>1, <2>2, <3>1, <3>3, <3>4
  <2> QED BY <2>3, <2>4
<1> QED BY <1>4, <1>5, <1>6 DEF Lingering

LEMMA ClosedStep ==
  ASSUME Core, [Next]_vars, NEW f \in Used, MayRevive(f)'
  PROVE  MayRevive(f)
<1>1. CASE HasLive(f)' /\ ~HasLive(f)
  <2>1. Minted(nextId) /\ rows'[nextId].family = f
    BY <1>1, LiveStep
  <2>2. f # nextId
    BY DEF Used, Core, TypeOK
  <2> QED BY <2>1, <2>2 DEF Minted, MayRevive, Lingering
<1>2. CASE Lingering(f)'
  BY <1>2, LingerStep
<1> QED BY <1>1, <1>2 DEF MayRevive

\* A session that is over is over for good, whatever is presented and whatever
\* was in flight: only a sign-in opens one, under a new family.
THEOREM ClosedStaysClosedHolds == Spec => ClosedStaysClosed
<1>1. Core /\ [Next]_vars => [\A f \in 1..(nextId - 1) : ~MayRevive(f) => ~MayRevive(f)']_vars
  BY ClosedStep DEF Used
<1> QED BY <1>1, CoreInvariant, PTL DEF Spec, ClosedStaysClosed
-----------------------------------------------------------------------------
(* The refinement. *)

LEMMA NewIsQuiet ==
  ASSUME Core, NEW f \in RowIds, f >= nextId
  PROVE  ~HasLive(f) /\ ~Lingering(f)
<1>1. f \notin Used
  BY DEF Used, Core, TypeOK
<1>2. \A i \in DOMAIN rows : rows[i].family # f
  BY <1>1 DEF Core, TableBound
<1>3. \A q \in Requests : req[q].pc = "grace" => req[q].family # f
  BY <1>1 DEF Core, ReqOK
<1> QED BY <1>2, <1>3 DEF HasLive, LiveOfFamily, LiveRows, Lingering

LEMMA PhaseStep ==
  ASSUME Core, [Next]_vars, NEW f \in RowIds
  PROVE  PhaseOf(f)' \in Ledger!Successors(PhaseOf(f))
<1>0. nextId \in Nat /\ nextId' \in Nat /\ nextId' >= nextId
      /\ f \in Nat /\ f >= 1
  BY ClockMoves, BoundsAssumption
<1>1. CASE f >= nextId
  <2>1. PhaseOf(f) = "new"
    BY <1>1 DEF PhaseOf
  <2>2. ~Lingering(f)'
    BY <1>1, NewIsQuiet, LingerStep DEF MayRevive
  <2>3. PhaseOf(f)' \in {"new", "live", "closed"}
    BY <2>2 DEF PhaseOf
  <2> QED BY <2>1, <2>3 DEF Ledger!Successors
<1>2. CASE ~(f >= nextId)
  <2>1. PhaseOf(f)' \in {"live", "lingering", "closed"}
    BY <1>0, <1>2 DEF PhaseOf
  <2>2. CASE MayRevive(f)
    <3>1. PhaseOf(f) \in {"live", "lingering"}
      BY <1>2, <2>2 DEF PhaseOf, MayRevive
    <3> QED BY <2>1, <3>1 DEF Ledger!Successors
  <2>3. CASE ~MayRevive(f)
    <3>1. PhaseOf(f) = "closed"
      BY <1>2, <2>3 DEF PhaseOf, MayRevive
    <3>2. f \in Used
      BY <1>0, <1>2 DEF Used
    <3>3. ~MayRevive(f)'
      BY <2>3, <3>2, ClosedStep
    <3>4. PhaseOf(f)' = "closed"
      BY <1>0, <1>2, <3>3 DEF PhaseOf, MayRevive
    <3> QED BY <3>1, <3>4 DEF Ledger!Successors
  <2> QED BY <2>2, <2>3
<1> QED BY <1>1, <1>2

\* The store implements the ledger of sessions.
THEOREM Refinement == Spec => ImplementsLedger
<1>1. Init => Ledger!LedgerInit
  <2> SUFFICES ASSUME Init PROVE FamilyPhase = [f \in RowIds |-> "new"]
    BY DEF Ledger!LedgerInit
  <2>1. \A f \in RowIds : f >= nextId
    BY BoundsAssumption DEF Init
  <2>2. \A f \in RowIds : PhaseOf(f) = "new"
    BY <2>1 DEF PhaseOf
  <2> QED BY <2>2 DEF FamilyPhase
<1>2. ASSUME Core, [Next]_vars PROVE Ledger!LedgerNext
  <2>1. FamilyPhase' \in [RowIds -> Ledger!Phases]
    BY DEF FamilyPhase, PhaseOf, Ledger!Phases
  <2>2. \A f \in RowIds : FamilyPhase'[f] \in Ledger!Successors(FamilyPhase[f])
    BY <1>2, PhaseStep DEF FamilyPhase
  <2>3. ASSUME NEW f \in RowIds, FamilyPhase[f] # "live", FamilyPhase'[f] = "live"
        PROVE  f = rows'[nextId].family
    <3>1. PhaseOf(f) # "live" /\ PhaseOf(f)' = "live"
      BY <2>3 DEF FamilyPhase
    <3>2. HasLive(f)'
      BY <3>1 DEF PhaseOf
    <3>3. ~HasLive(f)
      BY <1>2, <3>1, NewIsQuiet DEF PhaseOf
    <3> QED BY <1>2, <3>2, <3>3, LiveStep
  <2> QED BY <2>1, <2>2, <2>3 DEF Ledger!LedgerNext
<1>3. Core /\ [Next]_vars => [Ledger!LedgerNext]_FamilyPhase
  BY <1>2
<1> QED BY <1>1, <1>3, CoreInvariant, PTL DEF Spec, ImplementsLedger, Ledger!LedgerSpec

-----------------------------------------------------------------------------
(***************************************************************************)
(* Honest tabs are never taken for thieves.                                *)
(*                                                                         *)
(* The argument follows a token through its life: minted into an answer    *)
(* nobody has read (AnswersAreFresh), then in one jar (OneJarEach), then   *)
(* presented from there and rotated, while the answer with its successor   *)
(* is on its way to that same jar (SuccessorOnItsWay).  As long as it is,  *)
(* time is held back to the grace window (Prompt).                         *)
(***************************************************************************)

(* The inductive invariant *)

\* The requests that still act on the token they were sent with.
Presenting == {"verified", "rotate", "claimed", "lost"}

\* Nothing is ever deleted here: a token in a jar or in hand has its row.
InHandIsStored ==
  /\ jar \in [Browser -> RowIds \cup {Null}]
  /\ from \in [Requests -> Browser \cup {Null}]
  /\ \A b \in Browser : jar[b] # Null => Stored(jar[b])
  /\ \A q \in Requests : req[q].row # Null => Stored(req[q].row)

\* A token on its way to a jar has not been rotated, is in no jar and in no
\* request, and comes once.
AnswersAreFresh ==
  \A a \in answers : a.cookie # Null =>
    /\ Stored(a.cookie) /\ rows[a.cookie].replacedBy = Null
    /\ \A b \in Browser : jar[b] # a.cookie
    /\ \A q \in Requests : req[q].row # a.cookie
    /\ \A c \in answers : c.cookie = a.cookie => c = a

OneJarEach ==
  \A b, c \in Browser : jar[b] # Null /\ jar[b] = jar[c] => b = c

\* A token in a jar is presented by requests of that jar's browser alone.
SentFromTheJar ==
  \A q \in Requests, b \in Browser :
    req[q].pc \in Presenting /\ jar[b] # Null /\ req[q].row = jar[b] => from[q] = b

\* A jar holds a rotated token only while the answer with its successor is on
\* its way there.
SuccessorOnItsWay ==
  \A b \in Browser : jar[b] # Null =>
    LET j == rows[jar[b]].replacedBy IN
    j # Null => [to |-> b, cookie |-> j] \in answers

\* Some tab may not have heard yet that row i was rotated.
Awaited(i) ==
  \/ \E a \in answers : a.cookie = rows[i].replacedBy
  \/ \E q \in Requests : req[q].pc \in {"verified", "rotate", "lost"} /\ req[q].row = i

\* What the length of a round trip bounds.
PromptRequests ==
  \A q \in Requests : req[q].pc \in {"claimed", "others", "saving"} =>
    req[q].at <= now /\ now - req[q].at <= Grace

PromptRows ==
  \A i \in DOMAIN rows : rows[i].replacedBy # Null =>
    /\ rows[i].revokedAt # Null /\ rows[i].revokedAt <= now
    /\ Awaited(i) => now - rows[i].revokedAt <= Grace

\* Who lost a claim, or found reuse, presented a row that was dead already.
LosersAreLate ==
  \A q \in Requests :
    /\ req[q].pc \in {"lost", "burn"} => req[q].row # Null /\ ~IsLive(req[q].row)
    /\ req[q].pc = "burn" => rows[req[q].row].replacedBy = Null

TabsInv ==
  /\ Core
  /\ Lineage
  /\ InHandIsStored
  /\ AnswersAreFresh
  /\ OneJarEach
  /\ SentFromTheJar
  /\ SuccessorOnItsWay
  /\ PromptRequests
  /\ PromptRows
  /\ LosersAreLate

-----------------------------------------------------------------------------
(* What a step of the browsers is to the table of sessions. *)

\* A tab that sends a request begins one of Sessions' own.
Asks(q, b) ==
  \/ TabSignIn(q, b) \/ TabSignInOver(q, b) \/ TabRefresh(q, b)
  \/ TabLogout(q, b) \/ TabRevokeOthers(q, b)

\* A tab that is refused at once gets its cookies cleared.
Refused(q, b) == TabRefreshRefused(q, b) \/ TabLogoutStale(q, b)

\* The requests' owners, families and presented tokens are ones that exist.
LEMMA AsksBegins ==
  ASSUME TabsInv, NEW q \in Requests, NEW b \in Browser, Asks(q, b)
  PROVE  Begin(q) /\ Sends(q, b)
<1> OwnerOf[b] \in Users
  BY OwnerAssumption
<1>1. jar[b] # Null => jar[b] \in RowIds /\ jar[b] \in DOMAIN rows
  BY DEF TabsInv, InHandIsStored, Stored
<1>2. jar[b] # Null => rows[jar[b]].family \in RowIds
  BY <1>1 DEF TabsInv, Core, TypeOK, Row
<1> QED BY <1>1, <1>2 DEF Asks, TabSignIn, TabSignInOver, TabRefresh, TabLogout,
                          TabRevokeOthers, Begin

\* Every step is one of the table's, or leaves it alone.
LEMMA BrowsersStepIsAStep ==
  ASSUME TabsInv, [BrowsersNext]_bvars
  PROVE  [Next]_vars
<1>1. ASSUME NEW q \in Requests, NEW b \in Browser, Asks(q, b) PROVE Next
  BY <1>1, AsksBegins DEF Next
<1>2. ASSUME NEW q \in Requests, NEW b \in Browser, Refused(q, b) PROVE UNCHANGED vars
  BY <1>2 DEF Refused, TabRefreshRefused, TabLogoutStale
<1>3. ASSUME NEW q \in Requests, HandlerStep(q) \/ TabFail(q) PROVE Next
  BY <1>3 DEF HandlerStep, TabFail, Next
<1>4. ASSUME NEW a, Receive(a) PROVE UNCHANGED vars
  BY <1>4 DEF Receive
<1>5. PromptTick => Next
  BY DEF PromptTick, Next
<1>6. UNCHANGED bvars => UNCHANGED vars
  BY DEF bvars, vars
<1> QED BY <1>1, <1>2, <1>3, <1>4, <1>5, <1>6 DEF BrowsersNext, Asks, Refused

\* A request that begins presents the token of its jar, or none.
LEMMA AskedRequest ==
  ASSUME TabsInv, NEW q \in Requests, NEW b \in Browser, Asks(q, b)
  PROVE  /\ Moves(q) /\ UNCHANGED <<now, users, rows, nextId, jar, answers>>
         /\ from' = [from EXCEPT ![q] = b]
         /\ \/ req'[q].pc = "verified" /\ req'[q].row = jar[b] /\ jar[b] # Null
            \/ req'[q].pc \notin Presenting /\ req'[q].row = Null
         /\ req'[q].pc \notin {"claimed", "saving", "lost", "burn"}
         /\ req'[q].pc = "others" => req'[q].at = now
<1> req \in [Requests -> Request]
  BY DEF TabsInv, Core, TypeOK
<1>1. CASE TabSignIn(q, b)
  BY <1>1 DEF TabSignIn, SignIn, Sends, Goto, Moves, Idle, Presenting
<1>2. CASE TabSignInOver(q, b)
  BY <1>2 DEF TabSignInOver, SignInOver, Sends, Goto, Moves, Idle, Presenting
<1>3. CASE TabRefresh(q, b)
  BY <1>3 DEF TabRefresh, RefreshVerify, Sends, Goto, Moves, Idle, Presenting
<1>4. CASE TabLogout(q, b)
  BY <1>4 DEF TabLogout, Logout, Sends, Goto, Moves, Idle, Presenting
<1>5. CASE TabRevokeOthers(q, b)
  BY <1>5 DEF TabRevokeOthers, RevokeOtherSessions, Sends, Goto, Moves, Idle, Presenting
<1> QED BY <1>1, <1>2, <1>3, <1>4, <1>5 DEF Asks

\* A request goes on about the token it presented, or about none.
LEMMA RequestGoesOn ==
  ASSUME Core, NEW q \in Requests, Step(q)
  PROVE  /\ Moves(q) /\ UNCHANGED now
         /\ req'[q].row \in {req[q].row, Null}
         /\ req'[q].pc \in Presenting =>
              /\ req'[q].pc # "verified" /\ req[q].pc \in Presenting
              /\ req[q].pc # "claimed" /\ req'[q].row = req[q].row
         /\ req'[q].pc = "claimed" => req'[q].at = now
         /\ req'[q].pc # "others"
         /\ req'[q].pc = "saving" => req[q].pc = "others" /\ req'[q].at = req[q].at
         /\ req'[q].pc = "lost" =>
              /\ UNCHANGED rows /\ req'[q].row = req[q].row /\ ~IsLive(req[q].row)
              /\ req[q].pc = "rotate"
         /\ req'[q].pc = "burn" =>
              /\ UNCHANGED rows /\ req'[q].row = req[q].row
              /\ ~WithinRotationGrace(req[q].row)
              /\ \/ req[q].pc = "lost"
                 \/ req[q].pc = "verified" /\ Stored(req[q].row) /\ ~IsLive(req[q].row)
<1> DEFINE Goal ==
         /\ Moves(q) /\ UNCHANGED now
         /\ req'[q].row \in {req[q].row, Null}
         /\ req'[q].pc \in Presenting =>
              /\ req'[q].pc # "verified" /\ req[q].pc \in Presenting
              /\ req[q].pc # "claimed" /\ req'[q].row = req[q].row
         /\ req'[q].pc = "claimed" => req'[q].at = now
         /\ req'[q].pc # "others"
         /\ req'[q].pc = "saving" => req[q].pc = "others" /\ req'[q].at = req[q].at
         /\ req'[q].pc = "lost" =>
              /\ UNCHANGED rows /\ req'[q].row = req[q].row /\ ~IsLive(req[q].row)
              /\ req[q].pc = "rotate"
         /\ req'[q].pc = "burn" =>
              /\ UNCHANGED rows /\ req'[q].row = req[q].row
              /\ ~WithinRotationGrace(req[q].row)
              /\ \/ req[q].pc = "lost"
                 \/ req[q].pc = "verified" /\ Stored(req[q].row) /\ ~IsLive(req[q].row)
<1> SUFFICES Goal
  OBVIOUS
<1> req \in [Requests -> Request]
  BY DEF Core, TypeOK
<1>1. ASSUME Done(q), UNCHANGED now PROVE Goal
  BY <1>1 DEF Done, Goto, Moves, Idle, Presenting
<1>2. CASE RefreshAdmitted(q)
  BY <1>2 DEF RefreshAdmitted, GoOn, Goto, Moves, Idle, Presenting
<1>3. CASE RefreshRaceAbsorbed(q)
  BY <1>3 DEF RefreshRaceAbsorbed, GoOn, Goto, Moves, Idle, Presenting
<1>4. CASE RefreshReuseDetected(q)
  BY <1>4 DEF RefreshReuseDetected, GoOn, Goto, Moves, Idle, Presenting
<1>5. CASE RotateClaim(q)
  BY <1>5 DEF RotateClaim, Goto, Moves, Request, Presenting
<1>6. CASE RotateClaimLost(q)
  BY <1>6 DEF RotateClaimLost, Goto, Moves, Request, Presenting
<1>7. CASE LoserAbsorbed(q)
  BY <1>7 DEF LoserAbsorbed, Goto, Moves, Request, Presenting
<1>8. CASE LoserReuseDetected(q)
  BY <1>8 DEF LoserReuseDetected, Goto, Moves, Request, Presenting
<1>9. ASSUME NEW S, NEW pc \in {"sweeping", "replacing"}, SweepStart(q, S, pc) PROVE Goal
  BY <1>9 DEF SweepStart, Goto, Moves, Request, Presenting
<1>10. CASE OthersDiff(q)
  BY <1>10 DEF OthersDiff, Goto, Moves, Request, Presenting
<1>11. CASE ReplaceCommit(q)
  BY <1>11 DEF ReplaceCommit, Goto, Moves, Idle, Presenting
<1>12. CASE BurnStart(q) \/ LogoutSweep(q) \/ ReplaceSweep(q)
  BY <1>9, <1>12 DEF BurnStart, LogoutSweep, ReplaceSweep
<1>13. CASE \/ RefreshRefused(q) \/ RotateCommit(q) \/ IssueGraceReplacement(q)
            \/ SweepCommit(q) \/ IssueTokens(q) \/ OthersSave(q)
  BY <1>1, <1>13 DEF RefreshRefused, RotateCommit, IssueGraceReplacement, SweepCommit,
                     IssueTokens, OthersSave
<1> HIDE DEF Goal
<1> QED
  BY <1>2, <1>3, <1>4, <1>5, <1>6, <1>7, <1>8, <1>10, <1>11, <1>12, <1>13 DEF Step

\* What a step of handler q does to the row of an old token: nothing, a sign-out,
\* the rotation it claimed, or a save() of the copy it holds.
Rotates(q, i) ==
  /\ req[q].pc = "claimed" /\ req[q].row = i
  /\ rows'[i].revokedAt = req[q].at /\ rows'[i].replacedBy = nextId
  /\ nextId' # nextId

Restamps(q, i) ==
  /\ req[q].pc = "saving"
  /\ rows'[i].revokedAt = req[q].at /\ rows'[i].replacedBy = rows[i].replacedBy

Spares(i) ==
  /\ rows'[i].replacedBy = rows[i].replacedBy
  /\ rows'[i].revokedAt = rows[i].revokedAt

Follows(q, i) ==
  /\ rows[i].revokedAt # Null => rows'[i].revokedAt # Null
  /\ rows'[i].replacedBy = Null \/ Spares(i) \/ Rotates(q, i) \/ Restamps(q, i)

\* The step inserts the row with the next id, for a token nobody has.
Inserts ==
  /\ DOMAIN rows' = DOMAIN rows \cup {nextId} /\ nextId \in RowIds
  /\ nextId \notin DOMAIN rows /\ nextId \notin Used
  /\ rows'[nextId].replacedBy = Null

LEMMA RowsGoOn ==
  ASSUME Core, Lineage, NEW q \in Requests, Step(q)
  PROVE  /\ nextId' = nextId => DOMAIN rows' = DOMAIN rows
         /\ nextId' # nextId => Inserts
         /\ \A i \in DOMAIN rows : Follows(q, i)
<1> DEFINE Goal == /\ nextId' = nextId => DOMAIN rows' = DOMAIN rows
                   /\ nextId' # nextId => Inserts
                   /\ \A i \in DOMAIN rows : Follows(q, i)
<1> SUFFICES Goal
  OBVIOUS
<1>1. CASE UNCHANGED <<users, rows, nextId>>
  BY <1>1 DEF Follows, Spares
<1>2. ASSUME NEW u \in Users, NEW f \in RowIds, Mints(q, u, f) PROVE Goal
  <2>1. /\ DOMAIN rows' = DOMAIN rows \cup {nextId} /\ nextId \notin DOMAIN rows
        /\ nextId \in RowIds /\ nextId \notin Used
        /\ rows'[nextId] = FreshRow(u, f)
        /\ \A i \in DOMAIN rows : rows'[i] = rows[i]
    BY <1>2, MintWrites
  <2>2. rows'[nextId].replacedBy = Null
    BY <2>1 DEF FreshRow
  <2>3. nextId' = nextId + 1 /\ nextId \in Nat
    BY <1>2 DEF Mints, Insert, Core, TypeOK
  <2> QED BY <2>1, <2>2, <2>3 DEF Inserts, Follows, Spares
<1>3. CASE RotateCommit(q)
  <2> DEFINE c == req[q].row
  <2>1. /\ DOMAIN rows' = DOMAIN rows \cup {nextId} /\ nextId \notin DOMAIN rows
        /\ nextId \in RowIds /\ c \in DOMAIN rows
        /\ rows'[nextId] = FreshRow(req[q].user, req[q].family)
        /\ rows'[c] = [rows[c] EXCEPT !.revokedAt = req[q].at, !.replacedBy = nextId]
        /\ \A i \in DOMAIN rows : i # c => rows'[i] = rows[i]
    BY <1>3, CommitWrites
  <2>2. rows'[nextId].replacedBy = Null
    BY <2>1 DEF FreshRow
  <2>3. nextId' = nextId + 1 /\ nextId \in Nat /\ nextId \notin Used /\ req[q].pc = "claimed"
    BY <1>3 DEF RotateCommit, Core, TypeOK, Used
  <2>4. rows'[c].revokedAt = req[q].at /\ rows'[c].replacedBy = nextId /\ req[q].at # Null
    BY <2>1, NullRow DEF Core, TypeOK, Row, Request
  <2> HIDE DEF c
  <2>5. Inserts
    BY <2>1, <2>2, <2>3 DEF Inserts
  <2>6. ASSUME NEW i \in DOMAIN rows PROVE Follows(q, i)
    <3>1. CASE i = c
      BY <2>3, <2>4, <3>1 DEF Follows, Rotates, c
    <3>2. CASE i # c
      BY <2>1, <2>6, <3>2 DEF Follows, Spares
    <3> QED BY <3>1, <3>2
  <2> QED BY <2>3, <2>5, <2>6
<1>4. CASE Sweeps(q)
  <2>1. SweepWrites(q) /\ nextId' = nextId
    BY <1>4 DEF Sweeps, SweepCommit, ReplaceCommit
  <2>2. req[q].at # Null
    BY NullRow DEF Core, TypeOK, Request
  <2>3. ASSUME NEW i \in DOMAIN rows PROVE Follows(q, i)
    <3>1. /\ rows'[i].replacedBy = rows[i].replacedBy
          /\ rows'[i].revokedAt = IF i \in req[q].snap /\ IsLive(i) THEN req[q].at
                                  ELSE rows[i].revokedAt
      BY <2>1, SweepEffect
    <3>2. rows[i].replacedBy # Null => rows[i].revokedAt # Null
      BY DEF Lineage
    <3> QED BY <2>2, <3>1, <3>2 DEF Follows, Spares, IsLive
  <2> QED BY <2>1, <2>3, SweepEffect
<1>5. CASE OthersSave(q)
  <2>1. nextId' = nextId /\ req[q].pc = "saving" /\ req[q].at # Null
    BY <1>5, NullRow DEF OthersSave, Core, TypeOK, Request
  <2>2. ASSUME NEW i \in DOMAIN rows PROVE Follows(q, i)
    <3>1. /\ rows'[i].replacedBy = IF i \in req[q].snap /\ i \in req[q].erase THEN Null
                                   ELSE rows[i].replacedBy
          /\ i \in req[q].snap => rows'[i].revokedAt = req[q].at
          /\ i \notin req[q].snap => rows'[i] = rows[i]
      BY <1>5, OthersEffect
    <3> QED BY <2>1, <3>1 DEF Follows, Spares, Restamps
  <2> QED BY <1>5, <2>1, <2>2, OthersEffect
<1> HIDE DEF Goal
<1> QED BY <1>1, <1>2, <1>3, <1>4, <1>5, HandlerKinds

\* What the step sends back: the token it minted, or word that there is none.
Answer(q) == [to |-> from[q], cookie |-> IF nextId' # nextId THEN nextId ELSE Null]

LEMMA HandlerAnswers ==
  ASSUME Core, NEW q \in Requests, HandlerStep(q)
  PROVE  /\ UNCHANGED jar
         /\ \/ from' = [from EXCEPT ![q] = Null] /\ req'[q].pc = "idle"
            \/ UNCHANGED from
         /\ answers' = answers \/ answers' = answers \cup {Answer(q)}
         /\ RotateCommit(q) => answers' = answers \cup {Answer(q)}
<1>1. RotateCommit(q) => req'[q].pc = "idle" /\ AnswersCookies(q)
  BY DEF RotateCommit, Done, Goto, Idle, AnswersCookies, Core, TypeOK
<1> QED BY <1>1 DEF HandlerStep, Answer

\* The part of the invariant that speaks of the tabs.
Tabs ==
  /\ InHandIsStored
  /\ AnswersAreFresh
  /\ OneJarEach
  /\ SentFromTheJar
  /\ SuccessorOnItsWay
  /\ PromptRequests
  /\ PromptRows
  /\ LosersAreLate

LEMMA TabsInvParts == TabsInv <=> Core /\ Lineage /\ Tabs
BY DEF TabsInv, Tabs

-----------------------------------------------------------------------------
(* Each kind of step keeps Tabs. *)

LEMMA AskKeepsTabs ==
  ASSUME TabsInv, NEW q \in Requests, NEW b \in Browser, Asks(q, b)
  PROVE  Tabs'
<1>0. /\ Moves(q) /\ UNCHANGED <<now, users, rows, nextId, jar, answers>>
      /\ from' = [from EXCEPT ![q] = b]
      /\ \/ req'[q].pc = "verified" /\ req'[q].row = jar[b] /\ jar[b] # Null
         \/ req'[q].pc \notin Presenting /\ req'[q].row = Null
      /\ req'[q].pc \notin {"claimed", "saving", "lost", "burn"}
      /\ req'[q].pc = "others" => req'[q].at = now
  BY AskedRequest
<1> req \in [Requests -> Request] /\ now \in Nat /\ Grace \in Nat
  BY TimesAssumption DEF TabsInv, Core, TypeOK
<1> from' = [from EXCEPT ![q] = b]
  BY <1>0
<1>1. /\ \A p \in Requests : p # q => req'[p] = req[p]
      /\ DOMAIN req' = Requests
  BY <1>0 DEF Moves
<1>2. InHandIsStored'
  BY <1>0, <1>1 DEF TabsInv, InHandIsStored, Stored
<1>3. AnswersAreFresh'
  BY <1>0, <1>1, NullRow DEF TabsInv, AnswersAreFresh, InHandIsStored, Stored
<1>4. OneJarEach' /\ SuccessorOnItsWay'
  BY <1>0 DEF TabsInv, OneJarEach, SuccessorOnItsWay
<1>5. SentFromTheJar'
  <2>1. from'[q] = b /\ \A p \in Requests : p # q => from'[p] = from[p]
    BY <1>0 DEF TabsInv, InHandIsStored
  <2>2. \A c \in Browser : req'[q].row = jar[c] /\ jar[c] # Null => c = b
    BY <1>0 DEF TabsInv, OneJarEach
  <2> QED BY <1>0, <1>1, <2>1, <2>2 DEF TabsInv, SentFromTheJar
<1>6. PromptRequests'
  BY <1>0, <1>1 DEF TabsInv, PromptRequests
<1>7. PromptRows'
  <2> SUFFICES ASSUME NEW i \in DOMAIN rows, rows[i].replacedBy # Null, Awaited(i)'
               PROVE  Awaited(i)
    BY <1>0 DEF TabsInv, PromptRows
  <2>1. CASE \E a \in answers : a.cookie = rows[i].replacedBy
    BY <2>1 DEF Awaited
  <2>2. CASE jar[b] = i /\ jar[b] # Null
    BY <2>2 DEF TabsInv, SuccessorOnItsWay, Awaited
  <2>3. CASE \E p \in Requests : p # q /\ req'[p].pc \in {"verified", "rotate", "lost"}
                                 /\ req'[p].row = i
    BY <1>1, <2>3 DEF Awaited
  <2> QED BY <1>0, <2>1, <2>2, <2>3 DEF Awaited, Presenting
<1>8. LosersAreLate'
  BY <1>0, <1>1 DEF TabsInv, LosersAreLate, IsLive, Stored
<1> QED BY <1>2, <1>3, <1>4, <1>5, <1>6, <1>7, <1>8 DEF Tabs

\* Answers that carry no token move nothing.
LEMMA ClearedKeepsTabs ==
  ASSUME TabsInv, NEW b, answers' = answers \cup {[to |-> b, cookie |-> Null]},
         UNCHANGED <<now, users, rows, nextId, req, jar, from>>
  PROVE  Tabs'
<1>1. InHandIsStored' /\ OneJarEach' /\ SentFromTheJar' /\ PromptRequests' /\ LosersAreLate'
  BY DEF TabsInv, InHandIsStored, OneJarEach, SentFromTheJar, PromptRequests,
         LosersAreLate, IsLive, Stored
<1>2. \A a \in answers' : a.cookie # Null => a \in answers
  OBVIOUS
<1>3. AnswersAreFresh'
  BY <1>2 DEF TabsInv, AnswersAreFresh, Stored
<1>4. SuccessorOnItsWay'
  BY DEF TabsInv, SuccessorOnItsWay
<1>5. PromptRows'
  BY <1>2 DEF TabsInv, PromptRows, Awaited
<1> QED BY <1>1, <1>3, <1>4, <1>5 DEF Tabs

\* A request that dies leaves the table as it was, and its answer, if there is
\* one, carries no token.
LEMMA FailKeepsTabs ==
  ASSUME TabsInv, NEW q \in Requests, TabFail(q)
  PROVE  Tabs'
<1>0. /\ from' = [from EXCEPT ![q] = Null]
      /\ UNCHANGED <<now, users, rows, nextId, jar>>
      /\ \A a \in answers' : a.cookie # Null => a \in answers
      /\ answers \subseteq answers'
  BY DEF TabFail, Fail
<1> req \in [Requests -> Request]
  BY DEF TabsInv, Core, TypeOK
<1>1. /\ DOMAIN req' = Requests /\ \A p \in Requests : p # q => req'[p] = req[p]
      /\ req'[q].pc = "idle" /\ req'[q].row = Null
  BY DEF TabFail, Fail, Done, Goto, Idle
<1>2. InHandIsStored' /\ OneJarEach'
  BY <1>0, <1>1 DEF TabsInv, InHandIsStored, OneJarEach, Stored
<1>3. AnswersAreFresh'
  BY <1>0, <1>1 DEF TabsInv, AnswersAreFresh, Stored
<1>4. SentFromTheJar'
  BY <1>0, <1>1 DEF TabsInv, InHandIsStored, SentFromTheJar, Presenting
<1>5. SuccessorOnItsWay'
  BY <1>0 DEF TabsInv, SuccessorOnItsWay
<1>6. PromptRequests' /\ LosersAreLate'
  BY <1>0, <1>1 DEF TabsInv, PromptRequests, LosersAreLate, IsLive, Stored
<1>7. PromptRows'
  BY <1>0, <1>1 DEF TabsInv, PromptRows, Awaited
<1> QED BY <1>2, <1>3, <1>4, <1>5, <1>6, <1>7 DEF Tabs

\* An answer arrives: the token it carries was nowhere, and the one it replaces
\* is in no other jar.
LEMMA ReceiveKeepsTabs ==
  ASSUME TabsInv, NEW a, Receive(a)
  PROVE  Tabs'
<1>0. /\ a \in answers /\ jar' = [jar EXCEPT ![a.to] = a.cookie]
      /\ answers' = answers \ {a} /\ UNCHANGED <<now, users, rows, nextId, req, from>>
  BY DEF Receive, vars
<1> jar \in [Browser -> RowIds \cup {Null}]
  BY DEF TabsInv, InHandIsStored
<1>1. \A b \in Browser : jar'[b] = jar[b] \/ (jar'[b] = a.cookie /\ b = a.to)
  BY <1>0
<1>2. a.cookie # Null =>
        /\ Stored(a.cookie) /\ rows[a.cookie].replacedBy = Null
        /\ \A b \in Browser : jar[b] # a.cookie
        /\ \A q \in Requests : req[q].row # a.cookie
        /\ \A c \in answers : c.cookie = a.cookie => c = a
  BY <1>0 DEF TabsInv, AnswersAreFresh
<1>3. a.cookie \in RowIds \cup {Null}
  BY <1>2 DEF Stored, TabsInv, Core, TypeOK
<1>4. InHandIsStored'
  BY <1>0, <1>1, <1>2, <1>3 DEF TabsInv, InHandIsStored, Stored
<1>5. AnswersAreFresh'
  BY <1>0, <1>1, <1>2 DEF TabsInv, AnswersAreFresh, Stored
<1>6. OneJarEach'
  BY <1>1, <1>2 DEF TabsInv, OneJarEach
<1>7. SentFromTheJar'
  BY <1>0, <1>1, <1>2 DEF TabsInv, SentFromTheJar
<1>8. SuccessorOnItsWay'
  <2> SUFFICES ASSUME NEW b \in Browser, jar'[b] # Null, rows[jar'[b]].replacedBy # Null
               PROVE  [to |-> b, cookie |-> rows[jar'[b]].replacedBy] \in answers'
    BY <1>0 DEF SuccessorOnItsWay
  <2>1. b # a.to /\ jar'[b] = jar[b]
    BY <1>0, <1>1, <1>2
  <2>2. [to |-> b, cookie |-> rows[jar[b]].replacedBy] \in answers
    BY <2>1 DEF TabsInv, SuccessorOnItsWay
  <2> QED BY <1>0, <2>1, <2>2
<1>9. PromptRequests' /\ LosersAreLate'
  BY <1>0 DEF TabsInv, PromptRequests, LosersAreLate, IsLive, Stored
<1>10. PromptRows'
  BY <1>0 DEF TabsInv, PromptRows, Awaited
<1> QED BY <1>4, <1>5, <1>6, <1>7, <1>8, <1>9, <1>10 DEF Tabs

\* Time passes no further than the round trips under way allow.
LEMMA TickKeepsTabs ==
  ASSUME TabsInv, PromptTick
  PROVE  Tabs'
<1>0. now' = now + 1 /\ UNCHANGED <<users, rows, nextId, req, jar, from, answers>>
  BY DEF PromptTick, Tick
<1>p. /\ \A q \in Requests : req[q].pc \in {"others", "saving"} => now + 1 - req[q].at <= Grace
      /\ \A i \in RowIds, at \in 0..now : RotationPending(i, at) => now + 1 - at <= Grace
  BY DEF PromptTick
<1> req \in [Requests -> Request] /\ now \in Nat /\ Grace \in Nat
  BY TimesAssumption DEF TabsInv, Core, TypeOK
<1>1. /\ InHandIsStored' /\ AnswersAreFresh' /\ OneJarEach' /\ SentFromTheJar'
      /\ SuccessorOnItsWay' /\ LosersAreLate'
  BY <1>0 DEF TabsInv, InHandIsStored, AnswersAreFresh, OneJarEach, SentFromTheJar,
              SuccessorOnItsWay, LosersAreLate, IsLive, Stored
<1>2. PromptRequests'
  <2>1. ASSUME NEW q \in Requests, req[q].pc \in {"claimed", "others", "saving"}
        PROVE  req[q].at <= now' /\ now' - req[q].at <= Grace
    <3>1. req[q].at \in Nat /\ req[q].at <= now
      BY <2>1 DEF TabsInv, PromptRequests, Request
    <3>2. CASE req[q].pc = "claimed"
      <4>1. req[q].row \in RowIds
        BY <3>2 DEF TabsInv, Core, ReqOK, IsLive, Stored, TypeOK
      <4>2. RotationPending(req[q].row, req[q].at)
        BY <3>2 DEF RotationPending
      <4> QED BY <1>0, <1>p, <3>1, <4>1, <4>2
    <3> QED BY <1>0, <1>p, <2>1, <3>1, <3>2
  <2>2. \A q \in Requests : req'[q].pc \in {"claimed", "others", "saving"} =>
          req'[q].at <= now' /\ now' - req'[q].at <= Grace
    BY <1>0, <2>1
  <2> QED BY <2>2 DEF PromptRequests
<1>3. PromptRows'
  <2>1. ASSUME NEW i \in DOMAIN rows, rows[i].replacedBy # Null
        PROVE  /\ rows[i].revokedAt # Null /\ rows[i].revokedAt <= now'
               /\ Awaited(i) => now' - rows[i].revokedAt <= Grace
    <3>1. /\ i \in RowIds /\ rows[i].revokedAt # Null /\ rows[i].revokedAt <= now
          /\ rows[i].revokedAt \in Nat
      BY <2>1 DEF TabsInv, PromptRows, Core, TypeOK, Row
    <3>2. Awaited(i) => RotationPending(i, rows[i].revokedAt)
      BY <2>1 DEF Awaited, RotationPending, Stored
    <3> QED BY <1>0, <1>p, <3>1, <3>2
  <2>2. \A i : Awaited(i)' <=> Awaited(i)
    BY <1>0 DEF Awaited
  <2>3. \A i \in DOMAIN rows' : rows'[i].replacedBy # Null =>
          /\ rows'[i].revokedAt # Null /\ rows'[i].revokedAt <= now'
          /\ Awaited(i)' => now' - rows'[i].revokedAt <= Grace
    BY <1>0, <2>1, <2>2
  <2> QED BY <2>3 DEF PromptRows
<1> QED BY <1>1, <1>2, <1>3 DEF Tabs

\* A rotation that was claimed can only commit: its answer names the successor.
LEMMA ClaimedCommits ==
  ASSUME NEW q \in Requests, Step(q), req[q].pc = "claimed"
  PROVE  RotateCommit(q)
BY DEF Step, RefreshRefused, RefreshAdmitted, RefreshRaceAbsorbed, RefreshReuseDetected,
       RotateClaim, RotateClaimLost, LoserAbsorbed, LoserReuseDetected,
       IssueGraceReplacement, BurnStart, LogoutSweep, SweepCommit, ReplaceSweep,
       ReplaceCommit, IssueTokens, OthersDiff, OthersSave

\* A request that ends, or goes on, and the answer it sends when it does.
LEMMA HandlerKeepsTabs ==
  ASSUME TabsInv, NEW q \in Requests, HandlerStep(q)
  PROVE  Tabs'
<1> Core /\ Lineage /\ Step(q)
  BY DEF TabsInv, HandlerStep
<1> req \in [Requests -> Request] /\ now \in Nat /\ Grace \in Nat
  BY TimesAssumption DEF Core, TypeOK
<1> DEFINE a0 == Answer(q)
<1>1. /\ DOMAIN req' = Requests /\ \A p \in Requests : p # q => req'[p] = req[p]
      /\ now' = now
  BY RequestGoesOn DEF Moves
<1>2. /\ req'[q].row \in {req[q].row, Null}
      /\ req'[q].pc \in Presenting =>
           /\ req'[q].pc # "verified" /\ req[q].pc \in Presenting
           /\ req[q].pc # "claimed" /\ req'[q].row = req[q].row
      /\ req'[q].pc = "claimed" => req'[q].at = now
      /\ req'[q].pc # "others"
      /\ req'[q].pc = "saving" => req[q].pc = "others" /\ req'[q].at = req[q].at
  BY RequestGoesOn
<1>3. /\ req'[q].pc = "lost" =>
           /\ UNCHANGED rows /\ req'[q].row = req[q].row /\ ~IsLive(req[q].row)
           /\ req[q].pc = "rotate"
      /\ req'[q].pc = "burn" =>
           /\ UNCHANGED rows /\ req'[q].row = req[q].row
           /\ ~WithinRotationGrace(req[q].row)
           /\ \/ req[q].pc = "lost"
              \/ req[q].pc = "verified" /\ Stored(req[q].row) /\ ~IsLive(req[q].row)
  BY RequestGoesOn
<1>4. /\ nextId' = nextId => DOMAIN rows' = DOMAIN rows
      /\ nextId' # nextId => Inserts
      /\ \A i \in DOMAIN rows : Follows(q, i)
  BY RowsGoOn
<1>5. DOMAIN rows \subseteq DOMAIN rows'
      /\ \A i \in DOMAIN rows' : i \in DOMAIN rows \/ rows'[i].replacedBy = Null
  BY <1>4 DEF Inserts
<1>6. /\ UNCHANGED jar
      /\ (from' = [from EXCEPT ![q] = Null] /\ req'[q].pc = "idle") \/ UNCHANGED from
      /\ answers' = answers \/ answers' = answers \cup {a0}
      /\ RotateCommit(q) => answers' = answers \cup {a0}
  BY HandlerAnswers
<1>7. /\ a0.to = from[q]
      /\ a0.cookie # Null => nextId' # nextId /\ a0.cookie = nextId
      /\ nextId' # nextId => a0 = [to |-> from[q], cookie |-> nextId]
  BY DEF Answer
<1> HIDE DEF a0
<1>8. \A p \in Requests : req'[p].row \in {req[p].row, Null}
  BY <1>1, <1>2
<1>9. /\ jar \in [Browser -> RowIds \cup {Null}]
      /\ from \in [Requests -> Browser \cup {Null}]
      /\ \A b \in Browser : jar[b] # Null => jar[b] \in DOMAIN rows
      /\ \A p \in Requests : req[p].row # Null => req[p].row \in DOMAIN rows
  BY DEF TabsInv, InHandIsStored, Stored
<1>10. InHandIsStored'
  BY <1>5, <1>6, <1>8, <1>9 DEF InHandIsStored, Stored
<1>11. OneJarEach'
  BY <1>6 DEF TabsInv, OneJarEach
<1>12. SentFromTheJar'
  BY <1>1, <1>2, <1>6, <1>9 DEF TabsInv, SentFromTheJar, Presenting
<1>13. ASSUME NEW a \in answers, a.cookie # Null
       PROVE  /\ a.cookie \in DOMAIN rows /\ rows'[a.cookie].replacedBy = Null
              /\ \A b \in Browser : jar[b] # a.cookie
              /\ \A p \in Requests : req[p].row # a.cookie
              /\ \A c \in answers : c.cookie = a.cookie => c = a
  <2>1. /\ a.cookie \in DOMAIN rows /\ rows[a.cookie].replacedBy = Null
        /\ \A b \in Browser : jar[b] # a.cookie
        /\ \A p \in Requests : req[p].row # a.cookie
        /\ \A c \in answers : c.cookie = a.cookie => c = a
    BY <1>13 DEF TabsInv, AnswersAreFresh, Stored
  <2>2. rows'[a.cookie].replacedBy = Null
    BY <1>4, <2>1 DEF Follows, Spares, Rotates, Restamps
  <2> QED BY <2>1, <2>2
<1>14. ASSUME a0 \in answers', a0.cookie # Null
       PROVE  /\ a0.cookie \notin DOMAIN rows /\ a0.cookie \notin Used
              /\ a0.cookie \in DOMAIN rows' /\ rows'[a0.cookie].replacedBy = Null
  BY <1>4, <1>7, <1>14 DEF Inserts
<1>15. AnswersAreFresh'
  <2> SUFFICES ASSUME NEW a \in answers', a.cookie # Null
               PROVE  /\ a.cookie \in DOMAIN rows' /\ rows'[a.cookie].replacedBy = Null
                      /\ \A b \in Browser : jar[b] # a.cookie
                      /\ \A p \in Requests : req'[p].row # a.cookie
                      /\ \A c \in answers' : c.cookie = a.cookie => c = a
    BY <1>6 DEF AnswersAreFresh, Stored
  <2>1. CASE a \in answers
    <3>1. \A c \in answers' : c.cookie = a.cookie => c = a
      BY <1>6, <1>13, <1>14, <2>1
    <3> QED BY <1>5, <1>8, <1>13, <2>1, <3>1
  <2>2. CASE a = a0
    <3>1. \A c \in answers' : c.cookie = a.cookie => c = a
      BY <1>6, <1>13, <1>14, <2>2
    <3> QED BY <1>8, <1>9, <1>14, <2>2, <3>1
  <2> QED BY <1>6, <2>1, <2>2
<1>16. SuccessorOnItsWay'
  <2> SUFFICES ASSUME NEW b \in Browser, jar[b] # Null, rows'[jar[b]].replacedBy # Null
               PROVE  [to |-> b, cookie |-> rows'[jar[b]].replacedBy] \in answers'
    BY <1>6 DEF SuccessorOnItsWay
  <2>1. Follows(q, jar[b])
    BY <1>4, <1>9
  <2>2. CASE rows'[jar[b]].replacedBy = rows[jar[b]].replacedBy
    <3>1. [to |-> b, cookie |-> rows[jar[b]].replacedBy] \in answers
      BY <2>2 DEF TabsInv, SuccessorOnItsWay
    <3> QED BY <1>6, <2>2, <3>1
  <2>3. CASE Rotates(q, jar[b])
    <3>1. from[q] = b
      BY <2>3 DEF Rotates, TabsInv, SentFromTheJar, Presenting
    <3>2. a0 = [to |-> b, cookie |-> rows'[jar[b]].replacedBy]
      BY <1>7, <2>3, <3>1 DEF Rotates
    <3> QED BY <1>6, <2>3, <3>2, ClaimedCommits DEF Rotates
  <2> QED BY <2>1, <2>2, <2>3 DEF Follows, Spares, Restamps
<1>17. PromptRequests'
  <2>1. \A p \in Requests : req[p].pc \in {"claimed", "others", "saving"} =>
          req[p].at <= now /\ now - req[p].at <= Grace
    BY DEF TabsInv, PromptRequests
  <2>2. req'[q].pc \in {"claimed", "others", "saving"} =>
          req'[q].at <= now /\ now - req'[q].at <= Grace
    BY <1>2, <2>1
  <2>3. \A p \in Requests : req'[p].pc \in {"claimed", "others", "saving"} =>
          req'[p].at <= now /\ now - req'[p].at <= Grace
    BY <1>1, <2>1, <2>2
  <2> QED BY <1>1, <2>3 DEF PromptRequests
<1>18. PromptRows'
  <2>1. ASSUME NEW i \in DOMAIN rows', rows'[i].replacedBy # Null
        PROVE  /\ rows'[i].revokedAt # Null /\ rows'[i].revokedAt <= now
               /\ Awaited(i)' => now - rows'[i].revokedAt <= Grace
    <3>1. i \in DOMAIN rows /\ Follows(q, i)
      BY <1>4, <1>5, <2>1
    <3>2. CASE Rotates(q, i) \/ Restamps(q, i)
      <4>1. req[q].at <= now /\ now - req[q].at <= Grace /\ req[q].at # Null
        BY <3>2, NullRow DEF Rotates, Restamps, TabsInv, PromptRequests, Request
      <4> QED BY <3>2, <4>1 DEF Rotates, Restamps
    <3>3. CASE Spares(i)
      <4>1. rows[i].replacedBy \in Used /\ rows'[i].replacedBy = rows[i].replacedBy
            /\ rows[i].replacedBy # Null /\ rows'[i].revokedAt = rows[i].revokedAt
        BY <2>1, <3>1, <3>3 DEF Spares, Lineage
      <4>2. ASSUME NEW a \in answers', a.cookie = rows[i].replacedBy PROVE a \in answers
        BY <1>6, <1>14, <4>1, <4>2
      <4>3. ASSUME NEW p \in Requests, req'[p].pc \in {"verified", "rotate", "lost"},
                   req'[p].row = i
            PROVE  req[p].pc \in {"verified", "rotate", "lost"} /\ req[p].row = i
        BY <1>1, <1>2, <4>3 DEF Presenting
      <4>4. Awaited(i)' => Awaited(i)
        BY <4>1, <4>2, <4>3 DEF Awaited
      <4> QED BY <3>1, <4>1, <4>4 DEF TabsInv, PromptRows
    <3> QED BY <2>1, <3>1, <3>2, <3>3 DEF Follows
  <2> QED BY <1>1, <2>1 DEF PromptRows
<1>19. ASSUME NEW p \in Requests, p # q, req[p].pc \in {"lost", "burn"}
       PROVE  /\ req[p].row # Null /\ ~LiveAfter(req[p].row)
              /\ req[p].pc = "burn" => rows'[req[p].row].replacedBy = Null
  <2> DEFINE i == req[p].row
  <2>1. /\ i # Null /\ i \in DOMAIN rows /\ rows[i].revokedAt # Null /\ Follows(q, i)
        /\ req[p].pc = "burn" => rows[i].replacedBy = Null
    BY <1>4, <1>9, <1>19 DEF TabsInv, LosersAreLate, IsLive, Stored
  <2>2. ~Rotates(q, i)
    BY <2>1 DEF Rotates, Core, ReqOK, IsLive
  <2> QED BY <2>1, <2>2 DEF Follows, Spares, Restamps, LiveAfter
<1>20. req'[q].pc \in {"lost", "burn"} =>
         /\ req'[q].row # Null /\ ~LiveAfter(req'[q].row)
         /\ req'[q].pc = "burn" => rows'[req'[q].row].replacedBy = Null
  <2> SUFFICES ASSUME req'[q].pc \in {"lost", "burn"}
               PROVE  /\ req'[q].row # Null /\ ~LiveAfter(req'[q].row)
                      /\ req'[q].pc = "burn" => rows'[req'[q].row].replacedBy = Null
    OBVIOUS
  <2> DEFINE i == req[q].row
  <2>1. rows' = rows /\ req'[q].row = i /\ req[q].pc \in {"verified", "rotate", "lost"}
    BY <1>3
  <2>2. i \in Used /\ i # Null
    BY <2>1, NullRow DEF Core, ReqOK, Used, TypeOK
  <2>3. i \in DOMAIN rows /\ ~IsLive(i)
    BY <1>3, <1>9, <2>2 DEF TabsInv, LosersAreLate
  <2>4. Awaited(i)
    BY <2>1 DEF Awaited
  <2>5. req'[q].pc = "burn" => rows[i].replacedBy = Null
    BY <1>3, <2>3, <2>4 DEF TabsInv, PromptRows, WithinRotationGrace, Stored
  <2> QED BY <2>1, <2>2, <2>3, <2>5 DEF IsLive, Stored, LiveAfter
<1>21. LosersAreLate'
  BY <1>1, <1>19, <1>20 DEF LosersAreLate, IsLive, Stored, LiveAfter
<1> QED BY <1>10, <1>11, <1>12, <1>15, <1>16, <1>17, <1>18, <1>21 DEF Tabs

-----------------------------------------------------------------------------
(* The theorem *)

LEMMA TabsInvInit == BrowsersInit => TabsInv
<1> SUFFICES ASSUME BrowsersInit PROVE TabsInv
  OBVIOUS
<1>1. Core /\ Lineage
  BY CoreInit DEF BrowsersInit, Init, Lineage
<1>2. \A q \in Requests : req[q].pc = "idle" /\ req[q].row = Null
  BY DEF BrowsersInit, Init, Idle
<1>3. Tabs
  BY <1>2 DEF BrowsersInit, Init, Tabs, InHandIsStored, AnswersAreFresh, OneJarEach,
              SentFromTheJar, SuccessorOnItsWay, PromptRequests, PromptRows, LosersAreLate,
              Presenting
<1> QED BY <1>1, <1>3, TabsInvParts

LEMMA TabsInvStep == TabsInv /\ [BrowsersNext]_bvars => TabsInv'
<1> SUFFICES ASSUME TabsInv, [BrowsersNext]_bvars PROVE TabsInv'
  OBVIOUS
<1>1. Core' /\ Lineage'
  BY BrowsersStepIsAStep, CoreStep, LineageStep DEF TabsInv
<1>2. ASSUME NEW q \in Requests, NEW b \in Browser, Refused(q, b) PROVE Tabs'
  BY <1>2, ClearedKeepsTabs DEF Refused, TabRefreshRefused, TabLogoutStale, vars
<1>3. ASSUME UNCHANGED bvars PROVE Tabs'
  BY <1>3 DEF bvars, TabsInv, Tabs, InHandIsStored, AnswersAreFresh, OneJarEach,
              SentFromTheJar, SuccessorOnItsWay, PromptRequests, PromptRows, LosersAreLate,
              Awaited, IsLive, Stored
<1>4. Tabs'
  BY <1>2, <1>3, AskKeepsTabs, HandlerKeepsTabs, FailKeepsTabs, ReceiveKeepsTabs,
     TickKeepsTabs
     DEF BrowsersNext, Asks, Refused
<1>5. (Core /\ Lineage /\ Tabs)' => TabsInv'
  BY DEF TabsInv, Tabs
<1> QED BY <1>1, <1>4, <1>5

\* However many tabs share a cookie, in whatever order the answers to their
\* refreshes come back, and whichever requests die before their commit: no
\* rotation is taken for theft, and no jar is left with a token that would be.
THEOREM TabsNeverLookLikeTheftHolds == BrowsersSpec => []TabsNeverLookLikeTheft
<1>1. TabsInv => RotationAloneNeverBurns
  BY DEF TabsInv, LosersAreLate, RotationAloneNeverBurns, EndedBySignOut
<1>2. TabsInv => JarIsSafeToPresent
  <2> SUFFICES ASSUME TabsInv, NEW b \in Browser, jar[b] # Null, ~EndedBySignOut(jar[b])
               PROVE  WithinRotationGrace(jar[b])
    BY DEF JarIsSafeToPresent
  <2>1. jar[b] \in DOMAIN rows /\ rows[jar[b]].replacedBy # Null
    BY DEF EndedBySignOut, Stored
  <2>2. Awaited(jar[b])
    BY <2>1 DEF TabsInv, SuccessorOnItsWay, Awaited
  <2> QED BY <2>1, <2>2 DEF TabsInv, PromptRows, WithinRotationGrace, Stored
<1> QED BY <1>1, <1>2, TabsInvInit, TabsInvStep, PTL
        DEF BrowsersSpec, TabsNeverLookLikeTheft
=============================================================================
