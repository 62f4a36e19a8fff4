--------------------------- MODULE EventRsvpProofs ---------------------------
(***************************************************************************)
(* The safety properties of the roster, for any members, organisers,       *)
(* capacities, guest counts and requests in flight.                        *)
(*                                                                         *)
(* None of them is inductive alone, for one reason: a handler writes back  *)
(* a whole row that it read a step ago.  RosterInv says what such a copy   *)
(* may still be.  Under the event lock only two writers can have moved the *)
(* row meanwhile: one that leaves status and position (a guest count, the  *)
(* lift of a removal), and a check-in, which seats.  So a copy agrees with *)
(* the stored row, or that row is seated (Agrees); and the place the copy  *)
(* may restore has been given to nobody, since places are given out only   *)
(* under the lock.  The host's part is that no request about the host is   *)
(* one that gives a seat up, and every copy of the host's row is seated.   *)
(*                                                                         *)
(* The two action properties are then proved step by step: StepKeepsOrder  *)
(* for the queue and StepNeverOverbooks for the seats, which are counted   *)
(* with the lemmas on totals of SumLemmas.                                 *)
(***************************************************************************)
EXTENDS EventRsvp, SumLemmas

\* The places where a request holds a copy of a row it will write.
CopyHolders == LockHolders \cup {"door"}

\* A position is held exactly while waiting.
Paired(row) == row.pos # Null <=> row.status = "waitlisted"

RowsInv(r) ==
  /\ r \in [Members -> Rsvp]
  /\ \A m \in Members : Paired(r[m])
  /\ \A m, n \in Members : r[m].pos # Null /\ r[m].pos = r[n].pos => m = n
  /\ r[Host].status = "going"

\* There is a position left to give out.
Room(r) == MaxPos >= 1 /\ \A m \in Members : r[m].pos # Null => r[m].pos < MaxPos

\* The copy a locked transaction holds and the row it will overwrite: only a
\* check-in can have moved the row, and it writes a seated one.
Agrees(row, stored) ==
  \/ row.status = stored.status /\ row.pos = stored.pos
  \/ stored.status = "going"

\* Where a request is about to take its member's seat away.
GivesUpSeat == {"maybe", "cancel", "remove", "promote", "barring"}

\* What holds of request c while the rows are r.
CopyInv(c, r) ==
  /\ c.pc \notin {"idle", "saving", "reconcile"} => c.who \in Members
  /\ c.pc = "saving" => c.event \in Event
  /\ c.pc \in CopyHolders => Paired(c.row)
  /\ c.pc = "door" => c.row.status = "going"
  /\ c.who = Host => c.pc \notin GivesUpSeat
  /\ c.who = Host /\ c.pc \in CopyHolders => c.row.status = "going"
  /\ c.pc = "going" => Room(r)
  /\ c.pc \in LockHolders =>
       /\ Agrees(c.row, r[c.who])
       /\ \A n \in Members \ {c.who} : c.row.pos # Null => r[n].pos # c.row.pos

OneHolder ==
  \A p, q \in Requests :
    req[p].pc \in LockHolders /\ req[q].pc \in LockHolders => p = q

RosterInv ==
  /\ event \in Event
  /\ phase \in {"open", "cutoff", "ended"}
  /\ banned \subseteq Members \ Organizers
  /\ RowsInv(rsvp)
  /\ req \in [Requests -> Request]
  /\ OneHolder
  /\ \A q \in Requests : CopyInv(req[q], rsvp)

-----------------------------------------------------------------------------
(* The rows *)

\* Null is no position.
LEMMA NullIsNoNumber == Null \notin Nat /\ Null \notin 1..MaxPos
  BY SeatsAssumption

\* The values a row and a request start from.
LEMMA NoRsvpIsRow == NoRsvp \in Rsvp /\ Paired(NoRsvp)
  BY SeatsAssumption DEF NoRsvp, Rsvp, Guests, Paired

LEMMA IdleIsRequest == Idle \in Request
  BY NoRsvpIsRow, SeatsAssumption DEF Idle, Request, Guests

\* What the handlers make of the copy in hand.
Rewritten(row, status, pos, b) ==
  [row EXCEPT !.status = status, !.pos = pos, !.removed = b]

Answers == {"going", "maybe", "waitlisted", "cancelled"}

LEMMA RewrittenIs ==
  ASSUME NEW row \in Rsvp, NEW status, NEW pos, NEW b
  PROVE  Rewritten(row, status, pos, b)
         = [status |-> status, pos |-> pos, guests |-> row.guests, removed |-> b]
<1> DEFINE s == [row EXCEPT !.status = status, !.pos = pos, !.removed = b]
<1>0. PICK a \in {"none", "going", "maybe", "waitlisted", "cancelled"},
           p \in 1..MaxPos \cup {Null}, g \in Guests, c \in BOOLEAN :
             row = [status |-> a, pos |-> p, guests |-> g, removed |-> c]
  BY DEF Rsvp
<1> DEFINE s1 == [row EXCEPT !.status = status]
           s2 == [s1 EXCEPT !.pos = pos]
           s3 == [s2 EXCEPT !.removed = b]
<1>1. s1 = [status |-> status, pos |-> p, guests |-> g, removed |-> c]
  BY <1>0
<1>2. s2 = [status |-> status, pos |-> pos, guests |-> g, removed |-> c]
  <2>. HIDE DEF s1
  <2>. QED BY <1>1
<1>3. s3 = [status |-> status, pos |-> pos, guests |-> g, removed |-> b]
  <2>. HIDE DEF s2
  <2>. QED BY <1>2
<1>. QED BY <1>0, <1>3, Zenon DEF Rewritten

\* promoteWaitlist, promoteAttendee: the row is seated and gives its place up.
LEMMA SeatedRow ==
  ASSUME NEW row \in Rsvp
  PROVE  LET s == [row EXCEPT !.status = "going", !.pos = Null] IN
         s \in Rsvp /\ s.status = "going" /\ s.pos = Null /\ s.guests = row.guests
         /\ Paired(s)
<1> DEFINE s == [row EXCEPT !.status = "going", !.pos = Null]
<1>0. PICK a \in {"none", "going", "maybe", "waitlisted", "cancelled"},
           p \in 1..MaxPos \cup {Null}, g \in Guests, c \in BOOLEAN :
             row = [status |-> a, pos |-> p, guests |-> g, removed |-> c]
  BY DEF Rsvp
<1> DEFINE s1 == [row EXCEPT !.status = "going"]
           s2 == [s1 EXCEPT !.pos = Null]
<1>1. s = [status |-> "going", pos |-> Null, guests |-> row.guests, removed |-> row.removed]
  <2>1. s1 = [status |-> "going", pos |-> p, guests |-> g, removed |-> c]
    BY <1>0
  <2>2. s2 = [status |-> "going", pos |-> Null, guests |-> g, removed |-> c]
    <3>. HIDE DEF s1
    <3>. QED BY <2>1
  <2>. QED BY <1>0, <2>2, Zenon
<1>2. row.guests \in Guests /\ row.removed \in BOOLEAN
  BY DEF Rsvp
<1>3. [status |-> "going", pos |-> Null, guests |-> row.guests, removed |-> row.removed] \in Rsvp
  BY <1>2 DEF Rsvp
<1>. QED BY <1>1, <1>3 DEF Paired

\* Member m's row is written over.
LEMMA PutKeeps ==
  ASSUME NEW r, RowsInv(r), NEW m \in Members, NEW row \in Rsvp, Paired(row),
         row.pos # Null => \A n \in Members \ {m} : r[n].pos # row.pos,
         m = Host => row.status = "going"
  PROVE  RowsInv([r EXCEPT ![m] = row])
<1> DEFINE s == [r EXCEPT ![m] = row]
<1>1. s \in [Members -> Rsvp]
  BY DEF RowsInv
<1>2. \A n \in Members : s[n] = IF n = m THEN row ELSE r[n]
  BY DEF RowsInv
<1>. HIDE DEF s
<1>3. \A n \in Members : Paired(s[n])
  BY <1>2 DEF RowsInv
<1>4. \A n, k \in Members : s[n].pos # Null /\ s[n].pos = s[k].pos => n = k
  BY <1>2 DEF RowsInv
<1>5. s[Host].status = "going"
  BY <1>2, PeopleAssumption DEF RowsInv
<1>. QED BY <1>1, <1>3, <1>4, <1>5 DEF s, RowsInv

\* What a sweep does to one row.
LEMMA SweptAt ==
  ASSUME NEW r, r \in [Members -> Rsvp], NEW m \in Members
  PROVE  \/ Swept(r)[m] = r[m]
         \/ /\ event.status = "published"
            /\ m \in Promoted(r) /\ r[m].status = "waitlisted"
            /\ Swept(r)[m] = [r[m] EXCEPT !.status = "going", !.pos = Null]
<1>1. CASE event.status # "published"
  BY <1>1 DEF Swept
<1>2. CASE event.status = "published"
  <2>1. Swept(r)[m] = IF m \in Promoted(r)
                      THEN [r[m] EXCEPT !.status = "going", !.pos = Null] ELSE r[m]
    BY <1>2 DEF Swept
  <2>2. m \in Promoted(r) => r[m].status = "waitlisted"
    BY DEF Promoted, Waiting
  <2>. QED BY <2>1, <2>2, <1>2
<1>. QED BY <1>1, <1>2

\* A sweep takes positions away and gives none out.
LEMMA SweptRows ==
  ASSUME NEW r, RowsInv(r)
  PROVE  /\ RowsInv(Swept(r))
         /\ \A m \in Members : \/ Swept(r)[m] = r[m]
                               \/ Swept(r)[m].status = "going" /\ Swept(r)[m].pos = Null
<1> DEFINE s == Swept(r)
<1>1. s = [m \in Members |-> s[m]]
  BY DEF RowsInv, Swept
<1>2. ASSUME NEW m \in Members
      PROVE  /\ s[m] \in Rsvp /\ Paired(s[m])
             /\ \/ s[m] = r[m]
                \/ s[m].status = "going" /\ s[m].pos = Null
  <2>1. r \in [Members -> Rsvp] /\ r[m] \in Rsvp /\ Paired(r[m])
    BY DEF RowsInv
  <2>2. CASE s[m] = r[m]
    BY <2>1, <2>2
  <2>3. CASE s[m] = [r[m] EXCEPT !.status = "going", !.pos = Null]
    <3>. HIDE DEF s
    <3>. QED BY <2>1, <2>3, SeatedRow
  <2>. QED BY <2>1, <2>2, <2>3, SweptAt
<1>. HIDE DEF s
<1>3. s \in [Members -> Rsvp]
  BY <1>1, <1>2
<1>4. \A m, n \in Members : s[m].pos # Null /\ s[m].pos = s[n].pos => m = n
  BY <1>2 DEF RowsInv
<1>5. s[Host].status = "going"
  BY <1>2, PeopleAssumption DEF RowsInv
<1>. QED BY <1>2, <1>3, <1>4, <1>5 DEF RowsInv, s

\* The next position is behind everybody's.
LEMMA NextPositionIsLast ==
  ASSUME RowsInv(rsvp)
  PROVE  /\ NextPosition \in Nat /\ NextPosition >= 1
         /\ \A m \in Members : rsvp[m].pos # Null => rsvp[m].pos < NextPosition
         /\ Room(rsvp) <=> NextPosition <= MaxPos
<1> DEFINE S == {rsvp[m].pos : m \in Waiting(rsvp)} \cup {0}
<1>1. \A m \in Members : /\ rsvp[m].pos # Null <=> m \in Waiting(rsvp)
                         /\ rsvp[m].pos # Null => rsvp[m].pos \in 1..MaxPos
  BY DEF RowsInv, Waiting, Paired, Rsvp
<1>2. S \in SUBSET (0..MaxPos) /\ S # {}
  <2>1. \A m \in Waiting(rsvp) : rsvp[m].pos \in 0..MaxPos
    BY <1>1, SeatsAssumption DEF Waiting
  <2>. QED BY <2>1, SeatsAssumption
<1>3. Max(S) \in S /\ \A y \in S : y <= Max(S)
  <2>. HIDE DEF S
  <2>. QED BY <1>2, MaxOfBounded, SeatsAssumption
<1>4. Max(S) \in Nat
  <2>1. Max(S) \in 0..MaxPos
    <3>. HIDE DEF S
    <3>. QED BY <1>2, <1>3, Zenon
  <2>. QED BY <2>1
<1>5. NextPosition = Max(S) + 1
  BY DEF NextPosition
<1>6. ASSUME NEW m \in Members, rsvp[m].pos # Null
      PROVE  rsvp[m].pos <= Max(S) /\ rsvp[m].pos \in Nat
  <2>1. rsvp[m].pos \in S /\ rsvp[m].pos \in 1..MaxPos
    BY <1>1, <1>6
  <2>. HIDE DEF S
  <2>. QED BY <2>1, <1>3
<1>7. Room(rsvp) => Max(S) < MaxPos
  <2>1. CASE Max(S) = 0
    BY <2>1, SeatsAssumption DEF Room
  <2>2. CASE Max(S) # 0
    <3>1. PICK m \in Waiting(rsvp) : Max(S) = rsvp[m].pos
      BY <1>3, <2>2
    <3>. HIDE DEF S
    <3>. QED BY <3>1, <1>1 DEF Room, Waiting
  <2>. QED BY <2>1, <2>2
<1>8. Max(S) < MaxPos => Room(rsvp)
  <2>. HIDE DEF S
  <2>. QED BY <1>4, <1>6, SeatsAssumption DEF Room
<1>. HIDE DEF S
<1>. QED BY <1>4, <1>5, <1>6, <1>7, <1>8, SeatsAssumption

-----------------------------------------------------------------------------
(* The requests *)

\* Only a locked transaction's copy depends on the rows.
LEMMA UnlockedCopy ==
  ASSUME NEW c, NEW r, CopyInv(c, r), c.pc \notin LockHolders, NEW s
  PROVE  CopyInv(c, s)
  BY DEF CopyInv, LockHolders

\* A request that has ended holds nothing.
LEMMA IdleCopy == ASSUME NEW r PROVE CopyInv(Idle, r)
  BY PeopleAssumption, SeatsAssumption
  DEF CopyInv, Idle, CopyHolders, LockHolders, GivesUpSeat

\* A writer without the lock leaves the status and the position, or seats.
Calm(row, stored) ==
  \/ row.status = stored.status /\ row.pos = stored.pos
  \/ row.status = "going" /\ row.pos = Null

\* Such a write leaves every other transaction's copy good.
LEMMA CalmCopy ==
  ASSUME NEW r, RowsInv(r), NEW m \in Members, NEW row \in Rsvp, Calm(row, r[m]),
         NEW c, CopyInv(c, r)
  PROVE  CopyInv(c, [r EXCEPT ![m] = row])
<1> DEFINE s == [r EXCEPT ![m] = row]
<1>1. \A n \in Members : s[n] = IF n = m THEN row ELSE r[n]
  BY DEF RowsInv
<1>. HIDE DEF s
<1>2. \A n \in Members : s[n].pos # Null => s[n].pos = r[n].pos
  BY <1>1 DEF Calm
<1>3. Room(r) => Room(s)
  BY <1>2 DEF Room
<1>4. CASE c.pc \notin LockHolders
  BY <1>4, UnlockedCopy DEF s
<1>5. CASE c.pc \in LockHolders
  <2>1. c.who \in Members
    BY <1>5 DEF CopyInv, LockHolders
  <2>2. Agrees(c.row, s[c.who])
    BY <1>1, <1>5, <2>1 DEF CopyInv, Agrees, Calm
  <2>3. \A n \in Members \ {c.who} : c.row.pos # Null => s[n].pos # c.row.pos
    BY <1>2, <1>5 DEF CopyInv
  <2>4. CopyInv(c, s)
    BY <1>3, <2>2, <2>3, <1>5 DEF CopyInv
  <2>. QED BY <2>4 DEF s
<1>. QED BY <1>4, <1>5

\* A request becomes c while the rest is as asked.
LEMMA GotoKeeps ==
  ASSUME RosterInv, NEW q \in Requests, NEW c \in Request, Goto(q, c),
         c.pc \in LockHolders => \A p \in Requests \ {q} : req[p].pc \notin LockHolders,
         CopyInv(c, rsvp'), \A p \in Requests \ {q} : CopyInv(req[p], rsvp'),
         event' \in Event, phase' = phase, banned' \subseteq Members \ Organizers,
         RowsInv(rsvp')
  PROVE  RosterInv'
<1>1. \A p \in Requests : req'[p] = IF p = q THEN c ELSE req[p]
  BY DEF Goto, RosterInv
<1>2. req' \in [Requests -> Request]
  BY DEF Goto, RosterInv
<1>3. OneHolder'
  BY <1>1 DEF OneHolder, RosterInv
<1>4. \A p \in Requests : CopyInv(req'[p], rsvp')
  BY <1>1
<1>5. phase' \in {"open", "cutoff", "ended"}
  BY DEF RosterInv
<1>. QED BY <1>2, <1>3, <1>4, <1>5 DEF RosterInv, Organizers

\* A request that takes no lock moves on, and no row changes.
LEMMA MoveKeeps ==
  ASSUME RosterInv, NEW q \in Requests, NEW c \in Request, Goto(q, c),
         c.pc \notin LockHolders, CopyInv(c, rsvp), UNCHANGED rsvp,
         event' \in Event, phase' = phase, banned' \subseteq Members \ Organizers
  PROVE  RosterInv'
  BY GotoKeeps DEF RosterInv

\* A request ends and writes nothing.
LEMMA RefusedKeeps ==
  ASSUME RosterInv, NEW q \in Requests, Refused(q)
  PROVE  RosterInv'
<1>1. Goto(q, Idle) /\ UNCHANGED <<event, phase, rsvp, banned>>
  BY DEF Refused, Done
<1>2. Idle.pc \notin LockHolders
  BY DEF Idle, LockHolders
<1>. QED BY <1>1, <1>2, IdleIsRequest, IdleCopy, MoveKeeps DEF RosterInv

\* A request about member m, with a copy of this row.
About(pc, m, row, g) ==
  [pc |-> pc, who |-> m, row |-> row, guests |-> g, event |-> Null, old |-> Null]

\* The records that a request becomes, field by field.
LEMMA IdleAbout ==
  ASSUME NEW pc, NEW m
  PROVE  [Idle EXCEPT !.pc = pc, !.who = m] = About(pc, m, NoRsvp, 0)
<1> DEFINE c1 == [Idle EXCEPT !.pc = pc]
<1>1. c1 = About(pc, Null, NoRsvp, 0)
  BY DEF Idle, About
<1>2. [c1 EXCEPT !.who = m] = About(pc, m, NoRsvp, 0)
  <2>. HIDE DEF c1
  <2>. QED BY <1>1 DEF About
<1>. QED BY <1>2, Zenon

\* DetailsRead keeps the guest count it was sent.
LEMMA IdleAsks ==
  ASSUME NEW pc, NEW m, NEW g
  PROVE  [Idle EXCEPT !.pc = pc, !.who = m, !.guests = g] = About(pc, m, NoRsvp, g)
<1> DEFINE c2 == [Idle EXCEPT !.pc = pc, !.who = m]
<1>1. c2 = About(pc, m, NoRsvp, 0)
  BY IdleAbout
<1>2. [c2 EXCEPT !.guests = g] = About(pc, m, NoRsvp, g)
  <2>. HIDE DEF c2
  <2>. QED BY <1>1 DEF About
<1>. QED BY <1>2, Zenon

\* A check-in keeps the row it read.
LEMMA IdleHolds ==
  ASSUME NEW pc, NEW m, NEW row
  PROVE  [Idle EXCEPT !.pc = pc, !.who = m, !.row = row] = About(pc, m, row, 0)
<1> DEFINE c2 == [Idle EXCEPT !.pc = pc, !.who = m]
<1>1. c2 = About(pc, m, NoRsvp, 0)
  BY IdleAbout
<1>2. [c2 EXCEPT !.row = row] = About(pc, m, row, 0)
  <2>. HIDE DEF c2
  <2>. QED BY <1>1 DEF About
<1>. QED BY <1>2, Zenon

\* A transaction keeps the row, and the guest count it was sent.
LEMMA IdleLocks ==
  ASSUME NEW pc, NEW m, NEW row, NEW g
  PROVE  [Idle EXCEPT !.pc = pc, !.who = m, !.row = row, !.guests = g]
           = About(pc, m, row, g)
<1> DEFINE c3 == [Idle EXCEPT !.pc = pc, !.who = m, !.row = row]
<1>1. c3 = About(pc, m, row, 0)
  BY IdleHolds
<1>2. [c3 EXCEPT !.guests = g] = About(pc, m, row, g)
  <2>. HIDE DEF c3
  <2>. QED BY <1>1 DEF About
<1>. QED BY <1>2, Zenon

\* A transaction takes the lock and copies m's row.
LEMMA LockKeeps ==
  ASSUME RosterInv, NEW q \in Requests, NEW m \in Members, NEW pc \in LockHolders,
         Lock(q, pc, m), pc = "going" => Room(rsvp), m = Host => pc \notin GivesUpSeat
  PROVE  RosterInv'
<1> DEFINE c == About(pc, m, rsvp[m], req[q].guests)
<1>1. Goto(q, c) /\ UNCHANGED <<event, phase, rsvp, banned>> /\ ~Locked
  <2>1. c = [Idle EXCEPT !.pc = pc, !.who = m, !.row = rsvp[m], !.guests = req[q].guests]
    BY IdleLocks, Zenon
  <2>. QED BY <2>1 DEF Lock
<1>2. rsvp[m] \in Rsvp /\ Paired(rsvp[m]) /\ req[q].guests \in Guests
  BY DEF RosterInv, RowsInv, Request
<1>3. c \in Request
  BY <1>2 DEF Request, About, LockHolders
<1>4. c.pc = pc /\ c.who = m /\ c.row = rsvp[m]
  BY DEF About
<1>. HIDE DEF c
<1>5. CopyInv(c, rsvp)
  <2>1. \A n \in Members \ {m} : rsvp[m].pos # Null => rsvp[n].pos # rsvp[m].pos
    BY DEF RosterInv, RowsInv
  <2>2. m = Host => rsvp[m].status = "going"
    BY DEF RosterInv, RowsInv
  <2>. QED BY <1>2, <1>4, <2>1, <2>2 DEF CopyInv, Agrees, LockHolders
<1>. QED BY <1>1, <1>3, <1>5, GotoKeeps DEF RosterInv, Locked

\* The transaction that holds the lock commits these rows.
LEMMA CommitKeeps ==
  ASSUME RosterInv, NEW q \in Requests, req[q].pc \in LockHolders, Goto(q, Idle),
         RowsInv(rsvp'), UNCHANGED <<event, phase, banned>>
  PROVE  RosterInv'
<1>1. Idle.pc \notin LockHolders
  BY DEF Idle, LockHolders
<1>2. \A p \in Requests \ {q} : CopyInv(req[p], rsvp')
  <2>. TAKE p \in Requests \ {q}
  <2>1. req[p].pc \notin LockHolders /\ CopyInv(req[p], rsvp)
    BY DEF RosterInv, OneHolder
  <2>. QED BY <2>1, UnlockedCopy
<1>. QED BY <1>1, <1>2, IdleIsRequest, IdleCopy, GotoKeeps DEF RosterInv

\* Nobody holds the lock, and q writes these rows and ends.
LEMMA AloneKeeps ==
  ASSUME RosterInv, NEW q \in Requests, ~Locked, Goto(q, Idle),
         RowsInv(rsvp'), UNCHANGED <<event, phase, banned>>
  PROVE  RosterInv'
<1>1. Idle.pc \notin LockHolders
  BY DEF Idle, LockHolders
<1>2. \A p \in Requests \ {q} : CopyInv(req[p], rsvp')
  BY UnlockedCopy DEF RosterInv, Locked
<1>. QED BY <1>1, <1>2, IdleIsRequest, IdleCopy, GotoKeeps DEF RosterInv

\* A writer without the lock writes row over m's and ends.
LEMMA CalmKeeps ==
  ASSUME RosterInv, NEW q \in Requests, NEW m \in Members, NEW row \in Rsvp,
         rsvp' = [rsvp EXCEPT ![m] = row], Calm(row, rsvp[m]), Goto(q, Idle),
         UNCHANGED <<event, phase, banned>>
  PROVE  RosterInv'
<1>1. Idle.pc \notin LockHolders
  BY DEF Idle, LockHolders
<1>2. \A p \in Requests : CopyInv(req[p], rsvp')
  BY CalmCopy DEF RosterInv
<1>3. RowsInv(rsvp')
  <2>1. Paired(row)
    BY DEF Paired, Calm, RosterInv, RowsInv
  <2>2. row.pos # Null => \A n \in Members \ {m} : rsvp[n].pos # row.pos
    BY DEF Calm, RosterInv, RowsInv
  <2>3. m = Host => row.status = "going"
    BY DEF Calm, RosterInv, RowsInv
  <2>. QED BY <2>1, <2>2, <2>3, PutKeeps DEF RosterInv
<1>. QED BY <1>1, <1>2, <1>3, IdleIsRequest, IdleCopy, GotoKeeps DEF RosterInv

-----------------------------------------------------------------------------
(* The invariant holds *)

\* Only the host is on the roster of a new gathering.
LEMMA RosterInvInit == Init => RosterInv
<1> SUFFICES ASSUME Init PROVE RosterInv
  OBVIOUS
<1>1. event \in Event /\ phase \in {"open", "cutoff", "ended"}
  BY DEF Init, Event
<1>2. RowsInv(rsvp)
  <2> DEFINE seated == [NoRsvp EXCEPT !.status = "going"]
  <2>1. NoRsvp.pos = Null
    BY DEF NoRsvp
  <2>2. seated \in Rsvp /\ seated.status = "going" /\ seated.pos = Null
    BY <2>1, NoRsvpIsRow DEF Rsvp
  <2>4. Paired(seated)
    BY <2>2 DEF Paired
  <2>3. rsvp = [m \in Members |-> IF m = Host THEN seated ELSE NoRsvp]
    BY DEF Init
  <2>. HIDE DEF seated
  <2>. QED BY PeopleAssumption, <2>1, <2>2, <2>3, <2>4, NoRsvpIsRow DEF RowsInv
<1>3. banned \subseteq Members \ Organizers
  BY DEF Init
<1>4. /\ req \in [Requests -> Request] /\ OneHolder
      /\ \A q \in Requests : CopyInv(req[q], rsvp)
  <2>1. req = [q \in Requests |-> Idle]
    BY DEF Init
  <2>2. Idle.pc \notin LockHolders
    BY DEF Idle, LockHolders
  <2>. QED BY <2>1, <2>2, IdleIsRequest, IdleCopy DEF OneHolder
<1>. QED BY <1>1, <1>2, <1>3, <1>4 DEF RosterInv

\* A request that holds no copy.
LEMMA PlainRequest ==
  ASSUME NEW pc \in {"raise", "lower", "barring", "lifting"}, NEW m \in Members,
         NEW g \in Guests, NEW r, m = Host => pc # "barring"
  PROVE  /\ About(pc, m, NoRsvp, g) \in Request
         /\ About(pc, m, NoRsvp, g).pc = pc
         /\ CopyInv(About(pc, m, NoRsvp, g), r)
<1> DEFINE c == About(pc, m, NoRsvp, g)
<1>1. c \in Request
  BY NoRsvpIsRow DEF Request, About
<1>2. c.pc = pc /\ c.who = m
  BY DEF About
<1>3. CopyInv(c, r)
  <2>. HIDE DEF c
  <2>. QED BY <1>2 DEF CopyInv, CopyHolders, LockHolders, GivesUpSeat
<1>. QED BY <1>1, <1>2, <1>3

\* A handler starts: it checks, and reads or takes the lock.
LEMMA BeginKeeps ==
  ASSUME RosterInv, NEW q \in Requests, Begin(q)
  PROVE  RosterInv'
<1>1. ASSUME NEW m \in Members, NEW want \in {"going", "maybe"}, RsvpLock(q, m, want)
      PROVE  RosterInv'
  <2>1. Room(rsvp)
    BY <1>1, NextPositionIsLast DEF RsvpLock, RosterInv
  <2>. QED BY <1>1, <2>1, LockKeeps DEF RsvpLock, LockHolders, GivesUpSeat
<1>2. ASSUME NEW m \in Members, CancelLock(q, m) PROVE RosterInv'
  BY <1>2, LockKeeps DEF CancelLock, LockHolders
<1>3. ASSUME NEW m \in Members, RemoveLock(q, m) PROVE RosterInv'
  BY <1>3, LockKeeps DEF RemoveLock, LockHolders
<1>4. ASSUME NEW m \in Members, PromoteLock(q, m) PROVE RosterInv'
  <2>1. m # Host
    BY <1>4 DEF PromoteLock, RosterInv, RowsInv
  <2>. QED BY <1>4, <2>1, LockKeeps DEF PromoteLock, LockHolders
<1>5. ASSUME NEW m \in Members, NEW pc \in {"barring", "lifting"},
             Goto(q, [Idle EXCEPT !.pc = pc, !.who = m]),
             UNCHANGED <<event, phase, rsvp>>, banned' \subseteq Members \ Organizers,
             m = Host => pc # "barring"
      PROVE  RosterInv'
  <2> DEFINE c == About(pc, m, NoRsvp, 0)
  <2>1. 0 \in Guests
    BY SeatsAssumption DEF Guests
  <2>2. c \in Request /\ c.pc = pc /\ CopyInv(c, rsvp)
    BY <1>5, <2>1, PlainRequest
  <2>3. Goto(q, c)
    BY <1>5, IdleAbout, Zenon
  <2>. HIDE DEF c
  <2>. QED BY <1>5, <2>2, <2>3, MoveKeeps DEF RosterInv, LockHolders
<1>6. ASSUME NEW m \in Members, Bar(q, m) PROVE RosterInv'
  <2>1. banned' \subseteq Members \ Organizers
    BY <1>6 DEF Bar, RosterInv
  <2>. QED BY <1>5, <1>6, <2>1 DEF Bar, Organizers
<1>7. ASSUME NEW m \in Members, Lift(q, m) PROVE RosterInv'
  <2>1. banned' \subseteq Members \ Organizers
    BY <1>7 DEF Lift, RosterInv
  <2>. QED BY <1>5, <1>7, <2>1 DEF Lift
<1>8. ASSUME NEW m \in Members, CheckInRead(q, m) PROVE RosterInv'
  <2> DEFINE c == About("door", m, rsvp[m], 0)
  <2>1. Goto(q, c) /\ UNCHANGED <<event, phase, rsvp, banned>>
    BY <1>8, IdleHolds, Zenon DEF CheckInRead
  <2>2. c.pc = "door" /\ c.who = m /\ c.row = rsvp[m]
    BY DEF About
  <2>3. rsvp[m] \in Rsvp /\ Paired(rsvp[m]) /\ rsvp[m].status = "going"
    BY <1>8 DEF RosterInv, RowsInv, CheckInRead
  <2>4. c \in Request
    BY <2>3, SeatsAssumption DEF Request, About, Guests
  <2>. HIDE DEF c
  <2>5. CopyInv(c, rsvp)
    BY <2>2, <2>3 DEF CopyInv, LockHolders, GivesUpSeat
  <2>. QED BY <2>1, <2>2, <2>4, <2>5, MoveKeeps DEF RosterInv, LockHolders
<1>9. ASSUME NEW m \in Members, NEW g \in Guests, DetailsRead(q, m, g)
      PROVE  RosterInv'
  <2>1. PICK pc \in {"raise", "lower"} :
          Goto(q, [Idle EXCEPT !.pc = pc, !.who = m, !.guests = g])
    BY <1>9 DEF DetailsRead
  <2>2. UNCHANGED <<event, phase, rsvp, banned>>
    BY <1>9 DEF DetailsRead
  <2> DEFINE c == About(pc, m, NoRsvp, g)
  <2>3. c \in Request /\ c.pc = pc /\ CopyInv(c, rsvp)
    BY PlainRequest
  <2>4. Goto(q, c)
    <3>1. c = [Idle EXCEPT !.pc = pc, !.who = m, !.guests = g]
      BY IdleAsks, Zenon
    <3>. QED BY <2>1, <3>1, Zenon
  <2>. HIDE DEF c
  <2>. QED BY <2>2, <2>3, <2>4, MoveKeeps DEF RosterInv, LockHolders
<1>10. ASSUME NEW e \in Event, UpdateRead(q, e) PROVE RosterInv'
  <2> DEFINE c == [Idle EXCEPT !.pc = "saving", !.event = e, !.old = event.capacity]
  <2>1. Goto(q, c) /\ UNCHANGED <<event, phase, rsvp, banned>>
    BY <1>10 DEF UpdateRead
  <2>2. c.pc = "saving" /\ c.event = e
    BY DEF Idle
  <2>3. event.capacity \in Capacities
    BY DEF RosterInv, Event
  <2>4. c \in Request
    BY <2>3, IdleIsRequest DEF Request, Idle
  <2>. HIDE DEF c
  <2>5. CopyInv(c, rsvp)
    BY <2>2 DEF CopyInv, CopyHolders, LockHolders, GivesUpSeat
  <2>. QED BY <2>1, <2>2, <2>4, <2>5, MoveKeeps DEF RosterInv, LockHolders
<1>. QED BY <1>1, <1>2, <1>3, <1>4, <1>6, <1>7, <1>8, <1>9, <1>10 DEF Begin

\* One column is written.
LEMMA ColumnChanges ==
  ASSUME NEW row \in Rsvp, NEW g \in Guests, NEW b \in BOOLEAN
  PROVE  /\ [row EXCEPT !.guests = g] \in Rsvp
         /\ [row EXCEPT !.guests = g].status = row.status
         /\ [row EXCEPT !.guests = g].pos = row.pos
         /\ [row EXCEPT !.guests = g].guests = g
         /\ [row EXCEPT !.removed = b] \in Rsvp
         /\ [row EXCEPT !.removed = b].status = row.status
         /\ [row EXCEPT !.removed = b].pos = row.pos
         /\ [row EXCEPT !.removed = b].guests = row.guests
  BY DEF Rsvp

\* What a save may write under the lock: a seatless, placeless or waiting row
\* whose place nobody else has.
Writable(m, row) ==
  /\ row \in Rsvp /\ Paired(row)
  /\ row.pos # Null => \A n \in Members \ {m} : rsvp[n].pos # row.pos
  /\ m = Host => row.status = "going"

\* A row that holds no place in the queue.
LEMMA PlacelessRow ==
  ASSUME NEW row \in Rsvp, NEW status \in Answers, NEW b \in BOOLEAN
  PROVE  /\ Rewritten(row, status, Null, b) \in Rsvp
         /\ Rewritten(row, status, Null, b).status = status
         /\ Rewritten(row, status, Null, b).pos = Null
<1> DEFINE s == Rewritten(row, status, Null, b)
<1>1. s = [status |-> status, pos |-> Null, guests |-> row.guests, removed |-> b]
  BY RewrittenIs, Zenon
<1>2. row.guests \in Guests
  BY DEF Rsvp
<1>. HIDE DEF s
<1>3. s \in Rsvp /\ s.status = status /\ s.pos = Null
  BY <1>1, <1>2 DEF Rsvp, Answers
<1>. QED BY <1>3 DEF s

\* It may be written, as long as the host stays seated.
LEMMA PlacelessIsWritable ==
  ASSUME NEW row \in Rsvp, NEW status \in Answers, NEW b \in BOOLEAN, NEW m,
         status # "waitlisted", m = Host => status = "going"
  PROVE  Writable(m, Rewritten(row, status, Null, b))
<1> DEFINE s == Rewritten(row, status, Null, b)
<1>1. s \in Rsvp /\ s.status = status /\ s.pos = Null
  BY PlacelessRow
<1>. HIDE DEF s
<1>2. Writable(m, s)
  BY <1>1 DEF Writable, Paired
<1>. QED BY <1>2 DEF s

\* So may one that waits at a place nobody has.
LEMMA WaitingIsWritable ==
  ASSUME NEW row \in Rsvp, NEW pos \in 1..MaxPos, NEW m,
         \A n \in Members : rsvp[n].pos # pos, m # Host
  PROVE  Writable(m, Rewritten(row, "waitlisted", pos, FALSE))
<1> DEFINE s == Rewritten(row, "waitlisted", pos, FALSE)
<1>1. s \in Rsvp /\ s.status = "waitlisted" /\ s.pos = pos
  <2>1. s = [status |-> "waitlisted", pos |-> pos, guests |-> row.guests, removed |-> FALSE]
    BY RewrittenIs, Zenon
  <2>2. row.guests \in Guests
    BY DEF Rsvp
  <2>. HIDE DEF s
  <2>. QED BY <2>1, <2>2 DEF Rsvp
<1>2. pos # Null
  BY SeatsAssumption
<1>. HIDE DEF s
<1>3. Writable(m, s)
  BY <1>1, <1>2 DEF Writable, Paired
<1>. QED BY <1>3 DEF s

\* A transaction writes one row and commits.
LEMMA SaveKeeps ==
  ASSUME RosterInv, NEW q \in Requests, req[q].pc \in LockHolders, NEW row,
         Writable(req[q].who, row), Save(q, row)
  PROVE  RosterInv'
<1>1. req[q].who \in Members
  BY DEF RosterInv, CopyInv, LockHolders
<1>2. RowsInv([rsvp EXCEPT ![req[q].who] = row])
  BY <1>1, PutKeeps DEF Writable, RosterInv
<1>. QED BY <1>2, CommitKeeps DEF Save, Done

\* A transaction writes one row, and the sweep seats whoever fits.
LEMMA SaveAndSweepKeeps ==
  ASSUME RosterInv, NEW q \in Requests, req[q].pc \in LockHolders, NEW row,
         Writable(req[q].who, row), SaveAndSweep(q, row)
  PROVE  RosterInv'
<1>1. req[q].who \in Members
  BY DEF RosterInv, CopyInv, LockHolders
<1> DEFINE saved == [rsvp EXCEPT ![req[q].who] = row]
<1>2. RowsInv(saved)
  BY <1>1, PutKeeps DEF Writable, RosterInv
<1>3. RowsInv(Swept(saved))
  <2>. HIDE DEF saved
  <2>. QED BY <1>2, SweptRows
<1>4. rsvp' \in {Swept(saved), saved} /\ Goto(q, Idle) /\ UNCHANGED <<event, phase, banned>>
  BY DEF SaveAndSweep, Done
<1>. HIDE DEF saved
<1>5. RowsInv(rsvp')
  BY <1>2, <1>3, <1>4
<1>. QED BY <1>4, <1>5, CommitKeeps

\* Every later step of a handler.
LEMMA StepKeeps ==
  ASSUME RosterInv, NEW q \in Requests, Step(q)
  PROVE  RosterInv'
<1> DEFINE c == req[q]
<1>0. /\ CopyInv(c, rsvp) /\ c \in Request /\ c.row \in Rsvp /\ c.guests \in Guests
      /\ RowsInv(rsvp)
  BY DEF RosterInv, Request
<1>1. CASE RsvpSeated(q)
  <2>1. Persisted(q, "going", Null) = Rewritten(c.row, "going", Null, FALSE)
    BY Zenon DEF Persisted, Rewritten
  <2>2. Writable(c.who, Persisted(q, "going", Null))
    BY <1>0, <2>1, PlacelessIsWritable DEF Answers
  <2>. QED BY <1>1, <2>2, SaveKeeps DEF RsvpSeated, LockHolders
<1>2. CASE RsvpKeepsPlace(q) \/ RsvpTurnedAway(q) \/ PromoteRefused(q)
           \/ BarFindsNobody(q) \/ RaiseRefused(q) \/ RaiseHasNoRoom(q)
  BY <1>2, RefusedKeeps DEF RsvpKeepsPlace, RsvpTurnedAway, PromoteRefused,
                            BarFindsNobody, RaiseRefused, RaiseHasNoRoom
<1>3. CASE RsvpWaitlisted(q)
  <2>1. Room(rsvp)
    BY <1>0, <1>3 DEF RsvpWaitlisted, CopyInv
  <2>2. NextPosition \in 1..MaxPos /\ \A n \in Members : rsvp[n].pos # NextPosition
    <3>1. \A n \in Members : rsvp[n].pos # Null => rsvp[n].pos \in 1..MaxPos
      BY <1>0 DEF RowsInv, Rsvp
    <3>2. NextPosition \in Nat /\ NextPosition >= 1 /\ NextPosition <= MaxPos
          /\ \A m \in Members : rsvp[m].pos # Null => rsvp[m].pos < NextPosition
      BY <1>0, <2>1, NextPositionIsLast
    <3>3. NextPosition # Null
      BY <3>2, SeatsAssumption
    <3>4. \A n \in Members : rsvp[n].pos # NextPosition
      <4>. TAKE n \in Members
      <4>1. CASE rsvp[n].pos = Null
        BY <3>3, <4>1
      <4>2. CASE rsvp[n].pos # Null
        BY <3>1, <3>2, <4>2
      <4>. QED BY <4>1, <4>2
    <3>. QED BY <3>2, <3>4, SeatsAssumption
  <2>3. Writable(c.who, Persisted(q, "waitlisted", NextPosition))
    <3>1. Persisted(q, "waitlisted", NextPosition)
            = Rewritten(c.row, "waitlisted", NextPosition, FALSE)
      BY Zenon DEF Persisted, Rewritten
    <3>. QED BY <1>0, <1>3, <2>2, <3>1, WaitingIsWritable DEF RsvpWaitlisted, HasSeat
  <2>. QED BY <1>3, <2>3, SaveKeeps DEF RsvpWaitlisted, LockHolders
<1>4. CASE RsvpMaybe(q)
  <2>1. Persisted(q, "maybe", Null) = Rewritten(c.row, "maybe", Null, FALSE)
    BY Zenon DEF Persisted, Rewritten
  <2>2. Writable(c.who, Persisted(q, "maybe", Null))
    BY <1>0, <1>4, <2>1, PlacelessIsWritable DEF Answers, RsvpMaybe, CopyInv, GivesUpSeat
  <2>. QED BY <1>4, <2>2, SaveAndSweepKeeps DEF RsvpMaybe, LockHolders
<1>5. CASE CancelRsvp(q) \/ RemoveAttendee(q)
  <2>1. \A b \in BOOLEAN : Writable(c.who, Rewritten(c.row, "cancelled", Null, b))
    <3>1. c.who # Host
      BY <1>0, <1>5 DEF CancelRsvp, RemoveAttendee, CopyInv, GivesUpSeat
    <3>. QED BY <1>0, <3>1, PlacelessIsWritable DEF Answers
  <2>2. \E b \in BOOLEAN : SaveAndSweep(q, Rewritten(c.row, "cancelled", Null, b))
    BY <1>5 DEF CancelRsvp, RemoveAttendee, Rewritten
  <2>3. c.pc \in LockHolders
    BY <1>5 DEF CancelRsvp, RemoveAttendee, LockHolders
  <2>. QED BY <2>1, <2>2, <2>3, SaveAndSweepKeeps
<1>6. CASE PromoteAttendee(q)
  <2>1. Writable(c.who, [c.row EXCEPT !.status = "going", !.pos = Null])
    BY <1>0, SeatedRow DEF Writable
  <2>. QED BY <1>6, <2>1, SaveKeeps DEF PromoteAttendee, LockHolders
<1>7. CASE BarRemoves(q) \/ RaiseLock(q)
  <2>1. c.who \in Members
    BY <1>0, <1>7 DEF BarRemoves, RaiseLock, CopyInv
  <2>2. c.who = Host => ~BarRemoves(q)
    BY <1>0 DEF BarRemoves, CopyInv, GivesUpSeat
  <2>. QED BY <1>7, <2>1, <2>2, LockKeeps DEF BarRemoves, RaiseLock, LockHolders, GivesUpSeat
<1>8. CASE LiftClearsStamp(q)
  <2> DEFINE m == c.who
             b == IF rsvp[m].status = "cancelled" THEN FALSE ELSE rsvp[m].removed
             row == [rsvp[m] EXCEPT !.removed = b]
  <2>1. m \in Members /\ rsvp[m] \in Rsvp
    BY <1>0, <1>8 DEF LiftClearsStamp, CopyInv, RowsInv
  <2>2. b \in BOOLEAN
    BY <2>1 DEF Rsvp
  <2>3. row \in Rsvp /\ Calm(row, rsvp[m])
    <3> DEFINE stored == rsvp[m]
    <3>1. stored \in Rsvp /\ 0 \in Guests
      BY <2>1, SeatsAssumption DEF Guests
    <3>. HIDE DEF b, stored
    <3>2. /\ [stored EXCEPT !.removed = b] \in Rsvp
          /\ Calm([stored EXCEPT !.removed = b], stored)
      BY <2>2, <3>1, ColumnChanges DEF Calm
    <3>. QED BY <3>2, Zenon DEF stored
  <2>4. rsvp' = [rsvp EXCEPT ![m] = row] /\ Goto(q, Idle) /\ UNCHANGED <<event, phase, banned>>
    BY <1>8 DEF LiftClearsStamp, Done
  <2>. HIDE DEF m, b, row
  <2>. QED BY <2>1, <2>3, <2>4, CalmKeeps
<1>9. CASE CheckInSave(q)
  <2>1. c.who \in Members /\ Calm(c.row, rsvp[c.who])
    BY <1>0, <1>9 DEF CheckInSave, CopyInv, CopyHolders, Calm, Paired
  <2>. QED BY <1>0, <1>9, <2>1, CalmKeeps DEF CheckInSave, Save, Done
<1>10. CASE DetailsWrite(q)
  <2> DEFINE m == c.who
             row == [rsvp[m] EXCEPT !.guests = c.guests]
  <2>1. m \in Members /\ rsvp[m] \in Rsvp
    BY <1>0, <1>10 DEF DetailsWrite, CopyInv, RowsInv
  <2>2. row \in Rsvp /\ Calm(row, rsvp[m])
    BY <1>0, <2>1, ColumnChanges DEF Calm
  <2>3. rsvp' = [rsvp EXCEPT ![m] = row] /\ Goto(q, Idle) /\ UNCHANGED <<event, phase, banned>>
    BY <1>10 DEF DetailsWrite, Done
  <2>. HIDE DEF m, row
  <2>. QED BY <2>1, <2>2, <2>3, CalmKeeps
<1>11. CASE RaiseGuestCountAndSave(q)
  <2> DEFINE row == [c.row EXCEPT !.guests = c.guests]
  <2>1. row \in Rsvp /\ row.status = c.row.status /\ row.pos = c.row.pos
    BY <1>0, ColumnChanges
  <2>. HIDE DEF row
  <2>2. Writable(c.who, row)
    BY <1>0, <1>11, <2>1 DEF RaiseGuestCountAndSave, CopyInv, CopyHolders, LockHolders,
                             Writable, Paired
  <2>. QED BY <1>11, <2>2, SaveKeeps DEF RaiseGuestCountAndSave, LockHolders, row
<1>12. CASE UpdateSave(q)
  <2> DEFINE d == [Idle EXCEPT !.pc = "reconcile"]
  <2>1. d \in Request /\ d.pc = "reconcile"
    BY IdleIsRequest DEF Idle, Request
  <2>2. CopyInv(d, rsvp)
    <3>. HIDE DEF d
    <3>. QED BY <2>1 DEF CopyInv, CopyHolders, LockHolders, GivesUpSeat
  <2>3. event' \in Event
    BY <1>0, <1>12 DEF UpdateSave, CopyInv
  <2>4. (Goto(q, d) \/ Goto(q, Idle)) /\ UNCHANGED <<phase, rsvp, banned>>
    BY <1>12 DEF UpdateSave, Done
  <2>5. Idle.pc \notin LockHolders /\ d.pc \notin LockHolders
    BY <2>1 DEF Idle, LockHolders
  <2>. HIDE DEF d
  <2>. QED BY <2>1, <2>2, <2>3, <2>4, <2>5, IdleIsRequest, IdleCopy, MoveKeeps
       DEF RosterInv
<1>13. CASE ReconcileWaitlist(q)
  BY <1>0, <1>13, SweptRows, AloneKeeps DEF ReconcileWaitlist, Done
<1>. QED BY <1>1, <1>2, <1>3, <1>4, <1>5, <1>6, <1>7, <1>8, <1>9, <1>10, <1>11,
            <1>12, <1>13 DEF Step

\* Every step of the system.
LEMMA RosterInvNext == RosterInv /\ [Next]_vars => RosterInv'
<1> SUFFICES ASSUME RosterInv, [Next]_vars PROVE RosterInv'
  OBVIOUS
<1>1. CASE CancelEvent
  <2>1. event' \in Event
    BY <1>1 DEF CancelEvent, RosterInv, Event
  <2>. QED BY <1>1, <2>1 DEF CancelEvent, RosterInv, OneHolder, Organizers
<1>2. CASE PassTime
  BY <1>2 DEF PassTime, RosterInv, OneHolder, Organizers
<1>3. CASE UNCHANGED vars
  BY <1>3 DEF vars, RosterInv, OneHolder, Organizers
<1>4. CASE \E q \in Requests : Begin(q) \/ Step(q)
  BY <1>4, BeginKeeps, StepKeeps
<1>. QED BY <1>1, <1>2, <1>3, <1>4 DEF Next

\* The invariant.
LEMMA RosterInvAlways == Spec => []RosterInv
  BY RosterInvInit, RosterInvNext, PTL DEF Spec

\* Whatever stale copies the handlers of rsvp.service.ts, event-bans and
\* event-check-in write back, every row keeps a status, a position, a guest count
\* and a removal stamp of the schema, and every request a place in its handler.
THEOREM RosterTypeCorrect == Spec => []RosterTypeOK
<1>1. RosterInv => RosterTypeOK
  BY DEF RosterInv, RowsInv, RosterTypeOK
<1>. QED BY <1>1, RosterInvAlways, PTL

\* waitlist_position is held by those who wait and by nobody else, and no two
\* share one: the queue promoteWaitlist reads is a queue at every moment.
THEOREM WaitlistStaysAQueue == Spec => []WaitlistIsAQueue
<1>1. RosterInv => WaitlistIsAQueue
  <2>. SUFFICES ASSUME RosterInv PROVE WaitlistIsAQueue
    OBVIOUS
  <2>1. \A m \in Members : rsvp[m].pos # Null <=> m \in Waiting(rsvp)
    BY DEF RosterInv, RowsInv, Paired, Waiting
  <2>2. Waiting(rsvp) \subseteq Members
    BY DEF Waiting
  <2>3. \A m, n \in Members : rsvp[m].pos # Null /\ rsvp[m].pos = rsvp[n].pos => m = n
    BY DEF RosterInv, RowsInv
  <2>. QED BY <2>1, <2>2, <2>3 DEF WaitlistIsAQueue
<1>. QED BY <1>1, RosterInvAlways, PTL

-----------------------------------------------------------------------------
(* What a step does to the rows *)

\* The other requests stay where they are.
LEMMA GotoEffect ==
  ASSUME RosterInv, NEW q \in Requests, NEW c, Goto(q, c)
  PROVE  req'[q] = c /\ \A p \in Requests \ {q} : req'[p] = req[p]
  BY DEF Goto, RosterInv

\* Taking the lock copies a row and changes none.
LEMMA LockEffect ==
  ASSUME RosterInv, NEW q \in Requests, NEW m, NEW pc, Lock(q, pc, m)
  PROVE  /\ UNCHANGED <<event, phase, rsvp, banned>>
         /\ req'[q].pc = pc /\ req'[q].who = m
         /\ \A p \in Requests \ {q} : req'[p] = req[p]
<1> DEFINE c == About(pc, m, rsvp[m], req[q].guests)
<1>1. Goto(q, c) /\ UNCHANGED <<event, phase, rsvp, banned>>
  <2>1. c = [Idle EXCEPT !.pc = pc, !.who = m, !.row = rsvp[m], !.guests = req[q].guests]
    BY IdleLocks, Zenon
  <2>. QED BY <2>1 DEF Lock
<1>2. c.pc = pc /\ c.who = m
  BY DEF About
<1>. HIDE DEF c
<1>. QED BY <1>1, <1>2, GotoEffect

\* Before its first step a request changes no row.
LEMMA BeginEffect ==
  ASSUME RosterInv, NEW q \in Requests, Begin(q)
  PROVE  /\ UNCHANGED <<event, phase, rsvp>>
         /\ \A p \in Requests \ {q} : req'[p] = req[p]
         /\ req'[q].pc \in LockHolders =>
              \/ MayRsvp(req'[q].who) /\ req'[q].who \in Members
              \/ OnRoster(req'[q].who)
<1>1. ASSUME NEW m \in Members, NEW want \in {"going", "maybe"}, RsvpLock(q, m, want)
      PROVE  Lock(q, want, m) /\ MayRsvp(m)
  BY <1>1 DEF RsvpLock
<1>2. ASSUME NEW m \in Members, CancelLock(q, m) \/ RemoveLock(q, m) \/ PromoteLock(q, m)
      PROVE  OnRoster(m) /\ \E pc \in LockHolders : Lock(q, pc, m)
  BY <1>2 DEF CancelLock, RemoveLock, PromoteLock, LockHolders, OnRoster, Live
<1>3. ASSUME NEW m \in Members, Bar(q, m) \/ Lift(q, m)
      PROVE  /\ UNCHANGED <<event, phase, rsvp>>
             /\ \A p \in Requests \ {q} : req'[p] = req[p]
             /\ req'[q].pc \notin LockHolders
  <2>1. PICK pc \in {"barring", "lifting"} : Goto(q, [Idle EXCEPT !.pc = pc, !.who = m])
    BY <1>3 DEF Bar, Lift
  <2>2. Goto(q, About(pc, m, NoRsvp, 0))
    BY <2>1, IdleAbout, Zenon
  <2>3. About(pc, m, NoRsvp, 0).pc \notin LockHolders
    BY DEF About, LockHolders
  <2>. QED BY <1>3, <2>2, <2>3, GotoEffect DEF Bar, Lift
<1>4. ASSUME NEW m \in Members, CheckInRead(q, m)
      PROVE  /\ UNCHANGED <<event, phase, rsvp>>
             /\ \A p \in Requests \ {q} : req'[p] = req[p]
             /\ req'[q].pc \notin LockHolders
  <2>1. Goto(q, About("door", m, rsvp[m], 0))
    BY <1>4, IdleHolds, Zenon DEF CheckInRead
  <2>2. About("door", m, rsvp[m], 0).pc \notin LockHolders
    BY DEF About, LockHolders
  <2>. QED BY <1>4, <2>1, <2>2, GotoEffect DEF CheckInRead
<1>5. ASSUME NEW m \in Members, NEW g \in Guests, DetailsRead(q, m, g)
      PROVE  /\ UNCHANGED <<event, phase, rsvp>>
             /\ \A p \in Requests \ {q} : req'[p] = req[p]
             /\ req'[q].pc \notin LockHolders
  <2>1. PICK pc \in {"raise", "lower"} :
          Goto(q, [Idle EXCEPT !.pc = pc, !.who = m, !.guests = g])
    BY <1>5 DEF DetailsRead
  <2>2. [Idle EXCEPT !.pc = pc, !.who = m, !.guests = g] = About(pc, m, NoRsvp, g)
    BY IdleAsks, Zenon
  <2>3. Goto(q, About(pc, m, NoRsvp, g))
    BY <2>1, <2>2, Zenon
  <2>4. About(pc, m, NoRsvp, g).pc \notin LockHolders
    BY DEF About, LockHolders
  <2>. QED BY <1>5, <2>3, <2>4, GotoEffect DEF DetailsRead
<1>6. ASSUME NEW e \in Event, UpdateRead(q, e)
      PROVE  /\ UNCHANGED <<event, phase, rsvp>>
             /\ \A p \in Requests \ {q} : req'[p] = req[p]
             /\ req'[q].pc \notin LockHolders
  <2> DEFINE c == [Idle EXCEPT !.pc = "saving", !.event = e, !.old = event.capacity]
  <2>1. c.pc \notin LockHolders
    BY DEF Idle, LockHolders
  <2>2. Goto(q, c)
    BY <1>6 DEF UpdateRead
  <2>. HIDE DEF c
  <2>. QED BY <1>6, <2>1, <2>2, GotoEffect DEF UpdateRead
<1>. QED BY <1>1, <1>2, <1>3, <1>4, <1>5, <1>6, LockEffect DEF Begin

\* Afterwards it writes the row of the member it is about, and a sweep may
\* follow; a lock it takes is about that member.
LEMMA StepEffect ==
  ASSUME RosterInv, NEW q \in Requests, Step(q)
  PROVE  /\ UNCHANGED <<phase, banned>>
         /\ \A p \in Requests \ {q} : req'[p] = req[p]
         /\ req'[q].pc \in LockHolders => req'[q].who = req[q].who
         /\ req[q].pc # "idle"
         /\ \/ UNCHANGED rsvp
            \/ \E row : rsvp' = [rsvp EXCEPT ![req[q].who] = row]
            \/ \E row : rsvp' = Swept([rsvp EXCEPT ![req[q].who] = row])
            \/ req[q].pc = "reconcile" /\ rsvp' = Swept(rsvp)
<1>0. Idle.pc \notin LockHolders /\ [Idle EXCEPT !.pc = "reconcile"].pc \notin LockHolders
  BY DEF Idle, LockHolders
<1>1. CASE BarRemoves(q) \/ RaiseLock(q)
  BY <1>1, LockEffect DEF BarRemoves, RaiseLock
<1>2. CASE UpdateSave(q)
  <2>1. /\ UNCHANGED <<phase, rsvp, banned>> /\ req[q].pc # "idle"
        /\ Goto(q, Idle) \/ Goto(q, [Idle EXCEPT !.pc = "reconcile"])
    BY <1>2 DEF UpdateSave, Done
  <2>. QED BY <1>0, <2>1, GotoEffect
<1>3. CASE ReconcileWaitlist(q)
  BY <1>0, <1>3, GotoEffect DEF ReconcileWaitlist, Done
<1>4. CASE DetailsWrite(q)
  <2>1. /\ UNCHANGED <<phase, banned>> /\ req[q].pc # "idle" /\ Goto(q, Idle)
        /\ rsvp' = [rsvp EXCEPT ![req[q].who] = [rsvp[req[q].who] EXCEPT !.guests = req[q].guests]]
    BY <1>4 DEF DetailsWrite, Done
  <2>. QED BY <1>0, <2>1, GotoEffect
<1>5. CASE LiftClearsStamp(q)
  <2>1. UNCHANGED <<phase, banned>> /\ req[q].pc # "idle" /\ Goto(q, Idle)
    BY <1>5 DEF LiftClearsStamp, Done
  <2>2. \E row : rsvp' = [rsvp EXCEPT ![req[q].who] = row]
    BY <1>5 DEF LiftClearsStamp
  <2>. QED BY <1>0, <2>1, <2>2, GotoEffect
<1>6. ASSUME NEW row, Save(q, row) \/ SaveAndSweep(q, row), req[q].pc # "idle"
      PROVE  /\ UNCHANGED <<phase, banned>> /\ Goto(q, Idle)
             /\ \/ \E s : rsvp' = [rsvp EXCEPT ![req[q].who] = s]
                \/ \E s : rsvp' = Swept([rsvp EXCEPT ![req[q].who] = s])
  BY <1>6 DEF Save, SaveAndSweep, Done
<1>7. CASE RsvpSeated(q) \/ RsvpWaitlisted(q) \/ RsvpMaybe(q) \/ CancelRsvp(q)
           \/ RemoveAttendee(q) \/ PromoteAttendee(q) \/ CheckInSave(q)
           \/ RaiseGuestCountAndSave(q)
  <2>1. req[q].pc # "idle" /\ \E row : Save(q, row) \/ SaveAndSweep(q, row)
    BY <1>7 DEF RsvpSeated, RsvpWaitlisted, RsvpMaybe, CancelRsvp, RemoveAttendee,
                PromoteAttendee, CheckInSave, RaiseGuestCountAndSave
  <2>2. /\ UNCHANGED <<phase, banned>> /\ Goto(q, Idle)
        /\ \/ \E s : rsvp' = [rsvp EXCEPT ![req[q].who] = s]
           \/ \E s : rsvp' = Swept([rsvp EXCEPT ![req[q].who] = s])
    BY <1>6, <2>1
  <2>. QED BY <1>0, <2>1, <2>2, GotoEffect
<1>8. CASE RsvpKeepsPlace(q) \/ RsvpTurnedAway(q) \/ PromoteRefused(q)
           \/ BarFindsNobody(q) \/ RaiseRefused(q) \/ RaiseHasNoRoom(q)
  <2>1. req[q].pc # "idle" /\ Refused(q)
    BY <1>8 DEF RsvpKeepsPlace, RsvpTurnedAway, PromoteRefused, BarFindsNobody,
                RaiseRefused, RaiseHasNoRoom
  <2>. QED BY <1>0, <2>1, GotoEffect DEF Refused, Done
<1>. QED BY <1>1, <1>2, <1>3, <1>4, <1>5, <1>7, <1>8 DEF Step

-----------------------------------------------------------------------------
(* A bar holds *)

\* Whoever passed the check before the bar was saved meets its removal yet; and a
\* promotion is of somebody on the roster.
BarInv ==
  \A q \in Requests :
    /\ req[q].pc \in {"going", "maybe"} /\ req[q].who \in banned =>
         \E p \in Requests : req[p].pc = "barring" /\ req[p].who = req[q].who
    /\ req[q].pc = "promote" => OnRoster(req[q].who)

\* What a request that begins does to the bars.
LEMMA BeginBars ==
  ASSUME RosterInv, NEW q \in Requests, Begin(q)
  PROVE  /\ req[q].pc = "idle" /\ UNCHANGED rsvp
         /\ \A p \in Requests \ {q} : req'[p] = req[p]
         /\ req'[q].pc \in {"going", "maybe"} => req'[q].who \notin banned /\ UNCHANGED banned
         /\ req'[q].pc = "promote" => OnRoster(req'[q].who)
         /\ \/ banned' \subseteq banned
            \/ req'[q].pc = "barring" /\ banned' = banned \cup {req'[q].who}
<1>0. UNCHANGED rsvp /\ \A p \in Requests \ {q} : req'[p] = req[p]
  BY BeginEffect
<1>1. ASSUME NEW m \in Members, NEW want \in {"going", "maybe"}, RsvpLock(q, m, want)
      PROVE  /\ req[q].pc = "idle" /\ UNCHANGED banned
             /\ req'[q].pc = want /\ req'[q].who \notin banned
  <2>1. Lock(q, want, m) /\ MayRsvp(m) /\ req[q].pc = "idle"
    BY <1>1 DEF RsvpLock
  <2>2. m \notin banned
    BY <2>1 DEF MayRsvp, RosterInv
  <2>. QED BY <2>1, <2>2, LockEffect
<1>2. ASSUME NEW m \in Members, CancelLock(q, m) \/ RemoveLock(q, m) \/ PromoteLock(q, m)
      PROVE  /\ req[q].pc = "idle" /\ UNCHANGED banned /\ OnRoster(req'[q].who)
             /\ req'[q].pc \in {"cancel", "remove", "promote"}
  <2>1. PICK pc \in {"cancel", "remove", "promote"} : Lock(q, pc, m)
    BY <1>2 DEF CancelLock, RemoveLock, PromoteLock
  <2>2. req[q].pc = "idle" /\ OnRoster(m)
    BY <1>2 DEF CancelLock, RemoveLock, PromoteLock, OnRoster, Live
  <2>. QED BY <2>1, <2>2, LockEffect
<1>3. ASSUME NEW m \in Members, Bar(q, m)
      PROVE  /\ req[q].pc = "idle" /\ req'[q].pc = "barring" /\ req'[q].who = m
             /\ banned' = banned \cup {m}
  <2>1. Goto(q, About("barring", m, NoRsvp, 0))
    BY <1>3, IdleAbout, Zenon DEF Bar
  <2>2. About("barring", m, NoRsvp, 0).pc = "barring" /\ About("barring", m, NoRsvp, 0).who = m
    BY DEF About
  <2>. QED BY <1>3, <2>1, <2>2, GotoEffect DEF Bar
<1>4. ASSUME NEW m \in Members, Lift(q, m)
      PROVE  req[q].pc = "idle" /\ req'[q].pc = "lifting" /\ banned' \subseteq banned
  <2>1. Goto(q, About("lifting", m, NoRsvp, 0))
    BY <1>4, IdleAbout, Zenon DEF Lift
  <2>2. About("lifting", m, NoRsvp, 0).pc = "lifting"
    BY DEF About
  <2>. QED BY <1>4, <2>1, <2>2, GotoEffect DEF Lift
<1>5. ASSUME \/ \E m \in Members : CheckInRead(q, m)
             \/ \E m \in Members, g \in Guests : DetailsRead(q, m, g)
             \/ \E e \in Event : UpdateRead(q, e)
      PROVE  /\ req[q].pc = "idle" /\ UNCHANGED banned
             /\ req'[q].pc \in {"door", "raise", "lower", "saving"}
  <2>1. req[q].pc = "idle" /\ UNCHANGED banned
    BY <1>5 DEF CheckInRead, DetailsRead, UpdateRead
  <2> DEFINE Reading == {"door", "raise", "lower", "saving"}
  <2>2. ASSUME NEW m \in Members, CheckInRead(q, m)
        PROVE  \E c : Goto(q, c) /\ c.pc \in Reading
    <3>1. Goto(q, About("door", m, rsvp[m], 0))
      BY <2>2, IdleHolds, Zenon DEF CheckInRead
    <3>. QED BY <3>1 DEF About
  <2>3. ASSUME NEW m \in Members, NEW g \in Guests, DetailsRead(q, m, g)
        PROVE  \E c : Goto(q, c) /\ c.pc \in Reading
    <3>1. PICK pc \in {"raise", "lower"} :
            Goto(q, [Idle EXCEPT !.pc = pc, !.who = m, !.guests = g])
      BY <2>3 DEF DetailsRead
    <3>2. [Idle EXCEPT !.pc = pc, !.who = m, !.guests = g] = About(pc, m, NoRsvp, g)
      BY IdleAsks, Zenon
    <3>3. Goto(q, About(pc, m, NoRsvp, g))
      BY <3>1, <3>2, Zenon
    <3>. QED BY <3>3 DEF About
  <2>4. ASSUME NEW e \in Event, UpdateRead(q, e)
        PROVE  \E c : Goto(q, c) /\ c.pc \in Reading
    <3> DEFINE c == [Idle EXCEPT !.pc = "saving", !.event = e, !.old = event.capacity]
    <3>1. c.pc = "saving"
      BY DEF Idle
    <3>2. Goto(q, c)
      BY <2>4 DEF UpdateRead
    <3>. QED
      <4>. HIDE DEF c
      <4>. QED BY <3>1, <3>2
  <2>5. \E c : Goto(q, c) /\ c.pc \in Reading
    BY <1>5, <2>2, <2>3, <2>4
  <2>. QED BY <2>1, <2>5, GotoEffect
<1>. QED BY <1>0, <1>1, <1>2, <1>3, <1>4, <1>5 DEF Begin

\* While one transaction holds the lock, the others can do three things.
LEMMA OthersUnderLock ==
  ASSUME RosterInv, NEW q \in Requests, req[q].pc \in LockHolders,
         NEW p \in Requests \ {q}, Step(p)
  PROVE  LiftClearsStamp(p) \/ CheckInSave(p) \/ DetailsWrite(p)
<1>1. req[p].pc \notin LockHolders /\ Locked
  BY DEF RosterInv, OneHolder, Locked
<1>2. ~RaiseLock(p) /\ ~BarRemoves(p)
  BY <1>1 DEF RaiseLock, BarRemoves, Lock
<1>. QED BY <1>1, <1>2 DEF Step, LockHolders, RsvpSeated, RsvpKeepsPlace, RsvpWaitlisted,
       RsvpTurnedAway, RsvpMaybe, CancelRsvp, RemoveAttendee, PromoteAttendee, PromoteRefused,
       BarFindsNobody, RaiseRefused, RaiseGuestCountAndSave, RaiseHasNoRoom, UpdateSave,
       ReconcileWaitlist

\* A write outside the lock takes nobody off the roster, and only a check-in puts
\* somebody on it.
LEMMA UnlockedWrites ==
  ASSUME RosterInv, NEW p \in Requests, LiftClearsStamp(p) \/ CheckInSave(p) \/ DetailsWrite(p)
  PROVE  /\ \A m \in Members :
              /\ Live(rsvp[m]) => Live(rsvp'[m])
              /\ Live(rsvp'[m]) /\ ~Live(rsvp[m]) => CheckInSave(p) /\ req[p].who = m
         /\ req[p].pc \in {"lifting", "door", "lower"}
<1>0. req[p].pc \in {"lifting", "door", "lower"}
  BY DEF LiftClearsStamp, CheckInSave, DetailsWrite
<1> SUFFICES ASSUME NEW m \in Members
             PROVE  /\ Live(rsvp[m]) => Live(rsvp'[m])
                    /\ Live(rsvp'[m]) /\ ~Live(rsvp[m]) => CheckInSave(p) /\ req[p].who = m
  BY <1>0
<1>1. rsvp \in [Members -> Rsvp] /\ \A n \in Members : rsvp[n] \in Rsvp
  BY DEF RosterInv, RowsInv
<1>2. CASE LiftClearsStamp(p)
  <2>1. rsvp'[m].status = rsvp[m].status 
    BY <1>1, <1>2 DEF LiftClearsStamp, Rsvp
  <2>. QED BY <2>1 DEF Live
<1>3. CASE DetailsWrite(p)
  <2>1. rsvp'[m].status = rsvp[m].status 
    BY <1>1, <1>3 DEF DetailsWrite, Rsvp
  <2>. QED BY <2>1 DEF Live
<1>4. CASE CheckInSave(p)
  <2>1. req[p].pc = "door" /\ rsvp' = [rsvp EXCEPT ![req[p].who] = req[p].row]
    BY <1>4 DEF CheckInSave, Save
  <2>2. req[p].row.status = "going"
    BY <2>1 DEF RosterInv, CopyInv
  <2>3. rsvp'[m] = IF req[p].who = m THEN req[p].row ELSE rsvp[m]
    BY <1>1, <2>1
  <2>. QED BY <1>4, <2>2, <2>3 DEF Live
<1>. QED BY <1>2, <1>3, <1>4

\* A step that goes on goes on to the removal, the raise or the reconciliation.
LEMMA StepGoesOn ==
  ASSUME RosterInv, NEW q \in Requests, Step(q)
  PROVE  req'[q].pc \notin {"going", "maybe", "promote", "barring", "door"}
<1>1. CASE BarRemoves(q) \/ RaiseLock(q)
  BY <1>1, LockEffect DEF BarRemoves, RaiseLock
<1>2. CASE ~(BarRemoves(q) \/ RaiseLock(q))
  <2>1. Goto(q, Idle) \/ Goto(q, [Idle EXCEPT !.pc = "reconcile"])
    BY <1>2 DEF Step, RsvpSeated, RsvpKeepsPlace, RsvpWaitlisted, RsvpTurnedAway, RsvpMaybe,
         CancelRsvp, RemoveAttendee, PromoteAttendee, PromoteRefused, BarFindsNobody,
         LiftClearsStamp, CheckInSave, DetailsWrite, RaiseRefused, RaiseGuestCountAndSave,
         RaiseHasNoRoom, UpdateSave, ReconcileWaitlist, Save, SaveAndSweep, Refused, Done
  <2>2. Idle.pc = "idle" /\ [Idle EXCEPT !.pc = "reconcile"].pc = "reconcile"
    BY DEF Idle
  <2>. QED BY <2>1, <2>2, GotoEffect
<1>. QED BY <1>1, <1>2

LEMMA BarInvNext == RosterInv /\ BarInv /\ [Next]_vars => BarInv'
<1> SUFFICES ASSUME RosterInv, BarInv, [Next]_vars PROVE BarInv'
  OBVIOUS
<1>1. CASE CancelEvent \/ PassTime \/ UNCHANGED vars
  <2>1. UNCHANGED <<rsvp, banned, req>>
    BY <1>1 DEF CancelEvent, PassTime, vars
  <2>. QED BY <2>1 DEF BarInv, OnRoster
<1>2. ASSUME NEW r \in Requests, Begin(r) PROVE BarInv'
  <2>0. /\ req[r].pc = "idle" /\ UNCHANGED rsvp
        /\ \A p \in Requests \ {r} : req'[p] = req[p]
        /\ req'[r].pc \in {"going", "maybe"} => req'[r].who \notin banned /\ UNCHANGED banned
        /\ req'[r].pc = "promote" => OnRoster(req'[r].who)
        /\ \/ banned' \subseteq banned
           \/ req'[r].pc = "barring" /\ banned' = banned \cup {req'[r].who}
    BY <1>2, BeginBars
  <2>1. ASSUME NEW q \in Requests, req'[q].pc \in {"going", "maybe"}, req'[q].who \in banned'
        PROVE  \E p \in Requests : req'[p].pc = "barring" /\ req'[p].who = req'[q].who
    <3>1. q # r /\ req'[q] = req[q]
      BY <2>0, <2>1
    <3>2. CASE req'[q].who \in banned
      BY <2>0, <2>1, <3>1, <3>2 DEF BarInv
    <3>3. CASE req'[q].who \notin banned
      BY <2>0, <2>1, <3>3
    <3>. QED BY <3>2, <3>3
  <2>2. ASSUME NEW q \in Requests, req'[q].pc = "promote" PROVE Live(rsvp'[req'[q].who])
    BY <2>0, <2>2 DEF BarInv, OnRoster
  <2>. QED BY <2>1, <2>2 DEF BarInv, OnRoster
<1>3. ASSUME NEW r \in Requests, Step(r) PROVE BarInv'
  <2>0. /\ UNCHANGED banned /\ \A p \in Requests \ {r} : req'[p] = req[p]
        /\ req'[r].pc \notin {"going", "maybe", "promote", "barring"}
    BY <1>3, StepEffect, StepGoesOn
  <2>1. ASSUME NEW q \in Requests, req'[q].pc \in {"going", "maybe", "promote"}
        PROVE  /\ req'[q] = req[q] /\ req[q].who \in Members
               /\ LiftClearsStamp(r) \/ CheckInSave(r) \/ DetailsWrite(r)
    <3>1. q # r /\ req'[q] = req[q] /\ req[q].pc \in LockHolders
      BY <2>0, <2>1 DEF LockHolders
    <3>. QED BY <1>3, <3>1, OthersUnderLock DEF RosterInv, CopyInv, LockHolders
  <2>2. ASSUME NEW q \in Requests, req'[q].pc \in {"going", "maybe"}, req'[q].who \in banned'
        PROVE  \E p \in Requests : req'[p].pc = "barring" /\ req'[p].who = req'[q].who
    <3>1. PICK p \in Requests : req[p].pc = "barring" /\ req[p].who = req[q].who
      BY <2>0, <2>1, <2>2 DEF BarInv
    <3>2. p # r
      BY <2>1, <2>2, <3>1, UnlockedWrites
    <3>. QED BY <2>0, <2>1, <2>2, <3>1, <3>2
  <2>3. ASSUME NEW q \in Requests, req'[q].pc = "promote" PROVE Live(rsvp'[req'[q].who])
    <3>1. Live(rsvp[req[q].who]) /\ req[q].who \in Members /\ req'[q] = req[q]
      BY <2>1, <2>3 DEF BarInv, OnRoster
    <3>2. Live(rsvp'[req[q].who])
      BY <2>1, <2>3, <3>1, UnlockedWrites
    <3>. QED BY <3>1, <3>2
  <2>. QED BY <2>2, <2>3 DEF BarInv, OnRoster
<1>. QED BY <1>1, <1>2, <1>3 DEF Next

\* Neither a save about somebody else nor a sweep brings m back.
LEMMA StepLeavesOff ==
  ASSUME RosterInv, NEW q \in Requests, Step(q), NEW m \in Members, ~OnRoster(m),
         req[q].who # m \/ UNCHANGED rsvp \/ rsvp' = Swept(rsvp)
  PROVE  ~OnRoster(m)'
<1>2. rsvp \in [Members -> Rsvp] /\ ~Live(rsvp[m])
  BY DEF RosterInv, RowsInv, OnRoster
<1>3. ASSUME NEW r, r \in [Members -> Rsvp] \/ r = [n \in Members |-> r[n]], r[m] = rsvp[m]
      PROVE  Swept(r)[m] = rsvp[m]
  <2>1. m \notin Promoted(r)
    BY <1>2, <1>3 DEF Promoted, Waiting, Live
  <2>. QED BY <1>3, <2>1 DEF Swept
<1>4. ASSUME NEW row, req[q].who # m
      PROVE  LET s == [rsvp EXCEPT ![req[q].who] = row] IN
             s = [n \in Members |-> s[n]] /\ s[m] = rsvp[m]
  BY <1>4, <1>2
<1>5. rsvp'[m] = rsvp[m]
  <2>1. CASE UNCHANGED rsvp
    BY <2>1
  <2>2. CASE req[q].who # m /\ \E row : rsvp' = [rsvp EXCEPT ![req[q].who] = row]
    BY <2>2, <1>4
  <2>3. ASSUME req[q].who # m, NEW row, rsvp' = Swept([rsvp EXCEPT ![req[q].who] = row])
        PROVE  rsvp'[m] = rsvp[m]
    <3> DEFINE s == [rsvp EXCEPT ![req[q].who] = row]
    <3>1. s = [n \in Members |-> s[n]] /\ s[m] = rsvp[m]
      BY <2>3, <1>4
    <3>2. rsvp' = Swept(s)
      BY <2>3
    <3>. HIDE DEF s
    <3>. QED BY <1>3, <3>1, <3>2
  <2>4. CASE rsvp' = Swept(rsvp)
    BY <2>4, <1>2, <1>3
  <2>. QED BY <2>1, <2>2, <2>3, <2>4, StepEffect
<1>. QED BY <1>2, <1>5 DEF OnRoster

\* A step about somebody who is off the roster puts them on it only by an RSVP that
\* was let in, or by a check-in.
LEMMA StepBringsBack ==
  ASSUME RosterInv, BarInv, NEW q \in Requests, Step(q), NEW m \in Members,
         ~OnRoster(m), OnRoster(m)'
  PROVE  req[q].who = m /\ req[q].pc \in {"going", "maybe", "door"}
<1>1. req[q].who = m /\ ~UNCHANGED rsvp /\ rsvp' # Swept(rsvp)
  BY StepLeavesOff
<1>2. rsvp \in [Members -> Rsvp] /\ ~Live(rsvp[m]) /\ rsvp[m] \in Rsvp /\ Live(rsvp'[m])
  BY DEF RosterInv, RowsInv, OnRoster
<1>3. ~CancelRsvp(q) /\ ~RemoveAttendee(q)
  <2>1. ASSUME NEW row \in Rsvp, row.status = "cancelled", SaveAndSweep(q, row) PROVE FALSE
    <3> DEFINE s == [rsvp EXCEPT ![m] = row]
    <3>1. (rsvp' = s \/ rsvp' = Swept(s)) /\ s[m] = row /\ s \in [Members -> Rsvp]
      BY <1>1, <1>2, <2>1 DEF SaveAndSweep
    <3>. HIDE DEF s
    <3>2. m \notin Waiting(s)
      BY <2>1, <3>1 DEF Waiting
    <3>3. Swept(s)[m] = s[m]
      BY <3>1, <3>2 DEF Swept, Promoted
    <3>. QED BY <1>2, <2>1, <3>1, <3>3 DEF Live
  <2>2. req[q].row \in Rsvp
    BY DEF RosterInv, Request
  <2>3. ASSUME NEW b \in BOOLEAN
        PROVE  LET row == [req[q].row EXCEPT !.status = "cancelled", !.pos = Null, !.removed = b]
               IN  row \in Rsvp /\ row.status = "cancelled"
    BY <2>2 DEF Rsvp
  <2>. QED BY <2>1, <2>3 DEF CancelRsvp, RemoveAttendee
<1>4. ~PromoteAttendee(q)
  BY <1>1 DEF PromoteAttendee, BarInv
<1>5. ~RaiseGuestCountAndSave(q)
  <2>1. SUFFICES ASSUME RaiseGuestCountAndSave(q) PROVE FALSE
    OBVIOUS
  <2>2. req[q].pc = "raising" /\ rsvp' = [rsvp EXCEPT ![m] = [req[q].row EXCEPT !.guests = req[q].guests]]
    BY <1>1, <2>1 DEF RaiseGuestCountAndSave, Save
  <2>3. Agrees(req[q].row, rsvp[m])
    BY <1>1, <2>2 DEF RosterInv, CopyInv, LockHolders
  <2>4. req[q].row \in Rsvp
    BY DEF RosterInv, Request
  <2>5. rsvp'[m].status = req[q].row.status
    BY <1>2, <2>2, <2>4 DEF Rsvp
  <2>. QED BY <1>2, <2>3, <2>5 DEF Agrees, Live
<1>6. CASE LiftClearsStamp(q) \/ CheckInSave(q) \/ DetailsWrite(q)
  BY <1>1, <1>2, <1>6, UnlockedWrites DEF CheckInSave
<1>7. ~(RsvpKeepsPlace(q) \/ RsvpTurnedAway(q) \/ PromoteRefused(q) \/ BarRemoves(q)
        \/ BarFindsNobody(q) \/ RaiseLock(q) \/ RaiseRefused(q) \/ RaiseHasNoRoom(q)
        \/ UpdateSave(q) \/ ReconcileWaitlist(q))
  BY <1>1 DEF RsvpKeepsPlace, RsvpTurnedAway, PromoteRefused, BarRemoves, BarFindsNobody,
       RaiseLock, RaiseRefused, RaiseHasNoRoom, UpdateSave, ReconcileWaitlist, Refused, Lock
<1>8. CASE RsvpSeated(q) \/ RsvpWaitlisted(q) \/ RsvpMaybe(q)
  BY <1>1, <1>8 DEF RsvpSeated, RsvpWaitlisted, RsvpMaybe
<1>. QED BY <1>3, <1>4, <1>5, <1>6, <1>7, <1>8 DEF Step

\* A removal that ends has taken its member off.
LEMMA RemovalRemoves ==
  ASSUME RosterInv, NEW q \in Requests, Step(q), NEW m \in Members,
         req[q].pc \in {"barring", "remove"}, req[q].who = m
  PROVE  ~OnRoster(m)' \/ (req'[q].pc = "remove" /\ req'[q].who = m)
<1>1. BarRemoves(q) \/ BarFindsNobody(q) \/ RemoveAttendee(q)
  BY DEF Step, RsvpSeated, RsvpKeepsPlace, RsvpWaitlisted, RsvpTurnedAway, RsvpMaybe,
       CancelRsvp, PromoteAttendee, PromoteRefused, LiftClearsStamp, CheckInSave, DetailsWrite,
       RaiseLock, RaiseRefused, RaiseGuestCountAndSave, RaiseHasNoRoom, UpdateSave,
       ReconcileWaitlist
<1>2. CASE BarRemoves(q)
  BY <1>2, LockEffect DEF BarRemoves
<1>3. CASE BarFindsNobody(q)
  BY <1>3 DEF BarFindsNobody, Refused, OnRoster
<1>4. CASE RemoveAttendee(q)
  <2> DEFINE row == [req[q].row EXCEPT !.status = "cancelled", !.pos = Null, !.removed = TRUE]
             s   == [rsvp EXCEPT ![m] = row]
  <2>1. rsvp' = s \/ rsvp' = Swept(s)
    BY <1>4 DEF RemoveAttendee, SaveAndSweep
  <2>2. row.status = "cancelled" /\ s[m] = row /\ s = [n \in Members |-> s[n]]
    BY DEF RosterInv, RowsInv, Request, Rsvp
  <2>. HIDE DEF row, s
  <2>3. Swept(s)[m] = s[m]
    BY <2>2 DEF Swept, Promoted, Waiting
  <2>. QED BY <2>1, <2>2, <2>3 DEF OnRoster, Live
<1>. QED BY <1>1, <1>2, <1>3, <1>4

\* EventBansService.ban: barring and removing are one act, whatever RSVP, promotion
\* or raise was between its checks and its commit when the bar was saved.  Only a
\* check-in that had read the seat brings a barred member back.
THEOREM BarredStaysOffAlways == Spec => BarredStaysOff
<1>1. Init => BarInv
  BY DEF Init, Idle, BarInv
<1>2. ASSUME RosterInv, BarInv, Next, NEW m \in Members, SlippedThrough(m)', ~SlippedThrough(m)
      PROVE  \E q \in Requests : Steps(q, {"door"}) /\ req[q].who = m
  <2>0. OnRoster(m)' /\ m \in banned'
        /\ \A q \in Requests : ~(req'[q].pc \in {"barring", "remove"} /\ req'[q].who = m)
    BY <1>2 DEF SlippedThrough, RemovalToCome
  <2>1. CASE CancelEvent \/ PassTime
    BY <1>2, <2>1 DEF CancelEvent, PassTime, SlippedThrough, OnRoster, RemovalToCome
  <2>2. ASSUME NEW r \in Requests, Begin(r) PROVE FALSE
    <3>1. /\ req[r].pc = "idle" /\ UNCHANGED rsvp
          /\ \A p \in Requests \ {r} : req'[p] = req[p]
          /\ \/ banned' \subseteq banned
             \/ req'[r].pc = "barring" /\ banned' = banned \cup {req'[r].who}
      BY <1>2, <2>2, BeginBars
    <3>2. m \in banned /\ OnRoster(m)
      BY <2>0, <3>1 DEF OnRoster
    <3>3. ~RemovalToCome(m)
      BY <2>0, <3>1 DEF RemovalToCome
    <3>. QED BY <1>2, <3>2, <3>3 DEF SlippedThrough
  <2>3. ASSUME NEW r \in Requests, Step(r)
        PROVE  Steps(r, {"door"}) /\ req[r].who = m
    <3>1. /\ UNCHANGED banned /\ \A p \in Requests \ {r} : req'[p] = req[p]
          /\ req'[r].pc # "door"
      BY <1>2, <2>3, StepEffect, StepGoesOn
    <3>2. ~RemovalToCome(m)
      <4>1. SUFFICES ASSUME NEW p \in Requests, req[p].pc \in {"barring", "remove"},
                            req[p].who = m
                     PROVE  FALSE
        BY DEF RemovalToCome
      <4>2. p = r
        BY <2>0, <3>1, <4>1
      <4>. QED BY <1>2, <2>0, <2>3, <4>1, <4>2, RemovalRemoves
    <3>3. ~OnRoster(m)
      BY <1>2, <2>0, <3>1, <3>2 DEF SlippedThrough
    <3>4. req[r].who = m /\ req[r].pc \in {"going", "maybe", "door"}
      BY <1>2, <2>0, <2>3, <3>3, StepBringsBack
    <3>5. req[r].pc = "door"
      BY <1>2, <2>0, <3>1, <3>2, <3>4 DEF BarInv, RemovalToCome
    <3>. QED BY <3>1, <3>4, <3>5 DEF Steps
  <2>. QED BY <1>2, <2>1, <2>2, <2>3 DEF Next
<1>3. RosterInv /\ BarInv /\ [Next]_vars =>
        [\A m \in Members : SlippedThrough(m)' =>
           \/ SlippedThrough(m)
           \/ \E q \in Requests : Steps(q, {"door"}) /\ req[q].who = m]_vars
  BY <1>2
<1>4. Spec => []BarInv
  BY <1>1, BarInvNext, RosterInvAlways, PTL DEF Spec
<1>. QED BY <1>3, <1>4, RosterInvAlways, PTL DEF Spec, BarredStaysOff

-----------------------------------------------------------------------------
(* Counting the seats *)

\* The seats each member's row asks for.
Seats(r) == [m \in Members |-> 1 + r[m].guests]

\* SeatsOf is the total of these.
LEMMA SeatsOfIsTotal ==
  ASSUME NEW r, NEW S \in SUBSET Members
  PROVE  SeatsOf(r, S) = Total(Seats(r), S)
<1> DEFINE F(it) == it = [s \in SUBSET S |-> IF s = {} THEN 0
                            ELSE (1 + r[CHOOSE x \in s : TRUE].guests)
                                 + it[s \ {CHOOSE x \in s : TRUE}]]
           it0 == CHOOSE it : F(it)
           w == Seats(r)
<1>1. SeatsOf(r, S) = it0[S]
  BY DEF SeatsOf, MapThenSumSet, MapThenFoldSet, PartySize
<1>2. ASSUME NEW it PROVE F(it) <=> SumsOver(it, w, S)
  <2>1. ASSUME NEW s \in SUBSET S, s # {}
        PROVE  1 + r[Pick(s)].guests = w[Pick(s)]
    BY <2>1, PickInSet DEF Seats
  <2>2. [s \in SUBSET S |-> IF s = {} THEN 0 ELSE (1 + r[Pick(s)].guests) + it[s \ {Pick(s)}]]
        = [s \in SUBSET S |-> IF s = {} THEN 0 ELSE w[Pick(s)] + it[s \ {Pick(s)}]]
    <3>. HIDE DEF w
    <3>. QED BY <2>1
  <2>. QED BY <2>2, Zenon DEF SumsOver, Pick
<1>3. IsFiniteSet(S)
  BY PeopleAssumption, FS_Subset
<1> DEFINE a == SumsOf(w, S)
<1>4. SumsOver(a, w, S)
  BY <1>3, SumsExist
<1>5. F(it0)
  <2>. HIDE DEF F, a
  <2>1. F(a)
    BY <1>4, <1>2
  <2>. QED BY <2>1, Zenon DEF it0
<1>6. SumsOver(it0, w, S)
  <2>. HIDE DEF F, it0
  <2>. QED BY <1>5, <1>2
<1>7. it0[S] = a[S]
  <2>. HIDE DEF it0, a, w
  <2>. QED BY <1>4, <1>6, <1>3, SumsAgree
<1>. QED BY <1>1, <1>7 DEF Total

\* So are the people let in and the seats taken.
LEMMA ArrivalsAreSeats ==
  ASSUME NEW r
  PROVE  Arrivals(r) = SeatsTaken(r) /\ SeatsTaken(r) = Total(Seats(r), Going(r))
<1>1. Going(r) \in SUBSET Members
  BY DEF Going
<1>2. SeatsTaken(r) = Total(Seats(r), Going(r))
  BY <1>1, SeatsOfIsTotal DEF SeatsTaken
<1>3. Arrivals(r) = SeatsTaken(r)
  BY DEF Arrivals, SeatsTaken, SeatsOf, PartySize
<1>. QED BY <1>2, <1>3

\* Seats are natural numbers, and finitely many rows ask for them.
LEMMA SeatsAreNat ==
  ASSUME NEW r, RowsInv(r), NEW S \in SUBSET Members
  PROVE  /\ IsFiniteSet(S) /\ \A m \in Members : Seats(r)[m] \in Nat
         /\ Total(Seats(r), S) \in Nat
<1>1. IsFiniteSet(S)
  BY PeopleAssumption, FS_Subset
<1>2. \A m \in Members : Seats(r)[m] \in Nat
  BY SeatsAssumption DEF Seats, RowsInv, Rsvp, Guests
<1>. QED BY <1>1, <1>2, TotalIsNat

\* The seats one row takes.
Taken(row) == IF row.status = "going" THEN PartySize(row) ELSE 0

\* The same of one row.
LEMMA TakenIsNat ==
  ASSUME NEW row \in Rsvp
  PROVE  Taken(row) \in Nat /\ PartySize(row) \in Nat
  BY SeatsAssumption DEF Taken, PartySize, Rsvp, Guests

\* One row is written over another.
LEMMA PutSeats ==
  ASSUME NEW r, RowsInv(r), NEW m \in Members, NEW row \in Rsvp,
         NEW s, s = [r EXCEPT ![m] = row]
  PROVE  /\ SeatsTaken(s) + Taken(r[m]) = SeatsTaken(r) + Taken(row)
         /\ SeatsTaken(s) \in Nat /\ SeatsTaken(r) \in Nat
         /\ Taken(r[m]) \in Nat /\ Taken(row) \in Nat
<1> DEFINE others == Going(r) \ {m}
           rest   == Total(Seats(r), others)
<1>1. \A n \in Members : s[n] = IF n = m THEN row ELSE r[n]
  BY DEF RowsInv
<1>2. others \in SUBSET Members /\ Going(s) \in SUBSET Members /\ Going(r) \in SUBSET Members
  BY DEF Going
<1>3. rest \in Nat /\ IsFiniteSet(others) /\ IsFiniteSet(Going(s)) /\ IsFiniteSet(Going(r))
  BY <1>2, SeatsAreNat, PeopleAssumption, FS_Subset
<1>4. \A n \in Members : Seats(r)[n] \in Nat
  BY SeatsAreNat
<1>5. \A n \in Members : Seats(s)[n] \in Nat
  BY <1>1, <1>4, SeatsAssumption DEF Seats, Rsvp, Guests
<1>6. SeatsTaken(r) = rest + Taken(r[m])
  <2>1. CASE r[m].status = "going"
    <3>1. m \in Going(r)
      BY <2>1 DEF Going
    <3>0. \A n \in Going(r) : Seats(r)[n] \in Int
      BY <1>2, <1>4
    <3>2. Total(Seats(r), Going(r)) = Seats(r)[m] + rest
      BY <1>3, <3>0, <3>1, TotalTakes
    <3>3. Seats(r)[m] = Taken(r[m])
      BY <2>1 DEF Seats, Taken, PartySize
    <3>. HIDE DEF rest
    <3>. QED BY <1>3, <1>4, <3>2, <3>3, ArrivalsAreSeats
  <2>2. CASE r[m].status # "going"
    <3>1. others = Going(r)
      BY <2>2 DEF Going
    <3>2. SeatsTaken(r) = rest /\ Taken(r[m]) = 0
      BY <3>1, <2>2, ArrivalsAreSeats DEF Taken
    <3>. HIDE DEF rest
    <3>. QED BY <1>3, <3>2
  <2>. QED BY <2>1, <2>2
<1>7. Total(Seats(s), others) = rest
  <2>1. \A n \in others : Seats(s)[n] = Seats(r)[n]
    BY <1>1, <1>2 DEF Seats
  <2>. HIDE DEF others
  <2>. QED BY <1>3, <2>1, TotalAgrees
<1>8. Going(s) \ {m} = others
  BY <1>1 DEF Going
<1>9. SeatsTaken(s) = rest + Taken(row)
  <2>1. CASE row.status = "going"
    <3>1. m \in Going(s)
      BY <1>1, <2>1 DEF Going
    <3>0. ASSUME NEW n \in Going(s) PROVE Seats(s)[n] \in Int
      <4>1. n \in Members
        BY DEF Going
      <4>2. Seats(s)[n] \in Nat
        BY <1>5, <4>1
      <4>. HIDE DEF others, rest
      <4>. QED BY <4>2
    <3>2. Total(Seats(s), Going(s)) = Seats(s)[m] + Total(Seats(s), Going(s) \ {m})
      <4> DEFINE w == Seats(s)
                 S == Going(s)
      <4>1. IsFiniteSet(S) /\ m \in S /\ \A n \in S : w[n] \in Int
        BY <1>3, <3>0, <3>1
      <4>. HIDE DEF w, S
      <4>2. Total(w, S) = w[m] + Total(w, S \ {m})
        BY <4>1, TotalTakes
      <4>. QED BY <4>2 DEF w, S
    <3>3. Seats(s)[m] = Taken(row)
      BY <1>1, <2>1 DEF Seats, Taken, PartySize
    <3>4. Total(Seats(s), Going(s)) = Taken(row) + rest
      BY <1>7, <1>8, <3>2, <3>3
    <3>5. Taken(row) \in Nat
      BY <1>5, <3>3
    <3>. HIDE DEF rest, others
    <3>. QED BY <1>3, <3>4, <3>5, ArrivalsAreSeats
  <2>2. CASE row.status # "going"
    <3>1. others = Going(s)
      BY <1>1, <2>2 DEF Going
    <3>2. SeatsTaken(s) = rest /\ Taken(row) = 0
      BY <1>7, <3>1, <2>2, ArrivalsAreSeats DEF Taken
    <3>. HIDE DEF rest
    <3>. QED BY <1>3, <3>2
  <2>. QED BY <2>1, <2>2
<1>10. Taken(r[m]) \in Nat /\ Taken(row) \in Nat
  BY TakenIsNat DEF RowsInv
<1>. HIDE DEF rest
<1>. QED BY <1>3, <1>6, <1>9, <1>10

\* The queue up to member m.
Ahead(r, m) == {n \in Waiting(r) : r[n].pos <= r[m].pos}

\* A sweep changes nothing, or what it seats fits.
LEMMA SweepFits ==
  ASSUME NEW r, RowsInv(r), event \in Event
  PROVE  Swept(r) = r \/ Fits(SeatsTaken(Swept(r)))
<1> DEFINE s == Swept(r)
           P == Promoted(r)
<1>1. CASE event.status # "published"
  BY <1>1 DEF Swept
<1>2. CASE event.status = "published" /\ P = {}
  <2>1. Swept(r) = [m \in Members |-> r[m]]
    BY <1>2 DEF Swept
  <2>. QED BY <2>1 DEF RowsInv
<1>3. CASE event.status = "published" /\ P # {}
  <2>1. P \in SUBSET Members /\ P \subseteq Waiting(r)
    BY DEF Promoted, Waiting
  <2>2. \A m \in P : r[m].pos \in 1..MaxPos
    BY <2>1, SeatsAssumption DEF RowsInv, Rsvp, Paired, Waiting
  <2>3. PICK last \in P : \A m \in P : r[m].pos <= r[last].pos
    <3> DEFINE T == {r[m].pos : m \in P}
    <3>1. T \in SUBSET (0..MaxPos) /\ T # {}
      BY <1>3, <2>2, SeatsAssumption
    <3>2. Max(T) \in T /\ \A y \in T : y <= Max(T)
      <4>. HIDE DEF T
      <4>. QED BY <3>1, MaxOfBounded, SeatsAssumption
    <3>. QED BY <3>2
  <2>4. P \subseteq Ahead(r, last) /\ Ahead(r, last) \in SUBSET Members
    BY <2>1, <2>3 DEF Ahead, Waiting
  <2>5. Fits(SeatsTaken(r) + Total(Seats(r), Ahead(r, last)))
    BY <2>3, <2>4, SeatsOfIsTotal DEF Promoted, Ahead
  <2>6. Going(s) = Going(r) \cup P
    <3>1. \A m \in Members : s[m] = IF m \in P THEN [r[m] EXCEPT !.status = "going", !.pos = Null]
                                    ELSE r[m]
      BY <1>3 DEF Swept
    <3>2. \A m \in P : s[m].status = "going"
      <4>. TAKE m \in P
      <4>1. s[m] = [r[m] EXCEPT !.status = "going", !.pos = Null] /\ r[m] \in Rsvp
        BY <2>1, <3>1 DEF RowsInv
      <4>. HIDE DEF s
      <4>. QED BY <4>1, SeatedRow
    <3>. HIDE DEF s, P
    <3>. QED BY <2>1, <3>1, <3>2 DEF Going
  <2>7. \A m \in Members : Seats(s)[m] = Seats(r)[m]
    <3>. TAKE m \in Members
    <3>1. s[m].guests = r[m].guests
      <4>1. CASE s[m] = r[m]
        BY <4>1
      <4>2. CASE s[m] = [r[m] EXCEPT !.status = "going", !.pos = Null]
        <5>1. r[m] \in Rsvp
          BY DEF RowsInv
        <5>. HIDE DEF s
        <5>. QED BY <4>2, <5>1, SeatedRow
      <4>. QED BY <4>1, <4>2, SweptAt DEF RowsInv
    <3>. QED BY <3>1 DEF Seats
  <2>8. Going(r) \in SUBSET Members /\ Going(r) \cap P = {}
    BY <2>1 DEF Going, Waiting
  <2>9. /\ IsFiniteSet(Going(r)) /\ IsFiniteSet(P) /\ IsFiniteSet(Going(r) \cup P)
        /\ IsFiniteSet(Ahead(r, last))
        /\ Total(Seats(r), Going(r)) \in Nat /\ Total(Seats(r), P) \in Nat
        /\ Total(Seats(r), Ahead(r, last)) \in Nat
        /\ \A m \in Members : Seats(r)[m] \in Nat
    BY <2>1, <2>4, <2>8, SeatsAreNat, FS_Union
  <2>. HIDE DEF P, s
  <2>10. Total(Seats(s), Going(s)) = Total(Seats(r), Going(r) \cup P)
    <3>1. \A m \in Going(r) \cup P : Seats(s)[m] = Seats(r)[m]
      BY <2>1, <2>7, <2>8
    <3>. QED BY <2>6, <2>9, <3>1, TotalAgrees
  <2>11. Total(Seats(r), Going(r) \cup P) = Total(Seats(r), Going(r)) + Total(Seats(r), P)
    BY <2>1, <2>8, <2>9, TotalOfUnion
  <2>12. Total(Seats(r), P) <= Total(Seats(r), Ahead(r, last))
    BY <2>4, <2>9, TotalGrows
  <2>13. SeatsTaken(s) <= SeatsTaken(r) + Total(Seats(r), Ahead(r, last))
         /\ SeatsTaken(s) \in Nat /\ SeatsTaken(r) \in Nat
    BY <2>9, <2>10, <2>11, <2>12, ArrivalsAreSeats
  <2>14. event.capacity # Null => event.capacity \in Nat
    BY SeatsAssumption DEF Event
  <2> DEFINE more == Total(Seats(r), Ahead(r, last))
  <2>15. more \in Nat /\ Fits(SeatsTaken(r) + more) /\ SeatsTaken(s) <= SeatsTaken(r) + more
    BY <2>5, <2>9, <2>13
  <2>. HIDE DEF more
  <2>16. Fits(SeatsTaken(s))
    BY <2>13, <2>14, <2>15 DEF Fits
  <2>. QED BY <2>16 DEF s
<1>. QED BY <1>1, <1>2, <1>3

\* What NoOverbooking asks of request q's step.
NotOverbooked(q) ==
  \/ SeatsTaken(rsvp') <= SeatsTaken(rsvp)
  \/ Fits(SeatsTaken(rsvp'))
  \/ Steps(q, {"door", "lower"})
  \/ Steps(q, LockHolders) /\ ChangedUnderLock(q)

\* The seats taken are a natural number.
LEMMA SeatsTakenIsNat ==
  ASSUME NEW r, RowsInv(r)
  PROVE  SeatsTaken(r) \in Nat
<1>1. Going(r) \in SUBSET Members
  BY DEF Going
<1>. QED BY <1>1, SeatsAreNat, ArrivalsAreSeats

\* Giving a seat up takes none, and the sweep that follows fits.
LEMMA LeavingFrees ==
  ASSUME RosterInv, NEW q \in Requests, req[q].pc \in LockHolders, NEW row,
         Writable(req[q].who, row), row.status # "going", SaveAndSweep(q, row)
  PROVE  NotOverbooked(q)
<1> DEFINE m == req[q].who
           saved == [rsvp EXCEPT ![m] = row]
<1>1. m \in Members /\ RowsInv(rsvp) /\ event \in Event /\ row \in Rsvp /\ rsvp[m] \in Rsvp
  BY DEF RosterInv, CopyInv, LockHolders, Writable, RowsInv
<1>2. RowsInv(saved)
  BY <1>1, PutKeeps DEF Writable
<1>3. SeatsTaken(saved) <= SeatsTaken(rsvp)
  <2>1. /\ SeatsTaken(saved) + Taken(rsvp[m]) = SeatsTaken(rsvp) + Taken(row)
        /\ SeatsTaken(saved) \in Nat /\ SeatsTaken(rsvp) \in Nat
        /\ Taken(rsvp[m]) \in Nat
    <3>. HIDE DEF m
    <3>. QED BY <1>1, PutSeats
  <2>2. Taken(row) = 0
    BY DEF Taken
  <2>. HIDE DEF saved, m
  <2>. QED BY <2>1, <2>2
<1>4. rsvp' \in {saved, Swept(saved)}
  BY DEF SaveAndSweep
<1>. HIDE DEF saved, m
<1>. QED BY <1>1, <1>2, <1>3, <1>4, SweepFits DEF NotOverbooked

\* A row is written that takes no more than the one it stands for, or fits.
LEMMA PutFits ==
  ASSUME NEW r, RowsInv(r), NEW m \in Members, NEW row \in Rsvp,
         NEW s, s = [r EXCEPT ![m] = row]
  PROVE  (\/ Taken(row) <= Taken(r[m])
          \/ Fits((SeatsTaken(r) - Taken(r[m])) + Taken(row)))
         => (SeatsTaken(s) <= SeatsTaken(r) \/ Fits(SeatsTaken(s)))
<1>1. /\ SeatsTaken(s) + Taken(r[m]) = SeatsTaken(r) + Taken(row)
      /\ SeatsTaken(s) \in Nat /\ SeatsTaken(r) \in Nat
      /\ Taken(r[m]) \in Nat /\ Taken(row) \in Nat
  BY PutSeats
<1>2. (SeatsTaken(r) - Taken(r[m])) + Taken(row) = SeatsTaken(s)
  BY <1>1
<1>3. Taken(row) <= Taken(r[m]) => SeatsTaken(s) <= SeatsTaken(r)
  BY <1>1
<1>. QED BY <1>2, <1>3

\* The same of the step that writes the row.
LEMMA WrittenRowFits ==
  ASSUME RosterInv, NEW q \in Requests, NEW m \in Members, NEW row \in Rsvp,
         rsvp' = [rsvp EXCEPT ![m] = row],
         \/ Taken(row) <= Taken(rsvp[m])
         \/ Fits((SeatsTaken(rsvp) - Taken(rsvp[m])) + Taken(row))
  PROVE  NotOverbooked(q)
<1> DEFINE s == [rsvp EXCEPT ![m] = row]
<1>1. SeatsTaken(s) <= SeatsTaken(rsvp) \/ Fits(SeatsTaken(s))
  BY PutFits DEF RosterInv
<1>2. rsvp' = s
  OBVIOUS
<1>. HIDE DEF s
<1>. QED BY <1>1, <1>2 DEF NotOverbooked

\* No step of a handler overbooks, but for the exceptions that are named.
LEMMA StepNeverOverbooks ==
  ASSUME RosterInv, NEW q \in Requests, Step(q)
  PROVE  NotOverbooked(q)
<1> DEFINE c == req[q]
           m == c.who
           stored == rsvp[m]
<1>0. /\ CopyInv(c, rsvp) /\ c \in Request /\ c.row \in Rsvp /\ c.guests \in Guests
      /\ RowsInv(rsvp) /\ event \in Event /\ SeatsTaken(rsvp) \in Nat
      /\ rsvp[Host].status = "going"
  BY SeatsTakenIsNat DEF RosterInv, Request, RowsInv
<1>a. ASSUME UNCHANGED rsvp PROVE NotOverbooked(q)
  BY <1>0, <1>a DEF NotOverbooked
\* A commit whose copy is not the stored row is the exception that is named.
<1>b. ASSUME c.pc \in LockHolders, Goto(q, Idle), c.row # stored
      PROVE  NotOverbooked(q)
  <2>1. req'[q] # req[q]
    BY <1>b, GotoEffect DEF Idle, LockHolders
  <2>. QED BY <1>b, <2>1 DEF NotOverbooked, Steps, ChangedUnderLock
<1>c. c.pc \in LockHolders \cup {"lifting", "door", "lower"} => m \in Members /\ stored \in Rsvp
  BY <1>0 DEF CopyInv, LockHolders, RowsInv
<1>1. CASE RsvpSeated(q)
  <2> DEFINE row == Rewritten(c.row, "going", Null, FALSE)
  <2>1. Persisted(q, "going", Null) = row
    BY Zenon DEF Persisted, Rewritten
  <2>2. row \in Rsvp /\ row.status = "going" /\ row.guests = c.row.guests
    <3>0. c.row \in Rsvp
      BY <1>0
    <3>1. row = [status |-> "going", pos |-> Null, guests |-> c.row.guests, removed |-> FALSE]
      BY <3>0, RewrittenIs, Zenon
    <3>2. c.row.guests \in Guests
      BY <1>0 DEF Rsvp
    <3>. HIDE DEF row
    <3>. QED BY <3>1, <3>2 DEF Rsvp
  <2>3. c.pc = "going" /\ HasSeat(q) /\ rsvp' = [rsvp EXCEPT ![m] = row] /\ Goto(q, Idle)
    BY <1>1, <2>1 DEF RsvpSeated, Save, Done
  <2>. HIDE DEF row
  <2>4. Taken(row) = PartySize(c.row) /\ PartySize(c.row) \in Nat /\ m \in Members
    BY <1>0, <1>c, <2>2, <2>3, TakenIsNat DEF Taken, PartySize, LockHolders
  <2>5. CASE c.row # stored
    BY <1>b, <2>3, <2>5 DEF LockHolders
  <2>6. CASE c.row = stored /\ stored.status = "going"
    <3>1. Taken(row) <= Taken(stored)
      BY <2>4, <2>6 DEF Taken
    <3>. QED BY <2>2, <2>3, <2>4, <3>1, WrittenRowFits
  <2>7. CASE c.row = stored /\ stored.status # "going"
    <3>1. Fits(SeatsTaken(rsvp) + PartySize(c.row))
      BY <1>0, <2>3, <2>7 DEF HasSeat, SeatsWith
    <3>2. Taken(stored) = 0
      BY <2>7 DEF Taken
    <3>3. Fits((SeatsTaken(rsvp) - Taken(stored)) + Taken(row))
      <4>1. (SeatsTaken(rsvp) - Taken(stored)) + Taken(row) = SeatsTaken(rsvp) + PartySize(c.row)
        BY <1>0, <2>4, <3>2
      <4>. QED BY <3>1, <4>1
    <3>. QED BY <2>2, <2>3, <2>4, <3>3, WrittenRowFits
  <2>. QED BY <2>5, <2>6, <2>7
<1>2. CASE RsvpKeepsPlace(q) \/ RsvpTurnedAway(q) \/ PromoteRefused(q)
           \/ BarFindsNobody(q) \/ RaiseRefused(q) \/ RaiseHasNoRoom(q)
  BY <1>2, <1>a DEF Refused, RsvpKeepsPlace, RsvpTurnedAway, PromoteRefused,
                    BarFindsNobody, RaiseRefused, RaiseHasNoRoom
<1>3. CASE BarRemoves(q) \/ RaiseLock(q) \/ UpdateSave(q)
  BY <1>3, <1>a DEF Lock, BarRemoves, RaiseLock, UpdateSave
<1>4. CASE RsvpWaitlisted(q)
  <2> DEFINE row == Rewritten(c.row, "waitlisted", NextPosition, FALSE)
  <2>1. Persisted(q, "waitlisted", NextPosition) = row
    BY Zenon DEF Persisted, Rewritten
  <2>2. row \in Rsvp /\ row.status = "waitlisted"
    <3>1. NextPosition \in 1..MaxPos \cup {Null}
      BY <1>0, <1>4, NextPositionIsLast, SeatsAssumption DEF RsvpWaitlisted, CopyInv
    <3>2. c.row \in Rsvp /\ c.row.guests \in Guests
      BY <1>0 DEF Rsvp
    <3>3. row = [status |-> "waitlisted", pos |-> NextPosition, guests |-> c.row.guests,
                 removed |-> FALSE]
      BY <3>2, RewrittenIs, Zenon
    <3>. HIDE DEF row
    <3>. QED BY <3>1, <3>2, <3>3 DEF Rsvp
  <2>3. c.pc = "going" /\ rsvp' = [rsvp EXCEPT ![m] = row]
    BY <1>4, <2>1 DEF RsvpWaitlisted, Save
  <2>. HIDE DEF row
  <2>4. Taken(row) <= Taken(stored) /\ m \in Members
    BY <1>c, <2>2, <2>3, TakenIsNat DEF Taken, LockHolders
  <2>. QED BY <2>2, <2>3, <2>4, WrittenRowFits
<1>5. ASSUME NEW pc \in {"maybe", "cancel", "remove"}, c.pc = pc,
             NEW status \in {"maybe", "cancelled"}, NEW b \in BOOLEAN,
             SaveAndSweep(q, Rewritten(c.row, status, Null, b))
      PROVE  NotOverbooked(q)
  <2> DEFINE row == Rewritten(c.row, status, Null, b)
  <2>1. m # Host
    BY <1>0, <1>5 DEF CopyInv, GivesUpSeat
  <2>2. row.status # "going" /\ Writable(m, row)
    BY <1>0, <2>1, PlacelessRow, PlacelessIsWritable DEF Answers
  <2>. HIDE DEF row
  <2>. QED BY <1>5, <2>2, LeavingFrees DEF LockHolders, row
<1>6. CASE RsvpMaybe(q)
  <2>1. Persisted(q, "maybe", Null) = Rewritten(c.row, "maybe", Null, FALSE)
    BY Zenon DEF Persisted, Rewritten
  <2>. QED BY <1>5, <1>6, <2>1 DEF RsvpMaybe
<1>7. CASE CancelRsvp(q) \/ RemoveAttendee(q)
  <2>1. \E b \in BOOLEAN : SaveAndSweep(q, Rewritten(c.row, "cancelled", Null, b))
    BY <1>7, Zenon DEF CancelRsvp, RemoveAttendee, Rewritten
  <2>2. c.pc \in {"cancel", "remove"}
    BY <1>7 DEF CancelRsvp, RemoveAttendee
  <2>. QED BY <1>5, <2>1, <2>2
<1>8. CASE PromoteAttendee(q)
  <2> DEFINE row == [c.row EXCEPT !.status = "going", !.pos = Null]
  <2>1. row \in Rsvp /\ row.status = "going" /\ row.guests = c.row.guests
    BY <1>0, SeatedRow
  <2>2. c.pc = "promote" /\ rsvp' = [rsvp EXCEPT ![m] = row] /\ Goto(q, Idle)
        /\ Fits(SeatsTaken(rsvp) + PartySize(c.row))
    BY <1>8 DEF PromoteAttendee, Save, Done
  <2>. HIDE DEF row
  <2>4. Taken(row) = PartySize(c.row) /\ PartySize(c.row) \in Nat /\ m \in Members
    BY <1>0, <1>c, <2>1, <2>2, TakenIsNat DEF Taken, PartySize, LockHolders
  <2>5. CASE c.row # stored
    BY <1>b, <2>2, <2>5 DEF LockHolders
  <2>6. CASE c.row = stored /\ stored.status = "going"
    <3>1. Taken(row) <= Taken(stored)
      BY <2>4, <2>6 DEF Taken
    <3>. QED BY <2>1, <2>2, <2>4, <3>1, WrittenRowFits
  <2>7. CASE c.row = stored /\ stored.status # "going"
    <3>2. Taken(stored) = 0
      BY <2>7 DEF Taken
    <3>3. (SeatsTaken(rsvp) - Taken(stored)) + Taken(row) = SeatsTaken(rsvp) + PartySize(c.row)
      BY <1>0, <2>4, <3>2
    <3>4. Fits((SeatsTaken(rsvp) - Taken(stored)) + Taken(row))
      BY <2>2, <3>3
    <3>. QED BY <2>1, <2>2, <2>4, <3>4, WrittenRowFits
  <2>. QED BY <2>5, <2>6, <2>7
<1>9. CASE LiftClearsStamp(q)
  <2> DEFINE b == IF rsvp[m].status = "cancelled" THEN FALSE ELSE rsvp[m].removed
             row == [stored EXCEPT !.removed = b]
  <2>0. m \in Members /\ stored \in Rsvp /\ 0 \in Guests
    BY <1>9, <1>c, SeatsAssumption DEF LiftClearsStamp, Guests
  <2>1. m \in Members /\ stored \in Rsvp /\ b \in BOOLEAN /\ 0 \in Guests
    BY <2>0 DEF Rsvp
  <2>2. rsvp' = [rsvp EXCEPT ![m] = row]
    BY <1>9 DEF LiftClearsStamp
  <2>3. row \in Rsvp /\ row.status = stored.status /\ row.guests = stored.guests
    <3>. HIDE DEF b, stored
    <3>. QED BY <2>1, ColumnChanges
  <2>. HIDE DEF b, row
  <2>4. Taken(row) = Taken(stored) /\ Taken(stored) \in Nat
    BY <2>1, <2>3, TakenIsNat DEF Taken, PartySize
  <2>5. Taken(row) <= Taken(stored)
    BY <2>4
  <2>. QED BY <2>1, <2>2, <2>3, <2>5, WrittenRowFits
<1>10. CASE CheckInSave(q) \/ DetailsWrite(q)
  <2>1. c.pc \in {"door", "lower"} /\ Goto(q, Idle)
    BY <1>10 DEF CheckInSave, DetailsWrite, Save, Done
  <2>2. req'[q] # req[q]
    BY <2>1, GotoEffect DEF Idle
  <2>. QED BY <2>1, <2>2 DEF NotOverbooked, Steps
<1>11. CASE RaiseGuestCountAndSave(q)
  <2> DEFINE row == [c.row EXCEPT !.guests = c.guests]
             extra == c.guests - c.row.guests
  <2>1. row \in Rsvp /\ row.status = c.row.status /\ row.guests = c.guests
    BY <1>0, ColumnChanges
  <2>2. c.pc = "raising" /\ rsvp' = [rsvp EXCEPT ![m] = row] /\ Goto(q, Idle)
        /\ (extra > 0 /\ c.row.status = "going" => Fits(SeatsTaken(rsvp) + extra))
    BY <1>11 DEF RaiseGuestCountAndSave, RaiseHasRoom, Save, Done
  <2>. HIDE DEF row
  <2>4. m \in Members /\ c.guests \in Nat /\ c.row.guests \in Nat
    BY <1>0, <1>c, <2>2, SeatsAssumption DEF LockHolders, Rsvp, Guests
  <2>5. CASE c.row # stored
    BY <1>b, <2>2, <2>5 DEF LockHolders
  <2>6. CASE c.row = stored /\ (stored.status # "going" \/ ~(extra > 0))
    <3>1. Taken(row) <= Taken(stored)
      BY <2>1, <2>4, <2>6 DEF Taken, PartySize
    <3>. QED BY <2>1, <2>2, <2>4, <3>1, WrittenRowFits
  <2>7. CASE c.row = stored /\ stored.status = "going" /\ extra > 0
    <3>1. Taken(row) = 1 + c.guests /\ Taken(stored) = 1 + c.row.guests
      BY <2>1, <2>7 DEF Taken, PartySize
    <3>2. (SeatsTaken(rsvp) - Taken(stored)) + Taken(row) = SeatsTaken(rsvp) + extra
      BY <1>0, <2>4, <3>1
    <3>3. Fits((SeatsTaken(rsvp) - Taken(stored)) + Taken(row))
      BY <2>2, <2>7, <3>2
    <3>. QED BY <2>1, <2>2, <2>4, <3>3, WrittenRowFits
  <2>. QED BY <2>5, <2>6, <2>7
<1>12. CASE ReconcileWaitlist(q)
  BY <1>0, <1>12, SweepFits DEF ReconcileWaitlist, NotOverbooked
<1>. QED BY <1>1, <1>2, <1>3, <1>4, <1>6, <1>7, <1>8, <1>9, <1>10, <1>11, <1>12 DEF Step

\* goingSeatCount and promoteWaitlist count under the event lock: no RSVP, raise,
\* promotion or sweep lets in more people than the capacity that stands.
THEOREM NeverOverbooked == Spec => NoOverbooking
<1>1. ASSUME RosterInv, Next
      PROVE  Arrivals(rsvp') > Arrivals(rsvp)
               => \/ event.capacity = Null
                  \/ Arrivals(rsvp') <= event.capacity
                  \/ \E q \in Requests : Steps(q, {"door", "lower"})
                  \/ \E q \in Requests : Steps(q, LockHolders) /\ ChangedUnderLock(q)
  <2>1. SeatsTaken(rsvp) \in Nat /\ SeatsTaken(rsvp') \in Nat
    BY <1>1, RosterInvNext, SeatsTakenIsNat DEF RosterInv
  <2>2. Arrivals(rsvp) = SeatsTaken(rsvp) /\ Arrivals(rsvp') = SeatsTaken(rsvp')
    BY ArrivalsAreSeats
  <2>3. CASE UNCHANGED rsvp
    BY <2>1, <2>2, <2>3
  <2>4. ASSUME NEW q \in Requests, Step(q)
        PROVE  \/ SeatsTaken(rsvp') <= SeatsTaken(rsvp)
               \/ event.capacity = Null
               \/ SeatsTaken(rsvp') <= event.capacity
               \/ \E p \in Requests : Steps(p, {"door", "lower"})
               \/ \E p \in Requests : Steps(p, LockHolders) /\ ChangedUnderLock(p)
    BY <1>1, <2>4, StepNeverOverbooks DEF NotOverbooked, Fits
  <2>5. ASSUME NEW q \in Requests, Begin(q) PROVE UNCHANGED rsvp
    BY <1>1, <2>5, BeginEffect
  <2>6. CancelEvent \/ PassTime => UNCHANGED rsvp
    BY DEF CancelEvent, PassTime
  <2>. QED BY <1>1, <2>1, <2>2, <2>3, <2>4, <2>5, <2>6 DEF Next
<1>2. RosterInv /\ [Next]_vars =>
        [Arrivals(rsvp') > Arrivals(rsvp)
           => \/ event.capacity = Null
              \/ Arrivals(rsvp') <= event.capacity
              \/ \E q \in Requests : Steps(q, {"door", "lower"})
              \/ \E q \in Requests : Steps(q, LockHolders) /\ ChangedUnderLock(q)]_vars
  BY <1>1
<1>. QED BY <1>2, RosterInvAlways, PTL DEF Spec, NoOverbooking

-----------------------------------------------------------------------------
(* The order of the queue *)

\* If a later one fits, so does everybody ahead.
LEMMA PromotedIsPrefix ==
  ASSUME NEW r, RowsInv(r), event \in Event, NEW n \in Promoted(r), NEW m \in Waiting(r),
         r[m].pos <= r[n].pos
  PROVE  m \in Promoted(r)
<1>1. /\ Ahead(r, m) \in SUBSET Members /\ Ahead(r, n) \in SUBSET Members
      /\ m \in Members /\ n \in Waiting(r) /\ Waiting(r) \subseteq Members
  BY DEF Ahead, Waiting, Promoted
<1>2. \A k \in Waiting(r) : r[k].pos \in Nat
  BY SeatsAssumption DEF RowsInv, Rsvp, Paired, Waiting
<1>3. Ahead(r, m) \subseteq Ahead(r, n)
  BY <1>1, <1>2 DEF Ahead
<1> DEFINE a == Total(Seats(r), Ahead(r, m))
           b == Total(Seats(r), Ahead(r, n))
<1>4. a \in Nat /\ b \in Nat /\ a <= b /\ SeatsTaken(r) \in Nat
  <2>1. IsFiniteSet(Ahead(r, n)) /\ \A k \in Ahead(r, n) : Seats(r)[k] \in Nat
    BY <1>1, SeatsAreNat
  <2>2. a <= b
    BY <1>3, <2>1, TotalGrows
  <2>. QED BY <1>1, <2>2, SeatsAreNat, SeatsTakenIsNat
<1>5. Fits(SeatsTaken(r) + b)
  BY <1>1, SeatsOfIsTotal DEF Promoted, Ahead
<1>6. event.capacity # Null => event.capacity \in Nat
  BY SeatsAssumption DEF Event
<1>7. Fits(SeatsTaken(r) + a)
  <2>. HIDE DEF a, b
  <2>. QED BY <1>4, <1>5, <1>6 DEF Fits
<1>8. a = SeatsOf(r, {k \in Waiting(r) : r[k].pos <= r[m].pos})
  BY <1>1, SeatsOfIsTotal DEF Ahead
<1>. HIDE DEF a
<1>. QED BY <1>7, <1>8 DEF Promoted

\* The queue of the rows s is what is left of the queue of the rows r.
StillQueues(r, s) ==
  \A k \in Waiting(s) : k \in Waiting(r) /\ s[k].pos = r[k].pos

\* A sweep seats from the head: who is left waits behind all it seated.
LEMMA SweepTakesTheHead ==
  ASSUME NEW r, RowsInv(r), event \in Event
  PROVE  /\ StillQueues(r, Swept(r))
         /\ \A m \in Waiting(Swept(r)), n \in Waiting(r) :
              n \in Going(Swept(r)) => ~(r[m].pos < r[n].pos)
<1> DEFINE s == Swept(r)
<1>0. r \in [Members -> Rsvp]
  BY DEF RowsInv
<1>1. ASSUME NEW k \in Waiting(s)
      PROVE  k \in Members /\ k \in Waiting(r) /\ s[k] = r[k]
  <2>1. k \in Members /\ s[k].status = "waitlisted"
    BY DEF Waiting
  <2>2. s[k] = r[k]
    <3>1. \/ s[k] = r[k]
          \/ s[k].status = "going" /\ s[k].pos = Null
      BY <2>1, SweptRows
    <3>. QED BY <2>1, <3>1
  <2>. QED BY <2>1, <2>2 DEF Waiting
<1>2. ASSUME NEW m \in Waiting(s), NEW n \in Waiting(r), n \in Going(s), r[m].pos < r[n].pos
      PROVE  FALSE
  <2>1. m \in Waiting(r) /\ n \in Members /\ m \in Members
    BY <1>1 DEF Waiting
  <2>2. s[n] # r[n]
    BY <1>2 DEF Waiting, Going
  <2>3. event.status = "published" /\ n \in Promoted(r)
    BY <1>0, <2>1, <2>2, SweptAt
  <2>4. r[m].pos \in Nat /\ r[n].pos \in Nat
    BY <2>1, SeatsAssumption DEF RowsInv, Rsvp, Paired, Waiting
  <2>5. m \in Promoted(r)
    BY <1>2, <2>1, <2>3, <2>4, PromotedIsPrefix
  <2>6. s[m] = [r[m] EXCEPT !.status = "going", !.pos = Null] /\ r[m] \in Rsvp
    BY <1>0, <2>1, <2>3, <2>5 DEF Swept
  <2>7. s[m].status = "going"
    <3>. HIDE DEF s
    <3>. QED BY <2>6, SeatedRow
  <2>. QED BY <2>7 DEF Waiting
<1>. QED BY <1>1, <1>2 DEF StillQueues

\* What WaitlistKeepsOrder asks of request q's step: who still waits keeps the
\* place, who comes to wait goes behind or gets back what a raise had read, and
\* who is seated past somebody was seated by a step about them.
KeepsOrder(q) ==
  /\ \A m \in Waiting(rsvp) \cap Waiting(rsvp') : rsvp'[m].pos = rsvp[m].pos
  /\ \A n \in Waiting(rsvp') \ Waiting(rsvp) :
       rsvp'[n].pos = NextPosition \/ GetsPlaceBack(n)
  /\ \A m, n \in Waiting(rsvp) :
       /\ rsvp[m].pos < rsvp[n].pos
       /\ m \in Waiting(rsvp')
       /\ n \in Going(rsvp')
       => Steps(q, {"going", "promote", "door"}) /\ req[q].who = n

\* Nobody joins the queue and nobody is seated from it.
LEMMA SameQueueKeepsOrder ==
  ASSUME NEW q, StillQueues(rsvp, rsvp'),
         Going(rsvp') \cap Waiting(rsvp) = {}
  PROVE  KeepsOrder(q)
  BY DEF KeepsOrder, StillQueues

\* A row that keeps its status and its position leaves the queue as it is.
LEMMA CalmRowKeepsOrder ==
  ASSUME NEW q, RowsInv(rsvp), NEW m \in Members, NEW row,
         rsvp' = [rsvp EXCEPT ![m] = row],
         row.status = rsvp[m].status /\ row.pos = rsvp[m].pos
  PROVE  KeepsOrder(q)
<1>1. \A k \in Members : rsvp'[k].status = rsvp[k].status /\ rsvp'[k].pos = rsvp[k].pos
  BY DEF RowsInv
<1>2. Waiting(rsvp') = Waiting(rsvp) /\ Going(rsvp') = Going(rsvp)
      /\ Waiting(rsvp) \subseteq Members
  BY <1>1 DEF Waiting, Going
<1>3. Going(rsvp) \cap Waiting(rsvp) = {}
  BY DEF Going, Waiting
<1>. QED BY <1>1, <1>2, <1>3, SameQueueKeepsOrder DEF StillQueues

\* Request q seats the member it is about.
LEMMA SeatingKeepsOrder ==
  ASSUME RosterInv, NEW q \in Requests, req[q].pc \in {"going", "promote", "door"},
         req[q].who \in Members, NEW row, row.status = "going",
         rsvp' = [rsvp EXCEPT ![req[q].who] = row], Goto(q, Idle)
  PROVE  KeepsOrder(q)
<1> DEFINE m == req[q].who
<1>1. \A k \in Members : rsvp'[k] = IF k = m THEN row ELSE rsvp[k]
  BY DEF RosterInv, RowsInv
<1>2. StillQueues(rsvp, rsvp')
  BY <1>1 DEF StillQueues, Waiting
<1>3. Steps(q, {"going", "promote", "door"})
  BY GotoEffect DEF Steps, Idle
<1>4. \A n \in Waiting(rsvp) : n \in Going(rsvp') => n = m
  BY <1>1 DEF Waiting, Going
<1>. QED BY <1>2, <1>3, <1>4 DEF KeepsOrder, StillQueues

\* A member leaves the queue or a seat, and the waitlist may move up.
LEMMA LeavingKeepsOrder ==
  ASSUME RosterInv, NEW q \in Requests, req[q].pc \in LockHolders, NEW row,
         Writable(req[q].who, row), row.status \notin {"going", "waitlisted"},
         SaveAndSweep(q, row)
  PROVE  KeepsOrder(q)
<1> DEFINE m == req[q].who
           saved == [rsvp EXCEPT ![m] = row]
<1>1. m \in Members /\ RowsInv(rsvp) /\ event \in Event
  BY DEF RosterInv, CopyInv, LockHolders
<1>2. RowsInv(saved)
  BY <1>1, PutKeeps DEF Writable, RosterInv
<1>3. \A k \in Members : saved[k] = IF k = m THEN row ELSE rsvp[k]
  BY <1>1 DEF RowsInv
<1>4. rsvp' = saved \/ rsvp' = Swept(saved)
  BY DEF SaveAndSweep
<1>. HIDE DEF saved, m
<1>5. /\ Waiting(saved) = Waiting(rsvp) \ {m}
      /\ \A k \in Waiting(saved) : k \in Members /\ saved[k] = rsvp[k]
      /\ saved[m].status \notin {"going", "waitlisted"}
  BY <1>1, <1>3 DEF Waiting
<1>6. CASE rsvp' = saved
  <2>1. StillQueues(rsvp, rsvp')
    BY <1>5, <1>6 DEF StillQueues
  <2>2. Going(rsvp') \cap Waiting(rsvp) = {}
    BY <1>3, <1>5, <1>6 DEF Going, Waiting
  <2>. QED BY <2>1, <2>2, SameQueueKeepsOrder
<1>7. CASE rsvp' = Swept(saved)
  <2>1. /\ StillQueues(saved, rsvp')
        /\ \A k \in Waiting(rsvp'), n \in Waiting(saved) :
             n \in Going(rsvp') => ~(saved[k].pos < saved[n].pos)
    BY <1>1, <1>2, <1>7, SweepTakesTheHead
  <2>2. StillQueues(rsvp, rsvp')
    BY <1>5, <2>1 DEF StillQueues
  <2>3. ASSUME NEW n \in Waiting(rsvp), n \in Going(rsvp') PROVE n \in Waiting(saved)
    <3>1. n # m
      <4>1. rsvp'[m] = saved[m] \/ saved[m].status = "waitlisted"
        BY <1>1, <1>2, <1>7, SweptAt DEF RowsInv
      <4>. QED BY <1>5, <4>1, <2>3 DEF Going
    <3>. QED BY <1>5, <3>1
  <2>4. \A k, n \in Waiting(rsvp) : ~(/\ rsvp[k].pos < rsvp[n].pos
                                      /\ k \in Waiting(rsvp') /\ n \in Going(rsvp'))
    BY <1>5, <2>1, <2>3 DEF StillQueues
  <2>. QED BY <2>2, <2>4 DEF KeepsOrder, StillQueues
<1>. QED BY <1>4, <1>6, <1>7

\* Every later step of a handler keeps the order.
LEMMA StepKeepsOrder ==
  ASSUME RosterInv, NEW q \in Requests, Step(q)
  PROVE  KeepsOrder(q)
<1> DEFINE c == req[q]
           m == c.who
           stored == rsvp[m]
<1>0. /\ CopyInv(c, rsvp) /\ c \in Request /\ c.row \in Rsvp /\ c.guests \in Guests
      /\ RowsInv(rsvp) /\ event \in Event
  BY DEF RosterInv, Request
<1>a. ASSUME UNCHANGED rsvp PROVE KeepsOrder(q)
  <2>1. Going(rsvp) \cap Waiting(rsvp) = {}
    BY DEF Going, Waiting
  <2>. QED BY <1>a, <2>1, SameQueueKeepsOrder DEF StillQueues
<1>c. c.pc \in LockHolders \cup {"lifting", "door", "lower"} => m \in Members /\ stored \in Rsvp
  BY <1>0 DEF CopyInv, LockHolders, RowsInv
<1>1. CASE RsvpSeated(q)
  <2> DEFINE row == Persisted(q, "going", Null)
  <2>1. row = Rewritten(c.row, "going", Null, FALSE)
    BY Zenon DEF Persisted, Rewritten
  <2>2. row.status = "going"
    <3>1. "going" \in Answers /\ FALSE \in BOOLEAN /\ c.row \in Rsvp
      BY <1>0 DEF Answers
    <3>2. Rewritten(c.row, "going", Null, FALSE).status = "going"
      BY <3>1, PlacelessRow, Zenon
    <3>. QED BY <2>1, <3>2
  <2>3. c.pc = "going" /\ rsvp' = [rsvp EXCEPT ![m] = row] /\ Goto(q, Idle)
    BY <1>1 DEF RsvpSeated, Save, Done
  <2>4. m \in Members
    BY <1>c, <2>3 DEF LockHolders
  <2>. HIDE DEF row
  <2>. QED BY <2>2, <2>3, <2>4, SeatingKeepsOrder
<1>2. CASE RsvpKeepsPlace(q) \/ RsvpTurnedAway(q) \/ PromoteRefused(q)
           \/ BarFindsNobody(q) \/ RaiseRefused(q) \/ RaiseHasNoRoom(q)
  BY <1>2, <1>a DEF Refused, RsvpKeepsPlace, RsvpTurnedAway, PromoteRefused,
                    BarFindsNobody, RaiseRefused, RaiseHasNoRoom
<1>3. CASE BarRemoves(q) \/ RaiseLock(q) \/ UpdateSave(q)
  BY <1>3, <1>a DEF Lock, BarRemoves, RaiseLock, UpdateSave
<1>4. CASE RsvpWaitlisted(q)
  <2> DEFINE row == Persisted(q, "waitlisted", NextPosition)
  <2>1. row = Rewritten(c.row, "waitlisted", NextPosition, FALSE)
    BY Zenon DEF Persisted, Rewritten
  <2>2. row.status = "waitlisted" /\ row.pos = NextPosition
    <3>1. row = [status |-> "waitlisted", pos |-> NextPosition, guests |-> c.row.guests,
                 removed |-> FALSE]
      BY <1>0, <2>1, RewrittenIs, Zenon
    <3>. HIDE DEF row
    <3>. QED BY <3>1
  <2>3. c.pc = "going" /\ rsvp' = [rsvp EXCEPT ![m] = row] /\ c.row.status # "waitlisted"
    BY <1>4 DEF RsvpWaitlisted, Save
  <2>4. m \in Members /\ stored.status # "waitlisted"
    BY <1>0, <1>c, <2>3 DEF LockHolders, CopyInv, Agrees
  <2>. HIDE DEF row
  <2>5. \A k \in Members : rsvp'[k] = IF k = m THEN row ELSE rsvp[k]
    BY <1>0, <2>3 DEF RowsInv
  <2>6. Waiting(rsvp') = Waiting(rsvp) \cup {m} /\ m \notin Waiting(rsvp)
    BY <2>2, <2>4, <2>5 DEF Waiting
  <2>7. Going(rsvp') \cap Waiting(rsvp) = {}
    BY <2>4, <2>5, <2>6 DEF Going, Waiting
  <2>8. Waiting(rsvp) \subseteq Members
    BY DEF Waiting
  <2>. QED BY <2>2, <2>4, <2>5, <2>6, <2>7, <2>8 DEF KeepsOrder
<1>5. ASSUME NEW pc \in {"maybe", "cancel", "remove"}, c.pc = pc,
             NEW status \in {"maybe", "cancelled"}, NEW b \in BOOLEAN,
             SaveAndSweep(q, Rewritten(c.row, status, Null, b))
      PROVE  KeepsOrder(q)
  <2> DEFINE row == Rewritten(c.row, status, Null, b)
  <2>1. m # Host
    BY <1>0, <1>5 DEF CopyInv, GivesUpSeat
  <2>2. row.status \notin {"going", "waitlisted"} /\ Writable(m, row)
    BY <1>0, <2>1, PlacelessRow, PlacelessIsWritable DEF Answers
  <2>. HIDE DEF row
  <2>. QED BY <1>5, <2>2, LeavingKeepsOrder DEF LockHolders, row
<1>6. CASE RsvpMaybe(q)
  <2>1. Persisted(q, "maybe", Null) = Rewritten(c.row, "maybe", Null, FALSE)
    BY Zenon DEF Persisted, Rewritten
  <2>. QED BY <1>5, <1>6, <2>1 DEF RsvpMaybe
<1>7. CASE CancelRsvp(q) \/ RemoveAttendee(q)
  <2>1. \E b \in BOOLEAN : SaveAndSweep(q, Rewritten(c.row, "cancelled", Null, b))
    BY <1>7, Zenon DEF CancelRsvp, RemoveAttendee, Rewritten
  <2>2. c.pc \in {"cancel", "remove"}
    BY <1>7 DEF CancelRsvp, RemoveAttendee
  <2>. QED BY <1>5, <2>1, <2>2
<1>8. CASE PromoteAttendee(q)
  <2> DEFINE row == [c.row EXCEPT !.status = "going", !.pos = Null]
  <2>1. row.status = "going"
    BY <1>0, SeatedRow
  <2>2. c.pc = "promote" /\ rsvp' = [rsvp EXCEPT ![m] = row] /\ Goto(q, Idle)
    BY <1>8 DEF PromoteAttendee, Save, Done
  <2>3. m \in Members
    BY <1>c, <2>2 DEF LockHolders
  <2>. HIDE DEF row
  <2>. QED BY <2>1, <2>2, <2>3, SeatingKeepsOrder
<1>9. CASE LiftClearsStamp(q)
  <2> DEFINE b == IF rsvp[m].status = "cancelled" THEN FALSE ELSE rsvp[m].removed
             row == [stored EXCEPT !.removed = b]
  <2>0. m \in Members /\ stored \in Rsvp /\ 0 \in Guests
    BY <1>9, <1>c, SeatsAssumption DEF LiftClearsStamp, Guests
  <2>1. b \in BOOLEAN
    BY <2>0 DEF Rsvp
  <2>2. rsvp' = [rsvp EXCEPT ![m] = row]
    BY <1>9 DEF LiftClearsStamp
  <2>3. row.status = stored.status /\ row.pos = stored.pos
    <3>. HIDE DEF b, stored
    <3>. QED BY <2>0, <2>1, ColumnChanges
  <2>. HIDE DEF b, row
  <2>. QED BY <1>0, <2>0, <2>2, <2>3, CalmRowKeepsOrder
<1>10. CASE CheckInSave(q)
  <2>1. /\ c.pc = "door" /\ c.row.status = "going" /\ m \in Members
        /\ rsvp' = [rsvp EXCEPT ![m] = c.row] /\ Goto(q, Idle)
    BY <1>0, <1>c, <1>10 DEF CheckInSave, Save, Done, CopyInv
  <2>. QED BY <2>1, SeatingKeepsOrder
<1>11. CASE DetailsWrite(q)
  <2> DEFINE row == [stored EXCEPT !.guests = c.guests]
  <2>1. m \in Members /\ stored \in Rsvp /\ rsvp' = [rsvp EXCEPT ![m] = row]
    BY <1>c, <1>11 DEF DetailsWrite
  <2>2. row.status = stored.status /\ row.pos = stored.pos
    BY <1>0, <2>1, ColumnChanges
  <2>. HIDE DEF row
  <2>. QED BY <1>0, <2>1, <2>2, CalmRowKeepsOrder
<1>12. CASE RaiseGuestCountAndSave(q)
  <2> DEFINE row == [c.row EXCEPT !.guests = c.guests]
  <2>1. row.status = c.row.status /\ row.pos = c.row.pos
    BY <1>0, ColumnChanges
  <2>2. c.pc = "raising" /\ rsvp' = [rsvp EXCEPT ![m] = row] /\ Goto(q, Idle)
    BY <1>12 DEF RaiseGuestCountAndSave, Save, Done
  <2>. HIDE DEF row
  <2>3. m \in Members /\ Agrees(c.row, stored)
    BY <1>0, <1>c, <2>2 DEF LockHolders, CopyInv
  <2>4. CASE c.row.status = stored.status /\ c.row.pos = stored.pos
    BY <1>0, <2>1, <2>2, <2>3, <2>4, CalmRowKeepsOrder
  <2>5. CASE stored.status = "going" /\ c.row.status # "going"
    <3>1. \A k \in Members : rsvp'[k] = IF k = m THEN row ELSE rsvp[k]
      BY <1>0, <2>2 DEF RowsInv
    <3>2. rsvp'[m].pos = c.row.pos
      BY <2>1, <2>3, <3>1
    <3>3. GetsPlaceBack(m)
      <4>1. Steps(q, {"raising"})
        BY <2>2, GotoEffect DEF Steps, Idle
      <4>2. ChangedUnderLock(q)
        BY <2>2, <2>5 DEF ChangedUnderLock, LockHolders
      <4>. QED BY <3>2, <4>1, <4>2 DEF GetsPlaceBack
    <3>4. /\ \A k \in Waiting(rsvp) : k # m /\ k \in Members /\ rsvp'[k] = rsvp[k]
          /\ Waiting(rsvp') \ Waiting(rsvp) \subseteq {m}
          /\ Going(rsvp') \cap Waiting(rsvp) = {}
      BY <2>1, <2>3, <2>5, <3>1 DEF Waiting, Going
    <3>. QED BY <3>3, <3>4 DEF KeepsOrder
  <2>6. CASE stored.status = "going" /\ c.row.status = "going"
    <3>1. Paired(c.row) /\ Paired(stored)
      BY <1>0, <2>2, <2>3 DEF CopyInv, CopyHolders, LockHolders, RowsInv
    <3>2. row.status = stored.status /\ row.pos = stored.pos
      BY <2>1, <2>6, <3>1 DEF Paired
    <3>. QED BY <1>0, <2>2, <2>3, <3>2, CalmRowKeepsOrder
  <2>. QED BY <2>3, <2>4, <2>5, <2>6 DEF Agrees
<1>13. CASE ReconcileWaitlist(q)
  <2>1. rsvp' = Swept(rsvp)
    BY <1>13 DEF ReconcileWaitlist
  <2>2. /\ StillQueues(rsvp, rsvp')
        /\ \A k \in Waiting(rsvp'), n \in Waiting(rsvp) :
             n \in Going(rsvp') => ~(rsvp[k].pos < rsvp[n].pos)
    BY <1>0, <2>1, SweepTakesTheHead
  <2>. QED BY <2>2 DEF KeepsOrder, StillQueues
<1>. QED BY <1>1, <1>2, <1>3, <1>4, <1>6, <1>7, <1>8, <1>9, <1>10, <1>11, <1>12,
            <1>13 DEF Step

\* rsvpInManager, promoteWaitlist: nobody who waits is overtaken in the queue, and
\* a sweep never seats a later party past an earlier one.
THEOREM WaitlistKeepsOrderAlways == Spec => WaitlistKeepsOrder
<1>1. ASSUME RosterInv, Next
      PROVE  PlacesAreKept /\ SweepIsInOrder
  <2>1. /\ Waiting(rsvp) \subseteq Members
        /\ \A m \in Waiting(rsvp) : rsvp[m].pos # Null
        /\ \A m, n \in Waiting(rsvp) : rsvp[m].pos = rsvp[n].pos => m = n
    BY <1>1 DEF RosterInv, RowsInv, Paired, Waiting
  <2>2. \A m \in Waiting(rsvp) : rsvp[m].pos < NextPosition
    BY <1>1, <2>1, NextPositionIsLast DEF RosterInv
  <2>3. ASSUME NEW q \in Requests, KeepsOrder(q) PROVE PlacesAreKept /\ SweepIsInOrder
    BY <2>1, <2>2, <2>3 DEF KeepsOrder, PlacesAreKept, SweepIsInOrder
  <2>4. CASE UNCHANGED rsvp
    <3>1. Going(rsvp) \cap Waiting(rsvp) = {}
      BY DEF Going, Waiting
    <3>. QED BY <2>4, <3>1 DEF PlacesAreKept, SweepIsInOrder
  <2>5. ASSUME NEW q \in Requests, Begin(q) PROVE UNCHANGED rsvp
    BY <1>1, <2>5, BeginEffect
  <2>6. CancelEvent \/ PassTime => UNCHANGED rsvp
    BY DEF CancelEvent, PassTime
  <2>. QED BY <1>1, <2>3, <2>4, <2>5, <2>6, StepKeepsOrder DEF Next
<1>2. RosterInv /\ [Next]_vars => [PlacesAreKept /\ SweepIsInOrder]_vars
  BY <1>1
<1>. QED BY <1>2, RosterInvAlways, PTL DEF Spec, WaitlistKeepsOrder

\* host-seat.ts: the host holds a seat at every moment, through stale saves of
\* the host's own row too.
THEOREM HostHoldsSeatAlways == Spec => []HostHoldsSeat
<1>1. RosterInv => HostHoldsSeat
  BY DEF RosterInv, RowsInv, HostHoldsSeat
<1>. QED BY <1>1, RosterInvAlways, PTL

=============================================================================
