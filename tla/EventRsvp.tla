------------------------------ MODULE EventRsvp ------------------------------
(***************************************************************************)
(* The roster of one gathering and everything that writes it: RsvpService  *)
(* (RSVP, cancel, removal, promotion, guest count, the waitlist sweep),    *)
(* EventBansService, EventCheckInService, and the event row itself as      *)
(* EventsService edits and cancels it.                                     *)
(*                                                                         *)
(* Most writes run in a transaction that first locks the event row (SELECT *)
(* ... FOR UPDATE).  Such a transaction is two steps here: it takes the    *)
(* lock and reads the row it is about, then it counts, decides, writes and *)
(* commits.  Between the two only the writers that take no lock can move:  *)
(* a guest count that is not raised, a check-in, a ban, the lift of one.   *)
(*                                                                         *)
(* TypeORM's save() compares the entity in hand with the stored row and    *)
(* writes every column that differs: the copy wins over what was committed *)
(* after it was read.                                                      *)
(***************************************************************************)
EXTENDS Integers, FiniteSets, FiniteSetsExt

CONSTANTS
  Members,     \* those who may RSVP
  Host,        \* events.host_id
  Cohosts,     \* event_cohosts
  Capacities,  \* the capacities a host may set; Null is unlimited
  MaxGuests,   \* MAX_RSVP_GUESTS
  MaxPos,      \* bound: the last waitlist position given out
  Requests,    \* handler instances that can be in flight together
  Routes,      \* the operations a run exercises
  Null

RosterRoutes == {"rsvp", "cancel", "remove", "promote", "raise", "lower", "checkIn",
                 "bar", "lift", "update", "cancelEvent", "passTime"}

ASSUME PeopleAssumption ==
  IsFiniteSet(Members) /\ Host \in Members /\ Cohosts \subseteq Members \ {Host}
ASSUME SeatsAssumption ==
  /\ MaxGuests \in Nat /\ MaxPos \in Nat
  /\ Capacities \subseteq Nat \cup {Null}
  /\ Null \notin Int /\ Null \notin Members
ASSUME RosterRoutesAssumption == Routes \subseteq RosterRoutes

VARIABLES
  event,    \* the events row
  phase,    \* before the RSVP cutoff, after it, or after the gathering
  rsvp,     \* the event_rsvps rows, by member
  banned,   \* the event_bans rows
  req       \* the handler instances

vars == <<event, phase, rsvp, banned, req>>

Organizers == {Host} \cup Cohosts
Guests     == 0..MaxGuests

Event == [status        : {"draft", "published", "cancelled"},
          capacity      : Capacities,
          allowWaitlist : BOOLEAN]

Rsvp == [status  : {"none", "going", "maybe", "waitlisted", "cancelled"},
         pos     : 1..MaxPos \cup {Null},     \* waitlist_position
         guests  : Guests,                    \* guest_count
         removed : BOOLEAN]                   \* removed_by_host_at

NoRsvp == [status |-> "none", pos |-> Null, guests |-> 0, removed |-> FALSE]

\* The transactions that hold the event's lock between two steps.
LockHolders == {"going", "maybe", "cancel", "remove", "promote", "raising"}

\* pc "idle" or where the handler is; who it is about; its copy of that row; the
\* guest count it was sent; the event row it will save and the capacity it read.
Request == [pc    : {"idle", "raise", "lower", "door", "barring", "lifting",
                     "saving", "reconcile"} \cup LockHolders,
            who   : Members \cup {Null},
            row   : Rsvp,
            guests : Guests,
            event : Event \cup {Null},
            old   : Capacities \cup {Null}]

Idle == [pc |-> "idle", who |-> Null, row |-> NoRsvp, guests |-> 0,
         event |-> Null, old |-> Null]

RosterTypeOK ==
  /\ event \in Event
  /\ phase \in {"open", "cutoff", "ended"}
  /\ rsvp \in [Members -> Rsvp]
  /\ banned \subseteq Members
  /\ req \in [Requests -> Request]

\* EventsService.create seats the host.
Init ==
  /\ event \in [status : {"draft", "published"}, capacity : Capacities,
                allowWaitlist : BOOLEAN]
  /\ phase = "open"
  /\ rsvp = [m \in Members |->
               IF m = Host THEN [NoRsvp EXCEPT !.status = "going"] ELSE NoRsvp]
  /\ banned = {}
  /\ req = [q \in Requests |-> Idle]

-----------------------------------------------------------------------------
(* Reading the roster *)

Waiting(r)     == {m \in Members : r[m].status = "waitlisted"}
Going(r)       == {m \in Members : r[m].status = "going"}
Live(row)      == row.status \in {"going", "maybe", "waitlisted"}
OnRoster(m)    == Live(rsvp[m])

\* Slip: rows are counted, not seats.
PartyOfOne(row) == 1
PartySize(row)  == 1 + row.guests

\* goingSeatCount, and the seats a set of members needs.
SeatsOf(r, S) == MapThenSumSet(LAMBDA m : PartySize(r[m]), S)
SeatsTaken(r) == SeatsOf(r, Going(r))

Fits(seats) == event.capacity # Null => seats <= event.capacity

Locked == \E q \in Requests : req[q].pc \in LockHolders

\* Slip: the length of the queue stands in for its last position.
QueueLength == Cardinality(Waiting(rsvp)) + 1

NextPosition == Max({rsvp[m].pos : m \in Waiting(rsvp)} \cup {0}) + 1

\* Slips: every gathering is swept as if it had no limit; the smaller parties
\* are seated first.
PromotedAll(r) == Waiting(r)
PromotedSmallestFirst(r) ==
  LET Before(n, m) == \/ r[n].guests < r[m].guests
                      \/ r[n].guests = r[m].guests /\ r[n].pos <= r[m].pos IN
  {m \in Waiting(r) :
     Fits(SeatsTaken(r) + SeatsOf(r, {n \in Waiting(r) : Before(n, m)}))}

\* promoteWaitlist: the longest prefix of the queue that fits.
Promoted(r) ==
  {m \in Waiting(r) :
     Fits(SeatsTaken(r) + SeatsOf(r, {n \in Waiting(r) : r[n].pos <= r[m].pos}))}

Swept(r) ==
  IF event.status # "published" THEN r
  ELSE [m \in Members |-> IF m \in Promoted(r)
                          THEN [r[m] EXCEPT !.status = "going", !.pos = Null]
                          ELSE r[m]]

Goto(q, r) == req' = [req EXCEPT ![q] = r]
Done(q)    == Goto(q, Idle)

\* A transaction about member m takes the event's lock and reads m's row.
Lock(q, pc, m) ==
  /\ ~Locked
  /\ Goto(q, [Idle EXCEPT !.pc = pc, !.who = m, !.row = rsvp[m],
                          !.guests = req[q].guests])
  /\ UNCHANGED <<event, phase, rsvp, banned>>

\* The transaction writes the copy it holds, changed, and commits.
Save(q, row) ==
  /\ rsvp' = [rsvp EXCEPT ![req[q].who] = row]
  /\ Done(q)
  /\ UNCHANGED <<event, phase, banned>>

\* The same, and a freed seat pulls the waitlist up.
SaveAndSweep(q, row) ==
  LET saved == [rsvp EXCEPT ![req[q].who] = row] IN
  /\ rsvp' = IF req[q].row.status = "going" THEN Swept(saved) ELSE saved
  /\ Done(q)
  /\ UNCHANGED <<event, phase, banned>>

Refused(q) ==
  /\ Done(q)
  /\ UNCHANGED <<event, phase, rsvp, banned>>

-----------------------------------------------------------------------------
(* POST and DELETE /events/:slug/rsvp *)

\* assertMayRsvp.  An organiser always may.
MayRsvp(m) ==
  \/ m \in Organizers
  \/ /\ m \notin banned
     /\ ~(rsvp[m].status = "cancelled" /\ rsvp[m].removed)

\* assertRsvpsOpen, for those who are not on the roster or step up to a seat.
CutoffAllows(m, want) ==
  \/ phase = "open"
  \/ m \in Organizers
  \/ /\ OnRoster(m)
     /\ ~(want = "going" /\ rsvp[m].status \in {"maybe", "waitlisted"})

\* Slip: the host may step down to maybe.
RsvpByAnyone(q, m, want) ==
  /\ "rsvp" \in Routes
  /\ req[q].pc = "idle"
  /\ event.status = "published"
  /\ phase # "ended"
  /\ MayRsvp(m)
  /\ CutoffAllows(m, want)
  /\ NextPosition <= MaxPos
  /\ Lock(q, want, m)

\* rsvpInManager up to its writes.
RsvpLock(q, m, want) ==
  /\ "rsvp" \in Routes
  /\ req[q].pc = "idle"
  /\ event.status = "published"
  /\ phase # "ended"
  /\ MayRsvp(m)
  /\ ~(m = Host /\ want = "maybe")
  /\ CutoffAllows(m, want)
  /\ NextPosition <= MaxPos
  /\ Lock(q, want, m)

\* The seats once the member is counted with the party their copy says.
SeatsWith(q) ==
  LET mine == req[q].row IN
  IF mine.status = "going" THEN SeatsTaken(rsvp)
                           ELSE SeatsTaken(rsvp) + PartySize(mine)
HasSeat(q) == req[q].who = Host \/ Fits(SeatsWith(q))

\* persistRsvp: the removal stamp is cleared.
Persisted(q, status, pos) ==
  [req[q].row EXCEPT !.status = status, !.pos = pos, !.removed = FALSE]

RsvpSeated(q) ==
  /\ req[q].pc = "going"
  /\ HasSeat(q)
  /\ Save(q, Persisted(q, "going", Null))

\* Slip: pressing the button again means the back of the line.
RsvpRequeued(q) ==
  /\ req[q].pc = "going"
  /\ ~HasSeat(q)
  /\ req[q].row.status = "waitlisted"
  /\ NextPosition <= MaxPos
  /\ Save(q, Persisted(q, "waitlisted", NextPosition))

\* Full, and already waiting: the place is kept.
RsvpKeepsPlace(q) ==
  /\ req[q].pc = "going"
  /\ ~HasSeat(q)
  /\ req[q].row.status = "waitlisted"
  /\ Refused(q)

RsvpWaitlisted(q) ==
  /\ req[q].pc = "going"
  /\ ~HasSeat(q)
  /\ req[q].row.status # "waitlisted"
  /\ event.allowWaitlist
  /\ Save(q, Persisted(q, "waitlisted", NextPosition))

RsvpTurnedAway(q) ==
  /\ req[q].pc = "going"
  /\ ~HasSeat(q)
  /\ req[q].row.status # "waitlisted"
  /\ ~event.allowWaitlist
  /\ Refused(q)

RsvpMaybe(q) ==
  /\ req[q].pc = "maybe"
  /\ SaveAndSweep(q, Persisted(q, "maybe", Null))

\* cancelRsvpOne.  Nothing is written for a row that is not live.
CancelLock(q, m) ==
  /\ "cancel" \in Routes
  /\ req[q].pc = "idle"
  /\ m # Host
  /\ OnRoster(m)
  /\ Lock(q, "cancel", m)

CancelRsvp(q) ==
  /\ req[q].pc = "cancel"
  /\ SaveAndSweep(q, [req[q].row EXCEPT !.status = "cancelled", !.pos = Null,
                                        !.removed = FALSE])

-----------------------------------------------------------------------------
(* The organisers' side *)

\* removeAttendee: the row is stamped as ended by the host.
RemoveLock(q, m) ==
  /\ "remove" \in Routes
  /\ req[q].pc = "idle"
  /\ m # Host
  /\ OnRoster(m)
  /\ Lock(q, "remove", m)

RemoveAttendee(q) ==
  /\ req[q].pc = "remove"
  /\ SaveAndSweep(q, [req[q].row EXCEPT !.status = "cancelled", !.pos = Null,
                                        !.removed = TRUE])

\* promoteAttendee: out of turn, but only into a free seat.
PromoteLock(q, m) ==
  /\ "promote" \in Routes
  /\ req[q].pc = "idle"
  /\ rsvp[m].status = "waitlisted"
  /\ Lock(q, "promote", m)

PromoteAttendee(q) ==
  /\ req[q].pc = "promote"
  /\ Fits(SeatsTaken(rsvp) + PartySize(req[q].row))
  /\ Save(q, [req[q].row EXCEPT !.status = "going", !.pos = Null])

PromoteRefused(q) ==
  /\ req[q].pc = "promote"
  /\ ~Fits(SeatsTaken(rsvp) + PartySize(req[q].row))
  /\ Refused(q)

\* EventBansService.ban: the ban is saved, then removeAttendee.
Bar(q, m) ==
  /\ "bar" \in Routes
  /\ req[q].pc = "idle"
  /\ m \notin Organizers
  /\ banned' = banned \cup {m}
  /\ Goto(q, [Idle EXCEPT !.pc = "barring", !.who = m])
  /\ UNCHANGED <<event, phase, rsvp>>

BarRemoves(q) ==
  /\ req[q].pc = "barring"
  /\ OnRoster(req[q].who)
  /\ Lock(q, "remove", req[q].who)

\* Slip: whom there is to remove is asked without waiting for the lock.
BarLooksAtOnce(q) ==
  /\ req[q].pc = "barring"
  /\ ~OnRoster(req[q].who)
  /\ Refused(q)

BarFindsNobody(q) ==
  /\ req[q].pc = "barring"
  /\ ~Locked
  /\ ~OnRoster(req[q].who)
  /\ Refused(q)

\* EventBansService.lift: the ban goes, then the removal stamp.
Lift(q, m) ==
  /\ "lift" \in Routes
  /\ req[q].pc = "idle"
  /\ m \in banned
  /\ banned' = banned \ {m}
  /\ Goto(q, [Idle EXCEPT !.pc = "lifting", !.who = m])
  /\ UNCHANGED <<event, phase, rsvp>>

LiftClearsStamp(q) ==
  LET m == req[q].who IN
  /\ req[q].pc = "lifting"
  /\ rsvp' = [rsvp EXCEPT ![m].removed = IF rsvp[m].status = "cancelled" THEN FALSE ELSE @]
  /\ Done(q)
  /\ UNCHANGED <<event, phase, banned>>

\* EventCheckInService.checkIn: find a seated member, then save() the entity,
\* with no lock.  (checked_in_at itself is not modelled.)
CheckInRead(q, m) ==
  /\ "checkIn" \in Routes
  /\ req[q].pc = "idle"
  /\ rsvp[m].status = "going"
  /\ Goto(q, [Idle EXCEPT !.pc = "door", !.who = m, !.row = rsvp[m]])
  /\ UNCHANGED <<event, phase, rsvp, banned>>

CheckInSave(q) ==
  /\ req[q].pc = "door"
  /\ Save(q, req[q].row)

-----------------------------------------------------------------------------
(* PATCH /events/:slug/rsvp/details: the guest count *)

\* updateRsvpDetails reads without a lock, and takes one only for a raise.
DetailsRead(q, m, g) ==
  /\ req[q].pc = "idle"
  /\ OnRoster(m)
  /\ \/ "raise" \in Routes /\ g > rsvp[m].guests
        /\ Goto(q, [Idle EXCEPT !.pc = "raise", !.who = m, !.guests = g])
     \/ "lower" \in Routes /\ g <= rsvp[m].guests
        /\ Goto(q, [Idle EXCEPT !.pc = "lower", !.who = m, !.guests = g])
  /\ UNCHANGED <<event, phase, rsvp, banned>>

\* Slip: the count is added to the one that is stored.
DetailsAdd(q) ==
  /\ req[q].pc = "lower"
  /\ rsvp' = [rsvp EXCEPT ![req[q].who].guests = @ + req[q].guests]
  /\ Done(q)
  /\ UNCHANGED <<event, phase, banned>>

\* The one column, by id, whatever the row has become.
DetailsWrite(q) ==
  /\ req[q].pc = "lower"
  /\ rsvp' = [rsvp EXCEPT ![req[q].who].guests = req[q].guests]
  /\ Done(q)
  /\ UNCHANGED <<event, phase, banned>>

\* raiseGuestCountAndSave: both rows are read again under the lock.
MayRaise(q) ==
  LET m == req[q].who IN
  /\ OnRoster(m)
  /\ req[q].guests > rsvp[m].guests => phase = "open" \/ m \in Organizers

RaiseLock(q) ==
  /\ req[q].pc = "raise"
  /\ MayRaise(q)
  /\ Lock(q, "raising", req[q].who)

RaiseRefused(q) ==
  /\ req[q].pc = "raise"
  /\ ~Locked
  /\ ~MayRaise(q)
  /\ Refused(q)

RaiseHasRoom(q) ==
  LET extra == req[q].guests - req[q].row.guests IN
  extra > 0 /\ req[q].row.status = "going" => Fits(SeatsTaken(rsvp) + extra)

RaiseGuestCountAndSave(q) ==
  /\ req[q].pc = "raising"
  /\ RaiseHasRoom(q)
  /\ Save(q, [req[q].row EXCEPT !.guests = req[q].guests])

RaiseHasNoRoom(q) ==
  /\ req[q].pc = "raising"
  /\ ~RaiseHasRoom(q)
  /\ Refused(q)

-----------------------------------------------------------------------------
(* The event row: EventsService.update and cancel *)

\* What a patch may make of the row the handler read: another capacity, another
\* waitlist setting, another status (never of a cancelled event), or something
\* that is not modelled.
Patched(e) ==
  {e} \cup {[e EXCEPT !.capacity = c] : c \in Capacities}
      \cup {[e EXCEPT !.allowWaitlist = b] : b \in BOOLEAN}
      \cup {[e EXCEPT !.status = s] : s \in IF e.status = "cancelled" THEN {}
                                            ELSE {"draft", "published"}}

CapacityIncreased(old, new) == old # Null /\ (new = Null \/ new > old)

UpdateRead(q, e) ==
  /\ "update" \in Routes
  /\ req[q].pc = "idle"
  /\ e \in Patched(event)
  /\ Goto(q, [Idle EXCEPT !.pc = "saving", !.event = e, !.old = event.capacity])
  /\ UNCHANGED <<event, phase, rsvp, banned>>

\* save() of the entity read before: it waits for the lock, and wins.
UpdateSave(q) ==
  LET e == req[q].event IN
  /\ req[q].pc = "saving"
  /\ ~Locked
  /\ event' = e
  /\ IF e.status = "published" /\ CapacityIncreased(req[q].old, e.capacity)
     THEN Goto(q, [Idle EXCEPT !.pc = "reconcile"])
     ELSE Done(q)
  /\ UNCHANGED <<phase, rsvp, banned>>

\* reconcileWaitlist, in a transaction of its own.
ReconcileWaitlist(q) ==
  /\ req[q].pc = "reconcile"
  /\ ~Locked
  /\ rsvp' = Swept(rsvp)
  /\ Done(q)
  /\ UNCHANGED <<event, phase, banned>>

CancelEvent ==
  /\ "cancelEvent" \in Routes
  /\ ~Locked
  /\ event.status # "cancelled"
  /\ event' = [event EXCEPT !.status = "cancelled"]
  /\ UNCHANGED <<phase, rsvp, banned, req>>

\* The cutoff passes, if there is one; the gathering ends.
PassTime ==
  /\ "passTime" \in Routes
  /\ phase' \in IF phase = "open" THEN {"cutoff", "ended"}
                ELSE IF phase = "cutoff" THEN {"ended"} ELSE {}
  /\ UNCHANGED <<event, rsvp, banned, req>>

-----------------------------------------------------------------------------
Begin(q) ==
  \/ \E m \in Members :
       \/ \E want \in {"going", "maybe"} : RsvpLock(q, m, want)
       \/ CancelLock(q, m) \/ RemoveLock(q, m) \/ PromoteLock(q, m)
       \/ Bar(q, m) \/ Lift(q, m) \/ CheckInRead(q, m)
       \/ \E g \in Guests : DetailsRead(q, m, g)
  \/ \E e \in Event : UpdateRead(q, e)

Step(q) ==
  \/ RsvpSeated(q) \/ RsvpKeepsPlace(q) \/ RsvpWaitlisted(q) \/ RsvpTurnedAway(q)
  \/ RsvpMaybe(q) \/ CancelRsvp(q) \/ RemoveAttendee(q) \/ PromoteAttendee(q)
  \/ PromoteRefused(q) \/ BarRemoves(q) \/ BarFindsNobody(q) \/ LiftClearsStamp(q)
  \/ CheckInSave(q) \/ DetailsWrite(q) \/ RaiseLock(q) \/ RaiseRefused(q)
  \/ RaiseGuestCountAndSave(q) \/ RaiseHasNoRoom(q) \/ UpdateSave(q)
  \/ ReconcileWaitlist(q)

Next ==
  \/ \E q \in Requests : Begin(q) \/ Step(q)
  \/ CancelEvent
  \/ PassTime

Spec == Init /\ [][Next]_vars
-----------------------------------------------------------------------------
(* Properties *)

\* The people a roster lets in: the members going and the guests they declared.
Arrivals(r) == MapThenSumSet(LAMBDA m : 1 + r[m].guests, Going(r))

\* Request q takes its next step, from one of these places.
Steps(q, pcs) == req[q].pc \in pcs /\ req'[q] # req[q]

\* Somebody without the lock changed the row a locked transaction had read.
ChangedUnderLock(q) == req[q].pc \in LockHolders /\ req[q].row # rsvp[req[q].who]

\* A position is held exactly while waiting, and by one member: the queue that
\* promoteWaitlist reads in order is a queue, whoever leaves it, is promoted out
\* of turn, or comes back.
WaitlistIsAQueue ==
  /\ \A m \in Members : rsvp[m].pos # Null <=> m \in Waiting(rsvp)
  /\ \A m, n \in Waiting(rsvp) : rsvp[m].pos = rsvp[n].pos => m = n

\* Member n waits again where a raise had read them waiting: the check-in that
\* seated them meanwhile saved a stale copy, and the raise overwrites it.
GetsPlaceBack(n) ==
  \E q \in Requests : /\ Steps(q, {"raising"}) /\ ChangedUnderLock(q)
                      /\ req[q].who = n /\ rsvp'[n].pos = req[q].row.pos

\* Nobody who waits is overtaken in the queue: not by a newcomer, and not
\* because they pressed the button again.
PlacesAreKept ==
  \A m \in Waiting(rsvp) \cap Waiting(rsvp'), n \in Waiting(rsvp') :
    /\ m # n
    /\ IF n \in Waiting(rsvp) THEN rsvp[m].pos < rsvp[n].pos ELSE ~GetsPlaceBack(n)
    => rsvp'[m].pos < rsvp'[n].pos

\* promoteWaitlist never seats a smaller party past a larger one that waits
\* ahead of it: to be seated past the head takes the member's own RSVP, an
\* organiser's promotion, or a check-in that was under way.
SweepIsInOrder ==
  \A m, n \in Waiting(rsvp) :
    /\ rsvp[m].pos < rsvp[n].pos
    /\ m \in Waiting(rsvp')
    /\ n \in Going(rsvp')
    => \E q \in Requests : Steps(q, {"going", "promote", "door"}) /\ req[q].who = n

\* First come, first served, whatever becomes of the others: no place in the
\* queue is lost to a later one, and no sweep seats a later one first.
WaitlistKeepsOrder == [][PlacesAreKept /\ SweepIsInOrder]_vars

\* The host holds a seat from the creation of the gathering on (host-seat.ts),
\* whatever members, co-hosts, sweeps and stale saves do.
HostHoldsSeat == rsvp[Host].status = "going"

\* RSVPs, raises, promotions and sweeps, however they interleave, never let in
\* more people than the capacity that stands when they commit.  What this asks
\* for is what the event lock gives: that no writer without it touched the row
\* meanwhile.
NoOverbooking ==
  [][Arrivals(rsvp') > Arrivals(rsvp)
       => \/ event.capacity = Null
          \/ Arrivals(rsvp') <= event.capacity
          \/ \E q \in Requests : Steps(q, {"door", "lower"})
          \/ \E q \in Requests : Steps(q, LockHolders) /\ ChangedUnderLock(q)]_vars

\* A member is barred, on the roster, and no removal of them is to come.
RemovalToCome(m) ==
  \E q \in Requests : req[q].pc \in {"barring", "remove"} /\ req[q].who = m
SlippedThrough(m) == m \in banned /\ OnRoster(m) /\ ~RemovalToCome(m)

\* Barring and removing are one act, though they are two transactions: no RSVP,
\* raise or promotion that had passed its checks when the bar was saved, and none
\* that comes later, leaves a barred member on the roster.  The exception is a
\* check-in that had read the seat, and saves it after the removal.
BarredStaysOff ==
  [][\A m \in Members : SlippedThrough(m)' =>
       \/ SlippedThrough(m)
       \/ \E q \in Requests : Steps(q, {"door"}) /\ req[q].who = m]_vars

=============================================================================
