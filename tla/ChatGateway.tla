----------------------------- MODULE ChatGateway -----------------------------
(***************************************************************************)
(* The chat gateway: the sockets of the one process that serves it, the    *)
(* credential checks in flight for them (a handshake's or a re-auth's),    *)
(* who is online, and what ends a socket: its token's expiry, the end of   *)
(* its session, a member who is no longer active, a lockdown.              *)
(*                                                                         *)
(* The end of a session is a row written first and an event emitted after  *)
(* it, while a check reads rows first and acts on the answer later.  Time  *)
(* is relative: a credential, a timer or a cached copy holds the life that *)
(* is left to it.  Everything but the rows is in the memory of the process *)
(* and is lost when it restarts.                                           *)
(***************************************************************************)
EXTENDS Naturals

CONSTANTS Users,
          Staff,         \* members whom a lockdown lets through
          Followed,      \* members with a connection who sees their presence
          Sessions,      \* refresh-token families
          Owner,         \* the member of each family
          Sockets,       \* ids of connections
          Checks,        \* credential checks that may be in flight
          AccessTTL,     \* JWT_ACCESS_TTL
          PresenceGrace, \* PRESENCE_GRACE_WINDOW_MS
          CacheTTL,      \* CACHE_TTL_MS of the platform settings
          MayLock,       \* a bound: whether lockdowns are set and lifted; the copy of the
                         \* settings stays fresh without them, as nothing changes it
          MaySuspend,    \* a bound: whether members become inactive and active again
          MaxNews,       \* a bound: broadcasts in flight when a handshake begins
          Null

ASSUME GatewayAssumption ==
  /\ Staff \subseteq Users /\ Followed \subseteq Users
  /\ Owner \in [Sessions -> Users]
  /\ {AccessTTL, CacheTTL} \subseteq Nat \ {0}
  /\ {PresenceGrace, MaxNews} \subseteq Nat
  /\ {MayLock, MaySuspend} \subseteq BOOLEAN
  /\ Null \notin Sessions \cup Nat \cup BOOLEAN

VARIABLES
  sock,      \* the sockets
  check,     \* assertClaimsAdmitted in flight
  listed,    \* the members with an entry in PresenceService.online
  online,    \* the sockets of each entry
  grace,     \* PresenceService.pendingOffline: what is left of the window
  news,      \* presence broadcasts in flight, by what they say
  told,      \* what the member's connections were last told
  phase,     \* the sessions, as SessionLedger sees them
  token,     \* the life left in a session's newest credential that says "active"
  active,    \* users.status is active
  emitted,   \* USER_SESSION_REVOKED still to be emitted
  replaced,  \* history: the sessions that ended without an event
  sweep,     \* the status sweep and the members it found inactive
  settings   \* platform_settings and the copy of it in memory

vars == <<sock, check, listed, online, grace, news, told, phase, token, active, emitted, replaced, sweep, settings>>

Presence == <<listed, online, grace, news, told>>
Rows     == <<phase, token, active, emitted, replaced>>

Ledger == INSTANCE SessionLedger WITH Family <- Sessions

OrNull(S) == S \cup {Null}
Life == 0..AccessTTL

\* missed (history): the answer this socket was admitted on was overtaken, see Overtaken.
SocketStates == [state : {"closed", "connecting", "open"}, session : OrNull(Sessions),
                 left : Life, timers : SUBSET Life, missed : BOOLEAN]
Closed == [state |-> "closed", session |-> Null, left |-> 0, timers |-> {}, missed |-> FALSE]

CheckStates == [op : {"none", "connect", "reauth"}, at : {"settings", "session", "answer"},
                sock : OrNull(Sockets), session : OrNull(Sessions), left : Life,
                seen : BOOLEAN, missed : BOOLEAN]
Asking(op, s, f, left) ==
  [op |-> op, at |-> "settings", sock |-> s, session |-> f, left |-> left,
   seen |-> FALSE, missed |-> FALSE]
Idle == Asking("none", Null, Null, 0)

Events == [user : Users, session : OrNull(Sessions)]

IsOpen(s) == sock[s].state = "open"
UserOf(s) == Owner[sock[s].session]
OpenOf(u) == {s \in Sockets : IsOpen(s) /\ UserOf(s) = u}
LiveOf(u) == {f \in Sessions : Owner[f] = u /\ phase[f] = "live"}
NoSweep == [running |-> FALSE, found |-> {}]
\* crowded (history): the last broadcast began while another was in flight.
NoNews == [on |-> 0, off |-> 0, crowded |-> FALSE]

\* Slip: never stops at zero.
SoonerForEver(n) == n - 1

\* One unit of time off a life.
Sooner(n) == IF n = 0 THEN 0 ELSE n - 1

(***************************************************************************)
(* PresenceService, and the broadcasts its transitions start.              *)
(***************************************************************************)
IsQuiet(u) == news[u].on + news[u].off = 0
OneMore(u, kind) == [news[u] EXCEPT ![kind] = @ + 1]

\* Slip: one broadcast at a time, a second is not made.
AnnounceOne(u, kind) ==
  IF u \in Followed /\ IsQuiet(u) THEN OneMore(u, kind) ELSE news[u]

Announce(u, kind) ==
  IF u \in Followed THEN [OneMore(u, kind) EXCEPT !.crowded = ~IsQuiet(u)] ELSE news[u]

\* PresenceService.add: a reconnect inside the window was never reported offline.
AddPresence(u, s) ==
  /\ listed' = listed \cup {u}
  /\ online' = [online EXCEPT ![u] = @ \cup {s}]
  /\ grace' = [grace EXCEPT ![u] = Null]
  /\ news' = IF u \notin listed THEN [news EXCEPT ![u] = Announce(u, "on")] ELSE news
  /\ UNCHANGED told

\* PresenceService.remove for the sockets D of the members us, one after the other.
RemovePresence(D, us, isGraced) ==
  LET last == {u \in us \cap listed : online[u] \subseteq D}
  IN  /\ online' = [u \in Users |-> IF u \in us THEN online[u] \ D ELSE online[u]]
      /\ IF isGraced
         THEN /\ grace' = [u \in Users |-> IF u \in last THEN PresenceGrace ELSE grace[u]]
              /\ UNCHANGED <<listed, news>>
         ELSE /\ listed' = listed \ last
              /\ news' = [u \in Users |-> IF u \in last THEN Announce(u, "off") ELSE news[u]]
              /\ UNCHANGED grace
      /\ UNCHANGED told

\* disconnect(true), and handleDisconnect in the same turn: the timer is cleared, the presence
\* given up.  A socket that was still connecting has neither.
Disconnect(D, isGraced) ==
  LET opened == {s \in D : IsOpen(s)}
  IN  /\ sock' = [s \in Sockets |-> IF s \in D /\ sock[s].state # "closed" THEN Closed ELSE sock[s]]
      /\ RemovePresence(opened, {UserOf(s) : s \in opened}, isGraced)

(***************************************************************************)
(* Platform settings: a read through a copy in memory, which a change busts *)
(* after it has committed.                                                 *)
(***************************************************************************)
IsFresh == settings.cached # Null /\ settings.fresh > 0
LetsThrough(f, locked) == locked => Owner[f] \in Staff

\* An admission on the state from before a lockdown that was announced already.
IsStale(locked) == ~locked /\ settings.locked /\ settings.saving = "no"

\* A process that has not read the row yet (or, without lockdowns, has read all there is).
Loaded(locked) ==
  IF MayLock THEN [locked |-> locked, saving |-> "no", cached |-> Null, fresh |-> 0]
  ELSE [locked |-> locked, saving |-> "no", cached |-> locked, fresh |-> CacheTTL]

SaveLockdown(on) ==
  /\ MayLock /\ settings.saving = "no" /\ settings.locked # on
  /\ settings' = [settings EXCEPT !.locked = on, !.saving = IF on THEN "lock" ELSE "unlock"]
  /\ UNCHANGED <<sock, check, Presence, Rows, sweep>>

\* update() goes on after its commit; handleLockdownEnabled drops every socket there is.
SettingsSaved ==
  /\ settings.saving # "no"
  /\ settings' = [settings EXCEPT !.saving = "no", !.cached = Null, !.fresh = 0]
  /\ IF settings.saving = "lock" THEN Disconnect(Sockets, FALSE) ELSE UNCHANGED <<sock, Presence>>
  /\ UNCHANGED <<check, Rows, sweep>>

(***************************************************************************)
(* A credential check.  The settings are read first (from memory, or with  *)
(* the row's answer still to come), then the session.                      *)
(***************************************************************************)
StartCheck(a, op, s, f, left) ==
  LET asking == Asking(op, s, f, left)
  IN  /\ check[a].op = "none"
      /\ left \in 1..token[f]
      /\ IF IsFresh
         THEN /\ LetsThrough(f, settings.cached)
              /\ check' = [check EXCEPT ![a] =
                   [asking EXCEPT !.at = "session", !.missed = IsStale(settings.cached)]]
         ELSE check' = [check EXCEPT ![a] = [asking EXCEPT !.seen = settings.locked]]

\* A socket id is used again once nothing refers to the connection it was.
IsUnused(s) ==
  /\ sock[s].state = "closed" /\ sock[s].timers = {}
  /\ \A a \in Checks : check[a].sock # s

\* The client opens a connection with an access token.
Handshake(a, s, f, left) ==
  /\ IsUnused(s)
  /\ news[Owner[f]].on + news[Owner[f]].off <= MaxNews
  /\ StartCheck(a, "connect", s, f, left)
  /\ sock' = [sock EXCEPT ![s].state = "connecting"]
  /\ UNCHANGED <<Presence, Rows, sweep, settings>>

\* session:reauth, with a token or a ticket of the same member.
Reauth(a, s, f, left) ==
  /\ IsOpen(s) /\ UserOf(s) = Owner[f]
  /\ StartCheck(a, "reauth", s, f, left)
  /\ UNCHANGED <<sock, Presence, Rows, sweep, settings>>

\* PlatformSettingsService.get: the row's answer also becomes the copy in memory.
SettingsRead(a) ==
  /\ check[a].op # "none" /\ check[a].at = "settings"
  /\ settings' = [settings EXCEPT !.cached = check[a].seen, !.fresh = CacheTTL]
  /\ LetsThrough(check[a].session, check[a].seen)
  /\ check' = [check EXCEPT ![a].at = "session", ![a].seen = FALSE,
                            ![a].missed = IsStale(check[a].seen)]
  /\ UNCHANGED <<sock, Presence, Rows, sweep>>

\* The read fails and the last copy serves, however old.
SettingsReadFails(a) ==
  /\ check[a].op # "none" /\ check[a].at = "settings" /\ settings.cached # Null
  /\ LetsThrough(check[a].session, settings.cached)
  /\ check' = [check EXCEPT ![a].at = "session", ![a].seen = FALSE,
                            ![a].missed = IsStale(settings.cached)]
  /\ UNCHANGED <<sock, Presence, Rows, sweep, settings>>

AssertSessionLive(a) ==
  /\ check[a].op # "none" /\ check[a].at = "session"
  /\ phase[check[a].session] = "live"
  /\ check' = [check EXCEPT ![a].at = "answer"]
  /\ UNCHANGED <<sock, Presence, Rows, sweep, settings>>

\* The check throws: what was read says locked out, or the session is over, or a read failed.
Refuse(a) ==
  /\ check[a].op # "none" /\ check[a].at # "answer"
  /\ \/ UNCHANGED settings
     \/ /\ check[a].at = "settings" /\ ~LetsThrough(check[a].session, check[a].seen)
        /\ settings' = [settings EXCEPT !.cached = TRUE, !.fresh = CacheTTL]
  /\ Disconnect({check[a].sock}, check[a].op = "reauth")
  /\ check' = [check EXCEPT ![a] = Idle]
  /\ UNCHANGED <<Rows, sweep>>

\* A session:reauth refused at once: a bad credential, or the copy in memory says locked.
ReauthRefused(s) ==
  /\ IsOpen(s)
  /\ Disconnect({s}, TRUE)
  /\ UNCHANGED <<check, Rows, sweep, settings>>

\* Slip: the previous timer is left running.
RearmedBeside(s, left) == sock[s].timers \cup {left}

\* Slip: the previous timer is cleared and none is armed.
Disarmed(s, left) == {}

\* clearTimeout and scheduleTokenExpiry.
Rearmed(s, left) == {left}

\* Slip: does not ask whether the client is still there.
IsThereAnyway(s) == TRUE

IsThere(s) == sock[s].state = "connecting"

\* Admitting a socket does not bring back one whose client is gone.
Opened(a) ==
  [state   |-> IF sock[check[a].sock].state = "closed" THEN "closed" ELSE "open",
   session |-> check[a].session, left |-> check[a].left,
   timers  |-> {check[a].left},  missed |-> check[a].missed]

\* handleConnection after authenticate.  A token that ran out meanwhile drops the socket before
\* it is present: handleDisconnect then finds the member's other sockets, or the window
\* of the last one, and begins the window again.
HandleConnection(a) ==
  LET s == check[a].sock u == Owner[check[a].session]
  IN  /\ check[a].op = "connect" /\ check[a].at = "answer"
      /\ IF ~IsThere(s)
         THEN UNCHANGED <<sock, Presence>>
         ELSE IF check[a].left = 0
         THEN /\ sock' = [sock EXCEPT ![s] = Closed]
              /\ RemovePresence({s}, {u}, TRUE)
         ELSE /\ sock' = [sock EXCEPT ![s] = Opened(a)]
              /\ AddPresence(u, s)
      /\ check' = [check EXCEPT ![a] = Idle]
      /\ UNCHANGED <<Rows, sweep, settings>>

\* handleReauth after assertClaimsAdmitted.  The socket may be gone: arming its timer is then
\* all that happens.
HandleReauth(a) ==
  LET s == check[a].sock left == check[a].left
  IN  /\ check[a].op = "reauth" /\ check[a].at = "answer"
      /\ IF left = 0
         THEN IF IsOpen(s) THEN Disconnect({s}, TRUE)
              ELSE sock' = [sock EXCEPT ![s].timers = {}] /\ UNCHANGED Presence
         ELSE /\ sock' = [sock EXCEPT ![s].timers = Rearmed(s, left),
                            ![s].session = IF IsOpen(s) THEN check[a].session ELSE @,
                            ![s].left    = IF IsOpen(s) THEN left ELSE @,
                            ![s].missed  = IF IsOpen(s) THEN check[a].missed ELSE @]
              /\ UNCHANGED Presence
      /\ check' = [check EXCEPT ![a] = Idle]
      /\ UNCHANGED <<Rows, sweep, settings>>

\* The client goes away, or a broadcast that opening the socket awaits fails.
ClientLeaves(s) ==
  /\ sock[s].state # "closed"
  /\ Disconnect({s}, FALSE)
  /\ UNCHANGED <<check, Rows, sweep, settings>>

(***************************************************************************)
(* The sessions.  What ends one revokes its rows and emits when the answer *)
(* is there, naming it only when one device was signed out by its id.      *)
(***************************************************************************)
\* A sign-in, a refresh or a ticket mints a credential while the member is active.
Mint(f) ==
  /\ active[Owner[f]]
  /\ phase[f] # "closed"
  /\ phase' = [phase EXCEPT ![f] = "live"]
  /\ token' = [token EXCEPT ![f] = AccessTTL]
  /\ replaced' = replaced \ {f}
  /\ UNCHANGED <<sock, check, Presence, active, emitted, sweep, settings>>

EndRows(F) ==
  \E over \in [F -> {"lingering", "closed"}] :
    phase' = [f \in Sessions |-> IF f \in F THEN over[f] ELSE phase[f]]

End(F, event) ==
  /\ event \notin emitted
  /\ EndRows(F)
  /\ emitted' = emitted \cup {event}
  /\ UNCHANGED <<sock, check, Presence, token, active, replaced, sweep, settings>>

RevokeSession(f) == phase[f] = "live" /\ End({f}, [user |-> Owner[f], session |-> f])

\* Logout, "log out other devices", sign out everywhere, a detected reuse.
RevokeSome(u) == \E F \in SUBSET LiveOf(u) : End(F, [user |-> u, session |-> Null])

\* A sign-in in a browser that holds a session ends that one, and emits nothing: the event
\* would drop the member's other devices.
ReplaceSession(f) ==
  /\ phase[f] = "live"
  /\ EndRows({f})
  /\ replaced' = replaced \cup {f}
  /\ UNCHANGED <<sock, check, Presence, token, active, emitted, sweep, settings>>

\* The rotation grace window passes.
WindowCloses(f) ==
  /\ phase[f] = "lingering"
  /\ phase' = [phase EXCEPT ![f] = "closed"]
  /\ UNCHANGED <<sock, check, Presence, token, active, emitted, replaced, sweep, settings>>

EndedBy(event) == {f \in Sessions : Owner[f] = event.user /\ event.session \in {Null, f}}

\* Slip: stops at the first socket it drops.
ReachesFirst(event) ==
  IF event.session = Null THEN OpenOf(event.user)
  ELSE LET found == {s \in OpenOf(event.user) : sock[s].session = event.session}
       IN  IF found = {} THEN {} ELSE {CHOOSE s \in found : TRUE}

\* The room of the member, or the sockets in it that carry the session.
Reaches(event) ==
  {s \in OpenOf(event.user) : event.session \in {Null, sock[s].session}}

\* A check that read the session live before the event misses the event: its socket has not
\* joined the room, or does not carry that session yet.
Overtaken(event) ==
  {a \in Checks : /\ check[a].at = "answer" /\ check[a].session \in EndedBy(event)
                  /\ phase[check[a].session] # "live"}

HandleSessionRevoked(event) ==
  /\ event \in emitted
  /\ emitted' = emitted \ {event}
  /\ Disconnect(Reaches(event), FALSE)
  /\ check' = [a \in Checks |->
       IF a \in Overtaken(event) THEN [check[a] EXCEPT !.missed = TRUE] ELSE check[a]]
  /\ UNCHANGED <<phase, token, active, replaced, sweep, settings>>

(***************************************************************************)
(* The status of the members, and the sweep that re-reads it.              *)
(***************************************************************************)
SetActive(u, on) ==
  /\ MaySuspend /\ active[u] # on
  /\ active' = [active EXCEPT ![u] = on]
  /\ UNCHANGED <<sock, check, Presence, phase, token, emitted, replaced, sweep, settings>>

\* Slip: keeps the members it should drop.
FindsActive == {u \in listed : active[u]}

Inactive == {u \in listed : ~active[u]}

\* The sweep takes the members online and reads their statuses; one that finds nobody to drop
\* is over at once.
Revalidate ==
  /\ ~sweep.running /\ Inactive # {}
  /\ sweep' = [running |-> TRUE, found |-> Inactive]
  /\ UNCHANGED <<sock, check, Presence, Rows, settings>>

RevalidateDrops ==
  /\ sweep.running
  /\ sweep' = NoSweep
  /\ Disconnect(UNION {OpenOf(u) : u \in sweep.found}, FALSE)
  /\ UNCHANGED <<check, Rows, settings>>

(***************************************************************************)
(* Timers, broadcasts and the process.                                     *)
(***************************************************************************)
TokenExpires(s) ==
  /\ 0 \in sock[s].timers
  /\ IF IsOpen(s) THEN Disconnect({s}, TRUE)
     ELSE sock' = [sock EXCEPT ![s].timers = @ \ {0}] /\ UNCHANGED Presence
  /\ UNCHANGED <<check, Rows, sweep, settings>>

GraceElapses(u) ==
  /\ grace[u] = 0
  /\ grace' = [grace EXCEPT ![u] = Null]
  /\ IF online[u] # {}
     THEN UNCHANGED <<listed, news>>
     ELSE /\ listed' = listed \ {u}
          /\ news' = [news EXCEPT ![u] = Announce(u, "off")]
  /\ UNCHANGED <<sock, check, online, told, Rows, sweep, settings>>

\* A broadcast has read whom to tell and tells them.
Broadcast(u, kind) ==
  /\ news[u][kind] > 0
  /\ news' = [news EXCEPT ![u][kind] = @ - 1]
  /\ told' = [told EXCEPT ![u] = kind = "on"]
  /\ UNCHANGED <<sock, check, listed, online, grace, Rows, sweep, settings>>

\* Timers that are due run before time goes on.
Tick ==
  /\ \A s \in Sockets : 0 \notin sock[s].timers
  /\ \A u \in Users : grace[u] # 0
  /\ sock' = [s \in Sockets |-> [sock[s] EXCEPT !.left = Sooner(@), !.timers = {Sooner(t) : t \in @}]]
  /\ check' = [a \in Checks |-> [check[a] EXCEPT !.left = Sooner(@)]]
  /\ token' = [f \in Sessions |-> Sooner(token[f])]
  /\ grace' = [u \in Users |-> IF grace[u] = Null THEN Null ELSE Sooner(grace[u])]
  /\ settings' = [settings EXCEPT !.fresh = IF MayLock THEN Sooner(@) ELSE @]
  /\ UNCHANGED <<listed, online, news, told, phase, active, emitted, replaced, sweep>>

\* A crash or a deploy: the rows stay.
Restart ==
  /\ sock' = [s \in Sockets |-> Closed]
  /\ check' = [a \in Checks |-> Idle]
  /\ listed' = {} /\ online' = [u \in Users |-> {}] /\ grace' = [u \in Users |-> Null]
  /\ news' = [u \in Users |-> NoNews] /\ told' = [u \in Users |-> FALSE]
  /\ emitted' = {} /\ sweep' = NoSweep
  /\ settings' = Loaded(settings.locked)
  /\ UNCHANGED <<phase, token, active, replaced>>

Init ==
  /\ sock = [s \in Sockets |-> Closed]
  /\ check = [a \in Checks |-> Idle]
  /\ listed = {} /\ online = [u \in Users |-> {}] /\ grace = [u \in Users |-> Null]
  /\ news = [u \in Users |-> NoNews] /\ told = [u \in Users |-> FALSE]
  /\ Ledger!LedgerInit /\ token = [f \in Sessions |-> 0]
  /\ active = [u \in Users |-> TRUE]
  /\ emitted = {} /\ replaced = {} /\ sweep = NoSweep
  /\ settings = Loaded(FALSE)

GatewayActs ==
  \/ \E a \in Checks :
       \/ \E s \in Sockets, f \in Sessions, left \in Life : Handshake(a, s, f, left) \/ Reauth(a, s, f, left)
       \/ SettingsRead(a) \/ SettingsReadFails(a) \/ AssertSessionLive(a) \/ Refuse(a)
       \/ HandleConnection(a) \/ HandleReauth(a)
  \/ \E s \in Sockets : ClientLeaves(s) \/ ReauthRefused(s) \/ TokenExpires(s)
  \/ \E u \in Users : GraceElapses(u) \/ \E kind \in {"on", "off"} : Broadcast(u, kind)

MembershipActs ==
  \/ \E f \in Sessions : Mint(f) \/ RevokeSession(f) \/ ReplaceSession(f) \/ WindowCloses(f)
  \/ \E u \in Users : RevokeSome(u) \/ \E on \in BOOLEAN : SetActive(u, on)
  \/ \E event \in emitted : HandleSessionRevoked(event)

PlatformActs ==
  \/ \E on \in BOOLEAN : SaveLockdown(on)
  \/ SettingsSaved \/ Revalidate \/ RevalidateDrops \/ Tick \/ Restart

Next == GatewayActs \/ MembershipActs \/ PlatformActs

Spec == Init /\ [][Next]_vars

\* The event loop runs the timers that are due, and time passes.
TimersRun ==
  /\ WF_vars(Tick)
  /\ \A s \in Sockets : WF_vars(TokenExpires(s))
  /\ \A u \in Users : WF_vars(GraceElapses(u))

\* The interval of the sweep comes round and its query is answered.
SweepRuns == WF_vars(Revalidate) /\ WF_vars(RevalidateDrops)

SweptSpec == Spec /\ SweepRuns

(***************************************************************************)
(* Properties.                                                             *)
(***************************************************************************)
GatewayTypeOK ==
  /\ sock \in [Sockets -> SocketStates]
  /\ \A s \in Sockets : IsOpen(s) => sock[s].session \in Sessions
  /\ check \in [Checks -> CheckStates]
  /\ \A a \in Checks : check[a].op # "none" => check[a].sock \in Sockets /\ check[a].session \in Sessions
  /\ listed \subseteq Users /\ online \in [Users -> SUBSET Sockets]
  /\ grace \in [Users -> OrNull(0..PresenceGrace)]
  /\ news \in [Users -> [on : Nat, off : Nat, crowded : BOOLEAN]] /\ told \in [Users -> BOOLEAN]
  /\ Ledger!LedgerTypeOK /\ token \in [Sessions -> Life] /\ active \in [Users -> BOOLEAN]
  /\ emitted \subseteq Events /\ replaced \subseteq Sessions /\ sweep \in [running : BOOLEAN, found : SUBSET Users]
  /\ settings \in [locked : BOOLEAN, saving : {"no", "lock", "unlock"},
                   cached : OrNull(BOOLEAN), fresh : 0..CacheTTL]

\* However handshakes, clients that go away and graced drops interleave, the members online
\* are those with an open socket and those in the window after their last one: no socket that
\* died while it was being admitted keeps its member online for ever.
PresenceIsTrue ==
  \A u \in Users :
    /\ online[u] = OpenOf(u)
    /\ u \in listed <=> OpenOf(u) # {} \/ grace[u] # Null
    /\ grace[u] # Null => OpenOf(u) = {}

\* An open socket has one timer, set to the expiry of the credential it was last admitted on:
\* a renewal neither leaves an older timer that would drop it early nor lets it outlive the token.
OneTimerForItsToken ==
  \A s \in Sockets : IsOpen(s) => sock[s].timers = {sock[s].left}

\* The end of a session and a lockdown reach every socket: one that stays open was admitted on
\* an answer that the end had overtaken, or the event is still to be emitted, or a new sign-in
\* in the same browser ended the session.
EndsReachEverySocket ==
  \A s \in Sockets : IsOpen(s) /\ ~sock[s].missed =>
    /\ \/ phase[sock[s].session] = "live" \/ sock[s].session \in replaced
       \/ \E event \in emitted : sock[s].session \in EndedBy(event)
    /\ settings.locked => UserOf(s) \in Staff \/ settings.saving = "lock"

\* While timers run, a socket does not outlive its session for longer than the token it came
\* with, the missed ones included.
SocketsEndWithTheirSession ==
  TimersRun => \A f \in Sessions :
    phase[f] = "closed" ~> \A s \in Sockets : IsOpen(s) => sock[s].session # f

\* A member who stays inactive is dropped by the sweep again and again, however often a token
\* from before lets them reconnect, and without waiting for that token to expire.
InactiveGoDark ==
  \A u \in Users : <>[](~active[u]) => []<>(OpenOf(u) = {})

\* Whoever is followed is reported as they are once the broadcasts under way are out, whatever
\* the grace window hides; only broadcasts that overlap may leave it wrong, as they may
\* overtake each other.
PresenceIsReported ==
  \A u \in Followed : IsQuiet(u) /\ ~news[u].crowded => (told[u] <=> u \in listed)
=============================================================================
