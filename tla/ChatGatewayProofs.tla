-------------------------- MODULE ChatGatewayProofs --------------------------
(***************************************************************************)
(* The safety properties of the gateway, for any members, sessions,        *)
(* sockets, checks in flight and times.  Most steps only drop sockets or   *)
(* leave them alone; SocketSteps sorts them, and each invariant is carried  *)
(* over the few kinds there are.                                           *)
(***************************************************************************)
EXTENDS ChatGateway, TLAPS

SocksOK ==
  /\ sock \in [Sockets -> SocketStates]
  /\ \A s \in Sockets : IsOpen(s) => sock[s].session \in Sessions

ChecksOK ==
  /\ check \in [Checks -> CheckStates]
  /\ \A a \in Checks : check[a].op # "none" => check[a].sock \in Sockets /\ check[a].session \in Sessions

PresenceOK ==
  /\ listed \subseteq Users /\ online \in [Users -> SUBSET Sockets]
  /\ grace \in [Users -> OrNull(0..PresenceGrace)]
  /\ news \in [Users -> [on : Nat, off : Nat, crowded : BOOLEAN]] /\ told \in [Users -> BOOLEAN]

RowsOK ==
  /\ Ledger!LedgerTypeOK /\ token \in [Sessions -> Life] /\ active \in [Users -> BOOLEAN]
  /\ emitted \subseteq Events /\ replaced \subseteq Sessions

SweepOK == sweep \in [running : BOOLEAN, found : SUBSET Users]

SettingsOK ==
  settings \in [locked : BOOLEAN, saving : {"no", "lock", "unlock"},
                cached : OrNull(BOOLEAN), fresh : 0..CacheTTL]

LEMMA TypeParts ==
  GatewayTypeOK <=> SocksOK /\ ChecksOK /\ PresenceOK /\ RowsOK /\ SweepOK /\ SettingsOK
  BY DEF GatewayTypeOK, SocksOK, ChecksOK, PresenceOK, RowsOK, SweepOK, SettingsOK

LEMMA TypePartsNext ==
  GatewayTypeOK' <=> SocksOK' /\ ChecksOK' /\ PresenceOK' /\ RowsOK' /\ SweepOK' /\ SettingsOK'
  BY DEF GatewayTypeOK, SocksOK, ChecksOK, PresenceOK, RowsOK, SweepOK, SettingsOK

LEMMA ConstantsOK ==
  /\ 0 \in Life /\ AccessTTL \in Life
  /\ Closed \in SocketStates /\ Idle \in CheckStates
  /\ CacheTTL \in 0..CacheTTL /\ 0 \in 0..CacheTTL /\ PresenceGrace \in 0..PresenceGrace
  /\ Owner \in [Sessions -> Users]
  BY GatewayAssumption DEF Life, Closed, SocketStates, Idle, Asking, CheckStates, OrNull

-----------------------------------------------------------------------------
(* Helpers keep their types. *)

LEMMA SoonerType ==
  /\ AccessTTL \in Nat /\ CacheTTL \in Nat /\ PresenceGrace \in Nat
  /\ \A n \in Life : Sooner(n) \in Life
  /\ \A n \in 0..CacheTTL : Sooner(n) \in 0..CacheTTL
  /\ \A n \in 0..PresenceGrace : Sooner(n) \in 0..PresenceGrace
<1>1. AccessTTL \in Nat /\ CacheTTL \in Nat /\ PresenceGrace \in Nat
  BY GatewayAssumption
<1>2. \A m \in Nat : \A n \in 0..m : Sooner(n) \in 0..m
  BY DEF Sooner
<1>. QED BY <1>1, <1>2 DEF Life

LEMMA AnnounceType ==
  ASSUME PresenceOK, NEW u \in Users, NEW kind \in {"on", "off"}
  PROVE  Announce(u, kind) \in [on : Nat, off : Nat, crowded : BOOLEAN]
<1>1. news[u] \in [on : Nat, off : Nat, crowded : BOOLEAN]
  BY DEF PresenceOK
<1>2. PICK c \in BOOLEAN : c = ~IsQuiet(u)
  BY DEF IsQuiet
<1>3. OneMore(u, kind) \in [on : Nat, off : Nat, crowded : BOOLEAN]
  <2>1. CASE kind = "on"
    BY <1>1, <2>1 DEF OneMore
  <2>2. CASE kind = "off"
    BY <1>1, <2>2 DEF OneMore
  <2>. QED BY <2>1, <2>2
<1>4. [OneMore(u, kind) EXCEPT !.crowded = c] \in [on : Nat, off : Nat, crowded : BOOLEAN]
  BY <1>3
<1>. QED BY <1>1, <1>2, <1>4 DEF Announce

LEMMA AddPresenceType ==
  ASSUME PresenceOK, NEW u \in Users, NEW s \in Sockets, AddPresence(u, s)
  PROVE  PresenceOK'
<1>1. news' \in [Users -> [on : Nat, off : Nat, crowded : BOOLEAN]]
  <2>1. Announce(u, "on") \in [on : Nat, off : Nat, crowded : BOOLEAN]
    BY AnnounceType
  <2>. QED BY <2>1 DEF AddPresence, PresenceOK
<1>. QED BY <1>1 DEF AddPresence, PresenceOK, OrNull

LEMMA RemovePresenceType ==
  ASSUME PresenceOK, NEW D, NEW us, NEW isGraced, RemovePresence(D, us, isGraced)
  PROVE  PresenceOK'
<1>1. \A u \in Users : Announce(u, "off") \in [on : Nat, off : Nat, crowded : BOOLEAN]
  BY AnnounceType
<1>2. online' \in [Users -> SUBSET Sockets]
  BY DEF RemovePresence, PresenceOK
<1>3. CASE isGraced
  <2>1. grace' \in [Users -> OrNull(0..PresenceGrace)] /\ UNCHANGED <<listed, news, told>>
    BY <1>3, ConstantsOK DEF RemovePresence, PresenceOK, OrNull
  <2>. QED BY <2>1, <1>2 DEF PresenceOK
<1>4. CASE ~isGraced
  <2>1. news' \in [Users -> [on : Nat, off : Nat, crowded : BOOLEAN]]
    <3> DEFINE last == {u \in us \cap listed : online[u] \subseteq D}
    <3>1. news' = [u \in Users |-> IF u \in last THEN Announce(u, "off") ELSE news[u]]
      BY <1>4 DEF RemovePresence
    <3>2. \A u \in Users : news[u] \in [on : Nat, off : Nat, crowded : BOOLEAN]
      BY DEF PresenceOK
    <3>. HIDE DEF last
    <3>. QED BY <1>1, <3>1, <3>2
  <2>2. listed' \subseteq Users /\ UNCHANGED <<grace, told>>
    BY <1>4 DEF RemovePresence, PresenceOK
  <2>. QED BY <2>1, <2>2, <1>2 DEF PresenceOK
<1>. QED BY <1>3, <1>4

LEMMA DisconnectType ==
  ASSUME SocksOK, PresenceOK, NEW D, NEW isGraced, Disconnect(D, isGraced)
  PROVE  SocksOK' /\ PresenceOK'
<1>1. PresenceOK'
  BY RemovePresenceType DEF Disconnect
<1>2. SocksOK'
  BY ConstantsOK DEF Disconnect, SocksOK, IsOpen, Closed
<1>. QED BY <1>1, <1>2

LEMMA LoadedType ==
  ASSUME NEW locked \in BOOLEAN
  PROVE  Loaded(locked) \in [locked : BOOLEAN, saving : {"no", "lock", "unlock"},
                             cached : OrNull(BOOLEAN), fresh : 0..CacheTTL]
  BY ConstantsOK DEF Loaded, OrNull

LEMMA StartCheckType ==
  ASSUME GatewayTypeOK, NEW a \in Checks, NEW op \in {"connect", "reauth"},
         NEW s \in Sockets, NEW f \in Sessions, NEW left \in Life, StartCheck(a, op, s, f, left)
  PROVE  ChecksOK'
<1>1. settings.locked \in BOOLEAN /\ ChecksOK
  BY TypeParts DEF SettingsOK
<1>2. PICK c \in CheckStates : c.sock = s /\ c.session = f /\ check' = [check EXCEPT ![a] = c]
  <2> DEFINE asking == Asking(op, s, f, left)
  <2>1. asking \in CheckStates /\ asking.sock = s /\ asking.session = f
    BY DEF Asking, CheckStates, OrNull
  <2>2. CASE IsFresh
    <3> DEFINE c == [asking EXCEPT !.at = "session", !.missed = IsStale(settings.cached)]
    <3>1. check' = [check EXCEPT ![a] = c]
      BY <2>2 DEF StartCheck
    <3>2. IsStale(settings.cached) \in BOOLEAN
      BY DEF IsStale
    <3>. HIDE DEF asking
    <3>3. c \in CheckStates /\ c.sock = s /\ c.session = f
      BY <2>1, <3>2 DEF CheckStates
    <3>. QED BY <3>1, <3>3
  <2>3. CASE ~IsFresh
    <3> DEFINE c == [asking EXCEPT !.seen = settings.locked]
    <3>1. check' = [check EXCEPT ![a] = c]
      BY <2>3 DEF StartCheck
    <3>. HIDE DEF asking
    <3>2. c \in CheckStates /\ c.sock = s /\ c.session = f
      BY <1>1, <2>1 DEF CheckStates
    <3>. QED BY <3>1, <3>2
  <2>. QED BY <2>2, <2>3
<1>. QED BY <1>1, <1>2 DEF ChecksOK

\* A check that goes on, with some of its locals changed, keeps its type.
LEMMA GoesOnType ==
  ASSUME ChecksOK, NEW a \in Checks, NEW c \in CheckStates, check' = [check EXCEPT ![a] = c],
         c.sock = check[a].sock, c.session = check[a].session, check[a].op # "none"
  PROVE  ChecksOK'
  BY DEF ChecksOK

LEMMA EndsType ==
  ASSUME ChecksOK, NEW a \in Checks, check' = [check EXCEPT ![a] = Idle]
  PROVE  ChecksOK'
<1>1. Idle.op = "none"
  BY DEF Idle, Asking
<1>. QED BY <1>1, ConstantsOK DEF ChecksOK

-----------------------------------------------------------------------------
LEMMA InitType == Init => GatewayTypeOK
<1>. SUFFICES ASSUME Init PROVE GatewayTypeOK
  OBVIOUS
<1>1. SocksOK
  BY ConstantsOK DEF Init, SocksOK, IsOpen, Closed
<1>2. ChecksOK
  BY ConstantsOK DEF Init, ChecksOK, Idle, Asking
<1>3. PresenceOK
  BY DEF Init, PresenceOK, OrNull, NoNews
<1>4. RowsOK
  BY ConstantsOK DEF Init, RowsOK, Ledger!LedgerInit, Ledger!LedgerTypeOK, Ledger!Phases
<1>5. SweepOK
  BY DEF Init, SweepOK, NoSweep
<1>6. SettingsOK
  BY LoadedType DEF Init, SettingsOK
<1>. QED BY <1>1, <1>2, <1>3, <1>4, <1>5, <1>6, TypeParts

LEMMA GatewayActsType == GatewayTypeOK /\ GatewayActs => GatewayTypeOK'
<1>. SUFFICES ASSUME GatewayTypeOK, GatewayActs PROVE GatewayTypeOK'
  OBVIOUS
<1>. USE TypeParts, TypePartsNext
<1>a. SocksOK /\ ChecksOK /\ PresenceOK /\ RowsOK /\ SweepOK /\ SettingsOK
  OBVIOUS
<1>b. ASSUME UNCHANGED Rows PROVE RowsOK'
  BY <1>a, <1>b DEF Rows, RowsOK, Ledger!LedgerTypeOK
<1>c. ASSUME UNCHANGED Presence PROVE PresenceOK'
  BY <1>a, <1>c DEF Presence, PresenceOK
<1>d. ASSUME UNCHANGED sock PROVE SocksOK'
  BY <1>a, <1>d DEF SocksOK, IsOpen
<1>e. ASSUME UNCHANGED check PROVE ChecksOK'
  BY <1>a, <1>e DEF ChecksOK
<1>f. ASSUME UNCHANGED sweep PROVE SweepOK'
  BY <1>a, <1>f DEF SweepOK
<1>g. ASSUME UNCHANGED settings PROVE SettingsOK'
  BY <1>a, <1>g DEF SettingsOK
<1>1. ASSUME NEW a \in Checks, NEW s \in Sockets, NEW f \in Sessions, NEW left \in Life,
             Handshake(a, s, f, left)
      PROVE  GatewayTypeOK'
  <2>1. ChecksOK'
    BY <1>1, StartCheckType DEF Handshake
  <2>2. SocksOK'
    BY <1>1, <1>a DEF Handshake, IsUnused, SocksOK, SocketStates, IsOpen
  <2>. QED BY <1>1, <2>1, <2>2, <1>b, <1>c, <1>f, <1>g DEF Handshake
<1>2. ASSUME NEW a \in Checks, NEW s \in Sockets, NEW f \in Sessions, NEW left \in Life,
             Reauth(a, s, f, left)
      PROVE  GatewayTypeOK'
  <2>1. ChecksOK'
    BY <1>2, StartCheckType DEF Reauth
  <2>. QED BY <1>2, <2>1, <1>b, <1>c, <1>d, <1>f, <1>g DEF Reauth
<1>3. ASSUME NEW a \in Checks, SettingsRead(a) PROVE GatewayTypeOK'
  <2> DEFINE c == [check[a] EXCEPT !.at = "session", !.seen = FALSE,
                                   !.missed = IsStale(check[a].seen)]
  <2>1. check' = [check EXCEPT ![a] = c]
    BY <1>3, <1>a DEF SettingsRead, ChecksOK
  <2>2. IsStale(check[a].seen) \in BOOLEAN
    BY DEF IsStale
  <2>3. c \in CheckStates /\ c.sock = check[a].sock /\ c.session = check[a].session
    BY <1>a, <2>2 DEF ChecksOK, CheckStates
  <2>4. ChecksOK'
    <3>. HIDE DEF c
    <3>. QED BY <1>3, <1>a, <2>1, <2>3, GoesOnType DEF SettingsRead
  <2>5. SettingsOK'
    BY <1>3, <1>a, ConstantsOK DEF SettingsRead, SettingsOK, ChecksOK, CheckStates, OrNull
  <2>. QED BY <1>3, <2>4, <2>5, <1>b, <1>c, <1>d, <1>f DEF SettingsRead
<1>4. ASSUME NEW a \in Checks, SettingsReadFails(a) PROVE GatewayTypeOK'
  <2> DEFINE c == [check[a] EXCEPT !.at = "session", !.seen = FALSE,
                                   !.missed = IsStale(settings.cached)]
  <2>1. check' = [check EXCEPT ![a] = c]
    BY <1>4, <1>a DEF SettingsReadFails, ChecksOK
  <2>2. IsStale(settings.cached) \in BOOLEAN
    BY DEF IsStale
  <2>3. c \in CheckStates /\ c.sock = check[a].sock /\ c.session = check[a].session
    BY <1>a, <2>2 DEF ChecksOK, CheckStates
  <2>4. ChecksOK'
    <3>. HIDE DEF c
    <3>. QED BY <1>4, <1>a, <2>1, <2>3, GoesOnType DEF SettingsReadFails
  <2>. QED BY <1>4, <2>4, <1>b, <1>c, <1>d, <1>f, <1>g DEF SettingsReadFails
<1>5. ASSUME NEW a \in Checks, AssertSessionLive(a) PROVE GatewayTypeOK'
  <2> DEFINE c == [check[a] EXCEPT !.at = "answer"]
  <2>1. check' = [check EXCEPT ![a] = c]
    BY <1>5, <1>a DEF AssertSessionLive, ChecksOK
  <2>2. c \in CheckStates /\ c.sock = check[a].sock /\ c.session = check[a].session
    BY <1>a DEF ChecksOK, CheckStates
  <2>3. ChecksOK'
    <3>. HIDE DEF c
    <3>. QED BY <1>5, <1>a, <2>1, <2>2, GoesOnType DEF AssertSessionLive
  <2>. QED BY <1>5, <2>3, <1>b, <1>c, <1>d, <1>f, <1>g DEF AssertSessionLive
<1>6. ASSUME NEW a \in Checks, Refuse(a) PROVE GatewayTypeOK'
  <2>1. SocksOK' /\ PresenceOK'
    BY <1>6, <1>a, DisconnectType DEF Refuse
  <2>2. ChecksOK'
    BY <1>6, <1>a, EndsType DEF Refuse
  <2>3. SettingsOK'
    BY <1>6, <1>a, ConstantsOK DEF Refuse, SettingsOK, OrNull
  <2>. QED BY <1>6, <2>1, <2>2, <2>3, <1>b, <1>f DEF Refuse
<1>7. ASSUME NEW a \in Checks, HandleConnection(a) PROVE GatewayTypeOK'
  <2> DEFINE s == check[a].sock
             u == Owner[check[a].session]
  <2>1. s \in Sockets /\ u \in Users /\ check[a].session \in Sessions /\ check[a].left \in Life
    BY <1>7, <1>a, ConstantsOK DEF HandleConnection, ChecksOK, CheckStates
  <2>2. ChecksOK'
    BY <1>7, <1>a, EndsType DEF HandleConnection
  <2>3. SocksOK' /\ PresenceOK'
    <3>1. CASE ~IsThere(s)
      BY <1>7, <3>1, <1>c, <1>d DEF HandleConnection
    <3>2. CASE IsThere(s) /\ check[a].left = 0
      <4>1. PresenceOK'
        BY <1>7, <3>2, <1>a, RemovePresenceType DEF HandleConnection
      <4>2. SocksOK'
        BY <1>7, <3>2, <2>1, <1>a, ConstantsOK DEF HandleConnection, SocksOK, IsOpen, Closed
      <4>. QED BY <4>1, <4>2
    <3>3. CASE IsThere(s) /\ check[a].left # 0
      <4>1. AddPresence(u, s) /\ sock' = [sock EXCEPT ![s] = Opened(a)]
        BY <1>7, <3>3 DEF HandleConnection
      <4>2. PresenceOK'
        BY <4>1, <2>1, <1>a, AddPresenceType
      <4>3. Opened(a) \in SocketStates /\ Opened(a).session = check[a].session
        BY <2>1, <1>a DEF Opened, SocketStates, ChecksOK, CheckStates, OrNull
      <4>4. SocksOK'
        BY <4>1, <4>3, <2>1, <1>a DEF SocksOK, IsOpen
      <4>. QED BY <4>2, <4>4
    <3>. QED BY <3>1, <3>2, <3>3
  <2>. QED BY <1>7, <2>2, <2>3, <1>b, <1>f, <1>g DEF HandleConnection
<1>8. ASSUME NEW a \in Checks, HandleReauth(a) PROVE GatewayTypeOK'
  <2> DEFINE s == check[a].sock
             left == check[a].left
  <2>1. s \in Sockets /\ check[a] \in CheckStates /\ check[a].session \in Sessions
    BY <1>8, <1>a DEF HandleReauth, ChecksOK
  <2>2. ChecksOK'
    BY <1>8, <1>a, EndsType DEF HandleReauth
  <2>3. SocksOK' /\ PresenceOK'
    <3>1. CASE left = 0 /\ IsOpen(s)
      <4>1. Disconnect({s}, TRUE)
        BY <1>8, <3>1 DEF HandleReauth
      <4>. QED BY <4>1, <1>a, DisconnectType
    <3>2. CASE left = 0 /\ ~IsOpen(s)
      <4>1. sock' = [sock EXCEPT ![s].timers = {}] /\ UNCHANGED Presence
        BY <1>8, <3>2 DEF HandleReauth
      <4>. QED BY <4>1, <2>1, <1>a, <1>c DEF SocksOK, SocketStates, IsOpen
    <3>3. CASE left # 0
      <4>1. /\ sock' = [sock EXCEPT ![s].timers = {left},
                            ![s].session = IF IsOpen(s) THEN check[a].session ELSE @,
                            ![s].left    = IF IsOpen(s) THEN left ELSE @,
                            ![s].missed  = IF IsOpen(s) THEN check[a].missed ELSE @]
            /\ UNCHANGED Presence
        BY <1>8, <3>3 DEF HandleReauth, Rearmed
      <4>2. left \in Life /\ check[a].missed \in BOOLEAN
        BY <2>1 DEF CheckStates
      <4>3. SocksOK'
        <5>. HIDE DEF left
        <5>1. sock'[s] \in SocketStates
          <6>1. sock[s] \in SocketStates
            BY <2>1, <1>a DEF SocksOK
          <6>2. CASE IsOpen(s)
            <7>1. sock'[s] = [sock[s] EXCEPT !.timers = {left}, !.session = check[a].session,
                                             !.left = left, !.missed = check[a].missed]
              BY <4>1, <6>2, <2>1, <1>a DEF SocksOK
            <7>2. {left} \in SUBSET Life /\ check[a].session \in OrNull(Sessions)
              BY <4>2, <2>1 DEF OrNull
            <7>. QED BY <7>1, <7>2, <6>1, <4>2 DEF SocketStates
          <6>3. CASE ~IsOpen(s)
            <7>1. sock'[s] = [sock[s] EXCEPT !.timers = {left}, !.session = sock[s].session,
                                             !.left = sock[s].left, !.missed = sock[s].missed]
              BY <4>1, <6>3, <2>1, <1>a DEF SocksOK
            <7>2. {left} \in SUBSET Life /\ sock[s].session \in OrNull(Sessions)
                  /\ sock[s].left \in Life /\ sock[s].missed \in BOOLEAN
              BY <6>1, <4>2 DEF SocketStates
            <7>. QED BY <7>1, <7>2, <6>1 DEF SocketStates
          <6>. QED BY <6>2, <6>3
        <5>2. sock'[s].state = sock[s].state
              /\ sock'[s].session = IF IsOpen(s) THEN check[a].session ELSE sock[s].session
          BY <4>1, <2>1, <1>a DEF SocksOK, SocketStates
        <5>3. sock' \in [Sockets -> SocketStates] /\ \A r \in Sockets \ {s} : sock'[r] = sock[r]
          BY <5>1, <4>1, <2>1, <1>a DEF SocksOK
        <5>. QED BY <5>2, <5>3, <2>1, <1>a DEF SocksOK, IsOpen
      <4>. QED BY <4>1, <4>3, <1>c
    <3>. QED BY <3>1, <3>2, <3>3
  <2>. QED BY <1>8, <2>2, <2>3, <1>b, <1>f, <1>g DEF HandleReauth
<1>9. ASSUME NEW s \in Sockets, ClientLeaves(s) PROVE GatewayTypeOK'
  <2>1. SocksOK' /\ PresenceOK'
    BY <1>9, <1>a, DisconnectType DEF ClientLeaves
  <2>. QED BY <1>9, <2>1, <1>b, <1>e, <1>f, <1>g DEF ClientLeaves
<1>10. ASSUME NEW s \in Sockets, ReauthRefused(s) PROVE GatewayTypeOK'
  <2>1. SocksOK' /\ PresenceOK'
    BY <1>10, <1>a, DisconnectType DEF ReauthRefused
  <2>. QED BY <1>10, <2>1, <1>b, <1>e, <1>f, <1>g DEF ReauthRefused
<1>11. ASSUME NEW s \in Sockets, TokenExpires(s) PROVE GatewayTypeOK'
  <2>1. CASE IsOpen(s)
    <3>1. SocksOK' /\ PresenceOK'
      BY <1>11, <2>1, <1>a, DisconnectType DEF TokenExpires
    <3>. QED BY <1>11, <3>1, <1>b, <1>e, <1>f, <1>g DEF TokenExpires
  <2>2. CASE ~IsOpen(s)
    <3>1. SocksOK'
      BY <1>11, <2>2, <1>a DEF TokenExpires, SocksOK, SocketStates, IsOpen
    <3>. QED BY <1>11, <2>2, <3>1, <1>b, <1>c, <1>e, <1>f, <1>g DEF TokenExpires
  <2>. QED BY <2>1, <2>2
<1>12. ASSUME NEW u \in Users, GraceElapses(u) PROVE GatewayTypeOK'
  <2>1. Announce(u, "off") \in [on : Nat, off : Nat, crowded : BOOLEAN]
    BY <1>a, AnnounceType
  <2>2. PresenceOK'
    BY <1>12, <2>1, <1>a DEF GraceElapses, PresenceOK, OrNull
  <2>. QED BY <1>12, <2>2, <1>b, <1>d, <1>e, <1>f, <1>g DEF GraceElapses
<1>13. ASSUME NEW u \in Users, NEW kind \in {"on", "off"}, Broadcast(u, kind) PROVE GatewayTypeOK'
  <2>1. [news[u] EXCEPT ![kind] = @ - 1] \in [on : Nat, off : Nat, crowded : BOOLEAN]
    <3>1. news[u] \in [on : Nat, off : Nat, crowded : BOOLEAN] /\ news[u][kind] > 0
      BY <1>13, <1>a DEF PresenceOK, Broadcast
    <3>2. CASE kind = "on"
      BY <3>1, <3>2
    <3>3. CASE kind = "off"
      BY <3>1, <3>3
    <3>. QED BY <3>2, <3>3
  <2>2. news' = [news EXCEPT ![u] = [news[u] EXCEPT ![kind] = @ - 1]]
    BY <1>13, <1>a DEF PresenceOK, Broadcast
  <2>3. PresenceOK'
    BY <1>13, <2>1, <2>2, <1>a DEF Broadcast, PresenceOK
  <2>. QED BY <1>13, <2>3, <1>b, <1>d, <1>e, <1>f, <1>g DEF Broadcast
<1>. QED BY <1>1, <1>2, <1>3, <1>4, <1>5, <1>6, <1>7, <1>8, <1>9, <1>10, <1>11, <1>12, <1>13
         DEF GatewayActs

LEMMA MembershipActsType == GatewayTypeOK /\ MembershipActs => GatewayTypeOK'
<1>. SUFFICES ASSUME GatewayTypeOK, MembershipActs PROVE GatewayTypeOK'
  OBVIOUS
<1>. USE TypeParts, TypePartsNext
<1>a. SocksOK /\ ChecksOK /\ PresenceOK /\ RowsOK /\ SweepOK /\ SettingsOK
  OBVIOUS
<1>c. ASSUME UNCHANGED Presence PROVE PresenceOK'
  BY <1>a, <1>c DEF Presence, PresenceOK
<1>d. ASSUME UNCHANGED sock PROVE SocksOK'
  BY <1>a, <1>d DEF SocksOK, IsOpen
<1>e. ASSUME UNCHANGED check PROVE ChecksOK'
  BY <1>a, <1>e DEF ChecksOK
<1>f. ASSUME UNCHANGED sweep PROVE SweepOK'
  BY <1>a, <1>f DEF SweepOK
<1>g. ASSUME UNCHANGED settings PROVE SettingsOK'
  BY <1>a, <1>g DEF SettingsOK
<1>h. ASSUME NEW F \in SUBSET Sessions, EndRows(F) PROVE Ledger!LedgerTypeOK'
  <2>1. PICK over \in [F -> {"lingering", "closed"}] :
          phase' = [f \in Sessions |-> IF f \in F THEN over[f] ELSE phase[f]]
    BY <1>h DEF EndRows
  <2>. QED BY <2>1, <1>a DEF RowsOK, Ledger!LedgerTypeOK, Ledger!Phases
<1>i. ASSUME NEW F \in SUBSET Sessions, NEW event \in Events, End(F, event) PROVE GatewayTypeOK'
  <2>1. Ledger!LedgerTypeOK'
    BY <1>i, <1>h DEF End
  <2>2. RowsOK'
    BY <2>1, <1>i, <1>a DEF End, RowsOK
  <2>. QED BY <1>i, <2>2, <1>c, <1>d, <1>e, <1>f, <1>g DEF End
<1>1. ASSUME NEW f \in Sessions, Mint(f) PROVE GatewayTypeOK'
  <2>1. RowsOK'
    BY <1>1, <1>a, ConstantsOK DEF Mint, RowsOK, Ledger!LedgerTypeOK, Ledger!Phases
  <2>. QED BY <1>1, <2>1, <1>c, <1>d, <1>e, <1>f, <1>g DEF Mint
<1>2. ASSUME NEW f \in Sessions, RevokeSession(f) PROVE GatewayTypeOK'
  <2>1. [user |-> Owner[f], session |-> f] \in Events
    BY ConstantsOK DEF Events, OrNull
  <2>. QED BY <1>2, <2>1, <1>i DEF RevokeSession
<1>3. ASSUME NEW f \in Sessions, ReplaceSession(f) PROVE GatewayTypeOK'
  <2>1. Ledger!LedgerTypeOK'
    BY <1>3, <1>h DEF ReplaceSession
  <2>2. RowsOK'
    BY <2>1, <1>3, <1>a DEF ReplaceSession, RowsOK
  <2>. QED BY <1>3, <2>2, <1>c, <1>d, <1>e, <1>f, <1>g DEF ReplaceSession
<1>4. ASSUME NEW f \in Sessions, WindowCloses(f) PROVE GatewayTypeOK'
  <2>1. RowsOK'
    BY <1>4, <1>a DEF WindowCloses, RowsOK, Ledger!LedgerTypeOK, Ledger!Phases
  <2>. QED BY <1>4, <2>1, <1>c, <1>d, <1>e, <1>f, <1>g DEF WindowCloses
<1>5. ASSUME NEW u \in Users, RevokeSome(u) PROVE GatewayTypeOK'
  <2>1. PICK F \in SUBSET LiveOf(u) : End(F, [user |-> u, session |-> Null])
    BY <1>5 DEF RevokeSome
  <2>2. F \in SUBSET Sessions /\ [user |-> u, session |-> Null] \in Events
    BY DEF LiveOf, Events, OrNull
  <2>. QED BY <2>1, <2>2, <1>i
<1>6. ASSUME NEW u \in Users, NEW on \in BOOLEAN, SetActive(u, on) PROVE GatewayTypeOK'
  <2>1. RowsOK'
    BY <1>6, <1>a DEF SetActive, RowsOK, Ledger!LedgerTypeOK
  <2>. QED BY <1>6, <2>1, <1>c, <1>d, <1>e, <1>f, <1>g DEF SetActive
<1>7. ASSUME NEW event \in emitted, HandleSessionRevoked(event) PROVE GatewayTypeOK'
  <2>1. SocksOK' /\ PresenceOK'
    BY <1>7, <1>a, DisconnectType DEF HandleSessionRevoked
  <2>2. RowsOK'
    BY <1>7, <1>a DEF HandleSessionRevoked, RowsOK, Ledger!LedgerTypeOK
  <2>3. ChecksOK'
    <3>1. ASSUME NEW a \in Checks
          PROVE  /\ check'[a] \in CheckStates
                 /\ check'[a].op = check[a].op /\ check'[a].sock = check[a].sock
                 /\ check'[a].session = check[a].session
      BY <1>7, <1>a DEF HandleSessionRevoked, ChecksOK, CheckStates
    <3>2. check' \in [Checks -> CheckStates]
      BY <1>7, <3>1 DEF HandleSessionRevoked
    <3>. QED BY <1>a, <3>1, <3>2 DEF ChecksOK
  <2>. QED BY <1>7, <2>1, <2>2, <2>3, <1>f, <1>g DEF HandleSessionRevoked
<1>. QED BY <1>1, <1>2, <1>3, <1>4, <1>5, <1>6, <1>7 DEF MembershipActs

LEMMA PlatformActsType == GatewayTypeOK /\ PlatformActs => GatewayTypeOK'
<1>. SUFFICES ASSUME GatewayTypeOK, PlatformActs PROVE GatewayTypeOK'
  OBVIOUS
<1>. USE TypeParts, TypePartsNext
<1>a. SocksOK /\ ChecksOK /\ PresenceOK /\ RowsOK /\ SweepOK /\ SettingsOK
  OBVIOUS
<1>b. ASSUME UNCHANGED Rows PROVE RowsOK'
  BY <1>a, <1>b DEF Rows, RowsOK, Ledger!LedgerTypeOK
<1>c. ASSUME UNCHANGED Presence PROVE PresenceOK'
  BY <1>a, <1>c DEF Presence, PresenceOK
<1>d. ASSUME UNCHANGED sock PROVE SocksOK'
  BY <1>a, <1>d DEF SocksOK, IsOpen
<1>e. ASSUME UNCHANGED check PROVE ChecksOK'
  BY <1>a, <1>e DEF ChecksOK
<1>f. ASSUME UNCHANGED sweep PROVE SweepOK'
  BY <1>a, <1>f DEF SweepOK
<1>g. ASSUME UNCHANGED settings PROVE SettingsOK'
  BY <1>a, <1>g DEF SettingsOK
<1>1. ASSUME NEW on \in BOOLEAN, SaveLockdown(on) PROVE GatewayTypeOK'
  <2>1. SettingsOK'
    BY <1>1, <1>a DEF SaveLockdown, SettingsOK
  <2>. QED BY <1>1, <2>1, <1>b, <1>c, <1>d, <1>e, <1>f DEF SaveLockdown
<1>2. ASSUME SettingsSaved PROVE GatewayTypeOK'
  <2>1. SettingsOK'
    BY <1>2, <1>a, ConstantsOK DEF SettingsSaved, SettingsOK, OrNull
  <2>2. SocksOK' /\ PresenceOK'
    <3>1. CASE settings.saving = "lock"
      BY <1>2, <3>1, <1>a, DisconnectType DEF SettingsSaved
    <3>2. CASE settings.saving # "lock"
      BY <1>2, <3>2, <1>c, <1>d DEF SettingsSaved
    <3>. QED BY <3>1, <3>2
  <2>. QED BY <1>2, <2>1, <2>2, <1>b, <1>e, <1>f DEF SettingsSaved
<1>3. ASSUME Revalidate PROVE GatewayTypeOK'
  <2>1. SweepOK'
    BY <1>3, <1>a DEF Revalidate, SweepOK, PresenceOK, Inactive
  <2>. QED BY <1>3, <2>1, <1>b, <1>c, <1>d, <1>e, <1>g DEF Revalidate
<1>4. ASSUME RevalidateDrops PROVE GatewayTypeOK'
  <2>1. SocksOK' /\ PresenceOK'
    BY <1>4, <1>a, DisconnectType DEF RevalidateDrops
  <2>2. SweepOK'
    BY <1>4 DEF RevalidateDrops, SweepOK, NoSweep
  <2>. QED BY <1>4, <2>1, <2>2, <1>b, <1>e, <1>g DEF RevalidateDrops
<1>5. ASSUME Tick PROVE GatewayTypeOK'
  <2>1. SocksOK'
    <3>1. \A s \in Sockets : sock'[s] = [sock[s] EXCEPT !.left = Sooner(@),
                                                       !.timers = {Sooner(t) : t \in @}]
      BY <1>5 DEF Tick
    <3>2. \A s \in Sockets : sock[s] \in SocketStates
      BY <1>a DEF SocksOK
    <3>3. ASSUME NEW r \in SocketStates
          PROVE  [r EXCEPT !.left = Sooner(@), !.timers = {Sooner(t) : t \in @}] \in SocketStates
      <4>1. r.left \in Life /\ r.timers \subseteq Life
        BY DEF SocketStates
      <4>2. Sooner(r.left) \in Life /\ {Sooner(t) : t \in r.timers} \in SUBSET Life
        BY <4>1, SoonerType
      <4>. QED BY <4>2 DEF SocketStates
    <3>4. sock' \in [Sockets -> SocketStates]
      BY <1>5, <3>2, <3>3 DEF Tick
    <3>5. \A s \in Sockets : sock'[s].state = sock[s].state /\ sock'[s].session = sock[s].session
      BY <3>1, <3>2 DEF SocketStates
    <3>. QED BY <3>4, <3>5, <1>a DEF SocksOK, IsOpen
  <2>2. ChecksOK'
    BY <1>5, <1>a, SoonerType DEF Tick, ChecksOK, CheckStates
  <2>3. PresenceOK'
    BY <1>5, <1>a, SoonerType DEF Tick, PresenceOK, OrNull
  <2>4. RowsOK'
    BY <1>5, <1>a, SoonerType DEF Tick, RowsOK, Ledger!LedgerTypeOK
  <2>5. SettingsOK'
    BY <1>5, <1>a, SoonerType DEF Tick, SettingsOK
  <2>. QED BY <1>5, <2>1, <2>2, <2>3, <2>4, <2>5, <1>f DEF Tick
<1>6. ASSUME Restart PROVE GatewayTypeOK'
  <2>1. SocksOK'
    BY <1>6, ConstantsOK DEF Restart, SocksOK, IsOpen, Closed
  <2>2. ChecksOK'
    BY <1>6, ConstantsOK DEF Restart, ChecksOK, Idle, Asking
  <2>3. PresenceOK'
    BY <1>6 DEF Restart, PresenceOK, OrNull, NoNews
  <2>4. RowsOK'
    BY <1>6, <1>a DEF Restart, RowsOK, Ledger!LedgerTypeOK
  <2>5. SweepOK'
    BY <1>6 DEF Restart, SweepOK, NoSweep
  <2>6. SettingsOK'
    BY <1>6, <1>a, LoadedType DEF Restart, SettingsOK
  <2>. QED BY <2>1, <2>2, <2>3, <2>4, <2>5, <2>6
<1>. QED BY <1>1, <1>2, <1>3, <1>4, <1>5, <1>6 DEF PlatformActs

LEMMA NextType == GatewayTypeOK /\ [Next]_vars => GatewayTypeOK'
<1>. SUFFICES ASSUME GatewayTypeOK, [Next]_vars PROVE GatewayTypeOK'
  OBVIOUS
<1>1. CASE Next
  BY <1>1, GatewayActsType, MembershipActsType, PlatformActsType DEF Next
<1>2. CASE UNCHANGED vars
  BY <1>2 DEF vars, Presence, Rows, GatewayTypeOK, IsOpen, Ledger!LedgerTypeOK
<1>. QED BY <1>1, <1>2

\* The gateway's state keeps its types, whatever runs out, is dropped or is lost with the process:
\* no timer or token goes below zero, no check loses the socket it is for.
THEOREM GatewayIsTyped == Spec => []GatewayTypeOK
<1>. QED BY InitType, NextType, PTL DEF Spec

-----------------------------------------------------------------------------
(* What a step may do to the sockets, and who is online.                   *)

LEMMA SocketSteps ==
  ASSUME GatewayTypeOK, [Next]_vars
  PROVE  \/ /\ UNCHANGED <<sock, listed, online, grace>>
            /\ UNCHANGED <<news, told>> \/ \E u \in Users, kind \in {"on", "off"} : Broadcast(u, kind)
         \/ \E D \in SUBSET Sockets, isGraced \in BOOLEAN : Disconnect(D, isGraced)
         \/ \E a \in Checks, s \in Sockets, f \in Sessions, left \in Life : Handshake(a, s, f, left)
         \/ \E a \in Checks : HandleConnection(a) \/ HandleReauth(a)
         \/ \E s \in Sockets : TokenExpires(s) /\ ~IsOpen(s)
         \/ \E u \in Users : GraceElapses(u)
         \/ Tick \/ Restart
<1>. DEFINE Drops == \E D \in SUBSET Sockets, isGraced \in BOOLEAN : Disconnect(D, isGraced)
            Keeps == /\ UNCHANGED <<sock, listed, online, grace>>
                     /\ UNCHANGED <<news, told>> \/ \E u \in Users, kind \in {"on", "off"} : Broadcast(u, kind)
<1>a. ChecksOK
  BY TypeParts
<1>1. CASE UNCHANGED vars
  BY <1>1 DEF vars, Presence
<1>2. CASE GatewayActs
  <2>1. ASSUME NEW a \in Checks, NEW s \in Sockets, NEW f \in Sessions, NEW left \in Life,
               Reauth(a, s, f, left)
        PROVE  Keeps
    BY <2>1 DEF Reauth, Presence
  <2>2. ASSUME NEW a \in Checks, SettingsRead(a) \/ SettingsReadFails(a) \/ AssertSessionLive(a)
        PROVE  Keeps
    BY <2>2 DEF SettingsRead, SettingsReadFails, AssertSessionLive, Presence
  <2>3. ASSUME NEW a \in Checks, Refuse(a) PROVE Drops
    BY <2>3, <1>a DEF Refuse, ChecksOK
  <2>4. ASSUME NEW s \in Sockets, ClientLeaves(s) \/ ReauthRefused(s) PROVE Drops
    BY <2>4 DEF ClientLeaves, ReauthRefused
  <2>9. ASSUME NEW s \in Sockets, TokenExpires(s), IsOpen(s) PROVE Drops
    BY <2>9 DEF TokenExpires
  <2>5. ASSUME NEW u \in Users, NEW kind \in {"on", "off"}, Broadcast(u, kind) PROVE Keeps
    BY <2>5 DEF Broadcast
  <2>. HIDE DEF Drops, Keeps
  <2>6. CASE \E a \in Checks :
               \/ \E s \in Sockets, f \in Sessions, left \in Life :
                     Handshake(a, s, f, left) \/ Reauth(a, s, f, left)
               \/ SettingsRead(a) \/ SettingsReadFails(a) \/ AssertSessionLive(a) \/ Refuse(a)
               \/ HandleConnection(a) \/ HandleReauth(a)
    <3>1. \/ Keeps \/ Drops
          \/ \E a \in Checks, s \in Sockets, f \in Sessions, left \in Life : Handshake(a, s, f, left)
          \/ \E a \in Checks : HandleConnection(a) \/ HandleReauth(a)
      BY <2>6, <2>1, <2>2, <2>3
    <3>. QED BY <3>1 DEF Drops, Keeps
  <2>7. CASE \E s \in Sockets : ClientLeaves(s) \/ ReauthRefused(s) \/ TokenExpires(s)
    <3>1. Drops \/ \E s \in Sockets : TokenExpires(s) /\ ~IsOpen(s)
      BY <2>7, <2>4, <2>9
    <3>. QED BY <3>1 DEF Drops
  <2>8. CASE \E u \in Users : GraceElapses(u) \/ \E kind \in {"on", "off"} : Broadcast(u, kind)
    <3>1. Keeps \/ \E u \in Users : GraceElapses(u)
      BY <2>8, <2>5
    <3>. QED BY <3>1 DEF Keeps
  <2>. QED BY <1>2, <2>6, <2>7, <2>8 DEF GatewayActs
<1>3. CASE MembershipActs
  <2>1. ASSUME NEW f \in Sessions, Mint(f) \/ RevokeSession(f) \/ ReplaceSession(f) \/ WindowCloses(f)
        PROVE  Keeps
    BY <2>1 DEF Mint, RevokeSession, End, ReplaceSession, WindowCloses, Presence
  <2>2. ASSUME NEW u \in Users, RevokeSome(u) PROVE Keeps
    BY <2>2 DEF RevokeSome, End, Presence
  <2>3. ASSUME NEW u \in Users, NEW on \in BOOLEAN, SetActive(u, on) PROVE Keeps
    BY <2>3 DEF SetActive, Presence
  <2>4. ASSUME NEW event \in emitted, HandleSessionRevoked(event) PROVE Drops
    <3>1. Reaches(event) \in SUBSET Sockets
      BY DEF Reaches, OpenOf
    <3>. QED BY <2>4, <3>1 DEF HandleSessionRevoked
  <2>. QED BY <1>3, <2>1, <2>2, <2>3, <2>4 DEF MembershipActs
<1>4. CASE PlatformActs
  <2>1. ASSUME NEW on \in BOOLEAN, SaveLockdown(on) PROVE Keeps
    BY <2>1 DEF SaveLockdown, Presence
  <2>2. ASSUME SettingsSaved PROVE Keeps \/ Drops
    BY <2>2 DEF SettingsSaved, Presence
  <2>3. ASSUME Revalidate PROVE Keeps
    BY <2>3 DEF Revalidate, Presence
  <2>4. ASSUME RevalidateDrops PROVE Drops
    <3>1. UNION {OpenOf(u) : u \in sweep.found} \in SUBSET Sockets
      BY DEF OpenOf
    <3>. QED BY <2>4, <3>1 DEF RevalidateDrops
  <2>. QED BY <1>4, <2>1, <2>2, <2>3, <2>4 DEF PlatformActs
<1>. QED BY <1>1, <1>2, <1>3, <1>4 DEF Next

\* A re-authentication in flight is of the member whose socket it is for; a socket that is still
\* connecting has none.
ReauthsAreOfTheMember ==
  \A a \in Checks : check[a].op = "reauth" =>
    /\ sock[check[a].sock].state # "connecting"
    /\ IsOpen(check[a].sock) => UserOf(check[a].sock) = Owner[check[a].session]

\* Dropping sockets, with the window or without, keeps the members online those with a socket
\* or a window.
LEMMA DisconnectKeepsPresence ==
  ASSUME GatewayTypeOK, PresenceIsTrue, NEW D \in SUBSET Sockets, NEW isGraced \in BOOLEAN,
         Disconnect(D, isGraced)
  PROVE  PresenceIsTrue'
<1> DEFINE opened == {s \in D : IsOpen(s)}
           us == {UserOf(s) : s \in opened}
           last == {u \in us \cap listed : online[u] \subseteq opened}
<1>1. \A s \in Sockets : sock'[s] = IF s \in D /\ sock[s].state # "closed" THEN Closed ELSE sock[s]
  BY DEF Disconnect
<1>2. \A u \in Users : OpenOf(u)' = OpenOf(u) \ D
  BY <1>1 DEF OpenOf, IsOpen, UserOf, Closed
<1>3. RemovePresence(opened, us, isGraced)
  BY DEF Disconnect
<1>4. \A u \in Users : online'[u] = IF u \in us THEN online[u] \ opened ELSE online[u]
  BY <1>3 DEF RemovePresence
<1>5. \A u \in Users : u \notin us <=> OpenOf(u) \cap D = {}
  BY DEF OpenOf
<1>6. \A u \in Users : OpenOf(u) \cap opened = OpenOf(u) \cap D
  BY DEF OpenOf
<1>7. IF isGraced
      THEN /\ \A u \in Users : grace'[u] = IF u \in last THEN PresenceGrace ELSE grace[u]
           /\ listed' = listed
      ELSE listed' = listed \ last /\ grace' = grace
  BY <1>3 DEF RemovePresence
<1>8. \A u \in us : u \in Users
  BY ConstantsOK, TypeParts DEF SocksOK, UserOf
<1>9. PresenceGrace # Null
  BY GatewayAssumption
<1> SUFFICES ASSUME NEW u \in Users
             PROVE  /\ online'[u] = OpenOf(u)'
                    /\ u \in listed' <=> OpenOf(u)' # {} \/ grace'[u] # Null
                    /\ grace'[u] # Null => OpenOf(u)' = {}
  BY DEF PresenceIsTrue
<1>10. /\ online[u] = OpenOf(u)
       /\ u \in listed <=> OpenOf(u) # {} \/ grace[u] # Null
       /\ grace[u] # Null => OpenOf(u) = {}
  BY DEF PresenceIsTrue
<1>11. u \in last <=> u \in us /\ u \in listed /\ OpenOf(u) \subseteq opened
  BY <1>10
<1>. HIDE DEF opened, us, last
<1>12. online'[u] = OpenOf(u)'
  BY <1>2, <1>4, <1>5, <1>6, <1>10
<1>13. CASE u \notin us
  <2>1. OpenOf(u)' = OpenOf(u) /\ u \notin last
    BY <1>13, <1>2, <1>5, <1>11
  <2>2. grace'[u] = grace[u] /\ (u \in listed' <=> u \in listed)
    BY <2>1, <1>7
  <2>. QED BY <2>1, <2>2, <1>10, <1>12
<1>14. CASE u \in us
  <2>1. OpenOf(u) # {} /\ grace[u] = Null /\ u \in listed
    BY <1>14, <1>5, <1>10
  <2>2. u \in last <=> OpenOf(u)' = {}
    BY <1>14, <2>1, <1>2, <1>6, <1>11
  <2>3. CASE isGraced
    BY <2>1, <2>2, <2>3, <1>7, <1>9, <1>12
  <2>4. CASE ~isGraced
    BY <2>1, <2>2, <2>4, <1>7, <1>12
  <2>. QED BY <2>3, <2>4
<1>. QED BY <1>13, <1>14

LEMMA PresenceStep ==
  ASSUME GatewayTypeOK, PresenceIsTrue, ReauthsAreOfTheMember, [Next]_vars
  PROVE  PresenceIsTrue'
<1>. USE DEF PresenceIsTrue
<1>a. SocksOK /\ ChecksOK /\ PresenceOK
  BY TypeParts
<1>1. CASE UNCHANGED <<sock, listed, online, grace>>
  BY <1>1 DEF OpenOf, IsOpen, UserOf
<1>2. ASSUME NEW D \in SUBSET Sockets, NEW isGraced \in BOOLEAN, Disconnect(D, isGraced)
      PROVE  PresenceIsTrue'
  BY <1>2, DisconnectKeepsPresence
<1>3. ASSUME NEW a \in Checks, NEW s \in Sockets, NEW f \in Sessions, NEW left \in Life,
             Handshake(a, s, f, left)
      PROVE  PresenceIsTrue'
  <2>1. sock[s].state = "closed" /\ sock' = [sock EXCEPT ![s].state = "connecting"]
        /\ UNCHANGED <<listed, online, grace>>
    BY <1>3 DEF Handshake, IsUnused, Presence
  <2>2. \A u \in Users : OpenOf(u)' = OpenOf(u)
    BY <2>1, <1>a DEF SocksOK, SocketStates, OpenOf, IsOpen, UserOf
  <2>. QED BY <2>1, <2>2
<1>4. ASSUME NEW a \in Checks, HandleConnection(a) PROVE PresenceIsTrue'
  <2> DEFINE s == check[a].sock
             v == Owner[check[a].session]
  <2>1. s \in Sockets /\ v \in Users
    BY <1>4, <1>a, ConstantsOK DEF HandleConnection, ChecksOK
  <2>2. CASE ~IsThere(s)
    BY <1>4, <2>2 DEF HandleConnection, Presence, OpenOf, IsOpen, UserOf
  <2>3. CASE IsThere(s) /\ check[a].left = 0
    <3>1. sock' = [sock EXCEPT ![s] = Closed] /\ RemovePresence({s}, {v}, TRUE)
      BY <1>4, <2>3 DEF HandleConnection
    <3>2. \A u \in Users : OpenOf(u)' = OpenOf(u) /\ s \notin OpenOf(u)
      BY <3>1, <2>1, <2>3, <1>a DEF SocksOK, OpenOf, IsOpen, UserOf, IsThere, Closed
    <3>3. /\ listed' = listed
          /\ \A u \in Users :
               /\ online'[u] = IF u = v THEN online[u] \ {s} ELSE online[u]
               /\ grace'[u] = IF u = v /\ u \in listed /\ online[u] \subseteq {s}
                             THEN PresenceGrace ELSE grace[u]
      BY <3>1 DEF RemovePresence
    <3>4. PresenceGrace # Null
      BY GatewayAssumption
    <3>. HIDE DEF s, v
    <3>. QED BY <3>2, <3>3, <3>4
  <2>4. CASE IsThere(s) /\ check[a].left # 0
    <3>1. sock' = [sock EXCEPT ![s] = Opened(a)] /\ AddPresence(v, s)
      BY <1>4, <2>4 DEF HandleConnection
    <3>2. sock[s].state = "connecting"
      BY <2>4 DEF IsThere
    <3>3. sock'[s].state = "open" /\ sock'[s].session = check[a].session
      BY <3>1, <3>2, <2>1, <1>a DEF Opened, SocksOK
    <3>4. \A u \in Users : OpenOf(u)' = IF u = v THEN OpenOf(u) \cup {s} ELSE OpenOf(u)
      <4>1. \A r \in Sockets \ {s} : sock'[r] = sock[r]
        BY <3>1, <2>1, <1>a DEF SocksOK
      <4>. QED BY <3>2, <3>3, <4>1, <2>1 DEF OpenOf, IsOpen, UserOf
    <3>5. /\ listed' = listed \cup {v}
          /\ \A u \in Users :
               /\ online'[u] = IF u = v THEN online[u] \cup {s} ELSE online[u]
               /\ grace'[u] = IF u = v THEN Null ELSE grace[u]
      BY <3>1, <2>1, <1>a DEF AddPresence, PresenceOK
    <3>. HIDE DEF s, v
    <3>. QED BY <3>4, <3>5
  <2>. QED BY <2>2, <2>3, <2>4
<1>5. ASSUME NEW a \in Checks, HandleReauth(a) PROVE PresenceIsTrue'
  <2> DEFINE s == check[a].sock
             left == check[a].left
  <2>1. s \in Sockets
    BY <1>5, <1>a DEF HandleReauth, ChecksOK
  <2>2. CASE left = 0 /\ IsOpen(s)
    BY <1>5, <2>1, <2>2, DisconnectKeepsPresence DEF HandleReauth
  <2>3. CASE ~(left = 0 /\ IsOpen(s))
    <3>1. UNCHANGED <<listed, online, grace>>
      BY <1>5, <2>3 DEF HandleReauth, Presence
    <3>2. /\ \A r \in Sockets : sock'[r].state = sock[r].state
          /\ \A r \in Sockets \ {s} : sock'[r].session = sock[r].session
          /\ IsOpen(s) => sock'[s].session = check[a].session
      <4>1. CASE left = 0
        BY <1>5, <2>1, <2>3, <4>1, <1>a DEF HandleReauth, SocksOK, SocketStates
      <4>2. CASE left # 0
        BY <1>5, <2>1, <4>2, <1>a DEF HandleReauth, SocksOK, SocketStates
      <4>. QED BY <4>1, <4>2
    <3>3. IsOpen(s) => UserOf(s) = Owner[check[a].session]
      BY <1>5 DEF HandleReauth, ReauthsAreOfTheMember
    <3>4. \A u \in Users : OpenOf(u)' = OpenOf(u)
      BY <3>2, <3>3 DEF OpenOf, IsOpen, UserOf
    <3>. QED BY <3>1, <3>4
  <2>. QED BY <2>2, <2>3
<1>6. ASSUME NEW s \in Sockets, TokenExpires(s), ~IsOpen(s) PROVE PresenceIsTrue'
  <2>1. sock' = [sock EXCEPT ![s].timers = @ \ {0}] /\ UNCHANGED <<listed, online, grace>>
    BY <1>6 DEF TokenExpires, Presence
  <2>2. \A u \in Users : OpenOf(u)' = OpenOf(u)
    BY <2>1, <1>a DEF SocksOK, SocketStates, OpenOf, IsOpen, UserOf
  <2>. QED BY <2>1, <2>2
<1>7. ASSUME NEW u \in Users, GraceElapses(u) PROVE PresenceIsTrue'
  <2>1. \A v \in Users : OpenOf(v)' = OpenOf(v)
    BY <1>7 DEF GraceElapses, OpenOf, IsOpen, UserOf
  <2>2. online' = online /\ grace[u] # Null /\ OpenOf(u) = {}
    BY <1>7, GatewayAssumption DEF GraceElapses
  <2>3. grace' = [grace EXCEPT ![u] = Null] /\ listed' = listed \ {u}
    BY <1>7, <2>2 DEF GraceElapses
  <2>. QED BY <2>1, <2>2, <2>3, <1>a DEF PresenceOK
<1>8. CASE Tick
  <2>1. listed' = listed /\ online' = online
    BY <1>8 DEF Tick
  <2>2. \A u \in Users : grace'[u] = Null <=> grace[u] = Null
    <3>1. \A n \in 0..PresenceGrace : Sooner(n) # Null
      BY SoonerType, GatewayAssumption
    <3>2. \A u \in Users : grace[u] = Null \/ grace[u] \in 0..PresenceGrace
      BY <1>a DEF PresenceOK, OrNull
    <3>3. \A u \in Users : grace'[u] = IF grace[u] = Null THEN Null ELSE Sooner(grace[u])
      BY <1>8 DEF Tick
    <3>. QED BY <3>1, <3>2, <3>3
  <2>3. \A s \in Sockets : sock'[s].state = sock[s].state /\ sock'[s].session = sock[s].session
    BY <1>8, <1>a DEF Tick, SocksOK, SocketStates
  <2>4. \A u \in Users : OpenOf(u)' = OpenOf(u)
    BY <2>3 DEF OpenOf, IsOpen, UserOf
  <2>. QED BY <2>1, <2>2, <2>4
<1>9. CASE Restart
  <2>1. \A u \in Users : OpenOf(u)' = {}
    BY <1>9 DEF Restart, OpenOf, IsOpen, Closed
  <2>. QED BY <1>9, <2>1 DEF Restart
<1>. QED BY <1>1, <1>2, <1>3, <1>4, <1>5, <1>6, <1>7, <1>8, <1>9, SocketSteps

\* What a step leaves of a check that is for re-authentication: it was there before, unless it
\* has just begun for a socket of the member.
LEMMA ReauthsGoOn ==
  ASSUME GatewayTypeOK, [Next]_vars, NEW a \in Checks, check'[a].op = "reauth"
  PROVE  \/ /\ check[a].op = "reauth" /\ check'[a].sock = check[a].sock
            /\ check'[a].session = check[a].session
         \/ /\ UNCHANGED sock
            /\ IsOpen(check'[a].sock)
            /\ UserOf(check'[a].sock) = Owner[check'[a].session]
<1>. DEFINE GoesOn == /\ check[a].op = "reauth" /\ check'[a].sock = check[a].sock
                      /\ check'[a].session = check[a].session
            Begins == /\ UNCHANGED sock
                      /\ IsOpen(check'[a].sock)
                      /\ UserOf(check'[a].sock) = Owner[check'[a].session]
<1>a. /\ check \in [Checks -> CheckStates]
      /\ \A b \in Checks : check[b].op = "reauth" => check[b].sock \in Sockets
  BY TypeParts DEF ChecksOK
<1>b. ASSUME NEW b \in Checks, check' = [check EXCEPT ![b] = Idle] PROVE GoesOn
  BY <1>b, <1>a DEF Idle, Asking
<1>c. ASSUME NEW b \in Checks, NEW op \in {"connect", "reauth"}, NEW s \in Sockets,
             NEW f \in Sessions, NEW left \in Life, StartCheck(b, op, s, f, left)
      PROVE  \/ a # b /\ GoesOn
             \/ a = b /\ check'[a].op = op /\ check'[a].sock = s /\ check'[a].session = f
  <2>1. CASE a = b
    <3>1. \/ check'[a] = [Asking(op, s, f, left) EXCEPT !.at = "session",
                                                        !.missed = IsStale(settings.cached)]
          \/ check'[a] = [Asking(op, s, f, left) EXCEPT !.seen = settings.locked]
      BY <1>c, <2>1, <1>a DEF StartCheck
    <3>. QED BY <3>1, <2>1 DEF Asking
  <2>2. CASE a # b
    <3>1. check'[a] = check[a]
      BY <1>c, <2>2, <1>a DEF StartCheck
    <3>. QED BY <3>1, <2>2
  <2>. QED BY <2>1, <2>2
<1>d. ASSUME check' = check PROVE GoesOn
  BY <1>d
<1>1. CASE UNCHANGED vars
  BY <1>1, <1>d DEF vars
<1>2. CASE GatewayActs
  <2>1. ASSUME NEW b \in Checks, NEW s \in Sockets, NEW f \in Sessions, NEW left \in Life,
               Handshake(b, s, f, left)
        PROVE  GoesOn
    BY <2>1, <1>c DEF Handshake
  <2>2. ASSUME NEW b \in Checks, NEW s \in Sockets, NEW f \in Sessions, NEW left \in Life,
               Reauth(b, s, f, left)
        PROVE  GoesOn \/ Begins
    BY <2>2, <1>c DEF Reauth
  <2>3. ASSUME NEW b \in Checks, SettingsRead(b) \/ SettingsReadFails(b) \/ AssertSessionLive(b)
        PROVE  GoesOn
    BY <2>3, <1>a DEF SettingsRead, SettingsReadFails, AssertSessionLive, CheckStates
  <2>4. ASSUME NEW b \in Checks, Refuse(b) \/ HandleConnection(b) \/ HandleReauth(b) PROVE GoesOn
    BY <2>4, <1>b DEF Refuse, HandleConnection, HandleReauth
  <2>5. ASSUME NEW s \in Sockets, ClientLeaves(s) \/ ReauthRefused(s) \/ TokenExpires(s) PROVE GoesOn
    BY <2>5, <1>d DEF ClientLeaves, ReauthRefused, TokenExpires
  <2>6. ASSUME NEW u \in Users, GraceElapses(u) PROVE GoesOn
    BY <2>6, <1>d DEF GraceElapses
  <2>7. ASSUME NEW u \in Users, NEW kind \in {"on", "off"}, Broadcast(u, kind) PROVE GoesOn
    BY <2>7, <1>d DEF Broadcast
  <2>. HIDE DEF GoesOn, Begins
  <2>8. GoesOn \/ Begins
    BY <1>2, <2>1, <2>2, <2>3, <2>4, <2>5, <2>6, <2>7 DEF GatewayActs
  <2>. QED BY <2>8 DEF GoesOn, Begins
<1>3. CASE MembershipActs
  <2>1. CASE UNCHANGED check
    BY <2>1, <1>d
  <2>2. ASSUME NEW event \in emitted, HandleSessionRevoked(event) PROVE GoesOn
    BY <2>2, <1>a DEF HandleSessionRevoked, CheckStates
  <2>3. UNCHANGED check \/ \E event \in emitted : HandleSessionRevoked(event)
    BY <1>3 DEF MembershipActs, Mint, RevokeSession, RevokeSome, End, ReplaceSession,
                WindowCloses, SetActive
  <2>. QED BY <2>1, <2>2, <2>3
<1>4. CASE PlatformActs
  <2>1. CASE Tick
    BY <2>1, <1>a DEF Tick, CheckStates
  <2>2. CASE Restart
    BY <2>2 DEF Restart, Idle, Asking
  <2>3. UNCHANGED check \/ Tick \/ Restart
    BY <1>4 DEF PlatformActs, SaveLockdown, SettingsSaved, Revalidate, RevalidateDrops
  <2>. QED BY <2>1, <2>2, <2>3, <1>d
<1>. QED BY <1>1, <1>2, <1>3, <1>4 DEF Next

LEMMA ReauthsStep ==
  ASSUME GatewayTypeOK, ReauthsAreOfTheMember, [Next]_vars
  PROVE  ReauthsAreOfTheMember'
<1>a. SocksOK /\ ChecksOK
  BY TypeParts
<1>. SUFFICES ASSUME NEW a \in Checks, check'[a].op = "reauth"
              PROVE  /\ sock'[check'[a].sock].state # "connecting"
                     /\ IsOpen(check[a].sock)' => UserOf(check[a].sock)' = Owner[check'[a].session]
  BY DEF ReauthsAreOfTheMember
<1>1. CASE /\ UNCHANGED sock
           /\ IsOpen(check'[a].sock)
           /\ UserOf(check'[a].sock) = Owner[check'[a].session]
  BY <1>1 DEF IsOpen, UserOf
<1>2. CASE /\ check[a].op = "reauth" /\ check'[a].sock = check[a].sock
           /\ check'[a].session = check[a].session
  <2>. PICK s \in Sockets : s = check[a].sock
    BY <1>2, <1>a DEF ChecksOK
  <2>1. /\ s \in Sockets /\ sock[s].state # "connecting"
        /\ IsOpen(s) => UserOf(s) = Owner[check[a].session]
    BY <1>2, <1>a DEF ReauthsAreOfTheMember, ChecksOK
  <2> SUFFICES \/ sock'[s].state = "closed"
               \/ sock'[s].state = sock[s].state /\ (IsOpen(s) => UserOf(s)' = UserOf(s))
    BY <1>2, <2>1 DEF IsOpen, UserOf
  <2>2. CASE UNCHANGED <<sock, listed, online, grace>>
    BY <2>2 DEF UserOf
  <2>3. ASSUME NEW D \in SUBSET Sockets, NEW isGraced \in BOOLEAN, Disconnect(D, isGraced)
        PROVE  sock'[s].state = "closed" \/ sock'[s] = sock[s]
    BY <2>3, <2>1 DEF Disconnect, Closed
  <2>4. ASSUME NEW b \in Checks, NEW r \in Sockets, NEW f \in Sessions, NEW left \in Life,
               Handshake(b, r, f, left)
        PROVE  sock'[s] = sock[s]
    <3>1. r # s
      BY <2>4 DEF Handshake, IsUnused
    <3>. QED BY <2>4, <3>1, <2>1, <1>a DEF Handshake, SocksOK
  <2>5. ASSUME NEW b \in Checks, HandleConnection(b)
        PROVE  sock'[s] = sock[s]
    <3>1. check[b].sock # s \/ ~IsThere(check[b].sock)
      BY <2>1 DEF IsThere
    <3>. QED BY <2>5, <3>1, <2>1, <1>a DEF HandleConnection, SocksOK
  <2>6. ASSUME NEW b \in Checks, HandleReauth(b)
        PROVE  \/ sock'[s].state = "closed"
               \/ sock'[s].state = sock[s].state /\ (IsOpen(s) => UserOf(s)' = UserOf(s))
    <3>1. CASE check[b].sock # s
      <4>1. sock'[s].state = "closed" \/ sock'[s] = sock[s]
        BY <2>6, <3>1, <2>1, <1>a DEF HandleReauth, SocksOK, Disconnect, Closed
      <4>. QED BY <4>1 DEF UserOf
    <3>2. CASE check[b].sock = s
      <4>1. IsOpen(s) => UserOf(s) = Owner[check[b].session]
        BY <2>6, <3>2 DEF HandleReauth, ReauthsAreOfTheMember
      <4>2. CASE check[b].left = 0 /\ IsOpen(s)
        BY <2>6, <3>2, <4>2, <2>1 DEF HandleReauth, Disconnect, Closed
      <4>3. CASE ~(check[b].left = 0 /\ IsOpen(s))
        <5>1. sock'[s].state = sock[s].state /\ (IsOpen(s) => sock'[s].session = check[b].session)
          <6>1. CASE check[b].left = 0
            BY <2>6, <3>2, <4>3, <6>1, <2>1, <1>a DEF HandleReauth, SocksOK, SocketStates
          <6>2. CASE check[b].left # 0
            BY <2>6, <3>2, <6>2, <2>1, <1>a DEF HandleReauth, SocksOK, SocketStates
          <6>. QED BY <6>1, <6>2
        <5>. QED BY <5>1, <4>1 DEF UserOf
      <4>. QED BY <4>2, <4>3
    <3>. QED BY <3>1, <3>2
  <2>7. ASSUME NEW r \in Sockets, TokenExpires(r), ~IsOpen(r)
        PROVE  sock'[s].state = sock[s].state /\ sock'[s].session = sock[s].session
    BY <2>7, <2>1, <1>a DEF TokenExpires, SocksOK, SocketStates
  <2>8. ASSUME NEW u \in Users, GraceElapses(u) PROVE sock'[s] = sock[s]
    BY <2>8 DEF GraceElapses
  <2>9. CASE Tick
    <3>1. sock'[s].state = sock[s].state /\ sock'[s].session = sock[s].session
      BY <2>9, <2>1, <1>a DEF Tick, SocksOK, SocketStates
    <3>. QED BY <3>1 DEF UserOf
  <2>10. CASE Restart
    BY <2>10, <2>1 DEF Restart, Closed
  <2>. QED BY <2>2, <2>3, <2>4, <2>5, <2>6, <2>7, <2>8, <2>9, <2>10, SocketSteps DEF UserOf
<1>. QED BY <1>1, <1>2, ReauthsGoOn

\* Who is online is who has an open socket or the window after the last one, for any number of
\* sockets, handshakes in flight and members.
THEOREM PresenceStaysTrue == Spec => []PresenceIsTrue
<1>1. Init => PresenceIsTrue /\ ReauthsAreOfTheMember
  BY DEF Init, PresenceIsTrue, ReauthsAreOfTheMember, OpenOf, IsOpen, Closed, Idle, Asking
<1>2. GatewayTypeOK /\ PresenceIsTrue /\ ReauthsAreOfTheMember /\ [Next]_vars
      => PresenceIsTrue' /\ ReauthsAreOfTheMember'
  BY PresenceStep, ReauthsStep
<1>. QED BY <1>1, <1>2, GatewayIsTyped, PTL DEF Spec

-----------------------------------------------------------------------------
(* What is broadcast about a member, and who is online.                    *)

\* A member stays as they are, comes or goes with a broadcast about it, has one told, or is
\* forgotten in a restart.
Stays(u)     == (u \in listed' <=> u \in listed) /\ news'[u] = news[u] /\ told'[u] = told[u]
Comes(u)     == u \in listed' /\ news'[u] = Announce(u, "on") /\ told'[u] = told[u]
Goes(u)      == u \notin listed' /\ news'[u] = Announce(u, "off") /\ told'[u] = told[u]
IsTold(u, kind) ==
  /\ u \in listed' <=> u \in listed
  /\ news[u][kind] > 0 /\ news'[u] = [news[u] EXCEPT ![kind] = @ - 1] /\ (told'[u] <=> kind = "on")
IsForgotten(u) == u \notin listed' /\ news'[u] = NoNews /\ ~told'[u]

LEMMA RemovalIsReported ==
  ASSUME GatewayTypeOK, NEW D, NEW us, NEW isGraced \in BOOLEAN, RemovePresence(D, us, isGraced),
         NEW u \in Users
  PROVE  Stays(u) \/ Goes(u)
<1> DEFINE last == {v \in us \cap listed : online[v] \subseteq D}
<1>1. told' = told
  BY DEF RemovePresence
<1>2. CASE isGraced
  BY <1>1, <1>2 DEF RemovePresence, Stays
<1>3. CASE ~isGraced
  <2>1. listed' = listed \ last /\ news'[u] = IF u \in last THEN Announce(u, "off") ELSE news[u]
    BY <1>3 DEF RemovePresence
  <2>. HIDE DEF last
  <2>. QED BY <1>1, <2>1 DEF Stays, Goes
<1>. QED BY <1>2, <1>3

LEMMA NewsSteps ==
  ASSUME GatewayTypeOK, [Next]_vars, NEW u \in Users
  PROVE  Stays(u) \/ Comes(u) \/ Goes(u) \/ IsForgotten(u) \/ \E kind \in {"on", "off"} : IsTold(u, kind)
<1>a. ChecksOK /\ PresenceOK
  BY TypeParts
<1>1. CASE UNCHANGED <<sock, listed, online, grace, news, told>>
  BY <1>1 DEF Stays
<1>2. ASSUME NEW v \in Users, NEW kind \in {"on", "off"}, Broadcast(v, kind)
      PROVE  Stays(u) \/ IsTold(u, kind)
  <2>1. listed' = listed /\ news[v][kind] > 0
        /\ news' = [news EXCEPT ![v] = [news[v] EXCEPT ![kind] = @ - 1]]
        /\ told' = [told EXCEPT ![v] = (kind = "on")]
    BY <1>2, <1>a DEF Broadcast, PresenceOK
  <2>2. CASE u = v
    <3>1. told'[u] <=> kind = "on"
      BY <2>1, <2>2, <1>a DEF PresenceOK
    <3>. QED BY <2>1, <2>2, <3>1, <1>a DEF IsTold, PresenceOK
  <2>3. CASE u # v
    <3>1. told'[u] = told[u]
      BY <2>1, <2>3, <1>a DEF PresenceOK
    <3>. QED BY <2>1, <2>3, <3>1, <1>a DEF Stays, PresenceOK
  <2>. QED BY <2>2, <2>3
<1>3. ASSUME NEW D \in SUBSET Sockets, NEW isGraced \in BOOLEAN, Disconnect(D, isGraced)
      PROVE  Stays(u) \/ Goes(u)
  BY <1>3, RemovalIsReported DEF Disconnect
<1>4. ASSUME NEW a \in Checks, NEW s \in Sockets, NEW f \in Sessions, NEW left \in Life,
             Handshake(a, s, f, left)
      PROVE  Stays(u)
  BY <1>4 DEF Handshake, Presence, Stays
<1>5. ASSUME NEW a \in Checks, HandleConnection(a) PROVE Stays(u) \/ Comes(u) \/ Goes(u)
  <2> DEFINE s == check[a].sock
             v == Owner[check[a].session]
  <2>1. v \in Users
    BY <1>5, <1>a, ConstantsOK DEF HandleConnection, ChecksOK
  <2>2. CASE ~IsThere(s)
    BY <1>5, <2>2 DEF HandleConnection, Presence, Stays
  <2>3. CASE IsThere(s) /\ check[a].left = 0
    BY <1>5, <2>3, RemovalIsReported DEF HandleConnection
  <2>4. CASE IsThere(s) /\ check[a].left # 0
    <3>1. AddPresence(v, s)
      BY <1>5, <2>4 DEF HandleConnection
    <3>. HIDE DEF s, v
    <3>2. told' = told /\ listed' = listed \cup {v}
          /\ news' = IF v \notin listed THEN [news EXCEPT ![v] = Announce(v, "on")] ELSE news
      BY <3>1 DEF AddPresence
    <3>3. CASE u = v /\ v \notin listed
      BY <3>2, <3>3, <1>a DEF Comes, PresenceOK
    <3>4. CASE ~(u = v /\ v \notin listed)
      BY <3>2, <3>4, <2>1, <1>a DEF Stays, PresenceOK
    <3>. QED BY <3>3, <3>4
  <2>. QED BY <2>2, <2>3, <2>4
<1>6. ASSUME NEW a \in Checks, HandleReauth(a) PROVE Stays(u) \/ Goes(u)
  <2>1. check[a].sock \in Sockets
    BY <1>6, <1>a DEF HandleReauth, ChecksOK
  <2>2. UNCHANGED Presence \/ Disconnect({check[a].sock}, TRUE)
    BY <1>6 DEF HandleReauth
  <2>. QED BY <2>1, <2>2, <1>3 DEF Presence, Stays
<1>7. ASSUME NEW s \in Sockets, TokenExpires(s), ~IsOpen(s) PROVE Stays(u)
  BY <1>7 DEF TokenExpires, Presence, Stays
<1>8. ASSUME NEW v \in Users, GraceElapses(v) PROVE Stays(u) \/ Goes(u)
  <2>1. CASE online[v] # {}
    BY <1>8, <2>1 DEF GraceElapses, Stays
  <2>2. CASE online[v] = {}
    <3>1. told' = told /\ listed' = listed \ {v} /\ news' = [news EXCEPT ![v] = Announce(v, "off")]
      BY <1>8, <2>2 DEF GraceElapses
    <3>. QED BY <3>1, <1>a DEF Stays, Goes, PresenceOK
  <2>. QED BY <2>1, <2>2
<1>9. CASE Tick
  BY <1>9 DEF Tick, Stays
<1>10. CASE Restart
  BY <1>10 DEF Restart, IsForgotten
<1>. QED BY <1>1, <1>2, <1>3, <1>4, <1>5, <1>6, <1>7, <1>8, <1>9, <1>10, SocketSteps

\* One broadcast at a time says what is so.
ReportInv ==
  \A u \in Followed : ~news[u].crowded =>
    \/ news[u].on = 0 /\ news[u].off = 0 /\ (told[u] <=> u \in listed)
    \/ news[u].on = 1 /\ news[u].off = 0 /\ u \in listed
    \/ news[u].on = 0 /\ news[u].off = 1 /\ u \notin listed

LEMMA Announced ==
  ASSUME GatewayTypeOK, NEW u \in Followed, NEW kind \in {"on", "off"},
         ~Announce(u, kind).crowded
  PROVE  /\ kind = "on"  => Announce(u, kind).on = 1 /\ Announce(u, kind).off = 0
         /\ kind = "off" => Announce(u, kind).on = 0 /\ Announce(u, kind).off = 1
<1>1. news[u] \in [on : Nat, off : Nat, crowded : BOOLEAN]
  BY TypeParts, GatewayAssumption DEF PresenceOK
<1>2. Announce(u, kind).crowded = ~IsQuiet(u)
  BY <1>1 DEF Announce, OneMore
<1>3. news[u].on = 0 /\ news[u].off = 0
  <2>1. IsQuiet(u)
    BY <1>2, Zenon
  <2>. QED BY <1>1, <2>1 DEF IsQuiet
<1>4. CASE kind = "on"
  BY <1>1, <1>3, <1>4 DEF Announce, OneMore
<1>5. CASE kind = "off"
  BY <1>1, <1>3, <1>5 DEF Announce, OneMore
<1>. QED BY <1>4, <1>5

LEMMA ReportStep == GatewayTypeOK /\ ReportInv /\ [Next]_vars => ReportInv'
<1> SUFFICES ASSUME GatewayTypeOK, ReportInv, [Next]_vars, NEW u \in Followed, ~news'[u].crowded
             PROVE  \/ news'[u].on = 0 /\ news'[u].off = 0 /\ (told'[u] <=> u \in listed')
                    \/ news'[u].on = 1 /\ news'[u].off = 0 /\ u \in listed'
                    \/ news'[u].on = 0 /\ news'[u].off = 1 /\ u \notin listed'
  BY DEF ReportInv
<1>1. u \in Users /\ news[u] \in [on : Nat, off : Nat, crowded : BOOLEAN]
  BY TypeParts, GatewayAssumption DEF PresenceOK
<1>2. CASE Stays(u)
  BY <1>2 DEF Stays, ReportInv
<1>3. CASE Comes(u)
  BY <1>3, Announced DEF Comes
<1>4. CASE Goes(u)
  BY <1>4, Announced DEF Goes
<1>5. CASE IsForgotten(u)
  BY <1>5 DEF IsForgotten, NoNews
<1>6. CASE IsTold(u, "on")
  BY <1>1, <1>6 DEF IsTold, ReportInv
<1>7. CASE IsTold(u, "off")
  BY <1>1, <1>7 DEF IsTold, ReportInv
<1>. QED BY <1>1, <1>2, <1>3, <1>4, <1>5, <1>6, <1>7, NewsSteps

\* Whoever is followed is reported as they are, unless two broadcasts about them overlapped.
THEOREM PresenceGetsReported == Spec => []PresenceIsReported
<1>1. Init => ReportInv
  BY GatewayAssumption DEF Init, ReportInv, NoNews
<1>2. GatewayTypeOK /\ ReportInv => PresenceIsReported
  BY TypeParts, GatewayAssumption DEF ReportInv, PresenceIsReported, IsQuiet, PresenceOK
<1>. QED BY <1>1, <1>2, ReportStep, GatewayIsTyped, PTL DEF Spec

-----------------------------------------------------------------------------
\* Dropping sockets only closes them.
LEMMA DisconnectCloses ==
  ASSUME NEW D \in SUBSET Sockets, NEW isGraced \in BOOLEAN, Disconnect(D, isGraced)
  PROVE  \A s \in Sockets : sock'[s].state = "open" => sock'[s] = sock[s] /\ s \notin D
<1>1. \A s \in Sockets : sock'[s] = IF s \in D /\ sock[s].state # "closed" THEN Closed ELSE sock[s]
  BY DEF Disconnect
<1>. QED BY <1>1 DEF Closed, IsOpen

LEMMA OneTimerStep ==
  ASSUME GatewayTypeOK, OneTimerForItsToken, [Next]_vars
  PROVE  OneTimerForItsToken'
<1>a. SocksOK /\ ChecksOK
  BY TypeParts
<1>. SUFFICES ASSUME NEW s \in Sockets, sock'[s].state = "open"
              PROVE  sock'[s].timers = {sock'[s].left}
  BY DEF OneTimerForItsToken, IsOpen
<1>b. sock[s] \in SocketStates /\ (IsOpen(s) => sock[s].timers = {sock[s].left})
  BY <1>a DEF SocksOK, OneTimerForItsToken
<1>c. CASE sock'[s] = sock[s]
  BY <1>b, <1>c DEF IsOpen
<1>1. ASSUME NEW D \in SUBSET Sockets, NEW isGraced \in BOOLEAN, Disconnect(D, isGraced)
      PROVE  sock'[s] = sock[s]
  BY <1>1, DisconnectCloses
<1>2. ASSUME NEW a \in Checks, NEW r \in Sockets, NEW f \in Sessions, NEW left \in Life,
             Handshake(a, r, f, left)
      PROVE  sock'[s] = sock[s]
  BY <1>2, <1>b, <1>a DEF Handshake, SocksOK, SocketStates
<1>3. ASSUME NEW a \in Checks, HandleConnection(a)
      PROVE  sock'[s] = sock[s] \/ sock'[s].timers = {sock'[s].left}
  <2>1. sock'[s] = sock[s] \/ sock'[s] = Closed \/ sock'[s] = Opened(a)
    BY <1>3, <1>a DEF HandleConnection, SocksOK
  <2>. QED BY <2>1 DEF Closed, Opened
<1>4. ASSUME NEW a \in Checks, HandleReauth(a)
      PROVE  sock'[s] = sock[s] \/ sock'[s].timers = {sock'[s].left}
  <2>1. CASE check[a].left = 0 /\ IsOpen(check[a].sock)
    <3>1. check[a].sock \in Sockets
      BY <1>4, <1>a DEF HandleReauth, ChecksOK
    <3>. QED BY <1>4, <2>1, <3>1, DisconnectCloses DEF HandleReauth
  <2>2. CASE check[a].left = 0 /\ ~IsOpen(check[a].sock)
    BY <1>4, <2>2, <1>a, <1>b DEF HandleReauth, SocksOK, SocketStates, IsOpen
  <2>3. CASE check[a].left # 0
    <3>1. CASE check[a].sock = s
      <4>1. /\ sock'[s].state = sock[s].state /\ sock'[s].timers = {check[a].left}
            /\ sock'[s].left = IF IsOpen(s) THEN check[a].left ELSE sock[s].left
        BY <1>4, <2>3, <3>1, <1>a, <1>b DEF HandleReauth, Rearmed, SocksOK, SocketStates
      <4>. QED BY <4>1 DEF IsOpen
    <3>2. CASE check[a].sock # s
      BY <1>4, <2>3, <3>2, <1>a DEF HandleReauth, SocksOK
    <3>. QED BY <3>1, <3>2
  <2>. QED BY <2>1, <2>2, <2>3
<1>5. ASSUME NEW r \in Sockets, TokenExpires(r), ~IsOpen(r) PROVE sock'[s] = sock[s]
  BY <1>5, <1>a, <1>b DEF TokenExpires, SocksOK, SocketStates, IsOpen
<1>6. CASE Tick
  <2>1. sock'[s] = [sock[s] EXCEPT !.left = Sooner(@), !.timers = {Sooner(t) : t \in @}]
    BY <1>6 DEF Tick
  <2>. QED BY <2>1, <1>b DEF SocketStates, IsOpen
<1>7. CASE Restart
  BY <1>7 DEF Restart, Closed
<1>8. ASSUME NEW u \in Users, GraceElapses(u) PROVE sock'[s] = sock[s]
  BY <1>8 DEF GraceElapses
<1>. QED BY <1>c, <1>1, <1>2, <1>3, <1>4, <1>5, <1>6, <1>7, <1>8, SocketSteps

\* No renewal, whatever it races with, leaves an open socket with a timer that is not of the
\* credential it holds, or with none.
THEOREM TimersFollowTokens == Spec => []OneTimerForItsToken
<1>1. Init => OneTimerForItsToken
  BY DEF Init, OneTimerForItsToken, IsOpen, Closed
<1>2. GatewayTypeOK /\ OneTimerForItsToken /\ [Next]_vars => OneTimerForItsToken'
  BY OneTimerStep
<1>. QED BY <1>1, <1>2, GatewayIsTyped, PTL DEF Spec

-----------------------------------------------------------------------------
(* The ends that reach every socket.                                       *)

Covered(f) ==
  \/ phase[f] = "live" \/ f \in replaced
  \/ \E event \in emitted : f \in EndedBy(event)

Allowed(f) == settings.locked => Owner[f] \in Staff \/ settings.saving = "lock"

SavingIsOfTheRow ==
  /\ settings.saving = "lock" => settings.locked
  /\ settings.saving = "unlock" => ~settings.locked

\* What a check in flight has found out still holds, or is marked as overtaken, or its socket
\* is gone.
ChecksAreCovered ==
  \A a \in Checks : check[a].op # "none" /\ ~check[a].missed =>
    /\ check[a].at = "answer" => Covered(check[a].session)
    /\ check[a].at # "settings" =>
         Allowed(check[a].session) \/ sock[check[a].sock].state = "closed"

LEMMA EndsInv ==
  EndsReachEverySocket <=>
    \A s \in Sockets : IsOpen(s) /\ ~sock[s].missed =>
      Covered(sock[s].session) /\ Allowed(sock[s].session)
  BY DEF EndsReachEverySocket, Covered, Allowed, UserOf

\* The steps that change the settings, or the rows of the sessions.
LEMMA SettingsSteps ==
  ASSUME [Next]_vars
  PROVE  \/ UNCHANGED settings
         \/ \E a \in Checks : SettingsRead(a) \/ Refuse(a)
         \/ \E on \in BOOLEAN : SaveLockdown(on)
         \/ SettingsSaved \/ Tick \/ Restart
<1>. DEFINE Keeps == UNCHANGED settings
            Reads == \E a \in Checks : SettingsRead(a) \/ Refuse(a)
<1>1. CASE UNCHANGED vars
  BY <1>1 DEF vars
<1>2. CASE GatewayActs
  <2>1. ASSUME NEW a \in Checks, NEW s \in Sockets, NEW f \in Sessions, NEW left \in Life,
               Handshake(a, s, f, left) \/ Reauth(a, s, f, left)
        PROVE  Keeps
    BY <2>1 DEF Handshake, Reauth
  <2>2. ASSUME NEW a \in Checks, \/ SettingsReadFails(a) \/ AssertSessionLive(a)
                                 \/ HandleConnection(a) \/ HandleReauth(a)
        PROVE  Keeps
    BY <2>2 DEF SettingsReadFails, AssertSessionLive, HandleConnection, HandleReauth
  <2>3. ASSUME NEW s \in Sockets, ClientLeaves(s) \/ ReauthRefused(s) \/ TokenExpires(s) PROVE Keeps
    BY <2>3 DEF ClientLeaves, ReauthRefused, TokenExpires
  <2>4. ASSUME NEW u \in Users, GraceElapses(u) PROVE Keeps
    BY <2>4 DEF GraceElapses
  <2>5. ASSUME NEW u \in Users, NEW kind \in {"on", "off"}, Broadcast(u, kind) PROVE Keeps
    BY <2>5 DEF Broadcast
  <2>. HIDE DEF Keeps
  <2>6. Keeps \/ Reads
    BY <1>2, <2>1, <2>2, <2>3, <2>4, <2>5 DEF GatewayActs
  <2>. QED BY <2>6 DEF Keeps
<1>3. CASE MembershipActs
  BY <1>3 DEF MembershipActs, Mint, RevokeSession, RevokeSome, End, ReplaceSession, WindowCloses,
              SetActive, HandleSessionRevoked
<1>4. CASE PlatformActs
  BY <1>4 DEF PlatformActs, Revalidate, RevalidateDrops
<1>. QED BY <1>1, <1>2, <1>3, <1>4 DEF Next

LEMMA RowSteps ==
  ASSUME [Next]_vars
  PROVE  \/ UNCHANGED <<phase, emitted, replaced>>
         \/ MembershipActs \/ Restart
<1>. DEFINE Keeps == UNCHANGED <<phase, emitted, replaced>>
<1>1. CASE UNCHANGED vars
  BY <1>1 DEF vars, Rows
<1>2. CASE GatewayActs
  <2>1. ASSUME NEW a \in Checks, NEW s \in Sockets, NEW f \in Sessions, NEW left \in Life,
               Handshake(a, s, f, left) \/ Reauth(a, s, f, left)
        PROVE  Keeps
    BY <2>1 DEF Handshake, Reauth, Rows
  <2>2. ASSUME NEW a \in Checks, \/ SettingsRead(a) \/ SettingsReadFails(a) \/ AssertSessionLive(a)
                                 \/ Refuse(a) \/ HandleConnection(a) \/ HandleReauth(a)
        PROVE  Keeps
    BY <2>2 DEF SettingsRead, SettingsReadFails, AssertSessionLive, Refuse, HandleConnection,
                HandleReauth, Rows
  <2>3. ASSUME NEW s \in Sockets, ClientLeaves(s) \/ ReauthRefused(s) \/ TokenExpires(s) PROVE Keeps
    BY <2>3 DEF ClientLeaves, ReauthRefused, TokenExpires, Rows
  <2>4. ASSUME NEW u \in Users, GraceElapses(u) PROVE Keeps
    BY <2>4 DEF GraceElapses, Rows
  <2>5. ASSUME NEW u \in Users, NEW kind \in {"on", "off"}, Broadcast(u, kind) PROVE Keeps
    BY <2>5 DEF Broadcast, Rows
  <2>. HIDE DEF Keeps
  <2>6. Keeps
    BY <1>2, <2>1, <2>2, <2>3, <2>4, <2>5 DEF GatewayActs
  <2>. QED BY <2>6 DEF Keeps
<1>3. CASE PlatformActs
  BY <1>3 DEF PlatformActs, SaveLockdown, SettingsSaved, Revalidate, RevalidateDrops, Tick, Rows
<1>. QED BY <1>1, <1>2, <1>3 DEF Next

\* An answer that lets a session through, and is not out of date, allows it.
LEMMA LetThrough ==
  ASSUME GatewayTypeOK, SavingIsOfTheRow, NEW f \in Sessions, NEW locked \in BOOLEAN,
         LetsThrough(f, locked), ~IsStale(locked)
  PROVE  Allowed(f)
<1>1. settings.saving \in {"no", "lock", "unlock"}
  BY TypeParts DEF SettingsOK
<1>. QED BY <1>1 DEF LetsThrough, IsStale, Allowed, SavingIsOfTheRow

LEMMA SavingStep ==
  ASSUME GatewayTypeOK, SavingIsOfTheRow, [Next]_vars
  PROVE  SavingIsOfTheRow'
<1>a. SettingsOK
  BY TypeParts
<1>1. CASE UNCHANGED settings
  BY <1>1 DEF SavingIsOfTheRow
<1>2. ASSUME NEW a \in Checks, SettingsRead(a) \/ Refuse(a) PROVE SavingIsOfTheRow'
  <2>1. settings'.saving = settings.saving /\ settings'.locked = settings.locked
    BY <1>2, <1>a DEF SettingsRead, Refuse, SettingsOK
  <2>. QED BY <2>1 DEF SavingIsOfTheRow
<1>3. ASSUME NEW on \in BOOLEAN, SaveLockdown(on) PROVE SavingIsOfTheRow'
  BY <1>3, <1>a DEF SaveLockdown, SettingsOK, SavingIsOfTheRow
<1>4. CASE SettingsSaved
  BY <1>4, <1>a DEF SettingsSaved, SettingsOK, SavingIsOfTheRow
<1>5. CASE Tick
  <2>1. settings'.saving = settings.saving /\ settings'.locked = settings.locked
    BY <1>5, <1>a DEF Tick, SettingsOK
  <2>. QED BY <2>1 DEF SavingIsOfTheRow
<1>6. CASE Restart
  BY <1>6 DEF Restart, Loaded, SavingIsOfTheRow
<1>7. \/ UNCHANGED settings \/ \E a \in Checks : SettingsRead(a) \/ Refuse(a)
      \/ \E on \in BOOLEAN : SaveLockdown(on)
      \/ SettingsSaved \/ Tick \/ Restart
  BY SettingsSteps
<1>. QED BY <1>1, <1>2, <1>3, <1>4, <1>5, <1>6, <1>7

LEMMA AllowedGoesOn ==
  ASSUME GatewayTypeOK, SavingIsOfTheRow, [Next]_vars, NEW f \in Sessions, Allowed(f)
  PROVE  Allowed(f)' \/ (SettingsSaved /\ settings.saving = "lock") \/ Restart
<1>a. SettingsOK
  BY TypeParts
<1>1. CASE settings'.saving = settings.saving /\ settings'.locked = settings.locked
  BY <1>1 DEF Allowed
<1>2. ASSUME NEW a \in Checks, SettingsRead(a) \/ Refuse(a)
      PROVE  settings'.saving = settings.saving /\ settings'.locked = settings.locked
  BY <1>2, <1>a DEF SettingsRead, Refuse, SettingsOK
<1>3. ASSUME NEW on \in BOOLEAN, SaveLockdown(on) PROVE Allowed(f)'
  BY <1>3, <1>a DEF SaveLockdown, SettingsOK, Allowed
<1>4. CASE SettingsSaved /\ settings.saving # "lock"
  <2>1. settings.saving = "unlock" /\ settings'.locked = settings.locked
    BY <1>4, <1>a DEF SettingsSaved, SettingsOK
  <2>. QED BY <2>1 DEF SavingIsOfTheRow, Allowed
<1>5. CASE Tick
  BY <1>5, <1>a, <1>1 DEF Tick, SettingsOK
<1>6. CASE UNCHANGED settings
  BY <1>6, <1>1
<1>. QED BY <1>1, <1>2, <1>3, <1>4, <1>5, <1>6, SettingsSteps

LEMMA CoveredGoesOn ==
  ASSUME GatewayTypeOK, [Next]_vars, NEW f \in Sessions, Covered(f)
  PROVE  \/ Covered(f)'
         \/ Restart
         \/ \E event \in emitted :
              HandleSessionRevoked(event) /\ f \in EndedBy(event) /\ phase[f] # "live"
<1>a. RowsOK
  BY TypeParts
<1>1. CASE UNCHANGED <<phase, emitted, replaced>>
  BY <1>1 DEF Covered, EndedBy
<1>2. CASE MembershipActs
  <2>1. ASSUME NEW g \in Sessions, Mint(g) PROVE Covered(f)'
    BY <2>1, <1>a DEF Mint, Covered, RowsOK, Ledger!LedgerTypeOK, EndedBy
  <2>2. ASSUME NEW F \in SUBSET Sessions, EndRows(F)
        PROVE  \A g \in Sessions \ F : phase'[g] = phase[g]
    BY <2>2 DEF EndRows
  <2>3. ASSUME NEW g \in Sessions, RevokeSession(g) PROVE Covered(f)'
    <3> DEFINE event == [user |-> Owner[g], session |-> g]
    <3>1. EndRows({g}) /\ emitted' = emitted \cup {event} /\ replaced' = replaced
      BY <2>3 DEF RevokeSession, End
    <3>2. f = g => f \in EndedBy(event)
      BY DEF EndedBy
    <3>. HIDE DEF event
    <3>. QED BY <3>1, <3>2, <2>2 DEF Covered, EndedBy
  <2>4. ASSUME NEW u \in Users, RevokeSome(u) PROVE Covered(f)'
    <3> DEFINE event == [user |-> u, session |-> Null]
    <3>1. PICK F \in SUBSET LiveOf(u) : End(F, event)
      BY <2>4 DEF RevokeSome
    <3>2. F \in SUBSET Sessions
      BY DEF LiveOf
    <3>3. EndRows(F) /\ emitted' = emitted \cup {event} /\ replaced' = replaced
      BY <3>1 DEF End
    <3>4. f \in F => f \in EndedBy(event)
      BY DEF EndedBy, LiveOf
    <3>. HIDE DEF event
    <3>. QED BY <3>2, <3>3, <3>4, <2>2 DEF Covered, EndedBy
  <2>5. ASSUME NEW g \in Sessions, ReplaceSession(g) PROVE Covered(f)'
    <3>1. EndRows({g}) /\ replaced' = replaced \cup {g} /\ emitted' = emitted
      BY <2>5 DEF ReplaceSession
    <3>. QED BY <3>1, <2>2 DEF Covered, EndedBy
  <2>6. ASSUME NEW g \in Sessions, WindowCloses(g) PROVE Covered(f)'
    BY <2>6, <1>a DEF WindowCloses, Covered, RowsOK, Ledger!LedgerTypeOK, EndedBy
  <2>7. ASSUME NEW u \in Users, NEW on \in BOOLEAN, SetActive(u, on) PROVE Covered(f)'
    BY <2>7 DEF SetActive, Covered, EndedBy
  <2>8. ASSUME NEW event \in emitted, HandleSessionRevoked(event)
        PROVE  Covered(f)' \/ (f \in EndedBy(event) /\ phase[f] # "live")
    <3>1. emitted' = emitted \ {event} /\ UNCHANGED <<phase, replaced>>
      BY <2>8 DEF HandleSessionRevoked
    <3>2. \A e : EndedBy(e)' = EndedBy(e)
      BY DEF EndedBy
    <3>. QED BY <3>1, <3>2 DEF Covered
  <2>. QED BY <1>2, <2>1, <2>3, <2>4, <2>5, <2>6, <2>7, <2>8 DEF MembershipActs
<1>. QED BY <1>1, <1>2, RowSteps

\* A socket that is open after a step was open before, as it is, or is admitted by a check that
\* has its answer.
LEMMA OpenGoesOn ==
  ASSUME GatewayTypeOK, [Next]_vars, NEW s \in Sockets, sock'[s].state = "open"
  PROVE  \/ /\ IsOpen(s) /\ sock'[s].session = sock[s].session /\ sock'[s].missed = sock[s].missed
            /\ \A D \in SUBSET Sockets, isGraced \in BOOLEAN : Disconnect(D, isGraced) => s \notin D
         \/ \E a \in Checks :
              /\ HandleConnection(a) \/ HandleReauth(a)
              /\ check[a].op # "none" /\ check[a].at = "answer" /\ check[a].sock = s
              /\ sock[s].state # "closed"
              /\ sock'[s].session = check[a].session /\ sock'[s].missed = check[a].missed
<1>. DEFINE Kept == /\ IsOpen(s) /\ sock'[s].session = sock[s].session
                    /\ sock'[s].missed = sock[s].missed
            Admitted(a) ==
              /\ HandleConnection(a) \/ HandleReauth(a)
              /\ check[a].op # "none" /\ check[a].at = "answer" /\ check[a].sock = s
              /\ sock[s].state # "closed"
              /\ sock'[s].session = check[a].session /\ sock'[s].missed = check[a].missed
<1>a. SocksOK /\ ChecksOK
  BY TypeParts
<1>b. sock[s] \in SocketStates
  BY <1>a DEF SocksOK
<1>c. sock'[s] = sock[s] => Kept
  BY DEF IsOpen
<1>1. ASSUME NEW D \in SUBSET Sockets, NEW isGraced \in BOOLEAN, Disconnect(D, isGraced)
      PROVE  sock'[s] = sock[s] /\ s \notin D
  BY <1>1, DisconnectCloses
<1>2. ASSUME NEW a \in Checks, NEW r \in Sockets, NEW f \in Sessions, NEW left \in Life,
             Handshake(a, r, f, left)
      PROVE  sock'[s] = sock[s]
  BY <1>2, <1>b, <1>a DEF Handshake, SocksOK, SocketStates
<1>3. ASSUME NEW a \in Checks, HandleConnection(a)
      PROVE  sock'[s] = sock[s] \/ Admitted(a)
  <2>1. CASE check[a].sock # s
    BY <1>3, <2>1, <1>a DEF HandleConnection, SocksOK
  <2>2. CASE check[a].sock = s /\ ~IsThere(s)
    BY <1>3, <2>2 DEF HandleConnection
  <2>3. CASE check[a].sock = s /\ IsThere(s)
    <3>1. sock'[s] = Closed \/ sock'[s] = Opened(a)
      BY <1>3, <2>3, <1>a DEF HandleConnection, SocksOK
    <3>2. check[a].op # "none" /\ check[a].at = "answer"
      BY <1>3 DEF HandleConnection
    <3>. QED BY <1>3, <2>3, <3>1, <3>2 DEF Closed, Opened, IsThere
  <2>. QED BY <2>1, <2>2, <2>3
<1>4. ASSUME NEW a \in Checks, HandleReauth(a)
      PROVE  sock'[s] = sock[s] \/ Admitted(a)
  <2>1. CASE check[a].left = 0 /\ IsOpen(check[a].sock)
    <3>1. check[a].sock \in Sockets
      BY <1>4, <1>a DEF HandleReauth, ChecksOK
    <3>. QED BY <1>4, <2>1, <3>1, DisconnectCloses DEF HandleReauth
  <2>2. CASE check[a].left = 0 /\ ~IsOpen(check[a].sock)
    BY <1>4, <2>2, <1>a, <1>b DEF HandleReauth, SocksOK, SocketStates, IsOpen
  <2>3. CASE check[a].left # 0
    <3>1. CASE check[a].sock = s
      <4>1. /\ sock'[s].state = sock[s].state
            /\ IsOpen(s) => sock'[s].session = check[a].session /\ sock'[s].missed = check[a].missed
        BY <1>4, <2>3, <3>1, <1>a, <1>b DEF HandleReauth, SocksOK, SocketStates
      <4>. QED BY <1>4, <3>1, <4>1 DEF IsOpen, HandleReauth
    <3>2. CASE check[a].sock # s
      BY <1>4, <2>3, <3>2, <1>a DEF HandleReauth, SocksOK
    <3>. QED BY <3>1, <3>2
  <2>. QED BY <2>1, <2>2, <2>3
<1>5. ASSUME NEW r \in Sockets, TokenExpires(r), ~IsOpen(r) PROVE sock'[s] = sock[s]
  BY <1>5, <1>a, <1>b DEF TokenExpires, SocksOK, SocketStates, IsOpen
<1>6. ASSUME Tick PROVE Kept
  <2>1. sock'[s] = [sock[s] EXCEPT !.left = Sooner(@), !.timers = {Sooner(t) : t \in @}]
    BY <1>6 DEF Tick
  <2>. QED BY <2>1, <1>b DEF SocketStates, IsOpen
<1>7. ~Restart
  BY DEF Restart, Closed
<1>8. ASSUME NEW u \in Users, GraceElapses(u) PROVE sock'[s] = sock[s]
  BY <1>8 DEF GraceElapses
<1>. HIDE DEF Kept, Admitted
<1>9. Kept \/ \E a \in Checks : Admitted(a)
  <2>1. CASE UNCHANGED <<sock, listed, online, grace>>
    BY <2>1, <1>c
  <2>2. CASE \E D \in SUBSET Sockets, isGraced \in BOOLEAN : Disconnect(D, isGraced)
    BY <2>2, <1>1, <1>c
  <2>3. CASE \E a \in Checks, r \in Sockets, f \in Sessions, left \in Life : Handshake(a, r, f, left)
    BY <2>3, <1>2, <1>c
  <2>4. CASE \E a \in Checks : HandleConnection(a) \/ HandleReauth(a)
    BY <2>4, <1>3, <1>4, <1>c
  <2>5. CASE \E r \in Sockets : TokenExpires(r) /\ ~IsOpen(r)
    BY <2>5, <1>5, <1>c
  <2>6. CASE \E u \in Users : GraceElapses(u)
    BY <2>6, <1>8, <1>c
  <2>. QED BY <2>1, <2>2, <2>3, <2>4, <2>5, <2>6, <1>6, <1>7, SocketSteps
<1>. QED BY <1>9, <1>1 DEF Kept, Admitted

LEMMA EndsStep ==
  ASSUME GatewayTypeOK, SavingIsOfTheRow, ChecksAreCovered, EndsReachEverySocket, [Next]_vars
  PROVE  EndsReachEverySocket'
<1>a. SocksOK /\ ChecksOK /\ RowsOK
  BY TypeParts
<1>b. EndsReachEverySocket' <=>
        \A s \in Sockets : sock'[s].state = "open" /\ ~sock'[s].missed =>
          Covered(sock[s].session)' /\ Allowed(sock[s].session)'
  BY DEF EndsReachEverySocket, Covered, Allowed, UserOf, IsOpen
<1>. SUFFICES ASSUME NEW s \in Sockets, sock'[s].state = "open", ~sock'[s].missed
              PROVE  Covered(sock[s].session)' /\ Allowed(sock[s].session)'
  BY <1>b
<1>1. PICK f \in Sessions : sock'[s].session = f
  BY NextType, TypePartsNext DEF SocksOK, IsOpen
<1>. SUFFICES Covered(f)' /\ Allowed(f)'
  BY <1>1 DEF Covered, Allowed
<1>2. CASE /\ IsOpen(s) /\ sock'[s].session = sock[s].session /\ sock'[s].missed = sock[s].missed
           /\ \A D \in SUBSET Sockets, isGraced \in BOOLEAN : Disconnect(D, isGraced) => s \notin D
  <2>1. Covered(f) /\ Allowed(f) /\ sock[s].session = f
    BY <1>1, <1>2, EndsInv
  <2>2. ~Restart
    BY DEF Restart, Closed
  <2>3. ~(SettingsSaved /\ settings.saving = "lock")
    BY <1>2 DEF SettingsSaved
  <2>4. ASSUME NEW event \in emitted, HandleSessionRevoked(event), f \in EndedBy(event) PROVE FALSE
    <3>1. s \in Reaches(event)
      BY <2>4, <2>1, <1>2 DEF Reaches, OpenOf, UserOf, EndedBy
    <3>2. Reaches(event) \in SUBSET Sockets /\ Disconnect(Reaches(event), FALSE)
      BY <2>4 DEF HandleSessionRevoked, Reaches, OpenOf
    <3>. QED BY <3>1, <3>2, <1>2
  <2>5. Covered(f)'
    BY <2>1, <2>2, <2>4, CoveredGoesOn
  <2>6. Allowed(f)'
    BY <2>1, <2>2, <2>3, AllowedGoesOn
  <2>. QED BY <2>5, <2>6
<1>3. ASSUME NEW a \in Checks,
             HandleConnection(a) \/ HandleReauth(a),
             check[a].op # "none", check[a].at = "answer", check[a].sock = s,
             sock[s].state # "closed", sock'[s].session = check[a].session,
             sock'[s].missed = check[a].missed
      PROVE  Covered(f)' /\ Allowed(f)'
  <2>1. Covered(f) /\ Allowed(f)
    BY <1>1, <1>3 DEF ChecksAreCovered
  <2>2. UNCHANGED <<phase, emitted, replaced, settings>>
    BY <1>3 DEF HandleConnection, HandleReauth, Rows
  <2>. QED BY <2>1, <2>2 DEF Covered, Allowed, EndedBy
<1>. QED BY <1>2, <1>3, OpenGoesOn

\* A check after a step: the one it was, overtaken by an event, begun at the settings, let
\* through by them, or with its answer from the rows.
CheckWas(a) ==
  /\ check[a].op # "none"
  /\ check'[a].sock = check[a].sock /\ check'[a].session = check[a].session

LEMMA ChecksGoOn ==
  ASSUME GatewayTypeOK, SavingIsOfTheRow, [Next]_vars, NEW a \in Checks,
         check'[a].op # "none", ~check'[a].missed
  PROVE  \/ /\ CheckWas(a) /\ check'[a].at = check[a].at /\ ~check[a].missed
            /\ \A event \in emitted : HandleSessionRevoked(event) => a \notin Overtaken(event)
         \/ check'[a].at = "settings"
         \/ /\ check'[a].at = "session" /\ Allowed(check'[a].session)
            /\ settings'.locked = settings.locked /\ settings'.saving = settings.saving
         \/ /\ CheckWas(a) /\ check[a].at = "session" /\ check'[a].at = "answer"
            /\ phase[check[a].session] = "live" /\ ~check[a].missed
            /\ UNCHANGED <<sock, phase, settings>>
<1>. DEFINE Same == CheckWas(a) /\ check'[a].at = check[a].at /\ ~check[a].missed
            Begun == check'[a].at = "settings"
            Through == /\ check'[a].at = "session" /\ Allowed(check'[a].session)
                       /\ settings'.locked = settings.locked /\ settings'.saving = settings.saving
            Answered == /\ CheckWas(a) /\ check[a].at = "session" /\ check'[a].at = "answer"
                        /\ phase[check[a].session] = "live" /\ ~check[a].missed
                        /\ UNCHANGED <<sock, phase, settings>>
<1>a. /\ ChecksOK /\ SettingsOK
      /\ check \in [Checks -> CheckStates]
  BY TypeParts DEF ChecksOK
<1>b. check'[a] = check[a] => Same
  BY DEF CheckWas
<1>c. ASSUME NEW b \in Checks, check' = [check EXCEPT ![b] = Idle] PROVE Same
  BY <1>c, <1>a, <1>b DEF Idle, Asking
<1>d. ASSUME NEW event \in emitted, HandleSessionRevoked(event)
      PROVE  Same /\ a \notin Overtaken(event)
  BY <1>d, <1>a DEF HandleSessionRevoked, CheckStates, CheckWas
<1>e. ASSUME NEW b \in Checks, NEW op \in {"connect", "reauth"}, NEW s \in Sockets,
             NEW f \in Sessions, NEW left \in Life, StartCheck(b, op, s, f, left),
             UNCHANGED settings
      PROVE  Same \/ Begun \/ Through
  <2>1. CASE a # b
    <3>1. check'[a] = check[a]
      BY <1>e, <2>1, <1>a DEF StartCheck
    <3>. QED BY <3>1, <1>b
  <2>2. CASE a = b /\ IsFresh
    <3>1. /\ check'[a] = [Asking(op, s, f, left) EXCEPT !.at = "session",
                                                        !.missed = IsStale(settings.cached)]
          /\ LetsThrough(f, settings.cached)
      BY <1>e, <2>2, <1>a DEF StartCheck
    <3>2. check'[a].at = "session" /\ check'[a].session = f /\ ~IsStale(settings.cached)
      BY <3>1 DEF Asking
    <3>3. settings.cached \in BOOLEAN
      BY <2>2, <1>a DEF IsFresh, SettingsOK, OrNull
    <3>. QED BY <1>e, <3>1, <3>2, <3>3, LetThrough
  <2>3. CASE a = b /\ ~IsFresh
    <3>1. check'[a] = [Asking(op, s, f, left) EXCEPT !.seen = settings.locked]
      BY <1>e, <2>3, <1>a DEF StartCheck
    <3>. QED BY <3>1 DEF Asking
  <2>. QED BY <2>1, <2>2, <2>3
<1>1. ASSUME UNCHANGED vars PROVE Same
  BY <1>1, <1>b DEF vars
<1>2. ASSUME GatewayActs PROVE Same \/ Begun \/ Through \/ Answered
  <2>1. ASSUME NEW b \in Checks, NEW s \in Sockets, NEW f \in Sessions, NEW left \in Life,
               Handshake(b, s, f, left) \/ Reauth(b, s, f, left)
        PROVE  Same \/ Begun \/ Through
    BY <2>1, <1>e DEF Handshake, Reauth
  <2>2. ASSUME NEW b \in Checks, SettingsRead(b)
        PROVE  Same \/ Through
    <3>1. CASE a # b
      BY <2>2, <3>1, <1>a, <1>b DEF SettingsRead
    <3>2. CASE a = b
      <4>1. check[a].seen \in BOOLEAN /\ check[a].session \in Sessions
        BY <2>2, <3>2, <1>a DEF SettingsRead, ChecksOK, CheckStates
      <4>2. /\ check'[a].at = "session" /\ check'[a].session = check[a].session
            /\ ~IsStale(check[a].seen) /\ LetsThrough(check[a].session, check[a].seen)
        BY <2>2, <3>2, <1>a DEF SettingsRead, CheckStates
      <4>3. settings'.locked = settings.locked /\ settings'.saving = settings.saving
        BY <2>2, <1>a DEF SettingsRead, SettingsOK
      <4>. QED BY <4>1, <4>2, <4>3, LetThrough
    <3>. QED BY <3>1, <3>2
  <2>3. ASSUME NEW b \in Checks, SettingsReadFails(b)
        PROVE  Same \/ Through
    <3>1. CASE a # b
      BY <2>3, <3>1, <1>a, <1>b DEF SettingsReadFails
    <3>2. CASE a = b
      <4>1. settings.cached \in BOOLEAN /\ check[a].session \in Sessions
        BY <2>3, <3>2, <1>a DEF SettingsReadFails, ChecksOK, SettingsOK, OrNull
      <4>2. /\ check'[a].at = "session" /\ check'[a].session = check[a].session
            /\ ~IsStale(settings.cached) /\ LetsThrough(check[a].session, settings.cached)
        BY <2>3, <3>2, <1>a DEF SettingsReadFails, CheckStates
      <4>. QED BY <2>3, <4>1, <4>2, LetThrough DEF SettingsReadFails
    <3>. QED BY <3>1, <3>2
  <2>4. ASSUME NEW b \in Checks, AssertSessionLive(b)
        PROVE  Same \/ Answered
    <3>1. CASE a # b
      BY <2>4, <3>1, <1>a, <1>b DEF AssertSessionLive
    <3>2. CASE a = b
      BY <2>4, <3>2, <1>a DEF AssertSessionLive, CheckWas, CheckStates, Rows
    <3>. QED BY <3>1, <3>2
  <2>5. ASSUME NEW b \in Checks, Refuse(b) \/ HandleConnection(b) \/ HandleReauth(b) PROVE Same
    BY <2>5, <1>c DEF Refuse, HandleConnection, HandleReauth
  <2>6. ASSUME NEW s \in Sockets, ClientLeaves(s) \/ ReauthRefused(s) \/ TokenExpires(s) PROVE Same
    BY <2>6, <1>b DEF ClientLeaves, ReauthRefused, TokenExpires
  <2>7. ASSUME NEW u \in Users, GraceElapses(u) PROVE Same
    BY <2>7, <1>b DEF GraceElapses
  <2>8. ASSUME NEW u \in Users, NEW kind \in {"on", "off"}, Broadcast(u, kind) PROVE Same
    BY <2>8, <1>b DEF Broadcast
  <2>. HIDE DEF Same, Begun, Through, Answered
  <2>. QED BY <1>2, <2>1, <2>2, <2>3, <2>4, <2>5, <2>6, <2>7, <2>8 DEF GatewayActs
<1>3. ASSUME MembershipActs, ~\E event \in emitted : HandleSessionRevoked(event) PROVE Same
  <2>1. UNCHANGED check
    BY <1>3 DEF MembershipActs, Mint, RevokeSession, RevokeSome, End, ReplaceSession,
                WindowCloses, SetActive
  <2>. QED BY <2>1, <1>b
<1>4. ASSUME PlatformActs PROVE Same
  <2>1. CASE Tick
    BY <2>1, <1>a DEF Tick, CheckStates, CheckWas
  <2>2. ~Restart
    BY DEF Restart, Idle, Asking
  <2>3. UNCHANGED check \/ Tick \/ Restart
    BY <1>4 DEF PlatformActs, SaveLockdown, SettingsSaved, Revalidate, RevalidateDrops
  <2>. QED BY <2>1, <2>2, <2>3, <1>b
<1>. HIDE DEF Same, Begun, Through, Answered
<1>5. \/ Same /\ ~\E event \in emitted : HandleSessionRevoked(event)
      \/ \E event \in emitted : HandleSessionRevoked(event)
      \/ Begun \/ Through \/ Answered
  BY <1>1, <1>2, <1>3, <1>4 DEF Next
<1>6. \/ Same /\ \A event \in emitted : HandleSessionRevoked(event) => a \notin Overtaken(event)
      \/ Begun \/ Through \/ Answered
  BY <1>5, <1>d
<1>. QED BY <1>6 DEF Same, Begun, Through, Answered

\* The socket of a check that goes on does not come back.
LEMMA ClosedStays ==
  ASSUME GatewayTypeOK, [Next]_vars, NEW a \in Checks, check[a].op # "none",
         NEW s \in Sockets, check[a].sock = s, sock[s].state = "closed"
  PROVE  sock'[s].state = "closed"
<1>a. SocksOK /\ ChecksOK /\ sock[s] \in SocketStates
  BY TypeParts DEF SocksOK
<1>1. ASSUME NEW D \in SUBSET Sockets, NEW isGraced \in BOOLEAN, Disconnect(D, isGraced)
      PROVE  sock'[s].state = "closed"
  BY <1>1 DEF Disconnect, Closed
<1>2. ASSUME NEW b \in Checks, NEW r \in Sockets, NEW f \in Sessions, NEW left \in Life,
             Handshake(b, r, f, left)
      PROVE  sock'[s] = sock[s]
  <2>1. r # s
    BY <1>2 DEF Handshake, IsUnused
  <2>. QED BY <1>2, <2>1, <1>a DEF Handshake, SocksOK
<1>3. ASSUME NEW b \in Checks, HandleConnection(b) PROVE sock'[s] = sock[s]
  <2>1. check[b].sock # s \/ ~IsThere(check[b].sock)
    BY DEF IsThere
  <2>. QED BY <1>3, <2>1, <1>a DEF HandleConnection, SocksOK
<1>4. ASSUME NEW b \in Checks, HandleReauth(b) PROVE sock'[s].state = "closed"
  <2>1. CASE check[b].left = 0 /\ IsOpen(check[b].sock)
    <3>1. check[b].sock \in Sockets
      BY <1>4, <1>a DEF HandleReauth, ChecksOK
    <3>. QED BY <1>4, <2>1, <3>1, <1>1 DEF HandleReauth
  <2>2. CASE ~(check[b].left = 0 /\ IsOpen(check[b].sock)) /\ check[b].left = 0
    BY <1>4, <2>2, <1>a DEF HandleReauth, SocksOK, SocketStates
  <2>3. CASE check[b].left # 0
    <3>1. sock'[s].state = sock[s].state
      BY <1>4, <2>3, <1>a DEF HandleReauth, SocksOK, SocketStates
    <3>. QED BY <3>1
  <2>. QED BY <2>1, <2>2, <2>3
<1>5. ASSUME NEW r \in Sockets, TokenExpires(r), ~IsOpen(r) PROVE sock'[s].state = "closed"
  BY <1>5, <1>a DEF TokenExpires, SocksOK, SocketStates, IsOpen
<1>6. CASE Tick
  BY <1>6, <1>a DEF Tick, SocksOK, SocketStates
<1>7. CASE Restart
  BY <1>7 DEF Restart, Closed
<1>8. ASSUME NEW u \in Users, GraceElapses(u) PROVE sock'[s] = sock[s]
  BY <1>8 DEF GraceElapses
<1>. QED BY <1>1, <1>2, <1>3, <1>4, <1>5, <1>6, <1>7, <1>8, SocketSteps

LEMMA ChecksStep ==
  ASSUME GatewayTypeOK, SavingIsOfTheRow, ChecksAreCovered, [Next]_vars
  PROVE  ChecksAreCovered'
<1>a. ChecksOK /\ ChecksOK' /\ check \in [Checks -> CheckStates]
  BY NextType, TypeParts, TypePartsNext DEF ChecksOK
<1>. SUFFICES ASSUME NEW a \in Checks, check'[a].op # "none", ~check'[a].missed
              PROVE  /\ check'[a].at = "answer" => Covered(check[a].session)'
                     /\ check'[a].at # "settings" =>
                          Allowed(check[a].session)' \/ sock'[check'[a].sock].state = "closed"
  BY DEF ChecksAreCovered
<1>. PICK f \in Sessions, s \in Sockets : check'[a].session = f /\ check'[a].sock = s
  BY <1>a DEF ChecksOK
<1>. SUFFICES ASSUME check'[a].at # "settings"
              PROVE  /\ check'[a].at = "answer" => Covered(f)'
                     /\ Allowed(f)' \/ sock'[s].state = "closed"
  BY DEF Covered, Allowed
<1>b. ~Restart
  BY DEF Restart, Idle, Asking
<1>c. ASSUME SettingsSaved, settings.saving = "lock" PROVE sock'[s].state = "closed"
  BY <1>c DEF SettingsSaved, Disconnect, Closed
<1>1. CASE /\ CheckWas(a) /\ check'[a].at = check[a].at /\ ~check[a].missed
           /\ \A event \in emitted : HandleSessionRevoked(event) => a \notin Overtaken(event)
  <2>1. /\ check[a].op # "none" /\ check[a].session = f /\ check[a].sock = s
        /\ check[a].at = "answer" => Covered(f)
        /\ Allowed(f) \/ sock[s].state = "closed"
    BY <1>1 DEF CheckWas, ChecksAreCovered
  <2>2. ASSUME NEW event \in emitted, HandleSessionRevoked(event), f \in EndedBy(event),
               phase[f] # "live", check[a].at = "answer"
        PROVE  FALSE
    BY <2>1, <2>2, <1>1 DEF Overtaken
  <2>3. check'[a].at = "answer" => Covered(f)'
    BY <2>1, <2>2, <1>1, <1>b, CoveredGoesOn
  <2>4. Allowed(f)' \/ sock'[s].state = "closed"
    BY <2>1, <1>b, <1>c, AllowedGoesOn, ClosedStays
  <2>. QED BY <2>3, <2>4
<1>2. CASE /\ check'[a].at = "session" /\ Allowed(check'[a].session)
           /\ settings'.locked = settings.locked /\ settings'.saving = settings.saving
  BY <1>2 DEF Allowed
<1>3. CASE /\ CheckWas(a) /\ check[a].at = "session" /\ check'[a].at = "answer"
           /\ phase[check[a].session] = "live" /\ ~check[a].missed
           /\ UNCHANGED <<sock, phase, settings>>
  <2>1. check[a].op # "none" /\ check[a].session = f /\ check[a].sock = s
    BY <1>3 DEF CheckWas
  <2>2. Allowed(f) \/ sock[s].state = "closed"
    BY <2>1, <1>3 DEF ChecksAreCovered
  <2>. QED BY <2>1, <2>2, <1>3 DEF Covered, Allowed
<1>. QED BY <1>1, <1>2, <1>3, ChecksGoOn

\* The end of a session and a lockdown reach every socket but those admitted on an answer they
\* had overtaken, for any number of checks in flight, sockets, sessions and events.
THEOREM EndsReach == Spec => []EndsReachEverySocket
<1>1. Init => SavingIsOfTheRow /\ ChecksAreCovered /\ EndsReachEverySocket
  BY DEF Init, Loaded, SavingIsOfTheRow, ChecksAreCovered, EndsReachEverySocket, IsOpen, Closed,
         Idle, Asking
<1>2. GatewayTypeOK /\ SavingIsOfTheRow /\ ChecksAreCovered /\ EndsReachEverySocket /\ [Next]_vars
      => SavingIsOfTheRow' /\ ChecksAreCovered' /\ EndsReachEverySocket'
  BY SavingStep, ChecksStep, EndsStep
<1>. QED BY <1>1, <1>2, GatewayIsTyped, PTL DEF Spec
==============================================================================
