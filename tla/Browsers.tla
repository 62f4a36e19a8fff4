------------------------------ MODULE Browsers ------------------------------
(***************************************************************************)
(* The refresh-token store as honest browsers use it.                      *)
(*                                                                         *)
(* A browser is one cookie jar of one member; several tabs of it may have  *)
(* requests in flight at once.  A request presents the refresh cookie the  *)
(* jar holds when it is sent.  The response sets a new cookie or clears    *)
(* it, and responses may arrive in any order.  Nobody replays a token that *)
(* is not in their jar: whatever AuthService takes for theft here is not.  *)
(***************************************************************************)
EXTENDS Sessions

CONSTANTS
  Browser,   \* the cookie jars
  OwnerOf    \* OwnerOf[b]: the member who signs in with browser b

ASSUME OwnerAssumption == OwnerOf \in [Browser -> Users]

VARIABLES
  jar,       \* jar[b]: the refresh token in the jar, or Null
  from,      \* from[q]: the browser that sent request q
  answers    \* Set-Cookie headers on their way back to a browser

bvars == <<now, users, rows, nextId, req, jar, from, answers>>

BrowsersInit ==
  /\ Init
  /\ jar = [b \in Browser |-> Null]
  /\ from = [q \in Requests |-> Null]
  /\ answers = {}

\* Browser b sends the request that q handles.
Sends(q, b) ==
  /\ from' = [from EXCEPT ![q] = b]
  /\ UNCHANGED <<jar, answers>>

\* A browser without a session signs in, by hand: nothing else of it is in
\* flight.
TabSignIn(q, b) ==
  /\ jar[b] = Null
  /\ \A p \in Requests : from[p] # b
  /\ \A a \in answers : a.to # b
  /\ SignIn(q, OwnerOf[b])
  /\ Sends(q, b)

\* A tab signs in again over the session its jar still holds.
TabSignInOver(q, b) ==
  /\ jar[b] # Null
  /\ SignInOver(q, OwnerOf[b], jar[b])
  /\ Sends(q, b)

\* A tab's access token ran out, or was answered 401: the silent refresh.
TabRefresh(q, b) ==
  /\ jar[b] # Null
  /\ RefreshVerify(q, jar[b])
  /\ Sends(q, b)

\* The refresh of a token that is unknown, or whose JWT expired: 401, and the
\* cookies are cleared.
TabRefreshRefused(q, b) ==
  /\ "refresh" \in Routes
  /\ req[q].pc = "idle"
  /\ jar[b] # Null
  /\ ~Stored(jar[b]) \/ now >= rows[jar[b]].expiresAt
  /\ answers' = answers \cup {[to |-> b, cookie |-> Null]}
  /\ UNCHANGED <<vars, jar, from>>

TabLogout(q, b) ==
  /\ jar[b] # Null
  /\ Logout(q, jar[b])
  /\ Sends(q, b)

\* The logout of a token that is unknown or dead revokes nothing, and clears
\* the cookies all the same.
TabLogoutStale(q, b) ==
  /\ "logout" \in Routes
  /\ req[q].pc = "idle"
  /\ jar[b] # Null
  /\ ~IsLive(jar[b])
  /\ answers' = answers \cup {[to |-> b, cookie |-> Null]}
  /\ UNCHANGED <<vars, jar, from>>

\* "Log out other devices", from the session this jar holds.
TabRevokeOthers(q, b) ==
  /\ jar[b] # Null
  /\ Stored(jar[b])
  /\ RevokeOtherSessions(q, OwnerOf[b], rows[jar[b]].family)
  /\ Sends(q, b)

\* The handlers that answer with cookies: refresh and sign-in set the pair
\* they minted, and clear the cookies when they minted none; logout clears.
AnswersCookies(q) == req[q].pc \notin {"others", "saving"}

\* A step of a request.  When the request ends its response is on its way.
HandlerStep(q) ==
  /\ Step(q)
  /\ IF req'[q].pc = "idle"
     THEN /\ from' = [from EXCEPT ![q] = Null]
          /\ answers' =
               IF AnswersCookies(q)
               THEN answers \cup
                      {[to |-> from[q],
                        cookie |-> IF nextId' # nextId THEN nextId ELSE Null]}
               ELSE answers
     ELSE UNCHANGED <<from, answers>>
  /\ UNCHANGED jar

\* What a request that dies still tells the browser: a failed refresh clears the
\* cookies, and a logout clears them whatever became of it.
ClearsOnFailure(q) ==
  req[q].pc \in {"verified", "rotate", "claimed", "lost", "grace", "burn",
                 "endFamily", "sweeping"}

\* A request dies before its commit: the database refuses a step and the handler
\* answers for it, or the process is gone and nothing is answered.
TabFail(q) ==
  /\ Fail(q)
  /\ from' = [from EXCEPT ![q] = Null]
  /\ \/ UNCHANGED answers
     \/ /\ ClearsOnFailure(q)
        /\ answers' = answers \cup {[to |-> from[q], cookie |-> Null]}
  /\ UNCHANGED jar

\* A response arrives and its cookies replace what the jar holds.
Receive(a) ==
  /\ a \in answers
  /\ jar' = [jar EXCEPT ![a.to] = a.cookie]
  /\ answers' = answers \ {a}
  /\ UNCHANGED <<vars, from>>

\* The instant at which row i stopped being the newest of its chain, while
\* some tab may not have heard of it: its rotation is open, or its successor
\* is still on its way to the jar, or a request that presented it is not done.
RotationPending(i, at) ==
  \/ \E q \in Requests : req[q].pc = "claimed" /\ req[q].row = i /\ req[q].at = at
  \/ /\ Stored(i)
     /\ rows[i].replacedBy # Null
     /\ rows[i].revokedAt = at
     /\ \/ \E a \in answers : a.cookie = rows[i].replacedBy
        \/ \E q \in Requests : /\ req[q].pc \in {"verified", "rotate", "lost"}
                               /\ req[q].row = i

\* Time passes, and a round trip is shorter than the grace window: that of a
\* rotation, and that of the save() of revokeOtherSessions.
PromptTick ==
  /\ Tick
  /\ \A q \in Requests :
       req[q].pc \in {"others", "saving"} => now + 1 - req[q].at <= Grace
  /\ \A i \in RowIds, at \in 0..now : RotationPending(i, at) => now + 1 - at <= Grace
  /\ UNCHANGED <<jar, from, answers>>

BrowsersNext ==
  \/ \E q \in Requests, b \in Browser :
       \/ TabSignIn(q, b) \/ TabSignInOver(q, b) \/ TabRefresh(q, b)
       \/ TabRefreshRefused(q, b) \/ TabLogout(q, b)
       \/ TabLogoutStale(q, b) \/ TabRevokeOthers(q, b)
  \/ \E q \in Requests : HandlerStep(q) \/ TabFail(q)
  \/ \E a \in answers : Receive(a)
  \/ PromptTick

BrowsersSpec == BrowsersInit /\ [][BrowsersNext]_bvars

-----------------------------------------------------------------------------
(* Properties *)

\* Signed out, or signed out on a stale copy that lost the link to its successor.
EndedBySignOut(i) == ~Stored(i) \/ rows[i].replacedBy = Null

\* A browser that went quiet is not signed out by its own next refresh: what its
\* jar holds would not be answered with a burn, unless it was signed out.
JarIsSafeToPresent ==
  \A b \in Browser : jar[b] # Null =>
    EndedBySignOut(jar[b]) \/ IsLive(jar[b]) \/ WithinRotationGrace(jar[b])

\* A burn under way was set off by a token that a sign-out had ended.
RotationAloneNeverBurns ==
  \A q \in Requests : req[q].pc = "burn" => EndedBySignOut(req[q].row)

\* However many tabs refresh the same cookie at once, and in whatever order the
\* answers arrive, no rotation is taken for theft or leaves a jar with a token
\* that will be, nor does a request that dies before its commit: this is what the
\* grace window is for (REFRESH_ROTATION_GRACE_MS).
TabsNeverLookLikeTheft == JarIsSafeToPresent /\ RotationAloneNeverBurns

=============================================================================
