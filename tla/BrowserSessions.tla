-------------------------- MODULE BrowserSessions --------------------------
(***************************************************************************)
(* Remembered browser sessions (src/server/browser-sessions.ts) and the    *)
(* two kinds of request that outlive the check of their session: a wallet  *)
(* read, which yields to the node and to compression before it is sent,    *)
(* and the event stream, which stays open (src/server/app.ts).             *)
(*                                                                         *)
(* A session is known by the key its cookie carries.  Both kinds of        *)
(* request watch the sessions of their cookies: a change of the session    *)
(* map, or a timer set for the next expiry, makes them check again.  No    *)
(* timer may be set as far ahead as a session lasts, so a watcher also     *)
(* checks on the way, and sets the next one.                               *)
(*                                                                         *)
(* Left out: requests with an Authorization header, which no session       *)
(* concerns, and cookies a browser would not send (a key under the other   *)
(* role's name, the same name twice).                                      *)
(***************************************************************************)
EXTENDS Naturals, FiniteSets, FiniteSetsExt, Functions

CONSTANTS Browsers, Requests,
          Keys,         \* what randomBytes may return: positive numbers
          MAX_SESSIONS,
          LIFETIME,     \* BROWSER_SESSION_SECONDS
          MAX_TIMER,    \* MAX_TIMER_MS, which is less than the lifetime
          MaxTime       \* bound on the clock

ASSUME SessionsAssumption ==
    /\ Keys \subseteq Nat \ {0}
    /\ MAX_SESSIONS \in Nat \ {0} /\ LIFETIME \in Nat \ {0}
    /\ MAX_TIMER \in Nat \ {0} /\ MaxTime \in Nat

VARIABLES now,
          sessions,  \* the time each session expires, 0 for a key that has none
          jar,       \* each browser's cookies, 0 for a role it has none for
          req        \* the requests the server handles and the replies on their way

vars == <<now, sessions, jar, req>>

Roles     == {"view", "admin"}
NoCookies == [role \in Roles |-> 0]
Unused    == [step |-> "unused", from |-> CHOOSE b \in Browsers : TRUE,
              cookies |-> NoCookies, timer |-> 0, revoked |-> FALSE, gone |-> FALSE]

Init ==
    /\ now = 0
    /\ sessions = [k \in Keys |-> 0]
    /\ jar = [b \in Browsers |-> NoCookies]
    /\ req = [q \in Requests |-> Unused]

-----------------------------------------------------------------------------
\* entry, watch

Valid(S, k) == k # 0 /\ S[k] > now

\* A session that is looked up after its end is removed.
Looked(S, ks) == [k \in Keys |-> IF k \in ks /\ S[k] <= now THEN 0 ELSE S[k]]

IsWallet(r) == r.step \in {"routing", "compressing"}
IsStream(r) == r.step \in {"streaming", "sampling"}
Watched(r)  == IF IsWallet(r) THEN {r.cookies["admin"]} ELSE Range(r.cookies)

\* When to check again a session that ends at expiry.
Alarm(expiry) == IF expiry < now + MAX_TIMER THEN expiry ELSE now + MAX_TIMER

\* watch's check: set the timer for the next expiry or, with no session left,
\* stop watching and revoke the wallet read or end the stream.
Checked(S, r) ==
    LET active == {S[k] : k \in {k \in Watched(r) : Valid(S, k)}} IN
    IF active # {} THEN [r EXCEPT !.timer = Alarm(Min(active))]
    ELSE [r EXCEPT !.timer = 0, !.revoked = IsWallet(r),
                   !.step = IF IsStream(r) THEN "ended" ELSE @]

Watching == {q \in Requests : req[q].timer # 0}
WatchedKeys == UNION {Watched(req[q]) : q \in Watching}

\* notify: every watcher checks again.
Notified(S) == [q \in Requests |-> IF q \in Watching THEN Checked(S, req[q]) ELSE req[q]]

\* A watcher's timer, at the time it was set for or later.
TimerFires(q) ==
    /\ q \in Watching /\ req[q].timer <= now
    /\ sessions' = Looked(sessions, Watched(req[q]))
    /\ req' = [req EXCEPT ![q] = Checked(sessions, @)]
    /\ UNCHANGED <<now, jar>>

-----------------------------------------------------------------------------
\* issue, logout, clear

Arrives(q, b, step, timer) ==
    req' = [req EXCEPT ![q] = [Unused EXCEPT !.step = step, !.from = b,
                                             !.cookies = jar[b], !.timer = timer]]

Unseen == {k \in Keys : /\ sessions[k] = 0
                        /\ \A b \in Browsers : k \notin Range(jar[b])
                        /\ \A q \in Requests : k \notin Range(req[q].cookies)}
\* Random keys never meet: the next one is any that nobody has seen.
Fresh(k) == k \in Unseen /\ k = Min(Unseen)

\* The session map after the sweep and the end of the browser's own session.
Room(b, role) ==
    [k \in Keys |-> IF k = jar[b][role] \/ sessions[k] <= now THEN 0 ELSE sessions[k]]
Count(S) == Cardinality({k \in Keys : S[k] # 0})

Replying(R, q, b, cookies) ==
    [R EXCEPT ![q] = [Unused EXCEPT !.step = "reply", !.from = b, !.cookies = cookies]]

\* Mutant: watchers do not hear that a browser's session was replaced.
LoginSilently(q, b, role, k) ==
    /\ req[q].step = "unused" /\ Fresh(k)
    /\ Count(Room(b, role)) < MAX_SESSIONS
    /\ sessions' = [Room(b, role) EXCEPT ![k] = now + LIFETIME]
    /\ req' = Replying(req, q, b, [r \in {role} |-> k])
    /\ UNCHANGED <<now, jar>>

\* A remembered login with a valid token.
Login(q, b, role, k) ==
    /\ req[q].step = "unused" /\ Fresh(k)
    /\ Count(Room(b, role)) < MAX_SESSIONS
    /\ sessions' = [Room(b, role) EXCEPT ![k] = now + LIFETIME]
    /\ req' = Replying(Notified(sessions'), q, b, [r \in {role} |-> k])
    /\ UNCHANGED <<now, jar>>

\* With no room the login is refused; the sweep and the revocation stand.
LoginRefused(b, role) ==
    /\ Count(Room(b, role)) >= MAX_SESSIONS
    /\ sessions' = Room(b, role)
    /\ UNCHANGED <<now, jar, req>>

\* Leaving the view leaves the management too.
Logout(q, b, role) ==
    /\ req[q].step = "unused"
    /\ LET roles == IF role = "view" THEN Roles ELSE {"admin"}
           left  == [k \in Keys |-> IF \E item \in roles : k = jar[b][item] THEN 0
                                    ELSE sessions[k]]
       IN /\ sessions' = Looked(left, WatchedKeys)
          /\ req' = Replying(Notified(left), q, b, [item \in roles |-> 0])
    /\ UNCHANGED <<now, jar>>

\* The application closes: no session is left, and every stream ends.
Clear ==
    /\ sessions' = [k \in Keys |-> 0]
    /\ req' = [q \in Requests |->
                 LET r == Notified(sessions')[q]
                 IN IF IsStream(r) THEN [r EXCEPT !.step = "ended"] ELSE r]
    /\ UNCHANGED <<now, jar>>

\* The browser stores the cookies of a reply, or never sees it.
Reply(q) ==
    /\ req[q].step = "reply"
    /\ jar' = [jar EXCEPT ![req[q].from] =
                  [role \in Roles |-> IF role \in DOMAIN req[q].cookies
                                      THEN req[q].cookies[role] ELSE @[role]]]
    /\ req' = [req EXCEPT ![q] = Unused]
    /\ UNCHANGED <<now, sessions>>

ReplyLost(q) ==
    /\ req[q].step = "reply"
    /\ req' = [req EXCEPT ![q] = Unused]
    /\ UNCHANGED <<now, sessions, jar>>

-----------------------------------------------------------------------------
\* The request pipeline of a wallet read

HasAdmin(r)  == Valid(sessions, r.cookies["admin"])
HasViewer(r) == \E role \in Roles : Valid(sessions, r.cookies[role])

\* requireAdmin, and the watch; without a session the request ends at once.
WalletArrives(q, b) ==
    /\ req[q].step = "unused" /\ jar[b]["admin"] # 0
    /\ sessions' = Looked(sessions, {jar[b]["admin"]})
    /\ IF Valid(sessions, jar[b]["admin"])
       THEN Arrives(q, b, "routing", Alarm(sessions[jar[b]["admin"]]))
       ELSE UNCHANGED req
    /\ UNCHANGED <<now, jar>>

\* The client may leave at any time; the handler finds out when it resumes.
Disconnects(q) ==
    /\ IsWallet(req[q]) /\ ~req[q].gone
    /\ req' = [req EXCEPT ![q].gone = TRUE]
    /\ UNCHANGED <<now, sessions, jar>>

\* The handler ends, and stops watching: with the data, or with an error or nothing.
Answered(q) == req' = [req EXCEPT ![q] = [@ EXCEPT !.step = "answered", !.timer = 0]]
Refused(q)  == req' = [req EXCEPT ![q] = Unused]

\* The node has answered, or failed.  The session is required again, and a
\* response that is compressed yields once more before it is sent.
RouteReturns(q) ==
    /\ req[q].step = "routing"
    /\ \/ /\ ~req[q].gone /\ ~req[q].revoked
          /\ sessions' = Looked(sessions, {req[q].cookies["admin"]})
          /\ \/ HasAdmin(req[q]) /\ Answered(q)
             \/ HasAdmin(req[q]) /\ req' = [req EXCEPT ![q].step = "compressing"]
             \/ ~HasAdmin(req[q]) /\ Refused(q)
       \/ /\ Refused(q)
          /\ UNCHANGED sessions
    /\ UNCHANGED <<now, jar>>

\* Mutant: compression is the last thing before the response.
CompressedUnchecked(q) ==
    /\ req[q].step = "compressing"
    /\ IF req[q].gone THEN Refused(q) ELSE Answered(q)
    /\ UNCHANGED <<now, sessions, jar>>

\* beforeSend
Compressed(q) ==
    /\ req[q].step = "compressing"
    /\ IF req[q].gone \/ req[q].revoked
       THEN Refused(q) /\ UNCHANGED sessions
       ELSE /\ sessions' = Looked(sessions, {req[q].cookies["admin"]})
            /\ IF HasAdmin(req[q]) THEN Answered(q) ELSE Refused(q)
    /\ UNCHANGED <<now, jar>>

Forget(q) ==
    /\ req[q].step = "answered"
    /\ req' = [req EXCEPT ![q] = Unused]
    /\ UNCHANGED <<now, sessions, jar>>

-----------------------------------------------------------------------------
\* GET /api/stream/system in a mode that asks for authentication

\* requireViewer, the first sample, and the watch.
StreamArrives(q, b) ==
    /\ req[q].step = "unused" /\ jar[b] # NoCookies
    /\ sessions' = Looked(sessions, Range(jar[b]))
    /\ LET active == {sessions[k] : k \in {k \in Range(jar[b]) : Valid(sessions, k)}} IN
       IF active # {} THEN Arrives(q, b, "sampling", Alarm(Min(active))) ELSE UNCHANGED req
    /\ UNCHANGED <<now, jar>>

\* The interval timer; no second sample while one is under way.
SampleStarts(q) ==
    /\ req[q].step = "streaming"
    /\ sessions' = Looked(sessions, Range(req[q].cookies))
    /\ req' = [req EXCEPT ![q].step = IF HasViewer(req[q]) THEN "sampling" ELSE "ended"]
    /\ UNCHANGED <<now, jar>>

\* The metrics are there: an event is written if the session still stands; a
\* client that does not keep up, or a failure, ends the stream.
SampleEnds(q) ==
    /\ req[q].step = "sampling"
    /\ sessions' = Looked(sessions, Range(req[q].cookies))
    /\ \/ HasViewer(req[q]) /\ req' = [req EXCEPT ![q].step = "streaming"]
       \/ req' = [req EXCEPT ![q].step = "ended"]
    /\ UNCHANGED <<now, jar>>

\* The connection of the stream has closed, from either side.
Close(q) ==
    /\ IsStream(req[q]) \/ req[q].step = "ended"
    /\ req' = [req EXCEPT ![q] = Unused]
    /\ UNCHANGED <<now, sessions, jar>>

Tick == now < MaxTime /\ now' = now + 1 /\ UNCHANGED <<sessions, jar, req>>

Next ==
    \/ \E q \in Requests, b \in Browsers :
         \/ \E role \in Roles : Logout(q, b, role) \/ \E k \in Keys : Login(q, b, role, k)
         \/ WalletArrives(q, b) \/ StreamArrives(q, b)
    \/ \E b \in Browsers, role \in Roles : LoginRefused(b, role)
    \/ \E q \in Requests :
         \/ Reply(q) \/ ReplyLost(q)
         \/ RouteReturns(q) \/ Compressed(q) \/ Disconnects(q) \/ Forget(q)
         \/ SampleStarts(q) \/ SampleEnds(q) \/ Close(q)
         \/ TimerFires(q)
    \/ Clear \/ Tick

Spec == Init /\ [][Next]_vars

-----------------------------------------------------------------------------
\* Types of the session map, the cookies and the requests under way.
TypeOK ==
    /\ now \in 0..MaxTime
    /\ sessions \in [Keys -> 0..(MaxTime + LIFETIME)]
    /\ jar \in [Browsers -> [Roles -> Keys \cup {0}]]
    /\ \A q \in Requests :
         /\ req[q].step \in {"unused", "reply", "routing", "compressing", "answered",
                             "streaming", "sampling", "ended"}
         /\ DOMAIN req[q].cookies \subseteq Roles
         /\ req[q].step # "reply" => DOMAIN req[q].cookies = Roles
         /\ req[q].step = "unused" => req[q] = Unused

\* Wallet data and system events leave only while a session of the request
\* stands, although the handler has waited since it was first required.
OnlyToValidSessions ==
    [][\A q \in Requests :
         /\ req'[q].step = "answered" /\ req[q].step # "answered" => HasAdmin(req[q])
         /\ req'[q].step = "streaming" /\ req[q].step # "streaming" => HasViewer(req[q])]_vars

\* A request under way learns in the same step that its last session was revoked:
\* while it has not been told, a session of its cookies is in the map, or its
\* timer is due.
ToldAtOnce ==
    \A q \in Requests :
      (IsWallet(req[q]) /\ ~req[q].revoked) \/ IsStream(req[q])
      => \/ \E k \in Watched(req[q]) \cap Keys : sessions[k] # 0 /\ req[q].timer \in 1..sessions[k]
         \/ req[q].timer \in 1..now

=============================================================================
