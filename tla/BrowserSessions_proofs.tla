----------------------- MODULE BrowserSessions_proofs -----------------------
(***************************************************************************)
(* Proofs about BrowserSessions, for any number of browsers, requests and  *)
(* sessions: a request is told in the step that revokes its last session,  *)
(* what it has waited for leaves only while a session stands, and there is *)
(* room for every session.                                                 *)
(*                                                                         *)
(* A timer that is set is not enough: it must be due before the session it *)
(* relies on ends, and what a request watches must not change under it.    *)
(* A login that is refused tells nobody, which is right only because it    *)
(* has swept expired sessions alone: had it revoked one of its own browser *)
(* there would have been room.  The invariant therefore keeps, besides     *)
(* ToldAtOnce, the number of the sessions and the types of what the        *)
(* requests hold.                                                          *)
(***************************************************************************)
EXTENDS BrowserSessions, WellFoundedInduction, FiniteSetTheorems, TLAPS

Ends  == 0..(MaxTime + LIFETIME)
Steps == {"unused", "reply", "routing", "compressing", "answered",
          "streaming", "sampling", "ended"}

\* The cookies a request holds; only a reply may be about one role alone.
Cookies == UNION {[D -> Keys \cup {0}] : D \in SUBSET Roles}
Records == [step : Steps, from : Browsers \cup {Unused.from}, cookies : Cookies,
            timer : Ends, revoked : BOOLEAN, gone : BOOLEAN]
Typed(r) ==
    /\ r \in Records
    /\ IF r.step = "reply" THEN r.timer = 0 ELSE DOMAIN r.cookies = Roles
    /\ r.step = "unused" => r = Unused

\* A request under way that has not been told of the end of its sessions.
Untold(r) == (IsWallet(r) /\ ~r.revoked) \/ IsStream(r)

\* It relies on a session it watches, and its timer comes no later; or it is due.
Relies(S, time, r) ==
    \/ \E k \in Watched(r) \cap Keys : S[k] # 0 /\ r.timer \in 1..S[k]
    \/ r.timer \in 1..time
Sound(S, time, r) == Untold(r) => Relies(S, time, r)

\* No more sessions than there is room for.
Standing(S) == {k \in Keys : S[k] # 0}
Bounded(S) == IsFiniteSet(Standing(S)) /\ Count(S) <= MAX_SESSIONS

IInv ==
    /\ now \in 0..MaxTime
    /\ sessions \in [Keys -> Ends] /\ Bounded(sessions)
    /\ jar \in [Browsers -> [Roles -> Keys \cup {0}]]
    /\ req \in [Requests -> Records]
    /\ \A q \in Requests : Typed(req[q]) /\ Sound(sessions, now, req[q])

-----------------------------------------------------------------------------
\* The order of the natural numbers, as a relation.
Less == {pair \in Nat \X Nat : pair[1] < pair[2]}
LEMMA LessIsWellFounded == IsWellFoundedOn(Less, Nat)
  BY NatLessThanWellFounded DEF OpToRel, Less

\* Sets of times have a least member: the operator Min of watch's timer.
LEMMA MinFacts ==
    ASSUME NEW T \in SUBSET Nat, T # {}
    PROVE  Min(T) \in T /\ \A y \in T : Min(T) =< y
<1>1. T \subseteq Nat
  OBVIOUS
<1>2. PICK x \in T : \A y \in T : ~(<<y, x>> \in Less)
  BY <1>1, LessIsWellFounded, WFMin
<1>3. ASSUME NEW y \in T PROVE x =< y
  <2>1. ~(y < x)
    BY <1>1, <1>2 DEF Less
  <2>. QED BY <1>1, <2>1
<1>. QED
  BY <1>3 DEF Min

\* The times are natural numbers.
LEMMA TimesAreNatural ==
    /\ Keys \subseteq Nat /\ 0 \notin Keys
    /\ MaxTime \in Nat /\ LIFETIME \in Nat \ {0}
    /\ Ends \subseteq Nat /\ 0 \in Ends
  BY SessionsAssumption DEF Ends

\* A watcher checks before the session ends, or when it does.
LEMMA AlarmFacts ==
    ASSUME now \in 0..MaxTime, NEW e \in Ends, e > now
    PROVE  Alarm(e) \in 1..e /\ Alarm(e) \in Ends
<1>1. now \in Nat /\ e \in Nat /\ MAX_TIMER \in Nat \ {0}
  BY SessionsAssumption DEF Ends
<1>2. e \in 0..(MaxTime + LIFETIME) /\ MaxTime + LIFETIME \in Nat
  BY SessionsAssumption DEF Ends
<1>. QED BY <1>1, <1>2 DEF Alarm, Ends

\* What is blank is typed and relies on nothing.
LEMMA UnusedFacts ==
    /\ NoCookies \in [Roles -> Keys \cup {0}]
    /\ Typed(Unused) /\ ~Untold(Unused)
    /\ Unused.timer = 0 /\ Unused.step = "unused"
<1>1. NoCookies \in [Roles -> Keys \cup {0}] /\ DOMAIN NoCookies = Roles
  BY DEF NoCookies
<1>2. NoCookies \in Cookies
  BY <1>1 DEF Cookies
<1>. QED
  BY <1>1, <1>2, TimesAreNatural DEF Unused, Records, Typed, Untold, IsWallet, IsStream, Steps

\* Cookies of all roles lead to keys, or to none.
LEMMA WatchedFacts ==
    ASSUME NEW r \in Records, DOMAIN r.cookies = Roles
    PROVE  /\ r.cookies \in [Roles -> Keys \cup {0}]
           /\ Watched(r) \subseteq Keys \cup {0}
<1>1. r.cookies \in [Roles -> Keys \cup {0}]
  BY DEF Records, Cookies
<1>. QED
  BY <1>1 DEF Watched, Range, Roles

\* A check leaves an untold request with a valid session and a timer for its end.
LEMMA CheckedFacts ==
    ASSUME NEW S \in [Keys -> Ends], now \in 0..MaxTime, NEW r \in Records, Typed(r),
           r.step \notin {"unused", "reply"}
    PROVE  LET c == Checked(S, r) IN
           /\ Typed(c)
           /\ Untold(c) =>
                \E k \in Watched(c) \cap Keys : S[k] > now /\ c.timer \in 1..S[k]
<1> DEFINE valid == {k \in Watched(r) : Valid(S, k)}
           active == {S[k] : k \in valid}
           c == Checked(S, r)
<1>1. Watched(r) \subseteq Keys \cup {0}
  BY WatchedFacts DEF Typed
<1>2. valid \subseteq Keys /\ active \subseteq Ends /\ \A k \in valid : S[k] > now
  BY <1>1, TimesAreNatural DEF Valid
<1>3. CASE active = {}
  <2>1. CASE IsWallet(r)
    <3>1. c = [r EXCEPT !.timer = 0, !.revoked = TRUE]
      BY <1>3, <2>1 DEF Checked, IsWallet, IsStream, Records
    <3>. QED
      BY <2>1, <3>1, TimesAreNatural DEF Typed, Records, Untold, IsStream, IsWallet
  <2>2. CASE ~IsWallet(r)
    <3>0. IsWallet(r) = FALSE
      BY <2>2 DEF IsWallet
    <3>1. c = [r EXCEPT !.timer = 0, !.revoked = FALSE,
                        !.step = IF IsStream(r) THEN "ended" ELSE @]
      BY <1>3, <3>0 DEF Checked
    <3>. QED
      BY <2>2, <3>1, TimesAreNatural DEF Typed, Records, Steps, Untold, IsStream, IsWallet
  <2>. QED BY <2>1, <2>2
<1>4. CASE active # {}
  <2>1. c = [r EXCEPT !.timer = Alarm(Min(active))]
    BY <1>4 DEF Checked
  <2>2. Min(active) \in active
    BY <1>2, <1>4, MinFacts, TimesAreNatural
  <2>3. PICK k \in valid : S[k] = Min(active)
    BY <2>2
  <2>4. S[k] > now /\ S[k] \in Ends
    BY <1>2
  <2>5. Alarm(S[k]) \in 1..S[k] /\ Alarm(S[k]) \in Ends
    BY <2>4, AlarmFacts
  <2>6. Typed(c)
    BY <2>1, <2>3, <2>5 DEF Typed, Records
  <2>7. Watched(c) = Watched(r) /\ c.timer = Alarm(S[k])
    BY <2>1, <2>3 DEF Watched, IsWallet, Records
  <2>8. k \in Watched(c) \cap Keys
    BY <1>2, <2>7
  <2>. QED BY <2>4, <2>5, <2>6, <2>7, <2>8
<1>. QED BY <1>3, <1>4

-----------------------------------------------------------------------------
\* What a request relies on stays when a session map keeps what has not expired.
Outlives(S, T) == \A k \in Keys : T[k] # S[k] => S[k] <= now

LEMMA ReliesOn ==
    ASSUME now \in 0..MaxTime, NEW S \in [Keys -> Ends], NEW T \in [Keys -> Ends],
           Outlives(S, T), NEW r \in Records, Relies(S, now, r)
    PROVE  Relies(T, now, r)
<1> USE TimesAreNatural
<1>1. CASE r.timer \in 1..now
  BY <1>1 DEF Relies
<1>2. ASSUME NEW k \in Watched(r) \cap Keys, S[k] # 0, r.timer \in 1..S[k]
      PROVE  Relies(T, now, r)
  <2>0. S[k] \in Nat /\ now \in Nat
    <3>1. S[k] \in Ends
      OBVIOUS
    <3>2. now \in Nat
      OBVIOUS
    <3>. QED BY <3>1, <3>2, SessionsAssumption DEF Ends
  <2>1. CASE T[k] = S[k]
    BY <1>2, <2>1 DEF Relies
  <2>2. CASE T[k] # S[k]
    <3>1. S[k] <= now
      BY <2>2 DEF Outlives
    <3>2. r.timer \in 1..now
      BY <1>2, <2>0, <3>1
    <3>. QED BY <3>2 DEF Relies
  <2>. QED BY <2>1, <2>2
<1>. QED BY <1>1, <1>2 DEF Relies

\* A session map that gains no session is bounded if the other is.
LEMMA BoundedBy ==
    ASSUME NEW S, NEW T, Standing(T) \subseteq Standing(S), Bounded(S)
    PROVE  Bounded(T)
<1>1. IsFiniteSet(Standing(T)) /\ Cardinality(Standing(T)) <= Cardinality(Standing(S))
  BY FS_Subset DEF Bounded
<1>2. Cardinality(Standing(T)) \in Nat /\ Cardinality(Standing(S)) \in Nat
  BY <1>1, FS_CardinalityType DEF Bounded
<1>. QED
  BY <1>1, <1>2, SessionsAssumption DEF Bounded, Count, Standing

\* Looking up sessions removes expired ones only.
LEMMA LookedFacts ==
    ASSUME now \in 0..MaxTime, NEW S \in [Keys -> Ends], NEW ks
    PROVE  /\ Looked(S, ks) \in [Keys -> Ends]
           /\ Outlives(S, Looked(S, ks))
           /\ Standing(Looked(S, ks)) \subseteq Standing(S)
  BY TimesAreNatural DEF Looked, Outlives, Standing

\* Every request that is notified is typed, and untold only with a valid session.
LEMMA NotifiedFacts ==
    ASSUME IInv, NEW S \in [Keys -> Ends], NEW q \in Requests
    PROVE  LET c == Notified(S)[q] IN
           /\ Typed(c)
           /\ Untold(c) =>
                \E k \in Watched(c) \cap Keys : S[k] > now /\ c.timer \in 1..S[k]
<1>1. Typed(req[q]) /\ Sound(sessions, now, req[q]) /\ req[q] \in Records
  BY DEF IInv
<1>2. CASE q \in Watching
  <2>1. req[q].step \notin {"unused", "reply"}
    BY <1>1, <1>2, UnusedFacts DEF Watching, Typed
  <2>2. Notified(S)[q] = Checked(S, req[q])
    BY <1>2 DEF Notified
  <2>. QED BY <1>1, <2>1, <2>2, CheckedFacts DEF IInv
<1>3. CASE q \notin Watching
  <2>1. Notified(S)[q] = req[q] /\ req[q].timer = 0
    BY <1>3 DEF Notified, Watching
  <2>2. ~Relies(sessions, now, req[q])
    BY <2>1, TimesAreNatural DEF Relies, IInv
  <2>. QED BY <1>1, <2>1, <2>2 DEF Sound
<1>. QED BY <1>2, <1>3

\* A step of one request, while sessions may only expire, keeps the invariant.
LEMMA OneRequest ==
    ASSUME IInv, now' = now,
           jar' \in [Browsers -> [Roles -> Keys \cup {0}]],
           sessions' \in [Keys -> Ends], Outlives(sessions, sessions'),
           Standing(sessions') \subseteq Standing(sessions),
           NEW q \in Requests, NEW r, req' = [req EXCEPT ![q] = r],
           Typed(r), Sound(sessions', now, r)
    PROVE  IInv'
<1>1. Bounded(sessions')
  BY BoundedBy DEF IInv
<1>2. r \in Records
  BY DEF Typed
<1>3. ASSUME NEW p \in Requests PROVE Typed(req'[p]) /\ Sound(sessions', now, req'[p])
  <2>1. CASE p = q
    BY <2>1 DEF IInv
  <2>2. CASE p # q
    <3>1. req'[p] = req[p] /\ Typed(req[p]) /\ req[p] \in Records
      BY <2>2 DEF IInv
    <3>2. Sound(sessions', now, req[p])
      BY <3>1, ReliesOn DEF IInv, Sound
    <3>. QED BY <3>1, <3>2
  <2>. QED BY <2>1, <2>2
<1>. QED
  BY <1>1, <1>2, <1>3 DEF IInv, Typed, Sound, Relies, Untold, Watched, IsWallet, IsStream,
     Bounded, Count, Standing

\* What is looked up and what stays as it is satisfies the frame of OneRequest.
LEMMA LookedFrame ==
    ASSUME IInv, NEW ks, sessions' = Looked(sessions, ks) \/ sessions' = sessions
    PROVE  /\ sessions' \in [Keys -> Ends] /\ Outlives(sessions, sessions')
           /\ Standing(sessions') \subseteq Standing(sessions)
<1>1. CASE sessions' = Looked(sessions, ks)
  BY <1>1, LookedFacts DEF IInv
<1>2. CASE sessions' = sessions
  BY <1>2 DEF IInv, Outlives
<1>. QED BY <1>1, <1>2

\* A request that goes on, or ends, with the cookies and the timer it has.
LEMMA GoesOn ==
    ASSUME IInv, now' = now, jar' = jar, NEW ks,
           sessions' = Looked(sessions, ks) \/ sessions' = sessions,
           NEW q \in Requests, NEW r, req' = [req EXCEPT ![q] = r], Typed(r),
           r.cookies = req[q].cookies, r.timer = req[q].timer, r.revoked = req[q].revoked,
           IsWallet(r) => IsWallet(req[q]), IsStream(r) => IsStream(req[q])
    PROVE  IInv'
<1>1. req[q] \in Records /\ Sound(sessions, now, req[q])
  BY DEF IInv
<1>2. sessions' \in [Keys -> Ends] /\ Outlives(sessions, sessions')
      /\ Standing(sessions') \subseteq Standing(sessions)
  BY LookedFrame
<1>3. ASSUME Untold(r) PROVE Relies(sessions', now, r)
  <2>1. Untold(req[q]) /\ Watched(r) = Watched(req[q])
    BY <1>3 DEF Untold, Watched, IsWallet, IsStream
  <2>2. Relies(sessions', now, req[q])
    BY <1>1, <1>2, <2>1, ReliesOn DEF Sound, IInv
  <2>. QED BY <2>1, <2>2 DEF Relies
<1>4. jar' \in [Browsers -> [Roles -> Keys \cup {0}]]
  BY DEF IInv
<1>. QED BY <1>2, <1>3, <1>4, OneRequest DEF Sound

\* A request of which nothing is left.
LEMMA RefusedKeeps ==
    ASSUME IInv, now' = now, jar' = jar, NEW ks,
           sessions' = Looked(sessions, ks) \/ sessions' = sessions,
           NEW q \in Requests, Refused(q)
    PROVE  IInv'
<1>1. sessions' \in [Keys -> Ends] /\ Outlives(sessions, sessions')
      /\ Standing(sessions') \subseteq Standing(sessions)
  BY LookedFrame
<1>2. jar' \in [Browsers -> [Roles -> Keys \cup {0}]]
  BY DEF IInv
<1>. QED BY <1>1, <1>2, UnusedFacts, OneRequest DEF Refused, Sound

\* An answer is final: its request watches nothing any more.
LEMMA AnsweredKeeps ==
    ASSUME IInv, now' = now, jar' = jar, NEW ks,
           sessions' = Looked(sessions, ks) \/ sessions' = sessions,
           NEW q \in Requests, IsWallet(req[q]), Answered(q)
    PROVE  IInv'
<1> DEFINE r == [req[q] EXCEPT !.step = "answered", !.timer = 0]
<1>0. req[q] \in Records /\ DOMAIN req[q].cookies = Roles
  BY DEF IInv, Typed, IsWallet
<1>1. Typed(r) /\ ~Untold(r)
  BY <1>0, TimesAreNatural DEF Typed, Records, Steps, Untold, IsWallet, IsStream
<1>2. sessions' \in [Keys -> Ends] /\ Outlives(sessions, sessions')
      /\ Standing(sessions') \subseteq Standing(sessions)
  BY LookedFrame
<1>3. jar' \in [Browsers -> [Roles -> Keys \cup {0}]]
  BY DEF IInv
<1>. QED BY <1>1, <1>2, <1>3, OneRequest DEF Answered, Sound

-----------------------------------------------------------------------------
\* One lemma for every action

\* A timer checks the sessions as a notification does, for one request.
LEMMA TimerKeeps == ASSUME IInv, NEW q \in Requests, TimerFires(q) PROVE IInv'
<1> DEFINE c == Checked(sessions, req[q])
<1>1. q \in Watching /\ now' = now /\ jar' = jar
      /\ sessions' = Looked(sessions, Watched(req[q])) /\ req' = [req EXCEPT ![q] = c]
  BY DEF TimerFires
<1>2. c = Notified(sessions)[q]
  BY <1>1 DEF Notified
<1>3. /\ Typed(c)
      /\ Untold(c) => \E k \in Watched(c) \cap Keys : sessions[k] > now /\ c.timer \in 1..sessions[k]
  BY <1>2, NotifiedFacts DEF IInv
<1>4. Sound(sessions, now, c)
  BY <1>3, TimesAreNatural DEF Sound, Relies, IInv
<1>5. sessions' \in [Keys -> Ends] /\ Outlives(sessions, sessions')
      /\ Standing(sessions') \subseteq Standing(sessions)
  BY <1>1, LookedFrame
<1>6. Sound(sessions', now, c)
  BY <1>3, <1>4, <1>5, ReliesOn DEF Sound, IInv, Typed
<1>7. jar' \in [Browsers -> [Roles -> Keys \cup {0}]]
  BY <1>1 DEF IInv
<1>. QED BY <1>1, <1>3, <1>5, <1>6, <1>7, OneRequest

\* The wallet read goes on to compression, or is over.
LEMMA RouteKeeps == ASSUME IInv, NEW q \in Requests, RouteReturns(q) PROVE IInv'
<1>1. now' = now /\ jar' = jar /\ IsWallet(req[q])
  BY DEF RouteReturns, IsWallet
<1>2. sessions' = Looked(sessions, {req[q].cookies["admin"]}) \/ sessions' = sessions
  BY DEF RouteReturns
<1>3. CASE Answered(q)
  BY <1>1, <1>2, <1>3, AnsweredKeeps
<1>4. CASE Refused(q)
  BY <1>1, <1>2, <1>4, RefusedKeeps
<1>5. CASE req' = [req EXCEPT ![q].step = "compressing"]
  <2> DEFINE r == [req[q] EXCEPT !.step = "compressing"]
  <2>1. req[q] \in Records /\ DOMAIN req[q].cookies = Roles /\ req' = [req EXCEPT ![q] = r]
    BY <1>1, <1>5 DEF IInv, Typed, IsWallet
  <2>2. Typed(r) /\ r.cookies = req[q].cookies /\ r.timer = req[q].timer
        /\ r.revoked = req[q].revoked /\ ~IsStream(r)
    BY <2>1 DEF Typed, Records, Steps, IsStream
  <2>. QED BY <1>1, <1>2, <2>1, <2>2, GoesOn
<1>. QED BY <1>3, <1>4, <1>5 DEF RouteReturns

\* The compressed response leaves, or nothing does.
LEMMA CompressedKeeps == ASSUME IInv, NEW q \in Requests, Compressed(q) PROVE IInv'
<1>1. now' = now /\ jar' = jar /\ IsWallet(req[q])
  BY DEF Compressed, IsWallet
<1>2. sessions' = Looked(sessions, {req[q].cookies["admin"]}) \/ sessions' = sessions
  BY DEF Compressed
<1>3. CASE Answered(q)
  BY <1>1, <1>2, <1>3, AnsweredKeeps
<1>4. CASE Refused(q)
  BY <1>1, <1>2, <1>4, RefusedKeeps
<1>. QED BY <1>3, <1>4 DEF Compressed

\* A client that leaves takes nothing from what its request relies on.
LEMMA DisconnectsKeeps == ASSUME IInv, NEW q \in Requests, Disconnects(q) PROVE IInv'
<1> DEFINE r == [req[q] EXCEPT !.gone = TRUE]
<1>1. now' = now /\ jar' = jar /\ sessions' = sessions /\ IsWallet(req[q])
      /\ req' = [req EXCEPT ![q] = r] /\ req[q] \in Records /\ Typed(req[q])
  BY DEF Disconnects, IInv
<1>2. Typed(r) /\ r.cookies = req[q].cookies /\ r.timer = req[q].timer
      /\ r.revoked = req[q].revoked /\ r.step = req[q].step
  BY <1>1 DEF Typed, Records, IsWallet
<1>. QED BY <1>1, <1>2, GoesOn DEF IsWallet, IsStream

\* A sample begins or ends: the stream goes on, or ends.
LEMMA SampleKeeps ==
    ASSUME IInv, NEW q \in Requests, SampleStarts(q) \/ SampleEnds(q)
    PROVE  IInv'
<1>1. /\ now' = now /\ jar' = jar /\ IsStream(req[q])
      /\ sessions' = Looked(sessions, Range(req[q].cookies))
      /\ \E step \in {"streaming", "sampling", "ended"} : req' = [req EXCEPT ![q].step = step]
  BY DEF SampleStarts, SampleEnds, IsStream
<1>2. PICK step \in {"streaming", "sampling", "ended"} : req' = [req EXCEPT ![q].step = step]
  BY <1>1
<1> DEFINE r == [req[q] EXCEPT !.step = step]
<1>3. req[q] \in Records /\ DOMAIN req[q].cookies = Roles /\ req' = [req EXCEPT ![q] = r]
  BY <1>1, <1>2 DEF IInv, Typed, IsStream
<1>4. Typed(r) /\ r.cookies = req[q].cookies /\ r.timer = req[q].timer
      /\ r.revoked = req[q].revoked /\ ~IsWallet(r)
  BY <1>3 DEF Typed, Records, Steps, IsWallet
<1>. QED BY <1>1, <1>3, <1>4, GoesOn

\* What is over leaves nothing of its request.
LEMMA OverKeeps ==
    ASSUME IInv, NEW q \in Requests, Forget(q) \/ Close(q) \/ ReplyLost(q)
    PROVE  IInv'
<1>1. now' = now /\ jar' = jar /\ sessions' = sessions /\ Refused(q)
  BY DEF Forget, Close, ReplyLost, Refused
<1>. QED BY <1>1, RefusedKeeps

\* The cookies of a reply reach the jar of its browser.
LEMMA ReplyKeeps == ASSUME IInv, NEW q \in Requests, Reply(q) PROVE IInv'
<1> DEFINE b == req[q].from
           cookies == req[q].cookies
<1>1. cookies \in Cookies
  BY DEF IInv, Records
<1>2. PICK D \in SUBSET Roles : cookies \in [D -> Keys \cup {0}]
  BY <1>1 DEF Cookies
<1>3. jar' = [jar EXCEPT ![b] = [role \in Roles |-> IF role \in DOMAIN cookies
                                                   THEN cookies[role] ELSE @[role]]]
  BY DEF Reply
<1>4. ASSUME NEW a \in Browsers PROVE jar'[a] \in [Roles -> Keys \cup {0}]
  <2>0. jar[a] \in [Roles -> Keys \cup {0}]
    BY DEF IInv
  <2>1. CASE a = b
    <3>1. jar'[a] = [role \in Roles |-> IF role \in DOMAIN cookies
                                         THEN cookies[role] ELSE jar[a][role]]
      BY <1>3, <2>1 DEF IInv
    <3>. QED BY <1>2, <2>0, <3>1
  <2>2. CASE a # b
    BY <1>3, <2>0, <2>2 DEF IInv
  <2>. QED BY <2>1, <2>2
<1>5. jar' \in [Browsers -> [Roles -> Keys \cup {0}]]
  BY <1>3, <1>4 DEF IInv
<1>6. now' = now /\ sessions' = sessions /\ req' = [req EXCEPT ![q] = Unused]
  BY DEF Reply
<1>7. sessions' \in [Keys -> Ends] /\ Outlives(sessions, sessions')
      /\ Standing(sessions') \subseteq Standing(sessions)
  BY <1>6, LookedFrame
<1>. QED BY <1>5, <1>6, <1>7, UnusedFacts, OneRequest DEF Sound

\* Time passes: what was due stays due.
LEMMA TickKeeps == ASSUME IInv, Tick PROVE IInv'
<1>1. now \in Nat /\ now' = now + 1 /\ now' \in 0..MaxTime
      /\ sessions' = sessions /\ jar' = jar /\ req' = req
  BY TimesAreNatural DEF Tick, IInv
<1>2. ASSUME NEW q \in Requests PROVE Sound(sessions, now', req[q])
  <2>1. Sound(sessions, now, req[q]) /\ req[q].timer \in Nat
    BY TimesAreNatural DEF IInv, Records
  <2>2. req[q].timer \in 1..now => req[q].timer \in 1..now'
    BY <1>1, <2>1
  <2>. QED BY <2>1, <2>2 DEF Sound, Relies
<1>. QED
  BY <1>1, <1>2 DEF IInv, Typed, Sound, Relies, Untold, Watched, IsWallet, IsStream,
     Bounded, Count, Standing

-----------------------------------------------------------------------------
\* A request arrives with the cookies of its browser.
Arrival(b, step, timer) ==
    [Unused EXCEPT !.step = step, !.from = b, !.cookies = jar[b], !.timer = timer]

LEMMA ArrivalFacts ==
    ASSUME IInv, NEW b \in Browsers, NEW step \in {"routing", "sampling"}, NEW timer \in Ends
    PROVE  LET r == Arrival(b, step, timer) IN
           Typed(r) /\ r.step = step /\ r.timer = timer /\ r.cookies = jar[b]
<1>1. jar[b] \in [Roles -> Keys \cup {0}]
  BY DEF IInv
<1>2. jar[b] \in Cookies /\ DOMAIN jar[b] = Roles
  BY <1>1 DEF Cookies
<1>3. Unused \in Records
  BY UnusedFacts DEF Typed
<1>. QED BY <1>2, <1>3 DEF Arrival, Typed, Records, Steps

\* A request that is turned away at once.
LEMMA TurnedAway ==
    ASSUME IInv, NEW ks, now' = now, jar' = jar, sessions' = Looked(sessions, ks), req' = req,
           NEW q \in Requests
    PROVE  IInv'
<1>1. req' = [req EXCEPT ![q] = req[q]] /\ Typed(req[q])
  BY DEF IInv
<1>. QED BY <1>1, GoesOn

\* A request that arrives and relies on a session it watches.
LEMMA Arrived ==
    ASSUME IInv, NEW ks, now' = now, jar' = jar, sessions' = Looked(sessions, ks),
           NEW q \in Requests, NEW b \in Browsers, NEW step \in {"routing", "sampling"},
           NEW k \in Keys, sessions[k] > now, Arrives(q, b, step, Alarm(sessions[k])),
           k \in Watched(Arrival(b, step, Alarm(sessions[k])))
    PROVE  IInv'
<1> DEFINE r == Arrival(b, step, Alarm(sessions[k]))
<1>0. sessions[k] \in Ends /\ sessions[k] \in Nat /\ now \in Nat
  <2>1. sessions[k] \in Ends /\ now \in 0..MaxTime
    BY DEF IInv
  <2>2. now \in Nat
    BY <2>1
  <2>. QED BY <2>1, <2>2, TimesAreNatural
<1>1. /\ Typed(r) /\ r.timer = Alarm(sessions[k])
      /\ Alarm(sessions[k]) \in 1..sessions[k]
  BY <1>0, AlarmFacts, ArrivalFacts DEF IInv
<1>2. Relies(sessions, now, r)
  BY <1>0, <1>1 DEF Relies
<1>3. sessions' \in [Keys -> Ends] /\ Outlives(sessions, sessions')
      /\ Standing(sessions') \subseteq Standing(sessions)
  BY LookedFrame
<1>4. Sound(sessions', now, r)
  BY <1>1, <1>2, <1>3, ReliesOn DEF Sound, IInv, Typed
<1>5. req' = [req EXCEPT ![q] = r] /\ jar' \in [Browsers -> [Roles -> Keys \cup {0}]]
  BY DEF Arrives, Arrival, IInv
<1>. QED BY <1>1, <1>3, <1>4, <1>5, OneRequest

\* A wallet read arrives.
LEMMA WalletArrivesKeeps ==
    ASSUME IInv, NEW q \in Requests, NEW b \in Browsers, WalletArrives(q, b)
    PROVE  IInv'
<1> DEFINE k == jar[b]["admin"]
<1>1. now' = now /\ jar' = jar /\ sessions' = Looked(sessions, {k}) /\ k # 0
  BY DEF WalletArrives
<1>2. CASE Valid(sessions, k)
  <2>1. k \in Keys /\ sessions[k] > now
    BY <1>1, <1>2 DEF IInv, Valid, Roles
  <2>2. Arrives(q, b, "routing", Alarm(sessions[k]))
    BY <1>2 DEF WalletArrives
  <2>3. Alarm(sessions[k]) \in Ends
    BY <2>1, AlarmFacts DEF IInv
  <2>4. k \in Watched(Arrival(b, "routing", Alarm(sessions[k])))
    BY <2>3, ArrivalFacts DEF Watched, IsWallet
  <2>. QED BY <1>1, <2>1, <2>2, <2>4, Arrived
<1>3. CASE ~Valid(sessions, k)
  BY <1>1, <1>3, TurnedAway DEF WalletArrives
<1>. QED BY <1>2, <1>3

\* A stream opens, with its timer at the first expiry.
LEMMA StreamArrivesKeeps ==
    ASSUME IInv, NEW q \in Requests, NEW b \in Browsers, StreamArrives(q, b)
    PROVE  IInv'
<1> DEFINE valid == {k \in Range(jar[b]) : Valid(sessions, k)}
           active == {sessions[k] : k \in valid}
<1>1. now' = now /\ jar' = jar /\ sessions' = Looked(sessions, Range(jar[b]))
  BY DEF StreamArrives
<1>2. jar[b] \in [Roles -> Keys \cup {0}]
  BY DEF IInv
<1>3. valid \subseteq Keys /\ \A k \in valid : sessions[k] > now
  BY <1>2 DEF Valid, Range, Roles
<1>6. active \subseteq Nat
  BY <1>3, TimesAreNatural DEF IInv
<1>4. CASE active # {}
  <2>1. Arrives(q, b, "sampling", Alarm(Min(active)))
    BY <1>4 DEF StreamArrives
  <2>2. Min(active) \in active
    BY <1>4, <1>6, MinFacts
  <2>3. PICK k \in valid : sessions[k] = Min(active)
    BY <2>2
  <2>4. k \in Keys /\ sessions[k] \in Ends /\ k \in Range(jar[b]) /\ sessions[k] > now
    BY <1>3 DEF IInv
  <2>5. Alarm(sessions[k]) \in Ends
    BY <2>4, AlarmFacts DEF IInv
  <2>6. k \in Watched(Arrival(b, "sampling", Alarm(sessions[k])))
    BY <2>4, <2>5, ArrivalFacts DEF Watched, IsWallet
  <2>. QED BY <1>1, <2>1, <2>3, <2>4, <2>6, Arrived
<1>5. CASE active = {}
  BY <1>1, <1>5, TurnedAway DEF StreamArrives
<1>. QED BY <1>4, <1>5

-----------------------------------------------------------------------------
\* T keeps every session of S that has not expired.
Kept(S, T) == \A k \in Keys : S[k] > now => T[k] = S[k]

\* In R every watcher has checked the sessions of S, or waits for nothing any more.
Told(S, R) == \A q \in Requests : R[q] = Notified(S)[q] \/ (Typed(R[q]) /\ ~Untold(R[q]))

\* Every watcher has checked the sessions of S, of which those that stand remain.
LEMMA AllNotified ==
    ASSUME IInv, now' = now, jar' = jar, NEW S \in [Keys -> Ends],
           sessions' \in [Keys -> Ends], Bounded(sessions'), Kept(S, sessions'),
           req' \in [Requests -> Records], Told(S, req')
    PROVE  IInv'
<1>1. ASSUME NEW q \in Requests PROVE Typed(req'[q]) /\ Sound(sessions', now, req'[q])
  <2>1. CASE req'[q] = Notified(S)[q]
    <3> DEFINE c == Notified(S)[q]
    <3>1. Typed(c) /\ (Untold(c) => \E k \in Watched(c) \cap Keys :
                                        S[k] > now /\ c.timer \in 1..S[k])
      BY NotifiedFacts
    <3>2. ASSUME Untold(c) PROVE Relies(sessions', now, c)
      <4>1. PICK k \in Watched(c) \cap Keys : S[k] > now /\ c.timer \in 1..S[k]
        BY <3>1, <3>2
      <4>2. sessions'[k] = S[k]
        BY <4>1 DEF Kept
      <4>3. S[k] # 0
        <5>1. now \in Nat
          BY DEF IInv
        <5>. QED BY <4>1, <5>1
      <4>. QED BY <4>1, <4>2, <4>3 DEF Relies
    <3>. QED BY <2>1, <3>1, <3>2 DEF Sound
  <2>2. CASE Typed(req'[q]) /\ ~Untold(req'[q])
    BY <2>2 DEF Sound
  <2>. QED BY <2>1, <2>2 DEF Told
<1>. QED
  BY <1>1 DEF IInv, Typed, Sound, Relies, Untold, Watched, IsWallet, IsStream,
     Bounded, Count, Standing

\* The record of a reply, of which nobody needs to be told.
LEMMA ReplyFacts ==
    ASSUME NEW b \in Browsers, NEW D \in SUBSET Roles, NEW cookies \in [D -> Keys \cup {0}]
    PROVE  LET r == [Unused EXCEPT !.step = "reply", !.from = b, !.cookies = cookies] IN
           Typed(r) /\ ~Untold(r)
<1>1. Unused \in Records /\ Unused.timer = 0
  BY UnusedFacts DEF Typed
<1>2. cookies \in Cookies
  BY DEF Cookies
<1>. QED
  BY <1>1, <1>2 DEF Typed, Records, Steps, Untold, IsWallet, IsStream

\* Every watcher is notified, and the reply takes the place of its request.
LEMMA ReplyingKeeps ==
    ASSUME IInv, now' = now, jar' = jar, NEW S \in [Keys -> Ends],
           sessions' \in [Keys -> Ends], Bounded(sessions'), Kept(S, sessions'),
           NEW q \in Requests, NEW b \in Browsers, NEW D \in SUBSET Roles,
           NEW cookies \in [D -> Keys \cup {0}], req' = Replying(Notified(S), q, b, cookies)
    PROVE  IInv'
<1> DEFINE r == [Unused EXCEPT !.step = "reply", !.from = b, !.cookies = cookies]
<1>1. Typed(r) /\ ~Untold(r)
  BY ReplyFacts
<1>3. req' = [Notified(S) EXCEPT ![q] = r]
  BY DEF Replying
<1>4. Notified(S) \in [Requests -> Records]
  BY NotifiedFacts DEF Notified, Typed
<1>5. req' \in [Requests -> Records]
      /\ \A p \in Requests : req'[p] = IF p = q THEN r ELSE Notified(S)[p]
  BY <1>1, <1>3, <1>4 DEF Typed
<1>6. Told(S, req')
  BY <1>1, <1>5 DEF Told
<1>. QED BY <1>5, <1>6, AllNotified

\* The sweep makes room: what it leaves stood before.
LEMMA RoomFacts ==
    ASSUME IInv, NEW b \in Browsers, NEW role \in Roles
    PROVE  /\ Room(b, role) \in [Keys -> Ends]
           /\ Standing(Room(b, role)) \subseteq Standing(sessions)
           /\ Bounded(Room(b, role))
<1>1. /\ Room(b, role) \in [Keys -> Ends]
      /\ Standing(Room(b, role)) \subseteq Standing(sessions)
  BY TimesAreNatural DEF Room, Standing, IInv
<1>. QED BY <1>1, BoundedBy DEF IInv

\* A login replaces the session of its browser; every watcher hears of it.
LEMMA LoginKeeps ==
    ASSUME IInv, NEW q \in Requests, NEW b \in Browsers, NEW role \in Roles, NEW k \in Keys,
           Login(q, b, role, k)
    PROVE  IInv'
<1> DEFINE room == Room(b, role)
<1>1. now' = now /\ jar' = jar /\ Count(room) < MAX_SESSIONS
      /\ sessions' = [room EXCEPT ![k] = now + LIFETIME]
      /\ req' = Replying(Notified(sessions'), q, b, [r \in {role} |-> k])
  BY DEF Login
<1>2. now + LIFETIME \in Ends
  BY TimesAreNatural DEF IInv, Ends
<1>3. sessions' \in [Keys -> Ends]
  BY <1>1, <1>2, RoomFacts
<1>4. Standing(sessions') \subseteq Standing(room) \cup {k}
  BY <1>1, RoomFacts DEF Standing
<1>5. Bounded(sessions')
  <2> DEFINE T == Standing(room) \cup {k}
  <2>1. IsFiniteSet(Standing(room)) /\ Cardinality(Standing(room)) < MAX_SESSIONS
    BY <1>1, RoomFacts DEF Bounded, Count, Standing
  <2>2. IsFiniteSet(T) /\ Cardinality(T) <= Cardinality(Standing(room)) + 1
    <3>1. IsFiniteSet(T) /\ (\/ Cardinality(T) = Cardinality(Standing(room))
                             \/ Cardinality(T) = Cardinality(Standing(room)) + 1)
      BY <2>1, FS_AddElement
    <3>2. Cardinality(Standing(room)) \in Nat
      BY <2>1, FS_CardinalityType
    <3>. QED BY <3>1, <3>2
  <2>3. IsFiniteSet(Standing(sessions'))
        /\ Cardinality(Standing(sessions')) <= Cardinality(T)
    BY <1>4, <2>2, FS_Subset
  <2>4. /\ Cardinality(T) \in Nat /\ Cardinality(Standing(room)) \in Nat
        /\ Cardinality(Standing(sessions')) \in Nat
    BY <2>1, <2>2, <2>3, FS_CardinalityType
  <2>5. Cardinality(Standing(sessions')) <= MAX_SESSIONS
    BY <2>1, <2>2, <2>3, <2>4, SessionsAssumption
  <2>. QED BY <2>3, <2>5 DEF Bounded, Count, Standing
<1>6. {role} \in SUBSET Roles /\ [r \in {role} |-> k] \in [{role} -> Keys \cup {0}]
  OBVIOUS
<1>7. Kept(sessions', sessions')
  BY DEF Kept
<1>. QED BY <1>1, <1>3, <1>5, <1>6, <1>7, ReplyingKeeps

\* A logout ends the sessions of its browser; every watcher hears of it.
LEMMA LogoutKeeps ==
    ASSUME IInv, NEW q \in Requests, NEW b \in Browsers, NEW role \in Roles,
           Logout(q, b, role)
    PROVE  IInv'
<1> DEFINE roles == IF role = "view" THEN Roles ELSE {"admin"}
           left == [k \in Keys |-> IF \E item \in roles : k = jar[b][item] THEN 0
                                   ELSE sessions[k]]
<1>1. now' = now /\ jar' = jar /\ sessions' = Looked(left, WatchedKeys)
      /\ req' = Replying(Notified(left), q, b, [item \in roles |-> 0])
  BY DEF Logout
<1>2. left \in [Keys -> Ends] /\ Standing(left) \subseteq Standing(sessions)
  BY TimesAreNatural DEF IInv, Standing
<1>3. sessions' \in [Keys -> Ends] /\ Outlives(left, sessions')
      /\ Standing(sessions') \subseteq Standing(left)
  BY <1>1, <1>2, LookedFacts DEF IInv
<1>4. Bounded(sessions')
  BY <1>2, <1>3, BoundedBy DEF IInv
<1>5. Kept(left, sessions')
  <2> SUFFICES ASSUME NEW k \in Keys, left[k] > now PROVE ~(left[k] <= now)
    BY <1>3 DEF Kept, Outlives
  <2>1. left[k] \in Nat
    BY <1>2, TimesAreNatural
  <2>2. now \in Nat
    BY DEF IInv
  <2>. QED BY <2>1, <2>2
<1>6. roles \in SUBSET Roles /\ [item \in roles |-> 0] \in [roles -> Keys \cup {0}]
  BY DEF Roles
<1>. QED BY <1>1, <1>2, <1>3, <1>4, <1>5, <1>6, ReplyingKeeps

\* With the application closed nobody waits for a session.
LEMMA ClearKeeps == ASSUME IInv, Clear PROVE IInv'
<1>1. now' = now /\ jar' = jar /\ sessions' = [k \in Keys |-> 0]
  BY DEF Clear
<1>2. sessions' \in [Keys -> Ends] /\ Standing(sessions') \subseteq Standing(sessions)
  BY <1>1, TimesAreNatural DEF Standing
<1>3. Bounded(sessions')
  BY <1>2, BoundedBy DEF IInv
<1>4. req' = [q \in Requests |->
                 LET r == Notified(sessions')[q]
                 IN IF IsStream(r) THEN [r EXCEPT !.step = "ended"] ELSE r]
  BY DEF Clear
<1>5. ASSUME NEW q \in Requests
      PROVE  \/ req'[q] = Notified(sessions')[q]
             \/ Typed(req'[q]) /\ ~Untold(req'[q])
  <2> DEFINE r == Notified(sessions')[q]
  <2>1. CASE IsStream(r)
    <3>1. req'[q] = [r EXCEPT !.step = "ended"]
      BY <1>4, <2>1
    <3>2. Typed(r)
      BY <1>2, NotifiedFacts
    <3>. QED BY <2>1, <3>1, <3>2 DEF Typed, Records, Steps, Untold, IsWallet, IsStream
  <2>2. CASE ~IsStream(r)
    BY <1>4, <2>2
  <2>. QED BY <2>1, <2>2
<1>6. req' \in [Requests -> Records]
  <2>1. ASSUME NEW q \in Requests PROVE req'[q] \in Records
    BY <1>2, <1>5, NotifiedFacts DEF Typed
  <2>. QED BY <1>4, <2>1
<1>7. Kept(sessions', sessions') /\ Told(sessions', req')
  BY <1>5 DEF Kept, Told
<1>. QED BY <1>1, <1>2, <1>3, <1>6, <1>7, AllNotified

\* A login that finds no room has swept expired sessions only: with a session of
\* its browser revoked there would have been room for one.
LEMMA LoginRefusedKeeps ==
    ASSUME IInv, NEW b \in Browsers, NEW role \in Roles, LoginRefused(b, role)
    PROVE  IInv'
<1> DEFINE own == jar[b][role]
           room == Room(b, role)
<1>1. now' = now /\ jar' = jar /\ req' = req /\ sessions' = room /\ Count(room) >= MAX_SESSIONS
  BY DEF LoginRefused
<1>2. ASSUME own \in Keys, sessions[own] > now PROVE FALSE
  <2>1. own \in Standing(sessions) /\ own \notin Standing(room)
    <3>1. sessions[own] # 0
      <4>1. now \in Nat
        BY DEF IInv
      <4>. QED BY <1>2, <4>1
    <3>2. room[own] = 0
      BY <1>2 DEF Room
    <3>. QED BY <1>2, <3>1, <3>2 DEF Standing
  <2>2. Standing(room) \subseteq Standing(sessions) \ {own}
    BY <2>1, RoomFacts
  <2>3. IsFiniteSet(Standing(sessions)) /\ Cardinality(Standing(sessions)) <= MAX_SESSIONS
    BY DEF IInv, Bounded, Count, Standing
  <2>4. IsFiniteSet(Standing(sessions) \ {own})
        /\ Cardinality(Standing(sessions) \ {own}) = Cardinality(Standing(sessions)) - 1
    BY <2>1, <2>3, FS_RemoveElement
  <2>5. Cardinality(Standing(room)) <= Cardinality(Standing(sessions) \ {own})
        /\ IsFiniteSet(Standing(room))
    BY <2>2, <2>4, FS_Subset
  <2>6. /\ Cardinality(Standing(sessions)) \in Nat /\ Cardinality(Standing(room)) \in Nat
        /\ Cardinality(Standing(sessions) \ {own}) \in Nat
    BY <2>3, <2>4, <2>5, FS_CardinalityType
  <2>7. Cardinality(Standing(room)) >= MAX_SESSIONS
    BY <1>1 DEF Count, Standing
  <2>. QED BY <2>3, <2>4, <2>5, <2>6, <2>7, SessionsAssumption
<1>3. Outlives(sessions, room)
  <2> SUFFICES ASSUME NEW k \in Keys, room[k] # sessions[k], ~(sessions[k] <= now)
               PROVE  FALSE
    BY DEF Outlives
  <2>1. k = own
    BY DEF Room
  <2>2. sessions[k] \in Nat
    BY TimesAreNatural DEF IInv
  <2>3. now \in Nat
    BY DEF IInv
  <2>. QED BY <1>2, <2>1, <2>2, <2>3
<1>4. room \in [Keys -> Ends] /\ Bounded(room)
  BY RoomFacts
<1>5. ASSUME NEW q \in Requests PROVE Sound(room, now, req[q])
  BY <1>3, <1>4, ReliesOn DEF IInv, Sound
<1>. QED
  BY <1>1, <1>4, <1>5 DEF IInv, Typed, Sound, Relies, Untold, Watched, IsWallet, IsStream,
     Bounded, Count, Standing

-----------------------------------------------------------------------------
\* No session, no cookie and no request at the start.
LEMMA InitIInv == Init => IInv
<1> SUFFICES ASSUME Init PROVE IInv
  OBVIOUS
<1>1. now \in 0..MaxTime /\ sessions \in [Keys -> Ends]
  BY TimesAreNatural DEF Init
<1>2. Standing(sessions) = {}
  BY DEF Init, Standing
<1>3. Bounded(sessions)
  BY <1>2, FS_EmptySet, SessionsAssumption DEF Bounded, Count, Standing
<1>4. jar \in [Browsers -> [Roles -> Keys \cup {0}]]
  BY UnusedFacts DEF Init
<1>5. req = [q \in Requests |-> Unused] /\ Unused \in Records
  BY UnusedFacts DEF Init, Typed
<1>. QED BY <1>1, <1>3, <1>4, <1>5, UnusedFacts DEF IInv, Sound

\* Every step keeps the invariant.
LEMMA NextKeeps == IInv /\ [Next]_vars => IInv'
<1> SUFFICES ASSUME IInv, [Next]_vars PROVE IInv'
  OBVIOUS
<1>1. CASE UNCHANGED vars
  BY <1>1 DEF vars, IInv, Typed, Sound, Relies, Untold, Watched, IsWallet, IsStream,
     Bounded, Count, Standing
<1>2. ASSUME NEW q \in Requests, NEW b \in Browsers,
             \/ \E role \in Roles : Logout(q, b, role) \/ \E k \in Keys : Login(q, b, role, k)
             \/ WalletArrives(q, b) \/ StreamArrives(q, b)
      PROVE  IInv'
  BY <1>2, LogoutKeeps, LoginKeeps, WalletArrivesKeeps, StreamArrivesKeeps
<1>3. ASSUME NEW b \in Browsers, NEW role \in Roles, LoginRefused(b, role) PROVE IInv'
  BY <1>3, LoginRefusedKeeps
<1>4. ASSUME NEW q \in Requests,
             \/ Reply(q) \/ ReplyLost(q)
             \/ RouteReturns(q) \/ Compressed(q) \/ Disconnects(q) \/ Forget(q)
             \/ SampleStarts(q) \/ SampleEnds(q) \/ Close(q)
             \/ TimerFires(q)
      PROVE  IInv'
  BY <1>4, ReplyKeeps, OverKeeps, RouteKeeps, CompressedKeeps, DisconnectsKeeps, SampleKeeps,
     TimerKeeps
<1>5. CASE Clear \/ Tick
  BY <1>5, ClearKeeps, TickKeeps
<1>. QED BY <1>1, <1>2, <1>3, <1>4, <1>5 DEF Next

\* The types of everything the requests hold, the room for sessions and what a
\* request relies on: the inductive invariant of the sessions.
THEOREM SessionsInvariance == Spec => []IInv
  BY InitIInv, NextKeeps, PTL DEF Spec

\* The types of the map, the cookies and the requests under way: only a reply may be
\* about one role alone.
THEOREM SessionsTypes == Spec => []TypeOK
<1>1. IInv => TypeOK
  <2> SUFFICES ASSUME IInv PROVE TypeOK
    OBVIOUS
  <2>1. ASSUME NEW q \in Requests
        PROVE  /\ req[q].step \in {"unused", "reply", "routing", "compressing", "answered",
                                   "streaming", "sampling", "ended"}
               /\ DOMAIN req[q].cookies \subseteq Roles
               /\ req[q].step # "reply" => DOMAIN req[q].cookies = Roles
               /\ req[q].step = "unused" => req[q] = Unused
    <3>1. req[q] \in Records /\ Typed(req[q])
      BY DEF IInv
    <3>2. req[q].step \in Steps /\ req[q].cookies \in Cookies
      BY <3>1 DEF Records
    <3>3. DOMAIN req[q].cookies \subseteq Roles
      BY <3>2 DEF Cookies
    <3>. QED BY <3>1, <3>2, <3>3 DEF Typed, Steps
  <2>. QED BY <2>1 DEF IInv, TypeOK, Ends
<1>. QED BY <1>1, SessionsInvariance, PTL

\* notify, logout, the timers of watch: whoever waits for the node, for compression
\* or for the next sample has been told when the last session of the request was
\* revoked, or its timer is due; for any number of browsers, requests and sessions.
THEOREM RevocationIsTold == Spec => []ToldAtOnce
<1>1. IInv => ToldAtOnce
  BY DEF IInv, ToldAtOnce, Sound, Relies, Untold
<1>. QED BY <1>1, SessionsInvariance, PTL

\* issue: the map never holds more sessions than MAX_SESSIONS, a login that
\* replaces a session of its browser included.
THEOREM RoomForSessions == Spec => [](Count(sessions) <= MAX_SESSIONS)
<1>1. IInv => Count(sessions) <= MAX_SESSIONS
  BY DEF IInv, Bounded
<1>. QED BY <1>1, SessionsInvariance, PTL

\* What request q sends in a step it sends while a session of its cookies stands.
Sends(q) == /\ req'[q].step = "answered" /\ req[q].step # "answered" => HasAdmin(req[q])
            /\ req'[q].step = "streaming" /\ req[q].step # "streaming" => HasViewer(req[q])

\* The step leaves q where it is, or where nothing is sent.
Quiet(q) == req'[q].step \in {req[q].step, "reply", "ended", "unused", "routing",
                              "compressing", "sampling"}

\* A check of the watchers ends a request or leaves it where it is.
LEMMA NotifiedQuiet ==
    ASSUME IInv, NEW S, NEW q \in Requests
    PROVE  Notified(S)[q].step \in {req[q].step, "ended"}
<1>1. req[q] \in Records
  BY DEF IInv
<1>2. Checked(S, req[q]).step \in {req[q].step, "ended"}
  BY <1>1 DEF Checked, Records
<1>. QED BY <1>2 DEF Notified

\* Neither the watchers nor the reply of a login or a logout send anything.
LEMMA ReplyingQuiet ==
    ASSUME IInv, NEW S, NEW p \in Requests, NEW b, NEW cookies,
           req' = Replying(Notified(S), p, b, cookies), NEW q \in Requests
    PROVE  Quiet(q)
<1> DEFINE r == [Unused EXCEPT !.step = "reply", !.from = b, !.cookies = cookies]
<1>1. r.step = "reply"
  BY UnusedFacts DEF Typed, Records
<1>2. req'[q] = IF q = p THEN r ELSE Notified(S)[q]
  BY DEF Replying, Notified
<1>3. CASE q = p
  BY <1>1, <1>2, <1>3 DEF Quiet
<1>4. CASE q # p
  <2>1. Notified(S)[q].step \in {req[q].step, "ended"}
    BY NotifiedQuiet
  <2>. QED BY <1>2, <1>4, <2>1 DEF Quiet
<1>. QED BY <1>3, <1>4

\* beforeSend, requireAdmin and the stream's sample: wallet data and system events
\* leave only in a step in which a session of the request stands.
THEOREM SentOnlyToValidSessions == Spec => OnlyToValidSessions
<1> DEFINE Sent == \A q \in Requests : Sends(q)
<1>0. \A q \in Requests : Quiet(q) => Sends(q)
  BY DEF Quiet, Sends
<1>1. ASSUME IInv, NEW p \in Requests, NEW b \in Browsers, NEW role \in Roles, Logout(p, b, role)
      PROVE  Sent
  <2>1. PICK S, cookies : req' = Replying(Notified(S), p, b, cookies)
    BY <1>1 DEF Logout
  <2>. QED BY <1>0, <1>1, <2>1, ReplyingQuiet
<1>2. ASSUME IInv, NEW p \in Requests, NEW b \in Browsers, NEW role \in Roles, NEW k \in Keys,
             Login(p, b, role, k)
      PROVE  Sent
  BY <1>0, <1>2, ReplyingQuiet DEF Login
<1>3. ASSUME IInv, NEW p \in Requests, NEW b \in Browsers,
             WalletArrives(p, b) \/ StreamArrives(p, b)
      PROVE  Sent
  <2>1. CASE req' = req
    BY <1>0, <2>1 DEF Quiet
  <2>2. CASE \E step \in {"routing", "sampling"} : \E time : Arrives(p, b, step, time)
    <3>1. PICK step \in {"routing", "sampling"} : \E time : Arrives(p, b, step, time)
      BY <2>2
    <3>2. ASSUME NEW q \in Requests PROVE Quiet(q)
      BY <1>3, <3>1, UnusedFacts DEF Arrives, Quiet, IInv, Typed, Records
    <3>. QED BY <1>0, <3>2
  <2>. QED BY <1>3, <2>1, <2>2 DEF WalletArrives, StreamArrives
<1>4. ASSUME IInv, NEW p \in Requests, NEW step, NEW q \in Requests,
             req' = [req EXCEPT ![p].step = step]
      PROVE  req'[q].step = IF q = p THEN step ELSE req[q].step
  BY <1>4 DEF IInv, Records
<1>5. ASSUME IInv, NEW p \in Requests, NEW q \in Requests, Refused(p)
      PROVE  Quiet(q)
  BY <1>5, UnusedFacts DEF Refused, Quiet, IInv
<1>6. ASSUME IInv, NEW p \in Requests, NEW q \in Requests, Answered(p), HasAdmin(req[p])
      PROVE  Sends(q)
  <2>1. CASE q = p
    BY <1>6, <2>1 DEF Answered, Sends, IInv, Records
  <2>2. CASE q # p
    BY <1>6, <2>2 DEF Answered, Sends, IInv, Records
  <2>. QED BY <2>1, <2>2
<1>7. ASSUME IInv, NEW p \in Requests, RouteReturns(p) PROVE Sent
  <2>1. CASE Answered(p) /\ HasAdmin(req[p])
    BY <1>6, <1>7, <2>1
  <2>2. CASE Refused(p)
    BY <1>0, <1>5, <1>7, <2>2
  <2>3. CASE req' = [req EXCEPT ![p].step = "compressing"]
    BY <1>0, <1>4, <1>7, <2>3 DEF Quiet
  <2>. QED BY <1>7, <2>1, <2>2, <2>3 DEF RouteReturns
<1>8. ASSUME IInv, NEW p \in Requests, Compressed(p) PROVE Sent
  BY <1>0, <1>5, <1>6, <1>8 DEF Compressed
<1>9. ASSUME IInv, NEW p \in Requests, SampleStarts(p) PROVE Sent
  BY <1>0, <1>4, <1>9 DEF SampleStarts, Quiet
<1>10. ASSUME IInv, NEW p \in Requests, SampleEnds(p) PROVE Sent
  <2>1. CASE HasViewer(req[p]) /\ req' = [req EXCEPT ![p].step = "streaming"]
    BY <1>4, <1>10, <2>1 DEF Sends
  <2>2. CASE req' = [req EXCEPT ![p].step = "ended"]
    BY <1>0, <1>4, <1>10, <2>2 DEF Quiet
  <2>. QED BY <1>10, <2>1, <2>2 DEF SampleEnds
<1>11. ASSUME IInv, NEW p \in Requests,
              Reply(p) \/ ReplyLost(p) \/ Forget(p) \/ Close(p)
       PROVE  Sent
  <2>1. Refused(p)
    BY <1>11 DEF Reply, ReplyLost, Forget, Close, Refused
  <2>. QED BY <1>0, <1>5, <1>11, <2>1
<1>12. ASSUME IInv, NEW p \in Requests, Disconnects(p) PROVE Sent
  <2>1. ASSUME NEW q \in Requests PROVE Quiet(q)
    BY <1>12 DEF Disconnects, Quiet, IInv, Records
  <2>. QED BY <1>0, <2>1
<1>13. ASSUME IInv, NEW p \in Requests, TimerFires(p) PROVE Sent
  <2>1. req' = [req EXCEPT ![p] = Notified(sessions)[p]]
    BY <1>13 DEF TimerFires, Notified
  <2>2. ASSUME NEW q \in Requests PROVE Quiet(q)
    BY <1>13, <2>1, NotifiedQuiet DEF Quiet, IInv
  <2>. QED BY <1>0, <2>2
<1>14. ASSUME IInv, Clear PROVE Sent
  <2>1. ASSUME NEW q \in Requests PROVE Quiet(q)
    <3> DEFINE r == Notified(sessions')[q]
    <3>1. r.step \in {req[q].step, "ended"}
      BY <1>14, NotifiedQuiet
    <3>2. CASE IsStream(r)
      <4>1. req'[q] = [r EXCEPT !.step = "ended"]
        BY <1>14, <3>2 DEF Clear
      <4>2. r \in Records
        BY <1>14, TimesAreNatural, NotifiedFacts DEF Clear, Typed
      <4>. QED BY <4>1, <4>2 DEF Quiet, Records
    <3>3. CASE ~IsStream(r)
      <4>1. req'[q] = r
        BY <1>14, <3>3 DEF Clear
      <4>. QED BY <3>1, <4>1 DEF Quiet
    <3>. QED BY <3>2, <3>3
  <2>. QED BY <1>0, <2>1
<1>15. ASSUME IInv, req' = req PROVE Sent
  BY <1>15 DEF Sends
<1>16. IInv /\ Next => Sent
  BY <1>1, <1>2, <1>3, <1>7, <1>8, <1>9, <1>10, <1>11, <1>12, <1>13, <1>14, <1>15
     DEF Next, LoginRefused, Tick
<1>17. IInv /\ [Next]_vars =>
         [\A q \in Requests :
            /\ req'[q].step = "answered" /\ req[q].step # "answered" => HasAdmin(req[q])
            /\ req'[q].step = "streaming" /\ req[q].step # "streaming" => HasViewer(req[q])]_vars
  BY <1>16 DEF Sends
<1>. QED BY <1>17, SessionsInvariance, PTL DEF Spec, OnlyToValidSessions

=============================================================================
