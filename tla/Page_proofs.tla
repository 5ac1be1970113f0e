----------------------------- MODULE Page_proofs -----------------------------
(***************************************************************************)
(* Proofs about what a page shows: Viewing, for any set of access modes and *)
(* any bounds, where a lock is final and rates are shown of live snapshots  *)
(* only, and PrivateNetworks, for any peers, where the timers serve the     *)
(* mode that set them and one poll settles every view.                      *)
(*                                                                          *)
(* Both are machines of handlers, each of which turns a page into the next  *)
(* one.  In Viewing, Fine says of a page and its requests what the          *)
(* invariant says of the state; a lemma for every handler shows that it     *)
(* keeps a fine pair fine, and a lemma for every action that it applies its *)
(* handler to what is there.  In PrivateNetworks six fields decide what the *)
(* timers do: Serves is the invariant about them, and a handler either      *)
(* leaves them alone (Same) or has a lemma of its own.  Tied says of the    *)
(* other fields which belong together, and the proof about polls goes       *)
(* through the stages of one, each of which settles what it draws.          *)
(***************************************************************************)
EXTENDS Viewing, PrivateNetworks, TLAPS

(* Nothing of a view survives its lock, and nothing under way can rebuild it. *)
Locked(s, r) ==
    s.resetting =>
        /\ s.view = "notice" /\ s.import # "current"
        /\ ~s.dashboard /\ ~s.polling /\ ~s.countdown /\ ~s.aggregate
        /\ ~s.authorized
        /\ \A kind \in Kinds \ {"logout"} : r[kind] = "none"

(* Without a dashboard there are no peers; with one the countdown runs while  *)
(* it is looked at; what reads peers is a dashboard.                          *)
Dashboard(s, r) ==
    /\ ~s.dashboard => s.shown = NoPeers
    /\ s.polling \/ s.countdown => s.dashboard
    /\ s.dashboard => (s.countdown <=> ~s.hidden)
    /\ r["peers"] # "none" => s.dashboard

(* Rates are shown of a live snapshot, or of one that has grown old since. *)
Rates(s) == s.shown.rates /\ ~live(s) => s.aged = "since"

Good(s, r) == Locked(s, r) /\ Dashboard(s, r) /\ Rates(s)

IInv ==
    /\ TypeOK
    /\ Good(p, q)
    /\ p.cached /\ p.mode # "public" => p.resetting

-----------------------------------------------------------------------------
(* A page with its requests, as the handlers pass it on.                     *)
Fine(e) == e \in [s : Page, q : [Kinds -> Answers]] /\ Good(e.s, e.q)

\* What a handler keeps of the page's own life.
SameLife(e, f) ==
    /\ f.s.cached = e.s.cached /\ f.s.mode = e.s.mode
    /\ e.s.resetting => f.s.resetting

\* The empty view is a view, and shows no rates.
LEMMA NoPeersType ==
    /\ NoPeers \in [stamp : 0..MaxStamp, rates : BOOLEAN] /\ ~NoPeers.rates
    /\ 0 \in 0..MaxStamp
BY ViewingAssumption DEF NoPeers

\* Asking for peers: a request of a dashboard, or nothing.
LEMMA RefreshFine ==
    ASSUME NEW e, Fine(e)
    PROVE  Fine(refresh(e)) /\ SameLife(e, refresh(e))
<1> DEFINE f == refresh(e)
<1>1. e.s \in Page /\ e.q \in [Kinds -> Answers]
  BY DEF Fine
<1>2. CASE ~e.s.dashboard \/ e.s.pending
  BY <1>2 DEF refresh, SameLife
<1>3. CASE e.s.dashboard /\ ~e.s.pending
  <2>1. f = [s |-> [e.s EXCEPT !.pending = TRUE], q |-> [e.q EXCEPT !["peers"] = "sent"]]
    BY <1>3 DEF refresh
  <2>2. f.s = [e.s EXCEPT !.pending = TRUE] /\ f.q = [e.q EXCEPT !["peers"] = "sent"]
    BY <2>1
  <2>3. f.s \in Page
    BY <1>1, <2>2 DEF Page
  <2>4. f.q \in [Kinds -> Answers]
    BY <1>1, <2>2 DEF Kinds, Answers
  <2>5. Good(f.s, f.q)
    BY <1>1, <1>3, <2>2 DEF Fine, Good, Locked, Dashboard, Rates, live, Page, Kinds
  <2>6. SameLife(e, f)
    BY <1>1, <2>2 DEF SameLife, Page
  <2> QED BY <2>1, <2>3, <2>4, <2>5, <2>6 DEF Fine
<1> QED BY <1>2, <1>3

\* A reset leaves an empty page and no request but a logout.
LEMMA ResetFine ==
    ASSUME NEW e, Fine(e), NEW navigate \in BOOLEAN
    PROVE  /\ Fine(reset(e, navigate)) /\ SameLife(e, reset(e, navigate))
           /\ reset(e, navigate).s.resetting
           /\ reset(e, navigate).q = IF e.s.resetting THEN e.q ELSE aborted(e.q)
<1> DEFINE f == reset(e, navigate)
<1>1. e.s \in Page /\ e.q \in [Kinds -> Answers] /\ e \in [s : Page, q : [Kinds -> Answers]]
  BY DEF Fine
<1>2. CASE e.s.resetting /\ ~navigate
  BY <1>2 DEF reset, SameLife
<1>3. CASE e.s.resetting /\ navigate
  <2>1. f.s = [e.s EXCEPT !.leaving = TRUE] /\ f.q = e.q /\ f = [s |-> f.s, q |-> f.q]
    BY <1>1, <1>3 DEF reset
  <2>2. f.s \in Page
    BY <1>1, <2>1 DEF Page
  <2>3. SameLife(e, f) /\ f.s.resetting
    BY <1>1, <1>3, <2>1 DEF SameLife, Page
  <2>6. Locked(f.s, f.q)
    <3>1. Locked(e.s, e.q)
      BY DEF Fine, Good
    <3>2. /\ f.s.resetting = e.s.resetting /\ f.s.view = e.s.view /\ f.s.import = e.s.import
          /\ f.s.dashboard = e.s.dashboard /\ f.s.polling = e.s.polling
          /\ f.s.countdown = e.s.countdown /\ f.s.aggregate = e.s.aggregate
          /\ f.s.authorized = e.s.authorized
      BY <1>1, <2>1 DEF Page
    <3> QED BY <2>1, <3>1, <3>2 DEF Locked
  <2>4. Dashboard(f.s, f.q)
    BY <1>1, <1>3, <2>1 DEF Fine, Good, Dashboard, Page
  <2>5. Rates(f.s)
    BY <1>1, <1>3, <2>1 DEF Fine, Good, Rates, live, Page
  <2> QED BY <1>1, <1>3, <2>1, <2>2, <2>3, <2>4, <2>5, <2>6 DEF Fine, Good
<1>4. CASE ~e.s.resetting
  <2> DEFINE g == [disposeDashboard(e.s) EXCEPT !.import = IF @ = "none" THEN @ ELSE "stale"]
  <2>1. /\ f.s = [g EXCEPT !.resetting = TRUE, !.view = "notice", !.authorized = FALSE,
                           !.verifying = FALSE, !.aggregate = FALSE, !.leaving = navigate]
        /\ f.q = aborted(e.q) /\ f = [s |-> f.s, q |-> f.q]
    BY <1>4 DEF reset, onLock
  <2> DEFINE i == IF e.s.import = "none" THEN e.s.import ELSE "stale"
  <2>7. g = [e.s EXCEPT !.dashboard = FALSE, !.polling = FALSE, !.countdown = FALSE,
                        !.pending = FALSE, !.shown = NoPeers, !.import = i]
    BY <1>1 DEF disposeDashboard, Page
  <2>8. i \in {"none", "stale"}
    OBVIOUS
  <2> HIDE DEF i, g
  <2>9. g \in Page
    BY <1>1, <2>7, <2>8, NoPeersType DEF Page
  <2>2. g \in Page /\ g.import # "current" /\ ~g.dashboard /\ ~g.polling /\ ~g.countdown
        /\ g.shown = NoPeers /\ g.cached = e.s.cached /\ g.mode = e.s.mode
    BY <1>1, <2>7, <2>9, <2>8 DEF Page
  <2> HIDE DEF g
  <2>3. f.s \in Page
    BY <2>1, <2>2 DEF Page
  <2>4. f.q \in [Kinds -> Answers] /\ \A kind \in Kinds \ {"logout"} : f.q[kind] = "none"
    BY <1>1, <2>1 DEF aborted, Quiet, Kinds, Answers
  <2>5. Locked(f.s, f.q) /\ SameLife(e, f) /\ f.s.resetting
    BY <2>1, <2>2, <2>4 DEF Locked, SameLife, Page
  <2>6. Dashboard(f.s, f.q) /\ Rates(f.s)
    BY <2>1, <2>2, <2>4 DEF Dashboard, Rates, NoPeers, Page, Kinds
  <2> QED BY <1>4, <2>1, <2>3, <2>4, <2>5, <2>6 DEF Fine, Good
<1> QED BY <1>2, <1>3, <1>4

\* A lock is a reset and a logout.
LEMMA LockFine ==
    ASSUME NEW e, Fine(e)
    PROVE  Fine(lock(e)) /\ SameLife(e, lock(e))
<1> DEFINE hidden == reset(e, FALSE)
           f == lock(e)
<1>1. Fine(hidden) /\ SameLife(e, hidden) /\ hidden.s.resetting
  BY ResetFine
<1>2. hidden.s \in Page /\ hidden.q \in [Kinds -> Answers]
  BY <1>1 DEF Fine
<1> HIDE DEF hidden
<1>3. CASE e.s.locking
  BY <1>1, <1>3 DEF lock, hidden
<1>4. CASE ~e.s.locking
  <2>1. f.s = [hidden.s EXCEPT !.locking = TRUE, !.retry = FALSE]
        /\ f.q = [hidden.q EXCEPT !["logout"] = "sent"] /\ f = [s |-> f.s, q |-> f.q]
    BY <1>4 DEF lock, hidden
  <2>2. f.s \in Page
    BY <1>2, <2>1 DEF Page
  <2>5. f.q \in [Kinds -> Answers]
    BY <1>2, <2>1 DEF Kinds, Answers
  <2>3. Good(f.s, f.q)
    BY <1>1, <1>2, <2>1 DEF Fine, Good, Locked, Dashboard, Rates, live, Page, Kinds
  <2>4. SameLife(e, f)
    BY <1>1, <1>2, <2>1 DEF SameLife, Page
  <2> QED BY <2>1, <2>2, <2>3, <2>4, <2>5 DEF Fine
<1> QED BY <1>3, <1>4

\* The form asks for the aggregate; a page that is reset does not.
LEMMA AggregateFine ==
    ASSUME NEW e, Fine(e)
    PROVE  Fine(refreshAggregate(e)) /\ SameLife(e, refreshAggregate(e))
<1> DEFINE f == refreshAggregate(e)
<1>1. CASE e.s.resetting \/ e.s.view # "form" \/ e.q["aggregate"] # "none"
  BY <1>1 DEF refreshAggregate, SameLife
<1>2. CASE ~e.s.resetting /\ ~(e.s.resetting \/ e.s.view # "form" \/ e.q["aggregate"] # "none")
  <2>1. f.s = e.s /\ f.q = [e.q EXCEPT !["aggregate"] = "sent"] /\ f = [s |-> f.s, q |-> f.q]
    BY <1>2 DEF refreshAggregate, Fine
  <2>2. Fine(f)
    BY <1>2, <2>1 DEF Fine, Good, Locked, Dashboard, Kinds, Answers
  <2> QED BY <2>1, <2>2 DEF SameLife
<1> QED BY <1>1, <1>2

\* The dashboard starts on a page that has not been reset.
LEMMA StartFine ==
    ASSUME NEW e, Fine(e), ~e.s.resetting
    PROVE  Fine(startDashboard(e)) /\ SameLife(e, startDashboard(e))
<1> DEFINE d == [e.s EXCEPT !.dashboard = TRUE, !.polling = TRUE, !.pending = FALSE,
                            !.connected = "unknown", !.unavailable = FALSE, !.last = 0,
                            !.aged = "no", !.shown = NoPeers]
           g == [e EXCEPT !.s = startCountdownTimer(d)]
<1>1. d \in Page /\ d.dashboard /\ d.shown = NoPeers /\ d.hidden = e.s.hidden /\ ~d.resetting
      /\ d.cached = e.s.cached /\ d.mode = e.s.mode /\ d.aged = "no"
  <2>1. e.s \in Page
    BY DEF Fine
  <2>2. d \in Page
    BY <2>1, NoPeersType DEF Page
  <2> QED BY <2>1, <2>2 DEF Page
<1>2. startDashboard(e) = refresh(g)
  BY DEF startDashboard
<1> HIDE DEF d
<1>3. g.s = [d EXCEPT !.countdown = ~d.hidden] /\ g.q = e.q /\ g = [s |-> g.s, q |-> g.q]
  BY DEF startCountdownTimer, Fine
<1>4. g.s \in Page
  BY <1>1, <1>3 DEF Page
<1>5. Good(g.s, g.q) /\ SameLife(e, g)
  BY <1>1, <1>3, <1>4 DEF Fine, Good, Locked, Dashboard, Rates, NoPeers, SameLife, Page
<1>6. Fine(g)
  BY <1>3, <1>4, <1>5 DEF Fine
<1> HIDE DEF g
<1>7. Fine(refresh(g)) /\ SameLife(g, refresh(g))
  BY <1>6, RefreshFine
<1> QED BY <1>2, <1>5, <1>7 DEF SameLife

\* Clearing a request that has been answered.
LEMMA ClearFine ==
    ASSUME NEW e, Fine(e), NEW kind \in Kinds
    PROVE  LET f == [e EXCEPT !.q[kind] = "none"]
           IN  Fine(f) /\ SameLife(e, f) /\ f.s = e.s
<1> DEFINE f == [e EXCEPT !.q[kind] = "none"]
<1>1. f.s = e.s /\ f.q = [e.q EXCEPT ![kind] = "none"] /\ f = [s |-> f.s, q |-> f.q]
  BY DEF Fine
<1>2. e.s \in Page /\ e.q \in [Kinds -> Answers]
  BY DEF Fine
<1>3. f.q \in [Kinds -> Answers]
  BY <1>1, <1>2 DEF Answers
<1>4. \A k \in Kinds : f.q[k] # "none" => e.q[k] # "none"
  BY <1>1, <1>2
<1> HIDE DEF f
<1>5. Locked(f.s, f.q) /\ Dashboard(f.s, f.q)
  BY <1>1, <1>4 DEF Fine, Good, Locked, Dashboard, Kinds
<1>6. Rates(f.s)
  BY <1>1 DEF Fine, Good
<1> QED BY <1>1, <1>2, <1>3, <1>5, <1>6 DEF Fine, Good, SameLife, f

\* A page that shows peers.
Shows(s) == s \in Page /\ s.dashboard /\ ~s.resetting /\ (s.countdown <=> ~s.hidden)

\* Such a page is fine with any requests, if its rates are.
LEMMA ShowsGood ==
    ASSUME NEW e, Fine(e), NEW t, Shows(t), Rates(t),
           t.cached = e.s.cached, t.mode = e.s.mode, ~e.s.resetting
    PROVE  Fine([e EXCEPT !.s = t]) /\ SameLife(e, [e EXCEPT !.s = t])
<1> DEFINE f == [e EXCEPT !.s = t]
<1>1. f.s = t /\ f.q = e.q /\ f = [s |-> f.s, q |-> f.q]
  BY DEF Fine
<1> HIDE DEF f
<1>2. Good(f.s, f.q)
  BY <1>1 DEF Good, Locked, Dashboard, Shows
<1> QED BY <1>1, <1>2 DEF Fine, SameLife, Shows, f

\* A page with a dashboard is such a page.
LEMMA DashboardShows ==
    ASSUME NEW e, Fine(e), e.s.dashboard
    PROVE  Shows(e.s)
BY DEF Fine, Good, Locked, Dashboard, Shows

\* Old rates are withdrawn, the rest of the page stays.
LEMMA StatusShows ==
    ASSUME NEW s, Shows(s)
    PROVE  LET t == renderStatus(s)
           IN  Shows(t) /\ Rates(t) /\ t.cached = s.cached /\ t.mode = s.mode
<1> DEFINE t == renderStatus(s)
<1>1. s \in Page
  BY DEF Shows
<1>2. CASE live(s)
  BY <1>2 DEF renderStatus, Rates
<1>3. CASE ~live(s)
  <2>1. t = [s EXCEPT !.shown.rates = FALSE]
    BY <1>3 DEF renderStatus
  <2>2. t \in Page
    BY <1>1, <2>1 DEF Page
  <2>3. t.shown.rates = FALSE
    BY <1>1, <2>1 DEF Page
  <2>4. /\ t.cached = s.cached /\ t.mode = s.mode /\ t.dashboard = s.dashboard
        /\ t.resetting = s.resetting /\ t.countdown = s.countdown /\ t.hidden = s.hidden
    BY <1>1, <2>1 DEF Page
  <2> HIDE DEF t
  <2> QED BY <2>2, <2>3, <2>4 DEF Shows, Rates, t
<1> QED BY <1>2, <1>3

\* A snapshot that is applied shows rates only if it is live.
LEMMA SnapshotShows ==
    ASSUME NEW s, Shows(s), NEW a \in Node
    PROVE  LET t == applySnapshot(s, a)
           IN  Shows(t) /\ Rates(t) /\ t.cached = s.cached /\ t.mode = s.mode
<1> DEFINE last == IF a.stamp = 0 THEN s.last ELSE a.stamp
           aged == IF a.stamp = 0 THEN s.aged ELSE IF a.fresh THEN "no" ELSE "before"
           known == [s EXCEPT !.pending = FALSE, !.unavailable = FALSE, !.connected = a.connected,
                              !.last = last, !.aged = aged]
           new == [known EXCEPT !.shown = [stamp |-> a.stamp, rates |-> live(known)]]
           applies == a.stamp # 0 /\ (a.connected = "yes" \/ a.stamp # s.last)
<1>1. s \in Page
  BY DEF Shows
<1>2. last \in 0..MaxStamp /\ aged \in {"no", "before", "since"} /\ a.connected \in {"unknown", "yes", "no"}
  BY <1>1 DEF Page, Node
<1>3. applySnapshot(s, a) = renderStatus(IF applies THEN new ELSE known)
  BY <1>1 DEF applySnapshot, Page
<1> HIDE DEF last, aged
<1>4. known \in Page
  BY <1>1, <1>2 DEF Page
<1>5. Shows(known) /\ known.cached = s.cached /\ known.mode = s.mode
  BY <1>1, <1>4 DEF Shows, Page
<1> HIDE DEF known
<1>6. live(known) \in BOOLEAN /\ a.stamp \in 0..MaxStamp
  BY <1>4 DEF live, Node
<1>7. new \in Page
  BY <1>4, <1>6 DEF Page
<1>8. Shows(new) /\ new.cached = s.cached /\ new.mode = s.mode
  BY <1>4, <1>5, <1>7 DEF Shows, Page
<1> HIDE DEF new, applies
<1> QED BY <1>3, <1>5, <1>8, StatusShows

\* A read that failed keeps the peers and withdraws the rates.
LEMMA UnavailableShows ==
    ASSUME NEW s, Shows(s)
    PROVE  LET t == peersUnavailable(s)
           IN  Shows(t) /\ Rates(t) /\ t.cached = s.cached /\ t.mode = s.mode
<1> DEFINE u == [s EXCEPT !.pending = FALSE, !.unavailable = TRUE]
<1>1. s \in Page
  BY DEF Shows
<1>2. u \in Page
  BY <1>1 DEF Page
<1>3. Shows(u) /\ u.cached = s.cached /\ u.mode = s.mode
  BY <1>1, <1>2 DEF Shows, Page
<1>4. peersUnavailable(s) = renderStatus(u)
  BY DEF peersUnavailable
<1> HIDE DEF u
<1> QED BY <1>3, <1>4, StatusShows

-----------------------------------------------------------------------------
(* The machine.                                                              *)

Kept(f) == f.s.cached /\ f.s.mode # "public" => f.s.resetting

\* The invariant says that the page, as it is, is fine.
LEMMA HereFine ==
    ASSUME IInv
    PROVE  Fine(Here) /\ Here.s = p /\ Here.q = q /\ Kept(Here)
BY DEF IInv, TypeOK, Here, Fine, Kept

\* A handler that keeps the page's life keeps what the cache demands.
LEMMA LifeKept ==
    ASSUME NEW e, NEW f, Kept(e), SameLife(e, f)
    PROVE  Kept(f)
BY DEF Kept, SameLife

\* A step that leaves the server alone keeps the invariant if its page is fine.
LEMMA StepFine ==
    ASSUME IInv, NEW f, Fine(f), Kept(f), p' = f.s, q' = f.q, UNCHANGED <<carried, server>>
    PROVE  IInv'
<1>1. TypeOK'
  BY DEF IInv, TypeOK, Fine, Node
<1>2. Good(p', q')
  BY DEF Fine
<1>3. Good(p, q)'
  BY <1>2 DEF Good, Locked, Dashboard, Rates, live
<1>4. (p.cached /\ p.mode # "public" => p.resetting)'
  BY DEF Kept
<1> QED BY <1>1, <1>3, <1>4 DEF IInv

\* A page that begins.
LEMMA NewPageFine ==
    ASSUME NEW hidden \in BOOLEAN
    PROVE  Fine(NewPage(hidden)) /\ Kept(NewPage(hidden))
<1> DEFINE f == NewPage(hidden)
<1>1. f.s \in Page /\ f = [s |-> f.s, q |-> f.q]
  BY NoPeersType DEF NewPage, Page
<1>2. f.q = [Quiet EXCEPT !["access"] = "sent"]
  BY DEF NewPage
<1>3. f.q \in [Kinds -> Answers] /\ f.q["peers"] = "none"
  BY <1>2 DEF Quiet, Kinds, Answers
<1>4. Good(f.s, f.q)
  BY <1>3, NoPeersType DEF NewPage, Good, Locked, Dashboard, Rates
<1> QED BY <1>1, <1>3, <1>4 DEF Fine, Kept, NewPage

\* The first page.
LEMMA InitFine == Init => IInv
<1> SUFFICES ASSUME Init PROVE IInv
  OBVIOUS
<1>1. Fine(NewPage(FALSE)) /\ Kept(NewPage(FALSE))
  BY NewPageFine
<1>2. carried \in Node /\ server \in [mode : Modes, tokens : BOOLEAN, session : BOOLEAN,
                   connected : {"unknown", "yes", "no"}, stamp : 0..MaxStamp, fresh : BOOLEAN]
  BY NoPeersType DEF Init, NoSnapshot, Node
<1> QED BY <1>1, <1>2 DEF Init, IInv, TypeOK, Fine, Kept

-----------------------------------------------------------------------------
(* The server's steps.                                                       *)

\* An answer or a failure changes no request that is not there.
LEMMA ServeFine ==
    ASSUME IInv, NEW kind \in Kinds, Serve(kind) \/ Fail(kind)
    PROVE  IInv'
<1>1. p' = p /\ q[kind] # "none" /\ \E a \in Answers : q' = [q EXCEPT ![kind] = a]
  BY DEF Serve, Fail, Answers
<1>2. q \in [Kinds -> Answers] /\ p \in Page
  BY DEF IInv, TypeOK
<1>3. q' \in [Kinds -> Answers] /\ \A k \in Kinds : q'[k] # "none" => q[k] # "none"
  BY <1>1, <1>2
<1>4. Good(p', q')
  BY <1>1, <1>3 DEF IInv, Good, Locked, Dashboard, Kinds
<1>5. Good(p, q)'
  BY <1>4 DEF Good, Locked, Dashboard, Rates, live
<1>6. carried' \in Node
  <2>1. carried \in Node /\ [connected |-> server.connected, stamp |-> server.stamp,
                            fresh |-> server.fresh] \in Node
    BY DEF IInv, TypeOK, Node
  <2>2. CASE Serve(kind)
    BY <2>1, <2>2 DEF Serve
  <2>3. CASE Fail(kind)
    BY <2>1, <2>3 DEF Fail
  <2> QED BY <2>2, <2>3
<1>7. server' \in [mode : Modes, tokens : BOOLEAN, session : BOOLEAN,
                   connected : {"unknown", "yes", "no"}, stamp : 0..MaxStamp, fresh : BOOLEAN]
  BY DEF IInv, TypeOK, Serve, Fail
<1> QED BY <1>1, <1>2, <1>3, <1>5, <1>6, <1>7 DEF IInv, TypeOK, Node

\* The node is read or fails, a snapshot grows old, a session ends.
LEMMA ServerFine ==
    ASSUME IInv, SessionEnds \/ NodeRead \/ NodeFails \/ SnapshotAges
    PROVE  IInv'
<1>1. UNCHANGED <<p, q, carried>>
  BY DEF SessionEnds, NodeRead, NodeFails, SnapshotAges
<1>2. server' \in [mode : Modes, tokens : BOOLEAN, session : BOOLEAN,
                   connected : {"unknown", "yes", "no"}, stamp : 0..MaxStamp, fresh : BOOLEAN]
  <2>1. server \in [mode : Modes, tokens : BOOLEAN, session : BOOLEAN,
                   connected : {"unknown", "yes", "no"}, stamp : 0..MaxStamp, fresh : BOOLEAN]
    BY DEF IInv, TypeOK
  <2>2. CASE SessionEnds
    BY <2>1, <2>2 DEF SessionEnds
  <2>3. CASE NodeRead
    <3>1. server.stamp + 1 \in 0..MaxStamp
      BY <2>1, <2>3, ViewingAssumption DEF NodeRead
    <3>2. server' = [server EXCEPT !.connected = "yes", !.stamp = server.stamp + 1, !.fresh = TRUE]
      BY <2>1, <2>3 DEF NodeRead
    <3> QED BY <2>1, <3>1, <3>2
  <2>4. CASE NodeFails
    BY <2>1, <2>4 DEF NodeFails
  <2>5. CASE SnapshotAges
    BY <2>1, <2>5 DEF SnapshotAges
  <2> QED BY <2>2, <2>3, <2>4, <2>5
<1> QED BY <1>1, <1>2 DEF IInv, TypeOK, Good, Locked, Dashboard, Rates, live, Node

-----------------------------------------------------------------------------
(* The steps of a page that runs.                                            *)

\* What the dashboard and its lock depend on.
SameView(s, t) ==
    /\ t.resetting = s.resetting /\ t.hidden = s.hidden /\ t.dashboard = s.dashboard
    /\ t.polling = s.polling /\ t.countdown = s.countdown /\ t.connected = s.connected
    /\ t.unavailable = s.unavailable /\ t.aged = s.aged /\ t.shown = s.shown
    /\ s.resetting => /\ t.view = s.view /\ t.import = s.import
                      /\ t.aggregate = s.aggregate /\ t.authorized = s.authorized

\* Changes outside that leave a fine page fine.
LEMMA SameViewFine ==
    ASSUME NEW e, Fine(e), NEW t \in Page, SameView(e.s, t)
    PROVE  LET f == [e EXCEPT !.s = t] IN Fine(f) /\ f.s = t /\ f.q = e.q
<1> DEFINE f == [e EXCEPT !.s = t]
<1>1. f.s = t /\ f.q = e.q /\ f = [s |-> f.s, q |-> f.q]
  BY DEF Fine
<1> HIDE DEF f
<1>2. Locked(f.s, f.q)
  BY <1>1 DEF Fine, Good, Locked, SameView
<1>3. Dashboard(f.s, f.q)
  BY <1>1 DEF Fine, Good, Dashboard, SameView
<1>4. Rates(f.s)
  BY <1>1 DEF Fine, Good, Rates, live, SameView
<1> QED BY <1>1, <1>2, <1>3, <1>4 DEF Fine, Good, f

\* A request that is answered, and what the page makes of the answer.
LEMMA AnswerFine ==
    ASSUME IInv, NEW x, Fine(x), Kept(x), NEW kind \in Kinds,
           Answered(kind, x), UNCHANGED <<carried, server>>
    PROVE  IInv'
<1> DEFINE f == [x EXCEPT !.q[kind] = "none"]
<1>1. Fine(f) /\ f.s = x.s
  BY ClearFine
<1>2. p' = f.s /\ q' = f.q
  BY DEF Answered, Becomes
<1>3. Kept(f)
  BY <1>1 DEF Kept
<1> HIDE DEF f
<1> QED BY <1>1, <1>2, <1>3, StepFine

\* Access is granted: the dashboard is imported.
LEMMA AuthorizedView ==
    ASSUME NEW s \in Page, ~s.resetting, NEW t \in {onAuthorized(s), authorize(s)}
    PROVE  t \in Page /\ SameView(s, t) /\ t.cached = s.cached
<1>1. CASE t = onAuthorized(s)
  BY <1>1 DEF onAuthorized, Page, SameView
<1>2. CASE t = authorize(s)
  <2>1. t = [s EXCEPT !.authorized = TRUE, !.aggregate = FALSE, !.view = "unlocked", !.import = "current"]
    BY <1>2 DEF authorize, onAuthorized, Page
  <2>2. t \in Page
    BY <2>1 DEF Page
  <2>3. SameView(s, t) /\ t.cached = s.cached
    BY <2>1 DEF Page, SameView
  <2> QED BY <2>2, <2>3
<1> QED BY <1>1, <1>2

\* The answer about the page's access, in all of its outcomes.
LEMMA AnswerAccessFine ==
    ASSUME IInv, AnswerAccess
    PROVE  IInv'
<1> DEFINE s == [p EXCEPT !.mode = server.mode]
           e == [Here EXCEPT !.s = s]
           form == [e EXCEPT !.s = showAccess(s)]
<1>1. Fine(Here) /\ Here.s = p /\ Here.q = q /\ p \in Page /\ server.mode \in Modes
  BY HereFine DEF IInv, TypeOK
<1>2. ~p.resetting /\ ~p.cached
  BY DEF IInv, Good, Locked, AnswerAccess, Running, Kinds
<1>3. UNCHANGED <<carried, server>> /\ "access" \in Kinds
  BY DEF AnswerAccess, Outside, Kinds
<1>4. s \in Page /\ SameView(p, s) /\ ~s.cached /\ ~s.resetting
  BY <1>1, <1>2 DEF Page, SameView
<1>5. Fine(e) /\ e.s = s
  BY <1>1, <1>4, SameViewFine
<1>6. CASE q["access"] = "failed"
  <2> DEFINE t == [p EXCEPT !.view = "failed"]
             x == [Here EXCEPT !.s.view = "failed"]
  <2>1. t \in Page /\ SameView(p, t) /\ ~t.cached
    BY <1>1, <1>2 DEF Page, SameView
  <2>2. x = [Here EXCEPT !.s = t] /\ Answered("access", x)
    BY <1>1, <1>6 DEF AnswerAccess
  <2> HIDE DEF t
  <2>3. Fine(x) /\ x.s = t
    BY <1>1, <2>1, <2>2, SameViewFine
  <2> HIDE DEF x
  <2> QED BY <1>3, <2>1, <2>2, <2>3, AnswerFine DEF Kept
<1>7. CASE q["access"] # "failed" /\ (server.mode = "public" \/ q["access"] = "yes")
  <2>1. PICK t \in {onAuthorized(s), authorize(s)} : Answered("access", [e EXCEPT !.s = t])
    BY <1>7 DEF AnswerAccess
  <2>2. t \in Page /\ SameView(s, t) /\ ~t.cached
    BY <1>4, <2>1, AuthorizedView
  <2> HIDE DEF e, s
  <2>3. Fine([e EXCEPT !.s = t]) /\ [e EXCEPT !.s = t].s = t
    BY <1>5, <2>2, SameViewFine
  <2> QED BY <1>3, <2>1, <2>2, <2>3, AnswerFine DEF Kept
<1>8. CASE q["access"] # "failed" /\ server.mode # "public" /\ q["access"] # "yes"
  <2>1. showAccess(s) \in Page /\ SameView(s, showAccess(s)) /\ ~showAccess(s).cached
    BY <1>4 DEF showAccess, Page, SameView
  <2>2. PICK x \in {refreshAggregate(form), form} : Answered("access", x)
    BY <1>8 DEF AnswerAccess
  <2> HIDE DEF e, s
  <2>3. Fine(form) /\ form.s = showAccess(s)
    BY <1>5, <2>1, SameViewFine
  <2> HIDE DEF form
  <2>4. Fine(x) /\ ~x.s.cached
    BY <2>1, <2>2, <2>3, AggregateFine DEF SameLife
  <2> QED BY <1>3, <2>2, <2>4, AnswerFine DEF Kept
<1> QED BY <1>6, <1>7, <1>8

\* A token is accepted, or the form can be used again.
LEMMA AnswerVerifyFine ==
    ASSUME IInv, AnswerVerify
    PROVE  IInv'
<1>1. Fine(Here) /\ Here.s = p /\ Here.q = q /\ p \in Page
  BY HereFine DEF IInv, TypeOK
<1>2. ~p.resetting /\ ~p.cached
  BY DEF IInv, Good, Locked, AnswerVerify, Running, Kinds
<1>3. UNCHANGED <<carried, server>> /\ "verify" \in Kinds
  BY DEF AnswerVerify, Outside, Kinds
<1>4. PICK t \in {authorize(p), [p EXCEPT !.verifying = FALSE]} :
        Answered("verify", [Here EXCEPT !.s = t])
  BY DEF AnswerVerify
<1>5. t \in Page /\ SameView(p, t) /\ ~t.cached
  <2>1. CASE t = authorize(p)
    BY <1>1, <1>2, <2>1, AuthorizedView
  <2>2. CASE t = [p EXCEPT !.verifying = FALSE]
    BY <1>1, <1>2, <2>2 DEF Page, SameView
  <2> QED BY <1>4, <2>1, <2>2
<1>6. Fine([Here EXCEPT !.s = t]) /\ [Here EXCEPT !.s = t].s = t
  BY <1>1, <1>5, SameViewFine
<1> QED BY <1>3, <1>4, <1>5, <1>6, AnswerFine DEF Kept

\* The aggregate arrives.
LEMMA AnswerAggregateFine ==
    ASSUME IInv, AnswerAggregate
    PROVE  IInv'
<1> DEFINE b == p.view = "form" /\ ~p.resetting
           t == [p EXCEPT !.aggregate = b]
           x == [Here EXCEPT !.s.aggregate = b]
<1>1. Fine(Here) /\ Here.s = p /\ Here.q = q /\ p \in Page
  BY HereFine DEF IInv, TypeOK
<1>2. ~p.resetting /\ ~p.cached
  BY DEF IInv, Good, Locked, AnswerAggregate, Running, Kinds
<1>3. UNCHANGED <<carried, server>> /\ "aggregate" \in Kinds /\ Answered("aggregate", x)
  BY DEF AnswerAggregate, Outside, Kinds
<1>4. b \in BOOLEAN /\ x = [Here EXCEPT !.s = t]
  BY <1>1
<1> HIDE DEF b
<1>5. t \in Page /\ SameView(p, t) /\ ~t.cached
  BY <1>1, <1>2, <1>4 DEF Page, SameView
<1> HIDE DEF t
<1>6. Fine(x) /\ x.s = t
  BY <1>1, <1>4, <1>5, SameViewFine
<1> HIDE DEF x
<1> QED BY <1>3, <1>5, <1>6, AnswerFine DEF Kept

\* The logout ends: the page is left, or the lock is offered again.
LEMMA AnswerLogoutFine ==
    ASSUME IInv, AnswerLogout
    PROVE  IInv'
<1> DEFINE leaving == p.leaving \/ q["logout"] = "yes"
           retry == q["logout"] = "failed"
           t == [p EXCEPT !.locking = FALSE, !.leaving = leaving, !.retry = retry]
           x == [Here EXCEPT !.s = t]
<1>1. Fine(Here) /\ Here.s = p /\ Here.q = q /\ p \in Page /\ ~p.cached
  BY HereFine DEF IInv, TypeOK, AnswerLogout, Running
<1>2. UNCHANGED <<carried, server>> /\ "logout" \in Kinds
  BY DEF AnswerLogout, Outside, Kinds
<1>3. Answered("logout", x) /\ leaving \in BOOLEAN /\ retry \in BOOLEAN
  BY <1>1 DEF AnswerLogout, Page
<1> HIDE DEF leaving, retry
<1>4. t \in Page /\ SameView(p, t) /\ ~t.cached
  BY <1>1, <1>3 DEF Page, SameView
<1> HIDE DEF t
<1>5. Fine(x) /\ x.s = t
  BY <1>1, <1>4, SameViewFine
<1> HIDE DEF x
<1> QED BY <1>2, <1>3, <1>4, <1>5, AnswerFine DEF Kept

\* A snapshot, a refusal or a failure: the page applies, locks or withdraws.
LEMMA AnswerPeersFine ==
    ASSUME IInv, AnswerPeers
    PROVE  IInv'
<1> DEFINE e == [Here EXCEPT !.q["peers"] = "none"]
<1>1. Fine(Here) /\ Here.s = p /\ p.dashboard /\ Kept(Here) /\ carried \in Node
  BY HereFine DEF IInv, TypeOK, Good, Dashboard, AnswerPeers
<1>2. UNCHANGED <<carried, server>> /\ "peers" \in Kinds
  BY DEF AnswerPeers, Outside, Kinds
<1>3. Fine(e) /\ e.s = p
  BY <1>1, <1>2, ClearFine
<1>4. Shows(p) /\ Kept(e)
  BY <1>1, <1>3, DashboardShows DEF Kept
<1>5. PICK f \in {lock(e), [e EXCEPT !.s = applySnapshot(p, carried)],
                  [e EXCEPT !.s = peersUnavailable(p)]} : Becomes(f)
  BY DEF AnswerPeers
<1> HIDE DEF e
<1>6. Fine(f) /\ SameLife(e, f)
  <2>1. CASE f = lock(e)
    BY <1>3, <2>1, LockFine
  <2>2. CASE f = [e EXCEPT !.s = applySnapshot(p, carried)]
    BY <1>1, <1>3, <1>4, <2>2, SnapshotShows, ShowsGood DEF Shows
  <2>3. CASE f = [e EXCEPT !.s = peersUnavailable(p)]
    BY <1>3, <1>4, <2>3, UnavailableShows, ShowsGood DEF Shows
  <2> QED BY <1>5, <2>1, <2>2, <2>3
<1> QED BY <1>2, <1>4, <1>5, <1>6, LifeKept, StepFine DEF Becomes

-----------------------------------------------------------------------------
(* The user, the timers and the life of the page.                            *)

\* A token is sent from the form.
LEMMA SubmitFine ==
    ASSUME IInv, NEW good \in BOOLEAN, Submit(good)
    PROVE  IInv'
<1> DEFINE t == [p EXCEPT !.verifying = TRUE]
           answer == IF good THEN "good" ELSE "bad"
           f == [s |-> t, q |-> [q EXCEPT !["verify"] = answer]]
<1>1. p \in Page /\ q \in [Kinds -> Answers] /\ Good(p, q) /\ ~p.cached /\ ~p.resetting
  BY DEF IInv, TypeOK, Good, Locked, Submit, Running
<1>2. p' = f.s /\ q' = f.q /\ UNCHANGED <<carried, server>>
  BY DEF Submit, Becomes, Outside
<1>3. answer \in Answers
  BY DEF Answers
<1> HIDE DEF answer
<1>4. t \in Page /\ f.q \in [Kinds -> Answers] /\ f.q["peers"] = q["peers"]
  BY <1>1, <1>3 DEF Page, Kinds
<1>5. SameView(p, t) /\ ~t.cached
  BY <1>1 DEF SameView, Page
<1> HIDE DEF t
<1>6. Good(f.s, f.q)
  BY <1>1, <1>4, <1>5 DEF Good, Locked, Dashboard, Rates, live, SameView
<1>7. Fine(f) /\ Kept(f)
  BY <1>4, <1>5, <1>6 DEF Fine, Kept
<1> HIDE DEF f
<1> QED BY <1>2, <1>7, StepFine

\* The import starts a dashboard if nothing has locked the page meanwhile.
LEMMA ImportEndsFine ==
    ASSUME IInv, ImportEnds
    PROVE  IInv'
<1> DEFINE t == [p EXCEPT !.import = "none", !.verifying = FALSE]
           e == [Here EXCEPT !.s.import = "none", !.s.verifying = FALSE]
<1>1. Fine(Here) /\ Here.s = p /\ Here.q = q /\ p \in Page /\ ~p.cached
  BY HereFine DEF IInv, TypeOK, ImportEnds, Running
<1>2. UNCHANGED <<carried, server>> /\ Becomes(IF p.import = "current" THEN startDashboard(e) ELSE e)
  BY DEF ImportEnds, Outside
<1>3. e = [Here EXCEPT !.s = t]
  BY <1>1
<1>6. t \in Page
  BY <1>1 DEF Page
<1>7. /\ t.resetting = p.resetting /\ t.import = "none" /\ ~t.cached
      /\ t.view = p.view /\ t.dashboard = p.dashboard /\ t.polling = p.polling
      /\ t.countdown = p.countdown /\ t.aggregate = p.aggregate /\ t.authorized = p.authorized
      /\ t.shown = p.shown /\ t.hidden = p.hidden /\ t.aged = p.aged
      /\ t.unavailable = p.unavailable /\ t.connected = p.connected
  BY <1>1 DEF Page
<1> HIDE DEF t, e
<1>8. e.s = t /\ e.q = q /\ e = [s |-> e.s, q |-> e.q]
  BY <1>1, <1>3 DEF Fine
<1>4. CASE p.import = "current"
  <2>1. ~p.resetting
    BY <1>4 DEF IInv, Good, Locked
  <2>2. t \in Page /\ SameView(p, t) /\ ~t.cached /\ ~t.resetting
    BY <1>6, <1>7, <2>1 DEF SameView
  <2>3. Fine(e) /\ e.s = t
    BY <1>1, <1>3, <2>2, SameViewFine
  <2>4. Fine(startDashboard(e)) /\ ~startDashboard(e).s.cached
    BY <2>2, <2>3, StartFine DEF SameLife
  <2> QED BY <1>2, <1>4, <2>4, StepFine DEF Becomes, Kept
<1>5. CASE p.import # "current"
  <2>3. q \in [Kinds -> Answers] /\ Good(p, q)
    BY DEF IInv, TypeOK
  <2>4. Locked(e.s, e.q)
    BY <1>7, <1>8, <2>3 DEF Good, Locked
  <2>5. Dashboard(e.s, e.q) /\ Rates(e.s)
    BY <1>7, <1>8, <2>3 DEF Good, Dashboard, Rates, live
  <2>6. Fine(e) /\ Kept(e)
    BY <1>6, <1>7, <1>8, <2>3, <2>4, <2>5 DEF Fine, Good, Kept
  <2> QED BY <1>2, <1>5, <2>6, StepFine DEF Becomes
<1> QED BY <1>4, <1>5

\* The import fails.
LEMMA ImportFailsFine ==
    ASSUME IInv, ImportFails
    PROVE  IInv'
<1> DEFINE told == IF p.verifying THEN p.view ELSE "failed"
           t == [p EXCEPT !.import = "none", !.verifying = FALSE, !.view = told]
           f == [Here EXCEPT !.s = t]
<1>1. Fine(Here) /\ Here.s = p /\ Here.q = q /\ p \in Page /\ ~p.cached /\ ~p.resetting
  BY HereFine DEF IInv, TypeOK, Good, Locked, ImportFails, Running
<1>2. p' = t /\ q' = q /\ UNCHANGED <<carried, server>>
  BY <1>1 DEF ImportFails, Page
<1>3. told \in {"starting", "form", "unlocked", "failed", "notice"}
  BY <1>1 DEF Page
<1> HIDE DEF told
<1>6. t \in Page
  <2>1. p \in Page
    BY <1>1
  <2> QED BY <2>1, <1>3 DEF Page
<1>4. SameView(p, t) /\ ~t.cached
  BY <1>1 DEF Page, SameView
<1> HIDE DEF t
<1>5. Fine(f) /\ f.s = t /\ f.q = q
  BY <1>1, <1>4, <1>6, SameViewFine
<1> HIDE DEF f
<1> QED BY <1>2, <1>4, <1>5, StepFine DEF Kept

\* What asks for an aggregate, for peers or for a lock.
LEMMA TimersFine ==
    ASSUME IInv, AggregateTimer \/ ClickLock \/ Poll
    PROVE  IInv'
<1>1. Fine(Here) /\ Kept(Here)
  BY HereFine
<1>2. PICK f \in {refreshAggregate(Here), lock(Here), refresh(Here)} : Becomes(f)
  BY DEF AggregateTimer, ClickLock, Poll
<1>3. Fine(f) /\ SameLife(Here, f)
  BY <1>1, <1>2, AggregateFine, LockFine, RefreshFine
<1>4. UNCHANGED <<carried, server>>
  BY DEF AggregateTimer, ClickLock, Poll, Outside
<1> QED BY <1>1, <1>2, <1>3, <1>4, LifeKept, StepFine DEF Becomes

\* The countdown withdraws rates of a snapshot that has grown old.
LEMMA TickFine ==
    ASSUME IInv, Tick
    PROVE  IInv'
<1> DEFINE t == renderStatus(p)
           f == [Here EXCEPT !.s = t]
<1>1. Fine(Here) /\ Here.s = p /\ Here.q = q /\ Kept(Here) /\ p.dashboard
  BY HereFine DEF IInv, Good, Dashboard, Tick
<1>2. p' = t /\ q' = q /\ UNCHANGED <<carried, server>>
  BY DEF Tick, Outside
<1>3. Shows(p)
  BY <1>1, DashboardShows
<1>4. Shows(t) /\ Rates(t) /\ t.cached = p.cached /\ t.mode = p.mode
  BY <1>3, StatusShows
<1> HIDE DEF t
<1>5. Fine(f) /\ SameLife(Here, f)
  BY <1>1, <1>3, <1>4, ShowsGood DEF Shows
<1>6. f.s = t /\ f.q = q
  BY <1>1 DEF Fine
<1> HIDE DEF f
<1> QED BY <1>1, <1>2, <1>5, <1>6, LifeKept, StepFine

\* The snapshot grows old in the page, whose countdown runs or is hidden.
LEMMA PageAgesFine ==
    ASSUME IInv, PageAges
    PROVE  IInv'
<1> DEFINE t == [p EXCEPT !.aged = "since"]
           f == [Here EXCEPT !.s = t]
<1>1. Fine(Here) /\ Here.s = p /\ Here.q = q /\ Kept(Here) /\ p.dashboard /\ p \in Page
  BY HereFine DEF IInv, TypeOK, PageAges
<1>2. p' = t /\ q' = q /\ UNCHANGED <<carried, server>>
  BY DEF PageAges, Outside
<1>3. Shows(p)
  BY <1>1, DashboardShows
<1>4. Shows(t) /\ Rates(t) /\ t.cached = p.cached /\ t.mode = p.mode
  BY <1>1, <1>3 DEF Shows, Rates, Page
<1> HIDE DEF t
<1>5. Fine(f) /\ SameLife(Here, f)
  BY <1>1, <1>3, <1>4, ShowsGood DEF Shows
<1>6. f.s = t /\ f.q = q
  BY <1>1 DEF Fine
<1> HIDE DEF f
<1> QED BY <1>1, <1>2, <1>5, <1>6, LifeKept, StepFine

\* The page is hidden, or looked at again: its countdown ends or begins.
LEMMA VisibilityFine ==
    ASSUME IInv, ChangeVisibility
    PROVE  IInv'
<1> DEFINE h == ~p.hidden
           t == [p EXCEPT !.hidden = h]
           e == [Here EXCEPT !.s.hidden = ~p.hidden]
<1>1. Fine(Here) /\ Here.s = p /\ Here.q = q /\ Kept(Here) /\ p \in Page
      /\ q \in [Kinds -> Answers] /\ Good(p, q) /\ Here = [s |-> p, q |-> q]
  BY HereFine DEF IInv, TypeOK, Here
<1>2. UNCHANGED <<carried, server>>
  BY DEF ChangeVisibility, Outside
<1>3. e.s = t /\ e.q = q /\ e = [s |-> e.s, q |-> e.q]
  BY <1>1
<1>4. Becomes(IF p.dashboard THEN handleVisibilityChange(e) ELSE e)
  BY <1>1 DEF ChangeVisibility
<1>8. h \in BOOLEAN
  BY <1>1 DEF Page
<1> HIDE DEF h
<1>9. t \in Page
  BY <1>1, <1>8 DEF Page
<1>5. t \in Page /\ t.cached = p.cached /\ t.mode = p.mode /\ t.resetting = p.resetting
      /\ t.dashboard = p.dashboard /\ t.shown = p.shown /\ t.aged = p.aged
      /\ t.unavailable = p.unavailable /\ t.connected = p.connected
  BY <1>1, <1>9 DEF Page
<1>6. CASE p.dashboard
  <2> DEFINE u == [t EXCEPT !.countdown = ~t.hidden]
             g == [e EXCEPT !.s = startCountdownTimer(e.s)]
  <2>2. g = [Here EXCEPT !.s = u]
    BY <1>1, <1>3 DEF startCountdownTimer
  <2>6. ~p.resetting
    BY <1>1, <1>6 DEF Good, Locked
  <2> HIDE DEF t
  <2>7. (~t.hidden) \in BOOLEAN
    BY <1>9 DEF Page
  <2>8. u \in Page
    BY <1>5, <2>7 DEF Page
  <2>9. /\ u.cached = t.cached /\ u.mode = t.mode /\ u.resetting = t.resetting
        /\ u.dashboard = t.dashboard /\ u.shown = t.shown /\ u.aged = t.aged
        /\ u.unavailable = t.unavailable /\ u.connected = t.connected
        /\ u.hidden = t.hidden /\ u.countdown = ~t.hidden
    BY <1>5 DEF Page
  <2> HIDE DEF u
  <2>10. Shows(u)
    BY <1>5, <1>6, <2>6, <2>8, <2>9 DEF Shows
  <2>1. u.cached = p.cached /\ u.mode = p.mode /\ Rates(u)
    BY <1>1, <1>5, <2>9 DEF Good, Rates, live
  <2>3. Fine(g) /\ SameLife(Here, g)
    BY <1>1, <2>1, <2>2, <2>6, <2>10, ShowsGood
  <2>4. PICK f \in {g, refresh(g)} : Becomes(f)
    BY <1>4, <1>6 DEF handleVisibilityChange
  <2> HIDE DEF g
  <2>5. Fine(f) /\ SameLife(Here, f)
    BY <2>3, <2>4, RefreshFine DEF SameLife
  <2> QED BY <1>1, <1>2, <2>4, <2>5, LifeKept, StepFine DEF Becomes
<1>7. CASE ~p.dashboard
  <2>1. /\ t.view = p.view /\ t.import = p.import /\ t.dashboard = p.dashboard
        /\ t.polling = p.polling /\ t.countdown = p.countdown /\ t.aggregate = p.aggregate
        /\ t.authorized = p.authorized /\ t.shown = p.shown /\ t.aged = p.aged
        /\ t.unavailable = p.unavailable /\ t.connected = p.connected
    BY <1>1 DEF Page
  <2> HIDE DEF t, e
  <2>2. Locked(e.s, e.q)
    BY <1>1, <1>3, <1>5, <2>1 DEF Good, Locked
  <2>3. Dashboard(e.s, e.q) /\ Rates(e.s)
    BY <1>1, <1>3, <1>7, <2>1 DEF Good, Dashboard, Rates, live
  <2>4. Fine(e) /\ SameLife(Here, e)
    BY <1>1, <1>3, <1>5, <2>2, <2>3 DEF Fine, Good, SameLife
  <2> QED BY <1>1, <1>2, <1>4, <1>7, <2>4, LifeKept, StepFine DEF Becomes
<1> QED BY <1>6, <1>7

\* The page is replaced.
LEMMA ReplacedFine ==
    ASSUME IInv, Unload \/ Reload
    PROVE  IInv'
<1>1. p.hidden \in BOOLEAN
  BY DEF IInv, TypeOK, Page
<1>2. Becomes(NewPage(p.hidden)) /\ UNCHANGED <<carried, server>>
  BY DEF Unload, Reload, Outside
<1> QED BY <1>1, <1>2, NewPageFine, StepFine DEF Becomes

\* A page in the cache, or out of it: the rest of the page stays.
LEMMA CachedFine ==
    ASSUME NEW e, Fine(e), NEW c \in BOOLEAN
    PROVE  LET f == [e EXCEPT !.s.cached = c]
           IN  Fine(f) /\ f.s.cached = c /\ f.s.mode = e.s.mode /\ f.s.resetting = e.s.resetting
<1> DEFINE t == [e.s EXCEPT !.cached = c]
           f == [e EXCEPT !.s.cached = c]
<1>1. e.s \in Page
  BY DEF Fine
<1>2. t \in Page
  BY <1>1 DEF Page
<1>3. SameView(e.s, t) /\ t.cached = c /\ t.mode = e.s.mode
  BY <1>1 DEF SameView, Page
<1>4. f = [e EXCEPT !.s = t]
  BY DEF Fine
<1> HIDE DEF t, f
<1>5. Fine(f) /\ f.s = t
  BY <1>2, <1>3, <1>4, SameViewFine
<1> QED BY <1>3, <1>5 DEF SameView, f

\* A private page is reset before it is kept.
LEMMA PageHideFine ==
    ASSUME IInv, PageHide
    PROVE  IInv'
<1> DEFINE e == IF p.mode = "public" THEN Here ELSE reset(Here, FALSE)
           f == [e EXCEPT !.s.cached = TRUE]
<1>1. Fine(Here) /\ Here.s = p
  BY HereFine
<1>2. Becomes(f) /\ UNCHANGED <<carried, server>>
  BY DEF PageHide
<1>3. Fine(e) /\ (e.s.mode # "public" => e.s.resetting)
  <2>1. CASE p.mode = "public"
    BY <1>1, <2>1
  <2>2. CASE p.mode # "public"
    BY <1>1, <2>2, ResetFine
  <2> QED BY <2>1, <2>2
<1> HIDE DEF e
<1>4. Fine(f) /\ Kept(f)
  BY <1>3, CachedFine DEF Kept
<1> HIDE DEF f
<1> QED BY <1>2, <1>4, StepFine DEF Becomes

\* A private page that was kept is reset again, a public one goes on.
LEMMA PageShowFine ==
    ASSUME IInv, PageShow
    PROVE  IInv'
<1> DEFINE e == [Here EXCEPT !.s.cached = FALSE]
           f == IF p.mode = "public" THEN e ELSE reset(e, TRUE)
<1>1. Fine(Here) /\ Here.s = p
  BY HereFine
<1>2. Becomes(f) /\ UNCHANGED <<carried, server>>
  BY DEF PageShow, Outside
<1>3. Fine(e) /\ ~e.s.cached
  BY <1>1, CachedFine
<1> HIDE DEF e
<1>4. Fine(f) /\ Kept(f)
  <2>1. CASE p.mode = "public"
    BY <1>3, <2>1 DEF Kept
  <2>2. CASE p.mode # "public"
    BY <1>3, <2>2, ResetFine DEF Kept, SameLife
  <2> QED BY <2>1, <2>2
<1> HIDE DEF f
<1> QED BY <1>2, <1>4, StepFine DEF Becomes

-----------------------------------------------------------------------------
(* The invariant, and what follows from it.                                  *)

\* Every step of the machine keeps the invariant.
LEMMA NextFine == IInv /\ [Next]_vars => IInv'
<1> SUFFICES ASSUME IInv, [Next]_vars PROVE IInv'
  OBVIOUS
<1>1. ASSUME NEW kind \in Kinds, Serve(kind) \/ Fail(kind) PROVE IInv'
  BY <1>1, ServeFine
<1>2. ASSUME NEW good \in BOOLEAN, Submit(good) PROVE IInv'
  BY <1>2, SubmitFine
<1>3. CASE AnswerAccess \/ AnswerVerify \/ AnswerAggregate \/ AnswerPeers \/ AnswerLogout
  BY <1>3, AnswerAccessFine, AnswerVerifyFine, AnswerAggregateFine, AnswerPeersFine, AnswerLogoutFine
<1>4. CASE ImportEnds \/ ImportFails \/ AggregateTimer
  BY <1>4, ImportEndsFine, ImportFailsFine, TimersFine
<1>5. CASE ClickLock \/ Poll \/ Tick \/ PageAges \/ ChangeVisibility
  BY <1>5, TimersFine, TickFine, PageAgesFine, VisibilityFine
<1>6. CASE PageHide \/ PageShow \/ Unload \/ Reload
  BY <1>6, PageHideFine, PageShowFine, ReplacedFine
<1>7. CASE SessionEnds \/ NodeRead \/ NodeFails \/ SnapshotAges
  BY <1>7, ServerFine
<1>8. CASE UNCHANGED vars
  BY <1>8 DEF vars, IInv, TypeOK, Good, Locked, Dashboard, Rates, live, Node
<1> QED BY <1>1, <1>2, <1>3, <1>4, <1>5, <1>6, <1>7, <1>8 DEF Next

\* The inductive invariant of the page: a page that is reset is empty and stays so,
\* a dashboard is what shows and reads peers, and a private page in the cache is reset.
THEOREM ViewInvariance == Spec => []IInv
<1>1. Init => IInv
  BY InitFine
<1>2. IInv /\ [Next]_vars => IInv'
  BY NextFine
<1> QED BY <1>1, <1>2, PTL DEF Spec

\* Whatever order locks, imports, answers, ends of sessions and returns from the cache
\* come in, and however often, a locked page and a private page in the cache hold nothing.
THEOREM LockIsFinal == Spec => []NothingAfterLock
<1>1. IInv => NothingAfterLock
  BY NoPeersType DEF IInv, Good, Locked, Dashboard, NothingAfterLock
<1> QED BY <1>1, ViewInvariance, PTL

\* Rates that are not of a live snapshot are shown only by a page nobody looks at, or
\* with the countdown that withdraws them running, for any number of reads and failures.
THEOREM OnlyLiveRates == Spec => []RatesAreLive
<1>1. IInv => RatesAreLive
  <2> SUFFICES ASSUME IInv, p.shown.rates, ~live(p)
               PROVE  p.aged = "since" /\ (p.hidden \/ p.cached \/ p.countdown)
    BY DEF RatesAreLive
  <2>1. p.aged = "since"
    BY DEF IInv, Good, Rates
  <2>2. p.dashboard
    BY NoPeersType DEF IInv, Good, Dashboard
  <2>3. p.countdown <=> ~p.hidden
    BY <2>2 DEF IInv, Good, Dashboard
  <2> QED BY <2>1, <2>3
<1> QED BY <1>1, ViewInvariance, PTL

-----------------------------------------------------------------------------
(* The private mode of the map: its panel and its timers. *)

\* What the timers decide with: the mode, the panel and the transitions set.
HasTimers(s) ==
    /\ {"mode", "panel", "hidden", "hides", "opens", "picks"} \subseteq DOMAIN s
    /\ "shown" \in DOMAIN s.panel

\* A handler leaves all of it alone.
Same(s, r) ==
    /\ HasTimers(r)
    /\ r.mode = s.mode /\ r.panel.shown = s.panel.shown /\ r.hidden = s.hidden
    /\ r.hides = s.hides /\ r.opens = s.opens /\ r.picks = s.picks

\* A panel that is to be hidden is not open, also outside the mode, and a panel that is
\* open in the mode is seen, but for the moment before a timer opens it.
Nearly(s) ==
    /\ HasTimers(s)
    /\ s.opens # None \/ s.picks # None => s.mode
    /\ s.mode => s.hides \cap {"mode", "donut"} = {}
    /\ "panel" \in s.hides => ~s.panel.shown
Serves(s) == Nearly(s) /\ (s.mode /\ s.panel.shown /\ s.opens = None => ~s.hidden)

\* What two handlers leave alone one after the other stays alone.
LEMMA SameTwice ==
    ASSUME NEW s, NEW base, NEW r, Same(s, base), Same(base, r)
    PROVE  Same(s, r)
BY DEF Same

\* The timers go on serving the mode when nothing they decide with changes.
LEMMA SameServes ==
    ASSUME NEW s, NEW r, Same(s, r)
    PROVE  (Serves(s) => Serves(r)) /\ (Nearly(s) => Nearly(r))
BY DEF Same, Serves, Nearly

\* A handler that returns early changes nothing.
LEMMA SameItself ==
    ASSUME NEW s, HasTimers(s)
    PROVE  Same(s, s)
BY DEF Same

\* Handlers that assign to other fields only.
LEMMA SimpleHandlers ==
    ASSUME NEW s, HasTimers(s)
    PROVE  /\ \A container : Same(s, Fresh(s, container))
           /\ Same(s, hideTooltip(s))
           /\ Same(s, clearMapDotFilter(s))
           /\ Same(s, popupClose(s))
           /\ \A row : Same(s, pinPnSubTooltip(s, row))
           /\ Same(s, showPnInsightRect(s))
           /\ Same(s, hidePnInsightRect(s))
           /\ \A peer : Same(s, openPeer(s, peer))
           /\ \A net : Same(s, onPnSegmentHover(s, net))
           /\ Same(s, onPnSegmentLeave(s))
           /\ \A peer : Same(s, enterTipPeer(s, peer))
           /\ Same(s, leaveTipPeer(s))
           /\ \A x : Same(s, selectGroup(s, x))
           /\ Same(s, reconcile(s))
           /\ \A P : Same(s, replace(s, P))
<1>1. \A container : Same(s, Fresh(s, container))
  BY DEF HasTimers, Same, Fresh
<1>2. Same(s, hideTooltip(s))
  BY DEF HasTimers, Same, hideTooltip
<1>3. Same(s, clearMapDotFilter(s))
  BY DEF HasTimers, Same, clearMapDotFilter
<1>4. Same(s, popupClose(s))
  BY DEF HasTimers, Same, popupClose
<1>5. \A row : Same(s, pinPnSubTooltip(s, row))
  BY DEF HasTimers, Same, pinPnSubTooltip
<1>6. Same(s, showPnInsightRect(s))
  BY DEF HasTimers, Same, showPnInsightRect
<1>7. Same(s, hidePnInsightRect(s))
  BY DEF HasTimers, Same, hidePnInsightRect
<1>8. \A peer : Same(s, openPeer(s, peer))
  BY DEF HasTimers, Same, openPeer
<1>9. \A net : Same(s, onPnSegmentHover(s, net))
  BY DEF HasTimers, Same, onPnSegmentHover
<1>10. Same(s, onPnSegmentLeave(s))
  BY DEF HasTimers, Same, onPnSegmentLeave
<1>11. \A peer : Same(s, enterTipPeer(s, peer))
  BY DEF HasTimers, Same, enterTipPeer
<1>12. Same(s, leaveTipPeer(s))
  BY DEF HasTimers, Same, leaveTipPeer
<1>13. \A x : Same(s, selectGroup(s, x))
  BY DEF HasTimers, Same, selectGroup
<1>14. Same(s, reconcile(s))
  BY DEF HasTimers, Same, reconcile
<1>15. \A P : Same(s, replace(s, P))
  BY DEF HasTimers, Same, replace
<1>. QED BY <1>1, <1>2, <1>3, <1>4, <1>5, <1>6, <1>7, <1>8, <1>9, <1>10, <1>11, <1>12, <1>13, <1>14, <1>15

\* Handlers that put those together, or look before they do.
LEMMA PanelHandlers ==
    ASSUME NEW s, HasTimers(s)
    PROVE  /\ Same(s, closeGroup(s)) /\ Same(s, hidePnSubTooltip(s))
           /\ \A ids : Same(s, showPnSubTooltip(s, ids))
           /\ Same(s, renderPnDonut(s)) /\ Same(s, clearPnInsightState(s))
           /\ Same(s, dismissInsight(s))
           /\ \A net : Same(s, updatePanel(s, net))
           /\ Same(s, refreshPinnedPreview(s)) /\ Same(s, refreshInsight(s))
<1>1. Same(s, closeGroup(s))
  BY DEF HasTimers, Same, closeGroup, clearMapDotFilter, hideTooltip
<1>2. Same(s, hidePnSubTooltip(s))
  BY DEF HasTimers, Same, hidePnSubTooltip, Fresh
<1>3. \A ids : Same(s, showPnSubTooltip(s, ids))
  BY DEF HasTimers, Same, showPnSubTooltip, Fresh
<1>4. Same(s, renderPnDonut(s))
  BY DEF HasTimers, Same, renderPnDonut, Fresh
<1>5. Same(s, clearPnInsightState(s))
  BY DEF HasTimers, Same, clearPnInsightState, renderPnDonut, Fresh
<1>6. Same(s, dismissInsight(s))
  BY DEF HasTimers, Same, dismissInsight, hidePnInsightRect, clearPnInsightState, renderPnDonut, Fresh
<1>7. \A net : Same(s, updatePanel(s, net))
  BY DEF HasTimers, Same, updatePanel, Fresh
<1>8. Same(s, refreshPinnedPreview(s))
  BY DEF HasTimers, Same, refreshPinnedPreview, showPnSubTooltip, Fresh
<1>9. Same(s, refreshInsight(s))
  BY DEF HasTimers, Same, refreshInsight, showPnInsightRect, hidePnInsightRect, clearPnInsightState, renderPnDonut, Fresh
<1>. QED BY <1>1, <1>2, <1>3, <1>4, <1>5, <1>6, <1>7, <1>8, <1>9

\* The refresh of the mode's donut, panel, insight and pinned list.
LEMMA UpdateKeeps ==
    ASSUME NEW s, HasTimers(s)
    PROVE  Same(s, updatePrivateNetUI(s))
<1> DEFINE d == renderPnDonut(s)
           up == IF d.panel.shown THEN updatePanel(d, d.selNet) ELSE d
           i == refreshInsight(up)
           r == refreshPinnedPreview(i)
<1>1. updatePrivateNetUI(s) = IF ~s.mode THEN s ELSE r
  BY DEF updatePrivateNetUI
<1>2. Same(s, d) /\ HasTimers(d)
  BY PanelHandlers DEF Same
<1> HIDE DEF d
<1>3. Same(d, up) /\ HasTimers(up)
  BY <1>2, PanelHandlers, SameItself DEF Same
<1> HIDE DEF up
<1>4. Same(up, i) /\ HasTimers(i)
  BY <1>3, PanelHandlers DEF Same
<1> HIDE DEF i
<1>5. Same(i, r)
  BY <1>4, PanelHandlers
<1> HIDE DEF r
<1>. QED BY <1>1, <1>2, <1>3, <1>4, <1>5, SameTwice, SameItself

\* Selecting a peer and letting it go, each ending with that refresh.
LEMMA PeerHandlers ==
    ASSUME NEW s, HasTimers(s)
    PROVE  /\ Same(s, closePopup(s)) /\ Same(s, clearPeerFromMap(s)) /\ Same(s, goBack(s))
           /\ \A peer : Same(s, selectPrivatePeer(s, peer))
<1>1. Same(s, closePopup(s))
  <2> DEFINE t == [popupClose(s) EXCEPT !.sel = None, !.line = None, !.high = None]
  <2>1. Same(s, t)
    BY DEF HasTimers, Same, popupClose
  <2>2. closePopup(s) = updatePrivateNetUI(t)
    BY DEF closePopup
  <2> HIDE DEF t
  <2>. QED BY <2>1, <2>2, UpdateKeeps, SameTwice DEF Same
<1>2. Same(s, clearPeerFromMap(s))
  <2> DEFINE t == hideTooltip([s EXCEPT !.sel = None, !.line = None, !.high = None])
             h == hidePnSubTooltip(popupClose(t))
             d == dismissInsight(h)
  <2>1. Same(s, h)
    BY DEF HasTimers, Same, hidePnSubTooltip, popupClose, hideTooltip, Fresh
  <2>2. clearPeerFromMap(s) = updatePrivateNetUI(d)
    BY DEF clearPeerFromMap
  <2> HIDE DEF h
  <2>3. Same(h, d)
    BY <2>1, PanelHandlers DEF Same
  <2> HIDE DEF d
  <2>. QED BY <2>1, <2>2, <2>3, UpdateKeeps, SameTwice DEF Same
<1>3. Same(s, goBack(s))
  <2> DEFINE h == hidePnSubTooltip([s EXCEPT !.selNet = None])
             u == updatePanel(h, None)
  <2>1. Same(s, h)
    BY DEF HasTimers, Same, hidePnSubTooltip, Fresh
  <2>2. goBack(s) = updatePrivateNetUI(u)
    BY DEF goBack
  <2> HIDE DEF h
  <2>3. Same(h, u)
    BY <2>1, PanelHandlers DEF Same
  <2> HIDE DEF u
  <2>. QED BY <2>1, <2>2, <2>3, UpdateKeeps, SameTwice DEF Same
<1>4. ASSUME NEW peer PROVE Same(s, selectPrivatePeer(s, peer))
  <2> DEFINE at == hidePnSubTooltip(hideTooltip([s EXCEPT !.sel = peer, !.line = peer, !.high = peer]))
             d == IF at.ins = None \/ at.ins.peer # peer THEN dismissInsight(at) ELSE at
             o == openPeer(d, peer)
  <2>1. Same(s, at)
    BY DEF HasTimers, Same, hidePnSubTooltip, hideTooltip, Fresh
  <2>2. selectPrivatePeer(s, peer) = IF peer \notin s.peers THEN s ELSE updatePrivateNetUI(o)
    BY DEF selectPrivatePeer
  <2> HIDE DEF at
  <2>3. Same(at, d)
    BY <2>1, PanelHandlers, SameItself DEF Same
  <2> HIDE DEF d
  <2>4. Same(d, o)
    BY <2>3, SimpleHandlers DEF Same
  <2> HIDE DEF o
  <2>5. Same(o, updatePrivateNetUI(o))
    BY <2>4, UpdateKeeps DEF Same
  <2>6. Same(s, updatePrivateNetUI(o))
    BY <2>1, <2>3, <2>4, <2>5, SameTwice
  <2>. QED BY <2>2, <2>6, SameItself
<1>. QED BY <1>1, <1>2, <1>3, <1>4

\* What the pointer does in the panel, and clicks there.
LEMMA RowHandlers ==
    ASSUME NEW s, HasTimers(s)
    PROVE  /\ \A row : Same(s, enterRow(s, row)) /\ Same(s, clickRow(s, row))
           /\ Same(s, leaveRow(s)) /\ Same(s, leaveInsight(s))
           /\ \A i : Same(s, enterInsight(s, i)) /\ Same(s, clickInsight(s, i))
<1>1. ASSUME NEW base, HasTimers(base), NEW row PROVE Same(base, showRow(base, row))
  BY <1>1 DEF HasTimers, Same, showRow, showPnSubTooltip, Fresh
<1>2. ASSUME NEW row PROVE Same(s, enterRow(s, row))
  BY <1>1, SameItself DEF enterRow
<1>3. ASSUME NEW row PROVE Same(s, clickRow(s, row))
  <2> DEFINE d == dismissInsight(s)
             r == showRow(d, row)
  <2>1. Same(s, d) /\ HasTimers(d)
    BY PanelHandlers DEF Same
  <2>2. clickRow(s, row) = IF d.pinned /\ d.src = row THEN hidePnSubTooltip(d) ELSE pinPnSubTooltip(r, row)
    BY DEF clickRow
  <2> HIDE DEF d
  <2>3. Same(d, r) /\ HasTimers(r)
    BY <1>1, <2>1 DEF Same
  <2> HIDE DEF r
  <2>4. Same(d, hidePnSubTooltip(d)) /\ Same(r, pinPnSubTooltip(r, row))
    BY <2>1, <2>3, PanelHandlers, SimpleHandlers
  <2>. QED BY <2>1, <2>2, <2>3, <2>4, SameTwice
<1>4. Same(s, leaveRow(s))
  BY PanelHandlers, SameItself DEF leaveRow
<1>5. Same(s, leaveInsight(s))
  BY DEF HasTimers, Same, leaveInsight, hidePnInsightRect
<1>6. ASSUME NEW i PROVE Same(s, enterInsight(s, i))
  BY DEF HasTimers, Same, enterInsight, showPnInsightRect
<1>7. ASSUME NEW i PROVE Same(s, clickInsight(s, i))
  <2> DEFINE h == hidePnInsightRect(s)
             t == [showPnInsightRect(s) EXCEPT !.ins = i, !.line = i.peer, !.preview = {i.peer}]
  <2>1. Same(s, h) /\ Same(s, t)
    BY DEF HasTimers, Same, hidePnInsightRect, showPnInsightRect
  <2>2. clickInsight(s, i) = IF s.ins = i THEN clearPnInsightState(h)
                             ELSE IF i.peer \notin s.peers THEN s ELSE selectPrivatePeer(t, i.peer)
    BY DEF clickInsight
  <2> HIDE DEF h, t
  <2>3. Same(h, clearPnInsightState(h)) /\ Same(t, selectPrivatePeer(t, i.peer))
    <3>1. HasTimers(h) /\ HasTimers(t)
      BY <2>1 DEF Same
    <3>2. Same(h, clearPnInsightState(h))
      BY <3>1, PanelHandlers
    <3>. QED BY <3>1, <3>2, PeerHandlers
  <2>4. Same(s, clearPnInsightState(h)) /\ Same(s, selectPrivatePeer(t, i.peer))
    BY <2>1, <2>3, SameTwice
  <2>. QED BY <2>2, <2>4, SameItself
<1>. QED BY <1>2, <1>3, <1>4, <1>5, <1>6, <1>7

\* Opening the panel replaces the transition that would hide it.
LEMMA OpenServes ==
    ASSUME NEW s, Nearly(s)
    PROVE  /\ \A net : Serves(openPnDetailPanel(s, net))
           /\ Serves(openPnOverviewPanel(s))
<1>1. ASSUME NEW base, Nearly(base) PROVE Serves(openPanel(base))
  BY <1>1 DEF HasTimers, Nearly, Serves, openPanel
<1>2. ASSUME NEW net PROVE Serves(openPnDetailPanel(s, net))
  <2> DEFINE o == openPanel(s)
  <2>1. Serves(o) /\ HasTimers(o) /\ openPnDetailPanel(s, net) = updatePanel(o, net)
    BY <1>1 DEF openPnDetailPanel, Serves, Nearly
  <2> HIDE DEF o
  <2>. QED BY <2>1, PanelHandlers, SameServes
<1>3. Serves(openPnOverviewPanel(s))
  <2> DEFINE t == [s EXCEPT !.selNet = None]
             o == openPanel(t)
  <2>1. Same(s, t)
    BY DEF HasTimers, Nearly, Same
  <2>2. Nearly(t) /\ openPnOverviewPanel(s) = updatePanel(o, None)
    BY <2>1, SameServes DEF openPnOverviewPanel
  <2> HIDE DEF t
  <2>3. Serves(o) /\ HasTimers(o)
    BY <1>1, <2>2 DEF Serves, Nearly
  <2> HIDE DEF o
  <2>. QED BY <2>2, <2>3, PanelHandlers, SameServes
<1>. QED BY <1>2, <1>3

\* Closing the panel sets the transition that hides it, of a panel no longer open.
LEMMA CloseServes ==
    ASSUME NEW s, Serves(s)
    PROVE  Serves(closePnDetailPanel(s))
<1> DEFINE h == hidePnSubTooltip(s)
<1>1. Serves(h) /\ HasTimers(h) /\ closePnDetailPanel(s) = [h EXCEPT !.panel.shown = FALSE, !.hides = @ \cup {"panel"}]
  BY PanelHandlers, SameServes DEF closePnDetailPanel, Serves, Nearly
<1> HIDE DEF h
<1>. QED BY <1>1 DEF HasTimers, Nearly, Serves

\* The refresh after anything else.
LEMMA UpdateServes ==
    ASSUME NEW s, Serves(s)
    PROVE  Serves(updatePrivateNetUI(s)) /\ HasTimers(s)
BY UpdateKeeps, SameServes DEF Serves, Nearly

\* The mode is entered with a timer set, and left with none.
LEMMA EnterServes ==
    ASSUME NEW s, Serves(s), NEW peer, NEW net
    PROVE  Serves(enterPrivateNetMode(s, peer, net))
<1> DEFINE base == [s EXCEPT !.mode = TRUE, !.high = None, !.selNet = net]
           c == clearMapDotFilter(hideTooltip(base))
           v == hidePnSubTooltip(c)
           r == [v EXCEPT !.mini = None, !.hides = @ \ {"mode", "donut"},
                          !.opens = IF net = None THEN All ELSE net, !.picks = peer]
<1>1. enterPrivateNetMode(s, peer, net) =
        IF s.mode THEN (IF peer = None THEN s ELSE selectPrivatePeer(s, peer)) ELSE updatePrivateNetUI(r)
  BY DEF enterPrivateNetMode
<1>2. /\ HasTimers(base) /\ base.mode = TRUE /\ base.hides = s.hides
      /\ base.panel.shown = s.panel.shown
  BY DEF HasTimers, Nearly, Serves
<1> HIDE DEF base
<1>3. Same(base, c)
  BY <1>2 DEF HasTimers, Same, clearMapDotFilter, hideTooltip
<1> HIDE DEF c
<1>4. Same(c, v)
  BY <1>3, PanelHandlers DEF Same
<1> HIDE DEF v
<1>5. /\ HasTimers(v) /\ v.mode = TRUE /\ v.hides = s.hides
      /\ v.panel.shown = s.panel.shown
  BY <1>2, <1>3, <1>4 DEF Same
<1>6. Serves(r)
  BY <1>5, PrivateNetworksAssumption DEF HasTimers, Nearly, Serves, PrivateNetworksAssumption
<1> HIDE DEF r
<1>7. Serves(updatePrivateNetUI(r))
  BY <1>6, UpdateServes
<1>8. Serves(selectPrivatePeer(s, peer))
  BY PeerHandlers, SameServes DEF Serves, Nearly
<1>. QED BY <1>1, <1>7, <1>8

\* Leaving the mode cancels what would open or pick, and hides a closed panel.
LEMMA ExitServes ==
    ASSUME NEW s, Serves(s)
    PROVE  Serves(exitPrivateNetMode(s))
<1> DEFINE base == hidePnInsightRect([s EXCEPT !.mode = FALSE, !.sel = None, !.line = None, !.selNet = None,
                                  !.hov = None, !.ins = None])
           v == hidePnSubTooltip(base)
           c == closeGroup(popupClose(v))
           r == [c EXCEPT !.opens = None, !.picks = None, !.panel.shown = FALSE,
                          !.hides = @ \cup {"mode", "donut"}]
<1>1. exitPrivateNetMode(s) = IF ~s.mode THEN s ELSE Fresh(r, "mini")
  BY DEF exitPrivateNetMode
<1>2. HasTimers(base) /\ base.mode = FALSE /\ base.hides = s.hides
  BY DEF HasTimers, Nearly, Serves, hidePnInsightRect
<1> HIDE DEF base
<1>3. Same(base, v)
  BY <1>2, PanelHandlers
<1> HIDE DEF v
<1>4. Same(v, c)
  BY <1>3 DEF HasTimers, Same, closeGroup, popupClose, clearMapDotFilter, hideTooltip
<1> HIDE DEF c
<1>5. HasTimers(c) /\ c.mode = FALSE /\ c.hides = s.hides
  BY <1>2, <1>3, <1>4 DEF Same
<1>6. Serves(r)
  BY <1>5 DEF HasTimers, Nearly, Serves
<1> HIDE DEF r
<1>7. Serves(Fresh(r, "mini"))
  BY <1>6, SimpleHandlers, SameServes DEF Serves, Nearly
<1>. QED BY <1>1, <1>7

\* A handler that leaves the six fields alone needs nothing else.
LEMMA KeptServes ==
    ASSUME NEW s, Serves(s)
    PROVE  HasTimers(s) /\ \A r : Same(s, r) => Serves(r)
BY SameServes DEF Serves, Nearly

\* A click on a segment of the donut opens its network, or goes back.
LEMMA SegmentServes ==
    ASSUME NEW s, Serves(s), NEW net
    PROVE  Serves(onPnSegmentClick(s, net))
<1> DEFINE d == dismissInsight(s)
           c == [d EXCEPT !.selNet = None]
           o == [d EXCEPT !.selNet = net]
<1>1. onPnSegmentClick(s, net) =
        updatePrivateNetUI(IF d.selNet = net THEN closePnDetailPanel(c) ELSE openPnDetailPanel(o, net))
  BY DEF onPnSegmentClick
<1>2. Serves(d) /\ HasTimers(d)
  BY PanelHandlers, KeptServes
<1> HIDE DEF d
<1>3. Same(d, c) /\ Same(d, o)
  BY <1>2 DEF HasTimers, Same
<1> HIDE DEF c, o
<1>4. Serves(c) /\ Nearly(o)
  BY <1>2, <1>3, KeptServes DEF Serves
<1>5. Serves(closePnDetailPanel(c)) /\ Serves(openPnDetailPanel(o, net))
  BY <1>4, CloseServes, OpenServes
<1>. QED BY <1>1, <1>5, UpdateServes

\* The chip of a network enters the mode or changes what its panel shows.
LEMMA ChipServes ==
    ASSUME NEW s, Serves(s), NEW net
    PROVE  Serves(networkChip(s, net))
<1> DEFINE t == [s EXCEPT !.selNet = net]
           o == openPnDetailPanel(t, net)
<1>1. networkChip(s, net) = IF net \notin Private THEN exitPrivateNetMode(s)
                            ELSE IF ~s.mode THEN enterPrivateNetMode(s, None, net)
                            ELSE updatePrivateNetUI(o)
  BY DEF networkChip
<1>2. Same(s, t)
  BY DEF HasTimers, Same, Nearly, Serves
<1> HIDE DEF t
<1>3. Nearly(t)
  BY <1>2, KeptServes DEF Serves
<1>4. Serves(o)
  BY <1>3, OpenServes
<1> HIDE DEF o
<1>. QED BY <1>1, <1>4, ExitServes, EnterServes, UpdateServes

\* Clearing the filter leaves the mode, or what it has selected.
LEMMA ClearServes ==
    ASSUME NEW s, Serves(s), NEW chip \in {"all", "private-mode", "private-network", "private-filter"}
    PROVE  Serves(clearFilter(s, chip))
<1>1. CASE chip \in {"all", "private-mode"}
  <2>1. Serves(exitPrivateNetMode(s))
    BY ExitServes
  <2>2. Serves(closeGroup(exitPrivateNetMode(s)))
    BY <2>1, PanelHandlers, KeptServes
  <2>. QED BY <1>1, <2>2 DEF clearFilter
<1>2. CASE chip = "private-network"
  <2> DEFINE h == hidePnSubTooltip([s EXCEPT !.selNet = None])
             t == openPnOverviewPanel(h)
             u == updatePrivateNetUI(t)
  <2>1. clearFilter(s, chip) = [u EXCEPT !.filter = s.filter]
    BY <1>2 DEF clearFilter
  <2>2. Same(s, h)
    BY DEF HasTimers, Same, Nearly, Serves, hidePnSubTooltip, Fresh
  <2> HIDE DEF h
  <2>3. Serves(h)
    BY <2>2, KeptServes
  <2>4. Serves(t)
    BY <2>3, OpenServes DEF Serves
  <2> HIDE DEF t
  <2>5. Serves(u) /\ HasTimers(u)
    BY <2>4, UpdateServes
  <2> HIDE DEF u
  <2>6. Same(u, [u EXCEPT !.filter = s.filter])
    BY <2>5 DEF HasTimers, Same
  <2>. QED BY <2>1, <2>5, <2>6, KeptServes
<1>3. CASE chip = "private-filter"
  <2>1. Serves(hidePnSubTooltip(s))
    BY PanelHandlers, KeptServes
  <2>. QED BY <1>3, <2>1, UpdateServes DEF clearFilter
<1>. QED BY <1>1, <1>2, <1>3

\* The centre of the donut opens the overview, or closes the panel.
LEMMA OverviewServes ==
    ASSUME NEW s, Serves(s)
    PROVE  Serves(showPrivateOverview(s))
<1> DEFINE t == IF s.sel = None THEN s ELSE popupClose([s EXCEPT !.sel = None, !.line = None, !.high = None])
           o == openPnOverviewPanel(t)
<1>1. showPrivateOverview(s) = updatePrivateNetUI(o)
  BY DEF showPrivateOverview
<1>2. Same(s, t)
  BY DEF HasTimers, Same, Nearly, Serves, popupClose
<1> HIDE DEF t
<1>3. Nearly(t)
  BY <1>2, KeptServes DEF Serves
<1>4. Serves(o)
  BY <1>3, OpenServes
<1> HIDE DEF o
<1>. QED BY <1>1, <1>4, UpdateServes

\* Escape takes one thing back at a time.
LEMMA EscapeServes ==
    ASSUME NEW s, Serves(s)
    PROVE  Serves(onEscape(s))
<1>1. Serves(closePopup(s)) /\ Serves(goBack(s)) /\ Serves(hidePnSubTooltip(s))
  BY PeerHandlers, PanelHandlers, KeptServes
<1>. QED BY <1>1, UpdateServes, ExitServes DEF onEscape

\* A poll enters the mode only as the first view of a page.
LEMMA PollServes ==
    ASSUME NEW s, Serves(s), NEW P
    PROVE  Serves(applyPeerSnapshot(s, P))
<1> DEFINE a == replace(s, P)
           b == dropDeparted(a)
           c == reconcile(b)
           d == updatePopup(c)
           e == updatePrivateNetUI(d)
           f == initialView(e)
           t == [e EXCEPT !.initial = FALSE]
<1>1. applyPeerSnapshot(s, P) = Fresh(f, "mini")
  BY DEF applyPeerSnapshot
<1>2. Serves(a)
  BY SimpleHandlers, KeptServes
<1> HIDE DEF a
<1>3. Serves(b)
  <2>1. Same(a, b)
    BY <1>2 DEF HasTimers, Same, Nearly, Serves, dropDeparted, popupClose
  <2>. QED BY <1>2, <2>1, KeptServes
<1> HIDE DEF b
<1>4. Serves(c)
  BY <1>3, SimpleHandlers, KeptServes
<1> HIDE DEF c
<1>5. Serves(d)
  BY <1>4, PeerHandlers, KeptServes DEF updatePopup
<1> HIDE DEF d
<1>6. Serves(e) /\ HasTimers(e)
  BY <1>5, UpdateServes, KeptServes
<1> HIDE DEF e
<1>7. f = IF e.initial /\ ~e.mode /\ e.peers # {} /\ e.peers = scope(e.peers, None)
          THEN enterPrivateNetMode(t, None, None) ELSE t
  BY DEF initialView
<1>8. Serves(t)
  <2>1. Same(e, t)
    BY <1>6 DEF HasTimers, Same
  <2>. QED BY <1>6, <2>1, KeptServes
<1> HIDE DEF t, f
<1>9. Serves(f)
  BY <1>7, <1>8, EnterServes
<1>. QED BY <1>1, <1>9, SimpleHandlers, KeptServes

\* The kinds of elements with handlers for the pointer.
PointerKinds == {"segment", "row", "insight", "peer", "mini", "mini segment"}

\* Whatever the pointer enters.
LEMMA ElementsKeep ==
    ASSUME NEW s, HasTimers(s), NEW x \in Elements(s) \cup MiniSegments(s)
    PROVE  Same(s, x.to) /\ x.kind \in PointerKinds
<1> USE DEF PointerKinds
<1>1. CASE x \in Hover("segment", If(DonutThere(s), Segments(s)), LAMBDA net : onPnSegmentHover(s, net))
  <2>1. PICK net : x = [kind |-> "segment", to |-> onPnSegmentHover(s, net)]
    BY <1>1 DEF Hover
  <2>. QED BY <2>1, SimpleHandlers
<1>2. CASE x \in Hover("row", If(s.panel.shown, Rows(s)), LAMBDA row : enterRow(s, row))
  <2>1. PICK row : x = [kind |-> "row", to |-> enterRow(s, row)]
    BY <1>2 DEF Hover
  <2>. QED BY <2>1, RowHandlers
<1>3. CASE x \in Hover("insight", If(s.panel.shown, InsightRows(s)), LAMBDA i : enterInsight(s, i))
  <2>1. PICK i : x = [kind |-> "insight", to |-> enterInsight(s, i)]
    BY <1>3 DEF Hover
  <2>. QED BY <2>1, RowHandlers
<1>4. CASE x \in Hover("peer", If(s.pinned, s.tip), LAMBDA peer : enterTipPeer(s, peer))
  <2>1. PICK peer : x = [kind |-> "peer", to |-> enterTipPeer(s, peer)]
    BY <1>4 DEF Hover
  <2>. QED BY <2>1, SimpleHandlers
<1>5. CASE x \in Hover("mini", If(MiniThere(s), {All}), LAMBDA y : [s EXCEPT !.mini = All])
  <2>1. x = [kind |-> "mini", to |-> [s EXCEPT !.mini = All]]
    BY <1>5 DEF Hover
  <2>. QED BY <2>1 DEF HasTimers, Same
<1>6. CASE x \in MiniSegments(s)
  <2>1. PICK net : x = [kind |-> "mini", to |-> [s EXCEPT !.mini = net]]
    BY <1>6 DEF MiniSegments, Hover
  <2>. QED BY <2>1 DEF HasTimers, Same
<1>. QED BY <1>1, <1>2, <1>3, <1>4, <1>5, <1>6 DEF Elements

\* A step that takes the page to a state that serves.
LEMMA StepServes ==
    ASSUME NEW s, Serves(s), NEW at \in PointerKinds \cup {None}, Step(s, at)
    PROVE  Serves(ui') /\ over' \in PointerKinds \cup {None}
<1>1. Same(s, ui')
  BY DEF Step, HasTimers, Same, Serves, Nearly
<1>2. over' \in {at, "mini", None}
  BY DEF Step
<1>. QED BY <1>1, <1>2, KeptServes DEF PointerKinds

\* The same of a step of the user, which ends the selection of a first view.
LEMMA DoServes ==
    ASSUME NEW s, Serves(s), Do(s), over \in PointerKinds \cup {None}
    PROVE  Serves(ui') /\ over' \in PointerKinds \cup {None}
<1> DEFINE t == [s EXCEPT !.initial = FALSE]
<1>1. Same(s, t) /\ Step(t, over)
  BY DEF Do, HasTimers, Same, Serves, Nearly
<1> HIDE DEF t
<1>. QED BY <1>1, KeptServes, StepServes

\* The invariant of the mode's timers, with what the pointer may rest on.
TimersInvariant == Serves(ui) /\ over \in PointerKinds \cup {None}

\* A page begins outside the mode, with no timer set.
LEMMA TimersInitially == NetworksInit => TimersInvariant
BY DEF NetworksInit, TimersInvariant, Serves, Nearly, HasTimers

\* Every step of the page keeps the invariant, action by action.
LEMMA TimersKept ==
    ASSUME TimersInvariant, [NetworksNext]_networksVars
    PROVE  TimersInvariant'
<1>1. Serves(ui) /\ HasTimers(ui) /\ over \in PointerKinds \cup {None}
  BY KeptServes DEF TimersInvariant
<1>2. SUFFICES Serves(ui') /\ over' \in PointerKinds \cup {None}
  BY DEF TimersInvariant, Serves, Nearly, HasTimers
<1>3. CASE PointerEnters
  <2>1. PICK x \in Elements(ui) \cup MiniSegments(ui), kind \in PointerKinds : Step(x.to, kind)
    BY <1>1, <1>3, ElementsKeep DEF PointerEnters, PointerKinds
  <2>2. Serves(x.to)
    BY <1>1, ElementsKeep, KeptServes
  <2>. QED BY <2>1, <2>2, StepServes
<1>4. CASE PointerLeaves
  <2>1. Same(ui, left(ui))
    <3>1. over \in PointerKinds
      BY <1>1, <1>4 DEF PointerLeaves
    <3>2. CASE over \in {"segment", "row", "insight", "peer"}
      BY <1>1, <3>2, SimpleHandlers, RowHandlers DEF left
    <3>3. CASE over \in {"mini", "mini segment"}
      BY <1>1, <3>3 DEF left, HasTimers, Same
    <3>. QED BY <3>1, <3>2, <3>3 DEF PointerKinds
  <2>2. Serves(left(ui))
    BY <1>1, <2>1, KeptServes
  <2>3. PICK at \in PointerKinds \cup {None} : Step(left(ui), at)
    BY <1>4 DEF PointerLeaves, PointerKinds
  <2>. QED BY <2>2, <2>3, StepServes
<1>5. CASE PressRow
  <2>1. PICK row : Do(clickRow(ui, row))
    BY <1>5 DEF PressRow
  <2>2. Serves(clickRow(ui, row))
    BY <1>1, RowHandlers, KeptServes
  <2>. QED BY <1>1, <2>1, <2>2, DoServes
<1>6. CASE PressInsight
  <2>1. PICK i : Do(clickInsight(ui, i))
    BY <1>6 DEF PressInsight
  <2>2. Serves(clickInsight(ui, i))
    BY <1>1, RowHandlers, KeptServes
  <2>. QED BY <1>1, <2>1, <2>2, DoServes
<1>7. CASE PressTipPeer
  <2>1. PICK peer : Do(selectPrivatePeer(ui, peer))
    BY <1>7 DEF PressTipPeer
  <2>2. Serves(selectPrivatePeer(ui, peer))
    BY <1>1, PeerHandlers, KeptServes
  <2>. QED BY <1>1, <2>1, <2>2, DoServes
<1>8. CASE PressTipClose
  <2>1. Do(hidePnSubTooltip(ui))
    BY <1>8 DEF PressTipClose
  <2>2. Serves(hidePnSubTooltip(ui))
    BY <1>1, PanelHandlers, KeptServes
  <2>. QED BY <1>1, <2>1, <2>2, DoServes
<1>9. CASE PressSegment
  <2>1. PICK net : Do(onPnSegmentClick(ui, net))
    BY <1>9 DEF PressSegment
  <2>2. Serves(onPnSegmentClick(ui, net))
    BY <1>1, SegmentServes
  <2>. QED BY <1>1, <2>1, <2>2, DoServes
<1>10. CASE PressOverview
  <2>1. Do(showPrivateOverview(ui))
    BY <1>10 DEF PressOverview
  <2>2. Serves(showPrivateOverview(ui))
    BY <1>1, OverviewServes
  <2>. QED BY <1>1, <2>1, <2>2, DoServes
<1>11. CASE PressBack
  <2>1. Do(goBack(ui))
    BY <1>11 DEF PressBack
  <2>2. Serves(goBack(ui))
    BY <1>1, PeerHandlers, KeptServes
  <2>. QED BY <1>1, <2>1, <2>2, DoServes
<1>12. CASE PressExit
  <2>1. Do(exitPrivateNetMode(ui))
    BY <1>12 DEF PressExit
  <2>2. Serves(exitPrivateNetMode(ui))
    BY <1>1, ExitServes
  <2>. QED BY <1>1, <2>1, <2>2, DoServes
<1>13. CASE PressChip
  <2>1. PICK peer : Do(networkChip(ui, Network[peer]))
    BY <1>13 DEF PressChip
  <2>2. Serves(networkChip(ui, Network[peer]))
    BY <1>1, ChipServes
  <2>. QED BY <1>1, <2>1, <2>2, DoServes
<1>14. CASE PressClear
  <2>1. PICK chip \in {"all", "private-mode", "private-network", "private-filter"} : Do(clearFilter(ui, chip))
    BY <1>14 DEF PressClear
  <2>2. Serves(clearFilter(ui, chip))
    BY <1>1, ClearServes
  <2>. QED BY <1>1, <2>1, <2>2, DoServes
<1>15. CASE PressMapBlank
  <2>1. Do(clearPeerFromMap(ui))
    BY <1>15 DEF PressMapBlank
  <2>2. Serves(clearPeerFromMap(ui))
    BY <1>1, PeerHandlers, KeptServes
  <2>. QED BY <1>1, <2>1, <2>2, DoServes
<1>16. CASE PressGroupClose
  <2>1. Do(closeGroup(ui))
    BY <1>16 DEF PressGroupClose
  <2>2. Serves(closeGroup(ui))
    BY <1>1, PanelHandlers, KeptServes
  <2>. QED BY <1>1, <2>1, <2>2, DoServes
<1>17. CASE PressTablePeer
  <2>1. PICK peer : Do(enterPrivateNetMode(ui, peer, None))
    BY <1>17 DEF PressTablePeer
  <2>2. Serves(enterPrivateNetMode(ui, peer, None))
    BY <1>1, EnterServes
  <2>. QED BY <1>1, <2>1, <2>2, DoServes
<1>18. CASE PressPopupClose
  <2>1. Do(closePopup(ui))
    BY <1>18 DEF PressPopupClose
  <2>2. Serves(closePopup(ui))
    BY <1>1, PeerHandlers, KeptServes
  <2>. QED BY <1>1, <2>1, <2>2, DoServes
<1>19. CASE Escape
  <2>1. Do(onEscape(ui))
    BY <1>19 DEF Escape
  <2>2. Serves(onEscape(ui))
    BY <1>1, EscapeServes
  <2>. QED BY <1>1, <2>1, <2>2, DoServes
<1>20. CASE PressRectClose
  <2> DEFINE h == hidePnInsightRect(ui)
  <2>1. Do(clearPnInsightState(h)) /\ Same(ui, h)
    BY <1>1, <1>20, SimpleHandlers DEF PressRectClose
  <2> HIDE DEF h
  <2>2. Serves(h)
    BY <1>1, <2>1, KeptServes
  <2>3. Serves(clearPnInsightState(h))
    BY <2>2, PanelHandlers, KeptServes
  <2>. QED BY <1>1, <2>1, <2>3, DoServes
<1>21. CASE PressMini
  <2> DEFINE m == [ui EXCEPT !.mini = None]
  <2>1. PICK net : Do(enterPrivateNetMode(m, None, net))
    BY <1>21 DEF PressMini
  <2>2. Same(ui, m)
    BY <1>1 DEF HasTimers, Same
  <2> HIDE DEF m
  <2>3. Serves(m)
    BY <1>1, <2>2, KeptServes
  <2>4. Serves(enterPrivateNetMode(m, None, net))
    BY <2>3, EnterServes
  <2>. QED BY <1>1, <2>1, <2>4, DoServes
<1>22. CASE PressMap
  <2>1. PICK x : \E s \in clickMap(ui, x) \cup clickMapPublic(ui, x) : Do(s)
    BY <1>22 DEF PressMap
  <2>2. PICK s \in clickMap(ui, x) \cup clickMapPublic(ui, x) : Do(s)
    BY <2>1
  <2>3. \/ s = selectGroup(ui, x) \/ \E peer : s = selectPrivatePeer(ui, peer)
        \/ s = clearPeerFromMap(ui) \/ \E peer : s = enterPrivateNetMode(ui, peer, None)
    BY <2>2 DEF clickMap, clickMapPublic
  <2>4. Serves(s)
    BY <1>1, <2>3, SimpleHandlers, PeerHandlers, EnterServes, KeptServes
  <2>. QED BY <1>1, <2>2, <2>4, DoServes
<1>23. CASE PressGroupPeer
  <2> DEFINE h == hideTooltip(ui)
  <2>1. PICK peer : Do(selectPrivatePeer(h, peer))
    BY <1>23 DEF PressGroupPeer
  <2>2. Serves(h)
    BY <1>1, SimpleHandlers, KeptServes
  <2> HIDE DEF h
  <2>3. Serves(selectPrivatePeer(h, peer))
    BY <2>2, PeerHandlers, KeptServes
  <2>. QED BY <1>1, <2>1, <2>3, DoServes
<1>24. CASE PanelOpens
  <2> DEFINE s == [ui EXCEPT !.opens = None]
  <2>1. \/ Step(openPnOverviewPanel(s), over)
        \/ Step(openPnDetailPanel(s, ui.opens), over)
    BY <1>24 DEF PanelOpens
  <2>2. Nearly(s)
    BY <1>1 DEF HasTimers, Nearly, Serves
  <2> HIDE DEF s
  <2>. QED BY <1>1, <2>1, <2>2, OpenServes, StepServes
<1>25. CASE PeerPicked
  <2> DEFINE s == [ui EXCEPT !.picks = None]
  <2>1. Step(selectPrivatePeer(s, ui.picks), over)
    BY <1>25 DEF PeerPicked
  <2>2. Serves(s)
    BY <1>1, <1>25 DEF HasTimers, Nearly, Serves, PeerPicked
  <2> HIDE DEF s
  <2>3. Serves(selectPrivatePeer(s, ui.picks))
    BY <2>2, PeerHandlers, KeptServes
  <2>. QED BY <1>1, <2>1, <2>3, StepServes
<1>26. CASE PopupOpens
  <2> DEFINE s == [ui EXCEPT !.popup.up = TRUE]
  <2>1. Step(s, over) \/ Step(closePopup(ui), over)
    BY <1>26 DEF PopupOpens
  <2>2. Same(ui, s)
    BY <1>1 DEF HasTimers, Same
  <2> HIDE DEF s
  <2>3. Serves(s) /\ Serves(closePopup(ui))
    BY <1>1, <2>2, PeerHandlers, KeptServes
  <2>. QED BY <1>1, <2>1, <2>3, StepServes
<1>27. CASE PanelHides
  <2>1. PICK t \in ui.hides \cap {"panel", "mode"} :
            Step([ui EXCEPT !.hides = @ \ {t}, !.hidden = TRUE], over)
    BY <1>27 DEF PanelHides
  <2> DEFINE s == [ui EXCEPT !.hides = @ \ {t}, !.hidden = TRUE]
  <2>2. Serves(s)
    BY <1>1, <2>1 DEF HasTimers, Nearly, Serves
  <2> HIDE DEF s
  <2>. QED BY <1>1, <2>1, <2>2, StepServes DEF s
<1>28. CASE DonutHides
  <2> DEFINE s == [ui EXCEPT !.hides = @ \ {"donut"}]
  <2>1. PICK at \in PointerKinds \cup {None} : Step(s, at)
    BY <1>1, <1>28 DEF DonutHides
  <2>2. Serves(s)
    BY <1>1 DEF HasTimers, Nearly, Serves
  <2> HIDE DEF s
  <2>. QED BY <2>1, <2>2, StepServes
<1>29. CASE Refresh
  <2>1. PICK P : Step(applyPeerSnapshot(ui, P), over)
    BY <1>29 DEF Refresh
  <2>. QED BY <1>1, <2>1, PollServes, StepServes
<1>30. CASE UNCHANGED networksVars
  BY <1>1, <1>30 DEF networksVars
<1>. QED BY <1>3, <1>4, <1>5, <1>6, <1>7, <1>8, <1>9, <1>10, <1>11, <1>12, <1>13, <1>14, <1>15, <1>16, <1>17, <1>18, <1>19, <1>20, <1>21, <1>22, <1>23, <1>24, <1>25, <1>26, <1>27, <1>28, <1>29, <1>30 DEF NetworksNext

\* The invariant of the timers of the private mode.
THEOREM TimersInvariance == NetworksSpec => []TimersInvariant
<1>. QED BY TimersInitially, TimersKept, PTL DEF NetworksSpec

\* Whatever is clicked, polled or fires late, a timer of a transition that was
\* replaced neither hides the open panel of the mode nor opens it outside the mode.
THEOREM TimersServe == NetworksSpec => []TimersServeTheMode
<1>1. TimersInvariant => TimersServeTheMode
  BY DEF TimersInvariant, Serves, Nearly, TimersServeTheMode
<1>. QED BY <1>1, TimersInvariance, PTL

-----------------------------------------------------------------------------
(* The private mode of the map: what is selected, pinned and open.           *)

\* The fields of the page.
Fields == {"mode", "peers", "drawn", "initial", "sel", "line", "popup", "high", "selNet", "hov",
           "mini", "rect", "ins", "tip", "pinned", "src", "filter", "preview", "saved", "panel",
           "hidden", "hides", "opens", "picks", "group", "gsel", "list", "fresh"}

\* A pinned list has its row, and an insight its rectangle and a peer of a private network.
Loose(s) ==
    /\ Fields \subseteq DOMAIN s
    /\ {"shown", "net", "peers"} \subseteq DOMAIN s.panel /\ s.panel.peers \in SUBSET Peers
    /\ s.peers \in SUBSET Peers
    /\ s.popup \in Popups \cup {None}
    /\ s.pinned => s.filter # None
    /\ s.ins # None => s.rect /\ Network[s.ins.peer] \in Private

\* The popup and the insight are those of the peer that is selected, if one is.
Tied(s) ==
    /\ Loose(s)
    /\ s.popup # None /\ s.sel # None => s.popup.peer = s.sel
    /\ s.ins # None /\ s.sel # None => s.ins.peer = s.sel

\* null is no row, no popup, no set of peers and not the overview.
LEMMA NullIsNothing ==
    None \notin Labels /\ None \notin Popups /\ None \notin SUBSET Peers /\ All # None
BY PrivateNetworksAssumption DEF PrivateNetworksAssumption

\* Handlers that assign to a few fields.
LEMMA SimpleTied ==
    ASSUME NEW s, Tied(s)
    PROVE  /\ \A container : Tied(Fresh(s, container))
           /\ Tied(hideTooltip(s)) /\ Tied(clearMapDotFilter(s)) /\ Tied(popupClose(s))
           /\ \A row : row # None => Tied(pinPnSubTooltip(s, row))
           /\ Tied(showPnInsightRect(s))
           /\ \A net : Tied(onPnSegmentHover(s, net)) /\ Tied([s EXCEPT !.selNet = net])
           /\ \A net : Tied([s EXCEPT !.mini = net])
           /\ Tied([s EXCEPT !.opens = None]) /\ Tied([s EXCEPT !.picks = None])
           /\ Tied([s EXCEPT !.initial = FALSE])
           /\ Tied([s EXCEPT !.sel = None, !.line = None, !.high = None])
           /\ \A hides : Tied([s EXCEPT !.hides = hides]) /\ Tied([s EXCEPT !.hides = hides, !.hidden = TRUE])
           /\ Tied(onPnSegmentLeave(s))
           /\ \A peer : Tied(enterTipPeer(s, peer))
           /\ Tied(leaveTipPeer(s))
           /\ \A x : Tied(selectGroup(s, x))
           /\ Tied(reconcile(s))
<1>1. \A container : Tied(Fresh(s, container))
  BY DEF Tied, Loose, Fields, Fresh
<1>2. Tied(hideTooltip(s)) /\ Tied(clearMapDotFilter(s))
  BY DEF Tied, Loose, Fields, hideTooltip, clearMapDotFilter
<1>3. Tied(popupClose(s))
  BY DEF Tied, Loose, Fields, popupClose
<1>4. \A row : row # None => Tied(pinPnSubTooltip(s, row))
  BY DEF Tied, Loose, Fields, pinPnSubTooltip
<1>5. Tied(showPnInsightRect(s))
  BY DEF Tied, Loose, Fields, showPnInsightRect
<1>6. \A net : Tied(onPnSegmentHover(s, net)) /\ Tied([s EXCEPT !.selNet = net])
  BY DEF Tied, Loose, Fields, onPnSegmentHover
<1>7. \A net : Tied([s EXCEPT !.mini = net])
  BY DEF Tied, Loose, Fields
<1>8. Tied([s EXCEPT !.opens = None]) /\ Tied([s EXCEPT !.picks = None])
  BY DEF Tied, Loose, Fields
<1>9. Tied([s EXCEPT !.initial = FALSE])
  BY DEF Tied, Loose, Fields
<1>10. Tied([s EXCEPT !.sel = None, !.line = None, !.high = None])
  BY DEF Tied, Loose, Fields
<1>11. \A hides : Tied([s EXCEPT !.hides = hides]) /\ Tied([s EXCEPT !.hides = hides, !.hidden = TRUE])
  BY DEF Tied, Loose, Fields
<1>12. Tied(onPnSegmentLeave(s))
  BY DEF Tied, Loose, Fields, onPnSegmentLeave
<1>13. \A peer : Tied(enterTipPeer(s, peer))
  BY DEF Tied, Loose, Fields, enterTipPeer
<1>14. Tied(leaveTipPeer(s))
  BY DEF Tied, Loose, Fields, leaveTipPeer
<1>15. \A x : Tied(selectGroup(s, x))
  BY DEF Tied, Loose, Fields, selectGroup
<1>16. Tied(reconcile(s))
  BY DEF Tied, Loose, Fields, reconcile
<1>. QED BY <1>1, <1>2, <1>3, <1>4, <1>5, <1>6, <1>7, <1>8, <1>9, <1>10, <1>11, <1>12, <1>13, <1>14, <1>15, <1>16

\* Handlers of the panel, the pinned list and the insight.
LEMMA PanelTied ==
    ASSUME NEW s, Tied(s)
    PROVE  /\ Tied(hidePnSubTooltip(s)) /\ Tied(closeGroup(s))
           /\ \A ids : Tied(showPnSubTooltip(s, ids))
           /\ Tied(renderPnDonut(s))
           /\ Tied(clearPnInsightState(hidePnInsightRect(s)))
           /\ Tied(dismissInsight(s))
           /\ \A net : Tied(updatePanel(s, net)) /\ Tied(openPnDetailPanel(s, net))
           /\ Tied(openPnOverviewPanel(s)) /\ Tied(closePnDetailPanel(s))
           /\ Tied(refreshPinnedPreview(s)) /\ Tied(refreshInsight(s))
<1>1. Tied(hidePnSubTooltip(s))
  BY DEF Tied, Loose, Fields, hidePnSubTooltip, Fresh
<1>2. Tied(closeGroup(s))
  BY DEF Tied, Loose, Fields, closeGroup, clearMapDotFilter, hideTooltip
<1>3. \A ids : Tied(showPnSubTooltip(s, ids))
  BY DEF Tied, Loose, Fields, showPnSubTooltip, Fresh
<1>4. Tied(renderPnDonut(s))
  BY DEF Tied, Loose, Fields, renderPnDonut, Fresh
<1>5. ASSUME NEW m, Tied(m) PROVE Tied(clearPnInsightState(hidePnInsightRect(m)))
  BY <1>5 DEF Tied, Loose, Fields, clearPnInsightState, hidePnInsightRect, renderPnDonut, Fresh
<1>6. Tied(dismissInsight(s))
  BY <1>5 DEF dismissInsight
<1>7. ASSUME NEW m, Tied(m), NEW net PROVE Tied(updatePanel(m, net))
  BY <1>7 DEF Tied, Loose, Fields, updatePanel, Fresh
<1>8. ASSUME NEW m, Tied(m) PROVE Tied(openPanel(m))
  BY <1>8 DEF Tied, Loose, Fields, openPanel
<1>9. \A net : Tied(openPnDetailPanel(s, net))
  BY <1>7, <1>8 DEF openPnDetailPanel
<1>10. Tied(openPnOverviewPanel(s))
  <2>1. Tied([s EXCEPT !.selNet = None])
    BY SimpleTied
  <2>. QED BY <1>7, <1>8, <2>1 DEF openPnOverviewPanel
<1>11. Tied(closePnDetailPanel(s))
  <2> DEFINE h == hidePnSubTooltip(s)
  <2>1. closePnDetailPanel(s) = [h EXCEPT !.panel.shown = FALSE, !.hides = @ \cup {"panel"}]
    BY DEF closePnDetailPanel
  <2>2. Tied(h)
    BY <1>1
  <2> HIDE DEF h
  <2>. QED BY <2>1, <2>2 DEF Tied, Loose, Fields
<1>12. Tied(refreshPinnedPreview(s))
  BY DEF Tied, Loose, Fields, refreshPinnedPreview, showPnSubTooltip, Fresh
<1>13. Tied(refreshInsight(s))
  <2> DEFINE t == [s EXCEPT !.line = s.ins.peer, !.preview = {s.ins.peer}]
  <2>1. Tied(t)
    BY DEF Tied, Loose, Fields
  <2>2. refreshInsight(s) \in {s, showPnInsightRect(t), clearPnInsightState(hidePnInsightRect(t))}
    BY DEF refreshInsight
  <2> HIDE DEF t
  <2>. QED BY <1>5, <2>1, <2>2, SimpleTied
<1>. QED BY <1>1, <1>2, <1>3, <1>4, <1>5, <1>6, <1>7, <1>9, <1>10, <1>11, <1>12, <1>13

\* The refresh of the mode keeps the state tied.
LEMMA UpdateTied ==
    ASSUME NEW s, Tied(s)
    PROVE  Tied(updatePrivateNetUI(s))
<1> DEFINE d == renderPnDonut(s)
           up == IF d.panel.shown THEN updatePanel(d, d.selNet) ELSE d
<1>1. updatePrivateNetUI(s) = IF ~s.mode THEN s ELSE refreshPinnedPreview(refreshInsight(up))
  BY DEF updatePrivateNetUI
<1>2. Tied(d)
  BY PanelTied
<1> HIDE DEF d
<1>3. Tied(up)
  BY <1>2, PanelTied
<1> HIDE DEF up
<1>. QED BY <1>1, <1>3, PanelTied

\* Selecting a peer ties the popup to it, and drops the insight of another.
LEMMA SelectTied ==
    ASSUME NEW s, Loose(s), NEW peer, Tied(s) \/ peer \in s.peers
    PROVE  Tied(selectPrivatePeer(s, peer))
<1>1. CASE peer \notin s.peers
  BY <1>1 DEF selectPrivatePeer
<1>2. CASE peer \in s.peers
  <2> DEFINE at == hidePnSubTooltip(hideTooltip([s EXCEPT !.sel = peer, !.line = peer, !.high = peer]))
             d == IF at.ins = None \/ at.ins.peer # peer THEN dismissInsight(at) ELSE at
             o == openPeer(d, peer)
  <2>1. /\ Loose(at) /\ at.peers = s.peers /\ at.sel = peer
    BY DEF Loose, Fields, hidePnSubTooltip, hideTooltip, Fresh
  <2>2. selectPrivatePeer(s, peer) = updatePrivateNetUI(o)
    BY <1>2 DEF selectPrivatePeer
  <2> HIDE DEF at
  <2>3. /\ Loose(d) /\ d.peers = s.peers
        /\ d.sel # None => d.sel = peer
        /\ d.ins # None => d.ins.peer = peer
    BY <2>1 DEF Loose, Fields, dismissInsight, clearPnInsightState, hidePnInsightRect, renderPnDonut, Fresh
  <2> HIDE DEF d
  <2>4. [peer |-> peer, up |-> FALSE] \in Popups
    BY <1>2 DEF Popups, Loose
  <2>5. Tied(o)
    BY <2>3, <2>4 DEF openPeer, Tied, Loose, Fields
  <2>. QED BY <2>2, <2>5, UpdateTied
<1>. QED BY <1>1, <1>2

\* Handlers that select a peer or let it go, each ending with that refresh.
LEMMA PeersTied ==
    ASSUME NEW s, Tied(s)
    PROVE  /\ Tied(closePopup(s)) /\ Tied(clearPeerFromMap(s)) /\ Tied(goBack(s))
           /\ \A peer : Tied(selectPrivatePeer(s, peer))
           /\ Tied(showPrivateOverview(s))
           /\ \A net : Tied(onPnSegmentClick(s, net))
<1>1. Tied(closePopup(s))
  BY SimpleTied, UpdateTied DEF closePopup
<1>2. Tied(clearPeerFromMap(s))
  <2> DEFINE t == [s EXCEPT !.sel = None, !.line = None, !.high = None]
  <2>1. Tied(t) /\ clearPeerFromMap(s) = updatePrivateNetUI(dismissInsight(hidePnSubTooltip(popupClose(hideTooltip(t)))))
    BY SimpleTied DEF clearPeerFromMap
  <2> HIDE DEF t
  <2>2. Tied(popupClose(hideTooltip(t)))
    BY <2>1, SimpleTied
  <2>. QED BY <2>1, <2>2, PanelTied, UpdateTied
<1>3. Tied(goBack(s))
  BY SimpleTied, PanelTied, UpdateTied DEF goBack
<1>4. \A peer : Tied(selectPrivatePeer(s, peer))
  BY SelectTied DEF Tied
<1>5. Tied(showPrivateOverview(s))
  BY SimpleTied, PanelTied, UpdateTied DEF showPrivateOverview
<1>6. ASSUME NEW net PROVE Tied(onPnSegmentClick(s, net))
  <2> DEFINE d == dismissInsight(s)
  <2>1. Tied(d)
    BY PanelTied
  <2>2. onPnSegmentClick(s, net) = updatePrivateNetUI(
            IF d.selNet = net THEN closePnDetailPanel([d EXCEPT !.selNet = None])
            ELSE openPnDetailPanel([d EXCEPT !.selNet = net], net))
    BY DEF onPnSegmentClick
  <2> HIDE DEF d
  <2>3. Tied([d EXCEPT !.selNet = None]) /\ Tied([d EXCEPT !.selNet = net])
    BY <2>1, SimpleTied
  <2>. QED BY <2>2, <2>3, PanelTied, UpdateTied
<1>. QED BY <1>1, <1>2, <1>3, <1>4, <1>5, <1>6

\* Handlers of the panel's rows and insights.
LEMMA RowsTied ==
    ASSUME NEW s, Tied(s)
    PROVE  /\ \A row : Tied(enterRow(s, row)) /\ (row # None => Tied(clickRow(s, row)))
           /\ Tied(leaveRow(s)) /\ Tied(leaveInsight(s))
           /\ \A i : Tied(enterInsight(s, i)) /\ (Network[i.peer] \in Private => Tied(clickInsight(s, i)))
<1>1. ASSUME NEW m, Tied(m), NEW row PROVE Tied(showRow(m, row))
  <2> DEFINE ids == resolve(privateScope(m), row)
             n == showPnSubTooltip(m, ids \cap PanelPeers(m))
  <2>1. Tied(n) /\ showRow(m, row) = [n EXCEPT !.preview = ids]
    BY <1>1, PanelTied DEF showRow
  <2> HIDE DEF n, ids
  <2>. QED BY <2>1 DEF Tied, Loose, Fields
<1>2. \A row : Tied(enterRow(s, row))
  BY <1>1 DEF enterRow
<1>3. ASSUME NEW row, row # None PROVE Tied(clickRow(s, row))
  <2> DEFINE d == dismissInsight(s)
  <2>1. Tied(d)
    BY PanelTied
  <2>2. clickRow(s, row) = IF d.pinned /\ d.src = row THEN hidePnSubTooltip(d)
                           ELSE pinPnSubTooltip(showRow(d, row), row)
    BY DEF clickRow
  <2> HIDE DEF d
  <2>3. Tied(showRow(d, row))
    BY <1>1, <2>1
  <2>4. Tied(pinPnSubTooltip(showRow(d, row), row))
    BY <1>3, <2>3, SimpleTied
  <2>5. Tied(hidePnSubTooltip(d))
    BY <2>1, PanelTied
  <2>. QED BY <2>2, <2>4, <2>5
<1>4. Tied(leaveRow(s))
  BY PanelTied DEF leaveRow
<1>5. Tied(leaveInsight(s))
  BY DEF Tied, Loose, Fields, leaveInsight, hidePnInsightRect
<1>6. \A i : Tied(enterInsight(s, i))
  BY DEF Tied, Loose, Fields, enterInsight, showPnInsightRect
<1>7. ASSUME NEW i, Network[i.peer] \in Private PROVE Tied(clickInsight(s, i))
  <2> DEFINE t == [showPnInsightRect(s) EXCEPT !.ins = i, !.line = i.peer, !.preview = {i.peer}]
  <2>1. Loose(t) /\ t.peers = s.peers
    BY <1>7 DEF Tied, Loose, Fields, showPnInsightRect
  <2>2. clickInsight(s, i) = IF s.ins = i THEN clearPnInsightState(hidePnInsightRect(s))
                             ELSE IF i.peer \notin s.peers THEN s ELSE selectPrivatePeer(t, i.peer)
    BY DEF clickInsight
  <2> HIDE DEF t
  <2>. QED BY <2>1, <2>2, PanelTied, SelectTied
<1>. QED BY <1>2, <1>3, <1>4, <1>5, <1>6, <1>7

\* Entering and leaving the mode, its chips and Escape.
LEMMA ModeTied ==
    ASSUME NEW s, Tied(s)
    PROVE  /\ \A peer, net : Tied(enterPrivateNetMode(s, peer, net))
           /\ Tied(exitPrivateNetMode(s)) /\ Tied(onEscape(s))
           /\ \A net : Tied(networkChip(s, net))
           /\ \A chip \in {"all", "private-mode", "private-network", "private-filter"} : Tied(clearFilter(s, chip))
<1>1. ASSUME NEW peer, NEW net PROVE Tied(enterPrivateNetMode(s, peer, net))
  <2> DEFINE m == [s EXCEPT !.mode = TRUE, !.high = None, !.selNet = net]
             view == hidePnSubTooltip(clearMapDotFilter(hideTooltip(m)))
             r == [view EXCEPT !.mini = None, !.hides = @ \ {"mode", "donut"},
                               !.opens = IF net = None THEN All ELSE net, !.picks = peer]
  <2>1. enterPrivateNetMode(s, peer, net) =
            IF s.mode THEN (IF peer = None THEN s ELSE selectPrivatePeer(s, peer)) ELSE updatePrivateNetUI(r)
    BY DEF enterPrivateNetMode
  <2>2. Tied(m)
    BY DEF Tied, Loose, Fields
  <2> HIDE DEF m
  <2>3. Tied(view)
    <3>1. Tied(clearMapDotFilter(hideTooltip(m)))
      BY <2>2, SimpleTied
    <3>. QED BY <3>1, PanelTied
  <2> HIDE DEF view
  <2>4. Tied(r)
    BY <2>3 DEF Tied, Loose, Fields
  <2> HIDE DEF r
  <2>. QED BY <2>1, <2>4, UpdateTied, PeersTied
<1>2. Tied(exitPrivateNetMode(s))
  <2> DEFINE m == hidePnInsightRect([s EXCEPT !.mode = FALSE, !.sel = None, !.line = None,
                                              !.selNet = None, !.hov = None, !.ins = None])
             c == closeGroup(popupClose(hidePnSubTooltip(m)))
             r == [c EXCEPT !.opens = None, !.picks = None, !.panel.shown = FALSE,
                            !.hides = @ \cup {"mode", "donut"}]
  <2>1. exitPrivateNetMode(s) = IF ~s.mode THEN s ELSE Fresh(r, "mini")
    BY DEF exitPrivateNetMode
  <2>2. Tied(m)
    BY DEF Tied, Loose, Fields, hidePnInsightRect
  <2> HIDE DEF m
  <2>3. Tied(c)
    <3>1. Tied(hidePnSubTooltip(m))
      BY <2>2, PanelTied
    <3>2. Tied(popupClose(hidePnSubTooltip(m)))
      BY <3>1, SimpleTied
    <3>. QED BY <3>2, PanelTied
  <2> HIDE DEF c
  <2>4. Tied(r)
    BY <2>3 DEF Tied, Loose, Fields
  <2> HIDE DEF r
  <2>5. Tied(Fresh(r, "mini"))
    BY <2>4, SimpleTied
  <2>. QED BY <2>1, <2>5
<1>3. Tied(onEscape(s))
  BY <1>2, PeersTied, PanelTied, UpdateTied DEF onEscape
<1>4. \A net : Tied(networkChip(s, net))
  BY <1>1, <1>2, SimpleTied, PanelTied, UpdateTied DEF networkChip
<1>5. Tied(clearFilter(s, "all")) /\ Tied(clearFilter(s, "private-mode"))
  BY <1>2, PanelTied DEF clearFilter
<1>6. Tied(clearFilter(s, "private-network"))
  <2> DEFINE h == hidePnSubTooltip([s EXCEPT !.selNet = None])
             u == updatePrivateNetUI(openPnOverviewPanel(h))
             r == [u EXCEPT !.filter = s.filter]
  <2>1. clearFilter(s, "private-network") = r
    BY DEF clearFilter
  <2>2. Tied(h) /\ ~h.pinned
    BY SimpleTied, PanelTied DEF hidePnSubTooltip, Fresh, Tied, Loose, Fields
  <2> HIDE DEF h
  <2>3. Tied(u) /\ ~u.pinned
    <3> DEFINE o == openPnOverviewPanel(h)
               d == renderPnDonut(o)
               up == IF d.panel.shown THEN updatePanel(d, d.selNet) ELSE d
               i == refreshInsight(up)
    <3>1. Tied(o) /\ ~o.pinned
      <4>1. Tied(o)
        BY <2>2, PanelTied
      <4> DEFINE m == openPanel([h EXCEPT !.selNet = None])
      <4>2. o = Fresh([m EXCEPT !.panel.net = None, !.panel.peers = m.peers, !.src = None], "panel")
        BY DEF openPnOverviewPanel, updatePanel
      <4>3. ~m.pinned /\ Fields \subseteq DOMAIN m
        BY <2>2 DEF openPanel, Tied, Loose, Fields
      <4> HIDE DEF m, o
      <4>4. ~o.pinned
        BY <4>2, <4>3 DEF Fresh, Fields
      <4>. QED BY <4>1, <4>4
    <3> HIDE DEF o
    <3>2. Tied(up) /\ ~up.pinned
      BY <3>1, PanelTied DEF renderPnDonut, updatePanel, Fresh, Tied, Loose, Fields
    <3>3. u = IF ~o.mode THEN o ELSE refreshPinnedPreview(i)
      BY DEF updatePrivateNetUI, o
    <3> HIDE DEF up
    <3>4. ~i.pinned
      BY <3>2 DEF refreshInsight, showPnInsightRect, clearPnInsightState, hidePnInsightRect, renderPnDonut, Fresh, Tied, Loose, Fields
    <3>5. ~u.pinned
      BY <3>1, <3>3, <3>4 DEF refreshPinnedPreview
    <3>. QED BY <3>1, <3>5, UpdateTied DEF o
  <2> HIDE DEF u
  <2>. QED BY <2>1, <2>3 DEF Tied, Loose, Fields
<1>7. Tied(clearFilter(s, "private-filter"))
  BY PanelTied, UpdateTied DEF clearFilter
<1>. QED BY <1>1, <1>2, <1>3, <1>4, <1>5, <1>6, <1>7

\* The stages of a poll.
LEMMA PollTied ==
    ASSUME NEW s, Tied(s)
    PROVE  /\ \A P \in Snapshots : Tied(dropDeparted(replace(s, P)))
           /\ Tied(reconcile(s)) /\ Tied(updatePopup(s))
           /\ Tied(updatePrivateNetUI(s)) /\ Tied(initialView(s))
<1>1. ASSUME NEW P \in Snapshots PROVE Tied(dropDeparted(replace(s, P)))
  <2> DEFINE m == replace(s, P)
  <2>1. P \in SUBSET Peers
    BY PrivateNetworksAssumption DEF PrivateNetworksAssumption
  <2>2. Tied(m)
    BY <2>1 DEF Tied, Loose, Fields, replace
  <2>3. dropDeparted(replace(s, P)) =
            IF m.sel = None \/ m.sel \in m.peers THEN m
            ELSE popupClose([m EXCEPT !.sel = None, !.line = None, !.high = None])
    BY DEF dropDeparted
  <2> HIDE DEF m
  <2>4. Tied([m EXCEPT !.sel = None, !.line = None, !.high = None])
    BY <2>2, SimpleTied
  <2>5. Tied(popupClose([m EXCEPT !.sel = None, !.line = None, !.high = None]))
    BY <2>4, SimpleTied
  <2>. QED BY <2>2, <2>3, <2>5
<1>2. Tied(updatePopup(s))
  BY PeersTied DEF updatePopup
<1>3. Tied(initialView(s))
  BY SimpleTied, ModeTied DEF initialView
<1>. QED BY <1>1, <1>2, <1>3, SimpleTied, UpdateTied

\* What the panel lists are rows of private peers.
LEMMA RowsAreLabels ==
    ASSUME NEW s, Tied(s)
    PROVE  /\ \A row \in Rows(s) : row # None
           /\ \A i \in InsightRows(s) : Network[i.peer] \in Private
<1>1. PanelPeers(s) \subseteq Peers /\ \A peer \in PanelPeers(s) : Network[peer] \in Private
  BY DEF PanelPeers, scope, Tied, Loose
<1>2. \A row \in Rows(s) : row \in Labels
  BY <1>1 DEF Rows, Labels
<1>3. \A i \in InsightRows(s) : i.peer \in PanelPeers(s)
  BY DEF InsightRows, insights
<1>. QED BY <1>1, <1>2, <1>3, NullIsNothing

\* What the pointer enters keeps the state tied.
LEMMA ElementsTied ==
    ASSUME NEW s, Tied(s), NEW x \in Elements(s) \cup MiniSegments(s)
    PROVE  Tied(x.to)
<1>1. CASE x \in Hover("segment", If(DonutThere(s), Segments(s)), LAMBDA net : onPnSegmentHover(s, net))
  <2>1. PICK net : x = [kind |-> "segment", to |-> onPnSegmentHover(s, net)]
    BY <1>1 DEF Hover
  <2>. QED BY <2>1, SimpleTied
<1>2. CASE x \in Hover("row", If(s.panel.shown, Rows(s)), LAMBDA row : enterRow(s, row))
  <2>1. PICK row : x = [kind |-> "row", to |-> enterRow(s, row)]
    BY <1>2 DEF Hover
  <2>. QED BY <2>1, RowsTied
<1>3. CASE x \in Hover("insight", If(s.panel.shown, InsightRows(s)), LAMBDA i : enterInsight(s, i))
  <2>1. PICK i : x = [kind |-> "insight", to |-> enterInsight(s, i)]
    BY <1>3 DEF Hover
  <2>. QED BY <2>1, RowsTied
<1>4. CASE x \in Hover("peer", If(s.pinned, s.tip), LAMBDA peer : enterTipPeer(s, peer))
  <2>1. PICK peer : x = [kind |-> "peer", to |-> enterTipPeer(s, peer)]
    BY <1>4 DEF Hover
  <2>. QED BY <2>1, SimpleTied
<1>5. CASE x \in Hover("mini", If(MiniThere(s), {All}), LAMBDA y : [s EXCEPT !.mini = All])
  <2>1. x = [kind |-> "mini", to |-> [s EXCEPT !.mini = All]]
    BY <1>5 DEF Hover
  <2>. QED BY <2>1, SimpleTied
<1>6. CASE x \in MiniSegments(s)
  <2>1. PICK net : x = [kind |-> "mini", to |-> [s EXCEPT !.mini = net]]
    BY <1>6 DEF MiniSegments, Hover
  <2>. QED BY <2>1, SimpleTied
<1>. QED BY <1>1, <1>2, <1>3, <1>4, <1>5, <1>6 DEF Elements

\* A step ends with the state its handler made, and only forgets what was rendered.
LEMMA StepTied ==
    ASSUME NEW s, Tied(s)
    PROVE  /\ \A at : Step(s, at) => Tied(ui')
           /\ Do(s) => Tied(ui')
<1>1. ASSUME NEW m, Tied(m), NEW at, Step(m, at) PROVE Tied(ui')
  BY <1>1 DEF Step, Tied, Loose, Fields
<1>2. Tied([s EXCEPT !.initial = FALSE])
  BY SimpleTied
<1>. QED BY <1>1, <1>2 DEF Do

\* Holds in every state: what is pinned, selected and open belongs together.
TiedInvariant == Tied(ui)

\* A page that was just opened has nothing pinned, selected or open.
LEMMA TiedInitially == NetworksInit => TiedInvariant
BY DEF NetworksInit, TiedInvariant, Tied, Loose, Fields

\* Every step of the mode keeps the state tied.
LEMMA TiedKept ==
    ASSUME TiedInvariant, TimersInvariant, [NetworksNext]_networksVars
    PROVE  TiedInvariant'
<1>1. Tied(ui)
  BY DEF TiedInvariant
<1> SUFFICES Tied(ui')
  BY DEF TiedInvariant, Tied, Loose
<1>2. CASE PointerEnters
  <2>1. PICK x \in Elements(ui) \cup MiniSegments(ui) : \E at : Step(x.to, at)
    BY <1>2 DEF PointerEnters
  <2>. QED BY <1>1, <2>1, ElementsTied, StepTied
<1>3. CASE PointerLeaves
  <2>1. over \in PointerKinds /\ \E at : Step(left(ui), at)
    BY <1>3 DEF PointerLeaves, TimersInvariant
  <2>2. CASE over \in {"segment", "row", "insight", "peer"}
    BY <1>1, <2>1, <2>2, SimpleTied, RowsTied, StepTied DEF left
  <2>3. CASE over = "mini" \/ over = "mini segment"
    <3> DEFINE m(net) == [ui EXCEPT !.mini = net]
    <3>1. \E net : left(ui) = m(net)
      BY <2>3 DEF left
    <3>2. \A net : Tied(m(net))
      BY <1>1, SimpleTied
    <3>3. Tied(left(ui))
      <4> HIDE DEF m
      <4>. QED BY <3>1, <3>2
    <3>. QED BY <2>1, <3>3, StepTied
  <2>. QED BY <2>1, <2>2, <2>3 DEF PointerKinds
<1>4. CASE PressRow
  <2>1. PICK row \in Rows(ui) : Do(clickRow(ui, row))
    BY <1>4 DEF PressRow
  <2>2. Tied(clickRow(ui, row))
    BY <1>1, RowsAreLabels, RowsTied
  <2>. QED BY <2>1, <2>2, StepTied
<1>5. CASE PressInsight
  <2>1. PICK i \in InsightRows(ui) : Do(clickInsight(ui, i))
    BY <1>5 DEF PressInsight
  <2>2. Tied(clickInsight(ui, i))
    BY <1>1, RowsAreLabels, RowsTied
  <2>. QED BY <2>1, <2>2, StepTied
<1>6. CASE PressTipPeer
  <2>1. PICK peer : Do(selectPrivatePeer(ui, peer))
    BY <1>6 DEF PressTipPeer
  <2>2. Tied(selectPrivatePeer(ui, peer))
    BY <1>1, PeersTied
  <2>. QED BY <2>1, <2>2, StepTied
<1>7. CASE PressTipClose
  <2>1. Do(hidePnSubTooltip(ui))
    BY <1>7 DEF PressTipClose
  <2>2. Tied(hidePnSubTooltip(ui))
    BY <1>1, PanelTied
  <2>. QED BY <2>1, <2>2, StepTied
<1>8. CASE PressRectClose
  <2>1. Do(clearPnInsightState(hidePnInsightRect(ui)))
    BY <1>8 DEF PressRectClose
  <2>2. Tied(clearPnInsightState(hidePnInsightRect(ui)))
    BY <1>1, PanelTied
  <2>. QED BY <2>1, <2>2, StepTied
<1>9. CASE PressSegment
  <2>1. PICK net : Do(onPnSegmentClick(ui, net))
    BY <1>9 DEF PressSegment
  <2>2. Tied(onPnSegmentClick(ui, net))
    BY <1>1, PeersTied
  <2>. QED BY <2>1, <2>2, StepTied
<1>10. CASE PressOverview
  <2>1. Do(showPrivateOverview(ui))
    BY <1>10 DEF PressOverview
  <2>2. Tied(showPrivateOverview(ui))
    BY <1>1, PeersTied
  <2>. QED BY <2>1, <2>2, StepTied
<1>11. CASE PressBack
  <2>1. Do(goBack(ui))
    BY <1>11 DEF PressBack
  <2>2. Tied(goBack(ui))
    BY <1>1, PeersTied
  <2>. QED BY <2>1, <2>2, StepTied
<1>12. CASE PressMini
  <2> DEFINE m == [ui EXCEPT !.mini = None]
  <2>1. PICK net : Do(enterPrivateNetMode(m, None, net))
    BY <1>12 DEF PressMini
  <2>2. Tied(m)
    BY <1>1, SimpleTied
  <2> HIDE DEF m
  <2>3. Tied(enterPrivateNetMode(m, None, net))
    BY <2>2, ModeTied
  <2>. QED BY <2>1, <2>3, StepTied
<1>13. CASE PressExit
  <2>1. Do(exitPrivateNetMode(ui))
    BY <1>13 DEF PressExit
  <2>2. Tied(exitPrivateNetMode(ui))
    BY <1>1, ModeTied
  <2>. QED BY <2>1, <2>2, StepTied
<1>14. CASE PressChip
  <2>1. PICK peer : Do(networkChip(ui, Network[peer]))
    BY <1>14 DEF PressChip
  <2>2. Tied(networkChip(ui, Network[peer]))
    BY <1>1, ModeTied
  <2>. QED BY <2>1, <2>2, StepTied
<1>15. CASE PressClear
  <2>1. PICK chip \in {"all", "private-mode", "private-network", "private-filter"} : Do(clearFilter(ui, chip))
    BY <1>15 DEF PressClear
  <2>2. Tied(clearFilter(ui, chip))
    BY <1>1, ModeTied
  <2>. QED BY <2>1, <2>2, StepTied
<1>16. CASE PressMap
  <2>1. PICK x : \E s \in clickMap(ui, x) \cup clickMapPublic(ui, x) : Do(s)
    BY <1>16 DEF PressMap
  <2>2. PICK s \in clickMap(ui, x) \cup clickMapPublic(ui, x) : Do(s)
    BY <2>1
  <2>3. \/ s = selectGroup(ui, x) \/ \E peer : s = selectPrivatePeer(ui, peer)
        \/ s = clearPeerFromMap(ui) \/ \E peer : s = enterPrivateNetMode(ui, peer, None)
    BY <2>2 DEF clickMap, clickMapPublic
  <2>4. Tied(s)
    <3>1. CASE s = selectGroup(ui, x)
      BY <1>1, <3>1, SimpleTied
    <3>2. CASE s = clearPeerFromMap(ui)
      BY <1>1, <3>2, PeersTied
    <3>3. CASE \E peer : s = selectPrivatePeer(ui, peer)
      BY <1>1, <3>3, PeersTied
    <3>4. CASE \E peer : s = enterPrivateNetMode(ui, peer, None)
      BY <1>1, <3>4, ModeTied
    <3>. QED BY <2>3, <3>1, <3>2, <3>3, <3>4
  <2>. QED BY <2>2, <2>4, StepTied
<1>17. CASE PressMapBlank
  <2>1. Do(clearPeerFromMap(ui))
    BY <1>17 DEF PressMapBlank
  <2>2. Tied(clearPeerFromMap(ui))
    BY <1>1, PeersTied
  <2>. QED BY <2>1, <2>2, StepTied
<1>18. CASE PressGroupPeer
  <2> DEFINE h == hideTooltip(ui)
  <2>1. PICK peer : Do(selectPrivatePeer(h, peer))
    BY <1>18 DEF PressGroupPeer
  <2>2. Tied(h)
    BY <1>1, SimpleTied
  <2> HIDE DEF h
  <2>3. Tied(selectPrivatePeer(h, peer))
    BY <2>2, PeersTied
  <2>. QED BY <2>1, <2>3, StepTied
<1>19. CASE PressGroupClose
  <2>1. Do(closeGroup(ui))
    BY <1>19 DEF PressGroupClose
  <2>2. Tied(closeGroup(ui))
    BY <1>1, PanelTied
  <2>. QED BY <2>1, <2>2, StepTied
<1>20. CASE PressTablePeer
  <2>1. PICK peer : Do(enterPrivateNetMode(ui, peer, None))
    BY <1>20 DEF PressTablePeer
  <2>2. Tied(enterPrivateNetMode(ui, peer, None))
    BY <1>1, ModeTied
  <2>. QED BY <2>1, <2>2, StepTied
<1>21. CASE PressPopupClose
  <2>1. Do(closePopup(ui))
    BY <1>21 DEF PressPopupClose
  <2>2. Tied(closePopup(ui))
    BY <1>1, PeersTied
  <2>. QED BY <2>1, <2>2, StepTied
<1>22. CASE Escape
  <2>1. Do(onEscape(ui))
    BY <1>22 DEF Escape
  <2>2. Tied(onEscape(ui))
    BY <1>1, ModeTied
  <2>. QED BY <2>1, <2>2, StepTied
<1>23. CASE PanelOpens
  <2> DEFINE s == [ui EXCEPT !.opens = None]
  <2>1. \/ Step(openPnOverviewPanel(s), over)
        \/ Step(openPnDetailPanel(s, ui.opens), over)
    BY <1>23 DEF PanelOpens
  <2>2. Tied(s)
    BY <1>1, SimpleTied
  <2> HIDE DEF s
  <2>3. Tied(openPnOverviewPanel(s)) /\ Tied(openPnDetailPanel(s, ui.opens))
    BY <2>2, PanelTied
  <2>. QED BY <2>1, <2>3, StepTied
<1>24. CASE PeerPicked
  <2> DEFINE s == [ui EXCEPT !.picks = None]
  <2>1. Step(selectPrivatePeer(s, ui.picks), over)
    BY <1>24 DEF PeerPicked
  <2>2. Tied(s)
    BY <1>1, SimpleTied
  <2> HIDE DEF s
  <2>3. Tied(selectPrivatePeer(s, ui.picks))
    BY <2>2, PeersTied
  <2>. QED BY <2>1, <2>3, StepTied
<1>25. CASE PopupOpens
  <2> DEFINE s == [ui EXCEPT !.popup.up = TRUE]
  <2>1. ui.popup # None /\ (Step(s, over) \/ Step(closePopup(ui), over))
    BY <1>25 DEF PopupOpens
  <2>2. Tied(s)
    <3>1. ui.popup \in Popups
      BY <1>1, <2>1 DEF Tied, Loose
    <3>2. [ui.popup EXCEPT !.up = TRUE] \in Popups /\ [ui.popup EXCEPT !.up = TRUE].peer = ui.popup.peer
      BY <3>1 DEF Popups
    <3>. QED BY <1>1, <2>1, <3>2 DEF Tied, Loose, Fields
  <2> HIDE DEF s
  <2>3. Tied(closePopup(ui))
    BY <1>1, PeersTied
  <2>. QED BY <2>1, <2>2, <2>3, StepTied
<1>26. CASE PanelHides
  <2>1. PICK hides : Step([ui EXCEPT !.hides = hides, !.hidden = TRUE], over)
    BY <1>26 DEF PanelHides
  <2>2. Tied([ui EXCEPT !.hides = hides, !.hidden = TRUE])
    BY <1>1, SimpleTied
  <2>. QED BY <2>1, <2>2, StepTied
<1>27. CASE DonutHides
  <2>1. PICK hides, at : Step([ui EXCEPT !.hides = hides], at)
    BY <1>27 DEF DonutHides
  <2>2. Tied([ui EXCEPT !.hides = hides])
    BY <1>1, SimpleTied
  <2>. QED BY <2>1, <2>2, StepTied
<1>28. CASE Refresh
  <2>1. PICK P \in Snapshots : Step(applyPeerSnapshot(ui, P), over)
    BY <1>28 DEF Refresh
  <2> DEFINE m == updatePopup(reconcile(dropDeparted(replace(ui, P))))
             v == initialView(updatePrivateNetUI(m))
  <2>2. Tied(m)
    BY <1>1, PollTied
  <2>3. applyPeerSnapshot(ui, P) = Fresh(v, "mini")
    BY DEF applyPeerSnapshot
  <2> HIDE DEF m
  <2>4. Tied(v)
    BY <2>2, PollTied
  <2> HIDE DEF v
  <2>5. Tied(Fresh(v, "mini"))
    BY <2>4, SimpleTied
  <2>. QED BY <2>1, <2>3, <2>5, StepTied
<1>29. CASE UNCHANGED networksVars
  BY <1>1, <1>29 DEF networksVars, Tied, Loose
<1>. QED BY <1>2, <1>3, <1>4, <1>5, <1>6, <1>7, <1>8, <1>9, <1>10, <1>11, <1>12, <1>13, <1>14, <1>15, <1>16, <1>17, <1>18, <1>19, <1>20, <1>21, <1>22, <1>23, <1>24, <1>25, <1>26, <1>27, <1>28, <1>29 DEF NetworksNext

\* A pinned list always has its row, and a popup and an insight are those of the selected
\* peer, whatever was pressed, left, entered, polled or fired by a timer before.
THEOREM TiedInvariance == NetworksSpec => []TiedInvariant
<1>. QED BY TiedInitially, TiedKept, TimersInvariance, PTL DEF NetworksSpec

\* What an update of the mode leaves as it is.
Alike(s, t) ==
    /\ s.mode = t.mode /\ s.peers = t.peers /\ s.initial = t.initial /\ s.popup = t.popup
    /\ s.high = t.high /\ s.selNet = t.selNet /\ s.pinned = t.pinned /\ s.filter = t.filter
    /\ s.group = t.group /\ s.gsel = t.gsel /\ s.list = t.list

\* The stages of updatePrivateNetUI.
drawn(s) == renderPnDonut(s)
filled(s) == IF s.panel.shown THEN updatePanel(s, s.selNet) ELSE s

\* The refresh is its stages, one after the other, and each keeps the state tied.
LEMMA UpdateStages ==
    ASSUME NEW s, Tied(s), s.mode
    PROVE  /\ updatePrivateNetUI(s) = refreshPinnedPreview(refreshInsight(filled(drawn(s))))
           /\ Tied(drawn(s)) /\ Tied(filled(drawn(s))) /\ Tied(refreshInsight(filled(drawn(s))))
           /\ Tied(updatePrivateNetUI(s))
<1>1. updatePrivateNetUI(s) = refreshPinnedPreview(refreshInsight(filled(drawn(s))))
  BY DEF updatePrivateNetUI, filled, drawn
<1>2. Tied(drawn(s))
  BY PanelTied DEF drawn
<1>3. ASSUME NEW m, Tied(m) PROVE Tied(filled(m))
  BY <1>3, PanelTied DEF filled
<1>4. Tied(filled(drawn(s)))
  BY <1>2, <1>3
<1>. QED BY <1>1, <1>2, <1>4, PanelTied, UpdateTied

\* No stage changes where the page is; one drops the selected peer, with its insight.
LEMMA StagesKeep ==
    ASSUME NEW s, Tied(s)
    PROVE  /\ Alike(drawn(s), s) /\ drawn(s).sel = s.sel /\ drawn(s).ins = s.ins
           /\ Alike(filled(s), s) /\ filled(s).sel = s.sel /\ filled(s).ins = s.ins
           /\ Alike(refreshInsight(s), s) /\ refreshInsight(s).sel \in {s.sel, None}
           /\ s.sel # None /\ s.sel \in s.peers => refreshInsight(s).sel = s.sel
           /\ Alike(refreshPinnedPreview(s), s) /\ refreshPinnedPreview(s).sel = s.sel
<1>1. Alike(drawn(s), s) /\ drawn(s).sel = s.sel /\ drawn(s).ins = s.ins
  BY DEF drawn, renderPnDonut, Fresh, Alike, Tied, Loose, Fields
<1>2. Alike(filled(s), s) /\ filled(s).sel = s.sel /\ filled(s).ins = s.ins
  BY DEF filled, updatePanel, Fresh, Alike, Tied, Loose, Fields
<1>3. Alike(refreshInsight(s), s) /\ refreshInsight(s).sel \in {s.sel, None}
  BY DEF refreshInsight, showPnInsightRect, clearPnInsightState, hidePnInsightRect, renderPnDonut,
         Fresh, Alike, Tied, Loose, Fields
<1>4. ASSUME s.sel # None, s.sel \in s.peers PROVE refreshInsight(s).sel = s.sel
  <2>1. CASE s.ins = None
    BY <2>1 DEF refreshInsight
  <2>2. CASE s.ins # None
    <3>1. s.ins.peer \in scope(s.peers, None)
      BY <1>4, <2>2 DEF scope, Tied, Loose
    <3>. QED BY <2>2, <3>1 DEF refreshInsight, showPnInsightRect, Tied, Loose, Fields
  <2>. QED BY <2>1, <2>2
<1>5. Alike(refreshPinnedPreview(s), s) /\ refreshPinnedPreview(s).sel = s.sel
  BY DEF refreshPinnedPreview, showPnSubTooltip, Fresh, Alike, Tied, Loose, Fields
<1>. QED BY <1>1, <1>2, <1>3, <1>4, <1>5

\* Nor does the refresh, which keeps a selected peer that is not gone.
LEMMA UpdateLeaves ==
    ASSUME NEW s, Tied(s)
    PROVE  /\ Alike(updatePrivateNetUI(s), s)
           /\ updatePrivateNetUI(s).sel \in {s.sel, None}
           /\ s.sel # None /\ s.sel \in s.peers => updatePrivateNetUI(s).sel = s.sel
<1>1. CASE ~s.mode
  BY <1>1 DEF updatePrivateNetUI, Alike
<1>2. CASE s.mode
  <2> DEFINE d == drawn(s)
             f == filled(d)
             i == refreshInsight(f)
             u == refreshPinnedPreview(i)
  <2>1. Tied(d) /\ Tied(f) /\ Tied(i) /\ updatePrivateNetUI(s) = u
    BY <1>2, UpdateStages
  <2>2. Alike(d, s) /\ d.sel = s.sel
    BY StagesKeep
  <2> HIDE DEF d
  <2>3. Alike(f, d) /\ f.sel = d.sel
    BY <2>1, StagesKeep
  <2> HIDE DEF f
  <2>4. /\ Alike(i, f) /\ i.sel \in {f.sel, None}
        /\ f.sel # None /\ f.sel \in f.peers => i.sel = f.sel
    BY <2>1, StagesKeep
  <2> HIDE DEF i
  <2>5. Alike(u, i) /\ u.sel = i.sel
    BY <2>1, StagesKeep
  <2> HIDE DEF u
  <2>. QED BY <2>1, <2>2, <2>3, <2>4, <2>5 DEF Alike
<1>. QED BY <1>1, <1>2

-----------------------------------------------------------------------------
(* What one poll settles, view by view. *)

\* Every field is there, and no handler made anything but a record of the page.
Whole(s) == Fields \subseteq DOMAIN s /\ s = [x \in DOMAIN s |-> s[x]]

\* The selected peer, its popup, the hovered peer and the group of a place are of the poll.
Ready(s, P) ==
    /\ s.peers = P /\ s.sel \in P \cup {None} /\ s.high \in P \cup {None}
    /\ s.popup # None => s.popup.peer \in P
    /\ s.gsel # None => s.group = scope(AtSite(s, s.gsel), None) /\ s.list = TRUE

\* Each view, brought to the peers of a poll.
DonutSettled(s, P) == s.drawn = P /\ "donut" \in s.fresh
PanelSettled(s, P) ==
    s.panel.shown => /\ s.panel.net = s.selNet /\ s.panel.peers = P /\ "panel" \in s.fresh
                     /\ s.panel = [x \in DOMAIN s.panel |-> s.panel[x]]
                     /\ s.src = None \/ s.pinned
RectSettled(s, P) ==
    s.ins # None => s.ins.peer \in scope(P, None) /\ s.rect = TRUE /\ s.line = s.ins.peer
\* The insight's peer is the one the lines lead to, unless a list is pinned.
LineSettled(s) == s.ins # None /\ ~s.pinned => s.preview = {s.ins.peer}
Listed(s) == resolve(privateScope(s), s.filter)
PinSettled(s) ==
    s.pinned => /\ s.tip = Listed(s) /\ s.preview = Listed(s) /\ s.saved = None
                /\ "tip" \in s.fresh
                /\ s.src = IF s.filter \in Rows(s) THEN s.filter ELSE None

\* Everything in the mode is of the poll.
Drawn(s, P) ==
    /\ DonutSettled(s, P) /\ PanelSettled(s, P) /\ RectSettled(s, P) /\ LineSettled(s)
    /\ PinSettled(s)

\* The donut is drawn of the poll's peers.
LEMMA DonutStage ==
    ASSUME NEW s, Tied(s), NEW P, s.peers = P
    PROVE  LET d == drawn(s) IN Whole(d) /\ DonutSettled(d, P)
BY DEF drawn, renderPnDonut, Fresh, Whole, DonutSettled, Tied, Loose, Fields

\* A panel that is shown is rendered of them and of the selected network.
LEMMA PanelStage ==
    ASSUME NEW s, Tied(s), Whole(s), NEW P, s.peers = P, DonutSettled(s, P)
    PROVE  LET f == filled(s) IN Whole(f) /\ DonutSettled(f, P) /\ PanelSettled(f, P)
<1>1. CASE ~s.panel.shown
  BY <1>1 DEF filled, PanelSettled
<1>2. CASE s.panel.shown
  <2> DEFINE f == filled(s)
  <2>1. f = [s EXCEPT !.panel = [s.panel EXCEPT !.net = s.selNet, !.peers = s.peers],
                      !.src = None, !.fresh = s.fresh \cup {"panel"}]
    BY <1>2 DEF filled, updatePanel, Fresh, Whole, Fields, Tied, Loose
  <2>2. Whole(f) /\ DonutSettled(f, P)
    BY <2>1 DEF Whole, Fields, DonutSettled
  <2>3. /\ f.panel = [s.panel EXCEPT !.net = s.selNet, !.peers = s.peers]
        /\ f.src = None /\ f.fresh = s.fresh \cup {"panel"} /\ f.selNet = s.selNet
    BY <2>1 DEF Whole, Fields
  <2> HIDE DEF f
  <2>4. PanelSettled(f, P)
    BY <2>3 DEF PanelSettled, Tied, Loose
  <2>. QED BY <2>2, <2>4 DEF f
<1>. QED BY <1>1, <1>2

\* An insight stays with its peer, or is cleared with the lines that led to it.
LEMMA InsightStage ==
    ASSUME NEW s, Tied(s), Whole(s), NEW P, s.peers = P, DonutSettled(s, P), PanelSettled(s, P)
    PROVE  LET i == refreshInsight(s)
           IN  /\ Whole(i) /\ DonutSettled(i, P) /\ PanelSettled(i, P) /\ RectSettled(i, P)
               /\ i.ins # None => i.preview = {i.ins.peer}
<1> DEFINE i == refreshInsight(s)
<1>1. CASE s.ins = None
  BY <1>1 DEF refreshInsight, RectSettled
<1>2. CASE s.ins # None /\ s.ins.peer \in scope(s.peers, None)
  <2>1. i = [s EXCEPT !.line = s.ins.peer, !.preview = {s.ins.peer}, !.rect = TRUE]
    BY <1>2 DEF refreshInsight, showPnInsightRect, Whole, Fields
  <2>2. Whole(i) /\ DonutSettled(i, P)
    BY <2>1 DEF Whole, Fields, DonutSettled
  <2>3. PanelSettled(i, P)
    BY <2>1 DEF Whole, Fields, PanelSettled
  <2>4. RectSettled(i, P) /\ i.preview = {i.ins.peer}
    BY <1>2, <2>1 DEF Whole, Fields, RectSettled
  <2>. QED BY <2>2, <2>3, <2>4
<1>3. CASE s.ins # None /\ s.ins.peer \notin scope(s.peers, None)
  <2>1. i = [s EXCEPT !.line = None, !.preview = None, !.rect = FALSE, !.ins = None, !.sel = None,
                      !.drawn = s.peers, !.fresh = s.fresh \cup {"donut"}]
    BY <1>3 DEF refreshInsight, clearPnInsightState, hidePnInsightRect, renderPnDonut, Fresh, Whole, Fields
  <2>2. Whole(i) /\ DonutSettled(i, P)
    BY <2>1 DEF Whole, Fields, DonutSettled
  <2>3. PanelSettled(i, P)
    BY <2>1 DEF Whole, Fields, PanelSettled
  <2>4. i.ins = None
    BY <2>1 DEF Whole, Fields
  <2>. QED BY <2>2, <2>3, <2>4 DEF RectSettled
<1>. QED BY <1>1, <1>2, <1>3

\* A pinned list is resolved anew, with its lines and its row.
LEMMA PinStage ==
    ASSUME NEW s, Tied(s), Whole(s), NEW P, s.peers = P, DonutSettled(s, P), PanelSettled(s, P),
           RectSettled(s, P), s.ins # None => s.preview = {s.ins.peer}
    PROVE  LET u == refreshPinnedPreview(s) IN Whole(u) /\ Drawn(u, P)
<1> DEFINE u == refreshPinnedPreview(s)
<1>1. CASE ~s.pinned
  BY <1>1 DEF refreshPinnedPreview, Drawn, LineSettled, PinSettled
<1>2. CASE s.pinned
  <2>1. s.filter # None
    BY <1>2 DEF Tied, Loose
  <2>2. u = [s EXCEPT !.tip = Listed(s), !.fresh = s.fresh \cup {"tip"}, !.saved = None,
                      !.preview = Listed(s), !.src = IF s.filter \in Rows(s) THEN s.filter ELSE None]
    <3> DEFINE ids == Listed(s)
               row == IF s.filter \in Rows(s) THEN s.filter ELSE None
               m == showPnSubTooltip(s, ids)
    <3>1. m = [s EXCEPT !.tip = ids, !.fresh = s.fresh \cup {"tip"}]
      BY DEF showPnSubTooltip, Fresh, Whole, Fields
    <3>2. u = [m EXCEPT !.saved = None, !.preview = ids, !.src = row]
      BY <1>2, <2>1 DEF refreshPinnedPreview, Listed
    <3> HIDE DEF ids, row, m, u
    <3>3. u = [s EXCEPT !.tip = ids, !.fresh = s.fresh \cup {"tip"}, !.saved = None,
                        !.preview = ids, !.src = row]
      BY <3>1, <3>2 DEF Whole, Fields
    <3>. QED BY <3>3 DEF ids, row
  <2> HIDE DEF u
  <2>3. Whole(u) /\ DonutSettled(u, P) /\ u.panel = s.panel
    BY <2>2 DEF Whole, Fields, DonutSettled
  <2>4. /\ u.pinned = s.pinned /\ u.filter = s.filter /\ u.peers = s.peers /\ u.selNet = s.selNet
        /\ u.ins = s.ins /\ u.line = s.line /\ u.rect = s.rect
    BY <2>2 DEF Whole, Fields
  <2>5. /\ u.tip = Listed(s) /\ u.preview = Listed(s) /\ u.saved = None
        /\ u.fresh = s.fresh \cup {"tip"} /\ u.src = IF s.filter \in Rows(s) THEN s.filter ELSE None
    BY <2>2 DEF Whole, Fields
  <2>6. Listed(u) = Listed(s) /\ Rows(u) = Rows(s)
    BY <2>3, <2>4 DEF Listed, privateScope, Rows, PanelPeers
  <2>7. PanelSettled(u, P)
    BY <1>2, <2>3, <2>4, <2>5 DEF PanelSettled
  <2>8. RectSettled(u, P)
    BY <2>4 DEF RectSettled
  <2>9. LineSettled(u) /\ PinSettled(u)
    BY <1>2, <2>4, <2>5, <2>6 DEF LineSettled, PinSettled
  <2>. QED BY <2>3, <2>7, <2>8, <2>9 DEF Drawn, u
<1>. QED BY <1>1, <1>2

\* The refresh brings every view of the mode to the peers there are.
LEMMA UpdateDraws ==
    ASSUME NEW s, Tied(s), s.mode, NEW P, s.peers = P
    PROVE  LET u == updatePrivateNetUI(s) IN Whole(u) /\ Drawn(u, P)
<1> DEFINE d == drawn(s)
           f == filled(d)
           i == refreshInsight(f)
           u == refreshPinnedPreview(i)
<1>1. Tied(d) /\ Tied(f) /\ Tied(i) /\ updatePrivateNetUI(s) = u
  BY UpdateStages
<1>2. Whole(d) /\ DonutSettled(d, P) /\ d.peers = P
  BY DonutStage, StagesKeep DEF Alike
<1> HIDE DEF d
<1>3. Whole(f) /\ DonutSettled(f, P) /\ PanelSettled(f, P) /\ f.peers = P
  BY <1>1, <1>2, PanelStage, StagesKeep DEF Alike
<1> HIDE DEF f
<1>4. /\ Whole(i) /\ DonutSettled(i, P) /\ PanelSettled(i, P) /\ RectSettled(i, P) /\ i.peers = P
      /\ i.ins # None => i.preview = {i.ins.peer}
  BY <1>1, <1>3, InsightStage, StagesKeep DEF Alike
<1> HIDE DEF i
<1>. QED BY <1>1, <1>4, PinStage

\* A page that has settled draws nothing else when it is drawn again.
LEMMA DrawnStays ==
    ASSUME NEW s, Tied(s), Whole(s), s.mode, NEW P, s.peers = P, Drawn(s, P)
    PROVE  updatePrivateNetUI(s) = s
<1> DEFINE f == filled(s)
           i == refreshInsight(f)
<1>1. drawn(s) = s
  <2>1. s.fresh \cup {"donut"} = s.fresh
    BY DEF Drawn, DonutSettled
  <2>2. drawn(s) = [s EXCEPT !.drawn = P, !.fresh = s.fresh \cup {"donut"}]
    BY DEF drawn, renderPnDonut, Fresh, Whole, Fields
  <2>. QED BY <2>1, <2>2 DEF Drawn, DonutSettled, Whole, Fields
<1>2. updatePrivateNetUI(s) = refreshPinnedPreview(i)
  BY <1>1, UpdateStages
<1>3. \E a : f = [s EXCEPT !.src = a] /\ (~s.pinned => a = s.src)
  <2>1. CASE ~s.panel.shown
    <3>1. f = s
      BY <2>1 DEF filled
    <3>. QED BY <3>1 DEF Whole, Fields
  <2>2. CASE s.panel.shown
    <3>1. f = [s EXCEPT !.panel = [s.panel EXCEPT !.net = s.selNet, !.peers = P],
                        !.src = None, !.fresh = s.fresh \cup {"panel"}]
      BY <2>2 DEF filled, updatePanel, Fresh, Whole, Fields, Tied, Loose
    <3>2. [s.panel EXCEPT !.net = s.selNet, !.peers = P] = s.panel
      BY <2>2 DEF Drawn, PanelSettled
    <3>3. s.fresh \cup {"panel"} = s.fresh
      BY <2>2 DEF Drawn, PanelSettled
    <3>4. ~s.pinned => s.src = None
      BY <2>2 DEF Drawn, PanelSettled
    <3> HIDE DEF f
    <3>5. f = [s EXCEPT !.src = None]
      BY <3>1, <3>2, <3>3 DEF Whole, Fields
    <3>. QED BY <3>4, <3>5
  <2>. QED BY <2>1, <2>2
<1>4. PICK a : f = [s EXCEPT !.src = a] /\ (~s.pinned => a = s.src)
  BY <1>3
<1> HIDE DEF f
<1>5. \E b : i = [s EXCEPT !.src = a, !.preview = b] /\ (~s.pinned => b = s.preview)
  <2>0. /\ f.ins = s.ins /\ f.peers = P /\ f.line = s.line /\ f.preview = s.preview /\ f.rect = s.rect
        /\ Whole(f)
    BY <1>4 DEF Whole, Fields
  <2>1. CASE s.ins = None
    <3>1. i = f
      BY <2>0, <2>1 DEF refreshInsight
    <3>2. f = [s EXCEPT !.src = a, !.preview = s.preview]
      BY <1>4 DEF Whole, Fields
    <3>. QED BY <3>1, <3>2
  <2>2. CASE s.ins # None
    <3>1. s.ins.peer \in scope(P, None) /\ s.rect = TRUE /\ s.line = s.ins.peer
      BY <2>2 DEF Drawn, RectSettled
    <3>2. i = [f EXCEPT !.line = s.line, !.preview = {s.ins.peer}, !.rect = s.rect]
      BY <2>0, <2>2, <3>1 DEF refreshInsight, showPnInsightRect, Whole, Fields
    <3>3. i = [s EXCEPT !.src = a, !.preview = {s.ins.peer}]
      BY <1>4, <3>2 DEF Whole, Fields
    <3>4. ~s.pinned => s.preview = {s.ins.peer}
      BY <2>2 DEF Drawn, LineSettled
    <3>. QED BY <3>3, <3>4
  <2>. QED BY <2>1, <2>2
<1>6. PICK b : i = [s EXCEPT !.src = a, !.preview = b] /\ (~s.pinned => b = s.preview)
  BY <1>5
<1> HIDE DEF i
<1>7. CASE ~s.pinned
  <2>1. i = s
    BY <1>4, <1>6, <1>7 DEF Whole, Fields
  <2>. QED BY <1>2, <1>7, <2>1 DEF refreshPinnedPreview
<1>8. CASE s.pinned
  <2>1. /\ i.pinned = s.pinned /\ i.filter = s.filter /\ i.peers = s.peers /\ i.selNet = s.selNet
        /\ i.panel = s.panel /\ i.fresh = s.fresh /\ Whole(i)
    BY <1>6 DEF Whole, Fields
  <2>2. Listed(i) = Listed(s) /\ Rows(i) = Rows(s)
    BY <2>1 DEF Listed, privateScope, Rows, PanelPeers
  <2>3. s.filter # None
    BY <1>8 DEF Tied, Loose
  <2> DEFINE ids == Listed(s)
             row == IF s.filter \in Rows(s) THEN s.filter ELSE None
             m == showPnSubTooltip(i, ids)
  <2>4. m = [i EXCEPT !.tip = ids, !.fresh = s.fresh \cup {"tip"}]
    BY <2>1 DEF showPnSubTooltip, Fresh, Whole, Fields
  <2>5. refreshPinnedPreview(i) = [m EXCEPT !.saved = None, !.preview = ids, !.src = row]
    BY <1>8, <2>1, <2>2, <2>3 DEF refreshPinnedPreview, Listed
  <2>6. /\ s.tip = ids /\ s.preview = ids /\ s.saved = None /\ s.src = row
        /\ s.fresh \cup {"tip"} = s.fresh
    BY <1>8 DEF Drawn, PinSettled
  <2> HIDE DEF ids, row, m
  <2> DEFINE r == refreshPinnedPreview(i)
  <2>7. r = [i EXCEPT !.tip = s.tip, !.fresh = s.fresh, !.saved = s.saved, !.preview = s.preview,
                      !.src = s.src]
    BY <2>1, <2>4, <2>5, <2>6 DEF Whole, Fields
  <2> HIDE DEF r
  <2>8. r = [s EXCEPT !.tip = s.tip, !.fresh = s.fresh, !.saved = s.saved, !.preview = s.preview,
                      !.src = s.src]
    BY <1>6, <2>7 DEF Whole, Fields
  <2>9. r = s
    BY <2>8 DEF Whole, Fields
  <2>. QED BY <1>2, <2>9 DEF r
<1>. QED BY <1>7, <1>8

\* What a poll leaves of a page in the mode.
Settled(s, P) ==
    /\ Tied(s) /\ Whole(s) /\ s.mode /\ s.initial = FALSE /\ "mini" \in s.fresh
    /\ Ready(s, P) /\ Drawn(s, P)

\* The poll after it, if it returns the same peers, changes nothing at all.
LEMMA SettledStays ==
    ASSUME NEW s, NEW P, Settled(s, P)
    PROVE  applyPeerSnapshot(s, P) = s
<1>1. replace(s, P) = s
  <2>1. s.peers = P /\ s.high \in P \cup {None} /\ Whole(s)
    BY DEF Settled, Ready
  <2> DEFINE high == IF s.high \in P THEN s.high ELSE None
  <2>2. replace(s, P) = [s EXCEPT !.peers = P, !.high = high]
    BY <2>1 DEF replace, Whole, Fields
  <2>3. high = s.high
    BY <2>1
  <2> HIDE DEF high
  <2>. QED BY <2>1, <2>2, <2>3 DEF Whole, Fields
<1>2. dropDeparted(s) = s
  BY DEF dropDeparted, Settled, Ready
<1>3. reconcile(s) = s
  <2>1. CASE s.gsel = None
    BY <2>1 DEF reconcile
  <2>2. CASE s.gsel # None
    <3>1. s.group = scope(AtSite(s, s.gsel), None) /\ s.list = TRUE /\ Whole(s)
      BY <2>2 DEF Settled, Ready
    <3> DEFINE g == scope(AtSite(s, s.gsel), None)
    <3>2. reconcile(s) = [s EXCEPT !.group = g, !.list = TRUE] /\ s.group = g
      BY <2>2, <3>1 DEF reconcile
    <3> HIDE DEF g
    <3>. QED BY <3>1, <3>2 DEF Whole, Fields
  <2>. QED BY <2>1, <2>2
<1>4. updatePopup(s) = s
  BY DEF updatePopup, Settled, Ready
<1>5. updatePrivateNetUI(s) = s
  BY DrawnStays DEF Settled, Ready
<1>6. initialView(s) = s
  <2>1. Whole(s) /\ s.initial = FALSE
    BY DEF Settled
  <2>2. [s EXCEPT !.initial = FALSE] = s
    BY <2>1 DEF Whole, Fields
  <2>. QED BY <2>1, <2>2 DEF initialView
<1>7. Fresh(s, "mini") = s
  <2>1. s.fresh \cup {"mini"} = s.fresh /\ Whole(s)
    BY DEF Settled
  <2>2. Fresh(s, "mini") = [s EXCEPT !.fresh = s.fresh \cup {"mini"}]
    BY <2>1 DEF Fresh, Whole, Fields
  <2>. QED BY <2>1, <2>2 DEF Whole, Fields
<1>. QED BY <1>1, <1>2, <1>3, <1>4, <1>5, <1>6, <1>7 DEF applyPeerSnapshot

\* A stage navigates nowhere, and keeps what is selected and not gone.
Steady(s, r) ==
    /\ r.mode = s.mode /\ r.selNet = s.selNet /\ r.filter = s.filter /\ r.pinned = s.pinned
    /\ r.initial = s.initial
Keeps(s, r, P) ==
    /\ s.popup # None /\ s.popup.peer \in P => r.popup = s.popup
    /\ s.sel # None /\ s.sel \in P => r.sel = s.sel

\* The new peers: a selected peer that is gone goes with its popup.
LEMMA ArriveStage ==
    ASSUME NEW s, Tied(s), NEW P \in Snapshots
    PROVE  LET r == dropDeparted(replace(s, P))
           IN  /\ Tied(r) /\ Steady(s, r) /\ Keeps(s, r, P)
               /\ r.peers = P /\ r.sel \in P \cup {None} /\ r.high \in P \cup {None}
<1> DEFINE a == replace(s, P)
           r == dropDeparted(a)
<1>1. /\ Fields \subseteq DOMAIN a /\ a.peers = P /\ a.high \in P \cup {None}
      /\ a.sel = s.sel /\ a.popup = s.popup /\ Steady(s, a)
  BY DEF replace, Steady, Tied, Loose, Fields
<1>2. Tied(r)
  BY PollTied
<1> HIDE DEF a
<1>3. CASE a.sel = None \/ a.sel \in P
  <2>1. r = a
    BY <1>1, <1>3 DEF dropDeparted
  <2>. QED BY <1>1, <1>2, <1>3, <2>1 DEF Keeps, a
<1>4. CASE a.sel # None /\ a.sel \notin P
  <2>1. r = [a EXCEPT !.sel = None, !.line = None, !.high = None, !.popup = None]
    BY <1>1, <1>4 DEF dropDeparted, popupClose, Fields
  <2>2. r.sel = None /\ r.high = None /\ r.peers = P /\ Steady(a, r)
    BY <1>1, <2>1 DEF Fields, Steady
  <2>3. ~(s.popup # None /\ s.popup.peer \in P) /\ s.sel \notin P
    BY <1>1, <1>4 DEF Tied
  <2> HIDE DEF r
  <2>4. Steady(s, r) /\ Keeps(s, r, P)
    BY <1>1, <2>2, <2>3 DEF Steady, Keeps
  <2>. QED BY <1>2, <2>2, <2>4 DEF r, a
<1>. QED BY <1>3, <1>4

\* A group of a place is of the new peers.
LEMMA GroupStage ==
    ASSUME NEW s, Tied(s), NEW P, s.peers = P, s.sel \in P \cup {None}, s.high \in P \cup {None}
    PROVE  LET r == reconcile(s)
           IN  /\ Tied(r) /\ Steady(s, r) /\ r.popup = s.popup /\ r.sel = s.sel
               /\ r.peers = P /\ r.high = s.high
               /\ r.gsel # None => r.group = scope(AtSite(r, r.gsel), None) /\ r.list = TRUE
<1> DEFINE r == reconcile(s)
<1>1. Tied(r)
  BY SimpleTied
<1>2. CASE s.gsel = None
  BY <1>1, <1>2 DEF reconcile, Steady
<1>3. CASE s.gsel # None
  <2> DEFINE g == scope(AtSite(s, s.gsel), None)
  <2>1. r = [s EXCEPT !.group = g, !.list = TRUE]
    BY <1>3 DEF reconcile
  <2> HIDE DEF g, r
  <2>2. /\ Steady(s, r) /\ r.popup = s.popup /\ r.sel = s.sel /\ r.peers = P /\ r.high = s.high
        /\ r.group = g /\ r.list = TRUE /\ r.gsel = s.gsel
    BY <2>1 DEF Steady, Tied, Loose, Fields
  <2>3. g = scope(AtSite(r, r.gsel), None)
    BY <2>2 DEF g, AtSite
  <2>. QED BY <1>1, <2>2, <2>3 DEF r
<1>. QED BY <1>2, <1>3

\* A popup whose peer is gone is closed, and the refresh runs for it.
LEMMA PopupStage ==
    ASSUME NEW s, Tied(s), NEW P, s.peers = P, s.sel \in P \cup {None}, s.high \in P \cup {None},
           s.gsel # None => s.group = scope(AtSite(s, s.gsel), None) /\ s.list = TRUE
    PROVE  LET r == updatePopup(s)
           IN  Tied(r) /\ Ready(r, P) /\ Steady(s, r) /\ Keeps(s, r, P)
<1> DEFINE r == updatePopup(s)
<1>1. Tied(r)
  BY PollTied
<1>2. CASE s.popup = None \/ s.popup.peer \in P
  BY <1>1, <1>2 DEF updatePopup, Ready, Steady, Keeps
<1>3. CASE s.popup # None /\ s.popup.peer \notin P
  <2> DEFINE t == [popupClose(s) EXCEPT !.sel = None, !.line = None, !.high = None]
             u == updatePrivateNetUI(t)
  <2>1. r = u
    BY <1>3 DEF updatePopup, closePopup
  <2>2. Tied(t)
    BY SimpleTied
  <2>3. /\ t.popup = None /\ t.sel = None /\ t.high = None /\ t.peers = P /\ Steady(s, t)
        /\ t.gsel = s.gsel /\ t.group = s.group /\ t.list = s.list
    BY DEF popupClose, Steady, Tied, Loose, Fields
  <2> HIDE DEF t
  <2>4. Alike(u, t) /\ u.sel \in {t.sel, None}
    BY <2>2, UpdateLeaves
  <2> HIDE DEF u, r
  <2>5. AtSite(r, r.gsel) = AtSite(s, s.gsel)
    BY <2>1, <2>3, <2>4 DEF AtSite, Alike
  <2>6. Ready(r, P)
    BY <2>1, <2>3, <2>4, <2>5 DEF Ready, Alike
  <2>7. Steady(s, r)
    BY <2>1, <2>3, <2>4 DEF Steady, Alike
  <2>8. Keeps(s, r, P)
    BY <1>3 DEF Keeps, Tied
  <2>. QED BY <1>1, <2>6, <2>7, <2>8 DEF r
<1>. QED BY <1>2, <1>3

\* The refresh of the poll itself.
LEMMA DrawStage ==
    ASSUME NEW s, Tied(s), NEW P, Ready(s, P)
    PROVE  LET r == updatePrivateNetUI(s)
           IN  /\ Tied(r) /\ Ready(r, P) /\ Steady(s, r) /\ Keeps(s, r, P)
               /\ r.mode => Whole(r) /\ Drawn(r, P)
<1> DEFINE r == updatePrivateNetUI(s)
<1>1. Tied(r)
  BY UpdateTied
<1>2. /\ Alike(r, s) /\ r.sel \in {s.sel, None}
      /\ s.sel # None /\ s.sel \in s.peers => r.sel = s.sel
  BY UpdateLeaves
<1>3. s.mode => Whole(r) /\ Drawn(r, P)
  BY UpdateDraws DEF Ready
<1> HIDE DEF r
<1>4. s.gsel # None => AtSite(r, r.gsel) = AtSite(s, s.gsel)
  BY <1>2 DEF AtSite, Alike
<1>5. Ready(r, P)
  BY <1>2, <1>4 DEF Ready, Alike
<1>6. Steady(s, r) /\ Keeps(s, r, P)
  BY <1>2 DEF Steady, Keeps, Alike, Ready
<1>7. r.mode => s.mode
  BY <1>2 DEF Alike
<1>. QED BY <1>1, <1>3, <1>5, <1>6, <1>7 DEF r

\* Entering the mode with the page draws it and selects nothing.
LEMMA EnterStage ==
    ASSUME NEW s, Tied(s), ~s.mode, NEW P, Ready(s, P)
    PROVE  LET r == enterPrivateNetMode(s, None, None)
           IN  /\ Tied(r) /\ Ready(r, P) /\ Whole(r) /\ Drawn(r, P) /\ Keeps(s, r, P)
               /\ r.mode /\ r.initial = s.initial
<1> DEFINE r == enterPrivateNetMode(s, None, None)
           m == [s EXCEPT !.mode = TRUE, !.high = None, !.selNet = None]
           c == clearMapDotFilter(hideTooltip(m))
           h == hidePnSubTooltip(c)
           e == [h EXCEPT !.mini = None, !.hides = @ \ {"mode", "donut"}, !.opens = All, !.picks = None]
<1>1. r = updatePrivateNetUI(e)
  BY DEF enterPrivateNetMode
<1>2. Tied(m)
  BY DEF Tied, Loose, Fields
<1>3. /\ m.mode /\ m.high = None /\ m.peers = s.peers /\ m.sel = s.sel /\ m.popup = s.popup
      /\ m.initial = s.initial
  BY DEF Tied, Loose, Fields
<1> HIDE DEF m
<1>4. Tied(c)
  BY <1>2, SimpleTied
<1>5. /\ c.mode /\ c.high = None /\ c.peers = s.peers /\ c.sel = s.sel /\ c.popup = s.popup
      /\ c.initial = s.initial /\ c.gsel = None
  BY <1>2, <1>3 DEF clearMapDotFilter, hideTooltip, Tied, Loose, Fields
<1> HIDE DEF c
<1>6. Tied(h)
  BY <1>4, PanelTied
<1>7. /\ h.mode /\ h.high = None /\ h.peers = s.peers /\ h.sel = s.sel /\ h.popup = s.popup
      /\ h.initial = s.initial /\ h.gsel = None
  BY <1>4, <1>5 DEF hidePnSubTooltip, Fresh, Tied, Loose, Fields
<1> HIDE DEF h
<1>8. Tied(e)
  BY <1>6 DEF Tied, Loose, Fields
<1>9. /\ e.mode /\ e.high = None /\ e.peers = s.peers /\ e.sel = s.sel /\ e.popup = s.popup
      /\ e.initial = s.initial /\ e.gsel = None
  BY <1>6, <1>7 DEF Tied, Loose, Fields
<1> HIDE DEF e
<1>10. Ready(e, P)
  BY <1>9 DEF Ready
<1>11. /\ Tied(r) /\ Ready(r, P) /\ Steady(e, r) /\ Keeps(e, r, P)
       /\ r.mode => Whole(r) /\ Drawn(r, P)
  BY <1>1, <1>8, <1>10, DrawStage
<1> HIDE DEF r
<1>12. r.mode /\ r.initial = s.initial
  BY <1>9, <1>11 DEF Steady
<1>13. Keeps(s, r, P)
  BY <1>9, <1>11 DEF Keeps
<1>. QED BY <1>11, <1>12, <1>13 DEF r

\* Fields no view of the mode is drawn from.
LEMMA MarksNothing ==
    ASSUME NEW s, Tied(s), NEW P, Ready(s, P)
    PROVE  LET r == [s EXCEPT !.initial = FALSE]
               f == Fresh(s, "mini")
           IN  /\ Tied(r) /\ Ready(r, P) /\ r.initial = FALSE
               /\ r.mode = s.mode /\ r.selNet = s.selNet /\ r.filter = s.filter /\ r.pinned = s.pinned
               /\ r.popup = s.popup /\ r.sel = s.sel
               /\ Whole(s) /\ Drawn(s, P) => Whole(r) /\ Drawn(r, P)
               /\ Tied(f) /\ Ready(f, P) /\ Steady(s, f) /\ "mini" \in f.fresh
               /\ f.popup = s.popup /\ f.sel = s.sel
               /\ Whole(s) /\ Drawn(s, P) => Whole(f) /\ Drawn(f, P)
<1> DEFINE Only(r) ==
        /\ Fields \subseteq DOMAIN r /\ r = [x \in DOMAIN r |-> r[x]]
        /\ \A x \in Fields \ {"initial", "fresh"} : r[x] = s[x]
        /\ s.fresh \subseteq r.fresh
<1>1. ASSUME NEW r, Only(r)
      PROVE  /\ Ready(r, P)
             /\ r.mode = s.mode /\ r.selNet = s.selNet /\ r.filter = s.filter /\ r.pinned = s.pinned
             /\ r.popup = s.popup /\ r.sel = s.sel
             /\ Drawn(s, P) => Whole(r) /\ Drawn(r, P)
  <2>1. /\ r.mode = s.mode /\ r.selNet = s.selNet /\ r.filter = s.filter /\ r.pinned = s.pinned
        /\ r.popup = s.popup /\ r.sel = s.sel /\ r.peers = s.peers /\ r.high = s.high
        /\ r.gsel = s.gsel /\ r.group = s.group /\ r.list = s.list /\ r.drawn = s.drawn
        /\ r.panel = s.panel /\ r.src = s.src /\ r.ins = s.ins /\ r.rect = s.rect /\ r.line = s.line
        /\ r.preview = s.preview /\ r.tip = s.tip /\ r.saved = s.saved
    BY <1>1 DEF Fields
  <2>2. s.fresh \subseteq r.fresh /\ Whole(r)
    BY <1>1 DEF Whole
  <2> HIDE DEF Only
  <2>3. AtSite(r, r.gsel) = AtSite(s, s.gsel)
    BY <2>1 DEF AtSite
  <2>4. Ready(r, P)
    BY <2>1, <2>3 DEF Ready
  <2>5. Listed(r) = Listed(s) /\ Rows(r) = Rows(s)
    BY <2>1 DEF Listed, privateScope, Rows, PanelPeers
  <2>6. Drawn(s, P) => DonutSettled(r, P) /\ PanelSettled(r, P)
    BY <2>1, <2>2 DEF Drawn, DonutSettled, PanelSettled
  <2>7. Drawn(s, P) => RectSettled(r, P) /\ LineSettled(r)
    BY <2>1 DEF Drawn, RectSettled, LineSettled
  <2>8. Drawn(s, P) => PinSettled(r)
    BY <2>1, <2>2, <2>5 DEF Drawn, PinSettled
  <2>. QED BY <2>1, <2>2, <2>4, <2>6, <2>7, <2>8 DEF Drawn
<1>2. Only([s EXCEPT !.initial = FALSE])
  BY DEF Fields, Tied, Loose
<1>3. Only(Fresh(s, "mini"))
  BY DEF Fresh, Fields, Tied, Loose
<1>4. [s EXCEPT !.initial = FALSE].initial = FALSE /\ "mini" \in Fresh(s, "mini").fresh
      /\ Fresh(s, "mini").initial = s.initial
  BY DEF Fresh, Fields, Tied, Loose
<1> HIDE DEF Only
<1>. QED BY <1>1, <1>2, <1>3, <1>4, SimpleTied DEF Steady

\* The page starts in the mode when the first peers are all of its networks.
LEMMA ViewStage ==
    ASSUME NEW s, Tied(s), NEW P, Ready(s, P), s.mode => Whole(s) /\ Drawn(s, P)
    PROVE  LET r == Fresh(initialView(s), "mini")
           IN  /\ Tied(r) /\ Keeps(s, r, P) /\ (r.mode => Settled(r, P))
               /\ r.mode = s.mode \/ s.initial
               /\ ~s.initial => r.selNet = s.selNet /\ r.filter = s.filter /\ r.pinned = s.pinned
<1> DEFINE t == [s EXCEPT !.initial = FALSE]
           v == initialView(s)
           r == Fresh(v, "mini")
<1>1. /\ Tied(t) /\ Ready(t, P) /\ t.initial = FALSE
      /\ t.mode = s.mode /\ t.selNet = s.selNet /\ t.filter = s.filter /\ t.pinned = s.pinned
      /\ t.popup = s.popup /\ t.sel = s.sel
      /\ Whole(s) /\ Drawn(s, P) => Whole(t) /\ Drawn(t, P)
  BY MarksNothing
<1>2. v = t \/ (s.initial /\ ~s.mode /\ v = enterPrivateNetMode(t, None, None))
  BY DEF initialView
<1> HIDE DEF t
<1>3. /\ Tied(v) /\ Ready(v, P) /\ v.initial = FALSE /\ Keeps(s, v, P)
      /\ v.mode => Whole(v) /\ Drawn(v, P)
      /\ v.mode = s.mode \/ s.initial
      /\ ~s.initial => v.selNet = s.selNet /\ v.filter = s.filter /\ v.pinned = s.pinned
  <2>1. CASE v = t
    BY <1>1, <2>1 DEF Keeps
  <2>2. CASE s.initial /\ ~s.mode /\ v = enterPrivateNetMode(t, None, None)
    <3>1. ~t.mode
      BY <1>1, <2>2
    <3>2. Tied(v) /\ Ready(v, P) /\ Whole(v) /\ Drawn(v, P) /\ Keeps(t, v, P) /\ v.initial = t.initial
      BY <1>1, <2>2, <3>1, EnterStage
    <3>. QED BY <1>1, <2>2, <3>2 DEF Keeps
  <2>. QED BY <1>2, <2>1, <2>2
<1> HIDE DEF v
<1>4. /\ Tied(r) /\ Ready(r, P) /\ Steady(v, r) /\ "mini" \in r.fresh
      /\ r.popup = v.popup /\ r.sel = v.sel
      /\ Whole(v) /\ Drawn(v, P) => Whole(r) /\ Drawn(r, P)
  BY <1>3, MarksNothing
<1> HIDE DEF r
<1>5. Keeps(s, r, P)
  BY <1>3, <1>4 DEF Keeps
<1>6. r.mode => Settled(r, P)
  BY <1>3, <1>4 DEF Settled, Steady
<1>7. /\ r.mode = s.mode \/ s.initial
      /\ ~s.initial => r.selNet = s.selNet /\ r.filter = s.filter /\ r.pinned = s.pinned
  BY <1>3, <1>4 DEF Steady
<1>. QED BY <1>4, <1>5, <1>6, <1>7 DEF r, v

\* The six stages of a poll, one after the other.
LEMMA PollStages ==
    ASSUME NEW s, Tied(s), NEW P \in Snapshots
    PROVE  LET r == applyPeerSnapshot(s, P)
           IN  /\ Tied(r) /\ Keeps(s, r, P) /\ (r.mode => Settled(r, P))
               /\ r.mode = s.mode \/ s.initial
               /\ ~s.initial => r.selNet = s.selNet /\ r.filter = s.filter /\ r.pinned = s.pinned
<1> DEFINE a == dropDeparted(replace(s, P))
           g == reconcile(a)
           c == updatePopup(g)
           u == updatePrivateNetUI(c)
           r == Fresh(initialView(u), "mini")
<1>1. applyPeerSnapshot(s, P) = r
  BY DEF applyPeerSnapshot
<1>2. /\ Tied(a) /\ Steady(s, a) /\ Keeps(s, a, P)
      /\ a.peers = P /\ a.sel \in P \cup {None} /\ a.high \in P \cup {None}
  BY ArriveStage
<1> HIDE DEF a
<1>3. /\ Tied(g) /\ Steady(a, g) /\ g.popup = a.popup /\ g.sel = a.sel
      /\ g.peers = P /\ g.high = a.high
      /\ g.gsel # None => g.group = scope(AtSite(g, g.gsel), None) /\ g.list = TRUE
  BY <1>2, GroupStage
<1> HIDE DEF g
<1>4. Tied(c) /\ Ready(c, P) /\ Steady(g, c) /\ Keeps(g, c, P)
  BY <1>2, <1>3, PopupStage
<1> HIDE DEF c
<1>5. /\ Tied(u) /\ Ready(u, P) /\ Steady(c, u) /\ Keeps(c, u, P)
      /\ u.mode => Whole(u) /\ Drawn(u, P)
  BY <1>4, DrawStage
<1> HIDE DEF u
<1>6. /\ Tied(r) /\ Keeps(u, r, P) /\ (r.mode => Settled(r, P))
      /\ r.mode = u.mode \/ u.initial
      /\ ~u.initial => r.selNet = u.selNet /\ r.filter = u.filter /\ r.pinned = u.pinned
  BY <1>5, ViewStage
<1> HIDE DEF r
<1>7. Steady(s, u) /\ Keeps(s, u, P)
  BY <1>2, <1>3, <1>4, <1>5 DEF Steady, Keeps
<1>8. Keeps(s, r, P)
  BY <1>6, <1>7 DEF Keeps
<1>. QED BY <1>1, <1>6, <1>7, <1>8 DEF Steady

\* What is settled agrees, view with view.
LEMMA SettledAgrees ==
    ASSUME NEW s, NEW P, Settled(s, P)
    PROVE  /\ s.panel.shown => s.panel.net = s.selNet /\ s.panel.peers = P
           /\ s.pinned => s.tip = LinesTo(s) /\ s.tip = TableRows(s)
           /\ s.popup # None => s.popup.peer \in P
           /\ s.ins # None => s.ins.peer \in P /\ (s.pinned \/ s.preview = {s.ins.peer})
<1>1. s.panel.shown => s.panel.net = s.selNet /\ s.panel.peers = P
  BY DEF Settled, Drawn, PanelSettled
<1>2. ASSUME s.pinned PROVE s.tip = LinesTo(s) /\ s.tip = TableRows(s)
  <2>1. /\ s.mode /\ s.filter # None /\ s.peers \in SUBSET Peers
        /\ s.tip = Listed(s) /\ s.preview = Listed(s)
    BY <1>2 DEF Settled, Drawn, PinSettled, Tied, Loose
  <2>2. Listed(s) \subseteq s.peers
    BY DEF Listed, resolve, privateScope, scope
  <2>3. Listed(s) # None /\ Listed(s) \cap s.peers = Listed(s)
    BY <2>1, <2>2, NullIsNothing
  <2>4. LinesTo(s) = s.preview \cap s.peers
    BY <2>1, <2>3 DEF LinesTo
  <2>5. TableRows(s) = Listed(s)
    BY <2>1 DEF TableRows, Listed
  <2>. QED BY <2>1, <2>3, <2>4, <2>5
<1>3. s.popup # None => s.popup.peer \in P
  BY DEF Settled, Ready
<1>4. s.ins # None => s.ins.peer \in P /\ (s.pinned \/ s.preview = {s.ins.peer})
  BY DEF Settled, Drawn, RectSettled, LineSettled, scope
<1>. QED BY <1>1, <1>2, <1>3, <1>4

\* Whatever was pinned, selected, hovered or closing before it, one poll brings every view
\* of the mode to the new peers, navigates nowhere and drops only what is gone; the same
\* poll again changes nothing.
THEOREM PrivatePollsSettle == NetworksSpec => []PollingSettles
<1>1. ASSUME TiedInvariant PROVE PollingSettles
  <2> SUFFICES ASSUME NEW P \in Snapshots
               PROVE  LET s == applyPeerSnapshot(ui, P) IN
                      /\ s.mode => /\ s.panel.shown => s.panel.net = s.selNet /\ s.panel.peers = P
                                   /\ s.pinned => s.tip = LinesTo(s) /\ s.tip = TableRows(s)
                                   /\ s.popup # None => s.popup.peer \in P
                                   /\ s.ins # None => s.ins.peer \in P /\ (s.pinned \/ s.preview = {s.ins.peer})
                                   /\ applyPeerSnapshot(s, P) = s
                      /\ s.mode = ui.mode \/ ui.initial
                      /\ ~ui.initial => s.selNet = ui.selNet /\ s.filter = ui.filter /\ s.pinned = ui.pinned
                      /\ ui.popup # None /\ ui.popup.peer \in P => s.popup = ui.popup
                      /\ ui.sel # None /\ ui.sel \in P => s.sel = ui.sel
    BY DEF PollingSettles
  <2> DEFINE s == applyPeerSnapshot(ui, P)
  <2>1. /\ Tied(s) /\ Keeps(ui, s, P) /\ (s.mode => Settled(s, P))
        /\ s.mode = ui.mode \/ ui.initial
        /\ ~ui.initial => s.selNet = ui.selNet /\ s.filter = ui.filter /\ s.pinned = ui.pinned
    BY <1>1, PollStages DEF TiedInvariant
  <2> HIDE DEF s
  <2>2. s.mode => applyPeerSnapshot(s, P) = s
    BY <2>1, SettledStays
  <2>3. s.mode => /\ s.panel.shown => s.panel.net = s.selNet /\ s.panel.peers = P
                  /\ s.pinned => s.tip = LinesTo(s) /\ s.tip = TableRows(s)
                  /\ s.popup # None => s.popup.peer \in P
                  /\ s.ins # None => s.ins.peer \in P /\ (s.pinned \/ s.preview = {s.ins.peer})
    BY <2>1, SettledAgrees
  <2>. QED BY <2>1, <2>2, <2>3 DEF s, Keeps
<1>. QED BY <1>1, TiedInvariance, PTL

=============================================================================
