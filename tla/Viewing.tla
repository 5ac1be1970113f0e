------------------------------- MODULE Viewing -------------------------------
(***************************************************************************)
(* A tab that views the dashboard: the page's access (core/viewer-auth.js),*)
(* the dashboard it imports when access is granted (app.js), the reading   *)
(* of peers (peers/refresh.js) and the life of the page: hidden, left,     *)
(* kept in the back/forward cache, shown again, replaced.                  *)
(*                                                                         *)
(* The server is what the tab sees of it: its mode, whether the tab's      *)
(* cookie stands for a viewing session, and the snapshot of peers it       *)
(* serves.  Requests are sent, served and answered in separate steps, and  *)
(* may fail on either way.  Time is abstract: a snapshot grows old at any  *)
(* moment, at the server and in the page.                                  *)
(***************************************************************************)
EXTENDS Naturals, FiniteSets

CONSTANTS Modes,      \* the access modes a server may have been started with
          MaxStamp,   \* bound: successful reads of peers from the node
          MaxEvents   \* bound: failures, locks, ends of sessions, reloads and cached pages

ASSUME ViewingAssumption ==
    /\ Modes \subseteq {"public", "authenticated", "redacted"}
    /\ MaxStamp \in Nat /\ MaxEvents \in Nat

VARIABLES p,       \* the page of the tab
          q,       \* its requests, one of a kind
          carried, \* the snapshot an answer about peers carries
          server,  \* mode, the tab's session, and the latest snapshot
          events   \* failures, locks, ends of sessions, reloads and cached pages so far

vars == <<p, q, carried, server, events>>

Kinds == {"access", "verify", "aggregate", "peers", "logout"}
Quiet == [k \in Kinds |-> "none"]

NoPeers == [stamp |-> 0, rates |-> FALSE]
NoSnapshot == [connected |-> "unknown", stamp |-> 0, fresh |-> TRUE]

----------------------------------------------------------------------------
(* Peers.                                                                  *)

live(s) == ~s.unavailable /\ s.connected = "yes" /\ s.aged = "no"

\* aged: the page holds no old snapshot ("no"), one that was old when it came
\* ("before"), or one that has grown old since it was last rendered ("since").
\* Old rates are not presented as current; the peers stay.
renderStatus(s) == IF live(s) THEN s ELSE [s EXCEPT !.shown.rates = FALSE]

\* The snapshot of a success: new, or of a node that answers.
applySnapshot(s, a) ==
    LET known == [s EXCEPT !.pending = FALSE, !.unavailable = FALSE, !.connected = a.connected,
                           !.last = IF a.stamp = 0 THEN @ ELSE a.stamp,
                           !.aged = IF a.stamp = 0 THEN @ ELSE IF a.fresh THEN "no" ELSE "before"]
        applies == a.stamp # 0 /\ (a.connected = "yes" \/ a.stamp # s.last)
    IN  renderStatus(IF applies THEN [known EXCEPT !.shown = [stamp |-> a.stamp, rates |-> live(known)]]
                     ELSE known)

peersUnavailable(s) == renderStatus([s EXCEPT !.pending = FALSE, !.unavailable = TRUE])

\* An evolving pair: the page and its requests.
refresh(e) ==
    IF ~e.s.dashboard \/ e.s.pending THEN e
    ELSE [s |-> [e.s EXCEPT !.pending = TRUE], q |-> [e.q EXCEPT !["peers"] = "sent"]]

startCountdownTimer(s) == [s EXCEPT !.countdown = ~s.hidden]

\* create and init of the dashboard.
startDashboard(e) ==
    refresh([e EXCEPT !.s = startCountdownTimer([e.s EXCEPT
        !.dashboard = TRUE, !.polling = TRUE, !.pending = FALSE, !.connected = "unknown",
        !.unavailable = FALSE, !.last = 0, !.aged = "no", !.shown = NoPeers])])

\* dispose of the dashboard, when there is one.
disposeDashboard(s) ==
    [s EXCEPT !.dashboard = FALSE, !.polling = FALSE, !.countdown = FALSE, !.pending = FALSE,
              !.shown = NoPeers]

----------------------------------------------------------------------------
(* Access.                                                                 *)

\* What app.js ends with the view; an import under way comes to nothing.
onLock(s) == [disposeDashboard(s) EXCEPT !.import = IF @ = "none" THEN @ ELSE "stale"]

\* Requests of the view are aborted; a logout is not.
aborted(requests) == [Quiet EXCEPT !["logout"] = requests["logout"]]

\* A mutant of reset: a page that is reset already stays as it is.
resetOnce(e, navigate) ==
    IF e.s.resetting THEN e
    ELSE [s |-> [onLock(e.s) EXCEPT
                    !.resetting = TRUE, !.view = "notice", !.authorized = FALSE, !.verifying = FALSE,
                    !.aggregate = FALSE, !.leaving = navigate],
          q |-> aborted(e.q)]

\* The private page is destroyed, and replaced if the lock asks for it.
reset(e, navigate) ==
    IF e.s.resetting THEN (IF navigate THEN [e EXCEPT !.s.leaving = TRUE] ELSE e)
    ELSE [s |-> [onLock(e.s) EXCEPT
                    !.resetting = TRUE, !.view = "notice", !.authorized = FALSE, !.verifying = FALSE,
                    !.aggregate = FALSE, !.leaving = navigate],
          q |-> aborted(e.q)]

\* lock with its page: hidden at once, signed out at the server in its turn.
lock(e) ==
    LET hidden == reset(e, FALSE)
    IN  IF e.s.locking THEN hidden
        ELSE [s |-> [hidden.s EXCEPT !.locking = TRUE, !.retry = FALSE],
              q |-> [hidden.q EXCEPT !["logout"] = "sent"]]

\* onAuthorized: the dashboard is imported.
onAuthorized(s) == [s EXCEPT !.view = "unlocked", !.import = "current"]

authorize(s) == onAuthorized([s EXCEPT !.authorized = TRUE, !.aggregate = FALSE])

showAccess(s) == [s EXCEPT !.view = "form"]

refreshAggregate(e) ==
    IF e.s.resetting \/ e.s.view # "form" \/ e.q["aggregate"] # "none" THEN e
    ELSE [e EXCEPT !.q["aggregate"] = "sent"]

----------------------------------------------------------------------------
Here == [s |-> p, q |-> q]
Becomes(e) == p' = e.s /\ q' = e.q
Event == events < MaxEvents /\ events' = events + 1
Outside == UNCHANGED <<carried, server, events>>

\* start of a page: it asks for its access.
NewPage(hidden) ==
    [s |-> [view |-> "starting", mode |-> "authenticated", authorized |-> FALSE, import |-> "none",
            resetting |-> FALSE, leaving |-> FALSE, locking |-> FALSE, retry |-> FALSE,
            verifying |-> FALSE, aggregate |-> FALSE, hidden |-> hidden, cached |-> FALSE,
            dashboard |-> FALSE, polling |-> FALSE, countdown |-> FALSE, pending |-> FALSE,
            connected |-> "unknown", unavailable |-> FALSE, last |-> 0, aged |-> "no", shown |-> NoPeers],
     q |-> [Quiet EXCEPT !["access"] = "sent"]]

Init ==
    /\ p = NewPage(FALSE).s /\ q = NewPage(FALSE).q
    /\ carried = NoSnapshot
    /\ server \in [mode : Modes, tokens : BOOLEAN, session : {FALSE},
                   connected : {"unknown"}, stamp : {0}, fresh : {TRUE}]
    /\ events = 0

----------------------------------------------------------------------------
(* The server.                                                             *)

\* requireViewer, on a read of this tab.
Viewer == server.mode = "public" \/ server.session

\* A token that is accepted makes a session; a logout ends it.
Serve(kind) ==
    /\ q[kind] \in {"sent", "good", "bad"}
    /\ q' = [q EXCEPT ![kind] =
                IF \/ kind = "access" /\ ~server.session
                   \/ kind = "verify" /\ @ = "bad"
                   \/ kind = "peers" /\ ~Viewer
                THEN "no" ELSE "yes"]
    /\ carried' = IF kind = "peers" /\ Viewer
                  THEN [connected |-> server.connected, stamp |-> server.stamp, fresh |-> server.fresh]
                  ELSE carried
    /\ server' = [server EXCEPT !.session = IF kind = "verify" /\ q[kind] = "good" THEN TRUE
                                            ELSE IF kind = "logout" THEN FALSE ELSE @]
    /\ UNCHANGED <<p, events>>

\* A request or its answer is lost, times out or meets an error of the server.
Fail(kind) ==
    /\ q[kind] \notin {"none", "failed"}
    /\ Event
    /\ q' = [q EXCEPT ![kind] = "failed"]
    /\ UNCHANGED <<p, carried, server>>

\* A session expires, is ended by a restart, or by another tab.
SessionEnds ==
    /\ server.session
    /\ Event
    /\ server' = [server EXCEPT !.session = FALSE]
    /\ UNCHANGED <<p, q, carried>>

\* refreshPeers at the server: a new snapshot, or a failure that keeps the old one.
NodeRead ==
    /\ server.stamp < MaxStamp
    /\ server' = [server EXCEPT !.connected = "yes", !.stamp = @ + 1, !.fresh = TRUE]
    /\ UNCHANGED <<p, q, carried, events>>

NodeFails ==
    /\ server.connected # "no"
    /\ server' = [server EXCEPT !.connected = "no"]
    /\ UNCHANGED <<p, q, carried, events>>

\* More than 30 seconds have passed since the snapshot was read.
SnapshotAges ==
    /\ server.stamp # 0 /\ server.fresh
    /\ server' = [server EXCEPT !.fresh = FALSE]
    /\ UNCHANGED <<p, q, carried, events>>

----------------------------------------------------------------------------
(* Answers.  A page in the cache does not run.                             *)

Answered(kind, e) == Becomes([e EXCEPT !.q[kind] = "none"])
Running == ~p.cached

AnswerAccess ==
    /\ Running /\ q["access"] \in {"yes", "no", "failed"}
    /\ LET s == [p EXCEPT !.mode = server.mode]
           e == [Here EXCEPT !.s = s]
       IN  IF q["access"] = "failed" THEN Answered("access", [Here EXCEPT !.s.view = "failed"])
           ELSE IF server.mode = "public" THEN Answered("access", [e EXCEPT !.s = onAuthorized(s)])
           ELSE IF q["access"] = "yes" THEN Answered("access", [e EXCEPT !.s = authorize(s)])
           ELSE LET form == [e EXCEPT !.s = showAccess(s)]
                IN  Answered("access", IF server.mode = "redacted" THEN refreshAggregate(form) ELSE form)
    /\ Outside

\* A token is entered; the form waits for the answer.
Submit(good) ==
    /\ Running /\ p.view = "form" /\ ~p.verifying /\ server.tokens
    /\ Becomes([s |-> [p EXCEPT !.verifying = TRUE],
                q |-> [q EXCEPT !["verify"] = IF good THEN "good" ELSE "bad"]])
    /\ Outside

AnswerVerify ==
    /\ Running /\ q["verify"] \in {"yes", "no", "failed"}
    /\ Answered("verify", [Here EXCEPT !.s = IF q["verify"] = "yes" THEN authorize(p)
                                             ELSE [p EXCEPT !.verifying = FALSE]])
    /\ Outside

\* The first answer starts the timer, unless the form is gone.
AnswerAggregate ==
    /\ Running /\ q["aggregate"] \in {"yes", "failed"}
    /\ Answered("aggregate", [Here EXCEPT !.s.aggregate = p.view = "form" /\ ~p.resetting])
    /\ Outside

AggregateTimer ==
    /\ Running /\ p.aggregate
    /\ Becomes(refreshAggregate(Here))
    /\ Outside

\* A mutant of ImportEnds: the generation is not compared.
ImportEndsLate ==
    /\ Running /\ p.import # "none"
    /\ Becomes(startDashboard([Here EXCEPT !.s.import = "none", !.s.verifying = FALSE]))
    /\ Outside

\* The import of an older generation starts nothing.
ImportEnds ==
    /\ Running /\ p.import # "none"
    /\ LET e == [Here EXCEPT !.s.import = "none", !.s.verifying = FALSE]
       IN  Becomes(IF p.import = "current" THEN startDashboard(e) ELSE e)
    /\ Outside

\* A failed import ends the start of a page; behind a form nothing is told.
ImportFails ==
    /\ Running /\ p.import = "current"
    /\ Event
    /\ p' = [p EXCEPT !.import = "none", !.verifying = FALSE,
                      !.view = IF p.verifying THEN @ ELSE "failed"]
    /\ UNCHANGED <<q, carried, server>>

\* A mutant of AnswerPeers: a refusal is a failure like others.
AnswerPeersRefused ==
    /\ Running /\ q["peers"] \in {"yes", "no", "failed"}
    /\ Answered("peers", [Here EXCEPT !.s = IF q["peers"] = "yes" THEN applySnapshot(p, carried)
                                            ELSE peersUnavailable(p)])
    /\ Outside

\* The task of refresh after its request; getJson locks a view that is refused.
AnswerPeers ==
    /\ Running /\ q["peers"] \in {"yes", "no", "failed"}
    /\ LET answered == [Here EXCEPT !.q["peers"] = "none"]
       IN  \/ q["peers"] = "yes" /\ Becomes([answered EXCEPT !.s = applySnapshot(p, carried)])
           \/ q["peers"] = "no" /\ p.authorized /\ Becomes(lock(answered))
           \/ /\ q["peers"] = "failed" \/ (q["peers"] = "no" /\ ~p.authorized)
              /\ Becomes([answered EXCEPT !.s = peersUnavailable(p)])
    /\ Outside

\* The logout of lock: the page is replaced, or the lock can be tried again.
AnswerLogout ==
    /\ Running /\ q["logout"] \in {"yes", "failed"}
    /\ Answered("logout", [Here EXCEPT !.s = [p EXCEPT
           !.locking = FALSE,
           !.leaving = @ \/ q["logout"] = "yes", !.retry = q["logout"] = "failed"]])
    /\ Outside

----------------------------------------------------------------------------
(* The user, the timers and the life of the page.                          *)

ClickLock ==
    /\ Running /\ ~p.hidden
    /\ (p.view = "unlocked" /\ p.authorized) \/ p.retry
    /\ Event
    /\ Becomes(lock(Here))
    /\ UNCHANGED <<carried, server>>

\* The interval of peerPolling, or a peer action that has been carried out.
Poll ==
    /\ Running /\ p.polling
    /\ Becomes(refresh(Here))
    /\ Outside

\* The countdown's second.
Tick ==
    /\ Running /\ p.countdown
    /\ p' = renderStatus(p)
    /\ UNCHANGED q /\ Outside

PageAges ==
    /\ p.dashboard /\ p.last # 0 /\ p.aged = "no"
    /\ p' = [p EXCEPT !.aged = "since"]
    /\ UNCHANGED q /\ Outside

\* A mutant of handleVisibilityChange: the countdown is not begun again.
handleVisibilityChangeOnce(e) ==
    IF e.s.hidden THEN [e EXCEPT !.s.countdown = FALSE] ELSE refresh(e)

handleVisibilityChange(e) ==
    LET timed == [e EXCEPT !.s = startCountdownTimer(e.s)]
    IN  IF e.s.hidden THEN timed ELSE refresh(timed)

ChangeVisibility ==
    /\ Running
    /\ LET e == [Here EXCEPT !.s.hidden = ~@]
       IN  Becomes(IF p.dashboard THEN handleVisibilityChange(e) ELSE e)
    /\ Outside

\* pagehide of a page that is kept; a private one is reset first.
PageHide ==
    /\ Running /\ ~p.leaving
    /\ Event
    /\ LET e == IF p.mode = "public" THEN Here ELSE reset(Here, FALSE)
       IN  Becomes([e EXCEPT !.s.cached = TRUE])
    /\ UNCHANGED <<carried, server>>

\* pageshow of a page that was kept; a private one is not shown again.
PageShow ==
    /\ p.cached
    /\ LET e == [Here EXCEPT !.s.cached = FALSE]
       IN  Becomes(IF p.mode = "public" THEN e ELSE reset(e, TRUE))
    /\ Outside

\* location.replace takes effect.
Unload ==
    /\ Running /\ p.leaving
    /\ Becomes(NewPage(p.hidden))
    /\ Outside

Reload ==
    /\ Running /\ ~p.leaving
    /\ Event
    /\ Becomes(NewPage(p.hidden))
    /\ UNCHANGED <<carried, server>>

Next ==
    \/ \E kind \in Kinds : Serve(kind) \/ Fail(kind)
    \/ AnswerAccess \/ AnswerVerify \/ AnswerAggregate \/ AnswerPeers \/ AnswerLogout
    \/ \E good \in BOOLEAN : Submit(good)
    \/ ImportEnds \/ ImportFails \/ AggregateTimer
    \/ ClickLock \/ Poll \/ Tick \/ PageAges \/ ChangeVisibility
    \/ PageHide \/ PageShow \/ Unload \/ Reload
    \/ SessionEnds \/ NodeRead \/ NodeFails \/ SnapshotAges

\* Requests end, timers fire, and a page that is left is replaced.  The user is
\* free to do nothing, and a page in the cache may never be shown again.
Fairness ==
    /\ \A kind \in Kinds : WF_vars(Serve(kind))
    /\ WF_vars(AnswerPeers) /\ WF_vars(AnswerLogout)
    /\ WF_vars(Poll) /\ WF_vars(Unload)

Spec == Init /\ [][Next]_vars /\ Fairness

----------------------------------------------------------------------------
Answers == {"none", "sent", "good", "bad", "yes", "no", "failed"}
Node == [connected : {"unknown", "yes", "no"}, stamp : 0..MaxStamp, fresh : BOOLEAN]
Page ==
    [view : {"starting", "form", "unlocked", "failed", "notice"},
     mode : Modes \cup {"authenticated"}, authorized : BOOLEAN, import : {"none", "current", "stale"},
     resetting : BOOLEAN, leaving : BOOLEAN, locking : BOOLEAN, retry : BOOLEAN,
     verifying : BOOLEAN, aggregate : BOOLEAN, hidden : BOOLEAN, cached : BOOLEAN,
     dashboard : BOOLEAN, polling : BOOLEAN, countdown : BOOLEAN, pending : BOOLEAN,
     connected : {"unknown", "yes", "no"}, unavailable : BOOLEAN, last : 0..MaxStamp,
     aged : {"no", "before", "since"}, shown : [stamp : 0..MaxStamp, rates : BOOLEAN]]

TypeOK ==
    /\ p \in Page
    /\ q \in [Kinds -> Answers]
    /\ carried \in Node
    /\ server \in [mode : Modes, tokens : BOOLEAN, session : BOOLEAN,
                   connected : {"unknown", "yes", "no"}, stamp : 0..MaxStamp, fresh : BOOLEAN]

\* A lock is the end of the private page: whatever was under way when it came,
\* an import, a read of peers or a verification, brings nothing back, and a
\* private page in the cache holds nothing.
NothingAfterLock ==
    p.resetting \/ (p.cached /\ p.mode # "public") =>
        /\ ~p.dashboard /\ ~p.polling /\ ~p.countdown /\ ~p.aggregate
        /\ p.shown = NoPeers
        /\ ~p.authorized
        /\ \A kind \in Kinds \ {"logout"} : q[kind] = "none"

\* A locked page is replaced by the access page, unless its logout failed, and
\* then it offers the lock again; it is never left with neither.
LockedPagesReopen == p.resetting ~> (~p.resetting \/ p.retry \/ p.cached)

\* A session that ends at the server closes the private dashboard, although
\* nothing tells the page: its own polling does.
ExpiredViewCloses ==
    p.dashboard /\ p.mode # "public" /\ ~server.session ~> ~p.dashboard \/ server.session \/ p.cached

\* The rates shown are those of a live snapshot, or of one that has grown old
\* since the page last looked; and whenever it is looked at, the countdown that
\* withdraws them runs.  No answer, failure or return to the tab may break this.
RatesAreLive ==
    p.shown.rates /\ ~live(p) => p.aged = "since" /\ (p.hidden \/ p.cached \/ p.countdown)
=============================================================================
