----------------------------- MODULE Management -----------------------------
(***************************************************************************)
(* Management access in the tabs of one browser (core/admin-auth.js) and   *)
(* the requests that depend on it (core/api.js).  The tabs share a cookie, *)
(* so one session at the server, and tell each other of locks and unlocks  *)
(* over a channel.  A tab knows that it is authenticated; it holds no      *)
(* token, because the server remembers every verified browser.             *)
(*                                                                         *)
(* A request is sent, served and answered in three steps, and its answer   *)
(* may be lost after it was served.  A revision is compared with one       *)
(* captured earlier and nothing else, so each pending operation keeps one  *)
(* bit, fresh: no generation has ended since it captured the revision.     *)
(* What follows an answer up to the next wait is one step, with the        *)
(* continuations of the promises it settles (Settle).                      *)
(*                                                                         *)
(* The server's settings last as long as the pages: the answer of a server *)
(* restarted without management (403 management_disabled) is left out.  It *)
(* ends the generation as a denial does.                                   *)
(***************************************************************************)
EXTENDS Naturals, Sequences

CONSTANTS Tabs,
          MayClose,   \* the tabs that the user may close or send through the page cache
          NoTab,
          MaxEvents   \* bound: what the user and the clock do in one behaviour

ASSUME ManagementAssumption ==
    NoTab \notin Tabs /\ MayClose \subseteq Tabs /\ MaxEvents \in Nat

VARIABLES session,   \* what the server knows of the cookie's management session
          tab,       \* createAdminAuthentication's state, one per tab
          channel,   \* the messages on their way to each tab
          focus,     \* the tab that has the focus
          events     \* what the user and the clock did so far

vars == <<session, tab, channel, focus, events>>

Kinds == {"start", "logout", "signout", "verify", "access", "action", "read"}

\* Requests: idle, sent, or with an answer on its way back.
Idle == [k \in Kinds |-> "idle"]

\* A page that has just been opened has asked /api/access for its state.
NewTab ==
    [open |-> TRUE, wiped |-> FALSE, auth |-> FALSE, avail |-> FALSE, lockShown |-> FALSE,
     locking |-> FALSE, lockFailure |-> FALSE, remotePending |-> FALSE,
     dialog |-> FALSE, waiters |-> {}, validating |-> "no",
     act |-> "idle", actFresh |-> FALSE, known |-> FALSE, aborted |-> FALSE,
     ran |-> 0,  \* history: how often the server ran the pressed action
     lockSeen |-> FALSE,  \* history: a lock since the last revalidation was asked
     read |-> "idle", readFresh |-> FALSE, unlock |-> "idle",
     req |-> [Idle EXCEPT !["start"] = "sent"]]

Incomplete(s) == s.locking \/ s.lockFailure \/ s.remotePending

----------------------------------------------------------------------------
(* Generations (admin-auth.js).                                            *)

\* No pending operation may find the revision it captured.
endGeneration(s) ==
    [s EXCEPT !.validating = IF @ = "current" THEN "stale" ELSE @,
              !.actFresh = FALSE, !.readFresh = FALSE]

clearToken(s) == [endGeneration(s) EXCEPT !.auth = FALSE, !.lockShown = FALSE]

\* The prompt closes: its verification is dropped, and who waits is rejected.
\* A verification that was sent may still be served.
closePrompt(s) ==
    [s EXCEPT !.dialog = FALSE, !.waiters = {},
              !.act    = IF "action" \in s.waiters THEN "refused" ELSE @,
              !.unlock = IF "unlock" \in s.waiters THEN "idle" ELSE @,
              !.req["verify"] = IF @ \in {"sent", "stray"} THEN "stray" ELSE "idle"]

reset(s) == closePrompt(clearToken(s))

restore(s, live) ==
    IF Incomplete(s) THEN s
    ELSE [endGeneration(s) EXCEPT !.auth = live, !.avail = TRUE, !.lockShown = live]

revalidate(s) ==
    IF Incomplete(s) \/ s.validating # "no" THEN s
    ELSE [clearToken(s) EXCEPT !.validating = "current", !.lockSeen = FALSE,
                               !.req["access"] = "sent"]

----------------------------------------------------------------------------
(* Requests that need management (api.js).                                 *)

\* requestToken: refused, answered at once, or one of those the prompt serves.
requestToken(s, who) ==
    IF who = "action" /\ s.aborted THEN [s EXCEPT !.act = "cancelled"]
    ELSE IF s.lockFailure
    THEN IF who = "action" THEN [s EXCEPT !.act = "failed"] ELSE [s EXCEPT !.unlock = "idle"]
    ELSE IF s.auth
    THEN IF who = "action"
         THEN [s EXCEPT !.act = "retry", !.actFresh = TRUE, !.req["action"] = "sent"]
         ELSE [s EXCEPT !.unlock = "idle"]
    ELSE [s EXCEPT !.waiters = @ \cup {who}, !.dialog = TRUE,
                   !.act = IF who = "action" THEN "prompt" ELSE @,
                   !.unlock = IF who = "unlock" THEN "prompt" ELSE @]

\* The gate of each kind of request, when nothing is left to wait for.
AdmitAction(s) ==
    IF s.aborted THEN [s EXCEPT !.act = "cancelled"]
    ELSE IF s.lockFailure \/ s.remotePending THEN [s EXCEPT !.act = "failed"]
    ELSE [s EXCEPT !.act = "first", !.actFresh = TRUE, !.known = s.auth, !.req["action"] = "sent"]

AdmitRead(s) ==
    IF s.lockFailure \/ s.remotePending \/ ~s.readFresh \/ ~s.auth THEN [s EXCEPT !.read = "idle"]
    ELSE [s EXCEPT !.read = "sent", !.req["read"] = "sent"]

AdmitUnlock(s) ==
    IF s.lockFailure \/ s.remotePending \/ ~s.avail THEN [s EXCEPT !.unlock = "idle"]
    ELSE requestToken(s, "unlock")

Waits(s, gate) == (gate = "locking" /\ s.locking) \/ (gate = "validating" /\ s.validating # "no")

\* beforeRequest: a lock under way is awaited first, then a revalidation.
Through(s, gate, Admit(_), Stay(_, _)) ==
    CASE Waits(s, gate) -> s
      [] gate = "locking" /\ ~s.locking /\ Waits(s, "validating") -> Stay(s, "validating")
      [] OTHER -> Admit(s)

StayAct(s, g)    == [s EXCEPT !.act = g]
StayRead(s, g)   == [s EXCEPT !.read = g]
StayUnlock(s, g) == [s EXCEPT !.unlock = g]
Gates == {"locking", "validating"}

\* The continuations that run before the next event.
Settle(s) ==
    LET a == IF s.act \in Gates THEN Through(s, s.act, AdmitAction, StayAct) ELSE s
        r == IF a.read \in Gates THEN Through(a, a.read, AdmitRead, StayRead) ELSE a
    IN  IF r.unlock \in Gates THEN Through(r, r.unlock, AdmitUnlock, StayUnlock) ELSE r

----------------------------------------------------------------------------
\* The tabs have been opened: each has been told what /api/access says.
Loaded == [restore(NewTab, session = "live") EXCEPT !.req = Idle]

Init ==
    /\ session \in {"live", "none"}
    /\ tab = [t \in Tabs |-> Loaded]
    /\ channel = [t \in Tabs |-> <<>>]
    /\ focus \in Tabs
    /\ events = 0

Becomes(t, s) == tab' = [tab EXCEPT ![t] = Settle(s)]

broadcast(t, type) ==
    channel' = [u \in Tabs |-> IF u # t /\ tab[u].open THEN Append(channel[u], type) ELSE channel[u]]

Event == events < MaxEvents /\ events' = events + 1

\* The page of t takes what the user does: it has the focus and no dialog covers it.
Usable(t) == focus = t /\ tab[t].open /\ ~tab[t].dialog /\ ~tab[t].wiped

\* A request meets beforeRequest.
Enter(s, field) == [s EXCEPT ![field] = "locking"]

PressAction(t) ==
    /\ Event /\ Usable(t)
    /\ tab[t].act \in {"idle", "done", "failed", "cancelled", "refused"}
    /\ tab[t].req["start"] = "idle" /\ tab[t].req["action"] = "idle"
    /\ Becomes(t, Enter([tab[t] EXCEPT !.aborted = FALSE, !.ran = 0], "act"))
    /\ UNCHANGED <<session, channel, focus>>

\* A mutant of CancelAction: the last one to leave keeps the prompt open.
CancelActionLeavesPrompt(t) ==
    /\ Event /\ tab[t].open
    /\ tab[t].act \in Gates \cup {"first", "retry", "prompt"}
    /\ LET s == [tab[t] EXCEPT !.aborted = TRUE]
       IN  Becomes(t, IF s.act # "prompt" THEN s
                      ELSE [s EXCEPT !.waiters = @ \ {"action"}, !.act = "refused"])
    /\ UNCHANGED <<session, channel, focus>>

\* The owner of the action aborts its signal: its panel is disposed or closed.
CancelAction(t) ==
    /\ Event /\ tab[t].open
    /\ tab[t].act \in Gates \cup {"first", "retry", "prompt"}
    /\ LET s == [tab[t] EXCEPT !.aborted = TRUE]
           w == [s EXCEPT !.waiters = @ \ {"action"}, !.act = "refused"]
       IN  Becomes(t, IF s.act # "prompt" THEN s
                      ELSE IF w.waiters = {} THEN closePrompt(w) ELSE w)
    /\ UNCHANGED <<session, channel, focus>>

\* The wallet ticker reads when its interval ends and access is there.
StartRead(t) ==
    /\ Event /\ tab[t].open /\ ~tab[t].wiped
    /\ tab[t].auth /\ tab[t].read \in {"idle", "applied"} /\ tab[t].req["read"] = "idle"
    /\ Becomes(t, Enter([tab[t] EXCEPT !.readFresh = TRUE], "read"))
    /\ UNCHANGED <<session, channel, focus>>

PressUnlock(t) ==
    /\ Event /\ Usable(t)
    /\ ~tab[t].auth /\ tab[t].avail /\ tab[t].unlock = "idle"
    /\ Becomes(t, Enter(tab[t], "unlock"))
    /\ UNCHANGED <<session, channel, focus>>

\* The prompt has no verification under way and the user enters a token.
Submit(t) ==
    /\ Event /\ focus = t /\ tab[t].open
    /\ tab[t].dialog /\ tab[t].req["verify"] = "idle"
    /\ Becomes(t, [tab[t] EXCEPT !.req["verify"] = "sent"])
    /\ UNCHANGED <<session, channel, focus>>

ClosePrompt(t) ==
    /\ Event /\ focus = t /\ tab[t].open /\ tab[t].dialog
    /\ Becomes(t, closePrompt(tab[t]))
    /\ UNCHANGED <<session, channel, focus>>

lock(t) ==
    /\ Event /\ Usable(t)
    /\ tab[t].lockShown /\ ~tab[t].locking /\ tab[t].req["logout"] = "idle"
    /\ Becomes(t, [reset(tab[t]) EXCEPT !.remotePending = FALSE, !.lockFailure = FALSE,
                       !.lockShown = TRUE, !.locking = TRUE, !.lockSeen = TRUE,
                       !.req["logout"] = "sent"])
    /\ broadcast(t, "lock")
    /\ UNCHANGED <<session, focus>>

\* The viewer is signed out: management follows, and the page is wiped, which
\* disposes the owner of a pressed action.
signOutViewing(t) ==
    /\ Event /\ focus = t /\ tab[t].open /\ ~tab[t].dialog
    /\ tab[t].req["start"] = "idle" /\ tab[t].req["signout"] = "idle"
    /\ Becomes(t, [reset(tab[t]) EXCEPT !.remotePending = TRUE, !.lockFailure = FALSE,
                       !.wiped = TRUE, !.lockSeen = TRUE, !.aborted = TRUE,
                       !.req["signout"] = "sent"])
    /\ broadcast(t, "lock")
    /\ UNCHANGED <<session, focus>>

Blur(t) ==
    /\ Event /\ focus = t
    /\ focus' = NoTab
    /\ Becomes(t, IF tab[t].auth THEN clearToken(tab[t]) ELSE tab[t])
    /\ UNCHANGED <<session, channel>>

Focus(t) ==
    /\ Event /\ focus = NoTab /\ tab[t].open
    /\ focus' = t
    /\ Becomes(t, IF tab[t].avail THEN revalidate(tab[t]) ELSE tab[t])
    /\ UNCHANGED <<session, channel>>

\* A public page goes to the back/forward cache and returns.
BackForward(t) ==
    /\ Event /\ Usable(t) /\ t \in MayClose
    /\ Becomes(t, revalidate(reset(tab[t])))
    /\ UNCHANGED <<session, channel, focus>>

Close(t) ==
    /\ Event /\ t \in MayClose /\ tab[t].open
    /\ tab' = [tab EXCEPT ![t].open = FALSE]
    /\ channel' = [channel EXCEPT ![t] = <<>>]
    /\ focus' = IF focus = t THEN NoTab ELSE focus
    /\ UNCHANGED session

\* The session runs out, or a restarted server has forgotten it.
SessionEnds ==
    /\ Event /\ session = "live"
    /\ session' \in {"expired", "none"}
    /\ UNCHANGED <<tab, channel, focus>>

\* armExpiry's timer: every tab with access was told when the session ends.
ExpiryFires(t) ==
    /\ tab[t].open /\ tab[t].auth /\ session = "expired"
    /\ Becomes(t, reset(tab[t]))
    /\ UNCHANGED <<session, channel, focus, events>>

----------------------------------------------------------------------------
(* The server, and what reaches a tab.                                     *)

\* What the server does with a request, and what it may answer.
Served(kind) ==
    CASE kind \in {"logout", "signout"} -> {<<"none", "ok">>}
      [] kind = "verify" -> {<<"live", "ok">>, <<session, "denied">>}
      [] kind \in {"access", "start"} -> {<<session, IF session = "live" THEN "live" ELSE "dead">>}
      [] kind = "action" -> IF session = "live" THEN {<<session, "ok">>}
                            ELSE {<<session, "denied">>, <<session, "cooldown">>}
      [] kind = "read" -> {<<session, IF session = "live" THEN "ok" ELSE "denied">>}

\* The answer may be lost on its way; an answer to a closed prompt reaches nobody.
Serve(t, kind) ==
    /\ tab[t].req[kind] \in {"sent", "stray"}
    /\ \E served \in Served(kind), lost \in BOOLEAN :
         /\ session' = served[1]
         /\ tab' = [tab EXCEPT
                ![t].req[kind] = IF @ = "stray" THEN "idle" ELSE IF lost THEN "lost" ELSE served[2],
                ![t].ran = IF kind = "action" /\ served[2] = "ok" THEN @ + 1 ELSE @]
    /\ UNCHANGED <<channel, focus, events>>

\* A request that would have changed something may never arrive.
Lose(t, kind) ==
    /\ kind \in {"logout", "signout", "verify", "action"}
    /\ tab[t].req[kind] \in {"sent", "stray"}
    /\ tab' = [tab EXCEPT ![t].req[kind] = IF @ = "stray" THEN "idle" ELSE "lost"]
    /\ UNCHANGED <<session, channel, focus, events>>

Answers(t, kind) == tab[t].open /\ tab[t].req[kind] \notin {"idle", "sent", "stray"}
Taken(t, kind) == [tab[t] EXCEPT !.req[kind] = "idle"]

\* A mutant of AnswerLogout: only a lock that succeeds is announced.
AnswerLogoutQuietly(t) ==
    /\ Answers(t, "logout")
    /\ LET s == [Taken(t, "logout") EXCEPT !.locking = FALSE]
           ok == tab[t].req["logout"] = "ok"
       IN  /\ Becomes(t, [s EXCEPT !.lockShown = ~ok, !.lockFailure = @ \/ ~ok])
           /\ IF ok THEN broadcast(t, "locked") ELSE UNCHANGED channel
    /\ UNCHANGED <<session, focus, events>>

AnswerLogout(t) ==
    /\ Answers(t, "logout")
    /\ LET s == [Taken(t, "logout") EXCEPT !.locking = FALSE]
           ok == tab[t].req["logout"] = "ok"
       IN  /\ Becomes(t, [s EXCEPT !.lockShown = ~ok, !.lockFailure = @ \/ ~ok])
           /\ broadcast(t, IF ok THEN "locked" ELSE "lock-failed")
    /\ UNCHANGED <<session, focus, events>>

\* A completed sign-out loads the page again; a failed one offers to retry.
AnswerSignOut(t) ==
    /\ Answers(t, "signout")
    /\ LET ok == tab[t].req["signout"] = "ok" IN
       /\ tab' = [tab EXCEPT ![t] = IF ok THEN NewTab
                     ELSE [reset(Taken(t, "signout")) EXCEPT !.remotePending = FALSE, !.lockFailure = TRUE]]
       /\ channel' = [u \in Tabs |-> IF u = t THEN (IF ok THEN <<>> ELSE channel[t])
                         ELSE IF tab[u].open THEN Append(channel[u], IF ok THEN "locked" ELSE "lock-failed")
                         ELSE channel[u]]
    /\ UNCHANGED <<session, focus, events>>

\* The prompt is still open, or its verification would have been dropped.
Verified(s) ==
    [endGeneration(s) EXCEPT
        !.auth = TRUE, !.avail = TRUE, !.lockShown = TRUE, !.dialog = FALSE, !.waiters = {},
        !.act = IF "action" \in s.waiters THEN "retry" ELSE @,
        !.actFresh = "action" \in s.waiters,
        !.req["action"] = IF "action" \in s.waiters THEN "sent" ELSE @,
        !.unlock = IF "unlock" \in s.waiters THEN "idle" ELSE @]

AnswerVerify(t) ==
    /\ Answers(t, "verify")
    /\ IF tab[t].req["verify"] = "ok"
       THEN Becomes(t, Verified(Taken(t, "verify"))) /\ broadcast(t, "unlock")
       ELSE Becomes(t, Taken(t, "verify")) /\ UNCHANGED channel
    /\ UNCHANGED <<session, focus, events>>

\* A mutant of Validated: the revision is not compared.
ValidatedAnyRevision(s, answer) ==
    LET s0 == IF Incomplete(s) \/ answer = "lost" THEN s ELSE restore(s, answer = "live")
    IN  [s0 EXCEPT !.validating = "no"]

Validated(s, answer) ==
    LET s0 == IF s.validating = "stale" \/ Incomplete(s) \/ answer = "lost" THEN s
              ELSE restore(s, answer = "live")
    IN  [s0 EXCEPT !.validating = "no"]

AnswerAccess(t) ==
    /\ Answers(t, "access")
    /\ Becomes(t, Validated(Taken(t, "access"), tab[t].req["access"]))
    /\ UNCHANGED <<session, channel, focus, events>>

AnswerStart(t) ==
    /\ Answers(t, "start")
    /\ LET answer == tab[t].req["start"] IN
       Becomes(t, IF answer = "lost" THEN Taken(t, "start")
                  ELSE restore(Taken(t, "start"), answer = "live"))
    /\ UNCHANGED <<session, channel, focus, events>>

\* Mutant: a lost reply is sent again.
FirstAnswerResends(s, answer) ==
    CASE s.aborted       -> [s EXCEPT !.act = "cancelled"]
      [] answer = "ok"   -> [s EXCEPT !.act = "done"]
      [] answer = "lost" /\ ~s.aborted -> [s EXCEPT !.act = "retry", !.req["action"] = "sent"]
      [] OTHER           -> [s EXCEPT !.act = "failed"]

\* The first answer: only a failure of authentication leads to another request.
FirstAnswer(s, answer) ==
    CASE s.aborted      -> [s EXCEPT !.act = "cancelled"]
      [] answer = "ok"  -> [s EXCEPT !.act = "done"]
      [] answer = "denied" /\ ~s.aborted ->
            requestToken(IF s.actFresh THEN clearToken(s) ELSE s, "action")
      [] answer = "cooldown" /\ ~s.known /\ ~s.aborted -> requestToken(s, "action")
      [] OTHER          -> [s EXCEPT !.act = "failed"]

RetryAnswer(s, answer) ==
    CASE s.aborted      -> [s EXCEPT !.act = "cancelled"]
      [] answer = "ok"  -> [s EXCEPT !.act = "done"]
      [] answer = "denied" /\ s.actFresh -> [clearToken(s) EXCEPT !.act = "failed"]
      [] OTHER          -> [s EXCEPT !.act = "failed"]

AnswerAction(t) ==
    /\ Answers(t, "action")
    /\ LET s == Taken(t, "action")
           answer == tab[t].req["action"]
       IN  Becomes(t, IF s.act = "first" THEN FirstAnswer(s, answer)
                      ELSE IF s.act = "retry" THEN RetryAnswer(s, answer) ELSE s)
    /\ UNCHANGED <<session, channel, focus, events>>

\* checkGeneration: an answer for a generation that ended is nobody's.
ReadAnswer(s, answer) ==
    IF ~s.readFresh THEN [s EXCEPT !.read = "idle"]
    ELSE IF answer = "ok" THEN [s EXCEPT !.read = "applied"]
    ELSE IF answer = "denied" THEN [clearToken(s) EXCEPT !.read = "idle"]
    ELSE [s EXCEPT !.read = "idle"]

AnswerRead(t) ==
    /\ Answers(t, "read")
    /\ Becomes(t, ReadAnswer(Taken(t, "read"), tab[t].req["read"]))
    /\ UNCHANGED <<session, channel, focus, events>>

\* The messages of the other tabs.
Received(s, type) ==
    IF type = "unlock"
    THEN IF s.locking \/ s.lockFailure THEN s
         ELSE revalidate([s EXCEPT !.remotePending = FALSE])
    ELSE [reset([s EXCEPT !.remotePending = type = "lock"]) EXCEPT
             !.lockShown = type # "locked", !.lockSeen = TRUE,
             !.lockFailure = IF type = "lock" THEN @ ELSE type = "lock-failed"]

receive(t) ==
    /\ tab[t].open /\ channel[t] # <<>>
    /\ Becomes(t, Received(tab[t], Head(channel[t])))
    /\ channel' = [channel EXCEPT ![t] = Tail(@)]
    /\ UNCHANGED <<session, focus, events>>

User(t) ==
    \/ PressAction(t) \/ CancelAction(t) \/ StartRead(t) \/ PressUnlock(t)
    \/ Submit(t) \/ ClosePrompt(t) \/ lock(t) \/ signOutViewing(t)
    \/ Blur(t) \/ Focus(t) \/ BackForward(t) \/ Close(t)

System(t) ==
    \/ \E kind \in Kinds : Serve(t, kind) \/ Lose(t, kind)
    \/ AnswerLogout(t) \/ AnswerSignOut(t) \/ AnswerVerify(t) \/ AnswerAccess(t)
    \/ AnswerStart(t) \/ AnswerAction(t) \/ AnswerRead(t) \/ receive(t) \/ ExpiryFires(t)

Next == SessionEnds \/ \E t \in Tabs : User(t) \/ System(t)

\* Every fetch ends, by its answer, by an error or by its time limit, and the
\* browser delivers its events.
Spec == Init /\ [][Next]_vars /\ \A t \in Tabs : WF_vars(System(t))

----------------------------------------------------------------------------
\* A management action runs at most once for a press, whatever is lost, denied,
\* retried or verified in between (docs/access-control.md, "executes the pending
\* action once"), and one whose prompt was closed, by the user, by a lock or by its
\* owner, was never run and never will be.
RunsOnce ==
    \A t \in Tabs : tab[t].ran <= 1 /\ (tab[t].act = "refused" => tab[t].ran = 0 /\ tab[t].req["action"] = "idle")

\* An answer of /api/access that was asked for before a lock gives no access after
\* it, not even when the lock is complete and nothing else speaks against it.
NoAccessAcrossLock ==
    [][\A t \in Tabs : ~tab[t].auth /\ tab'[t].auth /\ tab[t].req["access"] = "live"
          /\ tab'[t].req["access"] = "idle" => ~tab[t].lockSeen]_vars

\* Every waiter has its prompt, and a prompt somebody who waits.
PromptServes == \A t \in Tabs : tab[t].open => (tab[t].dialog <=> tab[t].waiters # {})

\* A tab that was told of a lock is told how it ended, unless the tab that locks
\* is closed before it can tell.
LocksResolve ==
    \A t \in Tabs : tab[t].remotePending ~>
        (~tab[t].remotePending \/ \E u \in Tabs : ~tab[u].open)

=============================================================================
