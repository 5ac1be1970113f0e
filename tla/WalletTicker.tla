---------------------------- MODULE WalletTicker ----------------------------
(***************************************************************************)
(* The wallet ticker of one page (wallets/ticker.js): its copy of the      *)
(* preferences, the edits it saves one after the other, and the balances   *)
(* it rotates.  The server is what the ticker sees of it: a choice with a  *)
(* revision, which other pages of the administrator change too.            *)
(*                                                                         *)
(* A choice is the set of wallets selected; unit, speed and pause are      *)
(* edited and saved the same way.  Requests are sent, served and answered  *)
(* in separate steps and may fail before or after they were served.  Every *)
(* change of management (core/admin-auth.js) has a revision of its own and *)
(* wipes the ticker; what was under way in an older generation may still   *)
(* reach the server, and its answer still comes.                           *)
(***************************************************************************)
EXTENDS Naturals, Sequences, FiniteSets, FiniteSetsExt

CONSTANTS Names,      \* the wallets, numbered in the order of their names
          Selections, \* the choices that are edited or saved elsewhere
          Balances,   \* the sets of wallets a read may find ready
          None,
          MaxEvents   \* bound: changes of management, edits, saves elsewhere, failures

ASSUME WalletTickerAssumption ==
    /\ Names \subseteq Nat /\ IsFiniteSet(Names) /\ None \notin Names
    /\ \A names \in SUBSET Names : names # None
    /\ Selections \subseteq SUBSET Names /\ Balances \subseteq SUBSET Names
    /\ MaxEvents \in Nat

VARIABLES c,         \* the ticker
          requests,  \* its requests, at most one of a kind in a generation
          log,       \* the server's choices; the last has revision Len(log) - 1
          events     \* changes of management, edits, saves elsewhere and failures so far

vars == <<c, requests, log, events>>

revisionNow == Len(log) - 1
choiceNow == log[Len(log)]

----------------------------------------------------------------------------
(* What is shown.                                                          *)

NoRows == [ready |-> {}, generation |-> 0]

\* readyWallets
available(s) == IF s.preferences = None THEN {} ELSE s.rows.ready \cap s.preferences

\* nextWallet without a direction: the current entry stays if it can.
nextWallet(names, current) ==
    IF names = {} THEN None ELSE IF current \in names THEN current ELSE Min(names)

\* nextWallet with direction 1: the wallet behind the current one, or the first.
following(names, current) ==
    LET later == {n \in names : n > current}
    IN  IF current \notin names THEN nextWallet(names, None)
        ELSE IF later = {} THEN Min(names) ELSE Min(later)

renderButton(s) == [s EXCEPT !.current = nextWallet(available(s), s.current)]

scheduleRotation(s) ==
    [s EXCEPT !.rotation = s.initialized /\ s.auth /\ ~s.hidden /\ s.preferences # None]

stopTimers(s) == [s EXCEPT !.poll = FALSE, !.rotation = FALSE]

closePopup(s) == [s EXCEPT !.popup = FALSE]

----------------------------------------------------------------------------
(* Requests.                                                               *)

\* A mutant of isCurrent: only the state of management is looked at.
isCurrentByState(s, r) == s.initialized /\ s.auth

isCurrent(s, r) == s.initialized /\ r.generation = s.generation /\ s.auth

Sent(s, kind, choice) ==
    [kind |-> kind, generation |-> s.generation, choice |-> choice,
     edit |-> IF kind = "wallets" THEN 0 ELSE s.edit, revision |-> 0, phase |-> "sent"]

Selects(s) == s.popup \/ s.preferences \notin {None, {}}

\* An evolving pair: the ticker and its requests.
readWallets(p) ==
    IF p.s.walletRead THEN p
    ELSE [s |-> [p.s EXCEPT !.walletRead = TRUE], rs |-> p.rs \cup {Sent(p.s, "wallets", None)}]

readPreferences(p) ==
    IF p.s.preferenceRead THEN p
    ELSE [s |-> [p.s EXCEPT !.preferenceRead = TRUE], rs |-> p.rs \cup {Sent(p.s, "preferences", None)}]

Active(s) == s.initialized /\ s.auth /\ ~s.hidden /\ ~s.masked

refresh(p) == IF Active(p.s) THEN readPreferences(p) ELSE p

\* What refresh does when the preferences have been read.
refreshWallets(p) == IF Active(p.s) /\ Selects(p.s) THEN readWallets(p) ELSE p

post(p) ==
    [s  |-> [p.s EXCEPT !.saving = TRUE, !.queued = None],
     rs |-> p.rs \cup {Sent(p.s, "save", p.s.queued)}]

\* The loop of queueSave after an answer: the next edit, or the end.
continueSaving(p) ==
    IF p.s.queued # None THEN post(p)
    ELSE LET ended == [p EXCEPT !.s.saving = FALSE]
         IN  IF Selects(ended.s) THEN readWallets(ended) ELSE ended

----------------------------------------------------------------------------
(* Generations.                                                            *)

wipe(s) ==
    renderButton([closePopup(stopTimers(s)) EXCEPT
        !.generation = @ + 1, !.preferences = None, !.committed = None, !.queued = None,
        !.preferenceRead = FALSE, !.walletRead = FALSE, !.saving = FALSE,
        !.revision = 0, !.edit = 0, !.rows = NoRows, !.wanted = None])

\* Management publishes a new state, under a new revision.
onManagement(p, auth) ==
    LET s == [wipe([p.s EXCEPT !.auth = auth]) EXCEPT !.masked = p.s.hidden]
    IN  IF auth /\ ~s.hidden
        THEN refresh([p EXCEPT !.s = scheduleRotation([s EXCEPT !.poll = TRUE])])
        ELSE [p EXCEPT !.s = s]

----------------------------------------------------------------------------
Here == [s |-> c, rs |-> requests]
Becomes(p) == c' = p.s /\ requests' = p.rs

\* The ticker is made before the page knows whether management is unlocked.
NewTicker ==
    [initialized |-> TRUE, auth |-> FALSE, hidden |-> FALSE, masked |-> FALSE, generation |-> 0,
     preferences |-> None, committed |-> None, queued |-> None, revision |-> 0, edit |-> 0,
     preferenceRead |-> FALSE, walletRead |-> FALSE, saving |-> FALSE,
     rows |-> NoRows, current |-> None, popup |-> FALSE, poll |-> FALSE, rotation |-> FALSE,
     wanted |-> None]  \* history: the choice of the latest edit

Init ==
    /\ c = NewTicker
    /\ requests = {}
    /\ log = <<{}>>
    /\ events = 0

Quietly == UNCHANGED <<log, events>>
Event == events < MaxEvents /\ events' = events + 1

\* An unlock, a lock, an expiry, or the two halves of a revalidation.
Manage(auth) ==
    /\ c.initialized
    /\ Event
    /\ Becomes(onManagement(Here, auth))
    /\ UNCHANGED log

\* visibilitychange.  On the way back revalidate withdraws access first, and
\* publishes that; what it learns comes as another change of management.
Hide ==
    /\ ~c.hidden /\ c.initialized
    /\ c' = renderButton(closePopup(stopTimers([c EXCEPT !.hidden = TRUE, !.masked = TRUE])))
    /\ UNCHANGED requests /\ Quietly

Reveal ==
    /\ c.hidden /\ c.initialized
    /\ LET s == renderButton([c EXCEPT !.hidden = FALSE, !.masked = TRUE])
       IN  \/ ~s.auth /\ Becomes([Here EXCEPT !.s = s]) /\ Quietly
           \/ s.auth /\ Becomes(onManagement([Here EXCEPT !.s = s], FALSE)) /\ Event /\ UNCHANGED log

\* pagehide of a hidden page: all is forgotten before the page is cached.
PageHide ==
    /\ c.hidden /\ c.initialized
    /\ Event
    /\ c' = [wipe(c) EXCEPT !.masked = TRUE]
    /\ UNCHANGED <<requests, log>>

\* The viewing role ends: the ticker is disposed of, with what it knew.
Dispose ==
    /\ c.initialized
    /\ Event
    /\ c' = wipe([c EXCEPT !.initialized = FALSE])
    /\ UNCHANGED <<requests, log>>

\* A click on the ticker while it is unlocked.
Click ==
    /\ ~c.hidden /\ c.auth /\ c.initialized
    /\ IF c.popup THEN Becomes([Here EXCEPT !.s = closePopup(c)])
       ELSE ~c.masked /\ Becomes(refresh([Here EXCEPT !.s = renderButton([c EXCEPT !.popup = TRUE])]))
    /\ Quietly

\* A wallet's box in the popup; one that is not ready can only be cleared.
Toggles(choice) ==
    /\ c.popup /\ c.preferences # None
    /\ \/ \E n \in c.preferences : choice = c.preferences \ {n}
       \/ \E n \in c.rows.ready \ c.preferences : choice = c.preferences \cup {n}

\* The edit is shown at once and saved in its turn (queueSave).
Edit(choice) ==
    /\ Toggles(choice)
    /\ Event
    /\ c.auth /\ c.committed # None
    /\ LET s == scheduleRotation(renderButton(
                    [c EXCEPT !.preferences = choice, !.queued = choice, !.edit = @ + 1, !.wanted = choice]))
       IN  Becomes(IF s.saving THEN [Here EXCEPT !.s = s] ELSE post([Here EXCEPT !.s = s]))
    /\ UNCHANGED log

\* A tick of the rotation.  Hovering, focus, pause and reduced motion suppress it.
Rotate ==
    /\ c.rotation /\ ~c.masked /\ ~c.popup
    /\ c' = [c EXCEPT !.current = following(available(c), @)]
    /\ UNCHANGED requests /\ Quietly

\* The Next button of the popup.
Step ==
    /\ c.popup /\ Cardinality(available(c)) > 1
    /\ c' = [c EXCEPT !.current = following(available(c), @)]
    /\ UNCHANGED requests /\ Quietly

Poll ==
    /\ c.poll
    /\ Becomes(refresh(Here))
    /\ Quietly

----------------------------------------------------------------------------
(* Answers.                                                                *)

\* Two mutants of preferencesRead: an answer of the revision known is dropped,
\* and an answer is taken over an edit.
preferencesReadNewer(s, r) ==
    IF ~isCurrent(s, r) \/ r.revision < s.revision \/ (s.committed # None /\ r.revision = s.revision) THEN s
    ELSE scheduleRotation(renderButton(
            [s EXCEPT !.revision = r.revision, !.committed = r.choice,
                      !.preferences = IF ~s.saving /\ r.edit = s.edit THEN r.choice ELSE @]))
preferencesReadOver(s, r) ==
    IF ~isCurrent(s, r) \/ r.revision < s.revision THEN s
    ELSE scheduleRotation(renderButton(
            [s EXCEPT !.revision = r.revision, !.committed = r.choice, !.preferences = r.choice]))

\* The branch of readPreferences for an answer.
preferencesRead(s, r) ==
    IF ~isCurrent(s, r) \/ r.revision < s.revision THEN s
    ELSE scheduleRotation(renderButton(
            [s EXCEPT !.revision = r.revision, !.committed = r.choice,
                      !.preferences = IF ~s.saving /\ r.edit = s.edit THEN r.choice ELSE @]))

\* The balances are withdrawn when a read fails.
unavailable(s, r) ==
    IF ~isCurrent(s, r) THEN s ELSE renderButton([s EXCEPT !.rows = NoRows])

walletsRead(s, r, ready) ==
    IF ~isCurrent(s, r) THEN s
    ELSE renderButton([s EXCEPT !.rows = [ready |-> ready, generation |-> r.generation]])

\* What an answer to a save leaves: the committed choice, unless a newer edit waits.
reconcile(s, r) == IF r.edit = s.edit THEN [s EXCEPT !.preferences = s.committed] ELSE s

saved(s, r) ==
    LET known == IF r.phase = "back" /\ r.revision >= s.revision
                 THEN [s EXCEPT !.revision = r.revision, !.committed = r.choice] ELSE s
    IN  scheduleRotation(renderButton(reconcile(known, r)))

\* finally: only the generation that began a read ends it.
endsRead(s, r, read) == IF r.generation = s.generation THEN [s EXCEPT ![read] = FALSE] ELSE s

\* A page's request is served, once.  When balances were read makes no difference.
Serve(r) ==
    /\ r.phase = "sent"
    /\ \/ /\ r.kind = "preferences"
          /\ requests' = (requests \ {r}) \cup
                 {[r EXCEPT !.phase = "back", !.revision = revisionNow, !.choice = choiceNow]}
          /\ UNCHANGED log
       \/ /\ r.kind = "save"
          /\ log' = Append(log, r.choice)
          /\ requests' = (requests \ {r}) \cup {[r EXCEPT !.phase = "back", !.revision = revisionNow + 1]}
    /\ UNCHANGED <<c, events>>

\* A request or its answer is lost, refused, or takes longer than 20 seconds.
\* A failure of an older generation is an answer that is ignored, as all are.
Fail(r) ==
    /\ r.phase \in {"sent", "back"} /\ isCurrent(c, r)
    /\ Event
    /\ requests' = (requests \ {r}) \cup {[r EXCEPT !.phase = "failed", !.choice = None, !.revision = 0]}
    /\ UNCHANGED <<c, log>>

Deliver(r) ==
    /\ r.phase = "failed" \/ r.phase = (IF r.kind = "wallets" THEN "sent" ELSE "back")
    /\ LET gone == [Here EXCEPT !.rs = @ \ {r}]
       IN  \/ /\ r.kind = "preferences" /\ r.phase = "back"
              /\ Becomes(refreshWallets([gone EXCEPT !.s = endsRead(preferencesRead(c, r), r, "preferenceRead")]))
           \/ /\ r.kind = "preferences" /\ r.phase = "failed"
              /\ Becomes([gone EXCEPT !.s = endsRead(unavailable(c, r), r, "preferenceRead")])
           \/ /\ r.kind = "wallets" /\ r.phase = "sent"
              /\ \E ready \in Balances :
                    Becomes([gone EXCEPT !.s = endsRead(walletsRead(c, r, ready), r, "walletRead")])
           \/ /\ r.kind = "wallets" /\ r.phase = "failed"
              /\ Becomes([gone EXCEPT !.s = endsRead(unavailable(c, r), r, "walletRead")])
           \/ /\ r.kind = "save"
              /\ Becomes(IF isCurrent(c, r) THEN continueSaving([gone EXCEPT !.s = saved(c, r)]) ELSE gone)
    /\ Quietly

\* Another page of the administrator saves.
OtherSaves(choice) ==
    /\ Event
    /\ log' = Append(log, choice)
    /\ UNCHANGED <<c, requests>>

Next ==
    \/ \E auth \in BOOLEAN : Manage(auth)
    \/ Hide \/ Reveal \/ PageHide \/ Dispose \/ Click \/ Rotate \/ Step \/ Poll
    \/ \E choice \in Selections : Edit(choice) \/ OtherSaves(choice)
    \/ \E r \in requests : Serve(r) \/ Fail(r) \/ Deliver(r)

\* The server answers about preferences, answers arrive, and the poll fires.  A
\* request can always be served or delivered, so its presence stands for ENABLED.
Moves(kind) == \E r \in requests : r.kind = kind /\ r \notin requests'
Fairness ==
    /\ \A kind \in {"preferences", "save"} :
          []<>(~\E r \in requests : r.kind = kind) \/ []<><<Moves(kind)>>_vars
    /\ WF_vars(Poll)

Spec == Init /\ [][Next]_vars /\ Fairness

----------------------------------------------------------------------------
Choice == (SUBSET Names) \cup {None}

TypeOK ==
    /\ c.preferences \in Choice /\ c.committed \in Choice /\ c.queued \in Choice /\ c.wanted \in Choice
    /\ c.current \in Names \cup {None}
    /\ c.rows.ready \subseteq Names
    /\ \A r \in requests : r.phase \in {"sent", "back", "failed"} /\ r.generation <= c.generation
    /\ \A r, q \in requests : r.kind = q.kind /\ r.generation = q.generation => r = q

\* While an edit is on its way the user sees the latest one, whatever answers
\* come in between; afterwards the ticker shows nothing that is not committed:
\* the server's choice of the revision it knows, or an earlier one when the read
\* of that revision had begun before an edit and so was not shown (queueSave).
EditsReconcile ==
    /\ c.saving => c.preferences = c.wanted
    /\ ~c.saving /\ c.preferences # None =>
          \E i \in 1..(c.revision + 1) : c.preferences = log[i]
    /\ c.committed # None => c.committed = log[c.revision + 1]

\* Balances, choices and the popup exist only while management is unlocked, and
\* only of the generation that is: no answer of an earlier one brings them back.
\* A hidden page has neither a popup nor a timer (docs/access-control.md).
PrivateWhileUnlocked ==
    /\ c.rows.ready # {} => c.auth /\ c.rows.generation = c.generation
    /\ c.preferences # None => c.auth
    /\ c.popup \/ c.poll \/ c.rotation => c.initialized /\ c.auth /\ ~c.hidden
    /\ c.current # None => c.current \in available(c)

\* A ticker that stays unlocked and visible comes to show the server's choice,
\* also after a save that failed, one that was stored though it seemed to fail,
\* and the edits of other pages.
Converges ==
    <>[](c.initialized /\ c.auth /\ ~c.hidden) => <>[](c.preferences = choiceNow)
=============================================================================
