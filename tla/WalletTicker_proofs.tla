------------------------- MODULE WalletTicker_proofs -------------------------
(***************************************************************************)
(* Proofs about WalletTicker, for any wallets and any number of edits,     *)
(* saves elsewhere, failures and changes of management.                    *)
(*                                                                         *)
(* A handler turns a ticker with its requests into the next ones.  Sound   *)
(* says of such a pair what the invariant says of the state, and there is  *)
(* a lemma for each handler.  Between two saves, in the loop of queueSave, *)
(* the pair is not sound: the request has ended and the flag still stands. *)
(* Between says what holds there.                                          *)
(*                                                                         *)
(* The last part shows that nothing is waited for that is not under way,   *)
(* and that the latest edit is never the one that is forgotten.            *)
(***************************************************************************)
EXTENDS WalletTicker, WellFoundedInduction, TLAPS

\* The types of a ticker and of its requests.
Chosen == SUBSET Names
Tickers == [initialized : BOOLEAN, auth : BOOLEAN, hidden : BOOLEAN, masked : BOOLEAN,
            generation : Nat, preferences : Choice, committed : Choice, queued : Choice,
            revision : Nat, edit : Nat, preferenceRead : BOOLEAN, walletRead : BOOLEAN,
            saving : BOOLEAN, rows : [ready : Chosen, generation : Nat],
            current : Names \cup {None}, popup : BOOLEAN, poll : BOOLEAN, rotation : BOOLEAN,
            wanted : Choice]
TickerRequests ==
    [kind : {"wallets", "preferences", "save"}, generation : Nat, choice : Choice,
     edit : Nat, revision : Nat, phase : {"sent", "back", "failed"}]

\* What is private goes with its generation, and the timers with the access.
Withdrawn(s) ==
    /\ s.rows.ready # {} => s.auth /\ s.rows.generation = s.generation
    /\ s.preferences # None => s.auth
    /\ s.popup \/ s.poll \/ s.rotation => s.initialized /\ s.auth /\ ~s.hidden

\* With that, what is shown is one of the wallets that are.
Private(s) ==
    /\ Withdrawn(s)
    /\ s.current # None => s.current \in available(s)

\* The edits and the server's choices: what is wanted is shown while it is being
\* saved, and otherwise a choice the server has had up to the revision known.
Reconciled(s, choices) ==
    /\ s.saving => s.preferences = s.wanted
    /\ ~s.saving /\ s.preferences # None =>
          \E i \in 1..(s.revision + 1) : s.preferences = choices[i]
    /\ s.committed # None => s.committed = choices[s.revision + 1]
    /\ s.revision + 1 <= Len(choices)
    /\ ~s.saving => s.queued = None

\* A request of the current generation is the one the ticker waits for; a save
\* is that of the latest edit exactly while no other edit is queued.
Busy(s, kind) ==
    \/ kind = "wallets" /\ s.walletRead
    \/ kind = "preferences" /\ s.preferenceRead
    \/ kind = "save" /\ s.saving

Matched(s, r) ==
    /\ r.generation <= s.generation
    /\ r.generation = s.generation => Busy(s, r.kind)
    /\ r.generation = s.generation /\ r.kind = "save" =>
          r.edit <= s.edit /\ (r.edit = s.edit <=> s.queued = None)

\* No two requests of a kind in a generation.
Alone(rs) == \A r, q \in rs : r.kind = q.kind /\ r.generation = q.generation => r = q

\* An answer says what the server's choice was; a save has one to tell.
Truthful(r, choices) ==
    /\ r.phase = "back" => r.revision + 1 <= Len(choices) /\ r.choice = choices[r.revision + 1]
    /\ r.kind = "save" /\ r.phase = "sent" => r.choice # None

\* The requests fit their ticker.
Carried(s, rs) ==
    /\ \A r \in rs : r \in TickerRequests /\ Matched(s, r)
    /\ Alone(rs)

\* A ticker, its requests and the server's choices fit together.
Sound(s, rs, choices) ==
    /\ s \in Tickers /\ Private(s) /\ Reconciled(s, choices) /\ Carried(s, rs)
    /\ \A r \in rs : Truthful(r, choices)

\* The server has had some choice, and only choices of wallets.
Recorded(choices) == choices \in Seq(Chosen) /\ Len(choices) > 0

IInv == Recorded(log) /\ Sound(c, requests, log)

-----------------------------------------------------------------------------
\* The order of the natural numbers, as a relation.
Less == {pair \in Nat \X Nat : pair[1] < pair[2]}

\* The smallest of some numbers, which there is as their order is well-founded.
LEMMA MinIsMember ==
    ASSUME NEW T \in SUBSET Nat, T # {}
    PROVE  Min(T) \in T
<1>1. IsWellFoundedOn(Less, Nat)
  BY NatLessThanWellFounded DEF OpToRel, Less
<1>2. PICK x \in T : \A y \in T : ~(<<y, x>> \in Less)
  BY <1>1, WFMin
<1>3. ASSUME NEW y \in T PROVE x <= y
  <2>1. ~(y < x)
    BY <1>2 DEF Less
  <2>. QED BY <2>1
<1>. QED BY <1>3 DEF Min

\* The wallet shown next is one of those there are.
LEMMA NextIsShown ==
    ASSUME NEW names \in SUBSET Names, NEW current \in Names \cup {None}
    PROVE  /\ nextWallet(names, current) \in names \cup {None}
           /\ following(names, current) \in names \cup {None}
<1>1. Names \subseteq Nat /\ None \notin Names
  BY WalletTickerAssumption
<1>2. \A T \in SUBSET names : T # {} => Min(T) \in T
  BY <1>1, MinIsMember
<1>3. nextWallet(names, current) \in names \cup {None} /\ nextWallet(names, None) \in names \cup {None}
  BY <1>2 DEF nextWallet
<1> DEFINE later == {n \in names : n > current}
<1>4. later \in SUBSET names
  OBVIOUS
<1>5. following(names, current) = IF current \notin names THEN nextWallet(names, None)
                                  ELSE IF later = {} THEN Min(names) ELSE Min(later)
  BY DEF following
<1> HIDE DEF later
<1>6. later # {} => Min(later) \in names
  BY <1>2, <1>4
<1>. QED BY <1>2, <1>3, <1>5, <1>6

\* All of a ticker but what it shows and its timers.
SameWork(s, t) ==
    /\ t.initialized = s.initialized /\ t.auth = s.auth /\ t.hidden = s.hidden
    /\ t.generation = s.generation /\ t.preferences = s.preferences
    /\ t.committed = s.committed /\ t.queued = s.queued /\ t.wanted = s.wanted
    /\ t.revision = s.revision /\ t.edit = s.edit /\ t.preferenceRead = s.preferenceRead
    /\ t.walletRead = s.walletRead /\ t.saving = s.saving

\* The wallets that can be shown are wallets.
LEMMA AvailableAreNames ==
    ASSUME NEW s \in Tickers
    PROVE  available(s) \in SUBSET Names
<1>1. s.rows \in [ready : Chosen, generation : Nat] /\ s.preferences \in Choice
  BY DEF Tickers
<1>2. s.rows.ready \in SUBSET Names
  BY <1>1 DEF Chosen
<1>. QED BY <1>2 DEF available

\* What is shown is shown again: the current wallet is one that is available.
LEMMA RenderPrivate ==
    ASSUME NEW s \in Tickers, NEW t, t = renderButton(s)
    PROVE  /\ t \in Tickers /\ SameWork(s, t) /\ t.rows = s.rows /\ t.masked = s.masked
           /\ t.popup = s.popup /\ t.poll = s.poll /\ t.rotation = s.rotation
           /\ Withdrawn(s) => Private(t)
<1> DEFINE n == nextWallet(available(s), s.current)
<1>1. available(s) \in SUBSET Names /\ s.current \in Names \cup {None}
  BY AvailableAreNames DEF Tickers
<1>2. n \in available(s) \cup {None}
  BY <1>1, NextIsShown
<1>3. n \in Names \cup {None}
  BY <1>1, <1>2
<1>4. t = [s EXCEPT !.current = n]
  BY DEF renderButton
<1> HIDE DEF n
<1>5. t \in Tickers
  BY <1>3, <1>4 DEF Tickers
<1>6. /\ SameWork(s, t) /\ t.rows = s.rows /\ t.masked = s.masked
      /\ t.popup = s.popup /\ t.poll = s.poll /\ t.rotation = s.rotation /\ t.current = n
  BY <1>4 DEF Tickers, SameWork
<1>7. available(t) = available(s)
  BY <1>6 DEF available, SameWork
<1>8. Withdrawn(s) => Withdrawn(t)
  BY <1>6 DEF Withdrawn, SameWork
<1>. QED BY <1>2, <1>5, <1>6, <1>7, <1>8 DEF Private

\* The rotation runs only on a page that is looked at and unlocked.
LEMMA RotationPrivate ==
    ASSUME NEW s \in Tickers, NEW t, t = scheduleRotation(s)
    PROVE  /\ t \in Tickers /\ SameWork(s, t) /\ t.rows = s.rows /\ t.masked = s.masked
           /\ t.current = s.current /\ t.popup = s.popup
           /\ Withdrawn(s) => Withdrawn(t)
           /\ Private(s) => Private(t)
<1> DEFINE b == s.initialized /\ s.auth /\ ~s.hidden /\ s.preferences # None
<1>1. t = [s EXCEPT !.rotation = b]
  BY DEF scheduleRotation
<1>2. b \in BOOLEAN
  OBVIOUS
<1> HIDE DEF b
<1>3. t \in Tickers
  BY <1>1, <1>2 DEF Tickers
<1>4. /\ SameWork(s, t) /\ t.rows = s.rows /\ t.masked = s.masked /\ t.current = s.current
      /\ t.popup = s.popup /\ t.poll = s.poll /\ t.rotation = b
  BY <1>1 DEF Tickers, SameWork
<1>5. available(t) = available(s)
  BY <1>4 DEF available, SameWork
<1>6. Withdrawn(s) => Withdrawn(t)
  BY <1>4 DEF Withdrawn, SameWork, b
<1>. QED BY <1>3, <1>4, <1>5, <1>6 DEF Private

\* Without its timers and popup a page keeps what it shows.
LEMMA StoppedPrivate ==
    ASSUME NEW s \in Tickers, NEW t, t = closePopup(s) \/ t = closePopup(stopTimers(s))
    PROVE  /\ t \in Tickers /\ SameWork(s, t) /\ t.rows = s.rows /\ t.masked = s.masked
           /\ t.current = s.current /\ t.popup = FALSE
           /\ Withdrawn(s) => Withdrawn(t)
           /\ Private(s) => Private(t)
           /\ t = closePopup(stopTimers(s)) => ~t.poll /\ ~t.rotation
<1>1. \/ t = [s EXCEPT !.popup = FALSE]
      \/ t = [s EXCEPT !.popup = FALSE, !.poll = FALSE, !.rotation = FALSE]
  BY DEF closePopup, stopTimers, Tickers
<1>2. t \in Tickers
  BY <1>1 DEF Tickers
<1>3. /\ SameWork(s, t) /\ t.rows = s.rows /\ t.masked = s.masked /\ t.current = s.current
      /\ ~t.popup /\ (t.poll => s.poll) /\ (t.rotation => s.rotation)
  BY <1>1 DEF Tickers, SameWork
<1>7. t = closePopup(stopTimers(s)) => ~t.poll /\ ~t.rotation
  BY DEF closePopup, stopTimers, Tickers
<1>5. available(t) = available(s)
  BY <1>3 DEF available, SameWork
<1>6. Withdrawn(s) => Withdrawn(t)
  BY <1>3 DEF Withdrawn, SameWork
<1>. QED BY <1>2, <1>3, <1>5, <1>6, <1>7 DEF Private

\* A wipe begins a generation that knows nothing and has asked nothing.
Wiped(s) ==
    /\ s.preferences = None /\ s.committed = None /\ s.queued = None
    /\ ~s.preferenceRead /\ ~s.walletRead /\ ~s.saving /\ s.revision = 0 /\ s.edit = 0

\* A wipe ends the timers and forgets everything private.
LEMMA WipePrivate ==
    ASSUME NEW s \in Tickers, NEW t, t = wipe(s)
    PROVE  /\ t \in Tickers /\ Private(t) /\ Wiped(t) /\ t.generation = s.generation + 1
           /\ t.initialized = s.initialized /\ t.auth = s.auth /\ t.hidden = s.hidden
           /\ ~t.popup /\ ~t.poll /\ ~t.rotation
<1> DEFINE u == closePopup(stopTimers(s))
           w == [u EXCEPT
                    !.generation = @ + 1, !.preferences = None, !.committed = None, !.queued = None,
                    !.preferenceRead = FALSE, !.walletRead = FALSE, !.saving = FALSE,
                    !.revision = 0, !.edit = 0, !.rows = NoRows, !.wanted = None]
<1>1. u \in Tickers /\ SameWork(s, u) /\ ~u.popup /\ ~u.poll /\ ~u.rotation
  BY StoppedPrivate
<1>2. t = renderButton(w)
  BY DEF wipe
<1> HIDE DEF u
<1>3. NoRows \in [ready : Chosen, generation : Nat] /\ None \in Choice
  BY DEF NoRows, Chosen, Choice
<1>4. u.generation + 1 \in Nat
  BY <1>1 DEF Tickers
<1>5. w \in Tickers
  BY <1>1, <1>3, <1>4 DEF Tickers
<1>6. /\ Wiped(w) /\ w.generation = s.generation + 1 /\ w.rows = NoRows
      /\ w.initialized = s.initialized /\ w.auth = s.auth /\ w.hidden = s.hidden
      /\ ~w.popup /\ ~w.poll /\ ~w.rotation
  BY <1>1 DEF Tickers, Wiped, SameWork
<1> HIDE DEF w
<1>7. Withdrawn(w)
  BY <1>6 DEF Withdrawn, Wiped, NoRows
<1>8. /\ t \in Tickers /\ SameWork(w, t) /\ Private(t)
      /\ t.popup = w.popup /\ t.poll = w.poll /\ t.rotation = w.rotation
  BY <1>2, <1>5, <1>7, RenderPrivate
<1>. QED BY <1>6, <1>8 DEF SameWork, Wiped

\* What is under way belongs to an older generation then.
LEMMA WipedSound ==
    ASSUME NEW choices, Recorded(choices), NEW s, NEW rs, Sound(s, rs, choices),
           NEW t \in Tickers, Private(t), Wiped(t), t.generation > s.generation
    PROVE  Sound(t, rs, choices)
<1>1. Reconciled(t, choices)
  BY DEF Recorded, Wiped, Reconciled
<1>2. s.generation \in Nat /\ t.generation \in Nat
  BY DEF Sound, Tickers
<1>3. ASSUME NEW r \in rs PROVE Matched(t, r)
  <2>1. r.generation \in Nat /\ r.generation <= s.generation
    BY DEF Sound, Carried, Matched, TickerRequests
  <2>. QED BY <1>2, <2>1 DEF Matched
<1>. QED BY <1>1, <1>3 DEF Sound, Carried

\* What is shown and the timers do not matter to requests and choices.
LEMMA SameWorkSound ==
    ASSUME NEW choices, NEW s, NEW rs, Reconciled(s, choices), Carried(s, rs),
           NEW t, SameWork(s, t)
    PROVE  Reconciled(t, choices) /\ Carried(t, rs)
<1>1. Reconciled(t, choices)
  BY DEF Reconciled, SameWork
<1>2. \A r : Matched(s, r) => Matched(t, r)
  BY DEF Matched, Busy, SameWork
<1>. QED BY <1>1, <1>2 DEF Carried

-----------------------------------------------------------------------------
\* Sending a request, of a kind that is not waited for, for a ticker that is
\* about to wait for it.
LEMMA SentAlone ==
    ASSUME NEW s \in Tickers, NEW rs, Carried(s, rs),
           NEW kind \in {"wallets", "preferences", "save"}, ~Busy(s, kind),
           NEW choice \in Choice,
           NEW t, t.generation = s.generation, Busy(t, kind),
           \A other \in {"wallets", "preferences", "save"} : Busy(s, other) => Busy(t, other),
           kind = "save" => t.queued = None /\ t.edit = s.edit,
           kind # "save" => t.queued = s.queued /\ t.edit = s.edit
    PROVE  /\ Carried(t, rs \cup {Sent(s, kind, choice)})
           /\ \A choices : choice # None => Truthful(Sent(s, kind, choice), choices)
           /\ \A choices : kind # "save" => Truthful(Sent(s, kind, choice), choices)
<1> DEFINE new == Sent(s, kind, choice)
<1>1. s.generation \in Nat /\ s.edit \in Nat
  BY DEF Tickers
<1>2. /\ new \in TickerRequests /\ new.kind = kind /\ new.generation = s.generation
      /\ new.choice = choice /\ new.phase = "sent" /\ (kind = "save" => new.edit = s.edit)
  BY <1>1 DEF Sent, TickerRequests
<1> HIDE DEF new
<1>3. Matched(t, new)
  BY <1>1, <1>2 DEF Matched
<1>4. \A r \in rs : r.kind \in {"wallets", "preferences", "save"}
  BY DEF Carried, TickerRequests
<1>5. \A r \in rs : ~(r.kind = kind /\ r.generation = s.generation)
  BY DEF Carried, Matched
<1>6. ASSUME NEW r \in rs PROVE Matched(t, r)
  <2>1. Matched(s, r)
    BY DEF Carried
  <2>. QED BY <1>4, <1>5, <2>1 DEF Matched
<1>7. Alone(rs \cup {new})
  BY <1>2, <1>5 DEF Carried, Alone
<1>8. \A choices : choice # None \/ kind # "save" => Truthful(new, choices)
  BY <1>2 DEF Truthful
<1>. QED BY <1>2, <1>3, <1>6, <1>7, <1>8 DEF Carried, new

\* A ticker with its requests, as the handlers pass it on.
SoundPair(p, choices) == p = [s |-> p.s, rs |-> p.rs] /\ Sound(p.s, p.rs, choices)

\* A read that is sent when none is under way.
LEMMA ReadSound ==
    ASSUME NEW choices, NEW p, SoundPair(p, choices), NEW q,
           q = readWallets(p) \/ q = readPreferences(p)
    PROVE  SoundPair(q, choices) /\ q.s.preferences = p.s.preferences /\ q.s.saving = p.s.saving
<1> DEFINE s == p.s
           kind == IF q = readWallets(p) THEN "wallets" ELSE "preferences"
           t == IF q = readWallets(p) THEN [s EXCEPT !.walletRead = TRUE]
                ELSE [s EXCEPT !.preferenceRead = TRUE]
<1>1. s \in Tickers /\ Private(s) /\ Reconciled(s, choices) /\ Carried(s, p.rs)
  BY DEF SoundPair, Sound
<1>2. CASE q = p
  BY <1>2
<1>3. CASE q # p
  <2>1. /\ q = [s |-> t, rs |-> p.rs \cup {Sent(s, kind, None)}]
        /\ ~Busy(s, kind)
    BY <1>3 DEF readWallets, readPreferences, Busy
  <2>2. t \in Tickers
    BY <1>1 DEF Tickers
  <2>3. /\ t.initialized = s.initialized /\ t.auth = s.auth /\ t.hidden = s.hidden
        /\ t.generation = s.generation /\ t.preferences = s.preferences
        /\ t.committed = s.committed /\ t.queued = s.queued /\ t.wanted = s.wanted
        /\ t.revision = s.revision /\ t.edit = s.edit /\ t.saving = s.saving
        /\ t.rows = s.rows /\ t.current = s.current
        /\ t.popup = s.popup /\ t.poll = s.poll /\ t.rotation = s.rotation
    BY <1>1 DEF Tickers
  <2>4. \A other \in {"wallets", "preferences", "save"} : Busy(s, other) => Busy(t, other)
    BY <1>1 DEF Tickers, Busy
  <2>5. Busy(t, kind) /\ kind \in {"wallets", "preferences", "save"} /\ kind # "save"
    BY <1>1 DEF Tickers, Busy
  <2> HIDE DEF s, t, kind
  <2>6. None \in Choice
    BY DEF Choice
  <2>7. /\ Carried(t, p.rs \cup {Sent(s, kind, None)})
        /\ Truthful(Sent(s, kind, None), choices)
    BY <1>1, <2>1, <2>3, <2>4, <2>5, <2>6, SentAlone
  <2>8. available(t) = available(s)
    BY <2>3 DEF available
  <2>9. Private(t)
    BY <1>1, <2>3, <2>8 DEF Private, Withdrawn
  <2>10. Reconciled(t, choices)
    BY <1>1, <2>3 DEF Reconciled
  <2>11. \A r \in p.rs : Truthful(r, choices)
    BY DEF SoundPair, Sound
  <2>12. Sound(t, p.rs \cup {Sent(s, kind, None)}, choices)
    BY <2>2, <2>7, <2>9, <2>10, <2>11 DEF Sound
  <2>13. q.s = t /\ q.rs = p.rs \cup {Sent(s, kind, None)} /\ q = [s |-> q.s, rs |-> q.rs]
    BY <2>1
  <2>. QED BY <2>3, <2>12, <2>13 DEF SoundPair, s
<1>. QED BY <1>2, <1>3

\* Refreshing sends a read or nothing.
LEMMA RefreshSound ==
    ASSUME NEW choices, NEW p, SoundPair(p, choices)
    PROVE  SoundPair(refresh(p), choices) /\ SoundPair(refreshWallets(p), choices)
BY ReadSound DEF refresh, refreshWallets

-----------------------------------------------------------------------------
\* Between two saves: no save of this generation is under way; an edit that is
\* queued is what is shown, and without one what is shown has been committed.
Between(s, rs, choices) ==
    /\ s \in Tickers /\ Private(s)
    /\ s.revision + 1 <= Len(choices)
    /\ s.committed # None => s.committed = choices[s.revision + 1]
    /\ s.queued # None => s.preferences = s.wanted
    /\ s.queued = None /\ s.preferences # None =>
          \E i \in 1..(s.revision + 1) : s.preferences = choices[i]
    /\ \A r \in rs : /\ r \in TickerRequests /\ r.generation <= s.generation
                     /\ r.generation = s.generation => r.kind # "save" /\ Busy(s, r.kind)
    /\ Alone(rs)
    /\ \A r \in rs : Truthful(r, choices)

\* The next edit is posted.
LEMMA PostSound ==
    ASSUME NEW choices, NEW p, p = [s |-> p.s, rs |-> p.rs], Between(p.s, p.rs, choices),
           p.s.queued # None
    PROVE  SoundPair(post(p), choices)
<1> DEFINE s == p.s
           idle == [s EXCEPT !.saving = FALSE]
           t == [s EXCEPT !.saving = TRUE, !.queued = None]
           rs == p.rs \cup {Sent(s, "save", s.queued)}
<1>1. s \in Tickers /\ s.queued \in Choice /\ None \in Choice
  BY DEF Between, Tickers, Choice
<1>2. post(p) = [s |-> t, rs |-> rs]
  BY DEF post
<1>3. t \in Tickers /\ idle \in Tickers
  BY <1>1 DEF Tickers
<1>4. /\ t.initialized = s.initialized /\ t.auth = s.auth /\ t.hidden = s.hidden
      /\ t.generation = s.generation /\ t.preferences = s.preferences
      /\ t.committed = s.committed /\ t.queued = None /\ t.wanted = s.wanted
      /\ t.revision = s.revision /\ t.edit = s.edit /\ t.saving
      /\ t.rows = s.rows /\ t.current = s.current
      /\ t.popup = s.popup /\ t.poll = s.poll /\ t.rotation = s.rotation
  BY <1>1 DEF Tickers
<1>5. /\ idle.generation = s.generation /\ idle.edit = s.edit /\ ~Busy(idle, "save")
      /\ \A kind \in {"wallets", "preferences"} : Busy(idle, kind) <=> Busy(s, kind)
      /\ \A kind \in {"wallets", "preferences"} : Busy(t, kind) <=> Busy(s, kind)
      /\ Busy(t, "save")
  BY <1>1 DEF Tickers, Busy
<1>6. Sent(s, "save", s.queued) = Sent(idle, "save", s.queued)
  BY <1>5 DEF Sent
<1> HIDE DEF s, t, idle
<1>7. Carried(idle, p.rs)
  <2>1. ASSUME NEW r \in p.rs PROVE r \in TickerRequests /\ Matched(idle, r)
    <3>1. /\ r \in TickerRequests /\ r.generation <= s.generation
          /\ r.generation = s.generation => r.kind # "save" /\ Busy(s, r.kind)
      BY DEF Between, s
    <3>2. r.kind \in {"wallets", "preferences", "save"}
      BY <3>1 DEF TickerRequests
    <3>. QED BY <1>5, <3>1, <3>2 DEF Matched
  <2>. QED BY <2>1 DEF Carried, Between
<1>8. \A other \in {"wallets", "preferences", "save"} : Busy(idle, other) => Busy(t, other)
  BY <1>5
<1>9. /\ Carried(t, p.rs \cup {Sent(idle, "save", s.queued)})
      /\ Truthful(Sent(idle, "save", s.queued), choices)
  <2>1. "save" \in {"wallets", "preferences", "save"} /\ t.generation = idle.generation /\ t.edit = idle.edit
    BY <1>4, <1>5
  <2>. QED BY <1>1, <1>3, <1>4, <1>5, <1>7, <1>8, <2>1, SentAlone DEF s
<1>10. Private(t)
  <2>1. available(t) = available(s)
    BY <1>4 DEF available
  <2>. QED BY <1>4, <2>1 DEF Private, Withdrawn, Between, s
<1>11. Reconciled(t, choices)
  BY <1>4 DEF Between, Reconciled, s
<1>12. Sound(t, rs, choices)
  BY <1>3, <1>6, <1>9, <1>10, <1>11 DEF Sound, Between
<1>. QED BY <1>2, <1>12 DEF SoundPair

\* The loop of queueSave goes on.
LEMMA ContinueSound ==
    ASSUME NEW choices, NEW p, p = [s |-> p.s, rs |-> p.rs], Between(p.s, p.rs, choices)
    PROVE  SoundPair(continueSaving(p), choices)
<1>1. CASE p.s.queued # None
  BY <1>1, PostSound DEF continueSaving
<1>2. CASE p.s.queued = None
  <2> DEFINE s == p.s
             t == [s EXCEPT !.saving = FALSE]
             ended == [p EXCEPT !.s.saving = FALSE]
  <2>1. s \in Tickers
    BY DEF Between
  <2>2. ended = [s |-> t, rs |-> p.rs]
    <3> DEFINE new == [p.s EXCEPT !.saving = FALSE]
    <3>1. ended = [p EXCEPT !.s = new]
      OBVIOUS
    <3> HIDE DEF ended, new
    <3>2. [p EXCEPT !.s = new] = [s |-> new, rs |-> p.rs]
      OBVIOUS
    <3>. QED BY <3>1, <3>2 DEF new
  <2>3. t \in Tickers
    BY <2>1 DEF Tickers
  <2>4. /\ t.initialized = s.initialized /\ t.auth = s.auth /\ t.hidden = s.hidden
        /\ t.generation = s.generation /\ t.preferences = s.preferences
        /\ t.committed = s.committed /\ t.queued = s.queued /\ t.wanted = s.wanted
        /\ t.revision = s.revision /\ t.edit = s.edit /\ ~t.saving
        /\ t.rows = s.rows /\ t.current = s.current
        /\ t.popup = s.popup /\ t.poll = s.poll /\ t.rotation = s.rotation
        /\ \A kind \in {"wallets", "preferences"} : Busy(t, kind) <=> Busy(s, kind)
    BY <2>1 DEF Tickers, Busy
  <2> HIDE DEF s, t
  <2>5. Carried(t, p.rs)
    <3>1. ASSUME NEW r \in p.rs PROVE r \in TickerRequests /\ Matched(t, r)
      <4>1. /\ r \in TickerRequests /\ r.generation <= s.generation
            /\ r.generation = s.generation => r.kind # "save" /\ Busy(s, r.kind)
        BY DEF Between, s
      <4>2. r.kind \in {"wallets", "preferences", "save"}
        BY <4>1 DEF TickerRequests
      <4>. QED BY <2>4, <4>1, <4>2 DEF Matched
    <3>. QED BY <3>1 DEF Carried, Between
  <2>6. Private(t)
    <3>1. available(t) = available(s)
      BY <2>4 DEF available
    <3>. QED BY <2>4, <3>1 DEF Private, Withdrawn, Between, s
  <2>7. Reconciled(t, choices)
    BY <1>2, <2>4 DEF Between, Reconciled, s
  <2>8. Sound(t, p.rs, choices)
    BY <2>3, <2>5, <2>6, <2>7 DEF Sound, Between
  <2>9. SoundPair(ended, choices)
    BY <2>2, <2>8 DEF SoundPair
  <2>10. continueSaving(p) = IF Selects(ended.s) THEN readWallets(ended) ELSE ended
    BY <1>2 DEF continueSaving
  <2> HIDE DEF ended
  <2>. QED BY <2>9, <2>10, ReadSound
<1>. QED BY <1>1, <1>2

-----------------------------------------------------------------------------
\* A change of management wipes the ticker, and may refresh the new generation.
LEMMA ManagementWipes ==
    ASSUME NEW p, p = [s |-> p.s, rs |-> p.rs], NEW auth \in BOOLEAN,
           p.s \in Tickers, p.s.initialized
    PROVE  \E t \in Tickers :
              /\ Private(t) /\ Wiped(t) /\ t.generation = p.s.generation + 1
              /\ onManagement(p, auth) \in {[p EXCEPT !.s = t], refresh([p EXCEPT !.s = t])}
<1> DEFINE a == [p.s EXCEPT !.auth = auth]
           w == wipe(a)
           t == [w EXCEPT !.masked = p.s.hidden]
           polled == [t EXCEPT !.poll = TRUE]
           u == scheduleRotation(polled)
<1>1. /\ a \in Tickers /\ a.generation = p.s.generation /\ a.auth = auth
      /\ a.hidden = p.s.hidden /\ a.initialized
  BY DEF Tickers
<1> HIDE DEF a
<1>2. /\ w \in Tickers /\ Private(w) /\ Wiped(w) /\ w.generation = p.s.generation + 1
      /\ w.initialized /\ w.auth = auth /\ w.hidden = p.s.hidden
  BY <1>1, WipePrivate
<1> HIDE DEF w
<1>3. p.s.hidden \in BOOLEAN
  BY DEF Tickers
<1>4. t \in Tickers
  BY <1>2, <1>3 DEF Tickers
<1>5. /\ SameWork(w, t) /\ t.rows = w.rows /\ t.current = w.current
      /\ t.popup = w.popup /\ t.poll = w.poll /\ t.rotation = w.rotation
  BY <1>2 DEF Tickers, SameWork
<1> HIDE DEF t
<1>6. /\ Private(t) /\ Wiped(t) /\ t.generation = p.s.generation + 1 /\ t.hidden = p.s.hidden
      /\ t.auth = auth /\ t.initialized
  <2>1. available(t) = available(w)
    BY <1>5 DEF available, SameWork
  <2>2. Private(t)
    BY <1>2, <1>5, <2>1 DEF Private, Withdrawn, SameWork
  <2>3. Wiped(t)
    BY <1>2, <1>5 DEF Wiped, SameWork
  <2>. QED BY <1>2, <1>5, <2>2, <2>3 DEF SameWork
<1>7. CASE auth /\ ~p.s.hidden
  <2>1. polled \in Tickers
    BY <1>4 DEF Tickers
  <2>2. /\ SameWork(t, polled) /\ polled.rows = t.rows /\ polled.current = t.current
        /\ polled.popup = t.popup /\ polled.rotation = t.rotation
    BY <1>4 DEF Tickers, SameWork
  <2> HIDE DEF polled
  <2>3. Private(polled)
    <3>1. available(polled) = available(t)
      BY <2>2 DEF available, SameWork
    <3>. QED BY <1>6, <1>7, <2>2, <3>1 DEF Private, Withdrawn, SameWork
  <2>4. u \in Tickers /\ SameWork(polled, u) /\ Private(u)
    BY <2>1, <2>3, RotationPrivate
  <2> HIDE DEF u
  <2>5. Wiped(u) /\ u.generation = p.s.generation + 1
    BY <1>6, <2>2, <2>4 DEF Wiped, SameWork
  <2>6. onManagement(p, auth) = refresh([p EXCEPT !.s = u])
    <3>1. t.hidden = p.s.hidden
      BY <1>6
    <3>. QED BY <1>7, <3>1 DEF onManagement, t, u, polled, w, a
  <2>. QED BY <2>4, <2>5, <2>6
<1>8. CASE ~(auth /\ ~p.s.hidden)
  <2>1. onManagement(p, auth) = [p EXCEPT !.s = t]
    <3>1. t.hidden = p.s.hidden
      BY <1>6
    <3>. QED BY <1>8, <3>1 DEF onManagement, t, w, a
  <2>. QED BY <1>4, <1>6, <2>1
<1>. QED BY <1>7, <1>8

\* So the requests under way are of older generations, but for a read that it sends.
LEMMA ManagementSound ==
    ASSUME NEW choices, Recorded(choices), NEW p, p = [s |-> p.s, rs |-> p.rs],
           NEW s, Sound(s, p.rs, choices), NEW auth \in BOOLEAN,
           p.s \in Tickers, p.s.generation = s.generation, p.s.initialized = s.initialized,
           s.initialized
    PROVE  SoundPair(onManagement(p, auth), choices)
<1>1. PICK t \in Tickers :
          /\ Private(t) /\ Wiped(t) /\ t.generation = s.generation + 1
          /\ onManagement(p, auth) \in {[p EXCEPT !.s = t], refresh([p EXCEPT !.s = t])}
  BY ManagementWipes
<1>2. t.generation > s.generation
  BY <1>1 DEF Sound, Tickers
<1>3. Sound(t, p.rs, choices)
  BY <1>1, <1>2, WipedSound
<1>4. SoundPair([p EXCEPT !.s = t], choices)
  BY <1>3 DEF SoundPair
<1>. QED BY <1>1, <1>4, RefreshSound

-----------------------------------------------------------------------------
\* After an answer the ticker is shown again, and the rotation set.
LEMMA ShownAgain ==
    ASSUME NEW s \in Tickers, Withdrawn(s), NEW t, t = scheduleRotation(renderButton(s))
    PROVE  t \in Tickers /\ SameWork(s, t) /\ Private(t)
<1> DEFINE u == renderButton(s)
<1>1. u \in Tickers /\ SameWork(s, u) /\ Private(u)
  BY RenderPrivate
<1> HIDE DEF u
<1>2. t \in Tickers /\ SameWork(u, t) /\ Private(t)
  BY <1>1, RotationPrivate DEF u
<1>. QED BY <1>1, <1>2 DEF SameWork

\* An answer with the server's choice is taken unless a later one was, and is
\* shown unless an edit was made meanwhile.
LEMMA PreferencesSound ==
    ASSUME NEW choices, Recorded(choices), NEW s, NEW rs, Sound(s, rs, choices),
           NEW r \in rs, r.phase = "back"
    PROVE  Sound(preferencesRead(s, r), rs, choices)
<1> DEFINE shown == IF ~s.saving /\ r.edit = s.edit THEN r.choice ELSE s.preferences
           u == [s EXCEPT !.revision = r.revision, !.committed = r.choice, !.preferences = shown]
           t == scheduleRotation(renderButton(u))
<1>1. s \in Tickers /\ Private(s) /\ Reconciled(s, choices) /\ Carried(s, rs)
  BY DEF Sound
<1>2. /\ r.revision \in Nat /\ r.choice \in Choice
      /\ r.revision + 1 <= Len(choices) /\ r.choice = choices[r.revision + 1]
  BY DEF Sound, Carried, TickerRequests, Truthful
<1>3. CASE ~isCurrent(s, r) \/ r.revision < s.revision
  BY <1>3 DEF preferencesRead
<1>4. CASE ~(~isCurrent(s, r) \/ r.revision < s.revision)
  <2>1. preferencesRead(s, r) = t
    BY <1>1, <1>4 DEF preferencesRead, Tickers
  <2>2. shown \in Choice /\ s.revision \in Nat /\ r.revision >= s.revision /\ s.auth
    BY <1>1, <1>2, <1>4 DEF Tickers, isCurrent
  <2>3. shown # None /\ ~s.saving => \E i \in 1..(r.revision + 1) : shown = choices[i]
    <3>1. CASE r.edit = s.edit
      BY <1>2, <3>1
    <3>2. CASE r.edit # s.edit
      <4>1. SUFFICES ASSUME s.preferences # None, ~s.saving
                     PROVE  \E i \in 1..(r.revision + 1) : s.preferences = choices[i]
        BY <3>2
      <4>2. PICK i \in 1..(s.revision + 1) : s.preferences = choices[i]
        BY <1>1, <4>1 DEF Reconciled
      <4>3. i \in 1..(r.revision + 1)
        BY <1>2, <2>2
      <4>. QED BY <4>2, <4>3
    <3>. QED BY <3>1, <3>2
  <2>4. s.saving => shown = s.preferences
    OBVIOUS
  <2> HIDE DEF shown
  <2>5. u \in Tickers
    BY <1>1, <1>2, <2>2 DEF Tickers
  <2>6. /\ u.initialized = s.initialized /\ u.auth = s.auth /\ u.hidden = s.hidden
        /\ u.generation = s.generation /\ u.preferences = shown
        /\ u.committed = r.choice /\ u.queued = s.queued /\ u.wanted = s.wanted
        /\ u.revision = r.revision /\ u.edit = s.edit /\ u.saving = s.saving
        /\ u.preferenceRead = s.preferenceRead /\ u.walletRead = s.walletRead
        /\ u.rows = s.rows /\ u.popup = s.popup /\ u.poll = s.poll /\ u.rotation = s.rotation
    BY <1>1 DEF Tickers
  <2> HIDE DEF u
  <2>7. Withdrawn(u)
    BY <1>1, <2>2, <2>6 DEF Private, Withdrawn
  <2>8. t \in Tickers /\ SameWork(u, t) /\ Private(t)
    BY <2>5, <2>7, ShownAgain
  <2> HIDE DEF t
  <2>9. Reconciled(u, choices)
    BY <1>1, <1>2, <2>3, <2>4, <2>6 DEF Reconciled
  <2>10. Carried(u, rs)
    <3>1. \A q : Matched(s, q) => Matched(u, q)
      BY <2>6 DEF Matched, Busy
    <3>. QED BY <1>1, <3>1 DEF Carried
  <2>11. Reconciled(t, choices) /\ Carried(t, rs)
    BY <2>8, <2>9, <2>10, SameWorkSound
  <2>. QED BY <2>1, <2>8, <2>11 DEF Sound
<1>. QED BY <1>3, <1>4

\* Balances that come, or are withdrawn.
LEMMA RowsSound ==
    ASSUME NEW choices, NEW s, NEW rs, Sound(s, rs, choices), NEW r, r.generation \in Nat,
           NEW ready \in Chosen
    PROVE  Sound(unavailable(s, r), rs, choices) /\ Sound(walletsRead(s, r, ready), rs, choices)
<1> DEFINE rows == [ready |-> ready, generation |-> r.generation]
           Shown(x) == renderButton([s EXCEPT !.rows = x])
<1>1. s \in Tickers /\ Private(s) /\ Reconciled(s, choices) /\ Carried(s, rs)
  BY DEF Sound
<1>2. ASSUME NEW x \in [ready : Chosen, generation : Nat],
             x.ready # {} => s.auth /\ x.generation = s.generation
      PROVE  Sound(Shown(x), rs, choices)
  <2> DEFINE u == [s EXCEPT !.rows = x]
             t == Shown(x)
  <2>1. u \in Tickers
    BY <1>1 DEF Tickers
  <2>2. SameWork(s, u) /\ u.rows = x /\ u.popup = s.popup /\ u.poll = s.poll /\ u.rotation = s.rotation
    BY <1>1 DEF Tickers, SameWork
  <2>3. t = renderButton(u)
    OBVIOUS
  <2> HIDE DEF u
  <2>4. Withdrawn(u)
    BY <1>1, <1>2, <2>2 DEF Private, Withdrawn, SameWork
  <2>5. t \in Tickers /\ SameWork(u, t) /\ Private(t)
    BY <2>1, <2>3, <2>4, RenderPrivate
  <2> HIDE DEF t
  <2>6. SameWork(s, t)
    BY <2>2, <2>5 DEF SameWork
  <2>7. Reconciled(t, choices) /\ Carried(t, rs)
    BY <1>1, <2>6, SameWorkSound
  <2>. QED BY <2>5, <2>7 DEF Sound, t
<1>3. NoRows \in [ready : Chosen, generation : Nat] /\ NoRows.ready = {}
  BY DEF NoRows, Chosen
<1>4. Sound(unavailable(s, r), rs, choices)
  <2>1. CASE ~isCurrent(s, r)
    BY <2>1 DEF unavailable
  <2>2. CASE isCurrent(s, r)
    <3>1. unavailable(s, r) = Shown(NoRows)
      BY <2>2 DEF unavailable
    <3> HIDE DEF Shown
    <3>. QED BY <1>2, <1>3, <3>1
  <2>. QED BY <2>1, <2>2
<1>5. Sound(walletsRead(s, r, ready), rs, choices)
  <2>1. CASE ~isCurrent(s, r)
    BY <2>1 DEF walletsRead
  <2>2. CASE isCurrent(s, r)
    <3>1. walletsRead(s, r, ready) = Shown(rows)
      BY <2>2 DEF walletsRead
    <3>2. s.auth /\ r.generation = s.generation
      BY <2>2 DEF isCurrent
    <3>3. rows \in [ready : Chosen, generation : Nat] /\ rows.generation = s.generation
      BY <3>2
    <3> HIDE DEF Shown, rows
    <3>. QED BY <1>2, <3>1, <3>2, <3>3
  <2>. QED BY <2>1, <2>2
<1>. QED BY <1>4, <1>5

\* The end of a read: its ticker waits for it no longer.
LEMMA EndsSound ==
    ASSUME NEW choices, NEW s, NEW rs, Sound(s, rs, choices), NEW r \in rs, NEW read,
           \/ r.kind = "preferences" /\ read = "preferenceRead"
           \/ r.kind = "wallets" /\ read = "walletRead"
    PROVE  Sound(endsRead(s, r, read), rs \ {r}, choices)
<1> DEFINE t == endsRead(s, r, read)
<1>1. s \in Tickers /\ Private(s) /\ Reconciled(s, choices) /\ Carried(s, rs)
  BY DEF Sound
<1>2. CASE r.generation # s.generation
  <2>1. t = s
    BY <1>2 DEF endsRead
  <2>. QED BY <1>1, <2>1 DEF Sound, Carried, Alone
<1>3. CASE r.generation = s.generation
  <2>1. t = [s EXCEPT ![read] = FALSE]
    BY <1>3 DEF endsRead
  <2>2. t \in Tickers
    BY <1>1, <2>1 DEF Tickers
  <2>3. /\ t.initialized = s.initialized /\ t.auth = s.auth /\ t.hidden = s.hidden
        /\ t.generation = s.generation /\ t.preferences = s.preferences
        /\ t.committed = s.committed /\ t.queued = s.queued /\ t.wanted = s.wanted
        /\ t.revision = s.revision /\ t.edit = s.edit /\ t.saving = s.saving
        /\ t.rows = s.rows /\ t.current = s.current
        /\ t.popup = s.popup /\ t.poll = s.poll /\ t.rotation = s.rotation
    BY <1>1, <2>1 DEF Tickers
  <2>4. \A kind \in {"wallets", "preferences", "save"} : kind # r.kind /\ Busy(s, kind) => Busy(t, kind)
    BY <1>1, <2>1 DEF Tickers, Busy
  <2> HIDE DEF t
  <2>5. Private(t)
    <3>1. available(t) = available(s)
      BY <2>3 DEF available
    <3>. QED BY <1>1, <2>3, <3>1 DEF Private, Withdrawn
  <2>6. Reconciled(t, choices)
    BY <1>1, <2>3 DEF Reconciled
  <2>7. ASSUME NEW q \in rs \ {r} PROVE Matched(t, q)
    <3>1. Matched(s, q) /\ q.kind \in {"wallets", "preferences", "save"}
      BY <1>1 DEF Carried, TickerRequests
    <3>2. q.generation = s.generation => q.kind # r.kind
      BY <1>1, <1>3 DEF Carried, Alone
    <3>. QED BY <2>3, <2>4, <3>1, <3>2 DEF Matched
  <2>8. Carried(t, rs \ {r})
    BY <1>1, <2>7 DEF Carried, Alone
  <2>. QED BY <2>2, <2>5, <2>6, <2>8 DEF Sound, t
<1>. QED BY <1>2, <1>3

\* An answer to the save of this generation: what it says is known, and shown
\* unless a newer edit waits.
LEMMA SavedBetween ==
    ASSUME NEW choices, Recorded(choices), NEW s, NEW rs, Sound(s, rs, choices),
           NEW r \in rs, r.kind = "save", isCurrent(s, r)
    PROVE  Between(saved(s, r), rs \ {r}, choices)
<1> DEFINE known == IF r.phase = "back" /\ r.revision >= s.revision
                    THEN [s EXCEPT !.revision = r.revision, !.committed = r.choice] ELSE s
           u == reconcile(known, r)
           t == saved(s, r)
<1>1. s \in Tickers /\ Private(s) /\ Reconciled(s, choices) /\ Carried(s, rs)
  BY DEF Sound
<1>2. /\ r.revision \in Nat /\ r.choice \in Choice /\ Matched(s, r)
      /\ r.phase = "back" => r.revision + 1 <= Len(choices) /\ r.choice = choices[r.revision + 1]
  BY DEF Sound, Carried, TickerRequests, Truthful
<1>3. s.saving /\ s.auth /\ r.generation = s.generation /\ (r.edit = s.edit <=> s.queued = None)
  BY <1>2 DEF isCurrent, Matched, Busy
<1>4. known \in Tickers
  BY <1>1, <1>2 DEF Tickers
<1>5. /\ known.initialized = s.initialized /\ known.auth = s.auth /\ known.hidden = s.hidden
      /\ known.generation = s.generation /\ known.preferences = s.preferences
      /\ known.queued = s.queued /\ known.wanted = s.wanted
      /\ known.edit = s.edit /\ known.saving = s.saving
      /\ known.preferenceRead = s.preferenceRead /\ known.walletRead = s.walletRead
      /\ known.rows = s.rows /\ known.popup = s.popup /\ known.poll = s.poll
      /\ known.rotation = s.rotation
  BY <1>1 DEF Tickers
<1>6. /\ known.revision + 1 <= Len(choices)
      /\ known.committed # None => known.committed = choices[known.revision + 1]
  BY <1>1, <1>2 DEF Reconciled, Tickers
<1>7. t = scheduleRotation(renderButton(u))
  BY DEF saved
<1> HIDE DEF known, t
<1>8. u = IF r.edit = s.edit THEN [known EXCEPT !.preferences = known.committed] ELSE known
  BY <1>5 DEF reconcile
<1>9. known.committed \in Choice
  BY <1>4 DEF Tickers
<1>10. u \in Tickers
  BY <1>4, <1>8, <1>9 DEF Tickers
<1>11. /\ u.initialized = s.initialized /\ u.auth = s.auth /\ u.hidden = s.hidden
       /\ u.generation = s.generation /\ u.queued = s.queued /\ u.wanted = s.wanted
       /\ u.edit = s.edit /\ u.saving = s.saving
       /\ u.preferenceRead = s.preferenceRead /\ u.walletRead = s.walletRead
       /\ u.rows = s.rows /\ u.popup = s.popup /\ u.poll = s.poll
       /\ u.rotation = s.rotation /\ u.revision = known.revision /\ u.committed = known.committed
       /\ r.edit = s.edit => u.preferences = known.committed
       /\ r.edit # s.edit => u.preferences = s.preferences
  BY <1>4, <1>5, <1>8 DEF Tickers
<1> HIDE DEF u
<1>12. Withdrawn(u)
  BY <1>1, <1>3, <1>11 DEF Private, Withdrawn
<1>13. t \in Tickers /\ SameWork(u, t) /\ Private(t)
  BY <1>7, <1>10, <1>12, ShownAgain
<1>14. /\ t.revision + 1 <= Len(choices)
       /\ t.committed # None => t.committed = choices[t.revision + 1]
  BY <1>6, <1>11, <1>13 DEF SameWork
<1>15. t.queued # None => t.preferences = t.wanted
  BY <1>1, <1>3, <1>11, <1>13 DEF Reconciled, SameWork
<1>16. t.queued = None /\ t.preferences # None =>
          \E i \in 1..(t.revision + 1) : t.preferences = choices[i]
  <2>1. t.queued = None => t.preferences = t.committed
    BY <1>3, <1>11, <1>13 DEF SameWork
  <2>2. t.revision \in Nat
    BY <1>13 DEF Tickers
  <2>. QED BY <1>14, <2>1, <2>2
<1>17. ASSUME NEW q \in rs \ {r}
       PROVE  /\ q \in TickerRequests /\ q.generation <= t.generation
              /\ q.generation = t.generation => q.kind # "save" /\ Busy(t, q.kind)
  <2>1. q \in TickerRequests /\ Matched(s, q)
    BY <1>1 DEF Carried
  <2>2. q.generation = s.generation => q.kind # "save"
    BY <1>1, <1>3 DEF Carried, Alone
  <2>. QED BY <1>11, <1>13, <2>1, <2>2 DEF Matched, Busy, SameWork
<1>18. Alone(rs \ {r}) /\ \A q \in rs \ {r} : Truthful(q, choices)
  BY <1>1 DEF Carried, Alone, Sound
<1>. QED BY <1>13, <1>14, <1>15, <1>16, <1>17, <1>18 DEF Between, t

-----------------------------------------------------------------------------
\* The server's history grows by a choice: what was known of it stays true.
LEMMA HistorySound ==
    ASSUME NEW choices, Recorded(choices), NEW s, NEW rs, Sound(s, rs, choices),
           NEW choice \in Chosen
    PROVE  /\ Recorded(Append(choices, choice))
           /\ Sound(s, rs, Append(choices, choice))
           /\ Append(choices, choice)[Len(choices) + 1] = choice
           /\ Len(Append(choices, choice)) = Len(choices) + 1
<1> DEFINE more == Append(choices, choice)
<1>1. choices \in Seq(Chosen) /\ Len(choices) \in Nat /\ Len(choices) > 0
  BY DEF Recorded
<1>2. /\ more \in Seq(Chosen) /\ Len(more) = Len(choices) + 1 /\ more[Len(choices) + 1] = choice
      /\ \A i \in 1..Len(choices) : more[i] = choices[i]
  BY <1>1
<1> HIDE DEF more
<1>3. s \in Tickers /\ Reconciled(s, choices) /\ s.revision \in Nat
  BY DEF Sound, Tickers
<1>4. Reconciled(s, more)
  <2>1. s.revision + 1 \in 1..Len(choices)
    BY <1>1, <1>3 DEF Reconciled
  <2>2. \A i \in 1..(s.revision + 1) : more[i] = choices[i]
    BY <1>1, <1>2, <1>3, <2>1
  <2>3. s.revision + 1 \in 1..(s.revision + 1)
    BY <1>3
  <2>. QED BY <1>1, <1>2, <1>3, <2>1, <2>2, <2>3 DEF Reconciled
<1>5. ASSUME NEW r \in rs PROVE Truthful(r, more)
  <2>1. Truthful(r, choices) /\ r.revision \in Nat
    BY DEF Sound, Carried, TickerRequests
  <2>2. r.phase = "back" => r.revision + 1 \in 1..Len(choices)
    BY <1>1, <2>1 DEF Truthful
  <2>. QED BY <1>1, <1>2, <2>1, <2>2 DEF Truthful
<1>. QED BY <1>1, <1>2, <1>4, <1>5 DEF Sound, Recorded, more

\* A request goes on: another of its kind, generation and edit takes its place.
LEMMA ReplacedSound ==
    ASSUME NEW choices, NEW s, NEW rs, Sound(s, rs, choices), NEW r \in rs,
           NEW n \in TickerRequests, n.kind = r.kind, n.generation = r.generation,
           n.edit = r.edit, Truthful(n, choices)
    PROVE  Sound(s, (rs \ {r}) \cup {n}, choices)
<1>1. Matched(s, n)
  BY DEF Sound, Carried, Matched
<1>2. Carried(s, (rs \ {r}) \cup {n})
  BY <1>1 DEF Sound, Carried, Alone
<1>. QED BY <1>2 DEF Sound

\* What the handlers return is what there is then.
LEMMA BecomesSound ==
    ASSUME NEW p, SoundPair(p, log), Becomes(p), UNCHANGED log, IInv
    PROVE  IInv'
BY DEF SoundPair, Becomes, IInv

\* The state is a sound pair.
LEMMA HereSound ==
    ASSUME IInv
    PROVE  SoundPair(Here, log) /\ Recorded(log) /\ Here.s = c /\ Here.rs = requests
BY DEF IInv, Here, SoundPair

\* The ticker alone changes, and goes on with its work.
LEMMA ShowsSound ==
    ASSUME IInv, NEW t \in Tickers, SameWork(c, t), Private(t),
           c' = t, UNCHANGED <<requests, log>>
    PROVE  IInv'
<1>1. Reconciled(t, log) /\ Carried(t, requests)
  BY SameWorkSound DEF IInv, Sound
<1>. QED BY <1>1 DEF IInv, Sound

\* Management changes.
LEMMA ManageStep ==
    ASSUME IInv, NEW auth \in BOOLEAN, Manage(auth)
    PROVE  IInv'
<1>1. SoundPair(onManagement(Here, auth), log)
  <2>1. Here = [s |-> Here.s, rs |-> Here.rs] /\ Here.s \in Tickers /\ Sound(c, Here.rs, log)
    BY HereSound DEF SoundPair, Sound
  <2>2. Here.s = c /\ Recorded(log)
    BY HereSound
  <2>3. c.initialized
    BY DEF Manage
  <2>. QED BY <2>1, <2>2, <2>3, ManagementSound
<1>. QED BY <1>1, BecomesSound DEF Manage

\* The page is hidden: its timers and popup end, what it knows stays.
LEMMA HideStep ==
    ASSUME IInv, Hide
    PROVE  IInv'
<1> DEFINE h == [c EXCEPT !.hidden = TRUE, !.masked = TRUE]
           u == closePopup(stopTimers(h))
           t == renderButton(u)
<1>1. c \in Tickers /\ Private(c) /\ Reconciled(c, log) /\ Carried(c, requests)
  BY DEF IInv, Sound
<1>2. h \in Tickers
  BY <1>1 DEF Tickers
<1>3. /\ h.initialized = c.initialized /\ h.auth = c.auth
      /\ h.generation = c.generation /\ h.preferences = c.preferences
      /\ h.committed = c.committed /\ h.queued = c.queued /\ h.wanted = c.wanted
      /\ h.revision = c.revision /\ h.edit = c.edit /\ h.saving = c.saving
      /\ h.preferenceRead = c.preferenceRead /\ h.walletRead = c.walletRead
      /\ h.rows = c.rows
  BY <1>1 DEF Tickers
<1> HIDE DEF h
<1>4. u \in Tickers /\ SameWork(h, u) /\ u.rows = h.rows /\ ~u.popup /\ ~u.poll /\ ~u.rotation
  BY <1>2, StoppedPrivate
<1> HIDE DEF u
<1>5. Withdrawn(u)
  BY <1>1, <1>3, <1>4 DEF Private, Withdrawn, SameWork
<1>6. t \in Tickers /\ SameWork(u, t) /\ Private(t)
  BY <1>4, <1>5, RenderPrivate
<1>7. c' = t /\ UNCHANGED <<requests, log>>
  BY DEF Hide, Quietly, t, u, h
<1> HIDE DEF t
<1>8. Reconciled(t, log) /\ Carried(t, requests)
  <2>1. Reconciled(t, log)
    BY <1>1, <1>3, <1>4, <1>6 DEF Reconciled, SameWork
  <2>2. \A r : Matched(c, r) => Matched(t, r)
    BY <1>3, <1>4, <1>6 DEF Matched, Busy, SameWork
  <2>. QED BY <1>1, <2>1, <2>2 DEF Carried
<1>. QED BY <1>6, <1>7, <1>8 DEF IInv, Sound

\* The page is shown again, and access withdrawn if there was any.
LEMMA RevealStep ==
    ASSUME IInv, Reveal
    PROVE  IInv'
<1> DEFINE h == [c EXCEPT !.hidden = FALSE, !.masked = TRUE]
           s == renderButton(h)
           p == [Here EXCEPT !.s = s]
<1>1. c \in Tickers /\ Private(c) /\ Reconciled(c, log) /\ Carried(c, requests)
  BY DEF IInv, Sound
<1>2. h \in Tickers
  BY <1>1 DEF Tickers
<1>3. /\ h.initialized = c.initialized /\ h.auth = c.auth
      /\ h.generation = c.generation /\ h.preferences = c.preferences
      /\ h.committed = c.committed /\ h.queued = c.queued /\ h.wanted = c.wanted
      /\ h.revision = c.revision /\ h.edit = c.edit /\ h.saving = c.saving
      /\ h.preferenceRead = c.preferenceRead /\ h.walletRead = c.walletRead
      /\ h.rows = c.rows /\ h.popup = c.popup /\ h.poll = c.poll /\ h.rotation = c.rotation
  BY <1>1 DEF Tickers
<1> HIDE DEF h
<1>4. Withdrawn(h)
  <2>1. c.hidden
    BY DEF Reveal
  <2>. QED BY <1>1, <1>3, <2>1 DEF Private, Withdrawn
<1>5. s \in Tickers /\ SameWork(h, s) /\ Private(s)
  BY <1>2, <1>4, RenderPrivate
<1>6. p = [s |-> s, rs |-> requests] /\ p.s = s /\ p.rs = requests
  BY DEF Here
<1>7. \/ Becomes(p)
      \/ Becomes(onManagement(p, FALSE))
  BY DEF Reveal, p, s, h
<1>8. UNCHANGED log /\ c.initialized
  BY DEF Reveal, Quietly
<1> HIDE DEF s, p
<1>9. Reconciled(s, log) /\ Carried(s, requests)
  <2>1. Reconciled(s, log)
    BY <1>1, <1>3, <1>5 DEF Reconciled, SameWork
  <2>2. \A r : Matched(c, r) => Matched(s, r)
    BY <1>3, <1>5 DEF Matched, Busy, SameWork
  <2>. QED BY <1>1, <2>1, <2>2 DEF Carried
<1>10. Sound(s, requests, log) /\ Recorded(log)
  BY <1>5, <1>9 DEF Sound, IInv
<1>11. SoundPair(p, log)
  BY <1>6, <1>10 DEF SoundPair
<1>12. SoundPair(onManagement(p, FALSE), log)
  <2>1. s.initialized
    BY <1>3, <1>5, <1>8 DEF SameWork
  <2>2. p = [s |-> p.s, rs |-> p.rs] /\ Sound(s, p.rs, log) /\ p.s = s
    BY <1>6, <1>10
  <2>. QED BY <1>5, <1>10, <2>1, <2>2, ManagementSound
<1>. QED BY <1>7, <1>8, <1>11, <1>12, BecomesSound

\* The wipes of a page that goes to the cache and of a role that ends.
LEMMA ForgetStep ==
    ASSUME IInv, PageHide \/ Dispose
    PROVE  IInv'
<1> DEFINE d == [c EXCEPT !.initialized = FALSE]
<1>1. c \in Tickers /\ Sound(c, requests, log) /\ Recorded(log) /\ c.generation \in Nat
  BY DEF IInv, Sound, Tickers
<1>2. CASE PageHide
  <2> DEFINE w == wipe(c)
             t == [w EXCEPT !.masked = TRUE]
  <2>1. w \in Tickers /\ Private(w) /\ Wiped(w) /\ w.generation = c.generation + 1
    BY <1>1, WipePrivate
  <2>2. c' = t /\ UNCHANGED <<requests, log>>
    BY <1>2 DEF PageHide
  <2> HIDE DEF w
  <2>3. t \in Tickers
    BY <2>1 DEF Tickers
  <2>4. SameWork(w, t) /\ t.rows = w.rows /\ t.current = w.current
        /\ t.popup = w.popup /\ t.poll = w.poll /\ t.rotation = w.rotation
    BY <2>1 DEF Tickers, SameWork
  <2> HIDE DEF t
  <2>5. available(t) = available(w)
    BY <2>4 DEF available, SameWork
  <2>6. Private(t) /\ Wiped(t) /\ t.generation > c.generation
    BY <1>1, <2>1, <2>4, <2>5 DEF Private, Withdrawn, Wiped, SameWork
  <2>7. Sound(t, requests, log)
    BY <1>1, <2>3, <2>6, WipedSound
  <2>. QED BY <1>1, <2>2, <2>7 DEF IInv
<1>3. CASE Dispose
  <2> DEFINE w == wipe(d)
  <2>1. d \in Tickers /\ d.generation = c.generation
    BY <1>1 DEF Tickers
  <2>2. c' = w /\ UNCHANGED <<requests, log>>
    BY <1>3 DEF Dispose
  <2> HIDE DEF d
  <2>3. w \in Tickers /\ Private(w) /\ Wiped(w) /\ w.generation = d.generation + 1
    BY <2>1, WipePrivate
  <2> HIDE DEF w
  <2>4. Sound(w, requests, log)
    <3>1. w.generation > c.generation
      BY <1>1, <2>1, <2>3
    <3>. QED BY <1>1, <2>3, <3>1, WipedSound
  <2>. QED BY <1>1, <2>2, <2>4 DEF IInv
<1>. QED BY <1>2, <1>3

\* The popup opens, with a refresh, or closes.
LEMMA ClickStep ==
    ASSUME IInv, Click
    PROVE  IInv'
<1>1. c \in Tickers /\ Private(c) /\ Reconciled(c, log) /\ Carried(c, requests) /\ Recorded(log)
      /\ \A r \in requests : Truthful(r, log)
  BY DEF IInv, Sound
<1>2. UNCHANGED log
  BY DEF Click, Quietly
<1>3. CASE c.popup
  <2> DEFINE t == closePopup(c)
             p == [Here EXCEPT !.s = t]
  <2>1. t \in Tickers /\ SameWork(c, t) /\ Private(t)
    BY <1>1, StoppedPrivate
  <2>2. Becomes(p)
    BY <1>3 DEF Click
  <2> HIDE DEF t
  <2>3. p.s = t /\ p.rs = requests
    BY DEF Here
  <2>4. c' = t /\ UNCHANGED <<requests, log>>
    BY <1>2, <2>2, <2>3 DEF Becomes
  <2>. QED BY <2>1, <2>4, ShowsSound
<1>4. CASE ~c.popup
  <2> DEFINE o == [c EXCEPT !.popup = TRUE]
             t == renderButton(o)
             p == [Here EXCEPT !.s = t]
  <2>1. Becomes(refresh(p))
    BY <1>4 DEF Click
  <2>2. o \in Tickers
    BY <1>1 DEF Tickers
  <2>3. SameWork(c, o) /\ o.rows = c.rows /\ o.poll = c.poll /\ o.rotation = c.rotation
    BY <1>1 DEF Tickers, SameWork
  <2> HIDE DEF o
  <2>4. Withdrawn(o)
    <3>1. c.initialized /\ c.auth /\ ~c.hidden
      BY DEF Click
    <3>. QED BY <1>1, <2>3, <3>1 DEF Private, Withdrawn, SameWork
  <2>5. t \in Tickers /\ SameWork(o, t) /\ Private(t)
    BY <2>2, <2>4, RenderPrivate
  <2> HIDE DEF t
  <2>6. SameWork(c, t)
    BY <2>3, <2>5 DEF SameWork
  <2>7. Sound(t, requests, log)
    BY <1>1, <2>5, <2>6, SameWorkSound DEF Sound
  <2>8. p = [s |-> t, rs |-> requests] /\ p.s = t /\ p.rs = requests
    BY DEF Here
  <2>9. SoundPair(p, log)
    BY <2>7, <2>8 DEF SoundPair
  <2>10. SoundPair(refresh(p), log)
    BY <2>9, RefreshSound
  <2>. QED BY <1>2, <2>1, <2>10, BecomesSound
<1>. QED BY <1>3, <1>4

\* The poll refreshes.
LEMMA PollStep ==
    ASSUME IInv, Poll
    PROVE  IInv'
BY HereSound, RefreshSound, BecomesSound DEF Poll, Quietly

\* The next wallet is one of those there are.
LEMMA RotateStep ==
    ASSUME IInv, Rotate \/ Step
    PROVE  IInv'
<1> DEFINE n == following(available(c), c.current)
           t == [c EXCEPT !.current = n]
<1>1. c \in Tickers /\ Private(c)
  BY DEF IInv, Sound
<1>2. available(c) \in SUBSET Names /\ c.current \in Names \cup {None}
  BY <1>1, AvailableAreNames DEF Tickers
<1>3. n \in available(c) \cup {None} /\ n \in Names \cup {None}
  BY <1>2, NextIsShown
<1>4. c' = t /\ UNCHANGED <<requests, log>>
  BY DEF Rotate, Step, Quietly
<1> HIDE DEF n
<1>5. t \in Tickers
  BY <1>1, <1>3 DEF Tickers
<1>6. /\ SameWork(c, t) /\ t.rows = c.rows /\ t.popup = c.popup /\ t.poll = c.poll
      /\ t.rotation = c.rotation /\ t.current = n
  BY <1>1 DEF Tickers, SameWork
<1> HIDE DEF t
<1>7. available(t) = available(c)
  BY <1>6 DEF available, SameWork
<1>8. Private(t)
  BY <1>1, <1>3, <1>6, <1>7 DEF Private, Withdrawn, SameWork
<1>. QED BY <1>4, <1>5, <1>6, <1>8, ShowsSound

\* An edit: another one is queued, or its save begins.
LEMMA EditStep ==
    ASSUME IInv, NEW choice \in Selections, Edit(choice)
    PROVE  IInv'
<1> DEFINE u == [c EXCEPT !.preferences = choice, !.queued = choice, !.edit = @ + 1, !.wanted = choice]
           t == scheduleRotation(renderButton(u))
           p == [Here EXCEPT !.s = t]
<1>1. c \in Tickers /\ Private(c) /\ Reconciled(c, log) /\ Carried(c, requests) /\ Recorded(log)
      /\ \A r \in requests : Truthful(r, log)
  BY DEF IInv, Sound
<1>2. /\ c.auth /\ UNCHANGED log
      /\ Becomes(IF t.saving THEN p ELSE post(p))
  BY DEF Edit
<1>3. choice \in Choice /\ choice # None /\ c.edit \in Nat
  BY <1>1, WalletTickerAssumption DEF Choice, Chosen, Tickers
<1>4. u \in Tickers
  <2>1. c.edit + 1 \in Nat
    BY <1>3
  <2>. QED BY <1>1, <1>3, <2>1 DEF Tickers
<1>5. /\ u.initialized = c.initialized /\ u.auth = c.auth /\ u.hidden = c.hidden
      /\ u.generation = c.generation /\ u.preferences = choice
      /\ u.committed = c.committed /\ u.queued = choice /\ u.wanted = choice
      /\ u.revision = c.revision /\ u.edit = c.edit + 1 /\ u.saving = c.saving
      /\ u.preferenceRead = c.preferenceRead /\ u.walletRead = c.walletRead
      /\ u.rows = c.rows /\ u.popup = c.popup /\ u.poll = c.poll /\ u.rotation = c.rotation
  BY <1>1 DEF Tickers
<1> HIDE DEF u
<1>6. Withdrawn(u)
  BY <1>1, <1>2, <1>5 DEF Private, Withdrawn
<1>7. t \in Tickers /\ SameWork(u, t) /\ Private(t)
  BY <1>4, <1>6, ShownAgain
<1> HIDE DEF t
<1>8. p = [s |-> t, rs |-> requests] /\ p.s = t /\ p.rs = requests
  BY DEF Here
<1> HIDE DEF p
<1>9. CASE c.saving
  <2>1. Reconciled(t, log)
    BY <1>1, <1>5, <1>7, <1>9 DEF Reconciled, SameWork
  <2>2. ASSUME NEW r \in requests PROVE Matched(t, r)
    <3>1. Matched(c, r) /\ r.edit \in Nat
      BY <1>1 DEF Carried, TickerRequests
    <3>. QED BY <1>3, <1>5, <1>7, <3>1 DEF Matched, Busy, SameWork
  <2>3. Sound(t, requests, log)
    BY <1>1, <1>7, <2>1, <2>2 DEF Sound, Carried
  <2>4. SoundPair(p, log) /\ Becomes(p)
    BY <1>2, <1>5, <1>7, <1>8, <1>9, <2>3 DEF SoundPair, SameWork
  <2>. QED BY <1>2, <2>4, BecomesSound
<1>10. CASE ~c.saving
  <2>1. /\ t.revision + 1 <= Len(log)
        /\ t.committed # None => t.committed = log[t.revision + 1]
        /\ t.queued # None /\ t.preferences = t.wanted
    BY <1>1, <1>3, <1>5, <1>7 DEF Reconciled, SameWork
  <2>2. ASSUME NEW r \in requests
        PROVE  /\ r \in TickerRequests /\ r.generation <= t.generation
               /\ r.generation = t.generation => r.kind # "save" /\ Busy(t, r.kind)
    <3>1. r \in TickerRequests /\ Matched(c, r)
      BY <1>1 DEF Carried
    <3>. QED BY <1>5, <1>7, <1>10, <3>1 DEF Matched, Busy, SameWork
  <2>3. Between(t, requests, log)
    BY <1>1, <1>7, <2>1, <2>2 DEF Between, Carried
  <2>4. SoundPair(post(p), log)
    BY <1>8, <2>1, <2>3, PostSound
  <2>5. Becomes(post(p))
    BY <1>2, <1>5, <1>7, <1>10 DEF SameWork
  <2>. QED BY <1>2, <2>4, <2>5, BecomesSound
<1>. QED BY <1>9, <1>10

\* Another page's save makes the history longer.
LEMMA OtherSavesStep ==
    ASSUME IInv, NEW choice \in Selections, OtherSaves(choice)
    PROVE  IInv'
<1>1. choice \in Chosen
  BY WalletTickerAssumption DEF Chosen
<1>. QED BY <1>1, HistorySound DEF IInv, OtherSaves

\* A request is served: a read with the choice there is, a save with one more.
LEMMA ServeStep ==
    ASSUME IInv, NEW r \in requests, Serve(r)
    PROVE  IInv'
<1>1. Recorded(log) /\ Sound(c, requests, log)
  BY DEF IInv
<1>2. r \in TickerRequests /\ Truthful(r, log) /\ r.phase = "sent"
  BY <1>1 DEF Sound, Carried, Serve
<1>3. log \in Seq(Chosen) /\ Len(log) \in Nat /\ Len(log) > 0
  BY <1>1 DEF Recorded
<1>4. CASE r.kind = "preferences"
  <2> DEFINE n == [r EXCEPT !.phase = "back", !.revision = revisionNow, !.choice = choiceNow]
  <2>1. requests' = (requests \ {r}) \cup {n} /\ UNCHANGED <<c, log>>
    BY <1>4 DEF Serve
  <2>2. revisionNow \in Nat /\ revisionNow + 1 = Len(log) /\ choiceNow = log[revisionNow + 1]
        /\ choiceNow \in Choice
    BY <1>3 DEF revisionNow, choiceNow, Choice, Chosen
  <2>3. n \in TickerRequests
    BY <1>2, <2>2 DEF TickerRequests
  <2>4. /\ n.kind = r.kind /\ n.generation = r.generation /\ n.edit = r.edit /\ n.phase = "back"
        /\ n.revision = revisionNow /\ n.choice = choiceNow
    BY <1>2 DEF TickerRequests
  <2> HIDE DEF n
  <2>5. Truthful(n, log)
    BY <1>4, <2>2, <2>4 DEF Truthful
  <2>6. Sound(c, (requests \ {r}) \cup {n}, log)
    BY <1>1, <2>3, <2>4, <2>5, ReplacedSound
  <2>. QED BY <1>1, <2>1, <2>6 DEF IInv
<1>5. CASE r.kind = "save"
  <2> DEFINE n == [r EXCEPT !.phase = "back", !.revision = revisionNow + 1]
             more == Append(log, r.choice)
  <2>1. requests' = (requests \ {r}) \cup {n} /\ log' = more /\ UNCHANGED c
    BY <1>5 DEF Serve
  <2>2. revisionNow + 1 = Len(log)
    BY <1>3 DEF revisionNow
  <2>3. r.choice \in Chosen
    BY <1>2, <1>5 DEF TickerRequests, Truthful, Choice, Chosen
  <2>4. n \in TickerRequests
    BY <1>2, <1>3, <2>2 DEF TickerRequests
  <2>5. /\ n.kind = r.kind /\ n.generation = r.generation /\ n.edit = r.edit /\ n.phase = "back"
        /\ n.revision = Len(log) /\ n.choice = r.choice
    BY <1>2, <2>2 DEF TickerRequests
  <2> HIDE DEF n
  <2>6. /\ Recorded(more) /\ Sound(c, requests, more)
        /\ more[Len(log) + 1] = r.choice /\ Len(more) = Len(log) + 1
    BY <1>1, <2>3, HistorySound
  <2> HIDE DEF more
  <2>7. Truthful(n, more)
    BY <1>3, <2>5, <2>6 DEF Truthful
  <2>8. Sound(c, (requests \ {r}) \cup {n}, more)
    BY <2>4, <2>5, <2>6, <2>7, ReplacedSound
  <2>. QED BY <2>1, <2>6, <2>8 DEF IInv
<1>. QED BY <1>4, <1>5 DEF Serve

\* A request that fails says nothing of any choice.
LEMMA FailStep ==
    ASSUME IInv, NEW r \in requests, Fail(r)
    PROVE  IInv'
<1> DEFINE n == [r EXCEPT !.phase = "failed", !.choice = None, !.revision = 0]
<1>1. Recorded(log) /\ Sound(c, requests, log)
  BY DEF IInv
<1>2. r \in TickerRequests
  BY <1>1 DEF Sound, Carried
<1>3. requests' = (requests \ {r}) \cup {n} /\ UNCHANGED <<c, log>>
  BY DEF Fail
<1>4. n \in TickerRequests
  BY <1>2 DEF TickerRequests, Choice
<1>5. n.kind = r.kind /\ n.generation = r.generation /\ n.edit = r.edit /\ n.phase = "failed"
  BY <1>2 DEF TickerRequests
<1> HIDE DEF n
<1>6. Truthful(n, log)
  BY <1>5 DEF Truthful
<1>7. Sound(c, (requests \ {r}) \cup {n}, log)
  BY <1>1, <1>4, <1>5, <1>6, ReplacedSound
<1>. QED BY <1>1, <1>3, <1>7 DEF IInv

\* An answer arrives, of this generation or of an older one.
LEMMA DeliverStep ==
    ASSUME IInv, NEW r \in requests, Deliver(r)
    PROVE  IInv'
<1> DEFINE gone == [Here EXCEPT !.rs = @ \ {r}]
           With(t) == [gone EXCEPT !.s = t]
<1>1. Recorded(log) /\ Sound(c, requests, log) /\ UNCHANGED log
  BY DEF IInv, Deliver, Quietly
<1>2. r \in TickerRequests /\ r.generation \in Nat
  BY <1>1 DEF Sound, Carried, TickerRequests
<1>3. gone = [s |-> c, rs |-> requests \ {r}]
  BY DEF Here
<1>4. \A t : With(t) = [s |-> t, rs |-> requests \ {r}]
      /\ With(t).s = t /\ With(t).rs = requests \ {r}
  <2> TAKE t
  <2>1. With(t) = [[s |-> c, rs |-> requests \ {r}] EXCEPT !.s = t]
    BY <1>3
  <2>2. [[s |-> c, rs |-> requests \ {r}] EXCEPT !.s = t] = [s |-> t, rs |-> requests \ {r}]
    OBVIOUS
  <2>. QED BY <2>1, <2>2
<1> HIDE DEF gone
<1>5. CASE r.kind = "preferences" /\ r.phase = "back"
  <2> DEFINE t == endsRead(preferencesRead(c, r), r, "preferenceRead")
  <2>1. Sound(preferencesRead(c, r), requests, log)
    BY <1>1, <1>5, PreferencesSound
  <2>2. Sound(t, requests \ {r}, log)
    BY <1>5, <2>1, EndsSound
  <2>3. Becomes(refreshWallets(With(t)))
    BY <1>5 DEF Deliver, gone
  <2> HIDE DEF t, With
  <2>4. SoundPair(With(t), log)
    BY <1>4, <2>2 DEF SoundPair
  <2>. QED BY <1>1, <2>3, <2>4, RefreshSound, BecomesSound
<1>6. CASE r.phase = "failed" /\ r.kind # "save"
  <2> DEFINE read == IF r.kind = "preferences" THEN "preferenceRead" ELSE "walletRead"
             t == endsRead(unavailable(c, r), r, read)
  <2>1. {} \in Chosen
    BY DEF Chosen
  <2>2. Sound(unavailable(c, r), requests, log)
    BY <1>1, <1>2, <2>1, RowsSound
  <2>3. \/ r.kind = "preferences" /\ read = "preferenceRead"
        \/ r.kind = "wallets" /\ read = "walletRead"
    BY <1>2, <1>6 DEF TickerRequests
  <2>4. Becomes(With(t))
    BY <1>6, <2>3 DEF Deliver, gone
  <2> HIDE DEF read
  <2>5. Sound(t, requests \ {r}, log)
    BY <2>2, <2>3, EndsSound
  <2> HIDE DEF t, With
  <2>6. SoundPair(With(t), log)
    BY <1>4, <2>5 DEF SoundPair
  <2>. QED BY <1>1, <2>4, <2>6, BecomesSound
<1>7. CASE r.kind = "wallets" /\ r.phase = "sent"
  <2> DEFINE t(ready) == endsRead(walletsRead(c, r, ready), r, "walletRead")
  <2>1. PICK ready \in Balances : Becomes(With(t(ready)))
    BY <1>7 DEF Deliver, gone
  <2>2. ready \in Chosen
    BY WalletTickerAssumption DEF Chosen
  <2>3. Sound(walletsRead(c, r, ready), requests, log)
    BY <1>1, <1>2, <2>2, RowsSound
  <2>4. Sound(t(ready), requests \ {r}, log)
    BY <1>7, <2>3, EndsSound
  <2> HIDE DEF t, With
  <2>5. SoundPair(With(t(ready)), log)
    BY <1>4, <2>4 DEF SoundPair
  <2>. QED BY <1>1, <2>1, <2>5, BecomesSound
<1>8. CASE r.kind = "save" /\ isCurrent(c, r)
  <2> DEFINE t == saved(c, r)
  <2>1. Between(t, requests \ {r}, log)
    BY <1>1, <1>8, SavedBetween
  <2>2. Becomes(continueSaving(With(t)))
    BY <1>8 DEF Deliver, gone
  <2> HIDE DEF t, With
  <2>3. SoundPair(continueSaving(With(t)), log)
    BY <1>4, <2>1, ContinueSound
  <2>. QED BY <1>1, <2>2, <2>3, BecomesSound
<1>9. CASE r.kind = "save" /\ ~isCurrent(c, r)
  <2>1. Becomes(gone)
    BY <1>9 DEF Deliver, gone
  <2>2. c' = c /\ requests' = requests \ {r}
    BY <1>3, <2>1 DEF Becomes
  <2>3. Sound(c, requests \ {r}, log)
    BY <1>1 DEF Sound, Carried, Alone
  <2>. QED BY <1>1, <2>2, <2>3 DEF IInv
<1>. QED BY <1>2, <1>5, <1>6, <1>7, <1>8, <1>9 DEF Deliver, TickerRequests

-----------------------------------------------------------------------------
(* What holds of every behaviour.                                          *)

\* A new ticker knows nothing.
LEMMA TickerStarts ==
    ASSUME Init
    PROVE  IInv
<1>1. c \in Tickers
  BY DEF Init, NewTicker, NoRows, Tickers, Choice, Chosen
<1>2. Recorded(log)
  BY DEF Init, Recorded, Chosen
<1>3. Private(c)
  BY DEF Init, NewTicker, NoRows, Private, Withdrawn
<1>4. Reconciled(c, log)
  BY DEF Init, NewTicker, Reconciled
<1>. QED BY <1>1, <1>2, <1>3, <1>4 DEF IInv, Sound, Carried, Alone, Init

\* The inductive invariant of the ticker (wallets/ticker.js) holds in every state,
\* whatever is edited, saved elsewhere, lost, locked, hidden or disposed of.
THEOREM TickerInvariance == Spec => []IInv
<1>1. Init => IInv
  BY TickerStarts
<1>2. IInv /\ [Next]_vars => IInv'
  <2> SUFFICES ASSUME IInv, [Next]_vars PROVE IInv'
    OBVIOUS
  <2>1. CASE UNCHANGED vars
    BY <2>1 DEF IInv, vars
  <2>2. ASSUME NEW auth \in BOOLEAN, Manage(auth) PROVE IInv'
    BY <2>2, ManageStep
  <2>3. CASE Hide \/ Reveal
    BY <2>3, HideStep, RevealStep
  <2>4. CASE PageHide \/ Dispose
    BY <2>4, ForgetStep
  <2>5. CASE Click \/ Poll
    BY <2>5, ClickStep, PollStep
  <2>6. CASE Rotate \/ Step
    BY <2>6, RotateStep
  <2>7. ASSUME NEW choice \in Selections, Edit(choice) \/ OtherSaves(choice) PROVE IInv'
    BY <2>7, EditStep, OtherSavesStep
  <2>8. ASSUME NEW r \in requests, Serve(r) \/ Fail(r) \/ Deliver(r) PROVE IInv'
    BY <2>8, ServeStep, FailStep, DeliverStep
  <2>. QED BY <2>1, <2>2, <2>3, <2>4, <2>5, <2>6, <2>7, <2>8 DEF Next
<1>. QED BY <1>1, <1>2, PTL DEF Spec

\* The latest edit is shown until its save has been answered, and then nothing
\* that was not committed (ticker.js, queueSave and readPreferences).
THEOREM TickerReconciles == Spec => []EditsReconcile
<1>1. IInv => EditsReconcile
  BY DEF IInv, Sound, Reconciled, EditsReconcile
<1>. QED BY <1>1, TickerInvariance, PTL

\* Balances, choices, popup and timers exist only in the generation that is unlocked
\* (ticker.js, wipe and isCurrent).
THEOREM TickerPrivate == Spec => []PrivateWhileUnlocked
<1>1. IInv => PrivateWhileUnlocked
  BY DEF IInv, Sound, Private, Withdrawn, PrivateWhileUnlocked
<1>. QED BY <1>1, TickerInvariance, PTL

\* The types, and no two requests of a kind in one generation.
THEOREM TickerTypes == Spec => []TypeOK
<1>1. IInv => TypeOK
  <2> SUFFICES ASSUME IInv PROVE TypeOK
    OBVIOUS
  <2>1. c \in Tickers /\ Carried(c, requests)
    BY DEF IInv, Sound
  <2>2. /\ c.preferences \in Choice /\ c.committed \in Choice
        /\ c.queued \in Choice /\ c.wanted \in Choice
        /\ c.current \in Names \cup {None} /\ c.rows \in [ready : Chosen, generation : Nat]
    BY <2>1 DEF Tickers
  <2>3. c.rows.ready \subseteq Names
    BY <2>2 DEF Chosen
  <2>4. /\ \A r \in requests : r.phase \in {"sent", "back", "failed"} /\ r.generation <= c.generation
        /\ \A r, q \in requests : r.kind = q.kind /\ r.generation = q.generation => r = q
    BY <2>1 DEF Carried, TickerRequests, Matched, Alone
  <2>. QED BY <2>2, <2>3, <2>4 DEF TypeOK
<1>. QED BY <1>1, TickerInvariance, PTL

-----------------------------------------------------------------------------
(* What is waited for is under way.                                        *)

\* Every flag has its request, in an unlocked ticker; an edit that is queued is
\* the latest, and so is what the save of the latest edit carries.
Awaiting(s, rs) ==
    /\ \A kind \in {"wallets", "preferences", "save"} : Busy(s, kind) =>
          /\ s.initialized /\ s.auth
          /\ \E r \in rs : r.kind = kind /\ r.generation = s.generation
    /\ s.queued # None => s.queued = s.wanted
    /\ \A r \in rs : r.kind = "save" /\ r.generation = s.generation /\ r.edit = s.edit
                       /\ r.phase # "failed" => r.choice = s.wanted

\* In the loop of queueSave, where no save is under way.
Looping(s, rs) ==
    /\ s.initialized /\ s.auth
    /\ \A kind \in {"wallets", "preferences"} : Busy(s, kind) =>
          \E r \in rs : r.kind = kind /\ r.generation = s.generation
    /\ s.queued # None => s.queued = s.wanted
    /\ \A r \in rs : ~(r.kind = "save" /\ r.generation = s.generation)

\* All of a ticker that matters to what it waits for.
SameWaits(s, t) ==
    /\ t.initialized = s.initialized /\ t.auth = s.auth /\ t.generation = s.generation
    /\ t.preferenceRead = s.preferenceRead /\ t.walletRead = s.walletRead /\ t.saving = s.saving
    /\ t.queued = s.queued /\ t.wanted = s.wanted /\ t.edit = s.edit

\* What is shown and known of the server does not matter to what is waited for.
LEMMA SameWaitsAwaiting ==
    ASSUME NEW s, NEW t, NEW rs, SameWaits(s, t)
    PROVE  /\ Awaiting(s, rs) => Awaiting(t, rs)
           /\ Looping(s, rs) => Looping(t, rs)
  BY DEF SameWaits, Awaiting, Looping, Busy

\* A generation that has just begun waits for nothing.
LEMMA WipedAwaiting ==
    ASSUME NEW s \in Tickers, NEW rs, Carried(s, rs),
           NEW t \in Tickers, Wiped(t), t.generation = s.generation + 1
    PROVE  Awaiting(t, rs)
<1>1. \A r \in rs : r.generation \in Nat /\ r.generation <= s.generation
  BY DEF Carried, Matched, TickerRequests
<1>2. \A r \in rs : r.generation # t.generation
  BY <1>1 DEF Tickers
<1>3. ~Busy(t, "wallets") /\ ~Busy(t, "preferences") /\ ~Busy(t, "save") /\ t.queued = None
  BY DEF Wiped, Busy
<1>. QED BY <1>2, <1>3 DEF Awaiting

\* A read raises its flag when it sends its request.
LEMMA ReadAwaiting ==
    ASSUME NEW p, p = [s |-> p.s, rs |-> p.rs], p.s \in Tickers, Awaiting(p.s, p.rs),
           p.s.initialized, p.s.auth, NEW q, q = readWallets(p) \/ q = readPreferences(p)
    PROVE  Awaiting(q.s, q.rs)
<1> DEFINE s == p.s
           kind == IF q = readWallets(p) THEN "wallets" ELSE "preferences"
           t == IF q = readWallets(p) THEN [s EXCEPT !.walletRead = TRUE]
                ELSE [s EXCEPT !.preferenceRead = TRUE]
           new == Sent(s, kind, None)
<1>1. CASE q = p
  BY <1>1
<1>2. CASE q # p
  <2>1. q = [s |-> t, rs |-> p.rs \cup {new}]
    BY <1>2 DEF readWallets, readPreferences
  <2>2. /\ t.initialized /\ t.auth /\ t.generation = s.generation
        /\ t.queued = s.queued /\ t.wanted = s.wanted /\ t.edit = s.edit
    BY DEF Tickers
  <2>3. \A other \in {"wallets", "preferences", "save"} : Busy(t, other) => Busy(s, other) \/ other = kind
    BY DEF Tickers, Busy
  <2>4. new.kind = kind /\ new.generation = s.generation /\ kind # "save"
    BY DEF Sent
  <2>5. Awaiting(s, p.rs)
    OBVIOUS
  <2> HIDE DEF s, t, kind, new
  <2>6. Awaiting(t, p.rs \cup {new})
    BY <2>2, <2>3, <2>4, <2>5 DEF Awaiting
  <2>. QED BY <2>1, <2>6
<1>. QED BY <1>1, <1>2

\* Only an unlocked ticker refreshes.
LEMMA RefreshAwaiting ==
    ASSUME NEW p, p = [s |-> p.s, rs |-> p.rs], p.s \in Tickers, Awaiting(p.s, p.rs)
    PROVE  /\ Awaiting(refresh(p).s, refresh(p).rs)
           /\ Awaiting(refreshWallets(p).s, refreshWallets(p).rs)
<1>1. CASE Active(p.s)
  <2>1. p.s.initialized /\ p.s.auth
    BY <1>1 DEF Active
  <2>. QED BY <2>1, ReadAwaiting DEF refresh, refreshWallets
<1>2. CASE ~Active(p.s)
  BY <1>2 DEF refresh, refreshWallets
<1>. QED BY <1>1, <1>2

\* The save that is posted carries the edit that was queued.
LEMMA PostAwaiting ==
    ASSUME NEW p, p.s \in Tickers, Looping(p.s, p.rs), p.s.queued # None
    PROVE  Awaiting(post(p).s, post(p).rs)
<1> DEFINE s == p.s
           t == [s EXCEPT !.saving = TRUE, !.queued = None]
           new == Sent(s, "save", s.queued)
<1>1. post(p) = [s |-> t, rs |-> p.rs \cup {new}]
  BY DEF post
<1>2. /\ t.initialized /\ t.auth /\ t.generation = s.generation
      /\ t.queued = None /\ t.wanted = s.wanted /\ t.edit = s.edit
  BY DEF Tickers, Looping
<1>3. \A other \in {"wallets", "preferences", "save"} : Busy(t, other) => Busy(s, other) \/ other = "save"
  BY DEF Tickers, Busy
<1>4. new.kind = "save" /\ new.generation = s.generation /\ new.choice = s.queued
  BY DEF Sent
<1>5. Looping(s, p.rs) /\ s.queued # None
  OBVIOUS
<1> HIDE DEF s, t, new
<1>6. Awaiting(t, p.rs \cup {new})
  BY <1>2, <1>3, <1>4, <1>5 DEF Awaiting, Looping
<1>. QED BY <1>1, <1>6

\* The loop of queueSave posts the next edit, or stops waiting.
LEMMA ContinueAwaiting ==
    ASSUME NEW p, p = [s |-> p.s, rs |-> p.rs], p.s \in Tickers, Looping(p.s, p.rs)
    PROVE  Awaiting(continueSaving(p).s, continueSaving(p).rs)
<1>1. CASE p.s.queued # None
  BY <1>1, PostAwaiting DEF continueSaving
<1>2. CASE p.s.queued = None
  <2> DEFINE s == p.s
             t == [s EXCEPT !.saving = FALSE]
             ended == [p EXCEPT !.s.saving = FALSE]
  <2>1. ended = [s |-> t, rs |-> p.rs]
    <3> DEFINE new == [p.s EXCEPT !.saving = FALSE]
    <3>1. ended = [p EXCEPT !.s = new]
      OBVIOUS
    <3> HIDE DEF ended, new
    <3>2. [p EXCEPT !.s = new] = [s |-> new, rs |-> p.rs]
      OBVIOUS
    <3>. QED BY <3>1, <3>2 DEF new
  <2>2. t \in Tickers
    BY DEF Tickers
  <2>3. /\ t.initialized /\ t.auth /\ t.generation = s.generation
        /\ t.queued = s.queued /\ t.wanted = s.wanted /\ t.edit = s.edit
    BY DEF Tickers, Looping
  <2>4. \A other \in {"wallets", "preferences", "save"} : Busy(t, other) => Busy(s, other) /\ other # "save"
    BY DEF Tickers, Busy
  <2>5. Looping(s, p.rs)
    OBVIOUS
  <2> HIDE DEF s, t
  <2>6. Awaiting(t, p.rs)
    BY <2>3, <2>4, <2>5 DEF Awaiting, Looping
  <2>7. continueSaving(p) = IF Selects(ended.s) THEN readWallets(ended) ELSE ended
    BY <1>2 DEF continueSaving
  <2>8. ended.s = t /\ ended.rs = p.rs /\ ended = [s |-> ended.s, rs |-> ended.rs]
    BY <2>1
  <2> HIDE DEF ended
  <2>9. Awaiting(ended.s, ended.rs) /\ Awaiting(readWallets(ended).s, readWallets(ended).rs)
    BY <2>2, <2>3, <2>6, <2>8, ReadAwaiting
  <2>. QED BY <2>7, <2>9
<1>. QED BY <1>1, <1>2

\* A change of management leaves nothing that is waited for but a read it sends.
LEMMA ManagementAwaiting ==
    ASSUME NEW p, p = [s |-> p.s, rs |-> p.rs], p.s \in Tickers, Carried(p.s, p.rs),
           p.s.initialized, NEW auth \in BOOLEAN
    PROVE  Awaiting(onManagement(p, auth).s, onManagement(p, auth).rs)
<1>1. PICK t \in Tickers :
          /\ Private(t) /\ Wiped(t) /\ t.generation = p.s.generation + 1
          /\ onManagement(p, auth) \in {[p EXCEPT !.s = t], refresh([p EXCEPT !.s = t])}
  BY ManagementWipes
<1> DEFINE q == [p EXCEPT !.s = t]
<1>2. q.s = t /\ q.rs = p.rs /\ q = [s |-> q.s, rs |-> q.rs]
  OBVIOUS
<1>3. Awaiting(t, p.rs)
  BY <1>1, WipedAwaiting
<1>4. onManagement(p, auth) = q \/ onManagement(p, auth) = refresh(q)
  BY <1>1
<1> HIDE DEF q
<1>. QED BY <1>2, <1>3, <1>4, RefreshAwaiting

-----------------------------------------------------------------------------
\* Showing a ticker again changes nothing that is waited for.
LEMMA ShownWaits ==
    ASSUME NEW s \in Tickers, NEW t, t = renderButton(s) \/ t = scheduleRotation(renderButton(s))
    PROVE  t \in Tickers /\ SameWaits(s, t)
<1> DEFINE u == renderButton(s)
<1>1. u \in Tickers /\ SameWork(s, u)
  BY RenderPrivate
<1> HIDE DEF u
<1>2. scheduleRotation(u) \in Tickers /\ SameWork(u, scheduleRotation(u))
  BY <1>1, RotationPrivate
<1>. QED BY <1>1, <1>2 DEF u, SameWork, SameWaits

\* Nor does taking an answer, of any kind and any generation.
LEMMA AnswersWait ==
    ASSUME NEW s \in Tickers, NEW r \in TickerRequests, NEW ready \in Chosen
    PROVE  /\ preferencesRead(s, r) \in Tickers /\ SameWaits(s, preferencesRead(s, r))
           /\ unavailable(s, r) \in Tickers /\ SameWaits(s, unavailable(s, r))
           /\ walletsRead(s, r, ready) \in Tickers /\ SameWaits(s, walletsRead(s, r, ready))
           /\ saved(s, r) \in Tickers /\ SameWaits(s, saved(s, r))
<1>1. SameWaits(s, s)
  BY DEF SameWaits
<1>2. /\ r.revision \in Nat /\ r.choice \in Choice /\ r.generation \in Nat
      /\ s.preferences \in Choice /\ s.committed \in Choice
  BY DEF TickerRequests, Tickers
<1>3. preferencesRead(s, r) \in Tickers /\ SameWaits(s, preferencesRead(s, r))
  <2> DEFINE shown == IF ~s.saving /\ r.edit = s.edit THEN r.choice ELSE s.preferences
             u == [s EXCEPT !.revision = r.revision, !.committed = r.choice, !.preferences = shown]
  <2>1. \/ preferencesRead(s, r) = s
        \/ preferencesRead(s, r) = scheduleRotation(renderButton(u))
    BY DEF preferencesRead, Tickers
  <2>2. shown \in Choice
    BY <1>2
  <2> HIDE DEF shown
  <2>3. u \in Tickers
    BY <1>2, <2>2 DEF Tickers
  <2>4. SameWaits(s, u)
    BY DEF Tickers, SameWaits
  <2> HIDE DEF u
  <2>. QED BY <1>1, <2>1, <2>3, <2>4, ShownWaits DEF SameWaits
<1>4. ASSUME NEW x \in [ready : Chosen, generation : Nat]
      PROVE  renderButton([s EXCEPT !.rows = x]) \in Tickers /\ SameWaits(s, renderButton([s EXCEPT !.rows = x]))
  <2> DEFINE u == [s EXCEPT !.rows = x]
  <2>1. u \in Tickers /\ SameWaits(s, u)
    BY DEF Tickers, SameWaits
  <2> HIDE DEF u
  <2>2. renderButton(u) \in Tickers /\ SameWaits(s, renderButton(u))
    BY <2>1, ShownWaits DEF SameWaits
  <2>. QED BY <2>2 DEF u
<1>5. unavailable(s, r) \in Tickers /\ SameWaits(s, unavailable(s, r))
  <2>1. NoRows \in [ready : Chosen, generation : Nat]
    BY DEF NoRows, Chosen
  <2>. QED BY <1>1, <1>4, <2>1 DEF unavailable
<1>6. walletsRead(s, r, ready) \in Tickers /\ SameWaits(s, walletsRead(s, r, ready))
  <2>1. [ready |-> ready, generation |-> r.generation] \in [ready : Chosen, generation : Nat]
    BY <1>2
  <2>. QED BY <1>1, <1>4, <2>1 DEF walletsRead
<1>7. saved(s, r) \in Tickers /\ SameWaits(s, saved(s, r))
  <2> DEFINE known == IF r.phase = "back" /\ r.revision >= s.revision
                      THEN [s EXCEPT !.revision = r.revision, !.committed = r.choice] ELSE s
             u == IF r.edit = known.edit THEN [known EXCEPT !.preferences = known.committed] ELSE known
  <2>1. saved(s, r) = scheduleRotation(renderButton(u))
    BY DEF saved, reconcile
  <2>2. known \in Tickers /\ SameWaits(s, known)
    BY <1>1, <1>2 DEF Tickers, SameWaits
  <2> HIDE DEF known
  <2>3. known.committed \in Choice
    BY <2>2 DEF Tickers
  <2>4. u \in Tickers
    BY <2>2, <2>3 DEF Tickers
  <2>5. SameWaits(known, u)
    BY <2>2 DEF Tickers, SameWaits
  <2> HIDE DEF u
  <2>. QED BY <2>1, <2>2, <2>4, <2>5, ShownWaits DEF SameWaits
<1>. QED BY <1>3, <1>5, <1>6, <1>7

\* A read that has ended is waited for no longer, in its own generation.
LEMMA EndsAwaiting ==
    ASSUME NEW s \in Tickers, NEW rs, Carried(s, rs), Awaiting(s, rs), NEW r \in rs, NEW read,
           \/ r.kind = "preferences" /\ read = "preferenceRead"
           \/ r.kind = "wallets" /\ read = "walletRead"
    PROVE  Awaiting(endsRead(s, r, read), rs \ {r})
<1> DEFINE t == endsRead(s, r, read)
<1>1. CASE r.generation # s.generation
  <2>1. t = s
    BY <1>1 DEF endsRead
  <2>. QED BY <1>1, <2>1 DEF Awaiting
<1>2. CASE r.generation = s.generation
  <2>1. t = [s EXCEPT ![read] = FALSE]
    BY <1>2 DEF endsRead
  <2>2. /\ t.initialized = s.initialized /\ t.auth = s.auth /\ t.generation = s.generation
        /\ t.queued = s.queued /\ t.wanted = s.wanted /\ t.edit = s.edit
    BY <2>1 DEF Tickers
  <2>3. \A kind \in {"wallets", "preferences", "save"} : Busy(t, kind) => Busy(s, kind) /\ kind # r.kind
    BY <2>1 DEF Tickers, Busy
  <2> HIDE DEF t
  <2>4. Awaiting(t, rs \ {r})
    BY <2>2, <2>3 DEF Awaiting
  <2>. QED BY <2>4 DEF t
<1>. QED BY <1>1, <1>2

\* The save of a generation is the only one, and when it has ended there is none.
LEMMA SavedLooping ==
    ASSUME NEW s \in Tickers, NEW rs, Carried(s, rs), Awaiting(s, rs),
           NEW r \in rs, r.kind = "save", isCurrent(s, r)
    PROVE  saved(s, r) \in Tickers /\ Looping(saved(s, r), rs \ {r})
<1>1. r \in TickerRequests
  BY DEF Carried
<1>2. saved(s, r) \in Tickers /\ SameWaits(s, saved(s, r))
  <2>1. {} \in Chosen
    BY DEF Chosen
  <2>. QED BY <1>1, <2>1, AnswersWait
<1>3. s.initialized /\ s.auth /\ r.generation = s.generation
  BY DEF isCurrent
<1>4. \A q \in rs \ {r} : ~(q.kind = "save" /\ q.generation = s.generation)
  BY <1>3 DEF Carried, Alone
<1>5. Looping(s, rs \ {r})
  BY <1>3, <1>4 DEF Looping, Awaiting
<1>. QED BY <1>2, <1>5, SameWaitsAwaiting

\* A request that is served or fails is still waited for.
LEMMA ReplacedAwaiting ==
    ASSUME NEW s, NEW rs, Awaiting(s, rs), NEW r \in rs, NEW n, n.kind = r.kind,
           n.generation = r.generation, n.edit = r.edit,
           n.kind = "save" /\ n.phase # "failed" => r.phase # "failed" /\ n.choice = r.choice
    PROVE  Awaiting(s, (rs \ {r}) \cup {n})
  BY DEF Awaiting

-----------------------------------------------------------------------------
\* The actions.  A change of management begins a generation.
LEMMA ManageAwaits ==
    ASSUME IInv, Awaiting(c, requests), NEW auth \in BOOLEAN, Manage(auth)
    PROVE  Awaiting(c, requests)'
<1>1. Here = [s |-> Here.s, rs |-> Here.rs] /\ Here.s = c /\ Here.rs = requests
  BY DEF Here
<1>2. c \in Tickers /\ Carried(c, requests) /\ c.initialized
  BY DEF IInv, Sound, Manage
<1>3. Awaiting(onManagement(Here, auth).s, onManagement(Here, auth).rs)
  BY <1>1, <1>2, ManagementAwaiting
<1>. QED BY <1>3 DEF Manage, Becomes

\* A page that is hidden goes on waiting, one that is shown again is locked first.
LEMMA VisibilityAwaits ==
    ASSUME IInv, Awaiting(c, requests), Hide \/ Reveal
    PROVE  Awaiting(c, requests)'
<1>1. c \in Tickers /\ Carried(c, requests)
  BY DEF IInv, Sound
<1>2. CASE Hide
  <2> DEFINE h == [c EXCEPT !.hidden = TRUE, !.masked = TRUE]
             u == closePopup(stopTimers(h))
             t == renderButton(u)
  <2>1. h \in Tickers /\ SameWaits(c, h)
    BY <1>1 DEF Tickers, SameWaits
  <2> HIDE DEF h
  <2>2. u \in Tickers /\ SameWork(h, u)
    BY <2>1, StoppedPrivate
  <2> HIDE DEF u
  <2>3. SameWaits(u, t)
    BY <2>2, ShownWaits
  <2>4. c' = t /\ UNCHANGED requests
    BY <1>2 DEF Hide, t, u, h
  <2> HIDE DEF t
  <2>5. SameWaits(c, t)
    BY <2>1, <2>2, <2>3 DEF SameWaits, SameWork
  <2>. QED BY <2>4, <2>5, SameWaitsAwaiting
<1>3. CASE Reveal
  <2> DEFINE h == [c EXCEPT !.hidden = FALSE, !.masked = TRUE]
             s == renderButton(h)
             p == [Here EXCEPT !.s = s]
  <2>1. h \in Tickers /\ SameWaits(c, h)
    BY <1>1 DEF Tickers, SameWaits
  <2>2. Becomes(p) \/ Becomes(onManagement(p, FALSE))
    BY <1>3 DEF Reveal
  <2> HIDE DEF h
  <2>3. s \in Tickers /\ SameWaits(h, s)
    BY <2>1, ShownWaits
  <2>4. s.initialized /\ SameWaits(c, s)
    BY <1>3, <2>1, <2>3 DEF Reveal, SameWaits
  <2>5. p = [s |-> p.s, rs |-> p.rs] /\ p.s = s /\ p.rs = requests
    BY DEF Here
  <2> HIDE DEF s, p
  <2>6. Carried(s, requests)
    <3>1. \A r : Matched(c, r) => Matched(s, r)
      BY <2>4 DEF Matched, Busy, SameWaits
    <3>. QED BY <1>1, <3>1 DEF Carried
  <2>7. Awaiting(p.s, p.rs)
    BY <2>4, <2>5, SameWaitsAwaiting
  <2>8. Awaiting(onManagement(p, FALSE).s, onManagement(p, FALSE).rs)
    BY <2>3, <2>4, <2>5, <2>6, ManagementAwaiting
  <2>. QED BY <2>2, <2>7, <2>8 DEF Becomes
<1>. QED BY <1>2, <1>3

\* A page that goes to the cache and a role that ends wait for nothing.
LEMMA ForgetAwaits ==
    ASSUME IInv, Awaiting(c, requests), PageHide \/ Dispose
    PROVE  Awaiting(c, requests)'
<1> DEFINE d == [c EXCEPT !.initialized = FALSE]
<1>1. c \in Tickers /\ Carried(c, requests)
  BY DEF IInv, Sound
<1>2. CASE PageHide
  <2> DEFINE w == wipe(c)
             t == [w EXCEPT !.masked = TRUE]
  <2>1. w \in Tickers /\ Wiped(w) /\ w.generation = c.generation + 1
    BY <1>1, WipePrivate
  <2>2. c' = t /\ UNCHANGED requests
    BY <1>2 DEF PageHide
  <2> HIDE DEF w
  <2>3. t \in Tickers /\ SameWaits(w, t)
    BY <2>1 DEF Tickers, SameWaits
  <2> HIDE DEF t
  <2>4. Awaiting(w, requests)
    BY <1>1, <2>1, WipedAwaiting
  <2>. QED BY <2>2, <2>3, <2>4, SameWaitsAwaiting
<1>3. CASE Dispose
  <2>1. d \in Tickers /\ d.generation = c.generation
    BY <1>1 DEF Tickers
  <2>2. c' = wipe(d) /\ UNCHANGED requests
    BY <1>3 DEF Dispose
  <2> HIDE DEF d
  <2>3. wipe(d) \in Tickers /\ Wiped(wipe(d)) /\ wipe(d).generation = c.generation + 1
    BY <2>1, WipePrivate
  <2>4. Awaiting(wipe(d), requests)
    BY <1>1, <2>3, WipedAwaiting
  <2>. QED BY <2>2, <2>4
<1>. QED BY <1>2, <1>3

\* Looking at the ticker asks for nothing but a refresh.
LEMMA LookAwaits ==
    ASSUME IInv, Awaiting(c, requests), Click \/ Poll \/ Rotate \/ Step
    PROVE  Awaiting(c, requests)'
<1>1. c \in Tickers /\ Carried(c, requests)
  BY DEF IInv, Sound
<1>2. CASE Click /\ c.popup
  <2> DEFINE t == closePopup(c)
             p == [Here EXCEPT !.s = t]
  <2>1. SameWork(c, t)
    BY <1>1, StoppedPrivate
  <2>2. Becomes(p)
    BY <1>2 DEF Click
  <2> HIDE DEF t
  <2>3. p.s = t /\ p.rs = requests
    BY DEF Here
  <2>4. SameWaits(c, t)
    BY <2>1 DEF SameWork, SameWaits
  <2>5. c' = t /\ requests' = requests
    BY <2>2, <2>3 DEF Becomes
  <2>. QED BY <2>4, <2>5, SameWaitsAwaiting
<1>3. CASE Click /\ ~c.popup
  <2> DEFINE o == [c EXCEPT !.popup = TRUE]
             t == renderButton(o)
             p == [Here EXCEPT !.s = t]
  <2>1. Becomes(refresh(p))
    BY <1>3 DEF Click
  <2>2. o \in Tickers /\ SameWaits(c, o)
    BY <1>1 DEF Tickers, SameWaits
  <2> HIDE DEF o
  <2>3. t \in Tickers /\ SameWaits(o, t)
    BY <2>2, ShownWaits
  <2> HIDE DEF t
  <2>4. p = [s |-> p.s, rs |-> p.rs] /\ p.s = t /\ p.rs = requests
    BY DEF Here
  <2> HIDE DEF p
  <2>5. SameWaits(c, t)
    BY <2>2, <2>3 DEF SameWaits
  <2>6. Awaiting(p.s, p.rs)
    BY <2>4, <2>5, SameWaitsAwaiting
  <2>7. Awaiting(refresh(p).s, refresh(p).rs)
    BY <2>3, <2>4, <2>6, RefreshAwaiting
  <2>. QED BY <2>1, <2>7 DEF Becomes
<1>4. CASE Poll
  <2>1. Here = [s |-> Here.s, rs |-> Here.rs] /\ Here.s = c /\ Here.rs = requests
    BY DEF Here
  <2>2. Awaiting(refresh(Here).s, refresh(Here).rs)
    BY <1>1, <2>1, RefreshAwaiting
  <2>. QED BY <1>4, <2>2 DEF Poll, Becomes
<1>5. CASE Rotate \/ Step
  <2> DEFINE n == following(available(c), c.current)
             t == [c EXCEPT !.current = n]
  <2>1. c' = t /\ UNCHANGED requests
    BY <1>5 DEF Rotate, Step
  <2> HIDE DEF n
  <2>2. SameWaits(c, t)
    BY <1>1 DEF Tickers, SameWaits
  <2>. QED BY <2>1, <2>2, SameWaitsAwaiting
<1>. QED BY <1>2, <1>3, <1>4, <1>5

\* An edit has a number no request has: it is queued, and posted if nothing is.
LEMMA EditAwaits ==
    ASSUME IInv, Awaiting(c, requests), NEW choice \in Selections, Edit(choice)
    PROVE  Awaiting(c, requests)'
<1> DEFINE u == [c EXCEPT !.preferences = choice, !.queued = choice, !.edit = @ + 1, !.wanted = choice]
           t == scheduleRotation(renderButton(u))
           p == [Here EXCEPT !.s = t]
<1>1. c \in Tickers /\ Carried(c, requests)
  BY DEF IInv, Sound
<1>2. c.auth /\ Becomes(IF t.saving THEN p ELSE post(p))
  BY DEF Edit
<1>3. choice \in Choice /\ choice # None /\ c.edit \in Nat
  BY <1>1, WalletTickerAssumption DEF Choice, Tickers
<1>4. c.edit + 1 \in Nat
  BY <1>3
<1>5. u \in Tickers
  BY <1>1, <1>3, <1>4 DEF Tickers
<1>6. /\ u.initialized = c.initialized /\ u.auth = c.auth /\ u.generation = c.generation
      /\ u.queued = choice /\ u.wanted = choice /\ u.edit = c.edit + 1 /\ u.saving = c.saving
      /\ u.preferenceRead = c.preferenceRead /\ u.walletRead = c.walletRead
  BY <1>1 DEF Tickers
<1>7. c.initialized
  BY DEF Edit, Toggles, IInv, Sound, Private, Withdrawn
<1> HIDE DEF u
<1>8. t \in Tickers /\ SameWaits(u, t)
  BY <1>5, ShownWaits
<1> HIDE DEF t
<1>9. p.s = t /\ p.rs = requests
  BY DEF Here
<1> HIDE DEF p
<1>10. \A r \in requests : r.generation = c.generation /\ r.kind = "save" => r.edit # c.edit + 1
  <2>1. ASSUME NEW r \in requests, r.generation = c.generation, r.kind = "save" PROVE r.edit # c.edit + 1
    <3>1. r.edit \in Nat /\ r.edit <= c.edit
      BY <1>1, <2>1 DEF Carried, Matched, TickerRequests
    <3>. QED BY <1>3, <3>1
  <2>. QED BY <2>1
<1>11. CASE c.saving
  <2>1. Awaiting(u, requests)
    BY <1>6, <1>10 DEF Awaiting, Busy
  <2>2. Awaiting(t, requests)
    BY <1>8, <2>1, SameWaitsAwaiting
  <2>3. Becomes(p)
    BY <1>2, <1>6, <1>8, <1>11 DEF SameWaits
  <2>. QED BY <1>9, <2>2, <2>3 DEF Becomes
<1>12. CASE ~c.saving
  <2>1. \A r \in requests : ~(r.kind = "save" /\ r.generation = c.generation)
    BY <1>1, <1>12 DEF Carried, Matched, Busy
  <2>2. Looping(u, requests)
    BY <1>2, <1>6, <1>7, <2>1 DEF Awaiting, Looping, Busy
  <2>3. Looping(t, requests)
    BY <1>8, <2>2, SameWaitsAwaiting
  <2>4. t.queued # None
    BY <1>3, <1>6, <1>8 DEF SameWaits
  <2>5. Awaiting(post(p).s, post(p).rs)
    BY <1>8, <1>9, <2>3, <2>4, PostAwaiting
  <2>6. Becomes(post(p))
    BY <1>2, <1>6, <1>8, <1>12 DEF SameWaits
  <2>. QED BY <2>5, <2>6 DEF Becomes
<1>. QED BY <1>11, <1>12

\* The server's part, and a failure, leave a request in its place.
LEMMA ServeAwaits ==
    ASSUME IInv, Awaiting(c, requests), NEW r \in requests, Serve(r) \/ Fail(r)
    PROVE  Awaiting(c, requests)'
<1>1. r \in TickerRequests
  BY DEF IInv, Sound, Carried
<1>2. PICK n : /\ requests' = (requests \ {r}) \cup {n} /\ UNCHANGED c
               /\ n.kind = r.kind /\ n.generation = r.generation /\ n.edit = r.edit
               /\ n.kind = "save" /\ n.phase # "failed" => r.phase # "failed" /\ n.choice = r.choice
  <2>1. CASE Serve(r) /\ r.kind = "preferences"
    <3> DEFINE n == [r EXCEPT !.phase = "back", !.revision = revisionNow, !.choice = choiceNow]
    <3>1. requests' = (requests \ {r}) \cup {n} /\ UNCHANGED c
      BY <2>1 DEF Serve
    <3>2. n.kind = r.kind /\ n.generation = r.generation /\ n.edit = r.edit
      BY <1>1 DEF TickerRequests
    <3>. QED BY <2>1, <3>1, <3>2
  <2>2. CASE Serve(r) /\ r.kind = "save"
    <3> DEFINE n == [r EXCEPT !.phase = "back", !.revision = revisionNow + 1]
    <3>1. requests' = (requests \ {r}) \cup {n} /\ UNCHANGED c /\ r.phase = "sent"
      BY <2>2 DEF Serve
    <3>2. n.kind = r.kind /\ n.generation = r.generation /\ n.edit = r.edit /\ n.choice = r.choice
      BY <1>1 DEF TickerRequests
    <3>. QED BY <3>1, <3>2
  <2>3. CASE Fail(r)
    <3> DEFINE n == [r EXCEPT !.phase = "failed", !.choice = None, !.revision = 0]
    <3>1. requests' = (requests \ {r}) \cup {n} /\ UNCHANGED c
      BY <2>3 DEF Fail
    <3>2. n.kind = r.kind /\ n.generation = r.generation /\ n.edit = r.edit /\ n.phase = "failed"
      BY <1>1 DEF TickerRequests
    <3>. QED BY <3>1, <3>2
  <2>. QED BY <2>1, <2>2, <2>3 DEF Serve
<1>. QED BY <1>2, ReplacedAwaiting

\* An answer that arrives ends what was waited for, or begins the next save.
LEMMA DeliverAwaits ==
    ASSUME IInv, Awaiting(c, requests), NEW r \in requests, Deliver(r)
    PROVE  Awaiting(c, requests)'
<1> DEFINE gone == [Here EXCEPT !.rs = @ \ {r}]
           With(t) == [gone EXCEPT !.s = t]
<1>1. c \in Tickers /\ Carried(c, requests)
  BY DEF IInv, Sound
<1>2. r \in TickerRequests
  BY <1>1 DEF Carried
<1>3. gone = [s |-> c, rs |-> requests \ {r}]
  BY DEF Here
<1>4. \A t : With(t) = [s |-> With(t).s, rs |-> With(t).rs]
      /\ With(t).s = t /\ With(t).rs = requests \ {r}
  <2> TAKE t
  <2>1. With(t) = [[s |-> c, rs |-> requests \ {r}] EXCEPT !.s = t]
    BY <1>3
  <2>2. [[s |-> c, rs |-> requests \ {r}] EXCEPT !.s = t] = [s |-> t, rs |-> requests \ {r}]
    OBVIOUS
  <2>. QED BY <2>1, <2>2
<1> HIDE DEF gone
\* A read: the ticker that has taken its answer waits as before, until it ends.
<1>5. ASSUME NEW s \in Tickers, SameWaits(c, s), NEW read,
             \/ r.kind = "preferences" /\ read = "preferenceRead"
             \/ r.kind = "wallets" /\ read = "walletRead"
      PROVE  endsRead(s, r, read) \in Tickers /\ Awaiting(endsRead(s, r, read), requests \ {r})
  <2>1. Carried(s, requests)
    <3>1. \A q : Matched(c, q) => Matched(s, q)
      BY <1>5 DEF Matched, Busy, SameWaits
    <3>. QED BY <1>1, <3>1 DEF Carried
  <2>2. Awaiting(s, requests)
    BY <1>5, SameWaitsAwaiting
  <2>3. endsRead(s, r, read) \in Tickers
    BY <1>5 DEF endsRead, Tickers
  <2>. QED BY <1>5, <2>1, <2>2, <2>3, EndsAwaiting
<1>6. {} \in Chosen /\ \A ready \in Balances : ready \in Chosen
  BY WalletTickerAssumption DEF Chosen
<1>7. CASE r.kind = "preferences" /\ r.phase = "back"
  <2> DEFINE t == endsRead(preferencesRead(c, r), r, "preferenceRead")
  <2>1. t \in Tickers /\ Awaiting(t, requests \ {r})
    BY <1>1, <1>2, <1>5, <1>6, <1>7, AnswersWait
  <2>2. Becomes(refreshWallets(With(t)))
    BY <1>7 DEF Deliver, gone
  <2> HIDE DEF t, With
  <2>3. Awaiting(refreshWallets(With(t)).s, refreshWallets(With(t)).rs)
    BY <1>4, <2>1, RefreshAwaiting
  <2>. QED BY <2>2, <2>3 DEF Becomes
<1>8. CASE r.phase = "failed" /\ r.kind # "save"
  <2> DEFINE read == IF r.kind = "preferences" THEN "preferenceRead" ELSE "walletRead"
             t == endsRead(unavailable(c, r), r, read)
  <2>1. \/ r.kind = "preferences" /\ read = "preferenceRead"
        \/ r.kind = "wallets" /\ read = "walletRead"
    BY <1>2, <1>8 DEF TickerRequests
  <2>2. Becomes(With(t))
    BY <1>8, <2>1 DEF Deliver, gone
  <2> HIDE DEF read
  <2>3. Awaiting(t, requests \ {r})
    BY <1>1, <1>2, <1>5, <1>6, <2>1, AnswersWait
  <2> HIDE DEF t, With
  <2>. QED BY <1>4, <2>2, <2>3 DEF Becomes
<1>9. CASE r.kind = "wallets" /\ r.phase = "sent"
  <2> DEFINE t(ready) == endsRead(walletsRead(c, r, ready), r, "walletRead")
  <2>1. PICK ready \in Balances : Becomes(With(t(ready)))
    BY <1>9 DEF Deliver, gone
  <2>2. Awaiting(t(ready), requests \ {r})
    BY <1>1, <1>2, <1>5, <1>6, <1>9, AnswersWait
  <2> HIDE DEF t, With
  <2>. QED BY <1>4, <2>1, <2>2 DEF Becomes
<1>10. CASE r.kind = "save" /\ isCurrent(c, r)
  <2> DEFINE t == saved(c, r)
  <2>1. t \in Tickers /\ Looping(t, requests \ {r})
    BY <1>1, <1>10, SavedLooping
  <2>2. Becomes(continueSaving(With(t)))
    BY <1>10 DEF Deliver, gone
  <2> HIDE DEF t, With
  <2>3. Awaiting(continueSaving(With(t)).s, continueSaving(With(t)).rs)
    BY <1>4, <2>1, ContinueAwaiting
  <2>. QED BY <2>2, <2>3 DEF Becomes
<1>11. CASE r.kind = "save" /\ ~isCurrent(c, r)
  <2>1. Becomes(gone)
    BY <1>11 DEF Deliver, gone
  <2>2. c' = c /\ requests' = requests \ {r}
    BY <1>3, <2>1 DEF Becomes
  \* It is of an older generation: the flags of this one are raised while it is unlocked.
  <2>3. r.generation # c.generation
    <3>1. ASSUME r.generation = c.generation PROVE FALSE
      <4>1. Busy(c, "save")
        BY <1>1, <1>11, <3>1 DEF Carried, Matched
      <4>2. c.initialized /\ c.auth
        BY <4>1 DEF Awaiting
      <4>. QED BY <1>11, <3>1, <4>2 DEF isCurrent
    <3>. QED BY <3>1
  <2>4. Awaiting(c, requests \ {r})
    BY <2>3 DEF Awaiting
  <2>. QED BY <2>2, <2>4
<1>. QED BY <1>2, <1>7, <1>8, <1>9, <1>10, <1>11 DEF Deliver, TickerRequests

\* What a ticker waits for is under way, so that no flag keeps later reads and
\* saves away for ever; and the latest edit is queued or in the save under way,
\* so that it is never the one that is forgotten (ticker.js, readPreferences,
\* readWallets and queueSave).
UnderWay(kind) == {r \in requests : r.kind = kind /\ r.generation = c.generation}

NothingForgotten ==
    /\ c.walletRead => UnderWay("wallets") # {}
    /\ c.preferenceRead => UnderWay("preferences") # {}
    /\ c.saving => UnderWay("save") # {}
    /\ c.queued # None => c.saving /\ c.queued = c.wanted
    /\ c.saving /\ c.queued = None =>
          \A r \in UnderWay("save") : r.phase # "failed" => r.choice = c.wanted

\* Flags, requests and the latest edit fit together, whatever is lost or locked.
THEOREM TickerForgetsNothing == Spec => []NothingForgotten
<1>1. Init => Awaiting(c, requests)
  BY DEF Init, NewTicker, Awaiting, Busy
<1>2. IInv /\ Awaiting(c, requests) /\ [Next]_vars => Awaiting(c, requests)'
  <2> SUFFICES ASSUME IInv, Awaiting(c, requests), [Next]_vars PROVE Awaiting(c, requests)'
    OBVIOUS
  <2>1. CASE UNCHANGED vars
    BY <2>1 DEF vars
  <2>2. ASSUME NEW auth \in BOOLEAN, Manage(auth) PROVE Awaiting(c, requests)'
    BY <2>2, ManageAwaits
  <2>3. CASE Hide \/ Reveal
    BY <2>3, VisibilityAwaits
  <2>4. CASE PageHide \/ Dispose
    BY <2>4, ForgetAwaits
  <2>5. CASE Click \/ Poll \/ Rotate \/ Step
    BY <2>5, LookAwaits
  <2>6. ASSUME NEW choice \in Selections, Edit(choice) PROVE Awaiting(c, requests)'
    BY <2>6, EditAwaits
  <2>7. ASSUME NEW choice \in Selections, OtherSaves(choice) PROVE Awaiting(c, requests)'
    BY <2>7 DEF OtherSaves
  <2>8. ASSUME NEW r \in requests, Serve(r) \/ Fail(r) PROVE Awaiting(c, requests)'
    BY <2>8, ServeAwaits
  <2>9. ASSUME NEW r \in requests, Deliver(r) PROVE Awaiting(c, requests)'
    BY <2>9, DeliverAwaits
  <2>. QED BY <2>1, <2>2, <2>3, <2>4, <2>5, <2>6, <2>7, <2>8, <2>9 DEF Next
<1>3. IInv /\ Awaiting(c, requests) => NothingForgotten
  <2> SUFFICES ASSUME IInv, Awaiting(c, requests) PROVE NothingForgotten
    OBVIOUS
  <2>1. \A kind \in {"wallets", "preferences", "save"} : Busy(c, kind) => UnderWay(kind) # {}
    BY DEF Awaiting, UnderWay
  <2>2. /\ c.walletRead => UnderWay("wallets") # {}
        /\ c.preferenceRead => UnderWay("preferences") # {}
        /\ c.saving => UnderWay("save") # {}
    BY <2>1 DEF Busy
  <2>3. c.queued # None => c.saving /\ c.queued = c.wanted
    BY DEF Awaiting, IInv, Sound, Reconciled
  <2>4. ASSUME c.saving, c.queued = None, NEW r \in UnderWay("save"), r.phase # "failed"
        PROVE  r.choice = c.wanted
    <3>1. r \in requests /\ r.kind = "save" /\ r.generation = c.generation
      BY DEF UnderWay
    <3>2. r.edit = c.edit
      BY <2>4, <3>1 DEF IInv, Sound, Carried, Matched
    <3>. QED BY <2>4, <3>1, <3>2 DEF Awaiting
  <2>. QED BY <2>2, <2>3, <2>4 DEF NothingForgotten
<1>. QED BY <1>1, <1>2, <1>3, TickerInvariance, PTL DEF Spec
=============================================================================
