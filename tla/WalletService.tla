---------------------------- MODULE WalletService ----------------------------
(***************************************************************************)
(* The wallet service (services/wallets.ts) and the store of its choices   *)
(* (wallet-preferences.ts).  A choice is the set of wallets shown.  Writes *)
(* of it are chained: each waits for the one before it, then asks the node *)
(* for the catalogue of wallets when it adds a name, then saves.  The      *)
(* catalogue is read by two workers under one budget and shared by all who *)
(* ask; it is kept until it expires.                                       *)
(*                                                                         *)
(* A wallet is a number, its place among the sorted names.  The save is    *)
(* synchronous, so it is one step with its possible ends: stored, failed,  *)
(* or stored by a process that dies before it answers.                     *)
(***************************************************************************)
EXTENDS Naturals, Sequences, FiniteSets, FiniteSetsExt

CONSTANTS Wallets,     \* every wallet the node may have loaded
          Catalogs,    \* what listwallets may answer
          Selections,     \* the selections a client may ask for
          Files,       \* the preference files a first start may find
          Outcomes,    \* the rows a wallet's reads may end with
          Poll,        \* the reader that only shows the catalogue
          Nobody,
          MaxWrites,   \* bound: preference writes in one behaviour
          MaxCrashes   \* bound: restarts of the process

RowStates == {"ready", "scanning", "unloaded", "ineligible", "unavailable"}

ASSUME WalletServiceAssumption ==
    /\ Wallets \subseteq Nat /\ IsFiniteSet(Wallets)
    /\ Catalogs \subseteq SUBSET Wallets /\ Selections \subseteq SUBSET Wallets
    /\ Outcomes \subseteq RowStates
    /\ Files \subseteq [kind : {"own", "other", "invalid"}, revision : Nat, sel : SUBSET Wallets]
    /\ Poll \notin Nat /\ Nobody \notin Nat
    /\ MaxWrites \in Nat /\ MaxCrashes \in Nat

VARIABLES disk,      \* wallet-ticker.json: whose it is, its revision, its choice
          mem,       \* the store's value, revision and failed
          writes,    \* the chain of setPreferences calls in the order they came
          flight,    \* the refresh under way
          catalog,   \* the snapshot the cache holds, or none
          cursor,    \* where the next refresh begins
          listed,    \* history: the last answer of listwallets
          since,     \* history: attempts on others since each wallet's last one
          answered,  \* history: the revisions and choices clients were told
          crashes

vars == <<disk, mem, writes, flight, catalog, cursor, listed, since, answered, crashes>>
store == <<disk, mem, answered>>
reads == <<flight, catalog, cursor, listed, since>>

Workers == {1, 2}
NoFlight == [phase |-> "idle", readers |-> {}, order |-> <<>>, start |-> 0, next |-> 0,
             hand |-> [k \in Workers |-> Nobody], rows |-> <<>>]
NoCatalog == [kept |-> FALSE, eligible |-> {}]

----------------------------------------------------------------------------
(* The store.                                                              *)

\* The constructor: another scope's file is left alone, a bad one is fatal.
load(file) ==
    [sel |-> IF file.kind = "own" THEN file.sel ELSE {},
     revision |-> IF file.kind = "own" THEN file.revision ELSE 0,
     failed |-> file.kind = "invalid"]

response == [revision |-> mem.revision, sel |-> mem.sel]

----------------------------------------------------------------------------
(* The catalogue.                                                          *)

\* The names in their order.
Sorted(names) ==
    CHOOSE s \in [1..Cardinality(names) -> names] : \A i, j \in DOMAIN s : i < j => s[i] < s[j]

\* The loaded names in order, beginning where the last refresh stopped.
roundRobin(names, from) ==
    LET sorted == Sorted(names)
        start  == IF names = {} THEN 0 ELSE from % Cardinality(names)
    IN  [start |-> start,
         order |-> SubSeq(sorted, start + 1, Len(sorted)) \o SubSeq(sorted, 1, start)]

\* The refresh after this one begins behind the name that is taken now.
\* nextCursorSame is a mutant: it begins with that name again.
nextCursorSame(f) == IF f.order = <<>> THEN 0 ELSE (f.start + f.next) % Len(f.order)
nextCursor(f) == IF f.order = <<>> THEN 0 ELSE (f.start + f.next + 1) % Len(f.order)

\* A worker takes the next name, as long as there is one.
take(s, k) ==
    IF s.f.next >= Len(s.f.order) THEN [s EXCEPT !.f.hand[k] = Nobody]
    ELSE LET name == s.f.order[s.f.next + 1]
         IN  [f |-> [s.f EXCEPT !.hand[k] = name, !.next = @ + 1],
              cursor |-> nextCursor(s.f),
              since |-> [w \in Wallets |-> IF w = name THEN 0
                                           ELSE Min({s.since[w] + 1, Cardinality(Wallets)})]]

eligible(rows) == {w \in DOMAIN rows : rows[w] \in {"ready", "scanning"}}

\* refresh settles: its snapshot is kept, and the writes that waited go on.
finish(f) ==
    /\ flight' = NoFlight
    /\ catalog' = [kept |-> TRUE, eligible |-> eligible(f.rows)]
    /\ writes' = [i \in DOMAIN writes |->
           IF i \in f.readers THEN [writes[i] EXCEPT !.phase = "checked", !.eligible = eligible(f.rows)]
           ELSE writes[i]]

\* A reader asks the cache: it is answered, joins the refresh or begins one.
join(r) ==
    flight' = IF flight.phase = "idle" THEN [NoFlight EXCEPT !.phase = "listing", !.readers = {r}]
              ELSE [flight EXCEPT !.readers = @ \cup {r}]

\* A reader that leaves last takes the refresh with it; the cursor stays.
leave(r) ==
    flight' = IF flight.readers \subseteq {r} THEN NoFlight ELSE [flight EXCEPT !.readers = @ \ {r}]

----------------------------------------------------------------------------
Init ==
    /\ disk \in Files
    /\ mem = load(disk)
    /\ writes = <<>>
    /\ flight = NoFlight
    /\ catalog = NoCatalog
    /\ cursor = 0
    /\ listed = {}
    /\ since = [w \in Wallets |-> 0]
    /\ answered = {}
    /\ crashes = 0

Pending(i) == writes[i].phase \in {"queued", "checking", "checked"}

\* Two mutants of Turn: no chain, and a chain that a failed write breaks.
TurnAtOnce(i) == i \in DOMAIN writes
TurnAfterSuccess(i) == \A j \in 1..(i - 1) : writes[j].phase = "stored"

\* The chain: preferenceWrites has come to this write, whatever the others' ends.
Turn(i) == \A j \in 1..(i - 1) : ~Pending(j)

Ends(i, phase) == writes' = [writes EXCEPT ![i] = [@ EXCEPT !.phase = phase, !.eligible = {}, !.left = FALSE]]

\* POST /api/wallets/preferences with a valid choice.
Arrive(sel) ==
    /\ Len(writes) < MaxWrites
    /\ writes' = Append(writes, [phase |-> "queued", sel |-> sel, left |-> FALSE, eligible |-> {}])
    /\ UNCHANGED <<store, reads, crashes>>

additions(i) == writes[i].sel \ mem.sel

\* A mutant of saveFails: the value is set before the file is in place.
saveFailsLate(i) ==
    /\ Ends(i, "failed")
    /\ mem' = [mem EXCEPT !.sel = writes[i].sel, !.revision = @ + 1]
    /\ UNCHANGED <<disk, answered, reads, crashes>>
\* What the store answers when the temporary file or the rename fails.
saveFails(i) ==
    /\ Ends(i, "failed")
    /\ UNCHANGED <<store, reads, crashes>>

savedFile(i) == [kind |-> "own", revision |-> mem.revision + 1, sel |-> writes[i].sel]

\* The process ends: what was pending is lost, and the next one reads the file.
restart(file) ==
    /\ crashes < MaxCrashes
    /\ crashes' = crashes + 1
    /\ mem' = load(file)
    /\ writes' = [i \in DOMAIN writes |->
           IF Pending(i) THEN [writes[i] EXCEPT !.phase = "lost"] ELSE writes[i]]
    /\ flight' = NoFlight
    /\ catalog' = NoCatalog
    /\ cursor' = 0
    /\ listed' = {}
    /\ since' = [w \in Wallets |-> 0]

save(i) ==
    \/ saveFails(i)
    \/ /\ disk' = savedFile(i)
       /\ mem' = [mem EXCEPT !.sel = writes[i].sel, !.revision = @ + 1]
       /\ Ends(i, "stored")
       /\ answered' = answered \cup {[revision |-> mem'.revision, sel |-> mem'.sel]}
       /\ UNCHANGED <<reads, crashes>>
    \/ /\ disk' = savedFile(i)
       /\ restart(savedFile(i))
       /\ UNCHANGED answered

\* The write's turn: an absent caller and an unreadable store end it.
Start(i) ==
    /\ writes[i].phase = "queued" /\ Turn(i)
    /\ \/ /\ writes[i].left \/ mem.failed
          /\ Ends(i, IF writes[i].left THEN "gone" ELSE "failed")
          /\ UNCHANGED <<store, reads, crashes>>
       \/ /\ ~writes[i].left /\ ~mem.failed /\ additions(i) = {}
          /\ save(i)
       \/ /\ ~writes[i].left /\ ~mem.failed /\ additions(i) # {}
          /\ IF catalog.kept
             THEN /\ writes' = [writes EXCEPT ![i].phase = "checked", ![i].eligible = catalog.eligible]
                  /\ UNCHANGED flight
             ELSE /\ Ends(i, "checking")
                  /\ join(i)
          /\ UNCHANGED <<store, catalog, cursor, listed, since, crashes>>

\* The snapshot has come: an addition that it does not list refuses the write.
Decide(i) ==
    /\ writes[i].phase = "checked"
    /\ \/ /\ writes[i].left
          /\ Ends(i, "gone")
          /\ UNCHANGED <<store, reads, crashes>>
       \/ /\ ~writes[i].left /\ ~(additions(i) \subseteq writes[i].eligible)
          /\ Ends(i, "refused")
          /\ UNCHANGED <<store, reads, crashes>>
       \/ /\ ~writes[i].left /\ additions(i) \subseteq writes[i].eligible
          /\ save(i)

\* The caller is gone: its connection closed, or its session was revoked.
Leave(i) ==
    /\ Pending(i) /\ ~writes[i].left
    /\ IF writes[i].phase = "checking" THEN Ends(i, "gone")
       ELSE writes' = [writes EXCEPT ![i].left = TRUE]
    /\ IF i \in flight.readers THEN leave(i) ELSE UNCHANGED flight
    /\ UNCHANGED <<store, catalog, cursor, listed, since, crashes>>

\* GET /api/wallets/preferences: an unreadable store tells nothing (503).
ReadPreferences ==
    /\ answered' = answered \cup (IF mem.failed THEN {} ELSE {response})
    /\ UNCHANGED <<disk, mem, writes, reads, crashes>>

\* GET /api/wallets, when the cache cannot answer it, and a caller that leaves.
Show ==
    /\ ~mem.failed /\ ~catalog.kept /\ Poll \notin flight.readers
    /\ join(Poll)
    /\ UNCHANGED <<store, writes, catalog, cursor, listed, since, crashes>>

ShowLeaves ==
    /\ Poll \in flight.readers
    /\ leave(Poll)
    /\ UNCHANGED <<store, writes, catalog, cursor, listed, since, crashes>>

----------------------------------------------------------------------------
\* listwallets answers: both workers take their first wallet.
List(names) ==
    /\ flight.phase = "listing"
    /\ LET rr == roundRobin(names, cursor)
           f  == [flight EXCEPT !.phase = "reading", !.start = rr.start, !.order = rr.order,
                                !.rows = [w \in names |-> "unavailable"]]
           s  == take(take([f |-> f, cursor |-> cursor,
                            since |-> IF names = listed THEN since ELSE [w \in Wallets |-> 0]], 1), 2)
       IN  /\ listed' = names
           /\ cursor' = s.cursor /\ since' = s.since
           /\ IF names = {} THEN finish(f)
              ELSE flight' = s.f /\ UNCHANGED <<catalog, writes>>
    /\ UNCHANGED <<store, crashes>>

\* A wallet's two reads end, and its worker takes the next or stops.
ReadEnds(k, state) ==
    /\ flight.phase = "reading" /\ flight.hand[k] # Nobody
    /\ LET f == [flight EXCEPT !.rows[flight.hand[k]] = state]
           s == take([f |-> f, cursor |-> cursor, since |-> since], k)
       IN  /\ cursor' = s.cursor /\ since' = s.since
           /\ IF \A j \in Workers : s.f.hand[j] = Nobody THEN finish(s.f)
              ELSE flight' = s.f /\ UNCHANGED <<catalog, writes>>
    /\ UNCHANGED <<store, listed, crashes>>

\* listwallets fails, or the budget of the refresh ends: the reads under way
\* end unavailable, and what was read before is the snapshot.
BudgetEnds ==
    /\ flight.phase # "idle"
    /\ finish(flight)
    /\ UNCHANGED <<store, cursor, listed, since, crashes>>

Expire ==
    /\ catalog.kept
    /\ catalog' = NoCatalog
    /\ UNCHANGED <<store, writes, flight, cursor, listed, since, crashes>>

Crash ==
    /\ restart(disk)
    /\ UNCHANGED <<disk, answered>>

Next ==
    \/ \E sel \in Selections : Arrive(sel)
    \/ \E i \in DOMAIN writes : Start(i) \/ Decide(i) \/ Leave(i)
    \/ ReadPreferences \/ Show \/ ShowLeaves
    \/ \E names \in Catalogs : List(names)
    \/ \E k \in Workers, state \in Outcomes : ReadEnds(k, state)
    \/ BudgetEnds \/ Expire \/ Crash

\* Promises settle, and a timer ends every refresh.  Nothing else must happen.
Fairness ==
    /\ \A i \in 1..MaxWrites :
          WF_vars(i \in DOMAIN writes /\ (Start(i) \/ Decide(i)))
    /\ WF_vars(BudgetEnds)

Spec == Init /\ [][Next]_vars /\ Fairness

----------------------------------------------------------------------------
TypeOK ==
    /\ mem \in [sel : SUBSET Wallets, revision : Nat, failed : BOOLEAN]
    /\ \A i \in DOMAIN writes :
          writes[i].phase \in {"queued", "checking", "checked", "stored", "refused", "failed", "gone", "lost"}
    /\ cursor \in 0..Cardinality(Wallets)
    /\ {i \in DOMAIN writes : writes[i].phase = "checking"} = flight.readers \ {Poll}

\* The choice in force is that of the last write, in the order the writes came,
\* that was answered with success: no earlier one is applied over it because
\* its wallets took longer to check (setPreferences, preferenceWrites).
LastSuccessStands ==
    LET stored == {i \in DOMAIN writes : writes[i].phase = "stored"}
        lost   == {i \in DOMAIN writes : writes[i].phase = "lost"}
    IN  stored # {} => \/ mem.sel = writes[Max(stored)].sel
                       \/ \E i \in lost : i > Max(stored) /\ mem.sel = writes[i].sel

\* What a client was told outlives the process: the file is at that revision or
\* a later one, and one revision never stands for two choices, over failed
\* saves and restarts (WalletPreferenceStore.save, the client's revision test).
AnswersPersist ==
    \A a \in answered :
        /\ disk.kind = "own" => a.revision < disk.revision \/ a = [revision |-> disk.revision, sel |-> disk.sel]
        /\ \A b \in answered : a.revision = b.revision => a = b

\* While the node's wallets stay the same, no wallet waits for more attempts
\* than there are other wallets, however often the budget ends a refresh early
\* or its readers abandon it (refresh, the cursor).
RoundRobin == \A w \in listed : since[w] < Cardinality(listed)

\* Every write ends, whatever became of the writes before it: a refused, failed
\* or abandoned one never blocks the chain.
WritesEnd == \A i \in 1..MaxWrites : []<>(i \in DOMAIN writes => ~Pending(i))
=============================================================================
