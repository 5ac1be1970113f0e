------------------------------ MODULE KeyedReads ------------------------------
(***************************************************************************)
(* KeyedSharedReads (src/server/shared-read.ts): one shared read for each  *)
(* key somebody waits for, and a bounded memory of the keys whose loads    *)
(* failed a moment ago.  A key's read moves between the active reads and   *)
(* the failures, while loads that were let go of settle late.  The values  *)
(* that were loaded go to an LRU cache (src/server/tasks.ts).              *)
(*                                                                         *)
(* SharedRead has the continuations of one settlement as steps of their    *)
(* own; here they are one.  Its readers are those of the module that       *)
(* extends this one.  Time is abstract: a cached failure ends at any       *)
(* moment, also between two looks at the clock in one call.                *)
(***************************************************************************)
EXTENDS Naturals, Sequences, FiniteSets, SequencesExt, FiniteSetsExt

CONSTANTS Keys, Readers,
          Reads,         \* the shared reads that exist at once, numbered
          Flights,       \* the loads that exist at once, numbered
          FailureLimit,  \* 256
          LruLimit,      \* 256
          None

ASSUME KeyedReadsAssumption ==
    /\ Reads \subseteq Nat \ {0} /\ Flights \subseteq Nat \ {0}
    /\ IsFiniteSet(Reads) /\ IsFiniteSet(Flights)
    /\ None \notin Reads \cup Flights \cup Keys
    /\ FailureLimit \in Nat /\ LruLimit \in Nat

VARIABLE shared  \* the reads of a KeyedSharedReads, their loads and the values cached

NoRead == [key |-> None, flight |-> None, failure |-> "none"]
NoFlight == [read |-> None, key |-> None, readers |-> {}, aborted |-> FALSE, live |-> FALSE]

NoReads ==
    [active |-> [key \in Keys |-> None],   \* this.active
     failures |-> <<>>,                    \* this.failures, the oldest first
     read |-> [i \in Reads |-> NoRead],
     flight |-> [f \in Flights |-> NoFlight],
     lru |-> <<>>]                         \* the keys whose values are cached

loading(s, i) == s.read[i].flight # None

\* cachedFailureExpires is later than now.
failureLasts(s, i) == s.read[i].failure = "fresh"

\* A Map without some of its entries: those of S, in the order they were set.
Restricted(seq, S) ==
    LET kept == {n \in DOMAIN seq : seq[n] \in S}
        Place(n) == CHOOSE m \in kept : Cardinality({j \in kept : j <= m}) = n
    IN  [n \in 1..Cardinality(kept) |-> seq[Place(n)]]

prune(s) == [s EXCEPT !.failures = Restricted(@, {i \in Reads : failureLasts(s, i)})]

\* A read nothing refers to is garbage.
Collected(s) ==
    [s EXCEPT !.read = [i \in Reads |->
        IF s.read[i].key # None /\ s.active[s.read[i].key] # i /\ i \notin Range(s.failures)
           /\ \A f \in Flights : s.flight[f].read # i
        THEN NoRead ELSE s.read[i]]]

Kept(failures) == IF Len(failures) > FailureLimit THEN Tail(failures) ELSE failures

\* A mutant of onIdle: the slot is cleared whoever has it.
onIdleAnyOwner(s, i) ==
    LET key == s.read[i].key
        pruned == prune([s EXCEPT !.active[key] = None])
    IN  IF loading(s, i) THEN s
        ELSE IF failureLasts(pruned, i) /\ ~Contains(pruned.failures, i)
             THEN [pruned EXCEPT !.failures = Kept(Append(@, i))] ELSE pruned

\* A read without a load leaves its slot, if it is still the slot's.
onIdle(s, i) ==
    LET key == s.read[i].key
        pruned == prune([s EXCEPT !.active[key] = None])
    IN  IF loading(s, i) \/ s.active[key] # i THEN s
        ELSE IF failureLasts(pruned, i)
             THEN [pruned EXCEPT !.failures = Kept(Append(@, i))] ELSE pruned

\* The slot of a key that is asked for: its active read, a failure's, or a new one.
Slot(s, key) ==
    LET failed == {i \in Range(s.failures) : s.read[i].key = key}
    IN  IF s.active[key] # None THEN s.active[key]
        ELSE IF failed # {} THEN Min(failed)
        ELSE Min({i \in Reads : s.read[i] = NoRead})

\* SharedRead.get after its look at the cache: join the load, or begin one.
Joined(s, i, reader) ==
    IF loading(s, i) THEN [s EXCEPT !.flight[s.read[i].flight].readers = @ \cup {reader}]
    ELSE LET f == Min({g \in Flights : s.flight[g] = NoFlight})
         IN  [s EXCEPT !.read[i].flight = f,
                       !.flight[f] = [read |-> i, key |-> s.read[i].key, readers |-> {reader},
                                      aborted |-> FALSE, live |-> TRUE]]

\* A mutant of Owned: a failure that is retried stays among the failures.
OwnedNever(s, i) == s

\* A retry owns an active slot before another caller can join it.
Owned(s, i) ==
    IF loading(s, i)
    THEN [s EXCEPT !.failures = Restricted(@, Reads \ {i}), !.active[s.read[i].key] = i]
    ELSE s

\* The read of get, entered in active when it is new.
Entered(s, key) ==
    LET pruned == prune(s)
        i == Slot(pruned, key)
    IN  [s |-> IF pruned.read[i] = NoRead
               THEN [pruned EXCEPT !.read[i].key = key, !.active[key] = i] ELSE pruned,
         i |-> i]

\* get: a failure that still lasts is the answer; the clock may have moved since prune.
FailureAnswers(s, key) ==
    /\ s.active[key] = None
    /\ \E i \in Range(prune(s).failures) : s.read[i].key = key
get(s, key, reader) ==
    LET e == Entered(s, key)
        expired == [e.s EXCEPT !.read[e.i].failure = IF @ = "fresh" THEN "expired" ELSE @]
    IN  Owned(Joined(expired, e.i, reader), e.i)

\* The readers of a signal leave, and the last one of a load cancels it: its read
\* is idle then, without a failure that lasts, for get has ended that.
leave(s, readers) ==
    LET last == {f \in Flights : s.flight[f].readers # {} /\ s.flight[f].readers \subseteq readers}
        idle == {i \in Reads : s.read[i].flight \in last}
        left == [s EXCEPT
            !.flight = [f \in Flights |->
                [s.flight[f] EXCEPT !.readers = @ \ readers, !.aborted = @ \/ f \in last]],
            !.read = [i \in Reads |-> [s.read[i] EXCEPT !.flight = IF i \in idle THEN None ELSE @]],
            !.active = [key \in Keys |-> IF s.active[key] \in idle THEN None ELSE s.active[key]]]
    IN  Collected(IF idle = {} THEN left ELSE prune(left))

Used(lru, key) == Append(Restricted(lru, Keys \ {key}), key)
Cached(lru, key) == LET used == Used(lru, key) IN IF Len(used) > LruLimit THEN Tail(used) ELSE used

\* A load settles, late ones included: only one that was not let go of is stored.
settle(s, f, how) ==
    LET i == s.flight[f].read
        key == s.flight[f].key
        stored == IF s.flight[f].aborted THEN s
                  ELSE IF how = "value" THEN [s EXCEPT !.lru = Cached(@, key), !.read[i].failure = "none"]
                  ELSE [s EXCEPT !.read[i].failure = "fresh"]
    IN  Collected(onIdle([stored EXCEPT !.flight[f] = NoFlight,
                                        !.read[i].flight = IF @ = f THEN None ELSE @], i))

\* The second of a cached failure is over.
FailureEnds(i) ==
    /\ failureLasts(shared, i)
    /\ shared' = [shared EXCEPT !.read[i].failure = "expired"]

\* The bound: there is a number for another read and for another load.
Room == (\E i \in Reads : shared.read[i] = NoRead) /\ (\E f \in Flights : shared.flight[f] = NoFlight)

----------------------------------------------------------------------------
Live(f) == shared.flight[f].live /\ ~shared.flight[f].aborted

\* No key is loaded twice at once, whatever was cancelled, has failed or
\* settles late; and what is loaded can be joined, in the slot of its key.
OneLoadPerKey ==
    \A f \in Flights : Live(f) =>
        /\ \A g \in Flights : Live(g) /\ shared.flight[g].key = shared.flight[f].key => g = f
        /\ shared.active[shared.flight[f].key] = shared.flight[f].read
        /\ shared.read[shared.flight[f].read].flight = f

\* Nothing is kept for ever: a slot is active only while its key is loaded, and
\* the failures are settled, of different keys, and no more than their limit.
StorageIsBounded ==
    /\ \A key \in Keys : shared.active[key] # None => loading(shared, shared.active[key])
    /\ Len(shared.failures) <= FailureLimit /\ IsInjective(shared.failures)
    /\ \A i, j \in Range(shared.failures) :
          ~loading(shared, i) /\ (shared.read[i].key = shared.read[j].key => i = j)

=============================================================================
