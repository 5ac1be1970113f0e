----------------------------- MODULE SharedRead -----------------------------
(***************************************************************************)
(* SharedRead (src/server/shared-read.ts): readers that ask for the same   *)
(* thing share one load (a "flight"), whose result is cached for a while.  *)
(* invalidate() starts a new generation: it drops the cache and lets go of *)
(* the flight, which its readers still wait for.  The last reader to leave *)
(* an unfinished flight cancels it.                                        *)
(*                                                                         *)
(* Every continuation of the promise chain is a step of its own, because   *)
(* other code runs between them: the load begins one microtask after get() *)
(* returns, its result is stored by one callback, the next marks the       *)
(* flight settled and clears pending, and when the whole chain is over     *)
(* each reader is told by a callback of its own.                           *)
(*                                                                         *)
(* The source of the data is a version that may grow at any time; a load   *)
(* takes the version the source has when it answers, and may fail.         *)
(***************************************************************************)
EXTENDS Naturals, FiniteSets

CONSTANTS Readers,
          Flights,         \* flights that exist at once
          None,            \* null
          TTL,             \* ttl
          FAILURE_TTL,     \* failureTtl
          FromCompletion,  \* fromCompletion
          MaxTime, MaxVersion, MaxGeneration  \* bounds on what grows for ever

ASSUME SharedReadAssumption ==
    /\ None \notin Flights
    /\ TTL \in Nat /\ FAILURE_TTL \in Nat
    /\ FromCompletion \in BOOLEAN

VARIABLES now,         \* performance.now()
          source,      \* the version the data source holds
          floor,       \* history: source at the last invalidate()
          generation,  \* this.generation
          cached,      \* this.cached: an outcome and its expiry
          pending,     \* this.pending
          flight,      \* the flights, finished and abandoned ones included
          pc,          \* what each reader's promise waits for
          on,          \* the flight it waits on
          since,       \* history: floor when the reader called get()
          answer       \* how its latest get() ended

cacheVars  == <<generation, cached, pending>>
readerVars == <<pc, on, since, answer>>
worldVars  == <<now, source, floor>>
vars == <<worldVars, cacheVars, flight, readerVars>>

\* How a load or a read ended: a version and the time it was true, an error of
\* the load, or the reason given to a load that its last reader left.
NoOutcome   == [how |-> "none", of |-> 0, at |-> 0]
Value(v, t) == [how |-> "value", of |-> v, at |-> t]
Error       == [how |-> "error", of |-> 0, at |-> 0]
Left        == [how |-> "left", of |-> 0, at |-> 0]

NoCache == [outcome |-> NoOutcome, expires |-> 0]

Unused == [phase |-> "unused", gen |-> 0, started |-> 0, aborted |-> FALSE,
           settled |-> FALSE, outcome |-> NoOutcome, subscribers |-> 0]

Init ==
    /\ now = 0 /\ source = 0 /\ floor = 0
    /\ generation = 0 /\ cached = NoCache /\ pending = None
    /\ flight = [f \in Flights |-> Unused]
    /\ pc = [r \in Readers |-> "idle"]
    /\ on = [r \in Readers |-> None]
    /\ since = [r \in Readers |-> 0]
    /\ answer = [r \in Readers |-> NoOutcome]

-----------------------------------------------------------------------------
\* get

Fresh == cached # NoCache /\ now < cached.expires

Asks(r, step, f) ==
    /\ pc[r] = "idle"
    /\ pc' = [pc EXCEPT ![r] = step]
    /\ on' = [on EXCEPT ![r] = f]
    /\ since' = [since EXCEPT ![r] = floor]

\* The entry is fixed now and handed over a microtask later.
GetCached(r) ==
    /\ Fresh
    /\ Asks(r, "cached", None)
    /\ answer' = [answer EXCEPT ![r] = cached.outcome]
    /\ UNCHANGED <<worldVars, cacheVars, flight>>

GetJoin(r) ==
    /\ ~Fresh /\ pending # None
    /\ Asks(r, "waiting", pending)
    /\ answer' = [answer EXCEPT ![r] = NoOutcome]
    /\ flight' = [flight EXCEPT ![pending].subscribers = @ + 1]
    /\ UNCHANGED <<worldVars, cacheVars>>

GetLoad(r, f) ==
    /\ ~Fresh /\ pending = None
    /\ flight[f] = Unused
    /\ Asks(r, "waiting", f)
    /\ answer' = [answer EXCEPT ![r] = NoOutcome]
    /\ flight' = [flight EXCEPT ![f] =
                    [Unused EXCEPT !.phase = "new", !.gen = generation,
                                   !.started = now, !.subscribers = 1]]
    /\ pending' = f
    /\ UNCHANGED <<worldVars, generation, cached>>

-----------------------------------------------------------------------------
\* The flight's promise chain

Begin(f) ==
    /\ flight[f].phase = "new" /\ ~flight[f].aborted
    /\ flight' = [flight EXCEPT ![f].phase = "loading"]
    /\ UNCHANGED <<worldVars, cacheVars, readerVars>>

\* The source answers; its answer is still on its way.
Sample(f) ==
    /\ flight[f].phase = "loading"
    /\ flight' = [flight EXCEPT ![f].phase = "loaded",
                                ![f].outcome = Value(source, now)]
    /\ UNCHANGED <<worldVars, cacheVars, readerVars>>

Stores(f) == flight[f].gen = generation /\ ~flight[f].aborted

Expires(f) == (IF FromCompletion THEN now ELSE flight[f].started) + TTL

Resolve(f) ==
    /\ flight[f].phase = "loaded"
    /\ flight' = [flight EXCEPT ![f].phase = "resolved"]
    /\ cached' = IF Stores(f)
                   THEN [outcome |-> flight[f].outcome, expires |-> Expires(f)]
                   ELSE cached
    /\ UNCHANGED <<worldVars, generation, pending, readerVars>>

\* The load fails at any point, or, once its last reader has left, with the
\* reason it was cancelled for.  A load cancelled before it began always does.
Reject(f) ==
    /\ \/ flight[f].phase \in {"loading", "loaded"}
       \/ flight[f].phase = "new" /\ flight[f].aborted
    /\ \E e \in {Error, Left} :
         /\ e = Left => flight[f].aborted
         /\ flight[f].phase = "new" => e = Left
         /\ flight' = [flight EXCEPT ![f].phase = "rejected", ![f].outcome = e,
                                     ![f].aborted = TRUE]
         /\ cached' = IF Stores(f)
                        THEN [outcome |-> e, expires |-> now + FAILURE_TTL]
                        ELSE cached
    /\ UNCHANGED <<worldVars, generation, pending, readerVars>>

\* Mutant: whoever ends clears the slot, although a newer flight may have it.
LetsGoAny(f) == None
LetsGo(f) == IF pending = f THEN None ELSE pending

\* The last callback of the chain, after which flight.promise is settled too.
Finally(f) ==
    /\ flight[f].phase \in {"resolved", "rejected"}
    /\ pending' = LetsGo(f)
    /\ flight' = [flight EXCEPT ![f] =
                    IF @.subscribers = 0 THEN Unused
                    ELSE [@ EXCEPT !.phase = "over", !.settled = TRUE]]
    /\ UNCHANGED <<worldVars, generation, cached, readerVars>>

-----------------------------------------------------------------------------
\* Each reader's own promise

\* Mutant: whoever leaves cancels the flight.
CancelsAlways(f) == ~flight[f].settled
Cancels(f) == flight[f].subscribers = 1 /\ ~flight[f].settled

Less(f) == [flight[f] EXCEPT !.subscribers = @ - 1]

\* leave(): the last reader of an unsettled flight cancels it.  A settled
\* flight that nobody waits for is garbage.
LeaveFlight(f) ==
    /\ flight' = [flight EXCEPT ![f] =
         IF Cancels(f) THEN [Less(f) EXCEPT !.aborted = TRUE]
         ELSE IF flight[f].subscribers = 1 THEN Unused ELSE Less(f)]
    /\ pending' = IF Cancels(f) THEN LetsGo(f) ELSE pending

Ends(r, outcome) ==
    /\ pc' = [pc EXCEPT ![r] = "idle"]
    /\ on' = [on EXCEPT ![r] = None]
    /\ answer' = [answer EXCEPT ![r] = outcome]
    /\ UNCHANGED since

\* flight.promise.then: the reader hears how the chain ended.
Deliver(r) ==
    /\ pc[r] = "waiting" /\ flight[on[r]].phase = "over"
    /\ Ends(r, flight[on[r]].outcome)
    /\ LeaveFlight(on[r])
    /\ UNCHANGED <<worldVars, generation, cached>>

DeliverCached(r) ==
    /\ pc[r] = "cached"
    /\ Ends(r, answer[r])
    /\ UNCHANGED <<worldVars, cacheVars, flight>>

\* The reader's signal aborts: it is rejected with its own reason.
LeaveWaiting(r) ==
    /\ pc[r] = "waiting"
    /\ Ends(r, NoOutcome)
    /\ LeaveFlight(on[r])
    /\ UNCHANGED <<worldVars, generation, cached>>

LeaveCached(r) ==
    /\ pc[r] = "cached"
    /\ Ends(r, NoOutcome)
    /\ UNCHANGED <<worldVars, cacheVars, flight>>

-----------------------------------------------------------------------------
\* Mutant: the flight that was pending is left to be joined.
InvalidateKeepsPending ==
    /\ generation < MaxGeneration
    /\ generation' = generation + 1
    /\ cached' = NoCache
    /\ floor' = source
    /\ UNCHANGED <<now, source, pending, flight, readerVars>>

Invalidate ==
    /\ generation < MaxGeneration
    /\ generation' = generation + 1
    /\ cached' = NoCache
    /\ pending' = None
    /\ floor' = source
    /\ UNCHANGED <<now, source, flight, readerVars>>

SourceChanges ==
    /\ source < MaxVersion
    /\ source' = source + 1
    /\ UNCHANGED <<now, floor, cacheVars, flight, readerVars>>

Tick ==
    /\ now < MaxTime
    /\ now' = now + 1
    /\ UNCHANGED <<source, floor, cacheVars, flight, readerVars>>

-----------------------------------------------------------------------------
ReaderStep(r) ==
    \/ GetCached(r) \/ GetJoin(r) \/ \E f \in Flights : GetLoad(r, f)
    \/ Deliver(r) \/ DeliverCached(r) \/ LeaveWaiting(r) \/ LeaveCached(r)

FlightStep(f) == Begin(f) \/ Sample(f) \/ Resolve(f) \/ Reject(f) \/ Finally(f)

Next ==
    \/ \E r \in Readers : ReaderStep(r)
    \/ \E f \in Flights : FlightStep(f)
    \/ Invalidate \/ SourceChanges \/ Tick

Spec == Init /\ [][Next]_vars

-----------------------------------------------------------------------------
Phases == {"unused", "new", "loading", "loaded", "resolved", "rejected", "over"}
Outcomes == [how : {"none", "value", "error", "left"}, of : Nat, at : Nat]
Loads == [phase : Phases, gen : Nat, started : Nat, aborted : BOOLEAN, settled : BOOLEAN,
          outcome : Outcomes, subscribers : Nat]

\* Every variable has its type.
TypeOK ==
    /\ now \in Nat /\ source \in Nat /\ floor \in Nat /\ generation \in Nat
    /\ cached \in [outcome : Outcomes, expires : Nat]
    /\ pending \in Flights \cup {None}
    /\ flight \in [Flights -> Loads]
    /\ pc \in [Readers -> {"idle", "waiting", "cached"}]
    /\ on \in [Readers -> Flights \cup {None}]
    /\ since \in [Readers -> Nat]
    /\ answer \in [Readers -> Outcomes]

Waiters(f) == {r \in Readers : pc[r] = "waiting" /\ on[r] = f}

\* "The shared load is cancelled only after its last reader leaves": the count is
\* that of the readers whose promise hangs on the load, for every order of joins,
\* deliveries and departures, and a load somebody waits for is aborted only by its
\* own failure.
ReadersKeepFlight ==
    /\ \A f \in Flights : flight[f].subscribers = Cardinality(Waiters(f))
    /\ \A r \in Readers : pc[r] = "waiting" =>
        /\ on[r] \in Flights /\ flight[on[r]].phase # "unused"
        /\ flight[on[r]].aborted => flight[on[r]].outcome = Error

\* The slot that get() joins holds exactly the load of this generation that has not
\* settled and that somebody still waits for.  Loads settle in another order than they
\* began and are left at any time: an older one that ends or is cancelled after an
\* invalidation must not take the slot from its successor, or the next reader begins
\* a second load beside it, and none may keep the slot once it has settled, or has
\* been let go of, or the next reader joins what is stale or aborted.
Wanted(f) == ~flight[f].settled /\ flight[f].gen = generation /\ flight[f].subscribers > 0
PendingIsWanted == \A f \in Flights : pending = f <=> Wanted(f)

\* Readers see no more of all this than FreshRead says.
Asking == {r \in Readers : pc[r] # "idle"}
Told(r) == IF pc[r] = "idle" THEN [how |-> answer[r].how, of |-> answer[r].of]
                             ELSE [how |-> "none", of |-> 0]
Promise == INSTANCE FreshRead
    WITH asking <- Asking, answer <- [r \in Readers |-> Told(r)]
ImplementsFreshRead == Promise!Spec
=============================================================================
