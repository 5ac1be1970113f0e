-------------------------- MODULE SharedRead_proofs --------------------------
(***************************************************************************)
(* Theorems about SharedRead, for every set of readers and of loads and    *)
(* every time to live.                                                     *)
(***************************************************************************)
EXTENDS SharedRead, FiniteSetTheorems, TLAPS

\* A load on its way: neither blank nor over.
Running == {"new", "loading", "loaded", "resolved", "rejected"}

\* What a reader may be told: an error, or a version.
Tellable(o) == o \in {NoOutcome, Error} \/ o.how = "value"

\* The count of a load's readers, and the set it counts.
Counted(f) == IsFiniteSet(Waiters(f)) /\ flight[f].subscribers = Cardinality(Waiters(f))

\* A load: what is unused is blank, what is over has settled, what runs has not failed
\* yet, a reason to leave is only given to a load that was aborted, one that was
\* aborted has failed or has neither a reader nor the slot in which one could join it,
\* and what it read is not older than the last invalidation unless that has let go of
\* it.
FlightSound(f) ==
    /\ flight[f].phase = "unused" => flight[f] = Unused
    /\ flight[f].phase = "over" <=> flight[f].settled
    /\ flight[f].phase \in {"new", "loading", "loaded"} => flight[f].outcome # Error
    /\ flight[f].gen <= generation
    /\ Tellable(flight[f].outcome) \/ (flight[f].outcome = Left /\ flight[f].aborted)
    /\ flight[f].aborted =>
         flight[f].outcome = Error \/ (flight[f].subscribers = 0 /\ pending # f)
    /\ flight[f].outcome.how = "value" =>
         /\ flight[f].outcome.of <= source
         /\ flight[f].gen = generation => floor <= flight[f].outcome.of

\* A reader waits for a load that exists and has read, if it has, no earlier than
\* the reader may be told; and what it was told is within its bounds.
ReaderSound(r) ==
    /\ since[r] <= floor
    /\ pc[r] = "waiting" =>
         /\ on[r] \in Flights /\ flight[on[r]].phase # "unused"
         /\ flight[on[r]].outcome.how = "value" => since[r] <= flight[on[r]].outcome.of
    /\ Tellable(answer[r])
    /\ answer[r].how = "value" => since[r] <= answer[r].of /\ answer[r].of <= source

\* The entry is not older than the last invalidation.
CacheSound ==
    /\ Tellable(cached.outcome)
    /\ cached.outcome.how = "value" =>
         floor <= cached.outcome.of /\ cached.outcome.of <= source

\* The inductive invariant.
IInv ==
    /\ TypeOK
    /\ \A f \in Flights : Counted(f)
    /\ \A f \in Flights : FlightSound(f)
    /\ PendingIsWanted
    /\ \A r \in Readers : ReaderSound(r)
    /\ CacheSound
    /\ floor <= source

-----------------------------------------------------------------------------
\* The type of loads is expanded throughout.
USE DEF Loads, Phases

\* The blank load is of the type of loads.
LEMMA UnusedTyped ==
    Unused \in Loads
BY DEF Unused, NoOutcome, Outcomes

\* In the initial state nobody waits and nothing is loaded.
LEMMA InitIInv == Init => IInv
<1> SUFFICES ASSUME Init PROVE IInv
  OBVIOUS
<1> USE SharedReadAssumption
<1>1. TypeOK
  BY DEF Init, TypeOK, Outcomes, NoCache, NoOutcome, Unused, Running
<1>2. ASSUME NEW f \in Flights PROVE Counted(f) /\ FlightSound(f)
  <2>1. Waiters(f) = {}
    BY DEF Init, Waiters
  <2>2. Counted(f)
    BY <2>1, FS_EmptySet DEF Init, Counted, Unused
  <2>3. FlightSound(f)
    BY DEF Init, FlightSound, Unused, Tellable, NoOutcome, Error
  <2> QED BY <2>2, <2>3
<1>3. ASSUME NEW r \in Readers PROVE ReaderSound(r)
  BY DEF Init, ReaderSound, Tellable, NoOutcome
<1>4. PendingIsWanted /\ CacheSound /\ floor <= source
  <2>1. PendingIsWanted
    BY DEF Init, PendingIsWanted, Wanted, Unused
  <2> QED BY <2>1 DEF Init, CacheSound, Tellable, NoCache, NoOutcome
<1> QED BY <1>1, <1>2, <1>3, <1>4 DEF IInv

\* The load that may be joined is on its way, of this generation and has a reader.
LEMMA PendingFacts ==
    ASSUME IInv, pending # None
    PROVE  /\ pending \in Flights /\ flight[pending].phase \in Running
           /\ flight[pending].gen = generation /\ ~flight[pending].settled
           /\ flight[pending].subscribers # 0
<1>1. pending \in Flights
  BY DEF IInv, TypeOK
<1>2. Wanted(pending)
  BY <1>1 DEF IInv, PendingIsWanted
<1>3. flight[pending].subscribers # 0 /\ flight[pending] \in Loads
  BY <1>1, <1>2 DEF IInv, Wanted, TypeOK
<1>4. flight[pending].phase \in Phases \ {"unused", "over"}
  BY <1>1, <1>2, <1>3 DEF IInv, FlightSound, Wanted, Unused
<1> QED BY <1>1, <1>2, <1>3, <1>4 DEF Wanted, Running

\* Unless the slot, the generation, a load's count or its end changes, the slot is right.
LEMMA SameSlot ==
    ASSUME PendingIsWanted, pending' = pending, generation' = generation,
           \A f \in Flights : /\ flight'[f].settled = flight[f].settled
                             /\ flight'[f].gen = flight[f].gen
                             /\ flight'[f].subscribers = flight[f].subscribers
    PROVE  PendingIsWanted'
BY DEF PendingIsWanted, Wanted

\* As long as nobody comes or goes and the count of a load stays, it is right.
LEMMA SameCount ==
    ASSUME NEW f \in Flights, Counted(f), UNCHANGED <<pc, on>>,
           flight'[f].subscribers = flight[f].subscribers
    PROVE  Counted(f)'
<1>1. Waiters(f)' = Waiters(f)
  BY DEF Waiters
<1> QED BY <1>1 DEF Counted

\* A reader that comes to wait for a load, or for the cache, adds to no other load.
LEMMA OtherCount ==
    ASSUME NEW f \in Flights, Counted(f), NEW r \in Readers, NEW step, NEW x,
           TypeOK, Asks(r, step, x), step # "waiting" \/ x # f,
           flight'[f].subscribers = flight[f].subscribers
    PROVE  Counted(f)'
<1>1. Waiters(f)' = Waiters(f)
  BY DEF Waiters, Asks, TypeOK
<1> QED BY <1>1 DEF Counted

\* A reader that comes to wait for a load is one more of its readers.
LEMMA JoinCount ==
    ASSUME NEW f \in Flights, Counted(f), NEW r \in Readers, TypeOK,
           Asks(r, "waiting", f),
           flight'[f].subscribers = flight[f].subscribers + 1
    PROVE  Counted(f)'
<1>1. Waiters(f)' = Waiters(f) \cup {r} /\ r \notin Waiters(f)
  BY DEF Waiters, Asks, TypeOK
<1>2. IsFiniteSet(Waiters(f) \cup {r}) /\ Cardinality(Waiters(f) \cup {r}) = Cardinality(Waiters(f)) + 1
  BY <1>1, FS_AddElement DEF Counted
<1> QED BY <1>1, <1>2 DEF Counted

\* A load somebody waits for counts at least one reader, and one that counts only
\* one is nobody else's.
LEMMA WaiterCounts ==
    ASSUME NEW f \in Flights, Counted(f), NEW r \in Waiters(f)
    PROVE  /\ flight[f].subscribers \in Nat /\ flight[f].subscribers # 0
           /\ flight[f].subscribers = 1 => Waiters(f) = {r}
<1>1. Cardinality(Waiters(f)) \in Nat
  BY FS_CardinalityType DEF Counted
<1>2. IsFiniteSet(Waiters(f) \ {r}) /\ Cardinality(Waiters(f) \ {r}) = Cardinality(Waiters(f)) - 1
  BY FS_RemoveElement DEF Counted
<1>3. Cardinality(Waiters(f) \ {r}) \in Nat
  BY <1>2, FS_CardinalityType
<1>4. Cardinality(Waiters(f)) = 1 => Waiters(f) = {r}
  <2> SUFFICES ASSUME Cardinality(Waiters(f)) = 1 PROVE Waiters(f) = {r}
    OBVIOUS
  <2>1. Cardinality(Waiters(f) \ {r}) = 0
    BY <1>2
  <2>2. Waiters(f) \ {r} = {}
    BY <1>2, <2>1, FS_EmptySet
  <2> QED BY <2>2
<1> QED BY <1>1, <1>2, <1>3, <1>4 DEF Counted

\* A load that counts no reader has none.
LEMMA NobodyCounts ==
    ASSUME NEW f \in Flights, Counted(f), flight[f].subscribers = 0
    PROVE  Waiters(f) = {}
BY FS_EmptySet DEF Counted

-----------------------------------------------------------------------------
\* One lemma for each kind of step: the invariant is kept.

\* Steps of a reader that leave the loads alone.
LEMMA CachedStep ==
    ASSUME IInv, NEW r \in Readers, GetCached(r) \/ DeliverCached(r) \/ LeaveCached(r)
    PROVE  IInv'
<1> USE DEF IInv
<1>1. /\ flight' = flight /\ pending' = pending /\ generation' = generation
      /\ cached' = cached /\ source' = source /\ floor' = floor /\ now' = now
  BY DEF GetCached, DeliverCached, LeaveCached, worldVars, cacheVars
<1>2. /\ pc[r] # "waiting" /\ pc' \in [Readers -> {"idle", "waiting", "cached"}]
      /\ on' \in [Readers -> Flights \cup {None}]
      /\ \A q \in Readers \ {r} : pc'[q] = pc[q] /\ on'[q] = on[q]
      /\ pc'[r] # "waiting"
  BY DEF GetCached, DeliverCached, LeaveCached, Asks, Ends, TypeOK
<1>3. /\ since' \in [Readers -> Nat] /\ answer' \in [Readers -> Outcomes]
      /\ \A q \in Readers \ {r} : since'[q] = since[q] /\ answer'[q] = answer[q]
      /\ \/ since'[r] = floor /\ answer'[r] = cached.outcome
         \/ since'[r] = since[r] /\ answer'[r] \in {answer[r], NoOutcome}
  BY DEF GetCached, DeliverCached, LeaveCached, Asks, Ends, TypeOK, Outcomes, NoOutcome
<1>4. TypeOK'
  BY <1>1, <1>2, <1>3 DEF TypeOK
<1>5. ASSUME NEW f \in Flights PROVE Counted(f)' /\ FlightSound(f)'
  <2>1. Waiters(f)' = Waiters(f)
    BY <1>2 DEF Waiters
  <2>2. Counted(f)'
    BY <1>1, <2>1 DEF Counted
  <2>3. FlightSound(f)'
    BY <1>1 DEF FlightSound
  <2> QED BY <2>2, <2>3
<1>6. PendingIsWanted' /\ CacheSound' /\ (floor <= source)'
  BY <1>1, SameSlot DEF CacheSound
<1>7. ASSUME NEW q \in Readers PROVE ReaderSound(q)'
  <2>1. CASE q # r
    BY <1>1, <1>2, <1>3, <2>1 DEF ReaderSound
  <2>2. CASE q = r
    BY <1>1, <1>2, <1>3, <2>2 DEF ReaderSound, CacheSound, Tellable, NoOutcome, TypeOK
  <2> QED BY <2>1, <2>2
<1> QED BY <1>4, <1>5, <1>6, <1>7

\* A reader joins the pending load.
LEMMA JoinStep ==
    ASSUME IInv, NEW r \in Readers, GetJoin(r)
    PROVE  IInv'
<1> USE DEF IInv
<1> DEFINE p == pending
<1>1. /\ p \in Flights /\ flight[p].phase \in Running
      /\ Wanted(p) /\ flight[p].subscribers # 0
  BY PendingFacts DEF GetJoin, PendingIsWanted
<1>2. /\ pending' = pending /\ generation' = generation /\ cached' = cached
      /\ source' = source /\ floor' = floor /\ now' = now
      /\ flight' = [flight EXCEPT ![p].subscribers = @ + 1]
      /\ answer' = [answer EXCEPT ![r] = NoOutcome]
      /\ Asks(r, "waiting", p)
  BY DEF GetJoin, worldVars, cacheVars
<1> HIDE DEF p
<1>3. /\ \A f \in Flights \ {p} : flight'[f] = flight[f]
      /\ flight'[p] = [flight[p] EXCEPT !.subscribers = @ + 1]
      /\ flight' = [f \in Flights |-> flight'[f]]
  BY <1>1, <1>2 DEF TypeOK
<1>4. TypeOK'
  <2>1. flight'[p] \in Loads
    BY <1>1, <1>3 DEF TypeOK
  <2>2. flight' \in [Flights -> Loads]
    BY <1>1, <1>3, <2>1 DEF TypeOK
  <2> HIDE DEF Loads
  <2> QED BY <1>1, <1>2, <2>2 DEF TypeOK, Asks, NoOutcome, Outcomes
<1>5. ASSUME NEW f \in Flights PROVE Counted(f)'
  <2>1. CASE f = p
    <3>1. flight'[f].subscribers = flight[f].subscribers + 1
      BY <1>1, <1>3, <2>1 DEF TypeOK
    <3> QED BY <1>2, <2>1, <3>1, JoinCount
  <2>2. CASE f # p
    BY <1>2, <1>3, <2>2, OtherCount
  <2> QED BY <2>1, <2>2
<1>6. ASSUME NEW f \in Flights PROVE FlightSound(f)'
  <2>1. CASE f # p
    BY <1>2, <1>3, <2>1 DEF FlightSound
  <2>2. CASE f = p
    BY <1>1, <1>2, <1>3, <2>2 DEF FlightSound, TypeOK, Running, p
  <2> QED BY <2>1, <2>2
<1>7. PendingIsWanted' /\ CacheSound' /\ (floor <= source)'
  <2>1. ASSUME NEW f \in Flights PROVE Wanted(f)' = Wanted(f)
    <3>1. CASE f # p
      BY <1>2, <1>3, <3>1 DEF Wanted
    <3>2. CASE f = p
      BY <1>1, <1>2, <1>3, <3>2 DEF Wanted, TypeOK
    <3> QED BY <3>1, <3>2
  <2> QED BY <1>2, <2>1 DEF PendingIsWanted, CacheSound
<1>8. ASSUME NEW q \in Readers PROVE ReaderSound(q)'
  <2>1. \A f \in Flights : flight'[f].phase = flight[f].phase /\ flight'[f].outcome = flight[f].outcome
    BY <1>1, <1>3 DEF TypeOK
  <2>2. CASE q # r
    BY <1>2, <2>1, <2>2 DEF ReaderSound, Asks, TypeOK
  <2>3. CASE q = r
    BY <1>1, <1>2, <2>1, <2>3
       DEF ReaderSound, FlightSound, Wanted, Asks, TypeOK, Tellable, NoOutcome, Running
  <2> QED BY <2>2, <2>3
<1> QED BY <1>4, <1>5, <1>6, <1>7, <1>8

\* A reader begins a load.
LEMMA LoadStep ==
    ASSUME IInv, NEW r \in Readers, NEW f \in Flights, GetLoad(r, f)
    PROVE  IInv'
<1> USE DEF IInv
<1>1. /\ pending' = f /\ generation' = generation /\ cached' = cached /\ pending = None
      /\ source' = source /\ floor' = floor /\ now' = now
      /\ answer' = [answer EXCEPT ![r] = NoOutcome]
      /\ Asks(r, "waiting", f) /\ flight[f] = Unused
  BY DEF GetLoad, worldVars
<1>2. /\ \A g \in Flights \ {f} : flight'[g] = flight[g]
      /\ flight'[f] = [phase |-> "new", gen |-> generation, started |-> now,
                       aborted |-> FALSE, settled |-> FALSE, outcome |-> NoOutcome,
                       subscribers |-> 1]
      /\ flight' \in [Flights -> Loads]
  BY DEF GetLoad, TypeOK, Unused, Outcomes, NoOutcome, Running
<1>3. TypeOK'
  BY <1>1, <1>2 DEF TypeOK, Asks, NoOutcome, Outcomes
<1>4. ASSUME NEW g \in Flights PROVE Counted(g)'
  <2>1. CASE g = f
    <3>1. flight'[g].subscribers = flight[g].subscribers + 1
      BY <1>1, <1>2, <2>1 DEF Unused
    <3> QED BY <1>1, <2>1, <3>1, JoinCount
  <2>2. CASE g # f
    BY <1>1, <1>2, <2>2, OtherCount
  <2> QED BY <2>1, <2>2
<1>5. ASSUME NEW g \in Flights PROVE FlightSound(g)'
  <2>1. CASE g # f
    BY <1>1, <1>2, <2>1, SharedReadAssumption DEF FlightSound
  <2>2. CASE g = f
    BY <1>1, <1>2, <2>2 DEF FlightSound, TypeOK, Tellable, NoOutcome, Error
  <2> QED BY <2>1, <2>2
<1>6. PendingIsWanted' /\ CacheSound' /\ (floor <= source)'
  <2>1. Wanted(f)'
    BY <1>1, <1>2 DEF Wanted
  <2>2. ASSUME NEW g \in Flights, g # f PROVE ~Wanted(g)'
    BY <1>1, <1>2, <2>2, SharedReadAssumption DEF PendingIsWanted, Wanted
  <2> QED BY <1>1, <2>1, <2>2 DEF PendingIsWanted, CacheSound
<1>7. ASSUME NEW q \in Readers PROVE ReaderSound(q)'
  <2>1. CASE q # r
    <3>1. pc'[q] = pc[q] /\ on'[q] = on[q] /\ since'[q] = since[q] /\ answer'[q] = answer[q]
      BY <1>1, <2>1 DEF Asks, TypeOK
    <3>2. pc[q] = "waiting" => on[q] # f
      BY <1>1 DEF ReaderSound, Unused
    <3> QED BY <1>1, <1>2, <3>1, <3>2 DEF ReaderSound
  <2>2. CASE q = r
    BY <1>1, <1>2, <2>2 DEF ReaderSound, Asks, TypeOK, Tellable, NoOutcome
  <2> QED BY <2>1, <2>2
<1> QED BY <1>3, <1>4, <1>5, <1>6, <1>7

\* A load that goes on keeps its type, its generation and its count.
LEMMA TypedLoad ==
    ASSUME TypeOK, NEW f \in Flights, NEW o \in Outcomes, NEW phase \in Running,
           \/ flight' = [flight EXCEPT ![f].phase = phase, ![f].outcome = o]
           \/ flight' = [flight EXCEPT ![f].phase = phase, ![f].outcome = o,
                                       ![f].aborted = TRUE]
    PROVE  /\ \A g \in Flights \ {f} : flight'[g] = flight[g]
           /\ flight'[f].phase = phase
           /\ flight'[f].gen = flight[f].gen
           /\ flight'[f].subscribers = flight[f].subscribers
           /\ flight'[f].settled = flight[f].settled
           /\ flight' \in [Flights -> Loads]
<1> DEFINE L == Loads
<1>1. flight \in [Flights -> L]
  BY DEF TypeOK
<1>2. PICK a \in BOOLEAN :
        flight'[f] = [phase |-> phase, gen |-> flight[f].gen, started |-> flight[f].started,
                      aborted |-> a, settled |-> flight[f].settled, outcome |-> o,
                      subscribers |-> flight[f].subscribers]
  <2>1. flight[f] \in L
    BY <1>1
  <2>2. CASE flight' = [flight EXCEPT ![f].phase = phase, ![f].outcome = o]
    <3>1. flight'[f] = [phase |-> phase, gen |-> flight[f].gen, started |-> flight[f].started,
                        aborted |-> flight[f].aborted,
                        settled |-> flight[f].settled, outcome |-> o,
                        subscribers |-> flight[f].subscribers]
      BY <1>1, <2>1, <2>2
    <3> QED BY <2>1, <3>1
  <2>3. CASE flight' = [flight EXCEPT ![f].phase = phase, ![f].outcome = o, ![f].aborted = TRUE]
    <3>1. flight'[f] = [phase |-> phase, gen |-> flight[f].gen, started |-> flight[f].started,
                        aborted |-> TRUE,
                        settled |-> flight[f].settled, outcome |-> o,
                        subscribers |-> flight[f].subscribers]
      BY <1>1, <2>1, <2>3
    <3> QED BY <3>1
  <2> QED BY <2>2, <2>3
<1>3. flight'[f] \in L
  BY <1>1, <1>2 DEF Running
<1>4. /\ \A g \in Flights \ {f} : flight'[g] = flight[g]
      /\ flight' = [g \in Flights |-> flight'[g]]
  <2> HIDE DEF L
  <2> QED BY <1>1
<1>5. flight' \in [Flights -> L]
  <2> HIDE DEF L
  <2> QED BY <1>1, <1>3, <1>4
<1> QED BY <1>2, <1>4, <1>5

\* The steps of a load that is sent, answered or fails: its readers stay.
LEMMA LoadingStep ==
    ASSUME IInv, NEW f \in Flights, Begin(f) \/ Sample(f) \/ Resolve(f) \/ Reject(f)
    PROVE  IInv'
<1> USE DEF IInv
<1>1. /\ pending' = pending /\ generation' = generation
      /\ source' = source /\ floor' = floor /\ now' = now
      /\ pc' = pc /\ on' = on /\ since' = since /\ answer' = answer
  BY DEF Begin, Sample, Resolve, Reject, worldVars, cacheVars, readerVars
<1>2. /\ flight[f].phase \in Running
      /\ \A g \in Flights \ {f} : flight'[g] = flight[g]
      /\ flight'[f].phase \in Running
      /\ flight'[f].gen = flight[f].gen /\ flight'[f].subscribers = flight[f].subscribers
      /\ flight'[f].settled = flight[f].settled
      /\ flight' \in [Flights -> Loads]
  <2>1. CASE Begin(f)
    BY <2>1 DEF Begin, TypeOK, Running
  <2>2. CASE Sample(f)
    <3>1. Value(source, now) \in Outcomes
      BY DEF Value, Outcomes, TypeOK
    <3>2. flight[f].phase \in Running /\ "loaded" \in Running
      BY <2>2 DEF Sample, Running
    <3>3. PICK o \in Outcomes :
            flight' = [flight EXCEPT ![f].phase = "loaded", ![f].outcome = o]
      BY <2>2, <3>1 DEF Sample
    <3> DEFINE loaded == "loaded"
    <3>4. flight' = [flight EXCEPT ![f].phase = loaded, ![f].outcome = o] /\ loaded \in Running
      BY <3>2, <3>3
    <3> HIDE DEF loaded
    <3>5. /\ \A g \in Flights \ {f} : flight'[g] = flight[g]
          /\ flight'[f].phase = loaded
          /\ flight'[f].gen = flight[f].gen
          /\ flight'[f].subscribers = flight[f].subscribers
          /\ flight'[f].settled = flight[f].settled
          /\ flight' \in [Flights -> Loads]
      BY <3>4, TypedLoad
    <3> QED BY <3>2, <3>4, <3>5
  <2>3. CASE Resolve(f)
    BY <2>3 DEF Resolve, TypeOK, Running
  <2>4. CASE Reject(f)
    <3>1. PICK e \in {Error, Left} :
            flight' = [flight EXCEPT ![f].phase = "rejected", ![f].outcome = e,
                                     ![f].aborted = TRUE]
      BY <2>4 DEF Reject
    <3>2. e \in Outcomes
      BY DEF Error, Left, Outcomes
    <3>3. flight[f].phase \in Running /\ "rejected" \in Running
      BY <2>4 DEF Reject, Running
    <3> QED BY <3>1, <3>2, <3>3, TypedLoad
  <2> QED BY <2>1, <2>2, <2>3, <2>4
<1>3. \/ flight'[f].outcome = flight[f].outcome /\ flight'[f].aborted = flight[f].aborted
      \/ flight'[f].outcome = Value(source, now) /\ flight'[f].aborted = flight[f].aborted
      \/ flight'[f].outcome = Error /\ flight'[f].aborted
      \/ flight'[f].outcome = Left /\ flight'[f].aborted /\ flight[f].aborted
  BY DEF Begin, Sample, Resolve, Reject, TypeOK
<1>4. \/ cached' = cached
      \/ /\ flight[f].gen = generation /\ ~flight[f].aborted
         /\ \/ cached'.outcome = flight[f].outcome
            \/ cached'.outcome = Error
         /\ cached' \in [outcome : Outcomes, expires : Nat]
  <2>1. CASE Begin(f) \/ Sample(f)
    BY <2>1 DEF Begin, Sample, cacheVars
  <2>2. CASE Resolve(f)
    <3>1. Expires(f) \in Nat
      BY SharedReadAssumption DEF Expires, TypeOK
    <3> QED BY <2>2, <3>1 DEF Resolve, Stores, TypeOK
  <2>3. CASE Reject(f)
    <3>1. now + FAILURE_TTL \in Nat
      BY SharedReadAssumption DEF TypeOK
    <3> QED BY <2>3, <3>1 DEF Reject, Stores, TypeOK, Outcomes, Error, Left
  <2> QED BY <2>1, <2>2, <2>3
<1>5. TypeOK'
  BY <1>1, <1>2, <1>4 DEF TypeOK
<1>6. ASSUME NEW g \in Flights PROVE Counted(g)'
  BY <1>1, <1>2, SameCount
<1>7. ASSUME NEW g \in Flights PROVE FlightSound(g)'
  <2>1. CASE g # f
    BY <1>1, <1>2, <2>1 DEF FlightSound
  <2>2. CASE g = f
    <3>1. /\ flight'[f].phase \notin {"unused", "over"} /\ ~flight'[f].settled
          /\ flight'[f].gen <= generation'
      BY <1>1, <1>2 DEF FlightSound, Running
    <3>5. flight'[f].phase \in {"new", "loading", "loaded"} => flight'[f].outcome # Error
      <4>1. CASE Begin(f)
        BY <4>1 DEF Begin, FlightSound, TypeOK
      <4>2. CASE Sample(f)
        BY <4>2 DEF Sample, TypeOK, Value, Error
      <4>3. CASE Resolve(f) \/ Reject(f)
        BY <4>3 DEF Resolve, Reject, TypeOK
      <4> QED BY <4>1, <4>2, <4>3
    <3>2. Tellable(flight'[f].outcome) \/ (flight'[f].outcome = Left /\ flight'[f].aborted)
      BY <1>3 DEF FlightSound, Tellable, Value
    <3>3. flight'[f].aborted =>
            flight'[f].outcome = Error \/ (flight'[f].subscribers = 0 /\ pending' # f)
      <4>1. flight[f].outcome # Error
        BY DEF Begin, Sample, Resolve, Reject, FlightSound
      <4> QED BY <1>1, <1>2, <1>3, <4>1 DEF FlightSound
    <3>4. flight'[f].outcome.how = "value" =>
            /\ flight'[f].outcome.of <= source'
            /\ flight'[f].gen = generation' => floor' <= flight'[f].outcome.of
      BY <1>1, <1>2, <1>3 DEF FlightSound, Value, Error, Left, TypeOK
    <3> QED BY <2>2, <3>1, <3>2, <3>3, <3>4, <3>5 DEF FlightSound
  <2> QED BY <2>1, <2>2
<1>8. PendingIsWanted'
  BY <1>1, <1>2, SameSlot
<1>9. CacheSound' /\ (floor <= source)'
  BY <1>1, <1>4 DEF CacheSound, FlightSound, Tellable, Error, Left
<1>10. ASSUME NEW q \in Readers PROVE ReaderSound(q)'
  BY <1>1, <1>2, <1>3 DEF ReaderSound, Value, Error, Left, TypeOK, Running
<1> QED BY <1>5, <1>6, <1>7, <1>8, <1>9, <1>10

\* A load settles: without readers it is gone, with readers it has an end for them.
LEMMA FinallyStep ==
    ASSUME IInv, NEW f \in Flights, Finally(f)
    PROVE  IInv'
<1> USE DEF IInv
<1>1. /\ generation' = generation /\ cached' = cached
      /\ source' = source /\ floor' = floor /\ now' = now
      /\ pc' = pc /\ on' = on /\ since' = since /\ answer' = answer
      /\ pending' = LetsGo(f)
  BY DEF Finally, worldVars, readerVars
<1> DEFINE over == [flight[f] EXCEPT !.phase = "over", !.settled = TRUE]
<1>2. /\ \A g \in Flights \ {f} : flight'[g] = flight[g]
      /\ flight[f].subscribers = 0 => flight'[f] = Unused
      /\ flight[f].subscribers # 0 => flight'[f] = over
      /\ flight' = [g \in Flights |-> flight'[g]]
  <2> DEFINE after == IF flight[f].subscribers = 0 THEN Unused ELSE over
  <2>1. flight' = [flight EXCEPT ![f] = after]
    BY DEF Finally, TypeOK
  <2> HIDE DEF after
  <2>2. /\ \A g \in Flights \ {f} : flight'[g] = flight[g]
        /\ flight' = [g \in Flights |-> flight'[g]]
        /\ flight'[f] = after
    BY <2>1 DEF TypeOK
  <2> QED BY <2>2 DEF after
<1> HIDE DEF over
<1>3. /\ over \in Loads /\ over.settled /\ over.phase = "over" /\ over.gen = flight[f].gen
      /\ over.subscribers = flight[f].subscribers /\ over.aborted = flight[f].aborted
      /\ over.outcome = flight[f].outcome
  BY DEF over, TypeOK
<1>4. flight' \in [Flights -> Loads]
  <2>1. flight'[f] \in Loads
    BY <1>2, <1>3, UnusedTyped
  <2> QED BY <1>2, <2>1 DEF TypeOK
<1>5. TypeOK'
  BY <1>1, <1>4 DEF TypeOK, LetsGo
<1>6. ASSUME NEW g \in Flights PROVE Counted(g)'
  <2>1. flight'[g].subscribers = flight[g].subscribers
    BY <1>2, <1>3 DEF Unused
  <2> QED BY <1>1, <2>1, SameCount
<1>7. ASSUME NEW g \in Flights PROVE FlightSound(g)'
  <2>1. CASE g # f
    BY <1>1, <1>2, <2>1, SharedReadAssumption DEF FlightSound, LetsGo
  <2>2. CASE g = f /\ flight[f].subscribers = 0
    BY <1>1, <1>2, <2>2 DEF FlightSound, Unused, TypeOK, Tellable, NoOutcome, Error
  <2>3. CASE g = f /\ flight[f].subscribers # 0
    <3>1. flight'[f] = over /\ pending' # f
      BY <1>1, <1>2, <2>3, SharedReadAssumption DEF LetsGo
    <3> QED BY <1>1, <1>3, <2>3, <3>1 DEF FlightSound
  <2> QED BY <2>1, <2>2, <2>3
<1>8. PendingIsWanted' /\ CacheSound' /\ (floor <= source)'
  <2>1. ~Wanted(f)'
    BY <1>2, <1>3 DEF Wanted, Unused
  <2>2. ASSUME NEW g \in Flights, g # f PROVE Wanted(g)' = Wanted(g)
    BY <1>1, <1>2, <2>2 DEF Wanted
  <2> QED BY <1>1, <2>1, <2>2, SharedReadAssumption DEF PendingIsWanted, LetsGo, CacheSound
<1>9. ASSUME NEW q \in Readers PROVE ReaderSound(q)'
  <2>1. CASE pc[q] = "waiting" /\ on[q] = f
    <3>1. q \in Waiters(f)
      BY <2>1 DEF Waiters
    <3>2. flight'[f] = over
      BY <1>2, <3>1, WaiterCounts
    <3> QED BY <1>1, <1>3, <2>1, <3>2 DEF ReaderSound
  <2>2. CASE ~(pc[q] = "waiting" /\ on[q] = f)
    BY <1>1, <1>2, <2>2 DEF ReaderSound
  <2> QED BY <2>1, <2>2
<1> QED BY <1>5, <1>6, <1>7, <1>8, <1>9

\* A reader is told, or leaves: the load it waited for has one reader less.
LEMMA LeaveStep ==
    ASSUME IInv, NEW r \in Readers, NEW f \in Flights, NEW o \in Outcomes, Tellable(o),
           o.how = "value" => since[r] <= o.of /\ o.of <= source,
           pc[r] = "waiting", on[r] = f, Ends(r, o), LeaveFlight(f),
           UNCHANGED <<worldVars, generation, cached>>
    PROVE  IInv'
<1> USE DEF IInv
<1>1. flight[f].phase # "unused" /\ r \in Waiters(f)
  BY DEF ReaderSound, Waiters
<1>2. /\ generation' = generation /\ cached' = cached
      /\ source' = source /\ floor' = floor /\ now' = now
      /\ pc' = [pc EXCEPT ![r] = "idle"] /\ on' = [on EXCEPT ![r] = None]
      /\ since' = since /\ answer' = [answer EXCEPT ![r] = o]
      /\ pending' = IF Cancels(f) THEN LetsGo(f) ELSE pending
  BY DEF Ends, LeaveFlight, worldVars
<1>3. /\ flight[f].subscribers \in Nat /\ flight[f].subscribers # 0
      /\ flight[f].subscribers = 1 => Waiters(f) = {r}
  BY <1>1, WaiterCounts
<1> DEFINE less == Less(f)
           cancelled == [Less(f) EXCEPT !.aborted = TRUE]
<1>4. /\ \A g \in Flights \ {f} : flight'[g] = flight[g]
      /\ Cancels(f) => flight'[f] = cancelled
      /\ ~Cancels(f) /\ flight[f].subscribers = 1 => flight'[f] = Unused
      /\ flight[f].subscribers # 1 => flight'[f] = less
      /\ flight' = [g \in Flights |-> flight'[g]]
  <2> DEFINE after == IF Cancels(f) THEN cancelled
                      ELSE IF flight[f].subscribers = 1 THEN Unused ELSE less
  <2>1. flight' = [flight EXCEPT ![f] = after]
    BY DEF LeaveFlight
  <2> HIDE DEF after
  <2>2. /\ \A g \in Flights \ {f} : flight'[g] = flight[g]
        /\ flight' = [g \in Flights |-> flight'[g]]
        /\ flight'[f] = after
    BY <2>1 DEF TypeOK
  <2> QED BY <2>2 DEF Cancels, after
<1> HIDE DEF less, cancelled
<1>5. /\ less.subscribers = flight[f].subscribers - 1 /\ less.phase = flight[f].phase
      /\ less.gen = flight[f].gen /\ less.aborted = flight[f].aborted
      /\ less.settled = flight[f].settled /\ less.started = flight[f].started
      /\ less.outcome = flight[f].outcome
      /\ cancelled.subscribers = flight[f].subscribers - 1 /\ cancelled.phase = flight[f].phase
      /\ cancelled.gen = flight[f].gen /\ cancelled.aborted = TRUE
      /\ cancelled.settled = flight[f].settled /\ cancelled.started = flight[f].started
      /\ cancelled.outcome = flight[f].outcome
  BY <1>1 DEF less, cancelled, Less, TypeOK
<1>6. flight'[f] \in Loads
  <2>1. flight[f].subscribers - 1 \in Nat
    BY <1>3
  <2>2. CASE Cancels(f)
    BY <1>1, <1>4, <2>1, <2>2 DEF TypeOK, cancelled, Less
  <2>3. CASE ~Cancels(f) /\ flight[f].subscribers = 1
    BY <1>4, <2>3, UnusedTyped
  <2>4. CASE flight[f].subscribers # 1
    BY <1>1, <1>4, <2>1, <2>4 DEF TypeOK, less, Less
  <2> QED BY <2>2, <2>3, <2>4
<1>7. TypeOK'
  BY <1>2, <1>4, <1>6 DEF TypeOK, LetsGo
<1>8. flight'[f].subscribers = flight[f].subscribers - 1
  BY <1>3, <1>4, <1>5 DEF Unused
<1>9. ASSUME NEW g \in Flights PROVE Counted(g)'
  <2>1. CASE g = f
    <3>1. Waiters(f)' = Waiters(f) \ {r}
      BY <1>2 DEF Waiters, TypeOK
    <3>2. IsFiniteSet(Waiters(f) \ {r}) /\ Cardinality(Waiters(f) \ {r}) = Cardinality(Waiters(f)) - 1
      BY <1>1, FS_RemoveElement DEF Counted
    <3> QED BY <1>1, <1>8, <2>1, <3>1, <3>2 DEF Counted
  <2>2. CASE g # f
    <3>1. Waiters(g)' = Waiters(g)
      BY <1>2, <2>2 DEF Waiters, TypeOK
    <3> QED BY <1>4, <2>2, <3>1 DEF Counted
  <2> QED BY <2>1, <2>2
<1>10. \A g \in Flights : pending' = g => pending = g
  BY <1>2, SharedReadAssumption DEF LetsGo
<1>11. ASSUME NEW g \in Flights PROVE FlightSound(g)'
  <2>1. CASE g # f
    BY <1>2, <1>4, <1>10, <2>1 DEF FlightSound
  <2>2. CASE g = f /\ Cancels(f)
    <3>1. flight[f].subscribers = 1 /\ flight'[f] = cancelled /\ pending' # f
      BY <1>1, <1>2, <1>4, <2>2, SharedReadAssumption DEF Cancels, LetsGo
    <3> QED BY <1>1, <1>2, <1>5, <2>2, <3>1 DEF FlightSound
  <2>3. CASE g = f /\ ~Cancels(f) /\ flight[f].subscribers = 1
    BY <1>2, <1>4, <2>3 DEF FlightSound, Unused, TypeOK, Tellable, NoOutcome, Error
  <2>4. CASE g = f /\ flight[f].subscribers # 1
    BY <1>1, <1>2, <1>3, <1>4, <1>5, <1>10, <2>4 DEF FlightSound
  <2> QED BY <2>1, <2>2, <2>3, <2>4 DEF Cancels
<1>12. PendingIsWanted'
  <2>1. ASSUME NEW g \in Flights, g # f PROVE Wanted(g)' = Wanted(g)
    BY <1>2, <1>4, <2>1 DEF Wanted
  <2>2. CASE Cancels(f)
    <3>1. ~Wanted(f)'
      BY <1>4, <1>5, <2>2 DEF Cancels, Wanted
    <3> QED BY <1>2, <2>1, <2>2, <3>1, SharedReadAssumption DEF PendingIsWanted, LetsGo
  <2>3. CASE ~Cancels(f) /\ flight[f].subscribers = 1
    <3>1. ~Wanted(f) /\ ~Wanted(f)'
      BY <1>4, <2>3 DEF Cancels, Wanted, Unused
    <3> QED BY <1>2, <2>1, <2>3, <3>1 DEF PendingIsWanted
  <2>4. CASE flight[f].subscribers # 1
    <3>1. Wanted(f)' = Wanted(f)
      BY <1>2, <1>3, <1>4, <1>5, <2>4 DEF Wanted
    <3> QED BY <1>2, <2>1, <2>4, <3>1 DEF PendingIsWanted, Cancels
  <2> QED BY <2>2, <2>3, <2>4
<1>13. CacheSound' /\ (floor <= source)'
  BY <1>2 DEF CacheSound
<1>14. ASSUME NEW q \in Readers PROVE ReaderSound(q)'
  <2>1. CASE q = r
    BY <1>2, <2>1 DEF ReaderSound, TypeOK
  <2>2. CASE q # r
    <3>1. pc'[q] = pc[q] /\ on'[q] = on[q] /\ since'[q] = since[q] /\ answer'[q] = answer[q]
      BY <1>2, <2>2 DEF TypeOK
    <3>2. CASE pc[q] = "waiting" /\ on[q] = f
      <4>1. q \in Waiters(f)
        BY <3>2 DEF Waiters
      <4>2. flight[f].subscribers # 1
        BY <1>3, <2>2, <4>1
      <4> QED BY <1>2, <1>4, <1>5, <3>1, <3>2, <4>2 DEF ReaderSound
    <3>3. CASE ~(pc[q] = "waiting" /\ on[q] = f)
      BY <1>2, <1>4, <3>1, <3>3 DEF ReaderSound
    <3> QED BY <3>2, <3>3
  <2> QED BY <2>1, <2>2
<1> QED BY <1>7, <1>9, <1>11, <1>12, <1>13, <1>14

\* An invalidation lets go of the entry and of the load.
LEMMA InvalidateStep ==
    ASSUME IInv, Invalidate
    PROVE  IInv'
<1> USE DEF IInv
<1>1. /\ generation' = generation + 1 /\ cached' = NoCache /\ pending' = None
      /\ source' = source /\ floor' = source /\ now' = now
      /\ flight' = flight /\ pc' = pc /\ on' = on /\ since' = since /\ answer' = answer
  BY DEF Invalidate, readerVars
<1>2. TypeOK'
  BY <1>1 DEF TypeOK, NoCache, NoOutcome, Outcomes
<1>3. ASSUME NEW f \in Flights PROVE Counted(f)' /\ FlightSound(f)'
  <2>1. flight[f].gen # generation' /\ flight[f].gen <= generation'
    BY <1>1 DEF FlightSound, TypeOK
  <2>2. pending' # f
    BY <1>1, SharedReadAssumption
  <2> QED BY <1>1, <2>1, <2>2, SameCount DEF FlightSound
<1>4. PendingIsWanted' /\ CacheSound' /\ (floor <= source)'
  <2>1. ASSUME NEW f \in Flights PROVE ~Wanted(f)'
    BY <1>1 DEF FlightSound, Wanted, TypeOK
  <2>2. PendingIsWanted'
    BY <1>1, <2>1, SharedReadAssumption DEF PendingIsWanted
  <2> QED BY <1>1, <2>2 DEF CacheSound, Tellable, NoCache, NoOutcome, TypeOK
<1>5. ASSUME NEW q \in Readers PROVE ReaderSound(q)'
  BY <1>1 DEF ReaderSound, TypeOK
<1> QED BY <1>2, <1>3, <1>4, <1>5

\* The source changes, or time passes.
LEMMA WorldStep ==
    ASSUME IInv, SourceChanges \/ Tick
    PROVE  IInv'
<1> USE DEF IInv
<1>1. /\ generation' = generation /\ cached' = cached /\ pending' = pending
      /\ source' \in Nat /\ source <= source' /\ floor' = floor /\ now' \in Nat
      /\ flight' = flight /\ pc' = pc /\ on' = on /\ since' = since /\ answer' = answer
  BY DEF SourceChanges, Tick, cacheVars, readerVars, TypeOK
<1>2. TypeOK'
  BY <1>1 DEF TypeOK
<1>3. ASSUME NEW f \in Flights PROVE Counted(f)' /\ FlightSound(f)'
  BY <1>1, SameCount DEF FlightSound, TypeOK, Outcomes
<1>4. PendingIsWanted' /\ CacheSound' /\ (floor <= source)'
  <2>1. PendingIsWanted'
    BY <1>1, SameSlot
  <2> QED BY <1>1, <2>1 DEF CacheSound, TypeOK, Outcomes
<1>5. ASSUME NEW q \in Readers PROVE ReaderSound(q)'
  BY <1>1 DEF ReaderSound, TypeOK, Outcomes
<1> QED BY <1>2, <1>3, <1>4, <1>5

\* What a reader is told when its load has settled may be told.
LEMMA DeliverSound ==
    ASSUME IInv, NEW r \in Readers, Deliver(r)
    PROVE  LET o == flight[on[r]].outcome
           IN  /\ on[r] \in Flights /\ o \in Outcomes /\ Tellable(o)
               /\ o.how = "value" => since[r] <= o.of /\ o.of <= source
<1> DEFINE f == on[r]
<1>1. f \in Flights /\ pc[r] = "waiting" /\ r \in Waiters(f)
  BY DEF IInv, Deliver, ReaderSound, Waiters
<1>2. flight[f].subscribers # 0
  BY <1>1, WaiterCounts DEF IInv
<1>3. flight[f].outcome # Left
  BY <1>1, <1>2 DEF IInv, FlightSound, Tellable, NoOutcome, Error, Left
<1>4. flight[f].outcome \in Outcomes /\ Tellable(flight[f].outcome)
  BY <1>1, <1>3 DEF IInv, FlightSound, TypeOK
<1> QED BY <1>1, <1>4 DEF IInv, FlightSound, ReaderSound

\* Every step keeps the inductive invariant.
LEMMA StepIInv == IInv /\ [Next]_vars => IInv'
<1> SUFFICES ASSUME IInv, [Next]_vars PROVE IInv'
  OBVIOUS
<1>1. ASSUME NEW r \in Readers, GetCached(r) \/ DeliverCached(r) \/ LeaveCached(r) PROVE IInv'
  BY <1>1, CachedStep
<1>2. ASSUME NEW r \in Readers, GetJoin(r) PROVE IInv'
  BY <1>2, JoinStep
<1>3. ASSUME NEW r \in Readers, NEW f \in Flights, GetLoad(r, f) PROVE IInv'
  BY <1>3, LoadStep
<1>4. ASSUME NEW r \in Readers, Deliver(r) PROVE IInv'
  BY <1>4, DeliverSound, LeaveStep DEF Deliver
<1>5. ASSUME NEW r \in Readers, LeaveWaiting(r) PROVE IInv'
  <2>1. NoOutcome \in Outcomes /\ Tellable(NoOutcome) /\ NoOutcome.how # "value"
    BY DEF NoOutcome, Outcomes, Tellable
  <2>2. on[r] \in Flights
    BY <1>5 DEF LeaveWaiting, IInv, ReaderSound
  <2> QED BY <1>5, <2>1, <2>2, LeaveStep DEF LeaveWaiting
<1>6. ASSUME NEW f \in Flights, FlightStep(f) PROVE IInv'
  BY <1>6, LoadingStep, FinallyStep DEF FlightStep
<1>7. CASE Invalidate \/ SourceChanges \/ Tick
  BY <1>7, InvalidateStep, WorldStep
<1>8. CASE UNCHANGED vars
  <2>1. ASSUME NEW f \in Flights PROVE Counted(f)' /\ FlightSound(f)'
    BY <1>8, <2>1, SameCount DEF vars, worldVars, cacheVars, readerVars, IInv, FlightSound
  <2>2. ASSUME NEW r \in Readers PROVE ReaderSound(r)'
    BY <1>8 DEF vars, worldVars, cacheVars, readerVars, IInv, ReaderSound
  <2>3. PendingIsWanted'
    BY <1>8, SameSlot DEF vars, cacheVars, IInv
  <2> QED BY <1>8, <2>1, <2>2, <2>3 DEF vars, worldVars, cacheVars, readerVars, IInv, TypeOK,
                                   CacheSound
<1> QED BY <1>1, <1>2, <1>3, <1>4, <1>5, <1>6, <1>7, <1>8 DEF Next, ReaderStep

\* The inductive invariant holds in every reachable state, for every set of readers
\* and of loads (SharedRead.get, invalidate).
THEOREM ReadInvariance == Spec => []IInv
BY InitIInv, StepIInv, PTL DEF Spec

\* The shared load is cancelled only after its last reader has left, and its count is
\* exact (leave, flight.subscribers).
THEOREM ReadersKeepTheirLoad == Spec => []ReadersKeepFlight
<1>1. IInv => ReadersKeepFlight
  <2> SUFFICES ASSUME IInv PROVE ReadersKeepFlight
    OBVIOUS
  <2>1. \A f \in Flights : flight[f].subscribers = Cardinality(Waiters(f))
    BY DEF IInv, Counted
  <2>2. ASSUME NEW r \in Readers, pc[r] = "waiting"
        PROVE  /\ on[r] \in Flights /\ flight[on[r]].phase # "unused"
               /\ flight[on[r]].aborted => flight[on[r]].outcome = Error
    <3>1. on[r] \in Flights /\ flight[on[r]].phase # "unused" /\ r \in Waiters(on[r])
      BY <2>2 DEF IInv, ReaderSound, Waiters
    <3>2. flight[on[r]].subscribers # 0
      BY <3>1, WaiterCounts DEF IInv
    <3> QED BY <3>1, <3>2 DEF IInv, FlightSound
  <2> QED BY <2>1, <2>2 DEF ReadersKeepFlight
<1> QED BY <1>1, ReadInvariance, PTL

\* The load that get() joins is exactly the one of this generation that has not settled
\* and still has a reader, whichever loads end, are cancelled or are let go of
\* (pending in get, leave, invalidate and the chain's last callback).
THEOREM OnlyWantedLoadsAreJoined == Spec => []PendingIsWanted
<1>1. IInv => PendingIsWanted
  BY DEF IInv
<1> QED BY <1>1, ReadInvariance, PTL

-----------------------------------------------------------------------------
\* The refinement.  A reader asks, is told or gives up in the same steps in both
\* specifications; everything a load does in between is a stutter of FreshRead.

\* A step that moves no reader and no version is a stutter of the abstraction.
LEMMA QuietStep ==
    ASSUME UNCHANGED <<pc, answer, since, source, floor>>
    PROVE  UNCHANGED Promise!vars
BY DEF Promise!vars, Asking, Told

\* A reader that asks, in whichever way it is served, asks in the abstraction.
LEMMA AskStep ==
    ASSUME TypeOK, NEW r \in Readers, NEW step \in {"waiting", "cached"}, NEW x,
           NEW a, Asks(r, step, x), answer' = [answer EXCEPT ![r] = a],
           UNCHANGED <<source, floor>>
    PROVE  Promise!Ask(r)
<1>1. r \notin Asking /\ Asking' = Asking \cup {r}
  BY DEF Asking, Asks, TypeOK
<1>2. [q \in Readers |-> Told(q)]' = [[q \in Readers |-> Told(q)] EXCEPT ![r] = Promise!NoAnswer]
  <2>1. Told(r)' = Promise!NoAnswer
    BY DEF Told, Asks, TypeOK, Promise!NoAnswer
  <2>2. ASSUME NEW q \in Readers, q # r PROVE Told(q)' = Told(q)
    BY <2>2 DEF Told, Asks, TypeOK
  <2> QED BY <2>1, <2>2
<1> QED BY <1>1, <1>2 DEF Promise!Ask, Asks

\* A reader whose read ends with what may be told hears it in the abstraction.
LEMMA EndStep ==
    ASSUME TypeOK, NEW r \in Readers, NEW o \in Outcomes, Tellable(o),
           o.how = "value" => since[r] <= o.of /\ o.of <= source,
           pc[r] # "idle", Ends(r, o), UNCHANGED <<source, floor>>
    PROVE  Promise!Tell(r) \/ Promise!Fail(r) \/ Promise!GiveUp(r)
<1>1. r \in Asking /\ Asking' = Asking \ {r} /\ since' = since
  BY DEF Asking, Ends, TypeOK
<1>2. [q \in Readers |-> Told(q)]' =
        [[q \in Readers |-> Told(q)] EXCEPT ![r] = [how |-> o.how, of |-> o.of]]
  <2>1. Told(r)' = [how |-> o.how, of |-> o.of]
    BY DEF Told, Ends, TypeOK
  <2>2. ASSUME NEW q \in Readers, q # r PROVE Told(q)' = Told(q)
    BY <2>2 DEF Told, Ends, TypeOK
  <2> QED BY <2>1, <2>2
<1>3. Promise!Closes(r, [how |-> o.how, of |-> o.of])
  BY <1>1, <1>2 DEF Promise!Closes
<1>4. CASE o.how = "value"
  <2>1. o.of \in since[r] .. source
    BY <1>4 DEF TypeOK, Outcomes
  <2> QED BY <1>3, <1>4, <2>1 DEF Promise!Tell
<1>5. CASE o = Error
  BY <1>3, <1>5 DEF Error, Promise!Fail
<1>6. CASE o = NoOutcome
  BY <1>3, <1>6 DEF NoOutcome, Promise!GiveUp, Promise!NoAnswer
<1> QED BY <1>4, <1>5, <1>6 DEF Tellable

\* Every step of SharedRead is a step of FreshRead or a stutter.
LEMMA StepPromise == IInv /\ [Next]_vars => [Promise!Next]_(Promise!vars)
<1> SUFFICES ASSUME IInv, [Next]_vars PROVE [Promise!Next]_(Promise!vars)
  OBVIOUS
<1>1. ASSUME NEW r \in Readers, GetCached(r) PROVE Promise!Ask(r)
  BY <1>1, AskStep DEF GetCached, worldVars, IInv
<1>2. ASSUME NEW r \in Readers, GetJoin(r) PROVE Promise!Ask(r)
  BY <1>2, AskStep DEF GetJoin, worldVars, IInv
<1>3. ASSUME NEW r \in Readers, NEW f \in Flights, GetLoad(r, f) PROVE Promise!Ask(r)
  BY <1>3, AskStep DEF GetLoad, worldVars, IInv
<1>4. ASSUME NEW r \in Readers, Deliver(r) \/ DeliverCached(r) \/ LeaveWaiting(r) \/ LeaveCached(r)
      PROVE  Promise!Tell(r) \/ Promise!Fail(r) \/ Promise!GiveUp(r)
  <2>1. CASE Deliver(r)
    BY <2>1, DeliverSound, EndStep DEF Deliver, worldVars, IInv
  <2>2. CASE DeliverCached(r)
    BY <2>2, EndStep DEF DeliverCached, worldVars, IInv, ReaderSound, TypeOK
  <2>3. CASE LeaveWaiting(r) \/ LeaveCached(r)
    <3>1. NoOutcome \in Outcomes /\ Tellable(NoOutcome) /\ NoOutcome.how # "value"
      BY DEF NoOutcome, Outcomes, Tellable
    <3> QED BY <2>3, <3>1, EndStep DEF LeaveWaiting, LeaveCached, worldVars, IInv
  <2> QED BY <1>4, <2>1, <2>2, <2>3
<1>5. ASSUME NEW f \in Flights, FlightStep(f) PROVE UNCHANGED Promise!vars
  BY <1>5, QuietStep DEF FlightStep, Begin, Sample, Resolve, Reject, Finally, readerVars, worldVars
<1>6. CASE Invalidate
  <2>1. floor' = source /\ source' = source /\ UNCHANGED <<Asking, since>>
        /\ UNCHANGED [q \in Readers |-> Told(q)]
    BY <1>6 DEF Invalidate, readerVars, Asking, Told
  <2>2. Promise!Invalidate
    BY <2>1 DEF Promise!Invalidate
  <2> QED BY <2>2 DEF Promise!Next
<1>7. CASE SourceChanges
  <2>1. source' = source + 1 /\ floor' = floor /\ UNCHANGED <<Asking, since>>
        /\ UNCHANGED [q \in Readers |-> Told(q)]
    BY <1>7 DEF SourceChanges, readerVars, Asking, Told
  <2>2. Promise!Change
    BY <2>1 DEF Promise!Change
  <2> QED BY <2>2 DEF Promise!Next
<1>8. CASE Tick \/ UNCHANGED vars
  BY <1>8, QuietStep DEF Tick, vars, readerVars, worldVars
<1>9. ASSUME NEW r \in Readers, ReaderStep(r) PROVE Promise!Next
  BY <1>9, <1>1, <1>2, <1>3, <1>4 DEF ReaderStep, Promise!Next
<1> QED BY <1>5, <1>6, <1>7, <1>8, <1>9 DEF Next

\* SharedRead implements FreshRead: no read that began after an invalidation is told
\* what the source held before it, through the cache, a load under way or another
\* reader's departure (docs/api.md: "Mutations invalidate affected caches, including
\* in-flight reads").
THEOREM ReadImplementsFreshRead == Spec => ImplementsFreshRead
<1>1. Init => Promise!Init
  BY DEF Init, Promise!Init, Promise!NoAnswer, Asking, Told, NoOutcome
<1> QED BY <1>1, ReadInvariance, StepPromise, PTL DEF Spec, ImplementsFreshRead, Promise!Spec
=============================================================================
