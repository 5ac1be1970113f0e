------------------------------ MODULE ChainTips ------------------------------
(***************************************************************************)
(* The readers of block headers (src/server/services/node.ts): a reading   *)
(* of the chain tips, whose workers look up the age of each tip within a   *)
(* budget, and the dashboard, which reads the header of one block.  They   *)
(* share loads through KeyedReads, and either may go at any time.          *)
(***************************************************************************)
EXTENDS KeyedReads

CONSTANTS Workers,    \* CHAIN_TIP_WORKERS
          Dashboard,  \* the reader of dashboardInfo
          Tips        \* the lists of hashes the node may answer, within CHAIN_TIP_HEADER_LIMIT

ASSUME ChainTipsAssumption ==
    /\ Readers = Workers \cup {Dashboard} /\ Dashboard \notin Workers
    /\ {"loop", "done"} \cap Keys = {}
    /\ Tips \subseteq Seq(Keys)

VARIABLES reading,  \* the reading of the chain tips
          dash      \* what the dashboard waits for: a key or None

tipsVars == <<shared, reading, dash>>

NoReading ==
    [phase |-> "idle", selected |-> <<>>, next |-> 0, over |-> FALSE,
     at |-> [w \in Workers |-> None]]  \* the hash a worker waits for, "loop" or "done"

TipsInit == shared = NoReads /\ reading = NoReading /\ dash = None

\* chainTips: the list and the optional metadata are read first.
Ask ==
    /\ reading.phase = "idle"
    /\ reading' = [NoReading EXCEPT !.phase = "source"]
    /\ UNCHANGED <<shared, dash>>

\* The list comes, or its budget of ten seconds ends; so does the reading then.
Source ==
    /\ reading.phase = "source"
    /\ \/ \E tips \in Tips :
             reading' = [reading EXCEPT !.phase = "ages", !.selected = tips,
                                        !.at = [w \in Workers |-> "loop"]]
       \/ reading' = NoReading
    /\ UNCHANGED <<shared, dash>>

\* A worker takes the next tip, or ends: none is left, or the budget is over.
\* Its age is known (from a block that was shown, or cached), or was missing a
\* moment ago, or has to be waited for.  What was missing may have been refused
\* by a full RPC queue, which ends the reading as LoadSettles does.
Take(w) ==
    /\ reading.phase = "ages" /\ reading.at[w] = "loop"
    /\ IF reading.next = Len(reading.selected) \/ reading.over
       THEN reading' = [reading EXCEPT !.at[w] = "done"] /\ UNCHANGED shared
       ELSE LET hash == reading.selected[reading.next + 1]
                taken == [reading EXCEPT !.next = @ + 1]
            IN  \/ reading' = taken /\ UNCHANGED shared
                \/ /\ Contains(shared.lru, hash)
                   /\ reading' = taken /\ shared' = [shared EXCEPT !.lru = Used(@, hash)]
                \/ /\ ~Contains(shared.lru, hash) /\ FailureAnswers(shared, hash)
                   /\ \/ reading' = taken /\ shared' = Collected(prune(shared))
                      \/ reading' = NoReading /\ shared' = leave(prune(shared), Workers)
                \/ /\ ~Contains(shared.lru, hash) /\ Room
                   /\ reading' = [taken EXCEPT !.at[w] = hash]
                   /\ shared' = Collected(get(shared, hash, w))
    /\ UNCHANGED dash

\* dashboardInfo reads the header of the best block.
Read(key) ==
    /\ dash = None
    /\ \/ /\ Contains(shared.lru, key) /\ shared' = [shared EXCEPT !.lru = Used(@, key)]
          /\ UNCHANGED dash
       \/ /\ ~Contains(shared.lru, key) /\ FailureAnswers(shared, key)
          /\ shared' = Collected(prune(shared))
          /\ UNCHANGED dash
       \/ /\ ~Contains(shared.lru, key) /\ Room
          /\ shared' = Collected(get(shared, key, Dashboard)) /\ dash' = key
    /\ UNCHANGED reading

\* The clients of the dashboard have gone.
DashboardLeaves ==
    /\ dash # None
    /\ shared' = leave(shared, {Dashboard}) /\ dash' = None
    /\ UNCHANGED reading

\* A load settles.  A failed one leaves its tips without an age; "busy", the
\* refusal of a full RPC queue, ends the whole reading, and its workers leave.
LoadSettles(f, how) ==
    /\ shared.flight[f].live
    /\ LET waiting == shared.flight[f].readers
           told == {w \in Workers : w \in waiting}
           settled == settle(shared, f, how)
       IN  /\ dash' = IF Dashboard \in waiting THEN None ELSE dash
           /\ IF how = "busy" /\ told # {}
              THEN reading' = NoReading /\ shared' = leave(settled, Workers)
              ELSE /\ reading' = [reading EXCEPT
                                    !.at = [w \in Workers |-> IF w \in told THEN "loop" ELSE @[w]]]
                   /\ shared' = settled

\* A mutant of AgesEnd: the workers are told, but wait for their loads.
AgesEndWaiting ==
    /\ reading.phase = "ages" /\ ~reading.over
    /\ reading' = [reading EXCEPT !.over = TRUE]
    /\ UNCHANGED <<shared, dash>>

\* The budget of the ages is over: the workers leave what they wait for.
AgesEnd ==
    /\ reading.phase = "ages" /\ ~reading.over
    /\ reading' = [reading EXCEPT !.over = TRUE,
                      !.at = [w \in Workers |-> IF @[w] = "done" THEN @[w] ELSE "loop"]]
    /\ shared' = leave(shared, Workers)
    /\ UNCHANGED dash

\* All workers are done: the tips are shown, with the ages that are known.
Finish ==
    /\ reading.phase = "ages" /\ \A w \in Workers : reading.at[w] = "done"
    /\ reading' = NoReading
    /\ UNCHANGED <<shared, dash>>

\* The clients of the chain tips have gone, and all deadlines with them.
ClientsLeave ==
    /\ reading.phase # "idle"
    /\ reading' = NoReading /\ shared' = leave(shared, Workers)
    /\ UNCHANGED dash

TipsNext ==
    \/ Ask \/ Source \/ AgesEnd \/ Finish \/ ClientsLeave \/ DashboardLeaves
    \/ \E w \in Workers : Take(w)
    \/ \E key \in Keys : Read(key)
    \/ \E f \in Flights, how \in {"value", "failed", "busy"} : LoadSettles(f, how)
    \/ \E i \in Reads : FailureEnds(i) /\ UNCHANGED <<reading, dash>>

CanTake(w) == reading.phase = "ages" /\ reading.at[w] = "loop"
CanEnd == reading.phase = "ages" /\ ~reading.over

\* Deadlines pass and workers run; the last two lines are weak fairness of AgesEnd
\* and Take(w), written out because TLC is slow to find what is ENABLED there.
\* That a load settles is not assumed.
TipsFairness ==
    /\ WF_reading(Source) /\ WF_reading(Finish)
    /\ []<>(~CanEnd) \/ []<><<AgesEnd>>_reading
    /\ \A w \in Workers : []<>(~CanTake(w)) \/ []<><<Take(w)>>_reading

TipsSpec == TipsInit /\ [][TipsNext]_tipsVars /\ TipsFairness

----------------------------------------------------------------------------
\* A reader waits exactly for the load it has joined, and is never forgotten.
TipsTypeOK ==
    /\ \A w \in Workers : reading.at[w] \in Keys <=> \E f \in Flights : w \in shared.flight[f].readers
    /\ dash # None <=> \E f \in Flights : Dashboard \in shared.flight[f].readers
    /\ \A f \in Flights : shared.flight[f].live <=> shared.flight[f] # NoFlight

\* A reading of the chain tips ends, also when every header load hangs.
TipsEnd == reading.phase # "idle" ~> reading.phase = "idle"
=============================================================================
