----------------------------- MODULE FreshRead -----------------------------
(***************************************************************************)
(* What a shared read promises (docs/api.md: "Mutations invalidate         *)
(* affected caches, including in-flight reads"): a reader is told what     *)
(* the source held at some moment that is not before the last invalidation *)
(* preceding its question, or that the source failed.  Nothing is said of  *)
(* caches, loads or who shares what, and a reader never hears of another   *)
(* reader's departure.                                                     *)
(***************************************************************************)
EXTENDS Naturals

CONSTANTS Readers

VARIABLES source,   \* the version the source holds
          floor,    \* its version at the last invalidation
          asking,   \* the readers with a question open
          since,    \* floor when each reader's latest question was asked
          answer    \* what each reader was told last: how it ended, and a version

vars == <<source, floor, asking, since, answer>>

NoAnswer == [how |-> "none", of |-> 0]

Init ==
    /\ source = 0 /\ floor = 0
    /\ asking = {}
    /\ since = [r \in Readers |-> 0]
    /\ answer = [r \in Readers |-> NoAnswer]

Change ==
    /\ source' = source + 1
    /\ UNCHANGED <<floor, asking, since, answer>>

Invalidate ==
    /\ floor' = source
    /\ UNCHANGED <<source, asking, since, answer>>

Ask(r) ==
    /\ r \notin asking
    /\ asking' = asking \cup {r}
    /\ since' = [since EXCEPT ![r] = floor]
    /\ answer' = [answer EXCEPT ![r] = NoAnswer]
    /\ UNCHANGED <<source, floor>>

Closes(r, a) ==
    /\ r \in asking
    /\ asking' = asking \ {r}
    /\ answer' = [answer EXCEPT ![r] = a]
    /\ UNCHANGED <<source, floor, since>>

Tell(r)   == \E v \in since[r] .. source : Closes(r, [how |-> "value", of |-> v])
Fail(r)   == Closes(r, [how |-> "error", of |-> 0])
GiveUp(r) == Closes(r, NoAnswer)

Next ==
    \/ Change \/ Invalidate
    \/ \E r \in Readers : Ask(r) \/ Tell(r) \/ Fail(r) \/ GiveUp(r)

Spec == Init /\ [][Next]_vars
=============================================================================
