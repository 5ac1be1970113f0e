---------------------------- MODULE RpcAdmission ----------------------------
(***************************************************************************)
(* What the RPC client promises its callers (docs/api.md, "RPC capacity"): *)
(* at most RPC_CONCURRENCY calls are at the node at once, callers that do  *)
(* not fit wait in a line served first come first served, and a caller is  *)
(* turned away as busy only while every place inside and in the line is    *)
(* taken.  There is no counter and no signal here: who is inside is a set. *)
(***************************************************************************)
EXTENDS Naturals, FiniteSets, SequencesExt

CONSTANTS Callers, RPC_CONCURRENCY, RPC_QUEUE_LIMIT

VARIABLES inside,   \* the callers that may use the connection to the node
          line,     \* the callers waiting, the one served next first
          refused   \* the callers whose latest call was turned away as busy

vars == <<inside, line, refused>>

Outside == Callers \ (inside \cup ToSet(line))

Full     == Cardinality(inside) >= RPC_CONCURRENCY
LineFull == Len(line) >= RPC_QUEUE_LIMIT

Init == inside = {} /\ line = <<>> /\ refused = {}

\* Nobody is overtaken: a caller may go straight in only past an empty line.
Enter(c) ==
    /\ c \in Outside /\ ~Full /\ line = <<>>
    /\ inside' = inside \cup {c}
    /\ refused' = refused \ {c}
    /\ UNCHANGED line

Join(c) ==
    /\ c \in Outside /\ Full /\ ~LineFull
    /\ line' = Append(line, c)
    /\ refused' = refused \ {c}
    /\ UNCHANGED inside

Refuse(c) ==
    /\ c \in Outside /\ Full /\ LineFull
    /\ refused' = refused \cup {c}
    /\ UNCHANGED <<inside, line>>

\* A call that was cancelled before it began is not a refusal.
Fail(c) ==
    /\ c \in Outside
    /\ refused' = refused \ {c}
    /\ UNCHANGED <<inside, line>>

\* One caller gives up its place in the line; the order of the others is kept.
Quit(i) ==
    /\ i \in 1 .. Len(line)
    /\ line' = RemoveAt(line, i)
    /\ UNCHANGED <<inside, refused>>

\* The client shuts down: the whole line is sent away.
Close ==
    /\ line' = <<>>
    /\ UNCHANGED <<inside, refused>>

\* The place of a caller that leaves goes to the head of the line in the same
\* step, so that no place stays empty while somebody waits.
Finish(c) ==
    /\ c \in inside
    /\ IF line = <<>>
         THEN inside' = inside \ {c} /\ line' = line
         ELSE inside' = (inside \ {c}) \cup {Head(line)} /\ line' = Tail(line)
    /\ UNCHANGED refused

Next ==
    \/ \E c \in Callers : Enter(c) \/ Join(c) \/ Refuse(c) \/ Fail(c) \/ Finish(c)
    \/ \E i \in 1 .. Len(line) : Quit(i)
    \/ Close

Spec == Init /\ [][Next]_vars
=============================================================================
