------------------------------ MODULE RpcGate ------------------------------
(***************************************************************************)
(* BitcoinRpcClient (src/server/rpc.ts): the gate every call to the node   *)
(* passes.  A call runs acquire() synchronously, then waits for its slot,  *)
(* checks its signal again in the continuation, sends the request and      *)
(* gives its slot back in a finally block.  Its signal may abort at any    *)
(* moment: its own timeout, the caller that went away, or the runtime that *)
(* stops, which aborts every call at once.                                 *)
(*                                                                         *)
(* A caller has one call outstanding at a time and may call again: each    *)
(* call gets a new signal.                                                 *)
(***************************************************************************)
EXTENDS Naturals, FiniteSets, SequencesExt

CONSTANTS Callers,          \* the concurrent callers of call()/callWallet()
          RPC_CONCURRENCY,  \* 8 in the code
          RPC_QUEUE_LIMIT   \* 32 in the code

ASSUME LimitsAssumption ==
    /\ RPC_CONCURRENCY \in Nat \ {0}
    /\ RPC_QUEUE_LIMIT \in Nat

VARIABLES active,   \* the private counter of slots in use
          waiting,  \* the queue of WaitingCall entries
          pc,       \* where each caller's call is
          aborted,  \* the signal of the caller's call has fired
          answer,   \* how the caller's latest call ended
          stopped   \* the runtime signal has fired

vars == <<active, waiting, pc, aborted, answer, stopped>>

Init ==
    /\ active = 0
    /\ waiting = <<>>
    /\ pc = [c \in Callers |-> "idle"]
    /\ aborted = [c \in Callers |-> FALSE]
    /\ answer = [c \in Callers |-> "none"]
    /\ stopped = FALSE

-----------------------------------------------------------------------------
\* acquire

HasSlot   == active < RPC_CONCURRENCY
QueueFull == Len(waiting) >= RPC_QUEUE_LIMIT

Starts(c, at) ==
    /\ pc[c] = "idle"
    /\ pc' = [pc EXCEPT ![c] = at]
    /\ answer' = [answer EXCEPT ![c] = "none"]
    /\ UNCHANGED <<aborted, stopped>>

Fails(c, why) ==
    /\ pc[c] = "idle"
    /\ answer' = [answer EXCEPT ![c] = why]
    /\ UNCHANGED <<active, waiting, pc, aborted, stopped>>

\* The caller's signal, or the runtime's, had fired before the call began.
RequestCancelled(c) == Fails(c, "failed")

RequestAdmitted(c) ==
    /\ ~stopped /\ HasSlot
    /\ active' = active + 1
    /\ Starts(c, "granted")
    /\ UNCHANGED waiting

RequestQueued(c) ==
    /\ ~stopped /\ ~HasSlot /\ ~QueueFull
    /\ waiting' = Append(waiting, c)
    /\ Starts(c, "queued")
    /\ UNCHANGED active

RequestBusy(c) ==
    /\ ~stopped /\ ~HasSlot /\ QueueFull
    /\ Fails(c, "busy")

Request(c) ==
    \/ RequestCancelled(c)
    \/ RequestAdmitted(c)
    \/ RequestQueued(c)
    \/ RequestBusy(c)

-----------------------------------------------------------------------------
\* The entry.abort listener

\* A queued call leaves the queue and is rejected.
CancelQueued(c) ==
    /\ pc[c] = "queued"
    /\ \E i \in 1 .. Len(waiting) :
         /\ waiting[i] = c
         /\ waiting' = RemoveAt(waiting, i)
    /\ pc' = [pc EXCEPT ![c] = "idle"]
    /\ answer' = [answer EXCEPT ![c] = "failed"]
    /\ UNCHANGED <<active, aborted, stopped>>

\* A call that has its slot only learns of it: it gives the slot back itself.
CancelHolder(c) ==
    /\ pc[c] \in {"granted", "dispatched"}
    /\ ~aborted[c]
    /\ aborted' = [aborted EXCEPT ![c] = TRUE]
    /\ UNCHANGED <<active, waiting, pc, answer, stopped>>

\* Mutant: the transport is not given the signal.
CancelQueuedOnly(c) == CancelQueued(c)
Cancel(c) == CancelQueued(c) \/ CancelHolder(c)

\* The runtime signal is part of every call's signal: all queued calls are
\* rejected in one synchronous dispatch, and no slot is freed in between.
StopRuntime ==
    /\ ~stopped
    /\ stopped' = TRUE
    /\ waiting' = <<>>
    /\ pc' = [c \in Callers |-> IF pc[c] = "queued" THEN "idle" ELSE pc[c]]
    /\ aborted' = [c \in Callers |-> pc[c] \in {"granted", "dispatched"}]
    /\ answer' = [c \in Callers |-> IF pc[c] = "queued" THEN "failed" ELSE answer[c]]
    /\ UNCHANGED active

-----------------------------------------------------------------------------
\* release

\* Mutant: the call that came last is served first.
ReleaseLast(c) ==
    IF waiting = <<>>
      THEN /\ active' = active - 1
           /\ waiting' = waiting
           /\ pc' = [pc EXCEPT ![c] = "idle"]
      ELSE /\ active' = (active - 1) + 1
           /\ waiting' = SubSeq(waiting, 1, Len(waiting) - 1)
           /\ pc' = [pc EXCEPT ![c] = "idle", ![waiting[Len(waiting)]] = "granted"]

\* The slot of c goes to the head of the queue, which continues later on.
Release(c) ==
    IF waiting = <<>>
      THEN /\ active' = active - 1
           /\ waiting' = waiting
           /\ pc' = [pc EXCEPT ![c] = "idle"]
      ELSE /\ active' = (active - 1) + 1
           /\ waiting' = Tail(waiting)
           /\ pc' = [pc EXCEPT ![c] = "idle", ![Head(waiting)] = "granted"]

\* The call is over, whatever its outcome: request()'s finally block.
Leaves(c, how) ==
    /\ Release(c)
    /\ aborted' = [aborted EXCEPT ![c] = FALSE]
    /\ answer' = [answer EXCEPT ![c] = how]
    /\ UNCHANGED stopped

-----------------------------------------------------------------------------
\* The continuation of request() after "await this.acquire(signal)"

\* Mutant: the signal is not looked at again after the wait.
DispatchUnchecked(c) ==
    /\ pc[c] = "granted"
    /\ pc' = [pc EXCEPT ![c] = "dispatched"]
    /\ UNCHANGED <<active, waiting, aborted, answer, stopped>>

Dispatch(c) ==
    /\ pc[c] = "granted" /\ ~aborted[c]
    /\ pc' = [pc EXCEPT ![c] = "dispatched"]
    /\ UNCHANGED <<active, waiting, aborted, answer, stopped>>

\* Mutant: the check stands before the try, so that its throw skips finally.
DropLeaksSlot(c) ==
    /\ pc[c] = "granted" /\ aborted[c]
    /\ pc' = [pc EXCEPT ![c] = "idle"]
    /\ aborted' = [aborted EXCEPT ![c] = FALSE]
    /\ answer' = [answer EXCEPT ![c] = "failed"]
    /\ UNCHANGED <<active, waiting, stopped>>

\* Cancelled between the grant and the continuation: nothing is sent.
Drop(c) == pc[c] = "granted" /\ aborted[c] /\ Leaves(c, "failed")

\* The transport ends with a whole response or with an error.  An abort that
\* comes after the last byte changes nothing.
Settle(c) ==
    /\ pc[c] = "dispatched"
    /\ \E how \in {"response", "failed"} : Leaves(c, how)

SettleAborted(c) == aborted[c] /\ Settle(c)

-----------------------------------------------------------------------------
Next ==
    \/ \E c \in Callers : \/ Request(c) \/ Cancel(c)
                          \/ Dispatch(c) \/ Drop(c) \/ Settle(c)
    \/ StopRuntime

\* Every call carries a timeout, continuations run, and a destroyed request
\* reports an error.  The node itself owes no answer.
Fairness ==
    \A c \in Callers :
        /\ WF_vars(Cancel(c))
        /\ WF_vars(Dispatch(c) \/ Drop(c))
        /\ WF_vars(SettleAborted(c))

Spec == Init /\ [][Next]_vars
FairSpec == Spec /\ Fairness

-----------------------------------------------------------------------------
Holders == {c \in Callers : pc[c] \in {"granted", "dispatched"}}

\* Every variable has its type.
TypeOK ==
    /\ active \in Nat
    /\ waiting \in Seq(Callers)
    /\ pc \in [Callers -> {"idle", "queued", "granted", "dispatched"}]
    /\ aborted \in [Callers -> BOOLEAN]
    /\ answer \in [Callers -> {"none", "response", "failed", "busy"}]
    /\ stopped \in BOOLEAN

\* No slot leaks and none is returned twice: the counter is the number of
\* calls between acquire() and release(), and never exceeds the limit.
SlotsAccounted ==
    /\ active = Cardinality(Holders)
    /\ active <= RPC_CONCURRENCY

\* The queue holds exactly the calls still waiting, each once, within its bound.
QueueExact ==
    /\ ToSet(waiting) = {c \in Callers : pc[c] = "queued"}
    /\ \A i, j \in 1 .. Len(waiting) : waiting[i] = waiting[j] => i = j
    /\ Len(waiting) <= RPC_QUEUE_LIMIT

\* Nobody waits while a slot is free.
WorkConserving == waiting # <<>> => active = RPC_CONCURRENCY

\* A new call never takes a slot ahead of the calls already queued
\* (docs/api.md: "eight active calls and 32 FIFO queued calls").
NoBarging ==
    [][\A c \in Callers : pc[c] = "idle" /\ pc'[c] = "granted" => waiting = <<>>]_vars

\* A call whose signal fired before it was sent is never sent, whichever way it
\* came by its slot (docs/api.md: "cancelled or expired queued work never dispatches").
CancelledNeverDispatches ==
    [][\A c \in Callers : pc[c] # "dispatched" /\ pc'[c] = "dispatched"
                             => ~aborted[c] /\ ~stopped]_vars

\* The gate does what RpcAdmission promises.
Admission == INSTANCE RpcAdmission
    WITH inside <- Holders, line <- waiting,
         refused <- {c \in Callers : answer[c] = "busy"}
ImplementsAdmission == Admission!Spec

\* Every call ends, even if the node never answers.
EveryCallEnds == \A c \in Callers : pc[c] # "idle" ~> pc[c] = "idle"

=============================================================================
