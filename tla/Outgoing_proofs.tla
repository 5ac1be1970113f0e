--------------------------- MODULE Outgoing_proofs ---------------------------
(***************************************************************************)
(* Proofs about what leaves the process: the calls that pass RpcGate, the  *)
(* optional work that OutboundRuntime permits, and the header loads that   *)
(* the readers of ChainTips share.                                         *)
(*                                                                         *)
(* The first part is about RpcGate, for any set of callers and any limits: *)
(* the inductive invariant behind the slot count and the queue, and that   *)
(* the gate implements RpcAdmission.                                       *)
(*                                                                         *)
(* The second is about OutboundRuntime: what is permitted is scheduled or  *)
(* under way, what is not is told to stop, and the file has what is in     *)
(* force. The three are not inductive by themselves. A process that starts *)
(* must be known to have nothing under way yet (StartsIdle); and a merge   *)
(* that outlives the download must be known to have been told of a         *)
(* withdrawal too (UpdatesTold), or an update could end as if it had been  *)
(* tried under the permission in force.                                    *)
(*                                                                         *)
(* The third is about KeyedReads and its readers: no header is loaded      *)
(* twice at once, what is kept is bounded, and no reader is forgotten. It  *)
(* has an invariant of the store alone (Sound), which every operation of   *)
(* KeyedReads is shown to preserve, and one that relates the readers to    *)
(* the loads they have joined (Waits). The properties of the run say       *)
(* nothing of loads that were let go of and settle late, nor of reads      *)
(* between two slots; Sound does: whatever loads owns the slot of its key  *)
(* and the load that was not let go of, and a failure that is kept has no  *)
(* slot.                                                                   *)
(***************************************************************************)
EXTENDS RpcGate, OutboundRuntime, ChainTips, FiniteSetTheorems, SequenceTheorems,
        WellFoundedInduction, TLAPS

-----------------------------------------------------------------------------
(* Facts about the sequence operators of the queue. *)

\* What is left when one entry is spliced out of the queue.
LEMMA RemoveAtProperties ==
    ASSUME NEW S, NEW s \in Seq(S), NEW i \in 1 .. Len(s)
    PROVE  /\ RemoveAt(s, i) \in Seq(S)
           /\ Len(RemoveAt(s, i)) = Len(s) - 1
           /\ \A j \in 1 .. Len(s) - 1 :
                RemoveAt(s, i)[j] = IF j < i THEN s[j] ELSE s[j + 1]
<1> DEFINE front == SubSeq(s, 1, i - 1)
           back  == SubSeq(s, i + 1, Len(s))
<1>1. /\ front \in Seq(S) /\ Len(front) = i - 1
      /\ \A j \in 1 .. i - 1 : front[j] = s[j]
  <2>1. \A j \in 1 .. i - 1 : s[j] \in S
    BY ElementOfSeq, LenProperties
  <2>2. 1 \in Int /\ i - 1 \in Int /\ Len(s) \in Nat
    BY LenProperties
  <2> QED BY <2>1, <2>2, SubSeqProperties
<1>2. /\ back \in Seq(S) /\ Len(back) = Len(s) - i
      /\ \A j \in 1 .. Len(s) - i : back[j] = s[i + j]
  <2>1. \A j \in i + 1 .. Len(s) : s[j] \in S
    BY ElementOfSeq, LenProperties
  <2>2. i + 1 \in Int /\ Len(s) \in Int /\ Len(s) \in Nat
    BY LenProperties
  <2>3. /\ back \in Seq(S)
        /\ Len(back) = IF i + 1 <= Len(s) THEN Len(s) - (i + 1) + 1 ELSE 0
        /\ \A j \in 1 .. Len(s) - (i + 1) + 1 : back[j] = s[i + 1 + j - 1]
    BY <2>1, <2>2, SubSeqProperties
  <2> QED BY <2>2, <2>3
<1>3. RemoveAt(s, i) = front \o back
  BY DEF RemoveAt
<1> HIDE DEF front, back
<1>4. /\ front \o back \in Seq(S)
      /\ Len(front \o back) = Len(front) + Len(back)
      /\ \A j \in 1 .. Len(front) + Len(back) :
           (front \o back)[j] = IF j <= Len(front) THEN front[j] ELSE back[j - Len(front)]
  BY <1>1, <1>2, ConcatProperties
<1>5. Len(s) \in Nat
  BY LenProperties
<1> QED BY <1>1, <1>2, <1>3, <1>4, <1>5

\* An entry spliced out of a queue without repetitions is gone from it, and is
\* the only one gone.
LEMMA RemoveAtDistinct ==
    ASSUME NEW S, NEW s \in Seq(S), NEW i \in 1 .. Len(s),
           \A j, k \in 1 .. Len(s) : s[j] = s[k] => j = k
    PROVE  /\ ToSet(RemoveAt(s, i)) = ToSet(s) \ {s[i]}
           /\ \A j, k \in 1 .. Len(RemoveAt(s, i)) :
                RemoveAt(s, i)[j] = RemoveAt(s, i)[k] => j = k
<1> DEFINE r == RemoveAt(s, i)
<1>1. /\ r \in Seq(S) /\ Len(r) = Len(s) - 1 /\ Len(s) \in Nat
      /\ \A j \in 1 .. Len(s) - 1 : r[j] = IF j < i THEN s[j] ELSE s[j + 1]
  BY RemoveAtProperties, LenProperties
<1> HIDE DEF r
<1>2. DOMAIN r = 1 .. Len(s) - 1 /\ DOMAIN s = 1 .. Len(s)
  BY <1>1, LenProperties
<1>3. ToSet(r) \subseteq ToSet(s) \ {s[i]}
  <2> SUFFICES ASSUME NEW j \in 1 .. Len(s) - 1
               PROVE  r[j] \in ToSet(s) \ {s[i]}
    BY <1>2 DEF ToSet
  <2> QED BY <1>1, <1>2 DEF ToSet
<1>4. ToSet(s) \ {s[i]} \subseteq ToSet(r)
  <2> SUFFICES ASSUME NEW j \in 1 .. Len(s), s[j] # s[i]
               PROVE  s[j] \in ToSet(r)
    BY <1>2 DEF ToSet
  <2>1. CASE j < i
    <3>1. j \in 1 .. Len(s) - 1 /\ r[j] = s[j]
      BY <2>1, <1>1
    <3> QED BY <3>1, <1>2 DEF ToSet
  <2>2. CASE j > i
    <3>1. j - 1 \in 1 .. Len(s) - 1 /\ r[j - 1] = s[j]
      BY <2>2, <1>1
    <3> QED BY <3>1, <1>2 DEF ToSet
  <2> QED BY <2>1, <2>2
<1>5. \A j, k \in 1 .. Len(r) : r[j] = r[k] => j = k
  BY <1>1
<1> QED BY <1>3, <1>4, <1>5 DEF r

\* The head of a queue without repetitions leaves it, and nobody else does.
LEMMA TailDistinct ==
    ASSUME NEW S, NEW s \in Seq(S), s # <<>>,
           \A j, k \in 1 .. Len(s) : s[j] = s[k] => j = k
    PROVE  /\ Head(s) \in S /\ Tail(s) \in Seq(S) /\ Len(Tail(s)) = Len(s) - 1
           /\ Head(s) \in ToSet(s)
           /\ ToSet(Tail(s)) = ToSet(s) \ {Head(s)}
           /\ \A j, k \in 1 .. Len(Tail(s)) : Tail(s)[j] = Tail(s)[k] => j = k
<1> DEFINE r == Tail(s)
<1>1. /\ Head(s) \in S /\ r \in Seq(S) /\ Len(r) = Len(s) - 1
      /\ \A i \in 1 .. Len(r) : r[i] = s[i + 1]
  BY HeadTailProperties
<1>2. Head(s) = s[1] /\ Len(s) \in Nat /\ Len(s) > 0
  BY LenProperties, EmptySeq
<1> HIDE DEF r
<1>3. DOMAIN r = 1 .. Len(s) - 1 /\ DOMAIN s = 1 .. Len(s)
  BY <1>1, LenProperties
<1>4. ToSet(r) \subseteq ToSet(s) \ {Head(s)}
  <2> SUFFICES ASSUME NEW j \in 1 .. Len(s) - 1
               PROVE  r[j] \in ToSet(s) \ {Head(s)}
    BY <1>3 DEF ToSet
  <2> QED BY <1>1, <1>2, <1>3 DEF ToSet
<1>5. ToSet(s) \ {Head(s)} \subseteq ToSet(r)
  <2> SUFFICES ASSUME NEW j \in 1 .. Len(s), s[j] # Head(s)
               PROVE  s[j] \in ToSet(r)
    BY <1>3 DEF ToSet
  <2>1. j - 1 \in 1 .. Len(s) - 1 /\ r[j - 1] = s[j]
    BY <1>1, <1>2
  <2> QED BY <2>1, <1>3 DEF ToSet
<1>6. \A j, k \in 1 .. Len(r) : r[j] = r[k] => j = k
  BY <1>1, <1>2
<1>7. Head(s) \in ToSet(s)
  BY <1>2, <1>3 DEF ToSet
<1> QED BY <1>1, <1>4, <1>5, <1>6, <1>7 DEF r

\* A newcomer is added to the queue and nobody else is.
LEMMA AppendDistinct ==
    ASSUME NEW S, NEW s \in Seq(S), NEW e \in S, e \notin ToSet(s),
           \A j, k \in 1 .. Len(s) : s[j] = s[k] => j = k
    PROVE  /\ Append(s, e) \in Seq(S) /\ Append(s, e) # <<>>
           /\ Len(Append(s, e)) = Len(s) + 1
           /\ ToSet(Append(s, e)) = ToSet(s) \cup {e}
           /\ \A j, k \in 1 .. Len(Append(s, e)) :
                Append(s, e)[j] = Append(s, e)[k] => j = k
<1> DEFINE r == Append(s, e)
<1>1. /\ r \in Seq(S) /\ r # <<>> /\ Len(r) = Len(s) + 1 /\ Len(s) \in Nat
      /\ \A i \in 1 .. Len(s) : r[i] = s[i]
      /\ r[Len(s) + 1] = e
  BY AppendProperties, LenProperties
<1> HIDE DEF r
<1>2. DOMAIN r = 1 .. Len(s) + 1 /\ DOMAIN s = 1 .. Len(s)
  BY <1>1, LenProperties
<1>3. ToSet(r) \subseteq ToSet(s) \cup {e}
  <2> SUFFICES ASSUME NEW j \in 1 .. Len(s) + 1
               PROVE  r[j] \in ToSet(s) \cup {e}
    BY <1>2 DEF ToSet
  <2>1. CASE j = Len(s) + 1
    BY <2>1, <1>1
  <2>2. CASE j \in 1 .. Len(s)
    BY <2>2, <1>1, <1>2 DEF ToSet
  <2> QED BY <2>1, <2>2, <1>1
<1>4. ToSet(s) \cup {e} \subseteq ToSet(r)
  <2>1. e \in ToSet(r)
    <3>1. Len(s) + 1 \in DOMAIN r
      BY <1>1, <1>2
    <3> QED BY <3>1, <1>1 DEF ToSet
  <2>2. ASSUME NEW j \in 1 .. Len(s)
        PROVE  s[j] \in ToSet(r)
    <3>1. j \in DOMAIN r /\ r[j] = s[j]
      BY <1>1, <1>2
    <3> QED BY <3>1 DEF ToSet
  <2> QED BY <2>1, <2>2, <1>2 DEF ToSet
<1>5. \A j \in 1 .. Len(s) : s[j] # e
  BY <1>2 DEF ToSet
<1>6. \A j, k \in 1 .. Len(r) : r[j] = r[k] => j = k
  BY <1>1, <1>5
<1> QED BY <1>1, <1>3, <1>4, <1>6 DEF r

-----------------------------------------------------------------------------
(* The inductive invariant.  SlotsAccounted alone is not inductive: that    *)
(* release() hands the slot to a call that waits needs QueueExact, and that *)
(* it may keep the count needs the queue and the count to agree.            *)

IInv ==
    /\ TypeOK
    /\ IsFiniteSet(Holders)
    /\ SlotsAccounted
    /\ QueueExact
    /\ WorkConserving

LEMMA InitIInv == Init => IInv
<1> SUFFICES ASSUME Init PROVE IInv
  OBVIOUS
<1>1. Holders = {} /\ {c \in Callers : pc[c] = "queued"} = {}
  BY DEF Init, Holders
<1>2. ToSet(waiting) = {} /\ Len(waiting) = 0 /\ waiting \in Seq(Callers)
  BY DEF Init, ToSet
<1>3. IsFiniteSet(Holders) /\ Cardinality(Holders) = 0
  BY <1>1, FS_EmptySet
<1>4. TypeOK
  BY <1>2 DEF Init, TypeOK
<1>5. SlotsAccounted
  BY <1>3, LimitsAssumption DEF Init, SlotsAccounted
<1>6. QueueExact
  <2>1. \A i, j \in 1 .. Len(waiting) : waiting[i] = waiting[j] => i = j
    BY <1>2
  <2> QED BY <1>1, <1>2, <2>1, LimitsAssumption DEF QueueExact
<1>7. WorkConserving
  BY DEF Init, WorkConserving
<1> QED BY <1>3, <1>4, <1>5, <1>6, <1>7 DEF IInv

\* What release() does to the count, the queue and the set of holders.
LEMMA ReleaseStep ==
    ASSUME IInv, NEW c \in Callers, c \in Holders, Release(c)
    PROVE  /\ active' \in Nat
           /\ waiting' \in Seq(Callers)
           /\ pc' \in [Callers -> {"idle", "queued", "granted", "dispatched"}]
           /\ IsFiniteSet(Holders)'
           /\ SlotsAccounted'
           /\ QueueExact'
           /\ WorkConserving'
           /\ IF waiting = <<>>
                THEN waiting' = waiting /\ Holders' = Holders \ {c}
                ELSE /\ waiting' = Tail(waiting)
                     /\ Holders' = (Holders \ {c}) \cup {Head(waiting)}
<1> USE DEF IInv, TypeOK
<1>1. IsFiniteSet(Holders \ {c}) /\ Cardinality(Holders \ {c}) = active - 1
  BY FS_RemoveElement DEF SlotsAccounted
<1>2. active \in Nat /\ active >= 1
  <2>1. Cardinality(Holders \ {c}) \in Nat
    BY <1>1, FS_CardinalityType
  <2> QED BY <1>1, <2>1
<1>3. CASE waiting = <<>>
  <2>1. active' = active - 1 /\ waiting' = waiting /\ pc' = [pc EXCEPT ![c] = "idle"]
    BY <1>3 DEF Release
  <2>2. Holders' = Holders \ {c}
    BY <2>1 DEF Holders
  <2>3. {d \in Callers : pc'[d] = "queued"} = {d \in Callers : pc[d] = "queued"}
    BY <2>1 DEF Holders
  <2>4. QueueExact'
    BY <2>1, <2>3 DEF QueueExact, ToSet
  <2>5. SlotsAccounted' /\ WorkConserving' /\ IsFiniteSet(Holders)'
    BY <1>1, <1>2, <1>3, <2>1, <2>2, LimitsAssumption DEF SlotsAccounted, WorkConserving
  <2>6. /\ active' \in Nat /\ waiting' \in Seq(Callers)
        /\ pc' \in [Callers -> {"idle", "queued", "granted", "dispatched"}]
    BY <1>2, <2>1
  <2> QED BY <1>3, <2>1, <2>2, <2>4, <2>5, <2>6
<1>4. CASE waiting # <<>>
  <2> DEFINE n == Head(waiting)
  <2>1. /\ n \in Callers /\ Tail(waiting) \in Seq(Callers)
        /\ Len(Tail(waiting)) = Len(waiting) - 1
        /\ n \in ToSet(waiting)
        /\ ToSet(Tail(waiting)) = ToSet(waiting) \ {n}
        /\ \A j, k \in 1 .. Len(Tail(waiting)) :
             Tail(waiting)[j] = Tail(waiting)[k] => j = k
    BY <1>4, TailDistinct DEF QueueExact
  <2>2. pc[n] = "queued" /\ n # c /\ n \notin Holders
    BY <2>1 DEF QueueExact, Holders
  <2> HIDE DEF n
  <2>3. /\ active' = (active - 1) + 1 /\ waiting' = Tail(waiting)
        /\ pc' = [pc EXCEPT ![c] = "idle", ![n] = "granted"]
    BY <1>4 DEF Release, n
  <2>4. Holders' = (Holders \ {c}) \cup {n}
    BY <2>1, <2>2, <2>3 DEF Holders
  <2>5. {d \in Callers : pc'[d] = "queued"} = {d \in Callers : pc[d] = "queued"} \ {n}
    BY <2>1, <2>2, <2>3 DEF Holders
  <2>6. QueueExact'
    <3>1. ToSet(waiting') = {d \in Callers : pc'[d] = "queued"}
      BY <2>1, <2>3, <2>5 DEF QueueExact
    <3>2. Len(waiting') <= RPC_QUEUE_LIMIT
      BY <2>1, <2>3, LenProperties, LimitsAssumption DEF QueueExact
    <3> QED BY <2>1, <2>3, <3>1, <3>2 DEF QueueExact
  <2>7. IsFiniteSet(Holders)' /\ Cardinality(Holders') = active
    <3>1. n \notin Holders \ {c}
      BY <2>2
    <3>2. /\ IsFiniteSet((Holders \ {c}) \cup {n})
          /\ Cardinality((Holders \ {c}) \cup {n}) = (active - 1) + 1
      BY <1>1, <3>1, FS_AddElement
    <3> QED BY <1>2, <2>4, <3>2
  <2>8. SlotsAccounted'
    BY <1>2, <2>3, <2>7 DEF SlotsAccounted
  <2>9. WorkConserving'
    BY <1>2, <1>4, <2>3 DEF WorkConserving
  <2>10. /\ active' \in Nat /\ waiting' \in Seq(Callers)
         /\ pc' \in [Callers -> {"idle", "queued", "granted", "dispatched"}]
    BY <1>2, <2>1, <2>3
  <2> QED BY <1>4, <2>3, <2>4, <2>6, <2>7, <2>8, <2>9, <2>10 DEF n
<1> QED BY <1>3, <1>4

LEMMA LeavesStep ==
    ASSUME IInv, NEW c \in Callers, c \in Holders, NEW how \in {"response", "failed"},
           Leaves(c, how)
    PROVE  IInv'
<1>1. Release(c) /\ UNCHANGED stopped
      /\ aborted' = [aborted EXCEPT ![c] = FALSE]
      /\ answer' = [answer EXCEPT ![c] = how]
  BY DEF Leaves
<1>2. /\ aborted' \in [Callers -> BOOLEAN] /\ stopped' \in BOOLEAN
      /\ answer' \in [Callers -> {"none", "response", "failed", "busy"}]
  BY <1>1 DEF IInv, TypeOK
<1> QED BY <1>1, <1>2, ReleaseStep DEF IInv, TypeOK

\* A step that leaves the count, the queue and everybody's place alone.
LEMMA SamePlaces ==
    ASSUME IInv, TypeOK', UNCHANGED <<active, waiting>>,
           Holders' = Holders,
           {c \in Callers : pc'[c] = "queued"} = {c \in Callers : pc[c] = "queued"}
    PROVE  IInv'
BY DEF IInv, SlotsAccounted, QueueExact, WorkConserving

LEMMA StepIInv == IInv /\ [Next]_vars => IInv'
<1> SUFFICES ASSUME IInv, [Next]_vars PROVE IInv'
  OBVIOUS
<1> USE DEF TypeOK
<1>0. TypeOK
  BY DEF IInv
<1>1. ASSUME NEW c \in Callers, RequestCancelled(c) \/ RequestBusy(c) PROVE IInv'
  <2>1. UNCHANGED <<active, waiting, pc, aborted, stopped>>
    BY <1>1 DEF RequestCancelled, RequestBusy, Fails
  <2>2. answer' \in [Callers -> {"none", "response", "failed", "busy"}]
    BY <1>0, <1>1 DEF RequestCancelled, RequestBusy, Fails
  <2>3. TypeOK' /\ Holders' = Holders
    BY <1>0, <2>1, <2>2 DEF Holders
  <2> QED BY <2>1, <2>3, SamePlaces
<1>2. ASSUME NEW c \in Callers, RequestAdmitted(c) PROVE IInv'
  <2>1. /\ pc[c] = "idle" /\ active < RPC_CONCURRENCY /\ active' = active + 1
        /\ pc' = [pc EXCEPT ![c] = "granted"]
        /\ answer' = [answer EXCEPT ![c] = "none"]
        /\ UNCHANGED <<waiting, aborted, stopped>>
    BY <1>2 DEF RequestAdmitted, HasSlot, Starts
  <2>2. TypeOK'
    BY <1>0, <2>1
  <2>3. Holders' = Holders \cup {c} /\ c \notin Holders
    BY <1>0, <2>1 DEF Holders
  <2>4. IsFiniteSet(Holders)' /\ Cardinality(Holders') = active + 1
    BY <2>3, FS_AddElement DEF IInv, SlotsAccounted
  <2>5. SlotsAccounted'
    BY <1>0, <2>1, <2>4, LimitsAssumption DEF SlotsAccounted
  <2>6. {d \in Callers : pc'[d] = "queued"} = {d \in Callers : pc[d] = "queued"}
    BY <1>0, <2>1
  <2>7. QueueExact'
    BY <2>1, <2>6 DEF IInv, QueueExact, ToSet
  <2>8. waiting = <<>>
    BY <1>0, <2>1, LimitsAssumption DEF IInv, WorkConserving
  <2>9. WorkConserving'
    BY <2>1, <2>8 DEF WorkConserving
  <2> QED BY <2>2, <2>4, <2>5, <2>7, <2>9 DEF IInv
<1>3. ASSUME NEW c \in Callers, RequestQueued(c) PROVE IInv'
  <2>1. /\ pc[c] = "idle" /\ ~(active < RPC_CONCURRENCY)
        /\ ~(Len(waiting) >= RPC_QUEUE_LIMIT)
        /\ waiting' = Append(waiting, c)
        /\ pc' = [pc EXCEPT ![c] = "queued"]
        /\ answer' = [answer EXCEPT ![c] = "none"]
        /\ UNCHANGED <<active, aborted, stopped>>
    BY <1>3 DEF RequestQueued, HasSlot, QueueFull, Starts
  <2>2. c \notin ToSet(waiting)
    BY <1>0, <2>1 DEF IInv, QueueExact
  <2>3. /\ waiting' \in Seq(Callers) /\ waiting' # <<>>
        /\ Len(waiting') = Len(waiting) + 1
        /\ ToSet(waiting') = ToSet(waiting) \cup {c}
        /\ \A j, k \in 1 .. Len(waiting') : waiting'[j] = waiting'[k] => j = k
    BY <1>0, <2>1, <2>2, AppendDistinct DEF IInv, QueueExact
  <2>4. TypeOK' /\ Holders' = Holders
    BY <1>0, <2>1, <2>3 DEF Holders
  <2>5. {d \in Callers : pc'[d] = "queued"} = {d \in Callers : pc[d] = "queued"} \cup {c}
    BY <1>0, <2>1
  <2>6. QueueExact'
    <3>1. Len(waiting') <= RPC_QUEUE_LIMIT
      BY <1>0, <2>1, <2>3, LenProperties, LimitsAssumption
    <3> QED BY <2>3, <2>5, <3>1 DEF IInv, QueueExact
  <2>7. SlotsAccounted' /\ IsFiniteSet(Holders)'
    BY <2>1, <2>4 DEF IInv, SlotsAccounted
  <2>8. active = RPC_CONCURRENCY
    BY <1>0, <2>1, LimitsAssumption DEF IInv, SlotsAccounted
  <2>9. WorkConserving'
    BY <2>1, <2>8 DEF WorkConserving
  <2> QED BY <2>4, <2>6, <2>7, <2>9 DEF IInv
<1>4. ASSUME NEW c \in Callers, CancelQueued(c) PROVE IInv'
  <2>1. PICK i \in 1 .. Len(waiting) :
          waiting[i] = c /\ waiting' = RemoveAt(waiting, i)
    BY <1>4 DEF CancelQueued
  <2>2. /\ pc[c] = "queued" /\ pc' = [pc EXCEPT ![c] = "idle"]
        /\ answer' = [answer EXCEPT ![c] = "failed"]
        /\ UNCHANGED <<active, aborted, stopped>>
    BY <1>4 DEF CancelQueued
  <2>3. /\ waiting' \in Seq(Callers) /\ Len(waiting') = Len(waiting) - 1
        /\ ToSet(waiting') = ToSet(waiting) \ {c}
        /\ \A j, k \in 1 .. Len(waiting') : waiting'[j] = waiting'[k] => j = k
    BY <1>0, <2>1, RemoveAtProperties, RemoveAtDistinct DEF IInv, QueueExact
  <2>4. TypeOK' /\ Holders' = Holders
    BY <1>0, <2>2, <2>3 DEF Holders
  <2>5. {d \in Callers : pc'[d] = "queued"} = {d \in Callers : pc[d] = "queued"} \ {c}
    BY <1>0, <2>2
  <2>6. QueueExact'
    <3>1. Len(waiting') <= RPC_QUEUE_LIMIT
      BY <1>0, <2>3, LenProperties, LimitsAssumption DEF IInv, QueueExact
    <3> QED BY <2>3, <2>5, <3>1 DEF IInv, QueueExact
  <2>7. SlotsAccounted' /\ IsFiniteSet(Holders)'
    BY <2>2, <2>4 DEF IInv, SlotsAccounted
  <2>8. WorkConserving'
    <3>1. waiting # <<>>
      BY <2>1, <1>0, LenProperties, EmptySeq
    <3> QED BY <2>2, <3>1 DEF IInv, WorkConserving
  <2> QED BY <2>4, <2>6, <2>7, <2>8 DEF IInv
<1>5. ASSUME NEW c \in Callers, CancelHolder(c) PROVE IInv'
  <2>1. UNCHANGED <<active, waiting, pc, answer, stopped>>
        /\ aborted' = [aborted EXCEPT ![c] = TRUE]
    BY <1>5 DEF CancelHolder
  <2>2. TypeOK' /\ Holders' = Holders
    BY <1>0, <2>1 DEF Holders
  <2> QED BY <2>1, <2>2, SamePlaces
<1>6. ASSUME NEW c \in Callers, Dispatch(c) PROVE IInv'
  <2>1. /\ pc[c] = "granted" /\ pc' = [pc EXCEPT ![c] = "dispatched"]
        /\ UNCHANGED <<active, waiting, aborted, answer, stopped>>
    BY <1>6 DEF Dispatch
  <2>2. TypeOK' /\ Holders' = Holders
    BY <1>0, <2>1 DEF Holders
  <2>3. {d \in Callers : pc'[d] = "queued"} = {d \in Callers : pc[d] = "queued"}
    BY <1>0, <2>1
  <2> QED BY <2>1, <2>2, <2>3, SamePlaces
<1>7. ASSUME NEW c \in Callers, Drop(c) \/ Settle(c) PROVE IInv'
  <2>1. c \in Holders
    BY <1>7 DEF Drop, Settle, Holders
  <2>2. \E how \in {"response", "failed"} : Leaves(c, how)
    BY <1>7 DEF Drop, Settle
  <2> QED BY <2>1, <2>2, LeavesStep
<1>8. CASE StopRuntime
  <2>1. /\ active' = active /\ waiting' = <<>> /\ stopped' = TRUE
        /\ pc' = [c \in Callers |-> IF pc[c] = "queued" THEN "idle" ELSE pc[c]]
        /\ aborted' = [c \in Callers |-> pc[c] \in {"granted", "dispatched"}]
        /\ answer' = [c \in Callers |-> IF pc[c] = "queued" THEN "failed" ELSE answer[c]]
    BY <1>8 DEF StopRuntime
  <2>2. waiting' \in Seq(Callers) /\ Len(waiting') = 0 /\ ToSet(waiting') = {}
    BY <2>1 DEF ToSet
  <2>3. TypeOK'
    BY <1>0, <2>1, <2>2
  <2>4. Holders' = Holders /\ {c \in Callers : pc'[c] = "queued"} = {}
    BY <1>0, <2>1 DEF Holders
  <2>5. QueueExact'
    <3>1. \A i, j \in 1 .. Len(waiting') : waiting'[i] = waiting'[j] => i = j
      BY <2>2
    <3> QED BY <2>2, <2>4, <3>1, LimitsAssumption DEF QueueExact
  <2>6. SlotsAccounted' /\ IsFiniteSet(Holders)' /\ WorkConserving'
    BY <2>1, <2>4 DEF IInv, SlotsAccounted, WorkConserving
  <2> QED BY <2>3, <2>5, <2>6 DEF IInv
<1>9. CASE UNCHANGED vars
  BY <1>9 DEF vars, IInv, SlotsAccounted, QueueExact, WorkConserving, Holders
<1> QED
  BY <1>1, <1>2, <1>3, <1>4, <1>5, <1>6, <1>7, <1>8, <1>9
  DEF Next, Request, Cancel

\* The inductive invariant holds of every reachable state.
THEOREM Invariance == Spec => []IInv
BY InitIInv, StepIInv, PTL DEF Spec

-----------------------------------------------------------------------------
(* What the invariant gives. *)

\* Every variable keeps its type.
THEOREM TypeCorrect == Spec => []TypeOK
BY Invariance, PTL DEF IInv

\* The counter `active` is the number of calls between acquire() and
\* release(): no order of grants, aborts and releases leaks or doubles a slot.
THEOREM SlotsAreAccounted == Spec => []SlotsAccounted
BY Invariance, PTL DEF IInv

\* The queue is exactly the set of waiting calls, each once, within its bound.
THEOREM QueueIsExact == Spec => []QueueExact
BY Invariance, PTL DEF IInv

\* A slot is never free while a call waits for one.
THEOREM NoIdleSlot == Spec => []WorkConserving
BY Invariance, PTL DEF IInv

\* A call that arrives never passes the calls in the queue.
THEOREM NobodyBarges == Spec => NoBarging
<1> DEFINE A == \A c \in Callers : pc[c] = "idle" /\ pc'[c] = "granted" => waiting = <<>>
<1>1. IInv /\ [Next]_vars => [A]_vars
  <2> SUFFICES ASSUME IInv, Next, NEW c \in Callers, pc[c] = "idle", pc'[c] = "granted"
               PROVE  waiting = <<>>
    BY DEF A
  <2>0. TypeOK
    BY DEF IInv
  <2>1. ASSUME NEW d \in Callers, RequestAdmitted(d) PROVE waiting = <<>>
    <3>1. active < RPC_CONCURRENCY
      BY <2>1 DEF RequestAdmitted, HasSlot
    <3> QED BY <3>1, <2>0, LimitsAssumption DEF IInv, WorkConserving, TypeOK
  <2>2. ASSUME NEW d \in Callers, Drop(d) \/ Settle(d) PROVE waiting = <<>>
    <3>1. SUFFICES ASSUME waiting # <<>> PROVE FALSE
      OBVIOUS
    <3>2. Release(d) /\ pc[d] # "idle"
      BY <2>2 DEF Drop, Settle, Leaves
    <3>3. pc' = [pc EXCEPT ![d] = "idle", ![Head(waiting)] = "granted"]
      BY <3>1, <3>2 DEF Release
    <3>4. Head(waiting) = c
      BY <2>0, <3>2, <3>3 DEF TypeOK
    <3>5. Head(waiting) \in ToSet(waiting)
      BY <3>1, TailDistinct DEF IInv, TypeOK, QueueExact
    <3> QED BY <3>4, <3>5 DEF IInv, QueueExact
  <2>3. ASSUME NEW d \in Callers,
               \/ RequestCancelled(d) \/ RequestQueued(d) \/ RequestBusy(d)
               \/ Cancel(d) \/ Dispatch(d)
        PROVE  FALSE
    BY <2>3, <2>0 DEF RequestCancelled, RequestQueued, RequestBusy, Fails, Starts, Cancel,
      CancelQueued, CancelHolder, Dispatch, TypeOK
  <2>4. CASE StopRuntime
    BY <2>4, <2>0 DEF StopRuntime, TypeOK
  <2> QED BY <2>1, <2>2, <2>3, <2>4 DEF Next, Request
<1> QED BY <1>1, Invariance, PTL DEF Spec, NoBarging, A

\* Once the runtime signal has fired, the queue is gone and every call that
\* still has a slot knows of it.
StoppedInv == stopped => waiting = <<>> /\ \A c \in Holders : aborted[c]

LEMMA StoppedStep == IInv /\ StoppedInv /\ [Next]_vars => StoppedInv'
<1> SUFFICES ASSUME IInv, StoppedInv, [Next]_vars, stopped'
             PROVE  waiting' = <<>> /\ \A c \in Holders' : aborted'[c]
  BY DEF StoppedInv
<1>0. TypeOK
  BY DEF IInv
<1>1. CASE StopRuntime
  BY <1>0, <1>1 DEF StopRuntime, Holders, TypeOK
<1>2. ASSUME NEW c \in Callers, Request(c) PROVE waiting' = <<>> /\ \A d \in Holders' : aborted'[d]
  <2>1. UNCHANGED <<waiting, pc, aborted, stopped>>
    BY <1>2 DEF Request, RequestCancelled, RequestAdmitted, RequestQueued, RequestBusy,
      Starts, Fails
  <2> QED BY <2>1 DEF StoppedInv, Holders
<1>3. ASSUME NEW c \in Callers, Cancel(c) \/ Dispatch(c)
      PROVE  waiting' = <<>> /\ \A d \in Holders' : aborted'[d]
  <2>1. stopped /\ waiting = <<>>
    BY <1>3 DEF Cancel, CancelQueued, CancelHolder, Dispatch, StoppedInv
  <2>2. ~CancelQueued(c)
    BY <2>1 DEF CancelQueued
  <2> QED BY <1>0, <1>3, <2>1, <2>2 DEF Cancel, CancelHolder, Dispatch, StoppedInv, Holders, TypeOK
<1>4. ASSUME NEW c \in Callers, Drop(c) \/ Settle(c)
      PROVE  waiting' = <<>> /\ \A d \in Holders' : aborted'[d]
  <2>1. /\ Release(c) /\ stopped' = stopped
        /\ aborted' = [aborted EXCEPT ![c] = FALSE]
    BY <1>4 DEF Drop, Settle, Leaves
  <2>2. waiting = <<>> /\ \A d \in Holders : aborted[d]
    BY <2>1 DEF StoppedInv
  <2>3. waiting' = <<>> /\ pc' = [pc EXCEPT ![c] = "idle"]
    BY <2>1, <2>2 DEF Release
  <2> QED BY <1>0, <2>1, <2>2, <2>3 DEF Holders, TypeOK
<1>5. CASE UNCHANGED vars
  BY <1>5 DEF vars, StoppedInv, Holders
<1> QED BY <1>1, <1>2, <1>3, <1>4, <1>5 DEF Next

\* Nothing is sent for a call that was cancelled, timed out, or overtaken by
\* the shutdown before it was sent, even if it had its slot by then.
THEOREM CancelledIsNeverSent == Spec => CancelledNeverDispatches
<1> DEFINE A == \A c \in Callers : pc[c] # "dispatched" /\ pc'[c] = "dispatched"
                                    => ~aborted[c] /\ ~stopped
<1>1. Init => StoppedInv
  BY DEF Init, StoppedInv
<1>2. IInv /\ StoppedInv /\ [Next]_vars => [A]_vars
  <2> SUFFICES ASSUME IInv, StoppedInv, Next, NEW c \in Callers,
                      pc[c] # "dispatched", pc'[c] = "dispatched"
               PROVE  ~aborted[c] /\ ~stopped
    BY DEF A
  <2>0. TypeOK
    BY DEF IInv
  <2>1. ASSUME NEW d \in Callers, Dispatch(d) PROVE ~aborted[c] /\ ~stopped
    <3>1. d = c /\ ~aborted[c] /\ c \in Holders
      BY <2>0, <2>1 DEF Dispatch, TypeOK, Holders
    <3> QED BY <3>1 DEF StoppedInv
  <2>2. ASSUME NEW d \in Callers, Request(d) \/ Cancel(d) PROVE FALSE
    BY <2>0, <2>2 DEF Request, RequestCancelled, RequestAdmitted, RequestQueued, RequestBusy,
      Starts, Fails, Cancel, CancelQueued, CancelHolder, TypeOK
  <2>3. ASSUME NEW d \in Callers, Drop(d) \/ Settle(d) PROVE FALSE
    BY <2>0, <2>3 DEF Drop, Settle, Leaves, Release, TypeOK
  <2>4. CASE StopRuntime
    BY <2>0, <2>4 DEF StopRuntime, TypeOK
  <2> QED BY <2>1, <2>2, <2>3, <2>4 DEF Next
<1> QED BY <1>1, <1>2, StoppedStep, InitIInv, StepIInv, PTL
        DEF Spec, CancelledNeverDispatches, A

-----------------------------------------------------------------------------
(* The gate implements RpcAdmission. *)

Refused == {c \in Callers : answer[c] = "busy"}

\* A call in progress has no answer yet.
NoEarlyAnswer == \A c \in Callers : pc[c] # "idle" => answer[c] = "none"

LEMMA NoEarlyAnswerStep == IInv /\ NoEarlyAnswer /\ [Next]_vars => NoEarlyAnswer'
<1> SUFFICES ASSUME IInv, NoEarlyAnswer, [Next]_vars, NEW c \in Callers, pc'[c] # "idle"
             PROVE  answer'[c] = "none"
  BY DEF NoEarlyAnswer
<1>0. TypeOK
  BY DEF IInv
<1>1. ASSUME NEW d \in Callers, Request(d) PROVE answer'[c] = "none"
  BY <1>0, <1>1 DEF Request, RequestCancelled, RequestAdmitted, RequestQueued, RequestBusy,
    Starts, Fails, NoEarlyAnswer, TypeOK
<1>2. ASSUME NEW d \in Callers, Cancel(d) \/ Dispatch(d) PROVE answer'[c] = "none"
  BY <1>0, <1>2 DEF Cancel, CancelQueued, CancelHolder, Dispatch, NoEarlyAnswer, TypeOK
<1>3. ASSUME NEW d \in Callers, Drop(d) \/ Settle(d) PROVE answer'[c] = "none"
  <2>1. PICK how \in {"response", "failed"} : Leaves(d, how)
    BY <1>3 DEF Drop, Settle
  <2>2. Release(d) /\ answer' = [answer EXCEPT ![d] = how] /\ pc[d] # "idle" /\ pc[d] # "queued"
    BY <1>3, <2>1 DEF Leaves, Drop, Settle
  <2>3. CASE waiting = <<>>
    BY <1>0, <2>2, <2>3 DEF Release, NoEarlyAnswer, TypeOK
  <2>4. CASE waiting # <<>>
    <3>1. pc' = [pc EXCEPT ![d] = "idle", ![Head(waiting)] = "granted"]
      BY <2>2, <2>4 DEF Release
    <3>2. Head(waiting) \in Callers /\ pc[Head(waiting)] = "queued"
      BY <2>4, TailDistinct DEF IInv, TypeOK, QueueExact
    <3> QED BY <1>0, <2>2, <3>1, <3>2 DEF NoEarlyAnswer, TypeOK
  <2> QED BY <2>3, <2>4
<1>4. CASE StopRuntime
  BY <1>0, <1>4 DEF StopRuntime, NoEarlyAnswer, TypeOK
<1>5. CASE UNCHANGED vars
  BY <1>5 DEF vars, NoEarlyAnswer
<1> QED BY <1>1, <1>2, <1>3, <1>4, <1>5 DEF Next

\* A call that gives its slot back is a caller that leaves, and the head of
\* the queue, if any, goes in with the same step.
LEMMA LeavesIsFinish ==
    ASSUME IInv, NoEarlyAnswer, NEW c \in Callers, c \in Holders,
           NEW how \in {"response", "failed"}, Leaves(c, how)
    PROVE  Admission!Finish(c)
<1>1. Release(c) /\ answer' = [answer EXCEPT ![c] = how]
  BY DEF Leaves
<1>2. IF waiting = <<>>
        THEN waiting' = waiting /\ Holders' = Holders \ {c}
        ELSE waiting' = Tail(waiting) /\ Holders' = (Holders \ {c}) \cup {Head(waiting)}
  BY <1>1, ReleaseStep
<1>3. Refused' = Refused
  BY <1>1 DEF Refused, NoEarlyAnswer, Holders, IInv, TypeOK
<1> QED BY <1>2, <1>3 DEF Admission!Finish, Refused

LEMMA StepAdmission == IInv /\ NoEarlyAnswer /\ [Next]_vars => [Admission!Next]_(Admission!vars)
<1> SUFFICES ASSUME IInv, NoEarlyAnswer, [Next]_vars
             PROVE  Admission!Next \/ UNCHANGED <<Holders, waiting, Refused>>
  BY DEF Admission!vars, Refused
<1>0. TypeOK
  BY DEF IInv
<1>1. ASSUME NEW c \in Callers, pc[c] = "idle" PROVE c \in Admission!Outside
  <2>1. Admission!ToSet(waiting) = ToSet(waiting)
    BY DEF Admission!ToSet, ToSet
  <2> QED BY <1>1, <2>1 DEF Admission!Outside, Holders, IInv, QueueExact
<1>2. Admission!Cardinality(Holders) = active
  <2>1. Admission!Cardinality(Holders) = Cardinality(Holders)
    BY DEF Admission!Cardinality, Cardinality
  <2> QED BY <2>1 DEF IInv, SlotsAccounted
<1>3. ASSUME NEW c \in Callers, RequestCancelled(c) PROVE Admission!Fail(c)
  <2>1. /\ pc[c] = "idle" /\ answer' = [answer EXCEPT ![c] = "failed"]
        /\ UNCHANGED <<waiting, pc>>
    BY <1>3 DEF RequestCancelled, Fails
  <2>2. Holders' = Holders /\ Refused' = Refused \ {c}
    BY <1>0, <2>1 DEF Holders, Refused, TypeOK
  <2> QED BY <1>1, <2>1, <2>2 DEF Admission!Fail, Refused
<1>4. ASSUME NEW c \in Callers, RequestBusy(c) PROVE Admission!Refuse(c)
  <2>1. /\ pc[c] = "idle" /\ answer' = [answer EXCEPT ![c] = "busy"]
        /\ ~(active < RPC_CONCURRENCY) /\ Len(waiting) >= RPC_QUEUE_LIMIT
        /\ UNCHANGED <<waiting, pc>>
    BY <1>4 DEF RequestBusy, Fails, HasSlot, QueueFull
  <2>2. Holders' = Holders /\ Refused' = Refused \cup {c}
    BY <1>0, <2>1 DEF Holders, Refused, TypeOK
  <2>3. Admission!Full /\ Admission!LineFull
    BY <1>0, <1>2, <2>1, LimitsAssumption DEF Admission!Full, Admission!LineFull, TypeOK
  <2> QED BY <1>1, <2>1, <2>2, <2>3 DEF Admission!Refuse, Refused
<1>5. ASSUME NEW c \in Callers, RequestAdmitted(c) PROVE Admission!Enter(c)
  <2>1. /\ pc[c] = "idle" /\ active < RPC_CONCURRENCY /\ waiting' = waiting
        /\ pc' = [pc EXCEPT ![c] = "granted"] /\ answer' = [answer EXCEPT ![c] = "none"]
    BY <1>5 DEF RequestAdmitted, HasSlot, Starts
  <2>2. Holders' = Holders \cup {c} /\ Refused' = Refused \ {c}
    BY <1>0, <2>1 DEF Holders, Refused, TypeOK
  <2>3. waiting = <<>> /\ ~Admission!Full
    BY <1>0, <1>2, <2>1, LimitsAssumption DEF Admission!Full, IInv, WorkConserving, TypeOK
  <2> QED BY <1>1, <2>1, <2>2, <2>3 DEF Admission!Enter, Refused
<1>6. ASSUME NEW c \in Callers, RequestQueued(c) PROVE Admission!Join(c)
  <2>1. /\ pc[c] = "idle" /\ ~(active < RPC_CONCURRENCY)
        /\ ~(Len(waiting) >= RPC_QUEUE_LIMIT) /\ waiting' = Append(waiting, c)
        /\ pc' = [pc EXCEPT ![c] = "queued"] /\ answer' = [answer EXCEPT ![c] = "none"]
    BY <1>6 DEF RequestQueued, HasSlot, QueueFull, Starts
  <2>2. Holders' = Holders /\ Refused' = Refused \ {c}
    BY <1>0, <2>1 DEF Holders, Refused, TypeOK
  <2>3. Admission!Full /\ ~Admission!LineFull
    BY <1>0, <1>2, <2>1, LimitsAssumption DEF Admission!Full, Admission!LineFull, TypeOK
  <2> QED BY <1>1, <2>1, <2>2, <2>3 DEF Admission!Join, Refused
<1>7. ASSUME NEW c \in Callers, CancelQueued(c)
      PROVE  \E i \in 1 .. Len(waiting) : Admission!Quit(i)
  <2>1. PICK i \in 1 .. Len(waiting) : waiting' = RemoveAt(waiting, i)
    BY <1>7 DEF CancelQueued
  <2>2. /\ pc[c] = "queued" /\ pc' = [pc EXCEPT ![c] = "idle"]
        /\ answer' = [answer EXCEPT ![c] = "failed"]
    BY <1>7 DEF CancelQueued
  <2>3. Holders' = Holders /\ Refused' = Refused
    BY <1>0, <2>2 DEF Holders, Refused, TypeOK, NoEarlyAnswer
  <2>4. waiting' = Admission!RemoveAt(waiting, i)
    BY <2>1 DEF Admission!RemoveAt, RemoveAt
  <2> QED BY <2>3, <2>4 DEF Admission!Quit, Refused
<1>8. ASSUME NEW c \in Callers, CancelHolder(c) \/ Dispatch(c)
      PROVE  UNCHANGED <<Holders, waiting, Refused>>
  BY <1>0, <1>8 DEF CancelHolder, Dispatch, Holders, Refused, TypeOK
<1>9. ASSUME NEW c \in Callers, Drop(c) \/ Settle(c) PROVE Admission!Finish(c)
  <2>1. c \in Holders /\ \E how \in {"response", "failed"} : Leaves(c, how)
    BY <1>9 DEF Drop, Settle, Holders
  <2> QED BY <2>1, LeavesIsFinish
<1>10. CASE StopRuntime
  <2>1. /\ waiting' = <<>>
        /\ pc' = [c \in Callers |-> IF pc[c] = "queued" THEN "idle" ELSE pc[c]]
        /\ answer' = [c \in Callers |-> IF pc[c] = "queued" THEN "failed" ELSE answer[c]]
    BY <1>10 DEF StopRuntime
  <2>2. Holders' = Holders /\ Refused' = Refused
    BY <1>0, <2>1 DEF Holders, Refused, NoEarlyAnswer, TypeOK
  <2> QED BY <2>1, <2>2 DEF Admission!Close, Admission!Next, Refused
<1>11. CASE UNCHANGED vars
  BY <1>11 DEF vars, Holders, Refused
<1> QED
  BY <1>3, <1>4, <1>5, <1>6, <1>7, <1>8, <1>9, <1>10, <1>11
  DEF Next, Request, Cancel, Admission!Next

\* Counter, queue, signals and continuations together do what RpcAdmission
\* promises: the limit, first come first served, busy only when full.
THEOREM GateImplementsAdmission == Spec => ImplementsAdmission
<1>1. Init => Admission!Init /\ NoEarlyAnswer
  BY DEF Init, Admission!Init, NoEarlyAnswer, Holders
<1> QED
  BY <1>1, InitIInv, StepIInv, NoEarlyAnswerStep, StepAdmission, PTL
  DEF Spec, ImplementsAdmission, Admission!Spec

-----------------------------------------------------------------------------
(* The optional work of the runtime.                                         *)

\* Before it runs, a process has begun nothing but its probes.
StartsIdle ==
    /\ phase \in {"new", "starting"} => auto = NoWork /\ manual = NoWork /\ release = NoWork
    /\ phase = "new" => checker = NoWork
    /\ phase = "starting" /\ "probes" \in policy => checker # NoWork

\* An update that has not been told to stop, whatever its step, is permitted; the
\* scheduled one counts as tried.
UpdatesTold ==
    /\ auto # NoWork /\ ~auto.aborted => "downloads" \in policy /\ tried
    /\ manual # NoWork /\ ~manual.aborted => "downloads" \in policy

RuntimeInv == RuntimeTypeOK /\ ScheduleKept /\ OnlyWhilePermitted /\ SavedIsInForce /\ StartsIdle /\ UpdatesTold

-----------------------------------------------------------------------------
\* Work

\* Work that has begun differs from none, and has not been told to stop.
LEMMA WorkingFacts ==
    ASSUME NEW steps, NEW step \in steps, "none" \notin steps
    PROVE  /\ Working(step) \in Works(steps)
           /\ Working(step) # NoWork
           /\ ~Working(step).aborted
           /\ Working(step).at = step
  BY DEF Working, NoWork, Works

\* Telling work to stop changes neither its step nor whether there is any.
LEMMA AbortedFacts ==
    ASSUME NEW steps, "none" \notin steps, NEW w \in Works(steps)
    PROVE  /\ Aborted(w) \in Works(steps)
           /\ Aborted(w) = NoWork <=> w = NoWork
           /\ w # NoWork => Aborted(w).aborted
           /\ Aborted(w).at = w.at
<1>1. CASE w = NoWork
  <2>1. Aborted(w) = [w EXCEPT !.aborted = FALSE]
    BY <1>1 DEF Aborted
  <2>. QED BY <1>1, <2>1 DEF NoWork, Works
<1>2. CASE w # NoWork
  <2>1. Aborted(w) = [w EXCEPT !.aborted = TRUE]
    BY <1>2 DEF Aborted
  <2>2. w \in [at : steps, aborted : BOOLEAN]
    BY <1>2 DEF Works
  <2>3. Aborted(w) = [at |-> w.at, aborted |-> TRUE] /\ w.at \in steps
    BY <2>1, <2>2
  <2>. QED BY <1>2, <2>3 DEF NoWork, Works
<1>. QED BY <1>1, <1>2

\* What there is of work: none, which is at no step, or some, which is at one.
LEMMA WorkFacts ==
    ASSUME NEW steps, "none" \notin steps, NEW w \in Works(steps)
    PROVE  /\ NoWork \in Works(steps) /\ ~NoWork.aborted /\ NoWork.at = "none"
           /\ w # NoWork <=> w.at \in steps
           /\ w.aborted => w # NoWork
           /\ w.aborted \in BOOLEAN
<1>1. NoWork \in Works(steps) /\ ~NoWork.aborted /\ NoWork.at = "none" /\ NoWork.aborted \in BOOLEAN
  BY DEF NoWork, Works
<1>2. CASE w = NoWork
  BY <1>1, <1>2
<1>3. CASE w \in [at : steps, aborted : BOOLEAN]
  <2>1. w.at \in steps /\ w.aborted \in BOOLEAN
    BY <1>3
  <2>2. w # NoWork
    BY <2>1, <1>1
  <2>. QED BY <1>1, <2>1, <2>2
<1>. QED BY <1>2, <1>3 DEF Works

\* A step of an update keeps it told or not told.
LEMMA ProceedsFacts ==
    ASSUME NEW w \in Works(UpdateSteps), NEW w2, Proceeds(w, w2)
    PROVE  /\ w2 \in Works(UpdateSteps)
           /\ w # NoWork /\ w2 # NoWork
           /\ w2.aborted = w.aborted
           /\ w2.at # "downloading"
  BY DEF Proceeds, Works, UpdateSteps, NoWork

\* The permissions of any preferences are features.
LEMMA PermittedFacts == \A p \in SUBSET Preferences : Permitted(p) \subseteq Features
  BY DEF Permitted, Preferences

-----------------------------------------------------------------------------
\* The invariant

\* The first process has scheduled and begun nothing.
LEMMA RuntimeStarts == RuntimeInit => RuntimeInv
<1>. SUFFICES ASSUME RuntimeInit PROVE RuntimeInv
  OBVIOUS
<1>. USE DEF RuntimeInit
<1>1. NoWork \in Works(UpdateSteps) /\ NoWork \in Works({"checking"}) /\ NoWork \in Works({"probing"})
  BY DEF Works
<1>2. ~NoWork.aborted /\ NoWork.at = "none"
  BY DEF NoWork
<1>3. RuntimeTypeOK
  BY <1>1, PermittedFacts DEF RuntimeTypeOK
<1>4. ScheduleKept
  BY DEF ScheduleKept, OneUpdate
<1>5. OnlyWhilePermitted
  BY <1>2 DEF OnlyWhilePermitted
<1>6. SavedIsInForce /\ StartsIdle /\ UpdatesTold
  BY DEF SavedIsInForce, StartsIdle, UpdatesTold
<1>. QED BY <1>3, <1>4, <1>5, <1>6 DEF RuntimeInv

\* A process that begins finds what the file has and nothing under way.
LEMMA BootsInvariant ==
    ASSUME NEW p \in SUBSET Preferences, Boots(p)
    PROVE  RuntimeInv'
<1>. USE DEF Boots
<1>1. NoWork \in Works(UpdateSteps) /\ NoWork \in Works({"checking"}) /\ NoWork \in Works({"probing"})
  BY DEF Works
<1>2. ~NoWork.aborted /\ NoWork.at = "none"
  BY DEF NoWork
<1>3. RuntimeTypeOK'
  BY <1>1, PermittedFacts DEF RuntimeTypeOK
<1>4. ScheduleKept'
  BY DEF ScheduleKept, OneUpdate
<1>5. OnlyWhilePermitted'
  BY <1>2 DEF OnlyWhilePermitted
<1>6. SavedIsInForce' /\ StartsIdle' /\ UpdatesTold'
  BY DEF SavedIsInForce, StartsIdle, UpdatesTold
<1>. QED BY <1>3, <1>4, <1>5, <1>6 DEF RuntimeInv

\* What the types say of the work under way.
LEMMA TypeFacts ==
    ASSUME RuntimeTypeOK
    PROVE  /\ \A w \in {auto, manual} :
                 /\ w \in Works(UpdateSteps) /\ w.aborted \in BOOLEAN
                 /\ w.aborted => w # NoWork
                 /\ w.at \in UpdateSteps <=> w # NoWork
                 /\ Aborted(w) \in Works(UpdateSteps) /\ (Aborted(w) = NoWork <=> w = NoWork)
                 /\ (w # NoWork => Aborted(w).aborted) /\ Aborted(w).at = w.at
           /\ release.aborted => release # NoWork
           /\ Aborted(release) \in Works({"checking"}) /\ (Aborted(release) = NoWork <=> release = NoWork)
           /\ release # NoWork => Aborted(release).aborted
           /\ checker.aborted => checker # NoWork
           /\ Aborted(checker) \in Works({"probing"}) /\ (Aborted(checker) = NoWork <=> checker = NoWork)
           /\ checker # NoWork => Aborted(checker).aborted
<1>1. "none" \notin UpdateSteps /\ "none" \notin {"checking"} /\ "none" \notin {"probing"}
  BY DEF UpdateSteps
<1>2. ASSUME NEW w \in {auto, manual}
      PROVE  /\ w \in Works(UpdateSteps) /\ w.aborted \in BOOLEAN
             /\ w.aborted => w # NoWork
             /\ w.at \in UpdateSteps <=> w # NoWork
             /\ Aborted(w) \in Works(UpdateSteps) /\ (Aborted(w) = NoWork <=> w = NoWork)
             /\ (w # NoWork => Aborted(w).aborted) /\ Aborted(w).at = w.at
  <2>1. w \in Works(UpdateSteps)
    BY DEF RuntimeTypeOK
  <2>. QED BY <1>1, <2>1, WorkFacts, AbortedFacts
<1>3. release \in Works({"checking"}) /\ checker \in Works({"probing"})
  BY DEF RuntimeTypeOK
<1>4. /\ release.aborted => release # NoWork
      /\ Aborted(release) \in Works({"checking"}) /\ (Aborted(release) = NoWork <=> release = NoWork)
      /\ release # NoWork => Aborted(release).aborted
  BY <1>1, <1>3, WorkFacts, AbortedFacts
<1>5. /\ checker.aborted => checker # NoWork
      /\ Aborted(checker) \in Works({"probing"}) /\ (Aborted(checker) = NoWork <=> checker = NoWork)
      /\ checker # NoWork => Aborted(checker).aborted
  BY <1>1, <1>3, WorkFacts, AbortedFacts
<1>. QED BY <1>2, <1>4, <1>5

\* What is known of the work that a step begins, and of none.
LEMMA BeginFacts ==
    /\ NoWork \in Works(UpdateSteps) /\ NoWork \in Works({"checking"}) /\ NoWork \in Works({"probing"})
    /\ ~NoWork.aborted /\ NoWork.at = "none"
    /\ Working("downloading") \in Works(UpdateSteps) /\ Working("downloading") # NoWork
    /\ Working("downloading").at = "downloading" /\ ~Working("downloading").aborted
    /\ Working("checking") \in Works({"checking"}) /\ Working("checking") # NoWork
    /\ ~Working("checking").aborted
    /\ Working("probing") \in Works({"probing"}) /\ Working("probing") # NoWork
    /\ ~Working("probing").aborted
<1>1. "downloading" \in UpdateSteps /\ "none" \notin UpdateSteps
  BY DEF UpdateSteps
<1>2. NoWork \in Works(UpdateSteps) /\ NoWork \in Works({"checking"}) /\ NoWork \in Works({"probing"})
  BY DEF Works
<1>3. ~NoWork.aborted /\ NoWork.at = "none"
  BY DEF NoWork
<1>. QED BY <1>1, <1>2, <1>3, WorkingFacts

\* Start saves the preferences and begins the probes.
LEMMA StartKeeps == ASSUME RuntimeInv, Start PROVE RuntimeInv'
<1>. USE DEF RuntimeInv, Start, settingVars, updateVars, releaseVars
<1>1. RuntimeTypeOK'
  BY BeginFacts DEF RuntimeTypeOK
<1>2. OneUpdate'
  BY DEF OneUpdate, ScheduleKept
<1>3. ScheduleKept'
  BY <1>2 DEF ScheduleKept
<1>4. OnlyWhilePermitted'
  BY DEF OnlyWhilePermitted
<1>5. SavedIsInForce'
  BY DEF SavedIsInForce
<1>6. StartsIdle'
  BY BeginFacts DEF StartsIdle
<1>7. UpdatesTold'
  BY DEF UpdatesTold
<1>. QED BY <1>1, <1>3, <1>4, <1>5, <1>6, <1>7

\* What is permitted is scheduled as a process begins to run: it has begun nothing before.
LEMMA StartedKeeps == ASSUME RuntimeInv, Started PROVE RuntimeInv'
<1>. USE DEF RuntimeInv, Started, Scheduled, settingVars, updateVars, releaseVars
<1>1. releaseTimer' \in BOOLEAN /\ (releaseTimer' <=> "releases" \in policy)
  <2>1. releaseTimer' = ("releases" \in policy)
    OBVIOUS
  <2>. HIDE DEF RuntimeInv, Started
  <2>2. CASE "releases" \in policy
    <3>1. ("releases" \in policy) = TRUE
      BY <2>2
    <3>2. releaseTimer' = TRUE
      BY <2>1, <3>1
    <3>. QED BY <2>2, <3>2
  <2>3. CASE "releases" \notin policy
    <3>1. ("releases" \in policy) = FALSE
      BY <2>3
    <3>2. releaseTimer' = FALSE
      BY <2>1, <3>1
    <3>. QED BY <2>3, <3>2
  <2>. QED BY <2>2, <2>3
<1>2. RuntimeTypeOK'
  BY <1>1 DEF RuntimeTypeOK
<1>3. OneUpdate'
  BY DEF OneUpdate, ScheduleKept
<1>4. ScheduleKept'
  BY <1>3, <1>1 DEF ScheduleKept, StartsIdle
<1>5. OnlyWhilePermitted'
  BY DEF OnlyWhilePermitted
<1>6. SavedIsInForce'
  BY DEF SavedIsInForce
<1>7. StartsIdle'
  BY DEF StartsIdle
<1>8. UpdatesTold'
  BY DEF UpdatesTold
<1>. QED BY <1>2, <1>4, <1>5, <1>6, <1>7, <1>8

\* The end of a process tells all work to stop.
LEMMA StopKeeps == ASSUME RuntimeInv, Stop PROVE RuntimeInv'
<1>. USE DEF RuntimeInv, Stop, settingVars, updateVars, releaseVars
<1>1. RuntimeTypeOK'
  BY TypeFacts DEF RuntimeTypeOK
<1>2. OneUpdate'
  BY TypeFacts DEF OneUpdate, ScheduleKept
<1>3. ScheduleKept'
  BY <1>2 DEF ScheduleKept
<1>4. OnlyWhilePermitted'
  BY BeginFacts, TypeFacts DEF OnlyWhilePermitted
<1>5. SavedIsInForce'
  BY DEF SavedIsInForce
<1>6. StartsIdle'
  BY DEF StartsIdle
<1>7. UpdatesTold'
  BY TypeFacts DEF UpdatesTold
<1>. QED BY <1>1, <1>3, <1>4, <1>5, <1>6, <1>7

\* A timer that fires leaves an update or another timer.
LEMMA TimerFiresKeeps == ASSUME RuntimeInv, TimerFires PROVE RuntimeInv'
<1>. USE DEF RuntimeInv, TimerFires, Begins, Scheduled, settingVars, updateVars, releaseVars
<1>1. RuntimeTypeOK'
  BY BeginFacts DEF RuntimeTypeOK
<1>2. OneUpdate'
  BY BeginFacts DEF OneUpdate, ScheduleKept
<1>3. ScheduleKept'
  BY <1>2, BeginFacts DEF ScheduleKept
<1>4. OnlyWhilePermitted'
  BY DEF OnlyWhilePermitted
<1>5. SavedIsInForce'
  BY DEF SavedIsInForce
<1>6. StartsIdle'
  BY DEF StartsIdle, ScheduleKept
<1>7. UpdatesTold'
  BY DEF UpdatesTold
<1>. QED BY <1>1, <1>3, <1>4, <1>5, <1>6, <1>7

\* A step of the scheduled update.
LEMMA AutoProceedsKeeps == ASSUME RuntimeInv, AutoProceeds PROVE RuntimeInv'
<1>. USE DEF RuntimeInv, AutoProceeds, settingVars, updateVars, releaseVars
<1>1. /\ auto' \in Works(UpdateSteps)
      /\ auto # NoWork /\ auto' # NoWork
      /\ auto'.aborted = auto.aborted
      /\ auto'.at # "downloading"
  <2>1. auto \in Works(UpdateSteps) /\ Proceeds(auto, auto')
    BY DEF RuntimeTypeOK
  <2>. HIDE DEF AutoProceeds
  <2>. QED BY <2>1, ProceedsFacts
<1>2. RuntimeTypeOK'
  BY <1>1 DEF RuntimeTypeOK
<1>3. OneUpdate'
  BY <1>1 DEF OneUpdate, ScheduleKept
<1>4. ScheduleKept'
  BY <1>3, <1>1 DEF ScheduleKept
<1>5. OnlyWhilePermitted'
  BY <1>1 DEF OnlyWhilePermitted
<1>6. SavedIsInForce'
  BY DEF SavedIsInForce
<1>7. StartsIdle'
  BY <1>1 DEF StartsIdle
<1>8. UpdatesTold'
  BY <1>1 DEF UpdatesTold
<1>. QED BY <1>2, <1>4, <1>5, <1>6, <1>7, <1>8

\* The end of the scheduled update sets the timer, or finds nothing permitted.
LEMMA AutoEndsKeeps == ASSUME RuntimeInv, AutoEnds PROVE RuntimeInv'
<1>. USE DEF RuntimeInv, AutoEnds, AutoDone, NextDelay, settingVars, updateVars, releaseVars
<1>1. RuntimeTypeOK'
  BY BeginFacts DEF RuntimeTypeOK
<1>2. OneUpdate'
  BY BeginFacts DEF OneUpdate, ScheduleKept
<1>3. ScheduleKept'
  BY <1>2, BeginFacts DEF ScheduleKept, UpdatesTold
<1>4. OnlyWhilePermitted'
  BY BeginFacts DEF OnlyWhilePermitted
<1>5. SavedIsInForce'
  BY DEF SavedIsInForce
<1>6. StartsIdle'
  BY DEF StartsIdle
<1>7. UpdatesTold'
  BY DEF UpdatesTold
<1>. QED BY <1>1, <1>3, <1>4, <1>5, <1>6, <1>7

\* An update asked for over HTTP begins only while none is under way.
LEMMA ManualBeginsKeeps == ASSUME RuntimeInv, ManualBegins PROVE RuntimeInv'
<1>. USE DEF RuntimeInv, ManualBegins, Begins, settingVars, updateVars, releaseVars
<1>1. RuntimeTypeOK'
  BY BeginFacts DEF RuntimeTypeOK
<1>2. OneUpdate'
  BY BeginFacts DEF OneUpdate, ScheduleKept
<1>3. ScheduleKept'
  BY <1>2 DEF ScheduleKept
<1>4. OnlyWhilePermitted'
  BY DEF OnlyWhilePermitted
<1>5. SavedIsInForce'
  BY DEF SavedIsInForce
<1>6. StartsIdle'
  BY DEF StartsIdle
<1>7. UpdatesTold'
  BY DEF UpdatesTold
<1>. QED BY <1>1, <1>3, <1>4, <1>5, <1>6, <1>7

\* A step of an update asked for over HTTP.
LEMMA ManualProceedsKeeps == ASSUME RuntimeInv, ManualProceeds PROVE RuntimeInv'
<1>. USE DEF RuntimeInv, ManualProceeds, settingVars, updateVars, releaseVars
<1>1. /\ manual' \in Works(UpdateSteps)
      /\ manual # NoWork /\ manual' # NoWork
      /\ manual'.aborted = manual.aborted
      /\ manual'.at # "downloading"
  <2>1. manual \in Works(UpdateSteps) /\ Proceeds(manual, manual')
    BY DEF RuntimeTypeOK
  <2>. HIDE DEF ManualProceeds
  <2>. QED BY <2>1, ProceedsFacts
<1>2. RuntimeTypeOK'
  BY <1>1 DEF RuntimeTypeOK
<1>3. OneUpdate'
  BY <1>1 DEF OneUpdate, ScheduleKept
<1>4. ScheduleKept'
  BY <1>3, <1>1 DEF ScheduleKept
<1>5. OnlyWhilePermitted'
  BY <1>1 DEF OnlyWhilePermitted
<1>6. SavedIsInForce'
  BY DEF SavedIsInForce
<1>7. StartsIdle'
  BY <1>1 DEF StartsIdle
<1>8. UpdatesTold'
  BY <1>1 DEF UpdatesTold
<1>. QED BY <1>2, <1>4, <1>5, <1>6, <1>7, <1>8

\* Its end gives the flag back; the timer was not touched by it.
LEMMA ManualEndsKeeps == ASSUME RuntimeInv, ManualEnds PROVE RuntimeInv'
<1>. USE DEF RuntimeInv, ManualEnds, settingVars, updateVars, releaseVars
<1>1. RuntimeTypeOK'
  BY BeginFacts DEF RuntimeTypeOK
<1>2. OneUpdate'
  BY BeginFacts DEF OneUpdate, ScheduleKept
<1>3. ScheduleKept'
  BY <1>2 DEF ScheduleKept
<1>4. OnlyWhilePermitted'
  BY BeginFacts DEF OnlyWhilePermitted
<1>5. SavedIsInForce'
  BY DEF SavedIsInForce
<1>6. StartsIdle'
  BY DEF StartsIdle
<1>7. UpdatesTold'
  BY DEF UpdatesTold
<1>. QED BY <1>1, <1>3, <1>4, <1>5, <1>6, <1>7

\* A release check begins in place of its timer.
LEMMA ReleaseBeginsKeeps == ASSUME RuntimeInv, ReleaseBegins PROVE RuntimeInv'
<1>. USE DEF RuntimeInv, ReleaseBegins, settingVars, updateVars, releaseVars
<1>1. RuntimeTypeOK'
  BY BeginFacts DEF RuntimeTypeOK
<1>2. OneUpdate'
  BY DEF OneUpdate, ScheduleKept
<1>3. ScheduleKept'
  BY <1>2, BeginFacts DEF ScheduleKept
<1>4. OnlyWhilePermitted'
  BY DEF OnlyWhilePermitted, ScheduleKept
<1>5. SavedIsInForce'
  BY DEF SavedIsInForce
<1>6. StartsIdle'
  BY DEF StartsIdle, ScheduleKept
<1>7. UpdatesTold'
  BY DEF UpdatesTold
<1>. QED BY <1>1, <1>3, <1>4, <1>5, <1>6, <1>7

\* The end of a release check sets its timer if checks are still permitted.
LEMMA ReleaseEndsKeeps == ASSUME RuntimeInv, ReleaseEnds PROVE RuntimeInv'
<1>. USE DEF RuntimeInv, ReleaseEnds, settingVars, updateVars, releaseVars
<1>1. RuntimeTypeOK'
  BY BeginFacts DEF RuntimeTypeOK
<1>2. OneUpdate'
  BY DEF OneUpdate, ScheduleKept
<1>3. ScheduleKept'
  BY <1>2 DEF ScheduleKept
<1>4. OnlyWhilePermitted'
  BY DEF OnlyWhilePermitted
<1>5. SavedIsInForce'
  BY DEF SavedIsInForce
<1>6. StartsIdle'
  BY DEF StartsIdle
<1>7. UpdatesTold'
  BY DEF UpdatesTold
<1>. QED BY <1>1, <1>3, <1>4, <1>5, <1>6, <1>7

\* The probe loop that ends is followed by another if probes are permitted.
LEMMA CheckerEndsKeeps == ASSUME RuntimeInv, CheckerEnds PROVE RuntimeInv'
<1>. USE DEF RuntimeInv, CheckerEnds, settingVars, updateVars, releaseVars
<1>1. RuntimeTypeOK'
  BY BeginFacts DEF RuntimeTypeOK
<1>2. OneUpdate'
  BY DEF OneUpdate, ScheduleKept
<1>3. ScheduleKept'
  BY <1>2, BeginFacts DEF ScheduleKept
<1>4. OnlyWhilePermitted'
  BY DEF OnlyWhilePermitted
<1>5. SavedIsInForce'
  BY DEF SavedIsInForce
<1>6. StartsIdle'
  BY BeginFacts DEF StartsIdle
<1>7. UpdatesTold'
  BY DEF UpdatesTold
<1>. QED BY <1>1, <1>3, <1>4, <1>5, <1>6, <1>7

\* A change of the permissions, or of the master switch behind them.
LEMMA SetOutboundKeeps ==
    ASSUME RuntimeInv, NEW p \in SUBSET Preferences, SetOutbound(p)
    PROVE  RuntimeInv'
<1>. USE DEF RuntimeInv, SetOutbound, Apply, Scheduled
<1>1. Permitted(p) \subseteq Features
  BY PermittedFacts
<1>2. RuntimeTypeOK'
  BY <1>1, BeginFacts, TypeFacts DEF RuntimeTypeOK
<1>3. OneUpdate'
  BY TypeFacts DEF OneUpdate, ScheduleKept
<1>4. ScheduleKept'
  BY <1>3, BeginFacts DEF ScheduleKept
<1>5. OnlyWhilePermitted'
  BY BeginFacts, TypeFacts DEF OnlyWhilePermitted
<1>6. SavedIsInForce'
  BY DEF SavedIsInForce
<1>7. StartsIdle'
  BY DEF StartsIdle
<1>8. UpdatesTold'
  BY TypeFacts DEF UpdatesTold
<1>. QED BY <1>2, <1>4, <1>5, <1>6, <1>7, <1>8

\* Preferences that differ in one, automatic updates, give the same permissions.
LEMMA SamePermissions ==
    ASSUME prefs \subseteq Preferences, NEW p \in SUBSET Preferences,
           OneChange(p), ~("auto" \in p <=> "auto" \in prefs)
    PROVE  Permitted(p) = Permitted(prefs)
<1>1. PICK choice \in Preferences : p = (prefs \ {choice}) \cup ({choice} \ prefs)
  BY DEF OneChange
<1>2. \A q : q # "auto" => (q \in p <=> q \in prefs)
  BY <1>1
<1>. QED BY <1>2 DEF Permitted, Features

\* Automatic updates are turned on or off.
LEMMA SetAutoKeeps ==
    ASSUME RuntimeInv, NEW p \in SUBSET Preferences, SetAuto(p)
    PROVE  RuntimeInv'
<1>. USE DEF RuntimeInv, SetAuto, Scheduled, releaseVars
<1>1. Permitted(p) = Permitted(prefs)
  BY SamePermissions DEF RuntimeTypeOK
<1>2. RuntimeTypeOK'
  BY DEF RuntimeTypeOK
<1>3. ScheduleKept'
  BY DEF ScheduleKept, OneUpdate
<1>4. OnlyWhilePermitted'
  BY DEF OnlyWhilePermitted
<1>5. SavedIsInForce'
  BY <1>1 DEF SavedIsInForce
<1>6. StartsIdle' /\ UpdatesTold'
  BY DEF StartsIdle, UpdatesTold
<1>. QED BY <1>2, <1>3, <1>4, <1>5, <1>6

\* Every step keeps the invariant.
LEMMA RuntimeSteps == RuntimeInv /\ [RuntimeNext]_(runtimeVars) => RuntimeInv'
<1>. SUFFICES ASSUME RuntimeInv, [RuntimeNext]_(runtimeVars) PROVE RuntimeInv'
  OBVIOUS
<1>1. CASE Start
  BY <1>1, StartKeeps
<1>2. CASE Started
  BY <1>2, StartedKeeps
<1>3. CASE Stop
  BY <1>3, StopKeeps
<1>4. CASE Restart
  <2>1. disk \in SUBSET Preferences
    BY DEF RuntimeInv, RuntimeTypeOK
  <2>. QED BY <1>4, <2>1, BootsInvariant DEF Restart
<1>5. ASSUME NEW p \in SUBSET Preferences, SetOutbound(p) PROVE RuntimeInv'
  BY <1>5, SetOutboundKeeps
<1>6. ASSUME NEW p \in SUBSET Preferences, SetAuto(p) PROVE RuntimeInv'
  BY <1>6, SetAutoKeeps
<1>7. ASSUME NEW p \in SUBSET Preferences, KilledAfterSave(p) PROVE RuntimeInv'
  BY <1>7, BootsInvariant DEF KilledAfterSave
<1>8. CASE TimerFires \/ AutoProceeds \/ AutoEnds
  BY <1>8, TimerFiresKeeps, AutoProceedsKeeps, AutoEndsKeeps
<1>9. CASE ManualBegins \/ ManualProceeds \/ ManualEnds
  BY <1>9, ManualBeginsKeeps, ManualProceedsKeeps, ManualEndsKeeps
<1>10. CASE ReleaseBegins \/ ReleaseEnds \/ CheckerEnds
  BY <1>10, ReleaseBeginsKeeps, ReleaseEndsKeeps, CheckerEndsKeeps
<1>11. CASE UNCHANGED runtimeVars
  BY <1>11 DEF runtimeVars, settingVars, updateVars,
               releaseVars, RuntimeInv, RuntimeTypeOK, ScheduleKept,
               OnlyWhilePermitted, SavedIsInForce, StartsIdle, UpdatesTold, OneUpdate
<1>. QED BY <1>1, <1>2, <1>3, <1>4, <1>5, <1>6, <1>7, <1>8, <1>9, <1>10, <1>11 DEF RuntimeNext

-----------------------------------------------------------------------------
\* What holds of every behaviour

\* The inductive invariant of the runtime holds in every state: through any changes of
\* the preferences (runtime.ts, setOutboundPreference and setGeoipAutoUpdate), any ends of
\* the work under way, shutdowns and crashes.
THEOREM RuntimeInvariance == RuntimeSpec => []RuntimeInv
<1>. QED BY RuntimeStarts, RuntimeSteps, PTL DEF RuntimeSpec

\* What is permitted stays scheduled or under way, and nothing else is scheduled
\* (runtime.ts, scheduleUpdate; updates.ts; connectivity.ts, ensureChecker).
THEOREM PermittedWorkIsKept == RuntimeSpec => []ScheduleKept
<1>1. RuntimeInv => ScheduleKept
  BY DEF RuntimeInv
<1>. QED BY <1>1, RuntimeInvariance, PTL

\* A request whose permission is gone has been told to stop, also after the permission
\* was given back (outbound-policy.ts, update and signal).
THEOREM WithdrawnWorkIsTold == RuntimeSpec => []OnlyWhilePermitted
<1>1. RuntimeInv => OnlyWhilePermitted
  BY DEF RuntimeInv
<1>. QED BY <1>1, RuntimeInvariance, PTL

\* The file holds what is in force, so a crash restores it (runtime.ts, the setters;
\* preferences.ts, save).
THEOREM SavedChoiceIsInForce == RuntimeSpec => []SavedIsInForce
<1>1. RuntimeInv => SavedIsInForce
  BY DEF RuntimeInv
<1>. QED BY <1>1, RuntimeInvariance, PTL

\* The scheduled update and one asked for over HTTP exclude each other, and the flag
\* that does it is given back when the update has ended, not when it is told to stop
\* (geoip.ts, update).
THEOREM UpdatesExclude == RuntimeSpec => []OneUpdate
<1>1. RuntimeInv => OneUpdate
  BY DEF RuntimeInv, ScheduleKept
<1>. QED BY <1>1, RuntimeInvariance, PTL

----------------------------------------------------------------------------
(* The header loads that ChainTips shares through KeyedReads: first what the  *)
(* proofs need of minima, cardinalities and the entries of a Map that stay.   *)

\* The order of the natural numbers, as a relation.
Less == {pair \in Nat \X Nat : pair[1] < pair[2]}

\* The smallest of some numbers, which there is as their order is well-founded.
LEMMA Least ==
    ASSUME NEW T \in SUBSET Nat, T # {}
    PROVE  \E x \in T : \A y \in T : x <= y
<1>1. IsWellFoundedOn(Less, Nat)
  BY NatLessThanWellFounded DEF OpToRel, Less
<1>2. PICK x \in T : \A y \in T : ~(<<y, x>> \in Less)
  BY <1>1, WFMin
<1>3. ASSUME NEW y \in T PROVE x <= y
  <2>1. ~(y < x)
    BY <1>2 DEF Less
  <2>. QED BY <2>1
<1>. QED BY <1>3

LEMMA MinIsMember ==
    ASSUME NEW T \in SUBSET Nat, T # {}
    PROVE  Min(T) \in T
<1>1. \E x \in T : \A y \in T : x <= y
  BY Least
<1>. QED BY <1>1 DEF Min

\* Of some positions each is the first, the second, ... of them, with none left out.
LEMMA PlaceExists ==
    ASSUME NEW len \in Nat, NEW kept \in SUBSET (1..len), NEW n \in 1..Cardinality(kept)
    PROVE  \E m \in kept : Cardinality({j \in kept : j <= m}) = n
<1> DEFINE Upto(m) == {j \in kept : j <= m}
           T == {m \in 0..len : Cardinality(Upto(m)) >= n}
<1>1. IsFiniteSet(kept) /\ Cardinality(kept) \in Nat
  <2>1. IsFiniteSet(1..len)
    BY FS_Interval
  <2>. QED BY <2>1, FS_Subset, FS_CardinalityType
<1>2. \A m : IsFiniteSet(Upto(m)) /\ Cardinality(Upto(m)) \in Nat
  <2>1. \A m : Upto(m) \in SUBSET kept
    OBVIOUS
  <2> HIDE DEF Upto
  <2>. QED BY <1>1, <2>1, FS_Subset, FS_CardinalityType
<1>3. Upto(len) = kept
  <2>1. \A j \in kept : j <= len
    OBVIOUS
  <2>. QED BY <2>1
<1>4. Cardinality(Upto(0)) = 0
  <2>1. \A j \in kept : ~(j <= 0)
    OBVIOUS
  <2>2. Upto(0) = {}
    BY <2>1
  <2>. QED BY <2>2, FS_EmptySet
<1>5. ASSUME NEW m \in 1..len
      PROVE  Upto(m) = IF m \in kept THEN Upto(m - 1) \cup {m} ELSE Upto(m - 1)
  <2>1. \A j \in kept : j \in Nat
    OBVIOUS
  <2>2. \A j \in kept : j <= m <=> (j <= m - 1 \/ j = m)
    BY <2>1
  <2>. QED BY <2>2
<1>6. \A m \in 1..len : m \notin Upto(m - 1)
  OBVIOUS
<1> HIDE DEF Upto
<1>7. T \in SUBSET Nat /\ T # {}
  BY <1>1, <1>3
<1>8. PICK m \in T : \A y \in T : m <= y
  BY <1>7, Least
<1>9. m # 0 /\ m \in 1..len /\ m - 1 \in 0..len /\ Cardinality(Upto(m)) >= n
  BY <1>4, <1>8
<1>10. Cardinality(Upto(m - 1)) < n
  <2>1. m - 1 \notin T
    BY <1>8, <1>9
  <2>. QED BY <1>2, <1>9, <2>1
<1>11. m \in kept
  BY <1>2, <1>5, <1>9, <1>10
<1>12. Cardinality(Upto(m)) = Cardinality(Upto(m - 1)) + 1
  <2>1. Upto(m) = Upto(m - 1) \cup {m} /\ m \notin Upto(m - 1)
    BY <1>5, <1>6, <1>9, <1>11
  <2>. QED BY <1>2, <2>1, FS_AddElement
<1>13. Cardinality(Upto(m)) = n
  BY <1>2, <1>9, <1>10, <1>12
<1>. QED BY <1>11, <1>13 DEF Upto

\* What is left of a Map has the entries that are kept, each once, and is not longer.
LEMMA RestrictedFacts ==
    ASSUME NEW V, NEW seq \in Seq(V), NEW S
    PROVE  /\ Restricted(seq, S) \in Seq(V)
           /\ Range(Restricted(seq, S)) \subseteq Range(seq) \cap S
           /\ Len(Restricted(seq, S)) <= Len(seq)
           /\ IsInjective(seq) => IsInjective(Restricted(seq, S))
           /\ (\E x \in Range(seq) : x \notin S) => Len(Restricted(seq, S)) < Len(seq)
<1> DEFINE kept == {n \in DOMAIN seq : seq[n] \in S}
           Upto(m) == {j \in kept : j <= m}
           Place(n) == CHOOSE m \in kept : Cardinality({j \in kept : j <= m}) = n
           out == [n \in 1..Cardinality(kept) |-> seq[Place(n)]]
<1>1. Len(seq) \in Nat /\ DOMAIN seq = 1..Len(seq) /\ \A n \in 1..Len(seq) : seq[n] \in V
  BY LenProperties, ElementOfSeq
<1>2. kept \in SUBSET (1..Len(seq)) /\ \A n \in kept : seq[n] \in S
  BY <1>1
<1>3. IsFiniteSet(1..Len(seq)) /\ Cardinality(1..Len(seq)) = Len(seq)
  <2>1. 1 \in Int /\ Len(seq) \in Int
    BY <1>1
  <2>2. Len(seq) >= 1 => Len(seq) - 1 + 1 = Len(seq)
    BY <1>1
  <2>3. IsFiniteSet(1..Len(seq)) /\ Cardinality(1..Len(seq)) = IF 1 > Len(seq) THEN 0 ELSE Len(seq) - 1 + 1
    BY <2>1, FS_Interval
  <2>. QED BY <1>1, <2>2, <2>3
<1>4. /\ IsFiniteSet(kept) /\ Cardinality(kept) \in Nat /\ Cardinality(kept) <= Len(seq)
      /\ Cardinality(kept) = Len(seq) => kept = 1..Len(seq)
  <2> HIDE DEF kept
  <2>. QED BY <1>1, <1>2, <1>3, FS_Subset, FS_CardinalityType
<1>5. Restricted(seq, S) = out
  BY DEF Restricted
<1> HIDE DEF kept
<1>6. \A n \in 1..Cardinality(kept) : Place(n) \in kept /\ Cardinality(Upto(Place(n))) = n
  <2> TAKE n \in 1..Cardinality(kept)
  <2>1. \E m \in kept : Cardinality({j \in kept : j <= m}) = n
    BY <1>1, <1>2, PlaceExists
  <2>. QED BY <2>1
<1> HIDE DEF Place, Upto
<1>7. \A n \in 1..Cardinality(kept) : out[n] = seq[Place(n)] /\ out[n] \in V /\ out[n] \in S
  BY <1>1, <1>2, <1>6
<1>8. out \in Seq(V) /\ Len(out) = Cardinality(kept) /\ DOMAIN out = 1..Cardinality(kept)
  <2>1. out \in [1..Cardinality(kept) -> V]
    BY <1>7
  <2>. QED BY <1>4, <2>1
<1> HIDE DEF out
<1>9. Range(out) \subseteq Range(seq) \cap S
  BY <1>1, <1>2, <1>6, <1>7, <1>8 DEF Range
<1>10. ASSUME IsInjective(seq) PROVE IsInjective(out)
  <2>1. SUFFICES ASSUME NEW a \in 1..Cardinality(kept), NEW b \in 1..Cardinality(kept), out[a] = out[b]
                 PROVE  a = b
    BY <1>8 DEF IsInjective
  <2>2. seq[Place(a)] = seq[Place(b)] /\ Place(a) \in 1..Len(seq) /\ Place(b) \in 1..Len(seq)
    BY <1>2, <1>6, <1>7, <2>1
  <2>3. Place(a) = Place(b)
    BY <1>1, <1>10, <2>2 DEF IsInjective
  <2>. QED BY <1>6, <2>3
<1>11. ASSUME NEW x \in Range(seq), x \notin S PROVE Cardinality(kept) < Len(seq)
  <2>1. PICK n \in 1..Len(seq) : seq[n] = x
    BY <1>1 DEF Range
  <2>2. n \notin kept
    BY <1>2, <1>11, <2>1
  <2>. QED BY <1>1, <1>4, <2>2
<1>. QED BY <1>4, <1>5, <1>8, <1>9, <1>10, <1>11

\* A sequence without repetitions that gets a new last member has none either.
LEMMA AppendOnce ==
    ASSUME NEW V, NEW seq \in Seq(V), IsInjective(seq), NEW x \in V, x \notin Range(seq),
           NEW q, q = Append(seq, x)
    PROVE  /\ q \in Seq(V) /\ Len(q) = Len(seq) + 1 /\ q # <<>> /\ IsInjective(q)
           /\ Range(q) \subseteq Range(seq) \cup {x}
<1>1. q \in Seq(V) /\ Len(q) = Len(seq) + 1 /\ q # <<>> /\ Len(seq) \in Nat
  BY AppendProperties, LenProperties
<1>2. \A n \in 1..Len(q) : q[n] = IF n = Len(seq) + 1 THEN x ELSE seq[n]
  BY AppendProperties
<1>3. DOMAIN q = 1..Len(q) /\ DOMAIN seq = 1..Len(seq)
  BY <1>1, LenProperties
<1>4. Range(q) \subseteq Range(seq) \cup {x}
  BY <1>1, <1>2, <1>3 DEF Range
<1>5. \A n \in 1..Len(seq) : seq[n] # x
  BY <1>3 DEF Range
<1>6. SUFFICES ASSUME NEW a \in 1..Len(q), NEW b \in 1..Len(q), q[a] = q[b] PROVE a = b
  BY <1>1, <1>3, <1>4 DEF IsInjective
<1>7. CASE a = Len(seq) + 1 \/ b = Len(seq) + 1
  BY <1>1, <1>2, <1>5, <1>6, <1>7
<1>8. CASE a # Len(seq) + 1 /\ b # Len(seq) + 1
  <2>1. a \in 1..Len(seq) /\ b \in 1..Len(seq)
    BY <1>1, <1>8
  <2>2. seq[a] = seq[b]
    BY <1>2, <1>6, <1>8
  <2>. QED BY <1>3, <2>1, <2>2 DEF IsInjective
<1>. QED BY <1>7, <1>8

\* Nor has what is left of it without its first.
LEMMA TailOnce ==
    ASSUME NEW V, NEW seq \in Seq(V), seq # <<>>, IsInjective(seq), NEW h, h = Tail(seq)
    PROVE  /\ h \in Seq(V) /\ Len(h) = Len(seq) - 1 /\ IsInjective(h)
           /\ Range(h) \subseteq Range(seq)
<1>1. h \in Seq(V) /\ Len(h) = Len(seq) - 1 /\ \A n \in 1..Len(h) : h[n] = seq[n + 1]
  BY HeadTailProperties
<1>2. DOMAIN h = 1..Len(h) /\ DOMAIN seq = 1..Len(seq) /\ Len(seq) \in Nat
  BY <1>1, LenProperties
<1>3. \A n \in 1..Len(h) : n + 1 \in 1..Len(seq)
  BY <1>1, <1>2
<1>4. IsInjective(h)
  BY <1>1, <1>2, <1>3 DEF IsInjective
<1>5. Range(h) \subseteq Range(seq)
  BY <1>1, <1>2, <1>3 DEF Range
<1>. QED BY <1>1, <1>4, <1>5

----------------------------------------------------------------------------
\* The types of the reads, the loads and the cache.
ReadRecords ==
    [key : Keys \cup {None}, flight : Flights \cup {None}, failure : {"none", "fresh", "expired"}]
LoadRecords ==
    [read : Reads \cup {None}, key : Keys \cup {None}, readers : SUBSET Readers,
     aborted : BOOLEAN, live : BOOLEAN]
Typed(s) ==
    s \in [active : [Keys -> Reads \cup {None}], failures : Seq(Reads), lru : Seq(Keys),
           read : [Reads -> ReadRecords], flight : [Flights -> LoadRecords]]

\* A slot is active only for a read of its key that loads.
Slots(s) ==
    \A key \in Keys : s.active[key] # None =>
        s.read[s.active[key]].key = key /\ loading(s, s.active[key])

\* A read that loads has its own load, not let go of, and the slot of its key.
Loads(s) ==
    \A i \in Reads : loading(s, i) =>
        /\ s.read[i].key \in Keys /\ s.active[s.read[i].key] = i
        /\ s.read[i].failure # "fresh"
        /\ s.flight[s.read[i].flight].read = i
        /\ s.flight[s.read[i].flight].live /\ ~s.flight[s.read[i].flight].aborted

\* A load under way has a read of its key, whose load it is until the last
\* reader has left.
Loaded(s) ==
    \A f \in Flights :
        /\ ~s.flight[f].live => s.flight[f] = NoFlight
        /\ s.flight[f].live =>
              /\ s.flight[f].read \in Reads /\ s.flight[f].key \in Keys
              /\ s.read[s.flight[f].read].key = s.flight[f].key
              /\ ~s.flight[f].aborted => s.read[s.flight[f].read].flight = f
              /\ s.flight[f].aborted <=> s.flight[f].readers = {}

\* The failures are settled, each once, of different keys that nobody loads.
Failed(s) ==
    /\ IsInjective(s.failures) /\ Len(s.failures) <= FailureLimit
    /\ \A i \in Range(s.failures) :
          /\ s.read[i].key \in Keys /\ s.active[s.read[i].key] = None
          /\ \A j \in Range(s.failures) : s.read[i].key = s.read[j].key => i = j

\* The values are those of different keys, and within their limit.
Remembered(s) == IsInjective(s.lru) /\ Len(s.lru) <= LruLimit

Sound(s) == Typed(s) /\ Slots(s) /\ Loads(s) /\ Loaded(s) /\ Failed(s) /\ Remembered(s)

USE KeyedReadsAssumption DEF KeyedReadsAssumption

\* Other failures, of those there were.
LEMMA FewerFailures ==
    ASSUME NEW s, Sound(s), NEW q \in Seq(Reads), IsInjective(q),
           Len(q) <= Len(s.failures), Range(q) \subseteq Range(s.failures),
           NEW r, r = [s EXCEPT !.failures = q]
    PROVE  Sound(r)
<1>1. /\ r.active = s.active /\ r.read = s.read /\ r.flight = s.flight /\ r.lru = s.lru
      /\ r.failures = q /\ Typed(r)
  BY DEF Sound, Typed
<1>2. Len(q) <= FailureLimit
  <2>1. Len(q) \in Nat /\ Len(s.failures) \in Nat /\ Len(s.failures) <= FailureLimit
    BY LenProperties DEF Sound, Typed, Failed
  <2>. QED BY <2>1
<1>3. Failed(r)
  BY <1>1, <1>2 DEF Sound, Failed
<1>4. Slots(r) /\ Loads(r) /\ Loaded(r) /\ Remembered(r)
  BY <1>1 DEF Sound, Slots, Loads, Loaded, Remembered, loading
<1>. QED BY <1>1, <1>3, <1>4 DEF Sound

LEMMA PruneSound ==
    ASSUME NEW s, Sound(s), NEW r, r = prune(s)
    PROVE  /\ Sound(r)
           /\ r.active = s.active /\ r.read = s.read /\ r.flight = s.flight /\ r.lru = s.lru
           /\ Range(r.failures) \subseteq Range(s.failures)
<1> DEFINE q == Restricted(s.failures, {i \in Reads : failureLasts(s, i)})
<1>1. s.failures \in Seq(Reads) /\ IsInjective(s.failures)
  BY DEF Sound, Typed, Failed
<1>2. /\ q \in Seq(Reads) /\ IsInjective(q)
      /\ Len(q) <= Len(s.failures) /\ Range(q) \subseteq Range(s.failures)
  BY <1>1, RestrictedFacts
<1>3. r = [s EXCEPT !.failures = q]
  BY DEF prune
<1> HIDE DEF q
<1>4. r.active = s.active /\ r.read = s.read /\ r.flight = s.flight /\ r.lru = s.lru /\ r.failures = q
  BY <1>3 DEF Sound, Typed
<1>. QED BY <1>2, <1>3, <1>4, FewerFailures

\* What is collected refers to nothing and nothing to it.
LEMMA CollectedSound ==
    ASSUME NEW s, Sound(s), NEW r, r = Collected(s)
    PROVE  Sound(r) /\ r.flight = s.flight
<1> DEFINE garbage(i) == /\ s.read[i].key # None /\ s.active[s.read[i].key] # i
                         /\ i \notin Range(s.failures) /\ \A f \in Flights : s.flight[f].read # i
<1>1. /\ r.active = s.active /\ r.failures = s.failures /\ r.flight = s.flight /\ r.lru = s.lru
      /\ r.read = [i \in Reads |-> IF garbage(i) THEN NoRead ELSE s.read[i]]
  BY DEF Sound, Typed, Collected
<1>2. ASSUME NEW i \in Reads, loading(s, i) PROVE ~garbage(i)
  BY <1>2 DEF Sound, Loads, Typed
<1>3. \A i \in Reads : loading(r, i) => loading(s, i) /\ r.read[i] = s.read[i]
  BY <1>1 DEF loading, NoRead
<1>4. \A i \in Range(s.failures) : i \in Reads /\ ~garbage(i)
  BY RangeOfSeq DEF Sound, Typed
<1>5. \A f \in Flights : s.flight[f].read \in Reads => ~garbage(s.flight[f].read)
  OBVIOUS
<1>6. \A key \in Keys : s.active[key] # None => s.active[key] \in Reads /\ ~garbage(s.active[key])
  BY DEF Sound, Slots, Typed
<1> HIDE DEF garbage
<1>7. Typed(r)
  <2>1. NoRead \in ReadRecords
    BY DEF NoRead, ReadRecords
  <2>2. r.read \in [Reads -> ReadRecords]
    BY <1>1, <2>1 DEF Sound, Typed
  <2>3. r = [s EXCEPT !.read = r.read]
    BY <1>1 DEF Sound, Typed, Collected
  <2>. QED BY <2>2, <2>3 DEF Sound, Typed
<1>8. Slots(r)
  BY <1>1, <1>6 DEF Sound, Slots, loading
<1>9. Loads(r)
  BY <1>1, <1>3 DEF Sound, Loads
<1>10. Loaded(r)
  BY <1>1, <1>5 DEF Sound, Loaded
<1>11. Failed(r)
  BY <1>1, <1>4 DEF Sound, Failed
<1>. QED BY <1>1, <1>7, <1>8, <1>9, <1>10, <1>11 DEF Sound, Remembered

\* One more failure, of a key without any; the oldest goes when there are too many.
LEMMA FailureAdded ==
    ASSUME NEW s, Sound(s), NEW i \in Reads, s.read[i].key \in Keys,
           s.active[s.read[i].key] = None,
           \A j \in Range(s.failures) : s.read[j].key # s.read[i].key,
           NEW r, r = [s EXCEPT !.failures = Kept(Append(@, i))]
    PROVE  Sound(r)
<1> DEFINE old == s.failures
           q == Append(old, i)
           h == Kept(q)
<1>1. /\ old \in Seq(Reads) /\ Len(old) \in Nat /\ Len(old) <= FailureLimit
      /\ IsInjective(old) /\ i \notin Range(old)
  BY LenProperties DEF Sound, Typed, Failed
<1> HIDE DEF old
<1>2. /\ q \in Seq(Reads) /\ Len(q) = Len(old) + 1 /\ q # <<>> /\ IsInjective(q)
      /\ Range(q) \subseteq Range(old) \cup {i}
  BY <1>1, AppendOnce
<1> HIDE DEF q
<1>3. /\ h \in Seq(Reads) /\ IsInjective(h) /\ Len(h) <= FailureLimit
      /\ Range(h) \subseteq Range(old) \cup {i}
  <2>1. CASE Len(q) <= FailureLimit
    BY <1>1, <1>2, <2>1 DEF Kept
  <2>2. CASE ~(Len(q) <= FailureLimit)
    <3>1. h = Tail(q)
      BY <1>1, <1>2, <2>2 DEF Kept
    <3>. HIDE DEF h
    <3>2. /\ h \in Seq(Reads) /\ Len(h) = Len(q) - 1 /\ IsInjective(h)
          /\ Range(h) \subseteq Range(q)
      BY <1>2, <3>1, TailOnce
    <3>3. Len(h) <= FailureLimit
      BY <1>1, <1>2, <3>2
    <3>. QED BY <1>2, <3>2, <3>3
  <2>. QED BY <2>1, <2>2
<1>4. r = [s EXCEPT !.failures = h]
  BY DEF q, old
<1> HIDE DEF h
<1>5. /\ r.active = s.active /\ r.read = s.read /\ r.flight = s.flight /\ r.lru = s.lru
      /\ r.failures = h /\ Typed(r)
  BY <1>3, <1>4 DEF Sound, Typed
<1>6. Failed(r)
  BY <1>3, <1>5 DEF Sound, Failed, old
<1>7. Slots(r) /\ Loads(r) /\ Loaded(r) /\ Remembered(r)
  BY <1>5 DEF Sound, Slots, Loads, Loaded, Remembered, loading
<1>. QED BY <1>5, <1>6, <1>7 DEF Sound

\* A cached value that is used becomes the newest.
LEMMA UsedOnce ==
    ASSUME NEW lru \in Seq(Keys), IsInjective(lru), NEW key \in Keys
    PROVE  /\ Used(lru, key) \in Seq(Keys) /\ IsInjective(Used(lru, key))
           /\ Used(lru, key) # <<>> /\ Len(Used(lru, key)) <= Len(lru) + 1
           /\ Contains(lru, key) => Len(Used(lru, key)) <= Len(lru)
<1> DEFINE rest == Restricted(lru, Keys \ {key})
<1>1. /\ rest \in Seq(Keys) /\ IsInjective(rest) /\ Range(rest) \subseteq Keys \ {key}
      /\ Len(rest) <= Len(lru) /\ (key \in Range(lru) => Len(rest) < Len(lru))
  BY RestrictedFacts
<1>2. Contains(lru, key) => key \in Range(lru)
  BY LenProperties DEF Contains, Range
<1>3. Used(lru, key) = Append(rest, key)
  BY DEF Used
<1> HIDE DEF rest
<1>4. /\ Used(lru, key) \in Seq(Keys) /\ IsInjective(Used(lru, key)) /\ Used(lru, key) # <<>>
      /\ Len(Used(lru, key)) = Len(rest) + 1
  BY <1>1, <1>3, AppendOnce
<1>5. Len(rest) \in Nat /\ Len(lru) \in Nat
  BY <1>1, LenProperties
<1>. QED BY <1>1, <1>2, <1>4, <1>5

\* A value that is stored sends the one out that was used least recently.
LEMMA CachedOnce ==
    ASSUME NEW lru \in Seq(Keys), IsInjective(lru), Len(lru) <= LruLimit, NEW key \in Keys
    PROVE  /\ Cached(lru, key) \in Seq(Keys) /\ IsInjective(Cached(lru, key))
           /\ Len(Cached(lru, key)) <= LruLimit
<1> DEFINE used == Used(lru, key)
<1>1. /\ used \in Seq(Keys) /\ IsInjective(used) /\ used # <<>> /\ Len(used) <= Len(lru) + 1
      /\ Len(used) \in Nat /\ Len(lru) \in Nat
  BY UsedOnce, LenProperties
<1>2. Cached(lru, key) = IF Len(used) > LruLimit THEN Tail(used) ELSE used
  BY DEF Cached
<1> HIDE DEF used
<1>3. CASE Len(used) > LruLimit
  <2>1. Cached(lru, key) = Tail(used)
    BY <1>2, <1>3
  <2>2. /\ Cached(lru, key) \in Seq(Keys) /\ Len(Cached(lru, key)) = Len(used) - 1
        /\ IsInjective(Cached(lru, key))
    BY <1>1, <2>1, TailOnce
  <2>. QED BY <1>1, <2>2
<1>4. CASE ~(Len(used) > LruLimit)
  BY <1>1, <1>2, <1>4
<1>. QED BY <1>3, <1>4

LEMMA UsedSound ==
    ASSUME NEW s, Sound(s), NEW key \in Keys, Contains(s.lru, key),
           NEW r, r = [s EXCEPT !.lru = Used(@, key)]
    PROVE  Sound(r)
<1> DEFINE q == Used(s.lru, key)
<1>1. s.lru \in Seq(Keys) /\ IsInjective(s.lru) /\ Len(s.lru) <= LruLimit /\ Len(s.lru) \in Nat
  BY LenProperties DEF Sound, Typed, Remembered
<1>2. q \in Seq(Keys) /\ IsInjective(q) /\ Len(q) <= Len(s.lru) /\ Len(q) \in Nat
  BY <1>1, UsedOnce, LenProperties
<1>3. r = [s EXCEPT !.lru = q]
  OBVIOUS
<1> HIDE DEF q
<1>4. /\ r.active = s.active /\ r.read = s.read /\ r.flight = s.flight /\ r.lru = q
      /\ r.failures = s.failures /\ Typed(r)
  BY <1>2, <1>3 DEF Sound, Typed
<1>5. Remembered(r)
  BY <1>1, <1>2, <1>4 DEF Remembered
<1>6. Slots(r) /\ Loads(r) /\ Loaded(r) /\ Failed(r)
  BY <1>4 DEF Sound, Slots, Loads, Loaded, Failed, loading
<1>. QED BY <1>4, <1>5, <1>6 DEF Sound

\* A failure that ends stays where it is until somebody looks.
LEMMA FailureEndsSound ==
    ASSUME NEW s, Sound(s), NEW i \in Reads, failureLasts(s, i),
           NEW r, r = [s EXCEPT !.read[i].failure = "expired"]
    PROVE  Sound(r)
<1> DEFINE old == s.read
           read == [old EXCEPT ![i].failure = "expired"]
<1>1. /\ read \in [Reads -> ReadRecords]
      /\ \A j \in Reads : /\ read[j].key = s.read[j].key /\ read[j].flight = s.read[j].flight
                          /\ read[j].failure = "fresh" => s.read[j].failure = "fresh"
  <2>1. old \in [Reads -> ReadRecords]
    BY DEF Sound, Typed
  <2>2. \A j \in Reads : read[j].key = old[j].key /\ read[j].flight = old[j].flight
                         /\ (j # i => read[j] = old[j]) /\ read[i].failure = "expired"
    <3> HIDE DEF old
    <3>. QED BY <2>1 DEF ReadRecords
  <2>3. read \in [Reads -> ReadRecords]
    <3> HIDE DEF old
    <3>. QED BY <2>1 DEF ReadRecords
  <2> HIDE DEF read
  <2>4. \A j \in Reads : read[j].failure = "fresh" => old[j].failure = "fresh"
    BY <2>2
  <2>. QED BY <2>2, <2>3, <2>4
<1>2. r = [s EXCEPT !.read = read]
  OBVIOUS
<1> HIDE DEF read
<1>3. /\ r.active = s.active /\ r.flight = s.flight /\ r.lru = s.lru /\ r.failures = s.failures
      /\ r.read = read /\ Typed(r)
  BY <1>1, <1>2 DEF Sound, Typed
<1>4. \A j \in Range(s.failures) : j \in Reads
  BY RangeOfSeq DEF Sound, Typed
<1>5. \A j \in Reads : loading(r, j) <=> loading(s, j)
  BY <1>1, <1>3 DEF loading
<1>6. Slots(r)
  <2>1. \A key \in Keys : s.active[key] # None => s.active[key] \in Reads
    BY DEF Sound, Typed
  <2>2. SUFFICES ASSUME NEW key \in Keys, s.active[key] # None
                 PROVE  read[s.active[key]].key = key /\ loading(r, s.active[key])
    BY <1>3 DEF Slots
  <2>. QED BY <1>1, <1>5, <2>1, <2>2 DEF Sound, Slots
<1>7. Loads(r)
  BY <1>1, <1>3, <1>5 DEF Sound, Loads
<1>8. Loaded(r)
  BY <1>1, <1>3 DEF Sound, Loaded
<1>9. Failed(r)
  BY <1>1, <1>3, <1>4 DEF Sound, Failed
<1>. QED BY <1>3, <1>6, <1>7, <1>8, <1>9 DEF Sound, Remembered

\* Some readers have left the loads, which are of the same keys as before.
HaveLeft(s, r, leaving) ==
    \A f \in Flights : /\ r.flight[f].readers = s.flight[f].readers \ leaving
                       /\ r.flight[f].key = s.flight[f].key

\* A reader has joined a load of the key, or has begun it.
HasJoined(s, r, key, reader) ==
    \E f \in Flights :
        /\ r.flight[f].readers = s.flight[f].readers \cup {reader} /\ r.flight[f].key = key
        /\ s.flight[f].readers = {} \/ s.flight[f].key = key
        /\ \A g \in Flights : g # f => r.flight[g] = s.flight[g]

\* Readers that leave take the load, its slot and its read's load with them when
\* they are its last.
LEMMA LeaveSound ==
    ASSUME NEW s, Sound(s), NEW readers, NEW r, r = leave(s, readers)
    PROVE  Sound(r) /\ HaveLeft(s, r, readers)
<1> DEFINE last == {f \in Flights : s.flight[f].readers # {} /\ s.flight[f].readers \subseteq readers}
           idle == {i \in Reads : s.read[i].flight \in last}
           flight == [f \in Flights |->
                [s.flight[f] EXCEPT !.readers = @ \ readers, !.aborted = @ \/ f \in last]]
           read == [i \in Reads |-> [s.read[i] EXCEPT !.flight = IF i \in idle THEN None ELSE @]]
           slots == [key \in Keys |-> IF s.active[key] \in idle THEN None ELSE s.active[key]]
           left == [s EXCEPT !.flight = flight, !.read = read, !.active = slots]
<1>1. r = Collected(IF idle = {} THEN left ELSE prune(left))
  BY DEF leave
<1>2. \A f \in last : f \in Flights /\ s.flight[f].readers # {} /\ s.flight[f].readers \subseteq readers
  OBVIOUS
<1>3. \A f \in Flights : f \notin last => s.flight[f].readers = {} \/ s.flight[f].readers \ readers # {}
  OBVIOUS
<1>4. idle \subseteq Reads /\ None \notin idle /\ \A i \in Reads : i \in idle <=> s.read[i].flight \in last
  OBVIOUS
<1> HIDE DEF last
<1>5. \A f \in Flights :
         /\ flight[f] \in LoadRecords
         /\ flight[f].read = s.flight[f].read /\ flight[f].key = s.flight[f].key
         /\ flight[f].live = s.flight[f].live /\ flight[f].readers = s.flight[f].readers \ readers
         /\ flight[f].aborted <=> s.flight[f].aborted \/ f \in last
  <2> TAKE f \in Flights
  <2> DEFINE g == s.flight[f]
             h == [g EXCEPT !.readers = @ \ readers, !.aborted = @ \/ f \in last]
  <2>1. g \in LoadRecords
    BY DEF Sound, Typed
  <2>2. flight[f] = h
    OBVIOUS
  <2> HIDE DEF g
  <2>3. /\ h \in LoadRecords /\ h.read = g.read /\ h.key = g.key /\ h.live = g.live
        /\ h.readers = g.readers \ readers
    BY <2>1 DEF LoadRecords
  <2>4. h.aborted = (g.aborted \/ f \in last)
    BY <2>1, Zenon DEF LoadRecords
  <2> HIDE DEF h, flight
  <2>. QED BY <2>2, <2>3, <2>4 DEF g
<1>6. \A i \in Reads :
         /\ read[i] \in ReadRecords
         /\ read[i].key = s.read[i].key /\ read[i].failure = s.read[i].failure
         /\ read[i].flight = IF i \in idle THEN None ELSE s.read[i].flight
  <2> TAKE i \in Reads
  <2> DEFINE g == s.read[i]
  <2>1. g \in ReadRecords
    BY DEF Sound, Typed
  <2> HIDE DEF g, idle
  <2>. QED BY <2>1 DEF ReadRecords, g
<1>7. /\ slots \in [Keys -> Reads \cup {None}]
      /\ \A key \in Keys : slots[key] = IF s.active[key] \in idle THEN None ELSE s.active[key]
  <2> HIDE DEF idle
  <2>. QED BY DEF Sound, Typed
<1>8. flight \in [Flights -> LoadRecords] /\ read \in [Reads -> ReadRecords]
  BY <1>5, <1>6
<1> HIDE DEF idle, flight, read, slots
<1>9. /\ left.active = slots /\ left.read = read /\ left.flight = flight
      /\ left.failures = s.failures /\ left.lru = s.lru /\ Typed(left)
  BY <1>7, <1>8 DEF Sound, Typed
<1> HIDE DEF left
<1>10. Slots(left)
  <2>1. SUFFICES ASSUME NEW key \in Keys, slots[key] # None
                 PROVE  read[slots[key]].key = key /\ read[slots[key]].flight # None
    BY <1>9 DEF Slots, loading
  <2>2. slots[key] = s.active[key] /\ s.active[key] \notin idle /\ s.active[key] \in Reads
    BY <1>7, <2>1 DEF Sound, Typed
  <2>. QED BY <1>6, <2>1, <2>2 DEF Sound, Slots, loading
<1>11. Loads(left)
  <2>1. SUFFICES ASSUME NEW i \in Reads, read[i].flight # None
                 PROVE  /\ read[i].key \in Keys /\ slots[read[i].key] = i
                        /\ read[i].failure # "fresh"
                        /\ flight[read[i].flight].read = i
                        /\ flight[read[i].flight].live /\ ~flight[read[i].flight].aborted
    BY <1>9 DEF Loads, loading
  <2>2. i \notin idle /\ read[i].flight = s.read[i].flight /\ read[i].flight \notin last
    BY <1>4, <1>6, <2>1
  <2>3. read[i].flight \in Flights
    BY <1>8, <2>1 DEF ReadRecords
  <2>4. /\ s.read[i].key \in Keys /\ s.active[s.read[i].key] = i
        /\ s.read[i].failure # "fresh"
        /\ s.flight[s.read[i].flight].read = i
        /\ s.flight[s.read[i].flight].live /\ ~s.flight[s.read[i].flight].aborted
    BY <2>1, <2>2 DEF Sound, Loads, loading
  <2>. QED BY <1>5, <1>6, <1>7, <2>2, <2>3, <2>4
<1>12. Loaded(left)
  <2>1. SUFFICES ASSUME NEW f \in Flights
                 PROVE  /\ ~flight[f].live => flight[f] = NoFlight
                        /\ flight[f].live =>
                              /\ flight[f].read \in Reads /\ flight[f].key \in Keys
                              /\ read[flight[f].read].key = flight[f].key
                              /\ ~flight[f].aborted => read[flight[f].read].flight = f
                              /\ flight[f].aborted <=> flight[f].readers = {}
    BY <1>9 DEF Loaded
  <2>2. CASE ~s.flight[f].live
    <3>1. s.flight[f] = NoFlight
      BY <2>2 DEF Sound, Loaded
    <3>2. f \notin last
      BY <1>2, <3>1 DEF NoFlight
    <3>3. /\ flight[f].read = None /\ flight[f].key = None /\ flight[f].readers = {}
          /\ ~flight[f].aborted /\ ~flight[f].live /\ flight[f] \in LoadRecords
      BY <1>5, <3>1, <3>2 DEF NoFlight
    <3>4. flight[f] = NoFlight
      <4>. DEFINE g == flight[f]
      <4>1. g.aborted = FALSE /\ g.live = FALSE
        BY <3>3, Zenon DEF LoadRecords
      <4>2. g \in LoadRecords /\ g.read = None /\ g.key = None /\ g.readers = {}
        BY <3>3
      <4> HIDE DEF g
      <4>3. g = [read |-> g.read, key |-> g.key, readers |-> g.readers,
                 aborted |-> g.aborted, live |-> g.live]
        BY <4>2 DEF LoadRecords
      <4>. QED BY <4>1, <4>2, <4>3 DEF NoFlight, g
    <3>. QED BY <3>3, <3>4
  <2>3. CASE s.flight[f].live
    <3>1. /\ s.flight[f].read \in Reads /\ s.flight[f].key \in Keys
          /\ s.read[s.flight[f].read].key = s.flight[f].key
          /\ ~s.flight[f].aborted => s.read[s.flight[f].read].flight = f
          /\ s.flight[f].aborted <=> s.flight[f].readers = {}
      BY <2>3 DEF Sound, Loaded
    <3>2. ~flight[f].aborted => read[flight[f].read].flight = f
      <4>1. SUFFICES ASSUME ~flight[f].aborted PROVE read[flight[f].read].flight = f
        OBVIOUS
      <4>2. f \notin last /\ s.read[s.flight[f].read].flight = f
        BY <1>5, <3>1, <4>1
      <4>3. s.flight[f].read \notin idle
        BY <1>4, <3>1, <4>2
      <4>. QED BY <1>5, <1>6, <3>1, <4>2, <4>3
    <3>3. flight[f].aborted <=> flight[f].readers = {}
      BY <1>2, <1>3, <1>5, <3>1
    <3>. QED BY <1>5, <1>6, <2>3, <3>1, <3>2, <3>3
  <2>. QED BY <2>2, <2>3
<1>13. Failed(left)
  <2>1. \A i \in Range(s.failures) : i \in Reads
    BY RangeOfSeq DEF Sound, Typed
  <2>2. \A i \in Range(s.failures) :
           /\ read[i].key = s.read[i].key /\ s.read[i].key \in Keys
           /\ s.active[s.read[i].key] = None
    BY <1>6, <2>1 DEF Sound, Failed
  <2>3. \A i \in Range(s.failures) : slots[s.read[i].key] = None
    BY <1>4, <1>7, <2>2
  <2>. QED BY <1>9, <2>2, <2>3 DEF Sound, Failed
<1>14. Sound(left)
  BY <1>9, <1>10, <1>11, <1>12, <1>13 DEF Sound, Remembered
<1>15. Sound(prune(left)) /\ prune(left).flight = flight
  BY <1>9, <1>14, PruneSound
<1>. QED
  <2> DEFINE z == IF idle = {} THEN left ELSE prune(left)
  <2>1. left.flight = flight
    BY <1>9
  <2>2. Sound(z) /\ z.flight = flight
    BY <1>14, <1>15, <2>1
  <2> HIDE DEF z
  <2>3. Sound(r) /\ r.flight = flight
    BY <1>1, <2>2, CollectedSound DEF z
  <2>. QED BY <1>5, <2>3 DEF HaveLeft

\* What a load leaves that nobody let go of, in its read, in the slot of its key
\* and among the values.
Freed(s, f, failure, lru) ==
    LET i == s.flight[f].read
        key == s.flight[f].key
    IN  [active |-> [s.active EXCEPT ![key] = None], failures |-> s.failures,
         read |-> [s.read EXCEPT ![i] = [key |-> key, flight |-> None, failure |-> failure]],
         flight |-> [s.flight EXCEPT ![f] = NoFlight], lru |-> lru]

LEMMA FreedSound ==
    ASSUME NEW s, Sound(s), NEW f \in Flights, s.flight[f].live, ~s.flight[f].aborted,
           NEW failure \in {"none", "fresh", "expired"},
           NEW lru \in Seq(Keys), IsInjective(lru), Len(lru) <= LruLimit,
           NEW r, r = Freed(s, f, failure, lru)
    PROVE  /\ Sound(r) /\ r.active[s.flight[f].key] = None
           /\ \A j \in Range(r.failures) : r.read[j].key # s.flight[f].key
           /\ s.active[s.flight[f].key] = s.flight[f].read
<1> DEFINE i == s.flight[f].read
           key == s.flight[f].key
           slots == [s.active EXCEPT ![key] = None]
           read == [s.read EXCEPT ![i] = [key |-> key, flight |-> None, failure |-> failure]]
           flight == [s.flight EXCEPT ![f] = NoFlight]
<1>0. r = [active |-> slots, failures |-> s.failures, read |-> read, flight |-> flight, lru |-> lru]
  BY DEF Freed
<1> HIDE DEF slots, read, flight
<1>1. i \in Reads /\ key \in Keys /\ s.read[i].key = key /\ s.read[i].flight = f
  BY DEF Sound, Loaded
<1>2. f # None /\ i # None
  BY <1>1
<1>3. s.active[key] = i
  BY <1>1, <1>2 DEF Sound, Loads, loading
<1>4. /\ r.active = slots /\ r.read = read /\ r.flight = flight /\ r.lru = lru
      /\ r.failures = s.failures
  BY <1>0
<1>5. /\ slots \in [Keys -> Reads \cup {None}]
      /\ \A other \in Keys : slots[other] = IF other = key THEN None ELSE s.active[other]
  BY <1>1 DEF Sound, Typed, slots
<1>6. /\ read \in [Reads -> ReadRecords] /\ \A j \in Reads : j # i => read[j] = s.read[j]
      /\ read[i].key = key /\ read[i].flight = None /\ read[i].failure = failure
  BY <1>1 DEF Sound, Typed, ReadRecords, read
<1>7. /\ flight \in [Flights -> LoadRecords] /\ flight[f] = NoFlight
      /\ \A g \in Flights : g # f => flight[g] = s.flight[g]
  <2>1. NoFlight \in LoadRecords
    BY DEF NoFlight, LoadRecords
  <2> HIDE DEF NoFlight, LoadRecords
  <2>. QED BY <2>1 DEF Sound, Typed, flight
<1>8. Typed(r)
  <2>1. s.failures \in Seq(Reads)
    BY DEF Sound, Typed
  <2>. QED BY <1>0, <1>5, <1>6, <1>7, <2>1 DEF Typed
<1>9. Slots(r)
  <2>1. SUFFICES ASSUME NEW other \in Keys, slots[other] # None
                 PROVE  read[slots[other]].key = other /\ read[slots[other]].flight # None
    BY <1>4 DEF Slots, loading
  <2>2. other # key /\ slots[other] = s.active[other] /\ s.active[other] \in Reads
    BY <1>5, <2>1 DEF Sound, Typed
  <2>3. s.read[s.active[other]].key = other /\ s.read[s.active[other]].flight # None
    BY <2>1, <2>2 DEF Sound, Slots, loading
  <2>. QED BY <1>1, <1>6, <2>2, <2>3
<1>10. Loads(r)
  <2>1. SUFFICES ASSUME NEW j \in Reads, read[j].flight # None
                 PROVE  /\ read[j].key \in Keys /\ slots[read[j].key] = j
                        /\ read[j].failure # "fresh"
                        /\ flight[read[j].flight].read = j
                        /\ flight[read[j].flight].live /\ ~flight[read[j].flight].aborted
    BY <1>4 DEF Loads, loading
  <2>2. j # i /\ read[j] = s.read[j]
    BY <1>6, <2>1
  <2>3. /\ s.read[j].key \in Keys /\ s.active[s.read[j].key] = j
        /\ s.read[j].failure # "fresh"
        /\ s.flight[s.read[j].flight].read = j
        /\ s.flight[s.read[j].flight].live /\ ~s.flight[s.read[j].flight].aborted
    BY <2>1, <2>2 DEF Sound, Loads, loading
  <2>4. s.read[j].flight # f /\ s.read[j].flight \in Flights /\ s.read[j].key # key
    <3>1. s.read[j].flight \in Flights
      BY <1>6, <2>1, <2>2 DEF ReadRecords
    <3>. QED BY <1>3, <2>2, <2>3, <3>1
  <2>. QED BY <1>5, <1>7, <2>2, <2>3, <2>4
<1>11. Loaded(r)
  <2>1. SUFFICES ASSUME NEW g \in Flights
                 PROVE  /\ ~flight[g].live => flight[g] = NoFlight
                        /\ flight[g].live =>
                              /\ flight[g].read \in Reads /\ flight[g].key \in Keys
                              /\ read[flight[g].read].key = flight[g].key
                              /\ ~flight[g].aborted => read[flight[g].read].flight = g
                              /\ flight[g].aborted <=> flight[g].readers = {}
    BY <1>4 DEF Loaded
  <2>2. CASE g = f
    BY <1>7, <2>2 DEF NoFlight
  <2>3. CASE g # f
    <3>1. /\ ~s.flight[g].live => s.flight[g] = NoFlight
          /\ s.flight[g].live =>
                /\ s.flight[g].read \in Reads /\ s.flight[g].key \in Keys
                /\ s.read[s.flight[g].read].key = s.flight[g].key
                /\ ~s.flight[g].aborted => s.read[s.flight[g].read].flight = g
                /\ s.flight[g].aborted <=> s.flight[g].readers = {}
      BY DEF Sound, Loaded
    <3>2. flight[g] = s.flight[g]
      BY <1>7, <2>3
    <3>. QED BY <1>1, <1>6, <2>3, <3>1, <3>2
  <2>. QED BY <2>2, <2>3
<1>12. \A j \in Range(s.failures) : j \in Reads /\ read[j].key = s.read[j].key
  <2>1. \A j \in Range(s.failures) : j \in Reads
    BY RangeOfSeq DEF Sound, Typed
  <2>. QED BY <1>1, <1>6, <2>1
<1>13. Failed(r)
  BY <1>4, <1>5, <1>12 DEF Sound, Failed
<1>14. \A j \in Range(s.failures) : s.read[j].key # key
  BY <1>2, <1>3 DEF Sound, Failed
<1>. QED BY <1>1, <1>3, <1>4, <1>5, <1>6, <1>8, <1>9, <1>10, <1>11, <1>12, <1>13, <1>14
         DEF Sound, Remembered

\* A load that was let go of settles: nothing waits for it.
LEMMA LateSettles ==
    ASSUME NEW s, Sound(s), NEW f \in Flights, s.flight[f].aborted,
           NEW flight, flight = [s.flight EXCEPT ![f] = NoFlight],
           NEW r, r = [s EXCEPT !.flight = flight]
    PROVE  Sound(r)
<1>1. /\ flight \in [Flights -> LoadRecords] /\ flight[f] = NoFlight
      /\ \A g \in Flights : g # f => flight[g] = s.flight[g]
  <2>1. NoFlight \in LoadRecords
    BY DEF NoFlight, LoadRecords
  <2> HIDE DEF NoFlight, LoadRecords
  <2>. QED BY <2>1 DEF Sound, Typed
<1>2. /\ r.active = s.active /\ r.read = s.read /\ r.flight = flight /\ r.lru = s.lru
      /\ r.failures = s.failures /\ Typed(r)
  BY <1>1 DEF Sound, Typed
<1>3. Loads(r)
  <2>1. SUFFICES ASSUME NEW j \in Reads, s.read[j].flight # None
                 PROVE  /\ s.read[j].key \in Keys /\ s.active[s.read[j].key] = j
                        /\ s.read[j].failure # "fresh"
                        /\ flight[s.read[j].flight].read = j
                        /\ flight[s.read[j].flight].live /\ ~flight[s.read[j].flight].aborted
    BY <1>2 DEF Loads, loading
  <2>2. s.read[j].flight \in Flights
    BY <2>1 DEF Sound, Typed, ReadRecords
  <2>3. s.read[j].flight # f
    BY <2>1 DEF Sound, Loads, loading
  <2>. QED BY <1>1, <2>1, <2>2, <2>3 DEF Sound, Loads, loading
<1>4. Loaded(r)
  <2>1. \A g \in Flights : g = f => flight[g] = NoFlight /\ ~flight[g].live
    BY <1>1 DEF NoFlight
  <2>. QED BY <1>1, <1>2, <2>1 DEF Sound, Loaded
<1>5. Slots(r) /\ Failed(r)
  BY <1>2 DEF Sound, Slots, Failed, loading
<1>. QED BY <1>2, <1>3, <1>4, <1>5 DEF Sound, Remembered

\* A load settles, whether it was let go of, has a value or has failed.
LEMMA SettleSound ==
    ASSUME NEW s, Sound(s), NEW f \in Flights, s.flight[f].live, NEW how,
           NEW r, r = settle(s, f, how)
    PROVE  /\ Sound(r) /\ r.flight[f].readers = {}
           /\ \A g \in Flights : g # f => r.flight[g] = s.flight[g]
<1> DEFINE i == s.flight[f].read
           key == s.flight[f].key
           stored == IF s.flight[f].aborted THEN s
                     ELSE IF how = "value" THEN [s EXCEPT !.lru = Cached(@, key), !.read[i].failure = "none"]
                     ELSE [s EXCEPT !.read[i].failure = "fresh"]
           x == [stored EXCEPT !.flight[f] = NoFlight, !.read[i].flight = IF @ = f THEN None ELSE @]
           flight == [s.flight EXCEPT ![f] = NoFlight]
<1>1. r = Collected(onIdle(x, i))
  BY DEF settle
<1>2. i \in Reads /\ key \in Keys /\ s.read[i].key = key /\ i # None
  BY DEF Sound, Loaded
<1> SUFFICES Sound(r) /\ r.flight = flight
  BY DEF Sound, Typed, NoFlight
<1>3. CASE s.flight[f].aborted
  <2>1. s.read[i].flight # f
    BY <1>2, <1>3 DEF Sound, Loads, loading
  <2> DEFINE read == [s.read EXCEPT ![i].flight = IF @ = f THEN None ELSE @]
  <2>2. read = s.read
    BY <1>2, <2>1 DEF Sound, Typed, ReadRecords
  <2>3. x = [s EXCEPT !.flight = flight, !.read = read]
    BY <1>3
  <2> HIDE DEF read, x
  <2>4. x = [s EXCEPT !.flight = flight]
    BY <2>2, <2>3 DEF Sound, Typed
  <2> HIDE DEF flight
  <2>5. Sound(x) /\ x.flight = flight
    <3>1. x.flight = flight
      BY <2>4 DEF Sound, Typed
    <3>. QED BY <1>3, <2>4, <3>1, LateSettles DEF flight
  <2>6. loading(x, i) \/ x.active[x.read[i].key] # i
    <3>1. x.read = s.read
      BY <2>4 DEF Sound, Typed
    <3>. QED BY <1>2, <2>5, <3>1 DEF Sound, Slots
  <2>7. onIdle(x, i) = x
    BY <2>6 DEF onIdle
  <2>. QED BY <1>1, <2>5, <2>7, CollectedSound
<1>4. CASE ~s.flight[f].aborted
  <2> DEFINE lru == IF how = "value" THEN Cached(s.lru, key) ELSE s.lru
             failure == IF how = "value" THEN "none" ELSE "fresh"
             old == s.read
             failed == [old EXCEPT ![i].failure = failure]
             ended == [failed EXCEPT ![i].flight = IF @ = f THEN None ELSE @]
             read == [old EXCEPT ![i] = [key |-> key, flight |-> None, failure |-> failure]]
             slots == [s.active EXCEPT ![key] = None]
             y == Freed(s, f, failure, lru)
             pruned == prune(y)
  <2>1. lru \in Seq(Keys) /\ IsInjective(lru) /\ Len(lru) <= LruLimit
    BY <1>2, CachedOnce DEF Sound, Typed, Remembered
  <2>2. failure \in {"none", "fresh", "expired"}
    OBVIOUS
  <2>3. old \in [Reads -> ReadRecords] /\ old[i].flight = f /\ old[i].key = key
    BY <1>2, <1>4 DEF Sound, Typed, Loaded
  <2>4. stored = [active |-> s.active, failures |-> s.failures, read |-> failed,
                  flight |-> s.flight, lru |-> lru]
    BY <1>2, <1>4 DEF Sound, Typed
  <2>5. /\ stored.active = s.active /\ stored.failures = s.failures /\ stored.read = failed
        /\ stored.flight = s.flight /\ stored.lru = lru
    <3> HIDE DEF lru, failed, stored
    <3>. QED BY <2>4
  <2> HIDE DEF stored
  <2>6. x = [stored EXCEPT !.flight = flight, !.read = ended]
    BY <2>5
  <2>7. y = [active |-> slots, failures |-> s.failures, read |-> read, flight |-> flight, lru |-> lru]
    BY DEF Freed
  <2>8. ended = read
    <3> DEFINE c == old[i]
               new == [key |-> key, flight |-> None, failure |-> failure]
               g == [c EXCEPT !.failure = failure]
               h == [g EXCEPT !.flight = IF @ = f THEN None ELSE @]
    <3>1. i \in DOMAIN old
      BY <1>2, <2>3
    <3>2. failed = [old EXCEPT ![i] = g]
      OBVIOUS
    <3>3. failed[i] = g /\ ended = [failed EXCEPT ![i] = h]
      BY <3>1
    <3>4. c = [key |-> key, flight |-> f, failure |-> c.failure]
      BY <1>2, <2>3 DEF ReadRecords
    <3> HIDE DEF c, failed, ended
    <3>5. g = [key |-> key, flight |-> f, failure |-> failure]
      BY <3>4
    <3> HIDE DEF g
    <3>6. h = new
      BY <3>5
    <3> HIDE DEF h
    <3>7. [failed EXCEPT ![i] = h] = [old EXCEPT ![i] = h]
      BY <3>2
    <3>. QED BY <3>3, <3>6, <3>7
  <2> HIDE DEF failed, ended, x, flight, read, lru, slots, old, failure
  <2>9. x = [active |-> s.active, failures |-> s.failures, read |-> read, flight |-> flight, lru |-> lru]
    BY <2>4, <2>6, <2>8
  <2>10. y.read = x.read /\ x.active = s.active /\ y = [x EXCEPT !.active = slots] /\ y.flight = flight
    BY <2>7, <2>9
  <2>11. y = [x EXCEPT !.active[key] = None]
    BY <2>10 DEF slots
  <2> HIDE DEF y
  <2>12. /\ Sound(y) /\ y.active[key] = None /\ s.active[key] = i
         /\ \A j \in Range(y.failures) : y.read[j].key # key
    BY <1>4, <2>1, <2>2, FreedSound DEF y
  <2>13. x.read[i].flight = None /\ x.read[i].key = key
    BY <1>2, <2>3, <2>9 DEF read
  <2> HIDE DEF i, key
  <2>14. onIdle(x, i) = IF failureLasts(pruned, i) THEN [pruned EXCEPT !.failures = Kept(Append(@, i))]
                        ELSE pruned
    BY <2>10, <2>11, <2>12, <2>13 DEF onIdle, loading
  <2>15. /\ Sound(pruned) /\ pruned.active = y.active /\ pruned.read = y.read
         /\ pruned.flight = y.flight /\ Range(pruned.failures) \subseteq Range(y.failures)
    BY <2>12, PruneSound
  <2> HIDE DEF pruned
  <2>16. Sound([pruned EXCEPT !.failures = Kept(Append(@, i))])
    BY <1>2, <2>10, <2>12, <2>13, <2>15, FailureAdded
  <2>17. [pruned EXCEPT !.failures = Kept(Append(@, i))].flight = pruned.flight
    BY <2>15 DEF Sound, Typed
  <2>18. Sound(onIdle(x, i)) /\ onIdle(x, i).flight = flight
    BY <2>10, <2>14, <2>15, <2>16, <2>17
  <2>. QED BY <1>1, <2>18, CollectedSound DEF i, x
<1>. QED BY <1>3, <1>4

\* What get begins: the load f of the read i, which has no load, for a key without
\* a slot; the failures of that key are over.
Begun(s, i, key, f, reader, failure, failures) ==
    [active |-> [s.active EXCEPT ![key] = i], failures |-> failures,
     read |-> [s.read EXCEPT ![i] = [key |-> key, flight |-> f, failure |-> failure]],
     flight |-> [s.flight EXCEPT ![f] = [read |-> i, key |-> key, readers |-> {reader},
                                         aborted |-> FALSE, live |-> TRUE]],
     lru |-> s.lru]

LEMMA BegunSound ==
    ASSUME NEW s, Sound(s), NEW key \in Keys, s.active[key] = None,
           NEW i \in Reads, s.read[i].flight = None, s.read[i].key = key \/ s.read[i].key = None,
           NEW f \in Flights, s.flight[f] = NoFlight,
           NEW reader \in Readers, NEW failure \in {"none", "expired"},
           NEW q \in Seq(Reads), IsInjective(q), Len(q) <= Len(s.failures),
           Range(q) \subseteq Range(s.failures), \A j \in Range(q) : s.read[j].key # key,
           NEW r, r = Begun(s, i, key, f, reader, failure, q)
    PROVE  Sound(r)
<1> DEFINE load == [read |-> i, key |-> key, readers |-> {reader}, aborted |-> FALSE, live |-> TRUE]
           slots == [s.active EXCEPT ![key] = i]
           read == [s.read EXCEPT ![i] = [key |-> key, flight |-> f, failure |-> failure]]
           flight == [s.flight EXCEPT ![f] = load]
<1>1. r = [active |-> slots, failures |-> q, read |-> read, flight |-> flight, lru |-> s.lru]
  BY DEF Begun
<1>2. load \in LoadRecords /\ load.read = i /\ load.key = key /\ load.readers # {}
      /\ ~load.aborted /\ load.live
  BY DEF LoadRecords
<1> HIDE DEF load, slots, read, flight
<1>3. /\ r.active = slots /\ r.read = read /\ r.flight = flight /\ r.lru = s.lru
      /\ r.failures = q
  BY <1>1
<1>4. i # None /\ f # None /\ key # None
  OBVIOUS
<1>5. /\ slots \in [Keys -> Reads \cup {None}]
      /\ \A other \in Keys : slots[other] = IF other = key THEN i ELSE s.active[other]
  BY DEF Sound, Typed, slots
<1>6. /\ read \in [Reads -> ReadRecords] /\ \A j \in Reads : j # i => read[j] = s.read[j]
      /\ read[i].key = key /\ read[i].flight = f /\ read[i].failure = failure
  BY DEF Sound, Typed, ReadRecords, read
<1>7. /\ flight \in [Flights -> LoadRecords] /\ flight[f] = load
      /\ \A g \in Flights : g # f => flight[g] = s.flight[g]
  BY <1>2 DEF Sound, Typed, flight
<1>8. Typed(r)
  <2>1. s.lru \in Seq(Keys)
    BY DEF Sound, Typed
  <2>. QED BY <1>1, <1>5, <1>6, <1>7, <2>1 DEF Typed
<1>9. Slots(r)
  <2>1. SUFFICES ASSUME NEW other \in Keys, slots[other] # None
                 PROVE  read[slots[other]].key = other /\ read[slots[other]].flight # None
    BY <1>3 DEF Slots, loading
  <2>2. CASE other = key
    BY <1>4, <1>5, <1>6, <2>2
  <2>3. CASE other # key
    <3>1. slots[other] = s.active[other] /\ s.active[other] \in Reads
      BY <1>5, <2>1, <2>3 DEF Sound, Typed
    <3>2. s.read[s.active[other]].key = other /\ s.read[s.active[other]].flight # None
      BY <2>1, <3>1 DEF Sound, Slots, loading
    <3>. QED BY <1>6, <2>3, <3>1, <3>2
  <2>. QED BY <2>2, <2>3
<1>10. Loads(r)
  <2>1. SUFFICES ASSUME NEW j \in Reads, read[j].flight # None
                 PROVE  /\ read[j].key \in Keys /\ slots[read[j].key] = j
                        /\ read[j].failure # "fresh"
                        /\ flight[read[j].flight].read = j
                        /\ flight[read[j].flight].live /\ ~flight[read[j].flight].aborted
    BY <1>3 DEF Loads, loading
  <2>2. CASE j = i
    BY <1>2, <1>5, <1>6, <1>7, <2>2
  <2>3. CASE j # i
    <3>1. read[j] = s.read[j] /\ s.read[j].flight \in Flights
      BY <1>6, <2>1, <2>3 DEF ReadRecords
    <3>2. /\ s.read[j].key \in Keys /\ s.active[s.read[j].key] = j
          /\ s.read[j].failure # "fresh"
          /\ s.flight[s.read[j].flight].read = j
          /\ s.flight[s.read[j].flight].live /\ ~s.flight[s.read[j].flight].aborted
      BY <2>1, <3>1 DEF Sound, Loads, loading
    <3>3. s.read[j].flight # f /\ s.read[j].key # key
      BY <3>2 DEF NoFlight
    <3>. QED BY <1>5, <1>7, <3>1, <3>2, <3>3
  <2>. QED BY <2>2, <2>3
<1>11. Loaded(r)
  <2>1. SUFFICES ASSUME NEW g \in Flights
                 PROVE  /\ ~flight[g].live => flight[g] = NoFlight
                        /\ flight[g].live =>
                              /\ flight[g].read \in Reads /\ flight[g].key \in Keys
                              /\ read[flight[g].read].key = flight[g].key
                              /\ ~flight[g].aborted => read[flight[g].read].flight = g
                              /\ flight[g].aborted <=> flight[g].readers = {}
    BY <1>3 DEF Loaded
  <2>2. CASE g = f
    BY <1>2, <1>6, <1>7, <2>2
  <2>3. CASE g # f
    <3>1. /\ ~s.flight[g].live => s.flight[g] = NoFlight
          /\ s.flight[g].live =>
                /\ s.flight[g].read \in Reads /\ s.flight[g].key \in Keys
                /\ s.read[s.flight[g].read].key = s.flight[g].key
                /\ ~s.flight[g].aborted => s.read[s.flight[g].read].flight = g
                /\ s.flight[g].aborted <=> s.flight[g].readers = {}
      BY DEF Sound, Loaded
    <3>2. flight[g] = s.flight[g] /\ g # None
      BY <1>7, <2>3
    <3>. QED BY <1>6, <2>3, <3>1, <3>2
  <2>. QED BY <2>2, <2>3
<1>12. Failed(r)
  <2>1. Len(q) <= FailureLimit
    <3>1. Len(q) \in Nat /\ Len(s.failures) \in Nat /\ Len(s.failures) <= FailureLimit
      BY LenProperties DEF Sound, Typed, Failed
    <3>. QED BY <3>1
  <2>2. \A j \in Range(q) : /\ j \in Reads /\ s.read[j].key \in Keys /\ s.active[s.read[j].key] = None
                            /\ \A m \in Range(q) : s.read[m].key = s.read[j].key => m = j
    BY RangeOfSeq DEF Sound, Failed
  <2>3. \A j \in Range(q) : read[j].key = s.read[j].key /\ s.read[j].key # key
    BY <1>4, <1>6, <2>2
  <2>4. \A j \in Range(q) : slots[s.read[j].key] = None
    BY <1>5, <2>2, <2>3
  <2>. QED BY <1>3, <2>1, <2>2, <2>3, <2>4 DEF Failed
<1>. QED BY <1>3, <1>8, <1>9, <1>10, <1>11, <1>12 DEF Sound, Remembered

\* A reader that joins a load under way.
LEMMA JoinSound ==
    ASSUME NEW s, Sound(s), NEW f \in Flights, s.flight[f].live, ~s.flight[f].aborted,
           NEW reader \in Readers, NEW flight,
           flight = [s.flight EXCEPT ![f].readers = @ \cup {reader}],
           NEW r, r = [s EXCEPT !.flight = flight]
    PROVE  Sound(r)
<1>1. /\ flight \in [Flights -> LoadRecords]
      /\ \A g \in Flights : /\ flight[g].read = s.flight[g].read /\ flight[g].key = s.flight[g].key
                            /\ g # f => flight[g] = s.flight[g]
      /\ flight[f].readers # {} /\ flight[f].live /\ ~flight[f].aborted
  <2> DEFINE old == s.flight
             load == [old[f] EXCEPT !.readers = @ \cup {reader}]
  <2>1. old \in [Flights -> LoadRecords] /\ old[f] \in LoadRecords
    BY DEF Sound, Typed
  <2>2. flight = [old EXCEPT ![f] = load]
    OBVIOUS
  <2> DEFINE c == old[f]
  <2> HIDE DEF old, c
  <2>3. /\ load \in LoadRecords /\ load.read = old[f].read /\ load.key = old[f].key
        /\ load.readers # {}
    BY <2>1 DEF LoadRecords
  <2>4. load.live = old[f].live /\ load.aborted = old[f].aborted
    BY <2>1, Zenon DEF LoadRecords
  <2>5. old[f].live /\ ~old[f].aborted
    BY DEF old
  <2> HIDE DEF load
  <2>. QED BY <2>1, <2>2, <2>3, <2>4, <2>5 DEF old
<1>2. /\ r.active = s.active /\ r.read = s.read /\ r.flight = flight /\ r.lru = s.lru
      /\ r.failures = s.failures /\ Typed(r)
  BY <1>1 DEF Sound, Typed
<1>3. Slots(r) /\ Failed(r)
  BY <1>2 DEF Sound, Slots, Failed, loading
<1>4. Loads(r)
  <2>1. SUFFICES ASSUME NEW j \in Reads, s.read[j].flight # None
                 PROVE  /\ s.read[j].key \in Keys /\ s.active[s.read[j].key] = j
                        /\ s.read[j].failure # "fresh"
                        /\ flight[s.read[j].flight].read = j
                        /\ flight[s.read[j].flight].live /\ ~flight[s.read[j].flight].aborted
    BY <1>2 DEF Loads, loading
  <2>2. s.read[j].flight \in Flights
    BY <2>1 DEF Sound, Typed, ReadRecords
  <2>. QED BY <1>1, <2>1, <2>2 DEF Sound, Loads, loading
<1>5. Loaded(r)
  <2>1. \A g \in Flights : g = f =>
          /\ s.flight[g].read \in Reads /\ s.flight[g].key \in Keys
          /\ s.read[s.flight[g].read].key = s.flight[g].key
          /\ s.read[s.flight[g].read].flight = g
    BY DEF Sound, Loaded
  <2>. QED BY <1>1, <1>2, <2>1 DEF Sound, Loaded
<1>. QED BY <1>2, <1>3, <1>4, <1>5 DEF Sound, Remembered

\* The slot of a key: its active read, or the failure of that key, or a new read.
LEMMA SlotFacts ==
    ASSUME NEW s, Sound(s), NEW key \in Keys, \E i \in Reads : s.read[i] = NoRead,
           NEW i, i = Slot(s, key)
    PROVE  /\ i \in Reads
           /\ s.active[key] # None => i = s.active[key] /\ s.read[i].key = key /\ loading(s, i)
           /\ s.active[key] = None =>
                 /\ \/ i \in Range(s.failures) /\ s.read[i].key = key
                    \/ s.read[i] = NoRead /\ \A j \in Range(s.failures) : s.read[j].key # key
                 /\ ~loading(s, i) /\ (s.read[i].key = key \/ s.read[i].key = None)
<1> DEFINE failed == {j \in Range(s.failures) : s.read[j].key = key}
           free == {j \in Reads : s.read[j] = NoRead}
<1>1. i = IF s.active[key] # None THEN s.active[key] ELSE IF failed # {} THEN Min(failed) ELSE Min(free)
  BY DEF Slot
<1>2. Range(s.failures) \subseteq Reads /\ Reads \subseteq Nat
  BY RangeOfSeq DEF Sound, Typed
<1>3. failed \in SUBSET Nat /\ free \in SUBSET Nat /\ free # {}
  BY <1>2
<1>4. CASE s.active[key] # None
  BY <1>1, <1>4 DEF Sound, Slots, Typed
<1>5. CASE s.active[key] = None /\ failed # {}
  <2>1. i \in failed
    BY <1>1, <1>3, <1>5, MinIsMember
  <2>2. i \in Reads /\ i # None /\ s.read[i].key = key
    BY <1>2, <2>1
  <2>3. loading(s, i) => s.active[s.read[i].key] = i
    BY <2>2 DEF Sound, Loads
  <2>4. ~loading(s, i)
    BY <1>5, <2>2, <2>3
  <2>. QED BY <1>5, <2>1, <2>2, <2>4
<1>6. CASE s.active[key] = None /\ failed = {}
  <2>1. i \in free
    BY <1>1, <1>3, <1>6, MinIsMember
  <2>2. s.read[i].key = None /\ s.read[i].flight = None
    BY <2>1 DEF NoRead
  <2>. QED BY <1>6, <2>1, <2>2 DEF loading
<1>. QED BY <1>4, <1>5, <1>6

\* get: the reader joins the load of its key, or begins one.
LEMMA GetSound ==
    ASSUME NEW s, Sound(s), NEW key \in Keys, NEW reader \in Readers,
           \E i \in Reads : s.read[i] = NoRead, \E f \in Flights : s.flight[f] = NoFlight,
           NEW r, r = get(s, key, reader)
    PROVE  Sound(r) /\ HasJoined(s, r, key, reader)
<1> DEFINE pruned == prune(s)
           i == Slot(pruned, key)
           entered == IF pruned.read[i] = NoRead
                      THEN [pruned EXCEPT !.read[i].key = key, !.active[key] = i] ELSE pruned
           expired == [entered EXCEPT !.read[i].failure = IF @ = "fresh" THEN "expired" ELSE @]
           joined == Joined(expired, i, reader)
<1>1. r = Owned(joined, i)
  BY DEF get, Entered
<1>2. Sound(pruned) /\ pruned.read = s.read /\ pruned.flight = s.flight
  BY PruneSound
<1> HIDE DEF pruned
<1>3. /\ i \in Reads
      /\ pruned.active[key] # None =>
            i = pruned.active[key] /\ pruned.read[i].key = key /\ loading(pruned, i)
      /\ pruned.active[key] = None =>
            /\ \/ i \in Range(pruned.failures) /\ pruned.read[i].key = key
               \/ /\ pruned.read[i] = NoRead
                  /\ \A j \in Range(pruned.failures) : pruned.read[j].key # key
            /\ ~loading(pruned, i) /\ (pruned.read[i].key = key \/ pruned.read[i].key = None)
  BY <1>2, SlotFacts
<1> HIDE DEF i
<1> DEFINE rest == Restricted(pruned.failures, Reads \ {i})
<1>4. /\ rest \in Seq(Reads) /\ IsInjective(rest) /\ Len(rest) <= Len(pruned.failures)
      /\ Range(rest) \subseteq Range(pruned.failures) /\ i \notin Range(rest)
  <2>1. pruned.failures \in Seq(Reads) /\ IsInjective(pruned.failures)
    BY <1>2 DEF Sound, Typed, Failed
  <2>. QED BY <2>1, RestrictedFacts
<1> HIDE DEF rest
<1>5. CASE pruned.active[key] # None
  <2> DEFINE f == pruned.read[i].flight
             flight == [pruned.flight EXCEPT ![f].readers = @ \cup {reader}]
             fuller == [pruned EXCEPT !.flight = flight]
  <2>1. /\ f \in Flights /\ pruned.read[i].failure # "fresh" /\ pruned.flight[f].live
        /\ ~pruned.flight[f].aborted /\ pruned.read[i].key = key /\ pruned.active[key] = i
        /\ loading(pruned, i) /\ key # None
    BY <1>2, <1>3, <1>5 DEF Sound, Typed, Loads, loading, ReadRecords
  <2>2. expired = pruned
    <3>1. entered = pruned
      BY <2>1 DEF NoRead
    <3> DEFINE old == pruned.read
    <3>2. old \in [Reads -> ReadRecords] /\ old[i].failure # "fresh"
      BY <1>2, <2>1 DEF Sound, Typed
    <3> HIDE DEF entered, old
    <3>3. [old EXCEPT ![i].failure = IF @ = "fresh" THEN "expired" ELSE @] = old
      BY <1>3, <3>2 DEF ReadRecords
    <3>4. expired = [pruned EXCEPT !.read = [old EXCEPT ![i].failure = IF @ = "fresh" THEN "expired" ELSE @]]
      BY <3>1 DEF old
    <3>5. expired = [pruned EXCEPT !.read = old]
      BY <3>3, <3>4
    <3>6. [pruned EXCEPT !.read = old] = pruned
      BY <1>2 DEF Sound, Typed, old
    <3>. QED BY <3>5, <3>6
  <2> HIDE DEF expired
  <2>3. joined = fuller
    BY <2>1, <2>2 DEF Joined
  <2> HIDE DEF joined, f
  <2>4. Sound(fuller)
    BY <1>2, <2>1, JoinSound
  <2>5. /\ fuller.read = pruned.read /\ fuller.active = pruned.active
        /\ fuller.failures = pruned.failures
    BY <1>2 DEF Sound, Typed
  <2> HIDE DEF fuller
  <2>6. fuller.active \in [Keys -> Reads \cup {None}] /\ fuller.active[key] = i
    BY <2>1, <2>4, <2>5 DEF Sound, Typed
  <2>7. r = [fuller EXCEPT !.failures = rest, !.active[key] = i]
    BY <1>1, <2>1, <2>3, <2>5 DEF Owned, loading, rest
  <2>8. r = [fuller EXCEPT !.failures = rest]
    <3>1. [fuller.active EXCEPT ![key] = i] = fuller.active
      BY <2>6
    <3>2. r = [fuller EXCEPT !.failures = rest, !.active = [fuller.active EXCEPT ![key] = i]]
      BY <2>7
    <3>3. [fuller EXCEPT !.failures = rest, !.active = fuller.active] = [fuller EXCEPT !.failures = rest]
      BY <2>4 DEF Sound, Typed
    <3>. QED BY <3>1, <3>2, <3>3
  <2>9. Sound(r)
    BY <1>4, <2>4, <2>5, <2>8, FewerFailures
  <2>10. r.flight = flight
    BY <2>4, <2>8 DEF Sound, Typed, fuller
  <2>11. pruned.flight \in [Flights -> LoadRecords] /\ pruned.flight[f].key = key
    <3>1. pruned.flight \in [Flights -> LoadRecords]
      BY <1>2 DEF Sound, Typed
    <3>2. pruned.flight[f].read = i
      BY <1>2, <1>3, <2>1 DEF Sound, Loads, f
    <3>3. pruned.read[pruned.flight[f].read].key = pruned.flight[f].key
      BY <1>2, <2>1 DEF Sound, Loaded
    <3>. QED BY <2>1, <3>1, <3>2, <3>3
  <2>12. flight[f].readers = pruned.flight[f].readers \cup {reader} /\ flight[f].key = key
    BY <2>1, <2>11 DEF LoadRecords
  <2>13. \A g \in Flights : g # f => flight[g] = pruned.flight[g]
    BY <2>11
  <2>. QED BY <1>2, <2>1, <2>9, <2>10, <2>11, <2>12, <2>13 DEF HasJoined
<1>6. CASE pruned.active[key] = None
  <2> DEFINE free == {g \in Flights : pruned.flight[g] = NoFlight}
             f == Min(free)
             before == pruned.read[i]
             failure == IF before.failure = "fresh" THEN "expired" ELSE before.failure
             load == [read |-> i, key |-> key, readers |-> {reader}, aborted |-> FALSE, live |-> TRUE]
             named == [key |-> key, flight |-> None, failure |-> failure]
             begun == [key |-> key, flight |-> f, failure |-> failure]
             old == pruned.read
             owned == [pruned.active EXCEPT ![key] = i]
             slots == IF before = NoRead THEN owned ELSE pruned.active
  <2>1. f \in Flights /\ pruned.flight[f] = NoFlight /\ f # None
    <3>1. free \in SUBSET Nat /\ free # {}
      BY <1>2
    <3>. QED BY <3>1, MinIsMember
  <2>2. /\ old \in [Reads -> ReadRecords] /\ before \in ReadRecords /\ before.flight = None
        /\ before.key = key \/ before = NoRead
    BY <1>2, <1>3, <1>6 DEF Sound, Typed, loading
  <2>3. failure \in {"none", "expired"}
    BY <2>2 DEF ReadRecords
  <2>4. before = [key |-> before.key, flight |-> None, failure |-> before.failure]
    <3> HIDE DEF before
    <3>. QED BY <2>2 DEF ReadRecords
  <2>5. pruned = [active |-> pruned.active, failures |-> pruned.failures, read |-> old,
                  flight |-> pruned.flight, lru |-> pruned.lru]
    BY <1>2 DEF Sound, Typed
  <2> HIDE DEF old, load, owned
  <2>6. expired = [active |-> slots, failures |-> pruned.failures, read |-> [old EXCEPT ![i] = named],
                   flight |-> pruned.flight, lru |-> pruned.lru]
    <3> DEFINE read == [old EXCEPT ![i] = named]
               over(reads) == [reads EXCEPT ![i].failure = IF @ = "fresh" THEN "expired" ELSE @]
    <3>1. /\ read \in [Reads -> [key : Keys, flight : {None}, failure : {"none", "expired"}] \cup ReadRecords]
          /\ read[i] = named
      BY <1>3, <2>2, <2>3
    <3>2. CASE before = NoRead
      <4>1. [before EXCEPT !.key = key] = named
        BY <3>2 DEF NoRead
      <4>2. entered = [pruned EXCEPT !.read = [old EXCEPT ![i] = [before EXCEPT !.key = key]],
                                     !.active = owned]
        BY <3>2 DEF old, owned
      <4>3. over(read) = read
        <5> DEFINE g == [named EXCEPT !.failure = IF @ = "fresh" THEN "expired" ELSE @]
        <5>1. g = named
          BY <2>3
        <5>2. over(read) = [read EXCEPT ![i] = g]
          BY <3>1
        <5> HIDE DEF g, named, read
        <5>. QED BY <3>1, <5>1, <5>2
      <4> HIDE DEF named, read, before
      <4>4. entered = [active |-> owned, failures |-> pruned.failures, read |-> read,
                       flight |-> pruned.flight, lru |-> pruned.lru]
        BY <2>5, <4>1, <4>2 DEF read
      <4> HIDE DEF entered
      <4>5. entered.read = read
        BY <4>4
      <4>6. expired = [entered EXCEPT !.read = over(entered.read)]
        OBVIOUS
      <4> HIDE DEF over, expired
      <4>7. expired = [entered EXCEPT !.read = read]
        BY <4>3, <4>5, <4>6
      <4>. QED BY <3>2, <4>4, <4>7 DEF read
    <3>3. CASE before.key = key
      <4>1. before # NoRead /\ before = old[i]
        BY <3>3 DEF NoRead, old
      <4>2. entered = pruned
        BY <4>1 DEF old
      <4>3. over(old) = read
        <5> DEFINE g == [before EXCEPT !.failure = IF @ = "fresh" THEN "expired" ELSE @]
        <5>1. g = named
          <6>1. g = [before EXCEPT !.failure = failure]
            OBVIOUS
          <6> HIDE DEF before, failure
          <6>. QED BY <2>4, <3>3, <6>1
        <5>2. over(old) = [old EXCEPT ![i] = g]
          BY <1>3, <2>2, <4>1
        <5> HIDE DEF g, named
        <5>. QED BY <5>1, <5>2
      <4> HIDE DEF entered
      <4>4. expired = [pruned EXCEPT !.read = over(old)]
        BY <4>2 DEF old
      <4> HIDE DEF over, expired, read, before
      <4>. QED BY <2>5, <3>3, <4>1, <4>3, <4>4 DEF read
    <3>. QED BY <2>2, <3>2, <3>3
  <2> HIDE DEF expired, slots
  <2>7. /\ expired.active = slots /\ expired.failures = pruned.failures
        /\ expired.read = [old EXCEPT ![i] = named] /\ expired.flight = pruned.flight
        /\ expired.lru = pruned.lru
    BY <2>6
  <2>8. expired.read[i] = named /\ expired.read[i].flight = None /\ expired.read[i].key = key
    BY <1>3, <2>2, <2>7
  <2>9. joined = [active |-> slots, failures |-> pruned.failures, read |-> [old EXCEPT ![i] = begun],
                  flight |-> [pruned.flight EXCEPT ![f] = load], lru |-> pruned.lru]
    <3>1. joined = [expired EXCEPT !.read[i].flight = f, !.flight[f] = load]
      <4>1. {g \in Flights : expired.flight[g] = NoFlight} = free /\ ~loading(expired, i)
        BY <2>7, <2>8 DEF loading
      <4> HIDE DEF free
      <4>. QED BY <2>8, <4>1 DEF Joined, load
    <3> DEFINE read == expired.read
    <3>2. [read EXCEPT ![i].flight = f] = [old EXCEPT ![i] = begun]
      <4>1. [named EXCEPT !.flight = f] = begun
        OBVIOUS
      <4>2. [read EXCEPT ![i].flight = f] = [read EXCEPT ![i] = [named EXCEPT !.flight = f]]
        BY <2>8
      <4> HIDE DEF read, named, begun
      <4>3. [read EXCEPT ![i] = begun] = [old EXCEPT ![i] = begun]
        BY <2>7 DEF read
      <4>. QED BY <4>1, <4>2, <4>3
    <3>3. joined = [expired EXCEPT !.read = [read EXCEPT ![i].flight = f],
                                   !.flight = [expired.flight EXCEPT ![f] = load]]
      BY <3>1
    <3> HIDE DEF joined, begun, read
    <3>. QED BY <2>6, <2>7, <3>2, <3>3
  <2> HIDE DEF joined
  <2>10. /\ joined.active = slots /\ joined.failures = pruned.failures
         /\ joined.read = [old EXCEPT ![i] = begun]
    BY <2>9
  <2>11. joined.read[i] = begun /\ loading(joined, i) /\ joined.read[i].key = key
    BY <1>3, <2>1, <2>2, <2>10 DEF loading
  <2>12. r = Begun(pruned, i, key, f, reader, failure, rest)
    <3>1. r = [joined EXCEPT !.failures = rest, !.active[key] = i]
      BY <1>1, <2>10, <2>11 DEF Owned, rest
    <3>2. [slots EXCEPT ![key] = i] = owned
      BY <1>2, <1>3 DEF Sound, Typed, slots, owned
    <3>3. r = [joined EXCEPT !.failures = rest, !.active = [slots EXCEPT ![key] = i]]
      BY <2>10, <3>1
    <3> HIDE DEF failure, f
    <3>. QED BY <2>9, <3>2, <3>3 DEF Begun, owned, load, old
  <2> HIDE DEF f, failure
  <2>13. \A j \in Range(rest) : pruned.read[j].key # key
    BY <1>2, <1>3, <1>4, <1>6 DEF Sound, Failed, loading
  <2>14. pruned.read[i].flight = None /\ (pruned.read[i].key = key \/ pruned.read[i].key = None)
    BY <1>3, <1>6 DEF loading
  <2>15. Sound(r)
    BY <1>2, <1>3, <1>4, <1>6, <2>1, <2>3, <2>12, <2>13, <2>14, BegunSound
  <2>16. r.flight = [pruned.flight EXCEPT ![f] = load]
    BY <2>12 DEF Begun, load
  <2>17. pruned.flight \in [Flights -> LoadRecords]
    BY <1>2 DEF Sound, Typed
  <2>18. /\ r.flight[f] = load /\ load.readers = {reader} /\ load.key = key
         /\ \A g \in Flights : g # f => r.flight[g] = pruned.flight[g]
    BY <2>1, <2>16, <2>17 DEF load
  <2>19. pruned.flight[f].readers = {}
    BY <2>1 DEF NoFlight
  <2>20. r.flight[f].readers = pruned.flight[f].readers \cup {reader}
    BY <2>18, <2>19
  <2>. QED BY <1>2, <2>1, <2>15, <2>18, <2>19, <2>20 DEF HasJoined
<1>. QED BY <1>5, <1>6

\* What the reading of the chain tips keeps: tips that are left to take, and a
\* key of a load or a word for what each worker does.
Taking ==
    /\ reading \in [phase : {"idle", "source", "ages"}, selected : Seq(Keys), next : Nat, over : BOOLEAN,
              at : [Workers -> Keys \cup {None, "loop", "done"}]]
    /\ reading.next <= Len(reading.selected) /\ (reading.phase # "ages" => reading.next = 0)

\* What each reader waits for: the key of a load, or no key.
Asked == [x \in Readers |-> IF x = Dashboard THEN dash ELSE reading.at[x]]

\* A reader that asked for a key is among the readers of one load, of that key; any
\* other is among those of none.
Waits(s, asked) ==
    \A x \in Readers :
        /\ asked[x] \in Keys => \E f \in Flights : x \in s.flight[f].readers
        /\ \A f \in Flights : x \in s.flight[f].readers =>
              /\ asked[x] = s.flight[f].key
              /\ \A g \in Flights : x \in s.flight[g].readers => g = f

\* The workers wait for something only while the ages are read.
Idling == dash \in Keys \cup {None} /\ (reading.phase # "ages" => \A w \in Workers : reading.at[w] = None)

LEMMA LoadsHaveKeys ==
    ASSUME NEW s, Sound(s), NEW f \in Flights, s.flight[f].readers # {}
    PROVE  s.flight[f].key \in Keys
BY DEF Sound, Loaded, NoFlight

\* Readers leave, and want nothing any more.
LEMMA LeaversWait ==
    ASSUME NEW s, Sound(s), NEW asked, Waits(s, asked), NEW leaving, NEW r, HaveLeft(s, r, leaving),
           NEW asked2,
           \A x \in Readers : IF x \in leaving THEN asked2[x] \notin Keys ELSE asked2[x] = asked[x]
    PROVE  Waits(r, asked2)
<1>1. \A f \in Flights : \A x : x \in r.flight[f].readers <=>
                                x \in s.flight[f].readers /\ x \notin leaving
  BY DEF HaveLeft
<1>2. \A f \in Flights : r.flight[f].key = s.flight[f].key
  BY DEF HaveLeft
<1>3. SUFFICES ASSUME NEW x \in Readers
               PROVE  /\ asked2[x] \in Keys => \E g \in Flights : x \in r.flight[g].readers
                      /\ \A g \in Flights : x \in r.flight[g].readers =>
                            /\ asked2[x] = r.flight[g].key
                            /\ \A h \in Flights : x \in r.flight[h].readers => h = g
  BY DEF Waits
<1>4. /\ asked[x] \in Keys => \E g \in Flights : x \in s.flight[g].readers
      /\ \A g \in Flights : x \in s.flight[g].readers =>
            /\ asked[x] = s.flight[g].key
            /\ \A h \in Flights : x \in s.flight[h].readers => h = g
  BY DEF Waits
<1>5. CASE x \in leaving
  BY <1>1, <1>5
<1>6. CASE x \notin leaving
  <2>1. asked2[x] = asked[x] /\ \A f \in Flights : x \in r.flight[f].readers <=> x \in s.flight[f].readers
    BY <1>1, <1>6
  <2>. QED BY <1>2, <1>4, <2>1
<1>. QED BY <1>5, <1>6

\* Who waits for nothing may do so in another way.
LEMMA OthersWait ==
    ASSUME NEW s, Sound(s), NEW asked, Waits(s, asked), NEW asked2,
           \A x \in Readers : asked2[x] = asked[x] \/ (asked2[x] \notin Keys /\ asked[x] \notin Keys)
    PROVE  Waits(s, asked2)
<1>1. \A f \in Flights : s.flight[f].readers # {} => s.flight[f].key \in Keys
  BY LoadsHaveKeys
<1>. QED BY <1>1 DEF Waits

LEMMA EndedWait ==
    ASSUME NEW s, NEW asked, Waits(s, asked), NEW f \in Flights, NEW r,
           r.flight[f].readers = {}, \A g \in Flights : g # f => r.flight[g] = s.flight[g],
           NEW asked2,
           \A x \in Readers : IF x \in s.flight[f].readers THEN asked2[x] \notin Keys
                              ELSE asked2[x] = asked[x]
    PROVE  Waits(r, asked2)
<1>1. SUFFICES ASSUME NEW x \in Readers
               PROVE  /\ asked2[x] \in Keys => \E g \in Flights : x \in r.flight[g].readers
                      /\ \A g \in Flights : x \in r.flight[g].readers =>
                            /\ asked2[x] = r.flight[g].key
                            /\ \A h \in Flights : x \in r.flight[h].readers => h = g
  BY DEF Waits
<1>2. /\ asked[x] \in Keys => \E g \in Flights : x \in s.flight[g].readers
      /\ \A g \in Flights : x \in s.flight[g].readers =>
            /\ asked[x] = s.flight[g].key
            /\ \A h \in Flights : x \in s.flight[h].readers => h = g
  BY DEF Waits
<1>3. CASE x \in s.flight[f].readers
  <2>1. \A g \in Flights : x \notin r.flight[g].readers
    BY <1>2, <1>3
  <2>. QED BY <1>3, <2>1
<1>4. CASE x \notin s.flight[f].readers
  <2>1. asked2[x] = asked[x]
    BY <1>4
  <2>2. \A g \in Flights : /\ x \in r.flight[g].readers <=> x \in s.flight[g].readers
                           /\ x \in r.flight[g].readers => r.flight[g].key = s.flight[g].key
    BY <1>4
  <2>. QED BY <1>2, <2>1, <2>2
<1>. QED BY <1>3, <1>4

LEMMA BegunWait ==
    ASSUME NEW s, Sound(s), NEW asked, Waits(s, asked), NEW reader \in Readers, NEW key \in Keys,
           asked[reader] \notin Keys, NEW r, HasJoined(s, r, key, reader),
           NEW asked2, asked2[reader] = key, \A x \in Readers : x # reader => asked2[x] = asked[x]
    PROVE  Waits(r, asked2)
<1>1. \A g \in Flights : reader \notin s.flight[g].readers
  BY LoadsHaveKeys DEF Waits
<1>2. PICK f \in Flights :
         /\ r.flight[f].readers = s.flight[f].readers \cup {reader} /\ r.flight[f].key = key
         /\ s.flight[f].readers = {} \/ s.flight[f].key = key
         /\ \A g \in Flights : g # f => r.flight[g] = s.flight[g]
  BY DEF HasJoined
<1>3. SUFFICES ASSUME NEW x \in Readers
               PROVE  /\ asked2[x] \in Keys => \E g \in Flights : x \in r.flight[g].readers
                      /\ \A g \in Flights : x \in r.flight[g].readers =>
                            /\ asked2[x] = r.flight[g].key
                            /\ \A h \in Flights : x \in r.flight[h].readers => h = g
  BY DEF Waits
<1>4. /\ asked[x] \in Keys => \E g \in Flights : x \in s.flight[g].readers
      /\ \A g \in Flights : x \in s.flight[g].readers =>
            /\ asked[x] = s.flight[g].key
            /\ \A h \in Flights : x \in s.flight[h].readers => h = g
  BY DEF Waits
<1>5. CASE x = reader
  <2>1. \A g \in Flights : x \in r.flight[g].readers <=> g = f
    BY <1>1, <1>2, <1>5
  <2>. QED BY <1>2, <1>5, <2>1
<1>6. CASE x # reader
  <2>1. asked2[x] = asked[x]
    BY <1>6
  <2>2. \A g \in Flights : x \in r.flight[g].readers <=> x \in s.flight[g].readers
    BY <1>2, <1>6
  <2>3. \A g \in Flights : x \in s.flight[g].readers => r.flight[g].key = s.flight[g].key
    BY <1>2
  <2>. QED BY <1>4, <2>1, <2>2, <2>3
<1>. QED BY <1>5, <1>6

LoadsInvariant == Sound(shared) /\ Taking

LEMMA LoadsInitially ==
    ASSUME TipsInit
    PROVE  LoadsInvariant
<1> USE ChainTipsAssumption DEF ChainTipsAssumption
<1>1. shared = NoReads /\ reading = NoReading
  BY DEF TipsInit
<1>2. /\ shared.active = [key \in Keys |-> None] /\ shared.failures = <<>> /\ shared.lru = <<>>
      /\ shared.read = [i \in Reads |-> NoRead] /\ shared.flight = [f \in Flights |-> NoFlight]
  BY <1>1 DEF NoReads
<1>3. NoRead \in ReadRecords /\ NoFlight \in LoadRecords
  BY DEF NoRead, ReadRecords, NoFlight, LoadRecords
<1>4. NoRead.flight = None /\ ~NoFlight.live
  BY DEF NoRead, NoFlight
<1>5. Len(<<>>) = 0 /\ Range(<<>>) = {} /\ IsInjective(<<>>)
  <2>1. DOMAIN <<>> = {}
    OBVIOUS
  <2>. QED BY <2>1 DEF Range, IsInjective
<1>6. Typed(shared)
  <2> HIDE DEF NoRead, NoFlight
  <2>1. shared = [active |-> [key \in Keys |-> None], failures |-> <<>>, lru |-> <<>>,
             read |-> [i \in Reads |-> NoRead], flight |-> [f \in Flights |-> NoFlight]]
    BY <1>1 DEF NoReads
  <2>2. /\ [i \in Reads |-> NoRead] \in [Reads -> ReadRecords]
        /\ [f \in Flights |-> NoFlight] \in [Flights -> LoadRecords]
    BY <1>3
  <2>3. /\ [key \in Keys |-> None] \in [Keys -> Reads \cup {None}]
        /\ <<>> \in Seq(Reads) /\ <<>> \in Seq(Keys)
    OBVIOUS
  <2> DEFINE slots == [key \in Keys |-> None]
             read == [i \in Reads |-> NoRead]
             flight == [f \in Flights |-> NoFlight]
  <2> HIDE DEF ReadRecords, LoadRecords, slots, read, flight
  <2>4. shared = [active |-> slots, failures |-> <<>>, lru |-> <<>>, read |-> read, flight |-> flight]
    BY <2>1 DEF slots, read, flight
  <2>. QED BY <2>2, <2>3, <2>4 DEF Typed, slots, read, flight
<1>7. Slots(shared) /\ Loads(shared) /\ Loaded(shared) /\ Failed(shared) /\ Remembered(shared)
  BY <1>2, <1>4, <1>5 DEF Slots, Loads, Loaded, Failed, Remembered, loading
<1>8. Taking
  BY <1>1 DEF Taking, NoReading
<1>. QED BY <1>6, <1>7, <1>8 DEF LoadsInvariant, Sound

\* Every step of the readers keeps the reads sound.
LEMMA LoadsKept ==
    ASSUME LoadsInvariant, [TipsNext]_tipsVars
    PROVE  LoadsInvariant'
<1> USE ChainTipsAssumption DEF ChainTipsAssumption
<1>1. Sound(shared) /\ Taking
  BY DEF LoadsInvariant
<1>2. NoReading \in [phase : {"idle", "source", "ages"}, selected : Seq(Keys), next : Nat, over : BOOLEAN,
                     at : [Workers -> Keys \cup {None, "loop", "done"}]]
      /\ NoReading.next = 0 /\ NoReading.selected = <<>> /\ Len(<<>>) = 0
  BY DEF NoReading
<1>3. reading' = NoReading => Taking'
  BY <1>2 DEF Taking
<1>4. CASE Ask
  <2>1. reading' = [NoReading EXCEPT !.phase = "source"] /\ shared' = shared
    BY <1>4 DEF Ask
  <2>2. Taking'
    <3> HIDE DEF NoReading
    <3>. QED BY <1>2, <2>1 DEF Taking
  <2>. QED BY <1>1, <2>1, <2>2 DEF LoadsInvariant
<1>5. CASE Source
  <2>1. shared' = shared
    BY <1>5 DEF Source
  <2>2. ASSUME NEW tips \in Tips,
               reading' = [reading EXCEPT !.phase = "ages", !.selected = tips, !.at = [w \in Workers |-> "loop"]]
        PROVE  Taking'
    <3>1. tips \in Seq(Keys) /\ Len(tips) \in Nat
      BY LenProperties
    <3>2. reading.next <= Len(tips)
      <4>1. reading.phase = "source"
        BY <1>5 DEF Source
      <4>2. reading.next = 0
        BY <1>1, <4>1 DEF Taking
      <4>. QED BY <3>1, <4>2
    <3>3. [w \in Workers |-> "loop"] \in [Workers -> Keys \cup {None, "loop", "done"}]
      OBVIOUS
    <3>. QED BY <1>1, <2>2, <3>1, <3>2, <3>3 DEF Taking
  <2>. QED BY <1>1, <1>3, <1>5, <2>1, <2>2 DEF LoadsInvariant, Source
<1>6. ASSUME NEW w \in Workers, Take(w)
      PROVE  LoadsInvariant'
  <2> DEFINE hash == reading.selected[reading.next + 1]
             taken == [reading EXCEPT !.next = @ + 1]
  <2>1. reading.phase = "ages" /\ w \in Readers
    BY <1>6 DEF Take
  <2>2. CASE reading.next = Len(reading.selected) \/ reading.over
    <3>1. reading' = [reading EXCEPT !.at[w] = "done"] /\ shared' = shared
      BY <1>6, <2>2 DEF Take
    <3>2. Taking'
      BY <1>1, <3>1 DEF Taking
    <3>. QED BY <1>1, <3>1, <3>2 DEF LoadsInvariant
  <2>3. CASE ~(reading.next = Len(reading.selected) \/ reading.over)
    <3>1. reading.next + 1 \in 1..Len(reading.selected) /\ hash \in Keys /\ reading.next + 1 \in Nat
      <4>1. reading.selected \in Seq(Keys) /\ reading.next \in Nat /\ reading.next <= Len(reading.selected)
        BY <1>1 DEF Taking
      <4>2. Len(reading.selected) \in Nat
        BY <4>1, LenProperties
      <4>3. reading.next + 1 \in 1..Len(reading.selected) /\ reading.next + 1 \in Nat
        BY <2>3, <4>1, <4>2
      <4>. QED BY <4>1, <4>3, ElementOfSeq
    <3>2. reading' = NoReading \/ reading' = taken \/ reading' = [taken EXCEPT !.at[w] = hash]
      BY <1>6, <2>3 DEF Take
    <3>3. Taking'
      <4>1. taken \in [phase : {"idle", "source", "ages"}, selected : Seq(Keys), next : Nat, over : BOOLEAN,
                       at : [Workers -> Keys \cup {None, "loop", "done"}]]
            /\ taken.next = reading.next + 1 /\ taken.selected = reading.selected /\ taken.phase = reading.phase
        BY <1>1, <3>1 DEF Taking
      <4> HIDE DEF taken, hash
      <4>2. CASE reading' = NoReading
        BY <1>3, <4>2
      <4>3. CASE reading' = taken \/ reading' = [taken EXCEPT !.at[w] = hash]
        BY <2>1, <3>1, <4>1, <4>3 DEF Taking
      <4>. QED BY <3>2, <4>2, <4>3
    <3>4. \/ shared' = shared
          \/ Contains(shared.lru, hash) /\ shared' = [shared EXCEPT !.lru = Used(@, hash)]
          \/ shared' = Collected(prune(shared))
          \/ shared' = leave(prune(shared), Workers)
          \/ Room /\ shared' = Collected(get(shared, hash, w))
      BY <1>6, <2>3 DEF Take
    <3> HIDE DEF hash
    <3>5. Sound(shared')
      <4>1. CASE shared' = shared
        BY <1>1, <4>1
      <4>2. CASE Contains(shared.lru, hash) /\ shared' = [shared EXCEPT !.lru = Used(@, hash)]
        BY <1>1, <3>1, <4>2, UsedSound
      <4>3. CASE shared' = Collected(prune(shared))
        BY <1>1, <4>3, PruneSound, CollectedSound
      <4>4. CASE Room /\ shared' = Collected(get(shared, hash, w))
        <5>1. Sound(get(shared, hash, w))
          BY <1>1, <2>1, <3>1, <4>4, GetSound DEF Room
        <5>. QED BY <4>4, <5>1, CollectedSound
      <4>5. CASE shared' = leave(prune(shared), Workers)
        <5>1. Sound(prune(shared))
          BY <1>1, PruneSound
        <5>. QED BY <4>5, <5>1, LeaveSound
      <4>. QED BY <3>4, <4>1, <4>2, <4>3, <4>4, <4>5
    <3>. QED BY <3>3, <3>5 DEF LoadsInvariant
  <2>. QED BY <2>2, <2>3
<1>7. ASSUME NEW key \in Keys, Read(key)
      PROVE  LoadsInvariant'
  <2>1. reading' = reading /\ Dashboard \in Readers
    BY <1>7 DEF Read
  <2>2. CASE Contains(shared.lru, key) /\ shared' = [shared EXCEPT !.lru = Used(@, key)]
    BY <1>1, <2>1, <2>2, UsedSound DEF LoadsInvariant, Taking
  <2>3. CASE shared' = Collected(prune(shared))
    BY <1>1, <2>1, <2>3, PruneSound, CollectedSound DEF LoadsInvariant, Taking
  <2>4. CASE Room /\ shared' = Collected(get(shared, key, Dashboard))
    <3>1. Sound(get(shared, key, Dashboard))
      BY <1>1, <2>1, <2>4, GetSound DEF Room
    <3>. QED BY <1>1, <2>1, <2>4, <3>1, CollectedSound DEF LoadsInvariant, Taking
  <2>. QED BY <1>7, <2>2, <2>3, <2>4 DEF Read
<1>8. CASE DashboardLeaves
  BY <1>1, <1>8, LeaveSound DEF DashboardLeaves, LoadsInvariant, Taking
<1>9. ASSUME NEW f \in Flights, NEW how, LoadSettles(f, how)
      PROVE  LoadsInvariant'
  <2> DEFINE settled == settle(shared, f, how)
             told == {w \in Workers : w \in shared.flight[f].readers}
             at == [w \in Workers |-> IF w \in told THEN "loop" ELSE reading.at[w]]
  <2>1. shared.flight[f].live
    BY <1>9 DEF LoadSettles
  <2>2. \/ reading' = NoReading /\ shared' = leave(settled, Workers)
        \/ reading' = [reading EXCEPT !.at = at] /\ shared' = settled
    BY <1>9 DEF LoadSettles
  <2>3. at \in [Workers -> Keys \cup {None, "loop", "done"}]
    <3> HIDE DEF told
    <3>. QED BY <1>1 DEF Taking
  <2>4. Sound(settled)
    BY <1>1, <2>1, SettleSound
  <2> HIDE DEF settled, told, at
  <2>5. reading' = [reading EXCEPT !.at = at] => Taking'
    BY <1>1, <2>3 DEF Taking
  <2>. QED BY <1>3, <2>2, <2>4, <2>5, LeaveSound DEF LoadsInvariant
<1>10. CASE AgesEnd
  <2> DEFINE at == [w \in Workers |-> IF reading.at[w] = "done" THEN reading.at[w] ELSE "loop"]
  <2>1. reading' = [reading EXCEPT !.over = TRUE, !.at = at] /\ shared' = leave(shared, Workers)
    BY <1>10 DEF AgesEnd
  <2>2. at \in [Workers -> Keys \cup {None, "loop", "done"}]
    BY <1>1 DEF Taking
  <2> HIDE DEF at
  <2>3. Taking'
    BY <1>1, <2>1, <2>2 DEF Taking
  <2>. QED BY <1>1, <2>1, <2>3, LeaveSound DEF LoadsInvariant
<1>11. CASE Finish \/ ClientsLeave
  <2>1. reading' = NoReading /\ (shared' = shared \/ shared' = leave(shared, Workers))
    BY <1>11 DEF Finish, ClientsLeave
  <2>. QED BY <1>1, <1>3, <2>1, LeaveSound DEF LoadsInvariant
<1>12. ASSUME NEW i \in Reads, FailureEnds(i), UNCHANGED <<reading, dash>>
       PROVE  LoadsInvariant'
  BY <1>1, <1>12, FailureEndsSound DEF FailureEnds, LoadsInvariant, Taking
<1>13. CASE UNCHANGED tipsVars
  BY <1>1, <1>13 DEF tipsVars, LoadsInvariant, Taking
<1>. QED BY <1>4, <1>5, <1>6, <1>7, <1>8, <1>9, <1>10, <1>11, <1>12, <1>13 DEF TipsNext

\* The invariant of the readers of block headers and of the loads they share.
THEOREM LoadsInvariance == TipsSpec => []LoadsInvariant
<1>. QED BY LoadsInitially, LoadsKept, PTL DEF TipsSpec

\* However loads are joined, let go of, fail and settle late (KeyedSharedReads),
\* no key is loaded twice at once, and a load can be joined in its key's slot.
THEOREM LoadsOncePerKey == TipsSpec => []OneLoadPerKey
<1>1. ASSUME LoadsInvariant PROVE OneLoadPerKey
  <2>1. \A f \in Flights : Live(f) =>
          /\ shared.flight[f].read \in Reads /\ shared.read[shared.flight[f].read].flight = f /\ f # None
          /\ shared.read[shared.flight[f].read].key = shared.flight[f].key
    BY <1>1 DEF LoadsInvariant, Sound, Loaded, Live
  <2>2. \A f \in Flights : Live(f) => shared.active[shared.flight[f].key] = shared.flight[f].read
    BY <1>1, <2>1 DEF LoadsInvariant, Sound, Loads, loading
  <2>3. ASSUME NEW f \in Flights, NEW g \in Flights, Live(f), Live(g),
               shared.flight[g].key = shared.flight[f].key
        PROVE  g = f
    <3>1. shared.flight[g].read = shared.flight[f].read
      BY <2>2, <2>3
    <3>. QED BY <2>1, <2>3, <3>1
  <2>4. ASSUME NEW f \in Flights, Live(f)
        PROVE  /\ shared.active[shared.flight[f].key] = shared.flight[f].read
               /\ shared.read[shared.flight[f].read].flight = f
    BY <2>1, <2>2, <2>4
  <2> HIDE DEF Live
  <2>. QED BY <2>3, <2>4 DEF OneLoadPerKey
<1>. QED BY <1>1, LoadsInvariance, PTL

\* No slot, no read and no failure of a KeyedSharedReads is kept for ever: a slot is
\* active only while its key is loaded, and the failures stay within their limit.
THEOREM LoadsAreBounded == TipsSpec => []StorageIsBounded
<1>1. ASSUME LoadsInvariant PROVE StorageIsBounded
  <2>1. \A key \in Keys : shared.active[key] # None => loading(shared, shared.active[key])
    BY <1>1 DEF LoadsInvariant, Sound, Slots
  <2>2. \A i \in Range(shared.failures) : i \in Reads /\ i # None
    BY <1>1, RangeOfSeq DEF LoadsInvariant, Sound, Typed
  <2>3. \A i \in Range(shared.failures) : ~loading(shared, i)
    BY <1>1, <2>2 DEF LoadsInvariant, Sound, Failed, Loads
  <2>. QED BY <1>1, <2>1, <2>3 DEF LoadsInvariant, Sound, Failed, StorageIsBounded
<1>. QED BY <1>1, LoadsInvariance, PTL

LEMMA WaitsInitially ==
    ASSUME TipsInit
    PROVE  Waits(shared, Asked) /\ Idling
<1> USE ChainTipsAssumption DEF ChainTipsAssumption
<1>1. /\ \A f \in Flights : shared.flight[f].readers = {}
      /\ dash = None /\ \A w \in Workers : reading.at[w] = None
  BY DEF TipsInit, NoReads, NoFlight, NoReading
<1>2. \A x \in Readers : Asked[x] = None
  BY <1>1 DEF Asked
<1>. QED BY <1>1, <1>2 DEF Waits, Idling

\* Every step keeps the readers with the loads they wait for.
LEMMA WaitsKept ==
    ASSUME LoadsInvariant, Waits(shared, Asked), Idling, [TipsNext]_tipsVars
    PROVE  Waits(shared, Asked)' /\ Idling'
<1> USE ChainTipsAssumption DEF ChainTipsAssumption
<1>1. Sound(shared) /\ Taking
  BY DEF LoadsInvariant
<1>2. /\ \A w \in Workers : w \in Readers /\ w # Dashboard /\ Asked[w] = reading.at[w] /\ Asked'[w] = reading'.at[w]
      /\ Dashboard \in Readers /\ Asked[Dashboard] = dash /\ Asked'[Dashboard] = dash'
      /\ Readers = Workers \cup {Dashboard}
      /\ None \notin Keys /\ "loop" \notin Keys /\ "done" \notin Keys
  BY DEF Asked
<1>3. reading.at \in [Workers -> Keys \cup {None, "loop", "done"}]
  BY <1>1 DEF Taking
<1>4. NoReading.phase = "idle" /\ \A w \in Workers : NoReading.at[w] = None
  BY DEF NoReading
<1>5. SUFFICES Waits(shared', Asked') /\ Idling'
  BY DEF Waits
<1> HIDE DEF NoReading
<1>6. CASE UNCHANGED <<reading, dash>> /\ shared'.flight = shared.flight
  <2>1. Asked' = Asked
    BY <1>6 DEF Asked
  <2>. QED BY <1>6, <2>1 DEF Waits, Idling
<1>7. CASE Ask
  <2>1. /\ shared' = shared /\ dash' = dash /\ reading.phase = "idle"
        /\ reading' = [NoReading EXCEPT !.phase = "source"]
    BY <1>7 DEF Ask
  <2>2. reading'.phase = "source" /\ \A w \in Workers : reading'.at[w] = None
    BY <2>1 DEF NoReading
  <2>3. \A w \in Workers : reading.at[w] = None
    BY <2>1 DEF Idling
  <2>4. Idling' /\ Asked' = Asked
    BY <2>1, <2>2, <2>3 DEF Idling, Asked
  <2>. QED BY <2>1, <2>4
<1>8. CASE Source
  <2>1. shared' = shared /\ dash' = dash /\ reading.phase = "source"
    BY <1>8 DEF Source
  <2>2. \A w \in Workers : reading.at[w] = None
    BY <2>1 DEF Idling
  <2>3. \/ reading' = NoReading
        \/ reading'.phase = "ages" /\ \A w \in Workers : reading'.at[w] = "loop"
    <3>1. ASSUME NEW tips \in Tips,
                 reading' = [reading EXCEPT !.phase = "ages", !.selected = tips, !.at = [w \in Workers |-> "loop"]]
          PROVE  reading'.phase = "ages" /\ \A w \in Workers : reading'.at[w] = "loop"
      BY <1>1, <3>1 DEF Taking
    <3>. QED BY <1>8, <3>1 DEF Source
  <2>4. Idling' /\ \A w \in Workers : reading'.at[w] \notin Keys /\ reading.at[w] \notin Keys
    BY <1>2, <1>4, <2>1, <2>2, <2>3 DEF Idling
  <2>5. \A x \in Readers : Asked'[x] = Asked[x] \/ (Asked'[x] \notin Keys /\ Asked[x] \notin Keys)
    BY <1>2, <2>1, <2>4
  <2>6. Waits(shared', Asked')
    BY <1>1, <2>1, <2>5, OthersWait
  <2>. QED BY <2>4, <2>6
<1>9. ASSUME NEW w \in Workers, Take(w)
      PROVE  Waits(shared', Asked') /\ Idling'
  <2> DEFINE hash == reading.selected[reading.next + 1]
             taken == [reading EXCEPT !.next = @ + 1]
  <2>1. reading.phase = "ages" /\ reading.at[w] = "loop" /\ dash' = dash
    BY <1>9 DEF Take
  <2>2. taken.at = reading.at /\ taken.phase = reading.phase
    BY <1>1 DEF Taking
  <2>3. CASE reading.next = Len(reading.selected) \/ reading.over
    <3>1. shared' = shared /\ reading' = [reading EXCEPT !.at[w] = "done"]
      BY <1>9, <2>3 DEF Take
    <3>2. reading'.phase = "ages" /\ \A v \in Workers : reading'.at[v] = IF v = w THEN "done" ELSE reading.at[v]
      BY <1>1, <2>1, <3>1 DEF Taking
    <3>3. \A x \in Readers : Asked'[x] = Asked[x] \/ (Asked'[x] \notin Keys /\ Asked[x] \notin Keys)
      BY <1>2, <2>1, <3>2
    <3>4. Waits(shared', Asked')
      BY <1>1, <3>1, <3>3, OthersWait
    <3>. QED BY <2>1, <3>2, <3>4 DEF Idling
  <2>4. CASE ~(reading.next = Len(reading.selected) \/ reading.over)
    <3>1. \/ reading' = taken /\ (\/ shared' = shared
                            \/ shared' = [shared EXCEPT !.lru = Used(@, hash)]
                            \/ shared' = Collected(prune(shared)))
          \/ reading' = NoReading /\ shared' = leave(prune(shared), Workers)
          \/ Room /\ reading' = [taken EXCEPT !.at[w] = hash] /\ shared' = Collected(get(shared, hash, w))
      BY <1>9, <2>4 DEF Take
    <3> HIDE DEF hash
    <3>2. CASE reading' = taken /\ (shared' = shared \/ shared' = [shared EXCEPT !.lru = Used(@, hash)] \/ shared' = Collected(prune(shared)))
      <4>1. shared'.flight = shared.flight
        <5>1. shared' = [shared EXCEPT !.lru = Used(@, hash)] => shared'.flight = shared.flight
          BY <1>1 DEF Sound, Typed
        <5>2. shared' = Collected(prune(shared)) => shared'.flight = shared.flight
          BY <1>1, PruneSound, CollectedSound
        <5>. QED BY <3>2, <5>1, <5>2
      <4>2. Asked' = Asked /\ Idling'
        <5> HIDE DEF taken
        <5>1. reading'.at = reading.at /\ reading'.phase = "ages" /\ dash' = dash
          BY <2>1, <2>2, <3>2
        <5>. QED BY <5>1 DEF Asked, Idling
      <4>. QED BY <4>1, <4>2 DEF Waits
    <3>3. CASE Room /\ reading' = [taken EXCEPT !.at[w] = hash] /\ shared' = Collected(get(shared, hash, w))
      <4>1. hash \in Keys
        <5>1. reading.selected \in Seq(Keys) /\ reading.next \in Nat /\ reading.next <= Len(reading.selected)
          BY <1>1 DEF Taking
        <5>2. Len(reading.selected) \in Nat
          BY <5>1, LenProperties
        <5>3. reading.next + 1 \in 1..Len(reading.selected)
          BY <2>4, <5>1, <5>2
        <5>. QED BY <5>1, <5>3, ElementOfSeq DEF hash
      <4> DEFINE got == get(shared, hash, w)
      <4>0. got = get(shared, hash, w) /\ w \in Readers
        BY <1>2
      <4> HIDE DEF got
      <4>2. Sound(got) /\ HasJoined(shared, got, hash, w)
        BY <1>1, <3>3, <4>0, <4>1, GetSound DEF Room
      <4>3. shared'.flight = got.flight
        BY <3>3, <4>2, CollectedSound DEF got
      <4>4. /\ reading'.phase = "ages"
            /\ \A v \in Workers : reading'.at[v] = IF v = w THEN hash ELSE reading.at[v]
        <5>1. taken \in [phase : {"idle", "source", "ages"}, selected : Seq(Keys), next : Nat, over : BOOLEAN,
                         at : [Workers -> Keys \cup {None, "loop", "done"}]]
          <6>1. reading.next + 1 \in Nat
            BY <1>1 DEF Taking
          <6>. QED BY <1>1, <6>1 DEF Taking
        <5> HIDE DEF taken
        <5>. QED BY <2>1, <2>2, <3>3, <5>1
      <4>5. /\ Asked[w] \notin Keys /\ Asked'[w] = hash
            /\ \A x \in Readers : x # w => Asked'[x] = Asked[x]
        BY <1>2, <2>1, <4>4
      <4>6. Waits(shared', Asked')
        <5>1. w \in Readers /\ Asked[w] \notin Keys
          BY <1>2, <4>5
        <5>2. HasJoined(shared, shared', hash, w)
          BY <4>2, <4>3 DEF HasJoined
        <5>. QED BY <1>1, <4>1, <4>5, <5>1, <5>2, BegunWait
      <4>. QED BY <2>1, <4>4, <4>6 DEF Idling
    <3>4. CASE reading' = NoReading /\ shared' = leave(prune(shared), Workers)
      <4> DEFINE pruned == prune(shared)
      <4>1. Sound(pruned) /\ pruned.flight = shared.flight
        BY <1>1, PruneSound
      <4>2. shared' = leave(pruned, Workers)
        BY <3>4
      <4> HIDE DEF pruned
      <4>3. Waits(pruned, Asked)
        BY <4>1 DEF Waits
      <4>4. HaveLeft(pruned, shared', Workers)
        BY <4>1, <4>2, LeaveSound
      <4>5. \A x \in Readers : IF x \in Workers THEN Asked'[x] \notin Keys ELSE Asked'[x] = Asked[x]
        BY <1>2, <1>4, <2>1, <3>4
      <4>6. Waits(shared', Asked')
        BY <4>1, <4>3, <4>4, <4>5, LeaversWait
      <4>. QED BY <1>4, <2>1, <3>4, <4>6 DEF Idling
    <3>. QED BY <3>1, <3>2, <3>3, <3>4
  <2>. QED BY <2>3, <2>4
<1>10. ASSUME NEW key \in Keys, Read(key)
       PROVE  Waits(shared', Asked') /\ Idling'
  <2>1. reading' = reading /\ dash = None
    BY <1>10 DEF Read
  <2>2. CASE dash' = dash /\ (shared' = [shared EXCEPT !.lru = Used(@, key)] \/ shared' = Collected(prune(shared)))
    <3>1. shared' = [shared EXCEPT !.lru = Used(@, key)] => shared'.flight = shared.flight
      BY <1>1 DEF Sound, Typed
    <3>2. shared' = Collected(prune(shared)) => shared'.flight = shared.flight
      BY <1>1, PruneSound, CollectedSound
    <3>. QED BY <1>6, <2>1, <2>2, <3>1, <3>2
  <2>3. CASE Room /\ shared' = Collected(get(shared, key, Dashboard)) /\ dash' = key
    <3> DEFINE got == get(shared, key, Dashboard)
    <3>0. got = get(shared, key, Dashboard) /\ Dashboard \in Readers
      BY <1>2
    <3> HIDE DEF got
    <3>1. Sound(got) /\ HasJoined(shared, got, key, Dashboard)
      BY <1>1, <2>3, <3>0, GetSound DEF Room
    <3>2. shared'.flight = got.flight
      BY <2>3, <3>1, CollectedSound DEF got
    <3>3. /\ Asked[Dashboard] \notin Keys /\ Asked'[Dashboard] = key
          /\ \A x \in Readers : x # Dashboard => Asked'[x] = Asked[x]
      BY <1>2, <2>1, <2>3
    <3>4. Waits(shared', Asked')
      <4>1. HasJoined(shared, shared', key, Dashboard)
        BY <3>1, <3>2 DEF HasJoined
      <4>. QED BY <1>1, <3>0, <3>3, <4>1, BegunWait
    <3>. QED BY <2>1, <2>3, <3>4 DEF Idling
  <2>. QED BY <1>10, <2>2, <2>3 DEF Read
<1>11. CASE DashboardLeaves
  <2>1. reading' = reading /\ dash' = None /\ shared' = leave(shared, {Dashboard})
    BY <1>11 DEF DashboardLeaves
  <2>2. \A x \in Readers : IF x \in {Dashboard} THEN Asked'[x] \notin Keys ELSE Asked'[x] = Asked[x]
    BY <1>2, <2>1
  <2>3. HaveLeft(shared, shared', {Dashboard})
    BY <1>1, <2>1, LeaveSound
  <2>4. Waits(shared', Asked')
    BY <1>1, <2>2, <2>3, LeaversWait
  <2>. QED BY <2>1, <2>4 DEF Idling
<1>12. ASSUME NEW f \in Flights, NEW how, LoadSettles(f, how)
       PROVE  Waits(shared', Asked') /\ Idling'
  <2> DEFINE settled == settle(shared, f, how)
             readers == shared.flight[f].readers
             told == {w \in Workers : w \in readers}
             at == [w \in Workers |-> IF w \in told THEN "loop" ELSE reading.at[w]]
             between == [x \in Readers |-> IF x \in readers THEN IF x = Dashboard THEN None ELSE "loop"
                                           ELSE Asked[x]]
  <2>1. /\ shared.flight[f].live /\ dash' = IF Dashboard \in readers THEN None ELSE dash
        /\ \/ reading' = NoReading /\ shared' = leave(settled, Workers)
           \/ reading' = [reading EXCEPT !.at = at] /\ shared' = settled
    BY <1>12 DEF LoadSettles
  <2>2. /\ Sound(settled) /\ settled.flight[f].readers = {}
        /\ \A g \in Flights : g # f => settled.flight[g] = shared.flight[g]
    BY <1>1, <2>1, SettleSound
  <2> HIDE DEF settled
  <2>3. Waits(settled, between)
    BY <1>2, <2>2, EndedWait
  <2>4. readers # {} => reading.phase = "ages" \/ readers \subseteq {Dashboard}
    <3>1. ASSUME NEW w \in Workers, w \in readers PROVE reading.phase = "ages"
      <4>1. reading.at[w] \in Keys
        BY <1>1, <1>2, <3>1, LoadsHaveKeys DEF Waits
      <4>. QED BY <1>2, <4>1 DEF Idling
    <3>2. readers \subseteq Readers
      BY <1>1 DEF Sound, Typed, LoadRecords
    <3>. QED BY <1>2, <3>1, <3>2
  <2>5. CASE reading' = NoReading /\ shared' = leave(settled, Workers)
    <3>1. HaveLeft(settled, shared', Workers)
      BY <2>2, <2>5, LeaveSound
    <3>2. \A x \in Readers : IF x \in Workers THEN Asked'[x] \notin Keys ELSE Asked'[x] = between[x]
      BY <1>2, <1>4, <2>1, <2>5
    <3> HIDE DEF between
    <3>3. Waits(shared', Asked')
      BY <2>2, <2>3, <3>1, <3>2, LeaversWait
    <3>. QED BY <1>4, <2>1, <2>5, <3>3 DEF Idling
  <2>6. CASE reading' = [reading EXCEPT !.at = at] /\ shared' = settled
    <3>1. reading'.at = at /\ reading'.phase = reading.phase
      BY <1>1, <2>6 DEF Taking
    <3>2. \A x \in Readers : Asked'[x] = between[x]
      BY <1>2, <2>1, <3>1
    <3> HIDE DEF between
    <3>3. Waits(shared', Asked')
      BY <2>3, <2>6, <3>2 DEF Waits
    <3>4. reading.phase # "ages" => \A w \in Workers : at[w] = reading.at[w]
      BY <1>2, <2>4
    <3>. QED BY <2>1, <3>1, <3>3, <3>4 DEF Idling
  <2>. QED BY <2>1, <2>5, <2>6
<1>13. CASE AgesEnd \/ ClientsLeave
  <2>1. dash' = dash /\ shared' = leave(shared, Workers)
    BY <1>13 DEF AgesEnd, ClientsLeave
  <2>2. /\ \A w \in Workers : reading'.at[w] \in {None, "loop", "done"}
        /\ reading'.phase # "ages" => \A w \in Workers : reading'.at[w] = None
    <3>1. CASE AgesEnd
      <4> DEFINE at == [w \in Workers |-> IF reading.at[w] = "done" THEN reading.at[w] ELSE "loop"]
      <4>1. reading.phase = "ages" /\ reading' = [reading EXCEPT !.over = TRUE, !.at = at]
        BY <3>1 DEF AgesEnd
      <4>2. reading'.phase = "ages" /\ reading'.at = at
        BY <1>1, <4>1 DEF Taking
      <4>. QED BY <4>2
    <3>2. CASE ClientsLeave
      BY <1>4, <3>2 DEF ClientsLeave
    <3>. QED BY <1>13, <3>1, <3>2
  <2>3. HaveLeft(shared, shared', Workers)
    BY <1>1, <2>1, LeaveSound
  <2>4. \A x \in Readers : IF x \in Workers THEN Asked'[x] \notin Keys ELSE Asked'[x] = Asked[x]
    BY <1>2, <2>1, <2>2
  <2>5. Waits(shared', Asked')
    BY <1>1, <2>3, <2>4, LeaversWait
  <2>. QED BY <2>1, <2>2, <2>5 DEF Idling
<1>14. CASE Finish
  <2>1. shared' = shared /\ dash' = dash /\ reading' = NoReading /\ \A w \in Workers : reading.at[w] = "done"
    BY <1>14 DEF Finish
  <2>2. \A x \in Readers : Asked'[x] = Asked[x] \/ (Asked'[x] \notin Keys /\ Asked[x] \notin Keys)
    BY <1>2, <1>4, <2>1
  <2>3. Waits(shared', Asked')
    BY <1>1, <2>1, <2>2, OthersWait
  <2>. QED BY <1>4, <2>1, <2>3 DEF Idling
<1>15. ASSUME NEW i \in Reads, FailureEnds(i), UNCHANGED <<reading, dash>>
       PROVE  Waits(shared', Asked') /\ Idling'
  <2>1. shared'.flight = shared.flight
    BY <1>1, <1>15 DEF FailureEnds, Sound, Typed
  <2>. QED BY <1>6, <1>15, <2>1
<1>16. CASE UNCHANGED tipsVars
  BY <1>6, <1>16 DEF tipsVars
<1>. QED BY <1>7, <1>8, <1>9, <1>10, <1>11, <1>12, <1>13, <1>14, <1>15, <1>16 DEF TipsNext

\* Whoever joins or leaves, and however loads end, a worker of the chain tips, or the
\* dashboard, waits for a load exactly while it is among the readers of it.
THEOREM NoReaderIsForgotten == TipsSpec => []TipsTypeOK
<1>1. ASSUME LoadsInvariant, Waits(shared, Asked), Idling
      PROVE  TipsTypeOK
  <2> USE ChainTipsAssumption DEF ChainTipsAssumption
  <2>1. Sound(shared)
    BY <1>1 DEF LoadsInvariant
  <2>2. \A x \in Readers : Asked[x] \in Keys <=> \E f \in Flights : x \in shared.flight[f].readers
    BY <1>1, <2>1, LoadsHaveKeys DEF Waits
  <2>3. /\ \A w \in Workers : Asked[w] = reading.at[w] /\ w \in Readers
        /\ Asked[Dashboard] = dash /\ Dashboard \in Readers
    BY DEF Asked
  <2>4. dash # None <=> dash \in Keys
    BY <1>1 DEF Idling
  <2>5. \A f \in Flights : shared.flight[f].live <=> shared.flight[f] # NoFlight
    <3>1. ~NoFlight.live
      BY DEF NoFlight
    <3>. QED BY <2>1, <3>1 DEF Sound, Loaded
  <2>. QED BY <2>2, <2>3, <2>4, <2>5 DEF TipsTypeOK
<1>. QED BY <1>1, LoadsInitially, LoadsKept, WaitsInitially, WaitsKept, PTL DEF TipsSpec

\* The cache of the values that were loaded keeps to its limit, each key once.
THEOREM ValuesAreBounded == TipsSpec => [](Len(shared.lru) <= LruLimit /\ IsInjective(shared.lru))
<1>1. LoadsInvariant => Len(shared.lru) <= LruLimit /\ IsInjective(shared.lru)
  BY DEF LoadsInvariant, Sound, Remembered
<1>. QED BY <1>1, LoadsInvariance, PTL

=============================================================================
