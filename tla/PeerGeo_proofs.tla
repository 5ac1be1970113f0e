--------------------------- MODULE PeerGeo_proofs ---------------------------
(***************************************************************************)
(* Theorems about PeerGeo, for any finite set of hosts and any clock.      *)
(*                                                                         *)
(* What a host has in the service's maps fits together whatever the two    *)
(* workers hold.  The invariant says, beyond that, what keeps a worker's   *)
(* late step from breaking it: a queue holds a host once and only while    *)
(* its job is in the map, a job that a worker has taken is not queued      *)
(* too, and a lookup under way knows that its host's entry has nothing     *)
(* left to store.  An object that is made is none of those still held, so  *)
(* a worker tells its own owner and job from those that replaced them.     *)
(***************************************************************************)
EXTENDS PeerGeo, FiniteSetTheorems, TLAPS

\* The types of an owner, a write, what each worker holds, and a refresh.
Owners == [id : Ids \cup {0}, kind : {"public", "private"}, read : {"hit", "other", "error"}, behind : BOOLEAN]
Saves == [id : Ids, obs : 1..MaxClock]
Tasks == [step : {"waiting", "fetching"}, host : Hosts, owner : Ids, job : Ids]
Savings == [host : Hosts, owner : Ids, save : Saves]
Refreshes == [step : {"idle", "hydrating"}, found : [Hosts -> {"absent", "public", "private"}],
              todo : SUBSET Hosts]

\* The maps, the queues, the tasks and the tables have their types.
TypeInv ==
    /\ hosts \in [Hosts -> Owners] /\ cache \in [Hosts -> Entries]
    /\ job \in [Hosts -> Ids \cup {0}] /\ geoQueue \in Seq(Hosts) /\ task \in Tasks \cup {NoTask}
    /\ saveJob \in [Hosts -> Saves \cup {NoSave}] /\ saveQueue \in Seq(Hosts)
    /\ saving \in Savings \cup {NoSaving}
    /\ refresh \in Refreshes
    /\ db \in [Hosts -> 0..MaxClock] /\ oversized \subseteq {h \in Hosts : db[h] # 0}
    /\ import \in {"none", "committed", "lost"}
    /\ enabled \in BOOLEAN /\ clock \in 1..MaxClock /\ stopped \in BOOLEAN

\* An owner o, its entry c, its lookup j and its write s belong together: nothing
\* is there for a host that is not, and no job for a private one.
Fits(o, c, j, s) ==
    /\ o.id = 0 => o.kind = "public" /\ o.read # "hit" /\ c = NoEntry /\ j = 0 /\ s = NoSave
    /\ o.kind = "private" <=> c.status = "private"
    /\ o.kind = "private" => j = 0 /\ s = NoSave

\* An owner that has read the row d of the current dataset serves it, or a newer one.
UpToDate(o, c, d) ==
    o.read = "hit" /\ ~o.behind /\ o.kind = "public" => c.status = "ok" /\ c.at >= d

\* A queue holds hosts of S, each once.
Queued(queue, S) == /\ \A i \in DOMAIN queue : queue[i] \in S
                    /\ \A i, j \in DOMAIN queue : queue[i] = queue[j] => i = j

\* What holds of every host by itself.
Locals ==
    /\ \A h \in Hosts : Fits(hosts[h], cache[h], job[h], saveJob[h])
    /\ import = "none" => \A h \in Hosts : UpToDate(hosts[h], cache[h], db[h])

\* The hosts queued for a lookup have a job, and not the one the worker holds.
LookupInv ==
    /\ Queued(geoQueue, {h \in Hosts : job[h] # 0})
    /\ task # NoTask /\ job[task.host] = task.job => task.host \notin ToSet(geoQueue)

\* The same of the writes, while one waits for a busy database.
SaveInv ==
    /\ Queued(saveQueue, {h \in Hosts : saveJob[h] # NoSave})
    /\ saving # NoSaving /\ saveJob[saving.host] = saving.save => saving.host \notin ToSet(saveQueue)

\* While its owner stays, a lookup's host has nothing left to store, so that its answer
\* replaces none, and the host of a write that waits is public.
WaitInv ==
    /\ task # NoTask /\ hosts[task.host].id = task.owner => cache[task.host].unsaved = 0
    /\ saving # NoSaving /\ hosts[saving.host].id = saving.owner => hosts[saving.host].kind = "public"

\* A refresh that is under way knows every host that has an owner, and of those it
\* has found every one but those still to hydrate has one.
RefreshInv ==
    refresh.step = "hydrating" =>
      \A h \in Hosts :
        /\ hosts[h].id # 0 => hosts[h].kind = refresh.found[h]
        /\ h \in refresh.todo => refresh.found[h] # "absent"
        /\ refresh.found[h] # "absent" /\ h \notin refresh.todo => hosts[h].id # 0

\* The inductive invariant.
IInv == TypeInv /\ Locals /\ LookupInv /\ SaveInv /\ WaitInv /\ RefreshInv

\* A step lets an answer go only when the database holds it or something newer.
Kept ==
    \A h \in Hosts :
         /\ cache[h].unsaved # 0 /\ cache'[h].unsaved # cache[h].unsaved
         /\ hosts'[h].id = hosts[h].id
         => db'[h] >= cache[h].unsaved

\* What every step must establish.
Sound == IInv' /\ Kept

-----------------------------------------------------------------------------
(* The values.                                                             *)

\* The identities: no host is None, no identity is 0, and a third one is always left.
LEMMA IdFacts ==
    /\ Ids \subseteq Nat /\ 0 \notin Ids /\ None \notin Hosts
    /\ \A i, j \in Ids \cup {0} : \E k \in Ids : k # i /\ k # j
  BY PeerGeoAssumption

\* The clock has a first tick.
LEMMA ConstantFacts == MaxClock \in Nat /\ MaxClock # 0
  BY PeerGeoAssumption

\* The type of an entry, without the relation between its fields.
EntryTypes == [status : {"none", "unavailable", "private", "ok"}, at : 0..MaxClock, unsaved : 0..MaxClock]

\* An entry is ok exactly when it has an observation; only then may one be unsaved.
LEMMA EntryIs ==
    ASSUME NEW c
    PROVE  c \in Entries <=> /\ c \in EntryTypes
                             /\ c.status = "ok" => c.at # 0
                             /\ c.status # "ok" => c.at = 0 /\ c.unsaved = 0
<1>1. ASSUME c \in Entries
      PROVE  c \in EntryTypes /\ (c.status = "ok" => c.at # 0) /\ (c.status # "ok" => c.at = 0 /\ c.unsaved = 0)
  <2>0. 0 \in 0..MaxClock /\ 0 \notin 1..MaxClock /\ 1..MaxClock \subseteq 0..MaxClock
    BY ConstantFacts
  <2>1. CASE c \in [status : {"ok"}, at : 1..MaxClock, unsaved : 0..MaxClock]
    <3>1. c = [status |-> c.status, at |-> c.at, unsaved |-> c.unsaved]
          /\ c.status = "ok" /\ c.at \in 1..MaxClock /\ c.unsaved \in 0..MaxClock
      BY <2>1
    <3>2. c.at \in 0..MaxClock /\ c.at # 0
      BY <2>0, <3>1
    <3>. QED BY <3>1, <3>2 DEF EntryTypes
  <2>2. CASE c \in {NoEntry, Unavailable, [NoEntry EXCEPT !.status = "private"]}
    BY <2>0, <2>2 DEF EntryTypes, NoEntry, Unavailable
  <2>. QED BY <1>1, <2>1, <2>2 DEF Entries
<1>2. ASSUME c \in EntryTypes, c.status = "ok" => c.at # 0, c.status # "ok" => c.at = 0 /\ c.unsaved = 0
      PROVE  c \in Entries
  <2>1. c = [status |-> c.status, at |-> c.at, unsaved |-> c.unsaved]
        /\ c.status \in {"none", "unavailable", "private", "ok"} /\ c.at \in 0..MaxClock /\ c.unsaved \in 0..MaxClock
    BY <1>2 DEF EntryTypes
  <2>2. CASE c.status = "ok"
    <3>1. c.at \in 1..MaxClock
      BY <1>2, <2>1, <2>2, ConstantFacts
    <3>. QED BY <2>1, <2>2, <3>1 DEF Entries
  <2>3. CASE c.status # "ok"
    <3>1. c.at = 0 /\ c.unsaved = 0
      BY <1>2, <2>3
    <3>. QED BY <2>1, <2>3, <3>1 DEF Entries, NoEntry, Unavailable
  <2>. QED BY <2>2, <2>3
<1>. QED BY <1>1, <1>2

\* cacheGeo with a row: the entry is at least as new, and keeps what is unsaved.
LEMMA CacheRowFacts ==
    ASSUME NEW c \in Entries, NEW at \in 1..MaxClock, NEW r, r = CacheRow(c, at)
    PROVE  r \in Entries /\ r.status = "ok" /\ r.unsaved = c.unsaved /\ r.at >= at
<1>1. c \in EntryTypes /\ (c.status = "ok" => c.at # 0) /\ (c.status # "ok" => c.at = 0 /\ c.unsaved = 0)
  BY EntryIs
<1>2. at \in 0..MaxClock /\ at # 0 /\ at \in Nat /\ MaxClock \in Nat
  BY ConstantFacts
<1>3. CASE c.status = "ok" /\ at < c.at
  <2>1. r = c
    BY <1>3 DEF CacheRow
  <2>. QED BY <1>1, <1>2, <1>3, <2>1 DEF EntryTypes
<1>4. CASE ~(c.status = "ok" /\ at < c.at)
  <2>1. r = [c EXCEPT !.status = "ok", !.at = at]
    BY <1>4 DEF CacheRow
  <2>2. r \in EntryTypes /\ r.status = "ok" /\ r.unsaved = c.unsaved /\ r.at = at
    BY <1>1, <1>2, <2>1 DEF EntryTypes
  <2>. QED BY <1>2, <2>2, EntryIs
<1>. QED BY <1>3, <1>4

\* cacheGeo with an answer: the entry is no older, and the answer is unsaved.
LEMMA CacheApiFacts ==
    ASSUME NEW c \in Entries, NEW at \in 1..MaxClock, NEW u \in 1..MaxClock,
           NEW r, r = [CacheApi(c, at) EXCEPT !.unsaved = u]
    PROVE  /\ r \in Entries /\ r.status = "ok" /\ r.unsaved = u
           /\ c.status = "ok" => r.at >= c.at
<1>1. c \in EntryTypes /\ (c.status = "ok" => c.at # 0) /\ (c.status # "ok" => c.at = 0 /\ c.unsaved = 0)
  BY EntryIs
<1>2. at \in 0..MaxClock /\ at # 0 /\ at \in Nat /\ MaxClock \in Nat /\ u \in 0..MaxClock
  BY ConstantFacts
<1> DEFINE b == CacheApi(c, at)
<1>3. b \in EntryTypes /\ b.status = "ok" /\ b.at # 0 /\ (c.status = "ok" => b.at >= c.at)
  <2>1. CASE c.status = "ok" /\ at <= c.at
    <3>1. b = c
      BY <2>1 DEF CacheApi
    <3>. QED BY <1>1, <2>1, <3>1 DEF EntryTypes
  <2>2. CASE ~(c.status = "ok" /\ at <= c.at)
    <3>1. b = [c EXCEPT !.status = "ok", !.at = at]
      BY <2>2 DEF CacheApi
    <3> HIDE DEF b
    <3>2. b \in EntryTypes /\ b.status = "ok" /\ b.at = at
      BY <1>1, <1>2, <3>1 DEF EntryTypes
    <3>3. c.at \in 0..MaxClock
      BY <1>1 DEF EntryTypes
    <3>. QED BY <1>2, <2>2, <3>2, <3>3
  <2>. QED BY <2>1, <2>2
<1>4. r = [b EXCEPT !.unsaved = u]
  OBVIOUS
<1> HIDE DEF b
<1>5. r \in EntryTypes /\ r.status = "ok" /\ r.unsaved = u /\ r.at = b.at
  BY <1>2, <1>3, <1>4 DEF EntryTypes
<1>. QED BY <1>3, <1>5, EntryIs

\* A miss leaves a known location as it is.
LEMMA CacheMissFacts ==
    ASSUME NEW c \in Entries, NEW r, r = CacheMiss(c)
    PROVE  /\ r \in Entries /\ r.unsaved = c.unsaved /\ (c.status # "private" => r.status # "private")
           /\ c.status = "ok" => r = c
<1>1. c \in EntryTypes /\ (c.status = "ok" => c.at # 0) /\ (c.status # "ok" => c.at = 0 /\ c.unsaved = 0)
  BY EntryIs
<1>2. CASE c.status = "ok"
  BY <1>2 DEF CacheMiss
<1>3. CASE c.status # "ok"
  <2>1. r = [c EXCEPT !.status = "unavailable"]
    BY <1>3 DEF CacheMiss
  <2>2. r \in EntryTypes /\ r.status = "unavailable" /\ r.unsaved = c.unsaved /\ r.at = c.at
    BY <1>1, <2>1 DEF EntryTypes
  <2>. QED BY <1>1, <1>3, <2>2, EntryIs
<1>. QED BY <1>2, <1>3

\* A read never loses an unsaved answer, and one that hits leaves the row or newer.
LEMMA AfterReadFacts ==
    ASSUME TypeInv, NEW h \in Hosts, NEW res \in Reads(h), cache[h].status # "private",
           NEW c, c = AfterRead(h, res)
    PROVE  /\ c \in Entries /\ c.unsaved = cache[h].unsaved /\ c.status # "private"
           /\ res = "hit" => c.status = "ok" /\ c.at >= db[h]
<1>1. cache[h] \in Entries /\ db[h] \in 0..MaxClock
  BY DEF TypeInv
<1>2. cache[h].status # "ok" => cache[h].unsaved = 0
  BY <1>1, EntryIs
<1>3. CASE res = "hit"
  <2>1. db[h] # 0
    BY <1>3 DEF Reads
  <2>2. db[h] \in 1..MaxClock
    BY <1>1, <2>1, ConstantFacts
  <2>3. c = CacheRow(cache[h], db[h])
    BY <1>3 DEF AfterRead
  <2>. QED BY <1>1, <2>2, <2>3, CacheRowFacts
<1>4. CASE res = "rejected"
  <2>1. c = CacheRejected(cache[h])
    BY <1>4 DEF AfterRead
  <2>2. c = cache[h] \/ (c = Unavailable /\ cache[h].unsaved = 0)
    BY <2>1 DEF CacheRejected
  <2>3. Unavailable \in Entries /\ Unavailable.unsaved = 0 /\ Unavailable.status = "unavailable"
    BY DEF Entries, Unavailable, NoEntry
  <2>. QED BY <1>1, <1>4, <2>2, <2>3
<1>5. CASE res \notin {"hit", "rejected"}
  BY <1>1, <1>5 DEF AfterRead
<1>. QED BY <1>3, <1>4, <1>5

\* What an owner notes of a read leaves who it is.
LEMMA NotedFacts ==
    ASSUME NEW o \in Owners, NEW res, NEW n, n = Noted(o, res)
    PROVE  /\ n \in Owners /\ n.id = o.id /\ n.kind = o.kind
           /\ n.read = "hit" <=> res = "hit"
<1> DEFINE read == IF res \in {"hit", "error"} THEN res ELSE "other"
<1>1. read \in {"hit", "other", "error"} /\ (read = "hit" <=> res = "hit")
  OBVIOUS
<1>2. n = [o EXCEPT !.read = read, !.behind = FALSE]
  BY DEF Noted
<1> HIDE DEF read
<1>. QED BY <1>1, <1>2 DEF Owners

-----------------------------------------------------------------------------
(* The queues.                                                             *)

\* The head of a queue is in none of the places behind it.
LEMMA TailFacts ==
    ASSUME NEW S, NEW q \in Seq(Hosts), q # <<>>, Queued(q, S)
    PROVE  /\ Tail(q) \in Seq(Hosts) /\ Queued(Tail(q), S) /\ Head(q) \in S /\ Head(q) \in Hosts
           /\ Head(q) \notin ToSet(Tail(q)) /\ ToSet(Tail(q)) \subseteq ToSet(q)
<1>1. Len(q) \in Nat /\ Len(q) # 0 /\ DOMAIN q = 1..Len(q) /\ Head(q) = q[1]
  OBVIOUS
<1>2. Tail(q) \in Seq(Hosts) /\ Len(Tail(q)) = Len(q) - 1 /\ DOMAIN Tail(q) = 1..(Len(q) - 1)
      /\ \A i \in 1..(Len(q) - 1) : Tail(q)[i] = q[i + 1]
  BY <1>1
<1>3. 1 \in DOMAIN q /\ \A i \in DOMAIN Tail(q) : i + 1 \in DOMAIN q /\ i + 1 # 1
  BY <1>1, <1>2
<1>4. Queued(Tail(q), S)
  <2>1. ASSUME NEW i \in DOMAIN Tail(q) PROVE Tail(q)[i] \in S
    BY <1>2, <1>3 DEF Queued
  <2>2. ASSUME NEW i \in DOMAIN Tail(q), NEW j \in DOMAIN Tail(q), Tail(q)[i] = Tail(q)[j] PROVE i = j
    <3>1. i + 1 = j + 1
      BY <1>2, <1>3, <2>2 DEF Queued
    <3>2. i \in Nat /\ j \in Nat
      BY <1>2
    <3>. QED BY <3>1, <3>2
  <2>. QED BY <2>1, <2>2 DEF Queued
<1>5. Head(q) \in S /\ Head(q) \in Hosts
  BY <1>1, <1>3 DEF Queued
<1>6. ASSUME NEW i \in DOMAIN Tail(q) PROVE Tail(q)[i] # Head(q) /\ Tail(q)[i] \in ToSet(q)
  BY <1>1, <1>2, <1>3 DEF Queued, ToSet
<1>. QED BY <1>2, <1>4, <1>5, <1>6 DEF ToSet

\* A host that was not queued may be.
LEMMA AppendFacts ==
    ASSUME NEW S, NEW q \in Seq(Hosts), Queued(q, S), NEW h \in Hosts, h \notin S,
           NEW T, S \subseteq T, h \in T
    PROVE  Append(q, h) \in Seq(Hosts) /\ Queued(Append(q, h), T) /\ ToSet(Append(q, h)) = ToSet(q) \cup {h}
<1> DEFINE r == Append(q, h)
<1>1. Len(q) \in Nat /\ DOMAIN q = 1..Len(q)
  OBVIOUS
<1>2. r \in Seq(Hosts) /\ DOMAIN r = 1..(Len(q) + 1) /\ r[Len(q) + 1] = h /\ \A i \in 1..Len(q) : r[i] = q[i]
  BY <1>1
<1>3. ASSUME NEW i \in DOMAIN r PROVE (i \in DOMAIN q /\ r[i] = q[i] /\ r[i] \in S) \/ (i = Len(q) + 1 /\ r[i] = h)
  BY <1>1, <1>2 DEF Queued
<1>4. \A i \in DOMAIN q : i \in DOMAIN r
  BY <1>1, <1>2
<1>5. Queued(r, T)
  BY <1>3 DEF Queued
<1>6. Len(q) + 1 \in DOMAIN r
  BY <1>1, <1>2
<1>. QED BY <1>2, <1>3, <1>4, <1>5, <1>6 DEF ToSet

\* Any order of a set of hosts is a queue of them.
LEMMA OrderFacts ==
    ASSUME NEW S \in SUBSET Hosts, NEW r \in SetToSeqs(S)
    PROVE  r \in Seq(Hosts) /\ Queued(r, S) /\ ToSet(r) \subseteq S
<1>1. Cardinality(S) \in Nat
  BY PeerGeoAssumption, FS_Subset, FS_CardinalityType
<1>2. r \in [1..Cardinality(S) -> S] /\ \A i, j \in 1..Cardinality(S) : i # j => r[i] # r[j]
  BY DEF SetToSeqs
<1>3. r \in Seq(S)
  BY <1>1, <1>2
<1>4. r \in Seq(Hosts) /\ DOMAIN r = 1..Cardinality(S)
  BY <1>2, <1>3
<1>. QED BY <1>2, <1>4 DEF Queued, ToSet

\* What stays of a queue is a queue of those who stay.
LEMMA StayingFacts ==
    ASSUME NEW q \in Seq(Hosts), NEW gone, NEW r \in Staying(q, gone)
    PROVE  r \in Seq(Hosts) /\ Queued(r, ToSet(q) \ gone) /\ ToSet(r) \subseteq ToSet(q) \ gone
<1>1. ToSet(q) \ gone \in SUBSET Hosts
  BY DEF ToSet
<1>2. r \in SetToSeqs(ToSet(q) \ gone)
  BY DEF Staying
<1>. QED BY <1>1, <1>2, OrderFacts

\* Two queues of different hosts make one.
LEMMA JoinFacts ==
    ASSUME NEW S, NEW T, NEW q \in Seq(Hosts), Queued(q, S), NEW r \in Seq(Hosts), Queued(r, T),
           S \cap T = {}, NEW u, u = q \o r
    PROVE  u \in Seq(Hosts) /\ Queued(u, S \cup T) /\ ToSet(u) \subseteq ToSet(q) \cup ToSet(r)
<1>1. Len(q) \in Nat /\ Len(r) \in Nat /\ DOMAIN q = 1..Len(q) /\ DOMAIN r = 1..Len(r)
  OBVIOUS
<1>2. u \in Seq(Hosts) /\ DOMAIN u = 1..(Len(q) + Len(r))
      /\ \A i \in 1..(Len(q) + Len(r)) : u[i] = IF i <= Len(q) THEN q[i] ELSE r[i - Len(q)]
  BY <1>1
<1>3. ASSUME NEW i \in DOMAIN u
      PROVE  \/ i \in DOMAIN q /\ u[i] = q[i] /\ u[i] \in S
             \/ i - Len(q) \in DOMAIN r /\ u[i] = r[i - Len(q)] /\ u[i] \in T /\ i \in Nat
  <2>1. CASE i <= Len(q)
    BY <1>1, <1>2, <2>1 DEF Queued
  <2>2. CASE ~(i <= Len(q))
    <3>1. i - Len(q) \in 1..Len(r) /\ i \in Nat
      BY <1>1, <1>2, <2>2
    <3>. QED BY <1>1, <1>2, <2>2, <3>1 DEF Queued
  <2>. QED BY <2>1, <2>2
<1>4. ASSUME NEW i \in DOMAIN u, NEW j \in DOMAIN u, u[i] = u[j] PROVE i = j
  <2>1. CASE u[i] \in S
    BY <1>3, <1>4, <2>1 DEF Queued
  <2>2. CASE u[i] \notin S
    <3>1. i - Len(q) = j - Len(q) /\ i \in Nat /\ j \in Nat
      BY <1>3, <1>4, <2>2 DEF Queued
    <3>. QED BY <1>1, <3>1
  <2>. QED BY <2>1, <2>2
<1>5. Queued(u, S \cup T)
  BY <1>3, <1>4 DEF Queued
<1>. QED BY <1>2, <1>3, <1>5 DEF ToSet

-----------------------------------------------------------------------------
(* Jobs.                                                                   *)

\* The absent values are none of the present ones.
LEMMA Nothing ==
    /\ NoSave \notin Saves /\ NoTask \notin Tasks /\ NoSaving \notin Savings
    /\ NoTask.host \notin Hosts /\ NoSaving.host \notin Hosts
    /\ NoEntry \in Entries /\ NoEntry.unsaved = 0 /\ NoEntry.status = "none"
<1>1. NoSave \notin Saves
  BY IdFacts DEF NoSave, Saves
<1>2. NoTask \notin Tasks /\ NoTask.host \notin Hosts
  BY IdFacts DEF NoTask, Tasks
<1>3. NoSaving \notin Savings /\ NoSaving.host \notin Hosts
  BY IdFacts DEF NoSaving, Savings
<1>4. NoEntry \in Entries /\ NoEntry.unsaved = 0 /\ NoEntry.status = "none"
  BY DEF NoEntry, Entries
<1>. QED BY <1>1, <1>2, <1>3, <1>4

\* A write that is made is not the one that waits.
LEMMA NewSaveFacts ==
    ASSUME TypeInv, NEW h \in Hosts, NEW c \in Entries, c.unsaved # 0, NEW s, s = NewSave(h, c)
    PROVE  s \in Saves /\ s # NoSave /\ (saving.host = h => s # saving.save)
<1> DEFINE i == CHOOSE i \in Ids : saving.host = h => saving.save.id # i
<1>1. \E k \in Ids : saving.host = h => saving.save.id # k
  <2>1. CASE saving.host = h
    <3>1. saving \in Savings
      BY <2>1, Nothing DEF TypeInv
    <3>2. saving.save.id \in Ids
      BY <3>1 DEF Savings, Saves
    <3> DEFINE x == saving.save.id
    <3>3. PICK k \in Ids : k # x /\ k # 0
      <4>1. x \in Ids
        BY <3>2
      <4> HIDE DEF x
      <4>. QED BY <4>1, IdFacts
    <3>. QED BY <3>3
  <2>2. CASE saving.host # h
    BY <2>2, IdFacts
  <2>. QED BY <2>1, <2>2
<1>2. i \in Ids /\ (saving.host = h => saving.save.id # i)
  BY <1>1
<1>3. s = [id |-> i, obs |-> c.unsaved]
  BY DEF NewSave
<1> HIDE DEF i
<1>4. c.unsaved \in 1..MaxClock
  <2>1. c.unsaved \in 0..MaxClock
    BY EntryIs DEF EntryTypes
  <2>. QED BY <2>1, ConstantFacts
<1>5. s \in Saves /\ s.id = i
  BY <1>2, <1>3, <1>4 DEF Saves
<1>. QED BY <1>2, <1>5, Nothing

\* A lookup that is made is not the one the worker holds.
LEMMA NewJobFacts ==
    ASSUME TypeInv, NEW h \in Hosts
    PROVE  NewJob(h) \in Ids /\ NewJob(h) # 0 /\ (task.host = h => NewJob(h) # task.job)
<1>1. \E k \in Ids : task.host = h => task.job # k
  <2>1. CASE task.host = h
    <3>1. task \in Tasks
      BY <2>1, Nothing DEF TypeInv
    <3>2. task.job \in Ids
      BY <3>1 DEF Tasks
    <3>3. PICK k \in Ids : k # task.job /\ k # 0
      BY <3>2, IdFacts
    <3>. QED BY <3>3
  <2>2. CASE task.host # h
    BY <2>2, IdFacts
  <2>. QED BY <2>1, <2>2
<1>2. NewJob(h) \in Ids /\ (task.host = h => task.job # NewJob(h))
  BY <1>1 DEF NewJob
<1>. QED BY <1>2, IdFacts

\* An owner that is made is neither that of the lookup nor that of the write.
LEMMA NewOwnerFacts ==
    ASSUME TypeInv, NEW h \in Hosts, NEW o, o = NewOwner(h)
    PROVE  /\ o \in Owners /\ o.id \in Ids /\ o.id # 0 /\ o.read = "other" /\ o.kind = "public"
           /\ task.host = h => o.id # task.owner
           /\ saving.host = h => o.id # saving.owner
<1> DEFINE i == CHOOSE i \in Unheld(h) : TRUE
<1>1. Unheld(h) # {}
  <2> DEFINE a == IF task.host = h THEN task.owner ELSE 0
             b == IF saving.host = h THEN saving.owner ELSE 0
  <2>1. a \in Ids \cup {0}
    <3>1. CASE task.host = h
      <4>1. task \in Tasks
        BY <3>1, Nothing DEF TypeInv
      <4>. QED BY <3>1, <4>1 DEF Tasks
    <3>. QED BY <3>1
  <2>2. b \in Ids \cup {0}
    <3>1. CASE saving.host = h
      <4>1. saving \in Savings
        BY <3>1, Nothing DEF TypeInv
      <4>. QED BY <3>1, <4>1 DEF Savings
    <3>. QED BY <3>1
  <2>3. PICK k \in Ids : k # a /\ k # b
    BY <2>1, <2>2, IdFacts
  <2>4. k \in Unheld(h)
    BY <2>3 DEF Unheld
  <2>. QED BY <2>4
<1>2. i \in Unheld(h)
  BY <1>1
<1>3. o = [NoOwner EXCEPT !.id = i]
  BY DEF NewOwner
<1> HIDE DEF i
<1>4. i \in Ids /\ i # 0 /\ (task.host = h => task.owner # i) /\ (saving.host = h => saving.owner # i)
  BY <1>2, IdFacts DEF Unheld
<1>5. o \in Owners /\ o.id = i /\ o.read = "other" /\ o.kind = "public"
  BY <1>3, <1>4 DEF NoOwner, Owners
<1>. QED BY <1>4, <1>5

\* queueSave: one job per host, and none is another's.
LEMMA QueueSaveFacts ==
    ASSUME TypeInv, SaveInv, NEW h \in Hosts, NEW c \in Entries, c.unsaved # 0,
           QueueSave(h, c) \/ UNCHANGED <<saveJob, saveQueue>>, saving' = saving
    PROVE  /\ saveJob' \in [Hosts -> Saves \cup {NoSave}] /\ saveQueue' \in Seq(Hosts) /\ SaveInv'
           /\ \A g \in Hosts : g # h => saveJob'[g] = saveJob[g]
<1>1. CASE UNCHANGED <<saveJob, saveQueue>>
  BY <1>1 DEF TypeInv, SaveInv, Queued, ToSet
<1>2. CASE saveJob[h] = NoSave /\ saveJob' = [saveJob EXCEPT ![h] = NewSave(h, c)]
           /\ saveQueue' = Append(saveQueue, h)
  <2> DEFINE s == NewSave(h, c)
             S == {g \in Hosts : saveJob[g] # NoSave}
             T == {g \in Hosts : saveJob'[g] # NoSave}
  <2>1. s \in Saves /\ s # NoSave /\ (saving.host = h => s # saving.save)
    BY NewSaveFacts
  <2>2. saveJob \in [Hosts -> Saves \cup {NoSave}] /\ saveQueue \in Seq(Hosts)
    BY DEF TypeInv
  <2> HIDE DEF s
  <2>3. saveJob' \in [Hosts -> Saves \cup {NoSave}] /\ saveJob'[h] = s
        /\ \A g \in Hosts : g # h => saveJob'[g] = saveJob[g]
    BY <1>2, <2>1, <2>2 DEF s
  <2>4. S \subseteq T /\ h \in T /\ h \notin S
    BY <1>2, <2>1, <2>3
  <2>5. Queued(saveQueue, S)
    BY DEF SaveInv
  <2> HIDE DEF S, T
  <2>6. saveQueue' \in Seq(Hosts) /\ Queued(saveQueue', T) /\ ToSet(saveQueue') = ToSet(saveQueue) \cup {h}
    <3>1. S \subseteq T /\ h \in T /\ h \notin S /\ Queued(saveQueue, S) /\ saveQueue \in Seq(Hosts)
      BY <2>2, <2>4, <2>5
    <3>2. Append(saveQueue, h) \in Seq(Hosts) /\ Queued(Append(saveQueue, h), T)
          /\ ToSet(Append(saveQueue, h)) = ToSet(saveQueue) \cup {h}
      BY <3>1, AppendFacts
    <3>3. saveQueue' = Append(saveQueue, h)
      BY <1>2
    <3>. QED BY <3>2, <3>3
  <2>7. saving # NoSaving /\ saveJob'[saving.host] = saving.save => saving.host \notin ToSet(saveQueue')
    <3> SUFFICES ASSUME saving # NoSaving, saveJob'[saving.host] = saving.save PROVE saving.host \notin ToSet(saveQueue')
      OBVIOUS
    <3>1. saving.host \in Hosts
      BY DEF TypeInv, Savings
    <3>2. saving.host # h
      BY <2>1, <2>3
    <3>. QED BY <2>3, <2>6, <3>1, <3>2 DEF SaveInv
  <2>. QED BY <2>3, <2>6, <2>7 DEF SaveInv, T
<1>. QED BY <1>1, <1>2 DEF QueueSave

\* A lookup ends: its own job, if it has not been replaced, leaves the map.
LEMMA EndLookupFacts ==
    ASSUME TypeInv, NEW t, t.host \in Hosts, t.job \in Ids, EndLookup(t), geoQueue' \in Seq(Hosts),
           Queued(geoQueue', {g \in Hosts : job[g] # 0}), job[t.host] = t.job => t.host \notin ToSet(geoQueue')
    PROVE  /\ job' \in [Hosts -> Ids \cup {0}] /\ task' = NoTask /\ LookupInv'
           /\ \A g \in Hosts : job'[g] = job[g] \/ job'[g] = 0
           /\ \A g \in Hosts : g # t.host => job'[g] = job[g]
<1>1. job \in [Hosts -> Ids \cup {0}] /\ task' = NoTask
      /\ job' = [job EXCEPT ![t.host] = IF job[t.host] = t.job THEN 0 ELSE job[t.host]]
  BY DEF TypeInv, EndLookup
<1>2. /\ job' \in [Hosts -> Ids \cup {0}]
      /\ \A g \in Hosts : job'[g] = job[g] \/ job'[g] = 0
      /\ \A g \in Hosts : g # t.host => job'[g] = job[g]
      /\ job'[t.host] = IF job[t.host] = t.job THEN 0 ELSE job[t.host]
  BY <1>1
<1>3. ASSUME NEW i \in DOMAIN geoQueue', geoQueue'[i] \in {g \in Hosts : job[g] # 0}
      PROVE  geoQueue'[i] \in {g \in Hosts : job'[g] # 0}
  <2>1. CASE geoQueue'[i] # t.host
    BY <1>2, <1>3, <2>1
  <2>2. CASE geoQueue'[i] = t.host
    <3>1. job[t.host] # t.job
      BY <2>2 DEF ToSet
    <3>. QED BY <1>2, <1>3, <2>2, <3>1
  <2>. QED BY <2>1, <2>2
<1>4. Queued(geoQueue', {g \in Hosts : job'[g] # 0})
  BY <1>3 DEF Queued
<1>. QED BY <1>1, <1>2, <1>4 DEF LookupInv

-----------------------------------------------------------------------------
(* Steps of one host.                                                      *)

\* A step that touches one host's maps only.
LEMMA OneHost ==
    ASSUME Locals, NEW h \in Hosts,
           \A g \in Hosts : g # h => /\ hosts'[g] = hosts[g] /\ cache'[g] = cache[g] /\ job'[g] = job[g]
                                     /\ saveJob'[g] = saveJob[g] /\ db'[g] = db[g],
           Fits(hosts'[h], cache'[h], job'[h], saveJob'[h]),
           import' = import, import = "none" => UpToDate(hosts'[h], cache'[h], db'[h])
    PROVE  Locals'
<1>1. ASSUME NEW g \in Hosts PROVE Fits(hosts'[g], cache'[g], job'[g], saveJob'[g])
  BY DEF Locals
<1>2. ASSUME import = "none", NEW g \in Hosts PROVE UpToDate(hosts'[g], cache'[g], db'[g])
  BY <1>2 DEF Locals
<1>. QED BY <1>1, <1>2 DEF Locals

\* The owners stay, and whether a host is public.
SameOwners == \A h \in Hosts : hosts'[h].id = hosts[h].id /\ hosts'[h].kind = hosts[h].kind

\* A refresh under way does not mind a step that leaves the owners.
LEMMA OwnersStay ==
    ASSUME RefreshInv, SameOwners, refresh' = refresh PROVE RefreshInv'
  BY DEF RefreshInv, SameOwners

\* Nor do the workers, if it stores nothing new in the entry of a lookup's host.
LEMMA WaitsStay ==
    ASSUME TypeInv, WaitInv, SameOwners, saving' \in {saving, NoSaving},
           \/ task' = NoTask \/ cache'[task'.host].unsaved = 0
           \/ /\ task' = task
              /\ task # NoTask => cache'[task.host].unsaved = cache[task.host].unsaved
    PROVE  WaitInv'
<1>1. task # NoTask => task.host \in Hosts
  BY DEF TypeInv, Tasks
<1>2. saving # NoSaving => saving.host \in Hosts
  BY DEF TypeInv, Savings
<1>3. task' # NoTask /\ hosts'[task'.host].id = task'.owner => cache'[task'.host].unsaved = 0
  BY <1>1 DEF WaitInv, SameOwners
<1>4. saving' # NoSaving /\ hosts'[saving'.host].id = saving'.owner => hosts'[saving'.host].kind = "public"
  BY <1>2 DEF WaitInv, SameOwners
<1>. QED BY <1>3, <1>4 DEF WaitInv

\* The writes stay.
LEMMA SaveStays == ASSUME SaveInv, UNCHANGED saveVars PROVE SaveInv'
  BY DEF SaveInv, saveVars, Queued, ToSet

\* The lookups stay.
LEMMA LookupStays == ASSUME LookupInv, UNCHANGED lookupVars PROVE LookupInv'
  BY DEF LookupInv, lookupVars, Queued, ToSet

\* A public host with an owner: what a read of the database leaves.
LEMMA ReadStep ==
    ASSUME TypeInv, Locals, RefreshInv, NEW h \in Hosts, hosts[h].kind = "public", hosts[h].id # 0,
           NEW res, hosts' = [hosts EXCEPT ![h] = Noted(hosts[h], res)],
           NEW k \in Entries, k.status # "private", res = "hit" => k.status = "ok" /\ k.at >= db[h],
           cache' = [cache EXCEPT ![h] = k],
           \A g \in Hosts : g # h => job'[g] = job[g] /\ saveJob'[g] = saveJob[g],
           UNCHANGED <<db, import, refresh>>
    PROVE  /\ hosts' \in [Hosts -> Owners] /\ cache' \in [Hosts -> Entries]
           /\ Locals' /\ RefreshInv' /\ SameOwners
           /\ cache'[h] = k /\ \A g \in Hosts : g # h => cache'[g] = cache[g]
<1> DEFINE o == Noted(hosts[h], res)
<1>1. hosts \in [Hosts -> Owners] /\ cache \in [Hosts -> Entries]
  BY DEF TypeInv
<1>2. o \in Owners /\ o.id = hosts[h].id /\ o.kind = hosts[h].kind /\ (o.read = "hit" <=> res = "hit")
  <2> DEFINE w == hosts[h]
  <2>1. w \in Owners /\ o = Noted(w, res)
    BY <1>1
  <2> HIDE DEF w, o
  <2>2. o \in Owners /\ o.id = w.id /\ o.kind = w.kind /\ (o.read = "hit" <=> res = "hit")
    BY <2>1, NotedFacts
  <2>. QED BY <2>2 DEF w
<1> HIDE DEF o
<1>3. hosts' \in [Hosts -> Owners] /\ hosts'[h] = o /\ \A g \in Hosts : g # h => hosts'[g] = hosts[g]
  BY <1>1, <1>2 DEF o
<1>4. cache' \in [Hosts -> Entries] /\ cache'[h] = k /\ \A g \in Hosts : g # h => cache'[g] = cache[g]
  BY <1>1
<1>5. Fits(hosts'[h], cache'[h], job'[h], saveJob'[h])
  BY <1>2, <1>3, <1>4 DEF Fits
<1>6. UpToDate(hosts'[h], cache'[h], db'[h])
  BY <1>2, <1>3, <1>4 DEF UpToDate
<1>7. Locals'
  BY <1>3, <1>4, <1>5, <1>6, OneHost
<1>8. SameOwners
  BY <1>2, <1>3 DEF SameOwners
<1>. QED BY <1>3, <1>4, <1>7, <1>8, OwnersStay

-----------------------------------------------------------------------------
(* Lookups.                                                                *)

\* A lookup that nothing has superseded reads the row and decides.
LEMMA DecideSound ==
    ASSUME IInv, NEW t, t.host \in Hosts, t.owner \in Ids, t.job \in Ids,
           hosts[t.host].id = t.owner, job[t.host] = t.job,
           NEW next, [t EXCEPT !.step = next] \in Tasks,
           [t EXCEPT !.step = next].host = t.host, [t EXCEPT !.step = next].owner = t.owner,
           geoQueue' \in Seq(Hosts), Queued(geoQueue', {g \in Hosts : job[g] # 0}),
           t.host \notin ToSet(geoQueue'),
           Decide(t, next), UNCHANGED <<saving, refresh, dbVars, worldVars>>
    PROVE  Sound
<1> DEFINE h == t.host
<1>1. PICK res \in Reads(h) : LET c == AfterRead(h, res) IN
      /\ hosts' = [hosts EXCEPT ![h] = Noted(@, res)]
      /\ \/ /\ c.unsaved # 0
            /\ cache' = [cache EXCEPT ![h] = c]
            /\ QueueSave(h, c) \/ UNCHANGED <<saveJob, saveQueue>>
            /\ EndLookup(t)
         \/ /\ c.unsaved = 0
            /\ cache' = [cache EXCEPT ![h] = IF res = "error" THEN c ELSE CacheMiss(c)]
            /\ UNCHANGED <<saveJob, saveQueue>>
            /\ EndLookup(t)
         \/ /\ MayNeedLookup(c) /\ res # "error" /\ enabled
            /\ cache' = [cache EXCEPT ![h] = c]
            /\ UNCHANGED <<saveJob, saveQueue, job>>
            /\ task' = [t EXCEPT !.step = next]
  BY DEF Decide
<1> DEFINE c == AfterRead(h, res)
           k == cache'[h]
<1>2. TypeInv /\ Locals /\ LookupInv /\ SaveInv /\ WaitInv /\ RefreshInv /\ h \in Hosts
  BY DEF IInv
<1>3. hosts \in [Hosts -> Owners] /\ cache \in [Hosts -> Entries] /\ Fits(hosts[h], cache[h], job[h], saveJob[h])
  BY <1>2 DEF TypeInv, Locals
<1>4. hosts[h].id # 0 /\ job[h] # 0 /\ hosts[h].kind = "public" /\ cache[h].status # "private"
  <2>1. hosts[h].id # 0 /\ job[h] # 0
    BY IdFacts
  <2>2. hosts[h].kind \in {"public", "private"}
    BY <1>3 DEF Owners
  <2>. QED BY <1>3, <2>1, <2>2 DEF Fits
<1>5. /\ c \in Entries /\ c.unsaved = cache[h].unsaved /\ c.status # "private"
      /\ res = "hit" => c.status = "ok" /\ c.at >= db[h]
  BY <1>2, <1>4, AfterReadFacts
<1>6. CacheMiss(c) \in Entries /\ CacheMiss(c).unsaved = c.unsaved /\ CacheMiss(c).status # "private"
      /\ (c.status = "ok" => CacheMiss(c) = c)
  <2> HIDE DEF c
  <2>. QED BY <1>5, CacheMissFacts
<1>7. /\ k \in Entries /\ k.unsaved = cache[h].unsaved /\ k.status # "private"
      /\ res = "hit" => k.status = "ok" /\ k.at >= db[h]
      /\ cache' = [cache EXCEPT ![h] = k]
  <2>1. cache' = [cache EXCEPT ![h] = c] \/ cache' = [cache EXCEPT ![h] = CacheMiss(c)]
    BY <1>1
  <2> HIDE DEF c
  <2>. QED BY <1>3, <1>5, <1>6, <2>1
<1>8. \/ /\ c.unsaved # 0 /\ EndLookup(t) /\ (QueueSave(h, c) \/ UNCHANGED <<saveJob, saveQueue>>)
      \/ EndLookup(t) /\ UNCHANGED <<saveJob, saveQueue>>
      \/ c.unsaved = 0 /\ task' = [t EXCEPT !.step = next] /\ UNCHANGED <<saveJob, saveQueue, job>>
  BY <1>1 DEF MayNeedLookup
<1>9. hosts' = [hosts EXCEPT ![h] = Noted(hosts[h], res)] /\ UNCHANGED <<saving, refresh, dbVars, worldVars>>
  BY <1>1
<1> HIDE DEF c, k, h
<1>10. /\ saveJob' \in [Hosts -> Saves \cup {NoSave}] /\ saveQueue' \in Seq(Hosts) /\ SaveInv'
       /\ \A g \in Hosts : g # h => saveJob'[g] = saveJob[g]
  <2>1. CASE UNCHANGED <<saveJob, saveQueue>>
    <3>1. UNCHANGED saveVars
      BY <1>9, <2>1 DEF saveVars
    <3>. QED BY <1>2, <2>1, <3>1, SaveStays DEF TypeInv
  <2>2. CASE c.unsaved # 0 /\ QueueSave(h, c)
    BY <1>2, <1>5, <1>9, <2>2, QueueSaveFacts
  <2>. QED BY <1>8, <2>1, <2>2
<1>11. /\ job' \in [Hosts -> Ids \cup {0}] /\ task' \in Tasks \cup {NoTask} /\ LookupInv'
       /\ \A g \in Hosts : g # h => job'[g] = job[g]
       /\ task' = NoTask \/ (task'.host = h /\ c.unsaved = 0)
  <2>1. CASE EndLookup(t)
    BY <1>2, <2>1, EndLookupFacts DEF h
  <2>2. CASE c.unsaved = 0 /\ task' = [t EXCEPT !.step = next] /\ UNCHANGED job
    <3>1. job' \in [Hosts -> Ids \cup {0}]
      BY <1>2, <2>2 DEF TypeInv
    <3>2. task'.host = h /\ task' \in Tasks
      BY <2>2 DEF h
    <3>3. LookupInv'
      BY <2>2, <3>2 DEF LookupInv, h
    <3>. QED BY <2>2, <3>1, <3>2, <3>3
  <2>. QED BY <1>8, <2>1, <2>2
<1>12. /\ hosts' \in [Hosts -> Owners] /\ cache' \in [Hosts -> Entries]
       /\ Locals' /\ RefreshInv' /\ SameOwners
       /\ cache'[h] = k /\ \A g \in Hosts : g # h => cache'[g] = cache[g]
  <2>1. UNCHANGED <<db, import, refresh>>
    BY <1>9 DEF dbVars
  <2>. QED BY <1>2, <1>4, <1>7, <1>9, <1>10, <1>11, <2>1, ReadStep
<1>13. WaitInv'
  <2>1. task' = NoTask \/ cache'[task'.host].unsaved = 0
    BY <1>5, <1>7, <1>11, <1>12
  <2>. QED BY <1>2, <1>9, <1>12, <2>1, WaitsStay
<1>14. TypeInv'
  BY <1>2, <1>9, <1>10, <1>11, <1>12 DEF TypeInv, dbVars, worldVars
<1>15. Kept
  BY <1>7, <1>12 DEF Kept
<1>. QED BY <1>10, <1>11, <1>12, <1>13, <1>14, <1>15 DEF Sound, IInv

\* geoLoop takes the head of the queue, which is in it no more.
LEMMA StartLookupSound == ASSUME IInv, StartLookup PROVE Sound
<1> DEFINE h == Head(geoQueue)
           t == [step |-> "start", host |-> h, owner |-> hosts[h].id, job |-> job[h]]
           S == {g \in Hosts : job[g] # 0}
<1>1. geoQueue # <<>> /\ geoQueue' = Tail(geoQueue) /\ Decide(t, "waiting")
      /\ UNCHANGED <<saving, refresh, dbVars, worldVars>>
  BY DEF StartLookup
<1>2. geoQueue \in Seq(Hosts) /\ Queued(geoQueue, S)
  BY DEF IInv, TypeInv, LookupInv
<1>3. Tail(geoQueue) \in Seq(Hosts) /\ Queued(Tail(geoQueue), S) /\ h \in S /\ h \notin ToSet(Tail(geoQueue))
  <2> HIDE DEF S
  <2>. QED BY <1>1, <1>2, TailFacts
<1>4. h \in Hosts /\ job[h] # 0 /\ job[h] \in Ids /\ hosts[h].id \in Ids
  <2>1. h \in Hosts /\ job[h] # 0
    BY <1>3
  <2>2. job[h] \in Ids \cup {0} /\ hosts[h] \in Owners /\ Fits(hosts[h], cache[h], job[h], saveJob[h])
    BY <2>1 DEF IInv, TypeInv, Locals
  <2>. QED BY <2>1, <2>2 DEF Fits, Owners
<1> HIDE DEF h
<1>5. [t EXCEPT !.step = "waiting"] = [step |-> "waiting", host |-> h, owner |-> hosts[h].id, job |-> job[h]]
  OBVIOUS
<1>6. [t EXCEPT !.step = "waiting"] \in Tasks /\ [t EXCEPT !.step = "waiting"].host = t.host
      /\ [t EXCEPT !.step = "waiting"].owner = t.owner
  BY <1>4, <1>5 DEF Tasks
<1>7. t.host = h /\ t.owner = hosts[h].id /\ t.job = job[h]
  OBVIOUS
<1>8. geoQueue' \in Seq(Hosts) /\ Queued(geoQueue', {g \in Hosts : job[g] # 0}) /\ t.host \notin ToSet(geoQueue')
  BY <1>1, <1>3, <1>7
<1> HIDE DEF t
<1>. QED BY <1>1, <1>4, <1>6, <1>7, <1>8, DecideSound

\* A lookup that was superseded ends without an answer.
LEMMA AbandonSound == ASSUME IInv, task # NoTask, Abandon PROVE Sound
<1>1. TypeInv /\ Locals /\ LookupInv /\ SaveInv /\ WaitInv /\ RefreshInv
  BY DEF IInv
<1>2. task \in Tasks
  BY <1>1 DEF TypeInv
<1>3. task.host \in Hosts /\ task.job \in Ids
  BY <1>2 DEF Tasks
<1>4. EndLookup(task) /\ UNCHANGED <<hosts, cache, geoQueue, saveVars, refresh, dbVars, worldVars>>
  BY DEF Abandon
<1>5. geoQueue' \in Seq(Hosts) /\ Queued(geoQueue', {g \in Hosts : job[g] # 0})
      /\ (job[task.host] = task.job => task.host \notin ToSet(geoQueue'))
  BY <1>1, <1>4 DEF TypeInv, LookupInv
<1>6. /\ job' \in [Hosts -> Ids \cup {0}] /\ task' = NoTask /\ LookupInv'
      /\ \A g \in Hosts : job'[g] = job[g] \/ job'[g] = 0
  BY <1>1, <1>3, <1>4, <1>5, EndLookupFacts
<1>7. Locals'
  <2>1. ASSUME NEW g \in Hosts PROVE Fits(hosts[g], cache[g], job'[g], saveJob[g])
    BY <1>1, <1>6 DEF Locals, Fits
  <2>. QED BY <1>1, <1>4, <2>1 DEF Locals, saveVars, dbVars
<1>8. SameOwners
  BY <1>4 DEF SameOwners
<1>9. SaveInv' /\ RefreshInv' /\ WaitInv'
  <2>1. saving' = saving /\ refresh' = refresh /\ UNCHANGED saveVars
    BY <1>4 DEF saveVars
  <2>. QED BY <1>1, <1>6, <1>8, <2>1, SaveStays, OwnersStay, WaitsStay
<1>10. TypeInv'
  BY <1>1, <1>4, <1>6 DEF TypeInv, saveVars, dbVars, worldVars
<1>11. Kept
  BY <1>4 DEF Kept
<1>. QED BY <1>6, <1>7, <1>9, <1>10, <1>11 DEF Sound, IInv

\* A lookup's wait is over: it goes on, or was superseded and ends.
LEMMA WakeSound == ASSUME IInv, Wake PROVE Sound
<1>1. task \in Tasks /\ task # NoTask
  BY DEF IInv, TypeInv, Wake, NoTask
<1>2. CASE ~Live(task)
  BY <1>1, <1>2, AbandonSound DEF Wake
<1>3. CASE Live(task)
  <2> DEFINE next == [task EXCEPT !.step = "fetching"]
  <2>1. Decide(task, "fetching") /\ geoQueue' = geoQueue /\ UNCHANGED <<saving, refresh, dbVars, worldVars>>
    BY <1>3 DEF Wake
  <2>2. task.host \in Hosts /\ task.owner \in Ids /\ task.job \in Ids
    BY <1>1 DEF Tasks
  <2>3. next \in Tasks /\ next.host = task.host /\ next.owner = task.owner
    BY <1>1 DEF Tasks
  <2>4. hosts[task.host].id = task.owner /\ job[task.host] = task.job
    BY <1>3 DEF Live, Current
  <2>5. geoQueue' \in Seq(Hosts) /\ Queued(geoQueue', {g \in Hosts : job[g] # 0}) /\ task.host \notin ToSet(geoQueue')
    BY <1>1, <2>1, <2>4 DEF IInv, TypeInv, LookupInv
  <2>. QED BY <2>1, <2>2, <2>3, <2>4, <2>5, DecideSound
<1>. QED BY <1>2, <1>3

\* The provider has answered: what its lookup knows of the entry still holds.
LEMMA AnswerSound == ASSUME IInv, AnswerGood \/ AnswerBad PROVE Sound
<1> DEFINE h == task.host
<1>1. task \in Tasks /\ task # NoTask /\ Live(task) /\ EndLookup(task) /\ geoQueue' = geoQueue
      /\ UNCHANGED <<saving, refresh, dbVars, worldVars>>
  BY DEF IInv, TypeInv, AnswerGood, AnswerBad, saveVars, NoTask
<1>2. PICK res \in Reads(h) : LET c == AfterRead(h, res) IN
        /\ hosts' = [hosts EXCEPT ![h] = Noted(@, res)]
        /\ \/ LET k == [CacheApi(c, clock) EXCEPT !.unsaved = clock] IN
              cache' = [cache EXCEPT ![h] = k] /\ QueueSave(h, k)
           \/ /\ cache' = [cache EXCEPT ![h] = IF res = "error" THEN c ELSE CacheMiss(c)]
              /\ UNCHANGED saveVars
  BY DEF AnswerGood, AnswerBad
<1>3. TypeInv /\ Locals /\ LookupInv /\ SaveInv /\ WaitInv /\ RefreshInv
  BY DEF IInv
<1>4. h \in Hosts /\ task.job \in Ids /\ task.owner \in Ids /\ hosts[h].id = task.owner /\ job[h] = task.job
  BY <1>1 DEF Tasks, Live, Current
<1>5. hosts \in [Hosts -> Owners] /\ cache \in [Hosts -> Entries] /\ Fits(hosts[h], cache[h], job[h], saveJob[h])
      /\ clock \in 1..MaxClock
  BY <1>3, <1>4 DEF TypeInv, Locals
<1>6. hosts[h].id # 0 /\ hosts[h].kind = "public" /\ cache[h].status # "private" /\ cache[h].unsaved = 0
  <2>1. hosts[h].id # 0 /\ job[h] # 0
    BY <1>4, IdFacts
  <2>2. hosts[h].kind \in {"public", "private"}
    BY <1>4, <1>5 DEF Owners
  <2>. QED BY <1>1, <1>3, <1>4, <1>5, <2>1, <2>2 DEF Fits, WaitInv
<1> DEFINE c == AfterRead(h, res)
           g == [CacheApi(c, clock) EXCEPT !.unsaved = clock]
           m == CacheMiss(c)
           k == cache'[h]
<1>7. /\ c \in Entries /\ c.unsaved = cache[h].unsaved /\ c.status # "private"
      /\ res = "hit" => c.status = "ok" /\ c.at >= db[h]
  <2> HIDE DEF h
  <2>. QED BY <1>3, <1>4, <1>6, AfterReadFacts
<1>8. \/ cache' = [cache EXCEPT ![h] = g] /\ QueueSave(h, g)
      \/ (cache' = [cache EXCEPT ![h] = c] \/ cache' = [cache EXCEPT ![h] = m]) /\ UNCHANGED saveVars
  BY <1>2
<1>9. hosts' = [hosts EXCEPT ![h] = Noted(hosts[h], res)]
  BY <1>2
<1>10. /\ g \in Entries /\ g.status = "ok" /\ g.unsaved # 0 /\ (c.status = "ok" => g.at >= c.at)
       /\ m \in Entries /\ m.status # "private" /\ (c.status = "ok" => m = c)
  <2>1. g \in Entries /\ g.status = "ok" /\ g.unsaved = clock /\ (c.status = "ok" => g.at >= c.at)
    <3> HIDE DEF c
    <3>. QED BY <1>5, <1>7, CacheApiFacts
  <2>2. clock # 0
    BY <1>5, ConstantFacts
  <2>3. m \in Entries /\ m.status # "private" /\ (c.status = "ok" => m = c)
    <3> HIDE DEF c
    <3>. QED BY <1>7, CacheMissFacts
  <2>. QED BY <2>1, <2>2, <2>3
<1> HIDE DEF c, g, m, k, h
<1>11. k \in Entries /\ k.status # "private" /\ (res = "hit" => k.status = "ok" /\ k.at >= db[h])
       /\ cache' = [cache EXCEPT ![h] = k]
  <2>1. PICK b \in {c, g, m} : cache' = [cache EXCEPT ![h] = b]
    BY <1>8
  <2>2. k = b
    BY <1>4, <1>5, <2>1 DEF k
  <2>3. db[h] \in 0..MaxClock /\ c.at \in 0..MaxClock /\ g.at \in 0..MaxClock
    <3>1. c \in EntryTypes /\ g \in EntryTypes
      BY <1>7, <1>10, EntryIs
    <3>. QED BY <1>3, <1>4, <3>1 DEF TypeInv, EntryTypes
  <2>4. res = "hit" => b.status = "ok" /\ b.at >= db[h]
    BY <1>7, <1>10, <2>1, <2>3, ConstantFacts
  <2>. QED BY <1>7, <1>10, <2>1, <2>2, <2>4
<1>12. /\ saveJob' \in [Hosts -> Saves \cup {NoSave}] /\ saveQueue' \in Seq(Hosts) /\ SaveInv'
       /\ \A x \in Hosts : x # h => saveJob'[x] = saveJob[x]
  <2>1. CASE UNCHANGED saveVars
    BY <1>3, <2>1, SaveStays DEF TypeInv, saveVars
  <2>2. CASE QueueSave(h, g)
    BY <1>1, <1>3, <1>4, <1>10, <2>2, QueueSaveFacts
  <2>. QED BY <1>8, <2>1, <2>2
<1>13. /\ job' \in [Hosts -> Ids \cup {0}] /\ task' = NoTask /\ LookupInv'
       /\ \A x \in Hosts : x # h => job'[x] = job[x]
  <2>1. geoQueue' \in Seq(Hosts) /\ Queued(geoQueue', {x \in Hosts : job[x] # 0}) /\ task.host \notin ToSet(geoQueue')
    BY <1>1, <1>3, <1>4 DEF TypeInv, LookupInv, h
  <2>. QED BY <1>1, <1>3, <1>4, <2>1, EndLookupFacts DEF h
<1>14. /\ hosts' \in [Hosts -> Owners] /\ cache' \in [Hosts -> Entries]
       /\ Locals' /\ RefreshInv' /\ SameOwners
       /\ cache'[h] = k /\ \A x \in Hosts : x # h => cache'[x] = cache[x]
  <2>1. UNCHANGED <<db, import, refresh>>
    BY <1>1 DEF dbVars
  <2>. QED BY <1>3, <1>4, <1>6, <1>9, <1>11, <1>12, <1>13, <2>1, ReadStep
<1>15. WaitInv'
  BY <1>1, <1>3, <1>13, <1>14, WaitsStay
<1>16. TypeInv'
  BY <1>1, <1>3, <1>12, <1>13, <1>14 DEF TypeInv, dbVars, worldVars
<1>17. Kept
  BY <1>6, <1>14 DEF Kept
<1>. QED BY <1>12, <1>13, <1>14, <1>15, <1>16, <1>17 DEF Sound, IInv

-----------------------------------------------------------------------------
(* Writes.                                                                 *)

\* A write ends: its own job, if it has not been replaced, leaves the map.
LEMMA EndSaveFacts ==
    ASSUME TypeInv, NEW h \in Hosts, NEW save \in Saves, saveQueue' \in Seq(Hosts),
           Queued(saveQueue', {g \in Hosts : saveJob[g] # NoSave}),
           saveJob[h] = save => h \notin ToSet(saveQueue'),
           saveJob' = [saveJob EXCEPT ![h] = IF @ = save THEN NoSave ELSE @], saving' = NoSaving
    PROVE  /\ saveJob' \in [Hosts -> Saves \cup {NoSave}] /\ SaveInv'
           /\ \A g \in Hosts : saveJob'[g] = saveJob[g] \/ saveJob'[g] = NoSave
           /\ \A g \in Hosts : g # h => saveJob'[g] = saveJob[g]
<1>1. saveJob \in [Hosts -> Saves \cup {NoSave}]
  BY DEF TypeInv
<1>2. /\ saveJob' \in [Hosts -> Saves \cup {NoSave}]
      /\ \A g \in Hosts : saveJob'[g] = saveJob[g] \/ saveJob'[g] = NoSave
      /\ \A g \in Hosts : g # h => saveJob'[g] = saveJob[g]
      /\ saveJob[h] # save => saveJob'[h] = saveJob[h]
  BY <1>1
<1>3. ASSUME NEW i \in DOMAIN saveQueue', saveQueue'[i] \in {g \in Hosts : saveJob[g] # NoSave}
      PROVE  saveQueue'[i] \in {g \in Hosts : saveJob'[g] # NoSave}
  <2>1. CASE saveQueue'[i] # h
    BY <1>2, <1>3, <2>1
  <2>2. CASE saveQueue'[i] = h
    <3>1. saveJob[h] # save
      BY <2>2 DEF ToSet
    <3>. QED BY <1>2, <1>3, <2>2, <3>1
  <2>. QED BY <2>1, <2>2
<1>4. Queued(saveQueue', {g \in Hosts : saveJob'[g] # NoSave})
  BY <1>3 DEF Queued
<1>. QED BY <1>2, <1>4 DEF SaveInv

\* A write has failed: the answer stays unsaved.
LEMMA SaveFailsSound ==
    ASSUME IInv, NEW h \in Hosts, NEW save \in Saves, SaveFails(h, save), saveQueue' \in Seq(Hosts),
           Queued(saveQueue', {g \in Hosts : saveJob[g] # NoSave}),
           saveJob[h] = save => h \notin ToSet(saveQueue'),
           UNCHANGED <<hosts, lookupVars, refresh, import, worldVars>>
    PROVE  Sound
<1>1. TypeInv /\ Locals /\ LookupInv /\ SaveInv /\ WaitInv /\ RefreshInv
  BY DEF IInv
<1>2. saveJob' = [saveJob EXCEPT ![h] = IF @ = save THEN NoSave ELSE @] /\ saving' = NoSaving
      /\ UNCHANGED <<db, oversized, cache>>
  BY DEF SaveFails
<1>3. /\ saveJob' \in [Hosts -> Saves \cup {NoSave}] /\ SaveInv'
      /\ \A g \in Hosts : saveJob'[g] = saveJob[g] \/ saveJob'[g] = NoSave
  BY <1>1, <1>2, EndSaveFacts
<1>4. Locals'
  <2>1. ASSUME NEW g \in Hosts PROVE Fits(hosts[g], cache[g], job[g], saveJob'[g])
    BY <1>1, <1>3 DEF Locals, Fits
  <2>. QED BY <1>1, <1>2, <2>1 DEF Locals, lookupVars
<1>5. SameOwners
  BY DEF SameOwners
<1>6. LookupInv' /\ RefreshInv' /\ WaitInv'
  <2>1. UNCHANGED lookupVars /\ refresh' = refresh /\ task' = task /\ cache' = cache
    BY <1>2 DEF lookupVars
  <2>. QED BY <1>1, <1>2, <1>5, <2>1, LookupStays, OwnersStay, WaitsStay
<1>7. TypeInv'
  BY <1>1, <1>2, <1>3 DEF TypeInv, lookupVars, worldVars
<1>8. Kept
  BY <1>2 DEF Kept
<1>. QED BY <1>3, <1>4, <1>6, <1>7, <1>8 DEF Sound, IInv

\* The stored row is never older than what was to be stored.
LEMMA UpsertFacts ==
    ASSUME TypeInv, NEW h \in Hosts, NEW at \in 1..MaxClock, NEW d, d = Upsert(h, at)
    PROVE  d \in 1..MaxClock /\ d >= at
<1>1. db[h] \in 0..MaxClock
  BY DEF TypeInv
<1>. QED BY <1>1, ConstantFacts DEF Upsert

\* A write has committed: its winner is the entry, and its answer is stored.
LEMMA SaveCommitsSound ==
    ASSUME IInv, NEW h \in Hosts, NEW save \in Saves, SaveCommits(h, save), saveQueue' \in Seq(Hosts),
           hosts[h].id # 0, hosts[h].kind = "public",
           Queued(saveQueue', {g \in Hosts : saveJob[g] # NoSave}),
           saveJob[h] = save => h \notin ToSet(saveQueue'),
           UNCHANGED <<hosts, lookupVars, refresh, import, worldVars>>
    PROVE  Sound
<1> DEFINE d == db'[h]
           row == CacheRow(cache[h], d)
           u == IF row.unsaved = save.obs THEN 0 ELSE row.unsaved
           k == [row EXCEPT !.unsaved = u]
<1>1. TypeInv /\ Locals /\ LookupInv /\ SaveInv /\ WaitInv /\ RefreshInv
  BY DEF IInv
<1>2. /\ saveJob' = [saveJob EXCEPT ![h] = IF @ = save THEN NoSave ELSE @] /\ saving' = NoSaving
      /\ db' = [db EXCEPT ![h] = Upsert(h, save.obs)] /\ oversized' = oversized \ {h}
  BY DEF SaveCommits
<1>3. cache' = [cache EXCEPT ![h] = k]
  <2>1. cache' = [cache EXCEPT ![h] = [row EXCEPT !.unsaved = IF @ = save.obs THEN 0 ELSE @]]
    BY DEF SaveCommits
  <2> HIDE DEF row
  <2>2. [row EXCEPT !.unsaved = IF @ = save.obs THEN 0 ELSE @] = k
    OBVIOUS
  <2>. QED BY <2>1, <2>2
<1>4. /\ cache \in [Hosts -> Entries] /\ hosts \in [Hosts -> Owners] /\ db \in [Hosts -> 0..MaxClock]
      /\ save.obs \in 1..MaxClock /\ Fits(hosts[h], cache[h], job[h], saveJob[h])
  BY <1>1 DEF TypeInv, Saves, Locals
<1>5. d \in 1..MaxClock /\ d >= save.obs
  <2>1. d = Upsert(h, save.obs)
    BY <1>2, <1>4
  <2> HIDE DEF d
  <2>. QED BY <1>1, <1>4, <2>1, UpsertFacts
<1>6. /\ db' \in [Hosts -> 0..MaxClock] /\ \A g \in Hosts : g # h => db'[g] = db[g]
      /\ oversized' \subseteq {g \in Hosts : db'[g] # 0}
  <2>1. db' \in [Hosts -> 0..MaxClock] /\ \A g \in Hosts : g # h => db'[g] = db[g]
    <3>1. db' = [db EXCEPT ![h] = d]
      BY <1>2, <1>4
    <3>2. d \in 0..MaxClock
      BY <1>5, ConstantFacts
    <3>. QED BY <1>4, <3>1, <3>2
  <2>. QED BY <1>1, <1>2, <2>1 DEF TypeInv
<1> HIDE DEF d
<1>7. row \in Entries /\ row.status = "ok" /\ row.unsaved = cache[h].unsaved /\ row.at >= d
  BY <1>4, <1>5, CacheRowFacts
<1>8. row \in EntryTypes /\ row.at # 0
  BY <1>7, EntryIs
<1> HIDE DEF row
<1>9. u \in 0..MaxClock /\ (u = row.unsaved \/ (u = 0 /\ row.unsaved = save.obs))
  BY <1>8, ConstantFacts DEF EntryTypes
<1> HIDE DEF u
<1>10. k \in EntryTypes /\ k.status = "ok" /\ k.unsaved = u /\ k.at = row.at
  BY <1>7, <1>8, <1>9 DEF EntryTypes
<1> HIDE DEF k
<1>11. k \in Entries
  BY <1>8, <1>10, EntryIs
<1>12. cache' \in [Hosts -> Entries] /\ cache'[h] = k /\ \A g \in Hosts : g # h => cache'[g] = cache[g]
  BY <1>3, <1>4, <1>11
<1>13. /\ saveJob' \in [Hosts -> Saves \cup {NoSave}] /\ SaveInv'
       /\ \A g \in Hosts : g # h => saveJob'[g] = saveJob[g]
  BY <1>1, <1>2, EndSaveFacts
<1>14. Locals'
  <2>1. Fits(hosts'[h], cache'[h], job'[h], saveJob'[h])
    BY <1>10, <1>12 DEF Fits, lookupVars
  <2>2. UpToDate(hosts'[h], cache'[h], db'[h])
    BY <1>7, <1>10, <1>12 DEF UpToDate, d
  <2>. QED BY <1>1, <1>6, <1>12, <1>13, <2>1, <2>2, OneHost DEF lookupVars
<1>15. SameOwners
  BY DEF SameOwners
<1>16. LookupInv' /\ RefreshInv' /\ WaitInv'
  <2>1. UNCHANGED lookupVars /\ refresh' = refresh /\ task' = task
    BY DEF lookupVars
  <2>2. LookupInv' /\ RefreshInv'
    BY <1>1, <1>15, <2>1, LookupStays, OwnersStay
  <2>3. task # NoTask /\ hosts'[task.host].id = task.owner => cache'[task.host].unsaved = 0
    <3>1. task # NoTask => task.host \in Hosts
      BY <1>1 DEF TypeInv, Tasks
    <3>. QED BY <1>1, <1>7, <1>9, <1>10, <1>12, <3>1 DEF WaitInv
  <2>4. WaitInv'
    BY <1>2, <2>1, <2>3 DEF WaitInv
  <2>. QED BY <2>2, <2>4
<1>17. TypeInv'
  BY <1>1, <1>2, <1>6, <1>12, <1>13 DEF TypeInv, lookupVars, worldVars
<1>18. Kept
  <2>1. ASSUME NEW g \in Hosts, cache'[g].unsaved # cache[g].unsaved PROVE db'[g] >= cache[g].unsaved
    <3>1. g = h
      BY <1>12, <2>1
    <3>2. row.unsaved = save.obs
      BY <1>7, <1>9, <1>10, <1>12, <2>1, <3>1
    <3>. QED BY <1>5, <1>7, <3>1, <3>2 DEF d
  <2>. QED BY <2>1 DEF Kept
<1>. QED BY <1>13, <1>14, <1>16, <1>17, <1>18 DEF Sound, IInv

\* saveLoop takes the head of the queue, which is in it no more.
LEMMA StartSaveSound == ASSUME IInv, StartSave PROVE Sound
<1> DEFINE h == Head(saveQueue)
           S == {g \in Hosts : saveJob[g] # NoSave}
           w == [host |-> h, owner |-> hosts[h].id, save |-> saveJob[h]]
<1>1. saveQueue # <<>> /\ saveQueue' = Tail(saveQueue) /\ UNCHANGED <<hosts, lookupVars, refresh, import, worldVars>>
      /\ \/ SaveCommits(h, saveJob[h]) \/ SaveFails(h, saveJob[h])
         \/ saving' = w /\ UNCHANGED <<saveJob, db, oversized, cache>>
  BY DEF StartSave
<1>2. TypeInv /\ Locals /\ LookupInv /\ SaveInv /\ WaitInv /\ RefreshInv
  BY DEF IInv
<1>3. saveQueue \in Seq(Hosts) /\ Queued(saveQueue, S)
  BY <1>2 DEF TypeInv, SaveInv
<1>4. Tail(saveQueue) \in Seq(Hosts) /\ Queued(Tail(saveQueue), S) /\ h \in S /\ h \notin ToSet(Tail(saveQueue))
  <2> HIDE DEF S
  <2>. QED BY <1>1, <1>3, TailFacts
<1>5. h \in Hosts /\ saveJob[h] # NoSave
  BY <1>4
<1>6. saveJob[h] \in Saves /\ hosts[h] \in Owners /\ Fits(hosts[h], cache[h], job[h], saveJob[h])
  BY <1>2, <1>5 DEF TypeInv, Locals
<1>7. hosts[h].id # 0 /\ hosts[h].id \in Ids /\ hosts[h].kind = "public"
  BY <1>5, <1>6 DEF Fits, Owners
<1>8. saveQueue' \in Seq(Hosts) /\ Queued(saveQueue', {g \in Hosts : saveJob[g] # NoSave}) /\ h \notin ToSet(saveQueue')
  BY <1>1, <1>4
<1> HIDE DEF h
<1>9. CASE SaveCommits(h, saveJob[h])
  BY <1>1, <1>5, <1>6, <1>7, <1>8, <1>9, SaveCommitsSound
<1>10. CASE SaveFails(h, saveJob[h])
  BY <1>1, <1>5, <1>6, <1>8, <1>10, SaveFailsSound
<1>11. CASE saving' = w /\ UNCHANGED <<saveJob, db, oversized, cache>>
  <2>1. w \in Savings /\ w.host = h /\ w.owner = hosts[h].id /\ w.save = saveJob[h]
    BY <1>5, <1>6, <1>7 DEF Savings
  <2> HIDE DEF w
  <2>2. SaveInv'
    BY <1>8, <1>11, <2>1 DEF SaveInv
  <2>3. WaitInv'
    BY <1>1, <1>2, <1>7, <1>11, <2>1 DEF WaitInv, lookupVars
  <2>4. Locals'
    BY <1>1, <1>2, <1>11 DEF Locals, lookupVars
  <2>5. LookupInv' /\ RefreshInv'
    BY <1>1, <1>2, LookupStays, OwnersStay DEF SameOwners
  <2>6. TypeInv'
    BY <1>1, <1>2, <1>8, <1>11, <2>1 DEF TypeInv, lookupVars, worldVars
  <2>7. Kept
    BY <1>11 DEF Kept
  <2>. QED BY <2>2, <2>3, <2>4, <2>5, <2>6, <2>7 DEF Sound, IInv
<1>. QED BY <1>1, <1>9, <1>10, <1>11

\* A wait for a busy database is over: the host still has the owner, or it has not.
LEMMA RetrySaveSound == ASSUME IInv, RetrySave PROVE Sound
<1> DEFINE h == saving.host
           save == saving.save
<1>1. saving # NoSaving /\ saveQueue' = saveQueue /\ UNCHANGED <<hosts, lookupVars, refresh, import, worldVars>>
      /\ \/ Current(h, saving.owner) /\ SaveCommits(h, save)
         \/ SaveFails(h, save)
  BY DEF RetrySave
<1>2. TypeInv /\ SaveInv /\ WaitInv
  BY DEF IInv
<1>3. h \in Hosts /\ save \in Saves
  BY <1>1, <1>2 DEF TypeInv, Savings
<1>4. saveQueue' \in Seq(Hosts) /\ Queued(saveQueue', {g \in Hosts : saveJob[g] # NoSave})
      /\ (saveJob[h] = save => h \notin ToSet(saveQueue'))
  BY <1>1, <1>2 DEF TypeInv, SaveInv
<1>5. CASE Current(h, saving.owner) /\ SaveCommits(h, save)
  <2>1. hosts[h].id # 0 /\ hosts[h].kind = "public"
    BY <1>1, <1>2, <1>5 DEF Current, WaitInv
  <2> HIDE DEF h, save
  <2>. QED BY <1>1, <1>3, <1>4, <1>5, <2>1, SaveCommitsSound
<1>6. CASE SaveFails(h, save)
  <2> HIDE DEF h, save
  <2>. QED BY <1>1, <1>3, <1>4, <1>6, SaveFailsSound
<1>. QED BY <1>1, <1>5, <1>6

-----------------------------------------------------------------------------
(* Refreshes.                                                              *)

\* A host found gets an owner, unless it has one, and its row is read.
LEMMA HydrateSound == ASSUME IInv, NEW h \in Hosts, HydrateHost(h) PROVE Sound
<1> DEFINE f == refresh.found[h]
           b == IF hosts[h].id = 0 THEN NewOwner(h) ELSE hosts[h]
           o == [b EXCEPT !.kind = f]
           p == [NoEntry EXCEPT !.status = "private"]
           n == hosts'[h]
           k == cache'[h]
<1>1. /\ refresh.step = "hydrating" /\ h \in refresh.todo /\ refresh' = [refresh EXCEPT !.todo = @ \ {h}]
      /\ \/ o.kind = "private" /\ hosts' = [hosts EXCEPT ![h] = o] /\ cache' = [cache EXCEPT ![h] = p]
         \/ /\ o.kind = "public"
            /\ \E res \in Reads(h) :
                 hosts' = [hosts EXCEPT ![h] = Noted(o, res)] /\ cache' = [cache EXCEPT ![h] = AfterRead(h, res)]
         \/ o.kind = "public" /\ hosts' = [hosts EXCEPT ![h] = o] /\ cache' = cache
      /\ UNCHANGED <<lookupVars, saveVars, dbVars, worldVars>>
  BY DEF HydrateHost
<1>2. TypeInv /\ Locals /\ LookupInv /\ SaveInv /\ WaitInv /\ RefreshInv
  BY DEF IInv
<1>3. /\ hosts \in [Hosts -> Owners] /\ cache \in [Hosts -> Entries] /\ refresh \in Refreshes
      /\ Fits(hosts[h], cache[h], job[h], saveJob[h]) /\ f \in {"public", "private"}
  BY <1>1, <1>2 DEF TypeInv, Locals, RefreshInv, Refreshes
<1>4. /\ b \in Owners /\ b.id # 0
      /\ \/ hosts[h].id # 0 /\ b = hosts[h] /\ b.kind = f
         \/ /\ hosts[h].id = 0 /\ b.read = "other" /\ cache[h] = NoEntry /\ job[h] = 0 /\ saveJob[h] = NoSave
            /\ (task.host = h => b.id # task.owner) /\ (saving.host = h => b.id # saving.owner)
  <2>1. CASE hosts[h].id # 0
    <3>1. b = hosts[h] /\ b.kind = f
      BY <1>1, <1>2, <2>1 DEF RefreshInv
    <3>. QED BY <1>3, <2>1, <3>1
  <2>2. CASE hosts[h].id = 0
    <3>1. b = NewOwner(h)
      BY <2>2
    <3> HIDE DEF b
    <3>2. /\ b \in Owners /\ b.id # 0 /\ b.read = "other"
          /\ (task.host = h => b.id # task.owner) /\ (saving.host = h => b.id # saving.owner)
      BY <1>2, <3>1, NewOwnerFacts
    <3>. QED BY <1>3, <2>2, <3>2 DEF Fits
  <2>. QED BY <2>1, <2>2
<1> HIDE DEF f, b
<1>5. o \in Owners /\ o.id = b.id /\ o.kind = f /\ o.read = b.read /\ (o.behind <=> b.behind)
  BY <1>3, <1>4 DEF Owners
<1> HIDE DEF o
<1>6. cache[h].status = "private" => f = "private" /\ hosts[h].id # 0
  BY <1>3, <1>4, Nothing DEF Fits
<1>7. f = "private" => cache[h].unsaved = 0 /\ job[h] = 0 /\ saveJob[h] = NoSave
  <2>1. cache[h].status # "ok" => cache[h].unsaved = 0
    BY <1>3, EntryIs
  <2>. QED BY <1>3, <1>4, <2>1, Nothing DEF Fits
<1>8. p \in Entries /\ p.status = "private" /\ p.unsaved = 0
  BY DEF Entries, NoEntry
<1> HIDE DEF p
<1> DEFINE Hydrated ==
         /\ n \in Owners /\ n.id = b.id /\ n.kind = f /\ k \in Entries /\ k.unsaved = cache[h].unsaved
         /\ (k.status = "private" <=> f = "private") /\ (import = "none" => UpToDate(n, k, db[h]))
         /\ hosts' = [hosts EXCEPT ![h] = n] /\ cache' = [cache EXCEPT ![h] = k]
<1>9. Hydrated
  <2>1. CASE o.kind = "private" /\ hosts' = [hosts EXCEPT ![h] = o] /\ cache' = [cache EXCEPT ![h] = p]
    <3>1. n = o /\ k = p
      BY <1>3, <2>1
    <3> HIDE DEF n, k
    <3>2. UpToDate(n, k, db[h])
      BY <2>1, <3>1 DEF UpToDate
    <3>. QED BY <1>5, <1>7, <1>8, <2>1, <3>1, <3>2
  <2>2. CASE o.kind = "public" /\ hosts' = [hosts EXCEPT ![h] = o] /\ cache' = cache
    <3>1. n = o /\ k = cache[h] /\ cache' = [cache EXCEPT ![h] = cache[h]]
      BY <1>3, <2>2
    <3>2. f = "public" /\ cache[h].status # "private"
      BY <1>5, <1>6, <2>2
    <3> HIDE DEF n, k
    <3>3. import = "none" => UpToDate(n, k, db[h])
      BY <1>2, <1>4, <1>5, <3>1 DEF UpToDate, Locals
    <3>. QED BY <1>3, <1>5, <2>2, <3>1, <3>2, <3>3
  <2>3. ASSUME o.kind = "public", NEW res \in Reads(h),
               hosts' = [hosts EXCEPT ![h] = Noted(o, res)], cache' = [cache EXCEPT ![h] = AfterRead(h, res)]
        PROVE  Hydrated
    <3>1. n = Noted(o, res) /\ k = AfterRead(h, res)
      BY <1>3, <2>3
    <3>2. f = "public" /\ cache[h].status # "private"
      BY <1>5, <1>6, <2>3
    <3> HIDE DEF n, k
    <3>3. n \in Owners /\ n.id = o.id /\ n.kind = o.kind /\ (n.read = "hit" <=> res = "hit")
      BY <1>5, <3>1, NotedFacts
    <3>4. /\ k \in Entries /\ k.unsaved = cache[h].unsaved /\ k.status # "private"
          /\ res = "hit" => k.status = "ok" /\ k.at >= db[h]
      BY <1>2, <3>1, <3>2, AfterReadFacts
    <3>5. UpToDate(n, k, db[h])
      BY <3>3, <3>4 DEF UpToDate
    <3>. QED BY <1>5, <2>3, <3>1, <3>2, <3>3, <3>4, <3>5
  <2>. QED BY <1>1, <2>1, <2>2, <2>3
<1> HIDE DEF n, k
<1>10. /\ hosts' \in [Hosts -> Owners] /\ hosts'[h] = n /\ \A g \in Hosts : g # h => hosts'[g] = hosts[g]
       /\ cache' \in [Hosts -> Entries] /\ cache'[h] = k /\ \A g \in Hosts : g # h => cache'[g] = cache[g]
  BY <1>3, <1>9
<1>11. UNCHANGED lookupVars /\ UNCHANGED saveVars /\ UNCHANGED <<job, task, saveJob, saving, db, import>>
  BY <1>1 DEF lookupVars, saveVars, dbVars
<1>12. LookupInv' /\ SaveInv'
  BY <1>2, <1>11, LookupStays, SaveStays
<1>13. Locals'
  <2>1. Fits(n, k, job[h], saveJob[h])
    BY <1>4, <1>7, <1>9 DEF Fits
  <2>. QED BY <1>2, <1>9, <1>10, <1>11, <2>1, OneHost
<1>14. hosts[h].id # 0 => n.id = hosts[h].id /\ n.kind = hosts[h].kind
  BY <1>4, <1>9
<1>15. WaitInv'
  <2>1. ASSUME task # NoTask, hosts'[task.host].id = task.owner PROVE cache'[task.host].unsaved = 0
    <3>1. task.host \in Hosts
      BY <1>2, <2>1 DEF TypeInv, Tasks
    <3>2. CASE task.host = h
      <4>1. n.id = task.owner
        BY <1>10, <2>1, <3>2
      <4>2. hosts[h].id # 0
        BY <1>4, <1>9, <3>2, <4>1
      <4>. QED BY <1>2, <1>9, <1>10, <1>14, <2>1, <3>2, <4>1, <4>2 DEF WaitInv
    <3>3. CASE task.host # h
      BY <1>2, <1>10, <2>1, <3>1, <3>3 DEF WaitInv
    <3>. QED BY <3>2, <3>3
  <2>2. ASSUME saving # NoSaving, hosts'[saving.host].id = saving.owner PROVE hosts'[saving.host].kind = "public"
    <3>1. saving.host \in Hosts
      BY <1>2, <2>2 DEF TypeInv, Savings
    <3>2. CASE saving.host = h
      <4>1. n.id = saving.owner
        BY <1>10, <2>2, <3>2
      <4>2. hosts[h].id # 0
        BY <1>4, <1>9, <3>2, <4>1
      <4>. QED BY <1>2, <1>10, <1>14, <2>2, <3>2, <4>1, <4>2 DEF WaitInv
    <3>3. CASE saving.host # h
      BY <1>2, <1>10, <2>2, <3>1, <3>3 DEF WaitInv
    <3>. QED BY <3>2, <3>3
  <2>. QED BY <1>11, <2>1, <2>2 DEF WaitInv
<1>16. refresh' \in Refreshes /\ refresh'.step = refresh.step /\ refresh'.found = refresh.found
       /\ refresh'.todo = refresh.todo \ {h}
  BY <1>1, <1>3 DEF Refreshes
<1>17. RefreshInv'
  <2>1. ASSUME NEW g \in Hosts
        PROVE  /\ hosts'[g].id # 0 => hosts'[g].kind = refresh.found[g]
               /\ g \in refresh.todo \ {h} => refresh.found[g] # "absent"
               /\ refresh.found[g] # "absent" /\ g \notin refresh.todo \ {h} => hosts'[g].id # 0
    <3>1. CASE g = h
      BY <1>4, <1>9, <1>10, <3>1 DEF f
    <3>2. CASE g # h
      BY <1>1, <1>2, <1>10, <3>2 DEF RefreshInv
    <3>. QED BY <3>1, <3>2
  <2>. QED BY <1>16, <2>1 DEF RefreshInv
<1>18. TypeInv'
  BY <1>1, <1>2, <1>10, <1>16 DEF TypeInv, lookupVars, saveVars, dbVars, worldVars
<1>19. Kept
  BY <1>9, <1>10 DEF Kept
<1>. QED BY <1>12, <1>13, <1>15, <1>17, <1>18, <1>19 DEF Sound, IInv

\* Hosts that go take their owner, their entry and their jobs with them.
LEMMA DropFacts ==
    ASSUME IInv, NEW gone,
           hosts' = Without(hosts, gone, NoOwner), cache' = Without(cache, gone, NoEntry),
           job' = Without(job, gone, 0), saveJob' = Without(saveJob, gone, NoSave),
           geoQueue' \in Seq(Hosts), Queued(geoQueue', ToSet(geoQueue) \ gone),
           ToSet(geoQueue') \subseteq ToSet(geoQueue) \ gone,
           saveQueue' \in Seq(Hosts), Queued(saveQueue', ToSet(saveQueue) \ gone),
           ToSet(saveQueue') \subseteq ToSet(saveQueue) \ gone,
           refresh' \in Refreshes, enabled' \in BOOLEAN, stopped' \in BOOLEAN,
           UNCHANGED <<task, saving, dbVars, clock>>
    PROVE  TypeInv' /\ Locals' /\ LookupInv' /\ SaveInv' /\ WaitInv' /\ Kept
<1>1. TypeInv /\ Locals /\ LookupInv /\ SaveInv /\ WaitInv
  BY DEF IInv
<1>2. NoOwner \in Owners /\ NoOwner.id = 0 /\ NoOwner.kind = "public" /\ NoOwner.read = "other"
  BY DEF NoOwner, Owners
<1>3. /\ hosts' \in [Hosts -> Owners] /\ cache' \in [Hosts -> Entries]
      /\ job' \in [Hosts -> Ids \cup {0}] /\ saveJob' \in [Hosts -> Saves \cup {NoSave}]
  BY <1>1, <1>2, Nothing DEF TypeInv, Without
<1>4. ASSUME NEW h \in Hosts
      PROVE  IF h \in gone THEN hosts'[h] = NoOwner /\ cache'[h] = NoEntry /\ job'[h] = 0 /\ saveJob'[h] = NoSave
                           ELSE hosts'[h] = hosts[h] /\ cache'[h] = cache[h] /\ job'[h] = job[h] /\ saveJob'[h] = saveJob[h]
  BY DEF Without
<1>5. TypeInv'
  BY <1>1, <1>3 DEF TypeInv, dbVars
<1>6. Locals'
  <2>1. Fits(NoOwner, NoEntry, 0, NoSave) /\ \A d : UpToDate(NoOwner, NoEntry, d)
    BY <1>2, Nothing DEF Fits, UpToDate
  <2>2. ASSUME NEW h \in Hosts PROVE Fits(hosts'[h], cache'[h], job'[h], saveJob'[h])
    BY <1>1, <1>4, <2>1 DEF Locals
  <2>3. ASSUME import = "none", NEW h \in Hosts PROVE UpToDate(hosts'[h], cache'[h], db'[h])
    BY <1>1, <1>4, <2>1, <2>3 DEF Locals, dbVars
  <2>. QED BY <2>2, <2>3 DEF Locals, dbVars
<1>7. task # NoTask => task.host \in Hosts /\ task.owner # 0 /\ task.job # 0
  BY <1>1, IdFacts DEF TypeInv, Tasks
<1>8. saving # NoSaving => saving.host \in Hosts /\ saving.owner # 0 /\ saving.save # NoSave
  BY <1>1, IdFacts, Nothing DEF TypeInv, Savings
<1>9. LookupInv'
  <2>1. ASSUME NEW g \in ToSet(geoQueue) \ gone PROVE g \in {x \in Hosts : job'[x] # 0}
    BY <1>1, <1>4 DEF LookupInv, Queued, ToSet
  <2>2. Queued(geoQueue', {x \in Hosts : job'[x] # 0})
    BY <2>1 DEF Queued
  <2>3. task # NoTask /\ job'[task.host] = task.job => task.host \notin ToSet(geoQueue')
    BY <1>1, <1>4, <1>7 DEF LookupInv
  <2>. QED BY <2>2, <2>3 DEF LookupInv
<1>10. SaveInv'
  <2>1. ASSUME NEW g \in ToSet(saveQueue) \ gone PROVE g \in {x \in Hosts : saveJob'[x] # NoSave}
    BY <1>1, <1>4 DEF SaveInv, Queued, ToSet
  <2>2. Queued(saveQueue', {x \in Hosts : saveJob'[x] # NoSave})
    BY <2>1 DEF Queued
  <2>3. saving # NoSaving /\ saveJob'[saving.host] = saving.save => saving.host \notin ToSet(saveQueue')
    BY <1>1, <1>4, <1>8 DEF SaveInv
  <2>. QED BY <2>2, <2>3 DEF SaveInv
<1>11. WaitInv'
  <2>1. task # NoTask /\ hosts'[task.host].id = task.owner => cache'[task.host].unsaved = 0
    BY <1>1, <1>2, <1>4, <1>7 DEF WaitInv
  <2>2. saving # NoSaving /\ hosts'[saving.host].id = saving.owner => hosts'[saving.host].kind = "public"
    BY <1>1, <1>2, <1>4, <1>8 DEF WaitInv
  <2>. QED BY <2>1, <2>2 DEF WaitInv
<1>12. Kept
  <2>1. ASSUME NEW h \in Hosts, cache[h].unsaved # 0, cache'[h].unsaved # cache[h].unsaved
        PROVE  hosts'[h].id # hosts[h].id
    <3>1. h \in gone
      BY <1>4, <2>1
    <3>2. hosts[h].id # 0
      BY <1>1, <2>1, Nothing DEF Locals, Fits
    <3>. QED BY <1>2, <1>4, <3>1, <3>2
  <2>. QED BY <2>1 DEF Kept
<1>. QED BY <1>5, <1>6, <1>9, <1>10, <1>11, <1>12

\* Hosts that left, or are not what they were, go.
LEMMA RefreshSound == ASSUME IInv, NEW found \in [Hosts -> Kinds], RefreshPeers(found) PROVE Sound
<1> DEFINE gone == Gone(found)
           todo == {h \in Hosts : found[h] # "absent"}
<1>1. /\ refresh' = [step |-> "hydrating", found |-> found, todo |-> todo]
      /\ hosts' = Without(hosts, gone, NoOwner) /\ cache' = Without(cache, gone, NoEntry)
      /\ job' = Without(job, gone, 0) /\ saveJob' = Without(saveJob, gone, NoSave)
      /\ geoQueue' \in Staying(geoQueue, gone) /\ saveQueue' \in Staying(saveQueue, gone)
      /\ UNCHANGED <<task, saving, dbVars, worldVars>>
  BY DEF RefreshPeers, Found
<1>2. geoQueue \in Seq(Hosts) /\ saveQueue \in Seq(Hosts) /\ enabled \in BOOLEAN /\ stopped \in BOOLEAN
  BY DEF IInv, TypeInv
<1>3. \A h \in Hosts : Without(hosts, gone, NoOwner)[h].id # 0 => hosts[h].id # 0 /\ h \notin gone
  BY DEF Without, NoOwner
<1>4. \A h \in Hosts : h \notin gone => Without(hosts, gone, NoOwner)[h] = hosts[h]
  BY DEF Without
<1>5. \A h \in Hosts : hosts[h].id # 0 /\ h \notin gone => hosts[h].kind = found[h]
  BY DEF Gone
<1>6. todo \in SUBSET Hosts /\ found \in [Hosts -> {"absent", "public", "private"}]
  BY PeerGeoAssumption
<1> HIDE DEF gone
<1>7. /\ geoQueue' \in Seq(Hosts) /\ Queued(geoQueue', ToSet(geoQueue) \ gone)
      /\ ToSet(geoQueue') \subseteq ToSet(geoQueue) \ gone
  BY <1>1, <1>2, StayingFacts
<1>8. /\ saveQueue' \in Seq(Hosts) /\ Queued(saveQueue', ToSet(saveQueue) \ gone)
      /\ ToSet(saveQueue') \subseteq ToSet(saveQueue) \ gone
  BY <1>1, <1>2, StayingFacts
<1>9. RefreshInv'
  <2>1. ASSUME NEW h \in Hosts
        PROVE  /\ hosts'[h].id # 0 => hosts'[h].kind = found[h]
               /\ h \in todo => found[h] # "absent"
               /\ found[h] # "absent" /\ h \notin todo => hosts'[h].id # 0
    BY <1>1, <1>3, <1>4, <1>5
  <2> HIDE DEF todo
  <2>2. refresh'.found = found /\ refresh'.todo = todo
    BY <1>1
  <2>. QED BY <2>1, <2>2 DEF RefreshInv
<1> HIDE DEF todo
<1>10. refresh' \in Refreshes
  BY <1>1, <1>6 DEF Refreshes
<1>11. enabled' \in BOOLEAN /\ stopped' \in BOOLEAN /\ UNCHANGED <<task, saving, dbVars, clock>>
  BY <1>1, <1>2 DEF worldVars
<1>12. TypeInv' /\ Locals' /\ LookupInv' /\ SaveInv' /\ WaitInv' /\ Kept
  BY <1>1, <1>7, <1>8, <1>10, <1>11, DropFacts
<1>. QED BY <1>9, <1>12 DEF Sound, IInv

\* A refresh that is over.
LEMMA IdleFacts == Idle \in Refreshes /\ Idle.step = "idle"
  BY DEF Idle, Refreshes

\* At shutdown every host goes.
LEMMA StopSound == ASSUME IInv, Stop PROVE Sound
<1>1. /\ hosts' = Without(hosts, Hosts, NoOwner) /\ cache' = Without(cache, Hosts, NoEntry)
      /\ job' = Without(job, Hosts, 0) /\ saveJob' = Without(saveJob, Hosts, NoSave)
  BY DEF Stop, Without
<1>2. geoQueue' = <<>> /\ saveQueue' = <<>> /\ refresh' = Idle /\ stopped' = TRUE
      /\ UNCHANGED <<task, saving, dbVars, enabled, clock>>
  BY DEF Stop
<1>3. \A S : <<>> \in Seq(Hosts) /\ Queued(<<>>, S) /\ ToSet(<<>>) \subseteq S
  BY DEF Queued, ToSet
<1>4. refresh' \in Refreshes /\ enabled' \in BOOLEAN /\ stopped' \in BOOLEAN
  BY <1>2, IdleFacts DEF IInv, TypeInv
<1>5. /\ geoQueue' \in Seq(Hosts) /\ Queued(geoQueue', ToSet(geoQueue) \ Hosts)
      /\ ToSet(geoQueue') \subseteq ToSet(geoQueue) \ Hosts
      /\ saveQueue' \in Seq(Hosts) /\ Queued(saveQueue', ToSet(saveQueue) \ Hosts)
      /\ ToSet(saveQueue') \subseteq ToSet(saveQueue) \ Hosts
  BY <1>2, <1>3
<1>6. TypeInv' /\ Locals' /\ LookupInv' /\ SaveInv' /\ WaitInv' /\ Kept
  BY <1>1, <1>2, <1>4, <1>5, DropFacts
<1>7. RefreshInv'
  BY <1>2, IdleFacts DEF RefreshInv
<1>. QED BY <1>6, <1>7 DEF Sound, IInv

\* Lookups and writes are queued for hosts that have none, and have an owner by now.
LEMMA DispatchSound == ASSUME IInv, DispatchMisses PROVE Sound
<1> DEFINE here == {h \in Hosts : refresh.found[h] # "absent"}
           may  == {h \in here : /\ refresh.found[h] = "public"
                                 /\ hosts[h].read # "error"
                                 /\ MayNeedLookup(cache[h])}
<1>1. PICK due \in SUBSET {h \in here : cache[h].unsaved # 0}, want \in SUBSET may :
        LET saves == {h \in due : saveJob[h] = NoSave}
            jobs  == {h \in want : job[h] = 0}
        IN /\ job' = [h \in Hosts |-> IF h \in jobs THEN NewJob(h) ELSE job[h]]
           /\ saveJob' = [h \in Hosts |-> IF h \in saves THEN NewSave(h, cache[h])
                                          ELSE saveJob[h]]
           /\ \E q \in SetToSeqs(jobs) : geoQueue' = geoQueue \o q
           /\ \E q \in SetToSeqs(saves) : saveQueue' = saveQueue \o q
  BY DEF DispatchMisses
<1> DEFINE saves == {h \in due : saveJob[h] = NoSave}
           jobs  == {h \in want : job[h] = 0}
<1>2. PICK q \in SetToSeqs(jobs), r \in SetToSeqs(saves) : geoQueue' = geoQueue \o q /\ saveQueue' = saveQueue \o r
  BY <1>1
<1>3. /\ job' = [h \in Hosts |-> IF h \in jobs THEN NewJob(h) ELSE job[h]]
      /\ saveJob' = [h \in Hosts |-> IF h \in saves THEN NewSave(h, cache[h]) ELSE saveJob[h]]
  BY <1>1
<1>4. refresh.step = "hydrating" /\ refresh.todo = {} /\ refresh' = Idle
      /\ UNCHANGED <<hosts, cache, task, saving, dbVars, worldVars>>
  BY DEF DispatchMisses
<1>5. TypeInv /\ Locals /\ LookupInv /\ SaveInv /\ WaitInv /\ RefreshInv
  BY DEF IInv
<1>6. /\ hosts \in [Hosts -> Owners] /\ cache \in [Hosts -> Entries] /\ job \in [Hosts -> Ids \cup {0}]
      /\ saveJob \in [Hosts -> Saves \cup {NoSave}] /\ geoQueue \in Seq(Hosts) /\ saveQueue \in Seq(Hosts)
  BY <1>5 DEF TypeInv
<1>7. saves \in SUBSET Hosts /\ jobs \in SUBSET Hosts
  OBVIOUS
<1>8. ASSUME NEW h \in jobs PROVE job[h] = 0 /\ hosts[h].id # 0 /\ hosts[h].kind = "public"
  <2>1. h \in Hosts /\ job[h] = 0 /\ refresh.found[h] = "public"
    OBVIOUS
  <2>. QED BY <1>4, <1>5, <2>1 DEF RefreshInv
<1>9. ASSUME NEW h \in saves
      PROVE  saveJob[h] = NoSave /\ cache[h].unsaved # 0 /\ hosts[h].id # 0 /\ hosts[h].kind = "public"
  <2>1. h \in Hosts /\ saveJob[h] = NoSave /\ cache[h].unsaved # 0
    OBVIOUS
  <2>2. cache[h].status = "ok"
    BY <1>6, <2>1, EntryIs
  <2>3. Fits(hosts[h], cache[h], job[h], saveJob[h]) /\ hosts[h] \in Owners
    BY <1>5, <1>6, <2>1 DEF Locals
  <2>. QED BY <2>1, <2>2, <2>3, Nothing DEF Fits, Owners
<1> HIDE DEF here, may, saves, jobs
<1>10. ASSUME NEW h \in Hosts
       PROVE  /\ job'[h] \in Ids \cup {0}
              /\ h \in jobs => job'[h] # 0 /\ (task.host = h => job'[h] # task.job)
              /\ h \notin jobs => job'[h] = job[h]
  BY <1>3, <1>5, <1>6, NewJobFacts
<1>11. ASSUME NEW h \in Hosts
       PROVE  /\ saveJob'[h] \in Saves \cup {NoSave}
              /\ h \in saves => saveJob'[h] # NoSave /\ (saving.host = h => saveJob'[h] # saving.save)
              /\ h \notin saves => saveJob'[h] = saveJob[h]
  <2>1. saveJob'[h] = IF h \in saves THEN NewSave(h, cache[h]) ELSE saveJob[h]
    BY <1>3
  <2>2. CASE h \in saves
    <3> DEFINE c == cache[h]
    <3>1. c \in Entries /\ c.unsaved # 0 /\ saveJob'[h] = NewSave(h, c)
      BY <1>6, <1>9, <2>1, <2>2
    <3> HIDE DEF c
    <3>. QED BY <1>5, <2>2, <3>1, NewSaveFacts
  <2>3. CASE h \notin saves
    BY <1>6, <2>1, <2>3
  <2>. QED BY <2>2, <2>3
<1>12. job' \in [Hosts -> Ids \cup {0}] /\ saveJob' \in [Hosts -> Saves \cup {NoSave}]
  <2>1. DOMAIN job' = Hosts /\ job' = [h \in Hosts |-> job'[h]] /\ DOMAIN saveJob' = Hosts /\ saveJob' = [h \in Hosts |-> saveJob'[h]]
    BY <1>3
  <2>. QED BY <1>10, <1>11, <2>1
<1>13. /\ geoQueue' \in Seq(Hosts) /\ Queued(geoQueue', {h \in Hosts : job[h] # 0} \cup jobs)
       /\ ToSet(geoQueue') \subseteq ToSet(geoQueue) \cup jobs
  <2> DEFINE S == {h \in Hosts : job[h] # 0}
  <2>1. Queued(geoQueue, S) /\ S \cap jobs = {}
    BY <1>5, <1>8 DEF LookupInv
  <2> HIDE DEF S
  <2>2. q \in Seq(Hosts) /\ Queued(q, jobs) /\ ToSet(q) \subseteq jobs
    BY <1>7, OrderFacts
  <2>3. geoQueue' \in Seq(Hosts) /\ Queued(geoQueue', S \cup jobs) /\ ToSet(geoQueue') \subseteq ToSet(geoQueue) \cup ToSet(q)
    BY <1>2, <1>6, <2>1, <2>2, JoinFacts
  <2>. QED BY <2>2, <2>3 DEF S
<1>14. /\ saveQueue' \in Seq(Hosts) /\ Queued(saveQueue', {h \in Hosts : saveJob[h] # NoSave} \cup saves)
       /\ ToSet(saveQueue') \subseteq ToSet(saveQueue) \cup saves
  <2> DEFINE S == {h \in Hosts : saveJob[h] # NoSave}
  <2>1. Queued(saveQueue, S) /\ S \cap saves = {}
    BY <1>5, <1>9 DEF SaveInv
  <2> HIDE DEF S
  <2>2. r \in Seq(Hosts) /\ Queued(r, saves) /\ ToSet(r) \subseteq saves
    BY <1>7, OrderFacts
  <2>3. saveQueue' \in Seq(Hosts) /\ Queued(saveQueue', S \cup saves) /\ ToSet(saveQueue') \subseteq ToSet(saveQueue) \cup ToSet(r)
    BY <1>2, <1>6, <2>1, <2>2, JoinFacts
  <2>. QED BY <2>2, <2>3 DEF S
<1>15. Locals'
  <2>1. ASSUME NEW h \in Hosts PROVE Fits(hosts[h], cache[h], job'[h], saveJob'[h])
    BY <1>5, <1>8, <1>9, <1>10, <1>11 DEF Locals, Fits
  <2>. QED BY <1>4, <1>5, <2>1 DEF Locals, dbVars
<1>16. LookupInv'
  <2>1. \A h \in Hosts : (job[h] # 0 \/ h \in jobs) => job'[h] # 0
    BY <1>10
  <2>2. Queued(geoQueue', {h \in Hosts : job'[h] # 0})
    BY <1>7, <1>13, <2>1 DEF Queued
  <2>3. task # NoTask /\ job'[task.host] = task.job => task.host \notin ToSet(geoQueue')
    <3>1. task # NoTask => task.host \in Hosts
      BY <1>5 DEF TypeInv, Tasks
    <3>. QED BY <1>5, <1>10, <1>13, <3>1 DEF LookupInv
  <2>. QED BY <1>4, <2>2, <2>3 DEF LookupInv
<1>17. SaveInv'
  <2>1. \A h \in Hosts : (saveJob[h] # NoSave \/ h \in saves) => saveJob'[h] # NoSave
    BY <1>11
  <2>2. Queued(saveQueue', {h \in Hosts : saveJob'[h] # NoSave})
    BY <1>7, <1>14, <2>1 DEF Queued
  <2>3. saving # NoSaving /\ saveJob'[saving.host] = saving.save => saving.host \notin ToSet(saveQueue')
    <3>1. saving # NoSaving => saving.host \in Hosts
      BY <1>5 DEF TypeInv, Savings
    <3>. QED BY <1>5, <1>11, <1>14, <3>1 DEF SaveInv
  <2>. QED BY <1>4, <2>2, <2>3 DEF SaveInv
<1>18. WaitInv'
  BY <1>4, <1>5 DEF WaitInv
<1>19. RefreshInv'
  BY <1>4, IdleFacts DEF RefreshInv
<1>20. TypeInv'
  BY <1>4, <1>5, <1>12, <1>13, <1>14, IdleFacts DEF TypeInv, dbVars, worldVars
<1>21. Kept
  BY <1>4 DEF Kept
<1>. QED BY <1>15, <1>16, <1>17, <1>18, <1>19, <1>20, <1>21 DEF Sound, IInv

-----------------------------------------------------------------------------
(* The operator, the imports and the clock.                                *)

\* The permission is withdrawn, and every lookup with it.
LEMMA WithdrawSound == ASSUME IInv, Withdraw PROVE Sound
<1>1. TypeInv /\ Locals /\ LookupInv /\ SaveInv /\ WaitInv /\ RefreshInv
  BY DEF IInv
<1>2. enabled' = FALSE /\ job' = [h \in Hosts |-> 0] /\ geoQueue' = <<>>
      /\ UNCHANGED <<hosts, cache, task, saveVars, refresh, dbVars, clock, stopped>>
  BY DEF Withdraw
<1>3. <<>> \in Seq(Hosts) /\ (\A S : Queued(<<>>, S)) /\ ToSet(<<>>) = {}
  BY DEF Queued, ToSet
<1>4. job' \in [Hosts -> Ids \cup {0}] /\ \A h \in Hosts : job'[h] = 0
  BY <1>2
<1>5. TypeInv'
  BY <1>1, <1>2, <1>3, <1>4 DEF TypeInv, saveVars, dbVars
<1>6. Locals'
  <2>1. ASSUME NEW h \in Hosts PROVE Fits(hosts[h], cache[h], job'[h], saveJob[h])
    BY <1>1, <1>4 DEF Locals, Fits
  <2>. QED BY <1>1, <1>2, <2>1 DEF Locals, saveVars, dbVars
<1>7. LookupInv'
  BY <1>2, <1>3 DEF LookupInv
<1>8. SaveInv' /\ RefreshInv' /\ WaitInv'
  <2>1. UNCHANGED saveVars /\ UNCHANGED <<hosts, cache, task, saving, refresh>>
    BY <1>2 DEF saveVars
  <2>. QED BY <1>1, <2>1, SaveStays, OwnersStay DEF SameOwners, WaitInv
<1>9. Kept
  BY <1>2 DEF Kept
<1>. QED BY <1>5, <1>6, <1>7, <1>8, <1>9 DEF Sound, IInv

\* What a step that leaves the service's maps alone must not do to the rows.
LEMMA RowsSound ==
    ASSUME IInv, UNCHANGED <<hosts, cache, lookupVars, saveVars, refresh>>, TypeInv',
           import' = "none" => UNCHANGED <<db, import>>
    PROVE  Sound
<1>1. Locals /\ LookupInv /\ SaveInv /\ WaitInv /\ RefreshInv
  BY DEF IInv
<1>2. UNCHANGED lookupVars /\ UNCHANGED saveVars /\ UNCHANGED <<hosts, cache, job, task, saveJob, saving, refresh>>
  BY DEF lookupVars, saveVars
<1>3. LookupInv' /\ SaveInv'
  BY <1>1, <1>2, LookupStays, SaveStays
<1>4. Locals'
  BY <1>1, <1>2 DEF Locals
<1>5. WaitInv' /\ RefreshInv'
  BY <1>1, <1>2 DEF WaitInv, RefreshInv
<1>6. Kept
  BY <1>2 DEF Kept
<1>. QED BY <1>3, <1>4, <1>5, <1>6 DEF Sound, IInv

\* A merge has committed: until its message arrives nothing is promised.
LEMMA ImportSound ==
    ASSUME IInv, NEW found \in SUBSET Hosts, NEW at \in 1..MaxClock, ImportCommit(found, at)
    PROVE  Sound
<1>1. TypeInv
  BY DEF IInv
<1>2. /\ import' = "committed" /\ oversized' = oversized \ found
      /\ db' = [h \in Hosts |-> IF h \in found THEN Upsert(h, at) ELSE db[h]]
      /\ UNCHANGED <<hosts, cache, lookupVars, saveVars, refresh, worldVars>>
  BY DEF ImportCommit
<1>3. ASSUME NEW h \in Hosts PROVE db'[h] \in 0..MaxClock /\ (h \notin found => db'[h] = db[h])
  <2>1. db'[h] = IF h \in found THEN Upsert(h, at) ELSE db[h]
    BY <1>2
  <2>2. Upsert(h, at) \in 1..MaxClock
    BY <1>1, UpsertFacts
  <2>3. db[h] \in 0..MaxClock
    BY <1>1 DEF TypeInv
  <2>. QED BY <2>1, <2>2, <2>3, ConstantFacts
<1>4. db' \in [Hosts -> 0..MaxClock]
  <2>1. db' = [h \in Hosts |-> db'[h]]
    BY <1>2
  <2>. QED BY <1>3, <2>1
<1>5. oversized' \subseteq {h \in Hosts : db'[h] # 0}
  BY <1>1, <1>2, <1>3 DEF TypeInv
<1>6. TypeInv'
  BY <1>1, <1>2, <1>4, <1>5 DEF TypeInv, lookupVars, saveVars, worldVars
<1>. QED BY <1>2, <1>6, RowsSound

\* Once its message has arrived no owner is up to date.
LEMMA ImportDoneSound == ASSUME IInv, ImportDone PROVE Sound
<1>1. TypeInv /\ Locals /\ LookupInv /\ SaveInv /\ WaitInv /\ RefreshInv
  BY DEF IInv
<1>2. import' = "none" /\ hosts' = [h \in Hosts |-> [hosts[h] EXCEPT !.behind = TRUE]]
      /\ UNCHANGED <<cache, lookupVars, saveVars, refresh, db, oversized, worldVars>>
  BY DEF ImportDone
<1>3. ASSUME NEW h \in Hosts
      PROVE  hosts'[h] \in Owners /\ hosts'[h].behind /\ hosts'[h].id = hosts[h].id
             /\ hosts'[h].kind = hosts[h].kind /\ hosts'[h].read = hosts[h].read
  <2>1. hosts[h] \in Owners /\ hosts'[h] = [hosts[h] EXCEPT !.behind = TRUE]
    BY <1>1, <1>2 DEF TypeInv
  <2>. QED BY <2>1 DEF Owners
<1>4. hosts' \in [Hosts -> Owners]
  <2>1. hosts' = [h \in Hosts |-> hosts'[h]]
    BY <1>2
  <2>. QED BY <1>3, <2>1
<1>5. UNCHANGED lookupVars /\ UNCHANGED saveVars /\ UNCHANGED <<cache, job, task, saveJob, saving, refresh>>
  BY <1>2 DEF lookupVars, saveVars
<1>6. Locals'
  <2>1. ASSUME NEW h \in Hosts PROVE Fits(hosts'[h], cache[h], job[h], saveJob[h]) /\ UpToDate(hosts'[h], cache[h], db[h])
    BY <1>1, <1>3 DEF Locals, Fits, UpToDate
  <2>. QED BY <1>2, <1>5, <2>1 DEF Locals
<1>7. SameOwners
  BY <1>3 DEF SameOwners
<1>8. LookupInv' /\ SaveInv' /\ RefreshInv' /\ WaitInv'
  BY <1>1, <1>5, <1>7, LookupStays, SaveStays, OwnersStay, WaitsStay
<1>9. TypeInv'
  BY <1>1, <1>2, <1>4 DEF TypeInv, lookupVars, saveVars, worldVars
<1>10. Kept
  BY <1>5 DEF Kept
<1>. QED BY <1>6, <1>8, <1>9, <1>10 DEF Sound, IInv

\* The clock, the permission given, and an announcement that is lost.
LEMMA QuietSound == ASSUME IInv, Permit \/ Tick \/ ImportLost \/ UNCHANGED vars PROVE Sound
<1>1. TypeInv
  BY DEF IInv
<1>2. UNCHANGED <<hosts, cache, lookupVars, saveVars, refresh, db, oversized>>
      /\ (import' = import \/ import' = "lost") /\ (enabled' = enabled \/ enabled' = TRUE) /\ stopped' = stopped
      /\ (clock' = clock \/ (clock < MaxClock /\ clock' = clock + 1))
  BY DEF Permit, Tick, ImportLost, vars, dbVars, worldVars
<1>3. clock' \in 1..MaxClock
  BY <1>1, <1>2, ConstantFacts DEF TypeInv
<1>4. TypeInv'
  BY <1>1, <1>2, <1>3 DEF TypeInv, lookupVars, saveVars
<1>5. import' = "none" => UNCHANGED <<db, import>>
  BY <1>2
<1>. QED BY <1>2, <1>4, <1>5, RowsSound

-----------------------------------------------------------------------------
(* The service.                                                            *)

\* The service starts sound.
LEMMA InitSound == Init => IInv
<1> SUFFICES ASSUME Init PROVE IInv
  OBVIOUS
<1>1. NoOwner \in Owners /\ NoOwner.id = 0 /\ NoOwner.kind = "public" /\ NoOwner.read = "other"
  BY DEF NoOwner, Owners
<1>2. <<>> \in Seq(Hosts) /\ (\A S : Queued(<<>>, S)) /\ ToSet(<<>>) = {}
  BY DEF Queued, ToSet
<1>3. TypeInv
  <2>1. {0, 1} \subseteq 0..MaxClock /\ 1 \in 1..MaxClock
    BY ConstantFacts
  <2>2. db \in [Hosts -> 0..MaxClock]
    BY <2>1 DEF Init
  <2>3. \A h \in Hosts : db[h] = 1 => db[h] # 0
    OBVIOUS
  <2>4. oversized \subseteq {h \in Hosts : db[h] # 0}
    BY <2>3 DEF Init
  <2>5. /\ hosts \in [Hosts -> Owners] /\ cache \in [Hosts -> Entries]
        /\ job \in [Hosts -> Ids \cup {0}] /\ saveJob \in [Hosts -> Saves \cup {NoSave}]
    BY <1>1, Nothing DEF Init
  <2>. QED BY <1>2, <2>1, <2>2, <2>4, <2>5, IdleFacts DEF Init, TypeInv
<1>4. Locals
  <2>1. Fits(NoOwner, NoEntry, 0, NoSave) /\ \A d : UpToDate(NoOwner, NoEntry, d)
    BY <1>1, Nothing DEF Fits, UpToDate
  <2>. QED BY <2>1 DEF Init, Locals
<1>5. LookupInv /\ SaveInv /\ WaitInv
  BY <1>2 DEF Init, LookupInv, SaveInv, WaitInv
<1>6. RefreshInv
  BY IdleFacts DEF Init, RefreshInv
<1>. QED BY <1>3, <1>4, <1>5, <1>6 DEF IInv

\* Every step is sound.
LEMMA StepSound == IInv /\ [Next]_vars => Sound
<1> SUFFICES ASSUME IInv, [Next]_vars PROVE Sound
  OBVIOUS
<1>1. CASE Refreshing
  BY <1>1, RefreshSound, HydrateSound, DispatchSound DEF Refreshing
<1>2. CASE LookingUp
  <2>1. CASE AnswerLate
    <3>1. task # NoTask
      BY <2>1 DEF AnswerLate, NoTask
    <3>. QED BY <2>1, <3>1, AbandonSound DEF AnswerLate
  <2>. QED BY <1>2, <2>1, StartLookupSound, WakeSound, AnswerSound DEF LookingUp
<1>3. CASE Saving
  BY <1>3, StartSaveSound, RetrySaveSound DEF Saving
<1>4. CASE Importing
  BY <1>4, ImportSound, ImportDoneSound, QuietSound DEF Importing
<1>5. CASE Withdraw \/ Permit \/ Tick \/ Stop \/ UNCHANGED vars
  BY <1>5, WithdrawSound, StopSound, QuietSound
<1>. QED BY <1>1, <1>2, <1>3, <1>4, <1>5 DEF Next

\* The service never leaves its invariant, in any interleaving of refreshes, the two
\* workers, imports and the operator.
THEOREM GeoInvariance == Spec => []IInv
<1>1. IInv /\ [Next]_vars => IInv'
  BY StepSound DEF Sound
<1>. QED BY <1>1, InitSound, PTL DEF Spec

\* Type correctness.
THEOREM GeoTypes == Spec => []TypeOK
<1>1. IInv => TypeOK
  BY DEF IInv, TypeInv, TypeOK, Owners, Saves, Tasks, NoTask
<1>. QED BY <1>1, GeoInvariance, PTL

\* Nothing is kept for a host that has left, whatever answers arrive late, and a
\* private address never gets a location or a job.
THEOREM OnlyPresentHostsKept == Spec => []OnlyPresentHosts
<1>1. IInv => OnlyPresentHosts
  <2> SUFFICES ASSUME IInv, NEW h \in Hosts
               PROVE  /\ hosts[h].id = 0 => cache[h] = NoEntry /\ job[h] = 0 /\ saveJob[h] = NoSave
                      /\ cache[h].status = "private" \/ hosts[h].kind = "private"
                           => cache[h].status \in {"none", "private"} /\ job[h] = 0 /\ saveJob[h] = NoSave
    BY DEF OnlyPresentHosts
  <2>. QED BY DEF IInv, Locals, Fits
<1>. QED BY <1>1, GeoInvariance, PTL

\* A queue holds a host once, only while its job is in the map, and never one that its
\* worker is busy with: no worker turns without a job to take.
THEOREM QueuesHoldJobs == Spec => [](LookupInv /\ SaveInv)
<1>1. IInv => LookupInv /\ SaveInv
  BY DEF IInv
<1>. QED BY <1>1, GeoInvariance, PTL

\* An owner that has read the current dataset serves a location at least as new as the
\* stored one, unless an import's announcement was lost.
THEOREM EntriesKeepUp == Spec => []CacheKeepsUp
<1>1. IInv => CacheKeepsUp
  BY DEF IInv, Locals, UpToDate, CacheKeepsUp
<1>. QED BY <1>1, GeoInvariance, PTL

\* While its owner stays, an answer of the provider is let go only when the database
\* holds it or something newer.
THEOREM AnswersReachTheDatabase == Spec => AnswersAreStored
<1>1. IInv /\ [Next]_vars
      => [\A h \in Hosts :
            /\ cache[h].unsaved # 0 /\ cache'[h].unsaved # cache[h].unsaved
            /\ hosts'[h].id = hosts[h].id
            => db'[h] >= cache[h].unsaved]_vars
  BY StepSound DEF Sound, Kept
<1>. QED BY <1>1, GeoInvariance, PTL DEF Spec, AnswersAreStored

=============================================================================
