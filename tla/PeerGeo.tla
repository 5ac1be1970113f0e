------------------------------ MODULE PeerGeo ------------------------------
(***************************************************************************)
(* PeerService's geolocation (src/server/services/peers.ts) over the       *)
(* GeoDatabase (geoip.ts, geoip-merge.ts).                                 *)
(*                                                                         *)
(* A refresh gives every connected host an owner, reads the database for   *)
(* it in batches, and queues a provider lookup for what is missing or      *)
(* stale.  One worker looks hosts up, another writes answers back.         *)
(* Meanwhile hosts leave and come back under a new owner, turn private, an *)
(* import rewrites rows on its own thread, and the operator withdraws the  *)
(* permission to ask the provider.                                         *)
(*                                                                         *)
(* A step is what runs between two waits of the code.  A location is its   *)
(* observation time; retry windows, spacing between requests and the age   *)
(* at which a record is stale are nondeterministic; the identities of      *)
(* owners and jobs are small numbers, used again once nothing holds them.  *)
(***************************************************************************)
EXTENDS Naturals, SequencesExt

CONSTANTS Hosts,
          None,       \* no host
          Ids,        \* identities an owner or a job may have: positive numbers
          Kinds,      \* what a refresh may find of a host: absent, public, private
          MaxClock    \* bound on the clock

ASSUME PeerGeoAssumption ==
    /\ IsFiniteSet(Hosts) /\ None \notin Hosts /\ Ids \subseteq Nat \ {0} /\ MaxClock \in Nat \ {0}
    /\ Kinds \subseteq {"absent", "public", "private"}
    \* An object that is made is none of those still held.
    /\ \A i, j \in Ids \cup {0} : \E k \in Ids : k # i /\ k # j

VARIABLES hosts,     \* this.hosts: each host's owner
          cache,     \* this.geoCache
          job,       \* this.providerJobs: the identity of the host's job, 0 if none
          geoQueue,
          task,      \* this.providerTask and where resolveProvider waits
          saveJob,   \* this.saveJobs: a job's identity and the observation it stores
          saveQueue,
          saving,    \* this.saveTask: the write that waits for a busy database
          refresh,   \* this.refreshTask: the hosts found and those still to hydrate
          enabled,   \* the outbound policy allows provider lookups
          db,        \* geo_cache: the observation time stored per host, 0 if none
          oversized, \* hosts whose stored row exceeds the string size limit
          import,    \* whether a committed merge has been announced
          clock,
          stopped

lookupVars == <<job, geoQueue, task>>
saveVars   == <<saveJob, saveQueue, saving>>
dbVars     == <<db, oversized, import>>
worldVars  == <<enabled, clock, stopped>>
vars == <<hosts, cache, lookupVars, saveVars, refresh, dbVars, worldVars>>

\* read: how the owner last read the database; behind: the dataset has changed since.
NoOwner  == [id |-> 0, kind |-> "public", read |-> "other", behind |-> TRUE]
NoEntry  == [status |-> "none", at |-> 0, unsaved |-> 0]
NoTask   == [step |-> "none", host |-> None, owner |-> 0, job |-> 0]
NoSave   == [id |-> 0, obs |-> 0]
NoSaving == [host |-> None, owner |-> 0, save |-> NoSave]
Idle     == [step |-> "idle", found |-> [h \in Hosts |-> "absent"], todo |-> {}]

Init ==
    /\ hosts = [h \in Hosts |-> NoOwner]
    /\ cache = [h \in Hosts |-> NoEntry]
    /\ job = [h \in Hosts |-> 0] /\ geoQueue = <<>> /\ task = NoTask
    /\ saveJob = [h \in Hosts |-> NoSave] /\ saveQueue = <<>> /\ saving = NoSaving
    /\ refresh = Idle
    /\ db \in [Hosts -> {0, 1}] /\ oversized \in SUBSET {h \in Hosts : db[h] = 1}
    /\ import = "none"
    /\ enabled \in BOOLEAN /\ clock = 1 /\ stopped = FALSE

-----------------------------------------------------------------------------
\* cacheGeo, rejectOversizedGeo, hydrate

Current(h, o) == ~stopped /\ o # 0 /\ hosts[h].id = o

\* A row of the database wins over an entry of the same age, and an answer of
\* the provider does not; a later observation stays.
CacheRow(c, at) == IF c.status = "ok" /\ at < c.at THEN c
                   ELSE [c EXCEPT !.status = "ok", !.at = at]
CacheApi(c, at) == IF c.status = "ok" /\ at <= c.at THEN c
                   ELSE [c EXCEPT !.status = "ok", !.at = at]

CacheMiss(c) == IF c.status = "ok" THEN c ELSE [c EXCEPT !.status = "unavailable"]

Unavailable == [NoEntry EXCEPT !.status = "unavailable"]
CacheRejected(c) == IF c.unsaved # 0 THEN c ELSE Unavailable

\* What GeoDatabase.read may return.
Reads(h) == {"error"} \cup (IF h \in oversized THEN {"rejected"}
                            ELSE IF db[h] = 0 THEN {"miss"} ELSE {"hit"})

AfterRead(h, res) ==
    CASE res = "hit"      -> CacheRow(cache[h], db[h])
      [] res = "rejected" -> CacheRejected(cache[h])
      [] OTHER            -> cache[h]

Noted(owner, res) ==
    [owner EXCEPT !.read = IF res \in {"hit", "error"} THEN res ELSE "other", !.behind = FALSE]

-----------------------------------------------------------------------------
\* refreshPeers

Unheld(h) == {i \in Ids : /\ task.host = h => task.owner # i
                          /\ saving.host = h => saving.owner # i}
NewOwner(h) == [NoOwner EXCEPT !.id = CHOOSE i \in Unheld(h) : TRUE]

Gone(found) == {h \in Hosts : hosts[h].id # 0 /\ found[h] # hosts[h].kind}
Without(f, gone, none) == [h \in Hosts |-> IF h \in gone THEN none ELSE f[h]]

\* The hosts of a queue that stay, in its order; no host is in a queue twice.
Staying(queue, gone) ==
    {q \in SetToSeqs(ToSet(queue) \ gone) :
        \A i, j \in DOMAIN q : i < j =>
            \E k, l \in DOMAIN queue : k < l /\ queue[k] = q[i] /\ queue[l] = q[j]}

Found(found) ==
    /\ refresh.step = "idle" /\ ~stopped
    /\ refresh' = [step |-> "hydrating", found |-> found,
                   todo |-> {h \in Hosts : found[h] # "absent"}]
    /\ hosts' = Without(hosts, Gone(found), NoOwner)
    /\ cache' = Without(cache, Gone(found), NoEntry)

\* Mutant: the jobs of a host that left stay in the maps.
RefreshKeepsJobs(found) ==
    /\ Found(found)
    /\ UNCHANGED <<lookupVars, saveVars, dbVars, worldVars>>

\* getpeerinfo has answered: hosts that left or changed between public and
\* private lose their owner, its entry and its jobs.
RefreshPeers(found) ==
    /\ Found(found)
    /\ job' = Without(job, Gone(found), 0)
    /\ saveJob' = Without(saveJob, Gone(found), NoSave)
    /\ geoQueue' \in Staying(geoQueue, Gone(found))
    /\ saveQueue' \in Staying(saveQueue, Gone(found))
    /\ UNCHANGED <<task, saving, dbVars, worldVars>>

\* The loop over the hosts found, which waits between batches.  A public host's
\* row is read when the dataset is new to its owner, and again after a while
\* unless it was there.
HydrateHost(h) ==
    /\ refresh.step = "hydrating" /\ h \in refresh.todo /\ ~stopped
    /\ refresh' = [refresh EXCEPT !.todo = @ \ {h}]
    /\ LET o == [IF hosts[h].id = 0 THEN NewOwner(h) ELSE hosts[h]
                 EXCEPT !.kind = refresh.found[h]]
       IN \/ /\ o.kind = "private"
             /\ hosts' = [hosts EXCEPT ![h] = o]
             /\ cache' = [cache EXCEPT ![h] = [NoEntry EXCEPT !.status = "private"]]
          \/ /\ o.kind = "public" /\ (o.behind \/ o.read # "hit")
             /\ \E res \in Reads(h) :
                  /\ hosts' = [hosts EXCEPT ![h] = Noted(o, res)]
                  /\ cache' = [cache EXCEPT ![h] = AfterRead(h, res)]
          \/ /\ o.kind = "public" /\ ~o.behind
             /\ hosts' = [hosts EXCEPT ![h] = o]
             /\ UNCHANGED cache
    /\ UNCHANGED <<lookupVars, saveVars, dbVars, worldVars>>

\* Whether an entry may be worth a lookup depends on windows and ages too.
MayNeedLookup(c) == c.unsaved = 0 /\ (c.status = "ok" => enabled /\ c.at # clock)

NewJob(h) == CHOOSE i \in Ids : task.host = h => task.job # i
NewSave(h, c) ==
    [id  |-> CHOOSE i \in Ids : saving.host = h => saving.save.id # i,
     obs |-> c.unsaved]

\* The loop over the hosts after all are hydrated: writes that are due again,
\* and lookups.  A host without an entry always needs one.
DispatchMisses ==
    /\ refresh.step = "hydrating" /\ refresh.todo = {} /\ ~stopped
    /\ refresh' = Idle
    /\ LET here == {h \in Hosts : refresh.found[h] # "absent"}
           may  == {h \in here : /\ refresh.found[h] = "public"
                                 /\ hosts[h].read # "error"
                                 /\ MayNeedLookup(cache[h])}
       IN \E due \in SUBSET {h \in here : cache[h].unsaved # 0}, want \in SUBSET may :
            LET saves == {h \in due : saveJob[h] = NoSave}
                jobs  == {h \in want : job[h] = 0}
            IN /\ \A h \in may : cache[h] = NoEntry => h \in want
               /\ job' = [h \in Hosts |-> IF h \in jobs THEN NewJob(h) ELSE job[h]]
               /\ saveJob' = [h \in Hosts |-> IF h \in saves THEN NewSave(h, cache[h])
                                              ELSE saveJob[h]]
               /\ \E q \in SetToSeqs(jobs) : geoQueue' = geoQueue \o q
               /\ \E q \in SetToSeqs(saves) : saveQueue' = saveQueue \o q
    /\ UNCHANGED <<hosts, cache, task, saving, dbVars, worldVars>>

-----------------------------------------------------------------------------
\* queueSave, persistGeo, saveGeo

\* One job per host.
QueueSave(h, c) ==
    IF saveJob[h] # NoSave THEN UNCHANGED <<saveJob, saveQueue>>
    ELSE /\ saveJob' = [saveJob EXCEPT ![h] = NewSave(h, c)]
         /\ saveQueue' = Append(saveQueue, h)

\* A row is stored over an older or an oversized one only.
Upsert(h, at) == IF at > db[h] \/ h \in oversized THEN at ELSE db[h]

\* Mutant: an answer counts as stored when its write has failed.
SaveFailsForgetting(h, save) ==
    /\ cache' = [cache EXCEPT ![h].unsaved = 0]
    /\ saveJob' = [saveJob EXCEPT ![h] = IF @ = save THEN NoSave ELSE @]
    /\ saving' = NoSaving
    /\ UNCHANGED <<db, oversized>>
\* The write has failed: the answer waits for a refresh to queue it again.
SaveFails(h, save) ==
    /\ saveJob' = [saveJob EXCEPT ![h] = IF @ = save THEN NoSave ELSE @]
    /\ saving' = NoSaving
    /\ UNCHANGED <<db, oversized, cache>>

\* The transaction has committed, and its winner becomes the entry.
SaveCommits(h, save) ==
    /\ db' = [db EXCEPT ![h] = Upsert(h, save.obs)]
    /\ oversized' = oversized \ {h}
    /\ LET c == CacheRow(cache[h], db'[h]) IN
       cache' = [cache EXCEPT ![h] = [c EXCEPT !.unsaved = IF @ = save.obs THEN 0 ELSE @]]
    /\ saveJob' = [saveJob EXCEPT ![h] = IF @ = save THEN NoSave ELSE @]
    /\ saving' = NoSaving

\* saveLoop takes the head of the queue; the database may be busy.
StartSave ==
    /\ saving = NoSaving /\ saveQueue # <<>> /\ ~stopped
    /\ saveQueue' = Tail(saveQueue)
    /\ LET h == Head(saveQueue) IN
       \/ SaveCommits(h, saveJob[h])
       \/ SaveFails(h, saveJob[h])
       \/ /\ saving' = [host |-> h, owner |-> hosts[h].id, save |-> saveJob[h]]
          /\ UNCHANGED <<saveJob, db, oversized, cache>>
    /\ UNCHANGED <<hosts, lookupVars, refresh, import, worldVars>>

\* The wait for a busy database is over: it ended because the owner has left,
\* or the write is tried again; a retry that finds it busy changes nothing.
RetrySave ==
    /\ saving # NoSaving
    /\ \/ /\ Current(saving.host, saving.owner)
          /\ SaveCommits(saving.host, saving.save) \/ SaveFails(saving.host, saving.save)
       \/ /\ ~Current(saving.host, saving.owner)
          /\ SaveFails(saving.host, saving.save)
    /\ UNCHANGED <<hosts, lookupVars, saveQueue, refresh, import, worldVars>>

-----------------------------------------------------------------------------
\* resolveGeo, resolveProvider, fetchGeo

\* The three signals a lookup listens to: shutdown, its owner's and its job's.
Live(t) == Current(t.host, t.owner) /\ job[t.host] = t.job

\* Mutant: a lookup that ends leaves its job in the map.
EndLookupKeepsJob(t) == task' = NoTask /\ UNCHANGED job
EndLookup(t) ==
    /\ task' = NoTask
    /\ job' = [job EXCEPT ![t.host] = IF @ = t.job THEN 0 ELSE @]

\* Read the row again, and go on to ask the provider only if nothing has
\* superseded the lookup; otherwise it ends, with a write that is still due
\* or with what the database says.
Decide(t, next) ==
    \E res \in Reads(t.host) : LET h == t.host  c == AfterRead(h, res) IN
      /\ hosts' = [hosts EXCEPT ![h] = Noted(@, res)]
      /\ \/ /\ c.unsaved # 0
            /\ cache' = [cache EXCEPT ![h] = c]
            /\ QueueSave(h, c) \/ UNCHANGED <<saveJob, saveQueue>>
            /\ EndLookup(t)
         \/ /\ c.unsaved = 0
            /\ cache' = [cache EXCEPT ![h] = IF res = "error" THEN c ELSE CacheMiss(c)]
            /\ UNCHANGED <<saveJob, saveQueue>>
            /\ EndLookup(t)
         \/ /\ MayNeedLookup(c) /\ res # "error" /\ enabled
            /\ cache' = [cache EXCEPT ![h] = c]
            /\ UNCHANGED <<saveJob, saveQueue, job>>
            /\ task' = [t EXCEPT !.step = next]

\* geoLoop takes the head of the queue.
StartLookup ==
    /\ task = NoTask /\ geoQueue # <<>> /\ ~stopped
    /\ geoQueue' = Tail(geoQueue)
    /\ LET h == Head(geoQueue) IN
       Decide([step |-> "start", host |-> h, owner |-> hosts[h].id, job |-> job[h]], "waiting")
    /\ UNCHANGED <<saving, refresh, dbVars, worldVars>>

Abandon ==
    /\ EndLookup(task)
    /\ UNCHANGED <<hosts, cache, geoQueue, saveVars, refresh, dbVars, worldVars>>

\* The wait for the next request the provider allows is over (it may have been
\* none at all): imports, preferences and windows may have superseded the lookup.
Wake ==
    /\ task.step = "waiting"
    /\ \/ /\ Live(task)
          /\ Decide(task, "fetching")
          /\ UNCHANGED <<geoQueue, saving, refresh, dbVars, worldVars>>
       \/ ~Live(task) /\ Abandon

\* The provider has answered: the row is read again, for an import may have
\* committed meanwhile, and the answer is kept until it is stored.
AnswerGood ==
    /\ task.step = "fetching" /\ Live(task)
    /\ \E res \in Reads(task.host) : LET h == task.host IN
         LET c == [CacheApi(AfterRead(h, res), clock) EXCEPT !.unsaved = clock] IN
         /\ hosts' = [hosts EXCEPT ![h] = Noted(@, res)]
         /\ cache' = [cache EXCEPT ![h] = c]
         /\ QueueSave(h, c)
    /\ EndLookup(task)
    /\ UNCHANGED <<geoQueue, saving, refresh, dbVars, worldVars>>

\* It has no location for the host, it failed, or it took ten seconds.
AnswerBad ==
    /\ task.step = "fetching" /\ Live(task)
    /\ \E res \in Reads(task.host) : LET h == task.host  c == AfterRead(h, res) IN
         /\ hosts' = [hosts EXCEPT ![h] = Noted(@, res)]
         /\ cache' = [cache EXCEPT ![h] = IF res = "error" THEN c ELSE CacheMiss(c)]
    /\ EndLookup(task)
    /\ UNCHANGED <<geoQueue, saveVars, refresh, dbVars, worldVars>>

AnswerLate == task.step = "fetching" /\ ~Live(task) /\ Abandon

-----------------------------------------------------------------------------
\* cancelProviderWork, the merge worker, stop

\* applyOutboundPolicy withdraws the permission, or gives it back.
Withdraw ==
    /\ enabled /\ ~stopped
    /\ enabled' = FALSE
    /\ job' = [h \in Hosts |-> 0] /\ geoQueue' = <<>>
    /\ UNCHANGED <<hosts, cache, task, saveVars, refresh, dbVars, clock, stopped>>

Permit ==
    /\ ~enabled /\ ~stopped
    /\ enabled' = TRUE
    /\ UNCHANGED <<hosts, cache, lookupVars, saveVars, refresh, dbVars, clock, stopped>>

\* The worker thread commits a dataset: rows it has for some hosts, of some age.
ImportCommit(found, at) ==
    /\ import # "committed" /\ ~stopped
    /\ import' = "committed"
    /\ db' = [h \in Hosts |-> IF h \in found THEN Upsert(h, at) ELSE db[h]]
    /\ oversized' = oversized \ found
    /\ UNCHANGED <<hosts, cache, lookupVars, saveVars, refresh, worldVars>>

\* Mutant: the owners are not told that the dataset has changed.
ImportDoneSilently ==
    /\ import = "committed" /\ ~stopped
    /\ import' = "none"
    /\ UNCHANGED <<hosts, cache, lookupVars, saveVars, refresh, db, oversized, worldVars>>

\* Its message has arrived: every owner will read again.
ImportDone ==
    /\ import = "committed" /\ ~stopped
    /\ import' = "none"
    /\ hosts' = [h \in Hosts |-> [hosts[h] EXCEPT !.behind = TRUE]]
    /\ UNCHANGED <<cache, lookupVars, saveVars, refresh, db, oversized, worldVars>>

\* The minute an update may take ended after the commit: nobody is told.
ImportLost ==
    /\ import = "committed" /\ ~stopped
    /\ import' = "lost"
    /\ UNCHANGED <<hosts, cache, lookupVars, saveVars, refresh, db, oversized, worldVars>>

Tick ==
    /\ clock < MaxClock /\ ~stopped
    /\ clock' = clock + 1
    /\ UNCHANGED <<hosts, cache, lookupVars, saveVars, refresh, dbVars, enabled, stopped>>

\* Shutdown: the waits of both workers end by their signals.
Stop ==
    /\ ~stopped
    /\ stopped' = TRUE
    /\ hosts' = [h \in Hosts |-> NoOwner] /\ cache' = [h \in Hosts |-> NoEntry]
    /\ job' = [h \in Hosts |-> 0] /\ geoQueue' = <<>>
    /\ saveJob' = [h \in Hosts |-> NoSave] /\ saveQueue' = <<>>
    /\ refresh' = Idle
    /\ UNCHANGED <<task, saving, dbVars, enabled, clock>>

Refreshing ==
    \/ \E found \in [Hosts -> Kinds] : RefreshPeers(found)
    \/ \E h \in Hosts : HydrateHost(h)
    \/ DispatchMisses
LookingUp == StartLookup \/ Wake \/ AnswerGood \/ AnswerBad \/ AnswerLate
Saving    == StartSave \/ RetrySave
Importing == \/ \E found \in SUBSET Hosts, at \in 1..MaxClock : ImportCommit(found, at)
             \/ ImportDone \/ ImportLost

Next == Refreshing \/ LookingUp \/ Saving \/ Importing \/ Withdraw \/ Permit \/ Tick \/ Stop

Spec == Init /\ [][Next]_vars

\* The workers run on, waits end, a request is given up after ten seconds and a
\* refresh that has begun goes through its hosts.
FairSpec ==
    /\ Spec
    /\ WF_vars(StartLookup) /\ WF_vars(Wake) /\ WF_vars(AnswerBad \/ AnswerLate)
    /\ WF_vars(RetrySave) /\ WF_vars(StartSave)
    /\ WF_vars(DispatchMisses) /\ \A h \in Hosts : WF_vars(HydrateHost(h))

-----------------------------------------------------------------------------
Entries == {NoEntry, Unavailable, [NoEntry EXCEPT !.status = "private"]}
           \cup [status : {"ok"}, at : 1..MaxClock, unsaved : 0..MaxClock]

\* Types of the service's maps; only a known location has an observation, and
\* only a known location may have an answer that is still to be stored.
TypeOK ==
    /\ hosts \in [Hosts -> [id : Ids \cup {0}, kind : {"public", "private"},
                            read : {"hit", "other", "error"},
                            behind : BOOLEAN]]
    /\ cache \in [Hosts -> Entries]
    /\ job \in [Hosts -> Ids \cup {0}] /\ geoQueue \in Seq(Hosts)
    /\ task.step \in {"none", "waiting", "fetching"}
    /\ saveJob \in [Hosts -> {NoSave} \cup [id : Ids, obs : 1..MaxClock]]
    /\ saveQueue \in Seq(Hosts)
    /\ db \in [Hosts -> 0..MaxClock] /\ oversized \subseteq {h \in Hosts : db[h] # 0}
    /\ import \in {"none", "committed", "lost"}
    /\ enabled \in BOOLEAN /\ clock \in 1..MaxClock /\ stopped \in BOOLEAN

\* Nothing is kept for a host that has left, whatever answers arrive late, and
\* a private address never gets a location or a job.
OnlyPresentHosts ==
    \A h \in Hosts :
      /\ hosts[h].id = 0 => cache[h] = NoEntry /\ job[h] = 0 /\ saveJob[h] = NoSave
      /\ cache[h].status = "private" \/ hosts[h].kind = "private"
           => cache[h].status \in {"none", "private"} /\ job[h] = 0 /\ saveJob[h] = NoSave

\* An owner that has read the current dataset serves a location at least as new
\* as the stored one, unless an import's announcement was lost.
CacheKeepsUp ==
    import = "none" =>
      \A h \in Hosts : hosts[h].read = "hit" /\ ~hosts[h].behind /\ hosts[h].kind = "public"
                       => cache[h].status = "ok" /\ cache[h].at >= db[h]

\* While its owner stays, an answer of the provider is let go only when the
\* database holds it or something newer.
AnswersAreStored ==
    [][\A h \in Hosts :
         /\ cache[h].unsaved # 0 /\ cache'[h].unsaved # cache[h].unsaved
         /\ hosts'[h].id = hosts[h].id
         => db'[h] >= cache[h].unsaved]_vars

\* Every lookup that is queued ends, in an answer or without one.
EveryLookupEnds == \A h \in Hosts : job[h] # 0 ~> job[h] = 0
=============================================================================
