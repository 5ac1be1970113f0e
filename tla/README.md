# Bitcoin Peer Map: a TLA+ model

Bitcoin Peer Map is a dashboard for a Bitcoin node: a Node.js server that polls
the node over JSON-RPC, finds where its peers are, and serves a browser
application. This directory holds TLA+ modules that model the parts of both
where several things happen at once or in an order nobody chose, TLC
configurations that check them on small instances, and proofs that TLAPS checks
for every instance. Paths of the server below are relative to `src/server/` of
the repository, those of the browser to `src/static/js/`.

The server runs on one event loop, and so does every tab of the browser. A piece of
code between two waits is atomic; what makes the program hard is what happens
*during* a wait: callers disconnect, sessions are revoked, peers leave, preferences
change, timers fire, another thread commits rows, another tab locks, the user
clicks, the process is stopped or killed. A step of these modules is therefore
what the code runs between two waits, and each module names the waits it keeps.

## Inventory

| Component (source) | State | Operations | What is hard | What must hold |
|---|---|---|---|---|
| RPC client gate (`rpc.ts`) | `active`, `waiting` | `acquire`, `release`, `request`; a call's signal joins its timeout, its caller and the shutdown | a signal fires while queued, between grant and dispatch, or while sent | slots neither leak nor double, FIFO, cancelled work is never sent, every call ends |
| Shared reads (`shared-read.ts`) | `cached`, `pending`, `generation`, loads with `subscribers` | `get`, `invalidate`, the end of a load | readers join and leave a load under way; loads settle out of order; invalidation under way | a load is cancelled exactly when nobody waits, nothing older than the last invalidation is told, only the load that is current and wanted is joined |
| Keyed reads (`shared-read.ts`, `tasks.ts`) | `active`, `failures`, an LRU cache | `get`, `onIdle`, `prune` | keys move between the maps as late loads settle | one load of a key, nothing kept for ever |
| Node service (`services/node.ts`) | caches, ban and connect mutations | reads, the chain tips with their workers, mutations | deadlines inside deadlines over loads that others share; a mutation whose reply is lost | a reading ends although every load hangs |
| Peer geolocation (`services/peers.ts`) | `hosts`, `geoCache`, `providerJobs`, `geoQueue`, `saveJobs`, `saveQueue`, `providerTask`, `saveTask` | refresh, hydrate, look up, save, cancel, stop | everything a lookup or a write assumed may change while it waits | nothing for hosts that left, never an older location, answers are stored, queues and jobs agree |
| GeoIP database (`services/geoip.ts`, `geoip-merge.ts`) | rows, `generation`, `updating` | `read`, `save`, `update`, a merge on a worker thread | a merge commits between a read and a write; its message may be lost | the newest observation wins, one update at a time |
| Browser sessions (`browser-sessions.ts`) | `sessions`, `watchers` | `issue`, `logout`, `watch`, expiry, `clear` | lost replies leave sessions behind; watchers are told by events and by timers | every watcher is told |
| Request pipeline (`app.ts`) | one record per request | wallet route, event stream, `close` | the session ends during the route, the compression or a sample | nothing private leaves after revocation |
| Runtime (`runtime.ts`, `outbound-policy.ts`, `preferences.ts`) | preferences in memory and on disk, permissions, update timer and task | start, stop, set a preference, schedule | a permission is withdrawn and given back while work winds down; crashes | permitted work is never forgotten, forbidden work is told to stop, a restart restores what was in force |
| Release checks (`services/updates.ts`) | `timer`, `pending` | schedule, check | as above | as above |
| Connectivity (`services/connectivity.ts`) | `checker`, internet state, provider retry windows | probe loop, provider outcomes | a loop that ends as it is wanted again | probing resumes |
| Wallets (`services/wallets.ts`, `wallet-preferences.ts`) | a choice with a revision in memory and on disk, a chain of writes, the catalogue, its cache and its cursor | `setPreferences`, `preferences`, `snapshot`, `refresh` | eligibility reads between queueing and writing; callers that leave; failed saves, a foreign or bad file, restarts; a budget that runs out | writes in order, answers persist, no wallet starves |
| Authentication windows (`admin-auth.ts`, `viewer-auth.ts`) | failures per anonymous client | refuse, count, expire | the limit of clients | |
| Node metrics, peer rates (`services/node-metrics.ts`, `peer-rates.ts`) | previous sample | sample, clear | outages of the node | |
| Process (`main.ts`) | `stopping` | start, wait for the node, signals | a signal during start | |
| HTTP, security, settings, formats (`http.ts`, `security.ts`, `settings.ts`, ...) | none | pure functions and I/O | | |
| Browser: management access (`core/admin-auth.js`, `core/api.js`, `core/viewer-auth.js`) | what a tab knows of the session, revisions, lock state, the prompt and its waiters, messages between tabs | lock, unlock, revalidate, expire, prompt, a request that is retried once | tabs that close between two broadcasts, lost replies, answers that outlive a lock, presses that wait at one prompt | an action runs once, no late answer undoes a lock, a told tab is told the outcome |
| Browser: viewing access (`core/viewer-auth.js`, `core/api.js`, `app.js`, `access.js`, `core/polling.js`, `peers/refresh.js`) | the view, the imported dashboard, one pending read, the rates shown and their age, the page's visibility and place in the cache | start, verify, import, poll, lock, expire, hide, cache, show | a dashboard imported after the lock; pages kept and shown again; a session that ends silently; rates that grow old while nothing answers | nothing private after a lock, a page that is never stuck, live rates |
| Browser: wallet ticker (`wallets/ticker.js`) | choice, edits wanted and queued, revision, generation, rotation, popup | read, edit, save, rotate, wipe | edits during a save, saves of other pages, answers of an older generation | the latest edit is shown, then the server's choice; nothing private after a lock |
| Browser: distribution (`distribution/*.js`, `map/navigation.js`, `peers/detail.js`) | what is selected, pinned, filtered, previewed and open | every click, key, hover and poll | any order of them | no layer outlives what it hangs from; a poll reconciles and navigates nowhere; Escape gets out |
| Browser: private networks (`peers/private-*.js`) | the mode, its panel, pinned list, insight, popup and timers | the same | timers of 100 to 500 ms against clicks and polls | no old timer undoes a new transition; a poll reconciles |
| Browser: table, node charts, settings panels | | | rendering and forms | |

How they meet: `AppRuntime` owns one `BitcoinRpcClient` that every service calls;
the node and wallet services read through `SharedRead`; `PeerService` reads and
writes `GeoDatabase` and asks the provider through `ConnectivityService` under
`OutboundPolicy`; preference changes reach services as aborted signals and as
listener calls; `createApplication` puts sessions in front of all of them and stops
the runtime when it closes. In the browser, `core/api.js` stands between every
panel and the server and asks `core/admin-auth.js` for management access; tabs
share the cookie and a `BroadcastChannel` and nothing else; a poll hands one
snapshot of the peers to the map, the table, the distribution and the private view
in turn, and the two explorations exclude each other through the map's filter.

## Modules

| Module | Models | Notes |
|---|---|---|
| `RpcAdmission` | what the gate promises: arrivals served in order, at most so many inside, so many in line | abstract specification |
| `RpcGate` | `BitcoinRpcClient` | `pc` is where a call waits, `aborted` its combined signal, `active` and `waiting` the code's own variables; refines `RpcAdmission` |
| `FreshRead` | what a shared read promises: an answer not older than the last invalidation before the question | abstract specification |
| `SharedRead` | `SharedRead.get` and `invalidate` | `flight` is the map of loads with the code's `subscribers`, `settled` and abort signal, and `phase` is how far its promise chain is; `pc`, `on` are where each reader's promise hangs; `floor`, `since`, and the version and time in an outcome are history; refines `FreshRead` |
| `KeyedReads` | `KeyedSharedReads` and the LRU cache behind it | `shared` holds the active map, the failures, the reads and their loads; a read has an identity because late loads settle into the read they began in |
| `ChainTips` | the chain tips and the dashboard's header of `services/node.ts` | EXTENDS `KeyedReads` and gives it its readers: workers under a budget, and a dashboard that may leave; its specification is `TipsSpec` |
| `PeerGeo` | `PeerService`'s geolocation over `GeoDatabase` | owners and jobs have identities because the code compares objects (`job?.owner === owner`) |
| `BrowserSessions` | sessions, watchers, the wallet route and the event stream of `app.ts` | `req` has one record per request; a watcher is the request's `timer` |
| `OutboundRuntime` | preferences, policy, dataset, release and probe schedules, crashes | a permission is a signal: work remembers whether the one it began under has been aborted |
| `WalletService` | the wallet service and its store | `writes` is the chain of `preferenceWrites`, `mem` and `disk` the store, `cursor` and `flight` the catalogue; `answered` and `since` are history |
| `WalletTicker` | the ticker of a page | `c` has the fields of the closure; `requests` those under way in any generation; `log` is the server's history of choices |
| `Management` | `createAdminAuthentication` and `createApi` in several tabs over one session | one record per tab, a `channel` of messages to each; a captured revision is one bit of the operation that holds it: still current or not |
| `Viewing` | `createViewerAuthentication`, `startApplication`, the polling and the refresh of peers in one page | handlers are operators from a page and its requests to the next ones; actions apply them |
| `Distribution` | the controllers of the distribution, as far as they decide what is open | `ui` is their state; each handler is an operator from one `ui` to the next and calls what the code calls, in its order |
| `PrivateNetworks` | the controllers of the private mode | as `Distribution`; `opens`, `picks`, `hides` are the timers that are set |
| `Outgoing_proofs` | | theorems about what leaves the server: the calls of `RpcGate`, the permissions of `OutboundRuntime` and the header loads of `ChainTips`; it extends all three, so the specifications of the last two are named `RuntimeSpec` and `TipsSpec` |
| `SharedRead_proofs`, `PeerGeo_proofs`, `BrowserSessions_proofs`, `WalletService_proofs`, `WalletTicker_proofs` | | theorems about the module of that name |
| `Page_proofs` | | theorems about what a page shows, of `Viewing` and of `PrivateNetworks`; it extends both, so the specification of the latter is named `NetworksSpec` |
| `Dashboard_proofs` | | theorems about `Management` and about `Distribution`; it extends both, so the specification of the latter is named `DistributionSpec` |
| `MC*` | | constants for TLC only |

Definitions carry the names of the code where there is one; `PROJECT.json` gives
the lines each of them stands for. Operators marked "Mutant" are not part of any
specification: each is a plausible mistake in the definition that follows it,
kept to show that the properties notice it. `TypeOK`, where a module has one, is
its type invariant; it is proved where a module has proofs (`Dashboard_proofs` has the
types of a tab in its invariant instead), and spends no run of its own.

### What each module leaves out, and what a step is

* `RpcGate`: `acquire` and the check after it are two steps, because the caller's
  continuation runs after the grant. A response and an error differ, what they
  say does not.
* `SharedRead`: every callback of a load's promise chain is a step, up to the one
  of `finally`, which sets `settled` and clears the slot; then the chain is over, and
  each reader is told in a step of its own, in any order.
  Loads are asynchronous and read the source once, at any time while they run.
  Versions, generations and time are bounded by `MaxVersion`, `MaxGeneration`,
  `MaxTime`.
* `KeyedReads`, `ChainTips`: a settlement is one step (`SharedRead` has its parts).
  A load that was refused because the RPC queue is full is a result of its own,
  since it ends the whole reading of the tips; whether a failure that is kept was
  such a refusal is nondeterministic. Which failure has expired is nondeterministic,
  also between the two looks at the clock in one `get`. One reading of the tips
  is under way at a time; the code shares it.
* `PeerGeo`: a location is its observation time, bounded by `MaxClock`. Retry
  windows, the spacing of requests and the age at which a record is stale are
  nondeterministic, so every combination of "due" and "not due" is explored. A
  provider delay of zero is a wait in which nothing happens. A `finally` that
  removes a job runs with the step that ends the job: only microtasks are
  between. `Ids` are the identities an owner or a job may have; one is used again
  once nothing holds it. The database is enabled; rows that are invalid but not
  oversized are left out.
* `BrowserSessions`: a timer reaches no further than `MAX_TIMER`, which is shorter
  than a session, so watchers also check on the way. Requests authenticate with the cookies they came with.
  Bearer tokens pass no session and are left out, and so are cookies presented
  under the wrong role. `Keys` bounds the sessions ever issued, `MaxTime` the
  clock.
* `OutboundRuntime`: delays are "now" or "later" and a set timer may fire at any
  moment. `BPM_OUTBOUND_ENABLED`, `BPM_GEOIP_AUTO_UPDATE` and a disabled database
  fix a permission for the life of the process and are left out; the provider's
  permission is in `PeerGeo`.
* `WalletService`: a wallet is its place among the sorted names; a save is
  synchronous, so it is one step with its possible ends (stored, refused with
  nothing changed, or stored by a process that dies before it answers). Balances
  are a state of a row. `MaxWrites` and `MaxCrashes` are bounds.
* `WalletTicker`: a choice is its set of wallets; unit, speed and pause are edited
  and saved the same way. `MaxEvents` bounds edits, saves elsewhere, changes of
  management and failures; polls, rotations, hiding and clicks are not bounded.
* `Management`: what a verification answers (accepted, refused, wait) is a choice;
  the countdown of a cooldown is left out. One action, one read and the commands
  of the prompt stand for every request of the panels: they are the three ways
  `core/api.js` treats one. A server that was restarted without management is left
  out: its 403 ends the generation as a denial does. `MaxEvents` bounds what the user and the clock do.
* `Viewing`: what the access page draws is left out. An import is "current" or
  "stale" by the revision it was begun under. `MaxStamp` bounds the snapshots of
  the node, `MaxEvents` failures, locks, ends of sessions, reloads and cached pages.
* `Distribution`, `PrivateNetworks`: drawing, animation, geometry, scrolling, text
  and keyboard focus are left out. A rendered container loses the element the
  pointer was on, as it does in the browser. Neither has a bound: their states are
  finite.

## Runs

| Run | Instance | What it shows |
|---|---|---|
| `rpc_gate` | 5 callers, 2 slots, 2 places in the queue | `SlotsAccounted`, `CancelledNeverDispatches`, the refinement `ImplementsAdmission`, and that every call ends. Five callers are the least that fill slots and queue and turn one away while two wait in an order that matters |
| `shared_read` | 2 readers, 2 loads, times to live of 1, one change, one invalidation | `ReadersKeepFlight`, `PendingIsWanted`, the refinement `ImplementsFreshRead`. Two loads are an old one that settles late and a new one; two readers are one that leaves and one that stays or joins. The theorems have any number |
| `chain_tips` | 2 workers and the dashboard, 2 headers, 3 reads, 3 loads, room for one failure and one value | `OneLoadPerKey`: a key that somebody waits for is loaded by one read; `StorageIsBounded`: an active key has a load and the failures stay within their limit; `TipsEnd`. The limits of 1 make both stores evict; a third read is one that took a key over while an old load of it hangs |
| `peer_geo` | 1 host, all kinds, imports, clock to 2 | `OnlyPresentHosts`, `CacheKeepsUp`, `AnswersAreStored`, `EveryLookupEnds`. These relate one host's owner, entry, jobs and row; hosts meet only in the queues. Three identities are an owner that left, one that came back, and one job of each |
| `browser_sessions` | 1 browser, 2 requests, room for 2 sessions that last 2, timers of at most 1, 5 keys | `OnlyToValidSessions`, `ToldAtOnce`. Two requests are a login or logout and what it does to the other; lost replies fill the map with one browser |
| `outbound_runtime` | everything (finite without bounds) | `ScheduleKept`, `OnlyWhilePermitted`, `SavedIsInForce`, `ProbingResumes` |
| `wallet_service` | 3 wallets, one of which may be unloaded, 2 writes, 1 restart, files of this node, another one and a bad one | `LastSuccessStands`, `AnswersPersist`, `RoundRobin`, `WritesEnd`. Three wallets under two workers are the least in which a cursor can skip one |
| `wallet_ticker` | 2 wallets, 3 choices, 4 events | `EditsReconcile`, `PrivateWhileUnlocked`, `Converges`. Four events are two edits, another page's save and a failed request, or a lock and an unlock around an edit |
| `management` | 2 tabs, one of which may close, 4 events | `RunsOnce`, `PromptServes`, `NoAccessAcrossLock`, `LocksResolve` |
| `viewing` | the three access modes, 2 snapshots, 3 events | `NothingAfterLock`, `RatesAreLive`, `LockedPagesReopen`, `ExpiredViewCloses` |
| `distribution` | 3 peers of 2 providers, 2 countries and 2 networks, 2 snapshots, one segment and Others, 8 kinds of element under the pointer, one insight | `LayersNest`, `PollingSettles`, `EscapeDescends`. One provider has two peers, of which one leaves with a poll; the snapshots change what leads, what is in Others and who has a popup |
| `private_networks` | 2 private peers at one place and a public one, 2 snapshots, 4 kinds of element, one insight | `TimersServeTheMode`, `PollingSettles`. A poll removes the private peer that is selected, pinned, leading or named by the insight, and with it its network, or brings it back; the theorems have any snapshots |

`CHECK_DEADLOCK FALSE` is given for `peer_geo`, whose `Stop` ends it, and for
`management`, `wallet_ticker` and `viewing`, where a page whose user does nothing
more is at rest (and the bound on events may be used up). Symmetry is used only in
`browser_sessions`, which checks no liveness.

`PollingSettles` speaks of what a poll *would* do in every reachable state, for every
snapshot it may bring: it applies the poll's operator twice. `LastSuccessStands`
allows for a write that was stored and whose client was never answered, since a
crash may come between the two.

`CacheKeepsUp` has an exception that the code has: the minute an update may take
can end between the worker's commit and its message (`services/geoip.ts:179`); the
rows are stored and no owner is told until the next import.

Operators marked Mutant are used as follows: for every property of every run,
`PROJECT.json` names a definition and the mutated form under which TLC finds the
property violated with the run's own configuration.

### Fairness

Fairness is assumed of what the event loop, a deadline or a timer guarantees, and
of nothing a user, a peer or the node decides.

* `RpcGate`: each call's timeout fires (`AbortSignal.timeout`), granted
  continuations run, and a request that was destroyed reports its error. That the
  node answers is not assumed.
* `ChainTips`: the list of tips arrives or fails, a finished reading is told, a
  worker that can take a key takes it again and again, and each age ends, by its
  deadline if by nothing else. The last two are stated on what is enabled
  (`[]<>(~CanTake(w)) \/ []<><<Take(w)>>_t`), which is weak fairness without an
  `ENABLED` that TLC would have to compute. That a header load settles is
  *not* assumed: the property is about loads that hang.
* `PeerGeo`: both worker loops go on, sleeps end, a provider request ends within
  ten seconds, a refresh that has its peers goes through them. Refreshes, answers,
  imports and permissions are not assumed to come.
* `OutboundRuntime`: start-up goes on, set timers fire, downloads and checks end by
  their deadlines, a merge and the removal of files are finite.
* `WalletService`: each write that has reached the head of its chain goes on, and
  the budget of a catalogue that is being read ends.
* `WalletTicker`: the poll's timer fires, and of the requests for the choice and for
  saves one moves again and again while there is one. They have timeouts in
  `core/api.js`; that they succeed is not assumed, failures are bounded events.
* `Management`: for each tab, its system steps (a request is served, an answer or a
  timeout comes, a message is delivered) go on. Users owe nothing.
* `Viewing`: the server answers or fails what it was asked, answers about peers and
  logouts are delivered, the poll's timer fires, a page that navigates is replaced.

## Proofs

Every theorem is about the specification for all values of the constants that
satisfy the module's assumption, and so for any number of callers, readers, loads,
events and steps.

`Outgoing_proofs` about `RpcGate` (from `LimitsAssumption`: `RPC_CONCURRENCY` a
positive natural number, `RPC_QUEUE_LIMIT` a natural number):

* `TypeCorrect`, `SlotsAreAccounted`, `QueueIsExact`, `NoIdleSlot`: the invariants;
* `NobodyBarges`, `CancelledIsNeverSent`: the action properties;
* `GateImplementsAdmission`: `RpcGate` implements `RpcAdmission`.

The argument: `active` is a counter, so "one per holder" is not inductive on its
own. A release moves a slot to the head of the queue, so it has to be known that
the head is a queued call and none of the holders (`QueueExact`), that the set of
holders is finite (lemmas on `Cardinality` of a set that gains or loses one
member), and that a queued call implies a full gate (`WorkConserving`), without
which a slot could be free while somebody waits after a cancellation. `Invariance`
proves the conjunction with the type invariant inductive, one step per action;
the refinement uses it to show that a release which wakes the head is both a
departure and an arrival of the abstract line.

`SharedRead_proofs` (from `SharedReadAssumption`):

* `ReadInvariance`; `ReadersKeepTheirLoad`: the count of a load is its readers, and
  a load somebody waits for is aborted only by its own failure;
* `OnlyWantedLoadsAreJoined` (`PendingIsWanted`): the slot that `get` joins holds
  exactly the load of this generation that has not settled and still has a reader;
* `ReadImplementsFreshRead`: no reader is told a version older than the last
  invalidation before it asked.

The argument: the count is exact and counts a finite set (`Counted`); a load that
was aborted has failed, or has neither a reader nor the slot in which one could
join it (`FlightSound`), so no join can meet it; and what a load has read is not
older than the floor unless an invalidation has let go of it, in which case its
generation is not the current one and it can neither fill the cache nor be
joined. The slot itself is part of the invariant, as an equivalence: a step that
ends, cancels or lets go of a load must clear its own slot and no other, and since a
load begins only when the slot is empty, no second one of the generation can be
wanted beside it. A reader that asked before the invalidation may still be told it, and its
own bound `since` is below. Each step of the code is then an `Ask`, an `End` or a
stutter of `FreshRead`.

`Page_proofs` about `Viewing` (from `ViewingAssumption`):

* `ViewInvariance`; `LockIsFinal`: nothing that was under way when a page was locked
  brings anything back; `OnlyLiveRates`: the rates shown are of a live snapshot or
  of one that has grown old since the page last looked.

The argument: handlers turn a page with its requests into the next one, so one lemma
per handler shows that it keeps what the invariant says of such a pair (`Fine`), and
one per action that it applies its handler. What has to be added to the two
properties: a page that is locked has no request but its logout and no import
under the current revision (`Locked`), the countdown runs exactly while a
dashboard is looked at (`Dashboard`), and a private page in the cache is one that
is being reset.

`Page_proofs` about `PrivateNetworks` (from `PrivateNetworksAssumption`: a timer that
opens the overview is not the absence of a timer, snapshots are of the peers, and `None`,
which stands for `null` in the code, is no row, no popup and no set of peers; any peers,
networks, places, insights and snapshots):

* `TimersInvariance`; `TimersServe` (`TimersServeTheMode`): a timer of a transition
  that was replaced neither hides the panel that is open in the mode nor opens one
  outside it, whatever is clicked, polled or fires late.
* `TiedInvariance`; `PrivatePollsSettle` (`PollingSettles`): one poll brings the panel,
  the pinned list, its lines and the table, the popup and the insight to the new peers;
  it navigates nowhere and drops only what is gone; the same poll again changes nothing.

The argument: of the whole state of the controllers six fields decide what the timers
do, `mode`, `panel.shown`, `hidden` and the timers `hides`, `opens` and `picks`. Most of
the handlers, which call one another several deep, leave these alone, and that
composes (`Same`, `SameTwice`), so a refresh of the mode, the selection of a peer or a
pinned list need one lemma each and no cases. The few that enter and leave the mode
and open and close the panel keep `Serves`. Inductive it becomes by one fact more, a
panel that is to be hidden is not open: closing it sets the transition, and whatever
opens it again takes the transition away, in the mode and on the way into it;
and by `Nearly`, which holds in the moment in which
a timer has been taken and has not yet opened its panel.

For polls it has to be known which of the other fields belong together (`Tied`): a
pinned list has the row it is resolved from, an insight has its rectangle and a peer of
a private network, and a popup and an insight are those of the selected peer. Without
the last, a poll that drops a selected peer could close the popup of another, and one
that closes a popup could deselect a peer that is still there. Selecting a peer is the
handler to look at: an insight's click opens the insight first and selects its peer
after it, so in between only the weaker `Loose` holds (`SelectTied`). A poll is then
taken apart into its stages, the new peers, the group of a place, the popup and the
refresh of the mode, which itself draws the donut, fills the panel, follows the insight
and resolves the pinned list, each with a lemma on what it leaves (`DonutSettled` to
`PinSettled`) and what it leaves alone (`Alike`, `Steady`, `Keeps`). That the second poll
changes nothing (`SettledStays`) is not stage by stage: filling the panel takes the row
of a pinned list away, and resolving the list puts it back (`DrawnStays`).

`Outgoing_proofs` about `OutboundRuntime` (which has no constants; the proof does not
enumerate its states):

* `RuntimeInvariance`; `PermittedWorkIsKept`, `WithdrawnWorkIsTold`,
  `SavedChoiceIsInForce`, `UpdatesExclude`.

The argument: the properties are nearly inductive together. Two facts are missing
and added: a process that starts has begun nothing before it runs but its probes
(`StartsIdle`), and an update that has not been told to stop is permitted in *every* step
of its life and, if scheduled, counts as tried (`UpdatesTold`), without which a
merge that outlives its download could end as if tried under a later permission.

`Outgoing_proofs` about `KeyedReads` and `ChainTips` (from `KeyedReadsAssumption`: reads
and loads are finitely many positive numbers, `None` is none of them and no key; and
`ChainTipsAssumption`: the readers are the workers and the dashboard, and a list of tips
is a sequence of keys, none of which is a word for where a worker is):

* `LoadsInvariance`; `LoadsOncePerKey`: no key is loaded twice at once, and whoever asks
  for it finds the load; `LoadsAreBounded`, `ValuesAreBounded`: slots end with their
  loads, failures and values keep to their limits, each key once;
* `NoReaderIsForgotten` (`TipsTypeOK`): a worker or the dashboard waits for a load
  exactly while it is one of its readers.

The argument: the two properties speak of loads that are live and of slots that are
taken, and neither says what a load that was let go of may still do when it settles.
The invariant (`Sound`) follows every read: one that loads owns the slot of its key and
a load that nobody aborted (`Loads`); a slot is taken only by such a read (`Slots`); a
load is the load of its read until the last reader leaves, which is exactly when it is
aborted (`Loaded`); a failure that is kept is settled, and no slot and no other failure
has its key (`Failed`). So a late load meets a read that has another load, or none, and
finds neither a slot to clear nor a failure to add. There is a lemma for each operation
of `KeyedReads`, over any state of the store. The readers are followed by `Waits`: a
reader that asked for a key is among the readers of one load, which is of that key, and
any other is among those of none. That a list without some of its entries keeps
their order and repeats none rests on the well-founded order of the positions, which
stands for the induction the provers cannot do.

`BrowserSessions_proofs` (from `SessionsAssumption`: keys are positive numbers,
`MAX_SESSIONS`, `LIFETIME` and `MAX_TIMER` positive):

* `SessionsInvariance`, `SessionsTypes`; `RevocationIsTold`: a request is told in the step that revokes
  its last session, or its timer is due; `SentOnlyToValidSessions`: nothing leaves
  without a session; `RoomForSessions`: the map is never over its limit.

The argument: a request that has not been told watches a session with a timer due no
later than its end, or its timer is due (`Relies`). Steps that let sessions expire
keep that (`Outlives`), and the steps that end a session early have every watcher
check again (`NotifiedFacts`), with one exception: a login that finds no room ends
the session of its own browser and notifies nobody. It cannot have ended one that
stands, because its place would have been room enough. For that the limit itself
belongs in the invariant (`Bounded`), with the lemmas on finite sets that gain or lose
a member.

`WalletService_proofs` (from `WalletServiceAssumption`: wallets are a finite set of
numbers, the places of sorted names; the catalogues, choices and files are of those
wallets. That a file found at the start has a choice of wallets and a natural
revision is what the store's constructor checks before it takes one for its own):

* `WalletInvariance`, `WalletTypes`; `AnswersStand`: what was told is in the file or
  older, and one revision is never two choices; `LastSuccess`: the last write that
  succeeded is in force; `EveryWalletInTurn`: while the wallets stay the same none
  waits for more attempts than there are others.

The argument has three parts. The store equals its file after every step, a crash
included, and nothing that was told is ahead of it (`StoreInv`). A write that has had
its turn has nothing pending before it (`ChainInv`), so the one stored last came last;
which writes wait for a refresh has to be known exactly (`ReadersInv`), because a
refresh that ends or dies moves them all. And a name's attempts missed since its last,
with those still before its next, are never as many as the names (`RoundInv`): a name
taken moves the cursor by one, and the next refresh starts where the last stopped.
That a finite set of names can be put in order, and that stored writes have a last
one, is shown by the least counterexample, in the place of an induction.

`WalletTicker_proofs` (from `WalletTickerAssumption`: wallets are a finite set of
numbers, the places of their sorted names; edits and balances are of those wallets;
`None`, which stands for `null` in the code, is no wallet and no choice of wallets):

* `TickerInvariance`, `TickerTypes`; `TickerReconciles`: the latest edit is shown
  until it is saved, and otherwise a choice the server has made by the revision the
  ticker holds; `TickerPrivate`: a locked page holds nothing of the wallets, and
  nothing that was under way brings any of it back.
* `TickerForgetsNothing` (`NothingForgotten`, which no run lists but TLC has agreed to):
  each raised flag has its request of this generation under way, so none of them
  blocks later reads or saves for ever, and the latest edit is queued or in a save
  under way.

The argument: a flag like `saving` says that a request is out, but only a request of
the *current* generation lowers it again, so the invariant says for every request
of that generation that its flag is raised, and for every raised flag that there is
one such request (`Busy`, `Matched`). A save carries the number of the edit it was
made for: it is the latest number exactly while nothing is queued behind it, and
then the save carries the latest choice (`Carried`), so that an answer which
reconciles takes away no newer edit. An answer tells the choice the server had
at the revision it names (`Truthful`), which stays true because the server's history
only grows. Between an answer and the next save `queueSave` is in the middle of its
loop, where no request belongs to the raised flag; `Between` is what holds there, and
the lemmas on the loop lead from it back to the invariant. A lock wipes the ticker
and starts a generation, which no request under way is of (`Wiped`). `TickerForgetsNothing`
needs one more inductive fact beside this invariant, `Awaiting`: a raised flag has a
request of the current generation, and a queued edit is the latest.

`PeerGeo_proofs` (from `PeerGeoAssumption`: a finite set of hosts, positive
identities, and a third identity whatever two are held. A new object in JavaScript
equals none that is still held, and for one host at most a task and a write hold
one each):

* `GeoInvariance`, `GeoTypes`; `OnlyPresentHostsKept`; `QueuesHoldJobs`: a queued host
  is queued once, has its job in the map, and not the one its worker is busy with;
  `EntriesKeepUp`; `AnswersReachTheDatabase`.

The argument: what a host has in the maps fits together and serves a location no
older than the row (`Locals`), one host at a time, so the proof needs no bound on
hosts, which the run has. What makes it inductive is knowledge of what the two
workers carry through their waits. A lookup whose owner is still there finds nothing
to store in its host's entry, so that its answer replaces none (`WaitInv`): the only
steps that make something to store are the answers themselves, and there is one
worker. The queues hold only hosts that have a job and never the job in hand
(`LookupInv`, `SaveInv`), so a head that is taken has an owner and is public. And a
refresh that has gone through its hosts has given every one of them an owner
(`RefreshInv`), without which it would dispatch jobs for hosts that are not there.

`Dashboard_proofs` about `Management` (from `ManagementAssumption`; any set of tabs, any bound on events):

* `ManagementInvariance`; `ActionRunsOnce`: a press is run at most once, and one that
  was refused never; `PromptsServe`: a prompt is there exactly while somebody waits;
  `LocksEndWhatWasAsked`: an answer asked for before a lock gives no access after it.

The argument: the invariant is local to a tab. An action has run only while its
request is out or once it is done (`ActSound`), which settles that a retry after a
denial is the first run, since a denial says nothing was run; somebody waits at a
prompt exactly while it is there (`Prompted`); and a revalidation during which a
generation of access ended is not taken for a current one (`AccessSound`). The
handlers are made of a few operations on one tab, so there is a lemma for each
operation and one for each action that puts them together.

`Dashboard_proofs` about `Distribution` (from `DistributionAssumption`: a peer comes in
or goes out, the insights are the three of the code, and null is neither a row, a list,
a label nor a set of peers; any finite set of peers, any snapshots, any grouping of them
and any number of segments):

* `LayersInvariance`; `LayersAreNested`: whatever is clicked and polled in whatever
  order, no layer outlives what it hangs from; `EscapeTakesLayersAway`: an Escape that
  does something leaves strictly less open; `PollsSettle`: a poll navigates nowhere, lists
  nobody who is gone, and polled again changes nothing.

The argument: `LayersNest` is not inductive. It needs that the summary is explored in
focused mode only, or leaving that mode would leave a panel behind; that a panel and
the list of Others are open only in focused mode or over something selected, which is
what their closing relies on; and the types of filters and pinned lists, since a filter
exists while its peers are not null and its category is not (`Nested`). The hundred
handlers are compositions of few pieces. Those that show, highlight or close the popup
change nothing a layer hangs on (`Beneath`), the others have a lemma each which says
that they keep a nested dashboard nested, and a handler's proof names its pieces. For
Escape the proof goes through what is deepest, in the order of the code: what a press
closes weighs more in `Depth` than all that it may open again, such as the summary
after a network.

A poll is a composition of six stages: the map, the popup, the filters, the panel, the
pinned list and the table. For each there is what it leaves behind, as a relation between
the fields it writes and those it reads (`MapSettled` to `TableSettled`), and a lemma that
it establishes it. That the order of the stages is right is `UpdateSettles`: none writes
what an earlier one has read. Settled views are a fixed point of every stage
(`SettledAgain`), so a second poll changes nothing.

### What stays with TLC

Every safety property of the runs is proved. What remains is liveness, which the
prover cannot do: `EveryCallEnds`, `TipsEnd`, `EveryLookupEnds`,
`ProbingResumes`, `WritesEnd`, `Converges`, `LocksResolve`, `LockedPagesReopen`,
`ExpiredViewCloses`. The fairness they rest on is above.

## What the modelling showed

The properties hold. While they were written, several candidates turned out to be
false of the code; the properties were weakened to what the code promises, with the
exception in the property's comment or here. None of them loses data; most are
visible for a moment or with an unusual order of clicks.

Server:

* A `setban` whose reply is lost is not followed by an invalidation
  (`services/node.ts:271`), although `docs/api.md:73` speaks of invalidation by
  mutations: the ban list may be up to five seconds old.
* `failureStartedAt` in `services/connectivity.ts` survives an interval in which
  probing was disabled.
* The lost message of an import, see `CacheKeepsUp` above.

Management and viewing:

* A request that is denied while the tab is being locked opens the prompt, and is
  sent again after an unlock (`core/admin-auth.js:308-311`, `core/api.js:197-204`).
* The restoring of a page after a failed logout does not compare the revision
  (`core/viewer-auth.js:162-166`).
* `pagehide` and `pageshow` hide the lock button while a failed or remote lock is
  still shown as pending.
* A revalidation begun on focus may authenticate a tab that has been blurred since.
* The age a page takes a snapshot to have lags behind by the time the answer
  travelled; `RatesAreLive` counts from the page's own clock.
* The prompt of `checkApiDownPrompt` can appear twice; the list in the ban dialog may
  be that of an earlier answer; a late answer about outbound settings in
  `settings/geoip.js` may overwrite that of a newer change.

Wallet ticker: a read begun before an edit is not shown once the edit has ended
(`EditsReconcile` names this case); a queued edit is dropped when the ticker is wiped.

Explorations:

* Leaving the distribution from its overview (`distribution/selection.js:363-380`)
  keeps a pinned list and its filter, although the comments at `:362` and `:376` say
  that everything is cleared.
* A poll reopens a group list of the private map that was closed
  (`map/navigation.js:189-207`), and resets a provider filter that a click on the map
  had left stale; `docs/architecture.md:60-65` says polls keep the view.
* `pnHoveredNet` stays set after Back and Escape; selecting another peer while an
  insight is shown erases its line; a hovered insight loses its line while a peer is
  selected; hovering clears the chip of a filter; the timers of the panel and of a
  picked peer override a network picked meanwhile; the donut can be clicked for half
  a second after the exit.

## Not modelled

* Pure functions over text and numbers: formatting, parsing, address
  classification, schema and row validation, cookie syntax, origin checks.
* One-thread arithmetic over a clock: the windows of failed authentications, the
  provider's retry windows, the rates between two samples. Where another module
  depends on their outcome it takes every outcome (`Management`, `Viewing`,
  `PeerGeo`).
* A single provider request under its ten-second limit and bounded body, and the
  start and the signals of the process, each one wait: `PeerGeo`, `RpcGate`,
  `BrowserSessions` and `OutboundRuntime` have their ends.
* Of the node service, formatting and mempool pages; its other caches are instances
  of `SharedRead`.
* Generated types and data (`src/shared`, `openapi.json`), vendored assets, tests.
* Browser views without decisions of their own: drawing, projection, zoom, columns
  and sorting of the table, charts, forms of the settings panels.
