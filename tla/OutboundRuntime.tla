-------------------------- MODULE OutboundRuntime --------------------------
(***************************************************************************)
(* The optional work of AppRuntime (src/server/runtime.ts) under the       *)
(* operator's preferences (preferences.ts, outbound-policy.ts): automatic  *)
(* and manual dataset updates (services/geoip.ts), release checks          *)
(* (services/updates.ts) and reachability probes (services/connectivity.ts)*)
(*                                                                         *)
(* A preference changes while work it concerns is scheduled, under way or  *)
(* winding down, the process may crash, and the saved file must tell the   *)
(* next one what the operator chose.  A permission is a signal: work keeps *)
(* the one it began under, and a permission given again is a new one.      *)
(*                                                                         *)
(* Delays are abstracted to "now" and "later"; a timer may fire whenever   *)
(* it is set.  Provider lookups, the fourth feature, are in PeerGeo.       *)
(***************************************************************************)

VARIABLES phase,     \* of the process: new, starting, running or stopped
          disk,      \* settings.json: the preferences that are on
          prefs,     \* this.preferences
          policy,    \* the features the outbound policy allows
          timer,     \* updateTimer: none, now or later
          auto,      \* updateTask
          manual,    \* an update asked for over HTTP
          updating,  \* geoDatabase.updating
          tried,     \* history: an update began since downloads were last permitted
          releaseTimer, release,  \* UpdateService's timer and pending
          checker    \* ConnectivityService's checker

updateVars  == <<timer, auto, manual, updating, tried>>
releaseVars == <<releaseTimer, release>>
settingVars == <<disk, prefs, policy>>
runtimeVars == <<phase, settingVars, updateVars, releaseVars, checker>>

Features    == {"downloads", "releases", "probes"}
Preferences == Features \cup {"optional", "auto"}

\* Work under way, and whether the signal it began under has been aborted.
NoWork   == [at |-> "none", aborted |-> FALSE]
Working(step) == [at |-> step, aborted |-> FALSE]
Aborted(w)    == [w EXCEPT !.aborted = w # NoWork]

\* outboundPermissions
Permitted(p) == IF "optional" \in p THEN p \cap Features ELSE {}

-----------------------------------------------------------------------------
\* A process begins

Boots(saved) ==
    /\ phase' = "new"
    /\ disk' = saved /\ prefs' = saved /\ policy' = Permitted(saved)
    /\ timer' = "none" /\ auto' = NoWork /\ manual' = NoWork
    /\ updating' = FALSE /\ tried' = FALSE
    /\ releaseTimer' = FALSE /\ release' = NoWork /\ checker' = NoWork

RuntimeInit ==
    /\ phase = "new"
    /\ disk \in SUBSET Preferences /\ prefs = disk /\ policy = Permitted(disk)
    /\ timer = "none" /\ auto = NoWork /\ manual = NoWork
    /\ updating = FALSE /\ tried = FALSE
    /\ releaseTimer = FALSE /\ release = NoWork /\ checker = NoWork

\* start: save the preferences and begin probing, then wait for the peers.
Start ==
    /\ phase = "new"
    /\ phase' = "starting"
    /\ disk' = prefs
    /\ checker' = IF "probes" \in policy THEN Working("probing") ELSE NoWork
    /\ UNCHANGED <<prefs, policy, updateVars, releaseVars>>

\* scheduleUpdate
Scheduled(delay, p, allowed) ==
    IF "auto" \in p /\ "downloads" \in allowed /\ auto = NoWork THEN delay ELSE "none"

\* The first peers are there: schedule the first update and release check.
Started ==
    /\ phase = "starting"
    /\ phase' = "running"
    /\ timer' = Scheduled("now", prefs, policy)
    /\ releaseTimer' = ("releases" \in policy)
    /\ UNCHANGED <<settingVars, auto, manual, updating, tried, release, checker>>

-----------------------------------------------------------------------------
\* Preferences

OneChange(p) == \E choice \in Preferences : p = (prefs \ {choice}) \cup ({choice} \ prefs)

\* Mutant: the permissions are published before they are compared.
ApplyUnseen(p) ==
    /\ policy' = Permitted(p)
    /\ UNCHANGED <<updateVars, releaseVars, checker>>

\* OutboundPolicy.update and its listeners, then the dataset schedule.  Work whose
\* permission is gone is aborted, and winds down; what is permitted again starts
\* here unless the old work still does, which then sees to it.
Apply(p) ==
    LET gone  == policy \ Permitted(p)
        given == Permitted(p) \ policy
    IN /\ policy' = Permitted(p)
       /\ auto'   = IF "downloads" \in gone THEN Aborted(auto) ELSE auto
       /\ manual' = IF "downloads" \in gone THEN Aborted(manual) ELSE manual
       /\ timer'  = IF "downloads" \in gone \cup given
                    THEN Scheduled("now", p, Permitted(p)) ELSE timer
       /\ tried'  = (tried /\ "downloads" \notin given)
       /\ release' = IF "releases" \in gone THEN Aborted(release) ELSE release
       /\ releaseTimer' = IF "releases" \in gone \cup given
                          THEN "releases" \in given /\ release = NoWork ELSE releaseTimer
       /\ checker' = IF "probes" \in gone THEN Aborted(checker)
                     ELSE IF "probes" \in given /\ checker = NoWork THEN Working("probing")
                     ELSE checker
       /\ UNCHANGED updating

\* Mutant: the choice is in force whether or not it could be saved.
SetOutboundUnsaved(p) ==
    /\ phase = "running" /\ OneChange(p) /\ ("auto" \in p <=> "auto" \in prefs)
    /\ disk' \in {p, disk} /\ prefs' = p
    /\ Apply(p)
    /\ UNCHANGED phase

\* setOutboundPreference; nothing happens if the file cannot be written.
SetOutbound(p) ==
    /\ phase = "running" /\ OneChange(p) /\ ("auto" \in p <=> "auto" \in prefs)
    /\ disk' = p /\ prefs' = p
    /\ Apply(p)
    /\ UNCHANGED phase

\* setGeoipAutoUpdate
SetAuto(p) ==
    /\ phase = "running" /\ OneChange(p) /\ ~("auto" \in p <=> "auto" \in prefs)
    /\ disk' = p /\ prefs' = p
    /\ timer' = Scheduled("now", p, policy)
    /\ UNCHANGED <<phase, policy, auto, manual, updating, tried, releaseVars, checker>>

-----------------------------------------------------------------------------
\* GeoDatabase.update, asked for by the timer or over HTTP

Begins == "downloads" \in policy /\ ~updating

\* The timer fires.  An update that cannot begin ends at once, and the next one is
\* scheduled as after any other.
TimerFires ==
    /\ timer # "none"
    /\ tried' = TRUE
    /\ IF Begins THEN auto' = Working("downloading") /\ updating' = TRUE /\ timer' = "none"
       ELSE timer' = Scheduled("later", prefs, policy) /\ UNCHANGED <<auto, updating>>
    /\ UNCHANGED <<phase, settingVars, manual, releaseVars, checker>>

ManualBegins ==
    /\ phase = "running" /\ manual = NoWork /\ Begins
    /\ manual' = Working("downloading") /\ updating' = TRUE
    /\ UNCHANGED <<phase, settingVars, timer, auto, tried, releaseVars, checker>>

\* The dataset is there, and the permission was when that was last looked at: the
\* merge runs on its own thread, and only shutdown stops it.  Otherwise, and after
\* the merge, the temporary files are removed.
Proceeds(w, w2) ==
    \/ w.at = "downloading" /\ ~w.aborted /\ w2 = [w EXCEPT !.at = "merging"]
    \/ w.at \in {"downloading", "merging"} /\ w2 = [w EXCEPT !.at = "cleaning"]

AutoProceeds ==
    /\ Proceeds(auto, auto')
    /\ UNCHANGED <<phase, settingVars, timer, manual, updating, tried, releaseVars, checker>>
ManualProceeds ==
    /\ Proceeds(manual, manual')
    /\ UNCHANGED <<phase, settingVars, timer, auto, updating, tried, releaseVars, checker>>

NextDelay == IF auto.aborted THEN "now" ELSE "later"
AutoDone(delay) ==
    /\ auto.at = "cleaning"
    /\ auto' = NoWork /\ updating' = FALSE
    /\ timer' = IF phase = "running" /\ "auto" \in prefs /\ "downloads" \in policy
                THEN delay ELSE "none"
    /\ UNCHANGED <<phase, settingVars, manual, tried, releaseVars, checker>>

\* Mutant: after an update that was cancelled nothing is scheduled.
AutoEndsUnscheduled ==
    /\ auto.at = "cleaning"
    /\ auto' = NoWork /\ updating' = FALSE
    /\ UNCHANGED <<phase, settingVars, timer, manual, tried, releaseVars, checker>>
\* One that was cancelled is made up for at once if it is permitted again.
AutoEnds == AutoDone(NextDelay)

ManualEnds ==
    /\ manual.at = "cleaning"
    /\ manual' = NoWork /\ updating' = FALSE
    /\ UNCHANGED <<phase, settingVars, timer, auto, tried, releaseVars, checker>>

-----------------------------------------------------------------------------
\* Release checks and probes

ReleaseBegins ==
    /\ releaseTimer
    /\ releaseTimer' = FALSE
    /\ release' = Working("checking")
    /\ UNCHANGED <<phase, settingVars, updateVars, checker>>

ReleaseEnds ==
    /\ release # NoWork
    /\ release' = NoWork
    /\ releaseTimer' = (phase = "running" /\ "releases" \in policy)
    /\ UNCHANGED <<phase, settingVars, updateVars, checker>>

\* Mutant: a loop that ends is not followed by another.
CheckerEndsForGood ==
    /\ checker.aborted
    /\ checker' = NoWork
    /\ UNCHANGED <<phase, settingVars, updateVars, releaseVars>>

\* The loop ends only by its signal; ensureChecker begins another if permitted.
CheckerEnds ==
    /\ checker.aborted
    /\ checker' = IF phase \in {"starting", "running"} /\ "probes" \in policy
                  THEN Working("probing") ELSE NoWork
    /\ UNCHANGED <<phase, settingVars, updateVars, releaseVars>>

-----------------------------------------------------------------------------
\* The end of a process

Stop ==
    /\ phase \in {"new", "starting", "running"}
    /\ phase' = "stopped"
    /\ policy' = {}
    /\ timer' = "none" /\ releaseTimer' = FALSE
    /\ auto' = Aborted(auto) /\ manual' = Aborted(manual)
    /\ release' = Aborted(release) /\ checker' = Aborted(checker)
    /\ UNCHANGED <<disk, prefs, updating, tried>>

\* The process ends, or is killed, and another one reads the file.
Restart == Boots(disk)

\* It is killed after the file was replaced and before anything else happened.
KilledAfterSave(p) ==
    /\ phase = "running" /\ OneChange(p)
    /\ Boots(p)

RuntimeNext ==
    \/ Start \/ Started \/ Stop \/ Restart
    \/ \E p \in SUBSET Preferences : SetOutbound(p) \/ SetAuto(p) \/ KilledAfterSave(p)
    \/ TimerFires \/ AutoProceeds \/ AutoEnds
    \/ ManualBegins \/ ManualProceeds \/ ManualEnds
    \/ ReleaseBegins \/ ReleaseEnds \/ CheckerEnds

RuntimeSpec == RuntimeInit /\ [][RuntimeNext]_runtimeVars

\* Start-up goes on, timers fire, and what is under way ends: downloads and checks
\* have deadlines, a merge and the removal of files are finite.
FairRuntimeSpec ==
    /\ RuntimeSpec
    /\ WF_runtimeVars(Start) /\ WF_runtimeVars(Started)
    /\ WF_runtimeVars(TimerFires) /\ WF_runtimeVars(AutoProceeds) /\ WF_runtimeVars(AutoEnds)
    /\ WF_runtimeVars(ManualProceeds) /\ WF_runtimeVars(ManualEnds)
    /\ WF_runtimeVars(ReleaseBegins) /\ WF_runtimeVars(ReleaseEnds) /\ WF_runtimeVars(CheckerEnds)

-----------------------------------------------------------------------------
Works(steps) == {NoWork} \cup [at : steps, aborted : BOOLEAN]
UpdateSteps  == {"downloading", "merging", "cleaning"}

\* Types of the preferences, the policy and the work under way.
RuntimeTypeOK ==
    /\ phase \in {"new", "starting", "running", "stopped"}
    /\ disk \subseteq Preferences /\ prefs \subseteq Preferences /\ policy \subseteq Features
    /\ timer \in {"none", "now", "later"} /\ tried \in BOOLEAN /\ updating \in BOOLEAN
    /\ auto \in Works(UpdateSteps) /\ manual \in Works(UpdateSteps)
    /\ releaseTimer \in BOOLEAN /\ release \in Works({"checking"})
    /\ checker \in Works({"probing"})

\* The flag of the database is the one update that holds it.
OneUpdate ==
    /\ updating <=> auto # NoWork \/ manual # NoWork
    /\ auto = NoWork \/ manual = NoWork

\* While the application runs, work that is permitted is scheduled or under way,
\* whatever was withdrawn and given back meanwhile; and nothing else is scheduled.
\* Two updates never overlap, and a flag that stayed behind would refuse every later one.
\* The next update is an hour away only if one has been tried under the permission
\* in force: permitting downloads never waits out the interval of an update that
\* the withdrawal has cancelled.
ScheduleKept ==
    /\ phase = "running" /\ "auto" \in prefs /\ "downloads" \in policy
         => (timer # "none") # (auto # NoWork)
    /\ timer = "later" => tried
    /\ timer # "none" => phase = "running" /\ "auto" \in prefs /\ "downloads" \in policy
    /\ phase = "running" /\ "releases" \in policy => releaseTimer # (release # NoWork)
    /\ releaseTimer => phase = "running" /\ "releases" \in policy
    /\ phase = "running" /\ "probes" \in policy => checker # NoWork
    /\ OneUpdate

\* A request that has not been told to stop is permitted now, not only when it began.
OnlyWhilePermitted ==
    /\ \A w \in {auto, manual} : w.at = "downloading" /\ ~w.aborted => "downloads" \in policy
    /\ release # NoWork /\ ~release.aborted => "releases" \in policy
    /\ checker # NoWork /\ ~checker.aborted => "probes" \in policy

\* What the operator chose is on disk before it is in force, so that a crash at any
\* moment restores what was in force.
SavedIsInForce ==
    /\ prefs = disk
    /\ phase # "stopped" => policy = Permitted(disk)

\* Probing goes on once it is permitted, however quickly the permission was
\* withdrawn and given back.
ProbingResumes ==
    phase = "running" /\ "probes" \in policy
    ~> phase # "running" \/ "probes" \notin policy \/ checker = Working("probing")
=============================================================================
