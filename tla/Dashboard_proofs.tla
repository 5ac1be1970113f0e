-------------------------- MODULE Dashboard_proofs --------------------------
(***************************************************************************)
(* Proofs about what lies over a dashboard: Management, for any number of  *)
(* tabs and of events, where actions wait for a prompt and for the locks   *)
(* of other tabs, and Distribution, for any peers, where the layers that   *)
(* are open hang from each other.                                          *)
(*                                                                         *)
(* The invariant of Management is local: it says of each tab where its     *)
(* pressed action is and how often the server ran it, who waits for the    *)
(* prompt, and what its revalidation knows of the locks since it was       *)
(* asked.  Every handler is made of the same few operations on one tab, so *)
(* the proof has a lemma for each of them, and one for each action that    *)
(* puts them together.                                                     *)
(*                                                                         *)
(* The invariant of Distribution, Nested, says of the layers what each     *)
(* hangs from.  Most pieces of a handler change nothing that a layer hangs *)
(* on (Beneath); the others have a lemma each that says they keep a nested *)
(* dashboard nested, and a handler is a composition of pieces.  A poll is  *)
(* a composition of six stages: each settles what it changes (Settled),    *)
(* the later ones disturb nothing that an earlier one settled, and settled *)
(* views are a fixed point of all six.                                     *)
(***************************************************************************)
EXTENDS Management, Distribution, TLAPS

\* The types of a tab and of what its requests may be.
Acts == Gates \cup {"idle", "first", "retry", "prompt", "done", "failed", "cancelled", "refused"}
Replies == {"idle", "sent", "stray", "lost", "ok", "denied", "live", "dead", "cooldown"}
Requests == [Kinds -> Replies]
Tab == [open : BOOLEAN, wiped : BOOLEAN, auth : BOOLEAN, avail : BOOLEAN, lockShown : BOOLEAN,
        locking : BOOLEAN, lockFailure : BOOLEAN, remotePending : BOOLEAN,
        dialog : BOOLEAN, waiters : SUBSET {"action", "unlock"}, validating : {"no", "current", "stale"},
        act : Acts, actFresh : BOOLEAN, known : BOOLEAN, aborted : BOOLEAN,
        ran : Nat, lockSeen : BOOLEAN,
        read : Gates \cup {"idle", "sent", "applied"}, readFresh : BOOLEAN,
        unlock : Gates \cup {"idle", "prompt"}, req : Requests]

\* A prompt is there for those who wait for it.
Prompted(s) == s.dialog <=> s.waiters # {}

\* An action that is not on its way runs never, or has run once.
ActSound(s) ==
    /\ "action" \in s.waiters <=> s.act = "prompt"
    /\ s.act \in {"first", "retry"} <=> s.req["action"] # "idle"
    /\ s.act \in Gates \cup {"prompt", "refused"} => s.ran = 0
    /\ s.req["action"] \in {"sent", "denied", "cooldown"} => s.ran = 0
    /\ s.req["action"] # "stray" /\ s.ran <= 1

\* A revalidation that is answered knows whether a generation ended meanwhile.
AccessSound(s) ==
    /\ s.lockSeen => s.validating # "current"
    /\ s.req["access"] # "idle" => s.validating # "no"

\* A tab is sound.
TabInv(s) == s \in Tab /\ Prompted(s) /\ ActSound(s) /\ AccessSound(s)

\* What two states of a tab may have in common.
SameAct(s, r) ==
    /\ r.dialog = s.dialog /\ r.waiters = s.waiters /\ r.act = s.act
    /\ r.ran = s.ran /\ r.req["action"] = s.req["action"]
SameAccess(s, r) ==
    r.lockSeen = s.lockSeen /\ r.validating = s.validating /\ r.req["access"] = s.req["access"]

\* A generation may have ended meanwhile; nothing else has happened to the revalidation.
LaterAccess(s, r) ==
    /\ r.lockSeen = s.lockSeen /\ r.req["access"] = s.req["access"]
    /\ r.validating = s.validating \/ (s.validating = "current" /\ r.validating = "stale")

\* Access is not gained by an answer of /api/access that was asked for before a lock.
Quiet(s, r) ==
    ~s.auth /\ r.auth /\ s.req["access"] = "live" /\ r.req["access"] = "idle" => ~s.lockSeen

\* What is like a sound state is sound.
LEMMA SameActSound ==
    ASSUME NEW s \in Tab, NEW r \in Tab, SameAct(s, r)
    PROVE  /\ Prompted(s) => Prompted(r)
           /\ ActSound(s) => ActSound(r)
<1>1. r.dialog = s.dialog /\ r.waiters = s.waiters /\ r.act = s.act
      /\ r.ran = s.ran /\ r.req["action"] = s.req["action"]
  BY DEF SameAct
<1>2. Prompted(s) => Prompted(r)
  BY <1>1 DEF Prompted
<1>3. ActSound(s) => ActSound(r)
  BY <1>1 DEF ActSound
<1>. QED BY <1>2, <1>3

\* A revalidation whose generation has ended meanwhile is sound.
LEMMA LaterAccessSound ==
    ASSUME NEW s, NEW r, LaterAccess(s, r), AccessSound(s)
    PROVE  AccessSound(r)
  BY DEF LaterAccess, AccessSound

\* To leave the revalidation alone is a case of that.
LEMMA SameIsLater == ASSUME NEW s, NEW r, SameAccess(s, r) PROVE LaterAccess(s, r)
  BY DEF SameAccess, LaterAccess

-----------------------------------------------------------------------------
(* Generations.                                                            *)

\* endGeneration: the action and access are left alone, and no revalidation is current.
LEMMA EndGenerationFacts ==
    ASSUME NEW s \in Tab
    PROVE  LET r == endGeneration(s) IN
           /\ r \in Tab /\ SameAct(s, r) /\ LaterAccess(s, r) /\ r.validating # "current"
           /\ r.auth = s.auth /\ r.req = s.req
<1> DEFINE r == endGeneration(s)
<1>1. r \in Tab
  BY DEF endGeneration, Tab
<1>2. r.dialog = s.dialog /\ r.waiters = s.waiters /\ r.act = s.act /\ r.ran = s.ran /\ r.req = s.req
  BY DEF endGeneration, Tab
<1>3. r.auth = s.auth /\ r.lockSeen = s.lockSeen
  BY DEF endGeneration, Tab
<1>4. r.validating = IF s.validating = "current" THEN "stale" ELSE s.validating
  BY DEF endGeneration, Tab
<1>. QED BY <1>1, <1>2, <1>3, <1>4 DEF SameAct, LaterAccess

\* clearToken: the generation ends, and access with it.
LEMMA ClearTokenFacts ==
    ASSUME NEW s \in Tab
    PROVE  LET r == clearToken(s) IN
           /\ r \in Tab /\ SameAct(s, r) /\ LaterAccess(s, r) /\ r.validating # "current"
           /\ r.auth = FALSE /\ r.req = s.req
<1> DEFINE e == endGeneration(s)
           r == clearToken(s)
<1>1. e \in Tab /\ SameAct(s, e) /\ LaterAccess(s, e) /\ e.validating # "current" /\ e.req = s.req
  BY EndGenerationFacts
<1>2. r = [e EXCEPT !.auth = FALSE, !.lockShown = FALSE]
  BY DEF clearToken
<1> HIDE DEF e, r
<1>3. r \in Tab
  BY <1>1, <1>2 DEF Tab
<1>4. r.dialog = e.dialog /\ r.waiters = e.waiters /\ r.act = e.act /\ r.ran = e.ran /\ r.req = e.req
  BY <1>1, <1>2 DEF Tab
<1>5. r.auth = FALSE /\ r.lockSeen = e.lockSeen /\ r.validating = e.validating
  BY <1>1, <1>2 DEF Tab
<1>6. r \in Tab /\ SameAct(s, r) /\ LaterAccess(s, r) /\ r.validating # "current" /\ r.auth = FALSE /\ r.req = s.req
  BY <1>1, <1>3, <1>4, <1>5 DEF SameAct, LaterAccess
<1>. QED BY <1>6 DEF r

\* The prompt closes, and the action that waited for it never runs.
LEMMA ClosePromptFacts ==
    ASSUME NEW s \in Tab
    PROVE  LET r == closePrompt(s) IN
           /\ r \in Tab /\ SameAccess(s, r) /\ r.auth = s.auth /\ Prompted(r)
           /\ ActSound(s) => ActSound(r)
           /\ r.waiters = {} /\ r.ran = s.ran /\ r.req["action"] = s.req["action"]
           /\ r.act = IF "action" \in s.waiters THEN "refused" ELSE s.act
           /\ \A k \in Kinds : k # "verify" => r.req[k] = s.req[k]
<1> DEFINE r == closePrompt(s)
<1>1. s.req \in Requests /\ "verify" \in Kinds /\ "action" \in Kinds /\ "access" \in Kinds
  BY DEF Tab, Kinds
<1>2. r.req = [s.req EXCEPT !["verify"] = IF @ \in {"sent", "stray"} THEN "stray" ELSE "idle"]
  BY DEF closePrompt, Tab
<1>3. r.req \in Requests /\ \A k \in Kinds : k # "verify" => r.req[k] = s.req[k]
  BY <1>1, <1>2 DEF Requests, Replies
<1>4. r \in Tab
  <2>1. r = [s EXCEPT !.dialog = FALSE, !.waiters = {},
              !.act    = IF "action" \in s.waiters THEN "refused" ELSE s.act,
              !.unlock = IF "unlock" \in s.waiters THEN "idle" ELSE s.unlock,
              !.req = r.req]
    BY <1>2 DEF closePrompt, Tab
  <2> DEFINE a == IF "action" \in s.waiters THEN "refused" ELSE s.act
             u == IF "unlock" \in s.waiters THEN "idle" ELSE s.unlock
             q == r.req
  <2>2. a \in Acts /\ u \in Gates \cup {"idle", "prompt"} /\ q \in Requests
    BY <1>3 DEF Tab, Acts
  <2>3. r = [s EXCEPT !.dialog = FALSE, !.waiters = {}, !.act = a, !.unlock = u, !.req = q]
    BY <2>1
  <2> HIDE DEF a, u, q, r
  <2>. QED BY <2>2, <2>3 DEF Tab
<1>5. r.waiters = {} /\ r.ran = s.ran /\ r.act = IF "action" \in s.waiters THEN "refused" ELSE s.act
  BY DEF closePrompt, Tab
<1>6. r.dialog = FALSE /\ r.auth = s.auth /\ r.lockSeen = s.lockSeen /\ r.validating = s.validating
  BY DEF closePrompt, Tab
<1>7. r.req["action"] = s.req["action"] /\ r.req["access"] = s.req["access"]
  BY <1>1, <1>3
<1> HIDE DEF r
<1>8. ActSound(s) => ActSound(r)
  BY <1>5, <1>7 DEF ActSound, Gates
<1>9. Prompted(r) /\ SameAccess(s, r)
  BY <1>5, <1>6, <1>7 DEF Prompted, SameAccess
<1>. QED BY <1>3, <1>4, <1>5, <1>6, <1>7, <1>8, <1>9 DEF r

\* The two in turn, as a lock, an expiry and the back/forward cache do them.
LEMMA ResetFacts ==
    ASSUME NEW s \in Tab
    PROVE  LET r == reset(s) IN
           /\ r \in Tab /\ LaterAccess(s, r) /\ r.validating # "current" /\ r.auth = FALSE /\ Prompted(r)
           /\ ActSound(s) => ActSound(r)
           /\ r.req["action"] = s.req["action"] /\ r.ran = s.ran
           /\ "action" \notin s.waiters => r.act = s.act
           /\ \A k \in Kinds : k # "verify" => r.req[k] = s.req[k]
<1> DEFINE c == clearToken(s)
           r == closePrompt(c)
<1>1. c \in Tab /\ SameAct(s, c) /\ LaterAccess(s, c) /\ c.validating # "current" /\ c.auth = FALSE /\ c.req = s.req
  BY ClearTokenFacts
<1> HIDE DEF c
<1>2. /\ r \in Tab /\ SameAccess(c, r) /\ r.auth = c.auth /\ Prompted(r)
      /\ ActSound(c) => ActSound(r)
      /\ r.waiters = {} /\ r.ran = c.ran /\ r.req["action"] = c.req["action"]
      /\ r.act = IF "action" \in c.waiters THEN "refused" ELSE c.act
      /\ \A k \in Kinds : k # "verify" => r.req[k] = c.req[k]
  BY <1>1, ClosePromptFacts
<1> HIDE DEF r
<1>3. ActSound(s) => ActSound(r)
  BY <1>1, <1>2, SameActSound
<1>4. LaterAccess(s, r) /\ r.validating # "current" /\ r.auth = FALSE
  BY <1>1, <1>2 DEF LaterAccess, SameAccess
<1>5. r.req["action"] = s.req["action"] /\ r.ran = s.ran /\ ("action" \notin s.waiters => r.act = s.act)
  BY <1>1, <1>2 DEF SameAct
<1>6. \A k \in Kinds : k # "verify" => r.req[k] = s.req[k]
  BY <1>1, <1>2
<1>7. r = reset(s)
  BY DEF c, r, reset
<1>. QED BY <1>2, <1>3, <1>4, <1>5, <1>6, <1>7

\* restore: what /api/access says is taken, and a generation ends.
LEMMA RestoreFacts ==
    ASSUME NEW s \in Tab, NEW live \in BOOLEAN, NEW r, r = restore(s, live)
    PROVE  r \in Tab /\ SameAct(s, r) /\ LaterAccess(s, r) /\ r.req = s.req
<1> DEFINE e == endGeneration(s)
<1>1. e \in Tab /\ SameAct(s, e) /\ LaterAccess(s, e) /\ e.req = s.req
  BY EndGenerationFacts
<1>2. r = s \/ r = [e EXCEPT !.auth = live, !.avail = TRUE, !.lockShown = live]
  BY DEF restore
<1> HIDE DEF e
<1>3. CASE r = s
  BY <1>3 DEF SameAct, LaterAccess
<1>4. CASE r = [e EXCEPT !.auth = live, !.avail = TRUE, !.lockShown = live]
  <2>1. r \in Tab
    BY <1>1, <1>4 DEF Tab
  <2>2. r.dialog = e.dialog /\ r.waiters = e.waiters /\ r.act = e.act /\ r.ran = e.ran /\ r.req = e.req
    BY <1>1, <1>4 DEF Tab
  <2>3. r.lockSeen = e.lockSeen /\ r.validating = e.validating
    BY <1>1, <1>4 DEF Tab
  <2>. QED BY <1>1, <2>1, <2>2, <2>3 DEF SameAct, LaterAccess
<1>. QED BY <1>2, <1>3, <1>4

\* A revalidation is asked for once, and forgets the locks before it.
LEMMA RevalidateFacts ==
    ASSUME NEW s \in Tab, NEW r, r = revalidate(s)
    PROVE  /\ r \in Tab /\ SameAct(s, r) /\ (AccessSound(s) => AccessSound(r))
           /\ r.auth = TRUE => s.auth = TRUE
<1> DEFINE c == clearToken(s)
<1>1. c \in Tab /\ SameAct(s, c) /\ LaterAccess(s, c) /\ c.auth = FALSE /\ c.req = s.req
  BY ClearTokenFacts
<1>2. r = s \/ r = [c EXCEPT !.validating = "current", !.lockSeen = FALSE, !.req["access"] = "sent"]
  BY DEF revalidate
<1> HIDE DEF c
<1>3. CASE r = s
  BY <1>3 DEF SameAct
<1>4. CASE r = [c EXCEPT !.validating = "current", !.lockSeen = FALSE, !.req["access"] = "sent"]
  <2>1. c.req \in Requests /\ "access" \in Kinds /\ "action" \in Kinds
    BY <1>1 DEF Tab, Kinds
  <2> DEFINE q == [c.req EXCEPT !["access"] = "sent"]
  <2>2. q \in Requests /\ q["access"] = "sent" /\ q["action"] = c.req["action"]
    BY <2>1 DEF Requests, Replies
  <2>3. r = [c EXCEPT !.validating = "current", !.lockSeen = FALSE, !.req = q]
    BY <1>4
  <2> HIDE DEF q
  <2>4. r \in Tab
    BY <1>1, <2>2, <2>3 DEF Tab
  <2>5. r.dialog = c.dialog /\ r.waiters = c.waiters /\ r.act = c.act /\ r.ran = c.ran /\ r.req = q
    BY <1>1, <2>3 DEF Tab
  <2>6. r.lockSeen = FALSE /\ r.validating = "current" /\ r.auth = c.auth
    BY <1>1, <2>3 DEF Tab
  <2>. QED BY <1>1, <2>2, <2>4, <2>5, <2>6 DEF SameAct, AccessSound
<1>. QED BY <1>2, <1>3, <1>4

-----------------------------------------------------------------------------
(* The gates of the requests.                                              *)

\* What becomes of access when a step neither gains nor loses it.
SameLock(s, r) == SameAccess(s, r) /\ r.auth = s.auth

\* A sound state whose action ends, before it was sent or once it has its answer.
LEMMA ActEnds ==
    ASSUME NEW s \in Tab, Prompted(s), "action" \notin s.waiters, s.req["action"] = "idle", s.ran <= 1,
           NEW a \in {"done", "failed", "cancelled"}, NEW r, r = [s EXCEPT !.act = a]
    PROVE  r \in Tab /\ Prompted(r) /\ ActSound(r) /\ SameLock(s, r)
<1>1. r \in Tab
  BY DEF Tab, Acts
<1>2. r.dialog = s.dialog /\ r.waiters = s.waiters /\ r.act = a /\ r.ran = s.ran /\ r.req = s.req
  BY DEF Tab
<1>3. r.auth = s.auth /\ r.lockSeen = s.lockSeen /\ r.validating = s.validating
  BY DEF Tab
<1>4. Prompted(r) /\ SameLock(s, r)
  BY <1>2, <1>3 DEF Prompted, SameLock, SameAccess
<1>5. ActSound(r)
  BY <1>2 DEF ActSound, Gates
<1>. QED BY <1>1, <1>4, <1>5

\* The action is sent.
LEMMA ActSent ==
    ASSUME NEW s \in Tab, Prompted(s), "action" \notin s.waiters, s.ran = 0, NEW r, r \in Tab,
           r.dialog = s.dialog, r.waiters = s.waiters, r.ran = s.ran,
           r.act \in {"first", "retry"}, r.req["action"] = "sent"
    PROVE  Prompted(r) /\ ActSound(r)
  BY DEF Prompted, ActSound, Gates

\* Somebody asks for access: the action, when it was not run, or the unlock button.
LEMMA RequestTokenAction ==
    ASSUME NEW s \in Tab, Prompted(s), "action" \notin s.waiters, s.req["action"] = "idle", s.ran = 0,
           NEW r, r = requestToken(s, "action")
    PROVE  r \in Tab /\ Prompted(r) /\ ActSound(r) /\ SameLock(s, r)
<1>1. s.req \in Requests /\ "access" \in Kinds /\ "action" \in Kinds
  BY DEF Tab, Kinds
<1>2. \/ r = [s EXCEPT !.act = "cancelled"] \/ r = [s EXCEPT !.act = "failed"]
      \/ r = [s EXCEPT !.act = "retry", !.actFresh = TRUE, !.req["action"] = "sent"]
      \/ r = [s EXCEPT !.waiters = s.waiters \cup {"action"}, !.dialog = TRUE, !.act = "prompt", !.unlock = s.unlock]
  BY DEF requestToken
<1>3. CASE r = [s EXCEPT !.act = "cancelled"] \/ r = [s EXCEPT !.act = "failed"]
  BY <1>3, ActEnds
<1>4. CASE r = [s EXCEPT !.act = "retry", !.actFresh = TRUE, !.req["action"] = "sent"]
  <2> DEFINE q == [s.req EXCEPT !["action"] = "sent"]
  <2>1. q \in Requests /\ q["action"] = "sent" /\ q["access"] = s.req["access"]
    BY <1>1 DEF Requests, Replies
  <2>2. r = [s EXCEPT !.act = "retry", !.actFresh = TRUE, !.req = q]
    BY <1>4
  <2> HIDE DEF q
  <2>3. r \in Tab
    BY <2>1, <2>2 DEF Tab, Acts
  <2>4. r.dialog = s.dialog /\ r.waiters = s.waiters /\ r.act = "retry" /\ r.ran = s.ran /\ r.req = q
    BY <2>2 DEF Tab
  <2>5. r.auth = s.auth /\ r.lockSeen = s.lockSeen /\ r.validating = s.validating
    BY <2>2 DEF Tab
  <2>. QED BY <2>1, <2>3, <2>4, <2>5, ActSent DEF SameLock, SameAccess
<1>5. CASE r = [s EXCEPT !.waiters = s.waiters \cup {"action"}, !.dialog = TRUE, !.act = "prompt", !.unlock = s.unlock]
  <2>1. r \in Tab
    <3> DEFINE w == s.waiters \cup {"action"}
               u == s.unlock
    <3>1. w \in SUBSET {"action", "unlock"} /\ u \in Gates \cup {"idle", "prompt"} /\ "prompt" \in Acts
      BY DEF Tab, Acts
    <3>2. r = [s EXCEPT !.waiters = w, !.dialog = TRUE, !.act = "prompt", !.unlock = u]
      BY <1>5
    <3> HIDE DEF w, u
    <3>. QED BY <3>1, <3>2 DEF Tab
  <2>2. r.dialog = TRUE /\ r.waiters = s.waiters \cup {"action"} /\ r.act = "prompt" /\ r.ran = s.ran /\ r.req = s.req
    BY <1>5 DEF Tab
  <2>3. r.auth = s.auth /\ r.lockSeen = s.lockSeen /\ r.validating = s.validating
    BY <1>5 DEF Tab
  <2>. QED BY <2>1, <2>2, <2>3 DEF SameLock, SameAccess, Prompted, ActSound, Gates
<1>. QED BY <1>2, <1>3, <1>4, <1>5

\* requestToken for the unlock button leaves the action alone.
LEMMA RequestTokenUnlock ==
    ASSUME NEW s \in Tab, Prompted(s), ActSound(s), NEW r, r = requestToken(s, "unlock")
    PROVE  r \in Tab /\ Prompted(r) /\ ActSound(r) /\ SameLock(s, r)
<1>1. \/ r = [s EXCEPT !.unlock = "idle"]
      \/ r = [s EXCEPT !.waiters = s.waiters \cup {"unlock"}, !.dialog = TRUE, !.act = s.act, !.unlock = "prompt"]
  BY DEF requestToken
<1>2. r \in Tab
  <2> DEFINE w == s.waiters \cup {"unlock"}
             a == s.act
  <2>1. w \in SUBSET {"action", "unlock"} /\ a \in Acts
    BY DEF Tab
  <2>2. r = [s EXCEPT !.unlock = "idle"] \/ r = [s EXCEPT !.waiters = w, !.dialog = TRUE, !.act = a, !.unlock = "prompt"]
    BY <1>1
  <2> HIDE DEF w, a
  <2>. QED BY <2>1, <2>2 DEF Tab
<1>3. r.act = s.act /\ r.ran = s.ran /\ r.req = s.req
  BY <1>1 DEF Tab
<1>4. r.auth = s.auth /\ r.lockSeen = s.lockSeen /\ r.validating = s.validating
  BY <1>1 DEF Tab
<1>5. \/ r.waiters = s.waiters /\ r.dialog = s.dialog
      \/ r.waiters = s.waiters \cup {"unlock"} /\ r.dialog = TRUE
  BY <1>1 DEF Tab
<1>6. Prompted(r)
  BY <1>5 DEF Prompted
<1>7. ActSound(r)
  <2>1. "action" \in r.waiters <=> "action" \in s.waiters
    BY <1>5
  <2>. QED BY <1>3, <2>1 DEF ActSound
<1>. QED BY <1>2, <1>3, <1>4, <1>6, <1>7 DEF SameLock, SameAccess

\* A tab whose action met the gate.
LEMMA AdmitActionFacts ==
    ASSUME NEW s \in Tab, Prompted(s), ActSound(s), s.act \in Gates, NEW r, r = AdmitAction(s)
    PROVE  r \in Tab /\ Prompted(r) /\ ActSound(r) /\ SameLock(s, r)
<1>1. s.req \in Requests /\ "access" \in Kinds /\ "action" \in Kinds
  BY DEF Tab, Kinds
<1>2. "action" \notin s.waiters /\ s.req["action"] = "idle" /\ s.ran = 0
  BY DEF ActSound, Gates
<1>3. \/ r = [s EXCEPT !.act = "cancelled"] \/ r = [s EXCEPT !.act = "failed"]
      \/ r = [s EXCEPT !.act = "first", !.actFresh = TRUE, !.known = s.auth, !.req["action"] = "sent"]
  BY DEF AdmitAction
<1>4. CASE r = [s EXCEPT !.act = "cancelled"] \/ r = [s EXCEPT !.act = "failed"]
  BY <1>2, <1>4, ActEnds
<1>5. CASE r = [s EXCEPT !.act = "first", !.actFresh = TRUE, !.known = s.auth, !.req["action"] = "sent"]
  <2> DEFINE q == [s.req EXCEPT !["action"] = "sent"]
             known == s.auth
  <2>1. q \in Requests /\ q["action"] = "sent" /\ q["access"] = s.req["access"]
    BY <1>1 DEF Requests, Replies
  <2>2. known \in BOOLEAN
    BY DEF Tab
  <2>3. r = [s EXCEPT !.act = "first", !.actFresh = TRUE, !.known = known, !.req = q]
    BY <1>5
  <2> HIDE DEF q, known
  <2>4. r \in Tab
    BY <2>1, <2>2, <2>3 DEF Tab, Acts
  <2>5. r.dialog = s.dialog /\ r.waiters = s.waiters /\ r.act = "first" /\ r.ran = s.ran /\ r.req = q
    BY <2>3 DEF Tab
  <2>6. r.auth = s.auth /\ r.lockSeen = s.lockSeen /\ r.validating = s.validating
    BY <2>3 DEF Tab
  <2>. QED BY <1>2, <2>1, <2>4, <2>5, <2>6, ActSent DEF SameLock, SameAccess
<1>. QED BY <1>3, <1>4, <1>5

\* A step that leaves the action, its prompt and access as they are.
LEMMA Elsewhere ==
    ASSUME NEW s \in Tab, Prompted(s), ActSound(s), NEW r \in Tab, SameAct(s, r), SameLock(s, r)
    PROVE  r \in Tab /\ Prompted(r) /\ ActSound(r) /\ SameLock(s, r)
  BY SameActSound

\* The gate of a read leaves the action and access alone.
LEMMA AdmitReadFacts ==
    ASSUME NEW s \in Tab, Prompted(s), ActSound(s), NEW r, r = AdmitRead(s)
    PROVE  r \in Tab /\ Prompted(r) /\ ActSound(r) /\ SameLock(s, r)
<1> DEFINE q == [s.req EXCEPT !["read"] = "sent"]
<1>1. q \in Requests /\ q["action"] = s.req["action"] /\ q["access"] = s.req["access"]
  BY DEF Tab, Kinds, Requests, Replies
<1>2. r = [s EXCEPT !.read = "idle"] \/ r = [s EXCEPT !.read = "sent", !.req = q]
  BY DEF AdmitRead
<1> HIDE DEF q
<1>3. r \in Tab
  BY <1>1, <1>2 DEF Tab
<1>4. r.dialog = s.dialog /\ r.waiters = s.waiters /\ r.act = s.act /\ r.ran = s.ran
  BY <1>2 DEF Tab
<1>5. r.auth = s.auth /\ r.lockSeen = s.lockSeen /\ r.validating = s.validating
  BY <1>2 DEF Tab
<1>6. r.req["action"] = s.req["action"] /\ r.req["access"] = s.req["access"]
  BY <1>1, <1>2 DEF Tab
<1>. QED BY <1>3, <1>4, <1>5, <1>6, Elsewhere DEF SameAct, SameLock, SameAccess

\* The gate of the unlock button does too, and may open the prompt.
LEMMA AdmitUnlockFacts ==
    ASSUME NEW s \in Tab, Prompted(s), ActSound(s), NEW r, r = AdmitUnlock(s)
    PROVE  r \in Tab /\ Prompted(r) /\ ActSound(r) /\ SameLock(s, r)
<1>1. r = [s EXCEPT !.unlock = "idle"] \/ r = requestToken(s, "unlock")
  BY DEF AdmitUnlock
<1>2. CASE r = [s EXCEPT !.unlock = "idle"]
  <2>1. r \in Tab
    BY <1>2 DEF Tab
  <2>2. r.dialog = s.dialog /\ r.waiters = s.waiters /\ r.act = s.act /\ r.ran = s.ran /\ r.req = s.req
    BY <1>2 DEF Tab
  <2>3. r.auth = s.auth /\ r.lockSeen = s.lockSeen /\ r.validating = s.validating
    BY <1>2 DEF Tab
  <2>. QED BY <2>1, <2>2, <2>3, Elsewhere DEF SameAct, SameLock, SameAccess
<1>3. CASE r = requestToken(s, "unlock")
  BY <1>3, RequestTokenUnlock
<1>. QED BY <1>1, <1>2, <1>3

\* Whoever waits at a gate goes on to the next gate, or is admitted.
LEMMA StayFacts ==
    ASSUME NEW s \in Tab, Prompted(s), ActSound(s), NEW r,
           \/ s.act \in Gates /\ r = StayAct(s, "validating")
           \/ r = StayRead(s, "validating") \/ r = StayUnlock(s, "validating")
    PROVE  r \in Tab /\ Prompted(r) /\ ActSound(r) /\ SameLock(s, r)
<1>1. CASE s.act \in Gates /\ r = StayAct(s, "validating")
  <2>1. r = [s EXCEPT !.act = "validating"]
    BY <1>1 DEF StayAct
  <2>2. r \in Tab
    BY <2>1 DEF Tab, Acts, Gates
  <2>3. r.dialog = s.dialog /\ r.waiters = s.waiters /\ r.act = "validating" /\ r.ran = s.ran /\ r.req = s.req
    BY <2>1 DEF Tab
  <2>4. r.auth = s.auth /\ r.lockSeen = s.lockSeen /\ r.validating = s.validating
    BY <2>1 DEF Tab
  <2>. QED BY <1>1, <2>2, <2>3, <2>4 DEF SameLock, SameAccess, Prompted, ActSound, Gates
<1>2. CASE r = StayRead(s, "validating") \/ r = StayUnlock(s, "validating")
  <2>1. r = [s EXCEPT !.read = "validating"] \/ r = [s EXCEPT !.unlock = "validating"]
    BY <1>2 DEF StayRead, StayUnlock
  <2>2. r \in Tab
    BY <2>1 DEF Tab, Gates
  <2>3. r.dialog = s.dialog /\ r.waiters = s.waiters /\ r.act = s.act /\ r.ran = s.ran /\ r.req = s.req
    BY <2>1 DEF Tab
  <2>4. r.auth = s.auth /\ r.lockSeen = s.lockSeen /\ r.validating = s.validating
    BY <2>1 DEF Tab
  <2>. QED BY <2>2, <2>3, <2>4, Elsewhere DEF SameAct, SameLock, SameAccess
<1>. QED BY <1>1, <1>2

\* The continuations that run at the end of a step leave a sound tab sound.
LEMMA SettleFacts ==
    ASSUME NEW s \in Tab, Prompted(s), ActSound(s), NEW r, r = Settle(s)
    PROVE  r \in Tab /\ Prompted(r) /\ ActSound(r) /\ SameLock(s, r)
<1> DEFINE a == IF s.act \in Gates THEN Through(s, s.act, AdmitAction, StayAct) ELSE s
           b == IF a.read \in Gates THEN Through(a, a.read, AdmitRead, StayRead) ELSE a
           c == IF b.unlock \in Gates THEN Through(b, b.unlock, AdmitUnlock, StayUnlock) ELSE b
<1>1. r = c
  BY DEF Settle
<1>2. a = s \/ (s.act \in Gates /\ a \in {StayAct(s, "validating"), AdmitAction(s)})
  BY DEF Through
<1> HIDE DEF a
<1>3. b = a \/ b \in {StayRead(a, "validating"), AdmitRead(a)}
  BY DEF Through
<1> HIDE DEF b
<1>4. c = b \/ c \in {StayUnlock(b, "validating"), AdmitUnlock(b)}
  BY DEF Through
<1> HIDE DEF c
<1>5. a \in Tab /\ Prompted(a) /\ ActSound(a) /\ SameLock(s, a)
  BY <1>2, StayFacts, AdmitActionFacts DEF SameLock, SameAccess
<1>6. b \in Tab /\ Prompted(b) /\ ActSound(b) /\ SameLock(a, b)
  BY <1>3, <1>5, StayFacts, AdmitReadFacts DEF SameLock, SameAccess
<1>7. c \in Tab /\ Prompted(c) /\ ActSound(c) /\ SameLock(b, c)
  BY <1>4, <1>6, StayFacts, AdmitUnlockFacts DEF SameLock, SameAccess
<1>. QED BY <1>1, <1>5, <1>6, <1>7 DEF SameLock, SameAccess

-----------------------------------------------------------------------------
(* Steps of a tab.                                                         *)

\* A step of a tab that is sound before it.
Good(s, r) == TabInv(r) /\ Quiet(s, r)

\* The action is left alone, and of the revalidation at most its generation has ended.
LEMMA GoodAside ==
    ASSUME NEW s, TabInv(s), NEW r \in Tab, SameAct(s, r), LaterAccess(s, r)
    PROVE  Good(s, r)
<1>1. Prompted(r) /\ ActSound(r) /\ AccessSound(r)
  BY SameActSound, LaterAccessSound DEF TabInv
<1>2. Quiet(s, r)
  BY DEF Quiet, LaterAccess
<1>. QED BY <1>1, <1>2 DEF Good, TabInv

\* The continuations follow.
LEMMA GoodSettled ==
    ASSUME NEW s, NEW r, Good(s, r)
    PROVE  Good(s, Settle(r))
<1> DEFINE q == Settle(r)
<1>1. q \in Tab /\ Prompted(q) /\ ActSound(q) /\ SameLock(r, q)
  BY SettleFacts DEF Good, TabInv
<1> HIDE DEF q
<1>2. AccessSound(q) /\ Quiet(s, q)
  BY <1>1 DEF Good, TabInv, SameLock, SameAccess, AccessSound, Quiet
<1>3. Good(s, q)
  BY <1>1, <1>2 DEF Good, TabInv
<1>. QED BY <1>3 DEF q

\* The inductive invariant: every tab is sound.
IInv == tab \in [Tabs -> Tab] /\ \A t \in Tabs : TabInv(tab[t])

\* A step that keeps the invariant and gains no access across a lock.
Sound == IInv' /\ \A t \in Tabs : Quiet(tab[t], tab'[t])

\* A step that changes one tab well is sound.
LEMMA OneTab ==
    ASSUME IInv, NEW t \in Tabs, NEW r, Good(tab[t], r), tab' = [tab EXCEPT ![t] = r]
    PROVE  Sound
<1>1. r \in Tab
  BY DEF Good, TabInv
<1>2. tab' \in [Tabs -> Tab]
  BY <1>1 DEF IInv
<1>3. ASSUME NEW u \in Tabs PROVE TabInv(tab'[u]) /\ Quiet(tab[u], tab'[u])
  <2>1. CASE u = t
    BY <2>1 DEF Good, IInv
  <2>2. CASE u # t
    BY <2>2 DEF Quiet, IInv
  <2>. QED BY <2>1, <2>2
<1>. QED BY <1>2, <1>3 DEF Sound, IInv

\* So is one after which the continuations follow.
LEMMA BecomesSound ==
    ASSUME IInv, NEW t \in Tabs, NEW r, Good(tab[t], r), Becomes(t, r)
    PROVE  Sound
  BY GoodSettled, OneTab DEF Becomes

-----------------------------------------------------------------------------
(* What the user does.                                                     *)

\* A press starts over: the action has not run for it.
LEMMA PressActionStep ==
    ASSUME IInv, NEW t \in Tabs, PressAction(t) PROVE Sound
<1> DEFINE s == tab[t]
           r == Enter([s EXCEPT !.aborted = FALSE, !.ran = 0], "act")
<1>1. s \in Tab /\ TabInv(s) /\ Prompted(s) /\ ActSound(s)
      /\ s.act \notin {"prompt", "first", "retry"} /\ s.req["action"] = "idle" /\ Becomes(t, r)
  BY DEF PressAction, IInv, TabInv
<1> HIDE DEF s
<1>2. r = [s EXCEPT !.aborted = FALSE, !.ran = 0, !.act = "locking"]
  BY DEF Enter
<1> HIDE DEF r
<1>3. r \in Tab
  BY <1>1, <1>2 DEF Tab, Acts, Gates
<1>4. r.dialog = s.dialog /\ r.waiters = s.waiters /\ r.act = "locking" /\ r.ran = 0 /\ r.req = s.req
  BY <1>1, <1>2 DEF Tab
<1>5. r.auth = s.auth /\ r.lockSeen = s.lockSeen /\ r.validating = s.validating
  BY <1>1, <1>2 DEF Tab
<1>6. Good(s, r)
  BY <1>1, <1>3, <1>4, <1>5 DEF Good, TabInv, Prompted, ActSound, AccessSound, Quiet, Gates
<1>. QED BY <1>1, <1>6, BecomesSound DEF s

\* The owner aborts; the last one who waits takes the prompt along.
LEMMA CancelActionStep ==
    ASSUME IInv, NEW t \in Tabs, CancelAction(t) PROVE Sound
<1> DEFINE s == [tab[t] EXCEPT !.aborted = TRUE]
           w == [s EXCEPT !.waiters = @ \ {"action"}, !.act = "refused"]
<1>1. tab[t] \in Tab /\ TabInv(tab[t])
  BY DEF IInv
<1>2. s \in Tab
  BY <1>1 DEF Tab
<1>3. SameAct(tab[t], s) /\ SameLock(tab[t], s)
  <2>1. s.dialog = tab[t].dialog /\ s.waiters = tab[t].waiters /\ s.act = tab[t].act /\ s.ran = tab[t].ran
        /\ s.req = tab[t].req
    BY <1>1 DEF Tab
  <2>2. s.auth = tab[t].auth /\ s.lockSeen = tab[t].lockSeen /\ s.validating = tab[t].validating
    BY <1>1 DEF Tab
  <2> HIDE DEF s
  <2>. QED BY <2>1, <2>2 DEF SameAct, SameLock, SameAccess
<1>4. Good(tab[t], s)
  <2> HIDE DEF s
  <2>. QED BY <1>1, <1>2, <1>3, GoodAside DEF SameLock, SameAccess, LaterAccess
<1>5. Becomes(t, IF s.act # "prompt" THEN s ELSE IF w.waiters = {} THEN closePrompt(w) ELSE w)
  BY DEF CancelAction
<1> HIDE DEF s
<1>6. CASE s.act # "prompt"
  BY <1>4, <1>5, <1>6, BecomesSound
<1>7. CASE s.act = "prompt"
  <2>1. Prompted(s) /\ ActSound(s) /\ AccessSound(s) /\ Quiet(tab[t], s)
    BY <1>4 DEF Good, TabInv
  <2>2. "action" \in s.waiters /\ s.ran = 0 /\ s.req["action"] = "idle" /\ s.dialog = TRUE
    BY <1>2, <1>7, <2>1 DEF Prompted, ActSound, Gates, Tab
  <2>3. w \in Tab
    <3> DEFINE rest == s.waiters \ {"action"}
    <3>1. rest \in SUBSET {"action", "unlock"} /\ w = [s EXCEPT !.waiters = rest, !.act = "refused"]
      BY <1>2 DEF Tab
    <3> HIDE DEF rest, w
    <3>. QED BY <1>2, <3>1 DEF Tab, Acts
  <2>4. w.waiters = s.waiters \ {"action"} /\ w.act = "refused" /\ w.ran = s.ran /\ w.req = s.req /\ w.dialog = s.dialog
    BY <1>2 DEF Tab
  <2>5. w.auth = s.auth /\ w.lockSeen = s.lockSeen /\ w.validating = s.validating
    BY <1>2 DEF Tab
  <2> HIDE DEF w
  <2>6. ActSound(w) /\ AccessSound(w) /\ Quiet(tab[t], w)
    BY <2>1, <2>2, <2>4, <2>5 DEF ActSound, AccessSound, Quiet, Gates
  <2>7. CASE w.waiters = {}
    <3> DEFINE r == closePrompt(w)
    <3>1. r \in Tab /\ SameAccess(w, r) /\ r.auth = w.auth /\ Prompted(r) /\ ActSound(r)
      BY <2>3, <2>6, ClosePromptFacts
    <3> HIDE DEF r
    <3>2. Good(tab[t], r)
      BY <2>6, <3>1 DEF Good, TabInv, SameAccess, AccessSound, Quiet
    <3>. QED BY <1>5, <1>7, <2>7, <3>2, BecomesSound DEF r
  <2>8. CASE w.waiters # {}
    <3>1. Prompted(w)
      BY <2>2, <2>4, <2>8 DEF Prompted
    <3>2. Good(tab[t], w)
      BY <2>3, <2>6, <3>1 DEF Good, TabInv
    <3>. QED BY <1>5, <1>7, <2>8, <3>2, BecomesSound
  <2>. QED BY <2>7, <2>8
<1>. QED BY <1>6, <1>7

\* The ticker begins to read, the unlock button is pressed, or a token is entered.
LEMMA EnterSteps ==
    ASSUME IInv, NEW t \in Tabs, StartRead(t) \/ PressUnlock(t) \/ Submit(t) PROVE Sound
<1> DEFINE s == tab[t]
           q == [s.req EXCEPT !["verify"] = "sent"]
<1>1. s \in Tab /\ TabInv(s)
  BY DEF IInv
<1>2. q \in Requests /\ q["action"] = s.req["action"] /\ q["access"] = s.req["access"]
  BY <1>1 DEF Tab, Kinds, Requests, Replies
<1>3. PICK r : Becomes(t, r) /\ \/ r = [s EXCEPT !.readFresh = TRUE, !.read = "locking"]
                                \/ r = [s EXCEPT !.unlock = "locking"]
                                \/ r = [s EXCEPT !.req = q]
  <2>1. CASE StartRead(t)
    BY <2>1 DEF StartRead, Enter
  <2>2. CASE PressUnlock(t)
    BY <2>2 DEF PressUnlock, Enter
  <2>3. CASE Submit(t)
    BY <2>3 DEF Submit
  <2>. QED BY <2>1, <2>2, <2>3
<1> HIDE DEF s, q
<1>4. r \in Tab
  BY <1>1, <1>2, <1>3 DEF Tab, Gates
<1>5. r.dialog = s.dialog /\ r.waiters = s.waiters /\ r.act = s.act /\ r.ran = s.ran
  BY <1>1, <1>3 DEF Tab
<1>6. r.lockSeen = s.lockSeen /\ r.validating = s.validating
  BY <1>1, <1>3 DEF Tab
<1>7. r.req["action"] = s.req["action"] /\ r.req["access"] = s.req["access"]
  BY <1>1, <1>2, <1>3 DEF Tab
<1>8. Good(s, r)
  BY <1>1, <1>4, <1>5, <1>6, <1>7, GoodAside DEF SameAct, LaterAccess
<1>. QED BY <1>3, <1>8, BecomesSound DEF s

\* The prompt closes.
LEMMA ClosePromptGood ==
    ASSUME NEW s, TabInv(s), NEW r, r = closePrompt(s) PROVE Good(s, r)
<1>1. r \in Tab /\ SameAccess(s, r) /\ r.auth = s.auth /\ Prompted(r) /\ ActSound(r)
  BY ClosePromptFacts DEF TabInv
<1>. QED BY <1>1 DEF Good, TabInv, SameAccess, AccessSound, Quiet

\* reset: the generation ends, the prompt closes.
LEMMA ResetGood ==
    ASSUME NEW s, TabInv(s), NEW r, r = reset(s)
    PROVE  Good(s, r) /\ r.auth = FALSE /\ r.validating # "current"
<1>1. r \in Tab /\ LaterAccess(s, r) /\ r.auth = FALSE /\ r.validating # "current" /\ Prompted(r) /\ ActSound(r)
  BY ResetFacts DEF TabInv
<1>2. AccessSound(r)
  BY <1>1, LaterAccessSound DEF TabInv
<1>. QED BY <1>1, <1>2 DEF Good, TabInv, Quiet

\* A tab without access, whatever it remembers of locks.
LEMMA GoodLocked ==
    ASSUME NEW s, NEW e, TabInv(e), e.validating # "current", NEW r \in Tab, SameAct(e, r),
           r.auth = FALSE, r.validating = e.validating, r.req["access"] = e.req["access"]
    PROVE  Good(s, r)
<1>1. Prompted(r) /\ ActSound(r)
  BY SameActSound DEF TabInv
<1>2. AccessSound(r)
  BY DEF AccessSound, TabInv
<1>. QED BY <1>1, <1>2 DEF Good, TabInv, Quiet

\* A lock or a sign-out starts.
LEMMA LockSteps ==
    ASSUME IInv, NEW t \in Tabs, lock(t) \/ signOutViewing(t) PROVE Sound
<1> DEFINE s == tab[t]
           e == reset(s)
           q == [e.req EXCEPT !["logout"] = "sent"]
           q2 == [e.req EXCEPT !["signout"] = "sent"]
<1>1. TabInv(s)
  BY DEF IInv
<1>2. TabInv(e) /\ e \in Tab /\ e.auth = FALSE /\ e.validating # "current"
  <2> HIDE DEF s
  <2>. QED BY <1>1, ResetGood DEF Good, TabInv
<1>3. PICK r : Becomes(t, r) /\
                 \/ r = [e EXCEPT !.remotePending = FALSE, !.lockFailure = FALSE,
                                  !.lockShown = TRUE, !.locking = TRUE, !.lockSeen = TRUE, !.req = q]
                 \/ r = [e EXCEPT !.remotePending = TRUE, !.lockFailure = FALSE,
                                  !.wiped = TRUE, !.lockSeen = TRUE, !.aborted = TRUE, !.req = q2]
  <2>1. CASE lock(t)
    BY <2>1 DEF lock
  <2>2. CASE signOutViewing(t)
    BY <2>2 DEF signOutViewing
  <2>. QED BY <2>1, <2>2
<1> HIDE DEF e
<1>4. /\ q \in Requests /\ q["action"] = e.req["action"] /\ q["access"] = e.req["access"]
      /\ q2 \in Requests /\ q2["action"] = e.req["action"] /\ q2["access"] = e.req["access"]
  BY <1>2 DEF Tab, Kinds, Requests, Replies
<1> HIDE DEF q, q2, s
<1>5. r \in Tab
  <2>1. CASE r = [e EXCEPT !.remotePending = FALSE, !.lockFailure = FALSE,
                           !.lockShown = TRUE, !.locking = TRUE, !.lockSeen = TRUE, !.req = q]
    BY <1>2, <1>4, <2>1 DEF Tab
  <2>2. CASE r = [e EXCEPT !.remotePending = TRUE, !.lockFailure = FALSE,
                           !.wiped = TRUE, !.lockSeen = TRUE, !.aborted = TRUE, !.req = q2]
    BY <1>2, <1>4, <2>2 DEF Tab
  <2>. QED BY <1>3, <2>1, <2>2
<1>6. r.dialog = e.dialog /\ r.waiters = e.waiters /\ r.act = e.act /\ r.ran = e.ran
  BY <1>2, <1>3 DEF Tab
<1>7. r.auth = e.auth /\ r.validating = e.validating
  BY <1>2, <1>3 DEF Tab
<1>8. r.req["action"] = e.req["action"] /\ r.req["access"] = e.req["access"]
  BY <1>2, <1>3, <1>4 DEF Tab
<1>9. Good(s, r)
  BY <1>2, <1>5, <1>6, <1>7, <1>8, GoodLocked DEF SameAct
<1>. QED BY <1>3, <1>9, BecomesSound DEF s

\* Access is forgotten.
LEMMA ClearTokenGood ==
    ASSUME NEW s, TabInv(s), NEW r, r = clearToken(s) PROVE Good(s, r)
<1>1. r \in Tab /\ SameAct(s, r) /\ LaterAccess(s, r)
  BY ClearTokenFacts DEF TabInv
<1>. QED BY <1>1, GoodAside

\* A revalidation is asked, and gains nothing before its answer.
LEMMA RevalidateGood ==
    ASSUME NEW s, TabInv(s), NEW r, r = revalidate(s) PROVE Good(s, r) /\ (r.auth = TRUE => s.auth = TRUE)
<1>1. r \in Tab /\ SameAct(s, r) /\ AccessSound(r) /\ (r.auth = TRUE => s.auth = TRUE)
  BY RevalidateFacts DEF TabInv
<1>2. Prompted(r) /\ ActSound(r)
  BY <1>1, SameActSound DEF TabInv
<1>3. Quiet(s, r)
  BY <1>1 DEF Quiet, TabInv, Tab
<1>. QED BY <1>1, <1>2, <1>3 DEF Good, TabInv

\* A tab that does nothing is sound.
LEMMA GoodStill == ASSUME NEW s, TabInv(s) PROVE Good(s, s)
  BY DEF Good, Quiet

\* The window loses or gains the focus, the session runs out, the prompt is closed, the
\* page goes to the back/forward cache and returns.
LEMMA LossSteps ==
    ASSUME IInv, NEW t \in Tabs, Blur(t) \/ Focus(t) \/ ClosePrompt(t) \/ BackForward(t) \/ ExpiryFires(t)
    PROVE  Sound
<1> DEFINE s == tab[t]
<1>1. TabInv(s)
  BY DEF IInv
<1>2. \/ Becomes(t, clearToken(s)) \/ Becomes(t, s) \/ Becomes(t, revalidate(s))
      \/ Becomes(t, closePrompt(s)) \/ Becomes(t, revalidate(reset(s))) \/ Becomes(t, reset(s))
  BY DEF Blur, Focus, ClosePrompt, BackForward, ExpiryFires
<1> HIDE DEF s
<1>3. Good(s, clearToken(s)) /\ Good(s, s) /\ Good(s, revalidate(s)) /\ Good(s, closePrompt(s)) /\ Good(s, reset(s))
  BY <1>1, ClearTokenGood, GoodStill, RevalidateGood, ClosePromptGood, ResetGood
<1>4. Good(s, revalidate(reset(s)))
  <2> DEFINE e == reset(s)
             r == revalidate(e)
  <2>1. TabInv(e) /\ e.auth = FALSE
    BY <1>1, ResetGood DEF Good
  <2> HIDE DEF e
  <2>2. TabInv(r) /\ (r.auth = TRUE => e.auth = TRUE)
    BY <2>1, RevalidateGood DEF Good
  <2> HIDE DEF r
  <2>3. Good(s, r)
    BY <2>1, <2>2 DEF Good, Quiet, TabInv, Tab
  <2>. QED BY <2>3 DEF e, r
<1>. QED BY <1>2, <1>3, <1>4, BecomesSound DEF s

\* The user closes the tab.
LEMMA CloseStep ==
    ASSUME IInv, NEW t \in Tabs, Close(t) PROVE Sound
<1> DEFINE s == tab[t]
           r == [s EXCEPT !.open = FALSE]
<1>1. s \in Tab /\ TabInv(s) /\ tab' = [tab EXCEPT ![t] = r]
  BY DEF IInv, Close
<1> HIDE DEF s
<1>2. r \in Tab
  BY <1>1 DEF Tab
<1>3. r.dialog = s.dialog /\ r.waiters = s.waiters /\ r.act = s.act /\ r.ran = s.ran /\ r.req = s.req
  BY <1>1 DEF Tab
<1>4. r.lockSeen = s.lockSeen /\ r.validating = s.validating
  BY <1>1 DEF Tab
<1> HIDE DEF r
<1>5. Good(s, r)
  BY <1>1, <1>2, <1>3, <1>4, GoodAside DEF SameAct, LaterAccess
<1>. QED BY <1>1, <1>5, OneTab DEF s

-----------------------------------------------------------------------------
(* The server, and what reaches a tab.                                     *)

\* A request is served, or never arrives.
LEMMA ServeSteps ==
    ASSUME IInv, NEW t \in Tabs, NEW kind \in Kinds, Serve(t, kind) \/ Lose(t, kind)
    PROVE  Sound
<1> DEFINE s == tab[t]
<1>1. s \in Tab /\ TabInv(s) /\ s.req \in Requests /\ s.ran \in Nat /\ "action" \in Kinds /\ "access" \in Kinds
  BY DEF IInv, Tab, Kinds
<1>2. PICK v \in Replies, ran \in Nat :
        /\ s.req[kind] \in {"sent", "stray"} /\ (s.req[kind] # "stray" => v # "idle")
        /\ tab' = [tab EXCEPT ![t] = [s EXCEPT !.req = [s.req EXCEPT ![kind] = v], !.ran = ran]]
        /\ ran = s.ran \/ (kind = "action" /\ ran = s.ran + 1 /\ v \in {"ok", "lost", "idle"})
        /\ kind = "action" /\ s.req[kind] # "stray" => v \in {"ok", "lost", "denied", "cooldown"}
  <2>1. CASE Serve(t, kind)
    <3>1. PICK served \in Served(kind), lost \in BOOLEAN :
             tab' = [tab EXCEPT
                ![t].req[kind] = IF @ = "stray" THEN "idle" ELSE IF lost THEN "lost" ELSE served[2],
                ![t].ran = IF kind = "action" /\ served[2] = "ok" THEN @ + 1 ELSE @]
      BY <2>1 DEF Serve
    <3> DEFINE v == IF s.req[kind] = "stray" THEN "idle" ELSE IF lost THEN "lost" ELSE served[2]
               ran == IF kind = "action" /\ served[2] = "ok" THEN s.ran + 1 ELSE s.ran
    <3>2. served[2] \in {"ok", "denied", "live", "dead", "cooldown"}
          /\ (kind = "action" => served[2] \in {"ok", "denied", "cooldown"})
      BY DEF Served, Kinds
    <3>3. s.req[kind] \in {"sent", "stray"}
      BY <2>1 DEF Serve
    <3>4. tab' = [tab EXCEPT ![t] = [s EXCEPT !.req = [s.req EXCEPT ![kind] = v], !.ran = ran]]
      BY <3>1 DEF IInv
    <3>5. v \in Replies /\ ran \in Nat
      BY <1>1, <3>2 DEF Replies
    <3>6. ran = s.ran \/ (kind = "action" /\ ran = s.ran + 1 /\ v \in {"ok", "lost", "idle"})
      OBVIOUS
    <3>7. (s.req[kind] # "stray" => v # "idle")
          /\ (kind = "action" /\ s.req[kind] # "stray" => v \in {"ok", "lost", "denied", "cooldown"})
      BY <3>2
    <3> HIDE DEF v, ran, s
    <3>. QED BY <3>3, <3>4, <3>5, <3>6, <3>7
  <2>2. CASE Lose(t, kind)
    <3> DEFINE v == IF s.req[kind] = "stray" THEN "idle" ELSE "lost"
    <3>1. tab' = [tab EXCEPT ![t].req[kind] = IF @ = "stray" THEN "idle" ELSE "lost"]
          /\ s.req[kind] \in {"sent", "stray"}
      BY <2>2 DEF Lose
    <3>2. tab' = [tab EXCEPT ![t] = [s EXCEPT !.req = [s.req EXCEPT ![kind] = v]]]
      BY <3>1
    <3>3. [s EXCEPT !.req = [s.req EXCEPT ![kind] = v]] = [s EXCEPT !.req = [s.req EXCEPT ![kind] = v], !.ran = s.ran]
      <4> DEFINE q == [s.req EXCEPT ![kind] = v]
      <4> HIDE DEF q, s
      <4>. QED BY <1>1 DEF Tab
    <3>4. v \in Replies /\ (s.req[kind] # "stray" => v = "lost")
      BY DEF Replies
    <3>5. tab' = [tab EXCEPT ![t] = [s EXCEPT !.req = [s.req EXCEPT ![kind] = v], !.ran = s.ran]]
      BY <3>2, <3>3
    <3> HIDE DEF v, s
    <3>6. /\ s.req[kind] # "stray" => v # "idle"
          /\ kind = "action" /\ s.req[kind] # "stray" => v \in {"ok", "lost", "denied", "cooldown"}
      BY <3>4
    <3>. QED BY <1>1, <3>1, <3>4, <3>5, <3>6
  <2>. QED BY <2>1, <2>2
<1> DEFINE q == [s.req EXCEPT ![kind] = v]
           r == [s EXCEPT !.req = q, !.ran = ran]
<1>3. q \in Requests /\ \A k \in Kinds : q[k] = IF k = kind THEN v ELSE s.req[k]
  BY <1>1 DEF Requests
<1> HIDE DEF s, q
<1>4. r \in Tab
  BY <1>1, <1>3 DEF Tab
<1>5. r.dialog = s.dialog /\ r.waiters = s.waiters /\ r.act = s.act /\ r.ran = ran /\ r.req = q
  BY <1>1 DEF Tab
<1>6. r.auth = s.auth /\ r.lockSeen = s.lockSeen /\ r.validating = s.validating
  BY <1>1 DEF Tab
<1> HIDE DEF r
<1>7. Prompted(r) /\ Quiet(s, r)
  BY <1>1, <1>5, <1>6 DEF Prompted, TabInv, Quiet
<1>8. AccessSound(r)
  BY <1>1, <1>2, <1>3, <1>5, <1>6 DEF AccessSound, TabInv
<1>9. ActSound(r)
  <2>1. CASE kind = "action"
    <3>1. s.req["action"] = "sent" /\ s.ran = 0 /\ s.act \in {"first", "retry"} /\ ("action" \in s.waiters <=> s.act = "prompt")
      BY <1>1, <1>2, <2>1 DEF ActSound, TabInv
    <3>2. q["action"] = v /\ v \in {"ok", "lost", "denied", "cooldown"} /\ ran <= 1 /\ (v \in {"denied", "cooldown"} => ran = 0)
      BY <1>1, <1>2, <1>3, <2>1, <3>1
    <3>. QED BY <1>5, <3>1, <3>2 DEF ActSound, Gates
  <2>2. CASE kind # "action"
    <3>1. q["action"] = s.req["action"] /\ ran = s.ran
      BY <1>1, <1>2, <1>3, <2>2
    <3>. QED BY <1>1, <1>5, <3>1 DEF ActSound, TabInv
  <2>. QED BY <2>1, <2>2
<1>10. Good(s, r)
  BY <1>4, <1>7, <1>8, <1>9 DEF Good, TabInv
<1>11. tab' = [tab EXCEPT ![t] = r]
  BY <1>2 DEF r, q
<1>. QED BY <1>10, <1>11, OneTab DEF s

-----------------------------------------------------------------------------
(* The answers.                                                            *)

\* What two states have in common when an answer is taken from its request.
TakenFrom(s, kind, e) ==
    /\ e \in Tab /\ e.dialog = s.dialog /\ e.waiters = s.waiters /\ e.act = s.act /\ e.ran = s.ran
    /\ e.auth = s.auth /\ e.lockSeen = s.lockSeen /\ e.validating = s.validating
    /\ e.req[kind] = "idle" /\ \A k \in Kinds : k # kind => e.req[k] = s.req[k]

\* The answer of a request is taken, and the request is idle.
LEMMA TakenFacts ==
    ASSUME NEW s \in Tab, NEW kind \in Kinds, NEW e, e = [s EXCEPT !.req[kind] = "idle"]
    PROVE  TakenFrom(s, kind, e)
<1> DEFINE q == [s.req EXCEPT ![kind] = "idle"]
<1>1. q \in Requests /\ q[kind] = "idle" /\ \A k \in Kinds : k # kind => q[k] = s.req[k]
  BY DEF Tab, Requests, Replies
<1>2. e = [s EXCEPT !.req = q]
  OBVIOUS
<1> HIDE DEF q
<1>3. e \in Tab
  BY <1>1, <1>2 DEF Tab
<1>4. e.dialog = s.dialog /\ e.waiters = s.waiters /\ e.act = s.act /\ e.ran = s.ran /\ e.req = q
  BY <1>2 DEF Tab
<1>5. e.auth = s.auth /\ e.lockSeen = s.lockSeen /\ e.validating = s.validating
  BY <1>2 DEF Tab
<1>. QED BY <1>1, <1>3, <1>4, <1>5 DEF TakenFrom

\* The answer of a request that neither the action nor a revalidation waits for.
LEMMA TakenAside ==
    ASSUME NEW s, TabInv(s), NEW kind \in Kinds \ {"action", "access"}, NEW e, e = [s EXCEPT !.req[kind] = "idle"]
    PROVE  TabInv(e) /\ SameLock(s, e) /\ SameAct(s, e)
<1>1. s \in Tab /\ "action" \in Kinds /\ "access" \in Kinds
  BY DEF TabInv, Kinds
<1>2. /\ e \in Tab /\ e.dialog = s.dialog /\ e.waiters = s.waiters /\ e.act = s.act /\ e.ran = s.ran
      /\ e.auth = s.auth /\ e.lockSeen = s.lockSeen /\ e.validating = s.validating
      /\ e.req["action"] = s.req["action"] /\ e.req["access"] = s.req["access"]
  <2>1. TakenFrom(s, kind, e)
    BY <1>1, TakenFacts
  <2>. QED BY <1>1, <2>1 DEF TakenFrom
<1>3. SameAct(s, e) /\ SameLock(s, e)
  BY <1>2 DEF SameAct, SameLock, SameAccess
<1>4. Prompted(e) /\ ActSound(e)
  BY <1>1, <1>2, <1>3, SameActSound DEF TabInv
<1>5. AccessSound(e)
  BY <1>2 DEF AccessSound, TabInv
<1>. QED BY <1>2, <1>3, <1>4, <1>5 DEF TabInv

\* What follows the taking of an answer.
LEMMA GoodAfter ==
    ASSUME NEW s, NEW e, SameLock(s, e), NEW r, Good(e, r)
    PROVE  Good(s, r)
  BY DEF Good, Quiet, SameLock, SameAccess

\* A tab that has just been opened.
LEMMA NewTabGood == ASSUME NEW s PROVE Good(s, NewTab)
<1>1. Idle \in Requests /\ Idle["action"] = "idle" /\ Idle["access"] = "idle" /\ "start" \in Kinds
  BY DEF Idle, Requests, Replies, Kinds
<1> DEFINE q == [Idle EXCEPT !["start"] = "sent"]
<1>2. q \in Requests /\ q["action"] = "idle" /\ q["access"] = "idle"
  BY <1>1 DEF Requests, Replies, Kinds
<1> HIDE DEF q
<1>3. NewTab.req = q /\ NewTab \in Tab
  <2>1. NewTab.req = q
    BY DEF NewTab, q
  <2>2. NewTab \in Tab
    BY <1>2 DEF NewTab, Tab, Acts, q
  <2>. QED BY <2>1, <2>2
<1>4. NewTab.dialog = FALSE /\ NewTab.waiters = {} /\ NewTab.act = "idle" /\ NewTab.ran = 0 /\ NewTab.auth = FALSE
      /\ NewTab.lockSeen = FALSE /\ NewTab.validating = "no"
  BY DEF NewTab
<1>5. Prompted(NewTab) /\ ActSound(NewTab) /\ AccessSound(NewTab)
  BY <1>2, <1>3, <1>4 DEF Prompted, ActSound, AccessSound, Gates
<1>. QED BY <1>3, <1>4, <1>5 DEF Good, TabInv, Quiet

\* A lock has its answer.
LEMMA AnswerLogoutStep ==
    ASSUME IInv, NEW t \in Tabs, AnswerLogout(t) PROVE Sound
<1> DEFINE s == tab[t]
           e == Taken(t, "logout")
           ok == s.req["logout"] = "ok"
           r == [[e EXCEPT !.locking = FALSE] EXCEPT !.lockShown = ~ok, !.lockFailure = @ \/ ~ok]
<1>1. TabInv(s) /\ s \in Tab /\ Becomes(t, r)
  BY DEF IInv, AnswerLogout
<1>2. TabInv(e) /\ e \in Tab /\ SameLock(s, e)
  <2>1. e = [s EXCEPT !.req["logout"] = "idle"] /\ "logout" \in Kinds \ {"action", "access"}
    BY DEF Taken, Kinds
  <2> HIDE DEF e, s
  <2>2. TabInv(e) /\ SameLock(s, e)
    BY <1>1, <2>1, TakenAside
  <2>. QED BY <2>2 DEF TabInv
<1> DEFINE shown == ~ok
           failure == e.lockFailure \/ ~ok
<1>3. shown \in BOOLEAN /\ failure \in BOOLEAN
  OBVIOUS
<1>4. r = [e EXCEPT !.locking = FALSE, !.lockShown = shown, !.lockFailure = failure]
  BY <1>2 DEF Tab
<1> HIDE DEF e, s, shown, failure, ok, r
<1>5. r \in Tab
  BY <1>2, <1>3, <1>4 DEF Tab
<1>6. r.dialog = e.dialog /\ r.waiters = e.waiters /\ r.act = e.act /\ r.ran = e.ran /\ r.req = e.req
  BY <1>2, <1>4 DEF Tab
<1>7. r.lockSeen = e.lockSeen /\ r.validating = e.validating
  BY <1>2, <1>4 DEF Tab
<1>8. Good(e, r)
  BY <1>2, <1>5, <1>6, <1>7, GoodAside DEF SameAct, LaterAccess
<1>9. Good(s, r)
  BY <1>2, <1>8, GoodAfter
<1>. QED BY <1>1, <1>9, BecomesSound DEF s

\* A sign-out has its answer: the page is loaded again, or offers to retry.
LEMMA AnswerSignOutStep ==
    ASSUME IInv, NEW t \in Tabs, AnswerSignOut(t) PROVE Sound
<1> DEFINE s == tab[t]
           e == reset(Taken(t, "signout"))
           r == [e EXCEPT !.remotePending = FALSE, !.lockFailure = TRUE]
<1>1. TabInv(s) /\ (tab' = [tab EXCEPT ![t] = NewTab] \/ tab' = [tab EXCEPT ![t] = r])
  BY DEF IInv, AnswerSignOut
<1>2. TabInv(e) /\ e \in Tab /\ e.auth = FALSE /\ e.validating # "current"
  <2> DEFINE k == Taken(t, "signout")
  <2>1. k = [s EXCEPT !.req["signout"] = "idle"] /\ "signout" \in Kinds \ {"action", "access"}
    BY DEF Taken, Kinds
  <2>2. e = reset(k)
    OBVIOUS
  <2> HIDE DEF k, s, e
  <2>3. TabInv(k)
    BY <1>1, <2>1, TakenAside
  <2>. QED BY <2>2, <2>3, ResetGood DEF Good, TabInv
<1> HIDE DEF e, s
<1>3. r \in Tab
  BY <1>2 DEF Tab
<1>4. r.dialog = e.dialog /\ r.waiters = e.waiters /\ r.act = e.act /\ r.ran = e.ran /\ r.req = e.req
  BY <1>2 DEF Tab
<1>5. r.auth = e.auth /\ r.validating = e.validating
  BY <1>2 DEF Tab
<1> HIDE DEF r
<1>6. Good(s, r)
  BY <1>2, <1>3, <1>4, <1>5, GoodLocked DEF SameAct
<1>. QED BY <1>1, <1>6, NewTabGood, OneTab DEF s

\* A token is accepted: who waited for it goes on, and the action is sent again.
LEMMA AnswerVerifyStep ==
    ASSUME IInv, NEW t \in Tabs, AnswerVerify(t) PROVE Sound
<1> DEFINE s == tab[t]
           e == Taken(t, "verify")
           g == endGeneration(e)
           r == Verified(e)
<1>1. TabInv(s) /\ (Becomes(t, r) \/ Becomes(t, e))
  BY DEF IInv, AnswerVerify
<1>2. TabInv(e) /\ e \in Tab /\ SameLock(s, e) /\ SameAct(s, e)
  <2>1. e = [s EXCEPT !.req["verify"] = "idle"] /\ "verify" \in Kinds \ {"action", "access"}
    BY DEF Taken, Kinds
  <2> HIDE DEF e, s
  <2>2. TabInv(e) /\ SameLock(s, e) /\ SameAct(s, e)
    BY <1>1, <2>1, TakenAside
  <2>. QED BY <2>2 DEF TabInv
<1>3. g \in Tab /\ SameAct(e, g) /\ LaterAccess(e, g)
  <2> HIDE DEF e
  <2>. QED BY <1>2, EndGenerationFacts
<1> DEFINE waits == "action" \in e.waiters
           act == IF waits THEN "retry" ELSE g.act
           q == IF waits THEN [g.req EXCEPT !["action"] = "sent"] ELSE g.req
           u == IF "unlock" \in e.waiters THEN "idle" ELSE g.unlock
<1>4. r = [g EXCEPT !.auth = TRUE, !.avail = TRUE, !.lockShown = TRUE, !.dialog = FALSE, !.waiters = {},
                    !.act = act, !.actFresh = waits, !.req = q, !.unlock = u]
  <2>1. g.req \in Requests
    BY <1>3 DEF Tab
  <2>2. q = [g.req EXCEPT !["action"] = IF waits THEN "sent" ELSE @]
    BY <2>1 DEF Requests
  <2>. QED BY <2>2 DEF Verified
<1>5. /\ act \in Acts /\ waits \in BOOLEAN /\ u \in Gates \cup {"idle", "prompt"}
      /\ q \in Requests /\ q["access"] = g.req["access"]
      /\ q["action"] = IF waits THEN "sent" ELSE g.req["action"]
  BY <1>3 DEF Tab, Acts, Requests, Replies, Kinds
<1>6. (waits <=> e.act = "prompt") /\ (waits => e.ran = 0) /\ ActSound(e)
  BY <1>2 DEF TabInv, ActSound
<1>7. act = IF waits THEN "retry" ELSE g.act
  OBVIOUS
<1> HIDE DEF act, q, u, waits, g, e, s, r
<1>8. r \in Tab
  BY <1>3, <1>4, <1>5 DEF Tab
<1>9. r.dialog = FALSE /\ r.waiters = {} /\ r.act = act /\ r.ran = g.ran /\ r.req = q
  BY <1>3, <1>4 DEF Tab
<1>10. r.lockSeen = g.lockSeen /\ r.validating = g.validating
  BY <1>3, <1>4 DEF Tab
<1>11. Prompted(r) /\ ActSound(r)
  <2>1. Prompted(r)
    BY <1>9 DEF Prompted
  <2>2. g.act = e.act /\ g.ran = e.ran /\ g.req["action"] = e.req["action"]
    BY <1>3 DEF SameAct
  <2>3. CASE waits
    <3>1. r.act = "retry" /\ r.req["action"] = "sent" /\ r.ran = 0
      BY <1>5, <1>6, <1>7, <1>9, <2>2, <2>3
    <3>2. ActSound(r)
      BY <1>9, <3>1 DEF ActSound, Gates
    <3>. QED BY <2>1, <3>2
  <2>4. CASE ~waits
    <3>1. r.act = e.act /\ r.req["action"] = e.req["action"] /\ r.ran = e.ran /\ e.act # "prompt"
      BY <1>5, <1>6, <1>7, <1>9, <2>2, <2>4
    <3>2. ActSound(r)
      BY <1>6, <1>9, <3>1 DEF ActSound
    <3>. QED BY <2>1, <3>2
  <2>. QED BY <2>3, <2>4
<1>12. LaterAccess(e, r)
  BY <1>3, <1>5, <1>9, <1>10 DEF LaterAccess
<1>13. Good(e, r)
  BY <1>2, <1>8, <1>11, <1>12, LaterAccessSound DEF Good, TabInv, Quiet, LaterAccess
<1>14. Good(e, e)
  BY <1>2, GoodStill
<1>15. Good(s, r) /\ Good(s, e)
  BY <1>2, <1>13, <1>14, GoodAfter
<1>. QED BY <1>1, <1>15, BecomesSound DEF s

\* The answer of /api/access gives access only when no generation has ended meanwhile.
LEMMA AnswerAccessStep ==
    ASSUME IInv, NEW t \in Tabs, AnswerAccess(t) PROVE Sound
<1> DEFINE s == tab[t]
           answer == s.req["access"]
           e == Taken(t, "access")
           r == Validated(e, answer)
<1>1. TabInv(s) /\ s \in Tab /\ Becomes(t, r) /\ answer # "idle"
  BY DEF IInv, AnswerAccess, Answers, TabInv
<1>2. /\ e \in Tab /\ e.dialog = s.dialog /\ e.waiters = s.waiters /\ e.act = s.act /\ e.ran = s.ran
      /\ e.auth = s.auth /\ e.lockSeen = s.lockSeen /\ e.validating = s.validating
      /\ e.req["access"] = "idle" /\ e.req["action"] = s.req["action"]
  <2>1. e = [s EXCEPT !.req["access"] = "idle"] /\ "access" \in Kinds /\ "action" \in Kinds
    BY DEF Taken, Kinds
  <2> HIDE DEF e, s
  <2>2. TakenFrom(s, "access", e)
    BY <1>1, <2>1, TakenFacts
  <2>. QED BY <2>1, <2>2 DEF TakenFrom
<1>3. s.validating # "no" /\ (s.lockSeen => s.validating # "current") /\ s.validating \in {"no", "current", "stale"}
  BY <1>1 DEF TabInv, AccessSound, Tab
<1> DEFINE s0 == IF e.validating = "stale" \/ Incomplete(e) \/ answer = "lost" THEN e
                 ELSE restore(e, answer = "live")
<1>4. r = [s0 EXCEPT !.validating = "no"]
  BY DEF Validated
<1> HIDE DEF s, e, answer, r
<1>5. s0 \in Tab /\ SameAct(e, s0) /\ s0.req = e.req /\ (s0.auth = e.auth \/ e.validating # "stale")
  <2>1. CASE s0 = e
    BY <1>2, <2>1 DEF SameAct
  <2>2. CASE e.validating # "stale" /\ s0 = restore(e, answer = "live")
    <3>1. (answer = "live") \in BOOLEAN
      OBVIOUS
    <3> DEFINE live == answer = "live"
    <3> HIDE DEF s0, live
    <3>2. s0 = restore(e, live) /\ live \in BOOLEAN
      BY <2>2, <3>1 DEF live
    <3>. QED BY <1>2, <2>2, <3>2, RestoreFacts
  <2>. QED BY <2>1, <2>2
<1> HIDE DEF s0
<1>6. r \in Tab
  BY <1>4, <1>5 DEF Tab
<1>7. r.dialog = s0.dialog /\ r.waiters = s0.waiters /\ r.act = s0.act /\ r.ran = s0.ran /\ r.req = s0.req
  BY <1>4, <1>5 DEF Tab
<1>8. r.auth = s0.auth /\ r.validating = "no"
  BY <1>4, <1>5 DEF Tab
<1>9. SameAct(s, r)
  BY <1>2, <1>5, <1>7 DEF SameAct
<1>10. Prompted(r) /\ ActSound(r)
  BY <1>1, <1>6, <1>9, SameActSound DEF TabInv
<1>11. AccessSound(r)
  BY <1>2, <1>5, <1>7, <1>8 DEF AccessSound
<1>12. Quiet(s, r)
  BY <1>2, <1>3, <1>5, <1>8 DEF Quiet
<1>13. Good(s, r)
  BY <1>6, <1>10, <1>11, <1>12 DEF Good, TabInv
<1>. QED BY <1>1, <1>13, BecomesSound DEF s

\* The answer that a page asked for when it was opened.
LEMMA AnswerStartStep ==
    ASSUME IInv, NEW t \in Tabs, AnswerStart(t) PROVE Sound
<1> DEFINE s == tab[t]
           e == Taken(t, "start")
           live == s.req["start"] = "live"
           r == restore(e, live)
<1>1. TabInv(s) /\ (Becomes(t, e) \/ Becomes(t, r))
  BY DEF IInv, AnswerStart
<1>2. TabInv(e) /\ e \in Tab /\ SameLock(s, e)
  <2>1. e = [s EXCEPT !.req["start"] = "idle"] /\ "start" \in Kinds \ {"action", "access"}
    BY DEF Taken, Kinds
  <2> HIDE DEF e, s
  <2>2. TabInv(e) /\ SameLock(s, e)
    BY <1>1, <2>1, TakenAside
  <2>. QED BY <2>2 DEF TabInv
<1>3. live \in BOOLEAN /\ r = restore(e, live)
  OBVIOUS
<1> HIDE DEF s, e, live, r
<1>4. r \in Tab /\ SameAct(e, r) /\ LaterAccess(e, r) /\ r.req = e.req
  BY <1>2, <1>3, RestoreFacts
<1>5. TabInv(r)
  BY <1>2, <1>4, SameActSound, LaterAccessSound DEF TabInv
<1>6. Quiet(s, r)
  <2>1. r.req["access"] = s.req["access"]
    BY <1>2, <1>4 DEF SameLock, SameAccess
  <2>. QED BY <2>1 DEF Quiet
<1>7. Good(s, r) /\ Good(s, e)
  BY <1>2, <1>5, <1>6, GoodStill, GoodAfter DEF Good
<1>. QED BY <1>1, <1>7, BecomesSound DEF s

\* The action has its answer, and what becomes of it is not decided.
Loose(s) ==
    /\ s \in Tab /\ Prompted(s) /\ AccessSound(s)
    /\ "action" \notin s.waiters /\ s.req["action"] = "idle" /\ s.ran <= 1

\* It ends, or asks for access, if the server has not run it.
LEMMA LooseGood ==
    ASSUME NEW s, Loose(s), NEW r,
           \/ \E a \in {"done", "failed", "cancelled"} : r = [s EXCEPT !.act = a]
           \/ s.ran = 0 /\ r = requestToken(s, "action")
    PROVE  TabInv(r) /\ r.req["access"] = s.req["access"]
<1>1. r \in Tab /\ Prompted(r) /\ ActSound(r) /\ SameLock(s, r)
  <2>1. CASE \E a \in {"done", "failed", "cancelled"} : r = [s EXCEPT !.act = a]
    <3>1. PICK a \in {"done", "failed", "cancelled"} : r = [s EXCEPT !.act = a]
      BY <2>1
    <3>. QED BY <3>1, ActEnds DEF Loose
  <2>2. CASE s.ran = 0 /\ r = requestToken(s, "action")
    BY <2>2, RequestTokenAction DEF Loose
  <2>. QED BY <2>1, <2>2
<1>2. AccessSound(r) /\ r.req["access"] = s.req["access"]
  BY <1>1 DEF Loose, SameLock, SameAccess, AccessSound
<1>. QED BY <1>1, <1>2 DEF TabInv

\* A denied answer ends the generation first.
LEMMA LooseCleared ==
    ASSUME NEW s, Loose(s), NEW c, c = clearToken(s)
    PROVE  Loose(c) /\ c.ran = s.ran /\ c.req = s.req
<1>1. s \in Tab
  BY DEF Loose
<1>2. c \in Tab /\ SameAct(s, c) /\ LaterAccess(s, c) /\ c.req = s.req
  BY <1>1, ClearTokenFacts
<1>3. Prompted(c) /\ AccessSound(c)
  BY <1>1, <1>2, SameActSound, LaterAccessSound DEF Loose
<1>. QED BY <1>2, <1>3 DEF Loose, SameAct

\* The first answer leads to another request only if the server did not run the action.
LEMMA FirstAnswerGood ==
    ASSUME NEW s, Loose(s), NEW answer, answer \in {"denied", "cooldown"} => s.ran = 0,
           NEW r, r = FirstAnswer(s, answer)
    PROVE  TabInv(r) /\ r.req["access"] = s.req["access"]
<1> DEFINE c == clearToken(s)
<1>1. \/ r = [s EXCEPT !.act = "cancelled"] \/ r = [s EXCEPT !.act = "done"] \/ r = [s EXCEPT !.act = "failed"]
      \/ s.ran = 0 /\ (r = requestToken(c, "action") \/ r = requestToken(s, "action"))
  BY DEF FirstAnswer
<1>2. Loose(c) /\ c.ran = s.ran /\ c.req = s.req
  BY LooseCleared
<1> HIDE DEF c
<1>3. CASE r = [s EXCEPT !.act = "cancelled"] \/ r = [s EXCEPT !.act = "done"] \/ r = [s EXCEPT !.act = "failed"]
  <2>1. \E a \in {"done", "failed", "cancelled"} : r = [s EXCEPT !.act = a]
    BY <1>3
  <2>. QED BY <2>1, LooseGood
<1>4. CASE s.ran = 0 /\ r = requestToken(s, "action")
  BY <1>4, LooseGood
<1>5. CASE s.ran = 0 /\ r = requestToken(c, "action")
  BY <1>2, <1>5, LooseGood
<1>. QED BY <1>1, <1>3, <1>4, <1>5

\* The second answer leads to none.
LEMMA RetryAnswerGood ==
    ASSUME NEW s, Loose(s), NEW answer, NEW r, r = RetryAnswer(s, answer)
    PROVE  TabInv(r) /\ r.req["access"] = s.req["access"]
<1> DEFINE c == clearToken(s)
<1>1. \/ \E a \in {"done", "failed", "cancelled"} : r = [s EXCEPT !.act = a]
      \/ \E a \in {"done", "failed", "cancelled"} : r = [c EXCEPT !.act = a]
  BY DEF RetryAnswer
<1>2. Loose(c) /\ c.req = s.req
  BY LooseCleared
<1> HIDE DEF c
<1>. QED BY <1>1, <1>2, LooseGood

\* The action has its answer.
LEMMA AnswerActionStep ==
    ASSUME IInv, NEW t \in Tabs, AnswerAction(t) PROVE Sound
<1> DEFINE s == tab[t]
           e == Taken(t, "action")
           answer == s.req["action"]
           f == FirstAnswer(e, answer)
           g == RetryAnswer(e, answer)
<1>1. TabInv(s) /\ s \in Tab /\ answer \notin {"idle", "sent", "stray"}
      /\ (Becomes(t, f) \/ Becomes(t, g) \/ (Becomes(t, e) /\ e.act \notin {"first", "retry"}))
  BY DEF IInv, AnswerAction, Answers, TabInv
<1>2. /\ e \in Tab /\ e.dialog = s.dialog /\ e.waiters = s.waiters /\ e.act = s.act /\ e.ran = s.ran
      /\ e.auth = s.auth /\ e.lockSeen = s.lockSeen /\ e.validating = s.validating
      /\ e.req["action"] = "idle" /\ e.req["access"] = s.req["access"]
  <2>1. e = [s EXCEPT !.req["action"] = "idle"] /\ "action" \in Kinds /\ "access" \in Kinds
    BY DEF Taken, Kinds
  <2> HIDE DEF e, s
  <2>2. TakenFrom(s, "action", e)
    BY <1>1, <2>1, TakenFacts
  <2>. QED BY <2>1, <2>2 DEF TakenFrom
<1>3. /\ s.act \in {"first", "retry"} /\ "action" \notin s.waiters /\ s.ran <= 1
      /\ answer \in {"denied", "cooldown"} => s.ran = 0
  BY <1>1 DEF TabInv, ActSound
<1> HIDE DEF s, e, answer, f, g
<1>4. Loose(e)
  BY <1>1, <1>2, <1>3 DEF Loose, TabInv, Prompted, AccessSound
<1>5. TabInv(f) /\ f.req["access"] = s.req["access"]
  BY <1>2, <1>3, <1>4, FirstAnswerGood DEF f
<1>6. TabInv(g) /\ g.req["access"] = s.req["access"]
  BY <1>2, <1>3, <1>4, RetryAnswerGood DEF g
<1>7. Good(s, f) /\ Good(s, g)
  BY <1>5, <1>6 DEF Good, Quiet
<1>8. Becomes(t, f) \/ Becomes(t, g)
  BY <1>1, <1>2, <1>3
<1>. QED BY <1>7, <1>8, BecomesSound DEF s

\* The wallet ticker's read is answered.
LEMMA AnswerReadStep ==
    ASSUME IInv, NEW t \in Tabs, AnswerRead(t) PROVE Sound
<1> DEFINE s == tab[t]
           e == Taken(t, "read")
           c == clearToken(e)
           r == ReadAnswer(e, s.req["read"])
<1>1. TabInv(s) /\ Becomes(t, r)
  BY DEF IInv, AnswerRead
<1>2. TabInv(e) /\ e \in Tab /\ SameLock(s, e)
  <2>1. e = [s EXCEPT !.req["read"] = "idle"] /\ "read" \in Kinds \ {"action", "access"}
    BY DEF Taken, Kinds
  <2> HIDE DEF e, s
  <2>2. TabInv(e) /\ SameLock(s, e)
    BY <1>1, <2>1, TakenAside
  <2>. QED BY <2>2 DEF TabInv
<1>3. \/ \E v \in {"idle", "applied"} : r = [e EXCEPT !.read = v]
      \/ r = [c EXCEPT !.read = "idle"]
  BY DEF ReadAnswer
<1>4. c \in Tab /\ SameAct(e, c) /\ LaterAccess(e, c)
  <2> HIDE DEF e
  <2>. QED BY <1>2, ClearTokenFacts
<1>5. PICK k \in {e, c}, v \in {"idle", "applied"} : r = [k EXCEPT !.read = v]
  BY <1>3
<1>6. k \in Tab /\ SameAct(e, k) /\ LaterAccess(e, k)
  <2>1. SameAct(e, e) /\ LaterAccess(e, e)
    BY DEF SameAct, LaterAccess
  <2>. QED BY <1>2, <1>4, <2>1
<1> HIDE DEF s, e, c, r
<1>7. r \in Tab
  BY <1>5, <1>6 DEF Tab
<1>8. r.dialog = k.dialog /\ r.waiters = k.waiters /\ r.act = k.act /\ r.ran = k.ran /\ r.req = k.req
  BY <1>5, <1>6 DEF Tab
<1>9. r.lockSeen = k.lockSeen /\ r.validating = k.validating
  BY <1>5, <1>6 DEF Tab
<1>10. SameAct(e, r) /\ LaterAccess(e, r)
  BY <1>6, <1>8, <1>9 DEF SameAct, LaterAccess
<1>11. Good(s, r)
  BY <1>2, <1>7, <1>10, GoodAside, GoodAfter
<1>. QED BY <1>1, <1>11, BecomesSound DEF s

\* A message of another tab: after a lock nothing that was asked before it counts.
LEMMA ReceiveStep ==
    ASSUME IInv, NEW t \in Tabs, receive(t) PROVE Sound
<1> DEFINE s == tab[t]
           type == Head(channel[t])
           r == Received(s, type)
           p == [s EXCEPT !.remotePending = FALSE]
           k == [s EXCEPT !.remotePending = type = "lock"]
           e == reset(k)
           shown == type # "locked"
           failure == IF type = "lock" THEN e.lockFailure ELSE type = "lock-failed"
           l == [e EXCEPT !.lockShown = shown, !.lockSeen = TRUE, !.lockFailure = failure]
<1>1. TabInv(s) /\ s \in Tab /\ Becomes(t, r)
  BY DEF IInv, receive
<1>2. r = s \/ r = revalidate(p) \/ r = l
  BY DEF Received
<1> DEFINE pending == type = "lock"
<1>3. pending \in BOOLEAN /\ shown \in BOOLEAN /\ k = [s EXCEPT !.remotePending = pending]
  OBVIOUS
<1> HIDE DEF s, type, r, p, k, e, l, shown, failure, pending
<1>4. ASSUME NEW b \in BOOLEAN, NEW x, x = [s EXCEPT !.remotePending = b]
      PROVE  TabInv(x) /\ x.auth = s.auth /\ x.req = s.req /\ x.lockSeen = s.lockSeen
  <2>1. x \in Tab
    BY <1>1, <1>4 DEF Tab
  <2>2. x.dialog = s.dialog /\ x.waiters = s.waiters /\ x.act = s.act /\ x.ran = s.ran /\ x.req = s.req
    BY <1>1, <1>4 DEF Tab
  <2>3. x.auth = s.auth /\ x.lockSeen = s.lockSeen /\ x.validating = s.validating
    BY <1>1, <1>4 DEF Tab
  <2>4. SameAct(s, x) /\ LaterAccess(s, x)
    BY <2>2, <2>3 DEF SameAct, LaterAccess
  <2>5. TabInv(x)
    BY <1>1, <2>1, <2>4, GoodAside DEF Good
  <2>. QED BY <2>2, <2>3, <2>5
<1>5. CASE r = revalidate(p)
  <2>1. TabInv(p) /\ p.auth = s.auth
    BY <1>4 DEF p
  <2>2. Good(p, r) /\ (r.auth = TRUE => p.auth = TRUE)
    BY <1>5, <2>1, RevalidateGood
  <2>3. s.auth \in BOOLEAN /\ r.auth \in BOOLEAN
    BY <1>1, <2>2 DEF Good, TabInv, Tab
  <2>4. Quiet(s, r)
    BY <2>1, <2>2, <2>3 DEF Quiet
  <2>5. Good(s, r)
    BY <2>2, <2>4 DEF Good
  <2>. QED BY <1>1, <2>5, BecomesSound DEF s
<1>6. CASE r = l
  <2>1. TabInv(k)
    BY <1>3, <1>4
  <2>2. TabInv(e) /\ e \in Tab /\ e.auth = FALSE /\ e.validating # "current"
    BY <2>1, ResetGood DEF e, Good, TabInv
  <2>3. failure \in BOOLEAN
    BY <2>2 DEF failure, Tab
  <2>4. l \in Tab
    BY <1>3, <2>2, <2>3 DEF l, Tab
  <2>5. l.dialog = e.dialog /\ l.waiters = e.waiters /\ l.act = e.act /\ l.ran = e.ran /\ l.req = e.req
    BY <2>2 DEF l, Tab
  <2>6. l.auth = FALSE /\ l.validating = e.validating
    BY <2>2 DEF l, Tab
  <2>7. Good(s, l)
    BY <2>2, <2>4, <2>5, <2>6, GoodLocked DEF SameAct
  <2>. QED BY <1>1, <1>6, <2>7, BecomesSound DEF s
<1>7. CASE r = s
  BY <1>1, <1>7, GoodStill, BecomesSound DEF s
<1>. QED BY <1>2, <1>5, <1>6, <1>7

-----------------------------------------------------------------------------

\* The tabs are left alone.
LEMMA StillStep == ASSUME IInv, UNCHANGED tab PROVE Sound
  BY DEF IInv, Sound, Quiet

\* Every step of the system keeps the invariant and gains no access across a lock.
LEMMA Steps == IInv /\ [Next]_vars => Sound
<1> SUFFICES ASSUME IInv, [Next]_vars PROVE Sound
  OBVIOUS
<1>1. CASE SessionEnds \/ UNCHANGED vars
  BY <1>1, StillStep DEF SessionEnds, vars
<1>2. ASSUME NEW t \in Tabs, User(t) PROVE Sound
  BY <1>2, PressActionStep, CancelActionStep, EnterSteps, LockSteps, LossSteps, CloseStep DEF User
<1>3. ASSUME NEW t \in Tabs, System(t) PROVE Sound
  <2>1. CASE \E kind \in Kinds : Serve(t, kind) \/ Lose(t, kind)
    BY <2>1, ServeSteps
  <2>2. CASE AnswerLogout(t) \/ AnswerSignOut(t) \/ AnswerVerify(t) \/ AnswerAccess(t)
    BY <2>2, AnswerLogoutStep, AnswerSignOutStep, AnswerVerifyStep, AnswerAccessStep
  <2>3. CASE AnswerStart(t) \/ AnswerAction(t) \/ AnswerRead(t) \/ receive(t) \/ ExpiryFires(t)
    BY <2>3, AnswerStartStep, AnswerActionStep, AnswerReadStep, ReceiveStep, LossSteps
  <2>. QED BY <1>3, <2>1, <2>2, <2>3 DEF System
<1>. QED BY <1>1, <1>2, <1>3 DEF Next

\* The tabs that have been opened are sound.
LEMMA Start == Init => IInv
<1> SUFFICES ASSUME Init PROVE IInv
  OBVIOUS
<1> DEFINE live == session = "live"
           s == restore(NewTab, live)
           r == [s EXCEPT !.req = Idle]
<1>1. tab = [t \in Tabs |-> r]
  BY DEF Init, Loaded
<1>2. Good(NewTab, NewTab)
  BY NewTabGood
<1>3. NewTab.act = "idle" /\ NewTab.lockSeen = FALSE /\ NewTab.ran = 0 /\ NewTab.waiters = {}
  BY DEF NewTab
<1>4. s \in Tab /\ SameAct(NewTab, s) /\ LaterAccess(NewTab, s)
  <2> HIDE DEF live
  <2>1. live \in BOOLEAN
    BY DEF live
  <2>. QED BY <1>2, <2>1, RestoreFacts DEF Good, TabInv
<1>5. Idle \in Requests /\ Idle["action"] = "idle" /\ Idle["access"] = "idle"
  BY DEF Idle, Requests, Replies, Kinds
<1> HIDE DEF s
<1>6. r \in Tab
  BY <1>4, <1>5 DEF Tab
<1>7. r.dialog = s.dialog /\ r.waiters = s.waiters /\ r.act = s.act /\ r.ran = s.ran /\ r.req = Idle
  BY <1>4 DEF Tab
<1>8. r.lockSeen = s.lockSeen
  BY <1>4 DEF Tab
<1> HIDE DEF r
<1>9. s.act = "idle" /\ s.ran = 0 /\ s.waiters = {} /\ s.lockSeen = FALSE /\ Prompted(s)
  BY <1>2, <1>3, <1>4, SameActSound DEF SameAct, LaterAccess, Good, TabInv
<1>10. Prompted(r) /\ ActSound(r) /\ AccessSound(r)
  BY <1>5, <1>7, <1>8, <1>9 DEF Prompted, ActSound, AccessSound, Gates
<1>11. TabInv(r)
  BY <1>6, <1>10 DEF TabInv
<1>. QED BY <1>1, <1>6, <1>11 DEF IInv

\* In every reachable state every tab is sound: the inductive invariant of management.
THEOREM ManagementInvariance == Spec => []IInv
<1>1. IInv /\ [Next]_vars => IInv'
  BY Steps DEF Sound
<1>. QED BY Start, <1>1, PTL DEF Spec

\* requestAdminJson, requestToken: a press is run by the server at most once, whatever is
\* lost, denied and sent again, and one that was refused has not been run.
THEOREM ActionRunsOnce == Spec => []RunsOnce
<1>1. IInv => RunsOnce
  BY DEF IInv, TabInv, ActSound, RunsOnce, Gates
<1>. QED BY <1>1, ManagementInvariance, PTL

\* requestToken, openPrompt: the prompt is there exactly while somebody waits.
THEOREM PromptsServe == Spec => []PromptServes
<1>1. IInv => PromptServes
  BY DEF IInv, TabInv, Prompted, PromptServes
<1>. QED BY <1>1, ManagementInvariance, PTL

\* revalidate, lock, receive: an answer of /api/access that was asked for before a lock
\* gives no access after it, for any number of tabs that lock and are told of locks.
THEOREM LocksEndWhatWasAsked == Spec => NoAccessAcrossLock
<1>1. IInv /\ [Next]_vars =>
        [\A t \in Tabs : ~tab[t].auth /\ tab'[t].auth /\ tab[t].req["access"] = "live"
              /\ tab'[t].req["access"] = "idle" => ~tab[t].lockSeen]_vars
  BY Steps DEF Sound, Quiet
<1>. QED BY <1>1, ManagementInvariance, PTL DEF Spec, NoAccessAcrossLock


-----------------------------------------------------------------------------
(* The layers of the distribution. *)

\* The fields in which the layers are kept.
Layers == {"peers", "cat", "ids", "pin", "pin2", "second", "popup", "net", "focused",
           "summary", "sel", "panel", "others",
           "lens", "key", "insight", "rect", "peer", "group", "hovered", "table", "mapf", "mapGroup"}

\* What LayersNest says, and what it rests on: the summary is explored in focused mode,
\* and a panel or the list of Others shows something explored.
Nested(s) ==
    /\ Layers \subseteq DOMAIN s
    /\ s.peers \in SUBSET Peers
    /\ s.cat \in Cats \cup {None}
    /\ s.ids \in (SUBSET Peers) \cup {None}
    /\ s.pin \in Pins \cup {None}
    /\ s.second \in Seconds \cup {None}
    /\ s.pin2 => s.pin # None
    /\ s.pin2 <=> s.second # None
    /\ s.ids # None <=> s.cat # None
    /\ s.popup \/ s.net # None \/ s.summary => s.focused
    /\ s.panel # None \/ s.others => s.focused \/ s.sel # None

\* A handler changes nothing a layer hangs on, but may close the popup.
Beneath(s, r) ==
    /\ Layers \subseteq DOMAIN r
    /\ r.peers = s.peers /\ r.cat = s.cat /\ r.ids = s.ids /\ r.pin = s.pin
    /\ r.pin2 = s.pin2 /\ r.second = s.second /\ r.net = s.net /\ r.focused = s.focused
    /\ r.summary = s.summary /\ r.sel = s.sel /\ r.panel = s.panel /\ r.others = s.others
    /\ r.popup => s.popup

\* What changes nothing that a layer hangs on keeps a nested dashboard nested.
LEMMA BeneathNests ==
    ASSUME NEW s, Nested(s), NEW r, Beneath(s, r)
    PROVE  Nested(r)
BY DEF Nested, Beneath

\* Two such changes in turn are one.
LEMMA BeneathTwice ==
    ASSUME NEW s, NEW m, NEW r, Beneath(s, m), Beneath(m, r)
    PROVE  Beneath(s, r)
BY DEF Beneath

\* To change nothing is one.
LEMMA BeneathItself ==
    ASSUME NEW s, Layers \subseteq DOMAIN s
    PROVE  Beneath(s, s)
BY DEF Beneath

\* What is shown, an insight, the table's selection and the popup of a peer carry no layer.
LEMMA PiecesBeneath ==
    ASSUME NEW s, Layers \subseteq DOMAIN s
    PROVE  /\ \A ids : Beneath(s, Show(s, ids))
           /\ Beneath(s, NoInsight(s))
           /\ Beneath(s, clearPeerSelection(s))
           /\ Beneath(s, dismissPeerDetailView(s))
           /\ Beneath(s, closePeerPopup(s)) /\ ~closePeerPopup(s).popup
           /\ Beneath(s, ClosedFirst(s)) /\ ~ClosedFirst(s).popup
<1>1. ASSUME NEW m, Layers \subseteq DOMAIN m, NEW ids PROVE Beneath(m, Show(m, ids)) /\ Show(m, ids).popup = m.popup
  BY <1>1 DEF Layers, Beneath, Show
<1>2. Beneath(s, NoInsight(s))
  BY DEF Layers, Beneath, NoInsight
<1>3. Beneath(s, clearPeerSelection(s))
  BY DEF Layers, Beneath, clearPeerSelection
<1>4. Beneath(s, dismissPeerDetailView(s))
  BY DEF Layers, Beneath, dismissPeerDetailView
<1>5. Beneath(s, closePeerPopup(s)) /\ ~closePeerPopup(s).popup
  <2> DEFINE d == clearPeerSelection(dismissPeerDetailView(s))
  <2>1. Beneath(s, d) /\ ~d.popup
    BY DEF Layers, Beneath, clearPeerSelection, dismissPeerDetailView
  <2>2. closePeerPopup(s) = d \/ \E ids : closePeerPopup(s) = Show(d, ids)
    <3> HIDE DEF d
    <3>. QED BY DEF closePeerPopup, d
  <2> HIDE DEF d
  <2>3. Layers \subseteq DOMAIN d
    BY <2>1 DEF Beneath
  <2>. QED BY <1>1, <2>1, <2>2, <2>3, BeneathTwice
<1>6. Beneath(s, ClosedFirst(s)) /\ ~ClosedFirst(s).popup
  BY <1>5, BeneathItself DEF ClosedFirst
<1>. QED BY <1>1, <1>2, <1>3, <1>4, <1>5, <1>6

\* The peers of an entity, of a link and of an insight are peers.
LEMMA PeersOf ==
    ASSUME NEW s, s.peers \in SUBSET Peers
    PROVE  /\ \A e : findActiveSegmentOrGroup(s, e) \in SUBSET Peers
           /\ \A e : getPeerIdsForAnyAs(s, e) \in SUBSET Peers
           /\ \A net : peersForNetwork(s.peers, net) \in SUBSET Peers
           /\ \A kind, e : RankedPeers(s, kind, e) \in SUBSET Peers
           /\ ScopePeers(s) \in SUBSET Peers
<1>1. \A f, e : EntityPeers(s.peers, f, e) \in SUBSET Peers
  BY DEF EntityPeers, With
<1>2. \A net : peersForNetwork(s.peers, net) \in SUBSET Peers
  BY DEF peersForNetwork, With
<1>3. \A e : findActiveSegmentOrGroup(s, e) \in SUBSET Peers /\ getPeerIdsForAnyAs(s, e) \in SUBSET Peers
  BY <1>1 DEF findActiveSegmentOrGroup, getPeerIdsForAnyAs
<1>4. \A kind, e : RankedPeers(s, kind, e) \in SUBSET Peers
  BY <1>3 DEF RankedPeers
<1>5. ScopePeers(s) \in SUBSET Peers
  BY <1>2, <1>3 DEF ScopePeers
<1>. QED BY <1>2, <1>3, <1>4, <1>5

\* A filter lists peers of its scope.
LEMMA FilterLists ==
    ASSUME NEW s, s.cat \in Cats, NEW scope
    PROVE  Filtered(s, scope) \in SUBSET scope
<1> DEFINE of(e) == {p \in scope : IF e = "Others" THEN p \in EntityPeers(s.peers, Provider, e)
                                                    ELSE Provider[p] = e}
<1>1. CASE s.cat = None
  BY <1>1 DEF Filtered
<1>2. CASE s.cat # None
  <2>1. of(s.key) \in SUBSET scope
    OBVIOUS
  <2>2. \/ Filtered(s, scope) = {p \in scope : s.key \in {Network[p], Direction[p]}}
        \/ Filtered(s, scope) = of(s.key)
        \/ Filtered(s, scope) = {p \in of(s.key) : Direction[p] = "IN"}
        \/ Filtered(s, scope) = {p \in of(s.key) : Direction[p] = "OUT"}
        \/ Filtered(s, scope) = scope \cap Measured
        \/ Filtered(s, scope) = {p \in scope : Provider[p] # None}
    <3> HIDE DEF of
    <3>. QED BY <1>2 DEF Filtered, Cats, of
  <2> HIDE DEF of
  <2>. QED BY <2>1, <2>2
<1>. QED BY <1>1, <1>2


\* null is no filter, no list, no set of peers and no row.
LEMMA NoneIsNothing ==
    /\ None \notin Cats /\ None # "Others" /\ None \notin SUBSET Peers
    /\ None \notin Seconds /\ None \notin Pins
BY DistributionAssumption DEF DistributionAssumption

\* Taking lists and filters away, and putting them there.
LEMMA ListsNest ==
    ASSUME NEW s, Nested(s)
    PROVE  /\ Nested(hideSubSub(s)) /\ Nested(hideSub(s)) /\ Nested(NoFilter(s))
           /\ Nested([s EXCEPT !.focused = TRUE])
           /\ Nested([s EXCEPT !.others = FALSE])
           /\ Nested([s EXCEPT !.net = None])
           /\ Nested([s EXCEPT !.summary = FALSE])
           /\ Nested(closePanel(s))
           /\ \A key : \A cat \in Cats, ids \in SUBSET Peers : Nested(Filter(s, cat, key, ids))
           /\ \A row \in Labels, list \in {"peers", "providers", "ranks"}, ids \in SUBSET Peers : Nested(pinSub(s, row, list, ids))
           /\ s.pin # None => \A e \in Keys(Provider), ids \in SUBSET Peers : Nested(pinSecondary(s, e, ids))
<1>1. Nested(hideSubSub(s)) /\ Nested(hideSub(s))
  BY DEF Nested, Layers, hideSubSub, hideSub
<1>2. Nested(NoFilter(s))
  BY DEF Nested, Layers, NoFilter
<1>3. Nested([s EXCEPT !.focused = TRUE])
  BY DEF Nested, Layers
<1>4. Nested([s EXCEPT !.others = FALSE])
  BY DEF Nested, Layers
<1>5. Nested([s EXCEPT !.net = None]) /\ Nested([s EXCEPT !.summary = FALSE])
  BY DEF Nested, Layers
<1>6. Nested(closePanel(s))
  BY DEF Nested, Layers, closePanel
<1>7. ASSUME NEW cat \in Cats, NEW key, NEW ids \in SUBSET Peers PROVE Nested(Filter(s, cat, key, ids))
  BY <1>7, NoneIsNothing DEF Nested, Layers, Filter, Show
<1>8. ASSUME NEW row \in Labels, NEW list \in {"peers", "providers", "ranks"}, NEW ids \in SUBSET Peers
      PROVE Nested(pinSub(s, row, list, ids))
  <2> DEFINE pin == [row |-> row, live |-> TRUE, list |-> list, ids |-> ids]
  <2>1. pin \in Pins
    BY DEF Pins
  <2>2. pinSub(s, row, list, ids) = [hideSubSub(s) EXCEPT !.pin = pin]
    BY DEF pinSub
  <2> HIDE DEF pin
  <2>. QED BY <2>1, <2>2 DEF Nested, Layers, hideSubSub
<1>9. ASSUME s.pin # None, NEW e \in Keys(Provider), NEW ids \in SUBSET Peers PROVE Nested(pinSecondary(s, e, ids))
  <2> DEFINE second == [prov |-> e, ids |-> ids]
  <2>1. second \in Seconds /\ second # None
    BY NoneIsNothing DEF Seconds
  <2>2. pinSecondary(s, e, ids) = [s EXCEPT !.pin2 = TRUE, !.second = second]
    BY DEF pinSecondary
  <2> HIDE DEF second
  <2>. QED BY <1>9, <2>1, <2>2 DEF Nested, Layers
<1>. QED BY <1>1, <1>2, <1>3, <1>4, <1>5, <1>6, <1>7, <1>8, <1>9

\* A panel is opened where something is explored.
LEMMA PanelsNest ==
    ASSUME NEW s, Nested(s)
    PROVE  /\ s.focused \/ s.sel # None => \A e :
                /\ Nested(renderPanel(s, e)) /\ Nested(openPanel(s, e))
                /\ openPanel(s, e).focused = s.focused /\ openPanel(s, e).sel = s.sel
           /\ s.focused => /\ Nested(renderSummary(s)) /\ Nested(openLensSummaryPanel(s))
                           /\ openLensSummaryPanel(s).focused
<1>1. ASSUME NEW m, Nested(m), m.focused \/ m.sel # None, NEW e
      PROVE  Nested(renderPanel(m, e)) /\ renderPanel(m, e).focused = m.focused /\ renderPanel(m, e).sel = m.sel
  <2> DEFINE r(x) == [m EXCEPT !.panel = x]
  <2>1. \A x : Nested(r(x)) /\ r(x).focused = m.focused /\ r(x).sel = m.sel
    BY <1>1 DEF Nested, Layers
  <2>2. renderPanel(m, e) = m \/ \E x : renderPanel(m, e) = r(x)
    BY DEF renderPanel
  <2>. QED BY <1>1, <2>1, <2>2
<1>2. ASSUME NEW m, Nested(m), m.focused PROVE Nested(renderSummary(m)) /\ renderSummary(m).focused
  <2> DEFINE r(x) == [m EXCEPT !.panel = x]
  <2>1. \A x : Nested(r(x)) /\ r(x).focused
    BY <1>2 DEF Nested, Layers
  <2>2. \E x : renderSummary(m) = r(x)
    BY DEF renderSummary
  <2>. QED BY <2>1, <2>2
<1>3. Beneath(s, ClosedFirst(s))
  BY PiecesBeneath DEF Nested
<1>4. Nested(ClosedFirst(s)) /\ ClosedFirst(s).focused = s.focused /\ ClosedFirst(s).sel = s.sel
  BY <1>3, BeneathNests DEF Beneath
<1>. QED BY <1>1, <1>2, <1>4 DEF openPanel, openLensSummaryPanel

\* What lies beneath the layers.
LEMMA BeneathKeeps ==
    ASSUME NEW s, Nested(s)
    PROVE  /\ \A ids : Nested(Show(s, ids))
           /\ Nested(NoInsight(s)) /\ Nested(clearPeerSelection(s))
           /\ Nested(dismissPeerDetailView(s))
           /\ Nested(closePeerPopup(s)) /\ Nested(ClosedFirst(s))
           /\ Beneath(s, closePeerPopup(s)) /\ Beneath(s, ClosedFirst(s))
           /\ Layers \subseteq DOMAIN s
BY PiecesBeneath, BeneathNests DEF Nested

\* Leaving the summary, an entity, a network.
LEMMA DeselectNests ==
    ASSUME NEW s, Nested(s)
    PROVE  /\ Nested(deselectSummary(s)) /\ deselectSummary(s).focused = s.focused
           /\ Nested(deselect(s)) /\ deselect(s).focused = s.focused
           /\ ~s.focused => deselect(s).panel = None /\ ~deselect(s).others /\ deselect(s).sel = None
<1>1. ASSUME NEW m, Nested(m) PROVE Nested(deselectSummary(m)) /\ deselectSummary(m).focused = m.focused
  <2> DEFINE l == [m EXCEPT !.summary = FALSE]
             f == NoFilter(l)
             h == hideSub(f)
             c == closePanel(NoInsight(h))
  <2>1. deselectSummary(m) = IF ~m.summary THEN m ELSE Show(c, All)
    BY DEF deselectSummary
  <2>2. Nested(h)
    BY <1>1, ListsNest
  <2>3. h.focused = m.focused
    BY <1>1 DEF Nested, Layers, hideSub, hideSubSub, NoFilter
  <2> HIDE DEF h
  <2>4. Nested(c) /\ c.focused = m.focused
    BY <2>2, <2>3, BeneathKeeps, ListsNest DEF Nested, Layers, closePanel, NoInsight
  <2> HIDE DEF c
  <2>5. Nested(Show(c, All)) /\ Show(c, All).focused = m.focused
    BY <2>4, BeneathKeeps DEF Nested, Layers, Show
  <2>. QED BY <1>1, <2>1, <2>5
<1>2. Nested(deselect(s)) /\ deselect(s).focused = s.focused
      /\ (~s.focused => deselect(s).panel = None /\ ~deselect(s).others /\ deselect(s).sel = None)
  <2> DEFINE n == [s EXCEPT !.net = None]
             d == dismissPeerDetailView(n)
             h == hideSub(NoFilter(d))
             c == [closePanel(h) EXCEPT !.sel = None, !.others = FALSE, !.rect = FALSE]
  <2>1. deselect(s) = IF s.summary THEN deselectSummary(n) ELSE Show(c, All)
    BY DEF deselect
  <2>2. Nested(n) /\ n.focused = s.focused
    BY ListsNest DEF Nested, Layers
  <2> HIDE DEF n
  <2>3. Nested(deselectSummary(n)) /\ deselectSummary(n).focused = s.focused
    BY <2>2, <1>1
  <2>4. Nested(d) /\ d.focused = s.focused
    BY <2>2, BeneathKeeps DEF Nested, Layers, dismissPeerDetailView
  <2> HIDE DEF d
  <2>5. Nested(h) /\ h.focused = s.focused
    BY <2>4, ListsNest DEF Nested, Layers, hideSub, hideSubSub, NoFilter
  <2> HIDE DEF h
  <2>6. Nested(c) /\ c.focused = s.focused /\ c.panel = None /\ ~c.others /\ c.sel = None
    BY <2>5 DEF Nested, Layers, closePanel
  <2> HIDE DEF c
  <2>7. Nested(Show(c, All)) /\ Beneath(c, Show(c, All))
    BY <2>6, BeneathKeeps, PiecesBeneath
  <2>8. s.summary => s.focused
    BY DEF Nested
  <2>. QED BY <2>1, <2>3, <2>6, <2>7, <2>8 DEF Beneath
<1>. QED BY <1>1, <1>2

\* The summary is opened in focused mode.
LEMMA SummaryNests ==
    ASSUME NEW s, Nested(s), s.focused
    PROVE  Nested(selectSummary(s)) /\ selectSummary(s).focused
<1> DEFINE d == IF s.sel # None THEN deselect(s) ELSE s
           l == [d EXCEPT !.summary = TRUE]
<1>1. selectSummary(s) = openLensSummaryPanel(l)
  BY DEF selectSummary
<1>2. Nested(d) /\ d.focused
  BY DeselectNests
<1> HIDE DEF d
<1>3. Nested(l) /\ l.focused
  BY <1>2 DEF Nested, Layers
<1>. QED BY <1>1, <1>3, PanelsNest

\* Navigation between them.
LEMMA NavigationNests ==
    ASSUME NEW s, Nested(s)
    PROVE  /\ \A e : e # None => Nested(navigateToProvider(s, e))
           /\ s.focused => Nested(navigateBack(s))
           /\ Nested(exitFocusedMode(s)) /\ Nested(enterFocusedMode(s))
           /\ (s.net # None => Nested(LeaveNetwork(s)))
<1>1. ASSUME NEW e, e # None PROVE Nested(navigateToProvider(s, e))
  <2> DEFINE away == [s EXCEPT !.summary = FALSE, !.sel = e]
             h == hideSub(NoFilter(away))
             o == openPanel(h, e)
  <2>1. \E ids : navigateToProvider(s, e) = clearPeerSelection(Show(o, ids))
    BY DEF navigateToProvider
  <2>2. Nested(away) /\ away.sel = e
    BY <1>1 DEF Nested, Layers
  <2> HIDE DEF away
  <2>3. Nested(h) /\ h.sel = e
    BY <2>2, ListsNest DEF Nested, Layers, hideSub, hideSubSub, NoFilter
  <2> HIDE DEF h
  <2>4. Nested(o)
    BY <1>1, <2>3, PanelsNest
  <2> HIDE DEF o
  <2>. QED BY <2>1, <2>4, BeneathKeeps
<1>2. ASSUME s.focused PROVE Nested(navigateBack(s))
  <2> DEFINE gone == [s EXCEPT !.net = None, !.sel = None, !.others = FALSE]
             d == dismissPeerDetailView(gone)
             n == NoInsight(NoFilter(d))
             h == hideSub(n)
             l == [h EXCEPT !.summary = TRUE]
             o == openLensSummaryPanel(l)
  <2>1. navigateBack(s) = clearPeerSelection(Show(o, All))
    BY <1>2 DEF navigateBack
  <2>2. Nested(gone) /\ gone.focused
    BY <1>2 DEF Nested, Layers
  <2> HIDE DEF gone
  <2>3. Nested(d) /\ d.focused
    BY <2>2, BeneathKeeps DEF Nested, Layers, dismissPeerDetailView
  <2> HIDE DEF d
  <2>4. Nested(n) /\ n.focused
    BY <2>3, BeneathKeeps, ListsNest DEF Nested, Layers, NoInsight, NoFilter
  <2> HIDE DEF n
  <2>5. Nested(l) /\ l.focused
    BY <2>4, ListsNest DEF Nested, Layers, hideSub, hideSubSub
  <2> HIDE DEF l
  <2>6. Nested(o)
    BY <2>5, PanelsNest
  <2> HIDE DEF o
  <2>. QED BY <2>1, <2>6, BeneathKeeps
<1>3. Nested(exitFocusedMode(s))
  <2> DEFINE d == dismissPeerDetailView(s)
             away == [d EXCEPT !.focused = FALSE, !.net = None, !.others = FALSE, !.rect = FALSE]
             gone == IF s.summary THEN deselectSummary(away)
                     ELSE IF s.sel # None THEN deselect(away) ELSE closePanel(away)
  <2>1. exitFocusedMode(s) = IF ~s.focused THEN s ELSE clearPeerSelection(Show(gone, All))
    BY DEF exitFocusedMode
  <2>2. Nested(d) /\ ~d.popup /\ d.summary = s.summary /\ d.sel = s.sel
    BY BeneathKeeps DEF Nested, Layers, dismissPeerDetailView
  <2> HIDE DEF d
  <2>3. Nested(gone)
    <3>1. CASE s.summary
      <4> DEFINE n == NoFilter([away EXCEPT !.summary = FALSE])
                 h == hideSub(n)
                 c == closePanel(NoInsight(h))
      <4>1. gone = Show(c, All)
        BY <2>2, <3>1 DEF deselectSummary, Nested, Layers
      <4>2. Nested(c)
        BY <2>2 DEF Nested, Layers, closePanel, NoInsight, hideSub, hideSubSub, NoFilter
      <4> HIDE DEF c
      <4>. QED BY <4>1, <4>2, BeneathKeeps
    <3>2. CASE ~s.summary /\ s.sel # None
      <4>1. Nested(away)
        BY <2>2, <3>2 DEF Nested, Layers
      <4> HIDE DEF away
      <4>. QED BY <3>2, <4>1, DeselectNests
    <3>3. CASE ~s.summary /\ s.sel = None
      BY <2>2, <3>3 DEF Nested, Layers, closePanel
    <3>. QED BY <3>1, <3>2, <3>3
  <2> HIDE DEF gone
  <2>. QED BY <2>1, <2>3, BeneathKeeps
<1>4. Nested(enterFocusedMode(s))
  <2> DEFINE f == [s EXCEPT !.focused = TRUE]
  <2>1. Nested(f) /\ f.focused
    BY ListsNest DEF Nested, Layers
  <2> HIDE DEF f
  <2>2. Nested(selectSummary(f))
    BY <2>1, SummaryNests
  <2>. QED BY <2>2 DEF enterFocusedMode, f
<1>5. ASSUME s.net # None PROVE Nested(LeaveNetwork(s))
  <2> DEFINE t == IF s.pin # None \/ s.pin2 THEN NoFilter(hideSub(s)) ELSE s
             l == [t EXCEPT !.net = None, !.sel = None, !.summary = TRUE]
             o == openLensSummaryPanel(l)
  <2>1. LeaveNetwork(s) = Show(o, All)
    BY DEF LeaveNetwork
  <2>2. Nested(t) /\ t.focused
    BY <1>5, ListsNest DEF Nested, Layers, hideSub, hideSubSub, NoFilter
  <2> HIDE DEF t
  <2>3. Nested(l) /\ l.focused
    BY <2>2 DEF Nested, Layers
  <2> HIDE DEF l
  <2>4. Nested(o)
    BY <2>3, PanelsNest
  <2> HIDE DEF o
  <2>. QED BY <2>1, <2>4, BeneathKeeps
<1>. QED BY <1>1, <1>2, <1>3, <1>4, <1>5

\* Filters that stay, and what takes them away.
LEMMA FiltersNest ==
    ASSUME NEW s, Nested(s)
    PROVE  /\ Nested(summaryClearSummarySubFilter(s)) /\ Nested(summaryClearSubFilter(s))
           /\ \A key : \A ids \in SUBSET Peers :
                Nested(summaryApplySummarySubFilter(s, key, ids)) /\ Nested(summaryApplySubFilter(s, key, ids))
<1>1. ASSUME NEW m, Nested(m) PROVE Nested(summaryClearSummarySubFilter(m))
  <2> DEFINE n == NoInsight(NoFilter(m))
             h == hideSub(n)
  <2>1. summaryClearSummarySubFilter(m) = Show(h, All)
    BY DEF summaryClearSummarySubFilter
  <2>2. Nested(n)
    BY <1>1, ListsNest, BeneathKeeps
  <2> HIDE DEF n
  <2>3. Nested(h)
    BY <2>2, ListsNest
  <2> HIDE DEF h
  <2>. QED BY <2>1, <2>3, BeneathKeeps
<1>2. Nested(summaryClearSubFilter(s))
  <2> DEFINE c == hideSub(NoFilter(s))
  <2>1. summaryClearSubFilter(s) = c \/ \E ids : summaryClearSubFilter(s) = Show(c, ids)
    BY DEF summaryClearSubFilter
  <2>2. Nested(c)
    BY ListsNest
  <2> HIDE DEF c
  <2>. QED BY <2>1, <2>2, BeneathKeeps
<1>3. ASSUME NEW key, NEW ids \in SUBSET Peers PROVE Nested(summaryApplySummarySubFilter(s, key, ids))
  <2> DEFINE c == ClosedFirst(s)
             i == IF c.insight # None THEN NoInsight(c) ELSE c
             f == Filter(i, "summary", key, ids)
  <2>1. summaryApplySummarySubFilter(s, key, ids) = IF c.ids # None /\ c.key = key THEN summaryClearSummarySubFilter(c)
                                                    ELSE clearPeerSelection(f)
    BY DEF summaryApplySummarySubFilter
  <2>2. Nested(c)
    BY BeneathKeeps
  <2> HIDE DEF c
  <2>3. Nested(i)
    BY <2>2, BeneathKeeps
  <2> HIDE DEF i
  <2>4. Nested(f)
    <3>1. "summary" \in Cats
      BY DEF Cats
    <3>. QED BY <2>3, <3>1, ListsNest
  <2> HIDE DEF f
  <2>. QED BY <1>1, <2>1, <2>2, <2>4, BeneathKeeps
<1>4. ASSUME NEW key, NEW ids \in SUBSET Peers PROVE Nested(summaryApplySubFilter(s, key, ids))
  <2>1. "panel" \in Cats
    BY DEF Cats
  <2>2. Nested(Filter(s, "panel", key, ids))
    BY <2>1, ListsNest
  <2>. QED BY <1>2, <2>2 DEF summaryApplySubFilter
<1>. QED BY <1>1, <1>2, <1>3, <1>4

\* The map, the popup of a peer, the lens, the panel of a network.
LEMMA MapNests ==
    ASSUME NEW s, Nested(s)
    PROVE  /\ Nested(onMapClick(s))
           /\ \A p, group : Nested(openPeerDetailPanel(s, p, group))
           /\ \A lens : Nested(setDistributionLens(s, lens))
           /\ \A net : Nested(openNetworkPanel(s, net))
<1>1. Nested(onMapClick(s))
  <2>1. CASE s.net # None
    BY <2>1, NavigationNests DEF onMapClick
  <2>2. CASE s.net = None /\ s.popup
    BY <2>2, BeneathKeeps DEF onMapClick
  <2>3. CASE s.net = None /\ ~s.popup /\ (s.pin # None \/ s.pin2)
    <3> DEFINE t == hideSub(s)
    <3>1. onMapClick(s) = IF s.summary THEN Show(NoFilter(t), All)
                          ELSE IF s.sel # None THEN summaryClearSubFilter(t) ELSE t
      BY <2>3 DEF onMapClick
    <3>2. Nested(t)
      BY ListsNest
    <3> HIDE DEF t
    <3>3. Nested(NoFilter(t)) /\ Nested(summaryClearSubFilter(t))
      BY <3>2, ListsNest, FiltersNest
    <3>. QED BY <3>1, <3>2, <3>3, BeneathKeeps
  <2>4. CASE s.net = None /\ ~s.popup /\ ~(s.pin # None \/ s.pin2)
    <3> DEFINE o == [s EXCEPT !.others = FALSE, !.sel = None]
    <3>1. onMapClick(s) = IF s.sel # None THEN IF s.focused THEN selectSummary(o) ELSE deselect(s)
                          ELSE IF s.focused THEN exitFocusedMode(s) ELSE deselectSummary(s)
      BY <2>4 DEF onMapClick
    <3>2. s.focused => Nested(o) /\ o.focused
      BY DEF Nested, Layers
    <3> HIDE DEF o
    <3>. QED BY <3>1, <3>2, SummaryNests, DeselectNests, NavigationNests
  <2>. QED BY <2>1, <2>2, <2>3, <2>4
<1>2. ASSUME NEW p, NEW group PROVE Nested(openPeerDetailPanel(s, p, group))
  <2> DEFINE c == [s EXCEPT !.focused = TRUE]
             f == IF s.focused THEN s
                  ELSE IF s.summary \/ s.sel # None THEN c ELSE selectSummary(c)
             d == [f EXCEPT !.popup = TRUE, !.peer = p, !.group = group]
  <2>1. openPeerDetailPanel(s, p, group) = Show(d, {p})
    BY DEF openPeerDetailPanel
  <2>2. Nested(c) /\ c.focused
    BY ListsNest DEF Nested, Layers
  <2> HIDE DEF c
  <2>3. Nested(f) /\ f.focused
    BY <2>2, SummaryNests
  <2> HIDE DEF f
  <2>4. Nested(d)
    BY <2>3 DEF Nested, Layers
  <2> HIDE DEF d
  <2>. QED BY <2>1, <2>4, BeneathKeeps
<1>3. ASSUME NEW lens PROVE Nested(setDistributionLens(s, lens))
  <2> DEFINE gone == [s EXCEPT !.sel = None, !.summary = FALSE, !.net = None, !.others = FALSE]
             d == dismissPeerDetailView(gone)
             h == hideSub(NoInsight(NoFilter(d)))
             l == closePanel(h)
             a == Show(l, All)
             c == [a EXCEPT !.lens = lens]
  <2>1. setDistributionLens(s, lens) = IF s.lens = lens THEN s ELSE IF s.focused THEN selectSummary(c) ELSE c
    BY DEF setDistributionLens, clearSelectionForLensSwitch
  <2>2. Nested(l) /\ l.focused = s.focused
    BY DEF Nested, Layers, closePanel, hideSub, hideSubSub, NoInsight, NoFilter, dismissPeerDetailView
  <2> HIDE DEF l
  <2>3. Nested(a) /\ a.focused = s.focused
    BY <2>2, BeneathKeeps DEF Nested, Layers, Show
  <2> HIDE DEF a
  <2>4. Nested(c) /\ c.focused = s.focused
    BY <2>3 DEF Nested, Layers
  <2> HIDE DEF c
  <2>. QED BY <2>1, <2>4, SummaryNests
<1>4. ASSUME NEW net PROVE Nested(openNetworkPanel(s, net))
  <2> DEFINE c == ClosedFirst(s)
             n(x) == [c EXCEPT !.focused = TRUE, !.net = net, !.panel = x]
  <2>1. \E x, ids : openNetworkPanel(s, net) \in {n(x), Show(n(x), ids)}
    <3> HIDE DEF c
    <3>. QED BY DEF openNetworkPanel, c
  <2>2. Nested(c)
    BY BeneathKeeps
  <2> HIDE DEF c
  <2>3. \A x : Nested(n(x))
    BY <2>2 DEF Nested, Layers
  <2> HIDE DEF n
  <2>. QED BY <2>1, <2>3, BeneathKeeps
<1>. QED BY <1>1, <1>2, <1>3, <1>4

\* Rows are labels of filters, or countries.
IsRow(row) ==
    \/ row \in Labels /\ row.cat \in {"summary", "panel", "conn-provider", "conn-in", "conn-out", "conn-others"}
    \/ row.cat = "country" /\ row.key # None

\* The entities of a lens are keys of the function of that lens.
LEMMA GroupsAreKeys ==
    ASSUME NEW P \in SUBSET Peers, NEW f
    PROVE  /\ Groups(P, f) \subseteq Keys(f) /\ None \notin Groups(P, f)
           /\ f \in {Provider, Country} => TopGroups(P, f) \subseteq Groups(P, f)
<1>1. Groups(P, f) \subseteq Keys(f) /\ None \notin Groups(P, f)
  BY DEF Groups, Keys
<1>2. ASSUME f \in {Provider, Country} PROVE TopGroups(P, f) \subseteq Groups(P, f)
  BY <1>2 DEF TopGroups, Top
<1>. QED BY <1>1, <1>2

\* The rows that can be clicked have the labels and the filters of their panels.
LEMMA RowsAreRows ==
    ASSUME NEW s, Nested(s), NEW row \in PanelRows(s)
    PROVE  IsRow(row)
<1>1. s.peers \in SUBSET Peers
  BY DEF Nested
<1>2. \A key \in {"IN", "OUT"} : IsRow(interactiveRow(key)) /\ IsRow(Row("summary", key))
  BY DEF IsRow, interactiveRow, Row, Labels, Cats
<1>3. \A key \in Keys(Network) : IsRow(Row("summary", key))
  BY DEF IsRow, Row, Labels, Cats
<1>4. \A e \in Keys(Provider) \cup {"Others"} : \A cat \in {"conn-provider", "conn-in", "conn-out", "conn-others"} : IsRow(Row(cat, e))
  BY DEF IsRow, Row, Labels, Cats
<1>5. \A e : e # None => IsRow(Row("country", e))
  BY DEF IsRow, Row
<1>6. \A p \in Peers : Direction[p] \in {"IN", "OUT"}
  BY DistributionAssumption DEF DistributionAssumption
<1>8. /\ \A e : \A x \in renderProviderPanel(s, e) \cup renderCountryPanel(s, e) : IsRow(x)
      /\ \A net : \A x \in renderNetworkPanelBody(s, net) : IsRow(x)
  <2>1. \A e : \A x \in renderProviderPanel(s, e) \cup renderCountryPanel(s, e) : IsRow(x)
    BY <1>1, <1>2, <1>6, PeersOf DEF renderProviderPanel, renderCountryPanel
  <2>2. \A net : \A x \in renderNetworkPanelBody(s, net) : IsRow(x)
    BY <1>1, <1>2, <1>6, PeersOf DEF renderNetworkPanelBody, computeNetworkPanelData, renderCategoryRows
  <2>. QED BY <2>1, <2>2
<1>9. \A x \in renderProvider(s) : IsRow(x)
  <2>1. \A x \in aggregateSummaryNetworks(s.peers) : IsRow(x)
    BY <1>1, <1>3 DEF aggregateSummaryNetworks, aggregateSummaryByCategory, Keys
  <2>2. TopGroups(s.peers, Provider) \subseteq Keys(Provider)
    BY <1>1, GroupsAreKeys
  <2>3. \A x \in buildConnectionGrid(s) : IsRow(x)
    BY <1>4, <2>2 DEF buildConnectionGrid
  <2>. QED BY <2>1, <2>3 DEF renderProvider
<1>10. \A x \in renderCountry(s) : IsRow(x)
  BY <1>1, <1>5, GroupsAreKeys DEF renderCountry
<1>. QED BY <1>8, <1>9, <1>10 DEF PanelRows

\* They filter peers.
LEMMA RowsHavePeers ==
    ASSUME NEW s, Nested(s), NEW row, IsRow(row)
    PROVE  RowPeers(s, row) \in SUBSET Peers
<1>1. s.peers \in SUBSET Peers
  BY DEF Nested
<1>2. PanelScope(s) \in SUBSET Peers
  BY <1>1, PeersOf DEF PanelScope
<1>3. CASE row.cat \in Insights \/ row.cat = "country"
  BY <1>1, <1>3, PeersOf DEF RowPeers
<1>4. CASE row.cat \notin Insights \cup {"country"}
  <2> DEFINE r == [s EXCEPT !.cat = row.cat, !.key = row.key]
  <2>1. RowPeers(s, row) = Filtered(r, PanelScope(s))
    BY <1>4 DEF RowPeers
  <2>2. r.cat \in Cats
    BY <1>4 DEF IsRow, Labels, Nested, Layers
  <2> HIDE DEF r
  <2>. QED BY <1>2, <2>1, <2>2, FilterLists
<1>. QED BY <1>3, <1>4

\* What a click on a row is made of.
LEMMA PinNests ==
    ASSUME NEW s, Nested(s), NEW row \in Labels, NEW list \in {"peers", "providers", "ranks"},
           NEW ids \in SUBSET Peers
    PROVE  /\ Nested(Unpin(s))
           /\ \A key : \A cat \in Cats : Nested(Filter(pinSub(s, row, list, ids), cat, key, ids))
<1>1. Nested(Unpin(s))
  <2> DEFINE h == hideSub(s)
  <2>1. Nested(h)
    BY ListsNest
  <2>2. Unpin(s) = Show(NoFilter(h), All)
    BY DEF Unpin
  <2> HIDE DEF h
  <2>3. Nested(NoFilter(h))
    BY <2>1, ListsNest
  <2>. QED BY <2>2, <2>3, BeneathKeeps
<1>2. Nested(pinSub(s, row, list, ids))
  BY ListsNest
<1>. QED BY <1>1, <1>2, ListsNest

\* A row's filter stays when the list is pinned.
LEMMA FilterByRowNests ==
    ASSUME NEW s, Nested(s), NEW row, IsRow(row), row.cat # "country", NEW list \in {"peers", "providers"}
    PROVE  Nested(FilterByRow(s, row, list))
<1> DEFINE ids == RowPeers(s, row)
           f == Filter(pinSub(s, row, list, ids), row.cat, row.key, ids)
<1>1. FilterByRow(s, row, list) = IF pinnedTo(s, row) THEN Unpin(s)
                                  ELSE IF s.insight # None THEN NoInsight(f) ELSE f
  BY DEF FilterByRow
<1>2. ids \in SUBSET Peers /\ row \in Labels /\ row.cat \in Cats
  BY RowsHavePeers DEF IsRow, Labels
<1> HIDE DEF ids
<1>3. Nested(f) /\ Nested(Unpin(s))
  BY <1>2, PinNests
<1> HIDE DEF f
<1>. QED BY <1>1, <1>3, BeneathKeeps

\* A click on a row of the panel.
LEMMA ClickRowNests ==
    ASSUME NEW s, Nested(s), NEW row, IsRow(row)
    PROVE  Nested(ClickRow(s, row))
<1> DEFINE c == ClosedFirst(s)
<1>1. Nested(c) /\ Nested(hideSub(c)) /\ Nested(hideSub(s))
  BY BeneathKeeps, ListsNest
<1> HIDE DEF c
<1>2. CASE row.cat = "summary"
  <2> DEFINE ids == RowPeers(c, row)
             a == summaryApplySummarySubFilter(c, row.key, ids)
  <2>1. ClickRow(s, row) = IF pinnedTo(c, row) THEN summaryClearSummarySubFilter(hideSub(c))
                           ELSE pinSub(a, row, "providers", ids)
    BY <1>2 DEF ClickRow, clickSummaryRow, c
  <2>2. ids \in SUBSET Peers /\ row \in Labels
    BY <1>1, <1>2, RowsHavePeers DEF IsRow
  <2> HIDE DEF ids
  <2>3. Nested(a)
    BY <1>1, <2>2, FiltersNest
  <2> HIDE DEF a
  <2>4. Nested(pinSub(a, row, "providers", ids))
    BY <2>2, <2>3, ListsNest
  <2>5. Nested(summaryClearSummarySubFilter(hideSub(c)))
    BY <1>1, FiltersNest
  <2>. QED BY <2>1, <2>4, <2>5
<1>3. CASE row.cat = "panel"
  <2> DEFINE ids == RowPeers(s, row)
             a == summaryApplySubFilter(s, row.key, ids)
  <2>1. ClickRow(s, row) = IF pinnedTo(s, row) THEN summaryClearSubFilter(hideSub(s))
                           ELSE pinSub(a, row, "peers", ids)
    BY <1>3 DEF ClickRow, clickInteractiveRow
  <2>2. ids \in SUBSET Peers /\ row \in Labels
    BY <1>3, RowsHavePeers DEF IsRow
  <2> HIDE DEF ids
  <2>3. Nested(a)
    BY <2>2, FiltersNest
  <2> HIDE DEF a
  <2>4. Nested(pinSub(a, row, "peers", ids))
    BY <2>2, <2>3, ListsNest
  <2>5. Nested(summaryClearSubFilter(hideSub(s)))
    BY <1>1, FiltersNest
  <2>. QED BY <2>1, <2>4, <2>5
<1>4. CASE row.cat \in {"conn-provider", "conn-others"}
  <2>1. ClickRow(s, row) \in {FilterByRow(c, row, "peers"), FilterByRow(c, row, "providers")}
    BY <1>4 DEF ClickRow, selectConnectionProvider, selectOtherProviders, c
  <2>. QED BY <1>1, <1>4, <2>1, FilterByRowNests
<1>5. CASE row.cat \in {"conn-in", "conn-out"}
  <2>1. ClickRow(s, row) = FilterByRow(s, row, "peers")
    BY <1>5 DEF ClickRow, selectOutboundTypeGroup, selectConnectionDirection
  <2>. QED BY <1>5, <2>1, FilterByRowNests
<1>6. CASE row.cat = "country"
  <2> DEFINE e == row.key
             away == [c EXCEPT !.summary = FALSE, !.sel = e]
             d == hideSub(NoFilter(away))
             o == openPanel(d, e)
             ids == findActiveSegmentOrGroup(c, e)
  <2>1. ClickRow(s, row) = IF ids = {} THEN c ELSE clearPeerSelection(Show(o, ids))
    BY <1>6 DEF ClickRow, selectCountryFromSummary, c
  <2>2. e # None
    BY <1>6, NoneIsNothing DEF IsRow, Labels, Keys
  <2> HIDE DEF e
  <2>3. Nested(away) /\ away.sel = e
    BY <1>1, <2>2 DEF Nested, Layers
  <2> HIDE DEF away
  <2>4. Nested(d) /\ d.sel = e
    BY <2>3, ListsNest DEF Nested, Layers, hideSub, hideSubSub, NoFilter
  <2> HIDE DEF d
  <2>5. Nested(o)
    BY <2>2, <2>4, PanelsNest
  <2> HIDE DEF o
  <2>. QED BY <1>1, <2>1, <2>5, BeneathKeeps
<1>. QED BY <1>2, <1>3, <1>4, <1>5, <1>6 DEF IsRow

\* A click on a link of the summary of providers.
LEMMA SelectInsightNests ==
    ASSUME NEW s, Nested(s), NEW kind \in Cats, NEW e, NEW key, NEW list \in {"peers", "ranks"},
           NEW ids \in SUBSET Peers
    PROVE  Nested(SelectInsight(s, kind, e, key, list, ids))
<1> DEFINE c == ClosedFirst(s)
           g == pinSub(c, Row(kind, kind), list, ids)
           f == [g EXCEPT !.cat = kind, !.key = key, !.ids = ids]
           i == [f EXCEPT !.ids = ids, !.insight = [prov |-> e, type |-> kind], !.rect = @ \/ c.focused]
<1>1. SelectInsight(s, kind, e, key, list, ids) =
        IF pinnedTo(c, Row(kind, kind)) THEN NoInsight(Unpin(c)) ELSE Show(i, RankedPeers(c, kind, e))
  BY DEF SelectInsight, Pinned
<1>2. Nested(c) /\ Row(kind, kind) \in Labels
  BY BeneathKeeps DEF Row, Labels
<1> HIDE DEF c
<1>3. Nested(g) /\ Nested(Unpin(c))
  BY <1>2, ListsNest, PinNests
<1> HIDE DEF g
<1>4. Nested(f) /\ f.cat # None
  BY <1>3, NoneIsNothing DEF Nested, Layers
<1> HIDE DEF f
<1>5. Nested(i)
  BY <1>4, NoneIsNothing DEF Nested, Layers
<1> HIDE DEF i
<1>. QED BY <1>1, <1>3, <1>5, BeneathKeeps

\* A click on a link of a panel.
LEMMA ClickLinkNests ==
    ASSUME NEW s, Nested(s), NEW link \in Insights \cup {"all-providers"}, NEW e
    PROVE  Nested(ClickLink(s, link, e))
<1>1. link \in {"insight-fastest", "insight-data", "insight-stable", "all-providers"}
  BY DistributionAssumption DEF DistributionAssumption
<1>2. s.peers \in SUBSET Peers /\ {} \in SUBSET Peers
  BY DEF Nested
<1>3. CASE link = "all-providers"
  <2> DEFINE c == ClosedFirst(s)
             ids == {p \in c.peers : Provider[p] # None}
             g == pinSub(c, Row(link, link), "providers", ids)
             f == [g EXCEPT !.cat = "all-providers", !.key = "all-providers", !.ids = ids]
             i == [f EXCEPT !.ids = {}]
  <2>1. ClickLink(s, link, e) = IF pinnedTo(c, Row(link, link)) THEN Unpin(c) ELSE i
    BY <1>3 DEF ClickLink, selectAllProviders, Pinned
  <2>2. Nested(c) /\ Row(link, link) \in Labels
    BY <1>3, BeneathKeeps DEF Row, Labels, Cats
  <2> HIDE DEF c
  <2>3. ids \in SUBSET Peers
    BY <2>2 DEF Nested
  <2> HIDE DEF ids
  <2>4. Nested(g) /\ Nested(Unpin(c))
    BY <2>2, <2>3, ListsNest, PinNests
  <2> HIDE DEF g
  <2>5. Nested(f) /\ f.cat # None
    BY <2>3, <2>4, NoneIsNothing DEF Nested, Layers, Cats
  <2> HIDE DEF f
  <2>6. Nested(i)
    BY <2>5, NoneIsNothing DEF Nested, Layers
  <2>. QED BY <2>1, <2>4, <2>6
<1>4. CASE link = "insight-fastest"
  BY <1>2, <1>4, SelectInsightNests DEF ClickLink, selectFastestProviders, Cats
<1>5. CASE link = "insight-data"
  BY <1>2, <1>5, SelectInsightNests DEF ClickLink, selectDataProviders, Cats
<1>6. CASE link = "insight-stable"
  BY <1>2, <1>6, SelectInsightNests, PeersOf DEF ClickLink, selectStablePeers, buildStablePeersHtml, Cats
<1>. QED BY <1>1, <1>3, <1>4, <1>5, <1>6

\* What a pointer shows and leaves changes no layer but the second list.
LEMMA RestoresBeneath ==
    ASSUME NEW s, Nested(s)
    PROVE  Nested(RestoreSummary(s)) /\ Nested(RestoreProvider(s))
<1>1. \E ids : RestoreSummary(s) \in {s, Show(s, ids)}
  BY DEF RestoreSummary
<1>2. \E ids : RestoreProvider(s) \in {s, Show(s, ids)}
  BY DEF RestoreProvider
<1>. QED BY <1>1, <1>2, BeneathKeeps

\* What the pointer previews carries no layer, unless it is the second list.
LEMMA PreviewsNest ==
    ASSUME NEW s, Nested(s)
    PROVE  /\ \A row : Nested(previewRow(s, row))
           /\ \A e : Nested(previewCountry(s, e)) /\ Nested(previewNavigationProvider(s, e))
           /\ \A kind, e : Nested(previewInsight(s, kind, e))
           /\ Nested(leaveNavigation(s)) /\ Nested(leaveInteractiveRow(s))
           /\ Nested(leaveSummaryRow(s)) /\ Nested(leaveInsight(s))
           /\ Nested(restoreCountryPreview(s))
<1>1. Nested(hideSub(s)) /\ Nested(hideSubSub(s))
  BY ListsNest
<1>2. \A row : Nested(previewRow(s, row))
  BY <1>1, BeneathKeeps DEF previewRow
<1>3. \A e : Nested(previewCountry(s, e)) /\ Nested(previewNavigationProvider(s, e))
  BY BeneathKeeps DEF previewCountry, previewNavigationProvider
<1>4. ASSUME NEW kind, NEW e PROVE Nested(previewInsight(s, kind, e))
  <2> DEFINE h == Show(hideSubSub(s), RankedPeers(s, kind, e))
             i == [h EXCEPT !.rect = @ \/ s.focused]
  <2>1. previewInsight(s, kind, e) = IF Undisturbed(s) THEN i ELSE s
    BY DEF previewInsight
  <2>2. Nested(h)
    BY <1>1, BeneathKeeps
  <2> HIDE DEF h
  <2>3. Nested(i)
    BY <2>2 DEF Nested, Layers
  <2>. QED BY <2>1, <2>3
<1>5. Nested(leaveNavigation(s))
  BY RestoresBeneath DEF leaveNavigation
<1>6. Nested(leaveInteractiveRow(s)) /\ Nested(leaveSummaryRow(s))
  BY <1>1, RestoresBeneath DEF leaveInteractiveRow, leaveSummaryRow
<1>7. Nested(leaveInsight(s))
  <2> DEFINE h == hideSub(s)
             i == [h EXCEPT !.rect = FALSE]
  <2>1. leaveInsight(s) = IF Undisturbed(s) THEN RestoreSummary(i) ELSE s
    BY DEF leaveInsight
  <2>2. Nested(h)
    BY <1>1
  <2> HIDE DEF h
  <2>3. Nested(i)
    BY <2>2 DEF Nested, Layers
  <2> HIDE DEF i
  <2>. QED BY <2>1, <2>3, RestoresBeneath
<1>8. Nested(restoreCountryPreview(s))
  BY BeneathKeeps DEF restoreCountryPreview
<1>. QED BY <1>2, <1>3, <1>4, <1>5, <1>6, <1>7, <1>8

\* The rows of a pinned list.
LEMMA ListRowsAreProviders ==
    ASSUME NEW s, Nested(s), NEW e \in ListRows(s)
    PROVE  e \in Keys(Provider) /\ e # None /\ s.pin # None /\ ListPeers(s, e) \in SUBSET Peers
<1>1. s.pin # None
  BY DEF ListRows, Ranks
<1>2. s.pin \in Pins
  BY <1>1 DEF Nested
<1>3. s.pin.ids \in SUBSET Peers
  BY <1>2 DEF Pins
<1>4. s.peers \in SUBSET Peers
  BY DEF Nested
<1>5. Ranked(s) \subseteq Keys(Provider)
  <2>1. s.peers \cap Measured \in SUBSET Peers
    BY <1>4
  <2>. QED BY <2>1, GroupsAreKeys DEF Ranked
<1>6. e \in Groups(s.pin.ids, Provider) \/ e \in Ranked(s)
  BY <1>1 DEF ListRows, buildProviderListHtml, aggregateProvidersForPeers, buildDataProviderHtml, buildFastestProvHtml
<1>7. e \in Keys(Provider)
  BY <1>3, <1>5, <1>6, GroupsAreKeys
<1>8. ListPeers(s, e) \in SUBSET Peers
  BY <1>3, <1>4, PeersOf DEF ListPeers, With
<1>. QED BY <1>1, <1>7, <1>8 DEF Keys

\* A click on a row of a list that is pinned.
LEMMA ListsOfRowsNest ==
    ASSUME NEW s, Nested(s)
    PROVE  /\ \A e : Nested(MoveRect(s, e))
           /\ \A e : Nested(previewNestedProvider(s, e)) /\ Nested(previewRankedProvider(s, e))
           /\ Nested(leaveNested(s)) /\ Nested(leaveRanked(s))
           /\ \A e \in ListRows(s) : Nested(selectNestedProvider(s, e)) /\ Nested(selectRankedProvider(s, e))
<1>1. ASSUME NEW m, Nested(m), NEW e PROVE Nested(MoveRect(m, e))
  <2> DEFINE i(x) == [m EXCEPT !.insight = x]
  <2>1. MoveRect(m, e) = m \/ \E x : MoveRect(m, e) = i(x)
    BY DEF MoveRect
  <2>2. \A x : Nested(i(x))
    BY <1>1 DEF Nested, Layers
  <2>. QED BY <1>1, <2>1, <2>2
<1>2. \A e : Nested(previewNestedProvider(s, e)) /\ Nested(previewRankedProvider(s, e))
  BY <1>1, BeneathKeeps DEF previewNestedProvider, previewRankedProvider
<1>3. Nested(leaveNested(s)) /\ Nested(leaveRanked(s))
  BY RestoresBeneath DEF leaveNested, leaveRanked
<1>4. ASSUME NEW e \in ListRows(s) PROVE Nested(selectNestedProvider(s, e)) /\ Nested(selectRankedProvider(s, e))
  <2> DEFINE t == pinSecondary(s, e, ListPeers(s, e))
  <2>1. Nested(t)
    BY ListRowsAreProviders, ListsNest
  <2>2. selectNestedProvider(s, e) = Show(t, ListPeers(s, e))
    BY DEF selectNestedProvider
  <2> HIDE DEF t
  <2>3. Nested(selectNestedProvider(s, e))
    BY <2>1, <2>2, BeneathKeeps
  <2>. QED BY <1>1, <2>3 DEF selectRankedProvider
<1>. QED BY <1>1, <1>2, <1>3, <1>4

\* The peers of the lists.
LEMMA TooltipsNest ==
    ASSUME NEW s, Nested(s)
    PROVE  /\ \A p : Nested(previewTooltipPeer(s, p))
           /\ Nested(restoreTooltipPeerPreview(s))
<1>1. \A p : Nested([s EXCEPT !.hovered = p])
  BY DEF Nested, Layers
<1>2. \A p : Nested(previewTooltipPeer(s, p))
  BY <1>1, BeneathKeeps DEF previewTooltipPeer
<1>3. Nested(restoreTooltipPeerPreview(s))
  <2> DEFINE h == [s EXCEPT !.hovered = None]
  <2>1. restoreTooltipPeerPreview(s) \in {h, Show(h, {s.peer}), RestoreSummary(h), RestoreProvider(h)}
    BY DEF restoreTooltipPeerPreview
  <2>2. Nested(h)
    BY <1>1
  <2> HIDE DEF h
  <2>. QED BY <2>1, <2>2, BeneathKeeps, RestoresBeneath
<1>. QED BY <1>2, <1>3

\* The list of Others.
LEMMA OthersNest ==
    ASSUME NEW s, Nested(s)
    PROVE  /\ \A e : Nested(previewOthersItem(s, e))
           /\ Nested(leaveOthersItem(s))
           /\ \A e : e # None => Nested(clickOthersItem(s, e))
<1>1. \A e : Nested(previewOthersItem(s, e))
  BY BeneathKeeps DEF previewOthersItem
<1>2. Nested(leaveOthersItem(s))
  BY BeneathKeeps DEF leaveOthersItem
<1>3. Nested(backToOthersList(s))
  <2> DEFINE h == hideSub(NoFilter(s))
             t == [h EXCEPT !.sel = "Others"]
             o == openPanel(t, "Others")
             ids == findActiveSegmentOrGroup(s, "Others")
             v == Show(o, ids)
             l == [v EXCEPT !.others = TRUE]
  <2>1. backToOthersList(s) = IF ids = {} THEN s ELSE l
    BY DEF backToOthersList
  <2>2. Nested(h)
    BY ListsNest
  <2> HIDE DEF h
  <2>3. Nested(t) /\ t.sel # None
    BY <2>2, NoneIsNothing DEF Nested, Layers
  <2> HIDE DEF t
  <2>4. Nested(o) /\ (o.sel # None \/ o.focused)
    BY <2>3, PanelsNest
  <2> HIDE DEF o
  <2>5. Nested(v) /\ (v.sel # None \/ v.focused)
    BY <2>4, BeneathKeeps DEF Nested, Layers, Show
  <2> HIDE DEF v
  <2>6. Nested(l)
    BY <2>5 DEF Nested, Layers
  <2>. QED BY <2>1, <2>6
<1>4. ASSUME NEW e, e # None PROVE Nested(clickOthersItem(s, e))
  <2> DEFINE t == [s EXCEPT !.sel = e]
             o == openPanel(t, e)
  <2>1. clickOthersItem(s, e) \in {backToOthersList(s), Show(o, findActiveSegmentOrGroup(s, e)), navigateToProvider(s, e)}
    BY DEF clickOthersItem
  <2>2. Nested(t) /\ t.sel # None
    BY <1>4 DEF Nested, Layers
  <2> HIDE DEF t
  <2>3. Nested(o)
    BY <2>2, PanelsNest
  <2> HIDE DEF o
  <2>. QED BY <1>3, <1>4, <2>1, <2>3, NavigationNests, BeneathKeeps
<1>. QED BY <1>1, <1>2, <1>4

\* Segments of the donut.
LEMMA SegmentsNest ==
    ASSUME NEW s, Nested(s)
    PROVE  /\ Nested(onSegmentLeave(s))
           /\ \A e : e # None => Nested(onSegmentClick(s, e))
<1>1. Nested(onSegmentLeave(s))
  BY RestoresBeneath, BeneathKeeps DEF onSegmentLeave
<1>2. ASSUME NEW e, e # None PROVE Nested(onSegmentClick(s, e))
  <2> DEFINE f == ClosedFirst(s)
             c == [f EXCEPT !.focused = TRUE]
             d == IF c.summary THEN deselectSummary(c) ELSE c
             o == [d EXCEPT !.others = FALSE]
             off == hideSub(NoFilter(o))
             on == [off EXCEPT !.sel = e]
             p == openPanel(on, e)
             v == Show(p, findActiveSegmentOrGroup(s, e))
             g == [off EXCEPT !.sel = None]
             k == Show(closePanel(g), All)
             l == [v EXCEPT !.others = (e = "Others")]
  <2>1. onSegmentClick(s, e) \in {selectSummary(k), clearPeerSelection(on), clearPeerSelection(l)}
    BY DEF onSegmentClick
  <2>2. Nested(f)
    BY BeneathKeeps
  <2> HIDE DEF f
  <2>3. Nested(c) /\ c.focused
    BY <2>2, ListsNest DEF Nested, Layers
  <2> HIDE DEF c
  <2>4. Nested(d) /\ d.focused
    BY <2>3, DeselectNests
  <2> HIDE DEF d
  <2>5. Nested(o) /\ o.focused
    BY <2>4 DEF Nested, Layers
  <2> HIDE DEF o
  <2>6. Nested(off) /\ off.focused
    BY <2>5, ListsNest DEF Nested, Layers, hideSub, hideSubSub, NoFilter
  <2> HIDE DEF off
  <2>7. Nested(on) /\ on.focused
    BY <1>2, <2>6 DEF Nested, Layers
  <2>8. Nested(p) /\ p.focused
    BY <2>7, PanelsNest
  <2> HIDE DEF p
  <2>9. Nested(v) /\ v.focused
    BY <2>8, BeneathKeeps DEF Nested, Layers, Show
  <2> HIDE DEF v
  <2>10. Nested(l)
    BY <2>9 DEF Nested, Layers
  <2>11. Nested(g) /\ g.focused
    BY <2>6 DEF Nested, Layers
  <2> HIDE DEF g
  <2>12. Nested(k) /\ k.focused
    BY <2>11 DEF Nested, Layers, closePanel, Show
  <2> HIDE DEF k, l, on
  <2>. QED BY <2>1, <2>7, <2>10, <2>12, SummaryNests, BeneathKeeps
<1>. QED BY <1>1, <1>2

\* Escape and the buttons that press it.
LEMMA EscapeNests ==
    ASSUME NEW s, Nested(s)
    PROVE  /\ Nested(onEscape(s)) /\ \A secondary : Nested(dismissTooltip(s, secondary))
           /\ Nested(dismissPanelTooltips(s)) /\ Nested(closeDetailPanel(s))
<1>1. ASSUME NEW m, Nested(m) PROVE Nested(onEscape(m))
  <2> DEFINE h == hideSub(m)
             b == hideSubSub(m)
  <2>1. Nested(h) /\ Nested(b)
    BY <1>1, ListsNest
  <2>2. CASE m.popup
    BY <1>1, <2>2, BeneathKeeps DEF onEscape
  <2>3. CASE ~m.popup /\ m.pin2
    <3>1. \E ids : onEscape(m) \in {b, Show(b, ids)}
      BY <2>3 DEF onEscape
    <3> HIDE DEF b
    <3>. QED BY <2>1, <3>1, BeneathKeeps
  <2>4. CASE ~m.popup /\ ~m.pin2 /\ m.pin # None
    <3>1. onEscape(m) \in {summaryClearSummarySubFilter(h), summaryClearSubFilter(h), h}
      BY <2>4 DEF onEscape
    <3> HIDE DEF h
    <3>. QED BY <2>1, <3>1, FiltersNest
  <2>5. CASE ~m.popup /\ ~m.pin2 /\ m.pin = None /\ m.net # None
    <3>1. onEscape(m) = LeaveNetwork(m)
      BY <2>5 DEF onEscape
    <3>. QED BY <1>1, <2>5, <3>1, NavigationNests
  <2>6. CASE ~m.popup /\ ~m.pin2 /\ m.pin = None /\ m.net = None
    <3>1. onEscape(m) \in {exitFocusedMode(m), deselectSummary(m), deselect(m)}
      BY <2>6 DEF onEscape
    <3>. QED BY <1>1, <3>1, NavigationNests, DeselectNests
  <2>. QED BY <2>2, <2>3, <2>4, <2>5, <2>6
<1>2. ASSUME NEW secondary PROVE Nested(dismissTooltip(s, secondary))
  <2> DEFINE one == onEscape(s)
             two == onEscape(one)
             three == onEscape(two)
  <2>1. dismissTooltip(s, secondary) \in {one, two, onEscape(one), three}
    BY DEF dismissTooltip
  <2>2. Nested(one)
    BY <1>1
  <2> HIDE DEF one
  <2>3. Nested(two)
    BY <1>1, <2>2
  <2> HIDE DEF two
  <2>4. Nested(three) /\ Nested(onEscape(one))
    BY <1>1, <2>2, <2>3
  <2>. QED BY <2>1, <2>2, <2>3, <2>4
<1>3. Nested(dismissPanelTooltips(s))
  <2> DEFINE t == hideSub(s)
  <2>1. dismissPanelTooltips(s) \in {s, Show(NoFilter(t), All), summaryClearSubFilter(t), t}
    BY DEF dismissPanelTooltips
  <2>2. Nested(t)
    BY ListsNest
  <2> HIDE DEF t
  <2>3. Nested(NoFilter(t)) /\ Nested(summaryClearSubFilter(t))
    BY <2>2, ListsNest, FiltersNest
  <2>. QED BY <2>1, <2>2, <2>3, BeneathKeeps
<1>4. Nested(closeDetailPanel(s))
  BY NavigationNests, DeselectNests DEF closeDetailPanel
<1>. QED BY <1>1, <1>2, <1>3, <1>4

\* The map, its groups, the table and the chips of filters.
LEMMA MapActionsNest ==
    ASSUME NEW s, Nested(s)
    PROVE  /\ \A p, group : Nested(selectPeer(s, p, group))
           /\ Nested(selectGroup(s))
           /\ \A p : Nested(clickMapPeer(s, p))
           /\ Nested(clickMapBlank(s))
           /\ \A net : Nested(networkChip(s, net))
           /\ Nested(clearSelectionChip(s)) /\ Nested(clearMapChip(s))
           /\ Nested(enterPrivateNetMode(s))
           /\ s.popup => Nested(openMultiPeerPopup(s))
<1>1. ASSUME NEW p, NEW group PROVE Nested(selectPeer(s, p, group))
  <2> DEFINE m == [s EXCEPT !.mapf = {p}, !.mapGroup = FALSE]
  <2>1. Nested(m)
    BY DEF Nested, Layers
  <2> HIDE DEF m
  <2>. QED BY <2>1, MapNests DEF selectPeer, m
<1>2. Nested(selectGroup(s))
  <2> DEFINE c == closePeerPopup(s)
  <2>1. Nested(c) /\ selectGroup(s) = [c EXCEPT !.mapf = AtSite(s), !.mapGroup = TRUE]
    BY BeneathKeeps DEF selectGroup
  <2> HIDE DEF c
  <2>. QED BY <2>1 DEF Nested, Layers
<1>3. \A p : Nested(clickMapPeer(s, p))
  <2>1. Nested(clearPeerSelection(s))
    BY BeneathKeeps
  <2>2. Nested(closePeerPopup(clearPeerSelection(s)))
    BY <2>1, BeneathKeeps
  <2>. QED BY <1>1, <2>2 DEF clickMapPeer
<1>4. Nested(clickMapBlank(s))
  <2>1. Nested(clearPeerSelection(s))
    BY BeneathKeeps
  <2>. QED BY <2>1, MapNests DEF clickMapBlank
<1>5. \A net : Nested(networkChip(s, net))
  <2>1. Nested(enterFocusedMode(s))
    BY NavigationNests
  <2>. QED BY <2>1, MapNests DEF networkChip
<1>6. Nested(clearSelectionChip(s))
  <2> DEFINE d == deselect(s)
             c == [d EXCEPT !.sel = None, !.summary = FALSE, !.net = None, !.hovered = None, !.insight = None]
             n == NoFilter(c)
             h == hideSub(n)
  <2>1. clearSelectionChip(s) = Show(h, All)
    BY DEF clearSelectionChip
  <2>2. Nested(d) /\ d.focused = s.focused /\ (~s.focused => d.panel = None /\ ~d.others)
    BY DeselectNests
  <2> HIDE DEF d
  <2>3. Nested(c)
    BY <2>2 DEF Nested, Layers
  <2> HIDE DEF c
  <2>4. Nested(n)
    BY <2>3, ListsNest
  <2> HIDE DEF n
  <2>5. Nested(h)
    BY <2>4, ListsNest
  <2> HIDE DEF h
  <2>. QED BY <2>1, <2>5, BeneathKeeps
<1>7. Nested(clearMapChip(s))
  <2>1. Nested(ClosedFirst(s))
    BY BeneathKeeps
  <2>. QED BY <2>1, BeneathKeeps DEF clearMapChip
<1>8. Nested(enterPrivateNetMode(s))
  <2> DEFINE c == closePeerPopup(s)
             d == deselect(c)
             x == exitFocusedMode(d)
  <2>1. Nested(c)
    BY BeneathKeeps
  <2> HIDE DEF c
  <2>2. Nested(d)
    BY <2>1, DeselectNests
  <2> HIDE DEF d
  <2>3. Nested(x)
    BY <2>2, NavigationNests
  <2>4. enterPrivateNetMode(s) = clearPeerSelection(x)
    BY DEF enterPrivateNetMode, c, d
  <2> HIDE DEF x
  <2>. QED BY <2>3, <2>4, BeneathKeeps
<1>9. s.popup => Nested(openMultiPeerPopup(s))
  BY DEF Nested, Layers, openMultiPeerPopup
<1>. QED BY <1>1, <1>2, <1>3, <1>4, <1>5, <1>6, <1>7, <1>8, <1>9

\* Something is explored, and its views follow a poll.
Explored(s) == s.sel # None \/ s.summary \/ s.net # None

\* The stages of a poll.
LEMMA StagesNest ==
    ASSUME NEW s, Nested(s)
    PROVE  /\ \A P \in Snapshots : Nested(reconcileMap(s, P))
           /\ Nested(updateDetail(s)) /\ Nested(reconcileFilter(s))
           /\ Explored(s) => Nested(reconcilePanel(s))
           /\ Nested(refreshPinned(s)) /\ Nested(reconcileTable(s))
<1>1. ASSUME NEW P \in Snapshots PROVE Nested(reconcileMap(s, P))
  <2>1. P \in SUBSET Peers
    BY DistributionAssumption DEF DistributionAssumption
  <2>. QED BY <2>1 DEF Nested, Layers, reconcileMap
<1>2. ASSUME NEW m, Nested(m) PROVE Nested(updateDetail(m))
  <2> DEFINE g == IF m.group = None THEN m ELSE [m EXCEPT !.group = AtSite(m)]
  <2>1. updateDetail(m) \in {g, closePeerPopup(g)}
    BY DEF updateDetail
  <2>2. Nested(g)
    BY <1>2 DEF Nested, Layers
  <2> HIDE DEF g
  <2>. QED BY <2>1, <2>2, BeneathKeeps
<1>3. ASSUME NEW m, Nested(m) PROVE Nested(reconcileFilter(m))
  <2> DEFINE ids == Filtered(m, ScopePeers(m))
             second == IF m.second = None THEN None
                       ELSE [m.second EXCEPT !.ids = With(ids, Provider, m.second.prov)]
  <2>1. reconcileFilter(m) = [m EXCEPT !.ids = IF m.cat # None THEN ids ELSE None, !.second = second]
    BY DEF reconcileFilter
  <2>2. ids \in SUBSET Peers
    <3>1. m.peers \in SUBSET Peers /\ m.cat \in Cats \cup {None}
      BY <1>3 DEF Nested
    <3>2. CASE m.cat \in Cats
      BY <3>1, <3>2, PeersOf, FilterLists
    <3>3. CASE m.cat = None
      BY <3>1, <3>3, NoneIsNothing, PeersOf DEF Filtered
    <3>. QED BY <3>1, <3>2, <3>3
  <2> HIDE DEF ids
  <2>3. second \in Seconds \cup {None} /\ (second # None <=> m.second # None)
    <3>1. CASE m.second = None
      BY <3>1
    <3>2. CASE m.second \in Seconds
      BY <2>2, <3>2, NoneIsNothing DEF Seconds, With
    <3>. QED BY <1>3, <3>1, <3>2 DEF Nested
  <2> HIDE DEF second
  <2>. QED BY <1>3, <2>1, <2>2, <2>3, NoneIsNothing DEF Nested, Layers
<1>4. ASSUME NEW m, Nested(m), m.sel # None \/ m.summary \/ m.net # None PROVE Nested(reconcilePanel(m))
  <2> DEFINE r(x) == [m EXCEPT !.panel = x]
  <2>1. \A x : Nested(r(x))
    BY <1>4 DEF Nested, Layers
  <2>2. reconcilePanel(m) = m \/ \E x : reconcilePanel(m) = r(x)
    BY DEF reconcilePanel, renderSummary, renderPanel
  <2>. QED BY <1>4, <2>1, <2>2
<1>5. ASSUME NEW m, Nested(m) PROVE Nested(refreshPinned(m))
  <2>1. CASE m.pin = None
    BY <1>5, <2>1 DEF refreshPinned
  <2>2. CASE m.pin # None
    <3> DEFINE live == m.pin.live /\ m.pin.row \in PanelRows(m) \cup {Row(l, l) : l \in Links(m)}
               list == CASE m.cat \in {"summary", "conn-others"} -> "providers"
                         [] m.cat \in {"insight-fastest", "insight-data"} -> "ranks"
                         [] OTHER -> "peers"
               pin == IF m.cat = None THEN [m.pin EXCEPT !.live = live]
                      ELSE [m.pin EXCEPT !.live = live, !.list = list,
                                         !.ids = IF list = "ranks" THEN {} ELSE m.ids]
    <3>1. refreshPinned(m) = [m EXCEPT !.pin = pin]
      BY <2>2 DEF refreshPinned
    <3>2. m.pin \in Pins
      BY <1>5, <2>2 DEF Nested
    <3>3. live \in BOOLEAN
      BY <3>2 DEF Pins
    <3> HIDE DEF live
    <3>4. list \in {"peers", "providers", "ranks"}
      OBVIOUS
    <3> HIDE DEF list
    <3>5. m.cat # None => m.ids \in SUBSET Peers
      BY <1>5 DEF Nested
    <3>6. pin \in Pins /\ pin # None
      BY <3>2, <3>3, <3>4, <3>5, NoneIsNothing DEF Pins
    <3> HIDE DEF pin
    <3>. QED BY <1>5, <3>1, <3>6 DEF Nested, Layers
  <2>. QED BY <2>1, <2>2
<1>6. ASSUME NEW m, Nested(m) PROVE Nested(reconcileTable(m))
  <2>1. \E ids, x : reconcileTable(m) \in {Show(m, ids), [Show(m, ids) EXCEPT !.rect = x]}
    BY DEF reconcileTable
  <2>2. PICK ids, x : reconcileTable(m) \in {Show(m, ids), [Show(m, ids) EXCEPT !.rect = x]}
    BY <2>1
  <2>3. Nested(Show(m, ids))
    BY <1>6, BeneathKeeps
  <2>4. Nested([Show(m, ids) EXCEPT !.rect = x])
    BY <2>3 DEF Nested, Layers
  <2>. QED BY <2>2, <2>3, <2>4
<1>. QED BY <1>1, <1>2, <1>3, <1>4, <1>5, <1>6 DEF Explored

\* A poll.
LEMMA UpdateNests ==
    ASSUME NEW s, Nested(s), NEW P \in Snapshots
    PROVE  Nested(update(s, P))
<1> DEFINE m == updateDetail(reconcileMap(s, P))
           f == reconcileFilter(m)
           p == reconcilePanel(f)
<1>1. Nested(m)
  BY StagesNest
<1>2. update(s, P) = IF Explored(m) THEN reconcileTable(refreshPinned(p)) ELSE m
  BY DEF update, refreshSelectionViews, Explored
<1> HIDE DEF m
<1>3. Nested(f) /\ (Explored(m) => Explored(f))
  BY <1>1, StagesNest DEF Explored, Nested, Layers, reconcileFilter
<1> HIDE DEF f
<1>4. Explored(m) => Nested(p)
  BY <1>3, StagesNest
<1> HIDE DEF p
<1>. QED BY <1>1, <1>2, <1>4, StagesNest

\* The kinds of elements with handlers for the pointer.
ElementKinds == {"row", "panelrow", "country", "insight", "nav", "nested", "rank", "peer", "item", "segment"}

\* Whatever the pointer enters.
LEMMA ElementsNest ==
    ASSUME NEW s, Nested(s), NEW x \in Elements(s)
    PROVE  Nested(x.to) /\ x.kind \in ElementKinds
<1> USE DEF ElementKinds
<1>1. CASE x \in summaryAttachCountrySummaryRowHandlers(s)
  <2>1. PICK row : x = [kind |-> "country", to |-> previewCountry(s, row.key)]
    BY <1>1 DEF summaryAttachCountrySummaryRowHandlers, Hover
  <2>. QED BY <2>1, PreviewsNest
<1>2. CASE x \in summaryAttachInteractiveRowHandlers(s)
  <2>1. PICK row : x = [kind |-> "row", to |-> previewRow(s, row)]
    BY <1>2 DEF summaryAttachInteractiveRowHandlers, Hover
  <2>. QED BY <2>1, PreviewsNest
<1>3. CASE x \in summaryAttachSummaryRowHandlers(s) \cup summaryAttachGridHandlers(s)
  <2>1. PICK row : x = [kind |-> "panelrow", to |-> previewRow(s, row)]
    BY <1>3 DEF summaryAttachSummaryRowHandlers, summaryAttachGridHandlers, Hover,
        previewConnectionProvider, previewOutboundTypeGroup, previewConnectionDirection
  <2>. QED BY <2>1, PreviewsNest
<1>4. CASE x \in insightAttachSummaryLinkHandlers(s)
  <2>1. PICK kind, e : \/ x = [kind |-> "insight", to |-> previewInsight(s, kind, e)]
                       \/ x = [kind |-> "nav", to |-> previewNavigationProvider(s, e)]
    BY <1>4 DEF insightAttachSummaryLinkHandlers, Hover, previewFastestProviders, previewStablePeers, previewDataProviders
  <2>. QED BY <2>1, PreviewsNest
<1>5. CASE x \in insightAttachFastestProvRowHandlers(s) \cup insightAttachDataProviderRowHandlers(s)
  <2>1. PICK e : x = [kind |-> "rank", to |-> previewRankedProvider(s, e)]
    BY <1>5 DEF insightAttachFastestProvRowHandlers, insightAttachDataProviderRowHandlers, Hover,
        previewFastestProvider, previewDataProvider
  <2>. QED BY <2>1, ListsOfRowsNest
<1>6. CASE x \in summaryAttachProviderClickHandlers(s)
  <2>1. PICK e : x = [kind |-> "nested", to |-> previewNestedProvider(s, e)]
    BY <1>6 DEF summaryAttachProviderClickHandlers, Hover
  <2>. QED BY <2>1, ListsOfRowsNest
<1>7. CASE x \in tooltipAttachPeerRowHoverHandlers(s)
  <2>1. PICK p : x = [kind |-> "peer", to |-> previewTooltipPeer(s, p)]
    BY <1>7 DEF tooltipAttachPeerRowHoverHandlers, Hover
  <2>. QED BY <2>1, TooltipsNest
<1>8. CASE x \in showOthersListInDonut(s)
  <2>1. PICK e : x = [kind |-> "item", to |-> previewOthersItem(s, e)]
    BY <1>8 DEF showOthersListInDonut, Hover
  <2>. QED BY <2>1, OthersNest
<1>9. CASE x \in bindSegmentEvents(s)
  <2>1. x.kind = "segment" /\ x.to = s
    BY <1>9 DEF bindSegmentEvents, Hover
  <2>. QED BY <2>1
<1>. QED BY <1>1, <1>2, <1>3, <1>4, <1>5, <1>6, <1>7, <1>8, <1>9 DEF Elements

\* What it restores when it leaves.
LEMMA LeavesNest ==
    ASSUME NEW s, Nested(s), over \in ElementKinds
    PROVE  Nested(left(s))
BY PreviewsNest, ListsOfRowsNest, TooltipsNest, OthersNest, SegmentsNest DEF left, ElementKinds

LayersInvariant == Nested(ui) /\ over \in ElementKinds \cup {None}

\* A handler that leaves a nested dashboard nested keeps the invariant.
LEMMA DoNests ==
    ASSUME LayersInvariant, NEW kinds, NEW s, Nested(s), Do(kinds, s)
    PROVE  LayersInvariant'
BY DEF LayersInvariant, Do, Nested

\* Nothing is open at first.
LEMMA LayersInitially == DistributionInit => LayersInvariant
<1> SUFFICES ASSUME DistributionInit PROVE LayersInvariant
  OBVIOUS
<1>1. over = None
  BY DEF DistributionInit
<1>2. ui.peers \in SUBSET Peers
  BY DistributionAssumption DEF DistributionInit, DistributionAssumption
<1>. QED BY <1>1, <1>2 DEF DistributionInit, LayersInvariant, Nested, Layers

\* Every handler keeps the layers nested.
LEMMA LayersKept ==
    ASSUME LayersInvariant, [DistributionNext]_distributionVars
    PROVE  LayersInvariant'
<1>1. Nested(ui) /\ over \in ElementKinds \cup {None} /\ ui.peers \in SUBSET Peers
  BY DEF LayersInvariant, Nested
<1>2. \A e \in Ranked(ui) : e # None
  <2>1. ui.peers \cap Measured \in SUBSET Peers
    BY <1>1
  <2>. QED BY <2>1, GroupsAreKeys DEF Ranked
<1>3. CASE PointerEnters
  <2>1. PICK x \in Elements(ui) : over' = x.kind /\ ui' = x.to
    BY <1>3 DEF PointerEnters
  <2>. QED BY <1>1, <2>1, ElementsNest DEF LayersInvariant, Nested
<1>4. CASE PointerLeaves
  <2>1. over \in ElementKinds
    BY <1>1, <1>4 DEF PointerLeaves
  <2>. QED BY <1>1, <1>4, <2>1, LeavesNest DEF PointerLeaves, LayersInvariant, Nested
<1>5. CASE PressRow
  <2>1. PICK row \in PanelRows(ui) : Do({RowKind(row)}, ClickRow(ui, row))
    BY <1>5 DEF PressRow
  <2>2. Nested(ClickRow(ui, row))
    BY <1>1, RowsAreRows, ClickRowNests
  <2>. QED BY <2>1, <2>2, DoNests
<1>6. CASE PressLink
  <2>1. PICK l \in Links(ui), e \in Ranked(ui) : Do({"insight"}, ClickLink(ui, l, e))
    BY <1>6 DEF PressLink
  <2>2. l \in Insights \cup {"all-providers"}
    BY DEF Links
  <2>3. Nested(ClickLink(ui, l, e))
    BY <1>1, <2>2, ClickLinkNests
  <2>. QED BY <2>1, <2>3, DoNests
<1>7. CASE PressNav
  <2>1. CASE \E e \in Ranked(ui) : Links(ui) # {} /\ Do({"nav"}, navigateToProvider(ui, e))
    <3>1. PICK e \in Ranked(ui) : Do({"nav"}, navigateToProvider(ui, e))
      BY <2>1
    <3>2. Nested(navigateToProvider(ui, e))
      BY <1>1, <1>2, NavigationNests
    <3>. QED BY <3>1, <3>2, DoNests
  <2>2. CASE \E e \in ListRows(ui) : Do({"nested", "rank"}, navigateToProvider(hideSub(ui), e))
    <3>1. PICK e \in ListRows(ui) : Do({"nested", "rank"}, navigateToProvider(hideSub(ui), e))
      BY <2>2
    <3>2. e # None
      BY <1>1, ListRowsAreProviders
    <3>3. Nested(hideSub(ui))
      BY <1>1, ListsNest
    <3>4. Nested(navigateToProvider(hideSub(ui), e))
      BY <3>2, <3>3, NavigationNests
    <3>. QED BY <3>1, <3>4, DoNests
  <2>. QED BY <1>7, <2>1, <2>2 DEF PressNav
<1>8. CASE PressListRow
  <2>1. PICK e \in ListRows(ui) : \/ Do({"rank", "nested"}, selectNestedProvider(ui, e))
                                  \/ Do({"rank", "nested"}, selectRankedProvider(ui, e))
    BY <1>8 DEF PressListRow, selectDataProvider, selectFastestProvider
  <2>2. Nested(selectNestedProvider(ui, e)) /\ Nested(selectRankedProvider(ui, e))
    BY <1>1, ListsOfRowsNest
  <2>. QED BY <2>1, <2>2, DoNests
<1>9. CASE PressPeer
  <2>1. PICK p : Do({"peer"}, openPeerDetailPanel(ui, p, None))
    BY <1>9 DEF PressPeer, selectSecondaryTooltipPeer, selectPrimaryTooltipPeer
  <2>2. Nested(openPeerDetailPanel(ui, p, None))
    BY <1>1, MapNests
  <2>. QED BY <2>1, <2>2, DoNests
<1>10. CASE PressItem
  <2>1. PICK e \in OthersItems(ui) : Do({"item"}, clickOthersItem(ui, e))
    BY <1>10 DEF PressItem
  <2>2. e # None
    BY <1>1, GroupsAreKeys DEF OthersItems
  <2>3. Nested(clickOthersItem(ui, e))
    BY <1>1, <2>2, OthersNest
  <2>. QED BY <2>1, <2>3, DoNests
<1>11. CASE PressSegment
  <2>1. PICK e \in Segments(ui) : Do({"segment"}, onSegmentClick(ui, e))
    BY <1>11 DEF PressSegment
  <2>2. e # None
    <3>1. lensOf(ui) \in {Provider, Country}
      BY DEF lensOf
    <3>2. None \notin TopGroups(ui.peers, lensOf(ui))
      BY <1>1, <3>1, GroupsAreKeys
    <3>. QED BY <3>2, NoneIsNothing DEF Segments
  <2>3. Nested(onSegmentClick(ui, e))
    BY <1>1, <2>2, SegmentsNest
  <2>. QED BY <2>1, <2>3, DoNests
<1>12. CASE Escape
  <2>1. Nested(onEscape(ui)) /\ Do({over}, onEscape(ui))
    BY <1>1, <1>12, EscapeNests DEF Escape
  <2>. QED BY <2>1, DoNests
<1>13. CASE PressListClose
  <2>1. PICK secondary \in BOOLEAN : Do({}, dismissTooltip(ui, secondary))
    BY <1>13 DEF PressListClose
  <2>2. Nested(dismissTooltip(ui, secondary))
    BY <1>1, EscapeNests
  <2>. QED BY <2>1, <2>2, DoNests
<1>14. CASE PressPanelBlank \/ PressPanelClose
  <2>1. Do({}, dismissPanelTooltips(ui)) \/ Do({}, closeDetailPanel(ui))
    BY <1>14 DEF PressPanelBlank, PressPanelClose
  <2>. QED BY <1>1, <2>1, EscapeNests, DoNests
<1>15. CASE PressOverview
  <2>1. \/ ui.focused /\ Do({}, navigateBack(ui))
        \/ Do({}, enterFocusedMode(ui))
    BY <1>15 DEF PressOverview
  <2>. QED BY <1>1, <2>1, NavigationNests, DoNests
<1>16. CASE PressFocusedClose
  <2>1. Do({}, exitFocusedMode(ui))
    BY <1>16 DEF PressFocusedClose
  <2>. QED BY <1>1, <2>1, NavigationNests, DoNests
<1>17. CASE PressLens
  <2>1. PICK lens : Do({}, setDistributionLens(ui, lens))
    BY <1>17 DEF PressLens
  <2>2. Nested(setDistributionLens(ui, lens))
    BY <1>1, MapNests
  <2>. QED BY <2>1, <2>2, DoNests
<1>18. CASE PressNetwork
  <2>1. PICK net : Do({}, networkChip(ui, net))
    BY <1>18 DEF PressNetwork
  <2>2. Nested(networkChip(ui, net))
    BY <1>1, MapActionsNest
  <2>. QED BY <2>1, <2>2, DoNests
<1>19. CASE PressPrivate
  <2>1. Do({}, enterPrivateNetMode(ui))
    BY <1>19 DEF PressPrivate
  <2>. QED BY <1>1, <2>1, MapActionsNest, DoNests
<1>20. CASE PressMap
  <2>1. PICK p : \/ Do({}, clickMapBlank(ui)) \/ Do({}, selectGroup(ui))
                 \/ Do({}, clickMapPeer(ui, p))
    BY <1>20 DEF PressMap
  <2>2. Nested(clickMapBlank(ui)) /\ Nested(selectGroup(ui)) /\ Nested(clickMapPeer(ui, p))
    BY <1>1, MapActionsNest
  <2>. QED BY <2>1, <2>2, DoNests
<1>21. CASE PressTablePeer \/ PressGroupPeer
  <2>1. PICK p, group : Do({}, selectPeer(ui, p, group)) \/ Do({}, openPeerDetailPanel(ui, p, group))
    BY <1>21 DEF PressTablePeer, PressGroupPeer
  <2>2. Nested(selectPeer(ui, p, group)) /\ Nested(openPeerDetailPanel(ui, p, group))
    BY <1>1, MapActionsNest, MapNests
  <2>. QED BY <2>1, <2>2, DoNests
<1>22. CASE PressGroupClose
  <2>1. Do({}, clearPeerSelection(ui))
    BY <1>22 DEF PressGroupClose
  <2>. QED BY <1>1, <2>1, BeneathKeeps, DoNests
<1>23. CASE PressPopup
  <2>1. ui.popup /\ (Do({}, closePeerPopup(ui)) \/ Do({}, openMultiPeerPopup(ui)))
    BY <1>23 DEF PressPopup
  <2>2. Nested(closePeerPopup(ui)) /\ Nested(openMultiPeerPopup(ui))
    BY <1>1, <2>1, BeneathKeeps, MapActionsNest
  <2>. QED BY <2>1, <2>2, DoNests
<1>24. CASE PressClearFilter
  <2>1. Do({}, clearSelectionChip(ui)) \/ Do({}, clearMapChip(ui))
    BY <1>24 DEF PressClearFilter
  <2>. QED BY <1>1, <2>1, MapActionsNest, DoNests
<1>25. CASE Refresh
  <2>1. PICK P \in Snapshots : ui' = update(ui, P)
    BY <1>25 DEF Refresh
  <2>2. Nested(ui')
    BY <1>1, <2>1, UpdateNests
  <2>3. over' \in {over, None}
    BY <1>25 DEF Refresh
  <2>. QED BY <1>1, <2>2, <2>3 DEF LayersInvariant
<1>26. CASE UNCHANGED distributionVars
  BY <1>26 DEF LayersInvariant, distributionVars, Nested
<1>. QED BY <1>3, <1>4, <1>5, <1>6, <1>7, <1>8, <1>9, <1>10, <1>11, <1>12, <1>13, <1>14, <1>15, <1>16, <1>17, <1>18, <1>19, <1>20, <1>21, <1>22, <1>23, <1>24, <1>25, <1>26 DEF DistributionNext

\* In every reachable state each layer has what it hangs from: the inductive invariant of
\* the distribution, of any peers, snapshots, lenses and any number of segments.
THEOREM LayersInvariance == DistributionSpec => []LayersInvariant
<1>. QED BY LayersInitially, LayersKept, PTL DEF DistributionSpec

\* selection.js, selection-filters.js, tooltips.js: after any clicks, keys and polls the
\* second list has its first, a filter its label, and the popup, the list of a network and
\* the summary the focused mode they were opened in.
THEOREM LayersAreNested == DistributionSpec => []LayersNest
<1>1. LayersInvariant => LayersNest
  BY DEF LayersInvariant, Nested, LayersNest, Open
<1>. QED BY <1>1, LayersInvariance, PTL


\* A press of Escape takes one layer away, and what it opens counts for less.
LEMMA EscapeLowers ==
    ASSUME NEW s, Nested(s), Open(s)
    PROVE  Depth(onEscape(s)) < Depth(s)
<1> DEFINE r == onEscape(s)
           h == hideSub(s)
           b == hideSubSub(s)
<1> SUFFICES Depth(r) < Depth(s)
  OBVIOUS
<1>1. CASE s.popup
  <2>1. r = closePeerPopup(s)
    BY <1>1 DEF onEscape
  <2>2. Beneath(s, r) /\ ~r.popup
    BY <2>1, PiecesBeneath DEF Nested
  <2> HIDE DEF r
  <2>. QED BY <1>1, <2>2 DEF Beneath, Depth
<1>2. CASE ~s.popup /\ s.pin2
  <2>1. \E ids : r \in {b, Show(b, ids)}
    BY <1>2 DEF onEscape
  <2>2. /\ ~r.pin2 /\ r.popup = s.popup /\ r.pin = s.pin /\ r.net = s.net /\ r.summary = s.summary
        /\ r.sel = s.sel /\ r.focused = s.focused
    BY <2>1 DEF Nested, Layers, hideSubSub, Show
  <2> HIDE DEF r
  <2>. QED BY <1>2, <2>2 DEF Depth
<1>3. CASE ~s.popup /\ ~s.pin2 /\ s.pin # None
  <2>1. r \in {summaryClearSummarySubFilter(h), summaryClearSubFilter(h), h}
    BY <1>3 DEF onEscape
  <2> DEFINE Unpinned(m) ==
        /\ Layers \subseteq DOMAIN m
        /\ ~m.pin2 /\ m.popup = s.popup /\ m.pin = None /\ m.net = s.net
        /\ m.summary = s.summary /\ m.sel = s.sel /\ m.focused = s.focused
  <2>2. Unpinned(h)
    BY DEF Nested, Layers, hideSub, hideSubSub
  <2>3. ASSUME NEW m, Unpinned(m)
        PROVE  Unpinned(NoFilter(m)) /\ Unpinned(NoInsight(m)) /\ Unpinned(hideSub(m))
               /\ \A ids : Unpinned(Show(m, ids))
    BY <2>3 DEF Layers, NoFilter, NoInsight, hideSub, hideSubSub, Show
  <2> HIDE DEF Unpinned, h
  <2>4. Unpinned(summaryClearSummarySubFilter(h)) /\ Unpinned(summaryClearSubFilter(h))
    BY <2>2, <2>3 DEF summaryClearSummarySubFilter, summaryClearSubFilter
  <2>5. Unpinned(r)
    BY <2>1, <2>2, <2>4
  <2> HIDE DEF r
  <2>. QED BY <1>3, <2>5 DEF Depth, Unpinned
<1>4. CASE ~s.popup /\ ~s.pin2 /\ s.pin = None /\ s.net # None
  <2> DEFINE l == [s EXCEPT !.net = None, !.sel = None, !.summary = TRUE]
  <2>1. r = Show(openLensSummaryPanel(l), All)
    BY <1>4 DEF onEscape, LeaveNetwork
  <2>2. /\ Layers \subseteq DOMAIN l
        /\ ~l.popup /\ ~l.pin2 /\ l.pin = None /\ l.net = None /\ l.summary /\ l.sel = None /\ l.focused = s.focused
    BY <1>4 DEF Nested, Layers
  <2> HIDE DEF l
  <2>3. /\ ~r.popup /\ ~r.pin2 /\ r.pin = None /\ r.net = None /\ r.summary /\ r.sel = None /\ r.focused = s.focused
    BY <2>1, <2>2 DEF openLensSummaryPanel, ClosedFirst, renderSummary, Show, Layers
  <2> HIDE DEF r
  <2>. QED BY <1>4, <2>3 DEF Depth
<1>5. CASE ~s.popup /\ ~s.pin2 /\ s.pin = None /\ s.net = None
  <2>1. CASE s.summary
    <3>1. r = IF s.focused THEN exitFocusedMode(s) ELSE deselectSummary(s)
      BY <1>5, <2>1 DEF onEscape
    <3>2. s.focused
      BY <2>1 DEF Nested
    <3> DEFINE away == [dismissPeerDetailView(s) EXCEPT !.focused = FALSE, !.net = None, !.others = FALSE, !.rect = FALSE]
    <3>3. r = clearPeerSelection(Show(deselectSummary(away), All))
      BY <2>1, <3>1, <3>2 DEF exitFocusedMode
    <3>4. /\ Layers \subseteq DOMAIN away
          /\ away.summary = s.summary /\ ~away.focused /\ away.net = None /\ ~away.popup /\ away.sel = s.sel
      BY DEF Nested, Layers, dismissPeerDetailView
    <3> HIDE DEF away
    <3>5. ~r.popup /\ ~r.pin2 /\ r.pin = None /\ r.net = None /\ ~r.summary /\ r.sel = s.sel /\ ~r.focused
      BY <2>1, <3>3, <3>4 DEF deselectSummary, closePanel, NoInsight, NoFilter, hideSub, hideSubSub, Show, clearPeerSelection, Layers
    <3> HIDE DEF r
    <3>. QED BY <1>5, <2>1, <3>2, <3>5 DEF Depth
  <2>2. CASE ~s.summary /\ s.sel # None
    <3>1. r = deselect(s)
      BY <1>5, <2>2 DEF onEscape
    <3>2. ~r.popup /\ ~r.pin2 /\ r.pin = None /\ r.net = None /\ ~r.summary /\ r.sel = None /\ r.focused = s.focused
      BY <2>2, <3>1 DEF deselect, closePanel, NoFilter, hideSub, hideSubSub, dismissPeerDetailView, Show, Nested, Layers
    <3> HIDE DEF r
    <3>. QED BY <1>5, <2>2, <3>2 DEF Depth
  <2>3. CASE ~s.summary /\ s.sel = None
    <3>1. r = exitFocusedMode(s) /\ s.focused
      BY <1>5, <2>3 DEF onEscape, Open
    <3>2. ~r.popup /\ ~r.pin2 /\ r.pin = None /\ r.net = None /\ ~r.summary /\ r.sel = None /\ ~r.focused
      BY <1>5, <2>3, <3>1 DEF exitFocusedMode, closePanel, dismissPeerDetailView, clearPeerSelection, Show, Nested, Layers
    <3> HIDE DEF r
    <3>. QED BY <1>5, <2>3, <3>1, <3>2 DEF Depth
  <2>. QED BY <2>1, <2>2, <2>3
<1>. QED BY <1>1, <1>2, <1>3, <1>4, <1>5

\* navigateEscape: every press of Escape that does something leaves less open, so no number
\* of layers and no order in which they were opened traps the user.
THEOREM EscapeTakesLayersAway == DistributionSpec => EscapeDescends
<1>1. LayersInvariant /\ [DistributionNext]_distributionVars => [Escape => Depth(ui') < Depth(ui)]_distributionVars
  BY EscapeLowers DEF LayersInvariant, Escape, Do
<1>. QED BY <1>1, LayersInvariance, PTL DEF DistributionSpec, EscapeDescends

\* A dashboard with all its fields, and nothing else that a comparison could find.
Whole(s) == Layers \subseteq DOMAIN s /\ s = [x \in DOMAIN s |-> s[x]]

\* No stage of a poll changes where the user is, or what the pointer is on.
Stays(s, r) ==
    /\ r.lens = s.lens /\ r.focused = s.focused /\ r.summary = s.summary /\ r.sel = s.sel
    /\ r.net = s.net /\ r.cat = s.cat /\ r.key = s.key /\ r.pin2 = s.pin2
    /\ r.insight = s.insight /\ r.others = s.others /\ r.hovered = s.hovered
    /\ r.pin = None <=> s.pin = None
    /\ r.second = None <=> s.second = None

\* Nor the popup, once it has followed the peers.
Detail(s, r) ==
    /\ r.peers = s.peers /\ r.mapf = s.mapf /\ r.mapGroup = s.mapGroup
    /\ r.popup = s.popup /\ r.peer = s.peer /\ r.group = s.group

\* What reconcileTable computes.
Picked(s) ==
    LET scope == Filtered(s, ScopePeers(s))
    IN  IF s.second # None THEN s.second.ids
        ELSE IF s.cat \in Insights /\ s.insight # None THEN With(scope, Provider, s.insight.prov) ELSE scope
Found(s) == s.peer # None /\ s.peer \in s.peers
Listed(s) ==
    IF s.cat # None \/ s.sel # None \/ s.net # None \/ Found(s) \/ s.second # None
    THEN IF Found(s) /\ s.popup THEN {s.peer} ELSE IF s.hovered \in Picked(s) THEN {s.hovered} ELSE Picked(s)
    ELSE All
Framed(s) == /\ s.insight.type # None /\ Ranked(s) # {}
             /\ \/ s.insight.type = "insight-stable"
                \/ s.insight.prov \in Ranked(s)
\* What refreshPinned takes from the filter.
ListOf(s) == CASE s.cat \in {"summary", "conn-others"} -> "providers"
               [] s.cat \in {"insight-fastest", "insight-data"} -> "ranks"
               [] OTHER -> "peers"
Rows(s) == PanelRows(s) \cup {Row(l, l) : l \in Links(s)}

\* The views after a poll of P, each as its stage leaves it.
MapSettled(s, P) == s.peers = P /\ (s.mapGroup => s.mapf = Site \cap P)
Gone(s) == IF s.peer # None THEN s.peer \notin s.peers ELSE s.popup /\ s.group = {}
DetailSettled(s) == (s.group # None => s.group = AtSite(s)) /\ ~Gone(s)
FilterSettled(s) ==
    LET ids == Filtered(s, ScopePeers(s))
    IN  /\ s.ids = IF s.cat # None THEN ids ELSE None
        /\ s.second # None => s.second.ids = With(ids, Provider, s.second.prov)
PanelSettled(s) ==
    IF s.net # None THEN s.panel = [kind |-> "network", key |-> s.net]
    ELSE IF s.sel = None THEN s.panel = [kind |-> "summary", key |-> s.lens]
    ELSE IF ScopePeers(s) # {}
    THEN findActiveSegmentOrGroup(s, s.sel) # {} => s.panel = [kind |-> "entity", key |-> s.sel]
    ELSE s.panel = [kind |-> "empty", key |-> s.sel]
PinSettled(s) ==
    s.pin # None =>
        /\ s.pin.live => s.pin.row \in Rows(s)
        /\ s.cat # None => /\ s.pin.list = ListOf(s)
                           /\ s.pin.ids = IF ListOf(s) = "ranks" THEN {} ELSE s.ids
TableSettled(s) ==
    /\ s.table = Listed(s)
    /\ (Found(s) /\ s.popup) \/ s.insight = None \/ s.rect = Framed(s)

\* What a function is of equal arguments: scopes, filters, ranks, rows and links.
LEMMA SameScopes ==
    ASSUME NEW s, NEW r, Stays(s, r), r.peers = s.peers
    PROVE  /\ ScopePeers(r) = ScopePeers(s)
           /\ \A scope : Filtered(r, scope) = Filtered(s, scope)
           /\ \A e : findActiveSegmentOrGroup(r, e) = findActiveSegmentOrGroup(s, e)
           /\ Ranked(r) = Ranked(s)
<1>1. \A e : findActiveSegmentOrGroup(r, e) = findActiveSegmentOrGroup(s, e)
  BY DEF findActiveSegmentOrGroup, lensOf, Stays
<1>2. ScopePeers(r) = ScopePeers(s)
  BY <1>1 DEF ScopePeers, Stays
<1>3. Ranked(r) = Ranked(s)
  BY DEF Ranked
<1>4. r.cat = s.cat /\ r.key = s.key
  BY DEF Stays
<1>5. \A scope : Filtered(r, scope) = Filtered(s, scope)
  BY <1>4 DEF Filtered
<1>. QED BY <1>1, <1>2, <1>3, <1>5

\* What panels and links list is the same of dashboards that are alike in what they read.
LEMMA SameRows ==
    ASSUME NEW s, NEW r, Whole(s), Whole(r), Stays(s, r), r.peers = s.peers, r.panel = s.panel
    PROVE  Rows(r) = Rows(s)
<1>1. \A e : findActiveSegmentOrGroup(r, e) = findActiveSegmentOrGroup(s, e)
  BY SameScopes
<1>2. PanelScope(r) = PanelScope(s)
  BY <1>1 DEF PanelScope
<1>3. ASSUME NEW row PROVE RowPeers(r, row) = RowPeers(s, row)
  <2> DEFINE sr == [s EXCEPT !.cat = row.cat, !.key = row.key]
             rr == [r EXCEPT !.cat = row.cat, !.key = row.key]
  <2>1. Stays(sr, rr) /\ rr.peers = sr.peers
    BY DEF Stays, Whole, Layers
  <2>2. Filtered(rr, PanelScope(r)) = Filtered(sr, PanelScope(s))
    BY <1>2, <2>1, SameScopes
  <2>. QED BY <1>1, <2>2 DEF RowPeers
<1>4. PanelRows(r) = PanelRows(s)
  <2>1. r.lens = s.lens
    BY DEF Stays
  <2>2. renderProvider(r) = renderProvider(s) /\ renderCountry(r) = renderCountry(s)
    BY DEF renderProvider, renderCountry, buildConnectionGrid
  <2>3. \A e : /\ renderProviderPanel(r, e) = renderProviderPanel(s, e)
               /\ renderCountryPanel(r, e) = renderCountryPanel(s, e)
               /\ renderNetworkPanelBody(r, e) = renderNetworkPanelBody(s, e)
    BY <1>1 DEF renderProviderPanel, renderCountryPanel, renderNetworkPanelBody, computeNetworkPanelData
  <2>. QED BY <1>3, <2>1, <2>2, <2>3 DEF PanelRows
<1>5. Links(r) = Links(s)
  BY DEF Links, Ranked
<1>. QED BY <1>4, <1>5 DEF Rows

\* Two such stages in turn are one.
LEMMA StaysTwice ==
    ASSUME NEW s, NEW m, NEW r, Stays(s, m), Stays(m, r)
    PROVE  Stays(s, r)
BY DEF Stays

\* What every stage changes, and how it leaves what it changes.
LEMMA MapStage ==
    ASSUME NEW m, Nested(m), NEW P
    PROVE  LET r == reconcileMap(m, P)
           IN  /\ Whole(r) /\ Stays(m, r) /\ MapSettled(r, P)
               /\ r.popup = m.popup /\ r.peer = m.peer
BY DEF reconcileMap, Nested, Layers, Whole, Stays, MapSettled

\* reconcileFilter: the filters are resolved again.
LEMMA FilterStage ==
    ASSUME NEW m, Whole(m), Nested(m)
    PROVE  LET r == reconcileFilter(m)
           IN  Whole(r) /\ Stays(m, r) /\ Detail(m, r) /\ FilterSettled(r)
<1> DEFINE r == reconcileFilter(m)
           ids == Filtered(m, ScopePeers(m))
           second == IF m.second = None THEN None
                     ELSE [m.second EXCEPT !.ids = With(ids, Provider, m.second.prov)]
<1>1. r = [m EXCEPT !.ids = IF m.cat # None THEN ids ELSE None, !.second = second]
  BY DEF reconcileFilter
<1> HIDE DEF ids
<1>2. m.second # None => /\ second.prov = m.second.prov /\ second.ids = With(ids, Provider, m.second.prov)
                         /\ second # None
  <2>1. m.second # None => m.second \in Seconds
    BY DEF Nested
  <2>2. m.second # None => second \in [prov : {m.second.prov}, ids : {With(ids, Provider, m.second.prov)}]
    BY <2>1 DEF Seconds
  <2>3. Nested(r)
    BY StagesNest
  <2> HIDE DEF second, r
  <2>4. r.second = second /\ r.pin2 = m.pin2
    BY <1>1 DEF Whole, Layers
  <2>5. m.second # None <=> second # None
    BY <2>3, <2>4 DEF Nested
  <2>. QED BY <2>2, <2>5
<1>3. m.second = None => second = None
  OBVIOUS
<1> HIDE DEF second, r
<1>4. Whole(r) /\ Stays(m, r) /\ Detail(m, r)
  BY <1>1, <1>2, <1>3 DEF Whole, Layers, Stays, Detail
<1>5. Filtered(r, ScopePeers(r)) = ids
  BY <1>4, SameScopes DEF Detail, ids
<1>6. FilterSettled(r)
  BY <1>1, <1>2, <1>3, <1>5 DEF FilterSettled, Whole, Layers
<1>. QED BY <1>4, <1>6 DEF r

\* reconcilePanel: the panel is what is explored.
LEMMA PanelStage ==
    ASSUME NEW m, Whole(m)
    PROVE  LET r == reconcilePanel(m)
           IN  /\ Whole(r) /\ Stays(m, r) /\ Detail(m, r) /\ PanelSettled(r)
               /\ r.ids = m.ids /\ r.second = m.second /\ r.pin = m.pin
<1> DEFINE r == reconcilePanel(m)
<1>1. r = m \/ \E x : r = [m EXCEPT !.panel = x]
  BY DEF reconcilePanel, renderSummary, renderPanel
<1>2. /\ Whole(r) /\ Stays(m, r) /\ Detail(m, r)
      /\ r.ids = m.ids /\ r.second = m.second /\ r.pin = m.pin
  BY <1>1 DEF Whole, Layers, Stays, Detail
<1>3. ScopePeers(r) = ScopePeers(m) /\ findActiveSegmentOrGroup(r, r.sel) = findActiveSegmentOrGroup(m, m.sel)
  BY <1>2, SameScopes DEF Detail, Stays
<1>4. r.net = m.net /\ r.sel = m.sel /\ r.lens = m.lens
  BY <1>2 DEF Stays
<1>5. PanelSettled(r)
  BY <1>3, <1>4 DEF PanelSettled, reconcilePanel, renderSummary, renderPanel, Whole, Layers
<1>. QED BY <1>2, <1>5

\* refreshPinned: a pinned list has its row while that is there.
LEMMA PinStage ==
    ASSUME NEW m, Whole(m), Nested(m)
    PROVE  LET r == refreshPinned(m)
           IN  /\ Whole(r) /\ Stays(m, r) /\ Detail(m, r) /\ PinSettled(r)
               /\ r.ids = m.ids /\ r.second = m.second /\ r.panel = m.panel
<1> DEFINE r == refreshPinned(m)
           live == m.pin.live /\ m.pin.row \in Rows(m)
           pin == IF m.cat = None THEN [m.pin EXCEPT !.live = live]
                  ELSE [m.pin EXCEPT !.live = live, !.list = ListOf(m),
                                     !.ids = IF ListOf(m) = "ranks" THEN {} ELSE m.ids]
<1>1. r = IF m.pin = None THEN m ELSE [m EXCEPT !.pin = pin]
  BY DEF refreshPinned, Rows, ListOf
<1>2. m.pin # None => m.pin \in Pins
  BY DEF Nested
<1>3. m.pin # None => /\ pin.row = m.pin.row /\ pin.live = live
                      /\ m.cat # None => /\ pin.list = ListOf(m)
                                         /\ pin.ids = IF ListOf(m) = "ranks" THEN {} ELSE m.ids
  BY <1>2 DEF Pins
<1>4. m.pin # None => pin # None
  <2>1. r.pin2 = m.pin2 /\ Nested(r)
    BY <1>1, StagesNest DEF Whole, Layers
  <2>2. live \in BOOLEAN
    BY <1>2 DEF Pins
  <2>3. ListOf(m) \in {"peers", "providers", "ranks"}
    BY DEF ListOf
  <2>4. m.cat # None => m.ids \in SUBSET Peers
    BY DEF Nested
  <2> HIDE DEF live
  <2>5. m.pin # None => pin \in Pins
    BY <1>2, <2>2, <2>3, <2>4 DEF Pins
  <2>. QED BY <2>5, NoneIsNothing
<1> HIDE DEF pin, live, r
<1>5. /\ Whole(r) /\ Stays(m, r) /\ Detail(m, r)
      /\ r.ids = m.ids /\ r.second = m.second /\ r.panel = m.panel
  BY <1>1, <1>4 DEF Whole, Layers, Stays, Detail
<1>6. Rows(r) = Rows(m) /\ ListOf(r) = ListOf(m)
  BY <1>5, SameRows DEF Detail, ListOf, Stays
<1>7. r.pin = (IF m.pin = None THEN None ELSE pin) /\ r.cat = m.cat
  BY <1>1, <1>5 DEF Whole, Layers, Stays
<1>8. PinSettled(r)
  BY <1>3, <1>5, <1>6, <1>7 DEF PinSettled, live
<1>. QED BY <1>5, <1>8 DEF r

\* reconcileTable: the table lists what is left.
LEMMA TableStage ==
    ASSUME NEW m, Whole(m)
    PROVE  LET r == reconcileTable(m)
           IN  /\ Whole(r) /\ Stays(m, r) /\ Detail(m, r) /\ TableSettled(r)
               /\ r.ids = m.ids /\ r.second = m.second /\ r.panel = m.panel /\ r.pin = m.pin
<1> DEFINE r == reconcileTable(m)
<1>1. r = IF (Found(m) /\ m.popup) \/ m.insight = None THEN Show(m, Listed(m))
          ELSE [Show(m, Listed(m)) EXCEPT !.rect = Framed(m)]
  BY DEF reconcileTable, Found, Listed, Picked, Framed
<1> HIDE DEF r
<1>2. /\ Whole(r) /\ Stays(m, r) /\ Detail(m, r)
      /\ r.ids = m.ids /\ r.second = m.second /\ r.panel = m.panel /\ r.pin = m.pin
      /\ r.table = Listed(m) /\ ((Found(m) /\ m.popup) \/ m.insight = None \/ r.rect = Framed(m))
  BY <1>1 DEF Show, Whole, Layers, Stays, Detail
<1>3. Filtered(r, ScopePeers(r)) = Filtered(m, ScopePeers(m)) /\ Ranked(r) = Ranked(m)
  BY <1>2, SameScopes DEF Detail
<1>4. Found(r) = Found(m) /\ Framed(r) = Framed(m) /\ Picked(r) = Picked(m)
  BY <1>2, <1>3 DEF Found, Framed, Picked, Stays, Detail
<1>5. Listed(r) = Listed(m)
  BY <1>2, <1>4 DEF Listed, Stays, Detail
<1>. QED BY <1>2, <1>4, <1>5 DEF TableSettled, Stays, Detail, r

\* peers/detail.js update: a popup closes with its peer or the last of its group.
LEMMA DetailStage ==
    ASSUME NEW m, Whole(m), Nested(m)
    PROVE  LET r == updateDetail(m)
           IN  /\ Whole(r) /\ Stays(m, r) /\ DetailSettled(r)
               /\ r.peers = m.peers /\ (r.mapGroup => m.mapGroup /\ r.mapf = m.mapf)
               /\ m.popup /\ (IF m.peer = None THEN AtSite(m) # {} ELSE m.peer \in m.peers) => r.popup
<1> DEFINE g == IF m.group = None THEN m ELSE [m EXCEPT !.group = AtSite(m)]
           r == updateDetail(m)
<1>1. /\ Whole(g) /\ Stays(m, g) /\ g.peers = m.peers /\ g.mapf = m.mapf /\ g.mapGroup = m.mapGroup
      /\ g.popup = m.popup /\ g.peer = m.peer
      /\ g.group = IF m.group = None THEN None ELSE AtSite(m)
  BY DEF Whole, Layers, Stays
<1>2. r = IF Gone(g) THEN closePeerPopup(g) ELSE g
  BY <1>1 DEF updateDetail, Gone
<1>3. m.group = None => g.group # {}
  BY <1>1, NoneIsNothing
<1> HIDE DEF g, r
<1>4. AtSite(g) = AtSite(m)
  BY <1>1 DEF AtSite
<1>5. CASE Gone(g)
  <2> DEFINE d == clearPeerSelection(dismissPeerDetailView(g))
  <2>1. r = d \/ \E ids : r = Show(d, ids)
    BY <1>2, <1>5 DEF closePeerPopup
  <2>2. /\ Whole(d) /\ Stays(g, d) /\ d.peers = g.peers /\ ~d.mapGroup
        /\ ~d.popup /\ d.peer = None /\ d.group = None
    BY <1>1 DEF clearPeerSelection, dismissPeerDetailView, Whole, Layers, Stays
  <2> HIDE DEF d
  <2>3. /\ Whole(r) /\ Stays(g, r) /\ r.peers = g.peers /\ ~r.mapGroup
        /\ ~r.popup /\ r.peer = None /\ r.group = None
    BY <2>1, <2>2 DEF Show, Whole, Layers, Stays
  <2>4. Stays(m, r) /\ DetailSettled(r)
    BY <1>1, <2>3, StaysTwice DEF DetailSettled, Gone
  <2>5. ~(m.popup /\ (IF m.peer = None THEN AtSite(m) # {} ELSE m.peer \in m.peers))
    BY <1>1, <1>3, <1>5 DEF Gone
  <2>. QED BY <1>1, <2>3, <2>4, <2>5 DEF r
<1>6. CASE ~Gone(g)
  <2>1. r = g
    BY <1>2, <1>6
  <2>2. DetailSettled(r)
    BY <1>1, <1>4, <1>6, <2>1 DEF DetailSettled
  <2>. QED BY <1>1, <2>1, <2>2 DEF r
<1>. QED BY <1>5, <1>6

\* The views after a poll of P: all of them, if something is explored.
Settled(s, P) ==
    /\ Whole(s) /\ Nested(s) /\ MapSettled(s, P) /\ DetailSettled(s)
    /\ Explored(s) => FilterSettled(s) /\ PanelSettled(s) /\ PinSettled(s) /\ TableSettled(s)

\* A later stage disturbs nothing of an earlier one.
LEMMA UpdateSettles ==
    ASSUME NEW s, Nested(s), NEW P \in Snapshots
    PROVE  LET r == update(s, P)
           IN  /\ Settled(r, P) /\ Stays(s, r)
               /\ s.popup /\ (IF s.peer = None THEN Site \cap P # {} ELSE s.peer \in P) => r.popup
<1> DEFINE a == reconcileMap(s, P)
           m == updateDetail(a)
           f == reconcileFilter(m)
           p == reconcilePanel(f)
           k == refreshPinned(p)
           r == update(s, P)
<1>1. r = IF Explored(m) THEN reconcileTable(k) ELSE m
  BY DEF update, refreshSelectionViews, Explored
<1>2. /\ Whole(a) /\ Nested(a) /\ Stays(s, a) /\ MapSettled(a, P)
      /\ a.popup = s.popup /\ a.peer = s.peer
  BY MapStage, StagesNest
<1> HIDE DEF a
<1>3. /\ Whole(m) /\ Nested(m) /\ Stays(a, m) /\ DetailSettled(m)
      /\ m.peers = a.peers /\ (m.mapGroup => a.mapGroup /\ m.mapf = a.mapf)
      /\ a.popup /\ (IF a.peer = None THEN AtSite(a) # {} ELSE a.peer \in a.peers) => m.popup
  BY <1>2, DetailStage, StagesNest
<1> HIDE DEF m
<1>4. Stays(s, m) /\ MapSettled(m, P)
  BY <1>2, <1>3, StaysTwice DEF MapSettled
<1>5. s.popup /\ (IF s.peer = None THEN Site \cap P # {} ELSE s.peer \in P) => m.popup
  BY <1>2, <1>3 DEF MapSettled, AtSite
<1>6. CASE ~Explored(m)
  BY <1>1, <1>3, <1>4, <1>5, <1>6 DEF Settled
<1>7. CASE Explored(m)
  <2>1. Whole(f) /\ Nested(f) /\ Stays(m, f) /\ Detail(m, f) /\ FilterSettled(f)
    BY <1>3, FilterStage, StagesNest
  <2> HIDE DEF f
  <2>2. Explored(f)
    BY <1>7, <2>1 DEF Explored, Stays
  <2>3. /\ Whole(p) /\ Nested(p) /\ Stays(f, p) /\ Detail(f, p) /\ PanelSettled(p)
        /\ p.ids = f.ids /\ p.second = f.second
    BY <2>1, <2>2, PanelStage, StagesNest
  <2> HIDE DEF p
  <2>4. /\ Whole(k) /\ Nested(k) /\ Stays(p, k) /\ Detail(p, k) /\ PinSettled(k)
        /\ k.ids = p.ids /\ k.second = p.second /\ k.panel = p.panel
    BY <2>3, PinStage, StagesNest
  <2> HIDE DEF k
  <2>5. /\ Whole(r) /\ Nested(r) /\ Stays(k, r) /\ Detail(k, r) /\ TableSettled(r)
        /\ r.ids = k.ids /\ r.second = k.second /\ r.panel = k.panel /\ r.pin = k.pin
    BY <1>1, <1>7, <2>4, TableStage, StagesNest
  <2> HIDE DEF r
  <2>6. /\ Stays(f, r) /\ Detail(f, r) /\ r.ids = f.ids /\ r.second = f.second
    BY <2>3, <2>4, <2>5, StaysTwice DEF Detail
  <2>7. FilterSettled(r)
    BY <2>1, <2>6, SameScopes DEF FilterSettled, Detail, Stays
  <2>8. Stays(p, r) /\ r.peers = p.peers /\ r.panel = p.panel
    BY <2>4, <2>5, StaysTwice DEF Detail
  <2>9. PanelSettled(r)
    BY <2>3, <2>8, SameScopes DEF PanelSettled, Stays
  <2>10. PinSettled(r)
    BY <2>4, <2>5, SameRows DEF PinSettled, ListOf, Stays, Detail
  <2>11. Stays(m, r) /\ Detail(m, r)
    BY <2>1, <2>6, StaysTwice DEF Detail
  <2>12. MapSettled(r, P) /\ DetailSettled(r) /\ Stays(s, r) /\ (m.popup => r.popup)
    BY <1>3, <1>4, <2>11, StaysTwice DEF Detail, MapSettled, DetailSettled, Gone, AtSite
  <2>. QED BY <1>5, <2>5, <2>7, <2>9, <2>10, <2>12 DEF Settled, r
<1>. QED BY <1>6, <1>7

\* Settled views are what their stages would make them.
LEMMA SettledAgain ==
    ASSUME NEW r, NEW P, Settled(r, P)
    PROVE  update(r, P) = r
<1>1. reconcileMap(r, P) = r
  BY DEF Settled, MapSettled, reconcileMap, Whole, Layers
<1>2. updateDetail(r) = r
  BY DEF Settled, DetailSettled, Gone, updateDetail, Whole, Layers
<1>3. ASSUME Explored(r) PROVE reconcileFilter(r) = r
  <2> DEFINE ids == Filtered(r, ScopePeers(r))
  <2>1. FilterSettled(r)
    BY <1>3 DEF Settled
  <2>2. r.second = None \/ r.second \in Seconds
    BY DEF Settled, Nested
  <2>3. r.second # None => [r.second EXCEPT !.ids = With(ids, Provider, r.second.prov)] = r.second
    BY <2>1, <2>2 DEF FilterSettled, Seconds
  <2>. QED BY <2>1, <2>3 DEF Settled, FilterSettled, reconcileFilter, Whole, Layers
<1>4. ASSUME Explored(r) PROVE reconcilePanel(r) = r
  <2>1. PanelSettled(r)
    BY <1>4 DEF Settled
  <2>. QED BY <2>1 DEF Settled, PanelSettled, reconcilePanel, renderSummary, renderPanel, Whole, Layers
<1>5. ASSUME Explored(r) PROVE refreshPinned(r) = r
  <2> DEFINE live == r.pin.live /\ r.pin.row \in Rows(r)
             pin == IF r.cat = None THEN [r.pin EXCEPT !.live = live]
                    ELSE [r.pin EXCEPT !.live = live, !.list = ListOf(r),
                                       !.ids = IF ListOf(r) = "ranks" THEN {} ELSE r.ids]
  <2>1. refreshPinned(r) = IF r.pin = None THEN r ELSE [r EXCEPT !.pin = pin]
    BY DEF refreshPinned, Rows, ListOf
  <2>2. PinSettled(r)
    BY <1>5 DEF Settled
  <2>3. r.pin # None => r.pin \in Pins
    BY DEF Settled, Nested
  <2>4. r.pin # None => live = r.pin.live
    BY <2>2, <2>3 DEF PinSettled, Pins
  <2> HIDE DEF live
  <2>5. r.pin # None => pin = r.pin
    BY <2>2, <2>3, <2>4 DEF PinSettled, Pins
  <2> HIDE DEF pin
  <2>. QED BY <2>1, <2>5 DEF Settled, Whole, Layers
<1>6. ASSUME Explored(r) PROVE reconcileTable(r) = r
  <2>1. TableSettled(r)
    BY <1>6 DEF Settled
  <2>2. reconcileTable(r) = IF (Found(r) /\ r.popup) \/ r.insight = None THEN Show(r, Listed(r))
                            ELSE [Show(r, Listed(r)) EXCEPT !.rect = Framed(r)]
    BY DEF reconcileTable, Found, Listed, Picked, Framed
  <2>. QED BY <2>1, <2>2 DEF Settled, TableSettled, Show, Whole, Layers
<1>. QED BY <1>1, <1>2, <1>3, <1>4, <1>5, <1>6 DEF update, refreshSelectionViews, Explored

\* The table lists peers that are there.
LEMMA SettledLists ==
    ASSUME NEW r, NEW P, Settled(r, P), Explored(r)
    PROVE  r.table = All \/ r.table \subseteq P
<1> DEFINE scope == ScopePeers(r)
<1>1. r.peers = P /\ r.peers \in SUBSET Peers /\ r.table = Listed(r)
  BY DEF Settled, MapSettled, TableSettled, Nested
<1>2. scope \subseteq P
  BY <1>1 DEF ScopePeers, peersForNetwork, findActiveSegmentOrGroup, EntityPeers, With
<1>3. Filtered(r, scope) \subseteq scope
  <2>1. r.cat = None \/ r.cat \in Cats
    BY DEF Settled, Nested
  <2>2. CASE r.cat = None
    BY <2>2 DEF Filtered
  <2>3. CASE r.cat \in Cats
    BY <2>3, FilterLists
  <2>. QED BY <2>1, <2>2, <2>3
<1>4. r.second # None => r.second.ids \subseteq Filtered(r, scope)
  BY DEF Settled, FilterSettled, With
<1>5. Picked(r) \subseteq P
  BY <1>2, <1>3, <1>4 DEF Picked, With
<1>. QED BY <1>1, <1>5 DEF Listed, Found

\* controller.js update: a poll navigates nowhere, closes no popup whose peers are there,
\* lists nobody who is gone, and polled again changes nothing, for any peers and snapshots.
THEOREM PollsSettle == DistributionSpec => []PollingSettles
<1>1. LayersInvariant => PollingSettles
  <2> SUFFICES ASSUME LayersInvariant, NEW P \in Snapshots
               PROVE  LET s == update(ui, P) IN
                   /\ Place(s) = Place(ui)
                   /\ ui.popup /\ (IF ui.peer = None THEN Site \cap P # {} ELSE ui.peer \in P) => s.popup
                   /\ update(s, P) = s
                   /\ ui.summary \/ ui.sel # None \/ ui.net # None => (s.table = All \/ s.table \subseteq P)
    BY DEF PollingSettles
  <2> DEFINE s == update(ui, P)
  <2>1. /\ Settled(s, P) /\ Stays(ui, s)
        /\ ui.popup /\ (IF ui.peer = None THEN Site \cap P # {} ELSE ui.peer \in P) => s.popup
    BY UpdateSettles DEF LayersInvariant
  <2> HIDE DEF s
  <2>2. Place(s) = Place(ui)
    BY <2>1 DEF Place, Stays
  <2>3. update(s, P) = s
    BY <2>1, SettledAgain
  <2>4. Explored(ui) => s.table = All \/ s.table \subseteq P
    BY <2>1, SettledLists DEF Explored, Stays
  <2>. QED BY <2>1, <2>2, <2>3, <2>4 DEF s, Explored
<1>. QED BY <1>1, LayersInvariance, PTL



=============================================================================
