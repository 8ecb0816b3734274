--------------------------- MODULE SessionManager ---------------------------
(***************************************************************************)
(* SessionManager (session/manager.ts): one executor session per message,  *)
(* a cap on how many run, a timeout for each, and shutdown.  JavaScript    *)
(* runs each stretch between two awaits without interruption; an action    *)
(* below is one such stretch.                                              *)
(*                                                                         *)
(* The Map activeSessions goes from `${user}:${channel}:${Date.now()}` to  *)
(* a handle.  Here it is the set of the handles it holds: the key of a     *)
(* handle is <<KeyOf[r], stamp[r]>>, and setting a key removes the handle  *)
(* that was under it.  sessionTimers is the set of those whose timeout is  *)
(* armed, in the same way.                                                 *)
(***************************************************************************)
EXTENDS SessionStore

CONSTANTS KeyOf,         \* the user:channel of each request
          MaxSessions    \* config.maxConcurrentSessions

ASSUME SessionAssumption ==
  /\ IsFiniteSet(Requests)
  /\ KeyOf \in [Requests -> Keys]
  /\ MaxSessions \in Nat \ {0}
  /\ None \notin Requests
  /\ DiskMayFail \in BOOLEAN

VARIABLES
  caller,     \* how far getOrCreate is with each request
  stamp,      \* Date.now() in the session's key; 0 before it has one
  now,        \* Date.now(), as far as stamps can tell
  active,     \* handles in activeSessions
  timers,     \* sessions whose timeout is armed
  grace,      \* handles with a forceKill due 30s after their timeout
  handled,    \* sessions whose handleSessionDone ran
  saving,     \* session id that handleSessionDone is about to store
  phase,      \* shutdown(): "up", "draining", "down"
  awaited,    \* handles shutdown() waits for
  overlapped  \* auxiliary: requests admitted while another read its record

managerVars == <<caller, stamp, now, active, timers, grace, handled, saving,
                 phase, awaited, overlapped>>

vars == <<executorVars, storeVars, managerVars>>

CallerState == {"idle", "refused", "reading", "writing", "started", "rejected"}

Init ==
  /\ ExecutorInit /\ StoreInit
  /\ caller = [r \in Requests |-> "idle"]
  /\ stamp = [r \in Requests |-> 0] /\ now = 1
  /\ active = {} /\ timers = {} /\ grace = {} /\ handled = {}
  /\ saving = [r \in Requests |-> None]
  /\ phase = "up" /\ awaited = {} /\ overlapped = {}

-----------------------------------------------------------------------------
(***************************************************************************)
(* Keys and time.                                                          *)
(***************************************************************************)

\* The sessions under key <<k, t>>; at most one of them is in the Map.
Under(k, t) == {q \in Requests : KeyOf[q] = k /\ stamp[q] = t}

\* activeSessions.get(sessionKey) of the session of r.
Entry(r) == active \cap Under(KeyOf[r], stamp[r])

\* A millisecond after every stamp given so far.  Time only matters to keys,
\* so it stands still until a stamp has used it.
Later == IF \E r \in Requests : stamp[r] = now THEN now + 1 ELSE now

\* Another session of the same user and channel got the same key.
Collided(r) ==
  \E q \in Requests \ {r} : stamp[r] # 0 /\ q \in Under(KeyOf[r], stamp[r])

-----------------------------------------------------------------------------
(***************************************************************************)
(* getOrCreate                                                             *)
(***************************************************************************)

\* Calls between the capacity check and the return of store.read.
Reading == {r \in Requests : caller[r] = "reading"}

\* Mutant: the comparison lets one session too many through.
FullLate == Cardinality(active) > MaxSessions

Full == Cardinality(active) >= MaxSessions

\* At capacity the caller gets null.
Refuse(r) ==
  /\ caller[r] = "idle" /\ Full
  /\ caller' = [caller EXCEPT ![r] = "refused"]
  /\ UNCHANGED <<executorVars, storeVars, stamp, now, active, timers, grace,
                 handled, saving, phase, awaited, overlapped>>

\* Otherwise the call awaits store.read; it holds no slot in the meantime.
Admit(r) ==
  /\ caller[r] = "idle" /\ ~Full
  /\ caller' = [caller EXCEPT ![r] = "reading"]
  /\ overlapped' = IF Reading = {} THEN overlapped ELSE overlapped \cup {r}
  /\ UNCHANGED <<executorVars, storeVars, stamp, now, active, timers, grace,
                 handled, saving, phase, awaited>>

\* The record the new session writes, computed from the one it read.
Counted(k) ==
  IF record[k] = None THEN [count |-> 1, resume |-> None]
                      ELSE [record[k] EXCEPT !.count = @ + 1]

\* Mutant: scheduleTimeout clears the old timer and arms none.
ClearedOnly(r, t) == timers \ Under(KeyOf[r], t)

\* scheduleTimeout: the timer under the same key is cleared first.
Scheduled(r, t) == (timers \ Under(KeyOf[r], t)) \cup {r}

\* store.read returned: spawn, register, arm the timeout, and start the write
\* that the call awaits next.  A second session of the same user and channel in
\* the same millisecond takes over the key.
Register(r) ==
  /\ caller[r] = "reading"
  /\ caller' = [caller EXCEPT ![r] = "writing"]
  /\ Spawn(r)
  /\ \E t \in {now, Later} :
       /\ now' = t
       /\ stamp' = [stamp EXCEPT ![r] = t]
       /\ active' = (active \ Under(KeyOf[r], t)) \cup {r}
       /\ timers' = Scheduled(r, t)
  /\ QueueWrite(KeyOf[r],
                [by |-> r, step |-> "register", rec |-> Counted(KeyOf[r])])
  /\ UNCHANGED <<termSent, killSent, identified, record, grace, handled, saving,
                 phase, awaited, overlapped>>

\* spawn throws before there is a process (its prompt file cannot be written): the
\* call rejects, and nothing is registered.
SpawnThrows(r) ==
  /\ caller[r] = "reading"
  /\ caller' = [caller EXCEPT ![r] = "rejected"]
  /\ UNCHANGED <<executorVars, storeVars, stamp, now, active, timers, grace,
                 handled, saving, phase, awaited, overlapped>>

\* A finished write continues getOrCreate: done.then is attached and the handle
\* returned, or the rejection passed on.
Continue(w, outcome) ==
  caller' = IF w.step = "register" THEN [caller EXCEPT ![w.by] = outcome] ELSE caller

Written(k) ==
  /\ HeadWritten(k)
  /\ Continue(Head(queue[k]), "started")
  /\ UNCHANGED <<executorVars, stamp, now, active, timers, grace, handled, saving,
                 phase, awaited, overlapped>>

WriteFails(k) ==
  /\ HeadFails(k)
  /\ Continue(Head(queue[k]), "rejected")
  /\ UNCHANGED <<executorVars, stamp, now, active, timers, grace, handled, saving,
                 phase, awaited, overlapped>>

-----------------------------------------------------------------------------
(***************************************************************************)
(* The end of a session.                                                   *)
(***************************************************************************)

\* Mutant: the handle is given up only after a success.
FoundIfCompleted(r) == IF child[r] = "completed" THEN Entry(r) ELSE {}

\* Mutant: the lookup uses the base key, which several sessions share.
FoundByBaseKey(r) == {q \in active : KeyOf[q] = KeyOf[r]}

\* The handle that the session's end finds in the Map.  (It also splits the key to
\* find the record, which is of KeyOf[r] when no id has a colon of its own.)
Found(r) == Entry(r)

\* handleSessionDone, which runs only where done.then was attached.  It asks the
\* Map for the handle, so it sees whatever is under the key now.
HandleDone(r) ==
  /\ caller[r] = "started" /\ Exited(r) /\ r \notin handled
  /\ handled' = handled \cup {r}
  /\ active' = active \ Found(r)
  /\ timers' = timers \ Under(KeyOf[r], stamp[r])
  /\ saving' = IF Found(r) \cap identified # {}
               THEN [saving EXCEPT ![r] = CHOOSE q \in Found(r) \cap identified : TRUE]
               ELSE saving
  /\ UNCHANGED <<executorVars, storeVars, caller, stamp, now, grace, phase,
                 awaited, overlapped>>

\* Its store.read returned: write the record back with the session id, if there
\* is one.  Nobody waits for that write.
SaveSessionId(r) ==
  /\ saving[r] # None
  /\ saving' = [saving EXCEPT ![r] = None]
  /\ IF record[KeyOf[r]] = None THEN UNCHANGED queue
     ELSE QueueWrite(KeyOf[r],
            [by |-> r, step |-> "finish",
             rec |-> [record[KeyOf[r]] EXCEPT !.resume = saving[r]]])
  /\ UNCHANGED <<executorVars, record, caller, stamp, now, active, timers, grace,
                 handled, phase, awaited, overlapped>>

\* Mutant: no second timer behind the timeout.
GraceUnused(R) == grace

GraceFor(R) == grace \cup R

\* The timeout of a session: SIGTERM now, SIGKILL after the grace period.
Timeout(r) ==
  /\ r \in timers
  /\ timers' = timers \ {r}
  /\ now' = Later
  /\ termSent' = Terminated(Entry(r))
  /\ grace' = GraceFor(Entry(r))
  /\ UNCHANGED <<child, killSent, identified, storeVars, caller, stamp, active,
                 handled, saving, phase, awaited, overlapped>>

GraceOver(r) ==
  /\ r \in grace
  /\ grace' = grace \ {r}
  /\ killSent' = ForceKilled({r})
  /\ UNCHANGED <<child, termSent, identified, storeVars, caller, stamp, now,
                 active, timers, handled, saving, phase, awaited, overlapped>>

-----------------------------------------------------------------------------
(***************************************************************************)
(* shutdown()                                                              *)
(***************************************************************************)

\* Up to the Promise.race: timers cleared, SIGTERM to all.
BeginShutdown ==
  /\ phase = "up"
  /\ phase' = "draining"
  /\ timers' = {}
  /\ termSent' = Terminated(active)
  /\ awaited' = active
  /\ UNCHANGED <<child, killSent, identified, storeVars, caller, stamp, now,
                 active, grace, handled, saving, overlapped>>

\* Mutant: the race is awaited, and what remains is not killed.
KilledNone(R) == killSent

KilledAtEnd(R) == ForceKilled(R)

\* All awaited sessions ended, or 30 seconds passed: SIGKILL to whatever is in
\* the Map by then.
EndShutdown ==
  /\ phase = "draining"
  /\ phase' = "down"
  /\ now' = IF \A r \in awaited : Exited(r) THEN now ELSE Later
  /\ killSent' = KilledAtEnd(active)
  /\ active' = {}
  /\ UNCHANGED <<child, termSent, identified, storeVars, caller, stamp, timers,
                 grace, handled, saving, awaited, overlapped>>

-----------------------------------------------------------------------------

\* The process prints and ends on its own.
ChildStep(r) ==
  /\ PrintSessionId(r) \/ Exit(r)
  /\ UNCHANGED <<storeVars, managerVars>>

Killed(r) == DieOfSigkill(r) /\ UNCHANGED <<storeVars, managerVars>>

StoreStep(k) == Written(k) \/ WriteFails(k)

\* What happens without a caller: the event loop continues the calls it has,
\* fires timers and callbacks, and the system ends killed processes.
Internal ==
  \/ \E r \in Requests :
       Register(r) \/ SpawnThrows(r) \/ HandleDone(r) \/ SaveSessionId(r)
         \/ Timeout(r) \/ GraceOver(r) \/ Killed(r)
  \/ \E k \in Keys : StoreStep(k)
  \/ EndShutdown

Next ==
  \/ \E r \in Requests : Refuse(r) \/ Admit(r) \/ ChildStep(r)
  \/ BeginShutdown
  \/ Internal

\* File operations return, timers fire, promise callbacks run, a process that
\* got SIGKILL dies.  No internal action happens to a request more than twice,
\* so none waits for ever while others go on.  Nothing makes a process end on
\* its own, and nobody has to call getOrCreate or shutdown.
Fairness == WF_vars(Internal)

Spec == Init /\ [][Next]_vars

FairSpec == Spec /\ Fairness

-----------------------------------------------------------------------------
(***************************************************************************)
(* Properties.                                                             *)
(***************************************************************************)

TypeOK ==
  /\ ExecutorTypeOK /\ StoreTypeOK
  /\ caller \in [Requests -> CallerState]
  /\ stamp \in [Requests -> Nat] /\ now \in Nat \ {0}
  /\ active \in SUBSET Requests /\ timers \in SUBSET Requests
  /\ grace \in SUBSET Requests /\ handled \in SUBSET Requests
  /\ saving \in [Requests -> Requests \cup {None}]
  /\ phase \in {"up", "draining", "down"}
  /\ awaited \in SUBSET Requests /\ overlapped \in SUBSET Requests

\* The check of manager.ts:92 and the registration at manager.ts:121 are an
\* await apart.  The sessions in the Map and the calls on their way to it exceed
\* the limit by no more than the calls that passed the check during that await
\* of another call.
CapacityWithinOverlap ==
  Cardinality(active) + Cardinality(Reading) <= MaxSessions + Cardinality(overlapped)

\* No session in the Map runs unbounded: its timeout is armed, or it was already
\* told to end (manager.ts:122, 245-262 and shutdown).
TimedOrTold ==
  \A r \in active : Running(r) => r \in timers \cup termSent \cup killSent

\* SIGKILL comes after SIGTERM.  Only a session that registered while shutdown
\* was waiting is killed without warning (manager.ts:161-176).
KillAfterTerm ==
  \A r \in killSent : r \in termSent \/ (phase = "down" /\ r \notin awaited)

\* When shutdown returns, every session it found is dead or about to be, unless
\* a session with the same key hid it from the Map (manager.ts:113, 151-180).
ShutdownReachesAll ==
  phase = "down" =>
    \A r \in awaited : Running(r) => r \in killSent \/ Collided(r)

\* The id offered for resumption is of a session of that user and channel that
\* ended (manager.ts:219-231), unless two sessions shared a key.
ResumesEndedSession ==
  \A k \in Keys :
    record[k] # None /\ record[k].resume # None =>
      LET r == record[k].resume
      IN  KeyOf[r] = k /\ (Exited(r) \/ Collided(r))

\* A session leaves the Map because it ended, because shutdown cleared the Map,
\* or because another one had its key (manager.ts:121, 233).
LeavesMapWhenEnded ==
  [][\A r \in active \ active' :
       Exited(r) \/ phase' = "down" \/ Collided(r)']_vars

\* Every session ends, whatever its process does with SIGTERM, and even if its
\* record could not be written, unless it lost its timer to a session with the
\* same key (manager.ts:245-262).
EverySessionEnds ==
  \A r \in Requests : Running(r) ~> (Exited(r) \/ Collided(r))

\* Every slot is given back, except when the write of manager.ts:135 failed:
\* then done.then is never attached (manager.ts:138).
EverySlotReleased ==
  \A r \in Requests :
    r \in active ~> (r \notin active \/ caller[r] = "rejected" \/ Collided(r))

Pool == INSTANCE SessionPool
          WITH call <- caller, status <- child, told <- handled, stage <- phase

\* The manager keeps the router's view of it: null only at capacity, at most one
\* process for a call, the completion callback after the handle was returned
\* (manager.ts:78-148, 209-243).
ImplementsPool == Pool!PoolSpec
=============================================================================
