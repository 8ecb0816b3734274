---------------------------- MODULE SessionPool ----------------------------
(***************************************************************************)
(* What SessionManager promises the message router: a call of getOrCreate  *)
(* is refused only when MaxSessions sessions are in progress; otherwise it *)
(* starts one process at most, returns its handle or rejects, and runs the *)
(* completion callback once, after the process ended and the handle was    *)
(* returned.  Nothing is said of the Map, timers, signals or records.      *)
(***************************************************************************)
EXTENDS Naturals, FiniteSets

CONSTANTS Requests, MaxSessions

VARIABLES
  call,     \* how far getOrCreate is
  status,   \* what became of the process
  told,     \* sessions whose handleSessionDone ran
  stage     \* shutdown(): "up", "draining", "down"

poolVars == <<call, status, told, stage>>

Ended == {"completed", "failed", "interrupted"}

PoolInit ==
  /\ call = [r \in Requests |-> "idle"]
  /\ status = [r \in Requests |-> "none"]
  /\ told = {} /\ stage = "up"

\* Sessions that may hold a slot.
InProgress == {r \in Requests : status[r] # "none" /\ r \notin told}

\* "Returns null only when at global capacity" (manager.ts:80).
Decline(r) ==
  /\ call[r] = "idle"
  /\ Cardinality(InProgress) >= MaxSessions
  /\ call' = [call EXCEPT ![r] = "refused"]
  /\ UNCHANGED <<status, told, stage>>

Accept(r) ==
  /\ call[r] = "idle"
  /\ call' = [call EXCEPT ![r] = "reading"]
  /\ UNCHANGED <<status, told, stage>>

Start(r) ==
  /\ call[r] = "reading"
  /\ call' = [call EXCEPT ![r] = "writing"]
  /\ status' = [status EXCEPT ![r] = "running"]
  /\ UNCHANGED <<told, stage>>

\* The caller gets the handle, or an exception.
Hand(r) ==
  /\ call[r] = "writing"
  /\ call' = [call EXCEPT ![r] = "started"]
  /\ UNCHANGED <<status, told, stage>>

\* Also when no process could be started.
Reject(r) ==
  /\ call[r] \in {"reading", "writing"}
  /\ call' = [call EXCEPT ![r] = "rejected"]
  /\ UNCHANGED <<status, told, stage>>

End(r) ==
  /\ status[r] = "running"
  /\ \E s \in Ended : status' = [status EXCEPT ![r] = s]
  /\ UNCHANGED <<call, told, stage>>

Tell(r) ==
  /\ call[r] = "started" /\ status[r] \in Ended /\ r \notin told
  /\ told' = told \cup {r}
  /\ UNCHANGED <<call, status, stage>>

StartDrain == stage = "up" /\ stage' = "draining" /\ UNCHANGED <<call, status, told>>
EndDrain == stage = "draining" /\ stage' = "down" /\ UNCHANGED <<call, status, told>>

PoolNext ==
  \/ \E r \in Requests :
       \/ Decline(r) \/ Accept(r) \/ Start(r) \/ Hand(r) \/ Reject(r)
       \/ End(r) \/ Tell(r)
  \/ StartDrain \/ EndDrain

PoolSpec == PoolInit /\ [][PoolNext]_poolVars
=============================================================================
