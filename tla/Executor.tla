----------------------------- MODULE Executor ------------------------------
(***************************************************************************)
(* The child processes behind ExecutorHandle (executor/interface.ts):      *)
(* the claude CLI and, with the same life cycle, the codex CLI.  A request *)
(* spawns at most one child, so the request names its handle.              *)
(***************************************************************************)
EXTENDS FiniteSets

CONSTANTS
  Requests,   \* one per message that may spawn a session
  Outcomes,   \* how processes end here; a component that never looks at the
              \* status is checked with one outcome
  Reporting   \* requests whose process may get as far as its session id

VARIABLES
  child,       \* what became of each request's process
  termSent,    \* handles that sent SIGTERM (child.killed)
  killSent,    \* handles that sent SIGKILL (sigkillSent)
  identified   \* handles that printed a line with their session id

executorVars == <<child, termSent, killSent, identified>>

DoneStatus == {"completed", "failed", "interrupted"}

ASSUME OutcomesAssumption == Outcomes \subseteq DoneStatus /\ Reporting \subseteq Requests

Running(r) == child[r] = "running"
Exited(r)  == child[r] \in DoneStatus

ExecutorInit ==
  /\ child = [r \in Requests |-> "none"]
  /\ termSent = {} /\ killSent = {} /\ identified = {}

Spawn(r) == child' = [child EXCEPT ![r] = "running"]

\* Mutant: the test of child.killed is inverted.
TerminatedIfKilled(R) == termSent \cup {r \in R : Running(r) /\ r \in killSent}

\* kill(): one SIGTERM, and none once any signal was delivered (child.killed).
Terminated(R) == termSent \cup {r \in R : Running(r) /\ r \notin killSent}

\* forceKill(): one SIGKILL.
ForceKilled(R) == killSent \cup {r \in R : Running(r)}

\* The "result" line (claude) or the "thread.started" line (codex).
PrintSessionId(r) ==
  /\ r \in Reporting /\ Running(r) /\ r \notin identified
  /\ identified' = identified \cup {r}
  /\ UNCHANGED <<child, termSent, killSent>>

\* The process ends and `done` resolves.  It may ignore SIGTERM, handle it and
\* exit with any code, or die of it; Ctrl-C in the terminal signals it as well,
\* and a failed spawn is reported as "failed".
Exit(r) ==
  /\ Running(r)
  /\ \E status \in Outcomes : child' = [child EXCEPT ![r] = status]
  /\ UNCHANGED <<termSent, killSent, identified>>

\* No process survives SIGKILL: code null, signal SIGKILL, hence "failed".
DieOfSigkill(r) ==
  /\ r \in killSent /\ Running(r)
  /\ child' = [child EXCEPT ![r] = "failed"]
  /\ UNCHANGED <<termSent, killSent, identified>>

ExecutorTypeOK ==
  /\ child \in [Requests -> {"none", "running"} \cup DoneStatus]
  /\ termSent \in SUBSET Requests
  /\ killSent \in SUBSET Requests
  /\ identified \in SUBSET Requests
=============================================================================
