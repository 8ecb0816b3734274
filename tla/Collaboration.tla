--------------------------- MODULE Collaboration ---------------------------
(***************************************************************************)
(* Collaboration (collaboration/manager.ts, collaboration/task-store.ts    *)
(* and the job collaboration-poll): tasks in a directory that the daemons  *)
(* of all pets share.                                                      *)
(*                                                                         *)
(* createAndWait assigns its task to its own pet alone; tasks for several  *)
(* pets, which the polls look for, come from outside.  TaskStore.update    *)
(* reads the file and replaces it an await later, without a lock, so the   *)
(* read and the write are steps of their own.                              *)
(***************************************************************************)
EXTENDS Naturals, FiniteSets

CONSTANTS Pets,
          Called,     \* tasks of createAndWait; the call is named after its task
          Placed,     \* tasks that are put in the directory from outside
          CallerOf,   \* [Called -> Pets]
          AssignedTo, \* [Placed -> SUBSET Pets]
          MaxDeaths   \* bound on the crashes

Tasks == Called \cup Placed

\* Each pet has one poll at a time; each call acts for its pet.
Agents == Pets \cup Called

ASSUME CollaborationAssumption ==
  /\ MaxDeaths \in Nat
  /\ Pets \cap Tasks = {} /\ Called \cap Placed = {}
  /\ CallerOf \in [Called -> Pets] /\ AssignedTo \in [Placed -> SUBSET Pets]

VARIABLES
  task,     \* the file of each task
  agent,    \* what each poll and call is doing
  expired,  \* the tasks whose expiresAt has passed
  deaths,
  runs,     \* how often each pet was asked to do each task
  clobbered \* the tasks of which a change was overwritten, or a start not noted

collabVars == <<task, agent, expired, deaths, runs, clobbered>>

Task == [status : {"pending", "completed", "failed"},
         assigned : [Pets -> {"no", "assigned", "in_progress", "completed", "failed"}],
         results : [Pets -> 0..2]]

\* A task file, and no file.
NewTask(pets) ==
  [status |-> "pending", assigned |-> [p \in Pets |-> IF p \in pets THEN "assigned" ELSE "no"],
   results |-> [p \in Pets |-> 0]]

NoTask == NewTask({})

Exists(t) == task[t] # NoTask

\* task and copy are what it works on; todo is the rest of its list.
Resting(at) == [at |-> at, task |-> "none", copy |-> NoTask, todo |-> {}]

CollabInit ==
  /\ task = [t \in Tasks |-> NoTask]
  /\ agent = [a \in Agents |-> Resting("idle")]
  /\ expired = {} /\ deaths = 0
  /\ runs = [t \in Tasks |-> [p \in Pets |-> 0]] /\ clobbered = {}

PetOfAgent(a) == IF a \in Pets THEN a ELSE CallerOf[a]

Moves(a, at) == agent' = [agent EXCEPT ![a].at = at]

\* A count that stops at "more than once".
OnceMore(n) == IF n < 2 THEN n + 1 ELSE n

-----------------------------------------------------------------------------
(***************************************************************************)
(* TaskStore.update.                                                       *)
(***************************************************************************)

UpdateReads(a, from, at) ==
  /\ agent[a].at = from
  /\ agent' = [agent EXCEPT ![a].at = at, ![a].copy = task[agent[a].task]]
  /\ UNCHANGED <<task, expired, deaths, runs, clobbered>>

\* The file gets the copy that was read, changed; a change made since is lost.
UpdateWrites(a, from, changed, at) ==
  /\ agent[a].at = from
  /\ agent' = [agent EXCEPT ![a].at = at, ![a].copy = NoTask]
  /\ task' = [task EXCEPT ![agent[a].task] = changed]
  /\ clobbered' = IF agent[a].copy = task[agent[a].task] THEN clobbered
                  ELSE clobbered \cup {agent[a].task}

\* The file cannot be read: there is nothing to update, and no error.
UpdateSkipped(a, from, at) ==
  /\ agent[a].at = from /\ Moves(a, at)
  /\ UNCHANGED <<task, expired, deaths>>

\* The write throws, and what was read is forgotten.
UpdateFails(a, from, rest) ==
  /\ agent[a].at = from /\ agent' = [agent EXCEPT ![a] = rest]
  /\ UNCHANGED <<task, expired, deaths, runs, clobbered>>

\* What an error that nobody catches ends: the poll, with its list, or the call.
Thrown(a) == Resting(IF a \in Pets THEN "idle" ELSE "rejected")

WithAssignment(a, status) ==
  [agent[a].copy EXCEPT !.assigned[PetOfAgent(a)] = status]

-----------------------------------------------------------------------------
(***************************************************************************)
(* executeAssignment.                                                      *)
(***************************************************************************)

\* Where the agent goes on: a poll with its list, a call with its wait.
Afterwards(a) == IF a \in Pets THEN "polling" ELSE "waiting"

Runs(a) == runs' = [runs EXCEPT ![agent[a].task][PetOfAgent(a)] = OnceMore(@)]

\* The file is read twice: when the first read finds none, the assignment is left
\* alone; when the update finds none, the executor is started all the same.
MarkReads(a) ==
  \/ UpdateReads(a, "marking", "markread")
  \/ UpdateSkipped(a, "marking", Afterwards(a)) /\ UNCHANGED <<runs, clobbered>>
  \/ /\ UpdateSkipped(a, "marking", "running") /\ Runs(a)
     /\ clobbered' = clobbered \cup {agent[a].task}

\* The assignment is in progress, and the executor is started; nothing catches an
\* error of the write.
MarkWrites(a) ==
  \/ /\ UpdateWrites(a, "markread", WithAssignment(a, "in_progress"), "running")
     /\ Runs(a) /\ UNCHANGED <<expired, deaths>>
  \/ UpdateFails(a, "markread", Thrown(a))

\* The executor ends, or it throws.  It has no time limit.
RunEnds(a) ==
  /\ agent[a].at = "running"
  /\ \/ Moves(a, "storing")
     \/ Moves(a, "failing")
  /\ UNCHANGED <<task, expired, deaths, runs, clobbered>>

StoreReads(a) ==
  \/ UpdateReads(a, "storing", "storeread")
  \/ UpdateSkipped(a, "storing", Afterwards(a)) /\ UNCHANGED <<runs, clobbered>>

\* Mutant: the result replaces those of the other pets.
OnlyOwn(a) ==
  [WithAssignment(a, "completed") EXCEPT
     !.results = [p \in Pets |-> IF p = PetOfAgent(a) THEN 1 ELSE 0]]

WithResult(a) ==
  [WithAssignment(a, "completed") EXCEPT !.results[PetOfAgent(a)] = OnceMore(@)]

\* The result is added; an error of the write counts as one of the executor.
StoreWrites(a) ==
  \/ /\ UpdateWrites(a, "storeread", WithResult(a), Afterwards(a))
     /\ UNCHANGED <<expired, deaths, runs>>
  \/ UpdateFails(a, "storeread", [agent[a] EXCEPT !.at = "failing", !.copy = NoTask])

FailReads(a) ==
  \/ UpdateReads(a, "failing", "failread")
  \/ UpdateSkipped(a, "failing", Afterwards(a)) /\ UNCHANGED <<runs, clobbered>>

FailWrites(a) ==
  \/ /\ UpdateWrites(a, "failread", WithAssignment(a, "failed"), Afterwards(a))
     /\ UNCHANGED <<expired, deaths, runs>>
  \/ UpdateFails(a, "failread", Thrown(a))

-----------------------------------------------------------------------------
(***************************************************************************)
(* pollAndExecute.                                                         *)
(***************************************************************************)

\* Mutant: findForPet does not look at the state of the assignment.
AnyAssigned(p) == {t \in Placed : Exists(t) /\ task[t].assigned[p] # "no"}

\* findForPet, without those that have a result or were created here.  A file that
\* cannot be read is not listed.
ForPet(p) ==
  {t \in Placed : /\ Exists(t) /\ task[t].assigned[p] = "assigned"
                  /\ task[t].status = "pending" /\ task[t].results[p] = 0}

PollStarts(p) ==
  /\ p \in Pets /\ agent[p].at = "idle"
  /\ \E listed \in SUBSET ForPet(p) :
       agent' = [agent EXCEPT ![p] = [Resting("polling") EXCEPT !.todo = listed]]
  /\ UNCHANGED <<task, expired, deaths, runs, clobbered>>

PollTakes(p, t) ==
  /\ p \in Pets /\ agent[p].at = "polling" /\ t \in agent[p].todo
  /\ agent' = [agent EXCEPT ![p].at = "marking", ![p].task = t, ![p].todo = @ \ {t}]
  /\ UNCHANGED <<task, expired, deaths, runs, clobbered>>

\* findExpired: failed tasks are found again at every poll.
ExpiredTasks == {t \in expired : Exists(t) /\ task[t].status # "completed"}

PollFindsExpired(p) ==
  /\ p \in Pets /\ agent[p].at = "polling" /\ agent[p].todo = {}
  /\ \E listed \in SUBSET ExpiredTasks :
       agent' = [agent EXCEPT ![p] = [Resting("expiring") EXCEPT !.todo = listed]]
  /\ UNCHANGED <<task, expired, deaths, runs, clobbered>>

ExpireReads(p, t) ==
  /\ p \in Pets /\ agent[p].at = "expiring" /\ t \in agent[p].todo
  /\ agent' = [agent EXCEPT ![p] = [at |-> "expireread", task |-> t, copy |-> task[t],
                                    todo |-> agent[p].todo \ {t}]]
  /\ UNCHANGED <<task, expired, deaths, runs, clobbered>>

\* A task that cannot be read is left for the next poll, like one that is not listed.
ExpireWrites(p) ==
  \/ /\ UpdateWrites(p, "expireread", [agent[p].copy EXCEPT !.status = "failed"], "expiring")
     /\ UNCHANGED <<expired, deaths, runs>>
  \/ UpdateFails(p, "expireread", Thrown(p))

PollEnds(p) ==
  /\ p \in Pets /\ agent[p].at = "expiring" /\ agent[p].todo = {}
  /\ agent' = [agent EXCEPT ![p] = Resting("idle")]
  /\ UNCHANGED <<task, expired, deaths, runs, clobbered>>

-----------------------------------------------------------------------------
(***************************************************************************)
(* createAndWait, and tasks from outside.                                  *)
(***************************************************************************)

\* The task is written, assigned to the caller; its part is done at once.
Creates(t) ==
  /\ t \in Called /\ agent[t].at = "idle"
  /\ task' = [task EXCEPT ![t] = NewTask({CallerOf[t]})]
  /\ agent' = [agent EXCEPT ![t].at = "marking", ![t].task = t]
  /\ UNCHANGED <<expired, deaths, runs, clobbered>>

\* The task cannot be written.
CreateFails(t) == t \in Called /\ UpdateFails(t, "idle", Thrown(t))

AllDone(t) == \A p \in Pets : task[t].assigned[p] \in {"no", "completed", "failed"}

\* waitForCompletion finds all assignments done: the task is read again, ...
WaitEnds(t) ==
  /\ t \in Called /\ AllDone(t)
  /\ \/ UpdateReads(t, "waiting", "closing")
     \/ UpdateSkipped(t, "waiting", "answered") /\ UNCHANGED <<runs, clobbered>>

\* ... written as completed, and its results, merged, are the answer.
Closes(t) ==
  \/ /\ UpdateWrites(t, "closing", [agent[t].copy EXCEPT !.status = "completed"],
                     "answered")
     /\ UNCHANGED <<expired, deaths, runs>>
  \/ UpdateFails(t, "closing", Thrown(t))

\* Mutant: the wait is for the assignments alone.
NoDeadline(t) == FALSE

DeadlinePassed(t) == t \in expired

\* The deadline, which is not before the expiry: the results there are, or the
\* message that there are none.
WaitTimesOut(t) ==
  /\ t \in Called /\ agent[t].at = "waiting" /\ DeadlinePassed(t)
  /\ agent' = [agent EXCEPT ![t] = Resting("timedout")]
  /\ UNCHANGED <<task, expired, deaths, runs, clobbered>>

\* The file cannot be read: the message that there are no results, at once.
WaitBreaksOff(t) ==
  /\ t \in Called /\ agent[t].at = "waiting"
  /\ agent' = [agent EXCEPT ![t] = Resting("timedout")]
  /\ UNCHANGED <<task, expired, deaths, runs, clobbered>>

Places(t) ==
  /\ t \in Placed /\ ~Exists(t)
  /\ task' = [task EXCEPT ![t] = NewTask(AssignedTo[t])]
  /\ UNCHANGED <<agent, expired, deaths, runs, clobbered>>

Expires(t) ==
  /\ Exists(t) /\ t \notin expired
  /\ expired' = expired \cup {t}
  /\ UNCHANGED <<task, agent, deaths, runs, clobbered>>

\* The daemon of p dies, with its poll and its calls.
Dies(p) ==
  /\ deaths < MaxDeaths /\ deaths' = deaths + 1
  /\ agent' = [a \in Agents |->
                 CASE a = p -> Resting("idle")
                   [] a \in Called /\ PetOfAgent(a) = p /\ agent[a].at # "idle"
                        -> Resting("lost")
                   [] OTHER -> agent[a]]
  /\ UNCHANGED <<task, expired, runs, clobbered>>

-----------------------------------------------------------------------------

\* The steps of executeAssignment but the end of the executor.
Executes(a) ==
  \/ MarkReads(a) \/ MarkWrites(a) \/ StoreReads(a) \/ StoreWrites(a)
  \/ FailReads(a) \/ FailWrites(a)

CallStep(t) == (t \in Called /\ Executes(t)) \/ WaitEnds(t) \/ Closes(t) \/ WaitTimesOut(t)

CollabNext ==
  \/ \E t \in Called : Creates(t) \/ CreateFails(t) \/ CallStep(t) \/ WaitBreaksOff(t)
  \/ \E a \in Agents : RunEnds(a)
  \/ \E p \in Pets : \/ PollStarts(p) \/ PollFindsExpired(p) \/ PollEnds(p)
                     \/ Executes(p) \/ ExpireWrites(p) \/ Dies(p)
                     \/ \E t \in Tasks : PollTakes(p, t) \/ ExpireReads(p, t)
  \/ \E t \in Tasks : Places(t) \/ Expires(t)

CollabSpec == CollabInit /\ [][CollabNext]_collabVars

\* A call goes on, and time passes.  Nothing is assumed of executors, which may never
\* end.
CollabFairness ==
  \A t \in Called : WF_collabVars(CallStep(t)) /\ WF_collabVars(Expires(t))

-----------------------------------------------------------------------------
(***************************************************************************)
(* Properties.                                                             *)
(***************************************************************************)

CollabTypeOK ==
  /\ task \in [Tasks -> Task]
  /\ \A a \in Agents :
       /\ agent[a].at \in {"idle", "marking", "markread", "running", "storing", "storeread",
                           "failing", "failread", "polling", "expiring", "expireread",
                           "waiting", "closing", "answered", "timedout", "rejected", "lost"}
       /\ agent[a].task \in Tasks \cup {"none"} /\ agent[a].copy \in Task
       /\ agent[a].todo \subseteq Tasks
  /\ expired \subseteq Tasks /\ deaths \in 0..MaxDeaths
  /\ runs \in [Tasks -> [Pets -> 0..2]] /\ clobbered \subseteq Tasks

\* Unless two daemons updated the task at once, or the file could not be read when the
\* start was to be noted, no pet does a task twice, whatever polls, failed writes and
\* crashes there are, and the results are those of the assignments that were completed
\* (manager.ts:107, task-store.ts:3).
DoneOnce ==
  \A t \in Tasks \ clobbered, p \in Pets :
    /\ runs[t][p] =< 1
    /\ task[t].results[p] = IF task[t].assigned[p] = "completed" THEN 1 ELSE 0

\* Every call is concluded, with the results, a message or an error, even when what
\* it wrote was overwritten or could not be written (manager.ts:200), unless its
\* executor, for which there is no time limit (manager.ts:165), runs for ever.
Concluded(t) == agent[t].at \in {"answered", "timedout", "rejected", "lost"}

EveryCallAnswered ==
  \A t \in Called :
    (agent[t].at # "idle" ~> Concluded(t)) \/ <>[](agent[t].at = "running")
=============================================================================
