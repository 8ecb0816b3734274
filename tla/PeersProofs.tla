---------------------------- MODULE PeersProofs -----------------------------
(***************************************************************************)
(* Proofs about what pets do together, collaboration and evaluation, for   *)
(* any number of pets, tasks and sessions, and about all that a pet        *)
(* shares.                                                                 *)
(***************************************************************************)
EXTENDS Peers, ExchangeProofs

-----------------------------------------------------------------------------
(***************************************************************************)
(* Collaboration: an assignment is executed by one agent.                  *)
(***************************************************************************)

Executing == {"marking", "markread", "running", "storing", "storeread", "failing", "failread"}

Agent ==
  [at : {"idle", "polling", "expiring", "expireread", "waiting", "closing", "answered",
         "timedout", "rejected", "lost"} \cup Executing,
   task : Tasks \cup {"none"}, copy : Task, todo : SUBSET Tasks]

CollabTyped ==
  /\ task \in [Tasks -> Task] /\ agent \in [Agents -> Agent]
  /\ expired \subseteq Tasks /\ deaths \in 0..MaxDeaths
  /\ runs \in [Tasks -> [Pets -> 0..2]] /\ clobbered \subseteq Tasks

\* The assignments of a task that nobody began.
Fresh(t, p) == task[t].assigned[p] \in {"no", "assigned"}

\* A poll executes tasks from outside, each on its list once; a call executes its own.
Placement(a) ==
  /\ a \in Pets =>
       /\ agent[a].at \in Executing \cup {"polling"} => agent[a].todo \subseteq Placed
       /\ agent[a].at \in Executing => agent[a].task \in Placed \ agent[a].todo
       /\ agent[a].at \in {"expiring", "expireread"} => agent[a].todo \subseteq expired
       /\ agent[a].at = "expireread" => agent[a].task \in expired
  /\ a \in Called =>
       /\ agent[a].at \in Executing \cup {"waiting", "closing"} => agent[a].task = a
       /\ agent[a].at = "idle" => task[a] = NoTask /\ a \notin expired

\* What an agent is to do is not begun, and what it does is in progress.
Progress(a, t) ==
  /\ agent[a].at \in {"marking", "markread"} /\ agent[a].task = t => Fresh(t, PetOfAgent(a))
  /\ agent[a].at \in Executing \ {"marking", "markread"} /\ agent[a].task = t =>
       task[t].assigned[PetOfAgent(a)] = "in_progress"
  /\ a \in Pets /\ agent[a].at \in Executing \cup {"polling"} /\ t \in agent[a].todo =>
       Fresh(t, a)

\* A pet was asked once to do what is not fresh, and what it completed has its result.
Counted(t) ==
  \A p \in Pets :
    /\ runs[t][p] = IF Fresh(t, p) THEN 0 ELSE 1
    /\ task[t].results[p] = IF task[t].assigned[p] = "completed" THEN 1 ELSE 0

CollabInv ==
  /\ CollabTyped
  /\ \A a \in Agents : Placement(a) /\ \A t \in Tasks \ clobbered : Progress(a, t)
  /\ \A t \in Tasks \ clobbered : Counted(t)

\* Before the first task, all of it holds.
LEMMA CollabInvInit == CollabInit => CollabInv
<1> SUFFICES ASSUME CollabInit PROVE CollabInv
  OBVIOUS
<1>1. NoTask \in Task /\ \A p \in Pets : NoTask.assigned[p] = "no" /\ NoTask.results[p] = 0
  BY DEF NoTask, NewTask, Task
<1>2. CollabTyped
  BY <1>1, CollaborationAssumption DEF CollabInit, CollabTyped, Resting, Agent
<1>3. \A t \in Tasks : task[t] = NoTask /\ Counted(t)
  BY <1>1 DEF CollabInit, Counted, Fresh
<1>4. ASSUME NEW a \in Agents PROVE Placement(a) /\ \A t \in Tasks : Progress(a, t)
  <2>1. agent[a] = Resting("idle") /\ expired = {}
    BY DEF CollabInit
  <2>2. Placement(a)
    BY <1>3, <2>1 DEF Placement, Resting, Executing, Tasks
  <2>3. ASSUME NEW t \in Tasks PROVE Progress(a, t)
    BY <2>1 DEF Progress, Resting, Executing
  <2> QED
    BY <2>2, <2>3
<1> QED
  BY <1>2, <1>3, <1>4 DEF CollabInv

\* The pet of an agent, and two agents that execute one task for one pet.
LEMMA OneExecutes ==
  ASSUME CollabInv, NEW a \in Agents, NEW b \in Agents, agent[a].at \in Executing,
         agent[b].at \in Executing, agent[a].task = agent[b].task, PetOfAgent(a) = PetOfAgent(b)
  PROVE  a = b
<1>1. Placement(a) /\ Placement(b)
  BY DEF CollabInv
<1> QED
  BY <1>1, CollaborationAssumption DEF Placement, Agents, Tasks, PetOfAgent

\* Every agent acts for a pet.
LEMMA PetOfAgentType ==
  ASSUME NEW a \in Agents
  PROVE  PetOfAgent(a) \in Pets
BY CollaborationAssumption DEF Agents, PetOfAgent

\* A step of one agent that changes no task.
LEMMA MoveKeeps ==
  ASSUME CollabInv, NEW a \in Agents, UNCHANGED <<task, expired, deaths, runs, clobbered>>,
         agent' \in [Agents -> Agent], \A b \in Agents \ {a} : agent'[b] = agent[b],
         Placement(a)', \A t \in Tasks \ clobbered : Progress(a, t)'
  PROVE  CollabInv'
<1>1. CollabTyped'
  BY DEF CollabInv, CollabTyped
<1>2. \A t \in Tasks \ clobbered : Counted(t)'
  BY DEF CollabInv, Counted, Fresh
<1>3. ASSUME NEW b \in Agents, b # a PROVE Placement(b)' /\ \A t \in Tasks \ clobbered : Progress(b, t)'
  <2>1. agent'[b] = agent[b]
    BY <1>3
  <2> QED
    BY <2>1 DEF CollabInv, Placement, Progress, Fresh
<1> QED
  BY <1>1, <1>2, <1>3 DEF CollabInv

\* A step of an agent that writes a task.
LEMMA WriteKeeps ==
  ASSUME CollabInv, NEW a \in Agents, NEW t \in Tasks, t = agent[a].task, NEW changed \in Task,
         task' = [task EXCEPT ![t] = changed], UNCHANGED <<expired, deaths>>,
         clobbered' = IF agent[a].copy = task[t] THEN clobbered ELSE clobbered \cup {t},
         agent' \in [Agents -> Agent], \A b \in Agents \ {a} : agent'[b] = agent[b],
         runs' \in [Tasks -> [Pets -> 0..2]], \A u \in Tasks \ {t} : runs'[u] = runs[u],
         agent[a].at \in Executing \cup {"expireread", "closing"},
         a \in Called \/ agent[a].at # "closing",
         a \in Pets \/ agent[a].at # "expireread",
         \A p \in Pets : \/ (agent[a].at \in Executing /\ p = PetOfAgent(a))
                         \/ changed.assigned[p] = agent[a].copy.assigned[p],
         Placement(a)', \A u \in Tasks \ clobbered' : Progress(a, u)',
         t \notin clobbered' => Counted(t)'
  PROVE  CollabInv'
<1> USE CollaborationAssumption
<1>1. CollabTyped'
  <2>1. task' \in [Tasks -> Task] /\ clobbered' \subseteq Tasks
    BY DEF CollabInv, CollabTyped
  <2> QED
    BY <2>1 DEF CollabInv, CollabTyped
<1>2. clobbered \subseteq clobbered' /\ (t \notin clobbered' => agent[a].copy = task[t])
  OBVIOUS
<1>3. /\ \A u \in Tasks \ {t} : task'[u] = task[u] /\ (Counted(u) => Counted(u)')
      /\ task'[t] = changed
  <2>1. \A u \in Tasks \ {t} : task'[u] = task[u]
    OBVIOUS
  <2>2. ASSUME NEW u \in Tasks \ {t}, Counted(u) PROVE Counted(u)'
    BY <2>1, <2>2 DEF Counted, Fresh
  <2>3. task'[t] = changed
    BY DEF CollabInv, CollabTyped
  <2> QED
    BY <2>1, <2>2, <2>3
<1>4. \A u \in Tasks \ clobbered' : Counted(u)'
  BY <1>2, <1>3 DEF CollabInv
<1>5. ASSUME NEW b \in Agents, b # a PROVE Placement(b)'
  <2>1. agent'[b] = agent[b] /\ Placement(b) /\ Placement(a)
    BY <1>5 DEF CollabInv
  <2>2. CASE b \in Called /\ agent[b].at = "idle"
    <3>1. b # t
      BY <1>5, <2>1, <2>2 DEF Placement, Agents, Tasks
    <3> QED
      BY <1>3, <2>1, <2>2, <3>1 DEF Placement, Tasks, Agents, Executing
  <2> QED
    BY <2>1, <2>2 DEF Placement
<1>6. ASSUME NEW b \in Agents, b # a, NEW u \in Tasks \ clobbered' PROVE Progress(b, u)'
  <2>1. agent'[b] = agent[b] /\ Progress(b, u) /\ Placement(b) /\ Placement(a)
    BY <1>2, <1>6 DEF CollabInv
  <2>2. CASE u # t
    BY <1>3, <2>1, <2>2 DEF Progress, Fresh
  <2>3. CASE u = t
    <3>0. PetOfAgent(b) \in Pets
      BY PetOfAgentType
    <3>1. CASE changed.assigned[PetOfAgent(b)] = task[t].assigned[PetOfAgent(b)]
      BY <1>3, <2>1, <2>3, <3>1 DEF Progress, Fresh, PetOfAgent
    <3>2. CASE changed.assigned[PetOfAgent(b)] # task[t].assigned[PetOfAgent(b)]
      <4>1. agent[a].at \in Executing /\ PetOfAgent(b) = PetOfAgent(a)
        BY <1>2, <2>3, <3>0, <3>2
      <4>2. ~(agent[b].at \in Executing /\ agent[b].task = t)
        BY <1>6, <4>1, OneExecutes
      <4>3. ~(b \in Pets /\ agent[b].at \in Executing \cup {"polling"} /\ t \in agent[b].todo)
        BY <1>6, <2>1, <4>1 DEF Placement, PetOfAgent, Agents, Tasks
      <4> QED
        BY <2>1, <2>3, <4>2, <4>3 DEF Progress, Executing
    <3> QED
      BY <3>1, <3>2
  <2> QED
    BY <2>2, <2>3
<1>7. Placement(a)' /\ \A u \in Tasks \ clobbered' : Progress(a, u)'
  OBVIOUS
<1> QED
  BY <1>1, <1>4, <1>5, <1>6, <1>7 DEF CollabInv

\* An agent that reads a task has a copy of it; it goes on executing.
GoesOn(a) ==
  \/ UpdateReads(a, "marking", "markread") \/ UpdateReads(a, "storing", "storeread")
  \/ UpdateReads(a, "failing", "failread") \/ RunEnds(a)
  \/ UpdateFails(a, "storeread", [agent[a] EXCEPT !.at = "failing", !.copy = NoTask])

LEMMA ReadKeeps ==
  ASSUME CollabInv, NEW a \in Agents, GoesOn(a)
  PROVE  CollabInv'
<1>0. Placement(a) /\ agent[a] \in Agent /\ task \in [Tasks -> Task] /\ agent \in [Agents -> Agent]
      /\ NoTask \in Task
  BY DEF CollabInv, CollabTyped, NoTask, NewTask, Task
<1>1. agent[a].at \in Executing /\ agent[a].task \in Tasks
  BY <1>0 DEF GoesOn, RunEnds, UpdateReads, UpdateFails, Executing, Placement, Tasks, Agents
<1>2. /\ UNCHANGED <<task, expired, deaths, runs, clobbered>>
      /\ agent' \in [Agents -> Agent] /\ \A b \in Agents \ {a} : agent'[b] = agent[b]
      /\ agent'[a].task = agent[a].task /\ agent'[a].todo = agent[a].todo
      /\ agent'[a].at \in Executing
      /\ agent'[a].at \in {"marking", "markread"} <=> agent[a].at \in {"marking", "markread"}
  <2>1. task[agent[a].task] \in Task
    BY <1>0, <1>1
  <2>2. CASE UpdateReads(a, "marking", "markread")
    BY <1>0, <2>1, <2>2 DEF UpdateReads, Executing, Agent
  <2>3. CASE UpdateReads(a, "storing", "storeread")
    BY <1>0, <2>1, <2>3 DEF UpdateReads, Executing, Agent
  <2>4. CASE UpdateReads(a, "failing", "failread")
    BY <1>0, <2>1, <2>4 DEF UpdateReads, Executing, Agent
  <2>5. CASE RunEnds(a)
    BY <1>0, <2>5 DEF RunEnds, Moves, Executing, Agent
  <2>6. CASE UpdateFails(a, "storeread", [agent[a] EXCEPT !.at = "failing", !.copy = NoTask])
    BY <1>0, <2>6 DEF UpdateFails, Executing, Agent
  <2> QED
    BY <2>2, <2>3, <2>4, <2>5, <2>6 DEF GoesOn
<1>5. Placement(a)'
  BY <1>0, <1>1, <1>2 DEF Placement, Executing
<1>6. ASSUME NEW t \in Tasks \ clobbered PROVE Progress(a, t)'
  <2>1. Progress(a, t)
    BY DEF CollabInv
  <2> QED
    BY <1>1, <1>2, <2>1 DEF Progress, Fresh
<1> QED
  BY <1>2, <1>5, <1>6, MoveKeeps

\* An agent that finds no task to update goes on with its list or its wait, and one whose
\* write fails gives up.
LeavesOff(a) ==
  \/ /\ \E from \in {"marking", "storing", "failing"} : UpdateSkipped(a, from, Afterwards(a))
     /\ UNCHANGED <<runs, clobbered>>
  \/ \E from \in {"markread", "failread", "expireread", "closing", "idle"} :
       UpdateFails(a, from, Thrown(a))

LEMMA LeaveKeeps ==
  ASSUME CollabInv, NEW a \in Agents, LeavesOff(a)
  PROVE  CollabInv'
<1> USE CollaborationAssumption
<1>1. /\ Placement(a) /\ agent[a] \in Agent /\ agent \in [Agents -> Agent] /\ NoTask \in Task
      /\ a \in Pets <=> a \notin Called
      /\ \A t \in Tasks \ clobbered : Progress(a, t)
  BY DEF CollabInv, CollabTyped, NoTask, NewTask, Task, Agents, Tasks
<1>2. /\ UNCHANGED <<task, expired, deaths, runs, clobbered>>
      /\ \A b \in Agents \ {a} : agent'[b] = agent[b]
  BY <1>1 DEF LeavesOff, UpdateSkipped, UpdateFails, Moves
<1>3. CASE \E from \in {"marking", "storing", "failing"} : UpdateSkipped(a, from, Afterwards(a))
  <2>1. /\ agent' \in [Agents -> Agent] /\ agent[a].at \in Executing
        /\ agent'[a].at = Afterwards(a) /\ agent'[a].task = agent[a].task
        /\ agent'[a].todo = agent[a].todo
    BY <1>1, <1>3 DEF UpdateSkipped, Moves, Agent, Executing, Afterwards
  <2>2. Placement(a)'
    BY <1>1, <1>2, <2>1 DEF Placement, Executing, Afterwards
  <2>3. ASSUME NEW t \in Tasks \ clobbered PROVE Progress(a, t)'
    BY <1>1, <1>2, <2>1 DEF Progress, Executing, Afterwards, Fresh
  <2> QED
    BY <1>2, <2>1, <2>2, <2>3, MoveKeeps
<1>4. CASE \E from \in {"markread", "failread", "expireread", "closing", "idle"} :
             UpdateFails(a, from, Thrown(a))
  <2>1. /\ agent' \in [Agents -> Agent]
        /\ agent'[a].at = IF a \in Pets THEN "idle" ELSE "rejected"
    BY <1>1, <1>4 DEF UpdateFails, Thrown, Resting, Agent
  <2>2. Placement(a)' /\ \A t \in Tasks \ clobbered : Progress(a, t)'
    BY <1>1, <2>1 DEF Placement, Progress, Executing
  <2> QED
    BY <1>2, <2>1, <2>2, MoveKeeps
<1> QED
  BY <1>3, <1>4 DEF LeavesOff

\* An executor that is started without a note of it: nothing is claimed of the task then.
LEMMA BlindKeeps ==
  ASSUME CollabInv, NEW a \in Agents, UpdateSkipped(a, "marking", "running"), Runs(a),
         clobbered' = clobbered \cup {agent[a].task}
  PROVE  CollabInv'
<1>1. /\ Placement(a) /\ agent[a] \in Agent /\ agent \in [Agents -> Agent]
      /\ runs \in [Tasks -> [Pets -> 0..2]] /\ PetOfAgent(a) \in Pets
  BY PetOfAgentType DEF CollabInv, CollabTyped
<1>2. PICK t \in Tasks : t = agent[a].task
  BY <1>1 DEF UpdateSkipped, Placement, Executing, Agents, Tasks
<1>3. /\ UNCHANGED <<task, expired, deaths>> /\ clobbered' = clobbered \cup {t}
      /\ agent' \in [Agents -> Agent] /\ \A b \in Agents \ {a} : agent'[b] = agent[b]
      /\ agent'[a].at = "running" /\ agent'[a].task = t /\ agent'[a].todo = agent[a].todo
      /\ agent[a].at = "marking"
  BY <1>1, <1>2 DEF UpdateSkipped, Moves, Agent, Executing
<1>4. runs' \in [Tasks -> [Pets -> 0..2]] /\ \A u \in Tasks \ {t} : runs'[u] = runs[u]
  BY <1>1, <1>2 DEF Runs, OnceMore
<1>5. CollabTyped'
  BY <1>3, <1>4 DEF CollabInv, CollabTyped
<1>6. ASSUME NEW u \in Tasks \ clobbered' PROVE u # t /\ Counted(u)'
  <2>1. u # t /\ Counted(u)
    BY <1>3, <1>6 DEF CollabInv
  <2> QED
    BY <1>3, <1>4, <2>1 DEF Counted, Fresh
<1>7. ASSUME NEW b \in Agents
      PROVE  Placement(b)' /\ \A u \in Tasks \ clobbered' : Progress(b, u)'
  <2>1. Placement(b) /\ \A u \in Tasks \ clobbered' : Progress(b, u)
    BY <1>3 DEF CollabInv
  <2>2. CASE b # a
    <3>1. agent'[b] = agent[b]
      BY <1>3, <2>2
    <3> QED
      BY <1>3, <2>1, <3>1 DEF Placement, Progress, Fresh
  <2>3. CASE b = a
    <3>1. Placement(b)'
      BY <1>2, <1>3, <2>1, <2>3 DEF Placement, Executing
    <3>2. ASSUME NEW u \in Tasks \ clobbered' PROVE Progress(b, u)'
      BY <1>2, <1>3, <1>6, <2>1, <2>3 DEF Progress, Executing, Fresh
    <3> QED
      BY <3>1, <3>2
  <2> QED
    BY <2>2, <2>3
<1> QED
  BY <1>5, <1>6, <1>7 DEF CollabInv

\* The outcome is written for the assignment that was executed.
LEMMA OutcomeKeeps ==
  ASSUME CollabInv, NEW a \in Agents, MarkWrites(a) \/ StoreWrites(a) \/ FailWrites(a),
         ~LeavesOff(a), ~GoesOn(a)
  PROVE  CollabInv'
<1>0. /\ ~UpdateFails(a, "markread", Thrown(a)) /\ ~UpdateFails(a, "failread", Thrown(a))
      /\ ~UpdateFails(a, "storeread", [agent[a] EXCEPT !.at = "failing", !.copy = NoTask])
  BY DEF LeavesOff, GoesOn
<1>1. PICK t : t = agent[a].task
  OBVIOUS
<1>2. PICK p : p = PetOfAgent(a)
  OBVIOUS
<1>3. PICK copy : copy = agent[a].copy
  OBVIOUS
<1>4. /\ Placement(a) /\ agent[a] \in Agent /\ task \in [Tasks -> Task] /\ agent \in [Agents -> Agent]
      /\ runs \in [Tasks -> [Pets -> 0..2]] /\ p \in Pets /\ copy \in Task
  BY <1>2, <1>3, PetOfAgentType DEF CollabInv, CollabTyped, Agent
<1>5. agent[a].at \in {"markread", "storeread", "failread"} /\ t \in Tasks
      /\ (a \in Pets => t \in Placed /\ t \notin agent[a].todo) /\ (a \in Called => t = a)
  BY <1>0, <1>1, <1>4 DEF MarkWrites, StoreWrites, FailWrites, UpdateWrites, Executing, Placement, Tasks,
     Agents
<1>6a. \E status \in {"in_progress", "completed", "failed"}, changed \in Task, n \in 0..2 :
        /\ changed.assigned[p] = status /\ changed.results[p] = n
        /\ \A q \in Pets \ {p} : /\ changed.assigned[q] = copy.assigned[q]
                                 /\ changed.results[q] = copy.results[q]
        /\ n = IF status = "completed" THEN OnceMore(copy.results[p]) ELSE copy.results[p]
        /\ status = "in_progress" <=> agent[a].at = "markread"
        /\ agent' = [agent EXCEPT ![a] = [agent[a] EXCEPT
             !.at = IF status = "in_progress" THEN "running" ELSE Afterwards(a), !.copy = NoTask]]
        /\ task' = [task EXCEPT ![t] = changed]
        /\ status = "in_progress" => runs' = [runs EXCEPT ![t][p] = OnceMore(@)]
        /\ status # "in_progress" => runs' = runs
  <2>0. copy.results[p] \in 0..2 /\ OnceMore(copy.results[p]) \in 0..2
    BY <1>4 DEF Task, OnceMore
  <2>1. CASE MarkWrites(a)
    <3>1. PICK changed : changed = WithAssignment(a, "in_progress")
      OBVIOUS
    <3>2. /\ changed \in Task /\ changed.assigned[p] = "in_progress" /\ changed.results[p] = copy.results[p]
          /\ \A q \in Pets \ {p} : /\ changed.assigned[q] = copy.assigned[q]
                                   /\ changed.results[q] = copy.results[q]
      BY <1>2, <1>3, <1>4, <2>0, <3>1 DEF WithAssignment, Task
    <3>3. /\ agent' = [agent EXCEPT ![a].at = "running", ![a].copy = NoTask]
          /\ task' = [task EXCEPT ![t] = changed]
      BY <1>0, <1>1, <2>1, <3>1 DEF MarkWrites, UpdateWrites
    <3>4. agent' = [agent EXCEPT ![a] = [agent[a] EXCEPT !.at = "running", !.copy = NoTask]]
      BY <3>3
    <3>5. runs' = [runs EXCEPT ![t][p] = OnceMore(@)] /\ agent[a].at = "markread"
      BY <1>0, <1>1, <1>2, <2>1 DEF MarkWrites, UpdateWrites, Runs
    <3> QED
      BY <2>0, <3>2, <3>3, <3>4, <3>5
  <2>2. CASE StoreWrites(a)
    <3>1. PICK changed : changed = WithResult(a)
      OBVIOUS
    <3>2. /\ changed \in Task /\ changed.assigned[p] = "completed" /\ changed.results[p] = OnceMore(copy.results[p])
          /\ \A q \in Pets \ {p} : /\ changed.assigned[q] = copy.assigned[q]
                                   /\ changed.results[q] = copy.results[q]
      BY <1>2, <1>3, <1>4, <2>0, <3>1 DEF WithAssignment, WithResult, Task
    <3>3. /\ agent' = [agent EXCEPT ![a].at = Afterwards(a), ![a].copy = NoTask]
          /\ task' = [task EXCEPT ![t] = changed]
      BY <1>0, <1>1, <2>2, <3>1 DEF StoreWrites, UpdateWrites
    <3>4. agent' = [agent EXCEPT ![a] = [agent[a] EXCEPT !.at = Afterwards(a), !.copy = NoTask]]
      BY <3>3
    <3>5. runs' = runs /\ agent[a].at # "markread"
      BY <1>0, <1>1, <1>2, <2>2 DEF StoreWrites, UpdateWrites, Runs
    <3> QED
      BY <2>0, <3>2, <3>3, <3>4, <3>5
  <2>3. CASE FailWrites(a)
    <3>1. PICK changed : changed = WithAssignment(a, "failed")
      OBVIOUS
    <3>2. /\ changed \in Task /\ changed.assigned[p] = "failed" /\ changed.results[p] = copy.results[p]
          /\ \A q \in Pets \ {p} : /\ changed.assigned[q] = copy.assigned[q]
                                   /\ changed.results[q] = copy.results[q]
      BY <1>2, <1>3, <1>4, <2>0, <3>1 DEF WithAssignment, Task
    <3>3. /\ agent' = [agent EXCEPT ![a].at = Afterwards(a), ![a].copy = NoTask]
          /\ task' = [task EXCEPT ![t] = changed]
      BY <1>0, <1>1, <2>3, <3>1 DEF FailWrites, UpdateWrites
    <3>4. agent' = [agent EXCEPT ![a] = [agent[a] EXCEPT !.at = Afterwards(a), !.copy = NoTask]]
      BY <3>3
    <3>5. runs' = runs /\ agent[a].at # "markread"
      BY <1>0, <1>1, <1>2, <2>3 DEF FailWrites, UpdateWrites, Runs
    <3> QED
      BY <2>0, <3>2, <3>3, <3>4, <3>5
  <2> QED
    BY <2>1, <2>2, <2>3
<1>6. PICK status \in {"in_progress", "completed", "failed"}, changed \in Task, n \in 0..2 :
        /\ changed.assigned[p] = status /\ changed.results[p] = n
        /\ \A q \in Pets \ {p} : /\ changed.assigned[q] = copy.assigned[q]
                                 /\ changed.results[q] = copy.results[q]
        /\ n = IF status = "completed" THEN OnceMore(copy.results[p]) ELSE copy.results[p]
        /\ status = "in_progress" <=> agent[a].at = "markread"
        /\ agent' = [agent EXCEPT ![a] = [agent[a] EXCEPT
             !.at = IF status = "in_progress" THEN "running" ELSE Afterwards(a), !.copy = NoTask]]
        /\ task' = [task EXCEPT ![t] = changed]
        /\ status = "in_progress" => runs' = [runs EXCEPT ![t][p] = OnceMore(@)]
        /\ status # "in_progress" => runs' = runs
  BY <1>6a
<1> DEFINE at == IF status = "in_progress" THEN "running" ELSE Afterwards(a)
<1>7. /\ clobbered' = IF copy = task[t] THEN clobbered ELSE clobbered \cup {t}
      /\ UNCHANGED <<expired, deaths>>
  BY <1>0, <1>1, <1>3 DEF MarkWrites, StoreWrites, FailWrites, UpdateWrites
<1>9. /\ agent' \in [Agents -> Agent] /\ \A b \in Agents \ {a} : agent'[b] = agent[b]
      /\ agent'[a].at = at /\ agent'[a].task = t /\ agent'[a].todo = agent[a].todo
  <2>1. NoTask \in Task
    BY DEF NoTask, NewTask, Task
  <2>2. at \in {"running", "polling", "waiting"}
    BY <1>6 DEF Afterwards
  <2> QED
    BY <1>1, <1>4, <1>6, <2>1, <2>2 DEF Agent, Executing
<1>10. runs' \in [Tasks -> [Pets -> 0..2]] /\ \A u \in Tasks \ {t} : runs'[u] = runs[u]
  BY <1>4, <1>5, <1>6 DEF OnceMore
<1>11. Placement(a)'
  BY <1>4, <1>5, <1>6, <1>9, CollaborationAssumption
     DEF Placement, Executing, Afterwards, Agents, Tasks
<1>12. /\ \A u \in Tasks \ {t} : task'[u] = task[u]
       /\ task'[t] = changed
  BY <1>4, <1>5, <1>6
<1>13. ASSUME NEW u \in Tasks \ clobbered' PROVE Progress(a, u)'
  <2>1. Progress(a, u)
    BY <1>7 DEF CollabInv
  <2>2. CASE u # t
    BY <1>2, <1>4, <1>5, <1>6, <1>9, <1>12, <2>1, <2>2
       DEF Progress, Fresh, Executing, Afterwards
  <2>3. CASE u = t
    BY <1>2, <1>5, <1>6, <1>9, <1>12, <2>3, CollaborationAssumption
       DEF Progress, Executing, Afterwards, PetOfAgent, Agents
  <2> QED
    BY <2>2, <2>3
<1>14. ASSUME t \notin clobbered' PROVE Counted(t)'
  <2>1. copy = task[t] /\ Progress(a, t) /\ Counted(t)
    BY <1>5, <1>7, <1>14 DEF CollabInv
  <2>2. CASE status = "in_progress"
    <3>1. Fresh(t, p) /\ runs[t][p] = 0 /\ copy.results[p] = 0
      BY <1>1, <1>2, <1>4, <1>5, <1>6, <2>1, <2>2 DEF Progress, Counted, Fresh
    <3>2. runs'[t][p] = 1 /\ \A q \in Pets \ {p} : runs'[t][q] = runs[t][q]
      BY <1>4, <1>5, <1>6, <2>2, <3>1 DEF OnceMore
    <3> QED
      BY <1>6, <1>12, <2>1, <2>2, <3>1, <3>2 DEF Counted, Fresh
  <2>3. CASE status # "in_progress"
    <3>1. copy.assigned[p] = "in_progress" /\ runs[t][p] = 1 /\ copy.results[p] = 0
      BY <1>1, <1>2, <1>4, <1>5, <1>6, <2>1, <2>3 DEF Progress, Counted, Fresh, Executing
    <3>2. runs' = runs
      BY <1>6, <2>3
    <3>3. n = IF status = "completed" THEN 1 ELSE 0
      BY <1>6, <3>1 DEF OnceMore
    <3> QED
      BY <1>6, <1>12, <2>1, <2>3, <3>1, <3>2, <3>3 DEF Counted, Fresh
  <2> QED
    BY <2>2, <2>3
<1>15. agent[a].at \in Executing
  BY <1>5 DEF Executing
<1>16. \A q \in Pets : \/ (agent[a].at \in Executing /\ q = PetOfAgent(a))
                       \/ changed.assigned[q] = agent[a].copy.assigned[q]
  BY <1>2, <1>3, <1>6, <1>15
<1>17. /\ clobbered' = IF agent[a].copy = task[t] THEN clobbered ELSE clobbered \cup {t}
       /\ task' = [task EXCEPT ![t] = changed]
       /\ agent[a].at \in Executing \cup {"expireread", "closing"}
       /\ a \in Called \/ agent[a].at # "closing"
       /\ a \in Pets \/ agent[a].at # "expireread"
  BY <1>3, <1>5, <1>6, <1>7, <1>15
<1> HIDE DEF at
<1> QED
  BY <1>1, <1>5, <1>7, <1>9, <1>10, <1>11, <1>13, <1>14, <1>16, <1>17, WriteKeeps

\* An expired task is failed where it is not completed.
LEMMA ExpireWriteKeeps ==
  ASSUME CollabInv, NEW a \in Agents,
         (a \in Pets /\ ExpireWrites(a)) \/ (a \in Called /\ Closes(a)), ~LeavesOff(a)
  PROVE  CollabInv'
<1>0. ~UpdateFails(a, "expireread", Thrown(a)) /\ ~UpdateFails(a, "closing", Thrown(a))
  BY DEF LeavesOff
<1>1. PICK t : t = agent[a].task
  OBVIOUS
<1>2. PICK copy : copy = agent[a].copy
  OBVIOUS
<1>3. /\ Placement(a) /\ agent[a] \in Agent /\ task \in [Tasks -> Task] /\ agent \in [Agents -> Agent]
      /\ runs \in [Tasks -> [Pets -> 0..2]] /\ copy \in Task /\ expired \subseteq Tasks
  BY <1>2 DEF CollabInv, CollabTyped, Agent
<1>4. /\ t \in Tasks /\ agent[a].at \in {"expireread", "closing"}
      /\ (a \in Pets <=> agent[a].at = "expireread") /\ (a \in Called <=> agent[a].at = "closing")
  BY <1>0, <1>1, <1>3, CollaborationAssumption
     DEF ExpireWrites, Closes, UpdateWrites, Placement, Tasks, Agents
<1>5. PICK changed \in Task :
        /\ task' = [task EXCEPT ![t] = changed]
        /\ changed.assigned = copy.assigned /\ changed.results = copy.results
  <2>1. CASE ExpireWrites(a)
    <3>1. PICK changed : changed = [copy EXCEPT !.status = "failed"]
      OBVIOUS
    <3>2. changed \in Task /\ changed.assigned = copy.assigned /\ changed.results = copy.results
      BY <1>3, <3>1 DEF Task
    <3>3. task' = [task EXCEPT ![t] = changed]
      BY <1>0, <1>1, <1>2, <2>1, <3>1 DEF ExpireWrites, UpdateWrites
    <3> QED
      BY <3>2, <3>3
  <2>2. CASE Closes(a)
    <3>1. PICK changed : changed = [copy EXCEPT !.status = "completed"]
      OBVIOUS
    <3>2. changed \in Task /\ changed.assigned = copy.assigned /\ changed.results = copy.results
      BY <1>3, <3>1 DEF Task
    <3>3. task' = [task EXCEPT ![t] = changed]
      BY <1>0, <1>1, <1>2, <2>2, <3>1 DEF Closes, UpdateWrites
    <3> QED
      BY <3>2, <3>3
  <2> QED
    BY <2>1, <2>2
<1>6. /\ clobbered' = IF agent[a].copy = task[t] THEN clobbered ELSE clobbered \cup {t}
      /\ UNCHANGED <<expired, deaths, runs>>
      /\ agent' \in [Agents -> Agent] /\ \A b \in Agents \ {a} : agent'[b] = agent[b]
      /\ agent'[a].at \in {"expiring", "answered"} /\ agent'[a].todo = agent[a].todo
      /\ (a \in Called => agent'[a].at = "answered")
      /\ (a \in Pets => agent[a].at = "expireread")
  <2>1. NoTask \in Task
    BY DEF NoTask, NewTask, Task
  <2>2. CASE ExpireWrites(a)
    <3>1. /\ UpdateWrites(a, "expireread", [agent[a].copy EXCEPT !.status = "failed"], "expiring")
          /\ UNCHANGED <<expired, deaths, runs>>
      BY <1>0, <2>2 DEF ExpireWrites
    <3> QED
      BY <1>1, <1>2, <1>3, <1>4, <2>1, <3>1, CollaborationAssumption
         DEF UpdateWrites, Agent, Tasks, Agents
  <2>3. CASE Closes(a)
    <3>1. /\ UpdateWrites(a, "closing", [agent[a].copy EXCEPT !.status = "completed"], "answered")
          /\ UNCHANGED <<expired, deaths, runs>>
      BY <1>0, <2>3 DEF Closes
    <3> QED
      BY <1>1, <1>2, <1>3, <1>4, <2>1, <3>1, CollaborationAssumption
         DEF UpdateWrites, Agent, Tasks, Agents
  <2> QED
    BY <2>2, <2>3
<1>7. Placement(a)'
  BY <1>3, <1>6 DEF Placement, Executing
<1>8. \A u \in Tasks \ clobbered' : Progress(a, u)'
  BY <1>6 DEF Progress, Executing
<1>9. ASSUME t \notin clobbered' PROVE Counted(t)'
  <2>1. copy = task[t] /\ Counted(t)
    BY <1>2, <1>4, <1>6, <1>9 DEF CollabInv
  <2>2. task'[t] = changed
    BY <1>3, <1>4, <1>5
  <2> QED
    BY <1>5, <1>6, <2>1, <2>2 DEF Counted, Fresh
<1>10. /\ \A q \in Pets : \/ (agent[a].at \in Executing /\ q = PetOfAgent(a))
                          \/ changed.assigned[q] = agent[a].copy.assigned[q]
       /\ agent[a].at \in Executing \cup {"expireread", "closing"}
       /\ a \in Called \/ agent[a].at # "closing"
       /\ a \in Pets \/ agent[a].at # "expireread"
       /\ runs' \in [Tasks -> [Pets -> 0..2]] /\ \A u \in Tasks \ {t} : runs'[u] = runs[u]
  BY <1>2, <1>3, <1>4, <1>5, <1>6
<1> QED
  BY <1>1, <1>4, <1>5, <1>6, <1>7, <1>8, <1>9, <1>10, WriteKeeps

\* A poll goes on to the next task of its list, or ends.
LEMMA PollKeeps ==
  ASSUME CollabInv, NEW p \in Pets,
         \/ PollStarts(p) \/ PollFindsExpired(p) \/ PollEnds(p)
         \/ \E t \in Tasks : PollTakes(p, t) \/ ExpireReads(p, t)
  PROVE  CollabInv'
<1> USE CollaborationAssumption
<1>1. /\ Placement(p) /\ agent[p] \in Agent /\ task \in [Tasks -> Task] /\ agent \in [Agents -> Agent]
      /\ p \in Agents /\ p \notin Called /\ NoTask \in Task /\ PetOfAgent(p) = p
      /\ \A t \in Tasks \ clobbered : Progress(p, t)
  BY DEF CollabInv, CollabTyped, Agents, Tasks, NoTask, NewTask, Task, PetOfAgent
<1>2. /\ UNCHANGED <<task, expired, deaths, runs, clobbered>>
      /\ \A b \in Agents \ {p} : agent'[b] = agent[b]
  BY <1>1 DEF PollStarts, PollFindsExpired, PollEnds, PollTakes, ExpireReads
<1>3. CASE PollStarts(p)
  <2>1. PICK list \in SUBSET ForPet(p) :
               agent' = [agent EXCEPT ![p] = [Resting("polling") EXCEPT !.todo = list]]
    BY <1>3 DEF PollStarts
  <2>2. /\ agent' \in [Agents -> Agent] /\ agent'[p].at = "polling" /\ agent'[p].todo = list
        /\ list \subseteq Placed /\ \A t \in list : Fresh(t, p)
    BY <1>1, <2>1 DEF Resting, Agent, ForPet, Fresh, Tasks
  <2>3. Placement(p)' /\ \A t \in Tasks \ clobbered : Progress(p, t)'
    BY <1>1, <1>2, <2>2 DEF Placement, Progress, Executing, Fresh, PetOfAgent
  <2> QED
    BY <1>1, <1>2, <2>2, <2>3, MoveKeeps
<1>4. CASE PollFindsExpired(p)
  <2>1. PICK list \in SUBSET ExpiredTasks :
               agent' = [agent EXCEPT ![p] = [Resting("expiring") EXCEPT !.todo = list]]
    BY <1>4 DEF PollFindsExpired
  <2>2. /\ agent' \in [Agents -> Agent] /\ agent'[p].at = "expiring" /\ agent'[p].todo = list
        /\ list \subseteq expired
    BY <1>1, <2>1 DEF Resting, Agent, ExpiredTasks, CollabInv, CollabTyped
  <2>3. Placement(p)' /\ \A t \in Tasks \ clobbered : Progress(p, t)'
    BY <1>1, <1>2, <2>2 DEF Placement, Progress, Executing
  <2> QED
    BY <1>1, <1>2, <2>2, <2>3, MoveKeeps
<1>5. CASE PollEnds(p)
  <2>1. agent' \in [Agents -> Agent] /\ agent'[p].at = "idle"
    BY <1>1, <1>5 DEF PollEnds, Resting, Agent
  <2>2. Placement(p)' /\ \A t \in Tasks \ clobbered : Progress(p, t)'
    BY <1>1, <1>2, <2>1 DEF Placement, Progress, Executing
  <2> QED
    BY <1>1, <1>2, <2>1, <2>2, MoveKeeps
<1>6. ASSUME NEW t \in Tasks, PollTakes(p, t) PROVE CollabInv'
  <2>1. /\ agent' \in [Agents -> Agent] /\ agent'[p].at = "marking" /\ agent'[p].task = t
        /\ agent'[p].todo = agent[p].todo \ {t} /\ t \in agent[p].todo /\ agent[p].at = "polling"
    BY <1>1, <1>6 DEF PollTakes, Agent, Executing
  <2>2. Placement(p)'
    BY <1>1, <1>2, <2>1 DEF Placement, Executing
  <2>3. ASSUME NEW u \in Tasks \ clobbered PROVE Progress(p, u)'
    BY <1>1, <1>2, <2>1 DEF Progress, Executing, Fresh, PetOfAgent
  <2> QED
    BY <1>1, <1>2, <2>1, <2>2, <2>3, MoveKeeps
<1>7. ASSUME NEW t \in Tasks, ExpireReads(p, t) PROVE CollabInv'
  <2>1. /\ agent' \in [Agents -> Agent] /\ agent'[p].at = "expireread" /\ agent'[p].task = t
        /\ agent'[p].todo = agent[p].todo \ {t} /\ t \in agent[p].todo /\ agent[p].at = "expiring"
    BY <1>1, <1>7 DEF ExpireReads, Agent
  <2>2. Placement(p)'
    BY <1>1, <1>2, <2>1 DEF Placement, Executing
  <2>3. ASSUME NEW u \in Tasks \ clobbered PROVE Progress(p, u)'
    BY <2>1 DEF Progress, Executing
  <2> QED
    BY <1>1, <1>2, <2>1, <2>2, <2>3, MoveKeeps
<1> QED
  BY <1>3, <1>4, <1>5, <1>6, <1>7

\* A call that waits, or gives up, changes no task.
LEMMA WaitKeeps ==
  ASSUME CollabInv, NEW a \in Called, WaitEnds(a) \/ WaitTimesOut(a) \/ WaitBreaksOff(a)
  PROVE  CollabInv'
<1> USE CollaborationAssumption
<1>1. /\ Placement(a) /\ agent[a] \in Agent /\ task \in [Tasks -> Task] /\ agent \in [Agents -> Agent]
      /\ a \in Agents /\ a \in Tasks /\ a \notin Pets /\ NoTask \in Task
  BY DEF CollabInv, CollabTyped, Agents, Tasks, NoTask, NewTask, Task
<1>2. /\ UNCHANGED <<task, expired, deaths, runs, clobbered>>
      /\ \A b \in Agents \ {a} : agent'[b] = agent[b]
  BY <1>1 DEF WaitEnds, UpdateReads, UpdateSkipped, Moves, WaitTimesOut, WaitBreaksOff
<1>3. /\ agent' \in [Agents -> Agent]
      /\ \/ agent'[a].at = "closing" /\ agent'[a].task = agent[a].task /\ agent[a].at = "waiting"
         \/ agent'[a].at \in {"answered", "timedout"}
  <2>1. CASE UpdateReads(a, "waiting", "closing")
    <3>1. agent[a].task = a
      BY <1>1, <2>1 DEF UpdateReads, Placement
    <3> QED
      BY <1>1, <2>1, <3>1 DEF UpdateReads, Agent
  <2>2. CASE UpdateSkipped(a, "waiting", "answered")
    BY <1>1, <2>2 DEF UpdateSkipped, Moves, Agent
  <2>3. CASE WaitTimesOut(a) \/ WaitBreaksOff(a)
    BY <1>1, <2>3 DEF WaitTimesOut, WaitBreaksOff, Agent, Resting
  <2> QED
    BY <2>1, <2>2, <2>3 DEF WaitEnds
<1>4. Placement(a)' /\ \A u \in Tasks \ clobbered : Progress(a, u)'
  BY <1>1, <1>2, <1>3 DEF Placement, Progress, Executing
<1> QED
  BY <1>1, <1>2, <1>3, <1>4, MoveKeeps

\* Nobody has begun a new task.
LEMMA NewTaskFresh ==
  ASSUME NEW S \in SUBSET Pets
  PROVE  /\ NewTask(S) \in Task /\ NoTask \in Task
         /\ \A p \in Pets : /\ NewTask(S).assigned[p] \in {"no", "assigned"}
                            /\ NewTask(S).results[p] = 0
                            /\ NoTask.assigned[p] = "no" /\ NoTask.results[p] = 0
BY DEF NewTask, NoTask, Task

\* A call creates its task.
LEMMA CreatesKeeps ==
  ASSUME CollabInv, NEW a \in Called, Creates(a)
  PROVE  CollabInv'
<1> USE CollaborationAssumption
<1>1. /\ Placement(a) /\ agent[a] \in Agent /\ task \in [Tasks -> Task] /\ agent \in [Agents -> Agent]
      /\ a \in Agents /\ a \in Tasks /\ a \notin Pets /\ PetOfAgent(a) \in Pets
  BY DEF CollabInv, CollabTyped, Agents, Tasks, PetOfAgent
<1>2. PICK new : new = NewTask({CallerOf[a]})
  OBVIOUS
<1>3. /\ new \in Task /\ \A p \in Pets : new.assigned[p] \in {"no", "assigned"} /\ new.results[p] = 0
      /\ \A p \in Pets : NoTask.assigned[p] = "no" /\ NoTask.results[p] = 0
  BY <1>2, NewTaskFresh
<1>4. /\ task' = [task EXCEPT ![a] = new] /\ task[a] = NoTask /\ a \notin expired
      /\ agent' \in [Agents -> Agent] /\ \A b \in Agents \ {a} : agent'[b] = agent[b]
      /\ agent'[a].at = "marking" /\ agent'[a].task = a
      /\ UNCHANGED <<expired, deaths, runs, clobbered>>
  BY <1>1, <1>2 DEF Creates, Placement, Agent, Executing
<1>5. CollabTyped'
  BY <1>1, <1>3, <1>4 DEF CollabInv, CollabTyped
<1>6. task'[a] = new /\ \A u \in Tasks \ {a} : task'[u] = task[u]
  BY <1>1, <1>4
<1>7. ASSUME NEW u \in Tasks \ clobbered PROVE Counted(u)'
  <2>1. Counted(u)
    BY DEF CollabInv
  <2>2. CASE u = a
    BY <1>3, <1>4, <1>6, <2>1, <2>2 DEF Counted, Fresh
  <2>3. CASE u # a
    BY <1>4, <1>6, <2>1, <2>3 DEF Counted, Fresh
  <2> QED
    BY <2>2, <2>3
<1>8. Placement(a)' /\ \A u \in Tasks \ clobbered : Progress(a, u)'
  BY <1>1, <1>3, <1>4, <1>6 DEF Placement, Progress, Executing, Fresh, PetOfAgent
<1>9. ASSUME NEW b \in Agents, b # a PROVE Placement(b)' /\ \A u \in Tasks \ clobbered : Progress(b, u)'
  <2>1. agent'[b] = agent[b] /\ Placement(b)
    BY <1>4, <1>9 DEF CollabInv
  <2>2. Placement(b)'
    BY <1>4, <1>6, <1>9, <2>1 DEF Placement, Tasks
  <2>3. ASSUME NEW u \in Tasks \ clobbered PROVE Progress(b, u)'
    <3>1. Progress(b, u)
      BY DEF CollabInv
    <3>2. CASE u = a
      BY <1>9, <2>1, <3>1, <3>2 DEF Progress, Placement, Tasks, Agents, Executing
    <3>3. CASE u # a
      BY <1>6, <2>1, <3>1, <3>3 DEF Progress, Fresh
    <3> QED
      BY <3>2, <3>3
  <2> QED
    BY <2>2, <2>3
<1> QED
  BY <1>4, <1>5, <1>7, <1>8, <1>9 DEF CollabInv

\* A task is placed from outside.
LEMMA PlacesKeeps ==
  ASSUME CollabInv, NEW t \in Tasks, Places(t)
  PROVE  CollabInv'
<1> USE CollaborationAssumption
<1>1. PICK new : new = NewTask(AssignedTo[t])
  OBVIOUS
<1>2. /\ new \in Task /\ \A p \in Pets : new.assigned[p] \in {"no", "assigned"} /\ new.results[p] = 0
      /\ \A p \in Pets : NoTask.assigned[p] = "no" /\ NoTask.results[p] = 0
  BY <1>1, NewTaskFresh DEF Places
<1>3. /\ task' = [task EXCEPT ![t] = new] /\ task[t] = NoTask /\ t \in Placed
      /\ UNCHANGED <<agent, expired, deaths, runs, clobbered>>
  BY <1>1 DEF Places, Exists
<1>4. task'[t] = new /\ \A u \in Tasks \ {t} : task'[u] = task[u]
  BY <1>3 DEF CollabInv, CollabTyped
<1>5. CollabTyped'
  BY <1>2, <1>3 DEF CollabInv, CollabTyped
<1>6. ASSUME NEW u \in Tasks \ clobbered PROVE Counted(u)'
  <2>1. Counted(u)
    BY DEF CollabInv
  <2>2. CASE u = t
    BY <1>2, <1>3, <1>4, <2>1, <2>2 DEF Counted, Fresh
  <2>3. CASE u # t
    BY <1>3, <1>4, <2>1, <2>3 DEF Counted, Fresh
  <2> QED
    BY <2>2, <2>3
<1>7. ASSUME NEW b \in Agents PROVE Placement(b)' /\ \A u \in Tasks \ clobbered : Progress(b, u)'
  <2>1. Placement(b) /\ PetOfAgent(b) \in Pets
    BY PetOfAgentType DEF CollabInv
  <2>2. Placement(b)'
    BY <1>3, <1>4, <2>1 DEF Placement, Tasks
  <2>3. ASSUME NEW u \in Tasks \ clobbered PROVE Progress(b, u)'
    <3>1. Progress(b, u)
      BY DEF CollabInv
    <3>2. CASE u = t
      BY <1>2, <1>3, <1>4, <2>1, <3>1, <3>2 DEF Progress, Fresh, PetOfAgent
    <3>3. CASE u # t
      BY <1>3, <1>4, <3>1, <3>3 DEF Progress, Fresh, PetOfAgent
    <3> QED
      BY <3>2, <3>3
  <2> QED
    BY <2>2, <2>3
<1> QED
  BY <1>3, <1>5, <1>6, <1>7 DEF CollabInv

\* Time passes for a task.
LEMMA ExpiresKeeps ==
  ASSUME CollabInv, NEW t \in Tasks, Expires(t)
  PROVE  CollabInv'
<1>1. CollabTyped' /\ \A u \in Tasks \ clobbered : Counted(u)'
  BY DEF CollabInv, CollabTyped, Expires, Counted, Fresh
<1>2. ASSUME NEW b \in Agents PROVE Placement(b)' /\ \A u \in Tasks \ clobbered : Progress(b, u)'
  <2>1. Placement(b)'
    BY DEF CollabInv, Placement, Expires, Exists
  <2>2. \A u \in Tasks \ clobbered : Progress(b, u)'
    BY DEF CollabInv, Progress, Expires, Fresh
  <2> QED
    BY <2>1, <2>2
<1> QED
  BY <1>1, <1>2 DEF CollabInv, Expires

\* A daemon that dies forgets what its agents were doing.
LEMMA DiesKeeps ==
  ASSUME CollabInv, NEW p \in Pets, Dies(p)
  PROVE  CollabInv'
<1> USE CollaborationAssumption
<1>1. UNCHANGED <<task, expired, runs, clobbered>> /\ deaths' \in 0..MaxDeaths
  BY DEF Dies, CollabInv, CollabTyped
<1>2. /\ agent' \in [Agents -> Agent]
      /\ \A b \in Agents : \/ agent'[b] = agent[b]
                           \/ agent'[b].at = "idle" /\ b \in Pets
                           \/ agent'[b].at = "lost"
  <2>1. \A at \in {"idle", "lost"} : Resting(at) \in Agent /\ Resting(at).at = at
    <3>1. NoTask \in Task
      BY DEF NoTask, NewTask, Task
    <3> QED
      BY <3>1 DEF Resting, Agent
  <2>2. agent \in [Agents -> Agent]
    BY DEF CollabInv, CollabTyped
  <2>3. agent' = [a \in Agents |->
                    CASE a = p -> Resting("idle")
                      [] a \in Called /\ PetOfAgent(a) = p /\ agent[a].at # "idle"
                           -> Resting("lost")
                      [] OTHER -> agent[a]]
    BY DEF Dies
  <2>4. ASSUME NEW b \in Agents
        PROVE  /\ agent'[b] \in Agent
               /\ \/ agent'[b] = agent[b]
                  \/ agent'[b].at = "idle" /\ b \in Pets
                  \/ agent'[b].at = "lost"
    <3>1. CASE b = p
      BY <2>1, <2>3, <3>1
    <3>2. CASE b # p /\ b \in Called /\ PetOfAgent(b) = p /\ agent[b].at # "idle"
      BY <2>1, <2>3, <3>2
    <3>3. CASE b # p /\ ~(b \in Called /\ PetOfAgent(b) = p /\ agent[b].at # "idle")
      BY <2>2, <2>3, <3>3
    <3> QED
      BY <3>1, <3>2, <3>3
  <2> QED
    BY <2>3, <2>4
<1>3. CollabTyped' /\ \A u \in Tasks \ clobbered : Counted(u)'
  BY <1>1, <1>2 DEF CollabInv, CollabTyped, Counted, Fresh
<1>4. ASSUME NEW b \in Agents PROVE Placement(b)' /\ \A u \in Tasks \ clobbered : Progress(b, u)'
  <2>1. CASE agent'[b] = agent[b]
    BY <1>1, <2>1 DEF CollabInv, Placement, Progress, Fresh, PetOfAgent
  <2>2. CASE (agent'[b].at = "idle" /\ b \in Pets) \/ agent'[b].at = "lost"
    BY <2>2 DEF Placement, Progress, Executing, Tasks
  <2> QED
    BY <1>2, <2>1, <2>2
<1> QED
  BY <1>1, <1>3, <1>4 DEF CollabInv

\* The invariant holds in every reachable state.
LEMMA CollabInvariant == CollabSpec => []CollabInv
<1>1. CollabInv /\ [CollabNext]_collabVars => CollabInv'
  <2> SUFFICES ASSUME CollabInv, [CollabNext]_collabVars PROVE CollabInv'
    OBVIOUS
  <2>1. CASE UNCHANGED collabVars
    <3>1. CollabTyped' /\ \A t \in Tasks \ clobbered : Counted(t)'
      BY <2>1 DEF CollabInv, collabVars, CollabTyped, Counted, Fresh
    <3>2. ASSUME NEW a \in Agents PROVE Placement(a)' /\ \A t \in Tasks \ clobbered : Progress(a, t)'
      BY <2>1 DEF CollabInv, collabVars, Placement, Progress, Fresh, PetOfAgent
    <3> QED
      BY <2>1, <3>1, <3>2 DEF CollabInv, collabVars
  <2>2. ASSUME NEW a \in Agents, Executes(a) \/ RunEnds(a) PROVE CollabInv'
    <3>1. \/ GoesOn(a) \/ LeavesOff(a)
          \/ /\ UpdateSkipped(a, "marking", "running") /\ Runs(a)
             /\ clobbered' = clobbered \cup {agent[a].task}
          \/ MarkWrites(a) \/ StoreWrites(a) \/ FailWrites(a)
      BY <2>2 DEF Executes, MarkReads, StoreReads, FailReads, GoesOn, LeavesOff
    <3> QED
      BY <3>1, ReadKeeps, LeaveKeeps, BlindKeeps, OutcomeKeeps
  <2>3. ASSUME NEW t \in Called, Creates(t) \/ CreateFails(t) \/ CallStep(t) \/ WaitBreaksOff(t)
        PROVE  CollabInv'
    <3>1. t \in Agents /\ (CreateFails(t) => LeavesOff(t))
      BY DEF Agents, CreateFails, LeavesOff
    <3> QED
      BY <2>2, <2>3, <3>1, CreatesKeeps, WaitKeeps, LeaveKeeps, ExpireWriteKeeps DEF CallStep
  <2>4. ASSUME NEW p \in Pets,
               \/ PollStarts(p) \/ PollFindsExpired(p) \/ PollEnds(p)
               \/ Executes(p) \/ ExpireWrites(p) \/ Dies(p)
               \/ \E t \in Tasks : PollTakes(p, t) \/ ExpireReads(p, t)
        PROVE  CollabInv'
    BY <2>2, <2>4, PollKeeps, LeaveKeeps, ExpireWriteKeeps, DiesKeeps DEF Agents
  <2>5. ASSUME NEW t \in Tasks, Places(t) \/ Expires(t) PROVE CollabInv'
    BY <2>5, PlacesKeeps, ExpiresKeeps
  <2> QED
    BY <2>1, <2>2, <2>3, <2>4, <2>5 DEF CollabNext
<1> QED
  BY <1>1, CollabInvInit, PTL DEF CollabSpec

\* The types of the tasks and of the agents.
THEOREM CollaborationTypeCorrect == CollabSpec => []CollabTypeOK
<1>1. CollabInv => CollabTypeOK
  BY DEF CollabInv, CollabTyped, CollabTypeOK, Agent, Executing
<1> QED
  BY <1>1, CollabInvariant, PTL

\* For any pets and tasks, polls, failed reads and writes and crashes: unless two daemons
\* updated a task at once, or an executor was started for a task that could not be read
\* again, no pet does it twice, and its results are those of the completed assignments
\* (manager.ts:107, task-store.ts:3).
THEOREM DoneOnceAlways == CollabSpec => []DoneOnce
<1>1. CollabInv => DoneOnce
  BY DEF CollabInv, Counted, DoneOnce
<1> QED
  BY <1>1, CollabInvariant, PTL

-----------------------------------------------------------------------------
(***************************************************************************)
(* Evaluation: a request is judged once.                                   *)
(***************************************************************************)

Calls == [at : {"waiting", "counting", "building", "over"}, listed : SUBSET Ended]

Judgements ==
  [at : {"idle", "batch", "marking", "asking", "judging", "cleaning", "clearing"},
   todo : SUBSET Ended, req : Ended \cup {Nothing}]

Started == {r \in Ended : asking[r].at # "waiting"}

EvalTyped ==
  /\ request \in [Ended -> {"none", "pending", "evaluating"}]
  /\ verdict \in [Ended -> Judges \cup {NoJudge}]
  /\ overdue \subseteq Ended /\ falls \in 0..MaxFalls
  /\ asking \in [Ended -> Calls] /\ judge \in [Judges -> Judgements]
  /\ asked \in [Ended -> [Judges -> Nat]] /\ together \in [Judges -> Nat]
  /\ IsFiniteSet(Started)

\* Only a call that is over has filed its request, which it does once.
FiledIsOver == \A r \in Ended : Filed(r) => asking[r].at = "over"

\* A request that was filed and is gone was overdue.
Known(r) == asking[r].at = "over" /\ (Filed(r) \/ r \in overdue)

\* What a pet has before it was filed by another, and it was not asked about it yet; at
\* the executor it is not pending any more.
JudgeOK(p) ==
  /\ judge[p].at \in {"batch", "marking", "asking", "judging"} =>
       \A r \in judge[p].todo : asked[r][p] = 0 /\ EndedOf[r] # p /\ Known(r)
  /\ judge[p].at \in {"marking", "asking"} =>
       /\ judge[p].req \in Ended \ judge[p].todo /\ Known(judge[p].req)
       /\ asked[judge[p].req][p] = 0 /\ EndedOf[judge[p].req] # p
  /\ judge[p].at = "judging" => judge[p].req \in Ended /\ Known(judge[p].req)
  /\ judge[p].at = "asking" => request[judge[p].req] # "pending"
  /\ judge[p].at = "clearing" => judge[p].req \in overdue

\* What a pet was asked about is not pending any more.
AskedOK(r, p) ==
  /\ asked[r][p] > 0 => request[r] # "pending" /\ Known(r)
  /\ asked[r][p] =< IF p = EndedOf[r] THEN 0 ELSE 1

AskedOnce == \A p \in Judges : JudgeOK(p) /\ \A r \in Ended : AskedOK(r, p)

EvalBase == EvalTyped /\ FiledIsOver /\ AskedOnce

-----------------------------------------------------------------------------
(***************************************************************************)
(* The backlog.  The sessions of a pet are ranked in the order in which    *)
(* their counts began.                                                     *)
(***************************************************************************)

Backlog(r) == r \in ActiveRequests /\ Unjudged(r)

Underway(r) == asking[r].at = "building" \/ Backlog(r)

\* The calls of a pet that count or build, and the requests that wait for a verdict.
Live(p) == {r \in Ended : EndedOf[r] = p /\ (asking[r].at = "counting" \/ Underway(r))}

UpTo(rank, z) == {y \in Live(EndedOf[z]) : rank[y] =< rank[z]}

\* Of what began no later than a call, its count lists all but the calls that were under
\* way with it; when the count let it through, few of the listed waited for a verdict.
RankedBy(rank, n) ==
  /\ \A z \in Started : rank[z] < n
  /\ \A z \in Ended : asking[z].at = "counting" =>
       Cardinality(UpTo(rank, z) \ asking[z].listed) =< together[EndedOf[z]]
  /\ \A z \in Ended : Underway(z) =>
       Cardinality(UpTo(rank, z)) =< MaxPending - 1 + together[EndedOf[z]]

Ranked == \E rank \in [Ended -> Nat], n \in Nat : RankedBy(rank, n)

Listing == \A r \in Ended : asking[r].at = "counting" =>
              \A q \in asking[r].listed : asking[q].at = "over" /\ EndedOf[q] = EndedOf[r]

EvalInv == EvalBase /\ Listing /\ Ranked

\* Before the first session ended, all of it holds.
LEMMA EvalBaseInit == EvalInit => EvalBase
<1> SUFFICES ASSUME EvalInit PROVE EvalBase
  OBVIOUS
<1>1. Started = {}
  BY DEF EvalInit, Started, Asks
<1>2. IsFiniteSet(Started)
  BY <1>1, FS_EmptySet
<1>3. EvalTyped
  BY <1>2, EvaluationAssumption DEF EvalInit, EvalTyped, Asks, Judging, Calls, Judgements
<1> QED
  BY <1>3 DEF EvalInit, EvalBase, FiledIsOver, Filed, AskedOnce, JudgeOK, AskedOK, Judging

\* What a step keeps for the pets that do not take part in it.
Undisturbed ==
  /\ overdue \subseteq overdue'
  /\ \A r \in Ended : Known(r) => Known(r)' /\ (request'[r] = "pending" => request[r] = "pending")

\* A pet that takes no part keeps what it has.
LEMMA OtherJudges ==
  ASSUME EvalBase, Undisturbed, NEW q \in Judges, judge'[q] = judge[q],
         \A r \in Ended : asked'[r][q] = asked[r][q]
  PROVE  JudgeOK(q)' /\ \A r \in Ended : AskedOK(r, q)'
<1>1. judge[q] \in Judgements /\ \A r \in Ended : asked[r][q] \in Nat
  BY DEF EvalBase, EvalTyped
<1>2. JudgeOK(q)'
  BY <1>1 DEF EvalBase, AskedOnce, JudgeOK, Undisturbed, Judgements
<1>3. ASSUME NEW r \in Ended PROVE AskedOK(r, q)'
  BY <1>1 DEF EvalBase, AskedOnce, AskedOK, Undisturbed
<1> QED
  BY <1>2, <1>3

\* The calls of maybePublish, and time.
LEMMA CallSteps ==
  ASSUME EvalBase, NEW r \in Ended,
         CountStarts(r) \/ CountEnds(r) \/ Skips(r) \/ Requested(r) \/ RequestExpires(r)
  PROVE  EvalBase' /\ Undisturbed
<1> USE EvaluationAssumption
<1>0. /\ \A q \in Ended \ {r} : asking'[q] = asking[q] /\ request'[q] = request[q]
      /\ UNCHANGED <<judge, asked, verdict, falls>>
      /\ overdue \subseteq overdue'
  BY DEF CountStarts, CountEnds, Skips, Requested, RequestExpires, EvalBase, EvalTyped
<1>1. EvalTyped'
  <2> USE DEF EvalBase, EvalTyped
  <2>0. IsFiniteSet(Started')
    <3>1. Started' \subseteq Started \cup {r}
      BY <1>0 DEF Started
    <3>2. IsFiniteSet(Started \cup {r})
      BY FS_AddElement
    <3> QED
      BY <3>1, <3>2, FS_Subset
  <2>1. CASE CountStarts(r)
    <3>1. asking' \in [Ended -> Calls]
      BY <2>1 DEF CountStarts, Calls, Asks, ActiveRequests
    <3>2. Cardinality(InFlight(EndedOf[r])) \in Nat
      <4>1. InFlight(EndedOf[r]) \subseteq Started
        BY DEF InFlight, Started
      <4> QED
        BY <4>1, FS_Subset, FS_CardinalityType
    <3>3. together' \in [Judges -> Nat]
      BY <2>1, <3>2 DEF CountStarts
    <3> QED
      BY <2>0, <2>1, <3>1, <3>3 DEF CountStarts
  <2>2. CASE CountEnds(r)
    BY <2>0, <2>2 DEF CountEnds, Calls, Asks
  <2>3. CASE Skips(r)
    BY <2>0, <2>3 DEF Skips, Calls, Asks
  <2>4. CASE Requested(r)
    BY <2>0, <2>4 DEF Requested, Calls, Asks
  <2>5. CASE RequestExpires(r)
    BY <2>0, <2>5 DEF RequestExpires
  <2> QED
    BY <2>1, <2>2, <2>3, <2>4, <2>5
<1>2. /\ asking[r].at = "over" => asking'[r].at = "over"
      /\ asking[r].at = "over" => request'[r] = request[r]
      /\ request'[r] # request[r] => asking'[r].at = "over"
      /\ asking'[r].at # "over" => asking[r].at # "over"
  BY DEF CountStarts, CountEnds, Skips, Requested, RequestExpires, EvalBase, EvalTyped, Asks
<1>3. FiledIsOver'
  BY <1>0, <1>2 DEF EvalBase, FiledIsOver, Filed
<1>4. Undisturbed
  BY <1>0, <1>2 DEF Undisturbed, Known, Filed
<1>5. AskedOnce'
  BY <1>0, <1>4, OtherJudges DEF AskedOnce
<1> QED
  BY <1>1, <1>3, <1>4, <1>5 DEF EvalBase

\* The steps of a pet that leave the files alone, and ask nobody.
LEMMA JudgeMoves ==
  ASSUME EvalBase, EvalTyped', NEW p \in Judges,
         UNCHANGED <<request, overdue, asked>>,
         \A q \in Judges \ {p} : judge'[q] = judge[q],
         \A r \in Ended : asking'[r].at = asking[r].at \/ asking'[r].at = "over",
         JudgeOK(p)'
  PROVE  EvalBase' /\ Undisturbed
<1>1. Undisturbed
  BY DEF Undisturbed, Known, Filed
<1>2. FiledIsOver'
  BY DEF EvalBase, FiledIsOver, Filed
<1>3. AskedOnce'
  <2>1. ASSUME NEW q \in Judges, q # p PROVE JudgeOK(q)' /\ \A r \in Ended : AskedOK(r, q)'
    BY <1>1, <2>1, OtherJudges
  <2>2. \A r \in Ended : AskedOK(r, p)'
    BY <1>1 DEF EvalBase, AskedOnce, AskedOK, Undisturbed
  <2> QED
    BY <2>1, <2>2 DEF AskedOnce
<1> QED
  BY <1>1, <1>2, <1>3 DEF EvalBase

\* A pet goes through its batch.
LEMMA MovingSteps ==
  ASSUME EvalBase, NEW p \in Judges,
         \/ JudgeStarts(p) \/ JudgeSaves(p) \/ JudgeFails(p) \/ CleanupStarts(p)
         \/ CleanupClears(p) \/ CleanupEnds(p) \/ JudgeFalls(p)
         \/ \E r \in Ended : JudgeTakes(p, r)
  PROVE  EvalBase' /\ Undisturbed
<1> USE EvaluationAssumption DEF EvalBase, Judging
<1>0. /\ judge[p] \in Judgements /\ JudgeOK(p) /\ Nothing \in Ended \cup {Nothing}
      /\ \A r \in Ended : AskedOK(r, p) /\ asked[r][p] \in Nat
      /\ Started = {r \in Ended : asking[r].at # "waiting"}
  BY DEF EvalTyped, AskedOnce, Started
<1>1. CASE JudgeStarts(p)
  <2>1. PICK batch \in SUBSET PendingFor(p) : judge' = [judge EXCEPT ![p] = Judging("batch", batch, Nothing)]
    BY <1>1 DEF JudgeStarts
  <2>2. EvalTyped'
    BY <1>1, <2>1 DEF JudgeStarts, EvalTyped, Judgements, PendingFor, ActiveRequests, Started
  <2>3. \A r \in batch : asked[r][p] = 0 /\ EndedOf[r] # p /\ Known(r)
    BY <1>0 DEF PendingFor, ActiveRequests, AskedOK, FiledIsOver, Known, Filed
  <2>4. JudgeOK(p)'
    BY <1>0, <1>1, <2>1, <2>3 DEF JudgeStarts, JudgeOK, EvalTyped, Known, Filed
  <2> QED
    BY <1>1, <2>1, <2>2, <2>4, JudgeMoves DEF JudgeStarts, EvalTyped
<1>2. CASE JudgeSaves(p)
  <2>1. EvalTyped'
    BY <1>0, <1>2 DEF JudgeSaves, EvalTyped, Judgements, Started, JudgeOK
  <2>2. JudgeOK(p)'
    BY <1>0, <1>2 DEF JudgeSaves, JudgeOK, EvalTyped, Known, Filed
  <2> QED
    BY <1>2, <2>1, <2>2, JudgeMoves DEF JudgeSaves, EvalTyped
<1>3. CASE JudgeFails(p)
  <2>1. EvalTyped'
    BY <1>0, <1>3 DEF JudgeFails, EvalTyped, Judgements, Started
  <2>2. JudgeOK(p)'
    BY <1>0, <1>3 DEF JudgeFails, JudgeOK, EvalTyped, Known, Filed
  <2> QED
    BY <1>3, <2>1, <2>2, JudgeMoves DEF JudgeFails, EvalTyped
<1>4. CASE CleanupStarts(p)
  <2>1. EvalTyped'
    BY <1>0, <1>4 DEF CleanupStarts, EvalTyped, Judgements, Started
  <2>2. JudgeOK(p)'
    BY <1>0, <1>4 DEF CleanupStarts, JudgeOK, EvalTyped
  <2> QED
    BY <1>4, <2>1, <2>2, JudgeMoves DEF CleanupStarts, EvalTyped
<1>5. CASE CleanupClears(p)
  <2>1. EvalTyped'
    BY <1>0, <1>5 DEF CleanupClears, EvalTyped, Judgements, Started, JudgeOK
  <2>2. JudgeOK(p)'
    BY <1>0, <1>5 DEF CleanupClears, JudgeOK, EvalTyped
  <2> QED
    BY <1>5, <2>1, <2>2, JudgeMoves DEF CleanupClears, EvalTyped
<1>6. CASE CleanupEnds(p)
  <2>1. EvalTyped'
    BY <1>0, <1>6 DEF CleanupEnds, EvalTyped, Judgements, Started
  <2>2. JudgeOK(p)'
    BY <1>0, <1>6 DEF CleanupEnds, JudgeOK, EvalTyped
  <2> QED
    BY <1>6, <2>1, <2>2, JudgeMoves DEF CleanupEnds, EvalTyped
<1>7. CASE JudgeFalls(p)
  <2>1. asking' \in [Ended -> Calls]
    BY <1>7 DEF JudgeFalls, EvalTyped, Calls, Asks
  <2>2. Started' = Started
    BY <1>7 DEF JudgeFalls, Started, InFlight, Asks
  <2>3. EvalTyped'
    BY <1>0, <1>7, <2>1, <2>2 DEF JudgeFalls, EvalTyped, Judgements
  <2>4. JudgeOK(p)'
    BY <1>0, <1>7 DEF JudgeFalls, JudgeOK, EvalTyped
  <2> QED
    BY <1>7, <2>3, <2>4, JudgeMoves DEF JudgeFalls, EvalTyped, Asks
<1>8. ASSUME NEW r \in Ended, JudgeTakes(p, r) PROVE EvalBase' /\ Undisturbed
  <2>1. judge'[p] = Judging(IF Filed(r) THEN "marking" ELSE "asking", judge[p].todo \ {r}, r)
    BY <1>8 DEF JudgeTakes, EvalTyped
  <2>2. EvalTyped'
    BY <1>0, <1>8 DEF JudgeTakes, EvalTyped, Judgements, Started
  <2>3. JudgeOK(p)'
    BY <1>0, <1>8, <2>1 DEF JudgeTakes, JudgeOK, Known, Filed
  <2> QED
    BY <1>8, <2>2, <2>3, JudgeMoves DEF JudgeTakes, EvalTyped
<1> QED
  BY <1>1, <1>2, <1>3, <1>4, <1>5, <1>6, <1>7, <1>8

\* A pet marks, judges and cleans requests.
LEMMA FileSteps ==
  ASSUME EvalBase, NEW p \in Judges,
         JudgeMarks(p) \/ JudgeAsks(p) \/ \E r \in Ended : CleanupRemoves(p, r)
  PROVE  EvalBase' /\ Undisturbed
<1> USE EvaluationAssumption DEF EvalBase, Judging
<1>a. PICK x : x = judge[p].req
  OBVIOUS
<1>0. /\ judge[p] \in Judgements /\ JudgeOK(p)
      /\ \A r \in Ended : AskedOK(r, p) /\ asked[r][p] \in Nat
  BY DEF EvalTyped, AskedOnce
<1>1. CASE JudgeMarks(p)
  <2>1. /\ x \in Ended /\ Known(x) /\ request' = [request EXCEPT ![x] = "evaluating"]
        /\ judge[p].at = "marking" /\ judge' = [judge EXCEPT ![p] = [judge[p] EXCEPT !.at = "asking"]]
        /\ UNCHANGED <<verdict, overdue, asking, asked, together, falls>>
    BY <1>a, <1>0, <1>1 DEF JudgeMarks, JudgeOK, EvalTyped
  <2>2. EvalTyped'
    BY <1>0, <2>1 DEF EvalTyped, Judgements, Started
  <2>3. Undisturbed
    BY <2>1 DEF Undisturbed, Known, Filed, EvalTyped
  <2>4. FiledIsOver'
    BY <2>1 DEF FiledIsOver, Filed, Known, EvalTyped
  <2>5. JudgeOK(p)'
    BY <1>a, <1>0, <2>1, <2>3 DEF JudgeOK, Undisturbed, EvalTyped, Judgements
  <2>6. \A r \in Ended : AskedOK(r, p)'
    BY <1>0, <2>1, <2>3 DEF AskedOK, Undisturbed
  <2>7. ASSUME NEW q \in Judges, q # p PROVE JudgeOK(q)' /\ \A r \in Ended : AskedOK(r, q)'
    <3>1. judge'[q] = judge[q]
      BY <2>1, <2>7 DEF EvalTyped
    <3> QED
      BY <2>1, <2>3, <3>1, OtherJudges
  <2> QED
    BY <2>2, <2>3, <2>4, <2>5, <2>6, <2>7 DEF AskedOnce
<1>2. CASE JudgeAsks(p)
  <2>1. /\ x \in Ended /\ Known(x) /\ asked[x][p] = 0 /\ EndedOf[x] # p /\ request[x] # "pending"
        /\ x \notin judge[p].todo /\ asked' = [asked EXCEPT ![x][p] = @ + 1]
        /\ judge[p].at = "asking" /\ judge' = [judge EXCEPT ![p] = [judge[p] EXCEPT !.at = "judging"]]
        /\ UNCHANGED <<request, verdict, overdue, asking, together, falls>>
    BY <1>a, <1>0, <1>2 DEF JudgeAsks, JudgeOK, EvalTyped
  <2>2. EvalTyped'
    <3>1. asked' \in [Ended -> [Judges -> Nat]]
      BY <2>1 DEF EvalTyped
    <3>2. judge' \in [Judges -> Judgements] /\ Started' = Started
      BY <1>0, <2>1 DEF EvalTyped, Judgements, Started
    <3> QED
      BY <2>1, <3>1, <3>2 DEF EvalTyped
  <2>3. Undisturbed /\ FiledIsOver'
    BY <2>1 DEF Undisturbed, Known, Filed, FiledIsOver
  <2>4. \A r \in Ended, q \in Judges : ~(r = x /\ q = p) => asked'[r][q] = asked[r][q]
    BY <2>1 DEF EvalTyped
  <2>5. asked'[x][p] = 1
    BY <2>1 DEF EvalTyped
  <2>6. JudgeOK(p)'
    BY <1>a, <1>0, <2>1, <2>3, <2>4 DEF JudgeOK, Undisturbed, EvalTyped, Judgements
  <2>7. \A r \in Ended : AskedOK(r, p)'
    BY <1>0, <2>1, <2>3, <2>4, <2>5 DEF AskedOK, Undisturbed
  <2>8. ASSUME NEW q \in Judges, q # p PROVE JudgeOK(q)' /\ \A r \in Ended : AskedOK(r, q)'
    <3>1. judge'[q] = judge[q]
      BY <2>1, <2>8 DEF EvalTyped
    <3> QED
      BY <2>3, <2>4, <2>8, <3>1, OtherJudges
  <2> QED
    BY <2>2, <2>3, <2>6, <2>7, <2>8 DEF AskedOnce
<1>3. ASSUME NEW r \in Ended, CleanupRemoves(p, r) PROVE EvalBase' /\ Undisturbed
  <2>1. /\ r \in overdue /\ request' = [request EXCEPT ![r] = "none"]
        /\ judge' = [judge EXCEPT ![p] = Judging("clearing", judge[p].todo \ {r}, r)]
        /\ UNCHANGED <<verdict, overdue, asking, asked, together, falls>>
    BY <1>3 DEF CleanupRemoves, EvalTyped
  <2>2. EvalTyped'
    BY <1>0, <2>1 DEF EvalTyped, Judgements, Started
  <2>3. Undisturbed /\ FiledIsOver'
    BY <2>1 DEF Undisturbed, Known, Filed, FiledIsOver, EvalTyped
  <2>4. JudgeOK(p)'
    BY <2>1 DEF JudgeOK, EvalTyped
  <2>5. \A y \in Ended : AskedOK(y, p)'
    BY <1>0, <2>1, <2>3 DEF AskedOK, Undisturbed
  <2>6. ASSUME NEW q \in Judges, q # p PROVE JudgeOK(q)' /\ \A y \in Ended : AskedOK(y, q)'
    <3>1. judge'[q] = judge[q]
      BY <2>1, <2>6 DEF EvalTyped
    <3> QED
      BY <2>1, <2>3, <3>1, OtherJudges
  <2> QED
    BY <2>2, <2>3, <2>4, <2>5, <2>6 DEF AskedOnce
<1> QED
  BY <1>1, <1>2, <1>3

\* Every step keeps it.
LEMMA EvalBaseStep ==
  ASSUME EvalBase, EvalNext
  PROVE  EvalBase' /\ Undisturbed
BY CallSteps, MovingSteps, FileSteps DEF EvalNext

\* It holds in every reachable state.
LEMMA EvalBaseInvariant == EvalSpec => []EvalBase
<1>1. EvalBase /\ [EvalNext]_evalVars => EvalBase'
  <2> SUFFICES ASSUME EvalBase, [EvalNext]_evalVars PROVE EvalBase'
    OBVIOUS
  <2>1. CASE UNCHANGED evalVars
    BY <2>1 DEF evalVars, EvalBase, EvalTyped, Started, FiledIsOver, Filed, AskedOnce, JudgeOK,
       AskedOK, Known
  <2>2. CASE EvalNext
    BY <2>2, EvalBaseStep
  <2> QED
    BY <2>1, <2>2
<1> QED
  BY <1>1, EvalBaseInit, PTL DEF EvalSpec

\* The types of the requests, of the calls and of the pets that evaluate.
THEOREM EvaluationTypeCorrect == EvalSpec => []EvalTypeOK
<1>1. EvalBase => EvalTypeOK
  BY DEF EvalBase, EvalTyped, EvalTypeOK, Calls, Judgements
<1> QED
  BY <1>1, EvalBaseInvariant, PTL

\* For any sessions and pets: a pet is asked for the verdict on a request once, and never
\* on its own, whatever crashes, failures and cleanups there are (store.ts:84).
THEOREM EvaluatedOnceAlways == EvalSpec => []EvaluatedOnce
<1>1. EvalBase => EvaluatedOnce
  BY DEF EvalBase, AskedOnce, AskedOK, EvaluatedOnce
<1> QED
  BY <1>1, EvalBaseInvariant, PTL

-----------------------------------------------------------------------------

\* What began is finite, and can be counted.
LEMMA LiveFinite ==
  ASSUME EvalBase, NEW S, S \subseteq Started
  PROVE  IsFiniteSet(S) /\ Cardinality(S) \in Nat
BY FS_Subset, FS_CardinalityType DEF EvalBase, EvalTyped

\* What is under way began.
LEMMA LiveStarted ==
  ASSUME EvalBase, NEW p
  PROVE  Live(p) \subseteq Started
BY DEF EvalBase, FiledIsOver, Live, Underway, Backlog, ActiveRequests, Started

\* What a count lists stays over, whatever the call that lists it goes on to do.
LEMMA ListingKeeps ==
  ASSUME EvalBase, EvalBase', Listing,
         \A z \in Ended : asking[z].at = "over" => asking'[z].at = "over",
         \A z \in Ended : asking'[z].at = "counting" =>
           \/ asking'[z] = asking[z]
           \/ \A q \in asking'[z].listed : asking[q].at = "over" /\ EndedOf[q] = EndedOf[z]
  PROVE  Listing'
<1> SUFFICES ASSUME NEW z \in Ended, asking'[z].at = "counting", NEW q \in asking'[z].listed
             PROVE  asking'[q].at = "over" /\ EndedOf[q] = EndedOf[z]
  BY DEF Listing
<1>1. q \in Ended
  <2>1. asking'[z] \in Calls
    BY DEF EvalBase, EvalTyped
  <2> QED
    BY <2>1 DEF Calls
<1>2. asking[q].at = "over" /\ EndedOf[q] = EndedOf[z]
  <2>1. CASE asking'[z] = asking[z]
    BY <2>1 DEF Listing
  <2> QED
    BY <2>1
<1> QED
  BY <1>1, <1>2

\* A verdict, the passing of time and the cleaning only take requests out of a backlog,
\* for ever; and a request that is filed was under way.
Fewer ==
  /\ \A z \in Ended :
       /\ asking'[z].at = "counting" => asking'[z] = asking[z]
       /\ asking[z].at = "over" => asking'[z].at = "over"
       /\ Underway(z)' => Underway(z)
  /\ Started' \subseteq Started /\ together' = together

\* What only takes requests out of the backlogs keeps their bounds.
LEMMA FewerKeeps ==
  ASSUME EvalBase, EvalBase', Fewer, Listing, Ranked
  PROVE  (Listing /\ Ranked)'
<1> USE EvaluationAssumption
<1>1. PICK rank \in [Ended -> Nat], n \in Nat : RankedBy(rank, n)
  BY DEF Ranked
<1>2. \A p : Live(p)' \subseteq Live(p)
  BY DEF Live, Fewer
<1>3. ASSUME NEW z \in Ended, asking'[z].at = "counting"
      PROVE  Cardinality(UpTo(rank, z)' \ asking'[z].listed) =< together'[EndedOf[z]]
  <2>1. UpTo(rank, z)' \ asking'[z].listed \subseteq UpTo(rank, z) \ asking[z].listed
    BY <1>2, <1>3 DEF UpTo, Fewer
  <2>2. IsFiniteSet(UpTo(rank, z) \ asking[z].listed)
    BY LiveStarted, LiveFinite DEF UpTo
  <2>3. /\ Cardinality(UpTo(rank, z)' \ asking'[z].listed) \in Nat
        /\ Cardinality(UpTo(rank, z) \ asking[z].listed) \in Nat
        /\ Cardinality(UpTo(rank, z)' \ asking'[z].listed)
             =< Cardinality(UpTo(rank, z) \ asking[z].listed)
    BY <2>1, <2>2, FS_Subset, FS_CardinalityType
  <2>4. Cardinality(UpTo(rank, z) \ asking[z].listed) =< together[EndedOf[z]]
    BY <1>1, <1>3 DEF RankedBy, Fewer
  <2>5. together[EndedOf[z]] \in Nat /\ together' = together
    BY DEF EvalBase, EvalTyped, Fewer
  <2> QED
    BY <2>3, <2>4, <2>5
<1>4. ASSUME NEW z \in Ended, Underway(z)'
      PROVE  Cardinality(UpTo(rank, z)') =< MaxPending - 1 + together'[EndedOf[z]]
  <2>1. UpTo(rank, z)' \subseteq UpTo(rank, z)
    BY <1>2 DEF UpTo
  <2>2. IsFiniteSet(UpTo(rank, z))
    BY LiveStarted, LiveFinite DEF UpTo
  <2>3. /\ Cardinality(UpTo(rank, z)') \in Nat /\ Cardinality(UpTo(rank, z)) \in Nat
        /\ Cardinality(UpTo(rank, z)') =< Cardinality(UpTo(rank, z))
    BY <2>1, <2>2, FS_Subset, FS_CardinalityType
  <2>4. Cardinality(UpTo(rank, z)) =< MaxPending - 1 + together[EndedOf[z]]
    BY <1>1, <1>4 DEF RankedBy, Fewer
  <2>5. together[EndedOf[z]] \in Nat /\ together' = together
    BY DEF EvalBase, EvalTyped, Fewer
  <2> QED
    BY <2>3, <2>4, <2>5
<1>5. RankedBy(rank, n)'
  BY <1>1, <1>3, <1>4 DEF RankedBy, Fewer
<1>6. Listing'
  BY ListingKeeps DEF Fewer
<1> QED
  BY <1>5, <1>6 DEF Ranked

\* All steps do so, but the beginning and the end of a count.
LEMMA FewerSteps ==
  ASSUME EvalBase, EvalNext, \A r \in Ended : ~CountStarts(r) /\ ~CountEnds(r)
  PROVE  Fewer
<1> USE DEF EvalBase, EvalTyped
<1>0. \A r \in Ended : asking[r].at # "over" => ~Filed(r)
  BY DEF FiledIsOver
<1> DEFINE Same == UNCHANGED <<asking, request, verdict, overdue, together>>
<1>1. Same => Fewer
  BY DEF Fewer, Underway, Backlog, ActiveRequests, Filed, Unjudged, Started
<1>2. ASSUME NEW r \in Ended, Skips(r) PROVE Fewer
  BY <1>0, <1>2 DEF Skips, Fewer, Underway, Backlog, ActiveRequests, Filed, Unjudged, Started, Asks
<1>3. ASSUME NEW r \in Ended, Requested(r) PROVE Fewer
  BY <1>0, <1>3 DEF Requested, Fewer, Underway, Backlog, ActiveRequests, Filed, Unjudged, Started, Asks
<1>4. ASSUME NEW r \in Ended, RequestExpires(r) PROVE Fewer
  BY <1>4 DEF RequestExpires, Fewer, Underway, Backlog, ActiveRequests, Filed, Unjudged, Started
<1>5. ASSUME NEW p \in Judges,
             \/ JudgeStarts(p) \/ JudgeAsks(p) \/ JudgeFails(p) \/ CleanupStarts(p) \/ CleanupEnds(p)
             \/ \E r \in Ended : JudgeTakes(p, r)
      PROVE  Fewer
  BY <1>1, <1>5 DEF JudgeStarts, JudgeAsks, JudgeFails, CleanupStarts, CleanupEnds, JudgeTakes
<1>6. ASSUME NEW p \in Judges, JudgeMarks(p) PROVE Fewer
  <2>1. judge[p].req \in Ended /\ Known(judge[p].req)
    BY <1>6 DEF JudgeMarks, AskedOnce, JudgeOK
  <2> QED
    BY <1>6, <2>1 DEF JudgeMarks, Fewer, Underway, Backlog, ActiveRequests, Filed, Unjudged, Started,
       Known
<1>7. ASSUME NEW p \in Judges, JudgeSaves(p) PROVE Fewer
  <2>1. judge[p].req \in Ended
    BY <1>7 DEF JudgeSaves, AskedOnce, JudgeOK
  <2>2. NoJudge # p
    BY EvaluationAssumption
  <2> QED
    BY <1>7, <2>1, <2>2 DEF JudgeSaves, Fewer, Underway, Backlog, ActiveRequests, Filed, Unjudged,
       Started
<1>8. ASSUME NEW p \in Judges, CleanupClears(p) PROVE Fewer
  <2>1. judge[p].req \in overdue
    BY <1>8 DEF CleanupClears, AskedOnce, JudgeOK
  <2> QED
    BY <1>8, <2>1 DEF CleanupClears, Fewer, Underway, Backlog, ActiveRequests, Filed, Unjudged,
       Started
<1>9. ASSUME NEW p \in Judges, NEW r \in Ended, CleanupRemoves(p, r) PROVE Fewer
  BY <1>9 DEF CleanupRemoves, Fewer, Underway, Backlog, ActiveRequests, Filed, Unjudged, Started
<1>10. ASSUME NEW p \in Judges, JudgeFalls(p) PROVE Fewer
  BY <1>0, <1>10 DEF JudgeFalls, Fewer, Underway, Backlog, ActiveRequests, Filed, Unjudged, Started,
     Asks, InFlight
<1> QED
  BY <1>2, <1>3, <1>4, <1>5, <1>6, <1>7, <1>8, <1>9, <1>10 DEF EvalNext

\* The call that begins to count gets the highest rank; what it does not list was under
\* way with it.
LEMMA CountStartsKeeps ==
  ASSUME EvalBase, EvalBase', Listing, Ranked, NEW r \in Ended, CountStarts(r)
  PROVE  (Listing /\ Ranked)'
<1> USE EvaluationAssumption
<1> DEFINE p == EndedOf[r]
<1>1. PICK old \in [Ended -> Nat], n \in Nat : RankedBy(old, n)
  BY DEF Ranked
<1> DEFINE rank == [old EXCEPT ![r] = n]
<1>2. rank \in [Ended -> Nat] /\ n + 1 \in Nat /\ rank[r] = n
      /\ \A y \in Ended \ {r} : rank[y] = old[y]
  OBVIOUS
<1> HIDE DEF rank
<1>3. /\ asking[r].at = "waiting" /\ r \notin Started /\ asking'[r].at = "counting"
      /\ asking'[r].listed = {q \in ActiveRequests : EndedOf[q] = p}
      /\ \A z \in Ended \ {r} : asking'[z] = asking[z]
      /\ UNCHANGED <<request, verdict, overdue>>
      /\ p \in Judges /\ together'[p] >= Cardinality(InFlight(p)) + 1
      /\ \A q \in Judges : together[q] \in Nat /\ together'[q] \in Nat /\ together'[q] >= together[q]
  <2>1. InFlight(p) \subseteq Started
    BY DEF InFlight, Started
  <2>2. Cardinality(InFlight(p)) \in Nat
    BY <2>1, LiveFinite
  <2>3. /\ asking' = [asking EXCEPT ![r] = Asks("counting", {q \in ActiveRequests : EndedOf[q] = p})]
        /\ together' = [together EXCEPT ![p] =
             IF Cardinality(InFlight(p)) + 1 > @ THEN Cardinality(InFlight(p)) + 1 ELSE @]
    BY DEF CountStarts
  <2>4. p \in Judges /\ together \in [Judges -> Nat]
    BY DEF EvalBase, EvalTyped
  <2>5. asking \in [Ended -> Calls] /\ asking[r].at = "waiting" /\ UNCHANGED <<request, verdict, overdue>>
    BY DEF EvalBase, EvalTyped, CountStarts
  <2>6. r \notin Started
    BY <2>5 DEF Started
  <2> QED
    BY <2>2, <2>3, <2>4, <2>5, <2>6 DEF Asks
<1>4. \A z \in Ended : Underway(z)' <=> Underway(z)
  BY <1>3 DEF Underway, Backlog, ActiveRequests, Filed, Unjudged
<1>5. ASSUME NEW q PROVE Live(q)' \subseteq Live(q) \cup {r}
  BY <1>3, <1>4 DEF Live
<1>6. /\ ~Underway(r) /\ \A z \in Ended : z # r /\ asking[z].at # "waiting" => z \in Started
      /\ \A z \in Ended : Underway(z) => z \in Started
  BY <1>3 DEF Started, Underway, Backlog, ActiveRequests, EvalBase, FiledIsOver
<1>7. ASSUME NEW z \in Started PROVE z # r /\ old[z] < n /\ rank[z] = old[z] /\ z \in Ended
  BY <1>1, <1>2, <1>3 DEF RankedBy, Started
\* r is above all that began before it.
<1>8. ASSUME NEW z \in Started PROVE UpTo(rank, z)' \subseteq UpTo(old, z)
  <2> SUFFICES ASSUME NEW y \in UpTo(rank, z)' PROVE y \in UpTo(old, z)
    OBVIOUS
  <2>1. y \in Live(EndedOf[z])' /\ rank[y] =< rank[z] /\ y \in Ended
    BY DEF UpTo, Live
  <2>2. y # r
    BY <2>1, <1>2, <1>7
  <2>3. y \in Live(EndedOf[z]) /\ rank[y] = old[y]
    BY <2>1, <2>2, <1>2, <1>5
  <2> QED
    BY <2>1, <2>3, <1>7 DEF UpTo
<1>9. \A z \in Started' : rank[z] < n + 1
  <2> SUFFICES ASSUME NEW z \in Started' PROVE rank[z] < n + 1
    OBVIOUS
  <2>1. CASE z = r
    BY <2>1, <1>2
  <2>2. CASE z # r
    <3>1. z \in Started
      BY <2>2, <1>3 DEF Started
    <3> QED
      BY <3>1, <1>7
  <2> QED
    BY <2>1, <2>2
<1>10. ASSUME NEW z \in Ended, asking'[z].at = "counting"
       PROVE  Cardinality(UpTo(rank, z)' \ asking'[z].listed) =< together'[EndedOf[z]]
  <2>1. CASE z = r
    <3> DEFINE S == UpTo(rank, r)' \ asking'[r].listed
    <3>1. S \subseteq InFlight(p) \cup {r}
      <4> SUFFICES ASSUME NEW y \in S, y # r PROVE y \in InFlight(p)
        OBVIOUS
      <4>1. y \in Live(p) /\ y \notin asking'[r].listed
        BY <1>5 DEF UpTo
      <4>2. ~Backlog(y)
        BY <4>1, <1>3 DEF Backlog, Live
      <4> QED
        BY <4>1, <4>2 DEF Live, Underway, InFlight
    <3>2. /\ IsFiniteSet(InFlight(p)) /\ Cardinality(InFlight(p)) \in Nat /\ r \notin InFlight(p)
      BY <1>3, LiveFinite DEF InFlight, Started
    <3>3. /\ IsFiniteSet(InFlight(p) \cup {r})
          /\ Cardinality(InFlight(p) \cup {r}) = Cardinality(InFlight(p)) + 1
      BY <3>2, FS_AddElement
    <3>4. Cardinality(S) \in Nat /\ Cardinality(S) =< Cardinality(InFlight(p)) + 1
      BY <3>1, <3>3, FS_Subset, FS_CardinalityType
    <3> QED
      BY <2>1, <3>2, <3>4, <1>3
  <2>2. CASE z # r
    <3>1. z \in Started /\ asking'[z] = asking[z] /\ asking[z].at = "counting"
      BY <2>2, <1>3, <1>10 DEF Started
    <3>2. UpTo(rank, z)' \ asking'[z].listed \subseteq UpTo(old, z) \ asking[z].listed
      BY <3>1, <1>8
    <3>3. IsFiniteSet(UpTo(old, z) \ asking[z].listed)
      BY LiveStarted, LiveFinite DEF UpTo
    <3>4. /\ Cardinality(UpTo(rank, z)' \ asking'[z].listed) \in Nat
          /\ Cardinality(UpTo(old, z) \ asking[z].listed) \in Nat
          /\ Cardinality(UpTo(rank, z)' \ asking'[z].listed)
               =< Cardinality(UpTo(old, z) \ asking[z].listed)
      BY <3>2, <3>3, FS_Subset, FS_CardinalityType
    <3>5. Cardinality(UpTo(old, z) \ asking[z].listed) =< together[EndedOf[z]]
      BY <1>1, <3>1 DEF RankedBy
    <3> QED
      BY <3>4, <3>5, <1>3
  <2> QED
    BY <2>1, <2>2
<1>11. ASSUME NEW z \in Ended, Underway(z)'
       PROVE  Cardinality(UpTo(rank, z)') =< MaxPending - 1 + together'[EndedOf[z]]
  <2>1. Underway(z) /\ z \in Started
    BY <1>4, <1>6, <1>11
  <2>2. UpTo(rank, z)' \subseteq UpTo(old, z)
    BY <2>1, <1>8
  <2>3. IsFiniteSet(UpTo(old, z))
    BY LiveStarted, LiveFinite DEF UpTo
  <2>4. /\ Cardinality(UpTo(rank, z)') \in Nat /\ Cardinality(UpTo(old, z)) \in Nat
        /\ Cardinality(UpTo(rank, z)') =< Cardinality(UpTo(old, z))
    BY <2>2, <2>3, FS_Subset, FS_CardinalityType
  <2>5. Cardinality(UpTo(old, z)) =< MaxPending - 1 + together[EndedOf[z]]
    BY <1>1, <2>1 DEF RankedBy
  <2> QED
    BY <2>4, <2>5, <1>3
<1>12. RankedBy(rank, n + 1)'
  BY <1>9, <1>10, <1>11 DEF RankedBy
<1>13. Listing'
  <2>1. \A q \in ActiveRequests : asking[q].at = "over"
    BY DEF ActiveRequests, EvalBase, FiledIsOver
  <2> QED
    BY <2>1, <1>3, ListingKeeps
<1> QED
  BY <1>2, <1>12, <1>13 DEF Ranked

\* The count that lets a call through sees all that began before it but the calls that
\* were under way with it.
LEMMA CountEndsKeeps ==
  ASSUME EvalBase, EvalBase', Listing, Ranked, NEW r \in Ended, CountEnds(r)
  PROVE  (Listing /\ Ranked)'
<1> USE EvaluationAssumption
<1> DEFINE p == EndedOf[r]
           L == {q \in asking[r].listed : q \in ActiveRequests /\ Unjudged(q)}
<1>1. PICK rank \in [Ended -> Nat], n \in Nat : RankedBy(rank, n)
  BY DEF Ranked
<1>2. /\ asking[r].at = "counting" /\ asking'[r].at = "building" /\ ~Crowded(Cardinality(L))
      /\ \A z \in Ended \ {r} : asking'[z] = asking[z]
      /\ UNCHANGED <<request, verdict, overdue, together>>
  BY DEF CountEnds, EvalBase, EvalTyped, Asks
<1>3. /\ \A z \in Ended \ {r} : Underway(z)' <=> Underway(z)
      /\ \A q : Live(q)' = Live(q)
      /\ \A z \in Ended : UpTo(rank, z)' = UpTo(rank, z)
      /\ Started' = Started
  <2>1. \A z \in Ended : Backlog(z)' <=> Backlog(z)
    BY <1>2 DEF Backlog, ActiveRequests, Filed, Unjudged
  <2>2. \A z \in Ended \ {r} : Underway(z)' <=> Underway(z)
    BY <2>1, <1>2 DEF Underway
  <2>3. \A q : Live(q)' = Live(q)
    BY <2>1, <2>2, <1>2 DEF Live, Underway
  <2> QED
    BY <2>2, <2>3, <1>2 DEF UpTo, Started
<1>4. Cardinality(UpTo(rank, r)) =< MaxPending - 1 + together[p]
  <2> DEFINE U == UpTo(rank, r)
             R == U \ asking[r].listed
  <2>1. U \subseteq L \cup R
    <3> SUFFICES ASSUME NEW y \in U, y \in asking[r].listed PROVE y \in L
      OBVIOUS
    <3>1. asking[y].at = "over" /\ y \in Live(p)
      BY <1>2 DEF Listing, UpTo
    <3> QED
      BY <3>1 DEF Live, Underway, Backlog
  <2>2. L \subseteq Started /\ R \subseteq Started /\ U \subseteq Started
    <3>1. L \subseteq Started
      BY DEF ActiveRequests, EvalBase, FiledIsOver, Started
    <3>2. U \subseteq Started
      BY LiveStarted DEF UpTo
    <3> QED
      BY <3>1, <3>2
  <2>3. /\ IsFiniteSet(L) /\ Cardinality(L) \in Nat /\ IsFiniteSet(R) /\ Cardinality(R) \in Nat
        /\ IsFiniteSet(U) /\ Cardinality(U) \in Nat
    <3> HIDE DEF L, R, U
    <3> QED
      BY <2>2, LiveFinite
  <2>4. Cardinality(L) =< MaxPending - 1
    BY <1>2, <2>3 DEF Crowded
  <2>5. Cardinality(R) =< together[p]
    BY <1>1, <1>2 DEF RankedBy
  <2>6. together[p] \in Nat
    BY DEF EvalBase, EvalTyped
  <2> HIDE DEF L, R, U
  <2>7. /\ IsFiniteSet(L \cup R) /\ Cardinality(L \cup R) \in Nat
        /\ Cardinality(L \cup R) =< Cardinality(L) + Cardinality(R)
    <3>1. /\ IsFiniteSet(L \cup R)
          /\ Cardinality(L \cup R) = Cardinality(L) + Cardinality(R) - Cardinality(L \cap R)
      BY <2>3, FS_Union
    <3>2. Cardinality(L \cap R) \in Nat /\ Cardinality(L \cup R) \in Nat
      BY <2>3, <3>1, FS_Intersection, FS_CardinalityType
    <3> QED
      BY <2>3, <3>1, <3>2
  <2>8. Cardinality(U) =< Cardinality(L \cup R)
    BY <2>1, <2>7, FS_Subset
  <2> QED
    BY <2>3, <2>4, <2>5, <2>6, <2>7, <2>8 DEF U
<1>5. RankedBy(rank, n)'
  BY <1>1, <1>2, <1>3, <1>4 DEF RankedBy
<1>6. Listing'
  BY <1>2, ListingKeeps
<1> QED
  BY <1>5, <1>6 DEF Ranked

\* Nothing is under way at the start.
LEMMA EvalInvInit == EvalInit => EvalInv
<1> SUFFICES ASSUME EvalInit PROVE EvalInv
  OBVIOUS
<1>1. Listing /\ Started = {} /\ \A z \in Ended : ~Underway(z) /\ asking[z].at = "waiting"
  BY DEF EvalInit, Listing, Asks, Started, Underway, Backlog, ActiveRequests, Filed
<1>2. RankedBy([r \in Ended |-> 0], 0)
  BY <1>1 DEF RankedBy
<1>3. Ranked
  BY <1>2 DEF Ranked
<1> QED
  BY <1>1, <1>3, EvalBaseInit DEF EvalInv

\* The invariant holds in every reachable state.
LEMMA EvalInvariant == EvalSpec => []EvalInv
<1>1. EvalInv /\ [EvalNext]_evalVars => EvalInv'
  <2> SUFFICES ASSUME EvalInv, [EvalNext]_evalVars PROVE EvalInv'
    OBVIOUS
  <2>1. CASE UNCHANGED evalVars
    <3>1. EvalBase'
      BY <2>1 DEF evalVars, EvalInv, EvalBase, EvalTyped, Started, FiledIsOver, Filed, AskedOnce,
         JudgeOK, AskedOK, Known
    <3>2. Fewer
      BY <2>1 DEF evalVars, Fewer, Underway, Backlog, ActiveRequests, Filed, Unjudged, Started
    <3> QED
      BY <3>1, <3>2, FewerKeeps DEF EvalInv
  <2>2. CASE EvalNext
    <3>1. EvalBase'
      BY <2>2, EvalBaseStep DEF EvalInv
    <3>2. ASSUME NEW r \in Ended, CountStarts(r) PROVE EvalInv'
      BY <3>1, <3>2, CountStartsKeeps DEF EvalInv
    <3>3. ASSUME NEW r \in Ended, CountEnds(r) PROVE EvalInv'
      BY <3>1, <3>3, CountEndsKeeps DEF EvalInv
    <3>4. CASE \A r \in Ended : ~CountStarts(r) /\ ~CountEnds(r)
      BY <2>2, <3>1, <3>4, FewerSteps, FewerKeeps DEF EvalInv
    <3> QED
      BY <3>2, <3>3, <3>4
  <2> QED
    BY <2>1, <2>2
<1> QED
  BY <1>1, EvalInvInit, PTL DEF EvalSpec

\* For any sessions, pets and maximum: the requests of a pet without a verdict exceed the
\* maximum by no more than the sessions that ended at once (publisher.ts:52).
THEOREM BacklogAlwaysBounded == EvalSpec => []BacklogBounded
<1>1. EvalInv => BacklogBounded
  <2> SUFFICES ASSUME EvalInv, NEW p \in Judges
               PROVE  Cardinality({r \in ActiveRequests : EndedOf[r] = p /\ Unjudged(r)})
                        =< MaxPending - 1 + (IF together[p] = 0 THEN 1 ELSE together[p])
    BY DEF BacklogBounded
  <2> DEFINE B == {r \in ActiveRequests : EndedOf[r] = p /\ Unjudged(r)}
  <2>1. together[p] \in Nat /\ MaxPending \in Nat \ {0}
    BY EvaluationAssumption DEF EvalInv, EvalBase, EvalTyped
  <2>2. PICK rank \in [Ended -> Nat], n \in Nat : RankedBy(rank, n)
    BY DEF EvalInv, Ranked
  <2>3. B \subseteq Live(p) /\ B \subseteq Ended /\ Live(p) \subseteq Started
    <3>1. EvalBase
      BY DEF EvalInv
    <3> QED
      BY <3>1, LiveStarted DEF Live, Underway, Backlog, ActiveRequests
  <2>4. CASE B = {}
    BY <2>1, <2>4, FS_EmptySet
  <2>5. CASE B # {}
    <3> DEFINE T == {rank[r] : r \in B}
    <3>1. T \subseteq Nat /\ T # {} /\ \A k \in T : k =< n
      BY <2>2, <2>3, <2>5 DEF RankedBy
    <3>2. PICK top \in B : \A r \in B : rank[r] =< rank[top]
      <4>1. \E m \in T : \A k \in T : k =< m
        <5> HIDE DEF T
        <5> QED
          BY <3>1, GreatestNat
      <4> QED
        BY <4>1
    <3>3. B \subseteq UpTo(rank, top) /\ Underway(top) /\ EndedOf[top] = p
      BY <2>3, <3>2 DEF UpTo, Underway, Backlog
    <3>4. Cardinality(UpTo(rank, top)) =< MaxPending - 1 + together[p]
      BY <2>2, <2>3, <3>3 DEF RankedBy
    <3>5. IsFiniteSet(UpTo(rank, top)) /\ Cardinality(UpTo(rank, top)) \in Nat
      BY <2>3, <3>3, LiveFinite DEF UpTo, EvalInv
    <3>6. Cardinality(B) \in Nat /\ Cardinality(B) =< Cardinality(UpTo(rank, top))
      BY <3>3, <3>5, FS_Subset, FS_CardinalityType
    <3> QED
      BY <2>1, <3>4, <3>5, <3>6
  <2> QED
    BY <2>4, <2>5
<1> QED
  BY <1>1, EvalInvariant, PTL

-----------------------------------------------------------------------------
(***************************************************************************)
(* All that a pet shares.                                                  *)
(***************************************************************************)

\* The parts together have their types.
THEOREM PeersTypeCorrect == PeersSpec => []TypeOK
<1>1. CollabTypeOK /\ EvalTypeOK /\ GitTypeOK /\ ChanTypeOK /\ DelTypeOK => TypeOK
  BY DEF TypeOK
<1> QED
  BY <1>1, CollaborationTypeCorrect, EvaluationTypeCorrect, GitTypeCorrect, ChannelsTypeCorrect,
     DeliveryTypeCorrect, PTL DEF PeersSpec
=============================================================================
