------------------------ MODULE SessionManagerProofs ------------------------
(***************************************************************************)
(* Proofs about SessionManager for any number of messages, users and       *)
(* slots.  SessionAssumption and OutcomesAssumption are the only           *)
(* assumptions.                                                            *)
(***************************************************************************)
EXTENDS SessionManager, FiniteSetTheorems, TLAPS

-----------------------------------------------------------------------------
(***************************************************************************)
(* Type correctness.                                                       *)
(***************************************************************************)

\* A record counted or given a session id is a record.
LEMMA CountedType ==
  ASSUME NEW k \in Keys, record \in [Keys -> {None} \cup Record]
  PROVE  Counted(k) \in Record
BY DEF Counted, Record

LEMMA ResumeType ==
  ASSUME NEW rec \in Record, NEW id \in Requests
  PROVE  [rec EXCEPT !.resume = id] \in Record
BY DEF Record

\* Waiting writes stay writes when one is added at the end, or one leaves.
LEMMA AppendWrite ==
  ASSUME NEW q \in Seq(Write), NEW w \in Write
  PROVE  Append(q, w) \in Seq(Write)
OBVIOUS

LEMMA HeadTailWrite ==
  ASSUME NEW q \in Seq(Write), q # <<>>
  PROVE  Head(q) \in Write /\ Tail(q) \in Seq(Write)
OBVIOUS

LEMMA InitType == Init => TypeOK
<1> SUFFICES ASSUME Init PROVE TypeOK
  OBVIOUS
<1> USE DEF Init, ExecutorInit, StoreInit
<1>1. ExecutorTypeOK
  BY DEF ExecutorTypeOK
<1>2. StoreTypeOK
  BY DEF StoreTypeOK
<1> QED
  BY <1>1, <1>2 DEF TypeOK, CallerState

LEMMA NextType == TypeOK /\ [Next]_vars => TypeOK'
<1> SUFFICES ASSUME TypeOK, [Next]_vars PROVE TypeOK'
  OBVIOUS
<1> USE SessionAssumption, OutcomesAssumption
<1> USE DEF TypeOK, ExecutorTypeOK, CallerState
<1>0. Later \in Nat \ {0}
  BY DEF Later
<1>1. ASSUME NEW r \in Requests, Refuse(r) PROVE TypeOK'
  BY <1>1 DEF Refuse, StoreTypeOK, executorVars, storeVars
<1>2. ASSUME NEW r \in Requests, Admit(r) PROVE TypeOK'
  BY <1>2 DEF Admit, StoreTypeOK, executorVars, storeVars
<1>3. ASSUME NEW r \in Requests, ChildStep(r) PROVE TypeOK'
  <2>1. ExecutorTypeOK'
    <3>1. CASE PrintSessionId(r)
      BY <3>1 DEF PrintSessionId
    <3>2. CASE Exit(r)
      BY <3>2 DEF Exit
    <3> QED
      BY <1>3, <3>1, <3>2 DEF ChildStep
  <2> QED
    BY <1>3, <2>1 DEF ChildStep, StoreTypeOK, storeVars, managerVars
<1>4. CASE BeginShutdown
  BY <1>4 DEF BeginShutdown, Terminated, StoreTypeOK, storeVars
<1>5. ASSUME NEW r \in Requests, Register(r) PROVE TypeOK'
  <2> DEFINE w == [by |-> r, step |-> "register", rec |-> Counted(KeyOf[r])]
  <2>1. w \in Write
    BY CountedType DEF Write, StoreTypeOK
  <2>2. StoreTypeOK'
    <3>1. record' = record /\ queue' = [queue EXCEPT ![KeyOf[r]] = Append(@, w)]
      BY <1>5 DEF Register, QueueWrite
    <3>2. Append(queue[KeyOf[r]], w) \in Seq(Write)
      BY <2>1, AppendWrite DEF StoreTypeOK
    <3> QED
      BY <3>1, <3>2 DEF StoreTypeOK
  <2>3. ExecutorTypeOK'
    BY <1>5 DEF Register, Spawn
  <2>4. PICK t \in {now, Later} :
          /\ now' = t /\ stamp' = [stamp EXCEPT ![r] = t]
          /\ active' = (active \ Under(KeyOf[r], t)) \cup {r}
          /\ timers' = Scheduled(r, t)
    BY <1>5 DEF Register
  <2>5. stamp' \in [Requests -> Nat] /\ now' \in Nat \ {0}
    BY <1>0, <2>4
  <2>6. active' \in SUBSET Requests /\ timers' \in SUBSET Requests
    BY <2>4 DEF Scheduled
  <2>7. caller' \in [Requests -> CallerState]
    BY <1>5 DEF Register
  <2> QED
    BY <1>5, <2>2, <2>3, <2>5, <2>6, <2>7 DEF Register
<1>6. ASSUME NEW k \in Keys, StoreStep(k) PROVE TypeOK'
  <2>1. queue[k] # <<>> /\ queue' = [queue EXCEPT ![k] = Tail(@)]
    BY <1>6 DEF StoreStep, Written, WriteFails, HeadWritten, HeadFails
  <2>2. Head(queue[k]) \in Write /\ Tail(queue[k]) \in Seq(Write)
    BY <2>1, HeadTailWrite DEF StoreTypeOK
  <2>3. record' = record \/ record' = [record EXCEPT ![k] = Head(queue[k]).rec]
    BY <1>6 DEF StoreStep, Written, WriteFails, HeadWritten, HeadFails
  <2>4. StoreTypeOK'
    BY <2>1, <2>2, <2>3 DEF StoreTypeOK, Write
  <2>5. caller' \in [Requests -> CallerState]
    BY <1>6 DEF StoreStep, Written, WriteFails, Continue
  <2> QED
    BY <1>6, <2>4, <2>5 DEF StoreStep, Written, WriteFails, executorVars
<1>7. ASSUME NEW r \in Requests, HandleDone(r) PROVE TypeOK'
  BY <1>7 DEF HandleDone, Found, Entry, StoreTypeOK, executorVars, storeVars
<1>8. ASSUME NEW r \in Requests, SaveSessionId(r) PROVE TypeOK'
  <2> DEFINE w == [by |-> r, step |-> "finish",
                   rec |-> [record[KeyOf[r]] EXCEPT !.resume = saving[r]]]
  <2>1. StoreTypeOK'
    <3>1. CASE record[KeyOf[r]] = None
      BY <1>8, <3>1 DEF SaveSessionId, StoreTypeOK
    <3>2. CASE record[KeyOf[r]] # None
      <4>1. w \in Write
        BY <1>8, <3>2, ResumeType DEF SaveSessionId, StoreTypeOK, Write
      <4>2. Append(queue[KeyOf[r]], w) \in Seq(Write)
        BY <4>1, AppendWrite DEF StoreTypeOK
      <4>3. record' = record /\ queue' = [queue EXCEPT ![KeyOf[r]] = Append(@, w)]
        BY <1>8, <3>2 DEF SaveSessionId, QueueWrite
      <4> QED
        BY <4>2, <4>3 DEF StoreTypeOK
    <3> QED
      BY <3>1, <3>2
  <2> QED
    BY <1>8, <2>1 DEF SaveSessionId, executorVars
<1>9. ASSUME NEW r \in Requests, Timeout(r) PROVE TypeOK'
  BY <1>0, <1>9 DEF Timeout, Terminated, GraceFor, Entry, StoreTypeOK, storeVars
<1>10. ASSUME NEW r \in Requests, GraceOver(r) PROVE TypeOK'
  BY <1>10 DEF GraceOver, ForceKilled, StoreTypeOK, storeVars
<1>11. ASSUME NEW r \in Requests, Killed(r) PROVE TypeOK'
  BY <1>11 DEF Killed, DieOfSigkill, DoneStatus, StoreTypeOK, storeVars, managerVars
<1>12. CASE EndShutdown
  BY <1>0, <1>12 DEF EndShutdown, KilledAtEnd, ForceKilled, StoreTypeOK, storeVars
<1>13. CASE UNCHANGED vars
  BY <1>13 DEF vars, executorVars, storeVars, managerVars, StoreTypeOK
<1>14. ASSUME NEW r \in Requests, SpawnThrows(r) PROVE TypeOK'
  BY <1>14 DEF SpawnThrows, StoreTypeOK, executorVars, storeVars
<1> QED
  BY <1>1, <1>2, <1>3, <1>4, <1>5, <1>6, <1>7, <1>8, <1>9, <1>10, <1>11, <1>12, <1>13, <1>14
     DEF Next, Internal

\* Every reachable state has the declared types: a record is counted with
\* numbers and names sessions that exist (manager.ts:124-134, 219-231).
THEOREM SessionTypeCorrect == Spec => []TypeOK
BY InitType, NextType, PTL DEF Spec

-----------------------------------------------------------------------------
(***************************************************************************)
(* Where a session is.                                                     *)
(***************************************************************************)

\* Its process was spawned.
Placed(r) == child[r] # "none"

\* The call is past spawn, with a process or without one; whatever the manager or
\* a process keeps about a session, it keeps about one whose process was spawned;
\* and its end is handled once, after the handle was returned.
Placement ==
  \A r \in Requests :
    /\ Placed(r) => caller[r] \in {"writing", "started", "rejected"}
    /\ caller[r] \in {"writing", "started"} => Placed(r)
    /\ stamp[r] # 0 <=> Placed(r)
    /\ r \in active \cup timers \cup grace \cup awaited \cup termSent \cup killSent
         => Placed(r)
    /\ r \in handled => caller[r] = "started" /\ Exited(r)
    /\ r \in active => r \notin handled

\* The write that getOrCreate awaits is in the queue of its key, once.
Awaits(k, i) == queue[k][i].step = "register"

QueueOwned ==
  \A k \in Keys : \A i \in 1..Len(queue[k]) :
    Awaits(k, i) =>
      /\ caller[queue[k][i].by] = "writing"
      /\ KeyOf[queue[k][i].by] = k
      /\ \A j \in 1..Len(queue[k]) :
           Awaits(k, j) /\ queue[k][j].by = queue[k][i].by => i = j

\* A write waiting in a queue has a writer and a step.
LEMMA WaitingWrite ==
  ASSUME StoreTypeOK, NEW k \in Keys, NEW i \in 1..Len(queue[k])
  PROVE  /\ queue[k][i] \in Write
         /\ queue[k][i].by \in Requests
         /\ queue[k][i].step \in {"register", "finish"}
<1>1. queue[k] \in Seq(Write)
  BY DEF StoreTypeOK
<1>2. queue[k][i] \in Write
  BY <1>1
<1> QED
  BY <1>2 DEF Write

LEMMA NextPlacement == TypeOK /\ QueueOwned /\ Placement /\ [Next]_vars => Placement'
<1> SUFFICES ASSUME TypeOK, QueueOwned, Placement, [Next]_vars PROVE Placement'
  OBVIOUS
<1> USE SessionAssumption, OutcomesAssumption
<1> USE DEF TypeOK, ExecutorTypeOK, CallerState, Placement, Placed, Exited, Running
<1>0. Later \in Nat \ {0}
  BY DEF Later
<1>1. ASSUME NEW q \in Requests, Refuse(q) PROVE Placement'
  BY <1>1 DEF Refuse, executorVars, storeVars
<1>2. ASSUME NEW q \in Requests, Admit(q) PROVE Placement'
  BY <1>2 DEF Admit, executorVars, storeVars
<1>3. ASSUME NEW q \in Requests, ChildStep(q) PROVE Placement'
  <2>1. CASE PrintSessionId(q)
    BY <1>3, <2>1 DEF ChildStep, PrintSessionId, storeVars, managerVars
  <2>2. CASE Exit(q)
    BY <1>3, <2>2 DEF ChildStep, Exit, DoneStatus, storeVars, managerVars
  <2> QED
    BY <1>3, <2>1, <2>2 DEF ChildStep
<1>4. CASE BeginShutdown
  BY <1>4 DEF BeginShutdown, Terminated, storeVars
<1>5. ASSUME NEW q \in Requests, Register(q) PROVE Placement'
  <2>1. PICK t \in {now, Later} :
          /\ now' = t /\ stamp' = [stamp EXCEPT ![q] = t]
          /\ active' = (active \ Under(KeyOf[q], t)) \cup {q}
          /\ timers' = Scheduled(q, t)
    BY <1>5 DEF Register
  <2>2. t # 0
    BY <1>0
  <2>3. /\ caller[q] = "reading" /\ caller' = [caller EXCEPT ![q] = "writing"]
        /\ child' = [child EXCEPT ![q] = "running"]
        /\ UNCHANGED <<termSent, killSent, grace, handled, awaited>>
    BY <1>5 DEF Register, Spawn
  <2> QED
    BY <2>1, <2>2, <2>3 DEF Scheduled, DoneStatus
<1>6. ASSUME NEW k \in Keys, StoreStep(k) PROVE Placement'
  <2> DEFINE w == Head(queue[k])
  <2>1. queue[k] # <<>>
    BY <1>6 DEF StoreStep, Written, WriteFails, HeadWritten, HeadFails
  <2>2. w = queue[k][1] /\ 1 \in 1..Len(queue[k]) /\ w \in Write
    BY <2>1, HeadTailWrite DEF StoreTypeOK
  <2>3. w.step = "register" => caller[w.by] = "writing"
    BY <2>2 DEF QueueOwned, Awaits
  <2>4. PICK outcome \in {"started", "rejected"} : Continue(w, outcome)
    BY <1>6 DEF StoreStep, Written, WriteFails
  <2>5. UNCHANGED <<child, termSent, killSent, stamp, active, timers, grace, handled, awaited>>
    BY <1>6 DEF StoreStep, Written, WriteFails, executorVars
  <2>6. \A r \in Requests :
          \/ caller'[r] = caller[r]
          \/ caller[r] = "writing" /\ caller'[r] = outcome
    <3>1. w.by \in Requests
      BY <2>2, WaitingWrite
    <3>4. caller' = IF w.step = "register" THEN [caller EXCEPT ![w.by] = outcome] ELSE caller
      BY <2>4 DEF Continue
    <3> HIDE DEF w
    <3>2. CASE w.step = "register"
      BY <2>3, <3>1, <3>2, <3>4
    <3>3. CASE w.step # "register"
      BY <3>3, <3>4
    <3> QED
      BY <3>2, <3>3
  <2> QED
    BY <2>5, <2>6
<1>7. ASSUME NEW q \in Requests, HandleDone(q) PROVE Placement'
  <2>1. q \in active => q \in Found(q)
    BY DEF Found, Entry, Under
  <2> QED
    BY <1>7, <2>1 DEF HandleDone, executorVars, storeVars
<1>8. ASSUME NEW q \in Requests, SaveSessionId(q) PROVE Placement'
  BY <1>8 DEF SaveSessionId, executorVars
<1>9. ASSUME NEW q \in Requests, Timeout(q) PROVE Placement'
  BY <1>9 DEF Timeout, Terminated, GraceFor, Entry, storeVars
<1>10. ASSUME NEW q \in Requests, GraceOver(q) PROVE Placement'
  BY <1>10 DEF GraceOver, ForceKilled, storeVars
<1>11. ASSUME NEW q \in Requests, Killed(q) PROVE Placement'
  BY <1>11 DEF Killed, DieOfSigkill, DoneStatus, storeVars, managerVars
<1>12. CASE EndShutdown
  BY <1>12 DEF EndShutdown, KilledAtEnd, ForceKilled, storeVars
<1>13. CASE UNCHANGED vars
  BY <1>13 DEF vars, executorVars, storeVars, managerVars
<1>14. ASSUME NEW q \in Requests, SpawnThrows(q) PROVE Placement'
  BY <1>14 DEF SpawnThrows, executorVars
<1> QED
  BY <1>1, <1>2, <1>3, <1>4, <1>5, <1>6, <1>7, <1>8, <1>9, <1>10, <1>11, <1>12, <1>13, <1>14
     DEF Next, Internal

LEMMA NextOwned == TypeOK /\ Placement /\ QueueOwned /\ [Next]_vars => QueueOwned'
<1> SUFFICES ASSUME TypeOK, Placement, QueueOwned, [Next]_vars PROVE QueueOwned'
  OBVIOUS
<1>1. CASE UNCHANGED <<caller, queue>>
  BY <1>1 DEF QueueOwned, Awaits
<1> USE SessionAssumption
<1> USE DEF TypeOK, StoreTypeOK
<1>2. ASSUME NEW q \in Requests, Refuse(q) \/ Admit(q) \/ SpawnThrows(q) PROVE QueueOwned'
  <2>1. caller[q] \in {"idle", "reading"} /\ queue' = queue
        /\ \E c \in CallerState : caller' = [caller EXCEPT ![q] = c]
    BY <1>2 DEF Refuse, Admit, SpawnThrows, CallerState, storeVars
  <2>2. \A r \in Requests : caller[r] = "writing" => caller'[r] = "writing"
    BY <2>1
  <2> QED
    BY <2>1, <2>2, WaitingWrite DEF QueueOwned, Awaits
<1>3. ASSUME NEW q \in Requests, Register(q) PROVE QueueOwned'
  <2> DEFINE w == [by |-> q, step |-> "register", rec |-> Counted(KeyOf[q])]
  <2>1. /\ caller[q] = "reading" /\ caller' = [caller EXCEPT ![q] = "writing"]
        /\ queue' = [queue EXCEPT ![KeyOf[q]] = Append(@, w)]
    BY <1>3 DEF Register, QueueWrite
  <2>2. w.by = q /\ w.step = "register"
    OBVIOUS
  <2> HIDE DEF w
  <2> SUFFICES ASSUME NEW k \in Keys, NEW i \in 1..Len(queue'[k]), Awaits(k, i)'
               PROVE  /\ caller'[queue'[k][i].by] = "writing"
                      /\ KeyOf[queue'[k][i].by] = k
                      /\ \A j \in 1..Len(queue'[k]) :
                           Awaits(k, j)' /\ queue'[k][j].by = queue'[k][i].by => i = j
    BY DEF QueueOwned
  <2>3. ASSUME NEW j \in 1..Len(queue[k]) PROVE queue[k][j].by \in Requests
    BY WaitingWrite
  <2>4. CASE k # KeyOf[q]
    BY <2>1, <2>3, <2>4 DEF QueueOwned, Awaits, CallerState
  <2>5. CASE k = KeyOf[q]
    <3>1. /\ Len(queue'[k]) = Len(queue[k]) + 1
          /\ queue'[k][Len(queue[k]) + 1] = w
          /\ \A j \in 1..Len(queue[k]) : queue'[k][j] = queue[k][j]
      BY <2>1, <2>5
    <3>2. \A j \in 1..Len(queue[k]) : Awaits(k, j) => queue[k][j].by # q
      BY <2>1 DEF QueueOwned
    <3>3. CASE i = Len(queue[k]) + 1
      <4>1. queue'[k][i] = w
        BY <3>1, <3>3
      <4>2. caller'[q] = "writing" /\ KeyOf[q] = k
        BY <2>1, <2>5
      <4>3. ASSUME NEW j \in 1..Len(queue'[k]), Awaits(k, j)', queue'[k][j].by = q
            PROVE  i = j
        <5>1. CASE j \in 1..Len(queue[k])
          <6>1. queue'[k][j] = queue[k][j] /\ Awaits(k, j)
            BY <3>1, <4>3, <5>1 DEF Awaits
          <6> QED
            BY <3>2, <4>3, <5>1, <6>1
        <5>2. CASE j = Len(queue[k]) + 1
          BY <3>3, <5>2
        <5> QED
          BY <3>1, <5>1, <5>2
      <4> QED
        BY <2>2, <4>1, <4>2, <4>3
    <3>4. CASE i \in 1..Len(queue[k])
      <4>1. Awaits(k, i) /\ queue'[k][i] = queue[k][i]
        BY <3>1, <3>4 DEF Awaits
      <4>2. caller[queue[k][i].by] = "writing" /\ KeyOf[queue[k][i].by] = k
        BY <3>4, <4>1 DEF QueueOwned
      <4>3. caller'[queue[k][i].by] = "writing"
        BY <2>1, <2>3, <3>4, <4>2
      <4>4. ASSUME NEW j \in 1..Len(queue'[k]), Awaits(k, j)',
                   queue'[k][j].by = queue[k][i].by
            PROVE  i = j
        <5>1. j \in 1..Len(queue[k])
          BY <2>2, <3>1, <3>2, <3>4, <4>1, <4>4
        <5> QED
          BY <3>1, <3>4, <4>1, <4>4, <5>1 DEF QueueOwned, Awaits
      <4> QED
        BY <4>1, <4>2, <4>3, <4>4
    <3> QED
      BY <3>1, <3>3, <3>4
  <2> QED
    BY <2>4, <2>5
<1>4. ASSUME NEW q \in Requests, SaveSessionId(q) PROVE QueueOwned'
  <2> DEFINE w == [by |-> q, step |-> "finish",
                   rec |-> [record[KeyOf[q]] EXCEPT !.resume = saving[q]]]
  <2>1. caller' = caller /\ (queue' = queue \/ queue' = [queue EXCEPT ![KeyOf[q]] = Append(@, w)])
    BY <1>4 DEF SaveSessionId, QueueWrite
  <2>2. w.step # "register"
    OBVIOUS
  <2> HIDE DEF w
  <2>3. CASE queue' = queue
    BY <1>1, <2>1, <2>3
  <2>4. CASE queue' = [queue EXCEPT ![KeyOf[q]] = Append(@, w)]
    <3>1. \A k \in Keys : \A j \in 1..Len(queue'[k]) :
            \/ queue'[k][j] = w
            \/ j \in 1..Len(queue[k]) /\ queue'[k][j] = queue[k][j]
      BY <2>4
    <3>2. \A k \in Keys : \A j \in 1..Len(queue'[k]) :
            Awaits(k, j)' => j \in 1..Len(queue[k]) /\ queue'[k][j] = queue[k][j] /\ Awaits(k, j)
      BY <2>2, <3>1 DEF Awaits
    <3> QED
      BY <2>1, <3>2 DEF QueueOwned
  <2> QED
    BY <2>1, <2>3, <2>4
<1>5. ASSUME NEW k \in Keys, StoreStep(k) PROVE QueueOwned'
  <2>1. queue[k] # <<>> /\ queue' = [queue EXCEPT ![k] = Tail(@)]
    BY <1>5 DEF StoreStep, Written, WriteFails, HeadWritten, HeadFails
  <2>2. PICK outcome \in {"started", "rejected"} : Continue(Head(queue[k]), outcome)
    BY <1>5 DEF StoreStep, Written, WriteFails
  <2>3. Head(queue[k]) = queue[k][1] /\ 1 \in 1..Len(queue[k]) /\ queue[k][1] \in Write
    BY <2>1
  <2>4. \A l \in Keys : \A j \in 1..Len(queue'[l]) :
          \E h \in 1..Len(queue[l]) : /\ h = (IF l = k THEN j + 1 ELSE j)
                                      /\ queue'[l][j] = queue[l][h]
    BY <2>1
  <2>5. ASSUME NEW l \in Keys, NEW j \in 1..Len(queue'[l]), Awaits(l, j)'
        PROVE  caller'[queue'[l][j].by] = "writing"
    <3>1. PICK h \in 1..Len(queue[l]) : h = (IF l = k THEN j + 1 ELSE j)
                                        /\ queue'[l][j] = queue[l][h]
      BY <2>4
    <3>2. Awaits(l, h) /\ caller[queue[l][h].by] = "writing" /\ KeyOf[queue[l][h].by] = l
      BY <2>5, <3>1 DEF QueueOwned, Awaits
    <3>3. queue[l][h].by \in Requests
      BY WaitingWrite
    <3>4. CASE ~Awaits(k, 1)
      BY <2>2, <2>3, <3>1, <3>2, <3>4 DEF Continue, Awaits
    <3>5. CASE Awaits(k, 1)
      <4>1. queue[l][h].by # queue[k][1].by
        <5>1. KeyOf[queue[k][1].by] = k
          BY <2>3, <3>5 DEF QueueOwned
        <5>2. CASE l # k
          BY <3>2, <5>1, <5>2
        <5>3. CASE l = k
          <6>1. h # 1
            BY <3>1, <5>3
          <6> QED
            BY <2>3, <3>2, <3>5, <5>3, <6>1 DEF QueueOwned
        <5> QED
          BY <5>2, <5>3
      <4>2. caller' = [caller EXCEPT ![queue[k][1].by] = outcome]
        BY <2>2, <2>3, <3>5 DEF Continue, Awaits
      <4> QED
        BY <3>1, <3>2, <3>3, <4>1, <4>2
    <3> QED
      BY <3>4, <3>5
  <2>6. ASSUME NEW l \in Keys, NEW i \in 1..Len(queue'[l]), Awaits(l, i)'
        PROVE  /\ KeyOf[queue'[l][i].by] = l
               /\ \A j \in 1..Len(queue'[l]) :
                    Awaits(l, j)' /\ queue'[l][j].by = queue'[l][i].by => i = j
    <3>1. PICK h \in 1..Len(queue[l]) : h = (IF l = k THEN i + 1 ELSE i)
                                        /\ queue'[l][i] = queue[l][h]
      BY <2>4
    <3>2. Awaits(l, h)
      BY <2>6, <3>1 DEF Awaits
    <3>3. ASSUME NEW j \in 1..Len(queue'[l]), Awaits(l, j)',
                 queue'[l][j].by = queue'[l][i].by
          PROVE  i = j
      <4>1. PICK g \in 1..Len(queue[l]) : g = (IF l = k THEN j + 1 ELSE j)
                                          /\ queue'[l][j] = queue[l][g]
        BY <2>4
      <4>2. Awaits(l, g)
        BY <3>3, <4>1 DEF Awaits
      <4>3. h = g
        BY <3>1, <3>2, <3>3, <4>1, <4>2 DEF QueueOwned
      <4> QED
        BY <3>1, <4>1, <4>3
    <3> QED
      BY <3>1, <3>2, <3>3 DEF QueueOwned
  <2> QED
    BY <2>5, <2>6 DEF QueueOwned
<1>6. ASSUME NEW q \in Requests, ChildStep(q) \/ HandleDone(q) \/ Timeout(q) \/ GraceOver(q) \/ Killed(q)
      PROVE  UNCHANGED <<caller, queue>>
  BY <1>6 DEF ChildStep, HandleDone, Timeout, GraceOver, Killed, storeVars, managerVars
<1>7. BeginShutdown \/ EndShutdown \/ UNCHANGED vars => UNCHANGED <<caller, queue>>
  BY DEF BeginShutdown, EndShutdown, storeVars, managerVars, vars
<1> QED
  BY <1>1, <1>2, <1>3, <1>4, <1>5, <1>6, <1>7 DEF Next, Internal

Base == TypeOK /\ Placement /\ QueueOwned

LEMMA InitBase == Init => Base
<1> SUFFICES ASSUME Init PROVE Base
  OBVIOUS
<1>1. TypeOK
  BY InitType
<1>2. Placement
  BY DEF Init, ExecutorInit, Placement, Placed
<1>3. QueueOwned
  BY DEF Init, StoreInit, QueueOwned
<1> QED
  BY <1>1, <1>2, <1>3 DEF Base

LEMMA NextBase == Base /\ [Next]_vars => Base'
BY NextType, NextPlacement, NextOwned DEF Base

\* Sessions are placed once, their writes are owned by the calls that wait for
\* them, and the Map never holds one whose end was handled.
LEMMA BaseAlways == Spec => []Base
BY InitBase, NextBase, PTL DEF Spec

\* A key, once made, and an exit are for ever.
LEMMA KeysAndExitsStay ==
  ASSUME Base, [Next]_vars
  PROVE  /\ \A r \in Requests : stamp[r] # 0 => stamp'[r] = stamp[r]
         /\ \A r \in Requests : Exited(r) => Exited(r)'
         /\ \A r \in Requests : Running(r)' => Running(r) \/ ~Placed(r)
<1> USE DEF Base, TypeOK, ExecutorTypeOK, Placement, Placed, Exited, Running
<1>1. ASSUME NEW q \in Requests, Register(q)
      PROVE  /\ caller[q] = "reading"
             /\ child' = [child EXCEPT ![q] = "running"]
             /\ \A r \in Requests \ {q} : stamp'[r] = stamp[r]
  BY <1>1 DEF Register, Spawn
<1>2. ASSUME NEW q \in Requests, ChildStep(q) \/ Killed(q)
      PROVE  /\ stamp' = stamp
             /\ \A r \in Requests : child'[r] = child[r] \/ (child[r] = "running" /\ Exited(r)')
  BY <1>2, OutcomesAssumption
     DEF ChildStep, Killed, PrintSessionId, Exit, DieOfSigkill, managerVars, DoneStatus
<1>3. ASSUME NEW q \in Requests,
             Refuse(q) \/ Admit(q) \/ SpawnThrows(q) \/ HandleDone(q) \/ SaveSessionId(q)
               \/ Timeout(q) \/ GraceOver(q)
      PROVE  UNCHANGED <<stamp, child>>
  BY <1>3 DEF Refuse, Admit, SpawnThrows, HandleDone, SaveSessionId, Timeout, GraceOver, executorVars
<1>4. ASSUME NEW k \in Keys, StoreStep(k) PROVE UNCHANGED <<stamp, child>>
  BY <1>4 DEF StoreStep, Written, WriteFails, executorVars
<1>5. BeginShutdown \/ EndShutdown \/ UNCHANGED vars => UNCHANGED <<stamp, child>>
  BY DEF BeginShutdown, EndShutdown, vars, executorVars, managerVars
<1>6. \/ \E q \in Requests : Register(q)
      \/ \E q \in Requests : ChildStep(q) \/ Killed(q)
      \/ UNCHANGED <<stamp, child>>
  BY <1>3, <1>4, <1>5 DEF Next, Internal
<1>7. CASE \E q \in Requests : Register(q)
  BY <1>1, <1>7 DEF DoneStatus
<1>8. CASE \E q \in Requests : ChildStep(q) \/ Killed(q)
  BY <1>2, <1>8 DEF DoneStatus
<1>9. CASE UNCHANGED <<stamp, child>>
  BY <1>9
<1> QED
  BY <1>6, <1>7, <1>8, <1>9

\* So two sessions with the same key stay two sessions with the same key.
LEMMA CollisionsStay ==
  ASSUME Base, [Next]_vars, NEW r \in Requests, Collided(r)
  PROVE  Collided(r)'
<1>1. PICK q \in Requests \ {r} : stamp[r] # 0 /\ q \in Under(KeyOf[r], stamp[r])
  BY DEF Collided
<1>2. stamp'[r] = stamp[r] /\ stamp'[q] = stamp[q]
  BY <1>1, KeysAndExitsStay DEF Under
<1> QED
  BY <1>1, <1>2 DEF Collided, Under

-----------------------------------------------------------------------------
(***************************************************************************)
(* Timeouts.                                                               *)
(***************************************************************************)

LEMMA NextTimed == Base /\ TimedOrTold /\ [Next]_vars => TimedOrTold'
<1> SUFFICES ASSUME Base, TimedOrTold, [Next]_vars,
                    NEW s \in Requests, s \in active', Running(s)'
             PROVE  s \in (timers \cup termSent \cup killSent)'
  BY NextBase DEF TimedOrTold, Base, TypeOK
<1> USE DEF TimedOrTold, Running
<1>1. ASSUME NEW q \in Requests, Refuse(q) \/ Admit(q) \/ SpawnThrows(q) \/ SaveSessionId(q)
      PROVE  UNCHANGED <<child, active, timers, termSent, killSent>>
  BY <1>1 DEF Refuse, Admit, SpawnThrows, SaveSessionId, executorVars
<1>2. ASSUME NEW k \in Keys, StoreStep(k)
      PROVE  UNCHANGED <<child, active, timers, termSent, killSent>>
  BY <1>2 DEF StoreStep, Written, WriteFails, executorVars
<1>3. ASSUME NEW q \in Requests, ChildStep(q) \/ Killed(q)
      PROVE  /\ UNCHANGED <<active, timers, termSent, killSent>>
             /\ Running(s)
  BY <1>3, KeysAndExitsStay
     DEF ChildStep, Killed, PrintSessionId, Exit, DieOfSigkill, managerVars, Base, Placement
<1>4. CASE BeginShutdown
  BY <1>4 DEF BeginShutdown, Terminated
<1>5. CASE EndShutdown
  BY <1>5 DEF EndShutdown
<1>6. ASSUME NEW q \in Requests, Register(q)
      PROVE  s \in (timers \cup termSent \cup killSent)'
  BY <1>6 DEF Register, Spawn, Scheduled, Base, TypeOK, ExecutorTypeOK
<1>7. ASSUME NEW q \in Requests, HandleDone(q)
      PROVE  s \in (timers \cup termSent \cup killSent)'
  BY <1>7 DEF HandleDone, Found, Entry, executorVars
<1>8. ASSUME NEW q \in Requests, Timeout(q)
      PROVE  s \in (timers \cup termSent \cup killSent)'
  BY <1>8 DEF Timeout, Terminated, Entry, Under
<1>9. ASSUME NEW q \in Requests, GraceOver(q)
      PROVE  s \in (timers \cup termSent \cup killSent)'
  BY <1>9 DEF GraceOver, ForceKilled
<1>10. UNCHANGED vars => UNCHANGED <<child, active, timers, termSent, killSent>>
  BY DEF vars, executorVars, managerVars
<1> QED
  BY <1>1, <1>2, <1>3, <1>4, <1>5, <1>6, <1>7, <1>8, <1>9, <1>10 DEF Next, Internal

LEMMA InitTimed == Init => TimedOrTold
BY DEF Init, TimedOrTold

\* A running session in the Map has its timeout armed or was told to end
\* (manager.ts:122, 245-262), however many sessions shared its key.
THEOREM SessionsTimedOrTold == Spec => []TimedOrTold
BY BaseAlways, InitTimed, NextTimed, PTL DEF Spec

-----------------------------------------------------------------------------
(***************************************************************************)
(* Signals.                                                                *)
(***************************************************************************)

\* A session whose forceKill is due, or that shutdown awaits, was signalled.
Warned ==
  /\ \A r \in grace \cup awaited : Running(r) => r \in termSent \cup killSent
  /\ phase = "up" => awaited = {}

LEMMA NextWarned == Base /\ Warned /\ KillAfterTerm /\ [Next]_vars => Warned' /\ KillAfterTerm'
<1> SUFFICES ASSUME Base, Warned, KillAfterTerm, [Next]_vars
             PROVE  Warned' /\ KillAfterTerm'
  OBVIOUS
<1> USE DEF Base, TypeOK, ExecutorTypeOK, Warned, KillAfterTerm, Running
<1>1. ASSUME NEW q \in Requests,
             Refuse(q) \/ Admit(q) \/ SpawnThrows(q) \/ SaveSessionId(q) \/ HandleDone(q)
      PROVE  UNCHANGED <<child, grace, awaited, phase, termSent, killSent>>
  BY <1>1 DEF Refuse, Admit, SpawnThrows, SaveSessionId, HandleDone, executorVars
<1>2. ASSUME NEW k \in Keys, StoreStep(k)
      PROVE  UNCHANGED <<child, grace, awaited, phase, termSent, killSent>>
  BY <1>2 DEF StoreStep, Written, WriteFails, executorVars
<1>3. ASSUME NEW q \in Requests, ChildStep(q) \/ Killed(q)
      PROVE  Warned' /\ KillAfterTerm'
  <2>1. UNCHANGED <<grace, awaited, phase, termSent, killSent>>
    BY <1>3 DEF ChildStep, Killed, PrintSessionId, Exit, DieOfSigkill, managerVars
  <2>2. \A r \in grace \cup awaited : Running(r)' => Running(r)
    BY KeysAndExitsStay DEF Placement
  <2> QED
    BY <2>1, <2>2
<1>4. CASE BeginShutdown
  BY <1>4 DEF BeginShutdown, Terminated
<1>5. CASE EndShutdown
  BY <1>5 DEF EndShutdown, KilledAtEnd, ForceKilled
<1>6. ASSUME NEW q \in Requests, Register(q)
      PROVE  Warned' /\ KillAfterTerm'
  <2>1. q \notin grace \cup awaited
    BY <1>6 DEF Register, Placement, Placed
  <2> QED
    BY <1>6, <2>1 DEF Register, Spawn
<1>7. ASSUME NEW q \in Requests, Timeout(q)
      PROVE  Warned' /\ KillAfterTerm'
  BY <1>7 DEF Timeout, Terminated, GraceFor
<1>8. ASSUME NEW q \in Requests, GraceOver(q)
      PROVE  Warned' /\ KillAfterTerm'
  BY <1>8 DEF GraceOver, ForceKilled
<1>9. UNCHANGED vars => UNCHANGED <<child, grace, awaited, phase, termSent, killSent>>
  BY DEF vars, executorVars, managerVars
<1> QED
  BY <1>1, <1>2, <1>3, <1>4, <1>5, <1>6, <1>7, <1>8, <1>9 DEF Next, Internal

LEMMA InitWarned == Init => Warned /\ KillAfterTerm
BY DEF Init, ExecutorInit, Warned, KillAfterTerm

\* No process gets SIGKILL that did not get SIGTERM before, except one that
\* registered while shutdown was waiting (manager.ts:161-176, 250-257).
THEOREM SigkillAfterSigterm == Spec => []KillAfterTerm
BY BaseAlways, InitWarned, NextWarned, PTL DEF Spec

-----------------------------------------------------------------------------
(***************************************************************************)
(* Shutdown.                                                               *)
(***************************************************************************)

\* While shutdown waits, what it waits for is still in the Map, or ended, or
\* has lost its key.
Drained ==
  phase = "draining" =>
    \A r \in awaited : Running(r) => r \in active \/ Collided(r)

\* The sessions that a step takes out of the Map.
LEMMA Leaving ==
  ASSUME Base, [Next]_vars, NEW r \in active \ active'
  PROVE  Exited(r) \/ phase' = "down" \/ Collided(r)'
<1> USE DEF Base, TypeOK, Placement
<1>1. ASSUME NEW q \in Requests, Register(q) PROVE Collided(r)'
  <2>1. PICK t \in {now, Later} :
          /\ stamp' = [stamp EXCEPT ![q] = t]
          /\ active' = (active \ Under(KeyOf[q], t)) \cup {q}
    BY <1>1 DEF Register
  <2>2. r # q /\ KeyOf[r] = KeyOf[q] /\ stamp[r] = t
    BY <2>1 DEF Under
  <2>3. stamp[r] # 0
    OBVIOUS
  <2>4. stamp'[q] = t /\ stamp'[r] = t
    BY <2>1, <2>2
  <2> QED
    BY <2>2, <2>3, <2>4 DEF Collided, Under
<1>2. ASSUME NEW q \in Requests, HandleDone(q) PROVE Exited(r) \/ Collided(r)'
  <2>1. r \in Under(KeyOf[q], stamp[q]) /\ Exited(q)
    BY <1>2 DEF HandleDone, Found, Entry
  <2>2. CASE r = q
    BY <2>1, <2>2
  <2>3. CASE r # q
    <3>1. Collided(r)
      BY <2>1, <2>3 DEF Collided, Under
    <3> QED
      BY <3>1, CollisionsStay
  <2> QED
    BY <2>2, <2>3
<1>3. ASSUME NEW q \in Requests,
             Refuse(q) \/ Admit(q) \/ SpawnThrows(q) \/ ChildStep(q) \/ SaveSessionId(q)
               \/ Timeout(q) \/ GraceOver(q) \/ Killed(q)
      PROVE  active' = active
  BY <1>3 DEF Refuse, Admit, SpawnThrows, ChildStep, SaveSessionId, Timeout, GraceOver, Killed,
     managerVars
<1>4. ASSUME NEW k \in Keys, StoreStep(k) PROVE active' = active
  BY <1>4 DEF StoreStep, Written, WriteFails
<1>5. BeginShutdown \/ UNCHANGED vars => active' = active
  BY DEF BeginShutdown, vars, managerVars
<1>6. EndShutdown => phase' = "down"
  BY DEF EndShutdown
<1> QED
  BY <1>1, <1>2, <1>3, <1>4, <1>5, <1>6 DEF Next, Internal

\* A session leaves the Map because it ended, because shutdown cleared the Map,
\* or because another one had its key (manager.ts:121, 177, 233).
THEOREM LeavesWhenEnded == Spec => LeavesMapWhenEnded
<1>1. Base /\ [Next]_vars =>
        [\A r \in active \ active' : Exited(r) \/ phase' = "down" \/ Collided(r)']_vars
  BY Leaving
<1> QED
  BY <1>1, BaseAlways, PTL DEF Spec, LeavesMapWhenEnded

LEMMA NextDrained ==
  Base /\ Drained /\ ShutdownReachesAll /\ [Next]_vars => Drained' /\ ShutdownReachesAll'
<1> SUFFICES ASSUME Base, Drained, ShutdownReachesAll, [Next]_vars
             PROVE  Drained' /\ ShutdownReachesAll'
  OBVIOUS
<1> USE DEF Base, TypeOK, ExecutorTypeOK, Drained, ShutdownReachesAll
<1>1. CASE BeginShutdown
  BY <1>1 DEF BeginShutdown, Running
<1>2. CASE EndShutdown
  <2>1. phase = "draining" /\ phase' = "down" /\ killSent' = ForceKilled(active)
        /\ UNCHANGED <<child, awaited>>
    BY <1>2 DEF EndShutdown, KilledAtEnd
  <2> QED
    BY <2>1, CollisionsStay DEF ForceKilled, Running
<1>3. ASSUME NEW r \in awaited, UNCHANGED <<awaited, phase>>, killSent \subseteq killSent',
             Running(r)'
      PROVE  /\ phase = "draining" => r \in active' \/ Collided(r)'
             /\ phase = "down" => r \in killSent' \/ Collided(r)'
  <2>1. Running(r)
    BY <1>3, KeysAndExitsStay DEF Placement
  <2> QED
    BY <1>3, <2>1, Leaving, CollisionsStay DEF Exited, Running, DoneStatus
<1>4. ASSUME NEW q \in Requests,
             Refuse(q) \/ Admit(q) \/ ChildStep(q) \/ Register(q) \/ SpawnThrows(q)
               \/ HandleDone(q) \/ SaveSessionId(q) \/ Timeout(q) \/ GraceOver(q) \/ Killed(q)
      PROVE  UNCHANGED <<awaited, phase>> /\ killSent \subseteq killSent'
  BY <1>4 DEF Refuse, Admit, SpawnThrows, ChildStep, PrintSessionId, Exit, Register, HandleDone,
     SaveSessionId, Timeout, GraceOver, ForceKilled, Killed, DieOfSigkill, executorVars, managerVars
<1>5. ASSUME NEW k \in Keys, StoreStep(k)
      PROVE  UNCHANGED <<awaited, phase>> /\ killSent \subseteq killSent'
  BY <1>5 DEF StoreStep, Written, WriteFails, executorVars
<1>6. UNCHANGED vars => UNCHANGED <<awaited, phase>> /\ killSent \subseteq killSent'
  BY DEF vars, executorVars, managerVars
<1>7. \/ BeginShutdown \/ EndShutdown
      \/ UNCHANGED <<awaited, phase>> /\ killSent \subseteq killSent'
  BY <1>4, <1>5, <1>6 DEF Next, Internal
<1> QED
  BY <1>1, <1>2, <1>3, <1>7

LEMMA InitDrained == Init => Drained /\ ShutdownReachesAll
BY DEF Init, Drained, ShutdownReachesAll

\* After shutdown, every session it found has ended or was sent SIGKILL, unless
\* a session with its key hid it from the Map (manager.ts:113, 151-180).
THEOREM ShutdownReachesSessions == Spec => []ShutdownReachesAll
BY BaseAlways, InitDrained, NextDrained, PTL DEF Spec

-----------------------------------------------------------------------------
(***************************************************************************)
(* Capacity.                                                               *)
(***************************************************************************)

\* A request is counted as overlapping at most once, when it is admitted.
OverlapsAdmitted == \A r \in overlapped : caller[r] # "idle"

LEMMA SubsetsFinite ==
  ASSUME NEW S \in SUBSET Requests
  PROVE  IsFiniteSet(S) /\ Cardinality(S) \in Nat
BY SessionAssumption, FS_Subset, FS_CardinalityType

LEMMA NextCapacity ==
  Base /\ OverlapsAdmitted /\ CapacityWithinOverlap /\ [Next]_vars
    => OverlapsAdmitted' /\ CapacityWithinOverlap'
<1> SUFFICES ASSUME Base, OverlapsAdmitted, CapacityWithinOverlap, [Next]_vars
             PROVE  OverlapsAdmitted' /\ CapacityWithinOverlap'
  OBVIOUS
<1> USE DEF Base, TypeOK, OverlapsAdmitted
<1>0. /\ Reading \in SUBSET Requests /\ Reading' \in SUBSET Requests
      /\ active' \in SUBSET Requests
  BY NextBase DEF Reading
<1>1. Cardinality(active) \in Nat /\ Cardinality(Reading) \in Nat /\ Cardinality(overlapped) \in Nat
  BY <1>0, SubsetsFinite
<1>2. MaxSessions \in Nat
  BY SessionAssumption
\* Most steps only take sessions out.
<1>3. ASSUME active' \subseteq active, Reading' = Reading, overlapped' = overlapped
      PROVE  CapacityWithinOverlap'
  <2>1. Cardinality(active') <= Cardinality(active)
    BY <1>3, SubsetsFinite, FS_Subset
  <2>2. Cardinality(active') \in Nat
    BY <1>0, SubsetsFinite
  <2> QED
    BY <1>1, <1>2, <1>3, <2>1, <2>2 DEF CapacityWithinOverlap
<1>4. ASSUME NEW r \in Requests, Refuse(r)
      PROVE  OverlapsAdmitted' /\ CapacityWithinOverlap'
  <2>1. caller[r] = "idle" /\ caller' = [caller EXCEPT ![r] = "refused"]
        /\ UNCHANGED <<active, overlapped>>
    BY <1>4 DEF Refuse
  <2>2. Reading' = Reading
    BY <2>1 DEF Reading
  <2> QED
    BY <1>3, <2>1, <2>2
<1>5. ASSUME NEW r \in Requests, Admit(r)
      PROVE  OverlapsAdmitted' /\ CapacityWithinOverlap'
  <2>1. /\ caller[r] = "idle" /\ ~Full
        /\ caller' = [caller EXCEPT ![r] = "reading"]
        /\ overlapped' = IF Reading = {} THEN overlapped ELSE overlapped \cup {r}
        /\ active' = active
    BY <1>5 DEF Admit
  <2>2. Reading' = Reading \cup {r} /\ r \notin Reading
    BY <2>1 DEF Reading
  <2>3. Cardinality(Reading') = Cardinality(Reading) + 1
    BY <1>0, <2>2, SubsetsFinite, FS_AddElement
  <2>4. r \notin overlapped
    BY <2>1
  <2>5. CASE Reading = {}
    <3>1. Cardinality(Reading) = 0
      BY <2>5, FS_EmptySet
    <3>2. Cardinality(active) < MaxSessions
      BY <1>1, <1>2, <2>1 DEF Full
    <3> QED
      BY <1>1, <1>2, <2>1, <2>3, <2>5, <3>1, <3>2 DEF CapacityWithinOverlap
  <2>6. CASE Reading # {}
    <3>1. Cardinality(overlapped') = Cardinality(overlapped) + 1
      BY <2>1, <2>4, <2>6, SubsetsFinite, FS_AddElement
    <3> QED
      BY <1>1, <1>2, <2>1, <2>3, <2>6, <3>1 DEF CapacityWithinOverlap
  <2> QED
    BY <2>5, <2>6
<1>6. ASSUME NEW r \in Requests, Register(r)
      PROVE  OverlapsAdmitted' /\ CapacityWithinOverlap'
  <2>1. PICK t \in {now, Later} : active' = (active \ Under(KeyOf[r], t)) \cup {r}
    BY <1>6 DEF Register
  <2>2. caller[r] = "reading" /\ caller' = [caller EXCEPT ![r] = "writing"]
        /\ overlapped' = overlapped
    BY <1>6 DEF Register
  <2>3. Reading' = Reading \ {r} /\ r \in Reading
    BY <2>2 DEF Reading
  <2>4. Cardinality(Reading') = Cardinality(Reading) - 1
    BY <1>0, <2>3, SubsetsFinite, FS_RemoveElement
  <2>5. Cardinality(active') <= Cardinality(active) + 1
    <3>1. active' \subseteq active \cup {r}
      BY <2>1
    <3>2. IsFiniteSet(active \cup {r}) /\ Cardinality(active') <= Cardinality(active \cup {r})
      BY <3>1, SubsetsFinite, FS_Subset
    <3>3. Cardinality(active \cup {r}) \in {Cardinality(active), Cardinality(active) + 1}
      BY SubsetsFinite, FS_AddElement
    <3>4. Cardinality(active') \in Nat
      BY <1>0, SubsetsFinite
    <3> QED
      BY <1>1, <3>2, <3>3, <3>4
  <2>6. Cardinality(active') \in Nat
    BY <1>0, SubsetsFinite
  <2> QED
    BY <1>1, <1>2, <2>2, <2>4, <2>5, <2>6 DEF CapacityWithinOverlap
<1>7. ASSUME NEW k \in Keys, StoreStep(k)
      PROVE  OverlapsAdmitted' /\ CapacityWithinOverlap'
  <2>1. PICK outcome \in {"started", "rejected"} : Continue(Head(queue[k]), outcome)
    BY <1>7 DEF StoreStep, Written, WriteFails
  <2>2. UNCHANGED <<active, overlapped>> /\ queue[k] # <<>>
    BY <1>7 DEF StoreStep, Written, WriteFails, HeadWritten, HeadFails
  <2>3. Head(queue[k]) = queue[k][1] /\ 1 \in 1..Len(queue[k])
    BY <2>2 DEF StoreTypeOK
  <2>4. Awaits(k, 1) => caller[queue[k][1].by] = "writing"
    BY <2>3 DEF QueueOwned
  <2>5. queue[k][1].by \in Requests
    BY <2>3, WaitingWrite
  <2>6. \A r \in Requests : (caller[r] = "writing" /\ caller'[r] = outcome) \/ caller'[r] = caller[r]
    BY <2>1, <2>3, <2>4, <2>5 DEF Continue, Awaits
  <2>7. Reading' = Reading
    BY <2>6 DEF Reading
  <2> QED
    BY <1>3, <2>2, <2>6, <2>7
<1>8. ASSUME NEW r \in Requests,
             ChildStep(r) \/ HandleDone(r) \/ SaveSessionId(r) \/ Timeout(r) \/ GraceOver(r)
               \/ Killed(r)
      PROVE  UNCHANGED <<caller, overlapped>> /\ active' \subseteq active
  BY <1>8 DEF ChildStep, HandleDone, SaveSessionId, Timeout, GraceOver, Killed, managerVars
<1>9. BeginShutdown \/ EndShutdown \/ UNCHANGED vars
        => UNCHANGED <<caller, overlapped>> /\ active' \subseteq active
  BY DEF BeginShutdown, EndShutdown, vars, managerVars
<1>10. ASSUME UNCHANGED <<caller, overlapped>>, active' \subseteq active
       PROVE  OverlapsAdmitted' /\ CapacityWithinOverlap'
  BY <1>3, <1>10 DEF Reading
<1>11. ASSUME NEW r \in Requests, SpawnThrows(r)
       PROVE  OverlapsAdmitted' /\ CapacityWithinOverlap'
  <2>1. caller[r] = "reading" /\ caller' = [caller EXCEPT ![r] = "rejected"]
        /\ UNCHANGED <<active, overlapped>>
    BY <1>11 DEF SpawnThrows
  <2>2. Reading' \subseteq Reading
    BY <2>1 DEF Reading
  <2>3. Cardinality(Reading') <= Cardinality(Reading) /\ Cardinality(Reading') \in Nat
    BY <1>0, <2>2, SubsetsFinite, FS_Subset
  <2> QED
    BY <1>1, <1>2, <2>1, <2>3 DEF CapacityWithinOverlap
<1> QED
  BY <1>4, <1>5, <1>6, <1>7, <1>8, <1>9, <1>10, <1>11 DEF Next, Internal

LEMMA InitCapacity == Init => OverlapsAdmitted /\ CapacityWithinOverlap
<1> SUFFICES ASSUME Init PROVE OverlapsAdmitted /\ CapacityWithinOverlap
  OBVIOUS
<1>1. active = {} /\ Reading = {} /\ overlapped = {}
  BY DEF Init, Reading
<1>2. Cardinality({}) = 0 /\ MaxSessions \in Nat
  BY FS_EmptySet, SessionAssumption
<1> QED
  BY <1>1, <1>2 DEF OverlapsAdmitted, CapacityWithinOverlap

\* The limit of manager.ts:92 is exceeded by no more sessions than calls that
\* passed the check while another call awaited its record (manager.ts:100).
THEOREM CapacityBounded == Spec => []CapacityWithinOverlap
BY BaseAlways, InitCapacity, NextCapacity, PTL DEF Spec

-----------------------------------------------------------------------------
(***************************************************************************)
(* The session id offered for resumption.                                  *)
(***************************************************************************)

\* What may stand in the record of k: no id, or a session of k that ended.
Resumable(k) ==
  {id \in Requests \cup {None} : id # None => KeyOf[id] = k /\ (Exited(id) \/ Collided(id))}

\* That is what stands on disk, in the writes that wait, and in those to come.
ResumableEverywhere ==
  /\ \A k \in Keys : record[k] # None => record[k].resume \in Resumable(k)
  /\ \A k \in Keys : \A i \in 1..Len(queue[k]) : queue[k][i].rec.resume \in Resumable(k)
  /\ \A r \in Requests : saving[r] \in Resumable(KeyOf[r])

LEMMA ResumableStays ==
  ASSUME Base, [Next]_vars, NEW k \in Keys
  PROVE  Resumable(k) \subseteq Resumable(k)'
<1> SUFFICES ASSUME NEW id \in Requests, KeyOf[id] = k, Exited(id) \/ Collided(id)
             PROVE  Exited(id)' \/ Collided(id)'
  BY DEF Resumable
<1> QED
  BY KeysAndExitsStay, CollisionsStay

\* Writes to the queue of a key keep its ids resumable if the new one is.
LEMMA ResumableAppend ==
  ASSUME Base, ResumableEverywhere, NEW l \in Keys, NEW w \in Write,
         w.rec.resume \in Resumable(l), queue' = [queue EXCEPT ![l] = Append(@, w)],
         NEW k \in Keys, NEW i \in 1..Len(queue'[k])
  PROVE  queue'[k][i].rec.resume \in Resumable(k)
<1>1. \/ queue'[k][i] = w /\ k = l
      \/ i \in 1..Len(queue[k]) /\ queue'[k][i] = queue[k][i]
  BY DEF Base, TypeOK, StoreTypeOK
<1> QED
  BY <1>1 DEF ResumableEverywhere

LEMMA NextResumable == Base /\ ResumableEverywhere /\ [Next]_vars => ResumableEverywhere'
<1> SUFFICES ASSUME Base, ResumableEverywhere, [Next]_vars PROVE ResumableEverywhere'
  OBVIOUS
<1> USE SessionAssumption
<1> USE DEF Base, TypeOK
<1> SUFFICES
      /\ \A k \in Keys : record'[k] # None => record'[k].resume \in Resumable(k)
      /\ \A k \in Keys : \A i \in 1..Len(queue'[k]) : queue'[k][i].rec.resume \in Resumable(k)
      /\ \A r \in Requests : saving'[r] \in Resumable(KeyOf[r])
  BY ResumableStays DEF ResumableEverywhere
<1>1. CASE UNCHANGED <<record, queue, saving>>
  BY <1>1 DEF ResumableEverywhere
<1>2. ASSUME NEW r \in Requests, Register(r)
      PROVE  /\ UNCHANGED <<record, saving>>
             /\ \A k \in Keys : \A i \in 1..Len(queue'[k]) :
                  queue'[k][i].rec.resume \in Resumable(k)
  <2> DEFINE w == [by |-> r, step |-> "register", rec |-> Counted(KeyOf[r])]
  <2>1. UNCHANGED <<record, saving>> /\ queue' = [queue EXCEPT ![KeyOf[r]] = Append(@, w)]
    BY <1>2 DEF Register, QueueWrite
  <2>2. w \in Write
    BY CountedType DEF Write, StoreTypeOK
  <2>3. Counted(KeyOf[r]).resume \in Resumable(KeyOf[r])
    <3>1. CASE record[KeyOf[r]] = None
      BY <3>1 DEF Counted, Resumable
    <3>2. CASE record[KeyOf[r]] # None
      <4>1. Counted(KeyOf[r]).resume = record[KeyOf[r]].resume
        BY <3>2 DEF Counted, StoreTypeOK, Record
      <4> QED
        BY <3>2, <4>1 DEF ResumableEverywhere
    <3> QED
      BY <3>1, <3>2
  <2>4. w.rec.resume \in Resumable(KeyOf[r])
    BY <2>3
  <2> HIDE DEF w
  <2> QED
    BY <2>1, <2>2, <2>4, ResumableAppend
<1>3. ASSUME NEW k \in Keys, StoreStep(k)
      PROVE  /\ saving' = saving
             /\ \A l \in Keys : record'[l] # None => record'[l].resume \in Resumable(l)
             /\ \A l \in Keys : \A i \in 1..Len(queue'[l]) :
                  queue'[l][i].rec.resume \in Resumable(l)
  <2>1. /\ saving' = saving /\ queue[k] # <<>>
        /\ queue' = [queue EXCEPT ![k] = Tail(@)]
        /\ record' = record \/ record' = [record EXCEPT ![k] = Head(queue[k]).rec]
    BY <1>3 DEF StoreStep, Written, WriteFails, HeadWritten, HeadFails
  <2>2. Head(queue[k]) = queue[k][1] /\ 1 \in 1..Len(queue[k])
    BY <2>1 DEF StoreTypeOK
  <2>3. \A l \in Keys : record'[l] = record[l] \/ (l = k /\ record'[l] = queue[k][1].rec)
    BY <2>1, <2>2 DEF StoreTypeOK
  <2>4. \A l \in Keys : record'[l] # None => record'[l].resume \in Resumable(l)
    BY <2>2, <2>3 DEF ResumableEverywhere
  <2>5. \A l \in Keys : \A i \in 1..Len(queue'[l]) :
          \E j \in 1..Len(queue[l]) : queue'[l][i] = queue[l][j]
    <3> SUFFICES ASSUME NEW l \in Keys, NEW i \in 1..Len(queue'[l])
                 PROVE  \E j \in 1..Len(queue[l]) : queue'[l][i] = queue[l][j]
      OBVIOUS
    <3>1. CASE l # k
      BY <2>1, <3>1 DEF StoreTypeOK
    <3>2. CASE l = k
      <4>1. i + 1 \in 1..Len(queue[l]) /\ queue'[l][i] = queue[l][i + 1]
        BY <2>1, <3>2 DEF StoreTypeOK
      <4> QED
        BY <4>1
    <3> QED
      BY <3>1, <3>2
  <2> QED
    BY <2>1, <2>4, <2>5 DEF ResumableEverywhere
<1>4. ASSUME NEW r \in Requests, HandleDone(r)
      PROVE  /\ UNCHANGED <<record, queue>>
             /\ \A q \in Requests : saving'[q] \in Resumable(KeyOf[q])
  <2>1. /\ UNCHANGED <<record, queue>> /\ Exited(r)
        /\ saving' = IF Found(r) \cap identified # {}
                     THEN [saving EXCEPT ![r] = CHOOSE q \in Found(r) \cap identified : TRUE]
                     ELSE saving
    BY <1>4 DEF HandleDone, storeVars
  <2>2. ASSUME NEW q \in Found(r) PROVE q \in Resumable(KeyOf[r])
    <3>1. q \in Requests /\ q \in active /\ KeyOf[q] = KeyOf[r] /\ stamp[q] = stamp[r]
      BY <2>2 DEF Found, Entry, Under
    <3>2. q # r => Collided(q)
      BY <3>1 DEF Collided, Under, Placement
    <3> QED
      BY <2>1, <3>1, <3>2 DEF Resumable
  <2>3. CASE Found(r) \cap identified # {}
    <3>1. (CHOOSE q \in Found(r) \cap identified : TRUE) \in Found(r)
      BY <2>3
    <3> QED
      BY <2>1, <2>2, <2>3, <3>1 DEF ResumableEverywhere
  <2>4. CASE Found(r) \cap identified = {}
    BY <2>1, <2>4 DEF ResumableEverywhere
  <2> QED
    BY <2>1, <2>3, <2>4
<1>5. ASSUME NEW r \in Requests, SaveSessionId(r)
      PROVE  /\ record' = record
             /\ \A k \in Keys : \A i \in 1..Len(queue'[k]) :
                  queue'[k][i].rec.resume \in Resumable(k)
             /\ \A q \in Requests : saving'[q] \in Resumable(KeyOf[q])
  <2> DEFINE w == [by |-> r, step |-> "finish",
                   rec |-> [record[KeyOf[r]] EXCEPT !.resume = saving[r]]]
  <2>1. /\ record' = record /\ saving' = [saving EXCEPT ![r] = None]
        /\ saving[r] # None
    BY <1>5 DEF SaveSessionId
  <2>2. \A q \in Requests : saving'[q] \in Resumable(KeyOf[q])
    BY <2>1 DEF ResumableEverywhere, Resumable
  <2>3. CASE record[KeyOf[r]] = None
    BY <1>5, <2>1, <2>2, <2>3 DEF SaveSessionId, ResumableEverywhere
  <2>4. CASE record[KeyOf[r]] # None
    <3>1. queue' = [queue EXCEPT ![KeyOf[r]] = Append(@, w)]
      BY <1>5, <2>4 DEF SaveSessionId, QueueWrite
    <3>2. w \in Write
      BY <2>1, <2>4, ResumeType DEF StoreTypeOK, Write
    <3>3. w.rec.resume = saving[r]
      BY <2>4 DEF StoreTypeOK, Record
    <3>4. w.rec.resume \in Resumable(KeyOf[r])
      BY <3>3 DEF ResumableEverywhere
    <3> HIDE DEF w
    <3> QED
      BY <2>1, <2>2, <3>1, <3>2, <3>4, ResumableAppend
  <2> QED
    BY <2>3, <2>4
<1>6. ASSUME NEW r \in Requests,
             Refuse(r) \/ Admit(r) \/ SpawnThrows(r) \/ ChildStep(r) \/ Timeout(r)
               \/ GraceOver(r) \/ Killed(r)
      PROVE  UNCHANGED <<record, queue, saving>>
  BY <1>6 DEF Refuse, Admit, SpawnThrows, ChildStep, Timeout, GraceOver, Killed, storeVars, managerVars
<1>7. BeginShutdown \/ EndShutdown \/ UNCHANGED vars => UNCHANGED <<record, queue, saving>>
  BY DEF BeginShutdown, EndShutdown, storeVars, managerVars, vars
<1> QED
  BY <1>1, <1>2, <1>3, <1>4, <1>5, <1>6, <1>7 DEF Next, Internal, ResumableEverywhere

LEMMA InitResumable == Init => ResumableEverywhere
BY SessionAssumption DEF Init, StoreInit, ResumableEverywhere, Resumable

LEMMA ResumableOnDisk == ResumableEverywhere => ResumesEndedSession
BY DEF ResumableEverywhere, Resumable, ResumesEndedSession

\* The id a record offers for resumption is of an ended session of that user
\* and channel, unless two sessions shared a key (manager.ts:219-231).
THEOREM ResumesEnded == Spec => []ResumesEndedSession
BY BaseAlways, InitResumable, NextResumable, ResumableOnDisk, PTL DEF Spec

-----------------------------------------------------------------------------
(***************************************************************************)
(* The promise to the router.                                              *)
(***************************************************************************)

\* At capacity the Map holds only sessions in progress.
LEMMA FullMeansInProgress ==
  ASSUME Base, Full
  PROVE  Cardinality(Pool!InProgress) >= MaxSessions
<1>1. active \subseteq Pool!InProgress
  BY DEF Base, TypeOK, Placement, Placed, Pool!InProgress
<1>2. IsFiniteSet(Pool!InProgress) /\ Cardinality(active) <= Cardinality(Pool!InProgress)
  <2>1. Pool!InProgress \in SUBSET Requests
    BY DEF Pool!InProgress
  <2> QED
    BY <1>1, <2>1, SubsetsFinite, FS_Subset
<1>3. Cardinality(active) \in Nat /\ Cardinality(Pool!InProgress) \in Nat
  <2>1. active \in SUBSET Requests /\ Pool!InProgress \in SUBSET Requests
    BY DEF Base, TypeOK, Pool!InProgress
  <2> QED
    BY <2>1, SubsetsFinite
<1> QED
  BY <1>2, <1>3, SessionAssumption DEF Full

\* Each step of the manager is a step of the pool, or none.
LEMMA StepOfPool == Base /\ [Next]_vars => [Pool!PoolNext]_(Pool!poolVars)
<1> SUFFICES ASSUME Base, [Next]_vars PROVE [Pool!PoolNext]_(Pool!poolVars)
  OBVIOUS
<1> USE DEF Base, TypeOK, Pool!poolVars
<1>1. ASSUME NEW r \in Requests, Refuse(r) PROVE Pool!Decline(r)
  <2>1. /\ Full /\ caller[r] = "idle" /\ caller' = [caller EXCEPT ![r] = "refused"]
        /\ UNCHANGED <<child, handled, phase>>
    BY <1>1 DEF Refuse, executorVars
  <2>2. Cardinality(Pool!InProgress) >= MaxSessions
    BY <2>1, FullMeansInProgress
  <2>3. Pool!Cardinality(Pool!InProgress) = Cardinality(Pool!InProgress)
    BY DEF Pool!Cardinality, Cardinality
  <2> QED
    BY <2>1, <2>2, <2>3 DEF Pool!Decline
<1>2. ASSUME NEW r \in Requests, Admit(r) PROVE Pool!Accept(r)
  BY <1>2 DEF Admit, Pool!Accept, executorVars
<1>3. ASSUME NEW r \in Requests, Register(r) PROVE Pool!Start(r)
  BY <1>3 DEF Register, Spawn, Pool!Start
<1>4. ASSUME NEW k \in Keys, StoreStep(k)
      PROVE  \/ \E r \in Requests : Pool!Hand(r) \/ Pool!Reject(r)
             \/ UNCHANGED Pool!poolVars
  <2>1. PICK outcome \in {"started", "rejected"} : Continue(Head(queue[k]), outcome)
    BY <1>4 DEF StoreStep, Written, WriteFails
  <2>2. UNCHANGED <<child, handled, phase>> /\ queue[k] # <<>>
    BY <1>4 DEF StoreStep, Written, WriteFails, HeadWritten, HeadFails, executorVars
  <2>3. Head(queue[k]) = queue[k][1] /\ 1 \in 1..Len(queue[k])
    BY <2>2 DEF StoreTypeOK
  <2>4. queue[k][1].by \in Requests
    BY <2>3, WaitingWrite
  <2>5. CASE Awaits(k, 1)
    <3>1. caller[queue[k][1].by] = "writing"
      BY <2>3, <2>5 DEF QueueOwned
    <3>2. caller' = [caller EXCEPT ![queue[k][1].by] = outcome]
      BY <2>1, <2>3, <2>5 DEF Continue, Awaits
    <3> QED
      BY <2>2, <2>4, <3>1, <3>2 DEF Pool!Hand, Pool!Reject
  <2>6. CASE ~Awaits(k, 1)
    BY <2>1, <2>2, <2>3, <2>6 DEF Continue, Awaits
  <2> QED
    BY <2>5, <2>6
<1>5. ASSUME NEW r \in Requests, HandleDone(r) PROVE Pool!Tell(r)
  BY <1>5 DEF HandleDone, Exited, DoneStatus, Pool!Tell, Pool!Ended, executorVars
<1>6. ASSUME NEW r \in Requests, ChildStep(r)
      PROVE  Pool!End(r) \/ UNCHANGED Pool!poolVars
  BY <1>6, OutcomesAssumption
     DEF ChildStep, PrintSessionId, Exit, Running, DoneStatus, Pool!End, Pool!Ended, managerVars
<1>7. ASSUME NEW r \in Requests, Killed(r) PROVE Pool!End(r)
  BY <1>7 DEF Killed, DieOfSigkill, Running, Pool!End, Pool!Ended, managerVars
<1>8. ASSUME NEW r \in Requests, SaveSessionId(r) \/ Timeout(r) \/ GraceOver(r)
      PROVE  UNCHANGED Pool!poolVars
  BY <1>8 DEF SaveSessionId, Timeout, GraceOver, executorVars
<1>9. BeginShutdown => Pool!StartDrain
  BY DEF BeginShutdown, Pool!StartDrain
<1>10. EndShutdown => Pool!EndDrain
  BY DEF EndShutdown, Pool!EndDrain
<1>11. UNCHANGED vars => UNCHANGED Pool!poolVars
  BY DEF vars, executorVars, managerVars
<1>12. ASSUME NEW r \in Requests, SpawnThrows(r) PROVE Pool!Reject(r)
  BY <1>12 DEF SpawnThrows, Pool!Reject, executorVars
<1> QED
  BY <1>1, <1>2, <1>3, <1>4, <1>5, <1>6, <1>7, <1>8, <1>9, <1>10, <1>11, <1>12
     DEF Next, Internal, Pool!PoolNext

LEMMA InitOfPool == Init => Pool!PoolInit
BY DEF Init, ExecutorInit, Pool!PoolInit

\* SessionManager keeps the promise that SessionPool states: null only at
\* capacity, at most one process for a call, and the completion callback once,
\* after the exit and after the handle was returned (manager.ts:78-148, 209-243).
THEOREM ManagerImplementsPool == Spec => ImplementsPool
BY BaseAlways, InitOfPool, StepOfPool, PTL DEF Spec, ImplementsPool, Pool!PoolSpec
=============================================================================
