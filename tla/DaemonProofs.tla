---------------------------- MODULE DaemonProofs ----------------------------
(***************************************************************************)
(* Proofs about the process of the daemon, which excludes all others and   *)
(* tells the next one how it ended, and about the cron jobs that it runs,  *)
(* for any number of launches, ids and jobs.                               *)
(***************************************************************************)
EXTENDS DaemonLifecycle, CronService, TLAPS

-----------------------------------------------------------------------------
(***************************************************************************)
(* The process: its lock and its pointer, launches that overlap, users who *)
(* do not see each other and ids that are given again included.            *)
(***************************************************************************)

LEMMA TypeInit == LifeInit => LifeTypeOK
  BY LifecycleAssumption DEF LifeInit, LifeTypeOK, Living, Dead, Acquiring, Taking, Holding

\* The type invariant is inductive.
LEMMA TypeStep == LifeTypeOK /\ [LifeNext]_lifeVars => LifeTypeOK'
<1> SUFFICES ASSUME LifeTypeOK, [LifeNext]_lifeVars PROVE LifeTypeOK'
  OBVIOUS
<1> USE LifecycleAssumption DEF LifeTypeOK, Living, Dead, Acquiring, Taking, Holding, lockVars, pointerVars
<1>1. CASE UNCHANGED lifeVars
  BY <1>1 DEF lifeVars
<1>2. ASSUME NEW l \in Launches, NEW p \in Pids, Launch(l, p) PROVE LifeTypeOK'
  BY <1>2 DEF Launch, Goes
<1>3. ASSUME NEW l \in Launches, Check(l) PROVE LifeTypeOK'
  BY <1>3 DEF Check, Goes, Refused, Unseen
<1>4. ASSUME NEW l \in Launches, RemoveStale(l) PROVE LifeTypeOK'
  BY <1>4 DEF RemoveStale, Goes
<1>5. ASSUME NEW l \in Launches, Open(l) PROVE LifeTypeOK'
  BY <1>5 DEF Open, Goes
<1>6. ASSUME NEW l \in Launches, Lock(l) PROVE LifeTypeOK'
  BY <1>6 DEF Lock, Goes
<1>7. ASSUME NEW l \in Launches, AcquireFails(l) PROVE LifeTypeOK'
  BY <1>7 DEF AcquireFails, Goes
<1>8. ASSUME NEW l \in Launches, Recover(l) PROVE LifeTypeOK'
  BY <1>8 DEF Recover, Goes
<1>9. ASSUME NEW l \in Launches, Boot(l) PROVE LifeTypeOK'
  BY <1>9 DEF Boot, Goes
<1>10. ASSUME NEW l \in Launches, Fails(l) PROVE LifeTypeOK'
  BY <1>10 DEF Fails, Goes, Thrown
<1>11. ASSUME NEW l \in Launches, Tick(l) PROVE LifeTypeOK'
  BY <1>11 DEF Tick
<1>12. ASSUME NEW l \in Launches, Refreshed(l) PROVE LifeTypeOK'
  <2>1. CASE late' = (phase[l] \in {"closing", "leaving"})
    <3>1. CASE phase[l] \in {"closing", "leaving"}
      BY <1>12, <2>1, <3>1 DEF Refreshed
    <3>2. CASE phase[l] \notin {"closing", "leaving"}
      BY <1>12, <2>1, <3>2 DEF Refreshed
    <3> QED
      BY <3>1, <3>2
  <2>2. CASE UNCHANGED late
    BY <1>12, <2>2 DEF Refreshed
  <2> QED
    BY <1>12, <2>1, <2>2 DEF Refreshed
<1>13. ASSUME NEW l \in Launches, Signal(l) PROVE LifeTypeOK'
  BY <1>13 DEF Signal, Goes
<1>14. ASSUME NEW l \in Launches, ClearPointer(l) PROVE LifeTypeOK'
  BY <1>14 DEF ClearPointer, Goes, PointerCleared
<1>15. ASSUME NEW l \in Launches, Release(l) PROVE LifeTypeOK'
  BY <1>15 DEF Release, Goes
<1>16. ASSUME NEW l \in Launches, Exit(l) PROVE LifeTypeOK'
  BY <1>16 DEF Exit, Goes
<1>17. ASSUME NEW l \in Launches, ExitOnError(l) PROVE LifeTypeOK'
  BY <1>17 DEF ExitOnError, Goes
<1>18. ASSUME NEW l \in Launches, Crash(l) PROVE LifeTypeOK'
  BY <1>18 DEF Crash, Goes, Alive
<1> QED
  BY <1>1, <1>2, <1>3, <1>4, <1>5, <1>6, <1>7, <1>8, <1>9, <1>10, <1>11, <1>12, <1>13,
     <1>14, <1>15, <1>16, <1>17, <1>18 DEF LifeNext, LifeStep

\* The type invariant holds of every life of the daemon (lock.ts, pointer.ts).
THEOREM LifeTypeCorrect == LifeSpec => []LifeTypeOK
<1>1. LifeInit => LifeTypeOK
  BY TypeInit
<1>2. LifeTypeOK /\ [LifeNext]_lifeVars => LifeTypeOK'
  BY TypeStep
<1> QED
  BY <1>1, <1>2, PTL DEF LifeSpec

-----------------------------------------------------------------------------
(***************************************************************************)
(* The lock.                                                               *)
(***************************************************************************)

\* Alive processes have ids of their own; a launch that everybody could see and
\* that writes the PID file writes the file that is there.
LockInv ==
  /\ \A l, m \in Launches : Alive(l) /\ Alive(m) /\ pid[l] = pid[m] => l = m
  /\ \A l \in opened : phase[l] = "filling"
  /\ \A l \in Launches : phase[l] = "filling" /\ l \notin contended => l \in opened

LockPart == LifeTypeOK /\ SingleInstance /\ LockInv

\* A step that leaves the lock, ids and the groups of phases as they are keeps
\* the lock's invariant.
LEMMA SameGroup ==
  ASSUME LockPart, NEW l \in Launches, NEW to, Goes(l, to),
         UNCHANGED <<pid, lockVars>>, phase[l] \in Holding, to \in Holding
  PROVE  SingleInstance' /\ LockInv'
  BY LifecycleAssumption
     DEF LockPart, SingleInstance, LockInv, LifeTypeOK, Holds, Takes, Alive, Goes, Living, Dead,
         Acquiring, Taking, Holding, lockVars

\* One that does not change the phases at all.
LEMMA SamePhase ==
  ASSUME LockPart, UNCHANGED <<phase, pid, lockVars>>
  PROVE  SingleInstance' /\ LockInv'
  BY DEF LockPart, SingleInstance, LockInv, LifeTypeOK, Holds, Takes, Alive, lockVars

\* One that ends a launch and leaves the file alone.
LEMMA OneLess ==
  ASSUME LockPart, NEW l \in Launches, NEW to \in {"leaving", "failing"} \cup Dead, Goes(l, to),
         UNCHANGED <<pid, contended, lockFile>>, opened' = opened \ {l}, to \in Living => Alive(l)
  PROVE  SingleInstance' /\ LockInv'
  BY LifecycleAssumption
     DEF LockPart, SingleInstance, LockInv, LifeTypeOK, Holds, Takes, Alive, Goes, Living, Dead,
         Acquiring, Taking, Holding

\* One that removes the file: any other that takes or holds the lock is contended.
LEMMA Removal ==
  ASSUME LockPart, NEW l \in Launches, Holds(l) \/ Takes(l), phase[l] # "filling",
         UNCHANGED <<pid, contended>>, opened' \subseteq opened,
         \A m \in Launches \ {l} : phase'[m] = phase[m],
         phase'[l] \in {"locking", "leaving", "failing"}
  PROVE  SingleInstance' /\ LockInv'
<1> DEFINE Claims(m) == Holds(m) \/ Takes(m)
<1>1. \A m \in Launches \ {l} : Claims(m) => {l, m} \subseteq contended
  BY DEF LockPart, SingleInstance
<1>2. ~Holds(l)'
  BY DEF Holds, Holding
<1>3. \A m \in Launches \ {l} : (Holds(m)' <=> Holds(m)) /\ (Takes(m)' <=> Takes(m))
  BY DEF Holds, Takes
<1>4. SingleInstance'
  <2>1. \A a, b \in Launches : a # b /\ Claims(a)' /\ Claims(b)' => {a, b} \subseteq contended
    BY <1>1, <1>3 DEF LockPart, SingleInstance
  <2>2. \A a \in Launches : Holds(a)' => a \in contended
    BY <1>1, <1>2, <1>3
  <2> QED
    BY <2>1, <2>2 DEF SingleInstance
<1>5. \A m \in Launches : Alive(m)' => Alive(m)
  BY DEF Alive, Living, Acquiring, Holds, Takes
<1>6. \A m \in Launches : phase'[m] = "filling" => m # l /\ phase[m] = "filling" /\ m \in contended
  BY <1>1 DEF Takes, Taking
<1>7. \A m \in opened' : phase'[m] = "filling"
  BY DEF LockPart, LockInv, LifeTypeOK
<1> QED
  BY <1>4, <1>5, <1>6, <1>7 DEF LockInv, LockPart

\* Every step keeps the lock's invariant.
LEMMA LockStep == ASSUME LockPart, [LifeNext]_lifeVars PROVE SingleInstance' /\ LockInv'
<1> USE LifecycleAssumption
<1> DEFINE Claims(l) == Holds(l) \/ Takes(l)
<1>0. /\ \A l, m \in Launches : l # m /\ Claims(l) /\ Claims(m) => {l, m} \subseteq contended
      /\ \A l \in Launches : Holds(l) /\ l \notin contended => lockFile = pid[l]
  BY DEF LockPart, SingleInstance
<1>1. CASE UNCHANGED lifeVars
  BY <1>1, SamePhase DEF lifeVars
<1>2. ASSUME NEW l \in Launches, NEW p \in Pids, Launch(l, p) PROVE SingleInstance' /\ LockInv'
  BY <1>2 DEF LockPart, SingleInstance, LockInv, LifeTypeOK, Holds, Takes, Alive, Goes, Living, Dead,
     Acquiring, Taking, Holding, Launch, lockVars
<1>3. ASSUME NEW l \in Launches, Check(l) PROVE SingleInstance' /\ LockInv'
  <2>1. CASE Goes(l, "refused") /\ UNCHANGED contended
    BY <1>3, <2>1, OneLess DEF Check, Dead, LockPart, LockInv, Living, Acquiring, Taking, Holding
  <2>2. CASE /\ phase' \in {[phase EXCEPT ![l] = "removing"], [phase EXCEPT ![l] = "locking"]}
             /\ ~(lockFile \in Pids /\ \E m \in Launches : pid[m] = lockFile /\ Alive(m) /\ <<l, m>> \notin Foreign)
             /\ contended' = contended \cup IF Unseen(l) = {} THEN {} ELSE {l} \cup Unseen(l)
    \* Whoever takes or holds the lock now is one that l cannot see.
    <3>1. ASSUME NEW m \in Launches \ {l}, Claims(m) PROVE m \in Unseen(l)
      BY <2>2, <3>1, <1>0 DEF Unseen, LockPart, LifeTypeOK, Alive, Living, Holds, Holding
    <3>2. \A m \in Launches \ {l} : Claims(m) => {l, m} \subseteq contended'
      BY <2>2, <3>1
    <3>3. contended \subseteq contended'
      BY <2>2
    <3>4. \A m \in Launches \ {l} : phase'[m] = phase[m]
      BY <2>2 DEF LockPart, LifeTypeOK
    <3>5. phase'[l] \in {"removing", "locking"}
      BY <2>2 DEF LockPart, LifeTypeOK
    <3>6. SingleInstance'
      <4>1. ASSUME NEW a \in Launches, NEW b \in Launches, a # b, Claims(a)', Claims(b)'
            PROVE  {a, b} \subseteq contended'
        <5>1. CASE a = l
          BY <4>1, <5>1, <3>2, <3>4 DEF Holds, Takes
        <5>2. CASE b = l
          BY <4>1, <5>2, <3>2, <3>4 DEF Holds, Takes
        <5>3. CASE a # l /\ b # l
          BY <4>1, <5>3, <3>3, <3>4, <1>0 DEF Holds, Takes
        <5> QED
          BY <5>1, <5>2, <5>3
      <4>2. ASSUME NEW a \in Launches, Holds(a)', a \notin contended' PROVE lockFile' = pid'[a]
        <5>1. a # l
          BY <4>2, <3>5 DEF Holds, Holding
        <5>2. Holds(a) /\ a \notin contended
          BY <4>2, <5>1, <3>3, <3>4 DEF Holds
        <5> QED
          BY <5>2, <1>0, <1>3 DEF Check
      <4> QED
        BY <4>1, <4>2 DEF SingleInstance
    <3>7. LockInv'
      <4>1. pid' = pid /\ opened' = opened /\ phase[l] = "checking"
        BY <1>3 DEF Check
      <4>2. \A m \in Launches : Alive(m)' => Alive(m)
        BY <3>4, <4>1 DEF Alive, Living, Acquiring
      <4>3. \A m \in Launches : phase'[m] = "filling" <=> phase[m] = "filling"
        BY <3>4, <3>5, <4>1
      <4> QED
        BY <3>3, <4>1, <4>2, <4>3 DEF LockInv, LockPart, LifeTypeOK
    <3> QED
      BY <3>6, <3>7
  <2>3. CASE lockFile \in Pids /\ ProcessAlive(l, lockFile) /\ Goes(l, Refused) /\ UNCHANGED contended
    BY <2>1, <2>3 DEF Refused
  <2>4. CASE lockFile \in Pids /\ ProcessDead(l, lockFile) /\ Goes(l, "removing")
    BY <1>3, <2>1, <2>2, <2>4 DEF Check, Refused, Goes, ProcessDead
  <2>5. CASE lockFile \in {"corrupt", NoFile}
    BY <1>3, <2>1, <2>2, <2>5 DEF Check, Refused, Goes
  <2>6. \/ lockFile \in Pids /\ ProcessAlive(l, lockFile) /\ Goes(l, Refused) /\ UNCHANGED contended
        \/ lockFile \in Pids /\ ProcessDead(l, lockFile) /\ Goes(l, "removing")
        \/ lockFile \in {"corrupt", NoFile}
    BY <1>3, Zenon DEF Check
  <2> QED
    BY <2>3, <2>4, <2>5, <2>6
<1>4. ASSUME NEW l \in Launches, RemoveStale(l) PROVE SingleInstance' /\ LockInv'
  BY <1>4, Removal DEF RemoveStale, Goes, LockPart, LifeTypeOK, Takes, Taking
<1>5. ASSUME NEW l \in Launches, Open(l) PROVE SingleInstance' /\ LockInv'
  BY <1>5, <1>0 DEF LockPart, SingleInstance, LockInv, LifeTypeOK, Holds, Takes, Alive, Goes, Living, Dead,
     Acquiring, Taking, Holding, Open
<1>6. ASSUME NEW l \in Launches, Lock(l) PROVE SingleInstance' /\ LockInv'
  BY <1>6, <1>0 DEF LockPart, SingleInstance, LockInv, LifeTypeOK, Holds, Takes, Alive, Goes, Living, Dead,
     Acquiring, Taking, Holding, Lock
<1>7. ASSUME NEW l \in Launches, AcquireFails(l) PROVE SingleInstance' /\ LockInv'
  BY <1>7, OneLess DEF AcquireFails, Dead, Living, Acquiring, Taking, Holding
<1>8. ASSUME NEW l \in Launches, Recover(l) \/ Boot(l) \/ ClearPointer(l) PROVE SingleInstance' /\ LockInv'
  BY <1>8, SameGroup DEF Recover, Boot, ClearPointer, Holding
<1>9. ASSUME NEW l \in Launches, Fails(l) PROVE SingleInstance' /\ LockInv'
  BY <1>9, SameGroup DEF Fails, Thrown, Holding
<1>10. ASSUME NEW l \in Launches, Tick(l) \/ Refreshed(l) PROVE SingleInstance' /\ LockInv'
  BY <1>10, SamePhase DEF Tick, Refreshed
<1>11. ASSUME NEW l \in Launches, Signal(l) PROVE SingleInstance' /\ LockInv'
  BY <1>11, SameGroup, SamePhase DEF Signal, Holding
<1>12. ASSUME NEW l \in Launches, Release(l) PROVE SingleInstance' /\ LockInv'
  BY <1>12, Removal DEF Release, Goes, LockPart, LifeTypeOK, Holds, Holding
<1>13. ASSUME NEW l \in Launches, Exit(l) \/ ExitOnError(l) PROVE SingleInstance' /\ LockInv'
  BY <1>13, OneLess DEF Exit, ExitOnError, Dead, lockVars, LockPart, LockInv, Living, Acquiring, Taking, Holding
<1>14. ASSUME NEW l \in Launches, Crash(l) PROVE SingleInstance' /\ LockInv'
  BY <1>14, OneLess DEF Crash, Dead, Living
<1> QED
  BY <1>1, <1>2, <1>3, <1>4, <1>5, <1>6, <1>7, <1>8, <1>9, <1>10, <1>11, <1>12, <1>13,
     <1>14 DEF LifeNext, LifeStep

LEMMA LockInvariant == LifeSpec => []LockPart
<1>1. LifeInit => LockPart
  <2> SUFFICES ASSUME LifeInit PROVE LockPart
    OBVIOUS
  <2>1. LifeTypeOK
    BY TypeInit
  <2> QED
    BY <2>1, LifecycleAssumption DEF LockPart, LifeInit, SingleInstance, LockInv, Holds, Takes, Alive,
       Living, Acquiring, Taking, Holding
<1>2. LockPart /\ [LifeNext]_lifeVars => LockPart'
  BY TypeStep, LockStep DEF LockPart
<1> QED
  BY <1>1, <1>2, PTL DEF LifeSpec

\* Two launches run together only if one of them could not see the other when it
\* decided to, whatever overlaps, crashes or fails and however ids are given again
\* (lock.ts:3).
THEOREM InstancesExclusive == LifeSpec => []SingleInstance
<1>1. LockPart => SingleInstance
  BY DEF LockPart
<1> QED
  BY <1>1, LockInvariant, PTL

-----------------------------------------------------------------------------
(***************************************************************************)
(* The pointer.                                                            *)
(***************************************************************************)

\* Who may have written the pointer, and who may still write it.
PointerInv ==
  /\ \A m \in writing : phase[m] \in {"running", "stopping", "closing", "leaving", "failed", "failing"}
  /\ \A m \in Launches :
       pointer = m => phase[m] \in {"running", "stopping", "failed", "crashed", "failing", "broken"} \/ late

\* Every step keeps it.
LEMMA PointerStep ==
  ASSUME LifeTypeOK, PointerInv, [LifeNext]_lifeVars PROVE PointerInv'
<1> USE LifecycleAssumption DEF PointerInv, LifeTypeOK, pointerVars
<1>1. CASE UNCHANGED lifeVars
  BY <1>1 DEF lifeVars
<1>2. ASSUME NEW l \in Launches, NEW p \in Pids, Launch(l, p) PROVE PointerInv'
  BY <1>2 DEF Launch, Goes
<1>3. ASSUME NEW l \in Launches, Check(l) PROVE PointerInv'
  BY <1>3 DEF Check, Goes, Refused
<1>4. ASSUME NEW l \in Launches, RemoveStale(l) PROVE PointerInv'
  BY <1>4 DEF RemoveStale, Goes
<1>5. ASSUME NEW l \in Launches, Open(l) PROVE PointerInv'
  BY <1>5 DEF Open, Goes
<1>6. ASSUME NEW l \in Launches, Lock(l) PROVE PointerInv'
  BY <1>6 DEF Lock, Goes
<1>7. ASSUME NEW l \in Launches, AcquireFails(l) PROVE PointerInv'
  BY <1>7 DEF AcquireFails, Goes
<1>8. ASSUME NEW l \in Launches, Recover(l) PROVE PointerInv'
  BY <1>8 DEF Recover, Goes
<1>9. ASSUME NEW l \in Launches, Boot(l) PROVE PointerInv'
  BY <1>9 DEF Boot, Goes
<1>10. ASSUME NEW l \in Launches, Fails(l) PROVE PointerInv'
  BY <1>10 DEF Fails, Goes, Thrown
<1>11. ASSUME NEW l \in Launches, Tick(l) PROVE PointerInv'
  BY <1>11 DEF Tick
<1>12. ASSUME NEW l \in Launches, Refreshed(l) PROVE PointerInv'
  <2>1. CASE pointer' = l /\ late' = (phase[l] \in {"closing", "leaving"})
    <3>1. phase[l] \in {"closing", "leaving"} => late'
      BY <2>1
    <3> QED
      BY <1>12, <2>1, <3>1 DEF Refreshed
  <2>2. CASE UNCHANGED <<pointer, late>>
    BY <1>12, <2>2 DEF Refreshed
  <2> QED
    BY <1>12, <2>1, <2>2 DEF Refreshed
<1>13. ASSUME NEW l \in Launches, Signal(l) PROVE PointerInv'
  BY <1>13 DEF Signal, Goes
<1>14. ASSUME NEW l \in Launches, ClearPointer(l) PROVE PointerInv'
  BY <1>14 DEF ClearPointer, Goes, PointerCleared
<1>15. ASSUME NEW l \in Launches, Release(l) PROVE PointerInv'
  BY <1>15 DEF Release, Goes
<1>16. ASSUME NEW l \in Launches, Exit(l) PROVE PointerInv'
  BY <1>16 DEF Exit, Goes
<1>17. ASSUME NEW l \in Launches, ExitOnError(l) PROVE PointerInv'
  BY <1>17 DEF ExitOnError, Goes
<1>18. ASSUME NEW l \in Launches, Crash(l) PROVE PointerInv'
  BY <1>18 DEF Crash, Goes, Alive, Living, Acquiring, Taking, Holding
<1> QED
  BY <1>1, <1>2, <1>3, <1>4, <1>5, <1>6, <1>7, <1>8, <1>9, <1>10, <1>11, <1>12, <1>13,
     <1>14, <1>15, <1>16, <1>17, <1>18 DEF LifeNext, LifeStep

\* A pointer that a start finds was left by a process that did not shut down
\* cleanly, outlived the clearing, or is that of a process it could not see
\* (pointer.ts:6).
THEOREM PointersTellCrash == LifeSpec => PointerTellsCrash
<1> DEFINE Told ==
      \A l, m \in Launches :
        phase[l] = "starting" /\ phase'[l] = "booting" /\ pointer = m =>
          phase[m] \in {"crashed", "failing", "broken"} \/ late \/ {l, m} \subseteq contended
<1>1. LifeInit => PointerInv
  BY LifecycleAssumption DEF LifeInit, PointerInv
<1>2. LockPart /\ PointerInv /\ [LifeNext]_lifeVars => PointerInv'
  BY PointerStep DEF LockPart
<1>3. LockPart /\ PointerInv => Told
  \* A writer of the pointer that has not ended holds the lock, as does the start.
  BY DEF LockPart, PointerInv, SingleInstance, Holds, Holding
<1>4. LockPart /\ PointerInv /\ [LifeNext]_lifeVars => [Told]_lifeVars
  BY <1>3
<1> QED
  BY <1>1, <1>2, <1>4, LockInvariant, PTL DEF LifeSpec, PointerTellsCrash, Told

-----------------------------------------------------------------------------
(***************************************************************************)
(* Refusals.                                                               *)
(***************************************************************************)

\* The id in the file is of a launch that holds the lock or left it behind.
LeftBy ==
  lockFile \in Pids => LeftBehind(lockFile) \/ \E m \in Launches : pid[m] = lockFile /\ Holds(m)

\* Only Lock writes an id, and only a release that fails or a crash leaves one.
LEMMA LeftByStep ==
  ASSUME LifeTypeOK, LeftBy, [LifeNext]_lifeVars PROVE LeftBy'
<1> USE LifecycleAssumption DEF LifeTypeOK, LeftBy, LeftBehind, Holds, Holding, lockVars
<1>1. CASE UNCHANGED <<lockFile, kept, phase, pid>>
  BY <1>1
<1>2. CASE lockFile' \notin Pids
  BY <1>2
<1>3. ASSUME NEW l \in Launches, NEW p \in Pids, Launch(l, p) PROVE LeftBy'
  BY <1>3 DEF Launch, Goes
<1>4. ASSUME NEW l \in Launches, Check(l) \/ AcquireFails(l) \/ Exit(l) \/ ExitOnError(l) PROVE LeftBy'
  BY <1>4 DEF Check, AcquireFails, Exit, ExitOnError, Goes, Refused
<1>5. ASSUME NEW l \in Launches, Lock(l) PROVE LeftBy'
  BY <1>5 DEF Lock, Goes
<1>6. ASSUME NEW l \in Launches, NEW to \in Holding, Goes(l, to), UNCHANGED <<pid, lockFile, kept>>
      PROVE  LeftBy'
  BY <1>6 DEF Goes
<1>7. ASSUME NEW l \in Launches, Recover(l) \/ Boot(l) \/ Fails(l) \/ ClearPointer(l) \/ Signal(l)
      PROVE  LeftBy'
  BY <1>1, <1>6, <1>7 DEF Recover, Boot, Fails, ClearPointer, Signal, Thrown
<1>8. ASSUME NEW l \in Launches, RemoveStale(l) \/ Open(l) PROVE LeftBy'
  BY <1>2, <1>8 DEF RemoveStale, Open, Goes
<1>9. ASSUME NEW l \in Launches, Release(l) PROVE LeftBy'
  BY <1>2, <1>9 DEF Release, Goes
<1>10. ASSUME NEW l \in Launches, Tick(l) \/ Refreshed(l) PROVE LeftBy'
  BY <1>1, <1>10 DEF Tick, Refreshed
<1>11. ASSUME NEW l \in Launches, Crash(l) PROVE LeftBy'
  BY <1>11 DEF Crash, Goes
<1> QED
  BY <1>1, <1>3, <1>4, <1>5, <1>7, <1>8, <1>9, <1>10, <1>11 DEF LifeNext, LifeStep, lifeVars

\* A launch is refused for one that holds the lock, or for the id of one that
\* could not remove its file (lock.ts:24).
THEOREM RefusalsRight == LifeSpec => RefusedRightly
<1> DEFINE Right(l) ==
      phase[l] = "checking" /\ phase'[l] \notin {"checking", "crashed", "erred"} \cup Taking =>
        \/ \E m \in Launches \ {l} : Holds(m) /\ pid[m] = lockFile
        \/ LeftBehind(lockFile)
<1>1. LifeInit => LifeTypeOK /\ LeftBy
  BY TypeInit, LifecycleAssumption DEF LifeInit, LeftBy
<1>2. LifeTypeOK /\ LeftBy /\ [LifeNext]_lifeVars => LifeTypeOK' /\ LeftBy'
  BY TypeStep, LeftByStep
<1>3. ASSUME LifeTypeOK, LeftBy, LifeNext PROVE \A l \in Launches : Right(l)
  <2> SUFFICES ASSUME NEW l \in Launches, phase[l] = "checking",
                      phase'[l] \notin {"checking", "crashed", "erred"} \cup Taking
               PROVE  (\E m \in Launches \ {l} : Holds(m) /\ pid[m] = lockFile) \/ LeftBehind(lockFile)
    BY DEF Right
  <2>1. Check(l)
    <3>1. PICK k \in Launches :
            \/ Check(k) \/ Crash(k) \/ AcquireFails(k) \/ UNCHANGED phase
            \/ phase[k] # "checking" /\ \A m \in Launches \ {k} : phase'[m] = phase[m]
      BY <1>3 DEF LifeNext, LifeStep, Launch, RemoveStale, Open, Lock, Recover, Boot, Fails, Tick,
         Refreshed, Signal, ClearPointer, Release, Exit, ExitOnError, Goes, LifeTypeOK
    <3>2. k = l /\ Check(k)
      BY <1>3, <3>1 DEF Check, Crash, AcquireFails, Goes, LifeTypeOK
    <3> QED
      BY <3>2
  <2>2. lockFile \in Pids
    BY <1>3, <2>1 DEF Check, Goes, LifeTypeOK, Taking
  <2>3. ~Holds(l)
    BY DEF Holds, Holding
  <2> QED
    BY <1>3, <2>2, <2>3 DEF LeftBy
<1>4. LifeTypeOK /\ LeftBy /\ [LifeNext]_lifeVars => [\A l \in Launches : Right(l)]_lifeVars
  BY <1>3
<1> QED
  BY <1>1, <1>2, <1>4, PTL DEF LifeSpec, RefusedRightly, Right

-----------------------------------------------------------------------------
(***************************************************************************)
(* The cron service, for any set of jobs.                                  *)
(***************************************************************************)

\* Before the first start no timer runs, and afterwards none is armed for a
\* registered job once the service was stopped.
TimersOfStarted ==
  /\ stop = "no" /\ ~started =>
       /\ timer = {}
       /\ \A j \in Jobs : chain[j]["timer"] = "none" /\ chain[j]["onStart"] = "none"
  /\ stop # "no" => ~started /\ timer \cap registered = {}

\* While stop() waits, it waits for what was in progress.
AwaitsFirstAttempts ==
  stop = "waiting" =>
    \A j \in registered : \A c \in InHandler(j) :
      attempt[j][c] > 0 \/ c = "manual" \/ c = "onStart" \/ j \in awaited

\* Only a failed attempt is followed by a backoff, only start() staggers.
StatesOfChains ==
  \A j \in Jobs, c \in Kinds :
    /\ chain[j][c] = "backoff" => attempt[j][c] > 0
    /\ chain[j][c] = "staggered" => c = "onStart"

CronInv ==
  /\ CronTypeOK /\ OneHandler /\ OneTimerChain
  /\ StatesOfChains /\ TimersOfStarted /\ AwaitsFirstAttempts /\ QuietAfterStop

LEMMA InitCron == CronInit => CronInv
<1> SUFFICES ASSUME CronInit PROVE CronInv
  OBVIOUS
<1>1. \A j \in Jobs, c \in Kinds : chain[j][c] = "none"
  BY DEF CronInit
<1>2. CronTypeOK
  <2>1. 0 \in 0..(MaxAttempts - 1)
    BY DEF MaxAttempts
  <2>2. attempt \in [Jobs -> [Kinds -> 0..(MaxAttempts - 1)]]
    BY <2>1 DEF CronInit
  <2>3. chain \in [Jobs -> [Kinds -> {"none", "staggered", "handler", "backoff"}]]
    BY DEF CronInit
  <2> QED
    BY <2>2, <2>3 DEF CronInit, CronTypeOK
<1>3. OneHandler
  BY <1>1 DEF CronInit, OneHandler, InHandler
<1>4. OneTimerChain /\ TimersOfStarted /\ AwaitsFirstAttempts /\ QuietAfterStop
  BY <1>1 DEF CronInit, OneTimerChain, TimersOfStarted, AwaitsFirstAttempts, QuietAfterStop, Kinds
<1>5. StatesOfChains
  BY <1>1 DEF StatesOfChains
<1> QED
  BY <1>2, <1>3, <1>4, <1>5 DEF CronInv

\* What a chain does in one step, as far as its own job is concerned.
LEMMA ChainMoves ==
  ASSUME CronTypeOK, NEW j \in Jobs, NEW c \in Kinds, NEW n \in 0..(MaxAttempts - 1),
         NEW to \in {"none", "staggered", "handler", "backoff"}, At(j, c, to, n)
  PROVE  /\ chain' \in [Jobs -> [Kinds -> {"none", "staggered", "handler", "backoff"}]]
         /\ attempt' \in [Jobs -> [Kinds -> 0..(MaxAttempts - 1)]]
         /\ chain'[j][c] = to /\ attempt'[j][c] = n
         /\ \A i \in Jobs, d \in Kinds :
              <<i, d>> # <<j, c>> => chain'[i][d] = chain[i][d] /\ attempt'[i][d] = attempt[i][d]
BY DEF At, CronTypeOK

\* The steps of a chain: it enters the handler if no other chain of its job is
\* there, or leaves it, or moves between other states.
ChainEffect(j, c) ==
  /\ UNCHANGED <<registered, started, aborted, stop, awaited>>
  /\ \E to \in {"none", "handler", "backoff"}, n \in 0..(MaxAttempts - 1) :
       /\ At(j, c, to, n)
       /\ to = "handler" => j \notin running /\ running' = running \cup {j}
                            /\ n = attempt[j][c]
       /\ to # "handler" => running' = IF chain[j][c] = "handler"
                                       THEN running \ {j} ELSE running
       /\ to = "backoff" => n > 0
       /\ timer' \subseteq timer \cup {j} /\ timer \subseteq timer' \cup {j}
       /\ j \in timer' => j \in timer \/ (started /\ c = "timer")
       /\ c = "timer" /\ j \in timer' => to = "none"

LEMMA ChainEffects ==
  ASSUME CronInv, NEW j \in Jobs, ChainStep(j) \/ Run(j)
  PROVE  \/ \E c \in Kinds : /\ ChainEffect(j, c)
                             /\ \/ chain[j][c] # "none"
                                \/ c = "manual"
                                \/ c = "timer" /\ j \in timer
         \/ /\ UNCHANGED <<registered, started, aborted, stop, awaited, running, chain, attempt>>
            /\ timer' = timer \ {j}
<1> USE DEF CronInv, CronTypeOK
<1>0. /\ 0 \in 0..(MaxAttempts - 1)
      /\ \A c \in Kinds : attempt[j][c] \in 0..(MaxAttempts - 1)
      /\ "timer" \in Kinds /\ "manual" \in Kinds /\ "onStart" \in Kinds
  BY DEF MaxAttempts, Kinds
<1>1. ASSUME NEW c \in Kinds, chain[j][c] # "handler", Attempt(j, c),
             UNCHANGED <<registered, started, aborted, stop, awaited>>
      PROVE  ChainEffect(j, c)
  <2>1. CASE Busy(j, c)
    <3>1. Conclude(j, c, TRUE) /\ running' = running
      BY <1>1, <2>1 DEF Attempt
    <3> QED
      BY <1>0, <1>1, <3>1 DEF Conclude, Schedules, Fired, ChainEffect
  <2>2. CASE ~Busy(j, c)
    <3>1. At(j, c, "handler", attempt[j][c]) /\ running' = running \cup {j} /\ timer' = Fired(j, c)
      BY <1>1, <2>2 DEF Attempt
    <3> QED
      BY <1>0, <1>1, <2>2, <3>1 DEF Busy, Fired, ChainEffect
  <2> QED
    BY <2>1, <2>2
<1>2. ASSUME NEW c \in Kinds, HandlerReturns(j, c)
      PROVE  ChainEffect(j, c) /\ chain[j][c] # "none"
  BY <1>0, <1>2 DEF HandlerReturns, Conclude, Schedules, Fired, ChainEffect
<1>3. ASSUME NEW c \in Kinds, HandlerThrows(j, c)
      PROVE  ChainEffect(j, c) /\ chain[j][c] # "none"
  <2>1. CASE MayRetry(attempt[j][c])
    <3>1. /\ At(j, c, "backoff", attempt[j][c] + 1) /\ timer' = timer
          /\ chain[j][c] = "handler" /\ running' = running \ {j}
          /\ UNCHANGED <<registered, started, aborted, stop, awaited>>
      BY <1>3, <2>1 DEF HandlerThrows
    <3>2. attempt[j][c] + 1 \in 0..(MaxAttempts - 1) /\ attempt[j][c] + 1 > 0
      BY <1>0, <2>1 DEF MayRetry, MaxAttempts
    <3>3. c = "timer" => j \notin timer
      BY <3>1 DEF OneTimerChain
    <3> QED
      BY <3>1, <3>2, <3>3 DEF ChainEffect
  <2>2. CASE ~MayRetry(attempt[j][c])
    BY <1>0, <1>3, <2>2 DEF HandlerThrows, Conclude, Schedules, Fired, ChainEffect
  <2> QED
    BY <2>1, <2>2
<1>4. ASSUME NEW c \in Kinds, BackoffOver(j, c)
      PROVE  ChainEffect(j, c) /\ chain[j][c] # "none"
  BY <1>1, <1>4 DEF BackoffOver
<1>5. ASSUME StaggerOver(j)
      PROVE  ChainEffect(j, "onStart") /\ chain[j]["onStart"] # "none"
  <2>1. /\ chain[j]["onStart"] = "staggered"
        /\ UNCHANGED <<registered, started, aborted, stop, awaited>>
    BY <1>5 DEF StaggerOver
  <2>2. CASE Attempt(j, "onStart")
    BY <1>0, <1>1, <2>1, <2>2
  <2>3. CASE At(j, "onStart", "none", 0) /\ UNCHANGED <<timer, running>>
    BY <1>0, <2>1, <2>3 DEF ChainEffect
  <2> QED
    BY <1>5, <2>1, <2>2, <2>3 DEF StaggerOver
<1>6. ASSUME Fire(j)
      PROVE  \/ ChainEffect(j, "timer") /\ j \in timer
             \/ /\ UNCHANGED <<registered, started, aborted, stop, awaited, running, chain, attempt>>
                /\ timer' = timer \ {j}
  <2>1. j \in timer /\ chain[j]["timer"] = "none"
        /\ UNCHANGED <<registered, started, aborted, stop, awaited>>
    BY <1>6 DEF Fire, OneTimerChain
  <2>2. CASE Attempt(j, "timer")
    BY <1>0, <1>1, <2>1, <2>2
  <2> QED
    BY <1>6, <2>1, <2>2 DEF Fire
<1>7. ASSUME Run(j) PROVE ChainEffect(j, "manual")
  BY <1>0, <1>1, <1>7 DEF Run
<1> QED
  BY <1>0, <1>2, <1>3, <1>4, <1>5, <1>6, <1>7 DEF ChainStep

-----------------------------------------------------------------------------
(***************************************************************************)
(* The invariant.                                                          *)
(***************************************************************************)

\* A step of a chain keeps it.
LEMMA ChainKeeps ==
  ASSUME CronInv, NEW j \in Jobs, NEW c \in Kinds, ChainEffect(j, c),
         chain[j][c] # "none" \/ c = "manual" \/ (c = "timer" /\ j \in timer)
  PROVE  CronInv'
<1> USE DEF CronInv
<1>1. PICK to \in {"none", "handler", "backoff"}, n \in 0..(MaxAttempts - 1) :
        /\ At(j, c, to, n)
        /\ to = "handler" => /\ j \notin running /\ running' = running \cup {j}
                             /\ n = attempt[j][c]
        /\ to # "handler" => running' = IF chain[j][c] = "handler"
                                        THEN running \ {j} ELSE running
        /\ to = "backoff" => n > 0
        /\ timer' \subseteq timer \cup {j} /\ timer \subseteq timer' \cup {j}
        /\ j \in timer' => j \in timer \/ (started /\ c = "timer")
        /\ c = "timer" /\ j \in timer' => to = "none"
  BY DEF ChainEffect
<1>2. UNCHANGED <<registered, started, aborted, stop, awaited>>
  BY DEF ChainEffect
<1>3. /\ chain' \in [Jobs -> [Kinds -> {"none", "staggered", "handler", "backoff"}]]
      /\ attempt' \in [Jobs -> [Kinds -> 0..(MaxAttempts - 1)]]
      /\ chain'[j][c] = to /\ attempt'[j][c] = n
      /\ \A i \in Jobs, d \in Kinds :
           <<i, d>> # <<j, c>> => chain'[i][d] = chain[i][d] /\ attempt'[i][d] = attempt[i][d]
  <2>1. to \in {"none", "staggered", "handler", "backoff"}
    BY <1>1
  <2> QED
    BY <1>1, <2>1, ChainMoves
<1>4. CronTypeOK'
  BY <1>1, <1>2, <1>3 DEF CronTypeOK
<1>5. ASSUME NEW i \in Jobs, i # j
      PROVE  /\ InHandler(i)' = InHandler(i)
             /\ i \in running' <=> i \in running
             /\ \A d \in Kinds : chain'[i][d] = chain[i][d] /\ attempt'[i][d] = attempt[i][d]
  BY <1>1, <1>3, <1>5 DEF InHandler
<1>6. InHandler(j)' = IF to = "handler" THEN InHandler(j) \cup {c} ELSE InHandler(j) \ {c}
  BY <1>3 DEF InHandler
<1>7. StatesOfChains'
  <2> SUFFICES ASSUME NEW i \in Jobs, NEW d \in Kinds
               PROVE  /\ chain'[i][d] = "backoff" => attempt'[i][d] > 0
                      /\ chain'[i][d] = "staggered" => d = "onStart"
    BY DEF StatesOfChains
  <2>1. CASE <<i, d>> = <<j, c>>
    BY <1>1, <1>3, <2>1
  <2>2. CASE <<i, d>> # <<j, c>>
    BY <1>3, <2>2 DEF StatesOfChains
  <2> QED
    BY <2>1, <2>2
<1>8. OneHandler'
  <2> SUFFICES ASSUME NEW i \in Jobs
               PROVE  /\ \A d, e \in InHandler(i)' : d = e
                      /\ i \in running' <=> InHandler(i)' # {}
    BY DEF OneHandler
  <2>1. CASE i # j
    BY <1>5, <2>1 DEF OneHandler
  <2>2. CASE i = j /\ to = "handler"
    BY <1>1, <1>6, <2>2 DEF OneHandler
  <2>3. CASE i = j /\ to # "handler" /\ chain[j][c] = "handler"
    <3>1. InHandler(j) = {c}
      BY <2>3 DEF OneHandler, InHandler
    <3> QED
      BY <1>1, <1>6, <2>3, <3>1
  <2>4. CASE i = j /\ to # "handler" /\ chain[j][c] # "handler"
    <3>1. c \notin InHandler(j)
      BY <2>4 DEF InHandler
    <3> QED
      BY <1>1, <1>6, <2>4, <3>1 DEF OneHandler
  <2> QED
    BY <2>1, <2>2, <2>3, <2>4
<1>9. OneTimerChain'
  <2> SUFFICES ASSUME NEW i \in Jobs, i \in timer' PROVE chain'[i]["timer"] = "none"
    BY DEF OneTimerChain
  <2>1. "timer" \in Kinds
    BY DEF Kinds
  <2>2. CASE i = j /\ c = "timer"
    BY <1>1, <1>3, <2>2
  <2>3. CASE i # j \/ c # "timer"
    <3>1. i \in timer
      BY <1>1, <2>3
    <3>2. chain'[i]["timer"] = chain[i]["timer"]
      BY <1>3, <2>1, <2>3
    <3> QED
      BY <3>1, <3>2 DEF OneTimerChain
  <2> QED
    BY <2>2, <2>3
\* Before the first start only run() begins a chain, and not the timer's.
<1>10. TimersOfStarted'
  <2>1. "timer" \in Kinds /\ "onStart" \in Kinds
    BY DEF Kinds
  <2>2. ASSUME stop = "no", ~started
        PROVE  /\ timer' = {}
               /\ \A i \in Jobs : chain'[i]["timer"] = "none" /\ chain'[i]["onStart"] = "none"
    <3>1. /\ timer = {}
          /\ \A i \in Jobs : chain[i]["timer"] = "none" /\ chain[i]["onStart"] = "none"
      BY <2>2 DEF TimersOfStarted
    <3>2. c # "timer" /\ c # "onStart"
      BY <3>1
    <3>3. timer' = {}
      BY <1>1, <2>2, <3>1
    <3>4. \A i \in Jobs : /\ chain'[i]["timer"] = chain[i]["timer"]
                          /\ chain'[i]["onStart"] = chain[i]["onStart"]
      BY <1>3, <2>1, <3>2
    <3> QED
      BY <3>1, <3>3, <3>4
  <2>3. ASSUME stop # "no" PROVE ~started /\ timer' \cap registered = {}
    BY <1>1, <2>3 DEF TimersOfStarted
  <2> QED
    BY <1>2, <2>2, <2>3 DEF TimersOfStarted
\* Once the service was stopped, a first attempt is not the timer's.
<1>11. ASSUME stop # "no", j \in registered, to = "handler"
       PROVE  attempt'[j][c] > 0 \/ c = "manual" \/ c = "onStart"
  <2>1. chain[j][c] # "handler"
    BY <1>1, <1>11 DEF OneHandler, InHandler
  <2>2. j \notin timer
    BY <1>11 DEF TimersOfStarted
  <2>3. chain[j][c] \in {"none", "staggered", "backoff"}
    BY <2>1 DEF CronTypeOK
  <2> QED
    BY <1>1, <1>3, <1>11, <2>2, <2>3 DEF StatesOfChains
<1>12. ASSUME NEW i \in registered, NEW d \in InHandler(i)', stop # "no"
       PROVE  \/ attempt'[i][d] > 0 \/ d = "manual" \/ d = "onStart"
              \/ d \in InHandler(i) /\ attempt'[i][d] = attempt[i][d]
  <2>1. i \in Jobs /\ d \in Kinds /\ chain'[i][d] = "handler"
    BY DEF CronTypeOK, InHandler
  <2>2. CASE <<i, d>> = <<j, c>>
    BY <1>3, <1>11, <1>12, <2>1, <2>2
  <2>3. CASE <<i, d>> # <<j, c>>
    BY <1>3, <2>1, <2>3 DEF InHandler
  <2> QED
    BY <2>2, <2>3
<1>13. AwaitsFirstAttempts'
  BY <1>2, <1>12 DEF AwaitsFirstAttempts
<1>14. QuietAfterStop'
  BY <1>2, <1>12 DEF QuietAfterStop
<1> QED
  BY <1>4, <1>7, <1>8, <1>9, <1>10, <1>13, <1>14

LEMMA NextCron == CronInv /\ [CronNext]_cronVars => CronInv'
<1> SUFFICES ASSUME CronInv, [CronNext]_cronVars PROVE CronInv'
  OBVIOUS
<1> USE DEF CronInv
<1>1. ASSUME NEW j \in Jobs, ChainStep(j) \/ Run(j) PROVE CronInv'
  <2>1. CASE \E c \in Kinds : /\ ChainEffect(j, c)
                              /\ \/ chain[j][c] # "none"
                                 \/ c = "manual"
                                 \/ c = "timer" /\ j \in timer
    BY <2>1, ChainKeeps
  <2>2. CASE /\ UNCHANGED <<registered, started, aborted, stop, awaited, running, chain, attempt>>
             /\ timer' = timer \ {j}
    BY <2>2 DEF CronTypeOK, OneHandler, OneTimerChain, InHandler, StatesOfChains,
         TimersOfStarted, AwaitsFirstAttempts, QuietAfterStop
  <2> QED
    BY <1>1, <2>1, <2>2, ChainEffects
<1>2. ASSUME NEW j \in Jobs, Remove(j) PROVE CronInv'
  BY <1>2 DEF Remove, CronTypeOK, OneHandler, OneTimerChain, InHandler, StatesOfChains,
       TimersOfStarted, AwaitsFirstAttempts, QuietAfterStop
<1>3. CASE Start
  <2>1. /\ stop = "no" /\ ~started /\ started'
        /\ timer' \subseteq Jobs
        /\ UNCHANGED <<registered, aborted, running, attempt, stop, awaited>>
    BY <1>3 DEF Start, CronTypeOK
  <2>2. /\ chain' \in [Jobs -> [Kinds -> {"none", "staggered", "handler", "backoff"}]]
        /\ \A j \in Jobs, c \in Kinds :
             \/ chain'[j][c] = chain[j][c]
             \/ c = "onStart" /\ chain'[j][c] = "staggered"
    BY <1>3 DEF Start, CronTypeOK
  <2>3. \A j \in Jobs : chain[j]["timer"] = "none" /\ chain[j]["onStart"] = "none"
    BY <2>1 DEF TimersOfStarted
  <2>4. "timer" \in Kinds /\ "onStart" \in Kinds /\ "timer" # "onStart"
    BY DEF Kinds
  <2>5. \A j \in Jobs : InHandler(j)' = InHandler(j)
    BY <2>2, <2>3 DEF InHandler
  <2>6. CronTypeOK'
    BY <2>1, <2>2 DEF CronTypeOK
  <2>7. OneHandler'
    BY <2>1, <2>5 DEF OneHandler
  <2>8. OneTimerChain' /\ TimersOfStarted'
    BY <2>1, <2>2, <2>3, <2>4 DEF OneTimerChain, TimersOfStarted
  <2>9. StatesOfChains'
    <3> SUFFICES ASSUME NEW j \in Jobs, NEW c \in Kinds
                 PROVE  /\ chain'[j][c] = "backoff" => attempt'[j][c] > 0
                        /\ chain'[j][c] = "staggered" => c = "onStart"
      BY DEF StatesOfChains
    <3> QED
      BY <2>1, <2>2 DEF StatesOfChains
  <2>10. AwaitsFirstAttempts' /\ QuietAfterStop'
    BY <2>1 DEF AwaitsFirstAttempts, QuietAfterStop
  <2> QED
    BY <2>6, <2>7, <2>8, <2>9, <2>10
<1>4. CASE Abort
  BY <1>4 DEF Abort, CronTypeOK, OneHandler, OneTimerChain, InHandler, StatesOfChains,
       TimersOfStarted, AwaitsFirstAttempts, QuietAfterStop
<1>5. CASE Stop
  <2>1. /\ stop = "no" /\ stop' = "waiting" /\ started' = FALSE
        /\ timer' = timer \ registered /\ awaited' = registered \cap running
        /\ UNCHANGED <<registered, aborted, running, chain, attempt>>
    BY <1>5 DEF Stop, AwaitedByStop
  <2>2. \A j \in Jobs : InHandler(j)' = InHandler(j)
    BY <2>1 DEF InHandler
  <2>3. CronTypeOK'
    BY <2>1 DEF CronTypeOK
  <2>6. OneTimerChain' /\ StatesOfChains'
    BY <2>1 DEF OneTimerChain, StatesOfChains
  <2>7. TimersOfStarted'
    BY <2>1 DEF TimersOfStarted
  <2>4. OneHandler'
    BY <2>1, <2>2 DEF OneHandler
  <2>5. AwaitsFirstAttempts' /\ QuietAfterStop'
    BY <2>1, <2>2 DEF AwaitsFirstAttempts, QuietAfterStop, OneHandler, CronTypeOK
  <2> QED
    BY <2>3, <2>4, <2>5, <2>6, <2>7
<1>6. CASE StopReturns
  <2>1. /\ stop = "waiting" /\ stop' \in {"done", "late"}
        /\ stop' = "done" => awaited \cap running = {}
        /\ UNCHANGED <<registered, started, aborted, timer, running, chain, attempt, awaited>>
    BY <1>6 DEF StopReturns
  <2>2. \A j \in Jobs : InHandler(j)' = InHandler(j)
    BY <2>1 DEF InHandler
  <2>3. CronTypeOK'
    BY <2>1 DEF CronTypeOK
  <2>6. OneTimerChain' /\ StatesOfChains'
    BY <2>1 DEF OneTimerChain, StatesOfChains
  <2>7. TimersOfStarted'
    BY <2>1 DEF TimersOfStarted
  <2>4. OneHandler' /\ AwaitsFirstAttempts'
    BY <2>1, <2>2 DEF OneHandler, AwaitsFirstAttempts
  <2>5. QuietAfterStop'
    <3> SUFFICES ASSUME stop' = "done", NEW j \in registered, NEW c \in InHandler(j)
                 PROVE  attempt[j][c] > 0 \/ c = "manual" \/ c = "onStart"
      BY <2>1, <2>2 DEF QuietAfterStop, CronTypeOK
    <3>1. j \in Jobs /\ j \in running
      BY DEF OneHandler, CronTypeOK
    <3>2. j \notin awaited
      BY <2>1, <3>1
    <3> QED
      BY <2>1, <3>2 DEF AwaitsFirstAttempts
  <2> QED
    BY <2>3, <2>4, <2>5, <2>6, <2>7
<1>7. CASE UNCHANGED cronVars
  BY <1>7 DEF cronVars, CronTypeOK, OneHandler, OneTimerChain, InHandler, StatesOfChains,
       TimersOfStarted, AwaitsFirstAttempts, QuietAfterStop
<1> QED
  BY <1>1, <1>2, <1>3, <1>4, <1>5, <1>6, <1>7 DEF CronNext

LEMMA CronAlways == CronSpec => []CronInv
BY InitCron, NextCron, PTL DEF CronSpec

LEMMA CronInvParts == CronInv => CronTypeOK /\ OneHandler /\ OneTimerChain /\ QuietAfterStop
BY DEF CronInv

\* Every reachable state of the service has the declared types; no chain makes
\* more than three attempts (service.ts:153-175).
THEOREM CronTypeCorrect == CronSpec => []CronTypeOK
BY CronAlways, CronInvParts, PTL

\* The handler of a job is never in progress twice (service.ts:181-185).
THEOREM HandlersExclusive == CronSpec => []OneHandler
BY CronAlways, CronInvParts, PTL

\* A job whose timer is armed has no chain that would arm it again
\* (service.ts:144-150).
THEOREM TimersSingle == CronSpec => []OneTimerChain
BY CronAlways, CronInvParts, PTL

\* After a stop() that returned in time, no registered job is in a first
\* attempt that its timer began (service.ts:89-111).
THEOREM StopIsQuiet == CronSpec => []QuietAfterStop
BY CronAlways, CronInvParts, PTL

\* j has its timer armed, or the chain that will arm it is under way.
GoesOn(j) == j \in timer \/ chain[j]["timer"] # "none"

\* A job of a service that is up has its timer armed, or the chain that will arm it is under
\* way, with whatever attempts (service.ts:132-175).
JobsKeptGoing ==
  started /\ ~aborted => \A j \in registered : GoesOn(j)

\* A chain that is over leaves its job going, and the other jobs as they are.
LEMMA ConcludeGoes ==
  ASSUME CronInv, NEW j \in Jobs, NEW c \in Kinds, NEW succeeded, Conclude(j, c, succeeded),
         started, ~aborted
  PROVE  /\ GoesOn(j) => GoesOn(j)'
         /\ \A i \in Jobs \ {j} : GoesOn(i)' <=> GoesOn(i)
<1>1. "timer" \in Kinds /\ chain \in [Jobs -> [Kinds -> {"none", "staggered", "handler", "backoff"}]]
  BY DEF Kinds, CronInv, CronTypeOK
<1>2. chain' = [chain EXCEPT ![j][c] = "none"]
  BY DEF Conclude, At
<1>3. timer' = IF c = "timer" THEN timer \cup {j} ELSE timer
  BY DEF Conclude, Schedules, Fired
<1> QED
  BY <1>1, <1>2, <1>3 DEF GoesOn

\* So does an attempt.
LEMMA AttemptGoes ==
  ASSUME CronInv, NEW j \in Jobs, NEW c \in Kinds, Attempt(j, c), started, ~aborted
  PROVE  /\ GoesOn(j) => GoesOn(j)'
         /\ \A i \in Jobs \ {j} : GoesOn(i)' <=> GoesOn(i)
<1>1. CASE Conclude(j, c, TRUE)
  BY <1>1, ConcludeGoes
<1>2. CASE At(j, c, "handler", attempt[j][c]) /\ timer' = Fired(j, c)
  <2>1. "timer" \in Kinds
        /\ chain \in [Jobs -> [Kinds -> {"none", "staggered", "handler", "backoff"}]]
    BY DEF Kinds, CronInv, CronTypeOK
  <2>2. chain' = [chain EXCEPT ![j][c] = "handler"]
    BY <1>2 DEF At
  <2>3. timer' = IF c = "timer" THEN timer \ {j} ELSE timer
    BY <1>2 DEF Fired
  <2> QED
    BY <2>1, <2>2, <2>3 DEF GoesOn
<1> QED
  BY <1>1, <1>2 DEF Attempt

\* So does every step of a chain.
LEMMA ChainGoes ==
  ASSUME CronInv, NEW j \in Jobs, ChainStep(j) \/ Run(j), started, ~aborted
  PROVE  /\ GoesOn(j) => GoesOn(j)'
         /\ \A i \in Jobs \ {j} : GoesOn(i)' <=> GoesOn(i)
<1> DEFINE Kept == /\ GoesOn(j) => GoesOn(j)'
                   /\ \A i \in Jobs \ {j} : GoesOn(i)' <=> GoesOn(i)
<1>1. "timer" \in Kinds /\ "onStart" \in Kinds /\ "manual" \in Kinds
  BY DEF Kinds
<1>2. ASSUME NEW c \in Kinds, HandlerReturns(j, c) PROVE Kept
  BY <1>2, ConcludeGoes DEF HandlerReturns
<1>3. ASSUME NEW c \in Kinds, HandlerThrows(j, c) PROVE Kept
  <2>1. CASE Conclude(j, c, FALSE)
    BY <2>1, ConcludeGoes
  <2>2. CASE At(j, c, "backoff", attempt[j][c] + 1) /\ UNCHANGED timer
    <3>1. chain \in [Jobs -> [Kinds -> {"none", "staggered", "handler", "backoff"}]]
      BY DEF CronInv, CronTypeOK
    <3>2. chain' = [chain EXCEPT ![j][c] = "backoff"] /\ timer' = timer
      BY <2>2 DEF At
    <3> QED
      BY <1>1, <3>1, <3>2 DEF GoesOn
  <2> QED
    BY <1>3, <2>1, <2>2 DEF HandlerThrows
<1>4. ASSUME NEW c \in Kinds, BackoffOver(j, c) PROVE Kept
  BY <1>4, AttemptGoes DEF BackoffOver
<1>5. ASSUME StaggerOver(j) PROVE Kept
  BY <1>1, <1>5, AttemptGoes DEF StaggerOver
<1>6. ASSUME Fire(j) PROVE Kept
  BY <1>1, <1>6, AttemptGoes DEF Fire
<1>7. ASSUME Run(j) PROVE Kept
  BY <1>1, <1>7, AttemptGoes DEF Run
<1> QED
  BY <1>2, <1>3, <1>4, <1>5, <1>6, <1>7 DEF ChainStep

LEMMA NextGoes ==
  ASSUME CronInv, JobsKeptGoing, [CronNext]_cronVars
  PROVE  JobsKeptGoing'
<1> SUFFICES ASSUME started', ~aborted', NEW i \in registered' PROVE GoesOn(i)'
  BY DEF JobsKeptGoing
<1>0. registered \subseteq Jobs
  BY DEF CronInv, CronTypeOK
<1>1. ASSUME NEW j \in Jobs, ChainStep(j) \/ Run(j) PROVE GoesOn(i)'
  <2>1. UNCHANGED <<registered, started, aborted>>
    BY <1>1 DEF ChainStep, Run, Fire, StaggerOver, HandlerReturns, HandlerThrows, BackoffOver
  <2> QED
    BY <1>0, <1>1, <2>1, ChainGoes DEF JobsKeptGoing, GoesOn
<1>2. ASSUME NEW j \in Jobs, Remove(j) PROVE GoesOn(i)'
  BY <1>2 DEF Remove, JobsKeptGoing, GoesOn
<1>3. CASE Start
  BY <1>3 DEF Start, GoesOn
<1>4. CASE Abort \/ Stop
  BY <1>4 DEF Abort, Stop
<1>5. CASE StopReturns \/ UNCHANGED cronVars
  BY <1>5 DEF StopReturns, cronVars, JobsKeptGoing, GoesOn
<1> QED
  BY <1>1, <1>2, <1>3, <1>4, <1>5 DEF CronNext

\* No job of a service that is up loses its timer for good, whatever its handler does, who
\* else runs it and what is removed meanwhile (service.ts:132-175): what KeepsRunning rests on.
THEOREM JobsNeverLost == CronSpec => []JobsKeptGoing
<1>1. CronInit => JobsKeptGoing
  BY DEF CronInit, JobsKeptGoing
<1> QED
  BY <1>1, NextGoes, CronAlways, PTL DEF CronSpec
=============================================================================
