-------------------------- MODULE DaemonLifecycle --------------------------
(***************************************************************************)
(* The life of the daemon (main.ts, daemon/lifecycle.ts, lock.ts and       *)
(* pointer.ts): launches of the process over one data directory, which     *)
(* exclude each other with a PID file and leave a pointer for the next one *)
(* when they die.                                                          *)
(***************************************************************************)
EXTENDS Naturals

CONSTANTS Launches,  \* starts of the process, numbered in their order
          Pids,      \* process ids
          PidReuse,  \* whether the system gives an id again, to whatever process
          Foreign,   \* pairs of launches: the first may not signal the second (EPERM)
          NoFile, NoPid

ASSUME LifecycleAssumption ==
  /\ Launches \subseteq Nat /\ PidReuse \in BOOLEAN
  /\ Foreign \subseteq Launches \X Launches /\ \A l \in Launches : <<l, l>> \notin Foreign
  /\ NoFile \notin Pids \cup Launches /\ NoPid \notin Pids
  /\ NoFile # "corrupt" /\ "corrupt" \notin Pids

VARIABLES
  phase,      \* where each launch is in runDaemon
  pid,        \* its process id
  signalled,  \* launches whose AbortSignal is aborted
  lockFile,   \* state/daemon.pid
  opened,     \* launches that have opened the present lockFile to write it
  pointer,    \* state/daemon-pointer.json: the launch that wrote it
  writing,    \* launches with a pointer refresh under way
  contended,  \* auxiliary: launches whose lock another one could not see
  kept,       \* auxiliary: launches whose unlink of the PID file failed
  late        \* auxiliary: whether pointer outlived its launch's attempt to clear it

lockVars == <<lockFile, opened, contended, kept>>

pointerVars == <<pointer, writing, late>>

lifeVars == <<phase, pid, signalled, lockVars, pointerVars>>

\* Between the decision to take the lock and the last write of the PID file.
Taking == {"removing", "locking", "filling"}

Acquiring == {"checking"} \cup Taking

\* The phases between acquire and release.
Holding == {"starting", "booting", "running", "stopping", "closing", "failed"}

\* After release: "leaving" returned from main, "failing" goes to its catch.
Living == Acquiring \cup Holding \cup {"leaving", "failing"}

\* "refused" and "erred" exited with an error of acquire, "broken" with one that
\* came after it had the lock.
Dead == {"refused", "erred", "gone", "crashed", "broken"}

Alive(l) == phase[l] \in Living

Holds(l) == phase[l] \in Holding

Takes(l) == phase[l] \in Taking

LifeInit ==
  /\ phase = [l \in Launches |-> "unborn"]
  /\ pid = [l \in Launches |-> NoPid]
  /\ signalled = {} /\ writing = {} /\ late = FALSE
  /\ lockFile = NoFile /\ opened = {} /\ pointer = NoFile
  /\ contended = {} /\ kept = {}

Goes(l, to) == phase' = [phase EXCEPT ![l] = to]

-----------------------------------------------------------------------------
(***************************************************************************)
(* Acquiring the lock. Nothing keeps launches from acquiring at once.      *)
(***************************************************************************)

\* Somebody starts the process; the system gives it an id that no one has.
Launch(l, p) ==
  /\ phase[l] = "unborn"
  /\ \A m \in Launches : m < l => phase[m] # "unborn"
  /\ \A m \in Launches : pid[m] = p => PidReuse /\ ~Alive(m)
  /\ Goes(l, "checking")
  /\ pid' = [pid EXCEPT ![l] = p]
  /\ UNCHANGED <<signalled, lockVars, pointerVars>>

\* isProcessAlive, asked by l: true of itself, false of a process it may not
\* signal, and perhaps true of an id that some other program has by now.
ProcessAlive(l, p) ==
  \/ \E m \in Launches : pid[m] = p /\ Alive(m) /\ <<l, m>> \notin Foreign
  \/ PidReuse /\ (\A m \in Launches : pid[m] = p => ~Alive(m))

ProcessDead(l, p) == \A m \in Launches : pid[m] = p /\ Alive(m) => <<l, m>> \in Foreign

\* Mutant: the error of acquire is thrown within the try block.
RefusedInside == "failed"

\* The error of acquire is not in the try block: the process exits.
Refused == "refused"

\* What l, deciding to take the lock, cannot see from the PID file: one that
\* takes it at the moment, a holder it may not signal, and a holder whose own
\* file somebody who could not see it has removed or written over.
Unseen(l) ==
  {m \in Launches \ {l} : Takes(m) \/ (Holds(m) /\ (<<l, m>> \in Foreign \/ m \in contended))}

\* The PID file is read: another instance, a stale or corrupted file, or none.
Check(l) ==
  /\ phase[l] = "checking"
  /\ \/ /\ lockFile \in Pids /\ ProcessAlive(l, lockFile)
        /\ Goes(l, Refused)
        /\ UNCHANGED contended
     \/ /\ \/ lockFile \in Pids /\ ProcessDead(l, lockFile) /\ Goes(l, "removing")
           \/ lockFile = "corrupt" /\ Goes(l, "removing")
           \/ lockFile = NoFile /\ Goes(l, "locking")
        /\ contended' = contended \cup IF Unseen(l) = {} THEN {} ELSE {l} \cup Unseen(l)
  /\ UNCHANGED <<pid, signalled, lockFile, opened, kept, pointerVars>>

\* The file is removed, whosever it is by now; release logs a failure and goes on.
RemoveStale(l) ==
  /\ phase[l] = "removing"
  /\ \/ lockFile' = NoFile /\ opened' = {}
     \/ UNCHANGED <<lockFile, opened>>
  /\ Goes(l, "locking")
  /\ UNCHANGED <<pid, signalled, contended, kept, pointerVars>>

\* writeFile opens the file, which makes it empty.
Open(l) ==
  /\ phase[l] = "locking"
  /\ lockFile' = "corrupt" /\ opened' = opened \cup {l}
  /\ Goes(l, "filling")
  /\ UNCHANGED <<pid, signalled, contended, kept, pointerVars>>

\* It writes the id, into a file that another may have removed since.
Lock(l) ==
  /\ phase[l] = "filling"
  /\ lockFile' = IF l \in opened THEN pid[l] ELSE lockFile
  /\ opened' = opened \ {l}
  /\ Goes(l, "starting")
  /\ UNCHANGED <<pid, signalled, contended, kept, pointerVars>>

\* The read, mkdir, or the write throws: acquire rejects and the process exits.
AcquireFails(l) ==
  /\ phase[l] \in {"checking", "locking", "filling"}
  /\ opened' = opened \ {l}
  /\ Goes(l, "erred")
  /\ UNCHANGED <<pid, signalled, lockFile, contended, kept, pointerVars>>

-----------------------------------------------------------------------------
(***************************************************************************)
(* Running.                                                                *)
(***************************************************************************)

\* The pointer of an earlier life is read, reported unless it is corrupted or
\* older than four hours, and cleared, if it can be.
Recover(l) ==
  /\ phase[l] = "starting"
  /\ \/ pointer' = NoFile /\ late' = FALSE
     \/ UNCHANGED <<pointer, late>>
  /\ Goes(l, "booting")
  /\ UNCHANGED <<pid, signalled, lockVars, writing>>

\* Mutant: a signal that came before anybody listens is not looked for.
NeverMissed(l) == FALSE

\* The wait for the signal is over at once if it has come already.
Aborted(l) == l \in signalled

\* Memories, channels, router and cron are up; the first pointer is written, or
\* failed to be, which is only logged.
Boot(l) ==
  /\ phase[l] = "booting"
  /\ \/ pointer' = l /\ late' = FALSE
     \/ UNCHANGED <<pointer, late>>
  /\ Goes(l, IF Aborted(l) THEN "stopping" ELSE "running")
  /\ UNCHANGED <<pid, signalled, lockVars, writing>>

\* Mutant: the lock is not released when the start fails.
AfterFailure == "failing"

\* The finally block is next.
Thrown == "failed"

\* Something throws: the start of a part, or the end of one.
Fails(l) ==
  /\ phase[l] \in {"booting", "stopping"}
  /\ Goes(l, Thrown)
  /\ UNCHANGED <<pid, signalled, lockVars, pointerVars>>

\* The refresh interval fires. One write stands for several that overlap: they
\* write the same.
Tick(l) ==
  /\ phase[l] = "running" /\ l \notin writing
  /\ writing' = writing \cup {l}
  /\ UNCHANGED <<phase, pid, signalled, lockVars, pointer, late>>

\* The pointer of a tick is written, or not, which is only logged.
Refreshed(l) ==
  /\ l \in writing
  /\ writing' = writing \ {l}
  /\ \/ pointer' = l /\ late' = (phase[l] \in {"closing", "leaving"})
     \/ UNCHANGED <<pointer, late>>
  /\ UNCHANGED <<phase, pid, signalled, lockVars>>

\* SIGINT, SIGTERM or an uncaught exception. A daemon that waits for it ends its
\* wait, clears the interval, and stops the router, cron, channels and sessions,
\* each awaited. Once it stops, another signal changes nothing.
Signal(l) ==
  /\ l \notin signalled
  /\ signalled' = signalled \cup {l}
  /\ \/ phase[l] \in Acquiring \cup {"starting", "booting"} /\ UNCHANGED phase
     \/ phase[l] = "running" /\ Goes(l, "stopping")
  /\ UNCHANGED <<pid, lockVars, pointerVars>>

-----------------------------------------------------------------------------
(***************************************************************************)
(* Ending.                                                                 *)
(***************************************************************************)

\* Mutant: the pointer is left to the next start.
PointerKept == pointer

PointerCleared == NoFile

\* Sessions are shut down: the pointer is cleared, if it can be.
ClearPointer(l) ==
  /\ phase[l] = "stopping"
  /\ \/ pointer' = PointerCleared /\ late' = FALSE
     \/ UNCHANGED pointer /\ late' = (late \/ pointer = l)
  /\ Goes(l, "closing")
  /\ UNCHANGED <<pid, signalled, lockVars, writing>>

\* The finally block: the PID file is removed, whoever wrote it; a failure is
\* only logged.
Release(l) ==
  /\ \/ phase[l] = "closing" /\ Goes(l, "leaving")
     \/ phase[l] = "failed" /\ Goes(l, "failing")
  /\ \/ lockFile' = NoFile /\ opened' = {} /\ UNCHANGED kept
     \/ kept' = kept \cup {l} /\ UNCHANGED <<lockFile, opened>>
  /\ UNCHANGED <<pid, signalled, contended, pointerVars>>

\* The process ends by itself when nothing is left on its event loop.
Exit(l) ==
  /\ phase[l] = "leaving" /\ l \notin writing
  /\ Goes(l, "gone")
  /\ UNCHANGED <<pid, signalled, lockVars, pointerVars>>

\* After a failure main ends it, whatever is left.
ExitOnError(l) ==
  /\ phase[l] = "failing"
  /\ Goes(l, "broken")
  /\ writing' = writing \ {l}
  /\ UNCHANGED <<pid, signalled, lockVars, pointer, late>>

\* The process is killed, while it writes the PID file at worst.
Crash(l) ==
  /\ Alive(l)
  /\ Goes(l, "crashed")
  /\ writing' = writing \ {l} /\ opened' = opened \ {l}
  /\ UNCHANGED <<pid, signalled, lockFile, contended, kept, pointer, late>>

-----------------------------------------------------------------------------

\* What the process does on its own.
LifeStep(l) ==
  \/ Check(l) \/ RemoveStale(l) \/ Open(l) \/ Lock(l) \/ AcquireFails(l)
  \/ Recover(l) \/ Boot(l) \/ Fails(l) \/ ClearPointer(l) \/ Release(l) \/ ExitOnError(l)

LifeNext ==
  \E l \in Launches :
    \/ LifeStep(l) \/ Exit(l) \/ Tick(l) \/ Refreshed(l) \/ Signal(l) \/ Crash(l)
    \/ \E p \in Pids : Launch(l, p)

LifeSpec == LifeInit /\ [][LifeNext]_lifeVars

\* A process that lives makes progress: every await of runDaemon ends. One
\* formula suffices, because a launch takes few steps. Nothing is assumed of the
\* refreshes, nor of the end of a process whose main returned: an interval that
\* was never cleared keeps it alive, and main.ts does not exit.
LifeFairness == WF_lifeVars(\E l \in Launches : LifeStep(l))

LifeFairSpec == LifeSpec /\ LifeFairness

-----------------------------------------------------------------------------
(***************************************************************************)
(* Properties.                                                             *)
(***************************************************************************)

LifeTypeOK ==
  /\ phase \in [Launches -> {"unborn"} \cup Living \cup Dead]
  /\ pid \in [Launches -> Pids \cup {NoPid}]
  /\ \A l \in Launches : phase[l] = "unborn" <=> pid[l] = NoPid
  /\ signalled \subseteq Launches /\ writing \subseteq Launches /\ late \in BOOLEAN
  /\ opened \subseteq Launches /\ contended \subseteq Launches /\ kept \subseteq Launches
  /\ lockFile \in Pids \cup {NoFile, "corrupt"}
  /\ pointer \in Launches \cup {NoFile}

\* "Prevents duplicate daemon instances" (lock.ts:3): two launches take or hold
\* the lock at once only if one decided to while it could not see the other; a
\* holder that everybody could see has its id in the file. That goes for any
\* overlap of launches, and through crashes, failures, stale files and reused ids.
SingleInstance ==
  /\ \A l, m \in Launches :
       l # m /\ (Holds(l) \/ Takes(l)) /\ (Holds(m) \/ Takes(m)) => {l, m} \subseteq contended
  /\ \A l \in Launches : Holds(l) /\ l \notin contended => lockFile = pid[l]

\* The PID file names a launch that holds the lock, or one that could not
\* remove it: it was killed, or its unlink failed.
LeftBehind(p) ==
  \E m \in Launches : pid[m] = p /\ (phase[m] = "crashed" \/ m \in kept)

\* A launch is refused for another that holds the lock, or for the id that one
\* left behind and some process has again (lock.ts:24).
RefusedRightly ==
  [][\A l \in Launches :
       phase[l] = "checking" /\ phase'[l] \notin {"checking", "crashed", "erred"} \cup Taking =>
         \/ \E m \in Launches \ {l} : Holds(m) /\ pid[m] = lockFile
         \/ LeftBehind(lockFile)]_lifeVars

\* "cleared on clean shutdown. If process dies unclean, pointer persists"
\* (pointer.ts:6): a pointer that a start finds was left by a crash, by a start or
\* shutdown that failed, by a refresh that came after the clearing, by a clearing
\* that failed, or by a process that runs at the same time because one of the two
\* could not see the other.
PointerTellsCrash ==
  [][\A l, m \in Launches :
       phase[l] = "starting" /\ phase'[l] = "booting" /\ pointer = m =>
         phase[m] \in {"crashed", "failing", "broken"} \/ late \/ {l, m} \subseteq contended]_lifeVars

\* A signal, even one that comes while the daemon starts, brings the process
\* past the release of its lock (lifecycle.ts:583), from where it does not return:
\* there is always a later moment at which no signalled launch acquires or holds
\* it. What keeps the event loop busy after that may keep the process, but not
\* the lock.
StopsOnSignal == []<>(\A l \in signalled : ~Holds(l) /\ phase[l] \notin Acquiring)
=============================================================================
