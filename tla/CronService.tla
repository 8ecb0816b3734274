---------------------------- MODULE CronService ----------------------------
(***************************************************************************)
(* CronService (cron/service.ts): jobs that run at an interval, are tried  *)
(* three times with a backoff, and must not run twice at once.             *)
(*                                                                         *)
(* A call of runJobWithRetry is a chain.  A job has at most three at a     *)
(* time: the one of runOnStart, the one of its timer, which re-arms the    *)
(* timer when it is over, and one of run().  What a promise continues      *)
(* with no await in between is one action: the end of a handler, say, and  *)
(* the re-arming behind it.                                                *)
(***************************************************************************)
EXTENDS Naturals, FiniteSets

CONSTANTS Jobs,        \* the JobState objects ever added
          RunOnStart,  \* those whose job has runOnStart
          Triggered    \* those that somebody calls run() for

ASSUME CronAssumption == RunOnStart \subseteq Jobs /\ Triggered \subseteq Jobs

VARIABLES
  registered,  \* jobs in the Map
  started,     \* the flag `started`
  aborted,     \* the daemon's AbortSignal
  timer,       \* jobs whose state.timer will fire
  running,     \* jobs whose flag `running` is set
  chain,       \* where each chain is
  attempt,     \* failed attempts of each chain
  stop,        \* stop(): "no", "waiting", "done", "late" (gave up after 30s)
  awaited      \* the jobs stop() waits for

cronVars == <<registered, started, aborted, timer, running, chain, attempt,
              stop, awaited>>

Kinds == {"onStart", "timer", "manual"}

MaxAttempts == 3

CronInit ==
  /\ registered = Jobs
  /\ started = FALSE /\ aborted = FALSE
  /\ timer = {} /\ running = {}
  /\ chain = [j \in Jobs |-> [c \in Kinds |-> "none"]]
  /\ attempt = [j \in Jobs |-> [c \in Kinds |-> 0]]
  /\ stop = "no" /\ awaited = {}

-----------------------------------------------------------------------------
(***************************************************************************)
(* Chains.                                                                 *)
(***************************************************************************)

At(j, c, state, n) ==
  /\ chain' = [chain EXCEPT ![j][c] = state]
  /\ attempt' = [attempt EXCEPT ![j][c] = n]

\* A chain of the timer begins when the timer fired.
Fired(j, c) == IF c = "timer" THEN timer \ {j} ELSE timer

\* Mutant: scheduleNext follows every chain.
SchedulesAlways(c, succeeded) == TRUE

\* Mutant: scheduleNext follows only a chain that succeeded.
SchedulesAfterSuccess(c, succeeded) == c = "timer" /\ succeeded

\* scheduleNext follows the chain of a timer, however its attempts went.
Schedules(c, succeeded) == c = "timer"

\* runJobWithRetry is over.  scheduleNext arms the timer unless the service was
\* stopped or is shutting down.
Conclude(j, c, succeeded) ==
  /\ At(j, c, "none", 0)
  /\ timer' = IF Schedules(c, succeeded) /\ started /\ ~aborted
              THEN timer \cup {j} ELSE Fired(j, c)

\* Mutant: a retry does not look at the flag.
BusyAtFirst(j, c) == j \in running /\ chain[j][c] # "backoff"

\* The guard of runJobOnce.
Busy(j, c) == j \in running

\* runJobOnce up to the handler's await.  A job that runs already counts as a
\* success, so the chain is over.
Attempt(j, c) ==
  \/ /\ Busy(j, c)
     /\ Conclude(j, c, TRUE)
     /\ UNCHANGED running
  \/ /\ ~Busy(j, c)
     /\ At(j, c, "handler", attempt[j][c])
     /\ running' = running \cup {j}
     /\ timer' = Fired(j, c)

\* The handler resolves.
HandlerReturns(j, c) ==
  /\ chain[j][c] = "handler"
  /\ running' = running \ {j}
  /\ Conclude(j, c, TRUE)
  /\ UNCHANGED <<registered, started, aborted, stop, awaited>>

MayRetry(n) == n < MaxAttempts - 1

\* The handler rejects: back off, or give up until the next interval.
HandlerThrows(j, c) ==
  /\ chain[j][c] = "handler"
  /\ running' = running \ {j}
  /\ IF MayRetry(attempt[j][c])
     THEN At(j, c, "backoff", attempt[j][c] + 1) /\ UNCHANGED timer
     ELSE Conclude(j, c, FALSE)
  /\ UNCHANGED <<registered, started, aborted, stop, awaited>>

\* The sleep between attempts ends; nothing can end it early.
BackoffOver(j, c) ==
  /\ chain[j][c] = "backoff"
  /\ Attempt(j, c)
  /\ UNCHANGED <<registered, started, aborted, stop, awaited>>

-----------------------------------------------------------------------------
(***************************************************************************)
(* What begins a chain.                                                    *)
(***************************************************************************)

\* start(): a staggered chain for each runOnStart job, a timer for each job.
Start ==
  /\ stop = "no" /\ ~started
  /\ started' = TRUE
  /\ timer' = IF aborted THEN timer ELSE timer \cup registered
  /\ chain' = [j \in Jobs |->
                 IF j \in registered \cap RunOnStart /\ ~aborted
                 THEN [chain[j] EXCEPT !["onStart"] = "staggered"] ELSE chain[j]]
  /\ UNCHANGED <<registered, aborted, running, attempt, stop, awaited>>

\* The stagger is over; an abort ends it early, and the chain with it.
StaggerOver(j) ==
  /\ chain[j]["onStart"] = "staggered"
  /\ \/ ~aborted /\ Attempt(j, "onStart")
     \/ aborted /\ At(j, "onStart", "none", 0) /\ UNCHANGED <<timer, running>>
  /\ UNCHANGED <<registered, started, aborted, stop, awaited>>

\* The timer fires; after an abort it does nothing.
Fire(j) ==
  /\ j \in timer
  /\ \/ ~aborted /\ Attempt(j, "timer")
     \/ aborted /\ timer' = timer \ {j} /\ UNCHANGED <<running, chain, attempt>>
  /\ UNCHANGED <<registered, started, aborted, stop, awaited>>

\* run(id) of a registered job; one call at a time.
Run(j) ==
  /\ j \in registered \cap Triggered /\ chain[j]["manual"] = "none"
  /\ Attempt(j, "manual")
  /\ UNCHANGED <<registered, started, aborted, stop, awaited>>

-----------------------------------------------------------------------------
(***************************************************************************)
(* What ends them.                                                         *)
(***************************************************************************)

\* The daemon got a signal.
Abort ==
  /\ ~aborted /\ aborted' = TRUE
  /\ UNCHANGED <<registered, started, timer, running, chain, attempt, stop, awaited>>

\* remove(id), as add() calls it for an id it has already.
Remove(j) ==
  /\ j \in registered
  /\ registered' = registered \ {j}
  /\ timer' = timer \ {j}
  /\ UNCHANGED <<started, aborted, running, chain, attempt, stop, awaited>>

\* Mutant: stop does not wait.
AwaitedNone == {}

AwaitedByStop == registered \cap running

\* stop() up to its first sleep: it clears the timers of the jobs in the Map.
Stop ==
  /\ stop = "no" /\ started
  /\ started' = FALSE
  /\ timer' = timer \ registered
  /\ awaited' = AwaitedByStop
  /\ stop' = "waiting"
  /\ UNCHANGED <<registered, aborted, running, chain, attempt>>

\* stop() looks every half second, for 30 seconds.
StopReturns ==
  /\ stop = "waiting"
  /\ stop' = IF awaited \cap running = {} THEN "done" ELSE "late"
  /\ UNCHANGED <<registered, started, aborted, timer, running, chain, attempt, awaited>>

-----------------------------------------------------------------------------

ChainStep(j) ==
  \/ Fire(j) \/ StaggerOver(j)
  \/ \E c \in Kinds : HandlerReturns(j, c) \/ HandlerThrows(j, c) \/ BackoffOver(j, c)

CronNext ==
  \/ \E j \in Jobs : ChainStep(j) \/ Run(j) \/ Remove(j)
  \/ Start \/ Abort \/ Stop \/ StopReturns

CronSpec == CronInit /\ [][CronNext]_cronVars

\* Timers fire, sleeps end, and a handler resolves or rejects some time.
CronFairness ==
  \A j \in Jobs :
    /\ WF_cronVars(Fire(j)) /\ WF_cronVars(StaggerOver(j))
    /\ \A c \in Kinds :
         /\ WF_cronVars(HandlerReturns(j, c) \/ HandlerThrows(j, c))
         /\ WF_cronVars(BackoffOver(j, c))

CronFairSpec == CronSpec /\ CronFairness

-----------------------------------------------------------------------------
(***************************************************************************)
(* Properties.                                                             *)
(***************************************************************************)

CronTypeOK ==
  /\ registered \subseteq Jobs /\ timer \subseteq Jobs
  /\ running \subseteq Jobs /\ awaited \subseteq Jobs
  /\ started \in BOOLEAN /\ aborted \in BOOLEAN
  /\ chain \in [Jobs -> [Kinds -> {"none", "staggered", "handler", "backoff"}]]
  /\ attempt \in [Jobs -> [Kinds -> 0..(MaxAttempts - 1)]]
  /\ stop \in {"no", "waiting", "done", "late"}

InHandler(j) == {c \in Kinds : chain[j][c] = "handler"}

\* "Guards against concurrent execution" (service.ts:179): the chains of a job,
\* with their retries, never have its handler in progress twice, and the flag
\* says whether one has.
OneHandler ==
  \A j \in Jobs :
    /\ \A c, d \in InHandler(j) : c = d
    /\ j \in running <=> InHandler(j) # {}

\* A job has one timer or a chain that will arm it, not both; otherwise it
\* would run more and more often (service.ts:144-150).
OneTimerChain ==
  \A j \in Jobs : j \in timer => chain[j]["timer"] = "none"

\* When stop() returned in time, what still runs of the registered jobs is a
\* retry, a run of somebody else, or the start-up chain of a service that was
\* stopped without an abort (service.ts:89-111).
QuietAfterStop ==
  stop = "done" =>
    \A j \in registered : \A c \in InHandler(j) :
      attempt[j][c] > 0 \/ c = "manual" \/ c = "onStart"

\* As long as the service is up, a job that was not removed runs again and
\* again, whatever its handler did before (service.ts:132-175).
KeepsRunning ==
  \A j \in Jobs :
    []<>(j \in running \/ ~started \/ aborted \/ j \notin registered)
=============================================================================
