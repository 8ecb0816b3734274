# TLA+ models of claude-bot

claude-bot ("claude-pet") runs one or more *pets*: daemons that answer chat messages by spawning the `claude` or
`codex` CLI, remember what was said, study topics, run periodic jobs, review commits and talk to each other through
files. Each daemon is a single-threaded Node process. Nothing runs in parallel inside it, but every `await` is a place
where anything else may happen, every child process and timer acts on its own, and several daemons and restarts share a
data directory. That is what these modules are about. Line numbers refer to the files under `src/src/`.

Contents: [inventory](#1-inventory), [conventions](#2-conventions), [modules](#3-modules),
[runs](#4-runs-and-bounds), [fairness](#5-fairness), [proofs](#6-proofs), [disagreements](#7-where-code-and-text-disagree),
[what is left out](#8-what-is-left-out), [plan](#9-plan).

## 1. Inventory

| Component | State | Operations | Interacts with | Hard part | Correct when |
|---|---|---|---|---|---|
| Session manager (`session/manager.ts`) | Map of handles, timers | getOrCreate, handleSessionDone, scheduleTimeout, shutdown | store, executor; called by router, lifecycle | await between check and registration; keys with a time stamp; timeout, end and shutdown race | sessions end, slots return, the cap is nearly kept, only ended sessions are resumed |
| Session store (`session/store.ts`) | a file per user:channel, a write chain per file | read, write, list, delete | manager, cron jobs | read-modify-write around a lock that covers the write only | records are never torn and name ended sessions |
| Executors (`executor/*`) | child process, flags | spawn, kill, forceKill, done, listeners | manager, router, study, evaluation | a child may ignore SIGTERM, die before anyone listens | SIGKILL follows SIGTERM, `done` resolves once |
| Duplicate filter (`session/dedup.ts`) | ring buffer, Set, index | has, add, clear | router | wrap-around and eviction | the window of the last ids, no more and no less |
| Message router (`channel/router.ts`) | accepting flag, one handler per delivery | handleMessage, start, stop | filter, manager, study queue, plugins, memories | many exits, streaming before listening, shutdown with handlers in flight | one reply per message, typing ends, every message concludes |
| Cron service (`cron/service.ts`) | job states, timers, flags | add, start, stop, remove, run | jobs, reporter | retries that outlive stop, manual runs | a job never runs twice at once and keeps running |
| Cron jobs (`cron/jobs.ts`, `cron/pr-review.ts`) | none of their own | reflection, decay, deduplication, propagation, polls, cleanups | store, knowledge, history | they read and delete what sessions write | they destroy nothing that is in use |
| Study queue (`study/queue.ts`) | queue in memory, a file, flags | enqueue, getState, processNext, load, persist | researcher, router | overlapping chains, a lazy load, a day boundary, crashes | one study at a time, the daily limit, nothing forgotten |
| Lock and pointer (`daemon/lock.ts`, `daemon/pointer.ts`) | two files | acquire, release; read, write, clear | lifecycle | overlapping starts, crashes between two awaits, reused process ids | who can see each other exclude each other, crashes are told from clean ends |
| Daemon lifecycle (`main.ts`, `daemon/lifecycle.ts`) | the process | start, refresh, signal, shutdown | everything | a signal or a failure at any await | it starts once, and stops when told |
| Collaboration (`collaboration/*`) | a task file each | create, update, poll, execute, expire | several daemons | read-change-rename without a lock | a task is done once by each pet, its caller always gets an answer |
| Evaluation (`evaluation/*`) | request and result files | publish, evaluate, clean up | several daemons | two evaluators, a crash in between, counts before writes | a pet judges a request once, the backlog stays small |
| Knowledge feed (`knowledge-feed/*`) | entry files, a mark per subscriber | publish, subscribe | several daemons | entries of the same instant as the mark | an entry is not taken again while its topic is known, and none is passed over |
| Knowledge memory (`memory/knowledge.ts`, `decay.ts`) | a file per entry | upsert, reinforce, decay, archive | router, cron, study, feed | an entry changes between read and write | what was learnt leaves for a reason, and only stale copies undo progress |
| History and other memories (`memory/*`) | files | append, read | router, cron | appends and pruning by rewrite in place, platform timestamps out of order, a failed read is no history | the file lacks only what was trimmed or pruned |
| Expertise (`expertise/*`) | seeds, a checkpoint | seed, load, defer | knowledge memory | a crash before the state is saved, a state that cannot be read | each seed is planted once, but for those |
| Git watcher and reviewer (`git/*`) | last commit, rate counters | poll, review | plugins | restarts, force-pushes, the mark moves before the review | each commit is reviewed once, so many an hour |
| Channel plugins (`channel/*`, `plugins/*`) | connection, polling offset | connect, poll, send | router | the order of connecting and wiring, aborts, redelivery | no update is handed over twice, none is forgotten by the server |
| Delivery queue (`delivery/queue.ts`) | a file | enqueue, processAll | nothing constructs it | additions while it runs, a crash during the overwrite | what is neither sent nor given up is queued once |
| Parsers, model choice, growth, status, attachments, context, teaching, dashboard, utilities | little or none | single reads, writes or pure functions | the above | none that outlives one call | |

`PROJECT.json` lists every component with its files and status, and under `hazards` the places in the code where an
order of events that a test would hardly produce does harm, with the properties that watch them.

How a message travels: a plugin calls `handleMessage` without awaiting it. The router drops duplicates (filter),
starts the typing indicator, answers study questions (study queue), else builds the context and calls `getOrCreate`
(manager), which reads the record (store), spawns a process (executor), registers it, writes the record, and returns a
handle. The router listens to its text, awaits `done`, replies, and remembers. The manager's own continuation of `done`
frees the slot and stores the session id. After the session, teaching extracts what the user taught, stores it and
publishes it in the feed, and the evaluation publisher may ask the other pets for a judgement. On a signal the daemon stops the router, cron, channels and sessions in that
order, and releases the lock.

## 2. Conventions

- An action is what the code does between two awaits, or between a timer or process event and the next await. State
  that is read before an await and used after it is kept in a variable of the call in progress.
- Files are variables that a crash leaves alone; all other variables are reset by it. A write that replaces a file by
  rename is one step, preceded by the writing of the temporary file where several callers share one (`StudyQueue`).
- Formatting, logging, prompts and the texts of messages are left out. A message, job, launch or call is a model value.
- Operators marked "Mutant" are the code with one plausible mistake. They are used by no action; each shows that a
  property notices the mistake when it replaces the definition named in `PROJECT.json`.
- Auxiliary variables record history that properties speak of and no guard of the code's steps reads: `overlapped`
  (sessions), `log` (router), `contended`, `kept` and `late` (lifecycle), `imports`, `lapsed`, `forgotten` and `hidden`
  (feed; `forgotten` also bounds how often a pet forgets), `copies`, `broken` and `unread` (seeder), `written` and
  `spoiled` (history), `runs` and `clobbered` (collaboration), `together`, `missed`, `back` (what pets share).

## 3. Modules

| Module | Stands for | Remarks |
|---|---|---|
| `DedupWindow` | what a duplicate filter promises | abstract: a sequence of the last `Capacity` distinct ids |
| `Dedup` | `session/dedup.ts` | ring, Set, index; implements `DedupWindow` with `RefinesWindow` |
| `Executor` | child processes behind `ExecutorHandle` | spawn, session id, exit, SIGTERM, SIGKILL |
| `SessionStore` | `session/store.ts` | a record and a queue of writes for each user:channel; a write may fail |
| `SessionManager` | `session/manager.ts` | extends the two above |
| `SessionPool` | what the manager promises the router | abstract; implemented by `SessionManager` with `ImplementsPool` |
| `Router` | `channel/router.ts` | composes `Dedup` and `SessionPool` |
| `CronService` | `cron/service.ts` | chains of attempts: start-up, timer, manual |
| `StudyQueue` | `study/queue.ts` | calls, chains, persists, and a file across crashes |
| `DaemonLifecycle` | `main.ts`, `daemon/lifecycle.ts`, `lock.ts`, `pointer.ts` | launches of the process over one directory |
| `KnowledgeMemory` | `memory/knowledge.ts`, `store.ts`, `decay.ts`, `collaboration/knowledge-propagation.ts`, what `study/researcher.ts` and `teaching/integrator.ts` store, and the jobs over it | entries under overlapping passes |
| `KnowledgeFeed` | `knowledge-feed/*`, `teaching/integrator.ts` and the two feed jobs | publishers and subscribers, processes of their own |
| `KnowledgeSeeder` | `expertise/seeder.ts` | boots that may break off |
| `ChatHistory` | `memory/history.ts` and its pruning | one file rewritten in place |
| `Collaboration` | `collaboration/manager.ts`, `task-store.ts` | task files of several pets |
| `Evaluation` | `evaluation/*` | request and result files of several pets |
| `GitWatch` | `git/watcher.ts`, `git/reviewer.ts` and their job | positions, hourly limit, state file, force-pushes |
| `Channels` | `telegram/plugin.ts`, `discord/plugin.ts`, and their order in `lifecycle.ts` | updates and posts over several starts |
| `DeliveryQueue` | `delivery/queue.ts` | not constructed by the daemon |
| `SessionCleanup` | the session cleanup of `cron/jobs.ts` over `session/store.ts` | for the violation run `cleanup` |
| `PetMemory` | the stores that `lifecycle.ts` builds for one pet | composes `KnowledgeMemory`, `KnowledgeFeed`, `KnowledgeSeeder`, `ChatHistory` |
| `Peers` | what a pet shares | composes `Collaboration`, `Evaluation`, `GitWatch`, `Channels`, `DeliveryQueue` |
| `MC*` | instances for TLC | constants; `MCMemory` and `MCPeers` also choose which part of the composition moves |
| `*Proofs` | theorems | see [Proofs](#6-proofs) |

**Sessions.** `caller` is the position of each `getOrCreate`: *reading* (await of `store.read`), *writing* (await of
`store.write`), *started* or *rejected*. The Map is a set of handles: a handle's key is its user:channel and a stamp of
`Date.now()`, so two sessions of one millisecond collide, and `Register` takes the entry away from the first. A process
may end at any time, before `done.then` is attached too. `saving` is the session id that `handleSessionDone` carries
over its own read. `Timeout`, `GraceOver`, `BeginShutdown` and `EndShutdown` are the timer, the untracked 30 second
timer behind it, and the two halves of `shutdown` around its `Promise.race`.

**Router.** `handler` is the position of each `handleMessage`. The pool is used through its abstract actions, so every
step of the router is checked against everything the manager may do. Texts printed before the listeners are attached
are lost, as they are in the code. A study command may throw before or after it sent something. Stop and shutdown do
not wait for handlers.

**Cron.** A call of `runJobWithRetry` is a chain; a job has at most one of each kind. The end of a handler and the
re-arming behind it are one step, because no await separates them. `add` of an existing name replaces a job: the model
has one state object per addition, `Remove` takes it out of the Map and cancels its timer, and what runs goes on.

**Study.** Each call of `enqueue` or `getState` loads the file first; `loaded` is set before the read returns, as in the
code, and `EarlyCalls` says which calls may come during that read. Every accepted request starts a `processNext`, every
chain starts the next. A persist writes a temporary file and renames it, several may be under way, and the last rename
wins. A crash keeps file and temporary file.

**Lifecycle.** A launch checks, removes, opens and writes the PID file in separate steps, recovers the pointer, boots,
runs, and shuts down. Launches overlap in any order, at the lock too. `opened` says whose write still goes to the file
that is there: a file that another launch removed meanwhile takes the id with it. Reading, `mkdir` and writing may fail,
which ends the launch (`AcquireFails`); unlinking may fail, which is only logged; a launch may throw while it boots or
shuts down, be signalled at any time, and be killed at any time, with the PID file half written at worst. Process ids
are given again after their owner died, and `Foreign` names processes that may not signal each other, whom
`isProcessAlive` takes for dead. `contended` records who decided to take the lock without seeing somebody who takes or
holds it, and whom it did not see. The construction of all parts (lines 104 to 569) is one step that may throw.
`pointer` is the launch that wrote the file, which stands for its contents.

**What a pet remembers.** A *pass* of `KnowledgeMemory` is one run of a job, a reference from a prompt, or a study: it
reads one or all files in one step, then writes or deletes one entry a step, as the loops of `knowledge.ts` do around
their awaits. `seen` holds the copies that it will write back, `todo` what is left. `Aborts` ends a pass anywhere, for a
file operation that throws and for a crash alike. Tier, references, strength and confidence are kept to what the
thresholds tell apart; times are not kept: an entry may have faded by any amount, a scratchpad entry may be overdue, and
the entry that deduplication keeps may be any of its topic, because "higher confidence or later update" (jobs.ts:406)
lets either win. In `KnowledgeFeed`, a session integrates what it learnt (store, then publish), a poll imports what is
newer than its checkpoint, and cleanup removes by age. A checkpoint may be missing, unreadable though intact, changed in
memory but not written, or torn; a topic may be forgotten at any time (`Forgets`, for the decay, the expiry and the
deduplication of `KnowledgeMemory`). `hidden` marks the entries that became visible too late for a poll, or were there
when a pet started at the present; `lapsed` counts the polls that imported an item and did not save their checkpoint.
`KnowledgeSeeder` may find its state unreadable at any boot, and then overwrites it with what it stores anew (`unread`).
`ChatHistory` truncates the file, then writes it: what reads in between meets a torn file, and any read may fail, which
counts as no history. Messages are numbered in the order in which their appends read the file, and a file lists its
messages in that order, so the history is a set of numbers. Their timestamps are any day up to the present (the
platform's, or the present for a reply), so trimming, which goes by position, and pruning, which goes by timestamp, cut
in different places. `spoiled` says that edits overlapped, a file that was there could not be read, or a write broke off.

**What pets share.** In `Collaboration` an agent is a caller of `createAndWait` or the poll of a pet; the read and the
write of `TaskStore.update` are two steps, each of which may fail: a read that fails is an update of nothing, without
an error (`UpdateSkipped`), a write that fails throws (`UpdateFails`), past every `catch` when it is the one that marks
the assignment. `clobbered` marks the tasks that two daemons updated at once, or of which a start was not noted. An
executor has no time limit and may run for ever, and the caller watches its deadline only after its own executor ended.
In `Evaluation`, publishing counts, samples and writes in separate steps, and a judge lists a batch, marks, asks,
stores and cleans up; `together` is the most sessions of a pet that ended at once. In `GitWatch` one job goes
over the branches, and a crash may come between any two of its awaits; `back` marks the branches whose position went
back, `missed` the reviews whose time stamps a crash lost. In `Channels` the daemon connects the plugins one after the
other, wires the handlers when all are connected, and stops in the order of `lifecycle.ts`; Telegram's server keeps
updates until a request asks for later ones. `DeliveryQueue` lets `enqueue` add to the list that `processAll` goes
through, as the code's `for ... of` does, and the list is read for the file when `mkdir` has returned.

## 4. Runs and bounds

| Run | Instance | Shows |
|---|---|---|
| `dedup` | 5 ids, capacity 3 | ring and Set implement the window through every wrap-around. More ids than the capacity by two: eviction of present, absent and repeated ids |
| `sessions` | 2 messages of one user and channel, 1 slot, failing disk | the cap, the timeouts, the kill order, resumption, and the refinement of the pool. Two calls are enough for every race at the check, at the key and at the record, all of which are between a pair |
| `progress` | the same, one process reports its id | every session ends, every slot returns |
| `router` | 3 deliveries (one repeated), a study question, 1 slot, capacity 1, 2 texts | one reply, typing, excuses for silence, conclusion. Capacity 1 makes the repeated id leave the window and be processed again |
| `cron` | 2 jobs, one with a start-up run and manual runs | exclusion, one timer, quiet after stop, no job dies. Jobs share only the flags of the service |
| `study` | 3 requests, 1 status question, limit 1, 1 midnight, 1 crash | one study at a time, the count, no request goes back or is forgotten. The limit is met and reset by the day; the crash comes at every step |
| `lifecycle` | 3 launches that overlap in any way, 2 ids given again, the third and the first may not signal each other, any crashes, failures and signals | who has the lock together, refusals, the pointer, the release after a signal. Three launches: one dies, the second meets its remains, the third the second's; and two that acquire at once meet a third that removes the file of either |
| `memory` | 1 entry, 2 prompts, any two passes at once, and 2 entries of one topic under the passes that compare entries; 2 pets, 2 sessions, 3 items, each topic forgotten once at most by each pet, 1 crash; 2 seeds, 3 boots; 4 messages, limit 3, 2 kept by the pruning, 1 day, 1 crash | nothing is learnt twice without the reasons named, or skipped, entries leave for a reason, only stale copies undo progress, the history lacks only what was trimmed or pruned. A topic forgotten once is imported once more only behind a poll without a checkpoint, and a second time would repeat that. What the properties of an entry compare is its file and the copies of it, and two passes are enough for every stale copy; a third message over the limit makes the history trim, the third boot meets the remains of two |
| `peers` | 2 pets, 1 called and 1 placed task, 1 death; 3 sessions, 3 judges, 1 fall; 2 branches, 2 commits, 1 review an hour; 3 updates, 2 starts; 2 deliveries, 2 retries, 1 crash | tasks, evaluations, reviews, updates and deliveries happen once, within their limits, and every call is concluded or waits for its executor. One crash is enough to leave each file in every intermediate state for the next life; limits of one are met by two actors |
| `stop`, `studyload`, `cleanup` | small instances | each refutes a sentence of the code's own comments, see [below](#7-where-code-and-text-disagree) |

The parts of `PetMemory` and of `Peers` share no state with each other, so a behaviour of `MCMemory` and `MCPeers` moves
one of them, chosen at the start (`moving`), and what a run finds of one part holds in the composition too: each step of
it is a step of one part and a stutter of the others, and the specification of the composition is the conjunction of
theirs. Two parts of `MCPeers` and the knowledge of `MCMemory` come in two instances each, because the product of all their actors would be out of reach.

Type invariants of the core modules are not part of the runs: they are theorems (see [Proofs](#6-proofs)) for every
instance.

Processes in the session runs end as "failed": the manager never looks at the status, and the router, which does, is
checked with all three. `Crashes`, `Days` and `MaxDaily` of `StudyQueue` and the sets of requests, jobs and launches are
the only bounds; time in `SessionManager` moves only when a stamp has used the current millisecond. `CHECK_DEADLOCK
FALSE` is set wherever the system may stop for good: after a shutdown, or when every message, request or launch has had
its turn.

The `study` run has `EarlyCalls = {}`: no second call comes while the first reads the file. Otherwise a request can be
lost, which is what `studyload` shows. The theorems about the queue are proved with early calls.

## 5. Fairness

- **SessionManager**: weak fairness of `Internal`, all that the event loop, timers and the system do: file operations
  return, timers fire, promise callbacks run, a process that got SIGKILL dies and `close` is emitted (a grandchild that
  keeps its standard output open would delay that). Nothing is assumed of processes that were not killed, nor of
  callers. One formula suffices because no internal action happens to a request more than twice.
- **Router**: weak fairness of the steps of handlers. That sessions end is an assumption here and the property
  `EverySessionEnds` of the manager.
- **CronService**: timers fire, sleeps end and a handler resolves or rejects some time; the service has no timeout for
  one that does not (`STALE_JOB_TIMEOUT_MS` is not used). Nobody has to start, stop or remove.
- **StudyQueue**: what is ready runs, disk and researcher answer some time (the researcher has no timeout of its own).
  No fairness for calls, midnight and crashes.
- **DaemonLifecycle**: every await of `runDaemon` ends, and a failure that `main` catches exits; nobody has to start or
  signal. Nothing is assumed of pointer refreshes, nor of the exit after `main` returned, which needs an empty event
  loop: a typing interval that was never cleared (router.ts:161) keeps the process alive. So `StopsOnSignal` ends its
  claim at the release of the lock.
- **Collaboration**: weak fairness of the steps of a call and of the expiry its deadline brings, for calls only. Nothing
  is assumed of executors, which have no time limit, nor of the pets that poll, which may be dead.
- The other new modules state no fairness: their properties are about safety.

## 6. Proofs

For every value of the constants that satisfies the named assumptions, all checked by TLAPS. Every safety invariant and
every action property of a passing run is a theorem.

| Module | About | Theorems | Argument |
|---|---|---|---|
| `RouterProofs` | `Dedup` | `DedupTypeCorrect`, `SetAlwaysRing`, `DedupImplementsWindow` | the ring holds distinct ids, in the order of the window from the write position on; adding maps to an append, with the oldest dropped when the ring is full |
| | `Router` | `RouterTypeCorrect`, `RepliesOnce`, `TypingEnds`, `SilenceHasReason`, `ProcessedOncePerWindow`, `HandlersNeverStranded` | what a delivery may have caused, given how far its handler is; the window of the filter is the end of the log, in which equal ids are more than `Capacity` places apart |
| `SessionManagerProofs` | `SessionManager` | `SessionTypeCorrect`, `SessionsTimedOrTold`, `SigkillAfterSigterm`, `LeavesWhenEnded`, `ShutdownReachesSessions`, `CapacityBounded`, `ResumesEnded`, `ManagerImplementsPool` | see below |
| `DaemonProofs` | `DaemonLifecycle` | `LifeTypeCorrect`, `InstancesExclusive`, `PointersTellCrash`, `RefusalsRight` | living processes have distinct ids, and a launch that everybody can see and that writes the PID file writes the file that is there, so that whoever checks sees it; the writer of the pointer holds the lock, ended uncleanly, or wrote or failed to clear it late; the id in the file is of a holder, or was left behind |
| | `CronService` | `CronTypeCorrect`, `HandlersExclusive`, `TimersSingle`, `StopIsQuiet`, `JobsNeverLost` | a timer exists only without the chain that arms it, and only started jobs have timers; the `running` flag is the existence of a handler; what `stop` awaits contains all first attempts of timers |
| `StudyProofs` | `StudyQueue` | `StudyTypeCorrect`, `StudiesOneAtATime`, `StudyLimitCounts`, `RequestsAlwaysAdvance`, `AcceptedKept`, `WakeUpsNeverLost` | the count is the number of the day's requests in memory, in the file and in every snapshot that may become the file; `processing` is the one chain that has the researcher. For the last three: requests have different ids, in memory and on disk, and a call that loads is alone |
| `MemoryProofs` | `KnowledgeMemory` | `MemoryTypeCorrect`, `ForgettingHasReasons`, `UndoneByStaleCopies` | a pass writes copies it has, of the kind it looked for; what the decay deletes is in the archive; what a study will store is unknown to the rest. Then every step leaves the store, adds an entry, deletes one with a reason, or rewrites one from a copy |
| `FeedProofs` | `KnowledgeFeed` | `FeedTypeCorrect`, `ImportedOnceAlways`, `NothingSkippedAlways` | what is published is, or was, known to the pets that taught it; what a poll is about to pass, its pet knows or knew, will import, or could not see (`PassedGot`). An item that was imported in more polls than broke off is behind every position of its pet, in memory and on disk, and in no list of a poll (`Behind`, `Listed`), and each import met a topic that was not known, so that one more was forgotten (`Counted`) |
| | `KnowledgeSeeder` | `SeederTypeCorrect`, `SeededOnceAlways` | a seed that is neither listed nor among the hashes of the present seeding has at most one copy for each seeding that broke off or could not read the state; what is listed was stored |
| | `ChatHistory` | `HistoryTypeCorrect`, `HistoryIsRecentAlways` | an editor that is alone works on a file that lacks only what was trimmed or pruned (`Unspoiled`), and each trim and each pruning of such a file leaves one (`AppendedLacks`, `PrunedIsRecent`): what is missing has the limit of newer messages, or an old message at or after it |
| | `PetMemory` | `PetMemoryTypeCorrect`, `LearnedOnce` | from the theorems of the parts |
| `ExchangeProofs` | `Channels` | `ChannelsTypeCorrect`, `UpdatesOnce` | where the offset is, seen from the polling loop, and that what is behind it was handed over, but for the update that is being prepared |
| | `DeliveryQueue` | `DeliveryTypeCorrect`, `NoDeliveryForgottenAlways` | no list, in memory, in the file or on its way there, has a delivery twice, and what `processAll` keeps comes from the part of the list that it has passed |
| | `GitWatch` | `GitTypeCorrect`, `ReviewsLimitedAlways` | the timestamps in memory are those of the reviews that were not missed; what was reviewed is not ahead of the position of its branch, nor among what the job has left |
| `PeersProofs` | `Collaboration` | `CollaborationTypeCorrect`, `DoneOnceAlways` | unless its task is clobbered, an assignment that an agent is about to begin is fresh and one that it works on is in progress; what is not fresh was begun once |
| | `Evaluation` | `EvaluationTypeCorrect`, `EvaluatedOnceAlways`, `BacklogAlwaysBounded` | what a pet was asked about is not pending any more. For the backlog see below |
| | `Peers` | `PeersTypeCorrect` | from the theorems of the parts |

None of the invariants is inductive alone. For the session manager the strengthening says where each handle may be
given the position of its call (`Placement`), who queued the writes that wait (`QueueOwned`), which sessions were warned
(`Warned`), what shutdown did to those it found (`Drained`), who counts as overlapping (`OverlapsAdmitted`), and that
records, waiting writes and ids that are carried over an await all name ended sessions (`ResumableEverywhere`).
`ManagerImplementsPool` maps each action to an action of the pool or to none, with the same positions, processes and
stages; the refusal needs that a handle in the Map belongs to a session in progress.

`BacklogBounded` speaks of counts that were made at different times and did not see each other. Its strengthening
(`Ranked`) gives each session of a pet a rank, in the order in which the counts began: a count lists all that is
under way of lower rank but the calls that overlap it, of which there are at most `together`; so a call that is let
through has at most `MaxPending - 1 + together` under way up to its own rank, and the one of the highest rank bounds
the backlog. The ranks are not in the model: they are a witness, which the step that begins a count extends.

Each inductive invariant was an invariant of a TLC run before it was proved.

Assumptions: capacities and limits are positive naturals, sets of requests and calls are finite where they are counted,
sessions teach different items, messages are numbered, a process may signal itself, and null values are not members of the sets they are added to;
each is a named `ASSUME` in the module that declares the constant, evaluated by TLC in every run.
The theorems about the lock assume nothing of how launches overlap.
`RequestsAlwaysAdvance`, `AcceptedKept` and `WakeUpsNeverLost` assume that no call overlaps the load of the file
(`EarlyCalls = {}`, as in the run `study`): with such a call the run `studyload` shows a request that is lost, and what
was read could come behind the back of a chain that found the queue empty.

Induction over data uses no induction rule: `LeastNat` says that a set of naturals has a least element, and a proof
takes the least counterexample. So `NewestFacts` shows that what `Newest` leaves out has `n` newer entries that it keeps.

Only model-checked: liveness (`EverySessionEnds`, `EverySlotReleased`, `EveryMessageConcluded`, `KeepsRunning`,
`EverythingStudied`, `StopsOnSignal`, `EveryCallAnswered`). It needs fairness and `ENABLED`, which the provers cannot
do. What some of it rests on is safety, and proved: that whoever waits, waits for something that is in progress
(`SessionsTimedOrTold` for sessions, `HandlersNeverStranded` for messages, `JobsNeverLost` for jobs, `WakeUpsNeverLost` for
studies).

## 7. Where code and text disagree

With a run that shows it:

- `stop`: a handler in flight starts a process after `sessionManager.shutdown()` returned (lifecycle.ts:604).
- `studyload`: a request accepted during the load is overwritten by what was read (queue.ts:195).
- `cleanup`: a session record that is written between the cleanup's read and its unlink is removed, however fresh
  (jobs.ts:443).

Visible in what a property has to excuse:

- A backoff is slept out and the job runs again after `stop()` (service.ts:167): `QuietAfterStop` excuses retries.
- Two starts that both read the PID file before either has written it both run, as does one that reads a file that is
  just being written, or whose process it may not signal (lock.ts:18-39, 56-63): `SingleInstance` excuses launches that
  decided while they could not see the other.
- After a signal the process may live on without its lock, because of that interval or another handle: `StopsOnSignal`
  ends its claim at the release.
- A history file that exists but cannot be read at the moment is overwritten by the next append (history.ts:126-130);
  edits that overlap lose messages; an append that fails is dropped; and the pruning drops entries by a timestamp that
  is not in the order of the file: `HistoryIsRecent`.
- A seed state that cannot be read is as if nothing was imported: all is seeded again and the file overwritten
  (seeder.ts:117-126): `NothingLearnedTwice`, which also lets a poll that failed import again what was forgotten since.
- A call of `createAndWait` is unanswered as long as its own executor runs, whatever the deadline (manager.ts:154-165):
  `EveryCallAnswered`. A failed write of the mark (manager.ts:138) rejects the call and leaves the assignment as it was.
- A start is refused because the id of the dead owner is alive again, its own included (lock.ts:24): `RefusedRightly`.
- A study command returns without clearing its typing interval (router.ts:161, 182): `TypingEndsWithChat` leaves study
  commands out.
- `maxConcurrentSessions` ("Max parallel Claude processes") is exceeded by calls that pass the check of manager.ts:92
  together; `CapacityWithinOverlap` says by how many, as `BacklogBounded` does for `maxPendingCount`.
- Deduplication deletes all entries of a topic but one, whatever they say and whatever their tier (jobs.ts:402), and
  reflection stores its insights under three constant topics (jobs.ts:262): `LeavesForAReason`.
- The decay compounds with every pass (knowledge.ts:190), where decay.ts:48 says it starts from the strength at the last
  reference. The model leaves the amount open.

Met while modelling, and in the models without a property against it:

- A subscriber whose checkpoint is missing or unreadable starts from the present (subscriber.ts): what was published in
  between is passed over.
- `createAndWait` assigns its task to its own pet only and has no caller; `teaching/extractor.ts` has none either.
- Evaluation requests whose judge died or failed stay "evaluating" until they expire, cleanup runs only when there was a
  batch, and a result that is stored after the cleanup belongs to no request.
- Commits beyond the hourly limit are passed over for good; any failure of `git log` counts as a force-push and moves the
  position to the HEAD of the workspace; the state file is overwritten in place.
- Discord posts that arrive while Telegram still connects are dropped, because handlers are wired when all channels are
  connected; updates that arrive between the stop of the router and the disconnection are confirmed and rejected.

## 8. What is left out

- The contents of prompts, contexts, records and reports; the parsers that turn lines into activities; the choice of a
  model. They are pure functions or one await each.
- In `SessionManager`, the split of a key at ':' by `handleSessionDone`, which finds the record of `KeyOf` as long as user
  and channel ids have no colon. In `SessionStore`, a read error other than a missing file, which loads as no record.
- In `DaemonLifecycle`, a PID file torn into a shorter number, and the parts that lines 104 to 569 of `runDaemon` construct, one by one.
- In `CronService`, the reporter, which is called and not awaited. In `StudyQueue`, the notification, and the result's
  text. In `SessionManager`, `getActiveCount` and the fields of a record that hold times and names.
- `utils/backoff.ts` and `daemon/git-sync.ts`, which nothing constructs or imports. (Nothing constructs
  `delivery/queue.ts` either; it is modelled as its interface allows.)
- In `Collaboration` and `Evaluation`, reading a directory and its files is one step, and counting is the list at its
  start with the contents at its end. In
  `GitWatch`, a branch whose HEAD cannot be read at the start.
- Soul evolution, activity alerts, reports and pull request reviews of `cron/`: an executor call or a message, and one
  overwritten file. Status files, growth reports, attachments and the model statistics are of the same kind. The
  dashboard is a process that only reads. The parsers, the model classifier, the context builder, the memory search,
  expertise loading and the utilities are functions of their inputs.

## 9. Plan

Done, in this order: filter, sessions with store and executor, pool, router, cron service, study queue, lifecycle; then
knowledge memory, feed, seeder, history, collaboration, evaluation, git watcher, channels, delivery queue, cleanup.

1. Proofs of what the rest of the liveness rests on (`EverySlotReleased`, `StopsOnSignal`): that whoever waits, waits for
   something that is in progress.
2. Pure parts worth a reference definition over bounded inputs: splitting of long messages, text and token limits.
