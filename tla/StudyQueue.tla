----------------------------- MODULE StudyQueue -----------------------------
(***************************************************************************)
(* StudyQueue (study/queue.ts): study requests that are researched one at  *)
(* a time, limited per day, and kept in a file across restarts.            *)
(*                                                                         *)
(* A call is one enqueue or getState of the router; every accepted call    *)
(* also starts a chain of processNext, named after it.  Calls and chains   *)
(* are interleaved wherever the code awaits the disk or the researcher,    *)
(* and the process may crash and start again over the same file.           *)
(***************************************************************************)
EXTENDS Naturals, Sequences, FiniteSets, FiniteSetsExt

CONSTANTS Calls,     \* calls of enqueue and getState, in all lives of the daemon
          Queries,   \* those that are getState
          EarlyCalls,\* those that may come while another call loads the file
          MaxDaily,  \* config.maxDailySessions
          Days,      \* bound on the days that pass
          Crashes,   \* bound on the crashes
          NoState    \* no file, no snapshot

ASSUME StudyAssumption ==
  /\ Queries \subseteq Calls /\ EarlyCalls \subseteq Calls
  /\ MaxDaily \in Nat /\ Days \in Nat /\ Crashes \in Nat

VARIABLES
  state,         \* this.state
  loaded,        \* this.loaded
  isProcessing,  \* this.isProcessing
  call,          \* where each call is
  work,          \* where each chain of processNext is
  taken,         \* locals nextIdx and request of each chain
  tmp,           \* what each persist wrote to its temporary file
  file,          \* study-queue.json
  today,         \* the clock, in days
  crashes

studyVars == <<state, loaded, isProcessing, call, work, taken, tmp, file,
               today, crashes>>

Status == {"queued", "in_progress", "completed", "failed"}

Request == [id : Calls, status : Status, at : 0..Days]

\* day stands for dailyResetAt: the count is of that day.
State == [requests : Seq(Request), dailyCount : 0..MaxDaily, day : 0..Days]

Empty(day) == [requests |-> <<>>, dailyCount |-> 0, day |-> day]

ASSUME NoStateAssumption == NoState \notin State

\* A persist belongs to a call or to a chain.
Writers == {"call", "work"} \X Calls

Nothing == [index |-> 0]

StudyInit ==
  /\ state = Empty(0) /\ loaded = FALSE /\ isProcessing = FALSE
  /\ call = [c \in Calls |-> "idle"]
  /\ work = [c \in Calls |-> "idle"]
  /\ taken = [c \in Calls |-> Nothing]
  /\ tmp = [w \in Writers |-> NoState]
  /\ file = NoState
  /\ today = 0 /\ crashes = 0

-----------------------------------------------------------------------------
(***************************************************************************)
(* Persisting.                                                             *)
(***************************************************************************)

Writing(w) ==
  \/ w[1] = "call" /\ call[w[2]] \in {"loading", "saving"}
  \/ w[1] = "work" /\ work[w[2]] \in {"marking", "recording"}

\* The directory exists: the state as it is now goes to the temporary file.
WriteTmp(w) ==
  /\ Writing(w) /\ tmp[w] = NoState
  /\ tmp' = [tmp EXCEPT ![w] = state]
  /\ UNCHANGED <<state, loaded, isProcessing, call, work, taken, file, today, crashes>>

\* persist() returns: the temporary file was renamed, or something failed before,
\* which is only logged.
Persisted(w) ==
  /\ tmp' = [tmp EXCEPT ![w] = NoState]
  /\ file' = IF tmp[w] = NoState THEN file ELSE tmp[w]

-----------------------------------------------------------------------------
(***************************************************************************)
(* Chains of processNext.                                                  *)
(***************************************************************************)

Queued(s) == {i \in DOMAIN s.requests : s.requests[i].status = "queued"}

WithStatus(s, i, status) == [s EXCEPT !.requests[i].status = status]

\* Mutant: the flag is not looked at.
MayProcessAlways(busy) == TRUE

MayProcess(busy) == ~busy

\* processNext up to its first await, where s is the state and busy the flag.
ProcessNext(c, s, busy) ==
  \/ /\ ~MayProcess(busy) \/ Queued(s) = {}
     /\ state' = s /\ isProcessing' = busy
     /\ work' = [work EXCEPT ![c] = "idle"]
     /\ taken' = [taken EXCEPT ![c] = Nothing]
  \/ /\ MayProcess(busy) /\ Queued(s) # {}
     /\ state' = WithStatus(s, Min(Queued(s)), "in_progress")
     /\ isProcessing' = TRUE
     /\ work' = [work EXCEPT ![c] = "marking"]
     /\ taken' = [taken EXCEPT ![c] =
                    [index |-> Min(Queued(s)), id |-> s.requests[Min(Queued(s))].id]]

\* The researcher is called.
Marked(c) ==
  /\ work[c] = "marking"
  /\ Persisted(<<"work", c>>)
  /\ work' = [work EXCEPT ![c] = "researching"]
  /\ UNCHANGED <<state, loaded, isProcessing, call, taken, today, crashes>>

\* The request the result is for.
CompletedBy(c) == {i \in DOMAIN state.requests : state.requests[i].id = taken[c].id}

\* It resolves; the result goes to the request with the id it was asked for.
Researched(c) ==
  /\ work[c] = "researching"
  /\ state' = [state EXCEPT !.requests =
                 [i \in DOMAIN @ |-> IF i \in CompletedBy(c)
                                     THEN [@[i] EXCEPT !.status = "completed"] ELSE @[i]]]
  /\ work' = [work EXCEPT ![c] = "recording"]
  /\ UNCHANGED <<loaded, isProcessing, call, taken, tmp, file, today, crashes>>

\* Mutant: the failure goes to the first request that is queued now.
FailedNextQueued(c) == IF Queued(state) = {} THEN taken[c].index ELSE Min(Queued(state))

FailedIndex(c) == taken[c].index

\* It rejects; the failure goes to whatever is at the index remembered.
ResearchFails(c) ==
  /\ work[c] = "researching"
  /\ \/ /\ FailedIndex(c) \in DOMAIN state.requests
        /\ state' = WithStatus(state, FailedIndex(c), "failed")
        /\ work' = [work EXCEPT ![c] = "recording"]
        /\ UNCHANGED <<isProcessing, taken>>
     \/ /\ FailedIndex(c) \notin DOMAIN state.requests
        /\ ProcessNext(c, state, FALSE)
  /\ UNCHANGED <<loaded, call, tmp, file, today, crashes>>

\* The outcome is persisted; the chain goes on with the next request.
Recorded(c) ==
  /\ work[c] = "recording"
  /\ Persisted(<<"work", c>>)
  /\ ProcessNext(c, state, FALSE)
  /\ UNCHANGED <<loaded, call, today, crashes>>

-----------------------------------------------------------------------------
(***************************************************************************)
(* Calls.                                                                  *)
(***************************************************************************)

\* Mutant: a new day does not reset the count.
KeepCount(s) == IF today > s.day THEN [s EXCEPT !.day = today] ELSE s

\* checkDailyReset.
AfterReset(s) ==
  IF today > s.day THEN [s EXCEPT !.dailyCount = 0, !.day = today] ELSE s

LimitReached(s) == s.dailyCount >= MaxDaily

Appended(s, c) ==
  [s EXCEPT !.requests = Append(@, [id |-> c, status |-> "queued", at |-> today]),
            !.dailyCount = @ + 1]

\* The file is loaded: getState answers, enqueue refuses or appends.
Proceed(c) ==
  \/ /\ c \in Queries
     /\ call' = [call EXCEPT ![c] = "answered"]
     /\ UNCHANGED state
  \/ /\ c \notin Queries /\ LimitReached(AfterReset(state))
     /\ state' = AfterReset(state)
     /\ call' = [call EXCEPT ![c] = "refused"]
  \/ /\ c \notin Queries /\ ~LimitReached(AfterReset(state))
     /\ state' = Appended(AfterReset(state), c)
     /\ call' = [call EXCEPT ![c] = "saving"]

\* A call arrives; the first one in the life of the process reads the file.
Arrive(c) ==
  /\ call[c] = "idle"
  /\ (\E d \in Calls : call[d] = "reading") => c \in EarlyCalls
  /\ \/ ~loaded /\ loaded' = TRUE /\ call' = [call EXCEPT ![c] = "reading"]
        /\ UNCHANGED state
     \/ loaded /\ Proceed(c) /\ UNCHANGED loaded
  /\ UNCHANGED <<isProcessing, work, taken, tmp, file, today, crashes>>

\* Mutant: what was in progress stays so.
RecoveredAsIs(s) == s

\* What was in progress at the crash is queued again.
Recovered(s) ==
  [s EXCEPT !.requests =
     [i \in DOMAIN @ |-> IF @[i].status = "in_progress"
                         THEN [@[i] EXCEPT !.status = "queued"] ELSE @[i]]]

\* The read returns: its content replaces the state, or there is none.
ReadReturns(c) ==
  /\ call[c] = "reading"
  /\ \/ /\ file # NoState
        /\ state' = AfterReset(Recovered(file))
        /\ call' = [call EXCEPT ![c] = "loading"]
     \/ Proceed(c)
  /\ UNCHANGED <<loaded, isProcessing, work, taken, tmp, file, today, crashes>>

\* What was loaded is persisted, and the call goes on.
Loaded(c) ==
  /\ call[c] = "loading"
  /\ Persisted(<<"call", c>>)
  /\ Proceed(c)
  /\ UNCHANGED <<loaded, isProcessing, work, taken, today, crashes>>

\* The request is persisted: enqueue succeeds and starts a chain.
Accepted(c) ==
  /\ call[c] = "saving"
  /\ Persisted(<<"call", c>>)
  /\ call' = [call EXCEPT ![c] = "accepted"]
  /\ ProcessNext(c, state, isProcessing)
  /\ UNCHANGED <<loaded, today, crashes>>

-----------------------------------------------------------------------------
(***************************************************************************)
(* The environment.                                                        *)
(***************************************************************************)

NextDay ==
  /\ today < Days /\ today' = today + 1
  /\ UNCHANGED <<state, loaded, isProcessing, call, work, taken, tmp, file, crashes>>

\* The process dies and another one is started: only the file is left.
AtCrash(phase) ==
  CASE phase = "accepted" -> "before"
    [] phase \in {"reading", "loading", "saving"} -> "lost"
    [] OTHER -> phase

Crash ==
  /\ crashes < Crashes /\ crashes' = crashes + 1
  /\ state' = Empty(today) /\ loaded' = FALSE /\ isProcessing' = FALSE
  /\ call' = [c \in Calls |-> AtCrash(call[c])]
  /\ work' = [c \in Calls |-> "idle"]
  /\ taken' = [c \in Calls |-> Nothing]
  /\ tmp' = [w \in Writers |-> NoState]
  /\ UNCHANGED <<file, today>>

-----------------------------------------------------------------------------

\* What the process does once it has been asked.
StudyStep ==
  \/ \E w \in Writers : WriteTmp(w)
  \/ \E c \in Calls : \/ ReadReturns(c) \/ Loaded(c) \/ Accepted(c)
                      \/ Marked(c) \/ Researched(c) \/ ResearchFails(c) \/ Recorded(c)

StudyNext ==
  \/ StudyStep
  \/ \E c \in Calls : Arrive(c)
  \/ NextDay \/ Crash

StudySpec == StudyInit /\ [][StudyNext]_studyVars

\* The event loop runs what is ready; disk and researcher answer some time.
StudyFairSpec == StudySpec /\ WF_studyVars(StudyStep)

-----------------------------------------------------------------------------
(***************************************************************************)
(* Properties.                                                             *)
(***************************************************************************)

Busy(c) == work[c] # "idle"

StudyTypeOK ==
  /\ state \in State /\ loaded \in BOOLEAN /\ isProcessing \in BOOLEAN
  /\ call \in [Calls -> {"idle", "reading", "loading", "saving", "accepted", "refused",
                         "answered", "before", "lost"}]
  /\ work \in [Calls -> {"idle", "marking", "researching", "recording"}]
  /\ taken \in [Calls -> {Nothing} \cup [index : Nat \ {0}, id : Calls]]
  /\ \A c \in Calls : Busy(c) <=> taken[c] # Nothing
  /\ tmp \in [Writers -> State \cup {NoState}] /\ file \in State \cup {NoState}
  /\ today \in 0..Days /\ crashes \in 0..Crashes

\* "sequential processing" (queue.ts:2): whatever calls and chains overlap, one
\* chain has the researcher, and only the request it took is in progress.
OneStudyAtATime ==
  /\ \A c, d \in Calls : Busy(c) /\ Busy(d) => c = d
  /\ isProcessing <=> \E c \in Calls : Busy(c)
  /\ \A i \in DOMAIN state.requests :
       state.requests[i].status = "in_progress" =>
         \E c \in Calls : /\ work[c] \in {"marking", "researching"}
                          /\ taken[c] = [index |-> i, id |-> state.requests[i].id]

\* The requests of the day that is counted.
OfTheDay(s) == {i \in DOMAIN s.requests : s.requests[i].at = s.day}

\* "daily rate limiting" (queue.ts:3): in memory and on disk, through resets,
\* restarts and overlapping writes, the count is that of the day's requests.
WithinDailyLimit ==
  /\ Cardinality(OfTheDay(state)) = state.dailyCount
  /\ file # NoState => Cardinality(OfTheDay(file)) = file.dailyCount

\* Where a request may go from each status.
After(status) ==
  CASE status = "queued" -> {"queued", "in_progress"}
    [] status = "in_progress" -> {"in_progress", "completed", "failed"}
    [] OTHER -> {status}

\* While the process lives, no request gets lost, and none is decided but the
\* one that is being studied (queue.ts:137, 163).
RequestsAdvance ==
  [][crashes' = crashes =>
       \A i \in DOMAIN state.requests :
         /\ i \in DOMAIN state'.requests
         /\ state'.requests[i].id = state.requests[i].id
         /\ state'.requests[i].status \in After(state.requests[i].status)]_studyVars

Decided(c) ==
  \E i \in DOMAIN state.requests :
    state.requests[i].id = c /\ state.requests[i].status \in {"completed", "failed"}

Known(c) == \E i \in DOMAIN state.requests : state.requests[i].id = c

\* A request was accepted in this life of the process.
Awake == \E c \in Calls : call[c] = "accepted"

\* When a request was accepted, it and all that were queued before, those of
\* earlier lives included, are studied (queue.ts:94, 189).
EverythingStudied ==
  \A c \in Calls : Awake /\ Known(c) ~> ~Awake \/ Decided(c)

\* A request that was accepted is kept: while the process lives, it is in memory.
AcceptedIsKept == \A c \in Calls : call[c] = "accepted" => Known(c)
=============================================================================
