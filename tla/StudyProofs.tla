---------------------------- MODULE StudyProofs -----------------------------
(***************************************************************************)
(* Proofs about StudyQueue, for any calls, limit, days and crashes, and    *)
(* with calls overlapping the load of the file; at the end, what holds of  *)
(* the requests when none does.                                            *)
(***************************************************************************)
EXTENDS StudyQueue, FiniteSetTheorems, NaturalsInduction, SequenceTheorems, TLAPS

-----------------------------------------------------------------------------
(***************************************************************************)
(* What the operators on states return.                                    *)
(***************************************************************************)

LEMMA DomainOfRequests ==
  ASSUME NEW s \in State
  PROVE  /\ Len(s.requests) \in Nat
         /\ DOMAIN s.requests = 1 .. Len(s.requests)
         /\ s.requests \in [1 .. Len(s.requests) -> Request]
BY LenProperties DEF State

\* A function over the places of a state's requests is a sequence.
LEMMA SameLength ==
  ASSUME NEW s \in State, NEW f, f \in [DOMAIN s.requests -> Request]
  PROVE  /\ f \in Seq(Request)
         /\ [s EXCEPT !.requests = f] \in State
<1>1. f \in [1 .. Len(s.requests) -> Request] /\ Len(s.requests) \in Nat
  BY DomainOfRequests
<1>2. f \in Seq(Request)
  BY <1>1
<1> QED
  BY <1>2 DEF State

\* A finite set of naturals has a least element: of its initial parts, one is
\* contained in every other.
LEMMA LeastExists ==
  ASSUME NEW S, S \subseteq Nat, IsFiniteSet(S), S # {}
  PROVE  Min(S) \in S
<1> DEFINE Part(m) == {k \in S : k <= m}
           T == {Part(m) : m \in S}
<1>1. \A m \in S : Part(m) \in FiniteSubsetsOf(S)
  BY FS_Subset DEF FiniteSubsetsOf
<1>2. IsWellFoundedOn(StrictSubsetOrdering(S), FiniteSubsetsOf(S))
  BY FS_StrictSubsetOrderingWellFounded
<1>3. T \subseteq FiniteSubsetsOf(S) /\ T # {}
  BY <1>1
<1>4. PICK x \in T : \A y \in T : <<y, x>> \notin StrictSubsetOrdering(S)
  <2> HIDE DEF T
  <2> QED
    BY <1>2, <1>3, WFMin
<1>5. PICK m \in S : x = Part(m)
  OBVIOUS
<1>6. \A k \in S : m <= k
  <2> SUFFICES ASSUME NEW k \in S, k < m PROVE FALSE
    OBVIOUS
  <2>3. k \in Nat /\ m \in Nat /\ S \subseteq Nat
    OBVIOUS
  <2>4. \A j \in S : j <= k => j <= m
    BY <2>3
  <2>5. m <= m /\ ~(m <= k)
    BY <2>3
  <2>1. Part(k) \subseteq Part(m) /\ m \in Part(m) /\ m \notin Part(k)
    BY <2>4, <2>5, Zenon
  <2>2. <<Part(k), x>> \in StrictSubsetOrdering(S)
    BY <1>5, <2>1 DEF StrictSubsetOrdering
  <2> QED
    BY <1>4, <2>2
<1> QED
  BY <1>6 DEF Min

LEMMA FirstQueued ==
  ASSUME NEW s \in State, Queued(s) # {}
  PROVE  Min(Queued(s)) \in Queued(s)
<1>1. Queued(s) \subseteq 1 .. Len(s.requests) /\ Len(s.requests) \in Nat
  BY DomainOfRequests DEF Queued
<1>2. IsFiniteSet(1 .. Len(s.requests))
  BY <1>1, FS_Interval
<1>3. IsFiniteSet(Queued(s)) /\ Queued(s) \subseteq Nat
  BY <1>1, <1>2, FS_Subset
<1> QED
  BY <1>3, LeastExists

LEMMA WithStatusType ==
  ASSUME NEW s \in State, NEW i \in DOMAIN s.requests, NEW status \in Status
  PROVE  /\ WithStatus(s, i, status) \in State
         /\ DOMAIN WithStatus(s, i, status).requests = DOMAIN s.requests
         /\ \A j \in DOMAIN s.requests :
              WithStatus(s, i, status).requests[j] =
                IF j = i THEN [s.requests[j] EXCEPT !.status = status] ELSE s.requests[j]
         /\ WithStatus(s, i, status).dailyCount = s.dailyCount
         /\ WithStatus(s, i, status).day = s.day
<1> DEFINE f == [s.requests EXCEPT ![i].status = status]
<1>1. f \in [DOMAIN s.requests -> Request]
  BY DomainOfRequests DEF Request
<1>2. [s EXCEPT !.requests = f] \in State
  BY <1>1, SameLength
<1>3. WithStatus(s, i, status) = [s EXCEPT !.requests = f]
  BY DEF WithStatus, State
<1>4. WithStatus(s, i, status).requests = f
  BY <1>3 DEF State
<1> QED
  BY <1>2, <1>3, <1>4, DomainOfRequests DEF State, Request
-----------------------------------------------------------------------------
(***************************************************************************)
(* Counting the requests of a day.                                         *)
(***************************************************************************)

\* The count of s is right, and nothing in s is later than its day or now.
Sound(s, now) ==
  /\ s.day <= now
  /\ \A i \in DOMAIN s.requests : s.requests[i].at <= s.day
  /\ Cardinality(OfTheDay(s)) = s.dailyCount

\* t has the requests of s, in other statuses at most.
Restates(t, s) ==
  /\ t \in State /\ t.dailyCount = s.dailyCount /\ t.day = s.day
  /\ DOMAIN t.requests = DOMAIN s.requests
  /\ \A i \in DOMAIN s.requests :
       t.requests[i].id = s.requests[i].id /\ t.requests[i].at = s.requests[i].at

LEMMA RestatesSound ==
  ASSUME NEW s \in State, NEW t, Restates(t, s), NEW now, Sound(s, now)
  PROVE  Sound(t, now)
<1>1. OfTheDay(t) = OfTheDay(s)
  BY DEF Restates, OfTheDay
<1> QED
  BY <1>1 DEF Restates, Sound

LEMMA WithStatusRestates ==
  ASSUME NEW s \in State, NEW i \in DOMAIN s.requests, NEW status \in Status
  PROVE  Restates(WithStatus(s, i, status), s)
<1> DEFINE t == WithStatus(s, i, status)
<1>1. t \in State /\ t.dailyCount = s.dailyCount /\ t.day = s.day
  BY WithStatusType
<1>4. DOMAIN t.requests = DOMAIN s.requests
  BY WithStatusType
<1>5. \A j \in DOMAIN s.requests :
        t.requests[j] = IF j = i THEN [s.requests[j] EXCEPT !.status = status]
                        ELSE s.requests[j]
  BY WithStatusType
<1>2. \A j \in DOMAIN s.requests : s.requests[j] \in Request
  BY DomainOfRequests
<1> HIDE DEF t
<1>3. \A j \in DOMAIN s.requests : t.requests[j].id = s.requests[j].id
                                /\ t.requests[j].at = s.requests[j].at
  BY <1>5, <1>2 DEF Request
<1> QED
  BY <1>1, <1>3, <1>4 DEF Restates, t

LEMMA WithStatusElsewhere ==
  ASSUME NEW s \in State, NEW i \in DOMAIN s.requests, NEW status \in Status,
         NEW j \in DOMAIN s.requests, j # i
  PROVE  WithStatus(s, i, status).requests[j] = s.requests[j]
<1>1. \A k \in DOMAIN s.requests :
        WithStatus(s, i, status).requests[k] =
          IF k = i THEN [s.requests[k] EXCEPT !.status = status] ELSE s.requests[k]
  BY WithStatusType
<1> QED
  BY <1>1

LEMMA RecoveredType ==
  ASSUME NEW s \in State
  PROVE  /\ Restates(Recovered(s), s)
         /\ \A i \in DOMAIN s.requests : Recovered(s).requests[i].status # "in_progress"
<1> DEFINE f == [i \in DOMAIN s.requests |->
                   IF s.requests[i].status = "in_progress"
                   THEN [s.requests[i] EXCEPT !.status = "queued"] ELSE s.requests[i]]
<1>1. \A j \in DOMAIN s.requests : s.requests[j] \in Request
  BY DomainOfRequests
<1>2. f \in [DOMAIN s.requests -> Request]
  BY <1>1 DEF Request, Status
<1>3. [s EXCEPT !.requests = f] \in State
  BY <1>2, SameLength
<1>4. Recovered(s) = [s EXCEPT !.requests = f]
  BY DEF Recovered, State
<1>5. /\ Recovered(s).requests = f
      /\ Recovered(s).dailyCount = s.dailyCount /\ Recovered(s).day = s.day
  BY <1>4 DEF State
<1>6. \A i \in DOMAIN s.requests : /\ f[i].id = s.requests[i].id /\ f[i].at = s.requests[i].at
                                  /\ f[i].status # "in_progress"
  BY <1>1 DEF Request
<1> HIDE DEF f
<1>7. DOMAIN f = DOMAIN s.requests
  BY <1>2
<1> QED
  BY <1>3, <1>4, <1>5, <1>6, <1>7 DEF Restates

LEMMA OfTheDayFinite ==
  ASSUME NEW s \in State
  PROVE  IsFiniteSet(OfTheDay(s))
<1>1. OfTheDay(s) \subseteq 1 .. Len(s.requests) /\ Len(s.requests) \in Nat
  BY DomainOfRequests DEF OfTheDay
<1>2. IsFiniteSet(1 .. Len(s.requests))
  BY <1>1, FS_Interval
<1> QED
  BY <1>1, <1>2, FS_Subset

LEMMA EmptyType ==
  ASSUME NEW day \in 0 .. Days
  PROVE  /\ Empty(day) \in State /\ DOMAIN Empty(day).requests = {}
         /\ Sound(Empty(day), day)
<1>1. Empty(day) \in State
  BY StudyAssumption DEF Empty, State
<1>2. DOMAIN Empty(day).requests = {}
  BY DEF Empty
<1>3. OfTheDay(Empty(day)) = {}
  BY <1>2 DEF OfTheDay
<1> QED
  BY <1>1, <1>2, <1>3, FS_EmptySet DEF Sound, Empty

\* After the reset, the state counts the requests of today.
LEMMA AfterResetType ==
  ASSUME NEW s \in State, today \in 0 .. Days, Sound(s, today)
  PROVE  /\ AfterReset(s) \in State /\ Sound(AfterReset(s), today)
         /\ AfterReset(s).requests = s.requests /\ AfterReset(s).day = today
<1>1. s.day \in Nat /\ today \in Nat /\ s.day <= today
  BY DEF State, Sound
<1>2. CASE today > s.day
  <2>1. /\ AfterReset(s) \in State /\ AfterReset(s).requests = s.requests
        /\ AfterReset(s).day = today /\ AfterReset(s).dailyCount = 0
    <3>1. 0 \in 0 .. MaxDaily
      BY StudyAssumption
    <3>2. AfterReset(s) = [s EXCEPT !.dailyCount = 0, !.day = today]
      BY <1>2 DEF AfterReset
    <3> QED
      BY <3>1, <3>2 DEF State
  <2>2. \A i \in DOMAIN s.requests : s.requests[i].at \in Nat /\ s.requests[i].at <= s.day
    BY DomainOfRequests DEF Request, Sound
  <2>3. OfTheDay(AfterReset(s)) = {}
    BY <1>1, <1>2, <2>1, <2>2 DEF OfTheDay
  <2>4. \A i \in DOMAIN s.requests : s.requests[i].at <= today
    BY <1>1, <2>2
  <2> QED
    BY <1>1, <2>1, <2>3, <2>4, FS_EmptySet DEF Sound
<1>3. CASE ~(today > s.day)
  BY <1>1, <1>3 DEF AfterReset
<1> QED
  BY <1>2, <1>3

\* Appending a request counts it.
LEMMA AppendedType ==
  ASSUME NEW s \in State, NEW c \in Calls, today \in 0 .. Days, s.day = today,
         Sound(s, today), ~LimitReached(s)
  PROVE  /\ Appended(s, c) \in State /\ Sound(Appended(s, c), today)
         /\ DOMAIN s.requests \subseteq DOMAIN Appended(s, c).requests
         /\ \A i \in DOMAIN s.requests : Appended(s, c).requests[i] = s.requests[i]
         /\ \A i \in DOMAIN Appended(s, c).requests \ DOMAIN s.requests :
              Appended(s, c).requests[i].status = "queued"
<1> DEFINE r == [id |-> c, status |-> "queued", at |-> today]
           n == Len(s.requests)
           t == Appended(s, c)
<1>1. r \in Request
  BY DEF Request, Status
<1>2. n \in Nat /\ DOMAIN s.requests = 1 .. n /\ s.requests \in Seq(Request)
  BY DomainOfRequests DEF State
<1>3. /\ Append(s.requests, r) \in Seq(Request)
      /\ DOMAIN Append(s.requests, r) = 1 .. (n + 1)
      /\ \A i \in 1 .. n : Append(s.requests, r)[i] = s.requests[i]
      /\ Append(s.requests, r)[n + 1] = r
  BY <1>1, <1>2
<1>4. /\ t.requests = Append(s.requests, r)
      /\ t.dailyCount = s.dailyCount + 1 /\ t.day = s.day
  BY DEF Appended, State
<1>5. s.dailyCount + 1 \in 0 .. MaxDaily
  BY StudyAssumption DEF LimitReached, State
<1>6. t \in State
  BY <1>3, <1>5 DEF Appended, State
<1>7. OfTheDay(t) = OfTheDay(s) \cup {n + 1}
  <2>1. OfTheDay(t) = {i \in 1 .. (n + 1) : t.requests[i].at = today}
    BY <1>3, <1>4 DEF OfTheDay
  <2>2. OfTheDay(s) = {i \in 1 .. n : s.requests[i].at = today}
    BY <1>2 DEF OfTheDay
  <2>3. t.requests[n + 1].at = today /\ \A i \in 1 .. n : t.requests[i] = s.requests[i]
    BY <1>3, <1>4
  <2>4. 1 .. (n + 1) = (1 .. n) \cup {n + 1}
    BY <1>2
  <2> HIDE DEF t, n
  <2> QED
    BY <2>1, <2>2, <2>3, <2>4
<1>8. n + 1 \notin OfTheDay(s)
  BY <1>2 DEF OfTheDay
<1>9. Cardinality(OfTheDay(t)) = t.dailyCount
  BY <1>4, <1>7, <1>8, OfTheDayFinite, FS_AddElement DEF Sound
<1>10. \A i \in DOMAIN t.requests : t.requests[i].at <= t.day
  <2> SUFFICES ASSUME NEW i \in 1 .. (n + 1) PROVE t.requests[i].at <= today
    BY <1>3, <1>4
  <2>1. CASE i = n + 1
    BY <2>1, <1>3, <1>4
  <2>2. CASE i # n + 1
    BY <2>2, <1>2, <1>3, <1>4 DEF Sound
  <2> QED
    BY <2>1, <2>2
<1>11. DOMAIN t.requests = 1 .. (n + 1)
  BY <1>3, <1>4
<1>12. \A i \in (1 .. (n + 1)) \ (1 .. n) : i = n + 1
  BY <1>2
<1>13. Sound(t, today)
  BY <1>4, <1>9, <1>10 DEF Sound
<1> QED
  BY <1>2, <1>3, <1>4, <1>6, <1>11, <1>12, <1>13
-----------------------------------------------------------------------------
(***************************************************************************)
(* The invariant.                                                          *)
(***************************************************************************)

CallPhase == {"idle", "reading", "loading", "saving", "accepted", "refused",
              "answered", "before", "lost"}

WorkPhase == {"idle", "marking", "researching", "recording"}

Took == [index : Nat \ {0}, id : Calls]

\* The part of StudyTypeOK that chains change.
ChainsOK ==
  /\ isProcessing \in BOOLEAN
  /\ work \in [Calls -> WorkPhase]
  /\ taken \in [Calls -> {Nothing} \cup Took]
  /\ \A c \in Calls : Busy(c) <=> taken[c] # Nothing

\* Chains belong to calls that were accepted, so that each starts once.
ChainsOfAccepted == \A c \in Calls : Busy(c) => call[c] = "accepted"

\* What is on disk, and on its way there, is a state that counts right.
DiskSound ==
  /\ tmp \in [Writers -> State \cup {NoState}] /\ file \in State \cup {NoState}
  /\ file # NoState => Sound(file, today)
  /\ \A w \in Writers : tmp[w] # NoState => Sound(tmp[w], today)

ClockOK == today \in 0 .. Days /\ crashes \in 0 .. Crashes

StudyInv ==
  /\ state \in State /\ Sound(state, today)
  /\ loaded \in BOOLEAN /\ call \in [Calls -> CallPhase]
  /\ ClockOK /\ ChainsOK /\ DiskSound
  /\ OneStudyAtATime /\ ChainsOfAccepted

LEMMA InvParts == StudyInv => StudyTypeOK /\ OneStudyAtATime /\ WithinDailyLimit
BY DEF StudyInv, StudyTypeOK, WithinDailyLimit, ChainsOK, ClockOK, DiskSound, Sound,
       CallPhase, WorkPhase, Took

LEMMA TookSomething == Nothing \notin Took
<1>1. Nothing.index = 0
  BY DEF Nothing
<1>2. \A r \in Took : r.index # 0
  BY DEF Took
<1> QED
  BY <1>1, <1>2

\* processNext keeps one chain busy, whether c was idle or has just finished.
LEMMA ProcessNextStep ==
  ASSUME state \in State, ChainsOK, NEW c \in Calls, NEW busy \in BOOLEAN,
         ProcessNext(c, state, busy),
         busy <=> \E d \in Calls \ {c} : Busy(d),
         \A d, e \in Calls : Busy(d) /\ Busy(e) => d = e,
         \A i \in DOMAIN state.requests :
           state.requests[i].status = "in_progress" =>
             \E d \in Calls \ {c} :
               /\ work[d] \in {"marking", "researching"}
               /\ taken[d] = [index |-> i, id |-> state.requests[i].id]
  PROVE  /\ Restates(state', state)
         /\ ChainsOK' /\ OneStudyAtATime'
         /\ \A d \in Calls \ {c} : Busy(d)' <=> Busy(d)
<1>1. CASE /\ ~MayProcess(busy) \/ Queued(state) = {}
           /\ state' = state /\ isProcessing' = busy
           /\ work' = [work EXCEPT ![c] = "idle"]
           /\ taken' = [taken EXCEPT ![c] = Nothing]
  <2>1. Restates(state', state)
    BY <1>1 DEF Restates
  <2>2. /\ ~Busy(c)'
        /\ \A d \in Calls \ {c} : (Busy(d)' <=> Busy(d)) /\ work'[d] = work[d] /\ taken'[d] = taken[d]
    BY <1>1 DEF Busy, ChainsOK
  <2>3. ChainsOK'
    BY <1>1, <2>2 DEF ChainsOK, WorkPhase, Busy
  <2>4. OneStudyAtATime'
    <3>1. \A d, e \in Calls : Busy(d)' /\ Busy(e)' => d = e
      BY <2>2
    <3>2. isProcessing' <=> \E d \in Calls : Busy(d)'
      BY <1>1, <2>2
    <3>3. \A i \in DOMAIN state.requests :
            state.requests[i].status = "in_progress" =>
              \E d \in Calls : /\ work'[d] \in {"marking", "researching"}
                               /\ taken'[d] = [index |-> i, id |-> state.requests[i].id]
      BY <2>2
    <3> QED
      BY <1>1, <3>1, <3>2, <3>3 DEF OneStudyAtATime
  <2> QED
    BY <2>1, <2>2, <2>3, <2>4
<1>2. CASE /\ MayProcess(busy) /\ Queued(state) # {}
           /\ state' = WithStatus(state, Min(Queued(state)), "in_progress")
           /\ isProcessing' = TRUE
           /\ work' = [work EXCEPT ![c] = "marking"]
           /\ taken' = [taken EXCEPT ![c] =
                [index |-> Min(Queued(state)), id |-> state.requests[Min(Queued(state))].id]]
  <2> DEFINE m == Min(Queued(state))
  <2>1. m \in DOMAIN state.requests /\ m \in Nat \ {0} /\ state.requests[m] \in Request
    <3>1. m \in Queued(state)
      BY <1>2, FirstQueued
    <3>2. m \in DOMAIN state.requests
      BY <3>1 DEF Queued
    <3> HIDE DEF m
    <3>3. m \in 1 .. Len(state.requests) /\ state.requests[m] \in Request
      BY <3>2, DomainOfRequests
    <3> QED
      BY <3>2, <3>3
  <2>2. Restates(state', state)
    BY <1>2, <2>1, WithStatusRestates DEF Status
  <2>3. /\ DOMAIN state'.requests = DOMAIN state.requests
        /\ \A i \in DOMAIN state.requests : state'.requests[i].id = state.requests[i].id
    BY <2>2 DEF Restates
  <2>4. \A i \in DOMAIN state.requests : i # m => state'.requests[i] = state.requests[i]
    <3>1. "in_progress" \in Status
      BY DEF Status
    <3> HIDE DEF m
    <3>2. \A i \in DOMAIN state.requests : i # m =>
            WithStatus(state, m, "in_progress").requests[i] = state.requests[i]
      BY <2>1, <3>1, WithStatusElsewhere
    <3> QED
      BY <1>2, <3>2 DEF m
  <2>5. \A d \in Calls \ {c} : ~Busy(d) /\ work'[d] = work[d]
    BY <1>2 DEF MayProcess, ChainsOK
  <2>6. work'[c] = "marking" /\ taken'[c] = [index |-> m, id |-> state.requests[m].id]
    BY <1>2 DEF ChainsOK
  <2>7. taken'[c] \in Took
    BY <2>1, <2>6 DEF Took, Request
  <2>8. ChainsOK'
    <3>1. taken' \in [Calls -> {Nothing} \cup Took] /\ work' \in [Calls -> WorkPhase]
      BY <1>2, <2>6, <2>7 DEF ChainsOK, WorkPhase
    <3>2. \A d \in Calls \ {c} : taken'[d] = taken[d]
      BY <1>2 DEF ChainsOK
    <3> QED
      BY <1>2, <2>5, <2>6, <2>7, <3>1, <3>2, TookSomething DEF ChainsOK, Busy
  <2>9. OneStudyAtATime'
    <3>1. \A d \in Calls : Busy(d)' <=> d = c
      BY <2>5, <2>6 DEF Busy
    <3>2. \A i \in DOMAIN state.requests : state.requests[i].status # "in_progress"
      BY <2>5 DEF Busy
    <3>3. \A i \in DOMAIN state'.requests :
            state'.requests[i].status = "in_progress" =>
              /\ work'[c] \in {"marking", "researching"}
              /\ taken'[c] = [index |-> i, id |-> state'.requests[i].id]
      BY <2>3, <2>4, <2>6, <3>2
    <3> QED
      BY <1>2, <3>1, <3>3 DEF OneStudyAtATime
  <2> QED
    BY <2>2, <2>5, <2>8, <2>9 DEF Busy
<1> QED
  BY <1>1, <1>2 DEF ProcessNext

LEMMA PersistedKeeps ==
  ASSUME DiskSound, NEW w \in Writers, Persisted(w), today' = today
  PROVE  DiskSound'
<1>1. tmp' = [tmp EXCEPT ![w] = NoState]
      /\ file' = IF tmp[w] = NoState THEN file ELSE tmp[w]
  BY DEF Persisted
<1>2. tmp' \in [Writers -> State \cup {NoState}] /\ file' \in State \cup {NoState}
  BY <1>1 DEF DiskSound
<1>3. \A v \in Writers : tmp'[v] = NoState \/ tmp'[v] = tmp[v]
  BY <1>1 DEF DiskSound
<1> QED
  BY <1>1, <1>2, <1>3 DEF DiskSound

\* A request that is studied may be decided, whoever else is changed with it.
LEMMA DecidedKeepsOne ==
  ASSUME StudyInv, Restates(state', state), UNCHANGED <<isProcessing, taken>>,
         NEW c \in Calls, work[c] = "researching", work' = [work EXCEPT ![c] = "recording"],
         \A i \in DOMAIN state.requests :
           state'.requests[i].status = "in_progress" =>
             /\ state.requests[i].status = "in_progress"
             /\ taken[c] # [index |-> i, id |-> state.requests[i].id]
  PROVE  ChainsOK' /\ OneStudyAtATime'
<1>1. \A d \in Calls : Busy(d)' <=> Busy(d)
  BY DEF StudyInv, ChainsOK, Busy
<1>2. ChainsOK'
  BY <1>1 DEF StudyInv, ChainsOK, WorkPhase, Busy
<1>3. \A i \in DOMAIN state'.requests : state'.requests[i].status # "in_progress"
  <2> SUFFICES ASSUME NEW i \in DOMAIN state.requests,
                      state'.requests[i].status = "in_progress"
               PROVE  FALSE
    BY DEF Restates
  <2>1. PICK d \in Calls : /\ work[d] \in {"marking", "researching"}
                          /\ taken[d] = [index |-> i, id |-> state.requests[i].id]
    BY DEF StudyInv, OneStudyAtATime
  <2>2. d = c
    BY <2>1 DEF StudyInv, OneStudyAtATime, Busy
  <2> QED
    BY <2>1, <2>2
<1> QED
  BY <1>1, <1>2, <1>3 DEF OneStudyAtATime, StudyInv

LEMMA InitStudy == StudyInit => StudyInv
<1> SUFFICES ASSUME StudyInit PROVE StudyInv
  OBVIOUS
<1> USE DEF StudyInit
<1>1. state \in State /\ Sound(state, today) /\ DOMAIN state.requests = {}
  BY EmptyType, StudyAssumption
<1>2. ClockOK
  BY StudyAssumption DEF ClockOK
<1>3. ChainsOK /\ ChainsOfAccepted
  BY DEF ChainsOK, ChainsOfAccepted, WorkPhase, Busy
<1>4. DiskSound
  BY DEF DiskSound
<1>5. OneStudyAtATime
  BY <1>1 DEF OneStudyAtATime, Busy
<1> QED
  BY <1>1, <1>2, <1>3, <1>4, <1>5 DEF StudyInv, CallPhase

\* Chains stay right when only requests that nobody studies come or go.
LEMMA ChainsUndisturbed ==
  ASSUME StudyInv, UNCHANGED <<isProcessing, work, taken>>,
         \A i \in DOMAIN state'.requests :
           state'.requests[i].status = "in_progress" =>
             i \in DOMAIN state.requests /\ state'.requests[i] = state.requests[i]
  PROVE  ChainsOK' /\ OneStudyAtATime' /\ \A d \in Calls : Busy(d)' <=> Busy(d)
<1>1. \A d \in Calls : Busy(d)' <=> Busy(d)
  BY DEF Busy
<1>2. ChainsOK'
  BY <1>1 DEF StudyInv, ChainsOK
<1> QED
  BY <1>1, <1>2 DEF StudyInv, OneStudyAtATime

LEMMA ProceedStep ==
  ASSUME StudyInv, NEW c \in Calls, Proceed(c), call[c] # "accepted",
         UNCHANGED <<isProcessing, work, taken>>
  PROVE  /\ state' \in State /\ Sound(state', today)
         /\ call' \in [Calls -> CallPhase]
         /\ ChainsOK' /\ OneStudyAtATime' /\ ChainsOfAccepted'
<1> DEFINE s == AfterReset(state)
<1>1. s \in State /\ Sound(s, today) /\ s.requests = state.requests /\ s.day = today
  BY AfterResetType DEF StudyInv, ClockOK
<1>2. PICK phase \in {"answered", "refused", "saving"} : call' = [call EXCEPT ![c] = phase]
  BY DEF Proceed
<1>3. call' \in [Calls -> CallPhase]
  BY <1>2 DEF StudyInv, CallPhase
<1>4. \/ state' = state
      \/ state' = s
      \/ ~LimitReached(s) /\ state' = Appended(s, c)
  BY DEF Proceed
<1>5. /\ state' \in State /\ Sound(state', today)
      /\ \A i \in DOMAIN state'.requests :
           state'.requests[i].status = "in_progress" =>
             i \in DOMAIN state.requests /\ state'.requests[i] = state.requests[i]
  <2>1. CASE state' = state
    BY <2>1 DEF StudyInv
  <2>2. CASE state' = s
    BY <2>2, <1>1
  <2>3. CASE ~LimitReached(s) /\ state' = Appended(s, c)
    <3> HIDE DEF s
    <3>1. today \in 0 .. Days
      BY DEF StudyInv, ClockOK
    <3>2. Appended(s, c) \in State /\ Sound(Appended(s, c), today)
      BY <1>1, <2>3, <3>1, AppendedType
    <3>3. \A i \in DOMAIN s.requests : Appended(s, c).requests[i] = s.requests[i]
      BY <1>1, <2>3, <3>1, AppendedType
    <3>4. \A i \in DOMAIN Appended(s, c).requests \ DOMAIN s.requests :
            Appended(s, c).requests[i].status = "queued"
      BY <1>1, <2>3, <3>1, AppendedType
    <3> QED
      BY <1>1, <2>3, <3>2, <3>3, <3>4
  <2> QED
    BY <1>4, <2>1, <2>2, <2>3
<1>6. ChainsOK' /\ OneStudyAtATime' /\ \A d \in Calls : Busy(d)' <=> Busy(d)
  BY <1>5, ChainsUndisturbed
<1>7. ChainsOfAccepted'
  BY <1>2, <1>6 DEF StudyInv, ChainsOfAccepted
<1> QED
  BY <1>3, <1>5, <1>6, <1>7

LEMMA NextStudy == StudyInv /\ [StudyNext]_studyVars => StudyInv'
<1> SUFFICES ASSUME StudyInv, [StudyNext]_studyVars PROVE StudyInv'
  OBVIOUS
<1>0. /\ state \in State /\ Sound(state, today) /\ ChainsOK /\ DiskSound
      /\ today \in 0 .. Days /\ OneStudyAtATime /\ ChainsOfAccepted
  BY DEF StudyInv, ClockOK
<1>1. ASSUME NEW w \in Writers, WriteTmp(w) PROVE StudyInv'
  <2>1. tmp' = [tmp EXCEPT ![w] = state]
        /\ UNCHANGED <<state, loaded, isProcessing, call, work, taken, file, today, crashes>>
    BY <1>1 DEF WriteTmp
  <2>2. DiskSound'
    BY <1>0, <2>1 DEF DiskSound
  <2>3. ChainsOK' /\ OneStudyAtATime' /\ ChainsOfAccepted'
    BY <1>0, <2>1 DEF ChainsOK, OneStudyAtATime, ChainsOfAccepted, Busy
  <2> QED
    BY <2>1, <2>2, <2>3 DEF StudyInv, ClockOK
<1>2. ASSUME NEW c \in Calls, Arrive(c) PROVE StudyInv'
  <2>1. /\ call[c] = "idle"
        /\ UNCHANGED <<isProcessing, work, taken, tmp, file, today, crashes>>
    BY <1>2 DEF Arrive
  <2>2. DiskSound' /\ ClockOK'
    BY <1>0, <2>1 DEF DiskSound, ClockOK, StudyInv
  <2>3. CASE loaded' = TRUE /\ call' = [call EXCEPT ![c] = "reading"] /\ UNCHANGED state
    <3>1. ChainsOK' /\ OneStudyAtATime' /\ \A d \in Calls : Busy(d)' <=> Busy(d)
      BY <2>1, <2>3, ChainsUndisturbed
    <3>2. ChainsOfAccepted' /\ call' \in [Calls -> CallPhase]
      BY <2>1, <2>3, <3>1 DEF ChainsOfAccepted, StudyInv, CallPhase
    <3> QED
      BY <1>0, <2>1, <2>2, <2>3, <3>1, <3>2 DEF StudyInv
  <2>4. CASE Proceed(c) /\ UNCHANGED loaded
    BY <2>1, <2>2, <2>4, ProceedStep DEF StudyInv
  <2> QED
    BY <1>2, <2>3, <2>4 DEF Arrive
<1>3. ASSUME NEW c \in Calls, ReadReturns(c) PROVE StudyInv'
  <2>1. /\ call[c] = "reading"
        /\ UNCHANGED <<loaded, isProcessing, work, taken, tmp, file, today, crashes>>
    BY <1>3 DEF ReadReturns
  <2>2. DiskSound' /\ ClockOK'
    BY <1>0, <2>1 DEF DiskSound, ClockOK, StudyInv
  <2>3. CASE /\ file # NoState /\ state' = AfterReset(Recovered(file))
             /\ call' = [call EXCEPT ![c] = "loading"]
    <3>1. file \in State /\ Sound(file, today)
      BY <1>0, <2>3 DEF DiskSound
    <3>2. Restates(Recovered(file), file)
      BY <3>1, RecoveredType
    <3>3. Recovered(file) \in State /\ Sound(Recovered(file), today)
      BY <3>1, <3>2, RestatesSound DEF Restates
    <3>4. state' \in State /\ Sound(state', today) /\ state'.requests = Recovered(file).requests
      BY <1>0, <2>3, <3>3, AfterResetType
    <3>5. \A i \in DOMAIN state'.requests : state'.requests[i].status # "in_progress"
      BY <3>1, <3>2, <3>4, RecoveredType DEF Restates
    <3>6. ChainsOK' /\ OneStudyAtATime' /\ \A d \in Calls : Busy(d)' <=> Busy(d)
      BY <2>1, <3>5, ChainsUndisturbed
    <3>7. ChainsOfAccepted' /\ call' \in [Calls -> CallPhase]
      BY <2>1, <2>3, <3>6 DEF ChainsOfAccepted, StudyInv, CallPhase
    <3> QED
      BY <2>1, <2>2, <3>4, <3>6, <3>7 DEF StudyInv
  <2>4. CASE Proceed(c)
    BY <2>1, <2>2, <2>4, ProceedStep DEF StudyInv
  <2> QED
    BY <1>3, <2>3, <2>4 DEF ReadReturns
<1>4. ASSUME NEW c \in Calls, Loaded(c) PROVE StudyInv'
  <2>1. /\ call[c] = "loading" /\ Persisted(<<"call", c>>) /\ Proceed(c)
        /\ UNCHANGED <<loaded, isProcessing, work, taken, today, crashes>>
    BY <1>4 DEF Loaded
  <2>2. DiskSound'
    BY <1>0, <2>1, PersistedKeeps DEF Writers
  <2>3. ClockOK'
    BY <2>1 DEF ClockOK, StudyInv
  <2> QED
    BY <2>1, <2>2, <2>3, ProceedStep DEF StudyInv
<1>5. ASSUME NEW c \in Calls, Accepted(c) PROVE StudyInv'
  <2>1. /\ call[c] = "saving" /\ Persisted(<<"call", c>>)
        /\ call' = [call EXCEPT ![c] = "accepted"]
        /\ ProcessNext(c, state, isProcessing)
        /\ UNCHANGED <<loaded, today, crashes>>
    BY <1>5 DEF Accepted
  <2>2. DiskSound' /\ ClockOK'
    BY <1>0, <2>1, PersistedKeeps DEF Writers, ClockOK, StudyInv
  <2>3. ~Busy(c)
    BY <1>0, <2>1 DEF ChainsOfAccepted
  <2>4. /\ isProcessing \in BOOLEAN
        /\ isProcessing <=> \E d \in Calls \ {c} : Busy(d)
        /\ \A d, e \in Calls : Busy(d) /\ Busy(e) => d = e
    BY <1>0, <2>3 DEF ChainsOK, OneStudyAtATime
  <2>5. \A i \in DOMAIN state.requests :
          state.requests[i].status = "in_progress" =>
            \E d \in Calls \ {c} :
              /\ work[d] \in {"marking", "researching"}
              /\ taken[d] = [index |-> i, id |-> state.requests[i].id]
    BY <1>0, <2>3 DEF OneStudyAtATime, Busy
  <2>6. /\ Restates(state', state) /\ ChainsOK' /\ OneStudyAtATime'
        /\ \A d \in Calls \ {c} : Busy(d)' <=> Busy(d)
    BY <1>0, <2>1, <2>4, <2>5, ProcessNextStep
  <2>7. state' \in State /\ Sound(state', today')
    BY <1>0, <2>1, <2>6, RestatesSound DEF Restates
  <2>8. ChainsOfAccepted' /\ call' \in [Calls -> CallPhase]
    BY <2>1, <2>6 DEF StudyInv, ChainsOfAccepted, CallPhase
  <2> QED
    BY <2>1, <2>2, <2>6, <2>7, <2>8 DEF StudyInv
<1>6. ASSUME NEW c \in Calls, Marked(c) PROVE StudyInv'
  <2>1. /\ work[c] = "marking" /\ Persisted(<<"work", c>>)
        /\ work' = [work EXCEPT ![c] = "researching"]
        /\ UNCHANGED <<state, loaded, isProcessing, call, taken, today, crashes>>
    BY <1>6 DEF Marked
  <2>2. DiskSound' /\ ClockOK'
    BY <1>0, <2>1, PersistedKeeps DEF Writers, ClockOK, StudyInv
  <2>3. /\ \A d \in Calls : Busy(d)' <=> Busy(d)
        /\ \A d \in Calls : work[d] \in {"marking", "researching"} =>
                            work'[d] \in {"marking", "researching"}
    BY <1>0, <2>1 DEF ChainsOK, Busy
  <2>4. ChainsOK'
    BY <1>0, <2>1, <2>3 DEF ChainsOK, WorkPhase
  <2>5. OneStudyAtATime' /\ ChainsOfAccepted'
    BY <1>0, <2>1, <2>3 DEF OneStudyAtATime, ChainsOfAccepted
  <2> QED
    BY <1>0, <2>1, <2>2, <2>4, <2>5 DEF StudyInv
<1>7. ASSUME NEW c \in Calls, Researched(c) PROVE StudyInv'
  <2> DEFINE f == [i \in DOMAIN state.requests |->
                     IF i \in CompletedBy(c)
                     THEN [state.requests[i] EXCEPT !.status = "completed"]
                     ELSE state.requests[i]]
  <2>1. /\ work[c] = "researching" /\ state' = [state EXCEPT !.requests = f]
        /\ work' = [work EXCEPT ![c] = "recording"]
        /\ UNCHANGED <<loaded, isProcessing, call, taken, tmp, file, today, crashes>>
    BY <1>7 DEF Researched
  <2>2. \A i \in DOMAIN state.requests : state.requests[i] \in Request
    BY <1>0, DomainOfRequests
  <2>3. f \in [DOMAIN state.requests -> Request]
    BY <2>2 DEF Request, Status
  <2>4. state' \in State
    BY <1>0, <2>1, <2>3, SameLength
  <2>5. /\ state'.requests = f
        /\ state'.dailyCount = state.dailyCount /\ state'.day = state.day
    BY <1>0, <2>1 DEF State
  <2>6. \A i \in DOMAIN state.requests :
          /\ f[i].id = state.requests[i].id /\ f[i].at = state.requests[i].at
          /\ f[i].status = "in_progress" =>
               /\ state.requests[i].status = "in_progress"
               /\ i \notin CompletedBy(c)
    BY <2>2 DEF Request
  <2> HIDE DEF f
  <2>7. Restates(state', state)
    BY <2>3, <2>4, <2>5, <2>6 DEF Restates
  <2>8. \A i \in DOMAIN state.requests :
          i \notin CompletedBy(c) => taken[c] # [index |-> i, id |-> state.requests[i].id]
    BY DEF CompletedBy
  <2>9. ChainsOK' /\ OneStudyAtATime'
    BY <2>1, <2>5, <2>6, <2>7, <2>8, DecidedKeepsOne
  <2>10. DiskSound' /\ ClockOK' /\ ChainsOfAccepted'
    BY <1>0, <2>1 DEF DiskSound, ClockOK, ChainsOfAccepted, Busy, StudyInv, ChainsOK
  <2>11. Sound(state', today')
    BY <1>0, <2>1, <2>7, RestatesSound
  <2> QED
    BY <2>1, <2>4, <2>9, <2>10, <2>11 DEF StudyInv
<1>8. ASSUME NEW c \in Calls, ResearchFails(c) PROVE StudyInv'
  <2> DEFINE i == FailedIndex(c)
  <2>1. /\ work[c] = "researching" /\ UNCHANGED <<loaded, call, tmp, file, today, crashes>>
    BY <1>8 DEF ResearchFails
  <2>2. DiskSound' /\ ClockOK'
    BY <1>0, <2>1 DEF DiskSound, ClockOK, StudyInv
  <2>3. CASE /\ i \in DOMAIN state.requests
             /\ state' = WithStatus(state, i, "failed")
             /\ work' = [work EXCEPT ![c] = "recording"]
             /\ UNCHANGED <<isProcessing, taken>>
    <3>1. "failed" \in Status
      BY DEF Status
    <3>2. Restates(state', state)
      BY <1>0, <2>3, <3>1, WithStatusRestates
    <3>3. \A j \in DOMAIN state.requests : j # i => state'.requests[j] = state.requests[j]
      BY <1>0, <2>3, <3>1, WithStatusElsewhere
    <3>4. state'.requests[i].status = "failed"
      <4>1. \A r \in Request : [r EXCEPT !.status = "failed"].status = "failed"
        BY DEF Request
      <4>2. state'.requests[i] = [state.requests[i] EXCEPT !.status = "failed"]
        <5>1. \A k \in DOMAIN state.requests :
                WithStatus(state, i, "failed").requests[k] =
                  IF k = i THEN [state.requests[k] EXCEPT !.status = "failed"]
                  ELSE state.requests[k]
          BY <1>0, <2>3, <3>1, WithStatusType
        <5> QED
          BY <2>3, <5>1
      <4> QED
        BY <1>0, <2>3, <4>1, <4>2, DomainOfRequests
    <3>5. \A j \in DOMAIN state.requests :
            state'.requests[j].status = "in_progress" =>
              /\ state.requests[j].status = "in_progress"
              /\ taken[c] # [index |-> j, id |-> state.requests[j].id]
      <4> SUFFICES ASSUME NEW j \in DOMAIN state.requests,
                          state'.requests[j].status = "in_progress"
                   PROVE  /\ state.requests[j].status = "in_progress"
                          /\ taken[c] # [index |-> j, id |-> state.requests[j].id]
        OBVIOUS
      <4>1. j # taken[c].index /\ state'.requests[j] = state.requests[j]
        BY <3>3, <3>4 DEF FailedIndex
      <4> QED
        BY <4>1
    <3>6. ChainsOK' /\ OneStudyAtATime'
      BY <2>1, <2>3, <3>2, <3>5, DecidedKeepsOne
    <3>7. ChainsOfAccepted'
      BY <1>0, <2>1, <2>3 DEF ChainsOfAccepted, Busy, ChainsOK
    <3>8. state' \in State /\ Sound(state', today')
      BY <1>0, <2>1, <3>2, RestatesSound DEF Restates
    <3> QED
      BY <2>1, <2>2, <3>6, <3>7, <3>8 DEF StudyInv
  <2>4. CASE i \notin DOMAIN state.requests /\ ProcessNext(c, state, FALSE)
    <3>1. \A d \in Calls \ {c} : ~Busy(d)
      BY <1>0, <2>1 DEF OneStudyAtATime, Busy
    <3>2. \A j \in DOMAIN state.requests : state.requests[j].status # "in_progress"
      <4> SUFFICES ASSUME NEW j \in DOMAIN state.requests,
                          state.requests[j].status = "in_progress"
                   PROVE  FALSE
        OBVIOUS
      <4>1. PICK d \in Calls : /\ work[d] \in {"marking", "researching"}
                              /\ taken[d] = [index |-> j, id |-> state.requests[j].id]
        BY <1>0 DEF OneStudyAtATime
      <4>2. d = c
        BY <3>1, <4>1 DEF Busy
      <4> QED
        BY <2>4, <4>1, <4>2 DEF FailedIndex
    <3>3. /\ Restates(state', state) /\ ChainsOK' /\ OneStudyAtATime'
          /\ \A d \in Calls \ {c} : Busy(d)' <=> Busy(d)
      BY <1>0, <2>4, <3>1, <3>2, ProcessNextStep DEF OneStudyAtATime
    <3>4. ChainsOfAccepted'
      BY <1>0, <2>1, <3>3 DEF ChainsOfAccepted, Busy
    <3>5. state' \in State /\ Sound(state', today')
      BY <1>0, <2>1, <3>3, RestatesSound DEF Restates
    <3> QED
      BY <2>1, <2>2, <3>3, <3>4, <3>5 DEF StudyInv
  <2> QED
    BY <1>8, <2>3, <2>4 DEF ResearchFails
<1>9. ASSUME NEW c \in Calls, Recorded(c) PROVE StudyInv'
  <2>1. /\ work[c] = "recording" /\ Persisted(<<"work", c>>) /\ ProcessNext(c, state, FALSE)
        /\ UNCHANGED <<loaded, call, today, crashes>>
    BY <1>9 DEF Recorded
  <2>2. DiskSound' /\ ClockOK'
    BY <1>0, <2>1, PersistedKeeps DEF Writers, ClockOK, StudyInv
  <2>3. \A d \in Calls \ {c} : ~Busy(d)
    BY <1>0, <2>1 DEF OneStudyAtATime, Busy
  <2>4. \A j \in DOMAIN state.requests : state.requests[j].status # "in_progress"
    BY <1>0, <2>1, <2>3 DEF OneStudyAtATime, Busy
  <2>5. /\ Restates(state', state) /\ ChainsOK' /\ OneStudyAtATime'
        /\ \A d \in Calls \ {c} : Busy(d)' <=> Busy(d)
    BY <1>0, <2>1, <2>3, <2>4, ProcessNextStep DEF OneStudyAtATime
  <2>6. ChainsOfAccepted'
    BY <1>0, <2>1, <2>5 DEF ChainsOfAccepted, Busy
  <2>7. state' \in State /\ Sound(state', today')
    BY <1>0, <2>1, <2>5, RestatesSound DEF Restates
  <2> QED
    BY <2>1, <2>2, <2>5, <2>6, <2>7 DEF StudyInv
<1>10. CASE NextDay
  <2>1. /\ today < Days /\ today' = today + 1
        /\ UNCHANGED <<state, loaded, isProcessing, call, work, taken, tmp, file, crashes>>
    BY <1>10 DEF NextDay
  <2>2. \A s \in State : Sound(s, today) => Sound(s, today')
    BY <1>0, <2>1 DEF Sound, State
  <2>3. DiskSound'
    BY <1>0, <2>1, <2>2 DEF DiskSound
  <2>4. Sound(state', today') /\ ClockOK'
    BY <1>0, <2>1, <2>2, StudyAssumption DEF ClockOK, StudyInv
  <2>5. ChainsOK' /\ OneStudyAtATime' /\ ChainsOfAccepted'
    BY <1>0, <2>1 DEF ChainsOK, OneStudyAtATime, ChainsOfAccepted, Busy
  <2> QED
    BY <2>1, <2>3, <2>4, <2>5 DEF StudyInv
<1>11. CASE Crash
  <2>1. /\ crashes < Crashes /\ crashes' = crashes + 1
        /\ state' = Empty(today) /\ loaded' = FALSE /\ isProcessing' = FALSE
        /\ call' = [c \in Calls |-> AtCrash(call[c])]
        /\ work' = [c \in Calls |-> "idle"] /\ taken' = [c \in Calls |-> Nothing]
        /\ tmp' = [w \in Writers |-> NoState] /\ UNCHANGED <<file, today>>
    BY <1>11 DEF Crash
  <2>2. state' \in State /\ Sound(state', today') /\ DOMAIN state'.requests = {}
    BY <1>0, <2>1, EmptyType
  <2>3. DiskSound'
    BY <1>0, <2>1 DEF DiskSound
  <2>4. ClockOK'
    BY <2>1, StudyAssumption DEF ClockOK, StudyInv
  <2>5. ChainsOK' /\ ChainsOfAccepted'
    BY <2>1 DEF ChainsOK, ChainsOfAccepted, Busy, WorkPhase
  <2>6. OneStudyAtATime'
    BY <2>1, <2>2 DEF OneStudyAtATime, Busy
  <2>7. call' \in [Calls -> CallPhase]
    BY <2>1 DEF StudyInv, CallPhase, AtCrash
  <2> QED
    BY <2>1, <2>2, <2>3, <2>4, <2>5, <2>6, <2>7 DEF StudyInv
<1>12. CASE UNCHANGED studyVars
  <2>1. /\ UNCHANGED <<state, loaded, isProcessing, call, work, taken>>
        /\ UNCHANGED <<tmp, file, today, crashes>>
    BY <1>12 DEF studyVars
  <2>2. ChainsOK' /\ OneStudyAtATime' /\ ChainsOfAccepted' /\ DiskSound'
    BY <1>0, <2>1 DEF ChainsOK, OneStudyAtATime, ChainsOfAccepted, DiskSound, Busy
  <2> QED
    BY <2>1, <2>2 DEF StudyInv, ClockOK
<1> QED
  BY <1>1, <1>2, <1>3, <1>4, <1>5, <1>6, <1>7, <1>8, <1>9, <1>10, <1>11, <1>12
     DEF StudyNext, StudyStep

LEMMA StudyAlways == StudySpec => []StudyInv
BY InitStudy, NextStudy, PTL DEF StudySpec

\* Every reachable state of the queue, and of its file, has the declared types;
\* the daily count never exceeds its limit (queue.ts:71).
THEOREM StudyTypeCorrect == StudySpec => []StudyTypeOK
BY StudyAlways, InvParts, PTL

\* Whatever calls overlap, with each other and with the load of the file, one
\* chain has the researcher, and only its request is in progress
\* (queue.ts:109-190).
THEOREM StudiesOneAtATime == StudySpec => []OneStudyAtATime
BY StudyAlways, InvParts, PTL

\* The daily count is the number of the day's requests, in memory and on disk,
\* after any crash and any order of renames (queue.ts:71-89, 230-254).
THEOREM StudyLimitCounts == StudySpec => []WithinDailyLimit
BY StudyAlways, InvParts, PTL

-----------------------------------------------------------------------------
(***************************************************************************)
(* What the requests do when no call overlaps the load of the file.        *)
(***************************************************************************)

\* The calls that a request may be of, in memory or on disk.
Enqueued == {"saving", "accepted", "before", "lost"}

\* The requests of s are of different calls, which were enqueued.
Registered(s, calls) ==
  /\ \A i, j \in DOMAIN s.requests : s.requests[i].id = s.requests[j].id => i = j
  /\ \A i \in DOMAIN s.requests : calls[s.requests[i].id] \in Enqueued

DiskRegistered ==
  /\ file # NoState => Registered(file, call)
  /\ \A w \in Writers : tmp[w] # NoState => Registered(tmp[w], call)

\* The call that reads the file is the first, and alone.
LoadsAlone ==
  /\ \A c \in Calls : call[c] = "reading" =>
       /\ loaded /\ DOMAIN state.requests = {}
       /\ \A d \in Calls : call[d] \notin {"loading", "saving", "accepted"}
       /\ \A d \in Calls : call[d] = "reading" => d = c
  /\ ~loaded => /\ DOMAIN state.requests = {}
                /\ \A d \in Calls : call[d] \notin {"reading", "loading", "saving", "accepted"}

\* A chain remembers the request that is in progress.
HoldsTaken ==
  \A c \in Calls : work[c] \in {"marking", "researching"} =>
    /\ taken[c].index \in DOMAIN state.requests
    /\ state.requests[taken[c].index].id = taken[c].id
    /\ state.requests[taken[c].index].status = "in_progress"

KeptOnceSaved == \A c \in Calls : call[c] \in {"saving", "accepted"} => Known(c)

AdvanceInv ==
  /\ StudyInv /\ Registered(state, call) /\ DiskRegistered /\ LoadsAlone /\ HoldsTaken
  /\ KeptOnceSaved

\* No request of s is lost in t, nor decided but the one that was in progress.
Advances(s, t) ==
  \A i \in DOMAIN s.requests :
    /\ i \in DOMAIN t.requests
    /\ t.requests[i].id = s.requests[i].id
    /\ t.requests[i].status \in After(s.requests[i].status)

\* Whatever leaves the requests that there are as they are advances.
LEMMA AdvanceSame ==
  ASSUME NEW s, NEW t, \A i \in DOMAIN s.requests : i \in DOMAIN t.requests
                                                 /\ t.requests[i] = s.requests[i]
  PROVE  Advances(s, t)
BY DEF Advances, After

\* What restates registered requests is registered, when no call takes back its request.
LEMMA RegisteredKept ==
  ASSUME NEW s, NEW t, Restates(t, s), NEW before, NEW after, Registered(s, before),
         \A i \in DOMAIN s.requests :
           before[s.requests[i].id] \in Enqueued => after[s.requests[i].id] \in Enqueued
  PROVE  Registered(t, after)
BY DEF Restates, Registered

\* An append adds a request of the call, at the end, or nothing.
LEMMA AppendedIds ==
  ASSUME NEW s \in State, NEW c \in Calls
  PROVE  /\ \A i \in DOMAIN s.requests : i \in DOMAIN Appended(s, c).requests
                                      /\ Appended(s, c).requests[i] = s.requests[i]
         /\ \A i, j \in DOMAIN Appended(s, c).requests \ DOMAIN s.requests : i = j
         /\ \A i \in DOMAIN Appended(s, c).requests \ DOMAIN s.requests :
              Appended(s, c).requests[i].id = c
         /\ DOMAIN Appended(s, c).requests \ DOMAIN s.requests # {}
<1> DEFINE r == [id |-> c, status |-> "queued", at |-> today]
           n == Len(s.requests)
           t == Appended(s, c)
<1>1. n \in Nat /\ DOMAIN s.requests = 1 .. n /\ s.requests \in Seq(Request)
  BY DomainOfRequests DEF State
<1>2. t.requests = Append(s.requests, r)
  BY DEF Appended, State
<1>3. /\ DOMAIN Append(s.requests, r) = 1 .. (n + 1)
      /\ \A i \in 1 .. n : Append(s.requests, r)[i] = s.requests[i]
      /\ Append(s.requests, r)[n + 1] = r
  BY <1>1
<1>4. (1 .. (n + 1)) \ (1 .. n) = {n + 1} /\ r.id = c
  BY <1>1
<1> HIDE DEF t, r, n
<1> QED
  BY <1>1, <1>2, <1>3, <1>4 DEF t

\* The request of a call that had none is registered with those of the others.
LEMMA AppendedRegistered ==
  ASSUME NEW s \in State, NEW c \in Calls, NEW before, NEW after, Registered(s, before),
         before[c] \notin Enqueued, after[c] \in Enqueued,
         \A d \in Calls : before[d] \in Enqueued => after[d] \in Enqueued
  PROVE  Registered(Appended(s, c), after)
<1>1. PICK t : t = Appended(s, c)
  OBVIOUS
<1>2. /\ \A i \in DOMAIN s.requests : i \in DOMAIN t.requests /\ t.requests[i] = s.requests[i]
      /\ \A i, j \in DOMAIN t.requests \ DOMAIN s.requests : i = j
      /\ \A i \in DOMAIN t.requests \ DOMAIN s.requests : t.requests[i].id = c
  BY <1>1, AppendedIds
<1>3. \A i \in DOMAIN s.requests : s.requests[i].id \in Calls
  BY DomainOfRequests DEF Request
<1>4. \A i \in DOMAIN t.requests : after[t.requests[i].id] \in Enqueued
  BY <1>2, <1>3 DEF Registered
<1>5. ASSUME NEW i \in DOMAIN t.requests, NEW j \in DOMAIN t.requests,
             t.requests[i].id = t.requests[j].id
      PROVE  i = j
  <2>1. \A k \in DOMAIN s.requests : t.requests[k].id # c
    BY <1>2 DEF Registered
  <2>2. CASE i \in DOMAIN s.requests /\ j \in DOMAIN s.requests
    BY <1>2, <1>5, <2>2 DEF Registered
  <2>3. CASE i \notin DOMAIN s.requests /\ j \notin DOMAIN s.requests
    BY <1>2, <2>3
  <2>4. CASE i \in DOMAIN s.requests /\ j \notin DOMAIN s.requests
    BY <1>2, <1>5, <2>1, <2>4
  <2>5. CASE i \notin DOMAIN s.requests /\ j \in DOMAIN s.requests
    BY <1>2, <1>5, <2>1, <2>5
  <2> QED
    BY <2>2, <2>3, <2>4, <2>5
<1> QED
  BY <1>1, <1>4, <1>5 DEF Registered

\* A status is written to the one request that has the id.
LEMMA StatusAt ==
  ASSUME NEW s \in State, NEW i \in DOMAIN s.requests, NEW status \in Status, NEW t,
         t = WithStatus(s, i, status)
  PROVE  /\ DOMAIN t.requests = DOMAIN s.requests
         /\ t.requests[i] = [s.requests[i] EXCEPT !.status = status]
         /\ \A j \in DOMAIN s.requests \ {i} : t.requests[j] = s.requests[j]
<1>1. DOMAIN t.requests = DOMAIN s.requests
  BY WithStatusType
<1>2. \A j \in DOMAIN s.requests :
        WithStatus(s, i, status).requests[j] =
          IF j = i THEN [s.requests[j] EXCEPT !.status = status] ELSE s.requests[j]
  BY WithStatusType
<1> QED
  BY <1>1, <1>2

\* A step that changes no request in memory, or no other than it may.
LEMMA KnownKept ==
  ASSUME Advances(state, state'), NEW c, Known(c)
  PROVE  Known(c)'
BY DEF Advances, Known

\* What is on disk stays registered while no call takes back its request.
LEMMA DiskKept ==
  ASSUME DiskSound, DiskRegistered, UNCHANGED <<tmp, file>>,
         \A d \in Calls : call[d] \in Enqueued => call'[d] \in Enqueued
  PROVE  DiskRegistered'
<1>1. \A s \in State : \A i \in DOMAIN s.requests : s.requests[i].id \in Calls
  BY DomainOfRequests DEF Request
<1>2. \A s \in State : Registered(s, call) => Registered(s, call')
  BY <1>1 DEF Registered
<1> QED
  BY <1>2 DEF DiskRegistered, DiskSound

\* What a write brings to the disk is registered as what it was written from.
LEMMA PersistedRegistered ==
  ASSUME DiskSound, DiskRegistered, NEW w \in Writers, Persisted(w),
         \A d \in Calls : call[d] \in Enqueued => call'[d] \in Enqueued
  PROVE  DiskRegistered'
<1>1. \A s \in State : \A i \in DOMAIN s.requests : s.requests[i].id \in Calls
  BY DomainOfRequests DEF Request
<1>2. \A s \in State : Registered(s, call) => Registered(s, call')
  BY <1>1 DEF Registered
<1>3. /\ \A v \in Writers : tmp'[v] = NoState \/ tmp'[v] = tmp[v]
      /\ file' = file \/ (tmp[w] # NoState /\ file' = tmp[w])
  BY DEF Persisted, DiskSound
<1> QED
  BY <1>2, <1>3 DEF DiskRegistered, DiskSound

\* The end of a research decides the request that was in progress, and no other.
LEMMA ProceedAdvances ==
  ASSUME AdvanceInv, NEW c \in Calls, Proceed(c), call[c] \in {"idle", "reading", "loading"},
         \A d \in Calls \ {c} : call[d] # "reading", loaded', UNCHANGED <<work, taken>>
  PROVE  /\ Advances(state, state') /\ Registered(state', call') /\ LoadsAlone' /\ HoldsTaken'
         /\ KeptOnceSaved' /\ \A d \in Calls : call[d] \in Enqueued => call'[d] \in Enqueued
<1>1. PICK s : s = AfterReset(state)
  OBVIOUS
<1>2. s \in State /\ s.requests = state.requests
  BY <1>1, AfterResetType DEF AdvanceInv, StudyInv, ClockOK
<1>3. \/ call'[c] \in {"answered", "refused"} /\ (state' = state \/ state' = s)
      \/ call'[c] = "saving" /\ state' = Appended(s, c)
  BY <1>1 DEF Proceed, AdvanceInv, StudyInv
<1>4. /\ \A d \in Calls \ {c} : call'[d] = call[d]
      /\ \A d \in Calls : call[d] \in Enqueued => call'[d] \in Enqueued
  BY DEF Proceed, AdvanceInv, StudyInv, Enqueued
<1>5. Registered(s, call) /\ \A i \in DOMAIN s.requests : s.requests[i].id \in Calls
  BY <1>2, DomainOfRequests DEF AdvanceInv, Registered, Request
<1>6. Registered(state', call')
  <2>1. CASE state' = Appended(s, c) /\ call'[c] = "saving"
    BY <1>2, <1>4, <1>5, <2>1, AppendedRegistered DEF Enqueued
  <2>2. CASE state' = state \/ state' = s
    BY <1>2, <1>4, <1>5, <2>2 DEF Registered
  <2> QED
    BY <1>3, <2>1, <2>2
<1>7. \A i \in DOMAIN state.requests : i \in DOMAIN state'.requests
                                    /\ state'.requests[i] = state.requests[i]
  BY <1>2, <1>3, AppendedIds
<1>8. Advances(state, state')
  BY <1>7, AdvanceSame
<1>9. HoldsTaken'
  BY <1>7 DEF HoldsTaken, AdvanceInv
<1>10. LoadsAlone'
  BY <1>3, <1>4 DEF LoadsAlone
<1>11. ASSUME NEW d \in Calls, call'[d] \in {"saving", "accepted"} PROVE Known(d)'
  <2>1. CASE d = c
    <3>1. state' = Appended(s, c)
      BY <1>3, <1>11, <2>1
    <3> QED
      BY <1>2, <2>1, <3>1, AppendedIds DEF Known
  <2>2. CASE d # c
    BY <1>4, <1>8, <1>11, <2>2, KnownKept DEF AdvanceInv, KeptOnceSaved
  <2> QED
    BY <2>1, <2>2
<1> QED
  BY <1>4, <1>6, <1>8, <1>9, <1>10, <1>11 DEF KeptOnceSaved

\* A chain takes a queued request in progress, and leaves the others alone.
LEMMA ProcessNextAdvances ==
  ASSUME AdvanceInv, NEW c \in Calls, NEW busy \in BOOLEAN, ProcessNext(c, state, busy),
         ~busy => \A d \in Calls \ {c} : ~Busy(d)
  PROVE  /\ Advances(state, state') /\ HoldsTaken' /\ Restates(state', state)
<1>1. CASE /\ state' = state
           /\ work' = [work EXCEPT ![c] = "idle"] /\ taken' = [taken EXCEPT ![c] = Nothing]
  <2>1. Advances(state, state') /\ Restates(state', state)
    BY <1>1, AdvanceSame DEF Restates, AdvanceInv, StudyInv
  <2>2. \A d \in Calls : work'[d] \in {"marking", "researching"} =>
                           work'[d] = work[d] /\ taken'[d] = taken[d]
    BY <1>1 DEF AdvanceInv, StudyInv, ChainsOK
  <2>3. HoldsTaken'
    BY <1>1, <2>2 DEF HoldsTaken, AdvanceInv
  <2> QED
    BY <2>1, <2>3
<1>2. CASE /\ MayProcess(busy) /\ Queued(state) # {}
           /\ state' = WithStatus(state, Min(Queued(state)), "in_progress")
           /\ work' = [work EXCEPT ![c] = "marking"]
           /\ taken' = [taken EXCEPT ![c] =
                [index |-> Min(Queued(state)), id |-> state.requests[Min(Queued(state))].id]]
  <2>1. PICK m : m = Min(Queued(state))
    OBVIOUS
  <2>2. m \in DOMAIN state.requests /\ state.requests[m].status = "queued" /\ state \in State
    BY <1>2, <2>1, FirstQueued DEF Queued, AdvanceInv, StudyInv
  <2>3. /\ DOMAIN state'.requests = DOMAIN state.requests
        /\ state'.requests[m] = [state.requests[m] EXCEPT !.status = "in_progress"]
        /\ \A j \in DOMAIN state.requests \ {m} : state'.requests[j] = state.requests[j]
    <3>1. "in_progress" \in Status /\ state' = WithStatus(state, m, "in_progress")
      BY <1>2, <2>1 DEF Status
    <3> QED
      BY <2>2, <3>1, StatusAt
  <2>4. state'.requests[m].id = state.requests[m].id /\ state'.requests[m].status = "in_progress"
    BY <2>2, <2>3, DomainOfRequests DEF Request
  <2>5. Advances(state, state')
    BY <2>2, <2>3, <2>4 DEF Advances, After
  <2>6. Restates(state', state)
    BY <1>2, <2>1, <2>2, WithStatusRestates DEF Status
  <2>7. HoldsTaken'
    <3>1. \A d \in Calls \ {c} : work'[d] = "idle"
      BY <1>2 DEF MayProcess, Busy, AdvanceInv, StudyInv, ChainsOK
    <3>2. taken'[c] = [index |-> m, id |-> state.requests[m].id]
      BY <1>2, <2>1 DEF AdvanceInv, StudyInv, ChainsOK
    <3>3. taken'[c].index = m /\ taken'[c].id = state.requests[m].id
      BY <3>2
    <3>4. m \in DOMAIN state'.requests
      BY <2>2, <2>3
    <3> QED
      BY <2>4, <3>1, <3>3, <3>4 DEF HoldsTaken
  <2> QED
    BY <2>5, <2>6, <2>7
<1> QED
  BY <1>1, <1>2 DEF ProcessNext

\* The outcome goes to the request that was taken.
LEMMA OutcomeAdvances ==
  ASSUME AdvanceInv, NEW c \in Calls, Researched(c) \/ ResearchFails(c)
  PROVE  Advances(state, state') /\ HoldsTaken' /\ Restates(state', state)
<1>1. PICK i : i = taken[c].index
  OBVIOUS
<1>2. /\ i \in DOMAIN state.requests /\ state.requests[i].id = taken[c].id
      /\ state.requests[i].status = "in_progress" /\ state \in State
      /\ work[c] = "researching" /\ \A d \in Calls \ {c} : ~Busy(d)
      /\ work \in [Calls -> WorkPhase]
  BY <1>1 DEF AdvanceInv, HoldsTaken, StudyInv, ChainsOK, OneStudyAtATime, Busy, Researched,
     ResearchFails
<1>3. \A j \in DOMAIN state.requests : state.requests[j] \in Request
  BY <1>2, DomainOfRequests
<1>4. \E status \in {"completed", "failed"} :
        /\ DOMAIN state'.requests = DOMAIN state.requests
        /\ state'.requests[i] = [state.requests[i] EXCEPT !.status = status]
        /\ \A j \in DOMAIN state.requests \ {i} : state'.requests[j] = state.requests[j]
        /\ work' = [work EXCEPT ![c] = "recording"] /\ Restates(state', state)
  <2>1. CASE Researched(c)
    <3> DEFINE f == [j \in DOMAIN state.requests |->
                       IF j \in CompletedBy(c)
                       THEN [state.requests[j] EXCEPT !.status = "completed"]
                       ELSE state.requests[j]]
    <3>1. state' = [state EXCEPT !.requests = f] /\ work' = [work EXCEPT ![c] = "recording"]
      BY <2>1 DEF Researched
    <3>2. CompletedBy(c) = {i}
      BY <1>2 DEF CompletedBy, AdvanceInv, Registered
    <3>3. f \in [DOMAIN state.requests -> Request]
      BY <1>3 DEF Request, Status
    <3>4. state' \in State
      BY <1>2, <3>1, <3>3, SameLength
    <3>5. state'.requests = f /\ state'.dailyCount = state.dailyCount /\ state'.day = state.day
      BY <1>2, <3>1 DEF State
    <3>6. /\ f[i] = [state.requests[i] EXCEPT !.status = "completed"]
          /\ \A j \in DOMAIN state.requests \ {i} : f[j] = state.requests[j]
      BY <1>2, <3>2
    <3>7. \A j \in DOMAIN state.requests : f[j].id = state.requests[j].id
                                        /\ f[j].at = state.requests[j].at
      BY <1>3 DEF Request
    <3> HIDE DEF f
    <3>8. Restates(state', state)
      BY <3>3, <3>4, <3>5, <3>7 DEF Restates
    <3> QED
      BY <3>1, <3>3, <3>5, <3>6, <3>8
  <2>2. CASE ResearchFails(c)
    <3>1. "failed" \in Status /\ state' = WithStatus(state, i, "failed")
          /\ work' = [work EXCEPT ![c] = "recording"]
      BY <1>1, <1>2, <2>2 DEF ResearchFails, FailedIndex, Status
    <3>4. Restates(state', state)
      BY <1>2, <3>1, WithStatusRestates
    <3> QED
      BY <1>2, <3>1, <3>4, StatusAt
  <2> QED
    BY <2>1, <2>2
<1>5. /\ state'.requests[i].id = state.requests[i].id
      /\ state'.requests[i].status \in {"completed", "failed"}
  BY <1>2, <1>3, <1>4 DEF Request
<1>6. Advances(state, state')
  BY <1>2, <1>4, <1>5 DEF Advances, After
<1>7. \A d \in Calls : work'[d] \notin {"marking", "researching"}
  BY <1>2, <1>4 DEF Busy
<1> QED
  BY <1>4, <1>6, <1>7 DEF HoldsTaken

\* A step that leaves the calls where they are, or starts the chain of one that is saving.
LEMMA ChainAdvances ==
  ASSUME AdvanceInv, StudyInv', Advances(state, state'), HoldsTaken', Restates(state', state),
         DiskRegistered', loaded' = loaded,
         \A c \in Calls : call'[c] = call[c] \/ (call[c] = "saving" /\ call'[c] = "accepted")
  PROVE  AdvanceInv'
<1>1. \A i \in DOMAIN state.requests : state.requests[i].id \in Calls
  BY DomainOfRequests DEF AdvanceInv, StudyInv, Request
<1>2. \A c \in Calls : call[c] \in Enqueued => call'[c] \in Enqueued
  BY DEF Enqueued
<1>3. Registered(state', call')
  BY <1>1, <1>2, RegisteredKept DEF AdvanceInv
<1>4. DOMAIN state'.requests = DOMAIN state.requests
  BY DEF Restates
<1>5. LoadsAlone'
  BY <1>4 DEF LoadsAlone, AdvanceInv
<1>6. KeptOnceSaved'
  BY KnownKept DEF KeptOnceSaved, AdvanceInv
<1> QED
  BY <1>3, <1>5, <1>6 DEF AdvanceInv

\* Every step keeps the requests registered and, but for a restart, advances them.
LEMMA NextAdvances ==
  ASSUME EarlyCalls = {}, AdvanceInv, [StudyNext]_studyVars, StudyInv'
  PROVE  AdvanceInv' /\ (crashes' = crashes => Advances(state, state'))
<1>0. /\ state \in State /\ today \in 0 .. Days /\ DiskSound /\ call \in [Calls -> CallPhase]
      /\ DiskRegistered /\ Registered(state, call) /\ LoadsAlone /\ HoldsTaken /\ KeptOnceSaved
      /\ isProcessing \in BOOLEAN /\ work \in [Calls -> WorkPhase]
      /\ tmp \in [Writers -> State \cup {NoState}]
  BY DEF AdvanceInv, StudyInv, ClockOK, ChainsOK, DiskSound
<1>a. Restates(state, state) /\ Advances(state, state)
  BY <1>0, AdvanceSame DEF Restates
<1>1. ASSUME NEW w \in Writers, WriteTmp(w) PROVE AdvanceInv' /\ Advances(state, state')
  <2>1. /\ tmp' = [tmp EXCEPT ![w] = state]
        /\ UNCHANGED <<state, loaded, isProcessing, call, work, taken, file, today, crashes>>
    BY <1>1 DEF WriteTmp
  <2>2. DiskRegistered' /\ HoldsTaken'
    BY <1>0, <2>1 DEF DiskRegistered, HoldsTaken
  <2> QED
    BY <1>a, <2>1, <2>2, ChainAdvances
<1>2. ASSUME NEW c \in Calls, Arrive(c) PROVE AdvanceInv' /\ Advances(state, state')
  <2>1. /\ call[c] = "idle" /\ \A d \in Calls : call[d] # "reading"
        /\ UNCHANGED <<isProcessing, work, taken, tmp, file, today, crashes>>
    BY <1>2 DEF Arrive
  <2>2. CASE ~loaded /\ loaded' = TRUE /\ call' = [call EXCEPT ![c] = "reading"] /\ UNCHANGED state
    <3>1. \A d \in Calls : call[d] \in Enqueued => call'[d] \in Enqueued
      BY <1>0, <2>1, <2>2 DEF Enqueued
    <3>2. Registered(state', call')
      BY <1>0, <2>2, <3>1, DomainOfRequests DEF Registered, Request
    <3>3. DiskRegistered' /\ HoldsTaken'
      BY <1>0, <2>1, <2>2, <3>1, DiskKept DEF HoldsTaken
    <3>4. LoadsAlone'
      BY <1>0, <2>1, <2>2 DEF LoadsAlone
    <3>5. KeptOnceSaved'
      BY <1>0, <2>2 DEF KeptOnceSaved, Known
    <3> QED
      BY <1>a, <2>2, <3>2, <3>3, <3>4, <3>5 DEF AdvanceInv
  <2>3. CASE loaded /\ Proceed(c) /\ UNCHANGED loaded
    <3>1. /\ Advances(state, state') /\ Registered(state', call') /\ LoadsAlone' /\ HoldsTaken'
          /\ KeptOnceSaved' /\ \A d \in Calls : call[d] \in Enqueued => call'[d] \in Enqueued
      BY <2>1, <2>3, ProceedAdvances
    <3> QED
      BY <1>0, <2>1, <3>1, DiskKept DEF AdvanceInv
  <2> QED
    BY <1>2, <2>2, <2>3 DEF Arrive
<1>3. ASSUME NEW c \in Calls, ReadReturns(c) PROVE AdvanceInv' /\ Advances(state, state')
  <2>1. /\ call[c] = "reading" /\ loaded /\ loaded' /\ \A d \in Calls \ {c} : call[d] # "reading"
        /\ DOMAIN state.requests = {} /\ \A d \in Calls : call[d] \notin {"saving", "accepted"}
        /\ UNCHANGED <<isProcessing, work, taken, tmp, file, today, crashes>>
    BY <1>0, <1>3 DEF ReadReturns, LoadsAlone
  <2>2. CASE /\ file # NoState /\ state' = AfterReset(Recovered(file))
             /\ call' = [call EXCEPT ![c] = "loading"]
    <3>1. \A d \in Calls : /\ call[d] \in Enqueued => call'[d] \in Enqueued
                           /\ call'[d] \notin {"reading", "saving", "accepted"}
      BY <1>0, <2>1, <2>2 DEF Enqueued
    <3>2. file \in State /\ Sound(file, today) /\ Registered(file, call)
      BY <1>0, <2>2 DEF DiskSound, DiskRegistered
    <3>3. \A i \in DOMAIN file.requests : file.requests[i].id \in Calls
      BY <3>2, DomainOfRequests DEF Request
    <3>4. PICK s : s = Recovered(file)
      OBVIOUS
    <3>5. Restates(s, file)
      BY <3>2, <3>4, RecoveredType
    <3>6. s \in State /\ Sound(s, today) /\ Registered(s, call')
      <4>1. s \in State /\ Sound(s, today)
        BY <3>2, <3>5, RestatesSound DEF Restates
      <4>2. \A i \in DOMAIN file.requests :
              call[file.requests[i].id] \in Enqueued => call'[file.requests[i].id] \in Enqueued
        BY <3>1, <3>3
      <4> QED
        BY <3>2, <3>5, <4>1, <4>2, RegisteredKept
    <3>7. state'.requests = s.requests
      BY <1>0, <2>2, <3>4, <3>6, AfterResetType
    <3>8. Registered(state', call')
      BY <3>6, <3>7 DEF Registered
    <3>9. \A d \in Calls : ~Busy(d)
      BY <2>1 DEF AdvanceInv, StudyInv, ChainsOfAccepted
    <3>10. HoldsTaken' /\ KeptOnceSaved' /\ LoadsAlone' /\ Advances(state, state')
      BY <2>1, <3>1, <3>9 DEF HoldsTaken, KeptOnceSaved, LoadsAlone, Advances, Busy
    <3> QED
      BY <1>0, <2>1, <3>1, <3>8, <3>10, DiskKept DEF AdvanceInv
  <2>3. CASE Proceed(c)
    <3>1. /\ Advances(state, state') /\ Registered(state', call') /\ LoadsAlone' /\ HoldsTaken'
          /\ KeptOnceSaved' /\ \A d \in Calls : call[d] \in Enqueued => call'[d] \in Enqueued
      BY <2>1, <2>3, ProceedAdvances
    <3> QED
      BY <1>0, <2>1, <3>1, DiskKept DEF AdvanceInv
  <2> QED
    BY <1>3, <2>2, <2>3 DEF ReadReturns
<1>4. ASSUME NEW c \in Calls, Loaded(c) PROVE AdvanceInv' /\ Advances(state, state')
  <2>1. /\ call[c] = "loading" /\ Persisted(<<"call", c>>) /\ Proceed(c) /\ <<"call", c>> \in Writers
        /\ UNCHANGED <<loaded, isProcessing, work, taken, today, crashes>>
    BY <1>4 DEF Loaded, Writers
  <2>2. loaded' /\ \A d \in Calls : call[d] # "reading"
    BY <1>0, <2>1 DEF LoadsAlone, AdvanceInv, StudyInv
  <2>3. /\ Advances(state, state') /\ Registered(state', call') /\ LoadsAlone' /\ HoldsTaken'
        /\ KeptOnceSaved' /\ \A d \in Calls : call[d] \in Enqueued => call'[d] \in Enqueued
    BY <2>1, <2>2, ProceedAdvances
  <2> QED
    BY <1>0, <2>1, <2>3, PersistedRegistered DEF AdvanceInv
<1>5. ASSUME NEW c \in Calls, Accepted(c) PROVE AdvanceInv' /\ Advances(state, state')
  <2>1. /\ call[c] = "saving" /\ Persisted(<<"call", c>>) /\ <<"call", c>> \in Writers
        /\ call' = [call EXCEPT ![c] = "accepted"]
        /\ ProcessNext(c, state, isProcessing) /\ loaded' = loaded
    BY <1>5 DEF Accepted, Writers
  <2>2. ~isProcessing => \A d \in Calls \ {c} : ~Busy(d)
    BY DEF AdvanceInv, StudyInv, OneStudyAtATime
  <2>3. Advances(state, state') /\ HoldsTaken' /\ Restates(state', state)
    BY <1>0, <2>1, <2>2, ProcessNextAdvances
  <2>4. /\ \A d \in Calls : call'[d] = call[d] \/ (call[d] = "saving" /\ call'[d] = "accepted")
        /\ \A d \in Calls : call[d] \in Enqueued => call'[d] \in Enqueued
    BY <1>0, <2>1 DEF Enqueued
  <2> QED
    BY <1>0, <2>1, <2>3, <2>4, PersistedRegistered, ChainAdvances
<1>6. ASSUME NEW c \in Calls, Marked(c) PROVE AdvanceInv' /\ Advances(state, state')
  <2>1. /\ work[c] = "marking" /\ Persisted(<<"work", c>>) /\ <<"work", c>> \in Writers
        /\ work' = [work EXCEPT ![c] = "researching"]
        /\ UNCHANGED <<state, loaded, isProcessing, call, taken, today, crashes>>
    BY <1>6 DEF Marked, Writers
  <2>2. \A d \in Calls : work'[d] \in {"marking", "researching"} =>
                         work[d] \in {"marking", "researching"}
    BY <1>0, <2>1
  <2>3. HoldsTaken'
    BY <1>0, <2>1, <2>2 DEF HoldsTaken
  <2> QED
    BY <1>0, <1>a, <2>1, <2>3, PersistedRegistered, ChainAdvances
<1>7. ASSUME NEW c \in Calls, Researched(c) \/ ResearchFails(c)
      PROVE  AdvanceInv' /\ Advances(state, state')
  <2>1. UNCHANGED <<loaded, call, tmp, file>>
    BY <1>7 DEF Researched, ResearchFails
  <2> QED
    BY <1>0, <1>7, <2>1, OutcomeAdvances, DiskKept, ChainAdvances
<1>8. ASSUME NEW c \in Calls, Recorded(c) PROVE AdvanceInv' /\ Advances(state, state')
  <2>1. /\ work[c] = "recording" /\ Persisted(<<"work", c>>) /\ ProcessNext(c, state, FALSE)
        /\ <<"work", c>> \in Writers /\ UNCHANGED <<loaded, call, today, crashes>>
    BY <1>8 DEF Recorded, Writers
  <2>2. \A d \in Calls \ {c} : ~Busy(d)
    BY <2>1 DEF AdvanceInv, StudyInv, OneStudyAtATime, Busy
  <2>3. Advances(state, state') /\ HoldsTaken' /\ Restates(state', state)
    BY <2>1, <2>2, ProcessNextAdvances
  <2> QED
    BY <1>0, <2>1, <2>3, PersistedRegistered, ChainAdvances
<1>9. CASE NextDay \/ UNCHANGED studyVars
  <2>1. UNCHANGED <<state, loaded, call, work, taken, tmp, file, crashes>>
    BY <1>9 DEF NextDay, studyVars
  <2>2. DiskRegistered' /\ HoldsTaken'
    BY <1>0, <2>1 DEF DiskRegistered, HoldsTaken
  <2> QED
    BY <1>a, <2>1, <2>2, ChainAdvances
<1>10. CASE Crash
  <2>1. /\ crashes' = crashes + 1 /\ crashes \in Nat /\ state' = Empty(today) /\ ~loaded'
        /\ call' = [c \in Calls |-> AtCrash(call[c])] /\ work' = [c \in Calls |-> "idle"]
        /\ tmp' = [w \in Writers |-> NoState] /\ UNCHANGED <<file, today>>
    BY <1>10 DEF Crash, AdvanceInv, StudyInv, ClockOK
  <2>2. \A c \in Calls : /\ call[c] \in Enqueued => call'[c] \in Enqueued
                         /\ call'[c] \notin {"reading", "loading", "saving", "accepted"}
    <3> SUFFICES ASSUME NEW c \in Calls
                 PROVE  /\ call[c] \in Enqueued => call'[c] \in Enqueued
                        /\ call'[c] \notin {"reading", "loading", "saving", "accepted"}
      OBVIOUS
    <3>1. call'[c] = AtCrash(call[c]) /\ call[c] \in CallPhase
      BY <1>0, <2>1
    <3> QED
      BY <3>1 DEF AtCrash, Enqueued, CallPhase
  <2>3. DOMAIN state'.requests = {}
    BY <1>0, <2>1, EmptyType
  <2>4. Registered(state', call') /\ LoadsAlone' /\ HoldsTaken' /\ KeptOnceSaved'
    BY <2>1, <2>2, <2>3 DEF Registered, LoadsAlone, HoldsTaken, KeptOnceSaved
  <2>5. DiskRegistered'
    <3>1. file # NoState => Registered(file, call')
      <4> SUFFICES ASSUME file # NoState PROVE Registered(file, call')
        OBVIOUS
      <4>1. file \in State /\ Registered(file, call)
        BY <1>0 DEF DiskSound, DiskRegistered
      <4>2. \A i \in DOMAIN file.requests : file.requests[i].id \in Calls
        BY <4>1, DomainOfRequests DEF Request
      <4> QED
        BY <2>2, <4>1, <4>2 DEF Registered
    <3> QED
      BY <2>1, <3>1 DEF DiskRegistered
  <2> QED
    BY <2>1, <2>4, <2>5 DEF AdvanceInv
<1> QED
  BY <1>1, <1>2, <1>3, <1>4, <1>5, <1>6, <1>7, <1>8, <1>9, <1>10 DEF StudyNext, StudyStep

\* An empty queue, and an empty file, have all of it.
LEMMA InitAdvance == StudyInit => AdvanceInv
<1> SUFFICES ASSUME StudyInit PROVE AdvanceInv
  OBVIOUS
<1>1. DOMAIN state.requests = {}
  BY EmptyType, StudyAssumption DEF StudyInit
<1> QED
  BY <1>1, InitStudy DEF StudyInit, AdvanceInv, Registered, DiskRegistered, LoadsAlone, HoldsTaken,
     KeptOnceSaved

\* While no call overlaps the load of the file, no request gets lost in a life of the
\* process, and none is decided but the one that is studied (queue.ts:137, 163).
THEOREM RequestsAlwaysAdvance == EarlyCalls = {} => (StudySpec => RequestsAdvance)
<1> SUFFICES ASSUME EarlyCalls = {} PROVE StudySpec => RequestsAdvance
  OBVIOUS
<1>1. StudyInv /\ [StudyNext]_studyVars /\ AdvanceInv => AdvanceInv'
  BY NextStudy, NextAdvances
<1>2. StudyInv /\ AdvanceInv /\ [StudyNext]_studyVars =>
        [crashes' = crashes =>
           \A i \in DOMAIN state.requests :
             /\ i \in DOMAIN state'.requests
             /\ state'.requests[i].id = state.requests[i].id
             /\ state'.requests[i].status \in After(state.requests[i].status)]_studyVars
  BY NextStudy, NextAdvances DEF Advances
<1> QED
  BY <1>1, <1>2, InitAdvance, StudyAlways, PTL DEF StudySpec, RequestsAdvance

\* Nor is a request lost that was accepted: to lose one, a call has to overlap the load.
THEOREM AcceptedKept == EarlyCalls = {} => (StudySpec => []AcceptedIsKept)
<1> SUFFICES ASSUME EarlyCalls = {} PROVE StudySpec => []AcceptedIsKept
  OBVIOUS
<1>1. StudyInv /\ [StudyNext]_studyVars /\ AdvanceInv => AdvanceInv'
  BY NextStudy, NextAdvances
<1>2. AdvanceInv => AcceptedIsKept
  BY DEF AdvanceInv, KeptOnceSaved, AcceptedIsKept
<1> QED
  BY <1>1, <1>2, InitAdvance, StudyAlways, PTL DEF StudySpec

\* While a request is queued in an awake queue, a chain is at work, which takes it when its turn
\* comes, or its call is still saving it and starts one (queue.ts:94, 113-117, 189).
NoWakeUpLost ==
  Awake => \A i \in Queued(state) :
             (\E c \in Calls : Busy(c)) \/ call[state.requests[i].id] = "saving"

\* A call that goes on leaves the requests, or adds its own, which it saves then.
LEMMA ProceedLeaves ==
  ASSUME AdvanceInv, NEW c \in Calls, Proceed(c)
  PROVE  /\ \A i \in DOMAIN state'.requests :
              \/ i \in DOMAIN state.requests /\ state'.requests[i] = state.requests[i]
              \/ state'.requests[i].id = c /\ call'[c] = "saving"
         /\ call'[c] # "accepted" /\ \A d \in Calls \ {c} : call'[d] = call[d]
<1>1. PICK s : s = AfterReset(state)
  OBVIOUS
<1>2. s \in State /\ s.requests = state.requests
  BY <1>1, AfterResetType DEF AdvanceInv, StudyInv, ClockOK
<1>3. call \in [Calls -> CallPhase]
  BY DEF AdvanceInv, StudyInv
<1>4. \/ state'.requests = state.requests /\ call' = [call EXCEPT ![c] = "answered"]
      \/ state'.requests = state.requests /\ call' = [call EXCEPT ![c] = "refused"]
      \/ state' = Appended(s, c) /\ call' = [call EXCEPT ![c] = "saving"]
  BY <1>1, <1>2 DEF Proceed
<1> QED
  BY <1>2, <1>3, <1>4, AppendedIds

\* A call that goes on leaves no request without a chain but its own.
LEMMA ProceedWakes ==
  ASSUME AdvanceInv, NoWakeUpLost, NEW c \in Calls, Proceed(c),
         call[c] \in {"idle", "reading", "loading"}, work' = work
  PROVE  NoWakeUpLost'
<1> SUFFICES ASSUME Awake', NEW i \in Queued(state)', \A d \in Calls : ~Busy(d)
             PROVE  call'[state'.requests[i].id] = "saving"
  BY DEF NoWakeUpLost, Busy
<1>1. /\ \/ i \in DOMAIN state.requests /\ state'.requests[i] = state.requests[i]
         \/ state'.requests[i].id = c /\ call'[c] = "saving"
      /\ call'[c] # "accepted" /\ \A d \in Calls \ {c} : call'[d] = call[d]
  BY ProceedLeaves DEF Queued
<1>2. Awake
  BY <1>1 DEF Awake
<1>3. CASE i \in DOMAIN state.requests /\ state'.requests[i] = state.requests[i]
  <2>1. i \in Queued(state)
    BY <1>3 DEF Queued
  <2>2. call[state.requests[i].id] = "saving" /\ state.requests[i].id \in Calls
    BY <1>2, <2>1, DomainOfRequests DEF NoWakeUpLost, Queued, AdvanceInv, StudyInv, Request
  <2> QED
    BY <1>1, <1>3, <2>2
<1> QED
  BY <1>1, <1>3

\* processNext goes on with a request, or there is none, or another chain was busy.
LEMMA ProcessNextWakes ==
  ASSUME AdvanceInv, NEW c \in Calls, NEW busy \in BOOLEAN, ProcessNext(c, state, busy)
  PROVE  Busy(c)' \/ Queued(state)' = {} \/ busy
<1>1. work \in [Calls -> WorkPhase]
  BY DEF AdvanceInv, StudyInv, ChainsOK
<1> QED
  BY <1>1 DEF ProcessNext, MayProcess, Busy, Queued

LEMMA NextWakes ==
  ASSUME EarlyCalls = {}, AdvanceInv, NoWakeUpLost, [StudyNext]_studyVars
  PROVE  NoWakeUpLost'
<1>0. call \in [Calls -> CallPhase] /\ work \in [Calls -> WorkPhase] /\ isProcessing \in BOOLEAN
  BY DEF AdvanceInv, StudyInv, ChainsOK
<1>1. ASSUME NEW c \in Calls, Arrive(c) PROVE NoWakeUpLost'
  <2>1. CASE Proceed(c)
    BY <1>1, <2>1, ProceedWakes DEF Arrive
  <2>2. CASE call' = [call EXCEPT ![c] = "reading"] /\ ~loaded /\ UNCHANGED state
    BY <1>0, <2>2 DEF AdvanceInv, LoadsAlone, NoWakeUpLost, Awake
  <2> QED
    BY <1>1, <2>1, <2>2 DEF Arrive
<1>2. ASSUME NEW c \in Calls, ReadReturns(c) PROVE NoWakeUpLost'
  <2>1. CASE Proceed(c)
    BY <1>2, <2>1, ProceedWakes DEF ReadReturns
  <2>2. CASE call' = [call EXCEPT ![c] = "loading"]
    BY <1>0, <1>2, <2>2 DEF ReadReturns, AdvanceInv, LoadsAlone, NoWakeUpLost, Awake
  <2> QED
    BY <1>2, <2>1, <2>2 DEF ReadReturns
<1>3. ASSUME NEW c \in Calls, Loaded(c) PROVE NoWakeUpLost'
  BY <1>3, ProceedWakes DEF Loaded
<1>4. ASSUME NEW c \in Calls, Accepted(c) PROVE NoWakeUpLost'
  <2>1. /\ ProcessNext(c, state, isProcessing) /\ call[c] = "saving"
        /\ \A d \in Calls \ {c} : work'[d] = work[d]
    BY <1>0, <1>4 DEF Accepted, ProcessNext
  <2>2. isProcessing => \E d \in Calls \ {c} : Busy(d)
    BY <2>1 DEF AdvanceInv, StudyInv, OneStudyAtATime, ChainsOfAccepted
  <2>3. Busy(c)' \/ Queued(state)' = {} \/ isProcessing
    BY <1>0, <2>1, ProcessNextWakes
  <2>4. isProcessing => \E d \in Calls : Busy(d)'
    BY <2>1, <2>2 DEF Busy
  <2> QED
    BY <2>3, <2>4 DEF NoWakeUpLost
<1>5. ASSUME NEW c \in Calls, Recorded(c) \/ (ResearchFails(c) /\ ProcessNext(c, state, FALSE))
      PROVE  NoWakeUpLost'
  <2>1. Busy(c)' \/ Queued(state)' = {}
    BY <1>5, ProcessNextWakes DEF Recorded
  <2> QED
    BY <2>1 DEF NoWakeUpLost
<1>6. ASSUME NEW c \in Calls, Marked(c) \/ Researched(c)
                              \/ (ResearchFails(c) /\ ~ProcessNext(c, state, FALSE))
      PROVE  NoWakeUpLost'
  <2>1. Busy(c)'
    BY <1>0, <1>6 DEF Marked, Researched, ResearchFails, Busy
  <2> QED
    BY <2>1 DEF NoWakeUpLost
<1>7. CASE (\E w \in Writers : WriteTmp(w)) \/ NextDay \/ UNCHANGED studyVars
  <2>1. UNCHANGED <<state, call, work>>
    BY <1>7 DEF WriteTmp, NextDay, studyVars
  <2> QED
    BY <2>1 DEF NoWakeUpLost, Awake, Busy, Queued
<1>8. CASE Crash
  <2>1. ~Awake'
    <3> SUFFICES ASSUME NEW c \in Calls PROVE call'[c] # "accepted"
      BY DEF Awake
    <3>1. call'[c] = AtCrash(call[c]) /\ call[c] \in CallPhase
      BY <1>0, <1>8 DEF Crash
    <3> QED
      BY <3>1 DEF AtCrash, CallPhase
  <2> QED
    BY <2>1 DEF NoWakeUpLost
<1> QED
  BY <1>1, <1>2, <1>3, <1>4, <1>5, <1>6, <1>7, <1>8 DEF StudyNext, StudyStep

\* While no call overlaps the load of the file, no request of an awake queue waits for a
\* chain that nobody starts, whatever calls, outcomes of research and writes are interleaved:
\* what EverythingStudied rests on.
THEOREM WakeUpsNeverLost == EarlyCalls = {} => (StudySpec => []NoWakeUpLost)
<1> SUFFICES ASSUME EarlyCalls = {} PROVE StudySpec => []NoWakeUpLost
  OBVIOUS
<1>1. StudyInv /\ [StudyNext]_studyVars /\ AdvanceInv => AdvanceInv'
  BY NextStudy, NextAdvances
<1>2. AdvanceInv /\ [StudyNext]_studyVars /\ NoWakeUpLost => NoWakeUpLost'
  BY NextWakes
<1>3. StudyInit => NoWakeUpLost
  BY DEF StudyInit, NoWakeUpLost, Awake
<1> QED
  BY <1>1, <1>2, <1>3, InitAdvance, StudyAlways, PTL DEF StudySpec
=============================================================================
