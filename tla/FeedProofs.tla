----------------------------- MODULE FeedProofs -----------------------------
(***************************************************************************)
(* Proofs about the feed between pets, the seeding at boot and the history *)
(* of a channel, for any pets, sessions, items, seeds and messages, and    *)
(* about the memory of a pet as a whole.                                   *)
(***************************************************************************)
EXTENDS PetMemory, MemoryProofs, FiniteSetTheorems, SequenceTheorems, WellFoundedInduction, TLAPS

-----------------------------------------------------------------------------
(***************************************************************************)
(* The feed: what a pet has passed, it got.                                *)
(***************************************************************************)

Published == [item : Items, publishedAt : FeedTimes]

Polls == [at : {"idle", "importing", "saving"}, todo : Seq(Published), latest : FeedTimes,
          got : SUBSET Items, unseen : SUBSET Items]

FeedTyped ==
  /\ session \in [Sessions -> {"open", "extracting", "saving", "integrated"}]
  /\ extracted \in [Sessions -> SUBSET Items]
  /\ \A s \in Sessions : extracted[s] \subseteq ItemsOf[s]
  /\ saving \in [Sessions -> Published \cup {NoSaving}]
  /\ DOMAIN knows = Pets
  /\ feed \subseteq Published /\ IsFiniteSet(feed)
  /\ poll \in [Pets -> Polls]
  /\ last \in [Pets -> FeedTimes \cup {NoTime}] /\ checkpoint \in [Pets -> FeedTimes \cup {NoTime}]
  /\ feedClock \in FeedTimes /\ petCrashes \in 0..FeedCrashes
  /\ imports \in [Pets -> [Items -> Nat]] /\ lapsed \in [Pets -> [Items -> Nat]]
  /\ forgotten \in [Pets -> [Topics -> Nat]]
  /\ hidden \in [Pets -> SUBSET Items]

\* An item that a session taught is known to its pet, or was.
Taught(i) ==
  i \in Items /\ \A s \in Sessions : i \in ItemsOf[s] => Knew(PetOf[s], TopicOf[i])

OwnKnown ==
  /\ \A s \in Sessions : saving[s] # NoSaving =>
       saving[s].item \in ItemsOf[s] /\ Taught(saving[s].item)
  /\ \A f \in feed : Taught(f.item)
  /\ \A p \in Pets : \A k \in DOMAIN poll[p].todo : Taught(poll[p].todo[k].item)

\* A poll is ahead of the time that it began at, which is ahead of the checkpoint.
Ahead ==
  \A p \in Pets :
    /\ last[p] # NoTime /\ checkpoint[p] # NoTime => checkpoint[p] =< last[p]
    /\ poll[p].at = "importing" =>
         /\ last[p] # NoTime /\ last[p] =< poll[p].latest
         /\ \A k \in DOMAIN poll[p].todo : last[p] < poll[p].todo[k].publishedAt
    /\ poll[p].at = "saving" => last[p] # NoTime

Got(p, f) == Knew(p, TopicOf[f.item]) \/ f.item \in hidden[p]

Due(p, f) == \E k \in DOMAIN poll[p].todo : poll[p].todo[k] = f

BehindTime(t, f) == t # NoTime /\ f.publishedAt =< t

\* What a pet has passed, in memory or in its file, it got; what its poll is about to
\* pass it got, will get, or cannot see.
PassedGot ==
  \A p \in Pets, f \in feed :
    /\ BehindTime(last[p], f) \/ BehindTime(checkpoint[p], f) => Got(p, f)
    /\ poll[p].at = "importing" /\ WillPass(p, f.publishedAt) =>
         Got(p, f) \/ f.item \in poll[p].unseen \/ Due(p, f)

\* No time is in the future.
Past ==
  /\ \A f \in feed : f.publishedAt =< feedClock
  /\ \A s \in Sessions : saving[s].publishedAt =< feedClock
  /\ \A p \in Pets :
       /\ last[p] # NoTime => last[p] =< feedClock
       /\ checkpoint[p] # NoTime => checkpoint[p] =< feedClock
       /\ poll[p].latest =< feedClock
       /\ \A k \in DOMAIN poll[p].todo : poll[p].todo[k].publishedAt =< feedClock

FeedInv == FeedTyped /\ Past /\ OwnKnown /\ Ahead /\ PassedGot

\* What was known stays known, or was forgotten.
KnewStays == \A p \in Pets, topic \in Topics : Knew(p, topic) => Knew(p, topic)'

-----------------------------------------------------------------------------

\* Times of the feed are naturals, the missing checkpoint is none.
LEMMA TimesAreNat == FeedTimes \subseteq Nat /\ NoTime \notin FeedTimes /\ 0 \in FeedTimes
  BY FeedAssumption DEF FeedTimes

\* A listing of a finite set has every element of the set, and no other.
LEMMA ListsAll ==
  ASSUME NEW S, IsFiniteSet(S), NEW l \in SetToSeqs(S)
  PROVE  /\ l \in Seq(S) /\ \A j, k \in DOMAIN l : j # k => l[j] # l[k]
         /\ \A x \in S : \E k \in DOMAIN l : l[k] = x
<1> DEFINE n == Cardinality(S)
<1>1. n \in Nat
  BY FS_CardinalityType
<1>2. l \in [1..n -> S] /\ \A j, k \in 1..n : j # k => l[j] # l[k]
  BY DEF SetToSeqs
<1>3. l \in Injection(1..n, S)
  BY <1>2 DEF Injection, IsInjective
<1>4. IsFiniteSet(1..n) /\ Cardinality(1..n) = n
  BY <1>1, FS_Interval
<1>5. l \in Surjection(1..n, S)
  BY <1>3, <1>4, FS_Injection
<1> QED
  BY <1>1, <1>2, <1>5 DEF Surjection

\* The tail of the items left has one less, each one place nearer.
LEMMA TailFacts ==
  ASSUME NEW S, NEW l \in Seq(S), l # <<>>
  PROVE  /\ 1 \in DOMAIN l /\ Tail(l) \in Seq(S)
         /\ \A k \in DOMAIN Tail(l) : k + 1 \in DOMAIN l /\ Tail(l)[k] = l[k + 1]
         /\ \A k \in DOMAIN l : k # 1 => k - 1 \in DOMAIN Tail(l) /\ l[k] = Tail(l)[k - 1]
  OBVIOUS

\* With an empty feed, all of it holds.
LEMMA FeedInvInit == FeedInit => FeedInv
<1> SUFFICES ASSUME FeedInit PROVE FeedInv
  OBVIOUS
<1> USE FeedAssumption, TimesAreNat DEF FeedInit
<1>1. FeedTyped
  <2>1. NoPoll \in Polls
    BY DEF NoPoll, Polls
  <2>2. IsFiniteSet(feed)
    BY FS_EmptySet
  <2> QED
    BY <2>1, <2>2 DEF FeedTyped, FeedTimes
<1>2. Past /\ OwnKnown /\ Ahead /\ PassedGot
  BY DEF Past, OwnKnown, Ahead, PassedGot, NoPoll, NoSaving, BehindTime
<1> QED
  BY <1>1, <1>2 DEF FeedInv

\* The steps that learn nothing and go nowhere: a session or a poll may end or break
\* off, an entry may be removed, a position may be saved or lost.
LEMMA NothingGained ==
  ASSUME FeedInv, FeedTyped', KnewStays, UNCHANGED hidden, feed' \subseteq feed,
         feedClock =< feedClock',
         \A s \in Sessions : saving'[s] = saving[s] \/ saving'[s] = NoSaving,
         \A p \in Pets :
           /\ poll'[p] = poll[p] \/ poll'[p] = NoPoll
           /\ last'[p] = last[p] \/ (last'[p] = NoTime /\ poll'[p] = NoPoll)
           /\ checkpoint'[p] = checkpoint[p] \/ checkpoint'[p] = NoTime
                \/ (checkpoint'[p] = last[p] /\ poll'[p] = NoPoll)
  PROVE  FeedInv'
<1> USE DEF FeedInv
<1>0. /\ NoPoll.at = "idle" /\ NoPoll.todo = <<>> /\ DOMAIN NoPoll.todo = {}
      /\ \A p \in Pets : last[p] \in Nat \cup {NoTime} /\ checkpoint[p] \in Nat \cup {NoTime}
      /\ NoTime \notin Nat
  BY FeedAssumption DEF NoPoll, FeedTyped, FeedTimes
<1>t. ASSUME NEW i \in Items PROVE Taught(i) => Taught(i)'
  BY FeedAssumption DEF Taught, KnewStays, Topics
<1>1. OwnKnown'
  BY <1>0, <1>t DEF OwnKnown, Taught
<1>p. Past'
  <2>1. feedClock \in Nat /\ feedClock' \in Nat
    BY <1>0 DEF FeedTyped, FeedTimes
  <2>2. ASSUME NEW f \in feed' PROVE f.publishedAt =< feedClock'
    <3>1. f \in feed /\ f.publishedAt \in Nat
      BY DEF FeedTyped, Published, FeedTimes
    <3> QED
      BY <2>1, <3>1 DEF Past
  <2>3. ASSUME NEW s \in Sessions PROVE saving'[s].publishedAt =< feedClock'
    <3>1. saving[s].publishedAt \in Nat /\ NoSaving.publishedAt = 0
      BY DEF FeedTyped, Published, FeedTimes, NoSaving
    <3> QED
      BY <2>1, <3>1 DEF Past
  <2>4. ASSUME NEW p \in Pets
        PROVE  /\ last'[p] # NoTime => last'[p] =< feedClock'
               /\ checkpoint'[p] # NoTime => checkpoint'[p] =< feedClock'
               /\ poll'[p].latest =< feedClock'
               /\ \A k \in DOMAIN poll'[p].todo : poll'[p].todo[k].publishedAt =< feedClock'
    <3>1. NoPoll.latest = 0 /\ poll[p].latest \in Nat
          /\ \A k \in DOMAIN poll[p].todo : poll[p].todo[k].publishedAt \in Nat
      <4>1. /\ poll[p].todo \in Seq(Published) /\ poll[p].latest \in FeedTimes
            /\ FeedTimes \subseteq Nat
        BY TimesAreNat DEF FeedTyped, Polls
      <4>2. ASSUME NEW k \in DOMAIN poll[p].todo PROVE poll[p].todo[k] \in Published
        BY <4>1
      <4>3. NoPoll.latest = 0
        BY DEF NoPoll
      <4> QED
        BY <4>1, <4>2, <4>3 DEF Published
    <3>2. poll'[p].latest =< feedClock'
          /\ \A k \in DOMAIN poll'[p].todo : poll'[p].todo[k].publishedAt =< feedClock'
      BY <1>0, <2>1, <3>1 DEF Past
    <3> QED
      BY <1>0, <2>1, <3>2 DEF Past
  <2> QED
    BY <2>2, <2>3, <2>4 DEF Past
<1>2. Ahead'
  <2> SUFFICES ASSUME NEW p \in Pets
               PROVE  /\ last'[p] # NoTime /\ checkpoint'[p] # NoTime => checkpoint'[p] =< last'[p]
                      /\ poll'[p].at = "importing" =>
                           /\ last'[p] # NoTime /\ last'[p] =< poll'[p].latest
                           /\ \A k \in DOMAIN poll'[p].todo : last'[p] < poll'[p].todo[k].publishedAt
                      /\ poll'[p].at = "saving" => last'[p] # NoTime
    BY DEF Ahead
  <2>1. CASE poll'[p] = NoPoll
    BY <2>1, <1>0 DEF Ahead
  <2>2. CASE poll'[p] = poll[p]
    BY <2>2, <1>0 DEF Ahead
  <2> QED
    BY <2>1, <2>2
<1>3. PassedGot'
  <2> SUFFICES ASSUME NEW p \in Pets, NEW f \in feed'
               PROVE  /\ BehindTime(last'[p], f) \/ BehindTime(checkpoint'[p], f) => Got(p, f)
                      /\ poll'[p].at = "importing" /\ WillPass(p, f.publishedAt)' =>
                           Got(p, f) \/ f.item \in poll'[p].unseen \/ Due(p, f)'
    <3>1. ASSUME NEW p \in Pets, NEW f \in feed' PROVE Got(p, f) => Got(p, f)'
      <4>1. f.item \in Items
        BY DEF FeedTyped, Published
      <4> QED
        BY <4>1 DEF Got, KnewStays, Topics
    <3> QED
      BY <3>1 DEF PassedGot, BehindTime
  <2>1. BehindTime(last'[p], f) \/ BehindTime(checkpoint'[p], f) => Got(p, f)
    BY DEF PassedGot, BehindTime
  <2>2. CASE poll'[p] = NoPoll
    BY <2>1, <2>2, <1>0
  <2>3. CASE poll'[p] = poll[p]
    BY <2>1, <2>3 DEF PassedGot, Due, WillPass
  <2> QED
    BY <2>2, <2>3
<1> QED
  BY <1>1, <1>p, <1>2, <1>3

\* A session that ends, or that only extracts, teaches nobody else anything.
LEMMA SessionSteps ==
  ASSUME FeedInv, NEW s \in Sessions,
         Extracts(s) \/ Extracted(s) \/ PublishFails(s) \/ Integrated(s)
  PROVE  FeedInv'
<1> USE FeedAssumption DEF FeedInv, FeedTyped, FeedTimes, pollVars, KnewStays, Knew
<1>1. CASE Extracts(s)
  BY <1>1, NothingGained DEF Extracts
<1>2. CASE Extracted(s)
  BY <1>2, NothingGained DEF Extracted
<1>3. CASE PublishFails(s)
  BY <1>3, NothingGained DEF PublishFails
<1>4. CASE Integrated(s)
  BY <1>4, NothingGained DEF Integrated
<1> QED
  BY <1>1, <1>2, <1>3, <1>4

\* A session stores what it learned before it publishes it.
LEMMA StoresStep ==
  ASSUME FeedInv, NEW s \in Sessions, NEW i \in Items, Stores(s, i)
  PROVE  FeedInv'
<1> USE FeedAssumption DEF FeedInv
<1>0. PetOf[s] \in Pets /\ i \in ItemsOf[s] /\ DOMAIN knows = Pets
  BY DEF Stores, FeedTyped
<1>1. FeedTyped'
  <2>1. extracted' = [extracted EXCEPT ![s] = @ \ {i}]
        /\ UNCHANGED <<session, feed, feedClock, petCrashes, forgotten, hidden, poll, last,
                       checkpoint, imports, lapsed>>
    BY DEF Stores, pollVars
  <2>2. DOMAIN knows' = Pets
    BY <1>0 DEF Stores, Remembers
  <2>3. saving' \in [Sessions -> Published \cup {NoSaving}]
    <3>1. [item |-> i, publishedAt |-> feedClock] \in Published
      BY DEF FeedTyped, Published
    <3> QED
      BY <3>1, <1>0 DEF Stores, FeedTyped
  <2>4. extracted' \in [Sessions -> SUBSET Items]
        /\ \A s2 \in Sessions : extracted'[s2] \subseteq ItemsOf[s2]
    BY <2>1 DEF FeedTyped
  <2> QED
    BY <2>1, <2>2, <2>3, <2>4 DEF FeedTyped
<1>2. UNCHANGED <<feed, poll, last, checkpoint, hidden, forgotten, feedClock>>
      /\ feedClock \in Nat
  BY DEF Stores, pollVars, FeedTyped, FeedTimes
<1>3. CASE UNCHANGED <<knows, saving>>
  BY <1>1, <1>2, <1>3, NothingGained DEF KnewStays, Knew
<1>4. CASE /\ Remembers(PetOf[s], TopicOf[i])
           /\ saving' = [saving EXCEPT ![s] = [item |-> i, publishedAt |-> feedClock]]
  <2>1. /\ \A p \in Pets : knows[p] \subseteq knows'[p]
        /\ TopicOf[i] \in knows'[PetOf[s]]
    BY <1>4, <1>0 DEF Remembers
  <2>2. \A p \in Pets : \A topic : Knew(p, topic) => Knew(p, topic)'
    BY <1>2, <2>1 DEF Knew
  <2>a. \A j : Taught(j) => Taught(j)'
    BY <2>2 DEF Taught
  <2>3. Taught(i)'
    <3>1. \A s2 \in Sessions : i \in ItemsOf[s2] => s2 = s
      BY <1>0
    <3> QED
      BY <2>1, <3>1 DEF Taught, Knew
  <2>4. OwnKnown'
    <3>1. ASSUME NEW s2 \in Sessions, saving'[s2] # NoSaving
          PROVE  (saving[s2].item \in ItemsOf[s2] /\ Taught(saving[s2].item))'
      <4>1. CASE s2 = s
        <5>1. saving'[s2].item = i
          BY <1>4, <4>1 DEF FeedTyped
        <5> QED
          BY <1>0, <2>3, <4>1, <5>1
      <4>2. CASE s2 # s
        <5>1. saving'[s2] = saving[s2]
          BY <1>4, <4>2 DEF FeedTyped
        <5> QED
          BY <2>a, <3>1, <5>1 DEF OwnKnown
      <4> QED
        BY <4>1, <4>2
    <3> QED
      BY <3>1, <2>a, <1>2 DEF OwnKnown
  <2>5. Ahead'
    BY <1>2 DEF Ahead
  <2>6. PassedGot'
    BY <1>2, <2>2 DEF PassedGot, BehindTime, Got, Due, WillPass
  <2>7. Past'
    <3>1. \A s2 \in Sessions : \/ saving'[s2] = saving[s2]
                               \/ saving'[s2].publishedAt = feedClock
      BY <1>4 DEF FeedTyped
    <3> QED
      BY <1>2, <3>1 DEF Past
  <2> QED
    BY <1>1, <2>4, <2>5, <2>6, <2>7
<1> QED
  BY <1>3, <1>4 DEF Stores

\* An item that is published behind the time of a poll is hidden from that pet.
LEMMA PublishesStep ==
  ASSUME FeedInv, NEW s \in Sessions, Publishes(s)
  PROVE  FeedInv'
<1> USE FeedAssumption DEF FeedInv
<1> DEFINE new == saving[s]
<1>0. /\ new \in Published /\ feed' = feed \cup {new}
      /\ UNCHANGED <<knows, last, checkpoint, imports, lapsed, forgotten, extracted, session,
                     feedClock, petCrashes>>
      /\ saving' = [saving EXCEPT ![s] = NoSaving]
  BY DEF Publishes, FeedTyped
<1>1. ASSUME NEW p \in Pets
      PROVE  /\ hidden'[p] = hidden[p] \cup IF Passed(p, new.publishedAt) THEN {new.item} ELSE {}
             /\ poll'[p].at = poll[p].at /\ poll'[p].todo = poll[p].todo
             /\ poll'[p].latest = poll[p].latest
             /\ poll'[p].got = poll[p].got
             /\ poll'[p].unseen = poll[p].unseen \cup
                   IF WillPass(p, new.publishedAt) THEN {new.item} ELSE {}
             /\ poll'[p] \in Polls
  <2>1. poll[p] \in Polls /\ hidden[p] \subseteq Items /\ new.item \in Items
    BY <1>0 DEF FeedTyped, Published
  <2>2. poll'[p] = [poll[p] EXCEPT !.unseen = @ \cup
                     IF WillPass(p, new.publishedAt) THEN {new.item} ELSE {}]
    BY DEF Publishes
  <2> QED
    BY <2>1, <2>2 DEF Publishes, Polls
<1>2. FeedTyped'
  <2>1. IsFiniteSet(feed')
    BY <1>0, FS_AddElement DEF FeedTyped
  <2>2. poll' \in [Pets -> Polls]
    BY <1>1 DEF Publishes
  <2>3. hidden' \in [Pets -> SUBSET Items]
    BY <1>0, <1>1 DEF Publishes, FeedTyped, Published
  <2> QED
    BY <1>0, <2>1, <2>2, <2>3 DEF FeedTyped
<1>3. OwnKnown'
  <2>1. Taught(new.item)
    BY DEF Publishes, OwnKnown
  <2>2. \A j : Taught(j) => Taught(j)'
    BY <1>0 DEF Taught, Knew
  <2>3. \A s2 \in Sessions : saving'[s2] # NoSaving => saving'[s2] = saving[s2]
    BY <1>0 DEF FeedTyped
  <2> QED
    BY <1>0, <1>1, <2>1, <2>2, <2>3 DEF OwnKnown
<1>4. Ahead'
  BY <1>0, <1>1 DEF Ahead
<1>5. PassedGot'
  <2> SUFFICES ASSUME NEW p \in Pets, NEW f \in feed'
               PROVE  /\ BehindTime(last[p], f) \/ BehindTime(checkpoint[p], f) => Got(p, f)'
                      /\ poll[p].at = "importing" /\ WillPass(p, f.publishedAt) =>
                           Got(p, f)' \/ f.item \in poll'[p].unseen \/ Due(p, f)
    BY <1>0, <1>1 DEF PassedGot, BehindTime, WillPass, Due
  <2>1. CASE f \in feed
    BY <2>1, <1>0, <1>1 DEF PassedGot, Got, Knew
  <2>2. CASE f = new
    <3>1. ASSUME BehindTime(last[p], f) \/ BehindTime(checkpoint[p], f) PROVE Got(p, f)'
      <4>1. last[p] \in Nat \cup {NoTime} /\ checkpoint[p] \in Nat \cup {NoTime}
            /\ f.publishedAt \in Nat
        BY <2>2, <1>0 DEF FeedTyped, FeedTimes, Published
      <4>2. Passed(p, new.publishedAt)
        BY <3>1, <2>2, <4>1 DEF Passed, Position, BehindTime, Ahead
      <4> QED
        BY <4>2, <1>1, <2>2 DEF Got
    <3>2. ASSUME WillPass(p, f.publishedAt) PROVE f.item \in poll'[p].unseen
      BY <3>2, <1>1, <2>2
    <3> QED
      BY <3>1, <3>2
  <2> QED
    BY <2>1, <2>2, <1>0
<1>6. Past'
  <2>1. \A s2 \in Sessions : saving'[s2] \in {saving[s2], NoSaving} /\ NoSaving.publishedAt = 0
    BY <1>0 DEF FeedTyped, NoSaving
  <2>2. feedClock \in Nat
    BY DEF FeedTyped, FeedTimes
  <2> QED
    BY <1>0, <1>1, <2>1, <2>2 DEF Past
<1> QED
  BY <1>2, <1>3, <1>4, <1>5, <1>6

\* The position of a pet that begins to poll becomes the time it has in memory, in its
\* file, or the present; what is later is listed.
LEMMA PollStartsStep ==
  ASSUME FeedInv, NEW p \in Pets, PollStarts(p)
  PROVE  FeedInv'
<1> USE FeedAssumption DEF FeedInv
<1>0. /\ poll[p].at = "idle"
      /\ UNCHANGED <<session, extracted, saving, knows, feed, checkpoint, feedClock, petCrashes,
                     imports, lapsed, forgotten>>
  BY DEF PollStarts
<1>a. PICK t \in LoadedCheckpoints(p) :
        /\ last' = [last EXCEPT ![p] = t]
        /\ hidden' = [hidden EXCEPT ![p] = @ \cup Overlooked(p, t)]
        /\ \E listing \in {l \in SetToSeqs(After(t)) : Ascending(l)} :
             poll' = [poll EXCEPT ![p] = [at |-> "importing", todo |-> listing, latest |-> t,
                                          got |-> {}, unseen |-> {}]]
  BY DEF PollStarts
<1>b. t \in FeedTimes
  <2>1. last[p] \in FeedTimes \cup {NoTime} /\ checkpoint[p] \in FeedTimes \cup {NoTime}
    BY DEF FeedTyped
  <2> QED
    BY <1>a, <2>1 DEF LoadedCheckpoints, FeedTyped
<1>1. PICK listing \in SetToSeqs(After(t)) :
        poll' = [poll EXCEPT ![p] = [at |-> "importing", todo |-> listing, latest |-> t,
                                     got |-> {}, unseen |-> {}]]
  BY <1>a
<1>2. /\ listing \in Seq(After(t))
      /\ \A x \in After(t) : \E k \in DOMAIN listing : listing[k] = x
  <2>1. IsFiniteSet(After(t))
    BY FS_Subset DEF FeedTyped, After
  <2> QED
    BY <2>1, ListsAll
<1>3. /\ listing \in Seq(Published)
      /\ \A k \in DOMAIN listing : listing[k] \in feed /\ listing[k].publishedAt > t
  <2>1. After(t) \subseteq Published
    BY DEF After, FeedTyped
  <2> QED
    BY <1>2, <2>1 DEF After
<1>4. ASSUME NEW q \in Pets, q # p
      PROVE  poll'[q] = poll[q] /\ last'[q] = last[q] /\ hidden'[q] = hidden[q]
  BY <1>a, <1>1, <1>4 DEF FeedTyped
<1>5. /\ poll'[p] = [at |-> "importing", todo |-> listing, latest |-> t, got |-> {}, unseen |-> {}]
      /\ last'[p] = t
      /\ hidden'[p] = hidden[p] \cup Overlooked(p, t)
  BY <1>a, <1>1 DEF FeedTyped
<1>6. FeedTyped'
  <2>1. poll' \in [Pets -> Polls]
    <3>1. poll'[p] \in Polls
      BY <1>5, <1>3, <1>b DEF Polls
    <3> QED
      BY <3>1, <1>1 DEF FeedTyped
  <2>2. hidden' \in [Pets -> SUBSET Items]
    <3>1. Overlooked(p, t) \subseteq Items
      BY DEF Overlooked, FeedTyped, Published
    <3> QED
      BY <1>a, <3>1 DEF FeedTyped
  <2>3. last' \in [Pets -> FeedTimes \cup {NoTime}]
    BY <1>a, <1>b DEF FeedTyped
  <2> QED
    BY <1>0, <2>1, <2>2, <2>3 DEF FeedTyped
<1>7. OwnKnown'
  <2>1. ASSUME NEW q \in Pets, NEW k \in DOMAIN poll'[q].todo
        PROVE  Taught(poll'[q].todo[k].item)
    <3>1. CASE q = p
      BY <3>1, <1>5, <1>3 DEF OwnKnown
    <3>2. CASE q # p
      BY <3>2, <1>4 DEF OwnKnown
    <3> QED
      BY <3>1, <3>2
  <2>2. \A i : Taught(i) => Taught(i)'
    BY <1>0 DEF Taught, Knew
  <2> QED
    BY <2>1, <2>2, <1>0 DEF OwnKnown
<1>8. Ahead'
  <2>1. last[p] \in Nat \cup {NoTime} /\ checkpoint[p] \in Nat \cup {NoTime} /\ t \in Nat
        /\ feedClock \in Nat /\ NoTime \notin Nat
    BY <1>b DEF FeedTyped, FeedTimes
  <2>2. checkpoint[p] # NoTime => checkpoint[p] =< t
    BY <2>1, <1>a DEF LoadedCheckpoints, Ahead, Past
  <2>3. \A k \in DOMAIN listing : t < listing[k].publishedAt
    BY <1>3
  <2>4. ASSUME NEW q \in Pets
        PROVE  /\ last'[q] # NoTime /\ checkpoint[q] # NoTime => checkpoint[q] =< last'[q]
               /\ poll'[q].at = "importing" =>
                    /\ last'[q] # NoTime /\ last'[q] =< poll'[q].latest
                    /\ \A k \in DOMAIN poll'[q].todo : last'[q] < poll'[q].todo[k].publishedAt
               /\ poll'[q].at = "saving" => last'[q] # NoTime
    <3>1. CASE q = p
      BY <3>1, <2>1, <2>2, <2>3, <1>5
    <3>2. CASE q # p
      BY <3>2, <1>4 DEF Ahead
    <3> QED
      BY <3>1, <3>2
  <2> QED
    BY <2>4, <1>0 DEF Ahead
<1>9. PassedGot'
  <2> SUFFICES ASSUME NEW q \in Pets, NEW f \in feed
               PROVE  /\ BehindTime(last'[q], f) \/ BehindTime(checkpoint[q], f) => Got(q, f)'
                      /\ poll'[q].at = "importing" /\ WillPass(q, f.publishedAt)' =>
                           Got(q, f)' \/ f.item \in poll'[q].unseen \/ Due(q, f)'
    BY <1>0 DEF PassedGot, BehindTime, WillPass, Due
  <2>1. CASE q # p
    BY <2>1, <1>0, <1>4 DEF PassedGot, Got, Knew, Due, WillPass
  <2>2. CASE q = p
    <3>1. /\ f.publishedAt \in Nat /\ t \in Nat /\ last[p] \in Nat \cup {NoTime}
          /\ checkpoint[p] \in Nat \cup {NoTime} /\ NoTime \notin Nat
      BY <1>b DEF FeedTyped, FeedTimes, Published
    <3>2. Got(p, f) => Got(p, f)'
      BY <1>5, <1>0 DEF Got, Knew
    <3>3. f.publishedAt =< t => Got(p, f)'
      <4>1. CASE last[p] # NoTime
        BY <4>1, <1>a, <3>1, <3>2 DEF LoadedCheckpoints, PassedGot, BehindTime
      <4>2. CASE last[p] = NoTime /\ t = checkpoint[p]
        BY <4>2, <3>1, <3>2 DEF PassedGot, BehindTime
      <4>3. CASE last[p] = NoTime /\ t # checkpoint[p]
        <5>1. f.publishedAt =< t => f.item \in Overlooked(p, t)
          BY <4>3 DEF Overlooked
        <5> QED
          BY <1>5, <5>1 DEF Got
      <4> QED
        BY <4>1, <4>2, <4>3
    <3>4. BehindTime(checkpoint[p], f) => Got(p, f)'
      BY <3>2 DEF PassedGot
    <3>5. f.publishedAt > t => Due(p, f)'
      BY <1>2, <1>5 DEF Due, After
    <3> QED
      BY <2>2, <3>1, <3>3, <3>4, <3>5, <1>5 DEF BehindTime
  <2> QED
    BY <2>1, <2>2
<1>10. Past'
  <2>1. feedClock \in Nat /\ t =< feedClock
    BY <1>a DEF LoadedCheckpoints, Past, FeedTyped, FeedTimes
  <2>2. \A k \in DOMAIN listing : listing[k].publishedAt =< feedClock
    BY <1>3 DEF Past
  <2> QED
    BY <1>0, <1>4, <1>5, <2>1, <2>2 DEF Past
<1> QED
  BY <1>6, <1>7, <1>8, <1>9, <1>10

\* The next entry of the listing is imported, or known already, or the pet's own.
LEMMA PollEntryStep ==
  ASSUME FeedInv, NEW p \in Pets, PollEntry(p)
  PROVE  FeedInv'
<1> USE FeedAssumption DEF FeedInv
<1>a. PICK f0 : f0 = NextEntry(p)
  OBVIOUS
<1>b. PICK new : new = IF Wants(p, f0) THEN {f0.item} ELSE {}
  OBVIOUS
<1>0. /\ poll[p] \in Polls /\ poll[p].at = "importing" /\ poll[p].todo \in Seq(Published)
      /\ poll[p].todo # <<>> /\ f0 \in Published /\ f0 = poll[p].todo[1]
      /\ UNCHANGED <<session, extracted, saving, feed, last, checkpoint, feedClock, petCrashes,
                     lapsed, forgotten, hidden>>
  BY <1>a DEF PollEntry, FeedTyped, NextEntry, Polls
<1>c. /\ knows' = [knows EXCEPT ![p] = @ \cup {TopicOf[j] : j \in new}]
      /\ imports' = [imports EXCEPT ![p][f0.item] = @ + Cardinality(new)]
      /\ poll' = [poll EXCEPT ![p] = [poll[p] EXCEPT !.todo = Tail(@), !.got = @ \cup new,
                                                     !.latest = f0.publishedAt]]
  <2> DEFINE items == IF Wants(p, NextEntry(p)) THEN {NextEntry(p).item} ELSE {}
  <2>1. /\ knows' = [knows EXCEPT ![p] = @ \cup {TopicOf[j] : j \in items}]
        /\ imports' = [imports EXCEPT ![p][NextEntry(p).item] = @ + Cardinality(items)]
        /\ poll' = [poll EXCEPT ![p] = [poll[p] EXCEPT !.todo = Tail(@), !.got = @ \cup items,
                                                       !.latest = NextEntry(p).publishedAt]]
    <3>1. knows' = [knows EXCEPT ![p] = @ \cup {TopicOf[j] : j \in items}]
      BY DEF PollEntry
    <3>2. imports' = [imports EXCEPT ![p][NextEntry(p).item] = @ + Cardinality(items)]
      BY DEF PollEntry
    <3>3. poll' = [poll EXCEPT ![p] = [poll[p] EXCEPT !.todo = Tail(@), !.got = @ \cup items,
                                                       !.latest = NextEntry(p).publishedAt]]
      BY DEF PollEntry
    <3> QED
      BY <3>1, <3>2, <3>3
  <2>2. items = new
    BY <1>a, <1>b
  <2> HIDE DEF items
  <2> QED
    BY <1>a, <2>1, <2>2
<1>1. /\ poll'[p].at = "importing" /\ poll'[p].todo = Tail(poll[p].todo)
      /\ poll'[p].latest = f0.publishedAt /\ poll'[p].unseen = poll[p].unseen
      /\ poll'[p] \in Polls
      /\ \A q \in Pets \ {p} : poll'[q] = poll[q]
      /\ poll' \in [Pets -> Polls]
  <2>1. Tail(poll[p].todo) \in Seq(Published)
    BY <1>0, TailFacts
  <2>2. PICK next : next = [poll[p] EXCEPT !.todo = Tail(@), !.got = @ \cup new,
                                           !.latest = f0.publishedAt]
    OBVIOUS
  <2>3. /\ next \in Polls /\ next.at = "importing" /\ next.todo = Tail(poll[p].todo)
        /\ next.latest = f0.publishedAt /\ next.unseen = poll[p].unseen
    BY <1>0, <1>b, <2>1, <2>2 DEF Polls, Published
  <2> QED
    BY <1>c, <2>2, <2>3 DEF FeedTyped
<1>2. /\ Tail(poll[p].todo) \in Seq(Published)
      /\ \A k \in DOMAIN Tail(poll[p].todo) :
           k + 1 \in DOMAIN poll[p].todo /\ Tail(poll[p].todo)[k] = poll[p].todo[k + 1]
      /\ \A k \in DOMAIN poll[p].todo : k # 1 =>
           k - 1 \in DOMAIN Tail(poll[p].todo) /\ poll[p].todo[k] = Tail(poll[p].todo)[k - 1]
      /\ 1 \in DOMAIN poll[p].todo
  BY <1>0, TailFacts
<1>3. /\ DOMAIN knows' = Pets /\ \A q \in Pets : \A topic : Knew(q, topic) => Knew(q, topic)'
      /\ Knew(p, TopicOf[f0.item])'
  <2>1. DOMAIN knows' = Pets /\ \A q \in Pets : knows[q] \subseteq knows'[q]
    BY <1>c DEF FeedTyped
  <2>2. \A q \in Pets : \A topic : Knew(q, topic) => Knew(q, topic)'
    BY <1>0, <2>1 DEF Knew
  <2>3. CASE Wants(p, f0)
    BY <1>b, <1>c, <2>1, <2>2, <2>3 DEF Knew, FeedTyped
  <2>4. CASE IsOwn(p, f0.item)
    <3>1. Knew(p, TopicOf[f0.item])
      BY <1>0, <1>2, <2>4 DEF OwnKnown, Taught, IsOwn
    <3> QED
      BY <2>1, <2>2, <3>1
  <2>5. CASE TopicOf[f0.item] \in knows[p]
    BY <2>1, <2>2, <2>5 DEF Knew
  <2> QED
    BY <2>3, <2>4, <2>5 DEF Wants
<1>4. imports' \in [Pets -> [Items -> Nat]]
  <2>1. Cardinality(new) \in {0, 1}
    BY <1>b, FS_EmptySet, FS_Singleton
  <2> QED
    BY <1>0, <1>c, <2>1 DEF FeedTyped, Published
<1>5. FeedTyped'
  BY <1>0, <1>1, <1>3, <1>4 DEF FeedTyped
<1>6. OwnKnown'
  <2>1. \A j : Taught(j) => Taught(j)'
    BY <1>3 DEF Taught
  <2>2. ASSUME NEW q \in Pets, NEW k \in DOMAIN poll'[q].todo
        PROVE  Taught(poll'[q].todo[k].item)
    <3>1. CASE q = p
      BY <3>1, <1>1, <1>2 DEF OwnKnown
    <3>2. CASE q # p
      BY <3>2, <1>1 DEF OwnKnown
    <3> QED
      BY <3>1, <3>2
  <2> QED
    BY <2>1, <2>2, <1>0 DEF OwnKnown
<1>7. Ahead'
  <2>1. last[p] # NoTime /\ last[p] \in Nat /\ f0.publishedAt \in Nat
    BY <1>0 DEF Ahead, FeedTyped, FeedTimes, Published
  <2>2. last[p] =< f0.publishedAt
    BY <2>1, <1>0, <1>2 DEF Ahead
  <2>3. \A k \in DOMAIN poll'[p].todo : last[p] < poll'[p].todo[k].publishedAt
    BY <1>0, <1>1, <1>2 DEF Ahead
  <2>4. ASSUME NEW q \in Pets
        PROVE  /\ poll'[q].at = "importing" =>
                    /\ last[q] # NoTime /\ last[q] =< poll'[q].latest
                    /\ \A k \in DOMAIN poll'[q].todo : last[q] < poll'[q].todo[k].publishedAt
               /\ poll'[q].at = "saving" => last[q] # NoTime
    <3>1. CASE q = p
      BY <3>1, <2>1, <2>2, <2>3, <1>1
    <3>2. CASE q # p
      BY <3>2, <1>1 DEF Ahead
    <3> QED
      BY <3>1, <3>2
  <2> QED
    BY <2>4, <1>0 DEF Ahead
<1>8. PassedGot'
  <2> SUFFICES ASSUME NEW q \in Pets, NEW f \in feed
               PROVE  /\ BehindTime(last[q], f) \/ BehindTime(checkpoint[q], f) => Got(q, f)'
                      /\ poll'[q].at = "importing" /\ WillPass(q, f.publishedAt)' =>
                           Got(q, f)' \/ f.item \in poll'[q].unseen \/ Due(q, f)'
    BY <1>0 DEF PassedGot, BehindTime, WillPass, Due
  <2>1. Got(q, f) => Got(q, f)'
    BY <1>0, <1>3 DEF Got
  <2>2. BehindTime(last[q], f) \/ BehindTime(checkpoint[q], f) => Got(q, f)'
    BY <2>1 DEF PassedGot
  <2>3. CASE q # p
    BY <2>1, <2>2, <2>3, <1>1 DEF PassedGot, Due, WillPass
  <2>4. CASE q = p
    <3>1. WillPass(p, f.publishedAt)' => WillPass(p, f.publishedAt)
      BY <1>0, <1>1, <1>2 DEF WillPass
    <3>2. Due(p, f) => Due(p, f)' \/ f = f0
      <4>1. ASSUME NEW k \in DOMAIN poll[p].todo, poll[p].todo[k] = f, f # f0 PROVE Due(p, f)'
        <5>1. k # 1 /\ k - 1 \in DOMAIN poll'[p].todo /\ poll'[p].todo[k - 1] = f
          BY <4>1, <1>0, <1>1, <1>2
        <5> QED
          BY <5>1 DEF Due
      <4> QED
        BY <4>1 DEF Due
    <3>3. Got(p, f0)'
      BY <1>3 DEF Got
    <3> QED
      BY <2>1, <2>2, <2>4, <3>1, <3>2, <3>3, <1>0, <1>1 DEF PassedGot
  <2> QED
    BY <2>3, <2>4
<1>9. Past'
  <2>1. f0.publishedAt =< feedClock
    BY <1>0, <1>2 DEF Past
  <2>2. \A k \in DOMAIN poll'[p].todo : poll'[p].todo[k].publishedAt =< feedClock
    BY <1>1, <1>2 DEF Past
  <2> QED
    BY <1>0, <1>1, <2>1, <2>2 DEF Past
<1> QED
  BY <1>4, <1>5, <1>6, <1>7, <1>8, <1>9

\* The poll is over: what it passed becomes the position.
LEMMA PollSavesStep ==
  ASSUME FeedInv, NEW p \in Pets, PollSaves(p)
  PROVE  FeedInv'
<1> USE FeedAssumption DEF FeedInv
<1>0. /\ poll[p] \in Polls /\ poll[p].at = "importing" /\ poll[p].todo = <<>>
      /\ poll[p].latest \in FeedTimes /\ poll[p].unseen \subseteq Items
      /\ last' = [last EXCEPT ![p] = poll[p].latest]
      /\ UNCHANGED <<session, extracted, saving, knows, feed, checkpoint, feedClock, petCrashes,
                     imports, lapsed, forgotten>>
  BY DEF PollSaves, FeedTyped, Polls, LatestTime
<1>1. /\ poll'[p].at = "saving" /\ poll'[p].todo = poll[p].todo
      /\ hidden'[p] = hidden[p] \cup poll[p].unseen /\ last'[p] = poll[p].latest
      /\ \A q \in Pets \ {p} : poll'[q] = poll[q] /\ hidden'[q] = hidden[q] /\ last'[q] = last[q]
  BY <1>0 DEF PollSaves, FeedTyped, Polls
<1>2. FeedTyped'
  <2>1. poll' \in [Pets -> Polls]
    <3>1. [poll[p] EXCEPT !.at = "saving"] \in Polls
      BY <1>0 DEF Polls
    <3>2. poll' = [poll EXCEPT ![p] = [poll[p] EXCEPT !.at = "saving"]]
      BY DEF PollSaves, FeedTyped
    <3> QED
      BY <3>1, <3>2 DEF FeedTyped
  <2>2. hidden' \in [Pets -> SUBSET Items] /\ last' \in [Pets -> FeedTimes \cup {NoTime}]
    BY <1>0 DEF PollSaves, FeedTyped
  <2> QED
    BY <1>0, <2>1, <2>2 DEF FeedTyped
<1>3. OwnKnown'
  <2>1. \A j : Taught(j) => Taught(j)'
    BY <1>0 DEF Taught, Knew
  <2> QED
    BY <1>0, <1>1, <2>1 DEF OwnKnown
<1>4. Ahead'
  <2>1. /\ last[p] \in Nat /\ poll[p].latest \in Nat /\ last[p] =< poll[p].latest
        /\ checkpoint[p] \in Nat \cup {NoTime} /\ NoTime \notin Nat
    BY <1>0 DEF Ahead, FeedTyped, FeedTimes
  <2>2. last'[p] # NoTime /\ (checkpoint[p] # NoTime => checkpoint[p] =< last'[p])
    BY <2>1, <1>1 DEF Ahead
  <2> QED
    BY <2>2, <1>0, <1>1 DEF Ahead
<1>5. PassedGot'
  <2> SUFFICES ASSUME NEW q \in Pets, NEW f \in feed
               PROVE  /\ BehindTime(last'[q], f) \/ BehindTime(checkpoint[q], f) => Got(q, f)'
                      /\ poll'[q].at = "importing" /\ WillPass(q, f.publishedAt)' =>
                           Got(q, f)' \/ f.item \in poll'[q].unseen \/ Due(q, f)'
    BY <1>0 DEF PassedGot, BehindTime, WillPass, Due
  <2>1. CASE q # p
    BY <2>1, <1>0, <1>1 DEF PassedGot, Got, Knew, Due, WillPass
  <2>2. CASE q = p
    <3>1. Got(p, f) \/ f.item \in poll[p].unseen => Got(p, f)'
      BY <1>0, <1>1 DEF Got, Knew
    <3>2. ~Due(p, f)
      BY <1>0 DEF Due
    <3>3. BehindTime(last'[p], f) => WillPass(p, f.publishedAt)
      BY <1>0, <1>1 DEF BehindTime, WillPass
    <3> QED
      BY <2>2, <3>1, <3>2, <3>3, <1>0, <1>1 DEF PassedGot
  <2> QED
    BY <2>1, <2>2
<1>6. Past'
  <2>1. poll'[p].latest = poll[p].latest /\ DOMAIN poll'[p].todo = {}
    BY <1>0, <1>1 DEF PollSaves, FeedTyped, Polls
  <2> QED
    BY <1>0, <1>1, <2>1 DEF Past
<1> QED
  BY <1>2, <1>3, <1>4, <1>5, <1>6

\* A poll that fails or ends, a crash, a topic forgotten, a clean-up and the clock gain
\* nothing.
LEMMA OtherFeedSteps ==
  ASSUME FeedInv,
         \/ \E p \in Pets : PollFails(p) \/ PollEnds(p) \/ PollSaveFails(p) \/ PetCrash(p)
         \/ \E p \in Pets, topic \in Topics : Forgets(p, topic)
         \/ \E f \in feed : Cleans(f)
         \/ FeedTimePasses
  PROVE  FeedInv'
<1> USE FeedAssumption DEF FeedInv
<1>0. NoPoll \in Polls /\ feedClock \in Nat
  BY DEF NoPoll, Polls, FeedTyped, FeedTimes
<1>l. ASSUME NEW p \in Pets, Lapses(p) PROVE lapsed' \in [Pets -> [Items -> Nat]]
  <2>1. lapsed[p] \in [Items -> Nat]
    BY DEF FeedTyped
  <2>2. [i \in Items |-> IF i \in poll[p].got THEN lapsed[p][i] + 1 ELSE lapsed[p][i]]
          \in [Items -> Nat]
    BY <2>1
  <2> QED
    BY <1>l, <2>2 DEF Lapses, FeedTyped
<1>u. ASSUME NEW p \in Pets, (checkpoint' \in Unwritten(p)) \/ checkpoint' = checkpoint
      PROVE  /\ checkpoint' \in [Pets -> FeedTimes \cup {NoTime}]
             /\ \A q \in Pets : checkpoint'[q] \in {checkpoint[q], NoTime}
  BY <1>u DEF Unwritten, FeedTyped
<1>1. ASSUME NEW p \in Pets, PollFails(p) PROVE FeedInv'
  <2>1. FeedTyped'
    BY <1>0, <1>1, <1>l DEF PollFails, FeedTyped
  <2> QED
    BY <1>0, <1>1, <2>1, NothingGained DEF PollFails, FeedTyped, KnewStays, Knew
<1>2. ASSUME NEW p \in Pets, PollEnds(p) PROVE FeedInv'
  <2>1. FeedTyped'
    BY <1>0, <1>2 DEF PollEnds, FeedTyped
  <2> QED
    BY <1>0, <1>2, <2>1, NothingGained DEF PollEnds, FeedTyped, KnewStays, Knew
<1>3. ASSUME NEW p \in Pets, PollSaveFails(p) PROVE FeedInv'
  <2>1. FeedTyped'
    BY <1>0, <1>3, <1>l, <1>u DEF PollSaveFails, FeedTyped
  <2> QED
    BY <1>0, <1>3, <1>u, <2>1, NothingGained DEF PollSaveFails, FeedTyped, KnewStays, Knew
<1>4. ASSUME NEW p \in Pets, PetCrash(p) PROVE FeedInv'
  <2>0. (checkpoint' \in Unwritten(p)) \/ checkpoint' = checkpoint
    BY <1>4 DEF PetCrash
  <2>1. FeedTyped'
    <3>2. saving' \in [Sessions -> Published \cup {NoSaving}]
      BY <1>4 DEF PetCrash, FeedTyped
    <3>3. /\ session' \in [Sessions -> {"open", "extracting", "saving", "integrated"}]
          /\ extracted' \in [Sessions -> SUBSET Items]
          /\ \A s \in Sessions : extracted'[s] \subseteq ItemsOf[s]
      BY <1>4 DEF PetCrash, FeedTyped
    <3>4. poll' \in [Pets -> Polls] /\ last' \in [Pets -> FeedTimes \cup {NoTime}]
      BY <1>0, <1>4 DEF PetCrash, FeedTyped
    <3>5. petCrashes' \in 0..FeedCrashes
          /\ UNCHANGED <<knows, feed, feedClock, imports, forgotten, hidden>>
      BY <1>4 DEF PetCrash, FeedTyped
    <3>6. lapsed' \in [Pets -> [Items -> Nat]]
      BY <1>4, <1>l DEF PetCrash
    <3> QED
      BY <1>u, <2>0, <3>2, <3>3, <3>4, <3>5, <3>6 DEF FeedTyped
  <2>2. /\ UNCHANGED <<knows, feed, feedClock, forgotten, hidden>>
        /\ \A s \in Sessions : saving'[s] \in {saving[s], NoSaving}
        /\ \A q \in Pets : (poll'[q] = poll[q] /\ last'[q] = last[q])
                            \/ (poll'[q] = NoPoll /\ last'[q] = NoTime)
    <3>1. UNCHANGED <<knows, feed, feedClock, forgotten, hidden>>
      BY <1>4 DEF PetCrash
    <3>2. \A s \in Sessions : saving'[s] \in {saving[s], NoSaving}
      BY <1>4 DEF PetCrash
    <3>3. poll' = [poll EXCEPT ![p] = NoPoll] /\ last' = [last EXCEPT ![p] = NoTime]
      BY <1>4 DEF PetCrash
    <3> QED
      BY <3>1, <3>2, <3>3 DEF FeedTyped
  <2>3. KnewStays
    BY <2>2 DEF KnewStays, Knew
  <2> QED
    BY <1>0, <1>u, <2>0, <2>1, <2>2, <2>3, NothingGained
<1>5. ASSUME NEW f \in feed, Cleans(f) PROVE FeedInv'
  <2>1. FeedTyped'
    BY <1>5, FS_RemoveElement DEF Cleans, FeedTyped, pollVars
  <2> QED
    BY <1>0, <1>5, <2>1, NothingGained DEF Cleans, FeedTyped, pollVars, KnewStays, Knew
<1>6. CASE FeedTimePasses
  <2>1. FeedTyped'
    BY <1>6 DEF FeedTimePasses, FeedTyped, FeedTimes, pollVars
  <2> QED
    BY <1>0, <1>6, <2>1, NothingGained DEF FeedTimePasses, pollVars, KnewStays, Knew
<1>7. ASSUME NEW p \in Pets, NEW topic \in Topics, Forgets(p, topic) PROVE FeedInv'
  <2>1. FeedTyped'
    BY <1>7 DEF Forgets, FeedTyped, pollVars
  <2>2. KnewStays
    BY <1>7 DEF Forgets, FeedTyped, KnewStays, Knew
  <2> QED
    BY <1>0, <1>7, <2>1, <2>2, NothingGained DEF Forgets, pollVars
<1> QED
  BY <1>1, <1>2, <1>3, <1>4, <1>5, <1>6, <1>7

\* The invariant holds in every reachable state.
LEMMA FeedInvariant == FeedSpec => []FeedInv
<1>1. FeedInv /\ [FeedNext]_feedVars => FeedInv'
  <2> SUFFICES ASSUME FeedInv, [FeedNext]_feedVars PROVE FeedInv'
    OBVIOUS
  <2>1. CASE UNCHANGED feedVars
    <3>1. FeedTyped'
      BY <2>1 DEF feedVars, pollVars, FeedInv, FeedTyped
    <3> QED
      BY <2>1, <3>1, NothingGained DEF feedVars, pollVars, FeedInv, FeedTyped, FeedTimes, KnewStays, Knew
  <2>2. CASE FeedNext
    BY <2>2, FeedAssumption, SessionSteps, StoresStep, PublishesStep, PollStartsStep,
       PollEntryStep, PollSavesStep, OtherFeedSteps DEF FeedNext
  <2> QED
    BY <2>1, <2>2
<1> QED
  BY <1>1, FeedInvInit, PTL DEF FeedSpec

\* The types of the feed, of the sessions and of the polls.
THEOREM FeedTypeCorrect == FeedSpec => []FeedTypeOK
<1>1. FeedInv => FeedTypeOK
  <2> SUFFICES ASSUME FeedInv PROVE FeedTypeOK
    OBVIOUS
  <2>1. ASSUME NEW p \in Pets
        PROVE  /\ poll[p].at \in {"idle", "importing", "saving"} /\ poll[p].latest \in FeedTimes
               /\ poll[p].got \subseteq Items
               /\ \A k \in DOMAIN poll[p].todo : poll[p].todo[k] \in Published
    <3>1. poll[p] \in Polls
      BY DEF FeedInv, FeedTyped
    <3> QED
      BY <3>1 DEF Polls
  <2> QED
    BY <2>1 DEF FeedInv, FeedTyped, FeedTypeOK, Published
<1> QED
  BY <1>1, FeedInvariant, PTL

\* What the checkpoint of a pet has passed it knows, or could not see: it was published,
\* or became visible, behind the back of a poll (subscriber.ts:4).
THEOREM NothingSkippedAlways == FeedSpec => []NothingSkipped
<1>1. FeedInv => NothingSkipped
  BY DEF FeedInv, PassedGot, NothingSkipped, BehindTime, Got
<1> QED
  BY <1>1, FeedInvariant, PTL

-----------------------------------------------------------------------------
(***************************************************************************)
(* The feed: what a pet got, it does not get again.                        *)
(***************************************************************************)

\* The item may still be published, by the session that it is of.
Unpublished(i) ==
  \E s \in Sessions :
    /\ i \in ItemsOf[s]
    /\ \/ session[s] \in {"open", "extracting"}
       \/ i \in extracted[s]
       \/ saving[s] # NoSaving /\ saving[s].item = i

\* A session saves what it extracted, each item once.
SavesOnce ==
  \A s \in Sessions :
    /\ session[s] \in {"open", "extracting"} => extracted[s] = {} /\ saving[s] = NoSaving
    /\ saving[s] # NoSaving => saving[s].item \notin extracted[s]

PublishedOnce ==
  /\ \A f \in feed : ~Unpublished(f.item)
  /\ \A f, g \in feed : f.item = g.item => f = g

\* p imported the item in a poll that is still going on or that saved its position.
Settled(p, i) == imports[p][i] > lapsed[p][i]

\* What a poll has left is in order, each item once, and none is settled.
Listed(p) ==
  \A k \in DOMAIN poll[p].todo :
    /\ ~Unpublished(poll[p].todo[k].item) /\ ~Settled(p, poll[p].todo[k].item)
    /\ \A f \in feed : f.item = poll[p].todo[k].item => f = poll[p].todo[k]
    /\ poll[p].latest =< poll[p].todo[k].publishedAt
    /\ \A j \in DOMAIN poll[p].todo : j < k =>
         /\ poll[p].todo[j].publishedAt =< poll[p].todo[k].publishedAt
         /\ poll[p].todo[j].item # poll[p].todo[k].item

Counted(p) ==
  \A i \in Items :
    /\ lapsed[p][i] =< imports[p][i] /\ imports[p][i] =< 1 + lapsed[p][i]
    /\ imports[p][i] =< 1 + forgotten[p][TopicOf[i]]
    /\ TopicOf[i] \notin knows[p] => imports[p][i] =< forgotten[p][TopicOf[i]]
    /\ imports[p][i] > 0 => ~IsOwn(p, i) /\ ~Unpublished(i)

\* What is settled is behind every position of p, or is behind the poll that got it.
Behind(p) ==
  /\ poll[p].at = "idle" => poll[p].got = {}
  /\ \A i \in poll[p].got : Settled(p, i)
  /\ \A f \in feed : Settled(p, f.item) =>
       IF f.item \in poll[p].got
       THEN /\ poll[p].at = "importing" => f.publishedAt =< poll[p].latest
            /\ poll[p].at = "saving" => f.publishedAt =< last[p]
       ELSE /\ last[p] # NoTime => f.publishedAt =< last[p]
            /\ checkpoint[p] # NoTime => f.publishedAt =< checkpoint[p]

OnceInv == SavesOnce /\ PublishedOnce /\ \A p \in Pets : Listed(p) /\ Counted(p) /\ Behind(p)

\* Nothing that was published, or lost, can be published again.
Dwindles == \A i : Unpublished(i)' => Unpublished(i)

\* Nothing is imported yet.
LEMMA OnceInvInit == FeedInit => OnceInv
<1> SUFFICES ASSUME FeedInit PROVE OnceInv
  OBVIOUS
<1> USE FeedAssumption DEF FeedInit
<1>1. SavesOnce /\ PublishedOnce
  BY DEF SavesOnce, PublishedOnce
<1>2. ASSUME NEW p \in Pets PROVE Listed(p) /\ Counted(p) /\ Behind(p)
  <2>1. \A i \in Items : imports[p][i] = 0 /\ lapsed[p][i] = 0 /\ forgotten[p][TopicOf[i]] = 0
    BY DEF Topics
  <2>2. DOMAIN poll[p].todo = {} /\ poll[p].got = {} /\ feed = {}
    BY DEF NoPoll
  <2> HIDE DEF FeedInit
  <2>3. Counted(p)
    BY <2>1 DEF Counted
  <2>4. Listed(p) /\ Behind(p)
    BY <2>2 DEF Listed, Behind
  <2> QED
    BY <2>3, <2>4
<1> QED
  BY <1>1, <1>2 DEF OnceInv

\* The steps outside the polls keep it: they publish nothing, and may only remove
\* entries, learn, or go on with a session.
LEMMA OnceElsewhere ==
  ASSUME FeedInv, OnceInv, SavesOnce', Dwindles, feed' \subseteq feed,
         UNCHANGED <<poll, last, checkpoint, imports, lapsed, forgotten>>,
         \A p \in Pets : knows[p] \subseteq knows'[p]
  PROVE  OnceInv'
<1> USE DEF OnceInv
<1>1. PublishedOnce'
  BY DEF PublishedOnce, Dwindles
<1>2. ASSUME NEW p \in Pets PROVE (Listed(p) /\ Counted(p) /\ Behind(p))'
  <2>1. Listed(p)'
    BY DEF Listed, Dwindles, Settled
  <2>2. Counted(p)'
    BY DEF Counted, Dwindles
  <2>3. Behind(p)'
    BY DEF Behind, Settled
  <2> QED
    BY <2>1, <2>2, <2>3
<1> QED
  BY <1>1, <1>2

\* A session that goes on has less to publish.
LEMMA OnceSessions ==
  ASSUME FeedInv, OnceInv, NEW s \in Sessions,
         \/ Extracts(s) \/ Extracted(s) \/ PublishFails(s) \/ Integrated(s)
         \/ \E i \in Items : Stores(s, i)
  PROVE  OnceInv'
<1> USE FeedAssumption DEF OnceInv, FeedInv
<1>0. /\ session \in [Sessions -> {"open", "extracting", "saving", "integrated"}]
      /\ extracted \in [Sessions -> SUBSET Items] /\ saving \in [Sessions -> Published \cup {NoSaving}]
      /\ DOMAIN knows = Pets
  BY DEF FeedTyped
<1>1. CASE Extracts(s) \/ Extracted(s) \/ PublishFails(s) \/ Integrated(s)
  <2>1. /\ UNCHANGED <<poll, last, checkpoint, imports, lapsed, forgotten, knows, feed>>
        /\ \A s2 \in Sessions \ {s} :
             session'[s2] = session[s2] /\ extracted'[s2] = extracted[s2] /\ saving'[s2] = saving[s2]
    BY <1>0, <1>1 DEF Extracts, Extracted, PublishFails, Integrated, pollVars
  <2>2. \/ /\ session[s] \in {"open", "extracting"} /\ extracted'[s] \subseteq ItemsOf[s]
           /\ saving'[s] = saving[s]
           /\ session'[s] \in {"open", "extracting"} => extracted'[s] = extracted[s]
        \/ /\ session'[s] \notin {"open", "extracting"} /\ extracted'[s] = extracted[s]
           /\ saving'[s] = saving[s] \/ saving'[s] = NoSaving
    BY <1>0, <1>1 DEF Extracts, Extracted, PublishFails, Integrated, SavesOnce
  <2>3. SavesOnce'
    BY <2>1, <2>2 DEF SavesOnce
  <2>4. Dwindles
    BY <2>1, <2>2 DEF Dwindles, Unpublished, SavesOnce
  <2> QED
    BY <2>1, <2>3, <2>4, OnceElsewhere
<1>2. ASSUME NEW i \in Items, Stores(s, i) PROVE OnceInv'
  <2>1. /\ UNCHANGED <<poll, last, checkpoint, imports, lapsed, forgotten, feed, session>>
        /\ session[s] = "saving" /\ i \in extracted[s] /\ i \in ItemsOf[s]
        /\ extracted' = [extracted EXCEPT ![s] = @ \ {i}]
        /\ \/ saving' = saving /\ saving[s] = NoSaving
           \/ saving' = [saving EXCEPT ![s] = [item |-> i, publishedAt |-> feedClock]]
    BY <1>2 DEF Stores, pollVars, FeedTyped
  <2>2. \A p \in Pets : knows[p] \subseteq knows'[p]
    BY <1>0, <1>2 DEF Stores, Remembers
  <2>3. /\ \A s2 \in Sessions \ {s} : extracted'[s2] = extracted[s2] /\ saving'[s2] = saving[s2]
        /\ extracted'[s] = extracted[s] \ {i}
        /\ saving'[s] = NoSaving \/ saving'[s].item = i
    BY <1>0, <2>1
  <2>4. SavesOnce'
    BY <2>1, <2>3 DEF SavesOnce
  <2>5. Dwindles
    BY <2>1, <2>3 DEF Dwindles, Unpublished
  <2> QED
    BY <2>1, <2>2, <2>4, <2>5, OnceElsewhere
<1> QED
  BY <1>1, <1>2

\* An item is published only once: nobody has it in the feed, in a poll or imported.
LEMMA OncePublishes ==
  ASSUME FeedInv, OnceInv, NEW s \in Sessions, Publishes(s)
  PROVE  OnceInv'
<1> USE FeedAssumption DEF OnceInv, FeedInv
<1>a. PICK new : new = saving[s]
  OBVIOUS
<1>0. /\ new \in Published /\ feed' = feed \cup {new} /\ new # NoSaving
      /\ UNCHANGED <<knows, last, checkpoint, imports, lapsed, forgotten, extracted, session>>
      /\ saving' = [saving EXCEPT ![s] = NoSaving]
      /\ new.item \in ItemsOf[s] /\ new.item \in Items
  BY <1>a DEF Publishes, FeedTyped, OwnKnown, Published
<1>1. ASSUME NEW p \in Pets
      PROVE  /\ poll'[p].at = poll[p].at /\ poll'[p].todo = poll[p].todo
             /\ poll'[p].latest = poll[p].latest /\ poll'[p].got = poll[p].got
  <2>1. poll[p] \in Polls
    BY DEF FeedTyped
  <2>2. poll'[p] = [poll[p] EXCEPT !.unseen = @ \cup
                     IF WillPass(p, new.publishedAt) THEN {new.item} ELSE {}]
    BY <1>a DEF Publishes
  <2> QED
    BY <2>1, <2>2 DEF Polls
<1>2. SavesOnce'
  BY <1>0 DEF SavesOnce, FeedTyped
<1>3. Dwindles
  <2>1. \A s2 \in Sessions : saving'[s2] = saving[s2] \/ saving'[s2] = NoSaving
    BY <1>0 DEF FeedTyped
  <2> QED
    BY <1>0, <2>1 DEF Dwindles, Unpublished
<1>4. Unpublished(new.item) /\ ~Unpublished(new.item)'
  <2>1. Unpublished(new.item)
    BY <1>a, <1>0 DEF Unpublished
  <2>2. \A s2 \in Sessions : new.item \in ItemsOf[s2] => s2 = s
    BY <1>0
  <2>3. session[s] \notin {"open", "extracting"} /\ new.item \notin extracted[s]
        /\ saving'[s] = NoSaving
    BY <1>a, <1>0 DEF SavesOnce, FeedTyped
  <2> QED
    BY <1>0, <2>1, <2>2, <2>3 DEF Unpublished
<1>5. PublishedOnce'
  BY <1>0, <1>3, <1>4 DEF PublishedOnce, Dwindles
<1>6. ASSUME NEW p \in Pets PROVE (Listed(p) /\ Counted(p) /\ Behind(p))'
  <2>0. ~Settled(p, new.item)
    BY <1>0, <1>4 DEF Settled, Counted, FeedTyped
  <2>1. Listed(p)'
    BY <1>0, <1>1, <1>3, <1>4 DEF Listed, Dwindles, Settled
  <2>2. Counted(p)'
    BY <1>0, <1>3 DEF Counted, Dwindles
  <2>3. Behind(p)'
    BY <1>0, <1>1, <2>0 DEF Behind, Settled
  <2> QED
    BY <2>1, <2>2, <2>3
<1> QED
  BY <1>2, <1>5, <1>6

\* A poll lists nothing that is settled: it is behind the position.
LEMMA OnceStarts ==
  ASSUME FeedInv, OnceInv, NEW p \in Pets, PollStarts(p)
  PROVE  OnceInv'
<1> USE FeedAssumption DEF OnceInv, FeedInv
<1>0. /\ poll[p].at = "idle" /\ poll[p].got = {}
      /\ UNCHANGED <<session, extracted, saving, knows, feed, checkpoint, feedClock, imports,
                     lapsed, forgotten>>
  BY DEF PollStarts, Behind
<1>1. PICK t \in LoadedCheckpoints(p) :
        /\ last' = [last EXCEPT ![p] = t]
        /\ \E listing \in {l \in SetToSeqs(After(t)) : Ascending(l)} :
             poll' = [poll EXCEPT ![p] = [at |-> "importing", todo |-> listing, latest |-> t,
                                          got |-> {}, unseen |-> {}]]
  BY DEF PollStarts
<1>2. PICK listing \in SetToSeqs(After(t)) :
        /\ Ascending(listing)
        /\ poll' = [poll EXCEPT ![p] = [at |-> "importing", todo |-> listing, latest |-> t,
                                        got |-> {}, unseen |-> {}]]
  BY <1>1
<1>3. /\ \A k \in DOMAIN listing : listing[k] \in feed /\ listing[k].publishedAt > t
      /\ \A j, k \in DOMAIN listing : j # k => listing[j] # listing[k]
  <2>1. IsFiniteSet(After(t))
    BY FS_Subset DEF FeedTyped, After
  <2>2. listing \in Seq(After(t)) /\ \A j, k \in DOMAIN listing : j # k => listing[j] # listing[k]
    BY <2>1, ListsAll
  <2> QED
    BY <2>2 DEF After
<1>4. /\ poll'[p] = [at |-> "importing", todo |-> listing, latest |-> t, got |-> {}, unseen |-> {}]
      /\ last'[p] = t
      /\ \A q \in Pets \ {p} : poll'[q] = poll[q] /\ last'[q] = last[q]
  BY <1>1, <1>2 DEF FeedTyped
<1>5. /\ t \in Nat /\ \A f \in feed : f.publishedAt \in Nat /\ f.item \in Items
      /\ \A k \in DOMAIN listing : k \in Nat
  <2>1. last[p] \in FeedTimes \cup {NoTime} /\ checkpoint[p] \in FeedTimes \cup {NoTime}
        /\ feedClock \in FeedTimes
    BY DEF FeedTyped
  <2>2. t \in Nat
    BY <1>1, <2>1 DEF LoadedCheckpoints, FeedTimes
  <2>3. listing \in Seq(After(t))
    <3>1. IsFiniteSet(After(t))
      BY FS_Subset DEF FeedTyped, After
    <3> QED
      BY <3>1, ListsAll
  <2> QED
    BY <2>2, <2>3 DEF FeedTyped, Published, FeedTimes
<1>6. ASSUME NEW f \in feed, Settled(p, f.item) PROVE f.publishedAt =< t
  BY <1>0, <1>1, <1>6 DEF Behind, Past, LoadedCheckpoints
<1>7. SavesOnce' /\ PublishedOnce' /\ \A i : Unpublished(i)' = Unpublished(i)
  BY <1>0 DEF SavesOnce, PublishedOnce, Unpublished
<1>8. ASSUME NEW q \in Pets, q # p PROVE (Listed(q) /\ Counted(q) /\ Behind(q))'
  BY <1>0, <1>4, <1>7, <1>8 DEF Listed, Counted, Behind, Settled
<1>9. (Listed(p) /\ Counted(p) /\ Behind(p))'
  <2>1. Listed(p)'
    <3> SUFFICES ASSUME NEW k \in DOMAIN listing
                 PROVE  /\ ~Unpublished(listing[k].item) /\ ~Settled(p, listing[k].item)
                        /\ \A f \in feed : f.item = listing[k].item => f = listing[k]
                        /\ t =< listing[k].publishedAt
                        /\ \A j \in DOMAIN listing : j < k =>
                             /\ listing[j].publishedAt =< listing[k].publishedAt
                             /\ listing[j].item # listing[k].item
      BY <1>0, <1>4, <1>7 DEF Listed, Settled
    <3>1. /\ ~Unpublished(listing[k].item) /\ t =< listing[k].publishedAt
          /\ \A f \in feed : f.item = listing[k].item => f = listing[k]
      BY <1>3, <1>5 DEF PublishedOnce
    <3>2. ~Settled(p, listing[k].item)
      BY <1>3, <1>5, <1>6
    <3>3. \A j \in DOMAIN listing : j < k =>
            /\ listing[j].publishedAt =< listing[k].publishedAt
            /\ listing[j].item # listing[k].item
      BY <1>2, <1>3, <1>5 DEF Ascending, Earlier, PublishedOnce
    <3> QED
      BY <3>1, <3>2, <3>3
  <2>2. Counted(p)'
    BY <1>0, <1>7 DEF Counted
  <2>3. Behind(p)'
    <3>1. ASSUME NEW f \in feed, Settled(p, f.item)
          PROVE  f.publishedAt =< t /\ (checkpoint[p] # NoTime => f.publishedAt =< checkpoint[p])
      BY <1>0, <1>6, <3>1 DEF Behind
    <3>2. poll'[p].got = {} /\ poll'[p].at = "importing"
      BY <1>4
    <3> QED
      BY <1>0, <1>4, <3>1, <3>2 DEF Behind, Settled
  <2> QED
    BY <2>1, <2>2, <2>3
<1> QED
  BY <1>7, <1>8, <1>9

\* The item imported was not settled, and now it is, behind the poll.
LEMMA OnceEntry ==
  ASSUME FeedInv, OnceInv, NEW p \in Pets, PollEntry(p)
  PROVE  OnceInv'
<1> USE FeedAssumption DEF OnceInv, FeedInv
<1>a. PICK f0 : f0 = NextEntry(p)
  OBVIOUS
<1>b. PICK new : new = IF Wants(p, f0) THEN {f0.item} ELSE {}
  OBVIOUS
<1>0. /\ poll[p] \in Polls /\ poll[p].at = "importing" /\ poll[p].todo \in Seq(Published)
      /\ poll[p].todo # <<>> /\ f0 \in Published /\ f0 = poll[p].todo[1]
      /\ UNCHANGED <<session, extracted, saving, feed, last, checkpoint, lapsed, forgotten>>
  BY <1>a DEF PollEntry, FeedTyped, NextEntry, Polls
<1>1. /\ knows' = [knows EXCEPT ![p] = @ \cup {TopicOf[j] : j \in new}]
      /\ imports' = [imports EXCEPT ![p][f0.item] = @ + Cardinality(new)]
      /\ poll' = [poll EXCEPT ![p] = [poll[p] EXCEPT !.todo = Tail(@), !.got = @ \cup new,
                                                     !.latest = f0.publishedAt]]
  <2> DEFINE items == IF Wants(p, NextEntry(p)) THEN {NextEntry(p).item} ELSE {}
  <2>1. /\ knows' = [knows EXCEPT ![p] = @ \cup {TopicOf[j] : j \in items}]
        /\ imports' = [imports EXCEPT ![p][NextEntry(p).item] = @ + Cardinality(items)]
        /\ poll' = [poll EXCEPT ![p] = [poll[p] EXCEPT !.todo = Tail(@), !.got = @ \cup items,
                                                       !.latest = NextEntry(p).publishedAt]]
    BY DEF PollEntry
  <2>2. items = new
    BY <1>a, <1>b
  <2> HIDE DEF items
  <2> QED
    BY <1>a, <2>1, <2>2
<1>2. /\ poll'[p].at = "importing" /\ poll'[p].todo = Tail(poll[p].todo)
      /\ poll'[p].latest = f0.publishedAt /\ poll'[p].got = poll[p].got \cup new
      /\ \A q \in Pets \ {p} : poll'[q] = poll[q]
  <2>1. PICK next : next = [poll[p] EXCEPT !.todo = Tail(@), !.got = @ \cup new,
                                           !.latest = f0.publishedAt]
    OBVIOUS
  <2>2. /\ next.at = "importing" /\ next.todo = Tail(poll[p].todo)
        /\ next.latest = f0.publishedAt /\ next.got = poll[p].got \cup new
    BY <1>0, <2>1 DEF Polls
  <2> QED
    BY <1>1, <2>1, <2>2 DEF FeedTyped
<1>3. /\ 1 \in DOMAIN poll[p].todo
      /\ \A k \in DOMAIN Tail(poll[p].todo) :
           k \in Nat \ {0} /\ k + 1 \in DOMAIN poll[p].todo
           /\ Tail(poll[p].todo)[k] = poll[p].todo[k + 1]
  BY <1>0, TailFacts
<1>4. /\ f0.item \in Items /\ f0.publishedAt \in Nat /\ poll[p].latest \in Nat
      /\ \A f \in feed : f.item \in Items /\ f.publishedAt \in Nat
      /\ \A k \in DOMAIN poll[p].todo : poll[p].todo[k].publishedAt \in Nat
      /\ imports \in [Pets -> [Items -> Nat]] /\ lapsed \in [Pets -> [Items -> Nat]]
      /\ DOMAIN knows = Pets
  <2>1. /\ FeedTimes \subseteq Nat /\ poll[p].latest \in FeedTimes
        /\ \A k \in DOMAIN poll[p].todo : poll[p].todo[k] \in Published
    BY <1>0, TimesAreNat DEF Polls
  <2> QED
    BY <1>0, <2>1 DEF FeedTyped, Published
<1>5. /\ imports'[p][f0.item] = imports[p][f0.item] + Cardinality(new)
      /\ \A i \in Items \ {f0.item} : imports'[p][i] = imports[p][i]
      /\ \A q \in Pets \ {p} : imports'[q] = imports[q]
  BY <1>1, <1>4
<1>6. /\ Wants(p, f0) => new = {f0.item} /\ Cardinality(new) = 1
      /\ ~Wants(p, f0) => new = {} /\ Cardinality(new) = 0
  BY <1>b, FS_EmptySet, FS_Singleton
<1>7. /\ ~Settled(p, f0.item) /\ ~Unpublished(f0.item) /\ f0.item \notin poll[p].got
      /\ poll[p].latest =< f0.publishedAt
      /\ \A f \in feed : f.item = f0.item => f = f0
  BY <1>0, <1>3 DEF Listed, Behind
<1>8. SavesOnce' /\ PublishedOnce' /\ \A i : Unpublished(i)' = Unpublished(i)
  BY <1>0 DEF SavesOnce, PublishedOnce, Unpublished
<1>9. ASSUME NEW q \in Pets, q # p PROVE (Listed(q) /\ Counted(q) /\ Behind(q))'
  <2>1. knows'[q] = knows[q]
    BY <1>1, <1>4, <1>9
  <2>2. UNCHANGED <<feed, lapsed, forgotten, last, checkpoint>> /\ poll'[q] = poll[q]
        /\ imports'[q] = imports[q]
    BY <1>0, <1>2, <1>5, <1>9
  <2>3. Listed(q)'
    BY <2>2, <1>8 DEF Listed, Settled
  <2>4. Counted(q)'
    BY <2>1, <2>2, <1>8 DEF Counted
  <2>5. Behind(q)'
    BY <2>2 DEF Behind, Settled
  <2> QED
    BY <2>3, <2>4, <2>5
<1>11. Listed(p)'
  <2> DEFINE l == poll[p].todo
  <2>1. ASSUME NEW k \in DOMAIN Tail(l)
        PROVE  /\ ~Unpublished(l[k + 1].item)
               /\ ~(imports'[p][l[k + 1].item] > lapsed[p][l[k + 1].item])
               /\ \A f \in feed : f.item = l[k + 1].item => f = l[k + 1]
               /\ f0.publishedAt =< l[k + 1].publishedAt
               /\ \A j \in DOMAIN Tail(l) : j < k =>
                    /\ l[j + 1].publishedAt =< l[k + 1].publishedAt
                    /\ l[j + 1].item # l[k + 1].item
    <3>1. k + 1 \in DOMAIN l /\ 1 < k + 1 /\ l[k + 1].item # f0.item /\ l[k + 1].item \in Items
      <4>1. k + 1 \in DOMAIN l /\ 1 < k + 1 /\ l[k + 1] \in Published
        BY <1>0, <1>3
      <4> QED
        BY <4>1, <1>0, <1>3 DEF Listed, Published
    <3>2. ~(imports'[p][l[k + 1].item] > lapsed[p][l[k + 1].item])
      BY <3>1, <1>5 DEF Listed, Settled
    <3>3. \A j \in DOMAIN Tail(l) : j < k => j + 1 \in DOMAIN l /\ j + 1 < k + 1
      BY <1>3
    <3> QED
      BY <1>0, <1>3, <3>1, <3>2, <3>3 DEF Listed
  <2>2. \A k \in DOMAIN Tail(l) : poll'[p].todo[k] = l[k + 1]
    BY <1>2, <1>3
  <2>3. DOMAIN poll'[p].todo = DOMAIN Tail(l) /\ poll'[p].latest = f0.publishedAt
        /\ feed' = feed /\ lapsed' = lapsed
    BY <1>0, <1>2
  <2> HIDE DEF l
  <2>4. ASSUME NEW k \in DOMAIN Tail(l)
        PROVE  /\ ~Unpublished(poll[p].todo[k].item)'
               /\ ~(imports'[p][poll'[p].todo[k].item] > lapsed[p][poll'[p].todo[k].item])
               /\ \A f \in feed : f.item = poll'[p].todo[k].item => f = poll'[p].todo[k]
               /\ f0.publishedAt =< poll'[p].todo[k].publishedAt
               /\ \A j \in DOMAIN Tail(l) : j < k =>
                    /\ poll'[p].todo[j].publishedAt =< poll'[p].todo[k].publishedAt
                    /\ poll'[p].todo[j].item # poll'[p].todo[k].item
    <3>1. ~Unpublished(poll[p].todo[k].item)'
      BY <1>0, <2>1, <2>2 DEF Unpublished
    <3> QED
      BY <3>1, <2>1, <2>2
  <2> QED
    BY <2>3, <2>4 DEF Listed, Settled
<1>12. Counted(p)'
  <2> SUFFICES ASSUME NEW i \in Items
               PROVE  /\ lapsed[p][i] =< imports'[p][i] /\ imports'[p][i] =< 1 + lapsed[p][i]
                      /\ imports'[p][i] =< 1 + forgotten[p][TopicOf[i]]
                      /\ TopicOf[i] \notin knows'[p] => imports'[p][i] =< forgotten[p][TopicOf[i]]
                      /\ imports'[p][i] > 0 => ~IsOwn(p, i) /\ ~Unpublished(i)
    BY <1>0, <1>8 DEF Counted
  <2>0. /\ imports[p][i] \in Nat /\ lapsed[p][i] \in Nat /\ forgotten[p][TopicOf[i]] \in Nat
    <3>1. TopicOf[i] \in Topics /\ forgotten \in [Pets -> [Topics -> Nat]]
      BY DEF Topics, FeedTyped
    <3> QED
      BY <3>1, <1>4
  <2>1. knows[p] \subseteq knows'[p] /\ (Wants(p, f0) => TopicOf[f0.item] \in knows'[p])
    BY <1>1, <1>4, <1>6
  <2>2. CASE i = f0.item /\ Wants(p, f0)
    <3>1. imports'[p][i] = imports[p][i] + 1 /\ imports[p][i] =< lapsed[p][i]
      BY <2>0, <2>2, <1>5, <1>6, <1>7 DEF Settled
    <3>2. imports[p][i] =< forgotten[p][TopicOf[i]] /\ ~IsOwn(p, i)
      BY <2>2 DEF Wants, Counted
    <3> QED
      BY <2>0, <2>1, <2>2, <3>1, <3>2, <1>7 DEF Counted
  <2>3. CASE ~(i = f0.item /\ Wants(p, f0))
    <3>1. imports'[p][i] = imports[p][i]
      BY <2>0, <2>3, <1>5, <1>6
    <3> QED
      BY <3>1, <2>1 DEF Counted
  <2> QED
    BY <2>2, <2>3
<1>13. Behind(p)'
  <2>0. \A i \in Items : Wants(p, f0) /\ i = f0.item => imports'[p][i] > lapsed[p][i]
    <3>1. imports[p][f0.item] \in Nat /\ lapsed[p][f0.item] \in Nat /\ lapsed[p][f0.item] =< imports[p][f0.item]
      BY <1>4 DEF Counted
    <3> QED
      BY <3>1, <1>5, <1>6
  <2>1. ASSUME NEW i \in poll[p].got \cup new PROVE imports'[p][i] > lapsed[p][i]
    <3>1. CASE i \in new
      BY <3>1, <1>4, <1>6, <2>0
    <3>2. CASE i \in poll[p].got
      <4>1. i # f0.item /\ i \in Items /\ Settled(p, i)
        BY <3>2, <1>0, <1>7 DEF Polls, Behind
      <4> QED
        BY <4>1, <1>5 DEF Settled
    <3> QED
      BY <3>1, <3>2
  <2>2. ASSUME NEW f \in feed, imports'[p][f.item] > lapsed[p][f.item]
        PROVE  IF f.item \in poll[p].got \cup new THEN f.publishedAt =< f0.publishedAt
               ELSE /\ last[p] # NoTime => f.publishedAt =< last[p]
                    /\ checkpoint[p] # NoTime => f.publishedAt =< checkpoint[p]
    <3>1. CASE f.item = f0.item
      <4>1. f = f0
        BY <3>1, <1>7
      <4>2. Wants(p, f0)
        BY <2>2, <3>1, <1>4, <1>5, <1>6, <1>7 DEF Settled
      <4> QED
        BY <4>1, <4>2, <1>4, <1>6
    <3>2. CASE f.item # f0.item
      <4>1. Settled(p, f.item) /\ f.item \notin new
        BY <2>2, <3>2, <1>4, <1>5, <1>6 DEF Settled
      <4> QED
        BY <4>1, <1>0, <1>4, <1>7 DEF Behind
    <3> QED
      BY <3>1, <3>2
  <2> QED
    BY <2>1, <2>2, <1>0, <1>2 DEF Behind, Settled
<1> QED
  BY <1>8, <1>9, <1>11, <1>12, <1>13

\* A poll that breaks off saves no position: what it got is not settled.
LEMMA OnceBreaksOff ==
  ASSUME FeedInv, OnceInv, NEW p \in Pets, Lapses(p), SavesOnce', Dwindles,
         UNCHANGED <<knows, feed, imports, forgotten>>,
         poll' = [poll EXCEPT ![p] = NoPoll],
         \A q \in Pets : /\ last'[q] = last[q] \/ (q = p /\ last'[q] = NoTime)
                         /\ checkpoint'[q] = checkpoint[q] \/ (q = p /\ checkpoint'[q] = NoTime)
  PROVE  OnceInv'
<1> USE FeedAssumption DEF OnceInv, FeedInv
<1>1. /\ DOMAIN poll'[p].todo = {} /\ poll'[p].got = {} /\ poll'[p].at = "idle"
      /\ \A q \in Pets \ {p} : poll'[q] = poll[q] /\ lapsed'[q] = lapsed[q]
      /\ \A i \in Items : lapsed'[p][i] = IF i \in poll[p].got THEN lapsed[p][i] + 1 ELSE lapsed[p][i]
      /\ \A i \in Items : imports[p][i] \in Nat /\ lapsed[p][i] \in Nat
      /\ \A f \in feed : f.item \in Items
  <2>1. /\ \A q \in Pets \ {p} : lapsed'[q] = lapsed[q]
        /\ \A i \in Items : lapsed'[p][i] = IF i \in poll[p].got THEN lapsed[p][i] + 1 ELSE lapsed[p][i]
    BY DEF Lapses, FeedTyped
  <2>2. /\ DOMAIN poll'[p].todo = {} /\ poll'[p].got = {} /\ poll'[p].at = "idle"
        /\ \A q \in Pets \ {p} : poll'[q] = poll[q]
    BY DEF FeedTyped, NoPoll
  <2> QED
    BY <2>1, <2>2 DEF FeedTyped, Published
<1>2. PublishedOnce'
  BY DEF PublishedOnce, Dwindles
<1>3. ASSUME NEW q \in Pets, q # p PROVE (Listed(q) /\ Counted(q) /\ Behind(q))'
  <2>1. poll'[q] = poll[q] /\ lapsed'[q] = lapsed[q] /\ last'[q] = last[q]
        /\ checkpoint'[q] = checkpoint[q]
    BY <1>1, <1>3
  <2> QED
    BY <2>1 DEF Listed, Counted, Behind, Settled, Dwindles
<1>4. (Listed(p) /\ Counted(p) /\ Behind(p))'
  <2>1. Listed(p)'
    BY <1>1 DEF Listed
  <2>2. Counted(p)'
    <3>1. ASSUME NEW i \in Items
          PROVE  lapsed'[p][i] =< imports[p][i] /\ imports[p][i] =< 1 + lapsed'[p][i]
      BY <1>1 DEF Counted, Behind, Settled
    <3> QED
      BY <3>1 DEF Counted, Dwindles
  <2>3. Behind(p)'
    <3>1. ASSUME NEW f \in feed, imports[p][f.item] > lapsed'[p][f.item]
          PROVE  /\ last'[p] # NoTime => f.publishedAt =< last'[p]
                 /\ checkpoint'[p] # NoTime => f.publishedAt =< checkpoint'[p]
      <4>1. Settled(p, f.item) /\ f.item \notin poll[p].got
        BY <3>1, <1>1 DEF Behind, Settled, Counted
      <4> QED
        BY <4>1 DEF Behind
    <3>2. feed' = feed /\ imports' = imports
      OBVIOUS
    <3> QED
      BY <3>1, <3>2, <1>1 DEF Behind, Settled
  <2> QED
    BY <2>1, <2>2, <2>3
<1> QED
  BY <1>2, <1>3, <1>4

\* A poll that saves its position settles what it got.
LEMMA OnceSaves ==
  ASSUME FeedInv, OnceInv, NEW p \in Pets, PollSaves(p) \/ PollEnds(p)
  PROVE  OnceInv'
<1> USE FeedAssumption DEF OnceInv, FeedInv
<1>0. /\ UNCHANGED <<session, extracted, saving, knows, feed, imports, lapsed, forgotten>>
      /\ poll[p] \in Polls /\ poll \in [Pets -> Polls]
  BY DEF PollSaves, PollEnds, FeedTyped
<1>1. SavesOnce' /\ PublishedOnce' /\ \A i : Unpublished(i)' = Unpublished(i)
  BY <1>0 DEF SavesOnce, PublishedOnce, Unpublished
<1>2. /\ \A q \in Pets \ {p} :
           poll'[q] = poll[q] /\ last'[q] = last[q] /\ checkpoint'[q] = checkpoint[q]
      /\ \/ /\ poll[p].at = "importing" /\ poll'[p].at = "saving" /\ poll'[p].todo = poll[p].todo
            /\ poll'[p].got = poll[p].got /\ poll'[p].latest = poll[p].latest
            /\ last'[p] = poll[p].latest /\ checkpoint'[p] = checkpoint[p]
         \/ /\ poll[p].at = "saving" /\ poll'[p] = NoPoll
            /\ last'[p] = last[p] /\ checkpoint'[p] = last[p]
  BY <1>0 DEF PollSaves, PollEnds, FeedTyped, Polls, LatestTime
<1>3. NoPoll.at = "idle" /\ NoPoll.got = {} /\ DOMAIN NoPoll.todo = {}
  BY DEF NoPoll
<1>4. ASSUME NEW q \in Pets, q # p PROVE (Listed(q) /\ Counted(q) /\ Behind(q))'
  BY <1>0, <1>1, <1>2, <1>4 DEF Listed, Counted, Behind, Settled
<1>5. (Listed(p) /\ Counted(p) /\ Behind(p))'
  <2>1. Listed(p)'
    BY <1>0, <1>1, <1>2, <1>3 DEF Listed, Settled
  <2>2. Counted(p)'
    BY <1>0, <1>1 DEF Counted
  <2>3. Behind(p)'
    <3>1. /\ \A f \in feed : f.publishedAt \in Nat
          /\ last[p] \in Nat \cup {NoTime} /\ poll[p].latest \in Nat /\ NoTime \notin Nat
      BY <1>0 DEF FeedTyped, FeedTimes, Published, Polls
    <3>2. CASE poll[p].at = "importing"
      <4>1. last[p] # NoTime /\ last[p] =< poll[p].latest
        BY <3>2 DEF Ahead
      <4> QED
        BY <3>1, <3>2, <4>1, <1>0, <1>2 DEF Behind, Settled
    <3>3. CASE poll[p].at = "saving"
      <4>1. last[p] # NoTime
        BY <3>3 DEF Ahead
      <4> QED
        BY <3>1, <3>3, <4>1, <1>0, <1>2, <1>3 DEF Behind, Settled
    <3> QED
      BY <3>2, <3>3, <1>2
  <2> QED
    BY <2>1, <2>2, <2>3
<1> QED
  BY <1>1, <1>4, <1>5

\* A topic that is forgotten may be imported once more.
LEMMA OnceForgets ==
  ASSUME FeedInv, OnceInv, NEW p \in Pets, NEW topic \in Topics, Forgets(p, topic)
  PROVE  OnceInv'
<1> USE FeedAssumption DEF OnceInv, FeedInv
<1>0. /\ UNCHANGED <<session, extracted, saving, feed, poll, last, checkpoint, imports, lapsed>>
      /\ knows'[p] = knows[p] \ {topic} /\ \A q \in Pets \ {p} : knows'[q] = knows[q]
      /\ forgotten'[p][topic] = forgotten[p][topic] + 1
      /\ \A t \in Topics \ {topic} : forgotten'[p][t] = forgotten[p][t]
      /\ \A q \in Pets \ {p} : forgotten'[q] = forgotten[q]
      /\ \A i \in Items : TopicOf[i] \in Topics
      /\ \A q \in Pets : \A t \in Topics : forgotten[q][t] \in Nat
      /\ \A q \in Pets : \A i \in Items : imports[q][i] \in Nat
  <2>1. /\ UNCHANGED <<session, extracted, saving, feed, poll, last, checkpoint, imports, lapsed>>
        /\ knows' = [knows EXCEPT ![p] = @ \ {topic}]
        /\ forgotten' = [forgotten EXCEPT ![p][topic] = @ + 1]
    BY DEF Forgets, pollVars
  <2>2. /\ DOMAIN knows = Pets /\ forgotten \in [Pets -> [Topics -> Nat]]
        /\ imports \in [Pets -> [Items -> Nat]]
    BY DEF FeedTyped
  <2>3. knows'[p] = knows[p] \ {topic} /\ \A q \in Pets \ {p} : knows'[q] = knows[q]
    BY <2>1, <2>2
  <2>4. /\ forgotten'[p][topic] = forgotten[p][topic] + 1
        /\ \A t \in Topics \ {topic} : forgotten'[p][t] = forgotten[p][t]
        /\ \A q \in Pets \ {p} : forgotten'[q] = forgotten[q]
    BY <2>1, <2>2
  <2>5. \A i \in Items : TopicOf[i] \in Topics
    BY DEF Topics
  <2> QED
    BY <2>1, <2>2, <2>3, <2>4, <2>5
<1>1. SavesOnce' /\ PublishedOnce' /\ \A i : Unpublished(i)' = Unpublished(i)
  BY <1>0 DEF SavesOnce, PublishedOnce, Unpublished
<1>2. ASSUME NEW q \in Pets PROVE (Listed(q) /\ Counted(q) /\ Behind(q))'
  <2>1. Listed(q)' /\ Behind(q)'
    BY <1>0, <1>1 DEF Listed, Behind, Settled
  <2>2. Counted(q)'
    <3>1. CASE q # p
      BY <3>1, <1>0, <1>1 DEF Counted
    <3>2. ASSUME NEW i \in Items, q = p
          PROVE  /\ imports[q][i] =< 1 + forgotten'[q][TopicOf[i]]
                 /\ TopicOf[i] \notin knows'[q] => imports[q][i] =< forgotten'[q][TopicOf[i]]
      <4>1. CASE TopicOf[i] = topic
        BY <3>2, <4>1, <1>0 DEF Counted
      <4>2. CASE TopicOf[i] # topic
        BY <3>2, <4>2, <1>0 DEF Counted
      <4> QED
        BY <4>1, <4>2
    <3> QED
      BY <3>1, <3>2, <1>0, <1>1 DEF Counted
  <2> QED
    BY <2>1, <2>2
<1> QED
  BY <1>1, <1>2

\* The invariant holds in every reachable state.
LEMMA OnceInvariant == FeedSpec => []OnceInv
<1>1. FeedInv /\ OnceInv /\ [FeedNext]_feedVars => OnceInv'
  <2> SUFFICES ASSUME FeedInv, OnceInv, [FeedNext]_feedVars PROVE OnceInv'
    OBVIOUS
  <2> USE FeedAssumption
  <2>0. ASSUME UNCHANGED <<session, extracted, saving>> PROVE SavesOnce' /\ Dwindles
    BY <2>0 DEF OnceInv, SavesOnce, Dwindles, Unpublished
  <2>1. CASE UNCHANGED feedVars
    BY <2>0, <2>1, OnceElsewhere DEF feedVars, pollVars
  <2>2. ASSUME NEW s \in Sessions,
               \/ Extracts(s) \/ Extracted(s) \/ Publishes(s) \/ PublishFails(s) \/ Integrated(s)
               \/ \E i \in Items : Stores(s, i)
        PROVE  OnceInv'
    BY <2>2, OnceSessions, OncePublishes
  <2>3. ASSUME NEW p \in Pets, PollStarts(p) \/ PollEntry(p) \/ PollSaves(p) \/ PollEnds(p)
        PROVE  OnceInv'
    BY <2>3, OnceStarts, OnceEntry, OnceSaves
  <2>4. ASSUME NEW p \in Pets, PollFails(p) \/ PollSaveFails(p) PROVE OnceInv'
    <3>1. \A q \in Pets : checkpoint'[q] = checkpoint[q] \/ (q = p /\ checkpoint'[q] = NoTime)
      BY <2>4 DEF PollFails, PollSaveFails, Unwritten, FeedInv, FeedTyped
    <3> QED
      BY <2>0, <2>4, <3>1, OnceBreaksOff DEF PollFails, PollSaveFails
  <2>5. ASSUME NEW p \in Pets, PetCrash(p) PROVE OnceInv'
    <3>1. \A q \in Pets : /\ last'[q] = last[q] \/ (q = p /\ last'[q] = NoTime)
                          /\ checkpoint'[q] = checkpoint[q] \/ (q = p /\ checkpoint'[q] = NoTime)
      BY <2>5 DEF PetCrash, Unwritten, FeedInv, FeedTyped
    <3>2. \A s \in Sessions :
            \/ session'[s] = session[s] /\ extracted'[s] = extracted[s] /\ saving'[s] = saving[s]
            \/ session'[s] = "integrated" /\ extracted'[s] = {} /\ saving'[s] = NoSaving
      BY <2>5 DEF PetCrash
    <3>3. SavesOnce'
      BY <3>2 DEF OnceInv, SavesOnce
    <3>4. Dwindles
      BY <3>2 DEF Dwindles, Unpublished
    <3>5. Lapses(p) /\ UNCHANGED <<knows, feed, imports, forgotten>> /\ poll' = [poll EXCEPT ![p] = NoPoll]
      BY <2>5 DEF PetCrash
    <3> QED
      BY <3>1, <3>3, <3>4, <3>5, OnceBreaksOff
  <2>6. ASSUME NEW p \in Pets, NEW topic \in Topics, Forgets(p, topic) PROVE OnceInv'
    BY <2>6, OnceForgets
  <2>7. CASE FeedTimePasses \/ \E f \in feed : Cleans(f)
    <3>1. /\ UNCHANGED <<session, extracted, saving, knows, forgotten, pollVars>>
          /\ feed' \subseteq feed
      BY <2>7 DEF FeedTimePasses, Cleans
    <3> QED
      BY <2>0, <3>1, OnceElsewhere DEF pollVars
  <2> QED
    BY <2>1, <2>2, <2>3, <2>4, <2>5, <2>6, <2>7 DEF FeedNext
<1> QED
  BY <1>1, OnceInvInit, FeedInvariant, PTL DEF FeedSpec

\* A pet imports an item again only when it forgot the topic, and only when the poll that
\* imported it did not get to save its checkpoint; never one of its own (subscriber.ts:66-76).
THEOREM ImportedOnceAlways == FeedSpec => []ImportedAtMostOnce
<1>1. OnceInv => ImportedAtMostOnce
  BY DEF OnceInv, Counted, ImportedAtMostOnce
<1> QED
  BY <1>1, OnceInvariant, PTL

-----------------------------------------------------------------------------
(***************************************************************************)
(* Seeding.                                                                *)
(***************************************************************************)

\* What the next or the present seeding takes as imported.
Imports == IF seeding = "off" THEN seedState ELSE hashes

\* A seed is stored again only by a boot after one that broke off, or by one that could
\* not read the state; each is one of the boots that there were.
SeederInv ==
  /\ seeding \in {"off", "storing", "saving"} /\ imported \in BOOLEAN
  /\ seedsLeft \subseteq Seeds /\ hashes \subseteq Seeds /\ seedState \subseteq Seeds
  /\ copies \in [Seeds -> Nat]
  /\ boots \in 0..MaxBoots /\ broken \in 0..MaxBoots /\ unread \in 0..MaxBoots
  /\ unread =< boots /\ IF seeding = "off" THEN broken =< boots ELSE broken + 1 =< boots
  /\ \A h \in Seeds :
       /\ copies[h] =< 1 + broken + unread
       /\ h \notin Imports => copies[h] =< broken + unread
       /\ h \in seedState \cup Imports => copies[h] > 0
       /\ IF seeding # "off" /\ h \in seedsLeft THEN copies[h] + 1 =< boots ELSE copies[h] =< boots
  /\ seeding = "storing" /\ ~imported => hashes \in {seedState, {}}

\* The invariant holds in every reachable state.
LEMMA SeederInvariant == SeederSpec => []SeederInv
<1> USE SeederAssumption DEF Imports
<1>1. SeederInit => SeederInv
  <2> SUFFICES ASSUME SeederInit PROVE SeederInv
    OBVIOUS
  <2>1. ~imported /\ imported \in BOOLEAN /\ seeding = "off"
    BY DEF SeederInit
  <2>2. \A h \in Seeds : copies[h] = 0
    BY DEF SeederInit
  <2> QED
    BY <2>1, <2>2 DEF SeederInit, SeederInv
<1>2. SeederInv /\ [SeederNext]_seederVars => SeederInv'
  <2> SUFFICES ASSUME SeederInv, [SeederNext]_seederVars PROVE SeederInv'
    OBVIOUS
  <2>1. CASE SeedStarts
    <3>1. ~imported' /\ imported' \in BOOLEAN
      BY <2>1 DEF SeedStarts
    <3>2. /\ seeding = "off" /\ seeding' = "storing" /\ boots < MaxBoots /\ boots' = boots + 1
          /\ seedsLeft' \subseteq Seeds /\ UNCHANGED <<seedState, copies, broken>>
      BY <2>1 DEF SeedStarts
    <3>3. CASE hashes' = seedState /\ UNCHANGED unread
      BY <3>1, <3>2, <3>3 DEF SeederInv
    <3>4. CASE hashes' = {} /\ unread' = unread + 1
      BY <3>1, <3>2, <3>4 DEF SeederInv
    <3> QED
      BY <2>1, <3>3, <3>4 DEF SeedStarts
  <2>2. ASSUME NEW h \in Seeds, SeedStores(h) PROVE SeederInv'
    <3>1. CASE IsNew(h)
      BY <2>2, <3>1 DEF SeederInv, SeedStores, IsNew
    <3>2. CASE ~IsNew(h)
      BY <2>2, <3>2 DEF SeederInv, SeedStores, IsNew
    <3> QED BY <3>1, <3>2
  <2>3. CASE SeedSaves
    BY <2>3 DEF SeederInv, SeedSaves
  <2>4. CASE SeedEnds
    BY <2>4 DEF SeederInv, SeedEnds
  <2>5. CASE SeedBreaks
    BY <2>5 DEF SeederInv, SeedBreaks
  <2>6. CASE UNCHANGED seederVars
    BY <2>6 DEF SeederInv, seederVars
  <2> QED BY <2>1, <2>2, <2>3, <2>4, <2>5, <2>6 DEF SeederNext
<1> QED BY <1>1, <1>2, PTL DEF SeederSpec

\* The types of the seeder's state and of its file.
THEOREM SeederTypeCorrect == SeederSpec => []SeederTypeOK
<1>1. SeederInv => SeederTypeOK
  BY SeederAssumption DEF SeederInv, SeederTypeOK
<1> QED BY <1>1, SeederInvariant, PTL

\* For any seeds and any number of boots, a seed is stored once, and once more at most for
\* each seeding that broke off and each that could not read the state; what the state
\* file lists was stored (seeder.ts:5).
THEOREM SeededOnceAlways == SeederSpec => []SeededOnce
<1>1. SeederInv => SeededOnce
  BY DEF SeederInv, SeededOnce
<1> QED BY <1>1, SeederInvariant, PTL

-----------------------------------------------------------------------------
(***************************************************************************)
(* Least elements: a proof by induction without a predicate to             *)
(* instantiate.                                                            *)
(***************************************************************************)

\* Every set of naturals has a least element: what holds at no least counterexample holds.
LEMMA LeastNat ==
  ASSUME NEW T, T \subseteq Nat, T # {}
  PROVE  \E m \in T : \A k \in T : m =< k
<1> DEFINE R == {x \in Nat \X Nat : x[1] < x[2]}
<1>1. IsWellFoundedOn(R, Nat)
  <2>1. OpToRel(<, Nat) = R
    BY DEF OpToRel
  <2> QED
    BY <2>1, NatLessThanWellFounded
<1> HIDE DEF R
<1>2. PICK m \in T : \A k \in T : ~(<<k, m>> \in R)
  BY <1>1, WFMin
<1>3. ASSUME NEW k \in T PROVE m =< k
  <2>1. m \in Nat /\ k \in Nat
    OBVIOUS
  <2>2. ~(k < m)
    BY <1>2, <2>1 DEF R
  <2> QED
    BY <2>1, <2>2
<1> QED
  BY <1>3

-----------------------------------------------------------------------------
(***************************************************************************)
(* The history of a channel: the file, and what will be written to it, lack*)
(* only what was trimmed or pruned.                                        *)
(***************************************************************************)

\* The messages of S that are newer than m.
Later(S, m) == {k \in S : k > m}

\* A subset of the messages has a size, its subsets have none that is larger.
LEMMA Sizes ==
  ASSUME NEW S \in SUBSET Messages
  PROVE  /\ IsFiniteSet(S) /\ Cardinality(S) \in Nat
         /\ \A T \in SUBSET S : Cardinality(T) \in Nat /\ Cardinality(T) =< Cardinality(S)
  BY HistoryAssumption, FS_Subset, FS_CardinalityType

\* What is trimmed has n newer ones, and n are left.
LEMMA NewestFacts ==
  ASSUME NEW S \in SUBSET Messages, NEW n \in Nat
  PROVE  /\ Newest(S, n) \subseteq S
         /\ \A m \in S \ Newest(S, n) : Cardinality(Later(S, m)) >= n
         /\ Newest(S, n) = S \/ Cardinality(Newest(S, n)) >= n
<1> USE HistoryAssumption
<1> DEFINE size(m) == Cardinality(Later(S, m))
<1>1. \A m \in S : size(m) \in Nat
  BY Sizes DEF Later
<1>2. Newest(S, n) = {m \in S : size(m) < n}
  BY DEF Newest, Later
<1> HIDE DEF size
<1>3. Newest(S, n) \subseteq S /\ \A m \in S \ Newest(S, n) : size(m) >= n
  BY <1>1, <1>2
<1>4. ASSUME Newest(S, n) # S PROVE Cardinality(Newest(S, n)) >= n
  <2>1. PICK c \in {size(m) : m \in S \ Newest(S, n)} :
          \A d \in {size(m) : m \in S \ Newest(S, n)} : c =< d
    <3>1. {size(m) : m \in S \ Newest(S, n)} # {} /\ {size(m) : m \in S \ Newest(S, n)} \subseteq Nat
      BY <1>1, <1>3, <1>4
    <3> QED
      BY <3>1, LeastNat
  <2>2. PICK m \in S \ Newest(S, n) : c = size(m)
    BY <2>1
  <2>3. ASSUME NEW k \in Later(S, m), k \notin Newest(S, n) PROVE FALSE
    <3>1. k \in S /\ k \in Nat /\ m \in Nat /\ k > m
      BY <2>2 DEF Later
    <3>2. Later(S, k) \subseteq Later(S, m) /\ k \notin Later(S, k)
      <4>1. \A j \in S : j \in Nat /\ (j > k => j > m) /\ ~(k > k)
        BY <3>1
      <4> QED
        BY <4>1 DEF Later
    <3>3. size(k) < size(m)
      <4>1. Later(S, m) \in SUBSET Messages /\ IsFiniteSet(Later(S, m))
        BY Sizes DEF Later
      <4>2. size(k) =< size(m) /\ (size(k) = size(m) => Later(S, k) = Later(S, m))
        BY <4>1, <3>2, FS_Subset DEF size
      <4> QED
        BY <1>1, <2>2, <2>3, <3>1, <3>2, <4>2
    <3>4. size(m) =< size(k)
      BY <2>1, <2>2, <2>3, <3>1
    <3> QED
      BY <1>1, <2>2, <3>1, <3>3, <3>4
  <2>4. Later(S, m) \subseteq Newest(S, n)
    BY <2>3
  <2>5. Newest(S, n) \in SUBSET Messages /\ Later(S, m) \in SUBSET Newest(S, n)
    BY <1>3, <2>4
  <2>6. size(m) =< Cardinality(Newest(S, n)) /\ Cardinality(Newest(S, n)) \in Nat
    BY <2>5, Sizes DEF size
  <2> QED
    BY <1>1, <1>3, <2>2, <2>6
<1> QED
  BY <1>3, <1>4 DEF size

\* The messages that are too old.
Old == {n \in Messages : ~Young(n)}

\* These entries lack only what was trimmed, or pruned for what is in old.
Lacks(entries, all, old) ==
  /\ entries \subseteq all
  /\ \A m \in all \ entries :
       \/ TrimmedFrom(all, m)
       \/ Cardinality(entries) >= MinKeep /\ \E n \in all \cap old : n >= m

\* A history is recent when it lacks only such, and when no old one has become young.
LEMMA RecentLacks ==
  ASSUME NEW all \in SUBSET Messages, NEW entries
  PROVE  /\ Recent(entries, all) => \A old : all \cap Old \subseteq old => Lacks(entries, all, old)
         /\ Lacks(entries, all, Old) => Recent(entries, all)
<1>1. ASSUME Recent(entries, all), NEW old, all \cap Old \subseteq old
      PROVE  Lacks(entries, all, old)
  BY <1>1 DEF Recent, PrunedFrom, Lacks, Old
<1>2. ASSUME Lacks(entries, all, Old) PROVE Recent(entries, all)
  BY <1>2 DEF Recent, PrunedFrom, Lacks, Old
<1> QED
  BY <1>1, <1>2

\* A message appended to a recent history, and trimmed, gives a recent one.
LEMMA AppendedLacks ==
  ASSUME NEW all \in SUBSET Messages, NEW entries \in SUBSET Messages, NEW old,
         Lacks(entries, all, old), NEW m \in Messages
  PROVE  Lacks(Newest(entries \cup {m}, MaxEntries), all \cup {m}, old)
<1> USE HistoryAssumption
<1> DEFINE S == entries \cup {m}
           N == Newest(S, MaxEntries)
<1>1. /\ S \in SUBSET Messages /\ entries \in SUBSET S /\ entries \subseteq all
      /\ MaxEntries \in Nat /\ MinKeep \in Nat /\ MinKeep =< MaxEntries
  BY DEF Lacks
<1>2. /\ N \subseteq S /\ \A k \in S \ N : Cardinality(Later(S, k)) >= MaxEntries
      /\ N = S \/ Cardinality(N) >= MaxEntries
  BY <1>1, NewestFacts
<1> HIDE DEF N
<1>3. Cardinality(entries) >= MinKeep => Cardinality(N) >= MinKeep
  <2>1. Cardinality(entries) \in Nat /\ Cardinality(S) \in Nat /\ Cardinality(N) \in Nat
        /\ Cardinality(entries) =< Cardinality(S)
    BY <1>1, <1>2, Sizes
  <2> QED
    BY <1>1, <1>2, <2>1
<1>4. ASSUME NEW part \in SUBSET (all \cup {m}), NEW k, Cardinality(Later(part, k)) >= MaxEntries
      PROVE  TrimmedFrom(all \cup {m}, k)
  <2>1. /\ Later(part, k) \in SUBSET Later(all \cup {m}, k)
        /\ Later(all \cup {m}, k) \in SUBSET Messages
    BY DEF Later
  <2>2. /\ Cardinality(Later(part, k)) =< Cardinality(Later(all \cup {m}, k))
        /\ Cardinality(Later(part, k)) \in Nat /\ Cardinality(Later(all \cup {m}, k)) \in Nat
    BY <2>1, Sizes
  <2>3. Cardinality(Later(all \cup {m}, k)) >= MaxEntries
    BY <1>1, <1>4, <2>2
  <2> QED
    BY <2>3 DEF TrimmedFrom, Later
<1>5. ASSUME NEW k \in (all \cup {m}) \ N
      PROVE  \/ TrimmedFrom(all \cup {m}, k)
             \/ Cardinality(N) >= MinKeep /\ \E n \in (all \cup {m}) \cap old : n >= k
  <2>1. CASE k \in S
    BY <1>1, <1>2, <1>4, <2>1
  <2>2. CASE k \notin S
    <3>1. CASE TrimmedFrom(all, k)
      BY <3>1, <1>4 DEF TrimmedFrom, Later
    <3>2. CASE ~TrimmedFrom(all, k)
      BY <2>2, <3>2, <1>3 DEF Lacks
    <3> QED
      BY <3>1, <3>2
  <2> QED
    BY <2>1, <2>2
<1>6. N \subseteq all \cup {m}
  BY <1>1, <1>2
<1> QED
  BY <1>5, <1>6 DEF Lacks, N

\* A recent history that is pruned is recent.
LEMMA PrunedIsRecent ==
  ASSUME NEW all \in SUBSET Messages, NEW entries \in SUBSET Messages, Recent(entries, all),
         Cardinality(entries) > MinKeep
  PROVE  Recent(Kept(entries), all)
<1> USE HistoryAssumption
<1>0. /\ MinKeep \in Nat /\ Younger(entries) \in SUBSET entries /\ entries \subseteq all
      /\ Cardinality(entries) \in Nat /\ Cardinality(Younger(entries)) \in Nat
  BY Sizes DEF Younger, Recent
<1>1. /\ Newest(entries, MinKeep) \subseteq entries
      /\ \A k \in entries \ Newest(entries, MinKeep) : Cardinality(Later(entries, k)) >= MinKeep
      /\ Newest(entries, MinKeep) = entries \/ Cardinality(Newest(entries, MinKeep)) >= MinKeep
  BY <1>0, NewestFacts
<1>2. Kept(entries) \subseteq entries /\ Cardinality(Kept(entries)) >= MinKeep
  BY <1>0, <1>1 DEF Kept
<1>3. ASSUME NEW k \in entries \ Kept(entries) PROVE \E n \in all : n >= k /\ ~Young(n)
  <2>1. CASE Kept(entries) = Younger(entries)
    <3>1. ~Young(k) /\ k \in all /\ k >= k
      BY <1>0, <2>1 DEF Younger
    <3> QED
      BY <3>1
  <2>2. CASE Cardinality(Younger(entries)) < MinKeep /\ Kept(entries) = Newest(entries, MinKeep)
    <3>1. Cardinality(Later(entries, k)) >= MinKeep
      BY <1>1, <2>2
    <3>2. ~(Later(entries, k) \subseteq Younger(entries))
      <4>1. Younger(entries) \in SUBSET Messages
        BY <1>0
      <4>2. Later(entries, k) \subseteq Younger(entries) =>
              Cardinality(Later(entries, k)) =< Cardinality(Younger(entries))
              /\ Cardinality(Later(entries, k)) \in Nat
        BY <4>1, Sizes
      <4> QED
        BY <1>0, <2>2, <3>1, <4>2
    <3>3. PICK n \in Later(entries, k) : n \notin Younger(entries)
      BY <3>2
    <3>4. n \in all /\ n >= k /\ ~Young(n)
      BY <1>0, <3>3 DEF Later, Younger
    <3> QED
      BY <3>4
  <2> QED
    BY <2>1, <2>2 DEF Kept
<1>4. ASSUME NEW k \in all \ Kept(entries)
      PROVE  TrimmedFrom(all, k) \/ PrunedFrom(all, Kept(entries), k)
  <2>1. CASE k \in entries
    BY <1>2, <1>3, <2>1 DEF PrunedFrom
  <2>2. CASE k \notin entries
    BY <1>2, <2>2 DEF Recent, PrunedFrom
  <2> QED
    BY <2>1, <2>2
<1> QED
  BY <1>0, <1>2, <1>4 DEF Recent

-----------------------------------------------------------------------------

HistTyped ==
  /\ history = Torn \/ history \in SUBSET Messages
  /\ editor \in [Editors -> {"idle", "loaded", "writing", "done"}]
  /\ text \in [Editors -> SUBSET Messages]
  /\ written \in SUBSET Messages /\ sentOn \in [Messages -> 0..Days]
  /\ day \in 0..Days /\ dayCrashes \in 0..HistoryCrashes /\ spoiled \in BOOLEAN

\* The appends read the file in the order of their numbers, and those whose message is in
\* it are over; no timestamp is in the future.
Numbered ==
  /\ \A m, k \in Messages : editor[m] # "idle" /\ k < m => editor[k] # "idle"
  /\ \A m \in written : editor[m] = "done"
  /\ \A m \in Messages : sentOn[m] =< day

\* Unless something spoiled it, one edits at a time; the file is recent, or will be.
Unspoiled ==
  /\ \A m, n \in Editors : Editing(m) /\ Editing(n) => m = n
  /\ (\A m \in Editors : editor[m] # "writing") => history # Torn /\ Lacks(history, written, Old)
  /\ \A m \in Editors : Editing(m) => Lacks(text[m], written \cup ({m} \ {0}), Old)
  /\ \A m \in Editors : editor[m] = "writing" => history = Torn

HistInv == HistTyped /\ Numbered /\ (spoiled \/ Unspoiled)

\* The file is empty at first, and so is what was written.
LEMMA HistoryInitInv == HistoryInit => HistInv
<1> SUFFICES ASSUME HistoryInit PROVE HistInv
  OBVIOUS
<1> USE HistoryAssumption DEF HistoryInit
<1>1. HistTyped
  <2>1. spoiled \in BOOLEAN
    OBVIOUS
  <2> QED
    BY <2>1 DEF HistTyped
<1>2. Numbered
  BY DEF Numbered, Editors
<1>3. Unspoiled
  BY DEF Unspoiled, Editing, Lacks
<1> QED
  BY <1>1, <1>2, <1>3 DEF HistInv

\* What is lacked for old ones stays so when more are old.
LEMMA LacksStill ==
  ASSUME NEW all, NEW entries, NEW old, NEW older, all \cap old \subseteq older,
         Lacks(entries, all, old)
  PROVE  Lacks(entries, all, older)
  BY DEF Lacks

\* Who edits has a message that is not written, or none.
LEMMA EditorsFacts ==
  ASSUME HistInv
  PROVE  /\ 0 \in Editors /\ Messages \subseteq Editors /\ 0 \notin Messages
         /\ \A n \in Editors : n # 0 => n \in Messages
         /\ \A n \in Messages : n \in Nat
         /\ \A n \in Editors : Editing(n) => n \notin written
  BY HistoryAssumption DEF HistInv, HistTyped, Numbered, Editors, Editing

\* An append adds its message to what it loads.
LEMMA AppendMessageKeeps ==
  ASSUME HistInv, NEW m \in Messages, AppendMessage(m)
  PROVE  HistInv'
<1> USE HistoryAssumption DEF HistInv
<1>0. /\ editor[m] = "idle" /\ \A n \in Messages : n < m => editor[n] # "idle"
      /\ m \in Editors /\ m # 0 /\ m \in Nat
      /\ UNCHANGED <<history, written, day, dayCrashes>>
  BY DEF AppendMessage, Editors
<1>1. PICK entries \in Loaded :
        /\ Edits(m, Newest(entries \cup {m}, MaxEntries))
        /\ spoiled' = (spoiled \/ Overlaps(m) \/ entries # history)
  BY DEF AppendMessage
<1>2. entries \in SUBSET Messages /\ entries # Torn
  BY <1>1 DEF Loaded, HistTyped
<1>3. PICK d \in 0..day : sentOn' = [sentOn EXCEPT ![m] = d]
  BY DEF AppendMessage
<1>4. PICK edited \in SUBSET Messages : edited = Newest(entries \cup {m}, MaxEntries)
  BY <1>2 DEF Newest
<1>5. /\ editor' = [editor EXCEPT ![m] = "loaded"] /\ text' = [text EXCEPT ![m] = edited]
  BY <1>1, <1>4 DEF Edits
<1>6. HistTyped'
  <2>1. spoiled' \in BOOLEAN
    BY <1>1
  <2>2. sentOn' \in [Messages -> 0..Days]
    BY <1>3 DEF HistTyped
  <2> QED
    BY <1>0, <1>5, <2>1, <2>2 DEF HistTyped
<1>7. /\ editor'[m] = "loaded" /\ \A n \in Editors \ {m} : editor'[n] = editor[n]
      /\ text'[m] = edited /\ m \notin written
  BY <1>0, <1>5 DEF HistTyped, Numbered
<1>8. Numbered'
  <2>1. ASSUME NEW j \in Messages, NEW k \in Messages, editor'[j] # "idle", k < j
        PROVE  editor'[k] # "idle"
    <3>1. CASE k = m
      BY <3>1, <1>7
    <3>2. CASE k # m
      BY <3>2, <2>1, <1>0, <1>7, EditorsFacts DEF Numbered
    <3> QED
      BY <3>1, <3>2
  <2>2. \A n \in written : editor'[n] = "done"
    BY <1>0, <1>7, EditorsFacts DEF Numbered, HistTyped
  <2>3. \A n \in Messages : sentOn'[n] =< day
    BY <1>3 DEF Numbered, HistTyped
  <2> QED
    BY <1>0, <2>1, <2>2, <2>3 DEF Numbered
<1>9. ASSUME ~spoiled' PROVE Unspoiled'
  <2>1. /\ Unspoiled /\ entries = history /\ \A n \in Editors \ {m} : ~Editing(n)
    BY <1>1, <1>9 DEF Overlaps
  <2>2. \A n \in Editors : editor[n] # "writing" /\ editor'[n] # "writing"
    BY <1>0, <1>7, <2>1 DEF Editing
  <2>3. PICK older : older = Old'
    OBVIOUS
  <2>4. written \cap Old \subseteq older
    BY <1>0, <1>3, <1>7, <2>3 DEF HistTyped, Old, Young
  <2>5. Lacks(entries, written, older)
    BY <2>1, <2>2, <2>4, LacksStill DEF Unspoiled
  <2>6. Lacks(edited, written \cup {m}, older)
    BY <1>2, <1>4, <2>5, AppendedLacks DEF HistTyped
  <2>7. \A n \in Editors : Editing(n)' => n = m
    BY <1>7, <2>1 DEF Editing
  <2>8. {m} \ {0} = {m}
    BY <1>0
  <2>9. ASSUME NEW n \in Editors, Editing(n)' PROVE Lacks(text'[n], written' \cup ({n} \ {0}), older)
    BY <1>0, <1>7, <2>6, <2>7, <2>8, <2>9
  <2> QED
    BY <1>0, <1>2, <2>1, <2>2, <2>3, <2>5, <2>7, <2>9 DEF Unspoiled
<1> QED
  BY <1>6, <1>8, <1>9

\* The pruning drops what is old, or what is beyond MinKeep when less is young.
LEMMA PruneKeeps == HistInv /\ Prune => HistInv'
<1> SUFFICES ASSUME HistInv, Prune PROVE HistInv'
  OBVIOUS
<1> USE HistoryAssumption DEF HistInv
<1>0. /\ editor[0] = "idle" /\ history # Torn /\ Cardinality(history) > MinKeep
      /\ spoiled' = (spoiled \/ Overlaps(0))
      /\ UNCHANGED <<history, written, sentOn, day, dayCrashes>>
      /\ history \in SUBSET Messages
  BY DEF Prune, HistTyped
<1>1. PICK edited \in SUBSET Messages : edited = Kept(history)
  BY <1>0 DEF Kept, Newest, Younger
<1>2. editor' = [editor EXCEPT ![0] = "loaded"] /\ text' = [text EXCEPT ![0] = edited]
  BY <1>1 DEF Prune, Edits
<1>3. HistTyped'
  <2>1. spoiled' \in BOOLEAN
    BY <1>0
  <2> QED
    BY <1>0, <1>2, <2>1 DEF HistTyped
<1>4. /\ editor'[0] = "loaded" /\ \A n \in Editors \ {0} : editor'[n] = editor[n]
      /\ text'[0] = edited
  BY <1>2, EditorsFacts DEF HistTyped
<1>5. Numbered'
  BY <1>0, <1>4, EditorsFacts DEF Numbered, HistTyped
<1>6. ASSUME ~spoiled' PROVE Unspoiled'
  <2>1. Unspoiled /\ \A n \in Editors \ {0} : ~Editing(n)
    BY <1>0, <1>6 DEF Overlaps
  <2>2. \A n \in Editors : editor[n] # "writing" /\ editor'[n] # "writing"
    BY <1>0, <1>4, <2>1 DEF Editing
  <2>3. Old' = Old
    BY <1>0 DEF Old, Young
  <2>4. Recent(history, written)
    BY <2>1, <2>2, RecentLacks DEF Unspoiled, HistTyped
  <2>5. Lacks(edited, written, Old)
    <3>1. Recent(edited, written)
      BY <1>0, <1>1, <2>4, PrunedIsRecent DEF HistTyped
    <3> QED
      BY <3>1, RecentLacks DEF HistTyped
  <2>6. \A n \in Editors : Editing(n)' => n = 0
    BY <1>4, <2>1 DEF Editing
  <2>7. ASSUME NEW n \in Editors, Editing(n)' PROVE Lacks(text'[n], written' \cup ({n} \ {0}), Old)
    <3>1. written' \cup ({n} \ {0}) = written
      BY <1>0, <2>6, <2>7
    <3> QED
      BY <1>4, <2>5, <2>6, <2>7, <3>1
  <2> QED
    BY <1>0, <2>1, <2>2, <2>3, <2>6, <2>7 DEF Unspoiled
<1> QED
  BY <1>3, <1>5, <1>6

\* The edit that is under way truncates the file.
LEMMA TruncatesKeeps ==
  ASSUME HistInv, NEW m \in Editors, Truncates(m)
  PROVE  HistInv'
<1> USE HistoryAssumption DEF HistInv
<1>0. /\ editor[m] = "loaded" /\ editor' = [editor EXCEPT ![m] = "writing"] /\ history' = Torn
      /\ UNCHANGED <<text, written, sentOn, day, dayCrashes, spoiled>>
      /\ editor'[m] = "writing" /\ \A n \in Editors \ {m} : editor'[n] = editor[n]
  BY DEF Truncates, HistTyped
<1>1. HistTyped'
  BY <1>0 DEF HistTyped
<1>2. Numbered'
  BY <1>0, EditorsFacts DEF Numbered, Editing
<1>3. ASSUME Unspoiled PROVE Unspoiled'
  <2>1. \A n \in Editors : Editing(n)' = Editing(n)
    BY <1>0 DEF Editing
  <2>2. Old' = Old
    BY <1>0 DEF Old, Young
  <2> QED
    BY <1>0, <1>3, <2>1, <2>2 DEF Unspoiled
<1> QED
  BY <1>0, <1>1, <1>2, <1>3

\* An edit that is over leaves the others.
LEMMA EndsKeepNumbers ==
  ASSUME HistInv, NEW m \in Editors, Editing(m), EditEnds(m), UNCHANGED <<sentOn, day>>,
         written' \in {written, written \cup ({m} \ {0})}
  PROVE  /\ Numbered' /\ ~Editing(m)' /\ text' \in [Editors -> SUBSET Messages]
         /\ editor' \in [Editors -> {"idle", "loaded", "writing", "done"}]
         /\ \A n \in Editors \ {m} : editor'[n] = editor[n] /\ text'[n] = text[n]
<1> USE HistoryAssumption DEF HistInv
<1>1. /\ editor' \in [Editors -> {"idle", "loaded", "writing", "done"}]
      /\ text' \in [Editors -> SUBSET Messages]
      /\ \A n \in Editors \ {m} : editor'[n] = editor[n] /\ text'[n] = text[n]
      /\ editor'[m] = IF m = 0 THEN "idle" ELSE "done"
  BY DEF EditEnds, HistTyped
<1>2. Numbered'
  BY <1>1, EditorsFacts DEF Numbered, HistTyped, Editing
<1> QED
  BY <1>1, <1>2 DEF Editing

\* What is written is recent, unless another writer was in the file.
LEMMA WritesKeeps ==
  ASSUME HistInv, NEW m \in Editors, Writes(m)
  PROVE  HistInv'
<1> USE HistoryAssumption DEF HistInv
<1>0. /\ editor[m] = "writing" /\ Editing(m) /\ EditEnds(m)
      /\ written' = written \cup ({m} \ {0})
      /\ UNCHANGED <<sentOn, day, dayCrashes, spoiled>>
      /\ history' \in {text[m]} \cup IF history = Torn THEN {} ELSE {Torn}
  BY DEF Writes, Editing
<1>1. /\ Numbered' /\ ~Editing(m)' /\ text' \in [Editors -> SUBSET Messages]
      /\ editor' \in [Editors -> {"idle", "loaded", "writing", "done"}]
      /\ \A n \in Editors \ {m} : editor'[n] = editor[n] /\ text'[n] = text[n]
  BY <1>0, EndsKeepNumbers
<1>2. HistTyped'
  <2>1. history' = Torn \/ history' \in SUBSET Messages
    BY <1>0 DEF HistTyped
  <2>2. written' \in SUBSET Messages
    BY <1>0, EditorsFacts DEF HistTyped
  <2> QED
    BY <1>0, <1>1, <2>1, <2>2 DEF HistTyped
<1>3. ASSUME Unspoiled PROVE Unspoiled'
  <2>1. history = Torn /\ Lacks(text[m], written \cup ({m} \ {0}), Old)
        /\ \A n \in Editors : Editing(n) => n = m
    BY <1>0, <1>3 DEF Unspoiled
  <2>2. history' = text[m] /\ history' \in SUBSET Messages
    BY <1>0, <2>1 DEF HistTyped
  <2>3. Old' = Old
    BY <1>0 DEF Old, Young
  <2>4. \A n \in Editors : ~Editing(n)'
    BY <1>1, <2>1 DEF Editing
  <2>5. \A n \in Editors : editor'[n] # "writing"
    BY <2>4 DEF Editing
  <2>6. history' # Torn /\ Lacks(history', written', Old')
    BY <1>0, <2>1, <2>2, <2>3
  <2> QED
    BY <2>4, <2>5, <2>6 DEF Unspoiled
<1> QED
  BY <1>0, <1>1, <1>2, <1>3

\* A write that fails leaves the file as it was, or spoils it.
LEMMA WriteFailsKeeps ==
  ASSUME HistInv, NEW m \in Editors, WriteFails(m)
  PROVE  HistInv'
<1> USE HistoryAssumption DEF HistInv
<1>0. /\ Editing(m) /\ EditEnds(m) /\ spoiled' = (spoiled \/ editor[m] = "writing")
      /\ UNCHANGED <<history, written, sentOn, day, dayCrashes>>
  BY DEF WriteFails
<1>1. /\ Numbered' /\ ~Editing(m)' /\ text' \in [Editors -> SUBSET Messages]
      /\ editor' \in [Editors -> {"idle", "loaded", "writing", "done"}]
      /\ \A n \in Editors \ {m} : editor'[n] = editor[n] /\ text'[n] = text[n]
  BY <1>0, EndsKeepNumbers
<1>2. HistTyped'
  <2>1. spoiled' \in BOOLEAN
    BY <1>0
  <2> QED
    BY <1>0, <1>1, <2>1 DEF HistTyped
<1>3. ASSUME ~spoiled' PROVE Unspoiled'
  <2>1. Unspoiled /\ editor[m] # "writing" /\ \A n \in Editors : Editing(n) => n = m
    BY <1>0, <1>3 DEF Unspoiled
  <2>2. \A n \in Editors : editor[n] # "writing"
    BY <2>1 DEF Editing
  <2>3. Old' = Old
    BY <1>0 DEF Old, Young
  <2>4. \A n \in Editors : ~Editing(n)'
    BY <1>1, <2>1 DEF Editing
  <2>5. \A n \in Editors : editor'[n] # "writing"
    BY <2>4 DEF Editing
  <2>6. history' # Torn /\ Lacks(history', written', Old')
    BY <1>0, <2>1, <2>2, <2>3 DEF Unspoiled
  <2> QED
    BY <2>4, <2>5, <2>6 DEF Unspoiled
<1> QED
  BY <1>1, <1>2, <1>3

\* After a crash nobody edits, and a file that was being written is spoiled.
LEMMA HistoryCrashKeeps == HistInv /\ HistoryCrash => HistInv'
<1> SUFFICES ASSUME HistInv, HistoryCrash PROVE HistInv'
  OBVIOUS
<1> USE HistoryAssumption DEF HistInv
<1>0. /\ spoiled' = (spoiled \/ history = Torn) /\ dayCrashes' = dayCrashes + 1
      /\ dayCrashes < HistoryCrashes
      /\ UNCHANGED <<history, written, sentOn, day>>
      /\ text' = [m \in Editors |-> {}]
      /\ editor' = [m \in Editors |-> IF Editing(m) THEN IF m = 0 THEN "idle" ELSE "done"
                                      ELSE editor[m]]
  BY DEF HistoryCrash
<1>1. /\ editor' \in [Editors -> {"idle", "loaded", "writing", "done"}]
      /\ \A m \in Editors : ~Editing(m)' /\ editor'[m] # "writing"
      /\ \A m \in Messages : (editor'[m] # "idle") <=> (editor[m] # "idle")
      /\ \A m \in Messages : editor[m] = "done" => editor'[m] = "done"
  BY <1>0, EditorsFacts DEF HistTyped, Editing
<1>2. HistTyped'
  <2>1. spoiled' \in BOOLEAN
    BY <1>0
  <2> QED
    BY <1>0, <1>1, <2>1 DEF HistTyped
<1>3. Numbered'
  BY <1>0, <1>1 DEF Numbered, HistTyped
<1>4. ASSUME ~spoiled' PROVE Unspoiled'
  <2>1. Unspoiled /\ history # Torn
    BY <1>0, <1>4
  <2>2. Old' = Old
    BY <1>0 DEF Old, Young
  <2>3. Lacks(history', written', Old') /\ history' # Torn
    BY <1>0, <2>1, <2>2 DEF Unspoiled
  <2> QED
    BY <1>1, <2>3 DEF Unspoiled
<1> QED
  BY <1>2, <1>3, <1>4

\* What was too old still is on the next day.
LEMMA HistoryDayKeeps ==
  ASSUME HistInv, HistoryDay \/ UNCHANGED historyVars
  PROVE  HistInv'
<1> USE HistoryAssumption DEF HistInv
<1>0. /\ UNCHANGED <<history, editor, text, written, sentOn, dayCrashes, spoiled>>
      /\ day' \in 0..Days /\ day' >= day /\ day \in Nat
  BY DEF HistoryDay, historyVars, HistTyped
<1>1. HistTyped' /\ Numbered'
  <2>1. \A m \in Messages : sentOn[m] \in Nat
    BY DEF HistTyped
  <2> QED
    BY <1>0, <2>1 DEF HistTyped, Numbered
<1>2. ASSUME Unspoiled PROVE Unspoiled'
  <2>1. PICK older : older = Old'
    OBVIOUS
  <2>2. Old \subseteq older
    <3>1. \A m \in Messages : sentOn[m] \in Nat /\ sentOn[m] =< day
      BY DEF HistTyped, Numbered
    <3>2. ASSUME NEW m \in Messages, sentOn[m] # day PROVE sentOn'[m] # day'
      BY <1>0, <3>1, <3>2
    <3> QED
      BY <2>1, <3>2 DEF Old, Young
  <2>3. \A entries, all : Lacks(entries, all, Old) => Lacks(entries, all, older)
    BY <2>2 DEF Lacks
  <2>4. \A m \in Editors : Editing(m)' = Editing(m)
    BY <1>0 DEF Editing
  <2> QED
    BY <1>0, <1>2, <2>1, <2>3, <2>4 DEF Unspoiled
<1> QED
  BY <1>0, <1>1, <1>2

\* The invariant holds in every reachable state.
LEMMA HistoryInvariant == HistorySpec => []HistInv
<1>1. HistInv /\ [HistoryNext]_historyVars => HistInv'
  BY AppendMessageKeeps, PruneKeeps, TruncatesKeeps, WritesKeeps, WriteFailsKeeps,
     HistoryCrashKeeps, HistoryDayKeeps DEF HistoryNext
<1> QED
  BY <1>1, HistoryInitInv, PTL DEF HistorySpec

\* The types of the history and of its editors.
THEOREM HistoryTypeCorrect == HistorySpec => []HistoryTypeOK
<1>1. HistInv => HistoryTypeOK
  BY DEF HistInv, HistTyped, HistoryTypeOK
<1> QED
  BY <1>1, HistoryInvariant, PTL

\* For any messages, timestamps and limits: unless two edits overlapped, a read failed or a
\* write broke off, the file lacks nothing that was ever written but what was trimmed, or
\* pruned with MinKeep left (history.ts:39, 83).
THEOREM HistoryIsRecentAlways == HistorySpec => []HistoryIsRecent
<1>1. HistInv => HistoryIsRecent
  BY RecentLacks DEF HistInv, HistTyped, Unspoiled, HistoryIsRecent
<1> QED
  BY <1>1, HistoryInvariant, PTL

-----------------------------------------------------------------------------
(***************************************************************************)
(* The memory of a pet.                                                    *)
(***************************************************************************)

\* The parts of a pet's memory together have their types.
THEOREM PetMemoryTypeCorrect == PetMemorySpec => []TypeOK
<1>1. MemoryTypeOK /\ FeedTypeOK /\ SeederTypeOK /\ HistoryTypeOK => TypeOK
  BY DEF TypeOK
<1> QED
  BY <1>1, MemoryTypeCorrect, FeedTypeCorrect, SeederTypeCorrect, HistoryTypeCorrect, PTL
     DEF PetMemorySpec

\* For any pets, sessions, items, seeds and boots: the feed teaches a pet an item again only
\* when it forgot the topic and the poll that imported it saved no checkpoint, and the
\* seeding stores a seed again only after one that broke off, or without the state that
\* it could not read (subscriber.ts:66-76, seeder.ts:5).
THEOREM LearnedOnce == PetMemorySpec => []NothingLearnedTwice
<1>1. ImportedAtMostOnce /\ SeededOnce => NothingLearnedTwice
  BY DEF NothingLearnedTwice
<1> QED
  BY <1>1, ImportedOnceAlways, SeededOnceAlways, PTL DEF PetMemorySpec
=============================================================================
