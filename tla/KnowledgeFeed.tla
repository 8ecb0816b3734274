--------------------------- MODULE KnowledgeFeed ---------------------------
(***************************************************************************)
(* KnowledgeFeed (teaching/integrator.ts, knowledge-feed/ and the jobs     *)
(* knowledge-feed-poll and knowledge-feed-cleanup of cron/jobs.ts): what a *)
(* pet learns in a session is stored, published in a directory that all    *)
(* pets share, and imported by the others when they poll it.               *)
(*                                                                         *)
(* Each pet is a process of its own.  The local knowledge is abstracted to *)
(* its topics: what makes a pet forget one is in KnowledgeMemory.          *)
(***************************************************************************)
EXTENDS Naturals, Sequences, FiniteSets, SequencesExt

CONSTANTS Pets,
          Pollers,    \* the pets that poll the feed
          Sessions,   \* sessions that end and are integrated
          Items,      \* facts and corrections that their extraction may yield
          PetOf,      \* [Sessions -> Pets]
          ItemsOf,    \* [Sessions -> SUBSET Items], disjoint
          TopicOf,    \* [Items -> topics]
          Ttl,        \* feedTtlMs
          FeedTime,    \* bound on the clock
          FeedCrashes, \* bound on the crashes
          MaxForgets,  \* bound on how often a pet forgets a topic
          NoTime      \* no checkpoint

ASSUME FeedAssumption ==
  /\ Pollers \subseteq Pets
  /\ PetOf \in [Sessions -> Pets] /\ ItemsOf \in [Sessions -> SUBSET Items]
  /\ \A s1, s2 \in Sessions : s1 # s2 => ItemsOf[s1] \cap ItemsOf[s2] = {}
  /\ Ttl \in Nat /\ FeedTime \in Nat /\ FeedCrashes \in Nat /\ MaxForgets \in Nat
  /\ NoTime \notin Nat

VARIABLES
  session,    \* where integrate is, for each session
  extracted,  \* the items still to be saved
  saving,     \* the item that saveLearnings is at, with its publishedAt
  knows,      \* the topics in each pet's knowledge
  feed,       \* shared feed: [item, publishedAt]
  poll,       \* each pet's poll
  last,       \* this.lastPollTimestamp of each pet
  checkpoint, \* feed-subscriber-checkpoint.json of each pet
  feedClock, petCrashes,
  imports,    \* auxiliary: how often each pet imported each item
  lapsed,     \* auxiliary: in how many polls that did not save a checkpoint
  forgotten,  \* auxiliary: how often each pet forgot each topic
  hidden      \* auxiliary: the items each pet's polls could not see in time

pollVars == <<poll, last, checkpoint, imports, lapsed>>

feedVars == <<session, extracted, saving, knows, feed, feedClock, petCrashes, forgotten, hidden,
              pollVars>>

Topics == {TopicOf[i] : i \in Items}

FeedTimes == 0..FeedTime

NoSaving == [item |-> "none", publishedAt |-> 0]

\* got and unseen are auxiliary: what the poll imported, and what was published
\* behind its back.
NoPoll == [at |-> "idle", todo |-> <<>>, latest |-> 0, got |-> {}, unseen |-> {}]

FeedInit ==
  /\ session = [s \in Sessions |-> "open"]
  /\ extracted = [s \in Sessions |-> {}]
  /\ saving = [s \in Sessions |-> NoSaving]
  /\ knows = [p \in Pets |-> {}]
  /\ feed = {}
  /\ poll = [p \in Pets |-> NoPoll]
  /\ last = [p \in Pets |-> NoTime] /\ checkpoint = [p \in Pets |-> NoTime]
  /\ feedClock = 0 /\ petCrashes = 0
  /\ imports = [p \in Pets |-> [i \in Items |-> 0]]
  /\ lapsed = [p \in Pets |-> [i \in Items |-> 0]]
  /\ forgotten = [p \in Pets |-> [topic \in Topics |-> 0]]
  /\ hidden = [p \in Pets |-> {}]

Remembers(p, topic) == knows' = [knows EXCEPT ![p] = @ \cup {topic}]

-----------------------------------------------------------------------------
(***************************************************************************)
(* SessionIntegrator.integrate.                                            *)
(***************************************************************************)

\* The session ends; the model is asked what to remember.
Extracts(s) ==
  /\ session[s] = "open"
  /\ session' = [session EXCEPT ![s] = "extracting"]
  /\ UNCHANGED <<extracted, saving, knows, feed, feedClock, petCrashes, forgotten, hidden, pollVars>>

\* Its answer: some items, or none when the call or the parsing fails.
Extracted(s) ==
  /\ session[s] = "extracting"
  /\ \E items \in SUBSET ItemsOf[s] : extracted' = [extracted EXCEPT ![s] = items]
  /\ session' = [session EXCEPT ![s] = "saving"]
  /\ UNCHANGED <<saving, knows, feed, feedClock, petCrashes, forgotten, hidden, pollVars>>

\* saveLearnings stores the next item; a failure is logged and the loop goes on.
Stores(s, i) ==
  /\ session[s] = "saving" /\ saving[s] = NoSaving /\ i \in extracted[s]
  /\ extracted' = [extracted EXCEPT ![s] = @ \ {i}]
  /\ \/ /\ Remembers(PetOf[s], TopicOf[i])
        /\ saving' = [saving EXCEPT ![s] = [item |-> i, publishedAt |-> feedClock]]
     \/ UNCHANGED <<knows, saving>>
  /\ UNCHANGED <<session, feed, feedClock, petCrashes, forgotten, hidden, pollVars>>

\* The time after which p will look for entries, the next time it starts.
Position(p) == IF last[p] # NoTime THEN last[p] ELSE checkpoint[p]

\* p has looked past t already, or will have when its poll ends.
Passed(p, t) == Position(p) # NoTime /\ t =< Position(p)

WillPass(p, t) ==
  /\ poll[p].at # "idle"
  /\ \/ t =< poll[p].latest
     \/ \E k \in DOMAIN poll[p].todo : t =< poll[p].todo[k].publishedAt

\* publish wrote the entry, with the time it began: it is visible only now.
Publishes(s) ==
  /\ saving[s] # NoSaving
  /\ feed' = feed \cup {saving[s]}
  /\ hidden' = [p \in Pets |-> hidden[p] \cup
                  IF Passed(p, saving[s].publishedAt) THEN {saving[s].item} ELSE {}]
  /\ poll' = [p \in Pets |-> [poll[p] EXCEPT !.unseen = @ \cup
                IF WillPass(p, saving[s].publishedAt) THEN {saving[s].item} ELSE {}]]
  /\ saving' = [saving EXCEPT ![s] = NoSaving]
  /\ UNCHANGED <<session, extracted, knows, last, checkpoint, feedClock, petCrashes, imports, lapsed,
                 forgotten>>

\* The write failed, which is only logged.
PublishFails(s) ==
  /\ saving[s] # NoSaving
  /\ saving' = [saving EXCEPT ![s] = NoSaving]
  /\ UNCHANGED <<session, extracted, knows, feed, feedClock, petCrashes, forgotten, hidden, pollVars>>

\* All items are handled: the reflection is generated and saved, if any, and a
\* note is added to the relationship.
Integrated(s) ==
  /\ session[s] = "saving" /\ extracted[s] = {} /\ saving[s] = NoSaving
  /\ session' = [session EXCEPT ![s] = "integrated"]
  /\ UNCHANGED <<extracted, saving, knows, feed, feedClock, petCrashes, forgotten, hidden, pollVars>>

-----------------------------------------------------------------------------
(***************************************************************************)
(* FeedSubscriber.poll.                                                    *)
(***************************************************************************)

\* loadCheckpoint: what is in memory, else in the file, else the present; the
\* present too when the file is there but cannot be read.
LoadedCheckpoints(p) ==
  IF last[p] # NoTime THEN {last[p]} ELSE {feedClock} \cup ({checkpoint[p]} \ {NoTime})

\* listSince, sorted by publishedAt.
After(t) == {f \in feed : f.publishedAt > t}

Earlier(f, g) == f.publishedAt =< g.publishedAt

Ascending(listing) ==
  \A j, k \in DOMAIN listing : j < k => Earlier(listing[j], listing[k])

\* What a start at the present passes over.
Overlooked(p, t) ==
  IF last[p] = NoTime /\ t # checkpoint[p] THEN {f.item : f \in {g \in feed : g.publishedAt =< t}}
  ELSE {}

PollStarts(p) ==
  /\ poll[p].at = "idle"
  /\ \E t \in LoadedCheckpoints(p) :
       /\ last' = [last EXCEPT ![p] = t]
       /\ hidden' = [hidden EXCEPT ![p] = @ \cup Overlooked(p, t)]
       /\ \E listing \in {l \in SetToSeqs(After(t)) : Ascending(l)} :
            poll' = [poll EXCEPT ![p] = [at |-> "importing", todo |-> listing, latest |-> t,
                                         got |-> {}, unseen |-> {}]]
  /\ UNCHANGED <<session, extracted, saving, knows, feed, checkpoint, feedClock, petCrashes,
                 imports, lapsed, forgotten>>

NextEntry(p) == Head(poll[p].todo)

IsOwn(p, i) == \E s \in Sessions : i \in ItemsOf[s] /\ PetOf[s] = p

\* Mutant: a topic that is known already is imported again.
WantsOthers(p, f) == ~IsOwn(p, f.item)

Wants(p, f) == ~IsOwn(p, f.item) /\ TopicOf[f.item] \notin knows[p]

\* The next entry is imported, or skipped as its own or as a known topic.
PollEntry(p) ==
  /\ poll[p].at = "importing" /\ poll[p].todo # <<>>
  /\ LET i == NextEntry(p).item
         new == IF Wants(p, NextEntry(p)) THEN {i} ELSE {}
     IN  /\ knows' = [knows EXCEPT ![p] = @ \cup {TopicOf[j] : j \in new}]
         /\ imports' = [imports EXCEPT ![p][i] = @ + Cardinality(new)]
         /\ poll' = [poll EXCEPT ![p] = [poll[p] EXCEPT !.todo = Tail(@), !.got = @ \cup new,
                                                        !.latest = NextEntry(p).publishedAt]]
  /\ UNCHANGED <<session, extracted, saving, feed, last, checkpoint, feedClock, petCrashes, lapsed,
                 forgotten, hidden>>

\* What p's poll imported is not behind its checkpoint.
Lapses(p) ==
  lapsed' = [lapsed EXCEPT ![p] = [i \in Items |-> IF i \in poll[p].got THEN @[i] + 1 ELSE @[i]]]

\* An import throws: the poll ends, and the checkpoint stays.
PollFails(p) ==
  /\ poll[p].at = "importing" /\ poll[p].todo # <<>> /\ Wants(p, NextEntry(p))
  /\ Lapses(p)
  /\ poll' = [poll EXCEPT ![p] = NoPoll]
  /\ UNCHANGED <<session, extracted, saving, knows, feed, last, checkpoint, feedClock,
                 petCrashes, imports, forgotten, hidden>>

\* Mutant: the checkpoint is the present.
PresentTime(p) == feedClock

\* The time of the last entry listed.
LatestTime(p) == poll[p].latest

\* saveCheckpoint: in memory at once, ...
PollSaves(p) ==
  /\ poll[p].at = "importing" /\ poll[p].todo = <<>>
  /\ last' = [last EXCEPT ![p] = LatestTime(p)]
  /\ hidden' = [hidden EXCEPT ![p] = @ \cup poll[p].unseen]
  /\ poll' = [poll EXCEPT ![p].at = "saving"]
  /\ UNCHANGED <<session, extracted, saving, knows, feed, checkpoint, feedClock, petCrashes,
                 imports, lapsed, forgotten>>

\* ... then in the file.
PollEnds(p) ==
  /\ poll[p].at = "saving"
  /\ checkpoint' = [checkpoint EXCEPT ![p] = last[p]]
  /\ poll' = [poll EXCEPT ![p] = NoPoll]
  /\ UNCHANGED <<session, extracted, saving, knows, feed, last, feedClock, petCrashes, imports,
                 lapsed, forgotten, hidden>>

\* The checkpoint as a write that does not end leaves it: as it was, or unreadable.
Unwritten(p) == {checkpoint, [checkpoint EXCEPT ![p] = NoTime]}

\* The write throws: the memory has the new checkpoint, the file has not.
PollSaveFails(p) ==
  /\ poll[p].at = "saving"
  /\ checkpoint' \in Unwritten(p)
  /\ Lapses(p)
  /\ poll' = [poll EXCEPT ![p] = NoPoll]
  /\ UNCHANGED <<session, extracted, saving, knows, feed, last, feedClock, petCrashes, imports,
                 forgotten, hidden>>

-----------------------------------------------------------------------------
(***************************************************************************)
(* Cleanup, time and crashes.                                              *)
(***************************************************************************)

\* The entries whose time to live is over are removed, one by one.
Cleans(f) ==
  /\ f \in feed /\ f.publishedAt + Ttl < feedClock
  /\ feed' = feed \ {f}
  /\ UNCHANGED <<session, extracted, saving, knows, feedClock, petCrashes, forgotten, hidden, pollVars>>

FeedTimePasses ==
  /\ feedClock < FeedTime /\ feedClock' = feedClock + 1
  /\ UNCHANGED <<session, extracted, saving, knows, feed, petCrashes, forgotten, hidden, pollVars>>

\* The entries of a topic leave p's knowledge: it decayed, or was overdue in the
\* scratchpad, and was archived or deleted.
Forgets(p, topic) ==
  /\ topic \in knows[p] /\ forgotten[p][topic] < MaxForgets
  /\ knows' = [knows EXCEPT ![p] = @ \ {topic}]
  /\ forgotten' = [forgotten EXCEPT ![p][topic] = @ + 1]
  /\ UNCHANGED <<session, extracted, saving, feed, feedClock, petCrashes, hidden, pollVars>>

\* p dies: its sessions and its poll are gone.  The checkpoint is written in
\* place: when p dies while it writes it, the file may be unreadable.
PetCrash(p) ==
  /\ petCrashes < FeedCrashes /\ petCrashes' = petCrashes + 1
  /\ session' = [s \in Sessions |-> IF PetOf[s] = p THEN "integrated" ELSE session[s]]
  /\ extracted' = [s \in Sessions |-> IF PetOf[s] = p THEN {} ELSE extracted[s]]
  /\ saving' = [s \in Sessions |-> IF PetOf[s] = p THEN NoSaving ELSE saving[s]]
  /\ poll' = [poll EXCEPT ![p] = NoPoll]
  /\ last' = [last EXCEPT ![p] = NoTime]
  /\ checkpoint' \in IF poll[p].at = "saving" THEN Unwritten(p) ELSE {checkpoint}
  /\ Lapses(p)
  /\ UNCHANGED <<knows, feed, feedClock, imports, forgotten, hidden>>

-----------------------------------------------------------------------------

FeedNext ==
  \/ \E s \in Sessions : \/ Extracts(s) \/ Extracted(s) \/ Publishes(s)
                         \/ PublishFails(s) \/ Integrated(s)
                         \/ \E i \in Items : Stores(s, i)
  \/ \E p \in Pollers : \/ PollStarts(p) \/ PollEntry(p) \/ PollFails(p)
                        \/ PollSaves(p) \/ PollEnds(p) \/ PollSaveFails(p)
  \/ \E p \in Pets : PetCrash(p) \/ \E topic \in Topics : Forgets(p, topic)
  \/ \E f \in feed : Cleans(f)
  \/ FeedTimePasses

FeedSpec == FeedInit /\ [][FeedNext]_feedVars

-----------------------------------------------------------------------------
(***************************************************************************)
(* Properties.                                                             *)
(***************************************************************************)

FeedTypeOK ==
  /\ session \in [Sessions -> {"open", "extracting", "saving", "integrated"}]
  /\ \A s \in Sessions : extracted[s] \subseteq ItemsOf[s]
  /\ feed \subseteq [item : Items, publishedAt : FeedTimes]
  /\ \A s \in Sessions : saving[s] = NoSaving \/ saving[s] \in [item : Items, publishedAt : FeedTimes]
  /\ last \in [Pets -> FeedTimes \cup {NoTime}] /\ checkpoint \in [Pets -> FeedTimes \cup {NoTime}]
  /\ \A p \in Pets : /\ poll[p].at \in {"idle", "importing", "saving"}
                     /\ poll[p].latest \in FeedTimes /\ poll[p].got \subseteq Items
                     /\ \A k \in DOMAIN poll[p].todo :
                          poll[p].todo[k] \in [item : Items, publishedAt : FeedTimes]
  /\ feedClock \in FeedTimes /\ petCrashes \in 0..FeedCrashes

\* "skip if topic already exists" (subscriber.ts:76): a pet imports an item again
\* only when it forgot the topic in between, and only when the poll that imported
\* it did not get to save its checkpoint; it never imports what it taught itself.
ImportedAtMostOnce ==
  \A p \in Pets, i \in Items :
    /\ imports[p][i] =< 1 + lapsed[p][i]
    /\ imports[p][i] =< 1 + forgotten[p][TopicOf[i]]
    /\ imports[p][i] > 0 => ~IsOwn(p, i)

\* p knows the topic, or did.
Knew(p, topic) == topic \in knows[p] \/ forgotten[p][topic] > 0

\* What the checkpoint has passed became known, or it could not be seen in time: it
\* was published, or became visible, behind the back of a poll, or the pet started
\* at the present for want of a checkpoint (subscriber.ts:4).
NothingSkipped ==
  \A p \in Pets, f \in feed :
    /\ poll[p].at # "importing" /\ last[p] # NoTime
    /\ f.publishedAt =< last[p]
    => \/ Knew(p, TopicOf[f.item])
       \/ f.item \in hidden[p]
=============================================================================
