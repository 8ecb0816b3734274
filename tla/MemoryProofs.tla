---------------------------- MODULE MemoryProofs ----------------------------
(***************************************************************************)
(* Proofs about KnowledgeMemory, for any entries, topics and prompts, and  *)
(* any number of passes that overlap.                                      *)
(***************************************************************************)
EXTENDS KnowledgeMemory, TLAPS

Places == {"idle", "reinforcing", "decaying", "archiving", "expiring", "promoting", "merging",
           "bringing", "studying"}

Copies == [Entries -> Entry \cup {NoEntry}]

Pass == [at : Places, todo : SUBSET Entries, now : Entries \cup {NoEntry}, seen : Copies]

\* What a pass will write back is a copy that it has, of the kind it looked for.
CopiesKept ==
  \A j \in Jobs : \A e \in pass[j].todo :
    /\ pass[j].at \in {"reinforcing", "decaying", "expiring", "promoting"} => Copy(j, e) \in Entry
    /\ pass[j].at = "expiring" => Copy(j, e).tier = 1
    /\ pass[j].at = "promoting" => MayPromote(Copy(j, e))

\* Only the decay deletes what it has put into the archive.
ArchivedNow ==
  \A j \in Jobs : pass[j].now # NoEntry =>
    j = "decay" /\ pass[j].now \in pass[j].todo /\ pass[j].now \in archive

\* What a study will store is unknown to everything else.
StudyFresh ==
  \A e \in pass["study"].todo :
    /\ e \notin Live /\ e \notin archive
    /\ \A j \in Jobs \ {"study"} : e \notin pass[j].todo

\* A pass that is over has nothing left to do.
IdleEmpty == \A j \in Jobs : pass[j].at = "idle" => pass[j].todo = {}

PassInv == CopiesKept /\ ArchivedNow /\ StudyFresh /\ IdleEmpty

MemoryInv == MemoryTypeOK /\ PassInv

-----------------------------------------------------------------------------
(***************************************************************************)
(* What a step does to the passes.                                         *)
(***************************************************************************)

PassTyped == pass \in [Jobs -> Pass]

Others(j) == \A k \in Jobs \ {j} : pass'[k] = pass[k]

LEMMA PassesTyped == MemoryTypeOK => PassTyped
  BY DEF MemoryTypeOK, PassTyped, Pass, Places, Copies

LEMMA JobNames ==
  /\ {"decay", "tiers", "dedup", "propagation", "study"} \cup Prompts = Jobs
  /\ \A p \in Prompts : p # "decay" /\ p # "tiers" /\ p # "dedup" /\ p # "propagation" /\ p # "study"
  BY EntryAssumption DEF Jobs

LEMMA NoEntries == Nothing \in Copies
  BY DEF Nothing, Copies

LEMMA EndsShape ==
  ASSUME PassTyped, NEW j \in Jobs, Ends(j)
  PROVE  /\ PassTyped' /\ Others(j)
         /\ pass'[j].at = "idle" /\ pass'[j].todo = {} /\ pass'[j].now = NoEntry
<1>1. Idle \in Pass
  BY NoEntries DEF Idle, Pass, Places
<1>2. pass' = [pass EXCEPT ![j] = Idle]
  BY DEF Ends
<1> QED
  BY <1>1, <1>2 DEF PassTyped, Others, Idle

LEMMA ListsShape ==
  ASSUME PassTyped, NEW j \in Jobs, NEW at \in Places, NEW todo \in SUBSET Entries,
         Lists(j, at, todo)
  PROVE  /\ PassTyped' /\ Others(j)
         /\ pass'[j].at = at /\ pass'[j].todo = todo /\ pass'[j].now = NoEntry
<1> DEFINE new == [at |-> at, todo |-> todo, now |-> NoEntry, seen |-> Nothing]
<1>1. new \in Pass
  BY NoEntries DEF Pass
<1>2. pass' = [pass EXCEPT ![j] = new]
  BY DEF Lists
<1> QED
  BY <1>1, <1>2 DEF PassTyped, Others

LEMMA ReadAllShape ==
  ASSUME PassTyped, store \in Copies, NEW j \in Jobs, NEW at \in Places,
         NEW todo \in SUBSET Entries, ReadAll(j, at, todo)
  PROVE  /\ PassTyped' /\ Others(j)
         /\ pass'[j].at = at /\ pass'[j].todo = todo /\ pass'[j].now = NoEntry
         /\ \A e \in todo : pass'[j].seen[e] = store[e]
<1> DEFINE copies == [e \in Entries |-> IF e \in todo THEN store[e] ELSE NoEntry]
           new == [at |-> at, todo |-> todo, now |-> NoEntry, seen |-> copies]
<1>1. copies \in Copies
  BY DEF Copies
<1>2. new \in Pass
  BY <1>1 DEF Pass
<1>3. pass' = [pass EXCEPT ![j] = new]
  BY DEF ReadAll
<1>4. \A e \in todo : copies[e] = store[e]
  OBVIOUS
<1> HIDE DEF copies
<1> QED
  BY <1>2, <1>3, <1>4 DEF PassTyped, Others

LEMMA HandledShape ==
  ASSUME PassTyped, NEW j \in Jobs, NEW e \in Entries, Handled(j, e)
  PROVE  /\ PassTyped' /\ Others(j)
         /\ pass'[j].at = pass[j].at /\ pass'[j].todo = pass[j].todo \ {e}
         /\ pass'[j].now = NoEntry
         /\ \A d \in pass[j].todo \ {e} : pass'[j].seen[d] = pass[j].seen[d]
<1> DEFINE copies == [d \in Entries |-> IF d = e THEN NoEntry ELSE pass[j].seen[d]]
           new == [at |-> pass[j].at, todo |-> pass[j].todo \ {e}, now |-> NoEntry, seen |-> copies]
<1>1. pass[j] \in Pass
  BY DEF PassTyped
<1>2. copies \in Copies
  BY <1>1 DEF Copies, Pass
<1>3. new \in Pass
  BY <1>1, <1>2 DEF Pass
<1>4. pass' = [pass EXCEPT ![j] = new]
  BY DEF Handled
<1>5. \A d \in pass[j].todo \ {e} : copies[d] = pass[j].seen[d]
  BY <1>1 DEF Pass
<1> HIDE DEF copies
<1> QED
  BY <1>3, <1>4, <1>5 DEF PassTyped, Others

-----------------------------------------------------------------------------
(***************************************************************************)
(* What a step may do to the store.                                        *)
(***************************************************************************)

Learnt == \E e \in Entries, entry \in Entry : e \notin Live /\ e \notin archive /\ Write(e, entry)

Reason(e) ==
  \/ Handles("decay", e) /\ e \in archive
  \/ Handles("tiers", e) /\ ~ForWorking(Copy("tiers", e)) /\ Copy("tiers", e).tier = 1
  \/ Handles("dedup", e)

Forgotten == \E e \in Entries : Reason(e) /\ Delete(e)

NoLess(entry, copy) == entry.refs >= copy.refs /\ entry.tier >= copy.tier

Rewritten ==
  \E j \in Jobs, e \in Entries, entry \in Entry :
    /\ Handles(j, e) /\ Write(e, entry)
    /\ j = "propagation" \/ (Copy(j, e) \in Entry /\ NoLess(entry, Copy(j, e)))

Outcome == UNCHANGED store \/ Learnt \/ Forgotten \/ Rewritten

Preserves == MemoryInv' /\ Outcome

-----------------------------------------------------------------------------
(***************************************************************************)
(* What keeps the invariant of the passes.                                 *)
(***************************************************************************)

\* A pass starts, goes on to its next part, or ends.
LEMMA StartKeeps ==
  ASSUME MemoryInv, NEW j \in Jobs, PassTyped', Others(j), UNCHANGED <<store, archive>>,
         pass'[j].now = NoEntry, pass'[j].at = "idle" => pass'[j].todo = {},
         \A e \in pass'[j].todo :
           /\ pass'[j].at \in {"reinforcing", "decaying", "expiring", "promoting"}
                => pass'[j].seen[e] \in Entry
           /\ pass'[j].at = "expiring" => pass'[j].seen[e].tier = 1
           /\ pass'[j].at = "promoting" => MayPromote(pass'[j].seen[e]),
         \A e \in pass'[j].todo :
           IF j = "study" THEN e \notin archive /\ e \notin Live /\ \A k \in Jobs : e \notin pass[k].todo
           ELSE e \notin pass["study"].todo
  PROVE  Preserves
<1> USE DEF MemoryInv, PassInv
<1>1. CopiesKept'
  BY DEF CopiesKept, Others, Copy
<1>2. ArchivedNow'
  BY DEF ArchivedNow, Others
<1>3. StudyFresh'
  <2>1. \A k \in Jobs \ {j} : pass'[k].todo = pass[k].todo
    BY DEF Others
  <2>2. "study" \in Jobs
    BY DEF Jobs
  <2>3. Live' = Live /\ archive' = archive
    BY DEF Live
  <2>4. CASE j = "study"
    BY <2>1, <2>3, <2>4 DEF StudyFresh
  <2>5. CASE j # "study"
    BY <2>1, <2>2, <2>3, <2>5 DEF StudyFresh
  <2> QED
    BY <2>4, <2>5
<1>4. IdleEmpty'
  BY DEF IdleEmpty, Others
<1>5. MemoryTypeOK'
  BY DEF MemoryTypeOK, PassTyped, Pass, Places, Copies
<1> QED
  BY <1>1, <1>2, <1>3, <1>4, <1>5 DEF Preserves, Outcome

\* A pass handles an entry, whatever it does to the file of that entry.
LEMMA HandlingKeeps ==
  ASSUME MemoryInv, NEW j \in Jobs, NEW e \in pass[j].todo, PassTyped', Others(j),
         store' \in Copies, \A d \in Entries \ {e} : store'[d] = store[d], archive' = archive,
         pass'[j].now = NoEntry, pass'[j].todo \subseteq pass[j].todo \ {e},
         pass'[j].at = pass[j].at \/ pass'[j].todo = {},
         \A d \in pass'[j].todo : pass'[j].seen[d] = pass[j].seen[d]
  PROVE  MemoryInv'
<1> USE DEF MemoryInv, PassInv
<1>1. CopiesKept'
  BY DEF CopiesKept, Others, Copy
<1>2. ArchivedNow'
  BY DEF ArchivedNow, Others
<1>3. StudyFresh'
  <2>1. \A k \in Jobs : pass'[k].todo \subseteq pass[k].todo
    BY DEF Others
  <2>2. "study" \in Jobs /\ pass["study"].todo \subseteq Entries
    BY PassesTyped DEF Jobs, PassTyped, Pass
  <2>3. e \notin pass'["study"].todo
    <3>1. CASE j = "study"
      BY <3>1
    <3>2. CASE j # "study"
      BY <2>1, <2>2, <3>2 DEF StudyFresh
    <3> QED
      BY <3>1, <3>2
  <2>4. \A d \in Entries \ {e} : d \in Live' => d \in Live
    BY DEF Live
  <2> QED
    BY <2>1, <2>2, <2>3, <2>4 DEF StudyFresh
<1>4. IdleEmpty'
  BY DEF IdleEmpty, Others
<1>5. MemoryTypeOK'
  BY DEF MemoryTypeOK, PassTyped, Pass, Places, Copies
<1> QED
  BY <1>1, <1>2, <1>3, <1>4, <1>5

\* Something new is learnt.
LEMMA LearningKeeps ==
  ASSUME MemoryInv, NEW e \in Fresh, NEW confidence \in 0..2, Upsert(e, confidence),
         UNCHANGED <<archive, pass>>
  PROVE  Preserves
<1> DEFINE entry == [tier |-> 1, refs |-> 0, strength |-> Full, confidence |-> confidence]
<1>1. entry \in Entry
  BY MemoryAssumption DEF Entry
<1>2. /\ e \in Entries /\ e \notin Live /\ e \notin archive
      /\ \A j \in Jobs : e \notin pass[j].todo
  BY DEF Fresh
<1>3. store' = [store EXCEPT ![e] = entry]
  BY DEF Upsert, Write
<1>4. MemoryTypeOK'
  BY <1>1, <1>2, <1>3 DEF MemoryInv, MemoryTypeOK
<1>5. CopiesKept' /\ ArchivedNow' /\ IdleEmpty'
  BY DEF MemoryInv, PassInv, CopiesKept, ArchivedNow, IdleEmpty, Copy
<1>6. StudyFresh'
  <2>1. \A d \in Entries \ {e} : d \in Live' => d \in Live
    BY <1>2, <1>3 DEF Live, MemoryInv, MemoryTypeOK
  <2>2. "study" \in Jobs /\ pass["study"].todo \subseteq Entries
    BY PassesTyped DEF Jobs, PassTyped, Pass, MemoryInv
  <2> QED
    BY <1>2, <2>1, <2>2 DEF StudyFresh, MemoryInv, PassInv
<1>7. Outcome
  BY <1>1, <1>2, <1>3 DEF Outcome, Learnt, Write
<1> QED
  BY <1>4, <1>5, <1>6, <1>7 DEF Preserves, MemoryInv, PassInv

-----------------------------------------------------------------------------
(***************************************************************************)
(* The actions.                                                            *)
(***************************************************************************)

LEMMA StudyKnowsNothing ==
  ASSUME MemoryInv, NEW e \in Live PROVE e \notin pass["study"].todo
  BY DEF MemoryInv, PassInv, StudyFresh

LEMMA LiveEntries == MemoryInv => \A e \in Live : e \in Entries /\ store[e] \in Entry
  BY DEF MemoryInv, MemoryTypeOK, Live

LEMMA StoreTyped == MemoryInv => store \in Copies /\ PassTyped
  BY PassesTyped DEF MemoryInv, MemoryTypeOK, Copies

\* A pass that reads the store for copies of some of what is there.
LEMMA ReadingKeeps ==
  ASSUME MemoryInv, NEW j \in Jobs \ {"study"}, NEW at \in Places \ {"idle"},
         NEW todo \in SUBSET Live, ReadAll(j, at, todo), UNCHANGED <<store, archive>>,
         at = "expiring" => \A e \in todo : store[e].tier = 1,
         at = "promoting" => \A e \in todo : MayPromote(store[e])
  PROVE  Preserves
<1>1. todo \in SUBSET Entries /\ \A e \in todo : store[e] \in Entry
  BY LiveEntries
<1>2. /\ PassTyped' /\ Others(j)
      /\ pass'[j].at = at /\ pass'[j].todo = todo /\ pass'[j].now = NoEntry
      /\ \A e \in todo : pass'[j].seen[e] = store[e]
  BY <1>1, StoreTyped, ReadAllShape
<1>3. \A e \in todo : e \notin pass["study"].todo
  BY StudyKnowsNothing
<1> QED
  BY <1>1, <1>2, <1>3, StartKeeps

\* A pass that lists what is there.
LEMMA ListingKeeps ==
  ASSUME MemoryInv, NEW j \in Jobs \ {"study"}, NEW at \in {"archiving", "merging"},
         NEW todo \in SUBSET Live, Lists(j, at, todo), UNCHANGED <<store, archive>>
  PROVE  Preserves
<1>1. todo \in SUBSET Entries
  BY LiveEntries
<1>2. /\ PassTyped' /\ Others(j)
      /\ pass'[j].at = at /\ pass'[j].todo = todo /\ pass'[j].now = NoEntry
  BY <1>1, StoreTyped, ListsShape DEF Places
<1>3. \A e \in todo : e \notin pass["study"].todo
  BY StudyKnowsNothing
<1> QED
  BY <1>2, <1>3, StartKeeps

LEMMA EndingKeeps ==
  ASSUME MemoryInv, NEW j \in Jobs, Ends(j), UNCHANGED <<store, archive>> PROVE Preserves
<1>1. /\ PassTyped' /\ Others(j)
      /\ pass'[j].at = "idle" /\ pass'[j].todo = {} /\ pass'[j].now = NoEntry
  BY StoreTyped, EndsShape
<1> QED
  BY <1>1, StartKeeps

LEMMA StartsKeep ==
  ASSUME MemoryInv,
         \/ \E e \in Entries, p \in Prompts : ReinforceReads(p, e)
         \/ DecayReads \/ ArchiveReads \/ ExpireReads \/ PromoteReads \/ DedupReads
         \/ PropagationReads \/ StudyReads
  PROVE  Preserves
<1>1. ASSUME NEW e \in Entries, NEW p \in Prompts, ReinforceReads(p, e) PROVE Preserves
  <2>1. p \in Jobs \ {"study"} /\ {e} \in SUBSET Live /\ "reinforcing" \in Places \ {"idle"}
    BY <1>1, JobNames DEF ReinforceReads, Shown, Places
  <2> QED
    BY <1>1, <2>1, ReadingKeeps DEF ReinforceReads
<1>2. CASE DecayReads
  <2>1. PICK faded \in SUBSET {e \in Live : store[e].strength > 0} : ReadAll("decay", "decaying", faded)
    BY <1>2 DEF DecayReads
  <2>2. faded \in SUBSET Live /\ "decay" \in Jobs \ {"study"} /\ "decaying" \in Places \ {"idle"}
    BY DEF Jobs, Places
  <2> QED
    BY <1>2, <2>1, <2>2, ReadingKeeps DEF DecayReads
<1>3. CASE ArchiveReads
  <2>1. {e \in Live : Weak(store[e])} \in SUBSET Live /\ "decay" \in Jobs \ {"study"}
    BY DEF Jobs
  <2> QED
    BY <1>3, <2>1, ListingKeeps DEF ArchiveReads
<1>4. CASE ExpireReads
  <2>1. PICK overdue \in SUBSET {e \in Live : store[e].tier = 1} : ReadAll("tiers", "expiring", overdue)
    BY <1>4 DEF ExpireReads
  <2>2. overdue \in SUBSET Live /\ "tiers" \in Jobs \ {"study"} /\ "expiring" \in Places \ {"idle"}
    BY DEF Jobs, Places
  <2> QED
    BY <1>4, <2>1, <2>2, ReadingKeeps DEF ExpireReads
<1>5. CASE PromoteReads
  <2>1. /\ {e \in Live : MayPromote(store[e])} \in SUBSET Live
        /\ "tiers" \in Jobs \ {"study"} /\ "promoting" \in Places \ {"idle"}
    BY DEF Jobs, Places
  <2> QED
    BY <1>5, <2>1, ReadingKeeps DEF PromoteReads
<1>6. CASE DedupReads
  <2>1. PICK kept \in SUBSET Live : Lists("dedup", "merging", Live \ kept)
    BY <1>6 DEF DedupReads
  <2>2. Live \ kept \in SUBSET Live /\ "dedup" \in Jobs \ {"study"}
    BY DEF Jobs
  <2> QED
    BY <1>6, <2>1, <2>2, ListingKeeps DEF DedupReads
<1>7. CASE PropagationReads
  <2>1. PICK known \in SUBSET (Entries \ (Live \cup pass["study"].todo)) :
           Lists("propagation", "bringing", known)
    BY <1>7 DEF PropagationReads
  <2>2. /\ known \in SUBSET Entries /\ "propagation" \in Jobs /\ "bringing" \in Places
        /\ \A e \in known : e \notin pass["study"].todo
    BY DEF Jobs, Places
  <2>3. /\ PassTyped' /\ Others("propagation")
        /\ pass'["propagation"].at = "bringing" /\ pass'["propagation"].todo = known
        /\ pass'["propagation"].now = NoEntry
    BY <2>1, <2>2, StoreTyped, ListsShape
  <2> QED
    BY <1>7, <2>2, <2>3, StartKeeps DEF PropagationReads
<1>8. CASE StudyReads
  <2>1. PICK new \in SUBSET Fresh : Lists("study", "studying", new)
    BY <1>8 DEF StudyReads
  <2>2. /\ new \in SUBSET Entries /\ "study" \in Jobs /\ "studying" \in Places
        /\ \A e \in new : e \notin archive /\ e \notin Live /\ \A k \in Jobs : e \notin pass[k].todo
    BY DEF Jobs, Places, Fresh
  <2>3. /\ PassTyped' /\ Others("study")
        /\ pass'["study"].at = "studying" /\ pass'["study"].todo = new
        /\ pass'["study"].now = NoEntry
    BY <2>1, <2>2, StoreTyped, ListsShape
  <2> QED
    BY <1>8, <2>2, <2>3, StartKeeps DEF StudyReads
<1> QED
  BY <1>1, <1>2, <1>3, <1>4, <1>5, <1>6, <1>7, <1>8

LEMMA EndsKeep ==
  ASSUME MemoryInv,
         DecayEnds \/ TiersEnd \/ DedupEnds \/ PropagationEnds \/ StudyEnds \/ \E j \in Jobs : Aborts(j)
  PROVE  Preserves
  BY EndingKeeps, JobNames DEF DecayEnds, TiersEnd, DedupEnds, PropagationEnds, StudyEnds, Aborts

-----------------------------------------------------------------------------

LEMMA ReinforcedMore ==
  ASSUME NEW entry \in Entry, NEW strength \in Strengthened(entry.strength)
  PROVE  Reinforced(entry, strength) \in Entry /\ NoLess(Reinforced(entry, strength), entry)
<1>1. OneMore(entry.refs) \in 0..LongRefs /\ OneMore(entry.refs) >= entry.refs
  BY MemoryAssumption DEF OneMore, Entry
<1>2. strength \in 0..Full
  BY MemoryAssumption DEF Strengthened
<1> DEFINE counted == [entry EXCEPT !.refs = OneMore(entry.refs)]
<1>3. /\ counted \in Entry /\ counted.tier = entry.tier /\ counted.refs = OneMore(entry.refs)
      /\ Reinforced(entry, strength) = [counted EXCEPT !.strength = strength]
  BY <1>1 DEF Reinforced, Entry
<1>4. entry.tier \in Nat
  BY DEF Entry
<1> HIDE DEF counted
<1>5. [counted EXCEPT !.strength = strength] \in Entry
  BY <1>2, <1>3 DEF Entry
<1>6. NoLess([counted EXCEPT !.strength = strength], entry)
  BY <1>1, <1>3, <1>4 DEF NoLess, Entry
<1> QED
  BY <1>3, <1>5, <1>6

LEMMA PromotedMore ==
  ASSUME NEW entry \in Entry, entry.tier =< 2
  PROVE  Promoted(entry) \in Entry /\ NoLess(Promoted(entry), entry)
<1>1. Promoted(entry) = [entry EXCEPT !.tier = entry.tier + 1]
  BY DEF Promoted
<1>2. entry.tier + 1 \in 1..3 /\ entry.refs \in Nat
  BY MemoryAssumption DEF Entry
<1> QED
  BY <1>1, <1>2 DEF Entry, NoLess

LEMMA FadedNoLess ==
  ASSUME NEW entry \in Entry, NEW strength \in 0..(entry.strength - 1)
  PROVE  /\ [entry EXCEPT !.strength = strength] \in Entry
         /\ NoLess([entry EXCEPT !.strength = strength], entry)
<1>1. strength \in 0..Full /\ entry.refs \in Nat /\ entry.tier \in Nat
  BY MemoryAssumption DEF Entry
<1> QED
  BY <1>1 DEF Entry, NoLess

\* A pass handles an entry for which it has a copy, or none is needed.
LEMMA HandledKeeps ==
  ASSUME MemoryInv, NEW j \in Jobs, NEW e \in Entries, e \in pass[j].todo,
         NEW entry \in Entry \cup {NoEntry}, Write(e, entry), archive' = archive,
         Handled(j, e) \/ Ends(j)
  PROVE  MemoryInv' /\ Handles(j, e)
<1>1. /\ store' \in Copies
      /\ \A d \in Entries \ {e} : store'[d] = store[d]
  BY StoreTyped DEF Write, Copies
<1>2. CASE Handled(j, e)
  <2>1. /\ PassTyped' /\ Others(j)
        /\ pass'[j].at = pass[j].at /\ pass'[j].todo = pass[j].todo \ {e}
        /\ pass'[j].now = NoEntry
        /\ \A d \in pass[j].todo \ {e} : pass'[j].seen[d] = pass[j].seen[d]
    BY <1>2, StoreTyped, HandledShape
  <2> QED
    BY <1>1, <2>1, HandlingKeeps DEF Handles
<1>3. CASE Ends(j)
  <2>1. /\ PassTyped' /\ Others(j)
        /\ pass'[j].at = "idle" /\ pass'[j].todo = {} /\ pass'[j].now = NoEntry
    BY <1>3, StoreTyped, EndsShape
  <2> QED
    BY <1>1, <2>1, HandlingKeeps DEF Handles
<1> QED
  BY <1>2, <1>3

LEMMA Rewrites ==
  ASSUME MemoryInv, NEW j \in Jobs, NEW e \in Entries, e \in pass[j].todo,
         NEW entry \in Entry, Write(e, entry), archive' = archive, Handled(j, e) \/ Ends(j),
         j = "propagation" \/ (Copy(j, e) \in Entry /\ NoLess(entry, Copy(j, e)))
  PROVE  Preserves
<1>1. MemoryInv' /\ Handles(j, e)
  BY HandledKeeps
<1> QED
  BY <1>1 DEF Preserves, Outcome, Rewritten

LEMMA WritesKeep ==
  ASSUME MemoryInv, NEW e \in Entries,
         \/ \E p \in Prompts : ReinforceWrites(p, e)
         \/ DecayEntry(e) \/ ExpirePromotes(e) \/ PromoteEntry(e) \/ PropagatesEntry(e)
         \/ StudyStores(e)
  PROVE  Preserves
<1> USE DEF Has
<1>1. ASSUME NEW p \in Prompts, ReinforceWrites(p, e) PROVE Preserves
  <2>1. p \in Jobs /\ e \in pass[p].todo /\ Copy(p, e) \in Entry
    BY <1>1, JobNames DEF ReinforceWrites, MemoryInv, PassInv, CopiesKept
  <2>2. PICK strength \in Strengthened(Copy(p, e).strength) :
           Write(e, Reinforced(Copy(p, e), strength))
    BY <1>1 DEF ReinforceWrites
  <2>3. /\ Reinforced(Copy(p, e), strength) \in Entry
        /\ NoLess(Reinforced(Copy(p, e), strength), Copy(p, e))
    BY <2>1, <2>2, ReinforcedMore
  <2>4. Ends(p) /\ archive' = archive
    BY <1>1 DEF ReinforceWrites
  <2> QED
    BY <2>1, <2>2, <2>3, <2>4, Rewrites
<1>2. CASE DecayEntry(e)
  <2>1. "decay" \in Jobs /\ e \in pass["decay"].todo /\ Copy("decay", e) \in Entry
    BY <1>2, JobNames DEF DecayEntry, MemoryInv, PassInv, CopiesKept
  <2>2. PICK strength \in 0..(Copy("decay", e).strength - 1) :
           Write(e, [Copy("decay", e) EXCEPT !.strength = strength])
    BY <1>2 DEF DecayEntry
  <2>3. /\ [Copy("decay", e) EXCEPT !.strength = strength] \in Entry
        /\ NoLess([Copy("decay", e) EXCEPT !.strength = strength], Copy("decay", e))
    BY <2>1, <2>2, FadedNoLess
  <2>4. Handled("decay", e) /\ archive' = archive
    BY <1>2 DEF DecayEntry
  <2> QED
    BY <2>1, <2>2, <2>3, <2>4, Rewrites
<1>3. CASE ExpirePromotes(e) \/ PromoteEntry(e)
  <2>1. /\ "tiers" \in Jobs /\ e \in pass["tiers"].todo /\ Copy("tiers", e) \in Entry
        /\ Copy("tiers", e).tier =< 2
    BY <1>3, JobNames DEF ExpirePromotes, PromoteEntry, MemoryInv, PassInv, CopiesKept, MayPromote
  <2>2. /\ Promoted(Copy("tiers", e)) \in Entry
        /\ NoLess(Promoted(Copy("tiers", e)), Copy("tiers", e))
    BY <2>1, PromotedMore
  <2>3. Write(e, Promoted(Copy("tiers", e))) /\ Handled("tiers", e) /\ archive' = archive
    BY <1>3 DEF ExpirePromotes, PromoteEntry
  <2> QED
    BY <2>1, <2>2, <2>3, Rewrites
<1>4. CASE PropagatesEntry(e)
  <2>0. PICK copy \in PeerCopies : \E confidence \in Discounted(copy.confidence) :
                Write(e, [copy EXCEPT !.confidence = confidence])
    BY <1>4 DEF PropagatesEntry
  <2>1. PICK confidence \in Discounted(copy.confidence) :
                Write(e, [copy EXCEPT !.confidence = confidence])
    BY <2>0
  <2>2. [copy EXCEPT !.confidence = confidence] \in Entry
    <3>1. copy \in Entry /\ confidence \in 0..2
      BY EntryAssumption DEF Discounted
    <3> QED
      BY <3>1 DEF Entry
  <2>3. /\ "propagation" \in Jobs /\ e \in pass["propagation"].todo
        /\ Handled("propagation", e) /\ archive' = archive
    BY <1>4, JobNames DEF PropagatesEntry
  <2> QED
    BY <2>1, <2>2, <2>3, Rewrites
<1>5. CASE StudyStores(e)
  <2> DEFINE entry == [tier |-> 1, refs |-> 0, strength |-> Full, confidence |-> 0]
  <2>1. "study" \in Jobs /\ e \in pass["study"].todo /\ e \notin Live /\ e \notin archive
    BY <1>5, JobNames DEF StudyStores, MemoryInv, PassInv, StudyFresh
  <2>2. entry \in Entry
    BY MemoryAssumption DEF Entry
  <2>3. Write(e, entry) /\ Handled("study", e) /\ archive' = archive
    BY <1>5 DEF StudyStores, Upsert
  <2>4. MemoryInv'
    BY <2>1, <2>2, <2>3, HandledKeeps
  <2>5. Learnt
    BY <2>1, <2>2, <2>3 DEF Learnt
  <2> QED
    BY <2>4, <2>5 DEF Preserves, Outcome
<1> QED
  BY <1>1, <1>2, <1>3, <1>4, <1>5

LEMMA DeletionsKeep ==
  ASSUME MemoryInv, NEW e \in Entries, ArchiveDeletes(e) \/ ExpireDeletes(e) \/ DedupDeletes(e)
  PROVE  Preserves
<1>1. ASSUME NEW j \in Jobs, e \in pass[j].todo, Delete(e), Handled(j, e), archive' = archive
      PROVE  MemoryInv' /\ Handles(j, e)
  <2>1. Write(e, NoEntry)
    BY <1>1 DEF Delete, Write
  <2> QED
    BY <1>1, <2>1, HandledKeeps
<1>2. CASE ArchiveDeletes(e)
  <2>1. "decay" \in Jobs /\ e # NoEntry
    BY JobNames, EntryAssumption
  <2>2. e \in pass["decay"].todo /\ e \in archive
    BY <1>2, <2>1 DEF ArchiveDeletes, MemoryInv, PassInv, ArchivedNow
  <2>3. Delete(e) /\ Handled("decay", e) /\ archive' = archive
    BY <1>2, <2>2 DEF ArchiveDeletes
  <2>4. MemoryInv' /\ Handles("decay", e)
    BY <1>1, <2>1, <2>2, <2>3
  <2> QED
    BY <2>2, <2>3, <2>4 DEF Preserves, Outcome, Forgotten, Reason
<1>3. CASE ExpireDeletes(e)
  <2>1. /\ "tiers" \in Jobs /\ e \in pass["tiers"].todo /\ Copy("tiers", e).tier = 1
        /\ ~ForWorking(Copy("tiers", e))
    BY <1>3, JobNames DEF ExpireDeletes, Has, MemoryInv, PassInv, CopiesKept
  <2>2. Delete(e) /\ Handled("tiers", e) /\ archive' = archive
    BY <1>3 DEF ExpireDeletes
  <2>3. MemoryInv' /\ Handles("tiers", e)
    BY <1>1, <2>1, <2>2
  <2> QED
    BY <2>1, <2>2, <2>3 DEF Preserves, Outcome, Forgotten, Reason
<1>4. CASE DedupDeletes(e)
  <2>1. /\ "dedup" \in Jobs /\ e \in pass["dedup"].todo
        /\ Delete(e) /\ Handled("dedup", e) /\ archive' = archive
    BY <1>4, JobNames DEF DedupDeletes, Has
  <2>2. MemoryInv' /\ Handles("dedup", e)
    BY <1>1, <2>1
  <2> QED
    BY <2>1, <2>2 DEF Preserves, Outcome, Forgotten, Reason
<1> QED
  BY <1>2, <1>3, <1>4

\* The copy is in the archive before the entry is deleted.
LEMMA ArchivingKeeps ==
  ASSUME MemoryInv, NEW e \in Entries, ArchiveWrites(e) PROVE Preserves
<1>1. /\ "decay" \in Jobs /\ "study" \in Jobs /\ e \in pass["decay"].todo
      /\ pass["decay"].at = "archiving"
  BY JobNames DEF ArchiveWrites, Has
<1>2. pass' = [pass EXCEPT !["decay"].now = e] /\ archive' = archive \cup {e} /\ store' = store
  BY DEF ArchiveWrites, ArchivedFirst
<1>3. pass \in [Jobs -> Pass] /\ pass["decay"] \in Pass
  BY <1>1, StoreTyped DEF PassTyped
<1>4. /\ PassTyped' /\ Others("decay")
      /\ pass'["decay"] = [pass["decay"] EXCEPT !.now = e]
  BY <1>1, <1>2, <1>3 DEF PassTyped, Others, Pass
<1>5. /\ pass'["decay"].at = "archiving" /\ pass'["decay"].todo = pass["decay"].todo
      /\ pass'["decay"].now = e /\ pass'["decay"].seen = pass["decay"].seen
  BY <1>1, <1>3, <1>4 DEF Pass
<1>6. CopiesKept' /\ ArchivedNow' /\ IdleEmpty'
  BY <1>1, <1>2, <1>4, <1>5
  DEF MemoryInv, PassInv, CopiesKept, ArchivedNow, IdleEmpty, Others, Copy
<1>7. StudyFresh'
  <2>1. \A k \in Jobs : pass'[k].todo = pass[k].todo
    BY <1>4, <1>5 DEF Others
  <2>2. Live' = Live
    BY <1>2 DEF Live
  <2>3. e \notin pass["study"].todo
    BY <1>1, <1>3 DEF MemoryInv, PassInv, StudyFresh
  <2> QED
    BY <1>1, <1>2, <2>1, <2>2, <2>3 DEF MemoryInv, PassInv, StudyFresh
<1>8. MemoryTypeOK'
  BY <1>2, <1>4 DEF MemoryInv, MemoryTypeOK, PassTyped, Pass, Places, Copies
<1> QED
  BY <1>2, <1>6, <1>7, <1>8 DEF Preserves, Outcome, MemoryInv, PassInv

-----------------------------------------------------------------------------

LEMMA MemoryInvInit == MemoryInit => MemoryInv
<1> SUFFICES ASSUME MemoryInit PROVE MemoryInv
  OBVIOUS
<1>1. \A j \in Jobs : pass[j] = Idle
  BY DEF MemoryInit
<1>2. MemoryTypeOK
  BY NoEntries DEF MemoryInit, MemoryTypeOK, Nothing, Idle
<1>3. "study" \in Jobs
  BY JobNames
<1> QED
  BY <1>1, <1>2, <1>3 DEF MemoryInv, PassInv, CopiesKept, ArchivedNow, StudyFresh, IdleEmpty, Idle

\* Every step keeps the invariant, and does one of four things to the store.
LEMMA MemoryStep == MemoryInv /\ MemoryNext => Preserves
<1> SUFFICES ASSUME MemoryInv, MemoryNext PROVE Preserves
  OBVIOUS
<1>1. ASSUME NEW e \in Entries, Reflects(e) \/ Learns(e) PROVE Preserves
  BY <1>1, LearningKeeps DEF Reflects, Learns
<1>2. ASSUME NEW e \in Entries, ArchiveWrites(e) PROVE Preserves
  BY <1>2, ArchivingKeeps
<1> QED
  BY <1>1, <1>2, StartsKeep, EndsKeep, WritesKeep, DeletionsKeep DEF MemoryNext, PassStep

LEMMA MemoryStutter == MemoryInv /\ UNCHANGED memoryVars => MemoryInv'
  BY DEF memoryVars, MemoryInv, MemoryTypeOK, PassInv, CopiesKept, ArchivedNow, StudyFresh,
     IdleEmpty, Copy, Live

LEMMA MemoryInvariant == MemorySpec => []MemoryInv
<1>1. MemoryInv /\ [MemoryNext]_memoryVars => MemoryInv'
  BY MemoryStep, MemoryStutter DEF Preserves
<1> QED
  BY <1>1, MemoryInvInit, PTL DEF MemorySpec

\* The types of the store, the archive and the passes, whatever a pass read before
\* another wrote.
THEOREM MemoryTypeCorrect == MemorySpec => []MemoryTypeOK
<1>1. MemoryInv => MemoryTypeOK
  BY DEF MemoryInv
<1> QED
  BY <1>1, MemoryInvariant, PTL

-----------------------------------------------------------------------------

LEMMA LeavingHasReason ==
  ASSUME MemoryInv, Outcome, NEW e \in Entries, Leaves(e) PROVE Reason(e)
<1>1. store \in Copies /\ NoEntry \notin Entry
  BY StoreTyped, EntryAssumption
<1>2. ASSUME NEW d \in Entries, NEW entry \in Entry, Write(d, entry) PROVE FALSE
  BY <1>1, <1>2 DEF Write, Leaves, Live, Copies
<1>3. ASSUME NEW d \in Entries, Delete(d) PROVE d = e
  BY <1>1, <1>3 DEF Delete, Leaves, Live, Copies
<1> QED
  BY <1>2, <1>3 DEF Outcome, Learnt, Forgotten, Rewritten, Leaves, Live

\* What was learnt leaves the store only when the archive has it, as an overdue note
\* that earned nothing, or as a duplicate, for any passes that overlap or break off
\* anywhere (knowledge.ts:221, 287, jobs.ts:418).
THEOREM ForgettingHasReasons == MemorySpec => LeavesForAReason
<1>1. MemoryInv /\ [MemoryNext]_memoryVars =>
        [\A e \in Entries : Leaves(e) => Reason(e)]_memoryVars
  BY MemoryStep, LeavingHasReason DEF Preserves
<1>2. (\A e \in Entries : Leaves(e) => Reason(e)) <=>
        \A e \in Entries : Leaves(e) =>
          \/ Handles("decay", e) /\ e \in archive
          \/ Handles("tiers", e) /\ ~ForWorking(Copy("tiers", e)) /\ Copy("tiers", e).tier = 1
          \/ Handles("dedup", e)
  BY DEF Reason
<1> QED
  BY <1>1, <1>2, MemoryInvariant, PTL DEF MemorySpec, LeavesForAReason

LEMMA UndoingIsStale ==
  ASSUME MemoryInv, Outcome, NEW e \in Entries, Undone(e)
  PROVE  \E j \in Jobs : Handles(j, e) /\ (j = "propagation" \/ Copy(j, e) # store[e])
<1>1. store \in Copies /\ NoEntry \notin Entry
  BY StoreTyped, EntryAssumption
<1>2. \A x \in Entry : x.refs \in Nat /\ x.tier \in Nat
  BY MemoryAssumption DEF Entry
<1>3. store' # store
  <2>1. SUFFICES ASSUME store' = store PROVE FALSE
    OBVIOUS
  <2>2. e \in Live /\ store[e] \in Entry
    BY <1>1, <2>1 DEF Undone, Live, Copies
  <2> QED
    BY <1>2, <2>1, <2>2 DEF Undone
<1>4. ASSUME NEW d \in Entries, NEW entry \in Entry \cup {NoEntry}, store' = [store EXCEPT ![d] = entry]
      PROVE  d = e /\ store'[e] = entry /\ entry \in Entry
  <2>1. d = e
    <3>1. SUFFICES ASSUME d # e PROVE FALSE
      OBVIOUS
    <3>2. store'[e] = store[e]
      BY <1>1, <1>4, <3>1 DEF Copies
    <3>3. e \in Live /\ store[e] \in Entry
      BY <1>1, <3>2 DEF Undone, Live, Copies
    <3> QED
      BY <1>2, <3>2, <3>3 DEF Undone
  <2> QED
    BY <1>1, <1>4, <2>1 DEF Undone, Copies
<1>5. ~Learnt
  BY <1>4 DEF Learnt, Write, Undone
<1>6. ~Forgotten
  BY <1>1, <1>4 DEF Forgotten, Delete
<1>7. CASE Rewritten
  <2>1. PICK j \in Jobs, d \in Entries, entry \in Entry :
           /\ Handles(j, d) /\ Write(d, entry)
           /\ j = "propagation" \/ (Copy(j, d) \in Entry /\ NoLess(entry, Copy(j, d)))
    BY <1>7 DEF Rewritten
  <2>2. d = e /\ store'[e] = entry
    BY <1>4, <2>1 DEF Write
  <2>3. CASE j # "propagation" /\ Copy(j, e) = store[e]
    <3>1. e \in Live /\ store[e] \in Entry /\ NoLess(entry, store[e])
      BY <1>1, <2>1, <2>2, <2>3 DEF Live
    <3> QED
      BY <1>2, <2>2, <3>1 DEF Undone, NoLess
  <2> QED
    BY <2>1, <2>2, <2>3
<1> QED
  BY <1>3, <1>5, <1>6, <1>7 DEF Outcome

\* References and tiers of an entry are undone, and an archived one comes back, only by
\* a pass that writes a copy which is no longer what the store has, or by a peer
\* (knowledge.ts:182, knowledge-propagation.ts).
THEOREM UndoneByStaleCopies == MemorySpec => OnlyStaleCopiesUndo
<1>1. MemoryInv /\ [MemoryNext]_memoryVars =>
        [\A e \in Entries : Undone(e) =>
           \E j \in Jobs : Handles(j, e) /\ (j = "propagation" \/ Copy(j, e) # store[e])]_memoryVars
  BY MemoryStep, UndoingIsStale DEF Preserves
<1> QED
  BY <1>1, MemoryInvariant, PTL DEF MemorySpec, OnlyStaleCopiesUndo
=============================================================================
