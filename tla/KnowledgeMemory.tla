-------------------------- MODULE KnowledgeMemory --------------------------
(***************************************************************************)
(* KnowledgeMemory (memory/knowledge.ts, memory/store.ts, memory/decay.ts, *)
(* collaboration/knowledge-propagation.ts, study/researcher.ts and the     *)
(* jobs of cron/jobs.ts that call them): what a pet knows, one file per    *)
(* entry, and the archive of what it forgot.                               *)
(*                                                                         *)
(* Every operation reads one or all of the files and writes or deletes     *)
(* files an await later, so jobs and references may overlap.  A pass reads *)
(* in one step, then handles one entry per step.  Writes are atomic (a     *)
(* temporary file is renamed); any file operation may fail, and the daemon *)
(* may die: both end the pass that was under way, which is Aborts.         *)
(*                                                                         *)
(* The entries of the model are some of those in the store, whose other    *)
(* entries only matter for the deduplication.  Time is left open: an entry *)
(* may have faded by any amount since its last reference, and any          *)
(* scratchpad entry may be overdue.                                        *)
(***************************************************************************)
EXTENDS Naturals, FiniteSets

CONSTANTS Entries,      \* ids of the entries that are followed
          Topic,        \* [Entries -> topics], lower case, trimmed
          PeerCopies,   \* what a peer's copy of an entry may look like
          Prompts,      \* replies whose context shows an entry
          Full,         \* strength 1.0; 0 is below ARCHIVE_THRESHOLD (0.1)
          Fading,       \* strength 0.3
          WorkingRefs,  \* references for "working" (2 in the code) ...
          LongRefs,     \* ... and for "long-term" (5 in the code)
          Overlap,      \* bound on the passes that overlap
          NoEntry

ASSUME MemoryAssumption ==
  /\ Full \in Nat \ {0} /\ Fading \in 0..Full /\ Overlap \in Nat
  /\ WorkingRefs \in Nat /\ LongRefs \in Nat /\ WorkingRefs =< LongRefs

\* tier 1 is "scratchpad", 2 "working", 3 "long-term"; confidence 2 is at least
\* 0.85, 1 at least 0.8.  updatedAt, which every write renews, is left open.
Entry == [tier : 1..3, refs : 0..LongRefs, strength : 0..Full, confidence : 0..2]

ASSUME EntryAssumption ==
  /\ NoEntry \notin Entry \cup Entries /\ PeerCopies \subseteq Entry
  /\ Prompts \cap {"decay", "tiers", "dedup", "propagation", "study"} = {}

VARIABLES
  store,     \* memory/knowledge: the file of each entry
  archive,   \* archive/knowledge: the entries with a copy there
  pass       \* what each pass is doing, with the entries it read

memoryVars == <<store, archive, pass>>

Jobs == {"decay", "tiers", "dedup", "propagation", "study"} \cup Prompts

Nothing == [e \in Entries |-> NoEntry]

\* now is the entry that is archived and still to be deleted.
Idle == [at |-> "idle", seen |-> Nothing, todo |-> {}, now |-> NoEntry]

MemoryInit ==
  /\ store = Nothing /\ archive = {}
  /\ pass = [j \in Jobs |-> Idle]

-----------------------------------------------------------------------------
(***************************************************************************)
(* The files and the passes over them.                                     *)
(***************************************************************************)

Same(e, d) == Topic[e] = Topic[d]

Live == {e \in Entries : store[e] # NoEntry}

Write(e, entry) == store' = [store EXCEPT ![e] = entry]

Delete(e) == store' = [store EXCEPT ![e] = NoEntry]

\* Bounds the model only: the code lets any number of passes overlap.
Running == {j \in Jobs : pass[j].at # "idle"}

MayStart(j) == pass[j].at = "idle" /\ Cardinality(Running) < Overlap

\* readAll, when all that the pass keeps of it is which entries to handle.
Lists(j, at, todo) ==
  pass' = [pass EXCEPT ![j] =
             [at |-> at, todo |-> todo, now |-> NoEntry, seen |-> Nothing]]

\* readAll, when the pass will write the copies it has of the entries in todo.
ReadAll(j, at, todo) ==
  pass' = [pass EXCEPT ![j] =
             [at |-> at, todo |-> todo, now |-> NoEntry,
              seen |-> [e \in Entries |-> IF e \in todo THEN store[e] ELSE NoEntry]]]

Has(j, at, e) == pass[j].at = at /\ e \in pass[j].todo /\ pass[j].now = NoEntry

Through(j, at) == pass[j].at = at /\ pass[j].todo = {}

Copy(j, e) == pass[j].seen[e]

Handled(j, e) ==
  pass' = [pass EXCEPT ![j] =
             [at |-> @.at, todo |-> @.todo \ {e}, now |-> NoEntry,
              seen |-> [d \in Entries |-> IF d = e THEN NoEntry ELSE @.seen[d]]]]

Ends(j) == pass' = [pass EXCEPT ![j] = Idle]

\* A file operation throws, or the daemon dies: the rest of the pass is not done.
Aborts(j) ==
  /\ j \in Running
  /\ Ends(j)
  /\ UNCHANGED <<store, archive>>

-----------------------------------------------------------------------------
(***************************************************************************)
(* Learning.                                                               *)
(***************************************************************************)

\* Under a random id: one that nothing knows.
Fresh == {e \in Entries \ (Live \cup archive) : \A j \in Jobs : e \notin pass[j].todo}

\* upsert of a new entry.
Upsert(e, confidence) ==
  Write(e, [tier |-> 1, refs |-> 0, strength |-> Full, confidence |-> confidence])

\* An insight of the memory reflection: confidence 0.7.
Reflects(e) ==
  /\ e \in Fresh /\ Upsert(e, 0)
  /\ UNCHANGED <<archive, pass>>

\* What a user taught: 0.85, a correction 0.95.
Learns(e) ==
  /\ e \in Fresh /\ Upsert(e, 2)
  /\ UNCHANGED <<archive, pass>>

\* A study has found subtopics, reads the entries, and keeps those whose topic none
\* of them has; it may have none to keep.
StudyReads ==
  /\ MayStart("study")
  /\ \E new \in SUBSET {e \in Fresh : \A d \in Live : ~Same(d, e)} :
       Lists("study", "studying", new)
  /\ UNCHANGED <<store, archive>>

\* Confidence 0.7, like an insight.
StudyStores(e) ==
  /\ Has("study", "studying", e)
  /\ Upsert(e, 0)
  /\ Handled("study", e)
  /\ UNCHANGED archive

StudyEnds ==
  /\ Through("study", "studying")
  /\ Ends("study")
  /\ UNCHANGED <<store, archive>>

-----------------------------------------------------------------------------
(***************************************************************************)
(* References: the entries shown in a prompt are reinforced, in parallel   *)
(* with the reply.                                                         *)
(***************************************************************************)

Weak(entry) == entry.strength = 0

\* search leaves out what has faded below 0.3.
Shown(e) == e \in Live /\ store[e].strength > Fading

\* The prompt of a reply shows e, and reinforce reads it.
ReinforceReads(p, e) ==
  /\ p \in Prompts /\ MayStart(p)
  /\ Shown(e)
  /\ ReadAll(p, "reinforcing", {e})
  /\ UNCHANGED <<store, archive>>

\* The counts beyond LongRefs make no difference.
OneMore(refs) == IF refs < LongRefs THEN refs + 1 ELSE refs

\* Mutant: the tier is that of a new entry, as upsert has it by default.
ReinforcedAnew(entry, strength) ==
  [entry EXCEPT !.tier = 1, !.refs = OneMore(@), !.strength = strength]

Reinforced(entry, strength) ==
  [entry EXCEPT !.refs = OneMore(@), !.strength = strength]

\* Mutant: the strength may exceed 1.0.
Unclamped(strength) == {strength, strength + 1}

\* The strength grows by 0.15, less than a unit but enough not to be weak.
Strengthened(strength) == {strength, strength + 1} \cap 1..Full

ReinforceWrites(p, e) ==
  /\ p \in Prompts /\ Has(p, "reinforcing", e)
  /\ \E strength \in Strengthened(Copy(p, e).strength) :
       Write(e, Reinforced(Copy(p, e), strength))
  /\ Ends(p)
  /\ UNCHANGED archive

-----------------------------------------------------------------------------
(***************************************************************************)
(* The job memory-decay.                                                   *)
(***************************************************************************)

\* Entries whose strength has changed by now.
DecayReads ==
  /\ MayStart("decay")
  /\ \E faded \in SUBSET {e \in Live : store[e].strength > 0} :
       ReadAll("decay", "decaying", faded)
  /\ UNCHANGED <<store, archive>>

DecayEntry(e) ==
  /\ Has("decay", "decaying", e)
  /\ \E strength \in 0..(Copy("decay", e).strength - 1) :
       Write(e, [Copy("decay", e) EXCEPT !.strength = strength])
  /\ Handled("decay", e)
  /\ UNCHANGED archive

\* archiveWeak, when no write of the decay has failed.
ArchiveReads ==
  /\ Through("decay", "decaying")
  /\ Lists("decay", "archiving", {e \in Live : Weak(store[e])})
  /\ UNCHANGED <<store, archive>>

\* Mutant: the entry is deleted before its copy is in the archive.
DeletedFirst(e) == Delete(e) /\ UNCHANGED archive

ArchivedFirst(e) ==
  archive' = archive \cup {e} /\ UNCHANGED store

ArchiveWrites(e) ==
  /\ Has("decay", "archiving", e)
  /\ ArchivedFirst(e)
  /\ pass' = [pass EXCEPT !["decay"].now = e]

ArchiveDeletes(e) ==
  /\ pass["decay"].now = e
  /\ archive' = archive \cup {e}
  /\ Delete(e)
  /\ Handled("decay", e)

DecayEnds ==
  /\ Through("decay", "archiving") /\ pass["decay"].now = NoEntry
  /\ Ends("decay")
  /\ UNCHANGED <<store, archive>>

-----------------------------------------------------------------------------
(***************************************************************************)
(* The job memory-tier-maintenance.                                        *)
(***************************************************************************)

ForWorking(entry) == entry.refs >= WorkingRefs \/ entry.confidence = 2

ForLongTerm(entry) == entry.refs >= LongRefs /\ entry.confidence >= 1

Promoted(entry) == [entry EXCEPT !.tier = @ + 1]

\* expireScratchpad: those that have been there for longer than their TTL.
ExpireReads ==
  /\ MayStart("tiers")
  /\ \E overdue \in SUBSET {e \in Live : store[e].tier = 1} :
       ReadAll("tiers", "expiring", overdue)
  /\ UNCHANGED <<store, archive>>

ExpirePromotes(e) ==
  /\ Has("tiers", "expiring", e)
  /\ ForWorking(Copy("tiers", e))
  /\ Write(e, Promoted(Copy("tiers", e)))
  /\ Handled("tiers", e)
  /\ UNCHANGED archive

ExpireDeletes(e) ==
  /\ Has("tiers", "expiring", e)
  /\ ~ForWorking(Copy("tiers", e))
  /\ Delete(e)
  /\ Handled("tiers", e)
  /\ UNCHANGED archive

MayPromote(entry) ==
  \/ entry.tier = 1 /\ ForWorking(entry)
  \/ entry.tier = 2 /\ ForLongTerm(entry)

\* promoteTiers.
PromoteReads ==
  /\ Through("tiers", "expiring")
  /\ ReadAll("tiers", "promoting", {e \in Live : MayPromote(store[e])})
  /\ UNCHANGED <<store, archive>>

PromoteEntry(e) ==
  /\ Has("tiers", "promoting", e)
  /\ Write(e, Promoted(Copy("tiers", e)))
  /\ Handled("tiers", e)
  /\ UNCHANGED archive

TiersEnd ==
  /\ Through("tiers", "promoting")
  /\ Ends("tiers")
  /\ UNCHANGED <<store, archive>>

-----------------------------------------------------------------------------
(***************************************************************************)
(* The jobs knowledge-dedup and knowledge-propagation.                     *)
(***************************************************************************)

\* One entry of each topic is kept: one of these, or another one.  A higher
\* confidence or a later update is enough to replace the one kept so far, and
\* updatedAt is open: it may be any.
DedupReads ==
  /\ MayStart("dedup")
  /\ \E kept \in SUBSET Live :
       /\ \A d, e \in kept : Same(d, e) => d = e
       /\ Lists("dedup", "merging", Live \ kept)
  /\ UNCHANGED <<store, archive>>

DedupDeletes(e) ==
  /\ Has("dedup", "merging", e)
  /\ Delete(e)
  /\ Handled("dedup", e)
  /\ UNCHANGED archive

DedupEnds ==
  /\ Through("dedup", "merging")
  /\ Ends("dedup")
  /\ UNCHANGED <<store, archive>>

\* A peer lists its entries and ours, and brings those whose id we lack: none that
\* a study is about to store.
PropagationReads ==
  /\ MayStart("propagation")
  /\ \E known \in SUBSET (Entries \ (Live \cup pass["study"].todo)) : Lists("propagation", "bringing", known)
  /\ UNCHANGED <<store, archive>>

\* 80 % of a confidence: 0.8 for 1.0, and less for all others.
Discounted(confidence) == IF confidence = 2 THEN {0, 1} ELSE {0}

\* upsert keeps the tier and the counts of the peer's copy, not its confidence.
PropagatesEntry(e) ==
  /\ Has("propagation", "bringing", e)
  /\ \E copy \in PeerCopies : \E confidence \in Discounted(copy.confidence) :
       Write(e, [copy EXCEPT !.confidence = confidence])
  /\ Handled("propagation", e)
  /\ UNCHANGED archive

PropagationEnds ==
  /\ Through("propagation", "bringing")
  /\ Ends("propagation")
  /\ UNCHANGED <<store, archive>>

-----------------------------------------------------------------------------

\* What the jobs do once they run.
PassStep ==
  \/ \E e \in Entries :
       \/ DecayEntry(e) \/ ArchiveWrites(e) \/ ArchiveDeletes(e)
       \/ ExpirePromotes(e) \/ ExpireDeletes(e) \/ PromoteEntry(e)
       \/ DedupDeletes(e) \/ PropagatesEntry(e) \/ StudyStores(e)
       \/ \E p \in Prompts : ReinforceWrites(p, e)
  \/ ArchiveReads \/ DecayEnds \/ PromoteReads \/ TiersEnd
  \/ DedupEnds \/ PropagationEnds \/ StudyEnds

MemoryNext ==
  \/ PassStep
  \/ \E e \in Entries : \/ Reflects(e) \/ Learns(e)
                        \/ \E p \in Prompts : ReinforceReads(p, e)
  \/ DecayReads \/ ExpireReads \/ DedupReads \/ PropagationReads \/ StudyReads
  \/ \E j \in Jobs : Aborts(j)

MemorySpec == MemoryInit /\ [][MemoryNext]_memoryVars

-----------------------------------------------------------------------------
(***************************************************************************)
(* Properties.                                                             *)
(***************************************************************************)

MemoryTypeOK ==
  /\ store \in [Entries -> Entry \cup {NoEntry}]
  /\ pass \in [Jobs -> [at : {"idle", "reinforcing", "decaying", "archiving", "expiring",
                              "promoting", "merging", "bringing", "studying"},
                        todo : SUBSET Entries, now : Entries \cup {NoEntry},
                        seen : [Entries -> Entry \cup {NoEntry}]]]
  /\ archive \subseteq Entries

\* Pass j handles e in this step.
Handles(j, e) == e \in pass[j].todo /\ e \notin pass'[j].todo

\* e leaves the store.
Leaves(e) == e \in Live /\ store'[e] = NoEntry

\* Whatever overlaps or breaks off, what was learnt leaves the store only when the
\* archive has it, as an overdue note that earned nothing when the pass read it, or
\* as a duplicate (knowledge.ts:221, 287, jobs.ts:418).
LeavesForAReason ==
  [][\A e \in Entries : Leaves(e) =>
       \/ Handles("decay", e) /\ e \in archive
       \/ Handles("tiers", e) /\ ~ForWorking(Copy("tiers", e)) /\ Copy("tiers", e).tier = 1
       \/ Handles("dedup", e)]_memoryVars

\* e loses references or its tier, or comes back from the archive.
Undone(e) ==
  /\ store'[e] # NoEntry
  /\ \/ e \in Live /\ store'[e].refs < store[e].refs
     \/ e \in Live /\ store'[e].tier < store[e].tier
     \/ e \in archive \ Live

\* Progress of an entry is undone only by a pass that writes a copy which is no
\* longer what the store has, or by a peer that still knows the entry.
OnlyStaleCopiesUndo ==
  [][\A e \in Entries : Undone(e) =>
       \E j \in Jobs : Handles(j, e) /\ (j = "propagation" \/ Copy(j, e) # store[e])]_memoryVars
=============================================================================
