----------------------------- MODULE PetMemory -----------------------------
(***************************************************************************)
(* What a pet remembers: its knowledge, the feed it shares with the other  *)
(* pets, the seeding at boot and the history of a channel, each a store of *)
(* its own on disk, which share no state (daemon/lifecycle.ts:112-259      *)
(* builds them).                                                           *)
(***************************************************************************)
EXTENDS KnowledgeMemory, KnowledgeFeed, KnowledgeSeeder, ChatHistory

petMemoryVars == <<memoryVars, feedVars, seederVars, historyVars>>

\* Each is used whenever the daemon gets to it, whatever the others do.
PetMemorySpec == MemorySpec /\ FeedSpec /\ SeederSpec /\ HistorySpec

-----------------------------------------------------------------------------

\* Nothing is learned twice: no poll imports an item again (subscriber.ts:66), but a
\* topic that was forgotten behind a poll that saved no checkpoint, and no boot stores
\* a seed again (seeder.ts:5), but for a seeding that broke off before its state was
\* saved, or that could not read the state.
NothingLearnedTwice == ImportedAtMostOnce /\ SeededOnce

TypeOK == MemoryTypeOK /\ FeedTypeOK /\ SeederTypeOK /\ HistoryTypeOK
=============================================================================
