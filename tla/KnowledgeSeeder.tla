-------------------------- MODULE KnowledgeSeeder --------------------------
(***************************************************************************)
(* KnowledgeSeeder (expertise/seeder.ts): at every boot, the entries of    *)
(* the seed files that were not imported before are stored, each under a   *)
(* random id, and what is imported is saved at the end.                    *)
(***************************************************************************)
EXTENDS Naturals, FiniteSets

CONSTANTS Seeds,    \* the hashes of the entries in the seed files
          MaxBoots  \* bound on the boots

ASSUME SeederAssumption == MaxBoots \in Nat

VARIABLES
  seeding,     \* "off", "storing" or "saving"
  seedsLeft,   \* entries that the loop has not come to
  hashes,      \* existingHashes
  imported,    \* whether this seeding stored anything
  seedState,   \* seed-state.json
  boots,
  copies,      \* auxiliary: how many entries of each seed the knowledge got
  broken,      \* auxiliary: the seedings that broke off
  unread       \* auxiliary: the seedings that could not read an intact state

seederVars == <<seeding, seedsLeft, hashes, imported, seedState, boots, copies, broken, unread>>

SeederInit ==
  /\ seeding = "off" /\ seedsLeft = {} /\ hashes = {} /\ seedState = {}
  /\ copies = [h \in Seeds |-> 0] /\ imported = FALSE
  /\ boots = 0 /\ broken = 0 /\ unread = 0

-----------------------------------------------------------------------------

\* seed: the files are read, some may be unreadable, and the state is loaded,
\* which on any error of the read or the schema is as if nothing was imported.
SeedStarts ==
  /\ seeding = "off" /\ boots < MaxBoots /\ boots' = boots + 1
  /\ \E readable \in SUBSET Seeds : seedsLeft' = readable
  /\ \/ hashes' = seedState /\ UNCHANGED unread
     \/ hashes' = {} /\ unread' = unread + 1
  /\ imported' = FALSE
  /\ seeding' = "storing"
  /\ UNCHANGED <<seedState, copies, broken>>

\* Mutant: the hash is not looked at.
AlwaysNew(h) == TRUE

IsNew(h) == h \notin hashes

\* An entry that is not imported yet is stored.
SeedStores(h) ==
  /\ seeding = "storing" /\ h \in seedsLeft
  /\ seedsLeft' = seedsLeft \ {h}
  /\ IF IsNew(h)
     THEN /\ copies' = [copies EXCEPT ![h] = @ + 1]
          /\ hashes' = hashes \cup {h} /\ imported' = TRUE
     ELSE UNCHANGED <<copies, hashes, imported>>
  /\ UNCHANGED <<seeding, seedState, boots, broken, unread>>

\* saveState, when something was imported: the file is truncated, ...
SeedSaves ==
  /\ seeding = "storing" /\ seedsLeft = {}
  /\ IF imported
     THEN seeding' = "saving" /\ seedState' = {}
     ELSE seeding' = "off" /\ UNCHANGED seedState
  /\ UNCHANGED <<seedsLeft, hashes, imported, copies, boots, broken, unread>>

\* ... then written, with the hashes that were loaded and the new ones.
SeedEnds ==
  /\ seeding = "saving"
  /\ seedState' = hashes
  /\ seeding' = "off"
  /\ UNCHANGED <<seedsLeft, hashes, imported, copies, boots, broken, unread>>

\* The daemon dies, or a file operation throws.  A state file that was being
\* written is unreadable, which loads as no state.
SeedBreaks ==
  /\ seeding # "off"
  /\ seeding' = "off" /\ broken' = broken + 1
  /\ seedsLeft' = {}
  /\ UNCHANGED <<hashes, imported, seedState, copies, boots, unread>>

SeederNext ==
  \/ SeedStarts \/ SeedSaves \/ SeedEnds \/ SeedBreaks
  \/ \E h \in Seeds : SeedStores(h)

SeederSpec == SeederInit /\ [][SeederNext]_seederVars

-----------------------------------------------------------------------------

SeederTypeOK ==
  /\ seeding \in {"off", "storing", "saving"}
  /\ seedsLeft \subseteq Seeds /\ hashes \subseteq Seeds /\ seedState \subseteq Seeds
  /\ copies \in [Seeds -> 0..MaxBoots]
  /\ imported \in BOOLEAN
  /\ boots \in 0..MaxBoots /\ broken \in 0..MaxBoots /\ unread \in 0..MaxBoots

\* "deduplicates via SHA-256 hash tracking" (seeder.ts:5): a seed is stored once,
\* and once more at most for each seeding that broke off and each that could not
\* read what had been imported; what the state file lists was stored, so that
\* neither loses a seed, although such a seeding overwrites the file.
SeededOnce ==
  /\ \A h \in Seeds : copies[h] =< 1 + broken + unread
  /\ \A h \in seedState : copies[h] > 0
=============================================================================
