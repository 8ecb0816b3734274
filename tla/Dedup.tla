------------------------------- MODULE Dedup -------------------------------
(***************************************************************************)
(* BoundedUUIDSet (session/dedup.ts): a ring of message ids and a Set of   *)
(* the same ids.  add() evicts from the Set whatever the ring holds at     *)
(* the write position, so the two structures are kept equal by hand.       *)
(***************************************************************************)
EXTENDS Naturals, Sequences

CONSTANTS Ids,       \* message ids
          Capacity,  \* size of the ring; the router uses 1000
          Undefined  \* an array slot never written

ASSUME DedupAssumption ==
  /\ Capacity \in Nat \ {0}
  /\ Undefined \notin Ids

VARIABLES ring, set, writeIdx

dedupVars == <<ring, set, writeIdx>>

Slots == 0 .. (Capacity - 1)

Emptied == [i \in Slots |-> Undefined]

DedupInit == ring = Emptied /\ set = {} /\ writeIdx = 0

Has(id) == id \in set

Step(i) == (i + 1) % Capacity

SetAfterAdd(id) ==
  (IF ring[writeIdx] # Undefined THEN set \ {ring[writeIdx]} ELSE set) \cup {id}

\* Mutant: no early return, a remembered id is written a second time.
AddWithoutCheck(id) ==
  /\ set' = SetAfterAdd(id)
  /\ ring' = [ring EXCEPT ![writeIdx] = id]
  /\ writeIdx' = Step(writeIdx)

AddNew(id) ==
  /\ ~Has(id)
  /\ set' = SetAfterAdd(id)
  /\ ring' = [ring EXCEPT ![writeIdx] = id]
  /\ writeIdx' = Step(writeIdx)

Clear == set' = {} /\ ring' = Emptied /\ writeIdx' = 0

DedupNext == Clear \/ \E id \in Ids : AddNew(id)

DedupSpec == DedupInit /\ [][DedupNext]_dedupVars

-----------------------------------------------------------------------------
(***************************************************************************)
(* Properties.                                                             *)
(***************************************************************************)

DedupTypeOK ==
  /\ ring \in [Slots -> Ids \cup {Undefined}]
  /\ set \in SUBSET Ids
  /\ writeIdx \in Slots

Held == {ring[i] : i \in Slots} \ {Undefined}

\* The Set answers has() for exactly the ids in the ring, and no id sits in two
\* slots: an eviction that forgets the wrong id, or a second copy of one, would
\* let a redelivered message through or block a new one for ever
\* (dedup.ts add and clear keep the two by hand).
SetIsRing ==
  /\ set = Held
  /\ \A i, j \in Slots : ring[i] = ring[j] /\ ring[i] # Undefined => i = j

\* Before the ring is full, the written slots are those below the write position.
FilledInOrder ==
  \A i \in Slots :
    /\ i < writeIdx => ring[i] # Undefined
    /\ ring[writeIdx] = Undefined /\ i >= writeIdx => ring[i] = Undefined
    /\ ring[writeIdx] # Undefined => ring[i] # Undefined

DedupInv == DedupTypeOK /\ SetIsRing /\ FilledInOrder

\* The slot read n places after the write position.
Ahead(n) == IF writeIdx + n < Capacity THEN writeIdx + n ELSE writeIdx + n - Capacity

\* The ids in the order they were added.
OldestFirst ==
  IF ring[writeIdx] = Undefined
  THEN [i \in 1 .. writeIdx |-> ring[i - 1]]
  ELSE [i \in 1 .. Capacity |-> ring[Ahead(i - 1)]]

W == INSTANCE DedupWindow WITH window <- OldestFirst

\* The ring and the Set together are the window of the last Capacity distinct
\* ids: an id is forgotten only when Capacity others came after it, and never
\* reappears unless it is added again (BoundedUUIDSet's "Oldest entries are
\* evicted when capacity is exceeded", dedup.ts:6).
RefinesWindow == W!Spec
=============================================================================
