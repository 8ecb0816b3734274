------------------------------ MODULE MCMemory ------------------------------
(***************************************************************************)
(* Instances of PetMemory.  Its parts share no state, so a behaviour moves *)
(* one of them, chosen at the start: the state spaces add up instead of    *)
(* multiplying.  Knowledge comes in two instances: one entry under every   *)
(* two passes, and two entries of one topic under the passes that compare  *)
(* entries, and references.                                                *)
(***************************************************************************)
EXTENDS PetMemory

CONSTANTS e1, e2, p1, p2, pip, rex, s1, s2, i1, i2, i3, t, u, a, b

VARIABLE moving

MCTopic == [e \in Entries |-> t]

MCCopies == {[tier |-> 2, refs |-> 0, strength |-> Full, confidence |-> 2]}

MCPetOf == [s \in Sessions |-> IF s = s1 THEN pip ELSE rex]

MCItemsOf == [s \in Sessions |-> IF s = s1 THEN {i1, i2} ELSE {i3}]

MCTopicOf == [i \in Items |-> IF i = i1 THEN t ELSE u]

KnowledgeMoves ==
  /\ MemoryNext
  /\ moving = "entry" => /\ store'[e2] = NoEntry
                         /\ \A j \in Jobs : e2 \notin pass'[j].todo
  /\ moving = "pair" => \A j \in {"decay", "tiers", p2} : pass'[j] = pass[j]

Init ==
  /\ moving \in {"entry", "pair", "feed", "seeder", "history"}
  /\ MemoryInit /\ FeedInit /\ SeederInit /\ HistoryInit

Next ==
  /\ UNCHANGED moving
  /\ \/ /\ moving \in {"entry", "pair"} /\ KnowledgeMoves
        /\ UNCHANGED <<feedVars, seederVars, historyVars>>
     \/ /\ moving = "feed" /\ FeedNext
        /\ UNCHANGED <<memoryVars, seederVars, historyVars>>
     \/ /\ moving = "seeder" /\ SeederNext
        /\ UNCHANGED <<memoryVars, feedVars, historyVars>>
     \/ /\ moving = "history" /\ HistoryNext
        /\ UNCHANGED <<memoryVars, feedVars, seederVars>>

vars == <<petMemoryVars, moving>>

Spec == Init /\ [][Next]_vars
=============================================================================
