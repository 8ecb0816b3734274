------------------------------ MODULE MCPeers ------------------------------
(***************************************************************************)
(* Instances of Peers.  Its parts share no state, so a behaviour moves one *)
(* of them, chosen at the start.  Two parts come in two instances: the two *)
(* kinds of collaboration tasks, which are files of their own, and         *)
(* evaluation with more sessions, or with more evaluators and crashes.     *)
(***************************************************************************)
EXTENDS Peers

CONSTANTS p, q, r, called, placed, s1, s2, s3, main, dev, post1, d1, d2

VARIABLE moving

MCCallerOf == [t \in Called |-> p]

MCAssignedTo == [t \in Placed |-> {p, q}]

MCEndedOf == [s \in Ended |-> p]

MCIgnored == [b \in Branches |-> IF b = main THEN {} ELSE {2}]

vars == <<peersVars, moving>>

Init ==
  /\ moving \in {"called", "placed", "asking", "judging", "git", "channels", "delivery"}
  /\ CollabInit /\ EvalInit /\ GitInit /\ ChanInit /\ DelInit

CollabMoves ==
  /\ CollabNext
  /\ moving = "called" => \A t \in Placed : task'[t] = task[t]
  /\ moving = "placed" => \A t \in Called : task'[t] = task[t]

EvalMoves ==
  /\ EvalNext
  /\ moving = "asking" => judge'[r] = judge[r] /\ falls' = falls
  /\ moving = "judging" => asking'[s3] = asking[s3]

Next ==
  /\ UNCHANGED moving
  /\ \/ /\ moving \in {"called", "placed"} /\ CollabMoves
        /\ UNCHANGED <<evalVars, gitVars, chanVars, delVars>>
     \/ /\ moving \in {"asking", "judging"} /\ EvalMoves
        /\ UNCHANGED <<collabVars, gitVars, chanVars, delVars>>
     \/ /\ moving = "git" /\ GitNext
        /\ UNCHANGED <<collabVars, evalVars, chanVars, delVars>>
     \/ /\ moving = "channels" /\ ChanNext
        /\ UNCHANGED <<collabVars, evalVars, gitVars, delVars>>
     \/ /\ moving = "delivery" /\ DelNext
        /\ UNCHANGED <<collabVars, evalVars, gitVars, chanVars>>

Spec == Init /\ [][Next]_vars /\ CollabFairness
=============================================================================
