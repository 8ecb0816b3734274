----------------------------- MODULE MCRouter ------------------------------
(***************************************************************************)
(* A message delivered twice, another conversation and a study command,    *)
(* one session slot and a duplicate filter of one id, so that duplicates   *)
(* are dropped, forgotten and processed again, and calls are refused.      *)
(***************************************************************************)
EXTENDS Router

CONSTANTS d1, d2, d3, m1, m2

MCIdOf == [d \in Requests |-> IF d = d3 THEN m2 ELSE m1]

MCKindOf == [d \in Requests |-> IF d = d3 THEN "study" ELSE "chat"]
=============================================================================
