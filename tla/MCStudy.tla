------------------------------ MODULE MCStudy ------------------------------
(***************************************************************************)
(* Instances of StudyQueue.                                                *)
(***************************************************************************)
EXTENDS StudyQueue

CONSTANTS c1, c2, c3, c4
=============================================================================
