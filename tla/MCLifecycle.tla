---------------------------- MODULE MCLifecycle ----------------------------
(***************************************************************************)
(* Instances of DaemonLifecycle.                                           *)
(***************************************************************************)
EXTENDS DaemonLifecycle

CONSTANTS p1, p2

\* The third launch is another user's: neither it nor the first sees the other.
OtherUser == {<<1, 3>>, <<3, 1>>}

\* The ids are interchangeable: the first launch gets p1.
MCSpec == LifeInit /\ [][LifeNext /\ pid'[1] # p2]_lifeVars /\ LifeFairness
=============================================================================
