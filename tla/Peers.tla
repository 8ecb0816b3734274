------------------------------- MODULE Peers -------------------------------
(***************************************************************************)
(* What a pet shares with the other pets, with the remote repository and   *)
(* with its channels: collaboration tasks, evaluations, the watching of    *)
(* the repository, the channels and the queue of failed deliveries.  They  *)
(* share no state.                                                         *)
(***************************************************************************)
EXTENDS Collaboration, Evaluation, GitWatch, Channels, DeliveryQueue

peersVars == <<collabVars, evalVars, gitVars, chanVars, delVars>>

\* Each goes on whenever the daemon gets to it, whatever the others do.
PeersSpec == CollabSpec /\ EvalSpec /\ GitSpec /\ ChanSpec /\ DelSpec

-----------------------------------------------------------------------------

TypeOK ==
  /\ CollabTypeOK /\ EvalTypeOK /\ GitTypeOK /\ ChanTypeOK /\ DelTypeOK
=============================================================================
