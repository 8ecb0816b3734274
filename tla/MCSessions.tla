----------------------------- MODULE MCSessions -----------------------------
(***************************************************************************)
(* Two messages of one user and channel, for one slot: every way in which  *)
(* two calls overlap at the check, share a key, time out, fail to be       *)
(* recorded, or meet a shutdown.                                           *)
(***************************************************************************)
EXTENDS SessionManager

CONSTANTS r1, r2, k1

MCKeyOf == [r \in Requests |-> k1]
=============================================================================
