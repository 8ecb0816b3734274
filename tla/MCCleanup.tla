----------------------------- MODULE MCCleanup -----------------------------
(***************************************************************************)
(* Session cleanup over the records of two keys.                           *)
(***************************************************************************)
EXTENDS SessionCleanup

CONSTANTS k1, k2
=============================================================================
