------------------------------- MODULE MCCron -------------------------------
(***************************************************************************)
(* Two jobs, one of which runs on start.  Jobs share only the service's    *)
(* flags, so that two show every way in which one is waited for while the  *)
(* other is between attempts.                                              *)
(***************************************************************************)
EXTENDS CronService

CONSTANTS j1, j2
=============================================================================
