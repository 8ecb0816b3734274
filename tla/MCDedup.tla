------------------------------ MODULE MCDedup ------------------------------
(***************************************************************************)
(* Five message ids through a ring of three slots: every id is evicted and *)
(* comes back, and the write position wraps several times.                 *)
(***************************************************************************)
EXTENDS Dedup

=============================================================================
