---------------------------- MODULE DedupWindow ----------------------------
(***************************************************************************)
(* What the router is promised by its duplicate filter: the filter         *)
(* remembers the last Capacity distinct message ids, oldest first, and     *)
(* nothing else.  BoundedUUIDSet (module Dedup) implements this.           *)
(***************************************************************************)
EXTENDS Naturals, Sequences

CONSTANTS Ids,       \* message ids
          Capacity   \* how many ids are remembered

VARIABLE window      \* the remembered ids, oldest first

Init == window = <<>>

\* An id that is remembered already changes nothing: it is not moved to the
\* young end.  A new one pushes the oldest out of a full window.
Remember(id) ==
  /\ \A i \in 1 .. Len(window) : window[i] # id
  /\ window' = IF Len(window) = Capacity
               THEN Append(Tail(window), id)
               ELSE Append(window, id)

Forget == window' = <<>>

Next == Forget \/ \E id \in Ids : Remember(id)

Spec == Init /\ [][Next]_window
=============================================================================
