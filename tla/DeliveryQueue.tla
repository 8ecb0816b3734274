--------------------------- MODULE DeliveryQueue ---------------------------
(***************************************************************************)
(* The delivery queue (delivery/queue.ts): messages that could not be sent *)
(* are kept and sent again, with a growing delay, up to five times.  No    *)
(* module of the daemon constructs it; enqueue and processAll are called   *)
(* here in any order.                                                      *)
(***************************************************************************)
EXTENDS SequencesExt

CONSTANTS Deliveries, MaxRetries, MaxLives

ASSUME DeliveryAssumption ==
  MaxRetries \in Nat /\ MaxLives \in Nat /\ "processAll" \notin Deliveries

VARIABLES
  pending,  \* the list in memory
  working,  \* processAll: its place, the deliveries handled, and those that remain
  queueFile,\* the file: a list, empty without one
  persists, \* the persists under way: their caller, and the list once it is read
  fate,     \* what became of each delivery
  lives

delVars == <<pending, working, queueFile, persists, fate, lives>>

Delivery(d, attempts) == [id |-> d, attempts |-> attempts]

Working(at, done, remaining) == [at |-> at, done |-> done, remaining |-> remaining]

\* A delivery stands for the enqueue that added it.
Write(by, at, list) == [by |-> by, at |-> at, list |-> list]

Persist(by) == persists' = persists \cup {Write(by, "mkdir", <<>>)}

NotWorking == Working("idle", 0, <<>>)

DelInit ==
  /\ pending = <<>> /\ working = NotWorking /\ queueFile = <<>> /\ persists = {}
  /\ fate = [d \in Deliveries |-> "new"] /\ lives = 0

\* enqueue adds to the list, also to one that processAll goes through.
Enqueues(d) ==
  /\ fate[d] = "new"
  /\ fate' = [fate EXCEPT ![d] = "queued"]
  /\ pending' = Append(pending, Delivery(d, 0))
  /\ Persist(d)
  /\ UNCHANGED <<working, queueFile, lives>>

\* The directory is there: the list is read as it is then.
Serialises(write) ==
  /\ write.at = "mkdir"
  /\ persists' = (persists \ {write}) \cup {Write(write.by, "file", pending)}
  /\ UNCHANGED <<pending, working, queueFile, fate, lives>>

\* persist overwrites the file, or removes it, and writes end in any order; that of
\* processAll ends the call.
Persisted(write) ==
  /\ write.at = "file" /\ persists' = persists \ {write}
  /\ queueFile' = write.list
  /\ working' = IF write.by = "processAll" THEN NotWorking ELSE working
  /\ UNCHANGED <<pending, fate, lives>>

-----------------------------------------------------------------------------
(***************************************************************************)
(* processAll.                                                             *)
(***************************************************************************)

ProcessStarts ==
  /\ working.at = "idle"
  /\ working' = Working("list", 0, <<>>)
  /\ UNCHANGED <<pending, queueFile, persists, fate, lives>>

At == pending[working.done + 1]

\* The loop goes on over what was added to the list in the meantime.
Listed == working.at = "list" /\ working.done < Len(pending)

Handles(remaining) == working' = Working("list", working.done + 1, remaining)

\* Mutant: what is postponed is not kept.
Forgotten == working.remaining

Postponed == Append(working.remaining, At)

\* The signal is aborted, or the delay is not over.
Postpones ==
  /\ Listed
  /\ Handles(Postponed)
  /\ UNCHANGED <<pending, queueFile, persists, fate, lives>>

\* Mutant: one attempt more is made.
OnceMoreTried(n) == n > MaxRetries

Exhausted(n) == n >= MaxRetries

GivesUp ==
  /\ Listed /\ Exhausted(At.attempts)
  /\ Handles(working.remaining)
  /\ fate' = [fate EXCEPT ![At.id] = "over"]
  /\ UNCHANGED <<pending, queueFile, persists, lives>>

Tries ==
  /\ Listed /\ ~Exhausted(At.attempts)
  /\ working' = [working EXCEPT !.at = "sending"]
  /\ UNCHANGED <<pending, queueFile, persists, fate, lives>>

\* deliverFn resolves, or fails for good (400, 401, 403, 404), or for now.
Delivers ==
  /\ working.at = "sending"
  /\ \/ /\ Handles(working.remaining)
        /\ fate' = [fate EXCEPT ![At.id] = "over"]
     \/ /\ Handles(Append(working.remaining, Delivery(At.id, At.attempts + 1)))
        /\ UNCHANGED fate
  /\ UNCHANGED <<pending, queueFile, persists, lives>>

\* What remains is the list, and is written.
ProcessEnds ==
  /\ working.at = "list" /\ working.done = Len(pending)
  /\ pending' = working.remaining
  /\ working' = Working("persisting", 0, <<>>)
  /\ Persist("processAll")
  /\ UNCHANGED <<queueFile, fate, lives>>

-----------------------------------------------------------------------------

Ids(list) == {list[i].id : i \in DOMAIN list}

\* A crash, that may tear a file which is being written, and loadPending.
LivesAgain ==
  /\ lives < MaxLives /\ lives' = lives + 1
  /\ \E file \in {queueFile} \cup {<<>> : w \in {x \in persists : x.at = "file"}} :
       /\ pending' = file /\ queueFile' = file
       /\ fate' = [d \in Deliveries |-> IF d \in Ids(file) THEN "queued"
                                        ELSE IF fate[d] = "queued" THEN "lost" ELSE fate[d]]
  /\ working' = NotWorking /\ persists' = {}

DelNext ==
  \/ ProcessStarts \/ Postpones \/ GivesUp \/ Tries \/ Delivers \/ ProcessEnds \/ LivesAgain
  \/ \E d \in Deliveries : Enqueues(d)
  \/ \E write \in persists : Serialises(write) \/ Persisted(write)

DelSpec == DelInit /\ [][DelNext]_delVars

-----------------------------------------------------------------------------
(***************************************************************************)
(* Properties.                                                             *)
(***************************************************************************)

DelTypeOK ==
  /\ pending \in Seq([id : Deliveries, attempts : 0..MaxRetries])
  /\ working.at \in {"idle", "list", "sending", "persisting"}
  /\ working.done \in 0..Len(pending)
  /\ working.remaining \in Seq([id : Deliveries, attempts : 0..MaxRetries])
  /\ fate \in [Deliveries -> {"new", "queued", "over", "lost"}] /\ lives \in 0..MaxLives

\* What the queue still has to send, in the middle of processAll or not.
Outstanding == working.remaining \o SubSeq(pending, working.done + 1, Len(pending))

\* "Failed deliveries are queued in memory and persisted" (queue.ts:5): a delivery
\* that is neither sent nor given up is in the queue exactly once, when it came in
\* the middle of processAll too, and one that is over is not, until a restart.
NoDeliveryForgotten ==
  \A d \in Deliveries :
    Cardinality({i \in DOMAIN Outstanding : Outstanding[i].id = d})
      = IF fate[d] = "queued" THEN 1 ELSE 0
=============================================================================
