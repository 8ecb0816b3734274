--------------------------- MODULE SessionCleanup ---------------------------
(***************************************************************************)
(* The job session-cleanup (cron/jobs.ts) beside the sessions that write   *)
(* their records (session/store.ts).  list gives the names of the files,   *)
(* in which other characters stand for those of the keys; a name leads to  *)
(* the same file as its key, but the lock of delete is that of the name    *)
(* and the lock of write that of the key: they do not exclude each other.  *)
(***************************************************************************)

CONSTANTS Keys, NoKey

VARIABLES
  record,  \* the file of each key: none, older than 30 days, or not
  cleanup  \* the run of the job: its place, the key it read, the rest of its list

cleanupVars == <<record, cleanup>>

\* key is the one that is to be deleted.
Cleaning(key, todo) == [at |-> "running", key |-> key, todo |-> todo]

Resting == [at |-> "idle", key |-> NoKey, todo |-> {}]

CleanupInit ==
  /\ record \in [Keys -> {"none", "old", "fresh"}]
  /\ cleanup = Resting

CleanupLists ==
  /\ cleanup.at = "idle"
  /\ cleanup' = Cleaning(NoKey, {k \in Keys : record[k] # "none"})
  /\ UNCHANGED record

Reading == cleanup.at = "running" /\ cleanup.key = NoKey

\* A record that is older than 30 days is to be deleted; others are passed.
CleanupReads(k) ==
  /\ Reading /\ k \in cleanup.todo
  /\ cleanup' = Cleaning(IF record[k] = "old" THEN k ELSE NoKey, cleanup.todo \ {k})
  /\ UNCHANGED record

\* delete unlinks the file, whatever it holds by now.
CleanupDeletes ==
  /\ cleanup.key # NoKey
  /\ record' = [record EXCEPT ![cleanup.key] = "none"]
  /\ cleanup' = Cleaning(NoKey, cleanup.todo)

CleanupEnds ==
  /\ Reading /\ cleanup.todo = {}
  /\ cleanup' = Resting
  /\ UNCHANGED record

\* A session writes its record, and its lastActivityAt is now.
SessionWrites(k) ==
  /\ record' = [record EXCEPT ![k] = "fresh"]
  /\ UNCHANGED cleanup

\* Thirty days without a message.
RecordAges(k) ==
  /\ record[k] = "fresh"
  /\ record' = [record EXCEPT ![k] = "old"]
  /\ UNCHANGED cleanup

CleanupNext ==
  \/ CleanupLists \/ CleanupDeletes \/ CleanupEnds
  \/ \E k \in Keys : CleanupReads(k) \/ SessionWrites(k) \/ RecordAges(k)

CleanupSpec == CleanupInit /\ [][CleanupNext]_cleanupVars

\* "remove session records older than 30 days" (jobs.ts:433): a record that is
\* removed is older than that when it is removed.
OnlyOldRemoved ==
  [][\A k \in Keys : record[k] # "none" /\ record'[k] = "none" => record[k] = "old"]_cleanupVars
=============================================================================
