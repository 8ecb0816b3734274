--------------------------- MODULE SessionStore ----------------------------
(***************************************************************************)
(* The session records on disk (session/store.ts): one file per            *)
(* user:channel, replaced by rename, its writes serialised by withLock.    *)
(* A write carries the record its caller computed from an earlier read.    *)
(* The writers, and the session ids in a record, are those of Executor.    *)
(***************************************************************************)
EXTENDS Executor, Naturals, Sequences

CONSTANTS Keys,         \* user:channel pairs
          None,         \* no record, no session id
          DiskMayFail   \* whether writeFile or rename may reject

VARIABLES
  record,   \* the file of each key
  queue     \* the writes of each key that wait in withLock, in order

storeVars == <<record, queue>>

\* messageCount and claudeSessionId; the other fields never change or only
\* hold times.
Record == [count : Nat, resume : Requests \cup {None}]

\* `register` is the write getOrCreate awaits, `finish` the one that
\* handleSessionDone leaves running.
Write == [by : Requests, step : {"register", "finish"}, rec : Record]

StoreInit ==
  /\ record = [k \in Keys |-> None]
  /\ queue = [k \in Keys |-> <<>>]

\* write(): wait behind the writes of the same key.
QueueWrite(k, w) == queue' = [queue EXCEPT ![k] = Append(@, w)]

\* The write at the head replaces the file; what its caller does next belongs
\* to the caller.
HeadWritten(k) ==
  /\ queue[k] # <<>>
  /\ record' = [record EXCEPT ![k] = Head(queue[k]).rec]
  /\ queue' = [queue EXCEPT ![k] = Tail(@)]

\* The write at the head rejects; withLock runs the next one all the same
\* (prev.then(fn, fn)).
HeadFails(k) ==
  /\ DiskMayFail
  /\ queue[k] # <<>>
  /\ queue' = [queue EXCEPT ![k] = Tail(@)]
  /\ UNCHANGED record

StoreTypeOK ==
  /\ record \in [Keys -> {None} \cup Record]
  /\ queue \in [Keys -> Seq(Write)]
=============================================================================
