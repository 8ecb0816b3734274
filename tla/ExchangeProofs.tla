--------------------------- MODULE ExchangeProofs ---------------------------
(***************************************************************************)
(* Proofs about what a pet exchanges with the outside: its channels, the   *)
(* queue of failed deliveries and the watching of the repository, for any  *)
(* number of updates, deliveries, branches and commits.                    *)
(***************************************************************************)
EXTENDS Channels, DeliveryQueue, GitWatch, FiniteSetTheorems, SequenceTheorems, WellFoundedInduction, TLAPS

-----------------------------------------------------------------------------
(***************************************************************************)
(* Channels, for any number of updates, posts and starts.                  *)
(***************************************************************************)

\* Where the offset is, seen from the loop: not past the batch that is handled, whose
\* next update is at the offset or the first that the server keeps; one past the update
\* that is being prepared; and at 0 before the loop begins.
Position ==
  /\ loop.at = "waits" => offset =< kept
  /\ loop.at = "batch" => offset =< loop.next /\ (loop.next =< offset \/ loop.next =< kept)
  /\ loop.at = "loads" => offset = loop.next + 1 /\ loop.next \in Updates
  /\ stage \in {"built", "connecting"} => offset = 0 /\ loop.at = "none"
  /\ loop.last =< sent

\* What was handed over in this life is behind the offset, and what is behind the
\* offset was handed over, but for the update that is being prepared.
Behind ==
  /\ \A u \in Updates : handedNow[u] > 0 => u < offset /\ ~(loop.at = "loads" /\ u = loop.next)
  /\ loop.at # "none" =>
       \A u \in Updates \ Unwanted :
         u < offset => u \in handed \/ (loop.at = "loads" /\ u = loop.next)

ChanInv == ChanTypeOK /\ Position /\ Behind /\ UpdatesHandedOnce

-----------------------------------------------------------------------------

LEMMA ChanTypeInit == ChanInit => ChanTypeOK
  BY ChannelsAssumption DEF ChanInit, ChanTypeOK, NoLoop, Looping, Updates

LEMMA ChanInvInit == ChanInit => ChanInv
  BY ChanTypeInit, ChannelsAssumption
  DEF ChanInv, ChanInit, Position, Behind, UpdatesHandedOnce, NoLoop, Looping, Updates

\* Every step keeps the types, given where the offset is.
LEMMA ChanTypeStep == ChanTypeOK /\ Position /\ [ChanNext]_chanVars => ChanTypeOK'
<1> SUFFICES ASSUME ChanTypeOK, Position, [ChanNext]_chanVars PROVE ChanTypeOK'
  OBVIOUS
<1> USE ChannelsAssumption DEF ChanTypeOK, Updates, Looping, NoLoop, Unmoved, Reaches, LoopGoes
<1>1. CASE UNCHANGED chanVars
  BY <1>1 DEF chanVars
<1>2. CASE BuildsParts
  BY <1>2 DEF BuildsParts
<1>3. CASE DiscordConnects
  BY <1>3 DEF DiscordConnects
<1>4. CASE TelegramConnects
  BY <1>4 DEF TelegramConnects
<1>5. CASE JobsStart
  BY <1>5 DEF JobsStart
<1>6. CASE RouterStops
  BY <1>6 DEF RouterStops
<1>7. CASE ChannelsDisconnect
  BY <1>7 DEF ChannelsDisconnect
<1>8. CASE StartBreaks
  BY <1>8 DEF StartBreaks
<1>9. CASE Ends
  BY <1>9 DEF Ends
<1>10. CASE UpdateSent
  BY <1>10 DEF UpdateSent
<1>11. CASE AsksUpdates
  BY <1>11 DEF AsksUpdates
<1>12. CASE GetsUpdates
  BY <1>12 DEF GetsUpdates
<1>13. CASE TakesUpdate
  <2>1. /\ loop.next \in 1..MaxUpdates /\ offset' = loop.next + 1
        /\ UNCHANGED <<stage, starts, sent, kept, handedNow, handed, post>>
    BY <1>13 DEF TakesUpdate, Past
  <2>2. CASE loop.next \in Unwanted
    <3>1. loop' = Looping("batch", loop.next + 1, loop.last)
      BY <1>13, <2>2 DEF TakesUpdate
    <3> QED
      BY <2>1, <3>1
  <2>3. CASE loop.next \notin Unwanted
    <3>1. loop' = Looping("loads", loop.next, loop.last)
      BY <1>13, <2>3 DEF TakesUpdate
    <3> QED
      BY <2>1, <3>1
  <2> QED
    BY <2>2, <2>3
<1>14. CASE HandsUpdate
  <2>1. loop.next \in 1..MaxUpdates
    BY <1>14 DEF HandsUpdate, Position
  <2>2. loop' \in [at : {"none", "asks", "waits", "batch", "loads"},
                  next : 1..MaxUpdates + 1, last : 0..MaxUpdates]
    BY <1>14, <2>1 DEF HandsUpdate
  <2>3. /\ handedNow' = [handedNow EXCEPT ![loop.next] = handedNow[loop.next] + 1]
        /\ handedNow[loop.next] + 1 \in Nat
        /\ handed' \subseteq 1..MaxUpdates
    <3>1. handedNow[loop.next] + 1 \in Nat
      BY <2>1
    <3>2. handed' = handed \cup {loop.next}
      BY <1>14 DEF HandsUpdate
    <3> QED
      BY <1>14, <2>1, <3>1, <3>2 DEF HandsUpdate
  <2>4. handedNow' \in [1..MaxUpdates -> Nat]
    BY <2>1, <2>3
  <2> QED
    BY <1>14, <2>2, <2>3, <2>4 DEF HandsUpdate
<1>15. CASE BatchEnds
  BY <1>15 DEF BatchEnds
<1>16. ASSUME NEW m \in Posts, PostArrives(m) PROVE ChanTypeOK'
  BY <1>16 DEF PostArrives, PostGoes
<1>17. ASSUME NEW m \in Posts, PostHanded(m) PROVE ChanTypeOK'
  BY <1>17 DEF PostHanded, PostGoes
<1> QED
  BY <1>1, <1>2, <1>3, <1>4, <1>5, <1>6, <1>7, <1>8, <1>9, <1>10, <1>11, <1>12, <1>13, <1>14,
     <1>15, <1>16, <1>17 DEF ChanNext

ChanRest == Position /\ Behind /\ UpdatesHandedOnce

\* Every step keeps the offset where it belongs, and hands over what it passes.
LEMMA ChanRestStep ==
  ASSUME ChanTypeOK, ChanTypeOK', ChanRest, [ChanNext]_chanVars PROVE ChanRest'
<1> USE ChannelsAssumption DEF ChanTypeOK, Updates, Looping, NoLoop, Unmoved, Reaches, LoopGoes,
      ChanRest, Position, Behind, UpdatesHandedOnce
<1>1. CASE UNCHANGED chanVars
  BY <1>1 DEF chanVars
<1>2. CASE BuildsParts
  BY <1>2 DEF BuildsParts
<1>3. CASE DiscordConnects \/ JobsStart \/ RouterStops \/ ChannelsDisconnect
  BY <1>3 DEF DiscordConnects, JobsStart, RouterStops, ChannelsDisconnect
<1>4. CASE TelegramConnects
  BY <1>4 DEF TelegramConnects
<1>5. CASE StartBreaks \/ Ends
  BY <1>5 DEF StartBreaks, Ends
<1>6. CASE UpdateSent
  BY <1>6 DEF UpdateSent
<1>7. CASE AsksUpdates
  BY <1>7 DEF AsksUpdates
<1>8. CASE GetsUpdates
  BY <1>8 DEF GetsUpdates
<1>9. CASE TakesUpdate
  <2>1. /\ loop.at = "batch" /\ loop.next \in 1..MaxUpdates /\ offset' = loop.next + 1
        /\ offset =< loop.next /\ stage \notin {"built", "connecting"}
        /\ UNCHANGED <<stage, starts, sent, kept, handedNow, handed, post>>
    BY <1>9 DEF TakesUpdate, Past
  <2>2. loop' = IF loop.next \in Unwanted THEN Looping("batch", loop.next + 1, loop.last)
                ELSE Looping("loads", loop.next, loop.last)
    BY <1>9 DEF TakesUpdate
  <2>3. Position'
    BY <2>1, <2>2
  <2>4. ASSUME NEW u \in Updates
        PROVE  /\ handedNow'[u] > 0 => u < offset' /\ ~(loop'.at = "loads" /\ u = loop'.next)
               /\ u \notin Unwanted /\ u < offset' =>
                    u \in handed' \/ (loop'.at = "loads" /\ u = loop'.next)
    <3>1. CASE u < loop.next
      <4>1. u \notin Unwanted => u \in handed
        BY <1>9, <2>1, <3>1
      <4> QED
        BY <2>1, <2>2, <3>1, <4>1
    <3>2. CASE u >= loop.next
      BY <2>1, <2>2, <3>2
    <3> QED
      BY <2>1, <3>1, <3>2
  <2> QED
    BY <2>1, <2>3, <2>4
<1>10. CASE HandsUpdate
  BY <1>10 DEF HandsUpdate
<1>11. CASE BatchEnds
  BY <1>11 DEF BatchEnds
<1>12. ASSUME NEW m \in Posts, PostArrives(m) \/ PostHanded(m) PROVE ChanRest'
  BY <1>12 DEF PostArrives, PostHanded, PostGoes
<1> QED
  BY <1>1, <1>2, <1>3, <1>4, <1>5, <1>6, <1>7, <1>8, <1>9, <1>10, <1>11, <1>12 DEF ChanNext

LEMMA ChanInvariant == ChanSpec => []ChanInv
<1>1. ChanInv /\ [ChanNext]_chanVars => ChanInv'
  BY ChanTypeStep, ChanRestStep DEF ChanInv, ChanRest
<1> QED
  BY <1>1, ChanInvInit, PTL DEF ChanSpec

-----------------------------------------------------------------------------

\* The types of the server's updates, the offset, the loop and the posts.
THEOREM ChannelsTypeCorrect == ChanSpec => []ChanTypeOK
<1>1. ChanInv => ChanTypeOK
  BY DEF ChanInv
<1> QED
  BY <1>1, ChanInvariant, PTL

\* No update is handed to the router twice in one life of the daemon, and the server
\* forgets none that is meant for the bot before it was handed over, for any number
\* of updates, crashes and restarts at any await (telegram/plugin.ts:97).
THEOREM UpdatesOnce == ChanSpec => []UpdatesHandedOnce
<1>1. ChanInv => UpdatesHandedOnce
  BY DEF ChanInv
<1> QED
  BY <1>1, ChanInvariant, PTL

-----------------------------------------------------------------------------
(***************************************************************************)
(* The queue of failed deliveries: what is queued is listed once.          *)
(***************************************************************************)

Queued == [id : Deliveries, attempts : 0..MaxRetries]

Lists == Seq(Queued)

\* The types, of what is being written too.
DelTyped ==
  /\ pending \in Lists /\ queueFile \in Lists
  /\ working \in [at : {"idle", "list", "sending", "persisting"}, done : Nat, remaining : Lists]
  /\ working.done =< Len(pending)
  /\ persists \subseteq [by : Deliveries \cup {"processAll"}, at : {"mkdir", "file"}, list : Lists]
  /\ fate \in [Deliveries -> {"new", "queued", "over", "lost"}] /\ lives \in 0..MaxLives

\* No delivery is in the list twice.
Once(list) == \A i, j \in DOMAIN list : list[i].id = list[j].id => i = j

\* No list has a delivery twice, and what remains of processAll is of those that it has
\* handled.
ListedOnce ==
  /\ Once(pending) /\ Once(working.remaining)
  /\ Once(queueFile) /\ \A w \in persists : Once(w.list)
  /\ \A i \in DOMAIN working.remaining :
       \E j \in 1..working.done : working.remaining[i].id = pending[j].id
  /\ \A d \in Deliveries : fate[d] = "new" => d \notin Ids(pending)

\* processAll is alone, its place is in the list, and it has a try left for what it sends.
OneProcess ==
  /\ working.at \in {"idle", "persisting"} => working.done = 0 /\ working.remaining = <<>>
  /\ working.at = "sending" => working.done < Len(pending) /\ At.attempts < MaxRetries
  /\ \A w \in persists : w.by = "processAll" => working.at = "persisting"
  /\ \A v, w \in persists : v.by = "processAll" /\ w.by = "processAll" => v = w

\* A delivery that processAll kept, or has yet to handle.
InQueue(d) ==
  \/ d \in Ids(working.remaining)
  \/ \E j \in DOMAIN pending : j > working.done /\ pending[j].id = d

QueuedIsListed == \A d \in Deliveries : fate[d] = "queued" <=> InQueue(d)

DelInv == DelTyped /\ ListedOnce /\ OneProcess /\ QueuedIsListed

\* An append keeps the elements and adds one.
LEMMA AppendFacts ==
  ASSUME NEW S, NEW l \in Seq(S), NEW x \in S
  PROVE  /\ Append(l, x) \in Seq(S) /\ Len(Append(l, x)) = Len(l) + 1
         /\ DOMAIN l = 1..Len(l) /\ DOMAIN Append(l, x) = 1..Len(l) + 1 /\ Len(l) \in Nat
         /\ Append(l, x)[Len(l) + 1] = x
         /\ \A i \in 1..Len(l) : Append(l, x)[i] = l[i]
  OBVIOUS

\* A delivery that is not in a list is in it once when it is appended.
LEMMA OnceAppend ==
  ASSUME NEW l \in Lists, NEW x \in Queued
  PROVE  /\ Append(l, x) \in Lists
         /\ Ids(Append(l, x)) = Ids(l) \cup {x.id}
         /\ Once(l) /\ x.id \notin Ids(l) => Once(Append(l, x))
<1> DEFINE a == Append(l, x)
<1>1. /\ a \in Lists /\ DOMAIN l = 1..Len(l) /\ DOMAIN a = 1..Len(l) + 1 /\ Len(l) \in Nat
      /\ a[Len(l) + 1] = x /\ \A i \in 1..Len(l) : a[i] = l[i]
  BY AppendFacts DEF Lists
<1> HIDE DEF a
<1>2. Ids(a) = Ids(l) \cup {x.id}
  BY <1>1 DEF Ids
<1>3. ASSUME Once(l), x.id \notin Ids(l) PROVE Once(a)
  <2> SUFFICES ASSUME NEW i \in DOMAIN a, NEW j \in DOMAIN a, a[i].id = a[j].id PROVE i = j
    BY DEF Once
  <2>1. CASE i \in 1..Len(l) /\ j \in 1..Len(l)
    BY <2>1, <1>1, <1>3 DEF Once
  <2>2. CASE i = Len(l) + 1 /\ j \in 1..Len(l)
    BY <2>2, <1>1, <1>3 DEF Ids
  <2>3. CASE j = Len(l) + 1 /\ i \in 1..Len(l)
    BY <2>3, <1>1, <1>3 DEF Ids
  <2> QED
    BY <2>1, <2>2, <2>3, <1>1
<1> QED
  BY <1>1, <1>2, <1>3 DEF a

\* With an empty queue, all of it holds.
LEMMA DelInvInit == DelInit => DelInv
  BY DeliveryAssumption DEF DelInit, DelInv, DelTyped, ListedOnce, OneProcess, QueuedIsListed,
     Lists, Once, InQueue, Ids, Working, NotWorking

\* A delivery comes in when it is in no list yet.
LEMMA EnqueuesStep ==
  ASSUME DelInv, NEW d \in Deliveries, Enqueues(d)
  PROVE  DelInv'
<1> USE DeliveryAssumption DEF DelInv
<1> DEFINE x == Delivery(d, 0)
<1>0. /\ fate[d] = "new" /\ fate' = [fate EXCEPT ![d] = "queued"] /\ x \in Queued /\ x.id = d
      /\ pending' = Append(pending, x) /\ pending \in Lists
      /\ persists' = persists \cup {Write(d, "mkdir", <<>>)} /\ d # "processAll"
      /\ UNCHANGED <<working, queueFile, lives>>
  BY DEF Enqueues, Persist, Delivery, Queued, DelTyped
<1>1. /\ pending' \in Lists /\ DOMAIN pending = 1..Len(pending) /\ Len(pending) \in Nat
      /\ DOMAIN pending' = 1..Len(pending) + 1 /\ Len(pending') = Len(pending) + 1
      /\ pending'[Len(pending) + 1].id = d /\ \A i \in 1..Len(pending) : pending'[i] = pending[i]
  BY <1>0, AppendFacts DEF Lists
<1>2. /\ Once(pending') /\ Ids(pending') = Ids(pending) \cup {d}
  BY <1>0, OnceAppend DEF ListedOnce
<1> HIDE DEF x
<1>3. DelTyped'
  <2>1. Write(d, "mkdir", <<>>) \in
          [by : Deliveries \cup {"processAll"}, at : {"mkdir", "file"}, list : Lists]
    BY DEF Write, Lists
  <2> QED
    BY <1>0, <1>1, <2>1 DEF DelTyped
<1>4. ListedOnce'
  <2>1. Once(<<>>) /\ \A w \in persists' : Once(w.list)
    BY <1>0 DEF Once, Write, ListedOnce
  <2>2. \A i \in DOMAIN working.remaining :
          \E j \in 1..working.done : working.remaining[i].id = pending'[j].id
    BY <1>1 DEF ListedOnce, DelTyped
  <2>3. \A e \in Deliveries : fate'[e] = "new" => e \notin Ids(pending')
    BY <1>0, <1>2 DEF ListedOnce, DelTyped
  <2> QED
    BY <1>0, <1>2, <2>1, <2>2, <2>3 DEF ListedOnce
<1>5. OneProcess'
  <2>1. Write(d, "mkdir", <<>>).by # "processAll"
    BY <1>0 DEF Write
  <2>2. working.at = "sending" => working.done < Len(pending') /\ At' = At
    BY <1>0, <1>1 DEF OneProcess, At, DelTyped
  <2> QED
    BY <1>0, <2>1, <2>2 DEF OneProcess
<1>6. QueuedIsListed'
  <2> SUFFICES ASSUME NEW e \in Deliveries PROVE fate'[e] = "queued" <=> InQueue(e)'
    BY DEF QueuedIsListed
  <2>1. working.done \in Nat /\ working.done =< Len(pending)
    BY DEF DelTyped
  <2>2. CASE e = d
    BY <2>1, <2>2, <1>0, <1>1 DEF InQueue, DelTyped
  <2>3. CASE e # d
    BY <2>1, <2>3, <1>0, <1>1 DEF InQueue, DelTyped, QueuedIsListed
  <2> QED
    BY <2>2, <2>3
<1> QED
  BY <1>3, <1>4, <1>5, <1>6

\* One delivery is handled: it is postponed or tried again, and remains, or it is over.
LEMMA HandledStep ==
  ASSUME DelInv, working.at \in {"list", "sending"}, working.done < Len(pending),
         UNCHANGED <<pending, queueFile, persists, lives>>,
         \/ /\ Handles(working.remaining) /\ fate' = [fate EXCEPT ![At.id] = "over"]
         \/ /\ \E n \in 0..MaxRetries : Handles(Append(working.remaining, Delivery(At.id, n)))
            /\ UNCHANGED fate
  PROVE  DelInv'
<1> USE DeliveryAssumption DEF DelInv
<1> DEFINE k == working.done + 1
<1>a. PICK rem, done, d : rem = working.remaining /\ done = working.done /\ d = At.id
  OBVIOUS
<1>0. /\ pending \in Lists /\ DOMAIN pending = 1..Len(pending) /\ Len(pending) \in Nat
      /\ rem \in Lists /\ done \in Nat /\ done + 1 \in DOMAIN pending
      /\ d \in Deliveries /\ d = pending[done + 1].id
  <2>1. /\ pending \in Lists /\ rem \in Lists /\ done \in Nat
    BY <1>a DEF DelTyped
  <2>2. DOMAIN pending = 1..Len(pending) /\ Len(pending) \in Nat /\ done + 1 \in DOMAIN pending
    BY <2>1, <1>a DEF Lists
  <2>3. pending[done + 1] \in Queued
    BY <2>1, <2>2 DEF Lists
  <2> QED
    BY <2>1, <2>2, <2>3, <1>a DEF At, Queued
<1>1. d \notin Ids(rem) /\ \A j \in DOMAIN pending : pending[j].id = d => j = done + 1
  <2>1. \A j \in DOMAIN pending : pending[j].id = d => j = done + 1
    BY <1>0 DEF ListedOnce, Once
  <2>2. ASSUME NEW i \in DOMAIN rem PROVE rem[i].id # d
    <3>1. PICK j \in 1..done : rem[i].id = pending[j].id
      BY <1>a DEF ListedOnce
    <3> QED
      BY <3>1, <2>1, <1>0
  <2> QED
    BY <2>1, <2>2 DEF Ids
<1>2. fate[d] = "queued"
  BY <1>0, <1>a DEF QueuedIsListed, InQueue
<1>3. PICK new \in Lists :
        /\ working' = Working("list", done + 1, new)
        /\ \/ new = rem /\ fate' = [fate EXCEPT ![d] = "over"]
           \/ fate' = fate /\ \E n \in 0..MaxRetries : new = Append(rem, Delivery(d, n))
  <2>1. CASE Handles(working.remaining) /\ fate' = [fate EXCEPT ![At.id] = "over"]
    BY <2>1, <1>0, <1>a DEF Handles
  <2>2. ASSUME NEW n \in 0..MaxRetries, Handles(Append(working.remaining, Delivery(At.id, n))),
               UNCHANGED fate
        PROVE  \E new \in Lists :
                 /\ working' = Working("list", done + 1, new)
                 /\ fate' = fate /\ \E m \in 0..MaxRetries : new = Append(rem, Delivery(d, m))
    <3>1. Append(rem, Delivery(d, n)) \in Lists
      BY <1>0, OnceAppend DEF Delivery, Queued
    <3>2. working' = Working("list", done + 1, Append(rem, Delivery(d, n)))
      BY <2>2, <1>a DEF Handles
    <3> QED
      BY <3>1, <3>2, <2>2
  <2> QED
    BY <2>1, <2>2
<1> DEFINE Kept ==
             /\ Once(new) /\ fate' \in [Deliveries -> {"new", "queued", "over", "lost"}]
             /\ \A i \in DOMAIN new : new[i].id \in Ids(rem) \cup {d}
             /\ \A e \in Deliveries \ {d} : fate'[e] = fate[e] /\ (e \in Ids(new) <=> e \in Ids(rem))
             /\ fate'[d] = "queued" <=> d \in Ids(new)
             /\ fate'[d] # "new"
<1>4. Kept
  <2>1. CASE new = rem /\ fate' = [fate EXCEPT ![d] = "over"]
    BY <2>1, <1>0, <1>1, <1>a DEF ListedOnce, DelTyped, Ids
  <2>2. ASSUME NEW n \in 0..MaxRetries, new = Append(rem, Delivery(d, n)), fate' = fate
        PROVE  Kept
    <3>1. Delivery(d, n) \in Queued /\ Delivery(d, n).id = d
      BY <1>0 DEF Delivery, Queued
    <3>2. Once(new) /\ Ids(new) = Ids(rem) \cup {d}
      BY <2>2, <3>1, <1>0, <1>1, <1>a, OnceAppend DEF ListedOnce
    <3> QED
      BY <2>2, <3>2, <1>2 DEF DelTyped, Ids
  <2> QED
    BY <2>1, <2>2, <1>3
<1>5. working'.at = "list" /\ working'.done = done + 1 /\ working'.remaining = new
  BY <1>3 DEF Working
<1>6. DelTyped'
  <2>1. working' \in [at : {"idle", "list", "sending", "persisting"}, done : Nat, remaining : Lists]
    BY <1>0, <1>3 DEF Working
  <2> QED
    BY <1>0, <1>4, <1>5, <2>1 DEF DelTyped
<1>7. ListedOnce'
  <2>1. ASSUME NEW i \in DOMAIN new PROVE \E j \in 1..done + 1 : new[i].id = pending[j].id
    <3>1. CASE new[i].id = d
      BY <3>1, <1>0
    <3>2. CASE new[i].id \in Ids(rem)
      <4>1. PICK m \in DOMAIN rem : new[i].id = rem[m].id
        BY <3>2 DEF Ids
      <4>2. PICK j \in 1..done : rem[m].id = pending[j].id
        BY <1>a DEF ListedOnce
      <4> QED
        BY <4>1, <4>2, <1>0
    <3> QED
      BY <3>1, <3>2, <1>4
  <2>2. \A e \in Deliveries : fate'[e] = "new" => e \notin Ids(pending)
    BY <1>4 DEF ListedOnce
  <2> QED
    BY <1>4, <1>5, <2>1, <2>2 DEF ListedOnce
<1>8. OneProcess'
  BY <1>5 DEF OneProcess
<1>9. QueuedIsListed'
  <2> SUFFICES ASSUME NEW e \in Deliveries
               PROVE  fate'[e] = "queued" <=>
                        \/ e \in Ids(new)
                        \/ \E j \in DOMAIN pending : j > done + 1 /\ pending[j].id = e
    BY <1>5 DEF QueuedIsListed, InQueue
  <2>1. CASE e = d
    BY <2>1, <1>0, <1>1, <1>4
  <2>2. CASE e # d
    BY <2>2, <1>0, <1>4, <1>a DEF QueuedIsListed, InQueue
  <2> QED
    BY <2>1, <2>2
<1> QED
  BY <1>6, <1>7, <1>8, <1>9

\* processAll handles one delivery after the other, which stays, goes or is retried.
LEMMA ProcessSteps ==
  ASSUME DelInv, ProcessStarts \/ Postpones \/ GivesUp \/ Tries \/ Delivers
  PROVE  DelInv'
<1> USE DeliveryAssumption DEF DelInv
<1>0. /\ working.done \in Nat /\ working.remaining \in Lists /\ pending \in Lists
      /\ DOMAIN pending = 1..Len(pending) /\ Len(pending) \in Nat
  BY DEF DelTyped, Lists
<1>1. working.done < Len(pending) => At \in Queued
  <2>1. working.done < Len(pending) => working.done + 1 \in DOMAIN pending
    BY <1>0
  <2> QED
    BY <2>1, <1>0 DEF At, Lists
<1>2. CASE ProcessStarts
  <2>1. /\ working' = Working("list", 0, <<>>) /\ working.done = 0 /\ working.remaining = <<>>
        /\ UNCHANGED <<pending, queueFile, persists, fate, lives>>
    BY <1>2 DEF ProcessStarts, OneProcess
  <2>2. working'.at = "list" /\ working'.done = 0 /\ working'.remaining = <<>>
    BY <2>1 DEF Working
  <2>3. DelTyped'
    BY <2>1, <2>2 DEF DelTyped, Working, Lists
  <2>4. ListedOnce' /\ QueuedIsListed'
    BY <2>1, <2>2 DEF ListedOnce, QueuedIsListed, InQueue
  <2>5. OneProcess'
    BY <1>2, <2>1, <2>2 DEF OneProcess, ProcessStarts
  <2> QED
    BY <2>3, <2>4, <2>5
<1>3. CASE Postpones
  <2>1. At \in Queued /\ Listed
    BY <1>1, <1>3 DEF Postpones, Listed
  <2>2. At = Delivery(At.id, At.attempts) /\ At.attempts \in 0..MaxRetries
    BY <2>1 DEF Queued, Delivery
  <2>3. Handles(Append(working.remaining, Delivery(At.id, At.attempts)))
    BY <1>3, <2>2 DEF Postpones, Postponed
  <2> QED
    BY <1>3, <2>1, <2>2, <2>3, HandledStep DEF Postpones, Listed
<1>4. CASE GivesUp
  BY <1>4, HandledStep DEF GivesUp, Listed
<1>5. CASE Tries
  <2>1. At \in Queued /\ At.attempts < MaxRetries /\ working.at = "list"
        /\ working.done < Len(pending)
    BY <1>1, <1>5 DEF Tries, Listed, Exhausted, Queued
  <2>2. /\ working'.at = "sending" /\ working'.done = working.done
        /\ working'.remaining = working.remaining
        /\ UNCHANGED <<pending, queueFile, persists, fate, lives>>
    BY <1>5 DEF Tries, DelTyped
  <2>3. DelTyped'
    BY <1>5, <2>2 DEF DelTyped, Tries
  <2>4. ListedOnce' /\ QueuedIsListed'
    BY <2>2 DEF ListedOnce, QueuedIsListed, InQueue
  <2>5. OneProcess'
    BY <2>1, <2>2 DEF OneProcess, At
  <2> QED
    BY <2>3, <2>4, <2>5
<1>6. CASE Delivers
  <2>1. /\ working.at = "sending" /\ working.done < Len(pending) /\ At.attempts < MaxRetries
        /\ At \in Queued
    BY <1>1, <1>6 DEF Delivers, OneProcess
  <2>2. At.attempts + 1 \in 0..MaxRetries
    BY <2>1 DEF Queued
  <2> QED
    BY <1>6, <2>1, <2>2, HandledStep DEF Delivers
<1> QED
  BY <1>2, <1>3, <1>4, <1>5, <1>6

\* What remains becomes the list.
LEMMA ProcessEndsStep ==
  ASSUME DelInv, ProcessEnds
  PROVE  DelInv'
<1> USE DeliveryAssumption DEF DelInv
<1> DEFINE w0 == Write("processAll", "mkdir", <<>>)
<1>0. /\ working.at = "list" /\ working.done = Len(pending) /\ pending' = working.remaining
      /\ working' = Working("persisting", 0, <<>>) /\ persists' = persists \cup {w0}
      /\ UNCHANGED <<queueFile, fate, lives>>
  BY DEF ProcessEnds, Persist
<1>1. /\ working'.at = "persisting" /\ working'.done = 0 /\ working'.remaining = <<>>
  BY <1>0 DEF Working
<1>2. /\ pending \in Lists /\ pending' \in Lists /\ Len(pending') \in Nat
      /\ DOMAIN pending' = 1..Len(pending') /\ DOMAIN pending = 1..Len(pending)
  BY <1>0 DEF DelTyped, Lists
<1>3. DelTyped'
  <2>1. w0 \in [by : Deliveries \cup {"processAll"}, at : {"mkdir", "file"}, list : Lists]
    BY DEF Write, Lists
  <2>2. working' \in [at : {"idle", "list", "sending", "persisting"}, done : Nat, remaining : Lists]
    BY <1>0 DEF Working, Lists
  <2> QED
    BY <1>0, <1>1, <1>2, <2>1, <2>2 DEF DelTyped
<1>4. ListedOnce'
  <2>1. w0.list = <<>> /\ Once(<<>>) /\ DOMAIN <<>> = {}
    BY DEF Write, Once
  <2>2. \A d \in Deliveries : fate[d] = "new" => d \notin Ids(pending')
    <3>1. ASSUME NEW i \in DOMAIN working.remaining
          PROVE  working.remaining[i].id \in Ids(pending)
      <4>1. PICK j \in 1..working.done : working.remaining[i].id = pending[j].id
        BY DEF ListedOnce
      <4> QED
        BY <4>1, <1>0, <1>2 DEF Ids
    <3> QED
      BY <3>1, <1>0 DEF ListedOnce, Ids
  <2> QED
    BY <1>0, <1>1, <2>1, <2>2 DEF ListedOnce
<1>5. OneProcess'
  <2>1. \A w \in persists : w.by # "processAll"
    BY <1>0 DEF OneProcess
  <2> QED
    BY <1>0, <1>1, <2>1 DEF OneProcess
<1>6. QueuedIsListed'
  <2> SUFFICES ASSUME NEW d \in Deliveries PROVE fate[d] = "queued" <=> InQueue(d)'
    BY <1>0 DEF QueuedIsListed
  <2>1. InQueue(d) <=> d \in Ids(working.remaining)
    BY <1>0, <1>2 DEF InQueue
  <2>2. InQueue(d)' <=> d \in Ids(pending')
    BY <1>1, <1>2 DEF InQueue, Ids
  <2> QED
    BY <2>1, <2>2, <1>0 DEF QueuedIsListed
<1> QED
  BY <1>3, <1>4, <1>5, <1>6

\* What a persist writes is a list as it was when it began.
LEMMA WritesSteps ==
  ASSUME DelInv, NEW write \in persists, Serialises(write) \/ Persisted(write)
  PROVE  DelInv'
<1> USE DeliveryAssumption DEF DelInv
<1> DEFINE Writes == [by : Deliveries \cup {"processAll"}, at : {"mkdir", "file"}, list : Lists]
<1>0. write \in Writes /\ Once(write.list) /\ pending \in Lists
  BY DEF DelTyped, ListedOnce
<1>1. CASE Serialises(write)
  <2> DEFINE w0 == Write(write.by, "file", pending)
  <2>1. /\ persists' = (persists \ {write}) \cup {w0}
        /\ UNCHANGED <<pending, working, queueFile, fate, lives>>
    BY <1>1 DEF Serialises
  <2>2. w0 \in Writes /\ w0.by = write.by /\ w0.list = pending
    BY <1>0 DEF Write
  <2> HIDE DEF w0
  <2>3. DelTyped'
    BY <2>1, <2>2 DEF DelTyped
  <2>4. ListedOnce'
    BY <2>1, <2>2 DEF ListedOnce
  <2>5. OneProcess'
    BY <2>1, <2>2 DEF OneProcess, At
  <2>6. QueuedIsListed'
    BY <2>1 DEF QueuedIsListed, InQueue
  <2> QED
    BY <2>3, <2>4, <2>5, <2>6
<1>2. CASE Persisted(write)
  <2>1. /\ persists' = persists \ {write} /\ queueFile' = write.list
        /\ UNCHANGED <<pending, fate, lives>>
    BY <1>2 DEF Persisted
  <2>2. /\ working'.done = working.done /\ working'.remaining = working.remaining
        /\ working'.at = IF write.by = "processAll" THEN "idle" ELSE working.at
        /\ working' \in [at : {"idle", "list", "sending", "persisting"}, done : Nat, remaining : Lists]
    <3>1. CASE write.by = "processAll"
      <4>1. working.done = 0 /\ working.remaining = <<>>
        BY <3>1 DEF OneProcess
      <4> QED
        BY <3>1, <4>1, <1>2 DEF Persisted, NotWorking, Working, Lists
    <3>2. CASE write.by # "processAll"
      BY <3>2, <1>2 DEF Persisted, DelTyped
    <3> QED
      BY <3>1, <3>2
  <2>3. DelTyped'
    BY <1>0, <2>1, <2>2 DEF DelTyped
  <2>4. ListedOnce'
    BY <1>0, <2>1, <2>2 DEF ListedOnce
  <2>5. OneProcess'
    BY <2>1, <2>2 DEF OneProcess, At
  <2>6. QueuedIsListed'
    BY <2>1, <2>2 DEF QueuedIsListed, InQueue
  <2> QED
    BY <2>3, <2>4, <2>5, <2>6
<1> QED
  BY <1>1, <1>2

\* The next process has what the file has.
LEMMA LivesAgainStep ==
  ASSUME DelInv, LivesAgain
  PROVE  DelInv'
<1> USE DeliveryAssumption DEF DelInv
<1>1. PICK file \in {queueFile} \cup {<<>> : w \in {x \in persists : x.at = "file"}} :
        /\ pending' = file /\ queueFile' = file
        /\ fate' = [d \in Deliveries |-> IF d \in Ids(file) THEN "queued"
                                         ELSE IF fate[d] = "queued" THEN "lost" ELSE fate[d]]
  BY DEF LivesAgain
<1>2. /\ working' = NotWorking /\ persists' = {} /\ lives' = lives + 1 /\ lives < MaxLives
      /\ working'.at = "idle" /\ working'.done = 0 /\ working'.remaining = <<>>
  BY DEF LivesAgain, NotWorking, Working
<1>3. file \in Lists /\ Once(file) /\ DOMAIN file = 1..Len(file) /\ Len(file) \in Nat
      /\ Once(<<>>) /\ <<>> \in Lists
  <2>1. <<>> \in Lists /\ Once(<<>>)
    BY DEF Lists, Once
  <2>2. file = queueFile \/ file = <<>>
    BY <1>1
  <2>3. file \in Lists /\ Once(file)
    BY <2>1, <2>2 DEF DelTyped, ListedOnce
  <2> QED
    BY <2>1, <2>3 DEF Lists
<1>4. DelTyped'
  <2>1. working' \in [at : {"idle", "list", "sending", "persisting"}, done : Nat, remaining : Lists]
    BY <1>2, <1>3 DEF NotWorking, Working
  <2> QED
    BY <1>1, <1>2, <1>3, <2>1 DEF DelTyped
<1>5. ListedOnce'
  BY <1>1, <1>2, <1>3 DEF ListedOnce
<1>6. OneProcess'
  BY <1>2 DEF OneProcess
<1>7. QueuedIsListed'
  BY <1>1, <1>2, <1>3 DEF QueuedIsListed, InQueue, Ids
<1> QED
  BY <1>4, <1>5, <1>6, <1>7

\* The invariant holds in every reachable state.
LEMMA DelInvariant == DelSpec => []DelInv
<1>1. DelInv /\ [DelNext]_delVars => DelInv'
  <2> SUFFICES ASSUME DelInv, [DelNext]_delVars PROVE DelInv'
    OBVIOUS
  <2>1. CASE UNCHANGED delVars
    BY <2>1 DEF delVars, DelInv, DelTyped, ListedOnce, OneProcess, QueuedIsListed, InQueue, At
  <2>2. CASE DelNext
    BY <2>2, EnqueuesStep, ProcessSteps, ProcessEndsStep, WritesSteps, LivesAgainStep DEF DelNext
  <2> QED
    BY <2>1, <2>2
<1> QED
  BY <1>1, DelInvInit, PTL DEF DelSpec

\* The types of the queue, of its file and of what is being written.
THEOREM DeliveryTypeCorrect == DelSpec => []DelTypeOK
<1>1. DelInv => DelTypeOK
  BY DEF DelInv, DelTyped, DelTypeOK, Lists, Queued
<1> QED
  BY <1>1, DelInvariant, PTL

\* A delivery is in what is outstanding where it is in the queue, and no more than once.
LEMMA OutstandingShape ==
  ASSUME DelInv, NEW d \in Deliveries
  PROVE  /\ \A i, j \in DOMAIN Outstanding :
              Outstanding[i].id = d /\ Outstanding[j].id = d => i = j
         /\ InQueue(d) <=> \E i \in DOMAIN Outstanding : Outstanding[i].id = d
<1>a. PICK rem, done : rem = working.remaining /\ done = working.done
  OBVIOUS
<1> DEFINE n == Len(rem)
           m == Len(pending)
           rest == SubSeq(pending, done + 1, m)
<1>1. /\ rem \in Seq(Queued) /\ pending \in Seq(Queued) /\ n \in Nat /\ m \in Nat
      /\ DOMAIN rem = 1..n /\ DOMAIN pending = 1..m /\ done \in 0..m
  BY <1>a DEF DelInv, DelTyped, Lists
<1>2. /\ rest \in Seq(Queued) /\ Len(rest) = m - done
      /\ \A i \in 1..m - done : rest[i] = pending[done + i]
  <2>1. done + 1 \in Int /\ m \in Int /\ \A i \in done + 1..m : pending[i] \in Queued
    BY <1>1
  <2>2. /\ rest \in Seq(Queued)
        /\ Len(rest) = IF done + 1 <= m THEN m - (done + 1) + 1 ELSE 0
        /\ \A i \in 1..m - (done + 1) + 1 : rest[i] = pending[done + 1 + i - 1]
    BY <2>1, SubSeqProperties
  <2> HIDE DEF rest, m, n
  <2> QED
    BY <2>2, <1>1
<1>3. /\ DOMAIN Outstanding = 1..n + m - done
      /\ \A i \in 1..n : Outstanding[i] = rem[i]
      /\ \A i \in n + 1..n + m - done : Outstanding[i] = pending[done + i - n]
  <2>1. Outstanding = rem \o rest
    BY <1>a DEF Outstanding
  <2> HIDE DEF rest
  <2>2. /\ Outstanding \in Seq(Queued) /\ Len(Outstanding) = n + Len(rest)
        /\ \A i \in 1..n + Len(rest) :
             Outstanding[i] = IF i =< n THEN rem[i] ELSE rest[i - n]
    BY <2>1, <1>1, <1>2, ConcatProperties
  <2>3. DOMAIN Outstanding = 1..n + m - done
    BY <2>2, <1>1, <1>2
  <2>4. ASSUME NEW i \in n + 1..n + m - done PROVE Outstanding[i] = pending[done + i - n]
    <3>1. i - n \in 1..m - done /\ done + (i - n) = done + i - n /\ i \in 1..n + Len(rest)
      BY <1>1, <1>2
    <3>2. Outstanding[i] = rest[i - n]
      BY <3>1, <2>2, <1>1
    <3> QED
      BY <3>1, <3>2, <1>2
  <2> QED
    BY <2>2, <2>3, <2>4, <1>1, <1>2
<1> HIDE DEF n, m, rest
<1>4. ASSUME NEW i \in DOMAIN Outstanding, NEW j \in DOMAIN Outstanding,
             Outstanding[i].id = d, Outstanding[j].id = d
      PROVE  i = j
  <2>1. ASSUME NEW x \in 1..n, NEW y \in n + 1..n + m - done, Outstanding[x].id = Outstanding[y].id
        PROVE  FALSE
    <3>1. PICK z \in 1..done : rem[x].id = pending[z].id
      BY <1>1, <1>a DEF DelInv, ListedOnce
    <3>2. done + y - n \in DOMAIN pending /\ z \in DOMAIN pending /\ z # done + y - n
      BY <1>1, <3>1
    <3>3. pending[z].id = pending[done + y - n].id
      BY <2>1, <3>1, <1>3
    <3> QED
      BY <3>2, <3>3 DEF DelInv, ListedOnce, Once
  <2>2. CASE i \in 1..n /\ j \in 1..n
    BY <2>2, <1>1, <1>3, <1>4, <1>a DEF DelInv, ListedOnce, Once
  <2>3. CASE i \notin 1..n /\ j \notin 1..n
    <3>1. done + i - n \in DOMAIN pending /\ done + j - n \in DOMAIN pending
          /\ i \in n + 1..n + m - done /\ j \in n + 1..n + m - done
      BY <2>3, <1>1, <1>3
    <3>2. done + i - n = done + j - n
      BY <3>1, <1>3, <1>4 DEF DelInv, ListedOnce, Once
    <3> QED
      BY <3>1, <3>2, <1>1
  <2>4. CASE i \in 1..n /\ j \notin 1..n
    BY <2>4, <2>1, <1>1, <1>3, <1>4
  <2>5. CASE i \notin 1..n /\ j \in 1..n
    BY <2>5, <2>1, <1>1, <1>3, <1>4
  <2> QED
    BY <2>2, <2>3, <2>4, <2>5
<1>5. ASSUME InQueue(d) PROVE \E i \in DOMAIN Outstanding : Outstanding[i].id = d
  <2>1. CASE d \in Ids(rem)
    BY <2>1, <1>1, <1>3 DEF Ids
  <2>2. ASSUME NEW j \in DOMAIN pending, j > done, pending[j].id = d
        PROVE  \E i \in DOMAIN Outstanding : Outstanding[i].id = d
    <3>1. PICK i : i = j - done + n
      OBVIOUS
    <3>2. i \in n + 1..n + m - done /\ done + i - n = j /\ i \in 1..n + m - done
      BY <3>1, <2>2, <1>1
    <3>3. Outstanding[i] = pending[j]
      BY <3>2, <1>3
    <3> QED
      BY <3>2, <3>3, <2>2, <1>3
  <2> QED
    BY <2>1, <2>2, <1>5, <1>a DEF InQueue
<1>6. ASSUME NEW i \in DOMAIN Outstanding, Outstanding[i].id = d PROVE InQueue(d)
  <2>1. CASE i \in 1..n
    BY <2>1, <1>1, <1>3, <1>6, <1>a DEF InQueue, Ids
  <2>2. CASE i \notin 1..n
    <3>1. done + i - n \in DOMAIN pending /\ done + i - n > done /\ i \in n + 1..n + m - done
      BY <2>2, <1>1, <1>3
    <3> QED
      BY <3>1, <1>3, <1>6, <1>a DEF InQueue
  <2> QED
    BY <2>1, <2>2
<1> QED
  BY <1>4, <1>5, <1>6

\* For any deliveries, retries and restarts: one that is neither sent nor given up is in
\* the queue exactly once, when it came in the middle of processAll too, and one that is
\* over is not (queue.ts:5).
THEOREM NoDeliveryForgottenAlways == DelSpec => []NoDeliveryForgotten
<1>1. DelInv => NoDeliveryForgotten
  <2> SUFFICES ASSUME DelInv, NEW d \in Deliveries
               PROVE  Cardinality({i \in DOMAIN Outstanding : Outstanding[i].id = d})
                        = IF fate[d] = "queued" THEN 1 ELSE 0
    BY DEF NoDeliveryForgotten
  <2> DEFINE places == {i \in DOMAIN Outstanding : Outstanding[i].id = d}
  <2>1. fate[d] = "queued" <=> InQueue(d)
    BY DEF DelInv, QueuedIsListed
  <2>2. CASE InQueue(d)
    <3>1. PICK i : i \in places
      BY <2>2, OutstandingShape
    <3>2. places = {i}
      BY <3>1, OutstandingShape
    <3> QED
      BY <3>2, <2>1, <2>2, FS_Singleton
  <2>3. CASE ~InQueue(d)
    <3>1. places = {}
      BY <2>3, OutstandingShape
    <3> QED
      BY <3>1, <2>1, <2>3, FS_EmptySet
  <2> QED
    BY <2>2, <2>3
<1> QED
  BY <1>1, DelInvariant, PTL

-----------------------------------------------------------------------------
(***************************************************************************)
(* Least and greatest elements: a proof by induction without a predicate   *)
(* to instantiate.                                                         *)
(***************************************************************************)

\* Every set of naturals has a least element: what holds at no least counterexample holds.
LEMMA LeastNat ==
  ASSUME NEW T, T \subseteq Nat, T # {}
  PROVE  \E m \in T : \A k \in T : m =< k
<1> DEFINE R == {x \in Nat \X Nat : x[1] < x[2]}
<1>1. IsWellFoundedOn(R, Nat)
  <2>1. OpToRel(<, Nat) = R
    BY DEF OpToRel
  <2> QED
    BY <2>1, NatLessThanWellFounded
<1> HIDE DEF R
<1>2. PICK m \in T : \A k \in T : ~(<<k, m>> \in R)
  BY <1>1, WFMin
<1>3. ASSUME NEW k \in T PROVE m =< k
  <2>1. m \in Nat /\ k \in Nat
    OBVIOUS
  <2>2. ~(k < m)
    BY <1>2, <2>1 DEF R
  <2> QED
    BY <2>1, <2>2
<1> QED
  BY <1>3

\* A bounded set of naturals has a greatest element, which is its least bound.
LEMMA GreatestNat ==
  ASSUME NEW T, T \subseteq Nat, T # {}, NEW n \in Nat, \A k \in T : k =< n
  PROVE  \E m \in T : \A k \in T : k =< m
<1> DEFINE B == {b \in Nat : \A k \in T : k =< b}
<1>1. PICK m \in B : \A b \in B : m =< b
  <2>1. B \subseteq Nat /\ B # {}
    OBVIOUS
  <2> QED
    BY <2>1, LeastNat
<1>2. m \in T
  <2> SUFFICES ASSUME m \notin T PROVE FALSE
    OBVIOUS
  <2>1. \A k \in T : k \in Nat /\ k < m
    BY <1>1
  <2>2. m > 0
    <3>1. PICK k \in T : TRUE
      OBVIOUS
    <3>2. k \in Nat /\ k < m /\ m \in Nat
      BY <2>1, <1>1
    <3> QED
      BY <3>2
  <2>3. m - 1 \in Nat /\ \A k \in T : k =< m - 1
    BY <1>1, <2>1, <2>2
  <2>4. m - 1 \in B
    BY <2>3
  <2> QED
    BY <1>1, <2>4
<1> QED
  BY <1>1, <1>2

-----------------------------------------------------------------------------
(***************************************************************************)
(* The watcher of the repository: reviews of the last hour, and positions  *)
(* of branches.                                                            *)
(***************************************************************************)

Positions == [Branches -> 0..MaxCommits]

\* The types, with those of the records.
GitTyped ==
  /\ pushed \in Positions
  /\ known \in [lastChecked : Positions, stamps : SUBSET (1..reviews)]
  /\ stateFile \in [lastChecked : Positions, stamps : SUBSET (1..reviews), ok : BOOLEAN]
  /\ job \in [at : {"down", "idle", "branches", "polling", "commits", "resetting", "saving"},
              branch : Branches \cup {NoBranch}, branches : SUBSET Branches,
              commits : SUBSET Commits]
  /\ reviewed \in [Branches -> [Commits -> Nat]] /\ back \subseteq Branches
  /\ reviews \in 0..MaxReviews /\ hourAgo \in 0..reviews /\ missed \subseteq 1..reviews
  /\ stops \in 0..MaxStops

\* What the job is at has a branch, and only while it reviews has it commits left.
JobShape ==
  /\ job.at \in {"polling", "commits", "resetting"} => job.branch \in Branches
  /\ job.at # "commits" => job.commits = {}

\* A review whose timestamp is not in memory was missed in a restart.
StampsKept == (1..reviews) \ missed \subseteq known.stamps

HourReviews(n, hour, lost) == {i \in 1..n : i > hour} \ lost

HourLimited == Cardinality(HourReviews(reviews, hourAgo, missed)) =< MaxReviewsPerHour

\* What was reviewed is not ahead of the position, and neither is what the job has left,
\* none of which was reviewed.
ReviewedBehind ==
  \A b \in Branches \ back, c \in Commits :
    /\ reviewed[b][c] =< 1
    /\ reviewed[b][c] > 0 => c =< known.lastChecked[b]
    /\ job.branch = b /\ c \in job.commits => reviewed[b][c] = 0 /\ c =< known.lastChecked[b]

GitInv == GitTyped /\ JobShape /\ StampsKept /\ HourLimited /\ ReviewedBehind

\* Reviews are finitely many.
LEMMA ReviewsFinite ==
  ASSUME NEW n \in Nat, NEW S, S \subseteq 1..n
  PROVE  IsFiniteSet(S) /\ Cardinality(S) \in Nat
<1>1. IsFiniteSet(1..n)
  BY FS_Interval
<1> QED
  BY <1>1, FS_Subset, FS_CardinalityType

\* Time and restarts take reviews out of the hour.
LEMMA HourShrinks ==
  ASSUME NEW n \in Nat, NEW hour \in Nat, NEW later \in Nat, hour =< later,
         NEW lost, NEW more, lost \subseteq more
  PROVE  Cardinality(HourReviews(n, later, more)) =< Cardinality(HourReviews(n, hour, lost))
<1>1. HourReviews(n, later, more) \subseteq HourReviews(n, hour, lost)
  BY DEF HourReviews
<1>2. IsFiniteSet(HourReviews(n, hour, lost))
  BY ReviewsFinite DEF HourReviews
<1> QED
  BY <1>1, <1>2, FS_Subset

\* A review is one more in the hour, and its timestamps have room for it.
LEMMA HourGrows ==
  ASSUME GitInv, ~RateLimited(known.stamps)
  PROVE  Cardinality(HourReviews(reviews + 1, hourAgo, missed)) =< MaxReviewsPerHour
<1> DEFINE S == {i \in known.stamps : i > hourAgo}
           H == HourReviews(reviews + 1, hourAgo, missed)
<1>1. /\ reviews \in Nat /\ hourAgo \in Nat /\ hourAgo =< reviews /\ known.stamps \subseteq 1..reviews
      /\ MaxReviewsPerHour \in Nat
  BY GitWatchAssumption DEF GitInv, GitTyped
<1>2. H \subseteq S \cup {reviews + 1}
  <2> SUFFICES ASSUME NEW i \in H, i # reviews + 1 PROVE i \in S
    OBVIOUS
  <2>1. i \in 1..reviews /\ i > hourAgo /\ i \notin missed
    BY <1>1 DEF HourReviews
  <2> QED
    BY <2>1 DEF GitInv, StampsKept
<1>3. IsFiniteSet(S) /\ Cardinality(S) \in Nat
  BY <1>1, ReviewsFinite
<1>4. reviews + 1 \notin S
  BY <1>1
<1>5. /\ IsFiniteSet(S \cup {reviews + 1})
      /\ Cardinality(S \cup {reviews + 1}) = Cardinality(S) + 1
  BY <1>3, <1>4, FS_AddElement
<1>6. IsFiniteSet(H) /\ Cardinality(H) \in Nat /\ Cardinality(H) =< Cardinality(S) + 1
  BY <1>2, <1>5, FS_Subset, FS_CardinalityType
<1>7. Cardinality(S) < MaxReviewsPerHour
  BY <1>1, <1>3 DEF RateLimited
<1> QED
  BY <1>1, <1>3, <1>6, <1>7

\* Before the first launch, all of it holds.
LEMMA GitInvInit == GitInit => GitInv
<1> SUFFICES ASSUME GitInit PROVE GitInv
  OBVIOUS
<1> USE GitWatchAssumption DEF GitInit
<1>1. GitTyped
  BY DEF GitTyped, Positions, NoPosition, Absent, Down, Doing
<1>2. JobShape /\ StampsKept
  BY DEF JobShape, StampsKept, Down, Doing
<1>3. HourLimited
  <2>1. HourReviews(reviews, hourAgo, missed) = {}
    BY DEF HourReviews
  <2> QED
    BY <2>1, FS_EmptySet DEF HourLimited
<1>4. ReviewedBehind
  BY DEF ReviewedBehind, Down, Doing
<1> QED
  BY <1>1, <1>2, <1>3, <1>4 DEF GitInv

\* The steps that move no position back, forget nothing and review nothing.
LEMMA GitQuiet ==
  ASSUME GitInv, GitTyped', UNCHANGED <<known, reviewed, reviews, missed, back>>,
         hourAgo =< hourAgo',
         \/ job'.at # "commits" /\ job'.commits = {}
         \/ job' = job,
         job'.at \in {"polling", "commits", "resetting"} => job'.branch \in Branches
  PROVE  GitInv'
<1> USE DEF GitInv
<1>1. JobShape'
  BY DEF JobShape
<1>2. StampsKept'
  BY DEF StampsKept
<1>3. HourLimited'
  <2>1. reviews \in Nat /\ hourAgo \in Nat /\ hourAgo' \in Nat /\ missed \subseteq 1..reviews
        /\ MaxReviewsPerHour \in Nat
    BY GitWatchAssumption DEF GitTyped
  <2>2. Cardinality(HourReviews(reviews, hourAgo', missed))
          =< Cardinality(HourReviews(reviews, hourAgo, missed))
    BY <2>1, HourShrinks
  <2>3. /\ Cardinality(HourReviews(reviews, hourAgo', missed)) \in Nat
        /\ Cardinality(HourReviews(reviews, hourAgo, missed)) \in Nat
    BY <2>1, ReviewsFinite DEF HourReviews
  <2> QED
    BY <2>1, <2>2, <2>3 DEF HourLimited
<1>4. ReviewedBehind'
  BY DEF ReviewedBehind
<1> QED
  BY <1>1, <1>2, <1>3, <1>4

\* Pushes, time and the starts and ends of a round leave the reviews alone.
LEMMA QuietGitSteps ==
  ASSUME GitInv,
         \/ WatchStarts \/ WatchNext \/ WatchSaves \/ WatchSaved \/ ReviewAges \/ WatcherDies
         \/ \E b \in Branches : WatchPolls(b) \/ Pushes(b)
  PROVE  GitInv'
<1> USE GitWatchAssumption DEF GitInv, GitTyped, Doing
<1>1. CASE WatchStarts
  BY <1>1, GitQuiet DEF WatchStarts
<1>2. CASE WatchNext
  BY <1>2, GitQuiet DEF WatchNext
<1>3. CASE WatchSaves
  BY <1>3, GitQuiet DEF WatchSaves, Absent, NoPosition, Positions
<1>4. CASE WatchSaved
  <2>1. /\ job'.at \in {"idle", "branches"} /\ job'.commits = {}
        /\ job' \in [at : {"idle", "branches"}, branch : Branches \cup {NoBranch},
                     branches : SUBSET Branches, commits : SUBSET Commits]
    <3>1. CASE job.at = "saving"
      BY <1>4, <3>1 DEF WatchSaved, Idle
    <3>2. CASE job.at = "resetting"
      BY <1>4, <3>2 DEF WatchSaved, JobShape
    <3> QED
      BY <1>4, <3>1, <3>2 DEF WatchSaved
  <2>2. stateFile' \in [lastChecked : Positions, stamps : SUBSET (1..reviews), ok : BOOLEAN]
    BY <1>4 DEF WatchSaved, Saved
  <2>3. GitTyped'
    BY <1>4, <2>1, <2>2 DEF WatchSaved
  <2> QED
    BY <1>4, <2>1, <2>3, GitQuiet DEF WatchSaved
<1>5. CASE ReviewAges
  <2>1. GitTyped'
    BY <1>5 DEF ReviewAges
  <2> QED
    BY <1>5, <2>1, GitQuiet DEF ReviewAges, JobShape
<1>6. CASE WatcherDies
  <2>1. GitTyped'
    BY <1>6 DEF WatcherDies, Down
  <2> QED
    BY <1>6, <2>1, GitQuiet DEF WatcherDies, Down
<1>7. ASSUME NEW b \in Branches, WatchPolls(b) PROVE GitInv'
  BY <1>7, GitQuiet DEF WatchPolls
<1>8. ASSUME NEW b \in Branches, Pushes(b) PROVE GitInv'
  <2>1. GitTyped'
    BY <1>8 DEF Pushes, Positions
  <2> QED
    BY <1>8, <2>1, GitQuiet DEF Pushes, JobShape
<1> QED
  BY <1>1, <1>2, <1>3, <1>4, <1>5, <1>6, <1>7, <1>8

\* A restart or a reset: the branches whose position goes back are given up.
LEMMA PositionsReset ==
  ASSUME GitInv, GitTyped', UNCHANGED <<reviewed, reviews, hourAgo>>, missed \subseteq missed',
         job'.at # "commits" /\ job'.commits = {},
         job'.at \in {"polling", "resetting"} => job'.branch \in Branches,
         StampsKept',
         back' = back \cup {b \in Branches : known'.lastChecked[b] < known.lastChecked[b]}
  PROVE  GitInv'
<1> USE DEF GitInv
<1>1. JobShape'
  BY DEF JobShape
<1>2. HourLimited'
  <2>1. reviews \in Nat /\ hourAgo \in Nat /\ MaxReviewsPerHour \in Nat
    BY GitWatchAssumption DEF GitTyped
  <2>2. Cardinality(HourReviews(reviews, hourAgo, missed'))
          =< Cardinality(HourReviews(reviews, hourAgo, missed))
    BY <2>1, HourShrinks
  <2>3. /\ Cardinality(HourReviews(reviews, hourAgo, missed')) \in Nat
        /\ Cardinality(HourReviews(reviews, hourAgo, missed)) \in Nat
    BY <2>1, ReviewsFinite DEF HourReviews
  <2> QED
    BY <2>1, <2>2, <2>3 DEF HourLimited
<1>3. ReviewedBehind'
  <2> SUFFICES ASSUME NEW b \in Branches \ back', NEW c \in Commits
               PROVE  reviewed[b][c] =< 1 /\ (reviewed[b][c] > 0 => c =< known'.lastChecked[b])
    BY DEF ReviewedBehind
  <2>1. known.lastChecked[b] \in Nat /\ known'.lastChecked[b] \in Nat /\ c \in Nat
    BY DEF GitTyped, Positions, Commits
  <2>2. b \notin back /\ known.lastChecked[b] =< known'.lastChecked[b]
    BY <2>1
  <2> QED
    BY <2>1, <2>2 DEF ReviewedBehind
<1> QED
  BY <1>1, <1>2, <1>3

\* A restart, a reset and a fetch of the branches may only take a branch back.
LEMMA ResetSteps ==
  ASSUME GitInv, WatchInit \/ WatchResets
  PROVE  GitInv'
<1> USE GitWatchAssumption DEF GitInv, GitTyped
<1>1. CASE WatchInit
  <2>1. PICK head \in 0..MaxCommits :
          known' = [lastChecked |-> IF stateFile.ok THEN stateFile.lastChecked
                                    ELSE [b \in Branches |-> head],
                    stamps |-> stateFile.stamps]
    BY <1>1 DEF WatchInit
  <2>2. /\ job' = Idle /\ missed' = missed \cup (known.stamps \ stateFile.stamps)
        /\ back' = back \cup {b \in Branches : known'.lastChecked[b] < known.lastChecked[b]}
        /\ UNCHANGED <<pushed, stateFile, reviewed, reviews, hourAgo, stops>>
    BY <1>1 DEF WatchInit
  <2>3. known' \in [lastChecked : Positions, stamps : SUBSET (1..reviews)]
    BY <2>1 DEF Positions
  <2>4. GitTyped'
    BY <2>2, <2>3 DEF Idle, Doing
  <2>5. StampsKept'
    BY <2>1, <2>2 DEF StampsKept
  <2> QED
    BY <2>2, <2>4, <2>5, PositionsReset DEF Idle, Doing
<1>2. CASE WatchResets
  <2>1. /\ job.at = "polling" /\ job.branch \in Branches
        /\ job' = Doing("resetting", job.branch, job.branches, {})
        /\ back' = back \cup {b \in Branches : known'.lastChecked[b] < known.lastChecked[b]}
        /\ stateFile' = Absent /\ stops' = stops + 1 /\ stops < MaxStops
        /\ UNCHANGED <<pushed, reviewed, reviews, hourAgo, missed>>
    BY <1>2 DEF WatchResets, JobShape
  <2>2. pushed[job.branch] \in 0..MaxCommits
    BY <2>1 DEF Positions
  <2>3. PICK head \in 0..pushed[job.branch] :
          known' = [known EXCEPT !.lastChecked[job.branch] = head]
    BY <1>2 DEF WatchResets
  <2>4. head \in 0..MaxCommits
    BY <2>2
  <2>5. /\ known' \in [lastChecked : Positions, stamps : SUBSET (1..reviews)]
        /\ known'.stamps = known.stamps
    BY <2>3, <2>4 DEF Positions
  <2>6. GitTyped'
    BY <2>1, <2>5 DEF Absent, NoPosition, Positions, Doing
  <2>7. StampsKept'
    BY <2>1, <2>5 DEF StampsKept
  <2> QED
    BY <2>1, <2>6, <2>7, PositionsReset DEF Doing
<1> QED
  BY <1>1, <1>2

\* The new commits are ahead of the position, which goes to the last of them.
LEMMA WatchLogsStep ==
  ASSUME GitInv, WatchLogs
  PROVE  GitInv'
<1> USE GitWatchAssumption DEF GitInv
<1>a. PICK b, new : b = job.branch /\ new = NewCommits(b)
  OBVIOUS
<1>0. /\ b \in Branches /\ job.at = "polling" /\ job.commits = {} /\ new \subseteq Commits
      /\ known.lastChecked[b] \in Nat
      /\ \A c \in new : c \in Nat /\ known.lastChecked[b] < c /\ c =< MaxCommits
      /\ job' = Doing(IF new = {} THEN "branches" ELSE "commits", b, job.branches, new)
      /\ known' = IF new = {} THEN known ELSE [known EXCEPT !.lastChecked[b] = LatestOf(new)]
      /\ UNCHANGED <<pushed, stateFile, reviewed, reviews, hourAgo, missed, back, stops>>
  BY <1>a DEF WatchLogs, JobShape, NewCommits, Commits, GitTyped, Positions
<1>1. job'.at = (IF new = {} THEN "branches" ELSE "commits") /\ job'.branch = b /\ job'.commits = new
  BY <1>0 DEF Doing
<1>2. CASE new = {}
  <2>1. GitTyped'
    BY <1>0, <1>2 DEF GitTyped, Doing
  <2> QED
    BY <1>0, <1>1, <1>2, <2>1, GitQuiet DEF GitTyped
<1>3. CASE new # {}
  <2>1. LatestOf(new) \in new /\ \A c \in new : c =< LatestOf(new)
    <3>1. \E m \in new : \A c \in new : c =< m
      BY <1>0, <1>3, GreatestNat
    <3> QED
      BY <3>1 DEF LatestOf
  <2>a. PICK top : top = LatestOf(new)
    OBVIOUS
  <2>2. /\ top \in new /\ top \in 0..MaxCommits /\ \A c \in new : c =< top
    BY <2>1, <2>a, <1>0
  <2>3. /\ known' \in [lastChecked : Positions, stamps : SUBSET (1..reviews)]
        /\ known'.stamps = known.stamps /\ known'.lastChecked[b] = top
        /\ \A d \in Branches \ {b} : known'.lastChecked[d] = known.lastChecked[d]
    BY <1>0, <1>3, <2>a, <2>2 DEF GitTyped, Positions
  <2>4. GitTyped'
    BY <1>0, <1>3, <2>3 DEF GitTyped, Doing
  <2>5. JobShape' /\ StampsKept' /\ HourLimited'
    BY <1>0, <1>1, <1>3, <2>3 DEF JobShape, StampsKept, HourLimited
  <2>6. ReviewedBehind'
    <3> SUFFICES ASSUME NEW d \in Branches \ back, NEW c \in Commits
                 PROVE  /\ reviewed[d][c] =< 1
                        /\ reviewed[d][c] > 0 => c =< known'.lastChecked[d]
                        /\ b = d /\ c \in new => reviewed[d][c] = 0 /\ c =< known'.lastChecked[d]
      BY <1>0, <1>1 DEF ReviewedBehind
    <3>1. reviewed[d][c] \in Nat /\ c \in Nat
      BY DEF GitTyped, Commits
    <3>2. CASE d # b
      BY <3>2, <2>3 DEF ReviewedBehind
    <3>3. CASE d = b
      <4>1. known.lastChecked[b] =< top /\ top \in Nat
        BY <1>0, <2>2
      <4>2. c \in new => reviewed[b][c] = 0
        BY <1>0, <3>1, <3>3 DEF ReviewedBehind
      <4> QED
        BY <1>0, <2>2, <2>3, <3>1, <3>3, <4>1, <4>2 DEF ReviewedBehind
    <3> QED
      BY <3>2, <3>3
  <2> QED
    BY <2>4, <2>5, <2>6
<1> QED
  BY <1>2, <1>3

\* A review has room in the hour, and is of a commit that was left.
LEMMA WatchReviewsStep ==
  ASSUME GitInv, NEW c \in Commits, WatchReviews(c)
  PROVE  GitInv'
<1> USE GitWatchAssumption DEF GitInv
<1>a. PICK b : b = job.branch
  OBVIOUS
<1>0. /\ b \in Branches /\ job.at = "commits" /\ c \in job.commits /\ ~RateLimited(known.stamps)
      /\ reviews' = reviews + 1 /\ reviews < MaxReviews /\ reviews \in Nat
      /\ reviewed' = [reviewed EXCEPT ![b][c] = @ + 1]
      /\ UNCHANGED <<pushed, stateFile, hourAgo, missed, back, stops>>
  BY <1>a DEF WatchReviews, JobShape, GitTyped
<1>1. /\ known' \in [lastChecked : Positions, stamps : SUBSET (1..reviews + 1)]
      /\ known'.lastChecked = known.lastChecked /\ known'.stamps = known.stamps \cup {reviews + 1}
  <2>1. known' = [known EXCEPT !.stamps = known.stamps \cup {reviews + 1}]
    BY DEF WatchReviews, GitTyped
  <2> QED
    BY <2>1, <1>0 DEF GitTyped
<1>2. /\ job' = [job EXCEPT !.commits = job.commits \ {c}]
      /\ job'.at = "commits" /\ job'.branch = b /\ job'.commits = job.commits \ {c}
  BY <1>0, <1>a DEF WatchReviews, GitTyped
<1>3. ASSUME NEW d \in Branches, NEW x \in Commits
      PROVE  /\ reviewed'[d][x] = IF d = b /\ x = c THEN reviewed[d][x] + 1 ELSE reviewed[d][x]
             /\ reviewed[d][x] \in Nat
  BY <1>0 DEF GitTyped
<1>4. GitTyped'
  <2>1. reviewed' \in [Branches -> [Commits -> Nat]]
    BY <1>0 DEF GitTyped
  <2>2. job' \in [at : {"down", "idle", "branches", "polling", "commits", "resetting", "saving"},
                  branch : Branches \cup {NoBranch}, branches : SUBSET Branches,
                  commits : SUBSET Commits]
    BY <1>2 DEF GitTyped
  <2>3. 1..reviews \subseteq 1..reviews' /\ 0..reviews \subseteq 0..reviews' /\ reviews' \in 0..MaxReviews
    BY <1>0
  <2>4. /\ stateFile \in [lastChecked : Positions, stamps : SUBSET (1..reviews'), ok : BOOLEAN]
        /\ missed \subseteq 1..reviews' /\ hourAgo \in 0..reviews'
    BY <2>3 DEF GitTyped
  <2> QED
    BY <1>0, <1>1, <2>1, <2>2, <2>3, <2>4 DEF GitTyped
<1>5. JobShape'
  BY <1>0, <1>2 DEF JobShape
<1>6. StampsKept'
  BY <1>0, <1>1 DEF StampsKept
<1>7. HourLimited'
  BY <1>0, HourGrows DEF HourLimited
<1>8. ReviewedBehind'
  <2> SUFFICES ASSUME NEW d \in Branches \ back, NEW x \in Commits
               PROVE  /\ reviewed'[d][x] =< 1
                      /\ reviewed'[d][x] > 0 => x =< known.lastChecked[d]
                      /\ b = d /\ x \in job.commits \ {c} =>
                           reviewed'[d][x] = 0 /\ x =< known.lastChecked[d]
    BY <1>0, <1>1, <1>2 DEF ReviewedBehind
  <2>1. CASE d = b /\ x = c
    <3>1. reviewed[b][c] = 0 /\ c =< known.lastChecked[b]
      BY <2>1, <1>0, <1>a DEF ReviewedBehind
    <3>2. reviewed'[d][x] = 1
      BY <2>1, <3>1, <1>3
    <3> QED
      BY <2>1, <3>1, <3>2
  <2>2. CASE ~(d = b /\ x = c)
    <3>1. reviewed'[d][x] = reviewed[d][x]
      BY <2>2, <1>3
    <3> QED
      BY <3>1, <1>a DEF ReviewedBehind
  <2> QED
    BY <2>1, <2>2
<1> QED
  BY <1>4, <1>5, <1>6, <1>7, <1>8

\* The invariant holds in every reachable state.
LEMMA GitInvariant == GitSpec => []GitInv
<1>1. GitInv /\ [GitNext]_gitVars => GitInv'
  <2> SUFFICES ASSUME GitInv, [GitNext]_gitVars PROVE GitInv'
    OBVIOUS
  <2>1. CASE UNCHANGED gitVars
    <3>1. GitTyped'
      BY <2>1 DEF gitVars, GitInv, GitTyped
    <3> QED
      BY <2>1, <3>1, GitQuiet DEF gitVars, GitInv, JobShape, GitTyped
  <2>2. CASE GitNext
    BY <2>2, QuietGitSteps, ResetSteps, WatchLogsStep, WatchReviewsStep DEF GitNext
  <2> QED
    BY <2>1, <2>2
<1> QED
  BY <1>1, GitInvInit, PTL DEF GitSpec

\* The types of the watcher's state and of its file.
THEOREM GitTypeCorrect == GitSpec => []GitTypeOK
<1>1. GitInv => GitTypeOK
  BY DEF GitInv, GitTyped, GitTypeOK, Positions
<1> QED
  BY <1>1, GitInvariant, PTL

\* For any branches, commits, limit and restarts: no hour has more reviews than the
\* limit, but for those whose timestamps were lost, and a commit is reviewed again only
\* where the position of its branch went back (watcher.ts:9, 169).
THEOREM ReviewsLimitedAlways == GitSpec => []ReviewsLimited
<1>1. GitInv => ReviewsLimited
  BY DEF GitInv, HourLimited, HourReviews, ReviewedBehind, ReviewsLimited
<1> QED
  BY <1>1, GitInvariant, PTL
=============================================================================
