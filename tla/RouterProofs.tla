---------------------------- MODULE RouterProofs ----------------------------
(***************************************************************************)
(* The router and its duplicate filter, for any number of deliveries, any  *)
(* texts, any filter size and any number of session slots: the Set and the *)
(* ring never disagree and together are the abstract window; at most one   *)
(* reply quotes a delivery, the typing indicator goes off, silence has a   *)
(* reason, and an id is processed again only after Capacity others.        *)
(***************************************************************************)
EXTENDS Router, FiniteSetTheorems, SequenceTheorems, TLAPS

-----------------------------------------------------------------------------
(***************************************************************************)
(* The duplicate filter for every capacity and every set of ids.           *)
(***************************************************************************)

\* The write position moves to the next slot and from the last one to the first.
LEMMA StepWraps ==
  ASSUME NEW i \in Slots
  PROVE  /\ Step(i) = IF i = Capacity - 1 THEN 0 ELSE i + 1
         /\ Step(i) \in Slots
<1>1. CASE i = Capacity - 1
  <2>1. Step(i) = Capacity % Capacity
    BY <1>1, DedupAssumption DEF Step, Slots
  <2>2. Capacity % Capacity = 0
    BY DedupAssumption, Z3
  <2> QED BY <1>1, <2>1, <2>2, DedupAssumption DEF Slots
<1>2. CASE i # Capacity - 1
  <2>1. i + 1 \in 0 .. (Capacity - 1)
    BY <1>2, DedupAssumption DEF Slots
  <2>2. (i + 1) % Capacity = i + 1
    BY <2>1, DedupAssumption, Z3
  <2> QED BY <1>2, <2>1, <2>2 DEF Step, Slots
<1> QED BY <1>1, <1>2

\* Type correctness, and with it the agreement of Set and ring and the order in
\* which the slots fill, hold at the start.
LEMMA InitInv == DedupInit => DedupInv
  BY DedupAssumption DEF DedupInit, DedupInv, DedupTypeOK, SetIsRing, Held,
     FilledInOrder, Emptied, Slots

\* Adding an id that is not remembered keeps the invariant.
LEMMA AddNewInv ==
  ASSUME DedupInv, NEW id \in Ids, AddNew(id)
  PROVE  DedupInv'
<1> USE DEF DedupInv
<1>1. writeIdx' \in Slots /\ writeIdx \in Slots
  BY StepWraps DEF AddNew, DedupTypeOK
<1>2. ring' = [ring EXCEPT ![writeIdx] = id] /\ id # Undefined
  BY DedupAssumption DEF AddNew
<1>3. set' = (set \ {ring[writeIdx]}) \cup {id}
  BY DedupAssumption DEF AddNew, SetAfterAdd, DedupTypeOK
<1>4. \A i \in Slots : ring[i] # id
  BY <1>2 DEF AddNew, Has, SetIsRing, Held
<1>5. \A i \in Slots : ring'[i] = IF i = writeIdx THEN id ELSE ring[i]
  BY <1>1, <1>2 DEF DedupTypeOK
<1>6. DedupTypeOK'
  BY <1>1, <1>2, <1>3, DedupAssumption DEF DedupTypeOK
<1>7. SetIsRing'
  <2>1. \A i, j \in Slots : ring'[i] = ring'[j] /\ ring'[i] # Undefined => i = j
    BY <1>4, <1>5 DEF SetIsRing
  <2>2. ASSUME NEW x
        PROVE  x \in set' <=> x \in Held'
    <3>1. x \in Held' <=> x # Undefined /\ \E i \in Slots : ring'[i] = x
      BY DEF Held
    <3>2. x \in set <=> x # Undefined /\ \E i \in Slots : ring[i] = x
      BY DEF Held, SetIsRing
    <3>3. ASSUME x \in set' PROVE x \in Held'
      BY <1>1, <1>2, <1>3, <1>5, <3>1, <3>2, <3>3
    <3>4. ASSUME x \in Held' PROVE x \in set'
      <4>1. PICK i \in Slots : ring'[i] = x /\ x # Undefined
        BY <3>1, <3>4
      <4>2. CASE i = writeIdx
        BY <1>3, <1>5, <4>1, <4>2
      <4>3. CASE i # writeIdx
        BY <1>1, <1>3, <1>5, <3>2, <4>1, <4>3 DEF SetIsRing
      <4> QED BY <4>2, <4>3
    <3> QED BY <3>3, <3>4
  <2>3. set' = Held'
    BY <2>2
  <2> QED BY <2>1, <2>3 DEF SetIsRing
<1>8. FilledInOrder'
  <2>1. writeIdx' = IF writeIdx = Capacity - 1 THEN 0 ELSE writeIdx + 1
    BY <1>1, StepWraps DEF AddNew
  <2> QED
    BY <1>1, <1>2, <1>5, <2>1, DedupAssumption DEF FilledInOrder, Slots
<1> QED BY <1>6, <1>7, <1>8

\* The invariant is inductive.
LEMMA NextInv == DedupInv /\ [DedupNext]_dedupVars => DedupInv'
<1> SUFFICES ASSUME DedupInv, [DedupNext]_dedupVars PROVE DedupInv'
  OBVIOUS
<1>1. CASE Clear
  BY <1>1, DedupAssumption DEF DedupInv, DedupTypeOK, SetIsRing, Held,
     FilledInOrder, Emptied, Slots, Clear
<1>2. CASE \E id \in Ids : AddNew(id)
  BY <1>2, AddNewInv
<1>3. CASE UNCHANGED dedupVars
  BY <1>3 DEF dedupVars, DedupInv, DedupTypeOK, SetIsRing, Held, FilledInOrder
<1> QED BY <1>1, <1>2, <1>3 DEF DedupNext

\* The types of the ring, the Set and the write position, for every capacity.
THEOREM DedupTypeCorrect == DedupSpec => []DedupTypeOK
<1>1. DedupInv => DedupTypeOK
  BY DEF DedupInv
<1> QED BY <1>1, InitInv, NextInv, PTL DEF DedupSpec

\* has() answers for exactly the ids in the ring, each held once
\* (dedup.ts:17-29, 39-43).
THEOREM SetAlwaysRing == DedupSpec => []SetIsRing
<1>1. DedupInv => SetIsRing
  BY DEF DedupInv
<1> QED BY <1>1, InitInv, NextInv, PTL DEF DedupSpec

-----------------------------------------------------------------------------
(***************************************************************************)
(* Refinement of the abstract window.                                      *)
(***************************************************************************)

\* The number of ids remembered.
HeldCount == IF ring[writeIdx] = Undefined THEN writeIdx ELSE Capacity

\* The ring, read from the write position, is a sequence of ids.
WindowShape ==
  /\ OldestFirst \in Seq(Ids)
  /\ Len(OldestFirst) = HeldCount
  /\ HeldCount \in 0 .. Capacity
  /\ \A i \in 1 .. HeldCount :
       OldestFirst[i] = IF ring[writeIdx] = Undefined
                        THEN ring[i - 1] ELSE ring[Ahead(i - 1)]

LEMMA OldestFirstSeq == DedupInv => WindowShape
<1> SUFFICES ASSUME DedupInv PROVE WindowShape
  OBVIOUS
<1> USE DedupAssumption DEF DedupInv, WindowShape
<1>1. HeldCount \in 0 .. Capacity /\ writeIdx \in Slots
  BY DEF HeldCount, DedupTypeOK, Slots
<1>2. \A i \in 1 .. HeldCount :
        (IF ring[writeIdx] = Undefined THEN ring[i - 1] ELSE ring[Ahead(i - 1)]) \in Ids
  BY <1>1 DEF HeldCount, DedupTypeOK, FilledInOrder, Slots, Ahead
<1>3. OldestFirst \in [1 .. HeldCount -> Ids]
  BY <1>1, <1>2 DEF OldestFirst, HeldCount
<1>4. OldestFirst \in Seq(Ids)
  BY <1>1, <1>3, SeqDef
<1>5. Len(OldestFirst) = HeldCount
  BY <1>1, <1>3, <1>4
<1> QED BY <1>1, <1>2, <1>4, <1>5 DEF OldestFirst, HeldCount

\* The empty ring is the empty window.
EmptiedRing == DedupInv /\ ring = Emptied /\ writeIdx = 0
NoneHeld == OldestFirst = <<>>

LEMMA EmptyWindow == EmptiedRing => NoneHeld
<1> SUFFICES ASSUME EmptiedRing PROVE NoneHeld
  OBVIOUS
<1> USE DEF EmptiedRing, NoneHeld
<1>1. HeldCount = 0
  BY DedupAssumption DEF HeldCount, Emptied, Slots
<1> QED BY <1>1, OldestFirstSeq, EmptySeq DEF WindowShape

\* The two lemmas about the state after a step.
LEMMA NextWindowShape == DedupInv' => WindowShape'
  BY OldestFirstSeq, PTL

LEMMA NextEmptyWindow == EmptiedRing' => NoneHeld'
  BY EmptyWindow, PTL

\* add() of a new id is a step of the window: the oldest id leaves a full one.
LEMMA AddNewRemembers ==
  ASSUME DedupInv, NEW id \in Ids, AddNew(id)
  PROVE  W!Remember(id)
<1> USE DedupAssumption
<1>1. DedupInv' /\ writeIdx \in Slots /\ writeIdx' \in Slots
  BY AddNewInv DEF DedupInv, DedupTypeOK
<1>2. writeIdx' = IF writeIdx = Capacity - 1 THEN 0 ELSE writeIdx + 1
  BY <1>1, StepWraps DEF AddNew
<1>3. \A i \in Slots : ring'[i] = IF i = writeIdx THEN id ELSE ring[i]
  BY <1>1 DEF AddNew, DedupInv, DedupTypeOK
<1>4. \A i \in Slots : ring[i] # id
  BY DEF AddNew, Has, DedupInv, SetIsRing, Held
<1>5. \A i \in 1 .. HeldCount : OldestFirst[i] # id
  BY <1>1, <1>4, OldestFirstSeq DEF WindowShape, HeldCount, Slots, Ahead
<1> DEFINE old == OldestFirst
<1>6. /\ old \in Seq(Ids) /\ Len(old) = HeldCount
      /\ OldestFirst' \in Seq(Ids) /\ Len(OldestFirst') = HeldCount'
  BY <1>1, OldestFirstSeq, NextWindowShape DEF WindowShape
<1>7. \A i \in 1 .. HeldCount' :
        OldestFirst'[i] = IF ring'[writeIdx'] = Undefined
                          THEN ring'[i - 1] ELSE ring'[Ahead(i - 1)']
  BY <1>1, OldestFirstSeq, NextWindowShape DEF WindowShape
<1>8. CASE ring[writeIdx] = Undefined
  <2>1. HeldCount = writeIdx /\ HeldCount' = writeIdx + 1
    BY <1>1, <1>2, <1>3, <1>8 DEF HeldCount, DedupInv, FilledInOrder, Slots
  <2>2. \A i \in 1 .. writeIdx + 1 :
          OldestFirst'[i] = IF i = writeIdx + 1 THEN id ELSE ring[i - 1]
    BY <1>1, <1>2, <1>3, <1>7, <1>8, <2>1 DEF Slots, Ahead, DedupInv, FilledInOrder
  <2>3. \A i \in 1 .. writeIdx : old[i] = ring[i - 1]
    BY <1>8, <2>1, OldestFirstSeq DEF WindowShape
  <2>4. OldestFirst' = Append(old, id)
    <3>1. /\ Append(old, id) \in Seq(Ids)
          /\ Len(Append(old, id)) = writeIdx + 1
          /\ \A i \in 1 .. writeIdx + 1 :
               Append(old, id)[i] = IF i = writeIdx + 1 THEN id ELSE old[i]
      BY <1>1, <1>6, <2>1 DEF Slots
    <3>2. \A i \in 1 .. writeIdx + 1 : OldestFirst'[i] = Append(old, id)[i]
      BY <1>1, <2>2, <2>3, <3>1 DEF Slots
    <3> HIDE DEF old
    <3> QED BY <1>6, <2>1, <3>1, <3>2, SeqEqual
  <2>5. Len(old) # Capacity
    BY <1>1, <1>6, <2>1 DEF Slots
  <2> QED BY <1>5, <1>6, <2>4, <2>5 DEF W!Remember
<1>9. CASE ring[writeIdx] # Undefined
  <2>1. HeldCount = Capacity /\ HeldCount' = Capacity
    BY <1>1, <1>2, <1>3, <1>9 DEF HeldCount, DedupInv, FilledInOrder, Slots
  <2>2. ring'[writeIdx'] # Undefined
    BY <1>1, <1>3, <1>9 DEF DedupInv, FilledInOrder, AddNew
  <2>3. \A i \in 1 .. Capacity : OldestFirst'[i] = ring'[Ahead(i - 1)']
    BY <1>7, <2>1, <2>2
  <2>4. \A i \in 1 .. Capacity : old[i] = ring[Ahead(i - 1)]
    BY <1>9, <2>1, OldestFirstSeq DEF WindowShape
  <2>5. \A i \in 1 .. Capacity :
          /\ i < Capacity => Ahead(i - 1)' = Ahead(i) /\ Ahead(i) \in Slots \ {writeIdx}
          /\ i = Capacity => Ahead(i - 1)' = writeIdx
    BY <1>1, <1>2 DEF Ahead, Slots
  <2>6. \A i \in 1 .. Capacity :
          OldestFirst'[i] = IF i = Capacity THEN id ELSE old[i + 1]
    BY <1>1, <1>3, <2>3, <2>4, <2>5
  <2>7. /\ Tail(old) \in Seq(Ids) /\ Len(Tail(old)) = Capacity - 1
        /\ \A i \in 1 .. Capacity - 1 : Tail(old)[i] = old[i + 1]
    <3>1. old # <<>>
      BY <1>6, <2>1, EmptySeq
    <3> HIDE DEF old
    <3> QED BY <1>6, <2>1, <3>1, HeadTailProperties
  <2>8. OldestFirst' = Append(Tail(old), id)
    <3> HIDE DEF old
    <3>1. /\ Append(Tail(old), id) \in Seq(Ids)
          /\ Len(Append(Tail(old), id)) = Capacity
          /\ \A i \in 1 .. Capacity :
               Append(Tail(old), id)[i] = IF i = Capacity THEN id ELSE Tail(old)[i]
      BY <2>7
    <3>2. \A i \in 1 .. Capacity : OldestFirst'[i] = Append(Tail(old), id)[i]
      BY <2>6, <2>7, <3>1
    <3> QED BY <1>6, <2>1, <3>1, <3>2, SeqEqual
  <2> QED BY <1>5, <1>6, <2>1, <2>8 DEF W!Remember
<1> QED BY <1>8, <1>9

\* BoundedUUIDSet implements "remember the last Capacity distinct ids", for
\* every capacity (dedup.ts:9-43): no id leaves early, none stays too long.
THEOREM DedupImplementsWindow == DedupSpec => RefinesWindow
<1>1. DedupInit => W!Init
  BY InitInv, EmptyWindow DEF DedupInit, EmptiedRing, NoneHeld, W!Init
<1>2. DedupInv /\ [DedupNext]_dedupVars => [W!Next]_OldestFirst
  <2> SUFFICES ASSUME DedupInv, [DedupNext]_dedupVars
               PROVE  [W!Next]_OldestFirst
    OBVIOUS
  <2>1. CASE Clear
    <3>1. EmptiedRing'
      BY <2>1, NextInv DEF Clear, EmptiedRing
    <3>2. OldestFirst' = <<>>
      BY <3>1, NextEmptyWindow DEF NoneHeld
    <3> QED BY <3>2 DEF W!Next, W!Forget
  <2>2. CASE \E id \in Ids : AddNew(id)
    BY <2>2, AddNewRemembers DEF W!Next
  <2>3. CASE UNCHANGED dedupVars
    BY <2>3 DEF dedupVars, OldestFirst, Ahead
  <2> QED BY <2>1, <2>2, <2>3 DEF DedupNext
<1> QED BY <1>1, <1>2, InitInv, NextInv, PTL DEF DedupSpec, RefinesWindow, W!Spec

-----------------------------------------------------------------------------
(***************************************************************************)
(* The invariant: what a delivery may have caused, given how far its       *)
(* handler is.                                                             *)
(***************************************************************************)

PoolTypeOK ==
  /\ call \in [Requests -> {"idle", "refused", "reading", "writing", "started", "rejected"}]
  /\ status \in [Requests -> {"none", "running"} \cup Ended]
  /\ told \in SUBSET Requests

Untouched(d) == quoted[d] = 0 /\ sentTexts[d] = {}

\* The first streamed text quotes the delivery, nothing else does meanwhile.
QuotedIfStreamed(d) == quoted[d] = IF sentTexts[d] = {} THEN 0 ELSE 1

\* Why a handler that returned has not replied.
Excuse(d) ==
  status[d] = "interrupted" \/ (status[d] = "completed" /\ ~HasAnswer(d))

Progress(d) ==
  /\ handler[d] \in {"none", "dropped", "studying", "building"} =>
       Untouched(d) /\ call[d] = "idle"
  /\ handler[d] = "calling" => Untouched(d) /\ call[d] \in {"reading", "writing"}
  /\ handler[d] = "waiting" => QuotedIfStreamed(d) /\ call[d] = "started"
  /\ handler[d] = "returned" =>
       /\ call[d] # "reading"
       /\ quoted[d] = 1 \/ (quoted[d] = 0 /\ Excuse(d))
  /\ handler[d] = "threw" => quoted[d] <= 1 /\ call[d] # "reading"

\* An interval that runs belongs to a handler in progress, to a study command,
\* or to a handler that threw before it had a handle.
TypingHasReason(d) ==
  /\ handler[d] = "studying" => KindOf[d] = "study"
  /\ d \in typing =>
       \/ handler[d] \in {"studying", "building", "calling", "waiting"}
       \/ KindOf[d] = "study" /\ handler[d] \in {"returned", "threw"}
       \/ handler[d] = "threw" /\ call[d] \in {"idle", "rejected"}

Conversation(d) == Progress(d) /\ TypingHasReason(d)

RouterInv ==
  /\ RouterTypeOK /\ PoolTypeOK /\ DedupInv
  /\ \A d \in Requests : Conversation(d)

-----------------------------------------------------------------------------
(***************************************************************************)
(* The invariant is inductive.                                             *)
(***************************************************************************)

LEMMA RouterInitInv == RouterInit => RouterInv
<1> SUFFICES ASSUME RouterInit PROVE RouterInv
  OBVIOUS
<1>1. DedupInv
  BY InitInv DEF RouterInit
<1>2. RouterTypeOK
  BY <1>1 DEF RouterInit, RouterTypeOK, DedupInv, HandlerState
<1>3. PoolTypeOK
  BY DEF RouterInit, PoolInit, PoolTypeOK
<1>4. \A d \in Requests : Conversation(d)
  BY DEF RouterInit, PoolInit, Conversation, Progress, TypingHasReason, Untouched
<1> QED BY <1>1, <1>2, <1>3, <1>4 DEF RouterInv

\* Only Receive touches the filter and the log.
LEMMA FilterInv ==
  ASSUME RouterInv, [RouterNext]_allVars
  PROVE  DedupInv' /\ (UNCHANGED <<dedupVars, log>> \/ \E d \in Requests : Receive(d))
<1>1. CASE \E d \in Requests : Receive(d)
  BY <1>1, AddNewInv, RouterAssumption DEF Receive, RouterInv
<1>2. CASE UNCHANGED <<dedupVars, log>>
  BY <1>2 DEF RouterInv, dedupVars, DedupInv, DedupTypeOK, SetIsRing, Held, FilledInOrder
<1>3. UNCHANGED <<dedupVars, log>> \/ \E d \in Requests : Receive(d)
  BY DEF RouterNext, allVars, routerVars, HandlerStep, Drop, PrintText, PrintResult,
     AnswerStudy, BuildFails, CallRefused, CallAccepted, SessionStarts, CallReturned,
     CallThrew, SessionEnds, ManagerTold, Finish, FinishThrows, Stop, ShutdownBegins,
     ShutdownEnds
<1> QED BY <1>1, <1>2, <1>3

\* Types of what the router and the pool keep.
LEMMA TypesInv ==
  ASSUME RouterInv, [RouterNext]_allVars
  PROVE  RouterTypeOK' /\ PoolTypeOK'
<1> USE DEF RouterInv, RouterTypeOK, PoolTypeOK, HandlerState, Concluded
<1>1. DedupTypeOK'
  BY FilterInv DEF DedupInv
<1>2. ASSUME NEW d \in Requests, Drop(d) PROVE RouterTypeOK' /\ PoolTypeOK'
  BY <1>1, <1>2 DEF Drop, Goto, poolVars
<1>3. ASSUME NEW d \in Requests, Receive(d) PROVE RouterTypeOK' /\ PoolTypeOK'
  <2>1. log' \in Seq(Ids)
    BY <1>3, RouterAssumption DEF Receive
  <2>2. handler' \in [Requests -> HandlerState]
    BY <1>3 DEF Receive, Goto
  <2> QED BY <1>1, <1>3, <2>1, <2>2 DEF Receive, poolVars
<1>4. ASSUME NEW d \in Requests, PrintText(d) PROVE RouterTypeOK' /\ PoolTypeOK'
  BY <1>1, <1>4 DEF PrintText, QuoteFirst, Quote, poolVars
<1>5. ASSUME NEW d \in Requests, PrintResult(d) PROVE RouterTypeOK' /\ PoolTypeOK'
  BY <1>1, <1>5 DEF PrintResult, poolVars
<1>6. ASSUME NEW d \in Requests, AnswerStudy(d) PROVE RouterTypeOK' /\ PoolTypeOK'
  <2>1. quoted' \in [Requests -> Nat]
    BY <1>6 DEF AnswerStudy, Quote
  <2>2. handler' \in [Requests -> HandlerState]
    BY <1>6 DEF AnswerStudy, Goto
  <2> QED BY <1>1, <1>6, <2>1, <2>2 DEF AnswerStudy, poolVars
<1>7. ASSUME NEW d \in Requests, BuildFails(d) PROVE RouterTypeOK' /\ PoolTypeOK'
  BY <1>1, <1>7 DEF BuildFails, Goto, poolVars
<1>8. ASSUME NEW d \in Requests, CallRefused(d) PROVE RouterTypeOK' /\ PoolTypeOK'
  <2>1. quoted' \in [Requests -> Nat]
    BY <1>8 DEF CallRefused, Quote
  <2>2. handler' \in [Requests -> HandlerState]
    BY <1>8 DEF CallRefused, Goto
  <2>3. PoolTypeOK'
    BY <1>8 DEF CallRefused, Decline
  <2> QED BY <1>1, <1>8, <2>1, <2>2, <2>3 DEF CallRefused
<1>9. ASSUME NEW d \in Requests, CallAccepted(d) PROVE RouterTypeOK' /\ PoolTypeOK'
  BY <1>1, <1>9 DEF CallAccepted, Accept, Goto
<1>10. ASSUME NEW d \in Requests, SessionStarts(d) PROVE RouterTypeOK' /\ PoolTypeOK'
  BY <1>1, <1>10 DEF SessionStarts, Start, routerVars
<1>11. ASSUME NEW d \in Requests, CallReturned(d) PROVE RouterTypeOK' /\ PoolTypeOK'
  BY <1>1, <1>11 DEF CallReturned, Hand, Goto
<1>12. ASSUME NEW d \in Requests, CallThrew(d) PROVE RouterTypeOK' /\ PoolTypeOK'
  BY <1>1, <1>12 DEF CallThrew, Reject, Goto
<1>13. ASSUME NEW d \in Requests, SessionEnds(d) PROVE RouterTypeOK' /\ PoolTypeOK'
  BY <1>1, <1>13 DEF SessionEnds, End, routerVars
<1>14. ASSUME NEW d \in Requests, ManagerTold(d) PROVE RouterTypeOK' /\ PoolTypeOK'
  BY <1>1, <1>14 DEF ManagerTold, Tell, routerVars
<1>15. ASSUME NEW d \in Requests, Finish(d) PROVE RouterTypeOK' /\ PoolTypeOK'
  BY <1>1, <1>15 DEF Finish, Quote, Goto, poolVars, TypingAfterDone, RememberedAfter
<1>16. ASSUME NEW d \in Requests, FinishThrows(d) PROVE RouterTypeOK' /\ PoolTypeOK'
  BY <1>1, <1>16 DEF FinishThrows, Quote, Goto, poolVars, TypingAfterDone
<1>17. CASE Stop \/ ShutdownBegins \/ ShutdownEnds \/ UNCHANGED allVars
  BY <1>1, <1>17 DEF Stop, ShutdownBegins, ShutdownEnds, StartDrain, EndDrain,
     poolVars, routerVars, allVars
<1> QED
  BY <1>2, <1>3, <1>4, <1>5, <1>6, <1>7, <1>8, <1>9, <1>10, <1>11, <1>12, <1>13,
     <1>14, <1>15, <1>16, <1>17 DEF RouterNext, HandlerStep

\* A step of one delivery leaves the others as they are.
SameFor(e) ==
  /\ handler'[e] = handler[e] /\ call'[e] = call[e] /\ status'[e] = status[e]
  /\ quoted'[e] = quoted[e] /\ sentTexts'[e] = sentTexts[e]
  /\ (e \in gotResult' <=> e \in gotResult) /\ (e \in typing' <=> e \in typing)

LEMMA SameConversation ==
  ASSUME NEW e \in Requests, Conversation(e), SameFor(e)
  PROVE  Conversation(e)'
  BY DEF SameFor, Conversation, Progress, TypingHasReason, Untouched,
     QuotedIfStreamed, Excuse, HasAnswer

\* What a delivery may have caused, action by action.
LEMMA ConversationInv ==
  ASSUME RouterInv, [RouterNext]_allVars
  PROVE  \A e \in Requests : Conversation(e)'
<1> DEFINE Kept == \A e \in Requests : Conversation(e)'
<1>0. /\ \A e \in Requests : Conversation(e)
      /\ RouterTypeOK /\ PoolTypeOK /\ DOMAIN handler = Requests
  BY DEF RouterInv, RouterTypeOK
<1> USE DEF RouterTypeOK, PoolTypeOK
<1>1. ASSUME NEW d \in Requests, \A e \in Requests \ {d} : SameFor(e),
             Conversation(d)'
      PROVE  Kept
  BY <1>0, <1>1, SameConversation
<1>2. ASSUME \A e \in Requests : SameFor(e) PROVE Kept
  BY <1>0, <1>2, SameConversation
<1> HIDE DEF Kept
<1>3. ASSUME NEW d \in Requests, Drop(d) PROVE Kept
  <2>1. \A e \in Requests \ {d} : SameFor(e)
    BY <1>0, <1>3 DEF Drop, Goto, poolVars, SameFor
  <2>2. Conversation(d)'
    BY <1>0, <1>3 DEF Drop, Goto, poolVars, Conversation, Progress, TypingHasReason,
       Untouched, QuotedIfStreamed, Excuse
  <2> QED BY <1>1, <2>1, <2>2
<1>4. ASSUME NEW d \in Requests, Receive(d) PROVE Kept
  <2>1. \A e \in Requests \ {d} : SameFor(e)
    BY <1>0, <1>4 DEF Receive, Goto, poolVars, SameFor
  <2>2. Conversation(d)'
    BY <1>0, <1>4, RouterAssumption DEF Receive, Goto, poolVars, Conversation, Progress,
       TypingHasReason, Untouched, QuotedIfStreamed, Excuse
  <2> QED BY <1>1, <2>1, <2>2
<1>5. ASSUME NEW d \in Requests, PrintText(d) PROVE Kept
  <2>1. \A e \in Requests \ {d} : SameFor(e)
    BY <1>0, <1>5 DEF PrintText, QuoteFirst, Quote, poolVars, SameFor
  <2>2. handler[d] = "waiting" /\ handler' = handler /\ call' = call /\ typing' = typing
    BY <1>5 DEF PrintText, Listening, poolVars
  <2>3. sentTexts'[d] # {}
    BY <1>0, <1>5 DEF PrintText
  <2>4. quoted'[d] = IF sentTexts[d] = {} THEN quoted[d] + 1 ELSE quoted[d]
    BY <1>0, <1>5 DEF PrintText, QuoteFirst, Quote
  <2>5. QuotedIfStreamed(d)'
    BY <1>0, <2>2, <2>3, <2>4 DEF Conversation, Progress, QuotedIfStreamed
  <2>6. Conversation(d)'
    BY <1>0, <2>2, <2>5 DEF Conversation, Progress, TypingHasReason
  <2> QED BY <1>1, <2>1, <2>6
<1>6. ASSUME NEW d \in Requests, PrintResult(d) PROVE Kept
  <2>1. \A e \in Requests \ {d} : SameFor(e)
    BY <1>0, <1>6 DEF PrintResult, poolVars, SameFor
  <2>2. Conversation(d)'
    BY <1>0, <1>6 DEF PrintResult, Listening, poolVars, Conversation,
       Progress, TypingHasReason, Untouched, QuotedIfStreamed, Excuse
  <2> QED BY <1>1, <2>1, <2>2
<1>7. ASSUME NEW d \in Requests, AnswerStudy(d) PROVE Kept
  <2>1. \A e \in Requests \ {d} : SameFor(e)
    BY <1>0, <1>7 DEF AnswerStudy, Quote, Goto, poolVars, SameFor
  <2>2. Conversation(d)'
    BY <1>0, <1>7 DEF AnswerStudy, Quote, Goto, poolVars, Conversation,
       Progress, TypingHasReason, Untouched, QuotedIfStreamed, Excuse
  <2> QED BY <1>1, <2>1, <2>2
<1>8. ASSUME NEW d \in Requests, BuildFails(d) PROVE Kept
  <2>1. \A e \in Requests \ {d} : SameFor(e)
    BY <1>0, <1>8 DEF BuildFails, Goto, poolVars, SameFor
  <2>2. Conversation(d)'
    BY <1>0, <1>8 DEF BuildFails, Goto, poolVars, Conversation,
       Progress, TypingHasReason, Untouched, QuotedIfStreamed, Excuse
  <2> QED BY <1>1, <2>1, <2>2
<1>9. ASSUME NEW d \in Requests, CallRefused(d) PROVE Kept
  <2>1. \A e \in Requests \ {d} : SameFor(e)
    BY <1>0, <1>9 DEF CallRefused, Decline, Quote, Goto, SameFor
  <2>2. Conversation(d)'
    BY <1>0, <1>9 DEF CallRefused, Decline, Quote, Goto, Conversation,
       Progress, TypingHasReason, Untouched, QuotedIfStreamed, Excuse
  <2> QED BY <1>1, <2>1, <2>2
<1>10. ASSUME NEW d \in Requests, CallAccepted(d) PROVE Kept
  <2>1. \A e \in Requests \ {d} : SameFor(e)
    BY <1>0, <1>10 DEF CallAccepted, Accept, Goto, SameFor
  <2>2. Conversation(d)'
    BY <1>0, <1>10 DEF CallAccepted, Accept, Goto, Conversation,
       Progress, TypingHasReason, Untouched, QuotedIfStreamed, Excuse
  <2> QED BY <1>1, <2>1, <2>2
<1>11. ASSUME NEW d \in Requests, SessionStarts(d) PROVE Kept
  <2>1. \A e \in Requests \ {d} : SameFor(e)
    BY <1>0, <1>11 DEF SessionStarts, Start, routerVars, SameFor
  <2>2. handler[d] = "calling"
    BY <1>0, <1>11 DEF SessionStarts, Start, Conversation, Progress, HandlerState, Concluded
  <2>3. Conversation(d)'
    BY <1>0, <1>11, <2>2 DEF SessionStarts, Start, routerVars, Conversation,
       Progress, TypingHasReason, Untouched, QuotedIfStreamed, Excuse
  <2> QED BY <1>1, <2>1, <2>3
<1>12. ASSUME NEW d \in Requests, CallReturned(d) PROVE Kept
  <2>1. \A e \in Requests \ {d} : SameFor(e)
    BY <1>0, <1>12 DEF CallReturned, Hand, Goto, SameFor
  <2>2. Conversation(d)'
    BY <1>0, <1>12 DEF CallReturned, Hand, Goto, Conversation,
       Progress, TypingHasReason, Untouched, QuotedIfStreamed, Excuse
  <2> QED BY <1>1, <2>1, <2>2
<1>13. ASSUME NEW d \in Requests, CallThrew(d) PROVE Kept
  <2>1. \A e \in Requests \ {d} : SameFor(e)
    BY <1>0, <1>13 DEF CallThrew, Reject, Goto, SameFor
  <2>2. Conversation(d)'
    BY <1>0, <1>13 DEF CallThrew, Reject, Goto, Conversation,
       Progress, TypingHasReason, Untouched, QuotedIfStreamed, Excuse
  <2> QED BY <1>1, <2>1, <2>2
<1>14. ASSUME NEW d \in Requests, SessionEnds(d) PROVE Kept
  <2>1. \A e \in Requests \ {d} : SameFor(e)
    BY <1>0, <1>14 DEF SessionEnds, End, routerVars, SameFor
  <2>2. Conversation(d)'
    BY <1>0, <1>14 DEF SessionEnds, End, routerVars, Ended, Conversation,
       Progress, TypingHasReason, Untouched, QuotedIfStreamed, Excuse, HasAnswer
  <2> QED BY <1>1, <2>1, <2>2
<1>15. ASSUME NEW d \in Requests, ManagerTold(d) PROVE Kept
  BY <1>2, <1>15 DEF ManagerTold, Tell, routerVars, SameFor
<1>16. ASSUME NEW d \in Requests, Finish(d) PROVE Kept
  <2>1. \A e \in Requests \ {d} : SameFor(e)
    BY <1>0, <1>16 DEF Finish, Quote, Goto, poolVars, TypingAfterDone, SameFor
  <2>2. /\ handler'[d] = "returned" /\ d \notin typing' /\ call'[d] = "started"
        /\ status'[d] = status[d] /\ status[d] \in Ended
        /\ sentTexts' = sentTexts /\ gotResult' = gotResult /\ QuotedIfStreamed(d)
        /\ quoted'[d] = IF OwesReply(d) THEN quoted[d] + 1 ELSE quoted[d]
    BY <1>0, <1>16 DEF Finish, SessionDone, Quote, Goto, poolVars, TypingAfterDone,
       Conversation, Progress
  <2>3. quoted'[d] = 1 \/ (quoted'[d] = 0 /\ Excuse(d)')
    BY <2>2 DEF QuotedIfStreamed, OwesReply, Ended, Excuse, HasAnswer
  <2>4. Conversation(d)'
    BY <2>2, <2>3 DEF Conversation, Progress, TypingHasReason
  <2> QED BY <1>1, <2>1, <2>4
<1>17. ASSUME NEW d \in Requests, FinishThrows(d) PROVE Kept
  <2>1. \A e \in Requests \ {d} : SameFor(e)
    BY <1>0, <1>17 DEF FinishThrows, Quote, Goto, poolVars, TypingAfterDone, SameFor
  <2>2. handler'[d] = "threw" /\ d \notin typing' /\ call'[d] = "started"
    BY <1>0, <1>17 DEF FinishThrows, Goto, poolVars, TypingAfterDone, Conversation, Progress
  <2>3. quoted'[d] = IF OwesReply(d) THEN quoted[d] + 1 ELSE quoted[d]
    BY <1>0, <1>17 DEF FinishThrows, Quote
  <2>4. QuotedIfStreamed(d)
    BY <1>0, <1>17 DEF FinishThrows, Conversation, Progress
  <2>5. quoted'[d] <= 1
    <3>1. CASE sentTexts[d] = {}
      BY <2>3, <2>4, <3>1 DEF QuotedIfStreamed
    <3>2. CASE sentTexts[d] # {}
      BY <2>3, <2>4, <3>2 DEF QuotedIfStreamed, OwesReply
    <3> QED BY <3>1, <3>2
  <2>6. Conversation(d)'
    BY <2>2, <2>5 DEF Conversation, Progress, TypingHasReason
  <2> QED BY <1>1, <2>1, <2>6
<1>18. ASSUME Stop PROVE Kept
  BY <1>2, <1>18 DEF Stop, poolVars, SameFor
<1>19. ASSUME ShutdownBegins PROVE Kept
  BY <1>2, <1>19 DEF ShutdownBegins, StartDrain, routerVars, SameFor
<1>20. ASSUME ShutdownEnds PROVE Kept
  BY <1>2, <1>20 DEF ShutdownEnds, EndDrain, routerVars, SameFor
<1>21. ASSUME UNCHANGED allVars PROVE Kept
  BY <1>2, <1>21 DEF poolVars, routerVars, allVars, SameFor
<1>22. ASSUME NEW d \in Requests, HandlerStep(d) PROVE Kept
  BY <1>7, <1>8, <1>9, <1>10, <1>11, <1>12, <1>13, <1>14, <1>15, <1>16, <1>17, <1>22
     DEF HandlerStep
<1>23. Kept
  BY <1>3, <1>4, <1>5, <1>6, <1>18, <1>19, <1>20, <1>21, <1>22 DEF RouterNext
<1> QED BY <1>23 DEF Kept

LEMMA RouterNextInv == RouterInv /\ [RouterNext]_allVars => RouterInv'
  BY FilterInv, TypesInv, ConversationInv DEF RouterInv

LEMMA RouterAlwaysInv == RouterSpec => []RouterInv
  BY RouterInitInv, RouterNextInv, PTL DEF RouterSpec

-----------------------------------------------------------------------------
(***************************************************************************)
(* What follows for each conversation.                                     *)
(***************************************************************************)

\* Type correctness of filter, router and pool for all deliveries.
THEOREM RouterTypeCorrect == RouterSpec => []RouterTypeOK
<1>1. RouterInv => RouterTypeOK
  BY DEF RouterInv
<1> QED BY <1>1, RouterAlwaysInv, PTL

\* One message at most quotes a delivery: the first streamed text, the result
\* fallback, the failure notice and the refusal exclude each other
\* (router.ts:240-296).
THEOREM RepliesOnce == RouterSpec => []OneReply
<1>1. RouterInv => OneReply
  BY DEF RouterInv, RouterTypeOK, HandlerState, Concluded, Conversation, Progress,
     Untouched, QuotedIfStreamed, OneReply
<1> QED BY <1>1, RouterAlwaysInv, PTL

\* The typing interval of a chat ends with its handler, unless the handler threw
\* before it had a handle (router.ts:146-151, 239, 273).
THEOREM TypingEnds == RouterSpec => []TypingEndsWithChat
<1>1. RouterInv => TypingEndsWithChat
  BY DEF RouterInv, RouterTypeOK, Concluded, Conversation,
     TypingHasReason, TypingEndsWithChat
<1> QED BY <1>1, RouterAlwaysInv, PTL

\* A message that got no reply belongs to an interrupted session, or to one that
\* said nothing its handler could hear (router.ts:249-296).
THEOREM SilenceHasReason == RouterSpec => []SilenceExcused
<1>1. RouterInv => SilenceExcused
  BY DEF RouterInv, Conversation, Progress, Excuse, SilenceExcused
<1> QED BY <1>1, RouterAlwaysInv, PTL


\* A handler that waits for getOrCreate has a call that goes on, and one that waits for
\* handle.done has a session, which runs or has ended (router.ts:230-273).
NoHandlerStranded ==
  \A d \in Requests :
    /\ handler[d] = "calling" => call[d] \in {"reading", "writing"}
    /\ handler[d] = "waiting" => call[d] = "started" /\ status[d] \in {"running"} \cup Ended

\* The process of a call is there from when it was spawned.
SpawnedOnceCalled == \A d \in Requests : call[d] \in {"writing", "started"} => status[d] # "none"

LEMMA SpawnedStep ==
  ASSUME RouterInv, SpawnedOnceCalled, [RouterNext]_allVars
  PROVE  SpawnedOnceCalled'
<1> USE DEF SpawnedOnceCalled
<1>0. /\ call \in [Requests -> {"idle", "refused", "reading", "writing", "started", "rejected"}]
      /\ status \in [Requests -> {"none", "running"} \cup Ended]
  BY DEF RouterInv, PoolTypeOK
<1>1. CASE UNCHANGED <<call, status>>
  BY <1>1
<1>2. CASE \E d \in Requests : CallRefused(d) \/ CallAccepted(d) \/ CallReturned(d) \/ CallThrew(d)
  BY <1>0, <1>2 DEF CallRefused, Decline, CallAccepted, Accept, CallReturned, Hand, CallThrew, Reject
<1>3. CASE \E d \in Requests : SessionStarts(d)
  BY <1>0, <1>3 DEF SessionStarts, Start
<1>4. CASE \E d \in Requests : SessionEnds(d)
  BY <1>0, <1>4 DEF SessionEnds, End, Ended
<1>5. CASE \E d \in Requests : \/ Drop(d) \/ Receive(d) \/ PrintText(d) \/ PrintResult(d)
                               \/ AnswerStudy(d) \/ BuildFails(d) \/ Finish(d) \/ FinishThrows(d)
                               \/ ManagerTold(d)
  BY <1>1, <1>5 DEF Drop, Receive, PrintText, PrintResult, AnswerStudy, BuildFails, Finish,
     FinishThrows, ManagerTold, Tell, poolVars
<1>6. CASE Stop \/ ShutdownBegins \/ ShutdownEnds \/ UNCHANGED allVars
  BY <1>1, <1>6 DEF Stop, ShutdownBegins, ShutdownEnds, StartDrain, EndDrain, poolVars, allVars
<1> QED
  BY <1>2, <1>3, <1>4, <1>5, <1>6 DEF RouterNext, HandlerStep

\* No handler waits for a call or a session that is not there, whatever refusals, failures and
\* shutdowns fall in between (router.ts:230-273): what EveryMessageConcluded rests on.
THEOREM HandlersNeverStranded == RouterSpec => []NoHandlerStranded
<1>1. RouterInit => SpawnedOnceCalled
  BY DEF RouterInit, PoolInit, SpawnedOnceCalled
<1>2. RouterInv /\ SpawnedOnceCalled => NoHandlerStranded
  BY DEF RouterInv, PoolTypeOK, Conversation, Progress, SpawnedOnceCalled, NoHandlerStranded
<1> QED
  BY <1>1, <1>2, SpawnedStep, RouterAlwaysInv, PTL DEF RouterSpec

-----------------------------------------------------------------------------
(***************************************************************************)
(* The filter's window is the end of the log.                              *)
(***************************************************************************)

WindowIsLog ==
  /\ Len(OldestFirst) <= Len(log)
  /\ Len(OldestFirst) = Capacity \/ Len(OldestFirst) = Len(log)
  /\ \A i \in 1 .. Len(OldestFirst) :
       OldestFirst[i] = log[(Len(log) - Len(OldestFirst)) + i]

\* Ids that are the same are more than Capacity places apart.
SpacedOut ==
  \A m, n \in 1 .. Len(log) : m < n /\ n - m <= Capacity => log[m] # log[n]

LogInv == RouterInv /\ WindowIsLog /\ SpacedOut

LEMMA LogInitInv == RouterInit => LogInv
<1> SUFFICES ASSUME RouterInit PROVE LogInv
  OBVIOUS
<1>1. EmptiedRing
  BY InitInv DEF RouterInit, DedupInit, EmptiedRing
<1>2. OldestFirst = <<>> /\ log = <<>>
  BY <1>1, EmptyWindow DEF NoneHeld, RouterInit
<1> QED BY <1>2, RouterInitInv DEF LogInv, WindowIsLog, SpacedOut

\* A message that the filter lets through is not among the last Capacity ones.
LEMMA ReceiveLog ==
  ASSUME LogInv, NEW d \in Requests, Receive(d)
  PROVE  WindowIsLog' /\ SpacedOut'
<1> DEFINE id == IdOf[d]
           old == OldestFirst
           new == OldestFirst'
<1>1. id \in Ids /\ AddNew(id) /\ log' = Append(log, id)
  BY RouterAssumption DEF Receive
<1>2. DedupInv /\ log \in Seq(Ids)
  BY DEF LogInv, RouterInv, RouterTypeOK
<1>3. W!Remember(id)
  BY <1>1, <1>2, AddNewRemembers
<1>4. old \in Seq(Ids) /\ Len(old) <= Capacity
  BY <1>2, OldestFirstSeq, DedupAssumption DEF WindowShape
<1>5. /\ \A i \in 1 .. Len(old) : old[i] # id
      /\ new = IF Len(old) = Capacity THEN Append(Tail(old), id) ELSE Append(old, id)
  BY <1>3 DEF W!Remember
<1>6. /\ Len(old) <= Len(log)
      /\ Len(old) = Capacity \/ Len(old) = Len(log)
      /\ \A i \in 1 .. Len(old) : old[i] = log[(Len(log) - Len(old)) + i]
  BY DEF LogInv, WindowIsLog
<1>7. /\ Len(log') = Len(log) + 1
      /\ \A n \in 1 .. Len(log) : log'[n] = log[n]
      /\ log'[Len(log) + 1] = id
  BY <1>1, <1>2
<1> HIDE DEF id, old, new
<1>8. SpacedOut'
  <2> SUFFICES ASSUME NEW m \in 1 .. Len(log'), NEW n \in 1 .. Len(log'),
                      m < n, n - m <= Capacity
               PROVE  log'[m] # log'[n]
    BY DEF SpacedOut
  <2>1. CASE n <= Len(log)
    <3>1. m \in 1 .. Len(log) /\ n \in 1 .. Len(log)
      BY <1>2, <1>7, <2>1
    <3> QED BY <1>7, <3>1 DEF LogInv, SpacedOut
  <2>2. CASE n = Len(log) + 1
    <3>1. m \in 1 .. Len(log) /\ log'[m] = log[m] /\ log'[n] = id
      BY <1>2, <1>7, <2>2
    <3> DEFINE k == m - (Len(log) - Len(old))
    <3>2. k \in 1 .. Len(old) /\ (Len(log) - Len(old)) + k = m
      BY <1>2, <1>4, <1>6, <2>2, <3>1, DedupAssumption
    <3>3. log[m] = old[k]
      BY <1>6, <3>2
    <3> QED BY <1>5, <3>1, <3>2, <3>3
  <2> QED BY <1>2, <1>7, <2>1, <2>2
<1>9. CASE Len(old) = Capacity
  <2>1. old # <<>>
    BY <1>4, <1>9, DedupAssumption, EmptySeq
  <2>2. /\ Tail(old) \in Seq(Ids) /\ Len(Tail(old)) = Capacity - 1
        /\ \A i \in 1 .. Capacity - 1 : Tail(old)[i] = old[i + 1]
    BY <1>4, <1>9, <2>1, HeadTailProperties
  <2>3. /\ Len(new) = Capacity
        /\ \A i \in 1 .. Capacity - 1 : new[i] = old[i + 1]
        /\ new[Capacity] = id
    BY <1>1, <1>5, <1>9, <2>2, DedupAssumption, AppendProperties DEF id
  <2>4. \A i \in 1 .. Capacity : new[i] = log'[(Len(log') - Capacity) + i]
    <3> SUFFICES ASSUME NEW i \in 1 .. Capacity
                 PROVE  new[i] = log'[(Len(log') - Capacity) + i]
      OBVIOUS
    <3>1. CASE i = Capacity
      BY <1>2, <1>7, <2>3, <3>1, DedupAssumption
    <3>2. CASE i # Capacity
      <4>1. i \in 1 .. Capacity - 1 /\ i + 1 \in 1 .. Capacity
        BY <3>2, DedupAssumption
      <4>2. new[i] = log[(Len(log) - Capacity) + (i + 1)]
        BY <1>6, <1>9, <2>3, <4>1
      <4>3. /\ (Len(log) - Capacity) + (i + 1) = (Len(log') - Capacity) + i
            /\ (Len(log) - Capacity) + (i + 1) \in 1 .. Len(log)
        BY <1>2, <1>6, <1>7, <1>9, <4>1, DedupAssumption
      <4> QED BY <1>7, <4>2, <4>3
    <3> QED BY <3>1, <3>2
  <2>5. Capacity <= Len(log')
    BY <1>2, <1>6, <1>7, <1>9, DedupAssumption
  <2> QED BY <1>8, <2>3, <2>4, <2>5 DEF WindowIsLog, new
<1>10. CASE Len(old) # Capacity
  <2>1. /\ Len(new) = Len(log) + 1
        /\ \A i \in 1 .. Len(log) : new[i] = old[i]
        /\ new[Len(log) + 1] = id
    BY <1>1, <1>4, <1>5, <1>6, <1>10, AppendProperties DEF id
  <2>2. \A i \in 1 .. Len(log) + 1 : new[i] = log'[i]
    <3>1. \A i \in 1 .. Len(log) : (Len(log) - Len(old)) + i = i
      BY <1>2, <1>6, <1>10
    <3>2. \A i \in 1 .. Len(log) : new[i] = log[i]
      BY <1>6, <1>10, <2>1, <3>1
    <3> QED BY <1>2, <1>7, <2>1, <3>2
  <2>3. \A i \in 1 .. Len(new) : new[i] = log'[(Len(log') - Len(new)) + i]
    BY <1>2, <1>7, <2>1, <2>2
  <2>4. Len(new) <= Len(log') /\ Len(new) = Len(log')
    BY <1>2, <1>7, <2>1
  <2> QED BY <1>8, <2>3, <2>4 DEF WindowIsLog, new
<1> QED BY <1>9, <1>10

LEMMA LogNextInv == LogInv /\ [RouterNext]_allVars => LogInv'
<1> SUFFICES ASSUME LogInv, [RouterNext]_allVars PROVE LogInv'
  OBVIOUS
<1>1. RouterInv /\ RouterInv'
  BY RouterNextInv DEF LogInv
<1>2. CASE \E d \in Requests : Receive(d)
  BY <1>1, <1>2, ReceiveLog DEF LogInv
<1>3. CASE UNCHANGED <<dedupVars, log>>
  <2>1. OldestFirst' = OldestFirst
    BY <1>3 DEF dedupVars, OldestFirst, Ahead
  <2> QED BY <1>1, <1>3, <2>1 DEF LogInv, WindowIsLog, SpacedOut
<1> QED BY <1>1, <1>2, <1>3, FilterInv

\* Between two occurrences of an id lie Capacity different ones.
LEMMA SpacedOutCounts == LogInv => OncePerWindow
<1> SUFFICES ASSUME LogInv, NEW i \in 1 .. Len(log), NEW j \in 1 .. Len(log),
                    i < j, log[i] = log[j]
             PROVE  Cardinality({log[n] : n \in (i + 1) .. (j - 1)}) >= Capacity
  BY DEF OncePerWindow
<1> DEFINE between == {log[n] : n \in (i + 1) .. (j - 1)}
           next == (i + 1) .. (i + Capacity)
<1>1. log \in Seq(Ids) /\ Len(log) \in Nat
  BY DEF LogInv, RouterInv, RouterTypeOK
<1>2. j - i > Capacity
  BY <1>1, DedupAssumption DEF LogInv, SpacedOut
<1>3. IsFiniteSet(between)
  <2> DEFINE all == (i + 1) .. (j - 1)
             f == [n \in all |-> log[n]]
  <2>1. IsFiniteSet(all)
    BY FS_Interval
  <2>2. f \in Surjection(all, between)
    BY DEF Surjection
  <2> QED BY <2>1, <2>2, FS_Surjection
<1>4. Cardinality(next) = Capacity
  BY FS_Interval, DedupAssumption
<1>5. [n \in next |-> log[n]] \in Injection(next, between)
  <2>1. \A n \in next : n \in (i + 1) .. (j - 1) /\ n \in 1 .. Len(log)
    BY <1>1, <1>2, DedupAssumption
  <2>2. \A m, n \in next : m < n => log[m] # log[n]
    BY <2>1, DedupAssumption DEF LogInv, SpacedOut
  <2>3. \A m, n \in next : log[m] = log[n] => m = n
    BY <2>2
  <2>4. [n \in next |-> log[n]] \in [next -> between]
    BY <2>1
  <2> QED BY <2>3, <2>4 DEF Injection, IsInjective
<1>6. Cardinality(next) <= Cardinality(between)
  BY <1>3, <1>5, FS_Injection
<1> QED BY <1>4, <1>6, <1>3, FS_CardinalityType, DedupAssumption

\* A redelivered message starts a second session only after Capacity other
\* messages (router.ts:116-117 with dedup.ts), for every capacity.
THEOREM ProcessedOncePerWindow == RouterSpec => []OncePerWindow
  BY LogInitInv, LogNextInv, SpacedOutCounts, PTL DEF RouterSpec
=============================================================================
