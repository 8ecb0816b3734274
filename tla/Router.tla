------------------------------- MODULE Router -------------------------------
(***************************************************************************)
(* MessageRouter (channel/router.ts) on top of the duplicate filter        *)
(* (Dedup) and of what the session manager promises (SessionPool).  A      *)
(* request is one delivery of a message by a channel plugin, that is one   *)
(* call of handleMessage; the same message may be delivered again.         *)
(* Deliveries run concurrently: nobody awaits handleMessage.               *)
(***************************************************************************)
EXTENDS Dedup, SessionPool

CONSTANTS
  IdOf,    \* message id of each delivery
  KindOf,  \* "chat", or "study": a study command or a question about the queue
  Texts    \* texts that a session streams

ASSUME RouterAssumption ==
  /\ IdOf \in [Requests -> Ids]
  /\ KindOf \in [Requests -> {"chat", "study"}]
  /\ MaxSessions \in Nat \ {0}

VARIABLES
  accepting,   \* MessageRouter.accepting
  handler,     \* how far handleMessage is with each delivery
  typing,      \* deliveries whose typing interval runs
  sentTexts,   \* texts streamed to the channel for each delivery
  gotResult,   \* deliveries whose resultText was set
  quoted,      \* messages sent in reply to the delivered one
  remembered,  \* deliveries whose answer went to history and integration
  log          \* auxiliary: ids processed, in order

routerVars == <<accepting, handler, typing, sentTexts, gotResult, quoted,
                remembered, log>>

allVars == <<dedupVars, poolVars, routerVars>>

\* "dropped" and "threw" are ends of handleMessage, like "returned".
Concluded == {"dropped", "returned", "threw"}

HandlerState == {"none", "studying", "building", "calling", "waiting"} \cup Concluded

RouterInit ==
  /\ DedupInit /\ PoolInit
  /\ accepting = TRUE
  /\ handler = [d \in Requests |-> "none"]
  /\ typing = {} /\ gotResult = {} /\ remembered = {}
  /\ sentTexts = [d \in Requests |-> {}]
  /\ quoted = [d \in Requests |-> 0]
  /\ log = <<>>

Goto(d, s) == handler' = [handler EXCEPT ![d] = s]

\* sendMessage(channel, text, msg.id).
Quote(d) == quoted' = [quoted EXCEPT ![d] = @ + 1]

-----------------------------------------------------------------------------
(***************************************************************************)
(* handleMessage up to its first await.                                    *)
(***************************************************************************)

Drop(d) ==
  /\ handler[d] = "none"
  /\ ~accepting \/ Has(IdOf[d])
  /\ Goto(d, "dropped")
  /\ UNCHANGED <<dedupVars, poolVars, accepting, typing, sentTexts, gotResult,
                 quoted, remembered, log>>

\* Remember the id, start the typing interval, and wait for the study queue or
\* for the context.
Receive(d) ==
  /\ handler[d] = "none"
  /\ accepting /\ AddNew(IdOf[d])
  /\ log' = Append(log, IdOf[d])
  /\ typing' = typing \cup {d}
  /\ Goto(d, IF KindOf[d] = "study" THEN "studying" ELSE "building")
  /\ UNCHANGED <<poolVars, accepting, sentTexts, gotResult, quoted, remembered>>

-----------------------------------------------------------------------------
(***************************************************************************)
(* The branches.                                                           *)
(***************************************************************************)

\* A study command or status question is answered at once; the queue or
\* sendMessage may throw.  The typing interval is not cleared.
AnswerStudy(d) ==
  /\ handler[d] = "studying"
  /\ \/ Quote(d) /\ Goto(d, "returned")
     \/ Quote(d) /\ Goto(d, "threw")
     \/ UNCHANGED quoted /\ Goto(d, "threw")
  /\ UNCHANGED <<dedupVars, poolVars, accepting, typing, sentTexts, gotResult,
                 remembered, log>>

\* contextBuilder.build rejects.
BuildFails(d) ==
  /\ handler[d] = "building"
  /\ Goto(d, "threw")
  /\ UNCHANGED <<dedupVars, poolVars, accepting, typing, sentTexts, gotResult,
                 quoted, remembered, log>>

\* The context is there, and getOrCreate answers null: apologise.
CallRefused(d) ==
  /\ handler[d] = "building"
  /\ Decline(d)
  /\ typing' = typing \ {d}
  /\ Quote(d)
  /\ Goto(d, "returned") \/ Goto(d, "threw")
  /\ UNCHANGED <<dedupVars, accepting, sentTexts, gotResult, remembered, log>>

CallAccepted(d) ==
  /\ handler[d] = "building"
  /\ Accept(d)
  /\ Goto(d, "calling")
  /\ UNCHANGED <<dedupVars, accepting, typing, sentTexts, gotResult, quoted,
                 remembered, log>>

SessionStarts(d) == Start(d) /\ UNCHANGED <<dedupVars, routerVars>>

\* getOrCreate returned the handle: the listeners are registered, and the
\* handler awaits handle.done.
CallReturned(d) ==
  /\ handler[d] = "calling"
  /\ Hand(d)
  /\ Goto(d, "waiting")
  /\ UNCHANGED <<dedupVars, accepting, typing, sentTexts, gotResult, quoted,
                 remembered, log>>

\* The spawn or the write of the record threw.
CallThrew(d) ==
  /\ handler[d] = "calling"
  /\ Reject(d)
  /\ Goto(d, "threw")
  /\ UNCHANGED <<dedupVars, accepting, typing, sentTexts, gotResult, quoted,
                 remembered, log>>

-----------------------------------------------------------------------------
(***************************************************************************)
(* The session.                                                            *)
(***************************************************************************)

Listening(d) == handler[d] = "waiting"

\* The first streamed text is a reply, the others are not.
QuoteFirst(d) == IF sentTexts[d] = {} THEN Quote(d) ELSE UNCHANGED quoted

\* An assistant line; the listener forwards each text once.  A line printed
\* before the listeners were registered is lost: the callbacks are not replayed.
PrintText(d) ==
  /\ status[d] = "running" /\ Listening(d)
  /\ \E text \in Texts \ sentTexts[d] :
       /\ sentTexts' = [sentTexts EXCEPT ![d] = @ \cup {text}]
       /\ QuoteFirst(d)
  /\ UNCHANGED <<dedupVars, poolVars, accepting, handler, typing, gotResult,
                 remembered, log>>

\* The result line, with some text.
PrintResult(d) ==
  /\ status[d] = "running" /\ Listening(d)
  /\ gotResult' = gotResult \cup {d}
  /\ UNCHANGED <<dedupVars, poolVars, accepting, handler, typing, sentTexts,
                 quoted, remembered, log>>

SessionEnds(d) == End(d) /\ UNCHANGED <<dedupVars, routerVars>>

ManagerTold(d) == Tell(d) /\ UNCHANGED <<dedupVars, routerVars>>

-----------------------------------------------------------------------------
(***************************************************************************)
(* handleMessage after handle.done.                                        *)
(***************************************************************************)

\* Mutant: handle.done resolves on exit code 0 alone.
DoneOnSuccess(d) == status[d] = "completed" /\ d \in told

\* handle.done resolved; the manager's callback was attached first and ran.
SessionDone(d) == status[d] \in Ended /\ d \in told

\* Mutant: the fallback is forgotten; only failures are reported.
OwesFailureNotice(d) == status[d] = "failed" /\ sentTexts[d] = {}

\* Mutant: what was streamed already does not matter.
OwesReplyAlways(d) ==
  status[d] = "failed" \/ (status[d] = "completed" /\ d \in gotResult)

\* Nothing was streamed: the result text of a success, or the failure notice,
\* is sent in reply.
OwesReply(d) ==
  /\ sentTexts[d] = {}
  /\ status[d] = "failed" \/ (status[d] = "completed" /\ d \in gotResult)

HasAnswer(d) == d \in gotResult \/ sentTexts[d] # {}

\* Mutant: the interval is cleared on success only.
TypingAfterSuccess(d) == IF status[d] = "completed" THEN typing \ {d} ELSE typing

TypingAfterDone(d) == typing \ {d}

RememberedAfter(d) == IF HasAnswer(d) THEN remembered \cup {d} ELSE remembered

Finish(d) ==
  /\ handler[d] = "waiting" /\ SessionDone(d)
  /\ typing' = TypingAfterDone(d)
  /\ IF OwesReply(d) THEN Quote(d) ELSE UNCHANGED quoted
  /\ Goto(d, "returned")
  /\ remembered' = RememberedAfter(d)
  /\ UNCHANGED <<dedupVars, poolVars, accepting, sentTexts, gotResult, log>>

\* sendMessage throws: the rest of the handler is skipped.
FinishThrows(d) ==
  /\ handler[d] = "waiting" /\ SessionDone(d)
  /\ OwesReply(d) \/ status[d] = "failed"
  /\ typing' = TypingAfterDone(d)
  /\ IF OwesReply(d) THEN Quote(d) ELSE UNCHANGED quoted
  /\ Goto(d, "threw")
  /\ UNCHANGED <<dedupVars, poolVars, accepting, sentTexts, gotResult,
                 remembered, log>>

-----------------------------------------------------------------------------
(***************************************************************************)
(* Shutdown, as runDaemon orders it: router.stop(), and only after the     *)
(* awaited cronService.stop() and plugin.disconnect() the sessions.        *)
(* Handlers that are running are not awaited.                              *)
(***************************************************************************)

Stop ==
  /\ accepting
  /\ accepting' = FALSE
  /\ UNCHANGED <<dedupVars, poolVars, handler, typing, sentTexts, gotResult,
                 quoted, remembered, log>>

ShutdownBegins == ~accepting /\ StartDrain /\ UNCHANGED <<dedupVars, routerVars>>
ShutdownEnds == EndDrain /\ UNCHANGED <<dedupVars, routerVars>>

\* What happens to a delivery once it was received.
HandlerStep(d) ==
  \/ AnswerStudy(d) \/ BuildFails(d) \/ CallRefused(d) \/ CallAccepted(d)
  \/ SessionStarts(d) \/ CallReturned(d) \/ CallThrew(d)
  \/ SessionEnds(d) \/ ManagerTold(d) \/ Finish(d) \/ FinishThrows(d)

RouterNext ==
  \/ \E d \in Requests :
       Drop(d) \/ Receive(d) \/ PrintText(d) \/ PrintResult(d) \/ HandlerStep(d)
  \/ Stop \/ ShutdownBegins \/ ShutdownEnds

RouterSpec == RouterInit /\ [][RouterNext]_allVars

\* Awaited calls return, and sessions end: SessionManager's EverySessionEnds.
RouterFairSpec == RouterSpec /\ WF_allVars(\E d \in Requests : HandlerStep(d))

-----------------------------------------------------------------------------
(***************************************************************************)
(* Properties.                                                             *)
(***************************************************************************)

RouterTypeOK ==
  /\ DedupTypeOK
  /\ accepting \in BOOLEAN
  /\ handler \in [Requests -> HandlerState]
  /\ typing \in SUBSET Requests /\ gotResult \in SUBSET Requests
  /\ sentTexts \in [Requests -> SUBSET Texts]
  /\ quoted \in [Requests -> Nat]
  /\ remembered \in SUBSET Requests
  /\ log \in Seq(Ids)

\* A message is processed again only after Capacity other messages were
\* (router.ts:116-117 with dedup.ts): a redelivery cannot start a second session
\* while the filter is wide enough.
OncePerWindow ==
  \A i, j \in 1 .. Len(log) :
    i < j /\ log[i] = log[j] =>
      Cardinality({log[n] : n \in (i + 1) .. (j - 1)}) >= Capacity

\* One message of the bot at most quotes a delivery, however streaming, the
\* result fallback, the failure notice and a refusal fall together
\* (router.ts:240-296).
OneReply == \A d \in Requests : quoted[d] <= 1

\* The typing indicator of a conversation goes off with its handler, unless the
\* handler threw before it had a handle (router.ts:146-151, 239, 273).
TypingEndsWithChat ==
  \A d \in typing :
    KindOf[d] = "chat" /\ handler[d] \in Concluded =>
      handler[d] = "threw" /\ call[d] \in {"idle", "rejected"}

\* A handler that returned left its message without a reply only if the session
\* was interrupted, or said nothing after the handler had begun to listen
\* (router.ts:249-296; the listeners are registered after the await of 230).
SilenceExcused ==
  \A d \in Requests :
    handler[d] = "returned" /\ quoted[d] = 0 =>
      status[d] = "interrupted" \/ (status[d] = "completed" /\ ~HasAnswer(d))

\* No process starts once sessionManager.shutdown() returned, "kill all active
\* sessions" (manager.ts:150).
NothingStartsWhenDown ==
  [][stage = "down" => \A d \in Requests : status'[d] = "running" => status[d] = "running"]_allVars

\* Every message that was received is concluded.
EveryMessageConcluded ==
  \A d \in Requests :
    handler[d] # "none" ~> handler[d] \in Concluded
=============================================================================
