----------------------------- MODULE Evaluation -----------------------------
(***************************************************************************)
(* Peer evaluation (evaluation/publisher.ts, evaluator.ts and store.ts):   *)
(* after a session a pet may ask the others for an evaluation; requests    *)
(* and results are files in a directory that the daemons share, and each   *)
(* step below is what a daemon does between two accesses to it.            *)
(*                                                                         *)
(* A request is named after the session it is about.                       *)
(***************************************************************************)
EXTENDS Naturals, FiniteSets

CONSTANTS Judges,     \* the pets: each asks, and evaluates for the others
          Ended,      \* the sessions that ended
          EndedOf,    \* [Ended -> Judges]
          MaxPending, \* maxPendingCount
          Batch,      \* MAX_EVALUATIONS_PER_RUN
          MaxFalls,   \* bound on the crashes
          NoJudge

ASSUME EvaluationAssumption ==
  /\ MaxPending \in Nat \ {0} /\ Batch \in Nat \ {0} /\ MaxFalls \in Nat
  /\ NoJudge \notin Judges /\ EndedOf \in [Ended -> Judges]

VARIABLES
  request,  \* the status in each request file
  verdict,  \* who wrote each result file
  overdue,  \* requests whose expiresAt has passed
  asking,   \* maybePublish of each session: its place, and the files it listed
  judge,    \* evaluatePending of each pet
  asked,    \* how often each executor was asked to evaluate each request
  together, \* the most calls of maybePublish that each pet had at once
  falls

evalVars == <<request, verdict, overdue, asking, judge, asked, together, falls>>

Asks(at, listed) == [at |-> at, listed |-> listed]

\* The batch is todo; req is the request at hand.
Judging(at, todo, req) == [at |-> at, todo |-> todo, req |-> req]

Nothing == "nothing"

EvalInit ==
  /\ request = [r \in Ended |-> "none"]
  /\ verdict = [r \in Ended |-> NoJudge]
  /\ overdue = {} /\ falls = 0
  /\ asking = [r \in Ended |-> Asks("waiting", {})]
  /\ judge = [p \in Judges |-> Judging("idle", {}, Nothing)]
  /\ asked = [r \in Ended |-> [p \in Judges |-> 0]]
  /\ together = [p \in Judges |-> 0]

Filed(r) == request[r] # "none"

\* readActiveRequests.
ActiveRequests == {r \in Ended : Filed(r) /\ r \notin overdue}

Unjudged(r) == verdict[r] = NoJudge

-----------------------------------------------------------------------------
(***************************************************************************)
(* maybePublish.                                                           *)
(***************************************************************************)

InFlight(p) == {r \in Ended : EndedOf[r] = p /\ asking[r].at \in {"counting", "building"}}

\* The session has ended and the dice are for it: the directory is listed.
CountStarts(r) ==
  /\ asking[r].at = "waiting"
  /\ asking' = [asking EXCEPT ![r] =
                  Asks("counting", {q \in ActiveRequests : EndedOf[q] = EndedOf[r]})]
  /\ LET now == Cardinality(InFlight(EndedOf[r])) + 1 IN
       together' = [together EXCEPT ![EndedOf[r]] = IF now > @ THEN now ELSE @]
  /\ UNCHANGED <<request, verdict, overdue, judge, asked, falls>>

\* Mutant: one more than the maximum is let through.
CrowdedLate(n) == n > MaxPending

Crowded(n) == n >= MaxPending

\* countPending counts what is listed and has no result; the history is next.
CountEnds(r) ==
  /\ asking[r].at = "counting"
  /\ ~Crowded(Cardinality({q \in asking[r].listed : q \in ActiveRequests /\ Unjudged(q)}))
  /\ asking' = [asking EXCEPT ![r] = Asks("building", {})]
  /\ UNCHANGED <<request, verdict, overdue, judge, asked, together, falls>>

\* Too many are pending, or the count, the history or the write fails, or the
\* history is empty.
Skips(r) ==
  /\ asking[r].at \in {"counting", "building"}
  /\ asking' = [asking EXCEPT ![r] = Asks("over", {})]
  /\ UNCHANGED <<request, verdict, overdue, judge, asked, together, falls>>

Requested(r) ==
  /\ asking[r].at = "building"
  /\ asking' = [asking EXCEPT ![r] = Asks("over", {})]
  /\ request' = [request EXCEPT ![r] = "pending"]
  /\ UNCHANGED <<verdict, overdue, judge, asked, together, falls>>

-----------------------------------------------------------------------------
(***************************************************************************)
(* evaluatePending.                                                        *)
(***************************************************************************)

\* Mutant: requests in progress are taken as well.
TakenOrNot(p) == {r \in ActiveRequests : EndedOf[r] # p /\ Unjudged(r)}

\* listPending, whose reads are one step here.
PendingFor(p) ==
  {r \in ActiveRequests : EndedOf[r] # p /\ request[r] = "pending" /\ Unjudged(r)}

\* The first of the list, in the order of the directory. With none to evaluate the
\* call returns, and cleans nothing.
JudgeStarts(p) ==
  /\ judge[p].at = "idle"
  /\ \E batch \in SUBSET PendingFor(p) \ {{}} :
       /\ \/ Cardinality(batch) = Batch
          \/ batch = PendingFor(p) /\ Cardinality(batch) < Batch
       /\ judge' = [judge EXCEPT ![p] = Judging("batch", batch, Nothing)]
  /\ UNCHANGED <<request, verdict, overdue, asking, asked, together, falls>>

\* updateStatus reads the request; one that is gone is evaluated all the same.
JudgeTakes(p, r) ==
  /\ judge[p].at = "batch" /\ r \in judge[p].todo
  /\ judge' = [judge EXCEPT ![p] = Judging(IF Filed(r) THEN "marking" ELSE "asking",
                                           @.todo \ {r}, r)]
  /\ UNCHANGED <<request, verdict, overdue, asking, asked, together, falls>>

\* It is written back as "evaluating", though it may have been removed meanwhile.
JudgeMarks(p) ==
  /\ judge[p].at = "marking"
  /\ request' = [request EXCEPT ![judge[p].req] = "evaluating"]
  /\ judge' = [judge EXCEPT ![p].at = "asking"]
  /\ UNCHANGED <<verdict, overdue, asking, asked, together, falls>>

JudgeAsks(p) ==
  /\ judge[p].at = "asking"
  /\ judge' = [judge EXCEPT ![p].at = "judging"]
  /\ asked' = [asked EXCEPT ![judge[p].req][p] = @ + 1]
  /\ UNCHANGED <<request, verdict, overdue, asking, together, falls>>

\* The answer can be parsed and is saved, over that of another pet ...
JudgeSaves(p) ==
  /\ judge[p].at = "judging"
  /\ verdict' = [verdict EXCEPT ![judge[p].req] = p]
  /\ judge' = [judge EXCEPT ![p] = Judging("batch", @.todo, Nothing)]
  /\ UNCHANGED <<request, overdue, asking, asked, together, falls>>

\* ... or it is empty, is no JSON or has no score from 1 to 10, or the executor or
\* the write fails: the request stays "evaluating" until it expires.
JudgeFails(p) ==
  /\ judge[p].at = "judging"
  /\ judge' = [judge EXCEPT ![p] = Judging("batch", @.todo, Nothing)]
  /\ UNCHANGED <<request, verdict, overdue, asking, asked, together, falls>>

\* cleanup lists the directory when the batch is done.
CleanupStarts(p) ==
  /\ judge[p].at = "batch" /\ judge[p].todo = {}
  /\ judge' = [judge EXCEPT ![p] = Judging("cleaning", {r \in Ended : Filed(r)}, Nothing)]
  /\ UNCHANGED <<request, verdict, overdue, asking, asked, together, falls>>

\* An expired request is removed, ...
CleanupRemoves(p, r) ==
  /\ judge[p].at = "cleaning" /\ r \in judge[p].todo /\ Filed(r) /\ r \in overdue
  /\ request' = [request EXCEPT ![r] = "none"]
  /\ judge' = [judge EXCEPT ![p] = Judging("clearing", @.todo \ {r}, r)]
  /\ UNCHANGED <<verdict, overdue, asking, asked, together, falls>>

\* ... and then its result.
CleanupClears(p) ==
  /\ judge[p].at = "clearing"
  /\ verdict' = [verdict EXCEPT ![judge[p].req] = NoJudge]
  /\ judge' = [judge EXCEPT ![p] = Judging("cleaning", @.todo, Nothing)]
  /\ UNCHANGED <<request, overdue, asking, asked, together, falls>>

\* No expired one is left of those it listed.
CleanupEnds(p) ==
  /\ judge[p].at = "cleaning" /\ \A r \in judge[p].todo : ~(Filed(r) /\ r \in overdue)
  /\ judge' = [judge EXCEPT ![p] = Judging("idle", {}, Nothing)]
  /\ UNCHANGED <<request, verdict, overdue, asking, asked, together, falls>>

-----------------------------------------------------------------------------

RequestExpires(r) ==
  /\ Filed(r) /\ r \notin overdue
  /\ overdue' = overdue \cup {r}
  /\ UNCHANGED <<request, verdict, asking, judge, asked, together, falls>>

\* The daemon of p dies and starts again: its calls are over.
JudgeFalls(p) ==
  /\ falls < MaxFalls /\ falls' = falls + 1
  /\ judge' = [judge EXCEPT ![p] = Judging("idle", {}, Nothing)]
  /\ asking' = [r \in Ended |-> IF r \in InFlight(p) THEN Asks("over", {}) ELSE asking[r]]
  /\ UNCHANGED <<request, verdict, overdue, asked, together>>

EvalNext ==
  \/ \E r \in Ended : CountStarts(r) \/ CountEnds(r) \/ Skips(r) \/ Requested(r)
                      \/ RequestExpires(r)
  \/ \E p \in Judges :
       \/ JudgeStarts(p) \/ JudgeMarks(p) \/ JudgeAsks(p) \/ JudgeSaves(p) \/ JudgeFails(p)
       \/ CleanupStarts(p) \/ CleanupClears(p) \/ CleanupEnds(p) \/ JudgeFalls(p)
       \/ \E r \in Ended : JudgeTakes(p, r) \/ CleanupRemoves(p, r)

EvalSpec == EvalInit /\ [][EvalNext]_evalVars

-----------------------------------------------------------------------------
(***************************************************************************)
(* Properties.                                                             *)
(***************************************************************************)

EvalTypeOK ==
  /\ request \in [Ended -> {"none", "pending", "evaluating"}]
  /\ verdict \in [Ended -> Judges \cup {NoJudge}]
  /\ overdue \subseteq Ended /\ falls \in 0..MaxFalls
  /\ \A r \in Ended : /\ asking[r].at \in {"waiting", "counting", "building", "over"}
                      /\ asking[r].listed \subseteq Ended
  /\ \A p \in Judges :
       /\ judge[p].at \in {"idle", "batch", "marking", "asking", "judging", "cleaning",
                           "clearing"}
       /\ judge[p].todo \subseteq Ended /\ judge[p].req \in Ended \cup {Nothing}
  /\ asked \in [Ended -> [Judges -> Nat]] /\ together \in [Judges -> Nat]

\* "Cost control: don't flood the shared dir" (publisher.ts:52): the maximum is
\* exceeded by no more than the sessions that ended at once, whose counts did not
\* see each other's requests.
BacklogBounded ==
  \A p \in Judges :
    Cardinality({r \in ActiveRequests : EndedOf[r] = p /\ Unjudged(r)})
      =< MaxPending - 1 + (IF together[p] = 0 THEN 1 ELSE together[p])

\* A pet evaluates a request once, and never its own: not after a crash, a failed
\* evaluation, or a cleanup between its reading and its marking (store.ts:84).
EvaluatedOnce ==
  \A r \in Ended, p \in Judges : asked[r][p] =< IF p = EndedOf[r] THEN 0 ELSE 1
=============================================================================
