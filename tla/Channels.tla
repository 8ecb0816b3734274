------------------------------ MODULE Channels ------------------------------
(***************************************************************************)
(* The channels while the daemon starts, runs, stops and starts again      *)
(* (channel/telegram/plugin.ts, channel/discord/plugin.ts and the order in *)
(* which daemon/lifecycle.ts connects them, wires the router and cron, and *)
(* takes them down).                                                       *)
(*                                                                         *)
(* Telegram is polled: the server keeps its updates until a request asks   *)
(* for later ones.  Discord pushes its posts, and keeps none.              *)
(***************************************************************************)
EXTENDS Naturals

CONSTANTS MaxUpdates, \* bound on the Telegram updates, numbered from 1
          Unwanted,   \* updates without text, of another chat, not addressed to the bot
          Posts,      \* Discord posts that are addressed to the bot
          MaxStarts   \* bound on the starts

ASSUME ChannelsAssumption ==
  MaxUpdates \in Nat /\ MaxStarts \in Nat /\ Unwanted \subseteq 1..MaxUpdates

VARIABLES
  stage,     \* how far the daemon is
  starts,
  sent,      \* the number of updates there are
  kept,      \* the first update the server still keeps
  offset,    \* pollLoop's, 0 at first
  loop,      \* pollLoop: its place, and the updates of its batch from next to last
  handedNow, \* how often each update was handed to the router in this life
  handed,    \* the updates that were ever handed to it
  post       \* where each post is

chanVars == <<stage, starts, sent, kept, offset, loop, handedNow, handed, post>>

Updates == 1..MaxUpdates

Looping(at, next, last) == [at |-> at, next |-> next, last |-> last]

NoLoop == Looping("none", 1, 0)

ChanInit ==
  /\ stage = "down" /\ starts = 0
  /\ sent = 0 /\ kept = 1 /\ offset = 0 /\ loop = NoLoop
  /\ handedNow = [u \in Updates |-> 0] /\ handed = {}
  /\ post = [m \in Posts |-> "unsent"]

-----------------------------------------------------------------------------
(***************************************************************************)
(* The stages of the daemon.                                               *)
(***************************************************************************)

Reaches(from, to) == stage = from /\ stage' = to

Unmoved == UNCHANGED <<starts, sent, kept, offset, handedNow, handed, post>>

\* The pointer is read, the memories are seeded, the parts are built.
BuildsParts ==
  /\ Reaches("down", "built")
  /\ starts < MaxStarts /\ starts' = starts + 1
  /\ offset' = 0 /\ loop' = NoLoop
  /\ handedNow' = [u \in Updates |-> 0]
  /\ UNCHANGED <<sent, kept, handed, post>>

\* Discord is logged in and listens for posts; Telegram's getMe is awaited.
DiscordConnects == Reaches("built", "connecting") /\ UNCHANGED loop /\ Unmoved

\* getMe answers: the loop begins, and without another await the feed, the
\* integrator, the study queue and the router are built and the router is wired.
TelegramConnects ==
  /\ Reaches("connecting", "wired")
  /\ loop' = Looping("asks", 1, 0)
  /\ Unmoved

\* The commands are registered, collaboration, evaluation and the jobs are built,
\* the git watcher reads its state, and cron starts.
JobsStart == Reaches("wired", "running") /\ UNCHANGED loop /\ Unmoved

\* A part cannot be built or connected: the process exits.
StartBreaks ==
  /\ stage \in {"built", "connecting", "wired"} /\ stage' = "down"
  /\ loop' = NoLoop /\ post' = [m \in Posts |-> IF post[m] = "prepared" THEN "lost" ELSE post[m]]
  /\ UNCHANGED <<starts, sent, kept, offset, handedNow, handed>>

\* The signal has come: the router takes no more messages, cron is stopping.
RouterStops == Reaches("running", "stopping") /\ UNCHANGED loop /\ Unmoved

\* Cron has stopped: Discord's client is destroyed, Telegram's loop aborted.
ChannelsDisconnect == Reaches("stopping", "disconnected") /\ UNCHANGED loop /\ Unmoved

\* The sessions are shut down, and the process ends; or it crashes, at any time.
Ends ==
  /\ stage \notin {"down", "built", "connecting", "wired"} /\ stage' = "down"
  /\ loop' = NoLoop /\ post' = [m \in Posts |-> IF post[m] = "prepared" THEN "lost" ELSE post[m]]
  /\ UNCHANGED <<starts, sent, kept, offset, handedNow, handed>>

\* Where handleMessage does not reject.
Accepting == stage \in {"wired", "running"}

-----------------------------------------------------------------------------
(***************************************************************************)
(* Telegram's pollLoop.                                                    *)
(***************************************************************************)

Aborted == stage = "disconnected"

UpdateSent ==
  /\ sent < MaxUpdates /\ sent' = sent + 1
  /\ UNCHANGED <<stage, starts, kept, offset, loop, handedNow, handed, post>>

LoopGoes(next) == loop' = next /\ UNCHANGED <<stage, starts, sent, post>>

\* getUpdates reaches the server, which forgets what is before the offset.
AsksUpdates ==
  /\ loop.at = "asks" /\ ~Aborted
  /\ kept' = IF offset > kept THEN offset ELSE kept
  /\ LoopGoes(Looping("waits", 1, 0)) /\ UNCHANGED <<offset, handedNow, handed>>

\* All the server has; none after half a minute; or an error, and 5 seconds' sleep.
GetsUpdates ==
  /\ loop.at = "waits"
  /\ \/ kept =< sent /\ LoopGoes(Looping("batch", kept, sent))
     \/ LoopGoes(Looping("asks", 1, 0))
  /\ UNCHANGED <<kept, offset, handedNow, handed>>

\* Mutant: the next request asks for the last update again.
AtUpdate(u) == u

Past(u) == u + 1

\* The offset moves first; then the update is left, or its attachments are loaded.
TakesUpdate ==
  /\ loop.at = "batch" /\ loop.next =< loop.last /\ ~Aborted
  /\ offset' = Past(loop.next)
  /\ LoopGoes(IF loop.next \in Unwanted THEN Looping("batch", loop.next + 1, loop.last)
              ELSE Looping("loads", loop.next, loop.last))
  /\ UNCHANGED <<kept, handedNow, handed>>

\* The handler is called and not awaited, whether or not the loop was aborted and
\* the router stopped in the meantime.
HandsUpdate ==
  /\ loop.at = "loads"
  /\ loop' = Looping("batch", loop.next + 1, loop.last)
  /\ handedNow' = [handedNow EXCEPT ![loop.next] = @ + 1]
  /\ handed' = handed \cup {loop.next}
  /\ UNCHANGED <<stage, starts, sent, kept, offset, post>>

BatchEnds ==
  /\ loop.at = "batch" /\ (loop.next > loop.last \/ Aborted)
  /\ LoopGoes(Looping("asks", 1, 0)) /\ UNCHANGED <<kept, offset, handedNow, handed>>

-----------------------------------------------------------------------------
(***************************************************************************)
(* Discord's MessageCreate.                                                *)
(***************************************************************************)

PostGoes(m, to) ==
  /\ post' = [post EXCEPT ![m] = to]
  /\ UNCHANGED <<stage, starts, sent, kept, offset, loop, handedNow, handed>>

\* Recent messages and attachments are loaded, or the post is dropped: the router
\* is not wired yet, the client is not there, or the process is down.
PostArrives(m) ==
  /\ post[m] = "unsent"
  /\ PostGoes(m, IF stage \in {"wired", "running", "stopping"} THEN "prepared" ELSE "lost")

\* The handler is called.
PostHanded(m) ==
  /\ post[m] = "prepared"
  /\ PostGoes(m, IF Accepting THEN "handled" ELSE "rejected")

-----------------------------------------------------------------------------

ChanNext ==
  \/ BuildsParts \/ DiscordConnects \/ TelegramConnects \/ JobsStart \/ StartBreaks
  \/ RouterStops \/ ChannelsDisconnect \/ Ends
  \/ UpdateSent \/ AsksUpdates \/ GetsUpdates \/ TakesUpdate \/ HandsUpdate \/ BatchEnds
  \/ \E m \in Posts : PostArrives(m) \/ PostHanded(m)

ChanSpec == ChanInit /\ [][ChanNext]_chanVars

-----------------------------------------------------------------------------
(***************************************************************************)
(* Properties.                                                             *)
(***************************************************************************)

ChanTypeOK ==
  /\ stage \in {"down", "built", "connecting", "wired", "running", "stopping", "disconnected"}
  /\ starts \in 0..MaxStarts /\ sent \in 0..MaxUpdates
  /\ kept \in 1..MaxUpdates + 1 /\ offset \in 0..MaxUpdates + 1
  /\ loop \in [at : {"none", "asks", "waits", "batch", "loads"},
               next : 1..MaxUpdates + 1, last : 0..MaxUpdates]
  /\ handedNow \in [Updates -> Nat] /\ handed \subseteq Updates
  /\ post \in [Posts -> {"unsent", "prepared", "handled", "rejected", "lost"}]

\* Through crashes and restarts, without a stored offset: no update is handed to the
\* router twice in one life of the daemon, and none that is meant for the bot is
\* forgotten by the server before it was handed over (telegram/plugin.ts:97).
UpdatesHandedOnce ==
  \A u \in Updates :
    /\ handedNow[u] =< 1
    /\ u < kept /\ u \notin Unwanted => u \in handed
=============================================================================
