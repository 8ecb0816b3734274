------------------------------ MODULE GitWatch ------------------------------
(***************************************************************************)
(* The git watcher (git/watcher.ts, git/reviewer.ts and the job git-watcher *)
(* of cron/jobs.ts): new commits of the remote branches are reviewed, no   *)
(* more than so many an hour, through restarts over one state file.        *)
(*                                                                         *)
(* The commits of a branch are numbered; a position stands for the sha of  *)
(* the last one taken.  Reviews are numbered too: those up to hourAgo are  *)
(* older than an hour.                                                     *)
(***************************************************************************)
EXTENDS Naturals, FiniteSets

CONSTANTS Branches,
          MaxCommits,        \* bound on the commits of a branch
          Ignored,           \* [Branches -> SUBSET (1..MaxCommits)]: by ignoreAuthors
          MaxReviewsPerHour,
          MaxReviews,        \* bound on the reviews
          MaxStops           \* bound on the restarts and failures of git

ASSUME GitWatchAssumption ==
  /\ MaxCommits \in Nat /\ MaxReviewsPerHour \in Nat /\ MaxReviews \in Nat /\ MaxStops \in Nat
  /\ \A b \in Branches : Ignored[b] \subseteq 1..MaxCommits

VARIABLES
  pushed,   \* the number of commits on each remote branch
  known,    \* the state in memory: positions and review timestamps
  stateFile,\* the state on disk: one of those, or none, or torn
  job,      \* the run of the job: its place, its branch, what it has left
  reviewed, \* how often each commit was reviewed
  reviews,  \* the number of reviews
  hourAgo,
  missed,   \* the reviews whose timestamps a restart has lost
  back,     \* branches whose position went back
  stops

gitVars == <<pushed, known, stateFile, job, reviewed, reviews, hourAgo, missed, back, stops>>

Commits == 1..MaxCommits

NoPosition == [b \in Branches |-> 0]

\* Two of what the state file may hold besides a state.
Absent == [lastChecked |-> NoPosition, stamps |-> {}, ok |-> FALSE]
Saved(k) == [lastChecked |-> k.lastChecked, stamps |-> k.stamps, ok |-> TRUE]

Doing(at, branch, branches, commits) ==
  [at |-> at, branch |-> branch, branches |-> branches, commits |-> commits]

NoBranch == "none"
Down == Doing("down", NoBranch, {}, {})
Idle == Doing("idle", NoBranch, {}, {})

GitInit ==
  /\ pushed = [b \in Branches |-> 0]
  /\ known = [lastChecked |-> NoPosition, stamps |-> {}]
  /\ stateFile = Absent
  /\ job = Down
  /\ reviewed = [b \in Branches |-> [c \in Commits |-> 0]]
  /\ reviews = 0 /\ hourAgo = 0 /\ missed = {} /\ back = {} /\ stops = 0

-----------------------------------------------------------------------------
(***************************************************************************)
(* init, with loadState.                                                   *)
(***************************************************************************)

\* The state that was saved; without one, or with one that is torn, the branches
\* begin at the HEAD of the workspace, which may be any commit.
WatchInit ==
  /\ job.at = "down" /\ job' = Idle
  /\ \E head \in 0..MaxCommits :
       /\ \A b \in Branches : head =< pushed[b]
       /\ known' = [lastChecked |-> IF stateFile.ok THEN stateFile.lastChecked
                                    ELSE [b \in Branches |-> head],
                    stamps |-> stateFile.stamps]
  /\ missed' = missed \cup (known.stamps \ stateFile.stamps)
  /\ back' = back \cup {b \in Branches : known'.lastChecked[b] < known.lastChecked[b]}
  /\ UNCHANGED <<pushed, stateFile, reviewed, reviews, hourAgo, stops>>

-----------------------------------------------------------------------------
(***************************************************************************)
(* runGitWatcher.                                                          *)
(***************************************************************************)

\* Mutant: the review that fills the hour is not counted.
LimitedLate(stamps) == Cardinality({i \in stamps : i > hourAgo}) > MaxReviewsPerHour

\* isRateLimited.
RateLimited(stamps) == Cardinality({i \in stamps : i > hourAgo}) >= MaxReviewsPerHour

WatchStarts ==
  /\ job.at = "idle"
  /\ job' = Doing("branches", NoBranch, Branches, {})
  /\ UNCHANGED <<pushed, known, stateFile, reviewed, reviews, hourAgo, missed, back, stops>>

\* poll awaits git log.
WatchPolls(b) ==
  /\ job.at = "branches" /\ b \in job.branches /\ ~RateLimited(known.stamps)
  /\ job' = Doing("polling", b, job.branches \ {b}, {})
  /\ UNCHANGED <<pushed, known, stateFile, reviewed, reviews, hourAgo, missed, back, stops>>

\* What git log tells of the branch, ignored authors left out.
NewCommits(b) == {c \in Commits : known.lastChecked[b] < c /\ c =< pushed[b]} \ Ignored[b]

\* Mutant: the position goes to the first of them.
OldestOf(cs) == CHOOSE c \in cs : \A d \in cs : c =< d

LatestOf(cs) == CHOOSE c \in cs : \A d \in cs : d =< c

\* The position goes to the last commit before any is reviewed.
WatchLogs ==
  /\ job.at = "polling"
  /\ LET new == NewCommits(job.branch) IN
       /\ job' = Doing(IF new = {} THEN "branches" ELSE "commits", job.branch, job.branches, new)
       /\ known' = IF new = {} THEN known
                   ELSE [known EXCEPT !.lastChecked[job.branch] = LatestOf(new)]
  /\ UNCHANGED <<pushed, stateFile, reviewed, reviews, hourAgo, missed, back, stops>>

\* git log fails, for one because the commit was pushed away: the position is
\* reset to HEAD, and the state is saved.
WatchResets ==
  /\ job.at = "polling" /\ stops < MaxStops /\ stops' = stops + 1
  /\ \E head \in 0..pushed[job.branch] :
       known' = [known EXCEPT !.lastChecked[job.branch] = head]
  /\ stateFile' = Absent
  /\ back' = back \cup {b \in Branches : known'.lastChecked[b] < known.lastChecked[b]}
  /\ job' = Doing("resetting", job.branch, job.branches, {})
  /\ UNCHANGED <<pushed, reviewed, reviews, hourAgo, missed>>

\* The diff, the review, whatever it became, and the message: then it counts.
WatchReviews(c) ==
  /\ job.at = "commits" /\ c \in job.commits /\ c = OldestOf(job.commits)
  /\ ~RateLimited(known.stamps) /\ reviews < MaxReviews
  /\ reviews' = reviews + 1
  /\ reviewed' = [reviewed EXCEPT ![job.branch][c] = @ + 1]
  /\ known' = [known EXCEPT !.stamps = @ \cup {reviews + 1}]
  /\ job' = [job EXCEPT !.commits = @ \ {c}]
  /\ UNCHANGED <<pushed, stateFile, hourAgo, missed, back, stops>>

\* All are reviewed, or the rest is given up for the hour's limit.
WatchNext ==
  /\ job.at = "commits" /\ (job.commits = {} \/ RateLimited(known.stamps))
  /\ job' = Doing("branches", NoBranch, job.branches, {})
  /\ UNCHANGED <<pushed, known, stateFile, reviewed, reviews, hourAgo, missed, back, stops>>

\* persistState overwrites the file in place, ...
WatchSaves ==
  /\ job.at = "branches" /\ (job.branches = {} \/ RateLimited(known.stamps))
  /\ stateFile' = Absent
  /\ job' = Doing("saving", NoBranch, {}, {})
  /\ UNCHANGED <<pushed, known, reviewed, reviews, hourAgo, missed, back, stops>>

\* ... which ends the run, or the reset.
WatchSaved ==
  /\ job.at \in {"saving", "resetting"}
  /\ stateFile' = Saved(known)
  /\ job' = IF job.at = "saving" THEN Idle ELSE [job EXCEPT !.at = "branches"]
  /\ UNCHANGED <<pushed, known, reviewed, reviews, hourAgo, missed, back, stops>>

-----------------------------------------------------------------------------
(***************************************************************************)
(* The repository, the clock and crashes.                                  *)
(***************************************************************************)

Pushes(b) ==
  /\ pushed[b] < MaxCommits
  /\ pushed' = [pushed EXCEPT ![b] = @ + 1]
  /\ UNCHANGED <<known, stateFile, job, reviewed, reviews, hourAgo, missed, back, stops>>

\* The oldest review of the hour gets older than that.
ReviewAges ==
  /\ hourAgo < reviews /\ hourAgo' = hourAgo + 1
  /\ UNCHANGED <<pushed, known, stateFile, job, reviewed, reviews, missed, back, stops>>

WatcherDies ==
  /\ job.at # "down" /\ stops < MaxStops /\ stops' = stops + 1
  /\ job' = Down
  /\ UNCHANGED <<pushed, known, stateFile, reviewed, reviews, hourAgo, missed, back>>

GitNext ==
  \/ WatchInit \/ WatchStarts \/ WatchLogs \/ WatchResets \/ WatchNext \/ WatchSaves
  \/ WatchSaved \/ ReviewAges \/ WatcherDies
  \/ \E b \in Branches : WatchPolls(b) \/ Pushes(b)
  \/ \E c \in Commits : WatchReviews(c)

GitSpec == GitInit /\ [][GitNext]_gitVars

-----------------------------------------------------------------------------
(***************************************************************************)
(* Properties.                                                             *)
(***************************************************************************)

GitTypeOK ==
  /\ pushed \in [Branches -> 0..MaxCommits]
  /\ known.lastChecked \in [Branches -> 0..MaxCommits] /\ known.stamps \subseteq 1..reviews
  /\ stateFile.lastChecked \in [Branches -> 0..MaxCommits]
  /\ stateFile.stamps \subseteq 1..reviews /\ stateFile.ok \in BOOLEAN
  /\ job.at \in {"down", "idle", "branches", "polling", "commits", "resetting", "saving"}
  /\ job.branch \in Branches \cup {NoBranch} /\ job.branches \subseteq Branches
  /\ job.commits \subseteq Commits
  /\ reviewed \in [Branches -> [Commits -> Nat]] /\ back \subseteq Branches
  /\ reviews \in 0..MaxReviews /\ hourAgo \in 0..reviews /\ missed \subseteq 1..reviews
  /\ stops \in 0..MaxStops

\* No hour has more than maxReviewsPerHour reviews, but for those whose timestamps a
\* crash lost before they were saved, or with a torn file; and a commit is reviewed
\* again only where the position of its branch went back in a crash or a reset
\* (watcher.ts:9, 169).
ReviewsLimited ==
  /\ Cardinality({i \in 1..reviews : i > hourAgo} \ missed) =< MaxReviewsPerHour
  /\ \A b \in Branches \ back, c \in Commits : reviewed[b][c] =< 1
=============================================================================
