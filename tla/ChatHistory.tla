---------------------------- MODULE ChatHistory ----------------------------
(***************************************************************************)
(* ChatHistory (memory/history.ts and the job history-prune): the messages *)
(* of a channel in one file, which every append loads, extends, trims and  *)
(* writes back in place, as the daily pruning does.                        *)
(*                                                                         *)
(* Messages are numbered in the order in which their appends read the      *)
(* file.  An append adds its message at the end, so a file lists what it   *)
(* holds in this order, and is modelled as the set of its messages.        *)
(***************************************************************************)
EXTENDS Naturals, FiniteSets

CONSTANTS Messages,   \* messages of one channel, 1, 2, ...
          MaxEntries, \* MAX_ENTRIES_PER_CHANNEL (1000 in the code)
          MinKeep,    \* minKeep (500 in the code)
          Days,       \* bound on the clock, in units of maxAgeMs
          HistoryCrashes, \* bound on the crashes
          Torn        \* a file that is being written, or whose writing did not end

ASSUME HistoryAssumption ==
  /\ Messages \subseteq Nat \ {0} /\ IsFiniteSet(Messages)
  /\ \A entries \in SUBSET Messages : entries # Torn
  /\ MaxEntries \in Nat \ {0} /\ MinKeep \in 0..MaxEntries
  /\ Days \in Nat /\ HistoryCrashes \in Nat

VARIABLES
  history,   \* the file: messages, or Torn
  editor,    \* what each append and the pruning is doing
  text,      \* the entries each has loaded and changed
  written,   \* auxiliary: the messages that an append wrote
  sentOn,    \* the day of each message's timestamp
  day, dayCrashes,
  spoiled    \* auxiliary: two of them overlapped, the file was there but could not
             \* be read, or its writing broke off

historyVars == <<history, editor, text, written, sentOn, day, dayCrashes, spoiled>>

Editors == Messages \cup {0}    \* 0 is the pruning

HistoryInit ==
  /\ history = {}
  /\ editor = [m \in Editors |-> "idle"] /\ text = [m \in Editors |-> {}]
  /\ written = {} /\ sentOn = [m \in Messages |-> 0]
  /\ day = 0 /\ dayCrashes = 0 /\ spoiled = FALSE

Editing(m) == editor[m] \in {"loaded", "writing"}

\* Mutant: the oldest entries are kept.
Oldest(entries, n) == {m \in entries : Cardinality({k \in entries : k < m}) < n}

\* slice(-n)
Newest(entries, n) == {m \in entries : Cardinality({k \in entries : k > m}) < n}

\* loadChannel: a file that cannot be read or parsed loads as no history.
Loaded == {{}} \cup ({history} \ {Torn})

Edits(m, edited) ==
  /\ editor' = [editor EXCEPT ![m] = "loaded"]
  /\ text' = [text EXCEPT ![m] = edited]

Overlaps(m) == \E n \in Editors \ {m} : Editing(n)

\* append: the file is read, the message added, the oldest trimmed.  Appends may
\* overlap.  The timestamp is the platform's, or the present for a reply: the
\* messages are not in its order.
AppendMessage(m) ==
  /\ editor[m] = "idle" /\ \A n \in Messages : n < m => editor[n] # "idle"
  /\ \E d \in 0..day : sentOn' = [sentOn EXCEPT ![m] = d]
  /\ \E entries \in Loaded :
       /\ Edits(m, Newest(entries \cup {m}, MaxEntries))
       /\ spoiled' = (spoiled \/ Overlaps(m) \/ entries # history)
  /\ UNCHANGED <<history, written, day, dayCrashes>>

\* Younger than maxAgeMs.
Young(m) == sentOn[m] = day

Younger(entries) == {m \in entries : Young(m)}

\* These, or the newest minKeep if those are more.
Kept(entries) ==
  IF Cardinality(Younger(entries)) < MinKeep THEN Newest(entries, MinKeep) ELSE Younger(entries)

\* prune, when there is something to prune; of a file that it cannot read there is not.
Prune ==
  /\ editor[0] = "idle" /\ history # Torn
  /\ Cardinality(history) > MinKeep /\ Kept(history) # history
  /\ Edits(0, Kept(history))
  /\ spoiled' = (spoiled \/ Overlaps(0))
  /\ UNCHANGED <<history, written, sentOn, day, dayCrashes>>

\* saveChannel: the file is truncated, ...
Truncates(m) ==
  /\ editor[m] = "loaded"
  /\ editor' = [editor EXCEPT ![m] = "writing"]
  /\ history' = Torn
  /\ UNCHANGED <<text, written, sentOn, day, dayCrashes, spoiled>>

EditEnds(m) ==
  /\ editor' = [editor EXCEPT ![m] = IF m = 0 THEN "idle" ELSE "done"]
  /\ text' = [text EXCEPT ![m] = {}]

\* ... and written; over the longer text of another writer, it is not readable.
Writes(m) ==
  /\ editor[m] = "writing"
  /\ history' \in {text[m]} \cup IF history = Torn THEN {} ELSE {Torn}
  /\ EditEnds(m)
  /\ written' = written \cup ({m} \ {0})
  /\ UNCHANGED <<sentOn, day, dayCrashes, spoiled>>

\* saveChannel throws, before the file is truncated or after: append logs it, and
\* the message is in no file; the pruning fails.
WriteFails(m) ==
  /\ Editing(m)
  /\ EditEnds(m)
  /\ spoiled' = (spoiled \/ editor[m] = "writing")
  /\ UNCHANGED <<history, written, sentOn, day, dayCrashes>>

\* The daemon dies, with what was under way.
HistoryCrash ==
  /\ dayCrashes < HistoryCrashes /\ dayCrashes' = dayCrashes + 1
  /\ spoiled' = (spoiled \/ history = Torn)
  /\ editor' = [m \in Editors |-> IF Editing(m) THEN IF m = 0 THEN "idle" ELSE "done"
                                  ELSE editor[m]]
  /\ text' = [m \in Editors |-> {}]
  /\ UNCHANGED <<history, written, sentOn, day>>

HistoryDay ==
  /\ day < Days /\ day' = day + 1
  /\ UNCHANGED <<history, editor, text, written, sentOn, dayCrashes, spoiled>>

HistoryNext ==
  \/ \E m \in Messages : AppendMessage(m)
  \/ \E m \in Editors : Truncates(m) \/ Writes(m) \/ WriteFails(m)
  \/ Prune \/ HistoryDay \/ HistoryCrash

HistorySpec == HistoryInit /\ [][HistoryNext]_historyVars

-----------------------------------------------------------------------------

HistoryTypeOK ==
  /\ history = Torn \/ history \in SUBSET Messages
  /\ editor \in [Editors -> {"idle", "loaded", "writing", "done"}]
  /\ \A m \in Editors : text[m] \in SUBSET Messages
  /\ written \in SUBSET Messages /\ sentOn \in [Messages -> 0..Days]
  /\ day \in 0..Days /\ dayCrashes \in 0..HistoryCrashes /\ spoiled \in BOOLEAN

\* MaxEntries newer messages were written, ...
TrimmedFrom(all, m) == Cardinality({n \in all : n > m}) >= MaxEntries

\* ... or it, or one that was written after it, is too old and MinKeep others are left.
PrunedFrom(all, entries, m) ==
  Cardinality(entries) >= MinKeep /\ \E n \in all : n >= m /\ ~Young(n)

\* Of all that was written, these entries lack only what was trimmed or pruned.
Recent(entries, all) ==
  /\ entries \subseteq all
  /\ \A m \in all \ entries : TrimmedFrom(all, m) \/ PrunedFrom(all, entries, m)

\* Unless two of them overlapped, a file that was there could not be read, or its
\* writing broke off, the file lists what was ever written, but what was trimmed at
\* the size limit, or pruned with MinKeep left: "entries older than maxAgeMs"
\* (history.ts:39, 83), and also entries that are not, if what came after them is.
HistoryIsRecent ==
  ~spoiled /\ (\A m \in Editors : editor[m] # "writing") =>
    history # Torn /\ Recent(history, written)
=============================================================================
