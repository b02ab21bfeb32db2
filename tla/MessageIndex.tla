---------------------------- MODULE MessageIndex ----------------------------
(* The word index of the messages: fed live by append (journal.js), filled   *)
(* for the history before it by one walk and mended by another when the      *)
(* is_diff column came later (search.js), both batch by batch beside live    *)
(* appends, with cursors that outlive the process; old content of a device   *)
(* is taken out of it again (retention.js, runExpireDeviceContent).          *)
EXTENDS Integers, Sequences

CONSTANTS
  WalkBatch, \* events per batch of a walk
  MaxEvents  \* bound: the log

ASSUME MessageAssumption == WalkBatch \in Nat \ {0} /\ MaxEvents \in Nat

\* What indexableBody sees of an event: prose, a diff, neither.
EventKinds == {"text", "diff", "none"}

VARIABLES
  events,   \* their kinds, by rowid; "gone" once the content expired
  index,    \* search_messages: is_diff of the events it has
  filled,   \* search_backfill_state
  mended,   \* search_isdiff_state
  walk      \* what the process is at: "off", "fill", "mend", "rest", "done"

messageVars == <<events, index, filled, mended, walk>>

LastRow == Len(events)
Indexed == {n \in 1 .. MaxEvents : index[n] # "no"}
Searchable(n) == events[n] \in {"text", "diff"}
Flag(n) == IF events[n] = "diff" THEN "diff" ELSE "plain"

----------------------------------------------------------------------------
(* What an earlier release left, and openDb.                                *)

Histories == UNION {[1 .. n -> EventKinds] : n \in 0 .. MaxEvents}

\* No index yet; or one without the column, filled up to f and live from l on.
NoIndex == [n \in 1 .. MaxEvents |-> "no"]
OldIndex(f, l) == [n \in 1 .. MaxEvents |->
  IF n <= LastRow /\ (n <= f \/ n > l) /\ Searchable(n) THEN "plain" ELSE "no"]

\* Where the second walk starts: nowhere if the table is new.  Slip: nowhere.
AtHead(hadTable) == LastRow
Seed(hadTable) == IF hadTable THEN 0 ELSE LastRow

MessagesInit ==
  /\ events \in Histories
  /\ \/ filled = 0 /\ index = NoIndex /\ mended = Seed(FALSE)
     \/ \E l \in 0 .. LastRow : \E f \in 0 .. LastRow :
          (f <= l \/ f = LastRow) /\ filled = f /\ index = OldIndex(f, l) /\ mended = Seed(TRUE)
  /\ walk = "off"

----------------------------------------------------------------------------
\* append: the row and its entry in one transaction.
AppendMessage(kind) ==
  /\ LastRow < MaxEvents
  /\ events' = Append(events, kind)
  /\ index' = [index EXCEPT ![LastRow + 1] =
       IF kind = "none" THEN "no" ELSE IF kind = "diff" THEN "diff" ELSE "plain"]
  /\ UNCHANGED <<filled, mended, walk>>

\* The walks start after the boot, one after the other.
StartWalks == walk = "off" /\ walk' = "fill" /\ UNCHANGED <<events, index, filled, mended>>

Ceiling(from) == IF from + WalkBatch < LastRow THEN from + WalkBatch ELSE LastRow

\* backfillSearchIndex: one batch and its cursor, INSERT OR IGNORE.
\* Slip: the flag is left to the other walk.
Unflagged(n) == "plain"
Entry(n) == Flag(n)
FillBatch ==
  /\ walk = "fill" /\ filled < LastRow
  /\ index' = [n \in 1 .. MaxEvents |->
       IF n \in filled + 1 .. Ceiling(filled) /\ Searchable(n) /\ index[n] = "no"
       THEN Entry(n) ELSE index[n]]
  /\ filled' = Ceiling(filled)
  /\ UNCHANGED <<events, mended, walk>>

\* It fails: the second walk runs all the same.
FillFails == walk = "fill" /\ walk' = "rest" /\ UNCHANGED <<events, index, filled, mended>>

\* backfillIsDiff: updates only, of what is there.
MendBatch ==
  /\ walk \in {"mend", "rest"} /\ mended < LastRow
  /\ index' = [n \in 1 .. MaxEvents |->
       IF n \in mended + 1 .. Ceiling(mended) /\ index[n] # "no" /\ events[n] = "diff"
       THEN "diff" ELSE index[n]]
  /\ mended' = Ceiling(mended)
  /\ UNCHANGED <<events, filled, walk>>

\* A walk that finds no more rows ends; the next one follows.
EndWalk ==
  /\ \/ walk = "fill" /\ filled >= LastRow /\ walk' = "mend"
     \/ walk = "mend" /\ mended >= LastRow /\ walk' = "done"
     \/ walk = "rest" /\ mended >= LastRow /\ walk' = "off"
  /\ UNCHANGED <<events, index, filled, mended>>

\* The walks stop between two batches, or the process dies: what was committed
\* stays.
StopWalks ==
  /\ walk # "off" /\ walk' = "off"
  /\ UNCHANGED <<events, index, filled, mended>>

\* runExpireDeviceContent: the words go from the event and from the index.
\* Slip: the index keeps them.
KeptEntry(n) == index[n]
Removed(n) == "no"
ForgetContent(n) ==
  /\ n <= LastRow /\ events[n] # "gone"
  /\ events' = [events EXCEPT ![n] = "gone"]
  /\ index' = [index EXCEPT ![n] = Removed(n)]
  /\ UNCHANGED <<filled, mended, walk>>

MessagesNext ==
  \/ \E kind \in EventKinds : AppendMessage(kind)
  \/ \E n \in 1 .. MaxEvents : ForgetContent(n)
  \/ StartWalks \/ FillBatch \/ FillFails \/ MendBatch \/ EndWalk \/ StopWalks

----------------------------------------------------------------------------
\* The index never has words the log does not have any more, and once both
\* walks have ended it has every message with prose or a diff, told apart,
\* whatever release wrote the database, however often the walks were cut short
\* and whatever was appended or expired meanwhile.
MessagesFound ==
  /\ \A n \in Indexed : n <= LastRow /\ Searchable(n)
  /\ walk = "done" => \A n \in 1 .. LastRow : Searchable(n) => index[n] = Flag(n)
=============================================================================
