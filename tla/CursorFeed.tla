----------------------------- MODULE CursorFeed -----------------------------
(***************************************************************************)
(* What the journal promises the readers of one user's log, with no        *)
(* sockets, batches or hubs in sight.  Events are numbered 1..head without *)
(* a gap.  A reader holds one number, the seq of the last event it         *)
(* applied, and moves it forward one event at a time: nothing skipped,     *)
(* nothing applied twice, nothing out of order.  The only way past an      *)
(* event it has not applied is a jump to the head, which a reader may make *)
(* when it is new (it starts from the head) or after the journal has told  *)
(* it that it is too far behind to be replayed (it fetches a snapshot).    *)
(***************************************************************************)
EXTENDS Naturals

CONSTANT Readers

VARIABLES
    head,   \* seq of the newest event of the user
    pos,    \* seq of the last event each reader applied
    stale   \* the reader was told to fetch a snapshot

vars == <<head, pos, stale>>

Init ==
    /\ head = 0
    /\ pos = [r \in Readers |-> 0]
    /\ stale = [r \in Readers |-> FALSE]

\* Somebody writes: one operation appends one event or a few.
Grow ==
    /\ head' \in Nat
    /\ head' > head
    /\ UNCHANGED <<pos, stale>>

\* A reader applies the next event, and exactly that one.
Advance(r) ==
    /\ ~stale[r]
    /\ pos[r] < head
    /\ pos' = [pos EXCEPT ![r] = @ + 1]
    /\ UNCHANGED <<head, stale>>

\* A reader that is behind is told not to wait for a replay.
Refuse(r) ==
    /\ pos[r] < head
    /\ stale' = [stale EXCEPT ![r] = TRUE]
    /\ UNCHANGED <<head, pos>>

\* The snapshot, or the first connection of a new reader.
Jump(r) ==
    /\ stale[r] \/ pos[r] = 0
    /\ pos' = [pos EXCEPT ![r] = head]
    /\ stale' = [stale EXCEPT ![r] = FALSE]
    /\ UNCHANGED head

Next == Grow \/ \E r \in Readers : Advance(r) \/ Refuse(r) \/ Jump(r)

Spec == Init /\ [][Next]_vars
=============================================================================
