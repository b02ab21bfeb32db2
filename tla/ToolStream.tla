----------------------------- MODULE ToolStream -----------------------------
(***************************************************************************)
(* Live tool output: a bridge streams what a command prints, the server    *)
(* keeps a capped buffer per command and passes the output on to the apps  *)
(* that have the conversation on screen, through one pending slot per      *)
(* command and app that a timer flushes.  Nothing of it is journalled: a   *)
(* buffer dies with the durable event that holds the whole output, with    *)
(* the bridge's socket, of old age, or to make room.                       *)
(*                                                                         *)
(* What a command prints never changes, so a chunk is the interval of      *)
(* positions it covers.  One conversation.  An app's socket delivers in    *)
(* order, so a frame takes effect at the app when it is written.           *)
(***************************************************************************)
EXTENDS Integers, Sequences, FiniteSets, SequencesExt

CONSTANTS
    Refs,        \* commands (message_ref)
    Apps,        \* connections of apps
    Socks,       \* connections of bridges
    MaxBytes,    \* cap of one buffer
    MaxBuffers,  \* cap of the store
    MaxLen       \* bound of the model: what a command prints

ASSUME ToolStreamAssumption ==
    /\ MaxBytes \in Nat \ {0}
    /\ MaxBuffers \in Nat \ {0}
    /\ MaxLen \in Nat

VARIABLES
    buf,    \* the store: of each buffered command, what is held and by whom
    order,  \* the buffered commands, the longest idle first
    open,   \* open sockets of bridges
    view,   \* apps with the conversation on screen
    slot,   \* each app's pending frame for each command
    timer,  \* apps whose flush is scheduled
    over,   \* what each app shows for each command
    fed,    \* history: who last extended a command's buffer
    hasty   \* history: apps that came back before a slot of their last visit was flushed

streamVars == <<buf, order, open, view, slot, timer, over, fed, hasty>>

-----------------------------------------------------------------------------
(* Frames and overlays.                                                    *)

Nothing == [event |-> "none", from |-> 0, to |-> 0]
End == [event |-> "end", from |-> 0, to |-> 0]
Output(from, to) == [event |-> "append", from |-> from, to |-> to]

Screen(state) == [state |-> state, from |-> 0, to |-> 0]
Running(from, to) == [state |-> "live", from |-> from, to |-> to]

Frame == [event : {"none", "end", "append"}, from : Nat, to : Nat]
Overlay == [state : {"none", "live", "lost", "ended", "retired"}, from : Nat, to : Nat]
Buffer == [start : Nat, end : Nat, owner : Socks]

StreamTypeOK ==
    /\ DOMAIN buf \subseteq Refs
    /\ \A r \in DOMAIN buf : buf[r] \in Buffer /\ buf[r].end - buf[r].start \in 1 .. MaxBytes
    /\ Cardinality(DOMAIN buf) <= MaxBuffers
    /\ order \in Seq(Refs) /\ ToSet(order) = DOMAIN buf
    /\ open \subseteq Socks
    /\ view \subseteq Apps
    /\ slot \in [Apps -> [Refs -> Frame]]
    /\ timer \subseteq Apps
    /\ over \in [Apps -> [Refs -> Overlay]]
    /\ fed \in [Refs -> Socks]
    /\ hasty \subseteq Apps

\* Slip: an ephemeral replaces the pending one, as overlays of text do.
MergeLatest(prev, frame) == frame

\* mergeEphemeral: output that continues the pending output is joined to it,
\* and anything else takes its place.
Merge(prev, frame) ==
    IF prev.event = "append" /\ frame.event = "append" /\ prev.to = frame.from
    THEN Output(prev.from, frame.to)
    ELSE frame

\* The app's side of docs/protocol.md: it trims what it has, asks again when
\* something is missing, and ignores a command whose event it has.
Shown(o, f) ==
    CASE f.event = "none" \/ o.state = "retired" -> o
      [] f.event = "end" /\ o.state # "retired" -> Screen("ended")
      [] f.event = "append" /\ o.state = "live" /\ f.from <= o.to ->
            Running(o.from, IF o.to < f.to THEN f.to ELSE o.to)
      [] f.event = "append" /\ o.state \in {"none", "ended"} /\ f.from = 0 -> Running(0, f.to)
      [] OTHER -> Screen("lost")

\* Slip: the test for a scheduled flush is inverted.
FanUntimed(frames) ==
    /\ slot' = [a \in Apps |-> [r \in Refs |->
                    IF a \in view /\ r \in DOMAIN frames
                    THEN Merge(slot[a][r], frames[r]) ELSE slot[a][r]]]
    /\ UNCHANGED timer

\* sendEphemeral of a frame for each command in `frames`, to who is watching.
Fan(frames) ==
    /\ slot' = [a \in Apps |-> [r \in Refs |->
                    IF a \in view /\ r \in DOMAIN frames
                    THEN Merge(slot[a][r], frames[r]) ELSE slot[a][r]]]
    /\ timer' = IF frames = <<>> THEN timer ELSE timer \cup view

\* notifyStale
Ends(refs) == [r \in refs |-> End]

Without(f, refs) == [r \in DOMAIN f \ refs |-> f[r]]
\* What is left of an order without these.
Removed(seq, refs) ==
    LET left[i \in 0 .. Len(seq)] ==
            IF i = 0 THEN <<>>
            ELSE IF seq[i] \in refs THEN left[i - 1] ELSE Append(left[i - 1], seq[i])
    IN left[Len(seq)]

-----------------------------------------------------------------------------
(* The bridge streams.  It may resend and its sockets may overlap, so any  *)
(* part of the output can arrive at any time; a chunk that would leave a   *)
(* gap is answered with stream_resync, one that brings nothing new is      *)
(* dropped, and neither changes anything.                                  *)

\* dropHead, characters being one byte wide.
Held(start, end) == IF end - start > MaxBytes THEN end - MaxBytes ELSE start

\* evictOldest, as often as it takes to leave room for one more.
Evicted ==
    LET n == Len(order) - MaxBuffers + 1 IN IF n > 0 THEN ToSet(SubSeq(order, 1, n)) ELSE {}

\* append, of a command the store does not have.
Create(s, r, to) ==
    /\ s \in open /\ r \notin DOMAIN buf
    /\ buf' = [q \in (DOMAIN buf \ Evicted) \cup {r} |->
                IF q = r THEN [start |-> Held(0, to), end |-> to, owner |-> s] ELSE buf[q]]
    /\ order' = Append(Removed(order, Evicted), r)
    /\ Fan([q \in Evicted \cup {r} |-> IF q = r THEN Output(0, to) ELSE End])
    /\ fed' = [fed EXCEPT ![r] = s]
    /\ UNCHANGED <<open, view, over, hasty>>

\* Slip: the buffer stays with the connection that opened it.
OwnerFirst(b, s) == b.owner

\* Re-homed to the producer that streams now.
Owner(b, s) == s

\* append: what the buffer holds already is cut off the chunk.
Extend(s, r, from, to) ==
    /\ s \in open /\ r \in DOMAIN buf
    /\ from <= buf[r].end /\ buf[r].end < to
    /\ buf' = [buf EXCEPT ![r] = [start |-> Held(@.start, to), end |-> to, owner |-> Owner(@, s)]]
    /\ order' = Append(Removed(order, {r}), r)
    /\ Fan([q \in {r} |-> Output(buf[r].end, to)])
    /\ fed' = [fed EXCEPT ![r] = s]
    /\ UNCHANGED <<open, view, over, hasty>>

\* The handler of stream_append.
StreamAppend(s, r, from, to) ==
    \/ from = 0 /\ Create(s, r, to)
    \/ Extend(s, r, from, to)

\* The durable event goes to every app at once, past the pending slots, and the
\* buffer is freed without a word.
Finalize(s, r) ==
    /\ s \in open
    /\ over' = [a \in Apps |-> [over[a] EXCEPT ![r] = Screen("retired")]]
    /\ buf' = Without(buf, {r})
    /\ order' = Removed(order, {r})
    /\ UNCHANGED <<open, view, slot, timer, fed, hasty>>

\* Slip: viewers are not told.
FreeQuietly(refs) ==
    /\ buf' = Without(buf, refs)
    /\ order' = Removed(order, refs)
    /\ UNCHANGED <<slot, timer>>

\* Buffers freed without a durable event, with an end frame to who is watching.
Free(refs) ==
    /\ buf' = Without(buf, refs)
    /\ order' = Removed(order, refs)
    /\ Fan(Ends(refs))

\* sweepIdle: some of the longest idle are past the limit.
SweepIdle ==
    /\ order # <<>>
    /\ \E n \in 1 .. Len(order) : Free(ToSet(SubSeq(order, 1, n)))
    /\ UNCHANGED <<open, view, over, fed, hasty>>

\* The producer's socket closes: its streams end.
Close(s) ==
    /\ s \in open
    /\ open' = open \ {s}
    /\ Free({r \in DOMAIN buf : buf[r].owner = s})
    /\ UNCHANGED <<view, over, fed, hasty>>

\* The bridge connects, while its earlier socket may linger.
Connect(s) ==
    /\ s \notin open
    /\ open' = open \cup {s}
    /\ UNCHANGED <<buf, order, view, slot, timer, over, fed, hasty>>

-----------------------------------------------------------------------------
(* The apps.                                                               *)

\* A sync frame per buffer, written at once.
Synced(a) ==
    [r \in Refs |-> IF r \in DOMAIN buf /\ over[a][r].state # "retired"
                    THEN Running(buf[r].start, buf[r].end) ELSE over[a][r]]

\* Slip: starting to watch sends no scrollback.
ViewUnsynced(a) ==
    /\ a \notin view
    /\ view' = view \cup {a}
    /\ hasty' = IF a \in timer THEN hasty \cup {a} ELSE hasty \ {a}
    /\ UNCHANGED <<buf, order, open, slot, timer, over, fed>>

\* `viewing` with the conversation added.
View(a) ==
    /\ a \notin view
    /\ view' = view \cup {a}
    /\ over' = [over EXCEPT ![a] = Synced(a)]
    /\ hasty' = IF a \in timer THEN hasty \cup {a} ELSE hasty \ {a}
    /\ UNCHANGED <<buf, order, open, slot, timer, fed>>

\* `viewing` sent again by an app that misses something.
Resync(a) ==
    /\ a \in view
    /\ \E r \in Refs : over[a][r].state = "lost"
    /\ over' = [over EXCEPT ![a] = Synced(a)]
    /\ UNCHANGED <<buf, order, open, view, slot, timer, fed, hasty>>

\* An app keeps of the conversations off screen only what is durable.
Dropped(a) == [r \in Refs |-> IF over[a][r].state = "retired" THEN over[a][r] ELSE Screen("none")]

\* `viewing` without the conversation.  Pending slots stay.
Leave(a) ==
    /\ a \in view
    /\ view' = view \ {a}
    /\ over' = [over EXCEPT ![a] = Dropped(a)]
    /\ UNCHANGED <<buf, order, open, slot, timer, fed, hasty>>

\* The app's connection is replaced: unregister drops its slots and its timer.
Reconnect(a) ==
    /\ a \in view \cup timer
    /\ view' = view \ {a}
    /\ over' = [over EXCEPT ![a] = Dropped(a)]
    /\ slot' = [slot EXCEPT ![a] = [r \in Refs |-> Nothing]]
    /\ timer' = timer \ {a}
    /\ UNCHANGED <<buf, order, open, fed, hasty>>

\* The coalescing timer fires.  An app has no use for a frame of a conversation
\* that is not on its screen.
Flush(a) ==
    /\ a \in timer
    /\ over' = IF a \notin view THEN over
                ELSE [over EXCEPT ![a] = [r \in Refs |-> Shown(over[a][r], slot[a][r])]]
    /\ slot' = [slot EXCEPT ![a] = [r \in Refs |-> Nothing]]
    /\ timer' = timer \ {a}
    /\ UNCHANGED <<buf, order, open, view, fed, hasty>>

-----------------------------------------------------------------------------
StreamInit ==
    /\ buf = <<>> /\ order = <<>>
    /\ open = {} /\ view = {} /\ timer = {} /\ hasty = {}
    /\ slot = [a \in Apps |-> [r \in Refs |-> Nothing]]
    /\ over = [a \in Apps |-> [r \in Refs |-> Screen("none")]]
    /\ fed \in [Refs -> Socks]

StreamNext ==
    \/ \E s \in Socks : \/ Connect(s) \/ Close(s)
                        \/ \E r \in Refs : \/ Finalize(s, r)
                                           \/ \E from \in 0 .. MaxLen - 1 : \E to \in from + 1 .. MaxLen :
                                                StreamAppend(s, r, from, to)
    \/ SweepIdle
    \/ \E a \in Apps : View(a) \/ Resync(a) \/ Leave(a) \/ Reconnect(a) \/ Flush(a)

\* A timer fires, and an app that misses something asks for it.
StreamFairness == \A a \in Apps : WF_streamVars(Flush(a)) /\ WF_streamVars(Resync(a))

StreamSpec == StreamInit /\ [][StreamNext]_streamVars /\ StreamFairness

-----------------------------------------------------------------------------
(* What must hold.                                                         *)

\* What the app will show of r once its slot is flushed.
Final(a, r) == Shown(over[a][r], slot[a][r])

\* While an app watches, it holds or is about to get the output of every
\* buffered command, without a hole and up to the end of the buffer, whatever
\* scrollback it started with, wherever chunks were joined or trimmed, and
\* whether or not the buffer was lost and started again (tool-stream.js append,
\* hub.js mergeEphemeral, the catch-up of `viewing`).
WatcherHasItAll ==
    \A a \in view \ hasty : \A r \in DOMAIN buf :
        over[a][r].state # "retired" =>
            Final(a, r).state = "live" /\ Final(a, r).to >= buf[r].end

\* No app is left with a terminal that seems to run: when there is no buffer, an
\* end frame is on its way to whoever still shows it (ws.js notifyStale).
NoTerminalOutlives ==
    \A a \in view \ hasty : \A r \in Refs \ DOMAIN buf : Final(a, r).state # "live"

\* A socket that closes takes along the streams it was feeding and no others: a
\* bridge that went on over a second socket loses nothing when the first one
\* dies late, and no stream is left without a producer (closeForProducer).
CloseTakesItsOwn ==
    [][\A s \in open \ open' :
          \A r \in DOMAIN buf : r \in DOMAIN buf' <=> fed[r] # s]_streamVars

\* A watcher is not behind a live stream for ever.
Behind(a, r) ==
    /\ a \in view /\ r \in DOMAIN buf
    /\ over[a][r].state \notin {"retired", "ended"}
    /\ ~(over[a][r].state = "live" /\ over[a][r].to >= buf[r].end)

\* The pending output reaches the screen: nothing waits for ever in a slot whose
\* timer is not running, and an app that found a hole gets it filled.
WatcherCatchesUp == \A a \in Apps, r \in Refs : []<>~Behind(a, r)

\* Both together: what a watcher sees is what the journal holds.
WatcherSeesTruth == StreamTypeOK /\ WatcherHasItAll /\ NoTerminalOutlives

\* Both together: a stream lasts as long as its producer and reaches who watches.
WatcherServed == WatcherCatchesUp /\ CloseTakesItsOwn

=============================================================================
