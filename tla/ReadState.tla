----------------------------- MODULE ReadState -----------------------------
(***************************************************************************)
(* What the journal derives from one user's events and keeps next to them: *)
(* the unread badge and the head of each conversation, and what the user   *)
(* has seen.  Each is updated by a handler that reads and writes several   *)
(* tables in one transaction, so an action is a whole handler; what can go *)
(* wrong is that a long sequence of them lets a derived value drift from   *)
(* the events it is derived from.                                          *)
(*                                                                         *)
(* Delivery of the events is the business of JournalSync.  Seqs are dense  *)
(* (no event is ever deleted), so an event's seq is its place in the log.  *)
(***************************************************************************)
EXTENDS Integers, Sequences, FiniteSets

CONSTANTS
    Convos,    \* conversations of the user
    Children,  \* ... those with a parent: sub-chats mirrored by a bridge
    Clients,   \* the user's apps
    Agents,    \* bridges
    Newest,    \* the read marker's `up_to_seq: null`
    MaxSeq     \* bound of the model: events in the log

ASSUME ReadStateAssumption ==
    /\ Children \subseteq Convos
    /\ Clients \cap Agents = {}
    /\ MaxSeq \in Nat
    /\ Newest \notin Nat

VARIABLES
    log,       \* the table `events`, in seq order
    last_seq,  \* conversations.last_seq
    unread,    \* conversations.unread_count
    ranges,    \* seen_ranges of each conversation: pairs of seqs
    reporter,  \* seen_devices: apps that report ranges
    reported   \* history: the seqs an app said the user saw, once they existed

readVars == <<log, last_seq, unread, ranges, reporter, reported>>

-----------------------------------------------------------------------------
(* Events.  "content" is what a person reads (UNSEEN_TYPES), "work" the    *)
(* other MESSAGE_TYPES (tool output, diffs, peer messages), "marker" a     *)
(* read_marker and "note" everything else, the answer to a prompt          *)
(* included: no query below looks at the sender of a note or a marker.     *)

Event == [convo : Convos, kind : {"content", "work", "marker", "note"},
          user : BOOLEAN,          \* a message with sender LIKE 'user:%'
          upto : Nat]              \* of a marker

IsMessage(e) == e.kind \in {"content", "work"}

\* Counted by the badge.
Counts(e) == IsMessage(e) /\ ~e.user

\* Raised with the user until seen.
Raised(e) == e.kind = "content" /\ ~e.user

ReadTypeOK ==
    /\ log \in Seq(Event)
    /\ last_seq \in [Convos -> Nat]
    /\ unread \in [Convos -> Nat]
    /\ ranges \in [Convos -> SUBSET (Nat \X Nat)]
    /\ reporter \subseteq Clients
    /\ reported \in [Convos -> SUBSET Nat]

NewEvent(c, kind, user) == [convo |-> c, kind |-> kind, user |-> user, upto |-> 0]
NewMarker(c, upto) == [NewEvent(c, "marker", FALSE) EXCEPT !.upto = upto]

\* Slip: the badge of a sub-chat counts like any other.
AppendLoudChildren(e) ==
    /\ Len(log) < MaxSeq
    /\ log' = Append(log, e)
    /\ last_seq' = [last_seq EXCEPT ![e.convo] = Len(log) + 1]
    /\ unread' = [unread EXCEPT ![e.convo] = IF Counts(e) THEN @ + 1 ELSE @]

\* journal.js append: the event, the conversation's head, and the badge, which
\* neither the user's own messages nor a sub-chat ever raise.
AppendEvent(e) ==
    /\ Len(log) < MaxSeq
    /\ log' = Append(log, e)
    /\ last_seq' = [last_seq EXCEPT ![e.convo] = Len(log) + 1]
    /\ unread' = [unread EXCEPT ![e.convo] =
                    IF Counts(e) /\ e.convo \notin Children THEN @ + 1 ELSE @]

-----------------------------------------------------------------------------
(* Read state.                                                             *)

\* Slip: the first seq of the gap is not looked at.
GapButFirst(c, lo, hi) ==
    ~ \E n \in lo + 2 .. hi - 1 : log[n].convo = c /\ Raised(log[n])

\* gapIsEmpty: nothing to raise strictly between the two seqs.
GapIsEmpty(c, lo, hi) ==
    ~ \E n \in lo + 1 .. hi - 1 : log[n].convo = c /\ Raised(log[n])

\* Slip: ranges are stored as they were sent.
ClippedNot(rs, top) == rs

\* A range past the head of the conversation is dropped, or cut.
Clipped(rs, top) ==
    {<<r[1], IF r[2] < top THEN r[2] ELSE top>> : r \in {x \in rs : x[1] <= top}}

\* Slip: a merged range ends where the last range it swallowed ends.
CoalescedShort(c, rs) ==
    LET starts == {f \in {r[1] : r \in rs} :
                     \A r \in rs : r[1] < f => r[2] + 1 < f /\ ~GapIsEmpty(c, r[2], f)}
        group(f) == {r \in rs : r[1] >= f /\ ~ \E g \in starts : f < g /\ g <= r[1]}
        final(f) == CHOOSE r \in group(f) : \A x \in group(f) : x[1] <= r[1]
    IN  {<<f, final(f)[2]>> : f \in starts}

\* The merge loop of addSeenRanges over the ranges sorted by their start.  A
\* range opens a group unless it touches, or is only an empty gap away from,
\* what came before; each group becomes one range.
Coalesced(c, rs) ==
    LET starts == {f \in {r[1] : r \in rs} :
                     \A r \in rs : r[1] < f => r[2] + 1 < f /\ ~GapIsEmpty(c, r[2], f)}
        group(f) == {r \in rs : r[1] >= f /\ ~ \E g \in starts : f < g /\ g <= r[1]}
        end(f) == CHOOSE n \in {r[2] : r \in group(f)} : \A r \in group(f) : r[2] <= n
    IN  {<<f, end(f)>> : f \in starts}

\* addSeenRanges, with the conversation's head `top`.
SeenAfter(c, rs, top) ==
    LET add == Clipped(rs, top)
    IN  IF add = {} THEN ranges[c] ELSE Coalesced(c, ranges[c] \cup add)

\* The seqs of a set of ranges that are in the log.
Existing(rs, top) == {n \in 1 .. top : \E r \in rs : r[1] <= n /\ n <= r[2]}

-----------------------------------------------------------------------------
(* Operations.                                                             *)

\* op `send`: sub-chats are read-only to the apps.
Send(c) ==
    /\ c \notin Children
    /\ AppendEvent(NewEvent(c, "content", TRUE))
    /\ UNCHANGED <<ranges, reporter, reported>>

\* op `publish`, and what the journal writes itself.
Publish(c, kind) ==
    /\ kind \in {"content", "work", "note"}
    /\ AppendEvent(NewEvent(c, kind, FALSE))
    /\ UNCHANGED <<ranges, reporter, reported>>

\* The recount in markRead.
Recount(c, upto) ==
    Cardinality({n \in DOMAIN log : log[n].convo = c /\ n > upto /\ Counts(log[n])})

\* Slip: an app that reports ranges is taken at its marker's word too.
LegacyAlways(d, upto) == upto >= 1 /\ d \in Clients

\* legacyReadAsSeen: the marker of an app that never reported ranges.
Legacy(d, upto) == upto >= 1 /\ d \in Clients \ reporter

\* op `read_marker` from an app, or from a bridge for its user: markRead, then
\* the fallback for apps that do not report ranges.  `mark` is not clamped: it
\* may lie beyond the head, or behind an earlier marker.
ReadMarker(d, c, mark) ==
    LET upto == IF mark = Newest THEN last_seq[c] ELSE mark
        n    == Len(log) + 1
    IN  /\ Len(log) < MaxSeq
        /\ log' = Append(log, NewMarker(c, upto))
        /\ last_seq' = [last_seq EXCEPT ![c] = n]
        /\ unread' = [unread EXCEPT ![c] = IF c \in Children THEN @ ELSE Recount(c, upto)]
        /\ ranges' = IF Legacy(d, upto)
                     THEN [ranges EXCEPT ![c] = SeenAfter(c, {<<1, upto>>}, n)]
                     ELSE ranges
        /\ reported' = IF d \in Clients \ reporter
                       THEN [reported EXCEPT ![c] = @ \cup Existing({<<1, upto>>}, Len(log))]
                       ELSE reported
        /\ UNCHANGED reporter

\* op `seen`: the first one, even empty, ends the fallback for this app.
Seen(d, c, rs) ==
    /\ reporter' = reporter \cup {d}
    /\ ranges' = [ranges EXCEPT ![c] = SeenAfter(c, rs, last_seq[c])]
    /\ reported' = [reported EXCEPT ![c] = @ \cup Existing(rs, Len(log))]
    /\ UNCHANGED <<log, last_seq, unread>>

-----------------------------------------------------------------------------
ReadInit ==
    /\ log = <<>>
    /\ last_seq = [c \in Convos |-> 0]
    /\ unread = [c \in Convos |-> 0]
    /\ ranges = [c \in Convos |-> {}]
    /\ reporter = {}
    /\ reported = [c \in Convos |-> {}]

\* Marks and ranges a device may send: up to one seq beyond the log, and beyond
\* the event that a marker appends.
Marks == 0 .. Len(log) + 2
Ranges == {r \in (1 .. Len(log) + 1) \X (1 .. Len(log) + 1) : r[1] <= r[2]}

ReadNext ==
    \E c \in Convos :
        \/ Send(c)
        \/ \E kind \in {"content", "work", "note"} : Publish(c, kind)
        \/ \E d \in Clients \cup Agents, mark \in Marks \cup {Newest} : ReadMarker(d, c, mark)
        \/ \E d \in Clients, rs \in {{}} \cup {{r} : r \in Ranges} : Seen(d, c, rs)

ReadSpec == ReadInit /\ [][ReadNext]_readVars

-----------------------------------------------------------------------------
(* Properties.                                                             *)

Markers(c) == {n \in DOMAIN log : log[n].convo = c /\ log[n].kind = "marker"}

\* The badge of a conversation is the number of messages from others after
\* the newest read marker's place: after `up_to_seq`, but never later than the
\* marker itself, so that a marker set beyond the head hides nothing to come.
\* A sub-chat has no badge.
BadgeAgreesWithLog ==
    \A c \in Convos :
        LET newest == {m \in Markers(c) : \A x \in Markers(c) : x <= m}
            read(n) == \E m \in newest : n < m /\ n <= log[m].upto
        IN  /\ unread[c] = IF c \in Children THEN 0
                           ELSE Cardinality({n \in DOMAIN log :
                                  log[n].convo = c /\ Counts(log[n]) /\ ~read(n)})
            /\ \A n \in DOMAIN log : log[n].convo = c => n <= last_seq[c]

Covered(c, n) == \E r \in ranges[c] : r[1] <= n /\ n <= r[2]

\* A message leaves the list of what to raise with the user only because an
\* app reported it, when it already existed: merging ranges across other
\* conversations' events, clipping, and the fallback for old apps never take
\* an unreported message along.
OnlyReportedIsSeen ==
    \A n \in DOMAIN log :
        Raised(log[n]) /\ Covered(log[n].convo, n) => n \in reported[log[n].convo]

\* What was reported stays seen through every later merge.
ReportedStaysSeen ==
    \A n \in DOMAIN log :
        Raised(log[n]) /\ n \in reported[log[n].convo] => Covered(log[n].convo, n)

\* The stored ranges of a conversation are apart: between two of them there
\* is a message still to be raised, so the table stays as small as the number
\* of unseen messages and no seq is stored twice.
RangesApart ==
    \A c \in Convos : \A r, s \in ranges[c] :
        /\ r[1] <= r[2] /\ r[2] <= last_seq[c]
        /\ r # s /\ r[1] <= s[1] =>
             \E n \in r[2] + 1 .. s[1] - 1 : log[n].convo = c /\ Raised(log[n])

\* The seen ranges are the reports, merged: nothing more, nothing less, no
\* range twice (addSeenRanges).
SeenAsReported == OnlyReportedIsSeen /\ ReportedStaysSeen /\ RangesApart

\* The badge and the seen ranges say what the log and the reports say.
ReadAsReported == ReadTypeOK /\ BadgeAgreesWithLog /\ SeenAsReported

=============================================================================
