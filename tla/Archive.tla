------------------------------ MODULE Archive ------------------------------
(***************************************************************************)
(* Archived conversations, and how one app keeps its list of them.         *)
(*                                                                         *)
(* The user archives by hand, an hourly sweep archives what was idle for   *)
(* some days, and a message brings a conversation back.  An app learns of  *)
(* changes from frames while it is connected, and asks for what changed at *)
(* or after `since`, a time in ms, when it connects: so what matters is    *)
(* which changes share a ms, and which fall between the moment the answer  *)
(* to hello was written and the moment the connection is registered.       *)
(*                                                                         *)
(* peer_message is here too: its key is only held for a while, and it is a *)
(* message that brings a conversation back.                                *)
(***************************************************************************)
EXTENDS Integers

CONSTANTS
    Top, Sub,   \* conversations of the user: top-level ones and sub-chats
    ParentChat, \* of each sub-chat
    Keys,       \* (device, idem_key) of a peer_message
    Days,       \* auto_archive_days, in ticks of the clock
    Ttl,        \* AGENT_IDEM_TTL_MS, in ticks of the clock
    Never,      \* NULL
    MaxNow      \* bound of the model: the clock

Conversations == Top \cup Sub

ASSUME ArchiveAssumption ==
    /\ Top \cap Sub = {}
    /\ ParentChat \in [Sub -> Top]
    /\ Days \in Nat \ {0}
    /\ Ttl \in Nat \ {0}
    /\ Never \notin Nat
    /\ MaxNow \in Nat

VARIABLES
    now,        \* Date.now(); it does not run backwards
    newest,     \* time of each conversation's newest message, 0 before any
    archived,   \* convo_archive.archived_at
    unarchived, \* convo_archive.unarchived_at, 0 for NULL
    updated,    \* convo_archive.updated_at, Never where there is no row
    idem,       \* agent_idem: rows [key, expires]
    link,       \* the app's connection: "off", "replay" (hello is at an await) or "live"
    view,       \* the conversations the app shows as archived
    since,      \* the app's next `archive_since`
    asked,      \* conn.archiveAt, while the replay waits (not read later)
    spoken,     \* history: archived, and had a message since
    written,    \* history: when each key last wrote a peer message
    doubled     \* history: the keys that wrote two within the window

tables == <<archived, unarchived, updated>>
theApp == <<link, view, since, asked>>
archiveVars == <<now, newest, tables, idem, theApp, spoken, written, doubled>>

Time == 0 .. MaxNow

ArchiveTypeOK ==
    /\ now \in Time
    /\ newest \in [Conversations -> Time]
    /\ archived \in [Conversations -> Time \cup {Never}]
    /\ unarchived \in [Conversations -> Time]
    /\ updated \in [Conversations -> Time \cup {Never}]
    /\ idem \subseteq [key : Keys, expires : Nat]
    /\ link \in {"off", "replay", "live"}
    /\ view \subseteq Conversations
    /\ since \in Time
    /\ asked \in Time
    /\ spoken \in [Conversations -> BOOLEAN]
    /\ written \in [Keys -> Time \cup {Never}]
    /\ doubled \subseteq Keys

Archived == {c \in Conversations : archived[c] # Never}

-----------------------------------------------------------------------------
(* The app (docs/protocol.md, "Archived conversations").                   *)

\* A live archive frame: the app takes the changes and moves `since` on.
Hears(more, less) ==
    IF link = "live" /\ more \cup less # {}
    THEN view' = (view \cup more) \ less /\ since' = now
    ELSE UNCHANGED <<view, since>>

\* A live message of c: the app brings c back by itself.
HearsMessage(c) ==
    /\ view' = IF link = "live" /\ c \in Top THEN view \ {c} ELSE view
    /\ UNCHANGED since

\* Slip: a change in the very ms the app named is taken as known.
ChangesAfter(from) == {c \in Conversations : updated[c] # Never /\ updated[c] > from}

\* archiveChanges: the rows changed at or after `from`.
ChangesSince(from) == {c \in Conversations : updated[c] # Never /\ updated[c] >= from}

\* ... and the `at` that comes with them.
AtOf(from) ==
    CHOOSE t \in {from} \cup {updated[c] : c \in ChangesSince(from)} :
        \A c \in ChangesSince(from) : updated[c] <= t /\ from <= t

Applied(from) == (view \ ChangesSince(from)) \cup (ChangesSince(from) \cap Archived)

\* hello with `archive_since`: the answer carries the changes.  A replay that
\* has to wait leaves the connection unregistered for a while.
Hello(wait) ==
    /\ link = "off"
    /\ link' = IF wait THEN "replay" ELSE "live"
    /\ view' = Applied(since)
    /\ since' = AtOf(since)
    /\ asked' = IF wait THEN AtOf(since) ELSE 0
    /\ UNCHANGED <<now, newest, tables, idem, spoken, written, doubled>>

\* Slip: nobody asks again after a replay that waited.
RegisterOnly ==
    /\ link = "replay"
    /\ link' = "live"
    /\ asked' = 0
    /\ UNCHANGED <<now, newest, tables, idem, view, since, spoken, written, doubled>>

\* The replay ends: hub.register, and what changed meanwhile, in one turn.
Register ==
    /\ link = "replay"
    /\ link' = "live"
    /\ view' = Applied(asked)
    /\ since' = IF ChangesSince(asked) = {} THEN since ELSE AtOf(asked)
    /\ asked' = 0
    /\ UNCHANGED <<now, newest, tables, idem, spoken, written, doubled>>

Disconnect ==
    /\ link # "off"
    /\ link' = "off"
    /\ asked' = 0
    /\ UNCHANGED <<now, newest, tables, idem, view, since, spoken, written, doubled>>

-----------------------------------------------------------------------------
(* The server.                                                             *)

Set(f, S, v) == [c \in DOMAIN f |-> IF c \in S THEN v ELSE f[c]]

\* Slip: only the sweep's own archiving is undone by a message.
BroughtBackIfSwept(c) == {c} \cap Top \cap {x \in Archived : unarchived[x] = 0}

\* unarchiveOnMessage finds a row to clear.
BroughtBack(c) == {c} \cap Top \cap Archived

\* append of a message.
AppendMessage(c) ==
    /\ newest' = [newest EXCEPT ![c] = now]
    /\ archived' = Set(archived, BroughtBack(c), Never)
    /\ unarchived' = Set(unarchived, BroughtBack(c), now)
    /\ updated' = Set(updated, BroughtBack(c), now)
    /\ spoken' = [spoken EXCEPT ![c] = archived'[c] # Never]
    /\ UNCHANGED now

\* ops `send` and `publish`, and the journal's own messages: the message goes
\* out, and then the archive frame.
Message(c) ==
    /\ AppendMessage(c)
    /\ IF BroughtBack(c) = {} THEN HearsMessage(c) ELSE Hears({}, {c})
    /\ UNCHANGED <<link, asked, idem, written, doubled>>

\* Slip: a key is forgotten one tick early.
LiveRowsEarly == {r \in idem : r.expires > now + 1}

\* Rows the sweep at the start of every peer_message leaves.
LiveRows == {r \in idem : r.expires > now}

\* op `peer_message`: a key seen within the window is answered with the old
\* seq; else the message is written and goes out, but no archive frame does.
PeerMessage(k, c) ==
    /\ IF \E r \in LiveRows : r.key = k
       THEN /\ idem' = LiveRows
            /\ UNCHANGED <<now, newest, tables, view, since, spoken, written, doubled>>
       ELSE /\ AppendMessage(c)
            /\ HearsMessage(c)
            /\ idem' = LiveRows \cup {[key |-> k, expires |-> now + Ttl]}
            /\ written' = [written EXCEPT ![k] = now]
            /\ doubled' = IF written[k] # Never /\ now - written[k] < Ttl THEN doubled \cup {k} ELSE doubled
    /\ UNCHANGED <<link, asked>>

\* setArchived for conversations that are not archived.  The row keeps its
\* unarchived_at.
PutAway(S) ==
    /\ archived' = Set(archived, S, now)
    /\ updated' = Set(updated, S, now)
    /\ spoken' = Set(spoken, S, FALSE)
    /\ UNCHANGED unarchived

\* POST /archive
ArchiveByHand(c) ==
    /\ c \notin Archived
    /\ PutAway({c})
    /\ Hears({c}, {})
    /\ UNCHANGED <<now, newest, idem, link, asked, written, doubled>>

UnarchiveByHand(c) ==
    /\ c \in Archived
    /\ archived' = [archived EXCEPT ![c] = Never]
    /\ unarchived' = [unarchived EXCEPT ![c] = now]
    /\ updated' = [updated EXCEPT ![c] = now]
    /\ spoken' = [spoken EXCEPT ![c] = FALSE]
    /\ Hears({}, {c})
    /\ UNCHANGED <<now, newest, idem, link, asked, written, doubled>>

\* autoArchiveCandidates: idle, and so are its sub-chats.
Candidates ==
    {c \in Top \ Archived :
        /\ now > Days           \* created at 0
        /\ unarchived[c] < now - Days
        /\ newest[c] < now - Days
        /\ \A s \in Sub : ParentChat[s] = c => newest[s] < now - Days}

\* The hourly sweep: one transaction for all the conversations of a user.  A
\* session, a pin, an item or a mission exempts what it belongs to.
Sweep(swept) ==
    /\ swept # {}
    /\ PutAway(swept)
    /\ Hears(swept, {})
    /\ UNCHANGED <<now, newest, idem, link, asked, written, doubled>>

Tick ==
    /\ now < MaxNow
    /\ now' = now + 1
    /\ UNCHANGED <<newest, tables, idem, theApp, spoken, written, doubled>>

-----------------------------------------------------------------------------
ArchiveInit ==
    /\ now = 0
    /\ newest = [c \in Conversations |-> 0]
    /\ archived = [c \in Conversations |-> Never]
    /\ unarchived = [c \in Conversations |-> 0]
    /\ updated = [c \in Conversations |-> Never]
    /\ idem = {}
    /\ link = "off"
    /\ view = {}
    /\ since = 0
    /\ asked = 0
    /\ spoken = [c \in Conversations |-> FALSE]
    /\ written = [k \in Keys |-> Never] /\ doubled = {}

ArchiveNext ==
    \/ \E c \in Conversations :
        \/ Message(c)
        \/ \E k \in Keys : PeerMessage(k, c)
        \/ ArchiveByHand(c)
        \/ UnarchiveByHand(c)
    \/ \E swept \in SUBSET Candidates : Sweep(swept)
    \/ \E wait \in BOOLEAN : Hello(wait)
    \/ Register
    \/ Disconnect
    \/ Tick

ArchiveSpec == ArchiveInit /\ [][ArchiveNext]_archiveVars

-----------------------------------------------------------------------------
(* Properties.                                                             *)

\* A registered app that has read its socket shows exactly what is archived,
\* whatever changed while it was away or while its hello was still replaying,
\* and however many changes share a ms.
ViewIsCurrent == link = "live" => view = Archived

\* An archived conversation has had no message since it was archived: the
\* flag and the message are one transaction.  Sub-chats stay archived.
NoMessageHidden == \A c \in Top \cap Archived : ~spoken[c]

\* A peer_message repeated with its key because the answer was lost is written
\* once within the window.
PeerOncePerWindow == doubled = {}

\* The app, the server and the messages agree on what is archived, and a
\* peer_message is written once (setArchived, unarchiveOnMessage, agent-idem).
ArchiveTrue == ArchiveTypeOK /\ ViewIsCurrent /\ NoMessageHidden /\ PeerOncePerWindow
=============================================================================
