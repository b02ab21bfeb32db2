---------------------------- MODULE JournalSync ----------------------------
(***************************************************************************)
(* One user's journal and the sockets that follow it: how an event gets    *)
(* from an operation on one socket to every other device of the user.      *)
(*                                                                         *)
(* The process is single threaded and SQLite is called synchronously, so   *)
(* a handler runs without interruption up to its next await.  Every action *)
(* below is such a stretch: an operation handler, the part of `hello`      *)
(* before its first await, one turn of the replay loop, a socket event.    *)
(*                                                                         *)
(* Devices are clients (the user's apps, which see everything) and agents  *)
(* (bridges on the user's boxes, which see the conversations they manage   *)
(* or have joined).  A device may have several sockets at once: the server *)
(* learns late, or from a timeout, that an old one is gone.                *)
(***************************************************************************)
EXTENDS Integers, Sequences, FiniteSets

CONSTANTS
    Clients, Agents,   \* the user's devices, by kind
    Convos,            \* conversations of the user
    SystemConvos,      \* those the journal itself keeps (people-convo.js)
    FirstOwner,        \* the recorded agent of each conversation at the start
    Conns,             \* sockets, each used once
    Keys,              \* local ids a sender may put on a message
    NoKey,             \* ... or leave out
    NoConn, NoDevice,
    BatchSize,         \* rows per replay batch (500 in the code)
    MaxReplay,         \* largest gap the server replays (50000)
    HelloMax,          \* values of a client's own `max_replay`
    DrainMax,          \* unsent frames above which a replay waits
    MaxSeq             \* bound of the model: events in the log

Devices == Clients \cup Agents

ASSUME DevicesAssumption ==
    /\ Clients \cap Agents = {}
    /\ NoDevice \notin Devices
ASSUME ConvosAssumption ==
    /\ SystemConvos \subseteq Convos
    /\ FirstOwner \in [Convos -> Agents \cup {NoDevice}]
    /\ \A c \in SystemConvos : FirstOwner[c] = NoDevice
ASSUME ConnsAssumption == NoConn \notin Conns
ASSUME BoundsAssumption ==
    /\ BatchSize \in Nat \ {0}
    /\ MaxReplay \in Nat
    /\ HelloMax \subseteq Nat
    /\ DrainMax \in Nat
    /\ MaxSeq \in Nat

VARIABLES
    log,       \* events, in seq order (seq = index): the table `events`
    owner,     \* conversations.agent_device_id
    row,       \* convo_agents.state of each agent in each conversation
    sock,      \* the server's view of each socket
    dev,       \* the device a socket authenticated as
    hub,       \* registered connections (hub.js byUser)
    replay,    \* is the replay loop of this connection suspended at its await
    cursor,    \* the loop's own cursor
    known,     \* the loop's decisionCache
    wire,      \* frames written to the socket a device reads and not yet
               \* read, by write; what goes to an abandoned socket is lost
    cur,       \* the socket each device reads from
    pos,       \* each device's cursor: the last seq it applied
    stale,     \* the device was told `snapshot_required`
    insiders   \* history: agents that ever were entitled to a conversation

data    == <<log, owner, row, insiders>>
servers == <<sock, dev, hub, replay, cursor, known>>
readers == <<cur, pos, stale>>
vars    == <<data, servers, readers, wire>>

RowStates == {"none", "awaiting_user", "invited", "joined", "ended"}

\* One event.  `to` is a history field: the agents entitled to it when it
\* was appended.
Event == [convo : Convos, kind : {"message", "meta", "card"},
          key : (Devices \X Keys) \cup {NoKey}, to : SUBSET Agents]

TypeOK ==
    /\ log \in Seq(Event)
    /\ owner \in [Convos -> Agents \cup {NoDevice}]
    /\ row \in [Convos -> [Agents -> RowStates]]
    /\ sock \in [Conns -> {"unused", "open", "closing", "closed"}]
    /\ dev \in [Conns -> Devices \cup {NoDevice}]
    /\ hub \subseteq Conns
    /\ replay \in [Conns -> BOOLEAN]
    /\ cursor \in [Conns -> Nat]
    /\ known \in [Conns -> [Convos -> {"unknown", "yes", "no"}]]
    /\ wire \in [Conns -> Seq(SUBSET Nat)]
    /\ cur \in [Devices -> Conns \cup {NoConn}]
    /\ pos \in [Devices -> Nat]
    /\ stale \in [Devices -> BOOLEAN]
    /\ insiders \in [Convos -> SUBSET Agents]

-----------------------------------------------------------------------------
(* Who may see an event.                                                   *)

\* agentTargetsFor: nobody for a system conversation, every agent when no
\* owner is on record, else the owner and the joined participants.
Audience(c, own, rows) ==
    IF c \in SystemConvos THEN {}
    ELSE IF own[c] = NoDevice THEN Agents
    ELSE {own[c]} \cup {a \in Agents : rows[c][a] = "joined"}

\* Consent cards are for the user's eyes: no agent device gets one.
Entitled(c, kind, own, rows) ==
    IF kind = "card" THEN {} ELSE Audience(c, own, rows)

\* authorizeAgentWrite
MayWrite(a, c) ==
    /\ c \notin SystemConvos
    /\ owner[c] \in {NoDevice, a} \/ row[c][a] = "joined"

HasParticipants(c) == \E a \in Agents : row[c][a] # "none"

Live(k) == k \in hub /\ sock[k] = "open"

\* Somebody reads what is written to the socket.
Read(k) == dev[k] # NoDevice /\ cur[dev[k]] = k

Frames(w) == UNION {w[i] : i \in DOMAIN w}
InFlight(k) == Frames(wire[k])

-----------------------------------------------------------------------------
(* Writing.                                                                *)

\* Slip: every authenticated socket hears a live frame, registered or not.
FanOutUnregistered(to, n) ==
    [k \in Conns |->
        IF n > 0 /\ sock[k] = "open" /\ Read(k) /\ (dev[k] \in Clients \/ dev[k] \in to)
        THEN Append(wire[k], Len(log) + 1 .. Len(log) + n)
        ELSE wire[k]]

\* hub.broadcastJournal: one write per frame to every live registered socket
\* that may receive it.  `n` frames appended by one handler form one chunk.
FanOut(to, n) ==
    [k \in Conns |->
        IF n > 0 /\ Live(k) /\ Read(k) /\ (dev[k] \in Clients \/ dev[k] \in to)
        THEN Append(wire[k], Len(log) + 1 .. Len(log) + n)
        ELSE wire[k]]

\* append + fanOut, n times for the same conversation.
Post(c, kind, key, to, n) ==
    /\ Len(log) + n <= MaxSeq
    /\ log' = log \o [i \in 1..n |-> [convo |-> c, kind |-> kind, key |-> key, to |-> to]]
    /\ wire' = FanOut(to, n)

\* Slip: a repeated key is only noticed when nothing came in between.
DuplicateNewestOnly(c, key) ==
    /\ key # NoKey
    /\ log # <<>>
    /\ log[Len(log)].convo = c /\ log[Len(log)].key = key

\* The lookup of (user, conversation, idem_key) in `events`.
Duplicate(c, key) ==
    /\ key # NoKey
    /\ \E n \in DOMAIN log : log[n].convo = c /\ log[n].key = key

\* A keyed append that finds its key on record answers with the old seq and
\* fans nothing.
PostOnce(c, key) ==
    IF Duplicate(c, key)
    THEN UNCHANGED <<log, wire>>
    ELSE Post(c, "message", key, Entitled(c, "message", owner, row), 1)

Stamp(d, key) == IF key = NoKey THEN NoKey ELSE <<d, key>>

\* op `send`.  The socket need not be registered yet: a client may write
\* while its own replay is still running.
Send(k, c, key) ==
    /\ sock[k] = "open"
    /\ dev[k] \in Clients
    /\ PostOnce(c, Stamp(dev[k], key))
    /\ UNCHANGED <<owner, row, insiders, servers, readers>>

\* op `publish`
Publish(k, c, key) ==
    /\ sock[k] = "open"
    /\ dev[k] \in Agents
    /\ MayWrite(dev[k], c)
    /\ PostOnce(c, Stamp(dev[k], key))
    /\ UNCHANGED <<owner, row, insiders, servers, readers>>

\* An event the journal itself writes (appendAndBroadcast): a marker, an
\* outcome, a line in one of its own conversations.
Announce(c) ==
    /\ Post(c, "message", NoKey, Entitled(c, "message", owner, row), 1)
    /\ UNCHANGED <<owner, row, insiders, servers, readers>>

\* op `convo_upsert` on an existing conversation: takes over a conversation
\* nobody was ever invited to, unless the device itself has a row there; a
\* state and a change of title are one event each.
ConvoUpsert(k, c, n) ==
    LET a     == dev[k]
        guest == owner[c] \notin {NoDevice, a} /\ row[c][a] # "none"
        own   == [owner EXCEPT ![c] = IF guest THEN @ ELSE a]
        to    == Entitled(c, "meta", own, row)
    IN  /\ sock[k] = "open"
        /\ a \in Agents
        /\ c \notin SystemConvos
        /\ owner[c] \in {NoDevice, a} \/ ~HasParticipants(c)
        /\ owner' = own
        /\ insiders' = [insiders EXCEPT ![c] = @ \cup to]
        /\ Post(c, "meta", NoKey, to, n)
        /\ UNCHANGED <<row, servers, readers>>

-----------------------------------------------------------------------------
(* Membership of a room.  Who asked, delivery of the invitation and its    *)
(* timers are the business of module Rooms; here a row only moves.         *)

MayAsk(d, c, a) ==
    \/ owner[c] = d /\ a # d                     \* agent_invite
    \/ owner[c] \notin {NoDevice, d} /\ a = d    \* agent_join

\* ops `agent_invite` and `agent_join`: the ask is parked and a consent card
\* goes into the room, for the clients only.
Ask(k, c, a) ==
    /\ Live(k)
    /\ dev[k] \in Agents
    /\ MayAsk(dev[k], c, a)
    /\ row[c][a] \in {"none", "ended"}
    /\ row' = [row EXCEPT ![c][a] = "awaiting_user"]
    /\ Post(c, "card", NoKey, Entitled(c, "card", owner, row), 1)
    /\ UNCHANGED <<owner, insiders, servers, readers>>

\* The user answers the parked ask over HTTP, or the Coordinator, which leaves
\* a consent_decision event, for the clients only like the card.
AnswerAsk(c, a, approve, n) ==
    /\ row[c][a] = "awaiting_user"
    /\ row' = [row EXCEPT ![c][a] = IF approve THEN "invited" ELSE "ended"]
    /\ Post(c, "card", NoKey, Entitled(c, "card", owner, row), n)
    /\ UNCHANGED <<owner, insiders, servers, readers>>

\* The timers: an ask or an invitation nobody answered.
Expire(c, a) ==
    /\ row[c][a] \in {"awaiting_user", "invited"}
    /\ row' = [row EXCEPT ![c][a] = "ended"]
    /\ UNCHANGED <<log, owner, insiders, servers, readers, wire>>

\* op `agent_invite_answer`: the invited agent, or for a join request the
\* room's owner, whose accept makes another device a member.
AnswerInvite(k, c, a, accept) ==
    LET rows == [row EXCEPT ![c][a] = IF accept THEN "joined" ELSE "ended"]
        to   == Entitled(c, "meta", owner, rows)
    IN  /\ Live(k)
        /\ dev[k] \in {a, owner[c]} \cap Agents
        /\ row[c][a] = "invited"
        /\ row' = rows
        /\ insiders' = [insiders EXCEPT ![c] = @ \cup to]
        /\ Post(c, "meta", NoKey, to, IF accept THEN 1 ELSE 0)
        /\ UNCHANGED <<owner, servers, readers>>

\* op `agent_leave`: a participant leaves; the owner leaving ends the room.
Leave(k, c) ==
    LET a     == dev[k]
        lives == {"awaiting_user", "invited", "joined"}
        rows  == IF owner[c] = a
                 THEN [row EXCEPT ![c] = [b \in Agents |->
                        IF @[b] \in lives THEN "ended" ELSE @[b]]]
                 ELSE [row EXCEPT ![c][a] = "ended"]
        news  == owner[c] # a \/ \E b \in Agents : row[c][b] = "joined"
    IN  /\ Live(k)
        /\ a \in Agents
        /\ IF owner[c] = a THEN HasParticipants(c) ELSE row[c][a] = "joined"
        /\ row' = rows
        /\ Post(c, "meta", NoKey, Entitled(c, "meta", owner, rows), IF news THEN 1 ELSE 0)
        /\ UNCHANGED <<owner, insiders, servers, readers>>

-----------------------------------------------------------------------------
(* Connecting and catching up.                                             *)

\* Slip: the last row of a batch is left out.
BatchShort(from) == {n \in from + 1 .. Len(log) : n < from + BatchSize}

\* eventsAfter(cursor, BatchSize): seqs are dense, so a batch is an interval.
Batch(from) == {n \in from + 1 .. Len(log) : n <= from + BatchSize}

Undecided == [c \in Convos |-> "unknown"]

\* Slip: any row in convo_agents counts as membership.
DecideByRow(d, c, memo) ==
    IF memo[c] # "unknown" THEN memo[c]
    ELSE IF c \notin SystemConvos /\ (owner[c] \in {NoDevice, d} \/ row[c][d] # "none")
         THEN "yes" ELSE "no"

\* replaysTo: the decision for a conversation is taken once per replay.
Decide(d, c, memo) ==
    IF memo[c] # "unknown" THEN memo[c]
    ELSE IF d \in Audience(c, owner, row) THEN "yes" ELSE "no"

\* Slip: the client-only rule is kept for live frames alone.
ReplayedWithCards(d, memo, batch) ==
    IF d \in Clients THEN batch
    ELSE {n \in batch : Decide(d, log[n].convo, memo) = "yes"}

\* The rows of a batch that go out.
Replayed(d, memo, batch) ==
    IF d \in Clients THEN batch
    ELSE {n \in batch : /\ Decide(d, log[n].convo, memo) = "yes"
                        /\ log[n].kind # "card"}

Remember(d, memo, batch) ==
    [c \in Convos |-> IF d \in Agents /\ \E n \in batch : log[n].convo = c
                      THEN Decide(d, c, memo) ELSE memo[c]]

\* Slip: the connection is registered when the replay starts.
TurnRegisteringEarly(k, d, from, memo, open, lines) ==
    LET batch == Batch(from)
        out   == Replayed(d, memo, batch)
        more  == Len(log) - from >= BatchSize
    IN  /\ wire' = IF open /\ out # {} THEN [lines EXCEPT ![k] = Append(@, out)] ELSE lines
        /\ known' = [known EXCEPT ![k] = Remember(d, memo, batch)]
        /\ replay' = [replay EXCEPT ![k] = more]
        /\ cursor' = [cursor EXCEPT ![k] = IF more THEN from + BatchSize ELSE 0]
        /\ hub' = hub \cup {k}

\* Slip: a replay that had to wait never registers.
TurnForgettingToRegister(k, d, from, memo, open, lines) ==
    LET batch == Batch(from)
        out   == Replayed(d, memo, batch)
        more  == Len(log) - from >= BatchSize
    IN  /\ wire' = IF open /\ out # {} THEN [lines EXCEPT ![k] = Append(@, out)] ELSE lines
        /\ known' = [known EXCEPT ![k] = Remember(d, memo, batch)]
        /\ replay' = [replay EXCEPT ![k] = more]
        /\ cursor' = [cursor EXCEPT ![k] = IF more THEN from + BatchSize ELSE 0]
        /\ hub' = IF more \/ replay[k] THEN hub ELSE hub \cup {k}

\* One turn of the replay loop: send a batch; a full one means there may be
\* more, so wait; a short one means the log is exhausted, and the connection
\* is registered before anything else can run.
Turn(k, d, from, memo, open, lines) ==
    LET batch == Batch(from)
        out   == Replayed(d, memo, batch)
    IN  /\ wire' = IF open /\ out # {} THEN [lines EXCEPT ![k] = Append(@, out)] ELSE lines
        /\ known' = [known EXCEPT ![k] = Remember(d, memo, batch)]
        /\ IF Len(log) - from >= BatchSize
           THEN /\ replay' = [replay EXCEPT ![k] = TRUE]
                /\ cursor' = [cursor EXCEPT ![k] = from + BatchSize]
                /\ UNCHANGED hub
           ELSE /\ replay' = [replay EXCEPT ![k] = FALSE]
                /\ hub' = hub \cup {k}
                /\ cursor' = [cursor EXCEPT ![k] = 0]

Connect(d, k) ==
    /\ sock[k] = "unused"
    /\ dev' = [dev EXCEPT ![k] = d]

\* The device reads socket k from now on (NoConn: none): what was in flight on
\* the one it read before is lost.
Reads(d, k) == cur' = [cur EXCEPT ![d] = k]
Abandoned(d) == IF cur[d] = NoConn THEN wire ELSE [wire EXCEPT ![cur[d]] = <<>>]

\* The snapshot valve: a gap larger than the server's limit, or than the
\* limit `m` this client asked for, closes the socket unregistered.
TooFar(d, m) == Len(log) - pos[d] > MaxReplay \/ Len(log) - pos[d] > m

HelloRefused(d, k, m) ==
    /\ ~stale[d]
    /\ Connect(d, k)
    /\ TooFar(d, m)
    /\ sock' = [sock EXCEPT ![k] = "closing"]
    /\ stale' = [stale EXCEPT ![d] = TRUE]
    /\ Reads(d, NoConn)
    /\ wire' = Abandoned(d)
    /\ UNCHANGED <<data, hub, replay, cursor, known, pos>>

Hello(d, k, m) ==
    /\ ~stale[d]
    /\ Connect(d, k)
    /\ ~TooFar(d, m)
    /\ sock' = [sock EXCEPT ![k] = "open"]
    /\ Reads(d, k)
    /\ Turn(k, d, pos[d], Undecided, TRUE, Abandoned(d))
    /\ UNCHANGED <<data, pos, stale>>

\* hello without a cursor: nothing is replayed, the device starts at the
\* head that hello_ok names.
HelloFresh(d, k) ==
    /\ ~stale[d]
    /\ pos[d] = 0
    /\ Connect(d, k)
    /\ sock' = [sock EXCEPT ![k] = "open"]
    /\ hub' = hub \cup {k}
    /\ Reads(d, k)
    /\ wire' = Abandoned(d)
    /\ pos' = [pos EXCEPT ![d] = Len(log)]
    /\ UNCHANGED <<data, replay, cursor, known, stale>>

\* Slip: conn.closed is not looked at after the await.
ReplayStepUnchecked(k) ==
    /\ replay[k]
    /\ sock[k] = "open" => Cardinality(InFlight(k)) <= DrainMax
    /\ Turn(k, dev[k], cursor[k], known[k], sock[k] = "open" /\ Read(k), wire)
    /\ UNCHANGED <<data, sock, dev, readers>>

\* Slip: only the setImmediate is awaited, not the drain.
ReplayStepUndrained(k) ==
    /\ replay[k]
    /\ IF sock[k] = "closed"
       THEN /\ replay' = [replay EXCEPT ![k] = FALSE]
            /\ cursor' = [cursor EXCEPT ![k] = 0]
            /\ UNCHANGED <<hub, known, wire>>
       ELSE Turn(k, dev[k], cursor[k], known[k], sock[k] = "open" /\ Read(k), wire)
    /\ UNCHANGED <<data, sock, dev, readers>>

\* The loop resumes: an open socket must have drained, a socket being torn
\* down is not waited for, a closed one ends the replay unregistered.
ReplayStep(k) ==
    /\ replay[k]
    /\ sock[k] = "open" => Cardinality(InFlight(k)) <= DrainMax
    /\ IF sock[k] = "closed"
       THEN /\ replay' = [replay EXCEPT ![k] = FALSE]
            /\ cursor' = [cursor EXCEPT ![k] = 0]
            /\ UNCHANGED <<hub, known, wire>>
       ELSE Turn(k, dev[k], cursor[k], known[k], sock[k] = "open" /\ Read(k), wire)
    /\ UNCHANGED <<data, sock, dev, readers>>

-----------------------------------------------------------------------------
(* Sockets and readers.                                                    *)

\* ws.terminate() or ws.close(): the socket stops taking frames now, its
\* 'close' event comes later.
Terminate(k) ==
    /\ sock[k] = "open"
    /\ sock' = [sock EXCEPT ![k] = "closing"]
    /\ UNCHANGED <<data, dev, hub, replay, cursor, known, readers, wire>>

\* The 'close' event: unregister.  Nothing looks at the connection again but
\* a replay loop still suspended.
Closed(k) ==
    /\ sock[k] \in {"open", "closing"}
    /\ sock' = [sock EXCEPT ![k] = "closed"]
    /\ hub' = hub \ {k}
    /\ dev' = [dev EXCEPT ![k] = NoDevice]
    /\ known' = [known EXCEPT ![k] = Undecided]
    /\ UNCHANGED <<data, replay, cursor, readers, wire>>

\* The process dies and starts again: the database stays, the rest is gone.
Restart ==
    /\ sock' = [k \in Conns |-> IF sock[k] = "unused" THEN "unused" ELSE "closed"]
    /\ hub' = {}
    /\ replay' = [k \in Conns |-> FALSE]
    /\ cursor' = [k \in Conns |-> 0]
    /\ dev' = [k \in Conns |-> NoDevice]
    /\ known' = [k \in Conns |-> Undecided]
    /\ UNCHANGED <<data, readers, wire>>

\* What is left to read after frame n of the first write.
Rest(w, n) == IF Head(w) = {n} THEN Tail(w) ELSE [w EXCEPT ![1] = @ \ {n}]

\* The device reads the next frame of its current socket.
Receive(d) ==
    LET k == cur[d]
    IN  /\ k # NoConn
        /\ wire[k] # <<>>
        /\ LET chunk == Head(wire[k])
           IN  \E n \in chunk :
                 /\ \A x \in chunk : n <= x
                 /\ pos' = [pos EXCEPT ![d] = n]
                 /\ wire' = [wire EXCEPT ![k] = Rest(@, n)]
        /\ UNCHANGED <<data, servers, cur, stale>>

\* The device gives up its socket; what was in flight is lost, and the server
\* does not know yet.
Drop(d) ==
    /\ cur[d] # NoConn
    /\ Reads(d, NoConn)
    /\ wire' = Abandoned(d)
    /\ UNCHANGED <<data, servers, pos, stale>>

\* GET /snapshot, whose seq is the head.
Snapshot(d) ==
    /\ stale[d]
    /\ pos' = [pos EXCEPT ![d] = Len(log)]
    /\ stale' = [stale EXCEPT ![d] = FALSE]
    /\ UNCHANGED <<data, servers, cur, wire>>

-----------------------------------------------------------------------------
Init ==
    /\ log = <<>>
    /\ owner = FirstOwner
    /\ row = [c \in Convos |-> [a \in Agents |-> "none"]]
    /\ insiders = [c \in Convos |-> Audience(c, FirstOwner, [x \in Convos |-> [a \in Agents |-> "none"]])]
    /\ sock = [k \in Conns |-> "unused"]
    /\ dev = [k \in Conns |-> NoDevice]
    /\ hub = {}
    /\ replay = [k \in Conns |-> FALSE]
    /\ cursor = [k \in Conns |-> 0]
    /\ known = [k \in Conns |-> Undecided]
    /\ wire = [k \in Conns |-> <<>>]
    /\ cur = [d \in Devices |-> NoConn]
    /\ pos = [d \in Devices |-> 0]
    /\ stale = [d \in Devices |-> FALSE]

Write(c) ==
    \/ Announce(c)
    \/ \E k \in Conns, key \in Keys \cup {NoKey} : Send(k, c, key) \/ Publish(k, c, key)
    \/ \E k \in Conns, n \in 0..2 : ConvoUpsert(k, c, n)

Member(c) ==
    \/ \E a \in Agents :
        \/ \E k \in Conns : Ask(k, c, a)
        \/ \E approve \in BOOLEAN, n \in 0..1 : AnswerAsk(c, a, approve, n)
        \/ Expire(c, a)
        \/ \E k \in Conns, accept \in BOOLEAN : AnswerInvite(k, c, a, accept)
    \/ \E k \in Conns : Leave(k, c)

Attach(d, k) ==
    \/ \E m \in HelloMax : HelloRefused(d, k, m) \/ Hello(d, k, m)
    \/ HelloFresh(d, k)

Next ==
    \/ \E c \in Convos : Write(c) \/ Member(c)
    \/ \E d \in Devices, k \in Conns : Attach(d, k)
    \/ \E k \in Conns : ReplayStep(k) \/ Terminate(k) \/ Closed(k)
    \/ Restart
    \/ \E d \in Devices : Receive(d) \/ Drop(d) \/ Snapshot(d)

Spec == Init /\ [][Next]_vars

\* The replay loop is resumed by setImmediate and a 20 ms poll; a connected
\* device reads its socket.
Fairness ==
    /\ \A k \in Conns : WF_vars(ReplayStep(k))
    /\ \A d \in Devices : WF_vars(Receive(d))

FairSpec == Spec /\ Fairness

-----------------------------------------------------------------------------
(* Properties.                                                             *)

\* What a client finds on its current socket is exactly what it lacks: the
\* frames in flight continue its cursor without a gap, each written once and
\* in order, up to the newest event when the connection is registered and up
\* to the loop's cursor while it is still replaying.  This is the "live-event
\* gap" comment of the hello handler: no await between the last batch and
\* hub.register.
ClientFeed ==
    \A d \in Clients : LET k == cur[d] IN k # NoConn =>
        /\ \A i, j \in DOMAIN wire[k] : i < j =>
               \A x \in wire[k][i], y \in wire[k][j] : x < y
        /\ \E top \in pos[d] .. Len(log) :
               /\ InFlight(k) = pos[d] + 1 .. top
               /\ Live(k) => top = Len(log)
               /\ replay[k] /\ sock[k] = "open" => top = cursor[k]

\* For its clients the whole machinery is a CursorFeed: a client applies one
\* event after the other and jumps only when it is new or was told to.
Feed == INSTANCE CursorFeed WITH
            Readers <- Clients,
            head <- Len(log),
            pos <- [d \in Clients |-> pos[d]],
            stale <- [d \in Clients |-> stale[d]]
FeedRefined == Feed!Spec

\* A socket whose 'close' event has run is never in the hub, where nothing
\* would ever remove it ("no dead registrations").
NoDeadRegistration == \A k \in hub : sock[k] \in {"open", "closing"}

\* A reader that stalls during its replay leaves a bounded number of frames
\* queued in the server.
BoundedReplayBuffer ==
    \A k \in Conns : replay[k] => Cardinality(InFlight(k)) <= DrainMax + BatchSize

\* A message a device repeats because it never heard the answer, even on a
\* later socket, is in the log once.
UniqueKeys ==
    \A m, n \in DOMAIN log :
        m # n /\ log[m].key # NoKey => <<log[m].convo, log[m].key>> # <<log[n].convo, log[n].key>>

\* No agent socket, the room owner's included, is ever sent a consent card:
\* not live, and not when it replays.
NoCardToAgents ==
    \A d \in Agents : cur[d] # NoConn =>
        \A n \in InFlight(cur[d]) : log[n].kind # "card"

\* An agent is sent events of a conversation only if at some time it managed
\* it or was a joined member (or nobody was on record): an invitation alone,
\* even an approved one, opens nothing, and a system conversation never does.
OutsiderSeesNothing ==
    \A d \in Agents : cur[d] # NoConn =>
        \A n \in InFlight(cur[d]) : d \in insiders[log[n].convo]

\* An agent socket carries what its device may read, and nothing else.
AgentsSeeTheirOwn == NoCardToAgents /\ OutsiderSeesNothing

\* A registered agent will still receive every event it was entitled to when
\* the event was appended, unless its replay had already decided, before the
\* agent became a member, that the conversation is not replayed to it.
AgentFeed ==
    \A d \in Agents : LET k == cur[d] IN k # NoConn /\ Live(k) =>
        \A n \in pos[d] + 1 .. Len(log) :
            d \in log[n].to /\ d \in Audience(log[n].convo, owner, row) =>
                n \in InFlight(k) \/ known[k][log[n].convo] = "no"

\* Agents are sent what is theirs, in a bounded number of frames.
AgentsServed == AgentFeed /\ BoundedReplayBuffer

\* What the documentation says of an agent's feed, with no such exception.
JoinedHearsEverything ==
    \A d \in Agents : LET k == cur[d] IN k # NoConn /\ Live(k) =>
        \A n \in pos[d] + 1 .. Len(log) :
            d \in log[n].to /\ d \in Audience(log[n].convo, owner, row) =>
                n \in InFlight(k)

\* A client that stays on its socket catches up in the end, whatever was
\* appended before, during or after its replay.
CaughtUp ==
    \A d \in Clients :
        LET attached == cur[d] # NoConn /\ sock[cur[d]] = "open"
        IN  attached ~> (pos[d] = Len(log) \/ ~attached)
=============================================================================
