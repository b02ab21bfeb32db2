---------------------------- MODULE BoxRequests -----------------------------
(* Requests that the journal passes to a box and that somebody waits for:    *)
(* orders of the Coordinator (session_control, through the broker of         *)
(* rpc-broker.js, waiting for the box to wake if it sleeps) and calls of an  *)
(* app (agent_request).  The box briefly has two sockets when it reconnects; *)
(* those who ask connect, replay and disconnect.  Waking is BoxWake.         *)
EXTENDS Naturals, Sequences, FiniteSets, SequencesExt

CONSTANTS
  Orders,        \* session_control requests
  Calls,         \* agent_request requests
  Lines,         \* sockets of the Coordinator's box
  AppLines,      \* sockets of the app
  BoxLines,      \* sockets of the box that is asked
  MaxInFlight    \* SESSION_CONTROL_MAX_INFLIGHT

ASSUME ControlAssumption ==
  /\ MaxInFlight \in Nat \ {0}
  /\ Orders \cap Calls = {} /\ "gone" \notin Lines \cup AppLines

VARIABLES
  sock,      \* a socket that asks: "off", "replaying", "ready"
  asker,     \* the socket that waits for a request; "gone" when it closed
  stage,     \* of a request: "new", "waiting" for the box, "sent", or its result
  inFlight,  \* _sessionControlInflight of a connection
  runs,      \* how often the box was given a request
  held,      \* what the box works on
  attached,  \* the sockets of the box as they registered
  wakeable,  \* may the box be woken: isWakeableDevice
  missed     \* history: answers that a socket that asked, and is open, did not get

controlVars == <<sock, asker, stage, inFlight, runs, held, attached, wakeable, missed>>

Requested == Orders \cup Calls
Unsettled == {q \in Requested : stage[q] \in {"waiting", "sent"}}
Online == attached # <<>>

ControlInit ==
  /\ sock = [s \in Lines \cup AppLines |-> "off"]
  /\ asker = [q \in Requested |-> "gone"] /\ stage = [q \in Requested |-> "new"]
  /\ inFlight = [c \in Lines |-> 0] /\ runs = [q \in Requested |-> 0] /\ held = {}
  /\ attached = <<>> /\ wakeable = TRUE /\ missed = {}

----------------------------------------------------------------------------
(* Asking.                                                                  *)

\* hub.sendRpcRequest: the newest socket of the box.  Slip: each of them.
ToEach(q) == Len(attached')
ToNewest(q) == 1
Deliver(qs) ==
  /\ runs' = [q \in Requested |-> IF q \in qs THEN runs[q] + ToNewest(q) ELSE runs[q]]
  /\ held' = held \cup qs

\* Which sockets may ask: not before they are registered.  Slip: any open one.
OpenIsEnough(s) == sock[s] # "off"
MayAsk(s) == sock[s] = "ready"

\* session_control, accepted; a box that is neither there nor wakeable is
\* unreachable at once.
Order(q, c) ==
  /\ stage[q] = "new" /\ MayAsk(c) /\ inFlight[c] < MaxInFlight
  /\ Online \/ wakeable
  /\ inFlight' = [inFlight EXCEPT ![c] = @ + 1] /\ asker' = [asker EXCEPT ![q] = c]
  /\ stage' = [stage EXCEPT ![q] = IF Online THEN "sent" ELSE "waiting"]
  /\ UNCHANGED <<sock, attached, wakeable, missed>>
  /\ Deliver(IF Online THEN {q} ELSE {})
OrderRefused(q, c) ==
  /\ stage[q] = "new" /\ MayAsk(c) /\ ~Online /\ ~wakeable
  /\ stage' = [stage EXCEPT ![q] = "unreachable"]
  /\ UNCHANGED <<sock, asker, inFlight, runs, held, attached, wakeable, missed>>

\* agent_request: no queueing, but the box is woken for the next try.
Call(q, s) ==
  /\ stage[q] = "new" /\ MayAsk(s)
  /\ asker' = IF Online THEN [asker EXCEPT ![q] = s] ELSE asker
  /\ stage' = [stage EXCEPT ![q] = IF Online THEN "sent" ELSE "unreachable"]
  /\ UNCHANGED <<sock, inFlight, attached, wakeable, missed>>
  /\ Deliver(IF Online THEN {q} ELSE {})

----------------------------------------------------------------------------
(* Answers.                                                                 *)

\* hub.sendToDevice reaches the registered sockets of the device that asked.
Missing(q) == asker[q] # "gone" /\ sock[asker[q]] # "ready"

\* The finally of a session_control.  Slip: only what was done is counted down.
CountedIfDone(q, result) == IF result = "done" THEN 1 ELSE 0
CountedDown(q, result) == 1
Settle(q, result) ==
  /\ stage' = [stage EXCEPT ![q] = result]
  /\ inFlight' = IF q \in Orders /\ asker[q] # "gone"
       THEN [inFlight EXCEPT ![asker[q]] = @ - CountedDown(q, result)] ELSE inFlight
  /\ missed' = IF Missing(q) THEN missed \cup {q} ELSE missed
  /\ asker' = [asker EXCEPT ![q] = "gone"]
  /\ UNCHANGED <<sock, runs, attached, wakeable>>

\* waitForDevice ends without the box: issue finds nobody to send to.
WaitEnds(q) == stage[q] = "waiting" /\ Settle(q, "unreachable") /\ UNCHANGED held

\* The timer of the broker.
ReplyLate(q) == q \in Orders /\ stage[q] = "sent" /\ Settle(q, "timeout") /\ UNCHANGED held

\* agent_response: for the broker, or for the app.
Reply(q) == q \in held /\ Online /\ stage[q] = "sent" /\ Settle(q, "done") /\ held' = held \ {q}

\* The broker has given it up, or forgotten it: there is no device 0.
ReplyToNobody(q) ==
  /\ q \in held /\ Online /\ stage[q] # "sent" /\ held' = held \ {q}
  /\ UNCHANGED <<sock, asker, stage, inFlight, runs, attached, wakeable, missed>>

----------------------------------------------------------------------------
(* Sockets.                                                                 *)

SockOpens(s) ==
  /\ sock[s] = "off" /\ sock' = [sock EXCEPT ![s] = "replaying"]
  /\ UNCHANGED <<asker, stage, inFlight, runs, held, attached, wakeable, missed>>
SockReady(s) ==
  /\ sock[s] = "replaying" /\ sock' = [sock EXCEPT ![s] = "ready"]
  /\ UNCHANGED <<asker, stage, inFlight, runs, held, attached, wakeable, missed>>
SockCloses(s) ==
  /\ sock[s] # "off" /\ sock' = [sock EXCEPT ![s] = "off"]
  /\ asker' = [q \in Requested |-> IF asker[q] = s THEN "gone" ELSE asker[q]]
  /\ inFlight' = [c \in Lines |-> IF c = s THEN 0 ELSE inFlight[c]]
  /\ UNCHANGED <<stage, runs, held, attached, wakeable, missed>>

\* register: who waited for the box goes on.  Slip: nobody does.
NobodyReleased == {}
Awaited == {q \in Requested : stage[q] = "waiting"}
Attach(s) ==
  /\ s \notin Range(attached) /\ attached' = Append(attached, s)
  /\ stage' = [q \in Requested |-> IF q \in Awaited THEN "sent" ELSE stage[q]]
  /\ Deliver(Awaited)
  /\ UNCHANGED <<sock, asker, inFlight, wakeable, missed>>
Detach(s) ==
  /\ s \in Range(attached) /\ attached' = SelectSeq(attached, LAMBDA t : t # s)
  /\ UNCHANGED <<sock, asker, stage, inFlight, runs, held, wakeable, missed>>

\* The box is stopped, with what it works on.
BoxStops ==
  /\ Online /\ attached' = <<>> /\ held' = {}
  /\ UNCHANGED <<sock, asker, stage, inFlight, runs, wakeable, missed>>

\* A wake command was refused, or a box that was is not any more (BoxWake).
WakeableTurns ==
  /\ wakeable' = ~wakeable
  /\ UNCHANGED <<sock, asker, stage, inFlight, runs, held, attached, missed>>

\* The journal's process ends: waits, pending requests and sockets are lost.
ControlDies ==
  /\ sock' = [s \in Lines \cup AppLines |-> "off"] /\ asker' = [q \in Requested |-> "gone"]
  /\ stage' = [q \in Requested |-> IF q \in Unsettled THEN "lost" ELSE stage[q]]
  /\ inFlight' = [c \in Lines |-> 0] /\ attached' = <<>>
  /\ UNCHANGED <<runs, held, wakeable, missed>>

ControlNext ==
  \/ \E q \in Orders : WaitEnds(q) \/ ReplyLate(q)
  \/ \E q \in Orders : \E c \in Lines : Order(q, c) \/ OrderRefused(q, c)
  \/ \E q \in Calls : \E s \in AppLines : Call(q, s)
  \/ \E q \in Requested : Reply(q) \/ ReplyToNobody(q)
  \/ \E s \in Lines \cup AppLines : SockOpens(s) \/ SockReady(s) \/ SockCloses(s)
  \/ \E s \in BoxLines : Attach(s) \/ Detach(s)
  \/ BoxStops \/ WakeableTurns \/ ControlDies

ControlSpec == ControlInit /\ [][ControlNext]_controlVars

----------------------------------------------------------------------------
\* A request is given to the box once, however many sockets it has; what was
\* told unreachable was never given to it and what was told done was; a socket
\* that asked and is still there hears the answer; nobody waits for a box that
\* is there; and the count of a connection is that of its orders without an
\* answer, whichever way they end (hub.sendRpcRequest, session_control).
RequestsAnswered ==
  /\ \A q \in Requested :
       /\ runs[q] <= 1
       /\ stage[q] \in {"unreachable", "waiting"} => runs[q] = 0
       /\ stage[q] = "done" => runs[q] = 1
       /\ stage[q] = "waiting" => ~Online
  /\ missed = {}
  /\ \A c \in Lines :
       /\ inFlight[c] = Cardinality({q \in Orders \cap Unsettled : asker[q] = c})
       /\ inFlight[c] <= MaxInFlight
=============================================================================
