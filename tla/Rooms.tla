-------------------------------- MODULE Rooms --------------------------------
(***************************************************************************)
(* One agent chat room: how agents come into it and go (participants.js,   *)
(* invite-delivery.js, consent-answer.js, consent-items.js, the agent_* ops*)
(* and the sweep of ws.js).  The owner invites an agent, or an agent asks  *)
(* to join; the ask is a row that waits for the user, an approved row is   *)
(* relayed to the other side when it has a socket, and that side accepts   *)
(* or refuses.  A row that has ended is renewed by the next ask.           *)
(*                                                                         *)
(* The journal runs one handler at a time.  The admin tool is a process of *)
(* its own on the same database: it can write between two statements of a  *)
(* handler, which matters where a handler reads a row and then answers it  *)
(* (`answering`).                                                          *)
(*                                                                         *)
(* What a device believes is what frames have told it since its socket     *)
(* opened; a device that was away knows nothing.                           *)
(*                                                                         *)
(* Bounds: MaxAsks[g] asks about agent g, MaxGone revocations; an age stops*)
(* at its limit and is forgotten when the row no longer waits.             *)
(***************************************************************************)
EXTENDS Integers, FiniteSets

CONSTANTS
  Owner,        \* conversations.agent_device_id of the room
  Agents,       \* the other agent devices
  Sessions,     \* the owner's own conversations
  NoSession,    \* an ask that names none
  Child,        \* the session a spawn starts at its target
  NoAgent,      \* no answer is under way
  InviteTTL,    \* inviteTtlMs, in ticks
  AskTTL,       \* AWAITING_USER_TTL_MS, in ticks
  MaxAwaiting,  \* MAX_AWAITING_PER_REQUESTER
  MaxAsks,      \* asks about each agent
  MaxGone       \* revoked devices

ASSUME RoomAssumption ==
  /\ Owner \notin Agents /\ NoAgent \notin Agents
  /\ NoSession \notin Sessions \cup Agents
  /\ Sessions \cap Agents = {}
  /\ Child \notin Sessions \cup Agents
  /\ {InviteTTL, AskTTL} \subseteq Nat \ {0}
  /\ {MaxAwaiting, MaxGone} \subseteq Nat
  /\ MaxAsks \in [Agents -> Nat]

VARIABLES
  \* the rows of convo_agents, one for each agent
  state,      \* "none": there is no row
  asker,      \* initiator_device_id
  source,     \* initiator_convo_id
  age,        \* ticks since created_at
  delivered,  \* ticks since delivered_at, or Never
  itemOf,     \* the ask whose item item_id names, 0 for none
  bySpawn,    \* spawn_id is set
  \* the rest of the database
  open,       \* the asks of each agent whose tracker item is open
  convos,     \* room_owner_convos
  spawn,      \* the spawn this room was made for
  gone,       \* revoked devices
  \* the process
  sock,       \* devices with a registered socket
  answering,  \* an answer between its read and its write
  \* what the devices believe
  hope,       \* of the asker: how its last ask stands
  inRoom,     \* agents that were told they are in the room
  over,       \* the owner was told the room has ended
  \* history
  nth,        \* how many asks there were about an agent
  approved,   \* the last of them was approved
  frames,     \* request frames sent for it
  brought     \* sessions of the owner brought in since it last left

row == <<state, asker, source, age, delivered, bySpawn>>
items == <<itemOf, open>>
beliefs == <<hope, inRoom, over>>
history == <<nth, approved, frames, brought>>
vars == <<row, items, convos, spawn, gone, sock, answering, beliefs, history>>

Devices == {Owner} \cup Agents
Never == -1
Pending == {"awaiting_user", "invited"}
Live == Pending \cup {"joined"}
Renewable == {"none", "refused", "denied", "left", "expired"}

Free == answering = [agent |-> NoAgent]
Joined == {g \in Agents : state[g] = "joined"}

\* Who the relayed row goes to: the owner for a join request.
Recipient(g) == IF asker[g] = g THEN Owner ELSE g
Connected(g) == asker[g] \in sock

\* f, with the value v for the members of S.
With(f, S, v) == [g \in Agents |-> IF g \in S THEN v ELSE f[g]]

-----------------------------------------------------------------------------
(* Pieces of handlers. *)

\* undeliveredInvites, for recipients in D that have a socket.  `now` is the
\* state of the rows when the pump runs.  Slip: any row without a stamp.
UnstampedRows(now, D) ==
  {g \in Agents : now[g] \in Pending /\ delivered[g] = Never /\ Recipient(g) \in D \cap sock}
Undelivered(now, D) ==
  {g \in Agents : now[g] = "invited" /\ delivered[g] = Never /\ Recipient(g) \in D \cap sock}

\* markDelivered for the rows the pump sent.  Slip: the stamp is forgotten.
Unstamped(S) == delivered
Stamped(S) == With(delivered, S, 0)

Sent(S) == [g \in Agents |-> IF g \in S THEN frames[g] + 1 ELSE frames[g]]

\* recordOwnerConvo: for the owner's session, in a room somebody is in.
RecordOwner(s, device, live) ==
  IF s # NoSession /\ device = Owner /\ live THEN convos \cup {s} ELSE convos

\* closeChatConsentItem closes what item_id names.
Closed(S) == [g \in Agents |-> IF g \in S THEN open[g] \ {itemOf[g]} ELSE open[g]]

\* The asker of a row in S hears, if it is connected.
Hears(S, what) == [g \in Agents |-> IF g \in S /\ Connected(g) THEN what ELSE hope[g]]

\* The process dies, with f the frames it sent.  A request whose row was not
\* stamped is sent again by the next process.
Died(f) ==
  /\ sock' = {}
  /\ answering' = [agent |-> NoAgent]
  /\ hope' = [g \in Agents |-> "idle"]
  /\ inRoom' = {}
  /\ over' = FALSE
  /\ frames' = [g \in Agents |-> IF delivered'[g] = Never THEN 0 ELSE f[g]]

-----------------------------------------------------------------------------
(* Asking. *)

\* What upsertRow does with delivered_at.
FreshStamp(g) == [delivered EXCEPT ![g] = Never]

Outstanding(d) == {g \in Agents : state[g] = "awaiting_user" /\ asker[g] = d}

\* parkInvite and fileChatConsentItem: `filed` says whether the item could be
\* filed; if not, item_id keeps what it had.
Park(g, d, s, filed) ==
  /\ Free
  /\ d \in sock \ gone
  /\ state[g] \in Renewable
  /\ Cardinality(Outstanding(d)) < MaxAwaiting
  /\ nth[g] < MaxAsks[g]
  /\ state' = [state EXCEPT ![g] = "awaiting_user"]
  /\ asker' = [asker EXCEPT ![g] = d]
  /\ source' = [source EXCEPT ![g] = s]
  /\ age' = [age EXCEPT ![g] = 0]
  /\ delivered' = FreshStamp(g)
  /\ bySpawn' = [bySpawn EXCEPT ![g] = FALSE]
  /\ itemOf' = IF filed THEN [itemOf EXCEPT ![g] = nth[g] + 1] ELSE itemOf
  /\ open' = IF filed THEN [open EXCEPT ![g] = @ \cup {nth[g] + 1}] ELSE open
  /\ hope' = [hope EXCEPT ![g] = "waiting"]
  /\ nth' = [nth EXCEPT ![g] = @ + 1]
  /\ approved' = [approved EXCEPT ![g] = FALSE]
  /\ frames' = [frames EXCEPT ![g] = 0]
  /\ UNCHANGED <<convos, spawn, gone, sock, answering, inRoom, over, brought>>

Invite(g, s, filed) == g \notin gone /\ Park(g, Owner, s, filed)
\* The joiner's session is called after the joiner.
Join(g, filed) == Park(g, g, g, filed)

-----------------------------------------------------------------------------
(* The user, the Coordinator or the admin tool answers. *)

\* answerParkedInvite: nothing unless the row still waits.
Answered(g, approve) ==
  IF state[g] = "awaiting_user"
    THEN [state EXCEPT ![g] = IF approve THEN "invited" ELSE "denied"]
    ELSE state
Restarted(g) ==
  IF state[g] = "awaiting_user" THEN [age EXCEPT ![g] = 0] ELSE age
Approval(g, approve) ==
  IF state[g] = "awaiting_user" THEN [approved EXCEPT ![g] = approve] ELSE approved

\* answerChatAsk reads the row: on the card, or on the item that item_id
\* names, whatever ask that item was filed for.
ReadAsk(g, approve, onItem) ==
  /\ Free
  /\ state[g] = "awaiting_user"
  /\ onItem => itemOf[g] # 0
  /\ answering' = [agent |-> g, approve |-> approve, item |-> IF onItem THEN itemOf[g] ELSE 0]
  /\ UNCHANGED <<row, items, convos, spawn, gone, sock, beliefs, history>>

\* The rest of answerChatAsk; it does not look at what answerParkedInvite
\* returns.
Decline ==
  LET g == answering.agent IN
  /\ ~answering.approve
  /\ state' = Answered(g, FALSE)
  /\ approved' = Approval(g, FALSE)
  /\ open' = Closed({g})
  /\ hope' = Hears({g}, "refused")
  /\ age' = Restarted(g)
  /\ UNCHANGED <<delivered, frames>>
Approve ==
  LET g == answering.agent
      sent == Undelivered(Answered(g, TRUE), {Recipient(g)}) IN
  /\ answering.approve
  /\ state' = Answered(g, TRUE)
  /\ approved' = Approval(g, TRUE)
  /\ age' = Restarted(g)
  /\ open' = Closed({g})
  /\ delivered' = Stamped(sent)
  /\ frames' = Sent(sent)
  /\ UNCHANGED hope
WriteAnswer ==
  /\ ~Free
  /\ Decline \/ Approve
  /\ answering' = [agent |-> NoAgent]
  /\ UNCHANGED <<asker, source, bySpawn, itemOf, convos, spawn, gone, sock, inRoom, over, nth, brought>>

\* The process dies after the row is answered.
AnswerDies ==
  /\ ~Free
  /\ state' = Answered(answering.agent, answering.approve)
  /\ age' = Restarted(answering.agent)
  /\ approved' = Approval(answering.agent, answering.approve)
  /\ UNCHANGED <<asker, source, delivered, bySpawn, items, convos, spawn, gone, nth, brought>>
  /\ Died(frames)

\* matron-admin agent-chat approve|deny: it has no sockets to tell anybody.
Admin(g, approve) ==
  /\ state[g] = "awaiting_user"
  /\ state' = Answered(g, approve)
  /\ age' = Restarted(g)
  /\ approved' = Approval(g, approve)
  /\ open' = Closed({g})
  /\ hope' = IF ~approve /\ hope[g] = "waiting" THEN [hope EXCEPT ![g] = "untold"] ELSE hope
  /\ UNCHANGED <<asker, source, delivered, bySpawn, itemOf, convos, spawn, gone, sock, answering, inRoom, over,
                 nth, frames, brought>>

\* The user closes the item: that is no answer.
CloseByHand(g, k) ==
  /\ Free
  /\ open' = [open EXCEPT ![g] = @ \ {k}]
  /\ UNCHANGED <<row, itemOf, convos, spawn, gone, sock, answering, beliefs, history>>

-----------------------------------------------------------------------------
(* The other side answers, members leave, the owner dissolves. *)

Accept(g) ==
  /\ state' = [state EXCEPT ![g] = "joined"]
  /\ convos' = RecordOwner(source[g], asker[g], TRUE)
  /\ brought' = IF asker[g] = Owner /\ source[g] \in Sessions THEN brought \cup {source[g]} ELSE brought
  /\ hope' = Hears({g}, "accepted")
  /\ inRoom' = inRoom \cup ({g} \cap sock)
  /\ over' = (over /\ Owner \notin sock)
Refuse(g) ==
  /\ state' = [state EXCEPT ![g] = "refused"]
  /\ hope' = Hears({g}, "refused")
  /\ UNCHANGED <<convos, brought, inRoom, over>>

\* agent_invite_answer, by the side that did not ask.
AnswerInvite(g) ==
  /\ Free
  /\ Recipient(g) \in sock \ gone
  /\ state[g] = "invited"
  /\ Accept(g) \/ Refuse(g)
  /\ age' = [age EXCEPT ![g] = 0]
  /\ UNCHANGED <<asker, source, delivered, bySpawn, items, spawn, gone, sock, answering, nth, approved, frames>>

\* What the owner hears when g leaves: `left` ends its room, `member_left`
\* does not.  Slip: always `left`.
LeftIsOver(g) == TRUE
LastLeaves(g) == Joined = {g}

\* agent_leave by a member.
Leave(g) ==
  /\ Free
  /\ g \in sock \ gone
  /\ g \in Joined
  /\ state' = [state EXCEPT ![g] = "left"]
  /\ inRoom' = inRoom \ {g}
  /\ over' = (over \/ (Owner \in sock /\ LastLeaves(g)))
  /\ UNCHANGED <<asker, source, age, delivered, bySpawn, items, convos, spawn, gone, sock, answering, hope, history>>

\* Rows of a dissolved room whose asker is owed a refusal.
Owed == {g \in Agents : state[g] \in Pending /\ asker[g] # Owner}

\* leaveAllParticipants.  Slip: room_owner_convos is not emptied.
SessionsStay == convos
SessionsAfter == {}

\* agent_leave by the owner.
Dissolve ==
  LET ending == {g \in Agents : state[g] \in Live} IN
  /\ Free
  /\ Owner \in sock \ gone
  /\ \E g \in Agents : state[g] # "none"
  /\ state' = With(state, ending, "left")
  /\ convos' = SessionsAfter
  /\ open' = Closed({g \in Agents : state[g] \in Pending})
  /\ hope' = [g \in Agents |-> IF g \in Owed /\ Connected(g) THEN "refused"
                               ELSE IF asker[g] = Owner THEN "idle" ELSE hope[g]]
  /\ inRoom' = inRoom \ Joined
  /\ over' = TRUE
  /\ brought' = {}
  /\ age' = With(age, ending, 0)
  /\ UNCHANGED <<asker, source, delivered, bySpawn, itemOf, spawn, gone, sock, answering, nth, approved, frames>>

-----------------------------------------------------------------------------
(* A spawn makes the room with the target in it; its session comes later. *)

SpawnOpens(g) ==
  /\ Free
  /\ spawn.step = "none"
  /\ gone = {}
  /\ \A a \in Agents : nth[a] = 0
  /\ spawn' = [step |-> "starting", target |-> g]
  /\ state' = [state EXCEPT ![g] = "joined"]
  /\ asker' = [asker EXCEPT ![g] = Owner]
  /\ bySpawn' = [bySpawn EXCEPT ![g] = TRUE]
  /\ nth' = [nth EXCEPT ![g] = 1]
  /\ approved' = [approved EXCEPT ![g] = TRUE]
  /\ UNCHANGED <<source, age, delivered, items, convos, gone, sock, answering, beliefs, frames, brought>>

\* markStarted; s is the session that asked.
SpawnStarts(s) ==
  /\ Free
  /\ spawn.step = "starting"
  /\ spawn' = [step |-> "started", target |-> spawn.target]
  /\ convos' = RecordOwner(s, Owner, Joined # {})
  /\ brought' = IF Joined # {} THEN brought \cup {s} ELSE brought
  /\ UNCHANGED <<row, items, gone, sock, answering, beliefs, nth, approved, frames>>

-----------------------------------------------------------------------------
(* Sockets, revocation, the sweep. *)

\* hello of an agent ends in a pump for this device.
Connect(d) ==
  /\ Free
  /\ d \notin sock \cup gone
  /\ LET sent == {g \in Agents : state[g] = "invited" /\ delivered[g] = Never /\ Recipient(g) = d} IN
       /\ delivered' = Stamped(sent)
       /\ frames' = Sent(sent)
  /\ sock' = sock \cup {d}
  /\ UNCHANGED <<state, asker, source, age, bySpawn, items, convos, spawn, gone, answering, beliefs, nth, approved, brought>>

Forgets(d) ==
  /\ hope' = With(hope, {g \in Agents : asker[g] = d}, "idle")
  /\ inRoom' = inRoom \ {d}
  /\ over' = (over /\ d # Owner)

Disconnect(d) ==
  /\ Free
  /\ d \in sock
  /\ sock' = sock \ {d}
  /\ Forgets(d)
  /\ UNCHANGED <<row, items, convos, spawn, gone, answering, history>>

\* Deleting a device takes its row along, not the rows it asked for; its
\* socket closes later.
RevokeAgent(g) ==
  /\ state' = [state EXCEPT ![g] = "none"]
  /\ source' = [source EXCEPT ![g] = NoSession]
  /\ age' = [age EXCEPT ![g] = 0]
  /\ delivered' = [delivered EXCEPT ![g] = Never]
  /\ bySpawn' = [bySpawn EXCEPT ![g] = FALSE]
  /\ itemOf' = [itemOf EXCEPT ![g] = 0]
  /\ hope' = IF hope[g] = "waiting" THEN [hope EXCEPT ![g] = "untold"] ELSE hope
  /\ UNCHANGED asker
Revoke(d) ==
  /\ Free
  /\ d \notin gone
  /\ Cardinality(gone) < MaxGone
  /\ gone' = gone \cup {d}
  /\ IF d = Owner THEN UNCHANGED <<row, itemOf, hope>> ELSE RevokeAgent(d)
  /\ UNCHANGED <<open, convos, spawn, sock, answering, inRoom, over, history>>

\* expireInvites: its clock starts with the delivery.
Lapsed == {g \in Agents : state[g] = "invited" /\ delivered[g] >= InviteTTL}

\* expireAwaiting.
TimedOut == {g \in Agents : state[g] = "awaiting_user" /\ age[g] >= AskTTL}

\* reconcileConsentItems: what stays open.  Slip: items whose row is gone or
\* names another item are overlooked.
StillLinked(now) ==
  [g \in Agents |-> {k \in open[g] : now[g] = "awaiting_user" \/ itemOf[g] # k}]
StillAsked(now) ==
  [g \in Agents |-> {k \in open[g] : now[g] = "awaiting_user" /\ itemOf[g] = k}]

Sweep ==
  LET sent == Undelivered(state, Devices)
      after == With(state, Lapsed \cup TimedOut, "expired") IN
  /\ Free
  /\ state' = after
  /\ delivered' = Stamped(sent)
  /\ frames' = Sent(sent)
  /\ open' = StillAsked(after)
  /\ sock' = sock \ gone
  /\ hope' = [g \in Agents |-> IF asker[g] \in gone THEN "idle"
                               ELSE Hears(Lapsed \cup TimedOut, "refused")[g]]
  /\ inRoom' = inRoom \ gone
  /\ over' = (over /\ Owner \notin gone)
  /\ age' = With(age, Lapsed \cup TimedOut, 0)
  /\ UNCHANGED <<asker, source, bySpawn, itemOf, convos, spawn, gone, answering, nth, approved, brought>>

\* The process dies in the sweep, after one of its two statements on rows.
SweepDies(both) ==
  LET sent == IF both THEN Undelivered(state, Devices) ELSE {}
      ended == IF both THEN Lapsed \cup TimedOut ELSE Lapsed IN
  /\ Free
  /\ state' = With(state, ended, "expired")
  /\ age' = With(age, ended, 0)
  /\ delivered' = Stamped(sent)
  /\ UNCHANGED <<asker, source, bySpawn, items, convos, spawn, gone, nth, approved, brought>>
  /\ Died(Sent(sent))

\* The process dies between two handlers, or between the sending of a request
\* and its stamp.
Killed ==
  /\ UNCHANGED <<row, items, convos, spawn, gone, nth, approved, brought>>
  /\ Died(frames)

Tick ==
  /\ age' = [g \in Agents |->
       IF \/ state[g] = "awaiting_user" /\ age[g] < AskTTL
          \/ state[g] = "invited" /\ age[g] < InviteTTL
         THEN age[g] + 1 ELSE age[g]]
  /\ delivered' = [g \in Agents |->
       IF state[g] = "invited" /\ delivered[g] \in 0..InviteTTL - 1 THEN delivered[g] + 1 ELSE delivered[g]]
  /\ UNCHANGED <<state, asker, source, bySpawn, items, convos, spawn, gone, sock, answering, beliefs, history>>

-----------------------------------------------------------------------------
Init ==
  /\ state = [g \in Agents |-> "none"]
  /\ asker = [g \in Agents |-> Owner]
  /\ source = [g \in Agents |-> NoSession]
  /\ age = [g \in Agents |-> 0]
  /\ delivered = [g \in Agents |-> Never]
  /\ itemOf = [g \in Agents |-> 0]
  /\ bySpawn = [g \in Agents |-> FALSE]
  /\ open = [g \in Agents |-> {}]
  /\ convos = {}
  /\ spawn = [step |-> "none", target |-> NoAgent]
  /\ gone = {}
  /\ sock = {}
  /\ answering = [agent |-> NoAgent]
  /\ hope = [g \in Agents |-> "idle"]
  /\ inRoom = {}
  /\ over = FALSE
  /\ nth = [g \in Agents |-> 0]
  /\ approved = [g \in Agents |-> FALSE]
  /\ frames = [g \in Agents |-> 0]
  /\ brought = {}

Next ==
  \/ \E g \in Agents :
       \/ \E filed \in BOOLEAN : Join(g, filed) \/ \E s \in Sessions \cup {NoSession} : Invite(g, s, filed)
       \/ \E approve \in BOOLEAN : Admin(g, approve) \/ \E onItem \in BOOLEAN : ReadAsk(g, approve, onItem)
       \/ \E k \in open[g] : CloseByHand(g, k)
       \/ AnswerInvite(g) \/ Leave(g) \/ SpawnOpens(g)
  \/ \E d \in Devices : Connect(d) \/ Disconnect(d) \/ Revoke(d)
  \/ \E s \in Sessions : SpawnStarts(s)
  \/ \E both \in BOOLEAN : SweepDies(both)
  \/ WriteAnswer \/ AnswerDies \/ Dissolve \/ Sweep \/ Killed \/ Tick

\* A handler ends, the clock goes on; and however often the process is killed,
\* it does not always die before its sweep timer fires.
Fairness == WF_vars(WriteAnswer) /\ SF_vars(Sweep) /\ WF_vars(Tick)

Spec == Init /\ [][Next]_vars /\ Fairness

-----------------------------------------------------------------------------
(* Properties. *)

\* Types; and a row that waits for the user, or was denied, has no
\* delivered_at, so that an approval is always relayed.
TypeOK ==
  /\ state \in [Agents -> Live \cup Renewable]
  /\ asker \in [Agents -> Devices]
  /\ source \in [Agents -> Sessions \cup Agents \cup {NoSession}]
  /\ age \in [Agents -> Nat]
  /\ delivered \in [Agents -> {Never} \cup 0..InviteTTL]
  /\ itemOf \in [Agents -> Nat]
  /\ bySpawn \in [Agents -> BOOLEAN]
  /\ open \in [Agents -> SUBSET Nat]
  /\ convos \subseteq Sessions
  /\ spawn \in [step : {"none", "starting", "started"}, target : Agents \cup {NoAgent}]
  /\ gone \subseteq Devices
  /\ sock \subseteq Devices
  /\ answering \in [agent : {NoAgent}] \cup [agent : Agents, approve : BOOLEAN, item : Nat]
  /\ hope \in [Agents -> {"idle", "waiting", "accepted", "refused", "untold"}]
  /\ inRoom \subseteq Agents
  /\ over \in BOOLEAN
  /\ nth \in [Agents -> Nat]
  /\ approved \in [Agents -> BOOLEAN]
  /\ frames \in [Agents -> Nat]
  /\ brought \subseteq Sessions
  /\ \A g \in Agents : state[g] \in {"none", "awaiting_user", "denied"} => delivered[g] = Never

\* Nothing of an ask reaches the other side, and nobody enters the room,
\* before somebody approved that very ask: not on the strength of an earlier
\* one of the same agents.
ConsentFirst ==
  \A g \in Agents : frames[g] > 0 \/ state[g] \in {"invited", "joined"} => approved[g]

\* The three callers of the pump send an approved ask once while the process
\* lives, and delivered_at never stands on a row whose request was not sent.
RelayedOnce ==
  \A g \in Agents : /\ frames[g] <= 1
                    /\ state[g] = "invited" /\ delivered[g] # Never => frames[g] = 1

\* The time to answer an invitation begins when it is relayed: one that waits
\* for a sleeping box, or was only just delivered, does not expire.
AnswerWindow ==
  [][\A g \in Agents : state[g] = "invited" /\ state'[g] = "expired" => delivered[g] = InviteTTL]_vars

\* What a device with a socket has been told is so.  An agent that waits for
\* an answer has an ask that can still be answered, however asks may end (the
\* admin tool and a revocation tell nobody: "untold"); an agent told that it
\* is in the room is in it; and the owner hears of the end of the room when
\* its last member has left, not before.
BeliefsAreTrue ==
  /\ \A g \in Agents : hope[g] = "waiting" => Connected(g) /\ state[g] \in Pending
  /\ \A g \in Agents : hope[g] = "accepted" => state[g] \in {"joined", "left", "none"}
  /\ inRoom \subseteq Joined \cup gone
  /\ over => Joined = {}

\* participantConvoIds.
Participants ==
  (IF Joined = {} THEN {} ELSE convos)
    \cup {g \in Joined : ~bySpawn[g]}
    \cup (IF spawn.step = "started" /\ spawn.target \in Joined /\ bySpawn[spawn.target] THEN {Child} ELSE {})

\* The sessions shown in a room that lives are those of its members' present
\* memberships and the owner's sessions that an accepted ask brought in since
\* the owner last left: a renewed row, an ask that is not accepted, a room
\* dissolved and filled again change nothing else.
SessionsInTheRoom ==
  Joined # {} =>
    /\ Participants \cap Sessions = brought
    /\ \A g \in Joined : (g \in Participants) <=> (g # spawn.target \/ nth[g] > 1)
    /\ Child \in Participants => spawn.target \in Joined /\ nth[spawn.target] = 1

\* An ask ends, one way or the other, and so does an invitation that was
\* relayed; no tracker item stays open for one that has ended.
AsksEnd ==
  []<>(\A g \in Agents : /\ state[g] # "awaiting_user"
                       /\ ~(state[g] = "invited" /\ delivered[g] # Never)
                       /\ open[g] = {})

\* consent-answer.js: "a tap answers exactly the ask the item was filed for".
TapAnswersItsAsk ==
  [][\A g \in Agents :
       ~Free /\ answering.agent = g /\ answering.item # 0 /\ state'[g] # state[g] /\ Free'
         => answering.item = nth[g]]_vars
=============================================================================
