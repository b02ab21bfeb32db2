------------------------------- MODULE Spawns -------------------------------
(***************************************************************************)
(* One agent asks the user for a session on another box (spawns.js,        *)
(* consent-answer.js, rpc-broker.js, the sweep of ws.js).  The ask is a    *)
(* row that waits for the user or for the user's Coordinator; an approval  *)
(* claims the row and starts an orchestration in memory, which may wait    *)
(* for a sleeping box, sends it one `start` and waits for the reply; the   *)
(* row then says how it ended and the asking session is told.  A tracker   *)
(* item mirrors the ask while it waits.                                    *)
(*                                                                         *)
(* What the database holds survives a crash, what the process holds does   *)
(* not.  A handler makes its writes one after the other, each its own      *)
(* transaction: `n` of an action counts the writes made after the first,   *)
(* and an action that makes fewer than all of them is the one the process  *)
(* dies in.                                                                *)
(*                                                                         *)
(* Time: one tick is the unit of the timeouts below.  A timer fires before *)
(* the clock passes it (one event loop drives both).  Bounds: each request *)
(* is made once, an age stops counting at the limit the code compares it   *)
(* with.                                                                   *)
(***************************************************************************)
EXTENDS Naturals, Sequences, FiniteSets

CONSTANTS
  Requests,      \* the asks that will ever be made
  Linked,        \* those that want a room with the child session
  AskTTL,        \* AWAITING_USER_TTL_MS
  WakeWait,      \* spawnWakeWaitMs
  StartTimeout,  \* spawnStartTimeoutMs
  DailyCap       \* consentDailyCap

ASSUME SpawnAssumption ==
  /\ Linked \subseteq Requests
  /\ {AskTTL, WakeWait, StartTimeout} \subseteq Nat \ {0}
  /\ DailyCap \in Nat

VARIABLES
  row,        \* state of the request: agent_spawn_requests.state
  age,        \* ticks since it was made or, once approved, since the answer
  rooms,      \* requests whose room exists and is named by the row
  item,       \* its tracker item: open, or closed (or never filed)
  told,       \* the spawn_outcome events in the asking conversation
  epitaph,    \* how many "spawn failed" texts its room holds
  recent,     \* approvals of the Coordinator in the last 24 hours
  auto,       \* those of them the setting gave, without a question
  consent,    \* may the Coordinator answer?
  task,       \* the orchestration in memory and what its timer still has
  verifying,  \* asks whose approval waits for the verifier
  online,     \* has the target box a socket?
  asked,      \* requests whose `start` the box has, or has been sent
  ran,        \* history: sessions the box started for the request
  cut         \* history: requests whose last handler died before its end

durable == <<row, age, rooms, item, told, epitaph, recent, auto, consent>>
volatile == <<task, verifying, online>>
vars == <<durable, volatile, asked, ran, cut>>

Ended == {"started", "denied", "expired", "failed"}
Idle == [step |-> "none", left |-> 0]
All == 3

\* ws.js:367.  Slip: the wait for a sleeping box is forgotten.
OrphanTTLUnwoken == 2 * StartTimeout
OrphanTTL == 2 * (StartTimeout + WakeWait)

Longest == IF WakeWait > StartTimeout THEN WakeWait ELSE StartTimeout
Oldest == IF AskTTL > OrphanTTL THEN AskTTL ELSE OrphanTTL

-----------------------------------------------------------------------------
(* The writes handlers are made of. *)

\* A death of the process: sockets, orchestrations and questions to the
\* verifier go.  What a box has been sent, it may still do.
Died ==
  /\ task' = [r \in Requests |-> Idle]
  /\ verifying' = {}
  /\ online' = FALSE

\* Slip: only an orchestration writes the text, the sweep forgets it.
BuriedAlive(ends, done) ==
  {r \in DOMAIN ends : ends[r] = "failed" /\ done[r] >= 1 /\ r \in rooms /\ task[r] # Idle}
Buried(ends, done) ==
  {r \in DOMAIN ends : ends[r] = "failed" /\ done[r] >= 1 /\ r \in rooms}

\* The rows of `ends` reach an end.  Of the writes that follow the change of
\* state, done[r] are made: 1 the epitaph, 2 the outcome, 3 the item.
\* `closing` are the requests whose items are closed, if they are open.
Settle(ends, done, closing) ==
  LET over == DOMAIN ends IN
  /\ row' = [r \in Requests |-> IF r \in over THEN ends[r] ELSE row[r]]
  /\ age' = [r \in Requests |-> IF r \in over THEN 0 ELSE age[r]]
  /\ epitaph' = [r \in Requests |-> IF r \in Buried(ends, done) THEN epitaph[r] + 1 ELSE epitaph[r]]
  /\ told' = [r \in Requests |-> IF r \in over /\ done[r] >= 2 THEN Append(told[r], ends[r]) ELSE told[r]]
  /\ item' = [r \in Requests |-> IF r \in closing /\ item[r] = "open" THEN "closed" ELSE item[r]]
  /\ cut' = cut \cup {r \in over : done[r] < All}
  /\ UNCHANGED <<rooms, recent, auto, consent>>

\* One row ends, n of the writes of its tail are made.
SettleOne(r, end, n) ==
  Settle([x \in {r} |-> end], [x \in {r} |-> n], IF n = All THEN {r} ELSE {})

\* An orchestration ends: markFailed and markStarted touch an approved row
\* only.
Conclude(r, end, n) ==
  /\ IF row[r] = "approved" THEN SettleOne(r, end, n) ELSE UNCHANGED <<durable, cut>>
  /\ IF n = All THEN task' = [task EXCEPT ![r] = Idle] /\ UNCHANGED <<verifying, online>>
                ELSE Died

-----------------------------------------------------------------------------
(* Asking and answering. *)

\* spawn_request: the row, the card, the item (which may fail to be filed).
Ask(r, filed) ==
  /\ row[r] = "none"
  /\ row' = [row EXCEPT ![r] = "awaiting"]
  /\ item' = [item EXCEPT ![r] = IF filed THEN "open" ELSE "closed"]
  /\ UNCHANGED <<age, rooms, told, epitaph, recent, auto, consent, volatile, asked, ran, cut>>

\* A linked ask gets a room.
RoomFor(r) == {r} \cap Linked

\* The first wait of an orchestration, and how long its timer runs.
FirstStep(fate) ==
  IF fate = "waking" THEN [step |-> "wake", left |-> WakeWait]
  ELSE IF fate = "sent" THEN [step |-> "call", left |-> StartTimeout]
  ELSE Idle

\* What an approval does after the claim.  `fate` is what the orchestration
\* meets at once: a sleeping box that is being woken, a box that takes the
\* request, no box, or a mission that has been closed meanwhile.
Launch(r, fate) ==
  /\ UNCHANGED online
  /\ rooms' = IF fate = "mission_closed" THEN rooms ELSE rooms \cup RoomFor(r)
  /\ fate \in {"waking", "unreachable"} => ~online
  /\ fate = "sent" => online
  /\ row' = [row EXCEPT ![r] = IF fate \in {"waking", "sent"} THEN "approved" ELSE "failed"]
  /\ told' = [told EXCEPT ![r] = IF fate \in {"waking", "sent"} THEN @ ELSE Append(@, "failed")]
  /\ epitaph' = [epitaph EXCEPT ![r] = IF fate = "unreachable" /\ r \in rooms' THEN @ + 1 ELSE @]
  /\ task' = [task EXCEPT ![r] = FirstStep(fate)]
  /\ asked' = IF fate = "sent" THEN asked \cup {r} ELSE asked

\* answerSpawnAsk, approve: the claim, then 1 the item, 2 the record of a
\* Coordinator's decision, 3 the orchestration up to its first wait.
Approved(r, by, n) ==
  /\ age' = [age EXCEPT ![r] = 0]
  /\ item' = [item EXCEPT ![r] = IF n >= 1 THEN "closed" ELSE IF by = "setting" THEN "open" ELSE @]
  /\ recent' = IF n >= 2 /\ by # "user" THEN recent \cup {r} ELSE recent
  /\ auto' = IF n >= 2 /\ by = "setting" THEN auto \cup {r} ELSE auto
  /\ IF n = All
       THEN /\ verifying' = IF by = "verified" THEN verifying \ {r} ELSE verifying
            /\ \E fate \in {"waking", "sent", "unreachable", "mission_closed"} : Launch(r, fate)
       ELSE /\ row' = [row EXCEPT ![r] = "approved"]
            /\ UNCHANGED <<rooms, told, epitaph, asked>>
            /\ Died
  /\ UNCHANGED <<consent, ran, cut>>

\* Slip: claimApprove forgets to ask for a row that waits.
ApproveTwice(r, by, n) == row[r] \in {"awaiting", "approved", "failed"} /\ Approved(r, by, n)
Approve(r, by, n) == row[r] = "awaiting" /\ Approved(r, by, n)

\* answerSpawnAsk, decline, from the user or from the Coordinator.
\* Slip: denySpawn forgets to ask for a row that waits.
DenyLate(r, n) ==
  /\ row[r] # "none"
  /\ SettleOne(r, "denied", n)
  /\ IF n = All THEN UNCHANGED volatile ELSE Died
  /\ UNCHANGED <<asked, ran>>
Deny(r, n) ==
  /\ row[r] = "awaiting"
  /\ SettleOne(r, "denied", n)
  /\ IF n = All THEN UNCHANGED volatile ELSE Died
  /\ UNCHANGED <<asked, ran>>

\* approvalAllowed
UnderCap == Cardinality(recent) < DailyCap

\* POST /consent/answer on an ask a person is behind: answered in one go.
CoordinatorApproves(r, n) == consent /\ UnderCap /\ Approve(r, "coordinator", n)

\* POST /consent/answer on an ask a routine is behind: a verifier is asked
\* first, and everything is looked at again when it answers.
AskVerifier(r) ==
  /\ consent /\ row[r] = "awaiting" /\ r \notin verifying
  /\ verifying' = verifying \cup {r}
  /\ UNCHANGED <<durable, task, online, asked, ran, cut>>
\* Slip: the cap is the one of before the question.
VerifiedUncapped(r, n) == r \in verifying /\ consent /\ Approve(r, "verified", n)
Verified(r, n) == r \in verifying /\ consent /\ UnderCap /\ Approve(r, "verified", n)
Unverified(r) ==
  /\ r \in verifying
  /\ verifying' = verifying \ {r}
  /\ UNCHANGED <<durable, task, online, asked, ran, cut>>

\* An ask of the Coordinator's own conversation under the setting that
\* approves those: asked and approved by one handler.
AutoAsk(r, n) ==
  /\ row[r] = "none" /\ consent /\ online
  /\ Approved(r, "setting", n)

\* The user switches the Coordinator's answers on or off, or closes the item
\* by hand (which answers nothing); a day passes over an approval.
Switch == consent' = ~consent /\ UNCHANGED <<row, age, rooms, item, told, epitaph, recent, auto, volatile, asked, ran, cut>>
CloseByHand(r) ==
  /\ item[r] = "open"
  /\ item' = [item EXCEPT ![r] = "closed"]
  /\ UNCHANGED <<row, age, rooms, told, epitaph, recent, auto, consent, volatile, asked, ran, cut>>
DayPasses(r) ==
  /\ r \in recent
  /\ recent' = recent \ {r} /\ auto' = auto \ {r}
  /\ UNCHANGED <<row, age, rooms, item, told, epitaph, consent, volatile, asked, ran, cut>>

-----------------------------------------------------------------------------
(* The orchestration and the box. *)

\* The box registers a socket: hub.register releases who waits for it, and
\* each orchestration sends its `start`.
Attach ==
  /\ ~online
  /\ online' = TRUE
  /\ task' = [r \in Requests |-> IF task[r].step = "wake" THEN [step |-> "call", left |-> StartTimeout] ELSE task[r]]
  /\ asked' = asked \cup {r \in Requests : task[r].step = "wake"}
  /\ UNCHANGED <<durable, verifying, ran, cut>>
Detach ==
  /\ online
  /\ online' = FALSE
  /\ UNCHANGED <<durable, task, verifying, asked, ran, cut>>

\* The box starts the session or refuses, and its reply reaches the journal:
\* the broker's waiter (agent_response), or nobody if it waits no longer.
Answers(r, starts, n) ==
  /\ r \in asked /\ online
  /\ asked' = asked \ {r}
  /\ IF task[r].step = "call"
       THEN Conclude(r, IF starts THEN "started" ELSE "failed", n)
       ELSE n = All /\ UNCHANGED <<durable, volatile, cut>>
  /\ ran' = [ran EXCEPT ![r] = IF starts THEN @ + 1 ELSE @]

\* The request is lost with its socket, or the reply is, the session running.
Unheard(r, starts) ==
  /\ r \in asked
  /\ asked' = asked \ {r}
  /\ ran' = [ran EXCEPT ![r] = IF starts THEN @ + 1 ELSE @]
  /\ UNCHANGED <<durable, volatile, cut>>

\* The wait for the box, or for its reply, is over: agent_unreachable, timeout.
TimesOut(r, n) ==
  /\ task[r].step # "none" /\ task[r].left = 0
  /\ Conclude(r, "failed", n)
  /\ UNCHANGED <<asked, ran>>

-----------------------------------------------------------------------------
(* The sweep, the process and the clock. *)

Expiring == {r \in Requests : row[r] = "awaiting" /\ age[r] >= AskTTL}

\* Slip: only a request with a room is looked for.
OrphanedRooms == {r \in rooms : row[r] = "approved" /\ age[r] >= OrphanTTL}
Orphaned == {r \in Requests : row[r] = "approved" /\ age[r] >= OrphanTTL}

\* reconcileConsentItems: whose item does not belong to an ask that waits,
\* once the rows of `ends` have ended.  Slip: it is left to the answer.
Unmirrored(ends) == {}
Stale(ends) == {r \in Requests : r \in DOMAIN ends \/ row[r] # "awaiting"}

\* One tick of the sweep.
SweepWhole ==
  LET ends == [r \in Expiring \cup Orphaned |-> IF r \in Expiring THEN "expired" ELSE "failed"]
  IN /\ UNCHANGED <<volatile, asked, ran>>
     /\ Settle(ends, [r \in DOMAIN ends |-> All], Stale(ends) \cup DOMAIN ends)

\* The process dies in the sweep: among the asks that expire, or among the
\* orphans.  One batch is written, and its tails up to some point of one.
SweepDies ==
  /\ \E ends \in {[r \in Expiring |-> "expired"],
                  [r \in Expiring \cup Orphaned |-> IF r \in Expiring THEN "expired" ELSE "failed"]} :
       \E done \in [DOMAIN ends -> 0 .. All] :
         /\ Cardinality({r \in DOMAIN ends : done[r] \in 1 .. All - 1}) <= 1
         /\ (\E r \in DOMAIN ends \ Expiring : TRUE) => \A r \in Expiring : done[r] = All
         /\ \E r \in DOMAIN ends : done[r] < All
         /\ Settle(ends, done, {r \in DOMAIN ends : done[r] = All})
  /\ Died
  /\ UNCHANGED <<asked, ran>>

\* The process is killed between two handlers, or closed: hub.close lets
\* every orchestration that waits for its box fail before the database goes.
Killed == Died /\ UNCHANGED <<durable, asked, ran, cut>>
Shutdown ==
  LET waiting == {r \in Requests : task[r].step = "wake" /\ row[r] = "approved"}
  IN /\ Settle([r \in waiting |-> "failed"], [r \in waiting |-> All], waiting)
     /\ Died
     /\ UNCHANGED <<asked, ran>>

Tick ==
  /\ UNCHANGED <<row, rooms, item, told, epitaph, recent, auto, consent, verifying, online, asked, ran, cut>>
  /\ \A r \in Requests : task[r].step # "none" => task[r].left > 0
  /\ task' = [r \in Requests |-> IF task[r].step = "none" THEN Idle
                                 ELSE [step |-> task[r].step, left |-> task[r].left - 1]]
  /\ age' = [r \in Requests |-> IF \/ row[r] = "awaiting" /\ age[r] < AskTTL
                                   \/ row[r] = "approved" /\ age[r] < OrphanTTL
                                 THEN age[r] + 1 ELSE age[r]]

-----------------------------------------------------------------------------
Init ==
  /\ row = [r \in Requests |-> "none"]
  /\ age = [r \in Requests |-> 0]
  /\ rooms = {}
  /\ item = [r \in Requests |-> "closed"]
  /\ told = [r \in Requests |-> << >>]
  /\ epitaph = [r \in Requests |-> 0]
  /\ recent = {} /\ auto = {}
  /\ consent \in BOOLEAN
  /\ task = [r \in Requests |-> Idle]
  /\ verifying = {}
  /\ online \in BOOLEAN
  /\ asked = {}
  /\ ran = [r \in Requests |-> 0]
  /\ cut = {}

Next ==
  \/ \E r \in Requests :
       \/ \E filed \in BOOLEAN : Ask(r, filed)
       \/ AskVerifier(r) \/ Unverified(r)
       \/ CloseByHand(r) \/ DayPasses(r)
       \/ \E starts \in BOOLEAN : Unheard(r, starts)
       \/ \E n \in 0 .. All :
            \/ Approve(r, "user", n) \/ Deny(r, n)
            \/ CoordinatorApproves(r, n) \/ Verified(r, n) \/ AutoAsk(r, n)
            \/ TimesOut(r, n)
            \/ \E starts \in BOOLEAN : Answers(r, starts, n)
  \/ Switch \/ Attach \/ Detach \/ SweepWhole \/ SweepDies \/ Killed \/ Shutdown \/ Tick

\* The sweep runs every minute, timers fire, time passes.
Fairness ==
  /\ WF_vars(Tick) /\ WF_vars(SweepWhole)
  /\ WF_vars(\E r \in Requests : TimesOut(r, All))

Spec == Init /\ [][Next]_vars /\ Fairness

-----------------------------------------------------------------------------
(* What is expected of it. *)

\* Types; a detached ask never has a room, and a row that has not been
\* answered no orchestration.
TypeOK ==
  /\ row \in [Requests -> {"none", "awaiting", "approved"} \cup Ended]
  /\ age \in [Requests -> 0 .. Oldest]
  /\ rooms \subseteq Linked
  /\ item \in [Requests -> {"open", "closed"}]
  /\ told \in [Requests -> Seq(Ended)]
  /\ epitaph \in [Requests -> Nat]
  /\ recent \subseteq Requests /\ auto \subseteq recent
  /\ consent \in BOOLEAN /\ online \in BOOLEAN
  /\ task \in [Requests -> [step : {"none", "wake", "call"}, left : 0 .. Longest]]
  /\ verifying \subseteq Requests
  /\ asked \subseteq Requests
  /\ ran \in [Requests -> Nat]
  /\ cut \subseteq Requests

\* The asking session hears exactly one outcome, the one the row ended with,
\* however answers, timeouts, replies and sweeps race.  (Unless the process
\* died between the two writes: then it hears none, never two.)
ToldOnce ==
  \A r \in Requests :
    \/ told[r] = << >> /\ (row[r] \notin Ended \/ r \in cut)
    \/ told[r] = <<row[r]>> /\ row[r] \in Ended

\* A box runs at most one session for a request, and none for a request that
\* was denied or expired; a request that is said to have started has its one.
OneSessionPerApproval ==
  \A r \in Requests :
    /\ ran[r] <= 1
    /\ ran[r] = 1 => row[r] \in {"approved", "started", "failed"}
    /\ row[r] = "started" => ran[r] = 1

\* The sweep never gives up a request that an orchestration still works on,
\* whatever its age: an orchestration in memory has an approved row.
LiveIsApproved == \A r \in Requests : task[r] # Idle => row[r] = "approved"

\* The Coordinator's approvals of a day stay within the cap, although the
\* verifier's answers to several asks may arrive together.  Those the setting
\* gives are outside the cap (but are counted against it).
CapKept == Cardinality(recent \ auto) <= DailyCap

\* A room whose child failed says so, once; no other room does.
DeadRoomsSaySo ==
  \A r \in Requests :
    /\ epitaph[r] = 1 \/ epitaph[r] = 0
    /\ epitaph[r] = 1 => row[r] = "failed" /\ r \in rooms
    /\ row[r] = "failed" /\ r \in rooms /\ r \notin cut => epitaph[r] = 1

\* What is told of a request agrees with its row: to the asking session, in
\* its room, and by the sweep, which gives up nothing that is at work.
OutcomesTold == ToldOnce /\ DeadRoomsSaySo /\ LiveIsApproved

\* Every ask comes to an end, answered or not, restarts or not, and with it
\* its tracker item: again and again none is pending and none is open.  (Each
\* ask is made once and no item opens again, so each ends.)
AsksEnd ==
  []<>(\A r \in Requests : row[r] \notin {"awaiting", "approved"} /\ item[r] = "closed")
=============================================================================
