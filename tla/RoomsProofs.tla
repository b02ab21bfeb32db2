----------------------------- MODULE RoomsProofs -----------------------------
(* Theorems about the rooms, and about the boxes that are woken for them,   *)
(* for every value of the constants.                                        *)
EXTENDS Rooms, BoxWake, TLAPS

-----------------------------------------------------------------------------
(* The inductive invariant. *)

\* The type invariant in groups, and where a session of an ask comes from: the
\* owner names one of its own.
Stored ==
  /\ state \in [Agents -> Live \cup Renewable]
  /\ asker \in [Agents -> Devices]
  /\ source \in [Agents -> Sessions \cup Agents \cup {NoSession}]
  /\ age \in [Agents -> Nat]
  /\ delivered \in [Agents -> {Never} \cup 0..InviteTTL]
  /\ bySpawn \in [Agents -> BOOLEAN]
  /\ \A g \in Agents : state[g] \in {"none", "awaiting_user", "denied"} => delivered[g] = Never
  /\ \A g \in Agents : state[g] \in Pending /\ asker[g] = Owner => source[g] \in Sessions \cup {NoSession}

Linked ==
  /\ itemOf \in [Agents -> Nat]
  /\ open \in [Agents -> SUBSET Nat]
  /\ convos \subseteq Sessions
  /\ spawn \in [step : {"none", "starting", "started"}, target : Agents \cup {NoAgent}]
  /\ gone \subseteq Devices

Held ==
  /\ sock \subseteq Devices
  /\ answering \in [agent : {NoAgent}] \cup [agent : Agents, approve : BOOLEAN, item : Nat]

Told ==
  /\ hope \in [Agents -> {"idle", "waiting", "accepted", "refused", "untold"}]
  /\ inRoom \subseteq Agents
  /\ over \in BOOLEAN

Past ==
  /\ nth \in [Agents -> Nat]
  /\ approved \in [Agents -> BOOLEAN]
  /\ frames \in [Agents -> Nat]
  /\ brought \subseteq Sessions

Types == Stored /\ Linked /\ Held /\ Told /\ Past

\* An ask that waits was not sent; an approved one was sent as often as it is
\* stamped.
Relays ==
  \A g \in Agents :
    /\ frames[g] <= 1
    /\ state[g] = "awaiting_user" => frames[g] = 0
    /\ state[g] = "invited" => frames[g] = IF delivered[g] = Never THEN 0 ELSE 1

\* The owner cannot have heard of an end before there was anything to end.
Beliefs ==
  /\ BeliefsAreTrue
  /\ \A g \in Agents : state[g] # "none" => nth[g] > 0
  /\ over => Owner \in sock /\ \E g \in Agents : nth[g] > 0

\* spawn_id marks the first membership of the target of the spawn and no other.
Rounds ==
  /\ convos = brought
  /\ spawn.step = "none" <=> spawn.target = NoAgent
  /\ \A g \in Agents : g = spawn.target => nth[g] > 0
  /\ \A g \in Agents : bySpawn[g] => g = spawn.target /\ nth[g] = 1
  /\ \A g \in Agents : g = spawn.target /\ nth[g] = 1 /\ state[g] # "none" => bySpawn[g]

IInv == Types /\ Relays /\ ConsentFirst /\ Beliefs /\ Rounds

\* The groups are the type invariant.
LEMMA TypesGiveTypeOK == Types => TypeOK
BY DEF Types, Stored, Linked, Held, Told, Past, TypeOK

\* The empty room satisfies the invariant.
LEMMA Initially == Init => IInv
<1> SUFFICES ASSUME Init PROVE IInv
  OBVIOUS
<1>1. Types
  BY RoomAssumption DEF Init, Types, Stored, Linked, Held, Told, Past, Live, Pending,
       Renewable, Never, Devices
<1>2. Relays /\ ConsentFirst
  BY DEF Init, Relays, ConsentFirst
<1>3. Beliefs
  BY DEF Init, Beliefs, BeliefsAreTrue, Joined
<1>4. Rounds
  BY RoomAssumption DEF Init, Rounds
<1> QED BY <1>1, <1>2, <1>3, <1>4 DEF IInv

-----------------------------------------------------------------------------
(* The types. *)

\* Every step keeps the types; an accepted ask of the owner adds a session of
\* the owner.
LEMMA TypesKept == Types /\ [Next]_vars => Types'
<1> SUFFICES ASSUME Types, [Next]_vars PROVE Types'
  OBVIOUS
<1> USE DEF Types, Stored, Linked, Held, Told, Past, row, items, beliefs, history,
      Live, Pending, Renewable, Never, Devices
<1>1. ASSUME NEW g \in Agents, NEW s \in Sessions \cup {NoSession}, NEW filed \in BOOLEAN, Invite(g, s, filed) PROVE Types'
  BY <1>1, RoomAssumption DEF Invite, Park, FreshStamp
<1>2. ASSUME NEW g \in Agents, NEW filed \in BOOLEAN, Join(g, filed) PROVE Types'
  BY <1>2, RoomAssumption DEF Join, Park, FreshStamp
<1>3. ASSUME NEW g \in Agents, NEW approve \in BOOLEAN, NEW onItem \in BOOLEAN, ReadAsk(g, approve, onItem) PROVE Types'
  BY <1>3, RoomAssumption DEF ReadAsk
<1>4. ASSUME WriteAnswer, Decline PROVE Types'
  BY <1>4, RoomAssumption DEF WriteAnswer, Decline, Free, Answered, Approval, Closed,
       Hears, Restarted
<1>5. ASSUME WriteAnswer, Approve PROVE Types'
  BY <1>5, RoomAssumption DEF WriteAnswer, Approve, Free, Answered, Approval, Closed,
       Restarted, Undelivered, Stamped, With, Sent
<1>6. ASSUME AnswerDies PROVE Types'
  <2>1. PICK g \in Agents : answering.agent = g
    BY <1>6 DEF AnswerDies, Free
  <2>2. Stored'
    BY <1>6, <2>1 DEF AnswerDies, Answered, Restarted
  <2>3. Linked' /\ Held' /\ Told'
    BY <1>6 DEF AnswerDies, Died
  <2>4. approved' \in [Agents -> BOOLEAN]
    <3>1. answering.approve \in BOOLEAN
      BY <2>1, RoomAssumption
    <3>2. approved' = approved \/ approved' = [approved EXCEPT ![g] = answering.approve]
      BY <1>6, <2>1, Zenon DEF AnswerDies, Approval
    <3>3. approved \in [Agents -> BOOLEAN]
      OBVIOUS
    <3> QED BY <3>1, <3>2, <3>3, Zenon
  <2>5. frames' \in [Agents -> Nat]
    BY <1>6 DEF AnswerDies, Died
  <2> QED BY <1>6, <2>2, <2>3, <2>4, <2>5 DEF AnswerDies
<1>7. ASSUME NEW g \in Agents, NEW approve \in BOOLEAN, Admin(g, approve) PROVE Types'
  BY <1>7, RoomAssumption DEF Admin, Answered, Approval, Closed, Restarted
<1>8. ASSUME NEW g \in Agents, NEW k \in open[g], CloseByHand(g, k) PROVE Types'
  BY <1>8, RoomAssumption DEF CloseByHand
<1>9. ASSUME NEW g \in Agents, AnswerInvite(g) PROVE Types'
  <2>1. state[g] = "invited"
    BY <1>9 DEF AnswerInvite
  <2>2. RecordOwner(source[g], asker[g], TRUE) \subseteq Sessions
    BY <2>1 DEF RecordOwner, Pending
  <2>3. CASE Accept(g)
    BY <1>9, <2>1, <2>2, <2>3 DEF AnswerInvite, Accept, Hears
  <2>4. CASE Refuse(g)
    BY <1>9, <2>1, <2>4 DEF AnswerInvite, Refuse, Hears
  <2> QED BY <1>9, <2>3, <2>4 DEF AnswerInvite
<1>10. ASSUME NEW g \in Agents, Leave(g) PROVE Types'
  BY <1>10, RoomAssumption DEF Leave, LastLeaves
<1>11. ASSUME Dissolve PROVE Types'
  BY <1>11, RoomAssumption DEF Dissolve, With, Closed, SessionsAfter, Owed
<1>12. ASSUME NEW g \in Agents, SpawnOpens(g) PROVE Types'
  BY <1>12, RoomAssumption DEF SpawnOpens
<1>13. ASSUME NEW s \in Sessions, SpawnStarts(s) PROVE Types'
  BY <1>13, RoomAssumption DEF SpawnStarts, RecordOwner
<1>14. ASSUME NEW d \in Devices, Connect(d) PROVE Types'
  BY <1>14, RoomAssumption DEF Connect, Stamped, With, Sent
<1>15. ASSUME NEW d \in Devices, Disconnect(d) PROVE Types'
  BY <1>15, RoomAssumption DEF Disconnect, Forgets, With
<1>16. ASSUME NEW d \in Devices, Revoke(d) PROVE Types'
  <2>1. CASE d = Owner
    BY <1>16, <2>1 DEF Revoke
  <2>2. CASE d # Owner
    <3>1. d \in Agents /\ RevokeAgent(d)
      BY <1>16, <2>2 DEF Revoke
    <3>2. Stored'
      BY <1>16, <3>1 DEF Revoke, RevokeAgent
    <3>3. Linked' /\ Held'
      BY <1>16, <3>1 DEF Revoke, RevokeAgent
    <3>4. Told' /\ Past'
      BY <1>16, <3>1 DEF Revoke, RevokeAgent
    <3> QED BY <3>2, <3>3, <3>4
  <2> QED BY <2>1, <2>2
<1>17. ASSUME Sweep PROVE Types'
  BY <1>17, RoomAssumption DEF Sweep, Undelivered, Stamped, Sent, With, Hears,
       StillAsked, Lapsed, TimedOut
<1>18. ASSUME NEW both \in BOOLEAN, SweepDies(both) PROVE Types'
  <2>1. delivered' \in [Agents -> {Never} \cup 0..InviteTTL]
    BY <1>18, RoomAssumption DEF SweepDies, Stamped, With
  <2>2. frames' \in [Agents -> Nat]
    BY <1>18 DEF SweepDies, Sent, Died
  <2>3. Stored'
    BY <1>18, <2>1 DEF SweepDies, Undelivered, Stamped, With, Lapsed, TimedOut
  <2>4. Linked' /\ Held' /\ Told'
    BY <1>18 DEF SweepDies, Died
  <2>5. Past'
    BY <1>18, <2>2 DEF SweepDies
  <2> QED BY <2>3, <2>4, <2>5
<1>19. ASSUME Killed PROVE Types'
  BY <1>19, RoomAssumption DEF Killed, Died
<1>20. ASSUME Tick PROVE Types'
  BY <1>20, RoomAssumption DEF Tick
<1>21. CASE UNCHANGED vars
  BY <1>21 DEF vars
<1> HIDE DEF Types, Stored, Linked, Held, Told, Past, row, items, beliefs, history,
      Live, Pending, Renewable, Never, Devices
<1> QED BY <1>1, <1>2, <1>3, <1>4, <1>5, <1>6, <1>7, <1>8, <1>9, <1>10, <1>11, <1>12,
     <1>13, <1>14, <1>15, <1>16, <1>17, <1>18, <1>19, <1>20, <1>21 DEF Next,
     WriteAnswer

-----------------------------------------------------------------------------
(* Sending and stamping. *)

\* A pump counts one frame for the rows it stamps.
LEMMA RelaysKept == Types /\ Relays /\ [Next]_vars => Relays'
<1> SUFFICES ASSUME Types, Relays, [Next]_vars PROVE Relays'
  OBVIOUS
<1> USE DEF Relays, Types, Stored, Past, row, history, Never
<1>1. ASSUME NEW g \in Agents, NEW s \in Sessions \cup {NoSession}, NEW filed \in BOOLEAN, Invite(g, s, filed) PROVE Relays'
  BY <1>1, RoomAssumption DEF Invite, Park, FreshStamp
<1>2. ASSUME NEW g \in Agents, NEW filed \in BOOLEAN, Join(g, filed) PROVE Relays'
  BY <1>2, RoomAssumption DEF Join, Park, FreshStamp
<1>3. ASSUME NEW g \in Agents, NEW approve \in BOOLEAN, NEW onItem \in BOOLEAN, ReadAsk(g, approve, onItem) PROVE Relays'
  BY <1>3, RoomAssumption DEF ReadAsk
<1>4. ASSUME WriteAnswer, Decline PROVE Relays'
  BY <1>4, RoomAssumption DEF WriteAnswer, Decline, Free, Answered, Approval, Closed,
       Hears, Restarted
<1>5. ASSUME WriteAnswer, Approve PROVE Relays'
  BY <1>5, RoomAssumption DEF WriteAnswer, Approve, Free, Answered, Approval, Closed,
       Restarted, Undelivered, Stamped, With, Sent
<1>6. ASSUME AnswerDies PROVE Relays'
  BY <1>6, RoomAssumption DEF AnswerDies, Free, Answered, Approval, Restarted, Died
<1>7. ASSUME NEW g \in Agents, NEW approve \in BOOLEAN, Admin(g, approve) PROVE Relays'
  BY <1>7, RoomAssumption DEF Admin, Answered, Approval, Closed, Restarted
<1>8. ASSUME NEW g \in Agents, NEW k \in open[g], CloseByHand(g, k) PROVE Relays'
  BY <1>8, RoomAssumption DEF CloseByHand
<1>9. ASSUME NEW g \in Agents, AnswerInvite(g) PROVE Relays'
  BY <1>9, RoomAssumption DEF AnswerInvite, Accept, Refuse, Hears, RecordOwner
<1>10. ASSUME NEW g \in Agents, Leave(g) PROVE Relays'
  BY <1>10, RoomAssumption DEF Leave, LastLeaves
<1>11. ASSUME Dissolve PROVE Relays'
  BY <1>11, RoomAssumption DEF Dissolve, With, Closed, SessionsAfter, Owed
<1>12. ASSUME NEW g \in Agents, SpawnOpens(g) PROVE Relays'
  BY <1>12, RoomAssumption DEF SpawnOpens
<1>13. ASSUME NEW s \in Sessions, SpawnStarts(s) PROVE Relays'
  BY <1>13, RoomAssumption DEF SpawnStarts, RecordOwner
<1>14. ASSUME NEW d \in Devices, Connect(d) PROVE Relays'
  BY <1>14, RoomAssumption DEF Connect, Stamped, With, Sent
<1>15. ASSUME NEW d \in Devices, Disconnect(d) PROVE Relays'
  BY <1>15, RoomAssumption DEF Disconnect, Forgets, With
<1>16. ASSUME NEW d \in Devices, Revoke(d) PROVE Relays'
  BY <1>16, RoomAssumption DEF Revoke, RevokeAgent
<1>17. ASSUME Sweep PROVE Relays'
  BY <1>17, RoomAssumption DEF Sweep, Undelivered, Stamped, Sent, With, Hears,
       StillAsked, Lapsed, TimedOut
<1>18. ASSUME NEW both \in BOOLEAN, SweepDies(both) PROVE Relays'
  BY <1>18, RoomAssumption DEF SweepDies, Undelivered, Stamped, Sent, With, Lapsed,
       TimedOut, Died
<1>19. ASSUME Killed PROVE Relays'
  BY <1>19, RoomAssumption DEF Killed, Died
<1>20. ASSUME Tick PROVE Relays'
  BY <1>20, RoomAssumption DEF Tick
<1>21. CASE UNCHANGED vars
  BY <1>21 DEF vars
<1> HIDE DEF Relays, Types, Stored, Past, row, history, Never
<1> QED BY <1>1, <1>2, <1>3, <1>4, <1>5, <1>6, <1>7, <1>8, <1>9, <1>10, <1>11, <1>12,
     <1>13, <1>14, <1>15, <1>16, <1>17, <1>18, <1>19, <1>20, <1>21 DEF Next,
     WriteAnswer

-----------------------------------------------------------------------------
(* Consent. *)

\* Only an approval makes a row invited, and only invited rows are sent.
LEMMA ConsentKept == Types /\ Relays /\ ConsentFirst /\ [Next]_vars => ConsentFirst'
<1> SUFFICES ASSUME Types, Relays, ConsentFirst, [Next]_vars PROVE ConsentFirst'
  OBVIOUS
<1> USE DEF ConsentFirst, Relays, Types, Stored, Past, row, history
<1>1. ASSUME NEW g \in Agents, NEW s \in Sessions \cup {NoSession}, NEW filed \in BOOLEAN, Invite(g, s, filed) PROVE ConsentFirst'
  BY <1>1, RoomAssumption DEF Invite, Park, FreshStamp
<1>2. ASSUME NEW g \in Agents, NEW filed \in BOOLEAN, Join(g, filed) PROVE ConsentFirst'
  BY <1>2, RoomAssumption DEF Join, Park, FreshStamp
<1>3. ASSUME NEW g \in Agents, NEW approve \in BOOLEAN, NEW onItem \in BOOLEAN, ReadAsk(g, approve, onItem) PROVE ConsentFirst'
  BY <1>3, RoomAssumption DEF ReadAsk
<1>4. ASSUME WriteAnswer, Decline PROVE ConsentFirst'
  BY <1>4, RoomAssumption DEF WriteAnswer, Decline, Free, Answered, Approval, Closed,
       Hears, Restarted
<1>5. ASSUME WriteAnswer, Approve PROVE ConsentFirst'
  BY <1>5, RoomAssumption DEF WriteAnswer, Approve, Free, Answered, Approval, Closed,
       Restarted, Undelivered, Stamped, With, Sent
<1>6. ASSUME AnswerDies PROVE ConsentFirst'
  BY <1>6, RoomAssumption DEF AnswerDies, Free, Answered, Approval, Restarted, Died
<1>7. ASSUME NEW g \in Agents, NEW approve \in BOOLEAN, Admin(g, approve) PROVE ConsentFirst'
  BY <1>7, RoomAssumption DEF Admin, Answered, Approval, Closed, Restarted
<1>8. ASSUME NEW g \in Agents, NEW k \in open[g], CloseByHand(g, k) PROVE ConsentFirst'
  BY <1>8, RoomAssumption DEF CloseByHand
<1>9. ASSUME NEW g \in Agents, AnswerInvite(g) PROVE ConsentFirst'
  BY <1>9, RoomAssumption DEF AnswerInvite, Accept, Refuse, Hears, RecordOwner
<1>10. ASSUME NEW g \in Agents, Leave(g) PROVE ConsentFirst'
  BY <1>10, RoomAssumption DEF Leave, LastLeaves
<1>11. ASSUME Dissolve PROVE ConsentFirst'
  BY <1>11, RoomAssumption DEF Dissolve, With, Closed, SessionsAfter, Owed
<1>12. ASSUME NEW g \in Agents, SpawnOpens(g) PROVE ConsentFirst'
  BY <1>12, RoomAssumption DEF SpawnOpens
<1>13. ASSUME NEW s \in Sessions, SpawnStarts(s) PROVE ConsentFirst'
  BY <1>13, RoomAssumption DEF SpawnStarts, RecordOwner
<1>14. ASSUME NEW d \in Devices, Connect(d) PROVE ConsentFirst'
  BY <1>14, RoomAssumption DEF Connect, Stamped, With, Sent
<1>15. ASSUME NEW d \in Devices, Disconnect(d) PROVE ConsentFirst'
  BY <1>15, RoomAssumption DEF Disconnect, Forgets, With
<1>16. ASSUME NEW d \in Devices, Revoke(d) PROVE ConsentFirst'
  BY <1>16, RoomAssumption DEF Revoke, RevokeAgent
<1>17. ASSUME Sweep PROVE ConsentFirst'
  BY <1>17, RoomAssumption DEF Sweep, Undelivered, Stamped, Sent, With, Hears,
       StillAsked, Lapsed, TimedOut
<1>18. ASSUME NEW both \in BOOLEAN, SweepDies(both) PROVE ConsentFirst'
  BY <1>18, RoomAssumption DEF SweepDies, Undelivered, Stamped, Sent, With, Lapsed,
       TimedOut, Died
<1>19. ASSUME Killed PROVE ConsentFirst'
  BY <1>19, RoomAssumption DEF Killed, Died
<1>20. ASSUME Tick PROVE ConsentFirst'
  BY <1>20, RoomAssumption DEF Tick
<1>21. CASE UNCHANGED vars
  BY <1>21 DEF vars
<1> HIDE DEF ConsentFirst, Relays, Types, Stored, Past, row, history
<1> QED BY <1>1, <1>2, <1>3, <1>4, <1>5, <1>6, <1>7, <1>8, <1>9, <1>10, <1>11, <1>12,
     <1>13, <1>14, <1>15, <1>16, <1>17, <1>18, <1>19, <1>20, <1>21 DEF Next,
     WriteAnswer

-----------------------------------------------------------------------------
(* What devices were told. *)

\* Whatever ends an ask or a membership tells who was told of it.
LEMMA BeliefsKept == Types /\ Beliefs /\ [Next]_vars => Beliefs'
<1> SUFFICES ASSUME Types, Beliefs, [Next]_vars PROVE Beliefs'
  OBVIOUS
<1> USE DEF Beliefs, Types, Stored, Linked, Held, Told, Past, row, items, beliefs,
      history, BeliefsAreTrue, Pending, Live, Renewable, Connected, Joined, Devices
<1>1. ASSUME NEW g \in Agents, NEW s \in Sessions \cup {NoSession}, NEW filed \in BOOLEAN, Invite(g, s, filed) PROVE Beliefs'
  BY <1>1, RoomAssumption DEF Invite, Park, FreshStamp
<1>2. ASSUME NEW g \in Agents, NEW filed \in BOOLEAN, Join(g, filed) PROVE Beliefs'
  BY <1>2, RoomAssumption DEF Join, Park, FreshStamp
<1>3. ASSUME NEW g \in Agents, NEW approve \in BOOLEAN, NEW onItem \in BOOLEAN, ReadAsk(g, approve, onItem) PROVE Beliefs'
  BY <1>3, RoomAssumption DEF ReadAsk
<1>4. ASSUME WriteAnswer, Decline PROVE Beliefs'
  BY <1>4, RoomAssumption DEF WriteAnswer, Decline, Free, Answered, Approval, Closed,
       Hears, Restarted
<1>5. ASSUME WriteAnswer, Approve PROVE Beliefs'
  BY <1>5, RoomAssumption DEF WriteAnswer, Approve, Free, Answered, Approval, Closed,
       Restarted, Undelivered, Stamped, With, Sent
<1>6. ASSUME AnswerDies PROVE Beliefs'
  BY <1>6, RoomAssumption DEF AnswerDies, Free, Answered, Approval, Restarted, Died
<1>7. ASSUME NEW g \in Agents, NEW approve \in BOOLEAN, Admin(g, approve) PROVE Beliefs'
  BY <1>7, RoomAssumption DEF Admin, Answered, Approval, Closed, Restarted
<1>8. ASSUME NEW g \in Agents, NEW k \in open[g], CloseByHand(g, k) PROVE Beliefs'
  BY <1>8, RoomAssumption DEF CloseByHand
<1>9. ASSUME NEW g \in Agents, AnswerInvite(g) PROVE Beliefs'
  <2>1. state[g] = "invited" /\ sock' = sock /\ gone' = gone /\ asker' = asker /\ nth' = nth
    BY <1>9 DEF AnswerInvite
  <2>2. CASE Accept(g)
    <3>1. \A h \in Agents : hope'[h] = "waiting" => Connected(h)' /\ state'[h] \in Pending
      BY <2>1, <2>2 DEF Accept, Hears
    <3>2. \A h \in Agents : hope'[h] = "accepted" => state'[h] \in {"joined", "left", "none"}
      BY <2>1, <2>2 DEF Accept, Hears
    <3>3. Joined' = Joined \cup {g}
      BY <2>1, <2>2 DEF Accept
    <3>4. inRoom' \subseteq Joined' \cup gone'
      BY <2>1, <2>2, <3>3 DEF Accept
    <3>5. ~over'
      BY <2>2 DEF Accept
    <3>6. \A h \in Agents : state'[h] # "none" => nth'[h] > 0
      BY <2>1, <2>2 DEF Accept
    <3> QED BY <3>1, <3>2, <3>4, <3>5, <3>6
  <2>3. CASE Refuse(g)
    <3>1. Joined' = Joined
      BY <2>1, <2>3 DEF Refuse
    <3>2. \A h \in Agents : hope'[h] = "waiting" => Connected(h)' /\ state'[h] \in Pending
      BY <2>1, <2>3 DEF Refuse, Hears
    <3>3. \A h \in Agents : hope'[h] = "accepted" => state'[h] \in {"joined", "left", "none"}
      BY <2>1, <2>3 DEF Refuse, Hears
    <3>4. \A h \in Agents : state'[h] # "none" => nth'[h] > 0
      BY <2>1, <2>3 DEF Refuse
    <3> QED BY <2>1, <2>3, <3>1, <3>2, <3>3, <3>4 DEF Refuse
  <2> QED BY <1>9, <2>2, <2>3 DEF AnswerInvite
<1>10. ASSUME NEW g \in Agents, Leave(g) PROVE Beliefs'
  BY <1>10, RoomAssumption DEF Leave, LastLeaves
<1>11. ASSUME Dissolve PROVE Beliefs'
  BY <1>11, RoomAssumption DEF Dissolve, With, Closed, SessionsAfter, Owed
<1>12. ASSUME NEW g \in Agents, SpawnOpens(g) PROVE Beliefs'
  BY <1>12, RoomAssumption DEF SpawnOpens
<1>13. ASSUME NEW s \in Sessions, SpawnStarts(s) PROVE Beliefs'
  BY <1>13, RoomAssumption DEF SpawnStarts, RecordOwner
<1>14. ASSUME NEW d \in Devices, Connect(d) PROVE Beliefs'
  BY <1>14, RoomAssumption DEF Connect, Stamped, With, Sent
<1>15. ASSUME NEW d \in Devices, Disconnect(d) PROVE Beliefs'
  <2>1. Joined' = Joined /\ state' = state /\ asker' = asker /\ gone' = gone /\ nth' = nth /\ sock' = sock \ {d}
    BY <1>15 DEF Disconnect
  <2>2. \A h \in Agents : hope'[h] = IF asker[h] = d THEN "idle" ELSE hope[h]
    BY <1>15 DEF Disconnect, Forgets, With
  <2>3. \A h \in Agents : hope'[h] = "waiting" => Connected(h)' /\ state'[h] \in Pending
    BY <2>1, <2>2
  <2>4. \A h \in Agents : hope'[h] = "accepted" => state'[h] \in {"joined", "left", "none"}
    BY <2>1, <2>2
  <2>5. inRoom' \subseteq Joined' \cup gone' /\ (over' => Joined' = {} /\ Owner \in sock')
    BY <1>15, <2>1 DEF Disconnect, Forgets
  <2> QED BY <1>15, <2>1, <2>3, <2>4, <2>5 DEF Disconnect, Forgets
<1>16. ASSUME NEW d \in Devices, Revoke(d) PROVE Beliefs'
  BY <1>16, RoomAssumption DEF Revoke, RevokeAgent
<1>17. ASSUME Sweep PROVE Beliefs'
  <2>1. asker' = asker /\ gone' = gone /\ nth' = nth /\ sock' = sock \ gone
    BY <1>17 DEF Sweep
  <2>2. \A h \in Agents : state'[h] = IF h \in Lapsed \cup TimedOut THEN "expired" ELSE state[h]
    BY <1>17 DEF Sweep, With
  <2>3. \A h \in Lapsed \cup TimedOut : h \in Agents /\ state[h] \in Pending
    BY DEF Lapsed, TimedOut
  <2>4. Joined' = Joined
    BY <2>2, <2>3
  <2>5. \A h \in Agents : hope'[h] = IF asker[h] \in gone THEN "idle"
                                     ELSE IF h \in Lapsed \cup TimedOut /\ Connected(h) THEN "refused" ELSE hope[h]
    BY <1>17 DEF Sweep, Hears
  <2>6. \A h \in Agents : hope'[h] = "waiting" => Connected(h)' /\ state'[h] \in Pending
    BY <2>1, <2>2, <2>5
  <2>7. \A h \in Agents : hope'[h] = "accepted" => state'[h] \in {"joined", "left", "none"}
    BY <2>2, <2>3, <2>5
  <2>8. inRoom' \subseteq Joined' \cup gone' /\ (over' => Joined' = {} /\ Owner \in sock')
    BY <1>17, <2>1, <2>4 DEF Sweep
  <2>9. \A h \in Agents : state'[h] # "none" => nth'[h] > 0
    BY <2>1, <2>2, <2>3
  <2>10. over' => \E h \in Agents : nth'[h] > 0
    BY <1>17, <2>1 DEF Sweep
  <2> QED BY <2>6, <2>7, <2>8, <2>9, <2>10
<1>18. ASSUME NEW both \in BOOLEAN, SweepDies(both) PROVE Beliefs'
  BY <1>18, RoomAssumption DEF SweepDies, Undelivered, Stamped, Sent, With, Lapsed,
       TimedOut, Died
<1>19. ASSUME Killed PROVE Beliefs'
  BY <1>19, RoomAssumption DEF Killed, Died
<1>20. ASSUME Tick PROVE Beliefs'
  BY <1>20, RoomAssumption DEF Tick
<1>21. CASE UNCHANGED vars
  BY <1>21 DEF vars
<1> HIDE DEF Beliefs, Types, Stored, Linked, Held, Told, Past, row, items, beliefs,
      history, BeliefsAreTrue, Pending, Live, Renewable, Connected, Joined, Devices
<1> QED BY <1>1, <1>2, <1>3, <1>4, <1>5, <1>6, <1>7, <1>8, <1>9, <1>10, <1>11, <1>12,
     <1>13, <1>14, <1>15, <1>16, <1>17, <1>18, <1>19, <1>20, <1>21 DEF Next,
     WriteAnswer

-----------------------------------------------------------------------------
(* Sessions and rounds. *)

\* Renewal clears spawn_id, dissolving clears the sessions.
LEMMA RoundsKept == Types /\ Beliefs /\ Rounds /\ [Next]_vars => Rounds'
<1> SUFFICES ASSUME Types, Beliefs, Rounds, [Next]_vars PROVE Rounds'
  OBVIOUS
<1> USE DEF Rounds, Types, Stored, Linked, Past, row, items, history, Joined,
      Pending, Live, Renewable
<1>1. ASSUME NEW g \in Agents, NEW s \in Sessions \cup {NoSession}, NEW filed \in BOOLEAN, Invite(g, s, filed) PROVE Rounds'
  BY <1>1, RoomAssumption DEF Invite, Park, FreshStamp
<1>2. ASSUME NEW g \in Agents, NEW filed \in BOOLEAN, Join(g, filed) PROVE Rounds'
  BY <1>2, RoomAssumption DEF Join, Park, FreshStamp
<1>3. ASSUME NEW g \in Agents, NEW approve \in BOOLEAN, NEW onItem \in BOOLEAN, ReadAsk(g, approve, onItem) PROVE Rounds'
  BY <1>3, RoomAssumption DEF ReadAsk
<1>4. ASSUME WriteAnswer, Decline PROVE Rounds'
  BY <1>4, RoomAssumption DEF WriteAnswer, Decline, Free, Answered, Approval, Closed,
       Hears, Restarted
<1>5. ASSUME WriteAnswer, Approve PROVE Rounds'
  BY <1>5, RoomAssumption DEF WriteAnswer, Approve, Free, Answered, Approval, Closed,
       Restarted, Undelivered, Stamped, With, Sent
<1>6. ASSUME AnswerDies PROVE Rounds'
  BY <1>6, RoomAssumption DEF AnswerDies, Free, Answered, Approval, Restarted, Died
<1>7. ASSUME NEW g \in Agents, NEW approve \in BOOLEAN, Admin(g, approve) PROVE Rounds'
  BY <1>7, RoomAssumption DEF Admin, Answered, Approval, Closed, Restarted
<1>8. ASSUME NEW g \in Agents, NEW k \in open[g], CloseByHand(g, k) PROVE Rounds'
  BY <1>8, RoomAssumption DEF CloseByHand
<1>9. ASSUME NEW g \in Agents, AnswerInvite(g) PROVE Rounds'
  <2>1. state[g] \in Pending /\ convos = brought
    BY <1>9 DEF AnswerInvite
  <2>2. convos' = brought'
    <3>1. CASE Accept(g)
      <4>1. CASE asker[g] = Owner /\ source[g] \in Sessions
        BY <2>1, <3>1, <4>1, RoomAssumption DEF Accept, RecordOwner
      <4>2. CASE ~(asker[g] = Owner /\ source[g] \in Sessions)
        BY <2>1, <3>1, <4>2 DEF Accept, RecordOwner
      <4> QED BY <4>1, <4>2
    <3>2. CASE Refuse(g)
      BY <2>1, <3>2 DEF Refuse
    <3> QED BY <1>9, <3>1, <3>2 DEF AnswerInvite
  <2> QED BY <1>9, <2>1, <2>2 DEF AnswerInvite, Accept, Refuse
<1>10. ASSUME NEW g \in Agents, Leave(g) PROVE Rounds'
  BY <1>10, RoomAssumption DEF Leave, LastLeaves
<1>11. ASSUME Dissolve PROVE Rounds'
  BY <1>11, RoomAssumption DEF Dissolve, With, Closed, SessionsAfter, Owed
<1>12. ASSUME NEW g \in Agents, SpawnOpens(g) PROVE Rounds'
  BY <1>12, RoomAssumption DEF SpawnOpens
<1>13. ASSUME NEW s \in Sessions, SpawnStarts(s) PROVE Rounds'
  BY <1>13, RoomAssumption DEF SpawnStarts, RecordOwner
<1>14. ASSUME NEW d \in Devices, Connect(d) PROVE Rounds'
  BY <1>14, RoomAssumption DEF Connect, Stamped, With, Sent
<1>15. ASSUME NEW d \in Devices, Disconnect(d) PROVE Rounds'
  BY <1>15, RoomAssumption DEF Disconnect, Forgets, With
<1>16. ASSUME NEW d \in Devices, Revoke(d) PROVE Rounds'
  BY <1>16, RoomAssumption DEF Revoke, RevokeAgent
<1>17. ASSUME Sweep PROVE Rounds'
  BY <1>17, RoomAssumption DEF Sweep, Undelivered, Stamped, Sent, With, Hears,
       StillAsked, Lapsed, TimedOut
<1>18. ASSUME NEW both \in BOOLEAN, SweepDies(both) PROVE Rounds'
  BY <1>18, RoomAssumption DEF SweepDies, Undelivered, Stamped, Sent, With, Lapsed,
       TimedOut, Died
<1>19. ASSUME Killed PROVE Rounds'
  BY <1>19, RoomAssumption DEF Killed, Died
<1>20. ASSUME Tick PROVE Rounds'
  BY <1>20, RoomAssumption DEF Tick
<1>21. CASE UNCHANGED vars
  BY <1>21 DEF vars
<1> HIDE DEF Rounds, Types, Stored, Linked, Past, row, items, history, Joined,
      Pending, Live, Renewable
<1> QED BY <1>1, <1>2, <1>3, <1>4, <1>5, <1>6, <1>7, <1>8, <1>9, <1>10, <1>11, <1>12,
     <1>13, <1>14, <1>15, <1>16, <1>17, <1>18, <1>19, <1>20, <1>21 DEF Next,
     WriteAnswer

-----------------------------------------------------------------------------
(* Theorems. *)

\* The invariant is inductive.
LEMMA StepKeepsIInv == IInv /\ [Next]_vars => IInv'
BY TypesKept, RelaysKept, ConsentKept, BeliefsKept, RoundsKept DEF IInv

\* It holds in every reachable state.
LEMMA Inductive == Spec => []IInv
BY Initially, StepKeepsIInv, PTL DEF Spec

\* Types of the rows, of what the process holds and of what devices were told;
\* a row that waits for the user has no stamp of delivery.
THEOREM TypeCorrect == Spec => []TypeOK
<1>1. IInv => TypeOK
  BY TypesGiveTypeOK DEF IInv
<1> QED BY Inductive, <1>1, PTL

\* Nothing of an ask reaches the other side, and nobody enters the room, before
\* that ask was approved.
THEOREM NothingBeforeConsent == Spec => []ConsentFirst
<1>1. IInv => ConsentFirst
  BY DEF IInv
<1> QED BY Inductive, <1>1, PTL

\* The pump sends an approved ask once in the life of a process, and a stamp
\* means that it was sent.
THEOREM OneRelay == Spec => []RelayedOnce
<1>1. IInv => RelayedOnce
  BY DEF IInv, Relays, RelayedOnce
<1> QED BY Inductive, <1>1, PTL

\* What a connected device was told of its ask, of its membership and of the
\* end of the room is so.
THEOREM NobodyIsMisled == Spec => []BeliefsAreTrue
<1>1. IInv => BeliefsAreTrue
  BY DEF IInv, Beliefs
<1> QED BY Inductive, <1>1, PTL

\* The sessions shown in a room that lives are those of the present round.
THEOREM PresentRound == Spec => []SessionsInTheRoom
<1>1. IInv => SessionsInTheRoom
  <2> SUFFICES ASSUME IInv, Joined # {} PROVE /\ Participants \cap Sessions = brought
                                              /\ \A g \in Joined : (g \in Participants) <=> (g # spawn.target \/ nth[g] > 1)
                                              /\ Child \in Participants => spawn.target \in Joined /\ nth[spawn.target] = 1
    BY DEF SessionsInTheRoom
  <2>1. Rounds /\ Types /\ convos = brought /\ convos \subseteq Sessions
    BY DEF IInv, Rounds, Types, Linked
  <2>2. Joined \subseteq Agents
    BY DEF Joined
  <2>3. Participants \cap Sessions = brought
    BY <2>1, <2>2, RoomAssumption DEF Participants
  <2>4. ASSUME NEW g \in Joined PROVE (g \in Participants) <=> (g # spawn.target \/ nth[g] > 1)
    <3>1. g \in Participants <=> ~bySpawn[g]
      BY <2>1, <2>2, <2>4, RoomAssumption DEF Participants
    <3>2. nth[g] \in Nat /\ nth[g] > 0 /\ state[g] # "none"
      BY <2>2, <2>4 DEF IInv, Types, Past, Beliefs, Joined
    <3>3. bySpawn[g] <=> g = spawn.target /\ nth[g] = 1
      BY <2>1, <2>2, <2>4, <3>2 DEF Rounds
    <3> QED BY <3>1, <3>2, <3>3
  <2>5. ASSUME Child \in Participants PROVE spawn.target \in Joined /\ nth[spawn.target] = 1
    <3>1. spawn.target \in Joined /\ bySpawn[spawn.target]
      BY <2>1, <2>2, <2>5, RoomAssumption DEF Participants
    <3> QED BY <2>1, <2>2, <3>1 DEF Rounds
  <2> QED BY <2>3, <2>4, <2>5
<1> QED BY Inductive, <1>1, PTL

\* An invitation expires only when the time to answer has run from its relay.
THEOREM WindowKept == Spec => AnswerWindow
<1> DEFINE Kept == \A g \in Agents : state[g] = "invited" /\ state'[g] = "expired" => delivered[g] = InviteTTL
<1>1. IInv /\ [Next]_vars => [Kept]_vars
  <2> SUFFICES ASSUME IInv, Next PROVE Kept
    OBVIOUS
  <2> USE DEF IInv, Types, Stored
  <2>1. \A g \in Lapsed : delivered[g] = InviteTTL
    BY RoomAssumption DEF Lapsed, Never
  <2>2. ASSUME Sweep PROVE Kept
    BY <2>1, <2>2 DEF Sweep, With, TimedOut
  <2>3. ASSUME NEW both \in BOOLEAN, SweepDies(both) PROVE Kept
    BY <2>1, <2>3 DEF SweepDies, With, TimedOut
  <2>4. ASSUME NEW g \in Agents, NEW s \in Sessions \cup {NoSession}, NEW filed \in BOOLEAN, Invite(g, s, filed) PROVE Kept
    BY <2>4 DEF Invite, Park, FreshStamp, row
  <2>5. ASSUME NEW g \in Agents, NEW filed \in BOOLEAN, Join(g, filed) PROVE Kept
    BY <2>5 DEF Join, Park, FreshStamp, row
  <2>6. ASSUME NEW g \in Agents, NEW approve \in BOOLEAN, NEW onItem \in BOOLEAN, ReadAsk(g, approve, onItem) PROVE Kept
    BY <2>6 DEF ReadAsk, row
  <2>7. ASSUME WriteAnswer, Decline PROVE Kept
    BY <2>7 DEF WriteAnswer, Decline, Free, Answered, Approval, Closed, Hears,
         Restarted, row
  <2>8. ASSUME WriteAnswer, Approve PROVE Kept
    BY <2>8 DEF WriteAnswer, Approve, Free, Answered, Approval, Closed, Restarted,
         Undelivered, Stamped, With, Sent, row
  <2>9. ASSUME AnswerDies PROVE Kept
    BY <2>9 DEF AnswerDies, Free, Answered, Approval, Restarted, Died, row
  <2>10. ASSUME NEW g \in Agents, NEW approve \in BOOLEAN, Admin(g, approve) PROVE Kept
    BY <2>10 DEF Admin, Answered, Approval, Closed, Restarted, row
  <2>11. ASSUME NEW g \in Agents, NEW k \in open[g], CloseByHand(g, k) PROVE Kept
    BY <2>11 DEF CloseByHand, row
  <2>12. ASSUME NEW g \in Agents, AnswerInvite(g) PROVE Kept
    BY <2>12 DEF AnswerInvite, Accept, Refuse, Hears, RecordOwner, row
  <2>13. ASSUME NEW g \in Agents, Leave(g) PROVE Kept
    BY <2>13 DEF Leave, LastLeaves, row
  <2>14. ASSUME Dissolve PROVE Kept
    BY <2>14 DEF Dissolve, With, Closed, SessionsAfter, Owed, row
  <2>15. ASSUME NEW g \in Agents, SpawnOpens(g) PROVE Kept
    BY <2>15 DEF SpawnOpens, row
  <2>16. ASSUME NEW s \in Sessions, SpawnStarts(s) PROVE Kept
    BY <2>16 DEF SpawnStarts, RecordOwner, row
  <2>17. ASSUME NEW d \in Devices, Connect(d) PROVE Kept
    BY <2>17 DEF Connect, Stamped, With, Sent, row
  <2>18. ASSUME NEW d \in Devices, Disconnect(d) PROVE Kept
    BY <2>18 DEF Disconnect, Forgets, With, row
  <2>19. ASSUME NEW d \in Devices, Revoke(d) PROVE Kept
    BY <2>19 DEF Revoke, RevokeAgent, row
  <2>20. ASSUME Killed PROVE Kept
    BY <2>20 DEF Killed, Died, row
  <2>21. ASSUME Tick PROVE Kept
    BY <2>21 DEF Tick, row
  <2> QED BY <2>2, <2>3, <2>4, <2>5, <2>6, <2>7, <2>8, <2>9, <2>10, <2>11, <2>12,
       <2>13, <2>14, <2>15, <2>16, <2>17, <2>18, <2>19, <2>20, <2>21 DEF Next,
       WriteAnswer
<1> QED BY Inductive, <1>1, PTL DEF Spec, AnswerWindow
-----------------------------------------------------------------------------
(* The commands that wake a box (BoxWake).                                 *)

RestRows == [of : {"none", "running"} \cup Codes, ticks : 0..Debounce]

\* The window says enough of the command before: since a refusal, or while a
\* command runs, no more of it has passed than time; since another failure, no
\* more than that and what the backoff leaves of it.
WindowTells ==
  /\ rest.of \in {"running", "refused"} => since <= rest.ticks
  /\ rest.of = "failed" => since + FailBackoff <= Debounce + rest.ticks

WindowInv == since \in 0..Debounce /\ rest \in RestRows /\ WindowTells /\ ~hurried

\* Where the window is over, so is the time a command has to keep from the
\* one before.
LEMMA WindowSpaces == ASSUME WindowInv, since >= Debounce PROVE ~TooSoon
<1>1. rest.of \in {"none", "running"} \cup Codes /\ rest.ticks \in 0..Debounce
  BY DEF WindowInv, RestRows
<1> QED
  BY <1>1, WakeAssumption DEF WindowInv, WindowTells, TooSoon, Codes

LEMMA FireKeepsWindow == ASSUME WindowInv, Fire PROVE WindowInv'
<1>1. CASE CanWake /\ since >= Debounce
  <2>1. since' = 0 /\ rest' = [of |-> "running", ticks |-> 0] /\ hurried' = (hurried \/ TooSoon)
    BY <1>1 DEF Fire
  <2>2. ~hurried'
    BY <2>1, <1>1, WindowSpaces DEF WindowInv
  <2> QED
    BY <2>1, <2>2, WakeAssumption DEF WindowInv, WindowTells, RestRows
<1>2. CASE ~(CanWake /\ since >= Debounce)
  BY <1>2 DEF Fire, WindowInv, WindowTells
<1> QED
  BY <1>1, <1>2

\* A command ends; one that is not the last has no say.
LEMMA EndKeepsWindow ==
  ASSUME WindowInv, NEW which \in {"last", "older"}, NEW code \in Codes, CommandEnds(which, code)
  PROVE  WindowInv'
<1>1. CASE which = "last"
  <2>1. since' = ReArmed(code) /\ rest' = [of |-> code, ticks |-> 0] /\ hurried' = hurried
    BY <1>1 DEF CommandEnds
  <2>2. CASE code = "woken"
    BY <2>1, <2>2, WakeAssumption DEF WindowInv, WindowTells, RestRows, ReArmed, Codes
  <2>3. CASE code = "failed"
    BY <2>1, <2>3, WakeAssumption DEF WindowInv, WindowTells, RestRows, ReArmed, Codes
  <2>4. CASE code = "refused"
    BY <2>1, <2>4, WakeAssumption DEF WindowInv, WindowTells, RestRows, ReArmed, Codes
  <2> QED
    BY <2>2, <2>3, <2>4 DEF Codes
<1>2. CASE which = "older"
  BY <1>2 DEF CommandEnds, WindowInv, WindowTells
<1> QED
  BY <1>1, <1>2

\* Time passes for both, until the window is over.
LEMMA TickKeepsWindow == ASSUME WindowInv, WakeTick PROVE WindowInv'
<1>1. since \in 0..Debounce /\ rest.of \in {"none", "running"} \cup Codes /\ rest.ticks \in 0..Debounce
  BY DEF WindowInv, RestRows
<1>2. rest' = [of |-> rest.of, ticks |-> IF rest.ticks < Debounce THEN rest.ticks + 1 ELSE rest.ticks]
  BY DEF WakeTick, WindowInv, RestRows
<1>3. since' = (IF since < Debounce THEN since + 1 ELSE since) /\ hurried' = hurried
  BY DEF WakeTick
<1>4. since' \in 0..Debounce /\ rest'.of = rest.of /\ rest'.ticks \in 0..Debounce /\ rest' \in RestRows
  BY <1>1, <1>2, <1>3, WakeAssumption DEF RestRows
<1>5. WindowTells'
  BY <1>1, <1>2, <1>3, <1>4, WakeAssumption DEF WindowInv, WindowTells
<1> QED
  BY <1>3, <1>4, <1>5 DEF WindowInv

\* However much traffic meets a box that does not wake, whatever older
\* commands still run and whenever the journal restarts, no command follows
\* the refusal of the one before within the window, nor another failure of it
\* within the backoff (makeWaker).
THEOREM WakesAreSpaced == WakeSpec => []WakesSpaced
<1>1. WakeInit => WindowInv
  BY WakeAssumption DEF WakeInit, WindowInv, WindowTells, RestRows
<1>2. WindowInv /\ [WakeNext]_wakeVars => WindowInv'
  <2> SUFFICES ASSUME WindowInv, [WakeNext]_wakeVars PROVE WindowInv'
    OBVIOUS
  <2>1. CASE TrafficComes \/ StallSweep
    BY <2>1, FireKeepsWindow DEF TrafficComes, StallSweep
  <2>2. CASE \E which \in {"last", "older"} : \E code \in Codes : CommandEnds(which, code)
    BY <2>2, EndKeepsWindow
  <2>3. CASE WakeTick
    BY <2>3, TickKeepsWindow
  <2>4. CASE WakerForgets
    BY <2>4, WakeAssumption DEF WakerForgets, WindowInv, WindowTells, RestRows
  <2>5. CASE RefusalLapses \/ LimitResets \/ BoxConnects \/ BoxLeaves \/ UNCHANGED wakeVars
    BY <2>5 DEF RefusalLapses, LimitResets, BoxConnects, BoxLeaves, wakeVars, WindowInv, WindowTells
  <2>6. CASE \E reported \in BOOLEAN : StatusFrame(reported)
    BY <2>6 DEF StatusFrame, WindowInv, WindowTells
  <2> QED
    BY <2>1, <2>2, <2>3, <2>4, <2>5, <2>6 DEF WakeNext
<1>3. WindowInv => WakesSpaced
  BY DEF WindowInv, WakesSpaced
<1> QED
  BY <1>1, <1>2, <1>3, PTL DEF WakeSpec
=============================================================================
