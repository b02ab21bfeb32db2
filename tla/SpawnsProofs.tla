---------------------------- MODULE SpawnsProofs ----------------------------
(* Theorems about Spawns and about Routines, for every value of their       *)
(* constants, and about the two side by side (MCSpawns).                    *)
EXTENDS MCSpawns, FiniteSetTheorems, WellFoundedInduction, TLAPS

-----------------------------------------------------------------------------
(* Types.  The state falls in what the database holds, what the process    *)
(* holds, and what the box knows; each group is written by few operators.  *)

Stored ==
  /\ row \in [Requests -> {"none", "awaiting", "approved"} \cup Ended]
  /\ age \in [Requests -> 0 .. Oldest]
  /\ rooms \subseteq Linked
  /\ item \in [Requests -> {"open", "closed"}]
  /\ told \in [Requests -> Seq(Ended)]
  /\ epitaph \in [Requests -> Nat]
  /\ recent \subseteq Requests /\ auto \subseteq recent
  /\ consent \in BOOLEAN
  /\ cut \subseteq Requests

Held ==
  /\ task \in [Requests -> [step : {"none", "wake", "call"}, left : 0 .. Longest]]
  /\ verifying \subseteq Requests
  /\ online \in BOOLEAN

Known ==
  /\ asked \subseteq Requests
  /\ ran \in [Requests -> Nat]

LEMMA Parts == TypeOK <=> Stored /\ Held /\ Known
BY DEF TypeOK, Stored, Held, Known

LEMMA Limits ==
  /\ AskTTL \in Nat \ {0} /\ WakeWait \in Nat \ {0} /\ StartTimeout \in Nat \ {0}
  /\ OrphanTTL \in Nat /\ OrphanTTL = 2 * (StartTimeout + WakeWait)
  /\ Longest \in Nat /\ WakeWait <= Longest /\ StartTimeout <= Longest
  /\ Oldest \in Nat /\ AskTTL <= Oldest /\ OrphanTTL <= Oldest
  /\ Linked \subseteq Requests
  /\ DailyCap \in Nat
<1>1. AskTTL \in Nat \ {0} /\ WakeWait \in Nat \ {0} /\ StartTimeout \in Nat \ {0}
  BY SpawnAssumption
<1>2. OrphanTTL \in Nat /\ OrphanTTL = 2 * (StartTimeout + WakeWait)
  BY <1>1 DEF OrphanTTL
<1>3. Longest \in Nat /\ WakeWait <= Longest /\ StartTimeout <= Longest
  BY <1>1 DEF Longest
<1>4. Oldest \in Nat /\ AskTTL <= Oldest /\ OrphanTTL <= Oldest
  BY <1>1, <1>2 DEF Oldest
<1> QED BY <1>1, <1>2, <1>3, <1>4, SpawnAssumption

LEMMA DeathKeepsHeld == Died => Held'
<1>1. SUFFICES ASSUME Died PROVE Held'
  OBVIOUS
<1>2. task' \in [Requests -> [step : {"none", "wake", "call"}, left : 0 .. Longest]]
  BY <1>1, Limits DEF Died, Idle
<1>3. verifying' \subseteq Requests /\ online' \in BOOLEAN
  BY <1>1 DEF Died
<1> QED BY <1>2, <1>3 DEF Held

\* Rows that end, with the writes that follow.
LEMMA SettleKeepsStored ==
    ASSUME Stored, NEW ends, NEW done, NEW closing,
           DOMAIN ends \subseteq Requests,
           \A r \in DOMAIN ends : ends[r] \in Ended,
           Settle(ends, done, closing)
    PROVE  Stored'
<1>1. row' \in [Requests -> {"none", "awaiting", "approved"} \cup Ended]
  BY DEF Stored, Settle
<1>2. age' \in [Requests -> 0 .. Oldest]
  BY Limits DEF Stored, Settle
<1>3. told' \in [Requests -> Seq(Ended)]
  BY DEF Stored, Settle
<1>4. epitaph' \in [Requests -> Nat]
  BY DEF Stored, Settle
<1>5. item' \in [Requests -> {"open", "closed"}]
  BY DEF Stored, Settle
<1>6. /\ UNCHANGED <<rooms, recent, auto, consent>>
      /\ cut' \subseteq Requests
  BY DEF Stored, Settle
<1> QED BY <1>1, <1>2, <1>3, <1>4, <1>5, <1>6 DEF Stored

LEMMA SettleOneKeepsStored ==
    ASSUME Stored, NEW r \in Requests, NEW end \in Ended, NEW n \in 0 .. All,
           SettleOne(r, end, n)
    PROVE  Stored'
<1> DEFINE ends == [x \in {r} |-> end]
           done == [x \in {r} |-> n]
           closing == IF n = All THEN {r} ELSE {}
<1>1. Settle(ends, done, closing)
  BY DEF SettleOne
<1>2. DOMAIN ends \subseteq Requests /\ \A x \in DOMAIN ends : ends[x] \in Ended
  OBVIOUS
<1> HIDE DEF ends, done, closing
<1> QED BY <1>1, <1>2, SettleKeepsStored

LEMMA ConcludeKeepsTypes ==
    ASSUME Stored, Held, NEW r \in Requests, NEW end \in Ended, NEW n \in 0 .. All,
           Conclude(r, end, n)
    PROVE  Stored' /\ Held'
<1>1. Stored'
  <2>1. CASE row[r] = "approved"
    BY <2>1, SettleOneKeepsStored DEF Conclude
  <2>2. CASE row[r] # "approved"
    BY <2>2 DEF Conclude, Stored, durable
  <2> QED BY <2>1, <2>2
<1>2. Held'
  <2>1. CASE n = All
    BY <2>1, Limits DEF Conclude, Held, Idle
  <2>2. CASE n # All
    BY <2>2, DeathKeepsHeld DEF Conclude
  <2> QED BY <2>1, <2>2
<1> QED BY <1>1, <1>2

LEMMA ApprovedKeepsTypes ==
    ASSUME Stored, Held, Known, NEW r \in Requests, NEW by, NEW n \in 0 .. All,
           Approved(r, by, n)
    PROVE  Stored' /\ Held' /\ Known'
<1>1. /\ age' \in [Requests -> 0 .. Oldest]
      /\ item' \in [Requests -> {"open", "closed"}]
  BY Limits DEF Approved, Stored
<1>2. /\ recent' \subseteq Requests /\ auto' \subseteq recent'
      /\ consent' \in BOOLEAN
      /\ cut' \subseteq Requests
      /\ ran' \in [Requests -> Nat]
  BY DEF Approved, Stored, Known
<1>3. CASE n # All
  <2>1. /\ row' = [row EXCEPT ![r] = "approved"]
        /\ UNCHANGED <<rooms, told, epitaph, asked>>
        /\ Died
    BY <1>3 DEF Approved
  <2>2. Stored'
    BY <1>1, <1>2, <2>1 DEF Stored
  <2> QED BY <1>2, <2>1, <2>2, DeathKeepsHeld DEF Known
<1>4. CASE n = All
  <2>1. PICK fate \in {"waking", "sent", "unreachable", "mission_closed"} : Launch(r, fate)
    BY <1>4 DEF Approved
  <2>2. verifying' \subseteq Requests
    BY <1>4 DEF Approved, Held
  <2>3. /\ row' \in [Requests -> {"none", "awaiting", "approved"} \cup Ended]
        /\ rooms' \subseteq Linked
    BY <2>1 DEF Launch, Stored, Ended, RoomFor
  <2>4. told' \in [Requests -> Seq(Ended)]
    <3>1. "failed" \in Ended
      BY DEF Ended
    <3> QED BY <2>1, <3>1 DEF Launch, Stored
  <2>5. epitaph' \in [Requests -> Nat]
    BY <2>1 DEF Launch, Stored
  <2>6. task' \in [Requests -> [step : {"none", "wake", "call"}, left : 0 .. Longest]]
    BY <2>1, Limits DEF Launch, FirstStep, Held, Idle
  <2>7. online' \in BOOLEAN /\ asked' \subseteq Requests
    BY <2>1 DEF Launch, Held, Known
  <2> QED BY <1>1, <1>2, <2>2, <2>3, <2>4, <2>5, <2>6, <2>7 DEF Stored, Held, Known
<1> QED BY <1>3, <1>4

\* What the sweep writes, whole or cut short, in terms of Settle.
LEMMA SweepSettles ==
    ASSUME SweepWhole \/ SweepDies
    PROVE  \E ends, done, closing :
              /\ Settle(ends, done, closing)
              /\ DOMAIN ends \subseteq Expiring \cup Orphaned
              /\ \A r \in DOMAIN ends : ends[r] = IF r \in Expiring THEN "expired" ELSE "failed"
              /\ done \in [DOMAIN ends -> 0 .. All]
<1> DEFINE both == [r \in Expiring \cup Orphaned |-> IF r \in Expiring THEN "expired" ELSE "failed"]
           first == [r \in Expiring |-> "expired"]
           every == [r \in DOMAIN both |-> All]
<1>1. CASE SweepWhole
  <2>1. Settle(both, every, Stale(both) \cup DOMAIN both)
    BY <1>1 DEF SweepWhole
  <2>2. every \in [DOMAIN both -> 0 .. All]
    BY DEF All
  <2> QED BY <2>1, <2>2
<1>2. CASE SweepDies
  <2>1. PICK ends \in {first, both} :
          \E done \in [DOMAIN ends -> 0 .. All] :
             Settle(ends, done, {r \in DOMAIN ends : done[r] = All})
    BY <1>2 DEF SweepDies
  <2>2. PICK done \in [DOMAIN ends -> 0 .. All] :
             Settle(ends, done, {r \in DOMAIN ends : done[r] = All})
    BY <2>1
  <2>3. /\ DOMAIN ends \subseteq Expiring \cup Orphaned
        /\ \A r \in DOMAIN ends : ends[r] = IF r \in Expiring THEN "expired" ELSE "failed"
    BY <2>1
  <2> QED BY <2>2, <2>3
<1> QED BY <1>1, <1>2

LEMMA SweepKeepsTypes ==
    ASSUME Stored, Held, Known, SweepWhole \/ SweepDies
    PROVE  Stored' /\ Held' /\ Known'
<1>1. PICK ends, done, closing :
              /\ Settle(ends, done, closing)
              /\ DOMAIN ends \subseteq Expiring \cup Orphaned
              /\ \A r \in DOMAIN ends : ends[r] = IF r \in Expiring THEN "expired" ELSE "failed"
  BY SweepSettles
<1>2. DOMAIN ends \subseteq Requests /\ \A r \in DOMAIN ends : ends[r] \in Ended
  BY <1>1 DEF Expiring, Orphaned, Ended
<1>3. Stored'
  BY <1>1, <1>2, SettleKeepsStored
<1>4. Held'
  BY DeathKeepsHeld DEF SweepWhole, SweepDies, Held, volatile
<1>5. Known'
  BY DEF SweepWhole, SweepDies, Known
<1> QED BY <1>3, <1>4, <1>5

LEMMA TypeStep == TypeOK /\ [Next]_vars => TypeOK'
<1> SUFFICES ASSUME Stored, Held, Known, [Next]_vars
             PROVE  Stored' /\ Held' /\ Known'
  BY DEF TypeOK, Stored, Held, Known
<1>1. ASSUME NEW r \in Requests, NEW filed \in BOOLEAN, Ask(r, filed) PROVE Stored' /\ Held' /\ Known'
  BY <1>1 DEF Ask, Stored, Held, Known, volatile
<1>2. ASSUME NEW r \in Requests, AskVerifier(r) \/ Unverified(r) PROVE Stored' /\ Held' /\ Known'
  BY <1>2 DEF AskVerifier, Unverified, Stored, Held, Known, durable
<1>3. ASSUME NEW r \in Requests, CloseByHand(r) \/ DayPasses(r) PROVE Stored' /\ Held' /\ Known'
  BY <1>3 DEF CloseByHand, DayPasses, Stored, Held, Known, volatile
<1>4. ASSUME NEW r \in Requests, NEW starts \in BOOLEAN, Unheard(r, starts) PROVE Stored' /\ Held' /\ Known'
  BY <1>4 DEF Unheard, Stored, Held, Known, durable, volatile
<1>5. ASSUME NEW r \in Requests, NEW by, NEW n \in 0 .. All, Approved(r, by, n) PROVE Stored' /\ Held' /\ Known'
  BY <1>5, ApprovedKeepsTypes
<1>6. ASSUME NEW r \in Requests, NEW n \in 0 .. All, Deny(r, n) PROVE Stored' /\ Held' /\ Known'
  <2>1. Stored'
    BY <1>6, SettleOneKeepsStored DEF Deny, Ended
  <2> QED BY <1>6, <2>1, DeathKeepsHeld DEF Deny, Held, Known, volatile
<1>7. ASSUME NEW r \in Requests, NEW n \in 0 .. All, TimesOut(r, n) PROVE Stored' /\ Held' /\ Known'
  <2>1. Stored' /\ Held'
    BY <1>7, ConcludeKeepsTypes DEF TimesOut, Ended
  <2> QED BY <1>7, <2>1 DEF TimesOut, Known
<1>8. ASSUME NEW r \in Requests, NEW n \in 0 .. All, NEW starts \in BOOLEAN, Answers(r, starts, n)
      PROVE  Stored' /\ Held' /\ Known'
  <2>1. Stored' /\ Held'
    <3>1. CASE task[r].step = "call"
      <4>1. PICK end \in {"started", "failed"} : Conclude(r, end, n)
        BY <1>8, <3>1 DEF Answers
      <4> QED BY <4>1, ConcludeKeepsTypes DEF Ended
    <3>2. CASE task[r].step # "call"
      BY <1>8, <3>2 DEF Answers, Stored, Held, durable, volatile
    <3> QED BY <3>1, <3>2
  <2>2. Known'
    BY <1>8 DEF Answers, Known
  <2> QED BY <2>1, <2>2
<1>9. ASSUME Switch \/ Attach \/ Detach \/ Killed PROVE Stored' /\ Held' /\ Known'
  <2>1. CASE Switch
    BY <2>1 DEF Switch, Stored, Held, Known, volatile
  <2>2. CASE Attach
    BY <2>2, Limits DEF Attach, Stored, Held, Known, durable
  <2>3. CASE Detach
    BY <2>3 DEF Detach, Stored, Held, Known, durable
  <2>4. CASE Killed
    BY <2>4, DeathKeepsHeld DEF Killed, Stored, Known, durable
  <2> QED BY <1>9, <2>1, <2>2, <2>3, <2>4
<1>10. ASSUME Shutdown PROVE Stored' /\ Held' /\ Known'
  <2> DEFINE waiting == {r \in Requests : task[r].step = "wake" /\ row[r] = "approved"}
             ends == [r \in waiting |-> "failed"]
             done == [r \in waiting |-> All]
  <2>1. Settle(ends, done, waiting)
    BY <1>10 DEF Shutdown
  <2>2. DOMAIN ends \subseteq Requests /\ \A r \in DOMAIN ends : ends[r] \in Ended
    BY DEF Ended
  <2> HIDE DEF ends, done, waiting
  <2>3. Stored'
    BY <2>1, <2>2, SettleKeepsStored
  <2> QED BY <1>10, <2>3, DeathKeepsHeld DEF Shutdown, Known
<1>11. ASSUME Tick PROVE Stored' /\ Held' /\ Known'
  <2>1. age' \in [Requests -> 0 .. Oldest]
    BY <1>11, Limits DEF Tick, Stored
  <2>2. task' \in [Requests -> [step : {"none", "wake", "call"}, left : 0 .. Longest]]
    <3> SUFFICES ASSUME NEW r \in Requests
                 PROVE  (IF task[r].step = "none" THEN Idle ELSE [task[r] EXCEPT !.left = @ - 1])
                          \in [step : {"none", "wake", "call"}, left : 0 .. Longest]
      BY <1>11 DEF Tick
    <3>1. task[r] \in [step : {"none", "wake", "call"}, left : 0 .. Longest]
      BY DEF Held
    <3>2. task[r].step # "none" => task[r].left > 0
      BY <1>11 DEF Tick
    <3> QED BY <3>1, <3>2, Limits DEF Idle
  <2> QED BY <1>11, <2>1, <2>2 DEF Tick, Stored, Held, Known
<1>12. CASE UNCHANGED vars
  BY <1>12 DEF vars, durable, volatile, Stored, Held, Known
<1> QED BY <1>1, <1>2, <1>3, <1>4, <1>5, <1>6, <1>7, <1>8, <1>9, <1>10, <1>11, <1>12, SweepKeepsTypes
     DEF Next, Approve, CoordinatorApproves, Verified, AutoAsk

LEMMA TypesHold == Init /\ [][Next]_vars => []TypeOK
<1>1. Init => TypeOK
  <2> SUFFICES ASSUME Init PROVE Stored /\ Held /\ Known
    BY Parts
  <2>1. Stored
    BY Limits DEF Init, Stored
  <2>2. task \in [Requests -> [step : {"none", "wake", "call"}, left : 0 .. Longest]]
    BY Limits DEF Init, Idle
  <2>3. Held
    BY <2>2 DEF Init, Held
  <2>4. Known
    BY DEF Init, Known
  <2> QED BY <2>1, <2>3, <2>4
<1> QED BY <1>1, TypeStep, PTL

\* The initial state satisfies the types, every step keeps them: the row of an
\* ask, its item, its room and its orchestration stay what the code says of
\* their kinds, for any number of asks and any timeouts.
THEOREM TypeCorrect == Spec => []TypeOK
BY TypesHold, PTL DEF Spec

-----------------------------------------------------------------------------
(* The inductive invariant, in three parts.                                *)

\* An orchestration in memory has a row that is approved, and so young that
\* the sweep does not take it for an orphan.
Clock ==
  \A r \in Requests :
    /\ task[r].step = "none" => task[r] = Idle
    /\ task[r].step # "none" => row[r] = "approved"
    /\ task[r].step = "wake" => age[r] + task[r].left <= WakeWait
    /\ task[r].step = "call" => age[r] + task[r].left <= WakeWait + StartTimeout

\* What the row says, and what the sessions and the room were told.
Unanswered == {"none", "awaiting"}
Told(r) ==
  \/ told[r] = << >> /\ (row[r] \notin Ended \/ r \in cut)
  \/ told[r] = <<row[r]>> /\ row[r] \in Ended
Marked(r) ==
  /\ row[r] \in Unanswered => r \notin rooms
  /\ epitaph[r] = 1 \/ epitaph[r] = 0
  /\ epitaph[r] = 1 => row[r] = "failed" /\ r \in rooms
  /\ row[r] = "failed" /\ r \in rooms /\ r \notin cut => epitaph[r] = 1
Story == \A r \in Requests : Told(r) /\ Marked(r)

\* A box that has been asked has not started the session yet; it is asked
\* once, and not before the row is approved.
Session(r) ==
  /\ ran[r] = 0 \/ ran[r] = 1
  /\ row[r] \in {"none", "awaiting", "denied", "expired"} => ran[r] = 0
  /\ r \in asked => ran[r] = 0 /\ row[r] \in {"approved", "failed"}
  /\ task[r].step = "wake" => ran[r] = 0 /\ r \notin asked
  /\ row[r] = "started" => ran[r] = 1
Sessions == \A r \in Requests : Session(r)

IInv == Clock /\ Story /\ Sessions

\* What Settle does to one row.
LEMMA SettleRow ==
    ASSUME Stored, NEW ends, NEW done, NEW closing,
           Settle(ends, done, closing), NEW r \in Requests
    PROVE  /\ rooms' = rooms
           /\ r \notin DOMAIN ends =>
                /\ row'[r] = row[r] /\ age'[r] = age[r]
                /\ told'[r] = told[r] /\ epitaph'[r] = epitaph[r]
                /\ r \in cut' <=> r \in cut
           /\ r \in DOMAIN ends =>
                /\ row'[r] = ends[r] /\ age'[r] = 0
                /\ told'[r] = IF done[r] >= 2 THEN Append(told[r], ends[r]) ELSE told[r]
                /\ epitaph'[r] = IF ends[r] = "failed" /\ done[r] >= 1 /\ r \in rooms
                                 THEN epitaph[r] + 1 ELSE epitaph[r]
                /\ r \in cut' <=> r \in cut \/ done[r] < All
<1>1. /\ rooms' = rooms
      /\ row' = [x \in Requests |-> IF x \in DOMAIN ends THEN ends[x] ELSE row[x]]
      /\ age' = [x \in Requests |-> IF x \in DOMAIN ends THEN 0 ELSE age[x]]
      /\ epitaph' = [x \in Requests |-> IF x \in Buried(ends, done) THEN epitaph[x] + 1 ELSE epitaph[x]]
      /\ told' = [x \in Requests |-> IF x \in DOMAIN ends /\ done[x] >= 2 THEN Append(told[x], ends[x]) ELSE told[x]]
      /\ cut' = cut \cup {x \in DOMAIN ends : done[x] < All}
  BY DEF Settle
<1>2. r \in Buried(ends, done) <=> r \in DOMAIN ends /\ ends[r] = "failed" /\ done[r] >= 1 /\ r \in rooms
  BY DEF Buried
<1> QED BY <1>1, <1>2

\* A row that ends was waiting or approved: its story gets its one ending.
LEMMA SettleKeepsStory ==
    ASSUME Stored, Story, NEW ends, NEW done, NEW closing,
           DOMAIN ends \subseteq Requests,
           \A r \in DOMAIN ends : ends[r] \in Ended /\ row[r] \in {"awaiting", "approved"},
           done \in [DOMAIN ends -> 0 .. All],
           Settle(ends, done, closing)
    PROVE  Story'
<1> SUFFICES ASSUME NEW r \in Requests PROVE Told(r)' /\ Marked(r)'
  BY DEF Story
<1>1. /\ Told(r) /\ Marked(r)
      /\ epitaph[r] \in Nat
  BY DEF Story, Stored
<1>2. CASE r \notin DOMAIN ends
  <2>1. /\ row'[r] = row[r] /\ told'[r] = told[r] /\ epitaph'[r] = epitaph[r]
        /\ rooms' = rooms /\ (r \in cut' <=> r \in cut)
    BY <1>2, SettleRow
  <2> QED BY <1>1, <2>1 DEF Told, Marked
<1>3. CASE r \in DOMAIN ends
  <2>1. /\ row'[r] = ends[r] /\ rooms' = rooms
        /\ told'[r] = IF done[r] >= 2 THEN Append(told[r], ends[r]) ELSE told[r]
        /\ epitaph'[r] = IF ends[r] = "failed" /\ done[r] >= 1 /\ r \in rooms
                         THEN epitaph[r] + 1 ELSE epitaph[r]
        /\ r \in cut' <=> r \in cut \/ done[r] < All
    BY <1>3, SettleRow
  <2>2. ends[r] \in Ended /\ row[r] \in {"awaiting", "approved"} /\ done[r] \in 0 .. 3
    BY <1>3 DEF All
  <2>3. told[r] = << >>
    BY <1>1, <2>2 DEF Told, Ended
  <2>4. Append(<< >>, ends[r]) = <<ends[r]>>
    OBVIOUS
  <2>5. Told(r)'
    BY <2>1, <2>2, <2>3, <2>4 DEF Told, All
  <2>6. epitaph[r] = 0
    BY <1>1, <2>2 DEF Marked
  <2>7. Marked(r)'
    BY <2>1, <2>2, <2>6 DEF Marked, Unanswered, Ended, All
  <2> QED BY <2>5, <2>7
<1> QED BY <1>2, <1>3

\* Rows end while no orchestration works on them, or with it.
LEMMA SettleKeepsClock ==
    ASSUME Stored, Clock, NEW ends, NEW done, NEW closing,
           Settle(ends, done, closing),
           \A r \in Requests : task'[r] = Idle \/ (r \notin DOMAIN ends /\ task'[r] = task[r])
    PROVE  Clock'
<1> SUFFICES ASSUME NEW r \in Requests
             PROVE  /\ task'[r].step = "none" => task'[r] = Idle
                    /\ task'[r].step # "none" => row'[r] = "approved"
                    /\ task'[r].step = "wake" => age'[r] + task'[r].left <= WakeWait
                    /\ task'[r].step = "call" => age'[r] + task'[r].left <= WakeWait + StartTimeout
  BY DEF Clock
<1>1. CASE task'[r] = Idle
  BY <1>1 DEF Idle
<1>2. CASE r \notin DOMAIN ends /\ task'[r] = task[r]
  <2>1. row'[r] = row[r] /\ age'[r] = age[r]
    BY <1>2, SettleRow
  <2> QED BY <1>2, <2>1 DEF Clock
<1> QED BY <1>1, <1>2

LEMMA SettleKeepsSessions ==
    ASSUME Stored, Sessions, NEW ends, NEW done, NEW closing,
           Settle(ends, done, closing),
           \A r \in DOMAIN ends :
              \/ ends[r] \in {"denied", "expired"} /\ row[r] = "awaiting"
              \/ ends[r] = "failed" /\ row[r] = "approved"
              \/ ends[r] = "started" /\ row[r] = "approved" /\ ran'[r] = ran[r] + 1,
           \A r \in Requests : task'[r] = Idle \/ task'[r] = task[r],
           asked' \subseteq asked,
           \A r \in Requests :
              \/ ran'[r] = ran[r]
              \/ ran'[r] = ran[r] + 1 /\ r \in asked \ asked'
    PROVE  Sessions'
<1> SUFFICES ASSUME NEW r \in Requests PROVE Session(r)'
  BY DEF Sessions
<1>1. Session(r)
  BY DEF Sessions
<1>2. /\ r \notin DOMAIN ends => row'[r] = row[r]
      /\ r \in DOMAIN ends => row'[r] = ends[r]
  BY SettleRow
<1>3. task'[r].step = "wake" => task[r].step = "wake"
  BY DEF Idle
<1> QED BY <1>1, <1>2, <1>3 DEF Session

-----------------------------------------------------------------------------
(* The actions that end rows.                                              *)

LEMMA DeathIdles == Died => \A r \in Requests : task'[r] = Idle
BY DEF Died

\* An orchestration that ends finds its row approved.
LEMMA ConcludeSettles ==
    ASSUME Held, Clock, NEW r \in Requests, task[r].step # "none",
           NEW end, NEW n \in 0 .. All, Conclude(r, end, n)
    PROVE  /\ row[r] = "approved"
           /\ SettleOne(r, end, n)
           /\ \A x \in Requests : task'[x] = Idle \/ (x # r /\ task'[x] = task[x])
<1>1. row[r] = "approved"
  BY DEF Clock
<1>2. SettleOne(r, end, n)
  BY <1>1 DEF Conclude
<1>3. \A x \in Requests : task'[x] = Idle \/ (x # r /\ task'[x] = task[x])
  BY DeathIdles DEF Conclude, Held
<1> QED BY <1>1, <1>2, <1>3

LEMMA ConcludeStep ==
    ASSUME Stored, Held, Known, IInv, NEW r \in Requests, task[r].step # "none",
           NEW end \in {"started", "failed"}, NEW n \in 0 .. All, Conclude(r, end, n),
           asked' \subseteq asked,
           \A x \in Requests :
              \/ ran'[x] = ran[x]
              \/ ran'[x] = ran[x] + 1 /\ x \in asked \ asked',
           end = "started" => ran'[r] = ran[r] + 1
    PROVE  IInv'
<1> DEFINE ends == [x \in {r} |-> end]
           done == [x \in {r} |-> n]
           closing == IF n = All THEN {r} ELSE {}
<1>1. /\ row[r] = "approved"
      /\ Settle(ends, done, closing)
      /\ \A x \in Requests : task'[x] = Idle \/ (x # r /\ task'[x] = task[x])
  BY ConcludeSettles DEF IInv, SettleOne
<1>2. /\ DOMAIN ends = {r}
      /\ ends[r] = end
      /\ done \in [DOMAIN ends -> 0 .. All]
  OBVIOUS
<1> HIDE DEF ends, done, closing
<1>3. Clock'
  BY <1>1, <1>2, SettleKeepsClock DEF IInv
<1>4. Story'
  <2>1. \A x \in DOMAIN ends : ends[x] \in Ended /\ row[x] \in {"awaiting", "approved"}
    BY <1>1, <1>2 DEF Ended
  <2> QED BY <1>1, <1>2, <2>1, SettleKeepsStory DEF IInv
<1>5. Sessions'
  <2>1. \A x \in DOMAIN ends :
              \/ ends[x] \in {"denied", "expired"} /\ row[x] = "awaiting"
              \/ ends[x] = "failed" /\ row[x] = "approved"
              \/ ends[x] = "started" /\ row[x] = "approved" /\ ran'[x] = ran[x] + 1
    BY <1>1, <1>2
  <2>2. \A x \in Requests : task'[x] = Idle \/ task'[x] = task[x]
    BY <1>1
  <2> QED BY <1>1, <2>1, <2>2, SettleKeepsSessions DEF IInv
<1> QED BY <1>3, <1>4, <1>5 DEF IInv

\* Rows that end outside of an orchestration: by an answer, by the sweep, or
\* by the shutdown that ends the orchestrations too.
LEMMA EndStep ==
    ASSUME Stored, Held, Known, IInv, NEW ends, NEW done, NEW closing,
           DOMAIN ends \subseteq Requests,
           done \in [DOMAIN ends -> 0 .. All],
           Settle(ends, done, closing),
           \A r \in DOMAIN ends :
              \/ ends[r] \in {"denied", "expired"} /\ row[r] = "awaiting"
              \/ ends[r] = "failed" /\ row[r] = "approved",
           \/ \A r \in Requests : task'[r] = Idle
           \/ task' = task /\ \A r \in DOMAIN ends : task[r].step = "none",
           UNCHANGED <<asked, ran>>
    PROVE  IInv'
<1>1. \A r \in Requests : task'[r] = Idle \/ (r \notin DOMAIN ends /\ task'[r] = task[r])
  BY DEF IInv, Clock
<1>2. Clock'
  BY <1>1, SettleKeepsClock DEF IInv
<1>3. \A r \in DOMAIN ends : ends[r] \in Ended /\ row[r] \in {"awaiting", "approved"}
  BY DEF Ended
<1>4. Story'
  BY <1>3, SettleKeepsStory DEF IInv
<1>5. /\ \A r \in Requests : task'[r] = Idle \/ task'[r] = task[r]
      /\ asked' \subseteq asked
      /\ \A r \in Requests : ran'[r] = ran[r]
      /\ \A r \in DOMAIN ends :
              \/ ends[r] \in {"denied", "expired"} /\ row[r] = "awaiting"
              \/ ends[r] = "failed" /\ row[r] = "approved"
              \/ ends[r] = "started" /\ row[r] = "approved" /\ ran'[r] = ran[r] + 1
  BY <1>1
<1>6. Sessions'
  BY <1>5, SettleKeepsSessions DEF IInv
<1> QED BY <1>2, <1>4, <1>6 DEF IInv

\* An approval: the claim alone if the process dies in it, else as far as the
\* orchestration's first wait or its early end.
LEMMA ApprovedStep ==
    ASSUME Stored, Held, Known, IInv, NEW r \in Requests, row[r] \in Unanswered,
           NEW by, NEW n \in 0 .. All, Approved(r, by, n)
    PROVE  IInv'
<1>1. /\ told[r] = << >> /\ epitaph[r] = 0 /\ r \notin rooms
      /\ ran[r] = 0 /\ r \notin asked
  BY DEF IInv, Story, Told, Marked, Sessions, Session, Unanswered, Ended
<1>2. /\ age' = [age EXCEPT ![r] = 0]
      /\ ran' = ran /\ cut' = cut
  BY DEF Approved
<1>3. CASE n # All
  <2>1. /\ row' = [row EXCEPT ![r] = "approved"]
        /\ rooms' = rooms /\ told' = told /\ epitaph' = epitaph /\ asked' = asked
        /\ \A x \in Requests : task'[x] = Idle
    BY <1>3, DeathIdles DEF Approved
  <2>2. Clock'
    BY <2>1 DEF Clock, Idle
  <2>3. ASSUME NEW x \in Requests PROVE Told(x)' /\ Marked(x)' /\ Session(x)'
    <3>1. Told(x) /\ Marked(x) /\ Session(x)
      BY DEF IInv, Story, Sessions
    <3>2. CASE x = r
      <4>1. row'[x] = "approved"
        BY <2>1, <3>2 DEF Stored
      <4>2. task'[x].step = "none"
        BY <2>1 DEF Idle
      <4> QED BY <1>1, <1>2, <2>1, <3>2, <4>1, <4>2 DEF Told, Marked, Session, Unanswered, Ended
    <3>3. CASE x # r
      <4>1. row'[x] = row[x]
        BY <2>1, <3>3 DEF Stored
      <4>2. task'[x].step = "none"
        BY <2>1 DEF Idle
      <4> QED BY <1>2, <2>1, <3>1, <4>1, <4>2 DEF Told, Marked, Session
    <3> QED BY <3>2, <3>3
  <2> QED BY <2>2, <2>3 DEF IInv, Story, Sessions
<1>4. CASE n = All
  <2>1. PICK fate \in {"waking", "sent", "unreachable", "mission_closed"} : Launch(r, fate)
    BY <1>4 DEF Approved
  <2>2. ASSUME NEW x \in Requests, x # r
        PROVE  /\ row'[x] = row[x] /\ age'[x] = age[x] /\ task'[x] = task[x]
               /\ told'[x] = told[x] /\ epitaph'[x] = epitaph[x]
               /\ x \in rooms' <=> x \in rooms
               /\ x \in asked' <=> x \in asked
    BY <1>2, <2>1, <2>2 DEF Launch, RoomFor, Stored, Held
  <2>3. /\ age'[r] = 0
        /\ fate \in {"waking", "sent"} =>
             /\ row'[r] = "approved" /\ told'[r] = << >> /\ epitaph'[r] = 0
             /\ task'[r] = FirstStep(fate)
             /\ r \in asked' => fate = "sent"
    BY <1>1, <1>2, <2>1 DEF Launch, Stored, Held
  <2>4. fate \notin {"waking", "sent"} =>
             /\ row'[r] = "failed" /\ told'[r] = <<"failed">> /\ task'[r] = Idle
             /\ r \notin asked'
             /\ epitaph'[r] = IF fate = "unreachable" /\ r \in rooms' THEN 1 ELSE 0
             /\ fate = "mission_closed" => rooms' = rooms
    <3>1. Append(<< >>, "failed") = <<"failed">>
      OBVIOUS
    <3> QED BY <1>1, <1>2, <2>1, <3>1 DEF Launch, FirstStep, Stored, Held
  <2>5. Clock'
    <3> SUFFICES ASSUME NEW x \in Requests
             PROVE  /\ task'[x].step = "none" => task'[x] = Idle
                    /\ task'[x].step # "none" => row'[x] = "approved"
                    /\ task'[x].step = "wake" => age'[x] + task'[x].left <= WakeWait
                    /\ task'[x].step = "call" => age'[x] + task'[x].left <= WakeWait + StartTimeout
      BY DEF Clock
    <3>1. CASE x # r
      BY <2>2, <3>1 DEF IInv, Clock
    <3>2. CASE x = r
      <4>1. CASE fate \in {"waking", "sent"}
        BY <2>3, <3>2, <4>1, Limits DEF FirstStep
      <4>2. CASE fate \notin {"waking", "sent"}
        BY <2>4, <3>2, <4>2 DEF Idle
      <4> QED BY <4>1, <4>2
    <3> QED BY <3>1, <3>2
  <2>6. ASSUME NEW x \in Requests PROVE Told(x)' /\ Marked(x)' /\ Session(x)'
    <3>1. Told(x) /\ Marked(x) /\ Session(x)
      BY DEF IInv, Story, Sessions
    <3>2. CASE x # r
      <4>1. /\ row'[x] = row[x] /\ task'[x] = task[x]
            /\ told'[x] = told[x] /\ epitaph'[x] = epitaph[x]
            /\ x \in rooms' <=> x \in rooms
            /\ x \in asked' <=> x \in asked
        BY <2>2, <3>2
      <4> QED BY <1>2, <3>1, <4>1 DEF Told, Marked, Session
    <3>3. CASE x = r /\ fate \in {"waking", "sent"}
      <4>1. task'[r].step = "wake" => fate # "sent"
        BY <2>3, <3>3 DEF FirstStep
      <4> QED BY <1>1, <1>2, <2>3, <3>3, <4>1 DEF Told, Marked, Session, Unanswered, Ended
    <3>4. CASE x = r /\ fate \notin {"waking", "sent"}
      <4>1. task'[r].step = "none"
        BY <2>4, <3>4 DEF Idle
      <4> QED BY <1>1, <1>2, <2>4, <3>4, <4>1 DEF Told, Marked, Session, Unanswered, Ended
    <3> QED BY <3>2, <3>3, <3>4
  <2> QED BY <2>5, <2>6 DEF IInv, Story, Sessions
<1> QED BY <1>3, <1>4

\* No orchestration works on a row that the sweep looks for: it is younger
\* than OrphanTTL, by the sum of its two waits.
LEMMA SweepMissesLive ==
    ASSUME Stored, Held, Clock, NEW r \in Expiring \cup Orphaned
    PROVE  r \in Requests /\ task[r].step = "none"
<1>1. r \in Requests
  BY DEF Expiring, Orphaned
<1>2. age[r] \in Nat /\ task[r].left \in Nat /\ task[r].step \in {"none", "wake", "call"}
  BY <1>1, Limits DEF Stored, Held
<1>3. CASE r \in Expiring
  BY <1>1, <1>3 DEF Clock, Expiring
<1>4. CASE r \in Orphaned
  <2>1. age[r] >= 2 * (StartTimeout + WakeWait)
    BY <1>4, Limits DEF Orphaned
  <2> QED BY <1>1, <1>2, <2>1, Limits DEF Clock
<1> QED BY <1>1, <1>3, <1>4

LEMMA InvStep == TypeOK /\ IInv /\ [Next]_vars => IInv'
<1> SUFFICES ASSUME Stored, Held, Known, IInv, [Next]_vars
             PROVE  IInv'
  BY DEF TypeOK, Stored, Held, Known
<1>0. ASSUME row' = row, age' = age, rooms' = rooms, told' = told, epitaph' = epitaph,
             cut' = cut, task' = task, ran' = ran, asked' = asked
      PROVE  IInv'
  <2>1. Clock'
    BY <1>0 DEF IInv, Clock
  <2>2. Story'
    BY <1>0 DEF IInv, Story, Told, Marked
  <2>3. Sessions'
    BY <1>0 DEF IInv, Sessions, Session
  <2> QED BY <2>1, <2>2, <2>3 DEF IInv
<1>1. ASSUME NEW r \in Requests, NEW filed \in BOOLEAN, Ask(r, filed) PROVE IInv'
  <2>1. /\ row[r] = "none"
        /\ \A x \in Requests : row'[x] = IF x = r THEN "awaiting" ELSE row[x]
        /\ age' = age /\ rooms' = rooms /\ told' = told /\ epitaph' = epitaph
        /\ cut' = cut /\ task' = task /\ ran' = ran /\ asked' = asked
    BY <1>1 DEF Ask, Stored, volatile
  <2>2. Clock'
    BY <2>1 DEF IInv, Clock
  <2>3. ASSUME NEW x \in Requests PROVE Told(x)' /\ Marked(x)' /\ Session(x)'
    <3>1. Told(x) /\ Marked(x) /\ Session(x)
      BY DEF IInv, Story, Sessions
    <3> QED BY <2>1, <3>1 DEF Told, Marked, Session, Unanswered, Ended
  <2> QED BY <2>2, <2>3 DEF IInv, Story, Sessions
<1>2. ASSUME NEW r \in Requests, AskVerifier(r) \/ Unverified(r) \/ CloseByHand(r) \/ DayPasses(r)
      PROVE  IInv'
  BY <1>0, <1>2 DEF AskVerifier, Unverified, CloseByHand, DayPasses, durable, volatile
<1>3. ASSUME Switch \/ Detach PROVE IInv'
  BY <1>0, <1>3 DEF Switch, Detach, durable, volatile
<1>4. ASSUME NEW r \in Requests, NEW starts \in BOOLEAN, Unheard(r, starts) PROVE IInv'
  <2>1. /\ r \in asked /\ asked' = asked \ {r}
        /\ \A x \in Requests : ran'[x] = IF x = r /\ starts THEN ran[x] + 1 ELSE ran[x]
        /\ row' = row /\ age' = age /\ rooms' = rooms /\ told' = told /\ epitaph' = epitaph
        /\ cut' = cut /\ task' = task
    BY <1>4 DEF Unheard, Known, durable, volatile
  <2>2. Clock'
    BY <2>1 DEF IInv, Clock
  <2>3. Story'
    BY <2>1 DEF IInv, Story, Told, Marked
  <2>4. ASSUME NEW x \in Requests PROVE Session(x)'
    <3>1. Session(x) /\ Session(r)
      BY DEF IInv, Sessions
    <3> QED BY <2>1, <3>1 DEF Session
  <2> QED BY <2>2, <2>3, <2>4 DEF IInv, Sessions
<1>5. ASSUME NEW r \in Requests, NEW n \in 0 .. All, NEW by,
             Approve(r, by, n) \/ (row[r] = "none" /\ Approved(r, by, n))
      PROVE  IInv'
  BY <1>5, ApprovedStep DEF Approve, Unanswered
<1>6. ASSUME NEW r \in Requests, NEW n \in 0 .. All, Deny(r, n) PROVE IInv'
  <2> DEFINE ends == [x \in {r} |-> "denied"]
             done == [x \in {r} |-> n]
             closing == IF n = All THEN {r} ELSE {}
  <2>1. row[r] = "awaiting" /\ Settle(ends, done, closing) /\ UNCHANGED <<asked, ran>>
    BY <1>6 DEF Deny, SettleOne
  <2>2. \/ \A x \in Requests : task'[x] = Idle
        \/ task' = task /\ \A x \in DOMAIN ends : task[x].step = "none"
    <3>1. task[r].step = "none"
      BY <2>1 DEF IInv, Clock
    <3> QED BY <1>6, <3>1, DeathIdles DEF Deny, volatile
  <2>3. /\ DOMAIN ends = {r} /\ ends[r] = "denied"
        /\ done \in [DOMAIN ends -> 0 .. All]
    OBVIOUS
  <2> HIDE DEF ends, done, closing
  <2>4. /\ DOMAIN ends \subseteq Requests
        /\ \A x \in DOMAIN ends :
              \/ ends[x] \in {"denied", "expired"} /\ row[x] = "awaiting"
              \/ ends[x] = "failed" /\ row[x] = "approved"
    BY <2>1, <2>3
  <2> QED BY <2>1, <2>2, <2>3, <2>4, EndStep
<1>7. ASSUME NEW r \in Requests, NEW n \in 0 .. All, TimesOut(r, n) PROVE IInv'
  <2>1. /\ task[r].step # "none" /\ Conclude(r, "failed", n)
        /\ asked' = asked /\ ran' = ran
    BY <1>7 DEF TimesOut
  <2>2. asked' \subseteq asked /\ \A x \in Requests : ran'[x] = ran[x]
    BY <2>1
  <2> QED BY <2>1, <2>2, ConcludeStep
<1>8. ASSUME NEW r \in Requests, NEW n \in 0 .. All, NEW starts \in BOOLEAN, Answers(r, starts, n)
      PROVE  IInv'
  <2>1. /\ r \in asked /\ asked' = asked \ {r}
        /\ \A x \in Requests : ran'[x] = IF x = r /\ starts THEN ran[x] + 1 ELSE ran[x]
    BY <1>8 DEF Answers, Known
  <2>2. CASE task[r].step = "call"
    <3> DEFINE end == IF starts THEN "started" ELSE "failed"
    <3>1. Conclude(r, end, n)
      BY <1>8, <2>2 DEF Answers
    <3>2. end \in {"started", "failed"} /\ (end = "started" => ran'[r] = ran[r] + 1)
      BY <2>1
    <3> HIDE DEF end
    <3>3. /\ asked' \subseteq asked
          /\ \A x \in Requests :
              \/ ran'[x] = ran[x]
              \/ ran'[x] = ran[x] + 1 /\ x \in asked \ asked'
      BY <2>1
    <3>4. task[r].step # "none"
      BY <2>2
    <3> QED BY <3>1, <3>2, <3>3, <3>4, ConcludeStep
  <2>3. CASE task[r].step # "call"
    <3>1. /\ row' = row /\ age' = age /\ rooms' = rooms /\ told' = told /\ epitaph' = epitaph
          /\ cut' = cut /\ task' = task
      BY <1>8, <2>3 DEF Answers, durable, volatile
    <3>2. Clock'
      BY <3>1 DEF IInv, Clock
    <3>3. Story'
      BY <3>1 DEF IInv, Story, Told, Marked
    <3>4. ASSUME NEW x \in Requests PROVE Session(x)'
      <4>1. Session(x) /\ Session(r)
        BY DEF IInv, Sessions
      <4> QED BY <2>1, <3>1, <4>1 DEF Session
    <3> QED BY <3>2, <3>3, <3>4 DEF IInv, Sessions
  <2> QED BY <2>2, <2>3
<1>9. ASSUME Attach PROVE IInv'
  <2>1. /\ \A x \in Requests : task'[x] = IF task[x].step = "wake" THEN [step |-> "call", left |-> StartTimeout] ELSE task[x]
        /\ asked' = asked \cup {x \in Requests : task[x].step = "wake"}
        /\ row' = row /\ age' = age /\ rooms' = rooms /\ told' = told /\ epitaph' = epitaph
        /\ cut' = cut /\ ran' = ran
    BY <1>9 DEF Attach, durable
  <2>2. Clock'
    <3> SUFFICES ASSUME NEW x \in Requests
             PROVE  /\ task'[x].step = "none" => task'[x] = Idle
                    /\ task'[x].step # "none" => row[x] = "approved"
                    /\ task'[x].step = "wake" => age[x] + task'[x].left <= WakeWait
                    /\ task'[x].step = "call" => age[x] + task'[x].left <= WakeWait + StartTimeout
      BY <2>1 DEF Clock
    <3>1. CASE task[x].step = "wake"
      <4>1. age[x] \in Nat /\ task[x].left \in Nat
        BY Limits DEF Stored, Held
      <4>2. age[x] <= WakeWait /\ row[x] = "approved"
        BY <3>1, <4>1, Limits DEF IInv, Clock
      <4>3. task'[x].step = "call" /\ task'[x].left = StartTimeout
        BY <2>1, <3>1
      <4> QED BY <4>1, <4>2, <4>3, Limits
    <3>2. CASE task[x].step # "wake"
      BY <2>1, <3>2 DEF IInv, Clock
    <3> QED BY <3>1, <3>2
  <2>3. Story'
    BY <2>1 DEF IInv, Story, Told, Marked
  <2>4. ASSUME NEW x \in Requests PROVE Session(x)'
    <3>1. Session(x) /\ (task[x].step = "wake" => row[x] = "approved")
      BY DEF IInv, Sessions, Clock
    <3>2. task'[x].step = "wake" => FALSE
      BY <2>1
    <3> QED BY <2>1, <3>1, <3>2 DEF Session
  <2> QED BY <2>2, <2>3, <2>4 DEF IInv, Sessions
<1>10. ASSUME Killed PROVE IInv'
  <2>1. /\ \A x \in Requests : task'[x] = Idle
        /\ row' = row /\ age' = age /\ rooms' = rooms /\ told' = told /\ epitaph' = epitaph
        /\ cut' = cut /\ ran' = ran /\ asked' = asked
    BY <1>10, DeathIdles DEF Killed, durable
  <2>2. Clock'
    BY <2>1 DEF Clock, Idle
  <2>3. Story'
    BY <2>1 DEF IInv, Story, Told, Marked
  <2>4. Sessions'
    BY <2>1 DEF IInv, Sessions, Session, Idle
  <2> QED BY <2>2, <2>3, <2>4 DEF IInv
<1>11. ASSUME SweepWhole \/ SweepDies PROVE IInv'
  <2>1. PICK ends, done, closing :
              /\ Settle(ends, done, closing)
              /\ DOMAIN ends \subseteq Expiring \cup Orphaned
              /\ \A r \in DOMAIN ends : ends[r] = IF r \in Expiring THEN "expired" ELSE "failed"
              /\ done \in [DOMAIN ends -> 0 .. All]
    BY <1>11, SweepSettles
  <2>2. \A r \in DOMAIN ends : r \in Requests /\ task[r].step = "none"
    BY <2>1, SweepMissesLive DEF IInv
  <2>3. DOMAIN ends \subseteq Requests
    BY <2>2
  <2>4. \A r \in DOMAIN ends :
              \/ ends[r] \in {"denied", "expired"} /\ row[r] = "awaiting"
              \/ ends[r] = "failed" /\ row[r] = "approved"
    BY <2>1 DEF Expiring, Orphaned
  <2>5. \/ \A r \in Requests : task'[r] = Idle
        \/ task' = task /\ \A r \in DOMAIN ends : task[r].step = "none"
    BY <1>11, <2>2, DeathIdles DEF SweepWhole, SweepDies, volatile
  <2>6. UNCHANGED <<asked, ran>>
    BY <1>11 DEF SweepWhole, SweepDies
  <2> QED BY <2>1, <2>3, <2>4, <2>5, <2>6, EndStep
<1>12. ASSUME Shutdown PROVE IInv'
  <2> DEFINE waiting == {r \in Requests : task[r].step = "wake" /\ row[r] = "approved"}
             ends == [r \in waiting |-> "failed"]
             done == [r \in waiting |-> All]
  <2>1. Settle(ends, done, waiting) /\ Died /\ UNCHANGED <<asked, ran>>
    BY <1>12 DEF Shutdown
  <2>2. /\ DOMAIN ends \subseteq Requests
        /\ \A r \in DOMAIN ends : ends[r] = "failed" /\ row[r] = "approved"
        /\ done \in [DOMAIN ends -> 0 .. All]
    BY DEF All
  <2> HIDE DEF ends, done, waiting
  <2>3. \A r \in Requests : task'[r] = Idle
    BY <2>1, DeathIdles
  <2>4. \A r \in DOMAIN ends :
              \/ ends[r] \in {"denied", "expired"} /\ row[r] = "awaiting"
              \/ ends[r] = "failed" /\ row[r] = "approved"
    BY <2>2
  <2> QED BY <2>1, <2>2, <2>3, <2>4, EndStep
<1>13. ASSUME Tick PROVE IInv'
  <2>1. /\ \A r \in Requests : task[r].step # "none" => task[r].left > 0
        /\ \A r \in Requests : age'[r] \in {age[r], age[r] + 1}
        /\ row' = row /\ rooms' = rooms /\ told' = told /\ epitaph' = epitaph
        /\ cut' = cut /\ ran' = ran /\ asked' = asked
    BY <1>13 DEF Tick
  <2>2. ASSUME NEW r \in Requests
        PROVE  /\ task[r].step = "none" => task'[r] = Idle
               /\ task'[r].step = task[r].step
               /\ task[r].step # "none" => task'[r].left = task[r].left - 1
    <3>1. task' = [x \in Requests |-> IF task[x].step = "none" THEN Idle
                                      ELSE [step |-> task[x].step, left |-> task[x].left - 1]]
      BY <1>13 DEF Tick
    <3>2. CASE task[r].step = "none"
      <4>1. task'[r] = Idle
        BY <3>1, <3>2
      <4> QED BY <3>2, <4>1 DEF Idle
    <3>3. CASE task[r].step # "none"
      <4> DEFINE next == [step |-> task[r].step, left |-> task[r].left - 1]
      <4>1. task'[r] = next
        BY <3>1, <3>3
      <4>2. next.step = task[r].step /\ next.left = task[r].left - 1
        OBVIOUS
      <4> HIDE DEF next
      <4> QED BY <3>3, <4>1, <4>2
    <3> QED BY <3>2, <3>3
  <2>3. Clock'
    <3> SUFFICES ASSUME NEW r \in Requests
             PROVE  /\ task'[r].step = "none" => task'[r] = Idle
                    /\ task'[r].step # "none" => row[r] = "approved"
                    /\ task'[r].step = "wake" => age'[r] + task'[r].left <= WakeWait
                    /\ task'[r].step = "call" => age'[r] + task'[r].left <= WakeWait + StartTimeout
      BY <2>1 DEF Clock
    <3>1. CASE task[r].step = "none"
      BY <2>2, <3>1
    <3>2. CASE task[r].step # "none"
      <4>1. task'[r].step = task[r].step /\ task'[r].left = task[r].left - 1
        BY <2>2, <3>2
      <4>2. age[r] \in Nat /\ task[r].left \in Nat
        BY Limits DEF Stored, Held
      <4>3. age'[r] + task'[r].left <= age[r] + task[r].left
        BY <2>1, <4>1, <4>2
      <4>4. age'[r] + task'[r].left \in Int
        BY <2>1, <4>1, <4>2
      <4> QED BY <3>2, <4>1, <4>2, <4>3, <4>4, Limits DEF IInv, Clock
    <3> QED BY <3>1, <3>2
  <2>4. Story'
    BY <2>1 DEF IInv, Story, Told, Marked
  <2>5. Sessions'
    BY <2>1, <2>2 DEF IInv, Sessions, Session
  <2> QED BY <2>3, <2>4, <2>5 DEF IInv
<1>14. CASE UNCHANGED vars
  BY <1>0, <1>14 DEF vars, durable, volatile
<1> QED BY <1>1, <1>2, <1>3, <1>4, <1>5, <1>6, <1>7, <1>8, <1>9, <1>10, <1>11, <1>12, <1>13, <1>14
     DEF Next, CoordinatorApproves, Verified, AutoAsk

LEMMA InvHolds == Init /\ [][Next]_vars => [](TypeOK /\ IInv)
<1>1. Init => IInv
  BY DEF Init, IInv, Clock, Story, Told, Marked, Sessions, Session, Ended, Idle
<1> QED BY <1>1, InvStep, TypesHold, PTL

-----------------------------------------------------------------------------

\* An orchestration in memory always has an approved row, and the sweep never
\* takes it: its age stays below the orphan limit for every pair of waits.
THEOREM LiveStaysApproved == Spec => []LiveIsApproved
<1>1. TypeOK /\ IInv => LiveIsApproved
  BY DEF IInv, Clock, LiveIsApproved
<1> QED BY <1>1, InvHolds, PTL DEF Spec

\* The asking session hears exactly one outcome, the one its row ended with,
\* unless the process died between the two writes.
THEOREM OneOutcome == Spec => []ToldOnce
<1>1. TypeOK /\ IInv => ToldOnce
  BY DEF IInv, Story, Told, ToldOnce
<1> QED BY <1>1, InvHolds, PTL DEF Spec

LEMMA InvGivesSessions == TypeOK /\ IInv => OneSessionPerApproval
<1> SUFFICES ASSUME TypeOK, IInv, NEW r \in Requests
             PROVE  /\ ran[r] <= 1
                    /\ ran[r] = 1 => row[r] \in {"approved", "started", "failed"}
                    /\ row[r] = "started" => ran[r] = 1
  BY DEF OneSessionPerApproval
<1>1. Session(r)
  BY DEF IInv, Sessions
<1>2. row[r] \in {"none", "awaiting", "approved", "started", "denied", "expired", "failed"}
  BY DEF TypeOK, Ended
<1> QED BY <1>1, <1>2 DEF Session

\* A box runs at most one session per request, none for one that was denied or
\* expired, and the one of a request that is said to have started.
THEOREM OneSession == Spec => []OneSessionPerApproval
BY InvGivesSessions, InvHolds, PTL DEF Spec

\* A room whose child failed says so once, unless the process died before it
\* could; no other room says it.
THEOREM RoomsAreMarked == Spec => []DeadRoomsSaySo
<1>1. TypeOK /\ IInv => DeadRoomsSaySo
  BY DEF IInv, Story, Marked, DeadRoomsSaySo
<1> QED BY <1>1, InvHolds, PTL DEF Spec

LEMMA InvGivesOutcomes == TypeOK /\ IInv => OutcomesTold
BY DEF IInv, Story, Clock, Told, Marked, OutcomesTold, ToldOnce, DeadRoomsSaySo, LiveIsApproved

\* All of it: the story told of a request is the one its row tells.
THEOREM OutcomesAreTold == Spec => []OutcomesTold
BY InvGivesOutcomes, InvHolds, PTL DEF Spec

-----------------------------------------------------------------------------
(* The cap.                                                                *)

Capped == IsFiniteSet(recent) /\ CapKept

LEMMA FewerStayCapped ==
    ASSUME Capped, IsFiniteSet(recent'), recent' \ auto' \subseteq recent \ auto
    PROVE  Capped'
<1>1. IsFiniteSet(recent \ auto)
  BY FS_Subset DEF Capped
<1>2. Cardinality(recent' \ auto') <= Cardinality(recent \ auto)
  BY <1>1, FS_Subset
<1>3. Cardinality(recent' \ auto') \in Nat /\ Cardinality(recent \ auto) \in Nat
  BY <1>1, FS_Subset, FS_CardinalityType
<1> QED BY <1>2, <1>3, Limits DEF Capped, CapKept

LEMMA OneMoreStaysCapped ==
    ASSUME Capped, UnderCap, NEW r, recent' \subseteq recent \cup {r}
    PROVE  Capped'
<1>1. /\ IsFiniteSet(recent \cup {r})
      /\ Cardinality(recent \cup {r}) <= Cardinality(recent) + 1
      /\ Cardinality(recent) \in Nat /\ Cardinality(recent \cup {r}) \in Nat
  BY FS_AddElement, FS_CardinalityType DEF Capped
<1>2. /\ IsFiniteSet(recent') /\ IsFiniteSet(recent' \ auto')
      /\ Cardinality(recent' \ auto') <= Cardinality(recent \cup {r})
  BY <1>1, FS_Subset
<1>3. Cardinality(recent' \ auto') \in Nat
  BY <1>2, FS_CardinalityType
<1> QED BY <1>1, <1>2, <1>3, Limits DEF Capped, CapKept, UnderCap

LEMMA CapStays == Init /\ [][Next]_vars => []CapKept
<1>1. Init => Capped
  BY FS_EmptySet, Limits DEF Init, Capped, CapKept
<1>2. TypeOK /\ Capped /\ [Next]_vars => Capped'
  <2> SUFFICES ASSUME TypeOK, Capped, [Next]_vars PROVE Capped'
    OBVIOUS
  <2>1. ASSUME recent' = recent, auto' = auto PROVE Capped'
    BY <2>1 DEF Capped, CapKept
  <2>2. ASSUME NEW r \in Requests, NEW n \in 0 .. All,
               CoordinatorApproves(r, n) \/ Verified(r, n)
        PROVE  Capped'
    <3>1. UnderCap /\ recent' \subseteq recent \cup {r}
      BY <2>2 DEF CoordinatorApproves, Verified, Approve, Approved
    <3> QED BY <3>1, OneMoreStaysCapped
  <2>3. ASSUME NEW r \in Requests, NEW n \in 0 .. All, AutoAsk(r, n) PROVE Capped'
    <3>1. \/ recent' = recent /\ auto' = auto
          \/ recent' = recent \cup {r} /\ auto' = auto \cup {r}
      BY <2>3 DEF AutoAsk, Approved
    <3>2. IsFiniteSet(recent') /\ recent' \ auto' \subseteq recent \ auto
      BY <3>1, FS_AddElement DEF Capped
    <3> QED BY <3>2, FewerStayCapped
  <2>4. ASSUME NEW r \in Requests, DayPasses(r) PROVE Capped'
    <3>1. recent' \subseteq recent /\ recent' \ auto' \subseteq recent \ auto
      BY <2>4 DEF DayPasses
    <3> QED BY <3>1, FS_Subset, FewerStayCapped DEF Capped
  <2>5. ASSUME NEW r \in Requests, NEW n \in 0 .. All, Approve(r, "user", n) PROVE Capped'
    BY <2>1, <2>5 DEF Approve, Approved
  <2>6. ASSUME NEW r \in Requests, NEW n \in 0 .. All,
               \/ Deny(r, n) \/ TimesOut(r, n)
               \/ \E starts \in BOOLEAN : Answers(r, starts, n)
        PROVE  Capped'
    BY <2>1, <2>6 DEF Deny, TimesOut, Answers, Conclude, SettleOne, Settle, durable
  <2>7. ASSUME NEW r \in Requests,
               \/ \E filed \in BOOLEAN : Ask(r, filed)
               \/ AskVerifier(r) \/ Unverified(r) \/ CloseByHand(r)
               \/ \E starts \in BOOLEAN : Unheard(r, starts)
        PROVE  Capped'
    BY <2>1, <2>7 DEF Ask, AskVerifier, Unverified, CloseByHand, Unheard, durable
  <2>8. ASSUME Switch \/ Attach \/ Detach \/ Killed \/ Shutdown \/ Tick PROVE Capped'
    BY <2>1, <2>8 DEF Switch, Attach, Detach, Killed, Shutdown, Tick, Settle, durable
  <2>9. ASSUME SweepWhole \/ SweepDies PROVE Capped'
    BY <2>1, <2>9, SweepSettles DEF Settle
  <2>10. CASE UNCHANGED vars
    BY <2>1, <2>10 DEF vars, durable
  <2> QED BY <2>2, <2>3, <2>4, <2>5, <2>6, <2>7, <2>8, <2>9, <2>10 DEF Next
<1>3. Capped => CapKept
  BY DEF Capped
<1> QED BY <1>1, <1>2, <1>3, TypesHold, PTL

\* The Coordinator's approvals of a day stay within the cap, whatever number
\* of its asks the verifier answers together: the cap is looked at again when
\* an answer arrives.
THEOREM CapHolds == Spec => []CapKept
BY CapStays, PTL DEF Spec

-----------------------------------------------------------------------------
LEMMA LeastNatural ==
  ASSUME NEW D \in SUBSET Nat, D # {}
  PROVE  \E d \in D : \A k \in D : d <= k
<1> DEFINE R == OpToRel(<, Nat)
<1>1. IsWellFoundedOn(R, Nat)
  BY NatLessThanWellFounded
<1>2. \A x, y \in Nat : x < y => <<x, y>> \in R
  BY DEF OpToRel
<1> HIDE DEF R
<1>3. PICK d \in D : \A k \in D : ~(<<k, d>> \in R)
  BY <1>1, WFMin
<1>4. \A k \in D : ~(k < d) /\ k \in Nat /\ d \in Nat
  BY <1>2, <1>3
<1> QED
  BY <1>4


\* A function defined along 1 .. N has a value at each: there is one.
Folds(f, base, step, k) == f[0] = base /\ \A i \in 1 .. k : f[i] = step[<<f[i - 1], i>>]
LEMMA FoldExists ==
  ASSUME NEW N \in Nat, NEW X, NEW base \in X, NEW step \in [X \X (1 .. N) -> X]
  PROVE  \E f \in [0 .. N -> X] : Folds(f, base, step, N)
<1> DEFINE Along(f, k) == Folds(f, base, step, k)
           D == {k \in 0 .. N : ~\E f \in [0 .. k -> X] : Along(f, k)}
<1> USE DEF Folds
<1>1. SUFFICES ASSUME ~\E f \in [0 .. N -> X] : Along(f, N) PROVE FALSE
  OBVIOUS
<1>2. PICK k \in D : \A j \in D : k <= j
  <2>1. N \in D /\ D \in SUBSET Nat
    BY <1>1
  <2> HIDE DEF D
  <2> QED
    BY <2>1, LeastNatural
<1>3. CASE k = 0
  <2>1. [i \in 0 .. 0 |-> base] \in [0 .. 0 -> X] /\ Along([i \in 0 .. 0 |-> base], 0)
    OBVIOUS
  <2> QED
    BY <1>2, <1>3, <2>1
<1>4. CASE k # 0
  <2>1. k \in 1 .. N /\ k - 1 \in 0 .. N /\ k - 1 \notin D
    BY <1>2, <1>4
  <2>2. PICK g \in [0 .. (k - 1) -> X] : Along(g, k - 1)
    BY <2>1
  <2> DEFINE f == [i \in 0 .. k |-> IF i < k THEN g[i] ELSE step[<<g[k - 1], k>>]]
  <2>3. step[<<g[k - 1], k>>] \in X
    BY <2>1, <2>2
  <2>4. f \in [0 .. k -> X]
    BY <2>1, <2>3
  <2>5. \A i \in 0 .. (k - 1) : f[i] = g[i]
    BY <2>1
  <2>6. f[k] = step[<<g[k - 1], k>>] /\ f[k - 1] = g[k - 1]
    BY <2>1
  <2> HIDE DEF f
  <2>7. Along(f, k)
    BY <2>1, <2>2, <2>5, <2>6
  <2> QED
    BY <1>2, <2>4, <2>7
<1> QED
  BY <1>3, <1>4

-----------------------------------------------------------------------------
(*************************************************************************)
(* The routines.                                                          *)
(*************************************************************************)
Times == -(MissedAfter + 1) .. Never
Timed(f) == f.kind \in {"due", "retry"}

\* What the rows say of the times of the schedule: the next one is ahead, or
\* it has come and is owed; a retry waits exactly after a failure.
RowsAgree(st, ow, fl, at) ==
  \A r \in Scheduled :
    /\ st[r].state = "on" => st[r].next = at \/ (Reached(st[r].next) /\ r \in ow)
    /\ r \in fl <=> st[r].state = "on" /\ st[r].retry # Never

\* A scheduled fire on its way is the only one of its routine, is not waited
\* for by a retry, and was advanced past.
SentAfterAdvance(st, sl, fl, i) ==
  Timed(sl[i]) =>
    /\ sl[i].r \in Scheduled /\ sl[i].r \notin fl /\ sl[i].subjects = {}
    /\ st[sl[i].r].state = "on" => ~Reached(st[sl[i].r].next)
    /\ \A j \in Inflight : Timed(sl[j]) /\ sl[j].r = sl[i].r => i = j
SlotsAgree(st, sl, fl) == \A i \in Inflight : SentAfterAdvance(st, sl, fl, i)

TimesKept == RowsAgree(stored, owed, failed, NextRun) /\ SlotsAgree(stored, slots, failed)

\* A trigger's fire on its way is the only one of its routine and tells what
\* was not answered yet; what was answered is recorded, and what is recorded
\* was answered or is on its way.
TellsNews(sl, an, i) ==
  /\ sl[i].kind = "run" => sl[i].subjects = {}
  /\ sl[i].kind = "trigger" =>
       /\ sl[i].r \in Triggered
       /\ \A s \in sl[i].subjects : <<sl[i].r, s>> \notin an
       /\ \A j \in Inflight : sl[j].kind = "trigger" /\ sl[j].r = sl[i].r => i = j
IsTold(sl, r, s) == \E i \in Inflight : sl[i] # Unused /\ sl[i].r = r /\ s \in sl[i].subjects
SubjectsKept ==
  /\ \A i \in Inflight : TellsNews(slots, answered, i)
  /\ \A r \in Triggered, s \in Subjects : <<r, s>> \in answered => s \in known[r]
  /\ \A r \in Triggered, s \in Subjects : s \in known[r] => IsTold(slots, r, s) \/ <<r, s>> \in answered

RoutinesInv == RoutinesTypeOK /\ TimesKept /\ SubjectsKept

LEMMA RoutineTimes ==
  ASSUME phase \in 0 .. Period - 1
  PROVE  /\ NextRun \in 1 .. Period /\ NextRun \in Times /\ NextRun # Never /\ ~Reached(NextRun)
         /\ RetryAfter \in Times /\ Gap \in Times /\ Never \in Times
         /\ RetryAfter # Never /\ ~Reached(Never)
         /\ Times \subseteq Int /\ Period \in Nat /\ MissedAfter \in Nat /\ Never \in Nat
         /\ \A t \in Times : Reached(t) => t # Never
BY RoutinesAssumption DEF NextRun, Times, Reached, RetryAfter, Gap

LEMMA SlotKinds ==
  ASSUME NEW f \in Delivery \cup {Unused}
  PROVE  /\ f = Unused <=> f.kind = "idle"
         /\ f # Unused => /\ f.kind \in Kinds /\ f.r \in Routines /\ f.subjects \in SUBSET Subjects
                          /\ f \in Delivery
BY DEF Delivery, Unused, Kinds

LEMMA RecordedIsTold ==
  ASSUME NEW r
  PROVE  \A s : s \in Telling(r) <=> IsTold(slots, r, s)
BY DEF Telling, IsTold

LEMMA FreeIsUnused ==
  ASSUME NEW s, ~Busy(s)
  PROVE  Free(s) \in Inflight /\ s[Free(s)] = Unused
<1> DEFINE D == {i \in Inflight : s[i] = Unused}
<1>1. D \in SUBSET Nat /\ D # {}
  BY RoutinesAssumption DEF Busy
<1>2. PICK i \in D : \A j \in D : i <= j
  <2> HIDE DEF D
  <2> QED
    BY <1>1, LeastNatural
<1>3. i \in Inflight /\ s[i] = Unused /\ \A j \in Inflight : s[j] = Unused => i <= j
  BY <1>2
<1> QED
  BY <1>3 DEF Free

\* The order of a sweep names each routine of it once.
LEMMA TurnsAreWhole ==
  ASSUME NEW R, IsFiniteSet(R), NEW order \in InTurn(R)
  PROVE  /\ Cardinality(R) \in Nat
         /\ order \in [1 .. Cardinality(R) -> R]
         /\ \A i, j \in 1 .. Cardinality(R) : i # j => order[i] # order[j]
BY FS_CardinalityType DEF InTurn

-----------------------------------------------------------------------------
(* The scheduled sweep, one due routine after the other.                   *)

FireRows == [row : [Routines -> Row], slots : [Inflight -> Delivery \cup {Unused}],
             done : SUBSET Scheduled]

\* A scheduled fire has its cause: a time that came, or a failure.
CausedByTime(f) == (f.kind = "due" => f.r \in owed) /\ (f.kind = "retry" => f.r \in failed)

\* What the sweep has made of the rows after the first k of the order.
FiredSoFar(s, order, k) ==
  /\ \A r \in s.done : \E i \in 1 .. k : order[i] = r
  /\ \A r \in Routines : r \notin s.done => s.row[r] = stored[r]
  /\ RowsAgree(s.row, owed \ s.done, failed \ s.done, NextRun)
  /\ SlotsAgree(s.row, s.slots, failed \ s.done)
  /\ \A i \in Inflight : \/ s.slots[i] = slots[i]
                         \/ slots[i] = Unused /\ Timed(s.slots[i]) /\ CausedByTime(s.slots[i])

LEMMA AdvancedRow ==
  ASSUME phase \in 0 .. Period - 1, NEW w \in Row
  PROVE  /\ Advanced(w) \in Row
         /\ Advanced(w).state = w.state /\ Advanced(w).retry = Never
         /\ Advanced(w).next = IF Reached(w.next) THEN NextRun ELSE w.next
BY RoutineTimes DEF Advanced, Row, Times

LEMMA FireOneType ==
  ASSUME RoutinesTypeOK, NEW s \in FireRows, NEW r \in Scheduled
  PROVE  FireOne(s, r) \in FireRows
<1> DEFINE f == [kind |-> IF Retrying(s.row[r]) THEN "retry" ELSE "due", r |-> r, subjects |-> {}]
<1>1. r \in Routines /\ s.row[r] \in Row /\ s.row \in [Routines -> Row]
  BY DEF Routines, FireRows
<1>2. Advanced(s.row[r]) \in Row
  BY <1>1, AdvancedRow DEF RoutinesTypeOK
<1>3. [s.row EXCEPT ![r] = Advanced(@)] \in [Routines -> Row]
  BY <1>1, <1>2
<1>4. f \in Delivery
  BY <1>1 DEF Delivery, Kinds
<1>5. ~Busy(s.slots) => [s.slots EXCEPT ![Free(s.slots)] = f] \in [Inflight -> Delivery \cup {Unused}]
  BY <1>4, FreeIsUnused DEF FireRows
<1> HIDE DEF f
<1>6. s.slots \in [Inflight -> Delivery \cup {Unused}] /\ s.done \cup {r} \in SUBSET Scheduled
  BY DEF FireRows
<1>7. CASE Busy(s.slots)
  BY <1>7 DEF FireOne
<1>8. CASE ~Busy(s.slots)
  BY <1>3, <1>5, <1>6, <1>8 DEF FireOne, FireRows, f
<1> QED
  BY <1>7, <1>8

LEMMA FireOneStep ==
  ASSUME RoutinesTypeOK, NEW k \in Nat, NEW order, NEW s \in FireRows, FiredSoFar(s, order, k - 1),
         k > 0, order[k] \in Scheduled, IsDue(order[k]), order[k] \notin s.done
  PROVE  FiredSoFar(FireOne(s, order[k]), order, k)
<1> DEFINE r == order[k]
           w == s.row[r]
           t == FireOne(s, r)
           f == [kind |-> IF Retrying(w) THEN "retry" ELSE "due", r |-> r, subjects |-> {}]
<1>1. r \in Routines /\ w = stored[r] /\ w \in Row /\ phase \in 0 .. Period - 1
  BY DEF Routines, FiredSoFar, FireRows, RoutinesTypeOK
<1>2. /\ w.state = "on" /\ (Reached(w.next) \/ Reached(w.retry))
      /\ w.next \in Times /\ w.retry \in Times
  BY <1>1 DEF IsDue, On, Row, Times
<1>3. /\ w.next = NextRun \/ (Reached(w.next) /\ r \in owed \ s.done)
      /\ r \in failed \ s.done <=> w.retry # Never
  BY <1>2 DEF FiredSoFar, RowsAgree
<1>4. /\ Advanced(w).state = "on" /\ Advanced(w).retry = Never /\ Advanced(w).next = NextRun
      /\ ~Reached(NextRun)
  BY <1>1, <1>2, <1>3, AdvancedRow, RoutineTimes
<1>5. Reached(w.retry) => w.retry # Never
  BY <1>1, <1>2, RoutineTimes
<1>6. \A i \in Inflight : ~(Timed(s.slots[i]) /\ s.slots[i].r = r)
  BY <1>2, <1>3, <1>5 DEF FiredSoFar, SlotsAgree, SentAfterAdvance
<1>7. CASE Busy(s.slots)
  <2>1. t = s
    BY <1>7 DEF FireOne
  <2>2. \A q \in s.done : \E i \in 1 .. k : order[i] = q
    BY DEF FiredSoFar
  <2>3. FiredSoFar(s, order, k)
    BY <2>2 DEF FiredSoFar
  <2> QED
    BY <2>1, <2>3
<1>8. CASE ~Busy(s.slots)
  <2>1. /\ t.row = [s.row EXCEPT ![r] = Advanced(@)] /\ t.done = s.done \cup {r}
        /\ \/ t.slots = s.slots
           \/ t.slots = [s.slots EXCEPT ![Free(s.slots)] = f]
    BY <1>8 DEF FireOne
  <2>2. /\ Free(s.slots) \in Inflight /\ s.slots[Free(s.slots)] = Unused
        /\ s.slots \in [Inflight -> Delivery \cup {Unused}] /\ s.row \in [Routines -> Row]
    BY <1>8, FreeIsUnused DEF FireRows
  <2>3. /\ Timed(f) /\ f.r = r /\ f.subjects = {} /\ f.kind \in {"due", "retry"}
        /\ f.kind = "retry" <=> Reached(w.retry)
    BY DEF Timed, Retrying
  <2> HIDE DEF f, t, w
  <2>4. /\ t.row[r] = Advanced(w)
        /\ \A q \in Routines : q # r => t.row[q] = s.row[q]
    BY <1>1, <2>1, <2>2 DEF w
  <2>5. \A i \in Inflight : t.slots[i] = s.slots[i]
                         \/ (i = Free(s.slots) /\ s.slots[i] = Unused /\ t.slots[i] = f)
    BY <2>1, <2>2
  <2>6. \A i \in Inflight : s.slots[i] = Unused => ~Timed(s.slots[i])
    BY DEF Unused, Timed
  <2> HIDE DEF r
  <2>7. \A q \in t.done : \E i \in 1 .. k : order[i] = q
    BY <2>1 DEF FiredSoFar, r
  <2>8. \A q \in Routines : q \notin t.done => t.row[q] = stored[q]
    BY <2>1, <2>4 DEF FiredSoFar
  <2>9. RowsAgree(t.row, owed \ t.done, failed \ t.done, NextRun)
    <3>1. ASSUME NEW q \in Scheduled, q # r
          PROVE  /\ t.row[q].state = "on" => t.row[q].next = NextRun \/ (Reached(t.row[q].next) /\ q \in owed \ t.done)
                 /\ q \in failed \ t.done <=> t.row[q].state = "on" /\ t.row[q].retry # Never
      <4>1. t.row[q] = s.row[q] /\ (q \in t.done <=> q \in s.done)
        BY <2>1, <2>4, <3>1 DEF Routines
      <4> QED
        BY <4>1 DEF FiredSoFar, RowsAgree
    <3> QED
      BY <1>4, <2>1, <2>4, <3>1 DEF RowsAgree
  <2>10. SlotsAgree(t.row, t.slots, failed \ t.done)
    <3>1. ASSUME NEW i \in Inflight, Timed(t.slots[i])
          PROVE  /\ t.slots[i].r \in Scheduled /\ t.slots[i].r \notin failed \ t.done
                 /\ t.slots[i].subjects = {}
                 /\ t.row[t.slots[i].r].state = "on" => ~Reached(t.row[t.slots[i].r].next)
                 /\ \A j \in Inflight : Timed(t.slots[j]) /\ t.slots[j].r = t.slots[i].r => i = j
      <4>1. CASE t.slots[i] = s.slots[i]
        <5>1. /\ s.slots[i].r \in Scheduled /\ s.slots[i].r \notin failed \ s.done
              /\ s.slots[i].subjects = {}
              /\ s.row[s.slots[i].r].state = "on" => ~Reached(s.row[s.slots[i].r].next)
              /\ \A j \in Inflight : Timed(s.slots[j]) /\ s.slots[j].r = s.slots[i].r => i = j
          BY <3>1, <4>1 DEF FiredSoFar, SlotsAgree, SentAfterAdvance
        <5>2. s.slots[i].r # r /\ s.slots[i].r \in Routines
          BY <1>6, <3>1, <4>1, <5>1 DEF Routines
        <5>3. t.row[s.slots[i].r] = s.row[s.slots[i].r]
          BY <2>4, <5>2
        <5>4. \A j \in Inflight : Timed(t.slots[j]) /\ t.slots[j].r = t.slots[i].r => i = j
          BY <2>3, <2>5, <4>1, <5>1, <5>2
        <5> QED
          BY <2>1, <4>1, <5>1, <5>3, <5>4
      <4>2. CASE i = Free(s.slots) /\ t.slots[i] = f
        <5>1. \A j \in Inflight : Timed(t.slots[j]) /\ t.slots[j].r = r => i = j
          BY <1>6, <2>5, <4>2
        <5> QED
          BY <1>1, <1>4, <2>1, <2>3, <2>4, <4>2, <5>1 DEF r
      <4> QED
        BY <2>5, <4>1, <4>2
    <3> QED
      BY <3>1 DEF SlotsAgree, SentAfterAdvance
  <2>11. \A i \in Inflight : \/ t.slots[i] = slots[i]
                             \/ slots[i] = Unused /\ Timed(t.slots[i]) /\ CausedByTime(t.slots[i])
    <3>1. CausedByTime(f)
      <4>1. Reached(w.retry) => r \in failed
        BY <1>3, <1>5
      <4>2. ~Reached(w.retry) => r \in owed
        BY <1>2, <1>3, <1>4
      <4>3. Reached(w.retry) => f.kind # "due"
        BY <2>3
      <4> QED
        BY <2>3, <4>1, <4>2, <4>3 DEF CausedByTime
    <3> QED
      BY <2>3, <2>5, <2>6, <3>1 DEF FiredSoFar
  <2> QED
    BY <2>7, <2>8, <2>9, <2>10, <2>11 DEF FiredSoFar, r, t
<1> QED
  BY <1>7, <1>8 DEF r, t

LEMMA FireAllHolds ==
  ASSUME RoutinesTypeOK, TimesKept, NEW R \in SUBSET Scheduled, \A r \in R : IsDue(r),
         NEW order \in InTurn(R)
  PROVE  /\ FireAll(order, Cardinality(R)) \in FireRows
         /\ FiredSoFar(FireAll(order, Cardinality(R)), order, Cardinality(R))
<1> DEFINE N == Cardinality(R)
           base == [row |-> stored, slots |-> slots, done |-> {}]
           step == [p \in FireRows \X (1 .. N) |-> FireOne(p[1], order[p[2]])]
           Is(f) == f = [k \in 0 .. N |-> IF k = 0 THEN base ELSE FireOne(f[k - 1], order[k])]
<1>1. /\ N \in Nat /\ order \in [1 .. N -> R]
      /\ \A i, j \in 1 .. N : i # j => order[i] # order[j]
      /\ \A k \in 1 .. N : order[k] \in Scheduled /\ IsDue(order[k])
  <2>1. IsFiniteSet(R)
    BY FS_Subset, RoutinesAssumption
  <2>2. /\ N \in Nat /\ order \in [1 .. N -> R]
        /\ \A i, j \in 1 .. N : i # j => order[i] # order[j]
    <3> HIDE DEF base, step, Is
    <3> QED
      BY <2>1, TurnsAreWhole
  <2> HIDE DEF N
  <2> QED
    BY <2>2
<1>2. base \in FireRows
  BY DEF FireRows, RoutinesTypeOK
<1> HIDE DEF N
<1>3. step \in [FireRows \X (1 .. N) -> FireRows]
  BY <1>1, FireOneType
<1>4. PICK g \in [0 .. N -> FireRows] : Folds(g, base, step, N)
  <2> HIDE DEF base, step
  <2> QED
    BY <1>1, <1>2, <1>3, FoldExists
<1>5. \A i \in 1 .. N : g[i] = FireOne(g[i - 1], order[i])
  <2> HIDE DEF base
  <2> TAKE i \in 1 .. N
  <2>1. g[i - 1] \in FireRows
    BY <1>1
  <2> QED
    BY <1>4, <2>1 DEF Folds
<1>6. Is(g)
  <2> HIDE DEF base, step
  <2> QED
    BY <1>1, <1>4, <1>5 DEF Folds
<1>7. PICK s : Is(s) /\ FireAll(order, N) = s[N]
  <2> DEFINE s == CHOOSE f : Is(f)
  <2>1. Is(s)
    BY <1>6
  <2>2. FireAll(order, N) = s[N]
    BY DEF FireAll
  <2> QED
    BY <2>1, <2>2
<1>8. s[0] = base /\ \A i \in 1 .. N : s[i] = FireOne(s[i - 1], order[i])
  <2> HIDE DEF base
  <2> QED
    BY <1>1, <1>7
<1>9. FiredSoFar(base, order, 0)
  <2>1. owed \ {} = owed /\ failed \ {} = failed
    OBVIOUS
  <2> QED
    BY <2>1 DEF FiredSoFar, TimesKept
<1>10. \A k \in 0 .. N : s[k] \in FireRows /\ FiredSoFar(s[k], order, k)
  <2> DEFINE D == {k \in 0 .. N : ~(s[k] \in FireRows /\ FiredSoFar(s[k], order, k))}
  <2>1. SUFFICES ASSUME D # {} PROVE FALSE
    OBVIOUS
  <2>2. PICK k \in D : \A j \in D : k <= j
    <3>1. D \in SUBSET Nat
      BY <1>1
    <3> HIDE DEF D
    <3> QED
      BY <2>1, <3>1, LeastNatural
  <2>3. k # 0
    BY <1>2, <1>8, <1>9, <2>2
  <2>4. k \in 1 .. N /\ k - 1 \in 0 .. N /\ ~(k <= k - 1)
    BY <1>1, <2>2, <2>3
  <2>5. s[k - 1] \in FireRows /\ FiredSoFar(s[k - 1], order, k - 1)
    BY <2>2, <2>4
  <2>6. order[k] \notin s[k - 1].done
    <3>1. \A i \in 1 .. (k - 1) : i \in 1 .. N /\ i # k
      BY <1>1, <2>4
    <3> QED
      BY <1>1, <2>4, <2>5, <3>1 DEF FiredSoFar
  <2>7. FireOne(s[k - 1], order[k]) \in FireRows
    BY <1>1, <2>4, <2>5, FireOneType
  <2>8. FiredSoFar(FireOne(s[k - 1], order[k]), order, k)
    BY <1>1, <2>4, <2>5, <2>6, FireOneStep
  <2> QED
    BY <1>8, <2>2, <2>4, <2>7, <2>8
<1>11. s[N] \in FireRows /\ FiredSoFar(s[N], order, N)
  BY <1>1, <1>10
<1>12. FireAll(order, N) \in FireRows /\ FiredSoFar(FireAll(order, N), order, N)
  BY <1>7, <1>11
<1> QED
  BY <1>12 DEF N

-----------------------------------------------------------------------------
(* The trigger sweep.                                                      *)

TripRows == [known : [Triggered -> SUBSET Subjects], row : [Routines -> Row],
             slots : [Inflight -> Delivery \cup {Unused}], seen : SUBSET Triggered]

TellsFresh(f) == f.kind = "trigger" /\ f.subjects = Fresh(f.r)

\* What the sweep has made of the rows after the first k of the order.
TrippedSoFar(s, order, k) ==
  /\ \A r \in s.seen : \E i \in 1 .. k : order[i] = r
  /\ \A r \in Triggered : s.known[r] = IF r \in s.seen THEN Kept(r) \cup Recorded(r) ELSE known[r]
  /\ \A r \in Scheduled : s.row[r] = stored[r]
  /\ \A i \in Inflight : \/ s.slots[i] = slots[i]
                         \/ slots[i] = Unused /\ TellsFresh(s.slots[i]) /\ s.slots[i].r \in s.seen
  /\ \A i, j \in Inflight : s.slots[i].kind = "trigger" /\ s.slots[j].kind = "trigger"
                              /\ s.slots[i].r = s.slots[j].r => i = j
  /\ \A r \in s.seen : Fires(r) /\ coord =>
       \E i \in Inflight : TellsFresh(s.slots[i]) /\ s.slots[i].r = r

LEMMA TripOneType ==
  ASSUME RoutinesTypeOK, NEW s \in TripRows, NEW r \in Triggered
  PROVE  TripOne(s, r) \in TripRows
<1> DEFINE f == [kind |-> "trigger", r |-> r, subjects |-> Fresh(r)]
<1>1. r \in Routines /\ s.row[r] \in Row /\ s.row \in [Routines -> Row] /\ Gap \in Times
  BY RoutineTimes DEF Routines, TripRows, RoutinesTypeOK
<1>2. Kept(r) \cup Recorded(r) \in SUBSET Subjects /\ Fresh(r) \in SUBSET Subjects
  BY DEF Kept, Recorded, Fresh, Matches, RoutinesTypeOK
<1>3. f \in Delivery
  BY <1>1, <1>2 DEF Delivery, Kinds
<1>4. [s.known EXCEPT ![r] = Kept(r) \cup Recorded(r)] \in [Triggered -> SUBSET Subjects]
  BY <1>2 DEF TripRows
<1>5. [s.row EXCEPT ![r].retry = Gap] \in [Routines -> Row]
  BY <1>1 DEF Row, Times
<1>6. ~Busy(s.slots) => [s.slots EXCEPT ![Free(s.slots)] = f] \in [Inflight -> Delivery \cup {Unused}]
  BY <1>3, FreeIsUnused DEF TripRows
<1> HIDE DEF f
<1>7. s.slots \in [Inflight -> Delivery \cup {Unused}] /\ s.seen \cup {r} \in SUBSET Triggered
  BY DEF TripRows
<1>8. CASE ~Resting(r) /\ Busy(s.slots)
  BY <1>8 DEF TripOne
<1>9. CASE ~(~Resting(r) /\ Busy(s.slots))
  BY <1>1, <1>4, <1>5, <1>6, <1>7, <1>9 DEF TripOne, TripRows, Fires, f
<1> QED
  BY <1>8, <1>9

LEMMA TripOneStep ==
  ASSUME RoutinesTypeOK, NEW k \in Nat, NEW order, NEW s \in TripRows, TrippedSoFar(s, order, k - 1),
         \A i \in Inflight : slots[i].kind # "trigger",
         k > 0, order[k] \in Triggered, order[k] \notin s.seen
  PROVE  TrippedSoFar(TripOne(s, order[k]), order, k)
<1> DEFINE r == order[k]
           t == TripOne(s, r)
           f == [kind |-> "trigger", r |-> r, subjects |-> Fresh(r)]
<1>1. CASE ~Resting(r) /\ Busy(s.slots)
  <2>1. t = s
    BY <1>1 DEF TripOne
  <2>2. \A q \in s.seen : \E i \in 1 .. k : order[i] = q
    BY DEF TrippedSoFar
  <2>3. TrippedSoFar(s, order, k)
    BY <2>2 DEF TrippedSoFar
  <2> QED
    BY <2>1, <2>3
<1>2. CASE ~(~Resting(r) /\ Busy(s.slots))
  <2>1. /\ t.known = [s.known EXCEPT ![r] = Kept(r) \cup Recorded(r)]
        /\ t.seen = s.seen \cup {r}
        /\ t.row = IF Fires(r) THEN [s.row EXCEPT ![r].retry = Gap] ELSE s.row
        /\ t.slots = IF Fires(r) /\ coord THEN [s.slots EXCEPT ![Free(s.slots)] = f] ELSE s.slots
    BY <1>2 DEF TripOne
  <2>2. Fires(r) => ~Busy(s.slots)
    BY <1>2 DEF Fires
  <2>3. Fires(r) => Free(s.slots) \in Inflight /\ s.slots[Free(s.slots)] = Unused
    BY <2>2, FreeIsUnused
  <2>4. /\ s.slots \in [Inflight -> Delivery \cup {Unused}] /\ s.row \in [Routines -> Row]
        /\ s.known \in [Triggered -> SUBSET Subjects] /\ r \in Triggered /\ r \notin Scheduled
    BY RoutinesAssumption DEF TripRows
  <2>5. f.kind = "trigger" /\ f.r = r /\ TellsFresh(f)
    BY DEF TellsFresh
  <2> HIDE DEF f, t
  <2>6. \A i \in Inflight : t.slots[i] = s.slots[i] \/ (Fires(r) /\ s.slots[i] = Unused /\ t.slots[i] = f /\ i = Free(s.slots))
    BY <2>1, <2>3, <2>4
  <2>7. Fires(r) /\ coord => t.slots[Free(s.slots)] = f
    BY <2>1, <2>3, <2>4
  <2>8. \A q \in Scheduled : t.row[q] = s.row[q]
    BY <2>1, <2>4
  <2>9. \A q \in Triggered : t.known[q] = IF q = r THEN Kept(r) \cup Recorded(r) ELSE s.known[q]
    BY <2>1, <2>4
  <2> HIDE DEF r
  <2>10. \A q \in t.seen : \E i \in 1 .. k : order[i] = q
    BY <2>1 DEF TrippedSoFar, r
  <2>11. \A q \in Triggered : t.known[q] = IF q \in t.seen THEN Kept(q) \cup Recorded(q) ELSE known[q]
    <3> TAKE q \in Triggered
    <3>1. s.known[q] = IF q \in s.seen THEN Kept(q) \cup Recorded(q) ELSE known[q]
      BY DEF TrippedSoFar
    <3> QED
      BY <2>1, <2>9, <3>1
  <2>12. \A q \in Scheduled : t.row[q] = stored[q]
    BY <2>8 DEF TrippedSoFar
  <2>13. \A i \in Inflight : \/ t.slots[i] = slots[i]
                             \/ slots[i] = Unused /\ TellsFresh(t.slots[i]) /\ t.slots[i].r \in t.seen
    <3> TAKE i \in Inflight
    <3>1. \/ s.slots[i] = slots[i]
          \/ slots[i] = Unused /\ TellsFresh(s.slots[i]) /\ s.slots[i].r \in s.seen
      BY DEF TrippedSoFar
    <3>2. s.slots[i] = Unused => ~TellsFresh(s.slots[i])
      BY DEF Unused, TellsFresh
    <3> QED
      BY <2>1, <2>5, <2>6, <3>1, <3>2
  <2>14. \A i \in Inflight : s.slots[i].kind = "trigger" => s.slots[i].r # r
    <3> TAKE i \in Inflight
    <3>1. \/ s.slots[i] = slots[i]
          \/ slots[i] = Unused /\ TellsFresh(s.slots[i]) /\ s.slots[i].r \in s.seen
      BY DEF TrippedSoFar
    <3> QED
      BY <3>1 DEF r
  <2>15. ASSUME NEW i \in Inflight, NEW j \in Inflight, t.slots[i].kind = "trigger",
                t.slots[j].kind = "trigger", t.slots[i].r = t.slots[j].r
         PROVE  i = j
    <3>1. s.slots[i].kind = "trigger" /\ s.slots[j].kind = "trigger" /\ s.slots[i].r = s.slots[j].r => i = j
      BY DEF TrippedSoFar
    <3> QED
      BY <2>5, <2>6, <2>14, <2>15, <3>1
  <2>16. ASSUME NEW q \in t.seen, Fires(q), coord
         PROVE  \E i \in Inflight : TellsFresh(t.slots[i]) /\ t.slots[i].r = q
    <3>1. CASE q = r
      BY <2>3, <2>5, <2>7, <2>16, <3>1
    <3>2. CASE q # r
      <4>1. PICK i \in Inflight : TellsFresh(s.slots[i]) /\ s.slots[i].r = q
        BY <2>1, <2>16, <3>2 DEF TrippedSoFar
      <4>2. s.slots[i] # Unused
        BY <4>1 DEF TellsFresh, Unused
      <4> QED
        BY <2>6, <4>1, <4>2
    <3> QED
      BY <3>1, <3>2
  <2>17. TrippedSoFar(t, order, k)
    BY <2>10, <2>11, <2>12, <2>13, <2>15, <2>16 DEF TrippedSoFar
  <2> QED
    BY <2>17 DEF r, t
<1> QED
  BY <1>1, <1>2 DEF r, t

LEMMA TripAllHolds ==
  ASSUME RoutinesTypeOK, \A i \in Inflight : slots[i].kind # "trigger",
         NEW R \in SUBSET Triggered, NEW order \in InTurn(R)
  PROVE  /\ TripAll(order, Cardinality(R)) \in TripRows
         /\ TrippedSoFar(TripAll(order, Cardinality(R)), order, Cardinality(R))
<1> DEFINE N == Cardinality(R)
           base == [known |-> known, row |-> stored, slots |-> slots, seen |-> {}]
           step == [p \in TripRows \X (1 .. N) |-> TripOne(p[1], order[p[2]])]
           Is(f) == f = [k \in 0 .. N |-> IF k = 0 THEN base ELSE TripOne(f[k - 1], order[k])]
<1>1. /\ N \in Nat /\ order \in [1 .. N -> R]
      /\ \A i, j \in 1 .. N : i # j => order[i] # order[j]
      /\ \A k \in 1 .. N : order[k] \in Triggered
  <2>1. IsFiniteSet(R)
    BY FS_Subset, RoutinesAssumption
  <2>2. /\ N \in Nat /\ order \in [1 .. N -> R]
        /\ \A i, j \in 1 .. N : i # j => order[i] # order[j]
    <3> HIDE DEF base, step, Is
    <3> QED
      BY <2>1, TurnsAreWhole
  <2> HIDE DEF N
  <2> QED
    BY <2>2
<1>2. base \in TripRows
  BY DEF TripRows, RoutinesTypeOK
<1> HIDE DEF N
<1>3. step \in [TripRows \X (1 .. N) -> TripRows]
  BY <1>1, TripOneType
<1>4. PICK g \in [0 .. N -> TripRows] : Folds(g, base, step, N)
  <2> HIDE DEF base, step
  <2> QED
    BY <1>1, <1>2, <1>3, FoldExists
<1>5. \A i \in 1 .. N : g[i] = TripOne(g[i - 1], order[i])
  <2> HIDE DEF base
  <2> TAKE i \in 1 .. N
  <2>1. g[i - 1] \in TripRows
    BY <1>1
  <2> QED
    BY <1>4, <2>1 DEF Folds
<1>6. Is(g)
  <2> HIDE DEF base, step
  <2> QED
    BY <1>1, <1>4, <1>5 DEF Folds
<1>7. PICK s : Is(s) /\ TripAll(order, N) = s[N]
  <2> DEFINE s == CHOOSE f : Is(f)
  <2>1. Is(s)
    BY <1>6
  <2>2. TripAll(order, N) = s[N]
    BY DEF TripAll
  <2> QED
    BY <2>1, <2>2
<1>8. s[0] = base /\ \A i \in 1 .. N : s[i] = TripOne(s[i - 1], order[i])
  <2> HIDE DEF base
  <2> QED
    BY <1>1, <1>7
<1>9. TrippedSoFar(base, order, 0)
  BY DEF TrippedSoFar
<1>10. \A k \in 0 .. N : s[k] \in TripRows /\ TrippedSoFar(s[k], order, k)
  <2> DEFINE D == {k \in 0 .. N : ~(s[k] \in TripRows /\ TrippedSoFar(s[k], order, k))}
  <2>1. SUFFICES ASSUME D # {} PROVE FALSE
    OBVIOUS
  <2>2. PICK k \in D : \A j \in D : k <= j
    <3>1. D \in SUBSET Nat
      BY <1>1
    <3> HIDE DEF D
    <3> QED
      BY <2>1, <3>1, LeastNatural
  <2>3. k # 0
    BY <1>2, <1>8, <1>9, <2>2
  <2>4. k \in 1 .. N /\ k - 1 \in 0 .. N /\ ~(k <= k - 1)
    BY <1>1, <2>2, <2>3
  <2>5. s[k - 1] \in TripRows /\ TrippedSoFar(s[k - 1], order, k - 1)
    BY <2>2, <2>4
  <2>6. order[k] \notin s[k - 1].seen
    <3>1. \A i \in 1 .. (k - 1) : i \in 1 .. N /\ i # k
      BY <1>1, <2>4
    <3> QED
      BY <1>1, <2>4, <2>5, <3>1 DEF TrippedSoFar
  <2>7. TripOne(s[k - 1], order[k]) \in TripRows
    BY <1>1, <2>4, <2>5, TripOneType
  <2>8. TrippedSoFar(TripOne(s[k - 1], order[k]), order, k)
    BY <1>1, <2>4, <2>5, <2>6, TripOneStep
  <2> QED
    BY <1>8, <2>2, <2>4, <2>7, <2>8
<1>11. s[N] \in TripRows /\ TrippedSoFar(s[N], order, N)
  BY <1>1, <1>10
<1>12. TripAll(order, N) \in TripRows /\ TrippedSoFar(TripAll(order, N), order, N)
  BY <1>7, <1>11
<1> QED
  BY <1>12 DEF N

-----------------------------------------------------------------------------
(* Every step keeps what the rows and the fires on their way say.          *)

LEMMA RoutinesStart == RoutinesInit => RoutinesInv
<1> SUFFICES ASSUME RoutinesInit PROVE RoutinesInv
  OBVIOUS
<1>1. /\ \A r \in Routines : stored[r] = [state |-> "none", next |-> Never, retry |-> Never]
      /\ known = [r \in Triggered |-> {}] /\ phase = 0 /\ owed = {} /\ failed = {} /\ answered = {}
      /\ slots = [i \in Inflight |-> Unused]
  BY DEF RoutinesInit
<1>2. RoutinesTypeOK
  BY <1>1, RoutinesAssumption DEF RoutinesInit, RoutinesTypeOK, Row
<1>3. RowsAgree(stored, owed, failed, NextRun)
  BY <1>1 DEF RowsAgree, Routines
<1>4. SlotsAgree(stored, slots, failed)
  BY <1>1 DEF SlotsAgree, SentAfterAdvance, Timed, Unused
<1>5. \A i \in Inflight : TellsNews(slots, answered, i)
  BY <1>1 DEF TellsNews, Unused
<1> QED
  BY <1>1, <1>2, <1>3, <1>4, <1>5 DEF RoutinesInv, TimesKept, SubjectsKept

\* A scheduled fire on its way carries no subject, a run neither.
LEMMA OnlyTriggersTell ==
  ASSUME RoutinesInv, NEW i \in Inflight, slots[i] # Unused, slots[i].subjects # {}
  PROVE  slots[i].kind = "trigger"
<1>1. slots[i].kind \in Kinds
  BY SlotKinds DEF RoutinesInv, RoutinesTypeOK
<1>2. SentAfterAdvance(stored, slots, failed, i) /\ TellsNews(slots, answered, i)
  BY DEF RoutinesInv, TimesKept, SlotsAgree, SubjectsKept
<1> QED
  BY <1>1, <1>2 DEF SentAfterAdvance, TellsNews, Timed, Kinds

LEMMA ScheduleSweepKeeps ==
  ASSUME RoutinesInv, ScheduleSweep
  PROVE  /\ RoutinesInv'
         /\ \A i \in Inflight : slots'[i] \notin {Unused, slots[i]} =>
              Timed(slots'[i]) /\ CausedByTime(slots'[i])
<1> DEFINE R == {r \in Scheduled : IsDue(r)}
<1>1. RoutinesTypeOK /\ TimesKept /\ SubjectsKept
  BY DEF RoutinesInv
<1>2. PICK order \in InTurn(R) :
        /\ stored' = FireAll(order, Cardinality(R)).row
        /\ slots' = FireAll(order, Cardinality(R)).slots
        /\ owed' = owed \ FireAll(order, Cardinality(R)).done
        /\ failed' = failed \ FireAll(order, Cardinality(R)).done
        /\ UNCHANGED <<known, matching, windows, backlog, coord, phase, answered>>
  BY DEF ScheduleSweep
<1>3. R \in SUBSET Scheduled /\ \A r \in R : IsDue(r)
  OBVIOUS
<1> HIDE DEF R
<1>4. PICK s : s = FireAll(order, Cardinality(R))
  OBVIOUS
<1>5. s \in FireRows /\ FiredSoFar(s, order, Cardinality(R))
  BY <1>1, <1>2, <1>3, <1>4, FireAllHolds
<1>6. /\ stored' = s.row /\ slots' = s.slots /\ owed' = owed \ s.done /\ failed' = failed \ s.done
      /\ UNCHANGED <<known, matching, windows, backlog, coord, phase, answered>>
  BY <1>2, <1>4
<1>7. RoutinesTypeOK'
  BY <1>1, <1>5, <1>6 DEF RoutinesTypeOK, FireRows
<1>8. TimesKept'
  BY <1>5, <1>6 DEF FiredSoFar, TimesKept, NextRun
<1>9. \A i \in Inflight : \/ slots'[i] = slots[i]
                          \/ slots[i] = Unused /\ Timed(slots'[i]) /\ CausedByTime(slots'[i])
  BY <1>5, <1>6 DEF FiredSoFar
<1>10. \A i \in Inflight : TellsNews(slots', answered', i)
  <2> TAKE i \in Inflight
  <2>1. \A j \in Inflight : slots'[j].kind = "trigger" => slots'[j] = slots[j]
    BY <1>9 DEF Timed
  <2>2. slots'[i].kind = "run" => slots'[i] = slots[i]
    BY <1>9 DEF Timed
  <2>3. TellsNews(slots, answered, i)
    BY <1>1 DEF SubjectsKept
  <2> QED
    BY <1>6, <2>1, <2>2, <2>3 DEF TellsNews
<1>11. \A r, s2 : IsTold(slots, r, s2) => IsTold(slots', r, s2)
  BY <1>9 DEF IsTold
<1>12. SubjectsKept'
  BY <1>1, <1>6, <1>10, <1>11 DEF SubjectsKept
<1> QED
  BY <1>7, <1>8, <1>9, <1>12 DEF RoutinesInv

LEMMA TriggerSweepKeeps ==
  ASSUME RoutinesInv, TriggerSweep
  PROVE  /\ RoutinesInv'
         /\ \A i \in Inflight : slots'[i] \notin {Unused, slots[i]} =>
              /\ slots'[i].kind = "trigger"
              /\ \A s \in slots'[i].subjects : <<slots'[i].r, s>> \notin answered
<1> DEFINE R == {r \in Triggered : On(r)}
           Lost(s) == {r \in s.seen : Fires(r) /\ ~coord}
<1>1. RoutinesTypeOK /\ TimesKept /\ SubjectsKept
  BY DEF RoutinesInv
<1>2. PICK order \in InTurn(R) :
        LET s == TripAll(order, Cardinality(R)) IN
        /\ \A i \in Inflight : slots[i] # Unused => slots[i].kind # "trigger"
        /\ known' = [r \in Triggered |-> IF r \in Lost(s)
                       THEN Forgotten(s.known[r], Fresh(r)) ELSE s.known[r]]
        /\ stored' = [r \in Routines |-> IF r \in Lost(s)
                        THEN [s.row[r] EXCEPT !.retry = RetryAfter] ELSE s.row[r]]
        /\ slots' = s.slots
        /\ answered' = {t \in answered : t[1] \in s.seen =>
                       t[2] \in matching \/ (t[2] \in Allowances /\ t[2] \in windows)}
        /\ UNCHANGED <<matching, windows, backlog, coord, phase, owed, failed>>
  BY DEF TriggerSweep
<1>3. R \in SUBSET Triggered
  OBVIOUS
<1> HIDE DEF R
<1>4. PICK s : s = TripAll(order, Cardinality(R))
  OBVIOUS
<1>5. \A i \in Inflight : slots[i].kind # "trigger"
  BY <1>2 DEF Unused
<1>6. s \in TripRows /\ TrippedSoFar(s, order, Cardinality(R))
  BY <1>1, <1>3, <1>4, <1>5, TripAllHolds
<1>7. PICK lost : lost = Lost(s)
  OBVIOUS
<1>8. /\ known' = [r \in Triggered |-> IF r \in lost
                     THEN Forgotten(s.known[r], Fresh(r)) ELSE s.known[r]]
      /\ stored' = [r \in Routines |-> IF r \in lost
                      THEN [s.row[r] EXCEPT !.retry = RetryAfter] ELSE s.row[r]]
      /\ slots' = s.slots
      /\ answered' = {t \in answered : t[1] \in s.seen =>
                     t[2] \in matching \/ (t[2] \in Allowances /\ t[2] \in windows)}
      /\ UNCHANGED <<matching, windows, backlog, coord, phase, owed, failed>>
  BY <1>2, <1>4, <1>7
<1>9. /\ lost \subseteq s.seen /\ s.seen \subseteq Triggered
      /\ \A r \in s.seen : r \in lost <=> Fires(r) /\ ~coord
  BY <1>6, <1>7 DEF TripRows
<1> HIDE DEF Lost
<1>10. RoutinesTypeOK'
  <2>1. RetryAfter \in Times
    BY <1>1, RoutineTimes DEF RoutinesTypeOK
  <2>2. known' \in [Triggered -> SUBSET Subjects]
    BY <1>6, <1>8 DEF TripRows, Forgotten
  <2>3. stored' \in [Routines -> Row]
    <3> SUFFICES ASSUME NEW r \in Routines
                 PROVE  s.row[r] \in Row /\ [s.row[r] EXCEPT !.retry = RetryAfter] \in Row
      BY <1>8
    <3>1. s.row[r] \in Row
      BY <1>6 DEF TripRows
    <3> QED
      BY <2>1, <3>1 DEF Row, Times
  <2>4. answered' \subseteq Triggered \X Subjects
    BY <1>1, <1>8 DEF RoutinesTypeOK
  <2> QED
    BY <1>1, <1>6, <1>8, <2>2, <2>3, <2>4 DEF RoutinesTypeOK, TripRows
<1>11. \A i \in Inflight : \/ slots'[i] = slots[i]
                           \/ slots[i] = Unused /\ TellsFresh(slots'[i]) /\ slots'[i].r \in s.seen
  BY <1>6, <1>8 DEF TrippedSoFar
<1>12. TimesKept'
  <2>1. \A r \in Scheduled : r \in Routines /\ r \notin lost /\ s.row[r] = stored[r]
    BY <1>6, <1>9, RoutinesAssumption DEF TrippedSoFar, Routines
  <2>2. \A r \in Scheduled : stored'[r] = stored[r]
    BY <1>8, <2>1
  <2>3. RowsAgree(stored', owed', failed', NextRun)
    BY <1>1, <1>8, <2>2 DEF TimesKept, RowsAgree
  <2>4. \A i \in Inflight : Timed(slots'[i]) => slots'[i] = slots[i]
    BY <1>11 DEF Timed, TellsFresh
  <2>5. \A i \in Inflight : SentAfterAdvance(stored, slots, failed, i)
    BY <1>1 DEF TimesKept, SlotsAgree
  <2>6. \A i \in Inflight : SentAfterAdvance(stored', slots', failed', i)
    <3> SUFFICES ASSUME NEW i \in Inflight, Timed(slots'[i])
                 PROVE  SentAfterAdvance(stored', slots', failed', i)
      BY DEF SentAfterAdvance
    <3>1. slots'[i] = slots[i] /\ failed' = failed
      BY <1>8, <2>4
    <3>2. /\ slots[i].r \in Scheduled /\ slots[i].r \notin failed /\ slots[i].subjects = {}
          /\ stored[slots[i].r].state = "on" => ~Reached(stored[slots[i].r].next)
          /\ \A j \in Inflight : Timed(slots[j]) /\ slots[j].r = slots[i].r => i = j
      BY <2>5, <3>1 DEF SentAfterAdvance
    <3>3. stored'[slots[i].r] = stored[slots[i].r]
      BY <2>2, <3>2
    <3>4. \A j \in Inflight : Timed(slots'[j]) /\ slots'[j].r = slots'[i].r => i = j
      BY <2>4, <3>1, <3>2
    <3> QED
      BY <3>1, <3>2, <3>3, <3>4 DEF SentAfterAdvance
  <2> QED
    BY <1>8, <2>3, <2>6 DEF TimesKept, SlotsAgree, NextRun
<1>13. \A r \in Triggered, x \in Subjects : x \in known[r] => <<r, x>> \in answered
  <2> TAKE r \in Triggered, x \in Subjects
  <2>1. ~IsTold(slots, r, x)
    BY <1>5, OnlyTriggersTell DEF IsTold
  <2> QED
    BY <1>1, <2>1 DEF SubjectsKept
<1>14. \A r \in Triggered, x \in Subjects : <<r, x>> \in answered => x \in known[r]
  BY <1>1 DEF SubjectsKept
<1>15. \A r \in Triggered : \A x \in Fresh(r) : x \in Subjects /\ <<r, x>> \notin answered
  BY <1>14 DEF Fresh, Matches
<1>16. \A i \in Inflight : slots'[i] # slots[i] =>
         /\ slots'[i].kind = "trigger" /\ slots'[i].r \in Triggered
         /\ \A x \in slots'[i].subjects : <<slots'[i].r, x>> \notin answered
  BY <1>9, <1>11, <1>15 DEF TellsFresh
<1>17. \A i \in Inflight : TellsNews(slots', answered', i)
  <2> TAKE i \in Inflight
  <2>1. answered' \subseteq answered
    BY <1>8
  <2>2. \A j \in Inflight : slots'[i].kind = "trigger" /\ slots'[j].kind = "trigger" /\ slots'[j].r = slots'[i].r => i = j
    BY <1>6, <1>8 DEF TrippedSoFar
  <2>3. CASE slots'[i] = slots[i]
    BY <1>1, <1>5, <2>3 DEF SubjectsKept, TellsNews
  <2>4. CASE slots'[i] # slots[i]
    BY <1>16, <2>1, <2>2, <2>4 DEF TellsNews
  <2> QED
    BY <2>3, <2>4
<1>18. \A r \in Triggered : known'[r] =
         IF r \notin s.seen THEN known[r]
         ELSE IF r \in lost THEN (Kept(r) \cup Recorded(r)) \ Fresh(r) ELSE Kept(r) \cup Recorded(r)
  <2> TAKE r \in Triggered
  <2>1. s.known[r] = IF r \in s.seen THEN Kept(r) \cup Recorded(r) ELSE known[r]
    BY <1>6 DEF TrippedSoFar
  <2> QED
    BY <1>8, <1>9, <2>1 DEF Forgotten
<1>19. \A r \in Triggered, x \in Subjects : <<r, x>> \in answered' => x \in known'[r]
  <2> TAKE r \in Triggered, x \in Subjects
  <2>1. SUFFICES ASSUME <<r, x>> \in answered' PROVE x \in known'[r]
    OBVIOUS
  <2>2. /\ <<r, x>> \in answered
        /\ r \in s.seen => x \in matching \/ (x \in Allowances /\ x \in windows)
    BY <1>8, <2>1
  <2>3. x \in known[r] /\ x \notin Fresh(r)
    BY <1>14, <1>15, <2>2
  <2>4. r \in s.seen => x \in Kept(r)
    BY <2>2, <2>3 DEF Kept, Matches, WindowOpen
  <2> QED
    BY <1>18, <2>3, <2>4
<1>20. \A r \in Triggered, x \in Subjects : x \in known'[r] => IsTold(slots', r, x) \/ <<r, x>> \in answered'
  <2> TAKE r \in Triggered, x \in Subjects
  <2>1. SUFFICES ASSUME x \in known'[r] PROVE IsTold(slots', r, x) \/ <<r, x>> \in answered'
    OBVIOUS
  <2>2. CASE r \notin s.seen
    <3>1. <<r, x>> \in answered
      BY <1>13, <1>18, <2>1, <2>2
    <3> QED
      BY <1>8, <2>2, <3>1
  <2>3. CASE r \in s.seen /\ x \in Kept(r)
    <3>1. x \in known[r] /\ (x \in matching \/ (x \in Allowances /\ x \in windows))
      BY <2>3 DEF Kept, Matches, WindowOpen
    <3>2. <<r, x>> \in answered
      BY <1>13, <3>1
    <3> QED
      BY <1>8, <3>1, <3>2
  <2>4. CASE r \in s.seen /\ x \notin Kept(r)
    <3>1. x \in Recorded(r) /\ (r \in lost => x \notin Fresh(r))
      BY <1>18, <2>1, <2>4
    <3>2. x \in Fresh(r) /\ ~Resting(r)
      BY <3>1 DEF Recorded
    <3>3. Fires(r) /\ coord
      BY <1>9, <2>4, <3>1, <3>2 DEF Fires
    <3>4. PICK i \in Inflight : TellsFresh(s.slots[i]) /\ s.slots[i].r = r
      BY <1>6, <2>4, <3>3 DEF TrippedSoFar
    <3>5. s.slots[i] # Unused
      BY <3>4 DEF TellsFresh, Unused
    <3> QED
      BY <1>8, <3>2, <3>4, <3>5 DEF IsTold, TellsFresh
  <2> QED
    BY <2>2, <2>3, <2>4
<1> QED
  BY <1>10, <1>12, <1>16, <1>17, <1>19, <1>20 DEF RoutinesInv, SubjectsKept

\* A change of one routine's row by hand, its history starting afresh.
RowChanges(r, st, ow, fl) ==
  /\ \A q \in Scheduled : q # r => st[q] = stored[q] /\ (q \in ow <=> q \in owed) /\ (q \in fl <=> q \in failed)
  /\ r \in Scheduled =>
       /\ st[r].state = "on" => st[r].next = NextRun
       /\ r \in fl <=> st[r].state = "on" /\ st[r].retry # Never
       /\ r \in fl => r \in failed

LEMMA RowChangesKeep ==
  ASSUME RoutinesTypeOK, TimesKept, NEW r, NEW st, NEW ow, NEW fl, RowChanges(r, st, ow, fl)
  PROVE  RowsAgree(st, ow, fl, NextRun) /\ SlotsAgree(st, slots, fl)
<1>1. RowsAgree(st, ow, fl, NextRun)
  BY DEF TimesKept, RowsAgree, RowChanges
<1>2. ASSUME NEW i \in Inflight, Timed(slots[i])
      PROVE  /\ slots[i].r \in Scheduled /\ slots[i].r \notin fl /\ slots[i].subjects = {}
             /\ st[slots[i].r].state = "on" => ~Reached(st[slots[i].r].next)
             /\ \A j \in Inflight : Timed(slots[j]) /\ slots[j].r = slots[i].r => i = j
  <2>1. /\ slots[i].r \in Scheduled /\ slots[i].r \notin failed /\ slots[i].subjects = {}
        /\ stored[slots[i].r].state = "on" => ~Reached(stored[slots[i].r].next)
        /\ \A j \in Inflight : Timed(slots[j]) /\ slots[j].r = slots[i].r => i = j
    BY <1>2 DEF TimesKept, SlotsAgree, SentAfterAdvance
  <2>2. CASE slots[i].r = r
    <3>1. ~Reached(NextRun)
      BY RoutineTimes DEF RoutinesTypeOK
    <3> QED
      BY <2>1, <2>2, <3>1 DEF RowChanges
  <2>3. CASE slots[i].r # r
    BY <2>1, <2>3 DEF RowChanges
  <2> QED
    BY <2>2, <2>3
<1> QED
  BY <1>1, <1>2 DEF SlotsAgree, SentAfterAdvance

\* Forgetting a trigger's subjects together with their answers.
LEMMA AfreshKeeps ==
  ASSUME RoutinesInv, NEW r \in Routines, slots' = slots,
         known' = IF r \in Triggered THEN [known EXCEPT ![r] = {}] ELSE known,
         answered' = {t \in answered : t[1] # r}
  PROVE  /\ SubjectsKept'
         /\ known' \in [Triggered -> SUBSET Subjects] /\ answered' \subseteq Triggered \X Subjects
<1>1. RoutinesTypeOK /\ SubjectsKept
  BY DEF RoutinesInv
<1>2. \A i \in Inflight : TellsNews(slots', answered', i)
  BY <1>1 DEF SubjectsKept, TellsNews
<1>3. \A q \in Triggered : known'[q] = IF q = r THEN {} ELSE known[q]
  BY <1>1 DEF RoutinesTypeOK
<1>4. \A q, x : <<q, x>> \in answered' <=> <<q, x>> \in answered /\ q # r
  OBVIOUS
<1>5. \A q \in Triggered, x \in Subjects : <<q, x>> \in answered' => x \in known'[q]
  BY <1>1, <1>3, <1>4 DEF SubjectsKept
<1>6. \A q \in Triggered, x \in Subjects : x \in known'[q] => IsTold(slots', q, x) \/ <<q, x>> \in answered'
  BY <1>1, <1>3, <1>4 DEF SubjectsKept
<1>7. known' \in [Triggered -> SUBSET Subjects] /\ answered' \subseteq Triggered \X Subjects
  BY <1>1 DEF RoutinesTypeOK
<1> QED
  BY <1>2, <1>5, <1>6, <1>7 DEF SubjectsKept

LEMMA HandKeeps ==
  ASSUME RoutinesInv,
         \/ SeedRoutines
         \/ \E r \in Routines : CreateRoutines({r}) \/ Pause(r) \/ Resume(r) \/ Edit(r) \/ Delete(r)
  PROVE  RoutinesInv' /\ slots' = slots
<1>1. RoutinesTypeOK /\ TimesKept /\ SubjectsKept /\ phase \in 0 .. Period - 1
  BY DEF RoutinesInv, RoutinesTypeOK
<1>2. NextRun \in Times /\ Never \in Times /\ ~Reached(NextRun) /\ NextRun # Never
  BY <1>1, RoutineTimes
<1>3. Scheduled \subseteq Routines /\ \A r \in Routines : stored[r] \in Row
  BY <1>1 DEF RoutinesTypeOK, Routines
<1>4. ASSUME NEW R \in SUBSET Routines, CreateRoutines(R) PROVE RoutinesInv' /\ slots' = slots
  <2>1. /\ \A r \in R : stored[r].state = "none"
        /\ stored' = [r \in Routines |-> IF r \in R
             THEN [state |-> "on", next |-> IF r \in Scheduled THEN NextRun ELSE Never, retry |-> Never]
             ELSE stored[r]]
        /\ UNCHANGED <<known, matching, windows, backlog, coord, slots, phase, owed, failed, answered>>
    BY <1>4 DEF CreateRoutines
  <2>2. stored' \in [Routines -> Row]
    BY <1>2, <1>3, <2>1 DEF Row, Times
  <2>3. \A r \in Scheduled : stored'[r] = IF r \in R
             THEN [state |-> "on", next |-> NextRun, retry |-> Never] ELSE stored[r]
    BY <1>3, <2>1
  <2>4. RowsAgree(stored', owed', failed', NextRun)
    BY <1>1, <2>1, <2>3 DEF TimesKept, RowsAgree
  <2>5. ASSUME NEW i \in Inflight, Timed(slots[i])
        PROVE  /\ slots[i].r \in Scheduled /\ slots[i].r \notin failed /\ slots[i].subjects = {}
               /\ stored'[slots[i].r].state = "on" => ~Reached(stored'[slots[i].r].next)
               /\ \A j \in Inflight : Timed(slots[j]) /\ slots[j].r = slots[i].r => i = j
    <3>1. /\ slots[i].r \in Scheduled /\ slots[i].r \notin failed /\ slots[i].subjects = {}
          /\ stored[slots[i].r].state = "on" => ~Reached(stored[slots[i].r].next)
          /\ \A j \in Inflight : Timed(slots[j]) /\ slots[j].r = slots[i].r => i = j
      BY <1>1, <2>5 DEF TimesKept, SlotsAgree, SentAfterAdvance
    <3> QED
      BY <1>2, <2>3, <3>1
  <2>6. SlotsAgree(stored', slots', failed')
    BY <2>1, <2>5 DEF SlotsAgree, SentAfterAdvance
  <2>7. RoutinesTypeOK'
    BY <1>1, <2>1, <2>2 DEF RoutinesTypeOK
  <2>8. SubjectsKept'
    BY <1>1, <2>1 DEF SubjectsKept, TellsNews
  <2> QED
    BY <2>1, <2>4, <2>6, <2>7, <2>8 DEF RoutinesInv, TimesKept, NextRun
<1>5. ASSUME NEW r \in Routines, Afresh(r), slots' = slots, phase' = phase,
             UNCHANGED <<matching, windows, backlog, coord>>,
             known' = (IF r \in Triggered THEN [known EXCEPT ![r] = {}] ELSE known),
             stored' \in [Routines -> Row], \A q \in Routines : q # r => stored'[q] = stored[q],
             r \in Scheduled => (stored'[r].state = "on" => stored'[r].next = NextRun) /\ stored'[r].retry = Never
      PROVE  RoutinesInv' /\ slots' = slots
  <2>1. owed' = owed \ {r} /\ failed' = failed \ {r} /\ answered' = {t \in answered : t[1] # r}
    BY <1>5 DEF Afresh
  <2>2. RowChanges(r, stored', owed', failed')
    BY <1>3, <1>5, <2>1 DEF RowChanges
  <2>3. RowsAgree(stored', owed', failed', NextRun) /\ SlotsAgree(stored', slots, failed')
    BY <1>1, <2>2, RowChangesKeep
  <2>4. /\ SubjectsKept'
        /\ known' \in [Triggered -> SUBSET Subjects] /\ answered' \subseteq Triggered \X Subjects
    BY <1>5, <2>1, AfreshKeeps
  <2>5. RoutinesTypeOK'
    BY <1>1, <1>5, <2>1, <2>4 DEF RoutinesTypeOK
  <2> QED
    BY <1>5, <2>3, <2>4, <2>5 DEF RoutinesInv, TimesKept, NextRun
<1>6. ASSUME NEW r \in Routines, Pause(r) \/ Delete(r) PROVE RoutinesInv' /\ slots' = slots
  <2>1. PICK x \in {"off", "gone"} : stored' = [stored EXCEPT ![r] = [state |-> x, next |-> Never, retry |-> Never]]
    BY <1>6 DEF Pause, Delete
  <2>2. [state |-> x, next |-> Never, retry |-> Never] \in Row
    BY <1>2 DEF Row, Times
  <2>3. stored' \in [Routines -> Row] /\ \A q \in Routines : q # r => stored'[q] = stored[q]
    BY <1>1, <2>1, <2>2 DEF RoutinesTypeOK
  <2>4. stored'[r] = [state |-> x, next |-> Never, retry |-> Never]
    BY <1>1, <2>1 DEF RoutinesTypeOK
  <2>5. /\ Afresh(r) /\ slots' = slots /\ phase' = phase
        /\ UNCHANGED <<matching, windows, backlog, coord>>
        /\ known' = (IF r \in Triggered THEN [known EXCEPT ![r] = {}] ELSE known)
    BY <1>6 DEF Pause, Delete
  <2>6. stored'[r].state # "on" /\ stored'[r].retry = Never
    BY <2>4
  <2> QED
    BY <1>5, <2>3, <2>5, <2>6
<1>7. ASSUME NEW r \in Routines, Edit(r) PROVE RoutinesInv' /\ slots' = slots
  <2>1. /\ Afresh(r) /\ slots' = slots /\ phase' = phase
        /\ UNCHANGED <<matching, windows, backlog, coord>>
    BY <1>7 DEF Edit
  <2>2. CASE r \in Scheduled
    <3>1. stored' = [stored EXCEPT ![r].next = NextRun, ![r].retry = Never] /\ known' = known /\ r \notin Triggered
      BY <1>7, <2>2, RoutinesAssumption DEF Edit
    <3>2. [stored[r] EXCEPT !.next = NextRun, !.retry = Never] \in Row
      BY <1>2, <1>3 DEF Row, Times
    <3>3. /\ stored' \in [Routines -> Row] /\ \A q \in Routines : q # r => stored'[q] = stored[q]
          /\ stored'[r] = [stored[r] EXCEPT !.next = NextRun, !.retry = Never]
      BY <1>1, <3>1, <3>2 DEF RoutinesTypeOK
    <3>4. stored'[r].next = NextRun /\ stored'[r].retry = Never
      BY <1>3, <3>3 DEF Row
    <3> QED
      BY <1>5, <2>1, <3>1, <3>3, <3>4
  <2>3. CASE r \notin Scheduled
    <3>1. known' = [known EXCEPT ![r] = {}] /\ stored' = stored /\ r \in Triggered
      BY <1>7, <2>3 DEF Edit, Routines
    <3> QED
      BY <1>1, <1>5, <2>1, <2>3, <3>1 DEF RoutinesTypeOK
  <2> QED
    BY <2>2, <2>3
<1>8. ASSUME NEW r \in Routines, Resume(r) PROVE RoutinesInv' /\ slots' = slots
  <2>1. /\ stored[r].state = "off"
        /\ stored' = [stored EXCEPT ![r].state = "on",
             ![r].next = IF r \in Scheduled THEN NextRun ELSE @,
             ![r].retry = IF r \in Scheduled THEN Never ELSE @]
        /\ UNCHANGED <<known, matching, windows, backlog, coord, slots, phase, owed, failed, answered>>
    BY <1>8 DEF Resume
  <2>2. [stored[r] EXCEPT !.state = "on", !.next = IF r \in Scheduled THEN NextRun ELSE @,
           !.retry = IF r \in Scheduled THEN Never ELSE @] \in Row
    BY <1>2, <1>3 DEF Row, Times
  <2>3. /\ stored' \in [Routines -> Row] /\ \A q \in Routines : q # r => stored'[q] = stored[q]
        /\ stored'[r] = [stored[r] EXCEPT !.state = "on", !.next = IF r \in Scheduled THEN NextRun ELSE @,
                           !.retry = IF r \in Scheduled THEN Never ELSE @]
    BY <1>1, <2>1, <2>2 DEF RoutinesTypeOK
  <2>4. r \in Scheduled => stored'[r].next = NextRun /\ stored'[r].retry = Never
    BY <1>3, <2>3 DEF Row
  <2>5. r \in Scheduled => r \notin failed
    BY <1>1, <2>1 DEF TimesKept, RowsAgree
  <2>6. RowChanges(r, stored', owed', failed')
    BY <1>3, <2>1, <2>3, <2>4, <2>5 DEF RowChanges
  <2>7. RowsAgree(stored', owed', failed', NextRun) /\ SlotsAgree(stored', slots, failed')
    BY <1>1, <2>6, RowChangesKeep
  <2>8. RoutinesTypeOK'
    BY <1>1, <2>1, <2>3 DEF RoutinesTypeOK
  <2>9. SubjectsKept'
    BY <1>1, <2>1 DEF SubjectsKept, TellsNews
  <2> QED
    BY <2>1, <2>7, <2>8, <2>9 DEF RoutinesInv, TimesKept, NextRun
<1> QED
  BY <1>4, <1>6, <1>7, <1>8 DEF SeedRoutines

LEMMA RunKeeps ==
  ASSUME RoutinesInv, NEW r \in Routines, RunNow(r)
  PROVE  /\ RoutinesInv'
         /\ \A i \in Inflight : slots'[i] # slots[i] => slots'[i].kind = "run"
<1> DEFINE f == [kind |-> "run", r |-> r, subjects |-> {}]
<1>1. RoutinesTypeOK /\ TimesKept /\ SubjectsKept
  BY DEF RoutinesInv
<1>2. UNCHANGED <<known, matching, windows, backlog, coord, phase, owed, answered>>
  BY DEF RunNow
<1>3. CASE coord
  <2>1. slots' = [slots EXCEPT ![Free(slots)] = f] /\ stored' = stored /\ failed' = failed
    BY <1>3 DEF RunNow
  <2>2. Free(slots) \in Inflight /\ slots[Free(slots)] = Unused
    BY FreeIsUnused DEF RunNow
  <2>3. f \in Delivery
    BY DEF Delivery, Kinds
  <2>4. f.kind = "run" /\ f.subjects = {}
    OBVIOUS
  <2> HIDE DEF f
  <2>5. slots' \in [Inflight -> Delivery \cup {Unused}]
    BY <1>1, <2>1, <2>3 DEF RoutinesTypeOK
  <2>6. \A i \in Inflight : slots'[i] = slots[i] \/ (slots[i] = Unused /\ slots'[i] = f)
    BY <1>1, <2>1, <2>2 DEF RoutinesTypeOK
  <2>7. RoutinesTypeOK'
    BY <1>1, <1>2, <2>1, <2>5 DEF RoutinesTypeOK
  <2>8. \A i \in Inflight : Timed(slots'[i]) => slots'[i] = slots[i]
    BY <2>4, <2>6 DEF Timed
  <2>9. SlotsAgree(stored', slots', failed')
    <3> SUFFICES ASSUME NEW i \in Inflight, Timed(slots'[i])
                 PROVE  SentAfterAdvance(stored', slots', failed', i)
      BY DEF SlotsAgree, SentAfterAdvance
    <3>1. SentAfterAdvance(stored, slots, failed, i)
      BY <1>1 DEF TimesKept, SlotsAgree
    <3> QED
      BY <2>1, <2>8, <3>1 DEF SentAfterAdvance
  <2>10. TimesKept'
    BY <1>1, <1>2, <2>1, <2>9 DEF TimesKept, NextRun
  <2>11. \A i \in Inflight : slots'[i].kind = "trigger" => slots'[i] = slots[i]
    BY <2>4, <2>6
  <2>12. \A i \in Inflight : TellsNews(slots', answered', i)
    <3> TAKE i \in Inflight
    <3>1. TellsNews(slots, answered, i)
      BY <1>1 DEF SubjectsKept
    <3> QED
      BY <1>2, <2>4, <2>6, <2>11, <3>1 DEF TellsNews
  <2>13. \A q, x : IsTold(slots, q, x) => IsTold(slots', q, x)
    BY <2>6 DEF IsTold
  <2>14. SubjectsKept'
    BY <1>1, <1>2, <2>12, <2>13 DEF SubjectsKept
  <2> QED
    BY <2>4, <2>6, <2>7, <2>10, <2>14 DEF RoutinesInv
<1>4. CASE ~coord
  <2>1. /\ stored' = [stored EXCEPT ![r].retry = IF On(r) THEN Never ELSE @]
        /\ failed' = failed \ {r} /\ slots' = slots
    BY <1>4 DEF RunNow
  <2>2. Never \in Times /\ stored[r] \in Row
    BY <1>1, RoutineTimes DEF RoutinesTypeOK
  <2>3. [stored[r] EXCEPT !.retry = IF On(r) THEN Never ELSE @] \in Row
    BY <2>2 DEF Row, Times
  <2>4. /\ stored' \in [Routines -> Row] /\ \A q \in Routines : q # r => stored'[q] = stored[q]
        /\ stored'[r] = [stored[r] EXCEPT !.retry = IF On(r) THEN Never ELSE @]
    BY <1>1, <2>1, <2>3 DEF RoutinesTypeOK
  <2>5. /\ stored'[r].state = stored[r].state /\ stored'[r].next = stored[r].next
        /\ stored'[r].state = "on" => stored'[r].retry = Never
    BY <2>2, <2>4 DEF Row, On
  <2>6. Scheduled \subseteq Routines
    BY DEF Routines
  <2>7. RowsAgree(stored', owed', failed', NextRun)
    <3> SUFFICES ASSUME NEW q \in Scheduled
                 PROVE  /\ stored'[q].state = "on" => stored'[q].next = NextRun \/ (Reached(stored'[q].next) /\ q \in owed')
                        /\ q \in failed' <=> stored'[q].state = "on" /\ stored'[q].retry # Never
      BY DEF RowsAgree
    <3>1. /\ stored[q].state = "on" => stored[q].next = NextRun \/ (Reached(stored[q].next) /\ q \in owed)
          /\ q \in failed <=> stored[q].state = "on" /\ stored[q].retry # Never
      BY <1>1 DEF TimesKept, RowsAgree
    <3> QED
      BY <1>2, <2>1, <2>4, <2>5, <2>6, <3>1
  <2>8. SlotsAgree(stored', slots', failed')
    <3> SUFFICES ASSUME NEW i \in Inflight, Timed(slots[i])
                 PROVE  SentAfterAdvance(stored', slots, failed', i)
      BY <2>1 DEF SlotsAgree, SentAfterAdvance
    <3>1. SentAfterAdvance(stored, slots, failed, i)
      BY <1>1 DEF TimesKept, SlotsAgree
    <3> QED
      BY <2>1, <2>4, <2>5, <2>6, <3>1 DEF SentAfterAdvance
  <2>9. RoutinesTypeOK'
    BY <1>1, <1>2, <2>1, <2>4 DEF RoutinesTypeOK
  <2>10. SubjectsKept'
    BY <1>1, <1>2, <2>1 DEF SubjectsKept, TellsNews
  <2> QED
    BY <1>2, <2>1, <2>7, <2>8, <2>9, <2>10 DEF RoutinesInv, TimesKept, NextRun
<1> QED
  BY <1>3, <1>4

LEMMA CrashKeeps ==
  ASSUME RoutinesInv, Crash
  PROVE  RoutinesInv' /\ \A i \in Inflight : slots'[i] = Unused
<1>1. RoutinesTypeOK /\ TimesKept /\ SubjectsKept
  BY DEF RoutinesInv
<1>2. /\ slots' = [i \in Inflight |-> Unused]
      /\ answered' = answered \cup {t \in Triggered \X Subjects : t[2] \in known[t[1]] \cap Telling(t[1])}
      /\ UNCHANGED <<stored, known, matching, windows, backlog, coord, phase, owed, failed>>
  BY DEF Crash
<1>3. RoutinesTypeOK'
  BY <1>1, <1>2 DEF RoutinesTypeOK
<1>4. \A i \in Inflight : ~Timed(slots'[i]) /\ TellsNews(slots', answered', i)
  BY <1>2 DEF Timed, TellsNews, Unused
<1>5. TimesKept'
  BY <1>1, <1>2, <1>4 DEF TimesKept, SlotsAgree, SentAfterAdvance, NextRun
<1>6. \A q \in Triggered, x \in Subjects :
        <<q, x>> \in answered' <=> <<q, x>> \in answered \/ (x \in known[q] /\ IsTold(slots, q, x))
  <2> TAKE q \in Triggered, x \in Subjects
  <2>1. x \in Telling(q) <=> IsTold(slots, q, x)
    BY RecordedIsTold
  <2> QED
    BY <1>2, <2>1
<1>7. SubjectsKept'
  BY <1>1, <1>2, <1>4, <1>6 DEF SubjectsKept
<1> QED
  BY <1>2, <1>3, <1>5, <1>7 DEF RoutinesInv

LEMMA LessOfTimes ==
  ASSUME NEW t \in Times
  PROVE  /\ Less(t) \in Times /\ (Less(t) = Never <=> t = Never)
         /\ Reached(t) => Reached(Less(t))
         /\ t \in 1 .. Period => Less(t) = t - 1
BY RoutinesAssumption DEF Less, Times, Reached

LEMMA ClockTurns ==
  ASSUME phase \in 0 .. Period - 1, phase' = (phase + 1) % Period
  PROVE  /\ phase' \in 0 .. Period - 1
         /\ phase' = IF phase + 1 = Period THEN 0 ELSE phase + 1
<1>1. Period \in Nat /\ Period > 0 /\ phase \in Nat
  BY RoutinesAssumption
<1>2. CASE phase + 1 = Period
  <2>1. Period % Period = 0
    BY <1>1
  <2> QED
    BY <1>1, <1>2, <2>1
<1>3. CASE phase + 1 < Period
  <2>1. (phase + 1) % Period = phase + 1
    BY <1>1, <1>3
  <2> QED
    BY <1>1, <1>3, <2>1
<1> QED
  BY <1>1, <1>2, <1>3

LEMMA QuarterKeeps ==
  ASSUME RoutinesInv, QuarterHour
  PROVE  RoutinesInv' /\ slots' = slots
<1>1. RoutinesTypeOK /\ TimesKept /\ SubjectsKept /\ phase \in 0 .. Period - 1
  BY DEF RoutinesInv, RoutinesTypeOK
<1>2. /\ slots = [i \in Inflight |-> Unused]
      /\ phase' = (phase + 1) % Period
      /\ stored' = [r \in Routines |-> [stored[r] EXCEPT !.next = Less(@), !.retry = Less(@)]]
      /\ owed' = IF phase' = 0 THEN owed \cup {r \in Scheduled : On(r)} ELSE owed
      /\ UNCHANGED <<known, matching, windows, backlog, coord, slots, failed, answered>>
  BY DEF QuarterHour
<1>3. /\ phase' \in 0 .. Period - 1
      /\ phase' = IF phase + 1 = Period THEN 0 ELSE phase + 1
  BY <1>1, <1>2, ClockTurns
<1>4. \A r \in Routines : /\ stored[r] \in Row /\ stored[r].next \in Times /\ stored[r].retry \in Times
                          /\ stored'[r] = [stored[r] EXCEPT !.next = Less(@), !.retry = Less(@)]
  BY <1>1, <1>2 DEF RoutinesTypeOK, Row, Times
<1>5. \A r \in Routines : /\ stored'[r] \in Row
                          /\ stored'[r].state = stored[r].state
                          /\ stored'[r].next = Less(stored[r].next)
                          /\ stored'[r].retry = Less(stored[r].retry)
  <2> TAKE r \in Routines
  <2>1. Less(stored[r].next) \in Times /\ Less(stored[r].retry) \in Times
    BY <1>4, LessOfTimes
  <2> QED
    BY <1>4, <2>1 DEF Row, Times
<1>6. RoutinesTypeOK'
  <2>1. stored' \in [Routines -> Row]
    BY <1>2, <1>5
  <2>2. owed' \subseteq Scheduled
    BY <1>1, <1>2 DEF RoutinesTypeOK
  <2> QED
    BY <1>1, <1>2, <1>3, <2>1, <2>2 DEF RoutinesTypeOK
<1>7. RowsAgree(stored', owed', failed', NextRun')
  <2> SUFFICES ASSUME NEW q \in Scheduled
               PROVE  /\ stored'[q].state = "on" => stored'[q].next = NextRun' \/ (Reached(stored'[q].next) /\ q \in owed')
                      /\ q \in failed' <=> stored'[q].state = "on" /\ stored'[q].retry # Never
    BY DEF RowsAgree
  <2>1. /\ stored[q].state = "on" => stored[q].next = NextRun \/ (Reached(stored[q].next) /\ q \in owed)
        /\ q \in failed <=> stored[q].state = "on" /\ stored[q].retry # Never
    BY <1>1 DEF TimesKept, RowsAgree
  <2>2. q \in Routines
    BY DEF Routines
  <2>3. stored[q].next \in Times /\ stored[q].retry \in Times
    BY <1>4, <2>2
  <2>4. ASSUME stored[q].state = "on" PROVE stored'[q].next = NextRun' \/ (Reached(stored'[q].next) /\ q \in owed')
    <3>1. CASE stored[q].next = NextRun
      <4>1. NextRun \in 1 .. Period /\ Period \in Nat
        BY <1>1, RoutineTimes
      <4>2. stored'[q].next = Period - phase - 1
        BY <1>5, <2>2, <2>3, <3>1, <4>1, LessOfTimes DEF NextRun
      <4>3. CASE phase + 1 = Period
        <5>1. q \in owed'
          BY <1>2, <1>3, <2>4, <4>3 DEF On
        <5>2. stored'[q].next = 0
          BY <1>1, <4>1, <4>2, <4>3
        <5> QED
          BY <5>1, <5>2 DEF Reached
      <4>4. CASE phase + 1 # Period
        BY <1>1, <1>3, <4>1, <4>2, <4>4 DEF NextRun
      <4> QED
        BY <4>3, <4>4
    <3>2. CASE Reached(stored[q].next) /\ q \in owed
      <4>1. Reached(stored'[q].next)
        BY <1>5, <2>2, <2>3, <3>2, LessOfTimes
      <4> QED
        BY <1>2, <3>2, <4>1
    <3> QED
      BY <2>1, <2>4, <3>1, <3>2
  <2>5. stored'[q].retry = Never <=> stored[q].retry = Never
    BY <1>5, <2>2, <2>3, LessOfTimes
  <2> QED
    BY <1>2, <1>5, <2>1, <2>2, <2>4, <2>5
<1>8. \A i \in Inflight : ~Timed(slots'[i])
  BY <1>2 DEF Timed, Unused
<1>9. TimesKept'
  BY <1>7, <1>8 DEF TimesKept, SlotsAgree, SentAfterAdvance
<1>10. SubjectsKept'
  BY <1>1, <1>2 DEF SubjectsKept, TellsNews
<1> QED
  BY <1>2, <1>6, <1>9, <1>10 DEF RoutinesInv

LEMMA WorldKeeps ==
  ASSUME RoutinesInv,
         \/ Backlog \/ Assign \/ UNCHANGED routineVars
         \/ \E s \in Subjects : Match(s) \/ Clear(s) \/ WindowEnds(s)
  PROVE  RoutinesInv' /\ slots' = slots
<1>1. RoutinesTypeOK /\ TimesKept /\ SubjectsKept
  BY DEF RoutinesInv
<1>2. UNCHANGED <<stored, known, slots, phase, owed, failed, answered>>
  BY DEF Backlog, Assign, Match, Clear, WindowEnds, routineVars
<1>3. matching' \subseteq Subjects /\ windows' \subseteq Allowances
  BY <1>1 DEF RoutinesTypeOK, Backlog, Assign, Match, Clear, WindowEnds, routineVars
<1>4. backlog' \in BOOLEAN /\ coord' \in BOOLEAN
  <2>1. backlog' \in {backlog, ~backlog} /\ coord' \in {coord, ~coord}
    BY DEF Backlog, Assign, Match, Clear, WindowEnds, routineVars
  <2> QED
    BY <1>1, <2>1 DEF RoutinesTypeOK
<1>5. RoutinesTypeOK'
  BY <1>1, <1>2, <1>3, <1>4 DEF RoutinesTypeOK
<1>6. TimesKept' /\ SubjectsKept'
  BY <1>1, <1>2 DEF TimesKept, NextRun, SubjectsKept
<1> QED
  BY <1>2, <1>5, <1>6 DEF RoutinesInv

\* A delivery that has ended leaves the others as they are.
LEMMA FreedSlot ==
  ASSUME RoutinesTypeOK, NEW i \in Inflight, slots' = [slots EXCEPT ![i] = Unused]
  PROVE  /\ slots' \in [Inflight -> Delivery \cup {Unused}]
         /\ slots'[i] = Unused /\ ~Timed(slots'[i])
         /\ \A j \in Inflight : j # i => slots'[j] = slots[j]
BY DEF RoutinesTypeOK, Timed, Unused

LEMMA AnswerKeeps ==
  ASSUME RoutinesInv, NEW i \in Inflight, NEW ok \in BOOLEAN, NEW retryable \in BOOLEAN,
         Answer(i, ok, retryable)
  PROVE  RoutinesInv' /\ \A j \in Inflight : slots'[j] \in {Unused, slots[j]}
<1> DEFINE f == slots[i]
<1>1. RoutinesTypeOK /\ TimesKept /\ SubjectsKept
  BY DEF RoutinesInv
<1>2. /\ f # Unused /\ slots' = [slots EXCEPT ![i] = Unused]
      /\ UNCHANGED <<matching, windows, backlog, coord, phase, owed>>
  BY DEF Answer
<1>3. f.kind \in Kinds /\ f.r \in Routines /\ f.subjects \in SUBSET Subjects
  BY <1>1, <1>2, SlotKinds DEF RoutinesTypeOK
<1>4. /\ slots' \in [Inflight -> Delivery \cup {Unused}]
      /\ slots'[i] = Unused /\ ~Timed(slots'[i])
      /\ \A j \in Inflight : j # i => slots'[j] = slots[j]
  BY <1>1, <1>2, FreedSlot
<1>5. \A r \in Routines : stored[r] \in Row
  BY <1>1 DEF RoutinesTypeOK
<1>6. /\ RetryAfter \in Times /\ Never \in Times /\ RetryAfter # Never
      /\ Scheduled \subseteq Routines /\ Triggered \subseteq Routines /\ Scheduled \cap Triggered = {}
  BY <1>1, RoutineTimes, RoutinesAssumption DEF RoutinesTypeOK, Routines
<1>7. Unused.kind \notin {"trigger", "run"}
  BY DEF Unused
<1>8. CASE f.kind \in {"due", "retry"}
  <2>1. /\ stored' = IF On(f.r)
                  THEN [stored EXCEPT ![f.r].retry =
                          IF retryable /\ MayRetry(f) THEN RetryAfter ELSE Never]
                  ELSE stored
        /\ failed' = IF On(f.r) /\ retryable /\ f.kind = "due" THEN failed \cup {f.r} ELSE failed
        /\ UNCHANGED <<known, answered>>
    BY <1>8 DEF Answer
  <2>2. MayRetry(f) <=> f.kind = "due"
    BY DEF MayRetry
  <2>3. /\ f.r \in Scheduled /\ f.r \notin failed /\ f.subjects = {}
        /\ stored[f.r].state = "on" => ~Reached(stored[f.r].next)
        /\ \A j \in Inflight : Timed(slots[j]) /\ slots[j].r = f.r => i = j
    BY <1>1, <1>8 DEF TimesKept, SlotsAgree, SentAfterAdvance, Timed
  <2> HIDE DEF f
  <2>4. PICK w : w = IF retryable /\ f.kind = "due" THEN RetryAfter ELSE Never
    OBVIOUS
  <2>5. w \in Times /\ (w # Never <=> retryable /\ f.kind = "due")
    BY <1>6, <2>4
  <2>6. stored' = IF On(f.r) THEN [stored EXCEPT ![f.r].retry = w] ELSE stored
    BY <2>1, <2>2, <2>4
  <2>7. [stored[f.r] EXCEPT !.retry = w] \in Row
    BY <1>3, <1>5, <2>5 DEF Row, Times
  <2>8. /\ stored' \in [Routines -> Row]
        /\ \A q \in Routines : q # f.r => stored'[q] = stored[q]
        /\ stored'[f.r] = IF On(f.r) THEN [stored[f.r] EXCEPT !.retry = w] ELSE stored[f.r]
    BY <1>1, <1>3, <2>6, <2>7 DEF RoutinesTypeOK
  <2>9. /\ stored'[f.r].state = stored[f.r].state /\ stored'[f.r].next = stored[f.r].next
        /\ stored[f.r].state = "on" => stored'[f.r].retry = w
    BY <1>3, <1>5, <2>8 DEF Row, On
  <2>10. failed' \subseteq Scheduled /\ \A q \in Scheduled : q # f.r => (q \in failed' <=> q \in failed)
    BY <1>1, <2>1, <2>3 DEF RoutinesTypeOK
  <2>11. f.r \in failed' <=> stored[f.r].state = "on" /\ w # Never
    BY <2>1, <2>3, <2>5 DEF On
  <2>12. RowsAgree(stored', owed', failed', NextRun)
    <3> SUFFICES ASSUME NEW q \in Scheduled
                 PROVE  /\ stored'[q].state = "on" => stored'[q].next = NextRun \/ (Reached(stored'[q].next) /\ q \in owed')
                        /\ q \in failed' <=> stored'[q].state = "on" /\ stored'[q].retry # Never
      BY DEF RowsAgree
    <3>1. /\ stored[q].state = "on" => stored[q].next = NextRun \/ (Reached(stored[q].next) /\ q \in owed)
          /\ q \in failed <=> stored[q].state = "on" /\ stored[q].retry # Never
      BY <1>1 DEF TimesKept, RowsAgree
    <3>2. CASE q = f.r
      BY <1>2, <2>9, <2>11, <3>1, <3>2
    <3>3. CASE q # f.r
      BY <1>2, <1>6, <2>8, <2>10, <3>1, <3>3
    <3> QED
      BY <3>2, <3>3
  <2>13. SlotsAgree(stored', slots', failed')
    <3> SUFFICES ASSUME NEW j \in Inflight, Timed(slots'[j])
                 PROVE  SentAfterAdvance(stored', slots', failed', j)
      BY DEF SlotsAgree, SentAfterAdvance
    <3>1. j # i /\ slots'[j] = slots[j]
      BY <1>4
    <3>2. /\ slots[j].r \in Scheduled /\ slots[j].r \notin failed /\ slots[j].subjects = {}
          /\ stored[slots[j].r].state = "on" => ~Reached(stored[slots[j].r].next)
          /\ \A k \in Inflight : Timed(slots[k]) /\ slots[k].r = slots[j].r => j = k
      BY <1>1, <3>1 DEF TimesKept, SlotsAgree, SentAfterAdvance
    <3>3. slots[j].r # f.r
      BY <2>3, <3>1
    <3>4. stored'[slots[j].r] = stored[slots[j].r] /\ slots[j].r \notin failed'
      BY <1>6, <2>8, <2>10, <3>2, <3>3
    <3>5. \A k \in Inflight : Timed(slots'[k]) /\ slots'[k].r = slots'[j].r => j = k
      BY <1>4, <3>1, <3>2
    <3> QED
      BY <3>1, <3>2, <3>4, <3>5 DEF SentAfterAdvance
  <2>14. RoutinesTypeOK'
    BY <1>1, <1>2, <1>4, <2>1, <2>8, <2>10 DEF RoutinesTypeOK
  <2>15. \A j \in Inflight : TellsNews(slots', answered', j)
    BY <1>1, <1>4, <1>7, <2>1 DEF SubjectsKept, TellsNews
  <2>16. \A q, x : IsTold(slots, q, x) => IsTold(slots', q, x)
    BY <1>4, <2>3 DEF IsTold, f
  <2>17. SubjectsKept'
    BY <1>1, <2>1, <2>15, <2>16 DEF SubjectsKept
  <2> QED
    BY <1>2, <1>4, <2>12, <2>13, <2>14, <2>17 DEF RoutinesInv, TimesKept, NextRun
<1>9. CASE f.kind = "trigger"
  <2>1. /\ known' = IF retryable THEN [known EXCEPT ![f.r] = Forgotten(@, f.subjects)] ELSE known
        /\ stored' = IF retryable /\ stored[f.r].state # "gone"
                  THEN [stored EXCEPT ![f.r].retry = RetryAfter] ELSE stored
        /\ answered' = IF retryable THEN answered
                   ELSE answered \cup {t \in {f.r} \X f.subjects : t[2] \in known[f.r]}
        /\ UNCHANGED failed
    BY <1>9 DEF Answer
  <2>2. /\ f.r \in Triggered
        /\ \A x \in f.subjects : <<f.r, x>> \notin answered
        /\ \A j \in Inflight : slots[j].kind = "trigger" /\ slots[j].r = f.r => i = j
    BY <1>1, <1>9 DEF SubjectsKept, TellsNews
  <2> HIDE DEF f
  <2>3. [stored[f.r] EXCEPT !.retry = RetryAfter] \in Row
    BY <1>3, <1>5, <1>6 DEF Row, Times
  <2>4. /\ stored' \in [Routines -> Row]
        /\ \A q \in Routines : q # f.r => stored'[q] = stored[q]
    BY <1>1, <1>3, <2>1, <2>3 DEF RoutinesTypeOK
  <2>5. \A q \in Scheduled : stored'[q] = stored[q]
    BY <1>6, <2>2, <2>4
  <2>6. RowsAgree(stored', owed', failed', NextRun)
    BY <1>1, <1>2, <2>1, <2>5 DEF TimesKept, RowsAgree
  <2>7. SlotsAgree(stored', slots', failed')
    <3> SUFFICES ASSUME NEW j \in Inflight, Timed(slots'[j])
                 PROVE  SentAfterAdvance(stored', slots', failed', j)
      BY DEF SlotsAgree, SentAfterAdvance
    <3>1. j # i /\ slots'[j] = slots[j]
      BY <1>4
    <3>2. /\ slots[j].r \in Scheduled /\ slots[j].r \notin failed /\ slots[j].subjects = {}
          /\ stored[slots[j].r].state = "on" => ~Reached(stored[slots[j].r].next)
          /\ \A k \in Inflight : Timed(slots[k]) /\ slots[k].r = slots[j].r => j = k
      BY <1>1, <3>1 DEF TimesKept, SlotsAgree, SentAfterAdvance
    <3>3. stored'[slots[j].r] = stored[slots[j].r] /\ slots[j].r \notin failed'
      BY <2>1, <2>5, <3>2
    <3>4. \A k \in Inflight : Timed(slots'[k]) /\ slots'[k].r = slots'[j].r => j = k
      BY <1>4, <3>1, <3>2
    <3> QED
      BY <3>1, <3>2, <3>3, <3>4 DEF SentAfterAdvance
  <2>8. \A q \in Triggered : known'[q] = IF retryable /\ q = f.r THEN known[q] \ f.subjects ELSE known[q]
    BY <1>1, <2>1 DEF RoutinesTypeOK, Forgotten
  <2>9. \A q \in Triggered, x \in Subjects :
          <<q, x>> \in answered' <=> \/ <<q, x>> \in answered
                                     \/ ~retryable /\ q = f.r /\ x \in f.subjects /\ x \in known[q]
    BY <2>1
  <2>10. known' \in [Triggered -> SUBSET Subjects] /\ answered' \subseteq Triggered \X Subjects
    BY <1>1, <1>3, <2>1, <2>2 DEF RoutinesTypeOK, Forgotten
  <2>11. RoutinesTypeOK'
    BY <1>1, <1>2, <1>4, <2>1, <2>4, <2>10 DEF RoutinesTypeOK
  <2>12. ASSUME NEW j \in Inflight PROVE TellsNews(slots', answered', j)
    <3>1. CASE j = i
      BY <1>4, <1>7, <3>1 DEF TellsNews
    <3>2. CASE j # i
      <4>1. TellsNews(slots, answered, j) /\ slots'[j] = slots[j]
        BY <1>1, <1>4, <3>2 DEF SubjectsKept
      <4>2. slots[j].kind = "trigger" => slots[j].r # f.r
        BY <2>2, <3>2
      <4>3. ASSUME slots[j].kind = "trigger", NEW x \in slots[j].subjects PROVE <<slots[j].r, x>> \notin answered'
        BY <2>1, <4>1, <4>2, <4>3 DEF TellsNews
      <4>4. \A k \in Inflight : slots'[k].kind = "trigger" => slots'[k] = slots[k]
        BY <1>4, <1>7
      <4> QED
        BY <4>1, <4>3, <4>4 DEF TellsNews
    <3> QED
      BY <3>1, <3>2
  <2>13. \A q \in Triggered, x \in Subjects : <<q, x>> \in answered' => x \in known'[q]
    <3> TAKE q \in Triggered, x \in Subjects
    <3>1. <<q, x>> \in answered => x \in known[q]
      BY <1>1 DEF SubjectsKept
    <3> QED
      BY <2>2, <2>8, <2>9, <3>1
  <2>14. \A q \in Triggered, x \in Subjects : x \in known'[q] => IsTold(slots', q, x) \/ <<q, x>> \in answered'
    <3> TAKE q \in Triggered, x \in Subjects
    <3>1. SUFFICES ASSUME x \in known'[q] PROVE IsTold(slots', q, x) \/ <<q, x>> \in answered'
      OBVIOUS
    <3>2. x \in known[q] /\ (retryable /\ q = f.r => x \notin f.subjects)
      BY <2>8, <3>1
    <3>3. CASE <<q, x>> \in answered
      BY <2>9, <3>3
    <3>4. CASE IsTold(slots, q, x)
      <4>1. PICK j \in Inflight : slots[j] # Unused /\ slots[j].r = q /\ x \in slots[j].subjects
        BY <3>4 DEF IsTold
      <4>2. CASE j = i
        BY <2>9, <3>2, <4>1, <4>2 DEF f
      <4>3. CASE j # i
        BY <1>4, <4>1, <4>3 DEF IsTold
      <4> QED
        BY <4>2, <4>3
    <3> QED
      BY <1>1, <3>2, <3>3, <3>4 DEF SubjectsKept
  <2> QED
    BY <1>2, <1>4, <2>6, <2>7, <2>11, <2>12, <2>13, <2>14 DEF RoutinesInv, TimesKept, SubjectsKept, NextRun
<1>10. CASE f.kind = "run"
  <2>1. UNCHANGED <<stored, known, failed, answered>>
    BY <1>10 DEF Answer
  <2>2. f.subjects = {}
    BY <1>1, <1>10 DEF SubjectsKept, TellsNews
  <2> HIDE DEF f
  <2>3. RoutinesTypeOK'
    BY <1>1, <1>2, <1>4, <2>1 DEF RoutinesTypeOK
  <2>4. SlotsAgree(stored', slots', failed')
    <3> SUFFICES ASSUME NEW j \in Inflight, Timed(slots'[j])
                 PROVE  SentAfterAdvance(stored', slots', failed', j)
      BY DEF SlotsAgree, SentAfterAdvance
    <3>1. j # i /\ slots'[j] = slots[j] /\ SentAfterAdvance(stored, slots, failed, j)
      BY <1>1, <1>4 DEF TimesKept, SlotsAgree
    <3> QED
      BY <1>4, <2>1, <3>1 DEF SentAfterAdvance
  <2>5. TimesKept'
    BY <1>1, <1>2, <2>1, <2>4 DEF TimesKept, NextRun
  <2>6. \A j \in Inflight : TellsNews(slots', answered', j)
    <3> TAKE j \in Inflight
    <3>1. TellsNews(slots, answered, j)
      BY <1>1 DEF SubjectsKept
    <3>2. \A k \in Inflight : slots'[k].kind = "trigger" => slots'[k] = slots[k]
      BY <1>4, <1>7
    <3> QED
      BY <1>4, <1>7, <2>1, <3>1, <3>2 DEF TellsNews
  <2>7. \A q, x : IsTold(slots, q, x) => IsTold(slots', q, x)
    BY <1>4, <2>2 DEF IsTold, f
  <2>8. SubjectsKept'
    BY <1>1, <2>1, <2>6, <2>7 DEF SubjectsKept
  <2> QED
    BY <1>4, <2>3, <2>5, <2>8 DEF RoutinesInv
<1> QED
  BY <1>3, <1>8, <1>9, <1>10 DEF Kinds

LEMMA CauseIs ==
  ASSUME NEW f
  PROVE  /\ Timed(f) /\ CausedByTime(f) => Caused(f)
         /\ f.kind = "trigger" /\ (\A s \in f.subjects : <<f.r, s>> \notin answered) => Caused(f)
         /\ f.kind = "run" => Caused(f)
<1>1. f.kind = "due" => (Caused(f) <=> f.r \in owed)
  BY DEF Caused
<1>2. f.kind = "retry" => (Caused(f) <=> f.r \in failed)
  BY DEF Caused
<1>3. f.kind = "trigger" => (Caused(f) <=> ({f.r} \X f.subjects) \cap answered = {})
  BY DEF Caused
<1>4. f.kind = "run" => Caused(f)
  BY DEF Caused
<1> QED
  BY <1>1, <1>2, <1>3, <1>4 DEF Timed, CausedByTime

LEMMA RoutinesStep ==
  RoutinesInv /\ [RoutinesNext]_routineVars =>
    /\ RoutinesInv'
    /\ \A i \in Inflight : slots'[i] \notin {Unused, slots[i]} => Caused(slots'[i])
<1> SUFFICES ASSUME RoutinesInv, [RoutinesNext]_routineVars
             PROVE  /\ RoutinesInv'
                    /\ \A i \in Inflight : slots'[i] \notin {Unused, slots[i]} => Caused(slots'[i])
  OBVIOUS
<1>1. CASE ScheduleSweep
  BY <1>1, ScheduleSweepKeeps, CauseIs
<1>2. CASE TriggerSweep
  BY <1>2, TriggerSweepKeeps, CauseIs
<1>3. CASE Crash
  BY <1>3, CrashKeeps
<1>4. CASE QuarterHour
  BY <1>4, QuarterKeeps
<1>5. CASE \/ SeedRoutines
           \/ \E r \in Routines : CreateRoutines({r}) \/ Pause(r) \/ Resume(r) \/ Edit(r) \/ Delete(r)
  BY <1>5, HandKeeps
<1>6. ASSUME NEW r \in Routines, RunNow(r)
      PROVE  /\ RoutinesInv'
             /\ \A i \in Inflight : slots'[i] \notin {Unused, slots[i]} => Caused(slots'[i])
  BY <1>6, RunKeeps, CauseIs
<1>7. ASSUME NEW i \in Inflight, NEW ok \in BOOLEAN, NEW retryable \in BOOLEAN, Answer(i, ok, retryable)
      PROVE  /\ RoutinesInv'
             /\ \A j \in Inflight : slots'[j] \notin {Unused, slots[j]} => Caused(slots'[j])
  BY <1>7, AnswerKeeps
<1>8. CASE \/ Backlog \/ Assign \/ UNCHANGED routineVars
           \/ \E s \in Subjects : Match(s) \/ Clear(s) \/ WindowEnds(s)
  BY <1>8, WorldKeeps
<1> QED
  BY <1>1, <1>2, <1>3, <1>4, <1>5, <1>6, <1>7, <1>8 DEF RoutinesNext

LEMMA RoutinesInvHolds ==
  RoutinesInit /\ [][RoutinesNext]_routineVars => []RoutinesInv
BY RoutinesStart, RoutinesStep, PTL

\* Nothing is swallowed: a subject that is recorded, and so will not trip
\* again, was told of or is on its way (trippedSubjects, onOutcome), and a
\* failed fire has its retry in the row (recordOutcome); whatever the edits,
\* the restarts and the deliveries that end in the middle of a sweep.
THEOREM RoutinesSwallowNothing ==
  RoutinesInit /\ [][RoutinesNext]_routineVars => []NothingSwallowed
<1>1. RoutinesInv => NothingSwallowed
  <2> SUFFICES ASSUME RoutinesInv PROVE NothingSwallowed
    OBVIOUS
  <2>1. RoutinesTypeOK /\ TimesKept /\ SubjectsKept
    BY DEF RoutinesInv
  <2>2. ASSUME NEW r \in Triggered, NEW s \in known[r] PROVE s \in Telling(r) \/ <<r, s>> \in answered
    <3>1. s \in Subjects
      BY <2>1 DEF RoutinesTypeOK
    <3>2. IsTold(slots, r, s) \/ <<r, s>> \in answered
      BY <2>1, <3>1 DEF SubjectsKept
    <3> QED
      BY <3>2, RecordedIsTold
  <2>3. \A r \in failed : stored[r].retry # Never
    BY <2>1 DEF TimesKept, RowsAgree, RoutinesTypeOK
  <2> QED
    BY <2>1, <2>2, <2>3 DEF NothingSwallowed
<1> QED
  BY <1>1, RoutinesInvHolds, PTL

\* Every fire has a cause of its own: a time of the schedule that has come and
\* was not dealt with, a failure not yet retried, or subjects not told of since
\* they were last clear (startRoutinesSweep, runTriggerSweep, advanceRoutine).
THEOREM RoutinesFireOnce ==
  RoutinesInit /\ [][RoutinesNext]_routineVars => FiredOnce
<1>1. RoutinesInv /\ [RoutinesNext]_routineVars =>
        [\A i \in Inflight : slots'[i] \notin {Unused, slots[i]} => Caused(slots'[i])]_routineVars
  BY RoutinesStep
<1> QED
  BY <1>1, RoutinesInvHolds, PTL DEF FiredOnce

-----------------------------------------------------------------------------
(* Both side by side: each part moves as if it were alone.                 *)

LEMMA PartsMoveAlone ==
  [MCNext]_allVars => [Next]_vars /\ [RoutinesNext]_routineVars
BY DEF MCNext, OnlyRequests, OnlyRoutines, allVars

\* What the journal starts in the user's name, as the run `spawns` checks it:
\* one session per approval, the cap, the outcome told, nothing swallowed, and
\* every fire with its cause.
THEOREM StartsAreTrue ==
  MCSpec => [](OneSessionPerApproval /\ CapKept /\ OutcomesTold /\ NothingSwallowed) /\ FiredOnce
<1>1. MCInit => Init /\ RoutinesInit
  BY DEF MCInit
<1>2. MCSpec => (Init /\ [][Next]_vars) /\ (RoutinesInit /\ [][RoutinesNext]_routineVars)
  BY <1>1, PartsMoveAlone, PTL DEF MCSpec
<1> QED
  BY <1>2, InvHolds, InvGivesSessions, InvGivesOutcomes, CapStays, RoutinesSwallowNothing, RoutinesFireOnce, PTL

=============================================================================
