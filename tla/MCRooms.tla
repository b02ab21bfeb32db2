------------------------------ MODULE MCRooms ------------------------------
(* A small room: two agents, one asked about twice; one session of the     *)
(* owner.  Or, `part`, a box that sleeps and is woken.  A room takes a     *)
(* wake for granted, so the two have no state in common here.              *)
EXTENDS Rooms, BoxWake

CONSTANTS o, a, b, s
MCAgents == {a, b}
MCSessions == {s}
MCAsks == [g \in MCAgents |-> IF g = a THEN 2 ELSE 0]

VARIABLE part

either == <<part, vars, wakeVars>>

OnlyRoom == part = "room" /\ UNCHANGED <<part, wakeVars>>
OnlyWake == part = "wake" /\ UNCHANGED <<part, vars>>

EitherInit ==
  /\ part \in {"room", "wake"}
  /\ Init /\ WakeInit
  /\ part = "room" => attachedBox
EitherNext ==
  \/ OnlyRoom /\ Next
  \/ OnlyWake /\ WakeNext

\* The fairness of the components, each action while its part is explored.
EitherFairness ==
  /\ WF_either(OnlyRoom /\ WriteAnswer) /\ SF_either(OnlyRoom /\ Sweep)
  /\ WF_either(OnlyRoom /\ Tick)
  /\ WF_either(OnlyWake /\ WakeTick) /\ WF_either(OnlyWake /\ StallSweep)

EitherSpec == EitherInit /\ [][EitherNext]_either /\ EitherFairness

----------------------------------------------------------------------------
\* Whoever waits is served in the end: an ask is answered or expires, a
\* session whose limit was reset gets its box back (AsksEnd, StalledAreWoken).
WaitsEnd == AsksEnd /\ StalledAreWoken
=============================================================================
