------------------------------ MODULE MCSpawns ------------------------------
(* What the journal starts in the user's name: two spawn requests for one  *)
(* box, one of them with a room, or the routines of the Coordinator.  The  *)
(* two have no state in common, so a behavior explores one of them, `part`. *)
EXTENDS Spawns, Routines

CONSTANTS r1, r2
MCRequests == {r1, r2}
MCLinked == {r1}

VARIABLE part

allVars == <<part, vars, routineVars>>

OnlyRequests == part = "requests" /\ UNCHANGED <<part, routineVars>>
OnlyRoutines == part = "routines" /\ UNCHANGED <<part, vars>>

MCInit ==
  /\ part \in {"requests", "routines"} /\ Init /\ RoutinesInit
  /\ part # "requests" => consent /\ online
MCNext == (OnlyRequests /\ Next) \/ (OnlyRoutines /\ RoutinesNext)

\* The fairness of the components, each action while its part is explored.
\* A sweep of the routines that may find the firer busy comes round again, and
\* so does a tick that waits for the deliveries.
MCFairness ==
  /\ WF_allVars(OnlyRequests /\ Tick) /\ WF_allVars(OnlyRequests /\ SweepWhole)
  /\ WF_allVars(OnlyRequests /\ \E r \in Requests : TimesOut(r, All))
  /\ SF_allVars(OnlyRoutines /\ ScheduleSweep) /\ SF_allVars(OnlyRoutines /\ QuarterHour)
  /\ \A i \in Inflight :
       WF_allVars(OnlyRoutines /\ \E ok, retryable \in BOOLEAN : Answer(i, ok, retryable))

MCSpec == MCInit /\ [][MCNext]_allVars /\ MCFairness
=============================================================================
