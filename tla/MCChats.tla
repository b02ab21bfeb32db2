------------------------------ MODULE MCChats -------------------------------
(* What goes from one to another live: the output of a command, the rooms  *)
(* and talks of two people, a file that one device sends to another, the   *)
(* pushes to a phone.  The four have no state in common, so a behavior     *)
(* explores one, `part`.                                                   *)
EXTENDS ToolStream, People, Transfers, Pushes

CONSTANTS r1, r2

VARIABLE part

vars == <<part, streamVars, peopleVars, transferVars, pushVars>>

Only(name, others) == part = name /\ UNCHANGED <<part, others>>
OnlyStream == Only("stream", <<peopleVars, transferVars, pushVars>>)
OnlyPeople == Only("people", <<streamVars, transferVars, pushVars>>)
OnlyTransfer == Only("transfer", <<streamVars, peopleVars, pushVars>>)
OnlyPush == Only("push", <<streamVars, peopleVars, transferVars>>)

Init ==
  /\ part \in {"stream", "people", "transfer", "push"}
  /\ StreamInit /\ PeopleInit /\ TransfersInit /\ PushInit
  /\ part # "stream" => \A r \in Refs : fed[r] = CHOOSE s \in Socks : TRUE
  /\ part # "push" => holding
Next ==
  \/ OnlyStream /\ StreamNext
  \/ OnlyPeople /\ PeopleNext
  \/ OnlyTransfer /\ TransfersNext
  \/ OnlyPush /\ PushNext

\* The fairness of the components, each action while its part is explored.
Fairness ==
  /\ \A a \in Apps : WF_vars(OnlyStream /\ Flush(a)) /\ WF_vars(OnlyStream /\ Resync(a))
  /\ \A r \in Rooms :
       /\ WF_vars(OnlyPeople /\ ExpireAsk(r))
       /\ WF_vars(OnlyPeople /\ StuckStart(r))
       /\ WF_vars(OnlyPeople /\ ExpireInvite(r))
  /\ WF_vars(OnlyTransfer /\ SweepDirectory)

Spec == Init /\ [][Next]_vars /\ Fairness

----------------------------------------------------------------------------
\* What an app shows, and what rings a phone, is so, each in the part it is
\* about (WatcherSeesTruth, PhoneRings).
AppsToldTruth ==
  /\ part = "stream" => WatcherSeesTruth
  /\ part = "push" => PhoneRings

\* What has begun ends: a talk that was sent, the directory of a file that
\* is gone.
ChatsEnd == TalksEnd /\ GoneLeavesNothing
=============================================================================
