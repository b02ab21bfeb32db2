------------------------------ MODULE MCConvos ------------------------------
(* What is recorded of a conversation: what of it was seen and what the    *)
(* user is told he did not see, whether it is archived, its missions and   *)
(* its title, what its asks come from, and the orders and calls to its     *)
(* box.  The six have no state in common here, so a behavior explores one, *)
(* `part`.                                                                 *)
EXTENDS ReadState, Archive, Missions, Causes, BoxRequests, Unseen, TLC

CONSTANTS room, kid, app, box, C, A, B, K, x, y

VARIABLE part

\* Missions are alike.
Alike == Permutations(Missions)

\* Bound: the ranges of one conversation are reported.  Those of two are kept
\* apart and never meet.
OneReported == \E c \in Convos : ranges[c] = {}

\* The Coordinator and one session share a room, two sessions another.
InRoom == (x :> {C, A}) @@ (y :> {A, B})

vars == <<part, readVars, archiveVars, missionVars, causeVars, controlVars, unseenVars>>

ParentOf == [s \in Sub |-> room]

Only(name, others) == part = name /\ UNCHANGED <<part, others>>

Init ==
  /\ part \in {"read", "archive", "missions", "causes", "requests", "unseen"}
  /\ ReadInit /\ ArchiveInit /\ MissionsInit /\ CausesInit /\ ControlInit /\ UnseenInit
Next ==
  \/ Only("read", <<archiveVars, missionVars, causeVars, controlVars, unseenVars>>) /\ ReadNext
  \/ Only("archive", <<readVars, missionVars, causeVars, controlVars, unseenVars>>) /\ ArchiveNext
  \/ Only("missions", <<readVars, archiveVars, causeVars, controlVars, unseenVars>>) /\ MissionsNext
  \/ Only("causes", <<readVars, archiveVars, missionVars, controlVars, unseenVars>>) /\ CausesNext
  \/ Only("requests", <<readVars, archiveVars, missionVars, causeVars, unseenVars>>) /\ ControlNext
  \/ Only("unseen", <<readVars, archiveVars, missionVars, causeVars, controlVars>>) /\ UnseenNext

Spec == Init /\ [][Next]_vars

\* ReadAsReported and NudgesAreNews, each in the part it is about: what was
\* reported as read is read, and the Coordinator is told of the rest once.
ReadAsTold ==
  /\ part = "read" => ReadAsReported
  /\ part = "unseen" => NudgesAreNews

\* CausesFollowed and RequestsAnswered, each in the part it is about: the
\* Coordinator answers no ask whose words may not be the user's, and holds no
\* other one; a box is given what it is asked once, and who asks hears of it.
AsksServed ==
  /\ part = "causes" => CausesFollowed
  /\ part = "requests" => RequestsAnswered
=============================================================================
