------------------------------ MODULE Missions ------------------------------
(***************************************************************************)
(* Missions (missions.js, missions-http.js, mission-links.js,              *)
(* convo-title.js).  A conversation may be linked to several missions and  *)
(* has one current one, which names it; its new items are filed on that    *)
(* mission and its milestones go there.  Projects are in Ownership.        *)
(*                                                                         *)
(* Every operation is one transaction; what is announced of it afterwards  *)
(* is best effort and no other state depends on it.  The exception is the  *)
(* milestone, whose event is written in the transaction itself.            *)
(*                                                                         *)
(* Bounds: Missions missions, one item that stays open, two names of a     *)
(* mission, one milestone of a mission.                                    *)
(***************************************************************************)
EXTENDS Naturals, Sequences, FiniteSets, SequencesExt

CONSTANTS
  Talks,        \* conversations of one user
  Child,        \* the sub-chats among them
  Parent,       \* their parent
  Hidden,       \* those on a private box
  Missions,     \* what missions can be created
  NoMission,
  MaxTalks      \* CONVOS_MAX: top-level conversations of a mission

ASSUME MissionsAssumption ==
  /\ Child \subseteq Talks /\ Parent \in Talks \ Child
  /\ Hidden \subseteq Talks
  /\ NoMission \notin Missions
  /\ MaxTalks \in Nat

VARIABLES
  born,      \* the conversations that exist
  linked,    \* linked[c]: missions it is on, in the order it joined them
  current,   \* current[c]: mission_id
  title,     \* title[c]: the mission label the stored title shows
  mission,   \* mission[m]: state, name, origin
  filed,     \* the item: convo, mission, was it detached by hand?
  stones,    \* the missions that have their milestone
  marks      \* their events in the log

missionVars == <<born, linked, current, title, mission, filed, stones, marks>>

NoLabel == <<NoMission, 0>>

\* recomputeConvoTitle: the label of the current mission, not in a sub-chat,
\* and never words of a private conversation in one that is not.
TitleAllowed(origin, c) == origin \in Hidden => c \in Hidden
Label(ms, cur, c) ==
  IF cur = NoMission \/ c \in Child \/ ~TitleAllowed(ms[cur].origin, c) THEN NoLabel ELSE <<cur, ms[cur].name>>
Retitled(ms, cur, cs) == [c \in Talks |-> IF c \in cs THEN Label(ms, cur[c], c) ELSE title[c]]

\* repointItems: an item without mission follows its conversation.  Slip: it
\* stays behind.
StaysBehind(c, m) == filed
Repointed(c, m) == IF filed.convo = c /\ filed.mission = NoMission THEN [filed EXCEPT !.mission = m, !.detached = FALSE] ELSE filed

\* activateLink, endLink: a mission has one place in the order.
Without(ms, m) == IF m \in Range(ms) THEN RemoveAt(ms, CHOOSE i \in DOMAIN ms : ms[i] = m) ELSE ms
Activated(ms, m) == Append(Without(ms, m), m)

\* nextCurrent: the open mission joined last.  Slip: none.
NoNext(ms) == NoMission
NextCurrent(ms) ==
  LET open == {i \in DOMAIN ms : mission[ms[i]].state = "open"}
  IN IF open = {} THEN NoMission ELSE ms[Max(open)]

TopLevel(m) == Cardinality({c \in Talks \ Child : m \in Range(linked[c])})

-----------------------------------------------------------------------------
(* Conversations. *)

\* upsertConversation: a sub-chat inherits the open mission of its parent,
\* unless that would show it what is private.
Inherited(c) ==
  LET m == current[Parent] IN
  IF c \in Child /\ Parent \in born /\ m # NoMission
     /\ (c \in Hidden \/ (Parent \notin Hidden /\ mission[m].origin \notin Hidden))
     /\ mission[m].state = "open" THEN m ELSE NoMission

Upsert(c) ==
  /\ c \notin born
  /\ born' = born \cup {c}
  /\ LET m == Inherited(c) IN
       /\ current' = [current EXCEPT ![c] = m]
       /\ linked' = [linked EXCEPT ![c] = IF m = NoMission THEN @ ELSE Activated(@, m)]
       /\ title' = [title EXCEPT ![c] = Label(mission, m, c)]
  /\ UNCHANGED <<mission, filed, stones, marks>>

-----------------------------------------------------------------------------
(* Missions. *)

\* createMission: with `attach` on the conversation, unless it is on one.
CreateMission(m, c, attach) ==
  /\ mission[m].state = "none" /\ c \in born
  /\ attach => current[c] = NoMission
  /\ mission' = [mission EXCEPT ![m] = [state |-> "open", name |-> 1, origin |-> c]]
  /\ IF attach
       THEN /\ current' = [current EXCEPT ![c] = m]
            /\ linked' = [linked EXCEPT ![c] = Activated(@, m)]
            /\ filed' = Repointed(c, m)
            /\ title' = Retitled(mission', current', {c})
       ELSE UNCHANGED <<current, linked, filed, title>>
  /\ UNCHANGED <<born, stones, marks>>

\* updateMission: a new name renames every conversation it names.  Slip: only
\* the one it was created in.
OriginOnly(m) == {mission[m].origin}
Named(m) == {c \in Talks : current[c] = m}

Rename(m) ==
  /\ mission[m].state = "open"
  /\ mission' = [mission EXCEPT ![m].name = 3 - @]
  /\ title' = Retitled(mission', current, Named(m))
  /\ UNCHANGED <<born, linked, current, filed, stones, marks>>

\* joinMission: by an agent, the user or a spawn; also what makes a linked
\* mission the current one.
Join(c, m) ==
  /\ c \in born /\ mission[m].state = "open"
  /\ (m \notin Range(linked[c]) /\ c \notin Child) => TopLevel(m) < MaxTalks
  /\ linked' = [linked EXCEPT ![c] = IF current[c] = m THEN @ ELSE Activated(@, m)]
  /\ current' = [current EXCEPT ![c] = m]
  /\ filed' = IF current[c] = m THEN filed ELSE Repointed(c, m)
  /\ title' = Retitled(mission, current', {c})
  /\ UNCHANGED <<born, mission, stones, marks>>

\* leaveMission.
Leave(c, m) ==
  /\ m \in Range(linked[c])
  /\ linked' = [linked EXCEPT ![c] = Without(@, m)]
  /\ current' = [current EXCEPT ![c] = IF @ = m THEN NextCurrent(linked'[c]) ELSE @]
  /\ title' = IF current[c] = m THEN Retitled(mission, current', {c}) ELSE title
  /\ UNCHANGED <<born, mission, filed, stones, marks>>

\* closeMission: an agent closes none that has open items.
CloseMission(m, byAgent) ==
  /\ mission[m].state = "open"
  /\ byAgent => filed.mission # m
  /\ mission' = [mission EXCEPT ![m].state = "closed"]
  /\ UNCHANGED <<born, linked, current, title, filed, stones, marks>>

\* createMilestone: the event and the row are one transaction, and a
\* repetition finds the row.  Slip: the event is appended before it.
EventFirst(m, kept) == marks \cup {m}
Marked(m, kept) == IF kept THEN marks \cup {m} ELSE marks

Milestone(m, c, kept) ==
  /\ mission[m].state = "open" /\ m \in Range(linked[c]) /\ m \notin stones
  /\ stones' = IF kept THEN stones \cup {m} ELSE stones
  /\ marks' = Marked(m, kept)
  /\ UNCHANGED <<born, linked, current, title, mission, filed>>

-----------------------------------------------------------------------------
(* The item. *)

File(c) ==
  /\ filed.convo = NoMission /\ c \in born
  /\ filed' = [convo |-> c, mission |-> current[c], detached |-> FALSE]
  /\ UNCHANGED <<born, linked, current, title, mission, stones, marks>>

\* PATCH mission.
Assign(m) ==
  /\ filed.convo # NoMission
  /\ m \in {NoMission} \cup {n \in Missions : mission[n].state # "none"}
  /\ filed' = [filed EXCEPT !.mission = m, !.detached = m = NoMission]
  /\ UNCHANGED <<born, linked, current, title, mission, stones, marks>>

-----------------------------------------------------------------------------
MissionsInit ==
  /\ born = {}
  /\ linked = [c \in Talks |-> <<>>]
  /\ current = [c \in Talks |-> NoMission]
  /\ title = [c \in Talks |-> NoLabel]
  /\ mission = [m \in Missions |-> [state |-> "none", name |-> 1, origin |-> NoMission]]
  /\ filed = [convo |-> NoMission, mission |-> NoMission, detached |-> FALSE]
  /\ stones = {} /\ marks = {}

MissionsNext ==
  \/ \E c \in Talks : Upsert(c) \/ File(c)
  \/ \E m \in Missions, c \in Talks :
       \/ \E attach \in BOOLEAN : CreateMission(m, c, attach)
       \/ Join(c, m) \/ Leave(c, m)
       \/ \E kept \in BOOLEAN : Milestone(m, c, kept)
  \/ \E m \in Missions : Rename(m) \/ \E byAgent \in BOOLEAN : CloseMission(m, byAgent)
  \/ \E m \in Missions \cup {NoMission} : Assign(m)

MissionsSpec == MissionsInit /\ [][MissionsNext]_missionVars

-----------------------------------------------------------------------------
(* What missions promise. *)

\* The current mission of a conversation is one it is linked to, and a
\* conversation linked to an open mission has a current one, so that its
\* milestones and items find their way (joinMission, leaveMission,
\* upsertConversation).
CurrentIsLinked == \A c \in Talks :
  /\ current[c] # NoMission => current[c] \in Range(linked[c])
  /\ current[c] = NoMission => \A m \in Range(linked[c]) : mission[m].state = "closed"

\* The stored title of a conversation is always the one its current mission
\* gives it under that mission's present name, and shows no name of a private
\* conversation's mission elsewhere (recomputeConvoTitle, recomputeMissionTitles).
TitleIsCurrent == \A c \in born : title[c] = Label(mission, current[c], c)

\* An item without mission is in a conversation without one, or was detached
\* by hand (repointItems).
ItemsFollow == (filed.convo # NoMission /\ filed.mission = NoMission /\ current[filed.convo] # NoMission) => filed.detached

\* A milestone is in the log exactly when it is on its mission, also when its
\* transaction was rolled back and repeated (createMilestone).
MilestoneMarked == marks = stones

\* What is stored twice about a mission agrees, whichever of its routes ran
\* last (missions.js, mission-links.js, convo-title.js).
MissionsAgree == CurrentIsLinked /\ TitleIsCurrent /\ ItemsFollow /\ MilestoneMarked
=============================================================================
