----------------------------- MODULE Ownership -----------------------------
(***************************************************************************)
(* A mission or a project given to a contact (grants.js, handover.js,      *)
(* projects.js and the -http and -events files): to read, or to own.  The  *)
(* owner's agent asks its user, the user asks the contact, the contact     *)
(* accepts.  Owning hands copies over and closes the originals; the giver  *)
(* keeps a grant on the copy.  Missions are filed, moved, closed, and      *)
(* projects merged and closed while an ask is out.                         *)
(*                                                                         *)
(* Levels read and contribute are one here.  An ask for more than an       *)
(* active grant is its `raise`.  Each answer is one transaction; the cards *)
(* are filed and closed after it, and a death in between leaves them       *)
(* (noCards).  PATCH of a mission reads its body after it read the         *)
(* mission, so it may compare with a project the mission has left.         *)
(*                                                                         *)
(* Bounds: the grants Asks, one attachment on each mission of WithFile.    *)
(***************************************************************************)
EXTENDS FiniteSets

CONSTANTS
  OwnMissions, OwnProjects, \* the owner's; each mission may come to be
  WithFile,                 \* missions with an attachment
  Grantees,
  Asks,                     \* <<subject, grantee>>, one grants row each
  Nothing                   \* no project, no set

ASSUME OwnershipAssumption ==
  /\ Asks \subseteq (OwnMissions \cup OwnProjects) \X Grantees
  /\ WithFile \subseteq OwnMissions /\ Nothing \notin OwnProjects

VARIABLES
  work,     \* missions: [state, project]
  attached, \* missions whose attachment is there
  folder,   \* projects: "open", "closed"
  friend,   \* grantees that are contacts, both ways
  grant,    \* rows: [state, level, raise, approved]
  gave,     \* what a handover copied, and
  back,     \* handovers whose giver still has a grant on the copy
  asks,     \* open cards: <<row, side>>
  noCards   \* a death left the cards behind

ownershipVars == <<work, attached, folder, friend, grant, gave, back, asks, noCards>>

NoGrant == [state |-> "none", level |-> "read", raise |-> "none", approved |-> Nothing]
Waits == {"awaiting_owner", "pending"}

\* askOf.
AskState(g) == IF g.raise # "none" THEN g.raise ELSE g.state
AskLevel(g) == IF g.raise # "none" THEN "owner" ELSE g.level
AskLives(k) == AskState(grant[k]) \in Waits
LiveRow(g) == g.state \in Waits \cup {"active"}
HandedRow(g) == g.state = "active" /\ g.level = "owner"

\* subjectMissions.
Of(s) == IF s \in OwnMissions THEN {s} ELSE {m \in OwnMissions : work[m].state = "open" /\ work[m].project = s}

\* handoverOf: a row but one that asks to own s, or that has handed it.
Claimed(s, but) == \E k \in Asks \ but : k[1] = s /\ AskLives(k) /\ AskLevel(grant[k]) = "owner"
HandedOver(s, but) == \E k \in Asks \ but : k[1] = s /\ HandedRow(grant[k])

\* checkHandoverAsk.
CanBeHanded(s, but) ==
  /\ ~HandedOver(s, but) /\ ~Claimed(s, but)
  /\ s \in OwnProjects => folder[s] = "open" /\ Of(s) # {} /\ (\A m \in Of(s) : ~Claimed(m, but))
  /\ s \in OwnMissions => work[s].state = "open" /\ ~Claimed(work[s].project, but)

\* approvedSet: the missions, and their attachments but those left out.
WhatCrosses(s, out) == [missions |-> Of(s), files |-> (Of(s) \cap attached) \ out, out |-> out]
FilesLeftOut == {{}, WithFile}

\* Closes the cards of rows ks and files the one the new state asks for.
\* Slip: the ones that were there stay.
Cards(k, g) ==
  IF AskState(g) = "awaiting_owner" THEN {<<k, "owner">>}
  ELSE IF AskState(g) = "pending" THEN {<<k, "grantee">>} ELSE {}
Kept(ks) == asks
Settled(ks) == {c \in asks : c[1] \notin ks}
Deal(ks) ==
  \/ /\ asks' = Settled(ks) \cup UNION {Cards(k, grant'[k]) : k \in ks}
     /\ UNCHANGED noCards
  \/ ~noCards /\ noCards' = TRUE /\ UNCHANGED asks
KeepWork == UNCHANGED <<work, attached, folder>>
KeepAsks == UNCHANGED <<friend, grant, gave, back, asks, noCards>>

\* dropRaise, or the end of the row.
EndedAsk(g) ==
  IF g.raise # "none" THEN [g EXCEPT !.raise = "none", !.approved = Nothing]
  ELSE [g EXCEPT !.state = "over", !.approved = Nothing]

GrantIs(k, g) == grant' = [grant EXCEPT ![k] = g]
Answered(k, g) == GrantIs(k, g) /\ Deal({k}) /\ KeepWork /\ UNCHANGED <<friend, gave, back>>

---------------------------------------------------------------------------
(* Asking.                                                                 *)

\* upsertAsk, by the agent or by the user, who chose what to leave out.
AskGrant(k, level, by, out) ==
  LET approved == IF level = "owner" /\ by = "user" THEN WhatCrosses(k[1], out) ELSE Nothing
      state == IF by = "agent" THEN "awaiting_owner" ELSE "pending" IN
  /\ k[2] \in friend /\ ~AskLives(k)
  /\ k[1] \in OwnMissions => work[k[1]].state # "none"
  /\ IF level = "owner" THEN CanBeHanded(k[1], {}) ELSE k[1] \in OwnMissions /\ grant[k].state # "active"
  /\ Answered(k, IF grant[k].state = "active" THEN [grant[k] EXCEPT !.raise = state, !.approved = approved]
                 ELSE [NoGrant EXCEPT !.state = state, !.level = level, !.approved = approved])

\* The owner's tap, a decline and the sweep of a day-old ask.
OwnerRefuses(k) == AskState(grant[k]) = "awaiting_owner" /\ Answered(k, EndedAsk(grant[k]))

Asking(g, approved) ==
  IF g.raise # "none" THEN [g EXCEPT !.raise = "pending", !.approved = approved]
  ELSE [g EXCEPT !.state = "pending", !.approved = approved]
OwnerAgrees(k, out) ==
  LET toOwn == AskLevel(grant[k]) = "owner"
      possible == k[2] \in friend /\ (toOwn => CanBeHanded(k[1], {k})) IN
  /\ AskState(grant[k]) = "awaiting_owner"
  /\ Answered(k, IF possible THEN Asking(grant[k], IF toOwn THEN WhatCrosses(k[1], out) ELSE Nothing)
                 ELSE EndedAsk(grant[k]))

---------------------------------------------------------------------------
(* The contact's answer.                                                   *)

GranteeDeclines(k) == AskState(grant[k]) = "pending" /\ Answered(k, EndedAsk(grant[k]))

\* sameApprovedSet.  Slip: the missions alone.
SameMissions(k) == Of(k[1]) = grant[k].approved.missions
AsApproved(k) == WhatCrosses(k[1], grant[k].approved.out) = grant[k].approved

\* closeOriginal.  Slip: its items only.
ItemsOnly(ms) == work
Originals(ms) == [m \in OwnMissions |-> IF m \in ms THEN [work[m] EXCEPT !.state = "closed"] ELSE work[m]]

\* endOtherAsks, of any level, on the missions and on the project.
OtherAsks(k, ms) == {q \in Asks \ {k} : q[1] \in ms \cup {k[1]} /\ AskLives(q)}

\* applyHandover.
HandOver(k) ==
  LET ms == Of(k[1])
      others == OtherAsks(k, ms) IN
  /\ grant' = [q \in Asks |->
       IF q = k THEN [grant[k] EXCEPT !.state = "active", !.level = "owner", !.raise = "none"]
       ELSE IF q \in others THEN EndedAsk(grant[q]) ELSE grant[q]]
  /\ work' = Originals(ms)
  /\ folder' = IF k[1] \in OwnProjects THEN [folder EXCEPT ![k[1]] = "closed"] ELSE folder
  /\ gave' = [gave EXCEPT ![k] = WhatCrosses(k[1], grant[k].approved.out)]
  /\ back' = back \cup {k}
  /\ Deal({k} \cup others) /\ UNCHANGED <<attached, friend>>

GranteeAccepts(k) ==
  LET toOwn == AskLevel(grant[k]) = "owner" IN
  /\ AskState(grant[k]) = "pending" /\ k[2] \in friend
  /\ \/ toOwn /\ CanBeHanded(k[1], {k}) /\ AsApproved(k) /\ HandOver(k)
     \/ toOwn /\ ~(CanBeHanded(k[1], {k}) /\ AsApproved(k)) /\ Answered(k, EndedAsk(grant[k]))
     \/ ~toOwn /\ Answered(k, [grant[k] EXCEPT !.state = "active"])

---------------------------------------------------------------------------
(* The ends.                                                               *)

Ended(g) == [g EXCEPT !.state = "over", !.raise = "none", !.approved = Nothing]

\* revokeGrant by either, of the grant or of the giver's own on the copy.
Revoke(k) == LiveRow(grant[k]) /\ ~HandedRow(grant[k]) /\ Answered(k, Ended(grant[k]))
RevokeBack(k) ==
  k \in back /\ back' = back \ {k} /\ KeepWork /\ UNCHANGED <<friend, grant, gave, asks, noCards>>

\* revokeGrantsBetween: every live row of the two, both ways, but what was
\* handed over.  Slip: only what is asked.
OnlyAsked(g) == {k \in Asks : k[2] = g /\ AskLives(k)}
Between(g) == {k \in Asks : k[2] = g /\ LiveRow(grant[k]) /\ ~HandedRow(grant[k])}
ContactOver(g) ==
  /\ g \in friend /\ friend' = friend \ {g}
  /\ grant' = [k \in Asks |-> IF k \in Between(g) THEN Ended(grant[k]) ELSE grant[k]]
  /\ back' = {k \in back : k[2] # g}
  /\ Deal(Between(g)) /\ KeepWork /\ UNCHANGED gave
ContactAgain(g) ==
  g \notin friend /\ friend' = friend \cup {g} /\ KeepWork /\ UNCHANGED <<grant, gave, back, asks, noCards>>

---------------------------------------------------------------------------
(* The owner's missions and projects meanwhile.                            *)

WorkIs(m, state, p) == work' = [work EXCEPT ![m] = [state |-> state, project |-> p]]
NewMission(m, p) ==
  /\ work[m].state = "none" /\ folder[p] = "open" /\ WorkIs(m, "open", p)
  /\ UNCHANGED <<attached, folder>> /\ KeepAsks
MissionCloses(m) ==
  /\ work[m].state = "open" /\ WorkIs(m, "closed", work[m].project)
  /\ UNCHANGED <<attached, folder>> /\ KeepAsks

\* handlePatch, with the project the mission was in when the request came.
Refile(m, was, p) ==
  /\ work[m].state # "none" /\ folder[p] = "open"
  /\ p # was => ~Claimed(m, {}) /\ ~Claimed(was, {}) /\ ~Claimed(p, {})
  /\ WorkIs(m, work[m].state, p) /\ UNCHANGED <<attached, folder>> /\ KeepAsks

\* closeProject, by the user.
ProjectCloses(p) ==
  /\ folder[p] = "open" /\ folder' = [folder EXCEPT ![p] = "closed"]
  /\ UNCHANGED <<work, attached>> /\ KeepAsks

\* mergeProject: every mission goes along, whatever ask is out.
Merge(p, q) ==
  /\ p # q /\ folder[p] = "open" /\ folder[q] = "open"
  /\ work' = [m \in OwnMissions |-> IF work[m].project = p THEN [work[m] EXCEPT !.project = q] ELSE work[m]]
  /\ folder' = [folder EXCEPT ![p] = "closed"]
  /\ UNCHANGED attached /\ KeepAsks

\* An attachment is posted, or its content expires.
Attachment(m) ==
  /\ work[m].state # "none"
  /\ attached' = IF m \in attached THEN attached \ {m} ELSE attached \cup {m}
  /\ UNCHANGED <<work, folder>> /\ KeepAsks

OwnershipInit ==
  /\ work = [m \in OwnMissions |-> [state |-> "none", project |-> Nothing]]
  /\ attached = {} /\ folder = [p \in OwnProjects |-> "open"]
  /\ friend = Grantees /\ grant = [k \in Asks |-> NoGrant]
  /\ gave = [k \in Asks |-> Nothing] /\ back = {} /\ asks = {} /\ noCards = FALSE

OwnershipNext ==
  \/ \E k \in Asks :
       \/ \E level \in {"read", "owner"}, by \in {"agent", "user"}, out \in FilesLeftOut : AskGrant(k, level, by, out)
       \/ OwnerRefuses(k) \/ \E out \in FilesLeftOut : OwnerAgrees(k, out)
       \/ GranteeDeclines(k) \/ GranteeAccepts(k) \/ Revoke(k) \/ RevokeBack(k)
  \/ \E g \in Grantees : ContactOver(g) \/ ContactAgain(g)
  \/ \E m \in OwnMissions :
       \/ MissionCloses(m) \/ (m \in WithFile /\ Attachment(m))
       \/ \E p \in OwnProjects : NewMission(m, p) \/ \E was \in OwnProjects : Refile(m, was, p)
  \/ \E p \in OwnProjects : ProjectCloses(p) \/ \E q \in OwnProjects : Merge(p, q)

OwnershipSpec == OwnershipInit /\ [][OwnershipNext]_ownershipVars

---------------------------------------------------------------------------
(* What crossed is what the owner said yes to, whatever was filed, moved,  *)
(* closed, posted or expired before the contact accepted; and each mission *)
(* crosses once (sameApprovedSet, checkHandoverAsk, closeOriginal).        *)
GivenAsApproved ==
  /\ \A k \in Asks : gave[k] # Nothing => gave[k] = grant[k].approved
  /\ \A k, q \in Asks : k # q /\ gave[k] # Nothing /\ gave[q] # Nothing => gave[k].missions \cap gave[q].missions = {}

(* Nobody who is not a contact has a live grant or a live ask, except what *)
(* was handed to them for good; nor has the giver one on the copy.         *)
GrantsAmongContacts ==
  \A k \in Asks : k[2] \notin friend => (LiveRow(grant[k]) => HandedRow(grant[k])) /\ k \notin back

(* The open cards are the asks that wait, each with the user it waits for, *)
(* unless the process died between an answer and its cards.                *)
CardsAreAsks == noCards \/ asks = UNION {Cards(k, grant[k]) : k \in Asks}

(* All of it: what is shared, and what is given away, is what both said.   *)
SharesHold == GivenAsApproved /\ GrantsAmongContacts /\ CardsAreAsks
=============================================================================
