------------------------------- MODULE People -------------------------------
(***************************************************************************)
(* Contacts, shared sessions and rooms between two people (contacts.js,    *)
(* person-rooms.js, talk-requests.js and their -events and -http files).   *)
(* The owner's agent asks for a room with the guest's agent: for a session *)
(* the guest shares ("session"), or for the person ("talk"), where the     *)
(* owner's Send also sends a contact request.  Both users answer; then the *)
(* guest's agent is invited into the twin, a room in the guest's own log,  *)
(* and the texts of the two rooms are copied to each other.                *)
(*                                                                         *)
(* A handler that commits twice may die in between (cut): contact ended,   *)
(* rooms not; twin answered, left or expired, link not.  A row's deadline  *)
(* may pass at any time.  Whether a chosen session can be used is left     *)
(* open where the code asks the guest's boxes and conversations.           *)
(*                                                                         *)
(* Bounds: rooms the owner's agent opens, MaxStarts new sessions asked     *)
(* for, PeopleDeaths crashes.                                              *)
(***************************************************************************)
EXTENDS Naturals, FiniteSets

CONSTANTS
  TalkRooms, SessionRooms,  \* the rooms opened to ask for the person, for the session
  MaxStarts, PeopleDeaths

ASSUME PeopleAssumption == IsFiniteSet(TalkRooms \cup SessionRooms) /\ MaxStarts \in Nat /\ PeopleDeaths \in Nat

VARIABLES
  contact,   \* each side's own row of the other
  share,     \* the guest's session, shared with the owner
  link,      \* the person_rooms row of each room: [state, kind, byTalk, spawn]
  seat,      \* the guest device's membership of the room
  twin,      \* and of its twin
  crossed,   \* whose texts the other side has been given
  starts,    \* new sessions being started: [room, id]
  ids,       \* spawn ids handed out
  agreed,    \* sides whose user asked for or accepted the contact (history)
  sentBy,    \* the room whose Send made the owner's request, or the user (history)
  yes,       \* sides whose user approved this ask of a room (history)
  deaths, cut

peopleVars == <<contact, share, link, seat, twin, crossed, starts, ids, agreed, sentBy, yes, deaths, cut>>

Rooms == TalkRooms \cup SessionRooms
Sides == {"owner", "guest"}
Other(u) == IF u = "owner" THEN "guest" ELSE "owner"
NoLink == [state |-> "none", kind |-> "session", byTalk |-> FALSE, spawn |-> 0]
Pending == {"awaiting_owner", "awaiting_guest", "starting"}
LiveLinks == Pending \cup {"invited", "joined"}
Live(r) == link[r].state \in LiveLinks
Mutual(c) == \A u \in Sides : c[u] = "active"
Both == [u \in Sides |-> "active"]

---------------------------------------------------------------------------
(* Contacts.  An ended row is one declined, removed or expired.            *)

ContactIs(c) == contact' = c
Agree(us) == agreed' = {u \in agreed \cup us : contact'[u] \in {"pending_out", "active"}}
Alone == UNCHANGED <<contact, agreed, sentBy>>
KeepRooms == UNCHANGED <<link, seat, twin, crossed, starts, ids, yes, deaths, cut>>

BySide(u) == sentBy' = IF u = "owner" THEN "user" ELSE sentBy

\* send: the other side's own request makes both contacts; a block is silent.
Sent(c, u) ==
  IF c[Other(u)] = "blocked" THEN [c EXCEPT ![u] = "pending_out"]
  ELSE IF c[Other(u)] \in {"pending_out", "active"} THEN Both
  ELSE [c EXCEPT ![u] = "pending_out", ![Other(u)] = "pending_in"]

\* requestContact by the user; a request that waits for an answer is one.
UserRequest(u) ==
  /\ \/ contact[u] \in {"none", "ended"} /\ ContactIs(Sent(contact, u))
     \/ contact[u] = "pending_in" /\ contact[Other(u)] = "pending_out" /\ ContactIs(Both)
  /\ Agree({u}) /\ BySide(u) /\ UNCHANGED share /\ KeepRooms

\* By an agent it is parked for its user.  Slip: an agent may accept.
AgentAccepts(u) ==
  IF contact[u] = "pending_in" THEN ContactIs(Both)
  ELSE contact[u] \in {"none", "ended"} /\ ContactIs([contact EXCEPT ![u] = "awaiting_user"])
AgentRequest(u) == contact[u] \in {"none", "ended"} /\ ContactIs([contact EXCEPT ![u] = "awaiting_user"])
AgentAsks(u) == AgentRequest(u) /\ UNCHANGED <<share, agreed, sentBy>> /\ KeepRooms

\* answerContact.
ContactApprove(u) ==
  /\ \/ contact[u] = "awaiting_user" /\ ContactIs(Sent(contact, u))
     \/ contact[u] = "pending_in" /\ contact[Other(u)] = "pending_out" /\ ContactIs(Both)
  /\ Agree({u}) /\ BySide(u) /\ UNCHANGED share /\ KeepRooms

Refused(c, u) ==
  [c EXCEPT ![u] = "ended", ![Other(u)] = IF @ = "pending_out" THEN "ended" ELSE @]
ContactDecline(u) ==
  /\ \/ contact[u] = "awaiting_user" /\ ContactIs([contact EXCEPT ![u] = "ended"])
     \/ contact[u] = "pending_in" /\ ContactIs(Refused(contact, u))
  /\ Agree({}) /\ UNCHANGED <<share, sentBy>> /\ KeepRooms

ExpireContactAsk(u) ==
  /\ contact[u] = "awaiting_user" /\ ContactIs([contact EXCEPT ![u] = "ended"])
  /\ UNCHANGED <<share, agreed, sentBy>> /\ KeepRooms

Unblock(u) ==
  /\ contact[u] = "blocked" /\ ContactIs([contact EXCEPT ![u] = "ended"])
  /\ UNCHANGED <<share, agreed, sentBy>> /\ KeepRooms

---------------------------------------------------------------------------
(* The end of a room and of a contact.                                     *)

Over(l) == [l EXCEPT !.state = "over", !.spawn = 0]
Left(m) == IF m \in {"invited", "joined"} THEN "left" ELSE m

\* endPersonRoom on a set of rooms: link, both memberships.
EndRooms(rs) ==
  /\ link' = [r \in Rooms |-> IF r \in rs THEN Over(link[r]) ELSE link[r]]
  /\ seat' = [r \in Rooms |-> IF r \in rs THEN Left(seat[r]) ELSE seat[r]]
  /\ twin' = [r \in Rooms |-> IF r \in rs THEN Left(twin[r]) ELSE twin[r]]

\* endTalkContact: the request the talk sent ends with it.
TalkContactOver(l) ==
  IF l.kind = "talk" /\ l.byTalk /\ contact["owner"] = "pending_out"
  THEN [u \in Sides |-> IF u = "owner" \/ contact[u] = "pending_in" THEN "ended" ELSE contact[u]]
  ELSE contact

Die == deaths < PeopleDeaths /\ deaths' = deaths + 1 /\ starts' = {}
Lives == UNCHANGED <<deaths, cut, starts>>

\* linksBetween: every live room of the two, whoever owns it.  Slip: those
\* that are open, none that is being set up.
OpenRooms(c) == {r \in Rooms : link[r].state = "joined"}
LinksBetween(c) == {r \in Rooms : Live(r)}

\* removeContact and blockContact, then endPeopleRooms: rooms one by one,
\* shares last.  A death between any two commits leaves the rest.
ContactEnds(u, to) ==
  LET touched == contact[Other(u)] \in {"pending_in", "pending_out", "active"} IN
  /\ contact[u] \notin {"none", "blocked", to}
  /\ ContactIs([contact EXCEPT ![u] = to, ![Other(u)] = IF touched THEN "ended" ELSE @])
  /\ Agree({})
  /\ \/ EndRooms(LinksBetween(u)) /\ share' = "none" /\ Lives
     \/ \E rs \in SUBSET LinksBetween(u) : EndRooms(rs) /\ UNCHANGED share /\ Die /\ cut' = TRUE
  /\ UNCHANGED <<crossed, ids, sentBy, yes>>

---------------------------------------------------------------------------
(* The guest's session, shared with the owner.                             *)

Share(s) == share' = s /\ Alone /\ KeepRooms
ShareSession == share = "none" /\ Mutual(contact) /\ \E s \in {"awaiting_user", "active"} : Share(s)
ShareApprove == share = "awaiting_user" /\ Share(IF Mutual(contact) THEN "active" ELSE "none")
ShareEnds == share # "none" /\ Share("none")
ExpireShare == share = "awaiting_user" /\ Share("none")

---------------------------------------------------------------------------
(* Asking for a room.                                                      *)

LinkIs(r, s) == link' = [link EXCEPT ![r].state = s, ![r].spawn = 0]
Says(r, us) == yes' = [yes EXCEPT ![r] = us]
KeepPeople == UNCHANGED share /\ Alone
KeepSeats == UNCHANGED <<seat, twin, crossed>>

\* A room that never had a twin and has no live ask.
Fresh(r) == ~Live(r) /\ twin[r] = "none"
Park(r, k) ==
  /\ Fresh(r)
  /\ link' = [link EXCEPT ![r] = [NoLink EXCEPT !.state = "awaiting_owner", !.kind = k]]
  /\ Says(r, {}) /\ KeepPeople /\ KeepSeats /\ UNCHANGED <<starts, ids, deaths, cut>>
ParkRoom(r) == r \in SessionRooms /\ share = "active" /\ Mutual(contact) /\ Park(r, "session")
ParkTalk(r) ==
  /\ r \in TalkRooms /\ contact["owner"] # "blocked"
  /\ ~ \E q \in Rooms : Live(q) /\ link[q].kind = "talk"
  /\ Park(r, "talk")

\* stillAllowed; the session of a talk was looked at just before.
Allowed(r, c) == Mutual(c) /\ (link[r].kind = "session" => share = "active")

OwnerDeclines(r) ==
  /\ link[r].state = "awaiting_owner" /\ LinkIs(r, "over")
  /\ KeepPeople /\ KeepSeats /\ Lives /\ UNCHANGED <<ids, yes>>

\* answerPersonRoom by the owner.
OwnerApproves(r) ==
  /\ link[r].state = "awaiting_owner" /\ link[r].kind = "session"
  /\ LinkIs(r, IF Allowed(r, contact) THEN "awaiting_guest" ELSE "over")
  /\ Says(r, {"owner"}) /\ KeepPeople /\ KeepSeats /\ Lives /\ UNCHANGED ids

\* answerTalkOwner: Send, with contactForTalk.
TalkLink(r, s, by) == link' = [link EXCEPT ![r].state = s, ![r].byTalk = by]
OwnerSends(r) ==
  /\ link[r].state = "awaiting_owner" /\ link[r].kind = "talk"
  /\ \/ contact["owner"] \in {"active", "pending_out"} /\ TalkLink(r, "awaiting_guest", FALSE) /\ Alone
     \/ contact["owner"] = "blocked" /\ TalkLink(r, "over", FALSE) /\ Alone
     \/ \* the agent's own request, a day old: it expires, the talk goes out
        /\ contact["owner"] = "awaiting_user" /\ ContactIs([contact EXCEPT !["owner"] = "ended"])
        /\ TalkLink(r, "awaiting_guest", FALSE) /\ UNCHANGED <<agreed, sentBy>>
     \/ /\ contact["owner"] \in {"none", "ended", "awaiting_user"}
        /\ ContactIs(Sent(contact, "owner")) /\ Agree({"owner"}) /\ sentBy' = r
        /\ TalkLink(r, "awaiting_guest", ~Mutual(contact'))
     \/ /\ contact["owner"] = "pending_in" /\ contact["guest"] = "pending_out"
        /\ ContactIs(Both) /\ Agree({"owner"}) /\ sentBy' = r /\ TalkLink(r, "awaiting_guest", FALSE)
  /\ Says(r, {"owner"}) /\ UNCHANGED share /\ KeepSeats /\ Lives /\ UNCHANGED ids

\* guestSees: a blocked owner's talk does not reach the guest.
Asked(r, k) ==
  link[r].state = "awaiting_guest" /\ link[r].kind = k /\ (k = "talk" => contact["guest"] # "blocked")

GuestDeclines(r) ==
  /\ \/ Asked(r, "session") /\ UNCHANGED contact
     \/ /\ Asked(r, "talk")
        /\ ContactIs(IF link[r].byTalk /\ contact["guest"] = "pending_in" THEN Refused(contact, "guest") ELSE contact)
  /\ Agree({}) /\ LinkIs(r, "over") /\ KeepSeats /\ Lives /\ UNCHANGED <<share, ids, sentBy, yes>>

\* inviteGuest and backfillTwin: what was said in the room goes over.
Invite(r) ==
  /\ LinkIs(r, "invited") /\ twin' = [twin EXCEPT ![r] = "invited"]
  /\ crossed' = [crossed EXCEPT ![r] = {"owner"}]

GuestAccepts(r) ==
  /\ Asked(r, "session")
  /\ \/ Allowed(r, contact) /\ Invite(r)
     \/ ~Allowed(r, contact) /\ LinkIs(r, "over") /\ UNCHANGED <<twin, crossed>>
  /\ Says(r, Sides) /\ KeepPeople /\ Lives /\ UNCHANGED <<seat, ids>>

\* acceptOnto: the contact request that waits is accepted with the talk.
AcceptOnto(r) ==
  /\ contact["guest"] = "pending_in" => contact["owner"] = "pending_out"
  /\ \/ contact["guest"] = "pending_in" /\ ContactIs(Both) /\ Agree({"guest"}) /\ UNCHANGED sentBy
     \/ contact["guest"] # "pending_in" /\ Alone
  /\ \/ Allowed(r, contact') /\ Invite(r)
     \/ ~Allowed(r, contact') /\ LinkIs(r, "over") /\ UNCHANGED <<twin, crossed>>
  /\ UNCHANGED <<share, seat>>

\* answerTalkGuest: the Coordinator, or a session of the guest's that is free.
GuestChooses(r) == Asked(r, "talk") /\ AcceptOnto(r) /\ Says(r, Sides) /\ Lives /\ UNCHANGED ids

\* A new session is started, over awaits, under an id of its own.
GuestStartsNew(r) ==
  /\ Asked(r, "talk") /\ ids < MaxStarts /\ ids' = ids + 1
  /\ link' = [link EXCEPT ![r].state = "starting", ![r].spawn = ids']
  /\ starts' = starts \cup {[room |-> r, id |-> ids']}
  /\ Says(r, Sides) /\ KeepPeople /\ KeepSeats /\ UNCHANGED <<deaths, cut>>

\* completeTalkStart takes the answer of the start the row waits for.  Slip:
\* of any start for a talk that is still being set up.
AnyLateStart(s) == link[s.room].state \in Pending
Current(s) == link[s.room].state = "starting" /\ link[s.room].spawn = s.id

Again(r) == LinkIs(r, "awaiting_guest") /\ Says(r, {"owner"}) /\ KeepPeople /\ KeepSeats
StartReturns(s) ==
  /\ s \in starts /\ starts' = starts \ {s}
  /\ \/ Current(s) /\ (Again(s.room) \/ (AcceptOnto(s.room) /\ UNCHANGED yes))
     \/ ~Current(s) /\ UNCHANGED <<link, yes>> /\ KeepPeople /\ KeepSeats
  /\ UNCHANGED <<ids, deaths, cut>>

\* The sweep takes a start back that never came back.  Slip: only one this
\* process still waits for.
KnownStart(r) ==
  link[r].state = "starting" /\ (\E s \in starts : s.room = r) /\ Again(r) /\ Lives /\ UNCHANGED ids
StuckStart(r) == link[r].state = "starting" /\ Again(r) /\ Lives /\ UNCHANGED ids

---------------------------------------------------------------------------
(* The twin, the texts, the ends.                                          *)

\* agent_invite_answer: the twin's row, then the link and the room's row.
AgentAnswers(r, accept) ==
  LET now == IF accept THEN "joined" ELSE "refused" IN
  /\ twin[r] = "invited" /\ twin' = [twin EXCEPT ![r] = now]
  /\ \/ /\ LinkIs(r, IF accept THEN "joined" ELSE "over") /\ Lives
        /\ seat' = IF accept THEN [seat EXCEPT ![r] = "joined"] ELSE seat
     \/ Die /\ cut' = TRUE /\ UNCHANGED <<link, seat>>
  /\ KeepPeople /\ UNCHANGED <<crossed, ids, yes>>

\* expireInvites, then onGuestInviteExpired.
ExpireInvite(r) ==
  /\ twin[r] = "invited" /\ twin' = [twin EXCEPT ![r] = "expired"]
  /\ \/ LinkIs(r, "over") /\ Lives
     \/ Die /\ cut' = TRUE /\ UNCHANGED link
  /\ KeepPeople /\ UNCHANGED <<seat, crossed, ids, yes>>

\* copyRoomMessage of a text of side u.
Relay(r, u) ==
  /\ link[r].state = "joined" /\ crossed' = [crossed EXCEPT ![r] = @ \cup {u}]
  /\ KeepPeople /\ Lives /\ UNCHANGED <<link, seat, twin, ids, yes>>

\* DELETE /person-rooms/:id by either user, agent_leave of the owner's agent.
EndRoom(r) ==
  /\ Live(r) /\ EndRooms({r})
  /\ ContactIs(IF link[r].state \in {"awaiting_guest", "starting"} THEN TalkContactOver(link[r]) ELSE contact)
  /\ Agree({}) /\ Lives /\ UNCHANGED <<share, crossed, ids, sentBy, yes>>

\* agent_leave of the guest's agent: its row, then the room.
GuestLeaves(r) ==
  /\ twin[r] = "joined"
  /\ \/ EndRooms({r}) /\ Lives
     \/ twin' = [twin EXCEPT ![r] = "left"] /\ Die /\ cut' = TRUE /\ UNCHANGED <<link, seat>>
  /\ KeepPeople /\ UNCHANGED <<crossed, ids, yes>>

\* expirePersonRoomAsks and expireTalkAsks.
ExpireAsk(r) ==
  /\ \/ link[r].state = "awaiting_owner" /\ UNCHANGED contact
     \/ link[r].state = "awaiting_guest" /\ link[r].kind = "talk" /\ ContactIs(TalkContactOver(link[r]))
  /\ Agree({}) /\ LinkIs(r, "over") /\ KeepSeats /\ Lives /\ UNCHANGED <<share, ids, sentBy, yes>>

PeopleCrash == Die /\ UNCHANGED <<contact, share, link, seat, twin, crossed, ids, agreed, sentBy, yes, cut>>

PeopleInit ==
  /\ contact = [u \in Sides |-> "none"] /\ share = "none"
  /\ link = [r \in Rooms |-> NoLink]
  /\ seat = [r \in Rooms |-> "none"] /\ twin = [r \in Rooms |-> "none"]
  /\ crossed = [r \in Rooms |-> {}] /\ starts = {} /\ ids = 0
  /\ agreed = {} /\ sentBy = "user" /\ yes = [r \in Rooms |-> {}] /\ deaths = 0 /\ cut = FALSE

PeopleNext ==
  \/ \E u \in Sides :
       \/ UserRequest(u) \/ AgentAsks(u) \/ ContactApprove(u) \/ ContactDecline(u)
       \/ ExpireContactAsk(u) \/ Unblock(u) \/ ContactEnds(u, "ended") \/ ContactEnds(u, "blocked")
  \/ ShareSession \/ ShareApprove \/ ShareEnds \/ ExpireShare
  \/ \E r \in Rooms :
       \/ ParkRoom(r) \/ ParkTalk(r) \/ OwnerDeclines(r) \/ OwnerApproves(r) \/ OwnerSends(r)
       \/ GuestDeclines(r) \/ GuestAccepts(r) \/ GuestChooses(r) \/ GuestStartsNew(r) \/ StuckStart(r)
       \/ AgentAnswers(r, TRUE) \/ AgentAnswers(r, FALSE) \/ ExpireInvite(r)
       \/ Relay(r, "owner") \/ Relay(r, "guest") \/ EndRoom(r) \/ GuestLeaves(r) \/ ExpireAsk(r)
  \/ \E s \in starts : StartReturns(s)
  \/ PeopleCrash

---------------------------------------------------------------------------
(* The two rows of a contact never tell different stories: active on both  *)
(* sides or neither, and an ask on one side only with the ask of the other *)
(* (send, accept, end and endTalkContact write both rows).  And a contact  *)
(* is one both users asked for or accepted, through a tap of their own.    *)
ContactsAgree ==
  /\ \A u \in Sides : contact[u] = "active" => contact[Other(u)] = "active"
  /\ \A u \in Sides : contact[u] = "pending_in" => contact[Other(u)] = "pending_out"
  /\ Mutual(contact) => agreed = Sides

(* A room is open, and anything said in it has crossed, only after both    *)
(* users said yes to this very ask; a start that answers late, after its   *)
(* talk was asked again or ended, opens nothing (completeTalkStart).       *)
BothSaidYes ==
  \A r \in Rooms : link[r].state \in {"invited", "joined"} \/ crossed[r] # {} => yes[r] = Sides

(* Ending a contact takes every room and share of the two with it, and a   *)
(* room's three records agree: joined on both sides while it is joined,    *)
(* and nobody in it once it is over (endPeopleRooms, endPersonRoom).       *)
RoomsEndWithContact ==
  cut \/ /\ share = "active" \/ (\E r \in Rooms : link[r].state \in {"invited", "joined"}) => Mutual(contact)
         /\ \A r \in Rooms : (link[r].state = "joined") = (seat[r] = "joined") /\ (link[r].state = "joined") = (twin[r] = "joined")

(* A contact and what hangs on it are one story for both users, and one    *)
(* that both agreed to.                                                    *)
ContactRules == ContactsAgree /\ RoomsEndWithContact /\ BothSaidYes

(* What the comment at endTalkContact says: "a request that was not the    *)
(* talk's ... is left alone".  So the request a talk would take with it,   *)
(* were it to end now, is the one that its own Send sent.                  *)
RequestsLeftAlone ==
  \A r \in Rooms :
    link[r].state \in {"awaiting_guest", "starting"} /\ TalkContactOver(link[r]) # contact => sentBy = r

(* Every ask is answered, expires or is withdrawn: the owner's after a     *)
(* day, a talk's guest's after a week, a start that hangs, an invitation   *)
(* (the sweeps); one of a session stays with the guest until the owner     *)
(* ends it, and so does one whose sweep was cut short.                     *)
Waiting(r, s) == link[r].state = s /\ (s = "awaiting_guest" => link[r].kind = "talk")
TalksEnd ==
  \A r \in Rooms, s \in Pending \cup {"invited"} : []<>(~Waiting(r, s) \/ cut)

\* The sweep timer.
PeopleFairness ==
  \A r \in Rooms :
    WF_peopleVars(ExpireAsk(r)) /\ WF_peopleVars(StuckStart(r)) /\ WF_peopleVars(ExpireInvite(r))

PeopleSpec == PeopleInit /\ [][PeopleNext]_peopleVars /\ PeopleFairness

=============================================================================
