---------------------------- MODULE ItemHandover ----------------------------
(***************************************************************************)
(* An item is offered to another session (item-handover.js,                *)
(* item-handover-http.js): by the session that owns it, by the coordinator *)
(* or by the user.  The new owner accepts or declines; an offer that       *)
(* involves a session only the user answers for is first parked as a       *)
(* question to the user, and the item waits for the user meanwhile.  An    *)
(* offer is replaced, withdrawn, closed with its item, or expires.         *)
(*                                                                         *)
(* The item is a task.  Time is one event: the offer's 24 hours run out    *)
(* (`late`), and a sweep settles it some time after.  The one step in      *)
(* which a death of the process shows is the close of the item, which      *)
(* withdraws the offer in a transaction of its own.                        *)
(*                                                                         *)
(* Bounds: MaxOffers offers.                                               *)
(***************************************************************************)
EXTENDS Naturals, Sequences, FiniteSets

CONSTANTS
  Sessions,     \* conversations with a box
  Coordinator,  \* the one that may offer any item
  Guarded,      \* those on a box only the user answers for
  Private,      \* those on a private box
  MaxOffers     \* offers of the item

ASSUME HandoverAssumption ==
  /\ Coordinator \in Sessions
  /\ Guarded \subseteq Sessions /\ Private \subseteq Sessions
  /\ MaxOffers \in Nat

VARIABLES
  owner,     \* origin_convo_id
  open,      \* the item's state
  awaiting,  \* whom the item waits for: "user", "agent", "none"
  wanted,    \* whom it would wait for had nobody offered it
  offers,    \* item_handovers, in order
  told       \* told[s]: what s was told last of each offer that concerns it

handoverVars == <<owner, open, awaiting, wanted, offers, told>>

Sides == Sessions \cup {"user"}
PendingStates == {"awaiting_user", "offered"}

\* pendingHandover: at most one, the last.
Pending(o) == o.state \in PendingStates
HasPending == offers # <<>> /\ Pending(offers[Len(offers)])
Latest == offers[Len(offers)]
Settle(state) == [offers EXCEPT ![Len(offers)].state = state]

NeedsUserTap(from, to) == {from, to} \cap Guarded # {}
PrivacyMatches(from, to) == from \in Private <=> to \in Private

\* What the item waits for once offer h is settled: what it waited for
\* before the question, unless somebody spoke after it.  Slip: whoever spoke.
RestoredAlways(h) == IF open /\ awaiting = "user" /\ h.state = "awaiting_user" THEN h.prior ELSE awaiting
Restored(h) == IF open /\ awaiting = "user" /\ h.state = "awaiting_user" /\ ~h.moved THEN h.prior ELSE awaiting

\* Markers: in `tells` session s is told the stage tells[s] of offer i.
Tell(i, tells) == told' = [s \in Sessions |-> IF s \in DOMAIN tells THEN [told[s] EXCEPT ![i] = tells[s]] ELSE told[s]]

\* toOfferer: the third party that offered.
Offerer(h) == ({h.by} \cap Sessions) \ {h.from, h.to}
Both(h, stage) == [s \in {h.from, h.to} \cup Offerer(h) |-> stage]
\* announceWithdrawn, and the sweep: the new owner hears of the end of what
\* it was offered.  Slip: only those who offered.
OfferingSideOnly(h, stage) == [s \in {h.from} \cup Offerer(h) |-> stage]
Ended(h, stage) == [s \in {h.from} \cup Offerer(h) \cup (IF h.state = "offered" THEN {h.to} ELSE {}) |-> stage]

-----------------------------------------------------------------------------
\* offeringSide: the owner, the coordinator, or the user.
MayOffer(side) == side \in {owner, Coordinator, "user"}

\* offerHandover.  The offer it replaces ends in the same transaction, and
\* the session it was made to hears so first.
Offer(side, to) ==
  /\ open /\ to # owner /\ MayOffer(side) /\ PrivacyMatches(owner, to)
  /\ Len(offers) < MaxOffers
  /\ LET before == IF HasPending THEN Restored(Latest) ELSE awaiting
         parked == side # "user" /\ NeedsUserTap(owner, to)
         h == [from |-> owner, to |-> to, by |-> side, state |-> IF parked THEN "awaiting_user" ELSE "offered",
               prior |-> before, moved |-> FALSE, approved |-> FALSE, late |-> FALSE]
         n == Len(offers) + 1
         heard == IF parked THEN {} ELSE {to} \cup (IF side = owner THEN {} ELSE {owner})
         oldHears == IF ~HasPending THEN {}
                     ELSE (IF Latest.state = "offered" THEN {Latest.to} ELSE {}) \cup (Offerer(Latest) \ {side})
     IN /\ offers' = Append(IF HasPending THEN Settle("withdrawn") ELSE offers, h)
        /\ awaiting' = IF parked THEN "user" ELSE before
        /\ told' = [s \in Sessions |-> [i \in 1..MaxOffers |->
             IF i = n /\ s \in heard THEN "offered"
             ELSE IF i = n - 1 /\ s \in oldHears THEN "withdrawn" ELSE told[s][i]]]
  /\ UNCHANGED <<owner, open, wanted>>

\* handleApprovalTap, answerApproval: the user's answer to the question.
Approve ==
  /\ open /\ HasPending /\ Latest.state = "awaiting_user" /\ ~Latest.late
  /\ LET h == Latest IN
       /\ offers' = [offers EXCEPT ![Len(offers)].state = "offered", ![Len(offers)].approved = TRUE]
       /\ awaiting' = Restored(h)
       /\ Tell(Len(offers), [s \in {h.from, h.to} \cup Offerer(h) |-> IF s = h.to THEN "offered" ELSE "approved"])
  /\ UNCHANGED <<owner, open, wanted>>

Keep ==
  /\ HasPending /\ Latest.state = "awaiting_user" /\ ~Latest.late
  /\ offers' = Settle("refused")
  /\ awaiting' = Restored(Latest)
  /\ Tell(Len(offers), [s \in {Latest.from} \cup Offerer(Latest) |-> "refused"])
  /\ UNCHANGED <<owner, open, wanted>>

\* What the session it is offered to may still answer.  Slip: any pending
\* offer.
AnyPending(h) == ~h.late
Answerable(h) == h.state = "offered" /\ ~h.late

Accept ==
  /\ open /\ HasPending /\ Answerable(Latest) /\ owner = Latest.from
  /\ owner' = Latest.to
  /\ offers' = Settle("accepted")
  /\ Tell(Len(offers), Both(Latest, "accepted"))
  /\ UNCHANGED <<open, awaiting, wanted>>

Decline ==
  /\ HasPending /\ Answerable(Latest)
  /\ offers' = Settle("declined")
  /\ awaiting' = Restored(Latest)
  /\ Tell(Len(offers), Both(Latest, "declined"))
  /\ UNCHANGED <<owner, open, wanted>>

\* settleHandover.
Withdrawn ==
  /\ HasPending /\ ~Latest.late
  /\ offers' = Settle("withdrawn")
  /\ awaiting' = Restored(Latest)
  /\ Tell(Len(offers), Ended(Latest, "withdrawn"))

Withdraw(side) == MayOffer(side) /\ Withdrawn /\ UNCHANGED <<owner, open, wanted>>

\* The item is closed; the process may die before it withdraws the offer.
CloseItem ==
  /\ open
  /\ open' = FALSE /\ awaiting' = "none" /\ wanted' = "none"
  /\ \/ UNCHANGED <<offers, told>>
     \/ /\ HasPending /\ ~Latest.late
        /\ offers' = Settle("withdrawn")
        /\ Tell(Len(offers), Ended(Latest, "withdrawn"))
  /\ UNCHANGED owner

ReopenItem ==
  /\ ~open
  /\ open' = TRUE /\ awaiting' = "agent" /\ wanted' = "agent"
  /\ UNCHANGED <<owner, offers, told>>

\* Somebody speaks: the user, or an agent with a question of its own.
Moved == IF HasPending THEN [offers EXCEPT ![Len(offers)].moved = @ \/ Latest.state = "awaiting_user"] ELSE offers

UserSpeaks ==
  /\ open' = TRUE /\ awaiting' = "agent" /\ wanted' = "agent"
  /\ offers' = Moved
  /\ UNCHANGED <<owner, told>>

AgentAsks ==
  /\ open
  /\ awaiting' = "user" /\ wanted' = "user"
  /\ offers' = Moved
  /\ UNCHANGED <<owner, open, told>>

\* PATCH awaiting.  While the question of a parked offer is out, a PATCH to
\* "user" is taken for that question's, and ends with it.
Questioned == HasPending /\ Latest.state = "awaiting_user" /\ ~Latest.moved

Set(whom) ==
  /\ open
  /\ awaiting' = whom
  /\ wanted' = IF Questioned /\ whom = "user" THEN Latest.prior ELSE whom
  /\ UNCHANGED <<owner, open, offers, told>>

\* The 24 hours run out, and the sweep settles what it finds.
RunOut ==
  /\ HasPending /\ ~Latest.late
  /\ offers' = [offers EXCEPT ![Len(offers)].late = TRUE]
  /\ UNCHANGED <<owner, open, awaiting, wanted, told>>

\* Slip: the sweep looks for unanswered questions only.
QuestionsOnly(h) == h.late /\ h.state = "awaiting_user"
Due(h) == h.late /\ Pending(h)

Sweep ==
  /\ HasPending /\ Due(Latest)
  /\ offers' = Settle("expired")
  /\ awaiting' = Restored(Latest)
  /\ Tell(Len(offers), Ended(Latest, "expired"))
  /\ UNCHANGED <<owner, open, wanted>>

-----------------------------------------------------------------------------
HandoverInit ==
  /\ owner \in Sessions
  /\ open = TRUE /\ awaiting = "agent" /\ wanted = "agent"
  /\ offers = <<>>
  /\ told = [s \in Sessions |-> [i \in 1..MaxOffers |-> "nothing"]]

HandoverNext ==
  \/ \E side \in Sides, to \in Sessions : Offer(side, to)
  \/ \E side \in Sides : Withdraw(side)
  \/ Approve \/ Keep \/ Accept \/ Decline
  \/ CloseItem \/ ReopenItem \/ UserSpeaks \/ AgentAsks
  \/ \E whom \in {"user", "none"} : Set(whom)
  \/ RunOut \/ Sweep

\* Clocks advance, and the hourly sweep of the server runs.
HandoverFairness == WF_handoverVars(RunOut) /\ WF_handoverVars(Sweep)

HandoverSpec == HandoverInit /\ [][HandoverNext]_handoverVars /\ HandoverFairness

-----------------------------------------------------------------------------
(* What a handover promises. *)

\* An item changes hands only to the session a live offer of its present
\* owner names, and when a session only the user answers for is on either
\* side, only after the user offered it or approved (acceptHandover).
OwnerByConsent ==
  [][owner' # owner => \E i \in DOMAIN offers :
       LET h == offers[i] IN
         /\ h.from = owner /\ h.to = owner' /\ h.state = "offered" /\ ~h.late
         /\ h.by = "user" \/ h.approved \/ ~NeedsUserTap(owner, owner')]_handoverVars

\* When no question of an offer is out, the item waits for whom it would wait
\* for without handovers: the question leaves no item stuck on the user, and
\* forgets nothing that was said while it was out (restoreAwaiting).
AwaitingRestored == (open /\ ~(HasPending /\ Latest.state = "awaiting_user")) => awaiting = wanted

\* A session whose last news of an offer is that it may take the item still
\* may, or will hear of the end from the sweep: no offer is replaced,
\* withdrawn or closed behind the back of the session it was made to.
NoStaleOffers == \A s \in Sessions, i \in DOMAIN offers :
  (told[s][i] = "offered" /\ offers[i].to = s) => offers[i].state = "offered"

\* No offer stays open for ever, whoever goes quiet (expireHandovers).
OffersEnd == []<>(~HasPending)

\* Both together: an offer ends, and only one that was consented to moves the
\* item (acceptHandover, expireHandovers).
HandoversEnd == OwnerByConsent /\ OffersEnd

\* An offer that is over leaves nobody waiting for it: neither the item nor
\* the session it was made to (settleHandover, restoreAwaiting).
OffersSettled == AwaitingRestored /\ NoStaleOffers
=============================================================================
