------------------------------ MODULE Linking ------------------------------
(***************************************************************************)
(* Adding a device without a password (link.js, pairing.js, rendezvous.js  *)
(* and their routes in http.js).  A signed-in app starts an offer and      *)
(* shows its code; a new device claims the code; the app sees the claim    *)
(* and approves or denies it; the device polls and becomes one of the      *)
(* user's.  A code approved beforehand is a row, spent by its claim; a box *)
(* is paired by the code it shows; a rendezvous carries one sealed note.   *)
(*                                                                         *)
(* Offers, pairs and rendezvous live in memory and expire at any time; a   *)
(* restart forgets them, and keeps the rows.                               *)
(*                                                                         *)
(* Bounds: MaxCodes codes handed out, MaxOpen offers at once, one          *)
(* rendezvous, MaxReboots restarts.                                        *)
(***************************************************************************)
EXTENDS Naturals, FiniteSets

CONSTANTS Starters, Claimers, MaxCodes, MaxOpen, MaxReboots

ASSUME LinkingAssumption == {MaxCodes, MaxOpen, MaxReboots} \subseteq Nat

VARIABLES
  offer,    \* sessions by starter: [code, status, by]
  ready,    \* sessions of codes approved beforehand, claimed: <<code, by>>
  requests,     \* link_preapprovals
  tokens,   \* claim tokens handed out: <<code, by>>
  pairs,    \* pairs: [code, approved]
  shown,    \* the claim each starter's app shows
  meant,    \* claims whose approval was tapped (history)
  devices,  \* devices made for each code
  codes,    \* codes handed out so far
  note, readers, \* the rendezvous' note, and the one its creator read
  reboots

linkingVars == <<offer, ready, requests, tokens, pairs, shown, meant, devices, codes, note, readers, reboots>>

Nobody == "nobody"
NoOffer == [code |-> 0, status |-> "none", by |-> Nobody]
NoClaim == <<0, Nobody>>
Codes == 1..MaxCodes
OpenOffers == {s \in Starters : offer[s] # NoOffer}
KeepNote == UNCHANGED <<note, readers, reboots>>
KeepPairs == UNCHANGED <<pairs, note, readers, reboots>>
NewCode == codes < MaxCodes /\ codes' = codes + 1
Makes(c) == devices' = [devices EXCEPT ![c] = @ + 1]

---------------------------------------------------------------------------
(* link.js.                                                                *)

\* start: a starter's second offer replaces its first.
StartRequest(s) ==
  /\ NewCode /\ Cardinality(OpenOffers \ {s}) + Cardinality(ready) < MaxOpen
  /\ offer' = [offer EXCEPT ![s] = [code |-> codes', status |-> "waiting", by |-> Nobody]]
  /\ KeepPairs /\ UNCHANGED <<ready, requests, tokens, shown, meant, devices>>

\* startPreapproved.
Preapprove ==
  /\ NewCode /\ Cardinality(requests) < MaxOpen /\ requests' = requests \cup {codes'}
  /\ KeepPairs /\ UNCHANGED <<offer, ready, tokens, shown, meant, devices>>

\* claim: one claimer for each code.  A row is deleted and answered in one
\* statement.  Slip: the row is only read.
ReadRow(c) == requests
TakeRow(c) == requests \ {c}
ClaimOffer(s, x) ==
  /\ offer[s].status = "waiting"
  /\ offer' = [offer EXCEPT ![s].status = "claimed", ![s].by = x]
  /\ tokens' = tokens \cup {<<offer[s].code, x>>}
  /\ KeepPairs /\ UNCHANGED <<ready, requests, shown, meant, devices, codes>>
ClaimRow(c, x) ==
  /\ c \in requests /\ requests' = TakeRow(c)
  /\ ready' = ready \cup {<<c, x>>} /\ tokens' = tokens \cup {<<c, x>>}
  /\ KeepPairs /\ UNCHANGED <<offer, shown, meant, devices, codes>>

\* status, which the app polls.
Show(s) ==
  /\ offer[s].status = "claimed" /\ shown' = [shown EXCEPT ![s] = <<offer[s].code, offer[s].by>>]
  /\ KeepPairs /\ UNCHANGED <<offer, ready, requests, tokens, meant, devices, codes>>

\* activeOwn: the starter's offer, if it is still the one with that code.
\* Slip: whatever offer the starter has.
AnyOwn(s) == offer[s] # NoOffer
ActiveOwn(s) == offer[s] # NoOffer /\ offer[s].code = shown[s][1]

\* approve: the app sends the code of the claim it shows.
ApproveRequest(s) ==
  /\ shown[s] # NoClaim /\ meant' = meant \cup {shown[s]}
  /\ offer' = IF ActiveOwn(s) /\ offer[s].status = "claimed" THEN [offer EXCEPT ![s].status = "approved"] ELSE offer
  /\ KeepPairs /\ UNCHANGED <<ready, requests, tokens, shown, devices, codes>>

\* deny: with the code of the offer in force, claimed or not; any other code
\* changes nothing.
Deny(s) ==
  /\ offer[s].status \in {"waiting", "claimed"}
  /\ offer' = [offer EXCEPT ![s].status = "denied"]
  /\ KeepPairs /\ UNCHANGED <<ready, requests, tokens, shown, meant, devices, codes>>

\* poll: the session is gone before its device is made.  Slip: it stays.
StillThere(s) == offer
Redeemed(s) == [offer EXCEPT ![s] = NoOffer]
PollOffer(s, x) ==
  /\ <<offer[s].code, x>> \in tokens /\ offer[s].by = x
  /\ \/ offer[s].status = "denied" /\ UNCHANGED devices
     \/ offer[s].status = "approved" /\ Makes(offer[s].code)
  /\ offer' = Redeemed(s)
  /\ KeepPairs /\ UNCHANGED <<ready, requests, tokens, shown, meant, codes>>
PollReady(t) ==
  /\ t \in ready /\ ready' = ready \ {t} /\ Makes(t[1])
  /\ KeepPairs /\ UNCHANGED <<offer, requests, tokens, shown, meant, codes>>

---------------------------------------------------------------------------
(* pairing.js: the box shows a code, an app types it, the box polls.       *)

PairsAre(ps) == pairs' = ps /\ KeepNote /\ UNCHANGED <<offer, ready, requests, tokens, shown, meant>>
PairStart ==
  NewCode /\ Cardinality(pairs) < MaxOpen /\ PairsAre(pairs \cup {[code |-> codes', approved |-> FALSE]}) /\ UNCHANGED devices
PairApprove(p) ==
  /\ p \in pairs /\ ~p.approved /\ PairsAre((pairs \ {p}) \cup {[p EXCEPT !.approved = TRUE]})
  /\ UNCHANGED <<devices, codes>>
PairClaim(p) == p \in pairs /\ p.approved /\ PairsAre(pairs \ {p}) /\ Makes(p.code) /\ UNCHANGED codes

---------------------------------------------------------------------------
(* rendezvous.js: one note for each, the first one, as often as asked.     *)

KeepLinking == UNCHANGED <<offer, ready, requests, tokens, pairs, shown, meant, devices, codes, reboots>>
Rendezvous == note = "none" /\ readers = {} /\ note' = "empty" /\ UNCHANGED readers /\ KeepLinking
\* offer.  Slip: the last note.
LastNote == note # "none"
FirstNote == note = "empty"
LeaveNote(x) == FirstNote /\ note' = x /\ UNCHANGED readers /\ KeepLinking
ReadNote == note \notin {"none", "empty"} /\ readers' = readers \cup {note} /\ UNCHANGED note /\ KeepLinking

---------------------------------------------------------------------------
Expires ==
  /\ \/ \E s \in OpenOffers : offer' = [offer EXCEPT ![s] = NoOffer] /\ UNCHANGED <<ready, requests, pairs, note>>
     \/ \E t \in ready : ready' = ready \ {t} /\ UNCHANGED <<offer, requests, pairs, note>>
     \/ \E c \in requests : requests' = requests \ {c} /\ UNCHANGED <<offer, ready, pairs, note>>
     \/ \E p \in pairs : pairs' = pairs \ {p} /\ UNCHANGED <<offer, ready, requests, note>>
     \/ note # "none" /\ note' = "none" /\ UNCHANGED <<offer, ready, requests, pairs>>
  /\ UNCHANGED <<tokens, shown, meant, devices, codes, readers, reboots>>

Reboot ==
  /\ reboots < MaxReboots /\ reboots' = reboots + 1
  /\ offer' = [s \in Starters |-> NoOffer] /\ ready' = {} /\ pairs' = {} /\ note' = "none"
  /\ UNCHANGED <<requests, tokens, shown, meant, devices, codes, readers>>

LinkingInit ==
  /\ offer = [s \in Starters |-> NoOffer] /\ ready = {} /\ requests = {} /\ tokens = {} /\ pairs = {}
  /\ shown = [s \in Starters |-> NoClaim] /\ meant = {} /\ devices = [c \in Codes |-> 0]
  /\ codes = 0 /\ note = "none" /\ readers = {} /\ reboots = 0

LinkingNext ==
  \/ \E s \in Starters :
       \/ StartRequest(s) \/ Show(s) \/ ApproveRequest(s) \/ Deny(s)
       \/ \E x \in Claimers : ClaimOffer(s, x) \/ PollOffer(s, x)
  \/ Preapprove \/ \E c \in Codes, x \in Claimers : ClaimRow(c, x)
  \/ \E t \in ready : PollReady(t)
  \/ PairStart \/ \E p \in pairs : PairApprove(p) \/ PairClaim(p)
  \/ Rendezvous \/ (\E x \in Claimers : LeaveNote(x)) \/ ReadNote
  \/ Expires \/ Reboot

LinkingSpec == LinkingInit /\ [][LinkingNext]_linkingVars

---------------------------------------------------------------------------
(* One code makes one device at most, however often it is claimed, polled, *)
(* approved late or found again after a restart; and whoever reads a       *)
(* rendezvous twice reads the same note.                                   *)
CodesMakeOne == (\A c \in Codes : devices[c] <= 1) /\ Cardinality(readers) <= 1

(* An approval in force is for the very claim the app showed when its user *)
(* tapped: a new offer, and who claims it, is not approved by a tap meant  *)
(* for the one before (activeOwn).                                         *)
ApprovedAsShown ==
  \A s \in Starters : offer[s].status = "approved" => <<offer[s].code, offer[s].by>> \in meant

(* Both: a device is linked once, and is the one that was shown.           *)
LinkedAsShown == CodesMakeOne /\ ApprovedAsShown
=============================================================================
