---------------------------- MODULE TrackerProofs ----------------------------
(***************************************************************************)
(* Theorems about the tracker, for every value of the constants: the       *)
(* handovers of an item, its thread of comments, the vectors its documents *)
(* are found by, and the three side by side (MCTracker).                   *)
(***************************************************************************)
EXTENDS MCTracker, FiniteSetTheorems, WellFoundedInduction, TLAPS

-----------------------------------------------------------------------------
(* ItemHandover: the inductive invariant. *)

Waits == {"user", "agent", "none"}
Stages == {"nothing", "offered", "approved", "refused", "accepted", "declined", "withdrawn", "expired"}
OfferStates == PendingStates \cup {"refused", "accepted", "declined", "withdrawn", "expired"}
OfferRow == [from : Sessions, to : Sessions, by : Sides, state : OfferStates,
             prior : Waits, moved : BOOLEAN, approved : BOOLEAN, late : BOOLEAN]

HandoverTypeOK ==
  /\ owner \in Sessions /\ open \in BOOLEAN
  /\ awaiting \in Waits /\ wanted \in Waits
  /\ offers \in Seq(OfferRow)
  /\ told \in [Sessions -> [1..MaxOffers -> Stages]]

\* Only the newest offer may be open, and what is not yet offered was not told.
OneOut ==
  /\ Len(offers) <= MaxOffers
  /\ \A i \in 1..Len(offers) : Pending(offers[i]) => i = Len(offers)
  /\ \A s \in Sessions, i \in 1..MaxOffers : i > Len(offers) => told[s][i] = "nothing"

\* A question that nobody spoke over keeps in `prior` what the item would wait
\* for, as long as the item waits for the user; otherwise nothing is kept back.
PriorKept ==
  open => IF HasPending /\ Latest.state = "awaiting_user" /\ ~Latest.moved /\ awaiting = "user"
          THEN wanted = Latest.prior ELSE awaiting = wanted

\* An offer the session may answer was consented to where consent is needed.
Consented ==
  \A i \in 1..Len(offers) : LET h == offers[i] IN
    h.state = "offered" => h.by = "user" \/ h.approved \/ ~NeedsUserTap(h.from, h.to)

HandoverInv == HandoverTypeOK /\ OneOut /\ PriorKept /\ Consented /\ NoStaleOffers

-----------------------------------------------------------------------------
(* The newest row of a table is replaced. *)

\* The new row is the last, the others stay.
LEMMA LastReplaced ==
  ASSUME NEW R, NEW q \in Seq(R), NEW r \in R, q # <<>>
  PROVE  LET t == [q EXCEPT ![Len(q)] = r] IN
         /\ Len(q) \in Nat \ {0} /\ q[Len(q)] \in R
         /\ t \in Seq(R) /\ Len(t) = Len(q)
         /\ t[Len(q)] = r /\ \A i \in 1..Len(q) : i # Len(q) => t[i] = q[i]
OBVIOUS

\* A row is added.
LEMMA RowAppended ==
  ASSUME NEW R, NEW q \in Seq(R), NEW r \in R, NEW m \in Nat, Len(q) = m
  PROVE  LET t == Append(q, r) IN
         /\ t \in Seq(R) /\ Len(t) = m + 1 /\ t[m + 1] = r /\ t # <<>>
         /\ \A i \in 1..m : t[i] = q[i]
<1> DEFINE t == Append(q, r)
<1>1. t \in Seq(R) /\ Len(t) = Len(q) + 1
  OBVIOUS
<1>2. t[m + 1] = r /\ \A i \in 1..m : t[i] = q[i]
  OBVIOUS
<1>3. Len(t) = m + 1
  BY <1>1
<1>4. t # <<>>
  <2> HIDE DEF t
  <2> QED
    BY <1>1, <1>3
<1> HIDE DEF t
<1>5. t \in Seq(R) /\ Len(t) = m + 1 /\ t[m + 1] = r /\ t # <<>> /\ \A i \in 1..m : t[i] = q[i]
  BY <1>1, <1>2, <1>3, <1>4
<1> QED
  BY <1>5 DEF t

\* The newest offer becomes r.
NewestIs(r) == offers' = [offers EXCEPT ![Len(offers)] = r]

\* A settled offer leaves the rest as it was.
LEMMA NewestRow ==
  ASSUME HandoverInv, HasPending, NEW r \in OfferRow,
         NewestIs(r)
  PROVE  /\ Len(offers) \in 1..MaxOffers /\ Latest \in OfferRow /\ Pending(Latest)
         /\ offers' \in Seq(OfferRow) /\ Len(offers') = Len(offers) /\ Latest' = r
         /\ offers' # <<>>
         /\ \A i \in 1..Len(offers) : i # Len(offers) => offers'[i] = offers[i] /\ ~Pending(offers'[i])
<1>1. offers \in Seq(OfferRow) /\ offers # <<>> /\ Len(offers) <= MaxOffers /\ Pending(Latest)
  BY DEF HandoverInv, HandoverTypeOK, OneOut, HasPending, Latest
<1>2. /\ Len(offers) \in Nat \ {0} /\ offers[Len(offers)] \in OfferRow
      /\ offers' \in Seq(OfferRow) /\ Len(offers') = Len(offers)
      /\ offers'[Len(offers)] = r
      /\ \A i \in 1..Len(offers) : i # Len(offers) => offers'[i] = offers[i]
  BY <1>1, LastReplaced DEF NewestIs
<1>3. \A i \in 1..Len(offers) : i # Len(offers) => ~Pending(offers[i])
  BY DEF HandoverInv, OneOut
<1>4. offers' # <<>>
  BY <1>2
<1>5. Latest' = offers'[Len(offers)]
  BY <1>2 DEF Latest
<1>6. Latest \in OfferRow /\ Latest' = r
  BY <1>2, <1>5 DEF Latest
<1>7. \A i \in 1..Len(offers) : i # Len(offers) => offers'[i] = offers[i] /\ ~Pending(offers'[i])
  BY <1>2, <1>3
<1>8. Len(offers) \in 1..MaxOffers
  <2>1. Len(offers) \in Nat \ {0} /\ Len(offers) <= MaxOffers
    BY <1>1, <1>2
  <2> QED
    BY <2>1, HandoverAssumption
<1> QED
  BY <1>1, <1>2, <1>4, <1>6, <1>7, <1>8

\* Restored: what the item would wait for.
LEMMA RestoredIsWanted ==
  ASSUME HandoverInv, HasPending
  PROVE  Restored(Latest) \in Waits /\ (open => Restored(Latest) = wanted)
<1>1. Latest \in OfferRow
  BY LastReplaced DEF HandoverInv, HandoverTypeOK, HasPending, Latest
<1> QED
  BY <1>1 DEF HandoverInv, HandoverTypeOK, PriorKept, Restored, OfferRow, Waits

\* Tell changes one column, for the sessions it names.
LEMMA TellOne ==
  ASSUME told \in [Sessions -> [1..MaxOffers -> Stages]], NEW i \in 1..MaxOffers,
         NEW D, NEW stage \in [D -> Stages], Tell(i, stage)
  PROVE  /\ told' \in [Sessions -> [1..MaxOffers -> Stages]]
         /\ \A s \in Sessions : \A j \in 1..MaxOffers : j # i => told'[s][j] = told[s][j]
         /\ \A s \in Sessions : told'[s][i] = IF s \in D THEN stage[s] ELSE told[s][i]
<1>1. DOMAIN stage = D
  OBVIOUS
<1> QED
  BY <1>1 DEF Tell

\* An offer ends: the session it was made to is told, if it was told of it.
LEMMA SettleKeeps ==
  ASSUME HandoverInv, HasPending, NEW st \in OfferStates \ PendingStates,
         offers' = Settle(st), owner' \in Sessions, open' \in BOOLEAN,
         awaiting' \in Waits, wanted' \in Waits, open' => awaiting' = wanted',
         NEW D, NEW stage \in [D -> Stages \ {"offered", "nothing"}], Tell(Len(offers), stage),
         Latest.state = "offered" => Latest.to \in D
  PROVE  HandoverInv'
<1> DEFINE r == [Latest EXCEPT !.state = st]
           n == Len(offers)
<1>1. Latest \in OfferRow
  BY LastReplaced DEF HandoverInv, HandoverTypeOK, HasPending, Latest
<1>2. r \in OfferRow /\ r.state = st /\ r.to = Latest.to /\ ~Pending(r)
  BY <1>1 DEF OfferRow, Pending
<1>3. NewestIs(r)
  BY DEF Settle, Latest, NewestIs
<1>4. /\ n \in 1..MaxOffers
      /\ offers' \in Seq(OfferRow) /\ Len(offers') = n /\ Latest' = r
      /\ \A i \in 1..n : i # n => offers'[i] = offers[i] /\ ~Pending(offers'[i])
  <2> HIDE DEF r
  <2> QED
    BY <1>2, <1>3, NewestRow
<1>5. offers'[n] = r
  BY <1>4 DEF Latest
<1>6. told \in [Sessions -> [1..MaxOffers -> Stages]]
  BY DEF HandoverInv, HandoverTypeOK
<1>7. /\ told' \in [Sessions -> [1..MaxOffers -> Stages]]
      /\ \A s \in Sessions : \A j \in 1..MaxOffers : j # n => told'[s][j] = told[s][j]
      /\ \A s \in Sessions : told'[s][n] = IF s \in D THEN stage[s] ELSE told[s][n]
  <2>1. stage \in [D -> Stages]
    OBVIOUS
  <2> QED
    BY <1>4, <1>6, <2>1, TellOne
<1>8. HandoverTypeOK'
  BY <1>4, <1>7 DEF HandoverTypeOK
<1> HIDE DEF r
<1>9. OneOut'
  <2>1. Len(offers') <= MaxOffers
    BY <1>4, HandoverAssumption
  <2>2. ASSUME NEW i \in 1..Len(offers'), Pending(offers'[i])
        PROVE  i = Len(offers')
    BY <2>2, <1>2, <1>4, <1>5
  <2>3. ASSUME NEW s \in Sessions, NEW i \in 1..MaxOffers, i > Len(offers')
        PROVE  told'[s][i] = "nothing"
    <3>1. i # n /\ i > Len(offers)
      BY <2>3, <1>4, HandoverAssumption
    <3> QED
      BY <3>1, <1>7 DEF HandoverInv, OneOut
  <2> QED
    BY <2>1, <2>2, <2>3 DEF OneOut, Pending
<1>10. ~HasPending'
  BY <1>2, <1>4 DEF HasPending, Latest
<1>11. PriorKept'
  BY <1>10 DEF PriorKept
<1>12. Consented'
  BY <1>2, <1>4, <1>5 DEF Consented, HandoverInv, PendingStates
<1>13. NoStaleOffers'
  <2> SUFFICES ASSUME NEW s \in Sessions, NEW i \in 1..n, told'[s][i] = "offered", offers'[i].to = s
               PROVE  offers'[i].state = "offered"
    BY <1>4 DEF NoStaleOffers
  <2>1. CASE i # n
    <3>1. i \in 1..MaxOffers /\ i \in DOMAIN offers
      BY <1>4, HandoverAssumption DEF HandoverInv, HandoverTypeOK
    <3>2. offers[i] = offers'[i] /\ told[s][i] = "offered"
      BY <2>1, <3>1, <1>4, <1>7
    <3> QED
      BY <3>1, <3>2 DEF NoStaleOffers, HandoverInv
  <2>2. CASE i = n
    <3>1. s = Latest.to
      BY <2>2, <1>2, <1>5
    <3>2. s \notin D
      BY <2>2, <1>7
    <3>3. told[s][n] = "offered" /\ n \in DOMAIN offers
      BY <2>2, <3>2, <1>4, <1>7
    <3> QED
      BY <3>1, <3>2, <3>3 DEF NoStaleOffers, HandoverInv, Latest
  <2> QED
    BY <2>1, <2>2
<1> QED
  BY <1>8, <1>9, <1>11, <1>12, <1>13 DEF HandoverInv

\* A row of the newest offer changes in what no news is about.
LEMMA RowEdited ==
  ASSUME HandoverInv, HasPending, NEW r \in OfferRow, NewestIs(r),
         r.state = Latest.state, r.to = Latest.to, r.by = Latest.by, r.from = Latest.from,
         r.approved = Latest.approved, UNCHANGED told
  PROVE  OneOut' /\ Consented' /\ NoStaleOffers' /\ offers' \in Seq(OfferRow) /\ Latest' = r /\ HasPending'
<1> DEFINE n == Len(offers)
<1>1. /\ n \in 1..MaxOffers /\ Pending(Latest)
      /\ offers' \in Seq(OfferRow) /\ Len(offers') = n /\ Latest' = r
      /\ offers' # <<>>
      /\ \A i \in 1..n : i # n => offers'[i] = offers[i] /\ ~Pending(offers'[i])
  BY NewestRow
<1>2. offers'[n] = r /\ offers[n] = Latest /\ Pending(r)
  BY <1>1 DEF Latest, Pending
<1>3. DOMAIN offers = 1..n
  BY DEF HandoverInv, HandoverTypeOK
<1>4. \A i \in 1..n : /\ offers'[i].state = offers[i].state /\ offers'[i].to = offers[i].to
                        /\ offers'[i].by = offers[i].by /\ offers'[i].from = offers[i].from
                        /\ offers'[i].approved = offers[i].approved
  BY <1>1, <1>2
<1>5. OneOut'
  BY <1>1, <1>4 DEF OneOut, HandoverInv, Pending
<1>6. Consented'
  <2> SUFFICES ASSUME NEW i \in 1..n, offers'[i].state = "offered"
               PROVE  \/ offers'[i].by = "user" \/ offers'[i].approved
                      \/ ~NeedsUserTap(offers'[i].from, offers'[i].to)
    BY <1>1 DEF Consented, NeedsUserTap
  <2>1. \/ offers[i].state # "offered" \/ offers[i].by = "user" \/ offers[i].approved
        \/ ~NeedsUserTap(offers[i].from, offers[i].to)
    BY DEF Consented, HandoverInv
  <2> QED
    BY <1>4, <2>1
<1>7. NoStaleOffers'
  <2>0. DOMAIN offers' = 1..n
    <3>1. offers' \in Seq(OfferRow) /\ Len(offers') = n
      BY <1>1
    <3> QED
      BY <3>1
  <2> SUFFICES ASSUME NEW s \in Sessions, NEW i \in 1..n, told'[s][i] = "offered", offers'[i].to = s
               PROVE  offers'[i].state = "offered"
    BY <2>0 DEF NoStaleOffers
  <2>1. offers[i].to = s /\ i \in DOMAIN offers /\ told[s][i] = "offered"
    BY <1>3, <1>4
  <2>2. offers[i].state = "offered"
    BY <2>1 DEF NoStaleOffers, HandoverInv
  <2> QED
    BY <1>4, <2>2
<1>8. HasPending'
  BY <1>1, <1>2 DEF HasPending, Pending, Latest
<1> QED
  BY <1>1, <1>5, <1>6, <1>7, <1>8

-----------------------------------------------------------------------------
(* ItemHandover: its actions. *)

\* Offer: the question keeps what the item would wait for, and the session a
\* replaced offer was made to hears of its end.
LEMMA OfferKeeps ==
  ASSUME HandoverInv, NEW side \in Sides, NEW to \in Sessions, Offer(side, to)
  PROVE  HandoverInv'
<1> DEFINE m == Len(offers)
           before == IF HasPending THEN Restored(Latest) ELSE awaiting
           parked == side # "user" /\ NeedsUserTap(owner, to)
           h == [from |-> owner, to |-> to, by |-> side, state |-> IF parked THEN "awaiting_user" ELSE "offered",
                 prior |-> before, moved |-> FALSE, approved |-> FALSE, late |-> FALSE]
           n == m + 1
           heard == IF parked THEN {} ELSE {to} \cup (IF side = owner THEN {} ELSE {owner})
           oldHears == IF ~HasPending THEN {}
                       ELSE (IF Latest.state = "offered" THEN {Latest.to} ELSE {}) \cup (Offerer(Latest) \ {side})
           q == IF HasPending THEN Settle("withdrawn") ELSE offers
<1>0. /\ offers \in Seq(OfferRow) /\ m \in Nat /\ Len(offers) = m /\ m < MaxOffers /\ (m + 1) - 1 = m
      /\ DOMAIN offers = 1..m
  <2>1. offers \in Seq(OfferRow)
    BY DEF HandoverInv, HandoverTypeOK
  <2>2. Len(offers) < MaxOffers
    BY Zenon DEF Offer
  <2> QED
    BY <2>1, <2>2
<1>1. /\ open
      /\ offers' = Append(q, h)
      /\ awaiting' = IF parked THEN "user" ELSE before
      /\ told' = [s \in Sessions |-> [i \in 1..MaxOffers |->
             IF i = n /\ s \in heard THEN "offered"
             ELSE IF i = m /\ s \in oldHears THEN "withdrawn" ELSE told[s][i]]]
      /\ UNCHANGED <<owner, open, wanted>>
  BY <1>0 DEF Offer
<1>2. /\ offers \in Seq(OfferRow) /\ Len(offers) = m /\ m \in Nat /\ m < MaxOffers /\ n \in 1..MaxOffers
      /\ m # n
  <2> HIDE DEF m
  <2>1. m + 1 \in 1..MaxOffers /\ m # m + 1
    BY <1>0, HandoverAssumption
  <2> QED
    BY <1>0, <2>1
<1> HIDE DEF m
<1>3. before \in Waits /\ before = wanted
  <2>1. CASE HasPending
    BY <2>1, <1>1, RestoredIsWanted
  <2>2. CASE ~HasPending
    BY <2>2, <1>1 DEF HandoverInv, PriorKept, HandoverTypeOK
  <2> QED
    BY <2>1, <2>2
<1>4. h \in OfferRow
  BY <1>3 DEF OfferRow, OfferStates, PendingStates, HandoverInv, HandoverTypeOK, Sides
<1>5. /\ q \in Seq(OfferRow) /\ Len(q) = m
      /\ \A i \in 1..m : ~Pending(q[i]) /\ (i # m \/ ~HasPending => q[i] = offers[i])
      /\ HasPending => q[m].to = offers[m].to
  <2>1. CASE HasPending
    <3>1. offers # <<>> /\ Pending(Latest) /\ Latest = offers[m] /\ m \in 1..m /\ Latest \in OfferRow
      BY <2>1, <1>2, LastReplaced DEF HasPending, Latest
    <3> DEFINE r == [Latest EXCEPT !.state = "withdrawn"]
    <3>2. r \in OfferRow /\ r.to = Latest.to /\ ~Pending(r)
      BY <3>1 DEF OfferRow, OfferStates, Pending, PendingStates
    <3>3. q = [offers EXCEPT ![Len(offers)] = r]
      BY <2>1 DEF Settle, Latest
    <3> HIDE DEF r, q
    <3>4. /\ q \in Seq(OfferRow) /\ Len(q) = Len(offers) /\ q[Len(offers)] = r
          /\ \A i \in 1..Len(offers) : i # Len(offers) => q[i] = offers[i]
      <4> HIDE DEF OfferRow
      <4> QED
        BY <1>2, <3>1, <3>2, <3>3, LastReplaced
    <3>5. \A i \in 1..m : i # m => ~Pending(offers[i])
      BY <1>2 DEF HandoverInv, OneOut
    <3>6. q[m] = r
      BY <3>4, <1>2
    <3>7. ASSUME NEW i \in 1..m
          PROVE  ~Pending(q[i]) /\ (i # m \/ ~HasPending => q[i] = offers[i])
      BY <2>1, <1>2, <3>2, <3>4, <3>5, <3>6
    <3> QED
      BY <1>2, <3>1, <3>2, <3>4, <3>6, <3>7
  <2>2. CASE ~HasPending
    <3>1. \A i \in 1..m : i # m => ~Pending(offers[i])
      BY <1>2 DEF HandoverInv, OneOut
    <3>2. m # 0 => offers # <<>> /\ ~Pending(offers[m])
      BY <2>2, <1>2 DEF HasPending, Latest
    <3>3. \A i \in 1..m : ~Pending(offers[i])
      BY <3>1, <3>2, <1>2
    <3>4. q = offers
      BY <2>2
    <3> HIDE DEF q
    <3> QED
      BY <2>2, <3>3, <3>4, <1>2
  <2> QED
    BY <2>1, <2>2
<1> HIDE DEF q
<1>6. /\ offers' \in Seq(OfferRow) /\ Len(offers') = n /\ offers'[n] = h
      /\ \A i \in 1..m : offers'[i] = q[i]
      /\ offers' # <<>>
  <2>1. offers' = Append(q, h)
    BY <1>1
  <2> HIDE DEF h
  <2> QED
    BY <2>1, <1>2, <1>4, <1>5, RowAppended
<1>7. \A s \in Sessions : \A i \in 1..MaxOffers : told[s][i] \in Stages
  BY DEF HandoverInv, HandoverTypeOK
<1>8. HandoverTypeOK'
  <2>1. told' \in [Sessions -> [1..MaxOffers -> Stages]]
    BY <1>1, <1>7 DEF Stages
  <2>2. awaiting' \in Waits
    BY <1>1, <1>3 DEF Waits
  <2> QED
    BY <2>1, <2>2, <1>1, <1>6 DEF HandoverTypeOK, HandoverInv
<1>9. Latest' = h
  BY <1>6 DEF Latest
<1> HIDE DEF heard, oldHears
<1>10. OneOut'
  <2>1. ASSUME NEW i \in 1..n, Pending(offers'[i])
        PROVE  i = n
    <3>1. i # n => i \in 1..m
      BY <1>2
    <3> QED
      BY <2>1, <3>1, <1>5, <1>6
  <2>2. ASSUME NEW s \in Sessions, NEW i \in 1..MaxOffers, i > n
        PROVE  told'[s][i] = "nothing"
    <3>1. i # n /\ i # m /\ i > Len(offers)
      BY <2>2, <1>2, HandoverAssumption
    <3>2. told'[s][i] = told[s][i]
      BY <3>1, <1>1
    <3> QED
      BY <3>1, <3>2 DEF HandoverInv, OneOut
  <2>3. Len(offers') = n /\ n <= MaxOffers
    BY <1>2, <1>6, HandoverAssumption
  <2> HIDE DEF n
  <2> QED
    BY <2>1, <2>2, <2>3 DEF OneOut, Pending
<1>11. PriorKept'
  <2>1. Latest'.prior = wanted' /\ ~Latest'.moved /\ (Latest'.state = "awaiting_user" => parked)
    BY <1>1, <1>3, <1>9
  <2>2. parked => awaiting' = "user" /\ Latest'.state = "awaiting_user"
    BY <1>1, <1>9
  <2>3. ~parked => awaiting' = wanted'
    BY <1>1, <1>3
  <2>4. HasPending'
    <3>1. Pending(h) /\ offers' # <<>>
      BY <1>6 DEF Pending, PendingStates
    <3> QED
      BY <3>1, <1>9 DEF HasPending, Latest, Pending
  <2> HIDE DEF parked
  <2> QED
    BY <2>1, <2>2, <2>3, <2>4 DEF PriorKept
<1>12. Consented'
  <2> SUFFICES ASSUME NEW i \in 1..n, offers'[i].state = "offered"
               PROVE  \/ offers'[i].by = "user" \/ offers'[i].approved
                      \/ ~NeedsUserTap(offers'[i].from, offers'[i].to)
    BY <1>6 DEF Consented, NeedsUserTap
  <2>1. i = n
    <3>1. i # n => i \in 1..m
      BY <1>2
    <3>2. Pending(offers'[i])
      BY DEF Pending, PendingStates
    <3> QED
      BY <3>1, <3>2, <1>5, <1>6
  <2> QED
    BY <2>1, <1>6
<1>13. NoStaleOffers'
  <2> SUFFICES ASSUME NEW s \in Sessions, NEW i \in 1..n, told'[s][i] = "offered", offers'[i].to = s
               PROVE  offers'[i].state = "offered"
    BY <1>6 DEF NoStaleOffers
  <2>0. i \in 1..MaxOffers
    BY <1>2, HandoverAssumption
  <2>1. CASE i = n
    <3>1. CASE parked
      <4>1. s \notin heard /\ i # m /\ i > Len(offers)
        <5>1. heard = {}
          BY <3>1 DEF heard
        <5> QED
          BY <5>1, <2>1, <1>2
      <4>2. told'[s][i] = told[s][i]
        BY <4>1, <2>0, <1>1
      <4>3. told[s][i] = "nothing"
        BY <4>1, <2>0 DEF HandoverInv, OneOut
      <4> QED
        BY <4>2, <4>3
    <3>2. CASE ~parked
      BY <2>1, <3>2, <1>6
    <3> QED
      BY <3>1, <3>2
  <2>2. CASE i # n
    <3>1. i \in 1..m /\ i \in DOMAIN offers
      BY <2>2, <1>2
    <3>2. told[s][i] = "offered" /\ ~(i = m /\ s \in oldHears)
      BY <2>2, <2>0, <1>1
    <3>3. CASE i = m /\ HasPending
      <4>1. Latest = offers[i] /\ Latest.to = s
        BY <3>1, <3>3, <1>2, <1>5, <1>6 DEF Latest
      <4>2. offers[i].state = "offered"
        BY <3>1, <3>2, <4>1 DEF HandoverInv, NoStaleOffers
      <4>3. s \in oldHears
        BY <4>1, <4>2, <3>3 DEF oldHears
      <4> QED
        BY <4>3, <3>2, <3>3
    <3>4. CASE i # m \/ ~HasPending
      <4>1. offers'[i] = offers[i]
        BY <3>1, <3>4, <1>5, <1>6
      <4> QED
        BY <4>1, <3>1, <3>2 DEF HandoverInv, NoStaleOffers
    <3> QED
      BY <3>3, <3>4
  <2> QED
    BY <2>1, <2>2
<1> QED
  BY <1>8, <1>10, <1>11, <1>12, <1>13 DEF HandoverInv

\* Approve: the question is over and the offer is out.
LEMMA ApproveKeeps ==
  ASSUME HandoverInv, Approve
  PROVE  HandoverInv'
<1> DEFINE n == Len(offers)
           r == [Latest EXCEPT !.state = "offered", !.approved = TRUE]
           D == {Latest.from, Latest.to} \cup Offerer(Latest)
           stage == [s \in D |-> IF s = Latest.to THEN "offered" ELSE "approved"]
<1>1. HasPending /\ Latest.state = "awaiting_user" /\ open /\ UNCHANGED <<owner, open, wanted>>
  BY DEF Approve
<1>2. Latest \in OfferRow
  BY <1>1, LastReplaced DEF HandoverInv, HandoverTypeOK, HasPending, Latest
<1>3. r \in OfferRow /\ r.state = "offered" /\ r.approved = TRUE /\ Pending(r)
  BY <1>2 DEF OfferRow, OfferStates, Pending, PendingStates
<1>4. NewestIs(r)
  <2>1. offers \in Seq(OfferRow) /\ Len(offers) \in DOMAIN offers
    BY <1>1, LastReplaced DEF HandoverInv, HandoverTypeOK, HasPending
  <2>2. offers' = [offers EXCEPT ![Len(offers)].state = "offered", ![Len(offers)].approved = TRUE]
    BY DEF Approve
  <2> QED
    BY <2>1, <2>2 DEF Latest, NewestIs
<1>5. Tell(Len(offers), stage) /\ awaiting' = Restored(Latest)
  BY DEF Approve
<1> HIDE DEF r
<1>6. /\ n \in 1..MaxOffers
      /\ offers' \in Seq(OfferRow) /\ Len(offers') = n /\ Latest' = r
      /\ offers' # <<>>
      /\ \A i \in 1..n : i # n => offers'[i] = offers[i] /\ ~Pending(offers'[i])
  BY <1>1, <1>3, <1>4, NewestRow
<1>7. offers'[n] = r
  BY <1>6 DEF Latest
<1>8. told \in [Sessions -> [1..MaxOffers -> Stages]]
  BY DEF HandoverInv, HandoverTypeOK
<1>9. /\ told' \in [Sessions -> [1..MaxOffers -> Stages]]
      /\ \A s \in Sessions : \A j \in 1..MaxOffers : j # n => told'[s][j] = told[s][j]
  <2>1. stage \in [D -> Stages]
    BY DEF Stages
  <2> HIDE DEF stage, D
  <2> QED
    BY <1>5, <1>6, <1>8, <2>1, TellOne
<1>10. awaiting' \in Waits /\ awaiting' = wanted'
  BY <1>1, <1>5, RestoredIsWanted
<1>11. HandoverTypeOK'
  BY <1>1, <1>6, <1>9, <1>10 DEF HandoverTypeOK, HandoverInv
<1>12. OneOut'
  <2>1. Len(offers') <= MaxOffers
    BY <1>6, HandoverAssumption
  <2>2. ASSUME NEW i \in 1..Len(offers'), Pending(offers'[i])
        PROVE  i = Len(offers')
    BY <2>2, <1>6
  <2>3. ASSUME NEW s \in Sessions, NEW i \in 1..MaxOffers, i > Len(offers')
        PROVE  told'[s][i] = "nothing"
    <3>1. i # n /\ i > Len(offers)
      BY <2>3, <1>6, HandoverAssumption
    <3> QED
      BY <3>1, <1>9 DEF HandoverInv, OneOut
  <2> QED
    BY <2>1, <2>2, <2>3 DEF OneOut, Pending
<1>13. PriorKept'
  BY <1>3, <1>6, <1>10 DEF PriorKept
<1>14. Consented'
  BY <1>3, <1>6, <1>7 DEF Consented, HandoverInv, NeedsUserTap
<1>15. NoStaleOffers'
  <2> SUFFICES ASSUME NEW s \in Sessions, NEW i \in 1..n, told'[s][i] = "offered", offers'[i].to = s
               PROVE  offers'[i].state = "offered"
    BY <1>6 DEF NoStaleOffers
  <2>1. CASE i # n
    <3>1. i \in 1..MaxOffers /\ i \in DOMAIN offers
      BY <1>6, HandoverAssumption DEF HandoverInv, HandoverTypeOK
    <3>2. offers[i] = offers'[i] /\ told[s][i] = "offered"
      BY <2>1, <3>1, <1>6, <1>9
    <3> QED
      BY <3>1, <3>2 DEF NoStaleOffers, HandoverInv
  <2>2. CASE i = n
    BY <2>2, <1>3, <1>7
  <2> QED
    BY <2>1, <2>2
<1> QED
  BY <1>11, <1>12, <1>13, <1>14, <1>15 DEF HandoverInv

\* Keep, Decline, Sweep: the offer ends and the item stops waiting on it.
LEMMA EndKeeps ==
  ASSUME HandoverInv, NEW st \in OfferStates \ PendingStates, HasPending,
         offers' = Settle(st), awaiting' = Restored(Latest), UNCHANGED <<owner, open, wanted>>,
         NEW D, NEW stage \in [D -> Stages \ {"offered", "nothing"}], Tell(Len(offers), stage),
         Latest.state = "offered" => Latest.to \in D
  PROVE  HandoverInv'
<1>1. /\ owner' \in Sessions /\ open' \in BOOLEAN /\ awaiting' \in Waits /\ wanted' \in Waits
      /\ open' => awaiting' = wanted'
  BY RestoredIsWanted DEF HandoverInv, HandoverTypeOK
<1> QED
  BY <1>1, SettleKeeps

\* One action each of an offer's end.
LEMMA EndsKeep ==
  ASSUME HandoverInv, Keep \/ Accept \/ Decline \/ Sweep \/ (\E side \in Sides : Withdraw(side)) \/ CloseItem
  PROVE  HandoverInv'
<1> DEFINE News == Stages \ {"offered", "nothing"}
<1>1. CASE Keep
  <2> DEFINE D == {Latest.from} \cup Offerer(Latest)
             stage == [s \in D |-> "refused"]
  <2>1. stage \in [D -> News] /\ "refused" \in OfferStates \ PendingStates
    BY DEF Stages, OfferStates, PendingStates
  <2>2. /\ HasPending /\ Latest.state # "offered" /\ offers' = Settle("refused") /\ awaiting' = Restored(Latest)
        /\ Tell(Len(offers), stage) /\ UNCHANGED <<owner, open, wanted>>
    BY <1>1 DEF Keep
  <2> HIDE DEF D, stage
  <2> QED
    BY <2>1, <2>2, EndKeeps
<1>2. CASE Decline
  <2> DEFINE D == {Latest.from, Latest.to} \cup Offerer(Latest)
             stage == [s \in D |-> "declined"]
  <2>1. stage \in [D -> News] /\ "declined" \in OfferStates \ PendingStates /\ Latest.to \in D
    BY DEF Stages, OfferStates, PendingStates
  <2>2. /\ HasPending /\ offers' = Settle("declined") /\ awaiting' = Restored(Latest)
        /\ Tell(Len(offers), stage) /\ UNCHANGED <<owner, open, wanted>>
    BY <1>2 DEF Decline, Both
  <2> HIDE DEF D, stage
  <2> QED
    BY <2>1, <2>2, EndKeeps
<1>3. CASE Sweep
  <2> DEFINE D == {Latest.from} \cup Offerer(Latest) \cup (IF Latest.state = "offered" THEN {Latest.to} ELSE {})
             stage == [s \in D |-> "expired"]
  <2>1. /\ stage \in [D -> News] /\ "expired" \in OfferStates \ PendingStates
        /\ Latest.state = "offered" => Latest.to \in D
    BY DEF Stages, OfferStates, PendingStates
  <2>2. /\ HasPending /\ offers' = Settle("expired") /\ awaiting' = Restored(Latest)
        /\ Tell(Len(offers), stage) /\ UNCHANGED <<owner, open, wanted>>
    BY <1>3 DEF Sweep, Ended
  <2> HIDE DEF D, stage
  <2> QED
    BY <2>1, <2>2, EndKeeps
<1>4. CASE Accept
  <2> DEFINE D == {Latest.from, Latest.to} \cup Offerer(Latest)
             stage == [s \in D |-> "accepted"]
  <2>1. stage \in [D -> News] /\ "accepted" \in OfferStates \ PendingStates /\ Latest.to \in D
    BY DEF Stages, OfferStates, PendingStates
  <2>2. /\ HasPending /\ open /\ Latest.state = "offered" /\ owner' = Latest.to /\ offers' = Settle("accepted")
        /\ Tell(Len(offers), stage) /\ UNCHANGED <<open, awaiting, wanted>>
    BY <1>4 DEF Accept, Both, Answerable
  <2>3. Latest \in OfferRow
    BY <2>2, LastReplaced DEF HandoverInv, HandoverTypeOK, HasPending, Latest
  <2>4. /\ owner' \in Sessions /\ open' \in BOOLEAN /\ awaiting' \in Waits /\ wanted' \in Waits
        /\ awaiting' = wanted'
    BY <2>2, <2>3 DEF OfferRow, HandoverInv, HandoverTypeOK, PriorKept
  <2> HIDE DEF D, stage
  <2> QED
    BY <2>1, <2>2, <2>4, SettleKeeps
<1>5. CASE \E side \in Sides : Withdraw(side)
  <2> DEFINE D == {Latest.from} \cup Offerer(Latest) \cup (IF Latest.state = "offered" THEN {Latest.to} ELSE {})
             stage == [s \in D |-> "withdrawn"]
  <2>1. /\ stage \in [D -> News] /\ "withdrawn" \in OfferStates \ PendingStates
        /\ Latest.state = "offered" => Latest.to \in D
    BY DEF Stages, OfferStates, PendingStates
  <2>2. /\ HasPending /\ offers' = Settle("withdrawn") /\ awaiting' = Restored(Latest)
        /\ Tell(Len(offers), stage) /\ UNCHANGED <<owner, open, wanted>>
    BY <1>5 DEF Withdraw, Withdrawn, Ended
  <2> HIDE DEF D, stage
  <2> QED
    BY <2>1, <2>2, EndKeeps
<1>6. CASE CloseItem
  <2>1. open' = FALSE /\ awaiting' = "none" /\ wanted' = "none" /\ owner' = owner
    BY <1>6 DEF CloseItem
  <2>2. CASE UNCHANGED <<offers, told>>
    BY <2>1, <2>2 DEF HandoverInv, HandoverTypeOK, OneOut, PriorKept, Consented, NoStaleOffers, Waits,
                      Pending, NeedsUserTap
  <2>3. CASE HasPending /\ offers' = Settle("withdrawn") /\ Tell(Len(offers), Ended(Latest, "withdrawn"))
    <3> DEFINE D == {Latest.from} \cup Offerer(Latest) \cup (IF Latest.state = "offered" THEN {Latest.to} ELSE {})
               stage == [s \in D |-> "withdrawn"]
    <3>1. /\ stage \in [D -> News] /\ "withdrawn" \in OfferStates \ PendingStates
          /\ Latest.state = "offered" => Latest.to \in D
      BY DEF Stages, OfferStates, PendingStates
    <3>2. Tell(Len(offers), stage)
      BY <2>3 DEF Ended
    <3>3. /\ owner' \in Sessions /\ open' \in BOOLEAN /\ awaiting' \in Waits /\ wanted' \in Waits
          /\ open' => awaiting' = wanted'
      BY <2>1 DEF HandoverInv, HandoverTypeOK, Waits
    <3> HIDE DEF D, stage
    <3> QED
      BY <2>3, <3>1, <3>2, <3>3, SettleKeeps
  <2> QED
    BY <1>6, <2>2, <2>3 DEF CloseItem
<1> QED
  BY <1>1, <1>2, <1>3, <1>4, <1>5, <1>6

\* UserSpeaks, AgentAsks, Set, ReopenItem: the item waits for somebody else,
\* and a question that is out is marked as spoken over.
LEMMA SpeakingKeeps ==
  ASSUME HandoverInv, UserSpeaks \/ AgentAsks
  PROVE  HandoverInv'
<1>1. /\ open' \in BOOLEAN /\ owner' = owner /\ told' = told /\ offers' = Moved
      /\ awaiting' = wanted' /\ awaiting' \in {"user", "agent"} /\ (awaiting' = "user" => AgentAsks)
  BY DEF UserSpeaks, AgentAsks, HandoverInv, HandoverTypeOK
<1>2. CASE ~HasPending
  <2>1. offers' = offers
    BY <1>1, <1>2 DEF Moved
  <2> QED
    BY <1>1, <1>2, <2>1 DEF HandoverInv, HandoverTypeOK, OneOut, PriorKept, Consented, NoStaleOffers, Waits,
                            Pending, NeedsUserTap, HasPending, Latest
<1>3. CASE HasPending
  <2> DEFINE r == [Latest EXCEPT !.moved = @ \/ Latest.state = "awaiting_user"]
  <2>1. Latest \in OfferRow
    BY <1>3, LastReplaced DEF HandoverInv, HandoverTypeOK, HasPending, Latest
  <2>2. /\ r \in OfferRow /\ r.state = Latest.state /\ r.to = Latest.to /\ r.by = Latest.by
        /\ r.from = Latest.from /\ r.approved = Latest.approved
        /\ r.state = "awaiting_user" => r.moved
    BY <2>1 DEF OfferRow
  <2>3. NewestIs(r)
    BY <1>1, <1>3 DEF Moved, Latest, NewestIs
  <2> HIDE DEF r
  <2>4. OneOut' /\ Consented' /\ NoStaleOffers' /\ offers' \in Seq(OfferRow) /\ Latest' = r /\ HasPending'
    BY <1>1, <1>3, <2>2, <2>3, RowEdited
  <2>5. PriorKept'
    BY <1>1, <2>2, <2>4 DEF PriorKept
  <2> QED
    BY <1>1, <2>4, <2>5 DEF HandoverInv, HandoverTypeOK, Waits
<1> QED
  BY <1>2, <1>3

\* What leaves the offers alone, and the clock.
LEMMA RestKeeps ==
  ASSUME HandoverInv, ReopenItem \/ (\E whom \in {"user", "none"} : Set(whom)) \/ RunOut
  PROVE  HandoverInv'
<1>1. CASE ReopenItem
  BY <1>1 DEF ReopenItem, HandoverInv, HandoverTypeOK, OneOut, PriorKept, Consented, NoStaleOffers, Waits,
              Pending, NeedsUserTap, HasPending, Latest
<1>2. CASE \E whom \in {"user", "none"} : Set(whom)
  <2>1. PICK whom \in {"user", "none"} : Set(whom)
    BY <1>2
  <2>2. UNCHANGED <<owner, open, offers, told>> /\ open /\ awaiting' = whom
    BY <2>1 DEF Set
  <2>3. wanted' \in Waits /\ PriorKept'
    <3>1. CASE Questioned /\ whom = "user"
      <4>1. Latest \in OfferRow
        BY <3>1, LastReplaced DEF HandoverInv, HandoverTypeOK, HasPending, Latest, Questioned
      <4> QED
        BY <2>1, <2>2, <3>1, <4>1 DEF Set, PriorKept, Questioned, HasPending, Latest, OfferRow
    <3>2. CASE ~(Questioned /\ whom = "user")
      BY <2>1, <2>2, <3>2 DEF Set, PriorKept, Questioned, HasPending, Latest, Waits
    <3> QED
      BY <3>1, <3>2
  <2> QED
    BY <2>2, <2>3 DEF HandoverInv, HandoverTypeOK, OneOut, Consented, NoStaleOffers, Waits, Pending, NeedsUserTap
<1>3. CASE RunOut
  <2> DEFINE r == [Latest EXCEPT !.late = TRUE]
  <2>1. HasPending /\ UNCHANGED <<owner, open, awaiting, wanted, told>>
    BY <1>3 DEF RunOut
  <2>2. Latest \in OfferRow
    BY <2>1, LastReplaced DEF HandoverInv, HandoverTypeOK, HasPending, Latest
  <2>3. /\ r \in OfferRow /\ r.state = Latest.state /\ r.to = Latest.to /\ r.by = Latest.by
        /\ r.from = Latest.from /\ r.approved = Latest.approved
        /\ r.moved = Latest.moved /\ r.prior = Latest.prior
    BY <2>2 DEF OfferRow
  <2>4. NewestIs(r)
    BY <1>3 DEF RunOut, Latest, NewestIs
  <2> HIDE DEF r
  <2>5. OneOut' /\ Consented' /\ NoStaleOffers' /\ offers' \in Seq(OfferRow) /\ Latest' = r /\ HasPending'
    BY <2>1, <2>3, <2>4, RowEdited
  <2>6. PriorKept'
    BY <2>1, <2>3, <2>5 DEF PriorKept, HandoverInv
  <2> QED
    BY <2>1, <2>5, <2>6 DEF HandoverInv, HandoverTypeOK
<1> QED
  BY <1>1, <1>2, <1>3

-----------------------------------------------------------------------------
(* ItemHandover: the theorems. *)

\* The inductive invariant of the handovers.
THEOREM HandoverIsKept == HandoverInit /\ [][HandoverNext]_handoverVars => []HandoverInv
<1>1. HandoverInit => HandoverInv
  BY HandoverAssumption DEF HandoverInit, HandoverInv, HandoverTypeOK, OneOut, PriorKept, Consented,
     NoStaleOffers, HasPending, Waits, Stages
<1>2. HandoverInv /\ [HandoverNext]_handoverVars => HandoverInv'
  <2> SUFFICES ASSUME HandoverInv, [HandoverNext]_handoverVars
               PROVE  HandoverInv'
    OBVIOUS
  <2>1. CASE UNCHANGED handoverVars
    BY <2>1 DEF handoverVars, HandoverInv, HandoverTypeOK, OneOut, PriorKept, Consented, NoStaleOffers,
                Pending, NeedsUserTap, HasPending, Latest
  <2>2. CASE \E side \in Sides, to \in Sessions : Offer(side, to)
    BY <2>2, OfferKeeps
  <2>3. CASE Approve
    BY <2>3, ApproveKeeps
  <2>4. CASE Keep \/ Accept \/ Decline \/ Sweep \/ (\E side \in Sides : Withdraw(side)) \/ CloseItem
    BY <2>4, EndsKeep
  <2>5. CASE UserSpeaks \/ AgentAsks
    BY <2>5, SpeakingKeeps
  <2>6. CASE ReopenItem \/ (\E whom \in {"user", "none"} : Set(whom)) \/ RunOut
    BY <2>6, RestKeeps
  <2> QED
    BY <2>1, <2>2, <2>3, <2>4, <2>5, <2>6 DEF HandoverNext
<1> QED
  BY <1>1, <1>2, PTL

LEMMA HandoverSettles == HandoverInv => OffersSettled
  BY DEF HandoverInv, PriorKept, OffersSettled, AwaitingRestored

\* An offer that is over leaves nobody waiting for it: neither the item nor
\* the session it was made to (settleHandover, restoreAwaiting).
THEOREM OffersAreSettled == HandoverSpec => []OffersSettled
<1> QED
  BY HandoverSettles, HandoverIsKept, PTL DEF HandoverSpec

\* An item changes hands only to the session a live offer of its present
\* owner names, consented to where a guarded session is on either side
\* (acceptHandover).
THEOREM OwnersConsent == HandoverSpec => OwnerByConsent
<1> DEFINE Consent == owner' # owner => \E i \in DOMAIN offers :
             LET h == offers[i] IN
               /\ h.from = owner /\ h.to = owner' /\ h.state = "offered" /\ ~h.late
               /\ h.by = "user" \/ h.approved \/ ~NeedsUserTap(owner, owner')
<1>1. HandoverInv /\ [HandoverNext]_handoverVars => [Consent]_handoverVars
  <2> SUFFICES ASSUME HandoverInv, HandoverNext, owner' # owner
               PROVE  Consent
    BY DEF handoverVars
  <2>1. Accept
    BY DEF HandoverNext, Offer, Withdraw, Approve, Keep, Decline, CloseItem, ReopenItem, UserSpeaks,
           AgentAsks, Set, RunOut, Sweep
  <2>2. Len(offers) \in 1..Len(offers) /\ Len(offers) \in DOMAIN offers
    BY <2>1, LastReplaced DEF Accept, HasPending, HandoverInv, HandoverTypeOK
  <2>3. /\ Latest.from = owner /\ Latest.to = owner' /\ Latest.state = "offered" /\ ~Latest.late
    BY <2>1 DEF Accept, Answerable
  <2>4. Latest.by = "user" \/ Latest.approved \/ ~NeedsUserTap(Latest.from, Latest.to)
    BY <2>2, <2>3 DEF HandoverInv, Consented, Latest
  <2> QED
    BY <2>2, <2>3, <2>4 DEF Latest
<1> QED
  BY <1>1, HandoverIsKept, PTL DEF HandoverSpec, OwnerByConsent
-----------------------------------------------------------------------------
(* Sets of positions have a last one. *)

\* A set of naturals has a least member.
LEMMA LeastNatural ==
  ASSUME NEW D \in SUBSET Nat, D # {}
  PROVE  \E d \in D : \A k \in D : d <= k
<1> DEFINE R == OpToRel(<, Nat)
<1>1. IsWellFoundedOn(R, Nat)
  BY NatLessThanWellFounded
<1>2. \A x, y \in Nat : x < y => <<x, y>> \in R
  BY DEF OpToRel
<1> HIDE DEF R
<1>3. PICK d \in D : \A k \in D : ~(<<k, d>> \in R)
  BY <1>1, WFMin
<1>4. \A k \in D : ~(k < d) /\ k \in Nat /\ d \in Nat
  BY <1>2, <1>3
<1> QED
  BY <1>4

\* Max finds the last of a set of positions.
LEMMA LastPosition ==
  ASSUME NEW n \in Nat, NEW S \in SUBSET (0..n), S # {}
  PROVE  Max(S) \in S
<1> DEFINE D == {n - x : x \in S}
<1>1. D \in SUBSET Nat
  OBVIOUS
<1>2. D # {}
  OBVIOUS
<1>3. PICK d \in D : \A k \in D : d <= k
  <2> HIDE DEF D
  <2> QED
    BY <1>1, <1>2, LeastNatural
<1>4. PICK x \in S : d = n - x
  BY <1>3
<1>5. \A y \in S : x >= y
  <2> SUFFICES ASSUME NEW y \in S
               PROVE  x >= y
    OBVIOUS
  <2>1. n - y \in D /\ d <= n - y
    BY <1>3
  <2>2. n - x <= n - y /\ x \in Int /\ y \in Int
    BY <2>1, <1>4
  <2> QED
    BY <2>2
<1>6. \E z \in S : \A y \in S : z >= y
  BY <1>5
<1> QED
  BY <1>6 DEF Max

\* A row of a table is replaced, if there is one at that place.
LEMMA RowReplaced ==
  ASSUME NEW R, NEW q \in Seq(R), NEW k, NEW r, k \in 1..Len(q) => r \in R
  PROVE  LET t == [q EXCEPT ![k] = r] IN
         /\ t \in Seq(R) /\ Len(t) = Len(q)
         /\ \A i \in 1..Len(q) : t[i] = IF i = k THEN r ELSE q[i]
<1> DEFINE t == [q EXCEPT ![k] = r]
<1>1. Len(q) \in Nat /\ DOMAIN q = 1..Len(q)
  OBVIOUS
<1>2. \A i \in 1..Len(q) : q[i] \in R
  OBVIOUS
<1>3. t = [i \in 1..Len(q) |-> IF i = k THEN r ELSE q[i]]
  BY <1>1
<1> HIDE DEF t
<1>4. t \in [1..Len(q) -> R]
  BY <1>2, <1>3
<1>5. t \in Seq(R) /\ Len(t) = Len(q)
  BY <1>1, <1>4
<1>6. t \in Seq(R) /\ Len(t) = Len(q) /\ \A i \in 1..Len(q) : t[i] = IF i = k THEN r ELSE q[i]
  BY <1>3, <1>5
<1> QED
  BY <1>6 DEF t

-----------------------------------------------------------------------------
(* ItemThread: the inductive invariant. *)

Chosens == Labels \cup {None}
Posts == {"marker", "fallback", "update", "card"}
ThreadRow == [author : {"user", "agent"}, tap : Chosens, to : Nat, asks : SUBSET Labels, chosen : Chosens,
              gone : BOOLEAN, voice : {"none", "pending", "bare", "done", "failed"},
              by : {"none", "journal", "agent"}, held : {"no", "held", "sent", "dropped"},
              told : Nat, posts : SUBSET Posts]
ItemRow == [kind : {"none", "task", "notice"}, state : {"none", "open", "closed"},
            awaiting : {"none", "user", "agent"}, offers : SUBSET Labels, chosen : Chosens]

ThreadTypeOK == item \in ItemRow /\ thread \in Seq(ThreadRow)

\* A comment answers an earlier one, is told once, and once it is withdrawn its
\* turn is dropped, so that the bridge posts nothing more for it.
SoundRow(c, i) ==
  /\ c.to < i /\ c.told <= 1
  /\ c.gone => c.held = "dropped" /\ c.posts = {}
  /\ c.held = "held" => c.author = "user"

\* The tap of a reply that stands.
TapStands(c, label, to) == c.author = "user" /\ ~c.gone /\ c.tap = label /\ c.to = to
Tapped(label, to) == \E i \in 1..Len(thread) : TapStands(thread[i], label, to)

ThreadInv ==
  /\ ThreadTypeOK
  /\ \A i \in 1..Len(thread) : SoundRow(thread[i], i)
  /\ item.chosen # None => item.chosen \in item.offers /\ Tapped(item.chosen, 0)
  /\ \A q \in 1..Len(thread) : thread[q].chosen # None => Tapped(thread[q].chosen, q)

\* What may happen to a comment without its answers being touched.
Alters(c, d) ==
  /\ d.author = c.author /\ d.tap = c.tap /\ d.to = c.to /\ d.chosen = c.chosen /\ d.gone = c.gone
  /\ d.told = c.told
  /\ c.gone => d.held = "dropped" /\ d.posts = {}
  /\ d.held = "held" => d.author = "user"

\* A comment changes in its place.
RowIs(k, r) == thread' = [thread EXCEPT ![k] = r]

\* A comment that only changes the way comments may leaves the thread as promised.
LEMMA RowAlters ==
  ASSUME ThreadInv, NEW k, NEW r, RowIs(k, r), item' = item,
         k \in 1..Len(thread) => r \in ThreadRow /\ Alters(thread[k], r)
  PROVE  ThreadInv'
<1> DEFINE n == Len(thread)
<1>1. thread \in Seq(ThreadRow) /\ n \in Nat
  BY DEF ThreadInv, ThreadTypeOK
<1>2. thread' \in Seq(ThreadRow) /\ Len(thread') = n /\ \A i \in 1..n : thread'[i] = IF i = k THEN r ELSE thread[i]
  <2>1. thread' = [thread EXCEPT ![k] = r]
    BY DEF RowIs
  <2> QED
    BY <1>1, <2>1, RowReplaced
<1>3. \A i \in 1..n : /\ thread'[i].author = thread[i].author /\ thread'[i].tap = thread[i].tap
                      /\ thread'[i].to = thread[i].to /\ thread'[i].gone = thread[i].gone
                      /\ thread'[i].chosen = thread[i].chosen
  BY <1>2 DEF Alters
<1>4. ASSUME NEW i \in 1..n
      PROVE  SoundRow(thread'[i], i)
  <2>1. SoundRow(thread[i], i)
    BY DEF ThreadInv
  <2> QED
    BY <2>1, <1>2 DEF Alters, SoundRow
<1>5. ASSUME NEW label, NEW to, Tapped(label, to)
      PROVE  Tapped(label, to)'
  BY <1>2, <1>3, <1>5 DEF Tapped, TapStands
<1>6. item'.chosen # None => item'.chosen \in item'.offers /\ Tapped(item.chosen, 0)'
  BY <1>5 DEF ThreadInv
<1>7. \A q \in 1..n : thread'[q].chosen # None => Tapped(thread[q].chosen, q)'
  BY <1>3, <1>5 DEF ThreadInv
<1> QED
  BY <1>2, <1>3, <1>4, <1>6, <1>7 DEF ThreadInv, ThreadTypeOK, Tapped, TapStands

-----------------------------------------------------------------------------
(* ItemThread: its actions. *)

\* Updated, Finish: a transcript leaves the answers alone, and says nothing of
\* a withdrawn comment.
LEMMA UpdatedAlters ==
  ASSUME NEW c \in ThreadRow, c.gone => c.held = "dropped" /\ c.posts = {}, c.held = "held" => c.author = "user",
         NEW got \in BOOLEAN
  PROVE  /\ Finish(c, got) \in ThreadRow /\ Alters(c, Finish(c, got))
         /\ Updated(Finish(c, got)) \in ThreadRow /\ Alters(c, Updated(Finish(c, got)))
         /\ Updated(ByAgent(c)) \in ThreadRow /\ Alters(c, Updated(ByAgent(c)))
<1> DEFINE d == ByAgent(c)
<1>1. /\ Finish(c, got) \in ThreadRow /\ Alters(c, Finish(c, got))
      /\ Finish(c, got).gone = c.gone /\ Finish(c, got).posts = c.posts /\ Finish(c, got).held = c.held
  BY DEF Finish, ThreadRow, Alters
<1>2. d \in ThreadRow /\ Alters(c, d) /\ d.gone = c.gone /\ d.posts = c.posts /\ d.held = c.held
  BY DEF ByAgent, ThreadRow, Alters
<1>3. ASSUME NEW e \in ThreadRow, Alters(c, e), e.gone = c.gone, e.posts = c.posts, e.held = c.held
      PROVE  Updated(e) \in ThreadRow /\ Alters(c, Updated(e))
  BY <1>3 DEF Updated, Words, ThreadRow, Posts, Alters
<1> HIDE DEF d
<1>4. Updated(d) \in ThreadRow /\ Alters(c, Updated(d))
  BY <1>2, <1>3
<1>5. Updated(Finish(c, got)) \in ThreadRow /\ Alters(c, Updated(Finish(c, got)))
  BY <1>1, <1>3
<1> QED
  BY <1>1, <1>4, <1>5 DEF d

\* Hold, Release: the bridge holds the turn of a comment that stands.
LEMMA HeldAlters ==
  ASSUME NEW c \in ThreadRow, ~c.gone, c.author = "user"
  PROVE  /\ LET d == [c EXCEPT !.held = "held", !.posts = @ \cup {"card"}] IN d \in ThreadRow /\ Alters(c, d)
         /\ LET d == [c EXCEPT !.held = "sent"] IN d \in ThreadRow /\ Alters(c, d)
<1>1. c.posts \cup {"card"} \in SUBSET Posts
  BY DEF ThreadRow, Posts
<1> QED
  BY <1>1 DEF ThreadRow, Alters

\* What the bridge, the worker and an agent do to a comment.
LEMMA NewsKeep ==
  ASSUME ThreadInv,
         \/ \E i \in DOMAIN thread : Hold(i) \/ Release(i) \/ Transcribe(i)
         \/ \E got, tell \in BOOLEAN : Write(got, tell)
  PROVE  ThreadInv'
<1>1. thread \in Seq(ThreadRow) /\ DOMAIN thread = 1..Len(thread)
  BY DEF ThreadInv, ThreadTypeOK
<1>2. ASSUME NEW i \in 1..Len(thread)
      PROVE  /\ thread[i] \in ThreadRow /\ (thread[i].gone => thread[i].held = "dropped" /\ thread[i].posts = {})
             /\ thread[i].held = "held" => thread[i].author = "user"
  BY <1>1 DEF ThreadInv, SoundRow
<1>3. ASSUME NEW i \in 1..Len(thread), Hold(i) PROVE ThreadInv'
  <2> DEFINE r == [thread[i] EXCEPT !.held = "held", !.posts = @ \cup {"card"}]
  <2>1. RowIs(i, r) /\ item' = item
    BY <1>1, <1>3 DEF Hold, RowIs
  <2>2. r \in ThreadRow /\ Alters(thread[i], r)
    <3>1. thread[i] \in ThreadRow /\ ~thread[i].gone /\ thread[i].author = "user"
      BY <1>2, <1>3 DEF Hold
    <3> QED
      BY <3>1, HeldAlters
  <2> HIDE DEF r
  <2> QED
    BY <2>1, <2>2, RowAlters
<1>4. ASSUME NEW i \in 1..Len(thread), Release(i) PROVE ThreadInv'
  <2> DEFINE r == [thread[i] EXCEPT !.held = "sent"]
  <2>1. RowIs(i, r) /\ item' = item
    BY <1>1, <1>4 DEF Release, RowIs
  <2>2. r \in ThreadRow /\ Alters(thread[i], r)
    <3>1. thread[i] \in ThreadRow /\ ~thread[i].gone /\ thread[i].author = "user"
      BY <1>2, <1>4 DEF Release
    <3> QED
      BY <3>1, HeldAlters
  <2> HIDE DEF r
  <2> QED
    BY <2>1, <2>2, RowAlters
<1>5. ASSUME NEW i \in 1..Len(thread), Transcribe(i) PROVE ThreadInv'
  <2> DEFINE r == Updated(ByAgent(thread[i]))
  <2>1. RowIs(i, r) /\ item' = item
    BY <1>5 DEF Transcribe, RowIs
  <2>2. r \in ThreadRow /\ Alters(thread[i], r)
    BY <1>2, UpdatedAlters
  <2> HIDE DEF r
  <2> QED
    BY <2>1, <2>2, RowAlters
<1>6. ASSUME NEW got \in BOOLEAN, NEW tell \in BOOLEAN, Write(got, tell) PROVE ThreadInv'
  <2> DEFINE c == Finish(thread[asking], got)
             r == IF tell /\ c # thread[asking] THEN Updated(c) ELSE c
  <2>1. RowIs(asking, r) /\ item' = item
    BY <1>6 DEF Write, RowIs
  <2>2. asking \in 1..Len(thread) => r \in ThreadRow /\ Alters(thread[asking], r)
    BY <1>2, UpdatedAlters
  <2> HIDE DEF r
  <2> QED
    BY <2>1, <2>2, RowAlters
<1> QED
  BY <1>1, <1>3, <1>4, <1>5, <1>6

\* A comment is added after a thread of which only chosen answers changed, by
\* the tap it brings or not at all.
Adds(tap, to, c) == thread' = Append(Chose(tap, to), c)
Fresh(tap, to, c) ==
  /\ c.to = to /\ c.tap = tap /\ c.chosen = None /\ ~c.gone /\ c.held = "no" /\ c.told <= 1
  /\ tap # None => c.author = "user"

\* A new comment, with the choice it makes in the comment it answers.
LEMMA RowAdded ==
  ASSUME ThreadInv, NEW tap \in Chosens, NEW to \in 0..Len(thread), NEW c \in ThreadRow,
         Adds(tap, to, c), Fresh(tap, to, c), item' \in ItemRow,
         item'.chosen # None => /\ item'.chosen \in item'.offers
                                /\ item'.chosen = item.chosen \/ (item'.chosen = tap /\ to = 0)
  PROVE  ThreadInv'
<1> DEFINE n == Len(thread)
           q == Chose(tap, to)
<1>1. thread \in Seq(ThreadRow) /\ n \in Nat /\ DOMAIN thread = 1..n
  BY DEF ThreadInv, ThreadTypeOK
<1>2. \A i \in 1..n : thread[i] \in ThreadRow
  BY <1>1
<1>3. \A i \in 1..n : /\ q[i] \in ThreadRow
                      /\ q[i].author = thread[i].author /\ q[i].tap = thread[i].tap /\ q[i].to = thread[i].to
                      /\ q[i].gone = thread[i].gone /\ q[i].told = thread[i].told /\ q[i].held = thread[i].held
                      /\ q[i].posts = thread[i].posts
                      /\ q[i].chosen = IF tap # None /\ i = to THEN tap ELSE thread[i].chosen
  BY <1>1, <1>2 DEF Chose, ThreadRow
<1>4. q \in [1..n -> ThreadRow]
  <2>1. q = [i \in 1..n |-> q[i]]
    BY <1>1 DEF Chose
  <2> QED
    BY <1>3, <2>1
<1>5. q \in Seq(ThreadRow) /\ Len(q) = n
  <2> HIDE DEF q, n
  <2>1. n \in Nat
    BY <1>1
  <2> QED
    BY <1>4, <2>1
<1>6. thread' = Append(q, c)
  BY DEF Adds
<1> HIDE DEF q, n
<1>7. /\ thread' \in Seq(ThreadRow) /\ Len(thread') = n + 1 /\ thread'[n + 1] = c
      /\ \A i \in 1..n : thread'[i] = q[i]
  BY <1>1, <1>5, <1>6, RowAppended
<1>8. \A i \in 1..(n + 1) : i = n + 1 \/ i \in 1..n
  BY <1>1
<1>9. n + 1 \in 1..(n + 1) /\ 1..n \subseteq 1..(n + 1) /\ to < n + 1 /\ n = Len(thread)
  BY <1>1 DEF n
<1>10. ASSUME NEW i \in 1..(n + 1)
       PROVE  SoundRow(thread'[i], i)
  <2>1. CASE i \in 1..n
    <3>1. SoundRow(thread[i], i)
      BY <2>1, <1>9 DEF ThreadInv
    <3> QED
      BY <2>1, <3>1, <1>3, <1>7 DEF SoundRow
  <2>2. CASE i = n + 1
    BY <2>2, <1>7, <1>9 DEF SoundRow, Fresh
  <2> QED
    BY <2>1, <2>2, <1>8
<1>11. ASSUME NEW label, NEW where, Tapped(label, where)
       PROVE  \E i \in 1..(n + 1) : TapStands(thread'[i], label, where)
  <2>1. PICK i \in 1..n : TapStands(thread[i], label, where)
    BY <1>9, <1>11 DEF Tapped
  <2>2. TapStands(thread'[i], label, where)
    BY <2>1, <1>3, <1>7 DEF TapStands
  <2> QED
    BY <2>2, <1>9
<1>12. tap # None => TapStands(thread'[n + 1], tap, to)
  BY <1>7 DEF Fresh, TapStands
<1>13. item'.chosen # None => \E i \in 1..(n + 1) : TapStands(thread'[i], item'.chosen, 0)
  <2> SUFFICES ASSUME item'.chosen # None
               PROVE  \E i \in 1..(n + 1) : TapStands(thread'[i], item'.chosen, 0)
    OBVIOUS
  <2>1. CASE item'.chosen = item.chosen
    <3>1. Tapped(item.chosen, 0)
      BY <2>1 DEF ThreadInv
    <3> QED
      BY <2>1, <3>1, <1>11
  <2>2. CASE item'.chosen = tap /\ to = 0
    BY <2>2, <1>12, <1>9
  <2> QED
    BY <2>1, <2>2
<1>14. ASSUME NEW j \in 1..(n + 1), thread'[j].chosen # None
       PROVE  \E i \in 1..(n + 1) : TapStands(thread'[i], thread'[j].chosen, j)
  <2>1. j \in 1..n
    <3>1. c.chosen = None
      BY DEF Fresh
    <3> QED
      BY <3>1, <1>7, <1>8, <1>14
  <2>2. CASE tap # None /\ j = to
    <3>1. thread'[j].chosen = tap
      BY <2>1, <2>2, <1>3, <1>7
    <3> QED
      BY <2>2, <3>1, <1>9, <1>12
  <2>3. CASE ~(tap # None /\ j = to)
    <3>1. thread'[j].chosen = thread[j].chosen
      BY <2>1, <2>3, <1>3, <1>7
    <3>2. Tapped(thread[j].chosen, j)
      BY <2>1, <3>1, <1>9, <1>14 DEF ThreadInv
    <3> QED
      BY <3>1, <3>2, <1>11
  <2> QED
    BY <2>2, <2>3
<1>15. ThreadTypeOK'
  BY <1>7 DEF ThreadTypeOK
<1>16. item'.chosen # None => item'.chosen \in item'.offers
  OBVIOUS
<1>17. Len(thread') = n + 1
  BY <1>7
<1> QED
  BY <1>10, <1>13, <1>14, <1>15, <1>16, <1>17 DEF ThreadInv, Tapped, TapStands, SoundRow

\* A comment is told of.
LEMMA ToldRow ==
  ASSUME NEW c \in ThreadRow, NEW ps \in SUBSET Posts
  PROVE  LET d == [c EXCEPT !.told = 1, !.posts = ps] IN
         /\ d \in ThreadRow /\ d.told = 1 /\ d.author = c.author /\ d.tap = c.tap /\ d.to = c.to
         /\ d.chosen = c.chosen /\ d.gone = c.gone /\ d.held = c.held
BY DEF ThreadRow

\* emitMarker: a comment that nobody was told of is told of once.
LEMMA AnnouncedIsFresh ==
  ASSUME NEW c \in ThreadRow, NEW tap, NEW to, c.told = 0, Fresh(tap, to, c)
  PROVE  Announced(c) \in ThreadRow /\ Fresh(tap, to, Announced(c))
<1> DEFINE ps == c.posts \cup {"marker", "fallback"}
<1>1. Announced(c) = [c EXCEPT !.told = 1, !.posts = ps]
  BY DEF Announced, Words, Fresh
<1>2. ps \in SUBSET Posts
  BY DEF ThreadRow, Posts
<1> HIDE DEF ps
<1> DEFINE d == [c EXCEPT !.told = 1, !.posts = ps]
<1>3. /\ d \in ThreadRow /\ d.told = 1 /\ d.author = c.author /\ d.tap = c.tap /\ d.to = c.to
      /\ d.chosen = c.chosen /\ d.gone = c.gone /\ d.held = c.held
  BY <1>2, ToldRow
<1>4. Announced(c) = d
  BY <1>1
<1> HIDE DEF d
<1>5. Fresh(tap, to, d)
  BY <1>3 DEF Fresh
<1> QED
  BY <1>3, <1>4, <1>5

\* Reply: the tap is on a button that is there, and its own reply stands.
LEMMA ReplyKeeps ==
  ASSUME ThreadInv, NEW tap \in Chosens, NEW to \in 0..Len(thread), NEW spoken \in BOOLEAN, NEW tell \in BOOLEAN,
         Reply(tap, to, spoken, tell)
  PROVE  ThreadInv'
<1> USE ThreadAssumption
<1> DEFINE voice == IF ~spoken THEN "none" ELSE IF Admitted THEN "pending" ELSE "bare"
           c == Comment("user", tap, to, {}, voice)
           d == IF tell /\ ~Seeing(tap, to) THEN Announced(c) ELSE c
<1>1. Adds(tap, to, d) /\ item' = Answered(tap, to)
  BY DEF Reply, Adds
<1>2. /\ c \in ThreadRow /\ c.told = 0 /\ c.author = "user" /\ c.tap = tap /\ c.to = to /\ c.chosen = None
      /\ ~c.gone /\ c.held = "no"
  <2>1. to \in Nat
    BY DEF ThreadInv, ThreadTypeOK
  <2> QED
    BY <2>1 DEF Comment, ThreadRow, Posts, Chosens
<1> HIDE DEF c
<1>3. d \in ThreadRow /\ Fresh(tap, to, d)
  <2>1. Fresh(tap, to, c)
    BY <1>2 DEF Fresh
  <2> QED
    BY <1>2, <2>1, AnnouncedIsFresh
<1> HIDE DEF d
<1>4. item \in ItemRow
  BY DEF ThreadInv, ThreadTypeOK
<1>5. item' \in ItemRow
  BY <1>1, <1>4 DEF Answered, ItemRow
<1>6. item'.offers = item.offers /\ (item'.chosen = item.chosen \/ (item'.chosen = tap /\ to = 0 /\ tap # None))
  BY <1>1, <1>4 DEF Answered, ItemRow, Seeing
<1>7. tap # None /\ to = 0 => tap \in item.offers
  BY DEF Reply, Offered
<1>8. item.chosen # None => item.chosen \in item.offers
  BY DEF ThreadInv
<1>9. item'.chosen # None => /\ item'.chosen \in item'.offers
                             /\ item'.chosen = item.chosen \/ (item'.chosen = tap /\ to = 0)
  BY <1>6, <1>7, <1>8
<1> QED
  BY <1>1, <1>3, <1>5, <1>9, RowAdded

\* Say: an agent's comment answers nothing.
LEMMA SayKeeps ==
  ASSUME ThreadInv, NEW asks \in SUBSET Labels, NEW tell \in BOOLEAN, Say(asks, tell)
  PROVE  ThreadInv'
<1> USE ThreadAssumption
<1> DEFINE c == Comment("agent", None, 0, asks, "none")
           d == IF tell THEN Announced(c) ELSE c
<1>1. thread' = Append(thread, d) /\ item' = IF asks # {} THEN [item EXCEPT !.awaiting = "user"] ELSE item
  BY DEF Say
<1>2. /\ c \in ThreadRow /\ c.told = 0 /\ c.author = "agent" /\ c.tap = None /\ c.to = 0 /\ c.chosen = None
      /\ ~c.gone /\ c.held = "no"
  BY DEF Comment, ThreadRow, Posts, Chosens
<1> HIDE DEF c
<1>3. d \in ThreadRow /\ Fresh(None, 0, d)
  <2>1. Fresh(None, 0, c)
    BY <1>2 DEF Fresh
  <2> QED
    BY <1>2, <2>1, AnnouncedIsFresh
<1> HIDE DEF d
<1>4. Chose(None, 0) = thread
  <2>1. thread \in Seq(ThreadRow)
    BY DEF ThreadInv, ThreadTypeOK
  <2> QED
    BY <2>1 DEF Chose
<1>5. Adds(None, 0, d)
  BY <1>1, <1>4 DEF Adds
<1>6. item \in ItemRow /\ (item.chosen # None => item.chosen \in item.offers)
  BY DEF ThreadInv, ThreadTypeOK
<1>7. /\ item' \in ItemRow /\ item'.chosen = item.chosen
      /\ item'.chosen # None => item'.chosen \in item'.offers
  BY <1>1, <1>6 DEF ItemRow
<1>8. None \in Chosens /\ 0 \in 0..Len(thread)
  BY DEF Chosens, ThreadInv, ThreadTypeOK
<1> QED
  BY <1>3, <1>5, <1>7, <1>8, RowAdded

\* Create, Patch, Close, Reopen: the item forgets its answer or keeps it.
LEMMA ItemKeeps ==
  ASSUME ThreadInv,
         \/ \E kind \in {"task", "notice"}, labels \in {{}, Labels} : Create(kind, labels)
         \/ \E labels \in {{}, Labels} : Patch(labels)
         \/ Close \/ Reopen
  PROVE  ThreadInv'
<1> USE ThreadAssumption
<1>1. item \in ItemRow
  BY DEF ThreadInv, ThreadTypeOK
<1>2. thread' = thread
  BY DEF Create, Patch, Close, Reopen
<1>3. ASSUME item' \in ItemRow, \/ item'.chosen = None
                                \/ item'.chosen = item.chosen /\ item'.offers = item.offers
      PROVE  ThreadInv'
  BY <1>2, <1>3 DEF ThreadInv, ThreadTypeOK, Tapped, TapStands, SoundRow
<1>4. ASSUME NEW kind \in {"task", "notice"}, NEW labels \in {{}, Labels}, Create(kind, labels)
      PROVE  ThreadInv'
  <2>1. item'.chosen = None /\ item' \in ItemRow
    BY <1>4 DEF Create, ItemRow, Chosens, DefaultAwaiting
  <2> QED
    BY <2>1, <1>3
<1>5. ASSUME NEW labels \in {{}, Labels}, Patch(labels)
      PROVE  ThreadInv'
  <2>1. /\ item' \in ItemRow
        /\ item'.chosen = None \/ (item'.chosen = item.chosen /\ item'.offers = item.offers)
    BY <1>1, <1>5 DEF Patch, Relabel, ItemRow, Chosens
  <2> QED
    BY <2>1, <1>3
<1>6. CASE Close \/ Reopen
  <2>1. /\ item' \in ItemRow
        /\ item'.chosen = None \/ (item'.chosen = item.chosen /\ item'.offers = item.offers)
    BY <1>1, <1>6 DEF Close, Reopen, ItemRow, Chosens, DefaultAwaiting
  <2> QED
    BY <2>1, <1>3
<1> QED
  BY <1>4, <1>5, <1>6

\* Cancel: of an answer that was the withdrawn reply's own, the latest tap that
\* stands takes the place, if its button is still there.
LEMMA CancelKeeps ==
  ASSUME ThreadInv, NEW i \in 1..Len(thread), Cancel(i)
  PROVE  ThreadInv'
<1> DEFINE n == Len(thread)
           p == thread[i].to
<1>1. thread \in Seq(ThreadRow) /\ n \in Nat /\ DOMAIN thread = 1..n
  BY DEF ThreadInv, ThreadTypeOK
<1>2. \A j \in 1..n : thread[j] \in ThreadRow
  BY <1>1
<1>3. SoundRow(thread[i], i) /\ thread[i].held = "held" /\ p \in Nat /\ p < i
  BY <1>2 DEF ThreadInv, SoundRow, Cancel, ThreadRow
<1>4. thread' = [j \in 1..n |->
           IF j = i THEN [thread[i] EXCEPT !.held = "dropped", !.gone = TRUE, !.posts = {}]
           ELSE IF j = p THEN [thread[j] EXCEPT !.chosen = AfterUndo(i, @)] ELSE thread[j]]
  BY <1>1 DEF Cancel
<1>5. Undone(i) = None \/ \E j \in 1..n : j # i /\ TapStands(thread[j], Undone(i), p) /\ Undone(i) \in Offered(p) \cap Chosens
  <2> SUFFICES ASSUME Undone(i) # None
               PROVE  \E j \in 1..n : j # i /\ TapStands(thread[j], Undone(i), p) /\ Undone(i) \in Offered(p) \cap Chosens
    OBVIOUS
  <2> DEFINE last == Max(Standing(i))
  <2>1. Standing(i) # {} /\ Undone(i) = thread[last].tap /\ thread[last].tap \in Offered(p)
    BY DEF Undone
  <2>2. Standing(i) \in SUBSET (0..n)
    BY <1>1 DEF Standing
  <2>3. last \in Standing(i)
    BY <1>1, <2>1, <2>2, LastPosition
  <2> HIDE DEF last
  <2>4. last \in 1..n /\ last # i /\ TapStands(thread[last], Undone(i), p)
    BY <1>1, <2>1, <2>3 DEF Standing, TapStands
  <2> QED
    BY <1>2, <2>1, <2>4 DEF ThreadRow
<1>6. \A x : AfterUndo(i, x) = x \/ AfterUndo(i, x) = Undone(i)
  BY DEF AfterUndo
<1>7. \A j \in 1..n : /\ thread'[j] \in ThreadRow
                      /\ thread'[j].author = thread[j].author /\ thread'[j].tap = thread[j].tap
                      /\ thread'[j].to = thread[j].to /\ thread'[j].told = thread[j].told
                      /\ j # i => /\ thread'[j].gone = thread[j].gone /\ thread'[j].held = thread[j].held
                                  /\ thread'[j].posts = thread[j].posts
                      /\ thread'[j].chosen = IF j = p THEN AfterUndo(i, thread[j].chosen) ELSE thread[j].chosen
  <2> SUFFICES ASSUME NEW j \in 1..n
               PROVE  /\ thread'[j] \in ThreadRow
                      /\ thread'[j].author = thread[j].author /\ thread'[j].tap = thread[j].tap
                      /\ thread'[j].to = thread[j].to /\ thread'[j].told = thread[j].told
                      /\ j # i => /\ thread'[j].gone = thread[j].gone /\ thread'[j].held = thread[j].held
                                  /\ thread'[j].posts = thread[j].posts
                      /\ thread'[j].chosen = IF j = p THEN AfterUndo(i, thread[j].chosen) ELSE thread[j].chosen
    OBVIOUS
  <2>1. AfterUndo(i, thread[j].chosen) \in Chosens /\ thread[j] \in ThreadRow
    <3>1. thread[j] \in ThreadRow /\ thread[j].chosen \in Chosens
      BY <1>2 DEF ThreadRow
    <3>2. Undone(i) \in Chosens
      BY <1>5 DEF Chosens
    <3> QED
      BY <3>1, <3>2, <1>6
  <2>2. i # p
    BY <1>3
  <2>3. CASE j = i
    <3>1. thread'[j] = [thread[j] EXCEPT !.held = "dropped", !.gone = TRUE, !.posts = {}]
      BY <2>3, <1>4
    <3> QED
      BY <2>1, <2>2, <2>3, <3>1 DEF ThreadRow
  <2>4. CASE j # i /\ j = p
    <3>1. thread'[j] = [thread[j] EXCEPT !.chosen = AfterUndo(i, thread[j].chosen)]
      BY <2>4, <1>4
    <3> QED
      BY <2>1, <2>4, <3>1 DEF ThreadRow
  <2>5. CASE j # i /\ j # p
    BY <2>1, <2>5, <1>4
  <2> QED
    BY <2>3, <2>4, <2>5
<1>8. thread'[i].gone /\ thread'[i].held = "dropped" /\ thread'[i].posts = {}
  BY <1>2, <1>4 DEF ThreadRow
<1>9. thread' \in Seq(ThreadRow) /\ Len(thread') = n
  <2>1. thread' \in [1..n -> ThreadRow]
    <3>1. thread' = [j \in 1..n |-> thread'[j]]
      BY <1>4
    <3> QED
      BY <3>1, <1>7
  <2> HIDE DEF n
  <2>2. n \in Nat
    BY <1>1 DEF n
  <2> QED
    BY <2>1, <2>2
<1>10. ASSUME NEW j \in 1..n
       PROVE  SoundRow(thread'[j], j)
  <2>1. SoundRow(thread[j], j)
    BY DEF ThreadInv
  <2>2. CASE j = i
    BY <2>1, <2>2, <1>7, <1>8 DEF SoundRow
  <2>3. CASE j # i
    BY <2>1, <2>3, <1>7 DEF SoundRow
  <2> QED
    BY <2>2, <2>3
<1>11. ASSUME NEW j \in 1..n, j # i, NEW label, NEW to, TapStands(thread[j], label, to)
       PROVE  TapStands(thread'[j], label, to)
  BY <1>7, <1>11 DEF TapStands
<1>12. ASSUME NEW label, NEW to, Tapped(label, to), label # None, to # p \/ AfterUndo(i, label) = label
       PROVE  \E j \in 1..n : TapStands(thread'[j], label, to)
  <2>1. PICK j \in 1..n : TapStands(thread[j], label, to)
    BY <1>12 DEF Tapped
  <2>2. CASE j # i
    BY <2>1, <2>2, <1>11
  <2>3. CASE j = i
    <3>1. to = p /\ thread[i].tap = label
      BY <2>1, <2>3 DEF TapStands
    <3>2. label = Undone(i)
      BY <3>1, <1>12 DEF AfterUndo
    <3> QED
      BY <3>1, <3>2, <1>5, <1>11, <1>12
  <2> QED
    BY <2>2, <2>3
<1>13. ASSUME NEW label, Tapped(label, p), AfterUndo(i, label) # None, label # None
       PROVE  \E j \in 1..n : TapStands(thread'[j], AfterUndo(i, label), p)
  <2>1. CASE AfterUndo(i, label) = label
    BY <2>1, <1>12, <1>13
  <2>2. CASE AfterUndo(i, label) = Undone(i)
    BY <2>2, <1>5, <1>11, <1>13
  <2> QED
    BY <2>1, <2>2, <1>6
<1>14. AfterUndo(i, None) = None
  BY DEF AfterUndo
<1>15. ASSUME NEW q \in 1..n, thread'[q].chosen # None
       PROVE  \E j \in 1..n : TapStands(thread'[j], thread'[q].chosen, q)
  <2>1. CASE q = p
    <3>1. thread'[q].chosen = AfterUndo(i, thread[q].chosen) /\ thread[q].chosen # None
      BY <2>1, <1>7, <1>14, <1>15
    <3>2. Tapped(thread[q].chosen, p)
      BY <2>1, <3>1 DEF ThreadInv
    <3> QED
      BY <2>1, <3>1, <3>2, <1>13, <1>15
  <2>2. CASE q # p
    <3>1. thread'[q].chosen = thread[q].chosen
      BY <2>2, <1>7
    <3>2. Tapped(thread[q].chosen, q)
      BY <3>1, <1>15 DEF ThreadInv
    <3> QED
      BY <2>2, <3>1, <3>2, <1>12, <1>15
  <2> QED
    BY <2>1, <2>2
<1>16. item \in ItemRow /\ (item.chosen # None => item.chosen \in item.offers /\ Tapped(item.chosen, 0))
  BY DEF ThreadInv, ThreadTypeOK
<1>17. /\ item' \in ItemRow
       /\ item'.chosen # None => item'.chosen \in item'.offers /\ \E j \in 1..n : TapStands(thread'[j], item'.chosen, 0)
  <2>1. CASE p = 0
    <3>1. item' = [item EXCEPT !.chosen = AfterUndo(i, item.chosen)]
      BY <2>1 DEF Cancel
    <3>2. item'.chosen = AfterUndo(i, item.chosen) /\ item'.offers = item.offers
      BY <3>1, <1>16 DEF ItemRow
    <3>3. AfterUndo(i, item.chosen) \in Chosens
      BY <1>5, <1>6, <1>16 DEF Chosens, ItemRow
    <3>4. item' \in ItemRow
      BY <3>1, <3>3, <1>16 DEF ItemRow
    <3>5. ASSUME item'.chosen # None PROVE item'.chosen \in item'.offers
      <4>1. item.chosen # None
        BY <3>2, <3>5, <1>14
      <4>2. Undone(i) # None => Undone(i) \in item.offers
        BY <2>1, <1>5 DEF Offered
      <4> QED
        BY <3>2, <3>5, <4>1, <4>2, <1>6, <1>16
    <3>6. ASSUME item'.chosen # None PROVE \E j \in 1..n : TapStands(thread'[j], item'.chosen, 0)
      <4>1. item.chosen # None
        BY <3>2, <3>6, <1>14
      <4> QED
        BY <2>1, <3>2, <3>6, <4>1, <1>13, <1>16
    <3> QED
      BY <3>4, <3>5, <3>6
  <2>2. CASE p # 0
    <3>1. item' = item
      BY <2>2 DEF Cancel
    <3> QED
      BY <2>2, <3>1, <1>12, <1>16
  <2> QED
    BY <2>1, <2>2
<1>18. ThreadTypeOK'
  BY <1>9, <1>17 DEF ThreadTypeOK
<1>19. Len(thread') = n
  BY <1>9
<1> QED
  BY <1>10, <1>15, <1>17, <1>18, <1>19 DEF ThreadInv, Tapped, TapStands, SoundRow

-----------------------------------------------------------------------------
(* ItemThread: the words of an agent. *)

\* A note an agent transcribed is not pending, so that the worker passes it by,
\* and it has not failed.
AgentSettled(c) == c.by = "agent" => c.voice \in {"bare", "done"}
KeepsWords(c, d) == AgentSettled(c) => AgentSettled(d) /\ (c.by = "agent" => d.by = "agent")

\* A step takes nobody's words away and adds comments nobody transcribed.
WordsKept ==
  /\ \A i \in 1..Len(thread) : i \in 1..Len(thread') /\ KeepsWords(thread[i], thread'[i])
  /\ \A i \in 1..Len(thread') : i \in 1..Len(thread) \/ thread'[i].by = "none"

\* A comment changes in its place.
LEMMA RowKeepsWords ==
  ASSUME ThreadInv, NEW k, NEW r, RowIs(k, r), k \in 1..Len(thread) => KeepsWords(thread[k], r)
  PROVE  WordsKept
<1> DEFINE n == Len(thread)
<1>1. thread \in Seq(ThreadRow) /\ n \in Nat /\ DOMAIN thread = 1..n
  BY DEF ThreadInv, ThreadTypeOK
<1>2. thread' = [i \in 1..n |-> IF i = k THEN r ELSE thread[i]]
  BY <1>1 DEF RowIs
<1>3. Len(thread') = n
  BY <1>1, <1>2
<1>4. \A i \in 1..n : KeepsWords(thread[i], thread'[i])
  BY <1>2 DEF KeepsWords
<1> QED
  BY <1>3, <1>4 DEF WordsKept

\* A comment is added.
LEMMA AddKeepsWords ==
  ASSUME ThreadInv, NEW tap \in Chosens, NEW to, NEW c, Adds(tap, to, c), c.by = "none"
  PROVE  WordsKept
<1> DEFINE n == Len(thread)
           q == Chose(tap, to)
           R == ThreadRow \cup {c}
<1>1. thread \in Seq(ThreadRow) /\ n \in Nat /\ DOMAIN thread = 1..n
  BY DEF ThreadInv, ThreadTypeOK
<1>2. \A i \in 1..n : thread[i] \in ThreadRow
  BY <1>1
<1>3. \A i \in 1..n : q[i] \in ThreadRow /\ q[i].by = thread[i].by /\ q[i].voice = thread[i].voice
  BY <1>1, <1>2 DEF Chose, ThreadRow
<1>4. q = [i \in 1..n |-> q[i]]
  BY <1>1 DEF Chose
<1>5. thread' = Append(q, c)
  BY DEF Adds
<1> HIDE DEF q, n
<1>6. q \in Seq(R) /\ Len(q) = n /\ c \in R
  <2>1. q \in [1..n -> R]
    BY <1>3, <1>4
  <2> HIDE DEF R
  <2>2. c \in R
    BY DEF R
  <2> QED
    BY <1>1, <2>1, <2>2
<1>7. Len(thread') = n + 1 /\ thread'[n + 1] = c /\ \A i \in 1..n : thread'[i] = q[i]
  <2> HIDE DEF R
  <2> QED
    BY <1>1, <1>5, <1>6, RowAppended
<1>8. \A i \in 1..n : i \in 1..(n + 1) /\ KeepsWords(thread[i], thread'[i])
  BY <1>1, <1>3, <1>7 DEF KeepsWords, AgentSettled
<1>9. \A i \in 1..(n + 1) : i \in 1..n \/ thread'[i].by = "none"
  BY <1>1, <1>7
<1> QED
  BY <1>7, <1>8, <1>9 DEF WordsKept, n

\* Cancel withdraws a comment and leaves its note.
LEMMA CancelKeepsWords ==
  ASSUME ThreadInv, NEW i \in 1..Len(thread), Cancel(i)
  PROVE  WordsKept
<1> DEFINE n == Len(thread)
<1>1. thread \in Seq(ThreadRow) /\ n \in Nat /\ DOMAIN thread = 1..n
  BY DEF ThreadInv, ThreadTypeOK
<1>2. \A j \in 1..n : thread[j] \in ThreadRow
  BY <1>1
<1>3. thread' = [j \in 1..n |->
           IF j = i THEN [thread[j] EXCEPT !.held = "dropped", !.gone = TRUE, !.posts = {}]
           ELSE IF j = thread[i].to THEN [thread[j] EXCEPT !.chosen = AfterUndo(i, @)] ELSE thread[j]]
  BY <1>1 DEF Cancel
<1>4. \A j \in 1..n : thread'[j].by = thread[j].by /\ thread'[j].voice = thread[j].voice
  BY <1>2, <1>3 DEF ThreadRow
<1>5. Len(thread') = n
  <2>1. thread' = [j \in 1..n |-> thread'[j]]
    BY <1>3
  <2> HIDE DEF n
  <2>2. \A F : F = [j \in 1..n |-> F[j]] => Len(F) = n
    BY <1>1
  <2> QED
    BY <2>1, <2>2
<1> QED
  BY <1>4, <1>5 DEF WordsKept, KeepsWords, AgentSettled

\* What each step does to the words of agents.
LEMMA StepKeepsWords ==
  ASSUME ThreadInv, [ThreadNext]_threadVars
  PROVE  WordsKept
<1>1. thread \in Seq(ThreadRow) /\ DOMAIN thread = 1..Len(thread) /\ Len(thread) \in Nat
  BY DEF ThreadInv, ThreadTypeOK
<1>2. \A i \in 1..Len(thread) : thread[i] \in ThreadRow
  BY <1>1
<1>3. CASE UNCHANGED thread
  BY <1>1, <1>3 DEF WordsKept, KeepsWords
<1>4. ASSUME NEW tap \in Chosens, NEW to \in 0..Len(thread), NEW spoken \in BOOLEAN, NEW tell \in BOOLEAN,
             Reply(tap, to, spoken, tell)
      PROVE  WordsKept
  <2> DEFINE voice == IF ~spoken THEN "none" ELSE IF Admitted THEN "pending" ELSE "bare"
             c == Comment("user", tap, to, {}, voice)
             d == IF tell /\ ~Seeing(tap, to) THEN Announced(c) ELSE c
  <2>1. Adds(tap, to, d)
    BY <1>4 DEF Reply, Adds
  <2>2. d.by = "none"
    BY DEF Comment, Announced
  <2> HIDE DEF d
  <2> QED
    BY <2>1, <2>2, AddKeepsWords
<1>5. ASSUME NEW asks, NEW tell \in BOOLEAN, Say(asks, tell)
      PROVE  WordsKept
  <2> DEFINE c == Comment("agent", None, 0, asks, "none")
             d == IF tell THEN Announced(c) ELSE c
  <2>1. Chose(None, 0) = thread
    BY <1>1 DEF Chose
  <2>2. Adds(None, 0, d)
    BY <1>5, <2>1 DEF Say, Adds
  <2>3. d.by = "none"
    BY DEF Comment, Announced
  <2> HIDE DEF d
  <2> QED
    BY <2>2, <2>3, AddKeepsWords DEF Chosens
<1>6. ASSUME NEW i \in 1..Len(thread), Hold(i) \/ Release(i)
      PROVE  WordsKept
  <2>1. PICK r : RowIs(i, r) /\ r.by = thread[i].by /\ r.voice = thread[i].voice
    <3>1. CASE Hold(i)
      <4> DEFINE r == [thread[i] EXCEPT !.held = "held", !.posts = @ \cup {"card"}]
      <4>1. RowIs(i, r)
        BY <1>1, <3>1 DEF Hold, RowIs
      <4>2. r.by = thread[i].by /\ r.voice = thread[i].voice
        BY <1>2 DEF ThreadRow
      <4> QED
        BY <4>1, <4>2
    <3>2. CASE Release(i)
      <4> DEFINE r == [thread[i] EXCEPT !.held = "sent"]
      <4>1. RowIs(i, r)
        BY <1>1, <3>2 DEF Release, RowIs
      <4>2. r.by = thread[i].by /\ r.voice = thread[i].voice
        BY <1>2 DEF ThreadRow
      <4> QED
        BY <4>1, <4>2
    <3> QED
      BY <1>6, <3>1, <3>2
  <2> QED
    BY <2>1, RowKeepsWords DEF KeepsWords, AgentSettled
<1>7. ASSUME NEW i \in 1..Len(thread), Transcribe(i)
      PROVE  WordsKept
  <2> DEFINE r == Updated(ByAgent(thread[i]))
  <2>1. RowIs(i, r)
    BY <1>7 DEF Transcribe, RowIs
  <2>2. r.by = "agent" /\ r.voice \in {"bare", "done"}
    BY <1>2 DEF Updated, ByAgent, ThreadRow
  <2> HIDE DEF r
  <2> QED
    BY <2>1, <2>2, RowKeepsWords DEF KeepsWords, AgentSettled
<1>8. ASSUME NEW got \in BOOLEAN, NEW tell \in BOOLEAN, Write(got, tell)
      PROVE  WordsKept
  <2> DEFINE c == Finish(thread[asking], got)
             r == IF tell /\ c # thread[asking] THEN Updated(c) ELSE c
  <2>1. RowIs(asking, r)
    BY <1>8 DEF Write, RowIs
  <2>2. ASSUME asking \in 1..Len(thread)
        PROVE  KeepsWords(thread[asking], r)
    <3>1. CASE thread[asking].voice # "pending"
      BY <3>1 DEF Finish, KeepsWords
    <3>2. CASE thread[asking].voice = "pending" /\ thread[asking].by # "agent"
      <4>1. c.by # "agent"
        BY <1>2, <2>2, <3>2 DEF Finish, ThreadRow
      <4>2. Updated(c).by = c.by
        BY <1>2, <2>2 DEF Updated, Finish, ThreadRow
      <4> QED
        BY <3>2, <4>1, <4>2 DEF KeepsWords, AgentSettled
    <3>3. CASE thread[asking].voice = "pending" /\ thread[asking].by = "agent"
      BY <3>3 DEF KeepsWords, AgentSettled
    <3> QED
      BY <3>1, <3>2, <3>3
  <2> HIDE DEF r
  <2> QED
    BY <2>1, <2>2, RowKeepsWords
<1>9. CASE \E i \in DOMAIN thread : Cancel(i)
  BY <1>1, <1>9, CancelKeepsWords
<1>10. CASE \/ \E kind \in {"task", "notice"}, labels \in {{}, Labels} : Create(kind, labels)
            \/ \E labels \in {{}, Labels} : Patch(labels)
            \/ Close \/ Reopen
            \/ \E i \in DOMAIN thread : Repeat(i)
            \/ Take \/ WriteFails \/ Die \/ Boot \/ UNCHANGED threadVars
  <2>1. UNCHANGED thread
    BY <1>10 DEF Create, Patch, Close, Reopen, Repeat, Take, WriteFails, Die, Boot, threadVars
  <2> QED
    BY <2>1, <1>3
<1> QED
  BY <1>1, <1>4, <1>5, <1>6, <1>7, <1>8, <1>9, <1>10 DEF ThreadNext, Worker, Chosens

-----------------------------------------------------------------------------
(* ItemThread: the theorems. *)

\* The inductive invariant of a thread.
THEOREM ThreadIsKept == ThreadInit /\ [][ThreadNext]_threadVars => []ThreadInv
<1>1. ThreadInit => ThreadInv
  BY ThreadAssumption DEF ThreadInit, ThreadInv, ThreadTypeOK, Unfiled, ItemRow, Chosens
<1>2. ThreadInv /\ [ThreadNext]_threadVars => ThreadInv'
  <2> SUFFICES ASSUME ThreadInv, [ThreadNext]_threadVars
               PROVE  ThreadInv'
    OBVIOUS
  <2>1. CASE UNCHANGED <<item, thread>>
    BY <2>1 DEF ThreadInv, ThreadTypeOK, Tapped, TapStands, SoundRow
  <2>2. CASE \E tap \in Chosens, to \in 0..Len(thread), spoken, tell \in BOOLEAN : Reply(tap, to, spoken, tell)
    BY <2>2, ReplyKeeps
  <2>3. CASE \E asks \in {{}, Labels}, tell \in BOOLEAN : Say(asks, tell)
    BY <2>3, SayKeeps
  <2>4. CASE \/ \E kind \in {"task", "notice"}, labels \in {{}, Labels} : Create(kind, labels)
             \/ \E labels \in {{}, Labels} : Patch(labels)
             \/ Close \/ Reopen
    BY <2>4, ItemKeeps
  <2>5. CASE \/ \E i \in DOMAIN thread : Hold(i) \/ Release(i) \/ Transcribe(i)
             \/ \E got, tell \in BOOLEAN : Write(got, tell)
    BY <2>5, NewsKeep
  <2>6. CASE \E i \in DOMAIN thread : Cancel(i)
    <3>1. DOMAIN thread = 1..Len(thread)
      BY DEF ThreadInv, ThreadTypeOK
    <3> QED
      BY <2>6, <3>1, CancelKeeps
  <2>7. CASE \/ \E i \in DOMAIN thread : Repeat(i)
             \/ Take \/ WriteFails \/ Die \/ Boot \/ UNCHANGED threadVars
    <3>1. UNCHANGED <<item, thread>>
      BY <2>7 DEF Repeat, Take, WriteFails, Die, Boot, threadVars
    <3> QED
      BY <2>1, <3>1
  <2> QED
    BY <2>2, <2>3, <2>4, <2>5, <2>6, <2>7 DEF ThreadNext, Worker, Chosens
<1> QED
  BY <1>1, <1>2, PTL

LEMMA ThreadInvHolds == ThreadInv => ThreadHolds
<1> SUFFICES ASSUME ThreadInv PROVE ThreadHolds
  OBVIOUS
<1>1. DOMAIN thread = 1..Len(thread)
  BY DEF ThreadInv, ThreadTypeOK
<1>2. ChosenWasTapped
  BY <1>1 DEF ThreadInv, ChosenWasTapped, Tapped, TapStands
<1>3. WithdrawnUnread /\ AnnouncedOnce
  BY <1>1 DEF ThreadInv, SoundRow, WithdrawnUnread, AnnouncedOnce
<1> QED
  BY <1>2, <1>3 DEF ThreadHolds

\* What the thread shows and the log tells stands: a chosen answer was tapped,
\* each reply is told once, and of a cancelled one nothing (addComment,
\* withdrawComment, undoTap).
THEOREM ThreadsHold == ThreadSpec => []ThreadHolds
<1> QED
  BY ThreadInvHolds, ThreadIsKept, PTL DEF ThreadSpec

\* A transcript an agent wrote is never replaced by the journal's, although the
\* transcriber may have been asked before and answers after it, over deaths and
\* restarts (finishAttachmentTranscript).
THEOREM AgentsWordsStay == ThreadSpec => AgentWordsStay
<1>1. ThreadInit => \A i \in 1..Len(thread) : AgentSettled(thread[i])
  BY DEF ThreadInit
<1>2. ThreadInv /\ (\A i \in 1..Len(thread) : AgentSettled(thread[i])) /\ [ThreadNext]_threadVars
        => (\A i \in 1..Len(thread) : AgentSettled(thread[i]))'
  <2> SUFFICES ASSUME ThreadInv, \A i \in 1..Len(thread) : AgentSettled(thread[i]), [ThreadNext]_threadVars,
                      NEW i \in 1..Len(thread')
               PROVE  AgentSettled(thread'[i])
    BY DEF AgentSettled
  <2>1. WordsKept
    BY StepKeepsWords
  <2> QED
    BY <2>1 DEF WordsKept, KeepsWords, AgentSettled
<1>3. ThreadInv /\ (\A i \in 1..Len(thread) : AgentSettled(thread[i])) /\ [ThreadNext]_threadVars
        => [\A i \in DOMAIN thread : thread[i].by = "agent" => thread'[i].by = "agent" /\ thread'[i].voice # "failed"]_threadVars
  <2> SUFFICES ASSUME ThreadInv, \A i \in 1..Len(thread) : AgentSettled(thread[i]), [ThreadNext]_threadVars,
                      NEW i \in DOMAIN thread, thread[i].by = "agent"
               PROVE  thread'[i].by = "agent" /\ thread'[i].voice # "failed"
    OBVIOUS
  <2>1. WordsKept /\ i \in 1..Len(thread)
    BY StepKeepsWords DEF ThreadInv, ThreadTypeOK
  <2> QED
    BY <2>1 DEF WordsKept, KeepsWords, AgentSettled
<1> QED
  BY <1>1, <1>2, <1>3, ThreadIsKept, PTL DEF ThreadSpec, AgentWordsStay

-----------------------------------------------------------------------------
(* VectorIndex: the inductive invariant. *)

DocRows == [owner : Owners, body : Bodies]
VectorRows == [owner : Owners, body : Bodies, model : Models, readAs : Owners]

VectorTypes ==
  /\ docs \in [Ids -> {NoDoc} \cup DocRows]
  /\ vectors \in [Ids -> {NoVector} \cup VectorRows]
  /\ model \in Models
  /\ pass \in [on : BOOLEAN, cursor : 0 .. MaxDocs]
  /\ page \subseteq [id : Ids, owner : Owners, body : Bodies]
  /\ matrix = [u \in Owners |-> matrix[u]]
  /\ steady \subseteq Stored

\* Only this embedder's vectors are left once a pass has begun, and what was
\* there all along is embedded, was skipped, is being embedded or comes yet.
Seen(d) == d \in Embedded \/ d > pass.cursor \/ \E r \in page : r.id = d /\ SameWords(r)
PassGoesOn ==
  /\ purged => \A d \in Embedded : vectors[d].model = model
  /\ pass.on => purged /\ \A d \in steady \ skipped : Seen(d)

VectorInv == VectorTypes /\ VectorsTrue /\ MatrixFollows /\ PassGoesOn

\* A set of ids has a largest.
LEMMA LargestId ==
  ASSUME NEW S \in SUBSET Ids, S # {}
  PROVE  \E d \in S : \A e \in S : e <= d
<1> DEFINE D == {k \in 0 .. MaxDocs : MaxDocs - k \in S}
<1>1. MaxDocs \in Nat /\ \A d \in S : d \in Int /\ 1 <= d /\ d <= MaxDocs
  BY VectorAssumption DEF Ids
<1>2. \A d \in S : MaxDocs - d \in D
  BY <1>1
<1>3. D # {} /\ D \in SUBSET Nat
  BY <1>1, <1>2
<1>4. PICK k \in D : \A j \in D : k <= j
  <2> HIDE DEF D
  <2> QED
    BY <1>3, LeastNatural
<1>5. MaxDocs - k \in S /\ \A e \in S : e <= MaxDocs - k
  BY <1>1, <1>2, <1>4
<1> QED
  BY <1>5

LEMMA LeastId ==
  ASSUME NEW S \in SUBSET Ids, S # {}
  PROVE  \E d \in S : \A e \in S : d <= e
<1>1. S \in SUBSET Nat
  BY DEF Ids
<1> QED
  BY <1>1, LeastNatural

\* The id that a new row gets is nobody's.
LEMMA NextIsFree == NextId \notin Stored
<1>1. Stored \in SUBSET Ids
  BY DEF Stored
<1>2. CASE Stored = {}
  BY <1>2
<1>3. CASE Stored # {}
  <2> DEFINE m == CHOOSE d \in Stored : \A e \in Stored : e <= d
  <2>1. m \in Stored /\ \A e \in Stored : e <= m
    BY <1>1, <1>3, LargestId
  <2>2. NextId = 1 + m
    BY <1>3 DEF NextId
  <2> HIDE DEF m
  <2>3. m \in Int
    BY <1>1, <2>1 DEF Ids
  <2> QED
    BY <2>1, <2>2, <2>3
<1> QED
  BY <1>2, <1>3

\* The window of a batch: nothing before its last is left out, and it is empty
\* only when all is done.
LEMMA WindowIs ==
  ASSUME NEW c \in 0 .. MaxDocs
  PROVE  /\ Window(c) \subseteq Unembedded(c) /\ Unembedded(c) \subseteq Ids
         /\ Window(c) = {} => Unembedded(c) = {}
         /\ Window(c) # {} => /\ LastOf(Window(c)) \in Window(c) /\ LastOf(Window(c)) \in (c + 1) .. MaxDocs
                              /\ \A d \in Unembedded(c) : d <= LastOf(Window(c)) => d \in Window(c)
                              /\ \A d \in Window(c) : d <= LastOf(Window(c))
<1> DEFINE U == Unembedded(c)
           Upto(d) == {e \in U : e <= d}
<1>1. U \subseteq Ids /\ \A d \in U : d > c /\ d \in 1 .. MaxDocs
  BY DEF Unembedded, Stored, Ids
<1>2. IsFiniteSet(U)
  <2>1. IsFiniteSet(Ids) /\ U \in SUBSET Ids
    BY <1>1, VectorAssumption, FS_Interval DEF Ids
  <2> HIDE DEF U
  <2> QED
    BY <2>1, FS_Subset
<1>3. Window(c) = {d \in U : Cardinality(Upto(d)) <= BatchSize}
  BY DEF Window
<1> HIDE DEF U
<1>4. \A d \in U : IsFiniteSet(Upto(d)) /\ Cardinality(Upto(d)) \in Nat
  BY <1>2, FS_Subset, FS_CardinalityType
<1>5. ASSUME U # {} PROVE Window(c) # {}
  <2>1. PICK d \in U : \A e \in U : d <= e
    BY <1>1, <1>5, LeastId
  <2>2. Upto(d) = {d}
    BY <1>1, <2>1
  <2>3. Cardinality(Upto(d)) = 1
    BY <2>2, FS_Singleton
  <2> QED
    BY <1>3, <2>3, VectorAssumption
<1>6. ASSUME Window(c) # {}
      PROVE  /\ LastOf(Window(c)) \in Window(c) /\ LastOf(Window(c)) \in (c + 1) .. MaxDocs
             /\ \A d \in U : d <= LastOf(Window(c)) => d \in Window(c)
             /\ \A d \in Window(c) : d <= LastOf(Window(c))
  <2>1. Window(c) \in SUBSET Ids /\ Window(c) \subseteq U
    BY <1>1, <1>3
  <2> DEFINE w == LastOf(Window(c))
  <2>2. w \in Window(c) /\ \A e \in Window(c) : e <= w
    BY <1>6, <2>1, LargestId DEF LastOf
  <2> HIDE DEF w
  <2>3. w \in (c + 1) .. MaxDocs
    BY <1>1, <2>1, <2>2
  <2>4. ASSUME NEW d \in U, d <= w
        PROVE  d \in Window(c)
    <3>1. Upto(d) \in SUBSET Upto(w) /\ w \in U
      BY <1>1, <2>1, <2>2, <2>4
    <3>2. Cardinality(Upto(d)) <= Cardinality(Upto(w)) /\ Cardinality(Upto(w)) <= BatchSize
      BY <1>3, <1>4, <2>2, <3>1, FS_Subset
    <3>3. Cardinality(Upto(d)) \in Nat /\ Cardinality(Upto(w)) \in Nat /\ BatchSize \in Nat
      BY <1>4, <3>1, VectorAssumption
    <3> QED
      BY <1>3, <3>2, <3>3
  <2> QED
    BY <2>2, <2>3, <2>4 DEF w
<1> QED
  BY <1>1, <1>3, <1>5, <1>6 DEF U

\* What is the batch after the cursor c.
Batches == [rows : SUBSET Ids, cursor : 0 .. MaxDocs]
After(f, c) ==
  IF Window(c) = {} THEN [rows |-> {}, cursor |-> c]
  ELSE IF Window(c) \subseteq skipped THEN f[LastOf(Window(c))]
  ELSE [rows |-> Window(c) \ skipped, cursor |-> LastOf(Window(c))]
Follows(f, k) == \A c \in k .. MaxDocs : f[c] = After(f, c)

\* It is defined from the end of the ids backwards.
LEMMA BatchExists == \E f \in [0 .. MaxDocs -> Batches] : Follows(f, 0)
<1> DEFINE D == {j \in 0 .. MaxDocs : ~\E f \in [(MaxDocs - j) .. MaxDocs -> Batches] : Follows(f, MaxDocs - j)}
<1>1. MaxDocs \in Nat
  BY VectorAssumption
<1>2. SUFFICES ASSUME ~\E f \in [0 .. MaxDocs -> Batches] : Follows(f, 0) PROVE FALSE
  OBVIOUS
<1>3. PICK j \in D : \A i \in D : j <= i
  <2>1. MaxDocs - MaxDocs = 0
    BY <1>1
  <2>2. MaxDocs \in D /\ D \in SUBSET Nat
    BY <1>1, <1>2, <2>1
  <2> HIDE DEF D
  <2> QED
    BY <2>2, LeastNatural
<1> DEFINE k == MaxDocs - j
<1>4. k \in 0 .. MaxDocs /\ ~\E f \in [k .. MaxDocs -> Batches] : Follows(f, k)
  BY <1>1, <1>3
<1>5. PICK g \in [(k + 1) .. MaxDocs -> Batches] : Follows(g, k + 1)
  <2>1. CASE j = 0
    <3>1. k + 1 = MaxDocs + 1 /\ (MaxDocs + 1) .. MaxDocs = {}
      BY <1>1, <2>1
    <3> DEFINE e == [c \in (k + 1) .. MaxDocs |-> [rows |-> {}, cursor |-> 0]]
    <3>2. e \in [(k + 1) .. MaxDocs -> Batches] /\ Follows(e, k + 1)
      BY <3>1 DEF Follows
    <3> QED
      BY <3>2
  <2>2. CASE j # 0
    <3>1. j - 1 \in 0 .. MaxDocs /\ ~(j <= j - 1)
      <4>1. j \in 0 .. MaxDocs
        BY <1>3
      <4> HIDE DEF D
      <4> QED
        BY <1>1, <2>2, <4>1
    <3>2. j - 1 \notin D
      BY <1>3, <3>1
    <3>3. MaxDocs - (j - 1) = k + 1
      BY <1>1, <1>3
    <3> QED
      BY <3>1, <3>2, <3>3
  <2> QED
    BY <2>1, <2>2
<1> HIDE DEF D, k
<1> DEFINE f == [c \in k .. MaxDocs |-> IF c = k THEN After(g, k) ELSE g[c]]
<1>6. \A c \in k .. MaxDocs : Window(c) # {} => LastOf(Window(c)) \in (c + 1) .. MaxDocs
  BY <1>4, WindowIs
<1>7. \A c \in (k + 1) .. MaxDocs : f[c] = g[c] /\ c \in k .. MaxDocs
  BY <1>1, <1>4
<1>8. f[k] = After(g, k) /\ k \in k .. MaxDocs
  BY <1>1, <1>4
<1>9. After(g, k) \in Batches
  <2>1. CASE Window(k) = {}
    <3>1. After(g, k) = [rows |-> {}, cursor |-> k]
      BY <2>1 DEF After
    <3> QED
      BY <1>4, <3>1 DEF Batches
  <2>2. CASE Window(k) # {} /\ Window(k) \subseteq skipped
    <3>1. After(g, k) = g[LastOf(Window(k))]
      BY <2>2 DEF After
    <3> QED
      BY <1>6, <1>8, <2>2, <3>1
  <2>3. CASE Window(k) # {} /\ ~(Window(k) \subseteq skipped)
    <3>1. After(g, k) = [rows |-> Window(k) \ skipped, cursor |-> LastOf(Window(k))]
      BY <2>3 DEF After
    <3>2. Window(k) \subseteq Ids
      BY <1>4, WindowIs
    <3>3. LastOf(Window(k)) \in 0 .. MaxDocs
      BY <1>1, <1>4, <1>6, <1>8, <2>3
    <3> QED
      BY <3>1, <3>2, <3>3 DEF Batches
  <2> QED
    BY <2>1, <2>2, <2>3
<1>10. f \in [k .. MaxDocs -> Batches]
  BY <1>1, <1>4, <1>9
<1> HIDE DEF f
<1>11. ASSUME NEW c \in k .. MaxDocs
       PROVE  After(f, c) = After(g, c)
  <2>1. Window(c) # {} => LastOf(Window(c)) \in (k + 1) .. MaxDocs
    BY <1>1, <1>4, <1>6
  <2> QED
    BY <1>7, <2>1 DEF After
<1>12. \A c \in k .. MaxDocs : c = k \/ c \in (k + 1) .. MaxDocs
  BY <1>1, <1>4
<1>13. Follows(f, k)
  BY <1>5, <1>7, <1>8, <1>11, <1>12 DEF Follows
<1> QED
  BY <1>4, <1>10, <1>13

\* A batch passes over nothing but what is skipped, and it is empty only when
\* nothing else is left.
Sees(b, c) ==
  /\ b \in Batches /\ b.cursor >= c /\ b.rows \subseteq Stored
  /\ \A d \in Unembedded(c) : d \in skipped \/ d \in b.rows \/ d > b.cursor
  /\ b.rows = {} => Unembedded(c) \subseteq skipped

LEMMA AfterSees ==
  ASSUME NEW f, NEW c \in 0 .. MaxDocs, \A e \in (c + 1) .. MaxDocs : Sees(f[e], e)
  PROVE  Sees(After(f, c), c)
<1>1. MaxDocs \in Nat
  BY VectorAssumption
<1> DEFINE w == LastOf(Window(c))
<1>2. /\ Window(c) \subseteq Unembedded(c) /\ Unembedded(c) \subseteq Ids /\ Unembedded(c) \subseteq Stored
      /\ Window(c) = {} => Unembedded(c) = {}
      /\ Window(c) # {} => /\ w \in Window(c) /\ w \in (c + 1) .. MaxDocs
                           /\ \A d \in Unembedded(c) : d <= w => d \in Window(c)
                           /\ \A d \in Window(c) : d <= w
  BY WindowIs DEF Unembedded
<1>3. \A d \in Ids : d \in Int
  BY DEF Ids
<1> HIDE DEF w
<1>4. CASE Window(c) = {}
  <2>1. After(f, c) = [rows |-> {}, cursor |-> c]
    BY <1>4 DEF After
  <2>2. After(f, c).rows = {} /\ After(f, c).cursor = c /\ After(f, c) \in Batches
    BY <2>1 DEF Batches
  <2> QED
    BY <1>2, <1>4, <2>2 DEF Sees
<1>5. CASE Window(c) # {} /\ Window(c) \subseteq skipped
  <2>1. After(f, c) = f[w]
    BY <1>5 DEF After, w
  <2>2. Sees(f[w], w) /\ w >= c /\ w \in Int
    BY <1>1, <1>2, <1>5
  <2>3. \A d \in Unembedded(c) : d \in skipped \/ d \in Unembedded(w)
    BY <1>2, <1>3, <1>5, <2>2 DEF Unembedded
  <2>4. f[w].cursor >= w /\ f[w].cursor \in Int
    BY <2>2 DEF Sees, Batches
  <2>5. f[w].cursor >= c
    BY <2>2, <2>4
  <2> HIDE DEF w
  <2> QED
    BY <2>1, <2>2, <2>3, <2>5 DEF Sees
<1>6. CASE Window(c) # {} /\ ~(Window(c) \subseteq skipped)
  <2>1. After(f, c) = [rows |-> Window(c) \ skipped, cursor |-> w]
    BY <1>6 DEF After, w
  <2>2. After(f, c).rows = Window(c) \ skipped /\ After(f, c).cursor = w
    BY <2>1
  <2>3. After(f, c) \in Batches
    BY <1>1, <1>2, <1>6, <2>1 DEF Batches
  <2>4. \A d \in Unembedded(c) : d \in Window(c) \/ d > w
    BY <1>2, <1>3, <1>6
  <2>5. Window(c) \ skipped # {} /\ w >= c
    BY <1>2, <1>6
  <2> HIDE DEF w
  <2> QED
    BY <1>2, <2>2, <2>3, <2>4, <2>5 DEF Sees
<1> QED
  BY <1>4, <1>5, <1>6

LEMMA BatchSees ==
  ASSUME pass.cursor \in 0 .. MaxDocs
  PROVE  Sees(Batch, pass.cursor)
<1> DEFINE Is(F) == F = [c \in 0 .. MaxDocs |->
                          IF Window(c) = {} THEN [rows |-> {}, cursor |-> c]
                          ELSE IF Window(c) \subseteq skipped THEN F[LastOf(Window(c))]
                          ELSE [rows |-> Window(c) \ skipped, cursor |-> LastOf(Window(c))]]
<1>1. MaxDocs \in Nat
  BY VectorAssumption
<1>2. PICK g \in [0 .. MaxDocs -> Batches] : Follows(g, 0)
  BY BatchExists
<1>3. Is(g)
  BY <1>2 DEF Follows, After
<1>4. PICK f : Is(f) /\ Batch = f[pass.cursor]
  <2> DEFINE s == CHOOSE F : Is(F)
  <2>1. Is(s)
    BY <1>3
  <2>2. Batch = s[pass.cursor]
    BY DEF Batch
  <2> QED
    BY <2>1, <2>2
<1>5. \A c \in 0 .. MaxDocs : f[c] = After(f, c)
  BY <1>4 DEF After
<1> DEFINE D == {j \in 0 .. MaxDocs : ~Sees(f[MaxDocs - j], MaxDocs - j)}
<1>6. D = {}
  <2>1. SUFFICES ASSUME D # {} PROVE FALSE
    OBVIOUS
  <2>2. PICK j \in D : \A i \in D : j <= i
    <3>1. D \in SUBSET Nat
      BY <1>1
    <3> HIDE DEF D
    <3> QED
      BY <2>1, <3>1, LeastNatural
  <2> DEFINE k == MaxDocs - j
  <2>3. k \in 0 .. MaxDocs /\ ~Sees(f[k], k)
    BY <1>1, <2>2
  <2>4. ASSUME NEW e \in (k + 1) .. MaxDocs PROVE Sees(f[e], e)
    <3>1. MaxDocs - e \in 0 .. MaxDocs /\ ~(j <= MaxDocs - e) /\ MaxDocs - (MaxDocs - e) = e
      BY <1>1, <2>2, <2>3
    <3>2. MaxDocs - e \notin D
      BY <2>2, <3>1
    <3> QED
      BY <3>1, <3>2
  <2> HIDE DEF k, D
  <2>5. Sees(After(f, k), k)
    BY <2>3, <2>4, AfterSees
  <2> QED
    BY <1>5, <2>3, <2>5
<1>7. MaxDocs - pass.cursor \in 0 .. MaxDocs /\ MaxDocs - (MaxDocs - pass.cursor) = pass.cursor
  BY <1>1
<1>8. Sees(f[pass.cursor], pass.cursor)
  BY <1>6, <1>7
<1> QED
  BY <1>4, <1>8

\* Two shapes of rows: none, and a user's.
LEMMA NoRows ==
  /\ NoDoc \notin DocRows /\ NoVector \notin VectorRows
  /\ \A u \in Owners, b \in Bodies : [owner |-> u, body |-> b] \in DocRows
  /\ \A r \in DocRows : r # NoDoc
  /\ \A r \in VectorRows : r # NoVector
<1>1. NoDoc.owner = "none" /\ NoVector.owner = "none"
  BY DEF NoDoc, NoVector
<1>2. "none" \notin Owners
  BY VectorAssumption
<1> QED
  BY <1>1, <1>2 DEF DocRows, VectorRows

LEMMA InvFacts ==
  ASSUME VectorInv
  PROVE  /\ MaxDocs \in Nat
         /\ Stored \subseteq Ids /\ Embedded \subseteq Stored
         /\ \A d \in Stored : docs[d] \in DocRows
         /\ \A d \in Embedded : vectors[d] \in VectorRows
<1> QED
  BY VectorAssumption DEF VectorInv, VectorTypes, VectorsTrue, Stored, Embedded

\* A row gets words: no vector, no page and no pass knows of its id.
LEMMA AddKeeps ==
  ASSUME VectorInv, NEW u \in Owners, NEW b \in Bodies, AddDoc(u, b)
  PROVE  VectorInv'
<1> DEFINE n == NextId
<1>1. /\ n \in Ids /\ docs' = [docs EXCEPT ![n] = [owner |-> u, body |-> b]]
      /\ UNCHANGED <<vectors, matrix, model, purged, pass, page, skipped, steady>>
  BY DEF AddDoc
<1>2. n \notin Stored
  BY NextIsFree
<1> HIDE DEF n
<1>3. docs \in [Ids -> {NoDoc} \cup DocRows]
  BY DEF VectorInv, VectorTypes
<1>4. docs'[n] \in DocRows /\ docs'[n] # NoDoc /\ \A d \in Ids \ {n} : docs'[d] = docs[d]
  BY <1>1, <1>3, NoRows
<1>5. docs' \in [Ids -> {NoDoc} \cup DocRows]
  BY <1>1, <1>3, NoRows
<1>6. Stored' = Stored \cup {n} /\ Embedded' = Embedded
  BY <1>1, <1>4 DEF Stored, Embedded
<1>7. VectorTypes'
  BY <1>1, <1>5, <1>6 DEF VectorInv, VectorTypes
<1>8. VectorsTrue'
  BY <1>1, <1>2, <1>4, <1>6, InvFacts DEF VectorInv, VectorsTrue
<1>9. MatrixFollows'
  BY <1>1, <1>6 DEF VectorInv, MatrixFollows
<1>10. ASSUME NEW d \in steady, Seen(d) PROVE Seen(d)'
  <2>1. d \in Ids \ {n} /\ docs'[d] = docs[d]
    BY <1>2, <1>4 DEF VectorInv, VectorTypes, Stored
  <2> QED
    BY <1>1, <1>6, <1>10, <2>1 DEF Seen, SameWords
<1>11. PassGoesOn'
  BY <1>1, <1>6, <1>10 DEF VectorInv, PassGoesOn
<1> QED
  BY <1>7, <1>8, <1>9, <1>11 DEF VectorInv

\* A row changes its words or goes, and its vector with it.
LEMMA ChangeKeeps ==
  ASSUME VectorInv, NEW d \in Ids, d \in Stored,
         docs' \in [Ids -> {NoDoc} \cup DocRows], \A e \in Ids \ {d} : docs'[e] = docs[e],
         vectors' = [vectors EXCEPT ![d] = NoVector], steady' = steady \ {d},
         UNCHANGED <<matrix, model, purged, pass, page, skipped>>
  PROVE  VectorInv'
<1>1. vectors \in [Ids -> {NoVector} \cup VectorRows]
  BY DEF VectorInv, VectorTypes
<1>2. /\ vectors' \in [Ids -> {NoVector} \cup VectorRows] /\ vectors'[d] = NoVector
      /\ \A e \in Ids \ {d} : vectors'[e] = vectors[e]
  BY <1>1
<1>3. Embedded' = Embedded \ {d}
  BY <1>2 DEF Embedded
<1>4. \A e \in Ids \ {d} : e \in Stored' <=> e \in Stored
  BY DEF Stored
<1>5. steady' \subseteq Stored'
  BY <1>4 DEF VectorInv, VectorTypes, Stored
<1>6. VectorTypes'
  BY <1>2, <1>5 DEF VectorInv, VectorTypes
<1>7. VectorsTrue'
  BY <1>2, <1>3, <1>4, InvFacts DEF VectorInv, VectorsTrue
<1>8. MatrixFollows'
  BY <1>2, <1>3, InvFacts DEF VectorInv, MatrixFollows
<1>9. ASSUME NEW e \in steady', Seen(e) PROVE Seen(e)'
  <2>1. e \in Ids \ {d}
    BY <1>4 DEF VectorInv, VectorTypes, Stored
  <2> QED
    BY <1>3, <1>9, <2>1 DEF Seen, SameWords
<1>10. PassGoesOn'
  BY <1>2, <1>3, <1>9, InvFacts DEF VectorInv, PassGoesOn
<1> QED
  BY <1>6, <1>7, <1>8, <1>10 DEF VectorInv

LEMMA WritesKeepVectors ==
  ASSUME VectorInv, NEW d \in Ids, DropDoc(d) \/ \E b \in Bodies : EditDoc(d, b)
  PROVE  VectorInv'
<1>1. docs \in [Ids -> {NoDoc} \cup DocRows]
  BY DEF VectorInv, VectorTypes
<1>2. CASE DropDoc(d)
  <2>1. docs' \in [Ids -> {NoDoc} \cup DocRows] /\ \A e \in Ids \ {d} : docs'[e] = docs[e]
    BY <1>1, <1>2 DEF DropDoc
  <2> QED
    BY <1>2, <2>1, ChangeKeeps DEF DropDoc
<1>3. CASE \E b \in Bodies : EditDoc(d, b)
  <2>1. PICK b \in Bodies : EditDoc(d, b)
    BY <1>3
  <2>2. docs[d] \in DocRows
    BY <2>1, InvFacts DEF EditDoc
  <2>3. docs' = [docs EXCEPT ![d].body = b]
    BY <2>1 DEF EditDoc
  <2>4. [docs[d] EXCEPT !.body = b] \in DocRows
    BY <2>2 DEF DocRows
  <2>5. docs' = [docs EXCEPT ![d] = [docs[d] EXCEPT !.body = b]]
    BY <2>3
  <2>6. docs' \in [Ids -> {NoDoc} \cup DocRows] /\ \A e \in Ids \ {d} : docs'[e] = docs[e]
    BY <1>1, <2>4, <2>5
  <2> QED
    BY <2>1, <2>6, ChangeKeeps DEF EditDoc, VectorDropped
<1> QED
  BY <1>2, <1>3

\* A pass begins: the vectors of other embedders go.
LEMMA StartKeepsVectors ==
  ASSUME VectorInv, StartPass
  PROVE  VectorInv'
<1> DEFINE kept == [d \in Ids |-> IF d \in Embedded /\ vectors[d].model # model THEN NoVector ELSE vectors[d]]
<1>1. /\ vectors' = IF purged THEN vectors ELSE kept
      /\ pass' = [on |-> TRUE, cursor |-> 0] /\ purged' = TRUE /\ steady' = Stored
      /\ UNCHANGED <<docs, matrix, model, page, skipped, writes>>
  BY DEF StartPass, FromTheStart
<1>2. vectors \in [Ids -> {NoVector} \cup VectorRows]
  BY DEF VectorInv, VectorTypes
<1>3. /\ vectors' \in [Ids -> {NoVector} \cup VectorRows]
      /\ \A d \in Ids : vectors'[d] # NoVector =>
           d \in Embedded /\ vectors'[d] = vectors[d] /\ vectors[d].model = model
  <2>1. CASE purged
    BY <1>1, <1>2, <2>1 DEF VectorInv, PassGoesOn, Embedded
  <2>2. CASE ~purged
    BY <1>1, <1>2, <2>2 DEF Embedded
  <2> QED
    BY <2>1, <2>2
<1> HIDE DEF kept
<1>4. Embedded' \subseteq Embedded /\ \A d \in Embedded' : vectors'[d] = vectors[d] /\ vectors[d].model = model
  BY <1>3 DEF Embedded
<1>5. pass'.cursor = 0 /\ pass' \in [on : BOOLEAN, cursor : 0 .. MaxDocs] /\ Stored' = Stored
  BY <1>1, VectorAssumption DEF Stored
<1>6. VectorTypes'
  BY <1>1, <1>3, <1>5 DEF VectorInv, VectorTypes
<1>7. VectorsTrue'
  BY <1>1, <1>4, <1>5 DEF VectorInv, VectorsTrue
<1>8. MatrixFollows'
  BY <1>1, <1>4 DEF VectorInv, MatrixFollows
<1>9. \A d \in steady' : Seen(d)'
  BY <1>1, <1>5 DEF Seen, Stored, Ids
<1>10. PassGoesOn'
  BY <1>1, <1>4, <1>9 DEF PassGoesOn
<1> QED
  BY <1>6, <1>7, <1>8, <1>10 DEF VectorInv

\* A page is read: what the cursor passes over is on it, or skipped.
LEMMA ReadKeepsVectors ==
  ASSUME VectorInv, ReadPage
  PROVE  VectorInv'
<1>1. /\ page' = {[id |-> d, owner |-> docs[d].owner, body |-> docs[d].body] : d \in Batch.rows}
      /\ pass.on /\ page = {} /\ pass' = [pass EXCEPT !.cursor = Batch.cursor]
      /\ UNCHANGED <<docs, vectors, matrix, model, purged, skipped, writes, steady>>
  BY DEF ReadPage
<1>2. Sees(Batch, pass.cursor)
  BY BatchSees DEF VectorInv, VectorTypes
<1>3. Batch.rows \subseteq Stored /\ Batch.cursor \in 0 .. MaxDocs
  BY <1>2 DEF Sees, Batches
<1>4. \A d \in Stored : d \in Ids /\ docs[d].owner \in Owners /\ docs[d].body \in Bodies /\ docs[d] # NoDoc
  BY InvFacts DEF DocRows, Stored
<1>5. /\ page' \subseteq [id : Ids, owner : Owners, body : Bodies]
      /\ \A d \in Batch.rows : \E r \in page' : r.id = d /\ SameWords(r)
  <2> DEFINE row(d) == [id |-> d, owner |-> docs[d].owner, body |-> docs[d].body]
  <2>1. \A d \in Batch.rows : d \in Stored /\ row(d) \in page'
    BY <1>1, <1>3
  <2>2. \A d \in Stored : /\ row(d) \in [id : Ids, owner : Owners, body : Bodies]
                          /\ row(d).id = d /\ row(d).body = docs[d].body
    BY <1>4
  <2>3. page' = {row(d) : d \in Batch.rows}
    BY <1>1
  <2> HIDE DEF row
  <2>4. \A d \in Stored : SameWords(row(d))
    BY <1>4, <2>2 DEF SameWords
  <2> QED
    BY <2>1, <2>2, <2>3, <2>4
<1>6. UNCHANGED <<Stored, Embedded>> /\ \A r : SameWords(r)' <=> SameWords(r)
  BY <1>1 DEF Stored, Embedded, SameWords
<1>7. pass' \in [on : BOOLEAN, cursor : 0 .. MaxDocs] /\ pass'.cursor = Batch.cursor
  BY <1>1, <1>3 DEF VectorInv, VectorTypes
<1>8. VectorTypes'
  BY <1>1, <1>5, <1>6, <1>7 DEF VectorInv, VectorTypes
<1>9. VectorsTrue' /\ MatrixFollows'
  BY <1>1, <1>6 DEF VectorInv, VectorsTrue, MatrixFollows
<1>10. ASSUME NEW d \in steady \ skipped PROVE Seen(d)'
  <2>1. Seen(d) /\ d \in Stored
    BY <1>1 DEF VectorInv, VectorTypes, PassGoesOn
  <2>2. CASE d \in Embedded
    BY <1>6, <2>2 DEF Seen
  <2>3. CASE d \notin Embedded /\ d > pass.cursor
    <3>1. d \in Unembedded(pass.cursor)
      BY <2>1, <2>3 DEF Unembedded
    <3>2. d \in Batch.rows \/ d > Batch.cursor
      BY <1>2, <3>1 DEF Sees
    <3>3. pass'.cursor = Batch.cursor
      BY <1>1, <1>3, <2>3 DEF VectorInv, VectorTypes
    <3> QED
      BY <1>5, <1>6, <3>2, <3>3 DEF Seen
  <2> QED
    BY <1>1, <2>1, <2>2, <2>3 DEF Seen
<1>11. PassGoesOn'
  BY <1>1, <1>6, <1>10 DEF VectorInv, PassGoesOn
<1> QED
  BY <1>8, <1>9, <1>11 DEF VectorInv

\* What the embedder made is stored where the words are still the same, and
\* folded into the matrices that are loaded.
LEMMA StoreKeepsVectors ==
  ASSUME VectorInv, NEW failed \in SUBSET Ids, StoreBatch(failed)
  PROVE  VectorInv'
<1> DEFINE written == {r \in page : r.id \notin failed /\ SameWords(r)}
           Made(d) == \E r \in written : r.id = d
           Row(d) == CHOOSE r \in written : r.id = d
<1>1. /\ vectors' = [d \in Ids |-> IF Made(d)
           THEN [owner |-> IF docs[d] = NoDoc THEN Row(d).owner ELSE docs[d].owner,
                 body |-> Row(d).body, model |-> model, readAs |-> Row(d).owner]
           ELSE vectors[d]]
      /\ matrix' = [u \in Owners |-> IF matrix[u].on THEN [on |-> TRUE, rows |-> Folded(u, written)] ELSE matrix[u]]
      /\ skipped' = skipped \cup failed /\ page' = {}
      /\ UNCHANGED <<docs, model, purged, pass, steady>>
  BY DEF StoreBatch
<1>2. /\ page \subseteq [id : Ids, owner : Owners, body : Bodies]
      /\ vectors \in [Ids -> {NoVector} \cup VectorRows] /\ model \in Models
      /\ docs \in [Ids -> {NoDoc} \cup DocRows]
  BY DEF VectorInv, VectorTypes
<1>3. \A r \in written : /\ r \in page /\ r.id \in Ids /\ r.owner \in Owners /\ r.body \in Bodies
                         /\ docs[r.id] # NoDoc /\ docs[r.id].body = r.body
  BY <1>2 DEF SameWords
<1>4. ASSUME NEW d \in Ids, Made(d)
      PROVE  /\ Row(d) \in written /\ Row(d).id = d /\ Row(d).owner \in Owners /\ Row(d).body = docs[d].body
             /\ docs[d] # NoDoc /\ docs[d] \in DocRows
             /\ vectors'[d] = [owner |-> docs[d].owner, body |-> docs[d].body, model |-> model,
                               readAs |-> Row(d).owner]
             /\ vectors'[d] \in VectorRows
  <2>1. Row(d) \in written /\ Row(d).id = d
    BY <1>4
  <2> DEFINE r == Row(d)
  <2>2. r \in written /\ r.id = d
    BY <2>1
  <2> HIDE DEF r
  <2>3. r.owner \in Owners /\ r.body = docs[d].body /\ docs[d] # NoDoc
    BY <1>3, <2>2
  <2>4. docs[d] \in DocRows
    BY <1>2, <2>3
  <2>5. vectors'[d] = [owner |-> docs[d].owner, body |-> r.body, model |-> model, readAs |-> r.owner]
    BY <1>1, <1>4, <2>3 DEF r
  <2>6. [owner |-> docs[d].owner, body |-> docs[d].body, model |-> model, readAs |-> r.owner] \in VectorRows
    BY <1>2, <2>3, <2>4 DEF DocRows, VectorRows
  <2> QED
    BY <2>2, <2>3, <2>4, <2>5, <2>6 DEF r
<1>5. \A d \in Ids : ~Made(d) => vectors'[d] = vectors[d]
  BY <1>1
<1> HIDE DEF Row
<1>6. vectors' \in [Ids -> {NoVector} \cup VectorRows]
  <2>1. \A d \in Ids : vectors'[d] \in {NoVector} \cup VectorRows
    BY <1>2, <1>4, <1>5
  <2>2. vectors' = [d \in Ids |-> vectors'[d]]
    BY <1>1
  <2> QED
    BY <2>1, <2>2
<1>7. \A d \in Ids : d \in Embedded' <=> d \in Embedded \/ Made(d)
  BY <1>4, <1>5, NoRows DEF Embedded
<1>8. Embedded' \subseteq Ids /\ Stored' = Stored
  BY <1>1 DEF Embedded, Stored
<1>9. VectorTypes'
  BY <1>1, <1>6, <1>8 DEF VectorInv, VectorTypes
<1>10. ASSUME NEW d \in Embedded'
       PROVE  d \in Stored' /\ vectors'[d].body = docs'[d].body /\ vectors'[d].owner = docs'[d].owner
  <2>1. CASE Made(d)
    BY <1>1, <1>4, <1>8, <2>1 DEF Stored
  <2>2. CASE ~Made(d)
    BY <1>1, <1>5, <1>7, <1>8, <2>2 DEF VectorInv, VectorsTrue
  <2> QED
    BY <2>1, <2>2
<1>11. VectorsTrue'
  BY <1>10 DEF VectorsTrue
<1>12. ASSUME NEW u \in Owners, matrix'[u].on
       PROVE  /\ \A d \in DOMAIN matrix'[u].rows : matrix'[u].rows[d][2] = model'
              /\ \A d \in Embedded' : vectors'[d].owner = u /\ vectors'[d].readAs = u /\ vectors'[d].model = model' =>
                   d \in DOMAIN matrix'[u].rows /\ matrix'[u].rows[d][1] = vectors'[d].body
  <2>1. matrix[u].on /\ matrix'[u].rows = Folded(u, written)
    BY <1>1, <1>12
  <2> DEFINE mine == {r \in written : r.owner = u}
             Mine(d) == CHOOSE r \in mine : r.id = d
  <2>2. matrix'[u].rows = [d \in DOMAIN matrix[u].rows \cup {r.id : r \in mine} |->
           IF \E r \in mine : r.id = d THEN <<Mine(d).body, model>> ELSE matrix[u].rows[d]]
    BY <2>1 DEF Folded
  <2>3. ASSUME NEW d, \E r \in mine : r.id = d
        PROVE  d \in DOMAIN matrix'[u].rows /\ matrix'[u].rows[d] = <<docs[d].body, model>>
    <3>1. Mine(d) \in mine /\ Mine(d).id = d
      BY <2>3
    <3>2. Mine(d).body = docs[d].body
      BY <1>3, <3>1
    <3> QED
      BY <2>2, <2>3, <3>2
  <2>4. ASSUME NEW d \in DOMAIN matrix'[u].rows, ~\E r \in mine : r.id = d
        PROVE  d \in DOMAIN matrix[u].rows /\ matrix'[u].rows[d] = matrix[u].rows[d]
    BY <2>2, <2>4
  <2>5. \A d \in DOMAIN matrix[u].rows : d \in DOMAIN matrix'[u].rows
    BY <2>2
  <2> HIDE DEF mine
  <2>6. \A d \in DOMAIN matrix'[u].rows : matrix'[u].rows[d][2] = model
    BY <2>1, <2>3, <2>4 DEF VectorInv, MatrixFollows
  <2>7. ASSUME NEW d \in Embedded', vectors'[d].owner = u, vectors'[d].readAs = u, vectors'[d].model = model
        PROVE  d \in DOMAIN matrix'[u].rows /\ matrix'[u].rows[d][1] = vectors'[d].body
    <3>1. CASE Made(d)
      <4>1. Row(d) \in mine /\ Row(d).id = d /\ vectors'[d].body = docs[d].body
        <5>1. /\ Row(d) \in written /\ Row(d).id = d
              /\ vectors'[d] = [owner |-> docs[d].owner, body |-> docs[d].body, model |-> model,
                                readAs |-> Row(d).owner]
          BY <1>4, <1>8, <3>1
        <5>2. vectors'[d].readAs = Row(d).owner /\ vectors'[d].body = docs[d].body
          BY <5>1
        <5> QED
          BY <2>7, <5>1, <5>2 DEF mine
      <4> QED
        BY <2>3, <4>1
    <3>2. CASE ~Made(d)
      <4>1. d \in Embedded /\ vectors'[d] = vectors[d] /\ d \in Ids
        BY <1>5, <1>7, <1>8, <3>2
      <4>2. d \in DOMAIN matrix[u].rows /\ matrix[u].rows[d][1] = vectors[d].body
        BY <2>1, <2>7, <4>1 DEF VectorInv, MatrixFollows
      <4>3. ~\E r \in mine : r.id = d
        BY <3>2 DEF mine
      <4> QED
        BY <2>4, <2>5, <4>1, <4>2, <4>3
    <3> QED
      BY <3>1, <3>2
  <2> QED
    BY <1>1, <2>6, <2>7
<1>13. MatrixFollows'
  BY <1>12 DEF MatrixFollows
<1>14. ASSUME NEW d \in steady \ skipped', Seen(d) PROVE Seen(d)'
  <2>1. d \in Ids
    BY DEF VectorInv, VectorTypes, Stored
  <2>2. CASE \E r \in page : r.id = d /\ SameWords(r)
    <3>1. Made(d)
      BY <1>1, <2>2
    <3> QED
      BY <1>7, <2>1, <3>1 DEF Seen
  <2>3. CASE d \in Embedded \/ d > pass.cursor
    BY <1>1, <1>7, <2>1, <2>3 DEF Seen
  <2> QED
    BY <1>14, <2>2, <2>3 DEF Seen
<1>15. \A d \in Embedded' : Made(d) \/ (d \in Embedded /\ vectors'[d] = vectors[d])
  BY <1>5, <1>7, <1>8
<1>16. purged' => \A d \in Embedded' : vectors'[d].model = model'
  BY <1>1, <1>4, <1>8, <1>15 DEF VectorInv, PassGoesOn
<1>17. pass'.on => purged' /\ \A d \in steady' \ skipped' : Seen(d)'
  BY <1>1, <1>14 DEF VectorInv, PassGoesOn
<1>18. PassGoesOn'
  BY <1>16, <1>17 DEF PassGoesOn
<1> QED
  BY <1>9, <1>11, <1>13, <1>18 DEF VectorInv

\* The rest: a pass ends, a matrix comes or goes, another process starts.
LEMMA RestKeepsVectors ==
  ASSUME VectorInv,
         EndPass \/ EmbedderFails \/ (\E u \in Owners : Query(u) \/ Evict(u)) \/ \E m \in Models : NewProcess(m)
  PROVE  VectorInv'
<1>1. /\ UNCHANGED <<docs, vectors, Stored, Embedded>> /\ model' \in Models
      /\ \A r : SameWords(r)' <=> SameWords(r)
  BY DEF EndPass, EmbedderFails, Query, Evict, NewProcess, Stored, Embedded, SameWords, VectorInv, VectorTypes
<1>2. VectorsTrue'
  BY <1>1 DEF VectorInv, VectorsTrue
<1>3. CASE EndPass \/ EmbedderFails
  <2>1. /\ UNCHANGED <<matrix, model, purged, skipped>> /\ pass' = [pass EXCEPT !.on = FALSE]
        /\ page' \subseteq page /\ steady' \subseteq steady
    BY <1>3 DEF EndPass, EmbedderFails
  <2>2. pass' \in [on : BOOLEAN, cursor : 0 .. MaxDocs] /\ pass'.on = FALSE
    BY <2>1 DEF VectorInv, VectorTypes
  <2>3. VectorTypes' /\ MatrixFollows'
    BY <1>1, <2>1, <2>2 DEF VectorInv, VectorTypes, MatrixFollows
  <2>5. PassGoesOn'
    BY <1>1, <2>1, <2>2 DEF VectorInv, PassGoesOn
  <2> QED
    BY <1>2, <2>3, <2>5 DEF VectorInv
<1>4. CASE \E u \in Owners : Query(u) \/ Evict(u)
  <2>1. PICK u \in Owners : Query(u) \/ Evict(u)
    BY <1>4
  <2>2. UNCHANGED <<model, purged, pass, page, skipped, steady>>
    BY <2>1 DEF Query, Evict
  <2>3. matrix = [v \in Owners |-> matrix[v]]
    BY DEF VectorInv, VectorTypes
  <2>4. PICK row : matrix' = [matrix EXCEPT ![u] = row]
    BY <2>1 DEF Query, Evict
  <2>5. matrix' = [v \in Owners |-> matrix'[v]] /\ \A v \in Owners \ {u} : matrix'[v] = matrix[v]
    BY <2>3, <2>4
  <2>6. matrix'[u].on =>
          /\ matrix'[u].rows = [d \in OwnModel(u) |-> <<vectors[d].body, vectors[d].model>>]
    BY <2>1, <2>3 DEF Query, Evict
  <2>7. matrix'[u].on =>
          /\ \A d \in DOMAIN matrix'[u].rows : matrix'[u].rows[d][2] = model
          /\ \A d \in Embedded : vectors[d].owner = u /\ vectors[d].model = model =>
               d \in DOMAIN matrix'[u].rows /\ matrix'[u].rows[d][1] = vectors[d].body
    BY <2>6 DEF OwnModel
  <2>8. VectorTypes'
    BY <1>1, <2>2, <2>5 DEF VectorInv, VectorTypes
  <2>9. MatrixFollows'
    BY <1>1, <2>2, <2>5, <2>7 DEF VectorInv, MatrixFollows
  <2>10. PassGoesOn'
    BY <1>1, <2>2 DEF VectorInv, PassGoesOn, Seen
  <2> QED
    BY <1>2, <2>8, <2>9, <2>10 DEF VectorInv
<1>5. CASE \E m \in Models : NewProcess(m)
  <2>1. /\ purged' = FALSE /\ pass' = [on |-> FALSE, cursor |-> 0] /\ page' = {} /\ steady' = {}
        /\ matrix' = [u \in Owners |-> [on |-> FALSE, rows |-> Unloaded]]
    BY <1>5 DEF NewProcess, NoPass
  <2>2. pass'.on = FALSE /\ pass' \in [on : BOOLEAN, cursor : 0 .. MaxDocs] /\ \A u \in Owners : matrix'[u].on = FALSE
    BY <2>1, VectorAssumption
  <2>3. matrix' = [u \in Owners |-> matrix'[u]]
    BY <2>1
  <2>4. VectorTypes' /\ MatrixFollows' /\ PassGoesOn'
    BY <1>1, <2>1, <2>2, <2>3 DEF VectorInv, VectorTypes, MatrixFollows, PassGoesOn
  <2> QED
    BY <1>2, <2>4 DEF VectorInv
<1> QED
  BY <1>3, <1>4, <1>5

LEMMA VectorsInitInv == VectorInit => VectorInv
<1> SUFFICES ASSUME VectorInit PROVE VectorInv
  OBVIOUS
<1>1. /\ docs = [d \in Ids |-> NoDoc] /\ vectors = [d \in Ids |-> NoVector]
      /\ matrix = [u \in Owners |-> [on |-> FALSE, rows |-> Unloaded]]
      /\ model \in Models /\ purged = FALSE /\ pass = [on |-> FALSE, cursor |-> 0] /\ page = {}
      /\ steady = {}
  BY DEF VectorInit, NoPass
<1>2. pass.on = FALSE /\ pass \in [on : BOOLEAN, cursor : 0 .. MaxDocs] /\ Embedded = {} /\ \A u \in Owners : matrix[u].on = FALSE
  BY <1>1, VectorAssumption DEF Embedded
<1>3. matrix = [u \in Owners |-> matrix[u]]
  BY <1>1
<1> QED
  BY <1>1, <1>2, <1>3 DEF VectorInv, VectorTypes, VectorsTrue, MatrixFollows, PassGoesOn

LEMMA VectorsStepInv == VectorInv /\ [VectorNext]_vectorVars => VectorInv'
<1> SUFFICES ASSUME VectorInv, [VectorNext]_vectorVars PROVE VectorInv'
  OBVIOUS
<1>1. CASE UNCHANGED vectorVars
  <2>1. UNCHANGED <<docs, vectors, matrix, model, purged, pass, page, skipped, steady>>
    BY <1>1 DEF vectorVars
  <2>2. UNCHANGED <<Stored, Embedded>> /\ (\A d : Seen(d)' <=> Seen(d))
    BY <2>1 DEF Stored, Embedded, Seen, SameWords
  <2> QED
    BY <2>1, <2>2 DEF VectorInv, VectorTypes, VectorsTrue, MatrixFollows, PassGoesOn
<1>2. CASE \E u \in Owners, b \in Bodies : AddDoc(u, b)
  BY <1>2, AddKeeps
<1>3. CASE \E d \in Ids : DropDoc(d) \/ \E b \in Bodies : EditDoc(d, b)
  BY <1>3, WritesKeepVectors
<1>4. CASE StartPass
  BY <1>4, StartKeepsVectors
<1>5. CASE ReadPage
  BY <1>5, ReadKeepsVectors
<1>6. CASE \E failed \in SUBSET Ids : StoreBatch(failed)
  BY <1>6, StoreKeepsVectors
<1>7. CASE EndPass \/ EmbedderFails \/ (\E u \in Owners : Query(u) \/ Evict(u)) \/ \E m \in Models : NewProcess(m)
  BY <1>7, RestKeepsVectors
<1> QED
  BY <1>1, <1>2, <1>3, <1>4, <1>5, <1>6, <1>7 DEF VectorNext

\* A pass that finds nothing more to do has done it all.
LEMMA PassEndsComplete == VectorInv => PassComplete
<1> SUFFICES ASSUME VectorInv, pass.on, page = {}, Batch.rows = {}, NEW d \in steady \ skipped
             PROVE  d \in Embedded /\ vectors[d].model = model
  BY DEF PassComplete
<1>1. d \in Stored /\ (d \in Embedded \/ d > pass.cursor)
  BY DEF VectorInv, VectorTypes, PassGoesOn, Seen
<1>2. Unembedded(pass.cursor) \subseteq skipped
  BY BatchSees DEF VectorInv, VectorTypes, Sees
<1>3. d \in Embedded
  BY <1>1, <1>2 DEF Unembedded
<1> QED
  BY <1>3 DEF VectorInv, PassGoesOn

\* The similar tier answers from what the tracker says now, and a pass that
\* ends has seen everything that was there all along: for any number of
\* documents and users, any size of a batch, and any writes, failures and
\* restarts while the embedder works.
THEOREM SimilarStaysTrue == VectorInit /\ [][VectorNext]_vectorVars => []SimilarIsTrue
<1>1. VectorInv => SimilarIsTrue
  BY PassEndsComplete DEF VectorInv, SimilarIsTrue
<1> QED
  BY <1>1, VectorsInitInv, VectorsStepInv, PTL

-----------------------------------------------------------------------------
(* The three side by side (MCTracker). *)

\* A step of the whole is one of a part, and the others stutter.
LEMMA StepOfAPart ==
  [Next]_vars => [ThreadNext]_threadVars /\ [HandoverNext]_handoverVars /\ [VectorNext]_vectorVars
<1>1. CASE Next
  BY <1>1 DEF Next, InThread, InHandover, InVectors, Only
<1>2. CASE UNCHANGED vars
  BY <1>2 DEF vars
<1> QED
  BY <1>1, <1>2

\* What the run explores keeps what each part promises, whatever the others do.
THEOREM TrackerIsTrue == Spec => [](ThreadHolds /\ OffersSettled /\ SimilarFound)
<1>1. Init => ThreadInit /\ HandoverInit /\ VectorInit
  BY DEF Init
<1>2. Spec => /\ ThreadInit /\ [][ThreadNext]_threadVars
              /\ HandoverInit /\ [][HandoverNext]_handoverVars
              /\ VectorInit /\ [][VectorNext]_vectorVars
  BY <1>1, StepOfAPart, PTL DEF Spec
<1>3. SimilarIsTrue => SimilarFound
  BY DEF SimilarFound
<1> QED
  BY <1>2, <1>3, ThreadIsKept, ThreadInvHolds, HandoverIsKept, HandoverSettles, SimilarStaysTrue, PTL
=============================================================================
