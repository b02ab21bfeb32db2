---------------------------- MODULE ConvosProofs ----------------------------
(***************************************************************************)
(* Theorems about what is recorded of a conversation, for every value of   *)
(* the constants: whether it is archived, its missions and its title, the  *)
(* orders and calls to its box, what of it the user was told he did not    *)
(* see, its badge and what of it was seen, what its asks come from.  Each  *)
(* part has its inductive invariant; the last section brings the parts     *)
(* together.                                                               *)
(***************************************************************************)
EXTENDS MCConvos, WellFoundedInduction, FiniteSetTheorems, TLAPS

-----------------------------------------------------------------------------
(* Least and greatest numbers.                                             *)

\* A set of naturals has a least member.
LEMMA LeastNatural ==
  ASSUME NEW D \in SUBSET Nat, D # {}
  PROVE  \E d \in D : \A k \in D : d <= k
<1> DEFINE R == OpToRel(<, Nat)
<1>1. IsWellFoundedOn(R, Nat)
  BY NatLessThanWellFounded
<1>2. \A z, w \in Nat : z < w => <<z, w>> \in R
  BY DEF OpToRel
<1> HIDE DEF R
<1>3. PICK d \in D : \A k \in D : ~(<<k, d>> \in R)
  BY <1>1, WFMin
<1>4. \A k \in D : ~(k < d) /\ k \in Nat /\ d \in Nat
  BY <1>2, <1>3
<1> QED
  BY <1>4

\* The greatest of a set of positions.
LEMMA LastPosition ==
  ASSUME NEW n \in Nat, NEW S \in SUBSET (0..n), S # {}
  PROVE  Max(S) \in S
<1> DEFINE D == {n - p : p \in S}
<1>1. D \in SUBSET Nat
  OBVIOUS
<1>2. D # {}
  OBVIOUS
<1>3. PICK d \in D : \A k \in D : d <= k
  <2> HIDE DEF D
  <2> QED
    BY <1>1, <1>2, LeastNatural
<1>4. PICK p \in S : d = n - p
  BY <1>3
<1>5. \A q \in S : p >= q
  <2> SUFFICES ASSUME NEW q \in S
               PROVE  p >= q
    OBVIOUS
  <2>1. n - q \in D /\ d <= n - q
    BY <1>3
  <2>2. n - p <= n - q /\ p \in Int /\ q \in Int
    BY <2>1, <1>4
  <2> QED
    BY <2>2
<1>6. \E z \in S : \A q \in S : z >= q
  BY <1>5
<1> QED
  BY <1>6 DEF Max

\* A set of times has a greatest.
LEMMA LatestTime ==
    ASSUME NEW n \in Nat, NEW S \in SUBSET (0 .. n), S # {}
    PROVE  \E t \in S : \A u \in S : u <= t
<1> DEFINE D == {n - t : t \in S}
<1>1. D \subseteq Nat /\ D # {}
  <2>1. \A t \in S : t \in Nat /\ t <= n /\ n - t \in Nat
    OBVIOUS
  <2>2. PICK t \in S : TRUE
    OBVIOUS
  <2>3. n - t \in D
    BY <2>2
  <2> QED
    BY <2>1, <2>3
<1>2. PICK d \in D : \A e \in D : d <= e
  BY <1>1, LeastNatural
<1>3. PICK t \in S : d = n - t
  OBVIOUS
<1>4. ASSUME NEW u \in S PROVE u <= t
  <2>1. n - t <= n - u
    BY <1>2, <1>3
  <2>2. t \in Nat /\ u \in Nat
    OBVIOUS
  <2> QED
    BY <2>1, <2>2
<1> QED
  BY <1>4

-----------------------------------------------------------------------------
(* Archive: the inductive invariant. *)

\* What the app shows differs from what is archived only where something
\* changed at or after the time it will ask for.
Known(from) ==
    \A c \in Conversations :
        (c \in view <=> c \in Archived) \/ (updated[c] # Never /\ from <= updated[c])

\* While it is away it will ask from `since`, while it replays from `asked`.
ViewCatchesUp ==
    /\ link # "live" => Known(since)
    /\ link = "replay" => asked = since
    /\ link = "live" => view = Archived
    /\ since <= now
    /\ \A c \in Conversations : updated[c] # Never => updated[c] <= now

\* What a key wrote is remembered for as long as it may be repeated.
KeyRemembered(k) ==
    written[k] # Never =>
        /\ written[k] <= now
        /\ now < written[k] + Ttl => [key |-> k, expires |-> written[k] + Ttl] \in idem

ArchiveInv ==
    /\ ArchiveTypeOK /\ ViewCatchesUp /\ NoMessageHidden /\ PeerOncePerWindow
    /\ \A k \in Keys : KeyRemembered(k)

\* The clock and NULL.
LEMMA TimeIs ==
    /\ Time \subseteq Nat /\ Never \notin Time /\ 0 \in Time
    /\ \A t \in Time : t <= MaxNow
BY ArchiveAssumption DEF Time

\* What the app asks from next: no later than now.
LEMMA AtIsTime ==
    ASSUME ArchiveInv, NEW from \in Time, from <= now
    PROVE  AtOf(from) \in Time /\ AtOf(from) <= now
<1> DEFINE S == {from} \cup {updated[c] : c \in ChangesSince(from)}
<1>1. now \in Nat /\ now \in Time
  BY TimeIs DEF ArchiveInv, ArchiveTypeOK
<1>2. \A t \in S : t \in 0 .. now /\ t \in Time
  <2>1. ASSUME NEW c \in ChangesSince(from) PROVE updated[c] \in Time /\ updated[c] <= now
    BY DEF ChangesSince, ArchiveInv, ArchiveTypeOK, ViewCatchesUp
  <2> QED
    BY <1>1, <2>1, TimeIs
<1>3. PICK t \in S : \A u \in S : u <= t
  <2>1. S \in SUBSET (0 .. now) /\ S # {}
    BY <1>2
  <2> HIDE DEF S
  <2> QED
    BY <1>1, <2>1, LatestTime
<1>4. \A c \in ChangesSince(from) : updated[c] <= t /\ from <= t
  BY <1>3
<1>5. AtOf(from) \in S
  BY <1>4 DEF AtOf
<1> HIDE DEF S
<1> QED
  BY <1>1, <1>2, <1>5

\* The answer brings the app up to date.
LEMMA AppliedIsCurrent ==
    ASSUME NEW from, Known(from), view \subseteq Conversations, \A c \in Conversations : updated[c] # Never => from \in Nat /\ updated[c] \in Nat
    PROVE  Applied(from) = Archived
<1>1. ASSUME NEW c \in Conversations PROVE c \in Applied(from) <=> c \in Archived
  <2>1. CASE c \in ChangesSince(from)
    BY <2>1 DEF Applied
  <2>2. CASE c \notin ChangesSince(from)
    <3>1. c \in view <=> c \in Archived
      BY <2>2 DEF Known, ChangesSince
    <3> QED
      BY <2>2, <3>1 DEF Applied
  <2> QED
    BY <2>1, <2>2
<1>2. Applied(from) \subseteq Conversations /\ Archived \subseteq Conversations
  BY DEF Applied, Archived
<1> QED
  BY <1>1, <1>2

-----------------------------------------------------------------------------
(* Archive: the app. *)

\* Hello, Register, Disconnect.
LEMMA AppKeeps ==
    ASSUME ArchiveInv, (\E wait \in BOOLEAN : Hello(wait)) \/ Register \/ Disconnect
    PROVE  ArchiveInv'
<1>1. ArchiveTypeOK /\ ViewCatchesUp
  BY DEF ArchiveInv
<1>2. UNCHANGED <<now, newest, archived, unarchived, updated, idem, spoken, written, doubled>>
  BY DEF Hello, Register, Disconnect, tables
<1>3. Archived' = Archived /\ Archived \subseteq Conversations
  BY <1>2 DEF Archived
<1>4. ArchiveTypeOK' /\ ViewCatchesUp'
  <2>1. since \in Time /\ since <= now /\ view \subseteq Conversations /\ asked \in Time
    BY <1>1 DEF ArchiveTypeOK, ViewCatchesUp
  <2>2. AtOf(since) \in Time /\ AtOf(since) <= now
    BY <2>1, AtIsTime
  <2>3. link # "live" => Applied(since) = Archived
    BY <1>1, <2>1, AppliedIsCurrent, TimeIs DEF ViewCatchesUp, ArchiveTypeOK
  <2>4. CASE \E wait \in BOOLEAN : Hello(wait)
    <3>1. /\ link = "off" /\ link' \in {"replay", "live"} /\ view' = Archived /\ since' = AtOf(since)
          /\ asked' \in {AtOf(since), 0} /\ (link' = "replay" => asked' = since')
      BY <2>3, <2>4 DEF Hello
    <3>2. Known(since)'
      BY <1>3, <3>1 DEF Known
    <3>3. ArchiveTypeOK'
      BY <1>1, <1>2, <1>3, <2>2, <3>1, TimeIs DEF ArchiveTypeOK
    <3> QED
      BY <1>1, <1>2, <1>3, <2>2, <3>1, <3>2, <3>3 DEF ViewCatchesUp
  <2>5. CASE Register
    <3>1. /\ link = "replay" /\ link' = "live" /\ view' = Applied(asked) /\ asked' = 0
          /\ since' \in {since, AtOf(asked)} /\ asked = since
      BY <1>1, <2>5 DEF Register, ViewCatchesUp
    <3>2. ArchiveTypeOK'
      BY <1>1, <1>2, <1>3, <2>2, <2>3, <3>1, TimeIs DEF ArchiveTypeOK
    <3> QED
      BY <1>1, <1>2, <1>3, <2>1, <2>2, <2>3, <3>1, <3>2 DEF ViewCatchesUp
  <2>6. CASE Disconnect
    <3>1. link' = "off" /\ asked' = 0 /\ UNCHANGED <<view, since>>
      BY <2>6 DEF Disconnect
    <3>2. Known(since)'
      <4>1. Known(since)
        BY <1>1 DEF ViewCatchesUp, Known
      <4> QED
        BY <1>2, <1>3, <3>1, <4>1 DEF Known
    <3>3. ArchiveTypeOK'
      BY <1>1, <1>2, <3>1, TimeIs DEF ArchiveTypeOK
    <3> QED
      BY <1>1, <1>2, <3>1, <3>2, <3>3 DEF ViewCatchesUp
  <2> QED
    BY <2>4, <2>5, <2>6
<1>5. NoMessageHidden' /\ PeerOncePerWindow'
  BY <1>2, <1>3 DEF ArchiveInv, NoMessageHidden, PeerOncePerWindow
<1>6. \A k \in Keys : KeyRemembered(k)'
  BY <1>2 DEF ArchiveInv, KeyRemembered
<1> QED
  BY <1>4, <1>5, <1>6 DEF ArchiveInv

-----------------------------------------------------------------------------
(* Archive: the server. *)

\* What a change of the table does: conversations S change now, and an app that
\* is there hears of those of them that are archived now, or no more.
LEMMA ChangeHeard ==
    ASSUME ArchiveInv, NEW S \in SUBSET Conversations,
           UNCHANGED <<link, asked>>, now' = now,
           \A c \in Conversations \ S : (c \in Archived' <=> c \in Archived) /\ updated'[c] = updated[c],
           \A c \in S : updated'[c] = now,
           link = "live" => view' = Archived' /\ since' \in {since, now},
           link # "live" => UNCHANGED <<view, since>>
    PROVE  ViewCatchesUp'
<1>1. now \in Time /\ now \in Nat /\ since \in Nat /\ since <= now
  BY TimeIs DEF ArchiveInv, ArchiveTypeOK, ViewCatchesUp
<1>2. \A c \in Conversations : updated'[c] # Never => updated'[c] <= now'
  BY <1>1 DEF ArchiveInv, ViewCatchesUp
<1>3. link # "live" => Known(since)'
  <2> SUFFICES ASSUME link # "live", NEW c \in Conversations
               PROVE  (c \in view' <=> c \in Archived') \/ (updated'[c] # Never /\ since' <= updated'[c])
    BY DEF Known
  <2>1. (c \in view <=> c \in Archived) \/ (updated[c] # Never /\ since <= updated[c])
    BY DEF ArchiveInv, ViewCatchesUp, Known
  <2>2. CASE c \in S
    BY <1>1, <2>2, TimeIs
  <2>3. CASE c \notin S
    BY <2>1, <2>3
  <2> QED
    BY <2>2, <2>3
<1> QED
  BY <1>1, <1>2, <1>3 DEF ArchiveInv, ViewCatchesUp

\* A message, and what it brings back.
LEMMA MessageAppended ==
    ASSUME ArchiveInv, NEW c \in Conversations, AppendMessage(c)
    PROVE  /\ now' = now
           /\ newest' \in [Conversations -> Time] /\ archived' \in [Conversations -> Time \cup {Never}]
           /\ unarchived' \in [Conversations -> Time] /\ updated' \in [Conversations -> Time \cup {Never}]
           /\ spoken' \in [Conversations -> BOOLEAN]
           /\ \A z \in Conversations : /\ z \in BroughtBack(c) => archived'[z] = Never /\ updated'[z] = now
                                       /\ z \notin BroughtBack(c) => archived'[z] = archived[z] /\ updated'[z] = updated[z]
           /\ Archived' = Archived \ BroughtBack(c)
           /\ NoMessageHidden'
<1>1. ArchiveTypeOK
  BY DEF ArchiveInv
<1>2. now' = now /\ newest' \in [Conversations -> Time] /\ now \in Time
  BY <1>1 DEF AppendMessage, ArchiveTypeOK
<1>3. archived' \in [Conversations -> Time \cup {Never}] /\ \A z \in Conversations : archived'[z] = IF z \in BroughtBack(c) THEN Never ELSE archived[z]
  BY <1>1 DEF AppendMessage, ArchiveTypeOK, Set
<1>4. updated' \in [Conversations -> Time \cup {Never}] /\ \A z \in Conversations : updated'[z] = IF z \in BroughtBack(c) THEN now ELSE updated[z]
  BY <1>1 DEF AppendMessage, ArchiveTypeOK, Set
<1>5. unarchived' \in [Conversations -> Time]
  BY <1>1 DEF AppendMessage, ArchiveTypeOK, Set
<1>6. /\ spoken' \in [Conversations -> BOOLEAN]
      /\ \A z \in Conversations \ {c} : spoken'[z] = spoken[z]
      /\ spoken'[c] = (archived'[c] # Never)
  BY <1>1 DEF AppendMessage, ArchiveTypeOK
<1>7. Archived' = Archived \ BroughtBack(c)
  BY <1>3 DEF Archived
<1>8. NoMessageHidden'
  <2> SUFFICES ASSUME NEW z \in Top, z \in Archived' PROVE ~spoken'[z]
    BY DEF NoMessageHidden
  <2>1. z \in Archived /\ z \in Conversations /\ z \notin BroughtBack(c)
    BY <1>7 DEF Conversations
  <2>2. z # c
    BY <2>1 DEF BroughtBack
  <2> QED
    BY <1>6, <2>1, <2>2 DEF ArchiveInv, NoMessageHidden
<1> QED
  BY <1>2, <1>3, <1>4, <1>5, <1>6, <1>7, <1>8

\* Message.
LEMMA MessageKeeps ==
    ASSUME ArchiveInv, NEW c \in Conversations, Message(c)
    PROVE  ArchiveInv'
<1>1. AppendMessage(c) /\ ArchiveTypeOK /\ ViewCatchesUp
  BY DEF ArchiveInv, Message
<1>2. UNCHANGED <<link, asked, idem, written, doubled>>
  BY DEF Message
<1>3. BroughtBack(c) \subseteq {c} /\ BroughtBack(c) \subseteq Archived /\ Archived \subseteq Conversations
  BY DEF BroughtBack, Archived
<1>4. /\ link = "live" => view' = Archived' /\ since' \in {since, now}
      /\ link # "live" => UNCHANGED <<view, since>>
  <2>1. link = "live" => view = Archived
    BY <1>1 DEF ViewCatchesUp
  <2>2. CASE BroughtBack(c) = {}
    <3>1. HearsMessage(c) /\ Archived' = Archived
      BY <1>1, <2>2, MessageAppended DEF Message
    <3>2. c \in Top => c \notin Archived
      BY <2>2 DEF BroughtBack
    <3> QED
      BY <2>1, <3>1, <3>2 DEF HearsMessage
  <2>3. CASE BroughtBack(c) # {}
    <3>1. Hears({}, {c}) /\ Archived' = Archived \ {c}
      BY <1>1, <1>3, <2>3, MessageAppended DEF Message
    <3> QED
      BY <2>1, <3>1 DEF Hears
  <2> QED
    BY <2>2, <2>3
<1>5. ViewCatchesUp'
  BY <1>1, <1>2, <1>3, <1>4, MessageAppended, ChangeHeard
<1>6. ArchiveTypeOK'
  <2>1. now \in Time /\ since' \in Time /\ view' \subseteq Conversations
    BY <1>1, <1>3, <1>4, MessageAppended DEF ArchiveTypeOK
  <2> QED
    BY <1>1, <1>2, <2>1, MessageAppended DEF ArchiveTypeOK
<1>7. NoMessageHidden' /\ PeerOncePerWindow'
  BY <1>1, <1>2, MessageAppended DEF ArchiveInv, PeerOncePerWindow
<1>8. \A k \in Keys : KeyRemembered(k)'
  BY <1>1, <1>2, MessageAppended DEF ArchiveInv, KeyRemembered
<1> QED
  BY <1>5, <1>6, <1>7, <1>8 DEF ArchiveInv

\* PeerMessage: written twice only when the first is forgotten.
LEMMA PeerKeeps ==
    ASSUME ArchiveInv, NEW k \in Keys, NEW c \in Conversations, PeerMessage(k, c)
    PROVE  ArchiveInv'
<1> DEFINE row(q) == [key |-> q, expires |-> written[q] + Ttl]
           new == [key |-> k, expires |-> now + Ttl]
<1>1. ArchiveTypeOK /\ ViewCatchesUp /\ UNCHANGED <<link, asked>> /\ LiveRows \subseteq idem
  BY DEF ArchiveInv, PeerMessage, LiveRows
<1>2. now \in Nat /\ now \in Time /\ Ttl \in Nat /\ Ttl > 0
  BY <1>1, TimeIs, ArchiveAssumption DEF ArchiveTypeOK
<1>3. \A q \in Keys : written[q] # Never /\ now < written[q] + Ttl => row(q) \in LiveRows
  <2> TAKE q \in Keys
  <2>1. HAVE written[q] # Never /\ now < written[q] + Ttl
  <2>2. row(q) \in idem
    BY <2>1 DEF ArchiveInv, KeyRemembered
  <2>3. row(q).expires > now
    BY <1>1, <1>2, <2>1, TimeIs DEF ArchiveTypeOK
  <2> QED
    BY <2>2, <2>3 DEF LiveRows
<1>4. CASE \E r \in LiveRows : r.key = k
  <2>1. /\ idem' = LiveRows
        /\ UNCHANGED <<now, newest, archived, unarchived, updated, view, since, spoken, written, doubled>>
    BY <1>4 DEF PeerMessage, tables
  <2>2. Archived' = Archived
    BY <2>1 DEF Archived
  <2>3. ArchiveTypeOK' /\ ViewCatchesUp'
    BY <1>1, <2>1, <2>2 DEF ArchiveTypeOK, ViewCatchesUp, Known
  <2>4. \A q \in Keys : KeyRemembered(q)'
    BY <1>3, <2>1 DEF ArchiveInv, KeyRemembered
  <2> QED
    BY <2>1, <2>2, <2>3, <2>4 DEF ArchiveInv, NoMessageHidden, PeerOncePerWindow
<1>5. CASE ~\E r \in LiveRows : r.key = k
  <2>1. /\ AppendMessage(c) /\ HearsMessage(c) /\ idem' = LiveRows \cup {new}
        /\ written' = [written EXCEPT ![k] = now]
        /\ doubled' = IF written[k] # Never /\ now - written[k] < Ttl THEN doubled \cup {k} ELSE doubled
    BY <1>5 DEF PeerMessage
  <2>2. ~(written[k] # Never /\ now - written[k] < Ttl)
    <3>1. SUFFICES ASSUME written[k] # Never, now - written[k] < Ttl PROVE FALSE
      OBVIOUS
    <3>2. written[k] \in Nat
      BY <1>1, <3>1, TimeIs DEF ArchiveTypeOK
    <3>3. row(k) \in LiveRows
      BY <1>2, <1>3, <3>1, <3>2
    <3>4. row(k).key = k
      OBVIOUS
    <3> QED
      BY <1>5, <3>3, <3>4
  <2>3. doubled' = doubled
    BY <2>1, <2>2
  <2>4. BroughtBack(c) \subseteq {c} /\ BroughtBack(c) \subseteq Archived /\ Archived \subseteq Conversations
        /\ (c \in Top /\ c \in Archived => BroughtBack(c) = {c}) /\ (c \notin Top => BroughtBack(c) = {})
    BY DEF BroughtBack, Archived
  <2>5. /\ link = "live" => view' = Archived' /\ since' \in {since, now}
        /\ link # "live" => UNCHANGED <<view, since>>
    <3>1. link = "live" => view = Archived
      BY <1>1 DEF ViewCatchesUp
    <3>2. Archived' = Archived \ BroughtBack(c)
      BY <2>1, MessageAppended
    <3> QED
      BY <2>1, <2>4, <3>1, <3>2 DEF HearsMessage
  <2>6. ViewCatchesUp'
    BY <1>1, <2>1, <2>4, <2>5, MessageAppended, ChangeHeard
  <2>7. /\ written' \in [Keys -> Time \cup {Never}] /\ written'[k] = now
        /\ \A q \in Keys \ {k} : written'[q] = written[q]
    BY <1>1, <1>2, <2>1 DEF ArchiveTypeOK
  <2>8. ArchiveTypeOK'
    <3>1. idem' \subseteq [key : Keys, expires : Nat]
      BY <1>1, <1>2, <2>1 DEF ArchiveTypeOK
    <3>2. since' \in Time /\ view' \subseteq Conversations
      BY <1>1, <1>2, <2>4, <2>5, <2>1, MessageAppended DEF ArchiveTypeOK
    <3> QED
      BY <1>1, <2>1, <2>3, <2>7, <3>1, <3>2, MessageAppended DEF ArchiveTypeOK
  <2>9. \A q \in Keys : KeyRemembered(q)'
    <3> TAKE q \in Keys
    <3>1. now' = now
      BY <2>1, MessageAppended
    <3>2. CASE q = k
      BY <1>2, <2>1, <2>7, <3>1, <3>2 DEF KeyRemembered
    <3>3. CASE q # k
      BY <1>3, <2>1, <2>7, <3>1, <3>3 DEF KeyRemembered, ArchiveInv
    <3> QED
      BY <3>2, <3>3
  <2> QED
    BY <2>1, <2>3, <2>6, <2>8, <2>9, MessageAppended DEF ArchiveInv, PeerOncePerWindow
<1> QED
  BY <1>4, <1>5

\* ArchiveByHand, UnarchiveByHand, Sweep.
LEMMA ArchivingKeeps ==
    ASSUME ArchiveInv,
           \/ \E c \in Conversations : ArchiveByHand(c) \/ UnarchiveByHand(c)
           \/ \E swept \in SUBSET Candidates : Sweep(swept)
    PROVE  ArchiveInv'
<1>1. ArchiveTypeOK /\ ViewCatchesUp
  BY DEF ArchiveInv
<1>2. UNCHANGED <<now, newest, idem, link, asked, written, doubled>>
  BY DEF ArchiveByHand, UnarchiveByHand, Sweep
<1>3. now \in Time /\ now # Never
  BY <1>1, TimeIs DEF ArchiveTypeOK
<1>4. PICK S \in SUBSET Conversations, away \in BOOLEAN :
        /\ S # {}
        /\ archived' \in [Conversations -> Time \cup {Never}] /\ updated' \in [Conversations -> Time \cup {Never}]
        /\ unarchived' \in [Conversations -> Time] /\ spoken' \in [Conversations -> BOOLEAN]
        /\ \A c \in S : archived'[c] = (IF away THEN now ELSE Never) /\ updated'[c] = now /\ spoken'[c] = FALSE
        /\ \A c \in Conversations \ S : archived'[c] = archived[c] /\ updated'[c] = updated[c] /\ spoken'[c] = spoken[c]
        /\ IF away THEN Hears(S, {}) ELSE Hears({}, S)
  <2>1. CASE \E c \in Conversations : UnarchiveByHand(c)
    <3>1. PICK c \in Conversations : UnarchiveByHand(c)
      BY <2>1
    <3>2. /\ archived' \in [Conversations -> Time \cup {Never}] /\ updated' \in [Conversations -> Time \cup {Never}]
          /\ unarchived' \in [Conversations -> Time] /\ spoken' \in [Conversations -> BOOLEAN]
          /\ archived'[c] = Never /\ updated'[c] = now /\ spoken'[c] = FALSE
          /\ \A z \in Conversations \ {c} : archived'[z] = archived[z] /\ updated'[z] = updated[z] /\ spoken'[z] = spoken[z]
          /\ Hears({}, {c})
      BY <1>1, <1>3, <3>1 DEF UnarchiveByHand, ArchiveTypeOK
    <3>3. WITNESS {c} \in SUBSET Conversations, FALSE \in BOOLEAN
    <3> QED
      BY <3>2
  <2>2. ASSUME NEW S \in SUBSET Conversations, S # {}, PutAway(S), Hears(S, {})
        PROVE  \E T \in SUBSET Conversations, away \in BOOLEAN :
        /\ T # {}
        /\ archived' \in [Conversations -> Time \cup {Never}] /\ updated' \in [Conversations -> Time \cup {Never}]
        /\ unarchived' \in [Conversations -> Time] /\ spoken' \in [Conversations -> BOOLEAN]
        /\ \A c \in T : archived'[c] = (IF away THEN now ELSE Never) /\ updated'[c] = now /\ spoken'[c] = FALSE
        /\ \A c \in Conversations \ T : archived'[c] = archived[c] /\ updated'[c] = updated[c] /\ spoken'[c] = spoken[c]
        /\ IF away THEN Hears(T, {}) ELSE Hears({}, T)
    <3>1. archived' \in [Conversations -> Time \cup {Never}] /\ \A c \in Conversations : archived'[c] = IF c \in S THEN now ELSE archived[c]
      BY <1>1, <1>3, <2>2 DEF PutAway, Set, ArchiveTypeOK
    <3>2. updated' \in [Conversations -> Time \cup {Never}] /\ \A c \in Conversations : updated'[c] = IF c \in S THEN now ELSE updated[c]
      BY <1>1, <1>3, <2>2 DEF PutAway, Set, ArchiveTypeOK
    <3>3. spoken' \in [Conversations -> BOOLEAN] /\ \A c \in Conversations : spoken'[c] = IF c \in S THEN FALSE ELSE spoken[c]
      BY <1>1, <2>2 DEF PutAway, Set, ArchiveTypeOK
    <3>4. unarchived' \in [Conversations -> Time]
      BY <1>1, <2>2 DEF PutAway, ArchiveTypeOK
    <3>5. WITNESS S \in SUBSET Conversations, TRUE \in BOOLEAN
    <3> QED
      BY <2>2, <3>1, <3>2, <3>3, <3>4
  <2>3. CASE \E c \in Conversations : ArchiveByHand(c)
    <3>1. PICK c \in Conversations : ArchiveByHand(c)
      BY <2>3
    <3>2. PutAway({c}) /\ Hears({c}, {}) /\ {c} \in SUBSET Conversations /\ {c} # {}
      BY <3>1 DEF ArchiveByHand
    <3> QED
      BY <2>2, <3>2
  <2>4. CASE \E swept \in SUBSET Candidates : Sweep(swept)
    <3>1. PICK swept \in SUBSET Candidates : Sweep(swept)
      BY <2>4
    <3>2. PutAway(swept) /\ Hears(swept, {}) /\ swept \in SUBSET Conversations /\ swept # {}
      BY <3>1 DEF Sweep, Candidates, Conversations
    <3> QED
      BY <2>2, <3>2
  <2> QED
    BY <2>1, <2>3, <2>4
<1>5. Archived' = IF away THEN Archived \cup S ELSE Archived \ S
  BY <1>3, <1>4 DEF Archived
<1>6. /\ link = "live" => view' = Archived' /\ since' \in {since, now}
      /\ link # "live" => UNCHANGED <<view, since>>
  <2>1. link = "live" => view = Archived
    BY <1>1 DEF ViewCatchesUp
  <2>2. CASE away
    BY <1>4, <1>5, <2>1, <2>2 DEF Hears
  <2>3. CASE ~away
    BY <1>4, <1>5, <2>1, <2>3 DEF Hears
  <2> QED
    BY <2>2, <2>3
<1>7. ViewCatchesUp'
  BY <1>2, <1>4, <1>5, <1>6, ChangeHeard
<1>8. ArchiveTypeOK'
  <2>1. since' \in Time /\ view' \subseteq Conversations
    BY <1>1, <1>3, <1>5, <1>6 DEF ArchiveTypeOK, Archived
  <2> QED
    BY <1>1, <1>2, <1>4, <2>1 DEF ArchiveTypeOK
<1>9. NoMessageHidden'
  <2> SUFFICES ASSUME NEW z \in Top, z \in Archived' PROVE ~spoken'[z]
    BY DEF NoMessageHidden
  <2>1. z \in Conversations
    BY DEF Conversations
  <2>2. CASE z \in S
    BY <1>4, <2>2
  <2>3. CASE z \notin S
    BY <1>4, <1>5, <2>1, <2>3 DEF ArchiveInv, NoMessageHidden
  <2> QED
    BY <2>2, <2>3
<1>10. PeerOncePerWindow' /\ \A k \in Keys : KeyRemembered(k)'
  BY <1>2 DEF ArchiveInv, PeerOncePerWindow, KeyRemembered
<1> QED
  BY <1>7, <1>8, <1>9, <1>10 DEF ArchiveInv

\* Tick.
LEMMA TickKeeps ==
    ASSUME ArchiveInv, Tick
    PROVE  ArchiveInv'
<1>1. now \in Nat /\ now' = now + 1 /\ now' \in Time /\ ArchiveTypeOK /\ since \in Nat
  BY TimeIs, ArchiveAssumption DEF ArchiveInv, ArchiveTypeOK, Tick, Time
<1>2. UNCHANGED <<newest, archived, unarchived, updated, idem, link, view, since, asked, spoken, written, doubled>>
  BY DEF Tick, tables, theApp
<1>3. Archived' = Archived
  BY <1>2 DEF Archived
<1>4. ArchiveTypeOK'
  BY <1>1, <1>2 DEF ArchiveTypeOK
<1>5. ViewCatchesUp'
  <2>1. \A c \in Conversations : updated[c] # Never => updated[c] \in Nat
    BY <1>1, TimeIs DEF ArchiveTypeOK
  <2> QED
    BY <1>1, <1>2, <1>3, <2>1 DEF ArchiveInv, ViewCatchesUp, Known
<1>6. \A k \in Keys : KeyRemembered(k)'
  <2> TAKE k \in Keys
  <2>1. written[k] # Never => written[k] \in Nat
    BY <1>1, TimeIs DEF ArchiveTypeOK
  <2>2. Ttl \in Nat
    BY ArchiveAssumption
  <2> QED
    BY <1>1, <1>2, <2>1, <2>2 DEF ArchiveInv, KeyRemembered
<1> QED
  BY <1>2, <1>3, <1>4, <1>5, <1>6 DEF ArchiveInv, NoMessageHidden, PeerOncePerWindow

\* At the start nothing is archived.
LEMMA ArchiveInitInv == ArchiveInit => ArchiveInv
<1> SUFFICES ASSUME ArchiveInit PROVE ArchiveInv
  OBVIOUS
<1>1. Archived = {}
  BY DEF ArchiveInit, Archived
<1>2. ArchiveTypeOK
  BY TimeIs DEF ArchiveInit, ArchiveTypeOK
<1>3. ViewCatchesUp
  BY <1>1 DEF ArchiveInit, ViewCatchesUp, Known
<1>4. NoMessageHidden /\ PeerOncePerWindow /\ \A k \in Keys : KeyRemembered(k)
  BY <1>1 DEF ArchiveInit, NoMessageHidden, PeerOncePerWindow, KeyRemembered
<1> QED
  BY <1>2, <1>3, <1>4 DEF ArchiveInv

\* An app that is connected shows what is archived, no archived conversation
\* has had a message since, and a key writes once in its window (setArchived,
\* unarchiveOnMessage and archiveChanges of archive.js, agent-idem.js).
THEOREM ArchiveIsTrue == ArchiveSpec => []ArchiveTrue
<1>1. ArchiveInv /\ [ArchiveNext]_archiveVars => ArchiveInv'
  <2> SUFFICES ASSUME ArchiveInv, [ArchiveNext]_archiveVars PROVE ArchiveInv'
    OBVIOUS
  <2>1. CASE \E c \in Conversations : Message(c)
    BY <2>1, MessageKeeps
  <2>2. CASE \E c \in Conversations, k \in Keys : PeerMessage(k, c)
    BY <2>2, PeerKeeps
  <2>3. CASE \/ \E c \in Conversations : ArchiveByHand(c) \/ UnarchiveByHand(c)
             \/ \E swept \in SUBSET Candidates : Sweep(swept)
    BY <2>3, ArchivingKeeps
  <2>4. CASE (\E wait \in BOOLEAN : Hello(wait)) \/ Register \/ Disconnect
    BY <2>4, AppKeeps
  <2>5. CASE Tick
    BY <2>5, TickKeeps
  <2>6. CASE UNCHANGED archiveVars
    <3>1. UNCHANGED <<now, newest, archived, unarchived, updated, idem, link, view, since, asked, spoken, written, doubled>>
      BY <2>6 DEF archiveVars, tables, theApp
    <3>2. Archived' = Archived
      BY <3>1 DEF Archived
    <3> QED
      BY <3>1, <3>2 DEF ArchiveInv, ArchiveTypeOK, ViewCatchesUp, Known, NoMessageHidden, PeerOncePerWindow, KeyRemembered
  <2> QED
    BY <2>1, <2>2, <2>3, <2>4, <2>5, <2>6 DEF ArchiveNext
<1>2. ArchiveInv => ArchiveTrue
  BY DEF ArchiveInv, ArchiveTrue, ViewCatchesUp, ViewIsCurrent
<1> QED
  BY <1>1, <1>2, ArchiveInitInv, PTL DEF ArchiveSpec
-----------------------------------------------------------------------------
(* Missions: what the order of the links holds. *)

\* Two sequences, one after the other.
LEMMA Joined ==
    ASSUME NEW S, NEW a \in Seq(S), NEW b \in Seq(S)
    PROVE  /\ a \o b \in Seq(S) /\ Len(a \o b) = Len(a) + Len(b)
           /\ \A k \in 1 .. Len(a) + Len(b) : (a \o b)[k] = IF k <= Len(a) THEN a[k] ELSE b[k - Len(a)]
OBVIOUS

\* A sequence without one of its elements.
LEMMA Taken ==
    ASSUME NEW S, NEW s \in Seq(S), NEW i \in DOMAIN s
    PROVE  /\ RemoveAt(s, i) \in Seq(S)
           /\ \A j \in DOMAIN s : j # i => \E k \in DOMAIN RemoveAt(s, i) : RemoveAt(s, i)[k] = s[j]
           /\ \A k \in DOMAIN RemoveAt(s, i) : \E j \in DOMAIN s : RemoveAt(s, i)[k] = s[j]
<1> DEFINE n == Len(s)
           a == SubSeq(s, 1, i - 1)
           b == SubSeq(s, i + 1, n)
<1>1. n \in Nat /\ i \in 1 .. n /\ DOMAIN s = 1 .. n
  OBVIOUS
<1>2. a \in Seq(S) /\ Len(a) = i - 1 /\ \A k \in 1 .. i - 1 : a[k] = s[k]
  BY <1>1
<1>3. b \in Seq(S) /\ Len(b) = n - i /\ \A k \in 1 .. n - i : b[k] = s[i + k]
  BY <1>1
<1>4. RemoveAt(s, i) = a \o b
  BY DEF RemoveAt
<1> HIDE DEF a, b
<1>5. /\ a \o b \in Seq(S) /\ Len(a \o b) = n - 1 /\ DOMAIN (a \o b) = 1 .. n - 1
      /\ \A k \in 1 .. n - 1 : (a \o b)[k] = IF k <= i - 1 THEN a[k] ELSE b[k - (i - 1)]
  <2>1. Len(a) + Len(b) = n - 1 /\ n - 1 \in Nat
    BY <1>1, <1>2, <1>3
  <2>2. a \o b \in Seq(S) /\ Len(a \o b) = n - 1
    BY <1>2, <1>3, <2>1, Joined
  <2>3. \A k \in 1 .. n - 1 : (a \o b)[k] = IF k <= i - 1 THEN a[k] ELSE b[k - (i - 1)]
    BY <1>2, <1>3, <2>1, Joined
  <2>4. DOMAIN (a \o b) = 1 .. Len(a \o b)
    BY <2>2
  <2> QED
    BY <2>2, <2>3, <2>4
<1>6. \A k \in 1 .. n - 1 : (a \o b)[k] = IF k <= i - 1 THEN s[k] ELSE s[k + 1]
  <2> TAKE k \in 1 .. n - 1
  <2>1. CASE k <= i - 1
    <3>1. k \in 1 .. i - 1
      BY <1>1, <2>1
    <3>2. a[k] = s[k]
      BY <1>2, <3>1
    <3> QED
      BY <1>5, <2>1, <3>2
  <2>2. CASE ~(k <= i - 1)
    <3>1. k - (i - 1) \in 1 .. n - i /\ i + (k - (i - 1)) = k + 1
      BY <1>1, <2>2
    <3> QED
      BY <1>3, <1>5, <2>2, <3>1
  <2> QED
    BY <2>1, <2>2
<1> DEFINE r == a \o b
<1>7. DOMAIN r = 1 .. n - 1 /\ \A k \in 1 .. n - 1 : r[k] = IF k <= i - 1 THEN s[k] ELSE s[k + 1]
  BY <1>5, <1>6
<1>8. r \in Seq(S) /\ RemoveAt(s, i) = r
  BY <1>4, <1>5
<1> HIDE DEF r, n
<1>9. ASSUME NEW j \in 1 .. n, j # i PROVE \E k \in 1 .. n - 1 : r[k] = s[j]
  <2>1. CASE j < i
    <3>1. j \in 1 .. n - 1 /\ r[j] = s[j]
      BY <1>1, <1>7, <2>1
    <3> QED
      BY <3>1
  <2>2. CASE j > i
    <3>1. j - 1 \in 1 .. n - 1 /\ ~(j - 1 <= i - 1) /\ (j - 1) + 1 = j
      BY <1>1, <2>2
    <3>2. r[j - 1] = s[j]
      BY <1>7, <3>1
    <3> QED
      BY <3>1, <3>2
  <2> QED
    BY <1>1, <1>9, <2>1, <2>2
<1>10. ASSUME NEW k \in 1 .. n - 1 PROVE \E j \in 1 .. n : r[k] = s[j]
  <2>1. k \in 1 .. n /\ k + 1 \in 1 .. n
    BY <1>1
  <2> QED
    BY <1>7, <2>1
<1> QED
  BY <1>1, <1>7, <1>8, <1>9, <1>10

\* The list without a mission, and with it at its end.
LEMMA ListsHold ==
    ASSUME NEW s \in Seq(Missions), NEW m \in Missions
    PROVE  /\ Without(s, m) \in Seq(Missions) /\ Activated(s, m) \in Seq(Missions)
           /\ Range(Without(s, m)) \subseteq Range(s) /\ Range(s) \ {m} \subseteq Range(Without(s, m))
           /\ Range(Activated(s, m)) = Range(s) \cup {m}
<1>1. /\ Without(s, m) \in Seq(Missions)
      /\ Range(Without(s, m)) \subseteq Range(s) /\ Range(s) \ {m} \subseteq Range(Without(s, m))
  <2>1. CASE m \notin Range(s)
    BY <2>1 DEF Without
  <2>2. CASE m \in Range(s)
    <3> DEFINE i == CHOOSE i \in DOMAIN s : s[i] = m
    <3>1. i \in DOMAIN s /\ s[i] = m
      BY <2>2 DEF Range
    <3>2. Without(s, m) = RemoveAt(s, i)
      BY <2>2 DEF Without
    <3> HIDE DEF i
    <3> DEFINE r == RemoveAt(s, i)
    <3>3. /\ r \in Seq(Missions)
          /\ \A j \in DOMAIN s : j # i => \E k \in DOMAIN r : r[k] = s[j]
          /\ \A k \in DOMAIN r : \E j \in DOMAIN s : r[k] = s[j]
      BY <3>1, Taken
    <3> HIDE DEF r
    <3>4. Range(r) \subseteq Range(s)
      BY <3>3 DEF Range
    <3>5. ASSUME NEW z \in Range(s), z # m PROVE z \in Range(r)
      <4>1. PICK j \in DOMAIN s : z = s[j]
        BY DEF Range
      <4>2. j # i
        BY <3>1, <3>5, <4>1
      <4>3. PICK k \in DOMAIN r : r[k] = s[j]
        BY <3>3, <4>2
      <4> QED
        BY <4>1, <4>3 DEF Range
    <3>6. Without(s, m) = r
      BY <3>2 DEF r
    <3> QED
      BY <3>3, <3>4, <3>5, <3>6
  <2> QED
    BY <2>1, <2>2
<1> DEFINE w == Without(s, m)
<1>2. w \in Seq(Missions) /\ Activated(s, m) = Append(w, m)
  BY <1>1 DEF Activated
<1> HIDE DEF w
<1>3. /\ Append(w, m) \in Seq(Missions) /\ DOMAIN Append(w, m) = 1 .. Len(w) + 1 /\ DOMAIN w = 1 .. Len(w) /\ Len(w) \in Nat
      /\ Append(w, m)[Len(w) + 1] = m
      /\ \A k \in 1 .. Len(w) : Append(w, m)[k] = w[k]
  BY <1>2
<1>4. Range(Append(w, m)) = Range(w) \cup {m}
  <2>1. 1 .. Len(w) + 1 = 1 .. Len(w) \cup {Len(w) + 1}
    BY <1>3
  <2> QED
    BY <1>3, <2>1 DEF Range
<1>5. Range(w) \subseteq Range(s) /\ Range(s) \ {m} \subseteq Range(w)
  BY <1>1 DEF w
<1> QED
  BY <1>1, <1>2, <1>3, <1>4, <1>5

-----------------------------------------------------------------------------
(* Missions: the inductive invariant. *)

Rows == [Missions -> [state : {"none", "open", "closed"}, name : {1, 2}, origin : Talks \cup {NoMission}]]
Labels == (Missions \cup {NoMission}) \X {0, 1, 2}

MissionsTypeOK ==
    /\ born \subseteq Talks
    /\ linked \in [Talks -> Seq(Missions)]
    /\ current \in [Talks -> Missions \cup {NoMission}]
    /\ title \in [Talks -> Labels]
    /\ mission \in Rows
    /\ filed \in [convo : Talks \cup {NoMission}, mission : Missions \cup {NoMission}, detached : BOOLEAN]

\* A link is to a mission that exists, and only a conversation that exists has
\* links or holds the item.
LinksAreReal ==
    /\ \A c \in Talks : \A m \in Range(linked[c]) : m \in Missions /\ mission[m].state # "none"
    /\ \A c \in Talks \ born : Range(linked[c]) = {} /\ current[c] = NoMission
    /\ filed.convo # NoMission => filed.convo \in born

MissionsInv == MissionsTypeOK /\ LinksAreReal /\ MissionsAgree

\* What names a conversation has the two words of a label.
LEMMA LabelIs ==
    ASSUME NEW ms \in Rows,
           NEW cur \in Missions \cup {NoMission}, NEW c
    PROVE  Label(ms, cur, c) \in Labels
BY DEF Label, NoLabel, Rows, Labels

\* nextCurrent: an open mission of the list, if there is one.
LEMMA NextIsOpen ==
    ASSUME NEW s \in Seq(Missions), MissionsTypeOK
    PROVE  /\ NextCurrent(s) \in Missions \cup {NoMission}
           /\ NextCurrent(s) # NoMission => NextCurrent(s) \in Range(s) /\ mission[NextCurrent(s)].state = "open"
           /\ NextCurrent(s) = NoMission => \A m \in Range(s) : mission[m].state # "open"
<1> DEFINE open == {i \in DOMAIN s : mission[s[i]].state = "open"}
<1>1. CASE open = {}
  BY <1>1 DEF NextCurrent, Range
<1>2. CASE open # {}
  <2>1. Len(s) \in Nat /\ open \in SUBSET (0 .. Len(s))
    OBVIOUS
  <2>2. Max(open) \in open
    <3> HIDE DEF open
    <3> QED
      BY <1>2, <2>1, LastPosition
  <2>3. NextCurrent(s) = s[Max(open)]
    BY <1>2 DEF NextCurrent
  <2>4. s[Max(open)] \in Missions /\ s[Max(open)] \in Range(s) /\ mission[s[Max(open)]].state = "open"
    <3> DEFINE i == Max(open)
    <3>1. i \in DOMAIN s /\ mission[s[i]].state = "open"
      BY <2>2
    <3> HIDE DEF i
    <3>2. s[i] \in Missions /\ s[i] \in Range(s)
      BY <3>1 DEF Range
    <3> QED
      BY <3>1, <3>2 DEF i
  <2> QED
    BY <2>3, <2>4, MissionsAssumption
<1> QED
  BY <1>1, <1>2

-----------------------------------------------------------------------------
(* Missions: the operations. *)

\* What a mission's label is made from.
LEMMA SameLabel ==
    ASSUME NEW ms, NEW ns, NEW cur, NEW c, cur # NoMission => ms[cur].name = ns[cur].name /\ ms[cur].origin = ns[cur].origin
    PROVE  Label(ms, cur, c) = Label(ns, cur, c)
BY DEF Label

\* Upsert.
LEMMA UpsertKeeps ==
    ASSUME MissionsInv, NEW c \in Talks, Upsert(c)
    PROVE  MissionsInv'
<1> DEFINE m == Inherited(c)
<1>1. MissionsTypeOK /\ LinksAreReal /\ UNCHANGED <<mission, filed, stones, marks>> /\ c \notin born /\ born' = born \cup {c}
  BY DEF MissionsInv, Upsert
<1>2. m \in Missions \cup {NoMission} /\ (m # NoMission => mission[m].state = "open")
  BY <1>1, MissionsAssumption DEF Inherited, MissionsTypeOK
<1>3. /\ current' = [current EXCEPT ![c] = m]
      /\ linked' = [linked EXCEPT ![c] = IF m = NoMission THEN @ ELSE Activated(@, m)]
      /\ title' = [title EXCEPT ![c] = Label(mission, m, c)]
  BY DEF Upsert
<1> HIDE DEF m
<1>4. Range(linked[c]) = {} /\ linked[c] \in Seq(Missions)
  BY <1>1 DEF LinksAreReal, MissionsTypeOK
<1>5. /\ linked' \in [Talks -> Seq(Missions)] /\ Range(linked'[c]) = (IF m = NoMission THEN {} ELSE {m})
      /\ \A z \in Talks \ {c} : linked'[z] = linked[z]
  <2>1. CASE m = NoMission
    <3>1. linked' = linked
      BY <1>1, <1>3, <2>1 DEF MissionsTypeOK
    <3> QED
      BY <1>1, <1>4, <2>1, <3>1 DEF MissionsTypeOK
  <2>2. CASE m # NoMission
    <3> DEFINE l == Activated(linked[c], m)
    <3>1. l \in Seq(Missions) /\ Range(l) = {m}
      <4>1. l \in Seq(Missions) /\ Range(l) = Range(linked[c]) \cup {m}
        <5>1. m \in Missions /\ linked[c] \in Seq(Missions)
          BY <1>2, <1>4, <2>2
        <5> QED
          BY <5>1, ListsHold
      <4> QED
        BY <1>4, <4>1
    <3>2. linked' = [linked EXCEPT ![c] = l]
      BY <1>3, <2>2
    <3> HIDE DEF l
    <3>3. linked'[c] = l
      BY <1>1, <3>2 DEF MissionsTypeOK
    <3> QED
      BY <1>1, <2>2, <3>1, <3>2, <3>3 DEF MissionsTypeOK
  <2> QED
    BY <2>1, <2>2
<1>6. /\ current' \in [Talks -> Missions \cup {NoMission}] /\ current'[c] = m
      /\ \A z \in Talks \ {c} : current'[z] = current[z]
  BY <1>1, <1>2, <1>3 DEF MissionsTypeOK
<1>7. /\ title' \in [Talks -> Labels] /\ title'[c] = Label(mission, m, c)
      /\ \A z \in Talks \ {c} : title'[z] = title[z]
  BY <1>1, <1>2, <1>3, LabelIs DEF MissionsTypeOK
<1>8. MissionsTypeOK'
  BY <1>1, <1>5, <1>6, <1>7 DEF MissionsTypeOK
<1>9. LinksAreReal'
  BY <1>1, <1>2, <1>5, <1>6, MissionsAssumption DEF LinksAreReal
<1>10. CurrentIsLinked'
  BY <1>1, <1>2, <1>5, <1>6 DEF CurrentIsLinked, MissionsInv, MissionsAgree
<1>11. TitleIsCurrent'
  BY <1>1, <1>6, <1>7 DEF TitleIsCurrent, MissionsInv, MissionsAgree, MissionsTypeOK
<1>12. ItemsFollow' /\ MilestoneMarked'
  <2>1. MilestoneMarked'
    BY <1>1 DEF MilestoneMarked, MissionsInv, MissionsAgree
  <2>2. filed.convo # NoMission => filed.convo \in Talks \ {c}
    BY <1>1 DEF MissionsTypeOK, LinksAreReal
  <2>3. ItemsFollow
    BY DEF MissionsInv, MissionsAgree
  <2> QED
    BY <1>1, <1>6, <2>1, <2>2, <2>3 DEF ItemsFollow
<1> QED
  BY <1>8, <1>9, <1>10, <1>11, <1>12 DEF MissionsInv, MissionsAgree

\* CreateMission, Rename, CloseMission: what they do to a mission.
LEMMA MissionKeeps ==
    ASSUME MissionsInv, NEW m \in Missions, NEW c \in Talks,
           (\E attach \in BOOLEAN : CreateMission(m, c, attach)) \/ Rename(m) \/ \E byAgent \in BOOLEAN : CloseMission(m, byAgent)
    PROVE  MissionsInv'
<1>1. MissionsTypeOK /\ LinksAreReal /\ UNCHANGED <<born, stones, marks>> /\ CurrentIsLinked /\ TitleIsCurrent /\ ItemsFollow /\ m # NoMission
  BY MissionsAssumption DEF MissionsInv, MissionsAgree, CreateMission, Rename, CloseMission
<1>2. MilestoneMarked'
  BY <1>1 DEF MissionsInv, MissionsAgree, MilestoneMarked
<1>3. CASE \E attach \in BOOLEAN : CreateMission(m, c, attach)
  <2>1. PICK attach \in BOOLEAN : CreateMission(m, c, attach)
    BY <1>3
  <2>2. /\ mission[m].state = "none" /\ c \in born /\ (attach => current[c] = NoMission)
        /\ mission' = [mission EXCEPT ![m] = [state |-> "open", name |-> 1, origin |-> c]]
    BY <2>1 DEF CreateMission
  <2>3. /\ mission' \in Rows
        /\ mission'[m].state = "open" /\ \A n \in Missions \ {m} : mission'[n] = mission[n]
    BY <1>1, <2>2 DEF MissionsTypeOK, Rows
  <2>4. \A z \in Talks : m \notin Range(linked[z]) /\ current[z] # m
    BY <1>1, <2>2 DEF LinksAreReal, CurrentIsLinked
  <2>5. \A z \in Talks : Label(mission', current[z], z) = Label(mission, current[z], z)
    <3> TAKE z \in Talks
    <3>1. current[z] # NoMission => mission'[current[z]] = mission[current[z]]
      BY <1>1, <2>3, <2>4 DEF MissionsTypeOK
    <3> QED
      BY <3>1, SameLabel
  <2>6. CASE attach
    <3>1. /\ current' = [current EXCEPT ![c] = m]
          /\ linked' = [linked EXCEPT ![c] = Activated(@, m)]
          /\ filed' = Repointed(c, m)
          /\ title' = Retitled(mission', current', {c})
      BY <2>1, <2>6 DEF CreateMission
    <3>2. /\ current' \in [Talks -> Missions \cup {NoMission}] /\ current'[c] = m /\ \A z \in Talks \ {c} : current'[z] = current[z]
      BY <1>1, <3>1 DEF MissionsTypeOK
    <3>3. /\ linked' \in [Talks -> Seq(Missions)] /\ Range(linked'[c]) = Range(linked[c]) \cup {m}
          /\ \A z \in Talks \ {c} : linked'[z] = linked[z]
      BY <1>1, <3>1, ListsHold DEF MissionsTypeOK
    <3>4. /\ title' \in [Talks -> Labels]
          /\ \A z \in Talks : title'[z] = IF z = c THEN Label(mission', m, c) ELSE title[z]
      <4>1. title' = [z \in Talks |-> IF z \in {c} THEN Label(mission', current'[z], z) ELSE title[z]]
        BY <3>1 DEF Retitled
      <4>2. \A z \in Talks : Label(mission', current'[z], z) \in Labels /\ title[z] \in Labels
        BY <1>1, <2>3, <3>2, LabelIs DEF MissionsTypeOK
      <4> QED
        BY <3>2, <4>1, <4>2
    <3>5. /\ filed' \in [convo : Talks \cup {NoMission}, mission : Missions \cup {NoMission}, detached : BOOLEAN]
          /\ filed'.convo = filed.convo
          /\ IF filed.convo = c /\ filed.mission = NoMission THEN filed'.mission = m
             ELSE filed' = filed
      BY <1>1, <3>1 DEF Repointed, MissionsTypeOK
    <3>6. MissionsTypeOK'
      BY <1>1, <2>3, <3>2, <3>3, <3>4, <3>5 DEF MissionsTypeOK
    <3>7. LinksAreReal'
      <4>1. ASSUME NEW z \in Talks, NEW n \in Range(linked'[z]) PROVE n \in Missions /\ mission'[n].state # "none"
        <5>1. n = m \/ n \in Range(linked[z])
          BY <3>3
        <5>2. n \in Range(linked[z]) => n \in Missions /\ mission[n].state # "none"
          BY <1>1 DEF LinksAreReal
        <5> QED
          BY <2>3, <5>1, <5>2
      <4>2. \A z \in Talks \ born' : Range(linked'[z]) = {} /\ current'[z] = NoMission
        BY <1>1, <2>2, <3>2, <3>3 DEF LinksAreReal
      <4>3. filed'.convo # NoMission => filed'.convo \in born'
        BY <1>1, <3>5 DEF LinksAreReal
      <4> QED
        BY <4>1, <4>2, <4>3 DEF LinksAreReal
    <3>8. CurrentIsLinked'
      <4> SUFFICES ASSUME NEW z \in Talks
                   PROVE  /\ current'[z] # NoMission => current'[z] \in Range(linked'[z])
                          /\ current'[z] = NoMission => \A n \in Range(linked'[z]) : mission'[n].state = "closed"
        BY DEF CurrentIsLinked
      <4>1. CASE z = c
        BY <1>1, <3>2, <3>3, <4>1
      <4>2. CASE z # c
        <5>1. \A n \in Range(linked[z]) : n \in Missions \ {m}
          BY <1>1, <2>4 DEF LinksAreReal
        <5> QED
          <6>1. current'[z] = current[z] /\ linked'[z] = linked[z]
            BY <3>2, <3>3, <4>2
          <6>2. \A n \in Range(linked[z]) : mission'[n] = mission[n]
            BY <2>3, <5>1
          <6> QED
            BY <1>1, <6>1, <6>2 DEF CurrentIsLinked
      <4> QED
        BY <4>1, <4>2
    <3>9. TitleIsCurrent'
      BY <1>1, <2>5, <3>2, <3>4 DEF TitleIsCurrent, MissionsTypeOK
    <3>10. ItemsFollow'
      BY <1>1, <3>2, <3>5 DEF ItemsFollow, MissionsTypeOK
    <3> QED
      BY <1>2, <3>6, <3>7, <3>8, <3>9, <3>10 DEF MissionsInv, MissionsAgree
  <2>7. CASE ~attach
    <3>1. UNCHANGED <<current, linked, filed, title>>
      BY <2>1, <2>7 DEF CreateMission
    <3>2. MissionsTypeOK' /\ LinksAreReal' /\ CurrentIsLinked' /\ TitleIsCurrent' /\ ItemsFollow'
      <4>1. MissionsTypeOK'
        BY <1>1, <2>3, <3>1 DEF MissionsTypeOK
      <4>2. LinksAreReal'
        BY <1>1, <2>3, <2>4, <3>1 DEF LinksAreReal
      <4>3. CurrentIsLinked'
        BY <1>1, <2>3, <2>4, <3>1, <4>2 DEF CurrentIsLinked, LinksAreReal
      <4>4. TitleIsCurrent'
        BY <1>1, <2>5, <3>1 DEF TitleIsCurrent, MissionsTypeOK
      <4> QED
        BY <1>1, <3>1, <4>1, <4>2, <4>3, <4>4 DEF ItemsFollow
    <3> QED
      BY <1>2, <3>2 DEF MissionsInv, MissionsAgree
  <2> QED
    BY <2>6, <2>7
<1>4. CASE Rename(m)
  <2>1. /\ mission' = [mission EXCEPT ![m].name = 3 - @] /\ title' = Retitled(mission', current, Named(m))
        /\ UNCHANGED <<linked, current, filed>>
    BY <1>4 DEF Rename
  <2>2. /\ mission' \in Rows
        /\ \A n \in Missions : mission'[n].state = mission[n].state
        /\ \A n \in Missions \ {m} : mission'[n] = mission[n]
    <3>1. mission \in Rows /\ 3 - mission[m].name \in {1, 2}
      <4>1. mission \in Rows
        BY <1>1 DEF MissionsTypeOK
      <4>2. mission[m].name \in {1, 2}
        BY <4>1 DEF Rows
      <4> QED
        BY <4>1, <4>2
    <3> DEFINE row == [mission[m] EXCEPT !.name = 3 - @]
    <3>2. mission' = [mission EXCEPT ![m] = row]
      BY <2>1
    <3>3. row \in [state : {"none", "open", "closed"}, name : {1, 2}, origin : Talks \cup {NoMission}] /\ row.state = mission[m].state
      BY <3>1 DEF Rows
    <3> HIDE DEF row
    <3> QED
      BY <3>1, <3>2, <3>3 DEF Rows
  <2>3. /\ title' \in [Talks -> Labels]
        /\ \A z \in Talks : title'[z] = IF z \in Named(m) THEN Label(mission', current[z], z) ELSE title[z]
    <3>1. title' = [z \in Talks |-> IF z \in Named(m) THEN Label(mission', current[z], z) ELSE title[z]]
      BY <2>1 DEF Retitled
    <3>2. \A z \in Talks : Label(mission', current[z], z) \in Labels /\ title[z] \in Labels
      BY <1>1, <2>2, LabelIs DEF MissionsTypeOK
    <3> QED
      BY <3>1, <3>2
  <2>4. TitleIsCurrent'
    <3> SUFFICES ASSUME NEW z \in born' PROVE title'[z] = Label(mission', current'[z], z)
      BY DEF TitleIsCurrent
    <3>1. z \in Talks /\ z \in born
      BY <1>1 DEF MissionsTypeOK
    <3>2. CASE z \in Named(m)
      BY <2>1, <2>3, <3>1, <3>2
    <3>3. CASE z \notin Named(m)
      <4>1. current[z] # NoMission => mission'[current[z]] = mission[current[z]]
        BY <1>1, <2>2, <3>1, <3>3 DEF Named, MissionsTypeOK
      <4>2. Label(mission', current[z], z) = Label(mission, current[z], z)
        BY <4>1, SameLabel
      <4> QED
        BY <1>1, <2>1, <2>3, <3>1, <3>3, <4>2 DEF TitleIsCurrent
    <3> QED
      BY <3>2, <3>3
  <2>5. MissionsTypeOK'
    BY <1>1, <2>1, <2>2, <2>3 DEF MissionsTypeOK
  <2>6. LinksAreReal'
    BY <1>1, <2>1, <2>2 DEF LinksAreReal
  <2>7. CurrentIsLinked' /\ ItemsFollow'
    BY <1>1, <2>1, <2>2 DEF CurrentIsLinked, ItemsFollow, LinksAreReal
  <2> QED
    BY <1>2, <2>4, <2>5, <2>6, <2>7 DEF MissionsInv, MissionsAgree
<1>5. CASE \E byAgent \in BOOLEAN : CloseMission(m, byAgent)
  <2>1. /\ mission' = [mission EXCEPT ![m].state = "closed"]
        /\ UNCHANGED <<linked, current, title, filed>>
    BY <1>5 DEF CloseMission
  <2>2. /\ mission' \in Rows
        /\ mission'[m].state = "closed"
        /\ \A n \in Missions : mission'[n].name = mission[n].name /\ mission'[n].origin = mission[n].origin
        /\ \A n \in Missions \ {m} : mission'[n] = mission[n]
    <3>1. mission \in Rows
      BY <1>1 DEF MissionsTypeOK
    <3> QED
      BY <2>1, <3>1 DEF Rows
  <2>3. TitleIsCurrent'
    <3> SUFFICES ASSUME NEW z \in born PROVE title[z] = Label(mission', current[z], z)
      BY <1>1, <2>1 DEF TitleIsCurrent
    <3>1. current[z] # NoMission => current[z] \in Missions
      BY <1>1 DEF MissionsTypeOK
    <3>2. Label(mission', current[z], z) = Label(mission, current[z], z)
      BY <2>2, <3>1, SameLabel
    <3> QED
      BY <1>1, <3>2 DEF TitleIsCurrent
  <2>4. MissionsTypeOK'
    BY <1>1, <2>1, <2>2 DEF MissionsTypeOK
  <2>5. LinksAreReal'
    BY <1>1, <2>1, <2>2 DEF LinksAreReal
  <2>6. CurrentIsLinked' /\ ItemsFollow'
    BY <1>1, <2>1, <2>2 DEF CurrentIsLinked, ItemsFollow, LinksAreReal
  <2> QED
    BY <1>2, <2>3, <2>4, <2>5, <2>6 DEF MissionsInv, MissionsAgree
<1> QED
  BY <1>3, <1>4, <1>5

\* Join.
LEMMA JoinKeeps ==
    ASSUME MissionsInv, NEW c \in Talks, NEW m \in Missions, Join(c, m)
    PROVE  MissionsInv'
<1>1. /\ MissionsTypeOK /\ LinksAreReal /\ CurrentIsLinked /\ TitleIsCurrent /\ ItemsFollow /\ m # NoMission
      /\ UNCHANGED <<born, mission, stones, marks>> /\ c \in born /\ mission[m].state = "open"
  BY MissionsAssumption DEF MissionsInv, MissionsAgree, Join
<1>2. MilestoneMarked'
  BY <1>1 DEF MissionsInv, MissionsAgree, MilestoneMarked
<1>3. /\ linked' = [linked EXCEPT ![c] = IF current[c] = m THEN @ ELSE Activated(@, m)]
      /\ current' = [current EXCEPT ![c] = m]
      /\ filed' = IF current[c] = m THEN filed ELSE Repointed(c, m)
      /\ title' = Retitled(mission, current', {c})
  BY DEF Join
<1>4. /\ current' \in [Talks -> Missions \cup {NoMission}] /\ current'[c] = m /\ \A z \in Talks \ {c} : current'[z] = current[z]
  BY <1>1, <1>3 DEF MissionsTypeOK
<1>5. /\ linked' \in [Talks -> Seq(Missions)] /\ Range(linked'[c]) = Range(linked[c]) \cup {m}
      /\ \A z \in Talks \ {c} : linked'[z] = linked[z]
  <2>1. linked[c] \in Seq(Missions)
    BY <1>1 DEF MissionsTypeOK
  <2>2. CASE current[c] = m
    <3>1. linked' = linked /\ m \in Range(linked[c])
      BY <1>1, <1>3, <2>2 DEF MissionsTypeOK, CurrentIsLinked
    <3> QED
      BY <1>1, <3>1 DEF MissionsTypeOK
  <2>3. CASE current[c] # m
    <3> DEFINE l == Activated(linked[c], m)
    <3>1. l \in Seq(Missions) /\ Range(l) = Range(linked[c]) \cup {m}
      BY <2>1, ListsHold
    <3>2. linked' = [linked EXCEPT ![c] = l]
      BY <1>3, <2>3
    <3> HIDE DEF l
    <3>3. linked'[c] = l
      BY <1>1, <3>2 DEF MissionsTypeOK
    <3> QED
      BY <1>1, <3>1, <3>2, <3>3 DEF MissionsTypeOK
  <2> QED
    BY <2>2, <2>3
<1>6. /\ title' \in [Talks -> Labels]
      /\ \A z \in Talks : title'[z] = IF z = c THEN Label(mission, m, c) ELSE title[z]
  <2>1. title' = [z \in Talks |-> IF z \in {c} THEN Label(mission, current'[z], z) ELSE title[z]]
    BY <1>3 DEF Retitled
  <2>2. \A z \in Talks : Label(mission, current'[z], z) \in Labels /\ title[z] \in Labels
    BY <1>1, <1>4, LabelIs DEF MissionsTypeOK
  <2> QED
    BY <1>4, <2>1, <2>2
<1>7. /\ filed' \in [convo : Talks \cup {NoMission}, mission : Missions \cup {NoMission}, detached : BOOLEAN]
      /\ filed'.convo = filed.convo
      /\ IF current[c] # m /\ filed.convo = c /\ filed.mission = NoMission THEN filed'.mission = m
         ELSE filed' = filed
  BY <1>1, <1>3 DEF Repointed, MissionsTypeOK
<1>8. MissionsTypeOK'
  BY <1>1, <1>4, <1>5, <1>6, <1>7 DEF MissionsTypeOK
<1>9. LinksAreReal'
  <2>1. ASSUME NEW z \in Talks, NEW n \in Range(linked'[z]) PROVE n \in Missions /\ mission'[n].state # "none"
    <3>1. n = m \/ n \in Range(linked[z])
      BY <1>5
    <3>2. n \in Range(linked[z]) => n \in Missions /\ mission[n].state # "none"
      BY <1>1 DEF LinksAreReal
    <3> QED
      BY <1>1, <3>1, <3>2
  <2>2. \A z \in Talks \ born' : Range(linked'[z]) = {} /\ current'[z] = NoMission
    BY <1>1, <1>4, <1>5 DEF LinksAreReal
  <2>3. filed'.convo # NoMission => filed'.convo \in born'
    BY <1>1, <1>7 DEF LinksAreReal
  <2> QED
    BY <2>1, <2>2, <2>3 DEF LinksAreReal
<1>10. CurrentIsLinked'
  <2> SUFFICES ASSUME NEW z \in Talks
               PROVE  /\ current'[z] # NoMission => current'[z] \in Range(linked'[z])
                      /\ current'[z] = NoMission => \A n \in Range(linked'[z]) : mission'[n].state = "closed"
    BY DEF CurrentIsLinked
  <2>1. CASE z = c
    BY <1>1, <1>4, <1>5, <2>1
  <2>2. CASE z # c
    BY <1>1, <1>4, <1>5, <2>2 DEF CurrentIsLinked
  <2> QED
    BY <2>1, <2>2
<1>11. TitleIsCurrent'
  BY <1>1, <1>4, <1>6 DEF TitleIsCurrent, MissionsTypeOK
<1>12. ItemsFollow'
  <2>1. filed.convo = c => current'[filed.convo] = m
    BY <1>4
  <2>2. filed.convo # NoMission /\ filed.convo # c => current'[filed.convo] = current[filed.convo]
    BY <1>1, <1>4 DEF MissionsTypeOK
  <2> QED
    BY <1>1, <1>7, <2>1, <2>2 DEF ItemsFollow
<1> QED
  BY <1>2, <1>8, <1>9, <1>10, <1>11, <1>12 DEF MissionsInv, MissionsAgree

\* Leave.
LEMMA LeaveKeeps ==
    ASSUME MissionsInv, NEW c \in Talks, NEW m \in Missions, Leave(c, m)
    PROVE  MissionsInv'
<1>1. /\ MissionsTypeOK /\ LinksAreReal /\ CurrentIsLinked /\ TitleIsCurrent /\ ItemsFollow /\ m # NoMission
      /\ UNCHANGED <<born, mission, filed, stones, marks>> /\ m \in Range(linked[c])
  BY MissionsAssumption DEF MissionsInv, MissionsAgree, Leave
<1>2. MilestoneMarked'
  BY <1>1 DEF MissionsInv, MissionsAgree, MilestoneMarked
<1> DEFINE l == Without(linked[c], m)
           next == IF current[c] = m THEN NextCurrent(l) ELSE current[c]
<1>3. l \in Seq(Missions) /\ Range(l) \subseteq Range(linked[c]) /\ Range(linked[c]) \ {m} \subseteq Range(l)
  BY <1>1, ListsHold DEF MissionsTypeOK
<1>4. linked' = [linked EXCEPT ![c] = l] /\ linked'[c] = l
  BY <1>1 DEF Leave, MissionsTypeOK
<1>5. /\ current' = [current EXCEPT ![c] = next]
      /\ title' = IF current[c] = m THEN Retitled(mission, current', {c}) ELSE title
  BY <1>4 DEF Leave
<1>6. /\ next \in Missions \cup {NoMission}
      /\ next # NoMission => next \in Range(l)
      /\ next = NoMission => \A n \in Range(l) : mission[n].state = "closed"
  <2>1. CASE current[c] = m
    <3>1. \A n \in Range(l) : n \in Missions /\ mission[n].state \in {"open", "closed"}
      <4>1. \A n \in Range(l) : n \in Missions /\ mission[n].state # "none"
        BY <1>1, <1>3 DEF LinksAreReal
      <4> QED
        BY <1>1, <4>1 DEF MissionsTypeOK, Rows
    <3>2. next = NextCurrent(l)
      BY <2>1
    <3> HIDE DEF l, next
    <3> QED
      BY <1>1, <1>3, <3>1, <3>2, NextIsOpen
  <2>2. CASE current[c] # m
    <3>1. next = current[c]
      BY <2>2
    <3> HIDE DEF l, next
    <3> QED
      BY <1>1, <1>3, <2>2, <3>1 DEF CurrentIsLinked, MissionsTypeOK
  <2> QED
    BY <2>1, <2>2
<1>7. next # current[c] => current[c] = m
  OBVIOUS
<1> HIDE DEF l, next
<1>8. /\ linked' \in [Talks -> Seq(Missions)] /\ \A z \in Talks \ {c} : linked'[z] = linked[z]
  BY <1>1, <1>3, <1>4 DEF MissionsTypeOK
<1>9. /\ current' \in [Talks -> Missions \cup {NoMission}] /\ current'[c] = next /\ \A z \in Talks \ {c} : current'[z] = current[z]
  BY <1>1, <1>5, <1>6 DEF MissionsTypeOK
<1>10. /\ title' \in [Talks -> Labels]
       /\ \A z \in Talks : title'[z] = IF z = c /\ current[c] = m THEN Label(mission, next, c) ELSE title[z]
  <2>1. CASE current[c] = m
    <3>1. title' = [z \in Talks |-> IF z \in {c} THEN Label(mission, current'[z], z) ELSE title[z]]
      BY <1>5, <2>1 DEF Retitled
    <3>2. \A z \in Talks : Label(mission, current'[z], z) \in Labels /\ title[z] \in Labels
      BY <1>1, <1>9, LabelIs DEF MissionsTypeOK
    <3> QED
      BY <1>9, <2>1, <3>1, <3>2
  <2>2. CASE current[c] # m
    BY <1>1, <1>5, <2>2 DEF MissionsTypeOK
  <2> QED
    BY <2>1, <2>2
<1>11. MissionsTypeOK'
  BY <1>1, <1>8, <1>9, <1>10 DEF MissionsTypeOK
<1>12. c \in born
  BY <1>1 DEF LinksAreReal
<1>13. LinksAreReal'
  <2>1. ASSUME NEW z \in Talks, NEW n \in Range(linked'[z]) PROVE n \in Missions /\ mission'[n].state # "none"
    <3>1. n \in Range(linked[z])
      BY <1>3, <1>4, <1>8
    <3> QED
      BY <1>1, <3>1 DEF LinksAreReal
  <2>2. \A z \in Talks \ born' : Range(linked'[z]) = {} /\ current'[z] = NoMission
    BY <1>1, <1>8, <1>9, <1>12 DEF LinksAreReal
  <2> QED
    BY <1>1, <2>1, <2>2 DEF LinksAreReal
<1>14. CurrentIsLinked'
  <2> SUFFICES ASSUME NEW z \in Talks
               PROVE  /\ current'[z] # NoMission => current'[z] \in Range(linked'[z])
                      /\ current'[z] = NoMission => \A n \in Range(linked'[z]) : mission'[n].state = "closed"
    BY DEF CurrentIsLinked
  <2>1. CASE z = c
    BY <1>1, <1>4, <1>6, <1>9, <2>1
  <2>2. CASE z # c
    BY <1>1, <1>8, <1>9, <2>2 DEF CurrentIsLinked
  <2> QED
    BY <2>1, <2>2
<1>15. TitleIsCurrent'
  <2> SUFFICES ASSUME NEW z \in born PROVE title'[z] = Label(mission, current'[z], z)
    BY <1>1 DEF TitleIsCurrent
  <2>1. z \in Talks /\ title[z] = Label(mission, current[z], z)
    BY <1>1 DEF TitleIsCurrent, MissionsTypeOK
  <2> QED
    BY <1>7, <1>9, <1>10, <2>1
<1>16. ItemsFollow'
  <2>1. filed.convo = c => (current'[filed.convo] # NoMission => current[filed.convo] # NoMission)
    BY <1>1, <1>7, <1>9
  <2>2. filed.convo # NoMission /\ filed.convo # c => current'[filed.convo] = current[filed.convo]
    BY <1>1, <1>9 DEF MissionsTypeOK
  <2> QED
    BY <1>1, <2>1, <2>2 DEF ItemsFollow
<1> QED
  BY <1>2, <1>11, <1>13, <1>14, <1>15, <1>16 DEF MissionsInv, MissionsAgree

\* Milestone, File, Assign.
LEMMA ItemKeeps ==
    ASSUME MissionsInv,
           \/ \E m \in Missions, c \in Talks, kept \in BOOLEAN : Milestone(m, c, kept)
           \/ \E c \in Talks : File(c)
           \/ \E m \in Missions \cup {NoMission} : Assign(m)
    PROVE  MissionsInv'
<1>1. MissionsTypeOK /\ LinksAreReal /\ UNCHANGED <<born, linked, current, title, mission>>
  BY DEF MissionsInv, Milestone, File, Assign
<1>2. CurrentIsLinked' /\ TitleIsCurrent'
  BY <1>1 DEF MissionsInv, MissionsAgree, CurrentIsLinked, TitleIsCurrent
<1>3. MilestoneMarked'
  BY DEF MissionsInv, MissionsAgree, MilestoneMarked, Milestone, Marked, File, Assign
<1>4. /\ filed' \in [convo : Talks \cup {NoMission}, mission : Missions \cup {NoMission}, detached : BOOLEAN]
      /\ filed'.convo # NoMission => filed'.convo \in born
      /\ ItemsFollow'
  <2>1. CASE \E m \in Missions, c \in Talks, kept \in BOOLEAN : Milestone(m, c, kept)
    <3>1. filed' = filed
      BY <2>1 DEF Milestone
    <3> QED
      BY <1>1, <3>1 DEF MissionsInv, MissionsAgree, MissionsTypeOK, LinksAreReal, ItemsFollow
  <2>2. CASE \E c \in Talks : File(c)
    <3>1. PICK c \in Talks : c \in born /\ filed' = [convo |-> c, mission |-> current[c], detached |-> FALSE]
      BY <2>2 DEF File
    <3> QED
      BY <1>1, <3>1 DEF MissionsTypeOK, ItemsFollow
  <2>3. CASE \E m \in Missions \cup {NoMission} : Assign(m)
    <3>1. PICK m \in Missions \cup {NoMission} : filed' = [filed EXCEPT !.mission = m, !.detached = m = NoMission]
      BY <2>3 DEF Assign
    <3>2. filed'.convo = filed.convo /\ filed'.mission = m /\ filed'.detached = (m = NoMission)
      BY <1>1, <3>1 DEF MissionsTypeOK
    <3>3. filed' \in [convo : Talks \cup {NoMission}, mission : Missions \cup {NoMission}, detached : BOOLEAN]
      BY <1>1, <3>1 DEF MissionsTypeOK
    <3> QED
      BY <1>1, <3>2, <3>3 DEF LinksAreReal, ItemsFollow
  <2> QED
    BY <2>1, <2>2, <2>3
<1>5. MissionsTypeOK' /\ LinksAreReal'
  BY <1>1, <1>4 DEF MissionsTypeOK, LinksAreReal
<1> QED
  BY <1>2, <1>3, <1>4, <1>5 DEF MissionsInv, MissionsAgree

\* At the start there is nothing.
LEMMA MissionsInitInv == MissionsInit => MissionsInv
<1> SUFFICES ASSUME MissionsInit PROVE MissionsInv
  OBVIOUS
<1>1. \A c \in Talks : linked[c] = <<>> /\ Range(linked[c]) = {} /\ current[c] = NoMission
  <2>1. Range(<<>>) = {}
    BY DEF Range
  <2> QED
    BY <2>1 DEF MissionsInit
<1>2. MissionsTypeOK
  BY DEF MissionsInit, MissionsTypeOK, Rows, Labels, NoLabel
<1>3. LinksAreReal
  BY <1>1 DEF MissionsInit, LinksAreReal
<1>4. MissionsAgree
  BY <1>1 DEF MissionsInit, MissionsAgree, CurrentIsLinked, TitleIsCurrent, ItemsFollow, MilestoneMarked
<1> QED
  BY <1>2, <1>3, <1>4 DEF MissionsInv

\* What is stored twice about a mission agrees, whichever of its routes ran
\* last: a conversation's current mission is among its links, its title is
\* that mission's, its item follows it and milestones are marked once
\* (missions.js, mission-links.js, convo-title.js).
THEOREM MissionsStayAgreed == MissionsSpec => []MissionsAgree
<1>1. MissionsInv /\ [MissionsNext]_missionVars => MissionsInv'
  <2> SUFFICES ASSUME MissionsInv, [MissionsNext]_missionVars PROVE MissionsInv'
    OBVIOUS
  <2>1. CASE \E c \in Talks : Upsert(c)
    BY <2>1, UpsertKeeps
  <2>2. ASSUME NEW m \in Missions, NEW c \in Talks, NEW attach \in BOOLEAN, CreateMission(m, c, attach)
        PROVE  MissionsInv'
    BY <2>2, MissionKeeps
  <2>3. ASSUME NEW m \in Missions, Rename(m) \/ \E byAgent \in BOOLEAN : CloseMission(m, byAgent)
        PROVE  MissionsInv'
    <3>1. Parent \in Talks
      BY MissionsAssumption
    <3> QED
      BY <2>3, <3>1, MissionKeeps
  <2>4. ASSUME NEW m \in Missions, NEW c \in Talks, Join(c, m) \/ Leave(c, m)
        PROVE  MissionsInv'
    BY <2>4, JoinKeeps, LeaveKeeps
  <2>5. CASE \/ \E m \in Missions, c \in Talks, kept \in BOOLEAN : Milestone(m, c, kept)
             \/ \E c \in Talks : File(c)
             \/ \E m \in Missions \cup {NoMission} : Assign(m)
    BY <2>5, ItemKeeps
  <2>6. CASE UNCHANGED missionVars
    <3>1. UNCHANGED <<born, linked, current, title, mission, filed, stones, marks>>
      BY <2>6 DEF missionVars
    <3>2. MissionsTypeOK' /\ LinksAreReal'
      BY <3>1 DEF MissionsInv, MissionsTypeOK, LinksAreReal
    <3>3. MissionsAgree'
      BY <3>1 DEF MissionsInv, MissionsAgree, CurrentIsLinked, TitleIsCurrent, ItemsFollow, MilestoneMarked
    <3> QED
      BY <3>2, <3>3 DEF MissionsInv
  <2> QED
    BY <2>1, <2>2, <2>3, <2>4, <2>5, <2>6 DEF MissionsNext
<1>2. MissionsInv => MissionsAgree
  BY DEF MissionsInv
<1> QED
  BY <1>1, <1>2, MissionsInitInv, PTL DEF MissionsSpec

-----------------------------------------------------------------------------
(* BoxRequests: the inductive invariant. *)

Stages == {"new", "waiting", "sent", "unreachable", "timeout", "done", "lost"}

ControlTypeOK ==
    /\ sock \in [Lines \cup AppLines -> {"off", "replaying", "ready"}]
    /\ asker \in [Requested -> Lines \cup AppLines \cup {"gone"}]
    /\ stage \in [Requested -> Stages]
    /\ inFlight \in [Lines -> Nat]
    /\ runs \in [Requested -> Nat]

\* Who waits is there, and waits for something.
AskersWait ==
    \A q \in Requested : asker[q] # "gone" =>
        /\ stage[q] \in {"waiting", "sent"} /\ sock[asker[q]] = "ready"
        /\ q \in Orders => asker[q] \in Lines

\* The box was given a request once it was sent, and not before.
GivenWhenSent ==
    \A q \in Requested :
        /\ runs[q] <= 1
        /\ stage[q] \in {"new", "unreachable", "waiting"} => runs[q] = 0
        /\ stage[q] \in {"sent", "done"} => runs[q] = 1
        /\ stage[q] = "waiting" => ~Online

\* The orders of a connection that have no answer.
OpenOrders(c) == {q \in Orders \cap Unsettled : asker[q] = c}
CountsAgree == \A c \in Lines : /\ IsFiniteSet(OpenOrders(c)) /\ inFlight[c] = Cardinality(OpenOrders(c))
                                /\ inFlight[c] <= MaxInFlight

ControlInv == ControlTypeOK /\ AskersWait /\ GivenWhenSent /\ missed = {} /\ CountsAgree

-----------------------------------------------------------------------------
(* BoxRequests: the operations. *)

\* A counter and the set it counts, with one order more or less.
LEMMA OneMore ==
    ASSUME NEW S, IsFiniteSet(S), NEW q, q \notin S
    PROVE  IsFiniteSet(S \cup {q}) /\ Cardinality(S \cup {q}) = Cardinality(S) + 1
BY FS_AddElement

\* The counter comes down.
LEMMA OneLess ==
    ASSUME NEW S, IsFiniteSet(S), NEW q \in S
    PROVE  /\ IsFiniteSet(S \ {q}) /\ Cardinality(S \ {q}) = Cardinality(S) - 1
           /\ Cardinality(S) \in Nat /\ Cardinality(S) > 0
<1>1. IsFiniteSet(S \ {q}) /\ Cardinality(S \ {q}) = Cardinality(S) - 1
  BY FS_RemoveElement
<1>2. Cardinality(S) \in Nat /\ Cardinality(S \ {q}) \in Nat
  BY <1>1, FS_CardinalityType
<1> QED
  BY <1>1, <1>2

\* Nothing of the counts was touched.
LEMMA CountsStand ==
    ASSUME CountsAgree, inFlight' = inFlight, \A c \in Lines : OpenOrders(c)' = OpenOrders(c)
    PROVE  CountsAgree'
BY DEF CountsAgree

\* Order.
LEMMA OrderKeeps ==
    ASSUME ControlInv, NEW q \in Orders, NEW c \in Lines, Order(q, c)
    PROVE  ControlInv'
<1>1. /\ q \in Requested /\ stage[q] = "new" /\ sock[c] = "ready" /\ inFlight[c] < MaxInFlight
      /\ inFlight' = [inFlight EXCEPT ![c] = @ + 1] /\ asker' = [asker EXCEPT ![q] = c]
      /\ stage' = [stage EXCEPT ![q] = IF Online THEN "sent" ELSE "waiting"]
      /\ UNCHANGED <<sock, attached, wakeable, missed>>
      /\ runs' = [z \in Requested |-> IF Online /\ z = q THEN runs[z] + 1 ELSE runs[z]]
  BY DEF Order, MayAsk, Deliver, ToNewest, Requested
<1>2. ControlTypeOK /\ AskersWait /\ GivenWhenSent /\ CountsAgree /\ missed = {}
  BY DEF ControlInv
<1>3. /\ asker' \in [Requested -> Lines \cup AppLines \cup {"gone"}] /\ asker'[q] = c
      /\ \A z \in Requested \ {q} : asker'[z] = asker[z]
  BY <1>1, <1>2 DEF ControlTypeOK
<1>4. /\ stage' \in [Requested -> Stages] /\ stage'[q] = IF Online THEN "sent" ELSE "waiting"
      /\ \A z \in Requested \ {q} : stage'[z] = stage[z]
  BY <1>1, <1>2 DEF ControlTypeOK, Stages
<1>5. /\ inFlight' \in [Lines -> Nat] /\ inFlight'[c] = inFlight[c] + 1 /\ inFlight[c] \in Nat
      /\ \A d \in Lines \ {c} : inFlight'[d] = inFlight[d]
  BY <1>1, <1>2 DEF ControlTypeOK
<1>6. runs' \in [Requested -> Nat]
  BY <1>1, <1>2 DEF ControlTypeOK
<1>7. ControlTypeOK'
  BY <1>1, <1>2, <1>3, <1>4, <1>5, <1>6 DEF ControlTypeOK
<1>8. AskersWait'
  BY <1>1, <1>2, <1>3, <1>4 DEF AskersWait
<1>9. GivenWhenSent'
  <2> SUFFICES ASSUME NEW z \in Requested
               PROVE  /\ runs'[z] <= 1
                      /\ stage'[z] \in {"new", "unreachable", "waiting"} => runs'[z] = 0
                      /\ stage'[z] \in {"sent", "done"} => runs'[z] = 1
                      /\ stage'[z] = "waiting" => ~Online'
    BY DEF GivenWhenSent
  <2>1. Online' = Online
    BY <1>1 DEF Online
  <2>2. CASE z = q
    <3>1. runs[q] = 0
      BY <1>1, <1>2 DEF GivenWhenSent
    <3> QED
      BY <1>1, <1>4, <2>1, <2>2, <3>1
  <2>3. CASE z # q
    BY <1>1, <1>2, <1>4, <2>1, <2>3 DEF GivenWhenSent
  <2> QED
    BY <2>2, <2>3
<1>10. CountsAgree'
  <2>1. asker[q] = "gone"
    BY <1>1, <1>2 DEF AskersWait
  <2>2. q \notin OpenOrders(c) /\ OpenOrders(c)' = OpenOrders(c) \cup {q}
    <3>1. \A z \in Orders : z \in Requested
      BY DEF Requested
    <3> QED
      BY <1>1, <1>3, <1>4, <3>1 DEF OpenOrders, Unsettled
  <2>3. \A d \in Lines \ {c} : OpenOrders(d)' = OpenOrders(d)
    <3>1. \A z \in Orders : z \in Requested
      BY DEF Requested
    <3>2. \A d \in Lines : d # "gone"
      BY ControlAssumption
    <3> QED
      BY <1>1, <1>3, <1>4, <2>1, <3>1, <3>2 DEF OpenOrders, Unsettled
  <2>4. IsFiniteSet(OpenOrders(c)) /\ inFlight[c] = Cardinality(OpenOrders(c))
    BY <1>2 DEF CountsAgree
  <2>5. IsFiniteSet(OpenOrders(c)') /\ inFlight'[c] = Cardinality(OpenOrders(c)') /\ inFlight'[c] <= MaxInFlight
    <3>1. IsFiniteSet(OpenOrders(c) \cup {q}) /\ Cardinality(OpenOrders(c) \cup {q}) = Cardinality(OpenOrders(c)) + 1
      BY <2>2, <2>4, OneMore
    <3> QED
      BY <1>1, <1>5, <2>2, <2>4, <3>1, ControlAssumption
  <2>6. \A d \in Lines \ {c} : IsFiniteSet(OpenOrders(d)') /\ inFlight'[d] = Cardinality(OpenOrders(d)') /\ inFlight'[d] <= MaxInFlight
    BY <1>2, <1>5, <2>3 DEF CountsAgree
  <2> QED
    BY <2>5, <2>6 DEF CountsAgree
<1> QED
  BY <1>1, <1>2, <1>7, <1>8, <1>9, <1>10 DEF ControlInv

\* OrderRefused, Call.
LEMMA CallKeeps ==
    ASSUME ControlInv,
           \/ \E q \in Orders, c \in Lines : OrderRefused(q, c)
           \/ \E q \in Calls, s \in AppLines : Call(q, s)
    PROVE  ControlInv'
<1>1. ControlTypeOK /\ AskersWait /\ GivenWhenSent /\ CountsAgree /\ missed = {}
  BY DEF ControlInv
<1>2. /\ UNCHANGED <<sock, inFlight, attached, wakeable, missed>>
      /\ \E q \in Requested :
           /\ stage[q] = "new"
           /\ \/ /\ stage' = [stage EXCEPT ![q] = "unreachable"] /\ UNCHANGED <<asker, runs>>
              \/ /\ Online /\ stage' = [stage EXCEPT ![q] = "sent"] /\ q \notin Orders
                 /\ \E s \in AppLines : sock[s] = "ready" /\ asker' = [asker EXCEPT ![q] = s]
                 /\ runs' = [z \in Requested |-> IF z = q THEN runs[z] + 1 ELSE runs[z]]
  <2>1. CASE \E q \in Orders, c \in Lines : OrderRefused(q, c)
    BY <2>1 DEF OrderRefused, Requested
  <2>2. CASE \E q \in Calls, s \in AppLines : Call(q, s)
    <3>1. PICK q \in Calls, s \in AppLines : Call(q, s)
      BY <2>2
    <3>2. q \in Requested /\ q \notin Orders
      BY ControlAssumption DEF Requested
    <3>3. CASE Online
      <4>1. runs' = [z \in Requested |-> IF z = q THEN runs[z] + 1 ELSE runs[z]]
        BY <3>1, <3>3 DEF Call, Deliver, ToNewest
      <4> QED
        BY <3>1, <3>2, <3>3, <4>1 DEF Call, MayAsk
    <3>4. CASE ~Online
      <4>1. runs' = [z \in Requested |-> runs[z]]
        BY <3>1, <3>4 DEF Call, Deliver
      <4>2. runs' = runs
        BY <1>1, <4>1 DEF ControlTypeOK
      <4> QED
        BY <3>1, <3>2, <3>4, <4>2 DEF Call
    <3> QED
      BY <3>3, <3>4
  <2> QED
    BY <2>1, <2>2
<1>3. PICK q \in Requested :
           /\ stage[q] = "new"
           /\ \/ /\ stage' = [stage EXCEPT ![q] = "unreachable"] /\ UNCHANGED <<asker, runs>>
              \/ /\ Online /\ stage' = [stage EXCEPT ![q] = "sent"] /\ q \notin Orders
                 /\ \E s \in AppLines : sock[s] = "ready" /\ asker' = [asker EXCEPT ![q] = s]
                 /\ runs' = [z \in Requested |-> IF z = q THEN runs[z] + 1 ELSE runs[z]]
  BY <1>2
<1>4. asker[q] = "gone" /\ runs[q] = 0
  BY <1>1, <1>3 DEF AskersWait, GivenWhenSent
<1>5. Online' = Online
  BY <1>2 DEF Online
<1>6. stage' \in [Requested -> Stages] /\ \A z \in Requested \ {q} : stage'[z] = stage[z]
  BY <1>1, <1>3 DEF ControlTypeOK, Stages
<1>7. CASE stage' = [stage EXCEPT ![q] = "unreachable"] /\ UNCHANGED <<asker, runs>>
  <2>1. stage'[q] = "unreachable"
    BY <1>1, <1>7 DEF ControlTypeOK
  <2>2. ControlTypeOK' /\ AskersWait' /\ missed' = {}
    BY <1>1, <1>2, <1>4, <1>6, <1>7, <2>1 DEF ControlTypeOK, AskersWait
  <2>3. GivenWhenSent'
    BY <1>1, <1>4, <1>5, <1>6, <1>7, <2>1 DEF GivenWhenSent
  <2>4. \A c \in Lines : OpenOrders(c)' = OpenOrders(c)
    <3>1. \A c \in Lines : c # "gone"
      BY ControlAssumption
    <3>2. \A z \in Orders : z \in Requested
      BY DEF Requested
    <3> QED
      BY <1>3, <1>4, <1>6, <1>7, <2>1, <3>1, <3>2 DEF OpenOrders, Unsettled
  <2> QED
    BY <1>1, <1>2, <2>2, <2>3, <2>4, CountsStand DEF ControlInv
<1>8. CASE /\ Online /\ stage' = [stage EXCEPT ![q] = "sent"] /\ q \notin Orders
           /\ \E s \in AppLines : sock[s] = "ready" /\ asker' = [asker EXCEPT ![q] = s]
           /\ runs' = [z \in Requested |-> IF z = q THEN runs[z] + 1 ELSE runs[z]]
  <2>1. stage'[q] = "sent"
    BY <1>1, <1>8 DEF ControlTypeOK
  <2>2. PICK s \in AppLines : sock[s] = "ready" /\ asker' = [asker EXCEPT ![q] = s]
    BY <1>8
  <2>3. /\ asker' \in [Requested -> Lines \cup AppLines \cup {"gone"}] /\ asker'[q] = s
        /\ \A z \in Requested \ {q} : asker'[z] = asker[z]
    BY <1>1, <2>2 DEF ControlTypeOK
  <2>4. ControlTypeOK'
    BY <1>1, <1>2, <1>6, <1>8, <2>3 DEF ControlTypeOK
  <2>5. AskersWait'
    BY <1>1, <1>2, <1>6, <1>8, <2>1, <2>2, <2>3 DEF AskersWait
  <2>6. GivenWhenSent'
    BY <1>1, <1>4, <1>5, <1>6, <1>8, <2>1 DEF GivenWhenSent
  <2>7. \A c \in Lines : OpenOrders(c)' = OpenOrders(c)
    <3>1. \A z \in Orders : z \in Requested \ {q}
      BY <1>8 DEF Requested
    <3> QED
      BY <1>6, <2>3, <3>1 DEF OpenOrders, Unsettled
  <2> QED
    BY <1>1, <1>2, <2>4, <2>5, <2>6, <2>7, CountsStand DEF ControlInv
<1> QED
  BY <1>3, <1>7, <1>8

\* WaitEnds, ReplyLate, Reply: a request is settled.
LEMMA SettleKeeps ==
    ASSUME ControlInv, NEW q \in Requested, NEW result,
           \/ result = "unreachable" /\ stage[q] = "waiting"
           \/ result \in {"timeout", "done"} /\ stage[q] = "sent",
           Settle(q, result)
    PROVE  ControlInv'
<1>1. ControlTypeOK /\ AskersWait /\ GivenWhenSent /\ CountsAgree /\ missed = {}
  BY DEF ControlInv
<1>2. /\ stage' = [stage EXCEPT ![q] = result]
      /\ inFlight' = IF q \in Orders /\ asker[q] # "gone" THEN [inFlight EXCEPT ![asker[q]] = @ - 1] ELSE inFlight
      /\ missed' = IF Missing(q) THEN missed \cup {q} ELSE missed
      /\ asker' = [asker EXCEPT ![q] = "gone"]
      /\ UNCHANGED <<sock, runs, attached, wakeable>>
  BY DEF Settle, CountedDown
<1>3. missed' = {}
  BY <1>1, <1>2 DEF Missing, AskersWait
<1>4. /\ stage' \in [Requested -> Stages] /\ stage'[q] = result
      /\ \A z \in Requested \ {q} : stage'[z] = stage[z]
  BY <1>1, <1>2 DEF ControlTypeOK, Stages
<1>5. /\ asker' \in [Requested -> Lines \cup AppLines \cup {"gone"}] /\ asker'[q] = "gone"
      /\ \A z \in Requested \ {q} : asker'[z] = asker[z]
  BY <1>1, <1>2 DEF ControlTypeOK
<1>6. AskersWait'
  BY <1>1, <1>2, <1>4, <1>5 DEF AskersWait
<1>7. GivenWhenSent'
  <2>1. Online' = Online
    BY <1>2 DEF Online
  <2>2. runs' = runs
    BY <1>2
  <2> QED
    BY <1>1, <1>4, <2>1, <2>2 DEF GivenWhenSent
<1>8. \A z \in Orders : z \in Requested
  BY DEF Requested
<1>9. CASE q \in Orders /\ asker[q] # "gone"
  <2> DEFINE c == asker[q]
  <2>1. c \in Lines /\ q \in OpenOrders(c)
    BY <1>1, <1>9 DEF AskersWait, OpenOrders, Unsettled
  <2>2. \A d \in Lines \ {c} : OpenOrders(d)' = OpenOrders(d)
    <3>1. \A d \in Lines : d # "gone"
      BY ControlAssumption
    <3> QED
      BY <1>4, <1>5, <1>8, <3>1 DEF OpenOrders, Unsettled
  <2>3. \A z : z \in OpenOrders(c) \ {q} <=> z \in Orders /\ z # q /\ stage[z] \in {"waiting", "sent"} /\ asker[z] = c
    BY <1>8 DEF OpenOrders, Unsettled
  <2>4. PICK e \in Lines : e = c
    BY <2>1
  <2>5. OpenOrders(e)' = OpenOrders(e) \ {q}
    <3>1. e # "gone"
      BY ControlAssumption
    <3> QED
      BY <1>4, <1>5, <1>8, <2>3, <2>4, <3>1 DEF OpenOrders, Unsettled
  <2>6. IsFiniteSet(OpenOrders(e)) /\ inFlight[e] = Cardinality(OpenOrders(e)) /\ inFlight[e] <= MaxInFlight
    BY <1>1 DEF CountsAgree
  <2>7. /\ IsFiniteSet(OpenOrders(e) \ {q}) /\ Cardinality(OpenOrders(e) \ {q}) = Cardinality(OpenOrders(e)) - 1
        /\ Cardinality(OpenOrders(e)) \in Nat /\ Cardinality(OpenOrders(e)) > 0
    BY <2>1, <2>4, <2>6, OneLess
  <2>8. inFlight' \in [Lines -> Nat] /\ inFlight'[e] = inFlight[e] - 1 /\ \A d \in Lines \ {e} : inFlight'[d] = inFlight[d]
    <3>1. inFlight' = [inFlight EXCEPT ![e] = @ - 1] /\ inFlight[e] - 1 \in Nat /\ inFlight \in [Lines -> Nat]
      BY <1>1, <1>2, <1>9, <2>4, <2>6, <2>7 DEF ControlTypeOK
    <3> QED
      BY <3>1
  <2>9. CountsAgree'
    <3>1. IsFiniteSet(OpenOrders(e)') /\ inFlight'[e] = Cardinality(OpenOrders(e)') /\ inFlight'[e] <= MaxInFlight
      BY <2>5, <2>6, <2>7, <2>8, ControlAssumption
    <3>2. \A d \in Lines \ {e} : IsFiniteSet(OpenOrders(d)') /\ inFlight'[d] = Cardinality(OpenOrders(d)') /\ inFlight'[d] <= MaxInFlight
      BY <1>1, <2>2, <2>4, <2>8 DEF CountsAgree
    <3> QED
      BY <3>1, <3>2 DEF CountsAgree
  <2>10. ControlTypeOK'
    BY <1>1, <1>2, <1>4, <1>5, <2>8 DEF ControlTypeOK
  <2> QED
    BY <1>3, <1>6, <1>7, <2>9, <2>10 DEF ControlInv
<1>10. CASE ~(q \in Orders /\ asker[q] # "gone")
  <2>1. inFlight' = inFlight
    BY <1>2, <1>10
  <2>2. \A d \in Lines : OpenOrders(d)' = OpenOrders(d)
    <3>1. \A d \in Lines : d # "gone"
      BY ControlAssumption
    <3> QED
      BY <1>4, <1>5, <1>8, <1>10, <3>1 DEF OpenOrders, Unsettled
  <2>3. ControlTypeOK'
    BY <1>1, <1>2, <1>4, <1>5, <2>1 DEF ControlTypeOK
  <2> QED
    BY <1>1, <1>3, <1>6, <1>7, <2>1, <2>2, <2>3, CountsStand DEF ControlInv
<1> QED
  BY <1>9, <1>10

\* ReplyToNobody, SockOpens, SockReady, Detach, BoxStops, WakeableTurns: no
\* request changes.
LEMMA QuietKeeps ==
    ASSUME ControlInv,
           \/ \E q \in Requested : ReplyToNobody(q)
           \/ \E s \in Lines \cup AppLines : SockOpens(s) \/ SockReady(s)
           \/ \E s \in BoxLines : Detach(s)
           \/ BoxStops \/ WakeableTurns
    PROVE  ControlInv'
<1>1. ControlTypeOK /\ AskersWait /\ GivenWhenSent /\ CountsAgree /\ missed = {}
  BY DEF ControlInv
<1>2. UNCHANGED <<asker, stage, inFlight, runs, missed>>
  BY DEF ReplyToNobody, SockOpens, SockReady, Detach, BoxStops, WakeableTurns
<1>3. /\ sock' \in [Lines \cup AppLines -> {"off", "replaying", "ready"}]
      /\ \A s \in Lines \cup AppLines : sock[s] = "ready" => sock'[s] = "ready"
  <2>1. CASE \E s \in Lines \cup AppLines : SockOpens(s) \/ SockReady(s)
    BY <1>1, <2>1 DEF SockOpens, SockReady, ControlTypeOK
  <2>2. CASE ~\E s \in Lines \cup AppLines : SockOpens(s) \/ SockReady(s)
    <3>1. sock' = sock
      BY <2>2 DEF ReplyToNobody, Detach, BoxStops, WakeableTurns
    <3> QED
      BY <1>1, <3>1 DEF ControlTypeOK
  <2> QED
    BY <2>1, <2>2
<1>4. (\E q \in Requested : stage[q] = "waiting") => ~Online'
  <2> SUFFICES ASSUME NEW q \in Requested, stage[q] = "waiting" PROVE attached' = <<>>
    BY DEF Online
  <2>1. attached = <<>>
    BY <1>1 DEF GivenWhenSent, Online
  <2>2. CASE \E s \in BoxLines : Detach(s)
    <3>1. PICK s \in BoxLines : s \in Range(attached)
      BY <2>2 DEF Detach
    <3>2. Range(<<>>) = {}
      BY DEF Range
    <3> QED
      BY <2>1, <3>1, <3>2
  <2>3. CASE ~\E s \in BoxLines : Detach(s)
    BY <2>1, <2>3 DEF ReplyToNobody, SockOpens, SockReady, BoxStops, WakeableTurns
  <2> QED
    BY <2>2, <2>3
<1>5. ControlTypeOK'
  BY <1>1, <1>2, <1>3 DEF ControlTypeOK
<1>6. AskersWait'
  <2> SUFFICES ASSUME NEW q \in Requested, asker[q] # "gone"
               PROVE  /\ stage[q] \in {"waiting", "sent"} /\ sock'[asker[q]] = "ready"
                      /\ q \in Orders => asker[q] \in Lines
    BY <1>2 DEF AskersWait
  <2>1. asker[q] \in Lines \cup AppLines
    BY <1>1 DEF ControlTypeOK
  <2> QED
    BY <1>1, <1>3, <2>1 DEF AskersWait
<1>7. GivenWhenSent'
  BY <1>1, <1>2, <1>4 DEF GivenWhenSent
<1>8. \A c \in Lines : OpenOrders(c)' = OpenOrders(c)
  BY <1>2 DEF OpenOrders, Unsettled
<1> QED
  BY <1>1, <1>2, <1>5, <1>6, <1>7, <1>8, CountsStand DEF ControlInv

\* SockCloses.
LEMMA CloseKeeps ==
    ASSUME ControlInv, NEW s \in Lines \cup AppLines, SockCloses(s)
    PROVE  ControlInv'
<1>1. ControlTypeOK /\ AskersWait /\ GivenWhenSent /\ CountsAgree /\ missed = {}
  BY DEF ControlInv
<1>2. /\ sock' = [sock EXCEPT ![s] = "off"]
      /\ asker' = [q \in Requested |-> IF asker[q] = s THEN "gone" ELSE asker[q]]
      /\ inFlight' = [c \in Lines |-> IF c = s THEN 0 ELSE inFlight[c]]
      /\ UNCHANGED <<stage, runs, held, attached, wakeable, missed>>
  BY DEF SockCloses
<1>3. s # "gone"
  BY ControlAssumption
<1>4. ControlTypeOK'
  BY <1>1, <1>2 DEF ControlTypeOK
<1>5. AskersWait'
  BY <1>1, <1>2, <1>3 DEF AskersWait, ControlTypeOK
<1>6. GivenWhenSent'
  BY <1>1, <1>2 DEF GivenWhenSent, Online
<1>7. CountsAgree'
  <2> SUFFICES ASSUME NEW c \in Lines
               PROVE  IsFiniteSet(OpenOrders(c)') /\ inFlight'[c] = Cardinality(OpenOrders(c)') /\ inFlight'[c] <= MaxInFlight
    BY DEF CountsAgree
  <2>1. \A q \in Orders : q \in Requested
    BY DEF Requested
  <2>2. CASE c = s
    <3>1. OpenOrders(c)' = {}
      BY <1>2, <1>3, <2>1, <2>2 DEF OpenOrders
    <3>2. inFlight'[c] = 0 /\ 0 <= MaxInFlight
      BY <1>2, <2>2, ControlAssumption
    <3> QED
      BY <3>1, <3>2, FS_EmptySet
  <2>3. CASE c # s
    <3>1. c # "gone"
      BY ControlAssumption
    <3>2. OpenOrders(c)' = OpenOrders(c)
      BY <1>2, <2>1, <2>3, <3>1 DEF OpenOrders, Unsettled
    <3> QED
      BY <1>1, <1>2, <2>3, <3>2 DEF CountsAgree
  <2> QED
    BY <2>2, <2>3
<1> QED
  BY <1>1, <1>2, <1>4, <1>5, <1>6, <1>7 DEF ControlInv

\* Attach.
LEMMA AttachKeeps ==
    ASSUME ControlInv, NEW s \in BoxLines, Attach(s)
    PROVE  ControlInv'
<1>1. ControlTypeOK /\ AskersWait /\ GivenWhenSent /\ CountsAgree /\ missed = {}
  BY DEF ControlInv
<1>2. /\ stage' = [q \in Requested |-> IF stage[q] = "waiting" THEN "sent" ELSE stage[q]]
      /\ runs' = [q \in Requested |-> IF stage[q] = "waiting" THEN runs[q] + 1 ELSE runs[q]]
      /\ UNCHANGED <<sock, asker, inFlight, wakeable, missed>>
  BY DEF Attach, Awaited, Deliver, ToNewest
<1>3. ControlTypeOK'
  BY <1>1, <1>2 DEF ControlTypeOK, Stages
<1>4. AskersWait'
  BY <1>1, <1>2 DEF AskersWait
<1>5. GivenWhenSent'
  BY <1>1, <1>2 DEF GivenWhenSent
<1>6. \A c \in Lines : OpenOrders(c)' = OpenOrders(c)
  BY <1>2 DEF OpenOrders, Unsettled, Requested
<1> QED
  BY <1>1, <1>2, <1>3, <1>4, <1>5, <1>6, CountsStand DEF ControlInv

\* ControlDies.
LEMMA DeathKeeps ==
    ASSUME ControlInv, ControlDies
    PROVE  ControlInv'
<1>1. ControlTypeOK /\ GivenWhenSent /\ missed = {}
  BY DEF ControlInv
<1>2. /\ sock' = [s \in Lines \cup AppLines |-> "off"] /\ asker' = [q \in Requested |-> "gone"]
      /\ stage' = [q \in Requested |-> IF stage[q] \in {"waiting", "sent"} THEN "lost" ELSE stage[q]]
      /\ inFlight' = [c \in Lines |-> 0] /\ attached' = <<>> /\ UNCHANGED <<runs, missed>>
  BY DEF ControlDies, Unsettled
<1>3. ControlTypeOK' /\ AskersWait'
  BY <1>1, <1>2 DEF ControlTypeOK, AskersWait, Stages
<1>4. GivenWhenSent'
  BY <1>1, <1>2 DEF GivenWhenSent, Online
<1>5. CountsAgree'
  <2>1. \A c \in Lines : OpenOrders(c)' = {}
    BY <1>2, ControlAssumption DEF OpenOrders, Requested
  <2>2. \A c \in Lines : inFlight'[c] = 0 /\ 0 <= MaxInFlight
    BY <1>2, ControlAssumption
  <2> QED
    BY <2>1, <2>2, FS_EmptySet DEF CountsAgree
<1> QED
  BY <1>1, <1>2, <1>3, <1>4, <1>5 DEF ControlInv

\* Each of the steps.
LEMMA ControlStep == ControlInv /\ [ControlNext]_controlVars => ControlInv'
<1> SUFFICES ASSUME ControlInv, [ControlNext]_controlVars PROVE ControlInv'
  OBVIOUS
<1>1. ASSUME NEW q \in Orders, NEW c \in Lines, Order(q, c) PROVE ControlInv'
  BY <1>1, OrderKeeps
<1>2. CASE \/ \E q \in Orders, c \in Lines : OrderRefused(q, c)
           \/ \E q \in Calls, s \in AppLines : Call(q, s)
  BY <1>2, CallKeeps
<1>3. ASSUME NEW q \in Orders, WaitEnds(q) \/ ReplyLate(q) PROVE ControlInv'
  <2>1. q \in Requested
    BY DEF Requested
  <2>2. \/ stage[q] = "waiting" /\ Settle(q, "unreachable")
        \/ stage[q] = "sent" /\ Settle(q, "timeout")
    BY <1>3 DEF WaitEnds, ReplyLate
  <2> QED
    BY <2>1, <2>2, SettleKeeps
<1>4. ASSUME NEW q \in Requested, Reply(q) PROVE ControlInv'
  <2>1. stage[q] = "sent" /\ Settle(q, "done")
    BY <1>4 DEF Reply
  <2> QED
    BY <2>1, SettleKeeps
<1>5. CASE \/ \E q \in Requested : ReplyToNobody(q)
           \/ \E s \in Lines \cup AppLines : SockOpens(s) \/ SockReady(s)
           \/ \E s \in BoxLines : Detach(s)
           \/ BoxStops \/ WakeableTurns
  BY <1>5, QuietKeeps
<1>6. ASSUME NEW s \in Lines \cup AppLines, SockCloses(s) PROVE ControlInv'
  BY <1>6, CloseKeeps
<1>7. ASSUME NEW s \in BoxLines, Attach(s) PROVE ControlInv'
  BY <1>7, AttachKeeps
<1>8. CASE ControlDies
  BY <1>8, DeathKeeps
<1>9. CASE UNCHANGED controlVars
  <2>1. UNCHANGED <<sock, asker, stage, inFlight, runs, held, attached, wakeable, missed>>
    BY <1>9 DEF controlVars
  <2>2. \A c \in Lines : OpenOrders(c)' = OpenOrders(c)
    BY <2>1 DEF OpenOrders, Unsettled
  <2>3. ControlTypeOK' /\ AskersWait' /\ GivenWhenSent' /\ missed' = {}
    BY <2>1 DEF ControlInv, ControlTypeOK, AskersWait, GivenWhenSent, Online
  <2>4. CountsAgree'
    BY <2>1, <2>2, CountsStand DEF ControlInv
  <2> QED
    BY <2>3, <2>4 DEF ControlInv
<1> QED
  BY <1>1, <1>2, <1>3, <1>4, <1>5, <1>6, <1>7, <1>8, <1>9 DEF ControlNext

\* At the start nothing is asked.
LEMMA ControlInitInv == ControlInit => ControlInv
<1> SUFFICES ASSUME ControlInit PROVE ControlInv
  OBVIOUS
<1>1. ControlTypeOK /\ AskersWait /\ GivenWhenSent /\ missed = {}
  BY DEF ControlInit, ControlTypeOK, AskersWait, GivenWhenSent, Stages, Online
<1>2. \A c \in Lines : OpenOrders(c) = {} /\ inFlight[c] = 0 /\ 0 <= MaxInFlight
  BY ControlAssumption DEF ControlInit, OpenOrders, Unsettled
<1>3. CountsAgree
  BY <1>2, FS_EmptySet DEF CountsAgree
<1> QED
  BY <1>1, <1>3 DEF ControlInv

\* The invariant says what is promised.
LEMMA ControlSays == ControlInv => RequestsAnswered
<1> SUFFICES ASSUME ControlInv PROVE RequestsAnswered
  OBVIOUS
<1>1. \A c \in Lines : inFlight[c] = Cardinality({q \in Orders \cap Unsettled : asker[q] = c}) /\ inFlight[c] <= MaxInFlight
  BY DEF ControlInv, CountsAgree, OpenOrders
<1> QED
  BY <1>1 DEF ControlInv, GivenWhenSent, RequestsAnswered

\* A request is given to the box once, however many sockets it has; unreachable
\* means never given and done means given; whoever asked and is there hears the
\* answer, and the count of a connection is that of its open orders (session_control
\* and sendRpcRequest of ws.js and hub.js).
THEOREM EveryRequestAnswered == ControlSpec => []RequestsAnswered
BY ControlStep, ControlSays, ControlInitInv, PTL DEF ControlSpec

-----------------------------------------------------------------------------
(* Unseen: the inductive invariant. *)

Words == [what : {"prompt", "text", "user", "settled"}, at : Nat, target : Nat]

UnseenTypeOK ==
    /\ ticks \in Nat \ {0}
    /\ said \in Seq(Words)
    /\ thread \in [created : Nat, agent : Nat, user : Nat, through : Nat, opened : BOOLEAN]

\* Nothing is of the future, and nothing answers what comes after it.
PastOnly ==
    /\ \A i \in DOMAIN said : said[i].at <= ticks /\ said[i].target < i
    /\ thread.created <= ticks /\ thread.agent <= ticks /\ thread.user <= ticks
    /\ thread.through <= thread.agent
    /\ thread.agent # 0 => thread.created < thread.agent
    /\ thread.created = 0 => thread.agent = 0 /\ thread.user = 0 /\ ~thread.opened
    /\ ~thread.opened => thread.through = 0
    /\ shown \subseteq DOMAIN said

\* What the user knows, as the tables have it.
MsgKnown(i) == i \in DOMAIN said /\ (i \in shown \/ (said[i].what = "prompt" /\ Answered(i)))
ItemKnown(t) == t \in Nat /\ 1 <= t /\ (t <= thread.user \/ (thread.opened /\ t <= Later(thread.through, thread.created)))
KnownIs ==
    /\ \A i \in Nat : Msg(i) \in known <=> MsgKnown(i)
    /\ \A t \in Nat : ItemRef(t) \in known <=> ItemKnown(t)

\* What a nudge was about is remembered until it is too old for the list.
Refs == {Msg(i) : i \in DOMAIN said} \cup {ItemRef(t) : t \in 1 .. ticks}
RefTime(r) == IF r[1] = "msg" THEN said[r[2]].at ELSE r[2]
NamedIs ==
    /\ named \subseteq Refs
    /\ \A n \in nudged : n.ref \in named /\ n.at \in Nat /\ n.at <= ticks /\ RefTime(n.ref) <= n.at
    /\ \A r \in named : (\E n \in nudged : n.ref = r) \/ Since < ticks - RefTime(r)

UnseenInv == UnseenTypeOK /\ PastOnly /\ KnownIs /\ NamedIs /\ NudgesAreNews

\* Of a message.
LEMMA WordIs ==
    ASSUME NEW w \in Words
    PROVE  w.at \in Nat /\ w.target \in Nat
BY DEF Words

\* The time of an entry.
LEMMA RefTimes ==
    ASSUME UnseenTypeOK, PastOnly, NEW r \in Refs
    PROVE  RefTime(r) \in Nat /\ RefTime(r) <= ticks
<1>1. CASE \E i \in DOMAIN said : r = Msg(i)
  <2>1. PICK i \in DOMAIN said : r = Msg(i)
    BY <1>1
  <2>2. said[i].at \in Nat /\ said[i].at <= ticks
    <3>1. said[i] \in Words
      BY DEF UnseenTypeOK
    <3>2. said[i].at <= ticks
      BY DEF PastOnly
    <3> QED
      BY <3>1, <3>2, WordIs
  <2>3. r[1] = "msg" /\ r[2] = i
    BY <2>1 DEF Msg
  <2> QED
    BY <2>2, <2>3 DEF RefTime
<1>2. CASE \E t \in 1 .. ticks : r = ItemRef(t)
  <2>1. PICK t \in 1 .. ticks : r = ItemRef(t)
    BY <1>2
  <2>2. r[1] = "item" /\ r[2] = t
    BY <2>1 DEF ItemRef
  <2>3. t \in Nat /\ t <= ticks
    BY DEF UnseenTypeOK
  <2> QED
    BY <2>2, <2>3 DEF RefTime
<1> QED
  BY <1>1, <1>2 DEF Refs

\* What was named stays named: the clock goes on, the log grows.
LEMMA NamesStand ==
    ASSUME UnseenInv, UNCHANGED <<named, nudged>>, ticks' \in Nat, ticks <= ticks',
           \A i \in DOMAIN said : i \in DOMAIN said' /\ said'[i] = said[i]
    PROVE  NamedIs'
<1>1. UnseenTypeOK /\ PastOnly /\ NamedIs /\ ticks \in Nat /\ Since \in Nat
  BY UnseenAssumption DEF UnseenInv, UnseenTypeOK
<1>2. ASSUME NEW r \in Refs PROVE r \in Refs' /\ RefTime(r)' = RefTime(r)
  <2>1. CASE \E i \in DOMAIN said : r = Msg(i)
    <3>1. PICK i \in DOMAIN said : r = Msg(i)
      BY <2>1
    <3>2. r[1] = "msg" /\ r[2] = i
      BY <3>1 DEF Msg
    <3> QED
      BY <3>1, <3>2 DEF Refs, RefTime
  <2>2. CASE \E t \in 1 .. ticks : r = ItemRef(t)
    <3>1. PICK t \in 1 .. ticks : r = ItemRef(t)
      BY <2>2
    <3>2. r[1] = "item" /\ r[2] = t /\ t \in 1 .. ticks'
      BY <1>1, <3>1 DEF ItemRef
    <3> QED
      BY <3>1, <3>2 DEF Refs, RefTime
  <2> QED
    BY <2>1, <2>2 DEF Refs
<1>3. named' \subseteq Refs'
  BY <1>1, <1>2 DEF NamedIs
<1>4. \A n \in nudged' : n.ref \in named' /\ n.at \in Nat /\ n.at <= ticks' /\ RefTime(n.ref)' <= n.at
  BY <1>1, <1>2 DEF NamedIs
<1>5. \A r \in named' : (\E n \in nudged' : n.ref = r) \/ Since < ticks' - RefTime(r)'
  <2> TAKE r \in named'
  <2>1. r \in Refs /\ RefTime(r)' = RefTime(r) /\ RefTime(r) \in Nat
    BY <1>1, <1>2, RefTimes DEF NamedIs
  <2> QED
    BY <1>1, <2>1 DEF NamedIs
<1> QED
  BY <1>3, <1>4, <1>5 DEF NamedIs

-----------------------------------------------------------------------------
(* Unseen: what is said and seen. *)

\* AgentWrites, UserWrites, BridgeSettles.
LEMMA SayKeeps ==
    ASSUME UnseenInv,
           \/ AgentWrites("prompt") \/ AgentWrites("text")
           \/ \E i \in 0 .. MaxSaid : UserWrites(i) \/ BridgeSettles(i)
    PROVE  UnseenInv'
<1>1. UnseenTypeOK /\ PastOnly /\ KnownIs /\ NudgesAreNews
  BY DEF UnseenInv
<1>2. UNCHANGED <<ticks, shown, thread, nudged, named, amiss>>
  BY DEF AgentWrites, UserWrites, BridgeSettles
<1>3. PICK what \in {"prompt", "text", "user", "settled"}, target \in Prompts \cup {0} :
        /\ said' = Append(said, [what |-> what, at |-> ticks, target |-> target])
        /\ \/ what \in {"prompt", "text"} /\ target = 0 /\ known' = known
           \/ what = "user" /\ known' = known \cup {Msg(i) : i \in Prompts}
           \/ what = "settled" /\ target \in Prompts /\ known' = known \cup {Msg(target)}
  <2>1. CASE AgentWrites("prompt") \/ AgentWrites("text")
    BY <2>1 DEF AgentWrites, Say
  <2>2. CASE \E i \in 0 .. MaxSaid : UserWrites(i)
    BY <2>2 DEF UserWrites, Say
  <2>3. CASE \E i \in 0 .. MaxSaid : BridgeSettles(i)
    BY <2>3 DEF BridgeSettles, Say
  <2> QED
    BY <2>1, <2>2, <2>3
<1>17. PICK n : n = Len(said)
  OBVIOUS
<1> DEFINE m == [what |-> what, at |-> ticks, target |-> target]
<1>4. n \in Nat /\ DOMAIN said = 1 .. n /\ ticks \in Nat
  BY <1>1, <1>17 DEF UnseenTypeOK
<1>5. target \in 0 .. n
  BY <1>4 DEF Prompts
<1>6. m \in Words
  BY <1>4, <1>5 DEF Words
<1>7. m.what = what /\ m.at = ticks /\ m.target = target
  OBVIOUS
<1> HIDE DEF m
<1>8. /\ said' \in Seq(Words)
      /\ DOMAIN said' = 1 .. n + 1 /\ said'[n + 1] = m
      /\ \A i \in 1 .. n : said'[i] = said[i]
  BY <1>1, <1>3, <1>6, <1>17 DEF UnseenTypeOK, m
<1>9. UnseenTypeOK'
  BY <1>1, <1>2, <1>8 DEF UnseenTypeOK
<1>10. PastOnly'
  <2>1. \A i \in 1 .. n + 1 : said'[i].at <= ticks /\ said'[i].target < i
    <3> TAKE i \in 1 .. n + 1
    <3>1. CASE i \in 1 .. n
      BY <1>1, <1>4, <1>8, <3>1 DEF PastOnly
    <3>2. CASE i = n + 1
      BY <1>4, <1>5, <1>7, <1>8, <3>2
    <3> QED
      BY <1>4, <3>1, <3>2
  <2>2. shown' \subseteq DOMAIN said'
    BY <1>1, <1>2, <1>4, <1>8 DEF PastOnly
  <2>3. \A i \in DOMAIN said' : said'[i].at <= ticks' /\ said'[i].target < i
    BY <1>2, <1>8, <2>1
  <2> QED
    BY <1>1, <1>2, <2>2, <2>3 DEF PastOnly
<1>11. NamedIs'
  BY <1>2, <1>4, <1>8, NamesStand
<1>12. ASSUME NEW i \in 1 .. n
       PROVE  Answered(i)' <=> (Answered(i) \/ target = i \/ what = "user")
  <2>1. (\E j \in 1 .. n + 1 : said'[j].target = i) <=> (\E j \in 1 .. n : said[j].target = i) \/ target = i
    <3>1. 1 .. n + 1 = 1 .. n \cup {n + 1}
      BY <1>4
    <3> QED
      BY <1>7, <1>8, <3>1
  <2>2. (\E j \in 1 .. n + 1 : j > i /\ said'[j].what = "user") <=> (\E j \in 1 .. n : j > i /\ said[j].what = "user") \/ what = "user"
    <3>1. 1 .. n + 1 = 1 .. n \cup {n + 1} /\ n + 1 > i
      BY <1>4
    <3> QED
      BY <1>7, <1>8, <3>1
  <2>3. Answered(i)' <=> (\E j \in DOMAIN said' : said'[j].target = i) \/ \E j \in DOMAIN said' : j > i /\ said'[j].what = "user"
    BY DEF Answered, NamedOnly
  <2>4. Answered(i) <=> (\E j \in DOMAIN said : said[j].target = i) \/ \E j \in DOMAIN said : j > i /\ said[j].what = "user"
    BY DEF Answered, NamedOnly
  <2> QED
    BY <1>4, <1>8, <2>1, <2>2, <2>3, <2>4
<1>13. ~MsgKnown(n + 1)' /\ ~MsgKnown(n + 1)
  <2>1. n + 1 \notin shown
    BY <1>1, <1>4 DEF PastOnly
  <2>2. \A j \in 1 .. n + 1 : said'[j].target < j
    BY <1>8, <1>10 DEF PastOnly
  <2>3. \A j \in 1 .. n + 1 : said'[j].target # n + 1 /\ ~(j > n + 1)
    <3> TAKE j \in 1 .. n + 1
    <3>1. said'[j].target \in Nat /\ said'[j].target < j
      <4>1. said'[j] \in Words
        <5>1. j \in DOMAIN said' /\ said' \in Seq(Words)
          BY <1>8
        <5> QED
          BY <5>1
      <4> QED
        BY <2>2, <4>1, WordIs
    <3> QED
      BY <1>4, <3>1
  <2>4. ~Answered(n + 1)'
    BY <1>8, <2>3 DEF Answered, NamedOnly
  <2>5. n + 1 \notin DOMAIN said
    BY <1>4
  <2> QED
    BY <1>2, <2>1, <2>4, <2>5 DEF MsgKnown
<1>14. \A i \in Nat : Msg(i) \in known' <=> MsgKnown(i)'
  <2> TAKE i \in Nat
  <2>1. Msg(i) \in known' <=> (Msg(i) \in known \/ (what = "user" /\ i \in Prompts) \/ (what = "settled" /\ i = target))
    BY <1>3 DEF Msg
  <2>2. CASE i \in 1 .. n
    <3>1. i \in Prompts <=> said[i].what = "prompt"
      BY <1>4, <2>2 DEF Prompts
    <3>2. MsgKnown(i)' <=> i \in shown \/ (said[i].what = "prompt" /\ (Answered(i) \/ target = i \/ what = "user"))
      BY <1>2, <1>4, <1>8, <1>12, <2>2 DEF MsgKnown
    <3>3. MsgKnown(i) <=> i \in shown \/ (said[i].what = "prompt" /\ Answered(i))
      BY <1>4, <2>2 DEF MsgKnown
    <3>4. Msg(i) \in known <=> MsgKnown(i)
      BY <1>1 DEF KnownIs
    <3>5. target = i => what \in {"user", "settled"} /\ said[i].what = "prompt"
      BY <1>3, <1>4, <2>2 DEF Prompts
    <3> QED
      BY <1>3, <2>1, <3>1, <3>2, <3>3, <3>4, <3>5
  <2>3. CASE i \notin 1 .. n
    <3>1. ~MsgKnown(i) /\ ~MsgKnown(i)'
      BY <1>4, <1>8, <1>13, <2>3 DEF MsgKnown
    <3>2. i \notin Prompts
      BY <1>4, <2>3 DEF Prompts
    <3> QED
      BY <1>1, <1>3, <2>1, <3>1, <3>2 DEF KnownIs
  <2> QED
    BY <2>2, <2>3
<1>15. \A t \in Nat : ItemRef(t) \in known' <=> ItemKnown(t)'
  <2> TAKE t \in Nat
  <2>1. ItemRef(t) \in known' <=> ItemRef(t) \in known
    BY <1>3 DEF ItemRef, Msg
  <2>2. ItemKnown(t)' <=> ItemKnown(t)
    BY <1>2 DEF ItemKnown
  <2> QED
    BY <1>1, <2>1, <2>2 DEF KnownIs
<1>16. NudgesAreNews'
  BY <1>1, <1>2 DEF NudgesAreNews
<1> QED
  BY <1>9, <1>10, <1>11, <1>14, <1>15, <1>16 DEF UnseenInv, KnownIs

\* RangeReported.
LEMMA ReportKeeps ==
    ASSUME UnseenInv, NEW i, RangeReported(i)
    PROVE  UnseenInv'
<1>1. UnseenTypeOK /\ PastOnly /\ KnownIs /\ NudgesAreNews
  BY DEF UnseenInv
<1>2. /\ i \in DOMAIN said /\ shown' = shown \cup {i} /\ known' = known \cup {Msg(i)}
      /\ UNCHANGED <<ticks, said, idle, thread, flagged, nudged, lastAt, named, amiss>>
  BY DEF RangeReported
<1>3. UnseenTypeOK' /\ PastOnly' /\ NudgesAreNews'
  BY <1>1, <1>2 DEF UnseenTypeOK, PastOnly, NudgesAreNews
<1>4. NamedIs'
  <2>1. ticks \in Nat
    BY <1>1 DEF UnseenTypeOK
  <2> QED
    BY <1>2, <2>1, NamesStand
<1>5. ASSUME NEW j \in Nat PROVE Msg(j) \in known' <=> MsgKnown(j)'
  <2>1. Msg(j) \in known' <=> Msg(j) \in known \/ j = i
    BY <1>2 DEF Msg
  <2>2. MsgKnown(j)' <=> MsgKnown(j) \/ j = i
    BY <1>2 DEF MsgKnown, Answered, NamedOnly
  <2> QED
    BY <1>1, <2>1, <2>2 DEF KnownIs
<1>6. ASSUME NEW t \in Nat PROVE ItemRef(t) \in known' <=> ItemKnown(t)'
  <2>1. ItemRef(t) \in known' <=> ItemRef(t) \in known
    BY <1>2 DEF Msg, ItemRef
  <2>2. ItemKnown(t)' <=> ItemKnown(t)
    BY <1>2 DEF ItemKnown
  <2> QED
    BY <1>1, <2>1, <2>2 DEF KnownIs
<1> QED
  BY <1>3, <1>4, <1>5, <1>6 DEF UnseenInv, KnownIs

\* AgentPosts, UserPosts, ItemShown.
LEMMA ThreadKeeps ==
    ASSUME UnseenInv, AgentPosts \/ UserPosts \/ \E t \in 0 .. LastTick : ItemShown(t)
    PROVE  UnseenInv'
<1>1. UnseenTypeOK /\ PastOnly /\ KnownIs /\ NudgesAreNews /\ ticks \in Nat \ {0}
  BY DEF UnseenInv, UnseenTypeOK
<1>2. UNCHANGED <<ticks, said, shown, nudged, named, amiss>>
  BY DEF AgentPosts, UserPosts, ItemShown
<1>3. thread \in [created : Nat, agent : Nat, user : Nat, through : Nat, opened : BOOLEAN]
  BY <1>1 DEF UnseenTypeOK
<1>4. NamedIs' /\ NudgesAreNews'
  BY <1>1, <1>2, NamesStand DEF NudgesAreNews
<1>5. ASSUME NEW S, known' = known \cup {ItemRef(t) : t \in S}
      PROVE  \A i \in Nat : Msg(i) \in known' <=> MsgKnown(i)'
  <2> TAKE i \in Nat
  <2>1. Msg(i) \in known' <=> Msg(i) \in known
    BY <1>5 DEF Msg, ItemRef
  <2>2. MsgKnown(i)' <=> MsgKnown(i)
    BY <1>2 DEF MsgKnown, Answered, NamedOnly
  <2> QED
    BY <1>1, <2>1, <2>2 DEF KnownIs
<1>6. CASE AgentPosts
  <2>1. known' = known \cup {ItemRef(t) : t \in {}} /\ ticks > Later(Latest, thread.user)
    BY <1>6 DEF AgentPosts
  <2>2. thread.created < ticks /\ thread.agent < ticks /\ thread.user < ticks
    BY <1>1, <1>3, <2>1 DEF Later, Latest
  <2>3. CASE thread.created = 0
    <3>1. /\ thread'.created = ticks /\ thread'.agent = 0 /\ thread'.user = 0 /\ thread'.through = 0 /\ ~thread'.opened
          /\ thread' \in [created : Nat, agent : Nat, user : Nat, through : Nat, opened : BOOLEAN]
          /\ thread.user = 0 /\ ~thread.opened
      BY <1>1, <1>3, <1>6, <2>3 DEF AgentPosts, PastOnly
    <3>2. UnseenTypeOK' /\ PastOnly'
      BY <1>1, <1>2, <3>1 DEF UnseenTypeOK, PastOnly
    <3>3. \A t \in Nat : ItemRef(t) \in known' <=> ItemKnown(t)'
      <4> TAKE t \in Nat
      <4>1. ~ItemKnown(t) /\ ~ItemKnown(t)'
        BY <3>1 DEF ItemKnown
      <4> QED
        BY <1>1, <2>1, <4>1 DEF KnownIs
    <3> QED
      BY <1>4, <1>5, <2>1, <3>2, <3>3 DEF UnseenInv, KnownIs
  <2>4. CASE thread.created # 0
    <3>1. /\ thread'.created = thread.created /\ thread'.agent = ticks /\ thread'.user = thread.user
          /\ thread'.through = thread.through /\ thread'.opened = thread.opened
          /\ thread' \in [created : Nat, agent : Nat, user : Nat, through : Nat, opened : BOOLEAN]
      BY <1>1, <1>3, <1>6, <2>4 DEF AgentPosts
    <3>2. UnseenTypeOK'
      BY <1>1, <1>2, <3>1 DEF UnseenTypeOK
    <3>3. PastOnly'
      <4>1. thread.through <= ticks
        BY <1>1, <1>3 DEF PastOnly
      <4> QED
        BY <1>1, <1>2, <1>3, <2>2, <2>4, <3>1, <4>1 DEF PastOnly
    <3>4. \A t \in Nat : ItemRef(t) \in known' <=> ItemKnown(t)'
      BY <1>1, <2>1, <3>1 DEF KnownIs, ItemKnown
    <3> QED
      BY <1>4, <1>5, <2>1, <3>2, <3>3, <3>4 DEF UnseenInv, KnownIs
  <2> QED
    BY <2>3, <2>4
<1>7. CASE UserPosts
  <2>1. /\ known' = known \cup {ItemRef(t) : t \in 1 .. ticks} /\ thread.created # 0
        /\ thread'.created = thread.created /\ thread'.agent = thread.agent /\ thread'.user = ticks
        /\ thread'.through = thread.through /\ thread'.opened = thread.opened
        /\ thread' \in [created : Nat, agent : Nat, user : Nat, through : Nat, opened : BOOLEAN]
    BY <1>1, <1>3, <1>7 DEF UserPosts
  <2>2. UnseenTypeOK' /\ PastOnly'
    BY <1>1, <1>2, <1>3, <2>1 DEF UnseenTypeOK, PastOnly
  <2>3. \A t \in Nat : ItemRef(t) \in known' <=> ItemKnown(t)'
    <3> TAKE t \in Nat
    <3>1. ItemRef(t) \in known' <=> ItemRef(t) \in known \/ t \in 1 .. ticks
      BY <2>1 DEF ItemRef
    <3>2. thread.user <= ticks /\ thread.user \in Nat
      BY <1>1, <1>3 DEF PastOnly
    <3>3. ItemKnown(t)' <=> ItemKnown(t) \/ t \in 1 .. ticks
      BY <1>1, <2>1, <3>2 DEF ItemKnown
    <3> QED
      BY <1>1, <3>1, <3>3 DEF KnownIs
  <2> QED
    BY <1>4, <1>5, <2>1, <2>2, <2>3 DEF UnseenInv, KnownIs
<1>8. CASE \E t \in 0 .. LastTick : ItemShown(t)
  <2>1. PICK s \in 0 .. LastTick : ItemShown(s)
    BY <1>8
  <2>2. s \in Nat /\ s <= thread.agent
    <3>1. s \in 0 .. thread.agent
      BY <2>1 DEF ItemShown
    <3> QED
      BY <1>3, <3>1
  <2>3. /\ known' = known \cup {ItemRef(u) : u \in 1 .. Later(s, thread.created)} /\ thread.created # 0
        /\ thread'.created = thread.created /\ thread'.agent = thread.agent /\ thread'.user = thread.user
        /\ thread'.through = Later(thread.through, s) /\ thread'.opened = TRUE
        /\ thread' \in [created : Nat, agent : Nat, user : Nat, through : Nat, opened : BOOLEAN]
    BY <1>3, <2>1, <2>2 DEF ItemShown, FurthestThrough, Later
  <2>4. UnseenTypeOK' /\ PastOnly'
    BY <1>1, <1>2, <1>3, <2>2, <2>3 DEF UnseenTypeOK, PastOnly, Later
  <2>5. \A t \in Nat : ItemRef(t) \in known' <=> ItemKnown(t)'
    <3> TAKE t \in Nat
    <3>1. ItemRef(t) \in known' <=> ItemRef(t) \in known \/ t \in 1 .. Later(s, thread.created)
      BY <2>3 DEF ItemRef
    <3>2. ~thread.opened => thread.through = 0
      BY <1>1 DEF PastOnly
    <3>3. ItemKnown(t)' <=> ItemKnown(t) \/ t \in 1 .. Later(s, thread.created)
      BY <1>3, <2>2, <2>3, <3>2 DEF ItemKnown, Later
    <3> QED
      BY <1>1, <3>1, <3>3 DEF KnownIs
  <2> QED
    BY <1>4, <1>5, <2>3, <2>4, <2>5 DEF UnseenInv, KnownIs
<1> QED
  BY <1>6, <1>7, <1>8

-----------------------------------------------------------------------------
(* Unseen: the nudge. *)

\* SessionTurns, Raise, UnseenTick.
LEMMA TicksKeep ==
    ASSUME UnseenInv, SessionTurns \/ UnseenTick \/ \E r \in Listed : Raise(r)
    PROVE  UnseenInv'
<1>1. UnseenTypeOK /\ PastOnly /\ KnownIs /\ NudgesAreNews
  BY DEF UnseenInv
<1>2. UNCHANGED <<said, shown, thread, nudged, known, named, amiss>> /\ ticks' \in {ticks, ticks + 1}
  BY DEF SessionTurns, UnseenTick, Raise
<1>3. ticks \in Nat \ {0} /\ ticks' \in Nat \ {0} /\ ticks <= ticks'
  BY <1>1, <1>2 DEF UnseenTypeOK
<1>4. UnseenTypeOK' /\ NudgesAreNews'
  BY <1>1, <1>2, <1>3 DEF UnseenTypeOK, NudgesAreNews
<1>5. NamedIs'
  BY <1>2, <1>3, NamesStand
<1>6. PastOnly'
  <2>1. \A i \in DOMAIN said : said[i].at <= ticks' /\ said[i].target < i
    <3> TAKE i \in DOMAIN said
    <3>1. said[i] \in Words /\ said[i].at <= ticks /\ said[i].target < i
      BY <1>1 DEF UnseenTypeOK, PastOnly
    <3>2. said[i].at \in Nat
      BY <3>1, WordIs
    <3> QED
      BY <1>3, <3>1, <3>2
  <2>2. thread.created <= ticks' /\ thread.agent <= ticks' /\ thread.user <= ticks'
    <3>1. thread.created \in Nat /\ thread.agent \in Nat /\ thread.user \in Nat
      BY <1>1 DEF UnseenTypeOK
    <3> QED
      BY <1>1, <1>3, <3>1 DEF PastOnly
  <2> QED
    BY <1>1, <1>2, <2>1, <2>2 DEF PastOnly
<1>7. KnownIs'
  <2>1. \A i \in Nat : Msg(i) \in known' <=> MsgKnown(i)'
    BY <1>1, <1>2 DEF KnownIs, MsgKnown, Answered, NamedOnly
  <2>2. \A t \in Nat : ItemRef(t) \in known' <=> ItemKnown(t)'
    BY <1>1, <1>2 DEF KnownIs, ItemKnown
  <2> QED
    BY <2>1, <2>2 DEF KnownIs
<1> QED
  BY <1>4, <1>5, <1>6, <1>7 DEF UnseenInv

\* What is listed is of the time, and nothing the user knows; what the user does
\* not know of questions and threads is listed, unless it was raised.
LEMMA ListIsRight ==
    ASSUME UnseenInv
    PROVE  /\ \A r \in Listed : r \in Refs /\ r \notin known /\ ticks - RefTime(r) <= Since
           /\ \A r \in Due \ known : r \in Listed \/ r \in {f.ref : f \in flagged}
<1>1. UnseenTypeOK /\ PastOnly /\ KnownIs
  BY DEF UnseenInv
<1>2. ASSUME NEW i \in DOMAIN said
      PROVE  /\ Msg(i) \in known <=> i \in shown \/ (said[i].what = "prompt" /\ Answered(i))
             /\ Msg(i) \in Refs /\ RefTime(Msg(i)) = said[i].at
  <2>1. i \in Nat /\ Msg(i) \in Refs
    BY <1>1 DEF UnseenTypeOK, Refs
  <2>2. RefTime(Msg(i)) = said[i].at
    BY DEF RefTime, Msg
  <2> QED
    BY <1>1, <2>1, <2>2 DEF KnownIs, MsgKnown
<1>3. /\ thread.created \in Nat /\ thread.agent \in Nat /\ thread.user \in Nat /\ thread.through \in Nat /\ thread.opened \in BOOLEAN
      /\ Latest \in Nat /\ ticks \in Nat
  BY <1>1 DEF UnseenTypeOK, Latest, Later
<1>4. Latest # 0 => /\ ItemRef(Latest) \in known <=> ~ThreadUnseen
                    /\ ItemRef(Latest) \in Refs /\ RefTime(ItemRef(Latest)) = Latest
  <2> SUFFICES ASSUME Latest # 0
               PROVE  /\ ItemRef(Latest) \in known <=> ~ThreadUnseen
                      /\ ItemRef(Latest) \in Refs /\ RefTime(ItemRef(Latest)) = Latest
    OBVIOUS
  <2>1. Latest <= ticks
    BY <1>1, <1>3 DEF Latest, Later, PastOnly
  <2>2. ItemRef(Latest) \in Refs
    BY <1>3, <2>1 DEF Refs
  <2>3. RefTime(ItemRef(Latest)) = Latest
    BY DEF RefTime, ItemRef
  <2>4. ItemRef(Latest) \in known <=> ItemKnown(Latest)
    BY <1>1, <1>3 DEF KnownIs
  <2>5. thread.through <= thread.agent /\ (thread.agent # 0 => thread.created < thread.agent)
    BY <1>1 DEF PastOnly
  <2>6. ItemKnown(Latest) <=> ~ThreadUnseen
    BY <1>3, <2>5 DEF ItemKnown, ThreadUnseen, Latest, Later
  <2> QED
    BY <2>2, <2>3, <2>4, <2>6
<1>5. ASSUME NEW r \in Listed PROVE r \in Refs /\ r \notin known /\ ticks - RefTime(r) <= Since
  <2>1. r \in MessagesListed \/ r \in ItemListed
    BY DEF Listed
  <2>2. CASE r \in MessagesListed
    <3>1. PICK i \in DOMAIN said \ shown :
            /\ r = Msg(i) /\ ticks - said[i].at <= Since
            /\ (said[i].what = "prompt" /\ ~Answered(i)) \/ said[i].what = "text"
      BY <2>2 DEF MessagesListed, InWindow
    <3> QED
      BY <1>2, <3>1
  <2>3. CASE r \in ItemListed
    <3>1. r = ItemRef(Latest) /\ Latest # 0 /\ ThreadUnseen /\ ticks - Latest <= Since
      BY <2>3 DEF ItemListed, InWindow
    <3> QED
      BY <1>4, <3>1
  <2> QED
    BY <2>1, <2>2, <2>3
<1>6. ASSUME NEW r \in Due \ known PROVE r \in Listed \/ r \in {f.ref : f \in flagged}
  <2>1. r \in MessagesListed \/ r \in ItemListed
    <3>1. CASE \E i \in Prompts : InWindow(said[i].at) /\ r = Msg(i)
      <4>1. PICK i \in Prompts : InWindow(said[i].at) /\ r = Msg(i)
        BY <3>1
      <4>2. i \in DOMAIN said /\ said[i].what = "prompt"
        BY <4>1 DEF Prompts
      <4>3. i \notin shown /\ ~Answered(i)
        BY <1>2, <1>6, <4>1, <4>2
      <4> QED
        BY <4>1, <4>2, <4>3 DEF MessagesListed
    <3>2. CASE Latest # 0 /\ InWindow(Latest) /\ r = ItemRef(Latest)
      BY <1>4, <1>6, <3>2 DEF ItemListed
    <3> QED
      BY <3>1, <3>2 DEF Due
  <2> QED
    BY <2>1 DEF Listed
<1> QED
  BY <1>5, <1>6

\* Prune, Nudge.
LEMMA NudgeKeeps ==
    ASSUME UnseenInv, Prune \/ Nudge
    PROVE  UnseenInv'
<1>1. UnseenTypeOK /\ PastOnly /\ KnownIs /\ NamedIs /\ amiss = {}
  BY DEF UnseenInv, NudgesAreNews
<1>2. UNCHANGED <<ticks, said, shown, thread, known>>
  BY DEF Prune, Nudge
<1>3. UnseenTypeOK' /\ PastOnly'
  BY <1>1, <1>2 DEF UnseenTypeOK, PastOnly
<1>4. KnownIs'
  <2>1. \A i \in Nat : Msg(i) \in known' <=> MsgKnown(i)'
    BY <1>1, <1>2 DEF KnownIs, MsgKnown, Answered, NamedOnly
  <2>2. \A t \in Nat : ItemRef(t) \in known' <=> ItemKnown(t)'
    BY <1>1, <1>2 DEF KnownIs, ItemKnown
  <2> QED
    BY <2>1, <2>2 DEF KnownIs
<1>5. Refs' = Refs /\ \A r \in Refs : RefTime(r)' = RefTime(r) /\ RefTime(r) \in Nat /\ RefTime(r) <= ticks
  <2>1. Refs' = Refs
    BY <1>2 DEF Refs
  <2>2. \A r \in Refs : RefTime(r)' = RefTime(r)
    BY <1>2 DEF RefTime
  <2> QED
    BY <1>1, <2>1, <2>2, RefTimes
<1>6. /\ ticks \in Nat /\ Since \in Nat /\ FlagTtl \in Nat /\ Since < FlagTtl
      /\ \A n \in nudged : n.ref \in named /\ n.ref \in Refs /\ n.at \in Nat /\ n.at <= ticks /\ RefTime(n.ref) <= n.at
  BY <1>1, UnseenAssumption DEF UnseenTypeOK, NamedIs
<1>7. \A n \in nudged : n \in Young(nudged) \/ Since < ticks - RefTime(n.ref)
  BY <1>5, <1>6 DEF Young
<1>8. CASE Prune
  <2>1. nudged' = Young(nudged) /\ named' = named /\ amiss' = {}
    BY <1>1, <1>8 DEF Prune
  <2>2. NamedIs'
    <3>1. \A n \in nudged' : n \in nudged
      BY <2>1 DEF Young
    <3>2. \A n \in nudged' : n.ref \in named' /\ n.at \in Nat /\ n.at <= ticks' /\ RefTime(n.ref)' <= n.at
      BY <1>2, <1>5, <1>6, <2>1, <3>1
    <3>3. \A r \in named' : (\E n \in nudged' : n.ref = r) \/ Since < ticks' - RefTime(r)'
      BY <1>1, <1>2, <1>5, <1>7, <2>1 DEF NamedIs
    <3> QED
      BY <1>1, <1>5, <2>1, <3>2, <3>3 DEF NamedIs
  <2> QED
    BY <1>3, <1>4, <2>1, <2>2 DEF UnseenInv, NudgesAreNews
<1>9. CASE Nudge
  <2> DEFINE fresh == News(Young(nudged))
  <2>1. /\ nudged' = Young(nudged) \cup {[ref |-> r, at |-> ticks] : r \in fresh}
        /\ named' = named \cup fresh
        /\ amiss' = amiss \cup (fresh \cap (known \cup named)) \cup (Due \ (known \cup named' \cup {f.ref : f \in flagged}))
    BY <1>9 DEF Nudge
  <2>2. fresh \subseteq Listed /\ \A r \in Listed : r \in fresh \/ \E n \in Young(nudged) : n.ref = r
    BY DEF News
  <2>3. \A r \in fresh : r \in Refs /\ r \notin known /\ ticks - RefTime(r) <= Since
    BY <2>2, ListIsRight
  <2>4. \A r \in fresh : r \notin {n.ref : n \in Young(nudged)}
    BY DEF News
  <2> HIDE DEF fresh
  <2>5. \A r \in fresh : r \notin named
    <3> SUFFICES ASSUME NEW r \in fresh, r \in named PROVE FALSE
      OBVIOUS
    <3>1. RefTime(r) \in Nat /\ ~(Since < ticks - RefTime(r))
      BY <1>5, <1>6, <2>3
    <3>2. PICK n \in nudged : n.ref = r
      BY <1>1, <3>1 DEF NamedIs
    <3>3. n \in Young(nudged)
      BY <1>7, <3>1, <3>2
    <3> QED
      BY <2>4, <3>2, <3>3
  <2>6. \A r \in Due \ known : r \in named' \/ r \in {f.ref : f \in flagged}
    <3> TAKE r \in Due \ known
    <3>1. r \in Listed \/ r \in {f.ref : f \in flagged}
      BY ListIsRight
    <3>2. \A n \in Young(nudged) : n.ref \in named
      BY <1>6 DEF Young
    <3> QED
      BY <2>1, <2>2, <3>1, <3>2
  <2>7. amiss' = {}
    BY <1>1, <2>1, <2>3, <2>5, <2>6
  <2>8. named' \subseteq Refs'
    BY <1>1, <1>5, <2>1, <2>3 DEF NamedIs
  <2>9. \A n \in nudged' : n.ref \in named' /\ n.at \in Nat /\ n.at <= ticks' /\ RefTime(n.ref)' <= n.at
    <3> TAKE n \in nudged'
    <3>1. CASE n \in Young(nudged)
      <4>1. n \in nudged
        BY <3>1 DEF Young
      <4> QED
        BY <1>2, <1>5, <1>6, <2>1, <4>1
    <3>2. CASE \E r \in fresh : n = [ref |-> r, at |-> ticks]
      <4>1. PICK r \in fresh : n = [ref |-> r, at |-> ticks]
        BY <3>2
      <4>2. n.ref = r /\ n.at = ticks
        BY <4>1
      <4> QED
        BY <1>2, <1>5, <1>6, <2>1, <2>3, <4>2
    <3> QED
      BY <2>1, <3>1, <3>2
  <2>10. \A r \in named' : (\E n \in nudged' : n.ref = r) \/ Since < ticks' - RefTime(r)'
    <3> TAKE r \in named'
    <3>1. CASE r \in fresh
      <4>1. [ref |-> r, at |-> ticks] \in nudged'
        BY <2>1, <3>1
      <4>2. [ref |-> r, at |-> ticks].ref = r
        OBVIOUS
      <4> QED
        BY <4>1, <4>2
    <3>2. CASE r \in named
      <4>1. CASE Since < ticks - RefTime(r)
        BY <1>1, <1>2, <1>5, <3>2, <4>1 DEF NamedIs
      <4>2. CASE ~(Since < ticks - RefTime(r))
        <5>1. PICK n \in nudged : n.ref = r
          BY <1>1, <3>2, <4>2 DEF NamedIs
        <5>2. n \in Young(nudged)
          BY <1>7, <4>2, <5>1
        <5> QED
          BY <2>1, <5>1, <5>2
      <4> QED
        BY <4>1, <4>2
    <3> QED
      BY <2>1, <3>1, <3>2
  <2> QED
    BY <1>3, <1>4, <2>7, <2>8, <2>9, <2>10 DEF UnseenInv, NamedIs, NudgesAreNews
<1> QED
  BY <1>8, <1>9

\* Each of the steps.
LEMMA UnseenStep == UnseenInv /\ [UnseenNext]_unseenVars => UnseenInv'
<1> SUFFICES ASSUME UnseenInv, [UnseenNext]_unseenVars PROVE UnseenInv'
  OBVIOUS
<1>1. CASE \/ AgentWrites("prompt") \/ AgentWrites("text")
           \/ \E i \in 0 .. MaxSaid : UserWrites(i) \/ BridgeSettles(i)
  BY <1>1, SayKeeps
<1>2. CASE \E i \in 0 .. MaxSaid : RangeReported(i)
  BY <1>2, ReportKeeps
<1>3. CASE AgentPosts \/ UserPosts \/ \E t \in 0 .. LastTick : ItemShown(t)
  BY <1>3, ThreadKeeps
<1>4. CASE SessionTurns \/ UnseenTick \/ \E r \in Listed : Raise(r)
  BY <1>4, TicksKeep
<1>5. CASE Prune \/ Nudge
  BY <1>5, NudgeKeeps
<1>6. CASE UNCHANGED unseenVars
  <2>1. UNCHANGED <<ticks, said, shown, thread, nudged, known, named, amiss>>
    BY <1>6 DEF unseenVars
  <2>2. UnseenTypeOK' /\ PastOnly' /\ NudgesAreNews'
    BY <2>1 DEF UnseenInv, UnseenTypeOK, PastOnly, NudgesAreNews
  <2>3. NamedIs'
    BY <2>1, NamesStand DEF UnseenInv, UnseenTypeOK
  <2>4. \A i \in Nat : Msg(i) \in known' <=> MsgKnown(i)'
    BY <2>1 DEF UnseenInv, KnownIs, MsgKnown, Answered, NamedOnly
  <2>5. \A t \in Nat : ItemRef(t) \in known' <=> ItemKnown(t)'
    BY <2>1 DEF UnseenInv, KnownIs, ItemKnown
  <2> QED
    BY <2>2, <2>3, <2>4, <2>5 DEF UnseenInv, KnownIs
<1> QED
  BY <1>1, <1>2, <1>3, <1>4, <1>5, <1>6 DEF UnseenNext

\* At the start nothing was said.
LEMMA UnseenInitInv == UnseenInit => UnseenInv
<1> SUFFICES ASSUME UnseenInit PROVE UnseenInv
  OBVIOUS
<1>1. UnseenTypeOK /\ PastOnly /\ NudgesAreNews
  BY DEF UnseenInit, UnseenTypeOK, PastOnly, NudgesAreNews
<1>2. KnownIs
  <2>1. DOMAIN said = {}
    BY DEF UnseenInit
  <2>2. \A t \in Nat : ~ItemKnown(t)
    BY DEF UnseenInit, ItemKnown
  <2> QED
    BY <2>1, <2>2 DEF UnseenInit, KnownIs, MsgKnown
<1>3. NamedIs
  BY DEF UnseenInit, NamedIs
<1> QED
  BY <1>1, <1>2, <1>3 DEF UnseenInv

\* Each question, last word and thread is named by one nudge at most, and only
\* while the user neither saw nor answered it; and one that is due is named
\* unless it was raised before (listUnseen of seen.js, unseen-nudge.js).
THEOREM NudgesTellNews == UnseenSpec => []NudgesAreNews
<1>1. UnseenInv => NudgesAreNews
  BY DEF UnseenInv
<1> QED
  BY <1>1, UnseenStep, UnseenInitInv, PTL DEF UnseenSpec

-----------------------------------------------------------------------------
(* ReadState: merging ranges. *)

\* A message of the conversation that is raised with the user.
RaisedAt(c, n) == log[n].convo = c /\ Raised(log[n])

\* Y is a merge of the ranges in X: it covers them, and nothing that is raised
\* beyond them, and between two of its ranges there is something raised.
MergeOf(c, top, X, Y) ==
    /\ Y \subseteq Nat \X Nat /\ \A s \in Y : s[1] <= s[2] /\ s[2] <= top
    /\ \A r \in X : \E s \in Y : s[1] <= r[1] /\ r[2] <= s[2]
    /\ \A s \in Y : \A n \in Nat : s[1] <= n /\ n <= s[2] /\ RaisedAt(c, n) =>
         \E r \in X : r[1] <= n /\ n <= r[2]
    /\ \A s, t \in Y : s # t /\ s[1] <= t[1] => \E n \in s[2] + 1 .. t[1] - 1 : RaisedAt(c, n)

\* The merge loop of addSeenRanges merges: its output is a merge of its input.
LEMMA Merged ==
    ASSUME NEW c, NEW top \in Nat, NEW X \in SUBSET (Nat \X Nat),
           \A r \in X : r[1] <= r[2] /\ r[2] <= top,
           NEW Y, Y = Coalesced(c, X)
    PROVE  MergeOf(c, top, X, Y)
<1> DEFINE starts == {f \in {r[1] : r \in X} : \A r \in X : r[1] < f => r[2] + 1 < f /\ ~GapIsEmpty(c, r[2], f)}
           group(f) == {r \in X : r[1] >= f /\ ~ \E g \in starts : f < g /\ g <= r[1]}
           end(f) == CHOOSE n \in {r[2] : r \in group(f)} : \A r \in group(f) : r[2] <= n
<1>1. Y = {<<f, end(f)>> : f \in starts}
  BY DEF Coalesced
<1>2. \A r \in X : r[1] \in Nat /\ r[2] \in Nat /\ r[1] <= r[2] /\ r[2] <= top
  OBVIOUS
<1>3. \A f \in starts : f \in Nat /\ \E r \in X : r[1] = f
  BY <1>2
<1>4. \A f \in starts : \A r \in X : r[1] < f => r[2] + 1 < f /\ \E n \in r[2] + 1 .. f - 1 : RaisedAt(c, n)
  BY DEF GapIsEmpty, RaisedAt
<1>5. \A f \in Nat : (\E r \in X : r[1] = f) /\ (\A r \in X : r[1] < f => r[2] + 1 < f /\ \E n \in r[2] + 1 .. f - 1 : RaisedAt(c, n)) => f \in starts
  BY DEF GapIsEmpty, RaisedAt
<1> HIDE DEF starts
<1>6. \A f : \A r : r \in group(f) <=> r \in X /\ r[1] >= f /\ \A g \in starts : ~(f < g /\ g <= r[1])
  OBVIOUS
<1>7. ASSUME NEW f \in starts
      PROVE  /\ \E r \in group(f) : r[2] = end(f)
             /\ \A r \in group(f) : r[2] <= end(f)
             /\ end(f) \in Nat /\ f <= end(f) /\ end(f) <= top
  <2> DEFINE G == group(f)
             S == {r[2] : r \in G}
  <2>1. G \subseteq X
    OBVIOUS
  <2>2. PICK a \in X : a[1] = f
    BY <1>3
  <2>3. a \in G
    <3>1. \A g \in starts : ~(f < g /\ g <= a[1])
      BY <1>3, <2>2
    <3>2. a[1] >= f
      BY <1>2, <2>2
    <3> QED
      BY <1>6, <3>1, <3>2
  <2> HIDE DEF G
  <2>4. S \in SUBSET (0 .. top) /\ S # {}
    BY <1>2, <2>1, <2>3
  <2>5. PICK m \in S : \A u \in S : u <= m
    <3> HIDE DEF S
    <3> QED
      BY <2>4, LatestTime
  <2>6. m \in S /\ \A r \in G : r[2] <= m
    BY <2>5
  <2> DEFINE e == CHOOSE n \in S : \A r \in G : r[2] <= n
  <2>7. e \in S /\ \A r \in G : r[2] <= e
    BY <2>6
  <2>8. end(f) = e
    BY DEF G
  <2> HIDE DEF e
  <2>9. PICK r \in G : r[2] = e
    BY <2>7
  <2>10. e \in Nat /\ e <= top /\ a[2] <= e /\ f <= a[2] /\ f \in Nat /\ a[2] \in Nat
    BY <1>2, <1>3, <2>1, <2>2, <2>3, <2>7, <2>9
  <2>11. f <= e
    BY <2>10
  <2> QED
    BY <2>7, <2>8, <2>9, <2>10, <2>11 DEF G
<1> HIDE DEF end
<1>8. Y \subseteq Nat \X Nat /\ \A s \in Y : s[1] <= s[2] /\ s[2] <= top
  BY <1>1, <1>3, <1>7
<1>9. ASSUME NEW r \in X PROVE \E s \in Y : s[1] <= r[1] /\ r[2] <= s[2]
  <2> DEFINE S == {f \in starts : f <= r[1]}
             M == {z[1] : z \in X}
  <2>1. M \in SUBSET Nat /\ M # {}
    BY <1>2
  <2>2. PICK l \in M : \A z \in M : l <= z
    <3> HIDE DEF M
    <3> QED
      BY <2>1, LeastNatural
  <2>3. l \in Nat /\ l <= r[1] /\ \A z \in X : ~(z[1] < l)
    BY <1>2, <2>2
  <2>4. l \in starts
    BY <1>5, <2>2, <2>3
  <2>5. S \in SUBSET (0 .. r[1]) /\ S # {} /\ r[1] \in Nat
    <3>1. r[1] \in Nat
      BY <1>2
    <3>2. l \in S
      BY <2>3, <2>4
    <3>3. \A f \in S : f \in Nat /\ f <= r[1]
      BY <1>3
    <3> QED
      BY <3>1, <3>2, <3>3
  <2>6. PICK f \in S : \A u \in S : u <= f
    <3> HIDE DEF S
    <3> QED
      BY <2>5, LatestTime
  <2>7. f \in starts /\ f <= r[1] /\ f \in Nat
    BY <1>3, <2>6
  <2>8. \A g \in starts : ~(f < g /\ g <= r[1])
    BY <1>3, <2>6, <2>7
  <2>9. r \in group(f)
    BY <1>2, <1>6, <2>7, <2>8
  <2> HIDE DEF S, group
  <2>10. r[2] <= end(f) /\ <<f, end(f)>> \in Y
    BY <1>1, <1>7, <2>7, <2>9
  <2> QED
    BY <2>7, <2>10
<1>10. ASSUME NEW s \in Y, NEW n \in Nat, s[1] <= n, n <= s[2], RaisedAt(c, n), \A r \in X : ~(r[1] <= n /\ n <= r[2])
       PROVE  FALSE
  <2>1. PICK f \in starts : s = <<f, end(f)>>
    BY <1>1
  <2>2. PICK a \in group(f) : a[2] = end(f)
    BY <1>7
  <2>3. a \in X /\ a[1] >= f /\ \A g \in starts : ~(f < g /\ g <= a[1])
    BY <1>6
  <2>4. f <= n /\ n <= a[2] /\ a[1] \in Nat /\ a[2] \in Nat /\ f \in Nat
    BY <1>2, <1>3, <1>10, <2>1, <2>2, <2>3
  <2>5. n < a[1]
    BY <1>10, <2>3, <2>4
  <2> DEFINE M == {m \in {z[1] : z \in X} : n < m}
  <2>6. M \in SUBSET Nat /\ a[1] \in M
    BY <1>2, <2>3, <2>5
  <2>7. PICK g \in M : \A m \in M : g <= m
    <3>1. M # {}
      BY <2>6
    <3> HIDE DEF M
    <3> QED
      BY <2>6, <3>1, LeastNatural
  <2>8. g \in Nat /\ n < g /\ g <= a[1] /\ (\E r \in X : r[1] = g) /\ \A z \in X : n < z[1] => g <= z[1]
    BY <1>2, <2>6, <2>7
  <2>9. \A r \in X : r[1] < g => r[2] + 1 < g /\ \E k \in r[2] + 1 .. g - 1 : RaisedAt(c, k)
    <3> TAKE r \in X
    <3>1. HAVE r[1] < g
    <3>2. r[1] <= n /\ r[2] < n
      BY <1>2, <1>10, <2>8, <3>1
    <3>3. r[2] + 1 < g /\ n \in r[2] + 1 .. g - 1
      BY <1>2, <2>8, <3>2
    <3> QED
      BY <1>10, <3>3
  <2>10. g \in starts
    BY <1>5, <2>8, <2>9
  <2>11. f < g
    BY <2>4, <2>8
  <2> QED
    BY <2>3, <2>8, <2>10, <2>11
<1>11. ASSUME NEW s \in Y, NEW t \in Y, s # t, s[1] <= t[1]
       PROVE  \E n \in s[2] + 1 .. t[1] - 1 : RaisedAt(c, n)
  <2>1. PICK f \in starts : s = <<f, end(f)>>
    BY <1>1
  <2>2. PICK g \in starts : t = <<g, end(g)>>
    BY <1>1
  <2>3. f < g /\ f \in Nat /\ g \in Nat
    BY <1>3, <1>11, <2>1, <2>2
  <2>4. PICK a \in group(f) : a[2] = end(f)
    BY <1>7
  <2>5. a \in X /\ ~(f < g /\ g <= a[1])
    BY <1>6
  <2>6. a[1] < g
    BY <1>2, <2>3, <2>5
  <2>7. \E n \in a[2] + 1 .. g - 1 : RaisedAt(c, n)
    BY <1>4, <2>5, <2>6
  <2> QED
    BY <2>1, <2>2, <2>4, <2>7
<1> QED
  BY <1>8, <1>9, <1>10, <1>11 DEF MergeOf

-----------------------------------------------------------------------------
(* ReadState: the inductive invariant. *)

\* Nothing is recorded of what is not in the log yet.
HeadsInLog == \A c \in Convos : last_seq[c] <= Len(log) /\ reported[c] \subseteq 1 .. Len(log)

\* The read marker that counts, and what it leaves unread.
ReadTo(c, n) == \E m \in Markers(c) : (\A z \in Markers(c) : z <= m) /\ n < m /\ n <= log[m].upto
UnreadOf(c) == {n \in DOMAIN log : log[n].convo = c /\ Counts(log[n]) /\ ~ReadTo(c, n)}
BadgeOf(c) ==
    /\ unread[c] = IF c \in Children THEN 0 ELSE Cardinality(UnreadOf(c))
    /\ \A n \in DOMAIN log : log[n].convo = c => n <= last_seq[c]

\* What is seen of one conversation.
SeenOf(c) ==
    /\ \A n \in DOMAIN log : RaisedAt(c, n) => (Covered(c, n) <=> n \in reported[c])
    /\ \A r \in ranges[c] : r[1] <= r[2] /\ r[2] <= last_seq[c]
    /\ \A r, s \in ranges[c] : r # s /\ r[1] <= s[1] => \E n \in r[2] + 1 .. s[1] - 1 : RaisedAt(c, n)

ReadInv == ReadTypeOK /\ HeadsInLog /\ \A c \in Convos : BadgeOf(c) /\ SeenOf(c)

\* Of an event.
LEMMA EventIs ==
    ASSUME NEW e \in Event
    PROVE  e.convo \in Convos /\ e.upto \in Nat
BY DEF Event

\* A message or a note.
LEMMA NewEventIs ==
    ASSUME NEW c \in Convos, NEW kind \in {"content", "work", "note"}, NEW user \in BOOLEAN
    PROVE  /\ NewEvent(c, kind, user) \in Event /\ NewEvent(c, kind, user).convo = c
           /\ NewEvent(c, kind, user).kind # "marker"
BY DEF NewEvent, Event

\* A read marker: neither counted nor raised.
LEMMA NewMarkerIs ==
    ASSUME NEW c \in Convos, NEW upto \in Nat
    PROVE  /\ NewMarker(c, upto) \in Event /\ NewMarker(c, upto).convo = c
           /\ NewMarker(c, upto).kind = "marker" /\ NewMarker(c, upto).upto = upto
           /\ ~Counts(NewMarker(c, upto)) /\ ~Raised(NewMarker(c, upto))
BY DEF NewEvent, NewMarker, Event, Counts, Raised, IsMessage

\* The properties are the invariant's.
LEMMA ReadSays == ReadInv => ReadAsReported
<1> SUFFICES ASSUME ReadInv PROVE ReadAsReported
  OBVIOUS
<1>1. BadgeAgreesWithLog
  BY DEF ReadInv, BadgeOf, UnreadOf, ReadTo, BadgeAgreesWithLog
<1>2. \A n \in DOMAIN log : Raised(log[n]) => log[n].convo \in Convos /\ RaisedAt(log[n].convo, n)
  <2> TAKE n \in DOMAIN log
  <2>1. log[n] \in Event
    BY DEF ReadInv, ReadTypeOK
  <2> QED
    BY <2>1, EventIs DEF RaisedAt
<1>3. OnlyReportedIsSeen /\ ReportedStaysSeen
  BY <1>2 DEF ReadInv, SeenOf, OnlyReportedIsSeen, ReportedStaysSeen
<1>4. RangesApart
  BY DEF ReadInv, SeenOf, RangesApart, RaisedAt
<1> QED
  BY <1>1, <1>3, <1>4 DEF ReadInv, ReadAsReported, SeenAsReported

-----------------------------------------------------------------------------
(* ReadState: the log grows. *)

\* The log with one more event.
LEMMA LogGrown ==
    ASSUME ReadTypeOK, NEW e \in Event, log' = Append(log, e), NEW n \in Nat, n = Len(log)
    PROVE  /\ log' \in Seq(Event) /\ Len(log') = n + 1
           /\ DOMAIN log = 1 .. n /\ DOMAIN log' = 1 .. n + 1
           /\ 1 .. n + 1 = 1 .. n \cup {n + 1} /\ n + 1 \notin 1 .. n
           /\ log'[n + 1] = e
           /\ \A i \in 1 .. n : log'[i] = log[i]
BY DEF ReadTypeOK

\* What is unread are finitely many.
LEMMA UnreadFinite ==
    ASSUME ReadTypeOK, NEW c
    PROVE  /\ IsFiniteSet(UnreadOf(c)) /\ Cardinality(UnreadOf(c)) \in Nat
           /\ UnreadOf(c) \subseteq 1 .. Len(log)
<1>1. Len(log) \in Nat /\ DOMAIN log = 1 .. Len(log)
  BY DEF ReadTypeOK
<1>2. IsFiniteSet(1 .. Len(log))
  BY <1>1, FS_Interval
<1>3. UnreadOf(c) \subseteq 1 .. Len(log)
  BY <1>1 DEF UnreadOf
<1> QED
  BY <1>2, <1>3, FS_Subset, FS_CardinalityType

\* What is unread after an event that is no marker of this conversation: that too,
\* if it counts.
LEMMA UnreadGrows ==
    ASSUME ReadTypeOK, NEW e \in Event, log' = Append(log, e), NEW n \in Nat, n = Len(log),
           NEW c \in Convos, e.convo # c \/ e.kind # "marker"
    PROVE  UnreadOf(c)' = IF e.convo = c /\ Counts(e) THEN UnreadOf(c) \cup {n + 1} ELSE UnreadOf(c)
<1>1. /\ DOMAIN log = 1 .. n /\ DOMAIN log' = 1 .. n + 1
      /\ 1 .. n + 1 = 1 .. n \cup {n + 1} /\ n + 1 \notin 1 .. n
      /\ log'[n + 1] = e /\ \A i \in 1 .. n : log'[i] = log[i]
  BY LogGrown
<1>2. Markers(c)' = Markers(c) /\ Markers(c) \subseteq 1 .. n
  BY <1>1 DEF Markers
<1>3. \A i : ReadTo(c, i)' <=> ReadTo(c, i)
  BY <1>1, <1>2 DEF ReadTo
<1>4. ~ReadTo(c, n + 1)
  <2> SUFFICES ASSUME NEW m \in Markers(c), n + 1 < m PROVE FALSE
    BY DEF ReadTo
  <2>1. m \in 1 .. n
    BY <1>2
  <2> QED
    BY <2>1
<1>5. UnreadOf(c)' = {i \in 1 .. n + 1 : log'[i].convo = c /\ Counts(log'[i]) /\ ~ReadTo(c, i)'}
  BY <1>1 DEF UnreadOf
<1>6. UnreadOf(c) = {i \in 1 .. n : log[i].convo = c /\ Counts(log[i]) /\ ~ReadTo(c, i)}
  BY <1>1 DEF UnreadOf
<1> QED
  BY <1>1, <1>3, <1>4, <1>5, <1>6

\* What is unread after a marker.
LEMMA UnreadMarked ==
    ASSUME ReadTypeOK, NEW c \in Convos, NEW upto \in Nat, log' = Append(log, NewMarker(c, upto))
    PROVE  Cardinality(UnreadOf(c)') = Recount(c, upto)
<1>1. PICK n \in Nat : n = Len(log)
  BY DEF ReadTypeOK
<1>2. PICK e \in Event : e = NewMarker(c, upto) /\ e.convo = c /\ e.kind = "marker" /\ e.upto = upto /\ ~Counts(e)
  BY NewMarkerIs
<1>3. /\ DOMAIN log = 1 .. n /\ DOMAIN log' = 1 .. n + 1
      /\ 1 .. n + 1 = 1 .. n \cup {n + 1} /\ n + 1 \notin 1 .. n
      /\ log'[n + 1] = e /\ \A i \in 1 .. n : log'[i] = log[i]
  BY <1>1, <1>2, LogGrown
<1>4. Markers(c)' \subseteq 1 .. n + 1 /\ n + 1 \in Markers(c)'
  BY <1>2, <1>3 DEF Markers
<1>5. \A m \in Markers(c)' : (\A z \in Markers(c)' : z <= m) <=> m = n + 1
  BY <1>1, <1>4
<1>6. \A i \in 1 .. n : ReadTo(c, i)' <=> i <= upto
  <2> TAKE i \in 1 .. n
  <2>1. ReadTo(c, i)' <=> (\E m \in Markers(c)' : (\A z \in Markers(c)' : z <= m) /\ i < m /\ i <= log'[m].upto)
    BY DEF ReadTo
  <2>2. ReadTo(c, i)' <=> i < n + 1 /\ i <= log'[n + 1].upto
    BY <1>4, <1>5, <2>1
  <2> QED
    BY <1>1, <1>2, <1>3, <2>2
<1>7. UnreadOf(c)' = {i \in 1 .. n : log[i].convo = c /\ Counts(log[i]) /\ ~(i <= upto)}
  <2>1. UnreadOf(c)' = {i \in 1 .. n + 1 : log'[i].convo = c /\ Counts(log'[i]) /\ ~ReadTo(c, i)'}
    BY <1>3 DEF UnreadOf
  <2> QED
    BY <1>2, <1>3, <1>6, <2>1
<1>8. {i \in DOMAIN log : log[i].convo = c /\ i > upto /\ Counts(log[i])} = {i \in 1 .. n : log[i].convo = c /\ Counts(log[i]) /\ ~(i <= upto)}
  BY <1>3
<1> QED
  BY <1>7, <1>8 DEF Recount

-----------------------------------------------------------------------------
(* ReadState: what a report adds.                                          *)

\* A report cut to the conversation's head covers what the report covers of it.
LEMMA ClippedIs ==
    ASSUME NEW top \in Nat, NEW rs \in SUBSET (Nat \X Nat), \A r \in rs : r[1] <= r[2],
           NEW Z, Z = Clipped(rs, top)
    PROVE  /\ Z \subseteq Nat \X Nat /\ \A z \in Z : z[1] <= z[2] /\ z[2] <= top
           /\ \A n \in Nat : n <= top =>
                ((\E z \in Z : z[1] <= n /\ n <= z[2]) <=> (\E r \in rs : r[1] <= n /\ n <= r[2]))
<1>1. \A r \in rs : r[1] \in Nat /\ r[2] \in Nat /\ r[1] <= r[2]
  OBVIOUS
<1>2. ASSUME NEW z \in Z
      PROVE  /\ z \in Nat \X Nat /\ z[1] <= z[2] /\ z[2] <= top
             /\ \E r \in rs : z[1] = r[1] /\ z[2] <= r[2]
  <2>1. PICK r \in rs : r[1] <= top /\ z = <<r[1], IF r[2] < top THEN r[2] ELSE top>>
    BY DEF Clipped
  <2> QED
    BY <1>1, <2>1
<1>3. ASSUME NEW r \in rs, NEW n \in Nat, n <= top, r[1] <= n, n <= r[2]
      PROVE  \E z \in Z : z[1] <= n /\ n <= z[2]
  <2>1. r[1] <= top
    BY <1>1, <1>3
  <2>2. <<r[1], IF r[2] < top THEN r[2] ELSE top>> \in Z
    BY <2>1 DEF Clipped
  <2> QED
    BY <1>1, <1>3, <2>2
<1>4. \A z \in Z : \A n \in Nat : z[1] <= n /\ n <= z[2] => \E r \in rs : r[1] <= n /\ n <= r[2]
  <2> TAKE z \in Z
  <2>1. PICK r \in rs : z[1] = r[1] /\ z[2] <= r[2]
    BY <1>2
  <2>2. z[2] \in Nat /\ r[2] \in Nat
    BY <1>1, <1>2
  <2> QED
    BY <2>1, <2>2
<1> QED
  BY <1>2, <1>3, <1>4

\* After a report, the ranges cover what they covered and what was reported, of
\* the messages to be raised; they end at the head and stay apart (addSeenRanges).
LEMMA Reported ==
    ASSUME ReadTypeOK, NEW c \in Convos, SeenOf(c), NEW top \in Nat, last_seq[c] <= top,
           NEW rs \in SUBSET (Nat \X Nat), \A r \in rs : r[1] <= r[2],
           NEW Y, Y = SeenAfter(c, rs, top)
    PROVE  /\ Y \subseteq Nat \X Nat /\ \A s \in Y : s[1] <= s[2] /\ s[2] <= top
           /\ \A n \in Nat : n <= top /\ RaisedAt(c, n) =>
                ((\E s \in Y : s[1] <= n /\ n <= s[2])
                    <=> (Covered(c, n) \/ \E r \in rs : r[1] <= n /\ n <= r[2]))
           /\ \A s, t \in Y : s # t /\ s[1] <= t[1] => \E n \in s[2] + 1 .. t[1] - 1 : RaisedAt(c, n)
<1> DEFINE Z == Clipped(rs, top)
<1>1. /\ Z \subseteq Nat \X Nat /\ \A z \in Z : z[1] <= z[2] /\ z[2] <= top
      /\ \A n \in Nat : n <= top =>
           ((\E z \in Z : z[1] <= n /\ n <= z[2]) <=> (\E r \in rs : r[1] <= n /\ n <= r[2]))
  BY ClippedIs
<1>2. Y = IF Z = {} THEN ranges[c] ELSE Coalesced(c, ranges[c] \cup Z)
  BY DEF SeenAfter
<1> HIDE DEF Z
<1>3. ranges[c] \subseteq Nat \X Nat /\ last_seq[c] \in Nat
  BY DEF ReadTypeOK
<1>4. \A r \in ranges[c] : r[1] <= r[2] /\ r[2] <= top
  <2>1. \A r \in ranges[c] : r[1] <= r[2] /\ r[2] <= last_seq[c] /\ r[2] \in Nat
    BY <1>3 DEF SeenOf
  <2> QED
    BY <1>3, <2>1
<1>5. CASE Z = {}
  <2>1. Y = ranges[c]
    BY <1>2, <1>5
  <2>2. \A n \in Nat : n <= top => ~ \E r \in rs : r[1] <= n /\ n <= r[2]
    BY <1>1, <1>5
  <2>3. \A s, t \in Y : s # t /\ s[1] <= t[1] => \E n \in s[2] + 1 .. t[1] - 1 : RaisedAt(c, n)
    BY <2>1 DEF SeenOf
  <2> QED
    BY <1>3, <1>4, <2>1, <2>2, <2>3 DEF Covered
<1>6. CASE Z # {}
  <2> DEFINE X == ranges[c] \cup Z
  <2>1. X \in SUBSET (Nat \X Nat) /\ \A r \in X : r[1] <= r[2] /\ r[2] <= top
    BY <1>1, <1>3, <1>4
  <2>2. Y = Coalesced(c, X)
    BY <1>2, <1>6
  <2> HIDE DEF X
  <2>7. MergeOf(c, top, X, Y)
    BY <2>1, <2>2, Merged
  <2>3. /\ Y \subseteq Nat \X Nat /\ \A s \in Y : s[1] <= s[2] /\ s[2] <= top
        /\ \A r \in X : \E s \in Y : s[1] <= r[1] /\ r[2] <= s[2]
        /\ \A s \in Y : \A n \in Nat : s[1] <= n /\ n <= s[2] /\ RaisedAt(c, n) =>
             \E r \in X : r[1] <= n /\ n <= r[2]
        /\ \A s, t \in Y : s # t /\ s[1] <= t[1] => \E n \in s[2] + 1 .. t[1] - 1 : RaisedAt(c, n)
    BY <2>7 DEF MergeOf
  <2>4. ASSUME NEW n \in Nat, NEW r \in X, r[1] <= n, n <= r[2]
        PROVE  \E s \in Y : s[1] <= n /\ n <= s[2]
    <3>1. PICK s \in Y : s[1] <= r[1] /\ r[2] <= s[2]
      BY <2>3
    <3>2. s[1] \in Nat /\ s[2] \in Nat /\ r[1] \in Nat /\ r[2] \in Nat
      BY <2>1, <2>3
    <3> QED
      BY <2>4, <3>1, <3>2
  <2>5. \A n \in Nat : (\E r \in X : r[1] <= n /\ n <= r[2])
                         <=> (Covered(c, n) \/ \E z \in Z : z[1] <= n /\ n <= z[2])
    BY DEF Covered, X
  <2>6. \A n \in Nat : n <= top /\ RaisedAt(c, n) =>
          ((\E s \in Y : s[1] <= n /\ n <= s[2])
             <=> (Covered(c, n) \/ \E r \in rs : r[1] <= n /\ n <= r[2]))
    BY <1>1, <2>3, <2>4, <2>5
  <2> QED
    BY <2>3, <2>6
<1> QED
  BY <1>5, <1>6

-----------------------------------------------------------------------------
(* ReadState: an event is appended.                                        *)

\* The heads move with the log.
LEMMA HeadsGrow ==
    ASSUME ReadInv, NEW e \in Event, log' = Append(log, e), NEW n \in Nat, n = Len(log),
           last_seq' = [last_seq EXCEPT ![e.convo] = n + 1]
    PROVE  /\ last_seq' \in [Convos -> Nat]
           /\ \A d \in Convos : /\ last_seq[d] \in Nat /\ last_seq[d] <= n
                                /\ last_seq[d] <= last_seq'[d] /\ last_seq'[d] <= n + 1
                                /\ \A i \in DOMAIN log' : log'[i].convo = d => i <= last_seq'[d]
           /\ last_seq'[e.convo] = n + 1
<1>1. /\ DOMAIN log = 1 .. n /\ DOMAIN log' = 1 .. n + 1
      /\ 1 .. n + 1 = 1 .. n \cup {n + 1} /\ n + 1 \notin 1 .. n
      /\ log'[n + 1] = e /\ \A i \in 1 .. n : log'[i] = log[i]
  BY LogGrown DEF ReadInv
<1>2. \A d \in Convos : /\ last_seq[d] \in Nat /\ last_seq[d] <= n
                        /\ last_seq'[d] = IF d = e.convo THEN n + 1 ELSE last_seq[d]
  BY DEF ReadInv, ReadTypeOK, HeadsInLog
<1>3. \A d \in Convos : \A i \in 1 .. n : log[i].convo = d => i <= last_seq[d]
  BY <1>1 DEF ReadInv, BadgeOf
<1>4. ASSUME NEW d \in Convos, NEW i \in 1 .. n + 1, log'[i].convo = d PROVE i <= last_seq'[d]
  <2>1. CASE i \in 1 .. n
    <3>1. i <= last_seq[d]
      BY <1>1, <1>3, <1>4, <2>1
    <3> QED
      BY <1>2, <2>1, <3>1
  <2>2. CASE i = n + 1
    BY <1>1, <1>2, <1>4, <2>2
  <2> QED
    BY <1>1, <2>1, <2>2
<1>5. last_seq' \in [Convos -> Nat]
  <2>1. last_seq \in [Convos -> Nat] /\ n + 1 \in Nat
    BY DEF ReadInv, ReadTypeOK
  <2> QED
    BY <2>1
<1>6. last_seq'[e.convo] = n + 1
  BY <1>2, EventIs
<1>7. \A d \in Convos : last_seq[d] <= last_seq'[d] /\ last_seq'[d] <= n + 1
  BY <1>2
<1> QED
  BY <1>1, <1>2, <1>4, <1>5, <1>6, <1>7

\* Of a conversation whose ranges and reports stay: the new event is neither seen
\* nor reported.
LEMMA SeenStays ==
    ASSUME ReadInv, NEW e \in Event, log' = Append(log, e),
           last_seq' = [last_seq EXCEPT ![e.convo] = Len(log) + 1],
           NEW d \in Convos, ranges'[d] = ranges[d], reported'[d] = reported[d]
    PROVE  SeenOf(d)'
<1>1. PICK n \in Nat : n = Len(log)
  BY DEF ReadInv, ReadTypeOK
<1>2. /\ DOMAIN log = 1 .. n /\ DOMAIN log' = 1 .. n + 1
      /\ 1 .. n + 1 = 1 .. n \cup {n + 1} /\ n + 1 \notin 1 .. n
      /\ log'[n + 1] = e /\ \A i \in 1 .. n : log'[i] = log[i]
  BY <1>1, LogGrown DEF ReadInv
<1>3. last_seq[d] \in Nat /\ last_seq[d] <= n /\ last_seq'[d] \in Nat /\ last_seq[d] <= last_seq'[d]
  BY <1>1, HeadsGrow
<1>4. \A r \in ranges[d] : r[1] \in Nat /\ r[2] \in Nat /\ r[1] <= r[2] /\ r[2] <= last_seq[d]
  BY DEF ReadInv, ReadTypeOK, SeenOf
<1>5. reported[d] \subseteq 1 .. n
  BY <1>1 DEF ReadInv, HeadsInLog
<1>6. \A i \in 1 .. n : RaisedAt(d, i)' <=> RaisedAt(d, i)
  BY <1>2 DEF RaisedAt
<1>7. \A i : Covered(d, i)' <=> Covered(d, i)
  BY DEF Covered
<1>8. ~Covered(d, n + 1)
  <2>1. \A r \in ranges[d] : r[2] <= n
    BY <1>3, <1>4
  <2> QED
    BY <1>4, <2>1 DEF Covered
<1>9. ASSUME NEW i \in 1 .. n + 1, RaisedAt(d, i)' PROVE Covered(d, i)' <=> i \in reported'[d]
  <2>1. CASE i \in 1 .. n
    <3>1. RaisedAt(d, i) /\ i \in DOMAIN log
      BY <1>2, <1>6, <1>9, <2>1
    <3>2. Covered(d, i) <=> i \in reported[d]
      BY <3>1 DEF ReadInv, SeenOf
    <3> QED
      BY <1>7, <3>2
  <2>2. CASE i = n + 1
    BY <1>2, <1>5, <1>7, <1>8, <2>2
  <2> QED
    BY <1>2, <2>1, <2>2
<1>10. \A r \in ranges'[d] : r[1] <= r[2] /\ r[2] <= last_seq'[d]
  BY <1>3, <1>4
<1>11. ASSUME NEW r \in ranges'[d], NEW s \in ranges'[d], r # s, r[1] <= s[1]
       PROVE  \E i \in r[2] + 1 .. s[1] - 1 : RaisedAt(d, i)'
  <2>1. r \in ranges[d] /\ s \in ranges[d]
    OBVIOUS
  <2>2. PICK i \in r[2] + 1 .. s[1] - 1 : RaisedAt(d, i)
    BY <1>11, <2>1 DEF ReadInv, SeenOf
  <2>3. i \in 1 .. n
    BY <1>3, <1>4, <2>1, <2>2
  <2> QED
    BY <1>6, <2>2, <2>3
<1> QED
  BY <1>2, <1>9, <1>10, <1>11 DEF SeenOf

\* Of a conversation the event is not of, and whose badge stays.
LEMMA BadgeStays ==
    ASSUME ReadInv, NEW e \in Event, log' = Append(log, e),
           last_seq' = [last_seq EXCEPT ![e.convo] = Len(log) + 1],
           NEW d \in Convos, d # e.convo, unread'[d] = unread[d]
    PROVE  BadgeOf(d)'
<1>1. PICK n \in Nat : n = Len(log)
  BY DEF ReadInv, ReadTypeOK
<1>2. UnreadOf(d)' = UnreadOf(d)
  BY <1>1, UnreadGrows DEF ReadInv
<1>3. \A i \in DOMAIN log' : log'[i].convo = d => i <= last_seq'[d]
  BY <1>1, HeadsGrow
<1>4. unread[d] = IF d \in Children THEN 0 ELSE Cardinality(UnreadOf(d))
  BY DEF ReadInv, BadgeOf
<1> QED
  BY <1>2, <1>3, <1>4 DEF BadgeOf

\* Whatever is appended other than a marker, the badge of its conversation counts
\* it, if it counts.
LEMMA AppendKeeps ==
    ASSUME ReadInv, NEW e \in Event, e.kind # "marker", AppendEvent(e),
           UNCHANGED <<ranges, reporter, reported>>
    PROVE  ReadInv'
<1>1. PICK n \in Nat : n = Len(log)
  BY DEF ReadInv, ReadTypeOK
<1>2. PICK c \in Convos : c = e.convo
  BY EventIs
<1>3. /\ log' = Append(log, e)
      /\ last_seq' = [last_seq EXCEPT ![e.convo] = Len(log) + 1]
      /\ unread' = [unread EXCEPT ![c] = IF Counts(e) /\ c \notin Children THEN unread[c] + 1 ELSE unread[c]]
  BY <1>2 DEF AppendEvent
<1>4. /\ log' \in Seq(Event) /\ Len(log') = n + 1
      /\ 1 .. n + 1 = 1 .. n \cup {n + 1} /\ n + 1 \notin 1 .. n
  BY <1>1, <1>3, LogGrown DEF ReadInv
<1>5. unread' \in [Convos -> Nat]
  BY <1>3 DEF ReadInv, ReadTypeOK
<1>6. last_seq' \in [Convos -> Nat] /\ \A d \in Convos : last_seq'[d] <= n + 1
  BY <1>1, <1>3, HeadsGrow
<1>7. ReadTypeOK'
  BY <1>4, <1>5, <1>6 DEF ReadInv, ReadTypeOK
<1>8. HeadsInLog'
  BY <1>1, <1>4, <1>6 DEF ReadInv, HeadsInLog
<1>9. BadgeOf(c)'
  <2>1. UnreadOf(c)' = IF Counts(e) THEN UnreadOf(c) \cup {n + 1} ELSE UnreadOf(c)
    BY <1>1, <1>2, <1>3, UnreadGrows DEF ReadInv
  <2>2. IsFiniteSet(UnreadOf(c)) /\ Cardinality(UnreadOf(c)) \in Nat /\ UnreadOf(c) \subseteq 1 .. n
    BY <1>1, UnreadFinite DEF ReadInv
  <2>3. n + 1 \notin UnreadOf(c)
    BY <1>4, <2>2
  <2>4. Cardinality(UnreadOf(c) \cup {n + 1}) = Cardinality(UnreadOf(c)) + 1
    BY <2>2, <2>3, FS_AddElement
  <2>5. Cardinality(UnreadOf(c)') = IF Counts(e) THEN Cardinality(UnreadOf(c)) + 1 ELSE Cardinality(UnreadOf(c))
    BY <2>1, <2>4
  <2>6. unread[c] = IF c \in Children THEN 0 ELSE Cardinality(UnreadOf(c))
    BY DEF ReadInv, BadgeOf
  <2>7. unread'[c] = IF Counts(e) /\ c \notin Children THEN unread[c] + 1 ELSE unread[c]
    BY <1>3 DEF ReadInv, ReadTypeOK
  <2>8. unread'[c] = IF c \in Children THEN 0 ELSE Cardinality(UnreadOf(c)')
    BY <2>5, <2>6, <2>7
  <2>9. \A i \in DOMAIN log' : log'[i].convo = c => i <= last_seq'[c]
    BY <1>1, <1>3, HeadsGrow
  <2> QED
    BY <2>8, <2>9 DEF BadgeOf
<1>10. \A d \in Convos \ {c} : BadgeOf(d)'
  <2> TAKE d \in Convos \ {c}
  <2>1. unread'[d] = unread[d]
    BY <1>3 DEF ReadInv, ReadTypeOK
  <2> QED
    BY <1>2, <1>3, <2>1, BadgeStays
<1>11. \A d \in Convos : SeenOf(d)'
  BY <1>3, SeenStays
<1> QED
  BY <1>7, <1>8, <1>9, <1>10, <1>11 DEF ReadInv

\* op `send` and op `publish`.
LEMMA SendPublishKeep ==
    ASSUME ReadInv, NEW c \in Convos,
           Send(c) \/ \E kind \in {"content", "work", "note"} : Publish(c, kind)
    PROVE  ReadInv'
<1>1. CASE Send(c)
  <2>1. NewEvent(c, "content", TRUE) \in Event /\ NewEvent(c, "content", TRUE).kind # "marker"
    BY NewEventIs
  <2> QED
    BY <1>1, <2>1, AppendKeeps DEF Send
<1>2. ASSUME NEW kind \in {"content", "work", "note"}, Publish(c, kind) PROVE ReadInv'
  <2>1. NewEvent(c, kind, FALSE) \in Event /\ NewEvent(c, kind, FALSE).kind # "marker"
    BY NewEventIs
  <2> QED
    BY <1>2, <2>1, AppendKeeps DEF Publish
<1> QED
  BY <1>1, <1>2

-----------------------------------------------------------------------------
(* ReadState: markers and reports.                                         *)

\* The conversation a report is about, with or without a marker appended.
LEMMA SeenReports ==
    ASSUME ReadInv, NEW c \in Convos, NEW n \in Nat, n = Len(log),
           \A i \in 1 .. n : RaisedAt(c, i)' <=> RaisedAt(c, i),
           \A i \in DOMAIN log' : i \in 1 .. n \/ ~RaisedAt(c, i)',
           NEW top \in Nat, last_seq[c] <= top, top <= n + 1, last_seq'[c] = top,
           NEW rs \in SUBSET (Nat \X Nat), \A r \in rs : r[1] <= r[2],
           ranges'[c] = SeenAfter(c, rs, top), reported'[c] = reported[c] \cup Existing(rs, n)
    PROVE  SeenOf(c)' /\ ranges'[c] \subseteq Nat \X Nat
<1>1. PICK Y : Y = SeenAfter(c, rs, top)
  OBVIOUS
<1>2. ReadTypeOK /\ SeenOf(c)
  BY DEF ReadInv
<1>3. /\ Y \subseteq Nat \X Nat /\ \A s \in Y : s[1] <= s[2] /\ s[2] <= top
      /\ \A i \in Nat : i <= top /\ RaisedAt(c, i) =>
           ((\E s \in Y : s[1] <= i /\ i <= s[2])
               <=> (Covered(c, i) \/ \E r \in rs : r[1] <= i /\ i <= r[2]))
      /\ \A s, t \in Y : s # t /\ s[1] <= t[1] => \E i \in s[2] + 1 .. t[1] - 1 : RaisedAt(c, i)
  BY <1>1, <1>2, Reported
<1>4. DOMAIN log = 1 .. n /\ last_seq[c] \in Nat
  BY <1>2 DEF ReadTypeOK
<1>5. \A i \in 1 .. n : RaisedAt(c, i) => i <= top
  <2> TAKE i \in 1 .. n
  <2>1. HAVE RaisedAt(c, i)
  <2>2. i <= last_seq[c]
    BY <1>4, <2>1 DEF ReadInv, BadgeOf, RaisedAt
  <2> QED
    BY <1>4, <2>2
<1>6. ASSUME NEW i \in 1 .. n, RaisedAt(c, i)' PROVE Covered(c, i)' <=> i \in reported'[c]
  <2>1. RaisedAt(c, i) /\ i <= top /\ i \in Nat
    BY <1>5, <1>6
  <2>2. Covered(c, i)' <=> (\E s \in Y : s[1] <= i /\ i <= s[2])
    BY <1>1 DEF Covered
  <2>3. Covered(c, i) <=> i \in reported[c]
    BY <1>2, <1>4, <2>1 DEF SeenOf
  <2>4. i \in Existing(rs, n) <=> (\E r \in rs : r[1] <= i /\ i <= r[2])
    BY DEF Existing
  <2> QED
    BY <1>3, <2>1, <2>2, <2>3, <2>4
<1>7. \A i \in DOMAIN log' : RaisedAt(c, i)' => (Covered(c, i)' <=> i \in reported'[c])
  BY <1>6
<1>8. \A r \in ranges'[c] : r[1] <= r[2] /\ r[2] <= last_seq'[c]
  BY <1>1, <1>3
<1>9. ASSUME NEW s \in ranges'[c], NEW t \in ranges'[c], s # t, s[1] <= t[1]
      PROVE  \E i \in s[2] + 1 .. t[1] - 1 : RaisedAt(c, i)'
  <2>1. s \in Y /\ t \in Y
    BY <1>1
  <2>2. PICK i \in s[2] + 1 .. t[1] - 1 : RaisedAt(c, i)
    BY <1>3, <1>9, <2>1
  <2>3. s[2] \in Nat /\ t[1] \in Nat /\ t[1] <= n + 1
    <3>1. t[1] \in Nat /\ t[2] \in Nat /\ t[1] <= t[2] /\ t[2] <= top /\ s[2] \in Nat
      BY <1>3, <2>1
    <3> QED
      BY <3>1
  <2>4. i \in 1 .. n
    BY <2>2, <2>3
  <2> QED
    BY <2>2, <2>4
<1>10. ranges'[c] \subseteq Nat \X Nat
  BY <1>1, <1>3
<1> QED
  BY <1>7, <1>8, <1>9, <1>10 DEF SeenOf

\* op `seen`: the other conversations keep what they have.
LEMMA SeenKeeps ==
    ASSUME ReadInv, NEW c \in Convos, NEW d \in Clients, NEW rs \in SUBSET (Nat \X Nat),
           \A r \in rs : r[1] <= r[2], Seen(d, c, rs)
    PROVE  ReadInv'
<1>1. PICK n \in Nat : n = Len(log)
  BY DEF ReadInv, ReadTypeOK
<1>2. DOMAIN log = 1 .. n /\ last_seq[c] \in Nat /\ last_seq[c] <= n
  BY <1>1 DEF ReadInv, ReadTypeOK, HeadsInLog
<1>3. /\ log' = log /\ last_seq' = last_seq /\ unread' = unread /\ reporter' = reporter \cup {d}
      /\ ranges' = [ranges EXCEPT ![c] = SeenAfter(c, rs, last_seq[c])]
      /\ reported' = [reported EXCEPT ![c] = reported[c] \cup Existing(rs, Len(log))]
  BY DEF Seen
<1>4. /\ \A b \in Convos \ {c} : ranges'[b] = ranges[b] /\ reported'[b] = reported[b]
      /\ ranges'[c] = SeenAfter(c, rs, last_seq[c]) /\ reported'[c] = reported[c] \cup Existing(rs, n)
  BY <1>1, <1>3 DEF ReadInv, ReadTypeOK
<1>5. \A b, i : (RaisedAt(b, i)' <=> RaisedAt(b, i)) /\ (ReadTo(b, i)' <=> ReadTo(b, i))
  BY <1>3 DEF RaisedAt, ReadTo, Markers
<1>6. SeenOf(c)' /\ ranges'[c] \subseteq Nat \X Nat
  <2>1. last_seq'[c] = last_seq[c] /\ last_seq[c] <= n + 1 /\ last_seq[c] <= last_seq[c]
    BY <1>2, <1>3
  <2>2. \A i \in DOMAIN log' : i \in 1 .. n
    BY <1>2, <1>3
  <2> QED
    BY <1>1, <1>2, <1>4, <1>5, <2>1, <2>2, SeenReports
<1>7. \A b \in Convos \ {c} : SeenOf(b)'
  BY <1>3, <1>4, <1>5 DEF ReadInv, SeenOf, Covered
<1>8. \A b \in Convos : BadgeOf(b)'
  BY <1>3, <1>5 DEF ReadInv, BadgeOf, UnreadOf
<1>9. Existing(rs, n) \subseteq 1 .. n
  BY DEF Existing
<1>10. HeadsInLog'
  BY <1>1, <1>3, <1>4, <1>9 DEF ReadInv, HeadsInLog
<1>11. ReadTypeOK'
  <2>1. ranges' \in [Convos -> SUBSET (Nat \X Nat)]
    BY <1>3, <1>4, <1>6 DEF ReadInv, ReadTypeOK
  <2>2. reported' \in [Convos -> SUBSET Nat]
    BY <1>1, <1>3, <1>9 DEF ReadInv, ReadTypeOK
  <2> QED
    BY <1>3, <2>1, <2>2 DEF ReadInv, ReadTypeOK
<1> QED
  BY <1>6, <1>7, <1>8, <1>10, <1>11 DEF ReadInv

\* op `read_marker`: the recount is what is unread after it, and what an old app's
\* marker adds to the ranges is what it says was seen.
LEMMA ReadMarkerKeeps ==
    ASSUME ReadInv, ReadStateAssumption, NEW c \in Convos, NEW d \in Clients \cup Agents,
           NEW mark \in Nat \cup {Newest}, ReadMarker(d, c, mark)
    PROVE  ReadInv'
<1>1. PICK n \in Nat : n = Len(log)
  BY DEF ReadInv, ReadTypeOK
<1>2. PICK upto : upto = IF mark = Newest THEN last_seq[c] ELSE mark
  OBVIOUS
<1>3. upto \in Nat
  BY <1>2 DEF ReadInv, ReadTypeOK
<1>4. PICK e \in Event : e = NewMarker(c, upto) /\ e.convo = c /\ e.kind = "marker" /\ ~Raised(e)
  BY <1>3, NewMarkerIs
<1>5. /\ log' = Append(log, NewMarker(c, upto))
      /\ log' = Append(log, e)
      /\ last_seq' = [last_seq EXCEPT ![e.convo] = Len(log) + 1]
      /\ unread' = [unread EXCEPT ![c] = IF c \in Children THEN unread[c] ELSE Recount(c, upto)]
      /\ reporter' = reporter
      /\ ranges' = IF Legacy(d, upto)
                   THEN [ranges EXCEPT ![c] = SeenAfter(c, {<<1, upto>>}, n + 1)] ELSE ranges
      /\ reported' = IF d \in Clients \ reporter
                     THEN [reported EXCEPT ![c] = reported[c] \cup Existing({<<1, upto>>}, n)] ELSE reported
  BY <1>1, <1>2, <1>4 DEF ReadMarker
<1>6. /\ log' \in Seq(Event) /\ Len(log') = n + 1
      /\ DOMAIN log = 1 .. n /\ DOMAIN log' = 1 .. n + 1
      /\ 1 .. n + 1 = 1 .. n \cup {n + 1} /\ n + 1 \notin 1 .. n
      /\ log'[n + 1] = e /\ \A i \in 1 .. n : log'[i] = log[i]
  BY <1>1, <1>5, LogGrown DEF ReadInv
<1>7. /\ last_seq' \in [Convos -> Nat] /\ last_seq'[c] = n + 1
      /\ \A b \in Convos : /\ last_seq[b] <= n /\ last_seq[b] \in Nat /\ last_seq'[b] <= n + 1
                           /\ \A i \in DOMAIN log' : log'[i].convo = b => i <= last_seq'[b]
  BY <1>1, <1>4, <1>5, HeadsGrow
<1>8. \A b \in Convos \ {c} : ranges'[b] = ranges[b] /\ reported'[b] = reported[b] /\ unread'[b] = unread[b]
  BY <1>5 DEF ReadInv, ReadTypeOK
<1>9. Existing({<<1, upto>>}, n) \subseteq 1 .. n
  BY DEF Existing
<1>10. SeenOf(c)' /\ ranges'[c] \subseteq Nat \X Nat
  <2>1. CASE Legacy(d, upto)
    <3>1. upto >= 1 /\ d \in Clients \ reporter
      BY <2>1 DEF Legacy
    <3>2. ranges'[c] = SeenAfter(c, {<<1, upto>>}, n + 1) /\ reported'[c] = reported[c] \cup Existing({<<1, upto>>}, n)
      BY <1>5, <2>1, <3>1 DEF ReadInv, ReadTypeOK
    <3>3. {<<1, upto>>} \in SUBSET (Nat \X Nat) /\ \A r \in {<<1, upto>>} : r[1] <= r[2]
      BY <1>3, <3>1
    <3>4. \A i \in 1 .. n : RaisedAt(c, i)' <=> RaisedAt(c, i)
      BY <1>6 DEF RaisedAt
    <3>5. \A i \in DOMAIN log' : i \in 1 .. n \/ ~RaisedAt(c, i)'
      BY <1>4, <1>6 DEF RaisedAt
    <3>6. n + 1 \in Nat /\ last_seq[c] <= n + 1 /\ n + 1 <= n + 1
      BY <1>7
    <3> QED
      BY <1>1, <1>7, <3>2, <3>3, <3>4, <3>5, <3>6, SeenReports
  <2>2. CASE ~Legacy(d, upto)
    <3>1. ranges' = ranges
      BY <1>5, <2>2
    <3>2. reported'[c] = reported[c]
      <4>1. CASE d \in Clients \ reporter
        <5>1. upto = 0
          BY <1>3, <2>2, <4>1 DEF Legacy
        <5>2. Existing({<<1, upto>>}, n) = {}
          BY <5>1 DEF Existing
        <5> QED
          BY <1>5, <4>1, <5>2 DEF ReadInv, ReadTypeOK
      <4>2. CASE ~(d \in Clients \ reporter)
        BY <1>5, <4>2
      <4> QED
        BY <4>1, <4>2
    <3>3. SeenOf(c)'
      BY <1>5, <3>1, <3>2, SeenStays
    <3> QED
      BY <3>1, <3>3 DEF ReadInv, ReadTypeOK
  <2> QED
    BY <2>1, <2>2
<1>11. \A b \in Convos \ {c} : SeenOf(b)'
  BY <1>5, <1>8, SeenStays
<1>12. BadgeOf(c)'
  <2>1. Cardinality(UnreadOf(c)') = Recount(c, upto)
    BY <1>3, <1>5, UnreadMarked DEF ReadInv
  <2>2. unread'[c] = IF c \in Children THEN unread[c] ELSE Recount(c, upto)
    BY <1>5 DEF ReadInv, ReadTypeOK
  <2>3. c \in Children => unread[c] = 0
    BY DEF ReadInv, BadgeOf
  <2> QED
    BY <1>7, <2>1, <2>2, <2>3 DEF BadgeOf
<1>13. \A b \in Convos \ {c} : BadgeOf(b)'
  BY <1>4, <1>5, <1>8, BadgeStays
<1>14. HeadsInLog'
  <2>1. \A b \in Convos : reported'[b] \subseteq 1 .. n
    <3>1. \A b \in Convos : reported[b] \subseteq 1 .. n
      BY <1>1 DEF ReadInv, HeadsInLog
    <3>2. reported'[c] = reported[c] \/ reported'[c] = reported[c] \cup Existing({<<1, upto>>}, n)
      BY <1>5 DEF ReadInv, ReadTypeOK
    <3> QED
      BY <1>8, <1>9, <3>1, <3>2
  <2> QED
    BY <1>6, <1>7, <2>1 DEF HeadsInLog
<1>15. ReadTypeOK'
  <2>1. Recount(c, upto) \in Nat
    <3>1. Recount(c, upto) = Cardinality(UnreadOf(c)')
      BY <1>3, <1>5, UnreadMarked DEF ReadInv
    <3>2. UnreadOf(c)' \subseteq 1 .. n + 1
      BY <1>6 DEF UnreadOf
    <3>3. IsFiniteSet(1 .. n + 1)
      BY FS_Interval
    <3> QED
      BY <3>1, <3>2, <3>3, FS_Subset, FS_CardinalityType
  <2>2. unread' \in [Convos -> Nat]
    BY <1>5, <2>1 DEF ReadInv, ReadTypeOK
  <2>3. ranges' \in [Convos -> SUBSET (Nat \X Nat)]
    BY <1>5, <1>10 DEF ReadInv, ReadTypeOK
  <2>4. reported' \in [Convos -> SUBSET Nat]
    <3>1. reported \in [Convos -> SUBSET Nat] /\ reported[c] \in SUBSET Nat
      BY DEF ReadInv, ReadTypeOK
    <3>2. PICK E \in SUBSET Nat : E = Existing({<<1, upto>>}, n)
      <4>1. \A i \in Existing({<<1, upto>>}, n) : i \in Nat
        BY DEF Existing
      <4> QED
        BY <4>1
    <3>3. reported[c] \cup E \in SUBSET Nat
      BY <3>1
    <3>4. reported' = IF d \in Clients \ reporter THEN [reported EXCEPT ![c] = reported[c] \cup E] ELSE reported
      BY <1>5, <3>2
    <3> QED
      BY <3>1, <3>3, <3>4
  <2> QED
    BY <1>5, <1>6, <1>7, <2>2, <2>3, <2>4 DEF ReadInv, ReadTypeOK
<1> QED
  BY <1>10, <1>11, <1>12, <1>13, <1>14, <1>15 DEF ReadInv

\* A step.
LEMMA ReadStep ==
    ASSUME ReadStateAssumption, ReadInv, ReadNext
    PROVE  ReadInv'
<1>1. PICK c \in Convos :
        \/ Send(c)
        \/ \E kind \in {"content", "work", "note"} : Publish(c, kind)
        \/ \E d \in Clients \cup Agents, mark \in Marks \cup {Newest} : ReadMarker(d, c, mark)
        \/ \E d \in Clients, rs \in {{}} \cup {{r} : r \in Ranges} : Seen(d, c, rs)
  BY DEF ReadNext
<1>2. CASE Send(c) \/ \E kind \in {"content", "work", "note"} : Publish(c, kind)
  BY <1>2, SendPublishKeep
<1>3. ASSUME NEW d \in Clients \cup Agents, NEW mark \in Marks \cup {Newest}, ReadMarker(d, c, mark)
      PROVE  ReadInv'
  <2>1. mark \in Nat \cup {Newest}
    BY DEF Marks
  <2> QED
    BY <1>3, <2>1, ReadMarkerKeeps
<1>4. ASSUME NEW d \in Clients, NEW rs \in {{}} \cup {{r} : r \in Ranges}, Seen(d, c, rs)
      PROVE  ReadInv'
  <2>1. \A r \in Ranges : r \in Nat \X Nat /\ r[1] <= r[2]
    BY DEF Ranges
  <2>2. rs \in SUBSET (Nat \X Nat) /\ \A r \in rs : r[1] <= r[2]
    BY <2>1
  <2> QED
    BY <1>4, <2>2, SeenKeeps
<1> QED
  BY <1>1, <1>2, <1>3, <1>4

\* Nothing happens to the journal.
LEMMA ReadStays ==
    ASSUME ReadInv, UNCHANGED readVars
    PROVE  ReadInv'
<1>1. /\ log' = log /\ last_seq' = last_seq /\ unread' = unread /\ ranges' = ranges
      /\ reporter' = reporter /\ reported' = reported
  BY DEF readVars
<1>2. \A b, i : (RaisedAt(b, i)' <=> RaisedAt(b, i)) /\ (ReadTo(b, i)' <=> ReadTo(b, i))
  BY <1>1 DEF RaisedAt, ReadTo, Markers
<1>3. ReadTypeOK' /\ HeadsInLog'
  BY <1>1 DEF ReadInv, ReadTypeOK, HeadsInLog
<1>4. \A b \in Convos : BadgeOf(b)' /\ SeenOf(b)'
  BY <1>1, <1>2 DEF ReadInv, BadgeOf, UnreadOf, SeenOf, Covered
<1> QED
  BY <1>3, <1>4 DEF ReadInv

\* The empty journal.
LEMMA ReadStarts == ReadInit => ReadInv
<1> SUFFICES ASSUME ReadInit PROVE ReadInv
  OBVIOUS
<1>1. /\ log = <<>> /\ reporter = {}
      /\ \A c \in Convos : last_seq[c] = 0 /\ unread[c] = 0 /\ ranges[c] = {} /\ reported[c] = {}
  BY DEF ReadInit
<1>2. DOMAIN log = {} /\ Len(log) = 0
  BY <1>1
<1>3. ReadTypeOK
  BY <1>1 DEF ReadInit, ReadTypeOK
<1>4. HeadsInLog
  BY <1>1, <1>2 DEF HeadsInLog
<1>5. \A c \in Convos : BadgeOf(c)
  <2> TAKE c \in Convos
  <2>1. UnreadOf(c) = {}
    BY <1>2 DEF UnreadOf
  <2> QED
    BY <1>1, <1>2, <2>1, FS_EmptySet DEF BadgeOf
<1>6. \A c \in Convos : SeenOf(c)
  BY <1>1, <1>2 DEF SeenOf
<1> QED
  BY <1>3, <1>4, <1>5, <1>6 DEF ReadInv

\* Whatever is sent, published, marked and reported, the badge counts what the log
\* says is unread, and what is seen is what was reported, merged without loss
\* (journal.js append, markRead, addSeenRanges).
THEOREM ReadStateIsTrue == ReadSpec => []ReadAsReported
<1>1. ReadInv /\ [ReadNext]_readVars => ReadInv'
  BY ReadStateAssumption, ReadStep, ReadStays
<1> QED
  BY <1>1, ReadStarts, ReadSays, PTL DEF ReadSpec

-----------------------------------------------------------------------------
(* Causes: the inductive invariant.                                        *)

\* How a list names what a turn took in: each thing, a post perhaps by its
\* room alone, unless the list was cut short or names none; and nothing else.
Names(causes, inputs) ==
  /\ \/ \E c \in causes : c[1] = "truncated"
     \/ causes = {<<"other", 0>>}
     \/ \A c \in inputs : c \in causes \/ (c[1] = "room" /\ <<"bare", sent[c[2]].to>> \in causes)
  /\ \A c \in causes : \/ c \in inputs
                       \/ c[1] \in {"other", "truncated"}
                       \/ \E i \in inputs : i[1] = "room" /\ c = <<"bare", sent[i[2]].to>>

\* How a thing came into a turn of s.
Came(c, s) ==
  \/ c[1] \in {"said", "stale", "routine", "alert"}
  \/ /\ c[1] \in {"carry", "room", "spawned"} /\ c[2] \in Ids /\ sent[c[2]].kind = c[1]
     /\ IF c[1] = "room" THEN s \in Member[sent[c[2]].to] ELSE sent[c[2]].to = s
  \/ c[1] = "outcome" /\ c[2] \in Ids /\ sent[c[2]].kind = "spawned" /\ sent[c[2]].from = s

AllCame(inputs, s) == \A c \in inputs : Came(c, s)

\* What was sent rests on what the turn that sent it took in.
RestsOn(k, inputs) ==
  /\ AllCame(inputs, sent[k].from)
  /\ Clean(inputs) => sent[k].clean
  /\ sent[k].from # Coordinator => sent[k].src = Sources(inputs)
  /\ sent[k].from = Coordinator \/ sent[k].kind = "spawned" => Names(sent[k].causes, inputs)

\* A hop has the Coordinator's hops behind it, or says that it cannot tell; a
\* post or a spawn that was not kept says nothing.
HopIsTrue(k) ==
  /\ sent[k].kind \in {"carry", "room", "spawned"}
  /\ sent[k].kind = "carry" => sent[k].from = Coordinator /\ sent[k].kept
  /\ sent[k].kind = "room" => sent[k].to \in Room
  /\ sent[k].from = Coordinator => sent[k].src = {k} /\ (sent[k].kept => sent[k].hop = {k})
  /\ IF sent[k].kept THEN Uncheckable \in sent[k].hop \/ sent[k].src \subseteq sent[k].hop
     ELSE sent[k].hop = {}
  /\ \A j \in sent[k].src : j \in Ids /\ sent[j].from = Coordinator

\* A session that sent something of the Coordinator's was touched by it.
PassedOn(k) == sent[k].from # Coordinator /\ sent[k].src # {} => Touched(sent[k].from)

CausesInv ==
  /\ \E S : sent \in Seq(S)
  /\ \A k \in Ids : HopIsTrue(k) /\ PassedOn(k) /\ \E inputs : RestsOn(k, inputs)

-----------------------------------------------------------------------------
(* Causes: lists and walks.                                                *)

LEMMA NamesThem ==
  ASSUME NEW inputs, NEW causes \in AsNamed(inputs)
  PROVE  Names(causes, inputs)
<1>1. CASE causes = inputs
  BY <1>1 DEF Names
<1>2. CASE causes = Bare(inputs)
  <2>1. \A c \in inputs : IF c[1] = "room" THEN <<"bare", sent[c[2]].to>> \in causes ELSE c \in causes
    BY <1>2 DEF Bare
  <2>2. ASSUME NEW c \in causes PROVE c \in inputs \/ \E i \in inputs : i[1] = "room" /\ c = <<"bare", sent[i[2]].to>>
    <3>1. PICK i \in inputs : c = IF i[1] = "room" THEN <<"bare", sent[i[2]].to>> ELSE i
      BY <1>2, <2>2 DEF Bare
    <3> QED
      BY <3>1
  <2> QED
    BY <2>1, <2>2 DEF Names
<1>3. CASE causes = {<<"other", 0>>}
  BY <1>3 DEF Names
<1>4. ASSUME NEW c \in inputs, causes = (inputs \ {c}) \cup {<<"truncated", 0>>} PROVE Names(causes, inputs)
  <2>1. PICK t : t = <<"truncated", 0>>
    OBVIOUS
  <2>2. t[1] = "truncated" /\ t \in causes /\ \A q \in causes : q \in inputs \/ q = t
    BY <1>4, <2>1
  <2> QED
    BY <2>2 DEF Names
<1> QED
  BY <1>1, <1>2, <1>3, <1>4 DEF AsNamed

\* The two words of a pair tell what is in it.
LEMMA InputsCame ==
  ASSUME NEW s, NEW inputs \in SUBSET Inputs(s), \A k \in Ids : HopIsTrue(k)
  PROVE  AllCame(inputs, s)
<1> SUFFICES ASSUME NEW c \in inputs PROVE Came(c, s)
  BY DEF AllCame
<1>1. CASE c = <<"said", 0>> \/ c \in {<<"stale", 0>>, <<"routine", 0>>, <<"alert", 0>>}
  BY <1>1 DEF Came
<1>2. ASSUME NEW k \in Ids, c = <<sent[k].kind, k>>, IF Post(k) THEN s \in Member[sent[k].to] ELSE sent[k].to = s
      PROVE  Came(c, s)
  <2>1. c[1] = sent[k].kind /\ c[2] = k /\ sent[k].kind \in {"carry", "room", "spawned"}
    BY <1>2 DEF HopIsTrue
  <2> QED
    BY <1>2, <2>1 DEF Came, Post
<1>3. ASSUME NEW k \in Ids, c = <<"outcome", k>>, sent[k].kind = "spawned", sent[k].from = s PROVE Came(c, s)
  BY <1>3 DEF Came
<1>4. \/ c = <<"said", 0>> \/ c \in {<<"stale", 0>>, <<"routine", 0>>, <<"alert", 0>>}
      \/ c \in {<<sent[k].kind, k>> : k \in {j \in Ids : IF Post(j) THEN s \in Member[sent[j].to] ELSE sent[j].to = s}}
      \/ c \in {<<"outcome", k>> : k \in {j \in Ids : sent[j].kind = "spawned" /\ sent[j].from = s}}
  BY DEF Inputs
<1> QED
  BY <1>1, <1>2, <1>3, <1>4

LEMMA CauseLeads ==
  ASSUME NEW c, NEW s
  PROVE  /\ c[1] = "carry" /\ sent[c[2]].to = s => OriginsOfCause(c, s) = {c[2]}
         /\ c[1] = "room" /\ s \in Member[sent[c[2]].to] => OriginsOfCause(c, s) = sent[c[2]].hop
         /\ c[1] = "spawned" /\ sent[c[2]].to = s => OriginsOfCause(c, s) = sent[c[2]].hop
         /\ c[1] = "bare" => OriginsOfCause(c, s) = IF Heard(c[2]) THEN {Uncheckable} ELSE {}
         /\ c[1] \in {"said", "stale", "routine", "alert", "outcome", "other", "truncated"} => OriginsOfCause(c, s) = {}
BY DEF OriginsOfCause

LEMMA WalkedIs ==
  ASSUME NEW causes, NEW s, NEW below
  PROVE  /\ \A c \in causes : OriginsOfCause(c, s) \subseteq Walked(causes, s, below).found
         /\ \A c \in causes : c[1] = "outcome" /\ sent[c[2]].from = s =>
              /\ below[c[2]].found \subseteq Walked(causes, s, below).found
              /\ below[c[2]].cut => Walked(causes, s, below).cut
         /\ (\E c \in causes : c[1] = "truncated") => Walked(causes, s, below).cut
         /\ (\A c \in causes : /\ OriginsOfCause(c, s) = {}
                               /\ c[1] = "outcome" /\ sent[c[2]].from = s => below[c[2]].found = {})
              => Walked(causes, s, below).found = {}
<1> DEFINE deeper == {below[c[2]] : c \in {i \in causes : i[1] = "outcome" /\ sent[i[2]].from = s}}
           all == {OriginsOfCause(c, s) : c \in causes} \cup {d.found : d \in deeper}
<1>1. /\ Walked(causes, s, below).found = UNION all
      /\ Walked(causes, s, below).cut = ((\E c \in causes : c[1] = "truncated") \/ \E d \in deeper : d.cut)
  BY DEF Walked
<1>2. \A c \in causes : OriginsOfCause(c, s) \subseteq UNION all
  OBVIOUS
<1>3. \A c \in causes : c[1] = "outcome" /\ sent[c[2]].from = s => below[c[2]] \in deeper
  OBVIOUS
<1>4. \A d \in deeper : d.found \subseteq UNION all
  <2> HIDE DEF deeper
  <2> QED
    OBVIOUS
<1>5. ASSUME \A c \in causes : /\ OriginsOfCause(c, s) = {}
                               /\ c[1] = "outcome" /\ sent[c[2]].from = s => below[c[2]].found = {}
      PROVE  UNION all = {}
  <2>1. \A d \in deeper : d.found = {}
    BY <1>5
  <2> HIDE DEF deeper
  <2> QED
    BY <1>5, <2>1
<1> HIDE DEF deeper, all
<1> QED
  BY <1>1, <1>2, <1>3, <1>4, <1>5

\* What was found below the outcomes of the spawns of s.
BelowFinds(below, s) ==
  \A k \in Ids : sent[k].kind = "spawned" /\ sent[k].from = s /\ ~NamesNothing(sent[k].causes) =>
     below[k].cut \/ Uncheckable \in below[k].found \/ sent[k].src \subseteq below[k].found

LEMMA SourceIs ==
  ASSUME NEW inputs, NEW q
  PROVE  q \in Sources(inputs) <=>
           \E c \in inputs : /\ q \in sent[c[2]].src
                             /\ \/ c[1] \in {"carry", "room", "spawned"} /\ sent[c[2]].kept
                                \/ c[1] = "outcome" /\ ~NamesNothing(sent[c[2]].causes)
BY DEF Sources, Traced

\* A walk finds all that is behind a turn, or knows that it may not have.
LEMMA WalkFinds ==
  ASSUME CausesInv, NEW s, NEW inputs, NEW causes, AllCame(inputs, s), Names(causes, inputs),
         NEW below, BelowFinds(below, s)
  PROVE  \/ Walked(causes, s, below).cut \/ NamesNothing(causes)
         \/ Uncheckable \in Walked(causes, s, below).found
         \/ Sources(inputs) \subseteq Walked(causes, s, below).found
<1>1. PICK w : w = Walked(causes, s, below)
  OBVIOUS
<1>2. SUFFICES ASSUME ~w.cut, ~NamesNothing(causes), Uncheckable \notin w.found, NEW q \in Sources(inputs)
               PROVE  q \in w.found
  BY <1>1
<1>3. /\ \A c \in causes : OriginsOfCause(c, s) \subseteq w.found
      /\ \A c \in causes : c[1] = "outcome" /\ sent[c[2]].from = s =>
           below[c[2]].found \subseteq w.found /\ ~below[c[2]].cut
      /\ ~\E c \in causes : c[1] = "truncated"
  BY <1>1, <1>2, WalkedIs
<1>4. causes # {<<"other", 0>>}
  <2>1. PICK o : o = <<"other", 0>>
    OBVIOUS
  <2>2. o[1] = "other" /\ (causes = {o} => \A c \in causes : c = o)
    BY <2>1
  <2> QED
    BY <1>2, <2>1, <2>2 DEF NamesNothing
<1>5. \A c \in inputs : c \in causes \/ (c[1] = "room" /\ <<"bare", sent[c[2]].to>> \in causes)
  BY <1>3, <1>4 DEF Names
<1>6. PICK c \in inputs : /\ q \in sent[c[2]].src
                          /\ \/ c[1] \in {"carry", "room", "spawned"} /\ sent[c[2]].kept
                             \/ c[1] = "outcome" /\ ~NamesNothing(sent[c[2]].causes)
  BY <1>2, SourceIs
<1>7. Came(c, s)
  BY DEF AllCame
<1>8. c[2] \in Ids /\ HopIsTrue(c[2])
  BY <1>6, <1>7 DEF Came, CausesInv
<1>9. CASE c[1] = "carry"
  <2>1. c \in causes /\ sent[c[2]].to = s /\ sent[c[2]].kind = "carry"
    BY <1>5, <1>7, <1>9 DEF Came
  <2>2. sent[c[2]].src = {c[2]} /\ OriginsOfCause(c, s) = {c[2]}
    BY <1>8, <1>9, <2>1, CauseLeads DEF HopIsTrue
  <2> QED
    BY <1>3, <1>6, <2>1, <2>2
<1>10. CASE c[1] = "room"
  <2>1. s \in Member[sent[c[2]].to] /\ sent[c[2]].kind = "room"
    BY <1>7, <1>10 DEF Came
  <2>2. CASE c \in causes
    <3>1. sent[c[2]].hop \subseteq w.found
      BY <1>3, <1>10, <2>1, <2>2, CauseLeads
    <3> QED
      BY <1>2, <1>6, <1>8, <1>10, <3>1 DEF HopIsTrue
  <2>3. CASE <<"bare", sent[c[2]].to>> \in causes
    <3>1. ~Heard(sent[c[2]].to)
      <4>1. PICK b : b = <<"bare", sent[c[2]].to>>
        OBVIOUS
      <4>2. b \in causes /\ b[1] = "bare" /\ b[2] = sent[c[2]].to
        BY <2>3, <4>1
      <4>3. Heard(b[2]) => Uncheckable \in OriginsOfCause(b, s)
        BY <4>2, CauseLeads
      <4> QED
        BY <1>2, <1>3, <4>2, <4>3
    <3>2. sent[c[2]].hop = {}
      BY <1>8, <2>1, <3>1 DEF Heard, Hop, Post
    <3> QED
      BY <1>6, <1>8, <1>10, <3>2 DEF HopIsTrue
  <2> QED
    BY <1>5, <2>2, <2>3
<1>11. CASE c[1] = "spawned"
  <2>1. c \in causes /\ sent[c[2]].to = s
    BY <1>5, <1>7, <1>11 DEF Came
  <2>2. sent[c[2]].hop \subseteq w.found
    BY <1>3, <1>11, <2>1, CauseLeads
  <2> QED
    BY <1>2, <1>6, <1>8, <1>11, <2>2 DEF HopIsTrue
<1>12. CASE c[1] = "outcome"
  <2>1. c \in causes /\ sent[c[2]].kind = "spawned" /\ sent[c[2]].from = s /\ ~NamesNothing(sent[c[2]].causes)
    BY <1>5, <1>6, <1>7, <1>12 DEF Came
  <2>2. ~below[c[2]].cut /\ below[c[2]].found \subseteq w.found
    BY <1>3, <1>12, <2>1
  <2>3. Uncheckable \in below[c[2]].found \/ sent[c[2]].src \subseteq below[c[2]].found
    BY <1>8, <2>1, <2>2 DEF BelowFinds
  <2> QED
    BY <1>2, <1>6, <2>2, <2>3
<1> QED
  BY <1>6, <1>9, <1>10, <1>11, <1>12

-----------------------------------------------------------------------------
(* Causes: the depths of a walk.  Both walks are functions defined along   *)
(* 0 .. ChainMax; that there are such functions is shown first.            *)

WalkedAt(F, s, d) ==
  \A k \in Ids : F[d][k] = IF d = 0 THEN Cut ELSE Walked(sent[k].causes, s, F[d - 1])

LEMMA WalkHasDepths ==
  ASSUME NEW s
  PROVE  \E F : F[ChainMax] = Below(s) /\ \A d \in 0 .. ChainMax : WalkedAt(F, s, d)
<1> DEFINE next(F, d) == [k \in Ids |-> IF d = 0 THEN Cut ELSE Walked(sent[k].causes, s, F[d - 1])]
           Is(F, n) == F = [d \in 0 .. n |-> next(F, d)]
           D == {n \in Nat : ~\E F : Is(F, n)}
<1>1. \A F, G : next(F, 0) = next(G, 0)
  OBVIOUS
<1>2. \A F, G, d : F[d - 1] = G[d - 1] => next(F, d) = next(G, d)
  OBVIOUS
<1> HIDE DEF next
<1>3. D = {}
  <2>1. SUFFICES ASSUME D # {} PROVE FALSE
    OBVIOUS
  <2>2. PICK n \in D : \A j \in D : n <= j
    <3>1. D \in SUBSET Nat
      OBVIOUS
    <3> HIDE DEF D
    <3> QED
      BY <2>1, <3>1, LeastNatural
  <2>3. CASE n = 0
    <3>1. PICK F : F = [d \in 0 .. 0 |-> next(<<>>, 0)]
      OBVIOUS
    <3>2. \A d \in 0 .. 0 : next(<<>>, 0) = next(F, d)
      BY <1>1
    <3>3. Is(F, 0)
      BY <3>1, <3>2
    <3> QED
      BY <2>2, <2>3, <3>3
  <2>4. CASE n # 0
    <3>1. n \in Nat /\ n - 1 \in Nat /\ ~(n <= n - 1)
      BY <2>2, <2>4
    <3>2. PICK G : Is(G, n - 1)
      BY <2>2, <3>1
    <3>3. PICK F : F = [d \in 0 .. n |-> IF d = n THEN next(G, n) ELSE G[d]]
      OBVIOUS
    <3>4. F[n - 1] = G[n - 1]
      BY <3>1, <3>3
    <3>5. ASSUME NEW d \in 0 .. n PROVE F[d] = next(F, d)
      <4>1. CASE d = n
        BY <1>2, <3>1, <3>3, <3>4, <4>1
      <4>2. CASE d # n
        <5>1. d \in 0 .. (n - 1) /\ F[d] = G[d]
          BY <3>1, <3>3, <4>2
        <5>2. G[d] = next(G, d)
          BY <3>2, <5>1
        <5>3. CASE d = 0
          BY <1>1, <5>1, <5>2, <5>3
        <5>4. CASE d # 0
          <6>1. F[d - 1] = G[d - 1]
            BY <3>1, <3>3, <4>2, <5>4
          <6> QED
            BY <1>2, <5>1, <5>2, <6>1
        <5> QED
          BY <5>3, <5>4
      <4> QED
        BY <4>1, <4>2
    <3>6. Is(F, n)
      BY <3>3, <3>5
    <3> QED
      BY <2>2, <3>6
  <2> QED
    BY <2>3, <2>4
<1>4. PICK F : Is(F, ChainMax) /\ F[ChainMax] = Below(s)
  <2> DEFINE F == CHOOSE G : Is(G, ChainMax)
  <2>1. Is(F, ChainMax)
    BY <1>3, CausesAssumption
  <2>2. Below(s) = F[ChainMax]
    BY DEF Below, next
  <2> QED
    BY <2>1, <2>2
<1>5. ASSUME NEW d \in 0 .. ChainMax PROVE WalkedAt(F, s, d)
  <2>1. F[d] = next(F, d)
    BY <1>4
  <2> QED
    BY <2>1 DEF next, WalkedAt
<1> QED
  BY <1>4, <1>5

\* Each depth finds what the one below it makes it find.
LEMMA BelowIsFound ==
  ASSUME CausesInv, NEW s, s # Coordinator
  PROVE  BelowFinds(Below(s), s)
<1>1. PICK F : F[ChainMax] = Below(s) /\ \A d \in 0 .. ChainMax : WalkedAt(F, s, d)
  BY WalkHasDepths
<1> DEFINE D == {d \in 0 .. ChainMax : ~BelowFinds(F[d], s)}
<1>2. SUFFICES ASSUME D # {} PROVE FALSE
  BY <1>1, CausesAssumption
<1>3. PICK d \in D : \A j \in D : d <= j
  <2>1. D \in SUBSET Nat
    BY CausesAssumption
  <2> HIDE DEF D
  <2> QED
    BY <1>2, <2>1, LeastNatural
<1>4. PICK k \in Ids : /\ sent[k].kind = "spawned" /\ sent[k].from = s /\ ~NamesNothing(sent[k].causes)
                       /\ ~(F[d][k].cut \/ Uncheckable \in F[d][k].found \/ sent[k].src \subseteq F[d][k].found)
  BY <1>3 DEF BelowFinds
<1>5. F[d][k] = IF d = 0 THEN Cut ELSE Walked(sent[k].causes, s, F[d - 1])
  BY <1>1, <1>3 DEF WalkedAt
<1>6. d # 0
  BY <1>4, <1>5 DEF Cut
<1>7. BelowFinds(F[d - 1], s)
  <2>1. d - 1 \in 0 .. ChainMax /\ ~(d <= d - 1)
    BY <1>3, <1>6, CausesAssumption
  <2> QED
    BY <1>3, <2>1
<1>8. PICK inputs : RestsOn(k, inputs)
  BY <1>4 DEF CausesInv
<1>9. AllCame(inputs, s) /\ Names(sent[k].causes, inputs) /\ sent[k].src = Sources(inputs)
  BY <1>4, <1>8 DEF RestsOn
<1>10. PICK w : w = Walked(sent[k].causes, s, F[d - 1])
  OBVIOUS
<1>11. w.cut \/ Uncheckable \in w.found \/ Sources(inputs) \subseteq w.found
  BY <1>4, <1>7, <1>9, <1>10, WalkFinds
<1> QED
  BY <1>4, <1>5, <1>6, <1>9, <1>10, <1>11

-----------------------------------------------------------------------------
(* Causes: what is found behind an ask.                                    *)

\* Nothing of the Coordinator's is behind a turn of a session it did not touch.
LEMMA UntouchedIsFree ==
  ASSUME CausesInv, NEW s, s # Coordinator, ~Touched(s), NEW inputs, AllCame(inputs, s)
  PROVE  Sources(inputs) = {}
<1> SUFFICES ASSUME NEW q \in Sources(inputs) PROVE FALSE
  OBVIOUS
<1>1. PICK c \in inputs : /\ q \in sent[c[2]].src /\ c[1] \in {"carry", "room", "spawned", "outcome"}
                          /\ c[1] = "outcome" \/ sent[c[2]].kept
  BY SourceIs
<1>2. Came(c, s)
  BY DEF AllCame
<1>3. c[2] \in Ids /\ HopIsTrue(c[2])
  BY <1>1, <1>2 DEF Came, CausesInv
<1>4. c[1] # "outcome" => Hop(c[2])
  BY <1>1, <1>3 DEF HopIsTrue, Hop
<1>5. CASE c[1] = "room"
  <2>1. sent[c[2]].kind = "room" /\ s \in Member[sent[c[2]].to]
    BY <1>2, <1>5 DEF Came
  <2>2. Heard(sent[c[2]].to)
    BY <1>3, <1>4, <1>5, <2>1 DEF Heard, Post
  <2>3. sent[c[2]].to \in Room
    BY <1>3, <2>1 DEF HopIsTrue
  <2> QED
    BY <2>1, <2>2, <2>3 DEF Touched
<1>6. CASE c[1] \in {"carry", "spawned"}
  <2>1. sent[c[2]].to = s /\ Hop(c[2])
    BY <1>2, <1>4, <1>6 DEF Came
  <2> QED
    BY <1>3, <2>1 DEF Touched, TouchedByName
<1>7. CASE c[1] = "outcome"
  <2>1. sent[c[2]].from = s /\ PassedOn(c[2])
    BY <1>2, <1>3, <1>7 DEF Came, CausesInv
  <2> QED
    BY <1>1, <2>1 DEF PassedOn
<1> QED
  BY <1>1, <1>5, <1>6, <1>7

\* What is found behind an ask is all there is, or says that it may not be.
LEMMA OriginsTell ==
  ASSUME CausesInv, NEW s, s # Coordinator, NEW inputs, NEW causes, AllCame(inputs, s), Names(causes, inputs)
  PROVE  Uncheckable \in OriginsOf(causes, s) \/ Sources(inputs) \subseteq OriginsOf(causes, s)
<1>1. PICK w : w = Walked(causes, s, Below(s))
  OBVIOUS
<1>2. w.cut \/ NamesNothing(causes) \/ Uncheckable \in w.found \/ Sources(inputs) \subseteq w.found
  BY <1>1, WalkFinds, BelowIsFound
<1>3. OriginsOf(causes, s) = Bounded(w, causes, s)
  BY <1>1 DEF OriginsOf
<1>4. ~Touched(s) => Sources(inputs) = {}
  BY UntouchedIsFree
<1>5. CASE Cardinality(w.found) > OriginsMax
  BY <1>3, <1>5 DEF Bounded
<1>6. CASE ~(Cardinality(w.found) > OriginsMax) /\ w.found # {}
  <2>1. Bounded(w, causes, s) = w.found \cup (IF w.cut THEN {Uncheckable} ELSE {})
    BY <1>6 DEF Bounded
  <2>2. NamesNothing(causes) => w.found = {}
    <3>1. SUFFICES ASSUME NamesNothing(causes) PROVE w.found = {}
      OBVIOUS
    <3>2. \A c \in causes : c[1] = "other"
      BY <3>1 DEF NamesNothing
    <3>3. \A c \in causes : OriginsOfCause(c, s) = {} /\ c[1] # "outcome"
      BY <3>2, CauseLeads
    <3> QED
      BY <1>1, <3>3, WalkedIs
  <2> QED
    BY <1>2, <1>3, <1>6, <2>1, <2>2
<1>7. CASE ~(Cardinality(w.found) > OriginsMax) /\ w.found = {}
  <2>1. Bounded(w, causes, s) = IF (w.cut \/ HidesLineage(causes)) /\ Touched(s) THEN {Uncheckable} ELSE {}
    BY <1>7 DEF Bounded
  <2>2. NamesNothing(causes) => HidesLineage(causes)
    BY DEF NamesNothing, HidesLineage
  <2> QED
    BY <1>2, <1>3, <1>4, <1>7, <2>1, <2>2
<1> QED
  BY <1>5, <1>6, <1>7

\* A session without a hop near it.
Apart(s) == \A k \in Ids : Hop(k) => /\ sent[k].to # s /\ sent[k].from # s
                                     /\ ~(Post(k) /\ s \in Member[sent[k].to])

LEMMA NothingNear ==
  ASSUME CausesInv, NEW s, Apart(s), NEW inputs, NEW causes, AllCame(inputs, s), Names(causes, inputs), NEW c \in causes
  PROVE  OriginsOfCause(c, s) = {}
<1>1. ASSUME NEW i \in inputs, i[1] \in {"carry", "room", "spawned"}
      PROVE  /\ i[2] \in Ids /\ ~Hop(i[2]) /\ sent[i[2]].kind = i[1]
             /\ IF i[1] = "room" THEN s \in Member[sent[i[2]].to] ELSE sent[i[2]].to = s
  <2>1. Came(i, s)
    BY DEF AllCame
  <2>2. /\ i[2] \in Ids /\ sent[i[2]].kind = i[1]
        /\ IF i[1] = "room" THEN s \in Member[sent[i[2]].to] ELSE sent[i[2]].to = s
    BY <1>1, <2>1 DEF Came
  <2> QED
    BY <1>1, <2>2 DEF Apart, Post
<1>2. CASE c[1] \in {"other", "truncated"}
  BY <1>2, CauseLeads
<1>3. ASSUME NEW i \in inputs, i[1] = "room", c = <<"bare", sent[i[2]].to>> PROVE OriginsOfCause(c, s) = {}
  <2>1. c[1] = "bare" /\ c[2] = sent[i[2]].to /\ s \in Member[c[2]]
    BY <1>1, <1>3
  <2>2. ~Heard(c[2])
    BY <2>1 DEF Apart, Heard
  <2> QED
    BY <2>1, <2>2, CauseLeads
<1>4. CASE c \in inputs
  <2>1. Came(c, s)
    BY <1>4 DEF AllCame
  <2>2. CASE c[1] \in {"said", "stale", "routine", "alert", "outcome"}
    BY <2>2, CauseLeads
  <2>3. CASE c[1] = "carry"
    <3>1. c[2] \in Ids /\ ~Hop(c[2]) /\ sent[c[2]].kind = "carry"
      BY <1>1, <1>4, <2>3
    <3>2. sent[c[2]].hop = {c[2]}
      BY <3>1 DEF CausesInv, HopIsTrue
    <3> QED
      BY <3>1, <3>2 DEF Hop
  <2>4. CASE c[1] = "room"
    <3>1. sent[c[2]].hop = {} /\ s \in Member[sent[c[2]].to]
      BY <1>1, <1>4, <2>4 DEF Hop
    <3> QED
      BY <2>4, <3>1, CauseLeads
  <2>5. CASE c[1] = "spawned"
    <3>1. sent[c[2]].hop = {} /\ sent[c[2]].to = s
      BY <1>1, <1>4, <2>5 DEF Hop
    <3> QED
      BY <2>5, <3>1, CauseLeads
  <2> QED
    BY <2>1, <2>2, <2>3, <2>4, <2>5 DEF Came
<1> QED
  BY <1>2, <1>3, <1>4 DEF Names

LEMMA NothingBelow ==
  ASSUME CausesInv, NEW s, s # Coordinator, Apart(s)
  PROVE  \A k \in Ids : sent[k].kind = "spawned" /\ sent[k].from = s => Below(s)[k].found = {}
<1>1. PICK F : F[ChainMax] = Below(s) /\ \A d \in 0 .. ChainMax : WalkedAt(F, s, d)
  BY WalkHasDepths
<1> DEFINE Empty(d) == \A k \in Ids : sent[k].kind = "spawned" /\ sent[k].from = s => F[d][k].found = {}
           D == {d \in 0 .. ChainMax : ~Empty(d)}
<1>2. SUFFICES ASSUME D # {} PROVE FALSE
  BY <1>1, CausesAssumption
<1>3. PICK d \in D : \A j \in D : d <= j
  <2>1. D \in SUBSET Nat
    BY CausesAssumption
  <2> HIDE DEF D
  <2> QED
    BY <1>2, <2>1, LeastNatural
<1>4. PICK k \in Ids : sent[k].kind = "spawned" /\ sent[k].from = s /\ F[d][k].found # {}
  BY <1>3
<1>5. F[d][k] = IF d = 0 THEN Cut ELSE Walked(sent[k].causes, s, F[d - 1])
  BY <1>1, <1>3 DEF WalkedAt
<1>6. d # 0
  BY <1>4, <1>5 DEF Cut
<1>7. Empty(d - 1)
  <2>1. d - 1 \in 0 .. ChainMax /\ ~(d <= d - 1)
    BY <1>3, <1>6, CausesAssumption
  <2> HIDE DEF Empty
  <2> QED
    BY <1>3, <2>1
<1>8. PICK inputs : AllCame(inputs, s) /\ Names(sent[k].causes, inputs)
  BY <1>4 DEF CausesInv, RestsOn
<1>9. \A c \in sent[k].causes : OriginsOfCause(c, s) = {}
  BY <1>8, NothingNear
<1>10. ASSUME NEW c \in sent[k].causes, c[1] = "outcome", sent[c[2]].from = s PROVE F[d - 1][c[2]].found = {}
  <2>1. c \in inputs
    BY <1>8, <1>10 DEF Names
  <2>2. c[2] \in Ids /\ sent[c[2]].kind = "spawned"
    BY <1>8, <1>10, <2>1 DEF AllCame, Came
  <2> QED
    BY <1>7, <1>10, <2>2
<1>11. Walked(sent[k].causes, s, F[d - 1]).found = {}
  BY <1>9, <1>10, WalkedIs
<1> QED
  BY <1>4, <1>5, <1>6, <1>11

LEMMA OthersAreFree ==
  ASSUME CausesInv, NEW s, s # Coordinator, Apart(s), NEW inputs, NEW causes, AllCame(inputs, s), Names(causes, inputs)
  PROVE  OriginsOf(causes, s) = {}
<1>1. PICK w : w = Walked(causes, s, Below(s))
  OBVIOUS
<1>2. ASSUME NEW c \in causes, c[1] = "outcome", sent[c[2]].from = s PROVE Below(s)[c[2]].found = {}
  <2>1. c \in inputs
    BY <1>2 DEF Names
  <2>2. c[2] \in Ids /\ sent[c[2]].kind = "spawned"
    BY <1>2, <2>1 DEF AllCame, Came
  <2> QED
    BY <1>2, <2>2, NothingBelow
<1>3. w.found = {}
  BY <1>1, <1>2, NothingNear, WalkedIs
<1>4. ~Touched(s)
  BY DEF Touched, TouchedByName, Heard, Apart
<1>5. ~(Cardinality(w.found) > OriginsMax)
  BY <1>3, FS_EmptySet, CausesAssumption
<1> QED
  BY <1>1, <1>3, <1>4, <1>5 DEF OriginsOf, Bounded

-----------------------------------------------------------------------------
(* Causes: the root of a list that the Coordinator's own turn had.         *)

\* A root of the user's or of a routine's is that of words that are.
RootsClean(below) == \A k \in Ids : below[k] \in {"said", "routine"} => sent[k].clean

\* A list that resolves names everything, and nothing of anyone else.
LEMMA LevelIsClean ==
  ASSUME NEW s, NEW inputs, NEW causes, AllCame(inputs, s), Names(causes, inputs),
         NEW below, RootsClean(below), Level(causes, below) \in {"said", "routine"}
  PROVE  Clean(inputs)
<1>1. PICK list : list = {c \in causes : ~OwnEcho(c)}
  OBVIOUS
<1>2. PICK roots : roots = {RootOf(c, below) : c \in list}
  OBVIOUS
<1>3. Level(causes, below) =
        IF list = {} \/ \E c \in list : c[1] \notin Resolvable THEN "none"
        ELSE IF "said" \in roots THEN "said"
        ELSE IF "stale" \in roots THEN "stale"
        ELSE IF "routine" \in roots THEN "routine" ELSE "none"
  BY <1>1, <1>2 DEF Level
<1>4. /\ \A c \in list : c[1] \in {"said", "stale", "routine", "outcome"}
      /\ "said" \in roots \/ "routine" \in roots
  BY <1>3 DEF Resolvable, UserKinds
<1>5. \A c \in causes : \/ c[1] \in {"said", "stale", "routine", "outcome"}
                        \/ c[1] = "room" /\ sent[c[2]].from = Coordinator
  BY <1>1, <1>4 DEF OwnEcho
<1>6. \A c \in causes : c[1] \notin {"other", "truncated", "bare"}
  BY <1>5
<1>7. causes = inputs
  <2>1. \A c \in causes : c \in inputs
    <3> SUFFICES ASSUME NEW c \in causes PROVE c \in inputs
      OBVIOUS
    <3>1. ~\E i \in inputs : i[1] = "room" /\ c = <<"bare", sent[i[2]].to>>
      BY <1>6
    <3> QED
      BY <1>6, <3>1 DEF Names
  <2>2. \A c \in inputs : c \in causes
    <3> SUFFICES ASSUME NEW c \in inputs PROVE c \in causes
      OBVIOUS
    <3>1. <<"bare", sent[c[2]].to>> \notin causes
      BY <1>6
    <3>2. causes # {<<"other", 0>>} /\ ~\E i \in causes : i[1] = "truncated"
      <4>1. PICK o : o = <<"other", 0>>
        OBVIOUS
      <4>2. o[1] = "other"
        BY <4>1
      <4> QED
        BY <1>6, <4>1, <4>2
    <3> QED
      BY <3>1, <3>2 DEF Names
  <2> QED
    BY <2>1, <2>2
<1>8. \A c \in inputs : c[1] \notin {"alert", "carry", "spawned"} /\ (c[1] = "room" => sent[c[2]].from = Coordinator)
  BY <1>5, <1>7
<1>9. \E c \in inputs : c[1] \in {"said", "routine"} \/ (c[1] = "outcome" /\ sent[c[2]].clean)
  <2>1. PICK c \in list : RootOf(c, below) \in {"said", "routine"}
    BY <1>2, <1>4
  <2>2. c \in inputs
    BY <1>1, <1>7
  <2>3. CASE c[1] = "outcome"
    <3>1. c[2] \in Ids
      BY <2>2, <2>3 DEF AllCame, Came
    <3>2. below[c[2]] \in {"said", "routine"}
      BY <2>1, <2>3 DEF RootOf
    <3> QED
      BY <2>2, <2>3, <3>1, <3>2 DEF RootsClean
  <2>4. CASE c[1] # "outcome"
    BY <2>1, <2>2, <2>4 DEF RootOf
  <2> QED
    BY <2>3, <2>4
<1> QED
  BY <1>8, <1>9 DEF Clean

RootAt(F, d) ==
  \A k \in Ids : F[d][k] = IF d = 0 \/ sent[k].from # Coordinator THEN "none" ELSE Level(sent[k].causes, F[d - 1])

LEMMA RootHasDepths == \E F : F[ChainMax] = RootBelow /\ \A d \in 0 .. ChainMax : RootAt(F, d)
<1> DEFINE next(F, d) == [k \in Ids |-> IF d = 0 \/ sent[k].from # Coordinator
                                       THEN "none" ELSE Level(sent[k].causes, F[d - 1])]
           Is(F, n) == F = [d \in 0 .. n |-> next(F, d)]
           D == {n \in Nat : ~\E F : Is(F, n)}
<1>1. \A F, G : next(F, 0) = next(G, 0)
  OBVIOUS
<1>2. \A F, G, d : F[d - 1] = G[d - 1] => next(F, d) = next(G, d)
  OBVIOUS
<1> HIDE DEF next
<1>3. D = {}
  <2>1. SUFFICES ASSUME D # {} PROVE FALSE
    OBVIOUS
  <2>2. PICK n \in D : \A j \in D : n <= j
    <3>1. D \in SUBSET Nat
      OBVIOUS
    <3> HIDE DEF D
    <3> QED
      BY <2>1, <3>1, LeastNatural
  <2>3. CASE n = 0
    <3>1. PICK F : F = [d \in 0 .. 0 |-> next(<<>>, 0)]
      OBVIOUS
    <3>2. \A d \in 0 .. 0 : next(<<>>, 0) = next(F, d)
      BY <1>1
    <3>3. Is(F, 0)
      BY <3>1, <3>2
    <3> QED
      BY <2>2, <2>3, <3>3
  <2>4. CASE n # 0
    <3>1. n \in Nat /\ n - 1 \in Nat /\ ~(n <= n - 1)
      BY <2>2, <2>4
    <3>2. PICK G : Is(G, n - 1)
      BY <2>2, <3>1
    <3>3. PICK F : F = [d \in 0 .. n |-> IF d = n THEN next(G, n) ELSE G[d]]
      OBVIOUS
    <3>4. F[n - 1] = G[n - 1]
      BY <3>1, <3>3
    <3>5. ASSUME NEW d \in 0 .. n PROVE F[d] = next(F, d)
      <4>1. CASE d = n
        BY <1>2, <3>1, <3>3, <3>4, <4>1
      <4>2. CASE d # n
        <5>1. d \in 0 .. (n - 1) /\ F[d] = G[d]
          BY <3>1, <3>3, <4>2
        <5>2. G[d] = next(G, d)
          BY <3>2, <5>1
        <5>3. CASE d = 0
          BY <1>1, <5>1, <5>2, <5>3
        <5>4. CASE d # 0
          <6>1. F[d - 1] = G[d - 1]
            BY <3>1, <3>3, <4>2, <5>4
          <6> QED
            BY <1>2, <5>1, <5>2, <6>1
        <5> QED
          BY <5>3, <5>4
      <4> QED
        BY <4>1, <4>2
    <3>6. Is(F, n)
      BY <3>3, <3>5
    <3> QED
      BY <2>2, <3>6
  <2> QED
    BY <2>3, <2>4
<1>4. PICK F : Is(F, ChainMax) /\ F[ChainMax] = RootBelow
  <2> DEFINE F == CHOOSE G : Is(G, ChainMax)
  <2>1. Is(F, ChainMax)
    BY <1>3, CausesAssumption
  <2>2. RootBelow = F[ChainMax]
    BY DEF RootBelow, next
  <2> QED
    BY <2>1, <2>2
<1>5. ASSUME NEW d \in 0 .. ChainMax PROVE RootAt(F, d)
  <2>1. F[d] = next(F, d)
    BY <1>4
  <2> QED
    BY <2>1 DEF next, RootAt
<1> QED
  BY <1>4, <1>5

LEMMA RootsAreClean == CausesInv => RootsClean(RootBelow)
<1> SUFFICES ASSUME CausesInv PROVE RootsClean(RootBelow)
  OBVIOUS
<1>1. PICK F : F[ChainMax] = RootBelow /\ \A d \in 0 .. ChainMax : RootAt(F, d)
  BY RootHasDepths
<1> DEFINE D == {d \in 0 .. ChainMax : ~RootsClean(F[d])}
<1>2. SUFFICES ASSUME D # {} PROVE FALSE
  BY <1>1, CausesAssumption
<1>3. PICK d \in D : \A j \in D : d <= j
  <2>1. D \in SUBSET Nat
    BY CausesAssumption
  <2> HIDE DEF D
  <2> QED
    BY <1>2, <2>1, LeastNatural
<1>4. PICK k \in Ids : F[d][k] \in {"said", "routine"} /\ ~sent[k].clean
  BY <1>3 DEF RootsClean
<1>5. F[d][k] = IF d = 0 \/ sent[k].from # Coordinator THEN "none" ELSE Level(sent[k].causes, F[d - 1])
  BY <1>1, <1>3 DEF RootAt
<1>6. d # 0 /\ sent[k].from = Coordinator /\ Level(sent[k].causes, F[d - 1]) \in {"said", "routine"}
  BY <1>4, <1>5
<1>7. RootsClean(F[d - 1])
  <2>1. d - 1 \in 0 .. ChainMax /\ ~(d <= d - 1)
    BY <1>3, <1>6, CausesAssumption
  <2> QED
    BY <1>3, <2>1
<1>8. PICK inputs : RestsOn(k, inputs)
  BY <1>4 DEF CausesInv
<1>9. AllCame(inputs, Coordinator) /\ Names(sent[k].causes, inputs) /\ (Clean(inputs) => sent[k].clean)
  BY <1>6, <1>8 DEF RestsOn
<1>10. Clean(inputs)
  BY <1>6, <1>7, <1>9, LevelIsClean
<1> QED
  BY <1>4, <1>9, <1>10

LEMMA CausesSay == CausesInv => CausesFollowed
<1> SUFFICES ASSUME CausesInv PROVE NoLaundering /\ OthersAsBefore
  BY DEF CausesFollowed
<1>1. RootsClean(RootBelow)
  BY RootsAreClean
<1>2. ASSUME NEW k \in Ids, sent[k].from = Coordinator, Resolves(sent[k].causes) PROVE sent[k].clean
  <2>1. PICK inputs : RestsOn(k, inputs)
    BY DEF CausesInv
  <2> QED
    BY <1>1, <1>2, <2>1, LevelIsClean DEF RestsOn, Resolves
<1>3. ASSUME NEW s, NEW i \in Inputs(s), NEW j \in Inputs(s), NEW causes \in AsNamed({i, j})
      PROVE  AllCame({i, j}, s) /\ Names(causes, {i, j})
  BY InputsCame, NamesThem DEF CausesInv
<1>4. ASSUME NEW s, NEW i \in Inputs(s), NEW j \in Inputs(s), NEW causes \in AsNamed({i, j}), LetsThrough(s, causes)
      PROVE  IF s = Coordinator THEN Clean({i, j}) ELSE \A k \in Sources({i, j}) : sent[k].clean
  <2>1. CASE s = Coordinator
    BY <1>1, <1>3, <1>4, <2>1, LevelIsClean DEF LetsThrough, Resolves
  <2>2. CASE s # Coordinator
    <3> SUFFICES ASSUME NEW k \in Sources({i, j}) PROVE sent[k].clean
      BY <2>2
    <3>1. Uncheckable \in OriginsOf(causes, s) \/ Sources({i, j}) \subseteq OriginsOf(causes, s)
      BY <1>3, <2>2, OriginsTell
    <3>2. OriginsOf(causes, s) = {} \/ AllResolve(OriginsOf(causes, s))
      BY <1>4, <2>2 DEF LetsThrough
    <3>3. Resolves(sent[k].causes)
      BY <3>1, <3>2 DEF AllResolve
    <3>4. k \in Ids /\ sent[k].from = Coordinator
      <4>1. PICK c \in {i, j} : k \in sent[c[2]].src /\ c[1] \in {"carry", "room", "spawned", "outcome"}
        BY SourceIs
      <4>2. c[2] \in Ids
        BY <1>3, <4>1 DEF AllCame, Came
      <4> QED
        BY <4>1, <4>2 DEF CausesInv, HopIsTrue
    <3> QED
      BY <1>2, <3>3, <3>4
  <2> QED
    BY <2>1, <2>2
<1>5. NoLaundering
  BY <1>4 DEF NoLaundering
<1>6. ASSUME NEW s \in Sessions \ {Coordinator}, Within(s) = {}, NEW i \in Inputs(s), NEW j \in Inputs(s),
             NEW causes \in AsNamed({i, j})
      PROVE  OriginsOf(causes, s) = {}
  <2>1. Apart(s)
    BY <1>6 DEF Apart, Within
  <2> QED
    BY <1>3, <1>6, <2>1, OthersAreFree
<1>7. OthersAsBefore
  BY <1>6 DEF OthersAsBefore
<1> QED
  BY <1>5, <1>7

-----------------------------------------------------------------------------
(* Causes: what is sent keeps the log true.                                *)

\* What was recorded stays as it is.
LEMMA LogGrows ==
  ASSUME CausesInv, NEW rec, sent' = Append(sent, rec)
  PROVE  /\ Len(sent) \in Nat /\ Ids' = Ids \cup {Len(sent) + 1} /\ Len(sent) + 1 \notin Ids
         /\ sent'[Len(sent) + 1] = rec /\ \A k \in Ids : sent'[k] = sent[k]
         /\ \E S : sent' \in Seq(S)
<1>1. PICK S : sent \in Seq(S)
  BY DEF CausesInv
<1>2. PICK T : T = S \cup {rec}
  OBVIOUS
<1>3. sent \in Seq(T) /\ rec \in T
  BY <1>1, <1>2
<1>4. /\ Append(sent, rec) \in Seq(T) /\ Len(Append(sent, rec)) = Len(sent) + 1 /\ Len(sent) \in Nat
      /\ Append(sent, rec)[Len(sent) + 1] = rec /\ \A k \in 1 .. Len(sent) : Append(sent, rec)[k] = sent[k]
  BY <1>3
<1> QED
  BY <1>4 DEF Ids

LEMMA OldInputs ==
  ASSUME CausesInv, NEW rec, sent' = Append(sent, rec), NEW s, NEW inputs, AllCame(inputs, s)
  PROVE  /\ AllCame(inputs, s)' /\ Clean(inputs)' = Clean(inputs) /\ Sources(inputs)' = Sources(inputs)
         /\ \A causes : Names(causes, inputs) => Names(causes, inputs)'
<1>1. \A k \in Ids : sent'[k] = sent[k] /\ k \in Ids'
  BY LogGrows
<1>2. \A c \in inputs : c[1] \in {"carry", "room", "spawned", "outcome"} => c[2] \in Ids /\ sent'[c[2]] = sent[c[2]]
  BY <1>1 DEF AllCame, Came
<1>3. AllCame(inputs, s)'
  BY <1>1, <1>2 DEF AllCame, Came
<1>4. Clean(inputs)' <=> Clean(inputs)
  BY <1>2 DEF Clean
<1>5. Sources(inputs)' = Sources(inputs)
  <2>1. \A q : q \in Sources(inputs) <=>
           \E c \in inputs : /\ q \in sent[c[2]].src
                             /\ \/ c[1] \in {"carry", "room", "spawned"} /\ sent[c[2]].kept
                                \/ c[1] = "outcome" /\ ~NamesNothing(sent[c[2]].causes)
    BY SourceIs
  <2>2. \A q : q \in Sources(inputs)' <=>
           \E c \in inputs : /\ q \in sent'[c[2]].src
                             /\ \/ c[1] \in {"carry", "room", "spawned"} /\ sent'[c[2]].kept
                                \/ c[1] = "outcome" /\ ~NamesNothing(sent'[c[2]].causes)
    BY DEF Sources, Traced
  <2> QED
    BY <1>2, <2>1, <2>2
<1>6. \A causes : Names(causes, inputs) => Names(causes, inputs)'
  BY <1>2 DEF Names
<1>7. Clean(inputs)' = Clean(inputs)
  BY <1>4 DEF Clean
<1> QED
  BY <1>3, <1>5, <1>6, <1>7

\* Whom the Coordinator touched it has touched.
LEMMA TouchedStays ==
  ASSUME CausesInv, NEW rec, sent' = Append(sent, rec), NEW s, Touched(s)
  PROVE  Touched(s)'
<1>1. \A k \in Ids : sent'[k] = sent[k] /\ k \in Ids'
  BY LogGrows
<1> QED
  BY <1>1 DEF Touched, TouchedByName, Heard, Hop, Post

LEMMA RelayKeepsCauses ==
  ASSUME CausesInv, NEW kind \in {"carry", "room", "spawned"}, NEW s, NEW to, NEW i \in Inputs(s), NEW j \in Inputs(s),
         NEW causes \in AsNamed({i, j}), NEW kept, kind = "carry" => s = Coordinator /\ kept, kind = "room" => to \in Room,
         Relayed(kind, s, to, {i, j}, causes, kept)
  PROVE  CausesInv'
<1>1. PICK inputs : inputs = {i, j}
  OBVIOUS
<1>2. PICK n : n = Len(sent) + 1
  OBVIOUS
<1>3. PICK rec : rec = [kind |-> kind, from |-> s, to |-> to,
       causes |-> IF s = Coordinator \/ kind = "spawned" THEN causes ELSE {},
       kept |-> kept, hop |-> IF kept THEN HopOf(s, causes) ELSE {},
       src |-> IF s = Coordinator THEN {n} ELSE Sources(inputs),
       clean |-> Clean(inputs)]
  OBVIOUS
<1>4. sent' = Append(sent, rec)
  BY <1>1, <1>2, <1>3 DEF Relayed
<1>5. AllCame(inputs, s) /\ Names(causes, inputs)
  BY <1>1, InputsCame, NamesThem DEF CausesInv
<1>6. /\ Ids' = Ids \cup {n} /\ n \notin Ids /\ sent'[n] = rec /\ \A k \in Ids : sent'[k] = sent[k]
      /\ \E S : sent' \in Seq(S)
  BY <1>2, <1>4, LogGrows
<1>7. /\ rec.kind = kind /\ rec.from = s /\ rec.to = to /\ rec.kept = kept
      /\ rec.hop = IF kept THEN HopOf(s, causes) ELSE {}
      /\ rec.causes = IF s = Coordinator \/ kind = "spawned" THEN causes ELSE {}
      /\ rec.src = (IF s = Coordinator THEN {n} ELSE Sources(inputs))
      /\ Clean(inputs) => rec.clean
  BY <1>3
<1>8. HopOf(s, causes) = IF s = Coordinator THEN {n} ELSE OriginsOf(causes, s)
  BY <1>2 DEF HopOf
<1>9. \A q \in Sources(inputs) : q \in Ids /\ sent[q].from = Coordinator
  <2> SUFFICES ASSUME NEW q \in Sources(inputs) PROVE q \in Ids /\ sent[q].from = Coordinator
    OBVIOUS
  <2>1. PICK c \in inputs : q \in sent[c[2]].src /\ c[1] \in {"carry", "room", "spawned", "outcome"}
    BY SourceIs
  <2>2. c[2] \in Ids
    BY <1>5, <2>1 DEF AllCame, Came
  <2> QED
    BY <2>1, <2>2 DEF CausesInv, HopIsTrue
<1>10. HopIsTrue(n)'
  <2>1. rec.kind \in {"carry", "room", "spawned"} /\ (rec.kind = "carry" => rec.from = Coordinator /\ rec.kept)
        /\ (rec.kind = "room" => rec.to \in Room)
    BY <1>7
  <2>2. rec.from = Coordinator => rec.src = {n} /\ (rec.kept => rec.hop = {n})
    BY <1>7, <1>8
  <2>3. IF rec.kept THEN Uncheckable \in rec.hop \/ rec.src \subseteq rec.hop ELSE rec.hop = {}
    <3>1. CASE s = Coordinator \/ ~kept
      BY <1>7, <2>2, <3>1
    <3>2. CASE s # Coordinator /\ kept
      <4>1. Uncheckable \in OriginsOf(causes, s) \/ Sources(inputs) \subseteq OriginsOf(causes, s)
        BY <1>5, <3>2, OriginsTell
      <4> QED
        BY <1>7, <1>8, <3>2, <4>1
    <3> QED
      BY <3>1, <3>2
  <2>4. \A q \in rec.src : q \in Ids' /\ sent'[q].from = Coordinator
    BY <1>6, <1>7, <1>9
  <2> QED
    BY <1>6, <2>1, <2>2, <2>3, <2>4 DEF HopIsTrue, Uncheckable
<1>11. RestsOn(n, inputs)'
  <2>1. AllCame(inputs, s)' /\ Clean(inputs)' = Clean(inputs) /\ Sources(inputs)' = Sources(inputs) /\ Names(causes, inputs)'
    BY <1>4, <1>5, OldInputs
  <2> QED
    BY <1>6, <1>7, <2>1 DEF RestsOn
<1>12. PassedOn(n)'
  <2>1. ASSUME s # Coordinator, Sources(inputs) # {} PROVE Touched(s)'
    <3>1. Touched(s)
      BY <1>5, <2>1, UntouchedIsFree
    <3> QED
      BY <1>4, <3>1, TouchedStays
  <2> QED
    BY <1>6, <1>7, <2>1 DEF PassedOn
<1>13. ASSUME NEW k \in Ids PROVE HopIsTrue(k)' /\ PassedOn(k)' /\ \E old : RestsOn(k, old)'
  <2>1. PICK old : HopIsTrue(k) /\ RestsOn(k, old) /\ PassedOn(k)
    BY DEF CausesInv
  <2>2. sent'[k] = sent[k]
    BY <1>6
  <2>3. HopIsTrue(k)'
    BY <1>6, <2>1, <2>2 DEF HopIsTrue, Uncheckable
  <2>4. PICK by : by = sent[k].from
    OBVIOUS
  <2>5. PICK list : list = sent[k].causes
    OBVIOUS
  <2>6. /\ AllCame(old, by)
        /\ Clean(old) => sent[k].clean
        /\ by # Coordinator => sent[k].src = Sources(old)
        /\ by = Coordinator \/ sent[k].kind = "spawned" => Names(list, old)
    BY <2>1, <2>4, <2>5 DEF RestsOn
  <2>7. /\ AllCame(old, by)' /\ Clean(old)' = Clean(old) /\ Sources(old)' = Sources(old)
        /\ Names(list, old) => Names(list, old)'
    BY <1>4, <2>6, OldInputs
  <2>8. sent'[k].from = by /\ sent'[k].causes = list
    BY <2>2, <2>4, <2>5
  <2>9. RestsOn(k, old)'
    BY <2>2, <2>6, <2>7, <2>8 DEF RestsOn
  <2>10. PassedOn(k)'
    <3>1. Touched(by) => Touched(by)'
      BY <1>4, TouchedStays
    <3> QED
      BY <2>1, <2>2, <2>4, <2>8, <3>1 DEF PassedOn
  <2> QED
    BY <2>3, <2>9, <2>10
<1>14. \A k \in Ids' : HopIsTrue(k)' /\ PassedOn(k)' /\ \E old : RestsOn(k, old)'
  BY <1>6, <1>10, <1>11, <1>12, <1>13
<1> QED
  BY <1>6, <1>14 DEF CausesInv

LEMMA CausesStart == CausesInit => CausesInv
<1> SUFFICES ASSUME CausesInit PROVE CausesInv
  OBVIOUS
<1>1. sent \in Seq({}) /\ Ids = {}
  BY DEF CausesInit, Ids
<1> QED
  BY <1>1 DEF CausesInv

LEMMA CausesGoOn == CausesInv /\ [CausesNext]_causeVars => CausesInv'
<1> SUFFICES ASSUME CausesInv, [CausesNext]_causeVars PROVE CausesInv'
  OBVIOUS
<1>1. ASSUME NEW s \in Sessions, NEW i \in Inputs(s), NEW j \in Inputs(s), NEW causes \in AsNamed({i, j})
      PROVE  /\ \A to \in Sessions : s = Coordinator /\ CarryOn(to, {i, j}, causes) => CausesInv'
             /\ \A r \in Room, kept \in BOOLEAN : PostRelay(s, r, {i, j}, causes, kept) => CausesInv'
             /\ \A child \in Spawnable, kept \in BOOLEAN : Spawn(s, child, {i, j}, causes, kept) => CausesInv'
  <2>1. ASSUME NEW to \in Sessions, s = Coordinator, CarryOn(to, {i, j}, causes) PROVE CausesInv'
    <3>1. Relayed("carry", s, to, {i, j}, causes, TRUE)
      BY <2>1 DEF CarryOn
    <3> QED
      BY <2>1, <3>1, RelayKeepsCauses
  <2>2. ASSUME NEW r \in Room, NEW kept \in BOOLEAN, PostRelay(s, r, {i, j}, causes, kept) PROVE CausesInv'
    <3>1. Relayed("room", s, r, {i, j}, causes, kept)
      BY <2>2 DEF PostRelay
    <3> QED
      BY <3>1, RelayKeepsCauses
  <2>3. ASSUME NEW child \in Spawnable, NEW kept \in BOOLEAN, Spawn(s, child, {i, j}, causes, kept)
        PROVE  CausesInv'
    <3>1. Relayed("spawned", s, child, {i, j}, causes, kept)
      BY <2>3 DEF Spawn
    <3> QED
      BY <3>1, RelayKeepsCauses
  <2> QED
    BY <2>1, <2>2, <2>3
<1>2. CASE CausesNext
  <2>1. PICK s \in Sessions : \E i, j \in Inputs(s) : \E causes \in AsNamed({i, j}) :
          \/ \E to \in Sessions : s = Coordinator /\ CarryOn(to, {i, j}, causes)
          \/ \E r \in Room, kept \in BOOLEAN : PostRelay(s, r, {i, j}, causes, kept)
          \/ \E child \in Spawnable, kept \in BOOLEAN : Spawn(s, child, {i, j}, causes, kept)
    BY <1>2 DEF CausesNext
  <2>2. PICK i \in Inputs(s), j \in Inputs(s) : \E causes \in AsNamed({i, j}) :
          \/ \E to \in Sessions : s = Coordinator /\ CarryOn(to, {i, j}, causes)
          \/ \E r \in Room, kept \in BOOLEAN : PostRelay(s, r, {i, j}, causes, kept)
          \/ \E child \in Spawnable, kept \in BOOLEAN : Spawn(s, child, {i, j}, causes, kept)
    BY <2>1
  <2>3. PICK causes \in AsNamed({i, j}) :
          \/ \E to \in Sessions : s = Coordinator /\ CarryOn(to, {i, j}, causes)
          \/ \E r \in Room, kept \in BOOLEAN : PostRelay(s, r, {i, j}, causes, kept)
          \/ \E child \in Spawnable, kept \in BOOLEAN : Spawn(s, child, {i, j}, causes, kept)
    BY <2>2
  <2>4. /\ \A to \in Sessions : s = Coordinator /\ CarryOn(to, {i, j}, causes) => CausesInv'
        /\ \A r \in Room, kept \in BOOLEAN : PostRelay(s, r, {i, j}, causes, kept) => CausesInv'
        /\ \A child \in Spawnable, kept \in BOOLEAN : Spawn(s, child, {i, j}, causes, kept) => CausesInv'
    BY <1>1
  <2> QED
    BY <2>3, <2>4
<1>3. CASE UNCHANGED causeVars
  <2>1. sent' = sent
    BY <1>3 DEF causeVars
  <2>2. Ids' = Ids /\ \A k : /\ HopIsTrue(k)' = HopIsTrue(k) /\ PassedOn(k)' = PassedOn(k)
                            /\ \A inputs : RestsOn(k, inputs)' = RestsOn(k, inputs)
    BY <2>1 DEF Ids, HopIsTrue, RestsOn, AllCame, Came, Clean, Sources, Traced, Names, NamesNothing,
                PassedOn, Touched, TouchedByName, Heard, Hop, Post
  <2> QED
    BY <2>1, <2>2 DEF CausesInv
<1> QED
  BY <1>2, <1>3

\* The Coordinator answers no ask whose words may not be the user's, as far as
\* the ask descends from it by carry-ons, recorded posts, recorded spawns and
\* outcomes, however the asking turns name or hide these, for any depth and any
\* number of hops followed; a post or a spawn that left no record leads nowhere.
\* And of a session it had no hand in nothing is held (verifyOwnAsk,
\* resolveRelayedAsk).
THEOREM AsksAreTraced == CausesInit /\ [][CausesNext]_causeVars => []CausesFollowed
BY CausesStart, CausesGoOn, CausesSay, PTL

-----------------------------------------------------------------------------
(* The parts together.                                                     *)

\* A step of one part leaves the others' tables alone.
LEMMA StepOfOne ==
    ASSUME [Next]_vars
    PROVE  /\ [ReadNext]_readVars /\ [ArchiveNext]_archiveVars /\ [MissionsNext]_missionVars
           /\ [CausesNext]_causeVars /\ [ControlNext]_controlVars /\ [UnseenNext]_unseenVars
<1>1. CASE Next
  BY <1>1 DEF Next, Only
<1>2. CASE UNCHANGED vars
  BY <1>2 DEF vars
<1> QED
  BY <1>1, <1>2

\* Every behavior of what the run explores is a behavior of each part.
THEOREM EachPartOnItsOwn ==
    Spec => /\ ReadSpec /\ ArchiveSpec /\ MissionsSpec /\ ControlSpec /\ UnseenSpec
            /\ CausesInit /\ [][CausesNext]_causeVars
<1>1. Init => ReadInit /\ ArchiveInit /\ MissionsInit /\ CausesInit /\ ControlInit /\ UnseenInit
  BY DEF Init
<1> QED
  BY <1>1, StepOfOne, PTL DEF Spec, ReadSpec, ArchiveSpec, MissionsSpec, ControlSpec, UnseenSpec

\* What was reported as read is read, and the Coordinator is told of the rest once;
\* and a conversation is archived where the app shows it archived and agrees with
\* its missions, side by side with both.
THEOREM ConversationsAreTrue == Spec => [](ReadAsTold /\ ArchiveTrue /\ MissionsAgree)
<1>1. ReadAsReported /\ NudgesAreNews => ReadAsTold
  BY DEF ReadAsTold
<1> QED
  BY <1>1, EachPartOnItsOwn, ReadStateIsTrue, NudgesTellNews, ArchiveIsTrue, MissionsStayAgreed, PTL

\* The Coordinator answers no ask that descends, by the hops the journal recorded,
\* from words that may not be the user's, and holds none of a session it had no
\* recorded hand in; and a box is given what it is asked once and who asks hears
\* of it: both at once, of which AsksServed says the one that moves.
THEOREM AsksAreServed == Spec => [](CausesFollowed /\ RequestsAnswered /\ AsksServed)
<1>1. CausesFollowed /\ RequestsAnswered => AsksServed
  BY DEF AsksServed
<1> QED
  BY <1>1, EachPartOnItsOwn, AsksAreTraced, EveryRequestAnswered, PTL

=============================================================================
