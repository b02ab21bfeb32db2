------------------------- MODULE JournalSyncProofs -------------------------
(* Theorems about JournalSync, for every value of its constants.           *)
EXTENDS JournalSync, SequenceTheorems, FiniteSetTheorems, TLAPS

-----------------------------------------------------------------------------
(* Sequences of writes.                                                    *)

LEMMA FramesMember ==
    ASSUME NEW w, NEW x
    PROVE  x \in Frames(w) <=> \E i \in DOMAIN w : x \in w[i]
BY DEF Frames

LEMMA FramesAppend ==
    ASSUME NEW w \in Seq(SUBSET Nat), NEW S \in SUBSET Nat
    PROVE  Frames(Append(w, S)) = Frames(w) \cup S
<1> DEFINE v == Append(w, S)
<1>1. /\ DOMAIN v = 1 .. Len(w) + 1
      /\ DOMAIN w = 1 .. Len(w)
      /\ Len(w) \in Nat
      /\ v[Len(w) + 1] = S
      /\ \A i \in 1 .. Len(w) : v[i] = w[i]
  OBVIOUS
<1> HIDE DEF v
<1>2. ASSUME NEW x PROVE x \in Frames(v) <=> x \in Frames(w) \/ x \in S
  <2>1. ASSUME x \in Frames(v) PROVE x \in Frames(w) \/ x \in S
    <3>1. PICK i \in DOMAIN v : x \in v[i]
      BY <2>1, FramesMember
    <3>2. CASE i = Len(w) + 1
      BY <3>1, <3>2, <1>1
    <3>3. CASE i \in 1 .. Len(w)
      BY <3>1, <3>3, <1>1, FramesMember
    <3> QED BY <3>2, <3>3, <1>1
  <2>2. ASSUME x \in Frames(w) PROVE x \in Frames(v)
    <3>1. PICK i \in DOMAIN w : x \in w[i]
      BY <2>2, FramesMember
    <3>2. i \in DOMAIN v /\ x \in v[i]
      BY <3>1, <1>1
    <3> QED BY <3>2, FramesMember
  <2>3. ASSUME x \in S PROVE x \in Frames(v)
    <3>1. Len(w) + 1 \in DOMAIN v /\ x \in v[Len(w) + 1]
      BY <2>3, <1>1
    <3> QED BY <3>1, FramesMember
  <2> QED BY <2>1, <2>2, <2>3
<1> QED BY <1>2 DEF v

LEMMA FramesRest ==
    ASSUME NEW w \in Seq(SUBSET Nat), w # <<>>
    PROVE  /\ Frames(w) = Head(w) \cup Frames(Tail(w))
           /\ \A n : Frames([w EXCEPT ![1] = @ \ {n}]) = (Head(w) \ {n}) \cup Frames(Tail(w))
<1> DEFINE t == Tail(w)
<1>1. /\ Len(w) \in Nat \ {0}
      /\ DOMAIN w = 1 .. Len(w)
      /\ DOMAIN t = 1 .. Len(w) - 1
      /\ Head(w) = w[1]
      /\ \A i \in 1 .. Len(w) - 1 : t[i] = w[i + 1]
      /\ w[1] \in SUBSET Nat
  OBVIOUS
<1>2. ASSUME NEW S, NEW v, DOMAIN v = 1 .. Len(w), v[1] = S,
             \A i \in 1 .. Len(w) - 1 : v[i + 1] = t[i]
      PROVE  Frames(v) = S \cup Frames(t)
  <2> HIDE DEF t
  <2>1. ASSUME NEW x \in Frames(v) PROVE x \in S \cup Frames(t)
    <3>1. PICK i \in DOMAIN v : x \in v[i]
      BY FramesMember
    <3>2. CASE i = 1
      BY <3>1, <3>2, <1>2
    <3>3. CASE i - 1 \in 1 .. Len(w) - 1
      <4>1. v[i] = t[i - 1]
        BY <3>3, <1>2
      <4> QED BY <4>1, <3>1, <3>3, <1>1, FramesMember
    <3> QED BY <3>2, <3>3, <1>1, <1>2
  <2>2. ASSUME NEW x \in S PROVE x \in Frames(v)
    <3>1. 1 \in DOMAIN v /\ x \in v[1]
      BY <1>1, <1>2
    <3> QED BY <3>1, FramesMember
  <2>3. ASSUME NEW x \in Frames(t) PROVE x \in Frames(v)
    <3>1. PICK i \in DOMAIN t : x \in t[i]
      BY FramesMember
    <3>2. i + 1 \in DOMAIN v /\ x \in v[i + 1]
      BY <3>1, <1>1, <1>2
    <3> QED BY <3>2, FramesMember
  <2> QED BY <2>1, <2>2, <2>3
<1>3. Frames(w) = Head(w) \cup Frames(t)
  BY <1>1, <1>2
<1>4. ASSUME NEW n PROVE Frames([w EXCEPT ![1] = @ \ {n}]) = (Head(w) \ {n}) \cup Frames(t)
  <2> DEFINE v == [w EXCEPT ![1] = @ \ {n}]
  <2>1. /\ DOMAIN v = 1 .. Len(w)
        /\ v[1] = Head(w) \ {n}
        /\ \A i \in 1 .. Len(w) - 1 : v[i + 1] = t[i]
    BY <1>1
  <2> HIDE DEF v
  <2> QED BY <2>1, <1>2
<1> QED BY <1>3, <1>4

LEMMA RestShrinks ==
    ASSUME NEW w \in Seq(SUBSET Nat), w # <<>>, NEW n
    PROVE  /\ Frames(Rest(w, n)) \subseteq Frames(w)
           /\ Frames(Rest(w, n)) = (Head(w) \ {n}) \cup Frames(Tail(w))
<1>1. /\ Frames(w) = Head(w) \cup Frames(Tail(w))
      /\ Frames([w EXCEPT ![1] = @ \ {n}]) = (Head(w) \ {n}) \cup Frames(Tail(w))
  BY FramesRest
<1>2. CASE Head(w) = {n}
  <2>1. Rest(w, n) = Tail(w)
    BY <1>2 DEF Rest
  <2> QED BY <1>1, <1>2, <2>1
<1>3. CASE Head(w) # {n}
  <2>1. Rest(w, n) = [w EXCEPT ![1] = @ \ {n}]
    BY <1>3 DEF Rest
  <2> QED BY <1>1, <2>1
<1> QED BY <1>2, <1>3

-----------------------------------------------------------------------------
(* Types.                                                                  *)

LEMMA AudienceType ==
    ASSUME NEW c \in Convos, NEW own \in [Convos -> Agents \cup {NoDevice}], NEW rows, NEW kind
    PROVE  Audience(c, own, rows) \in SUBSET Agents /\ Entitled(c, kind, own, rows) \in SUBSET Agents
BY DEF Audience, Entitled

\* What every operation that writes does to the log and the sockets.
Posting(c, kind, key, to, n) ==
    /\ c \in Convos
    /\ kind \in {"message", "meta", "card"}
    /\ key \in (Devices \X Keys) \cup {NoKey}
    /\ to \in SUBSET Agents
    /\ n \in Nat
    /\ Post(c, kind, key, to, n)

LEMMA PostingType ==
    ASSUME TypeOK, NEW c, NEW kind, NEW key, NEW to, NEW n, Posting(c, kind, key, to, n)
    PROVE  /\ log' \in Seq(Event)
           /\ Len(log') = Len(log) + n
           /\ \A i \in 1 .. Len(log) : log'[i] = log[i]
           /\ \A i \in Len(log) + 1 .. Len(log) + n :
                  log'[i] = [convo |-> c, kind |-> kind, key |-> key, to |-> to]
           /\ wire' \in [Conns -> Seq(SUBSET Nat)]
<1> DEFINE e == [convo |-> c, kind |-> kind, key |-> key, to |-> to]
           more == [i \in 1 .. n |-> e]
<1>1. e \in Event
  BY DEF Posting, Event
<1>2. n \in Nat /\ log' = log \o more /\ wire' = FanOut(to, n) /\ log \in Seq(Event)
  BY DEF Posting, Post, TypeOK
<1> HIDE DEF e
<1>3. more \in Seq(Event) /\ Len(more) = n /\ \A i \in 1 .. n : more[i] = e
  BY <1>1, <1>2
<1> HIDE DEF more
<1>4. /\ log' \in Seq(Event)
      /\ Len(log') = Len(log) + n
      /\ \A i \in 1 .. Len(log) + n : log'[i] = IF i <= Len(log) THEN log[i] ELSE more[i - Len(log)]
  BY <1>2, <1>3, ConcatProperties
<1>5. Len(log) \in Nat
  BY <1>2
<1>6. /\ \A i \in 1 .. Len(log) : log'[i] = log[i]
      /\ \A i \in Len(log) + 1 .. Len(log) + n : log'[i] = e
  BY <1>2, <1>3, <1>4, <1>5
<1>7. wire' \in [Conns -> Seq(SUBSET Nat)]
  <2> DEFINE new == Len(log) + 1 .. Len(log) + n
  <2>1. new \in SUBSET Nat
    BY <1>2, <1>5
  <2> HIDE DEF new
  <2>2. ASSUME NEW k \in Conns PROVE wire[k] \in Seq(SUBSET Nat) /\ Append(wire[k], new) \in Seq(SUBSET Nat)
    BY <2>1, AppendProperties DEF TypeOK
  <2> QED BY <1>2, <2>2 DEF FanOut, new
<1> QED BY <1>4, <1>6, <1>7 DEF e

\* An operation that writes moves the roster of the conversation and posts at
\* most one kind of event, for those entitled to it once the roster has moved,
\* under a key that is not on record; it leaves the connections and the
\* readers alone.
Posted(c) ==
    \E kind, key, to, n :
        /\ Posting(c, kind, key, to, n)
        /\ to = Entitled(c, kind, owner', row')
        /\ key # NoKey => n = 1 /\ ~Duplicate(c, key)

LEMMA PostOnceStep ==
    ASSUME TypeOK, NEW c \in Convos, NEW key \in (Devices \X Keys) \cup {NoKey}, PostOnce(c, key),
           UNCHANGED <<owner, row>>
    PROVE  Posted(c) \/ UNCHANGED <<log, wire>>
<1>1. CASE Duplicate(c, key)
  BY <1>1 DEF PostOnce
<1>2. CASE ~Duplicate(c, key)
  <2> DEFINE to == Entitled(c, "message", owner, row)
  <2>1. to \in SUBSET Agents
    BY AudienceType DEF TypeOK
  <2>2. Post(c, "message", key, to, 1)
    BY <1>2 DEF PostOnce
  <2> HIDE DEF to
  <2>3. Posting(c, "message", key, to, 1)
    BY <2>1, <2>2 DEF Posting
  <2>4. to = Entitled(c, "message", owner', row')
    BY DEF to
  <2> QED BY <1>2, <2>3, <2>4 DEF Posted
<1> QED BY <1>1, <1>2

LEMMA WriteStep ==
    ASSUME TypeOK, NEW c \in Convos, Write(c) \/ Member(c)
    PROVE  /\ Posted(c) \/ UNCHANGED <<log, wire>>
           /\ UNCHANGED <<servers, readers>>
           /\ owner' \in [Convos -> Agents \cup {NoDevice}]
           /\ row' \in [Convos -> [Agents -> RowStates]]
           /\ insiders' \in [Convos -> SUBSET Agents]
<1> USE ConvosAssumption
<1>0. /\ owner \in [Convos -> Agents \cup {NoDevice}]
      /\ row \in [Convos -> [Agents -> RowStates]]
      /\ insiders \in [Convos -> SUBSET Agents]
  BY DEF TypeOK
<1>1. ASSUME Announce(c) PROVE Posted(c) /\ UNCHANGED <<owner, row, insiders, servers, readers>>
  <2>1. Entitled(c, "message", owner, row) \in SUBSET Agents
    BY <1>0, AudienceType
  <2>2. Posting(c, "message", NoKey, Entitled(c, "message", owner, row), 1)
    BY <1>1, <2>1 DEF Announce, Posting
  <2>3. Entitled(c, "message", owner, row) = Entitled(c, "message", owner', row')
    BY <1>1 DEF Announce
  <2> QED BY <1>1, <2>2, <2>3 DEF Announce, Posted
<1>2. ASSUME NEW k \in Conns, NEW key \in Keys \cup {NoKey}, Send(k, c, key) \/ Publish(k, c, key)
      PROVE  (Posted(c) \/ UNCHANGED <<log, wire>>) /\ UNCHANGED <<owner, row, insiders, servers, readers>>
  <2>1. dev[k] \in Devices /\ PostOnce(c, Stamp(dev[k], key))
    BY <1>2 DEF Send, Publish, Devices
  <2>2. Stamp(dev[k], key) \in (Devices \X Keys) \cup {NoKey}
    BY <1>2, <2>1 DEF Stamp
  <2>3. UNCHANGED <<owner, row, insiders, servers, readers>>
    BY <1>2 DEF Send, Publish
  <2>4. Posted(c) \/ UNCHANGED <<log, wire>>
    BY <2>1, <2>2, <2>3, PostOnceStep
  <2> QED BY <2>3, <2>4
<1>3. ASSUME NEW k \in Conns, NEW n \in 0 .. 2, ConvoUpsert(k, c, n)
      PROVE  /\ Posted(c) /\ UNCHANGED <<row, servers, readers>>
             /\ owner' \in [Convos -> Agents \cup {NoDevice}]
             /\ insiders' \in [Convos -> SUBSET Agents]
  <2> DEFINE guest == owner[c] \notin {NoDevice, dev[k]} /\ row[c][dev[k]] # "none"
             own   == [owner EXCEPT ![c] = IF guest THEN @ ELSE dev[k]]
             to    == Entitled(c, "meta", own, row)
  <2>1. dev[k] \in Agents
    BY <1>3 DEF ConvoUpsert
  <2>2. own \in [Convos -> Agents \cup {NoDevice}]
    BY <1>0, <2>1
  <2>3. /\ owner' = own
        /\ insiders' = [insiders EXCEPT ![c] = @ \cup to]
        /\ Post(c, "meta", NoKey, to, n)
        /\ UNCHANGED <<row, servers, readers>>
    BY <1>3 DEF ConvoUpsert
  <2> HIDE DEF own
  <2>4. to \in SUBSET Agents /\ to = Entitled(c, "meta", owner', row')
    BY <2>2, <2>3, AudienceType
  <2> HIDE DEF to
  <2>5. Posting(c, "meta", NoKey, to, n)
    BY <2>3, <2>4 DEF Posting
  <2>6. Posted(c)
    BY <2>4, <2>5 DEF Posted
  <2>7. insiders' \in [Convos -> SUBSET Agents]
    BY <1>0, <2>3, <2>4
  <2> QED BY <2>2, <2>3, <2>6, <2>7
<1>4. ASSUME NEW k \in Conns, NEW a \in Agents, Ask(k, c, a)
      PROVE  /\ Posted(c) /\ UNCHANGED <<owner, insiders, servers, readers>>
             /\ row' \in [Convos -> [Agents -> RowStates]]
  <2>1. Posting(c, "card", NoKey, {}, 1)
    BY <1>4 DEF Ask, Posting, Entitled
  <2>2. Posted(c)
    BY <2>1 DEF Posted, Entitled
  <2>3. row' \in [Convos -> [Agents -> RowStates]]
    BY <1>0, <1>4 DEF Ask, RowStates
  <2> QED BY <1>4, <2>2, <2>3 DEF Ask
<1>5. ASSUME NEW a \in Agents, NEW approve \in BOOLEAN, NEW n \in 0 .. 1, AnswerAsk(c, a, approve, n)
      PROVE  /\ Posted(c) /\ UNCHANGED <<owner, insiders, servers, readers>>
             /\ row' \in [Convos -> [Agents -> RowStates]]
  <2>1. Posting(c, "card", NoKey, {}, n)
    BY <1>5 DEF AnswerAsk, Posting, Entitled
  <2>2. Posted(c)
    BY <2>1 DEF Posted, Entitled
  <2>3. row' \in [Convos -> [Agents -> RowStates]]
    BY <1>0, <1>5 DEF AnswerAsk, RowStates
  <2> QED BY <1>5, <2>2, <2>3 DEF AnswerAsk
<1>6. ASSUME NEW a \in Agents, Expire(c, a)
      PROVE  /\ UNCHANGED <<log, wire, owner, insiders, servers, readers>>
             /\ row' \in [Convos -> [Agents -> RowStates]]
  <2>1. row' \in [Convos -> [Agents -> RowStates]]
    BY <1>0, <1>6 DEF Expire, RowStates
  <2> QED BY <1>6, <2>1 DEF Expire
<1>7. ASSUME NEW k \in Conns, NEW a \in Agents, NEW accept \in BOOLEAN, AnswerInvite(k, c, a, accept)
      PROVE  /\ Posted(c) /\ UNCHANGED <<owner, servers, readers>>
             /\ row' \in [Convos -> [Agents -> RowStates]]
             /\ insiders' \in [Convos -> SUBSET Agents]
  <2> DEFINE rows == [row EXCEPT ![c][a] = IF accept THEN "joined" ELSE "ended"]
             to   == Entitled(c, "meta", owner, rows)
             n    == IF accept THEN 1 ELSE 0
  <2>1. rows \in [Convos -> [Agents -> RowStates]]
    BY <1>0 DEF RowStates
  <2>2. /\ row' = rows
        /\ insiders' = [insiders EXCEPT ![c] = @ \cup to]
        /\ Post(c, "meta", NoKey, to, n)
        /\ UNCHANGED <<owner, servers, readers>>
    BY <1>7 DEF AnswerInvite
  <2>3. n \in Nat
    OBVIOUS
  <2>4. to \in SUBSET Agents /\ to = Entitled(c, "meta", owner', row')
    BY <1>0, <2>2, AudienceType
  <2> HIDE DEF rows, to, n
  <2>5. Posting(c, "meta", NoKey, to, n)
    BY <2>2, <2>3, <2>4 DEF Posting
  <2>6. Posted(c)
    BY <2>4, <2>5 DEF Posted
  <2>7. insiders' \in [Convos -> SUBSET Agents]
    BY <1>0, <2>2, <2>4
  <2> QED BY <2>1, <2>2, <2>6, <2>7
<1>8. ASSUME NEW k \in Conns, Leave(k, c)
      PROVE  /\ Posted(c) /\ UNCHANGED <<owner, insiders, servers, readers>>
             /\ row' \in [Convos -> [Agents -> RowStates]]
  <2> DEFINE lives == {"awaiting_user", "invited", "joined"}
             rows  == IF owner[c] = dev[k]
                      THEN [row EXCEPT ![c] = [b \in Agents |->
                             IF @[b] \in lives THEN "ended" ELSE @[b]]]
                      ELSE [row EXCEPT ![c][dev[k]] = "ended"]
             to    == Entitled(c, "meta", owner, rows)
             n     == IF owner[c] # dev[k] \/ \E b \in Agents : row[c][b] = "joined" THEN 1 ELSE 0
  <2>1. dev[k] \in Agents
    BY <1>8 DEF Leave
  <2>2. rows \in [Convos -> [Agents -> RowStates]]
    BY <1>0, <2>1 DEF RowStates
  <2>3. /\ row' = rows
        /\ Post(c, "meta", NoKey, to, n)
        /\ UNCHANGED <<owner, insiders, servers, readers>>
    BY <1>8 DEF Leave
  <2>4. n \in Nat
    OBVIOUS
  <2>5. to \in SUBSET Agents /\ to = Entitled(c, "meta", owner', row')
    BY <1>0, <2>3, AudienceType
  <2> HIDE DEF rows, to, n
  <2>6. Posting(c, "meta", NoKey, to, n)
    BY <2>3, <2>4, <2>5 DEF Posting
  <2>7. Posted(c)
    BY <2>5, <2>6 DEF Posted
  <2> QED BY <2>2, <2>3, <2>7
<1> QED BY <1>0, <1>1, <1>2, <1>3, <1>4, <1>5, <1>6, <1>7, <1>8 DEF Write, Member

LEMMA TurnType ==
    ASSUME TypeOK, BoundsAssumption,
           NEW k \in Conns, NEW d, NEW from \in Nat,
           NEW memo \in [Convos -> {"unknown", "yes", "no"}], NEW open,
           NEW lines \in [Conns -> Seq(SUBSET Nat)],
           Turn(k, d, from, memo, open, lines)
    PROVE  /\ wire' \in [Conns -> Seq(SUBSET Nat)]
           /\ known' \in [Conns -> [Convos -> {"unknown", "yes", "no"}]]
           /\ replay' \in [Conns -> BOOLEAN]
           /\ cursor' \in [Conns -> Nat]
           /\ hub' \subseteq Conns
<1>1. Batch(from) \in SUBSET Nat
  BY DEF Batch, TypeOK
<1>2. Replayed(d, memo, Batch(from)) \in SUBSET Nat
  BY <1>1 DEF Replayed
<1>3. wire' \in [Conns -> Seq(SUBSET Nat)]
  <2> DEFINE out == Replayed(d, memo, Batch(from))
  <2>1. wire' = IF open /\ out # {} THEN [lines EXCEPT ![k] = Append(@, out)] ELSE lines
    BY DEF Turn
  <2>2. Append(lines[k], out) \in Seq(SUBSET Nat)
    BY <1>2, AppendProperties
  <2> HIDE DEF out
  <2> QED BY <2>1, <2>2
<1>4. Remember(d, memo, Batch(from)) \in [Convos -> {"unknown", "yes", "no"}]
  BY DEF Remember, Decide
<1>5. known' \in [Conns -> [Convos -> {"unknown", "yes", "no"}]]
  BY <1>4 DEF Turn, TypeOK
<1>6. CASE Len(log) - from >= BatchSize
  <2>1. /\ replay' = [replay EXCEPT ![k] = TRUE]
        /\ cursor' = [cursor EXCEPT ![k] = from + BatchSize]
        /\ hub' = hub
    BY <1>6 DEF Turn
  <2>2. from + BatchSize \in Nat
    BY DEF BoundsAssumption
  <2> QED BY <1>3, <1>5, <2>1, <2>2 DEF TypeOK
<1>7. CASE ~(Len(log) - from >= BatchSize)
  <2>1. /\ replay' = [replay EXCEPT ![k] = FALSE]
        /\ cursor' = [cursor EXCEPT ![k] = 0]
        /\ hub' = hub \cup {k}
    BY <1>7 DEF Turn
  <2> QED BY <1>3, <1>5, <2>1 DEF TypeOK
<1> QED BY <1>6, <1>7

LEMMA AbandonedType ==
    ASSUME TypeOK, NEW d \in Devices
    PROVE  /\ Abandoned(d) \in [Conns -> Seq(SUBSET Nat)]
           /\ \A k \in Conns : Abandoned(d)[k] = IF cur[d] = k THEN <<>> ELSE wire[k]
BY ConnsAssumption DEF Abandoned, TypeOK

LEMMA ReceiveType ==
    ASSUME TypeOK, NEW d \in Devices, Receive(d)
    PROVE  /\ pos' \in [Devices -> Nat]
           /\ wire' \in [Conns -> Seq(SUBSET Nat)]
<1> DEFINE k == cur[d]
           w == wire[k]
<1>1. k \in Conns /\ w \in Seq(SUBSET Nat) /\ w # <<>>
  BY ConnsAssumption DEF Receive, TypeOK
<1>2. PICK n \in Head(w) :
        /\ pos' = [pos EXCEPT ![d] = n]
        /\ wire' = [wire EXCEPT ![k] = Rest(w, n)]
  BY DEF Receive
<1> HIDE DEF k, w
<1>3. Head(w) \in SUBSET Nat /\ Tail(w) \in Seq(SUBSET Nat) /\ Head(w) = w[1] /\ 1 \in 1 .. Len(w)
  BY <1>1, HeadTailProperties
<1>4. [w EXCEPT ![1] = @ \ {n}] \in Seq(SUBSET Nat)
  <2>1. w[1] \ {n} \in SUBSET Nat
    BY <1>3
  <2> QED BY <1>1, <1>3, <2>1, ExceptSeq
<1>5. Rest(w, n) \in Seq(SUBSET Nat) /\ n \in Nat
  BY <1>3, <1>4 DEF Rest
<1> QED BY <1>1, <1>2, <1>5 DEF TypeOK

LEMMA TypeStep == TypeOK /\ [Next]_vars => TypeOK'
<1> SUFFICES ASSUME TypeOK, [Next]_vars PROVE TypeOK'
  OBVIOUS
<1> USE ConnsAssumption, BoundsAssumption
<1>1. ASSUME NEW c \in Convos, Write(c) \/ Member(c) PROVE TypeOK'
  <2>1. /\ UNCHANGED <<servers, readers>>
        /\ owner' \in [Convos -> Agents \cup {NoDevice}]
        /\ row' \in [Convos -> [Agents -> RowStates]]
        /\ insiders' \in [Convos -> SUBSET Agents]
    BY <1>1, WriteStep
  <2>2. log' \in Seq(Event) /\ wire' \in [Conns -> Seq(SUBSET Nat)]
    <3>1. CASE Posted(c)
      <4>1. PICK kind, key, to, n : Posting(c, kind, key, to, n)
        BY <3>1 DEF Posted
      <4> QED BY <4>1, PostingType
    <3>2. CASE UNCHANGED <<log, wire>>
      BY <3>2 DEF TypeOK
    <3> QED BY <1>1, <3>1, <3>2, WriteStep
  <2> QED BY <2>1, <2>2 DEF TypeOK, servers, readers
<1>2. ASSUME NEW d \in Devices, NEW k \in Conns, Attach(d, k) PROVE TypeOK'
  <2> USE AbandonedType
  <2>1. ASSUME NEW m \in HelloMax, HelloRefused(d, k, m) PROVE TypeOK'
    BY <2>1 DEF HelloRefused, Connect, Reads, TypeOK, data
  <2>2. ASSUME NEW m \in HelloMax, Hello(d, k, m) PROVE TypeOK'
    <3>1. pos[d] \in Nat /\ Undecided \in [Convos -> {"unknown", "yes", "no"}]
      BY DEF TypeOK, Undecided
    <3>2. Turn(k, d, pos[d], Undecided, TRUE, Abandoned(d))
      BY <2>2 DEF Hello
    <3>3. /\ wire' \in [Conns -> Seq(SUBSET Nat)]
          /\ known' \in [Conns -> [Convos -> {"unknown", "yes", "no"}]]
          /\ replay' \in [Conns -> BOOLEAN]
          /\ cursor' \in [Conns -> Nat]
          /\ hub' \subseteq Conns
      BY <3>1, <3>2, TurnType
    <3> QED BY <2>2, <3>3 DEF Hello, Connect, Reads, TypeOK, data
  <2>3. ASSUME HelloFresh(d, k) PROVE TypeOK'
    <3>1. Len(log) \in Nat
      BY DEF TypeOK
    <3> QED BY <2>3, <3>1 DEF HelloFresh, Connect, Reads, TypeOK, data
  <2> QED BY <1>2, <2>1, <2>2, <2>3 DEF Attach
<1>3. ASSUME NEW k \in Conns, ReplayStep(k) PROVE TypeOK'
  <2>1. CASE sock[k] = "closed"
    <3>1. /\ replay' = [replay EXCEPT ![k] = FALSE]
          /\ cursor' = [cursor EXCEPT ![k] = 0]
          /\ UNCHANGED <<hub, known, wire, data, sock, dev, readers>>
      BY <1>3, <2>1 DEF ReplayStep
    <3> QED BY <3>1 DEF TypeOK, data, readers
  <2>2. CASE sock[k] # "closed"
    <3>1. Turn(k, dev[k], cursor[k], known[k], sock[k] = "open" /\ Read(k), wire)
      BY <1>3, <2>2 DEF ReplayStep
    <3>2. /\ cursor[k] \in Nat
          /\ known[k] \in [Convos -> {"unknown", "yes", "no"}]
          /\ wire \in [Conns -> Seq(SUBSET Nat)]
      BY DEF TypeOK
    <3>3. /\ wire' \in [Conns -> Seq(SUBSET Nat)]
          /\ known' \in [Conns -> [Convos -> {"unknown", "yes", "no"}]]
          /\ replay' \in [Conns -> BOOLEAN]
          /\ cursor' \in [Conns -> Nat]
          /\ hub' \subseteq Conns
      BY <3>1, <3>2, TurnType
    <3> QED BY <1>3, <3>3 DEF ReplayStep, TypeOK, data, readers
  <2> QED BY <2>1, <2>2
<1>4. ASSUME NEW k \in Conns, Terminate(k) PROVE TypeOK'
  BY <1>4 DEF Terminate, TypeOK, data, readers
<1>5. ASSUME NEW k \in Conns, Closed(k) PROVE TypeOK'
  BY <1>5 DEF Closed, TypeOK, data, readers, Undecided
<1>6. ASSUME Restart PROVE TypeOK'
  BY <1>6 DEF Restart, TypeOK, data, readers, Undecided
<1>7. ASSUME NEW d \in Devices, Receive(d) PROVE TypeOK'
  BY <1>7, ReceiveType DEF Receive, TypeOK, data, servers
<1>8. ASSUME NEW d \in Devices, Drop(d) PROVE TypeOK'
  BY <1>8, AbandonedType DEF Drop, Reads, TypeOK, data, servers
<1>9. ASSUME NEW d \in Devices, Snapshot(d) PROVE TypeOK'
  <2>1. Len(log) \in Nat
    BY DEF TypeOK
  <2> QED BY <1>9, <2>1 DEF Snapshot, TypeOK, data, servers
<1>10. CASE UNCHANGED vars
  BY <1>10 DEF vars, data, servers, readers, TypeOK
<1> QED
  BY <1>1, <1>2, <1>3, <1>4, <1>5, <1>6, <1>7, <1>8, <1>9, <1>10 DEF Next

\* Every variable keeps its type: in particular the hub never holds anything
\* but sockets and an event's audience is never more than the user's agents.
THEOREM TypeCorrect == Spec => []TypeOK
<1>1. Init => TypeOK
  <2>1. ASSUME Init PROVE TypeOK
    <3>1. log \in Seq(Event) /\ wire \in [Conns -> Seq(SUBSET Nat)]
      BY <2>1 DEF Init
    <3>2. owner \in [Convos -> Agents \cup {NoDevice}]
      BY <2>1, ConvosAssumption DEF Init
    <3>3. \A c \in Convos : Audience(c, FirstOwner, [x \in Convos |-> [a \in Agents |-> "none"]]) \in SUBSET Agents
      BY AudienceType, ConvosAssumption
    <3>4. insiders \in [Convos -> SUBSET Agents]
      BY <2>1, <3>3 DEF Init
    <3> QED BY <2>1, <3>1, <3>2, <3>4 DEF Init, TypeOK, RowStates, Undecided
  <2> QED BY <2>1
<1> QED BY <1>1, TypeStep, PTL DEF Spec

-----------------------------------------------------------------------------
(* Sockets: the server's view and the readers' never contradict each other. *)

Sockets ==
    /\ \A k \in Conns :
        /\ k \in hub => sock[k] \in {"open", "closing"}
        /\ replay[k] => sock[k] # "unused" /\ k \notin hub
        /\ sock[k] = "unused" => wire[k] = <<>> /\ dev[k] = NoDevice
    /\ \A d \in Devices : cur[d] # NoConn =>
        /\ sock[cur[d]] # "unused"
        /\ dev[cur[d]] \in {d, NoDevice}
        /\ sock[cur[d]] \in {"open", "closing"} => dev[cur[d]] = d
        /\ \A e \in Devices : cur[e] = cur[d] => e = d

\* A socket either gets nothing from an operation, or the new interval.
LEMMA PostingWire ==
    ASSUME TypeOK, NEW c, NEW kind, NEW key, NEW to, NEW n, Posting(c, kind, key, to, n), NEW k \in Conns
    PROVE  \/ wire'[k] = wire[k] /\ (n > 0 /\ Live(k) /\ Read(k) => dev[k] \notin Clients \cup to)
           \/ /\ n > 0 /\ Live(k) /\ Read(k) /\ dev[k] \in Clients \cup to
              /\ wire'[k] = Append(wire[k], Len(log) + 1 .. Len(log) + n)
BY DEF Posting, Post, FanOut

\* The two outcomes of a turn.
LEMMA TurnOutcome ==
    ASSUME TypeOK, NEW k \in Conns, NEW d, NEW from, NEW memo, NEW open,
           NEW lines \in [Conns -> Seq(SUBSET Nat)],
           Turn(k, d, from, memo, open, lines)
    PROVE  /\ \/ hub' = hub /\ replay' = [replay EXCEPT ![k] = TRUE]
              \/ hub' = hub \cup {k} /\ replay' = [replay EXCEPT ![k] = FALSE]
           /\ \A j \in Conns : j # k => wire'[j] = lines[j]
           /\ wire'[k] = IF open /\ Replayed(d, memo, Batch(from)) # {}
                         THEN Append(lines[k], Replayed(d, memo, Batch(from)))
                         ELSE lines[k]
<1>1. \/ hub' = hub /\ replay' = [replay EXCEPT ![k] = TRUE]
      \/ hub' = hub \cup {k} /\ replay' = [replay EXCEPT ![k] = FALSE]
  BY DEF Turn
<1> DEFINE out == Replayed(d, memo, Batch(from))
<1>2. wire' = IF open /\ out # {} THEN [lines EXCEPT ![k] = Append(@, out)] ELSE lines
  BY DEF Turn
<1> HIDE DEF out
<1>3. /\ \A j \in Conns : j # k => wire'[j] = lines[j]
      /\ wire'[k] = IF open /\ out # {} THEN Append(lines[k], out) ELSE lines[k]
  BY <1>2
<1> QED BY <1>1, <1>3 DEF out

LEMMA SocketsStep == TypeOK /\ Sockets /\ [Next]_vars => Sockets'
<1> SUFFICES ASSUME TypeOK, Sockets, [Next]_vars PROVE Sockets'
  OBVIOUS
<1> USE ConnsAssumption, DevicesAssumption
<1>1. ASSUME NEW c \in Convos, Write(c) \/ Member(c) PROVE Sockets'
  <2>1. UNCHANGED <<servers, readers>>
    BY <1>1, WriteStep
  <2>2. ASSUME NEW k \in Conns, sock[k] = "unused" PROVE wire'[k] = wire[k]
    <3>1. CASE Posted(c)
      <4>1. PICK kind, key, to, n : Posting(c, kind, key, to, n)
        BY <3>1 DEF Posted
      <4> QED BY <2>2, <4>1, PostingWire DEF Live
    <3> QED BY <1>1, <3>1, WriteStep
  <2> QED BY <2>1, <2>2 DEF Sockets, servers, readers
<1>2. ASSUME NEW d \in Devices, NEW k \in Conns, Attach(d, k) PROVE Sockets'
  <2>0. /\ Abandoned(d) \in [Conns -> Seq(SUBSET Nat)]
        /\ \A j \in Conns : wire[j] = <<>> => Abandoned(d)[j] = <<>>
    BY AbandonedType
  <2>1. ASSUME NEW m \in HelloMax, HelloRefused(d, k, m) PROVE Sockets'
    <3>1. /\ sock[k] = "unused" /\ dev' = [dev EXCEPT ![k] = d]
          /\ sock' = [sock EXCEPT ![k] = "closing"]
          /\ cur' = [cur EXCEPT ![d] = NoConn] /\ wire' = Abandoned(d)
          /\ UNCHANGED <<hub, replay>>
      BY <2>1 DEF HelloRefused, Connect, Reads
    <3>2. \A j \in Conns :
             /\ j \in hub' => sock'[j] \in {"open", "closing"}
             /\ replay'[j] => sock'[j] # "unused" /\ j \notin hub'
             /\ sock'[j] = "unused" => wire'[j] = <<>> /\ dev'[j] = NoDevice
      BY <2>0, <3>1 DEF Sockets, TypeOK
    <3>3. \A e \in Devices : cur'[e] # NoConn => cur'[e] = cur[e] /\ e # d /\ cur[e] # k
      BY <3>1 DEF Sockets, TypeOK
    <3>4. \A e \in Devices : cur'[e] # NoConn =>
             /\ sock'[cur'[e]] # "unused"
             /\ dev'[cur'[e]] \in {e, NoDevice}
             /\ sock'[cur'[e]] \in {"open", "closing"} => dev'[cur'[e]] = e
             /\ \A f \in Devices : cur'[f] = cur'[e] => f = e
      BY <3>1, <3>3 DEF Sockets, TypeOK
    <3> QED BY <3>2, <3>4 DEF Sockets
  <2>2. ASSUME NEW m \in HelloMax, Hello(d, k, m) PROVE Sockets'
    <3>1. /\ sock[k] = "unused" /\ dev' = [dev EXCEPT ![k] = d]
          /\ sock' = [sock EXCEPT ![k] = "open"]
          /\ cur' = [cur EXCEPT ![d] = k]
          /\ Turn(k, d, pos[d], Undecided, TRUE, Abandoned(d))
      BY <2>2 DEF Hello, Connect, Reads
    <3>2. /\ \/ hub' = hub /\ replay' = [replay EXCEPT ![k] = TRUE]
             \/ hub' = hub \cup {k} /\ replay' = [replay EXCEPT ![k] = FALSE]
          /\ \A j \in Conns : j # k => wire'[j] = Abandoned(d)[j]
      <4> DEFINE left == Abandoned(d)
                 from == pos[d]
                 memo == Undecided
                 open == TRUE
      <4>1. left \in [Conns -> Seq(SUBSET Nat)] /\ Turn(k, d, from, memo, open, left)
        BY <2>0, <3>1
      <4> HIDE DEF left, from, memo, open
      <4>2. /\ \/ hub' = hub /\ replay' = [replay EXCEPT ![k] = TRUE]
               \/ hub' = hub \cup {k} /\ replay' = [replay EXCEPT ![k] = FALSE]
            /\ \A j \in Conns : j # k => wire'[j] = left[j]
        BY <4>1, TurnOutcome
      <4> QED BY <4>2 DEF left
    <3> QED BY <2>0, <3>1, <3>2 DEF Sockets, TypeOK
  <2>3. ASSUME HelloFresh(d, k) PROVE Sockets'
    <3>1. /\ sock[k] = "unused" /\ dev' = [dev EXCEPT ![k] = d]
          /\ sock' = [sock EXCEPT ![k] = "open"]
          /\ cur' = [cur EXCEPT ![d] = k] /\ wire' = Abandoned(d)
          /\ hub' = hub \cup {k} /\ UNCHANGED replay
      BY <2>3 DEF HelloFresh, Connect, Reads
    <3> QED BY <2>0, <3>1 DEF Sockets, TypeOK
  <2> QED BY <1>2, <2>1, <2>2, <2>3 DEF Attach
<1>3. ASSUME NEW k \in Conns, ReplayStep(k) PROVE Sockets'
  <2>0. replay[k] /\ UNCHANGED <<sock, dev, readers>>
    BY <1>3 DEF ReplayStep
  <2>1. CASE sock[k] = "closed"
    <3>1. replay' = [replay EXCEPT ![k] = FALSE] /\ UNCHANGED <<hub, wire>>
      BY <1>3, <2>1 DEF ReplayStep
    <3> QED BY <2>0, <3>1 DEF Sockets, TypeOK, readers
  <2>2. CASE sock[k] # "closed"
    <3>1. Turn(k, dev[k], cursor[k], known[k], sock[k] = "open" /\ Read(k), wire)
      BY <1>3, <2>2 DEF ReplayStep
    <3>2. /\ \/ hub' = hub /\ replay' = [replay EXCEPT ![k] = TRUE]
             \/ hub' = hub \cup {k} /\ replay' = [replay EXCEPT ![k] = FALSE]
          /\ \A j \in Conns : j # k => wire'[j] = wire[j]
      <4>1. wire \in [Conns -> Seq(SUBSET Nat)]
        BY DEF TypeOK
      <4> QED BY <3>1, <4>1, TurnOutcome
    <3> QED BY <2>0, <2>2, <3>2 DEF Sockets, TypeOK, readers
  <2> QED BY <2>1, <2>2
<1>4. ASSUME NEW k \in Conns, Terminate(k) PROVE Sockets'
  BY <1>4 DEF Terminate, Sockets, TypeOK, readers
<1>5. ASSUME NEW k \in Conns, Closed(k) PROVE Sockets'
  BY <1>5 DEF Closed, Sockets, TypeOK, readers
<1>6. ASSUME Restart PROVE Sockets'
  BY <1>6 DEF Restart, Sockets, TypeOK, readers
<1>7. ASSUME NEW d \in Devices, Receive(d) PROVE Sockets'
  <2>1. PICK n : wire' = [wire EXCEPT ![cur[d]] = Rest(@, n)]
    BY <1>7 DEF Receive
  <2>2. cur[d] # NoConn /\ UNCHANGED <<servers, cur>>
    BY <1>7 DEF Receive
  <2> QED BY <2>1, <2>2 DEF Sockets, TypeOK, servers
<1>8. ASSUME NEW d \in Devices, Drop(d) PROVE Sockets'
  <2>1. wire' = Abandoned(d) /\ cur' = [cur EXCEPT ![d] = NoConn] /\ UNCHANGED servers
    BY <1>8 DEF Drop, Reads
  <2> QED BY <2>1, AbandonedType DEF Sockets, TypeOK, servers
<1>9. ASSUME NEW d \in Devices, Snapshot(d) PROVE Sockets'
  BY <1>9 DEF Snapshot, Sockets, servers
<1>10. CASE UNCHANGED vars
  BY <1>10 DEF vars, data, servers, readers, Sockets
<1> QED
  BY <1>1, <1>2, <1>3, <1>4, <1>5, <1>6, <1>7, <1>8, <1>9, <1>10 DEF Next

THEOREM SocketsAgree == Spec => [](TypeOK /\ Sockets)
<1>1. Init => Sockets
  BY DEF Init, Sockets
<1>2. Spec => []TypeOK
  BY TypeCorrect
<1> QED BY <1>1, <1>2, SocketsStep, PTL DEF Spec

\* The hub never holds a socket whose 'close' event has run, whatever number
\* of sockets, replays suspended at their await and restarts there are: the
\* check of conn.closed after every await of the loop is enough.
THEOREM HubIsAlive == Spec => []NoDeadRegistration
<1>1. TypeOK /\ Sockets => NoDeadRegistration
  BY DEF Sockets, NoDeadRegistration, TypeOK
<1> QED BY <1>1, SocketsAgree, PTL

-----------------------------------------------------------------------------
(* What is in the log, and what is on its way.                             *)

LEMMA LogOnlyByWrites ==
    [Next]_vars => UNCHANGED data \/ \E c \in Convos : Write(c) \/ Member(c)
<1> SUFFICES ASSUME Next, ~\E c \in Convos : Write(c) \/ Member(c) PROVE UNCHANGED data
  BY DEF vars
<1>1. ASSUME NEW d \in Devices, NEW k \in Conns, Attach(d, k) PROVE UNCHANGED data
  BY <1>1 DEF Attach, HelloRefused, Hello, HelloFresh
<1>2. ASSUME NEW k \in Conns, ReplayStep(k) \/ Terminate(k) \/ Closed(k) PROVE UNCHANGED data
  BY <1>2 DEF ReplayStep, Terminate, Closed
<1>3. ASSUME NEW d \in Devices, Receive(d) \/ Drop(d) \/ Snapshot(d) PROVE UNCHANGED data
  BY <1>3 DEF Receive, Drop, Snapshot
<1> QED BY <1>1, <1>2, <1>3 DEF Next, Restart

LEMMA UniqueStep == TypeOK /\ UniqueKeys /\ [Next]_vars => UniqueKeys'
<1> SUFFICES ASSUME TypeOK, UniqueKeys, [Next]_vars PROVE UniqueKeys'
  OBVIOUS
<1>1. CASE UNCHANGED log
  BY <1>1 DEF UniqueKeys
<1>2. ASSUME NEW c \in Convos, Posted(c) PROVE UniqueKeys'
  <2>1. PICK kind, key, to, n :
          /\ Posting(c, kind, key, to, n)
          /\ key # NoKey => n = 1 /\ ~Duplicate(c, key)
    BY <1>2 DEF Posted
  <2>2. /\ n \in Nat /\ Len(log) \in Nat
        /\ DOMAIN log = 1 .. Len(log)
        /\ DOMAIN log' = 1 .. Len(log) + n
        /\ \A i \in 1 .. Len(log) : log'[i] = log[i]
        /\ \A i \in Len(log) + 1 .. Len(log) + n : log'[i].convo = c /\ log'[i].key = key
    <3>1. /\ log' \in Seq(Event)
          /\ Len(log') = Len(log) + n
          /\ \A i \in 1 .. Len(log) : log'[i] = log[i]
          /\ \A i \in Len(log) + 1 .. Len(log) + n :
                 log'[i] = [convo |-> c, kind |-> kind, key |-> key, to |-> to]
      BY <2>1, PostingType
    <3>2. n \in Nat /\ log \in Seq(Event)
      BY <2>1 DEF Posting, TypeOK
    <3> QED BY <3>1, <3>2
  <2>3. ASSUME NEW i \in 1 .. Len(log) + n, NEW j \in Len(log) + 1 .. Len(log) + n,
               i # j, log'[j].key # NoKey
        PROVE  <<log'[i].convo, log'[i].key>> # <<log'[j].convo, log'[j].key>>
    <3>1. key # NoKey /\ n = 1
      BY <2>1, <2>2, <2>3
    <3>2. i \in 1 .. Len(log)
      BY <2>2, <2>3, <3>1
    <3>3. ~(log[i].convo = c /\ log[i].key = key)
      BY <2>1, <2>2, <3>1, <3>2 DEF Duplicate
    <3> QED BY <2>2, <2>3, <3>2, <3>3
  <2>4. ASSUME NEW i \in 1 .. Len(log), NEW j \in 1 .. Len(log), i # j, log'[i].key # NoKey
        PROVE  <<log'[i].convo, log'[i].key>> # <<log'[j].convo, log'[j].key>>
    BY <2>2, <2>4 DEF UniqueKeys
  <2>5. ASSUME NEW i \in 1 .. Len(log) + n, NEW j \in 1 .. Len(log) + n, i # j, log'[i].key # NoKey
        PROVE  <<log'[i].convo, log'[i].key>> # <<log'[j].convo, log'[j].key>>
    <3>1. CASE i \in 1 .. Len(log) /\ j \in 1 .. Len(log)
      BY <2>4, <2>5, <3>1
    <3>2. CASE j \in Len(log) + 1 .. Len(log) + n
      BY <2>3, <2>5, <3>2
    <3>3. CASE i \in Len(log) + 1 .. Len(log) + n
      BY <2>3, <2>5, <3>3
    <3> QED BY <2>2, <3>1, <3>2, <3>3
  <2> QED BY <2>2, <2>5 DEF UniqueKeys
<1> QED BY <1>1, <1>2, WriteStep, LogOnlyByWrites DEF data

\* A key is in the log of a conversation at most once, however often and over
\* whatever sockets a device repeats its send.
THEOREM KeysUnique == Spec => []UniqueKeys
<1>1. Init => UniqueKeys
  BY DEF Init, UniqueKeys
<1>2. Spec => []TypeOK
  BY TypeCorrect
<1> QED BY <1>1, <1>2, UniqueStep, PTL DEF Spec

\* Whoever may see a conversation now, or was told yes by a running replay,
\* is on its roster of insiders.
Inside ==
    /\ \A c \in Convos : Audience(c, owner, row) \subseteq insiders[c]
    /\ \A k \in Conns, c \in Convos :
           known[k][c] = "yes" /\ dev[k] \in Agents => dev[k] \in insiders[c]
    /\ \A k \in Conns : sock[k] = "unused" => known[k] = Undecided

\* What is on its way to an agent is in the log, is no card, and belongs to a
\* conversation it is an insider of.
Flight ==
    \A d \in Agents : cur[d] # NoConn =>
        \A n \in InFlight(cur[d]) :
            /\ n \in 1 .. Len(log)
            /\ log[n].kind # "card"
            /\ d \in insiders[log[n].convo]

LEMMA RosterStep ==
    ASSUME TypeOK, Inside, NEW c \in Convos, Write(c) \/ Member(c)
    PROVE  \A x \in Convos : /\ insiders[x] \subseteq insiders'[x]
                             /\ Audience(x, owner', row') \subseteq insiders'[x]
<1>0. /\ owner \in [Convos -> Agents \cup {NoDevice}]
      /\ row \in [Convos -> [Agents -> RowStates]]
      /\ insiders \in [Convos -> SUBSET Agents]
      /\ \A x \in Convos : Audience(x, owner, row) \subseteq insiders[x]
  BY DEF TypeOK, Inside
<1>1. CASE UNCHANGED <<owner, row, insiders>>
  BY <1>0, <1>1
<1>2. ASSUME UNCHANGED <<owner, insiders>>,
             \A x \in Convos, b \in Agents : row'[x][b] = "joined" => row[x][b] = "joined"
      PROVE  \A x \in Convos : /\ insiders[x] \subseteq insiders'[x]
                               /\ Audience(x, owner', row') \subseteq insiders'[x]
  BY <1>0, <1>2 DEF Audience
<1>3. ASSUME NEW k \in Conns, NEW n \in 0 .. 2, ConvoUpsert(k, c, n)
      PROVE  \A x \in Convos : /\ insiders[x] \subseteq insiders'[x]
                               /\ Audience(x, owner', row') \subseteq insiders'[x]
  <2>1. PICK own : /\ owner' = [owner EXCEPT ![c] = own]
                   /\ row' = row
                   /\ insiders' = [insiders EXCEPT ![c] = @ \cup Entitled(c, "meta", owner', row')]
    BY <1>3 DEF ConvoUpsert
  <2>2. Audience(c, owner', row') \subseteq insiders'[c] /\ insiders[c] \subseteq insiders'[c]
    BY <1>0, <2>1 DEF Entitled
  <2>3. ASSUME NEW x \in Convos, x # c
        PROVE  insiders'[x] = insiders[x] /\ Audience(x, owner', row') = Audience(x, owner, row)
    BY <1>0, <2>1, <2>3 DEF Audience
  <2> QED BY <1>0, <2>2, <2>3
<1>4. ASSUME NEW k \in Conns, NEW a \in Agents, NEW accept \in BOOLEAN, AnswerInvite(k, c, a, accept)
      PROVE  \A x \in Convos : /\ insiders[x] \subseteq insiders'[x]
                               /\ Audience(x, owner', row') \subseteq insiders'[x]
  <2>1. PICK state : /\ owner' = owner
                     /\ row' = [row EXCEPT ![c][a] = state]
                     /\ insiders' = [insiders EXCEPT ![c] = @ \cup Entitled(c, "meta", owner', row')]
    BY <1>4 DEF AnswerInvite
  <2>2. Audience(c, owner', row') \subseteq insiders'[c] /\ insiders[c] \subseteq insiders'[c]
    BY <1>0, <2>1 DEF Entitled
  <2>3. ASSUME NEW x \in Convos, x # c
        PROVE  insiders'[x] = insiders[x] /\ Audience(x, owner', row') = Audience(x, owner, row)
    BY <1>0, <2>1, <2>3 DEF Audience
  <2> QED BY <1>0, <2>2, <2>3
<1>5. ASSUME NEW k \in Conns, Leave(k, c)
      PROVE  /\ UNCHANGED <<owner, insiders>>
             /\ \A x \in Convos, b \in Agents : row'[x][b] = "joined" => row[x][b] = "joined"
  <2> DEFINE lives == {"awaiting_user", "invited", "joined"}
  <2>1. UNCHANGED <<owner, insiders>> /\ dev[k] \in Agents
    BY <1>5 DEF Leave
  <2>2. CASE owner[c] = dev[k]
    <3>1. row' = [row EXCEPT ![c] = [b \in Agents |-> IF @[b] \in lives THEN "ended" ELSE @[b]]]
      BY <1>5, <2>2 DEF Leave
    <3>2. \A b \in Agents : row'[c][b] = IF row[c][b] \in lives THEN "ended" ELSE row[c][b]
      BY <1>0, <3>1
    <3>3. \A x \in Convos : x # c => row'[x] = row[x]
      BY <1>0, <3>1
    <3> QED BY <2>1, <3>2, <3>3
  <2>3. CASE owner[c] # dev[k]
    <3>1. row' = [row EXCEPT ![c][dev[k]] = "ended"]
      BY <1>5, <2>3 DEF Leave
    <3> QED BY <1>0, <2>1, <3>1
  <2> QED BY <2>2, <2>3
<1>6. ASSUME NEW a \in Agents, NEW k \in Conns, Ask(k, c, a)
      PROVE  /\ UNCHANGED <<owner, insiders>>
             /\ \A x \in Convos, b \in Agents : row'[x][b] = "joined" => row[x][b] = "joined"
  BY <1>0, <1>6 DEF Ask
<1>7. ASSUME NEW a \in Agents, NEW approve \in BOOLEAN, NEW n \in 0 .. 1,
             AnswerAsk(c, a, approve, n)
      PROVE  /\ UNCHANGED <<owner, insiders>>
             /\ \A x \in Convos, b \in Agents : row'[x][b] = "joined" => row[x][b] = "joined"
  BY <1>0, <1>7 DEF AnswerAsk
<1>8. ASSUME NEW k \in Conns, NEW key \in Keys \cup {NoKey}, Send(k, c, key) \/ Publish(k, c, key)
      PROVE  UNCHANGED <<owner, row, insiders>>
  BY <1>8 DEF Send, Publish
<1>9. Announce(c) => UNCHANGED <<owner, row, insiders>>
  BY DEF Announce
<1>10. ASSUME NEW a \in Agents, Expire(c, a)
      PROVE  /\ UNCHANGED <<owner, insiders>>
             /\ \A x \in Convos, b \in Agents : row'[x][b] = "joined" => row[x][b] = "joined"
  BY <1>0, <1>10 DEF Expire
<1> QED
  BY <1>1, <1>2, <1>3, <1>4, <1>5, <1>6, <1>7, <1>8, <1>9, <1>10 DEF Write, Member

LEMMA LogConvos == TypeOK => \A n \in 1 .. Len(log) : log[n].convo \in Convos
<1> SUFFICES ASSUME TypeOK, NEW n \in 1 .. Len(log) PROVE log[n].convo \in Convos
  OBVIOUS
<1>1. log \in Seq(Event)
  BY DEF TypeOK
<1>2. log[n] \in Event
  BY <1>1, ElementOfSeq
<1> QED BY <1>2 DEF Event

\* What a replay sends to an agent, and what it remembers of its decisions.
LEMMA ReplayedToAgent ==
    ASSUME TypeOK, DevicesAssumption, NEW d \in Agents, NEW from \in Nat,
           NEW memo \in [Convos -> {"unknown", "yes", "no"}],
           \A c \in Convos : Audience(c, owner, row) \subseteq insiders[c],
           \A c \in Convos : memo[c] = "yes" => d \in insiders[c]
    PROVE  /\ \A n \in Replayed(d, memo, Batch(from)) :
                  /\ n \in 1 .. Len(log)
                  /\ log[n].kind # "card"
                  /\ d \in insiders[log[n].convo]
           /\ \A c \in Convos : Remember(d, memo, Batch(from))[c] = "yes" => d \in insiders[c]
<1>1. \A c \in Convos : Decide(d, c, memo) = "yes" => d \in insiders[c]
  BY DEF Decide
<1>2. \A n \in Batch(from) : n \in 1 .. Len(log) /\ log[n].convo \in Convos
  BY LogConvos DEF Batch, TypeOK
<1>3. \A n \in Replayed(d, memo, Batch(from)) :
          n \in Batch(from) /\ Decide(d, log[n].convo, memo) = "yes" /\ log[n].kind # "card"
  BY DEF Replayed, DevicesAssumption
<1>4. \A c \in Convos : Remember(d, memo, Batch(from))[c] = "yes" => d \in insiders[c]
  BY <1>1 DEF Remember
<1> QED BY <1>1, <1>2, <1>3, <1>4

LEMMA InsideStep == TypeOK /\ Sockets /\ Inside /\ [Next]_vars => Inside'
<1> SUFFICES ASSUME TypeOK, Sockets, Inside, [Next]_vars PROVE Inside'
  OBVIOUS
<1> USE DevicesAssumption
<1>1. CASE UNCHANGED <<data, dev, known, sock>>
  BY <1>1 DEF Inside, data
<1>2. ASSUME NEW c \in Convos, Write(c) \/ Member(c) PROVE Inside'
  <2>1. UNCHANGED servers
    BY <1>2, WriteStep
  <2>2. \A x \in Convos : /\ insiders[x] \subseteq insiders'[x]
                          /\ Audience(x, owner', row') \subseteq insiders'[x]
    BY <1>2, RosterStep
  <2> QED BY <2>1, <2>2 DEF Inside, servers
<1>3. ASSUME NEW d \in Devices, NEW k \in Conns, Attach(d, k) PROVE Inside'
  <2>0. \A c \in Convos : Undecided[c] = "unknown"
    BY DEF Undecided
  <2>1. CASE dev' = [dev EXCEPT ![k] = d] /\ sock[k] = "unused" /\ sock'[k] # "unused"
             /\ UNCHANGED <<data, known>> /\ \A j \in Conns : j # k => sock'[j] = sock[j]
    BY <2>0, <2>1 DEF Inside, TypeOK, data
  <2>2. ASSUME NEW m \in HelloMax, HelloRefused(d, k, m) PROVE Inside'
    BY <2>1, <2>2 DEF HelloRefused, Connect, TypeOK
  <2>3. ASSUME HelloFresh(d, k) PROVE Inside'
    BY <2>1, <2>3 DEF HelloFresh, Connect, TypeOK
  <2>4. ASSUME NEW m \in HelloMax, Hello(d, k, m) PROVE Inside'
    <3>1. /\ dev' = [dev EXCEPT ![k] = d] /\ sock' = [sock EXCEPT ![k] = "open"]
          /\ UNCHANGED data
          /\ known' = [known EXCEPT ![k] = Remember(d, Undecided, Batch(pos[d]))]
      BY <2>4 DEF Hello, Connect, Turn
    <3>2. d \in Agents => \A c \in Convos : Remember(d, Undecided, Batch(pos[d]))[c] = "yes" => d \in insiders[c]
      <4>1. pos[d] \in Nat /\ Undecided \in [Convos -> {"unknown", "yes", "no"}]
        BY DEF TypeOK, Undecided
      <4>2. \A c \in Convos : Audience(c, owner, row) \subseteq insiders[c]
        BY DEF Inside
      <4> QED BY <2>0, <4>1, <4>2, ReplayedToAgent
    <3> DEFINE memo == Remember(d, Undecided, Batch(pos[d]))
    <3> HIDE DEF memo
    <3>3. /\ known' = [known EXCEPT ![k] = memo]
          /\ d \in Agents => \A c \in Convos : memo[c] = "yes" => d \in insiders[c]
      BY <3>1, <3>2 DEF memo
    <3> QED BY <3>1, <3>3 DEF Inside, TypeOK, data
  <2> QED BY <1>3, <2>2, <2>3, <2>4 DEF Attach
<1>4. ASSUME NEW k \in Conns, ReplayStep(k) PROVE Inside'
  <2>1. CASE sock[k] = "closed"
    BY <1>1, <1>4, <2>1 DEF ReplayStep
  <2>2. CASE sock[k] # "closed"
    <3> DEFINE memo == Remember(dev[k], known[k], Batch(cursor[k]))
    <3>1. /\ UNCHANGED <<data, sock, dev>> /\ sock[k] # "unused"
          /\ known' = [known EXCEPT ![k] = memo]
      BY <1>4, <2>2 DEF ReplayStep, Turn, Sockets
    <3>2. dev[k] \in Agents => \A c \in Convos : memo[c] = "yes" => dev[k] \in insiders[c]
      <4>1. cursor[k] \in Nat /\ known[k] \in [Convos -> {"unknown", "yes", "no"}]
        BY DEF TypeOK
      <4>2. \A c \in Convos : Audience(c, owner, row) \subseteq insiders[c]
        BY DEF Inside
      <4>3. dev[k] \in Agents => \A c \in Convos : known[k][c] = "yes" => dev[k] \in insiders[c]
        BY DEF Inside
      <4> QED BY <4>1, <4>2, <4>3, ReplayedToAgent
    <3> HIDE DEF memo
    <3> QED BY <3>1, <3>2 DEF Inside, TypeOK, data
  <2> QED BY <2>1, <2>2
<1>5. ASSUME NEW k \in Conns, Terminate(k) PROVE Inside'
  BY <1>5 DEF Terminate, Inside, TypeOK, data
<1>6. ASSUME NEW k \in Conns, Closed(k) PROVE Inside'
  <2>1. /\ dev' = [dev EXCEPT ![k] = NoDevice] /\ known' = [known EXCEPT ![k] = Undecided]
        /\ sock' = [sock EXCEPT ![k] = "closed"] /\ UNCHANGED data
    BY <1>6 DEF Closed
  <2>2. NoDevice \notin Agents
    BY DEF Devices
  <2> QED BY <2>1, <2>2 DEF Inside, TypeOK, data
<1>7. ASSUME Restart PROVE Inside'
  <2>1. NoDevice \notin Agents
    BY DEF Devices
  <2> QED BY <1>7, <2>1 DEF Restart, Inside, data
<1>8. ASSUME NEW d \in Devices, Receive(d) \/ Drop(d) \/ Snapshot(d) PROVE Inside'
  BY <1>1, <1>8 DEF Receive, Drop, Snapshot, servers
<1>9. CASE UNCHANGED vars
  BY <1>1, <1>9 DEF vars, servers
<1> QED BY <1>2, <1>3, <1>4, <1>5, <1>6, <1>7, <1>8, <1>9 DEF Next

\* A frame in flight after a step was in flight before it, was replayed by
\* it, or was appended by it.
LEMMA FlightStep ==
    ASSUME TypeOK, Sockets, Inside, Flight, [Next]_vars PROVE Flight'
<1> USE DevicesAssumption, ConnsAssumption
<1>0. Agents \subseteq Devices
  BY DEF Devices
<1>1. ASSUME UNCHANGED data,
             \A d \in Agents : cur'[d] # NoConn =>
                 \A n \in Frames(wire'[cur'[d]]) :
                    \/ cur[d] # NoConn /\ n \in InFlight(cur[d])
                    \/ n \in 1 .. Len(log) /\ log[n].kind # "card" /\ d \in insiders[log[n].convo]
      PROVE  Flight'
  BY <1>1 DEF Flight, InFlight, data
<1>2. ASSUME UNCHANGED <<data, cur>>, \A k \in Conns : wire'[k] \in {wire[k], <<>>}
      PROVE  Flight'
  <2>1. Frames(<<>>) = {}
    BY DEF Frames
  <2> QED BY <1>0, <1>1, <1>2, <2>1 DEF InFlight, TypeOK
<1>3. ASSUME NEW c \in Convos, Write(c) \/ Member(c) PROVE Flight'
  <2>1. UNCHANGED <<servers, readers>>
    BY <1>3, WriteStep
  <2>2. \A x \in Convos : insiders[x] \subseteq insiders'[x] /\ Audience(x, owner', row') \subseteq insiders'[x]
    BY <1>3, RosterStep
  <2>3. CASE UNCHANGED <<log, wire>>
    <3>1. \A n \in 1 .. Len(log) : log[n].convo \in Convos
      BY LogConvos
    <3> QED BY <2>1, <2>2, <2>3, <3>1 DEF Flight, InFlight, readers
  <2>4. CASE Posted(c)
    <3>1. PICK kind, key, to, n :
            /\ Posting(c, kind, key, to, n)
            /\ to = Entitled(c, kind, owner', row')
      BY <2>4 DEF Posted
    <3> DEFINE new == Len(log) + 1 .. Len(log) + n
    <3>2. /\ n \in Nat /\ Len(log) \in Nat
          /\ Len(log') = Len(log) + n
          /\ \A i \in 1 .. Len(log) : log'[i] = log[i] /\ log[i].convo \in Convos
          /\ \A i \in new : log'[i].convo = c /\ log'[i].kind = kind
      <4>1. n \in Nat /\ log \in Seq(Event) /\ Len(log) \in Nat
        BY <3>1 DEF Posting, TypeOK
      <4>2. \A i \in 1 .. Len(log) : log[i].convo \in Convos
        BY LogConvos
      <4>3. /\ Len(log') = Len(log) + n
            /\ \A i \in 1 .. Len(log) : log'[i] = log[i]
            /\ \A i \in new :
                   log'[i] = [convo |-> c, kind |-> kind, key |-> key, to |-> to]
        BY <3>1, PostingType
      <4> QED BY <4>1, <4>2, <4>3
    <3>3. new \in SUBSET Nat
      BY <3>2
    <3>4. ASSUME NEW d \in Agents, cur[d] # NoConn, NEW i \in Frames(wire'[cur[d]])
          PROVE  /\ i \in 1 .. Len(log')
                 /\ log'[i].kind # "card"
                 /\ d \in insiders'[log'[i].convo]
      <4> DEFINE k == cur[d]
      <4>1. k \in Conns /\ d \in Devices /\ wire[k] \in Seq(SUBSET Nat)
        BY <1>0, <3>4 DEF TypeOK
      <4>2. CASE i \in InFlight(k)
        BY <2>2, <3>2, <3>4, <4>2 DEF Flight
      <4>3. CASE i \notin InFlight(k)
        <5>1. /\ wire'[k] = Append(wire[k], new)
              /\ Read(k) /\ dev[k] \in Clients \cup to
          <6>1. wire'[k] # wire[k]
            BY <3>4, <4>3 DEF InFlight
          <6> QED BY <3>1, <4>1, <6>1, PostingWire
        <5>2. i \in new
          <6> HIDE DEF new
          <6>1. Frames(wire'[k]) = InFlight(k) \cup new
            BY <3>3, <4>1, <5>1, FramesAppend DEF InFlight
          <6> QED BY <3>4, <4>3, <6>1
        <5>3. dev[k] = d
          BY <3>4, <4>1, <5>1 DEF Sockets, Read
        <5>4. d \in to
          BY <5>1, <5>3
        <5>5. kind # "card" /\ d \in insiders'[c]
          BY <2>2, <3>1, <5>4 DEF Entitled
        <5> QED BY <3>2, <5>2, <5>5
      <4> QED BY <4>2, <4>3
    <3> QED BY <2>1, <3>4 DEF Flight, InFlight, readers
  <2> QED BY <1>3, <2>3, <2>4, WriteStep
<1>4. ASSUME NEW d \in Devices, NEW k \in Conns, Attach(d, k) PROVE Flight'
  <2>0. /\ \A j \in Conns : Abandoned(d)[j] = IF cur[d] = j THEN <<>> ELSE wire[j]
        /\ Abandoned(d) \in [Conns -> Seq(SUBSET Nat)]
    BY AbandonedType
  <2>00. Frames(<<>>) = {}
    BY DEF Frames
  <2>1. ASSUME UNCHANGED data, wire' = Abandoned(d),
               cur' = [cur EXCEPT ![d] = NoConn] \/ (cur' = [cur EXCEPT ![d] = k] /\ wire[k] = <<>>)
        PROVE  Flight'
    <3>1. ASSUME NEW a \in Agents, cur'[a] # NoConn, NEW n \in Frames(wire'[cur'[a]])
          PROVE  cur[a] # NoConn /\ n \in InFlight(cur[a])
      <4>1. a # d
        BY <1>0, <2>0, <2>00, <2>1, <3>1 DEF TypeOK
      <4>2. cur'[a] = cur[a]
        BY <1>0, <2>1, <4>1 DEF TypeOK
      <4>3. cur[a] \in Conns /\ wire'[cur[a]] \in {wire[cur[a]], <<>>}
        BY <1>0, <2>0, <2>1, <3>1, <4>2 DEF TypeOK
      <4> QED BY <2>00, <3>1, <4>2, <4>3 DEF InFlight
    <3> QED BY <1>1, <2>1, <3>1
  <2>2. ASSUME NEW m \in HelloMax, HelloRefused(d, k, m) PROVE Flight'
    BY <2>1, <2>2 DEF HelloRefused, Reads
  <2>3. ASSUME HelloFresh(d, k) PROVE Flight'
    BY <2>1, <2>3 DEF HelloFresh, Reads, Connect, Sockets
  <2>4. ASSUME NEW m \in HelloMax, Hello(d, k, m) PROVE Flight'
    <3> DEFINE left == Abandoned(d)
               out == Replayed(d, Undecided, Batch(pos[d]))
    <3>1. /\ UNCHANGED data /\ cur' = [cur EXCEPT ![d] = k] /\ wire[k] = <<>>
          /\ wire' = IF TRUE /\ out # {} THEN [left EXCEPT ![k] = Append(@, out)] ELSE left
      BY <2>4 DEF Hello, Reads, Connect, Sockets, Turn
    <3>2. left[k] = <<>>
      BY <2>0, <3>1
    <3>3. d \in Agents => \A n \in out : /\ n \in 1 .. Len(log)
                                        /\ log[n].kind # "card"
                                        /\ d \in insiders[log[n].convo]
      <4>1. pos[d] \in Nat /\ Undecided \in [Convos -> {"unknown", "yes", "no"}]
        BY DEF TypeOK, Undecided
      <4>2. /\ \A c \in Convos : Audience(c, owner, row) \subseteq insiders[c]
            /\ \A c \in Convos : Undecided[c] # "yes"
        BY DEF Inside, Undecided
      <4> QED BY <4>1, <4>2, ReplayedToAgent
    <3> HIDE DEF left, out
    <3>4. \A n \in Frames(wire'[k]) : n \in out
      <4>1. wire'[k] = Append(<<>>, out) \/ wire'[k] = <<>>
        BY <2>0, <3>1, <3>2 DEF left
      <4>2. Append(<<>>, out) = <<out>> /\ Frames(<<out>>) = out
        BY DEF Frames
      <4> QED BY <2>00, <4>1, <4>2
    <3>5. \A j \in Conns : j # k => wire'[j] \in {wire[j], <<>>}
      BY <2>0, <3>1 DEF left
    <3>6. ASSUME NEW a \in Agents, cur'[a] # NoConn, NEW n \in Frames(wire'[cur'[a]])
          PROVE  \/ cur[a] # NoConn /\ n \in InFlight(cur[a])
                 \/ n \in 1 .. Len(log) /\ log[n].kind # "card" /\ a \in insiders[log[n].convo]
      <4>1. CASE a = d
        <5>1. cur'[a] = k
          BY <1>0, <3>1, <4>1 DEF TypeOK
        <5> QED BY <3>3, <3>4, <3>6, <4>1, <5>1
      <4>2. CASE a # d
        <5>1. cur'[a] = cur[a] /\ cur[a] \in Conns /\ cur[a] # k
          BY <1>0, <2>4, <3>1, <3>6, <4>2 DEF TypeOK, Sockets, Hello, Connect
        <5>2. wire'[cur[a]] \in {wire[cur[a]], <<>>}
          BY <3>5, <5>1
        <5> QED BY <2>00, <3>6, <5>1, <5>2 DEF InFlight
      <4> QED BY <4>1, <4>2
    <3> QED BY <1>1, <3>1, <3>6
  <2> QED BY <1>4, <2>2, <2>3, <2>4 DEF Attach
<1>5. ASSUME NEW k \in Conns, ReplayStep(k) PROVE Flight'
  <2>1. CASE sock[k] = "closed"
    BY <1>2, <1>5, <2>1 DEF ReplayStep, readers
  <2>2. CASE sock[k] # "closed"
    <3> DEFINE d == dev[k]
               out == Replayed(d, known[k], Batch(cursor[k]))
    <3>1. /\ UNCHANGED <<data, cur>>
          /\ wire' = IF (sock[k] = "open" /\ Read(k)) /\ out # {}
                     THEN [wire EXCEPT ![k] = Append(@, out)] ELSE wire
      BY <1>5, <2>2 DEF ReplayStep, Turn, readers
    <3>2. d \in Agents => \A n \in out : /\ n \in 1 .. Len(log)
                                        /\ log[n].kind # "card"
                                        /\ d \in insiders[log[n].convo]
      <4>1. cursor[k] \in Nat /\ known[k] \in [Convos -> {"unknown", "yes", "no"}]
        BY DEF TypeOK
      <4>2. \A c \in Convos : Audience(c, owner, row) \subseteq insiders[c]
        BY DEF Inside
      <4>3. d \in Agents => \A c \in Convos : known[k][c] = "yes" => d \in insiders[c]
        BY DEF Inside
      <4> QED BY <4>1, <4>2, <4>3, ReplayedToAgent
    <3>3. out \in SUBSET Nat
      BY DEF Replayed, Batch, TypeOK
    <3> HIDE DEF out
    <3>4. ASSUME NEW a \in Agents, cur'[a] # NoConn, NEW n \in Frames(wire'[cur'[a]]),
                 ~(n \in InFlight(cur[a]))
          PROVE  n \in 1 .. Len(log) /\ log[n].kind # "card" /\ a \in insiders[log[n].convo]
      <4>1. cur'[a] = cur[a] /\ cur[a] \in Conns /\ a \in Devices
        BY <1>0, <3>1, <3>4 DEF TypeOK
      <4>2. wire'[cur[a]] # wire[cur[a]]
        BY <3>4, <4>1 DEF InFlight
      <4>3. cur[a] = k /\ sock[k] = "open" /\ wire'[k] = Append(wire[k], out)
        BY <3>1, <4>1, <4>2 DEF TypeOK
      <4>4. d = a
        BY <3>4, <4>1, <4>3 DEF Sockets
      <4>5. n \in out
        <5>1. wire[k] \in Seq(SUBSET Nat)
          BY DEF TypeOK
        <5> QED BY <3>3, <3>4, <4>1, <4>3, <5>1, FramesAppend DEF InFlight
      <4> QED BY <3>2, <4>4, <4>5
    <3>5. \A a \in Agents : cur'[a] = cur[a]
      BY <3>1
    <3> QED BY <1>1, <3>1, <3>4, <3>5
  <2> QED BY <2>1, <2>2
<1>6. ASSUME NEW k \in Conns, Terminate(k) \/ Closed(k) PROVE Flight'
  BY <1>2, <1>6 DEF Terminate, Closed, readers
<1>7. ASSUME Restart PROVE Flight'
  BY <1>2, <1>7 DEF Restart, readers
<1>8. ASSUME NEW d \in Devices, Receive(d) PROVE Flight'
  <2>1. PICK n : wire' = [wire EXCEPT ![cur[d]] = Rest(@, n)]
    BY <1>8 DEF Receive
  <2>2. cur[d] # NoConn /\ wire[cur[d]] # <<>> /\ UNCHANGED <<data, cur>>
    BY <1>8 DEF Receive
  <2>3. cur[d] \in Conns /\ wire[cur[d]] \in Seq(SUBSET Nat)
    BY <2>2 DEF TypeOK
  <2>4. Frames(Rest(wire[cur[d]], n)) \subseteq InFlight(cur[d])
    BY <2>2, <2>3, RestShrinks DEF InFlight
  <2>5. ASSUME NEW a \in Agents, cur'[a] # NoConn, NEW x \in Frames(wire'[cur'[a]])
        PROVE  cur[a] # NoConn /\ x \in InFlight(cur[a])
    <3>1. cur'[a] = cur[a] /\ cur[a] \in Conns
      BY <1>0, <2>2, <2>5 DEF TypeOK
    <3>2. CASE cur[a] = cur[d]
      BY <2>1, <2>3, <2>4, <2>5, <3>1, <3>2 DEF TypeOK
    <3>3. CASE cur[a] # cur[d]
      BY <2>1, <2>5, <3>1, <3>3 DEF TypeOK, InFlight
    <3> QED BY <3>2, <3>3
  <2> QED BY <1>1, <2>2, <2>5
<1>9. ASSUME NEW d \in Devices, Drop(d) PROVE Flight'
  <2>1. \A j \in Conns : Abandoned(d)[j] = IF cur[d] = j THEN <<>> ELSE wire[j]
    BY AbandonedType
  <2>2. UNCHANGED data /\ wire' = Abandoned(d) /\ cur' = [cur EXCEPT ![d] = NoConn]
    BY <1>9 DEF Drop, Reads
  <2>3. Frames(<<>>) = {}
    BY DEF Frames
  <2>4. ASSUME NEW a \in Agents, cur'[a] # NoConn, NEW x \in Frames(wire'[cur'[a]])
        PROVE  cur[a] # NoConn /\ x \in InFlight(cur[a])
    <3>1. cur'[a] = cur[a] /\ cur[a] \in Conns
      BY <1>0, <2>2, <2>4 DEF TypeOK
    <3> QED BY <2>1, <2>2, <2>3, <2>4, <3>1 DEF InFlight
  <2> QED BY <1>1, <2>2, <2>4
<1>10. ASSUME NEW d \in Devices, Snapshot(d) PROVE Flight'
  BY <1>2, <1>10 DEF Snapshot
<1>11. CASE UNCHANGED vars
  BY <1>2, <1>11 DEF vars, readers
<1> QED
  BY <1>3, <1>4, <1>5, <1>6, <1>7, <1>8, <1>9, <1>10, <1>11 DEF Next

THEOREM FlightSafe == Spec => [](Inside /\ Flight)
<1>1. Init => Inside /\ Flight
  <2> SUFFICES ASSUME Init PROVE Inside /\ Flight
    OBVIOUS
  <2>1. \A c \in Convos : insiders[c] = Audience(c, owner, row)
    BY DEF Init
  <2>2. \A k \in Conns : known[k] = Undecided
    BY DEF Init
  <2>3. \A c \in Convos : Undecided[c] # "yes"
    BY DEF Undecided
  <2>4. Inside
    BY <2>1, <2>2, <2>3 DEF Inside
  <2>5. \A d \in Agents : cur[d] = NoConn
    BY DEF Init, Devices
  <2> QED BY <2>4, <2>5 DEF Flight
<1>2. TypeOK /\ Sockets /\ Inside /\ Flight /\ [Next]_vars => Inside' /\ Flight'
  BY InsideStep, FlightStep
<1>3. Spec => [](TypeOK /\ Sockets)
  BY SocketsAgree
<1> QED BY <1>1, <1>2, <1>3, PTL DEF Spec

\* No consent card is ever on its way to an agent device, live or replayed,
\* whatever the roster was when it was written and became since.
THEOREM CardsStayWithTheUser == Spec => []NoCardToAgents
<1>1. Flight => NoCardToAgents
  BY DEF Flight, NoCardToAgents
<1> QED BY <1>1, FlightSafe, PTL

\* An agent is sent nothing of a conversation it was never a member of.
THEOREM OutsidersAreBlind == Spec => []OutsiderSeesNothing
<1>1. Flight => OutsiderSeesNothing
  BY DEF Flight, OutsiderSeesNothing
<1> QED BY <1>1, FlightSafe, PTL

\* Both: what an agent socket carries is what its device may read.
THEOREM AgentsReadTheirOwn == Spec => []AgentsSeeTheirOwn
<1>1. NoCardToAgents /\ OutsiderSeesNothing => AgentsSeeTheirOwn
  BY DEF AgentsSeeTheirOwn
<1> QED BY <1>1, CardsStayWithTheUser, OutsidersAreBlind, PTL

-----------------------------------------------------------------------------
(* The feed of a client.                                                   *)

Ordered(w) ==
    \A i, j \in DOMAIN w : i < j => \A x \in w[i], y \in w[j] : x < y

\* The writes w bring a reader at p to top, frame by frame.
Continues(w, p, top) == Ordered(w) /\ Frames(w) = p + 1 .. top

LEMMA ContinuesEmpty ==
    ASSUME NEW p \in Nat PROVE Continues(<<>>, p, p)
BY DEF Continues, Ordered, Frames

LEMMA ContinuesAppend ==
    ASSUME NEW w \in Seq(SUBSET Nat), NEW p \in Nat, NEW top \in Nat, NEW m \in Nat,
           p <= top, top <= m, Continues(w, p, top)
    PROVE  Continues(Append(w, top + 1 .. m), p, m)
<1> DEFINE S == top + 1 .. m
           v == Append(w, S)
<1>1. S \in SUBSET Nat
  OBVIOUS
<1>2. Frames(v) = p + 1 .. m
  <2> HIDE DEF S
  <2>1. Frames(v) = Frames(w) \cup S
    BY <1>1, FramesAppend
  <2>2. (p + 1 .. top) \cup (top + 1 .. m) = p + 1 .. m
    OBVIOUS
  <2> QED BY <2>1, <2>2 DEF Continues, S
<1>3. Ordered(v)
  <2> HIDE DEF S
  <2>1. /\ DOMAIN v = 1 .. Len(w) + 1
        /\ DOMAIN w = 1 .. Len(w)
        /\ Len(w) \in Nat
        /\ v[Len(w) + 1] = S
        /\ \A i \in 1 .. Len(w) : v[i] = w[i]
    BY <1>1
  <2> HIDE DEF v
  <2> SUFFICES ASSUME NEW i \in DOMAIN v, NEW j \in DOMAIN v, i < j, NEW x \in v[i], NEW y \in v[j]
               PROVE  x < y
    BY DEF Ordered
  <2>2. i \in 1 .. Len(w) /\ x \in w[i]
    BY <2>1
  <2>3. CASE j = Len(w) + 1
    <3>1. x \in Frames(w)
      BY <2>1, <2>2, FramesMember
    <3>2. x \in p + 1 .. top
      BY <3>1 DEF Continues
    <3> QED BY <2>1, <2>3, <3>2 DEF S
  <2>4. CASE j \in 1 .. Len(w)
    BY <2>1, <2>2, <2>4 DEF Continues, Ordered
  <2> QED BY <2>1, <2>3, <2>4
<1> QED BY <1>2, <1>3 DEF Continues

LEMMA ContinuesRest ==
    ASSUME NEW w \in Seq(SUBSET Nat), w # <<>>, NEW p \in Nat, NEW top \in Nat,
           Continues(w, p, top), NEW n \in Head(w), \A x \in Head(w) : n <= x
    PROVE  n = p + 1 /\ n <= top /\ Continues(Rest(w, n), p + 1, top)
<1>1. /\ Len(w) \in Nat \ {0}
      /\ DOMAIN w = 1 .. Len(w)
      /\ Head(w) = w[1]
      /\ DOMAIN Tail(w) = 1 .. Len(w) - 1
      /\ \A i \in 1 .. Len(w) - 1 : Tail(w)[i] = w[i + 1]
  OBVIOUS
<1>2. /\ Frames(Rest(w, n)) = (Head(w) \ {n}) \cup Frames(Tail(w))
      /\ Frames(w) = Head(w) \cup Frames(Tail(w))
  BY RestShrinks, FramesRest
<1>3. n \in p + 1 .. top
  BY <1>2 DEF Continues
<1>4. \A x \in Frames(Tail(w)) : n < x
  <2> SUFFICES ASSUME NEW x \in Frames(Tail(w)) PROVE n < x
    OBVIOUS
  <2>1. PICK i \in DOMAIN Tail(w) : x \in Tail(w)[i]
    BY FramesMember
  <2>2. i + 1 \in DOMAIN w /\ 1 \in DOMAIN w /\ 1 < i + 1 /\ x \in w[i + 1] /\ n \in w[1]
    BY <1>1, <2>1
  <2> QED BY <2>2 DEF Continues, Ordered
<1>5. n = p + 1
  <2>1. p + 1 \in Head(w) \cup Frames(Tail(w))
    BY <1>2, <1>3 DEF Continues
  <2> QED BY <1>3, <1>4, <2>1
<1>6. Frames(Rest(w, n)) = p + 1 + 1 .. top
  <2>1. \A x : x \in Frames(Rest(w, n)) <=> x \in Frames(w) /\ x # n
    BY <1>2, <1>3, <1>4
  <2>2. Frames(w) = p + 1 .. top
    BY DEF Continues
  <2>3. \A x : x \in p + 1 .. top /\ x # p + 1 <=> x \in p + 1 + 1 .. top
    OBVIOUS
  <2>4. \A x : x \in Frames(Rest(w, n)) <=> x \in p + 1 + 1 .. top
    BY <1>5, <2>1, <2>2, <2>3
  <2> QED BY <2>4
<1>7. Ordered(Rest(w, n))
  <2>1. CASE Head(w) = {n}
    <3>1. Rest(w, n) = Tail(w)
      BY <2>1 DEF Rest
    <3> SUFFICES ASSUME NEW i \in DOMAIN Tail(w), NEW j \in DOMAIN Tail(w), i < j,
                        NEW x \in Tail(w)[i], NEW y \in Tail(w)[j]
                 PROVE  x < y
      BY <3>1 DEF Ordered
    <3>2. i + 1 \in DOMAIN w /\ j + 1 \in DOMAIN w /\ i + 1 < j + 1 /\ x \in w[i + 1] /\ y \in w[j + 1]
      BY <1>1
    <3> QED BY <3>2 DEF Continues, Ordered
  <2>2. CASE Head(w) # {n}
    <3> DEFINE v == [w EXCEPT ![1] = @ \ {n}]
    <3>1. DOMAIN v = DOMAIN w /\ \A i \in DOMAIN w : v[i] \subseteq w[i]
      BY <1>1
    <3>2. Rest(w, n) = v
      BY <2>2 DEF Rest
    <3> HIDE DEF v
    <3> QED BY <3>1, <3>2 DEF Continues, Ordered
  <2> QED BY <2>1, <2>2
<1> QED BY <1>3, <1>5, <1>6, <1>7 DEF Continues

FeedOf(d) ==
    cur[d] # NoConn =>
        \E top \in pos[d] .. Len(log) :
            /\ Continues(wire[cur[d]], pos[d], top)
            /\ Live(cur[d]) => top = Len(log)
            /\ replay[cur[d]] /\ sock[cur[d]] = "open" => top = cursor[cur[d]]

\* ClientFeed is not inductive alone: a client's cursor must also be within
\* the log while it has no socket, and a client told to fetch a snapshot must
\* have none.
Feeds ==
    \A d \in Clients :
        /\ FeedOf(d)
        /\ pos[d] <= Len(log)
        /\ stale[d] => cur[d] = NoConn

LEMMA FeedsImplyClientFeed == Feeds => ClientFeed
BY DEF Feeds, FeedOf, ClientFeed, Continues, Ordered, InFlight

\* A turn whose socket takes frames.
OpenTurn(k, d, from, memo, lines) == Turn(k, d, from, memo, TRUE, lines)

\* One turn for a client: what it appends is the next batch, entire.
LEMMA TurnForClient ==
    ASSUME TypeOK, BoundsAssumption, NEW k \in Conns, NEW d \in Clients, NEW from \in Nat,
           from <= Len(log), NEW memo,
           NEW lines \in [Conns -> Seq(SUBSET Nat)], NEW p \in Nat, p <= from,
           Continues(lines[k], p, from),
           OpenTurn(k, d, from, memo, lines)
    PROVE  \E top \in p .. Len(log) :
              /\ Continues(wire'[k], p, top)
              /\ replay'[k] => top = cursor'[k]
              /\ ~replay'[k] => top = Len(log)
<1> DEFINE out == Replayed(d, memo, Batch(from))
           top == IF Len(log) - from >= BatchSize THEN from + BatchSize ELSE Len(log)
<1>0. Len(log) \in Nat /\ BatchSize \in Nat
  BY DEF TypeOK, BoundsAssumption
<1>1. out = from + 1 .. top
  <2>1. out = {n \in from + 1 .. Len(log) : n <= from + BatchSize}
    BY DEF Replayed, Batch
  <2>2. \A n : n \in out <=> n \in from + 1 .. top
    BY <1>0, <2>1
  <2> QED BY <2>2
<1>2. top \in Nat /\ from <= top /\ top <= Len(log)
  BY <1>0
<1>3. wire'[k] = IF out # {} THEN Append(lines[k], out) ELSE lines[k]
  <2>1. wire' = IF TRUE /\ out # {} THEN [lines EXCEPT ![k] = Append(@, out)] ELSE lines
    BY DEF OpenTurn, Turn
  <2> HIDE DEF out
  <2> QED BY <2>1
<1>4. /\ replay'[k] => top = cursor'[k]
      /\ ~replay'[k] => top = Len(log)
  <2>1. CASE Len(log) - from >= BatchSize
    <3>1. replay' = [replay EXCEPT ![k] = TRUE] /\ cursor' = [cursor EXCEPT ![k] = from + BatchSize]
      BY <2>1 DEF OpenTurn, Turn
    <3> QED BY <2>1, <3>1 DEF TypeOK
  <2>2. CASE ~(Len(log) - from >= BatchSize)
    <3>1. replay' = [replay EXCEPT ![k] = FALSE]
      BY <2>2 DEF OpenTurn, Turn
    <3> QED BY <2>2, <3>1 DEF TypeOK
  <2> QED BY <2>1, <2>2
<1> HIDE DEF top, out
<1>5. Continues(wire'[k], p, top)
  <2>1. Continues(Append(lines[k], from + 1 .. top), p, top)
    BY <1>2, ContinuesAppend
  <2>2. CASE out # {}
    BY <1>1, <1>3, <2>1, <2>2
  <2>3. CASE out = {}
    <3>1. top = from
      BY <1>1, <1>2, <2>3
    <3> QED BY <1>3, <2>3, <3>1
  <2> QED BY <2>2, <2>3
<1> QED BY <1>0, <1>2, <1>4, <1>5

\* An operation that writes: every client's feed grows with the log.
LEMMA FeedsWrite ==
    ASSUME TypeOK, Sockets, Feeds, NEW c \in Convos, Write(c) \/ Member(c)
    PROVE  Feeds' /\ Len(log') >= Len(log)
<1> USE ConnsAssumption, DevicesAssumption
<1>1. UNCHANGED <<servers, readers>>
  BY WriteStep
<1>2. CASE UNCHANGED <<log, wire>>
  <2>1. Len(log) \in Nat
    BY DEF TypeOK
  <2>2. UNCHANGED <<log, wire, cur, pos, stale, replay, sock, hub, cursor>>
    BY <1>1, <1>2 DEF servers, readers
  <2>3. ASSUME NEW d \in Clients PROVE FeedOf(d)'
    <3>1. FeedOf(d)
      BY DEF Feeds
    <3> QED BY <2>2, <3>1 DEF FeedOf, Live
  <2>4. \A d \in Clients : pos'[d] <= Len(log') /\ (stale'[d] => cur'[d] = NoConn)
    BY <2>2 DEF Feeds
  <2> QED BY <2>1, <2>2, <2>3, <2>4 DEF Feeds
<1>3. CASE Posted(c)
  <2>1. PICK kind, key, to, n : Posting(c, kind, key, to, n)
    BY <1>3 DEF Posted
  <2>2. n \in Nat /\ Len(log) \in Nat /\ Len(log') = Len(log) + n
    <3>1. n \in Nat /\ Len(log) \in Nat
      BY <2>1 DEF Posting, TypeOK
    <3>2. Len(log') = Len(log) + n
      BY <2>1, PostingType
    <3> QED BY <3>1, <3>2
  <2>3. ASSUME NEW d \in Clients, cur[d] # NoConn PROVE FeedOf(d)'
    <3> DEFINE k == cur[d]
    <3>1. k \in Conns /\ d \in Devices /\ wire[k] \in Seq(SUBSET Nat) /\ pos[d] \in Nat
      BY <2>3 DEF TypeOK, Devices
    <3>2. PICK top \in pos[d] .. Len(log) :
            /\ Continues(wire[k], pos[d], top)
            /\ Live(k) => top = Len(log)
            /\ replay[k] /\ sock[k] = "open" => top = cursor[k]
      BY <2>3 DEF Feeds, FeedOf
    <3>3. CASE Live(k) /\ n > 0
      <4>1. Read(k) /\ dev[k] = d /\ ~replay[k]
        BY <2>3, <3>1, <3>3 DEF Sockets, Live, Read, Devices
      <4>2. wire'[k] = Append(wire[k], Len(log) + 1 .. Len(log) + n)
        BY <2>1, <3>1, <3>3, <4>1, PostingWire
      <4>3. Continues(wire'[k], pos[d], Len(log'))
        BY <2>2, <3>1, <3>2, <3>3, <4>2, ContinuesAppend
      <4> QED BY <1>1, <2>2, <3>1, <4>1, <4>3 DEF FeedOf, servers, readers
    <3>4. CASE ~(Live(k) /\ n > 0)
      <4>1. wire'[k] = wire[k]
        BY <2>1, <3>1, <3>4, PostingWire
      <4>2. Live(k) => Len(log') = Len(log)
        BY <2>2, <3>4
      <4>3. top \in pos[d] .. Len(log')
        BY <2>2, <3>1, <3>2
      <4> QED BY <1>1, <3>2, <4>1, <4>2, <4>3 DEF FeedOf, Live, servers, readers
    <3> QED BY <3>3, <3>4
  <2>4. ASSUME NEW d \in Clients PROVE FeedOf(d)'
    <3>1. CASE cur[d] # NoConn
      BY <2>3, <3>1
    <3>2. CASE cur[d] = NoConn
      BY <1>1, <3>2 DEF FeedOf, readers
    <3> QED BY <3>1, <3>2
  <2>5. \A d \in Clients : pos'[d] <= Len(log') /\ (stale'[d] => cur'[d] = NoConn)
    <3>1. \A d \in Clients : pos[d] \in Nat
      BY DEF TypeOK, Devices
    <3> QED BY <1>1, <2>2, <3>1 DEF Feeds, readers
  <2> QED BY <2>2, <2>4, <2>5 DEF Feeds
<1> QED BY <1>2, <1>3, WriteStep DEF TypeOK

\* A client whose own part of the state is untouched keeps its feed.
LEMMA FeedKept ==
    ASSUME TypeOK, NEW d \in Clients, FeedOf(d), UNCHANGED log,
           cur'[d] = cur[d], pos'[d] = pos[d],
           cur[d] # NoConn =>
               /\ wire'[cur[d]] = wire[cur[d]]
               /\ replay'[cur[d]] /\ sock'[cur[d]] = "open" =>
                      replay[cur[d]] /\ sock[cur[d]] = "open" /\ cursor'[cur[d]] = cursor[cur[d]]
               /\ cur[d] \in hub' /\ sock'[cur[d]] = "open" =>
                      cur[d] \in hub /\ sock[cur[d]] = "open"
    PROVE  FeedOf(d)'
BY DEF FeedOf, Live

LEMMA FeedsAttach ==
    ASSUME TypeOK, Sockets, Feeds, NEW d \in Devices, NEW k \in Conns, Attach(d, k)
    PROVE  Feeds'
<1> USE ConnsAssumption, DevicesAssumption
<1>0. /\ Clients \subseteq Devices
      /\ Len(log) \in Nat
      /\ Abandoned(d) \in [Conns -> Seq(SUBSET Nat)]
      /\ \A j \in Conns : Abandoned(d)[j] = IF cur[d] = j THEN <<>> ELSE wire[j]
  BY AbandonedType DEF Devices, TypeOK
<1>1. ASSUME UNCHANGED log, sock[k] = "unused", \A j \in Conns : j # k => sock'[j] = sock[j] /\ wire'[j] = Abandoned(d)[j],
             cur' = [cur EXCEPT ![d] = NoConn] \/ cur' = [cur EXCEPT ![d] = k],
             UNCHANGED stale \/ (cur' = [cur EXCEPT ![d] = NoConn] /\ stale' = [stale EXCEPT ![d] = TRUE]),
             UNCHANGED pos \/ pos' = [pos EXCEPT ![d] = Len(log)],
             \A j \in Conns : j # k => replay'[j] = replay[j] /\ cursor'[j] = cursor[j] /\ (j \in hub' <=> j \in hub),
             d \in Clients => FeedOf(d)', d \in Clients => ~stale[d]
      PROVE  Feeds'
  <2>1. ASSUME NEW e \in Clients, e # d PROVE FeedOf(e)'
    <3>1. FeedOf(e) /\ cur'[e] = cur[e] /\ pos'[e] = pos[e]
      BY <1>0, <1>1, <2>1 DEF Feeds, TypeOK
    <3>2. cur[e] # NoConn => cur[e] \in Conns /\ cur[e] # k /\ cur[e] # cur[d]
      BY <1>0, <1>1, <2>1 DEF Sockets, TypeOK
    <3>3. cur[e] # NoConn =>
            /\ wire'[cur[e]] = wire[cur[e]] /\ sock'[cur[e]] = sock[cur[e]]
            /\ replay'[cur[e]] = replay[cur[e]] /\ cursor'[cur[e]] = cursor[cur[e]]
            /\ cur[e] \in hub' <=> cur[e] \in hub
      BY <1>0, <1>1, <3>2
    <3> QED BY <1>1, <3>1, <3>3, FeedKept
  <2>2. ASSUME NEW e \in Clients PROVE pos'[e] <= Len(log') /\ (stale'[e] => cur'[e] = NoConn)
    <3>1. pos[e] \in Nat /\ pos[e] <= Len(log) /\ (stale[e] => cur[e] = NoConn)
      BY <1>0 DEF Feeds, TypeOK
    <3>2. CASE e = d
      BY <1>0, <1>1, <3>1, <3>2 DEF TypeOK
    <3>3. CASE e # d
      BY <1>0, <1>1, <3>1, <3>3 DEF TypeOK
    <3> QED BY <3>2, <3>3
  <2> QED BY <1>1, <2>1, <2>2 DEF Feeds
<1>2. ASSUME NEW m \in HelloMax, HelloRefused(d, k, m) PROVE Feeds'
  <2>1. /\ sock[k] = "unused" /\ ~stale[d] /\ sock' = [sock EXCEPT ![k] = "closing"]
        /\ cur' = [cur EXCEPT ![d] = NoConn] /\ stale' = [stale EXCEPT ![d] = TRUE]
        /\ wire' = Abandoned(d)
        /\ UNCHANGED <<log, pos, hub, replay, cursor>>
    BY <1>2 DEF HelloRefused, Connect, Reads, data
  <2>2. FeedOf(d)'
    BY <2>1 DEF FeedOf, TypeOK
  <2>3. \A j \in Conns : j # k => sock'[j] = sock[j]
    BY <2>1 DEF TypeOK
  <2> QED BY <1>1, <2>1, <2>2, <2>3
<1>3. ASSUME HelloFresh(d, k) PROVE Feeds'
  <2>1. /\ sock[k] = "unused" /\ ~stale[d] /\ sock' = [sock EXCEPT ![k] = "open"]
        /\ cur' = [cur EXCEPT ![d] = k] /\ pos' = [pos EXCEPT ![d] = Len(log)]
        /\ wire' = Abandoned(d) /\ hub' = hub \cup {k}
        /\ UNCHANGED <<log, stale, replay, cursor>>
    BY <1>3 DEF HelloFresh, Connect, Reads, data
  <2>2. ~replay[k] /\ wire[k] = <<>>
    BY <2>1 DEF Sockets
  <2>3. wire'[k] = <<>> /\ cur'[d] = k /\ pos'[d] = Len(log) /\ ~replay'[k]
    BY <1>0, <2>1, <2>2 DEF TypeOK
  <2>4. FeedOf(d)'
    <3>1. Continues(wire'[k], pos'[d], Len(log))
      BY <1>0, <2>3, ContinuesEmpty
    <3>2. Len(log) \in pos'[d] .. Len(log') /\ Len(log') = Len(log)
      BY <1>0, <2>1, <2>3
    <3> QED BY <2>3, <3>1, <3>2 DEF FeedOf
  <2>5. \A j \in Conns : j # k => sock'[j] = sock[j]
    BY <2>1 DEF TypeOK
  <2> QED BY <1>1, <2>1, <2>4, <2>5
<1>4. ASSUME NEW m \in HelloMax, Hello(d, k, m) PROVE Feeds'
  <2> DEFINE left == Abandoned(d)
             from == pos[d]
             memo == Undecided
  <2>1. /\ sock[k] = "unused" /\ ~stale[d] /\ sock' = [sock EXCEPT ![k] = "open"]
        /\ cur' = [cur EXCEPT ![d] = k]
        /\ OpenTurn(k, d, from, memo, left)
        /\ UNCHANGED <<log, stale, pos>>
    BY <1>4 DEF Hello, Connect, Reads, data, OpenTurn
  <2>2. left[k] = <<>>
    BY <1>0, <2>1 DEF Sockets
  <2>3. from \in Nat
    BY DEF TypeOK
  <2>4. \A j \in Conns : j # k => /\ replay'[j] = replay[j] /\ cursor'[j] = cursor[j]
                                  /\ j \in hub' <=> j \in hub
    BY <2>1 DEF OpenTurn, Turn, TypeOK
  <2> HIDE DEF left, memo
  <2>5. \A j \in Conns : j # k => wire'[j] = left[j]
    <3>1. PICK out : wire' = IF TRUE /\ out # {} THEN [left EXCEPT ![k] = Append(@, out)] ELSE left
      BY <2>1 DEF OpenTurn, Turn
    <3> QED BY <1>0, <3>1 DEF left
  <2>6. ASSUME d \in Clients PROVE FeedOf(d)'
    <3>1. from <= Len(log)
      BY <2>6 DEF Feeds
    <3>2. Continues(left[k], from, from)
      BY <2>2, <2>3, ContinuesEmpty
    <3>3. left \in [Conns -> Seq(SUBSET Nat)]
      BY <1>0 DEF left
    <3>4. \E top \in from .. Len(log) :
             /\ Continues(wire'[k], from, top)
             /\ replay'[k] => top = cursor'[k]
             /\ ~replay'[k] => top = Len(log)
      <4> HIDE DEF from
      <4> QED BY <2>1, <2>3, <2>6, <3>1, <3>2, <3>3, TurnForClient, BoundsAssumption
    <3>5. replay'[k] => k \notin hub'
      <4>1. k \notin hub
        BY <2>1 DEF Sockets
      <4> QED BY <2>1, <4>1 DEF OpenTurn, Turn, TypeOK
    <3>6. cur'[d] = k
      BY <2>1 DEF TypeOK
    <3> QED BY <2>1, <3>4, <3>5, <3>6 DEF FeedOf, Live
  <2>7. \A j \in Conns : j # k => sock'[j] = sock[j]
    BY <2>1 DEF TypeOK
  <2> QED BY <1>1, <2>1, <2>4, <2>5, <2>6, <2>7 DEF left
<1> QED BY <1>2, <1>3, <1>4 DEF Attach

\* Reading is the only step of a connected client that moves its cursor, and
\* it moves it by one.
LEMMA FeedsReceive ==
    ASSUME TypeOK, Sockets, Feeds, NEW d \in Devices, Receive(d)
    PROVE  /\ Feeds'
           /\ d \in Clients => ~stale[d] /\ pos[d] < Len(log) /\ pos' = [pos EXCEPT ![d] = @ + 1]
<1> USE ConnsAssumption, DevicesAssumption
<1> DEFINE k == cur[d]
<1>0. Clients \subseteq Devices /\ Len(log) \in Nat
  BY DEF Devices, TypeOK
<1>1. PICK n : /\ n \in Head(wire[k]) /\ \A x \in Head(wire[k]) : n <= x
               /\ pos' = [pos EXCEPT ![d] = n]
               /\ wire' = [wire EXCEPT ![k] = Rest(@, n)]
  BY DEF Receive
<1>2. /\ k # NoConn /\ wire[k] # <<>>
      /\ UNCHANGED <<log, sock, hub, replay, cursor, cur, stale>>
  BY DEF Receive, data, servers
<1>3. k \in Conns /\ wire[k] \in Seq(SUBSET Nat)
  BY <1>2 DEF TypeOK
<1>4. wire'[k] = Rest(wire[k], n) /\ pos'[d] = n /\ \A j \in Conns : j # k => wire'[j] = wire[j]
  BY <1>1, <1>3 DEF TypeOK
<1>5. ASSUME NEW e \in Clients, e # d PROVE FeedOf(e)' /\ pos'[e] = pos[e]
  <2>1. FeedOf(e) /\ pos'[e] = pos[e] /\ cur'[e] = cur[e] /\ e \in Devices
    BY <1>0, <1>1, <1>2, <1>5 DEF Feeds, TypeOK
  <2>2. cur[e] # NoConn => cur[e] \in Conns /\ cur[e] # k
    BY <1>0, <1>2, <1>5, <2>1 DEF Sockets, TypeOK
  <2> QED BY <1>2, <1>4, <2>1, <2>2, FeedKept
<1>6. ASSUME d \in Clients
      PROVE  FeedOf(d)' /\ ~stale[d] /\ pos[d] < Len(log) /\ n = pos[d] + 1
  <2>1. FeedOf(d) /\ ~stale[d] /\ pos[d] \in Nat
    BY <1>2, <1>6 DEF Feeds, TypeOK
  <2>2. PICK top \in pos[d] .. Len(log) :
          /\ Continues(wire[k], pos[d], top)
          /\ Live(k) => top = Len(log)
          /\ replay[k] /\ sock[k] = "open" => top = cursor[k]
    BY <1>2, <2>1 DEF FeedOf
  <2>3. top \in Nat /\ pos[d] <= top /\ top <= Len(log)
    BY <1>0, <2>1, <2>2
  <2>4. n = pos[d] + 1 /\ n <= top /\ Continues(Rest(wire[k], n), pos[d] + 1, top)
    BY <1>1, <1>2, <1>3, <2>1, <2>2, <2>3, ContinuesRest
  <2>5. Continues(wire'[k], pos'[d], top) /\ top \in pos'[d] .. Len(log')
    BY <1>0, <1>2, <1>4, <2>1, <2>3, <2>4
  <2>6. FeedOf(d)'
    BY <1>2, <2>2, <2>5 DEF FeedOf, Live
  <2> QED BY <1>0, <2>1, <2>3, <2>4, <2>6
<1>7. Feeds'
  <2> SUFFICES ASSUME NEW e \in Clients
               PROVE  FeedOf(e)' /\ pos'[e] <= Len(log') /\ (stale'[e] => cur'[e] = NoConn)
    BY DEF Feeds
  <2>1. pos[e] \in Nat /\ pos[e] <= Len(log) /\ (stale[e] => cur[e] = NoConn)
    BY <1>0 DEF Feeds, TypeOK
  <2>2. CASE e = d
    BY <1>0, <1>2, <1>4, <1>6, <2>1, <2>2
  <2>3. CASE e # d
    BY <1>2, <1>5, <2>1, <2>3
  <2> QED BY <2>2, <2>3
<1> QED BY <1>1, <1>6, <1>7

LEMMA FeedsReplay ==
    ASSUME TypeOK, Sockets, Feeds, NEW k \in Conns, ReplayStep(k)
    PROVE  Feeds'
<1> USE ConnsAssumption, DevicesAssumption
<1>0. Clients \subseteq Devices /\ Len(log) \in Nat
  BY DEF Devices, TypeOK
<1>1. replay[k] /\ UNCHANGED <<log, sock, cur, pos, stale>>
  BY DEF ReplayStep, data, readers
<1> SUFFICES ASSUME NEW d \in Clients PROVE FeedOf(d)'
  BY <1>1 DEF Feeds
<1>2. FeedOf(d)
  BY DEF Feeds
<1>3. CASE cur[d] = NoConn
  BY <1>1, <1>3 DEF FeedOf
<1>4. CASE cur[d] # NoConn /\ cur[d] # k
  <2>1. \A j \in Conns : j # k =>
          /\ wire'[j] = wire[j] /\ replay'[j] = replay[j] /\ cursor'[j] = cursor[j]
          /\ j \in hub' <=> j \in hub
    BY DEF ReplayStep, Turn, TypeOK
  <2>2. cur[d] \in Conns
    BY <1>0, <1>4 DEF TypeOK
  <2> QED BY <1>1, <1>2, <1>4, <2>1, <2>2, FeedKept
<1>5. CASE cur[d] = k /\ sock[k] # "open"
  <2>1. wire'[k] = wire[k]
    BY <1>5 DEF ReplayStep, Turn
  <2> QED BY <1>1, <1>2, <1>5, <2>1, FeedKept
<1>6. CASE cur[d] = k /\ sock[k] = "open"
  <2>1. dev[k] = d
    BY <1>0, <1>6 DEF Sockets
  <2>2. Read(k)
    BY <1>0, <1>6, <2>1 DEF Read
  <2>3. OpenTurn(k, d, cursor[k], known[k], wire)
    BY <1>6, <2>1, <2>2 DEF ReplayStep, Turn, OpenTurn
  <2>4. Continues(wire[k], pos[d], cursor[k]) /\ pos[d] <= cursor[k] /\ cursor[k] <= Len(log)
    BY <1>0, <1>1, <1>2, <1>6 DEF FeedOf, TypeOK
  <2>5. wire \in [Conns -> Seq(SUBSET Nat)] /\ pos[d] \in Nat /\ cursor[k] \in Nat
    BY <1>0 DEF TypeOK
  <2>6. \E top \in pos[d] .. Len(log) :
          /\ Continues(wire'[k], pos[d], top)
          /\ replay'[k] => top = cursor'[k]
          /\ ~replay'[k] => top = Len(log)
    BY SMTT(40), <2>3, <2>4, <2>5, TurnForClient, BoundsAssumption
  <2>7. replay'[k] => k \notin hub'
    <3>1. k \notin hub
      BY <1>1 DEF Sockets
    <3> QED BY <2>3, <3>1 DEF OpenTurn, Turn, TypeOK
  <2> QED BY <1>1, <1>6, <2>6, <2>7 DEF FeedOf, Live
<1> QED BY <1>3, <1>4, <1>5, <1>6

\* What is left: a socket breaks off, the process restarts, a device drops
\* its socket or fetches a snapshot.
LEMMA FeedsOther ==
    ASSUME TypeOK, Sockets, Feeds,
           \/ \E k \in Conns : Terminate(k) \/ Closed(k)
           \/ Restart
           \/ \E d \in Devices : Drop(d) \/ Snapshot(d)
           \/ UNCHANGED vars
    PROVE  Feeds'
<1> USE ConnsAssumption, DevicesAssumption
<1>0. Clients \subseteq Devices /\ Len(log) \in Nat
  BY DEF Devices, TypeOK
<1>1. ASSUME UNCHANGED <<log, cur, pos, stale, wire>>, hub' \subseteq hub,
             \A k \in Conns : /\ sock'[k] = "open" => sock[k] = "open"
                              /\ replay'[k] => replay[k] /\ cursor'[k] = cursor[k]
      PROVE  Feeds'
  <2> SUFFICES ASSUME NEW d \in Clients PROVE FeedOf(d)'
    BY <1>1 DEF Feeds
  <2>1. FeedOf(d) /\ (cur[d] # NoConn => cur[d] \in Conns)
    BY <1>0 DEF Feeds, TypeOK
  <2> QED BY <1>1, <2>1, FeedKept
<1>2. ASSUME NEW k \in Conns, Terminate(k) \/ Closed(k) PROVE Feeds'
  BY <1>1, <1>2 DEF Terminate, Closed, data, readers, TypeOK
<1>3. ASSUME Restart PROVE Feeds'
  BY <1>1, <1>3 DEF Restart, data, readers, TypeOK
<1>4. ASSUME NEW d \in Devices, Drop(d) PROVE Feeds'
  <2>1. /\ cur' = [cur EXCEPT ![d] = NoConn] /\ wire' = Abandoned(d)
        /\ UNCHANGED <<log, pos, stale, servers>>
    BY <1>4 DEF Drop, Reads, data
  <2>2. ASSUME NEW e \in Clients PROVE FeedOf(e)'
    <3>1. CASE e = d
      BY <1>0, <2>1, <3>1 DEF FeedOf, TypeOK
    <3>2. CASE e # d
      <4>1. FeedOf(e) /\ cur'[e] = cur[e] /\ (cur[e] # NoConn => cur[e] \in Conns)
        BY <1>0, <2>1, <3>2 DEF Feeds, TypeOK
      <4>2. cur[e] # NoConn => wire'[cur[e]] = wire[cur[e]]
        BY <1>0, <2>1, <3>2, <4>1, AbandonedType DEF Sockets
      <4> QED BY <2>1, <4>1, <4>2, FeedKept DEF servers
    <3> QED BY <3>1, <3>2
  <2>3. ASSUME NEW e \in Clients PROVE pos'[e] <= Len(log') /\ (stale'[e] => cur'[e] = NoConn)
    BY <1>0, <2>1 DEF Feeds, TypeOK
  <2> QED BY <2>2, <2>3 DEF Feeds
<1>5. ASSUME NEW d \in Devices, Snapshot(d) PROVE Feeds'
  <2>1. /\ stale[d] /\ pos' = [pos EXCEPT ![d] = Len(log)] /\ stale' = [stale EXCEPT ![d] = FALSE]
        /\ UNCHANGED <<log, cur, wire, servers>>
    BY <1>5 DEF Snapshot, data
  <2>2. ASSUME NEW e \in Clients PROVE FeedOf(e)'
    <3>1. CASE e = d
      BY <2>1, <3>1 DEF Feeds, FeedOf
    <3>2. CASE e # d
      <4>1. FeedOf(e) /\ pos'[e] = pos[e]
        BY <1>0, <2>1, <3>2 DEF Feeds, TypeOK
      <4> QED BY <2>1, <4>1, FeedKept DEF servers
    <3> QED BY <3>1, <3>2
  <2>3. ASSUME NEW e \in Clients PROVE pos'[e] <= Len(log') /\ (stale'[e] => cur'[e] = NoConn)
    BY <1>0, <2>1 DEF Feeds, TypeOK
  <2> QED BY <2>2, <2>3 DEF Feeds
<1>6. CASE UNCHANGED vars
  BY <1>1, <1>6 DEF vars, data, servers, readers
<1> QED BY <1>2, <1>3, <1>4, <1>5, <1>6

LEMMA FeedsStep == TypeOK /\ Sockets /\ Feeds /\ [Next]_vars => Feeds'
BY FeedsWrite, FeedsAttach, FeedsReplay, FeedsReceive, FeedsOther DEF Next

THEOREM FeedsHold == Spec => [](TypeOK /\ Sockets /\ Feeds)
<1>1. Init => Feeds
  <2> SUFFICES ASSUME Init PROVE Feeds
    OBVIOUS
  <2>1. \A d \in Clients : cur[d] = NoConn /\ pos[d] = 0 /\ Len(log) = 0
    BY DEF Init, Devices
  <2> QED BY <2>1 DEF Feeds, FeedOf
<1>2. Spec => [](TypeOK /\ Sockets)
  BY SocketsAgree
<1> QED BY <1>1, <1>2, FeedsStep, PTL DEF Spec

\* What a client's current socket holds continues its cursor without gap,
\* repetition or reordering, up to the head once it is registered: the "no
\* gap between the last batch and registration" argument of ws.js, for any
\* number of devices, sockets, batch sizes and limits.
THEOREM NoGapOnAnySocket == Spec => []ClientFeed
BY FeedsHold, FeedsImplyClientFeed, PTL

-----------------------------------------------------------------------------
(* The feed of an agent.                                                   *)

LEMMA OrderedAppend ==
    ASSUME NEW w \in Seq(SUBSET Nat), NEW S \in SUBSET Nat, Ordered(w),
           \A x \in Frames(w), y \in S : x < y
    PROVE  Ordered(Append(w, S))
<1> DEFINE v == Append(w, S)
<1>1. /\ DOMAIN v = 1 .. Len(w) + 1
      /\ DOMAIN w = 1 .. Len(w)
      /\ Len(w) \in Nat
      /\ v[Len(w) + 1] = S
      /\ \A i \in 1 .. Len(w) : v[i] = w[i]
  OBVIOUS
<1> HIDE DEF v
<1> SUFFICES ASSUME NEW i \in DOMAIN v, NEW j \in DOMAIN v, i < j, NEW x \in v[i], NEW y \in v[j]
             PROVE  x < y
  BY DEF Ordered, v
<1>2. i \in 1 .. Len(w) /\ x \in w[i]
  BY <1>1
<1>3. CASE j = Len(w) + 1
  <2>1. x \in Frames(w) /\ y \in S
    BY <1>1, <1>2, <1>3, FramesMember
  <2> QED BY <2>1
<1>4. CASE j \in 1 .. Len(w)
  BY <1>1, <1>2, <1>4 DEF Ordered
<1> QED BY <1>1, <1>3, <1>4

\* The next frame of an ordered queue is its least, and the rest is the others.
LEMMA OrderedRest ==
    ASSUME NEW w \in Seq(SUBSET Nat), w # <<>>, Ordered(w),
           NEW n \in Head(w), \A x \in Head(w) : n <= x
    PROVE  /\ Ordered(Rest(w, n))
           /\ n \in Frames(w)
           /\ \A x \in Frames(w) : n <= x
           /\ \A x : x \in Frames(Rest(w, n)) <=> x \in Frames(w) /\ x # n
<1>1. /\ Len(w) \in Nat \ {0}
      /\ DOMAIN w = 1 .. Len(w)
      /\ Head(w) = w[1]
      /\ w[1] \in SUBSET Nat
      /\ DOMAIN Tail(w) = 1 .. Len(w) - 1
      /\ \A i \in 1 .. Len(w) - 1 : Tail(w)[i] = w[i + 1] /\ w[i + 1] \in SUBSET Nat
  OBVIOUS
<1>2. /\ Frames(Rest(w, n)) = (Head(w) \ {n}) \cup Frames(Tail(w))
      /\ Frames(w) = Head(w) \cup Frames(Tail(w))
  BY RestShrinks, FramesRest
<1>3. \A x \in Frames(Tail(w)) : n < x /\ x \in Nat
  <2> SUFFICES ASSUME NEW x \in Frames(Tail(w)) PROVE n < x /\ x \in Nat
    OBVIOUS
  <2>1. PICK i \in DOMAIN Tail(w) : x \in Tail(w)[i]
    BY FramesMember
  <2>2. i + 1 \in DOMAIN w /\ 1 \in DOMAIN w /\ 1 < i + 1 /\ x \in w[i + 1] /\ n \in w[1]
    BY <1>1, <2>1
  <2> QED BY <1>1, <2>1, <2>2 DEF Ordered
<1>4. n \in Nat /\ \A x \in Head(w) : x \in Nat
  BY <1>1
<1>5. \A x \in Frames(w) : n <= x
  BY <1>2, <1>3, <1>4
<1>6. \A x : x \in Frames(Rest(w, n)) <=> x \in Frames(w) /\ x # n
  BY <1>2, <1>3, <1>4
<1>7. Ordered(Rest(w, n))
  <2>1. CASE Head(w) = {n}
    <3>1. Rest(w, n) = Tail(w)
      BY <2>1 DEF Rest
    <3> SUFFICES ASSUME NEW i \in DOMAIN Tail(w), NEW j \in DOMAIN Tail(w), i < j,
                        NEW x \in Tail(w)[i], NEW y \in Tail(w)[j]
                 PROVE  x < y
      BY <3>1 DEF Ordered
    <3>2. i + 1 \in DOMAIN w /\ j + 1 \in DOMAIN w /\ i + 1 < j + 1 /\ x \in w[i + 1] /\ y \in w[j + 1]
      BY <1>1
    <3> QED BY <3>2 DEF Ordered
  <2>2. CASE Head(w) # {n}
    <3> DEFINE v == [w EXCEPT ![1] = @ \ {n}]
    <3>1. DOMAIN v = DOMAIN w /\ \A i \in DOMAIN w : v[i] \subseteq w[i]
      BY <1>1
    <3>2. Rest(w, n) = v
      BY <2>2 DEF Rest
    <3> HIDE DEF v
    <3> QED BY <3>1, <3>2 DEF Ordered
  <2> QED BY <2>1, <2>2
<1> QED BY <1>2, <1>5, <1>6, <1>7

\* An agent at p that reads the writes w has, up to top, all of the log lg
\* that was meant for it, but what the decisions in memo kept from it; and w
\* is in order.
Serves(lg, w, d, p, top, memo) ==
    /\ Ordered(w)
    /\ Frames(w) \subseteq p + 1 .. top
    /\ \A n \in p + 1 .. top :
           d \in lg[n].to => n \in Frames(w) \/ memo[lg[n].convo] = "no"

\* No card was meant for an agent.
CardsForNoAgent == \A n \in 1 .. Len(log) : log[n].kind = "card" => log[n].to = {}

\* Of a socket that takes no more frames only the order is left to ask.
ServedOf(d) ==
    cur[d] # NoConn =>
        /\ Ordered(wire[cur[d]]) /\ InFlight(cur[d]) \subseteq pos[d] + 1 .. Len(log)
        /\ sock[cur[d]] = "open" =>
               \E top \in pos[d] .. Len(log) :
                   /\ Serves(log, wire[cur[d]], d, pos[d], top, known[cur[d]])
                   /\ cur[d] \in hub => top = Len(log)
                   /\ replay[cur[d]] => top = cursor[cur[d]]

\* AgentFeed speaks of registered sockets and of events the agent may see
\* now; its induction goes by the sockets in replay, whose decisions
\* are not revised, and by those who were meant when an event was written.
Served ==
    /\ CardsForNoAgent
    /\ \A d \in Agents : /\ ServedOf(d)
                         /\ pos[d] <= Len(log)
                         /\ stale[d] => cur[d] = NoConn

LEMMA ServedIsAgentFeed == TypeOK /\ Served => AgentFeed
<1> SUFFICES ASSUME TypeOK, Served, NEW d \in Agents, cur[d] # NoConn, Live(cur[d]),
                    NEW n \in pos[d] + 1 .. Len(log), d \in log[n].to
             PROVE  n \in InFlight(cur[d]) \/ known[cur[d]][log[n].convo] = "no"
  BY DEF AgentFeed
<1>1. Serves(log, wire[cur[d]], d, pos[d], Len(log), known[cur[d]])
  BY DEF Served, ServedOf, Live
<1> QED BY <1>1 DEF Serves, InFlight

LEMMA ServesNothing ==
    ASSUME NEW d, NEW p \in Nat, NEW memo PROVE Serves(log, <<>>, d, p, p, memo)
<1>1. Frames(<<>>) = {} /\ Ordered(<<>>)
  BY DEF Frames, Ordered
<1>2. p + 1 .. p = {}
  OBVIOUS
<1> QED BY <1>1, <1>2 DEF Serves

\* Decisions of a replay are kept, and the batch of a turn is decided.
LEMMA DecisionsKept ==
    ASSUME NEW d \in Agents, NEW memo \in [Convos -> {"unknown", "yes", "no"}], NEW S
    PROVE  /\ \A c \in Convos : memo[c] = "no" => Remember(d, memo, S)[c] = "no"
           /\ \A n \in S : log[n].convo \in Convos =>
                  \/ Decide(d, log[n].convo, memo) = "yes"
                  \/ Remember(d, memo, S)[log[n].convo] = "no"
<1>1. \A c \in Convos : Decide(d, c, memo) \in {"yes", "no"} /\ (memo[c] = "no" => Decide(d, c, memo) = "no")
  BY DEF Decide
<1>2. \A c \in Convos : Remember(d, memo, S)[c] = IF \E n \in S : log[n].convo = c
                                                  THEN Decide(d, c, memo) ELSE memo[c]
  BY DEF Remember
<1> QED BY <1>1, <1>2

\* What a turn leaves on the wire of an agent at p: it is served up to the
\* loop's cursor, or up to the end if the loop is over.
TurnServes(k, d, p) ==
    \E top \in p .. Len(log) :
        /\ Serves(log, wire'[k], d, p, top, known'[k])
        /\ replay'[k] => top = cursor'[k]
        /\ ~replay'[k] => top = Len(log)

LEMMA TurnForAgent ==
    ASSUME TypeOK, BoundsAssumption, DevicesAssumption, CardsForNoAgent,
           NEW k \in Conns, NEW d \in Agents, NEW from \in Nat, from <= Len(log),
           NEW memo \in [Convos -> {"unknown", "yes", "no"}],
           NEW lines \in [Conns -> Seq(SUBSET Nat)], NEW p \in Nat, p <= from,
           Serves(log, lines[k], d, p, from, memo),
           OpenTurn(k, d, from, memo, lines)
    PROVE  TurnServes(k, d, p)
<1> DEFINE out == Replayed(d, memo, Batch(from))
           top == IF Len(log) - from >= BatchSize THEN from + BatchSize ELSE Len(log)
           after == Remember(d, memo, Batch(from))
<1>0. Len(log) \in Nat /\ BatchSize \in Nat
  BY DEF TypeOK, BoundsAssumption
<1>1. \A n : n \in Batch(from) <=> n \in from + 1 .. top
  BY <1>0 DEF Batch
<1>2. top \in Nat /\ from <= top /\ top <= Len(log)
  BY <1>0
<1>3. wire'[k] = IF out # {} THEN Append(lines[k], out) ELSE lines[k]
  <2>1. wire' = IF TRUE /\ out # {} THEN [lines EXCEPT ![k] = Append(@, out)] ELSE lines
    BY DEF OpenTurn, Turn
  <2> HIDE DEF out
  <2> QED BY <2>1
<1>4. /\ replay'[k] => top = cursor'[k]
      /\ ~replay'[k] => top = Len(log)
  <2>1. CASE Len(log) - from >= BatchSize
    <3>1. replay' = [replay EXCEPT ![k] = TRUE] /\ cursor' = [cursor EXCEPT ![k] = from + BatchSize]
      BY <2>1 DEF OpenTurn, Turn
    <3> QED BY <2>1, <3>1 DEF TypeOK
  <2>2. CASE ~(Len(log) - from >= BatchSize)
    <3>1. replay' = [replay EXCEPT ![k] = FALSE]
      BY <2>2 DEF OpenTurn, Turn
    <3> QED BY <2>2, <3>1 DEF TypeOK
  <2> QED BY <2>1, <2>2
<1>5. known'[k] = after
  <2>1. known' = [known EXCEPT ![k] = after]
    BY DEF OpenTurn, Turn
  <2> HIDE DEF after
  <2> QED BY <2>1 DEF TypeOK
<1>6. /\ out \subseteq Batch(from)
      /\ \A n \in Batch(from) :
             Decide(d, log[n].convo, memo) = "yes" /\ log[n].kind # "card" => n \in out
  BY DEF Replayed, DevicesAssumption
<1>7. /\ \A c \in Convos : memo[c] = "no" => after[c] = "no"
      /\ \A n \in Batch(from) : log[n].convo \in Convos =>
             Decide(d, log[n].convo, memo) = "yes" \/ after[log[n].convo] = "no"
  BY DecisionsKept
<1>8. \A n \in 1 .. Len(log) : log[n].convo \in Convos
  BY LogConvos
<1> HIDE DEF top, out, after
<1>9. /\ out \in SUBSET Nat
      /\ \A y \in out : y \in from + 1 .. top
  BY <1>1, <1>2, <1>6
<1>10. Frames(wire'[k]) = Frames(lines[k]) \cup out
  BY <1>3, <1>9, FramesAppend
<1>11. Ordered(lines[k]) /\ Frames(lines[k]) \subseteq p + 1 .. from
  BY DEF Serves
<1>12. Ordered(wire'[k])
  <2>1. \A x \in Frames(lines[k]), y \in out : x < y
    BY <1>2, <1>9, <1>11
  <2>2. Ordered(Append(lines[k], out))
    BY <1>9, <1>11, <2>1, OrderedAppend
  <2> QED BY <1>3, <1>11, <2>2
<1>13. Frames(wire'[k]) \subseteq p + 1 .. top
  <2>1. \A x \in p + 1 .. from : x \in p + 1 .. top
    BY <1>2
  <2>2. \A x \in from + 1 .. top : x \in p + 1 .. top
    BY <1>2
  <2> QED BY <1>9, <1>10, <1>11, <2>1, <2>2
<1>14. ASSUME NEW n \in p + 1 .. top, d \in log[n].to
       PROVE  n \in Frames(wire'[k]) \/ after[log[n].convo] = "no"
  <2>1. n \in 1 .. Len(log) /\ log[n].kind # "card"
    BY <1>0, <1>2, <1>14 DEF CardsForNoAgent
  <2>2. CASE n <= from
    <3>1. n \in Frames(lines[k]) \/ memo[log[n].convo] = "no"
      BY <1>14, <2>1, <2>2 DEF Serves
    <3> QED BY <1>7, <1>8, <1>10, <2>1, <3>1
  <2>3. CASE ~(n <= from)
    <3>1. n \in Batch(from)
      BY <1>1, <1>2, <1>14, <2>1, <2>3
    <3> QED BY <1>6, <1>7, <1>8, <1>10, <2>1, <3>1
  <2> QED BY <2>2, <2>3
<1>15. Serves(log, wire'[k], d, p, top, known'[k])
  BY <1>5, <1>12, <1>13, <1>14 DEF Serves
<1>16. top \in p .. Len(log)
  BY <1>0, <1>2
<1> QED BY <1>4, <1>15, <1>16 DEF TurnServes

\* An agent whose own part of the state is untouched keeps what it has.
LEMMA ServedKept ==
    ASSUME TypeOK, NEW d \in Agents, ServedOf(d), UNCHANGED log,
           cur'[d] = cur[d], pos'[d] = pos[d],
           cur[d] # NoConn =>
               /\ wire'[cur[d]] = wire[cur[d]]
               /\ sock'[cur[d]] = "open" =>
                      /\ sock[cur[d]] = "open" /\ known'[cur[d]] = known[cur[d]]
                      /\ replay'[cur[d]] => replay[cur[d]] /\ cursor'[cur[d]] = cursor[cur[d]]
                      /\ cur[d] \in hub' => cur[d] \in hub
    PROVE  ServedOf(d)'
BY DEF ServedOf, Serves, InFlight

LEMMA ServedWrite ==
    ASSUME TypeOK, Sockets, Served, NEW c \in Convos, Write(c) \/ Member(c)
    PROVE  Served'
<1> USE ConnsAssumption, DevicesAssumption
<1>1. UNCHANGED <<servers, readers>>
  BY WriteStep
<1>2. CASE UNCHANGED <<log, wire>>
  <2>1. UNCHANGED <<log, wire, cur, pos, stale, replay, sock, hub, cursor, known>>
    BY <1>1, <1>2 DEF servers, readers
  <2>2. ASSUME NEW d \in Agents PROVE ServedOf(d)' /\ pos'[d] <= Len(log') /\ (stale'[d] => cur'[d] = NoConn)
    BY <2>1, ServedKept DEF Served
  <2> QED BY <2>1, <2>2 DEF Served, CardsForNoAgent
<1>3. CASE Posted(c)
  <2>1. PICK kind, key, to, n :
          Posting(c, kind, key, to, n) /\ to = Entitled(c, kind, owner', row')
    BY <1>3 DEF Posted
  <2> DEFINE new == Len(log) + 1 .. Len(log) + n
  <2>2. /\ n \in Nat /\ Len(log) \in Nat /\ Len(log') = Len(log) + n
        /\ \A i \in 1 .. Len(log) : log'[i] = log[i]
        /\ \A i \in new : log'[i].kind = kind /\ log'[i].to = to
    <3>1. n \in Nat /\ Len(log) \in Nat
      BY <2>1 DEF Posting, TypeOK
    <3>2. /\ Len(log') = Len(log) + n
          /\ \A i \in 1 .. Len(log) : log'[i] = log[i]
          /\ \A i \in new : log'[i] = [convo |-> c, kind |-> kind, key |-> key, to |-> to]
      BY <2>1, PostingType
    <3> QED BY <3>1, <3>2
  <2>3. CardsForNoAgent'
    <3>1. kind = "card" => to = {}
      BY <2>1 DEF Entitled
    <3> QED BY <2>2, <3>1 DEF Served, CardsForNoAgent
  <2>4. ASSUME NEW d \in Agents, cur[d] # NoConn PROVE ServedOf(d)'
    <3>0. PICK k \in Conns : k = cur[d]
      BY <2>4 DEF TypeOK, Devices
    <3>1. k \in Conns /\ d \in Devices /\ wire[k] \in Seq(SUBSET Nat) /\ pos[d] \in Nat
      BY <2>4, <3>0 DEF TypeOK, Devices
    <3>2. /\ Ordered(wire[k]) /\ Frames(wire[k]) \subseteq pos[d] + 1 .. Len(log)
          /\ pos[d] <= Len(log) /\ ServedOf(d)
      BY <2>4, <3>0 DEF Served, ServedOf, InFlight
    <3>3. new \in SUBSET Nat
      BY <2>2
    <3>4. /\ cur'[d] = k /\ pos'[d] = pos[d]
          /\ UNCHANGED <<sock, hub, replay, cursor, known>>
      BY <1>1, <3>0 DEF servers, readers
    <3>5. CASE wire'[k] = wire[k]
      <4>1. \A i \in pos[d] + 1 .. Len(log) : i \in pos[d] + 1 .. Len(log')
        BY <2>2, <3>1
      <4>2. ASSUME sock[k] = "open", NEW top \in pos[d] .. Len(log), Serves(log, wire[k], d, pos[d], top, known[k])
            PROVE  Serves(log', wire'[k], d, pos'[d], top, known'[k])
        BY <2>2, <3>1, <3>4, <3>5, <4>2 DEF Serves
      <4>3. k \in hub /\ sock[k] = "open" /\ n > 0 => d \notin to
        <5>1. dev[k] = d \/ sock[k] # "open"
          BY <2>4, <3>0, <3>1 DEF Sockets
        <5>2. n > 0 /\ Live(k) /\ Read(k) => dev[k] \notin to
          <6>1. \/ wire'[k] = wire[k] /\ (n > 0 /\ Live(k) /\ Read(k) => dev[k] \notin Clients \cup to)
                \/ wire'[k] = Append(wire[k], Len(log) + 1 .. Len(log) + n)
            BY <2>1, <3>1, PostingWire
          <6>2. wire'[k] # Append(wire[k], Len(log) + 1 .. Len(log) + n)
            <7>1. Len(Append(wire[k], new)) = Len(wire[k]) + 1 /\ Len(wire[k]) \in Nat
              BY <3>1, <3>3
            <7> QED BY <3>5, <7>1
          <6> QED BY <6>1, <6>2
        <5>3. NoDevice # d
          BY <3>1
        <5> QED BY <3>0, <5>1, <5>2, <5>3 DEF Live, Read
      <4>4. ASSUME sock[k] = "open"
            PROVE  \E top \in pos'[d] .. Len(log') :
                       /\ Serves(log', wire'[k], d, pos'[d], top, known'[k])
                       /\ k \in hub' => top = Len(log')
                       /\ replay'[k] => top = cursor'[k]
        <5>1. PICK top \in pos[d] .. Len(log) :
                /\ Serves(log, wire[k], d, pos[d], top, known[k])
                /\ k \in hub => top = Len(log)
                /\ replay[k] => top = cursor[k]
          BY <2>4, <3>0, <3>2, <4>4 DEF ServedOf
        <5>2. top \in pos'[d] .. Len(log') /\ Serves(log', wire'[k], d, pos'[d], top, known'[k])
          BY <2>2, <3>1, <3>4, <4>2, <4>4, <5>1
        <5>3. CASE k \notin hub
          BY <3>4, <5>1, <5>2, <5>3
        <5>4. CASE k \in hub
          <6>1. ~replay[k]
            BY <3>1, <5>4 DEF Sockets
          <6>2. Serves(log', wire'[k], d, pos'[d], Len(log'), known'[k])
            <7>1. top = Len(log)
              BY <5>1, <5>4
            <7>2. Ordered(wire'[k]) /\ Frames(wire'[k]) \subseteq pos'[d] + 1 .. Len(log')
              BY <3>2, <3>4, <3>5, <4>1
            <7>3. ASSUME NEW i \in pos'[d] + 1 .. Len(log'), d \in log'[i].to
                  PROVE  i \in Frames(wire'[k]) \/ known'[k][log'[i].convo] = "no"
              <8>1. CASE i <= Len(log)
                <9>1. i \in pos'[d] + 1 .. top
                  BY <2>2, <3>1, <3>4, <7>1, <7>3, <8>1
                <9> QED BY <5>2, <7>3, <9>1 DEF Serves
              <8>2. CASE ~(i <= Len(log))
                <9>1. i \in new /\ n > 0
                  BY <2>2, <3>1, <3>4, <7>3, <8>2
                <9> QED BY <2>2, <4>3, <4>4, <5>4, <7>3, <9>1
              <8> QED BY <8>1, <8>2
            <7> QED BY <7>2, <7>3 DEF Serves
          <6>3. Len(log') \in pos'[d] .. Len(log')
            BY <2>2, <3>1, <3>2, <3>4
          <6> QED BY <3>4, <6>1, <6>2, <6>3
        <5> QED BY <5>3, <5>4
      <4>5. Ordered(wire'[k]) /\ Frames(wire'[k]) \subseteq pos'[d] + 1 .. Len(log')
        BY <3>2, <3>4, <3>5, <4>1
      <4> QED BY <3>0, <3>4, <4>4, <4>5 DEF ServedOf, InFlight
    <3>6. CASE wire'[k] # wire[k]
      <4>1. /\ Live(k) /\ Read(k)
            /\ wire'[k] = Append(wire[k], new)
        BY <2>1, <3>0, <3>1, <3>6, PostingWire
      <4>2. ~replay[k] /\ k \in hub /\ sock[k] = "open"
        BY <3>1, <4>1 DEF Sockets, Live
      <4>3. Serves(log, wire[k], d, pos[d], Len(log), known[k])
        BY <2>4, <3>0, <3>2, <4>2 DEF ServedOf
      <4> HIDE DEF new
      <4>4. Frames(wire'[k]) = Frames(wire[k]) \cup new
        BY <3>1, <3>3, <4>1, FramesAppend
      <4>5. Ordered(wire'[k])
        <5>1. \A x \in Frames(wire[k]), y \in new : x < y
          BY <2>2, <3>2 DEF new
        <5> QED BY <3>1, <3>2, <3>3, <4>1, <5>1, OrderedAppend
      <4>6. Frames(wire'[k]) \subseteq pos'[d] + 1 .. Len(log')
        <5>1. \A x \in pos[d] + 1 .. Len(log) : x \in pos[d] + 1 .. Len(log')
          BY <2>2, <3>1
        <5>2. \A x \in new : x \in pos[d] + 1 .. Len(log')
          BY <2>2, <3>1, <3>2 DEF new
        <5> QED BY <3>2, <3>4, <4>4, <5>1, <5>2
      <4>7. ASSUME NEW i \in pos'[d] + 1 .. Len(log'), d \in log'[i].to
            PROVE  i \in Frames(wire'[k]) \/ known'[k][log'[i].convo] = "no"
        <5>1. CASE i <= Len(log)
          <6>1. i \in pos[d] + 1 .. Len(log) /\ i \in 1 .. Len(log)
            BY <2>2, <3>1, <3>4, <4>7, <5>1
          <6>2. log'[i] = log[i] /\ known'[k] = known[k]
            BY <2>2, <3>4, <6>1
          <6> QED BY <4>3, <4>4, <4>7, <6>1, <6>2 DEF Serves
        <5>2. CASE ~(i <= Len(log))
          <6>1. i \in new
            BY <2>2, <3>1, <3>4, <4>7, <5>2 DEF new
          <6> QED BY <4>4, <6>1
        <5> QED BY <5>1, <5>2
      <4>8. Serves(log', wire'[k], d, pos'[d], Len(log'), known'[k])
        BY <4>5, <4>6, <4>7 DEF Serves
      <4>9. Len(log') \in pos'[d] .. Len(log')
        BY <2>2, <3>1, <3>2, <3>4
      <4> QED BY <3>0, <3>4, <4>2, <4>5, <4>6, <4>8, <4>9 DEF ServedOf, InFlight
    <3> QED BY <3>5, <3>6
  <2>5. ASSUME NEW d \in Agents PROVE ServedOf(d)' /\ pos'[d] <= Len(log') /\ (stale'[d] => cur'[d] = NoConn)
    <3>1. /\ cur'[d] = cur[d] /\ pos'[d] = pos[d] /\ pos[d] \in Nat /\ pos[d] <= Len(log)
          /\ stale'[d] => cur'[d] = NoConn
      BY <1>1 DEF readers, TypeOK, Devices, Served
    <3>2. pos'[d] <= Len(log')
      BY <2>2, <3>1
    <3>3. CASE cur[d] = NoConn
      BY <3>1, <3>2, <3>3 DEF ServedOf
    <3>4. CASE cur[d] # NoConn
      BY <2>4, <3>1, <3>2, <3>4
    <3> QED BY <3>3, <3>4
  <2> QED BY <2>3, <2>5 DEF Served
<1> QED BY <1>2, <1>3, WriteStep

\* A device that connects, or is told to fetch a snapshot.
LEMMA ServedAttach ==
    ASSUME TypeOK, Sockets, Served, NEW d \in Devices, NEW k \in Conns, Attach(d, k)
    PROVE  Served'
<1> USE ConnsAssumption, DevicesAssumption
<1>0. /\ Agents \subseteq Devices
      /\ Len(log) \in Nat
      /\ Abandoned(d) \in [Conns -> Seq(SUBSET Nat)]
      /\ \A j \in Conns : Abandoned(d)[j] = IF cur[d] = j THEN <<>> ELSE wire[j]
  BY AbandonedType DEF Devices, TypeOK
<1>1. ASSUME UNCHANGED log, sock[k] = "unused",
             \A j \in Conns : j # k => /\ sock'[j] = sock[j] /\ wire'[j] = Abandoned(d)[j]
                                      /\ known'[j] = known[j] /\ replay'[j] = replay[j]
                                      /\ cursor'[j] = cursor[j] /\ (j \in hub' <=> j \in hub),
             cur' = [cur EXCEPT ![d] = NoConn] \/ cur' = [cur EXCEPT ![d] = k],
             UNCHANGED stale \/ (cur' = [cur EXCEPT ![d] = NoConn] /\ stale' = [stale EXCEPT ![d] = TRUE]),
             UNCHANGED pos \/ pos' = [pos EXCEPT ![d] = Len(log)],
             ~stale[d], d \in Agents => ServedOf(d)'
      PROVE  Served'
  <2>1. ASSUME NEW e \in Agents, e # d PROVE ServedOf(e)'
    <3>1. ServedOf(e) /\ cur'[e] = cur[e] /\ pos'[e] = pos[e]
      BY <1>0, <1>1, <2>1 DEF Served, TypeOK
    <3>2. cur[e] # NoConn => cur[e] \in Conns /\ cur[e] # k /\ cur[e] # cur[d]
      BY <1>0, <1>1, <2>1 DEF Sockets, TypeOK
    <3>3. cur[e] # NoConn =>
            /\ wire'[cur[e]] = wire[cur[e]] /\ sock'[cur[e]] = sock[cur[e]]
            /\ known'[cur[e]] = known[cur[e]]
            /\ replay'[cur[e]] = replay[cur[e]] /\ cursor'[cur[e]] = cursor[cur[e]]
            /\ cur[e] \in hub' <=> cur[e] \in hub
      BY <1>0, <1>1, <3>2
    <3> QED BY <1>1, <3>1, <3>3, ServedKept
  <2>2. ASSUME NEW e \in Agents PROVE pos'[e] <= Len(log') /\ (stale'[e] => cur'[e] = NoConn)
    <3>1. pos[e] \in Nat /\ pos[e] <= Len(log) /\ (stale[e] => cur[e] = NoConn)
      BY <1>0 DEF Served, TypeOK
    <3>2. CASE e = d
      BY <1>0, <1>1, <3>1, <3>2 DEF TypeOK
    <3>3. CASE e # d
      BY <1>0, <1>1, <3>1, <3>3 DEF TypeOK
    <3> QED BY <3>2, <3>3
  <2> QED BY <1>1, <2>1, <2>2 DEF Served, CardsForNoAgent
<1>2. ASSUME NEW m \in HelloMax, HelloRefused(d, k, m) PROVE Served'
  <2>1. /\ sock[k] = "unused" /\ sock' = [sock EXCEPT ![k] = "closing"] /\ ~stale[d]
        /\ cur' = [cur EXCEPT ![d] = NoConn] /\ stale' = [stale EXCEPT ![d] = TRUE]
        /\ wire' = Abandoned(d)
        /\ UNCHANGED <<log, pos, hub, replay, cursor, known>>
    BY <1>2 DEF HelloRefused, Connect, Reads, data
  <2>2. ServedOf(d)'
    BY <2>1 DEF ServedOf, TypeOK
  <2>3. \A j \in Conns : j # k => sock'[j] = sock[j]
    BY <2>1 DEF TypeOK
  <2> QED BY <1>1, <2>1, <2>2, <2>3
<1>3. ASSUME HelloFresh(d, k) PROVE Served'
  <2>1. /\ sock[k] = "unused" /\ sock' = [sock EXCEPT ![k] = "open"] /\ ~stale[d]
        /\ cur' = [cur EXCEPT ![d] = k] /\ pos' = [pos EXCEPT ![d] = Len(log)]
        /\ wire' = Abandoned(d) /\ hub' = hub \cup {k}
        /\ UNCHANGED <<log, stale, replay, cursor, known>>
    BY <1>3 DEF HelloFresh, Connect, Reads, data
  <2>2. ~replay[k] /\ wire[k] = <<>>
    BY <2>1 DEF Sockets
  <2>3. wire'[k] = <<>> /\ cur'[d] = k /\ pos'[d] = Len(log) /\ ~replay'[k]
    BY <1>0, <2>1, <2>2 DEF TypeOK
  <2>4. ServedOf(d)'
    <3>1. Serves(log', wire'[k], d, pos'[d], Len(log'), known'[k])
      <4>1. Serves(log, <<>>, d, Len(log), Len(log), known'[k])
        BY <1>0, ServesNothing
      <4> QED BY <2>1, <2>3, <4>1
    <3>2. Len(log') \in pos'[d] .. Len(log')
      BY <1>0, <2>1, <2>3
    <3>3. Ordered(wire'[k]) /\ Frames(wire'[k]) \subseteq pos'[d] + 1 .. Len(log')
      BY <3>1 DEF Serves
    <3> QED BY <2>3, <3>1, <3>2, <3>3 DEF ServedOf, InFlight
  <2>5. \A j \in Conns : j # k => sock'[j] = sock[j] /\ (j \in hub' <=> j \in hub)
    BY <2>1 DEF TypeOK
  <2> QED BY <1>1, <2>1, <2>4, <2>5
<1>4. ASSUME NEW m \in HelloMax, Hello(d, k, m) PROVE Served'
  <2> DEFINE left == Abandoned(d)
             from == pos[d]
             memo == Undecided
  <2>1. /\ sock[k] = "unused" /\ sock' = [sock EXCEPT ![k] = "open"] /\ ~stale[d]
        /\ cur' = [cur EXCEPT ![d] = k]
        /\ OpenTurn(k, d, from, memo, left)
        /\ UNCHANGED <<log, pos, stale>>
    BY <1>4 DEF Hello, Connect, Reads, data, OpenTurn
  <2>2. left[k] = <<>> /\ k \notin hub
    BY <1>0, <2>1 DEF Sockets
  <2>3. from \in Nat /\ left \in [Conns -> Seq(SUBSET Nat)]
        /\ memo \in [Convos -> {"unknown", "yes", "no"}]
    BY <1>0 DEF TypeOK, Undecided
  <2>4. \A j \in Conns : j # k => /\ replay'[j] = replay[j] /\ cursor'[j] = cursor[j]
                                  /\ known'[j] = known[j] /\ (j \in hub' <=> j \in hub)
    BY <2>1 DEF OpenTurn, Turn, TypeOK
  <2> HIDE DEF memo, left
  <2>5. \A j \in Conns : j # k => wire'[j] = left[j]
    <3>1. PICK out : wire' = IF TRUE /\ out # {} THEN [left EXCEPT ![k] = Append(@, out)] ELSE left
      BY <2>1 DEF OpenTurn, Turn
    <3> QED BY <2>3, <3>1
  <2>6. ASSUME d \in Agents PROVE ServedOf(d)'
    <3>1. from <= Len(log) /\ CardsForNoAgent
      BY <2>6 DEF Served
    <3>2. Serves(log, left[k], d, from, from, memo)
      BY <2>2, <2>3, ServesNothing
    <3>3. PICK top \in from .. Len(log) :
             /\ Serves(log, wire'[k], d, from, top, known'[k])
             /\ replay'[k] => top = cursor'[k]
             /\ ~replay'[k] => top = Len(log)
      <4> HIDE DEF from
      <4>1. from <= from
        BY <2>3
      <4>2. TurnServes(k, d, from)
        BY <2>1, <2>3, <2>6, <3>1, <3>2, <4>1, TurnForAgent, BoundsAssumption
      <4> QED BY <4>2 DEF TurnServes
    <3>4. replay'[k] => k \notin hub'
      BY <2>1, <2>2 DEF OpenTurn, Turn, TypeOK
    <3>5. cur'[d] = k
      BY <2>1 DEF TypeOK
    <3>6. Ordered(wire'[k]) /\ Frames(wire'[k]) \subseteq from + 1 .. Len(log)
      <4>1. \A x \in from + 1 .. top : x \in from + 1 .. Len(log)
        BY <1>0, <2>3
      <4> QED BY <3>3, <4>1 DEF Serves
    <3> QED BY <2>1, <3>3, <3>4, <3>5, <3>6 DEF ServedOf, InFlight
  <2>7. \A j \in Conns : j # k => sock'[j] = sock[j]
    BY <2>1 DEF TypeOK
  <2> QED BY <1>1, <2>1, <2>4, <2>5, <2>6, <2>7 DEF left
<1> QED BY <1>2, <1>3, <1>4 DEF Attach

LEMMA ServedReplay ==
    ASSUME TypeOK, Sockets, Served, NEW k \in Conns, ReplayStep(k)
    PROVE  Served'
<1> USE ConnsAssumption, DevicesAssumption
<1>0. Agents \subseteq Devices /\ Len(log) \in Nat
  BY DEF Devices, TypeOK
<1>1. replay[k] /\ k \notin hub /\ UNCHANGED <<log, sock, cur, pos, stale>>
  BY DEF ReplayStep, data, readers, Sockets
<1> SUFFICES ASSUME NEW d \in Agents PROVE ServedOf(d)'
  BY <1>1 DEF Served, CardsForNoAgent
<1>2. ServedOf(d) /\ CardsForNoAgent
  BY DEF Served
<1>3. CASE cur[d] = NoConn
  BY <1>1, <1>3 DEF ServedOf
<1>4. CASE cur[d] # NoConn /\ cur[d] # k
  <2>1. \A j \in Conns : j # k =>
          /\ wire'[j] = wire[j] /\ replay'[j] = replay[j] /\ cursor'[j] = cursor[j]
          /\ known'[j] = known[j] /\ (j \in hub' <=> j \in hub)
    BY DEF ReplayStep, Turn, TypeOK
  <2>2. cur[d] \in Conns
    BY <1>0, <1>4 DEF TypeOK
  <2> QED BY <1>1, <1>2, <1>4, <2>1, <2>2, ServedKept
<1>5. CASE cur[d] = k /\ sock[k] # "open"
  <2>1. wire'[k] = wire[k]
    BY <1>5 DEF ReplayStep, Turn
  <2> QED BY <1>1, <1>2, <1>5, <2>1, ServedKept
<1>6. CASE cur[d] = k /\ sock[k] = "open"
  <2>1. dev[k] = d
    BY <1>0, <1>6 DEF Sockets
  <2>2. Read(k)
    BY <1>0, <1>6, <2>1 DEF Read
  <2>3. OpenTurn(k, d, cursor[k], known[k], wire)
    BY <1>6, <2>1, <2>2 DEF ReplayStep, Turn, OpenTurn
  <2>4. Serves(log, wire[k], d, pos[d], cursor[k], known[k]) /\ pos[d] <= cursor[k] /\ cursor[k] <= Len(log)
    BY <1>0, <1>1, <1>2, <1>6 DEF ServedOf, TypeOK
  <2>5. /\ wire \in [Conns -> Seq(SUBSET Nat)] /\ pos[d] \in Nat /\ cursor[k] \in Nat
        /\ known[k] \in [Convos -> {"unknown", "yes", "no"}]
    BY <1>0 DEF TypeOK
  <2>6. PICK top \in pos[d] .. Len(log) :
          /\ Serves(log, wire'[k], d, pos[d], top, known'[k])
          /\ replay'[k] => top = cursor'[k]
          /\ ~replay'[k] => top = Len(log)
    <3>1. TurnServes(k, d, pos[d])
      BY <1>2, <2>3, <2>4, <2>5, TurnForAgent, BoundsAssumption
    <3> QED BY <3>1 DEF TurnServes
  <2>7. replay'[k] => k \notin hub'
    BY <1>1, <2>3 DEF OpenTurn, Turn, TypeOK
  <2>8. Ordered(wire'[k]) /\ Frames(wire'[k]) \subseteq pos[d] + 1 .. Len(log)
    <3>1. \A x \in pos[d] + 1 .. top : x \in pos[d] + 1 .. Len(log)
      BY <1>0, <2>5
    <3> QED BY <2>6, <3>1 DEF Serves
  <2> QED BY <1>1, <1>6, <2>6, <2>7, <2>8 DEF ServedOf, InFlight
<1> QED BY <1>3, <1>4, <1>5, <1>6

\* What an agent reads next is the least that is in flight, so it passes over
\* nothing that was meant for it.
LEMMA ServedReceive ==
    ASSUME TypeOK, Sockets, Served, NEW d \in Devices, Receive(d)
    PROVE  Served'
<1> USE ConnsAssumption, DevicesAssumption
<1>0. Agents \subseteq Devices /\ Len(log) \in Nat
  BY DEF Devices, TypeOK
<1>1. PICK k \in Conns : k = cur[d] /\ cur[d] # NoConn
  BY DEF Receive, TypeOK
<1>2. PICK n : /\ n \in Head(wire[k]) /\ \A x \in Head(wire[k]) : n <= x
               /\ pos' = [pos EXCEPT ![d] = n]
               /\ wire' = [wire EXCEPT ![k] = Rest(@, n)]
  BY <1>1 DEF Receive
<1>3. wire[k] # <<>> /\ wire[k] \in Seq(SUBSET Nat)
      /\ UNCHANGED <<log, sock, hub, replay, cursor, known, cur, stale>>
  BY <1>1 DEF Receive, data, servers, TypeOK
<1>4. wire'[k] = Rest(wire[k], n) /\ pos'[d] = n /\ \A j \in Conns : j # k => wire'[j] = wire[j]
  BY <1>2 DEF TypeOK
<1>5. ASSUME NEW e \in Agents, e # d PROVE ServedOf(e)' /\ pos'[e] <= Len(log')
  <2>1. ServedOf(e) /\ pos[e] <= Len(log) /\ pos'[e] = pos[e] /\ cur'[e] = cur[e] /\ e \in Devices
    BY <1>0, <1>2, <1>3, <1>5 DEF Served, TypeOK
  <2>2. cur[e] # NoConn => cur[e] \in Conns /\ cur[e] # k
    BY <1>0, <1>1, <1>5, <2>1 DEF Sockets, TypeOK
  <2> QED BY <1>3, <1>4, <2>1, <2>2, ServedKept
<1>6. ASSUME d \in Agents PROVE ServedOf(d)' /\ pos'[d] <= Len(log')
  <2>1. /\ ServedOf(d) /\ Ordered(wire[k]) /\ Frames(wire[k]) \subseteq pos[d] + 1 .. Len(log)
        /\ pos[d] \in Nat
    BY <1>1, <1>6 DEF Served, ServedOf, InFlight, TypeOK
  <2>2. /\ Ordered(Rest(wire[k], n)) /\ n \in Frames(wire[k])
        /\ \A x \in Frames(wire[k]) : n <= x
        /\ \A x : x \in Frames(Rest(wire[k], n)) <=> x \in Frames(wire[k]) /\ x # n
    BY <1>2, <1>3, <2>1, OrderedRest
  <2>3. n \in pos[d] + 1 .. Len(log) /\ Frames(wire'[k]) \subseteq Frames(wire[k])
    BY <1>4, <2>1, <2>2
  <2>4. ASSUME NEW top \in pos[d] .. Len(log), Serves(log, wire[k], d, pos[d], top, known[k])
        PROVE  top \in n .. Len(log) /\ Serves(log', wire'[k], d, pos'[d], top, known'[k])
    <3>1. /\ Frames(wire[k]) \subseteq pos[d] + 1 .. top
          /\ \A i \in pos[d] + 1 .. top :
                 d \in log[i].to => i \in Frames(wire[k]) \/ known[k][log[i].convo] = "no"
      BY <2>4 DEF Serves
    <3>2. n \in pos[d] + 1 .. top /\ top \in Nat
      BY <1>0, <2>1, <2>2, <2>4, <3>1
    <3>3. \A x \in pos[d] + 1 .. top : n <= x /\ x # n => x \in n + 1 .. top
      BY <2>1, <3>2
    <3>4. Frames(wire'[k]) \subseteq n + 1 .. top
      BY <1>4, <2>2, <3>1, <3>3
    <3>5. ASSUME NEW i \in n + 1 .. top, d \in log[i].to
          PROVE  i \in Frames(wire'[k]) \/ known[k][log[i].convo] = "no"
      <4>1. i # n /\ i \in pos[d] + 1 .. top
        BY <2>1, <3>2
      <4> QED BY <1>4, <2>2, <3>1, <3>5, <4>1
    <3>6. top \in n .. Len(log)
      BY <1>0, <2>4, <3>2
    <3> QED BY <1>3, <1>4, <2>2, <3>4, <3>5, <3>6 DEF Serves
  <2>5. Frames(wire'[k]) \subseteq n + 1 .. Len(log)
    <3>1. \A x \in pos[d] + 1 .. Len(log) : n <= x /\ x # n => x \in n + 1 .. Len(log)
      BY <1>0, <2>1, <2>3
    <3> QED BY <1>4, <2>1, <2>2, <3>1
  <2>6. n <= Len(log)
    BY <2>3
  <2> QED BY <1>1, <1>3, <1>4, <2>1, <2>2, <2>4, <2>5, <2>6 DEF ServedOf, InFlight
<1>7. ASSUME NEW e \in Agents PROVE ServedOf(e)' /\ pos'[e] <= Len(log') /\ (stale'[e] => cur'[e] = NoConn)
  BY <1>3, <1>5, <1>6 DEF Served
<1> QED BY <1>3, <1>7 DEF Served, CardsForNoAgent

LEMMA ServedOther ==
    ASSUME TypeOK, Sockets, Served,
           \/ \E k \in Conns : Terminate(k) \/ Closed(k)
           \/ Restart
           \/ \E d \in Devices : Drop(d) \/ Snapshot(d)
           \/ UNCHANGED vars
    PROVE  Served'
<1> USE ConnsAssumption, DevicesAssumption
<1>0. Agents \subseteq Devices /\ Len(log) \in Nat
  BY DEF Devices, TypeOK
<1>1. ASSUME UNCHANGED <<log, cur, pos, stale, wire>>,
             \A k \in Conns : sock'[k] = "open" =>
                 /\ sock[k] = "open" /\ known'[k] = known[k]
                 /\ replay'[k] => replay[k] /\ cursor'[k] = cursor[k]
                 /\ k \in hub' => k \in hub
      PROVE  Served'
  <2>1. ASSUME NEW d \in Agents PROVE ServedOf(d)' /\ pos'[d] <= Len(log') /\ (stale'[d] => cur'[d] = NoConn)
    <3>1. /\ ServedOf(d) /\ pos[d] <= Len(log) /\ (stale[d] => cur[d] = NoConn)
          /\ cur[d] # NoConn => cur[d] \in Conns
      BY <1>0 DEF Served, TypeOK
    <3> QED BY <1>1, <3>1, ServedKept
  <2> QED BY <1>1, <2>1 DEF Served, CardsForNoAgent
<1>2. ASSUME NEW k \in Conns, Terminate(k) PROVE Served'
  BY <1>1, <1>2 DEF Terminate, data, readers, TypeOK
<1>3. ASSUME NEW k \in Conns, Closed(k) PROVE Served'
  BY <1>1, <1>3 DEF Closed, data, readers, TypeOK
<1>4. ASSUME Restart PROVE Served'
  <2>1. \A k \in Conns : sock'[k] # "open"
    BY <1>4 DEF Restart
  <2> QED BY <1>1, <1>4, <2>1 DEF Restart, data, readers
<1>5. ASSUME NEW d \in Devices, Drop(d) PROVE Served'
  <2>1. /\ cur' = [cur EXCEPT ![d] = NoConn] /\ wire' = Abandoned(d)
        /\ UNCHANGED <<log, pos, stale, servers>>
    BY <1>5 DEF Drop, Reads, data
  <2>2. ASSUME NEW e \in Agents PROVE ServedOf(e)'
    <3>1. CASE e = d
      BY <1>0, <2>1, <3>1 DEF ServedOf, TypeOK
    <3>2. CASE e # d
      <4>1. ServedOf(e) /\ cur'[e] = cur[e] /\ (cur[e] # NoConn => cur[e] \in Conns)
        BY <1>0, <2>1, <3>2 DEF Served, TypeOK
      <4>2. cur[e] # NoConn => wire'[cur[e]] = wire[cur[e]]
        BY <1>0, <2>1, <3>2, <4>1, AbandonedType DEF Sockets
      <4> QED BY <2>1, <4>1, <4>2, ServedKept DEF servers
    <3> QED BY <3>1, <3>2
  <2>3. ASSUME NEW e \in Agents PROVE pos'[e] <= Len(log') /\ (stale'[e] => cur'[e] = NoConn)
    BY <1>0, <2>1 DEF Served, TypeOK
  <2> QED BY <2>1, <2>2, <2>3 DEF Served, CardsForNoAgent
<1>6. ASSUME NEW d \in Devices, Snapshot(d) PROVE Served'
  <2>1. /\ stale[d] /\ pos' = [pos EXCEPT ![d] = Len(log)] /\ stale' = [stale EXCEPT ![d] = FALSE]
        /\ UNCHANGED <<log, cur, wire, servers>>
    BY <1>6 DEF Snapshot, data
  <2>2. ASSUME NEW e \in Agents PROVE ServedOf(e)'
    <3>1. CASE e = d
      BY <2>1, <3>1 DEF Served, ServedOf
    <3>2. CASE e # d
      <4>1. ServedOf(e) /\ pos'[e] = pos[e]
        BY <1>0, <2>1, <3>2 DEF Served, TypeOK
      <4> QED BY <2>1, <4>1, ServedKept DEF servers
    <3> QED BY <3>1, <3>2
  <2>3. ASSUME NEW e \in Agents PROVE pos'[e] <= Len(log') /\ (stale'[e] => cur'[e] = NoConn)
    BY <1>0, <2>1 DEF Served, TypeOK
  <2> QED BY <2>1, <2>2, <2>3 DEF Served, CardsForNoAgent
<1>7. CASE UNCHANGED vars
  BY <1>1, <1>7 DEF vars, data, servers, readers
<1> QED BY <1>2, <1>3, <1>4, <1>5, <1>6, <1>7

LEMMA ServedStep == TypeOK /\ Sockets /\ Served /\ [Next]_vars => Served'
BY ServedWrite, ServedAttach, ServedReplay, ServedReceive, ServedOther DEF Next

-----------------------------------------------------------------------------
(* What is queued for a socket that replays.                               *)

\* The bound needs that a queue is finite, which it is within the log.
Queued ==
    \A k \in Conns :
        /\ InFlight(k) \subseteq 1 .. Len(log)
        /\ replay[k] => Cardinality(InFlight(k)) <= DrainMax + BatchSize

LEMMA QueueFinite ==
    ASSUME NEW m \in Nat, NEW S, S \subseteq 1 .. m
    PROVE  IsFiniteSet(S) /\ Cardinality(S) \in Nat
<1>1. IsFiniteSet(1 .. m)
  BY FS_Interval
<1>2. IsFiniteSet(S)
  BY <1>1, FS_Subset
<1> QED BY <1>2, FS_CardinalityType

LEMMA BatchBound ==
    ASSUME TypeOK, BoundsAssumption, NEW from \in Nat, NEW S, S \subseteq Batch(from)
    PROVE  /\ IsFiniteSet(S) /\ Cardinality(S) \in Nat /\ Cardinality(S) <= BatchSize
           /\ S \subseteq 1 .. Len(log)
<1> DEFINE B == from + 1 .. from + BatchSize
<1>1. Len(log) \in Nat /\ BatchSize \in Nat \ {0}
  BY DEF TypeOK, BoundsAssumption
<1>2. S \subseteq B /\ S \subseteq 1 .. Len(log)
  BY <1>1 DEF Batch
<1>3. IsFiniteSet(B) /\ Cardinality(B) = BatchSize
  BY <1>1, FS_Interval
<1> HIDE DEF B
<1>4. IsFiniteSet(S) /\ Cardinality(S) <= Cardinality(B)
  BY <1>2, <1>3, FS_Subset
<1> QED BY <1>2, <1>3, <1>4, FS_CardinalityType

\* A step that adds to no queue and starts no replay.
LEMMA QueuedKept ==
    ASSUME TypeOK, BoundsAssumption, Queued, Len(log') \in Nat, Len(log') >= Len(log),
           NEW k \in Conns, Frames(wire'[k]) \subseteq InFlight(k), replay'[k] => replay[k]
    PROVE  /\ Frames(wire'[k]) \subseteq 1 .. Len(log')
           /\ replay'[k] => Cardinality(Frames(wire'[k])) <= DrainMax + BatchSize
<1>1. Len(log) \in Nat /\ DrainMax + BatchSize \in Nat
  BY DEF TypeOK, BoundsAssumption
<1>2. InFlight(k) \subseteq 1 .. Len(log)
  BY DEF Queued
<1>3. \A i \in 1 .. Len(log) : i \in 1 .. Len(log')
  BY <1>1
<1>4. /\ IsFiniteSet(InFlight(k)) /\ Cardinality(InFlight(k)) \in Nat
      /\ Cardinality(Frames(wire'[k])) \in Nat
      /\ Cardinality(Frames(wire'[k])) <= Cardinality(InFlight(k))
  BY <1>1, <1>2, QueueFinite, FS_Subset
<1>5. replay[k] => Cardinality(InFlight(k)) <= DrainMax + BatchSize
  BY DEF Queued
<1> QED BY <1>1, <1>2, <1>3, <1>4, <1>5

LEMMA QueuedTurn ==
    ASSUME TypeOK, BoundsAssumption, Queued, NEW k \in Conns, NEW d, NEW from \in Nat, NEW memo, NEW open,
           NEW lines \in [Conns -> Seq(SUBSET Nat)],
           Frames(lines[k]) \subseteq 1 .. Len(log),
           IF open THEN Cardinality(Frames(lines[k])) <= DrainMax
           ELSE Cardinality(Frames(lines[k])) <= DrainMax + BatchSize,
           Turn(k, d, from, memo, open, lines)
    PROVE  /\ Frames(wire'[k]) \subseteq 1 .. Len(log)
           /\ Cardinality(Frames(wire'[k])) <= DrainMax + BatchSize
<1> DEFINE out == Replayed(d, memo, Batch(from))
<1>1. out \subseteq Batch(from)
  BY DEF Replayed
<1>2. wire'[k] = IF open /\ out # {} THEN Append(lines[k], out) ELSE lines[k]
  BY TurnOutcome
<1>3. out \in SUBSET Nat
  BY <1>1 DEF Batch, TypeOK
<1> HIDE DEF out
<1>4. Len(log) \in Nat /\ DrainMax \in Nat /\ BatchSize \in Nat
  BY DEF TypeOK, BoundsAssumption
<1>5. IsFiniteSet(Frames(lines[k])) /\ Cardinality(Frames(lines[k])) \in Nat
  BY <1>4, QueueFinite
<1>6. /\ IsFiniteSet(out) /\ Cardinality(out) \in Nat /\ Cardinality(out) <= BatchSize
      /\ out \subseteq 1 .. Len(log)
  BY <1>1, BatchBound
<1>7. CASE open /\ out # {}
  <2>1. Frames(wire'[k]) = Frames(lines[k]) \cup out
    BY <1>2, <1>3, <1>7, FramesAppend
  <2>2. Cardinality(Frames(lines[k]) \cup out) <= Cardinality(Frames(lines[k])) + Cardinality(out)
    <3>1. /\ Cardinality(Frames(lines[k]) \cup out) =
                Cardinality(Frames(lines[k])) + Cardinality(out) - Cardinality(Frames(lines[k]) \cap out)
          /\ IsFiniteSet(Frames(lines[k]) \cap out)
      BY <1>5, <1>6, FS_Union, FS_Intersection
    <3>2. Cardinality(Frames(lines[k]) \cap out) \in Nat
      BY <3>1, FS_CardinalityType
    <3> QED BY <1>5, <1>6, <3>1, <3>2
  <2>3. Cardinality(Frames(lines[k]) \cup out) \in Nat
    BY <1>5, <1>6, FS_Union, FS_CardinalityType
  <2>4. Cardinality(Frames(lines[k])) <= DrainMax
    BY <1>7
  <2>5. Cardinality(Frames(lines[k]) \cup out) <= DrainMax + BatchSize
    BY <1>4, <1>5, <1>6, <2>2, <2>3, <2>4
  <2>6. Frames(lines[k]) \cup out \subseteq 1 .. Len(log)
    BY <1>6
  <2> QED BY <2>1, <2>5, <2>6
<1>8. CASE ~(open /\ out # {})
  BY <1>2, <1>4, <1>5, <1>8
<1> QED BY <1>7, <1>8

LEMMA QueuedStep == TypeOK /\ Sockets /\ Queued /\ [Next]_vars => Queued'
<1> SUFFICES ASSUME TypeOK, Sockets, Queued, [Next]_vars, NEW j \in Conns
             PROVE  /\ Frames(wire'[j]) \subseteq 1 .. Len(log')
                    /\ replay'[j] => Cardinality(Frames(wire'[j])) <= DrainMax + BatchSize
  BY DEF Queued, InFlight
<1> USE ConnsAssumption, BoundsAssumption
<1> DEFINE Goal == /\ Frames(wire'[j]) \subseteq 1 .. Len(log')
                   /\ replay'[j] => Cardinality(Frames(wire'[j])) <= DrainMax + BatchSize
<1>0. /\ Len(log) \in Nat /\ Frames(<<>>) = {} /\ wire[j] \in Seq(SUBSET Nat)
      /\ wire \in [Conns -> Seq(SUBSET Nat)]
  BY DEF TypeOK, Frames
<1>1. ASSUME UNCHANGED log, wire'[j] \in {wire[j], <<>>}, replay'[j] => replay[j] PROVE Goal
  <2>1. Frames(wire'[j]) \subseteq InFlight(j)
    BY <1>0, <1>1 DEF InFlight
  <2> QED BY <1>0, <1>1, <2>1, QueuedKept
<1>2. ASSUME NEW c \in Convos, Write(c) \/ Member(c) PROVE Goal
  <2>1. UNCHANGED <<servers, readers>>
    BY <1>2, WriteStep
  <2>2. CASE UNCHANGED <<log, wire>>
    BY <1>1, <2>1, <2>2 DEF servers
  <2>3. CASE Posted(c)
    <3>1. PICK kind, key, to, n : Posting(c, kind, key, to, n)
      BY <2>3 DEF Posted
    <3> DEFINE new == Len(log) + 1 .. Len(log) + n
    <3>2. n \in Nat /\ Len(log') = Len(log) + n
      <4>1. n \in Nat
        BY <3>1 DEF Posting
      <4> QED BY <3>1, <4>1, PostingType
    <3>3. CASE wire'[j] = wire[j]
      <4>1. Frames(wire'[j]) \subseteq InFlight(j) /\ (replay'[j] => replay[j])
        BY <2>1, <3>3 DEF InFlight, servers
      <4> QED BY <1>0, <3>2, <4>1, QueuedKept
    <3>4. CASE wire'[j] # wire[j]
      <4>1. Live(j) /\ wire'[j] = Append(wire[j], new)
        BY <3>1, <3>4, PostingWire
      <4>2. ~replay'[j]
        BY <2>1, <4>1 DEF Sockets, Live, servers
      <4>3. new \in SUBSET Nat /\ (\A i \in new : i \in 1 .. Len(log'))
            /\ \A i \in 1 .. Len(log) : i \in 1 .. Len(log')
        BY <1>0, <3>2
      <4> HIDE DEF new
      <4>4. Frames(wire'[j]) = Frames(wire[j]) \cup new
        BY <1>0, <4>1, <4>3, FramesAppend
      <4>5. Frames(wire[j]) \subseteq 1 .. Len(log)
        BY DEF Queued, InFlight
      <4> QED BY <4>2, <4>3, <4>4, <4>5
    <3> QED BY <3>3, <3>4
  <2> QED BY <1>2, <2>2, <2>3, WriteStep
<1>3. ASSUME NEW d \in Devices, NEW k \in Conns, Attach(d, k) PROVE Goal
  <2>0. /\ \A i \in Conns : Abandoned(d)[i] = IF cur[d] = i THEN <<>> ELSE wire[i]
        /\ Abandoned(d) \in [Conns -> Seq(SUBSET Nat)]
    BY AbandonedType
  <2>1. CASE wire' = Abandoned(d) /\ UNCHANGED <<log, replay>>
    BY <1>1, <2>0, <2>1
  <2>2. ASSUME NEW m \in HelloMax, HelloRefused(d, k, m) PROVE Goal
    BY <2>1, <2>2 DEF HelloRefused, data
  <2>3. ASSUME HelloFresh(d, k) PROVE Goal
    BY <2>1, <2>3 DEF HelloFresh, data
  <2>4. ASSUME NEW m \in HelloMax, Hello(d, k, m) PROVE Goal
    <3> DEFINE left == Abandoned(d)
               from == pos[d]
               memo == Undecided
               open == TRUE
    <3>1. /\ Turn(k, d, from, memo, open, left) /\ UNCHANGED log
          /\ sock[k] = "unused" /\ from \in Nat
      BY <2>4 DEF Hello, Connect, data, TypeOK
    <3>2. left[k] = <<>>
      BY <2>0, <3>1 DEF Sockets
    <3>3. left \in [Conns -> Seq(SUBSET Nat)] /\ \A i \in Conns : left[i] \in {wire[i], <<>>}
      BY <2>0
    <3>4. Cardinality({}) = 0 /\ DrainMax \in Nat
      BY FS_EmptySet DEF BoundsAssumption
    <3>5. Frames(left[k]) \subseteq 1 .. Len(log) /\ Cardinality(Frames(left[k])) <= DrainMax
      <4>1. Frames(left[k]) = {}
        BY <1>0, <3>2
      <4> QED BY <3>4, <4>1
    <3> HIDE DEF left, from, memo
    <3>6. /\ Frames(wire'[k]) \subseteq 1 .. Len(log)
          /\ Cardinality(Frames(wire'[k])) <= DrainMax + BatchSize
      BY <3>1, <3>3, <3>5, QueuedTurn
    <3> HIDE DEF open
    <3>7. /\ \A i \in Conns : i # k => wire'[i] = left[i]
          /\ \/ replay' = [replay EXCEPT ![k] = TRUE]
             \/ replay' = [replay EXCEPT ![k] = FALSE]
      BY <3>1, <3>3, TurnOutcome
    <3>8. CASE j = k
      BY <3>1, <3>6, <3>8
    <3>9. CASE j # k
      BY <1>1, <3>1, <3>3, <3>7, <3>9 DEF TypeOK
    <3> QED BY <3>8, <3>9
  <2> QED BY <1>3, <2>2, <2>3, <2>4 DEF Attach
<1>4. ASSUME NEW k \in Conns, ReplayStep(k) PROVE Goal
  <2>1. CASE sock[k] = "closed"
    BY <1>1, <1>4, <2>1 DEF ReplayStep, data, TypeOK
  <2>2. CASE sock[k] # "closed"
    <3> DEFINE open == sock[k] = "open" /\ Read(k)
               memo == known[k]
               d == dev[k]
               from == cursor[k]
    <3>1. /\ Turn(k, d, from, memo, open, wire) /\ UNCHANGED log
          /\ replay[k] /\ from \in Nat
          /\ sock[k] = "open" => Cardinality(Frames(wire[k])) <= DrainMax
      BY <1>4, <2>2 DEF ReplayStep, data, TypeOK, InFlight
    <3>2. /\ Frames(wire[k]) \subseteq 1 .. Len(log)
          /\ Cardinality(Frames(wire[k])) <= DrainMax + BatchSize
      BY <3>1 DEF Queued, InFlight
    <3>3. IF open THEN Cardinality(Frames(wire[k])) <= DrainMax
          ELSE Cardinality(Frames(wire[k])) <= DrainMax + BatchSize
      BY <3>1, <3>2
    <3> HIDE DEF open, memo, d, from
    <3>4. /\ Frames(wire'[k]) \subseteq 1 .. Len(log)
          /\ Cardinality(Frames(wire'[k])) <= DrainMax + BatchSize
      BY <1>0, <3>1, <3>2, <3>3, QueuedTurn
    <3>5. /\ \A i \in Conns : i # k => wire'[i] = wire[i]
          /\ \/ replay' = [replay EXCEPT ![k] = TRUE]
             \/ replay' = [replay EXCEPT ![k] = FALSE]
      BY <1>0, <3>1, TurnOutcome
    <3>6. CASE j = k
      BY <3>1, <3>4, <3>6
    <3>7. CASE j # k
      BY <1>1, <3>1, <3>5, <3>7 DEF TypeOK
    <3> QED BY <3>6, <3>7
  <2> QED BY <2>1, <2>2
<1>5. ASSUME NEW k \in Conns, Terminate(k) \/ Closed(k) PROVE Goal
  BY <1>1, <1>5 DEF Terminate, Closed, data
<1>6. ASSUME Restart PROVE Goal
  BY <1>1, <1>6 DEF Restart, data
<1>7. ASSUME NEW d \in Devices, Receive(d) PROVE Goal
  <2>1. PICK k \in Conns : k = cur[d]
    BY <1>7 DEF Receive, TypeOK
  <2>2. PICK n : wire' = [wire EXCEPT ![k] = Rest(@, n)]
    BY <1>7, <2>1 DEF Receive
  <2>3. wire[k] # <<>> /\ UNCHANGED <<log, replay>>
    BY <1>7, <2>1 DEF Receive, data, servers
  <2>4. CASE j = k
    <3>1. wire'[j] = Rest(wire[j], n)
      BY <2>2, <2>4 DEF TypeOK
    <3>2. Frames(wire'[j]) \subseteq InFlight(j)
      BY <1>0, <2>3, <2>4, <3>1, RestShrinks DEF InFlight
    <3> QED BY <1>0, <2>3, <3>2, QueuedKept
  <2>5. CASE j # k
    BY <1>1, <2>2, <2>3, <2>5
  <2> QED BY <2>4, <2>5
<1>8. ASSUME NEW d \in Devices, Drop(d) PROVE Goal
  <2>1. \A i \in Conns : Abandoned(d)[i] = IF cur[d] = i THEN <<>> ELSE wire[i]
    BY AbandonedType
  <2> QED BY <1>1, <1>8, <2>1 DEF Drop, data, servers
<1>9. ASSUME NEW d \in Devices, Snapshot(d) PROVE Goal
  BY <1>1, <1>9 DEF Snapshot, data, servers
<1>10. CASE UNCHANGED vars
  BY <1>1, <1>10 DEF vars, data, servers
<1> QED BY <1>2, <1>3, <1>4, <1>5, <1>6, <1>7, <1>8, <1>9, <1>10 DEF Next

\* An agent on a registered socket has, or will read, whatever was meant for it
\* when it was written, but for conversations its replay decided against
\* while it was no member; and a replay queues a bounded number of frames,
\* for any batch size, any number of sockets and whoever joins or leaves
\* between two turns of the loop.
THEOREM AgentsAreServed == Spec => []AgentsServed
<1>1. Init => Served /\ Queued
  <2> SUFFICES ASSUME Init PROVE Served /\ Queued
    OBVIOUS
  <2>1. Len(log) = 0 /\ Agents \subseteq Devices /\ Frames(<<>>) = {}
    BY DEF Init, Devices, Frames
  <2>2. Served
    BY <2>1 DEF Init, Served, ServedOf, CardsForNoAgent
  <2>3. Queued
    BY <2>1 DEF Init, Queued, InFlight
  <2> QED BY <2>2, <2>3
<1>2. TypeOK /\ Served /\ Queued => AgentsServed
  BY ServedIsAgentFeed DEF AgentsServed, BoundedReplayBuffer, Queued
<1>3. Spec => [](TypeOK /\ Sockets)
  BY SocketsAgree
<1> QED BY <1>1, <1>2, <1>3, ServedStep, QueuedStep, PTL DEF Spec

-----------------------------------------------------------------------------
(* The journal implements CursorFeed for its clients.                      *)

LEMMA FeedInit == Init => Feed!Init
<1> SUFFICES ASSUME Init PROVE Feed!Init
  OBVIOUS
<1>1. Clients \subseteq Devices /\ Len(log) = 0
  BY DEF Devices, Init
<1>2. [d \in Clients |-> pos[d]] = [r \in Clients |-> 0]
  BY <1>1 DEF Init
<1>3. [d \in Clients |-> stale[d]] = [r \in Clients |-> FALSE]
  BY <1>1 DEF Init
<1> QED BY <1>1, <1>2, <1>3 DEF Feed!Init

LEMMA FeedStep ==
    TypeOK /\ Sockets /\ Feeds /\ [Next]_vars => [Feed!Next]_(Feed!vars)
<1> SUFFICES ASSUME TypeOK, Sockets, Feeds, [Next]_vars
             PROVE  Feed!Next \/ UNCHANGED Feed!vars
  BY DEF Feed!vars
<1> DEFINE P == [d \in Clients |-> pos[d]]
           S == [d \in Clients |-> stale[d]]
<1>0. /\ Clients \subseteq Devices /\ Len(log) \in Nat
      /\ pos \in [Devices -> Nat] /\ stale \in [Devices -> BOOLEAN]
  BY DEF Devices, TypeOK
<1>1. ASSUME Len(log') = Len(log),
             \A d \in Clients : pos'[d] = pos[d] /\ stale'[d] = stale[d]
      PROVE  UNCHANGED Feed!vars
  BY <1>1 DEF Feed!vars
<1>2. ASSUME NEW c \in Convos, Write(c) \/ Member(c) PROVE Feed!Next \/ UNCHANGED Feed!vars
  <2>1. UNCHANGED <<pos, stale>> /\ Len(log') >= Len(log) /\ Len(log') \in Nat
    <3>1. UNCHANGED readers
      BY <1>2, WriteStep
    <3>2. TypeOK'
      BY TypeStep
    <3> QED BY <1>2, <3>1, <3>2, FeedsWrite DEF readers, TypeOK
  <2>2. CASE Len(log') = Len(log)
    BY <1>1, <2>1, <2>2
  <2>3. CASE Len(log') > Len(log)
    BY <2>1, <2>3 DEF Feed!Next, Feed!Grow
  <2> QED BY <1>0, <2>1, <2>2, <2>3
<1>3. ASSUME NEW d \in Devices, NEW k \in Conns, NEW m \in HelloMax, HelloRefused(d, k, m)
      PROVE  Feed!Next \/ UNCHANGED Feed!vars
  <2>1. /\ TooFar(d, m) /\ stale' = [stale EXCEPT ![d] = TRUE] /\ UNCHANGED <<log, pos>>
    BY <1>3 DEF HelloRefused, data
  <2>2. pos[d] < Len(log)
    BY <1>0, <2>1, BoundsAssumption DEF TooFar, BoundsAssumption
  <2>3. CASE d \in Clients
    <3>1. S' = [S EXCEPT ![d] = TRUE] /\ P' = P /\ P[d] < Len(log)
      BY <1>0, <2>1, <2>2, <2>3
    <3>2. Feed!Refuse(d)
      BY <2>1, <3>1 DEF Feed!Refuse
    <3> QED BY <2>3, <3>2 DEF Feed!Next
  <2>4. CASE d \notin Clients
    BY <1>0, <1>1, <2>1, <2>4
  <2> QED BY <2>3, <2>4
<1>4. ASSUME NEW d \in Devices, stale[d] \/ pos[d] = 0, UNCHANGED log,
             pos' = [pos EXCEPT ![d] = Len(log)],
             stale' = [stale EXCEPT ![d] = FALSE]
      PROVE  Feed!Next \/ UNCHANGED Feed!vars
  <2>1. CASE d \in Clients
    <3>1. /\ P' = [P EXCEPT ![d] = Len(log)] /\ S' = [S EXCEPT ![d] = FALSE]
          /\ S[d] \/ P[d] = 0
      BY <1>0, <1>4, <2>1
    <3>2. Feed!Jump(d)
      BY <1>4, <3>1 DEF Feed!Jump
    <3> QED BY <2>1, <3>2 DEF Feed!Next
  <2>2. CASE d \notin Clients
    BY <1>0, <1>1, <1>4, <2>2
  <2> QED BY <2>1, <2>2
<1>5. ASSUME NEW d \in Devices, NEW k \in Conns, Attach(d, k) PROVE Feed!Next \/ UNCHANGED Feed!vars
  <2>1. ASSUME NEW m \in HelloMax, Hello(d, k, m) PROVE UNCHANGED <<log, pos, stale>>
    BY <2>1 DEF Hello, data
  <2>2. ASSUME HelloFresh(d, k)
        PROVE  /\ pos[d] = 0 /\ UNCHANGED log /\ pos' = [pos EXCEPT ![d] = Len(log)]
               /\ stale' = [stale EXCEPT ![d] = FALSE]
    BY <1>0, <2>2 DEF HelloFresh, data
  <2> QED BY <1>1, <1>3, <1>4, <1>5, <2>1, <2>2 DEF Attach
<1>6. ASSUME NEW d \in Devices, Receive(d) PROVE Feed!Next \/ UNCHANGED Feed!vars
  <2>1. UNCHANGED <<log, stale>>
    BY <1>6 DEF Receive, data
  <2>2. CASE d \in Clients
    <3>1. ~stale[d] /\ pos[d] < Len(log) /\ pos' = [pos EXCEPT ![d] = @ + 1]
      BY <1>6, <2>2, FeedsReceive
    <3>2. /\ P' = [P EXCEPT ![d] = @ + 1] /\ S' = S
          /\ ~S[d] /\ P[d] < Len(log)
      BY <1>0, <2>1, <2>2, <3>1
    <3>3. Feed!Advance(d)
      BY <2>1, <3>2 DEF Feed!Advance
    <3> QED BY <2>2, <3>3 DEF Feed!Next
  <2>3. CASE d \notin Clients
    <3>1. PICK n : pos' = [pos EXCEPT ![d] = n]
      BY <1>6 DEF Receive
    <3> QED BY <1>0, <1>1, <2>1, <2>3, <3>1
  <2> QED BY <2>2, <2>3
<1>7. ASSUME NEW d \in Devices, Snapshot(d) PROVE Feed!Next \/ UNCHANGED Feed!vars
  BY <1>4, <1>7 DEF Snapshot, data
<1>8. ASSUME \/ \E k \in Conns : ReplayStep(k) \/ Terminate(k) \/ Closed(k)
             \/ Restart
             \/ \E d \in Devices : Drop(d)
             \/ UNCHANGED vars
      PROVE  UNCHANGED <<log, pos, stale>>
  BY <1>8 DEF ReplayStep, Terminate, Closed, Restart, Drop, vars, data, readers
<1> QED BY <1>1, <1>2, <1>5, <1>6, <1>7, <1>8 DEF Next

\* The sockets, batches, hub and replay loop of the journal implement the
\* abstract feed: a client's cursor moves one event at a time, and jumps only
\* when the client is new or has been told to fetch a snapshot.
THEOREM ImplementsFeed == Spec => FeedRefined
<1>1. Init => Feed!Init
  BY FeedInit
<1>2. Spec => [](TypeOK /\ Sockets /\ Feeds)
  BY FeedsHold
<1> QED BY <1>1, <1>2, FeedStep, PTL DEF Spec, FeedRefined, Feed!Spec
=============================================================================
