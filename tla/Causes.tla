------------------------------- MODULE Causes -------------------------------
(* Where an ask comes from.  The Coordinator may answer asks in the user's  *)
(* place; its own only when the journal can follow the causes of the turn   *)
(* that made it to the user (ask-cause.js), and another session's only when *)
(* every Coordinator hop behind it can be (cause-hops.js).  The bridges say *)
(* which causes a turn had, whole, cut short or not at all (ask-causes.js); *)
(* the journal records the hops.                                            *)
(* A carry-on is recorded before it is relayed.  A post or a spawn may go   *)
(* unrecorded: a frame need not name the session that wrote it, or names    *)
(* one that is not the device's; a finalized message never does; and a      *)
(* record that fails, or a journal that dies before it, stops no message.   *)
(* What rests on such a post or spawn leads nowhere, by design.             *)
EXTENDS Integers, FiniteSets, Sequences

CONSTANTS
  Sessions, Coordinator, \* conversations; the Coordinator's is one
  Spawnable,     \* the conversations that exist only once spawned
  Room, Member,  \* a room and the conversations in it
  ChainMax,      \* CAUSE_CHAIN_MAX_DEPTH
  OriginsMax,    \* ORIGINS_MAX
  MaxSent        \* bound: carry-ons, posts and spawns

ASSUME CausesAssumption ==
  /\ Coordinator \in Sessions \ Spawnable /\ Spawnable \subseteq Sessions
  /\ Member \in [Room -> SUBSET Sessions]
  /\ ChainMax \in Nat /\ OriginsMax \in Nat /\ MaxSent \in Nat

VARIABLE
  sent   \* carry-ons, room posts and spawns in order, as the journal has them

causeVars == <<sent>>

\* UNCHECKABLE: the origin that stands for a hop that cannot be checked.
Uncheckable == 0

Ids == 1 .. Len(sent)

\* cause_hops: a hop's origins are the Coordinator hops behind it, itself for
\* one of the Coordinator's; none when there is no row of it, for want of any
\* or because none was `kept`.  The true `src` and `clean` (the words behind
\* it are the user's alone) are history.
Post(k) == sent[k].kind = "room"
Hop(k) == sent[k].hop # {}
Heard(r) == \E k \in Ids : Post(k) /\ sent[k].to = r /\ Hop(k)

----------------------------------------------------------------------------
(* The Coordinator hops a list of causes leads back to.                     *)

\* hidesLineage: a spawn's task and a cut are of the kind `other` too.
NamesNothing(causes) == \A c \in causes : c[1] = "other"
HidesLineage(causes) == \A c \in causes : c[1] \in {"other", "spawned", "truncated"}

\* touchedByCoordinator: a hop was sent to it, it posted a relay, or there is
\* a hop in a room it is in.  Slips: the rooms are not looked at; everyone
\* counts as touched.
TouchedAlways(s) == TRUE
TouchedByName(s) ==
  \E k \in Ids : Hop(k) /\ (sent[k].to = s \/ (sent[k].from = s /\ s # Coordinator))
Touched(s) ==
  TouchedByName(s) \/ \E r \in Room : s \in Member[r] /\ Heard(r)

\* roomOrigins, carryOnOrigin, spawnedOrigin.
OriginsOfCause(c, s) ==
  CASE c[1] = "carry" -> IF sent[c[2]].to = s THEN {c[2]} ELSE {Uncheckable}
    [] c[1] = "room" -> IF Hop(c[2]) /\ s \notin Member[sent[c[2]].to]
                        THEN {Uncheckable} ELSE sent[c[2]].hop
    [] c[1] = "bare" -> IF Heard(c[2]) THEN {Uncheckable} ELSE {}
    [] c[1] = "spawned" -> IF Hop(c[2]) /\ sent[c[2]].to # s
                           THEN {Uncheckable} ELSE sent[c[2]].hop
    [] OTHER -> {}

\* walk: of a list, and of the spawns whose outcomes are in it.  A walk that
\* is cut short may have missed a hop.
Cut == [found |-> {}, cut |-> TRUE]
Walked(causes, s, below) ==
  LET deeper == {below[c[2]] : c \in {x \in causes : x[1] = "outcome" /\ sent[x[2]].from = s}}
  IN [found |-> UNION ({OriginsOfCause(c, s) : c \in causes} \cup {d.found : d \in deeper}),
      cut |-> (\E c \in causes : c[1] = "truncated") \/ \E d \in deeper : d.cut]

\* spawnOrigins: the causes of the ask behind an outcome, ChainMax deep.
Below(s) ==
  LET F[d \in 0 .. ChainMax] ==
        [k \in Ids |-> IF d = 0 THEN Cut ELSE Walked(sent[k].causes, s, F[d - 1])]
  IN F[ChainMax]

\* originsOf.  Slip: a cut walk that found a hop is taken for a whole one.
FoundOnly(w, causes, s) == w.found
Bounded(w, causes, s) ==
  IF Cardinality(w.found) > OriginsMax THEN {Uncheckable}
  ELSE IF w.found # {} THEN w.found \cup (IF w.cut THEN {Uncheckable} ELSE {})
  ELSE IF (w.cut \/ HidesLineage(causes)) /\ Touched(s) THEN {Uncheckable}
  ELSE {}
OriginsOf(causes, s) == Bounded(Walked(causes, s, Below(s)), causes, s)

----------------------------------------------------------------------------
(* The root of a list of causes that the Coordinator's own turn had.        *)

\* Words or a tap of the user's in the conversation: "stale" when they are too
\* old, or not the user's, or were said elsewhere, and so do not resolve.
UserKinds == {"said", "stale"}
Resolvable == UserKinds \cup {"routine", "outcome"}

\* isOwnRoomEcho: a post of the Coordinator's own.  Slip: of anyone who was
\* reached by it.
AnyHop(c) == c[1] = "room" /\ Hop(c[2])
OwnEcho(c) == c[1] = "room" /\ sent[c[2]].from = Coordinator /\ Hop(c[2])

\* resolveOne: the outcome of a spawn has the root of the ask behind it.
RootOf(c, below) == IF c[1] = "outcome" THEN below[c[2]] ELSE c[1]

\* resolveLevel: one cause of a kind that cannot carry the user's word fails
\* the list; a user's word that resolves makes it the user's; one that does
\* not fails it, and only then a routine's fire counts.
Level(causes, below) ==
  LET list == {c \in causes : ~OwnEcho(c)}
      roots == {RootOf(c, below) : c \in list}
  IN IF list = {} \/ \E c \in list : c[1] \notin Resolvable THEN "none"
     ELSE IF "said" \in roots THEN "said"
     ELSE IF "stale" \in roots THEN "stale"
     ELSE IF "routine" \in roots THEN "routine" ELSE "none"

\* resolveSpawnOutcome: the ask of the Coordinator's own that a spawn answered.
RootBelow ==
  LET F[d \in 0 .. ChainMax] ==
        [k \in Ids |-> IF d = 0 \/ sent[k].from # Coordinator
                       THEN "none" ELSE Level(sent[k].causes, F[d - 1])]
  IN F[ChainMax]

\* resolveAskCause.
Resolves(causes) == Level(causes, RootBelow) \in {"said", "routine"}

\* resolveRelayedAsk: every hop, as an ask of the Coordinator's own would be.
\* Slip: one that resolves is enough.
AnyResolves(origins) == \E k \in origins \ {Uncheckable} : Resolves(sent[k].causes)
AllResolve(origins) == Uncheckable \notin origins /\ \A k \in origins : Resolves(sent[k].causes)

\* verifyOwnAsk: whether the Coordinator may answer an ask that s made in a
\* turn with these causes.
LetsThrough(s, causes) ==
  IF s = Coordinator THEN Resolves(causes)
  ELSE LET origins == OriginsOf(causes, s) IN origins = {} \/ AllResolve(origins)

----------------------------------------------------------------------------
(* Turns.  A turn takes in one thing or two and may ask and send; what it   *)
(* took in stays in the log, so it need not be kept apart.                  *)

CausesInit == sent = <<>>

Running(s) == s \in Spawnable => \E k \in Ids : sent[k].kind = "spawned" /\ sent[k].to = s

\* What may start a turn: the user's words (for the Coordinator also stale
\* ones, a routine's fire, an alert), what was sent to the conversation, and
\* the outcome of a spawn it asked for.
Inputs(s) ==
  {<<"said", 0>>}
  \cup (IF s = Coordinator THEN {<<"stale", 0>>, <<"routine", 0>>, <<"alert", 0>>} ELSE {})
  \cup {<<sent[k].kind, k>> : k \in {j \in Ids :
          IF Post(j) THEN s \in Member[sent[j].to] ELSE sent[j].to = s}}
  \cup {<<"outcome", k>> : k \in {j \in Ids : sent[j].kind = "spawned" /\ sent[j].from = s}}

\* The list as the bridge names it: whole, without the seq of a post, cut
\* short, or none of it, as when the harness goes on by itself.
Bare(inputs) ==
  {IF c[1] = "room" THEN <<"bare", sent[c[2]].to>> ELSE c : c \in inputs}
AsNamed(inputs) ==
  {inputs, Bare(inputs), {<<"other", 0>>}}
  \cup {(inputs \ {c}) \cup {<<"truncated", 0>>} : c \in inputs}

\* What is true of a turn that took these in: the Coordinator's things it
\* descends from, through what the journal could record, and whether all its
\* words are the user's.  A spawn asked for in a turn that names nothing was
\* the user's to approve.
Traced(c) ==
  IF c[1] = "outcome" THEN ~NamesNothing(sent[c[2]].causes)
  ELSE c[1] \in {"carry", "room", "spawned"} /\ sent[c[2]].kept
Sources(inputs) == UNION {sent[c[2]].src : c \in {i \in inputs : Traced(i)}}
Clean(inputs) ==
  /\ \A c \in inputs : c[1] \notin {"alert", "carry", "spawned"}
       /\ (c[1] = "room" => sent[c[2]].from = Coordinator)
  /\ \E c \in inputs : c[1] \in {"said", "routine"} \/ (c[1] = "outcome" /\ sent[c[2]].clean)

\* recordCarryOn, recordRoomPublish, recordSpawnStart: the Coordinator's is a
\* hop with its causes, another's one when a hop is behind its turn; nothing
\* is when it is not kept.
\* Slip: only the Coordinator's are recorded.
OwnOnly(s, causes) == IF s = Coordinator THEN {Len(sent) + 1} ELSE {}
HopOf(s, causes) == IF s = Coordinator THEN {Len(sent) + 1} ELSE OriginsOf(causes, s)

Relayed(kind, s, to, inputs, causes, kept) ==
  /\ Running(s) /\ Len(sent) < MaxSent
  /\ sent' = Append(sent, [kind |-> kind, from |-> s, to |-> to,
       causes |-> IF s = Coordinator \/ kind = "spawned" THEN causes ELSE {},
       kept |-> kept, hop |-> IF kept THEN HopOf(s, causes) ELSE {},
       src |-> IF s = Coordinator THEN {Len(sent) + 1} ELSE Sources(inputs),
       clean |-> Clean(inputs)])

CarryOn(s, inputs, causes) ==
  s # Coordinator /\ Running(s) /\ Relayed("carry", Coordinator, s, inputs, causes, TRUE)
PostRelay(s, r, inputs, causes, kept) == s \in Member[r] /\ Relayed("room", s, r, inputs, causes, kept)

\* A spawn that was approved and has started: the child's first turn is the
\* task, and its bridge names the spawn.
Spawn(s, child, inputs, causes, kept) ==
  ~Running(child) /\ Relayed("spawned", s, child, inputs, causes, kept)

CausesNext ==
  \E s \in Sessions : \E i, j \in Inputs(s) : \E causes \in AsNamed({i, j}) :
     \/ \E to \in Sessions : s = Coordinator /\ CarryOn(to, {i, j}, causes)
     \/ \E r \in Room, kept \in BOOLEAN : PostRelay(s, r, {i, j}, causes, kept)
     \/ \E child \in Spawnable, kept \in BOOLEAN : Spawn(s, child, {i, j}, causes, kept)

----------------------------------------------------------------------------
\* The Coordinator answers no ask whose words may not be the user's.  Its own
\* it answers only when the turn took in nothing of anyone else and there is a
\* word of the user's, or a routine's fire, behind it; another session's only
\* when that holds of every turn of the Coordinator's the ask descends from by
\* carry-ons, by posts and spawns that were recorded and by the outcomes of
\* spawns, and whether or not the asking turn names them (verifyOwnAsk,
\* resolveRelayedAsk).  What comes by a post that names no session is
\* another agent's, as the protocol has it.
NoLaundering ==
  \A s \in {t \in Sessions : Running(t)} : \A i, j \in Inputs(s) : \A causes \in AsNamed({i, j}) :
    LetsThrough(s, causes) =>
      IF s = Coordinator THEN Clean({i, j}) ELSE \A k \in Sources({i, j}) : sent[k].clean

\* A session the Coordinator had no hand in is answered as ever: nothing is
\* found behind its asks (resolveRelayedAsk).
Within(s) == {k \in Ids : Hop(k) /\ (sent[k].to = s \/ (Post(k) /\ s \in Member[sent[k].to]) \/ sent[k].from = s)}
OthersAsBefore == \A s \in {t \in Sessions \ {Coordinator} : Running(t)} :
  Within(s) = {} => \A i, j \in Inputs(s) : \A causes \in AsNamed({i, j}) : OriginsOf(causes, s) = {}

\* Both: what the Coordinator had a hand in is followed as far as the journal
\* has a record of it, and nothing else is.
CausesFollowed == NoLaundering /\ OthersAsBefore
=============================================================================
