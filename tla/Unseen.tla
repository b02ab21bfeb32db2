------------------------------- MODULE Unseen -------------------------------
(* What the user has not seen, and the nudge that tells the Coordinator of it *)
(* (seen.js, unseen-nudge.js): the messages of one conversation, or the       *)
(* thread of one item of an agent that awaits the user.                       *)
EXTENDS Naturals, Sequences, FiniteSets

CONSTANTS
  After,     \* UNSEEN_NUDGE_AFTER_MS, in ticks
  Since,     \* sinceMs of listUnseen
  Gap,       \* NUDGE_GAP_MS
  FlagTtl,   \* FLAG_TTL_MS
  MaxSaid,   \* bound: messages
  MaxRaised, \* bound: entries the Coordinator raises
  LastTick   \* bound: ticks

ASSUME UnseenAssumption ==
  /\ Gap \in Nat \ {0} /\ After \in Nat /\ Since \in Nat /\ After <= Since
  /\ FlagTtl \in Nat /\ Since < FlagTtl

VARIABLES
  ticks,     \* the clock
  said,      \* the messages: what it is, when, which one it answers
  idle,      \* session_state: "waiting" or "done"
  shown,    \* the messages an app reported as seen
  thread,    \* the item: created_at, agent_at, user_at, seen_through, was it seen
  flagged,   \* unseen_flags: what the Coordinator raised
  nudged,    \* unseen_nudged: what a nudge was about, and when
  lastAt,    \* unseen_nudges: when, or 0
  known,     \* history: what the user saw or answered
  named,     \* history: what the nudges named
  amiss      \* history: what a nudge named although the user knew it, or for the
             \* second time, and what one should have named and did not

unseenVars == <<ticks, said, idle, shown, thread, flagged, nudged, lastAt, known, named, amiss>>

Msg(i) == <<"msg", i>>
ItemRef(t) == <<"item", t>>
Later(a, b) == IF a > b THEN a ELSE b
Latest == Later(thread.created, thread.agent)

UnseenInit ==
  /\ ticks = 1 /\ said = <<>> /\ idle = FALSE /\ shown = {} /\ flagged = {} /\ nudged = {}
  /\ thread = [created |-> 0, agent |-> 0, user |-> 0, through |-> 0, opened |-> FALSE]
  /\ lastAt = 0 /\ known = {} /\ named = {} /\ amiss = {}

----------------------------------------------------------------------------
(* Messages and the item.                                                   *)

Say(what, target) ==
  /\ Len(said) < MaxSaid /\ thread.created = 0
  /\ said' = Append(said, [what |-> what, at |-> ticks, target |-> target])

Prompts == {i \in DOMAIN said : said[i].what = "prompt"}

AgentWrites(what) ==
  /\ Say(what, 0) /\ UNCHANGED <<ticks, idle, shown, thread, flagged, nudged, lastAt, known, named, amiss>>

\* A message of the user, or a button: whatever was asked before is answered.
UserWrites(target) ==
  /\ target \in Prompts \cup {0} /\ Say("user", target)
  /\ known' = known \cup {Msg(i) : i \in Prompts}
  /\ UNCHANGED <<ticks, idle, shown, thread, flagged, nudged, lastAt, named, amiss>>

\* The bridge settles a card of its own.
BridgeSettles(i) ==
  /\ i \in Prompts /\ Say("settled", i) /\ known' = known \cup {Msg(i)}
  /\ UNCHANGED <<ticks, idle, shown, thread, flagged, nudged, lastAt, named, amiss>>

SessionTurns ==
  /\ idle' = ~idle
  /\ UNCHANGED <<ticks, said, shown, thread, flagged, nudged, lastAt, known, named, amiss>>

RangeReported(i) ==
  /\ i \in DOMAIN said /\ shown' = shown \cup {i} /\ known' = known \cup {Msg(i)}
  /\ UNCHANGED <<ticks, said, idle, thread, flagged, nudged, lastAt, named, amiss>>

\* The item is filed, or commented on; no two of these in one tick.
AgentPosts ==
  /\ said = <<>>
  /\ ticks > Later(Latest, thread.user)
  /\ thread' = IF thread.created = 0 THEN [thread EXCEPT !.created = ticks] ELSE [thread EXCEPT !.agent = ticks]
  /\ UNCHANGED <<ticks, said, idle, shown, flagged, nudged, lastAt, known, named, amiss>>
UserPosts ==
  /\ thread.created # 0 /\ ticks > Later(Latest, thread.user)
  /\ thread' = [thread EXCEPT !.user = ticks] /\ known' = known \cup {ItemRef(t) : t \in 1..ticks}
  /\ UNCHANGED <<ticks, said, idle, shown, flagged, nudged, lastAt, named, amiss>>

\* markItemSeen, with the newest comment that was shown: apps report late and
\* out of order.
FurthestThrough(t) == Later(thread.through, t)
ItemShown(t) ==
  /\ thread.created # 0 /\ t \in 0..thread.agent
  /\ thread' = [thread EXCEPT !.through = FurthestThrough(t), !.opened = TRUE]
  /\ known' = known \cup {ItemRef(u) : u \in 1..Later(t, thread.created)}
  /\ UNCHANGED <<ticks, said, idle, shown, flagged, nudged, lastAt, named, amiss>>

UnseenTick ==
  /\ ticks < LastTick /\ ticks' = ticks + 1
  /\ UNCHANGED <<said, idle, shown, thread, flagged, nudged, lastAt, known, named, amiss>>

----------------------------------------------------------------------------
(* listUnseen, and the nudge.                                               *)

InWindow(t) == ticks - t <= Since /\ ticks - t >= After

\* Answered since by the user, or settled by a reply that names it.  Slip: only
\* such a reply answers.
NamedOnly(i) == \E j \in DOMAIN said : said[j].target = i
Answered(i) == NamedOnly(i) \/ \E j \in DOMAIN said : j > i /\ said[j].what = "user"

\* The last word of a session that waits or is done; also what the bridge
\* settled counts as one.
Final(i) == idle /\ \A j \in DOMAIN said : j > i => said[j].what = "user"

MessagesListed ==
  {Msg(i) : i \in {i \in DOMAIN said \ shown :
     /\ InWindow(said[i].at)
     /\ \/ said[i].what = "prompt" /\ ~Answered(i)
        \/ said[i].what = "text" /\ Final(i)}}

\* Slip: a comment of the user does not count as having seen the thread.
OnlyReports == ~thread.opened \/ thread.agent > thread.through
ThreadUnseen == thread.user < Latest /\ (~thread.opened \/ thread.agent > thread.through)
ItemListed == IF Latest # 0 /\ InWindow(Latest) /\ ThreadUnseen THEN {ItemRef(Latest)} ELSE {}

Listed == (MessagesListed \cup ItemListed) \ {f.ref : f \in flagged}

\* What an earlier nudge was about is not news.  Slip: it is.
AllListed(before) == Listed
News(before) == Listed \ {n.ref : n \in before}

\* runUnseenNudge, in the hours and while the Coordinator's bridge is there.
GapOver == lastAt = 0 \/ ticks - lastAt >= Gap
Due ==
  {Msg(i) : i \in {i \in Prompts : InWindow(said[i].at)}} \cup
  (IF Latest # 0 /\ InWindow(Latest) THEN {ItemRef(Latest)} ELSE {})
Young(s) == {n \in s : ticks - n.at <= FlagTtl}

\* Out of hours, or with the bridge away, a run only prunes.
Prune ==
  /\ flagged' = Young(flagged) /\ nudged' = Young(nudged)
  /\ UNCHANGED <<ticks, said, idle, shown, thread, lastAt, known, named, amiss>>

Nudge ==
  /\ GapOver
  /\ LET fresh == News(Young(nudged)) IN
       /\ flagged' = Young(flagged)
       /\ nudged' = Young(nudged) \cup {[ref |-> r, at |-> ticks] : r \in fresh}
       /\ lastAt' = IF fresh = {} THEN lastAt ELSE ticks
       /\ named' = named \cup fresh
       /\ amiss' = amiss \cup (fresh \cap (known \cup named))
                         \cup (Due \ (known \cup named' \cup {f.ref : f \in flagged}))
  /\ UNCHANGED <<ticks, said, idle, shown, thread, known>>

\* The Coordinator raises an entry with the user.
Raise(r) ==
  /\ r \in Listed /\ Cardinality(flagged) < MaxRaised /\ flagged' = flagged \cup {[ref |-> r, at |-> ticks]}
  /\ UNCHANGED <<ticks, said, idle, shown, thread, nudged, lastAt, known, named, amiss>>

UnseenNext ==
  \/ AgentWrites("prompt") \/ AgentWrites("text")
  \/ \E i \in 0..MaxSaid : UserWrites(i) \/ BridgeSettles(i) \/ RangeReported(i)
  \/ \E t \in 0..LastTick : ItemShown(t)
  \/ \E r \in Listed : Raise(r)
  \/ SessionTurns \/ AgentPosts \/ UserPosts \/ UnseenTick \/ Prune \/ Nudge

UnseenSpec == UnseenInit /\ [][UnseenNext]_unseenVars

----------------------------------------------------------------------------
\* Each entry is named by one nudge at most, and none that the user saw or
\* answered before; and every question and every thread that the user did not
\* see or answer is named when its time has come, unless it was raised
\* (listUnseen, runUnseenNudge).
NudgesAreNews == amiss = {}
=============================================================================
