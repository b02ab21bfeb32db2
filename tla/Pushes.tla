------------------------------- MODULE Pushes -------------------------------
(* Pushes to a phone (push.js, notify.js): a card that asks for consent may  *)
(* be held for the Coordinator to decide it, over a restart too; routine     *)
(* messages of a conversation are joined while a window is open.             *)
EXTENDS Naturals, Sequences

CONSTANTS
  Cards,      \* permission requests for a spawn or a chat
  Hold,       \* CONSENT_HOLD_MS, in ticks
  Slack,      \* CONSENT_RESUME_SLACK_MS, in ticks
  MaxNews,    \* bound: routine messages
  PushDeaths  \* bound: restarts

ASSUME PushAssumption == Hold \in Nat \ {0} /\ Slack \in Nat \ {0} /\ MaxNews \in Nat

VARIABLES
  awake,    \* the process runs
  pushDeaths, \* its restarts
  wait,     \* the ask of a card: "none", "awaiting_user", "decided"
  old,      \* ticks since the card was journaled
  holdTimer, \* the cards whose hold runs
  holding,  \* holdsConsent: do cards wait for the Coordinator
  changed,  \* history: the user changed that
  rung,     \* history: the pushes of a card, how old it was and how its ask stood
  resumed,  \* history: how often its hold was taken up again
  skipped,  \* history: cards whose hold a restart swallowed for good
  latched,  \* coalesceState: is the window open
  pending,  \* pendingBuild: the message that waits in it, or 0
  news,     \* routine messages
  owed,     \* history: the newest of them that no restart swallowed
  shown     \* history: the newest the phone shows

pushVars == <<awake, pushDeaths, wait, old, holdTimer, holding, changed, rung, resumed, skipped,
              latched, pending, news, owed, shown>>
cardVars == <<wait, old, holdTimer, holding, changed, rung, resumed, skipped>>
newsVars == <<latched, pending, news, owed, shown>>

Oldest == Hold + Slack + 1

PushInit ==
  /\ awake = TRUE /\ pushDeaths = 0
  /\ wait = [c \in Cards |-> "none"] /\ old = [c \in Cards |-> 0] /\ holdTimer = {}
  /\ holding \in BOOLEAN /\ changed = FALSE /\ skipped = {}
  /\ rung = [c \in Cards |-> <<>>] /\ resumed = [c \in Cards |-> 0]
  /\ latched = FALSE /\ pending = 0 /\ news = 0 /\ owed = 0 /\ shown = 0

----------------------------------------------------------------------------
(* Cards.                                                                   *)

Ring(c) == [rung EXCEPT ![c] = Append(@, [age |-> old[c], ask |-> wait'[c]])]

\* onAppend of a card: held, or pushed at once.
CardComes(c) ==
  /\ awake /\ wait[c] = "none" /\ wait' = [wait EXCEPT ![c] = "awaiting_user"]
  /\ holdTimer' = IF holding THEN holdTimer \cup {c} ELSE holdTimer
  /\ rung' = IF holding THEN rung ELSE Ring(c)
  /\ UNCHANGED <<awake, pushDeaths, old, holding, changed, resumed, skipped, newsVars>>

\* The Coordinator or the user answers.
CardDecided(c) ==
  /\ awake /\ wait[c] = "awaiting_user" /\ wait' = [wait EXCEPT ![c] = "decided"]
  /\ UNCHANGED <<awake, pushDeaths, old, holdTimer, holding, changed, rung, resumed, skipped, newsVars>>

\* consentStillPending.  Slip: what was held is pushed.
AlwaysPending(c) == TRUE
StillPending(c) == wait[c] = "awaiting_user"
HoldEnds(c) ==
  /\ c \in holdTimer /\ old[c] >= Hold /\ holdTimer' = holdTimer \ {c}
  /\ UNCHANGED <<awake, pushDeaths, wait, old, holding, changed, resumed, skipped, newsVars>>
  /\ rung' = IF StillPending(c) THEN Ring(c) ELSE rung

\* The mode, the switch of the Coordinator, or which conversation it is.
SettingsChange ==
  /\ awake /\ holding' = ~holding /\ changed' = TRUE
  /\ UNCHANGED <<awake, pushDeaths, wait, old, holdTimer, rung, resumed, skipped, newsVars>>

\* Timers do not come late by a tick.
PushTick ==
  /\ \A c \in holdTimer : old[c] < Hold
  /\ \E c \in Cards : wait[c] # "none" /\ old[c] < Oldest
  /\ old' = [c \in Cards |-> IF wait[c] # "none" /\ old[c] < Oldest THEN old[c] + 1 ELSE old[c]]
  /\ UNCHANGED <<awake, pushDeaths, wait, holdTimer, holding, changed, rung, resumed, skipped, newsVars>>

\* resumeHeldConsent.  Slips: of any age; whether or not cards are held now.
AnyAge(c) == StillPending(c) /\ holding
AnyMode(c) == StillPending(c) /\ old[c] < Hold + Slack
Resumes(c) == StillPending(c) /\ old[c] < Hold + Slack /\ holding

PushBoots ==
  /\ ~awake /\ awake' = TRUE /\ holdTimer' = {c \in Cards : Resumes(c)}
  /\ resumed' = [c \in Cards |-> IF c \in holdTimer' THEN resumed[c] + 1 ELSE resumed[c]]
  /\ skipped' = skipped \cup {c \in Cards : (~holding \/ old[c] >= Hold + Slack) /\ rung[c] = <<>>}
  /\ UNCHANGED <<pushDeaths, wait, old, holding, changed, rung, newsVars>>

----------------------------------------------------------------------------
(* Routine messages: scheduleRoutine, armWindow.                            *)

\* Within the window, the latest wins.  Slip: the first does.
FirstWins(n) == IF pending = 0 THEN n ELSE pending
LatestWins(n) == n
NewsComes ==
  /\ awake /\ news < MaxNews /\ news' = news + 1 /\ owed' = news'
  /\ IF latched THEN pending' = LatestWins(news') /\ UNCHANGED <<latched, shown>>
                ELSE latched' = TRUE /\ shown' = news' /\ UNCHANGED pending
  /\ UNCHANGED <<awake, pushDeaths, cardVars>>

\* A message that was held is pushed, and the window begins again.  Slip: the
\* window just ends.
JustEnds == FALSE
Trailing == pending # 0
WindowEnds ==
  /\ latched /\ latched' = Trailing /\ pending' = 0
  /\ shown' = IF Trailing THEN pending ELSE shown
  /\ UNCHANGED <<awake, pushDeaths, news, owed, cardVars>>

\* close, or a crash: timers and windows are in memory only.
PushDies ==
  /\ awake /\ pushDeaths < PushDeaths /\ awake' = FALSE /\ pushDeaths' = pushDeaths + 1
  /\ holdTimer' = {} /\ latched' = FALSE /\ pending' = 0 /\ owed' = shown
  /\ UNCHANGED <<wait, old, holding, changed, rung, resumed, skipped, news, shown>>

PushNext ==
  \/ \E c \in Cards : CardComes(c) \/ CardDecided(c) \/ HoldEnds(c)
  \/ SettingsChange \/ PushTick \/ PushBoots \/ PushDies \/ NewsComes \/ WindowEnds

PushSpec == PushInit /\ [][PushNext]_pushVars

----------------------------------------------------------------------------
\* A card is pushed only while its ask waits for somebody, and not once a
\* restart finds it too old; one more time at most for each hold that was taken
\* up again, and not again if it was pushed at once, unless settings changed;
\* and one whose hold is over was pushed or is about to be, unless a restart
\* swallowed it for good.  The newest routine message is on the phone or waits in an open
\* window (onAppend, resumeHeldConsent, scheduleRoutine).
PhoneRings ==
  /\ \A c \in Cards :
       /\ \A i \in DOMAIN rung[c] :
            rung[c][i].ask = "awaiting_user" /\ rung[c][i].age < Hold + Slack
       /\ Len(rung[c]) <= 1 + resumed[c]
       /\ Len(rung[c]) > 1 /\ rung[c][1].age < Hold => changed
       /\ awake /\ wait[c] = "awaiting_user" /\ old[c] > Hold => rung[c] # <<>> \/ c \in holdTimer \cup skipped
  /\ owed # shown => latched /\ pending = owed
=============================================================================
