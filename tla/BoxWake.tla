------------------------------ MODULE BoxWake -------------------------------
(* The waking of a box that sleeps: the command that starts it, the window   *)
(* between two of them and what they say (wake.js), and the sessions on it    *)
(* that wait for their usage limit (convo-status.js, stall-wake.js).          *)
EXTENDS Naturals

CONSTANTS
  Debounce,    \* debounceMs, in ticks
  FailBackoff  \* failBackoffMs, in ticks

ASSUME WakeAssumption == FailBackoff \in Nat \ {0} /\ Debounce \in Nat /\ FailBackoff <= Debounce

VARIABLES
  attachedBox, \* has the box a live socket
  since,       \* ticks since lastFired, up to the window
  running,     \* the wake commands that run: the last one that was fired, older ones
  refused,     \* wake_refused_at of the box
  stall,       \* conversation_status: "none", "later", "due", "spent"
  said,        \* history: what the commands say of the box; a refusal stands until
               \* it lapses or a command works
  rest,        \* history: how the last command stands, and ticks since then
  hurried      \* history: a command was fired too soon

wakeVars == <<attachedBox, since, running, refused, stall, said, rest, hurried>>

Codes == {"woken", "failed", "refused"}

WakeInit ==
  /\ attachedBox \in BOOLEAN /\ since = Debounce /\ running = {} /\ refused = FALSE
  /\ stall = "none" /\ said = "none" /\ hurried = FALSE
  /\ rest = [of |-> "none", ticks |-> Debounce]

----------------------------------------------------------------------------
(* wake, wakeIfOffline.                                                     *)

TooSoon ==
  CASE rest.of = "none"    -> FALSE
    [] rest.of = "woken"   -> FALSE
    [] rest.of = "failed"  -> rest.ticks < FailBackoff
    [] OTHER               -> rest.ticks < Debounce

\* isWakeableDevice: a box that was refused is not asked again.
CanWake == ~attachedBox /\ ~refused

\* Nothing is fired inside the window: the box is being woken.
Fire ==
  IF CanWake /\ since >= Debounce
  THEN /\ since' = 0
       /\ running' = {"last"} \cup (IF running = {} THEN {} ELSE {"older"})
       /\ hurried' = (hurried \/ TooSoon) /\ rest' = [of |-> "running", ticks |-> 0]
  ELSE UNCHANGED <<since, running, hurried, rest>>

\* A message for the box, an app's request, an order of the Coordinator, a
\* spawn: whoever finds the box without a socket.
TrafficComes ==
  /\ Fire /\ UNCHANGED <<attachedBox, refused, stall, said>>

\* The window after a command that ended: in full from a refusal, short from
\* another failure.  Slip: it goes on from when the command was fired.
NotReArmed(code) == since
ReArmed(code) ==
  CASE code = "woken"   -> since
    [] code = "failed"  -> Debounce - FailBackoff
    [] code = "refused" -> 0

\* markWakeRefused, clearWakeRefused.  Slip: any failure is a refusal.
AnyFailure(code) == code # "woken"
MarkAfter(code) == IF code = "failed" THEN refused ELSE code = "refused"

\* A command ends; only the last one fired has a say in the window.
CommandEnds(which, code) ==
  /\ which \in running /\ running' = running \ {which}
  /\ since' = IF which = "last" THEN ReArmed(code) ELSE since
  /\ refused' = MarkAfter(code)
  /\ said' = IF code = "failed" /\ said = "refused" THEN said ELSE code
  /\ rest' = IF which = "last" THEN [of |-> code, ticks |-> 0] ELSE rest
  /\ UNCHANGED <<attachedBox, stall, hurried>>

\* WAKE_REFUSAL_TTL_MS is over, or the device gets another name.
RefusalLapses ==
  /\ refused /\ refused' = FALSE /\ said' = IF said = "refused" THEN "none" ELSE said
  /\ UNCHANGED <<attachedBox, since, running, stall, rest, hurried>>

WakeTick ==
  /\ since < Debounce \/ rest.ticks < Debounce
  /\ since' = IF since < Debounce THEN since + 1 ELSE since
  /\ rest' = [rest EXCEPT !.ticks = IF @ < Debounce THEN @ + 1 ELSE @]
  /\ UNCHANGED <<attachedBox, running, refused, stall, said, hurried>>

----------------------------------------------------------------------------
(* Sessions that wait for their limit.                                      *)

\* upsertConvoStatus: context and limits stay when a frame omits them, a
\* stall goes.
StallAfter(reported) == IF reported THEN "later" ELSE "none"
StatusFrame(reported) ==
  /\ attachedBox /\ stall' = StallAfter(reported)
  /\ UNCHANGED <<attachedBox, since, running, refused, said, rest, hurried>>

\* resets_at comes; STALL_WAKE_MAX_AGE_MS after it, it is spent.
LimitResets ==
  /\ stall \in {"later", "due"} /\ stall' = IF stall = "later" THEN "due" ELSE "spent"
  /\ UNCHANGED <<attachedBox, since, running, refused, said, rest, hurried>>

\* startStallWakeSweep: run.
StallSweep ==
  /\ stall = "due" /\ Fire
  /\ UNCHANGED <<attachedBox, refused, stall, said>>

----------------------------------------------------------------------------
BoxConnects ==
  /\ ~attachedBox /\ attachedBox' = TRUE
  /\ UNCHANGED <<since, running, refused, stall, said, rest, hurried>>
BoxLeaves ==
  /\ attachedBox /\ attachedBox' = FALSE
  /\ UNCHANGED <<since, running, refused, stall, said, rest, hurried>>

\* The journal restarts: its memory of the commands goes, the mark stays.
WakerForgets ==
  /\ since' = Debounce /\ running' = {} /\ attachedBox' = FALSE
  /\ rest' = [of |-> "none", ticks |-> Debounce]
  /\ UNCHANGED <<refused, stall, said, hurried>>

WakeNext ==
  \/ TrafficComes \/ RefusalLapses \/ WakeTick \/ LimitResets \/ StallSweep
  \/ \E which \in {"last", "older"} : \E code \in Codes : CommandEnds(which, code)
  \/ \E reported \in BOOLEAN : StatusFrame(reported)
  \/ BoxConnects \/ BoxLeaves \/ WakerForgets

\* The sweep comes every minute.
WakeFairness == WF_wakeVars(WakeTick) /\ WF_wakeVars(StallSweep)

WakeSpec == WakeInit /\ [][WakeNext]_wakeVars /\ WakeFairness

----------------------------------------------------------------------------
\* However much traffic meets a box that does not wake, no command follows the
\* refusal of the one before within the whole window, nor another failure of it
\* within the backoff (makeWaker: a refusal on every message is a storm).
WakesSpaced == ~hurried

\* The box of a session whose limit was reset is woken, and again if that
\* fails, unless the command itself says that the box cannot be woken, or the
\* reset is long past (startStallWakeSweep, markWakeRefused).
StalledAreWoken ==
  stall = "due" ~> running # {} \/ attachedBox \/ stall # "due" \/ said = "refused"
=============================================================================
