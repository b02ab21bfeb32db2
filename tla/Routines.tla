------------------------------ MODULE Routines ------------------------------
(* The Coordinator's routines: prompts that the journal fires into the      *)
(* user's Coordinator on a schedule or when a trigger trips (routines.js,   *)
(* routines-triggers.js), the two sweeps and the firer with its bounded     *)
(* deliveries (routines-sweep.js), and the user's edits and runs by hand    *)
(* (routines-http.js).  A tick is a quarter of an hour (RETRY_AFTER_MS,      *)
(* TRIGGER_GAP_MS, MIN_GAP_MS); the times in a row count the ticks left.    *)
EXTENDS Integers, FiniteSets

CONSTANTS
  Scheduled, Triggered, \* the routines that may be made
  Subjects,      \* what a trigger can trip on: sessions, boxes, allowances
  Allowances,    \* the subjects that are a weekly allowance
  Inflight,      \* ROUTINE_MAX_INFLIGHT: deliveries at a time, numbered
  Period,        \* ticks between two times of a schedule
  MissedAfter,   \* MISSED_AFTER_MS, in ticks
  Never          \* larger than any time: NULL

ASSUME RoutinesAssumption ==
  /\ IsFiniteSet(Scheduled) /\ IsFiniteSet(Triggered)
  /\ Scheduled \cap Triggered = {} /\ Allowances \subseteq Subjects
  /\ Inflight # {} /\ Inflight \subseteq Nat
  /\ Period \in Nat \ {0} /\ MissedAfter \in Nat
  /\ Never \in Nat /\ Never > Period + 1

Routines == Scheduled \cup Triggered
RetryAfter == 1
Gap == 1
Unused == [kind |-> "idle"]

VARIABLES
  stored,   \* routines: state (none, on, off, gone), next_at, retry_at
  known,    \* routine_trigger_state: the subjects recorded for a routine
  matching, \* the subjects whose trigger matches now
  windows,  \* the allowances whose weekly window has not been reset
  backlog,  \* whether the backlog an allowance is spent on has a task
  coord,    \* whether there is a Coordinator on a box
  slots,    \* the deliveries under way
  phase,    \* where the clock is between two times of a schedule
  owed,     \* history: routines with a scheduled time not yet dealt with
  failed,   \* history: routines whose last scheduled fire failed, to retry
  answered  \* history: subjects whose fire was answered, and not clear since

routineVars == <<stored, known, matching, windows, backlog, coord, slots, phase, owed, failed, answered>>

Kinds == {"due", "retry", "trigger", "run"}
Delivery == [kind : Kinds, r : Routines, subjects : SUBSET Subjects]

\* The table: a routine as it is stored (retry_at is "not before" for a trigger).
Row == [state : {"none", "on", "off", "gone"},
        next : -(MissedAfter + 1) .. Never, retry : -(MissedAfter + 1) .. Never]

RoutinesTypeOK ==
  /\ stored \in [Routines -> Row] /\ known \in [Triggered -> SUBSET Subjects]
  /\ matching \subseteq Subjects /\ windows \subseteq Allowances
  /\ slots \in [Inflight -> Delivery \cup {Unused}]
  /\ phase \in 0 .. Period - 1 /\ coord \in BOOLEAN /\ backlog \in BOOLEAN
  /\ owed \subseteq Scheduled /\ failed \subseteq Scheduled
  /\ answered \subseteq Triggered \X Subjects

RoutinesInit ==
  /\ stored = [r \in Routines |-> [state |-> "none", next |-> Never, retry |-> Never]]
  /\ known = [r \in Triggered |-> {}] /\ matching = {} /\ windows = Allowances
  /\ backlog = TRUE /\ coord = TRUE /\ slots = [i \in Inflight |-> Unused]
  /\ phase = 0 /\ owed = {} /\ failed = {} /\ answered = {}

On(r) == stored[r].state = "on"
Busy(s) == \A i \in Inflight : s[i] # Unused
\* A sweep goes through a set of routines, one after the other.
InTurn(R) == {o \in [1 .. Cardinality(R) -> R] : \A i, j \in DOMAIN o : i # j => o[i] # o[j]}
Free(s) == CHOOSE i \in Inflight : s[i] = Unused /\ \A j \in Inflight : s[j] = Unused => i <= j

----------------------------------------------------------------------------
(* What the user and the Coordinator do to a routine.                      *)

\* nextRunAt: the first time of the schedule strictly after now.
NextRun == Period - phase

\* The subjects a delivery of the routine is to tell of.
Telling(r) == UNION {slots[i].subjects : i \in {j \in Inflight : slots[j] # Unused /\ slots[j].r = r}}

\* The history of a routine that starts afresh.
Afresh(r) ==
  /\ owed' = owed \ {r} /\ failed' = failed \ {r}
  /\ answered' = {t \in answered : t[1] # r}

\* createRoutine.
CreateRoutines(R) ==
  /\ \A r \in R : stored[r].state = "none"
  /\ stored' = [r \in Routines |-> IF r \in R
       THEN [state |-> "on", next |-> IF r \in Scheduled THEN NextRun ELSE Never, retry |-> Never]
       ELSE stored[r]]
  /\ UNCHANGED <<known, matching, windows, backlog, coord, slots, phase, owed, failed, answered>>

\* seedRoutines: the starter set, for a user who has none.
SeedRoutines == CreateRoutines(Routines)

\* updateRoutine that pauses: neither a time nor a retry is left.
Pause(r) ==
  /\ On(r)
  /\ stored' = [stored EXCEPT ![r] = [state |-> "off", next |-> Never, retry |-> Never]]
  /\ known' = IF r \in Triggered THEN [known EXCEPT ![r] = {}] ELSE known
  /\ Afresh(r)
  /\ UNCHANGED <<matching, windows, backlog, coord, slots, phase>>

\* updateRoutine that resumes it.
Resume(r) ==
  /\ stored[r].state = "off"
  /\ stored' = [stored EXCEPT ![r].state = "on",
       ![r].next = IF r \in Scheduled THEN NextRun ELSE @,
       ![r].retry = IF r \in Scheduled THEN Never ELSE @]
  /\ UNCHANGED <<known, matching, windows, backlog, coord, slots, phase, owed, failed, answered>>

\* updateRoutine with another schedule, zone or trigger: a trigger's subjects
\* trip again, its gap stays.
Edit(r) ==
  /\ On(r)
  /\ IF r \in Scheduled
     THEN stored' = [stored EXCEPT ![r].next = NextRun, ![r].retry = Never] /\ UNCHANGED known
     ELSE known' = [known EXCEPT ![r] = {}] /\ UNCHANGED stored
  /\ Afresh(r)
  /\ UNCHANGED <<matching, windows, backlog, coord, slots, phase>>

\* deleteRoutine: the records of a trigger go with the row.
Delete(r) ==
  /\ stored[r].state \in {"on", "off"}
  /\ stored' = [stored EXCEPT ![r] = [state |-> "gone", next |-> Never, retry |-> Never]]
  /\ known' = IF r \in Triggered THEN [known EXCEPT ![r] = {}] ELSE known
  /\ Afresh(r)
  /\ UNCHANGED <<matching, windows, backlog, coord, slots, phase>>

\* POST /routines/:key/run: a fire that leaves the times alone.  Without a
\* Coordinator it goes through recordOutcome, which takes the retry along.
RunNow(r) ==
  /\ stored[r].state \in {"on", "off"} /\ ~Busy(slots)
  /\ IF coord
     THEN /\ slots' = [slots EXCEPT ![Free(slots)] =
                         [kind |-> "run", r |-> r, subjects |-> {}]]
          /\ UNCHANGED <<stored, failed>>
     ELSE /\ stored' = [stored EXCEPT ![r].retry = IF On(r) THEN Never ELSE @]
          /\ failed' = failed \ {r} /\ UNCHANGED slots
  /\ UNCHANGED <<known, matching, windows, backlog, coord, phase, owed, answered>>

----------------------------------------------------------------------------
(* The scheduled sweep, once a minute.                                      *)

Reached(t) == t <= 0
\* dueRoutines.  Slip: what is too late is not looked at.
IsDueInTime(r) ==
  r \in Scheduled /\ On(r) /\ \E t \in {stored[r].next, stored[r].retry} : Reached(t) /\ -t <= MissedAfter
IsDue(r) == r \in Scheduled /\ On(r) /\ (Reached(stored[r].next) \/ Reached(stored[r].retry))
Since(r) == IF stored[r].retry # Never THEN stored[r].retry ELSE stored[r].next

\* advanceRoutine: before the delivery, next_at past now and the retry used.
\* Slip: a retry leaves the time that has come.
RetryKeepsTime(w) == [w EXCEPT !.retry = Never,
  !.next = IF Reached(@) /\ ~Reached(w.retry) THEN NextRun ELSE @]
Advanced(w) == [w EXCEPT !.next = IF Reached(@) THEN NextRun ELSE @, !.retry = Never]
Retrying(w) == Reached(w.retry)
Missed(w) == -(IF Retrying(w) THEN w.retry ELSE w.next) > MissedAfter

\* One due routine of the pass, on what the pass has made of the others: it
\* ends when the firer is busy; without a Coordinator nothing is under way.
FireOne(s, r) ==
  IF Busy(s.slots) THEN s
  ELSE [row |-> [s.row EXCEPT ![r] = Advanced(@)], done |-> s.done \cup {r},
        slots |-> IF Missed(s.row[r]) \/ ~coord THEN s.slots
                  ELSE [s.slots EXCEPT ![Free(s.slots)] =
                    [kind |-> IF Retrying(s.row[r]) THEN "retry" ELSE "due",
                     r |-> r, subjects |-> {}]]]

\* The pass after the first n of them.
FireAll(order, n) ==
  LET s[k \in 0 .. n] == IF k = 0 THEN [row |-> stored, slots |-> slots, done |-> {}]
                         ELSE FireOne(s[k - 1], order[k])
  IN s[n]

\* startRoutinesSweep.run: all that is due, the oldest first.
ScheduleSweep ==
  LET R == {r \in Scheduled : IsDue(r)} IN
  \E order \in InTurn(R) :
     LET s == FireAll(order, Cardinality(R)) IN
     /\ \A i, j \in DOMAIN order : i < j => Since(order[i]) <= Since(order[j])
     /\ s.done # {}
     /\ stored' = s.row /\ slots' = s.slots
     /\ owed' = owed \ s.done /\ failed' = failed \ s.done
     /\ UNCHANGED <<known, matching, windows, backlog, coord, phase, answered>>

----------------------------------------------------------------------------
(* The trigger sweep, every five minutes: a delivery (a wake and a timeout, *)
(* 270 s) has ended by the next one.                                        *)

Resting(r) == ~Reached(stored[r].retry) /\ stored[r].retry # Never
Matches(r) == {s \in Subjects : s \in matching}

\* allowanceWindowOpen: an allowance stays recorded until its reset.
\* Slip: it is forgotten like any other.
NoWindow(s) == FALSE
WindowOpen(s) == s \in Allowances \cap windows

\* trippedSubjects: what no longer matches is forgotten; what is not yet
\* recorded is fresh, an allowance only when there is something to spend it on.
\* Slip: a resting routine records what it does not fire.
Kept(r) == {s \in known[r] : s \in Matches(r) \/ WindowOpen(s)}
Fresh(r) == {s \in Matches(r) \ known[r] : s \in Allowances => backlog}
RecordsAlways(r) == Fresh(r)
Recorded(r) == IF Resting(r) THEN {} ELSE Fresh(r)

Fires(r) == ~Resting(r) /\ Fresh(r) # {}

\* The step for one routine.  A busy firer skips a routine that would fire,
\* a resting one is looked through in any case.
TripOne(s, r) ==
  IF ~Resting(r) /\ Busy(s.slots) THEN s
  ELSE [known |-> [s.known EXCEPT ![r] = Kept(r) \cup Recorded(r)],
        seen |-> s.seen \cup {r},
        row |-> IF Fires(r) THEN [s.row EXCEPT ![r].retry = Gap] ELSE s.row,
        slots |-> IF Fires(r) /\ coord
                  THEN [s.slots EXCEPT ![Free(s.slots)] =
                         [kind |-> "trigger", r |-> r, subjects |-> Fresh(r)]]
                  ELSE s.slots]

\* onOutcome of a trigger's fire: after a failure the next attempt might cure,
\* or without a Coordinator, the fresh subjects are forgotten again and the
\* routine backs off.  Slip: they stay recorded.
StayRecorded(k, subjects) == k
Forgotten(k, subjects) == k \ subjects

\* The sweep after the first n routines.
TripAll(order, n) ==
  LET s[k \in 0 .. n] == IF k = 0 THEN [known |-> known, row |-> stored, slots |-> slots, seen |-> {}]
                         ELSE TripOne(s[k - 1], order[k])
  IN s[n]

\* runTriggerSweep.
TriggerSweep ==
  LET R == {r \in Triggered : On(r)} IN
  \E order \in InTurn(R) :
     LET s == TripAll(order, Cardinality(R))
         lost == {r \in s.seen : Fires(r) /\ ~coord}
     IN
     /\ \A i \in Inflight : slots[i] # Unused => slots[i].kind # "trigger"
     /\ known' = [r \in Triggered |-> IF r \in lost
                    THEN Forgotten(s.known[r], Fresh(r)) ELSE s.known[r]]
     /\ stored' = [r \in Routines |-> IF r \in lost
                  THEN [s.row[r] EXCEPT !.retry = RetryAfter] ELSE s.row[r]]
     /\ slots' = s.slots
     /\ answered' = {t \in answered : t[1] \in s.seen =>
                    t[2] \in matching \/ (t[2] \in Allowances /\ t[2] \in windows)}
     /\ UNCHANGED <<matching, windows, backlog, coord, phase, owed, failed>>

----------------------------------------------------------------------------
(* How a delivery ends, and the world around the sweeps.                    *)

\* recordOutcome: the one retry of a scheduled fire.  Slip: a retry, too.
EveryFailure(f) == TRUE
MayRetry(f) == f.kind = "due"

\* fire, after the box answered, refused, or did not answer in time.
Answer(i, ok, retryable) ==
  LET f == slots[i] IN
  /\ f # Unused /\ (ok => ~retryable)
  /\ slots' = [slots EXCEPT ![i] = Unused]
  /\ CASE f.kind \in {"due", "retry"} ->
            /\ stored' = IF On(f.r)
                      THEN [stored EXCEPT ![f.r].retry =
                              IF retryable /\ MayRetry(f) THEN RetryAfter ELSE Never]
                      ELSE stored
            /\ failed' = IF On(f.r) /\ retryable /\ f.kind = "due"
                         THEN failed \cup {f.r} ELSE failed
            /\ UNCHANGED <<known, answered>>
       [] f.kind = "trigger" ->
            /\ known' = IF retryable
                        THEN [known EXCEPT ![f.r] = Forgotten(@, f.subjects)] ELSE known
            /\ stored' = IF retryable /\ stored[f.r].state # "gone"
                      THEN [stored EXCEPT ![f.r].retry = RetryAfter] ELSE stored
            /\ answered' = IF retryable THEN answered
                       ELSE answered \cup {t \in {f.r} \X f.subjects : t[2] \in known[f.r]}
            /\ UNCHANGED failed
       [] OTHER -> UNCHANGED <<stored, known, failed, answered>>
  /\ UNCHANGED <<matching, windows, backlog, coord, phase, owed>>

\* A restart: the deliveries are gone; what they were to tell was recorded
\* before, so a fire is lost rather than made twice.
Crash ==
  /\ slots' = [i \in Inflight |-> Unused]
  /\ answered' = answered \cup {t \in Triggered \X Subjects : t[2] \in known[t[1]] \cap Telling(t[1])}
  /\ UNCHANGED <<stored, known, matching, windows, backlog, coord, phase, owed, failed>>

\* Sessions and boxes cross a threshold and return; a task is filed or taken;
\* the weekly window of an allowance ends and with it the subject.
Match(s) ==
  /\ s \notin matching /\ (s \in Allowances => s \in windows)
  /\ matching' = matching \cup {s}
  /\ UNCHANGED <<stored, known, windows, backlog, coord, slots, phase, owed, failed, answered>>
Clear(s) ==
  /\ s \in matching /\ matching' = matching \ {s}
  /\ UNCHANGED <<stored, known, windows, backlog, coord, slots, phase, owed, failed, answered>>
WindowEnds(s) ==
  /\ s \in windows /\ windows' = windows \ {s} /\ matching' = matching \ {s}
  /\ UNCHANGED <<stored, known, backlog, coord, slots, phase, owed, failed, answered>>
Backlog ==
  /\ backlog' = ~backlog
  /\ UNCHANGED <<stored, known, matching, windows, coord, slots, phase, owed, failed, answered>>
Assign ==
  /\ coord' = ~coord
  /\ UNCHANGED <<stored, known, matching, windows, backlog, slots, phase, owed, failed, answered>>

Less(t) == IF t = Never THEN Never ELSE IF t > -(MissedAfter + 1) THEN t - 1 ELSE t

\* A quarter of an hour: every delivery has ended in it (270 s at most).
QuarterHour ==
  /\ slots = [i \in Inflight |-> Unused]
  /\ phase' = (phase + 1) % Period
  /\ stored' = [r \in Routines |->
       [stored[r] EXCEPT !.next = Less(@), !.retry = Less(@)]]
  /\ owed' = IF phase' = 0 THEN owed \cup {r \in Scheduled : On(r)} ELSE owed
  /\ UNCHANGED <<known, matching, windows, backlog, coord, slots, failed, answered>>

RoutinesNext ==
  \/ ScheduleSweep \/ TriggerSweep \/ Crash \/ Backlog \/ Assign \/ QuarterHour
  \/ SeedRoutines \/ \E r \in Routines :
       CreateRoutines({r}) \/ Pause(r) \/ Resume(r) \/ Edit(r) \/ Delete(r) \/ RunNow(r)
  \/ \E s \in Subjects : Match(s) \/ Clear(s) \/ WindowEnds(s)
  \/ \E i \in Inflight, ok, retryable \in BOOLEAN : Answer(i, ok, retryable)

----------------------------------------------------------------------------
\* A fire has a cause of its own: a time of the schedule that has come, once;
\* a scheduled fire that failed, once; a subject that was not told of since it
\* was last seen clear, an allowance once in its window.  Whatever the sweep
\* that was late, the delivery that was slow, the restart in the middle.
Caused(f) ==
  CASE f.kind = "due" -> f.r \in owed
    [] f.kind = "retry" -> f.r \in failed
    [] f.kind = "trigger" -> ({f.r} \X f.subjects) \cap answered = {}
    [] OTHER -> TRUE
FiredOnce ==
  [][\A i \in Inflight : slots'[i] \notin {Unused, slots[i]} => Caused(slots'[i])]_routineVars

\* Nothing is swallowed: a subject that is recorded, and so will not trip, was
\* told of or is on its way, and a scheduled fire known to have failed has its
\* retry in the row.
NothingSwallowed ==
  /\ RoutinesTypeOK
  /\ \A r \in Triggered : \A s \in known[r] : s \in Telling(r) \/ <<r, s>> \in answered
  /\ \A r \in failed : stored[r].retry # Never

\* A time of the schedule that came is dealt with, fired or written down as
\* missed, unless the routine is paused or changed, and a failed fire is
\* retried (startRoutinesSweep).
FiresEnd == \A r \in Scheduled : r \in owed \cup failed ~> r \notin owed \cup failed

\* Both together: what ought to fire does, and nothing else.
RoutinesFire == FiredOnce /\ FiresEnd
=============================================================================
