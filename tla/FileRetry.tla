------------------------------ MODULE FileRetry ------------------------------
(***************************************************************************)
(* Retries of file writes (file-idem.js, files-write-http.js).  A client   *)
(* that hears nothing repeats its request with the same key.  The          *)
(* reservation is a row, written before the work starts; the promise of    *)
(* the work is in memory.  A row whose promise died with its process is a  *)
(* write whose outcome nobody knows: only a mkdir is run again.            *)
(*                                                                         *)
(* The work itself is one step that takes effect, is denied, or throws     *)
(* with nothing done (see FileWrites).  A request with the key of another  *)
(* payload or device is refused without a change, and is left out, as are  *)
(* the quotas and requests without a key.                                  *)
(*                                                                         *)
(* Bounds: MaxGens reservations in all, MaxTries runs of the work,         *)
(* MaxBoots restarts.                                                      *)
(***************************************************************************)
EXTENDS Naturals, FiniteSets

CONSTANTS
  Keys,      \* idempotency keys
  Mkdirs,    \* those of a mkdir
  MaxGens, MaxTries, MaxBoots

ASSUME FileRetryAssumption ==
  /\ Mkdirs \subseteq Keys
  /\ MaxGens \in Nat /\ MaxTries \in Nat /\ MaxBoots \in Nat

VARIABLES
  attempts,      \* file_idem: [state, gen, boot, outcome, due]
  inflight,  \* the promise of a key: a try, or 0
  tries,     \* runs of the work: [key, gen, at]
  gens,      \* reservations made
  boot,      \* BOOT_ID
  asking,    \* keys whose client waits for a promise
  told,      \* answers a client of the key got
  lapsed     \* keys whose row was dropped for its age

retryVars == <<attempts, inflight, tries, gens, boot, asking, told, lapsed>>

NoRow == [state |-> "none", gen |-> 0, boot |-> 0, outcome |-> "none", due |-> FALSE]
Tries == 1..MaxTries
NoTry == [key |-> CHOOSE k \in Keys : TRUE, gen |-> 0, at |-> "none"]
Free == {t \in Tries : tries[t].at = "none"}
Next1(S) == CHOOSE t \in S : \A u \in S : t <= u
Outcomes == {"ok", "denied"}

Answer(k, a) == told' = [told EXCEPT ![k] = @ \cup {a}]

\* sweep: done rows past their minutes, pending rows past seven days.
Swept == [k \in Keys |-> IF attempts[k].due THEN NoRow ELSE attempts[k]]
Aged == lapsed \cup {k \in Keys : attempts[k].due}

\* safeToReRun, of the stored intent and the new one.  Slip: whatever it was.
RunAnythingAgain(k) == TRUE
SafeToReRun(k) == k \in Mkdirs

Starts(k, gen) ==
  /\ Free # {}
  /\ LET t == Next1(Free) IN
       /\ tries' = [tries EXCEPT ![t] = [key |-> k, gen |-> gen, at |-> "queued"]]
       /\ inflight' = [inflight EXCEPT ![k] = t]
  /\ asking' = asking \cup {k}

-----------------------------------------------------------------------------
\* reserve: the sweep, and then what the row says.
Claim(k) ==
  /\ Swept[k] = NoRow /\ gens < MaxGens
  /\ gens' = gens + 1
  /\ attempts' = [Swept EXCEPT ![k] = [NoRow EXCEPT !.state = "pending", !.gen = gens + 1, !.boot = boot]]
  /\ Starts(k, gens + 1)
  /\ lapsed' = Aged
  /\ UNCHANGED <<boot, told>>

Replay(k) ==
  /\ Swept[k].state = "done"
  /\ attempts' = Swept /\ lapsed' = Aged
  /\ Answer(k, attempts[k].outcome)
  /\ UNCHANGED <<inflight, tries, gens, boot, asking>>

\* A try of this row is running in this process.
Live(k) == inflight[k] # 0 /\ tries[inflight[k]].gen = attempts[k].gen

Join(k) ==
  /\ Swept[k].state = "pending" /\ Live(k)
  /\ attempts' = Swept /\ lapsed' = Aged
  /\ asking' = asking \cup {k}
  /\ UNCHANGED <<inflight, tries, gens, boot, told>>

\* recover.
ReRun(k) ==
  /\ Swept[k].state = "pending" /\ ~Live(k) /\ SafeToReRun(k)
  /\ attempts' = [Swept EXCEPT ![k].boot = boot] /\ lapsed' = Aged
  /\ Starts(k, attempts[k].gen)
  /\ UNCHANGED <<gens, boot, told>>

Indeterminate(k) ==
  /\ Swept[k].state = "pending" /\ ~Live(k) /\ ~SafeToReRun(k)
  /\ attempts' = Swept /\ lapsed' = Aged
  /\ Answer(k, "indeterminate")
  /\ UNCHANGED <<inflight, tries, gens, boot, asking>>

-----------------------------------------------------------------------------
\* audited: the line first; without it the request is denied.
Attempt(t) ==
  /\ tries[t].at = "queued"
  /\ tries' = [tries EXCEPT ![t].at = "logged"]
  /\ UNCHANGED <<attempts, inflight, gens, boot, asking, told, lapsed>>

AuditFails(t) ==
  /\ tries[t].at = "queued"
  /\ tries' = [tries EXCEPT ![t].at = "denied"]
  /\ UNCHANGED <<attempts, inflight, gens, boot, asking, told, lapsed>>

Work(t, result) ==
  /\ tries[t].at = "logged"
  /\ tries' = [tries EXCEPT ![t].at = result]
  /\ UNCHANGED <<attempts, inflight, gens, boot, asking, told, lapsed>>

\* release, and the row if it is still this reservation's.
Release(t) == inflight' = IF inflight[tries[t].key] = t THEN [inflight EXCEPT ![tries[t].key] = 0] ELSE inflight
Owned(t) == attempts[tries[t].key].state # "none" /\ attempts[tries[t].key].gen = tries[t].gen

\* What is worth replaying.  Slip: only a success.
KeepsSuccess(result) == result = "ok"
Keeps(result) == result \in Outcomes

\* settle or forget; either write may fail, and the row then stays pending.
\* The answer goes out after it.
Settle(t) ==
  /\ tries[t].at \in Outcomes \cup {"error"}
  /\ LET k == tries[t].key
         result == tries[t].at
         settled == IF Keeps(result) THEN [attempts[k] EXCEPT !.state = "done", !.outcome = result, !.due = FALSE] ELSE NoRow
     IN /\ \/ attempts' = IF Owned(t) THEN [attempts EXCEPT ![k] = settled] ELSE attempts
           \/ attempts' = attempts
        /\ Release(t)
        /\ tries' = [tries EXCEPT ![t].at = IF result = "ok" THEN "done" ELSE "over"]
        /\ IF k \in asking THEN Answer(k, result) /\ asking' = asking \ {k} ELSE UNCHANGED <<told, asking>>
  /\ UNCHANGED <<gens, boot, lapsed>>

\* A row is past its time; the next reserve drops it.
Lapse(k) ==
  /\ attempts[k].state # "none" /\ ~attempts[k].due
  /\ attempts' = [attempts EXCEPT ![k].due = TRUE]
  /\ UNCHANGED <<inflight, tries, gens, boot, asking, told, lapsed>>

\* The process dies: a try that took effect leaves its row pending.
Restart ==
  /\ boot < MaxBoots
  /\ boot' = boot + 1
  /\ inflight' = [k \in Keys |-> 0] /\ asking' = {}
  /\ tries' = [t \in Tries |-> IF tries[t].at \in {"none", "done", "over"} THEN tries[t]
                               ELSE [tries[t] EXCEPT !.at = IF @ = "ok" THEN "done" ELSE "over"]]
  /\ UNCHANGED <<attempts, gens, told, lapsed>>

-----------------------------------------------------------------------------
RetryInit ==
  /\ attempts = [k \in Keys |-> NoRow] /\ inflight = [k \in Keys |-> 0]
  /\ tries = [t \in Tries |-> NoTry]
  /\ gens = 0 /\ boot = 0
  /\ asking = {} /\ told = [k \in Keys |-> {}] /\ lapsed = {}

RetryNext ==
  \/ \E k \in Keys : Claim(k) \/ Replay(k) \/ Join(k) \/ ReRun(k) \/ Indeterminate(k) \/ Lapse(k)
  \/ \E t \in Tries : Attempt(t) \/ AuditFails(t) \/ Settle(t)
  \/ \E t \in Tries, result \in Outcomes \cup {"error"} : Work(t, result)
  \/ Restart

RetrySpec == RetryInit /\ [][RetryNext]_retryVars

-----------------------------------------------------------------------------
(* What a key promises, until its row is dropped for its age. *)

Effects(k) == {t \in Tries : tries[t].key = k /\ tries[t].at \in {"ok", "done"}}

\* However often a write is repeated, and whatever crashed or went unanswered
\* in between, it takes effect once; a mkdir may be made again (file-idem.js).
OncePerKey == \A k \in Keys \ (lapsed \cup Mkdirs) : Cardinality(Effects(k)) <= 1

\* No two clients of a key hear opposite outcomes, and what they hear is what
\* happened.
OneAnswer == \A k \in Keys \ (lapsed \cup Mkdirs) :
  /\ "ok" \in told[k] => Effects(k) # {}
  /\ "denied" \in told[k] => Effects(k) = {}

\* A request repeated is one request (withIdempotency).
RetriesAreOne == OncePerKey /\ OneAnswer
=============================================================================
