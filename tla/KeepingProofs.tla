--------------------------- MODULE KeepingProofs ---------------------------
(***************************************************************************)
(* Proofs about what the journal keeps: FileRetry, Blobs, Ownership,       *)
(* Linking and SignIn.  The five share no variable; each has an inductive  *)
(* invariant of its own, of which its property is a part or follows.       *)
(***************************************************************************)
EXTENDS FileRetry, Blobs, Ownership, Linking, SignIn,
        FiniteSetTheorems, WellFoundedInduction, TLAPS

\* A set of naturals has a least member.
LEMMA LeastNatural ==
  ASSUME NEW D \in SUBSET Nat, D # {}
  PROVE  \E d \in D : \A k \in D : d <= k
<1> DEFINE R == OpToRel(<, Nat)
<1>1. IsWellFoundedOn(R, Nat)
  BY NatLessThanWellFounded
<1>2. \A x, y \in Nat : x < y => <<x, y>> \in R
  BY DEF OpToRel
<1> HIDE DEF R
<1>3. PICK d \in D : \A k \in D : ~(<<k, d>> \in R)
  BY <1>1, WFMin
<1>4. \A k \in D : ~(k < d) /\ k \in Nat /\ d \in Nat
  BY <1>2, <1>3
<1> QED
  BY <1>4


-----------------------------------------------------------------------------
(* FileRetry: the inductive invariant. *)

AttemptRows == [state : {"none", "pending", "done"}, gen : Nat, boot : Nat,
         outcome : Outcomes \cup {"none"}, due : BOOLEAN]
TryStages == {"none", "queued", "logged", "ok", "denied", "error", "done", "over"}
\* A try that was not made bears a key of no meaning.
TryRows == [key : Keys \cup {NoTry.key}, gen : Nat, at : TryStages]

Answers == {"ok", "denied", "error", "indeterminate"}

RetryTypeOK ==
  /\ attempts \in [Keys -> AttemptRows]
  /\ \A k \in Keys : attempts[k].state = "done" => attempts[k].outcome \in Outcomes
  /\ tries \in [Tries -> TryRows]
  /\ gens \in Nat /\ boot \in Nat
  /\ told \in [Keys -> SUBSET Answers]
  /\ lapsed \subseteq Keys

\* The runs of a key that have had or may still have an effect.
Doing(k) == {t \in Tries : tries[t].key = k /\ tries[t].at \notin {"none", "over"}}

\* A key whose row was never dropped has one run at most; while it runs, the
\* row waits for it, and no answer and no row contradicts what it did.
KeyOnce(k) ==
  /\ \A t, u \in Doing(k) : t = u
  /\ \A t \in Doing(k) : tries[t].at # "done" => attempts[k].state = "pending" /\ attempts[k].gen = tries[t].gen
  /\ attempts[k].state = "none" => Doing(k) = {} /\ told[k] \cap Outcomes = {}
  /\ "ok" \in told[k] \/ (attempts[k].state = "done" /\ attempts[k].outcome = "ok")
       => \E t \in Doing(k) : tries[t].at = "done"
  /\ "denied" \in told[k] \/ (attempts[k].state = "done" /\ attempts[k].outcome = "denied") => Doing(k) = {}

RetryInv == RetryTypeOK /\ \A k \in Keys \ (lapsed \cup Mkdirs) : KeyOnce(k)

\* Nothing about key k changes.
SameKey(k) == attempts'[k] = attempts[k] /\ told'[k] = told[k] /\ \A t \in Tries : tries[t].key = k \/ tries'[t].key = k => tries'[t] = tries[t]

\* What holds of a key then keeps.
LEMMA SameKeyKeeps ==
  ASSUME NEW k \in Keys, KeyOnce(k), SameKey(k)
  PROVE  KeyOnce(k)'
BY DEF KeyOnce, SameKey, Doing

\* The sweep drops rows for their age and no others.
LEMMA SweptRow ==
  ASSUME NEW k \in Keys \ Aged
  PROVE  Swept[k] = attempts[k] /\ k \notin lapsed
BY DEF Swept, Aged

\* The least free place is free.
LEMMA FreePlace ==
  ASSUME RetryTypeOK, Free # {}
  PROVE  Next1(Free) \in Tries /\ tries[Next1(Free)].at = "none"
<1>1. Free \subseteq Nat /\ Free \subseteq Tries
  BY DEF Free, Tries
<1>2. \E t \in Free : \A u \in Free : t <= u
  BY <1>1, LeastNatural
<1>3. Next1(Free) \in Free
  BY <1>2 DEF Next1
<1> QED
  BY <1>1, <1>3 DEF Free

-----------------------------------------------------------------------------
(* FileRetry: its actions. *)

\* The rows that the sweep leaves are rows.
LEMMA SweptType ==
  ASSUME RetryTypeOK
  PROVE  /\ Swept \in [Keys -> AttemptRows]
         /\ \A c \in Keys : Swept[c].state = "done" => Swept[c].outcome \in Outcomes
<1>1. NoRow \in AttemptRows /\ NoRow.state = "none"
  BY DEF NoRow, AttemptRows
<1> QED
  BY <1>1 DEF RetryTypeOK, Swept

\* A reservation begins a try in a free place.
LEMMA StartsTry ==
  ASSUME RetryTypeOK, NEW k \in Keys, NEW g \in Nat, Starts(k, g)
  PROVE  \E t \in Tries : /\ tries[t].at = "none"
                          /\ tries' = [tries EXCEPT ![t] = [key |-> k, gen |-> g, at |-> "queued"]]
                          /\ tries' \in [Tries -> TryRows]
<1> DEFINE t == Next1(Free)
           r == [key |-> k, gen |-> g, at |-> "queued"]
<1>1. t \in Tries /\ tries[t].at = "none"
  BY FreePlace DEF Starts
<1>2. tries' = [tries EXCEPT ![t] = r]
  BY DEF Starts
<1>3. r \in TryRows
  BY DEF TryRows, TryStages
<1> HIDE DEF t, r
<1>4. tries' \in [Tries -> TryRows]
  BY <1>1, <1>2, <1>3 DEF RetryTypeOK
<1> QED
  BY <1>1, <1>2, <1>4 DEF r

\* Claim: of the reserved key nothing ran that could still have an effect.
LEMMA ClaimKeeps ==
  ASSUME RetryInv, NEW k \in Keys, Claim(k)
  PROVE  RetryInv'
<1> DEFINE n == gens + 1
           r == [NoRow EXCEPT !.state = "pending", !.gen = n, !.boot = boot]
<1>1. RetryTypeOK
  BY DEF RetryInv
<1>2. /\ gens' = n /\ attempts' = [Swept EXCEPT ![k] = r] /\ lapsed' = Aged /\ UNCHANGED <<boot, told>>
      /\ Swept[k] = NoRow
  BY DEF Claim
<1>3. PICK t \in Tries : /\ tries[t].at = "none"
                         /\ tries' = [tries EXCEPT ![t] = [key |-> k, gen |-> n, at |-> "queued"]]
                         /\ tries' \in [Tries -> TryRows]
  <2>1. n \in Nat /\ Starts(k, n)
    BY <1>1 DEF Claim, RetryTypeOK
  <2> HIDE DEF n
  <2> QED
    BY <1>1, <2>1, StartsTry
<1>4. n \in Nat /\ boot \in Nat
  BY <1>1 DEF RetryTypeOK
<1> HIDE DEF n
<1>5. r \in AttemptRows /\ r.state = "pending" /\ r.gen = n /\ r.outcome = "none"
  BY <1>4 DEF AttemptRows, NoRow
<1> HIDE DEF r
<1>6. RetryTypeOK'
  <2>1. Swept \in [Keys -> AttemptRows] /\ \A c \in Keys : Swept[c].state = "done" => Swept[c].outcome \in Outcomes
    BY <1>1, SweptType
  <2>2. attempts' \in [Keys -> AttemptRows]
    BY <1>2, <1>5, <2>1
  <2>3. \A c \in Keys : attempts'[c].state = "done" => attempts'[c].outcome \in Outcomes
    BY <1>2, <1>5, <2>1
  <2> QED
    BY <1>1, <1>2, <1>3, <1>4, <2>2, <2>3 DEF RetryTypeOK, Aged
<1>7. ASSUME NEW c \in Keys \ (lapsed' \cup Mkdirs)
      PROVE  KeyOnce(c)'
  <2>1. Swept[c] = attempts[c] /\ KeyOnce(c)
    BY <1>2, <1>7, SweptRow DEF RetryInv
  <2>2. CASE c # k
    <3>2. attempts'[c] = attempts[c] /\ told'[c] = told[c]
      BY <1>2, <2>1, <2>2 DEF Swept
    <3>3. Doing(c)' = Doing(c) /\ \A u \in Doing(c) : tries'[u] = tries[u]
      BY <1>1, <1>3, <2>2 DEF Doing, RetryTypeOK
    <3> QED
      BY <2>1, <3>2, <3>3 DEF KeyOnce, Doing
  <2>3. CASE c = k
    <3>1. attempts[k].state = "none" /\ attempts'[k] = r /\ told'[k] = told[k]
      BY <1>2, <2>1, <2>3 DEF Swept, NoRow
    <3>2. Doing(k) = {} /\ told[k] \cap Outcomes = {}
      BY <2>1, <2>3, <3>1 DEF KeyOnce
    <3>3. Doing(k)' = {t} /\ tries'[t].at = "queued" /\ tries'[t].gen = n
      BY <1>1, <1>3, <3>2 DEF Doing, RetryTypeOK
    <3> QED
      BY <1>5, <2>3, <3>1, <3>2, <3>3 DEF KeyOnce, Outcomes, Doing
  <2> QED
    BY <2>2, <2>3
<1> QED
  BY <1>6, <1>7 DEF RetryInv

\* Replay, Join, Indeterminate: a repetition that finds the row runs nothing.
LEMMA RepeatKeeps ==
  ASSUME RetryInv, NEW k \in Keys, Replay(k) \/ Join(k) \/ Indeterminate(k)
  PROVE  RetryInv'
<1>1. RetryTypeOK
  BY DEF RetryInv
<1>2. attempts' = Swept /\ lapsed' = Aged /\ UNCHANGED <<tries, gens, boot>>
  BY DEF Replay, Join, Indeterminate
<1>3. \/ told' = told
      \/ told' = [told EXCEPT ![k] = @ \cup {"indeterminate"}]
      \/ Swept[k].state = "done" /\ told' = [told EXCEPT ![k] = @ \cup {attempts[k].outcome}]
  BY DEF Replay, Join, Indeterminate, Answer
<1>4. RetryTypeOK'
  <2>1. Swept \in [Keys -> AttemptRows] /\ \A c \in Keys : Swept[c].state = "done" => Swept[c].outcome \in Outcomes
    BY <1>1, SweptType
  <2>2. told' \in [Keys -> SUBSET Answers]
    <3>1. Swept[k].state = "done" => attempts[k].outcome \in Outcomes
      BY <1>1 DEF RetryTypeOK, Swept, NoRow
    <3> QED
      BY <1>1, <1>3, <3>1 DEF RetryTypeOK, Answers, Outcomes
  <2> QED
    BY <1>1, <1>2, <2>1, <2>2 DEF RetryTypeOK, Aged
<1>5. ASSUME NEW c \in Keys \ (lapsed' \cup Mkdirs)
      PROVE  KeyOnce(c)'
  <2>1. attempts'[c] = attempts[c] /\ Swept[c] = attempts[c] /\ KeyOnce(c)
    BY <1>2, <1>5, SweptRow DEF RetryInv
  <2>2. Doing(c)' = Doing(c)
    BY <1>2 DEF Doing
  <2>3. "ok" \in told'[c] => "ok" \in told[c] \/ (attempts[c].state = "done" /\ attempts[c].outcome = "ok")
    BY <1>1, <1>3, <2>1 DEF RetryTypeOK
  <2>4. "denied" \in told'[c] => "denied" \in told[c] \/ (attempts[c].state = "done" /\ attempts[c].outcome = "denied")
    BY <1>1, <1>3, <2>1 DEF RetryTypeOK
  <2>5. attempts[c].state = "none" => told'[c] \cap Outcomes = told[c] \cap Outcomes
    BY <1>1, <1>3, <2>1 DEF RetryTypeOK, Outcomes
  <2> QED
    BY <1>2, <2>1, <2>2, <2>3, <2>4, <2>5 DEF KeyOnce
<1> QED
  BY <1>4, <1>5 DEF RetryInv


\* ReRun: a try of a mkdir, of which nothing is promised.
LEMMA ReRunKeeps ==
  ASSUME RetryInv, NEW k \in Keys, ReRun(k)
  PROVE  RetryInv'
<1> DEFINE g == attempts[k].gen
<1>1. RetryTypeOK /\ k \in Mkdirs /\ g \in Nat /\ boot \in Nat
  BY DEF RetryInv, ReRun, SafeToReRun, RetryTypeOK, AttemptRows
<1>2. attempts' = [Swept EXCEPT ![k].boot = boot] /\ lapsed' = Aged /\ UNCHANGED <<gens, boot, told>>
  BY DEF ReRun
<1>3. Starts(k, g)
  BY DEF ReRun
<1> HIDE DEF g
<1>4. PICK t \in Tries : /\ tries[t].at = "none"
                         /\ tries' = [tries EXCEPT ![t] = [key |-> k, gen |-> g, at |-> "queued"]]
                         /\ tries' \in [Tries -> TryRows]
  BY <1>1, <1>3, StartsTry
<1>5. RetryTypeOK'
  <2>1. Swept \in [Keys -> AttemptRows] /\ \A c \in Keys : Swept[c].state = "done" => Swept[c].outcome \in Outcomes
    BY <1>1, SweptType
  <2>2. attempts' \in [Keys -> AttemptRows] /\ \A c \in Keys : attempts'[c].state = "done" => attempts'[c].outcome \in Outcomes
    BY <1>1, <1>2, <2>1 DEF AttemptRows
  <2> QED
    BY <1>1, <1>2, <1>4, <2>2 DEF RetryTypeOK, Aged
<1>6. ASSUME NEW c \in Keys \ (lapsed' \cup Mkdirs)
      PROVE  KeyOnce(c)'
  <2>1. Swept[c] = attempts[c] /\ KeyOnce(c) /\ c # k
    BY <1>1, <1>2, <1>6, SweptRow DEF RetryInv
  <2>2. attempts'[c] = attempts[c] /\ told'[c] = told[c]
    BY <1>2, <2>1 DEF Swept
  <2>3. Doing(c)' = Doing(c) /\ \A u \in Doing(c) : tries'[u] = tries[u]
    BY <1>1, <1>4, <2>1 DEF Doing, RetryTypeOK
  <2> QED
    BY <2>1, <2>2, <2>3 DEF KeyOnce, Doing
<1> QED
  BY <1>5, <1>6 DEF RetryInv

\* Lapse: a row that is due is the same row.
LEMMA LapseKeeps ==
  ASSUME RetryInv, NEW k \in Keys, Lapse(k)
  PROVE  RetryInv'
<1>1. RetryTypeOK
  BY DEF RetryInv
<1>2. attempts' = [attempts EXCEPT ![k].due = TRUE] /\ UNCHANGED <<tries, gens, boot, told, lapsed>>
  BY DEF Lapse
<1>3. /\ attempts' \in [Keys -> AttemptRows]
      /\ \A c \in Keys : /\ attempts'[c].state = attempts[c].state
                         /\ attempts'[c].gen = attempts[c].gen
                         /\ attempts'[c].outcome = attempts[c].outcome
  BY <1>1, <1>2 DEF RetryTypeOK, AttemptRows
<1>4. RetryTypeOK'
  BY <1>1, <1>2, <1>3 DEF RetryTypeOK
<1>5. ASSUME NEW c \in Keys \ (lapsed \cup Mkdirs)
      PROVE  KeyOnce(c)'
  <2>1. KeyOnce(c)
    BY <1>5 DEF RetryInv
  <2>2. Doing(c)' = Doing(c)
    BY <1>2 DEF Doing
  <2> QED
    BY <1>2, <1>3, <2>1, <2>2 DEF KeyOnce
<1> QED
  BY <1>2, <1>4, <1>5 DEF RetryInv

\* Where a try stands when its request is not answered yet.
Underway == {"queued", "logged", "ok", "denied", "error"}

\* Attempt, AuditFails, Work: a try that goes on is the same try.
LEMMA WorkKeeps ==
  ASSUME RetryInv, NEW t \in Tries,
         Attempt(t) \/ AuditFails(t) \/ \E result \in Outcomes \cup {"error"} : Work(t, result)
  PROVE  RetryInv'
<1>1. RetryTypeOK
  BY DEF RetryInv
<1>2. UNCHANGED <<attempts, gens, boot, told, lapsed>>
  BY DEF Attempt, AuditFails, Work
<1>3. PICK s \in Underway : tries[t].at \in Underway /\ tries' = [tries EXCEPT ![t].at = s]
  BY DEF Attempt, AuditFails, Work, Underway, Outcomes
<1>4. /\ tries' \in [Tries -> TryRows]
      /\ \A u \in Tries : /\ tries'[u].key = tries[u].key /\ tries'[u].gen = tries[u].gen
                          /\ tries'[u].at = tries[u].at \/ (tries[u].at \in Underway /\ tries'[u].at \in Underway)
  BY <1>1, <1>3 DEF RetryTypeOK, TryRows, TryStages, Underway
<1>5. RetryTypeOK'
  BY <1>1, <1>2, <1>4 DEF RetryTypeOK
<1>6. ASSUME NEW c \in Keys \ (lapsed \cup Mkdirs)
      PROVE  KeyOnce(c)'
  <2>1. KeyOnce(c)
    BY <1>6 DEF RetryInv
  <2>2. Doing(c)' = Doing(c) /\ \A u \in Tries : tries'[u].at = "done" <=> tries[u].at = "done"
    BY <1>4 DEF Doing, Underway
  <2>3. Doing(c) \subseteq Tries
    BY DEF Doing
  <2> QED
    BY <1>2, <1>4, <2>1, <2>2, <2>3 DEF KeyOnce
<1> QED
  BY <1>2, <1>5, <1>6 DEF RetryInv

\* Settle: the row, if it is still the try's, says what the try did.
LEMMA SettleKeeps ==
  ASSUME RetryInv, NEW t \in Tries, Settle(t)
  PROVE  RetryInv'
<1> DEFINE k == tries[t].key
           result == tries[t].at
           d == [attempts[k] EXCEPT !.state = "done", !.outcome = result, !.due = FALSE]
           s == IF Keeps(result) THEN d ELSE NoRow
           end == IF result = "ok" THEN "done" ELSE "over"
<1>1. RetryTypeOK /\ result \in {"ok", "denied", "error"}
  BY DEF RetryInv, Settle, Outcomes
<1>2. /\ UNCHANGED <<gens, boot, lapsed>>
      /\ attempts' = (IF Owned(t) THEN [attempts EXCEPT ![k] = s] ELSE attempts) \/ attempts' = attempts
      /\ tries' = [tries EXCEPT ![t].at = end]
      /\ told' = [told EXCEPT ![k] = @ \cup {result}] \/ told' = told
  BY DEF Settle, Answer
<1>3. k \in Keys \/ k \notin Keys
  OBVIOUS
<1>4. /\ k \in Keys => s.state \in {"none", "done"} /\ s \in AttemptRows
      /\ k \in Keys /\ s.state = "done" => s.outcome = result /\ result \in Outcomes
      /\ k \in Keys => (result = "error" <=> s.state = "none")
  <2>1. k \in Keys => attempts[k] \in AttemptRows
    BY <1>1 DEF RetryTypeOK
  <2>2. result = "error" <=> ~Keeps(result)
    BY <1>1 DEF Keeps, Outcomes
  <2>3. NoRow \in AttemptRows /\ NoRow.state = "none"
    BY DEF NoRow, AttemptRows
  <2>4. ~Keeps(result) => s = NoRow
    OBVIOUS
  <2>5. Keeps(result) => s = d
    OBVIOUS
  <2>6. result # "error" => result \in Outcomes
    BY <1>1 DEF Outcomes
  <2>7. k \in Keys /\ result \in Outcomes => d \in AttemptRows /\ d.state = "done" /\ d.outcome = result
    <3> HIDE DEF k, result
    <3> QED
      BY <2>1 DEF AttemptRows
  <2> HIDE DEF s, d
  <2> QED
    BY <2>2, <2>3, <2>4, <2>5, <2>6, <2>7
<1>5. end \in {"done", "over"} /\ (end = "done" <=> result = "ok")
  OBVIOUS
<1> HIDE DEF s, end
<1>6. /\ tries' \in [Tries -> TryRows]
      /\ \A u \in Tries : /\ tries'[u].key = tries[u].key /\ tries'[u].gen = tries[u].gen
                          /\ u # t => tries'[u] = tries[u]
      /\ tries'[t].at = end
  BY <1>1, <1>2, <1>5 DEF RetryTypeOK, TryRows, TryStages
<1> HIDE DEF k, result
<1>7. attempts' = attempts \/ (k \in Keys /\ attempts' = [attempts EXCEPT ![k] = s])
  BY <1>1, <1>2 DEF RetryTypeOK
<1>8. RetryTypeOK'
  <2>1. attempts' \in [Keys -> AttemptRows] /\ \A c \in Keys : attempts'[c].state = "done" => attempts'[c].outcome \in Outcomes
    BY <1>1, <1>4, <1>7 DEF RetryTypeOK
  <2>2. told' \in [Keys -> SUBSET Answers]
    BY <1>1, <1>2 DEF RetryTypeOK, Answers
  <2> QED
    BY <1>1, <1>2, <1>6, <2>1, <2>2 DEF RetryTypeOK
<1>9. ASSUME NEW c \in Keys \ (lapsed \cup Mkdirs)
      PROVE  KeyOnce(c)'
  <2>1. KeyOnce(c) /\ c \in Keys
    BY <1>9 DEF RetryInv
  <2>2. CASE c # k
    <3>1. attempts'[c] = attempts[c] /\ told'[c] = told[c]
      BY <1>1, <1>2, <1>7, <2>1, <2>2 DEF RetryTypeOK
    <3>2. Doing(c)' = Doing(c) /\ \A u \in Doing(c) : tries'[u] = tries[u]
      BY <1>6, <2>2 DEF Doing, k
    <3> QED
      BY <2>1, <3>1, <3>2 DEF KeyOnce, Doing
  <2>3. CASE c = k
    <3>1. t \in Doing(c) /\ tries[t].at # "done" /\ tries[t].at = result
      BY <1>1, <2>3 DEF Doing, k, result
    <3>2. Doing(c) = {t} /\ attempts[c].state = "pending" /\ attempts[c].gen = tries[t].gen
      BY <2>1, <2>3, <3>1 DEF KeyOnce, Doing
    <3>3. told[c] \cap Outcomes = {}
      BY <2>1, <2>3, <3>1, <3>2 DEF KeyOnce, Outcomes
    <3>4. attempts'[c] = attempts[c] \/ attempts'[c] = s
      BY <1>1, <1>7, <2>1, <2>3 DEF RetryTypeOK
    <3>5. told'[c] = told[c] \/ told'[c] = told[c] \cup {result}
      BY <1>1, <1>2, <2>1, <2>3 DEF RetryTypeOK
    <3>6. Doing(c)' = IF end = "done" THEN {t} ELSE {}
      <4>1. \A u \in Tries : u \in Doing(c)' => u = t /\ end = "done"
        BY <1>5, <1>6, <2>3, <3>2 DEF Doing
      <4>2. end = "done" => t \in Doing(c)'
        BY <1>5, <1>6, <2>3, <3>1 DEF Doing
      <4>3. Doing(c)' \subseteq Tries
        BY DEF Doing
      <4> QED
        BY <4>1, <4>2, <4>3
    <3>7. c \in Keys
      BY <2>1, <2>3
    <3>8. "ok" \in told'[c] \/ (attempts'[c].state = "done" /\ attempts'[c].outcome = "ok") => result = "ok"
      BY <1>4, <2>3, <3>2, <3>3, <3>4, <3>5, <3>7 DEF Outcomes
    <3>9. "denied" \in told'[c] \/ (attempts'[c].state = "done" /\ attempts'[c].outcome = "denied") => result = "denied"
      BY <1>4, <2>3, <3>2, <3>3, <3>4, <3>5, <3>7 DEF Outcomes
    <3>10. attempts'[c].state = "none" => result = "error"
      BY <1>4, <2>3, <3>2, <3>4, <3>7
    <3>11. result = "error" => told'[c] \cap Outcomes = {}
      BY <3>3, <3>5 DEF Outcomes
    <3>12. result = "ok" => tries'[t].at = "done" /\ Doing(c)' = {t}
      BY <1>5, <1>6, <3>6
    <3>13. result # "ok" => Doing(c)' = {}
      BY <1>5, <3>6
    <3>14. \A u \in Doing(c)' : u = t /\ tries'[u].at = "done"
      BY <3>12, <3>13
    <3> QED
      BY <2>3, <3>8, <3>9, <3>10, <3>11, <3>12, <3>13, <3>14 DEF KeyOnce
  <2> QED
    BY <2>2, <2>3
<1> QED
  BY <1>2, <1>8, <1>9 DEF RetryInv

\* Restart: what took effect has, and what did not never will.
LEMMA RestartKeeps ==
  ASSUME RetryInv, Restart
  PROVE  RetryInv'
<1>1. RetryTypeOK
  BY DEF RetryInv
<1>2. UNCHANGED <<attempts, gens, told, lapsed>> /\ boot' = boot + 1
  BY DEF Restart
<1>3. tries' = [t \in Tries |-> IF tries[t].at \in {"none", "done", "over"} THEN tries[t]
                                ELSE [tries[t] EXCEPT !.at = IF @ = "ok" THEN "done" ELSE "over"]]
  BY DEF Restart
<1>4. \A t \in Tries : /\ tries'[t] \in TryRows
                       /\ tries'[t].key = tries[t].key /\ tries'[t].gen = tries[t].gen
                       /\ tries'[t].at = CASE tries[t].at \in {"none", "done", "over"} -> tries[t].at
                                           [] tries[t].at = "ok" -> "done"
                                           [] OTHER -> "over"
  BY <1>1, <1>3 DEF RetryTypeOK, TryRows, TryStages
<1>5. tries' \in [Tries -> TryRows]
  BY <1>3, <1>4
<1>6. RetryTypeOK'
  BY <1>1, <1>2, <1>5 DEF RetryTypeOK
<1>7. ASSUME NEW c \in Keys \ (lapsed \cup Mkdirs)
      PROVE  KeyOnce(c)'
  <2>1. KeyOnce(c)
    BY <1>7 DEF RetryInv
  <2>2. Doing(c)' \subseteq Doing(c) /\ \A t \in Doing(c)' : tries'[t].at = "done"
    BY <1>4 DEF Doing
  <2>3. \A t \in Doing(c) : tries[t].at = "done" => t \in Doing(c)' /\ tries'[t].at = "done"
    BY <1>4 DEF Doing
  <2> QED
    BY <1>2, <2>1, <2>2, <2>3 DEF KeyOnce
<1> QED
  BY <1>2, <1>6, <1>7 DEF RetryInv

\* At the start nothing ran and nothing is known.
LEMMA RetryInitInv == RetryInit => RetryInv
<1> SUFFICES ASSUME RetryInit PROVE RetryInv
  OBVIOUS
<1>1. NoRow \in AttemptRows /\ NoRow.state = "none" /\ NoTry \in TryRows /\ NoTry.at = "none"
  BY DEF NoRow, AttemptRows, NoTry, TryRows, TryStages
<1>2. /\ \A k \in Keys : attempts[k] = NoRow /\ told[k] = {}
      /\ \A t \in Tries : tries[t] = NoTry
  BY DEF RetryInit
<1>3. RetryTypeOK
  BY <1>1, <1>2 DEF RetryInit, RetryTypeOK
<1>4. ASSUME NEW k \in Keys PROVE KeyOnce(k)
  <2>1. Doing(k) = {}
    BY <1>1, <1>2 DEF Doing
  <2> QED
    BY <1>1, <1>2, <2>1 DEF KeyOnce
<1> QED
  BY <1>3, <1>4 DEF RetryInv

\* Every step keeps the invariant.
LEMMA RetryStepInv == RetryInv /\ [RetryNext]_retryVars => RetryInv'
<1> SUFFICES ASSUME RetryInv, [RetryNext]_retryVars PROVE RetryInv'
  OBVIOUS
<1>1. CASE \E k \in Keys : Claim(k)
  BY <1>1, ClaimKeeps
<1>2. CASE \E k \in Keys : Replay(k) \/ Join(k) \/ Indeterminate(k)
  BY <1>2, RepeatKeeps
<1>3. CASE \E k \in Keys : ReRun(k)
  BY <1>3, ReRunKeeps
<1>4. CASE \E k \in Keys : Lapse(k)
  BY <1>4, LapseKeeps
<1>5. CASE \E t \in Tries : Attempt(t) \/ AuditFails(t) \/ \E result \in Outcomes \cup {"error"} : Work(t, result)
  BY <1>5, WorkKeeps
<1>6. CASE \E t \in Tries : Settle(t)
  BY <1>6, SettleKeeps
<1>7. CASE Restart
  BY <1>7, RestartKeeps
<1>8. CASE UNCHANGED retryVars
  BY <1>8 DEF retryVars, RetryInv, RetryTypeOK, KeyOnce, Doing
<1> QED
  BY <1>1, <1>2, <1>3, <1>4, <1>5, <1>6, <1>7, <1>8 DEF RetryNext

\* A key whose row was never dropped has had one effect at most, and every
\* answer to it says whether it had (withIdempotency of file-idem.js).
THEOREM WritesHappenOnce == RetrySpec => []RetriesAreOne
<1>1. RetryInv => RetriesAreOne
  <2> SUFFICES ASSUME RetryInv, NEW k \in Keys \ (lapsed \cup Mkdirs)
               PROVE  /\ Cardinality(Effects(k)) <= 1
                      /\ "ok" \in told[k] => Effects(k) # {}
                      /\ "denied" \in told[k] => Effects(k) = {}
    BY DEF RetriesAreOne, OncePerKey, OneAnswer
  <2>1. KeyOnce(k)
    BY DEF RetryInv
  <2>2. Effects(k) \subseteq Doing(k)
    BY DEF Effects, Doing
  <2>3. Cardinality(Effects(k)) <= 1
    <3>1. CASE Effects(k) = {}
      BY <3>1, FS_EmptySet
    <3>2. CASE Effects(k) # {}
      <4>1. PICK t : Effects(k) = {t}
        BY <2>1, <2>2, <3>2 DEF KeyOnce
      <4> QED
        BY <4>1, FS_Singleton
    <3> QED
      BY <3>1, <3>2
  <2>4. "ok" \in told[k] => Effects(k) # {}
    BY <2>1 DEF KeyOnce, Doing, Effects
  <2> QED
    BY <2>1, <2>2, <2>3, <2>4 DEF KeyOnce
<1> QED
  BY <1>1, RetryInitInv, RetryStepInv, PTL DEF RetrySpec

-----------------------------------------------------------------------------
(* Blobs: the inductive invariant. *)

Unnaming == {"unsent", "inline", "gone"}
Naming == [r \in Refs |-> IF r = "log" THEN LogFiles ELSE IF r = "live" THEN Media \ Voice ELSE Media]

BlobsTypeOK ==
  /\ row \in [BlobIds -> {"none", "fresh", "old"}] /\ file \in [BlobIds -> {"none", "here", "staged"}]
  /\ landing \subseteq used /\ sound \subseteq Refs
  /\ DOMAIN ref = Refs /\ ref = [r \in Refs |-> ref[r]]
  /\ \A r \in Refs : ref[r] \in Unnaming \cup Naming[r]

\* A file that lands has no row yet; what a reference names has landed, or its
\* process died; what was not made yet has no row, what was not sent no blob.
FilesLand ==
  /\ \A b \in landing : b \in BlobIds => file[b] = "here" /\ row[b] = "none"
  /\ \A r \in Refs : ref[r] \in BlobIds => ref[r] \in used \ landing
  /\ \A b \in BlobIds \ used : row[b] = "none"
  /\ \A r \in sound : ref[r] # "unsent"

BlobsInv == BlobsTypeOK /\ FilesLand /\ BlobsKept

\* What names a blob is no word, and an id is of one kind.
LEMMA KindsApart ==
  /\ Unnaming \cap BlobIds = {}
  /\ Media \cap LogFiles = {}
  /\ Voice \subseteq Media
BY BlobsAssumption DEF Unnaming, BlobIds

\* What a reference may name.
LEMMA NamingIs ==
  /\ Naming["log"] = LogFiles /\ Naming["live"] = Media \ Voice /\ Naming["pic"] = Media /\ Naming["note"] = Media
  /\ \A r \in Refs : Naming[r] \subseteq BlobIds
BY DEF Naming, Refs, BlobIds

\* A set of references that turn into tombstones, and the rest as it was.
LEMMA TombstonedIs ==
  ASSUME BlobsTypeOK, NEW R \in SUBSET Refs, ref' = Tombstoned(R)
  PROVE  /\ DOMAIN ref' = Refs /\ ref' = [r \in Refs |-> ref'[r]]
         /\ \A r \in Refs : ref'[r] \in Unnaming \cup Naming[r]
         /\ \A r \in Refs : ref'[r] \in BlobIds => ref'[r] = ref[r] /\ r \notin R
         /\ \A r \in Refs : ref'[r] = "unsent" => ref[r] = "unsent"
<1>1. \A r \in Refs : ref'[r] = IF r \in R THEN "gone" ELSE ref[r]
  BY DEF Tombstoned
<1>2. "gone" \in Unnaming /\ "gone" \notin BlobIds
  BY KindsApart DEF Unnaming
<1> QED
  BY <1>1, <1>2 DEF BlobsTypeOK, Tombstoned

\* Only references change, and none is made.
LEMMA OnlyTombstones ==
  ASSUME BlobsInv, NEW R \in SUBSET Refs, ref' = Tombstoned(R), sound' \subseteq sound, UNCHANGED <<row, file, landing, used>>
  PROVE  BlobsInv'
<1>1. BlobsTypeOK
  BY DEF BlobsInv
<1>2. BlobsTypeOK'
  BY <1>1, TombstonedIs DEF BlobsTypeOK
<1>3. \A r \in Refs : ref'[r] \in BlobIds => ref'[r] = ref[r]
  BY <1>1, TombstonedIs
<1>4. FilesLand'
  BY <1>1, <1>3, TombstonedIs DEF BlobsInv, BlobsTypeOK, FilesLand
<1>5. BlobsKept'
  BY <1>1, <1>3 DEF BlobsInv, BlobsKept, RefsResolve, RowsHaveFiles, BlobsTypeOK
<1> QED
  BY <1>2, <1>4, <1>5 DEF BlobsInv

\* Drop: whatever named the blob, and is sound still, is a tombstone, wherever
\* the process dies.
LEMMA DropKeeps ==
  ASSUME BlobsInv, NEW b \in BlobIds \ landing, NEW R \in SUBSET Refs,
         sound' \subseteq sound, sound' \cap Holders(b) \subseteq R,
         Drop(b, Tombstoned(R)) \/ (Holders(b) = {} /\ Drop(b, ref)), UNCHANGED used
  PROVE  BlobsInv'
<1>1. BlobsTypeOK /\ RowsHaveFiles /\ RefsResolve /\ FilesLand
  BY DEF BlobsInv, BlobsKept
<1>2. /\ row' = [row EXCEPT ![b] = "none"]
      /\ file' = file \/ (file' = [file EXCEPT ![b] = "none"])
      /\ landing' = landing \/ landing' = {}
  BY DEF Drop, CutShort, BlobDie
<1>3. /\ DOMAIN ref' = Refs /\ ref' = [r \in Refs |-> ref'[r]]
      /\ \A r \in Refs : ref'[r] \in Unnaming \cup Naming[r]
      /\ \A r \in Refs : ref'[r] \in BlobIds => ref'[r] = ref[r] /\ (r \in sound' => r \notin Holders(b))
      /\ \A r \in Refs : ref'[r] = "unsent" => ref[r] = "unsent"
  <2>1. CASE ref' = Tombstoned(R)
    BY <1>1, <2>1, TombstonedIs
  <2>2. CASE ref' = ref /\ Holders(b) = {}
    BY <1>1, <2>2 DEF BlobsTypeOK
  <2> QED
    BY <2>1, <2>2 DEF Drop, CutShort
<1>4. /\ row' \in [BlobIds -> {"none", "fresh", "old"}] /\ file' \in [BlobIds -> {"none", "here", "staged"}]
      /\ \A c \in BlobIds \ {b} : row'[c] = row[c] /\ file'[c] = file[c]
      /\ row'[b] = "none"
  BY <1>1, <1>2 DEF BlobsTypeOK
<1>5. BlobsTypeOK'
  BY <1>1, <1>2, <1>3, <1>4 DEF BlobsTypeOK
<1>6. FilesLand'
  BY <1>1, <1>2, <1>3, <1>4 DEF FilesLand, BlobsTypeOK
<1>7. RowsHaveFiles'
  BY <1>1, <1>4 DEF RowsHaveFiles
<1>8. RefsResolve'
  <2> SUFFICES ASSUME NEW r \in sound', ref'[r] \in BlobIds
               PROVE  row'[ref'[r]] # "none" /\ file'[ref'[r]] # "none"
    BY DEF RefsResolve
  <2>1. r \in sound /\ r \in Refs /\ ref'[r] = ref[r] /\ ref[r] # b
    BY <1>1, <1>3 DEF BlobsTypeOK, Holders
  <2> QED
    BY <1>1, <1>4, <2>1 DEF RefsResolve
<1> QED
  BY <1>5, <1>6, <1>7, <1>8 DEF BlobsInv, BlobsKept

-----------------------------------------------------------------------------
(* Blobs: its actions. *)

\* Upload, InsertBlob, UploadRefused, BlobAges: a blob no reference was made
\* to while it was not there.
LEMMA UploadKeeps ==
  ASSUME BlobsInv, NEW b \in Media, Upload(b) \/ InsertBlob(b) \/ UploadRefused(b)
  PROVE  BlobsInv'
<1>1. BlobsTypeOK /\ RowsHaveFiles /\ RefsResolve /\ FilesLand /\ b \in BlobIds
  BY DEF BlobsInv, BlobsKept, BlobIds
<1>2. UNCHANGED <<ref, sound>>
  BY DEF Upload, InsertBlob, UploadRefused
<1>3. CASE Upload(b)
  <2>1. /\ b \notin used /\ row' = row /\ file' = [file EXCEPT ![b] = "here"]
        /\ landing' = landing \cup {b} /\ used' = used \cup {b}
    BY <1>3 DEF Upload
  <2>2. /\ file' \in [BlobIds -> {"none", "here", "staged"}] /\ file'[b] = "here" /\ row[b] = "none"
        /\ \A c \in BlobIds \ {b} : file'[c] = file[c]
    BY <1>1, <2>1 DEF BlobsTypeOK, FilesLand
  <2>3. BlobsTypeOK'
    BY <1>1, <1>2, <2>1, <2>2 DEF BlobsTypeOK
  <2>4. FilesLand'
    BY <1>1, <1>2, <2>1, <2>2 DEF FilesLand, BlobsTypeOK
  <2>5. RowsHaveFiles' /\ RefsResolve'
    BY <1>1, <1>2, <2>1, <2>2 DEF RowsHaveFiles, RefsResolve
  <2> QED
    BY <2>3, <2>4, <2>5 DEF BlobsInv, BlobsKept
<1>4. CASE InsertBlob(b)
  <2>1. /\ b \in landing /\ row' = [row EXCEPT ![b] = "fresh"] /\ landing' = landing \ {b} /\ UNCHANGED <<file, used>>
    BY <1>4 DEF InsertBlob
  <2>2. /\ row' \in [BlobIds -> {"none", "fresh", "old"}] /\ row'[b] = "fresh" /\ file[b] = "here"
        /\ \A c \in BlobIds \ {b} : row'[c] = row[c]
    BY <1>1, <2>1 DEF BlobsTypeOK, FilesLand
  <2>3. BlobsTypeOK'
    BY <1>1, <1>2, <2>1, <2>2 DEF BlobsTypeOK
  <2>4. FilesLand'
    BY <1>1, <1>2, <2>1, <2>2 DEF FilesLand, BlobsTypeOK
  <2>5. RowsHaveFiles' /\ RefsResolve'
    BY <1>1, <1>2, <2>1, <2>2 DEF RowsHaveFiles, RefsResolve
  <2> QED
    BY <2>3, <2>4, <2>5 DEF BlobsInv, BlobsKept
<1>5. CASE UploadRefused(b)
  <2>1. /\ b \in landing /\ file' = [file EXCEPT ![b] = "none"] /\ landing' = landing \ {b} /\ UNCHANGED <<row, used>>
    BY <1>5 DEF UploadRefused
  <2> QED
    BY <1>1, <1>2, <2>1 DEF BlobsInv, BlobsKept, BlobsTypeOK, FilesLand, RowsHaveFiles, RefsResolve
<1> QED
  BY <1>3, <1>4, <1>5

\* BlobAges, RefAges, RecoverStaged, BlobCrash: rows and files stay.
LEMMA AgesKeep ==
  ASSUME BlobsInv, (\E b \in BlobIds : BlobAges(b) \/ RecoverStaged(b)) \/ (\E r \in Refs : RefAges(r)) \/ BlobCrash
  PROVE  BlobsInv'
<1>1. BlobsTypeOK /\ RowsHaveFiles /\ RefsResolve /\ FilesLand
  BY DEF BlobsInv, BlobsKept
<1>2. UNCHANGED <<ref, sound, used>> /\ landing' \in {landing, {}}
  BY DEF BlobAges, RecoverStaged, RefAges, BlobCrash, BlobDie
<1>3. \/ UNCHANGED <<row, file>>
      \/ \E b \in BlobIds : row[b] = "fresh" /\ row' = [row EXCEPT ![b] = "old"] /\ file' = file
      \/ \E b \in BlobIds : file[b] = "staged" /\ file' = [file EXCEPT ![b] = Recovered(b)] /\ row' = row
  BY DEF BlobAges, RecoverStaged, RefAges, BlobCrash
<1>4. /\ row' \in [BlobIds -> {"none", "fresh", "old"}] /\ file' \in [BlobIds -> {"none", "here", "staged"}]
      /\ \A c \in BlobIds : /\ row'[c] = "none" <=> row[c] = "none"
                            /\ row[c] # "none" => (file'[c] = "none" <=> file[c] = "none")
                            /\ file[c] = "here" => file'[c] = "here"
  BY <1>1, <1>3 DEF BlobsTypeOK, Recovered
<1>5. BlobsTypeOK'
  BY <1>1, <1>2, <1>4 DEF BlobsTypeOK
<1>6. FilesLand'
  BY <1>1, <1>2, <1>4 DEF FilesLand
<1>7. RowsHaveFiles' /\ RefsResolve'
  BY <1>1, <1>2, <1>4 DEF RowsHaveFiles, RefsResolve, BlobsTypeOK
<1> QED
  BY <1>5, <1>6, <1>7 DEF BlobsInv, BlobsKept

\* A reference to something of its kind; one that is sound finds row and file.
LEMMA OneReference ==
  ASSUME BlobsInv, NEW r \in Refs, NEW v, ref' = [ref EXCEPT ![r] = v], v \in Unnaming \cup Naming[r],
         v \in BlobIds => v \in used' \ landing, UNCHANGED landing, used \subseteq used',
         row' \in [BlobIds -> {"none", "fresh", "old"}], file' \in [BlobIds -> {"none", "here", "staged"}],
         \A c \in BlobIds \cap used : row'[c] = row[c] /\ file'[c] = file[c],
         \A c \in BlobIds \ used : row'[c] # "none" => file'[c] # "none" /\ c \in used',
         v # "unsent",
         sound' \subseteq sound \cup {r}, r \in sound' /\ v \in BlobIds => row'[v] # "none" /\ file'[v] # "none"
  PROVE  BlobsInv'
<1>1. BlobsTypeOK /\ RowsHaveFiles /\ RefsResolve /\ FilesLand
  BY DEF BlobsInv, BlobsKept
<1>2. /\ DOMAIN ref' = Refs /\ ref' = [s \in Refs |-> ref'[s]]
      /\ \A s \in Refs : ref'[s] = IF s = r THEN v ELSE ref[s]
  BY <1>1 DEF BlobsTypeOK
<1>3. BlobsTypeOK'
  BY <1>1, <1>2 DEF BlobsTypeOK
<1>4. FilesLand'
  BY <1>1, <1>2 DEF FilesLand, BlobsTypeOK
<1>5. RowsHaveFiles'
  BY <1>1 DEF RowsHaveFiles
<1>6. RefsResolve'
  <2> SUFFICES ASSUME NEW s \in sound', ref'[s] \in BlobIds
               PROVE  row'[ref'[s]] # "none" /\ file'[ref'[s]] # "none"
    BY DEF RefsResolve
  <2>1. CASE s = r
    BY <1>2, <2>1
  <2>2. CASE s # r
    <3>1. s \in sound /\ s \in Refs /\ ref'[s] = ref[s]
      BY <1>1, <1>2, <2>2 DEF BlobsTypeOK
    <3>2. ref[s] \in used
      BY <1>1, <3>1 DEF FilesLand
    <3> QED
      BY <1>1, <3>1, <3>2 DEF RefsResolve
  <2> QED
    BY <2>1, <2>2
<1> QED
  BY <1>3, <1>4, <1>5, <1>6 DEF BlobsInv, BlobsKept

\* Attach, Publish.
LEMMA AttachKeeps ==
  ASSUME BlobsInv, (\E r \in Refs, b \in BlobIds : Attach(r, b)) \/ Publish
  PROVE  BlobsInv'
<1>1. BlobsTypeOK /\ RowsHaveFiles
  BY DEF BlobsInv, BlobsKept
<1>2. UNCHANGED <<row, file, landing, used>>
  BY DEF Attach, Publish
<1>3. /\ row' \in [BlobIds -> {"none", "fresh", "old"}] /\ file' \in [BlobIds -> {"none", "here", "staged"}]
      /\ \A c \in BlobIds : row'[c] = row[c] /\ file'[c] = file[c] /\ (row'[c] # "none" => file'[c] # "none" /\ c \in used)
  BY <1>1, <1>2 DEF BlobsTypeOK, RowsHaveFiles, BlobsInv, FilesLand
<1>4. CASE Publish
  <2>1. ref' = [ref EXCEPT !["log"] = "inline"] /\ sound' = sound \cup {"log"}
    BY <1>4 DEF Publish
  <2>2. "log" \in Refs /\ "inline" \in Unnaming /\ "inline" \notin BlobIds
    BY KindsApart DEF Refs, Unnaming
  <2> QED
    BY <1>2, <1>3, <2>1, <2>2, OneReference
<1>5. CASE \E r \in Refs, b \in BlobIds : Attach(r, b)
  <2>1. PICK r \in Refs, b \in BlobIds : Attach(r, b)
    BY <1>5
  <2>2. /\ ref' = [ref EXCEPT ![r] = b] /\ b \in used \ landing /\ r \in {"pic", "live", "note"}
        /\ b \in IF r = "live" THEN Media \ Voice ELSE Media
        /\ sound' = IF row[b] # "none" THEN sound \cup {r} ELSE sound
    BY <2>1 DEF Attach, Attachable
  <2>3. b \in Naming[r]
    BY <2>2, NamingIs
  <2>4. r \in sound' => row[b] # "none"
    <3>1. r \notin sound
      BY <2>1 DEF Attach, BlobsInv, FilesLand
    <3>2. CASE row[b] # "none"
      BY <3>2
    <3> QED
      BY <2>2, <3>1, <3>2
  <2>5. b # "unsent"
    BY KindsApart DEF Unnaming
  <2> QED
    BY <1>2, <1>3, <2>2, <2>3, <2>4, <2>5, OneReference
<1> QED
  BY <1>4, <1>5

\* Offload: the file is there before the event names it.
LEMMA OffloadKeeps ==
  ASSUME BlobsInv, NEW b \in LogFiles, Offload(b)
  PROVE  BlobsInv'
<1>1. BlobsTypeOK /\ RowsHaveFiles /\ RefsResolve /\ FilesLand /\ b \in BlobIds
  BY DEF BlobsInv, BlobsKept, BlobIds
<1>2. b \notin used /\ used' = used \cup {b} /\ file' = [file EXCEPT ![b] = "here"] /\ UNCHANGED sound
  BY DEF Offload
<1>3. b \notin landing
  BY <1>1, <1>2 DEF BlobsTypeOK
<1>4. CASE BlobDie /\ UNCHANGED <<row, ref>>
  <2>1. landing' = {}
    BY <1>4 DEF BlobDie
  <2> QED
    BY <1>1, <1>2, <1>4, <2>1 DEF BlobsInv, BlobsKept, BlobsTypeOK, FilesLand, RowsHaveFiles, RefsResolve
<1>5. CASE row' = [row EXCEPT ![b] = "fresh"] /\ ref' = [ref EXCEPT !["log"] = b] /\ UNCHANGED landing
  <2>1. "log" \in Refs /\ b \in Naming["log"]
    BY NamingIs DEF Refs
  <2>2. row' \in [BlobIds -> {"none", "fresh", "old"}] /\ file' \in [BlobIds -> {"none", "here", "staged"}]
    BY <1>1, <1>2, <1>5 DEF BlobsTypeOK
  <2>3. /\ \A c \in BlobIds \ {b} : row'[c] = row[c] /\ file'[c] = file[c]
        /\ row'[b] = "fresh" /\ file'[b] = "here"
    BY <1>1, <1>2, <1>5 DEF BlobsTypeOK
  <2>4. \A c \in BlobIds \ used : row'[c] # "none" => file'[c] # "none" /\ c \in used'
    BY <1>1, <1>2, <2>3 DEF FilesLand
  <2>5. b # "unsent"
    BY <1>1, KindsApart DEF Unnaming
  <2>6. \A c \in BlobIds \cap used : row'[c] = row[c] /\ file'[c] = file[c]
    BY <1>2, <2>3
  <2>7. b \in used' \ landing /\ used \subseteq used' /\ sound' \subseteq sound \cup {"log"}
    BY <1>2, <1>3
  <2>8. row'[b] # "none" /\ file'[b] # "none"
    BY <2>3
  <2> QED
    BY <1>5, <2>1, <2>2, <2>4, <2>5, <2>6, <2>7, <2>8, OneReference
<1> QED
  BY <1>4, <1>5 DEF Offload

\* Every reference to a blob is of the blob's kind.
LEMMA HoldersOf ==
  ASSUME BlobsTypeOK, NEW b \in BlobIds
  PROVE  /\ b \in Voice => Holders(b) \subseteq {"pic", "note"}
         /\ Holders(b) \subseteq Refs
BY KindsApart, NamingIs DEF BlobsTypeOK, Holders, Refs

\* The passes of the retention: what loses its bytes loses its names.
LEMMA PassesKeep ==
  ASSUME BlobsInv, NEW b \in BlobIds,
         \/ ExpireLogs /\ b = ref["live"]
         \/ b \in Voice /\ (ExpireVoiceNotes(b) \/ ExpireChatVoiceNotes(b))
         \/ ReapGarbage(b) \/ ReapMedia(b)
  PROVE  BlobsInv'
<1>1. BlobsTypeOK /\ RowsHaveFiles /\ RefsResolve /\ FilesLand
  BY DEF BlobsInv, BlobsKept
<1>2. sound' \subseteq sound /\ UNCHANGED used
  BY DEF ExpireLogs, ExpireVoiceNotes, ExpireChatVoiceNotes, ReapGarbage, ReapMedia
<1>3. row[b] # "none" => b \notin landing
  BY <1>1 DEF FilesLand
<1>4. \A r \in Holders(b) : r \in Refs /\ ref[r] = b /\ b \notin landing
  BY <1>1 DEF Holders, FilesLand
<1>5. "live" \in Refs /\ "note" \in Refs /\ "pic" \in Refs
  BY DEF Refs
<1>6. CASE ExpireLogs /\ b = ref["live"]
  <2>1. sound' \cap Holders(b) = {} /\ {"live"} \in SUBSET Refs
    BY <1>5, <1>6 DEF ExpireLogs
  <2>2. CASE row[b] # "none"
    <3>1. Drop(b, Tombstoned({"live"}))
      BY <1>6, <2>2 DEF ExpireLogs
    <3> QED
      BY <1>2, <1>3, <2>1, <2>2, <3>1, DropKeeps
  <2>3. CASE row[b] = "none"
    <3>1. ref' = Tombstoned({"live"}) /\ UNCHANGED <<row, file, landing>>
      BY <1>6, <2>3 DEF ExpireLogs
    <3> QED
      BY <1>2, <2>1, <3>1, OnlyTombstones
  <2> QED
    BY <2>2, <2>3
<1>7. CASE b \in Voice /\ ExpireVoiceNotes(b)
  <2>1. Holders(b) \subseteq {"pic", "note"} /\ "note" \in Holders(b)
    BY <1>1, <1>5, <1>7, HoldersOf, KindsApart DEF ExpireVoiceNotes, Holders
  <2>2. CASE row[b] # "none"
    <3>1. Drop(b, Tombstoned(Holders(b) \cap {"pic", "note"}))
      BY <1>7, <2>2 DEF ExpireVoiceNotes
    <3>2. Holders(b) \cap {"pic", "note"} \in SUBSET Refs
      BY <1>5
    <3> QED
      BY <1>2, <1>3, <2>1, <2>2, <3>1, <3>2, DropKeeps
  <2>3. CASE row[b] = "none"
    <3>1. ref' = Tombstoned({"note"}) /\ UNCHANGED <<row, file, landing>>
      BY <1>7, <2>3 DEF ExpireVoiceNotes
    <3> QED
      BY <1>2, <1>5, <3>1, OnlyTombstones
  <2> QED
    BY <2>2, <2>3
<1>8. CASE b \in Voice /\ ExpireChatVoiceNotes(b)
  <2>1. row[b] # "none" /\ Holders(b) = {"pic"} /\ Drop(b, Tombstoned({"pic"}))
    BY <1>8 DEF ExpireChatVoiceNotes
  <2> QED
    BY <1>2, <1>3, <1>5, <2>1, DropKeeps
<1>9. CASE ReapGarbage(b)
  <2>1. row[b] # "none" /\ Holders(b) = {} /\ Drop(b, ref)
    BY <1>9 DEF ReapGarbage, Unnamed
  <2> QED
    BY <1>2, <1>3, <2>1, DropKeeps
<1>10. CASE ReapMedia(b)
  <2>1. row[b] # "none" /\ Drop(b, Tombstoned(Holders(b)))
    BY <1>10 DEF ReapMedia
  <2>2. Holders(b) \in SUBSET Refs
    BY DEF Holders
  <2> QED
    BY <1>2, <1>3, <2>1, <2>2, DropKeeps
<1> QED
  BY <1>6, <1>7, <1>8, <1>9, <1>10

\* runReapOrphanBlobs: a file set aside is a file, and no row is left without.
LEMMA OrphanKeeps ==
  ASSUME BlobsInv, NEW b \in BlobIds, ReapOrphan(b)
  PROVE  BlobsInv'
<1>1. BlobsTypeOK /\ RowsHaveFiles /\ RefsResolve /\ FilesLand
  BY DEF BlobsInv, BlobsKept
<1>2. /\ row[b] = "old" /\ Holders(b) = {} /\ UNCHANGED <<used, ref, sound>> /\ landing' \in {landing, {}}
      /\ \/ row' = [row EXCEPT ![b] = "none"] /\ file' = [file EXCEPT ![b] = "none"]
         \/ file' = [file EXCEPT ![b] = "staged"] /\ row' \in {row, [row EXCEPT ![b] = "none"]}
  BY DEF ReapOrphan, Unnamed, BlobDie
<1>3. /\ row' \in [BlobIds -> {"none", "fresh", "old"}] /\ file' \in [BlobIds -> {"none", "here", "staged"}]
      /\ \A c \in BlobIds \ {b} : row'[c] = row[c] /\ file'[c] = file[c]
      /\ row'[b] # "none" => file'[b] # "none"
  BY <1>1, <1>2 DEF BlobsTypeOK
<1>4. b \notin landing /\ \A r \in Refs : ref[r] # b
  BY <1>1, <1>2 DEF FilesLand, Holders
<1>5. BlobsTypeOK'
  BY <1>1, <1>2, <1>3 DEF BlobsTypeOK
<1>6. FilesLand'
  BY <1>1, <1>2, <1>3, <1>4 DEF FilesLand
<1>7. RowsHaveFiles' /\ RefsResolve'
  BY <1>1, <1>2, <1>3, <1>4 DEF RowsHaveFiles, RefsResolve, BlobsTypeOK
<1> QED
  BY <1>5, <1>6, <1>7 DEF BlobsInv, BlobsKept

\* runExpireDeviceContent: the blob goes with its last name.
LEMMA ContentKeeps ==
  ASSUME BlobsInv, NEW r \in Refs, ExpireContent(r)
  PROVE  BlobsInv'
<1>1. BlobsTypeOK /\ FilesLand /\ UNCHANGED <<used, sound>>
  BY DEF BlobsInv, ExpireContent
<1>2. CASE ref[r] \in BlobIds /\ row[ref[r]] # "none" /\ Holders(ref[r]) = {r}
  <2>1. Drop(ref[r], Tombstoned({r}))
    BY <1>2 DEF ExpireContent
  <2>2. ref[r] \notin landing
    BY <1>1, <1>2 DEF FilesLand
  <2> QED
    BY <1>1, <1>2, <2>1, <2>2, DropKeeps
<1>3. CASE ~(ref[r] \in BlobIds /\ row[ref[r]] # "none" /\ Holders(ref[r]) = {r})
  <2>1. ref' = Tombstoned({r}) /\ UNCHANGED <<row, file, landing>>
    BY <1>3 DEF ExpireContent
  <2> QED
    BY <1>1, <2>1, OnlyTombstones
<1> QED
  BY <1>2, <1>3

\* At the start there is no blob.
LEMMA BlobsInitInv == BlobsInit => BlobsInv
<1> SUFFICES ASSUME BlobsInit PROVE BlobsInv
  OBVIOUS
<1>1. BlobsTypeOK
  BY DEF BlobsInit, BlobsTypeOK, Unnaming
<1>2. \A r \in Refs : ref[r] \notin BlobIds
  BY KindsApart DEF BlobsInit, Unnaming
<1>3. FilesLand /\ BlobsKept
  BY <1>2 DEF BlobsInit, FilesLand, BlobsKept, RefsResolve, RowsHaveFiles
<1> QED
  BY <1>1, <1>3 DEF BlobsInv

\* No pass and no crash leaves a row without its file, or a reference made
\* while its blob was there without its bytes (runReapMedia, runReapOrphanBlobs,
\* runExpireLogs, runExpireDeviceContent and runOffload of retention.js), but
\* for one to the blob of a live log that ends.
THEOREM BlobsStay == BlobsSpec => []BlobsKept
<1>1. BlobsInv /\ [BlobsNext]_blobVars => BlobsInv'
  <2> SUFFICES ASSUME BlobsInv, [BlobsNext]_blobVars PROVE BlobsInv'
    OBVIOUS
  <2>1. CASE \E b \in Media : Upload(b) \/ InsertBlob(b) \/ UploadRefused(b)
    BY <2>1, UploadKeeps
  <2>2. CASE (\E r \in Refs, b \in BlobIds : Attach(r, b)) \/ Publish
    BY <2>2, AttachKeeps
  <2>3. CASE (\E b \in BlobIds : BlobAges(b) \/ RecoverStaged(b)) \/ (\E r \in Refs : RefAges(r)) \/ BlobCrash
    BY <2>3, AgesKeep
  <2>4. CASE \E b \in BlobIds : ReapGarbage(b) \/ ReapMedia(b)
    BY <2>4, PassesKeep
  <2>5. CASE \E b \in BlobIds : ReapOrphan(b)
    BY <2>5, OrphanKeeps
  <2>6. CASE \E r \in Refs : ExpireContent(r)
    BY <2>6, ContentKeeps
  <2>7. CASE \E b \in LogFiles : Offload(b)
    BY <2>7, OffloadKeeps
  <2>8. CASE ExpireLogs
    <3>1. ref["live"] \in BlobIds
      BY <2>8 DEF ExpireLogs, BlobIds
    <3> QED
      BY <2>8, <3>1, PassesKeep
  <2>9. CASE \E b \in Voice : ExpireVoiceNotes(b) \/ ExpireChatVoiceNotes(b)
    <3>1. Voice \subseteq BlobIds
      BY KindsApart DEF BlobIds
    <3> QED
      BY <2>9, <3>1, PassesKeep
  <2>10. CASE UNCHANGED blobVars
    BY <2>10 DEF blobVars, BlobsInv, BlobsTypeOK, FilesLand, BlobsKept, RefsResolve, RowsHaveFiles
  <2> QED
    BY <2>1, <2>2, <2>3, <2>4, <2>5, <2>6, <2>7, <2>8, <2>9, <2>10 DEF BlobsNext
<1>2. BlobsInv => BlobsKept
  BY DEF BlobsInv
<1> QED
  BY <1>1, <1>2, BlobsInitInv, PTL DEF BlobsSpec

-----------------------------------------------------------------------------
(* Ownership: the inductive invariant. *)

Works == [state : {"none", "open", "closed"}, project : OwnProjects \cup {Nothing}]
Approvals == {Nothing} \cup [missions : SUBSET OwnMissions, files : SUBSET OwnMissions, out : SUBSET OwnMissions]
GrantRows == [state : {"none", "awaiting_owner", "pending", "active", "over"}, level : {"read", "owner"},
              raise : {"none", "awaiting_owner", "pending"}, approved : Approvals]

OwnershipTypeOK ==
  /\ work \in [OwnMissions -> Works] /\ grant \in [Asks -> GrantRows]
  /\ gave = [k \in Asks |-> gave[k]] /\ back \subseteq Asks

\* Only a grant that is in force, and not to own, is asked to be more.
RaiseGood(g) == g.raise # "none" => g.state = "active" /\ g.level # "owner"

\* What was given stays given, as approved, and its missions stay closed.
GivenStays(k) == gave[k] # Nothing =>
  /\ HandedRow(grant[k]) /\ gave[k] = grant[k].approved
  /\ \A m \in gave[k].missions : m \in OwnMissions /\ work[m].state = "closed"

GivenApart == \A k, q \in Asks : k # q /\ gave[k] # Nothing /\ gave[q] # Nothing => gave[k].missions \cap gave[q].missions = {}

OwnershipInv ==
  /\ OwnershipTypeOK /\ GivenApart /\ GrantsAmongContacts /\ CardsAreAsks
  /\ \A k \in Asks : RaiseGood(grant[k]) /\ GivenStays(k)

\* A card is its row's.
LEMMA CardOfRow ==
  ASSUME NEW k, NEW g, NEW c \in Cards(k, g)
  PROVE  c[1] = k
BY DEF Cards

\* Deal: the cards of the rows that changed are dealt anew.
LEMMA DealKeeps ==
  ASSUME CardsAreAsks, NEW ks \in SUBSET Asks, Deal(ks), \A k \in Asks \ ks : grant'[k] = grant[k]
  PROVE  CardsAreAsks'
<1>1. CASE noCards'
  BY <1>1 DEF CardsAreAsks
<1>2. CASE ~noCards'
  <2>1. /\ ~noCards /\ asks = UNION {Cards(k, grant[k]) : k \in Asks}
        /\ asks' = Settled(ks) \cup UNION {Cards(k, grant'[k]) : k \in ks}
    BY <1>2 DEF Deal, CardsAreAsks
  <2>2. ASSUME NEW c \in asks' PROVE \E k \in Asks : c \in Cards(k, grant'[k])
    <3>1. CASE c \in Settled(ks)
      <4>1. c \in asks /\ c[1] \notin ks
        BY <3>1 DEF Settled
      <4>2. PICK k \in Asks : c \in Cards(k, grant[k])
        BY <2>1, <4>1
      <4>3. c[1] = k
        BY <4>2, CardOfRow
      <4> QED
        BY <4>1, <4>2, <4>3
    <3> QED
      BY <2>1, <3>1
  <2>3. ASSUME NEW k \in Asks, NEW c \in Cards(k, grant'[k]) PROVE c \in asks'
    <3>1. CASE k \notin ks
      <4>1. c \in asks /\ c[1] = k
        BY <2>1, <3>1, CardOfRow
      <4> QED
        BY <2>1, <3>1, <4>1 DEF Settled
    <3> QED
      BY <2>1, <3>1
  <2>4. asks' = UNION {Cards(k, grant'[k]) : k \in Asks}
    BY <2>2, <2>3
  <2> QED
    BY <2>4 DEF CardsAreAsks
<1> QED
  BY <1>1, <1>2

\* What a row can become: an ask that ends,
LEMMA EndedAskRow ==
  ASSUME NEW g \in GrantRows, RaiseGood(g), AskState(g) \in Waits
  PROVE  /\ EndedAsk(g) \in GrantRows /\ RaiseGood(EndedAsk(g)) /\ ~HandedRow(g) /\ LiveRow(g)
         /\ LiveRow(EndedAsk(g)) => g.state = "active"
<1>1. Nothing \in Approvals
  BY DEF Approvals
<1> QED
  BY <1>1 DEF EndedAsk, GrantRows, RaiseGood, AskState, Waits, HandedRow, LiveRow

\* an ask the owner agrees to,
LEMMA AskingRow ==
  ASSUME NEW g \in GrantRows, RaiseGood(g), AskState(g) \in Waits, NEW a \in Approvals
  PROVE  Asking(g, a) \in GrantRows /\ RaiseGood(Asking(g, a))
BY DEF Asking, GrantRows, RaiseGood, AskState, Waits

\* a row that ends.
LEMMA EndedRow ==
  ASSUME NEW g \in GrantRows
  PROVE  Ended(g) \in GrantRows /\ RaiseGood(Ended(g)) /\ ~LiveRow(Ended(g))
<1>1. Nothing \in Approvals
  BY DEF Approvals
<1> QED
  BY <1>1 DEF Ended, GrantRows, RaiseGood, LiveRow, Waits

\* What the owner can say yes to.
LEMMA CrossesType ==
  ASSUME NEW k \in Asks, NEW out \in FilesLeftOut
  PROVE  WhatCrosses(k[1], out) \in Approvals /\ Of(k[1]) \subseteq OwnMissions
<1>1. out \subseteq OwnMissions
  BY OwnershipAssumption DEF FilesLeftOut
<1>2. Of(k[1]) \subseteq OwnMissions
  BY DEF Of
<1> QED
  BY <1>1, <1>2 DEF WhatCrosses, Approvals

-----------------------------------------------------------------------------
(* Ownership: its actions. *)

\* One row is answered: not one that was handed over.
LEMMA AnsweredKeeps ==
  ASSUME OwnershipInv, NEW k \in Asks, NEW g \in GrantRows, RaiseGood(g), Answered(k, g), ~HandedRow(grant[k]),
         k[2] \notin friend => ~LiveRow(g)
  PROVE  OwnershipInv'
<1>1. OwnershipTypeOK
  BY DEF OwnershipInv
<1>2. grant' = [grant EXCEPT ![k] = g] /\ Deal({k}) /\ UNCHANGED <<work, friend, gave, back>>
  BY DEF Answered, GrantIs, KeepWork
<1>3. /\ grant' \in [Asks -> GrantRows] /\ grant'[k] = g
      /\ \A q \in Asks \ {k} : grant'[q] = grant[q]
  BY <1>1, <1>2 DEF OwnershipTypeOK
<1>4. OwnershipTypeOK' /\ GivenApart'
  BY <1>1, <1>2, <1>3 DEF OwnershipInv, OwnershipTypeOK, GivenApart
<1>5. GrantsAmongContacts'
  BY <1>2, <1>3 DEF OwnershipInv, GrantsAmongContacts
<1>6. CardsAreAsks'
  BY <1>2, <1>3, DealKeeps DEF OwnershipInv
<1>7. ASSUME NEW q \in Asks PROVE RaiseGood(grant'[q]) /\ GivenStays(q)'
  BY <1>2, <1>3 DEF OwnershipInv, GivenStays
<1> QED
  BY <1>4, <1>5, <1>6, <1>7 DEF OwnershipInv

\* AskGrant.
LEMMA AskKeeps ==
  ASSUME OwnershipInv, NEW k \in Asks, NEW level \in {"read", "owner"}, NEW by \in {"agent", "user"},
         NEW out \in FilesLeftOut, AskGrant(k, level, by, out)
  PROVE  OwnershipInv'
<1> DEFINE a == IF level = "owner" /\ by = "user" THEN WhatCrosses(k[1], out) ELSE Nothing
           s == IF by = "agent" THEN "awaiting_owner" ELSE "pending"
           raised == [grant[k] EXCEPT !.raise = s, !.approved = a]
           new == [NoGrant EXCEPT !.state = s, !.level = level, !.approved = a]
<1>1. grant[k] \in GrantRows /\ RaiseGood(grant[k])
  BY DEF OwnershipInv, OwnershipTypeOK
<1>2. k[2] \in friend /\ AskState(grant[k]) \notin Waits /\ Answered(k, IF grant[k].state = "active" THEN raised ELSE new)
      /\ (grant[k].state = "active" => CanBeHanded(k[1], {}))
  BY DEF AskGrant, AskLives
<1>3. a \in Approvals /\ s \in {"awaiting_owner", "pending"}
  BY CrossesType DEF Approvals
<1> HIDE DEF a, s
<1>4. ~HandedRow(grant[k])
  <2>1. CanBeHanded(k[1], {}) => ~HandedOver(k[1], {})
    BY DEF CanBeHanded
  <2> QED
    BY <1>2, <2>1 DEF HandedOver, HandedRow
<1>5. CASE grant[k].state = "active"
  <2>1. raised \in GrantRows
    BY <1>1, <1>3 DEF GrantRows
  <2>2. RaiseGood(raised)
    BY <1>1, <1>4, <1>5 DEF GrantRows, RaiseGood, HandedRow
  <2> HIDE DEF raised
  <2>3. Answered(k, raised)
    BY <1>2, <1>5
  <2> QED
    BY <1>2, <1>4, <2>1, <2>2, <2>3, AnsweredKeeps
<1>6. CASE grant[k].state # "active"
  <2>1. new \in GrantRows /\ RaiseGood(new)
    BY <1>3 DEF GrantRows, NoGrant, RaiseGood
  <2> HIDE DEF new
  <2>2. Answered(k, new)
    BY <1>2, <1>6
  <2> QED
    BY <1>2, <1>4, <2>1, <2>2, AnsweredKeeps
<1> QED
  BY <1>5, <1>6

\* An ask that waits may be refused or dropped, by either.
LEMMA EndAskKeeps ==
  ASSUME OwnershipInv, NEW k \in Asks, AskState(grant[k]) \in Waits, Answered(k, EndedAsk(grant[k]))
  PROVE  OwnershipInv'
<1>1. grant[k] \in GrantRows /\ RaiseGood(grant[k])
  BY DEF OwnershipInv, OwnershipTypeOK
<1>2. /\ EndedAsk(grant[k]) \in GrantRows /\ RaiseGood(EndedAsk(grant[k])) /\ ~HandedRow(grant[k]) /\ LiveRow(grant[k])
  BY <1>1, EndedAskRow
<1>3. k[2] \in friend
  BY <1>2 DEF OwnershipInv, GrantsAmongContacts
<1> QED
  BY <1>2, <1>3, AnsweredKeeps

\* OwnerRefuses, OwnerAgrees, GranteeDeclines, Revoke.
LEMMA AnswersKeep ==
  ASSUME OwnershipInv, NEW k \in Asks,
         OwnerRefuses(k) \/ (\E out \in FilesLeftOut : OwnerAgrees(k, out)) \/ GranteeDeclines(k) \/ Revoke(k)
  PROVE  OwnershipInv'
<1>1. grant[k] \in GrantRows /\ RaiseGood(grant[k])
  BY DEF OwnershipInv, OwnershipTypeOK
<1>2. CASE OwnerRefuses(k) \/ GranteeDeclines(k)
  BY <1>2, EndAskKeeps DEF OwnerRefuses, GranteeDeclines, Waits
<1>3. CASE \E out \in FilesLeftOut : OwnerAgrees(k, out)
  <2>1. PICK out \in FilesLeftOut : OwnerAgrees(k, out)
    BY <1>3
  <2> DEFINE a == IF AskLevel(grant[k]) = "owner" THEN WhatCrosses(k[1], out) ELSE Nothing
  <2>2. AskState(grant[k]) \in Waits /\ a \in Approvals
    BY <2>1, CrossesType DEF OwnerAgrees, Waits, Approvals
  <2>3. \/ k[2] \in friend /\ Answered(k, Asking(grant[k], a))
        \/ Answered(k, EndedAsk(grant[k]))
    BY <2>1 DEF OwnerAgrees
  <2> HIDE DEF a
  <2>4. Asking(grant[k], a) \in GrantRows /\ RaiseGood(Asking(grant[k], a)) /\ ~HandedRow(grant[k])
    BY <1>1, <2>2, AskingRow, EndedAskRow
  <2> QED
    BY <2>2, <2>3, <2>4, EndAskKeeps, AnsweredKeeps
<1>4. CASE Revoke(k)
  BY <1>1, <1>4, EndedRow, AnsweredKeeps DEF Revoke
<1> QED
  BY <1>2, <1>3, <1>4

\* GranteeAccepts, when it is to own: each mission is given once, and closed.
LEMMA HandOverKeeps ==
  ASSUME OwnershipInv, NEW k \in Asks, AskState(grant[k]) = "pending", k[2] \in friend,
         CanBeHanded(k[1], {k}), AsApproved(k), HandOver(k)
  PROVE  OwnershipInv'
<1> DEFINE ms == Of(k[1])
           others == OtherAsks(k, ms)
           g == [grant[k] EXCEPT !.state = "active", !.level = "owner", !.raise = "none"]
<1>1. OwnershipTypeOK /\ grant[k] \in GrantRows /\ RaiseGood(grant[k])
  BY DEF OwnershipInv, OwnershipTypeOK
<1>2. /\ \A q \in Asks : grant'[q] = IF q = k THEN g ELSE IF q \in others THEN EndedAsk(grant[q]) ELSE grant[q]
      /\ grant' = [q \in Asks |-> grant'[q]]
      /\ work' = Originals(ms) /\ back' = back \cup {k} /\ Deal({k} \cup others) /\ UNCHANGED friend
      /\ gave' = [gave EXCEPT ![k] = grant[k].approved]
  BY DEF HandOver, AsApproved
<1>3. ms \subseteq OwnMissions /\ grant[k].approved.missions = ms
  <2>1. ms \subseteq OwnMissions
    BY DEF Of
  <2>2. WhatCrosses(k[1], grant[k].approved.out).missions = ms
    BY DEF WhatCrosses
  <2> QED
    BY <2>1, <2>2 DEF AsApproved
<1>4. \A m \in ms : work[m].state = "open"
  BY DEF Of, CanBeHanded
<1>5. others \subseteq Asks /\ k \notin others /\ \A q \in others : AskState(grant[q]) \in Waits
  BY DEF OtherAsks, AskLives
<1>6. g \in GrantRows /\ RaiseGood(g) /\ HandedRow(g) /\ g.approved = grant[k].approved
  BY <1>1 DEF GrantRows, RaiseGood, HandedRow
<1> HIDE DEF g, others, ms
<1>7. \A q \in others : /\ EndedAsk(grant[q]) \in GrantRows /\ RaiseGood(EndedAsk(grant[q]))
                        /\ ~HandedRow(grant[q]) /\ LiveRow(grant[q])
  BY <1>1, <1>5, EndedAskRow DEF OwnershipInv, OwnershipTypeOK
<1>8. /\ work' \in [OwnMissions -> Works]
      /\ \A m \in OwnMissions : /\ m \in ms => work'[m].state = "closed"
                                /\ m \notin ms => work'[m] = work[m]
  BY <1>1 DEF OwnershipTypeOK, HandOver, Originals, Works, ms
<1>9. grant' \in [Asks -> GrantRows]
  <2>1. \A q \in Asks : grant'[q] \in GrantRows
    BY <1>1, <1>2, <1>6, <1>7 DEF OwnershipTypeOK
  <2> QED
    BY <1>2, <2>1
<1>10. /\ \A q \in Asks \ {k} : gave'[q] = gave[q]
       /\ gave'[k] = grant[k].approved
       /\ gave' = [q \in Asks |-> gave'[q]]
  BY <1>1, <1>2 DEF OwnershipTypeOK
<1>11. OwnershipTypeOK'
  BY <1>1, <1>2, <1>8, <1>9, <1>10 DEF OwnershipTypeOK
<1>12. ASSUME NEW q \in Asks \ {k}, gave[q] # Nothing
       PROVE  gave[q].missions \cap ms = {} /\ q \notin others
  BY <1>4, <1>7, <1>12 DEF OwnershipInv, GivenStays
<1>13. GivenApart'
  BY <1>3, <1>10, <1>12 DEF OwnershipInv, GivenApart
<1>14. GrantsAmongContacts'
  <2> SUFFICES ASSUME NEW q \in Asks, q[2] \notin friend
               PROVE  (LiveRow(grant'[q]) => HandedRow(grant'[q])) /\ q \notin back'
    BY <1>2 DEF GrantsAmongContacts
  <2>1. q # k /\ (LiveRow(grant[q]) => HandedRow(grant[q])) /\ q \notin back
    BY DEF OwnershipInv, GrantsAmongContacts
  <2>2. q \notin others
    BY <1>7, <2>1
  <2> QED
    BY <1>2, <2>1, <2>2
<1>15. CardsAreAsks'
  <2>1. \A q \in Asks \ ({k} \cup others) : grant'[q] = grant[q]
    BY <1>2
  <2> QED
    BY <1>2, <1>5, <2>1, DealKeeps DEF OwnershipInv
<1>16. ASSUME NEW q \in Asks PROVE RaiseGood(grant'[q]) /\ GivenStays(q)'
  <2>1. RaiseGood(grant[q]) /\ GivenStays(q)
    BY DEF OwnershipInv
  <2>2. CASE q = k
    BY <1>2, <1>3, <1>6, <1>8, <1>10, <2>2 DEF GivenStays
  <2>3. CASE q # k
    <3>1. RaiseGood(grant'[q])
      BY <1>2, <1>7, <2>1, <2>3
    <3>2. ASSUME gave[q] # Nothing PROVE GivenStays(q)'
      <4>1. grant'[q] = grant[q] /\ gave'[q] = gave[q]
        BY <1>2, <1>10, <1>12, <2>3, <3>2
      <4>2. \A m \in gave[q].missions : m \in OwnMissions /\ work'[m].state = "closed"
        BY <1>8, <2>1, <3>2 DEF GivenStays
      <4> QED
        BY <2>1, <4>1, <4>2 DEF GivenStays
    <3>3. ASSUME gave[q] = Nothing PROVE GivenStays(q)'
      BY <1>10, <2>3, <3>3 DEF GivenStays
    <3> QED
      BY <3>1, <3>2, <3>3
  <2> QED
    BY <2>2, <2>3
<1> QED
  BY <1>11, <1>13, <1>14, <1>15, <1>16 DEF OwnershipInv

\* GranteeAccepts.
LEMMA AcceptKeeps ==
  ASSUME OwnershipInv, NEW k \in Asks, GranteeAccepts(k)
  PROVE  OwnershipInv'
<1> DEFINE g == [grant[k] EXCEPT !.state = "active"]
<1>1. grant[k] \in GrantRows /\ RaiseGood(grant[k]) /\ AskState(grant[k]) = "pending" /\ k[2] \in friend
  BY DEF OwnershipInv, OwnershipTypeOK, GranteeAccepts
<1>2. "pending" \in Waits
  BY DEF Waits
<1>3. CASE CanBeHanded(k[1], {k}) /\ AsApproved(k) /\ HandOver(k)
  BY <1>1, <1>3, HandOverKeeps
<1>4. CASE Answered(k, EndedAsk(grant[k]))
  BY <1>1, <1>2, <1>4, EndAskKeeps
<1>5. CASE AskLevel(grant[k]) # "owner" /\ Answered(k, g)
  <2>1. g \in GrantRows /\ RaiseGood(g)
    BY <1>1, <1>5 DEF GrantRows, RaiseGood, AskLevel
  <2> HIDE DEF g
  <2>2. ~HandedRow(grant[k])
    BY <1>1, <1>2, EndedAskRow
  <2> QED
    BY <1>1, <1>5, <2>1, <2>2, AnsweredKeeps
<1> QED
  BY <1>3, <1>4, <1>5 DEF GranteeAccepts

\* RevokeBack, ContactAgain: a grant less, a contact more.
LEMMA BackKeeps ==
  ASSUME OwnershipInv, (\E k \in Asks : RevokeBack(k)) \/ (\E g \in Grantees : ContactAgain(g))
  PROVE  OwnershipInv'
<1>1. UNCHANGED <<work, grant, gave, asks, noCards>> /\ back' \subseteq back /\ friend \subseteq friend'
  BY DEF RevokeBack, ContactAgain, KeepWork
<1> QED
  BY <1>1 DEF OwnershipInv, OwnershipTypeOK, GivenApart, GrantsAmongContacts, CardsAreAsks, GivenStays

\* ContactOver: with the contact, whatever was between the two but what was
\* given for good.
LEMMA ContactOverKeeps ==
  ASSUME OwnershipInv, NEW g \in Grantees, ContactOver(g)
  PROVE  OwnershipInv'
<1>1. OwnershipTypeOK
  BY DEF OwnershipInv
<1>2. /\ friend' = friend \ {g} /\ back' = {k \in back : k[2] # g} /\ Deal(Between(g)) /\ UNCHANGED <<work, gave>>
      /\ grant' = [k \in Asks |-> IF k \in Between(g) THEN Ended(grant[k]) ELSE grant[k]]
  BY DEF ContactOver, KeepWork
<1>3. Between(g) \subseteq Asks /\ \A k \in Between(g) : ~HandedRow(grant[k])
  BY DEF Between
<1>4. \A k \in Asks : Ended(grant[k]) \in GrantRows /\ RaiseGood(Ended(grant[k])) /\ ~LiveRow(Ended(grant[k]))
  BY <1>1, EndedRow DEF OwnershipTypeOK
<1>5. grant' \in [Asks -> GrantRows]
  BY <1>1, <1>2, <1>4 DEF OwnershipTypeOK
<1>6. OwnershipTypeOK' /\ GivenApart'
  BY <1>1, <1>2, <1>5 DEF OwnershipInv, OwnershipTypeOK, GivenApart
<1>7. GrantsAmongContacts'
  <2> SUFFICES ASSUME NEW k \in Asks, k[2] \notin friend'
               PROVE  (LiveRow(grant'[k]) => HandedRow(grant'[k])) /\ k \notin back'
    BY DEF GrantsAmongContacts
  <2>1. CASE k \in Between(g)
    <3>1. k[2] = g
      BY <2>1 DEF Between
    <3> QED
      BY <1>2, <1>4, <2>1, <3>1
  <2>2. CASE k \notin Between(g)
    <3>1. grant'[k] = grant[k]
      BY <1>2, <2>2
    <3>2. LiveRow(grant[k]) => HandedRow(grant[k])
      BY <1>2, <2>2 DEF Between, OwnershipInv, GrantsAmongContacts
    <3>3. k \notin back'
      BY <1>2 DEF OwnershipInv, GrantsAmongContacts
    <3> QED
      BY <3>1, <3>2, <3>3
  <2> QED
    BY <2>1, <2>2
<1>8. CardsAreAsks'
  BY <1>2, <1>3, DealKeeps DEF OwnershipInv
<1>9. ASSUME NEW k \in Asks PROVE RaiseGood(grant'[k]) /\ GivenStays(k)'
  <2>1. RaiseGood(grant[k]) /\ GivenStays(k)
    BY DEF OwnershipInv
  <2>2. grant'[k] = IF k \in Between(g) THEN Ended(grant[k]) ELSE grant[k]
    BY <1>2
  <2> QED
    BY <1>2, <1>3, <1>4, <2>1, <2>2 DEF GivenStays
<1> QED
  BY <1>6, <1>7, <1>8, <1>9 DEF OwnershipInv

\* The owner's work goes on: what is closed stays closed.
LEMMA WorkGoesOn ==
  ASSUME OwnershipInv,
         \/ \E m \in OwnMissions : \/ MissionCloses(m) \/ Attachment(m)
                                   \/ \E p \in OwnProjects : NewMission(m, p) \/ \E was \in OwnProjects : Refile(m, was, p)
         \/ \E p \in OwnProjects : ProjectCloses(p) \/ \E q \in OwnProjects : Merge(p, q)
  PROVE  OwnershipInv'
<1>1. OwnershipTypeOK
  BY DEF OwnershipInv
<1>2. UNCHANGED <<friend, grant, gave, back, asks, noCards>>
  BY DEF MissionCloses, Attachment, NewMission, Refile, ProjectCloses, Merge, KeepAsks
<1>3. \/ work' = work
      \/ \E m \in OwnMissions, p \in OwnProjects \cup {Nothing}, s \in {"none", "open", "closed"} :
           /\ work[m].state = "closed" => s = "closed"
           /\ work' = [work EXCEPT ![m] = [state |-> s, project |-> p]]
      \/ \E p \in OwnProjects, q \in OwnProjects :
           work' = [m \in OwnMissions |-> IF work[m].project = p THEN [work[m] EXCEPT !.project = q] ELSE work[m]]
  <2>1. CASE \E m \in OwnMissions : MissionCloses(m)
    <3>1. PICK m \in OwnMissions :
            work' = [work EXCEPT ![m] = [state |-> "closed", project |-> work[m].project]]
      BY <2>1 DEF MissionCloses, WorkIs
    <3>2. work[m].project \in OwnProjects \cup {Nothing}
      BY <1>1 DEF OwnershipTypeOK, Works
    <3> QED
      BY <3>1, <3>2
  <2>2. CASE \E m \in OwnMissions, p \in OwnProjects : NewMission(m, p)
    BY <2>2 DEF NewMission, WorkIs
  <2>3. CASE \E m \in OwnMissions, p \in OwnProjects, was \in OwnProjects : Refile(m, was, p)
    <3>1. PICK m \in OwnMissions, p \in OwnProjects :
            work' = [work EXCEPT ![m] = [state |-> work[m].state, project |-> p]]
      BY <2>3 DEF Refile, WorkIs
    <3>2. work[m].state \in {"none", "open", "closed"}
      BY <1>1 DEF OwnershipTypeOK, Works
    <3> QED
      BY <3>1, <3>2
  <2>4. CASE \E p \in OwnProjects, q \in OwnProjects : Merge(p, q)
    BY <2>4, ZenonT(40) DEF Merge
  <2>5. CASE (\E m \in OwnMissions : Attachment(m)) \/ (\E p \in OwnProjects : ProjectCloses(p))
    BY <2>5 DEF Attachment, ProjectCloses
  <2> QED
    BY <2>1, <2>2, <2>3, <2>4, <2>5
<1>4. /\ work' \in [OwnMissions -> Works]
      /\ \A m \in OwnMissions : work[m].state = "closed" => work'[m].state = "closed"
  BY <1>1, <1>3 DEF OwnershipTypeOK, Works
<1>5. OwnershipTypeOK' /\ GivenApart' /\ GrantsAmongContacts' /\ CardsAreAsks'
  BY <1>1, <1>2, <1>4 DEF OwnershipInv, OwnershipTypeOK, GivenApart, GrantsAmongContacts, CardsAreAsks
<1>6. ASSUME NEW k \in Asks PROVE RaiseGood(grant'[k]) /\ GivenStays(k)'
  BY <1>2, <1>4 DEF OwnershipInv, GivenStays
<1> QED
  BY <1>5, <1>6 DEF OwnershipInv

\* At the start nothing is asked and nothing was given.
LEMMA OwnershipInitInv == OwnershipInit => OwnershipInv
<1> SUFFICES ASSUME OwnershipInit PROVE OwnershipInv
  OBVIOUS
<1>1. /\ NoGrant \in GrantRows /\ NoGrant.state = "none" /\ NoGrant.raise = "none"
      /\ [state |-> "none", project |-> Nothing] \in Works
  BY DEF NoGrant, GrantRows, Approvals, Works
<1>2. \A k \in Asks : grant[k] = NoGrant /\ gave[k] = Nothing
  BY DEF OwnershipInit
<1>3. OwnershipTypeOK
  BY <1>1 DEF OwnershipInit, OwnershipTypeOK
<1>4. GivenApart /\ \A k \in Asks : RaiseGood(grant[k]) /\ GivenStays(k)
  BY <1>1, <1>2 DEF GivenApart, RaiseGood, GivenStays
<1>5. GrantsAmongContacts
  <2>1. \A k \in Asks : k[2] \in friend
    BY OwnershipAssumption DEF OwnershipInit
  <2> QED
    BY <2>1 DEF GrantsAmongContacts
<1>6. CardsAreAsks
  <2>1. \A k \in Asks : Cards(k, grant[k]) = {}
    BY <1>1, <1>2 DEF Cards, AskState
  <2> QED
    BY <2>1 DEF OwnershipInit, CardsAreAsks
<1> QED
  BY <1>3, <1>4, <1>5, <1>6 DEF OwnershipInv

\* What is given is what its owner approved, once, and only contacts share
\* (sameApprovedSet, checkHandoverAsk and applyHandover of handover.js,
\* revokeGrantsBetween and the cards of grants.js).
THEOREM GivenAsAgreed == OwnershipSpec => []SharesHold
<1>1. OwnershipInv /\ [OwnershipNext]_ownershipVars => OwnershipInv'
  <2> SUFFICES ASSUME OwnershipInv, [OwnershipNext]_ownershipVars PROVE OwnershipInv'
    OBVIOUS
  <2>1. CASE \E k \in Asks, level \in {"read", "owner"}, by \in {"agent", "user"}, out \in FilesLeftOut :
               AskGrant(k, level, by, out)
    BY <2>1, AskKeeps
  <2>2. CASE \E k \in Asks : \/ OwnerRefuses(k) \/ (\E out \in FilesLeftOut : OwnerAgrees(k, out))
                             \/ GranteeDeclines(k) \/ Revoke(k)
    BY <2>2, AnswersKeep
  <2>3. CASE \E k \in Asks : GranteeAccepts(k)
    BY <2>3, AcceptKeeps
  <2>4. CASE (\E k \in Asks : RevokeBack(k)) \/ (\E g \in Grantees : ContactAgain(g))
    BY <2>4, BackKeeps
  <2>5. CASE \E g \in Grantees : ContactOver(g)
    BY <2>5, ContactOverKeeps
  <2>6. CASE \/ \E m \in OwnMissions :
                  \/ MissionCloses(m) \/ (m \in WithFile /\ Attachment(m))
                  \/ \E p \in OwnProjects : NewMission(m, p) \/ \E was \in OwnProjects : Refile(m, was, p)
             \/ \E p \in OwnProjects : ProjectCloses(p) \/ \E q \in OwnProjects : Merge(p, q)
    BY <2>6, WorkGoesOn
  <2>7. CASE UNCHANGED ownershipVars
    BY <2>7 DEF ownershipVars, OwnershipInv, OwnershipTypeOK, GivenApart, GrantsAmongContacts, CardsAreAsks, GivenStays
  <2> QED
    BY <2>1, <2>2, <2>3, <2>4, <2>5, <2>6, <2>7 DEF OwnershipNext
<1>2. OwnershipInv => SharesHold
  BY DEF OwnershipInv, SharesHold, GivenAsApproved, GivenStays, GivenApart
<1> QED
  BY <1>1, <1>2, OwnershipInitInv, PTL DEF OwnershipSpec

-----------------------------------------------------------------------------
(* Linking: the inductive invariant. *)

Offers == [code : Nat, status : {"none", "waiting", "claimed", "approved", "denied"}, by : Claimers \cup {Nobody}]
Claims == Nat \X (Claimers \cup {Nobody})

LinkingTypeOK ==
  /\ offer \in [Starters -> Offers] /\ shown \in [Starters -> Claims]
  /\ ready \subseteq Claims /\ requests \subseteq Nat /\ pairs \subseteq [code : Nat, approved : BOOLEAN]
  /\ devices \in [Codes -> Nat] /\ codes \in Nat

\* The places where a code can wait for its device, besides its row.
OfferedBy(c) == {s \in Starters : offer[s].code = c}
ReadyOf(c) == {t \in ready : t[1] = c}
PairsOf(c) == {p \in pairs : p.code = c}
Single(S) == \A e, f \in S : e = f
Outstanding(c) == OfferedBy(c) # {} \/ ReadyOf(c) # {} \/ PairsOf(c) # {} \/ c \in requests

\* A code is in one place at most; one that has its device, or was never handed
\* out, is in none.
CodeHeld(c) ==
  /\ Single(OfferedBy(c)) /\ Single(ReadyOf(c)) /\ Single(PairsOf(c))
  /\ OfferedBy(c) # {} => ReadyOf(c) = {} /\ PairsOf(c) = {} /\ c \notin requests
  /\ ReadyOf(c) # {} => PairsOf(c) = {} /\ c \notin requests
  /\ PairsOf(c) # {} => c \notin requests
  /\ devices[c] \in {0, 1}
  /\ devices[c] = 1 => ~Outstanding(c)
  /\ c > codes => ~Outstanding(c) /\ devices[c] = 0

\* The claim a starter was shown is the one its offer still has.
ClaimShown(s) ==
  /\ shown[s][1] <= codes /\ offer[s].code <= codes
  /\ offer[s].status = "waiting" => shown[s][1] # offer[s].code
  /\ offer[s].status \in {"claimed", "approved"} /\ shown[s][1] = offer[s].code => shown[s][2] = offer[s].by
  /\ offer[s].status = "approved" => <<offer[s].code, offer[s].by>> \in meant

\* Once a note was read there is no other.
NoteRead ==
  \/ readers = {}
  \/ \E x : x \notin {"none", "empty"} /\ readers = {x} /\ note \in {"none", x}

LinkingInv ==
  /\ LinkingTypeOK /\ NoteRead
  /\ \A c \in Codes : CodeHeld(c)
  /\ \A s \in Starters : ClaimShown(s)

\* A new code is the next one.
LEMMA NextCode ==
  ASSUME LinkingTypeOK, NewCode
  PROVE  codes' = codes + 1 /\ codes' \in Codes /\ codes' \in Nat
<1>1. MaxCodes \in Nat /\ codes \in Nat
  BY LinkingAssumption DEF LinkingTypeOK
<1> QED
  BY <1>1 DEF NewCode, Codes

\* A code that is in fewer places is in one at most.
LEMMA FewerPlaces ==
  ASSUME NEW c \in Codes, CodeHeld(c),
         OfferedBy(c)' \subseteq OfferedBy(c), ReadyOf(c)' \subseteq ReadyOf(c), PairsOf(c)' \subseteq PairsOf(c),
         c \in requests' => c \in requests, devices'[c] = devices[c], c > codes' => c > codes
  PROVE  CodeHeld(c)'
BY DEF CodeHeld, Single, Outstanding

\* One device more.
LEMMA OneMore ==
  ASSUME NEW d \in [Codes -> Nat], NEW k
  PROVE  [d EXCEPT ![k] = @ + 1] \in [Codes -> Nat]
<1> DEFINE e == [d EXCEPT ![k] = d[k] + 1]
<1>1. \A c \in Codes : e[c] \in Nat
  <2> TAKE c \in Codes
  <2>1. d[c] \in Nat
    OBVIOUS
  <2>2. e[c] = IF c = k THEN d[c] + 1 ELSE d[c]
    OBVIOUS
  <2> HIDE DEF e
  <2> QED
    BY <2>1, <2>2
<1>2. e = [c \in Codes |-> e[c]]
  OBVIOUS
<1> HIDE DEF e
<1>3. e \in [Codes -> Nat]
  BY <1>1, <1>2
<1> QED
  BY <1>3 DEF e

\* A code whose device is made leaves its place.
LEMMA DeviceMade ==
  ASSUME NEW c \in Codes, CodeHeld(c), Outstanding(c), ~Outstanding(c)', devices'[c] = devices[c] + 1, codes' = codes
  PROVE  CodeHeld(c)'
BY DEF CodeHeld, Single, Outstanding

\* The starters' claims depend on their offers and on what was tapped.
LEMMA SameClaim ==
  ASSUME NEW s \in Starters, LinkingTypeOK, LinkingTypeOK', ClaimShown(s), offer'[s] = offer[s], shown'[s] = shown[s],
         meant \subseteq meant', codes' \in {codes, codes + 1}
  PROVE  ClaimShown(s)'
<1>1. codes \in Nat /\ shown[s] \in Claims /\ offer[s] \in Offers
  BY DEF LinkingTypeOK
<1>2. shown[s][1] \in Nat /\ offer[s].code \in Nat
  BY <1>1 DEF Claims, Offers
<1> QED
  BY <1>1, <1>2 DEF ClaimShown

\* A starter without an offer claims nothing.
LEMMA NoClaimShown ==
  ASSUME NEW s \in Starters, LinkingTypeOK, ClaimShown(s), offer'[s] = NoOffer, UNCHANGED <<shown, codes>>
  PROVE  ClaimShown(s)'
BY DEF ClaimShown, NoOffer, LinkingTypeOK

-----------------------------------------------------------------------------
(* Linking: its actions. *)

\* StartRequest: the new code is nowhere yet, and no app shows it.
LEMMA StartKeeps ==
  ASSUME LinkingInv, NEW s \in Starters, StartRequest(s)
  PROVE  LinkingInv'
<1> DEFINE r == [code |-> codes', status |-> "waiting", by |-> Nobody]
<1>1. LinkingTypeOK
  BY DEF LinkingInv
<1>2. /\ codes' = codes + 1 /\ codes' \in Codes /\ codes' \in Nat
      /\ UNCHANGED <<ready, requests, pairs, shown, meant, devices, note, readers>>
  <2>1. NewCode
    BY DEF StartRequest
  <2> QED
    BY <1>1, <2>1, NextCode DEF StartRequest, KeepPairs
<1>3. offer' = [offer EXCEPT ![s] = r]
  BY DEF StartRequest
<1>4. r \in Offers /\ r.code = codes' /\ r.status = "waiting"
  BY <1>2 DEF Offers
<1> HIDE DEF r
<1>5. LinkingTypeOK'
  BY <1>1, <1>2, <1>3, <1>4 DEF LinkingTypeOK
<1>6. ASSUME NEW c \in Codes PROVE CodeHeld(c)'
  <2>1. CodeHeld(c) /\ c \in Nat
    BY DEF LinkingInv, Codes
  <2>2. ReadyOf(c)' = ReadyOf(c) /\ PairsOf(c)' = PairsOf(c)
    BY <1>2 DEF ReadyOf, PairsOf
  <2>3. CASE c # codes'
    <3>1. OfferedBy(c)' \subseteq OfferedBy(c)
      BY <1>1, <1>3, <1>4, <2>3 DEF OfferedBy, LinkingTypeOK
    <3>2. c > codes' => c > codes
      BY <1>1, <1>2, <2>1 DEF LinkingTypeOK
    <3> QED
      BY <1>2, <2>1, <2>2, <3>1, <3>2, FewerPlaces
  <2>4. CASE c = codes'
    <3>1. ~Outstanding(c) /\ devices[c] = 0 /\ ~(c > codes')
      BY <1>1, <1>2, <2>1, <2>4 DEF CodeHeld, LinkingTypeOK
    <3>2. OfferedBy(c)' = {s}
      BY <1>1, <1>3, <1>4, <2>4, <3>1 DEF OfferedBy, LinkingTypeOK, Outstanding
    <3> QED
      BY <1>2, <2>2, <3>1, <3>2 DEF CodeHeld, Outstanding, Single
  <2> QED
    BY <2>3, <2>4
<1>7. ASSUME NEW u \in Starters PROVE ClaimShown(u)'
  <2>1. ClaimShown(u)
    BY DEF LinkingInv
  <2>2. CASE u # s
    BY <1>1, <1>2, <1>3, <1>5, <2>1, <2>2, SameClaim DEF LinkingTypeOK
  <2>3. CASE u = s
    <3>1. offer'[u] = r
      BY <1>1, <1>3, <2>3 DEF LinkingTypeOK
    <3>2. shown[u][1] \in Nat /\ shown[u][1] <= codes
      BY <1>1, <2>1 DEF ClaimShown, LinkingTypeOK, Claims
    <3> QED
      BY <1>1, <1>2, <1>4, <3>1, <3>2 DEF ClaimShown, LinkingTypeOK
  <2> QED
    BY <2>2, <2>3
<1>8. NoteRead'
  BY <1>2 DEF LinkingInv, NoteRead
<1> QED
  BY <1>5, <1>6, <1>7, <1>8 DEF LinkingInv

\* Preapprove, PairStart: the new code is nowhere yet.
LEMMA HandOutKeeps ==
  ASSUME LinkingInv, Preapprove \/ PairStart
  PROVE  LinkingInv'
<1> DEFINE r == [code |-> codes', approved |-> FALSE]
<1>1. LinkingTypeOK
  BY DEF LinkingInv
<1>2. /\ codes' = codes + 1 /\ codes' \in Codes /\ codes' \in Nat
      /\ UNCHANGED <<offer, ready, shown, meant, devices, note, readers>>
  <2>1. NewCode
    BY DEF Preapprove, PairStart
  <2> QED
    BY <1>1, <2>1, NextCode DEF Preapprove, PairStart, PairsAre, KeepPairs, KeepNote
<1>3. \/ requests' = requests \cup {codes'} /\ pairs' = pairs
      \/ requests' = requests /\ pairs' = pairs \cup {r}
  BY DEF Preapprove, PairStart, PairsAre, KeepPairs
<1>4. r \in [code : Nat, approved : BOOLEAN] /\ r.code = codes'
  BY <1>2
<1> HIDE DEF r
<1>5. LinkingTypeOK'
  BY <1>1, <1>2, <1>3, <1>4 DEF LinkingTypeOK
<1>6. ASSUME NEW c \in Codes PROVE CodeHeld(c)'
  <2>1. CodeHeld(c) /\ c \in Nat
    BY DEF LinkingInv, Codes
  <2>2. ReadyOf(c)' = ReadyOf(c) /\ OfferedBy(c)' = OfferedBy(c)
    BY <1>2 DEF ReadyOf, OfferedBy
  <2>3. CASE c # codes'
    <3>1. PairsOf(c)' \subseteq PairsOf(c) /\ (c \in requests' => c \in requests)
      BY <1>3, <1>4, <2>3 DEF PairsOf
    <3>2. c > codes' => c > codes
      BY <1>1, <1>2, <2>1 DEF LinkingTypeOK
    <3> QED
      BY <1>2, <2>1, <2>2, <3>1, <3>2, FewerPlaces
  <2>4. CASE c = codes'
    <3>1. ~Outstanding(c) /\ devices[c] = 0 /\ ~(c > codes')
      BY <1>1, <1>2, <2>1, <2>4 DEF CodeHeld, LinkingTypeOK
    <3>2. \/ PairsOf(c)' = {} 
          \/ PairsOf(c)' = {r} /\ c \notin requests'
      BY <1>3, <1>4, <2>4, <3>1 DEF PairsOf, Outstanding
    <3> QED
      BY <1>2, <2>2, <3>1, <3>2 DEF CodeHeld, Outstanding, Single
  <2> QED
    BY <2>3, <2>4
<1>7. ASSUME NEW u \in Starters PROVE ClaimShown(u)'
  BY <1>1, <1>2, <1>5, SameClaim DEF LinkingInv
<1>8. NoteRead'
  BY <1>2 DEF LinkingInv, NoteRead
<1> QED
  BY <1>5, <1>6, <1>7, <1>8 DEF LinkingInv

\* ClaimOffer, ApproveRequest, Deny: an offer goes on, with its code.  It has
\* no claim before the first, and no app shows that one before it is made.
LEMMA OfferGoesOn ==
  ASSUME LinkingInv, NEW s \in Starters,
         (\E x \in Claimers : ClaimOffer(s, x)) \/ ApproveRequest(s) \/ Deny(s)
  PROVE  LinkingInv'
<1>1. LinkingTypeOK
  BY DEF LinkingInv
<1>2. UNCHANGED <<ready, requests, pairs, shown, devices, codes, note, readers>>
  BY DEF ClaimOffer, ApproveRequest, Deny, KeepPairs
<1>3. meant \subseteq meant'
  BY DEF ClaimOffer, ApproveRequest, Deny, KeepPairs
<1>4. \/ /\ offer[s].status = "waiting"
         /\ \E x \in Claimers : offer' = [offer EXCEPT ![s].status = "claimed", ![s].by = x]
      \/ /\ offer[s].status = "claimed" /\ offer[s].code = shown[s][1] /\ shown[s] \in meant'
         /\ offer' = [offer EXCEPT ![s].status = "approved"]
      \/ offer' = [offer EXCEPT ![s].status = "denied"]
      \/ offer' = offer
  BY DEF ClaimOffer, ApproveRequest, Deny, ActiveOwn
<1>5. /\ offer' \in [Starters -> Offers]
      /\ \A u \in Starters : offer'[u].code = offer[u].code /\ (u # s => offer'[u] = offer[u])
      /\ \/ offer'[s].status = "claimed" /\ offer[s].status = "waiting"
         \/ /\ offer'[s].status = "approved" /\ offer[s].status = "claimed" /\ offer'[s].by = offer[s].by
            /\ offer[s].code = shown[s][1] /\ shown[s] \in meant'
         \/ offer'[s].status = "denied"
         \/ offer'[s] = offer[s]
  BY <1>1, <1>4 DEF LinkingTypeOK, Offers
<1>6. LinkingTypeOK'
  BY <1>1, <1>2, <1>5 DEF LinkingTypeOK
<1>7. ASSUME NEW c \in Codes PROVE CodeHeld(c)'
  <2>1. CodeHeld(c)
    BY DEF LinkingInv
  <2>2. OfferedBy(c)' = OfferedBy(c) /\ ReadyOf(c)' = ReadyOf(c) /\ PairsOf(c)' = PairsOf(c)
    BY <1>2, <1>5 DEF OfferedBy, ReadyOf, PairsOf
  <2> QED
    BY <1>2, <2>1, <2>2, FewerPlaces
<1>8. ASSUME NEW u \in Starters PROVE ClaimShown(u)'
  <2>1. ClaimShown(u)
    BY DEF LinkingInv
  <2>2. CASE offer'[u] = offer[u]
    BY <1>1, <1>2, <1>3, <1>6, <2>1, <2>2, SameClaim
  <2>3. CASE u = s /\ offer'[u] # offer[u]
    <3>1. shown[s] = <<shown[s][1], shown[s][2]>>
      BY <1>1 DEF LinkingTypeOK, Claims
    <3>2. offer'[s].code = offer[s].code /\ shown'[s] = shown[s] /\ codes' = codes
      BY <1>2, <1>5
    <3>3. CASE offer'[s].status = "claimed" /\ offer[s].status = "waiting"
      BY <2>1, <2>3, <3>2, <3>3 DEF ClaimShown
    <3>4. CASE /\ offer'[s].status = "approved" /\ offer[s].status = "claimed" /\ offer'[s].by = offer[s].by
               /\ offer[s].code = shown[s][1] /\ shown[s] \in meant'
      BY <2>1, <2>3, <3>1, <3>2, <3>4 DEF ClaimShown
    <3>5. CASE offer'[s].status = "denied"
      BY <2>1, <2>3, <3>2, <3>5 DEF ClaimShown
    <3> QED
      BY <1>5, <2>3, <3>3, <3>4, <3>5
  <2> QED
    BY <1>5, <2>2, <2>3
<1>9. NoteRead'
  BY <1>2 DEF LinkingInv, NoteRead
<1> QED
  BY <1>6, <1>7, <1>8, <1>9 DEF LinkingInv

\* ClaimRow: a code leaves its row for its session.
LEMMA ClaimRowKeeps ==
  ASSUME LinkingInv, NEW r \in Codes, NEW x \in Claimers, ClaimRow(r, x)
  PROVE  LinkingInv'
<1>1. LinkingTypeOK /\ r \in Nat
  BY DEF LinkingInv, Codes
<1>2. UNCHANGED <<offer, pairs, shown, meant, devices, codes, note, readers>>
  BY DEF ClaimRow, KeepPairs
<1>3. r \in requests /\ requests' = requests \ {r} /\ ready' = ready \cup {<<r, x>>}
  BY DEF ClaimRow, TakeRow
<1>4. LinkingTypeOK'
  BY <1>1, <1>2, <1>3 DEF LinkingTypeOK, Claims
<1>5. ASSUME NEW c \in Codes PROVE CodeHeld(c)'
  <2>1. CodeHeld(c)
    BY DEF LinkingInv
  <2>2. OfferedBy(c)' = OfferedBy(c) /\ PairsOf(c)' = PairsOf(c)
    BY <1>2 DEF OfferedBy, PairsOf
  <2>3. CASE c # r
    <3>1. ReadyOf(c)' \subseteq ReadyOf(c)
      BY <1>3, <2>3 DEF ReadyOf
    <3> QED
      BY <1>2, <1>3, <2>1, <2>2, <3>1, FewerPlaces
  <2>4. CASE c = r
    <3>1. Outstanding(c) /\ OfferedBy(c) = {} /\ ReadyOf(c) = {} /\ PairsOf(c) = {}
      BY <1>3, <2>1, <2>4 DEF CodeHeld, Outstanding
    <3>2. ReadyOf(c)' = {<<r, x>>} /\ c \notin requests'
      BY <1>3, <2>4, <3>1 DEF ReadyOf
    <3>3. devices[c] = 0 /\ ~(c > codes)
      BY <2>1, <3>1 DEF CodeHeld
    <3> QED
      BY <1>2, <2>2, <3>1, <3>2, <3>3 DEF CodeHeld, Outstanding, Single
  <2> QED
    BY <2>3, <2>4
<1>6. ASSUME NEW u \in Starters PROVE ClaimShown(u)'
  BY <1>1, <1>2, <1>4, SameClaim DEF LinkingInv
<1>7. NoteRead'
  BY <1>2 DEF LinkingInv, NoteRead
<1> QED
  BY <1>4, <1>5, <1>6, <1>7 DEF LinkingInv

\* Show: the app shows the claim its offer has.
LEMMA ShowKeeps ==
  ASSUME LinkingInv, NEW s \in Starters, Show(s)
  PROVE  LinkingInv'
<1>1. LinkingTypeOK
  BY DEF LinkingInv
<1>2. UNCHANGED <<offer, ready, requests, pairs, meant, devices, codes, note, readers>>
  BY DEF Show, KeepPairs
<1>3. offer[s].status = "claimed" /\ shown' = [shown EXCEPT ![s] = <<offer[s].code, offer[s].by>>]
  BY DEF Show
<1>4. <<offer[s].code, offer[s].by>> \in Claims
  BY <1>1 DEF LinkingTypeOK, Offers, Claims
<1>5. LinkingTypeOK'
  BY <1>1, <1>2, <1>3, <1>4 DEF LinkingTypeOK
<1>6. ASSUME NEW c \in Codes PROVE CodeHeld(c)'
  BY <1>2, FewerPlaces DEF LinkingInv, OfferedBy, ReadyOf, PairsOf
<1>7. ASSUME NEW u \in Starters PROVE ClaimShown(u)'
  <2>1. ClaimShown(u)
    BY DEF LinkingInv
  <2>2. CASE u # s
    BY <1>1, <1>2, <1>3, <1>5, <2>1, <2>2, SameClaim DEF LinkingTypeOK
  <2>3. CASE u = s
    <3>1. shown'[u] = <<offer[u].code, offer[u].by>>
      BY <1>1, <1>3, <2>3 DEF LinkingTypeOK
    <3> QED
      BY <1>2, <1>3, <2>1, <2>3, <3>1 DEF ClaimShown
  <2> QED
    BY <2>2, <2>3
<1>8. NoteRead'
  BY <1>2 DEF LinkingInv, NoteRead
<1> QED
  BY <1>5, <1>6, <1>7, <1>8 DEF LinkingInv

\* PollOffer, PollReady, PairClaim: a code is spent on its device, or gone.
LEMMA PollOfferKeeps ==
  ASSUME LinkingInv, NEW s \in Starters, NEW x \in Claimers, PollOffer(s, x)
  PROVE  LinkingInv'
<1> DEFINE k == offer[s].code
<1>1. LinkingTypeOK /\ NoOffer \in Offers /\ NoOffer.code = 0
  BY DEF LinkingInv, Offers, NoOffer
<1>2. UNCHANGED <<ready, requests, pairs, shown, meant, codes, note, readers>> /\ offer' = [offer EXCEPT ![s] = NoOffer]
  BY DEF PollOffer, KeepPairs, Redeemed
<1>3. devices' = devices \/ devices' = [devices EXCEPT ![k] = @ + 1]
  BY DEF PollOffer, Makes
<1>4. LinkingTypeOK'
  <2>1. devices' \in [Codes -> Nat]
    BY <1>1, <1>3 DEF LinkingTypeOK
  <2> QED
    BY <1>1, <1>2, <2>1 DEF LinkingTypeOK
<1>5. ASSUME NEW c \in Codes PROVE CodeHeld(c)'
  <2>1. CodeHeld(c) /\ c # 0
    BY DEF LinkingInv, Codes
  <2>2. ReadyOf(c)' = ReadyOf(c) /\ PairsOf(c)' = PairsOf(c)
    BY <1>2 DEF ReadyOf, PairsOf
  <2>3. OfferedBy(c)' = OfferedBy(c) \ {s}
    BY <1>1, <1>2, <2>1 DEF OfferedBy, LinkingTypeOK
  <2>4. CASE devices'[c] = devices[c]
    BY <1>2, <2>1, <2>2, <2>3, <2>4, FewerPlaces
  <2>5. CASE devices'[c] # devices[c]
    <3>1. c = k /\ devices'[c] = devices[c] + 1
      BY <1>1, <1>3, <2>5 DEF LinkingTypeOK
    <3>2. s \in OfferedBy(c)
      BY <3>1 DEF OfferedBy
    <3>3. ~Outstanding(c)'
      BY <1>2, <2>1, <2>2, <2>3, <3>2 DEF CodeHeld, Outstanding, Single
    <3> QED
      BY <1>2, <2>1, <3>1, <3>2, <3>3, DeviceMade DEF Outstanding
  <2> QED
    BY <2>4, <2>5
<1>6. ASSUME NEW u \in Starters PROVE ClaimShown(u)'
  <2>1. ClaimShown(u)
    BY DEF LinkingInv
  <2>2. offer'[u] = offer[u] \/ offer'[u] = NoOffer
    BY <1>1, <1>2 DEF LinkingTypeOK
  <2> QED
    BY <1>1, <1>2, <1>4, <2>1, <2>2, SameClaim, NoClaimShown
<1>7. NoteRead'
  BY <1>2 DEF LinkingInv, NoteRead
<1> QED
  BY <1>4, <1>5, <1>6, <1>7 DEF LinkingInv

\* The device that asked collects its token from the approved code.
LEMMA PollReadyKeeps ==
  ASSUME LinkingInv, NEW t \in ready, PollReady(t)
  PROVE  LinkingInv'
<1>1. LinkingTypeOK
  BY DEF LinkingInv
<1>2. UNCHANGED <<offer, requests, pairs, shown, meant, codes, note, readers>> /\ ready' = ready \ {t}
  BY DEF PollReady, KeepPairs
<1>3. devices' = [devices EXCEPT ![t[1]] = @ + 1]
  BY DEF PollReady, Makes
<1>4. LinkingTypeOK'
  <2>1. devices' \in [Codes -> Nat]
    BY <1>1, <1>3, OneMore DEF LinkingTypeOK
  <2> QED
    BY <1>1, <1>2, <2>1 DEF LinkingTypeOK
<1>5. ASSUME NEW c \in Codes PROVE CodeHeld(c)'
  <2>1. CodeHeld(c)
    BY DEF LinkingInv
  <2>2. OfferedBy(c)' = OfferedBy(c) /\ PairsOf(c)' = PairsOf(c) /\ ReadyOf(c)' = ReadyOf(c) \ {t}
    BY <1>2 DEF OfferedBy, ReadyOf, PairsOf
  <2>3. CASE c # t[1]
    <3>1. devices'[c] = devices[c]
      BY <1>1, <1>3, <2>3 DEF LinkingTypeOK
    <3> QED
      BY <1>2, <2>1, <2>2, <3>1, FewerPlaces
  <2>4. CASE c = t[1]
    <3>1. t \in ReadyOf(c) /\ devices'[c] = devices[c] + 1
      BY <1>1, <1>3, <2>4 DEF ReadyOf, LinkingTypeOK
    <3>2. Outstanding(c) /\ ~Outstanding(c)'
      BY <1>2, <2>1, <2>2, <3>1 DEF CodeHeld, Outstanding, Single
    <3> QED
      BY <1>2, <2>1, <3>1, <3>2, DeviceMade
  <2> QED
    BY <2>3, <2>4
<1>6. ASSUME NEW u \in Starters PROVE ClaimShown(u)'
  BY <1>1, <1>2, <1>4, SameClaim DEF LinkingInv
<1>7. NoteRead'
  BY <1>2 DEF LinkingInv, NoteRead
<1> QED
  BY <1>4, <1>5, <1>6, <1>7 DEF LinkingInv

\* The device that shows a pairing code collects its token.
LEMMA PairClaimKeeps ==
  ASSUME LinkingInv, NEW p \in pairs, PairClaim(p)
  PROVE  LinkingInv'
<1>1. LinkingTypeOK
  BY DEF LinkingInv
<1>2. UNCHANGED <<offer, ready, requests, shown, meant, codes, note, readers>> /\ pairs' = pairs \ {p}
  BY DEF PairClaim, PairsAre, KeepNote
<1>3. devices' = [devices EXCEPT ![p.code] = @ + 1]
  BY DEF PairClaim, Makes
<1>4. LinkingTypeOK'
  <2>1. devices' \in [Codes -> Nat]
    BY <1>1, <1>3, OneMore DEF LinkingTypeOK
  <2> QED
    BY <1>1, <1>2, <2>1 DEF LinkingTypeOK
<1>5. ASSUME NEW c \in Codes PROVE CodeHeld(c)'
  <2>1. CodeHeld(c)
    BY DEF LinkingInv
  <2>2. OfferedBy(c)' = OfferedBy(c) /\ ReadyOf(c)' = ReadyOf(c) /\ PairsOf(c)' = PairsOf(c) \ {p}
    BY <1>2 DEF OfferedBy, ReadyOf, PairsOf
  <2>3. CASE c # p.code
    <3>1. devices'[c] = devices[c]
      BY <1>1, <1>3, <2>3 DEF LinkingTypeOK
    <3> QED
      BY <1>2, <2>1, <2>2, <3>1, FewerPlaces
  <2>4. CASE c = p.code
    <3>1. p \in PairsOf(c) /\ devices'[c] = devices[c] + 1
      BY <1>1, <1>3, <2>4 DEF PairsOf, LinkingTypeOK
    <3>2. Outstanding(c) /\ ~Outstanding(c)'
      BY <1>2, <2>1, <2>2, <3>1 DEF CodeHeld, Outstanding, Single
    <3> QED
      BY <1>2, <2>1, <3>1, <3>2, DeviceMade
  <2> QED
    BY <2>3, <2>4
<1>6. ASSUME NEW u \in Starters PROVE ClaimShown(u)'
  BY <1>1, <1>2, <1>4, SameClaim DEF LinkingInv
<1>7. NoteRead'
  BY <1>2 DEF LinkingInv, NoteRead
<1> QED
  BY <1>4, <1>5, <1>6, <1>7 DEF LinkingInv

\* PairApprove: the pair of a code, approved, is the pair of that code.
LEMMA PairApproveKeeps ==
  ASSUME LinkingInv, NEW p \in pairs, PairApprove(p)
  PROVE  LinkingInv'
<1> DEFINE q == [p EXCEPT !.approved = TRUE]
<1>1. LinkingTypeOK
  BY DEF LinkingInv
<1>2. UNCHANGED <<offer, ready, requests, shown, meant, codes, note, readers, devices>> /\ pairs' = (pairs \ {p}) \cup {q}
  BY DEF PairApprove, PairsAre, KeepNote
<1>3. q \in [code : Nat, approved : BOOLEAN] /\ q.code = p.code
  BY <1>1 DEF LinkingTypeOK
<1> HIDE DEF q
<1>4. LinkingTypeOK'
  BY <1>1, <1>2, <1>3 DEF LinkingTypeOK
<1>5. ASSUME NEW c \in Codes PROVE CodeHeld(c)'
  <2>1. CodeHeld(c)
    BY DEF LinkingInv
  <2>2. OfferedBy(c)' = OfferedBy(c) /\ ReadyOf(c)' = ReadyOf(c)
    BY <1>2 DEF OfferedBy, ReadyOf
  <2>3. CASE c # p.code
    <3>1. PairsOf(c)' \subseteq PairsOf(c)
      BY <1>2, <1>3, <2>3 DEF PairsOf
    <3> QED
      BY <1>2, <2>1, <2>2, <3>1, FewerPlaces
  <2>4. CASE c = p.code
    <3>1. p \in PairsOf(c)
      BY <2>4 DEF PairsOf
    <3>2. PairsOf(c)' = {q}
      BY <1>2, <1>3, <2>1, <2>4, <3>1 DEF CodeHeld, PairsOf, Single
    <3> QED
      BY <1>2, <2>1, <2>2, <3>1, <3>2 DEF CodeHeld, Outstanding, Single
  <2> QED
    BY <2>3, <2>4
<1>6. ASSUME NEW u \in Starters PROVE ClaimShown(u)'
  BY <1>1, <1>2, <1>4, SameClaim DEF LinkingInv
<1>7. NoteRead'
  BY <1>2 DEF LinkingInv, NoteRead
<1> QED
  BY <1>4, <1>5, <1>6, <1>7 DEF LinkingInv

\* Rendezvous, LeaveNote, ReadNote: the note that was read is the only one.
LEMMA NoteKeeps ==
  ASSUME LinkingInv, Rendezvous \/ (\E x \in Claimers : LeaveNote(x)) \/ ReadNote
  PROVE  LinkingInv'
<1>1. UNCHANGED <<offer, ready, requests, pairs, shown, meant, devices, codes>>
  BY DEF Rendezvous, LeaveNote, ReadNote, KeepLinking
<1>2. NoteRead'
  BY DEF LinkingInv, NoteRead, Rendezvous, LeaveNote, FirstNote, ReadNote
<1>3. ASSUME NEW c \in Codes PROVE CodeHeld(c)'
  BY <1>1, FewerPlaces DEF LinkingInv, OfferedBy, ReadyOf, PairsOf
<1>4. LinkingTypeOK'
  BY <1>1 DEF LinkingInv, LinkingTypeOK
<1>5. ASSUME NEW u \in Starters PROVE ClaimShown(u)'
  BY <1>1, <1>4, SameClaim DEF LinkingInv
<1> QED
  BY <1>2, <1>3, <1>4, <1>5 DEF LinkingInv

\* Expires, Reboot: what is gone makes no device.
LEMMA GoneKeeps ==
  ASSUME LinkingInv, Expires \/ Reboot
  PROVE  LinkingInv'
<1>1. LinkingTypeOK /\ NoOffer \in Offers /\ NoOffer.code = 0
  BY DEF LinkingInv, Offers, NoOffer
<1>2. UNCHANGED <<shown, meant, devices, codes, readers>> /\ note' \in {note, "none"}
  BY DEF Expires, Reboot
<1>3. ready' \subseteq ready /\ requests' \subseteq requests /\ pairs' \subseteq pairs
  BY DEF Expires, Reboot
<1>4. offer' \in [Starters -> Offers] /\ \A s \in Starters : offer'[s] \in {offer[s], NoOffer}
  <2>1. \/ offer' = offer
        \/ \E s \in Starters : offer' = [offer EXCEPT ![s] = NoOffer]
        \/ offer' = [s \in Starters |-> NoOffer]
    BY DEF Expires, Reboot, OpenOffers
  <2> QED
    BY <1>1, <2>1 DEF LinkingTypeOK
<1>5. LinkingTypeOK'
  BY <1>1, <1>2, <1>3, <1>4 DEF LinkingTypeOK
<1>6. ASSUME NEW c \in Codes PROVE CodeHeld(c)'
  <2>1. CodeHeld(c) /\ c # 0
    BY DEF LinkingInv, Codes
  <2>2. OfferedBy(c)' \subseteq OfferedBy(c)
    BY <1>1, <1>4, <2>1 DEF OfferedBy
  <2>3. ReadyOf(c)' \subseteq ReadyOf(c) /\ PairsOf(c)' \subseteq PairsOf(c) /\ (c \in requests' => c \in requests)
    BY <1>3 DEF ReadyOf, PairsOf
  <2> QED
    BY <1>2, <2>1, <2>2, <2>3, FewerPlaces
<1>7. ASSUME NEW u \in Starters PROVE ClaimShown(u)'
  BY <1>1, <1>2, <1>4, <1>5, SameClaim, NoClaimShown DEF LinkingInv
<1>8. NoteRead'
  BY <1>2 DEF LinkingInv, NoteRead
<1> QED
  BY <1>5, <1>6, <1>7, <1>8 DEF LinkingInv

\* At the start no code was handed out.
LEMMA LinkingInitInv == LinkingInit => LinkingInv
<1> SUFFICES ASSUME LinkingInit PROVE LinkingInv
  OBVIOUS
<1>1. NoOffer \in Offers /\ NoOffer.code = 0 /\ NoOffer.status = "none" /\ NoClaim \in Claims /\ NoClaim[1] = 0
  BY DEF NoOffer, NoClaim, Offers, Claims
<1>2. LinkingTypeOK /\ NoteRead
  BY <1>1 DEF LinkingInit, LinkingTypeOK, NoteRead
<1>3. ASSUME NEW c \in Codes PROVE CodeHeld(c)
  <2>1. c # 0 /\ devices[c] = 0
    BY DEF Codes, LinkingInit
  <2>2. OfferedBy(c) = {} /\ ReadyOf(c) = {} /\ PairsOf(c) = {} /\ c \notin requests
    BY <1>1, <2>1 DEF LinkingInit, OfferedBy, ReadyOf, PairsOf
  <2> QED
    BY <2>1, <2>2 DEF CodeHeld, Outstanding, Single
<1>4. ASSUME NEW s \in Starters PROVE ClaimShown(s)
  BY <1>1 DEF LinkingInit, ClaimShown
<1> QED
  BY <1>2, <1>3, <1>4 DEF LinkingInv

\* Every step keeps the invariant.
LEMMA LinkingStepInv == LinkingInv /\ [LinkingNext]_linkingVars => LinkingInv'
<1> SUFFICES ASSUME LinkingInv, [LinkingNext]_linkingVars PROVE LinkingInv'
  OBVIOUS
<1>1. CASE \E s \in Starters : StartRequest(s)
  BY <1>1, StartKeeps
<1>2. CASE \E s \in Starters : (\E x \in Claimers : ClaimOffer(s, x)) \/ ApproveRequest(s) \/ Deny(s)
  BY <1>2, OfferGoesOn
<1>3. CASE \E s \in Starters : Show(s)
  BY <1>3, ShowKeeps
<1>4. CASE \E s \in Starters, x \in Claimers : PollOffer(s, x)
  BY <1>4, PollOfferKeeps
<1>5. CASE Preapprove \/ PairStart
  BY <1>5, HandOutKeeps
<1>6. CASE \E c \in Codes, x \in Claimers : ClaimRow(c, x)
  BY <1>6, ClaimRowKeeps
<1>7. CASE \E t \in ready : PollReady(t)
  BY <1>7, PollReadyKeeps
<1>8. CASE \E p \in pairs : PairApprove(p) \/ PairClaim(p)
  BY <1>8, PairApproveKeeps, PairClaimKeeps
<1>9. CASE Rendezvous \/ (\E x \in Claimers : LeaveNote(x)) \/ ReadNote
  BY <1>9, NoteKeeps
<1>10. CASE Expires \/ Reboot
  BY <1>10, GoneKeeps
<1>11. CASE UNCHANGED linkingVars
  <2>1. UNCHANGED <<offer, ready, requests, pairs, shown, meant, devices, codes, note, readers>>
    BY <1>11 DEF linkingVars
  <2>2. LinkingTypeOK' /\ NoteRead'
    BY <2>1 DEF LinkingInv, LinkingTypeOK, NoteRead
  <2>3. ASSUME NEW c \in Codes PROVE CodeHeld(c)'
    BY <2>1, FewerPlaces DEF LinkingInv, OfferedBy, ReadyOf, PairsOf
  <2>4. ASSUME NEW u \in Starters PROVE ClaimShown(u)'
    BY <2>1, <2>2, SameClaim DEF LinkingInv
  <2> QED
    BY <2>2, <2>3, <2>4 DEF LinkingInv
<1> QED
  BY <1>1, <1>2, <1>3, <1>4, <1>5, <1>6, <1>7, <1>8, <1>9, <1>10, <1>11 DEF LinkingNext

\* A code makes one device at most, an approval in force is for the claim that
\* was shown when it was tapped, and a rendezvous is read as one note (claim,
\* poll and activeOwn of link.js, pairing.js, rendezvous.js).
THEOREM LinkedOnce == LinkingSpec => []LinkedAsShown
<1>1. LinkingInv => LinkedAsShown
  <2> SUFFICES ASSUME LinkingInv PROVE LinkedAsShown
    OBVIOUS
  <2>1. \A c \in Codes : devices[c] <= 1
    BY DEF LinkingInv, CodeHeld
  <2>2. Cardinality(readers) <= 1
    <3>1. CASE readers = {}
      BY <3>1, FS_EmptySet
    <3>2. CASE readers # {}
      <4>1. PICK x : readers = {x}
        BY <3>2 DEF LinkingInv, NoteRead
      <4> QED
        BY <4>1, FS_Singleton
    <3> QED
      BY <3>1, <3>2
  <2>3. ApprovedAsShown
    BY DEF LinkingInv, ClaimShown, ApprovedAsShown
  <2> QED
    BY <2>1, <2>2, <2>3 DEF LinkedAsShown, CodesMakeOne
<1> QED
  BY <1>1, LinkingInitInv, LinkingStepInv, PTL DEF LinkingSpec

-----------------------------------------------------------------------------
(* SignIn: the inductive invariant. *)

CodeNames == (0..MaxSecrets) \X (1..(MaxSteps + MaxSecrets))
Factors == [secret : Nat, pending : Nat, step : Nat, recovery : Nat]

\* Of row f, with n numbers handed out: the secret that waits is another than
\* those in use, and none is newer than the newest.
FactorGood(f, n) ==
  /\ f \in Factors /\ n \in Nat
  /\ f.secret <= n /\ f.pending <= n /\ f.recovery <= n
  /\ f.pending # 0 => f.pending # f.secret /\ f.pending # f.recovery

\* Code <<a, b>> is not used yet: its secret waits, its step is to come, or
\* its set is new.
Fresh(f, n, a, b) ==
  \/ a > n
  \/ a # 0 /\ a = f.pending
  \/ a # 0 /\ a = f.secret /\ b > f.step
  \/ a = 0 /\ (b > n \/ b = f.recovery \/ b = f.pending)

\* A code was accepted once at most, and one not used yet never.
CodesGood(f, n, uses) ==
  /\ FactorGood(f, n) /\ uses \in [CodeNames -> Nat]
  /\ \A x \in CodeNames : uses[x] <= 1 /\ (Fresh(f, n, x[1], x[2]) => uses[x] = 0)

PasswordsGood ==
  /\ password \in Nat /\ basis \in [1..MaxPasswords -> Nat]
  /\ EachKnewTheLast

SignInInv == PasswordsGood /\ CodesGood(factor, secrets, accepted)

\* If no more codes are unused, nothing else is asked of the same uses.
LEMMA FewerFresh ==
  ASSUME NEW f, NEW n, NEW g, NEW m, NEW uses, CodesGood(f, n, uses), FactorGood(g, m),
         \A x \in CodeNames : Fresh(g, m, x[1], x[2]) => Fresh(f, n, x[1], x[2])
  PROVE  CodesGood(g, m, uses)
BY DEF CodesGood

\* A code not used yet may be accepted, if it is used then.
LEMMA CodeAccepted ==
  ASSUME NEW f, NEW n, NEW g, NEW x, CodesGood(f, n, accepted), FactorGood(g, n), Accept(x),
         x \in CodeNames => Fresh(f, n, x[1], x[2]) /\ ~Fresh(g, n, x[1], x[2]),
         \A y \in CodeNames : Fresh(g, n, y[1], y[2]) => Fresh(f, n, y[1], y[2])
  PROVE  CodesGood(g, n, accepted')
<1>1. accepted \in [CodeNames -> Nat]
  BY DEF CodesGood
<1>2. \A y \in CodeNames : accepted'[y] = IF y = x THEN accepted[y] + 1 ELSE accepted[y]
  BY <1>1 DEF Accept
<1>3. accepted' = [y \in CodeNames |-> accepted'[y]]
  BY <1>1 DEF Accept
<1>4. \A y \in CodeNames : accepted'[y] \in Nat
  BY <1>1, <1>2
<1>5. accepted' \in [CodeNames -> Nat]
  BY <1>3, <1>4
<1>6. ASSUME NEW y \in CodeNames
      PROVE  accepted'[y] <= 1 /\ (Fresh(g, n, y[1], y[2]) => accepted'[y] = 0)
  <2>1. accepted[y] \in Nat /\ accepted[y] <= 1 /\ (Fresh(f, n, y[1], y[2]) => accepted[y] = 0)
    BY DEF CodesGood
  <2>2. CASE y = x
    <3>1. Fresh(f, n, y[1], y[2]) /\ ~Fresh(g, n, y[1], y[2])
      BY <2>2
    <3>2. accepted'[y] = accepted[y] + 1
      BY <1>2, <2>2
    <3> QED
      BY <2>1, <3>1, <3>2
  <2>3. CASE y # x
    <3>1. accepted'[y] = accepted[y]
      BY <1>2, <2>3
    <3> QED
      BY <2>1, <3>1
  <2> QED
    BY <2>2, <2>3
<1> QED
  BY <1>5, <1>6 DEF CodesGood

\* The parts of a code's name.
LEMMA CodeParts ==
  ASSUME NEW x \in CodeNames
  PROVE  x[1] \in Nat /\ x[2] \in Nat /\ x[2] > 0
<1>1. x[1] \in 0..MaxSecrets /\ x[2] \in 1..(MaxSteps + MaxSecrets)
  BY DEF CodeNames
<1> QED
  BY <1>1

-----------------------------------------------------------------------------
(* SignIn: its actions on the second factor. *)

\* Verified: a step later than the last one, or a recovery code, then marked.
LEMMA VerifiedKeeps ==
  ASSUME CodesGood(factor, secrets, accepted), NEW f, Verified(f)
  PROVE  CodesGood(f, secrets, accepted')
<1>1. FactorGood(factor, secrets) /\ factor \in Factors /\ secrets \in Nat
  BY DEF CodesGood, FactorGood
<1>2. factor.secret \in Nat /\ factor.secret # 0 /\ factor.step \in Nat /\ factor.recovery \in Nat /\ factor.pending \in Nat
  BY <1>1 DEF Factors, Verified, HasFactor
<1>3. CASE \E s \in Steps : Later(s) /\ Accept(<<factor.secret, s>>) /\ f = [factor EXCEPT !.step = s]
  <2>1. PICK s \in Steps : s > factor.step /\ Accept(<<factor.secret, s>>) /\ f = [factor EXCEPT !.step = s]
    BY <1>3 DEF Later
  <2>2. s \in Nat
    BY DEF Steps
  <2>3. /\ f \in Factors /\ f.secret = factor.secret /\ f.pending = factor.pending
        /\ f.recovery = factor.recovery /\ f.step = s
    BY <1>1, <2>1, <2>2 DEF Factors
  <2>4. FactorGood(f, secrets)
    BY <1>1, <2>3 DEF FactorGood
  <2>5. Fresh(factor, secrets, factor.secret, s) /\ ~Fresh(f, secrets, factor.secret, s)
    BY <1>1, <1>2, <2>1, <2>2, <2>3 DEF Fresh, FactorGood
  <2>6. \A y \in CodeNames : Fresh(f, secrets, y[1], y[2]) => Fresh(factor, secrets, y[1], y[2])
    BY <1>2, <2>1, <2>2, <2>3, CodeParts DEF Fresh
  <2> QED
    BY <2>1, <2>4, <2>5, <2>6, CodeAccepted
<1>4. CASE factor.recovery # 0 /\ Accept(<<0, factor.recovery>>) /\ f = Marked
  <2>1. /\ f \in Factors /\ f.secret = factor.secret /\ f.pending = factor.pending
        /\ f.recovery = 0 /\ f.step = factor.step
    BY <1>1, <1>4 DEF Factors, Marked
  <2>2. FactorGood(f, secrets)
    BY <1>1, <2>1 DEF FactorGood
  <2>3. Fresh(factor, secrets, 0, factor.recovery) /\ ~Fresh(f, secrets, 0, factor.recovery)
    BY <1>1, <1>2, <1>4, <2>1 DEF Fresh, FactorGood
  <2>4. \A y \in CodeNames : Fresh(f, secrets, y[1], y[2]) => Fresh(factor, secrets, y[1], y[2])
    BY <1>2, <2>1, CodeParts DEF Fresh
  <2> QED
    BY <1>4, <2>2, <2>3, <2>4, CodeAccepted
<1> QED
  BY <1>3, <1>4 DEF Verified

\* BeginSetup: the secret that waits is new.
LEMMA SetupKeeps ==
  ASSUME NEW f, NEW uses, CodesGood(f, secrets, uses), BeginSetup(f)
  PROVE  CodesGood(factor', secrets', uses)
<1>1. FactorGood(f, secrets) /\ f \in Factors /\ secrets \in Nat /\ secrets' = secrets + 1
  BY DEF CodesGood, FactorGood, BeginSetup
<1>2. /\ factor' \in Factors /\ factor'.secret = f.secret /\ factor'.pending = secrets'
      /\ factor'.recovery = f.recovery /\ factor'.step = f.step
  BY <1>1 DEF BeginSetup, Factors
<1>3. f.secret \in Nat /\ f.recovery \in Nat /\ f.pending \in Nat /\ f.step \in Nat
  BY <1>1 DEF Factors
<1>4. FactorGood(factor', secrets')
  BY <1>1, <1>2, <1>3 DEF FactorGood
<1>5. ASSUME NEW y \in CodeNames, Fresh(factor', secrets', y[1], y[2])
      PROVE  Fresh(f, secrets, y[1], y[2])
  BY <1>1, <1>2, <1>3, <1>5, CodeParts DEF Fresh
<1> QED
  BY <1>4, <1>5, FewerFresh

\* FinishSetup: the first code of the secret that waited.
LEMMA FinishKeeps ==
  ASSUME CodesGood(factor, secrets, accepted), FinishSetup
  PROVE  CodesGood(factor', secrets', accepted')
<1>1. FactorGood(factor, secrets) /\ factor \in Factors /\ secrets \in Nat /\ secrets' = secrets /\ factor.pending # 0
  BY DEF CodesGood, FactorGood, FinishSetup
<1>2. PICK s \in Steps : /\ Accept(<<factor.pending, s>>)
                         /\ factor' = [secret |-> factor.pending, pending |-> 0, step |-> s, recovery |-> factor.pending]
  BY DEF FinishSetup
<1>3. s \in Nat /\ factor.pending \in Nat /\ factor.secret \in Nat /\ factor.recovery \in Nat
  BY <1>1 DEF Steps, Factors
<1>4. /\ factor' \in Factors /\ factor'.secret = factor.pending /\ factor'.pending = 0
      /\ factor'.recovery = factor.pending /\ factor'.step = s
  BY <1>2, <1>3 DEF Factors
<1>5. FactorGood(factor', secrets)
  BY <1>1, <1>3, <1>4 DEF FactorGood
<1>6. Fresh(factor, secrets, factor.pending, s) /\ ~Fresh(factor', secrets, factor.pending, s)
  BY <1>1, <1>3, <1>4 DEF Fresh, FactorGood
<1>7. ASSUME NEW y \in CodeNames, Fresh(factor', secrets, y[1], y[2])
      PROVE  Fresh(factor, secrets, y[1], y[2])
  BY <1>1, <1>3, <1>4, <1>7, CodeParts DEF Fresh
<1> QED
  BY <1>1, <1>2, <1>5, <1>6, <1>7, CodeAccepted

\* NewCodes: a set of codes that is new.
LEMMA NewCodesKeep ==
  ASSUME NEW f, NEW uses, CodesGood(f, secrets, uses),
         secrets' = secrets + 1, factor' = [f EXCEPT !.recovery = secrets']
  PROVE  CodesGood(factor', secrets', uses)
<1>1. FactorGood(f, secrets) /\ f \in Factors /\ secrets \in Nat
  BY DEF CodesGood, FactorGood
<1>2. /\ factor' \in Factors /\ factor'.secret = f.secret /\ factor'.pending = f.pending
      /\ factor'.recovery = secrets' /\ factor'.step = f.step
  BY <1>1 DEF Factors
<1>3. f.secret \in Nat /\ f.recovery \in Nat /\ f.pending \in Nat /\ f.step \in Nat
  BY <1>1 DEF Factors
<1>4. FactorGood(factor', secrets')
  BY <1>1, <1>2, <1>3 DEF FactorGood
<1>5. ASSUME NEW y \in CodeNames, Fresh(factor', secrets', y[1], y[2])
      PROVE  Fresh(f, secrets, y[1], y[2])
  BY <1>1, <1>2, <1>3, <1>5, CodeParts DEF Fresh
<1> QED
  BY <1>4, <1>5, FewerFresh

\* Disabled: of a row that is gone no code is good.
LEMMA NoFactorKeeps ==
  ASSUME NEW f, NEW uses, CodesGood(f, secrets, uses)
  PROVE  CodesGood([secret |-> 0, pending |-> 0, step |-> 0, recovery |-> 0], secrets, uses)
<1> DEFINE g == [secret |-> 0, pending |-> 0, step |-> 0, recovery |-> 0]
<1>1. g \in Factors /\ g.secret = 0 /\ g.pending = 0 /\ g.recovery = 0
  BY DEF Factors
<1> HIDE DEF g
<1>2. secrets \in Nat
  BY DEF CodesGood, FactorGood
<1>3. FactorGood(g, secrets)
  BY <1>1, <1>2 DEF FactorGood
<1>4. ASSUME NEW y \in CodeNames, Fresh(g, secrets, y[1], y[2])
      PROVE  Fresh(f, secrets, y[1], y[2])
  BY <1>1, <1>2, <1>4, CodeParts DEF Fresh
<1>5. CodesGood(g, secrets, uses)
  BY <1>3, <1>4, FewerFresh
<1> QED
  BY <1>5 DEF g

\* What a request that gives its password may also have to give.
LEMMA ConfirmsKeeps ==
  ASSUME CodesGood(factor, secrets, accepted), NEW j, NEW f, Confirms(j, f)
  PROVE  CodesGood(f, secrets, accepted')
BY VerifiedKeeps DEF Confirms

\* Every step keeps what is known of the codes.
LEMMA CodesStep ==
  ASSUME CodesGood(factor, secrets, accepted), SignInNext
  PROVE  CodesGood(factor', secrets', accepted')
<1>1. CASE KeepFactor
  BY <1>1 DEF KeepFactor
<1>2. CASE FinishSetup
  BY <1>2, FinishKeeps
<1>3. CASE UNCHANGED secrets /\ Verified(factor')
  BY <1>3, VerifiedKeeps
<1>4. CASE \E j \in Requests : SetupConfirmed(j)
  BY <1>4, ConfirmsKeeps, SetupKeeps DEF SetupConfirmed
<1>5. CASE \E j \in Requests : Disabled(j)
  BY <1>5, ConfirmsKeeps, NoFactorKeeps DEF Disabled
<1>6. CASE \E j \in Requests : NewCodes(j)
  BY <1>6, ConfirmsKeeps, NewCodesKeep DEF NewCodes
<1>7. CASE LoginSetup
  BY <1>7, SetupKeeps DEF LoginSetup
<1>8. CASE LoginCode \/ LoginEnrols \/ EnableFactor
  BY <1>1, <1>2, <1>3, <1>8 DEF LoginCode, LoginEnrols, EnableFactor
<1>9. CASE \E j \in Requests : \/ Changed(j) \/ Email(j) \/ EmailSet(j) \/ TakeLink(j) \/ Reset(j) \/ Refused(j)
                               \/ \E what \in {"setup", "disable", "codes"} : Confirm(j, what)
                               \/ \E a \in apps, others \in BOOLEAN : Change(j, a, others)
  <2>1. KeepFactor
    BY <1>9 DEF Changed, Email, EmailSet, TakeLink, Reset, Refused, Confirm, Change, OnlyBegins, KeepAllBut
  <2> QED
    BY <1>1, <2>1
<1>10. CASE SendLink \/ LinkExpires \/ (\E a \in apps : SignOut(a)) \/ Login \/ (\E t \in tickets : TicketExpires(t))
  <2>1. KeepFactor
    BY <1>10 DEF SendLink, LinkExpires, SignOut, Login, TicketExpires, KeepAllBut
  <2> QED
    BY <1>1, <2>1
<1> QED
  BY <1>2, <1>4, <1>5, <1>6, <1>7, <1>8, <1>9, <1>10 DEF SignInNext

-----------------------------------------------------------------------------
(* SignIn: its actions on the password. *)

\* Choose, by whoever knew the password in force.
LEMMA ChooseKeeps ==
  ASSUME PasswordsGood, Choose(password)
  PROVE  PasswordsGood'
<1>1. password \in Nat /\ basis \in [1..MaxPasswords -> Nat] /\ password' = password + 1 /\ MaxPasswords \in Nat
      /\ password < MaxPasswords /\ basis' = [basis EXCEPT ![password'] = password]
  BY SignInAssumption DEF PasswordsGood, Choose
<1>2. password' \in 1..MaxPasswords
  BY <1>1
<1>3. basis' \in [1..MaxPasswords -> Nat] /\ password' \in Nat
  BY <1>1
<1>4. ASSUME NEW p \in 2..password' PROVE basis'[p] = p - 1
  <2>1. CASE p = password'
    <3>1. basis'[p] = password
      BY <1>1, <1>2, <2>1
    <3> QED
      BY <1>1, <2>1, <3>1
  <2>2. CASE p # password'
    <3>1. p \in 2..password /\ basis'[p] = basis[p]
      BY <1>1, <1>2, <2>2
    <3> QED
      BY <3>1 DEF PasswordsGood, EachKnewTheLast
  <2> QED
    BY <2>1, <2>2
<1> QED
  BY <1>3, <1>4 DEF PasswordsGood, EachKnewTheLast

\* Every step keeps what is known of the passwords.
LEMMA PasswordsStep ==
  ASSUME PasswordsGood, SignInNext
  PROVE  PasswordsGood'
<1>1. CASE UNCHANGED <<password, basis>>
  BY <1>1 DEF PasswordsGood, EachKnewTheLast
<1>2. CASE Choose(password)
  BY <1>2, ChooseKeeps
<1>3. CASE \E j \in Requests : Changed(j) \/ Reset(j)
  BY <1>1, <1>2, <1>3 DEF Changed, Reset, AsVerified, SameAccount, KeepUser
<1>4. CASE \E j \in Requests : \/ Email(j) \/ EmailSet(j) \/ TakeLink(j) \/ SetupConfirmed(j) \/ Disabled(j)
                               \/ NewCodes(j) \/ Refused(j)
                               \/ \E what \in {"setup", "disable", "codes"} : Confirm(j, what)
                               \/ \E a \in apps, others \in BOOLEAN : Change(j, a, others)
  <2>1. UNCHANGED <<password, basis>>
    BY <1>4 DEF Email, EmailSet, TakeLink, SetupConfirmed, Disabled, NewCodes, Refused, Confirm, Change, Confirms,
                OnlyBegins, KeepAllBut, KeepAccount, KeepUser
  <2> QED
    BY <1>1, <2>1
<1>5. CASE SendLink \/ LinkExpires \/ (\E a \in apps : SignOut(a)) \/ (\E t \in tickets : TicketExpires(t))
           \/ Login \/ LoginCode \/ LoginSetup \/ LoginEnrols \/ EnableFactor
  <2>1. UNCHANGED <<password, basis>>
    BY <1>5 DEF SendLink, LinkExpires, SignOut, TicketExpires, Login, LoginCode, LoginSetup, LoginEnrols, EnableFactor,
                KeepAllBut, KeepAccount, KeepUser
  <2> QED
    BY <1>1, <2>1
<1> QED
  BY <1>3, <1>4, <1>5 DEF SignInNext

\* At the start one password is in force and no code was handed out.
LEMMA SignInInitInv == SignInInit => SignInInv
<1> SUFFICES ASSUME SignInInit PROVE SignInInv
  OBVIOUS
<1>1. PasswordsGood
  BY DEF SignInInit, PasswordsGood, EachKnewTheLast
<1>2. FactorGood(factor, secrets)
  BY DEF SignInInit, FactorGood, Factors
<1>3. accepted \in [CodeNames -> Nat] /\ \A x \in CodeNames : accepted[x] = 0
  BY DEF SignInInit, CodeNames
<1> QED
  BY <1>1, <1>2, <1>3 DEF SignInInv, CodesGood

\* Whoever chose a password knew the one before it, and no code is accepted
\* twice (changePassword and resetPassword of auth.js and password-reset.js,
\* matchTotp and the recovery codes of two-factor.js).
THEOREM NothingCountsTwice == SignInSpec => []SignInHolds
<1>1. SignInInv /\ [SignInNext]_signInVars => SignInInv'
  <2> SUFFICES ASSUME SignInInv, [SignInNext]_signInVars PROVE SignInInv'
    OBVIOUS
  <2>1. CASE SignInNext
    BY <2>1, CodesStep, PasswordsStep DEF SignInInv
  <2>2. CASE UNCHANGED signInVars
    BY <2>2 DEF signInVars, SignInInv, PasswordsGood, EachKnewTheLast
  <2> QED
    BY <2>1, <2>2
<1>2. SignInInv => SignInHolds
  BY DEF SignInInv, PasswordsGood, CodesGood, SignInHolds, CodesOnce
<1> QED
  BY <1>1, <1>2, SignInInitInv, PTL DEF SignInSpec
=============================================================================
