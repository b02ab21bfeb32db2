-------------------------- MODULE BlobTranscripts ---------------------------
(* Transcripts of uploaded audio: the status kept in the row of a blob, the  *)
(* queue and the jobs in memory with their limits, what asks for one (an     *)
(* upload, a retry, the boot) and who waits for it (blob-transcripts.js).    *)
EXTENDS Integers, Sequences, FiniteSets

CONSTANTS
  Notes,     \* blobs
  Owner,     \* the user of each
  Slots,     \* transcriber.concurrency
  QueueMax,  \* maxQueued
  UserMax,   \* maxQueuedPerUser
  AskedMax,  \* recoverMaxAgeMs, in ticks
  MaxStarts   \* bound: restarts

ASSUME TranscriptAssumption ==
  /\ IsFiniteSet(Notes)
  /\ Slots \in Nat \ {0} /\ QueueMax \in Nat /\ UserMax \in Nat
  /\ AskedMax \in Nat /\ MaxStarts \in Nat

VARIABLES
  status,  \* transcript_status; "none" before it is asked for, "gone" without the row
  asked,   \* transcript_asked_at: ticks since then
  line,    \* the queue
  busy,    \* the notes the transcriber has
  job,     \* jobs: the notes with a promise
  count,   \* perUser
  waits,   \* notes somebody waits for
  mode,    \* "up", "closing", "down"
  boots,
  unwritten \* history: pending notes whose outcome could not be written

transcriptVars == <<status, asked, line, busy, job, count, waits, mode, boots, unwritten>>

Users == {Owner[n] : n \in Notes}

TranscriptsInit ==
  /\ status = [n \in Notes |-> "gone"] /\ asked = [n \in Notes |-> 0]
  /\ line = <<>> /\ busy = {} /\ job = {} /\ waits = {}
  /\ count = [u \in Users |-> 0] /\ mode = "up" /\ boots = 0 /\ unwritten = {}

QueueLength == Len(line) + Cardinality(busy)

\* full.  Slip: only what waits is counted.
FullLine(l, b, c, u) == Len(l) >= QueueMax \/ c[u] >= UserMax
Full(l, b, c, u) == Len(l) + Cardinality(b) >= QueueMax \/ c[u] >= UserMax

\* pump, after a change: the first of the queue are taken up as there are slots.
\* A note whose row is gone settles at once, but it takes its turn.
Taken(l, b) ==
  LET n == Slots - Cardinality(b) IN IF n < Len(l) THEN n ELSE Len(l)
Pump(l, b) ==
  /\ line' = SubSeq(l, Taken(l, b) + 1, Len(l))
  /\ busy' = b \cup {l[i] : i \in 1 .. Taken(l, b)}

\* enqueue.
Enqueue(n) ==
  /\ job' = job \cup {n}
  /\ count' = [count EXCEPT ![Owner[n]] = @ + 1]
  /\ Pump(Append(line, n), busy)

----------------------------------------------------------------------------
\* POST /media: the row, and start.
AskAtUpload(n) ==
  /\ mode = "up" /\ status[n] = "gone" /\ n \notin job
  /\ IF Full(line, busy, count, Owner[n])
     THEN status' = [status EXCEPT ![n] = "none"] /\ UNCHANGED <<asked, line, busy, job, count>>
     ELSE /\ status' = [status EXCEPT ![n] = "pending"]
          /\ asked' = [asked EXCEPT ![n] = 0]
          /\ Enqueue(n)
  /\ UNCHANGED <<waits, mode, boots, unwritten>>

\* retry: a note never asked for, one that failed, or one that is pending and
\* has no job.  Slip: any that is not done.
NotDone(n) == status[n] \in {"none", "failed", "pending"}
Askable(n) == status[n] \in {"none", "failed"} \/ (status[n] = "pending" /\ n \notin job)
AskAgain(n) ==
  /\ mode = "up" /\ Askable(n) /\ ~Full(line, busy, count, Owner[n])
  /\ status' = [status EXCEPT ![n] = "pending"]
  /\ asked' = [asked EXCEPT ![n] = 0]
  /\ Enqueue(n) /\ unwritten' = unwritten \ {n}
  /\ UNCHANGED <<waits, mode, boots>>

\* wait: the answer, once the job settles.
WaitForNote(n) ==
  /\ mode = "up" /\ n \in job /\ n \notin waits
  /\ waits' = waits \cup {n}
  /\ UNCHANGED <<status, asked, line, busy, job, count, mode, boots, unwritten>>

\* runJob ends: setDone, setFailed, or nothing when the row is gone, the
\* journal is closing or the write fails; then the job settles, and the next one is taken.
\* Slips: what was reaped meanwhile keeps its place; nobody is told.
Endings == {"done", "failed", "pending"}
Settles(s, n, outcome) ==
  IF s[n] = "pending" /\ mode = "up" THEN [s EXCEPT ![n] = outcome] ELSE s
PlaceKept(n) == IF status[n] = "gone" THEN count ELSE [count EXCEPT ![Owner[n]] = @ - 1]
PlaceFreed(n) == [count EXCEPT ![Owner[n]] = @ - 1]
JobEnds(n, outcome) ==
  /\ mode # "down" /\ n \in busy
  /\ status' = Settles(status, n, outcome)
  /\ unwritten' = IF status'[n] = "pending" THEN unwritten \cup {n} ELSE unwritten
  /\ count' = PlaceFreed(n) /\ job' = job \ {n} /\ waits' = waits \ {n}
  /\ IF mode = "up" THEN Pump(line, busy \ {n})
     ELSE busy' = busy \ {n} /\ UNCHANGED line
  /\ UNCHANGED <<asked, mode, boots>>

\* A pass of retention deletes the blob with its row.
ReapNote(n) ==
  /\ mode = "up" /\ status[n] # "gone"
  /\ status' = [status EXCEPT ![n] = "gone"] /\ unwritten' = unwritten \ {n}
  /\ UNCHANGED <<asked, line, busy, job, count, waits, mode, boots>>

\* close: what never started is settled as it stands.  Slip: it is left.
LeaveLine == <<line, waits, job>>
SettleLine ==
  LET l == {line[i] : i \in DOMAIN line} IN <<<<>>, waits \ l, job \ l>>
CloseTranscripts ==
  /\ mode = "up" /\ mode' = "closing"
  /\ line' = SettleLine[1] /\ waits' = SettleLine[2] /\ job' = SettleLine[3]
  /\ UNCHANGED <<status, asked, busy, count, boots, unwritten>>

\* The process ends, closed or not: whoever waited has lost the connection.
Exit ==
  /\ mode # "down" /\ boots < MaxStarts /\ mode' = "down"
  /\ line' = <<>> /\ busy' = {} /\ job' = {} /\ waits' = {}
  /\ count' = [u \in Users |-> 0] /\ unwritten' = {}
  /\ UNCHANGED <<status, asked, boots>>

\* recover: pending rows in the order they were asked for; one asked for too
\* long ago, or more than there is room for, fails.
RoomFor(s, u) == ~(Len(s.line) >= QueueMax \/ s.count[u] >= UserMax)
RecoverOne(s, n) ==
  IF asked[n] > AskedMax \/ ~RoomFor(s, Owner[n])
  THEN [s EXCEPT !.status[n] = "failed"]
  ELSE [s EXCEPT !.line = Append(@, n), !.count[Owner[n]] = @ + 1]

Orders == {o \in [1 .. Cardinality(Notes) -> Notes] : \A i, j \in DOMAIN o :
             /\ i # j => o[i] # o[j]
             /\ i < j => asked[o[i]] >= asked[o[j]]}
Requeued(order) ==
  LET s[i \in 0 .. Cardinality(Notes)] ==
        IF i = 0 THEN [status |-> status, line |-> <<>>, count |-> count]
        ELSE IF status[order[i]] = "pending" THEN RecoverOne(s[i - 1], order[i]) ELSE s[i - 1]
  IN s[Cardinality(Notes)]
BootTranscripts ==
  /\ mode = "down" /\ mode' = "up" /\ boots' = boots + 1
  /\ \E order \in Orders :
       LET s == Requeued(order)
       IN /\ status' = s.status /\ count' = s.count
          /\ job' = {s.line[i] : i \in DOMAIN s.line}
          /\ Pump(s.line, {})
  /\ UNCHANGED <<asked, waits, unwritten>>

TimePasses ==
  /\ \E n \in Notes : status[n] = "pending" /\ asked[n] <= AskedMax
  /\ asked' = [n \in Notes |-> IF status[n] = "pending" /\ asked[n] <= AskedMax THEN asked[n] + 1 ELSE asked[n]]
  /\ UNCHANGED <<status, line, busy, job, count, waits, mode, boots, unwritten>>

TranscriptsNext ==
  \/ \E n \in Notes : AskAtUpload(n) \/ AskAgain(n) \/ WaitForNote(n) \/ ReapNote(n) \/ \E outcome \in Endings : JobEnds(n, outcome)
  \/ CloseTranscripts \/ Exit \/ BootTranscripts \/ TimePasses

----------------------------------------------------------------------------
\* While the journal runs, a pending row has exactly one job, so that it will
\* be settled and its audio is paid for once; only one whose outcome could not
\* be written has none, and it can be asked for again.  The limits hold whatever was
\* reaped, retried or taken over from the process before, and nobody waits
\* (wait, inFlight) for a job that will not run.
TranscriptsInHand ==
  /\ mode = "up" => \A n \in Notes : status[n] = "pending" => n \in job \/ (n \in unwritten /\ Askable(n))
  /\ \A n \in Notes : Cardinality({i \in DOMAIN line : line[i] = n}) + (IF n \in busy THEN 1 ELSE 0)
                        = IF n \in job THEN 1 ELSE 0
  /\ QueueLength <= QueueMax
  /\ mode = "up" => \A u \in Users : count[u] <= UserMax /\ count[u] = Cardinality({n \in job : Owner[n] = u})
  /\ waits \subseteq IF mode = "up" THEN job ELSE busy
=============================================================================
