---------------------------- MODULE FilesProofs ----------------------------
(***************************************************************************)
(* Proofs about the files agents write (FileWrites), the index of messages *)
(* (MessageIndex) and the transcripts of audio (BlobTranscripts), each     *)
(* with an inductive invariant of its own; and, with KeepingProofs, about  *)
(* the eight parts side by side (MCKeeping).                               *)
(***************************************************************************)
EXTENDS KeepingProofs, MCKeeping, TLAPS

-----------------------------------------------------------------------------
(* FileWrites: the inductive invariant. *)

Stages == {"idle", "streaming", "backed", "checked", "linking", "linked",
           "trashing", "reserved", "copied", "installed", "over"}
JobRows == [kind : {"none", "write", "move", "delete"}, over : BOOLEAN, stat : Nat, new : Nat,
            seen : Nat, dest : Names, pc : Stages, end : {"none", "done", "failed"}]

FilesTypeOK ==
  /\ at \in [Names -> 0 .. fresh]
  /\ data \in [1 .. Inodes -> Nat]
  /\ fresh \in 1 .. Inodes
  /\ outside \in Nat
  /\ jobs \in [Jobs -> JobRows]
  /\ cpu \in Jobs \cup {"none"}
  /\ dead \in BOOLEAN
  /\ 0 \notin owed

\* What follows speaks of a job f of number j, the inodes a at the names and
\* their data d, the last number given out and the contents of the window.
Clean(a, j) == a[Tmp(j)] = 0 /\ a[Trash(j)] = 0

Writing(f, a, d, j, top) ==
  /\ f.kind = "write" /\ f.end = "none"
  /\ f.new \in 1 .. top /\ d[f.new] # 0 /\ a[Tmp(j)] = f.new
  /\ f.stat \in 0 .. top /\ (f.over \/ f.stat = 0)

Taking(f, a, j, top) ==
  /\ f.kind \in {"move", "delete"} /\ f.end = "none"
  /\ f.stat \in 1 .. top
  /\ f.kind = "move" => f.dest = B /\ a[Trash(j)] = 0
  /\ f.kind = "delete" => f.dest = Trash(j)

\* A move or a delete that has its destination; in the trash nobody else
\* takes it.
Holding(f, a, j, top) ==
  /\ Taking(f, a, j, top)
  /\ f.new \in 1 .. top
  /\ f.kind = "delete" => a[Trash(j)] = f.new

\* What the commit will take from A is the file of the last look, or was
\* stored after it.
Replaceable(f, a, d, w) == f.stat = 0 \/ a[A] \in {0, f.stat} \/ d[a[A]] \in w
Removable(f, a, d, w) == a[A] = 0 \/ d[a[A]] = d[f.new] \/ d[a[A]] \in w

Fits(f, a, d, j, top, w) ==
  /\ f.pc = "idle" => Clean(a, j) /\ f.end = "none"
  /\ f.pc = "over" /\ f.end = "failed" => Clean(a, j)
  /\ f.pc = "streaming" => Writing(f, a, d, j, top) /\ a[Trash(j)] = 0
  /\ f.pc = "backed" => Writing(f, a, d, j, top) /\ a[Trash(j)] = f.stat /\ f.stat # 0
  /\ f.pc = "checked" /\ f.kind = "write" =>
       Writing(f, a, d, j, top) /\ a[Trash(j)] = f.stat /\ Replaceable(f, a, d, w)
  /\ f.pc = "linking" => Taking(f, a, j, top) /\ Clean(a, j) /\ f.kind = "move" /\ f.stat = f.new
  /\ f.pc = "trashing" => Taking(f, a, j, top) /\ Clean(a, j) /\ f.kind = "delete"
  /\ f.pc = "linked" =>
       Holding(f, a, j, top) /\ f.kind = "move" /\ a[Tmp(j)] = 0 /\ a[B] = f.new /\ f.stat = f.new
  /\ f.pc = "reserved" => Holding(f, a, j, top) /\ a[Tmp(j)] = 0
  /\ f.pc = "copied" =>
       Holding(f, a, j, top) /\ a[Tmp(j)] # 0 /\ a[A] # a[Tmp(j)] /\ d[a[Tmp(j)]] = f.seen
  /\ f.pc = "installed" =>
       Holding(f, a, j, top) /\ a[Tmp(j)] = 0 /\ a[f.dest] = f.new /\ a[A] # f.new /\ d[f.new] = f.seen
  /\ f.pc = "checked" /\ f.kind # "write" =>
       Holding(f, a, j, top) /\ a[Tmp(j)] = 0 /\ a[f.dest] = f.new /\ Removable(f, a, d, w)

\* A job between its checks and its commit, of which there is one at a time.
Busy(f) == f.pc \notin {"idle", "streaming", "over"}
OneRuns == ~dead => \A j \in Jobs : Busy(jobs[j]) => cpu = j

\* The names a failing job may take away: what is stored is not in them alone.
Loose(f, a, j, n) ==
  \/ n = Tmp(j)
  \/ f.pc \in {"backed", "checked"} /\ f.kind = "write" /\ n = Trash(j)
  \/ f.pc \in {"linked", "reserved", "copied", "installed", "checked"} /\ f.kind # "write"
       /\ n = f.dest /\ a[n] = f.new

Held(c, a, d, J) == \E n \in Names :
  a[n] # 0 /\ d[a[n]] = c /\ \A j \in Jobs : ~Loose(J[j], a, j, n)
StaysStored == \A c \in owed \ (window \cup blind) : Held(c, at, data, jobs)

FilesInv ==
  /\ FilesTypeOK /\ OneRuns
  /\ \A j \in Jobs : Fits(jobs[j], at, data, j, fresh, window)
  /\ StaysStored

\* No two of the names are one.
LEMMA NamesDiffer ==
  ASSUME NEW j \in Jobs
  PROVE  /\ Tmp(j) \in Names /\ Trash(j) \in Names /\ A \in Names /\ B \in Names /\ A # B
         /\ Tmp(j) \notin Paths /\ Trash(j) \notin Paths /\ A \in Paths /\ B \in Paths
         /\ \A k \in Jobs : Trash(j) # Tmp(k) /\ (k # j => Tmp(j) # Tmp(k) /\ Trash(j) # Trash(k))
<1>1. A[1] = "A" /\ B[1] = "B" /\ A # B /\ Len(A) = 1 /\ Len(B) = 1
  BY DEF A, B
<1>2. \A k \in Jobs : /\ Tmp(k)[1] = "tmp" /\ Tmp(k)[2] = k
                      /\ Trash(k)[1] = "trash" /\ Trash(k)[2] = k
  BY DEF Tmp, Trash
<1>3. \A k \in Jobs : Trash(j) # Tmp(k) /\ (k # j => Tmp(j) # Tmp(k) /\ Trash(j) # Trash(k))
  BY <1>2
<1>4. Tmp(j) # A /\ Tmp(j) # B /\ Trash(j) # A /\ Trash(j) # B
  BY <1>1, <1>2
<1>5. Tmp(j) \in Names /\ Trash(j) \in Names /\ A \in Names /\ B \in Names
  BY DEF Names, Paths
<1> QED
  BY <1>1, <1>3, <1>4, <1>5 DEF Paths

\* What is stored is at a name that nobody takes away.
LEMMA StoredIsHeld ==
  ASSUME FilesInv, NEW c \in owed \ (window \cup blind)
  PROVE  \E n \in Names : /\ at[n] \in 1 .. fresh /\ data[at[n]] = c
                          /\ \A k \in Jobs : n # Tmp(k) /\ ~Loose(jobs[k], at, k, n)
<1>1. PICK n \in Names : at[n] # 0 /\ data[at[n]] = c /\ \A k \in Jobs : ~Loose(jobs[k], at, k, n)
  BY DEF FilesInv, StaysStored, Held
<1>2. at[n] \in 1 .. fresh
  BY <1>1 DEF FilesInv, FilesTypeOK
<1>3. \A k \in Jobs : n # Tmp(k)
  BY <1>1 DEF Loose
<1> QED
  BY <1>1, <1>2, <1>3

\* A step of one job leaves the others, which are at rest, as they were.
LEMMA OthersStand ==
  ASSUME FilesInv, NEW j \in Jobs, NEW k \in Jobs \ {j}, ~dead, cpu \in {"none", j}, FilesTypeOK',
         fresh <= fresh',
         jobs'[k] = jobs[k], at'[Tmp(k)] = at[Tmp(k)], at'[Trash(k)] = at[Trash(k)],
         \A i \in 1 .. fresh : data'[i] = data[i]
  PROVE  /\ ~Busy(jobs[k])
         /\ Fits(jobs'[k], at', data', k, fresh', window')
         /\ \A n : Loose(jobs'[k], at', k, n) => n = Tmp(k)
<1>1. ~Busy(jobs[k])
  BY FileWritesAssumption DEF FilesInv, OneRuns
<1>2. jobs[k].pc \in {"idle", "streaming", "over"}
  BY <1>1 DEF Busy
<1>3. Fits(jobs[k], at, data, k, fresh, window)
  BY DEF FilesInv
<1>4. Clean(at, k) => Clean(at', k)
  BY DEF Clean
<1>5. Writing(jobs[k], at, data, k, fresh) => Writing(jobs[k], at', data', k, fresh')
  BY DEF Writing, FilesInv, FilesTypeOK
<1>6. Fits(jobs'[k], at', data', k, fresh', window')
  BY <1>2, <1>3, <1>4, <1>5 DEF Fits
<1> QED
  BY <1>1, <1>2, <1>6 DEF Loose

LEMMA JobStep ==
  ASSUME FilesInv, NEW j \in Jobs, ~dead, cpu \in {"none", j}, dead' = dead, FilesTypeOK',
         fresh <= fresh',
         \A k \in Jobs \ {j} : /\ jobs'[k] = jobs[k]
                               /\ at'[Tmp(k)] = at[Tmp(k)] /\ at'[Trash(k)] = at[Trash(k)],
         \A i \in 1 .. fresh : data'[i] = data[i],
         Busy(jobs'[j]) => cpu' = j,
         Fits(jobs'[j], at', data', j, fresh', window'),
         \A c \in owed' \ (window' \cup blind') : \E n \in Names :
           /\ at'[n] # 0 /\ data'[at'[n]] = c
           /\ ~Loose(jobs'[j], at', j, n) /\ \A k \in Jobs : n # Tmp(k)
  PROVE  FilesInv'
<1>1. \A k \in Jobs \ {j} : /\ ~Busy(jobs[k])
                            /\ Fits(jobs'[k], at', data', k, fresh', window')
                            /\ \A n : Loose(jobs'[k], at', k, n) => n = Tmp(k)
  BY OthersStand
<1>2. OneRuns'
  BY <1>1 DEF OneRuns
<1>3. \A k \in Jobs : Fits(jobs'[k], at', data', k, fresh', window')
  BY <1>1
<1>4. StaysStored'
  <2> SUFFICES ASSUME NEW c \in owed' \ (window' \cup blind')
               PROVE  Held(c, at', data', jobs')
    BY DEF StaysStored
  <2>1. PICK n \in Names : /\ at'[n] # 0 /\ data'[at'[n]] = c
                           /\ ~Loose(jobs'[j], at', j, n) /\ \A k \in Jobs : n # Tmp(k)
    OBVIOUS
  <2>2. \A k \in Jobs : ~Loose(jobs'[k], at', k, n)
    BY <1>1, <2>1
  <2> QED
    BY <2>1, <2>2 DEF Held
<1> QED
  BY <1>2, <1>3, <1>4 DEF FilesInv

\* Nothing is stored, and only loose names change.
LEMMA QuietStep ==
  ASSUME FilesInv, NEW j \in Jobs, ~dead, cpu \in {"none", j}, Same, FilesTypeOK',
         fresh <= fresh',
         \A k \in Jobs \ {j} : /\ jobs'[k] = jobs[k]
                               /\ at'[Tmp(k)] = at[Tmp(k)] /\ at'[Trash(k)] = at[Trash(k)],
         \A i \in 1 .. fresh : data'[i] = data[i],
         Busy(jobs'[j]) => cpu' = j,
         Fits(jobs'[j], at', data', j, fresh', window'),
         \A n \in Names : at[n] # 0 /\ n # Tmp(j) /\ ~Loose(jobs[j], at, j, n) =>
           at'[n] = at[n] /\ ~Loose(jobs'[j], at', j, n)
  PROVE  FilesInv'
<1>1. \A c \in owed' \ (window' \cup blind') : \E n \in Names :
        /\ at'[n] # 0 /\ data'[at'[n]] = c
        /\ ~Loose(jobs'[j], at', j, n) /\ \A k \in Jobs : n # Tmp(k)
  <2> TAKE c \in owed' \ (window' \cup blind')
  <2>1. PICK n \in Names : /\ at[n] \in 1 .. fresh /\ data[at[n]] = c
                           /\ \A k \in Jobs : n # Tmp(k) /\ ~Loose(jobs[k], at, k, n)
    BY StoredIsHeld DEF Same
  <2>2. at'[n] = at[n] /\ ~Loose(jobs'[j], at', j, n) /\ at[n] # 0
    BY <2>1
  <2> QED
    BY <2>1, <2>2
<1>2. dead' = dead
  BY DEF Same
<1> HIDE DEF Same
<1> QED
  BY <1>1, <1>2, JobStep

LEMMA FilesSplit ==
  ASSUME FilesInv, NEW j \in Jobs
  PROVE  /\ FilesTypeOK /\ OneRuns /\ jobs[j] \in JobRows
         /\ Fits(jobs[j], at, data, j, fresh, window)
         /\ at[A] \in 0 .. fresh /\ at[B] \in 0 .. fresh
         /\ at[Tmp(j)] \in 0 .. fresh /\ at[Trash(j)] \in 0 .. fresh
BY NamesDiffer DEF FilesInv, FilesTypeOK

LEMMA IdleIsAJob == IdleJob \in JobRows
<1>1. B \in Names
  BY DEF Names, Paths
<1> QED
  BY <1>1 DEF IdleJob, JobRows, Stages

\* The end of a job that takes away some of its own names, all of them loose.
LEMMA Finishing ==
  ASSUME FilesInv, NEW j \in Jobs, NEW end \in {"done", "failed"}, NEW L,
         ~dead, cpu \in {"none", j}, Finish(j, end, L),
         UNCHANGED <<data, fresh>>, Same,
         \A k \in Jobs \ {j} : Tmp(k) \notin L /\ Trash(k) \notin L,
         end = "failed" => Clean(at', j),
         \A n \in L : n \in Names /\ at[n] # 0 => Loose(jobs[j], at, j, n)
  PROVE  FilesInv'
<1> USE FilesSplit, NamesDiffer
<1>1. at' = [n \in Names |-> IF n \in L THEN 0 ELSE at[n]] /\ cpu' = "none"
  BY DEF Finish
<1>2. /\ jobs' = [jobs EXCEPT ![j] = jobs'[j]]
      /\ jobs'[j] \in JobRows /\ jobs'[j].pc = "over" /\ jobs'[j].end = end
  BY DEF Finish, FilesTypeOK, IdleJob, JobRows, Stages
<1>3. FilesTypeOK'
  BY <1>1, <1>2 DEF FilesTypeOK, Same
<1>4. Fits(jobs'[j], at', data', j, fresh', window')
  BY <1>2 DEF Fits
<1>5. \A n \in Names : at[n] # 0 /\ n # Tmp(j) /\ ~Loose(jobs[j], at, j, n) =>
        at'[n] = at[n] /\ ~Loose(jobs'[j], at', j, n)
  BY <1>1, <1>2 DEF Loose
<1>6. \A k \in Jobs \ {j} : /\ jobs'[k] = jobs[k]
                            /\ at'[Tmp(k)] = at[Tmp(k)] /\ at'[Trash(k)] = at[Trash(k)]
  BY <1>1, <1>2 DEF FilesTypeOK
<1>7. ~Busy(jobs'[j]) /\ fresh <= fresh' /\ \A i \in 1 .. fresh : data'[i] = data[i]
  BY <1>2 DEF Busy, FilesTypeOK
<1> QED
  BY <1>3, <1>4, <1>5, <1>6, <1>7, QuietStep

\* A request that fails before it has installed anything.
LEMMA Failing ==
  ASSUME FilesInv, NEW j \in Jobs, ~dead, cpu \in {"none", j},
         jobs[j].pc \in {"streaming", "backed", "checked", "linking", "reserved", "copied"},
         jobs[j].pc = "checked" => jobs[j].kind = "write",
         Fail(j), UNCHANGED <<data, fresh>>, Same
  PROVE  FilesInv'
<1> USE FilesSplit, NamesDiffer
<1> DEFINE L == Leftovers(j) \cup Reserved(j)
<1>1. Finish(j, "failed", L)
  BY DEF Fail
<1>2. Fits(jobs[j], at, data, j, fresh, window)
  OBVIOUS
<1>3. jobs[j].pc \in {"reserved", "copied"} => Holding(jobs[j], at, j, fresh) /\ Taking(jobs[j], at, j, fresh)
  BY <1>2 DEF Fits, Holding
<1>4. L \subseteq {Tmp(j), Trash(j), B}
  BY <1>3 DEF Leftovers, Reserved, Taking
<1>5. \A k \in Jobs \ {j} : Tmp(k) \notin L /\ Trash(k) \notin L
  BY <1>4 DEF Paths
<1>6. at[Trash(j)] \in {0, jobs[j].stat, jobs[j].new}
  <2>1. CASE jobs[j].pc \in {"streaming", "backed", "checked", "linking"}
    BY <2>1, <1>2 DEF Fits, Clean
  <2>2. CASE jobs[j].pc \in {"reserved", "copied"}
    BY <2>2, <1>3 DEF Holding, Taking
  <2> QED
    BY <2>1, <2>2
<1>7. Clean(at', j)
  BY <1>1, <1>6 DEF Clean, Finish, Leftovers
<1>8. \A n \in L : n \in Names /\ at[n] # 0 => Loose(jobs[j], at, j, n)
  <2>1. at[Trash(j)] # 0 => Loose(jobs[j], at, j, Trash(j))
    <3>1. CASE jobs[j].pc \in {"streaming", "backed", "checked", "linking"}
      BY <3>1, <1>2 DEF Fits, Clean, Loose, Writing
    <3>2. CASE jobs[j].pc \in {"reserved", "copied"}
      BY <3>2, <1>3 DEF Holding, Taking, Loose
    <3> QED
      BY <3>1, <3>2
  <2>2. \A n \in Reserved(j) : Loose(jobs[j], at, j, n)
    BY <1>3 DEF Reserved, Loose, Taking
  <2> QED
    BY <2>1, <2>2 DEF Leftovers, Loose
<1> HIDE DEF L
<1> QED
  BY <1>1, <1>5, <1>7, <1>8, Finishing

\* A move or a copy that takes back what it installed.
LEMMA RollingBack ==
  ASSUME FilesInv, NEW j \in Jobs, ~dead, cpu \in {"none", j},
         jobs[j].pc \in {"installed", "checked"}, jobs[j].kind # "write",
         RollBack(j), UNCHANGED <<data, fresh>>, Same
  PROVE  FilesInv'
<1> USE FilesSplit, NamesDiffer
<1> DEFINE L == IF at[jobs[j].dest] = jobs[j].new THEN {jobs[j].dest} ELSE {}
<1>1. Finish(j, "failed", L)
  BY DEF RollBack
<1>2. Fits(jobs[j], at, data, j, fresh, window)
  OBVIOUS
<1>3. /\ Holding(jobs[j], at, j, fresh) /\ Taking(jobs[j], at, j, fresh)
      /\ at[Tmp(j)] = 0 /\ at[jobs[j].dest] = jobs[j].new
  BY <1>2 DEF Fits, Holding
<1>4. L \subseteq {Trash(j), B}
  BY <1>3 DEF Taking
<1>5. \A k \in Jobs \ {j} : Tmp(k) \notin L /\ Trash(k) \notin L
  BY <1>4 DEF Paths
<1>6. Clean(at', j)
  BY <1>1, <1>3, <1>4 DEF Clean, Finish, Taking
<1>7. \A n \in L : n \in Names /\ at[n] # 0 => Loose(jobs[j], at, j, n)
  BY <1>3 DEF Loose
<1> HIDE DEF L
<1> QED
  BY <1>1, <1>5, <1>6, <1>7, Finishing

\* A job goes on, by itself, and changes at most its temporary name and that
\* in the trash, both loose or free.
LEMMA GoingOn ==
  ASSUME FilesInv, NEW j \in Jobs, ~dead, cpu \in {"none", j}, Same,
         at' \in [Names -> 0 .. fresh'], data' \in [1 .. Inodes -> Nat], fresh' \in fresh .. Inodes,
         jobs' = [jobs EXCEPT ![j] = jobs'[j]], jobs'[j] \in JobRows,
         cpu' \in {"none", j}, Busy(jobs'[j]) => cpu' = j,
         \A i \in 1 .. fresh : data'[i] = data[i],
         Fits(jobs'[j], at', data', j, fresh', window'),
         \A n \in Names : at'[n] # at[n] =>
           \/ n \in {Tmp(j), Trash(j)} /\ (at[n] = 0 \/ n = Tmp(j) \/ Loose(jobs[j], at, j, n))
           \/ n \in Paths /\ (at[n] = 0 \/ Loose(jobs[j], at, j, n)),
         \A n \in Names : at[n] # 0 /\ n # Tmp(j) /\ Loose(jobs'[j], at', j, n) => Loose(jobs[j], at, j, n)
  PROVE  FilesInv'
<1>0. FilesTypeOK
  BY FilesSplit
<1>1. FilesTypeOK'
  <2>1. jobs' \in [Jobs -> JobRows]
    BY <1>0 DEF FilesTypeOK
  <2>2. cpu' \in Jobs \cup {"none"} /\ outside' \in Nat /\ dead' \in BOOLEAN /\ 0 \notin owed'
    BY <1>0 DEF FilesTypeOK, Same
  <2>3. fresh' \in 1 .. Inodes
    BY <1>0, FileWritesAssumption DEF FilesTypeOK
  <2> QED
    BY <2>1, <2>2, <2>3 DEF FilesTypeOK
<1> USE FilesSplit, NamesDiffer
<1>2. \A n \in Names : at[n] # 0 /\ n # Tmp(j) /\ ~Loose(jobs[j], at, j, n) =>
        at'[n] = at[n] /\ ~Loose(jobs'[j], at', j, n)
  OBVIOUS
<1>3. \A k \in Jobs \ {j} : jobs'[k] = jobs[k]
  BY DEF FilesTypeOK
<1>4. \A k \in Jobs \ {j} : at'[Tmp(k)] = at[Tmp(k)] /\ at'[Trash(k)] = at[Trash(k)]
  <2> TAKE k \in Jobs \ {j}
  <2>1. Tmp(k) \in Names \ (Paths \cup {Tmp(j), Trash(j)}) /\ Trash(k) \in Names \ (Paths \cup {Tmp(j), Trash(j)})
    OBVIOUS
  <2> QED
    BY <2>1
<1>5. fresh <= fresh'
  BY DEF FilesTypeOK
<1> QED
  BY <1>1, <1>2, <1>3, <1>4, <1>5, QuietStep

-----------------------------------------------------------------------------
(* The requests that write. *)

LEMMA WriteStartsKeeps ==
  ASSUME FilesInv, NEW j \in Jobs, NEW over \in BOOLEAN, WriteStarts(j, over)
  PROVE  FilesInv'
<1>0. /\ FilesTypeOK /\ Fits(jobs[j], at, data, j, fresh, window)
      /\ Tmp(j) \in Names /\ Trash(j) \in Names /\ Trash(j) # Tmp(j) /\ at[A] \in 0 .. fresh
  BY FilesSplit, NamesDiffer
<1>1. /\ jobs[j].pc = "idle" /\ cpu = "none" /\ ~dead /\ fresh < Inodes /\ (at[A] # 0 => over)
      /\ fresh' = fresh + 1 /\ cpu' = cpu /\ Same
      /\ at' = [at EXCEPT ![Tmp(j)] = fresh + 1]
      /\ data' = [data EXCEPT ![fresh + 1] = fresh + 1]
  BY DEF WriteStarts
<1>2. /\ jobs' = [jobs EXCEPT ![j] = jobs'[j]] /\ jobs'[j] \in JobRows
      /\ jobs'[j].kind = "write" /\ jobs'[j].over = over /\ jobs'[j].stat = at[A]
      /\ jobs'[j].new = fresh + 1 /\ jobs'[j].pc = "streaming" /\ jobs'[j].end = "none"
  <2> DEFINE r == [IdleJob EXCEPT !.kind = "write", !.over = over, !.stat = at[A],
                                  !.new = fresh + 1, !.pc = "streaming"]
  <2>1. jobs' = [jobs EXCEPT ![j] = r]
    BY DEF WriteStarts
  <2>2. fresh \in Nat /\ at[A] \in Nat /\ jobs \in [Jobs -> JobRows] /\ B \in Names
    BY <1>0, NamesDiffer DEF FilesTypeOK
  <2>3. /\ r.kind = "write" /\ r.over = over /\ r.stat = at[A]
        /\ r.new = fresh + 1 /\ r.pc = "streaming" /\ r.end = "none"
    BY DEF IdleJob
  <2>4. IdleJob \in JobRows
    BY IdleIsAJob
  <2>5. r \in JobRows
    <3>1. at[A] \in Nat /\ fresh + 1 \in Nat
      BY <2>2
    <3> QED
      BY <2>4, <3>1 DEF JobRows, Stages
  <2> HIDE DEF r
  <2>6. jobs'[j] = r /\ jobs' = [jobs EXCEPT ![j] = r]
    BY <2>1, <2>2
  <2> QED
    BY <2>3, <2>5, <2>6
<1>3. /\ at' \in [Names -> 0 .. fresh'] /\ data' \in [1 .. Inodes -> Nat] /\ fresh' \in fresh .. Inodes
      /\ \A i \in 1 .. fresh : data'[i] = data[i]
  <2>1. fresh \in 1 .. Inodes /\ at \in [Names -> 0 .. fresh] /\ data \in [1 .. Inodes -> Nat] /\ Inodes \in Nat
    BY <1>0, FileWritesAssumption DEF FilesTypeOK
  <2>2. fresh + 1 \in 1 .. Inodes /\ fresh' = fresh + 1 /\ fresh \in Nat
    BY <1>1, <2>1
  <2>3. at' \in [Names -> 0 .. fresh']
    <3>1. \A n \in Names : at[n] \in 0 .. fresh'
      BY <2>1, <2>2
    <3>2. fresh + 1 \in 0 .. fresh'
      BY <2>2
    <3> HIDE <2>2
    <3> QED
      BY <1>0, <1>1, <2>1, <3>1, <3>2
  <2> QED
    BY <1>1, <2>1, <2>2, <2>3
<1>4. Clean(at, j)
  BY <1>0, <1>1 DEF Fits
<1>5. Writing(jobs'[j], at', data', j, fresh') /\ at'[Trash(j)] = 0
  <2>1. fresh \in 1 .. Inodes /\ Inodes \in Nat /\ fresh + 1 \in 1 .. Inodes
    BY <1>0, <1>1, FileWritesAssumption DEF FilesTypeOK
  <2>2. at'[Tmp(j)] = fresh + 1 /\ at'[Trash(j)] = 0
    BY <1>0, <1>1, <1>4 DEF FilesTypeOK, Clean
  <2>3. data'[fresh + 1] = fresh + 1
    BY <1>0, <1>1, <2>1 DEF FilesTypeOK
  <2> QED
    BY <1>0, <1>1, <1>2, <2>1, <2>2, <2>3 DEF Writing
<1>6. Fits(jobs'[j], at', data', j, fresh', window')
  BY <1>2, <1>5 DEF Fits
<1>7. \A n \in Names : at'[n] # at[n] => n = Tmp(j)
  BY <1>0, <1>1 DEF FilesTypeOK
<1>8. \A n \in Names : Loose(jobs'[j], at', j, n) => n = Tmp(j)
  BY <1>2 DEF Loose
<1>9. ~Busy(jobs'[j]) /\ cpu' \in {"none", j}
  BY <1>1, <1>2 DEF Busy
<1> QED
  BY <1>1, <1>2, <1>3, <1>6, <1>7, <1>8, <1>9, GoingOn

LEMMA BackupKeeps ==
  ASSUME FilesInv, NEW j \in Jobs, Backup(j)
  PROVE  FilesInv'
<1> USE FilesSplit, NamesDiffer
<1>1. /\ jobs[j].pc = "streaming" /\ cpu = "none" /\ ~dead
      /\ UNCHANGED <<data, fresh>> /\ Same
  BY DEF Backup
<1>2. Writing(jobs[j], at, data, j, fresh) /\ at[Trash(j)] = 0
  BY <1>1 DEF Fits
<1>3. CASE jobs[j].stat # 0 /\ ~SameFile(j, A)
  BY <1>1, <1>3, Failing DEF Backup
<1>4. CASE jobs[j].stat = 0 \/ SameFile(j, A)
  <2>1. /\ cpu' = j /\ at' = [at EXCEPT ![Trash(j)] = jobs[j].stat]
        /\ Go(j, IF jobs[j].stat = 0 THEN "checked" ELSE "backed")
    BY <1>2, <1>4 DEF Backup, SameFile, FilesTypeOK
  <2>2. /\ jobs' = [jobs EXCEPT ![j] = jobs'[j]] /\ jobs'[j] \in JobRows
        /\ jobs'[j] = [jobs[j] EXCEPT !.pc = IF jobs[j].stat = 0 THEN "checked" ELSE "backed"]
    BY <2>1 DEF Go, FilesTypeOK, JobRows, Stages
  <2>3. /\ jobs'[j].kind = "write" /\ jobs'[j].stat = jobs[j].stat /\ jobs'[j].end = "none"
        /\ jobs'[j].new = jobs[j].new /\ jobs'[j].over = jobs[j].over
        /\ jobs'[j].pc = (IF jobs[j].stat = 0 THEN "checked" ELSE "backed")
    BY <1>2, <2>2 DEF Writing, JobRows
  <2>4. Writing(jobs'[j], at', data', j, fresh') /\ at'[Trash(j)] = jobs[j].stat
    BY <1>1, <1>2, <2>1, <2>3 DEF Writing, FilesTypeOK
  <2>5. Fits(jobs'[j], at', data', j, fresh', window')
    BY <2>3, <2>4 DEF Fits, Replaceable
  <2>6. at' \in [Names -> 0 .. fresh'] /\ data' \in [1 .. Inodes -> Nat] /\ fresh' \in fresh .. Inodes
    BY <1>1, <1>2, <2>1 DEF FilesTypeOK, Writing
  <2>7. \A n \in Names : at'[n] # at[n] => n = Trash(j) /\ at[n] = 0
    BY <1>2, <2>1 DEF FilesTypeOK
  <2>8. \A n \in Names : Loose(jobs'[j], at', j, n) => n = Tmp(j) \/ n = Trash(j)
    BY <2>3 DEF Loose
  <2> QED
    BY <1>1, <1>2, <2>1, <2>2, <2>5, <2>6, <2>7, <2>8, GoingOn
<1> QED
  BY <1>3, <1>4

LEMMA CheckTargetKeeps ==
  ASSUME FilesInv, NEW j \in Jobs, CheckTarget(j)
  PROVE  FilesInv'
<1> USE FilesSplit, NamesDiffer
<1>1. /\ jobs[j].pc = "backed" /\ cpu = j /\ ~dead
      /\ UNCHANGED <<data, fresh>> /\ Same
  BY DEF CheckTarget, Alone
<1>2. CASE ~SameFile(j, A)
  BY <1>1, <1>2, Failing DEF CheckTarget
<1>3. CASE SameFile(j, A)
  <2>1. cpu' = cpu /\ at' = at /\ Go(j, "checked")
    BY <1>3 DEF CheckTarget
  <2>2. /\ jobs' = [jobs EXCEPT ![j] = jobs'[j]] /\ jobs'[j] \in JobRows
        /\ jobs'[j] = [jobs[j] EXCEPT !.pc = "checked"]
    BY <2>1 DEF Go, FilesTypeOK, JobRows, Stages
  <2>3. Writing(jobs[j], at, data, j, fresh) /\ at[Trash(j)] = jobs[j].stat
    BY <1>1 DEF Fits
  <2>4. Writing(jobs'[j], at', data', j, fresh') /\ at'[Trash(j)] = jobs'[j].stat /\ at'[A] = jobs'[j].stat
    BY <1>1, <1>3, <2>1, <2>2, <2>3 DEF Writing, JobRows, SameFile
  <2>5. Fits(jobs'[j], at', data', j, fresh', window') /\ jobs'[j].pc = "checked" /\ jobs'[j].kind = "write"
    BY <2>2, <2>4 DEF Fits, Replaceable, Writing, JobRows
  <2>6. at' \in [Names -> 0 .. fresh'] /\ data' \in [1 .. Inodes -> Nat] /\ fresh' \in fresh .. Inodes
    BY <1>1, <2>1 DEF FilesTypeOK
  <2>7. \A n \in Names : n # Tmp(j) /\ Loose(jobs'[j], at', j, n) => Loose(jobs[j], at, j, n)
    BY <1>1, <2>3, <2>5 DEF Loose, Writing
  <2> QED
    BY <1>1, <2>1, <2>2, <2>5, <2>6, <2>7, GoingOn
<1> QED
  BY <1>2, <1>3

\* The commit of a write: the content is at A, and what was there is in the
\* trash, unless it need not be found.
Commits(j) ==
  /\ at' = [at EXCEPT ![A] = at[Tmp(j)], ![Tmp(j)] = 0]
  /\ jobs' = [jobs EXCEPT ![j] = [IdleJob EXCEPT !.kind = "write", !.end = "done", !.pc = "over"]]
  /\ cpu' = "none" /\ Committed(j) /\ UNCHANGED <<data, fresh, window, outside, dead>>

LEMMA Committing ==
  ASSUME FilesInv, NEW j \in Jobs, cpu = j, ~dead, Writing(jobs[j], at, data, j, fresh), Commits(j),
         blind \subseteq blind',
         at[A] # 0 /\ data[at[A]] \in owed \ (window \cup blind') => at[Trash(j)] = at[A]
  PROVE  FilesInv'
<1>0. /\ FilesTypeOK /\ Tmp(j) \in Names /\ Trash(j) \in Names /\ A \in Names
      /\ A # Tmp(j) /\ Trash(j) # A /\ Trash(j) # Tmp(j)
      /\ \A k \in Jobs : A # Tmp(k) /\ Trash(j) # Tmp(k)
  BY FilesSplit, NamesDiffer DEF Paths
<1>1. /\ jobs' = [jobs EXCEPT ![j] = jobs'[j]] /\ jobs'[j] \in JobRows
      /\ jobs'[j].pc = "over" /\ jobs'[j].end = "done"
  <2> DEFINE r == [IdleJob EXCEPT !.kind = "write", !.end = "done", !.pc = "over"]
  <2>1. r \in JobRows /\ r.pc = "over" /\ r.end = "done"
    BY IdleIsAJob DEF JobRows, Stages
  <2>2. jobs' = [jobs EXCEPT ![j] = r]
    BY DEF Commits
  <2> HIDE DEF r
  <2> QED
    BY <1>0, <2>1, <2>2 DEF FilesTypeOK
<1>2. /\ at'[A] = jobs[j].new /\ at'[Tmp(j)] = 0
      /\ \A n \in Names \ {A, Tmp(j)} : at'[n] = at[n]
      /\ jobs[j].new \in 1 .. fresh /\ data[jobs[j].new] # 0
  BY <1>0 DEF FilesTypeOK, Writing, Commits
<1>3. FilesTypeOK'
  <2>1. at' \in [Names -> 0 .. fresh']
    BY <1>0 DEF FilesTypeOK, Writing, Commits
  <2> QED
    BY <1>0, <1>1, <1>2, <2>1 DEF FilesTypeOK, Commits, Committed
<1>4. Fits(jobs'[j], at', data', j, fresh', window')
  BY <1>1 DEF Fits
<1>5. \A k \in Jobs \ {j} : jobs'[k] = jobs[k] /\ at'[Tmp(k)] = at[Tmp(k)] /\ at'[Trash(k)] = at[Trash(k)]
  <2>1. \A k \in Jobs \ {j} : {Tmp(k), Trash(k)} \subseteq Names \ {A, Tmp(j)}
    BY NamesDiffer
  <2> QED
    BY <1>0, <1>1, <1>2, <2>1 DEF FilesTypeOK
<1>6. \A n : Loose(jobs'[j], at', j, n) => n = Tmp(j)
  BY <1>1 DEF Loose
<1>7. \A c \in owed' \ (window' \cup blind') : \E n \in Names :
        /\ at'[n] # 0 /\ data'[at'[n]] = c
        /\ ~Loose(jobs'[j], at', j, n) /\ \A k \in Jobs : n # Tmp(k)
  <2> TAKE c \in owed' \ (window' \cup blind')
  <2>0. data' = data /\ window' = window /\ owed' = owed \cup {data[jobs[j].new]}
    BY DEF Commits, Committed
  <2>1. CASE c = data[jobs[j].new]
    <3>1. at'[A] # 0 /\ data'[at'[A]] = c
      BY <2>0, <1>2, <2>1
    <3> QED
      BY <1>0, <1>6, <3>1
  <2>2. CASE c # data[jobs[j].new]
    <3>1. c \in owed \ (window \cup blind) /\ c \in owed \ (window \cup blind')
      BY <2>0, <2>2
    <3>2. PICK n \in Names : /\ at[n] \in 1 .. fresh /\ data[at[n]] = c
                             /\ \A k \in Jobs : n # Tmp(k) /\ ~Loose(jobs[k], at, k, n)
      BY <3>1, StoredIsHeld
    <3>3. CASE n # A
      <4>1. at'[n] = at[n] /\ n # Tmp(j) /\ at[n] # 0 /\ data'[at'[n]] = c
        <5>1. n # Tmp(j)
          BY <3>2
        <5>2. at'[n] = at[n]
          BY <1>2, <3>3, <5>1
        <5> QED
          BY <2>0, <3>2, <5>1, <5>2
      <4> QED
        BY <1>6, <3>2, <4>1
    <3>4. CASE n = A
      <4>1. at'[Trash(j)] = at[A] /\ at[A] # 0
        <5>1. at[A] # 0 /\ data[at[A]] = c
          BY <3>2, <3>4
        <5>2. at[Trash(j)] = at[A]
          BY <3>1, <5>1
        <5> QED
          BY <1>0, <1>2, <5>1, <5>2
      <4>2. data'[at'[Trash(j)]] = c
        BY <2>0, <3>2, <3>4, <4>1
      <4> QED
        BY <1>0, <1>6, <4>1, <4>2
    <3> QED
      BY <3>3, <3>4
  <2> QED
    BY <2>1, <2>2
<1>8. fresh <= fresh' /\ ~Busy(jobs'[j]) /\ \A i \in 1 .. fresh : data'[i] = data[i]
  BY <1>0, <1>1 DEF FilesTypeOK, Busy, Commits
<1>9. dead' = dead
  BY DEF Commits
<1> QED
  BY <1>3, <1>4, <1>5, <1>7, <1>8, <1>9, JobStep

LEMMA ReplaceKeeps ==
  ASSUME FilesInv, NEW j \in Jobs, Replace(j)
  PROVE  FilesInv'
<1>1. /\ Alone(j) /\ jobs[j].pc = "checked" /\ jobs[j].kind = "write"
      /\ blind' = IF jobs[j].stat = 0 /\ at[A] # 0 THEN blind \cup {data[at[A]]} ELSE blind
  BY DEF Replace
<1>2. Writing(jobs[j], at, data, j, fresh) /\ at[Trash(j)] = jobs[j].stat /\ Replaceable(jobs[j], at, data, window)
  BY <1>1, FilesSplit DEF Fits
<1>3. at[A] # 0 /\ data[at[A]] \in owed \ (window \cup blind') => at[Trash(j)] = at[A]
  BY <1>1, <1>2 DEF Replaceable
<1>4. blind \subseteq blind'
  BY <1>1
<1>5. Commits(j)
  BY DEF Replace, Commits
<1>6. cpu = j /\ ~dead
  BY <1>1 DEF Alone
<1> QED
  BY <1>2, <1>3, <1>4, <1>5, <1>6, Committing

LEMMA CreateKeeps ==
  ASSUME FilesInv, NEW j \in Jobs, Create(j)
  PROVE  FilesInv'
<1>1. /\ Alone(j) /\ jobs[j].pc = "checked" /\ jobs[j].kind = "write"
      /\ UNCHANGED <<data, fresh, window, blind, outside, dead>>
  BY DEF Create
<1>2. CASE ~NoReplace(A)
  BY <1>1, <1>2, Failing DEF Create, Same, Alone
<1>3. CASE NoReplace(A)
  <2>1. Writing(jobs[j], at, data, j, fresh)
    BY <1>1, FilesSplit DEF Fits
  <2>2. Commits(j) /\ at[A] = 0
    BY <1>3 DEF Create, NoReplace, Commits
  <2>3. cpu = j /\ ~dead /\ blind' = blind
    BY <1>1 DEF Alone
  <2> QED
    BY <2>1, <2>2, <2>3, Committing
<1> QED
  BY <1>2, <1>3

-----------------------------------------------------------------------------
(* The requests that move and delete. *)

LEMMA Goes ==
  ASSUME FilesInv, NEW j \in Jobs, NEW p \in Stages, Go(j, p)
  PROVE  /\ jobs' = [jobs EXCEPT ![j] = jobs'[j]] /\ jobs'[j] \in JobRows
         /\ jobs'[j].pc = p /\ jobs'[j].kind = jobs[j].kind /\ jobs'[j].end = jobs[j].end
         /\ jobs'[j].stat = jobs[j].stat /\ jobs'[j].new = jobs[j].new
         /\ jobs'[j].dest = jobs[j].dest /\ jobs'[j].seen = jobs[j].seen
<1>1. jobs \in [Jobs -> JobRows] /\ jobs[j] \in JobRows
  BY FilesSplit DEF FilesTypeOK
<1>2. [jobs[j] EXCEPT !.pc = p] \in JobRows
  BY <1>1 DEF JobRows
<1>3. jobs' = [jobs EXCEPT ![j] = [jobs[j] EXCEPT !.pc = p]]
  BY <1>1 DEF Go
<1>4. jobs'[j] = [jobs[j] EXCEPT !.pc = p]
  BY <1>1, <1>3
<1> QED
  BY <1>1, <1>2, <1>3, <1>4 DEF JobRows

LEMMA Starting ==
  ASSUME FilesInv, NEW j \in Jobs, jobs[j].pc = "idle", cpu = "none", ~dead,
         jobs' = [jobs EXCEPT ![j] = jobs'[j]], jobs'[j] \in JobRows,
         jobs'[j].pc \in {"linking", "trashing"}, jobs'[j].end = "none", jobs'[j].stat \in 1 .. fresh,
         \/ jobs'[j].pc = "linking" /\ jobs'[j].kind = "move" /\ jobs'[j].dest = B /\ jobs'[j].stat = jobs'[j].new
         \/ jobs'[j].pc = "trashing" /\ jobs'[j].kind = "delete" /\ jobs'[j].dest = Trash(j),
         cpu' = j, UNCHANGED <<at, data, fresh>>, Same
  PROVE  FilesInv'
<1>1. Clean(at, j) /\ FilesTypeOK
  BY FilesSplit DEF Fits
<1>2. Taking(jobs'[j], at', j, fresh') /\ Clean(at', j)
  BY <1>1 DEF Taking, Clean
<1>3. Fits(jobs'[j], at', data', j, fresh', window')
  BY <1>2 DEF Fits
<1>4. \A n : Loose(jobs'[j], at', j, n) => n = Tmp(j)
  BY DEF Loose
<1>5. at' \in [Names -> 0 .. fresh'] /\ data' \in [1 .. Inodes -> Nat] /\ fresh' \in fresh .. Inodes
  BY <1>1 DEF FilesTypeOK
<1> QED
  BY <1>3, <1>4, <1>5, GoingOn

LEMMA MoveStartsKeeps ==
  ASSUME FilesInv, NEW j \in Jobs, MoveStarts(j)
  PROVE  FilesInv'
<1>0. FilesTypeOK /\ at[A] \in 0 .. fresh
  BY FilesSplit
<1> DEFINE r == [IdleJob EXCEPT !.kind = "move", !.stat = at[A], !.new = at[A], !.pc = "linking"]
<1>1. /\ jobs[j].pc = "idle" /\ cpu = "none" /\ ~dead /\ at[A] # 0 /\ jobs' = [jobs EXCEPT ![j] = r]
      /\ cpu' = j /\ UNCHANGED <<at, data, fresh>> /\ Same
  BY DEF MoveStarts
<1>2. /\ r.kind = "move" /\ r.stat = at[A] /\ r.new = at[A] /\ r.pc = "linking" /\ r.end = "none" /\ r.dest = B
  BY DEF IdleJob
<1>3. r \in JobRows
  <2>1. at[A] \in Nat
    BY <1>0 DEF FilesTypeOK
  <2> QED
    BY <2>1, IdleIsAJob DEF JobRows, Stages
<1> HIDE DEF r
<1>4. jobs'[j] = r /\ jobs' = [jobs EXCEPT ![j] = jobs'[j]]
  BY <1>0, <1>1 DEF FilesTypeOK
<1>5. at[A] \in 1 .. fresh
  BY <1>0, <1>1 DEF FilesTypeOK
<1> QED
  BY <1>1, <1>2, <1>3, <1>4, <1>5, Starting

LEMMA DeleteStartsKeeps ==
  ASSUME FilesInv, NEW j \in Jobs, DeleteStarts(j)
  PROVE  FilesInv'
<1>0. FilesTypeOK /\ at[A] \in 0 .. fresh /\ Trash(j) \in Names
  BY FilesSplit, NamesDiffer
<1> DEFINE r == [IdleJob EXCEPT !.kind = "delete", !.stat = at[A], !.dest = Trash(j), !.pc = "trashing"]
<1>1. /\ jobs[j].pc = "idle" /\ cpu = "none" /\ ~dead /\ at[A] # 0 /\ jobs' = [jobs EXCEPT ![j] = r]
      /\ cpu' = j /\ UNCHANGED <<at, data, fresh>> /\ Same
  BY DEF DeleteStarts
<1>2. /\ r.kind = "delete" /\ r.stat = at[A] /\ r.pc = "trashing" /\ r.end = "none" /\ r.dest = Trash(j)
  BY DEF IdleJob
<1>3. r \in JobRows
  <2>1. at[A] \in Nat
    BY <1>0 DEF FilesTypeOK
  <2> QED
    BY <1>0, <2>1, IdleIsAJob DEF JobRows, Stages
<1> HIDE DEF r
<1>4. jobs'[j] = r /\ jobs' = [jobs EXCEPT ![j] = jobs'[j]]
  BY <1>0, <1>1 DEF FilesTypeOK
<1>5. at[A] \in 1 .. fresh
  BY <1>0, <1>1 DEF FilesTypeOK
<1> QED
  BY <1>1, <1>2, <1>3, <1>4, <1>5, Starting

LEMMA LinkKeeps ==
  ASSUME FilesInv, NEW j \in Jobs, Link(j)
  PROVE  FilesInv'
<1>0. /\ FilesTypeOK /\ Fits(jobs[j], at, data, j, fresh, window)
      /\ A \in Names /\ B \in Names /\ Tmp(j) \in Names /\ Trash(j) \in Names
      /\ A # B /\ B # Tmp(j) /\ B # Trash(j) /\ at[A] \in 0 .. fresh /\ B \in Paths
  BY FilesSplit, NamesDiffer DEF Paths
<1>1. /\ cpu = j /\ ~dead /\ jobs[j].pc = "linking" /\ UNCHANGED <<data, fresh>> /\ Same
  BY DEF Link, Alone
<1>2. Taking(jobs[j], at, j, fresh) /\ Clean(at, j) /\ jobs[j].kind = "move"
  BY <1>0, <1>1 DEF Fits
<1>3. CASE ~(at[A] # 0 /\ NoReplace(B))
  BY <1>1, <1>3, Failing DEF Link
<1>4. CASE at[A] # 0 /\ NoReplace(B)
  <2>1. at' = [at EXCEPT ![B] = at[A]] /\ at[B] = 0
    BY <1>4 DEF Link, NoReplace
  <2>2. /\ at' \in [Names -> 0 .. fresh'] /\ data' \in [1 .. Inodes -> Nat] /\ fresh' \in fresh .. Inodes
        /\ \A n \in Names : at'[n] # at[n] => n = B
    BY <1>0, <1>1, <2>1 DEF FilesTypeOK
  <2>3. CASE SameFile(j, A)
    <3>1. Go(j, "linked") /\ cpu' = j
      BY <1>1, <1>4, <2>3 DEF Link
    <3>2. /\ jobs' = [jobs EXCEPT ![j] = jobs'[j]] /\ jobs'[j] \in JobRows
          /\ jobs'[j].pc = "linked" /\ jobs'[j].kind = "move" /\ jobs'[j].end = "none" /\ jobs'[j].dest = B
          /\ jobs'[j].stat = at[A] /\ jobs'[j].new = at[A]
      BY <1>0, <1>1, <1>2, <2>3, <3>1, Goes DEF Fits, SameFile, Taking, Stages
    <3>3. Holding(jobs'[j], at', j, fresh') /\ at'[Tmp(j)] = 0 /\ at'[B] = jobs'[j].new
      <4>1. at'[Tmp(j)] = 0 /\ at'[Trash(j)] = 0 /\ at'[B] = at[A] /\ at[A] \in 1 .. fresh /\ fresh' = fresh
        BY <1>0, <1>1, <1>2, <1>4, <2>1, <2>2 DEF FilesTypeOK, Clean
      <4> QED
        BY <3>2, <4>1 DEF Holding, Taking
    <3>4. Fits(jobs'[j], at', data', j, fresh', window')
      BY <3>2, <3>3 DEF Fits
    <3>5. \A n \in Names : at[n] # 0 /\ n # Tmp(j) => ~Loose(jobs'[j], at', j, n)
      BY <2>1, <3>2 DEF Loose
    <3>6. \A n \in Names : at'[n] # at[n] => n \in Paths /\ at[n] = 0
      BY <1>0, <2>1, <2>2
    <3>7. \A i \in 1 .. fresh : data'[i] = data[i]
      BY <1>1
    <3> QED
      BY <1>1, <2>2, <3>1, <3>2, <3>4, <3>5, <3>6, <3>7, GoingOn
  <2>4. CASE ~SameFile(j, A)
    <3> DEFINE r == [IdleJob EXCEPT !.kind = "move", !.end = "failed", !.pc = "over"]
    <3>1. r \in JobRows /\ r.pc = "over" /\ r.end = "failed"
      BY IdleIsAJob DEF JobRows, Stages
    <3>2. jobs' = [jobs EXCEPT ![j] = r] /\ cpu' = "none"
      BY <1>4, <2>4 DEF Link
    <3> HIDE DEF r
    <3>3. /\ jobs' = [jobs EXCEPT ![j] = jobs'[j]] /\ jobs'[j] \in JobRows
          /\ jobs'[j].pc = "over" /\ jobs'[j].end = "failed"
      BY <1>0, <3>1, <3>2 DEF FilesTypeOK
    <3>4. Clean(at', j)
      BY <1>0, <1>2, <2>1 DEF Clean, FilesTypeOK
    <3>5. Fits(jobs'[j], at', data', j, fresh', window')
      BY <3>3, <3>4 DEF Fits
    <3>6. ~Busy(jobs'[j]) /\ \A n : Loose(jobs'[j], at', j, n) => n = Tmp(j)
      BY <3>3 DEF Busy, Loose
    <3> QED
      BY <1>0, <1>1, <2>1, <2>2, <3>2, <3>3, <3>5, <3>6, GoingOn
  <2> QED
    BY <2>3, <2>4
<1> QED
  BY <1>3, <1>4

\* What a job that holds, or is to hold, its destination has.
LEMMA Destination ==
  ASSUME FilesInv, NEW j \in Jobs, Taking(jobs[j], at, j, fresh)
  PROVE  /\ jobs[j].dest \in Names /\ jobs[j].dest \in {B, Trash(j)}
         /\ jobs[j].dest # Tmp(j) /\ jobs[j].dest # A /\ (jobs[j].dest = Trash(j) \/ jobs[j].dest \in Paths)
BY NamesDiffer DEF Taking, Paths

LEMMA ReserveKeeps ==
  ASSUME FilesInv, NEW j \in Jobs, Reserve(j)
  PROVE  FilesInv'
<1>0. /\ FilesTypeOK /\ Fits(jobs[j], at, data, j, fresh, window) /\ jobs[j] \in JobRows
      /\ Tmp(j) \in Names /\ Trash(j) \in Names /\ Trash(j) # B
  BY FilesSplit, NamesDiffer DEF Paths
<1>1. /\ cpu = j /\ ~dead /\ jobs[j].pc \in {"linking", "trashing"} /\ fresh < Inodes
      /\ at[jobs[j].dest] = 0 /\ fresh' = fresh + 1
      /\ at' = [at EXCEPT ![jobs[j].dest] = fresh + 1]
      /\ UNCHANGED <<data, cpu>> /\ Same
  BY DEF Reserve, Alone
<1>2. Taking(jobs[j], at, j, fresh) /\ Clean(at, j)
  BY <1>0, <1>1 DEF Fits
<1>3. PICK n \in Names : n = jobs[j].dest /\ n # Tmp(j) /\ n # A /\ (n = Trash(j) \/ n \in Paths) /\ n \in {B, Trash(j)}
  BY <1>2, Destination
<1>4. fresh \in Nat /\ fresh + 1 \in 1 .. Inodes /\ at \in [Names -> 0 .. fresh]
  BY <1>0, <1>1, FileWritesAssumption DEF FilesTypeOK
<1>5. /\ jobs' = [jobs EXCEPT ![j] = jobs'[j]] /\ jobs'[j] \in JobRows
      /\ jobs'[j].pc = "reserved" /\ jobs'[j].kind = jobs[j].kind /\ jobs'[j].end = jobs[j].end
      /\ jobs'[j].stat = jobs[j].stat /\ jobs'[j].new = fresh + 1 /\ jobs'[j].dest = jobs[j].dest
  <2> DEFINE r == [jobs[j] EXCEPT !.pc = "reserved", !.new = fresh + 1]
  <2>1. jobs' = [jobs EXCEPT ![j] = r]
    BY <1>0 DEF Reserve, FilesTypeOK
  <2>2. r \in JobRows
    <3>1. fresh + 1 \in Nat /\ jobs[j] \in JobRows
      BY <1>0, <1>4
    <3> QED
      BY <3>1 DEF JobRows, Stages
  <2>3. /\ r.pc = "reserved" /\ r.kind = jobs[j].kind /\ r.end = jobs[j].end
        /\ r.stat = jobs[j].stat /\ r.new = fresh + 1 /\ r.dest = jobs[j].dest
    BY <1>0 DEF JobRows
  <2> HIDE DEF r
  <2> QED
    BY <1>0, <2>1, <2>2, <2>3 DEF FilesTypeOK
<1>6. at' = [at EXCEPT ![n] = fresh + 1] /\ at[n] = 0
  BY <1>1, <1>3
<1>7. at' \in [Names -> 0 .. fresh'] /\ data' \in [1 .. Inodes -> Nat] /\ fresh' \in fresh .. Inodes
  <2>1. \A m \in Names : at[m] \in 0 .. fresh'
    BY <1>1, <1>4
  <2>2. fresh + 1 \in 0 .. fresh' /\ fresh' \in fresh .. Inodes
    BY <1>1, <1>4, FileWritesAssumption
  <2>3. data' \in [1 .. Inodes -> Nat]
    BY <1>0, <1>1 DEF FilesTypeOK
  <2> QED
    BY <1>4, <1>6, <2>1, <2>2, <2>3
<1>8. at'[Tmp(j)] = 0 /\ (jobs[j].kind = "move" => at'[Trash(j)] = 0) /\ at'[n] = fresh + 1
  BY <1>0, <1>2, <1>3, <1>4, <1>6 DEF Clean, Taking
<1>9. Holding(jobs'[j], at', j, fresh')
  BY <1>1, <1>2, <1>3, <1>4, <1>5, <1>8 DEF Holding, Taking
<1>10. Fits(jobs'[j], at', data', j, fresh', window')
  BY <1>5, <1>8, <1>9 DEF Fits
<1>11. \A m \in Names : at'[m] # at[m] => m = n
  BY <1>4, <1>6
<1>12. \A m : Loose(jobs'[j], at', j, m) => m = Tmp(j) \/ m = n
  BY <1>3, <1>5 DEF Loose
<1>13. cpu' = j /\ \A i \in 1 .. fresh : data'[i] = data[i]
  BY <1>1
<1>14. \A m \in Names : at'[m] # at[m] => at[m] = 0 /\ (m = Trash(j) \/ m \in Paths)
  BY <1>3, <1>6, <1>11
<1>15. \A m \in Names : at[m] # 0 /\ m # Tmp(j) => ~Loose(jobs'[j], at', j, m)
  BY <1>6, <1>12
<1>16. cpu = j /\ ~dead /\ Same
  BY <1>1
<1> QED
  BY <1>5, <1>7, <1>10, <1>13, <1>14, <1>15, <1>16, GoingOn

LEMMA CopyKeeps ==
  ASSUME FilesInv, NEW j \in Jobs, Copy(j)
  PROVE  FilesInv'
<1>0. /\ FilesTypeOK /\ Fits(jobs[j], at, data, j, fresh, window) /\ jobs[j] \in JobRows
      /\ Tmp(j) \in Names /\ Trash(j) \in Names /\ A \in Names
      /\ Trash(j) # Tmp(j) /\ Tmp(j) # A /\ at[A] \in 0 .. fresh
  BY FilesSplit, NamesDiffer DEF Paths
<1>1. cpu = j /\ ~dead /\ jobs[j].pc = "reserved" /\ Same
  BY DEF Copy, Alone
<1>2. CASE ~(SameFile(j, A) /\ fresh < Inodes)
  BY <1>1, <1>2, Failing DEF Copy
<1>3. CASE SameFile(j, A) /\ fresh < Inodes
  <2>1. /\ fresh' = fresh + 1 /\ at' = [at EXCEPT ![Tmp(j)] = fresh + 1]
        /\ data' = [data EXCEPT ![fresh + 1] = data[jobs[j].stat]] /\ cpu' = cpu
    BY <1>3 DEF Copy
  <2>2. Holding(jobs[j], at, j, fresh) /\ Taking(jobs[j], at, j, fresh)
    BY <1>0, <1>1 DEF Fits, Holding
  <2>3. /\ fresh \in Nat /\ fresh + 1 \in 1 .. Inodes /\ at \in [Names -> 0 .. fresh] /\ Inodes \in Nat
        /\ data \in [1 .. Inodes -> Nat] /\ data[jobs[j].stat] \in Nat
    BY <1>0, <1>3, <2>2, FileWritesAssumption DEF FilesTypeOK, Taking
  <2>4. /\ jobs' = [jobs EXCEPT ![j] = jobs'[j]] /\ jobs'[j] \in JobRows
        /\ jobs'[j].pc = "copied" /\ jobs'[j].kind = jobs[j].kind /\ jobs'[j].end = jobs[j].end
        /\ jobs'[j].stat = jobs[j].stat /\ jobs'[j].new = jobs[j].new /\ jobs'[j].dest = jobs[j].dest
        /\ jobs'[j].seen = data[jobs[j].stat]
    <3> DEFINE r == [jobs[j] EXCEPT !.pc = "copied", !.seen = data[jobs[j].stat]]
    <3>1. jobs' = [jobs EXCEPT ![j] = r]
      BY <1>0, <1>3 DEF Copy, FilesTypeOK
    <3>2. r \in JobRows
      BY <1>0, <2>3 DEF JobRows, Stages
    <3>3. /\ r.pc = "copied" /\ r.kind = jobs[j].kind /\ r.end = jobs[j].end
          /\ r.stat = jobs[j].stat /\ r.new = jobs[j].new /\ r.dest = jobs[j].dest
          /\ r.seen = data[jobs[j].stat]
      BY <1>0 DEF JobRows
    <3> HIDE DEF r
    <3> QED
      BY <1>0, <3>1, <3>2, <3>3 DEF FilesTypeOK
  <2>5. at' \in [Names -> 0 .. fresh'] /\ data' \in [1 .. Inodes -> Nat] /\ fresh' \in fresh .. Inodes
    <3>1. \A m \in Names : at[m] \in 0 .. fresh'
      BY <2>1, <2>3
    <3>2. fresh + 1 \in 0 .. fresh' /\ fresh' \in fresh .. Inodes
      BY <2>1, <2>3
    <3>3. data' \in [1 .. Inodes -> Nat]
      BY <2>1, <2>3
    <3> QED
      BY <2>1, <2>3, <3>1, <3>2, <3>3
  <2>6. \A i \in 1 .. fresh : data'[i] = data[i]
    BY <2>1, <2>3
  <2>7. /\ at'[Tmp(j)] = fresh + 1 /\ data'[fresh + 1] = data[jobs[j].stat] /\ at'[A] # fresh + 1
        /\ \A m \in Names \ {Tmp(j)} : at'[m] = at[m]
    <3>1. at'[Tmp(j)] = fresh + 1 /\ \A m \in Names \ {Tmp(j)} : at'[m] = at[m]
      BY <1>0, <2>1, <2>3
    <3>2. data'[fresh + 1] = data[jobs[j].stat]
      BY <2>1, <2>3
    <3>3. at'[A] # fresh + 1
      BY <1>0, <2>3, <3>1
    <3> QED
      BY <3>1, <3>2, <3>3
  <2>8. Holding(jobs'[j], at', j, fresh')
    BY <1>0, <2>1, <2>2, <2>3, <2>4, <2>7 DEF Holding, Taking
  <2>9. Fits(jobs'[j], at', data', j, fresh', window')
    <3>1. at'[Tmp(j)] # 0 /\ at'[A] # at'[Tmp(j)] /\ data'[at'[Tmp(j)]] = jobs'[j].seen
      BY <2>3, <2>4, <2>7
    <3> QED
      BY <2>4, <2>8, <3>1 DEF Fits
  <2>10. \A m \in Names : m # Tmp(j) /\ Loose(jobs'[j], at', j, m) => Loose(jobs[j], at, j, m)
    BY <1>1, <2>4, <2>7 DEF Loose
  <2> QED
    BY <1>0, <1>1, <2>1, <2>4, <2>5, <2>6, <2>7, <2>9, <2>10, GoingOn
<1> QED
  BY <1>2, <1>3

LEMMA InstallKeeps ==
  ASSUME FilesInv, NEW j \in Jobs, Install(j)
  PROVE  FilesInv'
<1>0. /\ FilesTypeOK /\ Fits(jobs[j], at, data, j, fresh, window) /\ jobs[j] \in JobRows
      /\ Tmp(j) \in Names /\ Trash(j) \in Names /\ A \in Names /\ Tmp(j) # A /\ Trash(j) # Tmp(j) /\ Trash(j) # B
  BY FilesSplit, NamesDiffer DEF Paths
<1>1. cpu = j /\ ~dead /\ jobs[j].pc = "copied" /\ UNCHANGED <<data, fresh>> /\ Same
  BY DEF Install, Alone
<1>2. CASE ~(SameFile(j, A) /\ at[jobs[j].dest] = jobs[j].new)
  BY <1>1, <1>2, Failing DEF Install
<1>3. CASE SameFile(j, A) /\ at[jobs[j].dest] = jobs[j].new
  <2>1. /\ at' = [at EXCEPT ![jobs[j].dest] = at[Tmp(j)], ![Tmp(j)] = 0] /\ cpu' = cpu
        /\ jobs' = [jobs EXCEPT ![j].pc = "installed", ![j].new = at[Tmp(j)]]
    BY <1>3 DEF Install
  <2>2. /\ Holding(jobs[j], at, j, fresh) /\ Taking(jobs[j], at, j, fresh)
        /\ at[Tmp(j)] # 0 /\ at[A] # at[Tmp(j)] /\ data[at[Tmp(j)]] = jobs[j].seen
    BY <1>0, <1>1 DEF Fits, Holding
  <2>3. PICK n \in Names : n = jobs[j].dest /\ n # Tmp(j) /\ n # A /\ (n = Trash(j) \/ n \in Paths) /\ n \in {B, Trash(j)}
    BY <2>2, Destination
  <2>4. at[Tmp(j)] \in 1 .. fresh /\ fresh \in Nat
    BY <1>0, <2>2, FileWritesAssumption DEF FilesTypeOK
  <2>5. /\ jobs' = [jobs EXCEPT ![j] = jobs'[j]] /\ jobs'[j] \in JobRows
        /\ jobs'[j].pc = "installed" /\ jobs'[j].kind = jobs[j].kind /\ jobs'[j].end = jobs[j].end
        /\ jobs'[j].stat = jobs[j].stat /\ jobs'[j].new = at[Tmp(j)] /\ jobs'[j].dest = n
        /\ jobs'[j].seen = jobs[j].seen
    <3> DEFINE r == [jobs[j] EXCEPT !.pc = "installed", !.new = at[Tmp(j)]]
    <3>1. jobs' = [jobs EXCEPT ![j] = r]
      BY <1>0, <2>1 DEF FilesTypeOK
    <3>2. r \in JobRows
      <4>1. at[Tmp(j)] \in Nat
        BY <2>4
      <4> QED
        BY <1>0, <4>1 DEF JobRows, Stages
    <3>3. /\ r.pc = "installed" /\ r.kind = jobs[j].kind /\ r.end = jobs[j].end
          /\ r.stat = jobs[j].stat /\ r.new = at[Tmp(j)] /\ r.dest = jobs[j].dest /\ r.seen = jobs[j].seen
      BY <1>0 DEF JobRows
    <3> HIDE DEF r
    <3> QED
      BY <1>0, <2>3, <3>1, <3>2, <3>3 DEF FilesTypeOK
  <2>6. /\ at'[n] = at[Tmp(j)] /\ at'[Tmp(j)] = 0 /\ \A m \in Names \ {n, Tmp(j)} : at'[m] = at[m]
        /\ at' \in [Names -> 0 .. fresh']
    <3>1. at' = [at EXCEPT ![n] = at[Tmp(j)], ![Tmp(j)] = 0]
      BY <2>1, <2>3
    <3> QED
      BY <1>0, <1>1, <2>3, <3>1 DEF FilesTypeOK
  <2>7. Holding(jobs'[j], at', j, fresh')
    BY <1>0, <1>1, <2>2, <2>3, <2>4, <2>5, <2>6 DEF Holding, Taking
  <2>8. Fits(jobs'[j], at', data', j, fresh', window')
    <3>1. at'[A] # at[Tmp(j)] /\ data'[at[Tmp(j)]] = jobs[j].seen
      BY <1>0, <1>1, <2>2, <2>3, <2>6
    <3> QED
      BY <2>5, <2>6, <2>7, <3>1 DEF Fits
  <2>9. data' \in [1 .. Inodes -> Nat] /\ fresh' \in fresh .. Inodes /\ \A i \in 1 .. fresh : data'[i] = data[i]
    BY <1>0, <1>1 DEF FilesTypeOK
  <2>10. Loose(jobs[j], at, j, n)
    BY <1>1, <1>3, <2>2, <2>3 DEF Loose, Taking
  <2>11. \A m \in Names : at'[m] # at[m] =>
           \/ m \in {Tmp(j), Trash(j)} /\ (m = Tmp(j) \/ Loose(jobs[j], at, j, m))
           \/ m \in Paths /\ Loose(jobs[j], at, j, m)
    BY <2>3, <2>6, <2>10
  <2>12. \A m \in Names : m # Tmp(j) /\ Loose(jobs'[j], at', j, m) => Loose(jobs[j], at, j, m)
    <3>1. \A m \in Names : m # Tmp(j) /\ Loose(jobs'[j], at', j, m) => m = n
      BY <2>5 DEF Loose
    <3> QED
      BY <2>10, <3>1
  <2>13. cpu' = j
    BY <1>1, <2>1
  <2> QED
    BY <1>1, <2>5, <2>6, <2>8, <2>9, <2>11, <2>12, <2>13, GoingOn
<1> QED
  BY <1>2, <1>3

LEMMA CheckSourceKeeps ==
  ASSUME FilesInv, NEW j \in Jobs, CheckSource(j)
  PROVE  FilesInv'
<1>0. /\ FilesTypeOK /\ Fits(jobs[j], at, data, j, fresh, window) /\ jobs[j] \in JobRows
      /\ Tmp(j) \in Names /\ Trash(j) \in Names
  BY FilesSplit, NamesDiffer
<1>1. cpu = j /\ ~dead /\ jobs[j].pc \in {"linked", "installed"} /\ UNCHANGED <<data, fresh>> /\ Same
  BY DEF CheckSource, Alone
<1>2. Holding(jobs[j], at, j, fresh) /\ Taking(jobs[j], at, j, fresh) /\ at[Tmp(j)] = 0
  BY <1>0, <1>1 DEF Fits, Holding
<1>3. CASE jobs[j].pc = "linked" /\ ~SameFile(j, A)
  <2>1. Finish(j, "failed", {})
    BY <1>3 DEF CheckSource
  <2>2. at[Trash(j)] = 0
    BY <1>0, <1>2, <1>3 DEF Fits, Taking
  <2>3. Clean(at', j)
    BY <1>0, <1>2, <2>1, <2>2 DEF Clean, Finish
  <2> QED
    BY <1>1, <2>1, <2>3, Finishing
<1>4. CASE jobs[j].pc = "installed" /\ ~Unchanged(j)
  <2>1. RollBack(j)
    BY <1>4 DEF CheckSource
  <2>2. jobs[j].kind # "write"
    BY <1>2 DEF Taking
  <2> QED
    BY <1>1, <1>4, <2>1, <2>2, RollingBack
<1>5. CASE (jobs[j].pc = "linked" /\ SameFile(j, A)) \/ (jobs[j].pc = "installed" /\ Unchanged(j))
  <2>1. Go(j, "checked") /\ UNCHANGED <<at, cpu>>
    BY <1>5 DEF CheckSource
  <2>2. /\ jobs' = [jobs EXCEPT ![j] = jobs'[j]] /\ jobs'[j] \in JobRows
        /\ jobs'[j].pc = "checked" /\ jobs'[j].kind = jobs[j].kind /\ jobs'[j].end = jobs[j].end
        /\ jobs'[j].stat = jobs[j].stat /\ jobs'[j].new = jobs[j].new
        /\ jobs'[j].dest = jobs[j].dest
    BY <2>1, Goes DEF Stages
  <2>3. at[jobs[j].dest] = jobs[j].new /\ Removable(jobs[j], at, data, window)
    <3>1. CASE jobs[j].pc = "linked"
      BY <1>0, <1>2, <1>5, <3>1 DEF Fits, Removable, Taking, SameFile
    <3>2. CASE jobs[j].pc = "installed"
      BY <1>0, <1>2, <1>5, <3>2 DEF Fits, Removable, Unchanged, SameFile
    <3> QED
      BY <1>1, <3>1, <3>2
  <2>4. Holding(jobs'[j], at', j, fresh')
    BY <1>1, <1>2, <2>1, <2>2 DEF Holding, Taking
  <2>5. jobs'[j].kind # "write" /\ at'[Tmp(j)] = 0 /\ at'[jobs'[j].dest] = jobs'[j].new
        /\ Removable(jobs'[j], at', data', window')
    BY <1>1, <1>2, <2>1, <2>2, <2>3 DEF Taking, Removable, Same
  <2>6. Fits(jobs'[j], at', data', j, fresh', window')
    BY <2>2, <2>4, <2>5 DEF Fits
  <2>7. /\ at' \in [Names -> 0 .. fresh'] /\ data' \in [1 .. Inodes -> Nat] /\ fresh' \in fresh .. Inodes
        /\ \A i \in 1 .. fresh : data'[i] = data[i]
    BY <1>0, <1>1, <2>1 DEF FilesTypeOK
  <2>8. \A m : Loose(jobs'[j], at', j, m) => Loose(jobs[j], at, j, m)
    BY <1>1, <2>1, <2>2, <2>5 DEF Loose
  <2>9. cpu' = j /\ at' = at
    BY <1>1, <2>1
  <2> QED
    BY <1>1, <2>2, <2>6, <2>7, <2>8, <2>9, GoingOn
<1> QED
  BY <1>1, <1>3, <1>4, <1>5

\* The commit of a move or a delete: the destination has what was at A.
LEMMA UnlinkKeeps ==
  ASSUME FilesInv, NEW j \in Jobs, Unlink(j)
  PROVE  FilesInv'
<1>0. /\ FilesTypeOK /\ Fits(jobs[j], at, data, j, fresh, window) /\ A \in Names
  BY FilesSplit, NamesDiffer
<1>1. /\ cpu = j /\ ~dead /\ jobs[j].pc = "checked" /\ jobs[j].kind \in {"move", "delete"}
      /\ Finish(j, "done", {A}) /\ UNCHANGED <<data, fresh>> /\ Same
  BY DEF Unlink, Alone
<1>2. /\ Holding(jobs[j], at, j, fresh) /\ Taking(jobs[j], at, j, fresh)
      /\ at[jobs[j].dest] = jobs[j].new /\ Removable(jobs[j], at, data, window)
  BY <1>0, <1>1 DEF Fits, Holding
<1>3. PICK n \in Names : n = jobs[j].dest /\ n # A /\ \A k \in Jobs : n # Tmp(k)
  <2>1. jobs[j].dest \in Names /\ jobs[j].dest \in {B, Trash(j)} /\ jobs[j].dest # A
    BY <1>2, Destination
  <2>2. \A k \in Jobs : B # Tmp(k) /\ Trash(j) # Tmp(k)
    BY NamesDiffer
  <2> QED
    BY <2>1, <2>2
<1>4. at' = [m \in Names |-> IF m = A THEN 0 ELSE at[m]] /\ cpu' = "none"
  BY <1>1 DEF Finish
<1>5. /\ jobs' = [jobs EXCEPT ![j] = jobs'[j]] /\ jobs'[j] \in JobRows
      /\ jobs'[j].pc = "over" /\ jobs'[j].end = "done"
  <2> DEFINE r == [IdleJob EXCEPT !.kind = jobs[j].kind, !.end = "done", !.pc = "over"]
  <2>1. r \in JobRows /\ r.pc = "over" /\ r.end = "done"
    BY <1>1, IdleIsAJob DEF JobRows, Stages
  <2>2. jobs' = [jobs EXCEPT ![j] = r]
    BY <1>1 DEF Finish
  <2> HIDE DEF r
  <2> QED
    BY <1>0, <2>1, <2>2 DEF FilesTypeOK
<1>6. FilesTypeOK'
  <2>1. at' \in [Names -> 0 .. fresh']
    BY <1>0, <1>1, <1>4 DEF FilesTypeOK
  <2> QED
    BY <1>0, <1>1, <1>4, <1>5, <2>1 DEF FilesTypeOK, Same
<1>7. Fits(jobs'[j], at', data', j, fresh', window')
  BY <1>5 DEF Fits
<1>8. \A k \in Jobs \ {j} : jobs'[k] = jobs[k] /\ at'[Tmp(k)] = at[Tmp(k)] /\ at'[Trash(k)] = at[Trash(k)]
  <2>1. \A k \in Jobs : {Tmp(k), Trash(k)} \subseteq Names \ {A}
    BY NamesDiffer
  <2> QED
    BY <1>0, <1>4, <1>5, <2>1 DEF FilesTypeOK
<1>9. \A m : Loose(jobs'[j], at', j, m) => m = Tmp(j)
  BY <1>5 DEF Loose
<1>10. \A c \in owed' \ (window' \cup blind') : \E m \in Names :
         /\ at'[m] # 0 /\ data'[at'[m]] = c
         /\ ~Loose(jobs'[j], at', j, m) /\ \A k \in Jobs : m # Tmp(k)
  <2> TAKE c \in owed' \ (window' \cup blind')
  <2>1. c \in owed \ (window \cup blind)
    BY <1>1 DEF Same
  <2>2. PICK m \in Names : /\ at[m] \in 1 .. fresh /\ data[at[m]] = c
                           /\ \A k \in Jobs : m # Tmp(k) /\ ~Loose(jobs[k], at, k, m)
    BY <2>1, StoredIsHeld
  <2>3. CASE m # A
    <3>1. at'[m] # 0 /\ data'[at'[m]] = c
      BY <1>1, <1>4, <2>2, <2>3
    <3> QED
      BY <1>9, <2>2, <3>1
  <2>4. CASE m = A
    <3>1. at[A] # 0 /\ data[at[A]] = c /\ c \notin window
      BY <2>1, <2>2, <2>4
    <3>2. data[jobs[j].new] = c
      BY <1>2, <3>1 DEF Removable
    <3>3. at'[n] = jobs[j].new /\ jobs[j].new # 0
      BY <1>2, <1>3, <1>4 DEF Holding
    <3>4. at'[n] # 0 /\ data'[at'[n]] = c
      BY <1>1, <3>2, <3>3
    <3> QED
      BY <1>3, <1>9, <3>4
  <2> QED
    BY <2>3, <2>4
<1>11. fresh <= fresh' /\ ~Busy(jobs'[j]) /\ (\A i \in 1 .. fresh : data'[i] = data[i]) /\ dead' = dead
  BY <1>0, <1>1, <1>5 DEF FilesTypeOK, Busy, Same
<1>12. cpu = j /\ ~dead
  BY <1>1
<1> QED
  BY <1>6, <1>7, <1>8, <1>10, <1>11, <1>12, JobStep

LEMMA UnlinkFailsKeeps ==
  ASSUME FilesInv, NEW j \in Jobs, UnlinkFails(j)
  PROVE  FilesInv'
<1>0. Fits(jobs[j], at, data, j, fresh, window) /\ Tmp(j) \in Names /\ Trash(j) \in Names
  BY FilesSplit, NamesDiffer
<1>1. /\ cpu = j /\ ~dead /\ jobs[j].pc = "checked" /\ jobs[j].kind \in {"move", "delete"}
      /\ UNCHANGED <<data, fresh>> /\ Same
  BY DEF UnlinkFails, Alone
<1>2. CASE ~Linked(j) \/ SameFile(j, A)
  <2>1. RollBack(j)
    BY <1>2 DEF UnlinkFails
  <2> QED
    BY <1>1, <2>1, RollingBack
<1>3. CASE Linked(j) /\ ~SameFile(j, A)
  <2>1. Finish(j, "failed", {})
    BY <1>3 DEF UnlinkFails
  <2>2. at[Tmp(j)] = 0 /\ at[Trash(j)] = 0
    BY <1>0, <1>1, <1>3 DEF Fits, Holding, Taking, Linked
  <2>3. Clean(at', j)
    BY <1>0, <2>1, <2>2 DEF Clean, Finish
  <2> QED
    BY <1>1, <2>1, <2>3, Finishing
<1> QED
  BY <1>2, <1>3

LEMMA TrashRenameKeeps ==
  ASSUME FilesInv, NEW j \in Jobs, TrashRename(j)
  PROVE  FilesInv'
<1>0. /\ FilesTypeOK /\ Fits(jobs[j], at, data, j, fresh, window)
      /\ A \in Names /\ Trash(j) \in Names /\ Trash(j) # A /\ \A k \in Jobs : Trash(j) # Tmp(k)
  BY FilesSplit, NamesDiffer DEF Paths
<1>1. /\ cpu = j /\ ~dead /\ jobs[j].pc = "reserved" /\ jobs[j].kind = "delete"
      /\ UNCHANGED <<data, fresh>> /\ Same
  BY DEF TrashRename, Alone
<1>2. CASE ~SameFile(j, A)
  BY <1>1, <1>2, Failing DEF TrashRename
<1>3. CASE SameFile(j, A)
  <2>1. at' = [at EXCEPT ![Trash(j)] = at[A], ![A] = 0] /\ cpu' = "none"
    BY <1>3 DEF TrashRename
  <2>2. /\ jobs' = [jobs EXCEPT ![j] = jobs'[j]] /\ jobs'[j] \in JobRows
        /\ jobs'[j].pc = "over" /\ jobs'[j].end = "done"
    <3> DEFINE r == [IdleJob EXCEPT !.kind = "delete", !.end = "done", !.pc = "over"]
    <3>1. r \in JobRows /\ r.pc = "over" /\ r.end = "done"
      BY IdleIsAJob DEF JobRows, Stages
    <3>2. jobs' = [jobs EXCEPT ![j] = r]
      BY <1>3 DEF TrashRename
    <3> HIDE DEF r
    <3> QED
      BY <1>0, <3>1, <3>2 DEF FilesTypeOK
  <2>3. /\ at'[Trash(j)] = at[A] /\ at'[A] = 0 /\ \A m \in Names \ {A, Trash(j)} : at'[m] = at[m]
        /\ at' \in [Names -> 0 .. fresh']
    BY <1>0, <1>1, <2>1 DEF FilesTypeOK
  <2>4. FilesTypeOK'
    BY <1>0, <1>1, <2>1, <2>2, <2>3 DEF FilesTypeOK, Same
  <2>5. Fits(jobs'[j], at', data', j, fresh', window')
    BY <2>2 DEF Fits
  <2>6. \A k \in Jobs \ {j} : jobs'[k] = jobs[k] /\ at'[Tmp(k)] = at[Tmp(k)] /\ at'[Trash(k)] = at[Trash(k)]
    <3>1. \A k \in Jobs \ {j} : {Tmp(k), Trash(k)} \subseteq Names \ {A, Trash(j)}
      BY NamesDiffer
    <3> QED
      BY <1>0, <2>2, <2>3, <3>1 DEF FilesTypeOK
  <2>7. \A m : Loose(jobs'[j], at', j, m) => m = Tmp(j)
    BY <2>2 DEF Loose
  <2>8. \A c \in owed' \ (window' \cup blind') : \E m \in Names :
          /\ at'[m] # 0 /\ data'[at'[m]] = c
          /\ ~Loose(jobs'[j], at', j, m) /\ \A k \in Jobs : m # Tmp(k)
    <3> TAKE c \in owed' \ (window' \cup blind')
    <3>1. c \in owed \ (window \cup blind)
      BY <1>1 DEF Same
    <3>2. PICK m \in Names : /\ at[m] \in 1 .. fresh /\ data[at[m]] = c
                             /\ \A k \in Jobs : m # Tmp(k) /\ ~Loose(jobs[k], at, k, m)
      BY <3>1, StoredIsHeld
    <3>3. CASE m = A
      <4>1. at'[Trash(j)] # 0 /\ data'[at'[Trash(j)]] = c
        BY <1>1, <2>3, <3>2, <3>3
      <4> QED
        BY <1>0, <2>7, <4>1
    <3>4. CASE m # A
      <4>1. m # Trash(j)
        <5>1. Holding(jobs[j], at, j, fresh)
          BY <1>0, <1>1 DEF Fits
        <5>2. Loose(jobs[j], at, j, Trash(j))
          BY <1>1, <5>1 DEF Loose, Holding, Taking
        <5> QED
          BY <3>2, <5>2
      <4>2. at'[m] # 0 /\ data'[at'[m]] = c
        BY <1>1, <2>3, <3>2, <3>4, <4>1
      <4> QED
        BY <2>7, <3>2, <4>2
    <3> QED
      BY <3>3, <3>4
  <2>9. fresh <= fresh' /\ ~Busy(jobs'[j]) /\ (\A i \in 1 .. fresh : data'[i] = data[i]) /\ dead' = dead
    BY <1>0, <1>1, <2>2 DEF FilesTypeOK, Busy, Same
  <2>10. cpu = j /\ ~dead
    BY <1>1
  <2> QED
    BY <2>4, <2>5, <2>6, <2>8, <2>9, <2>10, JobStep
<1> QED
  BY <1>2, <1>3

-----------------------------------------------------------------------------
(* The other process. *)

\* What it changes: one path, where `inode` is afterwards, and the data of the
\* file there at most, to a content nobody had; or it takes the name away.
Content(inode) == IF inode = 0 THEN {} ELSE {fresh + 1}
Outsides(path, inode) ==
  /\ path \in Paths /\ at'[path] = inode
  /\ \A n \in Names \ {path} : at'[n] = at[n]
  /\ \A i \in 1 .. fresh : data'[i] = data[i] \/ (path = A /\ i = at[A] /\ data'[i] = fresh + 1)
  /\ \/ inode = 0
     \/ /\ inode = fresh + 1 \/ (path = A /\ inode = at[A] /\ at[A] # 0)
        /\ data'[inode] = fresh + 1
  /\ at' \in [Names -> 0 .. fresh'] /\ data' \in [1 .. Inodes -> Nat] /\ fresh' \in fresh .. Inodes

LEMMA OutsiderFits ==
  ASSUME FilesInv, NEW path, NEW inode, External(path, inode), Outsides(path, inode), NEW j \in Jobs
  PROVE  Fits(jobs[j], at', data', j, fresh', window')
<1>0. /\ FilesTypeOK /\ Fits(jobs[j], at, data, j, fresh, window) /\ jobs[j] \in JobRows
      /\ Tmp(j) \in Names /\ Trash(j) \in Names /\ A \in Names /\ B \in Names /\ A # B
      /\ Tmp(j) \notin Paths /\ Trash(j) \notin Paths /\ at[A] \in 0 .. fresh
  BY FilesSplit, NamesDiffer
<1>1. /\ (path = A \/ path = B) /\ fresh \in Nat /\ fresh' \in Nat /\ fresh <= fresh'
      /\ at'[Tmp(j)] = at[Tmp(j)] /\ at'[Trash(j)] = at[Trash(j)]
      /\ path = A => at'[B] = at[B]
      /\ path = B => at'[A] = at[A]
  <2>1. fresh \in Nat /\ Inodes \in Nat
    BY <1>0, FileWritesAssumption DEF FilesTypeOK
  <2>2. fresh' \in fresh .. Inodes /\ path \in {A, B}
    BY DEF Outsides, Paths
  <2>3. fresh' \in Nat /\ fresh <= fresh'
    BY <2>1, <2>2
  <2>4. \A n \in Names : n # path => at'[n] = at[n]
    BY DEF Outsides
  <2> QED
    BY <1>0, <2>1, <2>2, <2>3, <2>4 DEF Paths
<1>2. window \subseteq window' /\ (Watched(path, inode) => Content(inode) \subseteq window')
  BY DEF External, Content
<1>3. path = B /\ jobs[j].kind = "move" => jobs[j].pc \notin {"linked", "installed", "checked"}
  BY DEF External
<1>4. Clean(at, j) => Clean(at', j)
  BY <1>1 DEF Clean
<1>5. Writing(jobs[j], at, data, j, fresh) => Writing(jobs[j], at', data', j, fresh')
  <2> HAVE Writing(jobs[j], at, data, j, fresh)
  <2>1. data'[jobs[j].new] # 0
    BY <1>0, <1>1 DEF Writing, Outsides, FilesTypeOK
  <2>2. jobs[j].new \in 1 .. fresh' /\ jobs[j].stat \in 0 .. fresh'
    BY <1>0, <1>1 DEF Writing, Outsides, FilesTypeOK
  <2> QED
    BY <1>1, <2>1, <2>2 DEF Writing
<1>6. Taking(jobs[j], at, j, fresh) => Taking(jobs[j], at', j, fresh')
  BY <1>0, <1>1 DEF Taking, Outsides, FilesTypeOK
<1>7. Holding(jobs[j], at, j, fresh) => Holding(jobs[j], at', j, fresh')
  BY <1>0, <1>1, <1>6 DEF Holding, Outsides, FilesTypeOK
\* An inode that is not at A stays as it is, and is not put there.
<1>8. \A i \in 1 .. fresh : at[A] # i => at'[A] # i /\ data'[i] = data[i]
  BY <1>0, <1>1 DEF Outsides, FilesTypeOK
<1>9. jobs[j].pc = "checked" /\ jobs[j].kind = "write" /\ jobs[j].stat # 0
        /\ at[Trash(j)] = jobs[j].stat
        /\ Writing(jobs[j], at, data, j, fresh) /\ Replaceable(jobs[j], at, data, window) =>
        Replaceable(jobs[j], at', data', window')
  <2> HAVE jobs[j].pc = "checked" /\ jobs[j].kind = "write" /\ jobs[j].stat # 0
             /\ at[Trash(j)] = jobs[j].stat
             /\ Writing(jobs[j], at, data, j, fresh) /\ Replaceable(jobs[j], at, data, window)
  <2>1. CASE path = A
    <3>1. inode = jobs[j].stat \/ Content(inode) \subseteq window'
      BY <1>2, <2>1 DEF Watched, Writing, KeptInode
    <3>2. at'[A] = inode /\ (inode = 0 \/ data'[inode] \in Content(inode))
      BY <2>1 DEF Outsides, Content
    <3> QED
      BY <3>1, <3>2 DEF Replaceable
  <2>2. CASE path = B
    <3>1. at[A] \in 1 .. fresh => data'[at[A]] = data[at[A]]
      BY <1>0, <2>2 DEF Outsides
    <3> QED
      BY <1>0, <1>1, <1>2, <2>2, <3>1 DEF Replaceable, FilesTypeOK
  <2> QED
    BY <1>1, <2>1, <2>2
<1>10. jobs[j].pc = "checked" /\ jobs[j].kind # "write" /\ at[jobs[j].dest] = jobs[j].new
         /\ Holding(jobs[j], at, j, fresh) /\ Removable(jobs[j], at, data, window) =>
         Removable(jobs[j], at', data', window')
  <2> HAVE jobs[j].pc = "checked" /\ jobs[j].kind # "write" /\ at[jobs[j].dest] = jobs[j].new
             /\ Holding(jobs[j], at, j, fresh) /\ Removable(jobs[j], at, data, window)
  <2>1. CASE path = A
    <3>1. inode = jobs[j].new \/ Content(inode) \subseteq window'
      BY <1>2, <2>1 DEF Watched, KeptInode
    <3>2. at'[A] = inode /\ (inode = 0 \/ data'[inode] \in Content(inode))
      BY <2>1 DEF Outsides, Content
    <3> QED
      BY <3>1, <3>2 DEF Removable
  <2>2. CASE path = B
    <3>1. \A i \in 1 .. fresh : data'[i] = data[i]
      BY <1>0, <2>2 DEF Outsides
    <3>2. jobs[j].new \in 1 .. fresh /\ at'[A] = at[A] /\ at[A] \in 0 .. fresh
      BY <1>0, <1>1, <2>2 DEF Holding
    <3>3. at[A] # 0 => data'[at[A]] = data[at[A]]
      BY <1>1, <3>1, <3>2
    <3> QED
      BY <1>2, <3>1, <3>2, <3>3 DEF Removable
  <2> QED
    BY <1>1, <2>1, <2>2
<1>11. jobs[j].pc \in {"linked", "installed", "checked"} /\ Holding(jobs[j], at, j, fresh) =>
         at'[jobs[j].dest] = at[jobs[j].dest]
  BY <1>1, <1>3 DEF Holding, Taking
<1>12. CASE jobs[j].pc \in {"idle", "over", "streaming", "backed", "linking", "trashing", "reserved"}
  BY <1>0, <1>1, <1>4, <1>5, <1>6, <1>7, <1>12 DEF Fits
<1>13. CASE jobs[j].pc = "checked"
  <2>1. CASE jobs[j].kind = "write"
    BY <1>0, <1>1, <1>5, <1>9, <1>13, <2>1 DEF Fits, Replaceable
  <2>2. CASE jobs[j].kind # "write"
    BY <1>0, <1>1, <1>7, <1>10, <1>11, <1>13, <2>2 DEF Fits
  <2> QED
    BY <2>1, <2>2
<1>14. CASE jobs[j].pc = "linked"
  <2>1. Holding(jobs[j], at, j, fresh) /\ jobs[j].kind = "move" /\ path = A
    BY <1>0, <1>1, <1>3, <1>14 DEF Fits
  <2> QED
    BY <1>0, <1>1, <1>7, <1>14, <2>1 DEF Fits
<1>15. CASE jobs[j].pc = "copied"
  <2>1. /\ Holding(jobs[j], at, j, fresh) /\ at[Tmp(j)] # 0 /\ at[A] # at[Tmp(j)]
        /\ data[at[Tmp(j)]] = jobs[j].seen
    BY <1>0, <1>15 DEF Fits
  <2>2. at[Tmp(j)] \in 1 .. fresh
    BY <1>0, <2>1 DEF FilesTypeOK
  <2>3. at'[Tmp(j)] # 0 /\ at'[A] # at'[Tmp(j)] /\ data'[at'[Tmp(j)]] = jobs[j].seen
    BY <1>1, <1>8, <2>1, <2>2
  <2> QED
    BY <1>7, <1>15, <2>1, <2>3 DEF Fits
<1>16. CASE jobs[j].pc = "installed"
  <2>1. /\ Holding(jobs[j], at, j, fresh) /\ at[Tmp(j)] = 0 /\ at[jobs[j].dest] = jobs[j].new
        /\ at[A] # jobs[j].new /\ data[jobs[j].new] = jobs[j].seen
    BY <1>0, <1>16 DEF Fits
  <2>2. at'[A] # jobs[j].new /\ data'[jobs[j].new] = jobs[j].seen
    BY <1>8, <2>1 DEF Holding
  <2> QED
    BY <1>1, <1>7, <1>11, <1>16, <2>1, <2>2 DEF Fits
<1> QED
  BY <1>0, <1>12, <1>13, <1>14, <1>15, <1>16 DEF JobRows, Stages

\* The paths are loose only for the file a job has put there.
LEMMA LooseAtPath ==
  ASSUME FilesInv, NEW j \in Jobs, NEW a, NEW path \in Paths, Loose(jobs[j], a, j, path)
  PROVE  path = B /\ a[B] = jobs[j].new /\ jobs[j].new \in 1 .. fresh
<1>1. Fits(jobs[j], at, data, j, fresh, window) /\ path # Tmp(j) /\ path # Trash(j) /\ A # B
  BY FilesSplit, NamesDiffer
<1>2. /\ jobs[j].pc \in {"linked", "reserved", "copied", "installed", "checked"} /\ jobs[j].kind # "write"
      /\ path = jobs[j].dest /\ a[path] = jobs[j].new
  BY <1>1 DEF Loose
<1>3. Holding(jobs[j], at, j, fresh)
  BY <1>1, <1>2 DEF Fits
<1> QED
  BY <1>1, <1>2, <1>3 DEF Holding, Taking

LEMMA OutsiderKeeps ==
  ASSUME FilesInv, NEW path, NEW inode, External(path, inode), Outsides(path, inode)
  PROVE  FilesInv'
<1>0. FilesTypeOK /\ OneRuns /\ path \in Names /\ path \in Paths
  BY DEF FilesInv, Outsides, Names
<1>1. /\ jobs' = jobs /\ cpu' = cpu /\ dead' = dead /\ blind' = blind /\ window \subseteq window'
      /\ outside' = outside + 1
      /\ owed' = (owed \ (IF at[path] = 0 THEN {} ELSE {data[at[path]]})) \cup Content(inode)
  BY DEF External, Content
<1>2. FilesTypeOK'
  <2>1. 0 \notin owed'
    BY <1>0, <1>1 DEF FilesTypeOK, Outsides, Content
  <2>2. at' \in [Names -> 0 .. fresh'] /\ data' \in [1 .. Inodes -> Nat] /\ fresh' \in 1 .. Inodes
    BY <1>0, FileWritesAssumption DEF FilesTypeOK, Outsides
  <2> QED
    BY <1>0, <1>1, <2>1, <2>2 DEF FilesTypeOK
<1>3. OneRuns'
  BY <1>0, <1>1 DEF OneRuns
<1>4. \A j \in Jobs : Fits(jobs'[j], at', data', j, fresh', window')
  BY <1>1, OutsiderFits
<1>5. StaysStored'
  <2> SUFFICES ASSUME NEW c \in owed' \ (window' \cup blind')
               PROVE  Held(c, at', data', jobs')
    BY DEF StaysStored
  <2>1. CASE c \in Content(inode)
    <3>1. /\ at'[path] # 0 /\ data'[at'[path]] = c
          /\ at'[path] = fresh + 1 \/ path = A
      BY <1>0, <2>1 DEF Outsides, FilesTypeOK, Content
    <3>2. \A j \in Jobs : ~Loose(jobs'[j], at', j, path)
      <4> SUFFICES ASSUME NEW j \in Jobs, Loose(jobs[j], at', j, path)
                   PROVE  FALSE
        BY <1>1
      <4>1. path = B /\ at'[B] = jobs[j].new /\ jobs[j].new \in 1 .. fresh /\ A # B
        BY <1>0, LooseAtPath, NamesDiffer
      <4> QED
        BY <1>0, <3>1, <4>1 DEF FilesTypeOK
    <3> QED
      BY <1>0, <3>1, <3>2 DEF Held
  <2>2. CASE c \notin Content(inode)
    <3>1. c \in owed \ (window \cup blind) /\ (at[path] # 0 => c # data[at[path]])
      BY <1>1, <2>2
    <3>2. PICK n \in Names : /\ at[n] \in 1 .. fresh /\ data[at[n]] = c
                             /\ \A k \in Jobs : n # Tmp(k) /\ ~Loose(jobs[k], at, k, n)
      BY <3>1, StoredIsHeld
    <3>3. n # path /\ at[n] # 0
      BY <3>1, <3>2
    <3>4. at'[n] = at[n]
      BY <3>3 DEF Outsides
    <3>5. data'[at[n]] = c
      BY <3>1, <3>2, <3>3 DEF Outsides
    <3>6. \A j \in Jobs : ~Loose(jobs'[j], at', j, n)
      BY <1>1, <3>2, <3>4 DEF Loose
    <3> QED
      BY <3>3, <3>4, <3>5, <3>6 DEF Held
  <2> QED
    BY <2>1, <2>2
<1> QED
  BY <1>2, <1>3, <1>4, <1>5 DEF FilesInv

LEMMA ExternalKeeps ==
  ASSUME FilesInv, (\E path \in Paths : Store(path) \/ Remove(path)) \/ Edit
  PROVE  FilesInv'
<1>0. FilesTypeOK /\ fresh \in 1 .. Inodes /\ Inodes \in Nat /\ A \in Names /\ A \in Paths
  BY FileWritesAssumption DEF FilesInv, FilesTypeOK, Names, Paths
<1>1. ASSUME NEW path \in Paths, Store(path)
      PROVE  FilesInv'
  <2>0. path \in Names
    BY DEF Names
  <2>1. /\ External(path, fresh + 1) /\ fresh' = fresh + 1 /\ fresh < Inodes
        /\ at' = [at EXCEPT ![path] = fresh + 1] /\ data' = [data EXCEPT ![fresh + 1] = fresh + 1]
    BY <1>1 DEF Store, External
  <2>2. fresh + 1 \in 1 .. Inodes /\ fresh \in Nat /\ at \in [Names -> 0 .. fresh] /\ data \in [1 .. Inodes -> Nat]
    BY <1>0, <2>1 DEF FilesTypeOK
  <2>3. /\ at'[path] = fresh + 1 /\ data'[fresh + 1] = fresh + 1
        /\ \A n \in Names \ {path} : at'[n] = at[n]
        /\ \A i \in 1 .. fresh : data'[i] = data[i]
        /\ data' \in [1 .. Inodes -> Nat] /\ fresh' \in fresh .. Inodes
    BY <1>0, <2>0, <2>1, <2>2
  <2>4. at' \in [Names -> 0 .. fresh']
    <3>1. \A m \in Names : at[m] \in 0 .. fresh'
      BY <2>1, <2>2
    <3>2. fresh + 1 \in 0 .. fresh'
      BY <2>1, <2>2
    <3> QED
      BY <2>0, <2>1, <2>2, <3>1, <3>2
  <2>5. Outsides(path, fresh + 1)
    BY <2>3, <2>4 DEF Outsides
  <2> QED
    BY <2>1, <2>5, OutsiderKeeps
<1>2. ASSUME NEW path \in Paths, Remove(path)
      PROVE  FilesInv'
  <2>0. path \in Names
    BY DEF Names
  <2>1. External(path, 0) /\ at' = [at EXCEPT ![path] = 0] /\ UNCHANGED <<data, fresh>>
    BY <1>2 DEF Remove
  <2>2. Outsides(path, 0)
    BY <1>0, <2>0, <2>1 DEF Outsides, FilesTypeOK
  <2> QED
    BY <2>1, <2>2, OutsiderKeeps
<1>3. ASSUME Edit
      PROVE  FilesInv'
  <2>1. /\ External(A, at[A]) /\ fresh' = fresh + 1 /\ fresh < Inodes /\ at[A] # 0
        /\ at' = at /\ data' = [data EXCEPT ![at[A]] = fresh + 1]
    BY <1>3 DEF Edit, External
  <2>2. /\ fresh + 1 \in 1 .. Inodes /\ fresh \in Nat /\ at \in [Names -> 0 .. fresh] /\ data \in [1 .. Inodes -> Nat]
        /\ at[A] \in 1 .. fresh /\ at[A] \in 1 .. Inodes
    BY <1>0, <2>1 DEF FilesTypeOK
  <2>3. /\ data'[at[A]] = fresh + 1 /\ \A i \in 1 .. fresh : i # at[A] => data'[i] = data[i]
        /\ data' \in [1 .. Inodes -> Nat] /\ fresh' \in fresh .. Inodes
    BY <1>0, <2>1, <2>2
  <2>4. at' \in [Names -> 0 .. fresh']
    <3>1. \A m \in Names : at[m] \in 0 .. fresh'
      BY <2>1, <2>2
    <3> QED
      BY <2>1, <2>2, <3>1
  <2>5. Outsides(A, at[A])
    BY <1>0, <2>1, <2>2, <2>3, <2>4 DEF Outsides
  <2> QED
    BY <2>1, <2>5, OutsiderKeeps
<1> QED
  BY <1>1, <1>2, <1>3

-----------------------------------------------------------------------------

LEMMA FilesInvInit == FilesInit => FilesInv
<1> SUFFICES ASSUME FilesInit PROVE FilesInv
  OBVIOUS
<1>0. A \in Names /\ A # B /\ 1 \in 1 .. Inodes /\ Inodes \in Nat
  BY FileWritesAssumption DEF Names, Paths, A, B
<1>1. PICK there \in {0, 1} : at = [n \in Names |-> IF n = A THEN there ELSE 0]
  BY DEF FilesInit
<1>2. /\ data = [i \in 1 .. Inodes |-> IF i = 1 THEN 1 ELSE 0] /\ fresh = 1 /\ outside = 0
      /\ jobs = [j \in Jobs |-> IdleJob] /\ cpu = "none" /\ dead = FALSE
      /\ owed = Reachable /\ window = {} /\ blind = {}
  BY DEF FilesInit
<1>3. FilesTypeOK
  <2>1. 0 \notin owed
    BY <1>2 DEF Reachable
  <2>2. at \in [Names -> 0 .. fresh] /\ data \in [1 .. Inodes -> Nat] /\ fresh \in 1 .. Inodes
    BY <1>0, <1>1, <1>2
  <2>3. jobs \in [Jobs -> JobRows]
    BY <1>2, IdleIsAJob
  <2> QED
    BY <1>2, <2>1, <2>2, <2>3 DEF FilesTypeOK
<1>4. \A j \in Jobs : jobs[j].pc = "idle" /\ jobs[j].end = "none" /\ Clean(at, j)
  <2> TAKE j \in Jobs
  <2>1. jobs[j] = IdleJob
    BY <1>2
  <2>2. Clean(at, j)
    BY <1>1, NamesDiffer DEF Clean
  <2> QED
    BY <2>1, <2>2 DEF IdleJob
<1>5. OneRuns /\ \A j \in Jobs : Fits(jobs[j], at, data, j, fresh, window)
  BY <1>4 DEF OneRuns, Busy, Fits
<1>6. StaysStored
  <2> SUFFICES ASSUME NEW c \in owed
               PROVE  Held(c, at, data, jobs)
    BY DEF StaysStored
  <2>1. PICK n \in Names : at[n] # 0 /\ data[at[n]] = c
    BY <1>2 DEF Reachable
  <2>2. n = A
    BY <1>1, <2>1
  <2>3. \A j \in Jobs : ~Loose(jobs[j], at, j, A)
    BY <1>4, NamesDiffer DEF Loose
  <2> QED
    BY <2>1, <2>2, <2>3 DEF Held
<1> QED
  BY <1>3, <1>5, <1>6 DEF FilesInv

LEMMA FilesInvStep == FilesInv /\ [FilesNext]_fileVars => FilesInv'
<1> SUFFICES ASSUME FilesInv, [FilesNext]_fileVars PROVE FilesInv'
  OBVIOUS
<1>1. ASSUME NEW j \in Jobs,
             \/ \E over \in BOOLEAN : WriteStarts(j, over)
             \/ StreamBreaks(j) \/ Backup(j) \/ CheckTarget(j) \/ Replace(j) \/ Create(j)
             \/ MoveStarts(j) \/ Link(j) \/ Reserve(j) \/ Copy(j) \/ Install(j)
             \/ CheckSource(j) \/ Unlink(j) \/ UnlinkFails(j)
             \/ DeleteStarts(j) \/ TrashRename(j)
      PROVE  FilesInv'
  <2>1. ASSUME StreamBreaks(j) PROVE FilesInv'
    BY <2>1, Failing DEF StreamBreaks
  <2> QED
    BY <1>1, <2>1, WriteStartsKeeps, BackupKeeps, CheckTargetKeeps, ReplaceKeeps, CreateKeeps, MoveStartsKeeps,
       LinkKeeps, ReserveKeeps, CopyKeeps, InstallKeeps, CheckSourceKeeps, UnlinkKeeps, UnlinkFailsKeeps,
       DeleteStartsKeeps, TrashRenameKeeps
<1>2. ASSUME WriterDies PROVE FilesInv'
  BY <1>2 DEF WriterDies, FilesInv, FilesTypeOK, OneRuns, StaysStored, Held
<1>3. ASSUME UNCHANGED fileVars PROVE FilesInv'
  BY <1>3 DEF fileVars, FilesInv, FilesTypeOK, OneRuns, StaysStored, Held
<1> QED
  BY <1>1, <1>2, <1>3, ExternalKeeps DEF FilesNext

LEMMA FilesInvSafe == FilesInv => WritesAreSafe
<1> SUFFICES ASSUME FilesInv PROVE WritesAreSafe
  OBVIOUS
<1>1. NothingLost
  <2> SUFFICES ASSUME NEW c \in owed \ (window \cup blind)
               PROVE  c \in Reachable
    BY DEF NothingLost
  <2>1. PICK n \in Names : at[n] \in 1 .. fresh /\ data[at[n]] = c
    BY StoredIsHeld
  <2>2. at[n] # 0 /\ c # 0
    BY <2>1 DEF FilesInv, FilesTypeOK
  <2> QED
    BY <2>1, <2>2 DEF Reachable
<1>2. FailedLeavesNothing
  <2> SUFFICES ASSUME NEW j \in Jobs, jobs[j].end = "failed"
               PROVE  at[Tmp(j)] = 0 /\ at[Trash(j)] = 0
    BY DEF FailedLeavesNothing
  <2>1. Fits(jobs[j], at, data, j, fresh, window) /\ jobs[j].pc \in Stages
    BY FilesSplit DEF JobRows
  <2>2. jobs[j].pc = "over"
    BY <2>1 DEF Fits, Writing, Taking, Holding, Stages
  <2> QED
    BY <2>1, <2>2 DEF Fits, Clean
<1> QED
  BY <1>1, <1>2 DEF WritesAreSafe

\* Whatever another process or another request stored can be found again, at
\* every step of every write, move and delete and in every crash, but for what
\* is stored between the last look and the commit, and what a replacing write
\* finds at a name that was free; and a request that fails leaves none of its
\* own names behind.  For any number of requests, files and outside changes
\* (writeFileAtomic, moveGuarded, trashGuarded).
THEOREM NothingStoredIsLost == FilesSpec => []WritesAreSafe
<1>1. FilesSpec => []FilesInv
  BY FilesInvInit, FilesInvStep, PTL DEF FilesSpec
<1> QED
  BY <1>1, FilesInvSafe, PTL

-----------------------------------------------------------------------------
(* MessageIndex: the index has no more than the log, every flag it has is a   *)
(* right one once the second walk has passed it, and what the first walk has  *)
(* passed, or what was appended since, is in it.                              *)

MessageTypes ==
  /\ events \in Seq(EventKinds \cup {"gone"}) /\ Len(events) <= MaxEvents
  /\ index \in [1 .. MaxEvents -> {"no", "plain", "diff"}]
  /\ filled \in 0 .. LastRow /\ mended \in 0 .. LastRow
  /\ walk \in {"off", "fill", "mend", "rest", "done"}

\* An entry is of a message the log still has; only a diff is flagged as one.
OfTheLog == \A n \in 1 .. MaxEvents : index[n] # "no" =>
  n <= LastRow /\ Searchable(n) /\ (index[n] = "diff" => events[n] = "diff")

\* What the walks have passed.
PassedBy(n) ==
  /\ (n <= filled \/ walk \in {"mend", "done"}) /\ Searchable(n) => index[n] # "no"
  /\ (n <= mended \/ walk = "done") /\ index[n] # "no" => index[n] = Flag(n)

MessageInv == MessageTypes /\ OfTheLog /\ \A n \in 1 .. LastRow : PassedBy(n)

LEMMA MessageInvInit == MessagesInit => MessageInv
<1> SUFFICES ASSUME MessagesInit PROVE MessageInv
  OBVIOUS
<1>0. MaxEvents \in Nat
  BY MessageAssumption
<1>1. PICK len \in 0 .. MaxEvents : events \in [1 .. len -> EventKinds]
  BY DEF MessagesInit, Histories
<1>2. events \in Seq(EventKinds \cup {"gone"}) /\ Len(events) = len
  BY <1>0, <1>1
<1>3. walk = "off"
  BY DEF MessagesInit
<1>4. LastRow = len /\ len \in Nat
  BY <1>0, <1>2 DEF LastRow
<1>5. CASE filled = 0 /\ index = NoIndex /\ mended = Seed(FALSE)
  <2>1. mended = LastRow /\ \A n \in 1 .. MaxEvents : index[n] = "no"
    BY <1>5 DEF Seed, NoIndex
  <2>2. MessageTypes
    <3>1. index \in [1 .. MaxEvents -> {"no", "plain", "diff"}]
      BY <1>5 DEF NoIndex
    <3>2. filled \in 0 .. LastRow /\ mended \in 0 .. LastRow
      <4>1. LastRow \in Nat /\ filled = 0 /\ mended = LastRow
        BY <1>4, <1>5, <2>1
      <4> QED
        BY <4>1
    <3> QED
      BY <1>0, <1>2, <1>3, <3>1, <3>2 DEF MessageTypes
  <2>3. OfTheLog
    BY <2>1 DEF OfTheLog
  <2>4. \A n \in 1 .. LastRow : PassedBy(n)
    <3>1. filled = 0 /\ \A n \in 1 .. LastRow : n \in 1 .. MaxEvents /\ ~(n <= 0)
      BY <1>0, <1>4, <1>5
    <3> QED
      BY <1>3, <2>1, <3>1 DEF PassedBy
  <2> QED
    BY <2>2, <2>3, <2>4 DEF MessageInv
<1>6. ASSUME NEW l \in 0 .. LastRow, NEW f \in 0 .. LastRow, filled = f, index = OldIndex(f, l), mended = Seed(TRUE)
      PROVE  MessageInv
  <2>1. mended = 0
    BY <1>6 DEF Seed
  <2>2. \A n \in 1 .. MaxEvents :
          index[n] = IF n <= LastRow /\ (n <= f \/ n > l) /\ Searchable(n) THEN "plain" ELSE "no"
    BY <1>6 DEF OldIndex
  <2>3. index \in [1 .. MaxEvents -> {"no", "plain", "diff"}]
    BY <1>6 DEF OldIndex
  <2>4. MessageTypes
    <3>1. filled \in 0 .. LastRow /\ mended \in 0 .. LastRow
      <4>1. LastRow \in Nat /\ filled = f /\ mended = 0
        BY <1>4, <1>6, <2>1
      <4> QED
        BY <4>1
    <3> QED
      BY <1>0, <1>2, <1>3, <2>3, <3>1 DEF MessageTypes
  <2>5. OfTheLog
    BY <2>2 DEF OfTheLog
  <2>6. \A n \in 1 .. LastRow : PassedBy(n)
    <3>1. filled = f /\ \A n \in 1 .. LastRow : n \in 1 .. MaxEvents /\ ~(n <= 0)
      BY <1>0, <1>4, <1>6
    <3> QED
      BY <1>3, <2>1, <2>2, <3>1 DEF PassedBy
  <2> QED
    BY <2>4, <2>5, <2>6 DEF MessageInv
<1> QED
  BY <1>5, <1>6 DEF MessagesInit

LEMMA MessageInvStep == MessageInv /\ [MessagesNext]_messageVars => MessageInv'
<1> SUFFICES ASSUME MessageInv, [MessagesNext]_messageVars PROVE MessageInv'
  OBVIOUS
<1>0. /\ MessageTypes /\ OfTheLog /\ \A n \in 1 .. LastRow : PassedBy(n)
      /\ MaxEvents \in Nat /\ WalkBatch \in Nat \ {0} /\ LastRow \in 0 .. MaxEvents
  BY MessageAssumption DEF MessageInv, MessageTypes, LastRow
<1>1. ASSUME NEW kind \in EventKinds, AppendMessage(kind)
      PROVE  MessageInv'
  <2>1. /\ LastRow < MaxEvents /\ events' = Append(events, kind)
        /\ UNCHANGED <<filled, mended, walk>>
    BY <1>1 DEF AppendMessage
  <2>2. PICK e \in {"no", "diff", "plain"} :
          /\ index' = [index EXCEPT ![LastRow + 1] = e]
          /\ e = IF kind = "none" THEN "no" ELSE IF kind = "diff" THEN "diff" ELSE "plain"
    BY <1>1 DEF AppendMessage
  <2>3. /\ events' \in Seq(EventKinds \cup {"gone"}) /\ LastRow' = LastRow + 1
        /\ events'[LastRow + 1] = kind /\ \A n \in 1 .. LastRow : events'[n] = events[n]
    BY <1>0, <2>1 DEF MessageTypes, LastRow
  <2>4. /\ index' \in [1 .. MaxEvents -> {"no", "plain", "diff"}] /\ index'[LastRow + 1] = e
        /\ \A n \in 1 .. MaxEvents : n # LastRow + 1 => index'[n] = index[n]
    BY <1>0, <2>1, <2>2 DEF MessageTypes
  <2>5. MessageTypes'
    BY <1>0, <2>1, <2>3, <2>4 DEF MessageTypes, LastRow
  <2>6. OfTheLog'
    <3> SUFFICES ASSUME NEW n \in 1 .. MaxEvents, index'[n] # "no"
                 PROVE  n <= LastRow' /\ Searchable(n)' /\ (index'[n] = "diff" => events'[n] = "diff")
      BY DEF OfTheLog
    <3>1. CASE n = LastRow + 1
      BY <2>2, <2>3, <2>4, <3>1 DEF Searchable, EventKinds
    <3>2. CASE n # LastRow + 1
      BY <1>0, <2>3, <2>4, <3>2 DEF OfTheLog, Searchable
    <3> QED
      BY <3>1, <3>2
  <2>7. ASSUME NEW n \in 1 .. LastRow' PROVE PassedBy(n)'
    <3>1. CASE n = LastRow + 1
      BY <1>0, <2>1, <2>2, <2>3, <2>4, <3>1 DEF PassedBy, Searchable, Flag, EventKinds, MessageTypes
    <3>2. CASE n # LastRow + 1
      <4>1. n \in 1 .. LastRow /\ n \in 1 .. MaxEvents
        BY <1>0, <2>3, <2>7, <3>2
      <4> QED
        BY <1>0, <2>1, <2>3, <2>4, <3>2, <4>1 DEF PassedBy, Searchable, Flag
    <3> QED
      BY <3>1, <3>2
  <2> QED
    BY <2>5, <2>6, <2>7 DEF MessageInv
<1>2. ASSUME NEW m \in 1 .. MaxEvents, ForgetContent(m)
      PROVE  MessageInv'
  <2>1. /\ m \in 1 .. LastRow /\ events' = [events EXCEPT ![m] = "gone"]
        /\ index' = [index EXCEPT ![m] = "no"] /\ UNCHANGED <<filled, mended, walk>>
    BY <1>2 DEF ForgetContent, Removed
  <2>2. /\ events' \in Seq(EventKinds \cup {"gone"}) /\ LastRow' = LastRow /\ events'[m] = "gone"
        /\ \A n \in 1 .. LastRow : n # m => events'[n] = events[n]
    BY <1>0, <2>1 DEF MessageTypes, LastRow
  <2>3. /\ index' \in [1 .. MaxEvents -> {"no", "plain", "diff"}] /\ index'[m] = "no"
        /\ \A n \in 1 .. MaxEvents : n # m => index'[n] = index[n]
    BY <1>0, <2>1 DEF MessageTypes
  <2>4. MessageTypes'
    BY <1>0, <2>1, <2>2, <2>3 DEF MessageTypes, LastRow
  <2>5. OfTheLog'
    BY <1>0, <2>2, <2>3 DEF OfTheLog, Searchable
  <2>6. ASSUME NEW n \in 1 .. LastRow' PROVE PassedBy(n)'
    <3>1. CASE n = m
      BY <2>2, <2>3, <3>1 DEF PassedBy, Searchable
    <3>2. CASE n # m
      <4>1. n \in 1 .. LastRow /\ n \in 1 .. MaxEvents
        BY <1>0, <2>2, <2>6
      <4> QED
        BY <1>0, <2>1, <2>2, <2>3, <3>2, <4>1 DEF PassedBy, Searchable, Flag
    <3> QED
      BY <3>1, <3>2
  <2> QED
    BY <2>4, <2>5, <2>6 DEF MessageInv
<1>3. ASSUME FillBatch
      PROVE  MessageInv'
  <2>1. /\ walk = "fill" /\ filled < LastRow /\ filled' = Ceiling(filled) /\ UNCHANGED <<events, mended, walk>>
        /\ index' = [n \in 1 .. MaxEvents |->
             IF n \in filled + 1 .. Ceiling(filled) /\ Searchable(n) /\ index[n] = "no" THEN Flag(n) ELSE index[n]]
    BY <1>3 DEF FillBatch, Entry
  <2>2. PICK g \in 0 .. LastRow : g = Ceiling(filled) /\ filled < g
    BY <1>0, <2>1 DEF Ceiling, MessageTypes
  <2>3. LastRow' = LastRow /\ \A n \in 1 .. LastRow : Searchable(n)' = Searchable(n) /\ Flag(n)' = Flag(n)
    BY <2>1 DEF LastRow, Searchable, Flag
  <2>4. /\ index' \in [1 .. MaxEvents -> {"no", "plain", "diff"}]
        /\ \A n \in 1 .. MaxEvents :
             index'[n] = IF n \in filled + 1 .. g /\ Searchable(n) /\ index[n] = "no" THEN Flag(n) ELSE index[n]
    BY <1>0, <2>1, <2>2 DEF MessageTypes, Flag
  <2>5. MessageTypes'
    BY <1>0, <2>1, <2>2, <2>3, <2>4 DEF MessageTypes, LastRow
  <2>6. OfTheLog'
    <3> SUFFICES ASSUME NEW n \in 1 .. MaxEvents, index'[n] # "no"
                 PROVE  n <= LastRow' /\ Searchable(n)' /\ (index'[n] = "diff" => events'[n] = "diff")
      BY DEF OfTheLog
    <3>1. CASE index[n] # "no"
      BY <1>0, <2>1, <2>3, <2>4, <3>1 DEF OfTheLog, Searchable
    <3>2. CASE index[n] = "no"
      <4>1. n \in filled + 1 .. g /\ Searchable(n) /\ index'[n] = Flag(n)
        BY <2>4, <3>2
      <4>2. n <= LastRow
        BY <1>0, <2>2, <4>1 DEF MessageTypes
      <4> QED
        BY <2>1, <2>3, <4>1, <4>2 DEF Flag, Searchable
    <3> QED
      BY <3>1, <3>2
  <2>7. ASSUME NEW n \in 1 .. LastRow' PROVE PassedBy(n)'
    <3>1. n \in 1 .. LastRow /\ n \in 1 .. MaxEvents /\ filled \in Nat /\ g \in Nat
      BY <1>0, <2>2, <2>3, <2>7 DEF MessageTypes
    <3>2. PassedBy(n)
      BY <1>0, <3>1
    <3>3. n <= filled' /\ Searchable(n) => index'[n] # "no"
      BY <2>1, <2>2, <2>4, <3>1, <3>2 DEF PassedBy, Flag
    <3>4. n <= mended /\ index'[n] # "no" => index'[n] = Flag(n)
      BY <2>4, <3>1, <3>2 DEF PassedBy
    <3> QED
      BY <2>1, <2>3, <3>1, <3>3, <3>4 DEF PassedBy
  <2> QED
    BY <2>5, <2>6, <2>7 DEF MessageInv
<1>4. ASSUME MendBatch
      PROVE  MessageInv'
  <2>1. /\ walk \in {"mend", "rest"} /\ mended < LastRow /\ mended' = Ceiling(mended) /\ UNCHANGED <<events, filled, walk>>
        /\ index' = [n \in 1 .. MaxEvents |->
             IF n \in mended + 1 .. Ceiling(mended) /\ index[n] # "no" /\ events[n] = "diff" THEN "diff" ELSE index[n]]
    BY <1>4 DEF MendBatch
  <2>2. PICK g \in 0 .. LastRow : g = Ceiling(mended) /\ mended < g
    BY <1>0, <2>1 DEF Ceiling, MessageTypes
  <2>3. LastRow' = LastRow /\ \A n \in 1 .. LastRow : Searchable(n)' = Searchable(n) /\ Flag(n)' = Flag(n)
    BY <2>1 DEF LastRow, Searchable, Flag
  <2>4. /\ index' \in [1 .. MaxEvents -> {"no", "plain", "diff"}]
        /\ \A n \in 1 .. MaxEvents :
             index'[n] = IF n \in mended + 1 .. g /\ index[n] # "no" /\ events[n] = "diff" THEN "diff" ELSE index[n]
    BY <1>0, <2>1, <2>2 DEF MessageTypes
  <2>5. MessageTypes'
    BY <1>0, <2>1, <2>2, <2>3, <2>4 DEF MessageTypes, LastRow
  <2>6. OfTheLog'
    BY <1>0, <2>1, <2>3, <2>4 DEF OfTheLog, Searchable
  <2>7. ASSUME NEW n \in 1 .. LastRow' PROVE PassedBy(n)'
    <3>1. n \in 1 .. LastRow /\ n \in 1 .. MaxEvents /\ mended \in Nat /\ g \in Nat
      BY <1>0, <2>2, <2>3, <2>7 DEF MessageTypes
    <3>2. PassedBy(n) /\ index[n] \in {"no", "plain", "diff"} /\ (index[n] = "diff" => events[n] = "diff")
      BY <1>0, <3>1 DEF MessageTypes, OfTheLog
    <3>3. (index'[n] # "no") <=> (index[n] # "no")
      BY <2>4, <3>1
    <3>4. n <= g /\ index'[n] # "no" => index'[n] = Flag(n)
      BY <2>4, <3>1, <3>2 DEF PassedBy, Flag
    <3> QED
      BY <2>1, <2>2, <2>3, <3>1, <3>2, <3>3, <3>4 DEF PassedBy
  <2> QED
    BY <2>5, <2>6, <2>7 DEF MessageInv
<1>5. ASSUME StartWalks \/ FillFails \/ EndWalk \/ StopWalks
      PROVE  MessageInv'
  <2>1. UNCHANGED <<events, index, filled, mended>> /\ walk' \in {"off", "fill", "mend", "rest", "done"}
    BY <1>5 DEF StartWalks, FillFails, EndWalk, StopWalks
  <2>2. MessageTypes' /\ OfTheLog' /\ LastRow' = LastRow
    BY <1>0, <2>1 DEF MessageTypes, OfTheLog, LastRow, Searchable
  <2>3. /\ walk' \in {"mend", "done"} => filled = LastRow \/ walk \in {"mend", "done"}
        /\ walk' = "done" => mended = LastRow
    BY <1>0, <1>5 DEF StartWalks, FillFails, EndWalk, StopWalks, MessageTypes
  <2>4. ASSUME NEW n \in 1 .. LastRow' PROVE PassedBy(n)'
    <3>1. PassedBy(n) /\ n \in 1 .. LastRow
      BY <1>0, <2>2, <2>4
    <3> QED
      BY <1>0, <2>1, <2>3, <3>1 DEF PassedBy, Searchable, Flag
  <2> QED
    BY <2>2, <2>4 DEF MessageInv
<1>6. ASSUME UNCHANGED messageVars
      PROVE  MessageInv'
  BY <1>0, <1>6 DEF messageVars, MessageInv, MessageTypes, OfTheLog, PassedBy, LastRow, Searchable, Flag
<1> QED
  BY <1>1, <1>2, <1>3, <1>4, <1>5, <1>6 DEF MessagesNext

LEMMA MessageInvFound == MessageInv => MessagesFound
<1> SUFFICES ASSUME MessageInv PROVE MessagesFound
  OBVIOUS
<1>1. LastRow \in 0 .. MaxEvents /\ MaxEvents \in Nat
  BY MessageAssumption DEF MessageInv, MessageTypes, LastRow
<1>2. \A n \in Indexed : n <= LastRow /\ Searchable(n)
  BY DEF MessageInv, OfTheLog, Indexed
<1>3. walk = "done" => \A n \in 1 .. LastRow : Searchable(n) => index[n] = Flag(n)
  BY DEF MessageInv, PassedBy
<1> QED
  BY <1>2, <1>3 DEF MessagesFound

\* The index never has words the log does not have any more, and once both
\* walks have ended it has every message with prose or a diff, told apart, for
\* logs and batches of any length, whatever release wrote the database and
\* whatever was appended or expired meanwhile (search.js, journal.js append,
\* retention.js runExpireDeviceContent).
THEOREM MessagesAreFound == MessagesInit /\ [][MessagesNext]_messageVars => []MessagesFound
<1>1. MessagesInit /\ [][MessagesNext]_messageVars => []MessageInv
  BY MessageInvInit, MessageInvStep, PTL
<1> QED
  BY <1>1, MessageInvFound, PTL

-----------------------------------------------------------------------------
(* BlobTranscripts: the inductive invariant. *)

Statuses == {"gone", "none", "pending", "done", "failed"}

TranscriptTypes ==
  /\ status \in [Notes -> Statuses]
  /\ asked \in [Notes -> Nat]
  /\ line \in Seq(Notes) /\ busy \subseteq Notes
  /\ count \in [Users -> Int]
  /\ mode \in {"up", "closing", "down"}

InLine(l) == {l[i] : i \in 1 .. Len(l)}
OneEach(l, b) ==
  /\ \A i, j \in 1 .. Len(l) : l[i] = l[j] => i = j
  /\ InLine(l) \cap b = {}
OfUser(S, u) == {n \in S : Owner[n] = u}
Counted(c, S) == \A u \in Users : c[u] <= UserMax /\ c[u] = Cardinality(OfUser(S, u))

\* The jobs are what waits in the line and what the transcriber has, each once
\* and within the limits.
JobsHold ==
  /\ OneEach(line, busy) /\ job = InLine(line) \cup busy
  /\ Cardinality(busy) <= Slots /\ Len(line) + Cardinality(busy) <= QueueMax
  /\ waits \subseteq job
  /\ mode = "closing" => line = <<>>

\* A journal that runs has counted them, and they are those of the rows that
\* are pending, or were when they were reaped.
RowsHold ==
  mode = "up" => /\ Counted(count, job)
                 /\ \A n \in job : status[n] \in {"pending", "gone"}
                 /\ \A n \in Notes : status[n] = "pending" => n \in job \cup unwritten

AtRest ==
  mode = "down" => /\ line = <<>> /\ busy = {} /\ unwritten = {}
                   /\ count = [u \in Users |-> 0]

TranscriptInv == TranscriptTypes /\ JobsHold /\ RowsHold /\ AtRest

\* What the first k of a line without repetition hold is k of them.
LEMMA FirstOfLine ==
  ASSUME NEW l \in Seq(Notes), NEW k \in 0 .. Len(l), \A i, j \in 1 .. Len(l) : l[i] = l[j] => i = j
  PROVE  /\ IsFiniteSet({l[i] : i \in 1 .. k}) /\ Cardinality({l[i] : i \in 1 .. k}) = k
<1> DEFINE f == [i \in 1 .. k |-> l[i]]
           S == {l[i] : i \in 1 .. k}
<1>1. f \in Bijection(1 .. k, S)
  <2>1. f \in [1 .. k -> S]
    OBVIOUS
  <2>2. \A i, j \in 1 .. k : f[i] = f[j] => i = j
    BY <2>1
  <2>3. \A x \in S : \E i \in 1 .. k : f[i] = x
    OBVIOUS
  <2> HIDE DEF f, S
  <2> QED
    BY <2>1, <2>2, <2>3 DEF Bijection, Injection, Surjection, IsInjective
<1>2. IsFiniteSet(1 .. k) /\ Cardinality(1 .. k) = k
  BY FS_Interval
<1> QED
  BY <1>1, <1>2, FS_Bijection DEF ExistsBijection

\* pump takes the first of the line up, and keeps what is counted.
LEMMA PumpKeeps ==
  ASSUME NEW l \in Seq(Notes), NEW b \in SUBSET Notes, OneEach(l, b), Cardinality(b) <= Slots, Pump(l, b)
  PROVE  /\ line' \in Seq(Notes) /\ busy' \subseteq Notes /\ OneEach(line', busy')
         /\ InLine(line') \cup busy' = InLine(l) \cup b
         /\ Cardinality(busy') <= Slots
         /\ Len(line') + Cardinality(busy') = Len(l) + Cardinality(b)
         /\ l = <<>> => line' = <<>>
<1>1. IsFiniteSet(b) /\ Cardinality(b) \in Nat /\ Slots \in Nat
  BY TranscriptAssumption, FS_Subset, FS_CardinalityType
<1>2. PICK k \in 0 .. Len(l) : k = Taken(l, b) /\ k + Cardinality(b) <= Slots
  BY <1>1 DEF Taken
<1> DEFINE T == {l[i] : i \in 1 .. k}
<1>3. line' = SubSeq(l, k + 1, Len(l)) /\ busy' = b \cup T
  BY <1>2 DEF Pump
<1>4. /\ line' \in Seq(Notes) /\ Len(line') = Len(l) - k
      /\ \A i \in 1 .. Len(line') : line'[i] = l[i + k] /\ i + k \in 1 .. Len(l)
  BY <1>3
<1>5. T \subseteq InLine(l)
  BY DEF InLine
<1>6. IsFiniteSet(T) /\ Cardinality(T) = k
  BY FirstOfLine DEF OneEach
<1>7. b \cap T = {}
  BY <1>5 DEF OneEach
<1>8. Cardinality(busy') = Cardinality(b) + k
  <2> HIDE DEF T
  <2>1. Cardinality(b \cup T) = Cardinality(b) + Cardinality(T) - Cardinality(b \cap T)
    BY <1>1, <1>6, FS_Union
  <2>2. Cardinality(b \cap T) = 0
    BY <1>7, FS_EmptySet
  <2> QED
    BY <1>1, <1>2, <1>3, <1>6, <2>1, <2>2
<1>9. InLine(line') \cup T = InLine(l)
  <2>1. InLine(line') \subseteq InLine(l)
    BY <1>4 DEF InLine
  <2>2. ASSUME NEW i \in 1 .. Len(l)
        PROVE  l[i] \in InLine(line') \cup T
    <3>1. CASE i <= k
      BY <3>1
    <3>2. CASE i > k
      <4>1. i - k \in 1 .. Len(line') /\ (i - k) + k = i
        BY <1>4, <3>2
      <4>2. line'[i - k] = l[i]
        BY <1>4, <4>1
      <4> QED
        BY <4>1, <4>2 DEF InLine
    <3> QED
      BY <3>1, <3>2
  <2> QED
    BY <1>5, <2>1, <2>2 DEF InLine
<1>10. InLine(line') \cap T = {}
  BY <1>4 DEF InLine, OneEach
<1>11. OneEach(line', busy')
  <2>1. ASSUME NEW i \in 1 .. Len(line'), NEW j \in 1 .. Len(line'), line'[i] = line'[j]
        PROVE  i = j
    <3>1. l[i + k] = l[j + k] /\ i + k \in 1 .. Len(l) /\ j + k \in 1 .. Len(l)
      BY <1>4, <2>1
    <3>2. i + k = j + k
      BY <3>1 DEF OneEach
    <3> QED
      BY <1>4, <3>2
  <2>2. InLine(line') \cap b = {}
    BY <1>9 DEF OneEach
  <2> QED
    BY <1>3, <1>10, <2>1, <2>2 DEF OneEach
<1>12. T \subseteq Notes
  OBVIOUS
<1>13. l = <<>> => line' = <<>>
  BY <1>4
<1> HIDE DEF T
<1> QED
  BY <1>1, <1>2, <1>3, <1>4, <1>8, <1>9, <1>11, <1>12, <1>13

LEMMA NothingCounted == Counted([u \in Users |-> 0], {})
<1>1. \A u \in Users : OfUser({}, u) = {}
  BY DEF OfUser
<1>2. UserMax \in Nat /\ Cardinality({}) = 0
  BY TranscriptAssumption, FS_EmptySet
<1>3. \A u \in Users : Cardinality(OfUser({}, u)) = 0
  BY <1>1, <1>2
<1> QED
  BY <1>2, <1>3 DEF Counted

\* One more note for its user.
LEMMA OneMoreNote ==
  ASSUME NEW S \in SUBSET Notes, NEW n \in Notes \ S, NEW c \in [Users -> Int], Counted(c, S),
         c[Owner[n]] < UserMax
  PROVE  /\ Owner[n] \in Users
         /\ [c EXCEPT ![Owner[n]] = @ + 1] \in [Users -> Int]
         /\ Counted([c EXCEPT ![Owner[n]] = @ + 1], S \cup {n})
<1>1. Owner[n] \in Users /\ UserMax \in Nat
  BY TranscriptAssumption DEF Users
<1>2. ASSUME NEW u \in Users
      PROVE  /\ IsFiniteSet(OfUser(S, u)) /\ n \notin OfUser(S, u)
             /\ OfUser(S \cup {n}, u) = IF u = Owner[n] THEN OfUser(S, u) \cup {n} ELSE OfUser(S, u)
  BY TranscriptAssumption, FS_Subset DEF OfUser
<1>3. ASSUME NEW u \in Users
      PROVE  /\ Cardinality(OfUser(S \cup {n}, u)) =
                  IF u = Owner[n] THEN Cardinality(OfUser(S, u)) + 1 ELSE Cardinality(OfUser(S, u))
  BY <1>2, FS_AddElement
<1> QED
  BY <1>1, <1>3 DEF Counted

\* One less.
LEMMA OneNoteLess ==
  ASSUME NEW S \in SUBSET Notes, NEW n \in S, NEW c \in [Users -> Int], Counted(c, S)
  PROVE  /\ Owner[n] \in Users
         /\ [c EXCEPT ![Owner[n]] = @ - 1] \in [Users -> Int]
         /\ Counted([c EXCEPT ![Owner[n]] = @ - 1], S \ {n})
<1>1. Owner[n] \in Users /\ UserMax \in Nat
  BY TranscriptAssumption DEF Users
<1>2. ASSUME NEW u \in Users
      PROVE  /\ IsFiniteSet(OfUser(S, u))
             /\ Owner[n] = u => n \in OfUser(S, u)
             /\ OfUser(S \ {n}, u) = IF u = Owner[n] THEN OfUser(S, u) \ {n} ELSE OfUser(S, u)
  BY TranscriptAssumption, FS_Subset DEF OfUser
<1>3. ASSUME NEW u \in Users
      PROVE  /\ Cardinality(OfUser(S \ {n}, u)) =
                  IF u = Owner[n] THEN Cardinality(OfUser(S, u)) - 1 ELSE Cardinality(OfUser(S, u))
  BY <1>2, FS_RemoveElement
<1> QED
  BY <1>1, <1>3 DEF Counted

\* A function defined along 1 .. N has a value at each: there is one.
Folds(f, base, step, k) == f[0] = base /\ \A i \in 1 .. k : f[i] = step[<<f[i - 1], i>>]
LEMMA FoldExists ==
  ASSUME NEW N \in Nat, NEW X, NEW base \in X, NEW step \in [X \X (1 .. N) -> X]
  PROVE  \E f \in [0 .. N -> X] : Folds(f, base, step, N)
<1> DEFINE Along(f, k) == Folds(f, base, step, k)
           D == {k \in 0 .. N : ~\E f \in [0 .. k -> X] : Along(f, k)}
<1> USE DEF Folds
<1>1. SUFFICES ASSUME ~\E f \in [0 .. N -> X] : Along(f, N) PROVE FALSE
  OBVIOUS
<1>2. PICK k \in D : \A j \in D : k <= j
  <2>1. N \in D /\ D \in SUBSET Nat
    BY <1>1
  <2> HIDE DEF D
  <2> QED
    BY <2>1, LeastNatural
<1>3. CASE k = 0
  <2>1. [i \in 0 .. 0 |-> base] \in [0 .. 0 -> X] /\ Along([i \in 0 .. 0 |-> base], 0)
    OBVIOUS
  <2> QED
    BY <1>2, <1>3, <2>1
<1>4. CASE k # 0
  <2>1. k \in 1 .. N /\ k - 1 \in 0 .. N /\ k - 1 \notin D
    BY <1>2, <1>4
  <2>2. PICK g \in [0 .. (k - 1) -> X] : Along(g, k - 1)
    BY <2>1
  <2> DEFINE f == [i \in 0 .. k |-> IF i < k THEN g[i] ELSE step[<<g[k - 1], k>>]]
  <2>3. step[<<g[k - 1], k>>] \in X
    BY <2>1, <2>2
  <2>4. f \in [0 .. k -> X]
    BY <2>1, <2>3
  <2>5. \A i \in 0 .. (k - 1) : f[i] = g[i]
    BY <2>1
  <2>6. f[k] = step[<<g[k - 1], k>>] /\ f[k - 1] = g[k - 1]
    BY <2>1
  <2> HIDE DEF f
  <2>7. Along(f, k)
    BY <2>1, <2>2, <2>5, <2>6
  <2> QED
    BY <1>2, <2>4, <2>7
<1> QED
  BY <1>3, <1>4

\* One of the orders in which the rows can be read names each note once.
LEMMA OrderIsWhole ==
  ASSUME NEW order \in Orders
  PROVE  /\ Cardinality(Notes) \in Nat
         /\ order \in [1 .. Cardinality(Notes) -> Notes]
         /\ \A i, j \in 1 .. Cardinality(Notes) : order[i] = order[j] => i = j
         /\ \A n \in Notes : \E i \in 1 .. Cardinality(Notes) : order[i] = n
<1>1. Cardinality(Notes) \in Nat /\ IsFiniteSet(Notes)
  BY TranscriptAssumption, FS_CardinalityType
<1>2. /\ order \in [1 .. Cardinality(Notes) -> Notes]
      /\ \A i, j \in 1 .. Cardinality(Notes) : order[i] = order[j] => i = j
  BY DEF Orders
<1>3. order \in Injection(1 .. Cardinality(Notes), Notes)
  BY <1>2 DEF Injection, IsInjective
<1>4. Cardinality(1 .. Cardinality(Notes)) = Cardinality(Notes)
  BY <1>1, FS_Interval
<1>5. order \in Surjection(1 .. Cardinality(Notes), Notes)
  BY <1>1, <1>3, <1>4, FS_Injection
<1> QED
  BY <1>1, <1>2, <1>5 DEF Surjection

RecoveryRows == [status : [Notes -> Statuses], line : Seq(Notes), count : [Users -> Int]]
\* What is true of the rows once the first k of the order have been taken over.
TakenOver(r, order, k) ==
  /\ OneEach(r.line, {}) /\ Len(r.line) <= QueueMax /\ Counted(r.count, InLine(r.line))
  /\ \A n \in InLine(r.line) : \E i \in 1 .. k : order[i] = n
  /\ \A i \in 1 .. k : r.status[order[i]] = "pending" <=> order[i] \in InLine(r.line)
  /\ \A i \in 1 .. Cardinality(Notes) : i > k => r.status[order[i]] = status[order[i]]
  /\ \A n \in Notes : n \in InLine(r.line) => r.status[n] = "pending"

\* One row more.
TakesOver(r, n) == IF status[n] = "pending" THEN RecoverOne(r, n) ELSE r

LEMMA AppendInLine ==
  ASSUME NEW l \in Seq(Notes), NEW n \in Notes
  PROVE  /\ Append(l, n) \in Seq(Notes) /\ Len(Append(l, n)) = Len(l) + 1
         /\ InLine(Append(l, n)) = InLine(l) \cup {n}
         /\ \A b : OneEach(l, b) /\ n \notin InLine(l) /\ n \notin b => OneEach(Append(l, n), b)
<1> DEFINE a == Append(l, n)
<1>1. a \in Seq(Notes) /\ Len(a) = Len(l) + 1 /\ Len(l) \in Nat
  OBVIOUS
<1>2. a[Len(l) + 1] = n /\ \A i \in 1 .. Len(l) : a[i] = l[i]
  OBVIOUS
<1> HIDE DEF a
<1>3. InLine(a) = InLine(l) \cup {n}
  <2>1. \A i \in 1 .. Len(a) : i \in 1 .. Len(l) \/ i = Len(l) + 1
    BY <1>1
  <2>2. InLine(a) \subseteq InLine(l) \cup {n}
    BY <1>2, <2>1 DEF InLine
  <2>3. \A i \in 1 .. Len(l) : i \in 1 .. Len(a) /\ l[i] = a[i]
    BY <1>1, <1>2
  <2>4. InLine(l) \subseteq InLine(a)
    BY <2>3 DEF InLine
  <2>5. Len(l) + 1 \in 1 .. Len(a)
    BY <1>1
  <2>6. n \in InLine(a)
    BY <1>2, <2>5 DEF InLine
  <2> QED
    BY <2>2, <2>4, <2>6
<1>4. ASSUME NEW b, OneEach(l, b), n \notin InLine(l), n \notin b
      PROVE  OneEach(a, b)
  <2>1. ASSUME NEW i \in 1 .. Len(a), NEW j \in 1 .. Len(a), a[i] = a[j]
        PROVE  i = j
    <3>1. CASE i \in 1 .. Len(l) /\ j \in 1 .. Len(l)
      BY <1>2, <1>4, <2>1, <3>1 DEF OneEach
    <3>2. CASE i = Len(l) + 1 /\ j = Len(l) + 1
      BY <3>2
    <3>3. \A x \in 1 .. Len(l) : a[x] # n
      BY <1>2, <1>4 DEF InLine
    <3> QED
      BY <1>1, <1>2, <2>1, <3>1, <3>2, <3>3
  <2> QED
    BY <1>3, <1>4, <2>1 DEF OneEach
<1> QED
  BY <1>1, <1>3, <1>4 DEF a

LEMMA TakesOverType ==
  ASSUME TranscriptTypes, NEW r \in RecoveryRows, NEW n \in Notes
  PROVE  TakesOver(r, n) \in RecoveryRows
<1>1. Owner[n] \in Users /\ r.status \in [Notes -> Statuses] /\ r.line \in Seq(Notes) /\ r.count \in [Users -> Int]
  BY DEF RecoveryRows, Users
<1>2. [r.status EXCEPT ![n] = "failed"] \in [Notes -> Statuses]
  BY <1>1 DEF Statuses
<1>3. Append(r.line, n) \in Seq(Notes) /\ [r.count EXCEPT ![Owner[n]] = @ + 1] \in [Users -> Int]
  BY <1>1
<1>4. CASE TakesOver(r, n) = [r EXCEPT !.status[n] = "failed"]
  BY <1>2, <1>4 DEF RecoveryRows
<1>5. CASE TakesOver(r, n) = [r EXCEPT !.line = Append(@, n), !.count[Owner[n]] = @ + 1]
  <2> DEFINE l == Append(r.line, n)
             c == [r.count EXCEPT ![Owner[n]] = @ + 1]
  <2>1. [r EXCEPT !.line = Append(@, n), !.count[Owner[n]] = @ + 1] = [r EXCEPT !.line = l, !.count = c]
    OBVIOUS
  <2> HIDE DEF l, c
  <2>2. l \in Seq(Notes) /\ c \in [Users -> Int]
    BY <1>3 DEF l, c
  <2> QED
    BY <1>5, <2>1, <2>2 DEF RecoveryRows
<1> QED
  BY <1>4, <1>5 DEF TakesOver, RecoverOne

LEMMA TakesOverKeeps ==
  ASSUME TranscriptTypes, NEW order \in Orders, NEW k \in 1 .. Cardinality(Notes),
         NEW r \in RecoveryRows, TakenOver(r, order, k - 1)
  PROVE  TakenOver(TakesOver(r, order[k]), order, k)
<1> DEFINE n == order[k]
           s == TakesOver(r, n)
           N == Cardinality(Notes)
<1>1. /\ N \in Nat /\ n \in Notes /\ order \in [1 .. N -> Notes]
      /\ \A i \in 1 .. N : order[i] = n => i = k
  BY OrderIsWhole
<1>2. /\ r.status \in [Notes -> Statuses] /\ r.line \in Seq(Notes) /\ r.count \in [Users -> Int]
  BY DEF RecoveryRows
<1>3. n \notin InLine(r.line) /\ r.status[n] = status[n]
  BY <1>1 DEF TakenOver
<1>4. \A i \in 1 .. k : i = k \/ i \in 1 .. (k - 1)
  OBVIOUS
<1>5. InLine(r.line) \subseteq Notes
  BY <1>2 DEF InLine
<1> HIDE DEF n, s, N
<1>6. CASE status[n] # "pending"
  <2>1. s = r
    BY <1>6 DEF s, TakesOver
  <2> QED
    BY <1>1, <1>3, <1>4, <1>6, <2>1 DEF TakenOver, n, s, N
<1>7. CASE status[n] = "pending" /\ (asked[n] > AskedMax \/ ~RoomFor(r, Owner[n]))
  <2>1. s = [r EXCEPT !.status[n] = "failed"]
    BY <1>7 DEF s, TakesOver, RecoverOne
  <2>2. s.line = r.line /\ s.count = r.count /\ s.status = [r.status EXCEPT ![n] = "failed"]
    BY <2>1 DEF RecoveryRows
  <2>3. s.status[n] = "failed" /\ \A m \in Notes \ {n} : s.status[m] = r.status[m]
    BY <1>1, <1>2, <2>2
  <2>4. \A i \in 1 .. N : i # k => order[i] \in Notes \ {n}
    BY <1>1
  <2> QED
    BY <1>1, <1>3, <1>4, <1>5, <2>2, <2>3, <2>4 DEF TakenOver, n, s, N
<1>8. CASE status[n] = "pending" /\ ~(asked[n] > AskedMax \/ ~RoomFor(r, Owner[n]))
  <2>1. s = [r EXCEPT !.line = Append(@, n), !.count[Owner[n]] = @ + 1]
    BY <1>8 DEF s, TakesOver, RecoverOne
  <2>2. /\ s.line = Append(r.line, n) /\ s.status = r.status
        /\ s.count = [r.count EXCEPT ![Owner[n]] = @ + 1]
    <3> DEFINE l == Append(r.line, n)
               c == [r.count EXCEPT ![Owner[n]] = @ + 1]
    <3>1. s = [r EXCEPT !.line = l, !.count = c]
      BY <2>1
    <3> HIDE DEF l, c
    <3>2. s.line = l /\ s.status = r.status /\ s.count = c
      BY <3>1 DEF RecoveryRows
    <3> QED
      BY <3>2 DEF l, c
  <2>3. InLine(s.line) = InLine(r.line) \cup {n} /\ Len(s.line) = Len(r.line) + 1
    BY <1>1, <1>2, <2>2, AppendInLine
  <2>4. OneEach(s.line, {})
    BY <1>1, <1>2, <1>3, <2>2, AppendInLine DEF TakenOver
  <2>5. Owner[n] \in Users /\ Len(r.line) < QueueMax /\ r.count[Owner[n]] < UserMax
    BY <1>1, <1>2, <1>8, TranscriptAssumption DEF RoomFor, Users
  <2>6. Counted(s.count, InLine(s.line))
    <3>1. Counted(r.count, InLine(r.line)) /\ n \in Notes \ InLine(r.line) /\ InLine(r.line) \in SUBSET Notes
      BY <1>1, <1>3, <1>5 DEF TakenOver
    <3>2. Counted([r.count EXCEPT ![Owner[n]] = @ + 1], InLine(r.line) \cup {n})
      BY <1>2, <2>5, <3>1, OneMoreNote
    <3> QED
      BY <2>2, <2>3, <3>2
  <2>7. Len(s.line) <= QueueMax
    BY <1>2, <2>3, <2>5, TranscriptAssumption
  <2>8. \A m \in InLine(s.line) : \E i \in 1 .. k : order[i] = m
    BY <1>4, <2>3 DEF TakenOver, n
  <2>9. \A i \in 1 .. k : s.status[order[i]] = "pending" <=> order[i] \in InLine(s.line)
    BY <1>1, <1>3, <1>4, <1>8, <2>2, <2>3 DEF TakenOver, n, N
  <2>10. \A i \in 1 .. N : i > k => s.status[order[i]] = status[order[i]]
    BY <2>2 DEF TakenOver, N
  <2>11. \A m \in Notes : m \in InLine(s.line) => s.status[m] = "pending"
    BY <1>3, <1>8, <2>2, <2>3 DEF TakenOver
  <2> QED
    BY <2>4, <2>6, <2>7, <2>8, <2>9, <2>10, <2>11 DEF TakenOver, n, s, N
<1> QED
  BY <1>6, <1>7, <1>8 DEF n, s

\* What a boot takes over: the rows that are pending afterwards are in the
\* line, once each and within the limits.
LEMMA RequeuedHolds ==
  ASSUME TranscriptTypes, AtRest, mode = "down", NEW order \in Orders
  PROVE  /\ Requeued(order) \in RecoveryRows
         /\ TakenOver(Requeued(order), order, Cardinality(Notes))
<1> DEFINE N == Cardinality(Notes)
           base == [status |-> status, line |-> <<>>, count |-> count]
           step == [p \in RecoveryRows \X (1 .. N) |-> TakesOver(p[1], order[p[2]])]
           Is(f) == f = [i \in 0 .. N |-> IF i = 0 THEN base
                           ELSE IF status[order[i]] = "pending" THEN RecoverOne(f[i - 1], order[i])
                           ELSE f[i - 1]]
<1>1. N \in Nat /\ order \in [1 .. N -> Notes]
  BY OrderIsWhole
<1>2. base \in RecoveryRows
  BY DEF RecoveryRows, TranscriptTypes
<1>3. step \in [RecoveryRows \X (1 .. N) -> RecoveryRows]
  BY <1>1, TakesOverType
<1>4. PICK g \in [0 .. N -> RecoveryRows] : Folds(g, base, step, N)
  <2> HIDE DEF N, base, step
  <2> QED
    BY <1>1, <1>2, <1>3, FoldExists
<1>5. \A i \in 1 .. N : g[i] = TakesOver(g[i - 1], order[i])
  <2> HIDE DEF base
  <2> TAKE i \in 1 .. N
  <2>1. g[i - 1] \in RecoveryRows
    BY <1>1
  <2> QED
    BY <1>4, <2>1 DEF Folds
<1>6. Is(g)
  <2> HIDE DEF base, step
  <2> QED
    BY <1>1, <1>4, <1>5 DEF TakesOver, Folds
<1>7. PICK s : Is(s) /\ Requeued(order) = s[N]
  <2> DEFINE s == CHOOSE f : Is(f)
  <2>1. Is(s)
    BY <1>6
  <2>2. Requeued(order) = s[N]
    BY DEF Requeued
  <2> QED
    BY <2>1, <2>2
<1>8. /\ s[0] = base
      /\ \A i \in 1 .. N : s[i] = TakesOver(s[i - 1], order[i])
  <2> HIDE DEF base
  <2> QED
    BY <1>1, <1>7 DEF TakesOver
<1>9. TakenOver(base, order, 0)
  <2>1. count = [u \in Users |-> 0] /\ UserMax \in Nat /\ QueueMax \in Nat
    BY TranscriptAssumption DEF AtRest
  <2>2. InLine(<<>>) = {} /\ OneEach(<<>>, {})
    BY DEF InLine, OneEach
  <2>4. base.line = <<>> /\ base.status = status /\ base.count = count
    OBVIOUS
  <2> HIDE DEF base
  <2>5. Counted(base.count, InLine(base.line))
    BY <2>1, <2>2, <2>4, NothingCounted
  <2>6. Len(base.line) <= QueueMax
    BY <2>1, <2>4
  <2> QED
    BY <2>2, <2>4, <2>5, <2>6 DEF TakenOver
<1>10. \A k \in 0 .. N : s[k] \in RecoveryRows /\ TakenOver(s[k], order, k)
  <2> DEFINE D == {k \in 0 .. N : ~(s[k] \in RecoveryRows /\ TakenOver(s[k], order, k))}
  <2>1. SUFFICES ASSUME D # {} PROVE FALSE
    OBVIOUS
  <2>2. PICK k \in D : \A j \in D : k <= j
    <3>1. D \in SUBSET Nat
      BY <1>1
    <3> HIDE DEF D
    <3> QED
      BY <2>1, <3>1, LeastNatural
  <2>3. k # 0
    BY <1>2, <1>8, <1>9, <2>2
  <2>4. k \in 1 .. N /\ k - 1 \in 0 .. N /\ ~(k <= k - 1)
    BY <1>1, <2>2, <2>3
  <2>5. s[k - 1] \in RecoveryRows /\ TakenOver(s[k - 1], order, k - 1)
    BY <2>2, <2>4
  <2>6. s[k] = TakesOver(s[k - 1], order[k]) /\ order[k] \in Notes
    BY <1>1, <1>8, <2>4
  <2>7. s[k] \in RecoveryRows /\ TakenOver(s[k], order, k)
    BY <2>4, <2>5, <2>6, TakesOverType, TakesOverKeeps
  <2> QED
    BY <2>2, <2>7
<1> QED
  BY <1>1, <1>7, <1>10

LEMMA BootKeepsNotes ==
  ASSUME TranscriptInv, BootTranscripts
  PROVE  TranscriptInv'
<1>1. PICK order \in Orders : /\ status' = Requeued(order).status /\ count' = Requeued(order).count
                              /\ job' = {Requeued(order).line[i] : i \in DOMAIN Requeued(order).line}
                              /\ Pump(Requeued(order).line, {})
  BY DEF BootTranscripts
<1>2. PICK s \in RecoveryRows : s = Requeued(order) /\ TakenOver(s, order, Cardinality(Notes))
  BY RequeuedHolds DEF TranscriptInv, BootTranscripts
<1>3. /\ s.status \in [Notes -> Statuses] /\ s.line \in Seq(Notes) /\ s.count \in [Users -> Int]
      /\ DOMAIN s.line = 1 .. Len(s.line)
  BY DEF RecoveryRows
<1>4. /\ status' = s.status /\ count' = s.count /\ job' = InLine(s.line) /\ Pump(s.line, {})
      /\ mode' = "up" /\ UNCHANGED <<asked, waits, unwritten>> /\ mode = "down"
  BY <1>1, <1>2, <1>3 DEF InLine, BootTranscripts
<1>5. OneEach(s.line, {}) /\ Len(s.line) <= QueueMax /\ Counted(s.count, InLine(s.line))
  BY <1>2 DEF TakenOver
<1>6. Cardinality({}) = 0 /\ Slots \in Nat /\ QueueMax \in Nat
  BY TranscriptAssumption, FS_EmptySet
<1>7. /\ line' \in Seq(Notes) /\ busy' \subseteq Notes /\ OneEach(line', busy')
      /\ InLine(line') \cup busy' = InLine(s.line)
      /\ Cardinality(busy') <= Slots /\ Len(line') + Cardinality(busy') = Len(s.line)
  <2>1. {} \in SUBSET Notes /\ Cardinality({}) <= Slots /\ Len(s.line) + Cardinality({}) = Len(s.line)
    BY <1>3, <1>6
  <2> QED
    BY <1>3, <1>4, <1>5, <2>1, PumpKeeps
<1>8. waits = {}
  BY <1>4 DEF TranscriptInv, AtRest, JobsHold, InLine
<1>9. \A n \in Notes : s.status[n] = "pending" <=> n \in InLine(s.line)
  BY <1>2, OrderIsWhole DEF TakenOver
<1>10. InLine(s.line) \subseteq Notes
  BY <1>3 DEF InLine
<1>11. TranscriptTypes'
  BY <1>3, <1>4, <1>7 DEF TranscriptInv, TranscriptTypes
<1>12. JobsHold'
  BY <1>4, <1>5, <1>7, <1>8 DEF JobsHold
<1>13. RowsHold'
  BY <1>4, <1>5, <1>9, <1>10 DEF RowsHold
<1>14. AtRest'
  BY <1>4 DEF AtRest
<1> QED
  BY <1>11, <1>12, <1>13, <1>14 DEF TranscriptInv

\* enqueue adds a note that has no job.
LEMMA EnqueueKeeps ==
  ASSUME TranscriptInv, mode = "up", NEW n \in Notes, n \notin job,
         ~Full(line, busy, count, Owner[n]), Enqueue(n)
  PROVE  /\ line' \in Seq(Notes) /\ busy' \subseteq Notes /\ count' \in [Users -> Int]
         /\ OneEach(line', busy') /\ job' = InLine(line') \cup busy' /\ job' = job \cup {n}
         /\ Cardinality(busy') <= Slots /\ Len(line') + Cardinality(busy') <= QueueMax
         /\ Counted(count', job')
<1>1. /\ line \in Seq(Notes) /\ busy \in SUBSET Notes /\ count \in [Users -> Int]
      /\ OneEach(line, busy) /\ job = InLine(line) \cup busy /\ Cardinality(busy) <= Slots
      /\ Counted(count, job)
  BY DEF TranscriptInv, TranscriptTypes, JobsHold, RowsHold
<1>2. /\ Append(line, n) \in Seq(Notes) /\ Len(Append(line, n)) = Len(line) + 1
      /\ InLine(Append(line, n)) = InLine(line) \cup {n} /\ OneEach(Append(line, n), busy)
  BY <1>1, AppendInLine
<1>3. Pump(Append(line, n), busy) /\ job' = job \cup {n} /\ count' = [count EXCEPT ![Owner[n]] = @ + 1]
  BY DEF Enqueue
<1>4. /\ line' \in Seq(Notes) /\ busy' \subseteq Notes /\ OneEach(line', busy')
      /\ InLine(line') \cup busy' = InLine(Append(line, n)) \cup busy
      /\ Cardinality(busy') <= Slots
      /\ Len(line') + Cardinality(busy') = Len(Append(line, n)) + Cardinality(busy)
  BY <1>1, <1>2, <1>3, PumpKeeps
<1>5. /\ Cardinality(busy) \in Nat /\ Len(line) + Cardinality(busy) < QueueMax
      /\ Owner[n] \in Users /\ count[Owner[n]] < UserMax
  BY <1>1, TranscriptAssumption, FS_Subset, FS_CardinalityType DEF Full, Users
<1>6. job \in SUBSET Notes
  BY <1>1 DEF InLine
<1>7. Counted(count', job') /\ count' \in [Users -> Int]
  BY <1>1, <1>3, <1>5, <1>6, OneMoreNote
<1>8. Len(line') + Cardinality(busy') <= QueueMax
  BY <1>1, <1>2, <1>4, <1>5, TranscriptAssumption
<1> QED
  BY <1>1, <1>2, <1>3, <1>4, <1>7, <1>8

\* The steps that ask, wait or reap.
LEMMA AsksKeep ==
  ASSUME TranscriptInv, NEW n \in Notes, AskAtUpload(n) \/ AskAgain(n) \/ WaitForNote(n) \/ ReapNote(n)
  PROVE  TranscriptInv'
<1>1. mode = "up" /\ UNCHANGED mode
  BY DEF AskAtUpload, AskAgain, WaitForNote, ReapNote
<1>2. /\ status \in [Notes -> Statuses] /\ asked \in [Notes -> Nat]
      /\ Counted(count, job) /\ \A m \in job : status[m] \in {"pending", "gone"}
      /\ \A m \in Notes : status[m] = "pending" => m \in job \cup unwritten
      /\ waits \subseteq job
  BY <1>1 DEF TranscriptInv, TranscriptTypes, JobsHold, RowsHold
<1>3. AtRest'
  BY <1>1 DEF AtRest
<1>4. ASSUME n \notin job, ~Full(line, busy, count, Owner[n]), Enqueue(n),
             status' = [status EXCEPT ![n] = "pending"], asked' = [asked EXCEPT ![n] = 0],
             UNCHANGED waits, unwritten \ {n} \subseteq unwritten'
      PROVE  TranscriptInv'
  <2>1. /\ line' \in Seq(Notes) /\ busy' \subseteq Notes /\ count' \in [Users -> Int]
        /\ OneEach(line', busy') /\ job' = InLine(line') \cup busy' /\ job' = job \cup {n}
        /\ Cardinality(busy') <= Slots /\ Len(line') + Cardinality(busy') <= QueueMax
        /\ Counted(count', job')
    BY <1>1, <1>4, EnqueueKeeps
  <2>2. status' \in [Notes -> Statuses] /\ asked' \in [Notes -> Nat]
    BY <1>2, <1>4 DEF Statuses
  <2>3. status'[n] = "pending" /\ \A m \in Notes \ {n} : status'[m] = status[m]
    BY <1>2, <1>4
  <2>4. job' \subseteq Notes
    BY <2>1 DEF InLine
  <2>5. TranscriptTypes'
    BY <1>1, <2>1, <2>2 DEF TranscriptTypes
  <2>6. JobsHold'
    BY <1>1, <1>2, <1>4, <2>1 DEF JobsHold
  <2>7. RowsHold'
    BY <1>2, <1>4, <2>1, <2>3, <2>4 DEF RowsHold
  <2> QED
    BY <1>3, <2>5, <2>6, <2>7 DEF TranscriptInv
<1>5. CASE AskAtUpload(n)
  <2>1. CASE Full(line, busy, count, Owner[n])
    <3>1. /\ status' = [status EXCEPT ![n] = "none"] /\ n \notin job
          /\ UNCHANGED <<asked, line, busy, job, count, waits, unwritten>>
      BY <1>5, <2>1 DEF AskAtUpload
    <3>2. status' \in [Notes -> Statuses] /\ \A m \in Notes \ {n} : status'[m] = status[m] /\ status'[n] # "pending"
      BY <1>2, <3>1 DEF Statuses
    <3>3. job \subseteq Notes \ {n} /\ status'[n] # "pending"
      BY <1>2, <3>1 DEF TranscriptInv, TranscriptTypes, JobsHold, InLine
    <3>4. TranscriptTypes' /\ JobsHold'
      BY <1>1, <3>1, <3>2 DEF TranscriptInv, TranscriptTypes, JobsHold
    <3>5. RowsHold'
      BY <1>2, <3>1, <3>2, <3>3 DEF RowsHold
    <3> QED
      BY <1>3, <3>4, <3>5 DEF TranscriptInv
  <2>2. CASE ~Full(line, busy, count, Owner[n])
    BY <1>4, <1>5, <2>2 DEF AskAtUpload
  <2> QED
    BY <2>1, <2>2
<1>6. CASE AskAgain(n)
  <2>1. n \notin job
    BY <1>2, <1>6 DEF AskAgain, Askable
  <2> QED
    BY <1>4, <1>6, <2>1 DEF AskAgain
<1>7. CASE WaitForNote(n)
  <2>1. waits' \subseteq job /\ UNCHANGED <<status, asked, line, busy, job, count, unwritten>>
    BY <1>2, <1>7 DEF WaitForNote
  <2>2. TranscriptTypes' /\ JobsHold' /\ RowsHold'
    BY <1>1, <2>1 DEF TranscriptInv, TranscriptTypes, JobsHold, RowsHold
  <2> QED
    BY <1>3, <2>2 DEF TranscriptInv
<1>8. CASE ReapNote(n)
  <2>1. /\ status' = [status EXCEPT ![n] = "gone"] /\ unwritten' = unwritten \ {n}
        /\ UNCHANGED <<asked, line, busy, job, count, waits>>
    BY <1>8 DEF ReapNote
  <2>2. status' \in [Notes -> Statuses] /\ status'[n] = "gone" /\ \A m \in Notes \ {n} : status'[m] = status[m]
    BY <1>2, <2>1 DEF Statuses
  <2>3. job \subseteq Notes
    BY DEF TranscriptInv, TranscriptTypes, JobsHold, InLine
  <2>4. TranscriptTypes' /\ JobsHold'
    BY <1>1, <2>1, <2>2 DEF TranscriptInv, TranscriptTypes, JobsHold
  <2>5. RowsHold'
    BY <1>2, <2>1, <2>2, <2>3 DEF RowsHold
  <2> QED
    BY <1>3, <2>4, <2>5 DEF TranscriptInv
<1> QED
  BY <1>5, <1>6, <1>7, <1>8

\* A job ends: its place is free, and the next one is taken.
LEMMA JobEndsKeeps ==
  ASSUME TranscriptInv, NEW n \in Notes, NEW outcome \in Endings, JobEnds(n, outcome)
  PROVE  TranscriptInv'
<1>1. /\ mode \in {"up", "closing"} /\ n \in busy /\ UNCHANGED <<asked, mode>>
      /\ status' = Settles(status, n, outcome)
      /\ unwritten' = IF status'[n] = "pending" THEN unwritten \cup {n} ELSE unwritten
      /\ count' = [count EXCEPT ![Owner[n]] = @ - 1] /\ job' = job \ {n} /\ waits' = waits \ {n}
  BY DEF JobEnds, PlaceFreed, TranscriptInv, TranscriptTypes
<1>2. /\ status \in [Notes -> Statuses] /\ asked \in [Notes -> Nat] /\ count \in [Users -> Int]
      /\ line \in Seq(Notes) /\ busy \in SUBSET Notes
      /\ OneEach(line, busy) /\ job = InLine(line) \cup busy /\ waits \subseteq job
      /\ Cardinality(busy) <= Slots /\ Len(line) + Cardinality(busy) <= QueueMax
      /\ mode = "closing" => line = <<>>
  BY DEF TranscriptInv, TranscriptTypes, JobsHold
<1>3. /\ Cardinality(busy) \in Nat /\ Cardinality(busy \ {n}) = Cardinality(busy) - 1
      /\ Slots \in Nat /\ QueueMax \in Nat
  BY <1>1, <1>2, TranscriptAssumption, FS_Subset, FS_CardinalityType, FS_RemoveElement
<1>4. n \notin InLine(line) /\ OneEach(line, busy \ {n})
  BY <1>1, <1>2 DEF OneEach
<1>5. job' = InLine(line) \cup (busy \ {n}) /\ waits' \subseteq job'
  BY <1>1, <1>2, <1>4
<1>6. /\ line' \in Seq(Notes) /\ busy' \subseteq Notes /\ OneEach(line', busy')
      /\ InLine(line') \cup busy' = InLine(line) \cup (busy \ {n})
      /\ Cardinality(busy') <= Slots /\ Len(line') + Cardinality(busy') <= QueueMax
      /\ mode = "closing" => line' = <<>>
  <2>1. CASE mode = "up"
    <3>1. Pump(line, busy \ {n})
      BY <2>1 DEF JobEnds
    <3>2. busy \ {n} \in SUBSET Notes /\ Cardinality(busy \ {n}) <= Slots
      BY <1>2, <1>3
    <3>3. /\ line' \in Seq(Notes) /\ busy' \subseteq Notes /\ OneEach(line', busy')
          /\ InLine(line') \cup busy' = InLine(line) \cup (busy \ {n})
          /\ Cardinality(busy') <= Slots
          /\ Len(line') + Cardinality(busy') = Len(line) + Cardinality(busy \ {n})
      BY <1>2, <1>4, <3>1, <3>2, PumpKeeps
    <3>4. Len(line) + Cardinality(busy \ {n}) <= QueueMax
      BY <1>2, <1>3
    <3> QED
      BY <2>1, <3>3, <3>4
  <2>2. CASE mode # "up"
    <3>1. busy' = busy \ {n} /\ line' = line
      BY <2>2 DEF JobEnds
    <3>2. Cardinality(busy \ {n}) <= Slots /\ Len(line) + Cardinality(busy \ {n}) <= QueueMax
      BY <1>2, <1>3
    <3> QED
      BY <1>1, <1>2, <1>4, <3>1, <3>2
  <2> QED
    BY <2>1, <2>2
<1>7. Owner[n] \in Users /\ count' \in [Users -> Int]
  BY <1>1, <1>2 DEF Users
<1>8. /\ status' \in [Notes -> Statuses] /\ \A m \in Notes \ {n} : status'[m] = status[m]
      /\ status'[n] = "pending" => n \in unwritten'
  BY <1>1, <1>2 DEF Settles, Endings, Statuses
<1>9. TranscriptTypes'
  BY <1>1, <1>2, <1>6, <1>7, <1>8 DEF TranscriptTypes
<1>10. JobsHold'
  BY <1>1, <1>5, <1>6 DEF JobsHold
<1>11. RowsHold'
  <2>1. SUFFICES ASSUME mode = "up"
                 PROVE  /\ Counted(count', job')
                        /\ \A m \in job' : status'[m] \in {"pending", "gone"}
                        /\ \A m \in Notes : status'[m] = "pending" => m \in job' \cup unwritten'
    BY <1>1 DEF RowsHold
  <2>2. job \in SUBSET Notes /\ n \in job
    BY <1>1, <1>2 DEF InLine
  <2>3. /\ Counted(count, job) /\ \A m \in job : status[m] \in {"pending", "gone"}
        /\ \A m \in Notes : status[m] = "pending" => m \in job \cup unwritten
    BY <2>1 DEF TranscriptInv, RowsHold
  <2>4. Counted(count', job')
    BY <1>1, <1>2, <2>2, <2>3, OneNoteLess
  <2>5. unwritten \subseteq unwritten'
    BY <1>1
  <2> QED
    BY <1>1, <1>8, <2>2, <2>3, <2>4, <2>5
<1>12. AtRest'
  BY <1>1 DEF AtRest
<1> QED
  BY <1>9, <1>10, <1>11, <1>12 DEF TranscriptInv

\* The journal closes or its process ends.
LEMMA EndsKeep ==
  ASSUME TranscriptInv, CloseTranscripts \/ Exit
  PROVE  TranscriptInv'
<1>1. InLine(<<>>) = {} /\ OneEach(<<>>, {}) /\ OneEach(<<>>, busy) /\ Len(<<>>) = 0 /\ <<>> \in Seq(Notes)
  BY DEF InLine, OneEach
<1>2. /\ status \in [Notes -> Statuses] /\ asked \in [Notes -> Nat] /\ count \in [Users -> Int]
      /\ line \in Seq(Notes) /\ busy \in SUBSET Notes
      /\ OneEach(line, busy) /\ job = InLine(line) \cup busy /\ waits \subseteq job
      /\ Cardinality(busy) <= Slots /\ Len(line) + Cardinality(busy) <= QueueMax
  BY DEF TranscriptInv, TranscriptTypes, JobsHold
<1>3. Cardinality(busy) \in Nat /\ Slots \in Nat /\ QueueMax \in Nat /\ Cardinality({}) = 0
  BY <1>2, TranscriptAssumption, FS_Subset, FS_CardinalityType, FS_EmptySet
<1>4. CASE CloseTranscripts
  <2>1. /\ mode' = "closing" /\ line' = <<>> /\ waits' = waits \ InLine(line) /\ job' = job \ InLine(line)
        /\ UNCHANGED <<status, asked, busy, count, unwritten>>
    BY <1>2, <1>4 DEF CloseTranscripts, SettleLine, InLine
  <2>2. job' = busy /\ waits' \subseteq busy
    BY <1>2, <2>1 DEF OneEach
  <2>3. Len(line') + Cardinality(busy') <= QueueMax
    BY <1>1, <1>2, <1>3, <2>1
  <2>4. TranscriptTypes'
    BY <1>1, <1>2, <2>1 DEF TranscriptTypes
  <2>5. JobsHold'
    BY <1>1, <1>2, <2>1, <2>2, <2>3 DEF JobsHold
  <2> QED
    BY <2>1, <2>4, <2>5 DEF TranscriptInv, RowsHold, AtRest
<1>5. CASE Exit
  <2>1. /\ mode' = "down" /\ line' = <<>> /\ busy' = {} /\ job' = {} /\ waits' = {} /\ unwritten' = {}
        /\ count' = [u \in Users |-> 0] /\ UNCHANGED <<status, asked>>
    BY <1>5 DEF Exit
  <2>2. TranscriptTypes'
    BY <1>1, <1>2, <2>1 DEF TranscriptTypes
  <2>3. JobsHold'
    BY <1>1, <1>3, <2>1 DEF JobsHold
  <2> QED
    BY <2>1, <2>2, <2>3 DEF TranscriptInv, RowsHold, AtRest
<1> QED
  BY <1>4, <1>5

LEMMA TranscriptsInitInv == TranscriptsInit => TranscriptInv
<1> SUFFICES ASSUME TranscriptsInit PROVE TranscriptInv
  OBVIOUS
<1>1. /\ status = [n \in Notes |-> "gone"] /\ asked = [n \in Notes |-> 0]
      /\ line = <<>> /\ busy = {} /\ job = {} /\ waits = {}
      /\ count = [u \in Users |-> 0] /\ mode = "up" /\ unwritten = {}
  BY DEF TranscriptsInit
<1>2. InLine(<<>>) = {} /\ OneEach(<<>>, {}) /\ Len(<<>>) = 0 /\ <<>> \in Seq(Notes)
  BY DEF InLine, OneEach
<1>3. Slots \in Nat /\ QueueMax \in Nat /\ UserMax \in Nat /\ Cardinality({}) = 0
  BY TranscriptAssumption, FS_EmptySet
<1>5. TranscriptTypes
  BY <1>1, <1>2 DEF TranscriptTypes, Statuses
<1>6. JobsHold
  BY <1>1, <1>2, <1>3 DEF JobsHold
<1>7. RowsHold
  BY <1>1, NothingCounted DEF RowsHold, Statuses
<1> QED
  BY <1>1, <1>5, <1>6, <1>7 DEF TranscriptInv, AtRest

LEMMA TranscriptsStepInv == TranscriptInv /\ [TranscriptsNext]_transcriptVars => TranscriptInv'
<1> SUFFICES ASSUME TranscriptInv, [TranscriptsNext]_transcriptVars PROVE TranscriptInv'
  OBVIOUS
<1>1. CASE UNCHANGED transcriptVars
  BY <1>1 DEF transcriptVars, TranscriptInv, TranscriptTypes, JobsHold, RowsHold, AtRest
<1>2. CASE TimePasses
  <2>1. asked' \in [Notes -> Nat]
    BY <1>2 DEF TimePasses, TranscriptInv, TranscriptTypes
  <2> QED
    BY <1>2, <2>1 DEF TimePasses, TranscriptInv, TranscriptTypes, JobsHold, RowsHold, AtRest
<1>3. CASE \E n \in Notes : AskAtUpload(n) \/ AskAgain(n) \/ WaitForNote(n) \/ ReapNote(n)
  BY <1>3, AsksKeep
<1>4. CASE \E n \in Notes : \E outcome \in Endings : JobEnds(n, outcome)
  BY <1>4, JobEndsKeeps
<1>5. CASE CloseTranscripts \/ Exit
  BY <1>5, EndsKeep
<1>6. CASE BootTranscripts
  BY <1>6, BootKeepsNotes
<1> QED
  BY <1>1, <1>2, <1>3, <1>4, <1>5, <1>6 DEF TranscriptsNext

LEMMA InvIsInHand == TranscriptInv => TranscriptsInHand
<1> SUFFICES ASSUME TranscriptInv PROVE TranscriptsInHand
  OBVIOUS
<1>1. /\ line \in Seq(Notes) /\ OneEach(line, busy) /\ job = InLine(line) \cup busy
      /\ Len(line) + Cardinality(busy) <= QueueMax /\ waits \subseteq job
      /\ DOMAIN line = 1 .. Len(line)
  BY DEF TranscriptInv, TranscriptTypes, JobsHold
<1>2. mode # "up" => line = <<>>
  BY DEF TranscriptInv, TranscriptTypes, JobsHold, AtRest
<1>3. mode = "up" => \A n \in Notes : status[n] = "pending" => n \in job \/ (n \in unwritten /\ Askable(n))
  BY DEF TranscriptInv, RowsHold, Askable
<1>4. ASSUME NEW n \in Notes
      PROVE  Cardinality({i \in DOMAIN line : line[i] = n}) + (IF n \in busy THEN 1 ELSE 0)
               = IF n \in job THEN 1 ELSE 0
  <2>1. CASE n \in InLine(line)
    <3>1. PICK k \in 1 .. Len(line) : line[k] = n
      BY <2>1 DEF InLine
    <3>2. {i \in DOMAIN line : line[i] = n} = {k}
      BY <1>1, <3>1 DEF OneEach
    <3>3. n \notin busy /\ n \in job
      BY <1>1, <2>1 DEF OneEach
    <3>4. Cardinality({i \in DOMAIN line : line[i] = n}) = 1
      BY <3>2, FS_Singleton
    <3> QED
      BY <3>3, <3>4
  <2>2. CASE n \notin InLine(line)
    <3>1. {i \in DOMAIN line : line[i] = n} = {}
      BY <1>1, <2>2 DEF InLine
    <3>2. n \in job <=> n \in busy
      BY <1>1, <2>2
    <3>3. Cardinality({}) = 0
      BY FS_EmptySet
    <3> QED
      BY <3>1, <3>2, <3>3
  <2> QED
    BY <2>1, <2>2
<1>5. QueueLength <= QueueMax
  BY <1>1 DEF QueueLength
<1>6. mode = "up" => \A u \in Users : count[u] <= UserMax /\ count[u] = Cardinality({n \in job : Owner[n] = u})
  BY DEF TranscriptInv, RowsHold, Counted, OfUser
<1>7. waits \subseteq IF mode = "up" THEN job ELSE busy
  BY <1>1, <1>2 DEF InLine
<1> QED
  BY <1>3, <1>4, <1>5, <1>6, <1>7 DEF TranscriptsInHand

\* Every note somebody asked for and that is pending has the one job that will
\* settle it, the limits hold, and nobody waits for a job that will not run:
\* whatever is reaped, retried, closed or taken over by the next process.
THEOREM NotesAreSettledOnce == TranscriptsInit /\ [][TranscriptsNext]_transcriptVars => []TranscriptsInHand
<1> QED
  BY TranscriptsInitInv, TranscriptsStepInv, InvIsInHand, PTL

-----------------------------------------------------------------------------
(* The eight side by side (MCKeeping). *)

\* A step of the whole is one of a part, and the others stutter.
LEMMA StepOfAPart ==
  [Next]_vars => /\ [RetryNext]_retryVars /\ [FilesNext]_fileVars /\ [BlobsNext]_blobVars
                 /\ [OwnershipNext]_ownershipVars /\ [LinkingNext]_linkingVars /\ [SignInNext]_signInVars
                 /\ [MessagesNext]_messageVars /\ [TranscriptsNext]_transcriptVars
<1>1. CASE Next
  BY <1>1 DEF Next, Only
<1>2. CASE UNCHANGED vars
  BY <1>2 DEF vars
<1> QED
  BY <1>1, <1>2

\* What the run explores of each part keeps what the part promises, whatever
\* the others do: keys, files, blobs, shares, devices, sign-ins, the
\* index and the transcripts.
THEOREM KeptTogether ==
  Spec => [](RetriesAreOne /\ WritesAreSafe /\ BlobsKept /\ SharesHold /\ LinkedAsShown /\ SignInHolds
               /\ DerivedHolds)
<1>1. Init => /\ RetryInit /\ FilesInit /\ BlobsInit /\ OwnershipInit /\ LinkingInit /\ SignInInit
              /\ MessagesInit /\ TranscriptsInit
  BY DEF Init
<1>2. Spec => /\ RetrySpec /\ FilesSpec /\ BlobsSpec /\ OwnershipSpec /\ LinkingSpec /\ SignInSpec
              /\ MessagesInit /\ [][MessagesNext]_messageVars
              /\ TranscriptsInit /\ [][TranscriptsNext]_transcriptVars
  BY <1>1, StepOfAPart, PTL DEF Spec, RetrySpec, FilesSpec, BlobsSpec, OwnershipSpec, LinkingSpec, SignInSpec
<1>3. MessagesFound /\ TranscriptsInHand => DerivedHolds
  BY DEF DerivedHolds
<1> QED
  BY <1>2, <1>3, WritesHappenOnce, NothingStoredIsLost, BlobsStay, GivenAsAgreed, LinkedOnce, NothingCountsTwice,
     MessagesAreFound, NotesAreSettledOnce, PTL
=============================================================================
