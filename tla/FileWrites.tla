------------------------------ MODULE FileWrites ------------------------------
(***************************************************************************)
(* Writes to files below a write root (file-guard.js): a write through a   *)
(* temporary file, which may replace a file after linking it into the      *)
(* trash; a move by link and unlink, or by copy from one device to         *)
(* another; a delete, which is a move into the trash.  Each is a row of    *)
(* system calls between which another process may change the same files,   *)
(* and after each of which the server may die.  Two requests of the server *)
(* interleave only while a body is streamed in: between its checks and its *)
(* commit a job has the event loop to itself (`cpu`).                      *)
(*                                                                         *)
(* A file is an inode with its data, both numbers; the names are the two   *)
(* paths A and B and, for each job, a temporary name and one in the trash. *)
(* Paths outside the roots, symlinks, directories and dry runs are left    *)
(* out, and so is a race in the middle of one check.                       *)
(*                                                                         *)
(* Bounds: Jobs requests, Numbers inodes and versions, Outside changes by  *)
(* the other process.                                                      *)
(***************************************************************************)
EXTENDS Naturals, FiniteSets

CONSTANTS Jobs, Inodes, Outside

ASSUME FileWritesAssumption == IsFiniteSet(Jobs) /\ "none" \notin Jobs /\ Inodes \in Nat \ {0} /\ Outside \in Nat

VARIABLES
  at,       \* the inode at each name, 0 for none
  data,     \* what each inode holds, 0 for nothing
  fresh,    \* numbers given out
  outside,  \* changes of the other process
  jobs,     \* [kind, over, stat, new, seen, dest, pc, end]
  cpu,      \* the job that runs, or "none"
  dead,     \* the server has died
  owed,     \* contents somebody stored and nobody but the server took away
  window,   \* those stored between a job's last look and its commit, in a file it does not keep
  blind     \* those a replacing write found at a name that was free before

fileVars == <<at, data, fresh, outside, jobs, cpu, dead, owed, window, blind>>

A == <<"A">>
B == <<"B">>
Paths == {A, B}
Tmp(j) == <<"tmp", j>>
Trash(j) == <<"trash", j>>
Names == Paths \cup {Tmp(j) : j \in Jobs} \cup {Trash(j) : j \in Jobs}
IdleJob == [kind |-> "none", over |-> FALSE, stat |-> 0, new |-> 0, seen |-> 0, dest |-> B, pc |-> "idle", end |-> "none"]

Reachable == {data[at[n]] : n \in {m \in Names : at[m] # 0}} \ {0}
Go(j, pc) == jobs' = [jobs EXCEPT ![j].pc = pc]
Alone(j) == cpu = j /\ ~dead
Same == UNCHANGED <<owed, window, blind, outside, dead>>

\* assertTargetIdentity.  Slip: the name is still taken.
StillTaken(j, path) == at[path] # 0
SameFile(j, path) == at[path] = jobs[j].stat

\* The end of a request; `names` are its leftovers that the error path takes
\* away, each only while it is what the job put there.
Finish(j, end, names) ==
  /\ at' = [n \in Names |-> IF n \in names THEN 0 ELSE at[n]]
  /\ jobs' = [jobs EXCEPT ![j] = [IdleJob EXCEPT !.kind = jobs[j].kind, !.end = end, !.pc = "over"]]
  /\ cpu' = "none"

\* What a failed job leaves behind.  Slip: the backup stays.
OnlyTemporary(j) == {Tmp(j)}
Leftovers(j) == {Tmp(j)} \cup (IF at[Trash(j)] \in {jobs[j].stat, jobs[j].new} THEN {Trash(j)} ELSE {})

\* removeReservation.
Reserved(j) == IF at[jobs[j].dest] = jobs[j].new /\ jobs[j].pc \in {"reserved", "copied"} THEN {jobs[j].dest} ELSE {}
Fail(j) == Finish(j, "failed", Leftovers(j) \cup Reserved(j))

-----------------------------------------------------------------------------
\* writeFileAtomic: prepareWriteTarget, and the temporary file.
WriteStarts(j, over) ==
  /\ jobs[j].pc = "idle" /\ cpu = "none" /\ ~dead /\ fresh < Inodes
  /\ at[A] # 0 => over
  /\ fresh' = fresh + 1
  /\ at' = [at EXCEPT ![Tmp(j)] = fresh + 1] /\ data' = [data EXCEPT ![fresh + 1] = fresh + 1]
  /\ jobs' = [jobs EXCEPT ![j] = [IdleJob EXCEPT !.kind = "write", !.over = over, !.stat = at[A], !.new = fresh + 1, !.pc = "streaming"]]
  /\ UNCHANGED cpu /\ Same

\* The body breaks off or is too large.
StreamBreaks(j) ==
  /\ jobs[j].pc = "streaming" /\ cpu = "none" /\ ~dead
  /\ Fail(j)
  /\ UNCHANGED <<data, fresh>> /\ Same

\* The body is in; preserveFileForOverwrite links what is there into the trash.
Backup(j) ==
  /\ jobs[j].pc = "streaming" /\ cpu = "none" /\ ~dead
  /\ IF jobs[j].stat = 0 THEN Go(j, "checked") /\ cpu' = j /\ UNCHANGED at
     ELSE IF SameFile(j, A) THEN at' = [at EXCEPT ![Trash(j)] = at[A]] /\ Go(j, "backed") /\ cpu' = j
     ELSE Fail(j)
  /\ UNCHANGED <<data, fresh>> /\ Same

CheckTarget(j) ==
  /\ Alone(j) /\ jobs[j].pc = "backed"
  /\ IF SameFile(j, A) THEN Go(j, "checked") /\ UNCHANGED <<at, cpu>> ELSE Fail(j)
  /\ UNCHANGED <<data, fresh>> /\ Same

Committed(j) == owed' = owed \cup {data[jobs[j].new]}

\* rename, which takes whatever is at the name.
Replace(j) ==
  /\ Alone(j) /\ jobs[j].pc = "checked" /\ jobs[j].kind = "write" /\ jobs[j].over
  /\ at' = [at EXCEPT ![A] = at[Tmp(j)], ![Tmp(j)] = 0]
  /\ jobs' = [jobs EXCEPT ![j] = [IdleJob EXCEPT !.kind = "write", !.end = "done", !.pc = "over"]]
  /\ cpu' = "none"
  /\ Committed(j)
  /\ blind' = IF jobs[j].stat = 0 /\ at[A] # 0 THEN blind \cup {data[at[A]]} ELSE blind
  /\ UNCHANGED <<data, fresh, window, outside, dead>>

\* linkNoReplace, which fails when the name is taken.  Slip: a plain rename.
RenameOver(path) == TRUE
NoReplace(path) == at[path] = 0

Create(j) ==
  /\ Alone(j) /\ jobs[j].pc = "checked" /\ jobs[j].kind = "write" /\ ~jobs[j].over
  /\ IF NoReplace(A)
     THEN /\ at' = [at EXCEPT ![A] = at[Tmp(j)], ![Tmp(j)] = 0]
          /\ jobs' = [jobs EXCEPT ![j] = [IdleJob EXCEPT !.kind = "write", !.end = "done", !.pc = "over"]]
          /\ cpu' = "none" /\ Committed(j)
     ELSE Fail(j) /\ UNCHANGED owed
  /\ UNCHANGED <<data, fresh, window, blind, outside, dead>>

-----------------------------------------------------------------------------
\* moveGuarded: a regular file, to a name that is free.
MoveStarts(j) ==
  /\ jobs[j].pc = "idle" /\ cpu = "none" /\ ~dead
  /\ at[A] # 0 /\ at[B] = 0
  /\ jobs' = [jobs EXCEPT ![j] = [IdleJob EXCEPT !.kind = "move", !.stat = at[A], !.new = at[A], !.pc = "linking"]]
  /\ cpu' = j
  /\ UNCHANGED <<at, data, fresh>> /\ Same

Link(j) ==
  /\ Alone(j) /\ jobs[j].pc = "linking"
  /\ IF at[A] # 0 /\ NoReplace(B)
     THEN /\ at' = [at EXCEPT ![B] = at[A]]
          /\ IF SameFile(j, A) THEN Go(j, "linked") /\ UNCHANGED cpu
             ELSE /\ jobs' = [jobs EXCEPT ![j] = [IdleJob EXCEPT !.kind = "move", !.end = "failed", !.pc = "over"]]
                  /\ cpu' = "none"
     ELSE Fail(j)
  /\ UNCHANGED <<data, fresh>> /\ Same

\* EXDEV, or a trash on another device: the destination is reserved with an
\* empty file.
Reserve(j) ==
  /\ Alone(j) /\ jobs[j].pc \in {"linking", "trashing"} /\ fresh < Inodes
  /\ at[jobs[j].dest] = 0
  /\ fresh' = fresh + 1
  /\ at' = [at EXCEPT ![jobs[j].dest] = fresh + 1]
  /\ jobs' = [jobs EXCEPT ![j].pc = "reserved", ![j].new = fresh + 1]
  /\ UNCHANGED <<data, cpu>> /\ Same

\* copyRegularFileForMove: the bytes as they are now.
Copy(j) ==
  /\ Alone(j) /\ jobs[j].pc = "reserved"
  /\ IF SameFile(j, A) /\ fresh < Inodes
     THEN /\ fresh' = fresh + 1
          /\ at' = [at EXCEPT ![Tmp(j)] = fresh + 1]
          /\ data' = [data EXCEPT ![fresh + 1] = data[jobs[j].stat]]
          /\ jobs' = [jobs EXCEPT ![j].pc = "copied", ![j].seen = data[jobs[j].stat]]
          /\ UNCHANGED cpu
     ELSE Fail(j) /\ UNCHANGED <<data, fresh>>
  /\ Same

\* The reservation is released for the link of the copy.
Install(j) ==
  /\ Alone(j) /\ jobs[j].pc = "copied"
  /\ LET d == jobs[j].dest IN
       IF SameFile(j, A) /\ at[d] = jobs[j].new
       THEN /\ at' = [at EXCEPT ![d] = at[Tmp(j)], ![Tmp(j)] = 0]
            /\ jobs' = [jobs EXCEPT ![j].pc = "installed", ![j].new = at[Tmp(j)]]
            /\ UNCHANGED cpu
       ELSE Fail(j)
  /\ UNCHANGED <<data, fresh>> /\ Same

\* The installed file is taken back, unless it is not ours any more.
RollBack(j) == Finish(j, "failed", IF at[jobs[j].dest] = jobs[j].new THEN {jobs[j].dest} ELSE {})

\* The source is as it was copied: inode, size and times.  Slip: it is the
\* same file.
SameInode(j) == SameFile(j, A)
Unchanged(j) == SameFile(j, A) /\ data[jobs[j].stat] = jobs[j].seen

\* The last look at the source before it is unlinked.  A move that finds
\* another file there keeps what it has linked.
CheckSource(j) ==
  /\ Alone(j) /\ jobs[j].pc \in {"linked", "installed"}
  /\ IF jobs[j].pc = "linked"
     THEN IF SameFile(j, A) THEN Go(j, "checked") /\ UNCHANGED <<at, cpu>> ELSE Finish(j, "failed", {})
     ELSE IF Unchanged(j) THEN Go(j, "checked") /\ UNCHANGED <<at, cpu>> ELSE RollBack(j)
  /\ UNCHANGED <<data, fresh>> /\ Same

Unlink(j) ==
  /\ Alone(j) /\ jobs[j].pc = "checked" /\ jobs[j].kind \in {"move", "delete"}
  /\ Finish(j, "done", {A})
  /\ UNCHANGED <<data, fresh>> /\ Same

\* A copy is taken back.  A link is only while the name still has the file:
\* it may be the last name there is.
Linked(j) == jobs[j].kind = "move" /\ jobs[j].new = jobs[j].stat

UnlinkFails(j) ==
  /\ Alone(j) /\ jobs[j].pc = "checked" /\ jobs[j].kind \in {"move", "delete"}
  /\ IF Linked(j) /\ ~SameFile(j, A) THEN Finish(j, "failed", {}) ELSE RollBack(j)
  /\ UNCHANGED <<data, fresh>> /\ Same

-----------------------------------------------------------------------------
\* trashGuarded: the reservation, the last look and the rename.
DeleteStarts(j) ==
  /\ jobs[j].pc = "idle" /\ cpu = "none" /\ ~dead /\ at[A] # 0
  /\ jobs' = [jobs EXCEPT ![j] = [IdleJob EXCEPT !.kind = "delete", !.stat = at[A], !.dest = Trash(j), !.pc = "trashing"]]
  /\ cpu' = j
  /\ UNCHANGED <<at, data, fresh>> /\ Same

TrashRename(j) ==
  /\ Alone(j) /\ jobs[j].pc = "reserved" /\ jobs[j].kind = "delete"
  /\ IF SameFile(j, A)
     THEN /\ at' = [at EXCEPT ![Trash(j)] = at[A], ![A] = 0]
          /\ jobs' = [jobs EXCEPT ![j] = [IdleJob EXCEPT !.kind = "delete", !.end = "done", !.pc = "over"]]
          /\ cpu' = "none"
     ELSE Fail(j)
  /\ UNCHANGED <<data, fresh>> /\ Same

-----------------------------------------------------------------------------
\* The other process stores a file at a path, edits the one at A in place or
\* removes one; what it replaces or removes itself it does not miss.
\* It leaves what a move has just installed alone.

\* The inode a job keeps of what it takes from A: the backup of a write, the
\* destination of a move or a delete.
KeptInode(j) == IF jobs[j].kind = "write" THEN at[Trash(j)] ELSE at[jobs[j].dest]

\* A job has looked for the last time and will take what is at the path, and
\* `inode` there is not the one it keeps.  A backup or a move by link keeps the
\* very file, with what is edited into it meanwhile; a copy does not.
Watched(path, inode) == path = A /\ \E j \in Jobs :
  jobs[j].pc = "checked" /\ (jobs[j].kind = "write" => jobs[j].over) /\ KeptInode(j) # inode

\* `inode` is what is at the path afterwards, with a content of its own.
External(path, inode) ==
  LET content == IF inode = 0 THEN {} ELSE {fresh + 1} IN
    /\ outside < Outside /\ outside' = outside + 1
    /\ fresh < Inodes
    /\ path = B => \A j \in Jobs : jobs[j].kind = "move" => jobs[j].pc \notin {"linked", "installed", "checked"}
    /\ owed' = (owed \ (IF at[path] = 0 THEN {} ELSE {data[at[path]]})) \cup content
    /\ window' = IF Watched(path, inode) THEN window \cup content ELSE window
    /\ UNCHANGED <<jobs, cpu, dead, blind>>

Store(path) ==
  /\ External(path, fresh + 1)
  /\ fresh' = fresh + 1
  /\ at' = [at EXCEPT ![path] = fresh + 1] /\ data' = [data EXCEPT ![fresh + 1] = fresh + 1]

Edit ==
  /\ at[A] # 0
  /\ External(A, at[A])
  /\ fresh' = fresh + 1
  /\ data' = [data EXCEPT ![at[A]] = fresh + 1] /\ UNCHANGED at

Remove(path) ==
  /\ at[path] # 0
  /\ External(path, 0)
  /\ at' = [at EXCEPT ![path] = 0] /\ UNCHANGED <<data, fresh>>

\* The server dies: what its jobs did so far stays.
WriterDies ==
  /\ ~dead /\ dead' = TRUE
  /\ cpu' = "none"
  /\ UNCHANGED <<at, data, fresh, outside, jobs, owed, window, blind>>

-----------------------------------------------------------------------------
FilesInit ==
  /\ \E there \in {0, 1} : at = [n \in Names |-> IF n = A THEN there ELSE 0]
  /\ data = [i \in 1..Inodes |-> IF i = 1 THEN 1 ELSE 0]
  /\ fresh = 1 /\ outside = 0
  /\ jobs = [j \in Jobs |-> IdleJob] /\ cpu = "none" /\ dead = FALSE
  /\ owed = Reachable /\ window = {} /\ blind = {}

FilesNext ==
  \/ \E j \in Jobs :
       \/ \E over \in BOOLEAN : WriteStarts(j, over)
       \/ StreamBreaks(j) \/ Backup(j) \/ CheckTarget(j) \/ Replace(j) \/ Create(j)
       \/ MoveStarts(j) \/ Link(j) \/ Reserve(j) \/ Copy(j) \/ Install(j)
       \/ CheckSource(j) \/ Unlink(j) \/ UnlinkFails(j)
       \/ DeleteStarts(j) \/ TrashRename(j)
  \/ \E path \in Paths : Store(path) \/ Remove(path)
  \/ Edit
  \/ WriterDies

FilesSpec == FilesInit /\ [][FilesNext]_fileVars

-----------------------------------------------------------------------------
(* What the guards promise. *)

\* Whatever is stored can be found again: a write, a move or a delete loses
\* nothing another process or another request stored, at no step and in no
\* crash.  Two gaps are known and named.  Between a job's last look and its
\* commit it takes what is at the name unseen: a file put there, or an edit of
\* one it has only copied.  And a replacing write to a name that was free when
\* it was prepared takes whatever it finds, with no backup (file-guard.js).
NothingLost == owed \ (window \cup blind) \subseteq Reachable

\* A request that failed leaves no temporary file, no backup and no
\* reservation behind, unless the server died on the way.
FailedLeavesNothing == \A j \in Jobs :
  (jobs[j].end = "failed" /\ ~dead) => at[Tmp(j)] = 0 /\ at[Trash(j)] = 0

\* What the comment on writeFileAtomic says: a replaced file is in the trash.
OverwriteRecoverable == owed \ window \subseteq Reachable

\* A request stores what it says or leaves everything as it was
\* (writeFileAtomic, moveGuarded, trashGuarded).
WritesAreSafe == NothingLost /\ FailedLeavesNothing
=============================================================================
