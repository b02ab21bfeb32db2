------------------------------ MODULE Transfers ------------------------------
(***************************************************************************)
(* A file sent from one box to another through a room (transfers.js,       *)
(* transfers-http.js, transfer-consent.js, runExpireTransfers).  The       *)
(* sender uploads it in chunks, the user approves or declines it, and it   *)
(* is released once both have happened; the receiver fetches it and sends  *)
(* a receipt.  Chunk uploads and the hash of the whole run over awaits and *)
(* interleave with everything; the bytes go when the transfer is over.     *)
(*                                                                         *)
(* A chunk's body is "right" or, its own digest in order but not part of   *)
(* the announced file, "wrong".  The process may die after any commit;     *)
(* what it would have done next is then left to the retention pass.        *)
(*                                                                         *)
(* Bounds: Chunks, Puts uploads in flight, TransferDeaths crashes.         *)
(***************************************************************************)
EXTENDS Naturals, FiniteSets

CONSTANTS
  Chunks,          \* chunkCount
  Puts,            \* slots for uploads in flight
  TransferDeaths   \* times the process dies

ASSUME TransfersAssumption == Chunks \in Nat \ {0} /\ IsFiniteSet(Puts) /\ TransferDeaths \in Nat

VARIABLES
  consent, upload, phase,  \* the three state columns
  gone,      \* deleted_at
  received,  \* transfer_chunks
  files,     \* chunk files on disk
  litter,    \* a .tmp file nobody owns
  puts,      \* PUTs in flight: [n, body, at]
  hash,      \* the complete in progress: chunks left to read and the verdict
  got,       \* what the receiver has
  died,      \* crashes
  halted        \* an approved, uploaded transfer lost its release to a crash

transferVars == <<consent, upload, phase, gone, received, files, litter, puts, hash, got, died, halted>>

Numbers == 1..Chunks
Idle == [n |-> 0, body |-> "none", at |-> "idle"]
NoHash == [left |-> {}, verdict |-> "none"]
Empty == [n \in Numbers |-> "none"]
LivePhases == {"open", "released"}
BytesGone == {"cancelled", "declined", "failed", "expired"}
Writable == phase = "open" /\ upload = "uploading"
Hashing == hash # NoHash
PutsInFlight == {k \in Puts : puts[k] # Idle}

\* deleteTransferFiles: the directory goes, temporary files with it; a rename
\* that is under way then finds nothing.
Lost(p) == [k \in Puts |-> IF p[k].at = "placing" THEN [p[k] EXCEPT !.at = "lost"] ELSE p[k]]
DeleteFiles(p) == files' = Empty /\ litter' = FALSE /\ puts' = Lost(p)

\* The process dies: what it had in memory and in flight goes.
TransferDies ==
  /\ died < TransferDeaths /\ died' = died + 1
  /\ puts' = [k \in Puts |-> Idle]
  /\ litter' = (litter \/ \E k \in Puts : puts[k].at \in {"open", "placing"})
  /\ hash' = NoHash

\* The transfer ends in phase p: the row first, then the files and the chunk
\* rows, unless the process dies in between.
Settled(p) ==
  /\ phase' = p /\ gone' = TRUE
  /\ \/ DeleteFiles(puts) /\ received' = {} /\ UNCHANGED <<hash, died>>
     \/ TransferDies /\ UNCHANGED <<files, received>>

\* releaseIfReady reads the row again.  Slip: it is handed the row as it was
\* read before the change that made it ready.
ReleasedFromStale(c, u) == consent = "approved" /\ upload = "uploaded" /\ phase = "open"
ReleaseIfReady(c, u) == c = "approved" /\ u = "uploaded" /\ phase = "open"

Released(c, u) ==
  \/ /\ phase' = IF ReleaseIfReady(c, u) THEN "released" ELSE phase
     /\ UNCHANGED <<puts, litter, hash, died, halted>>
  \/ TransferDies /\ UNCHANGED phase /\ halted' = (c = "approved" /\ u = "uploaded")

-----------------------------------------------------------------------------
\* putChunk, before its first await.
PutStart(k, n, body) ==
  /\ puts[k] = Idle /\ Writable /\ ~Hashing
  /\ puts' = [puts EXCEPT ![k] = [n |-> n, body |-> body, at |-> "open"]]
  /\ UNCHANGED <<consent, upload, phase, gone, received, files, litter, hash, got, died, halted>>

\* refuse: a transfer whose bytes are gone is emptied again.
Refuse(k) ==
  IF phase \in BytesGone THEN DeleteFiles([puts EXCEPT ![k] = Idle])
  ELSE puts' = [puts EXCEPT ![k] = Idle] /\ UNCHANGED <<files, litter>>

\* receiveToPath: the body is in.
Acceptable == Writable /\ ~Hashing
PutAccept(k) ==
  /\ puts[k].at = "open"
  /\ IF Acceptable
     THEN puts' = [puts EXCEPT ![k].at = "placing"] /\ UNCHANGED <<files, litter>>
     ELSE Refuse(k)
  /\ UNCHANGED <<consent, upload, phase, gone, received, hash, got, died, halted>>

\* The rename lands, or fails with the directory.
PutPlace(k) ==
  /\ puts[k].at = "placing"
  /\ files' = [files EXCEPT ![puts[k].n] = puts[k].body]
  /\ puts' = [puts EXCEPT ![k].at = "placed"]
  /\ UNCHANGED <<consent, upload, phase, gone, received, litter, hash, got, died, halted>>

\* The connection breaks, the digest is wrong, or the rename failed.
PutBreaks(k) ==
  /\ puts[k].at \in {"open", "lost"}
  /\ IF Writable THEN puts' = [puts EXCEPT ![k] = Idle] /\ UNCHANGED <<files, litter>> ELSE Refuse(k)
  /\ UNCHANGED <<consent, upload, phase, gone, received, hash, got, died, halted>>

PutRecord(k) ==
  /\ puts[k].at = "placed"
  /\ IF Writable
     THEN /\ received' = received \cup {puts[k].n}
          /\ puts' = [puts EXCEPT ![k] = Idle] /\ UNCHANGED <<files, litter>>
     ELSE Refuse(k) /\ UNCHANGED received
  /\ UNCHANGED <<consent, upload, phase, gone, hash, got, died, halted>>

\* completeUpload and completeHeld, up to the hash.  Slip: uploads in flight
\* are not waited for.
QuietAlways == TRUE
Quiet == PutsInFlight = {}
CompleteStart ==
  /\ Writable /\ ~Hashing /\ Quiet /\ received = Numbers
  /\ hash' = [left |-> Numbers, verdict |-> "right"]
  /\ UNCHANGED <<consent, upload, phase, gone, received, files, litter, puts, got, died, halted>>

\* hashChunks, one chunk after the other.
HashChunk ==
  /\ Hashing /\ hash.left # {} /\ hash.verdict # "missing"
  /\ LET n == CHOOSE i \in hash.left : \A j \in hash.left : i <= j IN
       hash' = [left |-> hash.left \ {n},
                verdict |-> IF files[n] = "none" THEN "missing"
                            ELSE IF files[n] = "wrong" THEN "wrong" ELSE hash.verdict]
  /\ UNCHANGED <<consent, upload, phase, gone, received, files, litter, puts, got, died, halted>>

Hashed == Hashing /\ (hash.left = {} \/ hash.verdict = "missing")

\* The row is read again after the hash: somebody may have ended it.
CompleteStale ==
  /\ Hashed /\ ~Writable
  /\ hash' = NoHash
  /\ UNCHANGED <<consent, upload, phase, gone, received, files, litter, puts, got, died, halted>>

CompleteMissing ==
  /\ Hashed /\ Writable /\ hash.verdict = "missing"
  /\ received' = {n \in received : files[n] # "none"}
  /\ hash' = NoHash
  /\ UNCHANGED <<consent, upload, phase, gone, files, litter, puts, got, died, halted>>

CompleteFails ==
  /\ Hashed /\ Writable /\ hash.verdict = "wrong"
  /\ upload' = "failed" /\ phase' = "failed" /\ gone' = TRUE
  /\ \/ hash' = NoHash /\ DeleteFiles(puts) /\ received' = {} /\ UNCHANGED died
     \/ TransferDies /\ UNCHANGED <<files, received>>
  /\ UNCHANGED <<consent, got, halted>>

CompleteOk ==
  /\ Hashed /\ Writable /\ hash.verdict = "right"
  /\ upload' = "uploaded"
  /\ \/ /\ phase' = IF ReleaseIfReady(consent, "uploaded") THEN "released" ELSE phase
        /\ hash' = NoHash /\ UNCHANGED <<puts, litter, died, halted>>
     \/ TransferDies /\ UNCHANGED phase /\ halted' = (consent = "approved")
  /\ UNCHANGED <<consent, gone, received, files, got>>

-----------------------------------------------------------------------------
\* answerTransferAsk, for the user's tap on the card and for the Coordinator,
\* which needs none: the row alone decides, and the card only shows it.
Awaiting == consent = "awaiting_user" /\ phase = "open"

Approve ==
  /\ Awaiting
  /\ consent' = "approved"
  /\ Released("approved", upload)
  /\ UNCHANGED <<upload, gone, received, files, got>>

Decline ==
  /\ Awaiting
  /\ consent' = "declined"
  /\ Settled("declined")
  /\ UNCHANGED <<upload, got, halted>>

Cancel == phase \in LivePhases /\ Settled("cancelled") /\ UNCHANGED <<consent, upload, got, halted>>

-----------------------------------------------------------------------------
\* content: whole chunks only.  What the sweep takes meanwhile breaks the
\* stream, and the receiver has nothing.
Downloadable == phase = "released" \/ (phase = "delivered" /\ ~gone)

Fetch ==
  /\ Downloadable /\ \A n \in Numbers : files[n] # "none"
  /\ got' = IF \E n \in Numbers : files[n] = "wrong" THEN "wrong" ELSE "right"
  /\ UNCHANGED <<consent, upload, phase, gone, received, files, litter, puts, hash, died, halted>>

\* receipt: only with the digest of the announced file.
Receipt ==
  /\ got = "right" /\ phase = "released"
  /\ phase' = "delivered"
  /\ UNCHANGED <<consent, upload, gone, received, files, litter, puts, hash, got, died, halted>>

ReceiverFailed == phase = "released" /\ Settled("failed") /\ UNCHANGED <<consent, upload, got, halted>>

-----------------------------------------------------------------------------
\* runExpireTransfers, at boot and every six hours.
ClaimDelivered ==
  /\ phase = "delivered" /\ ~gone
  /\ gone' = TRUE
  /\ \/ DeleteFiles(puts) /\ received' = {} /\ UNCHANGED <<hash, died>>
     \/ TransferDies /\ UNCHANGED <<files, received>>
  /\ UNCHANGED <<consent, upload, phase, got, halted>>

Expire == phase \in LivePhases /\ Settled("expired") /\ UNCHANGED <<consent, upload, got, halted>>

\* The scan of the directory.  Slip: a table scan for the phases whose own
\* request deletes the bytes.
KeptByTable == phase \notin {"declined", "cancelled", "failed"}
Kept == phase \in LivePhases \/ (phase = "delivered" /\ ~gone)

SweepDirectory ==
  /\ ~Kept /\ (files # Empty \/ litter)
  /\ DeleteFiles(puts) /\ received' = {}
  /\ UNCHANGED <<consent, upload, phase, gone, hash, got, died, halted>>

-----------------------------------------------------------------------------
\* create.
TransfersInit ==
  /\ consent = "awaiting_user" /\ upload = "uploading" /\ phase = "open" /\ gone = FALSE
  /\ received = {} /\ files = Empty /\ litter = FALSE
  /\ puts = [k \in Puts |-> Idle] /\ hash = NoHash
  /\ got = "nothing" /\ died = 0 /\ halted = FALSE

TransfersNext ==
  \/ \E k \in Puts, n \in Numbers, body \in {"right", "wrong"} : PutStart(k, n, body)
  \/ \E k \in Puts : PutAccept(k) \/ PutPlace(k) \/ PutBreaks(k) \/ PutRecord(k)
  \/ CompleteStart \/ HashChunk \/ CompleteStale \/ CompleteMissing \/ CompleteFails \/ CompleteOk
  \/ Approve \/ Decline \/ Cancel
  \/ Fetch \/ Receipt \/ ReceiverFailed
  \/ ClaimDelivered \/ Expire \/ SweepDirectory

\* The retention pass runs at boot and on a timer.
TransfersFairness == WF_transferVars(SweepDirectory)

TransfersSpec == TransfersInit /\ [][TransfersNext]_transferVars /\ TransfersFairness

-----------------------------------------------------------------------------
(* What a transfer promises. *)

\* The receiver can fetch, and has, only the announced file, and only after
\* the user approved it, whatever was uploaded while it was being hashed
\* (putChunk, completeUpload).
ReleasedWhole ==
  /\ Downloadable => consent = "approved" /\ \A n \in Numbers : files[n] = "right"
  /\ got # "nothing" => got = "right" /\ consent = "approved"

\* Whichever comes second, the approval or the last chunk, releases the
\* file, unless the process dies between the two commits (releaseIfReady).
ReadyIsReleased == (consent = "approved" /\ upload = "uploaded" /\ ~halted) => phase # "open"

\* The bytes of a transfer that is over do not stay on disk, whatever crash
\* or late upload comes after (runExpireTransfers).
GoneLeavesNothing == gone ~> (files = Empty /\ ~litter)

\* The receiver gets the file when it is whole and approved, and then it does
\* (releaseIfReady).
FileReleased == ReleasedWhole /\ ReadyIsReleased
=============================================================================
