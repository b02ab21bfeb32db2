----------------------------- MODULE ChatsProofs -----------------------------
(***************************************************************************)
(* Theorems about what goes from one to another live, for every value of   *)
(* the constants: a file sent from box to box, the contact and the rooms   *)
(* of two people, the pushes to a phone, the output of a command; and      *)
(* about the four side by side (MCChats).                                  *)
(***************************************************************************)
EXTENDS MCChats, WellFoundedInduction, FiniteSetTheorems, TLAPS

-----------------------------------------------------------------------------
(* Numbers.                                                                *)

\* A set of naturals has a least member.
LEMMA LeastNatural ==
  ASSUME NEW D \in SUBSET Nat, D # {}
  PROVE  \E d \in D : \A k \in D : d <= k
<1> DEFINE R == OpToRel(<, Nat)
<1>1. IsWellFoundedOn(R, Nat)
  BY NatLessThanWellFounded
<1>2. \A x, y \in Nat : x < y => <<x, y>> \in R
  BY DEF OpToRel
<1> HIDE DEF R
<1>3. PICK d \in D : \A k \in D : ~(<<k, d>> \in R)
  BY <1>1, WFMin
<1>4. \A k \in D : ~(k < d) /\ k \in Nat /\ d \in Nat
  BY <1>2, <1>3
<1> QED
  BY <1>4

-----------------------------------------------------------------------------
(* Transfers: the inductive invariant.                                     *)

Bodies == {"none", "right", "wrong"}
PutRows == [n : Nat, body : Bodies, at : {"idle", "open", "placing", "lost", "placed"}]
HashRows == [left : SUBSET Numbers, verdict : {"none", "right", "wrong", "missing"}]

TransferTypeOK ==
  /\ consent \in {"awaiting_user", "approved", "declined"}
  /\ upload \in {"uploading", "uploaded", "failed"}
  /\ phase \in LivePhases \cup BytesGone \cup {"delivered"}
  /\ files \in [Numbers -> Bodies]
  /\ puts \in [Puts -> PutRows]
  /\ hash \in HashRows

\* Nothing is written while the whole is hashed, nor once it was found right.
NobodyWrites == Hashing \/ upload = "uploaded" => \A k \in Puts : puts[k] = Idle

\* The hash says of the chunks it has read what they still are.
HashIsTrue ==
  Hashing /\ Writable /\ hash.verdict = "right" => \A n \in Numbers \ hash.left : files[n] = "right"

\* What was found right stays as long as it may be fetched, or may come to that.
WholeIsKept == upload = "uploaded" /\ Kept => \A n \in Numbers : files[n] = "right"

\* What was released was whole and approved, and what was fetched was released.
ReleasedRightly ==
  /\ phase \in {"released", "delivered"} => upload = "uploaded" /\ consent = "approved"
  /\ got # "nothing" => got = "right" /\ consent = "approved"

TransferInv ==
  TransferTypeOK /\ NobodyWrites /\ HashIsTrue /\ WholeIsKept /\ ReleasedRightly /\ ReadyIsReleased

\* The states of a transfer do not overlap.
LEMMA PhasesApart ==
  /\ LivePhases = {"open", "released"} /\ "open" \notin BytesGone /\ "released" \notin BytesGone
  /\ "delivered" \notin BytesGone /\ "delivered" \notin LivePhases
BY DEF LivePhases, BytesGone

\* No chunk, no hash.
LEMMA NothingIs ==
  /\ Empty \in [Numbers -> Bodies] /\ Idle \in PutRows /\ Idle.at = "idle"
  /\ NoHash \in HashRows
BY DEF Empty, Idle, NoHash, Bodies, PutRows, HashRows

\* The promise is the invariant's.
LEMMA TransferSays == TransferInv => FileReleased
<1> SUFFICES ASSUME TransferInv PROVE FileReleased
  OBVIOUS
<1>1. Downloadable => consent = "approved" /\ upload = "uploaded" /\ Kept
  BY DEF TransferInv, ReleasedRightly, Downloadable, Kept, LivePhases
<1>2. Downloadable => \A n \in Numbers : files[n] = "right"
  BY <1>1 DEF TransferInv, WholeIsKept
<1> QED
  BY <1>1, <1>2 DEF TransferInv, ReleasedRightly, FileReleased, ReleasedWhole

-----------------------------------------------------------------------------
(* Transfers: the operations.                                              *)

\* Who is idle stays idle when the directory goes.
LEMMA DirectoryGoes ==
  ASSUME TransferTypeOK, NEW p \in [Puts -> PutRows], \A k \in Puts : puts[k] = Idle => p[k] = Idle,
         DeleteFiles(p)
  PROVE  /\ files' \in [Numbers -> Bodies] /\ puts' \in [Puts -> PutRows]
         /\ \A k \in Puts : puts[k] = Idle => puts'[k] = Idle
<1>1. files' = Empty /\ puts' = [k \in Puts |-> IF p[k].at = "placing" THEN [p[k] EXCEPT !.at = "lost"] ELSE p[k]]
  BY DEF DeleteFiles, Lost
<1>2. \A k \in Puts : p[k] \in PutRows /\ [p[k] EXCEPT !.at = "lost"] \in PutRows
  <2> TAKE k \in Puts
  <2>1. p[k] \in PutRows
    OBVIOUS
  <2> QED
    BY <2>1 DEF PutRows
<1>3. puts' \in [Puts -> PutRows]
  BY <1>1, <1>2
<1>4. \A k \in Puts : puts[k] = Idle => puts'[k] = Idle
  BY <1>1, NothingIs
<1> QED
  BY <1>1, <1>3, <1>4, NothingIs

\* The process dies: nobody writes and nothing is hashed.
LEMMA DeathIdles ==
  ASSUME TransferDies
  PROVE  /\ puts' \in [Puts -> PutRows] /\ \A k \in Puts : puts'[k] = Idle
         /\ hash' = NoHash /\ ~Hashing' /\ hash' \in HashRows
BY NothingIs DEF TransferDies, Hashing

\* A transfer that ends, by whomever: nothing of it can be fetched any more.
LEMMA EndKeeps ==
  ASSUME TransferInv, NEW to \in BytesGone, Settled(to), UNCHANGED <<upload, got, halted>>,
         consent' = consent \/ (consent = "awaiting_user" /\ consent' = "declined")
  PROVE  TransferInv'
<1>1. phase' = to /\ to \notin LivePhases /\ to # "delivered" /\ to # "open" /\ to # "released"
  BY DEF Settled, BytesGone, LivePhases
<1>2. ~Writable' /\ ~Kept'
  BY <1>1 DEF Writable, Kept, LivePhases
<1>3. /\ files' \in [Numbers -> Bodies] /\ puts' \in [Puts -> PutRows] /\ hash' \in HashRows
      /\ \A k \in Puts : puts[k] = Idle => puts'[k] = Idle
      /\ Hashing' => Hashing
  <2>1. CASE DeleteFiles(puts) /\ hash' = hash
    BY <2>1, DirectoryGoes DEF TransferInv, TransferTypeOK, Hashing
  <2>2. CASE TransferDies /\ files' = files
    BY <2>2, DeathIdles DEF TransferInv, TransferTypeOK
  <2> QED
    BY <2>1, <2>2 DEF Settled
<1>4. TransferTypeOK'
  BY <1>1, <1>3 DEF TransferInv, TransferTypeOK
<1>5. NobodyWrites'
  BY <1>3 DEF TransferInv, NobodyWrites
<1>6. HashIsTrue' /\ WholeIsKept'
  BY <1>2 DEF HashIsTrue, WholeIsKept
<1>7. ReleasedRightly' /\ ReadyIsReleased'
  BY <1>1 DEF TransferInv, ReleasedRightly, ReadyIsReleased
<1> QED
  BY <1>4, <1>5, <1>6, <1>7 DEF TransferInv

\* answerTransferAsk (no), cancel, the receiver's failure, runExpireTransfers.
LEMMA EndingsKeep ==
  ASSUME TransferInv, Decline \/ Cancel \/ ReceiverFailed \/ Expire
  PROVE  TransferInv'
<1>1. CASE Decline
  <2>1. "declined" \in BytesGone /\ Settled("declined") /\ UNCHANGED <<upload, got, halted>>
        /\ consent = "awaiting_user" /\ consent' = "declined"
    BY <1>1 DEF Decline, Awaiting, BytesGone
  <2> QED
    BY <2>1, EndKeeps
<1>2. CASE Cancel \/ ReceiverFailed \/ Expire
  <2>1. PICK to \in {"cancelled", "failed", "expired"} : Settled(to) /\ UNCHANGED <<consent, upload, got, halted>>
    BY <1>2 DEF Cancel, ReceiverFailed, Expire
  <2>2. to \in BytesGone
    BY DEF BytesGone
  <2> QED
    BY <2>1, <2>2, EndKeeps
<1> QED
  BY <1>1, <1>2

\* An upload in flight is one that somebody sends: nothing is being hashed and
\* nothing was found right.
LEMMA WritingIsEarly ==
  ASSUME TransferInv, NEW k \in Puts, puts[k] # Idle
  PROVE  ~Hashing /\ upload # "uploaded"
BY DEF TransferInv, NobodyWrites

\* What an upload does to itself and its chunk, before the hash, changes
\* nothing the invariant speaks of; nor does what it leaves of a transfer
\* whose bytes are gone.
LEMMA WritingKeeps ==
  ASSUME TransferInv, ~Hashing, upload # "uploaded",
         files' \in [Numbers -> Bodies], puts' \in [Puts -> PutRows],
         UNCHANGED <<consent, upload, phase, gone, hash, got, halted>>
  PROVE  TransferInv'
<1>1. ~Hashing' /\ upload' # "uploaded"
  BY DEF Hashing
<1>2. TransferTypeOK'
  BY DEF TransferInv, TransferTypeOK
<1>3. NobodyWrites' /\ HashIsTrue' /\ WholeIsKept'
  BY <1>1 DEF NobodyWrites, HashIsTrue, WholeIsKept
<1>4. ReleasedRightly' /\ ReadyIsReleased'
  BY <1>1 DEF TransferInv, ReleasedRightly, ReadyIsReleased
<1> QED
  BY <1>2, <1>3, <1>4 DEF TransferInv

LEMMA RefusalTypes ==
  ASSUME TransferTypeOK, NEW k \in Puts, Refuse(k)
  PROVE  files' \in [Numbers -> Bodies] /\ puts' \in [Puts -> PutRows]
<1>1. [puts EXCEPT ![k] = Idle] \in [Puts -> PutRows]
  BY NothingIs DEF TransferTypeOK
<1>2. \A j \in Puts : puts[j] = Idle => [puts EXCEPT ![k] = Idle][j] = Idle
  BY DEF TransferTypeOK
<1>3. CASE phase \in BytesGone
  BY <1>1, <1>2, <1>3, DirectoryGoes DEF Refuse
<1>4. CASE phase \notin BytesGone
  BY <1>1, <1>4 DEF Refuse, TransferTypeOK
<1> QED
  BY <1>3, <1>4

LEMMA PutStartKeeps ==
  ASSUME TransferInv, NEW k \in Puts, NEW n \in Numbers, NEW body \in {"right", "wrong"}, PutStart(k, n, body)
  PROVE  TransferInv'
<1>1. ~Hashing /\ upload # "uploaded"
  BY DEF PutStart, Writable
<1>2. [n |-> n, body |-> body, at |-> "open"] \in PutRows
  BY DEF PutRows, Bodies, Numbers
<1>3. files' \in [Numbers -> Bodies] /\ puts' \in [Puts -> PutRows]
  BY <1>2 DEF PutStart, TransferInv, TransferTypeOK
<1> QED
  BY <1>1, <1>3, WritingKeeps DEF PutStart

\* Whichever step an upload takes, it goes on, ends, or is refused.
LEMMA PutGoesOn ==
  ASSUME TransferInv, NEW k \in Puts, PutAccept(k) \/ PutPlace(k) \/ PutBreaks(k) \/ PutRecord(k)
  PROVE  TransferInv'
<1>1. puts \in [Puts -> PutRows] /\ puts[k] \in PutRows /\ files \in [Numbers -> Bodies]
  BY DEF TransferInv, TransferTypeOK
<1>2. puts[k] # Idle
  BY NothingIs DEF PutAccept, PutPlace, PutBreaks, PutRecord
<1>3. [puts[k] EXCEPT !.at = "placing"] \in PutRows /\ [puts[k] EXCEPT !.at = "placed"] \in PutRows
      /\ puts[k].body \in Bodies
  BY <1>1 DEF PutRows
<1>4. files' \in [Numbers -> Bodies] /\ puts' \in [Puts -> PutRows]
  <2>1. CASE puts' = [puts EXCEPT ![k].at = "placing"] /\ files' = files
    <3>1. puts' = [puts EXCEPT ![k] = [puts[k] EXCEPT !.at = "placing"]]
      BY <2>1, <1>1
    <3> QED
      BY <3>1, <2>1, <1>1, <1>3
  <2>2. CASE PutPlace(k)
    <3>1. puts' = [puts EXCEPT ![k] = [puts[k] EXCEPT !.at = "placed"]]
      BY <2>2, <1>1 DEF PutPlace
    <3>2. files' = [files EXCEPT ![puts[k].n] = puts[k].body]
      BY <2>2 DEF PutPlace
    <3>3. puts' \in [Puts -> PutRows]
      BY <3>1, <1>1, <1>3
    <3> QED
      BY <3>2, <3>3, <1>1, <1>3
  <2>3. CASE puts' = [puts EXCEPT ![k] = Idle] /\ files' = files
    BY <2>3, <1>1, NothingIs
  <2>4. CASE Refuse(k)
    BY <2>4, RefusalTypes DEF TransferInv
  <2> QED
    BY <2>1, <2>2, <2>3, <2>4 DEF PutAccept, PutBreaks, PutRecord
<1>5. UNCHANGED <<consent, upload, phase, gone, hash, got, halted>>
  BY DEF PutAccept, PutPlace, PutBreaks, PutRecord
<1> QED
  BY <1>2, <1>4, <1>5, WritingIsEarly, WritingKeeps

\* completeUpload and its hash: it starts when nobody writes.
LEMMA HashStarts == ASSUME TransferInv, CompleteStart PROVE TransferInv'
<1>1. hash' = [left |-> Numbers, verdict |-> "right"] /\ hash' \in HashRows
  BY DEF CompleteStart, HashRows
<1>2. \A k \in Puts : puts'[k] = Idle
  BY DEF CompleteStart, Quiet, PutsInFlight
<1>3. TransferTypeOK' /\ NobodyWrites' /\ ReleasedRightly' /\ ReadyIsReleased'
  BY <1>1, <1>2 DEF CompleteStart, TransferInv, TransferTypeOK, NobodyWrites, ReleasedRightly, ReadyIsReleased
<1>4. HashIsTrue'
  BY <1>1 DEF HashIsTrue
<1>5. WholeIsKept'
  BY DEF CompleteStart, Writable, WholeIsKept
<1> QED
  BY <1>3, <1>4, <1>5 DEF TransferInv

LEMMA HashReads == ASSUME TransferInv, HashChunk PROVE TransferInv'
<1> DEFINE least == CHOOSE i \in hash.left : \A j \in hash.left : i <= j
<1>1. PICK n : n = least
  OBVIOUS
<1>2. hash.left \subseteq Numbers /\ hash.left # {} /\ Hashing /\ Numbers \subseteq Nat
      /\ hash.verdict \in {"none", "right", "wrong", "missing"}
  BY DEF HashChunk, TransferInv, TransferTypeOK, HashRows, Numbers
<1>3. n \in hash.left
  <2>1. \E i \in hash.left : \A j \in hash.left : i <= j
    BY <1>2, LeastNatural
  <2> QED
    BY <2>1, <1>1
<1>4. hash' = [left |-> hash.left \ {n},
               verdict |-> IF files[n] = "none" THEN "missing"
                           ELSE IF files[n] = "wrong" THEN "wrong" ELSE hash.verdict]
  BY <1>1 DEF HashChunk
<1> HIDE DEF least
<1>5. UNCHANGED <<consent, upload, phase, gone, files, puts, got, halted>>
  BY DEF HashChunk
<1>6. hash' \in HashRows
  BY <1>2, <1>4 DEF HashRows
<1>7. TransferTypeOK' /\ NobodyWrites' /\ WholeIsKept' /\ ReleasedRightly' /\ ReadyIsReleased'
  BY <1>2, <1>5, <1>6 DEF TransferInv, TransferTypeOK, NobodyWrites, WholeIsKept, Kept, ReleasedRightly, ReadyIsReleased
<1>8. HashIsTrue'
  <2> SUFFICES ASSUME Writable', hash'.verdict = "right", NEW m \in Numbers, m \notin hash'.left
               PROVE  files'[m] = "right"
    BY DEF HashIsTrue
  <2>1. hash.verdict = "right" /\ files[n] # "none" /\ files[n] # "wrong" /\ Writable
    BY <1>4, <1>5 DEF Writable
  <2>2. CASE m = n
    BY <2>1, <2>2, <1>3, <1>2, <1>5 DEF TransferInv, TransferTypeOK, Bodies
  <2>3. CASE m # n
    BY <2>1, <2>3, <1>2, <1>4, <1>5 DEF TransferInv, HashIsTrue
  <2> QED
    BY <2>2, <2>3
<1> QED
  BY <1>7, <1>8 DEF TransferInv

\* A complete that ends with nothing found right: the row is gone from under
\* it, a chunk is, or the whole is another file.
LEMMA HashEndsInVain ==
  ASSUME TransferInv, CompleteStale \/ CompleteMissing \/ CompleteFails
  PROVE  TransferInv'
<1>1. CASE CompleteStale \/ CompleteMissing
  <2>1. hash' = NoHash /\ ~Hashing' /\ hash' \in HashRows
        /\ UNCHANGED <<consent, upload, phase, gone, files, puts, got, halted>>
    BY <1>1, NothingIs DEF CompleteStale, CompleteMissing, Hashing
  <2>2. TransferTypeOK' /\ NobodyWrites' /\ HashIsTrue'
    BY <2>1 DEF TransferInv, TransferTypeOK, NobodyWrites, HashIsTrue
  <2>3. WholeIsKept' /\ ReleasedRightly' /\ ReadyIsReleased'
    BY <2>1 DEF TransferInv, WholeIsKept, Kept, ReleasedRightly, ReadyIsReleased
  <2> QED
    BY <2>2, <2>3 DEF TransferInv
<1>2. CASE CompleteFails
  <2>1. hash' = NoHash /\ ~Hashing' /\ hash' \in HashRows /\ upload' = "failed" /\ phase' = "failed"
        /\ UNCHANGED <<consent, got, halted>>
    BY <1>2, NothingIs DEF CompleteFails, TransferDies, Hashing
  <2>2. files' \in [Numbers -> Bodies] /\ puts' \in [Puts -> PutRows]
    <3>1. CASE DeleteFiles(puts)
      BY <3>1, DirectoryGoes DEF TransferInv, TransferTypeOK
    <3>2. CASE TransferDies /\ files' = files
      BY <3>2, DeathIdles DEF TransferInv, TransferTypeOK
    <3> QED
      BY <1>2, <3>1, <3>2 DEF CompleteFails
  <2>3. TransferTypeOK'
    BY <2>1, <2>2 DEF TransferInv, TransferTypeOK, BytesGone
  <2>4. NobodyWrites' /\ HashIsTrue' /\ WholeIsKept'
    BY <2>1 DEF NobodyWrites, HashIsTrue, WholeIsKept
  <2>5. ReleasedRightly' /\ ReadyIsReleased'
    BY <2>1 DEF TransferInv, ReleasedRightly, ReadyIsReleased
  <2> QED
    BY <2>3, <2>4, <2>5 DEF TransferInv
<1> QED
  BY <1>1, <1>2

\* The whole is right: with the user's yes it is released, unless the process
\* dies first.
LEMMA HashEndsWell == ASSUME TransferInv, CompleteOk PROVE TransferInv'
<1>1. hash' = NoHash /\ ~Hashing' /\ hash' \in HashRows /\ upload' = "uploaded"
      /\ UNCHANGED <<consent, gone, files, got>>
  BY NothingIs DEF CompleteOk, TransferDies, Hashing
<1>2. Hashing /\ Writable /\ hash.verdict = "right" /\ hash.left = {}
  BY DEF CompleteOk, Hashed
<1>3. \A k \in Puts : puts'[k] = Idle
  <2>1. \A k \in Puts : puts[k] = Idle
    BY <1>2 DEF TransferInv, NobodyWrites
  <2> QED
    BY <2>1, DeathIdles DEF CompleteOk
<1>4. puts' \in [Puts -> PutRows]
  BY DeathIdles DEF CompleteOk, TransferInv, TransferTypeOK
<1>5. \/ phase' = (IF ReleaseIfReady(consent, "uploaded") THEN "released" ELSE phase) /\ halted' = halted
      \/ phase' = phase /\ halted' = (consent = "approved")
  BY DEF CompleteOk
<1>6. phase' = "open" \/ (phase' = "released" /\ consent = "approved")
  BY <1>2, <1>5 DEF ReleaseIfReady, Writable
<1>7. TransferTypeOK'
  BY <1>1, <1>4, <1>6 DEF TransferInv, TransferTypeOK, LivePhases
<1>8. NobodyWrites' /\ HashIsTrue'
  BY <1>1, <1>3 DEF NobodyWrites, HashIsTrue
<1>9. WholeIsKept'
  BY <1>1, <1>2 DEF TransferInv, HashIsTrue, WholeIsKept
<1>10. ReleasedRightly'
  BY <1>1, <1>6 DEF TransferInv, ReleasedRightly
<1>11. ReadyIsReleased'
  BY <1>1, <1>2, <1>5 DEF ReadyIsReleased, ReleaseIfReady, Writable
<1> QED
  BY <1>7, <1>8, <1>9, <1>10, <1>11 DEF TransferInv

\* answerTransferAsk (yes): with the whole uploaded it is released, unless the
\* process dies first.
LEMMA YesKeeps == ASSUME TransferInv, Approve PROVE TransferInv'
<1>1. consent' = "approved" /\ phase = "open" /\ UNCHANGED <<upload, gone, files, got>>
  BY DEF Approve, Awaiting
<1>2. \/ /\ phase' = (IF ReleaseIfReady("approved", upload) THEN "released" ELSE phase)
         /\ UNCHANGED <<puts, hash, halted>>
      \/ TransferDies /\ phase' = phase /\ halted' = ("approved" = "approved" /\ upload = "uploaded")
  BY DEF Approve, Released
<1>3. puts' \in [Puts -> PutRows] /\ hash' \in HashRows /\ (\A k \in Puts : puts[k] = Idle => puts'[k] = Idle)
      /\ (Hashing' => Hashing /\ hash' = hash /\ puts' = puts)
  BY <1>2, DeathIdles DEF TransferInv, TransferTypeOK, Hashing
<1>4. phase' = "open" \/ (phase' = "released" /\ upload = "uploaded")
  BY <1>1, <1>2 DEF ReleaseIfReady
<1>5. TransferTypeOK'
  BY <1>1, <1>3, <1>4 DEF TransferInv, TransferTypeOK, LivePhases
<1>6. NobodyWrites'
  BY <1>1, <1>3 DEF TransferInv, NobodyWrites
<1>7. HashIsTrue'
  BY <1>1, <1>3, <1>4 DEF TransferInv, HashIsTrue, Writable
<1>8. WholeIsKept'
  BY <1>1 DEF TransferInv, WholeIsKept, Kept, LivePhases
<1>9. ReleasedRightly'
  BY <1>1, <1>4 DEF TransferInv, ReleasedRightly
<1>10. ReadyIsReleased'
  BY <1>1, <1>2 DEF ReadyIsReleased, ReleaseIfReady
<1> QED
  BY <1>5, <1>6, <1>7, <1>8, <1>9, <1>10 DEF TransferInv

\* What can be fetched is whole, so that a receiver has the right file.
LEMMA FetchKeeps == ASSUME TransferInv, Fetch PROVE TransferInv'
<1>1. Kept /\ upload = "uploaded" /\ consent = "approved"
  BY DEF Fetch, Downloadable, Kept, LivePhases, TransferInv, ReleasedRightly
<1>2. got' = "right"
  BY <1>1 DEF Fetch, TransferInv, WholeIsKept
<1>3. UNCHANGED <<consent, upload, phase, gone, files, puts, hash, halted>>
  BY DEF Fetch
<1>4. TransferTypeOK' /\ NobodyWrites' /\ HashIsTrue'
  BY <1>3 DEF TransferInv, TransferTypeOK, NobodyWrites, Hashing, HashIsTrue, Writable
<1>5. WholeIsKept' /\ ReleasedRightly' /\ ReadyIsReleased'
  BY <1>1, <1>2, <1>3 DEF TransferInv, WholeIsKept, Kept, ReleasedRightly, ReadyIsReleased
<1> QED
  BY <1>4, <1>5 DEF TransferInv

LEMMA ReceiptKeeps == ASSUME TransferInv, Receipt PROVE TransferInv'
<1>1. phase = "released" /\ phase' = "delivered" /\ UNCHANGED <<consent, upload, gone, files, puts, hash, got, halted>>
  BY DEF Receipt
<1>2. Kept /\ upload = "uploaded" /\ consent = "approved"
  BY <1>1 DEF Kept, LivePhases, TransferInv, ReleasedRightly
<1>3. TransferTypeOK' /\ NobodyWrites' /\ HashIsTrue'
  BY <1>1 DEF TransferInv, TransferTypeOK, NobodyWrites, Hashing, HashIsTrue, Writable
<1>4. WholeIsKept' /\ ReleasedRightly' /\ ReadyIsReleased'
  BY <1>1, <1>2 DEF TransferInv, WholeIsKept, ReleasedRightly, ReadyIsReleased
<1> QED
  BY <1>3, <1>4 DEF TransferInv

\* The bytes go where nothing can be fetched: a delivered transfer that is
\* claimed, and whatever the sweep finds without one.
LEMMA SweepingKeeps == ASSUME TransferInv, ClaimDelivered \/ SweepDirectory PROVE TransferInv'
<1>1. UNCHANGED <<consent, upload, phase, got, halted>> /\ ~Kept' /\ ~Writable'
  <2>1. CASE ClaimDelivered
    BY <2>1 DEF ClaimDelivered, Kept, LivePhases, Writable
  <2>2. CASE SweepDirectory
    BY <2>2 DEF SweepDirectory, Kept, LivePhases, Writable
  <2> QED
    BY <2>1, <2>2
<1>2. /\ files' \in [Numbers -> Bodies] /\ puts' \in [Puts -> PutRows] /\ hash' \in HashRows
      /\ \A k \in Puts : puts[k] = Idle => puts'[k] = Idle
      /\ Hashing' => Hashing
  <2>1. CASE DeleteFiles(puts) /\ hash' = hash
    BY <2>1, DirectoryGoes DEF TransferInv, TransferTypeOK, Hashing
  <2>2. CASE TransferDies /\ files' = files
    BY <2>2, DeathIdles DEF TransferInv, TransferTypeOK
  <2> QED
    BY <2>1, <2>2 DEF ClaimDelivered, SweepDirectory
<1>3. TransferTypeOK' /\ NobodyWrites'
  BY <1>1, <1>2 DEF TransferInv, TransferTypeOK, NobodyWrites
<1>4. HashIsTrue' /\ WholeIsKept'
  BY <1>1 DEF HashIsTrue, WholeIsKept
<1>5. ReleasedRightly' /\ ReadyIsReleased'
  BY <1>1 DEF TransferInv, ReleasedRightly, ReadyIsReleased
<1> QED
  BY <1>3, <1>4, <1>5 DEF TransferInv

LEMMA TransfersStart == TransfersInit => TransferInv
<1> SUFFICES ASSUME TransfersInit PROVE TransferInv
  OBVIOUS
<1>1. puts \in [Puts -> PutRows] /\ (\A k \in Puts : puts[k] = Idle) /\ ~Hashing
  BY NothingIs DEF TransfersInit, Hashing
<1>2. TransferTypeOK
  BY <1>1, NothingIs DEF TransfersInit, TransferTypeOK, LivePhases
<1>3. NobodyWrites /\ HashIsTrue /\ WholeIsKept /\ ReleasedRightly /\ ReadyIsReleased
  BY <1>1 DEF TransfersInit, NobodyWrites, HashIsTrue, WholeIsKept, ReleasedRightly, ReadyIsReleased
<1> QED
  BY <1>2, <1>3 DEF TransferInv

LEMMA TransfersGoOn == TransferInv /\ [TransfersNext]_transferVars => TransferInv'
<1> SUFFICES ASSUME TransferInv, [TransfersNext]_transferVars PROVE TransferInv'
  OBVIOUS
<1>1. CASE \E k \in Puts, n \in Numbers, body \in {"right", "wrong"} : PutStart(k, n, body)
  BY <1>1, PutStartKeeps
<1>2. CASE \E k \in Puts : PutAccept(k) \/ PutPlace(k) \/ PutBreaks(k) \/ PutRecord(k)
  BY <1>2, PutGoesOn
<1>3. CASE CompleteStart \/ HashChunk
  BY <1>3, HashStarts, HashReads
<1>4. CASE CompleteStale \/ CompleteMissing \/ CompleteFails \/ CompleteOk
  BY <1>4, HashEndsInVain, HashEndsWell
<1>5. CASE Approve \/ Decline \/ Cancel \/ ReceiverFailed \/ Expire
  BY <1>5, YesKeeps, EndingsKeep
<1>6. CASE Fetch \/ Receipt \/ ClaimDelivered \/ SweepDirectory
  BY <1>6, FetchKeeps, ReceiptKeeps, SweepingKeeps
<1>7. CASE UNCHANGED transferVars
  BY <1>7 DEF transferVars, TransferInv, TransferTypeOK, NobodyWrites, HashIsTrue, WholeIsKept,
              ReleasedRightly, ReadyIsReleased, Hashing, Writable, Kept
<1> QED
  BY <1>1, <1>2, <1>3, <1>4, <1>5, <1>6, <1>7 DEF TransfersNext

\* The receiver can fetch, and has, only the announced file, and only after
\* the user's yes, whoever uploads while it is hashed, whenever the process
\* dies; and whichever comes second releases it (completeUpload,
\* releaseIfReady, runExpireTransfers).
THEOREM TransfersArriveWhole == TransfersSpec => []FileReleased
BY TransfersStart, TransfersGoOn, TransferSays, PTL DEF TransfersSpec

-----------------------------------------------------------------------------
(* People: the inductive invariant.                                        *)

ContactStates == {"none", "awaiting_user", "pending_out", "pending_in", "active", "ended", "blocked"}
LinkRows == [state : {"none", "over"} \cup LiveLinks, kind : {"session", "talk"}, byTalk : BOOLEAN, spawn : Nat]
SeatStates == {"none", "invited", "joined", "refused", "expired", "left"}

\* Who has asked or accepted did so by a tap.
Tapped == \A u \in Sides : contact[u] \in {"pending_out", "active"} => u \in agreed

ContactInv ==
  contact \in [Sides -> ContactStates] /\ agreed \subseteq Sides /\ ContactsAgree /\ Tapped

RoomTypes ==
  /\ share \in {"none", "awaiting_user", "active"} /\ cut \in BOOLEAN /\ ids \in Nat
  /\ link \in [Rooms -> LinkRows]
  /\ seat \in [Rooms -> SeatStates] /\ twin \in [Rooms -> SeatStates]
  /\ crossed \in [Rooms -> SUBSET Sides] /\ yes \in [Rooms -> SUBSET Sides]
  /\ starts \subseteq [room : Rooms, id : Nat]

OpenLink(r) == link[r].state \in {"invited", "joined"}

\* Until it was invited an agent has no twin and nothing has crossed; it is
\* invited once both users said yes, and what is started was said yes to.
Told(r) ==
  /\ crossed[r] # {} \/ OpenLink(r) => twin[r] # "none"
  /\ link[r].state \in Pending => twin[r] = "none"
  /\ twin[r] # "none" \/ link[r].state = "starting" => yes[r] = Sides

\* The records of a room agree, and so they do of its invitation.
Matches(r) ==
  /\ (link[r].state = "joined") = (seat[r] = "joined") /\ (link[r].state = "joined") = (twin[r] = "joined")
  /\ (link[r].state = "invited") = (twin[r] = "invited")

OpenAmongContacts == share = "active" \/ (\E r \in Rooms : OpenLink(r)) => Mutual(contact)

PeopleInv ==
  /\ ContactInv /\ RoomTypes
  /\ \A r \in Rooms : Told(r) /\ (cut \/ Matches(r))
  /\ cut \/ OpenAmongContacts

\* The promises are the invariant's.
LEMMA PeopleSay == PeopleInv => ContactRules
<1> SUFFICES ASSUME PeopleInv PROVE ContactRules
  OBVIOUS
<1>1. ContactsAgree
  BY DEF PeopleInv, ContactInv
<1>2. RoomsEndWithContact
  BY DEF PeopleInv, Matches, OpenAmongContacts, OpenLink, RoomsEndWithContact
<1>3. BothSaidYes
  BY DEF PeopleInv, Told, OpenLink, BothSaidYes
<1> QED
  BY <1>1, <1>2, <1>3 DEF ContactRules

LEMMA TwoSides == ASSUME NEW u \in Sides
  PROVE Other(u) \in Sides /\ Other(u) # u /\ Other(Other(u)) = u /\ \A v \in Sides : v = u \/ v = Other(u)
BY DEF Sides, Other

-----------------------------------------------------------------------------
(* People: the contact.                                                    *)

\* What a step may do to a contact: the two rows still agree, and a contact
\* of both stays one.
ContactStep == ContactInv' /\ (Mutual(contact) => Mutual(contact'))

\* Both rows as the step leaves them.
LEMMA RowsAgree ==
  ASSUME NEW u \in Sides, contact' \in [Sides -> ContactStates], agreed' \subseteq Sides,
         (contact'[u] = "active") = (contact'[Other(u)] = "active"),
         contact'[u] = "pending_in" => contact'[Other(u)] = "pending_out",
         contact'[Other(u)] = "pending_in" => contact'[u] = "pending_out",
         contact'[u] \in {"pending_out", "active"} => u \in agreed',
         contact'[Other(u)] \in {"pending_out", "active"} => Other(u) \in agreed'
  PROVE  ContactInv'
<1>1. Other(u) \in Sides /\ Other(Other(u)) = u /\ \A v \in Sides : v = u \/ v = Other(u)
  BY TwoSides
<1>2. Tapped'
  BY <1>1 DEF Tapped
<1>3. (\A v \in Sides : contact'[v] = "active" => contact'[Other(v)] = "active")
      /\ (\A v \in Sides : contact'[v] = "pending_in" => contact'[Other(v)] = "pending_out")
  BY <1>1
<1>4. Mutual(contact') => agreed' = Sides
  BY <1>2 DEF Tapped, Mutual
<1> QED
  BY <1>2, <1>3, <1>4 DEF ContactInv, ContactsAgree

LEMMA ContactStays ==
  ASSUME ContactInv, UNCHANGED contact, UNCHANGED agreed \/ Agree({})
  PROVE  ContactStep
<1>1. Tapped' /\ agreed' \subseteq Sides
  BY DEF ContactInv, Tapped, Agree
<1>2. Mutual(contact') => agreed' = Sides
  BY <1>1 DEF Tapped, Mutual
<1> QED
  BY <1>1, <1>2 DEF ContactInv, ContactsAgree, ContactStep

\* Of two rows one of which is not active, neither is.
LEMMA NotMutual ==
  ASSUME ContactInv, NEW u \in Sides, contact[u] # "active"
  PROVE  ~Mutual(contact) /\ contact[Other(u)] # "active"
BY TwoSides DEF ContactInv, ContactsAgree, Mutual

\* Both are active: each asked or accepted.
LEMMA BothAgree ==
  ASSUME ContactInv, NEW u \in Sides, contact[Other(u)] = "pending_out", ContactIs(Both), Agree({u})
  PROVE  ContactStep
<1>1. contact' = [v \in Sides |-> "active"] /\ agreed' = {v \in agreed \cup {u} : contact'[v] \in {"pending_out", "active"}}
  BY DEF ContactIs, Both, Agree
<1>2. Other(u) \in agreed /\ Other(u) \in Sides
  BY TwoSides DEF ContactInv, Tapped
<1>3. ContactInv'
  BY <1>1, <1>2, RowsAgree DEF ContactStates, ContactInv
<1> QED
  BY <1>1, <1>3 DEF ContactStep, Mutual

\* send, of a contact that is none yet.
LEMMA SendKeeps ==
  ASSUME ContactInv, NEW u \in Sides, contact[u] \in {"none", "ended", "awaiting_user"},
         ContactIs(Sent(contact, u)), Agree({u})
  PROVE  ContactStep
<1>1. Other(u) \in Sides /\ Other(u) # u /\ contact[Other(u)] # "active" /\ ~Mutual(contact)
  BY NotMutual, TwoSides
<1>2. CASE contact[Other(u)] = "pending_out"
  BY <1>2, BothAgree DEF Sent, ContactIs
<1>3. CASE contact[Other(u)] # "pending_out"
  <2>1. \/ contact[Other(u)] = "blocked" /\ contact' = [contact EXCEPT ![u] = "pending_out"]
        \/ contact' = [contact EXCEPT ![u] = "pending_out", ![Other(u)] = "pending_in"]
    BY <1>1, <1>3 DEF Sent, ContactIs
  <2>2. contact' \in [Sides -> ContactStates] /\ contact'[u] = "pending_out"
        /\ contact'[Other(u)] \in {"blocked", "pending_in"}
    BY <1>1, <2>1 DEF ContactInv, ContactStates
  <2>3. agreed' = {v \in agreed \cup {u} : contact'[v] \in {"pending_out", "active"}}
    BY DEF Agree
  <2>4. agreed' \subseteq Sides /\ u \in agreed'
    BY <2>2, <2>3 DEF ContactInv
  <2>5. ContactInv'
    BY <2>2, <2>4, RowsAgree
  <2> QED
    BY <1>1, <2>5 DEF ContactStep
<1> QED
  BY <1>2, <1>3

\* A row of a contact that is not one changes to another state that is not.
LEMMA RowEnds ==
  ASSUME ContactInv, NEW u \in Sides, NEW to \in {"awaiting_user", "ended"},
         contact[u] \in {"none", "ended", "awaiting_user", "blocked"},
         ContactIs([contact EXCEPT ![u] = to]), UNCHANGED agreed \/ Agree({})
  PROVE  ContactStep
<1>1. Other(u) \in Sides /\ Other(u) # u /\ contact[Other(u)] # "active" /\ ~Mutual(contact)
      /\ contact[Other(u)] # "pending_in"
  BY NotMutual, TwoSides DEF ContactInv, ContactsAgree
<1>2. contact' \in [Sides -> ContactStates] /\ contact'[u] = to /\ contact'[Other(u)] = contact[Other(u)]
  BY <1>1 DEF ContactIs, ContactInv, ContactStates
<1>3. agreed' \subseteq Sides /\ (contact'[Other(u)] \in {"pending_out", "active"} => Other(u) \in agreed')
  BY <1>1, <1>2 DEF Agree, ContactInv, Tapped
<1>4. ContactInv'
  BY <1>1, <1>2, <1>3, RowsAgree
<1> QED
  BY <1>1, <1>4 DEF ContactStep

\* An ask that waits is refused, or ends with the talk that sent it.
LEMMA AskEnds ==
  ASSUME ContactInv, NEW u \in Sides, contact' \in [Sides -> ContactStates], Agree({}),
         contact[u] # "active", contact'[u] = "ended",
         contact'[Other(u)] \in {contact[Other(u)], "ended"}, contact'[Other(u)] # "pending_in"
  PROVE  ContactStep
<1>1. Other(u) \in Sides /\ contact[Other(u)] # "active" /\ ~Mutual(contact)
  BY NotMutual, TwoSides
<1>2. agreed' = {v \in agreed : contact'[v] \in {"pending_out", "active"}}
  BY DEF Agree
<1>3. agreed' \subseteq Sides /\ (contact'[Other(u)] \in {"pending_out", "active"} => Other(u) \in agreed')
  BY <1>1, <1>2 DEF ContactInv, Tapped
<1>4. ContactInv'
  BY <1>1, <1>3, RowsAgree
<1> QED
  BY <1>1, <1>4 DEF ContactStep

LEMMA RefusalKeeps ==
  ASSUME ContactInv, NEW u \in Sides, contact[u] = "pending_in", ContactIs(Refused(contact, u)), Agree({})
  PROVE  ContactStep
<1>1. Other(u) \in Sides /\ Other(u) # u /\ contact[Other(u)] = "pending_out"
  BY TwoSides DEF ContactInv, ContactsAgree
<1>2. contact' = [contact EXCEPT ![u] = "ended", ![Other(u)] = "ended"]
  BY <1>1 DEF ContactIs, Refused, ContactInv
<1>3. contact' \in [Sides -> ContactStates] /\ contact'[u] = "ended" /\ contact'[Other(u)] = "ended"
  BY <1>1, <1>2 DEF ContactInv, ContactStates
<1> QED
  BY <1>3, AskEnds

LEMMA TalkOverKeeps ==
  ASSUME ContactInv, NEW l, ContactIs(TalkContactOver(l)), Agree({})
  PROVE  ContactStep
<1>1. CASE l.kind = "talk" /\ l.byTalk /\ contact["owner"] = "pending_out"
  <2>1. contact' = [u \in Sides |-> IF u = "owner" \/ contact[u] = "pending_in" THEN "ended" ELSE contact[u]]
    BY <1>1 DEF ContactIs, TalkContactOver
  <2>2. "owner" \in Sides /\ Other("owner") = "guest" /\ "guest" \in Sides
    BY DEF Sides, Other
  <2>3. contact' \in [Sides -> ContactStates] /\ contact'["owner"] = "ended"
        /\ contact'["guest"] \in {contact["guest"], "ended"} /\ contact'["guest"] # "pending_in"
    BY <2>1, <2>2 DEF ContactInv, ContactStates
  <2> QED
    BY <1>1, <2>2, <2>3, AskEnds
<1>2. CASE ~(l.kind = "talk" /\ l.byTalk /\ contact["owner"] = "pending_out")
  <2>1. UNCHANGED contact
    BY <1>2 DEF ContactIs, TalkContactOver
  <2> QED
    BY <2>1, ContactStays
<1> QED
  BY <1>1, <1>2

\* removeContact and blockContact.
LEMMA ContactEnding ==
  ASSUME ContactInv, NEW u \in Sides, NEW to \in {"ended", "blocked"}, ContactEnds(u, to)
  PROVE  ContactInv'
<1> DEFINE touched == contact[Other(u)] \in {"pending_in", "pending_out", "active"}
<1>1. Other(u) \in Sides /\ Other(u) # u
  BY TwoSides
<1>2. contact' = [contact EXCEPT ![u] = to, ![Other(u)] = IF touched THEN "ended" ELSE contact[Other(u)]]
      /\ agreed' = {v \in agreed : contact'[v] \in {"pending_out", "active"}}
  BY <1>1 DEF ContactEnds, ContactIs, Agree, ContactInv
<1>3. contact' \in [Sides -> ContactStates] /\ contact'[u] = to
      /\ contact'[Other(u)] \notin {"pending_in", "pending_out", "active"}
  BY <1>1, <1>2 DEF ContactInv, ContactStates
<1> QED
  BY <1>1, <1>2, <1>3, RowsAgree DEF ContactInv

-----------------------------------------------------------------------------
(* People: the rooms.                                                      *)

\* A step that changes one room at most.
Elsewhere(r) ==
  \A q \in Rooms \ {r} : link'[q] = link[q] /\ seat'[q] = seat[q] /\ twin'[q] = twin[q]
                         /\ crossed'[q] = crossed[q] /\ yes'[q] = yes[q]

LEMMA RoomStepKeeps ==
  ASSUME PeopleInv, ContactStep, RoomTypes', NEW r \in Rooms, Elsewhere(r), UNCHANGED share,
         cut => cut', Told(r)', cut' \/ Matches(r)', cut' \/ OpenLink(r) \/ ~OpenLink(r)' \/ Mutual(contact')
  PROVE  PeopleInv'
<1>1. ASSUME NEW q \in Rooms PROVE Told(q)' /\ (cut' \/ Matches(q)')
  <2>1. CASE q = r
    BY <2>1
  <2>2. CASE q # r
    <3>1. link'[q] = link[q] /\ seat'[q] = seat[q] /\ twin'[q] = twin[q]
          /\ crossed'[q] = crossed[q] /\ yes'[q] = yes[q]
      BY <2>2 DEF Elsewhere
    <3>2. Told(q) /\ (cut \/ Matches(q))
      BY DEF PeopleInv
    <3> QED
      BY <3>1, <3>2 DEF Told, Matches, OpenLink
  <2> QED
    BY <2>1, <2>2
<1>2. cut' \/ OpenAmongContacts'
  <2> SUFFICES ASSUME ~cut', share' = "active" \/ \E q \in Rooms : OpenLink(q)'
               PROVE  Mutual(contact')
    BY DEF OpenAmongContacts
  <2>1. OpenAmongContacts
    BY DEF PeopleInv
  <2>2. CASE share' = "active"
    BY <2>1, <2>2 DEF OpenAmongContacts, ContactStep
  <2>3. CASE \E q \in Rooms : OpenLink(q)'
    <3>1. PICK q \in Rooms : OpenLink(q)'
      BY <2>3
    <3>2. OpenLink(q) \/ Mutual(contact')
      BY <3>1 DEF Elsewhere, OpenLink
    <3> QED
      BY <2>1, <3>2 DEF OpenAmongContacts, ContactStep
  <2> QED
    BY <2>2, <2>3
<1> QED
  BY <1>1, <1>2 DEF PeopleInv, ContactStep

\* A step of the contact alone.
LEMMA ContactStepKeeps == ASSUME PeopleInv, ContactStep, UNCHANGED share, KeepRooms PROVE PeopleInv'
<1>1. UNCHANGED <<share, link, seat, twin, crossed, starts, ids, yes, cut>>
  BY DEF KeepRooms
<1>2. RoomTypes'
  BY <1>1 DEF PeopleInv, RoomTypes
<1>3. \A r \in Rooms : Told(r)' /\ (cut' \/ Matches(r)')
  BY <1>1 DEF PeopleInv, Told, Matches, OpenLink
<1>4. cut' \/ OpenAmongContacts'
  BY <1>1 DEF PeopleInv, OpenAmongContacts, OpenLink, ContactStep
<1> QED
  BY <1>2, <1>3, <1>4 DEF PeopleInv, ContactStep

LEMMA ContactActsKeep ==
  ASSUME PeopleInv, NEW u \in Sides,
         UserRequest(u) \/ AgentAsks(u) \/ ContactApprove(u) \/ ContactDecline(u) \/ ExpireContactAsk(u) \/ Unblock(u)
  PROVE  PeopleInv'
<1> USE DEF PeopleInv
<1>1. UNCHANGED share /\ KeepRooms
  BY DEF UserRequest, AgentAsks, ContactApprove, ContactDecline, ExpireContactAsk, Unblock
<1>2. CASE UserRequest(u) \/ ContactApprove(u)
  <2>1. \/ contact[u] \in {"none", "ended", "awaiting_user"} /\ ContactIs(Sent(contact, u))
        \/ contact[Other(u)] = "pending_out" /\ ContactIs(Both)
    BY <1>2 DEF UserRequest, ContactApprove
  <2>2. Agree({u})
    BY <1>2 DEF UserRequest, ContactApprove
  <2> QED
    BY <1>1, <2>1, <2>2, SendKeeps, BothAgree, ContactStepKeeps
<1>3. CASE AgentAsks(u)
  <2>1. ContactStep
    BY <1>3, RowEnds DEF AgentAsks, AgentRequest
  <2> QED
    BY <1>1, <2>1, ContactStepKeeps
<1>4. CASE ContactDecline(u)
  <2>1. ContactStep
    BY <1>4, RowEnds, RefusalKeeps DEF ContactDecline
  <2> QED
    BY <1>1, <2>1, ContactStepKeeps
<1>5. CASE ExpireContactAsk(u) \/ Unblock(u)
  <2>1. ContactStep
    BY <1>5, RowEnds DEF ExpireContactAsk, Unblock
  <2> QED
    BY <1>1, <2>1, ContactStepKeeps
<1> QED
  BY <1>2, <1>3, <1>4, <1>5

\* The share: it is active among contacts only.
LEMMA ShareKeeps ==
  ASSUME PeopleInv, ShareSession \/ ShareApprove \/ ShareEnds \/ ExpireShare
  PROVE  PeopleInv'
<1>1. PICK s \in {"none", "awaiting_user", "active"} : Share(s) /\ (s = "active" => Mutual(contact))
  BY DEF ShareSession, ShareApprove, ShareEnds, ExpireShare
<1>2. share' = s /\ UNCHANGED <<contact, agreed, link, seat, twin, crossed, starts, ids, yes, cut>>
  BY <1>1 DEF Share, Alone, KeepRooms
<1>3. ContactInv' /\ RoomTypes'
  BY <1>2 DEF PeopleInv, ContactInv, ContactsAgree, Tapped, Mutual, RoomTypes
<1>4. \A r \in Rooms : Told(r)' /\ (cut' \/ Matches(r)')
  BY <1>2 DEF PeopleInv, Told, Matches, OpenLink
<1>5. cut' \/ OpenAmongContacts'
  BY <1>1, <1>2 DEF PeopleInv, OpenAmongContacts, OpenLink, Mutual
<1> QED
  BY <1>3, <1>4, <1>5 DEF PeopleInv

\* Rooms end: nobody is in them, whatever they were.
LEMMA RoomsGo ==
  ASSUME PeopleInv, NEW rs \in SUBSET Rooms, EndRooms(rs)
  PROVE  /\ link' \in [Rooms -> LinkRows] /\ seat' \in [Rooms -> SeatStates] /\ twin' \in [Rooms -> SeatStates]
         /\ \A r \in rs : /\ link'[r].state = "over" /\ seat'[r] \notin {"invited", "joined"}
                          /\ twin'[r] \notin {"invited", "joined"} /\ (twin'[r] = "none" <=> twin[r] = "none")
         /\ \A r \in Rooms \ rs : link'[r] = link[r] /\ seat'[r] = seat[r] /\ twin'[r] = twin[r]
<1>1. link' = [r \in Rooms |-> IF r \in rs THEN Over(link[r]) ELSE link[r]]
      /\ seat' = [r \in Rooms |-> IF r \in rs THEN Left(seat[r]) ELSE seat[r]]
      /\ twin' = [r \in Rooms |-> IF r \in rs THEN Left(twin[r]) ELSE twin[r]]
  BY DEF EndRooms
<1>2. \A r \in Rooms : link[r] \in LinkRows /\ seat[r] \in SeatStates /\ twin[r] \in SeatStates
  BY DEF PeopleInv, RoomTypes
<1>3. \A r \in Rooms : Over(link[r]) \in LinkRows /\ Over(link[r]).state = "over"
  <2> TAKE r \in Rooms
  <2>1. link[r] \in LinkRows
    BY <1>2
  <2> QED
    BY <2>1 DEF LinkRows, Over
<1>4. \A m \in SeatStates : Left(m) \in SeatStates /\ Left(m) \notin {"invited", "joined"} /\ (Left(m) = "none" <=> m = "none")
  BY DEF SeatStates, Left
<1>5. link' \in [Rooms -> LinkRows] /\ seat' \in [Rooms -> SeatStates] /\ twin' \in [Rooms -> SeatStates]
  BY <1>1, <1>2, <1>3, <1>4
<1> QED
  BY <1>1, <1>2, <1>3, <1>4, <1>5

\* What Told and Matches say of a room that is ended.
LEMMA OverFits ==
  ASSUME PeopleInv, NEW r \in Rooms, link'[r].state = "over", seat'[r] \notin {"invited", "joined"},
         twin'[r] \notin {"invited", "joined"}, twin'[r] = "none" <=> twin[r] = "none",
         crossed'[r] = crossed[r], yes'[r] = yes[r]
  PROVE  Told(r)' /\ Matches(r)' /\ ~OpenLink(r)'
<1>1. Told(r)
  BY DEF PeopleInv
<1> QED
  BY <1>1 DEF Told, Matches, OpenLink, Pending

\* removeContact, blockContact, endPeopleRooms: every room goes with it, or
\* the process dies over them.
LEMMA EndingKeeps ==
  ASSUME PeopleInv, NEW u \in Sides, NEW to \in {"ended", "blocked"}, ContactEnds(u, to)
  PROVE  PeopleInv'
<1>1. ContactInv'
  BY ContactEnding DEF PeopleInv
<1>2. PICK rs \in SUBSET Rooms :
        /\ EndRooms(rs)
        /\ \/ rs = LinksBetween(u) /\ share' = "none" /\ Lives
           \/ UNCHANGED share /\ Die /\ cut' = TRUE
  BY DEF ContactEnds, LinksBetween
<1>3. UNCHANGED <<crossed, ids, yes>> /\ (cut => cut') /\ cut' \in BOOLEAN
      /\ starts' \subseteq [room : Rooms, id : Nat] /\ share' \in {"none", "awaiting_user", "active"}
  <2>1. UNCHANGED <<crossed, ids, yes>>
    BY DEF ContactEnds
  <2>2. (cut' = cut \/ cut' = TRUE) /\ (starts' = starts \/ starts' = {}) /\ (share' = share \/ share' = "none")
    BY <1>2 DEF Lives, Die
  <2>3. cut \in BOOLEAN /\ starts \subseteq [room : Rooms, id : Nat] /\ share \in {"none", "awaiting_user", "active"}
    BY DEF PeopleInv, RoomTypes
  <2>4. (cut => cut') /\ cut' \in BOOLEAN
    BY <2>2, <2>3
  <2>5. starts' \subseteq [room : Rooms, id : Nat]
    BY <2>2, <2>3
  <2> QED
    BY <2>1, <2>2, <2>3, <2>4, <2>5
<1>4. RoomTypes'
  BY <1>2, <1>3, RoomsGo DEF PeopleInv, RoomTypes
<1>5. ASSUME NEW r \in Rooms PROVE Told(r)' /\ (cut' \/ Matches(r)')
  <2>1. Told(r) /\ (cut \/ Matches(r)) /\ crossed'[r] = crossed[r] /\ yes'[r] = yes[r]
    BY <1>3 DEF PeopleInv
  <2>2. CASE r \in rs
    BY <2>1, <2>2, <1>2, RoomsGo, OverFits
  <2>3. CASE r \notin rs
    <3>1. link'[r] = link[r] /\ seat'[r] = seat[r] /\ twin'[r] = twin[r]
      BY <2>3, <1>2, RoomsGo
    <3> QED
      BY <2>1, <3>1, <1>3 DEF Told, Matches, OpenLink
  <2> QED
    BY <2>2, <2>3
<1>6. cut' \/ OpenAmongContacts'
  <2> SUFFICES ASSUME ~cut' PROVE OpenAmongContacts'
    OBVIOUS
  <2>1. rs = LinksBetween(u) /\ share' = "none"
    BY <1>2
  <2>2. \A r \in Rooms : ~OpenLink(r)'
    <3> TAKE r \in Rooms
    <3>1. CASE r \in rs
      BY <3>1, <1>2, RoomsGo DEF OpenLink
    <3>2. CASE r \notin rs
      <4>1. link'[r] = link[r]
        BY <3>2, <1>2, RoomsGo
      <4> QED
        BY <3>2, <4>1, <2>1 DEF LinksBetween, Live, LiveLinks, OpenLink
    <3> QED
      BY <3>1, <3>2
  <2> QED
    BY <2>1, <2>2 DEF OpenAmongContacts
<1> QED
  BY <1>1, <1>4, <1>5, <1>6 DEF PeopleInv

\* A row of a link changes its state.
LEMMA LinkMoves ==
  ASSUME PeopleInv, NEW r \in Rooms, NEW s \in {"none", "over"} \cup LiveLinks, LinkIs(r, s)
  PROVE  /\ link' \in [Rooms -> LinkRows] /\ link'[r].state = s
         /\ \A q \in Rooms \ {r} : link'[q] = link[q]
<1>1. link \in [Rooms -> LinkRows] /\ link[r] \in LinkRows
  BY DEF PeopleInv, RoomTypes
<1>2. [link[r] EXCEPT !.state = s, !.spawn = 0] \in LinkRows /\ [link[r] EXCEPT !.state = s, !.spawn = 0].state = s
  BY <1>1 DEF LinkRows
<1>3. link' = [link EXCEPT ![r] = [link[r] EXCEPT !.state = s, !.spawn = 0]]
  BY <1>1 DEF LinkIs
<1> QED
  BY <1>1, <1>2, <1>3

\* Everything of a room but its link is as it was.
LinkOnly == UNCHANGED <<seat, twin, crossed, cut, ids, starts>>

\* A link changes before anybody was invited, or ends: the ask goes on, and
\* whoever has said yes to it so far is known.
LEMMA AskMoves ==
  ASSUME PeopleInv, ContactStep, UNCHANGED share, NEW r \in Rooms,
         link' \in [Rooms -> LinkRows], \A q \in Rooms \ {r} : link'[q] = link[q],
         UNCHANGED <<seat, twin, crossed, cut>>, ids' \in Nat, starts' \subseteq [room : Rooms, id : Nat],
         ~OpenLink(r), twin[r] = "none", link'[r].state \in Pending \cup {"over"},
         NEW us \in SUBSET Sides, yes' = [yes EXCEPT ![r] = us] \/ (yes' = yes /\ us = yes[r]),
         link'[r].state = "starting" => us = Sides
  PROVE  PeopleInv'
<1>1. crossed[r] = {} /\ Told(r) /\ (cut \/ Matches(r))
  BY DEF PeopleInv, Told
<1>2. yes' \in [Rooms -> SUBSET Sides] /\ yes'[r] = us /\ (\A q \in Rooms \ {r} : yes'[q] = yes[q])
  BY DEF PeopleInv, RoomTypes
<1>3. RoomTypes'
  BY <1>2 DEF PeopleInv, RoomTypes
<1>4. Elsewhere(r)
  BY <1>2 DEF Elsewhere
<1>5. ~OpenLink(r)'
  BY DEF OpenLink, Pending
<1>6. Told(r)'
  BY <1>1, <1>2, <1>5 DEF Told
<1>7. cut' \/ Matches(r)'
  BY <1>1, <1>5 DEF Matches, OpenLink
<1> QED
  BY <1>3, <1>4, <1>5, <1>6, <1>7, RoomStepKeeps

\* A room that waits for an answer has no twin yet.
LEMMA AsksAreClosed ==
  ASSUME PeopleInv, NEW r \in Rooms, link[r].state \in Pending
  PROVE  ~OpenLink(r) /\ twin[r] = "none"
BY DEF PeopleInv, Told, OpenLink, Pending

LEMMA ContactRests == ASSUME PeopleInv, UNCHANGED <<contact, agreed>> PROVE ContactStep
BY ContactStays DEF PeopleInv

\* agent_room_request and its talk: parked with the owner.
LEMMA ParkKeeps == ASSUME PeopleInv, NEW r \in Rooms, NEW k \in {"session", "talk"}, Park(r, k) PROVE PeopleInv'
<1>1. ContactStep /\ UNCHANGED share
  BY ContactRests DEF Park, KeepPeople, Alone
<1>2. UNCHANGED <<seat, twin, crossed, cut, ids, starts>> /\ yes' = [yes EXCEPT ![r] = {}]
  BY DEF Park, KeepSeats, Says
<1>3. [NoLink EXCEPT !.state = "awaiting_owner", !.kind = k] \in LinkRows
      /\ [NoLink EXCEPT !.state = "awaiting_owner", !.kind = k].state = "awaiting_owner"
  BY DEF NoLink, LinkRows, LiveLinks, Pending
<1>4. link' \in [Rooms -> LinkRows] /\ link'[r].state = "awaiting_owner" /\ \A q \in Rooms \ {r} : link'[q] = link[q]
  BY <1>3 DEF Park, PeopleInv, RoomTypes
<1>5. ~OpenLink(r) /\ twin[r] = "none"
  BY DEF Park, Fresh, Live, LiveLinks, OpenLink
<1>6. ids' \in Nat /\ starts' \subseteq [room : Rooms, id : Nat] /\ {} \in SUBSET Sides
  BY <1>2 DEF PeopleInv, RoomTypes
<1>7. link'[r].state \in Pending /\ link'[r].state # "starting"
  BY <1>4 DEF Pending
<1> QED
  BY <1>1, <1>2, <1>4, <1>5, <1>6, <1>7, AskMoves

\* answerPersonRoom, answerTalkOwner, the sweep of asks: the owner answers.
LEMMA OwnerAnswers ==
  ASSUME PeopleInv, NEW r \in Rooms, OwnerDeclines(r) \/ OwnerApproves(r)
  PROVE  PeopleInv'
<1>1. ContactStep /\ UNCHANGED share
  BY ContactRests DEF OwnerDeclines, OwnerApproves, KeepPeople, Alone
<1>2. UNCHANGED <<seat, twin, crossed, cut, ids, starts>>
  BY DEF OwnerDeclines, OwnerApproves, KeepSeats, Lives
<1>3. PICK s \in {"awaiting_guest", "over"} : LinkIs(r, s)
  BY DEF OwnerDeclines, OwnerApproves
<1>4. s \in {"none", "over"} \cup LiveLinks /\ s \in Pending \cup {"over"} /\ s # "starting"
  BY DEF LiveLinks, Pending
<1>5. link' \in [Rooms -> LinkRows] /\ link'[r].state = s /\ \A q \in Rooms \ {r} : link'[q] = link[q]
  BY <1>3, <1>4, LinkMoves
<1>6. link[r].state \in Pending
  BY DEF OwnerDeclines, OwnerApproves, Pending
<1>7. ids' \in Nat /\ starts' \subseteq [room : Rooms, id : Nat] /\ yes[r] \in SUBSET Sides /\ {"owner"} \in SUBSET Sides
  BY <1>2 DEF PeopleInv, RoomTypes, Sides
<1>8. yes' = yes \/ yes' = [yes EXCEPT ![r] = {"owner"}]
  BY DEF OwnerDeclines, OwnerApproves, Says
<1>9. ~OpenLink(r) /\ twin[r] = "none"
  BY <1>6, AsksAreClosed
<1>10. CASE yes' = yes
  BY <1>10, <1>1, <1>2, <1>4, <1>5, <1>7, <1>9, AskMoves
<1>11. CASE yes' = [yes EXCEPT ![r] = {"owner"}]
  BY <1>11, <1>1, <1>2, <1>4, <1>5, <1>7, <1>9, AskMoves
<1> QED
  BY <1>8, <1>10, <1>11

LEMMA TalkMoves ==
  ASSUME PeopleInv, NEW r \in Rooms, NEW s \in {"none", "over"} \cup LiveLinks, NEW by \in BOOLEAN, TalkLink(r, s, by)
  PROVE  /\ link' \in [Rooms -> LinkRows] /\ link'[r].state = s
         /\ \A q \in Rooms \ {r} : link'[q] = link[q]
<1>1. link \in [Rooms -> LinkRows] /\ link[r] \in LinkRows
  BY DEF PeopleInv, RoomTypes
<1>2. [link[r] EXCEPT !.state = s, !.byTalk = by] \in LinkRows /\ [link[r] EXCEPT !.state = s, !.byTalk = by].state = s
  BY <1>1 DEF LinkRows
<1>3. link' = [link EXCEPT ![r] = [link[r] EXCEPT !.state = s, !.byTalk = by]]
  BY <1>1 DEF TalkLink
<1> QED
  BY <1>1, <1>2, <1>3

\* answerTalkOwner: Send, with the contact request it may take along.
LEMMA SendTalkKeeps == ASSUME PeopleInv, NEW r \in Rooms, OwnerSends(r) PROVE PeopleInv'
<1>1. UNCHANGED <<seat, twin, crossed, cut, ids, starts, share>> /\ yes' = [yes EXCEPT ![r] = {"owner"}]
      /\ link[r].state \in Pending
  BY DEF OwnerSends, KeepSeats, Lives, Says, Pending
<1>2. ContactInv /\ "owner" \in Sides /\ Other("owner") = "guest"
  BY DEF PeopleInv, Sides, Other
<1>3. ContactStep
  <2>1. CASE Alone
    BY <2>1, ContactRests DEF Alone
  <2>2. CASE contact["owner"] = "awaiting_user" /\ ContactIs([contact EXCEPT !["owner"] = "ended"]) /\ UNCHANGED agreed
    BY <2>2, <1>2, RowEnds
  <2>3. CASE contact["owner"] \in {"none", "ended", "awaiting_user"} /\ ContactIs(Sent(contact, "owner")) /\ Agree({"owner"})
    BY <2>3, <1>2, SendKeeps
  <2>4. CASE contact["guest"] = "pending_out" /\ ContactIs(Both) /\ Agree({"owner"})
    BY <2>4, <1>2, BothAgree
  <2> QED
    BY <2>1, <2>2, <2>3, <2>4 DEF OwnerSends
<1>4. PICK s \in {"awaiting_guest", "over"}, by \in BOOLEAN : TalkLink(r, s, by)
  BY DEF OwnerSends, Mutual
<1>5. s \in {"none", "over"} \cup LiveLinks /\ s \in Pending \cup {"over"} /\ s # "starting"
  BY DEF LiveLinks, Pending
<1>6. link' \in [Rooms -> LinkRows] /\ link'[r].state = s /\ \A q \in Rooms \ {r} : link'[q] = link[q]
  BY <1>4, <1>5, TalkMoves
<1>7. ids' \in Nat /\ starts' \subseteq [room : Rooms, id : Nat] /\ {"owner"} \in SUBSET Sides
  BY <1>1 DEF PeopleInv, RoomTypes, Sides
<1>8. ~OpenLink(r) /\ twin[r] = "none"
  BY <1>1, AsksAreClosed
<1> QED
  BY <1>1, <1>3, <1>5, <1>6, <1>7, <1>8, AskMoves

\* The guest declines; an ask expires.
LEMMA AskGoes == ASSUME PeopleInv, NEW r \in Rooms, GuestDeclines(r) \/ ExpireAsk(r) PROVE PeopleInv'
<1>1. UNCHANGED <<seat, twin, crossed, cut, ids, starts, share, yes>> /\ LinkIs(r, "over") /\ Agree({})
      /\ link[r].state \in Pending
  BY DEF GuestDeclines, ExpireAsk, KeepSeats, Lives, Asked, Pending
<1>2. ContactInv /\ "guest" \in Sides
  BY DEF PeopleInv, Sides
<1>3. \/ UNCHANGED contact
      \/ contact["guest"] = "pending_in" /\ ContactIs(Refused(contact, "guest"))
      \/ ContactIs(TalkContactOver(link[r]))
  BY DEF GuestDeclines, ExpireAsk, ContactIs
<1>4. ContactStep
  BY <1>1, <1>2, <1>3, ContactStays, RefusalKeeps, TalkOverKeeps
<1>5. "over" \in {"none", "over"} \cup LiveLinks /\ "over" \in Pending \cup {"over"}
  OBVIOUS
<1>6. link' \in [Rooms -> LinkRows] /\ link'[r].state = "over" /\ \A q \in Rooms \ {r} : link'[q] = link[q]
  BY <1>1, <1>5, LinkMoves
<1>7. ids' \in Nat /\ starts' \subseteq [room : Rooms, id : Nat] /\ yes[r] \in SUBSET Sides
  BY <1>1 DEF PeopleInv, RoomTypes
<1>8. ~OpenLink(r) /\ twin[r] = "none"
  BY <1>1, AsksAreClosed
<1> QED
  BY <1>1, <1>4, <1>5, <1>6, <1>7, <1>8, AskMoves

\* inviteGuest: the agent is invited into a twin, once both users said yes.
LEMMA InviteKeeps ==
  ASSUME PeopleInv, ContactStep, UNCHANGED share, NEW r \in Rooms, link[r].state \in Pending,
         LinkIs(r, "invited"), twin' = [twin EXCEPT ![r] = "invited"], crossed' = [crossed EXCEPT ![r] = {"owner"}],
         UNCHANGED <<seat, cut>>, ids' \in Nat, starts' \subseteq [room : Rooms, id : Nat],
         yes' = [yes EXCEPT ![r] = Sides] \/ (yes' = yes /\ yes[r] = Sides), Mutual(contact')
  PROVE  PeopleInv'
<1>1. "invited" \in {"none", "over"} \cup LiveLinks
  BY DEF LiveLinks
<1>2. link' \in [Rooms -> LinkRows] /\ link'[r].state = "invited" /\ \A q \in Rooms \ {r} : link'[q] = link[q]
  BY <1>1, LinkMoves
<1>3. /\ twin' \in [Rooms -> SeatStates] /\ twin'[r] = "invited" /\ \A q \in Rooms \ {r} : twin'[q] = twin[q]
  BY DEF PeopleInv, RoomTypes, SeatStates
<1>4. crossed' \in [Rooms -> SUBSET Sides] /\ \A q \in Rooms \ {r} : crossed'[q] = crossed[q]
  BY DEF PeopleInv, RoomTypes, Sides
<1>5. yes' \in [Rooms -> SUBSET Sides] /\ yes'[r] = Sides /\ \A q \in Rooms \ {r} : yes'[q] = yes[q]
  BY DEF PeopleInv, RoomTypes
<1>6. RoomTypes'
  BY <1>2, <1>3, <1>4, <1>5 DEF PeopleInv, RoomTypes
<1>7. Elsewhere(r)
  BY <1>2, <1>3, <1>4, <1>5 DEF Elsewhere
<1>8. Told(r)'
  BY <1>2, <1>3, <1>5 DEF Told, OpenLink, Pending
<1>9. cut' \/ Matches(r)'
  <2>1. cut \/ Matches(r)
    BY DEF PeopleInv
  <2>2. link[r].state # "joined"
    BY DEF Pending
  <2> QED
    BY <2>1, <2>2, <1>2, <1>3 DEF Matches
<1> QED
  BY <1>6, <1>7, <1>8, <1>9, RoomStepKeeps

\* The guest accepts, at once or when the session that was started answers:
\* the room is opened, or ends when it may not be.
LEMMA AcceptKeeps ==
  ASSUME PeopleInv, NEW r \in Rooms, link[r].state \in Pending, AcceptOnto(r), UNCHANGED cut,
         ids' \in Nat, starts' \subseteq [room : Rooms, id : Nat],
         yes' = [yes EXCEPT ![r] = Sides] \/ (yes' = yes /\ yes[r] = Sides)
  PROVE  PeopleInv'
<1>1. ContactInv /\ "guest" \in Sides /\ Other("guest") = "owner"
  BY DEF PeopleInv, Sides, Other
<1>2. ContactStep
  <2>1. CASE contact["guest"] = "pending_in"
    BY <2>1, <1>1, BothAgree DEF AcceptOnto
  <2>2. CASE contact["guest"] # "pending_in"
    BY <2>2, ContactRests DEF AcceptOnto, Alone
  <2> QED
    BY <2>1, <2>2
<1>3. UNCHANGED <<share, seat>>
  BY DEF AcceptOnto
<1>4. CASE Allowed(r, contact') /\ Invite(r)
  BY <1>2, <1>3, <1>4, InviteKeeps DEF Allowed, Invite
<1>5. CASE LinkIs(r, "over") /\ UNCHANGED <<twin, crossed>>
  <2>1. "over" \in {"none", "over"} \cup LiveLinks /\ "over" \in Pending \cup {"over"}
    OBVIOUS
  <2>2. link' \in [Rooms -> LinkRows] /\ link'[r].state = "over" /\ \A q \in Rooms \ {r} : link'[q] = link[q]
    BY <1>5, <2>1, LinkMoves
  <2>3. ~OpenLink(r) /\ twin[r] = "none"
    BY AsksAreClosed
  <2>4. yes[r] \in SUBSET Sides
    BY DEF PeopleInv, RoomTypes
  <2>5. PICK us \in SUBSET Sides : yes' = [yes EXCEPT ![r] = us] \/ (yes' = yes /\ us = yes[r])
    BY <2>4
  <2> QED
    BY <1>2, <1>3, <1>5, <2>1, <2>2, <2>3, <2>5, AskMoves
<1> QED
  BY <1>4, <1>5 DEF AcceptOnto

LEMMA GuestAnswers == ASSUME PeopleInv, NEW r \in Rooms, GuestAccepts(r) \/ GuestChooses(r) PROVE PeopleInv'
<1>1. link[r].state \in Pending
  BY DEF GuestAccepts, GuestChooses, Asked, Pending
<1>2. UNCHANGED <<cut, ids, starts>> /\ yes' = [yes EXCEPT ![r] = Sides]
  BY DEF GuestAccepts, GuestChooses, Lives, Says
<1>3. ids' \in Nat /\ starts' \subseteq [room : Rooms, id : Nat]
  BY <1>2 DEF PeopleInv, RoomTypes
<1>4. CASE GuestChooses(r)
  BY <1>1, <1>2, <1>3, <1>4, AcceptKeeps DEF GuestChooses
<1>5. CASE GuestAccepts(r)
  <2>1. UNCHANGED <<share, seat>> /\ UNCHANGED <<contact, agreed>>
    BY <1>5 DEF GuestAccepts, KeepPeople, Alone
  <2>2. ContactStep
    BY <2>1, ContactRests
  <2>3. CASE Allowed(r, contact) /\ Invite(r)
    <3>1. Mutual(contact')
      BY <2>1, <2>3 DEF Allowed
    <3> QED
      BY <1>1, <1>2, <1>3, <2>1, <2>2, <2>3, <3>1, InviteKeeps DEF Invite
  <2>4. CASE LinkIs(r, "over") /\ UNCHANGED <<twin, crossed>>
    <3>1. "over" \in {"none", "over"} \cup LiveLinks /\ "over" \in Pending \cup {"over"}
      OBVIOUS
    <3>2. link' \in [Rooms -> LinkRows] /\ link'[r].state = "over" /\ \A q \in Rooms \ {r} : link'[q] = link[q]
      BY <2>4, <3>1, LinkMoves
    <3>3. ~OpenLink(r) /\ twin[r] = "none"
      BY <1>1, AsksAreClosed
    <3> QED
      BY <1>2, <1>3, <2>1, <2>2, <2>4, <3>1, <3>2, <3>3, AskMoves
  <2> QED
    BY <1>5, <2>3, <2>4 DEF GuestAccepts
<1> QED
  BY <1>4, <1>5

\* A new session is started.
LEMMA StartKeeps == ASSUME PeopleInv, NEW r \in Rooms, GuestStartsNew(r) PROVE PeopleInv'
<1>1. UNCHANGED <<seat, twin, crossed, cut, share, contact, agreed>> /\ yes' = [yes EXCEPT ![r] = Sides]
      /\ link[r].state \in Pending /\ ids' = ids + 1
  BY DEF GuestStartsNew, KeepSeats, KeepPeople, Alone, Says, Asked, Pending
<1>2. link \in [Rooms -> LinkRows] /\ link[r] \in LinkRows /\ ids' \in Nat
  BY <1>1 DEF PeopleInv, RoomTypes
<1>3. link' = [link EXCEPT ![r] = [link[r] EXCEPT !.state = "starting", !.spawn = ids']]
  BY <1>2 DEF GuestStartsNew
<1>4. [link[r] EXCEPT !.state = "starting", !.spawn = ids'] \in LinkRows
      /\ [link[r] EXCEPT !.state = "starting", !.spawn = ids'].state = "starting"
  BY <1>2 DEF LinkRows, LiveLinks, Pending
<1>5. link' \in [Rooms -> LinkRows] /\ link'[r].state = "starting" /\ \A q \in Rooms \ {r} : link'[q] = link[q]
  BY <1>2, <1>3, <1>4
<1>6. starts' \subseteq [room : Rooms, id : Nat]
  BY <1>2 DEF GuestStartsNew, PeopleInv, RoomTypes
<1>7. ContactStep /\ ~OpenLink(r) /\ twin[r] = "none"
  BY <1>1, ContactRests, AsksAreClosed
<1>8. link'[r].state \in Pending \cup {"over"}
  BY <1>5 DEF Pending
<1> QED
  BY <1>1, <1>2, <1>5, <1>6, <1>7, <1>8, AskMoves

\* The talk is asked again.
LEMMA AgainKeeps ==
  ASSUME PeopleInv, NEW r \in Rooms, link[r].state = "starting", Again(r), UNCHANGED cut,
         ids' \in Nat, starts' \subseteq [room : Rooms, id : Nat]
  PROVE  PeopleInv'
<1>1. UNCHANGED <<seat, twin, crossed, share, contact, agreed>> /\ yes' = [yes EXCEPT ![r] = {"owner"}]
      /\ LinkIs(r, "awaiting_guest") /\ link[r].state \in Pending
  BY DEF Again, KeepSeats, KeepPeople, Alone, Says, Pending
<1>2. "awaiting_guest" \in {"none", "over"} \cup LiveLinks /\ "awaiting_guest" \in Pending \cup {"over"}
  BY DEF LiveLinks, Pending
<1>3. link' \in [Rooms -> LinkRows] /\ link'[r].state = "awaiting_guest" /\ \A q \in Rooms \ {r} : link'[q] = link[q]
  BY <1>1, <1>2, LinkMoves
<1>4. ContactStep /\ ~OpenLink(r) /\ twin[r] = "none" /\ {"owner"} \in SUBSET Sides
  BY <1>1, ContactRests, AsksAreClosed DEF Sides
<1> QED
  BY <1>1, <1>2, <1>3, <1>4, AskMoves

\* completeTalkStart, and the sweep of starts that never come back.
LEMMA ReturnsKeep ==
  ASSUME PeopleInv, (\E s \in starts : StartReturns(s)) \/ (\E r \in Rooms : StuckStart(r))
  PROVE  PeopleInv'
<1>1. CASE \E r \in Rooms : StuckStart(r)
  <2>1. PICK r \in Rooms : StuckStart(r)
    BY <1>1
  <2>2. ids' \in Nat /\ starts' \subseteq [room : Rooms, id : Nat] /\ UNCHANGED cut
    BY <2>1 DEF StuckStart, Lives, PeopleInv, RoomTypes
  <2> QED
    BY <2>1, <2>2, AgainKeeps DEF StuckStart
<1>2. CASE \E s \in starts : StartReturns(s)
  <2>1. PICK s \in starts : StartReturns(s)
    BY <1>2
  <2>2. s.room \in Rooms /\ starts' = starts \ {s} /\ UNCHANGED <<ids, cut>>
    BY <2>1 DEF StartReturns, PeopleInv, RoomTypes
  <2>3. ids' \in Nat /\ starts' \subseteq [room : Rooms, id : Nat]
    BY <2>2 DEF PeopleInv, RoomTypes
  <2>4. PICK r \in Rooms : r = s.room
    BY <2>2
  <2>5. CASE Current(s) /\ Again(s.room)
    <3>1. link[r].state = "starting" /\ Again(r)
      BY <2>4, <2>5 DEF Current
    <3> QED
      BY <2>2, <2>3, <3>1, AgainKeeps
  <2>6. CASE Current(s) /\ AcceptOnto(s.room) /\ UNCHANGED yes
    <3>1. link[r].state = "starting" /\ AcceptOnto(r) /\ yes[r] = Sides /\ yes' = yes
      BY <2>4, <2>6 DEF Current, PeopleInv, Told
    <3>2. link[r].state \in Pending
      BY <3>1 DEF Pending
    <3> QED
      BY <2>2, <2>3, <3>1, <3>2, AcceptKeeps
  <2>7. CASE ~Current(s)
    <3>1. UNCHANGED <<contact, share, agreed, link, seat, twin, crossed, yes, cut, ids>>
      BY <2>1, <2>2, <2>7 DEF StartReturns, KeepPeople, KeepSeats, Alone
    <3>2. ContactInv' /\ RoomTypes'
      BY <3>1, <2>3 DEF PeopleInv, ContactInv, ContactsAgree, Tapped, Mutual, RoomTypes
    <3>3. (\A q \in Rooms : Told(q)' /\ (cut' \/ Matches(q)')) /\ (cut' \/ OpenAmongContacts')
      BY <3>1 DEF PeopleInv, Told, Matches, OpenLink, OpenAmongContacts, Mutual
    <3> QED
      BY <3>2, <3>3 DEF PeopleInv
  <2> QED
    BY <2>1, <2>5, <2>6, <2>7 DEF StartReturns
<1> QED
  BY <1>1, <1>2

\* A membership of the twin changes, and the link and the room's own row
\* follow, unless the process dies first.
LEMMA TwinMoves ==
  ASSUME PeopleInv, NEW r \in Rooms, twin[r] # "none",
         twin' \in [Rooms -> SeatStates], twin'[r] # "none", \A q \in Rooms \ {r} : twin'[q] = twin[q],
         link' \in [Rooms -> LinkRows], \A q \in Rooms \ {r} : link'[q] = link[q],
         seat' \in [Rooms -> SeatStates], \A q \in Rooms \ {r} : seat'[q] = seat[q],
         link'[r].state \in {link[r].state, "joined", "over"},
         UNCHANGED <<contact, agreed, share, crossed, ids, yes>>,
         starts' \in {starts, {}}, cut' = cut \/ cut' = TRUE,
         cut' \/ Matches(r)', cut' \/ OpenLink(r) \/ ~OpenLink(r)'
  PROVE  PeopleInv'
<1>1. Told(r) /\ ContactStep
  BY ContactRests DEF PeopleInv
<1>2. cut \in BOOLEAN /\ starts \subseteq [room : Rooms, id : Nat]
  BY DEF PeopleInv, RoomTypes
<1>3. cut' \in BOOLEAN /\ (cut => cut')
  BY <1>2
<1>4. starts' \subseteq [room : Rooms, id : Nat]
  BY <1>2
<1>5. RoomTypes'
  BY <1>3, <1>4 DEF PeopleInv, RoomTypes
<1>6. Elsewhere(r)
  BY DEF Elsewhere
<1>7. Told(r)'
  BY <1>1 DEF Told, Pending
<1> QED
  BY <1>1, <1>3, <1>5, <1>6, <1>7, RoomStepKeeps

\* agent_invite_answer, expireInvites: the invitation is answered, or lapses.
LEMMA InviteEnds ==
  ASSUME PeopleInv, NEW r \in Rooms, AgentAnswers(r, TRUE) \/ AgentAnswers(r, FALSE) \/ ExpireInvite(r)
  PROVE  PeopleInv'
<1>1. PICK now \in {"joined", "refused", "expired"} :
        /\ twin[r] = "invited" /\ twin' = [twin EXCEPT ![r] = now]
        /\ \/ /\ LinkIs(r, IF now = "joined" THEN "joined" ELSE "over") /\ Lives
              /\ seat' = IF now = "joined" THEN [seat EXCEPT ![r] = "joined"] ELSE seat
           \/ Die /\ cut' = TRUE /\ UNCHANGED <<link, seat>>
        /\ UNCHANGED <<contact, agreed, share, crossed, ids, yes>>
  <2>1. CASE AgentAnswers(r, TRUE)
    BY <2>1 DEF AgentAnswers, KeepPeople, Alone
  <2>2. CASE AgentAnswers(r, FALSE)
    BY <2>2 DEF AgentAnswers, KeepPeople, Alone
  <2>3. CASE ExpireInvite(r)
    BY <2>3 DEF ExpireInvite, KeepPeople, Alone
  <2> QED
    BY <2>1, <2>2, <2>3
<1>2. twin' \in [Rooms -> SeatStates] /\ twin'[r] = now /\ \A q \in Rooms \ {r} : twin'[q] = twin[q]
  BY <1>1 DEF PeopleInv, RoomTypes, SeatStates
<1>3. seat \in [Rooms -> SeatStates] /\ link \in [Rooms -> LinkRows] /\ (cut \/ Matches(r))
  BY DEF PeopleInv, RoomTypes
<1>4. CASE Die /\ cut' = TRUE /\ UNCHANGED <<link, seat>>
  <2>1. starts' \in {starts, {}}
    BY <1>4 DEF Die
  <2> QED
    BY <1>1, <1>2, <1>3, <1>4, <2>1, TwinMoves
<1>5. CASE /\ LinkIs(r, IF now = "joined" THEN "joined" ELSE "over") /\ Lives
           /\ seat' = IF now = "joined" THEN [seat EXCEPT ![r] = "joined"] ELSE seat
  <2>1. PICK s \in {"joined", "over"} : s = IF now = "joined" THEN "joined" ELSE "over"
    OBVIOUS
  <2>2. s \in {"none", "over"} \cup LiveLinks /\ LinkIs(r, s)
    BY <1>5, <2>1 DEF LiveLinks
  <2>3. link' \in [Rooms -> LinkRows] /\ link'[r].state = s /\ \A q \in Rooms \ {r} : link'[q] = link[q]
    BY <2>2, LinkMoves
  <2>4. seat' \in [Rooms -> SeatStates] /\ (\A q \in Rooms \ {r} : seat'[q] = seat[q])
        /\ seat'[r] = IF now = "joined" THEN "joined" ELSE seat[r]
    BY <1>3, <1>5 DEF SeatStates
  <2>5. cut' = cut /\ starts' \in {starts, {}}
    BY <1>5 DEF Lives
  <2>6. cut' \/ (Matches(r)' /\ OpenLink(r))
    BY <1>1, <1>2, <1>3, <2>1, <2>3, <2>4, <2>5 DEF Matches, OpenLink
  <2> QED
    BY <1>1, <1>2, <2>1, <2>3, <2>4, <2>5, <2>6, TwinMoves
<1> QED
  BY <1>1, <1>4, <1>5

\* agent_leave of the guest's agent.
LEMMA LeavingKeeps == ASSUME PeopleInv, NEW r \in Rooms, GuestLeaves(r) PROVE PeopleInv'
<1>1. twin[r] = "joined" /\ UNCHANGED <<contact, agreed, share, crossed, ids, yes>> /\ {r} \in SUBSET Rooms
  BY DEF GuestLeaves, KeepPeople, Alone
<1>2. CASE EndRooms({r}) /\ Lives
  <2>1. /\ link' \in [Rooms -> LinkRows] /\ seat' \in [Rooms -> SeatStates] /\ twin' \in [Rooms -> SeatStates]
        /\ link'[r].state = "over" /\ seat'[r] \notin {"invited", "joined"}
        /\ twin'[r] \notin {"invited", "joined"} /\ (twin'[r] = "none" <=> twin[r] = "none")
        /\ \A q \in Rooms \ {r} : link'[q] = link[q] /\ seat'[q] = seat[q] /\ twin'[q] = twin[q]
    BY <1>1, <1>2, RoomsGo
  <2>2. Matches(r)' /\ ~OpenLink(r)'
    BY <1>1, <2>1, OverFits
  <2>3. cut' = cut /\ starts' \in {starts, {}}
    BY <1>2 DEF Lives
  <2> QED
    BY <1>1, <2>1, <2>2, <2>3, TwinMoves
<1>3. CASE twin' = [twin EXCEPT ![r] = "left"] /\ Die /\ cut' = TRUE /\ UNCHANGED <<link, seat>>
  <2>1. twin' \in [Rooms -> SeatStates] /\ twin'[r] = "left" /\ \A q \in Rooms \ {r} : twin'[q] = twin[q]
    BY <1>3 DEF PeopleInv, RoomTypes, SeatStates
  <2>2. starts' \in {starts, {}} /\ seat' \in [Rooms -> SeatStates] /\ link' \in [Rooms -> LinkRows]
    BY <1>3 DEF Die, PeopleInv, RoomTypes
  <2> QED
    BY <1>1, <1>3, <2>1, <2>2, TwinMoves
<1> QED
  BY <1>2, <1>3 DEF GuestLeaves

\* A room is ended by either user: the contact request of a talk goes too.
LEMMA RoomEnds == ASSUME PeopleInv, NEW r \in Rooms, EndRoom(r) PROVE PeopleInv'
<1>1. UNCHANGED <<share, crossed, ids, yes, cut, starts>> /\ EndRooms({r}) /\ Agree({}) /\ {r} \in SUBSET Rooms
  BY DEF EndRoom, Lives
<1>2. UNCHANGED contact \/ ContactIs(TalkContactOver(link[r]))
  BY DEF EndRoom, ContactIs
<1>3. ContactStep
  BY <1>1, <1>2, ContactStays, TalkOverKeeps DEF PeopleInv
<1>4. /\ link' \in [Rooms -> LinkRows] /\ seat' \in [Rooms -> SeatStates] /\ twin' \in [Rooms -> SeatStates]
      /\ link'[r].state = "over" /\ seat'[r] \notin {"invited", "joined"}
      /\ twin'[r] \notin {"invited", "joined"} /\ (twin'[r] = "none" <=> twin[r] = "none")
      /\ \A q \in Rooms \ {r} : link'[q] = link[q] /\ seat'[q] = seat[q] /\ twin'[q] = twin[q]
  BY <1>1, RoomsGo
<1>5. Told(r)' /\ Matches(r)' /\ ~OpenLink(r)'
  BY <1>1, <1>4, OverFits
<1>6. RoomTypes'
  BY <1>1, <1>4 DEF PeopleInv, RoomTypes
<1>7. Elsewhere(r)
  BY <1>1, <1>4 DEF Elsewhere
<1> QED
  BY <1>1, <1>3, <1>5, <1>6, <1>7, RoomStepKeeps

\* What is said in an open room crosses to the other side.
LEMMA RelayKeeps == ASSUME PeopleInv, NEW r \in Rooms, NEW u \in Sides, Relay(r, u) PROVE PeopleInv'
<1>1. link[r].state = "joined" /\ crossed' = [crossed EXCEPT ![r] = crossed[r] \cup {u}]
      /\ UNCHANGED <<contact, agreed, share, link, seat, twin, ids, yes, cut, starts>>
  BY DEF Relay, KeepPeople, Alone, Lives, PeopleInv, RoomTypes
<1>2. crossed' \in [Rooms -> SUBSET Sides] /\ \A q \in Rooms \ {r} : crossed'[q] = crossed[q]
  BY <1>1 DEF PeopleInv, RoomTypes
<1>3. RoomTypes'
  BY <1>1, <1>2 DEF PeopleInv, RoomTypes
<1>4. Elsewhere(r)
  BY <1>1, <1>2 DEF Elsewhere
<1>5. Told(r) /\ (cut \/ Matches(r)) /\ OpenLink(r)
  BY <1>1 DEF PeopleInv, OpenLink
<1>6. Told(r)' /\ (cut' \/ Matches(r)')
  BY <1>1, <1>5 DEF Told, Matches, OpenLink
<1> QED
  BY <1>1, <1>3, <1>4, <1>5, <1>6, ContactRests, RoomStepKeeps

LEMMA DyingKeeps == ASSUME PeopleInv, PeopleCrash \/ UNCHANGED peopleVars PROVE PeopleInv'
<1>1. UNCHANGED <<contact, agreed, share, link, seat, twin, crossed, ids, yes, cut>> /\ (starts' = starts \/ starts' = {})
  BY DEF PeopleCrash, Die, peopleVars
<1>2. ContactInv'
  BY <1>1 DEF PeopleInv, ContactInv, ContactsAgree, Tapped, Mutual
<1>3. starts' \subseteq [room : Rooms, id : Nat]
  BY <1>1 DEF PeopleInv, RoomTypes
<1>4. RoomTypes'
  BY <1>1, <1>3 DEF PeopleInv, RoomTypes
<1>5. (\A q \in Rooms : Told(q)' /\ (cut' \/ Matches(q)')) /\ (cut' \/ OpenAmongContacts')
  BY <1>1 DEF PeopleInv, Told, Matches, OpenLink, OpenAmongContacts, Mutual
<1> QED
  BY <1>2, <1>4, <1>5 DEF PeopleInv

LEMMA PeopleStart == PeopleInit => PeopleInv
<1> SUFFICES ASSUME PeopleInit PROVE PeopleInv
  OBVIOUS
<1>1. ContactInv
  BY DEF PeopleInit, ContactInv, ContactStates, ContactsAgree, Tapped, Mutual, Sides, Other
<1>2. RoomTypes
  BY DEF PeopleInit, RoomTypes, NoLink, LinkRows, SeatStates
<1>3. (\A r \in Rooms : Told(r) /\ Matches(r)) /\ OpenAmongContacts
  BY DEF PeopleInit, Told, Matches, OpenLink, OpenAmongContacts, NoLink, Pending
<1> QED
  BY <1>1, <1>2, <1>3 DEF PeopleInv

LEMMA PeopleGoOn == PeopleInv /\ [PeopleNext]_peopleVars => PeopleInv'
<1> SUFFICES ASSUME PeopleInv, [PeopleNext]_peopleVars PROVE PeopleInv'
  OBVIOUS
<1>1. CASE \E u \in Sides : \/ UserRequest(u) \/ AgentAsks(u) \/ ContactApprove(u) \/ ContactDecline(u)
                            \/ ExpireContactAsk(u) \/ Unblock(u)
  BY <1>1, ContactActsKeep
<1>2. CASE \E u \in Sides : ContactEnds(u, "ended") \/ ContactEnds(u, "blocked")
  BY <1>2, EndingKeeps
<1>3. CASE ShareSession \/ ShareApprove \/ ShareEnds \/ ExpireShare
  BY <1>3, ShareKeeps
<1>4. CASE \E r \in Rooms : ParkRoom(r) \/ ParkTalk(r) \/ OwnerDeclines(r) \/ OwnerApproves(r) \/ OwnerSends(r)
  BY <1>4, ParkKeeps, OwnerAnswers, SendTalkKeeps DEF ParkRoom, ParkTalk
<1>5. CASE \E r \in Rooms : GuestDeclines(r) \/ GuestAccepts(r) \/ GuestChooses(r) \/ GuestStartsNew(r) \/ ExpireAsk(r)
  BY <1>5, AskGoes, GuestAnswers, StartKeeps
<1>6. CASE \E r \in Rooms : AgentAnswers(r, TRUE) \/ AgentAnswers(r, FALSE) \/ ExpireInvite(r)
  BY <1>6, InviteEnds
<1>7. CASE \E r \in Rooms : Relay(r, "owner") \/ Relay(r, "guest")
  BY <1>7, RelayKeeps DEF Sides
<1>8. CASE \E r \in Rooms : EndRoom(r) \/ GuestLeaves(r)
  BY <1>8, RoomEnds, LeavingKeeps
<1>9. CASE (\E s \in starts : StartReturns(s)) \/ (\E r \in Rooms : StuckStart(r))
  BY <1>9, ReturnsKeep
<1>10. CASE PeopleCrash \/ UNCHANGED peopleVars
  BY <1>10, DyingKeeps
<1> QED
  BY <1>1, <1>2, <1>3, <1>4, <1>5, <1>6, <1>7, <1>8, <1>9, <1>10 DEF PeopleNext

\* A contact and what hangs on it are one story for both users, and one that
\* both agreed to: the rows of the two are written together whoever asks
\* first, ends it or blocks; no room is open nor shared outside a contact,
\* unless the process died between two commits of the end; and no start that
\* answers late opens what was asked again (send, endPeopleRooms,
\* completeTalkStart).
THEOREM PeopleAgree == PeopleSpec => []ContactRules
BY PeopleStart, PeopleGoOn, PeopleSay, PTL DEF PeopleSpec

-----------------------------------------------------------------------------
(* Pushes: the inductive invariant.                                        *)

\* A push of a card, while its ask waits and before it is too old.
Rings == [age : 0..(Hold + Slack - 1), ask : {"awaiting_user"}]

PushTypes ==
  /\ awake \in BOOLEAN /\ holding \in BOOLEAN /\ changed \in BOOLEAN
  /\ wait \in [Cards -> {"none", "awaiting_user", "decided"}]
  /\ old \in [Cards -> 0..Oldest]
  /\ holdTimer \subseteq Cards /\ skipped \subseteq Cards
  /\ rung \in [Cards -> Seq(Rings)] /\ resumed \in [Cards -> Nat]
  /\ news \in Nat

\* Before a card is there, nothing of it is.
NotYet(c) == wait[c] = "none" => old[c] = 0 /\ rung[c] = <<>> /\ c \notin holdTimer

\* A hold runs while the process does, for a card that is not too old, and is
\* one more push at most.
HoldCounts(c) ==
  /\ c \in holdTimer => awake /\ old[c] < Hold + Slack /\ Len(rung[c]) <= resumed[c]
  /\ Len(rung[c]) <= 1 + resumed[c]

\* What was pushed at once was pushed because nothing is held, and it is not
\* held afterwards.
PushedAtOnce(c) ==
  rung[c] # <<>> /\ rung[c][1].age < Hold /\ ~changed => Len(rung[c]) = 1 /\ ~holding /\ c \notin holdTimer

\* A card that waits was pushed, is held, or was swallowed by a restart.
NotForgotten(c) ==
  awake /\ wait[c] = "awaiting_user" => rung[c] # <<>> \/ c \in holdTimer \/ c \in skipped

CardHolds(c) == NotYet(c) /\ HoldCounts(c) /\ PushedAtOnce(c) /\ NotForgotten(c)

\* What waits in the window is the newest that is owed.
NewsHolds ==
  /\ pending # 0 => pending = owed /\ latched
  /\ owed # shown => pending # 0

PushInv == PushTypes /\ (\A c \in Cards : CardHolds(c)) /\ NewsHolds

LEMMA PushSays == PushInv => PhoneRings
<1> SUFFICES ASSUME PushInv PROVE PhoneRings
  OBVIOUS
<1>1. ASSUME NEW c \in Cards
      PROVE  /\ \A i \in DOMAIN rung[c] : rung[c][i].ask = "awaiting_user" /\ rung[c][i].age < Hold + Slack
             /\ Len(rung[c]) <= 1 + resumed[c]
             /\ Len(rung[c]) > 1 /\ rung[c][1].age < Hold => changed
             /\ awake /\ wait[c] = "awaiting_user" /\ old[c] > Hold => rung[c] # <<>> \/ c \in holdTimer \cup skipped
  <2>1. rung[c] \in Seq(Rings) /\ CardHolds(c)
    BY DEF PushInv, PushTypes
  <2>2. \A i \in DOMAIN rung[c] : rung[c][i].ask = "awaiting_user" /\ rung[c][i].age < Hold + Slack
    <3> TAKE i \in DOMAIN rung[c]
    <3>1. rung[c][i] \in Rings
      BY <2>1
    <3> QED
      BY <3>1, PushAssumption DEF Rings
  <2>3. Len(rung[c]) > 1 /\ rung[c][1].age < Hold => changed
    <3> SUFFICES ASSUME Len(rung[c]) > 1, rung[c][1].age < Hold, ~changed PROVE FALSE
      OBVIOUS
    <3>1. rung[c] # <<>>
      OBVIOUS
    <3>2. Len(rung[c]) = 1
      BY <2>1, <3>1 DEF CardHolds, PushedAtOnce
    <3> QED
      BY <3>2
  <2> QED
    BY <2>1, <2>2, <2>3 DEF CardHolds, HoldCounts, NotForgotten
<1>2. owed # shown => latched /\ pending = owed
  BY DEF PushInv, NewsHolds
<1> QED
  BY <1>1, <1>2 DEF PhoneRings

-----------------------------------------------------------------------------
(* Pushes: the operations.                                                 *)

\* A step of the cards keeps what waits in the window.
LEMMA CardStepKeeps ==
  ASSUME PushInv, PushTypes', \A c \in Cards : CardHolds(c)', UNCHANGED newsVars PROVE PushInv'
BY DEF PushInv, NewsHolds, newsVars

\* And a step that changes one card, the others.
OtherCards(c) ==
  \A d \in Cards \ {c} : /\ wait'[d] = wait[d] /\ old'[d] = old[d] /\ rung'[d] = rung[d]
                         /\ resumed'[d] = resumed[d] /\ (d \in holdTimer' <=> d \in holdTimer)
                         /\ (d \in skipped' <=> d \in skipped)

LEMMA CardOnly ==
  ASSUME PushInv, NEW c \in Cards, OtherCards(c), CardHolds(c)', UNCHANGED <<awake, holding, changed>>
  PROVE  \A d \in Cards : CardHolds(d)'
<1> SUFFICES ASSUME NEW d \in Cards, d # c PROVE CardHolds(d)'
  OBVIOUS
<1>1. CardHolds(d)
  BY DEF PushInv
<1>2. /\ wait'[d] = wait[d] /\ old'[d] = old[d] /\ rung'[d] = rung[d] /\ resumed'[d] = resumed[d]
      /\ (d \in holdTimer' <=> d \in holdTimer) /\ (d \in skipped' <=> d \in skipped)
  BY DEF OtherCards
<1> QED
  BY <1>1, <1>2 DEF CardHolds, NotYet, HoldCounts, PushedAtOnce, NotForgotten

\* A push of a card that waits and is not too old.
LEMMA RingIs ==
  ASSUME PushInv, NEW c \in Cards, wait'[c] = "awaiting_user", old[c] < Hold + Slack, rung' = Ring(c)
  PROVE  /\ rung' \in [Cards -> Seq(Rings)] /\ \A d \in Cards \ {c} : rung'[d] = rung[d]
         /\ Len(rung'[c]) = Len(rung[c]) + 1 /\ rung'[c] # <<>>
         /\ rung'[c][1].age = IF rung[c] = <<>> THEN old[c] ELSE rung[c][1].age
<1>1. PICK x : x = [age |-> old[c], ask |-> wait'[c]]
  OBVIOUS
<1>2. rung \in [Cards -> Seq(Rings)] /\ old[c] \in 0..Oldest /\ rung[c] \in Seq(Rings)
  BY DEF PushInv, PushTypes
<1>3. x \in Rings /\ x.age = old[c]
  BY <1>1, <1>2, PushAssumption DEF Rings, Oldest
<1>4. rung' = [rung EXCEPT ![c] = Append(rung[c], x)]
  BY <1>1, <1>2 DEF Ring
<1>5. PICK l : l = Append(rung[c], x)
  OBVIOUS
<1>6. l \in Seq(Rings) /\ Len(l) = Len(rung[c]) + 1 /\ l # <<>>
      /\ l[1].age = IF rung[c] = <<>> THEN old[c] ELSE rung[c][1].age
  BY <1>2, <1>3, <1>5
<1>7. rung' = [rung EXCEPT ![c] = l]
  BY <1>4, <1>5
<1> QED
  BY <1>2, <1>6, <1>7

LEMMA ComingKeeps == ASSUME PushInv, NEW c \in Cards, CardComes(c) PROVE PushInv'
<1>1. UNCHANGED <<awake, pushDeaths, old, holding, changed, resumed, skipped, newsVars>> /\ awake /\ wait[c] = "none"
      /\ UNCHANGED <<latched, pending, news, owed, shown>>
  BY DEF CardComes, newsVars
<1>2. CardHolds(c) /\ wait \in [Cards -> {"none", "awaiting_user", "decided"}] /\ rung[c] \in Seq(Rings)
  BY DEF PushInv, PushTypes
<1>3. old[c] = 0 /\ rung[c] = <<>> /\ c \notin holdTimer /\ old[c] < Hold + Slack /\ 0 < Hold
  BY <1>1, <1>2, PushAssumption DEF CardHolds, NotYet
<1>4. wait' = [wait EXCEPT ![c] = "awaiting_user"]
  BY DEF CardComes
<1>5. wait' \in [Cards -> {"none", "awaiting_user", "decided"}] /\ wait'[c] = "awaiting_user"
      /\ \A d \in Cards \ {c} : wait'[d] = wait[d]
  BY <1>2, <1>4
<1>6. resumed[c] \in Nat
  BY DEF PushInv, PushTypes
<1>7. CASE holding
  <2>1. holdTimer' = holdTimer \cup {c} /\ rung' = rung
    BY <1>7 DEF CardComes
  <2>2. PushTypes' /\ OtherCards(c)
    BY <1>1, <1>5, <2>1 DEF PushInv, PushTypes, OtherCards
  <2>3. Len(rung[c]) = 0
    BY <1>3
  <2>4. CardHolds(c)'
    BY <1>1, <1>3, <1>5, <1>6, <2>1, <2>3 DEF CardHolds, NotYet, HoldCounts, PushedAtOnce, NotForgotten
  <2> QED
    BY <1>1, <2>2, <2>4, CardOnly, CardStepKeeps
<1>8. CASE ~holding
  <2>1. holdTimer' = holdTimer /\ rung' = Ring(c)
    BY <1>8 DEF CardComes
  <2>2. /\ rung' \in [Cards -> Seq(Rings)] /\ \A d \in Cards \ {c} : rung'[d] = rung[d]
        /\ Len(rung'[c]) = Len(rung[c]) + 1 /\ rung'[c] # <<>>
    BY <1>3, <1>5, <2>1, RingIs
  <2>3. PushTypes' /\ OtherCards(c)
    BY <1>1, <1>5, <2>1, <2>2 DEF PushInv, PushTypes, OtherCards
  <2>4. Len(rung'[c]) = 1
    BY <1>3, <2>2
  <2>5. CardHolds(c)'
    BY <1>1, <1>3, <1>5, <1>6, <1>8, <2>1, <2>2, <2>4 DEF CardHolds, NotYet, HoldCounts, PushedAtOnce, NotForgotten
  <2> QED
    BY <1>1, <2>3, <2>5, CardOnly, CardStepKeeps
<1> QED
  BY <1>7, <1>8

LEMMA DecisionKeeps == ASSUME PushInv, NEW c \in Cards, CardDecided(c) PROVE PushInv'
<1>1. UNCHANGED <<awake, pushDeaths, old, holdTimer, holding, changed, rung, resumed, skipped, newsVars>>
      /\ UNCHANGED <<latched, pending, news, owed, shown>>
  BY DEF CardDecided, newsVars
<1>2. wait \in [Cards -> {"none", "awaiting_user", "decided"}] /\ CardHolds(c)
  BY DEF PushInv, PushTypes
<1>3. wait' = [wait EXCEPT ![c] = "decided"]
  BY DEF CardDecided
<1>4. wait' \in [Cards -> {"none", "awaiting_user", "decided"}] /\ wait'[c] = "decided"
      /\ \A d \in Cards \ {c} : wait'[d] = wait[d]
  BY <1>2, <1>3
<1>5. PushTypes' /\ OtherCards(c)
  BY <1>1, <1>4 DEF PushInv, PushTypes, OtherCards
<1>6. CardHolds(c)'
  BY <1>1, <1>2, <1>4 DEF CardHolds, NotYet, HoldCounts, PushedAtOnce, NotForgotten
<1> QED
  BY <1>1, <1>5, <1>6, CardOnly, CardStepKeeps

\* The hold is over: pushed, if the ask still waits.
LEMMA HoldEndKeeps == ASSUME PushInv, NEW c \in Cards, HoldEnds(c) PROVE PushInv'
<1>1. UNCHANGED <<awake, pushDeaths, wait, old, holding, changed, resumed, skipped, newsVars>>
      /\ UNCHANGED <<latched, pending, news, owed, shown>>
      /\ c \in holdTimer /\ old[c] >= Hold /\ holdTimer' = holdTimer \ {c}
  BY DEF HoldEnds, newsVars
<1>2. CardHolds(c) /\ rung[c] \in Seq(Rings) /\ resumed[c] \in Nat /\ old[c] \in 0..Oldest /\ Hold \in Nat
  BY PushAssumption DEF PushInv, PushTypes
<1>3. old[c] < Hold + Slack /\ Len(rung[c]) <= resumed[c] /\ wait[c] # "none"
  BY <1>1, <1>2 DEF CardHolds, HoldCounts, NotYet
<1>4. CASE StillPending(c)
  <2>1. rung' = Ring(c) /\ wait'[c] = "awaiting_user"
    BY <1>1, <1>4 DEF HoldEnds, StillPending
  <2>2. /\ rung' \in [Cards -> Seq(Rings)] /\ \A d \in Cards \ {c} : rung'[d] = rung[d]
        /\ Len(rung'[c]) = Len(rung[c]) + 1 /\ rung'[c] # <<>>
        /\ rung'[c][1].age = IF rung[c] = <<>> THEN old[c] ELSE rung[c][1].age
    BY <1>3, <2>1, RingIs
  <2>3. PushTypes' /\ OtherCards(c)
    BY <1>1, <2>2 DEF PushInv, PushTypes, OtherCards
  <2>4. PushedAtOnce(c)'
    <3> SUFFICES ASSUME rung'[c][1].age < Hold, ~changed PROVE FALSE
      BY <1>1 DEF PushedAtOnce
    <3>1. rung[c] # <<>> /\ rung[c][1].age < Hold
      BY <1>1, <1>2, <2>2
    <3> QED
      BY <3>1, <1>1, <1>2 DEF CardHolds, PushedAtOnce
  <2>5. HoldCounts(c)'
    BY <1>1, <1>2, <1>3, <2>2 DEF HoldCounts
  <2>6. CardHolds(c)'
    BY <1>1, <1>3, <2>2, <2>4, <2>5 DEF CardHolds, NotYet, NotForgotten
  <2> QED
    BY <1>1, <2>3, <2>6, CardOnly, CardStepKeeps
<1>5. CASE ~StillPending(c)
  <2>1. rung' = rung /\ wait[c] # "awaiting_user"
    BY <1>5 DEF HoldEnds, StillPending
  <2>2. PushTypes' /\ OtherCards(c)
    BY <1>1, <2>1 DEF PushInv, PushTypes, OtherCards
  <2>3. CardHolds(c)'
    BY <1>1, <1>2, <1>3, <2>1 DEF CardHolds, NotYet, HoldCounts, PushedAtOnce, NotForgotten
  <2> QED
    BY <1>1, <2>2, <2>3, CardOnly, CardStepKeeps
<1> QED
  BY <1>4, <1>5

LEMMA SettingsKeep == ASSUME PushInv, SettingsChange PROVE PushInv'
<1>1. UNCHANGED <<awake, wait, old, holdTimer, rung, resumed, skipped, newsVars>>
      /\ UNCHANGED <<latched, pending, news, owed, shown>> /\ changed' = TRUE /\ holding' = ~holding
  BY DEF SettingsChange, newsVars
<1>2. PushTypes'
  BY <1>1 DEF PushInv, PushTypes
<1>3. \A c \in Cards : CardHolds(c)'
  BY <1>1 DEF PushInv, CardHolds, NotYet, HoldCounts, PushedAtOnce, NotForgotten
<1> QED
  BY <1>1, <1>2, <1>3, CardStepKeeps

\* No hold is late by a tick.
LEMMA PushTickKeeps == ASSUME PushInv, PushTick PROVE PushInv'
<1>1. UNCHANGED <<awake, wait, holdTimer, holding, changed, rung, resumed, skipped, newsVars>>
      /\ UNCHANGED <<latched, pending, news, owed, shown>>
  BY DEF PushTick, newsVars
<1>2. old' = [c \in Cards |-> IF wait[c] # "none" /\ old[c] < Oldest THEN old[c] + 1 ELSE old[c]]
      /\ \A c \in holdTimer : old[c] < Hold
  BY DEF PushTick
<1>3. old \in [Cards -> 0..Oldest] /\ Hold \in Nat \ {0} /\ Slack \in Nat \ {0}
  BY PushAssumption DEF PushInv, PushTypes
<1>4. old' \in [Cards -> 0..Oldest]
  BY <1>2, <1>3 DEF Oldest
<1>5. PushTypes'
  BY <1>1, <1>4 DEF PushInv, PushTypes
<1>6. ASSUME NEW c \in Cards PROVE CardHolds(c)'
  <2>1. CardHolds(c) /\ old[c] \in 0..Oldest
    BY <1>3 DEF PushInv
  <2>2. old'[c] = (IF wait[c] # "none" /\ old[c] < Oldest THEN old[c] + 1 ELSE old[c])
    BY <1>2
  <2>3. NotYet(c)'
    BY <1>1, <2>1, <2>2 DEF CardHolds, NotYet
  <2>4. c \in holdTimer => old'[c] < Hold + Slack
    BY <1>2, <1>3, <2>1, <2>2
  <2>5. HoldCounts(c)'
    BY <1>1, <2>1, <2>4 DEF CardHolds, HoldCounts
  <2> QED
    BY <1>1, <2>1, <2>3, <2>5 DEF CardHolds, PushedAtOnce, NotForgotten
<1> QED
  BY <1>1, <1>5, <1>6, CardStepKeeps

\* resumeHeldConsent: what is young enough is held again, where anything is;
\* the rest is swallowed.
LEMMA BootKeeps == ASSUME PushInv, PushBoots PROVE PushInv'
<1>1. UNCHANGED <<wait, old, holding, changed, rung, newsVars>> /\ UNCHANGED <<latched, pending, news, owed, shown>>
      /\ ~awake /\ awake' = TRUE
  BY DEF PushBoots, newsVars
<1>2. holdTimer' = {c \in Cards : Resumes(c)}
  BY DEF PushBoots
<1>3. resumed' = [c \in Cards |-> IF c \in holdTimer' THEN resumed[c] + 1 ELSE resumed[c]]
      /\ skipped' = skipped \cup {c \in Cards : (~holding \/ old[c] >= Hold + Slack) /\ rung[c] = <<>>}
  BY DEF PushBoots
<1>4. PushTypes'
  BY <1>1, <1>2, <1>3 DEF PushInv, PushTypes
<1>5. ASSUME NEW c \in Cards PROVE CardHolds(c)'
  <2>1. CardHolds(c) /\ resumed[c] \in Nat /\ rung[c] \in Seq(Rings) /\ old[c] \in 0..Oldest
    BY DEF PushInv, PushTypes
  <2>2. c \notin holdTimer /\ Len(rung[c]) <= 1 + resumed[c] /\ Len(rung[c]) \in Nat
    BY <1>1, <2>1 DEF CardHolds, HoldCounts
  <2>3. c \in holdTimer' <=> wait[c] = "awaiting_user" /\ old[c] < Hold + Slack /\ holding
    BY <1>2 DEF Resumes, StillPending
  <2>4. resumed'[c] = IF c \in holdTimer' THEN resumed[c] + 1 ELSE resumed[c]
    BY <1>3
  <2>5. NotYet(c)' /\ PushedAtOnce(c)'
    BY <1>1, <2>1, <2>3 DEF CardHolds, NotYet, PushedAtOnce
  <2>6. HoldCounts(c)'
    BY <1>1, <2>1, <2>2, <2>3, <2>4 DEF HoldCounts
  <2>7. NotForgotten(c)'
    <3> SUFFICES ASSUME wait[c] = "awaiting_user", rung[c] = <<>>, c \notin holdTimer' PROVE c \in skipped'
      BY <1>1 DEF NotForgotten
    <3>1. ~holding \/ old[c] >= Hold + Slack
      BY <2>1, <2>3, PushAssumption
    <3> QED
      BY <3>1, <1>3
  <2> QED
    BY <2>5, <2>6, <2>7 DEF CardHolds
<1> QED
  BY <1>1, <1>4, <1>5, CardStepKeeps

LEMMA PushDeathKeeps == ASSUME PushInv, PushDies PROVE PushInv'
<1>1. UNCHANGED <<wait, old, holding, changed, rung, resumed, skipped, news>> /\ awake' = FALSE /\ holdTimer' = {}
      /\ latched' = FALSE /\ pending' = 0 /\ owed' = shown /\ shown' = shown
  BY DEF PushDies
<1>2. PushTypes'
  BY <1>1 DEF PushInv, PushTypes
<1>3. \A c \in Cards : CardHolds(c)'
  BY <1>1 DEF PushInv, CardHolds, NotYet, HoldCounts, PushedAtOnce, NotForgotten
<1> QED
  BY <1>1, <1>2, <1>3 DEF PushInv, NewsHolds

\* scheduleRoutine, armWindow: the latest wins, and what waited is shown.
LEMMA WindowKeeps == ASSUME PushInv, NewsComes \/ WindowEnds PROVE PushInv'
<1>1. UNCHANGED <<awake, pushDeaths, cardVars>> /\ UNCHANGED <<wait, old, holdTimer, holding, changed, rung, resumed, skipped>>
  BY DEF NewsComes, WindowEnds, cardVars
<1>2. news \in Nat /\ NewsHolds
  BY DEF PushInv, PushTypes
<1>3. \A c \in Cards : CardHolds(c)'
  BY <1>1 DEF PushInv, CardHolds, NotYet, HoldCounts, PushedAtOnce, NotForgotten
<1>4. CASE NewsComes
  <2>1. news' = news + 1 /\ owed' = news'
        /\ \/ latched /\ pending' = news' /\ UNCHANGED <<latched, shown>>
           \/ ~latched /\ latched' = TRUE /\ shown' = news' /\ UNCHANGED pending
    BY <1>4 DEF NewsComes, LatestWins
  <2>2. NewsHolds' /\ news' \in Nat
    BY <1>2, <2>1 DEF NewsHolds
  <2> QED
    BY <1>1, <1>3, <2>2 DEF PushInv, PushTypes
<1>5. CASE WindowEnds
  <2>1. latched /\ latched' = (pending # 0) /\ pending' = 0 /\ shown' = (IF pending # 0 THEN pending ELSE shown)
        /\ UNCHANGED <<news, owed>>
    BY <1>5 DEF WindowEnds, Trailing
  <2>2. NewsHolds'
    BY <1>2, <2>1 DEF NewsHolds
  <2> QED
    BY <1>1, <1>3, <2>1, <2>2 DEF PushInv, PushTypes
<1> QED
  BY <1>4, <1>5

LEMMA PushesStart == PushInit => PushInv
<1> SUFFICES ASSUME PushInit PROVE PushInv
  OBVIOUS
<1>1. <<>> \in Seq(Rings) /\ 0 \in 0..Oldest
  BY PushAssumption DEF Oldest
<1>2. PushTypes
  BY <1>1 DEF PushInit, PushTypes
<1>3. ASSUME NEW c \in Cards PROVE CardHolds(c)
  <2>1. wait[c] = "none" /\ old[c] = 0 /\ rung[c] = <<>> /\ resumed[c] = 0 /\ c \notin holdTimer
    BY DEF PushInit
  <2>2. Len(rung[c]) = 0
    BY <2>1
  <2> QED
    BY <2>1, <2>2 DEF CardHolds, NotYet, HoldCounts, PushedAtOnce, NotForgotten
<1>4. NewsHolds
  BY DEF PushInit, NewsHolds
<1> QED
  BY <1>2, <1>3, <1>4 DEF PushInv

LEMMA PushesGoOn == PushInv /\ [PushNext]_pushVars => PushInv'
<1> SUFFICES ASSUME PushInv, [PushNext]_pushVars PROVE PushInv'
  OBVIOUS
<1>1. CASE \E c \in Cards : CardComes(c) \/ CardDecided(c) \/ HoldEnds(c)
  BY <1>1, ComingKeeps, DecisionKeeps, HoldEndKeeps
<1>2. CASE SettingsChange \/ PushTick
  BY <1>2, SettingsKeep, PushTickKeeps
<1>3. CASE PushBoots \/ PushDies
  BY <1>3, BootKeeps, PushDeathKeeps
<1>4. CASE NewsComes \/ WindowEnds
  BY <1>4, WindowKeeps
<1>5. CASE UNCHANGED pushVars
  BY <1>5 DEF pushVars, PushInv, PushTypes, CardHolds, NotYet, HoldCounts, PushedAtOnce, NotForgotten, NewsHolds
<1> QED
  BY <1>1, <1>2, <1>3, <1>4, <1>5 DEF PushNext

\* A card rings only while its ask waits, however its hold, the answer of the
\* Coordinator, the user's settings and restarts fall together, once and once
\* more at most for each hold that was taken up again, and is not forgotten; the
\* newest routine message is on the phone or waits in an open window (onAppend,
\* resumeHeldConsent, scheduleRoutine).
THEOREM PhonesAreTold == PushSpec => []PhoneRings
BY PushesStart, PushesGoOn, PushSays, PTL DEF PushSpec

-----------------------------------------------------------------------------
(* ToolStream: the inductive invariant.                                    *)

\* Output is of some length.
Slots == {f \in Frame : f.event = "append" => f.from < f.to}

BuffersOK ==
  /\ DOMAIN buf \subseteq Refs
  /\ \A r \in DOMAIN buf : /\ buf[r].start \in Nat /\ buf[r].end \in Nat
                           /\ buf[r].start < buf[r].end /\ buf[r].end - buf[r].start <= MaxBytes
                           /\ buf[r].owner = fed[r]

StreamTypes ==
  /\ view \subseteq Apps /\ timer \subseteq Apps
  /\ slot \in [Apps -> [Refs -> Slots]]
  /\ over \in [Apps -> [Refs -> Overlay]]
  /\ fed \in [Refs -> Socks]

\* Without a timer nothing waits, and an app that does not watch shows only
\* what is durable.
Unwatched ==
  /\ \A a \in Apps \ timer : \A r \in Refs : slot[a][r] = Nothing
  /\ \A a \in Apps \ view : \A r \in Refs : over[a][r].state \in {"none", "retired"}

\* A watcher never misses something: what waits for it ends where the buffer
\* does, and what it will show is all of it.
InStep(a, r) ==
  /\ over[a][r].state # "lost" /\ Final(a, r).state # "lost"
  /\ r \in DOMAIN buf =>
       /\ slot[a][r].event = "append" => slot[a][r].to = buf[r].end
       /\ over[a][r].state # "retired" => Final(a, r).state = "live" /\ Final(a, r).to >= buf[r].end
  /\ r \notin DOMAIN buf => Final(a, r).state # "live"

StreamInv ==
  BuffersOK /\ StreamTypes /\ Unwatched /\ \A a \in view \ hasty : \A r \in Refs : InStep(a, r)

LEMMA StreamSays == StreamInv => WatcherHasItAll /\ NoTerminalOutlives
BY DEF StreamInv, BuffersOK, InStep, WatcherHasItAll, NoTerminalOutlives

-----------------------------------------------------------------------------
(* ToolStream: frames and overlays.                                        *)

\* What a frame makes of what is shown.
LEMMA ShownIs ==
  ASSUME NEW o \in Overlay, NEW f \in Slots
  PROVE  /\ Shown(o, f) \in Overlay
         /\ f.event = "none" \/ o.state = "retired" => Shown(o, f) = o
         /\ f.event = "end" /\ o.state # "retired" => Shown(o, f).state = "ended"
         /\ f.event = "append" /\ o.state = "live" /\ f.from <= o.to =>
              Shown(o, f).state = "live" /\ Shown(o, f).to >= f.to /\ Shown(o, f).to >= o.to
         /\ f.event = "append" /\ o.state \in {"none", "ended"} /\ f.from = 0 =>
              Shown(o, f).state = "live" /\ Shown(o, f).to = f.to
         /\ f.event = "append" /\ o.state # "retired" /\ Shown(o, f).state = "live" =>
              (o.state = "live" /\ f.from <= o.to) \/ (o.state \in {"none", "ended"} /\ f.from = 0)
<1>1. /\ o.state \in {"none", "live", "lost", "ended", "retired"} /\ o.from \in Nat /\ o.to \in Nat
      /\ f.event \in {"none", "end", "append"} /\ f.from \in Nat /\ f.to \in Nat
  BY DEF Overlay, Slots, Frame
<1>2. CASE f.event = "none" \/ o.state = "retired"
  <2>1. Shown(o, f) = o
    BY <1>2 DEF Shown
  <2> QED
    BY <1>2, <2>1, <1>1
<1>3. CASE f.event = "end" /\ o.state # "retired"
  <2>1. Shown(o, f) = Screen("ended")
    BY <1>3 DEF Shown
  <2> QED
    BY <1>3, <2>1 DEF Screen, Overlay
<1>4. CASE f.event = "append" /\ o.state = "live" /\ f.from <= o.to
  <2>1. Shown(o, f) = Running(o.from, IF o.to < f.to THEN f.to ELSE o.to)
    BY <1>4 DEF Shown
  <2> QED
    BY <1>1, <1>4, <2>1 DEF Running, Overlay
<1>5. CASE f.event = "append" /\ o.state \in {"none", "ended"} /\ f.from = 0
  <2>1. Shown(o, f) = Running(0, f.to)
    BY <1>5 DEF Shown
  <2> QED
    BY <1>1, <1>5, <2>1 DEF Running, Overlay
<1>6. CASE /\ f.event = "append" /\ o.state # "retired" /\ ~(o.state = "live" /\ f.from <= o.to)
           /\ ~(o.state \in {"none", "ended"} /\ f.from = 0)
  <2>1. Shown(o, f) = Screen("lost")
    BY <1>6 DEF Shown
  <2> QED
    BY <1>6, <2>1 DEF Screen, Overlay
<1> QED
  BY <1>1, <1>2, <1>3, <1>4, <1>5, <1>6

LEMMA MergeIs ==
  ASSUME NEW p \in Slots, NEW f \in Slots
  PROVE  /\ Merge(p, f) \in Slots
         /\ p.event = "append" /\ f.event = "append" /\ p.to = f.from => Merge(p, f) = Output(p.from, f.to)
         /\ ~(p.event = "append" /\ f.event = "append" /\ p.to = f.from) => Merge(p, f) = f
<1>1. /\ p.from \in Nat /\ p.to \in Nat /\ f.from \in Nat /\ f.to \in Nat
      /\ (p.event = "append" => p.from < p.to) /\ (f.event = "append" => f.from < f.to)
  BY DEF Slots, Frame
<1>2. CASE p.event = "append" /\ f.event = "append" /\ p.to = f.from
  <2>1. Merge(p, f) = Output(p.from, f.to)
    BY <1>2 DEF Merge
  <2>2. p.from < f.to
    BY <1>1, <1>2
  <2>3. Output(p.from, f.to) \in Slots
    BY <1>1, <2>2 DEF Output, Slots, Frame
  <2> QED
    BY <1>2, <2>1, <2>3
<1>3. CASE ~(p.event = "append" /\ f.event = "append" /\ p.to = f.from)
  BY <1>3 DEF Merge
<1> QED
  BY <1>2, <1>3

LEMMA FramesAre ==
  /\ Nothing \in Slots /\ Nothing.event = "none" /\ End \in Slots /\ End.event = "end"
  /\ \A from, to \in Nat : from < to => Output(from, to) \in Slots
  /\ \A from, to : Output(from, to).event = "append" /\ Output(from, to).from = from /\ Output(from, to).to = to
BY DEF Nothing, End, Output, Slots, Frame

\* What the frames of a step say of the buffers, command by command: nothing,
\* the end of one that is gone, or the output one has grown by.
Tells(frames, q) ==
  \/ q \notin DOMAIN frames /\ (q \in DOMAIN buf' <=> q \in DOMAIN buf) /\ (q \in DOMAIN buf => buf'[q].end = buf[q].end)
  \/ q \in DOMAIN frames /\ frames[q] = End /\ q \notin DOMAIN buf'
  \/ /\ q \in DOMAIN frames /\ q \in DOMAIN buf' /\ buf'[q].end \in Nat
     /\ \E from \in Nat : /\ from < buf'[q].end /\ frames[q] = Output(from, buf'[q].end)
                          /\ IF q \in DOMAIN buf THEN from = buf[q].end ELSE from = 0

\* Whoever watches stays in step: it will show what the frames say.
LEMMA FanInStep ==
  ASSUME StreamInv, NEW frames, NEW a \in view \ hasty, NEW q \in Refs, Tells(frames, q),
         UNCHANGED over, slot'[a][q] = IF q \in DOMAIN frames THEN Merge(slot[a][q], frames[q]) ELSE slot[a][q]
  PROVE  InStep(a, q)'
<1>1. PICK o : o = over[a][q]
  OBVIOUS
<1>2. PICK p : p = slot[a][q]
  OBVIOUS
<1>3. PICK f : f = slot'[a][q]
  OBVIOUS
<1>4. o \in Overlay /\ p \in Slots /\ o = over'[a][q]
  BY <1>1, <1>2 DEF StreamInv, StreamTypes
<1>5. /\ o.state # "lost" /\ Shown(o, p).state # "lost"
      /\ q \in DOMAIN buf => /\ p.event = "append" => p.to = buf[q].end
                             /\ o.state # "retired" => Shown(o, p).state = "live" /\ Shown(o, p).to >= buf[q].end
      /\ q \notin DOMAIN buf => Shown(o, p).state # "live"
  BY <1>1, <1>2 DEF StreamInv, InStep, Final
<1>6. SUFFICES /\ Shown(o, f).state # "lost"
               /\ q \in DOMAIN buf' => /\ f.event = "append" => f.to = buf'[q].end
                                       /\ o.state # "retired" => Shown(o, f).state = "live" /\ Shown(o, f).to >= buf'[q].end
               /\ q \notin DOMAIN buf' => Shown(o, f).state # "live"
  BY <1>3, <1>4, <1>5 DEF InStep, Final
<1>7. CASE q \notin DOMAIN frames /\ (q \in DOMAIN buf' <=> q \in DOMAIN buf) /\ (q \in DOMAIN buf => buf'[q].end = buf[q].end)
  <2>1. f = p
    BY <1>2, <1>3, <1>7
  <2> QED
    BY <1>5, <1>7, <2>1
<1>8. CASE q \in DOMAIN frames /\ frames[q] = End /\ q \notin DOMAIN buf'
  <2>1. f = End
    BY <1>2, <1>3, <1>4, <1>8, MergeIs, FramesAre
  <2>2. Shown(o, f).state \in {"ended", "retired"}
    BY <1>4, <2>1, ShownIs, FramesAre
  <2> QED
    BY <1>8, <2>2
<1>9. CASE /\ q \in DOMAIN frames /\ q \in DOMAIN buf' /\ buf'[q].end \in Nat
           /\ \E from \in Nat : /\ from < buf'[q].end /\ frames[q] = Output(from, buf'[q].end)
                                /\ IF q \in DOMAIN buf THEN from = buf[q].end ELSE from = 0
  <2>1. PICK from \in Nat : /\ from < buf'[q].end /\ frames[q] = Output(from, buf'[q].end)
                            /\ IF q \in DOMAIN buf THEN from = buf[q].end ELSE from = 0
    BY <1>9
  <2>2. PICK to \in Nat : to = buf'[q].end
    BY <1>9
  <2>3. PICK x : x = Output(from, to)
    OBVIOUS
  <2>4. x \in Slots /\ x.event = "append" /\ x.from = from /\ x.to = to /\ from < to
    BY <2>1, <2>2, <2>3, FramesAre
  <2>5. f = Merge(p, x)
    BY <1>2, <1>3, <1>9, <2>1, <2>2, <2>3
  <2>6. /\ o.state \in {"none", "live", "lost", "ended", "retired"} /\ o.to \in Nat
        /\ p.event \in {"none", "end", "append"} /\ p.from \in Nat /\ p.to \in Nat /\ (p.event = "append" => p.from < p.to)
    BY <1>4 DEF Overlay, Slots, Frame
  <2>7. f \in Slots /\ f.event = "append" /\ f.to = to
    <3>1. CASE p.event = "append" /\ p.to = from
      <4>1. f = Output(p.from, to) /\ f \in Slots
        BY <1>4, <2>4, <2>5, <3>1, MergeIs
      <4> QED
        BY <4>1, FramesAre
    <3>2. CASE ~(p.event = "append" /\ p.to = from)
      BY <1>4, <2>4, <2>5, <3>2, MergeIs
    <3> QED
      BY <3>1, <3>2
  <2>8. o.state # "retired" => (o.state = "live" /\ f.from <= o.to) \/ (o.state \in {"none", "ended"} /\ f.from = 0)
    <3> SUFFICES ASSUME o.state # "retired"
                 PROVE  (o.state = "live" /\ f.from <= o.to) \/ (o.state \in {"none", "ended"} /\ f.from = 0)
      OBVIOUS
    <3>1. CASE q \notin DOMAIN buf
      <4>1. from = 0 /\ ~(p.event = "append" /\ p.to = from)
        BY <2>1, <2>6, <3>1
      <4>2. f = x
        BY <1>4, <2>4, <2>5, <4>1, MergeIs
      <4> QED
        BY <1>5, <2>4, <2>6, <4>1, <4>2
    <3>2. CASE q \in DOMAIN buf
      <4>1. from = buf[q].end /\ Shown(o, p).state = "live" /\ Shown(o, p).to >= from
            /\ (p.event = "append" => p.to = from)
        BY <1>5, <2>1, <3>2
      <4>2. CASE p.event = "append"
        <5>1. f = Output(p.from, to)
          BY <1>4, <2>4, <2>5, <4>1, <4>2, MergeIs
        <5>2. f.from = p.from
          BY <5>1, FramesAre
        <5> QED
          BY <1>4, <4>1, <4>2, <5>2, ShownIs
      <4>3. CASE p.event = "none"
        <5>1. f = x /\ Shown(o, p) = o
          BY <1>4, <2>4, <2>5, <4>3, MergeIs, ShownIs
        <5> QED
          BY <2>4, <2>6, <4>1, <5>1
      <4>4. CASE p.event = "end"
        BY <1>4, <4>1, <4>4, ShownIs
      <4> QED
        BY <2>6, <4>2, <4>3, <4>4
    <3> QED
      BY <3>1, <3>2
  <2>9. o.state # "retired" => Shown(o, f).state = "live" /\ Shown(o, f).to >= to
    BY <1>4, <2>6, <2>7, <2>8, ShownIs
  <2>10. Shown(o, f).state # "lost"
    BY <1>4, <2>7, <2>9, ShownIs
  <2> QED
    BY <1>9, <2>2, <2>7, <2>9, <2>10
<1> QED
  BY <1>7, <1>8, <1>9 DEF Tells

-----------------------------------------------------------------------------
(* ToolStream: the operations.                                             *)

\* sendEphemeral to who watches: whatever the frames tell of the buffers, as
\* long as they tell it of all of them.
LEMMA FanKeeps ==
  ASSUME StreamInv, BuffersOK', fed' \in [Refs -> Socks], NEW frames, Fan(frames), UNCHANGED <<view, over, hasty>>,
         \A q \in Refs : q \in DOMAIN frames => frames[q] \in Slots,
         \A q \in Refs : Tells(frames, q)
  PROVE  StreamInv'
<1>1. slot' = [a \in Apps |-> [r \in Refs |->
                 IF a \in view /\ r \in DOMAIN frames THEN Merge(slot[a][r], frames[r]) ELSE slot[a][r]]]
      /\ timer' = IF frames = <<>> THEN timer ELSE timer \cup view
  BY DEF Fan
<1>2. slot \in [Apps -> [Refs -> Slots]] /\ view \subseteq Apps /\ timer \subseteq Apps
  BY DEF StreamInv, StreamTypes
<1>3. \A a \in Apps, r \in Refs :
        slot'[a][r] = IF a \in view /\ r \in DOMAIN frames THEN Merge(slot[a][r], frames[r]) ELSE slot[a][r]
  BY <1>1
<1>4. \A a \in Apps, r \in Refs :
        (IF a \in view /\ r \in DOMAIN frames THEN Merge(slot[a][r], frames[r]) ELSE slot[a][r]) \in Slots
  BY <1>2, MergeIs
<1>5. slot' \in [Apps -> [Refs -> Slots]]
  BY <1>1, <1>4
<1>6. StreamTypes'
  BY <1>1, <1>2, <1>5 DEF StreamInv, StreamTypes
<1>7. Unwatched'
  <2>1. ASSUME NEW a \in Apps \ timer', NEW r \in Refs PROVE slot'[a][r] = Nothing
    <3>1. a \notin timer /\ slot[a][r] = Nothing
      BY <1>1, <2>1 DEF StreamInv, Unwatched
    <3>2. a \in view => frames = <<>>
      BY <1>1, <2>1
    <3>3. a \in view => r \notin DOMAIN frames \/ DOMAIN frames = DOMAIN <<>>
      BY <3>2
    <3>4. DOMAIN <<>> = {}
      OBVIOUS
    <3>5. ~(a \in view /\ r \in DOMAIN frames)
      BY <3>3, <3>4
    <3> QED
      BY <1>3, <3>1, <3>5
  <2>2. \A a \in Apps \ view' : \A r \in Refs : over'[a][r].state \in {"none", "retired"}
    BY DEF StreamInv, Unwatched
  <2> QED
    BY <2>1, <2>2 DEF Unwatched
<1>8. \A a \in view' \ hasty' : \A r \in Refs : InStep(a, r)'
  <2> SUFFICES ASSUME NEW a \in view \ hasty, NEW r \in Refs PROVE InStep(a, r)'
    OBVIOUS
  <2>1. slot'[a][r] = IF r \in DOMAIN frames THEN Merge(slot[a][r], frames[r]) ELSE slot[a][r]
    BY <1>2, <1>3
  <2>2. Tells(frames, r)
    OBVIOUS
  <2> QED
    BY <2>1, <2>2, FanInStep
<1> QED
  BY <1>6, <1>7, <1>8 DEF StreamInv

\* What a command has printed so far, trimmed to the cap.
LEMMA HeldFits ==
  ASSUME NEW start \in Nat, NEW to \in Nat, start < to
  PROVE  Held(start, to) \in Nat /\ Held(start, to) < to /\ to - Held(start, to) <= MaxBytes
BY ToolStreamAssumption DEF Held

\* append, of a command that is not buffered: others may have to go.
LEMMA CreateKeeps ==
  ASSUME StreamInv, NEW s \in Socks, NEW r \in Refs, NEW to \in Nat, 0 < to, Create(s, r, to)
  PROVE  StreamInv'
<1>1. PICK ev : ev = Evicted
  OBVIOUS
<1>2. PICK fr : fr = [q \in ev \cup {r} |-> IF q = r THEN Output(0, to) ELSE End]
  OBVIOUS
<1>3. PICK b : b = [start |-> Held(0, to), end |-> to, owner |-> s]
  OBVIOUS
<1>4. buf' = [q \in (DOMAIN buf \ ev) \cup {r} |-> IF q = r THEN b ELSE buf[q]]
  BY <1>1, <1>3 DEF Create
<1>5. Fan(fr)
  BY <1>1, <1>2 DEF Create
<1>6. r \notin DOMAIN buf /\ fed' = [fed EXCEPT ![r] = s] /\ UNCHANGED <<view, over, hasty>>
  BY DEF Create
<1>7. fed' \in [Refs -> Socks] /\ fed'[r] = s /\ \A q \in Refs \ {r} : fed'[q] = fed[q]
  BY <1>6 DEF StreamInv, StreamTypes
<1>8. b.start \in Nat /\ b.end = to /\ b.start < b.end /\ b.end - b.start <= MaxBytes /\ b.owner = s
  BY <1>3, HeldFits
<1>9. DOMAIN buf' = (DOMAIN buf \ ev) \cup {r} /\ buf'[r] = b
      /\ \A q \in DOMAIN buf' : q # r => buf'[q] = buf[q] /\ q \in DOMAIN buf
  BY <1>4
<1>10. BuffersOK'
  <2>1. DOMAIN buf' \subseteq Refs
    BY <1>9 DEF StreamInv, BuffersOK
  <2>2. ASSUME NEW q \in DOMAIN buf'
        PROVE  /\ buf'[q].start \in Nat /\ buf'[q].end \in Nat /\ buf'[q].start < buf'[q].end
               /\ buf'[q].end - buf'[q].start <= MaxBytes /\ buf'[q].owner = fed'[q]
    <3>1. CASE q = r
      BY <1>7, <1>8, <1>9, <3>1
    <3>2. CASE q # r
      <4>1. buf'[q] = buf[q] /\ q \in DOMAIN buf /\ q \in Refs
        BY <1>9, <2>1, <3>2
      <4> QED
        BY <1>7, <3>2, <4>1 DEF StreamInv, BuffersOK
    <3> QED
      BY <3>1, <3>2
  <2> QED
    BY <2>1, <2>2 DEF BuffersOK
<1>11. DOMAIN fr = ev \cup {r} /\ fr[r] = Output(0, to) /\ \A q \in ev : q # r => fr[q] = End
  BY <1>2
<1>12. ASSUME NEW q \in Refs PROVE Tells(fr, q) /\ (q \in DOMAIN fr => fr[q] \in Slots)
  <2>1. CASE q = r
    <3>1. q \in DOMAIN fr /\ q \in DOMAIN buf' /\ buf'[q].end = to /\ fr[q] = Output(0, to) /\ q \notin DOMAIN buf
      BY <1>6, <1>8, <1>9, <1>11, <2>1
    <3>2. 0 \in Nat /\ Output(0, to) \in Slots
      BY FramesAre
    <3> QED
      BY <3>1, <3>2 DEF Tells
  <2>2. CASE q # r /\ q \in ev
    BY <1>9, <1>11, <2>2, FramesAre DEF Tells
  <2>3. CASE q # r /\ q \notin ev
    <3>1. q \notin DOMAIN fr /\ (q \in DOMAIN buf' <=> q \in DOMAIN buf)
      BY <1>9, <1>11, <2>3
    <3>2. q \in DOMAIN buf => buf'[q].end = buf[q].end
      BY <1>9, <2>3, <3>1
    <3> QED
      BY <3>1, <3>2 DEF Tells
  <2> QED
    BY <2>1, <2>2, <2>3
<1> QED
  BY <1>5, <1>6, <1>7, <1>10, <1>12, FanKeeps

\* append, of one that is.
LEMMA ExtendKeeps ==
  ASSUME StreamInv, NEW s \in Socks, NEW r \in Refs, NEW from \in Nat, NEW to \in Nat, Extend(s, r, from, to)
  PROVE  StreamInv'
<1>1. r \in DOMAIN buf /\ buf[r].end < to /\ fed' = [fed EXCEPT ![r] = s] /\ UNCHANGED <<view, over, hasty>>
  BY DEF Extend
<1>2. BuffersOK /\ fed \in [Refs -> Socks]
  BY DEF StreamInv, StreamTypes
<1>3. buf[r].start \in Nat /\ buf[r].end \in Nat /\ buf[r].start < buf[r].end
  BY <1>1, <1>2 DEF BuffersOK
<1>4. PICK b : b = [start |-> Held(buf[r].start, to), end |-> to, owner |-> s]
  OBVIOUS
<1>5. PICK fr : fr = [q \in {r} |-> Output(buf[r].end, to)]
  OBVIOUS
<1>6. buf' = [buf EXCEPT ![r] = b]
  BY <1>4, <1>1 DEF Extend, Owner
<1>7. Fan(fr)
  BY <1>5 DEF Extend
<1>8. buf[r].start < to
  BY <1>1, <1>3
<1>9. b.start \in Nat /\ b.end = to /\ b.start < b.end /\ b.end - b.start <= MaxBytes /\ b.owner = s
  BY <1>3, <1>4, <1>8, HeldFits
<1>10. DOMAIN buf' = DOMAIN buf /\ buf'[r] = b /\ \A q \in DOMAIN buf : q # r => buf'[q] = buf[q]
  BY <1>1, <1>6
<1>11. fed' \in [Refs -> Socks] /\ fed'[r] = s /\ \A q \in Refs \ {r} : fed'[q] = fed[q]
  BY <1>1, <1>2
<1>12. BuffersOK'
  BY <1>2, <1>9, <1>10, <1>11 DEF BuffersOK
<1>13. ASSUME NEW q \in Refs PROVE Tells(fr, q) /\ (q \in DOMAIN fr => fr[q] \in Slots)
  <2>1. CASE q = r
    <3>1. q \in DOMAIN fr /\ q \in DOMAIN buf' /\ buf'[q].end = to /\ fr[q] = Output(buf[q].end, to) /\ q \in DOMAIN buf
      BY <1>1, <1>5, <1>9, <1>10, <2>1
    <3>2. buf[q].end \in Nat /\ buf[q].end < to
      BY <1>1, <1>3, <2>1
    <3>3. Output(buf[q].end, to) \in Slots
      BY <3>2, FramesAre
    <3> QED
      BY <3>1, <3>2, <3>3 DEF Tells
  <2>2. CASE q # r
    <3>1. q \notin DOMAIN fr /\ (q \in DOMAIN buf' <=> q \in DOMAIN buf) /\ (q \in DOMAIN buf => buf'[q].end = buf[q].end)
      BY <1>5, <1>10, <2>2
    <3> QED
      BY <3>1 DEF Tells
  <2> QED
    BY <2>1, <2>2
<1> QED
  BY <1>1, <1>7, <1>11, <1>12, <1>13, FanKeeps

\* Buffers that go without a durable event: their watchers are told.
LEMMA FreeKeeps ==
  ASSUME StreamInv, NEW refs, Free(refs), UNCHANGED <<view, over, fed, hasty>>
  PROVE  StreamInv'
<1>1. PICK fr : fr = [r \in refs |-> End]
  OBVIOUS
<1>2. Fan(fr) /\ buf' = [r \in DOMAIN buf \ refs |-> buf[r]]
  BY <1>1 DEF Free, Ends, Without
<1>3. DOMAIN buf' = DOMAIN buf \ refs /\ \A r \in DOMAIN buf' : buf'[r] = buf[r]
  BY <1>2
<1>4. BuffersOK'
  BY <1>3 DEF StreamInv, BuffersOK
<1>5. ASSUME NEW q \in Refs PROVE Tells(fr, q) /\ (q \in DOMAIN fr => fr[q] \in Slots)
  <2>1. CASE q \in refs
    BY <1>1, <1>3, <2>1, FramesAre DEF Tells
  <2>2. CASE q \notin refs
    BY <1>1, <1>3, <2>2 DEF Tells
  <2> QED
    BY <2>1, <2>2
<1>6. fed' \in [Refs -> Socks]
  BY DEF StreamInv, StreamTypes
<1> QED
  BY <1>2, <1>4, <1>5, <1>6, FanKeeps

\* The durable event: every app has it, and whatever still waits is nothing to it.
LEMMA FinalizeKeeps ==
  ASSUME StreamInv, NEW s \in Socks, NEW r \in Refs, Finalize(s, r)
  PROVE  StreamInv'
<1>1. over' = [a \in Apps |-> [over[a] EXCEPT ![r] = Screen("retired")]] /\ buf' = [q \in DOMAIN buf \ {r} |-> buf[q]]
      /\ UNCHANGED <<view, slot, timer, fed, hasty>>
  BY DEF Finalize, Without
<1>2. DOMAIN buf' = DOMAIN buf \ {r} /\ \A q \in DOMAIN buf' : buf'[q] = buf[q]
  BY <1>1
<1>3. BuffersOK'
  BY <1>1, <1>2 DEF StreamInv, BuffersOK
<1>4. over \in [Apps -> [Refs -> Overlay]] /\ slot \in [Apps -> [Refs -> Slots]] /\ view \subseteq Apps
  BY DEF StreamInv, StreamTypes
<1>5. Screen("retired") \in Overlay /\ Screen("retired").state = "retired"
  BY DEF Screen, Overlay
<1>6. \A a \in Apps, q \in Refs : over'[a][q] = IF q = r THEN Screen("retired") ELSE over[a][q]
  BY <1>1, <1>4
<1>7. \A a \in Apps : [over[a] EXCEPT ![r] = Screen("retired")] \in [Refs -> Overlay]
  BY <1>4, <1>5
<1>8. StreamTypes'
  BY <1>1, <1>7 DEF StreamInv, StreamTypes
<1>9. Unwatched'
  BY <1>1, <1>5, <1>6 DEF StreamInv, Unwatched
<1>10. ASSUME NEW a \in view \ hasty, NEW q \in Refs PROVE InStep(a, q)'
  <2>1. InStep(a, q) /\ a \in Apps /\ slot'[a][q] = slot[a][q] /\ slot[a][q] \in Slots
    BY <1>1, <1>4 DEF StreamInv
  <2>2. CASE q = r
    <3>1. over'[a][q] = Screen("retired") /\ q \notin DOMAIN buf'
      BY <1>2, <1>6, <2>1, <2>2
    <3>2. Final(a, q)' = Screen("retired")
      BY <1>5, <2>1, <3>1, ShownIs DEF Final
    <3> QED
      BY <1>5, <3>1, <3>2 DEF InStep
  <2>3. CASE q # r
    <3>1. over'[a][q] = over[a][q] /\ (q \in DOMAIN buf' <=> q \in DOMAIN buf) /\ (q \in DOMAIN buf => buf'[q] = buf[q])
      BY <1>2, <1>6, <2>1, <2>3
    <3> QED
      BY <2>1, <3>1 DEF InStep, Final
  <2> QED
    BY <2>2, <2>3
<1> QED
  BY <1>1, <1>3, <1>8, <1>9, <1>10 DEF StreamInv

\* A step of one app: the others and the buffers are as they were.
LEMMA AppKeeps ==
  ASSUME StreamInv, NEW a \in Apps, UNCHANGED <<buf, fed>>, StreamTypes',
         \A b \in Apps \ {a} : /\ slot'[b] = slot[b] /\ over'[b] = over[b] /\ (b \in timer' <=> b \in timer)
                               /\ (b \in view' <=> b \in view) /\ (b \in hasty' <=> b \in hasty),
         a \notin timer' => \A r \in Refs : slot'[a][r] = Nothing,
         a \notin view' => \A r \in Refs : over'[a][r].state \in {"none", "retired"},
         a \in view' \ hasty' => \A r \in Refs : InStep(a, r)'
  PROVE  StreamInv'
<1>1. BuffersOK'
  BY DEF StreamInv, BuffersOK
<1>2. Unwatched'
  BY DEF StreamInv, Unwatched
<1>3. ASSUME NEW b \in view' \ hasty', NEW r \in Refs PROVE InStep(b, r)'
  <2>1. CASE b = a
    BY <2>1
  <2>2. CASE b # a
    <3>1. b \in Apps
      BY DEF StreamTypes
    <3>2. b \in view \ hasty /\ slot'[b] = slot[b] /\ over'[b] = over[b]
      BY <2>2, <3>1
    <3>3. InStep(b, r)
      BY <3>2 DEF StreamInv
    <3> QED
      BY <3>2, <3>3 DEF InStep, Final
  <2> QED
    BY <2>1, <2>2
<1> QED
  BY <1>1, <1>2, <1>3 DEF StreamInv

\* The catch-up of `viewing`: an app is shown every buffer in full.
LEMMA SyncedIs ==
  ASSUME StreamInv, NEW a \in Apps
  PROVE  /\ Synced(a) \in [Refs -> Overlay]
         /\ \A r \in Refs : /\ r \in DOMAIN buf /\ over[a][r].state # "retired" =>
                                 Synced(a)[r].state = "live" /\ Synced(a)[r].to = buf[r].end
                            /\ ~(r \in DOMAIN buf /\ over[a][r].state # "retired") => Synced(a)[r] = over[a][r]
<1>1. over[a] \in [Refs -> Overlay] /\ \A r \in DOMAIN buf : buf[r].start \in Nat /\ buf[r].end \in Nat
  BY DEF StreamInv, StreamTypes, BuffersOK
<1>2. \A from, to \in Nat : Running(from, to) \in Overlay /\ Running(from, to).state = "live" /\ Running(from, to).to = to
  BY DEF Running, Overlay
<1>3. \A r \in Refs : (IF r \in DOMAIN buf /\ over[a][r].state # "retired"
                       THEN Running(buf[r].start, buf[r].end) ELSE over[a][r]) \in Overlay
  BY <1>1, <1>2
<1>4. Synced(a) = [r \in Refs |-> IF r \in DOMAIN buf /\ over[a][r].state # "retired"
                                  THEN Running(buf[r].start, buf[r].end) ELSE over[a][r]]
  BY DEF Synced
<1>5. Synced(a) \in [Refs -> Overlay]
  BY <1>3, <1>4
<1> QED
  BY <1>1, <1>2, <1>4, <1>5

\* An app whose slots are empty will show what it shows.
LEMMA RestingInStep ==
  ASSUME NEW a, NEW r, over'[a][r] \in Overlay, slot'[a][r] = Nothing, over'[a][r].state # "lost",
         r \in DOMAIN buf' /\ over'[a][r].state # "retired" => over'[a][r].state = "live" /\ over'[a][r].to >= buf'[r].end,
         r \notin DOMAIN buf' => over'[a][r].state # "live"
  PROVE  InStep(a, r)'
<1>1. Final(a, r)' = over'[a][r]
  BY ShownIs, FramesAre DEF Final
<1>2. slot'[a][r].event = "none"
  BY FramesAre
<1> QED
  BY <1>1, <1>2 DEF InStep

LEMMA ViewKeeps == ASSUME StreamInv, NEW a \in Apps, View(a) PROVE StreamInv'
<1>1. /\ a \notin view /\ view' = view \cup {a} /\ over' = [over EXCEPT ![a] = Synced(a)]
      /\ hasty' = (IF a \in timer THEN hasty \cup {a} ELSE hasty \ {a})
      /\ UNCHANGED <<buf, slot, timer, fed>>
  BY DEF View
<1>2. Synced(a) \in [Refs -> Overlay]
  BY SyncedIs
<1>3. over \in [Apps -> [Refs -> Overlay]]
  BY DEF StreamInv, StreamTypes
<1>4. over' \in [Apps -> [Refs -> Overlay]] /\ over'[a] = Synced(a) /\ \A b \in Apps \ {a} : over'[b] = over[b]
  BY <1>1, <1>2, <1>3
<1>5. StreamTypes'
  BY <1>1, <1>4 DEF StreamInv, StreamTypes
<1>6. a \notin timer' => \A r \in Refs : slot'[a][r] = Nothing
  BY <1>1 DEF StreamInv, Unwatched
<1>7. ASSUME a \in view' \ hasty', NEW r \in Refs PROVE InStep(a, r)'
  <2>1. slot'[a][r] = Nothing
    BY <1>1, <1>6, <1>7
  <2>2. over[a][r].state \in {"none", "retired"}
    BY <1>1 DEF StreamInv, Unwatched
  <2>3. over'[a][r] = Synced(a)[r] /\ over'[a][r] \in Overlay
    BY <1>2, <1>4
  <2>4. r \in DOMAIN buf => buf[r].end \in Nat
    BY DEF StreamInv, BuffersOK
  <2>5. /\ r \in DOMAIN buf /\ over[a][r].state # "retired" => Synced(a)[r].state = "live" /\ Synced(a)[r].to = buf[r].end
        /\ ~(r \in DOMAIN buf /\ over[a][r].state # "retired") => Synced(a)[r] = over[a][r]
    BY SyncedIs
  <2>6. over'[a][r].state # "lost"
    BY <2>2, <2>3, <2>5
  <2>7. r \in DOMAIN buf' /\ over'[a][r].state # "retired" => over'[a][r].state = "live" /\ over'[a][r].to >= buf'[r].end
    BY <1>1, <2>2, <2>3, <2>4, <2>5
  <2>8. r \notin DOMAIN buf' => over'[a][r].state # "live"
    BY <1>1, <2>2, <2>3, <2>5
  <2> QED
    BY <2>1, <2>3, <2>6, <2>7, <2>8, RestingInStep
<1> QED
  BY <1>1, <1>4, <1>5, <1>6, <1>7, AppKeeps

\* An app that stays in step has nothing to ask for.
LEMMA ResyncKeeps == ASSUME StreamInv, NEW a \in Apps, Resync(a) PROVE StreamInv'
<1>1. a \in view /\ over' = [over EXCEPT ![a] = Synced(a)] /\ UNCHANGED <<buf, view, slot, timer, fed, hasty>>
  BY DEF Resync
<1>2. Synced(a) \in [Refs -> Overlay]
  BY SyncedIs
<1>3. over \in [Apps -> [Refs -> Overlay]]
  BY DEF StreamInv, StreamTypes
<1>4. over' \in [Apps -> [Refs -> Overlay]] /\ \A b \in Apps \ {a} : over'[b] = over[b]
  BY <1>1, <1>2, <1>3
<1>5. StreamTypes'
  BY <1>1, <1>4 DEF StreamInv, StreamTypes
<1>6. a \notin view \ hasty
  BY DEF Resync, StreamInv, InStep
<1>7. a \notin timer => \A r \in Refs : slot[a][r] = Nothing
  BY DEF StreamInv, Unwatched
<1> QED
  BY <1>1, <1>4, <1>5, <1>6, <1>7, AppKeeps

LEMMA DroppedIs ==
  ASSUME StreamInv, NEW a \in Apps
  PROVE  Dropped(a) \in [Refs -> Overlay] /\ \A r \in Refs : Dropped(a)[r].state \in {"none", "retired"}
<1>1. over[a] \in [Refs -> Overlay] /\ Screen("none") \in Overlay /\ Screen("none").state = "none"
  BY DEF StreamInv, StreamTypes, Screen, Overlay
<1>2. Dropped(a) = [r \in Refs |-> IF over[a][r].state = "retired" THEN over[a][r] ELSE Screen("none")]
  BY DEF Dropped
<1> QED
  BY <1>1, <1>2

LEMMA AwayKeeps == ASSUME StreamInv, NEW a \in Apps, Leave(a) \/ Reconnect(a) PROVE StreamInv'
<1>1. /\ view' = view \ {a} /\ over' = [over EXCEPT ![a] = Dropped(a)] /\ UNCHANGED <<buf, fed, hasty>>
      /\ \/ UNCHANGED <<slot, timer>>
         \/ slot' = [slot EXCEPT ![a] = [r \in Refs |-> Nothing]] /\ timer' = timer \ {a}
  BY DEF Leave, Reconnect
<1>2. over \in [Apps -> [Refs -> Overlay]] /\ slot \in [Apps -> [Refs -> Slots]]
  BY DEF StreamInv, StreamTypes
<1>3. Dropped(a) \in [Refs -> Overlay] /\ \A r \in Refs : Dropped(a)[r].state \in {"none", "retired"}
  BY DroppedIs
<1>4. over' \in [Apps -> [Refs -> Overlay]] /\ over'[a] = Dropped(a) /\ \A b \in Apps \ {a} : over'[b] = over[b]
  BY <1>1, <1>2, <1>3
<1>5. [r \in Refs |-> Nothing] \in [Refs -> Slots]
  BY FramesAre
<1>6. slot' \in [Apps -> [Refs -> Slots]] /\ \A b \in Apps \ {a} : slot'[b] = slot[b]
  BY <1>1, <1>2, <1>5
<1>7. a \notin timer' => \A r \in Refs : slot'[a][r] = Nothing
  BY <1>1, <1>2 DEF StreamInv, Unwatched
<1>8. \A b \in Apps \ {a} : b \in timer' <=> b \in timer
  BY <1>1
<1>9. StreamTypes'
  BY <1>1, <1>4, <1>6 DEF StreamInv, StreamTypes
<1> QED
  BY <1>1, <1>3, <1>4, <1>6, <1>7, <1>8, <1>9, AppKeeps

\* The timer fires: what was to be shown is.
LEMMA FlushKeeps == ASSUME StreamInv, NEW a \in Apps, Flush(a) PROVE StreamInv'
<1>1. /\ slot' = [slot EXCEPT ![a] = [r \in Refs |-> Nothing]] /\ timer' = timer \ {a}
      /\ UNCHANGED <<buf, view, fed, hasty>>
  BY DEF Flush
<1>2. over \in [Apps -> [Refs -> Overlay]] /\ slot \in [Apps -> [Refs -> Slots]]
  BY DEF StreamInv, StreamTypes
<1>3. [r \in Refs |-> Nothing] \in [Refs -> Slots]
  BY FramesAre
<1>4. slot' \in [Apps -> [Refs -> Slots]] /\ (\A b \in Apps \ {a} : slot'[b] = slot[b]) /\ (\A r \in Refs : slot'[a][r] = Nothing)
  BY <1>1, <1>2, <1>3
<1>5. \A b \in Apps \ {a} : b \in timer' <=> b \in timer
  BY <1>1
<1>6. CASE a \notin view
  <2>1. over' = over
    BY <1>6 DEF Flush
  <2>2. StreamTypes'
    BY <1>1, <1>4, <2>1 DEF StreamInv, StreamTypes
  <2>3. \A r \in Refs : over'[a][r].state \in {"none", "retired"}
    BY <1>6, <2>1 DEF StreamInv, Unwatched
  <2> QED
    BY <1>1, <1>4, <1>5, <1>6, <2>1, <2>2, <2>3, AppKeeps
<1>7. CASE a \in view
  <2>1. over' = [over EXCEPT ![a] = [r \in Refs |-> Shown(over[a][r], slot[a][r])]]
    BY <1>7 DEF Flush
  <2>2. \A r \in Refs : Shown(over[a][r], slot[a][r]) \in Overlay
    BY <1>2, ShownIs
  <2>3. [r \in Refs |-> Shown(over[a][r], slot[a][r])] \in [Refs -> Overlay]
    BY <2>2
  <2>4. over' \in [Apps -> [Refs -> Overlay]] /\ (\A b \in Apps \ {a} : over'[b] = over[b])
        /\ \A r \in Refs : over'[a][r] = Final(a, r)
    BY <1>2, <2>1, <2>3 DEF Final
  <2>5. StreamTypes'
    BY <1>1, <1>4, <2>4 DEF StreamInv, StreamTypes
  <2>6. ASSUME a \in view' \ hasty', NEW r \in Refs PROVE InStep(a, r)'
    <3>1. InStep(a, r) /\ over'[a][r] = Final(a, r) /\ over'[a][r] \in Overlay /\ slot'[a][r] = Nothing
      BY <1>1, <1>4, <2>4, <2>6 DEF StreamInv
    <3>2. over[a][r].state = "retired" => Final(a, r).state = "retired"
      BY <1>2, ShownIs DEF Final
    <3>3. r \in DOMAIN buf /\ over[a][r].state # "retired" => Final(a, r).state = "live" /\ Final(a, r).to >= buf[r].end
      BY <3>1 DEF InStep
    <3>4. r \in DOMAIN buf' /\ over'[a][r].state # "retired" => over'[a][r].state = "live" /\ over'[a][r].to >= buf'[r].end
      BY <1>1, <3>1, <3>2, <3>3
    <3>5. over'[a][r].state # "lost" /\ (r \notin DOMAIN buf' => over'[a][r].state # "live")
      BY <1>1, <3>1 DEF InStep
    <3> QED
      BY <3>1, <3>4, <3>5, RestingInStep
  <2> QED
    BY <1>1, <1>4, <1>5, <1>7, <2>4, <2>5, <2>6, AppKeeps
<1> QED
  BY <1>6, <1>7

LEMMA SocketKeeps == ASSUME StreamInv, NEW s \in Socks, Connect(s) \/ Close(s) PROVE StreamInv'
<1>1. CASE Connect(s)
  <2>1. UNCHANGED <<buf, view, slot, timer, over, fed, hasty>>
    BY <1>1 DEF Connect
  <2> QED
    BY <2>1 DEF StreamInv, BuffersOK, StreamTypes, Unwatched, InStep, Final
<1>2. CASE Close(s)
  BY <1>2, FreeKeeps DEF Close
<1> QED
  BY <1>1, <1>2

LEMMA StreamsGoOn == StreamInv /\ [StreamNext]_streamVars => StreamInv'
<1> SUFFICES ASSUME StreamInv, [StreamNext]_streamVars PROVE StreamInv'
  OBVIOUS
<1>1. CASE \E s \in Socks : Connect(s) \/ Close(s)
  BY <1>1, SocketKeeps
<1>2. CASE \E s \in Socks : \E r \in Refs : Finalize(s, r)
  BY <1>2, FinalizeKeeps
<1>3. CASE \E s \in Socks : \E r \in Refs : \E from \in 0 .. MaxLen - 1 : \E to \in from + 1 .. MaxLen :
             StreamAppend(s, r, from, to)
  <2>1. PICK s \in Socks, r \in Refs, from \in 0 .. MaxLen - 1 :
          \E to \in from + 1 .. MaxLen : StreamAppend(s, r, from, to)
    BY <1>3
  <2>2. PICK to \in from + 1 .. MaxLen : StreamAppend(s, r, from, to)
    BY <2>1
  <2>3. from \in Nat /\ to \in Nat /\ 0 < to
    BY ToolStreamAssumption
  <2> QED
    BY <2>2, <2>3, CreateKeeps, ExtendKeeps DEF StreamAppend
<1>4. CASE SweepIdle
  BY <1>4, FreeKeeps DEF SweepIdle
<1>5. CASE \E a \in Apps : View(a) \/ Resync(a) \/ Leave(a) \/ Reconnect(a) \/ Flush(a)
  BY <1>5, ViewKeeps, ResyncKeeps, AwayKeeps, FlushKeeps
<1>6. CASE UNCHANGED streamVars
  BY <1>6 DEF streamVars, StreamInv, BuffersOK, StreamTypes, Unwatched, InStep, Final
<1> QED
  BY <1>1, <1>2, <1>3, <1>4, <1>5, <1>6 DEF StreamNext

LEMMA StreamsStart == StreamInit => StreamInv
<1> SUFFICES ASSUME StreamInit PROVE StreamInv
  OBVIOUS
<1>1. buf = <<>> /\ DOMAIN <<>> = {}
  BY DEF StreamInit
<1>2. BuffersOK
  BY <1>1 DEF BuffersOK
<1>3. Screen("none") \in Overlay /\ Screen("none").state = "none"
  BY DEF Screen, Overlay
<1>4. StreamTypes /\ Unwatched
  BY <1>3, FramesAre DEF StreamInit, StreamTypes, Unwatched
<1> QED
  BY <1>2, <1>4 DEF StreamInit, StreamInv

\* While an app watches, it holds or is about to get the output of every
\* command that is buffered, up to its end and without a hole, and nothing of
\* one that is not, wherever chunks were joined or trimmed, overlapped or made
\* room for each other (tool-stream.js append, hub.js mergeEphemeral).
THEOREM WatchersMissNothing == StreamSpec => [](WatcherHasItAll /\ NoTerminalOutlives)
BY StreamsStart, StreamsGoOn, StreamSays, PTL DEF StreamSpec

\* A socket that closes takes the streams it was feeding and no others
\* (closeForProducer).
THEOREM ClosingTakesItsOwn == StreamSpec => CloseTakesItsOwn
<1>1. StreamInv /\ [StreamNext]_streamVars =>
        [\A s \in open \ open' : \A r \in DOMAIN buf : r \in DOMAIN buf' <=> fed[r] # s]_streamVars
  <2> SUFFICES ASSUME StreamInv, StreamNext, NEW s \in open \ open', NEW r \in DOMAIN buf
               PROVE  r \in DOMAIN buf' <=> fed[r] # s
    OBVIOUS
  <2>1. PICK t \in Socks : Close(t)
    <3>1. (\E a \in Apps : View(a) \/ Resync(a) \/ Leave(a) \/ Reconnect(a) \/ Flush(a)) => open' = open
      BY DEF View, Resync, Leave, Reconnect, Flush
    <3>2. SweepIdle => open' = open
      BY DEF SweepIdle
    <3>3. \A t \in Socks, q \in Refs : Finalize(t, q) => open' = open
      BY DEF Finalize
    <3>4. \A t \in Socks, q \in Refs : \A from, to : StreamAppend(t, q, from, to) => open' = open
      BY DEF StreamAppend, Create, Extend
    <3>5. \A t \in Socks : Connect(t) => open \subseteq open'
      BY DEF Connect
    <3> QED
      BY <3>1, <3>2, <3>3, <3>4, <3>5 DEF StreamNext
  <2>2. s = t /\ buf' = [q \in DOMAIN buf \ {q \in DOMAIN buf : buf[q].owner = t} |-> buf[q]]
    BY <2>1 DEF Close, Free, Without
  <2>3. buf[r].owner = fed[r]
    BY DEF StreamInv, BuffersOK
  <2> QED
    BY <2>2, <2>3
<1> QED
  BY <1>1, StreamsStart, StreamsGoOn, PTL DEF StreamSpec, CloseTakesItsOwn

-----------------------------------------------------------------------------
(* ToolStream: the order in which the buffers idle.                        *)

\* A function defined along 1 .. N has a value at each: there is one.
Folds(f, base, step, k) == f[0] = base /\ \A i \in 1 .. k : f[i] = step[<<f[i - 1], i>>]
LEMMA FoldExists ==
  ASSUME NEW N \in Nat, NEW X, NEW base \in X, NEW step \in [X \X (1 .. N) -> X]
  PROVE  \E f \in [0 .. N -> X] : Folds(f, base, step, N)
<1> DEFINE Along(f, k) == Folds(f, base, step, k)
           D == {k \in 0 .. N : ~\E f \in [0 .. k -> X] : Along(f, k)}
<1> USE DEF Folds
<1>1. SUFFICES ASSUME ~\E f \in [0 .. N -> X] : Along(f, N) PROVE FALSE
  OBVIOUS
<1>2. PICK k \in D : \A j \in D : k <= j
  <2>1. N \in D /\ D \in SUBSET Nat
    BY <1>1
  <2> HIDE DEF D
  <2> QED
    BY <2>1, LeastNatural
<1>3. CASE k = 0
  <2>1. [i \in 0 .. 0 |-> base] \in [0 .. 0 -> X] /\ Along([i \in 0 .. 0 |-> base], 0)
    OBVIOUS
  <2> QED
    BY <1>2, <1>3, <2>1
<1>4. CASE k # 0
  <2>1. k \in 1 .. N /\ k - 1 \in 0 .. N /\ k - 1 \notin D
    BY <1>2, <1>4
  <2>2. PICK g \in [0 .. (k - 1) -> X] : Along(g, k - 1)
    BY <2>1
  <2> DEFINE f == [i \in 0 .. k |-> IF i < k THEN g[i] ELSE step[<<g[k - 1], k>>]]
  <2>3. step[<<g[k - 1], k>>] \in X
    BY <2>1, <2>2
  <2>4. f \in [0 .. k -> X]
    BY <2>1, <2>3
  <2>5. \A i \in 0 .. (k - 1) : f[i] = g[i]
    BY <2>1
  <2>6. f[k] = step[<<g[k - 1], k>>] /\ f[k - 1] = g[k - 1]
    BY <2>1
  <2> HIDE DEF f
  <2>7. Along(f, k)
    BY <2>1, <2>2, <2>5, <2>6
  <2> QED
    BY <1>2, <2>4, <2>7
<1> QED
  BY <1>3, <1>4

\* What the first k of a sequence leave without some of it.
LeftOf(left, seq, refs, k) ==
  /\ \A x \in Refs : x \in ToSet(left) <=> x \notin refs /\ \E i \in 1 .. k : seq[i] = x
  /\ Len(left) <= k
  /\ (\E i \in 1 .. k : seq[i] \in refs) => Len(left) < k
  /\ \A n \in 1 .. k : (\A i \in 1 .. n : seq[i] \in refs) => Len(left) <= k - n

LEMMA SetOfSequence ==
  ASSUME NEW s \in Seq(Refs), NEW x \in Refs
  PROVE  /\ ToSet(s) \in SUBSET Refs /\ ToSet(<<>>) = {}
         /\ Append(s, x) \in Seq(Refs) /\ Len(Append(s, x)) = Len(s) + 1
         /\ ToSet(Append(s, x)) = ToSet(s) \cup {x}
<1>1. ToSet(s) \in SUBSET Refs /\ ToSet(<<>>) = {}
  BY DEF ToSet
<1>2. Append(s, x) \in Seq(Refs) /\ Len(Append(s, x)) = Len(s) + 1
  OBVIOUS
<1>3. /\ \A i \in 1 .. Len(s) : Append(s, x)[i] = s[i]
      /\ Append(s, x)[Len(s) + 1] = x
  OBVIOUS
<1>4. DOMAIN Append(s, x) = 1 .. Len(s) + 1 /\ DOMAIN s = 1 .. Len(s) /\ Len(s) \in Nat
  BY <1>2
<1>5. ToSet(Append(s, x)) = ToSet(s) \cup {x}
  BY <1>3, <1>4 DEF ToSet
<1> QED
  BY <1>1, <1>2, <1>5

LEMMA LeftStep ==
  ASSUME NEW seq \in Seq(Refs), NEW refs, NEW k \in 1 .. Len(seq), NEW left \in Seq(Refs),
         LeftOf(left, seq, refs, k - 1)
  PROVE  LeftOf(IF seq[k] \in refs THEN left ELSE Append(left, seq[k]), seq, refs, k)
<1>1. /\ k \in Nat /\ k - 1 \in Nat /\ seq[k] \in Refs
      /\ \A i \in 1 .. k : i = k \/ i \in 1 .. k - 1
      /\ \A i \in 1 .. k - 1 : i \in 1 .. k
      /\ Len(left) \in Nat /\ Len(left) <= k - 1
  BY DEF LeftOf
<1>2. \A x \in Refs : x \in ToSet(left) <=> x \notin refs /\ \E i \in 1 .. k - 1 : seq[i] = x
  BY DEF LeftOf
<1>3. (\E i \in 1 .. k - 1 : seq[i] \in refs) => Len(left) < k - 1
  BY DEF LeftOf
<1>4. \A n \in 1 .. k - 1 : (\A i \in 1 .. n : seq[i] \in refs) => Len(left) <= k - 1 - n
  BY DEF LeftOf
<1>5. CASE seq[k] \in refs
  <2>1. \A x \in Refs : x \in ToSet(left) <=> x \notin refs /\ \E i \in 1 .. k : seq[i] = x
    BY <1>1, <1>2, <1>5
  <2>2. ASSUME NEW n \in 1 .. k, \A i \in 1 .. n : seq[i] \in refs PROVE Len(left) <= k - n
    <3>1. CASE n = k
      <4>1. k # 1 => Len(left) <= k - 1 - (k - 1)
        <5>1. k # 1 => k - 1 \in 1 .. k - 1 /\ \A i \in 1 .. k - 1 : i \in 1 .. n
          BY <1>1, <3>1
        <5> QED
          BY <1>4, <2>2, <5>1
      <4> QED
        BY <1>1, <3>1, <4>1
    <3>2. CASE n # k
      <4>1. n \in 1 .. k - 1
        BY <1>1, <3>2
      <4>2. Len(left) <= k - 1 - n
        BY <1>4, <2>2, <4>1
      <4> QED
        BY <1>1, <4>1, <4>2
    <3> QED
      BY <3>1, <3>2
  <2> QED
    BY <1>1, <1>5, <2>1, <2>2 DEF LeftOf
<1>6. CASE seq[k] \notin refs
  <2>1. PICK more : more = Append(left, seq[k])
    OBVIOUS
  <2>2. more \in Seq(Refs) /\ Len(more) = Len(left) + 1 /\ ToSet(more) = ToSet(left) \cup {seq[k]}
    BY <1>1, <2>1, SetOfSequence
  <2>3. \A x \in Refs : x \in ToSet(more) <=> x \notin refs /\ \E i \in 1 .. k : seq[i] = x
    BY <1>1, <1>2, <1>6, <2>2
  <2>4. (\E i \in 1 .. k : seq[i] \in refs) => Len(more) < k
    BY <1>1, <1>3, <1>6, <2>2
  <2>5. ASSUME NEW n \in 1 .. k, \A i \in 1 .. n : seq[i] \in refs PROVE Len(more) <= k - n
    <3>1. n # k
      BY <1>6, <2>5
    <3>2. n \in 1 .. k - 1
      BY <1>1, <3>1
    <3>3. Len(left) <= k - 1 - n
      BY <1>4, <2>5, <3>2
    <3> QED
      BY <1>1, <2>2, <3>2, <3>3
  <2>6. LeftOf(more, seq, refs, k)
    BY <1>1, <2>2, <2>3, <2>4, <2>5 DEF LeftOf
  <2> QED
    BY <1>6, <2>1, <2>6
<1> QED
  BY <1>5, <1>6

LEMMA RemovedIs ==
  ASSUME NEW seq \in Seq(Refs), NEW refs
  PROVE  Removed(seq, refs) \in Seq(Refs) /\ LeftOf(Removed(seq, refs), seq, refs, Len(seq))
<1> DEFINE N == Len(seq)
           next(l, i) == IF seq[i] \in refs THEN l ELSE Append(l, seq[i])
           step == [p \in Seq(Refs) \X (1 .. N) |-> next(p[1], p[2])]
           Is(f) == f = [i \in 0 .. N |-> IF i = 0 THEN <<>>
                           ELSE IF seq[i] \in refs THEN f[i - 1] ELSE Append(f[i - 1], seq[i])]
<1>1. N \in Nat /\ <<>> \in Seq(Refs) /\ \A i \in 1 .. N : seq[i] \in Refs
  OBVIOUS
<1> HIDE DEF N
<1>2. \A l \in Seq(Refs), i \in 1 .. N : next(l, i) \in Seq(Refs)
  BY <1>1, SetOfSequence
<1>3. step \in [Seq(Refs) \X (1 .. N) -> Seq(Refs)]
  <2> HIDE DEF next
  <2> QED
    BY <1>2
<1>4. PICK g \in [0 .. N -> Seq(Refs)] : Folds(g, <<>>, step, N)
  <2> HIDE DEF step
  <2> QED
    BY <1>1, <1>3, FoldExists
<1>5. \A i \in 1 .. N : g[i] = next(g[i - 1], i)
  <2> HIDE DEF next
  <2> TAKE i \in 1 .. N
  <2>1. g[i - 1] \in Seq(Refs)
    BY <1>1
  <2> QED
    BY <1>4, <2>1 DEF Folds
<1>6. Is(g)
  <2>1. g[0] = <<>>
    BY <1>4 DEF Folds
  <2>2. \A i \in 0 .. N : i # 0 => i \in 1 .. N
    BY <1>1
  <2>3. \A i \in 0 .. N : g[i] = IF i = 0 THEN <<>>
                                ELSE IF seq[i] \in refs THEN g[i - 1] ELSE Append(g[i - 1], seq[i])
    BY <1>5, <2>1, <2>2
  <2> HIDE DEF step
  <2> QED
    BY <1>4, <2>3
<1>7. PICK s : Is(s) /\ Removed(seq, refs) = s[N]
  <2> DEFINE s == CHOOSE f : Is(f)
  <2>1. Is(s)
    BY <1>6
  <2>2. Removed(seq, refs) = s[N]
    BY DEF Removed, N
  <2> QED
    BY <2>1, <2>2
<1>8. s[0] = <<>> /\ \A i \in 1 .. N : s[i] = next(s[i - 1], i)
  <2>1. \A i \in 0 .. N : s[i] = IF i = 0 THEN <<>>
                                ELSE IF seq[i] \in refs THEN s[i - 1] ELSE Append(s[i - 1], seq[i])
    BY <1>7
  <2>2. 0 \in 0 .. N /\ \A i \in 1 .. N : i \in 0 .. N /\ i # 0
    BY <1>1
  <2> HIDE DEF Is
  <2> QED
    BY <2>1, <2>2
<1>9. LeftOf(<<>>, seq, refs, 0)
  <2>1. ToSet(<<>>) = {}
    BY DEF ToSet
  <2> QED
    BY <2>1 DEF LeftOf
<1>10. \A k \in 0 .. N : s[k] \in Seq(Refs) /\ LeftOf(s[k], seq, refs, k)
  <2> DEFINE D == {k \in 0 .. N : ~(s[k] \in Seq(Refs) /\ LeftOf(s[k], seq, refs, k))}
  <2>1. SUFFICES ASSUME D # {} PROVE FALSE
    OBVIOUS
  <2>2. PICK k \in D : \A j \in D : k <= j
    <3>1. D \in SUBSET Nat
      BY <1>1
    <3> HIDE DEF D
    <3> QED
      BY <2>1, <3>1, LeastNatural
  <2>3. k # 0
    BY <1>1, <1>8, <1>9, <2>2
  <2>4. k \in 1 .. N /\ k - 1 \in 0 .. N /\ ~(k <= k - 1)
    BY <1>1, <2>2, <2>3
  <2>5. s[k - 1] \in Seq(Refs) /\ LeftOf(s[k - 1], seq, refs, k - 1)
    BY <2>2, <2>4
  <2>6. s[k] = next(s[k - 1], k) /\ next(s[k - 1], k) \in Seq(Refs)
    BY <1>2, <1>8, <2>4, <2>5
  <2>7. LeftOf(s[k], seq, refs, k)
    BY <2>4, <2>5, <2>6, LeftStep DEF N
  <2> QED
    BY <2>2, <2>6, <2>7
<1>11. s[N] \in Seq(Refs) /\ LeftOf(s[N], seq, refs, N)
  BY <1>1, <1>10
<1> QED
  BY <1>7, <1>11 DEF N

\* Each buffered command is in the order, and the order is no longer than the
\* store may be.
OrderInv ==
  /\ order \in Seq(Refs) /\ ToSet(order) = DOMAIN buf /\ Len(order) <= MaxBuffers
  /\ \A r \in DOMAIN buf : buf[r] \in Buffer
  /\ open \subseteq Socks /\ hasty \subseteq Apps

LEMMA OrderWithout ==
  ASSUME OrderInv, NEW refs
  PROVE  /\ Removed(order, refs) \in Seq(Refs)
         /\ ToSet(Removed(order, refs)) = DOMAIN buf \ refs
         /\ Len(Removed(order, refs)) \in Nat /\ Len(Removed(order, refs)) <= MaxBuffers
         /\ refs \cap DOMAIN buf # {} => Len(Removed(order, refs)) < MaxBuffers
<1>1. order \in Seq(Refs) /\ Len(order) \in Nat /\ MaxBuffers \in Nat /\ Len(order) <= MaxBuffers
  BY ToolStreamAssumption DEF OrderInv
<1>2. Removed(order, refs) \in Seq(Refs) /\ LeftOf(Removed(order, refs), order, refs, Len(order))
  BY <1>1, RemovedIs
<1>3. PICK l : l = Removed(order, refs)
  OBVIOUS
<1>4. l \in Seq(Refs) /\ Len(l) \in Nat /\ LeftOf(l, order, refs, Len(order))
  BY <1>2, <1>3
<1>5. \A x : x \in DOMAIN buf <=> \E i \in 1 .. Len(order) : order[i] = x
  BY <1>1 DEF OrderInv, ToSet
<1>6. ToSet(l) \subseteq Refs
  BY <1>4 DEF ToSet
<1>7. DOMAIN buf \subseteq Refs
  BY <1>1, <1>5
<1>8. ToSet(l) = DOMAIN buf \ refs
  BY <1>4, <1>5, <1>6, <1>7 DEF LeftOf
<1>9. Len(l) <= Len(order)
  BY <1>4 DEF LeftOf
<1>10. refs \cap DOMAIN buf # {} => Len(l) < Len(order)
  BY <1>4, <1>5 DEF LeftOf
<1> QED
  BY <1>1, <1>3, <1>4, <1>8, <1>9, <1>10

\* Making room for one makes room for one.
LEMMA EvictionMakesRoom ==
  ASSUME OrderInv
  PROVE  Len(Removed(order, Evicted)) < MaxBuffers
<1>1. order \in Seq(Refs) /\ Len(order) \in Nat /\ MaxBuffers \in Nat /\ MaxBuffers > 0 /\ Len(order) <= MaxBuffers
  BY ToolStreamAssumption DEF OrderInv
<1>2. CASE Len(order) = MaxBuffers
  <2>1. Evicted = ToSet(SubSeq(order, 1, 1))
    BY <1>1, <1>2 DEF Evicted
  <2>2. /\ Len(SubSeq(order, 1, 1)) = 1 /\ SubSeq(order, 1, 1)[1] = order[1]
        /\ DOMAIN SubSeq(order, 1, 1) = 1 .. 1
    BY <1>1, <1>2
  <2>3. order[1] \in Evicted
    BY <2>1, <2>2 DEF ToSet
  <2>4. order[1] \in DOMAIN buf
    BY <1>1, <1>2 DEF OrderInv, ToSet
  <2>5. Evicted \cap DOMAIN buf # {}
    BY <2>3, <2>4
  <2> QED
    BY <2>5, OrderWithout
<1>3. CASE Len(order) < MaxBuffers
  <2>1. LeftOf(Removed(order, Evicted), order, Evicted, Len(order)) /\ Removed(order, Evicted) \in Seq(Refs)
    BY <1>1, RemovedIs
  <2>2. Len(Removed(order, Evicted)) <= Len(order) /\ Len(Removed(order, Evicted)) \in Nat
    BY <2>1 DEF LeftOf
  <2> QED
    BY <1>1, <1>3, <2>2
<1> QED
  BY <1>1, <1>2, <1>3

LEMMA OrderGoesOn == OrderInv /\ [StreamNext]_streamVars => OrderInv'
<1> SUFFICES ASSUME OrderInv, [StreamNext]_streamVars PROVE OrderInv'
  OBVIOUS
<1>1. ASSUME NEW refs, buf' = Without(buf, refs), order' = Removed(order, refs), open' \subseteq Socks, hasty' \subseteq Apps
      PROVE  OrderInv'
  <2>1. DOMAIN buf' = DOMAIN buf \ refs /\ \A r \in DOMAIN buf' : buf'[r] = buf[r]
    BY <1>1 DEF Without
  <2>2. \A r \in DOMAIN buf' : buf'[r] \in Buffer
    BY <2>1 DEF OrderInv
  <2>3. order' \in Seq(Refs) /\ ToSet(order') = DOMAIN buf \ refs /\ Len(order') <= MaxBuffers
    BY <1>1, OrderWithout
  <2>4. ToSet(order') = DOMAIN buf'
    BY <2>1, <2>3
  <2> QED
    BY <1>1, <2>2, <2>3, <2>4 DEF OrderInv
<1>2. ASSUME UNCHANGED <<buf, order>>, open' \subseteq Socks, hasty' \subseteq Apps PROVE OrderInv'
  BY <1>2 DEF OrderInv
<1>3. open \subseteq Socks /\ hasty \subseteq Apps
  BY DEF OrderInv
<1>4. ASSUME NEW s \in Socks, Connect(s) PROVE OrderInv'
  BY <1>2, <1>3, <1>4 DEF Connect
<1>5. ASSUME NEW s \in Socks, Close(s) PROVE OrderInv'
  <2>1. PICK refs : buf' = Without(buf, refs) /\ order' = Removed(order, refs)
    BY <1>5 DEF Close, Free
  <2>2. open' \subseteq Socks /\ hasty' \subseteq Apps
    BY <1>3, <1>5 DEF Close
  <2> QED
    BY <1>1, <2>1, <2>2
<1>6. ASSUME NEW s \in Socks, NEW r \in Refs, Finalize(s, r) PROVE OrderInv'
  <2>1. PICK refs : buf' = Without(buf, refs) /\ order' = Removed(order, refs)
    BY <1>6 DEF Finalize
  <2>2. open' \subseteq Socks /\ hasty' \subseteq Apps
    BY <1>3, <1>6 DEF Finalize
  <2> QED
    BY <1>1, <2>1, <2>2
<1>7. ASSUME SweepIdle PROVE OrderInv'
  <2>1. PICK refs : buf' = Without(buf, refs) /\ order' = Removed(order, refs)
    BY <1>7 DEF SweepIdle, Free
  <2>2. open' \subseteq Socks /\ hasty' \subseteq Apps
    BY <1>3, <1>7 DEF SweepIdle
  <2> QED
    BY <1>1, <2>1, <2>2
<1>8. ASSUME NEW a \in Apps, View(a) \/ Resync(a) \/ Leave(a) \/ Reconnect(a) \/ Flush(a) PROVE OrderInv'
  <2>1. UNCHANGED <<buf, order, open>> /\ hasty' \subseteq hasty \cup {a}
    BY <1>8 DEF View, Resync, Leave, Reconnect, Flush
  <2> QED
    BY <1>2, <1>3, <2>1
<1>9. ASSUME NEW l \in Seq(Refs), NEW r \in Refs, Len(l) < MaxBuffers, order' = Append(l, r),
             DOMAIN buf' = ToSet(l) \cup {r}, \A q \in DOMAIN buf' : buf'[q] \in Buffer, UNCHANGED <<open, hasty>>
      PROVE  OrderInv'
  <2>1. /\ order' \in Seq(Refs) /\ ToSet(order') = ToSet(l) \cup {r} /\ Len(order') = Len(l) + 1
    BY <1>9, SetOfSequence
  <2>2. Len(order') <= MaxBuffers
    BY <1>9, <2>1, ToolStreamAssumption
  <2>3. ToSet(order') = DOMAIN buf'
    BY <1>9, <2>1
  <2> QED
    BY <1>3, <1>9, <2>1, <2>2, <2>3 DEF OrderInv
<1>10. ASSUME NEW s \in Socks, NEW r \in Refs, NEW to \in Nat, 0 < to, Create(s, r, to) PROVE OrderInv'
  <2>1. PICK ev : ev = Evicted
    OBVIOUS
  <2>2. PICK b : b = [start |-> Held(0, to), end |-> to, owner |-> s]
    OBVIOUS
  <2>3. b \in Buffer
    BY <2>2, <1>10, HeldFits DEF Buffer
  <2>4. buf' = [q \in (DOMAIN buf \ ev) \cup {r} |-> IF q = r THEN b ELSE buf[q]]
    BY <1>10, <2>1, <2>2 DEF Create
  <2>5. DOMAIN buf' = (DOMAIN buf \ ev) \cup {r} /\ \A q \in DOMAIN buf' : buf'[q] \in Buffer
    BY <2>3, <2>4 DEF OrderInv
  <2>6. order' = Append(Removed(order, ev), r) /\ UNCHANGED <<open, hasty>>
    BY <1>10, <2>1 DEF Create
  <2>7. /\ Removed(order, ev) \in Seq(Refs) /\ ToSet(Removed(order, ev)) = DOMAIN buf \ ev
        /\ Len(Removed(order, ev)) < MaxBuffers
    BY <2>1, OrderWithout, EvictionMakesRoom
  <2> QED
    BY <1>9, <2>5, <2>6, <2>7
<1>11. ASSUME NEW s \in Socks, NEW r \in Refs, NEW from, NEW to \in Nat, Extend(s, r, from, to) PROVE OrderInv'
  <2>1. r \in DOMAIN buf /\ buf[r] \in Buffer /\ buf[r].end < to
    BY <1>11 DEF Extend, OrderInv
  <2>2. PICK b : b = [start |-> Held(buf[r].start, to), end |-> to, owner |-> s]
    OBVIOUS
  <2>3. buf[r].start \in Nat /\ Held(buf[r].start, to) \in Nat
    BY <2>1, ToolStreamAssumption DEF Buffer, Held
  <2>4. b \in Buffer
    BY <2>2, <2>3 DEF Buffer
  <2>5. buf' = [buf EXCEPT ![r] = b]
    BY <1>11, <2>2 DEF Extend, Owner
  <2>6. DOMAIN buf' = DOMAIN buf /\ \A q \in DOMAIN buf' : buf'[q] \in Buffer
    BY <2>4, <2>5 DEF OrderInv
  <2>7. order' = Append(Removed(order, {r}), r) /\ UNCHANGED <<open, hasty>>
    BY <1>11 DEF Extend
  <2>8. DOMAIN buf' = (DOMAIN buf \ {r}) \cup {r} /\ {r} \cap DOMAIN buf # {}
    BY <2>1, <2>6
  <2>9. /\ Removed(order, {r}) \in Seq(Refs) /\ ToSet(Removed(order, {r})) = DOMAIN buf \ {r}
        /\ Len(Removed(order, {r})) < MaxBuffers
    BY <2>8, OrderWithout
  <2> QED
    BY <1>9, <2>6, <2>7, <2>8, <2>9
<1>12. CASE UNCHANGED streamVars
  BY <1>2, <1>3, <1>12 DEF streamVars
<1>13. ASSUME NEW s \in Socks, NEW r \in Refs, NEW from \in 0 .. MaxLen - 1, NEW to \in from + 1 .. MaxLen, StreamAppend(s, r, from, to)
       PROVE  OrderInv'
  <2>1. to \in Nat /\ 0 < to
    BY ToolStreamAssumption
  <2> QED
    BY <1>10, <1>11, <1>13, <2>1 DEF StreamAppend
<1> QED
  BY <1>4, <1>5, <1>6, <1>7, <1>8, <1>12, <1>13 DEF StreamNext

LEMMA OrderStarts == StreamInit => OrderInv
<1> SUFFICES ASSUME StreamInit PROVE OrderInv
  OBVIOUS
<1>1. <<>> \in Seq(Refs) /\ Len(<<>>) = 0 /\ DOMAIN <<>> = {} /\ ToSet(<<>>) = {}
  BY DEF ToSet
<1> QED
  BY <1>1, ToolStreamAssumption DEF StreamInit, OrderInv

LEMMA StreamsAreTyped == StreamInv /\ OrderInv => StreamTypeOK
<1> SUFFICES ASSUME StreamInv, OrderInv PROVE StreamTypeOK
  OBVIOUS
<1>1. \A r \in DOMAIN buf : buf[r] \in Buffer /\ buf[r].end - buf[r].start \in 1 .. MaxBytes
  <2> TAKE r \in DOMAIN buf
  <2>1. /\ buf[r] \in Buffer /\ buf[r].start \in Nat /\ buf[r].end \in Nat
        /\ buf[r].start < buf[r].end /\ buf[r].end - buf[r].start <= MaxBytes
    BY DEF StreamInv, BuffersOK, OrderInv
  <2> QED
    BY <2>1, ToolStreamAssumption
<1>2. Cardinality(DOMAIN buf) <= MaxBuffers
  <2>1. order \in Seq(Refs) /\ Len(order) \in Nat /\ Len(order) <= MaxBuffers /\ MaxBuffers \in Nat
    BY ToolStreamAssumption DEF OrderInv
  <2>2. PICK n \in Nat : n = Len(order)
    BY <2>1
  <2>3. IsFiniteSet(1 .. n) /\ Cardinality(1 .. n) = n
    <3>1. IsFiniteSet(1 .. n) /\ Cardinality(1 .. n) = IF 1 > n THEN 0 ELSE n - 1 + 1
      BY FS_Interval
    <3> QED
      BY <3>1
  <2>4. order \in [1 .. n -> DOMAIN buf] /\ \A x \in DOMAIN buf : \E i \in 1 .. n : order[i] = x
    BY <2>1, <2>2 DEF OrderInv, ToSet
  <2>5. order \in Surjection(1 .. n, DOMAIN buf)
    BY <2>4 DEF Surjection
  <2>6. IsFiniteSet(DOMAIN buf) /\ Cardinality(DOMAIN buf) <= n
    BY <2>3, <2>5, FS_Surjection
  <2>7. Cardinality(DOMAIN buf) \in Nat
    BY <2>6, FS_CardinalityType
  <2> QED
    BY <2>1, <2>2, <2>6, <2>7
<1>3. slot \in [Apps -> [Refs -> Frame]]
  <2>1. Slots \subseteq Frame
    BY DEF Slots
  <2> QED
    BY <2>1 DEF StreamInv, StreamTypes
<1>4. /\ DOMAIN buf \subseteq Refs /\ view \subseteq Apps /\ timer \subseteq Apps
      /\ over \in [Apps -> [Refs -> Overlay]] /\ fed \in [Refs -> Socks]
  BY DEF StreamInv, BuffersOK, StreamTypes
<1>5. order \in Seq(Refs) /\ ToSet(order) = DOMAIN buf /\ open \subseteq Socks /\ hasty \subseteq Apps
  BY DEF OrderInv
<1> QED
  BY <1>1, <1>2, <1>3, <1>4, <1>5 DEF StreamTypeOK

\* What a watcher sees is what the journal holds: the store stays within its
\* caps with each command once in the idle order, a watcher has the output of
\* every buffered command, and no terminal outlives its buffer.
THEOREM WatchersSeeTruth == StreamInit /\ [][StreamNext]_streamVars => []WatcherSeesTruth
<1>1. StreamInit => StreamInv /\ OrderInv
  BY StreamsStart, OrderStarts
<1>2. StreamInv /\ OrderInv /\ [StreamNext]_streamVars => StreamInv' /\ OrderInv'
  BY StreamsGoOn, OrderGoesOn
<1>3. StreamInv /\ OrderInv => WatcherSeesTruth
  BY StreamSays, StreamsAreTyped DEF WatcherSeesTruth
<1> QED
  BY <1>1, <1>2, <1>3, PTL

-----------------------------------------------------------------------------
(* The four side by side (MCChats).                                        *)

\* A step of the whole is one of a part, and the other three stutter.
LEMMA StepOfOnePart ==
  [Next]_vars => /\ [StreamNext]_streamVars /\ [PeopleNext]_peopleVars
                 /\ [TransfersNext]_transferVars /\ [PushNext]_pushVars
<1>1. CASE Next
  BY <1>1 DEF Next, OnlyStream, OnlyPeople, OnlyTransfer, OnlyPush, Only
<1>2. CASE UNCHANGED vars
  BY <1>2 DEF vars
<1> QED
  BY <1>1, <1>2

\* What the run explores of each part keeps what the part promises, whatever
\* the others do: files, people, watchers and phones.  What AppsToldTruth says
\* of the one part that moves is so of both at once.
THEOREM ChatsAreTrue ==
  Spec => [](FileReleased /\ ContactRules /\ WatcherSeesTruth /\ PhoneRings /\ AppsToldTruth)
<1>1. Init => StreamInit /\ PeopleInit /\ TransfersInit /\ PushInit
  BY DEF Init
<1>2. StreamInv /\ OrderInv => WatcherSeesTruth
  BY StreamSays, StreamsAreTyped DEF WatcherSeesTruth
<1>3. WatcherSeesTruth /\ PhoneRings => AppsToldTruth
  BY DEF AppsToldTruth
<1> QED
  BY <1>1, <1>2, <1>3, StepOfOnePart, TransfersStart, TransfersGoOn, TransferSays, PeopleStart, PeopleGoOn, PeopleSay,
     PushesStart, PushesGoOn, PushSays, StreamsStart, StreamsGoOn, OrderStarts, OrderGoesOn, PTL DEF Spec

=============================================================================
