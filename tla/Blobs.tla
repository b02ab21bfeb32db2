-------------------------------- MODULE Blobs --------------------------------
(***************************************************************************)
(* Blobs: a file in the media directory and a row that names it (media.js, *)
(* db.js), the events and item comments that refer to it, and the          *)
(* retention passes that take files away or put an event's payload into    *)
(* one (retention.js).  A pass is one synchronous run, but it crosses from *)
(* the database to the disk; a crash in between shows here.                *)
(*                                                                         *)
(* A reference is an attachment ("pic"), a tool output that may be         *)
(* offloaded ("log"), the log of a live command ("live") or an attachment  *)
(* of an item comment ("note").  "unsent", "inline" and "gone" (a          *)
(* tombstone) are the forms that name no blob.  Nobody checks an id that   *)
(* is attached; `sound` are the references made while the blob was there.  *)
(* The log of a live command is no recording.                              *)
(*                                                                         *)
(* Bounds: the blobs and references, BlobDeaths crashes.                   *)
(***************************************************************************)
EXTENDS Naturals, FiniteSets

CONSTANTS
  Media,        \* ids of uploads
  Voice,        \* those that are transcribed recordings
  LogFiles,     \* ids of what is offloaded
  BlobDeaths    \* times the process dies

\* An id is made for one file, and is no word.
ASSUME BlobsAssumption ==
  /\ Voice \subseteq Media /\ BlobDeaths \in Nat
  /\ Media \cap LogFiles = {}
  /\ {"unsent", "inline", "gone"} \cap (Media \cup LogFiles) = {}

VARIABLES
  row,      \* blobs: "none", "fresh", "old" (past the grace period)
  file,     \* "none", "here", "staged" (.reaping)
  landing,  \* uploads whose file is there and whose row is not
  used,     \* ids given out
  ref,      \* what each reference holds
  aged,     \* references old enough for their pass
  sound,    \* history
  deaths

blobVars == <<row, file, landing, used, ref, aged, sound, deaths>>

BlobIds == Media \cup LogFiles
Refs == {"pic", "log", "live", "note"}
Events == {"pic", "log", "live"}
Holders(b) == {r \in Refs : ref[r] = b}
Tombstoned(R) == [r \in Refs |-> IF r \in R THEN "gone" ELSE ref[r]]

BlobDie == deaths < BlobDeaths /\ deaths' = deaths + 1 /\ landing' = {}

\* A transaction that turns references into tombstones t and deletes the
\* row, and then the file.  The crash falls between.  Slip: the file first.
CutFileFirst(b, t) == ref' = ref /\ UNCHANGED row /\ file' = [file EXCEPT ![b] = "none"]
CutShort(b, t) == ref' = t /\ row' = [row EXCEPT ![b] = "none"] /\ UNCHANGED file

Drop(b, t) ==
  \/ /\ ref' = t /\ row' = [row EXCEPT ![b] = "none"]
     /\ file' = IF file[b] = "here" THEN [file EXCEPT ![b] = "none"] ELSE file
     /\ UNCHANGED <<landing, deaths>>
  \/ BlobDie /\ CutShort(b, t)

-----------------------------------------------------------------------------
\* POST /media: the body lands under its final name, then the row.
Upload(b) ==
  /\ b \notin used
  /\ file' = [file EXCEPT ![b] = "here"]
  /\ landing' = landing \cup {b} /\ used' = used \cup {b}
  /\ UNCHANGED <<row, ref, aged, sound, deaths>>

InsertBlob(b) ==
  /\ b \in landing
  /\ row' = [row EXCEPT ![b] = "fresh"] /\ landing' = landing \ {b}
  /\ UNCHANGED <<file, used, ref, aged, sound, deaths>>

\* The quota is full, or the row cannot be written: the file is removed.
UploadRefused(b) ==
  /\ b \in landing
  /\ file' = [file EXCEPT ![b] = "none"] /\ landing' = landing \ {b}
  /\ UNCHANGED <<row, used, ref, aged, sound, deaths>>

Attachable(r) == IF r = "live" THEN Media \ Voice ELSE Media

\* A send, a publish or a comment names blob b.
Attach(r, b) ==
  /\ r \in {"pic", "live", "note"} /\ ref[r] = "unsent"
  /\ b \in Attachable(r) \cap used /\ b \notin landing
  /\ ref' = [ref EXCEPT ![r] = b]
  /\ sound' = IF row[b] # "none" THEN sound \cup {r} ELSE sound
  /\ UNCHANGED <<row, file, landing, used, aged, deaths>>

Publish ==
  /\ ref["log"] = "unsent"
  /\ ref' = [ref EXCEPT !["log"] = "inline"] /\ sound' = sound \cup {"log"}
  /\ UNCHANGED <<row, file, landing, used, aged, deaths>>

BlobAges(b) ==
  /\ row[b] = "fresh"
  /\ row' = [row EXCEPT ![b] = "old"]
  /\ UNCHANGED <<file, landing, used, ref, aged, sound, deaths>>

RefAges(r) ==
  /\ ref[r] \notin {"unsent", "gone"} /\ r \notin aged
  /\ aged' = aged \cup {r}
  /\ UNCHANGED <<row, file, landing, used, ref, sound, deaths>>

-----------------------------------------------------------------------------
\* runOffload: the file, then the row and the event in one transaction.
Offload(b) ==
  /\ ref["log"] = "inline" /\ "log" \in aged
  /\ b \in LogFiles \ used
  /\ used' = used \cup {b}
  /\ file' = [file EXCEPT ![b] = "here"]
  /\ \/ /\ row' = [row EXCEPT ![b] = "fresh"] /\ ref' = [ref EXCEPT !["log"] = b]
        /\ UNCHANGED <<landing, deaths>>
     \/ BlobDie /\ UNCHANGED <<row, ref>>
  /\ UNCHANGED <<aged, sound>>

\* runExpireLogs: the blob goes with the log, whoever else names it.  A bridge
\* uploads a log as a blob of its own; any other reference to it is sound no
\* more.
ExpireLogs ==
  /\ "live" \in aged /\ ref["live"] \in Media
  /\ IF row[ref["live"]] # "none" THEN Drop(ref["live"], Tombstoned({"live"}))
     ELSE ref' = Tombstoned({"live"}) /\ UNCHANGED <<row, file, landing, deaths>>
  /\ sound' = sound \ Holders(ref["live"])
  /\ UNCHANGED <<used, aged>>

\* runExpireVoiceNotes: every comment that holds the recording is due.
ExpireVoiceNotes(b) ==
  /\ b \in Voice /\ ref["note"] = b /\ "note" \in aged
  /\ IF row[b] # "none" THEN Drop(b, Tombstoned(Holders(b) \cap {"pic", "note"}))
     ELSE ref' = Tombstoned({"note"}) /\ UNCHANGED <<row, file, landing, deaths>>
  /\ UNCHANGED <<used, aged, sound>>

\* expireChatVoiceNotes: only chat messages hold it.
ExpireChatVoiceNotes(b) ==
  /\ b \in Voice /\ row[b] = "old" /\ Holders(b) = {"pic"}
  /\ Drop(b, Tombstoned({"pic"}))
  /\ UNCHANGED <<used, aged, sound>>

\* runReapMedia, the orphans.  Slip: item comments are not asked.
UnnamedByEvents(b) == Holders(b) \cap Events = {}
Unnamed(b) == Holders(b) = {}

ReapGarbage(b) ==
  /\ row[b] = "old" /\ Unnamed(b)
  /\ Drop(b, ref)
  /\ UNCHANGED <<used, aged, sound>>

\* runReapMedia, attachments of a user over the quota.
ReapMedia(b) ==
  /\ row[b] # "none" /\ Holders(b) \cap {"pic", "note"} # {} /\ Holders(b) \cap {"log", "live"} = {}
  /\ Drop(b, Tombstoned(Holders(b)))
  /\ UNCHANGED <<used, aged, sound>>

\* runReapOrphanBlobs: the file is set aside, the row goes, then the file.
ReapOrphan(b) ==
  /\ row[b] = "old" /\ Unnamed(b) /\ file[b] # "staged"
  /\ \/ row' = [row EXCEPT ![b] = "none"] /\ file' = [file EXCEPT ![b] = "none"] /\ UNCHANGED <<landing, deaths>>
     \/ BlobDie /\ file[b] # "none" /\ file' = [file EXCEPT ![b] = "staged"] /\ row' \in {row, [row EXCEPT ![b] = "none"]}
  /\ UNCHANGED <<used, ref, aged, sound>>

\* recoverStagedOrphans.  Slip: what is staged is taken for garbage.
StagedIsGarbage(b) == "none"
Recovered(b) == IF row[b] # "none" THEN "here" ELSE "none"
RecoverStaged(b) ==
  /\ file[b] = "staged"
  /\ file' = [file EXCEPT ![b] = Recovered(b)]
  /\ UNCHANGED <<row, landing, used, ref, aged, sound, deaths>>

\* runExpireDeviceContent: the event first, the blob when nothing else names
\* it, in one transaction.
ExpireContent(r) ==
  /\ r \in Events \cap aged /\ ref[r] # "gone"
  /\ LET t == Tombstoned({r}) IN
       IF ref[r] \in BlobIds /\ row[ref[r]] # "none" /\ Holders(ref[r]) = {r} THEN Drop(ref[r], t)
       ELSE ref' = t /\ UNCHANGED <<row, file, landing, deaths>>
  /\ UNCHANGED <<used, aged, sound>>

\* The process dies with uploads in flight.
BlobCrash == landing # {} /\ BlobDie /\ UNCHANGED <<row, file, used, ref, aged, sound>>

-----------------------------------------------------------------------------
BlobsInit ==
  /\ row = [b \in BlobIds |-> "none"] /\ file = [b \in BlobIds |-> "none"]
  /\ landing = {} /\ used = {}
  /\ ref = [r \in Refs |-> "unsent"] /\ aged = {} /\ sound = {}
  /\ deaths = 0

BlobsNext ==
  \/ \E b \in Media : Upload(b) \/ InsertBlob(b) \/ UploadRefused(b)
  \/ \E r \in Refs, b \in BlobIds : Attach(r, b)
  \/ Publish
  \/ \E b \in BlobIds : BlobAges(b) \/ ReapGarbage(b) \/ ReapMedia(b) \/ ReapOrphan(b) \/ RecoverStaged(b)
  \/ \E r \in Refs : RefAges(r) \/ ExpireContent(r)
  \/ \E b \in LogFiles : Offload(b)
  \/ ExpireLogs
  \/ \E b \in Voice : ExpireVoiceNotes(b) \/ ExpireChatVoiceNotes(b)
  \/ BlobCrash

BlobsSpec == BlobsInit /\ [][BlobsNext]_blobVars

-----------------------------------------------------------------------------
(* What the retention passes promise. *)

\* A reference made while its blob was there finds row and file until a pass
\* turns it into a tombstone, whatever other reference the blob loses and
\* wherever a crash falls (retention.js).  One gap is known: the end of a live
\* log takes the blob it names without asking who else names it.
RefsResolve == \A r \in sound :
  ref[r] \in BlobIds => row[ref[r]] # "none" /\ file[ref[r]] # "none"

\* A row never outlives its file, also between two passes (runOffload,
\* runExpireLogs, runReapOrphanBlobs).
RowsHaveFiles == \A b \in BlobIds : row[b] # "none" => file[b] # "none"

\* No pass and no crash separates a reference from its bytes (retention.js).
BlobsKept == RefsResolve /\ RowsHaveFiles
=============================================================================
