----------------------------- MODULE MCKeeping ------------------------------
(* What the journal keeps for its users: files written once, their bytes   *)
(* and the blobs, what is shared or handed over, the devices and who may   *)
(* sign in; and what it derives from what it keeps: the index of messages  *)
(* and the transcripts of audio.  The eight have no state in common, so a  *)
(* behavior explores one of them, `part`.                                  *)
EXTENDS FileRetry, FileWrites, Blobs, Ownership, Linking, SignIn,
        MessageIndex, BlobTranscripts, TLC

CONSTANTS m1, m2, p1, p2, g1, g2, n1, n2, n3, n4, u1, u2, u3

VARIABLE part

\* A mission is asked for by one contact, a project by the other.
TwoAsks == {<<m1, g1>>, <<p1, g2>>}

\* One user has two voice notes and two have one each: with a place for one of
\* a user and for two in all, either limit is met without the other.
NoteOwner == (n1 :> u1) @@ (n2 :> u1) @@ (n3 :> u2) @@ (n4 :> u3)

\* Bounds.  Cards decide nothing, so what follows a death that left some behind
\* shows nothing new.  Of two requests in flight both are about the account or
\* both about the second factor: under way, neither kind reads what the other
\* writes.
Account == {"change", "email", "reset"}
Factor == {"setup", "disable", "codes"}
Together ==
  /\ ~noCards
  /\ {awaits[j].kind : j \in Requests} \cap Account = {} \/ {awaits[j].kind : j \in Requests} \cap Factor = {}

vars == <<part, retryVars, fileVars, blobVars, ownershipVars, linkingVars, signInVars,
          messageVars, transcriptVars>>

Only(name) ==
  /\ part = name /\ UNCHANGED part
  /\ name # "retry" => UNCHANGED retryVars
  /\ name # "files" => UNCHANGED fileVars
  /\ name # "blobs" => UNCHANGED blobVars
  /\ name # "ownership" => UNCHANGED ownershipVars
  /\ name # "linking" => UNCHANGED linkingVars
  /\ name # "signin" => UNCHANGED signInVars
  /\ name # "messages" => UNCHANGED messageVars
  /\ name # "transcripts" => UNCHANGED transcriptVars

Init ==
  /\ part \in {"retry", "files", "blobs", "ownership", "linking", "signin",
              "messages", "transcripts"}
  /\ RetryInit /\ FilesInit /\ BlobsInit /\ OwnershipInit /\ LinkingInit /\ SignInInit
  /\ MessagesInit /\ TranscriptsInit
  /\ part # "files" => at[A] = 0
  /\ part # "messages" => events = <<>> /\ mended = filled
Next ==
  \/ Only("retry") /\ RetryNext
  \/ Only("files") /\ FilesNext
  \/ Only("blobs") /\ BlobsNext
  \/ Only("ownership") /\ OwnershipNext
  \/ Only("linking") /\ LinkingNext
  \/ Only("signin") /\ SignInNext
  \/ Only("messages") /\ MessagesNext
  \/ Only("transcripts") /\ TranscriptsNext

\* What is derived says what it was derived from.
DerivedHolds ==
  /\ part = "messages" => MessagesFound
  /\ part = "transcripts" => TranscriptsInHand

Spec == Init /\ [][Next]_vars
=============================================================================
