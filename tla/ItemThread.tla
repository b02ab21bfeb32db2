----------------------------- MODULE ItemThread -----------------------------
(***************************************************************************)
(* The thread of one tracker item (items.js, items-http.js): the user      *)
(* replies, taps a button and speaks, agents comment and ask, the item is  *)
(* closed and reopened, a bridge holds a reply and the user cancels it     *)
(* (withdrawn-comments.js), a worker transcribes voice notes               *)
(* (items-transcribe.js).                                                  *)
(*                                                                         *)
(* A handler commits its rows and then appends the marker that tells the   *)
(* session.  The flag `told` of an action says whether the process lived   *)
(* to append it; when it did not, the action is the one the process dies   *)
(* in.  The queue of voice notes is in memory, everything else on disk.    *)
(*                                                                         *)
(* Bounds: MaxThread comments, MaxDeaths deaths of the process.  A comment *)
(* has at most one attachment.  Its idempotency key is its position.       *)
(***************************************************************************)
EXTENDS Naturals, Sequences, FiniteSets, SequencesExt

CONSTANTS
  Labels,      \* what a button can say; SeenLabel is the one of a notice
  SeenLabel,   \* NOTICE_ACTION
  None,        \* no label
  MaxThread,   \* comments
  MaxQueued,   \* maxQueuedPerUser of the transcriptions
  MaxDeaths    \* deaths of the process

ASSUME ThreadAssumption ==
  /\ None \notin Labels
  /\ SeenLabel \in Labels
  /\ {MaxThread, MaxQueued, MaxDeaths} \subseteq Nat

VARIABLES
  item,      \* the row: kind, state, awaiting, offers (its buttons), chosen
  thread,    \* the comments
  queue,     \* voice notes the worker still has to take, by position
  asking,    \* the one whose transcriber is out, or 0
  given,     \* those whose result could not be written, twice
  up,        \* is the process alive?
  deaths

threadVars == <<item, thread, queue, asking, given, up, deaths>>

Unfiled == [kind |-> "none", state |-> "none", awaiting |-> "none", offers |-> {}, chosen |-> None]

\* A comment: what it answers (`to`, 0 is the item itself), the answers it
\* asks for, what was answered, what became of it and of its voice note, how
\* often its session was told, and which events of the log have its words.
Comment(author, tap, to, asks, voice) ==
  [author |-> author, tap |-> tap, to |-> to, asks |-> asks, chosen |-> None, gone |-> FALSE,
   voice |-> voice, by |-> "none", held |-> "no", told |-> 0, posts |-> {}]

DefaultAwaiting(kind) == CASE kind \in {"question", "notice"} -> "user"
                           [] kind = "task" -> "agent"
                           [] OTHER -> "none"

\* The process dies: the queue and the transcriber's answer are lost.
Dying ==
  /\ deaths < MaxDeaths
  /\ up' = FALSE
  /\ deaths' = deaths + 1
  /\ queue' = <<>> /\ asking' = 0 /\ given' = {}

Living == up' = TRUE /\ UNCHANGED deaths

-----------------------------------------------------------------------------
(* What the session is told. *)

\* An agent, and the log, get a withdrawn comment without its words.
\* Slip: only the thread view blanks it.
WordsAlways(c, kinds) == kinds
Words(c, kinds) == IF c.gone THEN {} ELSE kinds

\* emitMarker for a comment: the marker, and the text for old clients.
Announced(c) == [c EXCEPT !.told = @ + 1, !.posts = @ \cup Words(c, {"marker", "fallback"})]

\* The marker of a transcript.
Updated(c) == [c EXCEPT !.posts = @ \cup Words(c, {"update"})]

-----------------------------------------------------------------------------
(* Filing, replying, asking. *)

\* A notice has the one button, whatever its filer sent.
Create(kind, offers) ==
  /\ up /\ item = Unfiled
  /\ item' = [kind |-> kind, state |-> "open", awaiting |-> DefaultAwaiting(kind),
              offers |-> IF kind = "notice" THEN {SeenLabel} ELSE offers, chosen |-> None]
  /\ UNCHANGED <<thread, queue, asking, given, up, deaths>>

\* The buttons a tap may name: those of the comment it replies to, or the
\* item's.
Offered(to) == IF to = 0 THEN item.offers ELSE thread[to].asks

Admitted == Len(queue) + (IF asking = 0 THEN 0 ELSE 1) + 1 <= MaxQueued

\* The user's tap of `Seen` closes a notice.
Seeing(tap, to) == item.kind = "notice" /\ to = 0 /\ tap = SeenLabel

\* What a user's comment does to the item.
Answered(tap, to) ==
  IF Seeing(tap, to) THEN [item EXCEPT !.state = "closed", !.awaiting = "none", !.chosen = tap]
  ELSE [item EXCEPT !.state = "open", !.awaiting = "agent",
                    !.chosen = IF tap # None /\ to = 0 THEN tap ELSE @]

Chose(tap, to) == [i \in DOMAIN thread |->
  IF tap # None /\ i = to THEN [thread[i] EXCEPT !.chosen = tap] ELSE thread[i]]

\* A new comment of the user.
Reply(tap, to, spoken, told) ==
  /\ up /\ item.state # "none" /\ Len(thread) < MaxThread
  /\ tap = None => to = 0
  /\ tap # None => tap \in Offered(to)
  /\ ~(Seeing(tap, to) /\ item.state = "closed")
  /\ LET voice == IF ~spoken THEN "none" ELSE IF Admitted THEN "pending" ELSE "bare"
         c == Comment("user", tap, to, {}, voice)
     IN /\ thread' = Append(Chose(tap, to), IF told /\ ~Seeing(tap, to) THEN Announced(c) ELSE c)
        /\ item' = Answered(tap, to)
        /\ IF told THEN /\ Living /\ UNCHANGED <<asking, given>>
                        /\ queue' = IF voice = "pending" THEN Append(queue, Len(thread) + 1) ELSE queue
                   ELSE Dying

\* The client repeats a reply whose outcome it does not know: the row with
\* its key is there, nothing is done again.  Slip: the marker is.
RepeatTells(i) ==
  /\ up /\ thread[i].author = "user"
  /\ thread' = [thread EXCEPT ![i] = Announced(@)]
  /\ UNCHANGED <<item, queue, asking, given, up, deaths>>
Repeat(i) ==
  /\ up /\ thread[i].author = "user"
  /\ UNCHANGED threadVars

\* A comment of an agent; one with buttons asks the user, and a closed item
\* cannot.
Say(asks, told) ==
  /\ up /\ item.state # "none" /\ Len(thread) < MaxThread
  /\ asks # {} => item.state = "open"
  /\ LET c == Comment("agent", None, 0, asks, "none") IN
       thread' = Append(thread, IF told THEN Announced(c) ELSE c)
  /\ item' = IF asks # {} THEN [item EXCEPT !.awaiting = "user"] ELSE item
  /\ IF told THEN Living /\ UNCHANGED <<queue, asking, given>> ELSE Dying

\* PATCH: other buttons forget the answer.
Relabel(offers) == [item EXCEPT !.offers = offers, !.chosen = IF offers = item.offers THEN @ ELSE None]

Patch(offers) ==
  /\ up /\ item.state # "none" /\ item.kind # "notice"
  /\ item' = Relabel(offers)
  /\ UNCHANGED <<thread, queue, asking, given, up, deaths>>

Close ==
  /\ up /\ item.state = "open"
  /\ item' = [item EXCEPT !.state = "closed", !.awaiting = "none"]
  /\ UNCHANGED <<thread, queue, asking, given, up, deaths>>

\* A notice that is reopened has not been seen.
Reopen ==
  /\ up /\ item.state = "closed"
  /\ item' = [item EXCEPT !.state = "open", !.awaiting = DefaultAwaiting(item.kind),
                          !.chosen = IF item.kind = "notice" THEN None ELSE @]
  /\ UNCHANGED <<thread, queue, asking, given, up, deaths>>

-----------------------------------------------------------------------------
(* A reply the bridge holds, and its withdrawal. *)

\* The session is busy: the bridge keeps the turn and posts its card.
Hold(i) ==
  /\ up /\ thread[i].author = "user" /\ thread[i].told > 0 /\ thread[i].held = "no"
  /\ thread' = [thread EXCEPT ![i].held = "held", ![i].posts = @ \cup {"card"}]
  /\ UNCHANGED <<item, queue, asking, given, up, deaths>>

Release(i) ==
  /\ up /\ thread[i].held = "held"
  /\ thread' = [thread EXCEPT ![i].held = "sent"]
  /\ UNCHANGED <<item, queue, asking, given, up, deaths>>

\* The taps that still stand beside i, on what i tapped.
Standing(i) == {j \in DOMAIN thread : /\ j # i /\ ~thread[j].gone /\ thread[j].author = "user"
                                      /\ thread[j].tap # None /\ thread[j].to = thread[i].to}

\* What is chosen once i is withdrawn: the latest tap that stands and is
\* still offered.  Slip: withdrawn taps count.
UndoneAmongAll(i) ==
  LET others == {j \in DOMAIN thread : j # i /\ thread[j].tap # None /\ thread[j].to = thread[i].to}
  IN IF others = {} THEN None ELSE thread[Max(others)].tap
Undone(i) ==
  LET latest == thread[Max(Standing(i))].tap
  IN IF Standing(i) # {} /\ latest \in Offered(thread[i].to) THEN latest ELSE None

\* Only a choice that is i's own is undone.
AfterUndo(i, chosen) == IF thread[i].tap # None /\ chosen = thread[i].tap THEN Undone(i) ELSE chosen

\* The user cancels the card: the turn is dropped, the comment withdrawn and
\* its words taken out of the log.
Cancel(i) ==
  /\ up /\ thread[i].held = "held"
  /\ thread' = [j \in DOMAIN thread |->
       IF j = i THEN [thread[i] EXCEPT !.held = "dropped", !.gone = TRUE, !.posts = {}]
       ELSE IF j = thread[i].to THEN [thread[j] EXCEPT !.chosen = AfterUndo(i, @)]
       ELSE thread[j]]
  /\ item' = IF thread[i].to = 0 THEN [item EXCEPT !.chosen = AfterUndo(i, @)] ELSE item
  /\ UNCHANGED <<queue, asking, given, up, deaths>>

-----------------------------------------------------------------------------
(* Voice notes. *)

\* The worker takes the next note; one that is settled already is skipped.
Take ==
  /\ up /\ asking = 0 /\ queue # <<>>
  /\ asking' = IF thread[Head(queue)].voice = "pending" THEN Head(queue) ELSE 0
  /\ queue' = Tail(queue)
  /\ UNCHANGED <<item, thread, given, up, deaths>>

\* finishAttachmentTranscript: what the transcriber found, unless somebody
\* settled the note meanwhile.  Slip: the result is written over it.
FinishOver(c, got) == [c EXCEPT !.voice = IF got THEN "done" ELSE "failed", !.by = IF got THEN "journal" ELSE @]
Finish(c, got) == IF c.voice # "pending" THEN c
                  ELSE [c EXCEPT !.voice = IF got THEN "done" ELSE "failed", !.by = IF got THEN "journal" ELSE @]

Write(got, told) ==
  /\ up /\ asking # 0
  /\ LET c == Finish(thread[asking], got) IN
       thread' = [thread EXCEPT ![asking] = IF told /\ c # thread[asking] THEN Updated(c) ELSE c]
  /\ IF told THEN asking' = 0 /\ Living /\ UNCHANGED <<queue, given>> ELSE Dying
  /\ UNCHANGED item

\* The write fails, and so does its one repetition: the note is left for the
\* next start.
WriteFails ==
  /\ up /\ asking # 0
  /\ given' = given \cup {asking}
  /\ asking' = 0
  /\ UNCHANGED <<item, thread, queue, up, deaths>>

\* An agent transcribes the note itself, at any time.
ByAgent(c) == [c EXCEPT !.by = "agent", !.voice = IF @ = "bare" THEN "bare" ELSE "done"]
Transcribe(i) ==
  /\ up /\ thread[i].voice # "none"
  /\ thread' = [thread EXCEPT ![i] = Updated(ByAgent(@))]
  /\ UNCHANGED <<item, queue, asking, given, up, deaths>>

Untranscribed == {i \in DOMAIN thread : thread[i].voice = "pending"}

Die == up /\ Dying /\ UNCHANGED <<item, thread>>

\* The start queues every note the database still has as pending.  Slip: the
\* queue starts empty.
RecoverNothing == <<>>
Recover == SetToSortSeq(Untranscribed, <)

Boot ==
  /\ ~up
  /\ up' = TRUE
  /\ queue' = Recover
  /\ UNCHANGED <<item, thread, asking, given, deaths>>

-----------------------------------------------------------------------------
ThreadInit ==
  /\ item = Unfiled
  /\ thread = <<>>
  /\ queue = <<>> /\ asking = 0 /\ given = {}
  /\ up = TRUE /\ deaths = 0

Worker == Take \/ \E got, told \in BOOLEAN : Write(got, told)

ThreadNext ==
  \/ \E kind \in {"task", "notice"}, offers \in {{}, Labels} : Create(kind, offers)
  \/ \E tap \in Labels \cup {None}, to \in 0..Len(thread), spoken, told \in BOOLEAN : Reply(tap, to, spoken, told)
  \/ \E asks \in {{}, Labels}, told \in BOOLEAN : Say(asks, told)
  \/ \E offers \in {{}, Labels} : Patch(offers)
  \/ Close \/ Reopen
  \/ \E i \in DOMAIN thread : Repeat(i) \/ Hold(i) \/ Release(i) \/ Cancel(i) \/ Transcribe(i)
  \/ Worker \/ WriteFails \/ Die \/ Boot

\* The worker is a chain of promises and never waits for ever (the
\* transcriber has a timeout); a process that died is started again.
ThreadFairness == WF_threadVars(Worker) /\ WF_threadVars(Boot)

ThreadSpec == ThreadInit /\ [][ThreadNext]_threadVars /\ ThreadFairness

-----------------------------------------------------------------------------
(* What the thread promises. *)

\* An answer the item, or a question in its thread, shows as chosen is the
\* tap of a reply that stands, on a button that is still there: whatever was
\* withdrawn, relabelled or reopened
\* in between (undoTap, updateItem, reopenItem).
ChosenWasTapped ==
  LET Tapped(label, to) == \E i \in DOMAIN thread : /\ thread[i].author = "user" /\ ~thread[i].gone
                                                    /\ thread[i].tap = label /\ thread[i].to = to
  IN /\ item.chosen # None => item.chosen \in item.offers /\ Tapped(item.chosen, 0)
     /\ \A q \in DOMAIN thread : thread[q].chosen # None => Tapped(thread[q].chosen, q)

\* Nothing in the log has the words of a reply the user cancelled, not even
\* an event appended after the cancel, as when its transcript lands late
\* (scrubEvents, presentWithdrawn).
WithdrawnUnread == \A i \in DOMAIN thread : thread[i].gone => thread[i].posts = {}

\* A reply is told to its session at most once, however often the client
\* repeats it and wherever the process dies (addComment, idem_key).
AnnouncedOnce == \A i \in DOMAIN thread : thread[i].told <= 1

\* A transcript an agent wrote is never replaced by the journal's, although
\* the transcriber may have been asked before and answers after it
\* (finishAttachmentTranscript).
AgentWordsStay ==
  [][\A i \in DOMAIN thread : thread[i].by = "agent" => thread'[i].by = "agent" /\ thread'[i].voice # "failed"]_threadVars

\* No voice note stays pending for ever, unless its result could not be
\* written (items-transcribe.js, recover).
TranscriptsSettle == []<>(Untranscribed \subseteq given)

\* What the thread shows and the log tells stands: a chosen answer was tapped,
\* each reply is told once, and of a cancelled one nothing (addComment,
\* withdrawComment, undoTap).
ThreadHolds == ChosenWasTapped /\ WithdrawnUnread /\ AnnouncedOnce

\* Both together: every voice note ends with words, an agent's if it gave any.
NotesSettle == TranscriptsSettle /\ AgentWordsStay

=============================================================================
