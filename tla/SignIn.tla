------------------------------- MODULE SignIn -------------------------------
(***************************************************************************)
(* Passwords, reset links and the second factor of one user (auth.js,      *)
(* password-reset.js, two-factor.js and their routes).  Checking and       *)
(* hashing a password are awaits: what a request read before one is a      *)
(* field of its job.  Changes of password and of e-mail wait for each      *)
(* other in a queue; sign-ins, resets and second-factor routes do not.     *)
(*                                                                         *)
(* A password is the number of its choice, an e-mail address one of two,   *)
(* the recovery codes of a set one code.  A one-time code is good for a    *)
(* step of the clock; the clock itself is left out, and any step may be    *)
(* tried at any time.  Requests whose password or code is wrong change     *)
(* nothing here: rate limits and lockouts are left out.                    *)
(*                                                                         *)
(* Bounds: Requests in flight, MaxPasswords passwords, MaxApps devices,    *)
(* MaxSecrets secrets and sets of codes, MaxSteps steps, MaxLinks links.   *)
(***************************************************************************)
EXTENDS Naturals

CONSTANTS Requests, MaxPasswords, MaxApps, MaxSecrets, MaxSteps, MaxLinks

ASSUME SignInAssumption == {MaxPasswords, MaxApps, MaxSecrets, MaxSteps, MaxLinks} \subseteq Nat

VARIABLES
  password, mail,  \* users
  basis,           \* the password that whoever chose each one knew (history)
  mailed, links,   \* password_resets: [password, mail], and links sent so far
  apps, made,      \* client devices, and how many were ever made
  factor,          \* two_factor: [secret, pending, step], and its recovery code
  secrets,         \* secrets and recovery codes handed out
  tickets,         \* sign-ins that wait for a code: "verify", "enrol"
  awaits,          \* requests across their awaits
  accepted         \* how often each code was accepted (history)

signInVars == <<password, mail, basis, mailed, links, apps, made, factor, secrets, tickets, awaits, accepted>>

NoLink == [password |-> 0, mail |-> 0]
NoJob == [kind |-> "idle", password |-> 0, mail |-> 0, app |-> 0, flag |-> FALSE]
HasFactor == factor.secret # 0
KeepUser == UNCHANGED <<password, mail, basis>>
KeepMailed == UNCHANGED <<mailed, links>>
KeepApps == UNCHANGED <<apps, made>>
KeepFactor == UNCHANGED <<factor, secrets, accepted>>
Begin(j, job) == awaits[j] = NoJob /\ awaits' = [awaits EXCEPT ![j] = job]
Ends(j, kind) == awaits[j].kind = kind /\ awaits' = [awaits EXCEPT ![j] = NoJob]
SignsIn == made < MaxApps /\ made' = made + 1 /\ apps' = apps \cup {made'}
OnlyBegins == KeepUser /\ KeepMailed /\ KeepApps /\ KeepFactor /\ UNCHANGED tickets

\* makeKeyedQueue: one change of password or e-mail at a time.
Queued == \E j \in Requests : awaits[j].kind \in {"change", "email"}

---------------------------------------------------------------------------
(* POST /login, when the password is checked.  A user may be asked to      *)
(* enrol (the journal's setting).                                          *)

Login ==
  /\ KeepUser /\ KeepMailed /\ KeepFactor /\ UNCHANGED awaits
  /\ \/ ~HasFactor /\ SignsIn /\ UNCHANGED tickets
     \/ tickets' = tickets \cup {IF HasFactor THEN "verify" ELSE "enrol"} /\ KeepApps

---------------------------------------------------------------------------
(* The account.                                                            *)

Choose(known) ==
  /\ password < MaxPasswords /\ password' = password + 1 /\ UNCHANGED mail
  /\ basis' = [basis EXCEPT ![password'] = known]

\* changePassword, by app a.
Change(j, a, others) ==
  /\ a \in apps /\ ~Queued /\ OnlyBegins
  /\ Begin(j, [NoJob EXCEPT !.kind = "change", !.password = password, !.app = a, !.flag = others])

\* It is still the password that was verified.
AsVerified(j) == password = awaits[j].password
Changed(j) ==
  /\ Ends(j, "change") /\ KeepMailed /\ KeepFactor /\ UNCHANGED made
  /\ IF awaits[j].app \in apps /\ AsVerified(j)
     THEN /\ Choose(awaits[j].password) /\ tickets' = {}
          /\ apps' = IF awaits[j].flag THEN {awaits[j].app} ELSE apps
     ELSE KeepUser /\ UNCHANGED <<tickets, apps>>

\* PUT /account/email.
Email(j) == apps # {} /\ ~Queued /\ Begin(j, [NoJob EXCEPT !.kind = "email"]) /\ OnlyBegins
EmailSet(j) ==
  /\ Ends(j, "email") /\ mail' \in {1, 2} /\ UNCHANGED <<password, basis, tickets>>
  /\ KeepMailed /\ KeepApps /\ KeepFactor

\* issueResetToken: the newest link replaces the one before.
KeepAllBut == KeepUser /\ KeepApps /\ KeepFactor /\ UNCHANGED tickets
SendLink ==
  /\ links < MaxLinks /\ links' = links + 1 /\ mailed' = [password |-> password, mail |-> mail]
  /\ KeepAllBut /\ UNCHANGED awaits
LinkExpires == mailed # NoLink /\ mailed' = NoLink /\ KeepAllBut /\ UNCHANGED <<links, awaits>>

\* resetPassword: the link is taken, and the account is the one it was sent
\* for, then and when the hash is there.  Slip: then is enough.
ThenIsEnough(j) == TRUE
SameAccount(j) == password = awaits[j].password /\ mail = awaits[j].mail
TakeLink(j) ==
  /\ mailed # NoLink /\ mailed' = NoLink /\ KeepAllBut /\ UNCHANGED links
  /\ IF mailed = [password |-> password, mail |-> mail]
     THEN Begin(j, [NoJob EXCEPT !.kind = "reset", !.password = mailed.password, !.mail = mailed.mail])
     ELSE UNCHANGED awaits
Reset(j) ==
  /\ Ends(j, "reset") /\ KeepFactor /\ UNCHANGED <<links, made>>
  /\ IF SameAccount(j)
     THEN Choose(awaits[j].password) /\ mailed' = NoLink /\ apps' = {} /\ tickets' = {}
     ELSE KeepUser /\ UNCHANGED <<mailed, apps, tickets>>

SignOut(a) ==
  /\ a \in apps /\ apps' = apps \ {a} /\ KeepUser /\ KeepMailed /\ KeepFactor
  /\ UNCHANGED <<made, tickets, awaits>>

---------------------------------------------------------------------------
(* The second factor.  A code is named <<secret, step>>, the recovery      *)
(* code of a set <<0, set>>.                                               *)

Steps == 1..MaxSteps
Accept(code) == accepted' = [accepted EXCEPT ![code] = @ + 1]

\* matchTotp: a step later than the last accepted.  Slip: or that one.
NotBefore(s) == s >= factor.step
Later(s) == s > factor.step
\* A recovery code is marked when it is used.  Slip: it is not.
Unmarked == factor
Marked == [factor EXCEPT !.recovery = 0]

\* verifySecondFactor, and the two_factor row after it.
Verified(f) ==
  /\ HasFactor
  /\ \/ \E s \in Steps : Later(s) /\ Accept(<<factor.secret, s>>) /\ f = [factor EXCEPT !.step = s]
     \/ factor.recovery # 0 /\ Accept(<<0, factor.recovery>>) /\ f = Marked

\* beginSetup on row f.
BeginSetup(f) == secrets < MaxSecrets /\ secrets' = secrets + 1 /\ factor' = [f EXCEPT !.pending = secrets']

\* finishSetup: the secret that waits, with a first code, and a new set of
\* recovery codes, named after the secret.
FinishSetup ==
  /\ factor.pending # 0 /\ UNCHANGED secrets
  /\ \E s \in Steps :
       /\ Accept(<<factor.pending, s>>)
       /\ factor' = [secret |-> factor.pending, pending |-> 0, step |-> s, recovery |-> factor.pending]

KeepAccount == KeepUser /\ KeepMailed
Rows == {factor, Marked} \cup {[factor EXCEPT !.step = s] : s \in Steps}

\* POST /login/2fa, /login/2fa/setup, /login/2fa/enable.
LoginCode ==
  /\ "verify" \in tickets /\ tickets' = tickets \ {"verify"} /\ KeepAccount /\ UNCHANGED awaits
  /\ \/ Verified(factor') /\ UNCHANGED secrets /\ SignsIn
     \/ ~HasFactor /\ KeepFactor /\ KeepApps
LoginSetup ==
  /\ "enrol" \in tickets /\ ~HasFactor /\ BeginSetup(factor)
  /\ KeepAccount /\ KeepApps /\ UNCHANGED <<tickets, awaits, accepted>>
LoginEnrols ==
  /\ "enrol" \in tickets /\ tickets' = tickets \ {"enrol"} /\ KeepAccount /\ UNCHANGED awaits
  /\ \/ HasFactor /\ KeepFactor /\ KeepApps
     \/ ~HasFactor /\ FinishSetup /\ SignsIn
TicketExpires(t) ==
  /\ t \in tickets /\ tickets' = tickets \ {t} /\ KeepAccount /\ KeepFactor /\ KeepApps /\ UNCHANGED awaits

\* POST /2fa/setup, /2fa/disable, /2fa/recovery-codes: the password over an
\* await, then a code if there was a factor when the request came.
Confirm(j, what) ==
  /\ apps # {} /\ (what # "setup" => HasFactor) /\ OnlyBegins
  /\ Begin(j, [NoJob EXCEPT !.kind = what, !.flag = HasFactor])
Confirms(j, f) ==
  /\ KeepAccount /\ KeepApps /\ UNCHANGED tickets
  /\ IF awaits[j].flag THEN Verified(f) ELSE f = factor /\ UNCHANGED accepted
SetupConfirmed(j) ==
  Ends(j, "setup") /\ \E f \in Rows : Confirms(j, f) /\ BeginSetup(f)
Disabled(j) ==
  /\ Ends(j, "disable") /\ UNCHANGED secrets /\ \E f \in Rows : Confirms(j, f)
  /\ factor' = [secret |-> 0, pending |-> 0, step |-> 0, recovery |-> 0]
NewCodes(j) ==
  /\ Ends(j, "codes") /\ secrets < MaxSecrets /\ secrets' = secrets + 1
  /\ \E f \in Rows : Confirms(j, f) /\ factor' = [f EXCEPT !.recovery = secrets']
Refused(j) ==
  /\ awaits[j].kind # "idle" /\ awaits' = [awaits EXCEPT ![j] = NoJob] /\ OnlyBegins
EnableFactor ==
  /\ apps # {} /\ FinishSetup /\ KeepAccount /\ UNCHANGED <<made, tickets, awaits>>
  /\ apps' \in {apps} \cup {{a} : a \in apps}

SignInInit ==
  /\ password = 1 /\ mail = 1 /\ basis = [p \in 1..MaxPasswords |-> 0] /\ mailed = NoLink /\ links = 0
  /\ apps = {1} /\ made = 1 /\ secrets = 0 /\ tickets = {}
  /\ factor = [secret |-> 0, pending |-> 0, step |-> 0, recovery |-> 0]
  /\ awaits = [j \in Requests |-> NoJob]
  /\ accepted = [x \in (0..MaxSecrets) \X (1..(MaxSteps + MaxSecrets)) |-> 0]

SignInNext ==
  \/ \E j \in Requests :
       \/ Changed(j) \/ Email(j) \/ EmailSet(j) \/ TakeLink(j) \/ Reset(j)
       \/ SetupConfirmed(j) \/ Disabled(j) \/ NewCodes(j) \/ Refused(j)
       \/ \E what \in {"setup", "disable", "codes"} : Confirm(j, what)
       \/ \E a \in apps, others \in BOOLEAN : Change(j, a, others)
  \/ SendLink \/ LinkExpires \/ (\E a \in apps : SignOut(a))
  \/ Login \/ LoginCode \/ LoginSetup \/ LoginEnrols \/ EnableFactor \/ (\E t \in tickets : TicketExpires(t))

SignInSpec == SignInInit /\ [][SignInNext]_signInVars

---------------------------------------------------------------------------
(* No change of password is lost: whoever chose one knew the one before    *)
(* it, or held a link sent while it was in force, whatever other changes   *)
(* and resets were in flight (changePassword, resetPassword).              *)
EachKnewTheLast == \A p \in 2..password : basis[p] = p - 1

(* A code is good once: the same step of the same secret, or the same      *)
(* recovery code, is never accepted twice, through setups and disables.    *)
CodesOnce == \A x \in DOMAIN accepted : accepted[x] <= 1

(* Both: neither a change nor a code counts twice or for what it was not.  *)
SignInHolds == EachKnewTheLast /\ CodesOnce

=============================================================================
