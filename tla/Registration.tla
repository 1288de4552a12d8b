---------------------------- MODULE Registration ----------------------------
(***************************************************************************)
(* An invited user registers, or the first user of a new system is created *)
(* (the genesis user): the two forms of the client with their second       *)
(* factor, and what the server does with a submission, step by step.       *)
(***************************************************************************)
EXTENDS Integers, Sequences, FiniteSets, SequencesExt

CONSTANTS
  NoSecret,         \* no second factor, or no code typed
  MaxTokens,        \* bound: secrets the server generates
  MaxSubmissions,   \* bound: submissions of the form
  MaxStops          \* bound: requests the server stops at half way

ASSUME RegistrationAssumption ==
  /\ {MaxTokens, MaxSubmissions, MaxStops} \subseteq Nat
  /\ NoSecret \notin Nat

VARIABLES
  kind,         \* which form: "register" or "genesis"
  require2fa,   \* of the configuration
  form,         \* the state of the component
  scanned,      \* the secrets the user's authenticator holds
  tokens,       \* requests for a secret in flight
  generated,    \* secrets generated so far
  submissions,  \* submissions the server is at work on
  submitted,    \* how many there have been
  account,      \* the user on the server
  stops

registrationVars ==
  <<kind, require2fa, form, scanned, tokens, generated, submissions, submitted, account, stops>>

Secrets == 1..MaxTokens
Entered == {"empty", "good", "bad"}   \* user name and previous password
Stages == {"sent", "accepted", "created", "written", "provided", "wrong code", "refused"}

RegistrationTypeOK ==
  /\ kind \in {"register", "genesis"} /\ require2fa \in BOOLEAN
  /\ form \in [entered : Entered, phase1 : BOOLEAN, requesting : BOOLEAN, complete : BOOLEAN,
               secret : Secrets \cup {NoSecret}, code : Secrets \cup {NoSecret},
               told : {"nothing", "wrong code", "bad credentials", "failed"}]
  /\ scanned \subseteq Secrets
  /\ tokens \in 0..MaxTokens /\ generated \in 0..MaxTokens
  /\ submissions \in Seq([entered : Entered, secret : Secrets \cup {NoSecret},
                          code : Secrets \cup {NoSecret}, stage : Stages])
  /\ submitted \in 0..MaxSubmissions
  /\ account \in [exists : BOOLEAN, registered : BOOLEAN, secret : Secrets \cup {NoSecret},
                  ingestions : 0..MaxSubmissions]
  /\ stops \in 0..MaxStops

(***************************************************************************)
(* The form.  The phase of the second factor follows the one of the name   *)
(* and the password.                                                       *)
(***************************************************************************)

EmptyForm == [entered |-> "empty", phase1 |-> TRUE, requesting |-> FALSE, complete |-> FALSE,
              secret |-> NoSecret, code |-> NoSecret, told |-> "nothing"]

Fill(e) ==
  /\ kind = "register" /\ ~form.complete /\ form.phase1 /\ e # form.entered
  /\ form' = [form EXCEPT !.entered = e]
  /\ UNCHANGED <<kind, require2fa, scanned, tokens, generated, submissions, submitted, account, stops>>

\* The genesis form has no previous password to be wrong.
FillGenesis(e) ==
  /\ kind = "genesis" /\ ~form.complete /\ form.phase1 /\ e # form.entered /\ e # "bad"
  /\ form' = [form EXCEPT !.entered = e]
  /\ UNCHANGED <<kind, require2fa, scanned, tokens, generated, submissions, submitted, account, stops>>

CanContinue == form.entered # "empty" /\ ~form.requesting
GenesisCanContinue == form.entered # "empty" /\ ~form.requesting
CanFinish == CanContinue /\ form.code # NoSecret

\* Continue asks for a secret each time it is pressed: nothing says it has been.
ContinuePressed ==
  /\ ~form.complete /\ form.phase1
  /\ IF kind = "register" THEN CanContinue ELSE GenesisCanContinue
  /\ generated + tokens < MaxTokens
  /\ tokens' = tokens + 1
  /\ UNCHANGED <<kind, require2fa, form, scanned, generated, submissions, submitted, account, stops>>

\* The QR code is shown when there is a user name to show it for.
Shows2Fa(s) == IF form.entered = "empty" THEN {} ELSE {s}

TokenAnswered ==
  /\ ~form.complete /\ tokens > 0
  /\ tokens' = tokens - 1 /\ generated' = generated + 1
  /\ form' = [form EXCEPT !.secret = generated', !.phase1 = FALSE]
  /\ scanned' = scanned \cup Shows2Fa(generated')
  /\ UNCHANGED <<kind, require2fa, submissions, submitted, account, stops>>

TokenFailed ==
  /\ ~form.complete /\ tokens > 0
  /\ tokens' = tokens - 1
  /\ UNCHANGED <<kind, require2fa, form, scanned, generated, submissions, submitted, account, stops>>

EnterCode(s) ==
  /\ ~form.complete /\ ~form.phase1 /\ s \in scanned /\ s # form.code
  /\ form' = [form EXCEPT !.code = s]
  /\ UNCHANGED <<kind, require2fa, scanned, tokens, generated, submissions, submitted, account, stops>>

Submission(secret, code) ==
  /\ submitted < MaxSubmissions
  /\ submitted' = submitted + 1
  /\ submissions' = Append(submissions, [entered |-> form.entered, secret |-> secret,
                                         code |-> code, stage |-> "sent"])
  /\ form' = [form EXCEPT !.requesting = TRUE]
  /\ UNCHANGED <<kind, require2fa, scanned, tokens, generated, account, stops>>

Submit(secret, code) == kind = "register" /\ Submission(secret, code)
SubmitDatabase(secret, code) == kind = "genesis" /\ Submission(secret, code)

Finish ==
  /\ ~form.complete /\ ~form.phase1 /\ CanFinish
  /\ Submit(form.secret, form.code) \/ SubmitDatabase(form.secret, form.code)

\* The genesis form looks for the setting under a name it does not have, and
\* always offers to skip.
OffersToSkip == ~form.phase1 /\ (kind = "genesis" \/ ~require2fa)

Skip2fa ==
  /\ ~form.complete /\ OffersToSkip
  /\ Submit(NoSecret, NoSecret) \/ SubmitDatabase(NoSecret, NoSecret)

(***************************************************************************)
(* The server.  One action for each transaction.                           *)
(***************************************************************************)

At(i, stage) == [submissions EXCEPT ![i].stage = stage]

\* Mutant: a registration without a second factor is let through.
Check2FALax(s) == IF s.secret = s.code THEN "accepted" ELSE "wrong code"

Check2FA(s) ==
  IF require2fa /\ s.secret = NoSecret THEN "refused"
  ELSE IF s.secret = s.code THEN "accepted" ELSE "wrong code"

\* A user who is registered has another password from the one before.
VerifyUser(i) ==
  LET s == submissions[i] IN
  /\ kind = "register" /\ s.stage = "sent"
  /\ submissions' = At(i, IF s.entered = "good" /\ account.exists /\ ~account.registered
                          THEN Check2FA(s) ELSE "refused")
  /\ UNCHANGED <<kind, require2fa, form, scanned, tokens, generated, submitted, account, stops>>

\* No user may exist yet.
DoSetup(i) ==
  LET s == submissions[i] IN
  /\ kind = "genesis" /\ s.stage = "sent"
  /\ submissions' = At(i, IF s.entered = "good" /\ ~account.exists THEN Check2FA(s) ELSE "refused")
  /\ UNCHANGED <<kind, require2fa, form, scanned, tokens, generated, submitted, account, stops>>

\* The constraint on user names lets one of them through.
CreateDbUser(i) ==
  /\ kind = "genesis" /\ submissions[i].stage = "accepted"
  /\ account' = [account EXCEPT !.exists = TRUE]
  /\ submissions' = At(i, IF account.exists THEN "refused" ELSE "created")
  /\ UNCHANGED <<kind, require2fa, form, scanned, tokens, generated, submitted, stops>>

WriteUser(i) ==
  /\ submissions[i].stage = (IF kind = "genesis" THEN "created" ELSE "accepted")
  /\ account' = [account EXCEPT !.registered = TRUE, !.secret = submissions[i].secret]
  /\ submissions' = At(i, "written")
  /\ UNCHANGED <<kind, require2fa, form, scanned, tokens, generated, submitted, stops>>

\* The collection is made or found; the ingestion is named after their number.
CreateDefaultUserResources(i) ==
  /\ submissions[i].stage = "written"
  /\ account' = [account EXCEPT !.ingestions = @ + 1]
  /\ submissions' = At(i, "provided")
  /\ UNCHANGED <<kind, require2fa, form, scanned, tokens, generated, submitted, stops>>

(***************************************************************************)
(* The answers.                                                            *)
(***************************************************************************)

\* The client is sent to the login page, with what is under way.
OnComplete(i) ==
  /\ ~form.complete /\ submissions[i].stage = "provided"
  /\ form' = [form EXCEPT !.complete = TRUE, !.requesting = FALSE]
  /\ submissions' = RemoveAt(submissions, i)
  /\ UNCHANGED <<kind, require2fa, scanned, tokens, generated, submitted, account, stops>>

WrongCode(i) ==
  /\ ~form.complete /\ kind = "register" /\ submissions[i].stage = "wrong code"
  /\ form' = [form EXCEPT !.requesting = FALSE, !.code = NoSecret, !.told = "wrong code"]
  /\ submissions' = RemoveAt(submissions, i)
  /\ UNCHANGED <<kind, require2fa, scanned, tokens, generated, submitted, account, stops>>

BackToFirstPage(i) ==
  /\ ~form.complete /\ kind = "register" /\ submissions[i].stage = "refused"
  /\ form' = [form EXCEPT !.requesting = FALSE, !.phase1 = TRUE, !.entered = "empty",
                          !.told = "bad credentials"]
  /\ submissions' = RemoveAt(submissions, i)
  /\ UNCHANGED <<kind, require2fa, scanned, tokens, generated, submitted, account, stops>>

\* The genesis form stays where it is, whatever the reason.
GenesisFailed(i) ==
  /\ ~form.complete /\ kind = "genesis" /\ submissions[i].stage \in {"refused", "wrong code"}
  /\ form' = [form EXCEPT !.requesting = FALSE, !.told = "failed"]
  /\ submissions' = RemoveAt(submissions, i)
  /\ UNCHANGED <<kind, require2fa, scanned, tokens, generated, submitted, account, stops>>

\* The server stops between two steps, or its answer is lost.
Stop(i) ==
  /\ ~form.complete /\ stops < MaxStops /\ stops' = stops + 1
  /\ form' = [form EXCEPT !.requesting = FALSE,
                          !.told = IF kind = "genesis" THEN "failed" ELSE @]
  /\ submissions' = RemoveAt(submissions, i)
  /\ UNCHANGED <<kind, require2fa, scanned, tokens, generated, submitted, account>>

(***************************************************************************)
(* The specification.                                                      *)
(***************************************************************************)

RegistrationInit ==
  /\ kind \in {"register", "genesis"} /\ require2fa \in BOOLEAN
  /\ form = EmptyForm
  /\ scanned = {} /\ tokens = 0 /\ generated = 0
  /\ submissions = <<>> /\ submitted = 0 /\ stops = 0
  /\ account = [exists |-> kind = "register", registered |-> FALSE, secret |-> NoSecret,
                ingestions |-> 0]

RegistrationNext ==
  \/ \E e \in Entered : Fill(e) \/ FillGenesis(e)
  \/ ContinuePressed \/ TokenAnswered \/ TokenFailed
  \/ \E s \in Secrets : EnterCode(s)
  \/ Finish \/ Skip2fa
  \/ \E i \in DOMAIN submissions :
       \/ VerifyUser(i) \/ DoSetup(i) \/ CreateDbUser(i) \/ WriteUser(i)
       \/ CreateDefaultUserResources(i)
       \/ OnComplete(i) \/ WrongCode(i) \/ BackToFirstPage(i) \/ GenesisFailed(i) \/ Stop(i)

RegistrationSpec == RegistrationInit /\ [][RegistrationNext]_registrationVars

(***************************************************************************)
(* Properties.                                                             *)
(***************************************************************************)

\* Whatever was pressed, typed and sent again, the secret the server keeps is
\* one the user's authenticator holds, and there is one where the
\* configuration requires it (TFACommands.check2FA, RegisterUser.js,
\* CreateGenesisUser.js).
SecondFactorIsHeld ==
  account.registered =>
    IF account.secret = NoSecret THEN ~require2fa ELSE account.secret \in scanned

\* Who is told that all is done has an account with an ingestion to upload to
\* (Neo4jUserManagement.registerUser, RegisterUser.submit).
CompleteIsProvided == form.complete => account.registered /\ account.ingestions > 0

\* Both: what registration promises (RegisterUser.js, Neo4jUserManagement.scala).
RegistrationIsSound == SecondFactorIsHeld /\ CompleteIsProvided

\* Refuted.  "Unauthenticated, go back to first page"
\* (components/users/RegisterUser.js:105): Finish and then Skip, or an answer
\* that was lost, and a user who has just been registered is told of bad
\* credentials, and can never enter good ones.
ToldWhatIsTrue ==
  form.told = "bad credentials" /\ form.entered = "good" /\ ~form.complete => ~account.registered

\* Refuted.  "We will immediately register after creating"
\* (DatabaseUserProvider.scala:54): the server stops between the two, and a
\* user nobody can register closes the setup.
CreatedIsRegistered ==
  kind = "genesis" /\ submissions = <<>> => (account.exists => account.registered)

\* Refuted.  "default = Some(true)" (Neo4jUserManagement.scala:440): two
\* submissions that are both verified first leave two default ingestions.
OneDefaultIngestion == account.ingestions <= 1
=============================================================================
