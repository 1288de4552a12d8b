------------------------------- MODULE SmallPartsProofs -------------------------------
(***************************************************************************)
(* Theorems about Registration, UserAdmin and BatchSelection.              *)
(*                                                                         *)
(* What registration promises, for any number of secrets, submissions and  *)
(* stops.  The invariant follows a secret from the authenticator to the    *)
(* form, to the submission, to the account.                                *)
(*                                                                         *)
(* The page of the users is true to the server once all is answered,       *)
(* however many users and collections there are, and calls and lists in    *)
(* flight.  The invariant says of each thing that the page shows what is   *)
(* still owed while it is not: a call that has been made and whose answer  *)
(* asks for the list again, a choice of collections not yet made.          *)
(*                                                                         *)
(* A batch takes the first of the tasks, whatever their number, their      *)
(* costs and the limits: by induction over the tasks the reduce has seen.  *)
(***************************************************************************)
EXTENDS Registration, UserAdmin, BatchSelection, ListLemmas

AnySecret == Nat \cup {NoSecret}
Submissions == [entered : Entered, secret : AnySecret, code : AnySecret, stage : Stages]
Forms == [entered : Entered, phase1 : BOOLEAN, requesting : BOOLEAN, complete : BOOLEAN,
          secret : AnySecret, code : AnySecret,
          told : {"nothing", "wrong code", "bad credentials", "failed"}]
Accounts == [exists : BOOLEAN, registered : BOOLEAN, secret : AnySecret, ingestions : Nat]

\* The types the proof needs, without the bounds.
RegistrationTypes ==
  /\ require2fa \in BOOLEAN
  /\ form \in Forms
  /\ scanned \subseteq Nat
  /\ tokens \in Nat /\ generated \in Nat
  /\ submissions \in Seq(Submissions)
  /\ account \in Accounts

\* A secret that may be kept.
Permitted(secret, held, required) ==
  secret \in held \/ (secret = NoSecret /\ ~required)

\* A code is of a secret the user holds; from the check on the secret is the one
\* of the code; and the account is as far as the submission.
SubmissionIsSound(s, held, required, acc) ==
  /\ s.code \in held \cup {NoSecret}
  /\ s.stage \in {"accepted", "created", "written", "provided"} => Permitted(s.secret, held, required)
  /\ s.stage \in {"written", "provided"} => acc.registered
  /\ s.stage = "provided" => acc.ingestions > 0

SubmissionsAreSound ==
  \A i \in DOMAIN submissions : SubmissionIsSound(submissions[i], scanned, require2fa, account)

RegistrationInv ==
  /\ RegistrationTypes
  /\ form.code \in scanned \cup {NoSecret}
  /\ account.registered => Permitted(account.secret, scanned, require2fa)
  /\ CompleteIsProvided
  /\ SubmissionsAreSound

-----------------------------------------------------------------------------

\* What was sound stays so while the user scans more and the account gets on.
LEMMA StaysSound ==
  ASSUME NEW s, NEW held, NEW held2, NEW required, NEW acc \in Accounts, NEW acc2 \in Accounts,
         SubmissionIsSound(s, held, required, acc), held \subseteq held2,
         acc.registered => acc2.registered, acc.ingestions <= acc2.ingestions
  PROVE  SubmissionIsSound(s, held2, required, acc2)
BY DEF SubmissionIsSound, Permitted, Accounts

\* So do the submissions, whichever of them are left, and one that is added or
\* changed has to be sound itself.
LEMMA SubmissionsStaySound ==
  ASSUME RegistrationInv, scanned \subseteq scanned', UNCHANGED require2fa,
         account' \in Accounts, account.registered => account'.registered,
         account.ingestions <= account'.ingestions,
         \A j \in DOMAIN submissions' :
           \/ \E k \in DOMAIN submissions : submissions'[j] = submissions[k]
           \/ SubmissionIsSound(submissions'[j], scanned', require2fa, account')
  PROVE  SubmissionsAreSound'
<1>1. ASSUME NEW j \in DOMAIN submissions', NEW k \in DOMAIN submissions,
             submissions'[j] = submissions[k]
      PROVE  SubmissionIsSound(submissions'[j], scanned', require2fa, account')
  <2>1. SubmissionIsSound(submissions[k], scanned, require2fa, account)
    BY DEF RegistrationInv, SubmissionsAreSound
  <2>2. account \in Accounts
    BY DEF RegistrationInv, RegistrationTypes
  <2>3. QED
    BY <1>1, <2>1, <2>2, StaysSound
<1>2. QED
  BY <1>1 DEF SubmissionsAreSound

\* Steps of the form that leave the submissions and the account alone.
LEMMA FormStep ==
  ASSUME RegistrationInv, form' \in Forms, tokens' \in Nat, generated' \in Nat,
         form'.code = form.code \/ form'.code \in scanned,
         form'.complete = form.complete, scanned \subseteq scanned', scanned' \subseteq Nat,
         UNCHANGED <<require2fa, submissions, account>>
  PROVE  RegistrationInv'
<1>1. SubmissionsAreSound'
  BY SubmissionsStaySound DEF RegistrationInv, RegistrationTypes, Accounts
<1>2. RegistrationTypes' /\ CompleteIsProvided'
  BY DEF RegistrationInv, RegistrationTypes, CompleteIsProvided
<1>3. account'.registered => Permitted(account'.secret, scanned', require2fa')
  BY DEF RegistrationInv, Permitted
<1>4. form'.code \in scanned' \cup {NoSecret}
  BY DEF RegistrationInv
<1>5. QED
  BY <1>1, <1>2, <1>3, <1>4 DEF RegistrationInv

LEMMA TypingStep ==
  ASSUME RegistrationInv,
         \/ \E e \in Entered : Fill(e) \/ FillGenesis(e)
         \/ ContinuePressed \/ TokenAnswered \/ TokenFailed
         \/ \E s \in Secrets : EnterCode(s)
  PROVE  RegistrationInv'
<1>1. form \in Forms /\ tokens \in Nat /\ generated \in Nat /\ scanned \subseteq Nat
  BY DEF RegistrationInv, RegistrationTypes
<1>2. ASSUME NEW e \in Entered, Fill(e) \/ FillGenesis(e) PROVE RegistrationInv'
  <2>1. form' \in Forms /\ form'.code = form.code /\ form'.complete = form.complete
    BY <1>1, <1>2 DEF Fill, FillGenesis, Forms
  <2>2. UNCHANGED <<require2fa, scanned, tokens, generated, submissions, account>>
    BY <1>2 DEF Fill, FillGenesis
  <2>3. QED
    BY <1>1, <2>1, <2>2, FormStep
<1>3. CASE ContinuePressed
  BY <1>1, <1>3, FormStep DEF ContinuePressed
<1>4. CASE TokenAnswered
  <2>1. generated' = generated + 1 /\ generated' \in Nat /\ generated' \in AnySecret
    BY <1>1, <1>4 DEF TokenAnswered, AnySecret
  <2>2. form' = [form EXCEPT !.secret = generated', !.phase1 = FALSE]
    BY <1>4 DEF TokenAnswered
  <2>3. form' \in Forms /\ form'.code = form.code /\ form'.complete = form.complete
    BY <1>1, <2>1, <2>2 DEF Forms
  <2>4. tokens' \in Nat /\ UNCHANGED <<require2fa, submissions, account>>
    BY <1>1, <1>4 DEF TokenAnswered
  <2>5. scanned \subseteq scanned' /\ scanned' \subseteq Nat
    BY <1>1, <1>4, <2>1 DEF TokenAnswered, Shows2Fa
  <2>6. QED
    BY <2>1, <2>3, <2>4, <2>5, FormStep
<1>5. CASE TokenFailed
  BY <1>1, <1>5, FormStep DEF TokenFailed
<1>6. ASSUME NEW s \in Secrets, EnterCode(s) PROVE RegistrationInv'
  <2>1. s \in AnySecret
    BY RegistrationAssumption DEF Secrets, AnySecret
  <2>2. form' \in Forms /\ form'.code = s /\ form'.complete = form.complete /\ s \in scanned
    BY <1>1, <1>6, <2>1 DEF EnterCode, Forms
  <2>3. UNCHANGED <<require2fa, scanned, tokens, generated, submissions, account>>
    BY <1>6 DEF EnterCode
  <2>4. QED
    BY <1>1, <2>2, <2>3, FormStep
<1>7. QED
  BY <1>2, <1>3, <1>4, <1>5, <1>6

LEMMA SubmitStep ==
  ASSUME RegistrationInv, Finish \/ Skip2fa
  PROVE  RegistrationInv'
<1>1. PICK secret \in AnySecret, code \in AnySecret :
        Submission(secret, code) /\ code \in scanned \cup {NoSecret}
  BY DEF Finish, Skip2fa, Submit, SubmitDatabase, RegistrationInv, RegistrationTypes, Forms, AnySecret
<1> DEFINE s == [entered |-> form.entered, secret |-> secret, code |-> code, stage |-> "sent"]
<1>2. /\ form \in Forms /\ submissions \in Seq(Submissions) /\ account \in Accounts
  BY DEF RegistrationInv, RegistrationTypes
<1>3. s \in Submissions
  BY <1>1, <1>2 DEF Submissions, Forms, Stages
<1>4. SubmissionIsSound(s, scanned, require2fa, account)
  BY <1>1 DEF SubmissionIsSound
<1>5. submissions' = Append(submissions, s)
  BY <1>1 DEF Submission
<1> HIDE DEF s
<1>6. /\ submissions' \in Seq(Submissions)
      /\ \A j \in DOMAIN submissions' : submissions'[j] = s \/ (j \in DOMAIN submissions /\ submissions'[j] = submissions[j])
  BY <1>2, <1>3, <1>5
<1>7. UNCHANGED <<require2fa, scanned, tokens, generated, account>>
  BY <1>1 DEF Submission
<1>8. form' \in Forms /\ form'.code = form.code /\ form'.complete = form.complete
  BY <1>1, <1>2 DEF Submission, Forms
<1>9. SubmissionsAreSound'
  BY <1>2, <1>4, <1>6, <1>7, SubmissionsStaySound DEF Accounts
<1>10. QED
  BY <1>6, <1>7, <1>8, <1>9 DEF RegistrationInv, RegistrationTypes, CompleteIsProvided, Permitted

-----------------------------------------------------------------------------

\* A step of the server moves one submission on, and perhaps the account.
LEMMA ServerStep ==
  ASSUME RegistrationInv, NEW i \in DOMAIN submissions, NEW stage \in Stages,
         submissions' = At(i, stage),
         SubmissionIsSound([submissions[i] EXCEPT !.stage = stage], scanned, require2fa, account'),
         account' \in Accounts, account.registered => account'.registered,
         account.ingestions <= account'.ingestions,
         account'.registered => Permitted(account'.secret, scanned, require2fa),
         UNCHANGED <<require2fa, form, scanned, tokens, generated>>
  PROVE  RegistrationInv'
<1> DEFINE s == [submissions[i] EXCEPT !.stage = stage]
<1>1. submissions \in Seq(Submissions) /\ submissions[i] \in Submissions
  BY DEF RegistrationInv, RegistrationTypes
<1>2. s \in Submissions
  BY <1>1 DEF Submissions
<1>3. submissions' = [submissions EXCEPT ![i] = s]
  BY DEF At
<1>4. SubmissionIsSound(s, scanned, require2fa, account')
  OBVIOUS
<1> HIDE DEF s
<1>5. /\ submissions' \in Seq(Submissions) /\ DOMAIN submissions' = DOMAIN submissions
      /\ \A j \in DOMAIN submissions' : submissions'[j] = IF j = i THEN s ELSE submissions[j]
  BY <1>1, <1>2, <1>3
<1>6. SubmissionsAreSound'
  BY <1>4, <1>5, SubmissionsStaySound
<1>7. CompleteIsProvided'
  <2>1. /\ account \in Accounts /\ CompleteIsProvided
        /\ account'.ingestions \in Nat /\ account.ingestions \in Nat
    BY DEF RegistrationInv, RegistrationTypes, Accounts
  <2>2. QED
    BY <2>1 DEF CompleteIsProvided
<1>8. QED
  BY <1>5, <1>6, <1>7 DEF RegistrationInv, RegistrationTypes

LEMMA CheckIsSound ==
  ASSUME RegistrationInv, NEW i \in DOMAIN submissions
  PROVE  /\ Check2FA(submissions[i]) \in {"accepted", "refused", "wrong code"}
         /\ Check2FA(submissions[i]) = "accepted" =>
              Permitted(submissions[i].secret, scanned, require2fa)
<1>1. submissions[i].code \in scanned \cup {NoSecret} /\ require2fa \in BOOLEAN
  BY DEF RegistrationInv, RegistrationTypes, SubmissionsAreSound, SubmissionIsSound
<1>2. CASE require2fa /\ submissions[i].secret = NoSecret
  BY <1>2 DEF Check2FA
<1>3. CASE ~(require2fa /\ submissions[i].secret = NoSecret) /\ submissions[i].secret = submissions[i].code
  <2>1. Check2FA(submissions[i]) = "accepted"
    BY <1>3 DEF Check2FA
  <2>2. QED
    BY <1>1, <1>3, <2>1 DEF Permitted
<1>4. CASE ~(require2fa /\ submissions[i].secret = NoSecret) /\ submissions[i].secret # submissions[i].code
  <2>1. Check2FA(submissions[i]) = "wrong code"
    BY <1>4 DEF Check2FA
  <2>2. QED
    BY <2>1
<1>5. QED
  BY <1>2, <1>3, <1>4

LEMMA WorkStep ==
  ASSUME RegistrationInv, NEW i \in DOMAIN submissions,
         \/ VerifyUser(i) \/ DoSetup(i) \/ CreateDbUser(i) \/ WriteUser(i)
         \/ CreateDefaultUserResources(i)
  PROVE  RegistrationInv'
<1> DEFINE s == submissions[i]
<1>1. /\ s \in Submissions /\ account \in Accounts
      /\ SubmissionIsSound(s, scanned, require2fa, account)
      /\ account.registered => Permitted(account.secret, scanned, require2fa)
  BY DEF RegistrationInv, RegistrationTypes, SubmissionsAreSound
<1>2. account.ingestions \in Nat /\ account.ingestions <= account.ingestions
  BY <1>1 DEF Accounts
<1>3. \A stage \in Stages :
        /\ [s EXCEPT !.stage = stage].code = s.code /\ [s EXCEPT !.stage = stage].secret = s.secret
        /\ [s EXCEPT !.stage = stage].stage = stage
  BY <1>1 DEF Submissions
<1>4. {"accepted", "refused", "wrong code", "created", "written", "provided"} \subseteq Stages
  BY DEF Stages
<1>5. CASE VerifyUser(i) \/ DoSetup(i)
  <2>1. PICK stage \in {"accepted", "refused", "wrong code"} :
          /\ submissions' = At(i, stage)
          /\ stage = "accepted" => Permitted(s.secret, scanned, require2fa)
    BY <1>5, CheckIsSound DEF VerifyUser, DoSetup
  <2>2. UNCHANGED <<require2fa, form, scanned, tokens, generated, account>>
    BY <1>5 DEF VerifyUser, DoSetup
  <2>3. stage \in Stages
    BY <1>4
  <2>4. SubmissionIsSound([s EXCEPT !.stage = stage], scanned, require2fa, account')
    BY <1>1, <1>3, <2>1, <2>2, <2>3 DEF SubmissionIsSound
  <2>5. QED
    BY <1>1, <1>2, <2>1, <2>2, <2>3, <2>4, ServerStep
<1>6. CASE CreateDbUser(i)
  <2>1. PICK stage \in {"created", "refused"} : submissions' = At(i, stage)
    BY <1>6 DEF CreateDbUser
  <2>2. /\ account' = [account EXCEPT !.exists = TRUE] /\ s.stage = "accepted"
        /\ UNCHANGED <<require2fa, form, scanned, tokens, generated>>
    BY <1>6 DEF CreateDbUser
  <2>3. /\ account' \in Accounts /\ account'.registered = account.registered
        /\ account'.secret = account.secret /\ account'.ingestions = account.ingestions
    BY <1>1, <2>2 DEF Accounts
  <2>4. stage \in Stages
    BY <1>4
  <2>5. SubmissionIsSound([s EXCEPT !.stage = stage], scanned, require2fa, account')
    BY <1>1, <1>3, <2>1, <2>2, <2>4 DEF SubmissionIsSound
  <2>6. QED
    BY <1>1, <1>2, <2>1, <2>2, <2>3, <2>4, <2>5, ServerStep
<1>7. CASE WriteUser(i)
  <2>1. /\ account' = [account EXCEPT !.registered = TRUE, !.secret = s.secret]
        /\ s.stage \in {"accepted", "created"} /\ submissions' = At(i, "written")
        /\ UNCHANGED <<require2fa, form, scanned, tokens, generated>>
    BY <1>7 DEF WriteUser
  <2>2. s.secret \in AnySecret
    BY <1>1 DEF Submissions
  <2>3. /\ account' \in Accounts /\ account'.registered
        /\ account'.secret = s.secret /\ account'.ingestions = account.ingestions
    BY <1>1, <2>1, <2>2 DEF Accounts
  <2>4. Permitted(s.secret, scanned, require2fa)
    BY <1>1, <2>1 DEF SubmissionIsSound
  <2>5. "written" \in Stages
    BY <1>4
  <2>6. SubmissionIsSound([s EXCEPT !.stage = "written"], scanned, require2fa, account')
    BY <1>1, <1>3, <2>3, <2>4, <2>5 DEF SubmissionIsSound
  <2>7. QED
    BY <1>2, <2>1, <2>3, <2>4, <2>5, <2>6, ServerStep
<1>8. CASE CreateDefaultUserResources(i)
  <2>1. /\ account' = [account EXCEPT !.ingestions = @ + 1]
        /\ s.stage = "written" /\ submissions' = At(i, "provided")
        /\ UNCHANGED <<require2fa, form, scanned, tokens, generated>>
    BY <1>8 DEF CreateDefaultUserResources
  <2>2. /\ account' \in Accounts /\ account'.registered = account.registered
        /\ account'.secret = account.secret /\ account'.ingestions = account.ingestions + 1
    BY <1>1, <1>2, <2>1 DEF Accounts
  <2>3. account.ingestions <= account'.ingestions /\ account'.ingestions > 0
    BY <1>2, <2>2
  <2>4. "provided" \in Stages
    BY <1>4
  <2>5. SubmissionIsSound([s EXCEPT !.stage = "provided"], scanned, require2fa, account')
    BY <1>1, <1>3, <2>1, <2>2, <2>3, <2>4 DEF SubmissionIsSound
  <2>6. QED
    BY <1>1, <2>1, <2>2, <2>3, <2>4, <2>5, ServerStep
<1>9. QED
  BY <1>5, <1>6, <1>7, <1>8

\* An answer takes one submission out.
LEMMA AnswerStep ==
  ASSUME RegistrationInv, NEW i \in DOMAIN submissions,
         OnComplete(i) \/ WrongCode(i) \/ BackToFirstPage(i) \/ GenesisFailed(i) \/ Stop(i)
  PROVE  RegistrationInv'
<1>1. /\ form \in Forms /\ submissions \in Seq(Submissions) /\ account \in Accounts
      /\ SubmissionIsSound(submissions[i], scanned, require2fa, account)
  BY DEF RegistrationInv, RegistrationTypes, SubmissionsAreSound
<1>2. /\ submissions' = RemoveAt(submissions, i)
      /\ UNCHANGED <<require2fa, scanned, tokens, generated, account>>
  BY DEF OnComplete, WrongCode, BackToFirstPage, GenesisFailed, Stop
<1>3. /\ submissions' \in Seq(Submissions)
      /\ \A j \in DOMAIN submissions' : \E k \in DOMAIN submissions : submissions'[j] = submissions[k]
  BY <1>1, <1>2, RemoveAtOld
<1>4. SubmissionsAreSound'
  BY <1>1, <1>2, <1>3, SubmissionsStaySound DEF Accounts
<1>5. /\ form' \in Forms
      /\ form'.code \in {form.code, NoSecret}
      /\ form'.complete => form.complete \/ (account.registered /\ account.ingestions > 0)
  <2>1. CASE OnComplete(i)
    BY <1>1, <2>1 DEF OnComplete, Forms, SubmissionIsSound
  <2>2. CASE WrongCode(i)
    BY <1>1, <2>2 DEF WrongCode, Forms, AnySecret
  <2>3. CASE BackToFirstPage(i)
    BY <1>1, <2>3 DEF BackToFirstPage, Forms, Entered
  <2>4. CASE GenesisFailed(i)
    BY <1>1, <2>4 DEF GenesisFailed, Forms
  <2>5. CASE Stop(i)
    BY <1>1, <2>5 DEF Stop, Forms
  <2>6. QED
    BY <2>1, <2>2, <2>3, <2>4, <2>5
<1>6. QED
  BY <1>2, <1>3, <1>4, <1>5
     DEF RegistrationInv, RegistrationTypes, CompleteIsProvided, Permitted

LEMMA RegistrationStep ==
  ASSUME RegistrationInv, [RegistrationNext]_registrationVars
  PROVE  RegistrationInv'
<1>1. CASE RegistrationNext
  BY <1>1, TypingStep, SubmitStep, WorkStep, AnswerStep DEF RegistrationNext
<1>2. CASE UNCHANGED registrationVars
  BY <1>2 DEF registrationVars, RegistrationInv, RegistrationTypes, CompleteIsProvided,
              SubmissionsAreSound
<1>3. QED
  BY <1>1, <1>2

\* However often the forms are filled, submitted and answered: a registered
\* account has a second factor its user holds, or none where none is required,
\* and who is told that all is done has an ingestion to upload to
\* (TFACommands.check2FA, RegisterUser.js, Neo4jUserManagement.scala).
THEOREM RegistrationSound == RegistrationSpec => []RegistrationIsSound
<1>1. RegistrationInit => RegistrationInv
  <2> SUFFICES ASSUME RegistrationInit PROVE RegistrationInv
    OBVIOUS
  <2>1. form \in Forms /\ form.code = NoSecret /\ ~form.complete
    BY DEF RegistrationInit, EmptyForm, Forms, Entered, AnySecret
  <2>2. account \in Accounts /\ ~account.registered
    BY DEF RegistrationInit, Accounts, AnySecret
  <2>3. submissions \in Seq(Submissions) /\ submissions = <<>>
    BY DEF RegistrationInit
  <2>4. QED
    BY <2>1, <2>2, <2>3
       DEF RegistrationInit, RegistrationInv, RegistrationTypes, CompleteIsProvided,
           SubmissionsAreSound
<1>2. RegistrationInv => RegistrationIsSound
  BY RegistrationAssumption DEF RegistrationInv, RegistrationTypes, RegistrationIsSound, SecondFactorIsHeld, Permitted
<1>3. QED
  BY <1>1, <1>2, RegistrationStep, PTL DEF RegistrationSpec

-----------------------------------------------------------------------------
(* The page of the users *)

CallStages == {"sent", "read", "removed", "done", "failed"}
AnyCalls == [kind : Kinds, name : Names, value : SUBSET Collections, grant : BOOLEAN,
             toRemove : SUBSET Collections, stage : CallStages]
AnyLists == [read : BOOLEAN, users : SUBSET Listed]
Pages == [mounted : BOOLEAN, admin : BOOLEAN, creating : BOOLEAN, createModal : BOOLEAN,
          createFailed : BOOLEAN, deleteModal : {NoUser} \cup {Modal(n) : n \in Names}]

\* The types the proof needs, without the bounds.
AdminTypes ==
  /\ existing \subseteq Names /\ admins \subseteq existing
  /\ visible \in [Names -> SUBSET Collections]
  /\ page \in Pages
  /\ users \subseteq Listed
  /\ lists \in Seq(AnyLists)
  /\ calls \in Seq(AnyCalls)
  /\ lastChosen \in [Names -> SUBSET Collections]
  /\ disturbed \in BOOLEAN

Creations == {c \in AnyCalls : c.kind = "create"}

\* CreatingIsInFlight, without counting.
CreatingInv == AtMostOne(calls, Creations) /\ (Has(calls, Creations) <=> page.creating)

\* What a call is not made for: nobody deletes or demotes themselves.
Aimed(c) == c.kind \in {"delete", "permissions"} => c.name # Me

MeInv ==
  /\ Me \in existing /\ (~disturbed => Me \in admins)
  /\ page.deleteModal # Modal(Me)
  /\ \A i \in DOMAIN calls : Aimed(calls[i])

AdminBase == AdminTypes /\ CreatingInv /\ MeInv

-----------------------------------------------------------------------------
(* What a step does to the calls *)

CallAdded(c) == c \in AnyCalls /\ c.stage = "sent" /\ calls' = Append(calls, c)

Moved(i, c) ==
  /\ c \in AnyCalls /\ calls' = [calls EXCEPT ![i] = c]
  /\ c.kind = calls[i].kind /\ c.name = calls[i].name /\ c.value = calls[i].value

Taken(i) == calls' = RemoveAt(calls, i)

NewCall(k, n, value, grant) ==
  [kind |-> k, name |-> n, value |-> value, grant |-> grant, toRemove |-> {}, stage |-> "sent"]

LEMMA CallAdds ==
  ASSUME NEW k \in Kinds, NEW n \in Names, NEW value \in SUBSET Collections, NEW grant \in BOOLEAN,
         Call(k, n, value, grant)
  PROVE  CallAdded(NewCall(k, n, value, grant))
BY DEF Call, CallAdded, NewCall, AnyCalls, CallStages

LEMMA StageMoves ==
  ASSUME AdminTypes, NEW i \in DOMAIN calls, NEW st \in CallStages, Stage(i, st)
  PROVE  Moved(i, [calls[i] EXCEPT !.stage = st])
<1>1. calls[i] \in AnyCalls
  BY DEF AdminTypes
<1> DEFINE c == [calls[i] EXCEPT !.stage = st]
<1>2. c \in AnyCalls /\ c.kind = calls[i].kind /\ c.name = calls[i].name /\ c.value = calls[i].value
  BY <1>1 DEF AnyCalls
<1>3. calls' = [calls EXCEPT ![i] = c]
  BY DEF Stage
<1>4. QED
  BY <1>2, <1>3 DEF Moved

LEMMA ReadMoves ==
  ASSUME AdminTypes, NEW i \in DOMAIN calls, CollectionsRead(i)
  PROVE  /\ calls[i].name \in Names
         /\ Moved(i, [calls[i] EXCEPT !.stage = IF Me \in admins THEN "read" ELSE "failed",
                                      !.toRemove = visible[calls[i].name]])
<1>1. calls[i] \in AnyCalls
  BY DEF AdminTypes
<1>2. calls[i].name \in Names
  BY <1>1 DEF AnyCalls
<1> DEFINE st == IF Me \in admins THEN "read" ELSE "failed"
<1> DEFINE v == visible[calls[i].name]
<1>3. st \in CallStages /\ v \in SUBSET Collections
  BY <1>2 DEF AdminTypes, CallStages
<1> DEFINE c == [calls[i] EXCEPT !.stage = st, !.toRemove = v]
<1>4. calls' = [calls EXCEPT ![i] = c]
  BY DEF CollectionsRead, AdminTypes
<1> HIDE DEF st, v
<1>5. c \in AnyCalls /\ c.kind = calls[i].kind /\ c.name = calls[i].name /\ c.value = calls[i].value
  BY <1>1, <1>3 DEF AnyCalls
<1>6. QED
  BY <1>2, <1>4, <1>5 DEF Moved, st, v

\* Types, and for whom calls are made, follow from what a step does to the calls.
LEMMA CallsStayAimed ==
  ASSUME AdminTypes, \A j \in DOMAIN calls : Aimed(calls[j]),
         \/ \E c : CallAdded(c) /\ Aimed(c)
         \/ \E i \in DOMAIN calls : \E c : Moved(i, c)
         \/ \E i \in DOMAIN calls : Taken(i)
         \/ UNCHANGED calls
  PROVE  calls' \in Seq(AnyCalls) /\ \A j \in DOMAIN calls' : Aimed(calls'[j])
<1>0. calls \in Seq(AnyCalls)
  BY DEF AdminTypes
<1>1. ASSUME NEW c, CallAdded(c), Aimed(c)
      PROVE  calls' \in Seq(AnyCalls) /\ \A j \in DOMAIN calls' : Aimed(calls'[j])
  <2>1. /\ calls' \in Seq(AnyCalls)
        /\ \A j \in DOMAIN calls' : calls'[j] = c \/ (j \in DOMAIN calls /\ calls'[j] = calls[j])
    BY <1>0, <1>1 DEF CallAdded
  <2>2. QED
    BY <1>1, <2>1
<1>2. ASSUME NEW i \in DOMAIN calls, NEW c, Moved(i, c)
      PROVE  calls' \in Seq(AnyCalls) /\ \A j \in DOMAIN calls' : Aimed(calls'[j])
  <2>1. /\ calls' \in Seq(AnyCalls) /\ DOMAIN calls' = DOMAIN calls
        /\ \A j \in DOMAIN calls : calls'[j] = IF j = i THEN c ELSE calls[j]
    BY <1>0, <1>2 DEF Moved
  <2>2. QED
    BY <1>2, <2>1 DEF Moved, Aimed
<1>3. ASSUME NEW i \in DOMAIN calls, Taken(i)
      PROVE  calls' \in Seq(AnyCalls) /\ \A j \in DOMAIN calls' : Aimed(calls'[j])
  <2>1. /\ RemoveAt(calls, i) \in Seq(AnyCalls)
        /\ \A j \in DOMAIN RemoveAt(calls, i) :
             \E k \in DOMAIN calls : k # i /\ RemoveAt(calls, i)[j] = calls[k]
    BY <1>0, RemoveAtOld
  <2>2. QED
    BY <1>3, <2>1 DEF Taken
<1>4. QED
  BY <1>0, <1>1, <1>2, <1>3

\* The creation that is in flight.
LEMMA CreationsStay ==
  ASSUME AdminTypes, CreatingInv,
         \/ \E c : CallAdded(c) /\ c.kind # "create" /\ page'.creating = page.creating
         \/ \E c : CallAdded(c) /\ c.kind = "create" /\ ~page.creating /\ page'.creating = TRUE
         \/ \E i \in DOMAIN calls : \E c : Moved(i, c) /\ page'.creating = page.creating
         \/ \E i \in DOMAIN calls :
              Taken(i) /\ page'.creating = IF calls[i].kind = "create" THEN FALSE ELSE page.creating
         \/ UNCHANGED calls /\ page'.creating = page.creating
  PROVE  CreatingInv'
<1>0. calls \in Seq(AnyCalls) /\ AtMostOne(calls, Creations) /\ (Has(calls, Creations) <=> page.creating)
  BY DEF AdminTypes, CreatingInv
<1>1. \A i \in DOMAIN calls : calls[i] \in AnyCalls
  BY <1>0
<1>2. SUFFICES AtMostOne(calls', Creations) /\ (Has(calls', Creations) <=> page'.creating)
  BY DEF CreatingInv, Creations, AnyCalls
<1>3. ASSUME NEW c, CallAdded(c), c.kind # "create", page'.creating = page.creating
      PROVE  AtMostOne(calls', Creations) /\ (Has(calls', Creations) <=> page'.creating)
  <2>1. c \notin Creations /\ c \in AnyCalls
    BY <1>3 DEF Creations, CallAdded
  <2>2. QED
    BY <1>0, <1>3, <2>1, AppendOne DEF CallAdded
<1>4. ASSUME NEW c, CallAdded(c), c.kind = "create", ~page.creating, page'.creating = TRUE
      PROVE  AtMostOne(calls', Creations) /\ (Has(calls', Creations) <=> page'.creating)
  <2>1. c \in Creations /\ c \in AnyCalls
    BY <1>4 DEF Creations, CallAdded
  <2>2. QED
    BY <1>0, <1>4, <2>1, AppendOne DEF CallAdded
<1>5. ASSUME NEW i \in DOMAIN calls, NEW c, Moved(i, c), page'.creating = page.creating
      PROVE  AtMostOne(calls', Creations) /\ (Has(calls', Creations) <=> page'.creating)
  <2>1. (c \in Creations <=> calls[i] \in Creations) /\ c \in AnyCalls
    BY <1>1, <1>5 DEF Creations, Moved
  <2>2. QED
    BY <1>0, <1>5, <2>1, ReplaceOne DEF Moved
<1>6. ASSUME NEW i \in DOMAIN calls, Taken(i),
             page'.creating = IF calls[i].kind = "create" THEN FALSE ELSE page.creating
      PROVE  AtMostOne(calls', Creations) /\ (Has(calls', Creations) <=> page'.creating)
  <2>1. calls[i] \in Creations <=> calls[i].kind = "create"
    BY <1>1 DEF Creations
  <2>2. QED
    BY <1>0, <1>6, <2>1, RemoveOne DEF Taken
<1>7. QED
  BY <1>0, <1>3, <1>4, <1>5, <1>6

LEMMA ListsTyped ==
  ASSUME AdminTypes,
         \/ ListUsers
         \/ \E i \in DOMAIN lists : ListUsersRead(i)
         \/ \E i \in DOMAIN lists : ReceiveUserList(i) \/ ErrorReceivingUserList(i)
         \/ UNCHANGED lists
  PROVE  lists' \in Seq(AnyLists)
<1>1. lists \in Seq(AnyLists)
  BY DEF AdminTypes
<1>2. CASE ListUsers
  <2>1. UnreadUsers \in AnyLists
    BY DEF UnreadUsers, AnyLists
  <2>2. QED
    BY <1>1, <1>2, <2>1 DEF ListUsers
<1>3. ASSUME NEW i \in DOMAIN lists, ListUsersRead(i) PROVE lists' \in Seq(AnyLists)
  <2>1. ListAsAdmin \in SUBSET Listed /\ ListAsPunter \in SUBSET Listed
    <3>1. \A n \in existing : n \in Names
      BY DEF AdminTypes
    <3>2. \A n \in existing : User(n) \in Listed /\ Punter(n) \in Listed
      BY <3>1 DEF User, Punter, Listed
    <3>3. QED
      BY <3>2, Zenon DEF ListAsAdmin, ListAsPunter
  <2> DEFINE us == IF Me \in admins THEN ListAsAdmin ELSE ListAsPunter
  <2>2. us \in SUBSET Listed
    BY <2>1
  <2>3. lists' = [lists EXCEPT ![i] = [read |-> TRUE, users |-> us]]
    BY <1>3 DEF ListUsersRead
  <2> HIDE DEF us
  <2>4. [read |-> TRUE, users |-> us] \in AnyLists
    BY <2>2 DEF AnyLists
  <2>5. QED
    BY <1>1, <2>3, <2>4
<1>4. ASSUME NEW i \in DOMAIN lists, ReceiveUserList(i) \/ ErrorReceivingUserList(i)
      PROVE  lists' \in Seq(AnyLists)
  BY <1>1, <1>4, RemoveAtOld DEF ReceiveUserList, ErrorReceivingUserList
<1>5. QED
  BY <1>1, <1>2, <1>3, <1>4

LEMMA PageStepBase ==
  ASSUME AdminBase,
         \/ Mount \/ Unmount \/ ReceiveMyPermissions \/ OpenCreate \/ DismissCreate \/ DismissDelete
         \/ \E n \in Names : AskDelete(n)
  PROVE  AdminBase'
<1>1. AdminTypes /\ CreatingInv /\ MeInv /\ page \in Pages
  BY DEF AdminBase, AdminTypes
<1>2. /\ UNCHANGED <<existing, admins, visible, users, calls, lastChosen, disturbed>>
      /\ ListUsers \/ UNCHANGED lists
  BY DEF Mount, Unmount, ReceiveMyPermissions, OpenCreate, DismissCreate, DismissDelete, AskDelete
<1>3. /\ page' \in Pages /\ page'.creating = page.creating
      /\ page'.deleteModal # Modal(Me)
  <2>1. NoUser # Modal(Me)
    BY DEF NoUser, Modal
  <2>2. CASE Mount \/ DismissDelete
    <3>1. page' \in Pages /\ page'.creating = page.creating /\ page'.deleteModal = NoUser
      BY <1>1, <2>2 DEF Pages, Mount, DismissDelete
    <3>2. QED
      BY <2>1, <3>1
  <2>3. CASE Unmount \/ ReceiveMyPermissions \/ OpenCreate \/ DismissCreate
    <3>1. (Me \in admins) \in BOOLEAN
      OBVIOUS
    <3>2. page.deleteModal # Modal(Me)
      BY <1>1 DEF MeInv
    <3>3. \/ page' = [page EXCEPT !.mounted = FALSE]
          \/ page' = [page EXCEPT !.admin = Me \in admins]
          \/ \E b \in BOOLEAN : page' = [page EXCEPT !.createModal = b]
      BY <2>3 DEF Unmount, ReceiveMyPermissions, OpenCreate, DismissCreate
    <3>4. QED
      BY <1>1, <3>1, <3>2, <3>3 DEF Pages
  <2>4. ASSUME NEW n \in Names, AskDelete(n)
        PROVE  page' \in Pages /\ page'.creating = page.creating /\ page'.deleteModal # Modal(Me)
    BY <1>1, <2>4 DEF Pages, AskDelete, Modal
  <2>5. QED
    BY <2>2, <2>3, <2>4
<1>4. lists' \in Seq(AnyLists)
  BY <1>1, <1>2, ListsTyped
<1>5. AdminTypes'
  BY <1>1, <1>2, <1>3, <1>4 DEF AdminTypes
<1>6. CreatingInv' /\ MeInv'
  BY <1>1, <1>2, <1>3, CreationsStay DEF MeInv, Aimed
<1>7. QED
  BY <1>5, <1>6 DEF AdminBase

LEMMA ListStepBase ==
  ASSUME AdminBase, NEW i \in DOMAIN lists,
         ListUsersRead(i) \/ ReceiveUserList(i) \/ ErrorReceivingUserList(i)
  PROVE  AdminBase'
<1>1. AdminTypes /\ CreatingInv /\ MeInv
  BY DEF AdminBase
<1>2. /\ UNCHANGED <<existing, admins, visible, page, calls, lastChosen>>
      /\ disturbed' \in BOOLEAN /\ (disturbed => disturbed')
  BY <1>1 DEF ListUsersRead, ReceiveUserList, ErrorReceivingUserList, AdminTypes
<1>3. lists' \in Seq(AnyLists)
  BY <1>1, ListsTyped
<1>4. users' \subseteq Listed
  <2>1. lists[i] \in AnyLists
    BY <1>1 DEF AdminTypes
  <2>2. lists[i].users \subseteq Listed
    BY <2>1 DEF AnyLists
  <2>3. QED
    BY <1>1, <2>2 DEF ListUsersRead, ReceiveUserList, ErrorReceivingUserList, AdminTypes
<1>5. CreatingInv'
  BY <1>1, <1>2, CreationsStay
<1>6. QED
  BY <1>1, <1>2, <1>3, <1>4, <1>5 DEF AdminBase, AdminTypes, MeInv, Aimed

\* What the user asks for.
LEMMA AskStepBase ==
  ASSUME AdminBase, NEW n \in Names,
         \/ CreateUser(n) \/ DeleteUser(n) \/ SavePermissions(n)
         \/ \E choice \in SUBSET Collections : SaveCollections(n, choice)
  PROVE  /\ AdminBase'
         /\ \E c : CallAdded(c) /\ c.name = n
<1>1. AdminTypes /\ CreatingInv /\ MeInv
  BY DEF AdminBase
<1>2. Kinds = {"create", "delete", "permissions", "collections"}
  BY DEF Kinds
<1> DEFINE Fits(c) ==
      /\ CallAdded(c) /\ c.name = n /\ Aimed(c)
      /\ c.kind = "create" => ~page.creating /\ page'.creating = TRUE
      /\ c.kind # "create" => page'.creating = page.creating
<1>3. PICK c : Fits(c)
  <2>1. CASE CreateUser(n)
    <3>1. CallAdded(NewCall("create", n, {}, FALSE))
      BY <1>2, <2>1, CallAdds DEF CreateUser
    <3>2. ~page.creating /\ page'.creating = TRUE
      BY <1>1, <2>1 DEF CreateUser, CanCreate, AdminTypes, Pages
    <3>3. QED
      BY <3>1, <3>2 DEF NewCall, Aimed
  <2>2. CASE DeleteUser(n)
    <3>1. CallAdded(NewCall("delete", n, {}, FALSE)) /\ n # Me /\ page' = page
      BY <1>1, <1>2, <2>2, CallAdds DEF DeleteUser, MeInv
    <3>2. QED
      BY <3>1 DEF NewCall, Aimed
  <2>3. CASE SavePermissions(n)
    <3>1. PICK u \in users : u.name = n /\ Call("permissions", n, {}, ~u.admin)
      BY <2>3 DEF SavePermissions
    <3> DEFINE grant == ~u.admin
    <3>2. Call("permissions", n, {}, grant) /\ grant \in BOOLEAN
      BY <3>1
    <3> HIDE DEF grant
    <3>3. CallAdded(NewCall("permissions", n, {}, grant))
      BY <1>2, <3>2, CallAdds
    <3>4. n # Me /\ page' = page
      BY <2>3 DEF SavePermissions
    <3>5. QED
      BY <3>3, <3>4 DEF NewCall, Aimed
  <2>4. ASSUME NEW choice \in SUBSET Collections, SaveCollections(n, choice)
        PROVE  \E c : Fits(c)
    <3>1. CallAdded(NewCall("collections", n, choice, FALSE)) /\ page' = page
      BY <1>2, <2>4, CallAdds DEF SaveCollections
    <3>2. QED
      BY <3>1 DEF NewCall, Aimed
  <2> HIDE DEF Fits
  <2>5. QED
    BY <2>1, <2>2, <2>3, <2>4
<1>4. /\ UNCHANGED <<existing, admins, visible, users, lists>>
      /\ disturbed' \in BOOLEAN /\ (disturbed => disturbed')
  BY <1>1 DEF CreateUser, DeleteUser, SavePermissions, SaveCollections, AdminTypes
<1>5. page' \in Pages /\ page'.deleteModal = page.deleteModal
  BY <1>1 DEF CreateUser, CanCreate, DeleteUser, SavePermissions, SaveCollections, AdminTypes, Pages
<1>6. lastChosen' \in [Names -> SUBSET Collections]
  BY <1>1 DEF CreateUser, DeleteUser, SavePermissions, SaveCollections, AdminTypes
<1>7. CreatingInv'
  BY <1>1, <1>3, CreationsStay
<1>8. calls' \in Seq(AnyCalls) /\ \A j \in DOMAIN calls' : Aimed(calls'[j])
  BY <1>1, <1>3, CallsStayAimed DEF MeInv
<1>9. AdminTypes'
  BY <1>1, <1>4, <1>5, <1>6, <1>8 DEF AdminTypes
<1>10. MeInv'
  BY <1>1, <1>4, <1>5, <1>8 DEF MeInv, Aimed
<1>11. QED
  BY <1>3, <1>7, <1>9, <1>10 DEF AdminBase

\* What the server does, and another administrator.
LEMMA ServerStepBase ==
  ASSUME AdminBase, NEW i \in DOMAIN calls,
         \/ CreateDone(i) \/ DeleteDone(i) \/ PermissionsDone(i)
         \/ CollectionsRead(i) \/ CollectionsRemoved(i) \/ CollectionsAdded(i)
  PROVE  /\ AdminBase'
         /\ \E c : Moved(i, c)
<1> DEFINE k == calls[i]
<1>1. AdminTypes /\ CreatingInv /\ MeInv
  BY DEF AdminBase
<1>2. k \in AnyCalls /\ k.name \in Names /\ k.value \in SUBSET Collections /\ Aimed(k)
  <2>1. k \in AnyCalls
    BY <1>1 DEF AdminTypes
  <2>2. QED
    BY <1>1, <2>1 DEF AnyCalls, MeInv
<1>3. PICK c : Moved(i, c)
  <2>1. CallStages = {"sent", "read", "removed", "done", "failed"}
    BY DEF CallStages
  <2>2. CASE CollectionsRead(i)
    BY <1>1, <2>2, ReadMoves
  <2>3. CASE ~CollectionsRead(i)
    <3>1. \E st \in CallStages : Stage(i, st)
      BY <2>1, <2>3 DEF CreateDone, DeleteDone, PermissionsDone, CollectionsRemoved, CollectionsAdded
    <3>2. QED
      BY <1>1, <3>1, StageMoves
  <2>4. QED
    BY <2>2, <2>3
<1> HIDE DEF k
<1>4. UNCHANGED <<page, users, lists>>
  BY DEF CreateDone, DeleteDone, PermissionsDone, CollectionsRead, CollectionsRemoved, CollectionsAdded
<1>5. /\ existing' \subseteq Names /\ admins' \subseteq existing'
      /\ Me \in existing' /\ (Me \in admins => Me \in admins')
  <2>1. CASE UNCHANGED <<existing, admins>>
    BY <1>1, <2>1 DEF AdminTypes, MeInv
  <2>2. CASE CreateDone(i)
    BY <1>1, <1>2, <2>2 DEF CreateDone, AdminTypes, MeInv, k
  <2>3. CASE DeleteDone(i)
    BY <1>1, <1>2, <2>3 DEF DeleteDone, AdminTypes, MeInv, Aimed, k
  <2>4. CASE PermissionsDone(i)
    BY <1>1, <1>2, <2>4 DEF PermissionsDone, AdminTypes, MeInv, Aimed, k
  <2>5. QED
    BY <2>1, <2>2, <2>3, <2>4 DEF CollectionsRead, CollectionsRemoved, CollectionsAdded
<1>6. disturbed' \in BOOLEAN /\ (disturbed => disturbed')
  BY <1>1 DEF CreateDone, DeleteDone, PermissionsDone, CollectionsRead, CollectionsRemoved,
              CollectionsAdded, AdminTypes, Overlaps
<1>7. visible' \in [Names -> SUBSET Collections] /\ lastChosen' \in [Names -> SUBSET Collections]
  <2>1. {} \in SUBSET Collections
    OBVIOUS
  <2>2. visible[k.name] \in SUBSET Collections
    BY <1>1, <1>2 DEF AdminTypes
  <2>3. CASE CollectionsAdded(i)
    <3> DEFINE v == IF k.name \in existing THEN visible[k.name] \cup k.value ELSE visible[k.name]
    <3>1. v \in SUBSET Collections
      BY <1>2, <2>2
    <3>2. visible' = [visible EXCEPT ![k.name] = v] /\ UNCHANGED lastChosen
      BY <2>3 DEF CollectionsAdded, k
    <3> HIDE DEF v
    <3>3. QED
      BY <1>1, <3>1, <3>2 DEF AdminTypes
  <2>4. CASE CollectionsRemoved(i)
    <3> DEFINE v == visible[k.name] \ k.toRemove
    <3>1. v \in SUBSET Collections
      BY <2>2
    <3>2. visible' = [visible EXCEPT ![k.name] = v] /\ UNCHANGED lastChosen
      BY <2>4 DEF CollectionsRemoved, k
    <3> HIDE DEF v
    <3>3. QED
      BY <1>1, <3>1, <3>2 DEF AdminTypes
  <2>5. CASE CreateDone(i) \/ DeleteDone(i) \/ PermissionsDone(i) \/ CollectionsRead(i)
    <3>1. /\ visible' = visible \/ visible' = [visible EXCEPT ![k.name] = {}]
          /\ lastChosen' = lastChosen \/ lastChosen' = [lastChosen EXCEPT ![k.name] = {}]
      BY <2>5 DEF CreateDone, DeleteDone, PermissionsDone, CollectionsRead, k
    <3>2. QED
      BY <1>1, <2>1, <3>1 DEF AdminTypes
  <2>6. QED
    BY <2>3, <2>4, <2>5
<1>8. calls' \in Seq(AnyCalls) /\ \A j \in DOMAIN calls' : Aimed(calls'[j])
  BY <1>1, <1>3, CallsStayAimed DEF MeInv
<1>9. AdminTypes'
  BY <1>1, <1>4, <1>5, <1>6, <1>7, <1>8 DEF AdminTypes
<1>10. CreatingInv'
  BY <1>1, <1>3, <1>4, CreationsStay
<1>11. MeInv'
  BY <1>1, <1>4, <1>5, <1>6, <1>8 DEF MeInv, Aimed, AdminTypes
<1>12. QED
  BY <1>3, <1>9, <1>10, <1>11 DEF AdminBase

LEMMA AnswerStepBase ==
  ASSUME AdminBase, NEW i \in DOMAIN calls,
         ReceiveCreateUser(i) \/ DeleteAnswered(i) \/ SettingAnswered(i) \/ CallFailed(i)
  PROVE  AdminBase' /\ Taken(i)
<1>1. AdminTypes /\ CreatingInv /\ MeInv
  BY DEF AdminBase
<1>2. Taken(i)
  BY DEF Taken, ReceiveCreateUser, DeleteAnswered, SettingAnswered, CallFailed, Answered
<1>3. /\ UNCHANGED <<existing, admins, visible, users, lastChosen>>
      /\ disturbed' \in BOOLEAN /\ (disturbed => disturbed')
  BY <1>1 DEF ReceiveCreateUser, DeleteAnswered, SettingAnswered, CallFailed, AdminTypes
<1>4. /\ page' \in Pages
      /\ page'.creating = IF calls[i].kind = "create" THEN FALSE ELSE page.creating
      /\ page'.deleteModal \in {page.deleteModal, NoUser}
  <2>1. CASE ReceiveCreateUser(i)
    <3>1. (page.createModal /\ ~page.mounted) \in BOOLEAN
      OBVIOUS
    <3>2. QED
      BY <1>1, <2>1, <3>1 DEF ReceiveCreateUser, AdminTypes, Pages
  <2>2. CASE DeleteAnswered(i)
    BY <1>1, <2>2 DEF DeleteAnswered, AdminTypes, Pages
  <2>3. CASE SettingAnswered(i)
    BY <1>1, <2>3 DEF SettingAnswered, AdminTypes, Pages
  <2>4. CASE CallFailed(i)
    BY <1>1, <2>4 DEF CallFailed, AdminTypes, Pages
  <2>5. QED
    BY <2>1, <2>2, <2>3, <2>4
<1>5. lists' \in Seq(AnyLists)
  BY <1>1, ListsTyped DEF ReceiveCreateUser, ListAfterCreate, DeleteAnswered, SettingAnswered, CallFailed
<1>6. calls' \in Seq(AnyCalls) /\ \A j \in DOMAIN calls' : Aimed(calls'[j])
  BY <1>1, <1>2, CallsStayAimed DEF MeInv
<1>7. AdminTypes'
  BY <1>1, <1>3, <1>4, <1>5, <1>6 DEF AdminTypes
<1>8. CreatingInv'
  BY <1>1, <1>2, <1>4, CreationsStay
<1>9. page'.deleteModal # Modal(Me)
  <2>1. NoUser # Modal(Me)
    BY DEF NoUser, Modal
  <2>2. QED
    BY <1>1, <1>4, <2>1 DEF MeInv
<1>10. MeInv'
  BY <1>1, <1>3, <1>6, <1>9 DEF MeInv, Aimed
<1>11. QED
  BY <1>2, <1>7, <1>8, <1>10 DEF AdminBase

LEMMA AdminBaseStep ==
  ASSUME AdminBase, [UserAdminNext]_adminVars
  PROVE  AdminBase'
<1>1. AdminTypes /\ CreatingInv /\ MeInv
  BY DEF AdminBase
<1>2. CASE MeRevoked
  <2>1. CreatingInv'
    BY <1>1, <1>2, CreationsStay DEF MeRevoked
  <2>2. QED
    BY <1>1, <1>2, <2>1 DEF MeRevoked, AdminBase, AdminTypes, MeInv, Aimed
<1>3. CASE UNCHANGED adminVars
  <2>1. CreatingInv'
    BY <1>1, <1>3, CreationsStay DEF adminVars
  <2>2. QED
    BY <1>1, <1>3, <2>1 DEF adminVars, AdminBase, AdminTypes, MeInv, Aimed
<1>4. QED
  BY <1>2, <1>3, PageStepBase, ListStepBase, AskStepBase, ServerStepBase, AnswerStepBase
     DEF UserAdminNext

LEMMA AdminBaseStart == UserAdminInit => AdminBase
<1> SUFFICES ASSUME UserAdminInit PROVE AdminBase
  OBVIOUS
<1>1. existing \subseteq Names /\ Me \in existing /\ admins = {Me}
  BY DEF UserAdminInit
<1>2. page \in Pages /\ ~page.creating /\ page.deleteModal = NoUser
  BY DEF UserAdminInit, Pages
<1>3. /\ calls = <<>> /\ calls \in Seq(AnyCalls) /\ lists \in Seq(AnyLists)
      /\ users \subseteq Listed /\ disturbed = FALSE
  BY DEF UserAdminInit
<1>4. visible \in [Names -> SUBSET Collections] /\ lastChosen \in [Names -> SUBSET Collections]
  BY DEF UserAdminInit
<1>5. CreatingInv /\ MeInv
  BY <1>1, <1>2, <1>3 DEF CreatingInv, AtMostOne, Has, MeInv, NoUser, Modal
<1>6. QED
  BY <1>1, <1>2, <1>3, <1>4, <1>5 DEF AdminBase, AdminTypes

-----------------------------------------------------------------------------
(* The list *)

\* A call has been made whose answer asks for the list.
ListOwed == \E i \in DOMAIN calls : calls[i].stage = "done"

\* What has been read last, or is shown if nothing is being fetched, is current or
\* will be fetched again.
ListInv ==
  ~disturbed =>
    /\ lists # <<>> /\ lists[Len(lists)].read
         => lists[Len(lists)].users = ListAsAdmin \/ ListOwed
    /\ lists = <<>> /\ page.mounted => users = ListAsAdmin \/ ListOwed

LEMMA ListStays ==
  ASSUME ListInv, UNCHANGED <<lists, users>>, disturbed => disturbed',
         page'.mounted => page.mounted,
         (UNCHANGED <<existing, admins>> /\ (ListOwed => ListOwed')) \/ ListOwed'
  PROVE  ListInv'
<1>1. UNCHANGED <<existing, admins>> => UNCHANGED ListAsAdmin
  BY DEF ListAsAdmin, User
<1>2. QED
  BY <1>1 DEF ListInv

LEMMA ListAsked ==
  ASSUME AdminTypes, ListUsers
  PROVE  ListInv'
<1>1. UnreadUsers \in AnyLists /\ lists \in Seq(AnyLists)
  BY DEF UnreadUsers, AnyLists, AdminTypes
<1>2. /\ lists' # <<>> /\ lists'[Len(lists')] = UnreadUsers
  BY <1>1, AppendType DEF ListUsers
<1>3. QED
  BY <1>2 DEF ListInv, UnreadUsers

LEMMA ListInvStep ==
  ASSUME AdminBase, ListInv, [UserAdminNext]_adminVars
  PROVE  ListInv'
<1>1. AdminTypes /\ CreatingInv /\ MeInv
  BY DEF AdminBase
<1>2. \A i \in DOMAIN calls : calls[i] \in AnyCalls
  BY <1>1 DEF AdminTypes
<1>3. CASE \/ Mount
           \/ \E i \in DOMAIN calls :
                ReceiveCreateUser(i) \/ DeleteAnswered(i) \/ SettingAnswered(i)
  <2>1. ListUsers
    BY <1>3 DEF Mount, ReceiveCreateUser, ListAfterCreate, DeleteAnswered, SettingAnswered
  <2>2. QED
    BY <1>1, <2>1, ListAsked
<1>4. CASE \/ Unmount \/ ReceiveMyPermissions \/ OpenCreate \/ DismissCreate \/ DismissDelete
           \/ \E n \in Names : AskDelete(n)
           \/ UNCHANGED adminVars
  <2>1. UNCHANGED <<lists, users, existing, admins, calls, disturbed>> /\ (page'.mounted => page.mounted)
    BY <1>1, <1>4
       DEF Unmount, ReceiveMyPermissions, OpenCreate, DismissCreate, DismissDelete, AskDelete,
           adminVars, AdminTypes, Pages
  <2>2. QED
    BY <2>1, ListStays DEF ListOwed
<1>5. CASE MeRevoked
  BY <1>5 DEF MeRevoked, ListInv
<1>6. ASSUME NEW n \in Names,
             \/ CreateUser(n) \/ DeleteUser(n) \/ SavePermissions(n)
             \/ \E choice \in SUBSET Collections : SaveCollections(n, choice)
      PROVE  ListInv'
  <2>1. PICK c : calls' = Append(calls, c)
    BY <1>6, AskStepBase DEF CallAdded
  <2>2. ListOwed => ListOwed'
    <3>1. \A i \in DOMAIN calls : i \in DOMAIN calls' /\ calls'[i] = calls[i]
      BY <1>1, <2>1 DEF AdminTypes
    <3>2. QED
      BY <3>1 DEF ListOwed
  <2>3. /\ UNCHANGED <<lists, users, existing, admins>> /\ (disturbed => disturbed')
        /\ (page'.mounted => page.mounted)
    BY <1>1, <1>6 DEF CreateUser, DeleteUser, SavePermissions, SaveCollections, AdminTypes, Pages
  <2>4. QED
    BY <2>2, <2>3, ListStays
<1>7. ASSUME NEW i \in DOMAIN calls,
             \/ CreateDone(i) \/ DeleteDone(i) \/ PermissionsDone(i)
             \/ CollectionsRead(i) \/ CollectionsRemoved(i) \/ CollectionsAdded(i)
      PROVE  ListInv'
  <2>1. PICK c : Moved(i, c)
    BY <1>7, ServerStepBase
  <2>2. \A j \in DOMAIN calls : j \in DOMAIN calls' /\ (j # i => calls'[j] = calls[j])
    BY <2>1 DEF Moved
  <2>3. calls[i].stage # "done"
    BY <1>7 DEF CreateDone, DeleteDone, PermissionsDone, CollectionsRead, CollectionsRemoved, CollectionsAdded
  <2>4. ListOwed => ListOwed'
    BY <2>2, <2>3 DEF ListOwed
  <2>5. UNCHANGED <<lists, users, page>>
    BY <1>7 DEF CreateDone, DeleteDone, PermissionsDone, CollectionsRead, CollectionsRemoved, CollectionsAdded
  <2>6. disturbed => disturbed'
    BY <1>1, <1>7 DEF CreateDone, DeleteDone, PermissionsDone, CollectionsRead, CollectionsRemoved,
                      CollectionsAdded, AdminTypes, Overlaps
  <2>7. UNCHANGED <<existing, admins>> \/ Stage(i, "done")
    BY <1>7 DEF CreateDone, DeleteDone, PermissionsDone, CollectionsRead, CollectionsRemoved, CollectionsAdded
  <2>8. Stage(i, "done") => ListOwed'
    <3>1. ASSUME Stage(i, "done") PROVE i \in DOMAIN calls' /\ calls'[i].stage = "done"
      BY <1>1, <1>2, <3>1 DEF Stage, AnyCalls, AdminTypes
    <3>2. QED
      BY <3>1 DEF ListOwed
  <2>9. QED
    BY <2>4, <2>5, <2>6, <2>7, <2>8, ListStays
<1>8. ASSUME NEW i \in DOMAIN calls, CallFailed(i) PROVE ListInv'
  <2>1. SUFFICES ASSUME ~disturbed' PROVE ListInv'
    BY DEF ListInv
  <2>2. calls[i].stage = "failed" /\ UNCHANGED <<lists, users, existing, admins>> /\ (disturbed => disturbed')
    BY <1>8, <2>1 DEF CallFailed
  <2>3. page'.mounted => page.mounted
    BY <1>1, <1>8 DEF CallFailed, AdminTypes, Pages
  <2>4. ASSUME ListOwed PROVE ListOwed'
    <3>1. PICK k \in DOMAIN calls : calls[k].stage = "done"
      BY <2>4 DEF ListOwed
    <3>2. calls \in Seq(AnyCalls) /\ k # i /\ calls' = RemoveAt(calls, i)
      BY <1>1, <1>8, <2>2, <3>1 DEF AdminTypes, CallFailed
    <3>3. \E j \in DOMAIN calls' : calls'[j] = calls[k]
      BY <3>2, RemoveAtKeeps
    <3>4. QED
      BY <3>1, <3>3 DEF ListOwed
  <2>5. QED
    BY <2>2, <2>3, <2>4, ListStays
<1>9. ASSUME NEW i \in DOMAIN lists,
             ListUsersRead(i) \/ ReceiveUserList(i) \/ ErrorReceivingUserList(i)
      PROVE  ListInv'
  <2>1. SUFFICES ASSUME ~disturbed' PROVE ListInv'
    BY DEF ListInv
  <2>2. /\ UNCHANGED <<existing, admins, calls, page>> /\ ~disturbed /\ Me \in admins
        /\ lists \in Seq(AnyLists) /\ ~ErrorReceivingUserList(i)
    BY <1>1, <1>9, <2>1 DEF ListUsersRead, ReceiveUserList, ErrorReceivingUserList, MeInv, AdminTypes
  <2>3. UNCHANGED <<ListAsAdmin, ListOwed>>
    BY <2>2 DEF ListAsAdmin, User, ListOwed
  <2>4. CASE ListUsersRead(i)
    <3> DEFINE r == [read |-> TRUE, users |-> ListAsAdmin]
    <3>1. lists' = [lists EXCEPT ![i] = r] /\ UNCHANGED users
      BY <2>2, <2>4 DEF ListUsersRead
    <3>2. r.users = ListAsAdmin
      OBVIOUS
    <3> HIDE DEF r
    <3>3. /\ Len(lists') = Len(lists) /\ lists # <<>> /\ lists' # <<>>
          /\ lists'[Len(lists)] = IF i = Len(lists) THEN r ELSE lists[Len(lists)]
      BY <2>2, <3>1
    <3>4. lists'[Len(lists')].read => lists'[Len(lists')].users = ListAsAdmin \/ ListOwed
      BY <2>2, <3>2, <3>3 DEF ListInv
    <3>5. QED
      BY <2>3, <3>3, <3>4 DEF ListInv
  <2>5. CASE ReceiveUserList(i)
    <3>1. i = 1 /\ lists' = RemoveAt(lists, 1) /\ users' = lists[1].users /\ lists[1].read
      BY <2>1, <2>5 DEF ReceiveUserList
    <3>2. /\ Len(lists') = Len(lists) - 1 /\ lists' \in Seq(AnyLists)
          /\ \A j \in 1..Len(lists) - 1 : lists'[j] = lists[j + 1]
      <4>1. lists \in Seq(AnyLists) /\ 1 \in DOMAIN lists
        BY <2>2, <3>1
      <4>2. /\ RemoveAt(lists, 1) \in Seq(AnyLists)
            /\ Len(RemoveAt(lists, 1)) = Len(lists) - 1
            /\ \A j \in 1..Len(lists) - 1 :
                 RemoveAt(lists, 1)[j] = IF j < 1 THEN lists[j] ELSE lists[j + 1]
        BY <4>1, RemoveAtEntries
      <4>3. \A j \in 1..Len(lists) - 1 : RemoveAt(lists, 1)[j] = lists[j + 1]
        BY <4>1, <4>2
      <4>4. QED
        BY <3>1, <4>2, <4>3
    <3>3. CASE Len(lists) = 1
      <4>1. lists' = <<>> /\ lists # <<>>
        <5>1. Len(lists') = 0
          BY <3>2, <3>3
        <5>2. QED
          BY <3>2, <3>3, <5>1
      <4>2. users' = ListAsAdmin \/ ListOwed
        BY <2>2, <3>1, <3>3, <4>1 DEF ListInv
      <4>3. QED
        BY <2>3, <4>1, <4>2 DEF ListInv
    <3>4. CASE Len(lists) # 1
      <4>1. Len(lists) > 1
        <5> DEFINE n == Len(lists)
        <5>1. n \in Nat \ {0} /\ n # 1
          BY <2>2, <3>4
        <5> HIDE DEF n
        <5>2. n > 1
          BY <5>1
        <5>3. QED
          BY <5>2 DEF n
      <4>2. lists # <<>> /\ lists' # <<>> /\ lists'[Len(lists')] = lists[Len(lists)]
        BY <2>2, <3>2, <4>1
      <4>3. QED
        BY <2>2, <2>3, <4>2 DEF ListInv
    <3>5. QED
      BY <3>3, <3>4
  <2>6. QED
    BY <1>9, <2>2, <2>4, <2>5
<1>10. QED
  BY <1>3, <1>4, <1>5, <1>6, <1>7, <1>8, <1>9 DEF UserAdminNext

-----------------------------------------------------------------------------
(* The collections *)

\* Choices for n that are not made yet.
Unsaved(n) ==
  {c \in AnyCalls : c.kind = "collections" /\ c.name = n /\ c.stage \in {"sent", "read", "removed"}}

\* A choice for n is the last one, and knows what n can see.
ChoiceFits(c, n) ==
  /\ n \in existing => c.value = lastChosen[n]
  /\ c.stage = "read" => c.toRemove = visible[n]
  /\ c.stage = "removed" => visible[n] = {}

ChoiceKept(n) ==
  /\ AtMostOne(calls, Unsaved(n))
  /\ \A i \in DOMAIN calls : calls[i] \in Unsaved(n) => ChoiceFits(calls[i], n)
  /\ n \in existing => visible[n] = lastChosen[n] \/ Has(calls, Unsaved(n))

CollectionsInv ==
  /\ \A n \in Names \ existing : visible[n] = {}
  /\ \A i \in DOMAIN calls : calls[i].stage \in {"read", "removed"} => calls[i].kind = "collections"
  /\ ~disturbed => \A n \in Names : ChoiceKept(n)

\* A user of whom nothing changes, and no choice that is not made yet.
LEMMA ChosenStays ==
  ASSUME AdminTypes, NEW n \in Names, ChoiceKept(n), n \in existing' => n \in existing,
         visible'[n] = visible[n], lastChosen'[n] = lastChosen[n],
         \/ UNCHANGED calls
         \/ \E c : CallAdded(c) /\ c \notin Unsaved(n)
         \/ \E i \in DOMAIN calls : \E c : Moved(i, c) /\ c \notin Unsaved(n) /\ calls[i] \notin Unsaved(n)
         \/ \E i \in DOMAIN calls : Taken(i) /\ calls[i] \notin Unsaved(n)
  PROVE  ChoiceKept(n)'
<1> DEFINE T == Unsaved(n)
<1>1. /\ calls \in Seq(AnyCalls) /\ AtMostOne(calls, T)
      /\ \A i \in DOMAIN calls : calls[i] \in T => ChoiceFits(calls[i], n)
      /\ n \in existing => visible[n] = lastChosen[n] \/ Has(calls, T)
  BY DEF AdminTypes, ChoiceKept
<1>2. \A c : ChoiceFits(c, n)
        => /\ n \in existing' => c.value = lastChosen'[n]
           /\ c.stage = "read" => c.toRemove = visible'[n]
           /\ c.stage = "removed" => visible'[n] = {}
  BY DEF ChoiceFits
<1> HIDE DEF T
<1>3. /\ AtMostOne(calls', T) /\ (Has(calls', T) <=> Has(calls, T))
      /\ \A j \in DOMAIN calls' : calls'[j] \in T => \E k \in DOMAIN calls : calls'[j] = calls[k]
  <2>1. CASE UNCHANGED calls
    BY <1>1, <2>1
  <2>2. ASSUME NEW c, CallAdded(c), c \notin T
        PROVE  /\ AtMostOne(calls', T) /\ (Has(calls', T) <=> Has(calls, T))
               /\ \A j \in DOMAIN calls' : calls'[j] \in T => \E k \in DOMAIN calls : calls'[j] = calls[k]
    <3>1. AtMostOne(calls', T) /\ (Has(calls', T) <=> Has(calls, T))
      BY <1>1, <2>2, AppendOne DEF CallAdded
    <3>2. \A j \in DOMAIN calls' : calls'[j] = c \/ (j \in DOMAIN calls /\ calls'[j] = calls[j])
      BY <1>1, <2>2 DEF CallAdded
    <3>3. QED
      BY <2>2, <3>1, <3>2
  <2>3. ASSUME NEW i \in DOMAIN calls, NEW c, Moved(i, c), c \notin T, calls[i] \notin T
        PROVE  /\ AtMostOne(calls', T) /\ (Has(calls', T) <=> Has(calls, T))
               /\ \A j \in DOMAIN calls' : calls'[j] \in T => \E k \in DOMAIN calls : calls'[j] = calls[k]
    <3>1. AtMostOne(calls', T) /\ (Has(calls', T) <=> Has(calls, T))
      BY <1>1, <2>3, ReplaceOne DEF Moved
    <3>2. /\ DOMAIN calls' = DOMAIN calls
          /\ \A j \in DOMAIN calls : calls'[j] = c \/ calls'[j] = calls[j]
      BY <1>1, <2>3 DEF Moved
    <3>3. QED
      BY <2>3, <3>1, <3>2
  <2>4. ASSUME NEW i \in DOMAIN calls, Taken(i), calls[i] \notin T
        PROVE  /\ AtMostOne(calls', T) /\ (Has(calls', T) <=> Has(calls, T))
               /\ \A j \in DOMAIN calls' : calls'[j] \in T => \E k \in DOMAIN calls : calls'[j] = calls[k]
    <3>1. AtMostOne(calls', T) /\ (Has(calls', T) <=> Has(calls, T))
      BY <1>1, <2>4, RemoveOne DEF Taken
    <3>2. \A j \in DOMAIN RemoveAt(calls, i) :
            \E k \in DOMAIN calls : k # i /\ RemoveAt(calls, i)[j] = calls[k]
      BY <1>1, RemoveAtOld
    <3>3. QED
      BY <2>4, <3>1, <3>2 DEF Taken
  <2>5. QED
    BY <2>1, <2>2, <2>3, <2>4 DEF T
<1>4. \A j \in DOMAIN calls' : calls'[j] \in T => ChoiceFits(calls[j], n)'
  BY <1>1, <1>2, <1>3 DEF ChoiceFits
<1>5. n \in existing' => visible'[n] = lastChosen'[n] \/ Has(calls', T)
  BY <1>1, <1>3
<1>6. QED
  BY <1>3, <1>4, <1>5 DEF ChoiceKept, Unsaved, AnyCalls, T

\* The user whose choice makes a step: it is the only one.
LEMMA ChoiceMoves ==
  ASSUME AdminTypes, NEW n \in Names, ChoiceKept(n), NEW i \in DOMAIN calls, calls[i] \in Unsaved(n),
         NEW c, Moved(i, c),
         \/ c \in Unsaved(n) /\ ChoiceFits(c, n)'
         \/ c \notin Unsaved(n) /\ (n \in existing' => visible'[n] = lastChosen'[n])
  PROVE  ChoiceKept(n)'
<1> DEFINE T == Unsaved(n)
<1>1. calls \in Seq(AnyCalls) /\ AtMostOne(calls, T) /\ calls[i] \in T
  BY DEF AdminTypes, ChoiceKept
<1> HIDE DEF T
<1>2. /\ DOMAIN calls' = DOMAIN calls /\ calls'[i] = c
      /\ \A j \in DOMAIN calls : j # i => calls'[j] = calls[j] /\ calls[j] \notin T
  BY <1>1 DEF Moved, AtMostOne
<1>3. AtMostOne(calls', T)
  BY <1>2 DEF AtMostOne
<1>4. \A j \in DOMAIN calls' : calls'[j] \in T => j = i
  BY <1>2
<1>5. CASE c \in T /\ ChoiceFits(c, n)'
  <2>1. Has(calls', T)
    BY <1>2, <1>5 DEF Has
  <2>2. \A j \in DOMAIN calls' : calls'[j] \in T => ChoiceFits(calls[j], n)'
    BY <1>2, <1>4, <1>5 DEF ChoiceFits
  <2>3. QED
    BY <1>3, <2>1, <2>2 DEF ChoiceKept, Unsaved, AnyCalls, T
<1>6. CASE c \notin T /\ (n \in existing' => visible'[n] = lastChosen'[n])
  <2>1. \A j \in DOMAIN calls' : calls'[j] \notin T
    BY <1>2, <1>4, <1>6
  <2>2. QED
    BY <1>3, <1>6, <2>1 DEF ChoiceKept, Unsaved, AnyCalls, T
<1>7. QED
  BY <1>5, <1>6 DEF T

\* Nothing about the users changes.
LEMMA QuietChosen ==
  ASSUME AdminBase, CollectionsInv, UNCHANGED <<existing, visible, calls, lastChosen>>,
         disturbed => disturbed'
  PROVE  CollectionsInv'
<1>1. AdminTypes
  BY DEF AdminBase
<1>2. ASSUME NEW n \in Names, ~disturbed' PROVE ChoiceKept(n)'
  BY <1>1, <1>2, ChosenStays DEF CollectionsInv
<1>3. QED
  BY <1>2 DEF CollectionsInv

LEMMA AskChosen ==
  ASSUME AdminBase, CollectionsInv, NEW n \in Names,
         \/ CreateUser(n) \/ DeleteUser(n) \/ SavePermissions(n)
         \/ \E choice \in SUBSET Collections : SaveCollections(n, choice)
  PROVE  CollectionsInv'
<1>1. AdminTypes /\ calls \in Seq(AnyCalls) /\ UNCHANGED <<existing, visible>> /\ (disturbed => disturbed')
  BY DEF AdminBase, AdminTypes, CreateUser, DeleteUser, SavePermissions, SaveCollections
<1>2. ASSUME NEW c, CallAdded(c)
      PROVE  \A i \in DOMAIN calls' : calls'[i].stage \in {"read", "removed"} => calls'[i].kind = "collections"
  <2>1. \A j \in DOMAIN calls' : calls'[j] = c \/ (j \in DOMAIN calls /\ calls'[j] = calls[j])
    BY <1>1, <1>2 DEF CallAdded
  <2>2. QED
    BY <1>2, <2>1 DEF CallAdded, CollectionsInv
<1>3. \A i \in DOMAIN calls' : calls'[i].stage \in {"read", "removed"} => calls'[i].kind = "collections"
  BY <1>2, AskStepBase
<1>4. ASSUME NEW m \in Names, ~disturbed' PROVE ChoiceKept(m)'
  <2>0. ChoiceKept(m)
    BY <1>1, <1>4 DEF CollectionsInv
  <2>1. CASE CreateUser(n) \/ DeleteUser(n) \/ SavePermissions(n)
    <3>1. UNCHANGED lastChosen
      BY <2>1 DEF CreateUser, DeleteUser, SavePermissions
    <3>2. \E c : CallAdded(c) /\ c.kind # "collections"
      <4>1. Kinds = {"create", "delete", "permissions", "collections"}
        BY DEF Kinds
      <4>2. CASE CreateUser(n)
        <5>1. CallAdded(NewCall("create", n, {}, FALSE))
          BY <4>1, <4>2, CallAdds DEF CreateUser
        <5>2. QED
          BY <5>1 DEF NewCall
      <4>3. CASE DeleteUser(n)
        <5>1. CallAdded(NewCall("delete", n, {}, FALSE))
          BY <4>1, <4>3, CallAdds DEF DeleteUser
        <5>2. QED
          BY <5>1 DEF NewCall
      <4>4. CASE SavePermissions(n)
        <5>1. PICK grant \in BOOLEAN : Call("permissions", n, {}, grant)
          BY <4>4 DEF SavePermissions
        <5>2. CallAdded(NewCall("permissions", n, {}, grant))
          BY <4>1, <5>1, CallAdds
        <5>3. QED
          BY <5>2 DEF NewCall
      <4>5. QED
        BY <2>1, <4>2, <4>3, <4>4
    <3>3. \E c : CallAdded(c) /\ c \notin Unsaved(m)
      BY <3>2 DEF Unsaved
    <3>4. QED
      BY <1>1, <2>0, <3>1, <3>3, ChosenStays
  <2>2. ASSUME NEW choice \in SUBSET Collections, SaveCollections(n, choice) PROVE ChoiceKept(m)'
    <3> DEFINE c == NewCall("collections", n, choice, FALSE)
    <3>1. CallAdded(c)
      BY <2>2, CallAdds DEF SaveCollections, Kinds
    <3>2. lastChosen' = [lastChosen EXCEPT ![n] = choice] /\ ~Overlapped(n)
      BY <1>4, <2>2 DEF SaveCollections
    <3>3. c.name = n /\ c.value = choice /\ c.kind = "collections" /\ c.stage = "sent"
      BY DEF NewCall
    <3> HIDE DEF c
    <3>4. CASE m # n
      <4>1. c \notin Unsaved(m) /\ lastChosen'[m] = lastChosen[m]
        BY <1>1, <3>2, <3>3, <3>4 DEF Unsaved, AdminTypes
      <4>2. QED
        BY <1>1, <2>0, <3>1, <4>1, ChosenStays
    <3>5. CASE m = n
      <4>1. \A j \in DOMAIN calls : calls[j] \notin Unsaved(n)
        BY <3>2 DEF Overlapped, Unsaved
      <4>2. /\ c \in AnyCalls /\ calls' = Append(calls, c)
            /\ ~Has(calls, Unsaved(n)) /\ AtMostOne(calls, Unsaved(n))
        BY <3>1, <4>1 DEF CallAdded, Has, AtMostOne
      <4>3. c \in Unsaved(n)
        BY <3>3, <4>2 DEF Unsaved
      <4>4. AtMostOne(calls', Unsaved(n)) /\ Has(calls', Unsaved(n))
        BY <1>1, <4>2, <4>3, AppendOne
      <4>5. lastChosen'[n] = choice
        BY <1>1, <3>2 DEF AdminTypes
      <4>6. ChoiceFits(c, n)'
        BY <3>3, <4>5 DEF ChoiceFits
      <4>7. \A j \in DOMAIN calls' : calls'[j] = c \/ (j \in DOMAIN calls /\ calls'[j] = calls[j])
        BY <1>1, <4>2
      <4>8. \A j \in DOMAIN calls' : calls'[j] \in Unsaved(n) => ChoiceFits(calls[j], n)'
        BY <4>1, <4>6, <4>7 DEF ChoiceFits
      <4>9. QED
        BY <3>5, <4>4, <4>8 DEF ChoiceKept, Unsaved, AnyCalls
    <3>6. QED
      BY <3>4, <3>5
  <2>3. QED
    BY <2>1, <2>2
<1>5. \A m \in Names \ existing' : visible'[m] = {}
  BY <1>1 DEF CollectionsInv
<1>6. QED
  BY <1>3, <1>4, <1>5 DEF CollectionsInv

LEMMA AnswerChosen ==
  ASSUME AdminBase, CollectionsInv, NEW i \in DOMAIN calls,
         ReceiveCreateUser(i) \/ DeleteAnswered(i) \/ SettingAnswered(i) \/ CallFailed(i)
  PROVE  CollectionsInv'
<1>1. /\ AdminTypes /\ calls \in Seq(AnyCalls) /\ Taken(i)
      /\ UNCHANGED <<existing, visible, lastChosen>> /\ (disturbed => disturbed')
  BY AnswerStepBase
     DEF AdminBase, AdminTypes, ReceiveCreateUser, DeleteAnswered, SettingAnswered, CallFailed
<1>2. \A j \in DOMAIN calls' : \E k \in DOMAIN calls : calls'[j] = calls[k]
  BY <1>1, RemoveAtOld DEF Taken
<1>3. ASSUME NEW n \in Names, ~disturbed' PROVE ChoiceKept(n)'
  <2>1. calls[i].stage = "done" \/ calls[i].kind # "collections"
    BY <1>3 DEF ReceiveCreateUser, DeleteAnswered, SettingAnswered, CallFailed, Answered
  <2>2. calls[i] \notin Unsaved(n)
    BY <2>1 DEF Unsaved
  <2>3. QED
    BY <1>1, <1>3, <2>2, ChosenStays DEF CollectionsInv
<1>4. QED
  BY <1>1, <1>2, <1>3 DEF CollectionsInv

\* A user is created or deleted while no other call is for that user.
LEMMA AloneChosen ==
  ASSUME AdminTypes, NEW i \in DOMAIN calls, NEW n, n = calls[i].name, ~Overlaps(i),
         NEW c, Moved(i, c), c.kind # "collections",
         n \in existing' => visible'[n] = lastChosen'[n]
  PROVE  ChoiceKept(n)'
<1>1. /\ DOMAIN calls' = DOMAIN calls /\ calls'[i] = c
      /\ \A j \in DOMAIN calls : j # i => calls'[j] = calls[j] /\ calls[j].name # n
  BY DEF AdminTypes, Moved, Overlaps
<1>2. \A j \in DOMAIN calls' : calls'[j] \notin Unsaved(n)
  BY <1>1 DEF Unsaved
<1>3. QED
  BY <1>2 DEF ChoiceKept, AtMostOne, Has, Unsaved, AnyCalls

LEMMA ServerChosen ==
  ASSUME AdminBase, CollectionsInv, NEW i \in DOMAIN calls,
         \/ CreateDone(i) \/ DeleteDone(i) \/ PermissionsDone(i)
         \/ CollectionsRead(i) \/ CollectionsRemoved(i) \/ CollectionsAdded(i)
  PROVE  CollectionsInv'
<1>1. AdminTypes /\ MeInv /\ calls \in Seq(AnyCalls) /\ calls[i] \in AnyCalls
  BY DEF AdminBase, AdminTypes
<1>2. PICK n \in Names : n = calls[i].name
  BY <1>1 DEF AnyCalls
<1>3. \A m \in Names \ existing : visible[m] = {}
  BY DEF CollectionsInv
<1>4. disturbed => disturbed'
  BY <1>1 DEF CreateDone, DeleteDone, PermissionsDone, CollectionsRead, CollectionsRemoved,
              CollectionsAdded, AdminTypes, Overlaps
<1>5. ~disturbed' => \A m \in Names : ChoiceKept(m)
  BY <1>4 DEF CollectionsInv
<1>6. ASSUME NEW c, Moved(i, c), c.stage \in {"read", "removed"} => c.kind = "collections"
      PROVE  \A j \in DOMAIN calls' : calls'[j].stage \in {"read", "removed"} => calls'[j].kind = "collections"
  BY <1>1, <1>6 DEF Moved, CollectionsInv
<1>7. CASE CreateDone(i) \/ DeleteDone(i) \/ PermissionsDone(i)
  <2>1. PICK st \in {"done", "failed"} : Stage(i, st)
    BY <1>7 DEF CreateDone, DeleteDone, PermissionsDone
  <2> DEFINE c == [calls[i] EXCEPT !.stage = st]
  <2>2. Moved(i, c)
    BY <1>1, <2>1, StageMoves DEF CallStages
  <2>3. calls[i].kind # "collections" /\ c.stage = st
    BY <1>1, <1>7 DEF CreateDone, DeleteDone, PermissionsDone, AnyCalls
  <2> HIDE DEF c
  <2>4. c.kind # "collections" /\ \A m : calls[i] \notin Unsaved(m) /\ c \notin Unsaved(m)
    BY <2>2, <2>3 DEF Moved, Unsaved
  <2>5. \A m \in Names : m # n => /\ m \in existing' <=> m \in existing
                               /\ visible'[m] = visible[m] /\ lastChosen'[m] = lastChosen[m]
    BY <1>1, <1>2, <1>7 DEF CreateDone, DeleteDone, PermissionsDone, AdminTypes
  <2>6. ASSUME NEW m \in Names, m # n, ~disturbed' PROVE ChoiceKept(m)'
    BY <1>1, <1>5, <2>2, <2>4, <2>5, <2>6, ChosenStays
  <2>7. /\ n \notin existing' => visible'[n] = {}
        /\ ~disturbed' => ChoiceKept(n)'
    <3>1. CASE UNCHANGED <<existing, visible, lastChosen>>
      BY <1>1, <1>3, <1>5, <2>2, <2>4, <3>1, ChosenStays
    <3>2. CASE CreateDone(i) /\ ~UNCHANGED <<existing, visible, lastChosen>>
      <4>1. /\ n \notin existing /\ existing' = existing \cup {n} /\ UNCHANGED visible
            /\ lastChosen' = [lastChosen EXCEPT ![n] = {}] /\ disturbed' = (disturbed \/ Overlaps(i))
        BY <1>2, <3>2 DEF CreateDone
      <4>2. visible'[n] = {} /\ lastChosen'[n] = {}
        BY <1>1, <1>3, <4>1 DEF AdminTypes
      <4>3. QED
        BY <1>1, <1>2, <2>2, <2>4, <4>1, <4>2, AloneChosen
    <3>3. CASE DeleteDone(i) /\ ~UNCHANGED <<existing, visible, lastChosen>>
      <4>1. /\ existing' = existing \ {n} /\ visible' = [visible EXCEPT ![n] = {}]
            /\ lastChosen' = [lastChosen EXCEPT ![n] = {}] /\ disturbed' = (disturbed \/ Overlaps(i))
        BY <1>2, <3>3 DEF DeleteDone
      <4>2. visible'[n] = {} /\ lastChosen'[n] = {}
        BY <1>1, <4>1 DEF AdminTypes
      <4>3. QED
        BY <1>1, <1>2, <2>2, <2>4, <4>1, <4>2, AloneChosen
    <3>4. CASE PermissionsDone(i)
      BY <3>1, <3>4 DEF PermissionsDone
    <3>5. QED
      BY <1>7, <3>1, <3>2, <3>3, <3>4
  <2>8. \A j \in DOMAIN calls' : calls'[j].stage \in {"read", "removed"} => calls'[j].kind = "collections"
    BY <1>6, <2>2, <2>3
  <2>9. \A m \in Names \ existing' : visible'[m] = {}
    BY <1>3, <2>5, <2>7
  <2>10. QED
    BY <2>6, <2>7, <2>8, <2>9 DEF CollectionsInv
<1>8. CASE CollectionsRead(i) \/ CollectionsRemoved(i) \/ CollectionsAdded(i)
  <2>1. calls[i].kind = "collections" /\ calls[i].stage \in {"sent", "read", "removed"}
    BY <1>8 DEF CollectionsRead, CollectionsRemoved, CollectionsAdded, CollectionsInv
  <2>2. calls[i] \in Unsaved(n)
    BY <1>1, <1>2, <2>1 DEF Unsaved
  <2>3. /\ UNCHANGED <<existing, lastChosen>>
        /\ \A m \in Names : m # n => visible'[m] = visible[m]
        /\ n \notin existing => visible'[n] = {}
    <3>1. CASE CollectionsRead(i)
      BY <1>3, <3>1 DEF CollectionsRead
    <3>2. CASE CollectionsRemoved(i)
      BY <1>1, <1>2, <1>3, <3>2 DEF CollectionsRemoved, AdminTypes
    <3>3. CASE CollectionsAdded(i)
      BY <1>1, <1>2, <1>3, <3>3 DEF CollectionsAdded, AdminTypes
    <3>4. QED
      BY <1>8, <3>1, <3>2, <3>3
  <2>4. ~disturbed' => ChoiceFits(calls[i], n)
    BY <1>5, <2>2 DEF ChoiceKept
  <2>5. PICK c : /\ Moved(i, c)
                 /\ ~disturbed'
                      => \/ c \in Unsaved(n) /\ ChoiceFits(c, n)'
                         \/ c \notin Unsaved(n) /\ (n \in existing' => visible'[n] = lastChosen'[n])
    <3>1. CASE CollectionsRead(i)
      <4>1. PICK c : /\ Moved(i, c) /\ c.toRemove = visible[n]
                     /\ c.stage = IF Me \in admins THEN "read" ELSE "failed"
        <5> DEFINE c == [calls[i] EXCEPT !.stage = IF Me \in admins THEN "read" ELSE "failed",
                                         !.toRemove = visible[calls[i].name]]
        <5>1. Moved(i, c)
          BY <1>1, <3>1, ReadMoves
        <5>2. /\ c.stage = IF Me \in admins THEN "read" ELSE "failed"
              /\ c.toRemove = visible[n]
          BY <1>1, <1>2 DEF AnyCalls
        <5> HIDE DEF c
        <5>3. QED
          BY <5>1, <5>2
      <4>2. UNCHANGED visible /\ (~disturbed' => Me \in admins)
        BY <3>1 DEF CollectionsRead
      <4>3. ASSUME ~disturbed' PROVE c \in Unsaved(n) /\ ChoiceFits(c, n)'
        <5>1. c.stage = "read" /\ c \in AnyCalls /\ c.name = n /\ c.kind = "collections" /\ c.value = calls[i].value
          BY <1>2, <2>1, <4>1, <4>2, <4>3 DEF Moved
        <5>2. QED
          BY <2>3, <2>4, <4>1, <4>2, <4>3, <5>1 DEF Unsaved, ChoiceFits
      <4>4. QED
        BY <4>1, <4>3
    <3>2. CASE CollectionsRemoved(i)
      <4>1. PICK c : Moved(i, c) /\ c.stage = "removed"
        <5>1. Moved(i, [calls[i] EXCEPT !.stage = "removed"])
          BY <1>1, <3>2, StageMoves DEF CollectionsRemoved, CallStages
        <5>2. [calls[i] EXCEPT !.stage = "removed"].stage = "removed"
          BY <1>1 DEF AnyCalls
        <5>3. QED
          BY <5>1, <5>2
      <4>2. visible'[n] = visible[n] \ calls[i].toRemove /\ calls[i].stage = "read"
        BY <1>1, <1>2, <3>2 DEF CollectionsRemoved, AdminTypes
      <4>3. ASSUME ~disturbed' PROVE c \in Unsaved(n) /\ ChoiceFits(c, n)'
        <5>1. visible'[n] = {}
          BY <2>4, <4>2, <4>3 DEF ChoiceFits
        <5>2. c \in AnyCalls /\ c.name = n /\ c.kind = "collections" /\ c.value = calls[i].value
          BY <1>2, <2>1, <4>1 DEF Moved
        <5>3. QED
          BY <2>3, <2>4, <4>1, <4>3, <5>1, <5>2 DEF Unsaved, ChoiceFits
      <4>4. QED
        BY <4>1, <4>3
    <3>3. CASE CollectionsAdded(i)
      <4> DEFINE c == [calls[i] EXCEPT !.stage = "done"]
      <4>1. Moved(i, c)
        BY <1>1, <3>3, StageMoves DEF CollectionsAdded, CallStages
      <4>2. c.stage = "done"
        BY <1>1 DEF AnyCalls
      <4> HIDE DEF c
      <4>3. /\ n \in existing => visible'[n] = visible[n] \cup calls[i].value
            /\ calls[i].stage = "removed"
        BY <1>1, <1>2, <3>3 DEF CollectionsAdded, AdminTypes
      <4>4. c \notin Unsaved(n)
        BY <4>2 DEF Unsaved
      <4>5. ASSUME ~disturbed', n \in existing' PROVE visible'[n] = lastChosen'[n]
        BY <2>3, <2>4, <4>3, <4>5 DEF ChoiceFits
      <4>6. QED
        BY <4>1, <4>4, <4>5
    <3>4. QED
      BY <1>8, <3>1, <3>2, <3>3
  <2>6. ASSUME ~disturbed' PROVE ChoiceKept(n)'
    BY <1>1, <1>5, <2>2, <2>5, <2>6, ChoiceMoves
  <2>7. ASSUME NEW m \in Names, m # n, ~disturbed' PROVE ChoiceKept(m)'
    <3>1. calls[i] \notin Unsaved(m) /\ c \notin Unsaved(m)
      BY <1>2, <2>5, <2>7 DEF Unsaved, Moved
    <3>2. QED
      BY <1>1, <1>5, <2>3, <2>5, <2>7, <3>1, ChosenStays
  <2>8. \A m \in Names \ existing' : visible'[m] = {}
    BY <1>3, <2>3
  <2>9. \A j \in DOMAIN calls' : calls'[j].stage \in {"read", "removed"} => calls'[j].kind = "collections"
    BY <1>6, <2>1, <2>5 DEF Moved
  <2>10. QED
    BY <2>6, <2>7, <2>8, <2>9 DEF CollectionsInv
<1>9. QED
  BY <1>7, <1>8

LEMMA CollectionsInvStep ==
  ASSUME AdminBase, CollectionsInv, [UserAdminNext]_adminVars
  PROVE  CollectionsInv'
<1>1. CASE \/ Mount \/ Unmount \/ ReceiveMyPermissions \/ OpenCreate \/ DismissCreate \/ DismissDelete
           \/ MeRevoked
           \/ \E i \in DOMAIN lists : ListUsersRead(i) \/ ReceiveUserList(i) \/ ErrorReceivingUserList(i)
           \/ \E n \in Names : AskDelete(n)
           \/ UNCHANGED adminVars
  <2>1. UNCHANGED <<existing, visible, calls, lastChosen>> /\ (disturbed => disturbed')
    BY <1>1 DEF Mount, Unmount, ReceiveMyPermissions, OpenCreate, DismissCreate, DismissDelete,
                MeRevoked, ListUsersRead, ReceiveUserList, ErrorReceivingUserList, AskDelete, adminVars,
                AdminBase, AdminTypes
  <2>2. QED
    BY <2>1, QuietChosen
<1>2. QED
  BY <1>1, AskChosen, ServerChosen, AnswerChosen DEF UserAdminNext

\* The page of users is true to the server, once all is answered: whatever was created,
\* deleted, granted, chosen and listed in whatever order (Users.tsx, usersReducer.js,
\* Collections.setUserCollections).
THEOREM UsersPageTrue == UserAdminSpec => []UsersPageIsCurrent
<1> DEFINE AdminInv == AdminBase /\ ListInv /\ CollectionsInv
<1>1. UserAdminInit => AdminInv
  <2>1. UserAdminInit => ListInv
    BY DEF UserAdminInit, ListInv
  <2>2. UserAdminInit => CollectionsInv
    BY DEF UserAdminInit, CollectionsInv, ChoiceKept, AtMostOne, Has
  <2>3. QED
    BY <2>1, <2>2, AdminBaseStart
<1>2. AdminInv /\ [UserAdminNext]_adminVars => AdminInv'
  BY AdminBaseStep, ListInvStep, CollectionsInvStep
<1>3. AdminInv => UsersPageIsCurrent
  <2> SUFFICES ASSUME AdminInv PROVE UsersPageIsCurrent
    OBVIOUS
  <2>1. CreatingIsInFlight
    <3>1. calls \in Seq(AnyCalls) /\ AtMostOne(calls, Creations) /\ (Has(calls, Creations) <=> page.creating)
      BY DEF AdminBase, AdminTypes, CreatingInv
    <3>2. {i \in DOMAIN calls : calls[i].kind = "create"} = {i \in DOMAIN calls : calls[i] \in Creations}
      BY <3>1 DEF Creations
    <3>3. QED
      BY <3>1, <3>2, CountOne DEF CreatingIsInFlight
  <2>2. UsersListIsCurrent
    BY DEF UsersListIsCurrent, Settled, ListInv, ListOwed
  <2>3. CollectionsAreTheChosen
    <3>1. existing \subseteq Names
      BY DEF AdminBase, AdminTypes
    <3>2. QED
      BY <3>1 DEF CollectionsAreTheChosen, Settled, CollectionsInv, ChoiceKept, Has
  <2>4. QED
    BY <2>1, <2>2, <2>3 DEF UsersPageIsCurrent
<1>4. QED
  BY <1>1, <1>2, <1>3, PTL DEF UserAdminSpec

-----------------------------------------------------------------------------
(***************************************************************************)
(* The choice of a batch: after each of the tasks within the limit, what   *)
(* has been chosen so far is not empty, its cost is that of its tasks,     *)
(* unless one of them has none, and every task passed over would have      *)
(* taken those ahead of it to maxCost.                                     *)
(***************************************************************************)

SizeOf(tasks, ks) == SumOf([k \in DOMAIN tasks |-> IF k \in ks THEN tasks[k].size ELSE 0])
Ahead(ks, j) == {l \in ks : l < j}
Rerun(tasks, ks) == \E k \in ks : tasks[k].rerun

\* What the reduce has come to after k tasks.
ReducedRightly(tasks, acc, k) ==
  /\ acc.chosen \subseteq 1..k /\ (k > 0 => acc.chosen # {})
  /\ acc.cost = IF Rerun(tasks, acc.chosen) THEN Null ELSE SizeOf(tasks, acc.chosen)
  /\ ~Rerun(tasks, acc.chosen) => (\E x : acc.chosen \subseteq {x}) \/ SizeOf(tasks, acc.chosen) < MaxCost
  /\ \A j \in (1..k) \ acc.chosen : SizeOf(tasks, Ahead(acc.chosen, j)) + tasks[j].size >= MaxCost

LEMMA SizesAre ==
  ASSUME NEW tasks \in Seq(Candidate), NEW ks
  PROVE  /\ [k \in DOMAIN tasks |-> IF k \in ks THEN tasks[k].size ELSE 0] \in Seq(Int)
         /\ SizeOf(tasks, ks) \in Nat /\ \A k \in DOMAIN tasks : tasks[k].size \in Nat
<1> DEFINE s == [k \in DOMAIN tasks |-> IF k \in ks THEN tasks[k].size ELSE 0]
<1>1. ASSUME NEW k \in DOMAIN tasks PROVE tasks[k].size \in Nat
  <2>1. tasks[k] \in Candidate
    OBVIOUS
  <2>2. QED
    BY <2>1, CostsAssumption DEF Candidate
<1>2. s \in Seq(Nat) /\ s \in Seq(Int)
  <2>1. DOMAIN tasks = 1..Len(tasks) /\ Len(tasks) \in Nat
    OBVIOUS
  <2>2. QED
    BY <1>1, <2>1
<1>3. SizeOf(tasks, ks) = SumOf(s)
  BY DEF SizeOf
<1> HIDE DEF s
<1>4. SumOf(s) \in Nat
  BY <1>2, SumCovers
<1>5. QED
  BY <1>1, <1>2, <1>3, <1>4 DEF s

LEMMA SizeAdded ==
  ASSUME NEW tasks \in Seq(Candidate), NEW ks, NEW k \in DOMAIN tasks, k \notin ks
  PROVE  SizeOf(tasks, ks \cup {k}) = SizeOf(tasks, ks) + tasks[k].size
<1> DEFINE s == [j \in DOMAIN tasks |-> IF j \in ks THEN tasks[j].size ELSE 0]
<1> DEFINE t == [j \in DOMAIN tasks |-> IF j \in ks \cup {k} THEN tasks[j].size ELSE 0]
<1>1. s \in Seq(Int) /\ t \in Seq(Int) /\ tasks[k].size \in Nat
  BY SizesAre
<1>2. Len(t) = Len(s) /\ k \in 1..Len(s) /\ (\A j \in 1..Len(s) : j # k => t[j] = s[j])
      /\ s[k] = 0 /\ t[k] = tasks[k].size
  <2>1. DOMAIN tasks = 1..Len(tasks) /\ Len(tasks) \in Nat
    OBVIOUS
  <2>2. Len(s) = Len(tasks) /\ Len(t) = Len(tasks)
    BY <2>1
  <2>3. QED
    BY <2>1, <2>2
<1>3. SizeOf(tasks, ks) = SumOf(s) /\ SizeOf(tasks, ks \cup {k}) = SumOf(t)
  BY DEF SizeOf
<1> HIDE DEF s, t
<1>4. SumOf(t) = SumOf(s) + t[k] - s[k] /\ SumOf(s) \in Int
  BY <1>1, <1>2, SumUpdated
<1>5. QED
  BY <1>1, <1>2, <1>3, <1>4

LEMMA SizeOfNone ==
  ASSUME NEW tasks \in Seq(Candidate)
  PROVE  SizeOf(tasks, {}) = 0
<1> DEFINE s == [j \in DOMAIN tasks |-> IF j \in {} THEN tasks[j].size ELSE 0]
<1>1. s \in Seq(Int) /\ \A j \in DOMAIN s : s[j] = 0
  BY SizesAre
<1>2. SizeOf(tasks, {}) = SumOf(s)
  BY DEF SizeOf
<1> HIDE DEF s
<1>3. QED
  BY <1>1, <1>2, SumOfNone

LEMMA LimitedIs ==
  ASSUME NEW tasks \in Seq(Candidate)
  PROVE  /\ Len(Limited(tasks)) \in Nat /\ Len(Limited(tasks)) <= Len(tasks)
         /\ Len(Limited(tasks)) <= MaxBatchSize
         /\ Len(Limited(tasks)) = 0 => tasks = <<>>
<1>1. MaxBatchSize \in Nat /\ MaxBatchSize > 0
  BY LimitsAssumption
<1>2. CASE Len(tasks) <= MaxBatchSize
  BY <1>1, <1>2 DEF Limited
<1>3. CASE ~(Len(tasks) <= MaxBatchSize)
  <2>1. Limited(tasks) = SubSeq(tasks, 1, MaxBatchSize)
    BY <1>3 DEF Limited
  <2>2. Len(SubSeq(tasks, 1, MaxBatchSize)) = MaxBatchSize
    BY <1>1, <1>3
  <2>3. QED
    BY <1>1, <1>3, <2>1, <2>2
<1>4. QED
  BY <1>2, <1>3

Accumulated == [cost : Nat \cup {Null}, chosen : SUBSET Nat]

LEMMA AddTaskIs ==
  ASSUME NEW tasks \in Seq(Candidate), NEW acc \in Accumulated, NEW k \in DOMAIN tasks
  PROVE  /\ AddTask(tasks, acc, k) \in Accumulated
         /\ AddTask(tasks, acc, k) = acc \/ AddTask(tasks, acc, k) = Added(tasks, acc, k)
         /\ Added(tasks, acc, k).cost = Plus(acc.cost, Cost(tasks[k]))
         /\ Added(tasks, acc, k).chosen = acc.chosen \cup {k}
<1>1. k \in Nat /\ tasks[k].size \in Nat
  <2>1. k \in Nat
    OBVIOUS
  <2>2. tasks[k] \in Candidate
    OBVIOUS
  <2>3. QED
    BY <2>1, <2>2, CostsAssumption DEF Candidate
<1>2. Cost(tasks[k]) \in Nat \cup {Null} /\ acc.cost \in Nat \cup {Null}
  BY <1>1 DEF Cost, Accumulated
<1>3. Plus(acc.cost, Cost(tasks[k])) \in Nat \cup {Null}
  BY <1>2 DEF Plus
<1>4. Added(tasks, acc, k) \in Accumulated
  BY <1>1, <1>3 DEF Added, Accumulated
<1>5. QED
  BY <1>4 DEF AddTask, Added

LEMMA ReducedIs ==
  ASSUME NEW tasks \in Seq(Candidate)
  PROVE  /\ Reduced(tasks)[0] = [cost |-> 0, chosen |-> {}]
         /\ \A k \in 1..Len(Limited(tasks)) : Reduced(tasks)[k] = AddTask(tasks, Reduced(tasks)[k - 1], k)
<1> DEFINE N == Len(Limited(tasks))
<1> DEFINE D == 0..N
<1> DEFINE Base == {k \in D : k = 0}
<1> DEFINE first == [cost |-> 0, chosen |-> {}]
<1> DEFINE back == [k \in D |-> k - 1]
<1> DEFINE step == [x \in D \X Accumulated |-> AddTask(tasks, x[2], x[1])]
<1> DEFINE Body(f) == [k \in D |-> IF k = 0 THEN first ELSE AddTask(tasks, f[k - 1], k)]
<1> DEFINE reduced == Reduced(tasks)
<1>1. N \in Nat /\ N <= Len(tasks)
  BY LimitedIs
<1>2. D \subseteq 0..N /\ first \in Accumulated
  BY DEF Accumulated
<1>3. ASSUME NEW k \in D \ Base
      PROVE  k \in DOMAIN tasks /\ k - 1 \in D /\ back[k] = k - 1 /\ k - 1 < k
  <2> HIDE DEF N
  <2>1. QED
    BY <1>1
<1>4. Descends(D, Accumulated, Base, back, step)
  <2>1. ASSUME NEW k \in D \ Base
        PROVE  back[k] \in D /\ back[k] < k /\ \A v \in Accumulated : step[<<k, v>>] \in Accumulated
    <3>1. ASSUME NEW v \in Accumulated PROVE step[<<k, v>>] \in Accumulated
      <4>1. step[<<k, v>>] = AddTask(tasks, v, k)
        OBVIOUS
      <4> HIDE DEF step, D, Base
      <4>2. QED
        BY <1>3, <4>1, AddTaskIs
    <3> HIDE DEF step, D, Base, back
    <3>2. QED
      BY <1>3, <3>1
  <2> HIDE DEF D, Base, back, step
  <2>2. QED
    BY <2>1 DEF Descends
<1>5. \E f \in [D -> Accumulated] : Recursive(f, D, Base, first, back, step)
  <2> HIDE DEF D, Base, back, step, first, N
  <2>1. QED
    BY <1>1, <1>2, <1>4, RecursionExists
<1>6. PICK f \in [D -> Accumulated] : \A k \in D : f[k] = IF k \in Base THEN first ELSE step[<<k, f[back[k]]>>]
  BY <1>5 DEF Recursive
<1>7. f = Body(f)
  <2>1. ASSUME NEW k \in D PROVE f[k] = IF k = 0 THEN first ELSE AddTask(tasks, f[k - 1], k)
    <3>1. CASE k = 0
      BY <1>6, <3>1
    <3>2. CASE k # 0
      <4>1. k \in D \ Base
        BY <3>2
      <4>2. k - 1 \in D /\ back[k] = k - 1
        BY <1>3, <4>1
      <4>3. f[k - 1] \in Accumulated /\ f[k] = step[<<k, f[k - 1]>>]
        BY <1>6, <4>1, <4>2
      <4>4. step[<<k, f[k - 1]>>] = AddTask(tasks, f[k - 1], k)
        BY <4>3
      <4>5. QED
        BY <3>2, <4>3, <4>4
    <3>3. QED
      BY <3>1, <3>2
  <2> HIDE DEF D, first
  <2>2. QED
    BY <2>1
<1>8. reduced = Body(reduced)
  <2> HIDE DEF Body
  <2>1. (CHOOSE g : g = Body(g)) = Body(CHOOSE g : g = Body(g))
    BY <1>7
  <2>2. reduced = CHOOSE g : g = Body(g)
    BY DEF Reduced, Body
  <2>3. QED
    BY <2>1, <2>2
<1> HIDE DEF reduced
<1>9. 0 \in D /\ \A k \in 1..N : k \in D /\ k # 0
  <2> HIDE DEF N
  <2>1. QED
    BY <1>1
<1>10. reduced[0] = first /\ \A k \in 1..N : reduced[k] = AddTask(tasks, reduced[k - 1], k)
  <2>1. \A k \in D : reduced[k] = IF k = 0 THEN first ELSE AddTask(tasks, reduced[k - 1], k)
    <3> HIDE DEF D, first
    <3>1. QED
      BY <1>8
  <2> HIDE DEF D, N, first
  <2>2. QED
    BY <1>9, <2>1
<1>11. QED
  BY <1>10 DEF reduced

LEMMA StepRightly ==
  ASSUME NEW tasks \in Seq(Candidate), NEW acc \in Accumulated, NEW n \in Nat, n + 1 \in DOMAIN tasks,
         ReducedRightly(tasks, acc, n), NEW next, next = AddTask(tasks, acc, n + 1)
  PROVE  ReducedRightly(tasks, next, n + 1)
<1> DEFINE k == n + 1
<1> DEFINE size == tasks[k].size
<1>1. /\ acc.chosen \subseteq 1..n /\ (n > 0 => acc.chosen # {})
      /\ acc.cost = IF Rerun(tasks, acc.chosen) THEN Null ELSE SizeOf(tasks, acc.chosen)
      /\ ~Rerun(tasks, acc.chosen) => (\E x : acc.chosen \subseteq {x}) \/ SizeOf(tasks, acc.chosen) < MaxCost
      /\ \A j \in (1..n) \ acc.chosen : SizeOf(tasks, Ahead(acc.chosen, j)) + tasks[j].size >= MaxCost
  BY DEF ReducedRightly
<1>2. k \in Nat /\ k > 0 /\ k \notin acc.chosen /\ k \in DOMAIN tasks /\ (1..n) \subseteq 1..k /\ k \in 1..k
      /\ \A j \in 1..k : j = k \/ j \in 1..n
  BY <1>1
<1>3. size \in Nat /\ SizeOf(tasks, acc.chosen) \in Nat /\ MaxCost \in Nat /\ Null \notin Nat
  BY <1>2, SizesAre, LimitsAssumption, CostsAssumption
<1>4. Cost(tasks[k]) = IF tasks[k].rerun THEN Null ELSE size
  BY DEF Cost
<1> DEFINE full == AtLeast(Plus(acc.cost, Cost(tasks[k])), MaxCost)
<1>5. full => /\ ~Rerun(tasks, acc.chosen) /\ ~tasks[k].rerun
              /\ SizeOf(tasks, acc.chosen) + size >= MaxCost
  BY <1>1, <1>3, <1>4 DEF Plus, AtLeast
<1>6. ~full /\ ~Rerun(tasks, acc.chosen) /\ ~tasks[k].rerun => SizeOf(tasks, acc.chosen) + size < MaxCost
  <2>1. SUFFICES ASSUME ~full, ~Rerun(tasks, acc.chosen), ~tasks[k].rerun
                 PROVE  SizeOf(tasks, acc.chosen) + size < MaxCost
    OBVIOUS
  <2>2. acc.cost = SizeOf(tasks, acc.chosen) /\ Cost(tasks[k]) = size
    BY <1>1, <1>4, <2>1
  <2>3. Plus(acc.cost, Cost(tasks[k])) = SizeOf(tasks, acc.chosen) + size /\ SizeOf(tasks, acc.chosen) + size # Null
    BY <1>3, <2>2 DEF Plus
  <2>4. QED
    BY <1>3, <2>1, <2>3 DEF AtLeast
<1>7. CASE acc.chosen # {} /\ full
  <2>1. next = acc
    BY <1>7 DEF AddTask
  <2>2. Ahead(acc.chosen, k) = acc.chosen
    BY <1>1 DEF Ahead
  <2>3. SizeOf(tasks, Ahead(acc.chosen, k)) + tasks[k].size >= MaxCost
    BY <1>5, <1>7, <2>2
  <2>4. \A j \in (1..k) \ acc.chosen : SizeOf(tasks, Ahead(acc.chosen, j)) + tasks[j].size >= MaxCost
    <3> HIDE DEF k
    <3>1. QED
      BY <1>1, <1>2, <2>3
  <2>5. acc.chosen \subseteq 1..k
    BY <1>1, <1>2
  <2>6. ReducedRightly(tasks, acc, k)
    <3> HIDE DEF k
    <3>1. QED
      BY <1>1, <1>7, <2>4, <2>5 DEF ReducedRightly
  <2>7. QED
    BY <2>1, <2>6
<1>8. CASE ~(acc.chosen # {} /\ full)
  <2>1. next = Added(tasks, acc, k)
    BY <1>8 DEF AddTask
  <2>2. next.cost = Plus(acc.cost, Cost(tasks[k])) /\ next.chosen = acc.chosen \cup {k}
    BY <2>1 DEF Added
  <2> HIDE DEF full
  <2>3. next.chosen \subseteq 1..k /\ next.chosen # {}
    BY <1>1, <1>2, <2>2
  <2>4. Rerun(tasks, next.chosen) <=> Rerun(tasks, acc.chosen) \/ tasks[k].rerun
    <3> HIDE DEF k
    <3>1. QED
      BY <2>2 DEF Rerun
  <2>5. SizeOf(tasks, next.chosen) = SizeOf(tasks, acc.chosen) + size
    <3> HIDE DEF k
    <3>1. SizeOf(tasks, acc.chosen \cup {k}) = SizeOf(tasks, acc.chosen) + tasks[k].size
      BY <1>2, SizeAdded
    <3>2. QED
      BY <2>2, <3>1
  <2>6. next.cost = IF Rerun(tasks, next.chosen) THEN Null ELSE SizeOf(tasks, next.chosen)
    <3> HIDE DEF k, size
    <3>1. CASE Rerun(tasks, acc.chosen) \/ tasks[k].rerun
      BY <1>1, <1>4, <2>2, <2>4, <3>1 DEF Plus
    <3>2. CASE ~Rerun(tasks, acc.chosen) /\ ~tasks[k].rerun
      <4>1. acc.cost = SizeOf(tasks, acc.chosen) /\ Cost(tasks[k]) = size
        BY <1>1, <1>4, <3>2
      <4>2. Plus(acc.cost, Cost(tasks[k])) = SizeOf(tasks, acc.chosen) + size
        BY <1>3, <4>1 DEF Plus
      <4>3. QED
        BY <2>2, <2>4, <2>5, <3>2, <4>2
    <3>3. QED
      BY <3>1, <3>2
  <2>7. ~Rerun(tasks, next.chosen) => (\E x : next.chosen \subseteq {x}) \/ SizeOf(tasks, next.chosen) < MaxCost
    <3>1. CASE acc.chosen = {}
      BY <2>2, <3>1
    <3>2. CASE acc.chosen # {}
      BY <1>6, <1>8, <2>4, <2>5, <3>2
    <3>3. QED
      BY <3>1, <3>2
  <2>8. \A j \in (1..k) \ next.chosen : SizeOf(tasks, Ahead(next.chosen, j)) + tasks[j].size >= MaxCost
    <3>1. ASSUME NEW j \in (1..k) \ next.chosen
          PROVE  SizeOf(tasks, Ahead(next.chosen, j)) + tasks[j].size >= MaxCost
      <4>1. j \in (1..n) \ acc.chosen /\ j <= n
        BY <1>2, <2>2
      <4>2. Ahead(next.chosen, j) = Ahead(acc.chosen, j)
        BY <2>2, <4>1 DEF Ahead
      <4>3. QED
        BY <1>1, <4>1, <4>2
    <3> HIDE DEF k
    <3>2. QED
      BY <3>1
  <2> HIDE DEF k
  <2>9. ReducedRightly(tasks, next, k)
    BY <2>3, <2>6, <2>7, <2>8 DEF ReducedRightly
  <2>10. QED
    BY <2>9 DEF k
<1>9. QED
  BY <1>7, <1>8

LEMMA ChosenRightly ==
  ASSUME NEW tasks \in Seq(Candidate)
  PROVE  \E acc : acc.chosen = Chosen(tasks) /\ ReducedRightly(tasks, acc, Len(Limited(tasks)))
<1> DEFINE N == Len(Limited(tasks))
<1> DEFINE reduced == Reduced(tasks)
<1> DEFINE T == {n \in Nat : n <= N => reduced[n] \in Accumulated /\ ReducedRightly(tasks, reduced[n], n)}
<1>1. N \in Nat /\ N <= Len(tasks) /\ Len(tasks) \in Nat /\ DOMAIN tasks = 1..Len(tasks)
  BY LimitedIs
<1>2. reduced[0] = [cost |-> 0, chosen |-> {}] /\ \A k \in 1..N : reduced[k] = AddTask(tasks, reduced[k - 1], k)
  BY ReducedIs
<1> HIDE DEF N, reduced
<1>3. 0 \in T
  <2> DEFINE first == [cost |-> 0, chosen |-> {}]
  <2>1. first \in Accumulated /\ first.cost = 0 /\ first.chosen = {}
    BY DEF Accumulated
  <2> HIDE DEF first
  <2>2. ~Rerun(tasks, {}) /\ SizeOf(tasks, {}) = 0
    BY SizeOfNone DEF Rerun
  <2>3. ReducedRightly(tasks, first, 0)
    BY <2>1, <2>2 DEF ReducedRightly
  <2>4. QED
    BY <1>2, <2>1, <2>3 DEF first
<1>4. ASSUME NEW n \in Nat, n \in T PROVE n + 1 \in T
  <2>1. SUFFICES ASSUME n + 1 <= N
                 PROVE  reduced[n + 1] \in Accumulated /\ ReducedRightly(tasks, reduced[n + 1], n + 1)
    OBVIOUS
  <2>2. n <= N /\ n + 1 \in 1..N /\ n + 1 \in DOMAIN tasks /\ (n + 1) - 1 = n
    BY <1>1, <2>1
  <2>3. reduced[n + 1] = AddTask(tasks, reduced[n], n + 1)
    BY <1>2, <2>2
  <2>4. reduced[n] \in Accumulated /\ ReducedRightly(tasks, reduced[n], n)
    BY <1>4, <2>2
  <2> DEFINE acc == reduced[n]
  <2> DEFINE next == reduced[n + 1]
  <2> DEFINE k == n + 1
  <2>5. acc \in Accumulated /\ ReducedRightly(tasks, acc, n) /\ next = AddTask(tasks, acc, n + 1)
    BY <2>3, <2>4
  <2> HIDE DEF acc, next
  <2>6. ReducedRightly(tasks, next, n + 1)
    BY <2>2, <2>5, StepRightly
  <2>7. next \in Accumulated
    <3>1. k \in DOMAIN tasks /\ next = AddTask(tasks, acc, k)
      BY <2>2, <2>5
    <3> HIDE DEF k
    <3>2. QED
      BY <2>5, <3>1, AddTaskIs
  <2>8. QED
    BY <2>6, <2>7 DEF next
<1> HIDE DEF T
<1>5. N \in T
  BY <1>1, <1>3, <1>4, Induction
<1>6. ReducedRightly(tasks, reduced[N], N) /\ Chosen(tasks) = reduced[N].chosen
  BY <1>1, <1>5 DEF T, Chosen, reduced, N
<1>7. QED
  BY <1>6 DEF N

-----------------------------------------------------------------------------
(* The specification *)

BatchInv == candidates \in Seq(Candidate) /\ (chosen = Pending \/ chosen = Chosen(candidates))

LEMMA BatchInvHolds == Spec => []BatchInv
<1>1. Init => BatchInv
  BY DEF Init, BatchInv
<1>2. ASSUME BatchInv, [Next]_selectionVars
      PROVE  BatchInv'
  <2>1. CASE Select
    BY <1>2, <2>1 DEF Select, BatchInv
  <2>2. CASE \E t \in Candidate : Row(t)
    BY <1>2, <2>2 DEF Row, BatchInv
  <2>3. CASE UNCHANGED selectionVars
    BY <1>2, <2>3 DEF BatchInv, selectionVars
  <2>4. QED
    BY <1>2, <2>1, <2>2, <2>3 DEF Next
<1>3. QED
  BY <1>1, <1>2, PTL DEF Spec

LEMMA TotalSizeIs == \A ks : TotalSize(ks) = SizeOf(candidates, ks)
BY DEF TotalSize, SizeOf

LEMMA BatchRight == BatchInv => BatchTakesTheFirst
<1> SUFFICES ASSUME BatchInv, chosen # Pending
             PROVE  BatchTakesTheFirst
  BY DEF BatchTakesTheFirst, SomeBatch, PassedOverForCost, IngestedWithinCost
<1>1. candidates \in Seq(Candidate) /\ chosen = Chosen(candidates)
  BY DEF BatchInv
<1> DEFINE N == Len(Limited(candidates))
<1>2. N \in Nat /\ N <= Len(candidates) /\ N <= MaxBatchSize /\ (N = 0 => candidates = <<>>)
  BY <1>1, LimitedIs
<1>3. PICK acc : acc.chosen = chosen /\ ReducedRightly(candidates, acc, N)
  BY <1>1, ChosenRightly
<1> HIDE DEF N
<1>4. /\ chosen \subseteq 1..N /\ (N > 0 => chosen # {})
      /\ ~Rerun(candidates, chosen) => (\E x : chosen \subseteq {x}) \/ SizeOf(candidates, chosen) < MaxCost
      /\ \A j \in (1..N) \ chosen : SizeOf(candidates, Ahead(chosen, j)) + candidates[j].size >= MaxCost
  BY <1>3 DEF ReducedRightly
<1>5. SomeBatch
  <2>1. chosen = {} => candidates = <<>>
    BY <1>2, <1>4
  <2>2. IsFiniteSet(1..N) /\ Cardinality(1..N) = N
    BY <1>2, FS_Interval
  <2>3. IsFiniteSet(chosen) /\ Cardinality(chosen) <= N /\ Cardinality(chosen) \in Nat
    BY <1>4, <2>2, FS_Subset, FS_CardinalityType
  <2>4. Cardinality(chosen) <= MaxBatchSize
    BY <1>2, <2>3, LimitsAssumption
  <2>5. QED
    BY <2>1, <2>4 DEF SomeBatch
<1>6. PassedOverForCost
  <2>1. SUFFICES ASSUME NEW k \in DOMAIN candidates \ chosen, NEW l \in chosen, l > k
                 PROVE  AtLeast(TotalSize({m \in chosen : m < k}) + candidates[k].size, MaxCost)
    BY DEF PassedOverForCost
  <2>2. k \in (1..N) \ chosen
    BY <1>1, <1>2, <1>4, <2>1
  <2>3. TotalSize({m \in chosen : m < k}) = SizeOf(candidates, Ahead(chosen, k))
    BY TotalSizeIs DEF Ahead
  <2>4. SizeOf(candidates, Ahead(chosen, k)) + candidates[k].size >= MaxCost
    BY <1>4, <2>2
  <2>5. SizeOf(candidates, Ahead(chosen, k)) + candidates[k].size # Null
    <3> DEFINE ks == Ahead(chosen, k)
    <3> HIDE DEF ks
    <3>1. SizeOf(candidates, ks) \in Nat
      BY <1>1, SizesAre
    <3>2. candidates[k] \in Candidate
      BY <1>1, <2>1
    <3>3. candidates[k].size \in Nat
      BY <3>2, CostsAssumption DEF Candidate
    <3>4. SizeOf(candidates, ks) + candidates[k].size \in Nat
      BY <3>1, <3>3
    <3>5. QED
      BY <3>4, CostsAssumption DEF ks
  <2>6. QED
    BY <2>3, <2>4, <2>5 DEF AtLeast
<1>7. IngestedWithinCost
  <2>1. SUFFICES ASSUME \A k \in chosen : ~candidates[k].rerun
                 PROVE  Cardinality(chosen) <= 1 \/ TotalSize(chosen) < MaxCost
    BY DEF IngestedWithinCost
  <2>2. ~Rerun(candidates, chosen)
    BY <2>1 DEF Rerun
  <2>3. CASE \E x : chosen \subseteq {x}
    <3>1. PICK x : chosen \subseteq {x}
      BY <2>3
    <3>2. Cardinality(chosen) <= Cardinality({x}) /\ Cardinality({x}) = 1 /\ Cardinality(chosen) \in Nat
      BY <3>1, FS_Singleton, FS_Subset, FS_CardinalityType
    <3>3. QED
      BY <3>2
  <2>4. CASE SizeOf(candidates, chosen) < MaxCost
    BY <2>4, TotalSizeIs
  <2>5. QED
    BY <1>4, <2>2, <2>3, <2>4
<1>8. QED
  BY <1>5, <1>6, <1>7 DEF BatchTakesTheFirst

(* A batch is empty only if there is nothing to do, is within its limits,  *)
(* and passes a task over only for its cost, for any sizes and limits      *)
(* (fetchWork's LIMIT and reduce).                                         *)
THEOREM BatchTakesTheFirstAlways == Spec => []BatchTakesTheFirst
BY BatchInvHolds, BatchRight, PTL
=============================================================================
