---------------------------- MODULE MCSmallParts ----------------------------
(***************************************************************************)
(* Instances of the parts that need few states, one of them at a time: the *)
(* choice of a batch of work, the session of a user, the forms in which    *)
(* users register, the page of users.  The rest stays as it starts, with   *)
(* the session at the login form.                                          *)
(***************************************************************************)
EXTENDS BatchSelection, Session, Registration, UserAdmin

VARIABLE part

smallPartsVars == <<part, selectionVars, sessionVars, registrationVars, adminVars>>

AtLoginForm ==
  /\ provider = "database" /\ auth = Anonymous /\ stored = NoToken /\ attempts = 0
  /\ screen = "login" /\ loginRequests = 0 /\ inFlight = {}
  /\ logins = 0 /\ ended = 0 /\ user = 0

SmallPartsInit ==
  /\ part \in {"batch", "session", "registration", "users"}
  /\ IF part = "session" THEN SessionInit ELSE AtLoginForm
  /\ (part = "registration" \/ (kind = "register" /\ require2fa = FALSE)) /\ RegistrationInit
  /\ (part = "users" \/ existing = {Me}) /\ UserAdminInit
  /\ Init

UseBatch == part = "batch" /\ Next /\ UNCHANGED <<part, sessionVars, registrationVars, adminVars>>
UseSession ==
  part = "session" /\ SessionNext /\ UNCHANGED <<part, selectionVars, registrationVars, adminVars>>
UseRegistration ==
  part = "registration" /\ RegistrationNext /\ UNCHANGED <<part, selectionVars, sessionVars, adminVars>>
UseUsers ==
  part = "users" /\ UserAdminNext /\ UNCHANGED <<part, selectionVars, sessionVars, registrationVars>>

SmallPartsNext == UseBatch \/ UseSession \/ UseRegistration \/ UseUsers

SmallPartsSpec == SmallPartsInit /\ [][SmallPartsNext]_smallPartsVars /\ SessionFairness

\* Each part has states of its type.
SmallPartsTypeOK == TypeOK /\ SessionTypeOK /\ RegistrationTypeOK /\ UserAdminTypeOK
=============================================================================
