------------------------------- MODULE Session -------------------------------
(***************************************************************************)
(* The session of the web client: the token in the store and in local      *)
(* storage, the login form with its providers, the automatic login of the  *)
(* Panda provider, keepalive, logging out, and answers that come late.     *)
(***************************************************************************)
EXTENDS Naturals

CONSTANTS
  NoToken,
  MaxLogins,   \* bound: tokens the server issues
  MaxRequests, \* bound: logins in flight
  MaxUser      \* bound: things the user does, and expiries

ASSUME NoTokenAssumption == NoToken \notin [login : 1..MaxLogins, expired : BOOLEAN]

VARIABLES
  provider,   \* userProvider of the configuration
  auth,       \* state.auth
  stored,     \* localStorage.pfiAuthHeader
  attempts,   \* localStorage.autoAuthAttempts
  screen,     \* what is on screen: the application, the login form, another site
  loginRequests, \* logins the client waits for
  inFlight,   \* other requests it waits for
  logins,     \* logins the server has granted
  ended,      \* the last login that the user has ended
  user        \* things the user has done

sessionVars == <<provider, auth, stored, attempts, screen, loginRequests, inFlight, logins, ended, user>>

Tokens == [login : 1..MaxLogins, expired : BOOLEAN]
Requests == [kind : {"logout", "keepalive"}, token : Tokens \cup {NoToken}]
Auth == [token : Tokens \cup {NoToken}, requesting : BOOLEAN, require2fa : BOOLEAN,
         requirePanda : BOOLEAN, forbidden : BOOLEAN, errors : BOOLEAN]

SessionTypeOK ==
  /\ provider \in {"database", "panda"}
  /\ auth \in Auth
  /\ stored \in Tokens \cup {NoToken}
  /\ attempts \in 0..2
  /\ screen \in {"app", "login", "away"}
  /\ loginRequests \in Nat
  /\ inFlight \subseteq Requests
  /\ logins \in 0..MaxLogins /\ ended \in 0..MaxLogins
  /\ user \in 0..MaxUser

Anonymous == [token |-> NoToken, requesting |-> FALSE, require2fa |-> FALSE,
              requirePanda |-> FALSE, forbidden |-> FALSE, errors |-> FALSE]

IsLoggedIn(a) == a.token # NoToken /\ ~a.token.expired

Fresh(login) == [login |-> login, expired |-> FALSE]

(***************************************************************************)
(* The reducer.                                                            *)
(***************************************************************************)

TokenRequested(a) == [a EXCEPT !.requesting = TRUE, !.errors = FALSE]
TokenReceived(a, token) ==
  [a EXCEPT !.token = token, !.requesting = FALSE, !.require2fa = FALSE, !.errors = FALSE]
Unauthorised(a) ==
  [a EXCEPT !.token = NoToken, !.requesting = FALSE, !.require2fa = FALSE, !.errors = FALSE]
Failed(a, kind) ==
  [a EXCEPT !.requesting = kind # "logout" /\ @, !.require2fa = kind # "logout" /\ @, !.errors = TRUE]

(***************************************************************************)
(* App and Login: what is mounted follows from the token whenever the      *)
(* store has changed.  A login form that is mounted with the Panda         *)
(* provider logs in by itself, unless it has done so twice; one that is    *)
(* unmounted forgets its attempts; one told that Panda is required leaves  *)
(* for its site.                                                           *)
(***************************************************************************)

Client == [auth |-> auth, page |-> screen, attempts |-> attempts, requests |-> loginRequests]

Becomes(client) ==
  /\ auth' = client.auth
  /\ screen' = client.page
  /\ attempts' = client.attempts
  /\ loginRequests' = client.requests

SendLogin(client) ==
  [client EXCEPT !.auth = TokenRequested(@), !.requests = @ + 1]

\* Mutant: attempts are not counted.
AutoLoginUncounted(client) == IF client.auth.errors THEN client ELSE SendLogin(client)

\* Mutant: they are not forgotten when there have been too many.
AutoLoginKeeping(client) ==
  LET counted == [client EXCEPT !.attempts = @ + 1]
  IN  IF counted.attempts < 3 /\ ~client.auth.errors THEN SendLogin(counted) ELSE counted

AutoLogin(client) ==
  LET tried == client.attempts + 1
      counted == [client EXCEPT !.attempts = IF tried >= 3 THEN 0 ELSE tried]
  IN  IF tried < 3 /\ ~client.auth.errors THEN SendLogin(counted) ELSE counted

Rendered(client) ==
  LET a == client.auth
      form == [client EXCEPT !.page = IF provider = "panda" /\ a.requirePanda THEN "away" ELSE "login"]
  IN  CASE IsLoggedIn(a) ->
             [client EXCEPT !.page = "app", !.attempts = IF client.page = "login" THEN 0 ELSE @]
        [] ~IsLoggedIn(a) /\ provider = "panda" /\ client.page # "login" -> AutoLogin(form)
        [] OTHER -> form

Dispatched(client, a) == Rendered([client EXCEPT !.auth = a])

\* logOutTheUserLocally, then the rejection of the request.
LoggedOut(client, kind) ==
  LET anonymous == Dispatched(client, Unauthorised(client.auth))
  IN  Dispatched(anonymous, Failed(anonymous.auth, kind))

(***************************************************************************)
(* Logging in.                                                             *)
(***************************************************************************)

Login ==
  /\ screen = "login" /\ ~auth.requesting /\ loginRequests < MaxRequests
  /\ user < MaxUser /\ user' = user + 1
  /\ Becomes(SendLogin(Client))
  /\ UNCHANGED <<provider, stored, inFlight, logins, ended>>

\* The answer to a login leaves the store with a.
LoginAnswered(a) ==
  /\ screen # "away" /\ loginRequests > 0
  /\ Becomes(Dispatched([Client EXCEPT !.requests = @ - 1], a))
  /\ UNCHANGED <<provider, inFlight, ended, user>>

GrantToken ==
  /\ logins < MaxLogins
  /\ logins' = logins + 1
  /\ stored' = Fresh(logins')
  /\ LoginAnswered(TokenReceived(auth, Fresh(logins')))

Require2fa ==
  /\ provider = "database"
  /\ LoginAnswered([auth EXCEPT !.require2fa = TRUE, !.requesting = FALSE, !.errors = TRUE])
  /\ UNCHANGED <<stored, logins>>

RequirePanda ==
  /\ provider = "panda"
  /\ LoginAnswered([auth EXCEPT !.requirePanda = TRUE, !.requesting = FALSE, !.errors = TRUE])
  /\ UNCHANGED <<stored, logins>>

Forbid ==
  /\ LoginAnswered([auth EXCEPT !.forbidden = TRUE, !.errors = TRUE])
  /\ UNCHANGED <<stored, logins>>

\* Any other answer, or none.
LoginFails ==
  /\ LoginAnswered([auth EXCEPT !.requesting = FALSE, !.require2fa = FALSE, !.errors = TRUE])
  /\ UNCHANGED <<stored, logins>>

\* A page load: with the token that is stored, if any.
Load ==
  /\ Becomes(Rendered([auth |-> [Anonymous EXCEPT !.token = stored], page |-> "away",
                        attempts |-> attempts, requests |-> 0]))
  /\ inFlight' = {}
  /\ UNCHANGED <<provider, stored, logins, ended>>

Reload == screen # "away" /\ user < MaxUser /\ user' = user + 1 /\ Load
ComeBack == screen = "away" /\ Load /\ UNCHANGED user

(***************************************************************************)
(* Requests of the application.                                            *)
(***************************************************************************)

\* authFetch: an expired token ends the session before anything is sent.
AuthFetch(kind, client) ==
  IF client.auth.token # NoToken /\ client.auth.token.expired
  THEN /\ stored' = NoToken
       /\ Becomes(LoggedOut(client, kind))
       /\ UNCHANGED inFlight
  ELSE /\ Becomes(client)
       /\ inFlight' = inFlight \cup {[kind |-> kind, token |-> client.auth.token]}
       /\ UNCHANGED stored

\* The interval of SessionKeepalive.
Keepalive ==
  /\ screen = "app"
  /\ \A r \in inFlight : r.kind # "keepalive"
  /\ AuthFetch("keepalive", Dispatched(Client, [auth EXCEPT !.errors = FALSE]))
  /\ UNCHANGED <<provider, logins, ended, user>>

LogOut ==
  /\ screen = "app"
  /\ user < MaxUser /\ user' = user + 1
  /\ AuthFetch("logout", Dispatched(Client, TokenRequested(auth)))
  /\ UNCHANGED <<provider, logins, ended>>

\* The answers the server may give to a token: one from before the user
\* logged out is refused only once its verification is due.
Accepted(token) == token # NoToken
Refused(token) == token = NoToken \/ token.login <= ended

Answer(r) == screen # "away" /\ r \in inFlight /\ inFlight' = inFlight \ {r}

\* handleResponseFromAuthRequest: an answer of success offers a token with a
\* new expiry.
KeepaliveAnswered(r) ==
  /\ Answer(r) /\ r.kind = "keepalive" /\ Accepted(r.token)
  /\ stored' = Fresh(r.token.login)
  /\ Becomes(Dispatched(Client, TokenReceived(auth, stored')))
  /\ UNCHANGED <<provider, logins, ended, user>>

\* One of 401 logs out.
RequestRefused(r) ==
  /\ Answer(r) /\ Refused(r.token)
  /\ stored' = NoToken
  /\ Becomes(LoggedOut(Client, r.kind))
  /\ UNCHANGED <<provider, logins, ended, user>>

\* The invalidation: what is offered with its answer is dropped again.
LogoutAnswered(r) ==
  /\ Answer(r) /\ r.kind = "logout" /\ Accepted(r.token)
  /\ ended' = IF r.token.login > ended THEN r.token.login ELSE ended
  /\ stored' = NoToken
  /\ LET offered == Dispatched(Client, TokenReceived(auth, Fresh(r.token.login)))
     IN  Becomes(Dispatched(offered, Unauthorised(offered.auth)))
  /\ UNCHANGED <<provider, logins, user>>

RequestFails(r) ==
  /\ Answer(r)
  /\ Becomes(Dispatched(Client, Failed(auth, r.kind)))
  /\ UNCHANGED <<provider, stored, logins, ended, user>>

\* Time passes; nothing is rendered again.
Expire ==
  /\ IsLoggedIn(auth)
  /\ user < MaxUser /\ user' = user + 1
  /\ auth' = [auth EXCEPT !.token = [@ EXCEPT !.expired = TRUE]]
  /\ stored' = IF stored = auth.token THEN auth'.token ELSE stored
  /\ UNCHANGED <<provider, attempts, screen, loginRequests, inFlight, logins, ended>>

LoginAnswers == GrantToken \/ Require2fa \/ RequirePanda \/ Forbid \/ LoginFails
FetchAnswers == \E r \in inFlight : 
  KeepaliveAnswered(r) \/ LogoutAnswered(r) \/ RequestRefused(r) \/ RequestFails(r)

SessionInit ==
  /\ provider \in {"database", "panda"}
  /\ auth = Anonymous
  /\ stored = NoToken
  /\ attempts = 0
  /\ screen = "away"
  /\ loginRequests = 0
  /\ inFlight = {}
  /\ logins = 0 /\ ended = 0
  /\ user = 0

SessionNext == Login \/ Reload \/ ComeBack \/ Keepalive \/ LogOut \/ Expire \/ LoginAnswers \/ FetchAnswers

\* Requests are answered, or fail; the other site sends the browser back;
\* the interval of the keepalive keeps firing.
SessionFairness ==
  /\ WF_sessionVars(ComeBack) /\ WF_sessionVars(Keepalive)
  /\ WF_sessionVars(LoginAnswers) /\ WF_sessionVars(FetchAnswers)

SessionSpec == SessionInit /\ [][SessionNext]_sessionVars /\ SessionFairness

(***************************************************************************)
(* Properties.                                                             *)
(***************************************************************************)

(* Left alone, the browser comes to rest at the application or at the      *)
(* login form: the automatic login does not send it to the login service   *)
(* and back for ever (autoLogin).                                          *)
AutoLoginComesToRest == <>[](screen # "away")

(* A session that has expired while its page was open ends: the next       *)
(* keepalive finds the token expired and shows the login form (authFetch,  *)
(* SessionKeepalive), unless an answer brings a new token first.           *)
ExpiredSessionEnds == (screen = "app" /\ ~IsLoggedIn(auth)) ~> (screen # "app" \/ IsLoggedIn(auth))

(* The browser neither wanders for ever nor stays in a session that is     *)
(* over: both of the above.                                                *)
SessionSettles == AutoLoginComesToRest /\ ExpiredSessionEnds

(* Refuted.  Login.js:190 means a user who is blocked to be told why; with *)
(* the answer the form is not busy any more.                               *)
BlockedUserIsTold == auth.forbidden /\ loginRequests = 0 /\ inFlight = {} => ~auth.requesting
==============================================================================
