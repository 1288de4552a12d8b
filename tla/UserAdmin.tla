----------------------------- MODULE UserAdmin -----------------------------
(***************************************************************************)
(* The page of the users: listing, creating and deleting them, making them *)
(* administrators, and the collections each can see.                       *)
(***************************************************************************)
EXTENDS Integers, Sequences, FiniteSets, SequencesExt

CONSTANTS
  Names, Me,       \* user names, and the one whose page it is
  Collections,
  MaxLists,        \* bound: lists in flight
  MaxChanges,      \* bound: creations, deletions and changes of a user
  MaxMounts        \* bound: times the page is opened

ASSUME UserAdminAssumption == Me \in Names /\ {MaxLists, MaxChanges, MaxMounts} \subseteq Nat

VARIABLES
  existing,    \* users on the server
  admins,      \* those who may perform admin operations
  visible,     \* collections each can see
  page,        \* the page: mounted, modals, and what it has of the store
  users,       \* state.users.userList
  lists,       \* lists in flight
  calls,       \* other calls in flight
  changes, mounts,
  lastChosen,  \* what the page shows of each user's collections, once chosen
  disturbed    \* something failed, was overtaken or overlapped

adminVars == <<existing, admins, visible, page, users, lists, calls, changes, mounts, lastChosen, disturbed>>

NoUser == <<>>   \* no modal for deleting
Modal(n) == <<n>>
User(n) == [name |-> n, detail |-> TRUE, admin |-> n \in admins]
Punter(n) == [name |-> n, detail |-> FALSE, admin |-> FALSE]
Listed == [name : Names, detail : BOOLEAN, admin : BOOLEAN]
Kinds == {"create", "delete", "permissions", "collections"}

UserAdminTypeOK ==
  /\ existing \subseteq Names /\ admins \subseteq existing
  /\ visible \in [Names -> SUBSET Collections]
  /\ page \in [mounted : BOOLEAN, admin : BOOLEAN, creating : BOOLEAN, createModal : BOOLEAN,
               createFailed : BOOLEAN, deleteModal : {NoUser} \cup {Modal(n) : n \in Names}]
  /\ users \subseteq Listed
  /\ lists \in Seq([read : BOOLEAN, users : SUBSET Listed])
  /\ calls \in Seq([kind : Kinds, name : Names, value : SUBSET Collections, grant : BOOLEAN,
                    toRemove : SUBSET Collections, stage : {"sent", "read", "removed", "done", "failed"}])
  /\ changes \in 0..MaxChanges /\ mounts \in 0..MaxMounts
  /\ lastChosen \in [Names -> SUBSET Collections]
  /\ disturbed \in BOOLEAN

(***************************************************************************)
(* The list of the users.                                                  *)
(***************************************************************************)

UnreadUsers == [read |-> FALSE, users |-> {}]
ListUsers == Len(lists) < MaxLists /\ lists' = Append(lists, UnreadUsers)

\* Who is no administrator is told the names alone.
ListAsAdmin == {User(n) : n \in existing}
ListAsPunter == {Punter(n) : n \in existing}

ListUsersRead(i) ==
  /\ ~lists[i].read
  /\ lists' = [lists EXCEPT ![i] = [read |-> TRUE,
                                    users |-> IF Me \in admins THEN ListAsAdmin ELSE ListAsPunter]]
  /\ UNCHANGED <<existing, admins, visible, page, users, calls, changes, mounts, lastChosen, disturbed>>

ReceiveUserList(i) ==
  /\ lists[i].read
  /\ lists' = RemoveAt(lists, i)
  /\ users' = lists[i].users
  /\ disturbed' = (disturbed \/ i # 1)
  /\ UNCHANGED <<existing, admins, visible, page, calls, changes, mounts, lastChosen>>

ErrorReceivingUserList(i) ==
  /\ lists' = RemoveAt(lists, i)
  /\ disturbed' = TRUE
  /\ UNCHANGED <<existing, admins, visible, page, users, calls, changes, mounts, lastChosen>>

(***************************************************************************)
(* The administrator.                                                      *)
(***************************************************************************)

Mount ==
  /\ ~page.mounted /\ mounts < MaxMounts /\ mounts' = mounts + 1
  /\ page' = [page EXCEPT !.mounted = TRUE, !.createModal = FALSE, !.deleteModal = NoUser]
  /\ ListUsers
  /\ UNCHANGED <<existing, admins, visible, users, calls, changes, lastChosen, disturbed>>

Unmount ==
  /\ page.mounted
  /\ page' = [page EXCEPT !.mounted = FALSE]
  /\ UNCHANGED <<existing, admins, visible, users, lists, calls, changes, mounts, lastChosen, disturbed>>

ReceiveMyPermissions ==
  /\ page.mounted /\ page.admin # (Me \in admins)
  /\ page' = [page EXCEPT !.admin = Me \in admins]
  /\ UNCHANGED <<existing, admins, visible, users, lists, calls, changes, mounts, lastChosen, disturbed>>

Shown == page.mounted /\ page.admin

OpenCreate ==
  /\ Shown /\ ~page.createModal
  /\ page' = [page EXCEPT !.createModal = TRUE]
  /\ UNCHANGED <<existing, admins, visible, users, lists, calls, changes, mounts, lastChosen, disturbed>>

DismissCreate ==
  /\ Shown /\ page.createModal
  /\ page' = [page EXCEPT !.createModal = FALSE]
  /\ UNCHANGED <<existing, admins, visible, users, lists, calls, changes, mounts, lastChosen, disturbed>>

AskDelete(n) ==
  /\ Shown /\ n # Me /\ page.deleteModal = NoUser /\ \E u \in users : u.name = n
  /\ page' = [page EXCEPT !.deleteModal = Modal(n)]
  /\ UNCHANGED <<existing, admins, visible, users, lists, calls, changes, mounts, lastChosen, disturbed>>

DismissDelete ==
  /\ Shown /\ page.deleteModal # NoUser
  /\ page' = [page EXCEPT !.deleteModal = NoUser]
  /\ UNCHANGED <<existing, admins, visible, users, lists, calls, changes, mounts, lastChosen, disturbed>>

Call(kind, name, value, grant) ==
  /\ changes < MaxChanges /\ changes' = changes + 1
  /\ calls' = Append(calls, [kind |-> kind, name |-> name, value |-> value, grant |-> grant,
                             toRemove |-> {}, stage |-> "sent"])

CanCreate(n) == ~page.creating /\ \A u \in users : u.name # n

CreateUser(n) ==
  /\ Shown /\ page.createModal /\ CanCreate(n)
  /\ Call("create", n, {}, FALSE)
  /\ page' = [page EXCEPT !.creating = TRUE, !.createFailed = FALSE]
  /\ UNCHANGED <<existing, admins, visible, users, lists, mounts, lastChosen, disturbed>>

\* OK can be pressed again until the answer comes.
DeleteUser(n) ==
  /\ Shown /\ page.deleteModal = Modal(n)
  /\ Call("delete", n, {}, FALSE)
  /\ UNCHANGED <<existing, admins, visible, page, users, lists, mounts, lastChosen, disturbed>>

\* The opposite of what the list says, which may not be what it will say.
SavePermissions(n) ==
  /\ Shown /\ n # Me
  /\ \E u \in users : u.name = n /\ Call("permissions", n, {}, ~u.admin)
  /\ UNCHANGED <<existing, admins, visible, page, users, lists, mounts, lastChosen, disturbed>>

Overlapped(n) == \E i \in DOMAIN calls : calls[i].name = n

\* The drop-down sends the whole choice at each change of it.
SaveCollections(n, choice) ==
  /\ Shown /\ \E u \in users : u.name = n
  /\ Call("collections", n, choice, FALSE)
  /\ lastChosen' = [lastChosen EXCEPT ![n] = choice]
  /\ disturbed' = (disturbed \/ Overlapped(n))
  /\ UNCHANGED <<existing, admins, visible, page, users, lists, mounts>>

(***************************************************************************)
(* The server.                                                             *)
(***************************************************************************)

Stage(i, stage) == calls' = [calls EXCEPT ![i].stage = stage]

\* Another call for the user of this one is in flight.
Overlaps(i) == \E j \in DOMAIN calls : j # i /\ calls[j].name = calls[i].name

CreateDone(i) ==
  LET c == calls[i] IN
  /\ c.kind = "create" /\ c.stage = "sent"
  /\ IF Me \in admins /\ c.name \notin existing
     THEN /\ Stage(i, "done")
          /\ existing' = existing \cup {c.name}
          /\ lastChosen' = [lastChosen EXCEPT ![c.name] = {}]
     ELSE Stage(i, "failed") /\ UNCHANGED <<existing, lastChosen>>
  /\ disturbed' = (disturbed \/ Overlaps(i))
  /\ UNCHANGED <<admins, visible, page, users, lists, changes, mounts>>

\* A user who is deleted goes with what the user could see.
DeleteDone(i) ==
  LET c == calls[i] IN
  /\ c.kind = "delete" /\ c.stage = "sent"
  /\ IF Me \in admins /\ c.name \in existing
     THEN /\ Stage(i, "done")
          /\ existing' = existing \ {c.name} /\ admins' = admins \ {c.name}
          /\ visible' = [visible EXCEPT ![c.name] = {}]
          /\ lastChosen' = [lastChosen EXCEPT ![c.name] = {}]
     ELSE Stage(i, "failed") /\ UNCHANGED <<existing, admins, visible, lastChosen>>
  /\ disturbed' = (disturbed \/ Overlaps(i))
  /\ UNCHANGED <<page, users, lists, changes, mounts>>

PermissionsDone(i) ==
  LET c == calls[i] IN
  /\ c.kind = "permissions" /\ c.stage = "sent"
  /\ IF Me \in admins /\ c.name \in existing
     THEN /\ Stage(i, "done")
          /\ admins' = IF c.grant THEN admins \cup {c.name} ELSE admins \ {c.name}
     ELSE Stage(i, "failed") /\ UNCHANGED admins
  /\ UNCHANGED <<existing, visible, page, users, lists, changes, mounts, lastChosen, disturbed>>

\* setUserCollections: one transaction to read, one for each collection that
\* is taken away and one for each that is added.
CollectionsRead(i) ==
  LET c == calls[i] IN
  /\ c.kind = "collections" /\ c.stage = "sent"
  /\ calls' = [calls EXCEPT ![i].stage = IF Me \in admins THEN "read" ELSE "failed",
                            ![i].toRemove = visible[c.name]]
  /\ disturbed' = (disturbed \/ Me \notin admins)
  /\ UNCHANGED <<existing, admins, visible, page, users, lists, changes, mounts, lastChosen>>

\* Mutant: what is no longer chosen stays.
RemovesNone(i) ==
  LET c == calls[i] IN
  /\ c.stage = "read" /\ Stage(i, "removed")
  /\ UNCHANGED <<existing, admins, visible, page, users, lists, changes, mounts, lastChosen, disturbed>>

CollectionsRemoved(i) ==
  LET c == calls[i] IN
  /\ c.stage = "read"
  /\ Stage(i, "removed")
  /\ visible' = [visible EXCEPT ![c.name] = @ \ c.toRemove]
  /\ UNCHANGED <<existing, admins, page, users, lists, changes, mounts, lastChosen, disturbed>>

CollectionsAdded(i) ==
  LET c == calls[i] IN
  /\ c.stage = "removed"
  /\ Stage(i, "done")
  /\ visible' = [visible EXCEPT ![c.name] = IF c.name \in existing THEN @ \cup c.value ELSE @]
  /\ UNCHANGED <<existing, admins, page, users, lists, changes, mounts, lastChosen, disturbed>>

\* Another administrator, on a page of their own.
MeRevoked ==
  /\ Me \in admins /\ changes < MaxChanges /\ changes' = changes + 1
  /\ admins' = admins \ {Me}
  /\ disturbed' = TRUE
  /\ UNCHANGED <<existing, visible, page, users, lists, calls, mounts, lastChosen>>

(***************************************************************************)
(* The answers.                                                            *)
(***************************************************************************)

Answered(i) == calls[i].stage = "done" /\ calls' = RemoveAt(calls, i)

ListAfterCreate == ListUsers

\* The modal that is open closes, the one the creation was sent from or another.
ReceiveCreateUser(i) ==
  /\ calls[i].kind = "create" /\ Answered(i) /\ ListAfterCreate
  /\ page' = [page EXCEPT !.creating = FALSE, !.createModal = @ /\ ~page.mounted]
  /\ UNCHANGED <<existing, admins, visible, users, changes, mounts, lastChosen, disturbed>>

DeleteAnswered(i) ==
  /\ calls[i].kind = "delete" /\ Answered(i) /\ ListUsers
  /\ page' = [page EXCEPT !.deleteModal = NoUser]
  /\ UNCHANGED <<existing, admins, visible, users, changes, mounts, lastChosen, disturbed>>

SettingAnswered(i) ==
  /\ calls[i].kind \in {"permissions", "collections"} /\ Answered(i) /\ ListUsers
  /\ UNCHANGED <<existing, admins, visible, page, users, changes, mounts, lastChosen, disturbed>>

\* The server refused, or stopped, or its answer was lost.
CallFailed(i) ==
  LET c == calls[i] IN
  /\ calls' = RemoveAt(calls, i)
  /\ disturbed' = (disturbed \/ c.stage # "failed" \/ c.kind = "collections")
  /\ page' = IF c.kind = "create" THEN [page EXCEPT !.creating = FALSE, !.createFailed = TRUE]
             ELSE page
  /\ UNCHANGED <<existing, admins, visible, users, lists, changes, mounts, lastChosen>>

(***************************************************************************)
(* The specification.                                                      *)
(***************************************************************************)

UserAdminInit ==
  /\ existing \in {s \in SUBSET Names : Me \in s}
  /\ admins = {Me}
  /\ visible = [n \in Names |-> {}] /\ lastChosen = visible
  /\ page = [mounted |-> FALSE, admin |-> FALSE, creating |-> FALSE, createModal |-> FALSE,
             createFailed |-> FALSE, deleteModal |-> NoUser]
  /\ users = {} /\ lists = <<>> /\ calls = <<>>
  /\ changes = 0 /\ mounts = 0 /\ disturbed = FALSE

UserAdminNext ==
  \/ Mount \/ Unmount \/ ReceiveMyPermissions \/ OpenCreate \/ DismissCreate \/ DismissDelete
  \/ MeRevoked
  \/ \E i \in DOMAIN lists : ListUsersRead(i) \/ ReceiveUserList(i) \/ ErrorReceivingUserList(i)
  \/ \E n \in Names :
       \/ AskDelete(n) \/ CreateUser(n) \/ DeleteUser(n) \/ SavePermissions(n)
       \/ \E choice \in SUBSET Collections : SaveCollections(n, choice)
  \/ \E i \in DOMAIN calls :
       \/ CreateDone(i) \/ DeleteDone(i) \/ PermissionsDone(i)
       \/ CollectionsRead(i) \/ CollectionsRemoved(i) \/ CollectionsAdded(i)
       \/ ReceiveCreateUser(i) \/ DeleteAnswered(i) \/ SettingAnswered(i) \/ CallFailed(i)

UserAdminSpec == UserAdminInit /\ [][UserAdminNext]_adminVars

(***************************************************************************)
(* Properties.                                                             *)
(***************************************************************************)

\* One creation is in flight while the form is told that one is, and no
\* longer, whatever modal is opened or closed meanwhile (CreateNewUser.js,
\* usersReducer.js).
CreatingIsInFlight ==
  Cardinality({i \in DOMAIN calls : calls[i].kind = "create"}) = IF page.creating THEN 1 ELSE 0

Settled == lists = <<>> /\ calls = <<>> /\ ~disturbed

\* When all has been answered, and nothing failed or was overtaken, the page
\* lists the users there are, each with the permissions the user has
\* (createUser.ts, setUserPermissions.js, Users.tsx).
UsersListIsCurrent == Settled /\ page.mounted => users = ListAsAdmin

\* Then each user can also see the collections that were chosen last, provided
\* that no two calls for a user overlapped
\* (Collections.setUserCollections, Users.tsx).
CollectionsAreTheChosen == Settled => \A n \in existing : visible[n] = lastChosen[n]

\* The page of users is true to the server, once all is answered (Users.tsx).
UsersPageIsCurrent == CreatingIsInFlight /\ UsersListIsCurrent /\ CollectionsAreTheChosen

\* Refuted.  "permissions: { granted }" (components/Settings/Users.tsx:183): an administrator
\* who no longer is one is answered users without permissions, and the page
\* that still believes otherwise fails on the first.
RowsHavePermissions == Shown => \A u \in users : u.detail

\* Refuted.  "Really delete user" (components/Settings/Users.tsx:85): the
\* answer to a deletion closes the modal that was opened for another.
AskedIsAnswered ==
  [][\A n \in Names : page.deleteModal = Modal(n) /\ page'.deleteModal = NoUser /\ page.mounted
       => calls' = calls \/ \E i \in DOMAIN calls : calls[i].kind = "delete" /\ calls[i].name = n]_adminVars
=============================================================================
