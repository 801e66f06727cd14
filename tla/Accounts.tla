------------------------------ MODULE Accounts ------------------------------
(***************************************************************************)
(* Users (clean_users.rs), the installation of the first one               *)
(* (bootstrap.rs) and the sessions kept in memory (session.rs), behind the *)
(* handlers that log in and out, administer users and require a session.   *)
(* Hashes of imported users are upgraded when their owner logs in.         *)
(***************************************************************************)
EXTENDS Server, Naturals, FiniteSets

CONSTANTS
    UserNames,
    Passwords,
    Tokens      \* bound: the sessions that are opened

User == [password : Passwords, old : BOOLEAN, disabled : BOOLEAN]
Session == [user : UserNames, expired : BOOLEAN]

ASSUME AccountsAssumption == None \notin User \cup Session

VARIABLES
    users,      \* the table; a hash is the password and whether it is an old one
    sessions,   \* by token: a session, or None
    issued,     \* tokens that have been given out
    titled,     \* the site has the title that the installation gave it
    task,       \* the handlers
    founders,   \* history: users that installations have made, while they exist
    contested,  \* history: an installation ran while another user was created
    cut,        \* history: one stopped after it had made its user
    chosen,     \* history: the password last chosen for each name
    overtaken,  \* history: users given a password during a login's upgrade
    lapsed      \* history: logins whose user was changed after the row was read

history == <<founders, contested, cut, chosen, overtaken, lapsed>>
accountsVars == <<users, sessions, issued, titled, task, history>>

Unoccupied == [at |-> "idle"]
Doing(at, n, w) == [at |-> at, name |-> n, password |-> w]
PasswordStages == {"upgrade", "open", "named", "found", "title", "insert"}
Task ==
    {Unoccupied}
    \cup {Doing(at, n, w) : at \in PasswordStages, n \in UserNames, w \in Passwords}
    \cup {[at |-> at, token |-> t, name |-> n] :
             at \in {"known", "acting"}, t \in Tokens, n \in UserNames}

Installing == {"named", "found"}
Creating == Installing \cup {"insert"}
Login == {"upgrade", "open"}

-----------------------------------------------------------------------------
NewUser(w) == [password |-> w, old |-> FALSE, disabled |-> FALSE]
Someone == \E n \in UserNames : users[n] # None

\* Users that are there from an import have old hashes.
AccountsInit ==
    /\ users \in [UserNames -> [password : Passwords, old : {TRUE}, disabled : {FALSE}]
                           \cup {None}]
    /\ sessions = [t \in Tokens |-> None]
    /\ issued = {}
    /\ titled = Someone
    /\ task = [r \in Requests |-> Unoccupied]
    /\ founders = {}
    /\ contested = FALSE
    /\ cut = FALSE
    /\ chosen = [n \in UserNames |-> IF users[n] = None THEN None ELSE users[n].password]
    /\ overtaken = {}
    /\ lapsed = {}

Done(r) == task' = [task EXCEPT ![r] = Unoccupied]

\* Mutant: the installation does not ask whether there are users.
Bootstrap_Always(r) ==
    \E n \in UserNames, w \in Passwords :
        /\ task[r] = Unoccupied
        /\ task' = [task EXCEPT ![r] = Doing("named", n, w)]
        /\ contested' = (contested \/ \E q \in Requests : task[q].at \in Creating)
        /\ UNCHANGED <<users, sessions, issued, titled, founders, cut, chosen, overtaken, lapsed>>

\* POST /bootstrap, refused with 409 once there is a user.
Bootstrap(r) ==
    \E n \in UserNames, w \in Passwords :
        /\ task[r] = Unoccupied
        /\ ~Someone
        /\ task' = [task EXCEPT ![r] = Doing("named", n, w)]
        /\ contested' = (contested \/ \E q \in Requests : task[q].at \in Creating)
        /\ UNCHANGED <<users, sessions, issued, titled, founders, cut, chosen, overtaken, lapsed>>

\* bootstrap_system counts the users of the name.
BootstrapCount(r) ==
    /\ task[r].at = "named"
    /\ task' = [task EXCEPT ![r].at =
                  IF users[task[r].name] = None THEN "found" ELSE "title"]
    /\ UNCHANGED <<users, sessions, issued, titled, history>>

\* INSERT: the name is the primary key.
Store(r, next) ==
    LET n == task[r].name IN
    IF users[n] = None
    THEN /\ users' = [users EXCEPT ![n] = NewUser(task[r].password)]
         /\ chosen' = [chosen EXCEPT ![n] = task[r].password]
         /\ overtaken' = IF \E q \in Requests : task[q].at = "upgrade" /\ task[q].name = n
                         THEN overtaken \cup {n} ELSE overtaken \ {n}
         /\ next
    ELSE Done(r) /\ UNCHANGED <<users, chosen, overtaken, founders>>

BootstrapInsert(r) ==
    /\ task[r].at = "found"
    /\ Store(r, /\ task' = [task EXCEPT ![r].at = "title"]
                /\ founders' = founders \cup {task[r].name})
    /\ UNCHANGED <<sessions, issued, titled, contested, cut, lapsed>>

\* The settings of the site, one statement each, and their index entry.
BootstrapTitle(r) ==
    /\ task[r].at = "title"
    /\ titled' = TRUE
    /\ Done(r)
    /\ UNCHANGED <<users, sessions, issued, history>>

-----------------------------------------------------------------------------
\* Mutant: any password will do.
Authenticate_Any(r) ==
    \E n \in UserNames, w \in Passwords :
        /\ task[r] = Unoccupied
        /\ users[n] # None /\ ~users[n].disabled
        /\ task' = [task EXCEPT ![r] =
                       Doing(IF users[n].old THEN "upgrade" ELSE "open", n, w)]
        /\ UNCHANGED <<users, sessions, issued, titled, history>>

\* Mutant: a user who is disabled may log in.
Authenticate_Disabled(r) ==
    \E n \in UserNames, w \in Passwords :
        /\ task[r] = Unoccupied
        /\ users[n] # None /\ users[n].password = w
        /\ task' = [task EXCEPT ![r] =
                       Doing(IF users[n].old THEN "upgrade" ELSE "open", n, w)]
        /\ UNCHANGED <<users, sessions, issued, titled, history>>

\* authenticate: the row is read, and the password verified against it.
Authenticate(r) ==
    \E n \in UserNames, w \in Passwords :
        /\ task[r] = Unoccupied
        /\ users[n] # None /\ ~users[n].disabled /\ users[n].password = w
        /\ task' = [task EXCEPT ![r] =
                       Doing(IF users[n].old THEN "upgrade" ELSE "open", n, w)]
        /\ UNCHANGED <<users, sessions, issued, titled, history>>

\* needs_rehash: the UPDATE writes the password that was verified, whatever the
\* row has by now, and goes on if there is no row.
Rehash(r) ==
    LET n == task[r].name IN
    /\ task[r].at = "upgrade"
    /\ users' = IF users[n] = None THEN users
                ELSE [users EXCEPT ![n].password = task[r].password, ![n].old = FALSE]
    /\ task' = [task EXCEPT ![r].at = "open"]
    /\ UNCHANGED <<sessions, issued, titled, history>>

\* login gives out a new token.
OpenSession(r) ==
    \E t \in Tokens \ issued :
        /\ task[r].at = "open"
        /\ sessions' = [sessions EXCEPT ![t] = [user |-> task[r].name, expired |-> FALSE]]
        /\ issued' = issued \cup {t}
        /\ Done(r)
        /\ lapsed' = lapsed \ {r}
        /\ UNCHANGED <<users, titled, founders, contested, cut, chosen, overtaken>>

\* Time passes.
Expire ==
    \E t \in Tokens :
        /\ sessions[t] # None
        /\ sessions' = [sessions EXCEPT ![t].expired = TRUE]
        /\ UNCHANGED <<users, issued, titled, task, history>>

\* logout.
Revoke ==
    \E t \in Tokens :
        /\ sessions[t] # None
        /\ sessions' = [sessions EXCEPT ![t] = None]
        /\ UNCHANGED <<users, issued, titled, task, history>>

\* lookup: one that has expired is removed.
Lookup(r) ==
    \E t \in Tokens :
        /\ task[r] = Unoccupied
        /\ sessions[t] # None
        /\ IF sessions[t].expired
           THEN sessions' = [sessions EXCEPT ![t] = None] /\ UNCHANGED task
           ELSE /\ task' = [task EXCEPT ![r] = [at |-> "known", token |-> t,
                                                name |-> sessions[t].user]]
                /\ UNCHANGED sessions
        /\ UNCHANGED <<users, issued, titled, history>>

\* require_session gets the user, and answers 401 if there is none.
RequireUser(r) ==
    /\ task[r].at = "known"
    /\ task' = [task EXCEPT ![r] = IF users[@.name] = None THEN Unoccupied
                                   ELSE [@ EXCEPT !.at = "acting"]]
    /\ UNCHANGED <<users, sessions, issued, titled, history>>

-----------------------------------------------------------------------------
\* Logins that have verified a password of the user.
LoggingIn(n) == {q \in Requests : task[q].at \in Login /\ task[q].name = n}

\* What a user who is logged in does to users. set_password:
SetPassword(r) ==
    \E n \in UserNames, w \in Passwords :
        /\ task[r].at = "acting" /\ users[n] # None
        /\ users' = [users EXCEPT ![n].password = w, ![n].old = FALSE]
        /\ chosen' = [chosen EXCEPT ![n] = w]
        /\ overtaken' = IF \E q \in Requests : task[q].at = "upgrade" /\ task[q].name = n
                        THEN overtaken \cup {n} ELSE overtaken \ {n}
        /\ lapsed' = lapsed \cup LoggingIn(n)
        /\ Done(r)
        /\ UNCHANGED <<sessions, issued, titled, founders, contested, cut>>

SetDisabled(r) ==
    \E n \in UserNames, disabled \in BOOLEAN :
        /\ task[r].at = "acting" /\ users[n] # None
        /\ users' = [users EXCEPT ![n].disabled = disabled]
        /\ lapsed' = IF disabled THEN lapsed \cup LoggingIn(n) ELSE lapsed
        /\ Done(r)
        /\ UNCHANGED <<sessions, issued, titled, founders, contested, cut, chosen, overtaken>>

\* Sessions of the user stay where they are.
DeleteUser(r) ==
    \E n \in UserNames :
        /\ task[r].at = "acting" /\ users[n] # None
        /\ users' = [users EXCEPT ![n] = None]
        /\ founders' = founders \ {n}
        /\ lapsed' = lapsed \cup LoggingIn(n)
        /\ Done(r)
        /\ UNCHANGED <<sessions, issued, titled, contested, cut, chosen, overtaken>>

\* create, if registration is enabled: the name is not taken.
CreateUserFind(r) ==
    \E n \in UserNames, w \in Passwords :
        /\ task[r].at = "acting" /\ users[n] = None
        /\ task' = [task EXCEPT ![r] = Doing("insert", n, w)]
        /\ UNCHANGED <<users, sessions, issued, titled, history>>

CreateUserInsert(r) ==
    /\ task[r].at = "insert"
    /\ Store(r, Done(r) /\ UNCHANGED founders)
    /\ UNCHANGED <<sessions, issued, titled, contested, cut, lapsed>>

AbandonTask(r) ==
    /\ task[r] # Unoccupied
    /\ Done(r)
    /\ cut' = (cut \/ task[r].at = "title")
    /\ lapsed' = lapsed \ {r}
    /\ UNCHANGED <<users, sessions, issued, titled>>
    /\ UNCHANGED <<founders, contested, chosen, overtaken>>

\* Sessions are in memory.
AccountsRestart ==
    /\ sessions' = [t \in Tokens |-> None]
    /\ task' = [r \in Requests |-> Unoccupied]
    /\ cut' = (cut \/ \E r \in Requests : task[r].at = "title")
    /\ lapsed' = {}
    /\ UNCHANGED <<users, issued, titled, founders, contested, chosen, overtaken>>

AccountsWork(r) ==
    \/ Bootstrap(r) \/ BootstrapCount(r) \/ BootstrapInsert(r) \/ BootstrapTitle(r)
    \/ Authenticate(r) \/ Rehash(r) \/ OpenSession(r)
    \/ Lookup(r) \/ RequireUser(r)
    \/ SetPassword(r) \/ SetDisabled(r) \/ DeleteUser(r)
    \/ CreateUserFind(r) \/ CreateUserInsert(r)

AccountsNext ==
    \/ \E r \in Requests : AccountsWork(r) \/ AbandonTask(r)
    \/ Expire \/ Revoke \/ AccountsRestart

AccountsSpec == AccountsInit /\ [][AccountsNext]_accountsVars

-----------------------------------------------------------------------------
(* Properties.                                                             *)

AccountsTypeOK ==
    /\ users \in [UserNames -> User \cup {None}]
    /\ sessions \in [Tokens -> Session \cup {None}]
    /\ issued \subseteq Tokens
    /\ titled \in BOOLEAN
    /\ task \in [Requests -> Task]
    /\ founders \subseteq UserNames
    /\ contested \in BOOLEAN
    /\ cut \in BOOLEAN
    /\ chosen \in [UserNames -> Passwords \cup {None}]
    /\ overtaken \subseteq UserNames
    /\ lapsed \subseteq Requests
    /\ \A t \in Tokens : sessions[t] # None => t \in issued

\* The installation makes one administrator (is_bootstrapped, then INSERT), unless
\* two of them ran at the same time with different names; and the site it makes has
\* its title (upsert_setting), unless it stopped after the user was stored: it is
\* refused ever after.
InstalledOnceAndWhole ==
    /\ Cardinality(founders) > 1 => contested
    /\ founders # {} /\ ~cut => titled \/ \E r \in Requests : task[r].at = "title"

\* A user has the password that was last chosen for the account, although logins
\* write to it too (authenticate). A login that was about to upgrade the hash when
\* the password was changed may put the old one back.
ChosenPasswordStays ==
    \A n \in UserNames \ overtaken : users[n] # None => users[n].password = chosen[n]

\* A session is opened (login) only for a user who is there and not disabled and has
\* the password that was verified, although the row was read some steps before; unless
\* an administrator changed the user in between, or the password was put back by
\* another login (overtaken).
SessionsAreEarned ==
    [][\A t \in Tokens, r \in Requests \ lapsed :
          sessions[t] = None /\ sessions'[t] # None /\ task'[r] # task[r] =>
              LET n == sessions'[t].user IN
              /\ users[n] # None /\ ~users[n].disabled
              /\ n \notin overtaken => users[n].password = task[r].password]_accountsVars
=============================================================================
