---------------------------- MODULE ServerProofs ----------------------------
(***************************************************************************)
(* Proofs about what requests go through besides the site's content:       *)
(* Accounts, RateLimiter, Attachments, Plugins and GuestMemory. Each has a *)
(* section of its own, with the inductive invariant that its properties    *)
(* follow from: mostly what the handlers that are under way have in hand.  *)
(***************************************************************************)
EXTENDS Accounts, RateLimiter, Attachments, Plugins, GuestMemory, FiniteSetTheorems, TLAPS

-----------------------------------------------------------------------------
(* Accounts. Two installations that overlap are on record (FoundersInv), so
   that without overlaps there is at most one; the founder has the title, or
   the handler that is going to store it is still running (TitleInv); and what
   a login is about to store is the password that was chosen, unless it was
   overtaken (PasswordInv); and the user of a login that is not out of date is
   as it was when its row was read (LoginInv). *)

\* Founders are users, and of two installations that overlap, or one that overlaps
\* a founder, the history says so.
FoundersInv ==
    /\ \A n \in founders : users[n] # None
    /\ \A r, q \in Requests :
         task[r].at \in Installing /\ task[q].at \in Installing /\ r # q => contested
    /\ \A r \in Requests : task[r].at \in Installing /\ founders # {} => contested
    /\ contested \/ founders = {} \/ \E n \in UserNames : founders = {n}

\* Founders have their title, or the one who brings it is still at work.
TitleInv ==
    founders # {} /\ ~cut => titled \/ \E r \in Requests : task[r].at = "title"

\* What a login is about to write is what was chosen.
PasswordInv ==
    /\ ChosenPasswordStays
    /\ \A r \in Requests :
         task[r].at = "upgrade" /\ task[r].name \notin overtaken
             => task[r].password = chosen[task[r].name]

\* Of a login that is not out of date, the user is there, may log in and has the
\* password that was verified.
LoginInv ==
    \A r \in Requests \ lapsed : task[r].at \in Login =>
        LET n == task[r].name IN
        /\ users[n] # None /\ ~users[n].disabled
        /\ n \notin overtaken => users[n].password = task[r].password

AccountsInv == AccountsTypeOK /\ FoundersInv /\ TitleInv /\ PasswordInv /\ LoginInv

\* What is known of a handler from its stage.
LEMMA TaskFields ==
    ASSUME NEW r \in Requests, task[r] \in Task
    PROVE  /\ task[r].at \in PasswordStages =>
                task[r].name \in UserNames /\ task[r].password \in Passwords
           /\ task[r].at \in {"known", "acting"} =>
                task[r].name \in UserNames /\ task[r].token \in Tokens
           /\ task[r].at \in PasswordStages => task[r] \in {Doing(task[r].at, n, w) : n \in UserNames, w \in Passwords}
  BY DEF Task, PasswordStages, Doing, Unoccupied

LEMMA AccountsStart == AccountsInit => AccountsInv
  <1> SUFFICES ASSUME AccountsInit PROVE AccountsInv
    OBVIOUS
  <1>1. \A r \in Requests : task[r] = Unoccupied
    BY DEF AccountsInit
  <1>2. Unoccupied \in Task /\ Unoccupied.at = "idle"
    BY DEF Unoccupied, Task
  <1>3. users \in [UserNames -> User \cup {None}]
    BY DEF AccountsInit, User
  <1>4. \A n \in UserNames : users[n] # None => users[n].password \in Passwords
    BY <1>3 DEF User
  <1>5. AccountsTypeOK
    BY <1>2, <1>3, <1>4 DEF AccountsInit, AccountsTypeOK, Someone
  <1>6. ChosenPasswordStays
    BY DEF AccountsInit, ChosenPasswordStays
  <1> QED
    BY <1>1, <1>2, <1>5, <1>6
    DEF AccountsInit, AccountsInv, FoundersInv, TitleInv, PasswordInv, LoginInv, Login, Installing

-----------------------------------------------------------------------------
(* One lemma for each part of the invariant, with a step per action.       *)

\* Steps after which a handler is where it was, or at a stage like the others.
LEMMA AccountsTypesStep == AccountsTypeOK /\ [AccountsNext]_accountsVars => AccountsTypeOK'
  <1> SUFFICES ASSUME AccountsTypeOK, [AccountsNext]_accountsVars PROVE AccountsTypeOK'
    OBVIOUS
  <1> USE DEF AccountsTypeOK, history, Done
  <1>0. Unoccupied \in Task
    BY DEF Task
  <1>a. ASSUME NEW at \in PasswordStages, NEW n \in UserNames, NEW w \in Passwords
        PROVE  Doing(at, n, w) \in Task
    BY DEF Task
  <1>b. ASSUME NEW r \in Requests, task[r].at \in PasswordStages, NEW at \in PasswordStages
        PROVE  /\ [task[r] EXCEPT !.at = at] \in Task
               /\ task[r].name \in UserNames /\ task[r].password \in Passwords
    <2>1. PICK n \in UserNames, w \in Passwords : task[r] = Doing(task[r].at, n, w)
      BY <1>b, TaskFields
    <2>2. [task[r] EXCEPT !.at = at] = Doing(at, n, w)
      BY <2>1 DEF Doing
    <2> QED
      BY <1>a, <2>1, <2>2 DEF Doing
  <1>c. \A n \in UserNames, w \in Passwords : NewUser(w) \in User
    BY DEF NewUser, User
  <1>d. \A n : LoggingIn(n) \subseteq Requests
    BY DEF LoggingIn
  <1>1. ASSUME NEW r \in Requests, Bootstrap(r) PROVE AccountsTypeOK'
    BY <1>1, <1>a DEF Bootstrap, PasswordStages
  <1>2. ASSUME NEW r \in Requests, BootstrapCount(r) PROVE AccountsTypeOK'
    BY <1>2, <1>b DEF BootstrapCount, PasswordStages
  <1>3. ASSUME NEW r \in Requests, BootstrapInsert(r) PROVE AccountsTypeOK'
    <2>1. /\ task[r].name \in UserNames /\ task[r].password \in Passwords
          /\ [task[r] EXCEPT !.at = "title"] \in Task
          /\ NewUser(task[r].password) \in User
      BY <1>3, <1>b, <1>c DEF BootstrapInsert, PasswordStages
    <2>2. /\ task' \in [Requests -> Task] /\ users' \in [UserNames -> User \cup {None}]
          /\ chosen' \in [UserNames -> Passwords \cup {None}]
          /\ overtaken' \subseteq UserNames /\ founders' \subseteq UserNames
      BY <1>3, <1>0, <2>1 DEF BootstrapInsert, Store
    <2> QED
      BY <1>3, <2>2 DEF BootstrapInsert
  <1>4. ASSUME NEW r \in Requests, BootstrapTitle(r) PROVE AccountsTypeOK'
    BY <1>4, <1>0 DEF BootstrapTitle
  <1>5. ASSUME NEW r \in Requests, Authenticate(r) PROVE AccountsTypeOK'
    BY <1>5, <1>a DEF Authenticate, PasswordStages
  <1>6. ASSUME NEW r \in Requests, Rehash(r) PROVE AccountsTypeOK'
    <2>1. task[r].name \in UserNames /\ task[r].password \in Passwords
          /\ [task[r] EXCEPT !.at = "open"] \in Task
      BY <1>6, <1>b DEF Rehash, PasswordStages
    <2>2. users' \in [UserNames -> User \cup {None}]
      BY <1>6, <2>1 DEF Rehash, User
    <2> QED
      BY <1>6, <2>1, <2>2 DEF Rehash
  <1>7. ASSUME NEW r \in Requests, OpenSession(r) PROVE AccountsTypeOK'
    <2>1. task[r].name \in UserNames
      BY <1>7, <1>b DEF OpenSession, PasswordStages
    <2> QED
      BY <1>7, <1>0, <2>1 DEF OpenSession, Session
  <1>8. CASE Expire
    BY ZenonT(30), <1>8 DEF Expire, Session
  <1>9. CASE Revoke
    BY <1>9 DEF Revoke
  <1>10. ASSUME NEW r \in Requests, Lookup(r) PROVE AccountsTypeOK'
    BY <1>10 DEF Lookup, Session, Task
  <1>11. ASSUME NEW r \in Requests, RequireUser(r) PROVE AccountsTypeOK'
    <2>1. /\ task[r].at = "known" /\ task[r] \in Task
          /\ task[r].name \in UserNames /\ task[r].token \in Tokens
      BY <1>11, TaskFields DEF RequireUser
    <2>2. task[r] = [at |-> "known", token |-> task[r].token, name |-> task[r].name]
      BY <2>1 DEF Task, Unoccupied, Doing, PasswordStages
    <2>3. [task[r] EXCEPT !.at = "acting"] =
            [at |-> "acting", token |-> task[r].token, name |-> task[r].name]
      BY <2>2
    <2>4. [task[r] EXCEPT !.at = "acting"] \in Task
      BY <2>1, <2>3 DEF Task
    <2> QED
      BY <1>11, <1>0, <2>4 DEF RequireUser
  <1>12. ASSUME NEW r \in Requests, SetPassword(r) PROVE AccountsTypeOK'
    <2>1. PICK n \in UserNames, w \in Passwords :
            /\ users[n] # None
            /\ users' = [users EXCEPT ![n].password = w, ![n].old = FALSE]
            /\ chosen' = [chosen EXCEPT ![n] = w]
            /\ overtaken' \subseteq overtaken \cup {n}
      BY <1>12 DEF SetPassword
    <2>2. users' \in [UserNames -> User \cup {None}]
      BY ZenonT(30), <2>1 DEF User
    <2> QED
      BY <1>12, <1>0, <1>d, <2>1, <2>2 DEF SetPassword
  <1>13. ASSUME NEW r \in Requests, SetDisabled(r) PROVE AccountsTypeOK'
    <2>1. users' \in [UserNames -> User \cup {None}]
      BY <1>13 DEF SetDisabled, User
    <2>2. lapsed' \subseteq Requests
      BY <1>13, <1>d DEF SetDisabled
    <2> QED
      BY <1>13, <1>0, <2>1, <2>2 DEF SetDisabled
  <1>14. ASSUME NEW r \in Requests, DeleteUser(r) PROVE AccountsTypeOK'
    BY <1>14, <1>0, <1>d DEF DeleteUser
  <1>15. ASSUME NEW r \in Requests, CreateUserFind(r) PROVE AccountsTypeOK'
    BY <1>15, <1>a DEF CreateUserFind, PasswordStages
  <1>16. ASSUME NEW r \in Requests, CreateUserInsert(r) PROVE AccountsTypeOK'
    <2>1. /\ task[r].name \in UserNames /\ task[r].password \in Passwords
          /\ NewUser(task[r].password) \in User
      BY <1>16, <1>b, <1>c DEF CreateUserInsert, PasswordStages
    <2>2. /\ task' \in [Requests -> Task] /\ users' \in [UserNames -> User \cup {None}]
          /\ chosen' \in [UserNames -> Passwords \cup {None}]
          /\ overtaken' \subseteq UserNames /\ founders' \subseteq UserNames
      BY <1>16, <1>0, <2>1 DEF CreateUserInsert, Store
    <2> QED
      BY <1>16, <2>2 DEF CreateUserInsert
  <1>17. ASSUME NEW r \in Requests, AbandonTask(r) PROVE AccountsTypeOK'
    BY <1>17, <1>0 DEF AbandonTask
  <1>18. CASE AccountsRestart
    BY <1>18, <1>0 DEF AccountsRestart
  <1>19. CASE UNCHANGED accountsVars
    BY <1>19 DEF accountsVars
  <1> QED
    BY <1>1, <1>2, <1>3, <1>4, <1>5, <1>6, <1>7, <1>8, <1>9, <1>10, <1>11, <1>12,
       <1>13, <1>14, <1>15, <1>16, <1>17, <1>18, <1>19 DEF AccountsNext, AccountsWork

\* A handler that is given another task.
LEMMA TaskSet ==
    ASSUME AccountsTypeOK, NEW r \in Requests, NEW t, task' = [task EXCEPT ![r] = t]
    PROVE  \A q \in Requests : task'[q] = IF q = r THEN t ELSE task[q]
  BY DEF AccountsTypeOK

\* What a step does to users, founders and handlers, as far as founders go: none of
\* it, or a handler changes that does not install and will not.
LEMMA QuietStep ==
    ASSUME AccountsTypeOK, FoundersInv, NEW r \in Requests, NEW t, t.at \notin Installing,
           task' = [task EXCEPT ![r] = t], founders' = founders, contested' = contested,
           \A n \in founders : users'[n] # None
    PROVE  FoundersInv'
  <1>1. \A q \in Requests : task'[q].at \in Installing => task[q].at \in Installing
    BY TaskSet
  <1> QED
    BY <1>1 DEF FoundersInv

LEMMA FoundersStep ==
    AccountsTypeOK /\ FoundersInv /\ [AccountsNext]_accountsVars => FoundersInv'
  <1> SUFFICES ASSUME AccountsTypeOK, FoundersInv, [AccountsNext]_accountsVars
               PROVE  FoundersInv'
    OBVIOUS
  <1> USE DEF history, Done
  <1>0. Unoccupied.at \notin Installing
    BY DEF Unoccupied, Installing
  <1>a. founders \subseteq UserNames /\ users \in [UserNames -> User \cup {None}]
    BY DEF AccountsTypeOK
  <1>b. ASSUME NEW r \in Requests, NEW at, task[r].at \in PasswordStages
        PROVE  [task[r] EXCEPT !.at = at].at = at
               /\ [task[r] EXCEPT !.at = at].name = task[r].name /\ task[r].name \in UserNames
    <2>1. PICK n \in UserNames, w \in Passwords : task[r] = Doing(task[r].at, n, w)
      BY <1>b, TaskFields DEF AccountsTypeOK
    <2>2. [task[r] EXCEPT !.at = at] = Doing(at, n, w)
      BY <2>1 DEF Doing
    <2> QED
      BY <2>1, <2>2 DEF Doing
  <1>1. ASSUME NEW r \in Requests, Bootstrap(r) PROVE FoundersInv'
    <2>1. PICK n \in UserNames, w \in Passwords :
            /\ task' = [task EXCEPT ![r] = Doing("named", n, w)]
            /\ contested' = (contested \/ \E q \in Requests : task[q].at \in Creating)
            /\ ~Someone /\ UNCHANGED <<users, founders>>
      BY <1>1 DEF Bootstrap
    <2>2. founders = {}
      BY <1>a, <2>1 DEF FoundersInv, Someone
    <2>3. \A q \in Requests : task'[q] = IF q = r THEN Doing("named", n, w) ELSE task[q]
      BY <2>1, TaskSet
    <2>4. contested' = FALSE => \A q \in Requests : task[q].at \notin Installing
      BY <2>1 DEF Creating
    <2>5. contested' \in BOOLEAN
      BY <2>1 DEF AccountsTypeOK
    <2> QED
      BY <2>1, <2>2, <2>3, <2>4, <2>5 DEF FoundersInv
  <1>2. ASSUME NEW r \in Requests, BootstrapCount(r) PROVE FoundersInv'
    <2>1. \A q \in Requests : task'[q].at \in Installing => task[q].at \in Installing
      <3>1. task[r].at \in Installing
        BY <1>2 DEF BootstrapCount, Installing
      <3>2. \A q \in Requests \ {r} : task'[q] = task[q]
        BY <1>2 DEF BootstrapCount, AccountsTypeOK
      <3> QED
        BY <3>1, <3>2
    <2> QED
      BY <1>2, <2>1 DEF FoundersInv, BootstrapCount
  <1>3. ASSUME NEW r \in Requests, BootstrapInsert(r) PROVE FoundersInv'
    <2>1. task[r].at = "found" /\ task[r].at \in Installing /\ contested' = contested
          /\ task[r].name \in UserNames
      BY <1>3, <1>b DEF BootstrapInsert, Installing, PasswordStages
    <2>2. CASE users[task[r].name] = None
      <3>1. /\ task' = [task EXCEPT ![r] = [task[r] EXCEPT !.at = "title"]]
            /\ users' = [users EXCEPT ![task[r].name] = NewUser(task[r].password)]
            /\ founders' = founders \cup {task[r].name}
        BY <1>3, <2>2 DEF BootstrapInsert, Store
      <3>2. [task[r] EXCEPT !.at = "title"].at \notin Installing
        BY <1>b, <2>1 DEF Installing, PasswordStages
      <3>3. \A q \in Requests : task'[q].at \in Installing => task[q].at \in Installing /\ q # r
        <4>1. \A q \in Requests :
                task'[q] = IF q = r THEN [task[r] EXCEPT !.at = "title"] ELSE task[q]
          BY <3>1 DEF AccountsTypeOK
        <4> QED
          BY <3>2, <4>1
      <3>4. NewUser(task[r].password) # None
        <4>1. NewUser(task[r].password) \in User
          BY <2>1 DEF NewUser, User, AccountsTypeOK, Task, Doing, Unoccupied
        <4> QED
          BY <4>1, AccountsAssumption
      <3>5. \A n \in founders' : users'[n] # None
        BY <1>a, <2>1, <3>1, <3>4 DEF FoundersInv
      <3>6. contested \/ founders = {}
        BY <2>1 DEF FoundersInv
      <3> QED
        BY <2>1, <3>1, <3>3, <3>5, <3>6 DEF FoundersInv
    <2>3. CASE users[task[r].name] # None
      <3>1. task' = [task EXCEPT ![r] = Unoccupied] /\ UNCHANGED <<users, founders>>
        BY <1>3, <2>3 DEF BootstrapInsert, Store
      <3> QED
        BY <1>0, <2>1, <3>1, QuietStep DEF FoundersInv
    <2> QED
      BY <2>2, <2>3
  <1>4. ASSUME NEW r \in Requests, BootstrapTitle(r) PROVE FoundersInv'
    BY <1>4, <1>0, QuietStep DEF BootstrapTitle, FoundersInv
  <1>5. ASSUME NEW r \in Requests, Authenticate(r) PROVE FoundersInv'
    BY <1>5, QuietStep DEF Authenticate, FoundersInv, Doing, Installing
  <1>6. ASSUME NEW r \in Requests, Rehash(r) PROVE FoundersInv'
    <2>1. [task[r] EXCEPT !.at = "open"].at \notin Installing
      BY <1>6, <1>b DEF Rehash, PasswordStages, Installing
    <2>2. \A n \in UserNames : users[n] # None => users'[n] # None
      <3>1. \A n \in UserNames : users[n] # None => users[n] \in User
        BY <1>a
      <3>2. task[r].name \in UserNames /\ task[r].password \in Passwords
        BY <1>6 DEF Rehash, AccountsTypeOK, Task, Doing, Unoccupied
      <3>3. users' \in [UserNames -> User \cup {None}]
            /\ \A n \in UserNames : users[n] # None => users'[n] \in User
        BY ZenonT(30), <1>6, <1>a, <3>1, <3>2 DEF Rehash, User
      <3> QED
        BY <3>3, AccountsAssumption
    <2> QED
      BY <1>6, <1>a, <2>1, <2>2, QuietStep DEF Rehash, FoundersInv
  <1>7. ASSUME NEW r \in Requests, OpenSession(r) PROVE FoundersInv'
    BY <1>7, <1>0, QuietStep DEF OpenSession, FoundersInv
  <1>8. CASE Expire \/ Revoke
    BY <1>8 DEF Expire, Revoke, FoundersInv
  <1>9. ASSUME NEW r \in Requests, Lookup(r) PROVE FoundersInv'
    BY <1>9, QuietStep DEF Lookup, FoundersInv, Installing
  <1>10. ASSUME NEW r \in Requests, RequireUser(r) PROVE FoundersInv'
    <2>1. [task[r] EXCEPT !.at = "acting"].at \notin Installing
      BY <1>10 DEF RequireUser, AccountsTypeOK, Task, Doing, Unoccupied, Installing
    <2> QED
      BY <1>10, <1>0, <2>1, QuietStep DEF RequireUser, FoundersInv
  <1>11. ASSUME NEW r \in Requests, SetPassword(r) \/ SetDisabled(r) PROVE FoundersInv'
    <2>1. \A n \in UserNames : users[n] # None => users'[n] # None
      <3>1. users' \in [UserNames -> User \cup {None}]
            /\ \A n \in UserNames : users[n] # None => users'[n] \in User
        <4>1. CASE SetPassword(r)
          <5>1. PICK n \in UserNames, w \in Passwords :
                  users[n] # None /\ users' = [users EXCEPT ![n].password = w, ![n].old = FALSE]
            BY <4>1 DEF SetPassword
          <5> QED
            BY <1>a, <5>1 DEF User
        <4>2. CASE SetDisabled(r)
          <5>1. PICK n \in UserNames, d \in BOOLEAN :
                  users[n] # None /\ users' = [users EXCEPT ![n].disabled = d]
            BY <4>2 DEF SetDisabled
          <5> QED
            BY <1>a, <5>1 DEF User
        <4> QED
          BY <1>11, <4>1, <4>2
      <3> QED
        BY <3>1, AccountsAssumption
    <2> QED
      BY <1>0, <1>11, <1>a, <2>1, QuietStep DEF SetPassword, SetDisabled, FoundersInv
  <1>12. ASSUME NEW r \in Requests, DeleteUser(r) PROVE FoundersInv'
    <2>1. PICK n \in UserNames : /\ users' = [users EXCEPT ![n] = None]
                                 /\ founders' = founders \ {n}
                                 /\ task' = [task EXCEPT ![r] = Unoccupied]
                                 /\ contested' = contested
      BY <1>12 DEF DeleteUser
    <2>2. \A q \in Requests : task'[q].at \in Installing => task[q].at \in Installing
      BY <1>0, <2>1, TaskSet
    <2>3. \A m \in founders' : users'[m] # None
      BY <1>a, <2>1 DEF FoundersInv
    <2>4. contested \/ founders' = {} \/ \E m \in UserNames : founders' = {m}
      BY <2>1 DEF FoundersInv
    <2> QED
      BY <2>1, <2>2, <2>3, <2>4 DEF FoundersInv
  <1>13. ASSUME NEW r \in Requests, CreateUserFind(r) PROVE FoundersInv'
    BY <1>13, QuietStep DEF CreateUserFind, FoundersInv, Doing, Installing
  <1>14. ASSUME NEW r \in Requests, CreateUserInsert(r) PROVE FoundersInv'
    <2>1. /\ task' = [task EXCEPT ![r] = Unoccupied] /\ UNCHANGED <<founders, contested>>
          /\ \/ users' = users
             \/ users' = [users EXCEPT ![task[r].name] = NewUser(task[r].password)]
      BY <1>14 DEF CreateUserInsert, Store
    <2>2. NewUser(task[r].password) # None
      <3>1. NewUser(task[r].password) \in User
        BY <1>14 DEF CreateUserInsert, NewUser, User, AccountsTypeOK, Task, Doing, Unoccupied
      <3> QED
        BY <3>1, AccountsAssumption
    <2> QED
      BY <1>0, <1>a, <2>1, <2>2, QuietStep DEF FoundersInv
  <1>15. ASSUME NEW r \in Requests, AbandonTask(r) PROVE FoundersInv'
    BY <1>15, <1>0, QuietStep DEF AbandonTask, FoundersInv
  <1>16. CASE AccountsRestart
    BY <1>16, <1>0 DEF AccountsRestart, FoundersInv
  <1>17. CASE UNCHANGED accountsVars
    BY <1>17 DEF accountsVars, FoundersInv
  <1> QED
    BY <1>1, <1>2, <1>3, <1>4, <1>5, <1>6, <1>7, <1>8, <1>9, <1>10, <1>11, <1>12,
       <1>13, <1>14, <1>15, <1>16, <1>17 DEF AccountsNext, AccountsWork

\* Whoever is at work on the title stays at it, unless it is this handler.
LEMMA TitleStays ==
    ASSUME AccountsTypeOK, TitleInv, NEW r \in Requests, NEW t,
           task' = [task EXCEPT ![r] = t], founders' \subseteq founders,
           titled' = titled, cut' = cut,
           task[r].at = "title" => t.at = "title"
    PROVE  TitleInv'
  <1>1. \A q \in Requests : task[q].at = "title" => task'[q].at = "title"
    BY TaskSet
  <1> QED
    BY <1>1 DEF TitleInv

LEMMA TitleStep == AccountsTypeOK /\ TitleInv /\ [AccountsNext]_accountsVars => TitleInv'
  <1> SUFFICES ASSUME AccountsTypeOK, TitleInv, [AccountsNext]_accountsVars PROVE TitleInv'
    OBVIOUS
  <1> USE DEF history, Done
  <1>1. ASSUME NEW r \in Requests, Bootstrap(r) \/ Authenticate(r) PROVE TitleInv'
    BY <1>1, TitleStays DEF Bootstrap, Authenticate, Unoccupied
  <1>2. ASSUME NEW r \in Requests, BootstrapCount(r) PROVE TitleInv'
    BY <1>2, TitleStays DEF BootstrapCount
  <1>3. ASSUME NEW r \in Requests, BootstrapInsert(r) PROVE TitleInv'
    <2>1. CASE users[task[r].name] = None
      <3>1. task' = [task EXCEPT ![r].at = "title"]
        BY <1>3, <2>1 DEF BootstrapInsert, Store
      <3>2. task[r] \in Task /\ task[r].at = "found"
        BY <1>3 DEF BootstrapInsert, AccountsTypeOK
      <3>3. PICK n \in UserNames, w \in Passwords : task[r] = Doing("found", n, w)
        BY <3>2, TaskFields DEF PasswordStages
      <3>4. task'[r].at = "title"
        BY <3>1, <3>3 DEF AccountsTypeOK, Doing
      <3> QED
        BY <3>4 DEF TitleInv
    <2>2. CASE users[task[r].name] # None
      BY <1>3, <2>2, TitleStays DEF BootstrapInsert, Store
    <2> QED
      BY <2>1, <2>2
  <1>4. ASSUME NEW r \in Requests, BootstrapTitle(r) PROVE TitleInv'
    BY <1>4 DEF BootstrapTitle, TitleInv
  <1>5. ASSUME NEW r \in Requests, Rehash(r) \/ OpenSession(r) PROVE TitleInv'
    BY <1>5, TitleStays DEF Rehash, OpenSession
  <1>6. CASE Expire \/ Revoke
    BY <1>6 DEF Expire, Revoke, TitleInv
  <1>7. ASSUME NEW r \in Requests, Lookup(r) PROVE TitleInv'
    BY <1>7, TitleStays DEF Lookup, Unoccupied, TitleInv
  <1>8. ASSUME NEW r \in Requests, RequireUser(r) PROVE TitleInv'
    BY <1>8, TitleStays DEF RequireUser
  <1>9. ASSUME NEW r \in Requests, SetPassword(r) \/ SetDisabled(r) \/ DeleteUser(r)
                                   \/ CreateUserFind(r)
        PROVE  TitleInv'
    BY <1>9, TitleStays DEF SetPassword, SetDisabled, DeleteUser, CreateUserFind
  <1>10. ASSUME NEW r \in Requests, CreateUserInsert(r) PROVE TitleInv'
    BY <1>10, TitleStays DEF CreateUserInsert, Store
  <1>11. ASSUME NEW r \in Requests, AbandonTask(r) PROVE TitleInv'
    <2>1. CASE task[r].at = "title"
      BY <1>11, <2>1 DEF AbandonTask, TitleInv
    <2>2. CASE task[r].at # "title"
      <3>1. cut' = cut
        BY <1>11, <2>2 DEF AbandonTask, AccountsTypeOK
      <3> QED
        BY <1>11, <2>2, <3>1, TitleStays DEF AbandonTask
    <2> QED
      BY <2>1, <2>2
  <1>12. CASE AccountsRestart
    BY <1>12 DEF AccountsRestart, TitleInv
  <1>13. CASE UNCHANGED accountsVars
    BY <1>13 DEF accountsVars, TitleInv
  <1> QED
    BY <1>1, <1>2, <1>3, <1>4, <1>5, <1>6, <1>7, <1>8, <1>9, <1>10, <1>11, <1>12, <1>13
    DEF AccountsNext, AccountsWork

\* No login begins its upgrade, and no password is stored or chosen.
LEMMA PasswordsStay ==
    ASSUME AccountsTypeOK, PasswordInv,
           \A q \in Requests : task'[q].at = "upgrade" => task'[q] = task[q],
           \A n \in UserNames : users'[n] # None =>
               users[n] # None /\ users'[n].password = users[n].password,
           chosen' = chosen, overtaken' = overtaken
    PROVE  PasswordInv'
  BY DEF PasswordInv, ChosenPasswordStays

\* A password is chosen for a name: a login that is about to upgrade it is noted.
LEMMA PasswordChosen ==
    ASSUME AccountsTypeOK, PasswordInv, NEW r \in Requests, NEW n \in UserNames, NEW w,
           task' = [task EXCEPT ![r] = Unoccupied] \/ task' = [task EXCEPT ![r].at = "title"],
           \A m \in UserNames \ {n} : users'[m] = users[m],
           users'[n].password = w,
           chosen' = [chosen EXCEPT ![n] = w],
           overtaken' = IF \E q \in Requests : task[q].at = "upgrade" /\ task[q].name = n
                        THEN overtaken \cup {n} ELSE overtaken \ {n},
           task[r].at \in PasswordStages \cup {"acting"}
    PROVE  PasswordInv'
  <1>1. ASSUME NEW q \in Requests, task'[q].at = "upgrade"
        PROVE  task'[q] = task[q] /\ task[q].name \in UserNames
    <2>1. q # r => task'[q] = task[q]
      BY DEF AccountsTypeOK
    <2>2. task'[r].at # "upgrade"
      <3>1. CASE task' = [task EXCEPT ![r] = Unoccupied]
        BY <3>1 DEF AccountsTypeOK, Unoccupied
      <3>2. CASE task' = [task EXCEPT ![r].at = "title"]
        BY <3>2 DEF AccountsTypeOK, Task, Doing, Unoccupied
      <3> QED
        BY <3>1, <3>2
    <2>3. task[q] = task'[q]
      BY <1>1, <2>1, <2>2
    <2>4. task[q].name \in UserNames
      BY <1>1, <2>3, TaskFields DEF AccountsTypeOK, PasswordStages
    <2> QED
      BY <2>3, <2>4
  <1>2. chosen'[n] = w /\ \A m \in UserNames \ {n} : chosen'[m] = chosen[m]
    BY DEF AccountsTypeOK
  <1>3. ChosenPasswordStays'
    BY <1>2 DEF PasswordInv, ChosenPasswordStays
  <1>4. ASSUME NEW q \in Requests, task'[q].at = "upgrade", task'[q].name \notin overtaken'
        PROVE  task'[q].password = chosen'[task'[q].name]
    <2>1. task'[q] = task[q] /\ task[q].name \in UserNames
      BY <1>1, <1>4
    <2>2. task[q].name # n /\ task[q].name \notin overtaken
      BY <1>4, <2>1
    <2> QED
      BY <1>2, <1>4, <2>1, <2>2 DEF PasswordInv
  <1> QED
    BY <1>3, <1>4 DEF PasswordInv

LEMMA PasswordStep ==
    AccountsTypeOK /\ PasswordInv /\ [AccountsNext]_accountsVars => PasswordInv'
  <1> SUFFICES ASSUME AccountsTypeOK, PasswordInv, [AccountsNext]_accountsVars
               PROVE  PasswordInv'
    OBVIOUS
  <1> USE DEF history, Done
  <1>0. Unoccupied.at # "upgrade"
    BY DEF Unoccupied
  <1>a. ASSUME NEW r \in Requests, NEW t, t.at # "upgrade", task' = [task EXCEPT ![r] = t]
        PROVE  \A q \in Requests : task'[q].at = "upgrade" => task'[q] = task[q]
    BY <1>a, TaskSet
  <1>b. ASSUME NEW r \in Requests, NEW at \in PasswordStages \ {"upgrade"},
               task[r].at \in PasswordStages
        PROVE  [task[r] EXCEPT !.at = at].at # "upgrade"
    BY <1>b DEF AccountsTypeOK, Task, Unoccupied, Doing
  <1>1. ASSUME NEW r \in Requests, Bootstrap(r) \/ CreateUserFind(r) PROVE PasswordInv'
    <2>1. PICK at \in {"named", "insert"}, n \in UserNames, w \in Passwords :
            task' = [task EXCEPT ![r] = Doing(at, n, w)]
            /\ UNCHANGED <<users, chosen, overtaken>>
      BY <1>1 DEF Bootstrap, CreateUserFind
    <2>2. Doing(at, n, w).at # "upgrade"
      BY DEF Doing
    <2> QED
      BY <1>a, <2>1, <2>2, PasswordsStay
  <1>2. ASSUME NEW r \in Requests, BootstrapCount(r) PROVE PasswordInv'
    <2>1. task[r].at \in PasswordStages
      BY <1>2 DEF BootstrapCount, PasswordStages
    <2>2. /\ [task[r] EXCEPT !.at = "found"].at # "upgrade"
          /\ [task[r] EXCEPT !.at = "title"].at # "upgrade"
      BY <1>b, <2>1 DEF PasswordStages
    <2>3. \A q \in Requests : task'[q].at = "upgrade" => task'[q] = task[q]
      BY <1>2, <1>a, <2>2 DEF BootstrapCount
    <2> QED
      BY <1>2, <2>3, PasswordsStay DEF BootstrapCount
  <1>3. ASSUME NEW r \in Requests, BootstrapInsert(r) \/ CreateUserInsert(r) PROVE PasswordInv'
    <2> DEFINE n == task[r].name
               w == task[r].password
    <2>1. task[r].at \in PasswordStages
      BY <1>3 DEF BootstrapInsert, CreateUserInsert, PasswordStages
    <2>2. n \in UserNames
      BY <2>1, TaskFields DEF AccountsTypeOK
    <2>3. CASE users[n] = None
      <3>1. /\ users' = [users EXCEPT ![n] = NewUser(w)]
            /\ chosen' = [chosen EXCEPT ![n] = w]
            /\ overtaken' = IF \E q \in Requests : task[q].at = "upgrade" /\ task[q].name = n
                            THEN overtaken \cup {n} ELSE overtaken \ {n}
            /\ \/ task' = [task EXCEPT ![r] = Unoccupied]
               \/ task' = [task EXCEPT ![r].at = "title"]
        BY <1>3, <2>3 DEF BootstrapInsert, CreateUserInsert, Store
      <3>2. users'[n].password = w /\ \A m \in UserNames \ {n} : users'[m] = users[m]
        BY <2>2, <3>1 DEF AccountsTypeOK, NewUser
      <3> HIDE DEF n, w
      <3> QED
        BY <2>1, <2>2, <3>1, <3>2, PasswordChosen
    <2>4. CASE users[n] # None
      <3>1. task' = [task EXCEPT ![r] = Unoccupied] /\ UNCHANGED <<users, chosen, overtaken>>
        BY <1>3, <2>4 DEF BootstrapInsert, CreateUserInsert, Store
      <3> QED
        BY <1>0, <1>a, <3>1, PasswordsStay
    <2> QED
      BY <2>3, <2>4
  <1>4. ASSUME NEW r \in Requests, BootstrapTitle(r) \/ OpenSession(r) PROVE PasswordInv'
    <2>1. task' = [task EXCEPT ![r] = Unoccupied] /\ UNCHANGED <<users, chosen, overtaken>>
      BY <1>4 DEF BootstrapTitle, OpenSession
    <2> QED
      BY <1>0, <1>a, <2>1, PasswordsStay
  <1>5. ASSUME NEW r \in Requests, Authenticate(r) PROVE PasswordInv'
    <2>1. PICK n \in UserNames, w \in Passwords :
            /\ users[n] # None /\ users[n].password = w
            /\ task' = [task EXCEPT ![r] =
                          Doing(IF users[n].old THEN "upgrade" ELSE "open", n, w)]
            /\ UNCHANGED <<users, chosen, overtaken>>
      BY <1>5 DEF Authenticate
    <2> DEFINE t == Doing(IF users[n].old THEN "upgrade" ELSE "open", n, w)
    <2>2. t.name = n /\ t.password = w
      BY DEF Doing
    <2>3. n \notin overtaken => w = chosen[n]
      BY <2>1 DEF PasswordInv, ChosenPasswordStays
    <2>4. \A q \in Requests : task'[q] = IF q = r THEN t ELSE task[q]
      BY <2>1 DEF AccountsTypeOK
    <2> HIDE DEF t
    <2> QED
      BY <2>1, <2>2, <2>3, <2>4 DEF PasswordInv, ChosenPasswordStays
  <1>6. ASSUME NEW r \in Requests, Rehash(r) PROVE PasswordInv'
    <2> DEFINE n == task[r].name
               w == task[r].password
    <2>1. /\ task[r].at = "upgrade" /\ task' = [task EXCEPT ![r].at = "open"]
          /\ users' = IF users[n] = None THEN users
                      ELSE [users EXCEPT ![n].password = w, ![n].old = FALSE]
          /\ UNCHANGED <<chosen, overtaken>>
      BY <1>6 DEF Rehash
    <2>2. n \in UserNames /\ [task[r] EXCEPT !.at = "open"].at # "upgrade"
      BY <1>b, <2>1, TaskFields DEF AccountsTypeOK, PasswordStages
    <2>3. \A q \in Requests : task'[q].at = "upgrade" => task'[q] = task[q]
      BY <1>a, <2>1, <2>2
    <2>4. n \notin overtaken => w = chosen[n]
      BY <2>1 DEF PasswordInv
    <2>5. ASSUME NEW m \in UserNames, users'[m] # None
          PROVE  /\ users[m] # None
                 /\ m # n => users'[m] = users[m]
                 /\ m = n => users'[m].password = w
      <3>1. users[m] \in User \cup {None}
        BY DEF AccountsTypeOK
      <3> QED
        BY <2>1, <2>2, <2>5, <3>1 DEF AccountsTypeOK, User
    <2> HIDE DEF n, w
    <2>6. ChosenPasswordStays'
      BY <2>1, <2>4, <2>5 DEF PasswordInv, ChosenPasswordStays
    <2> QED
      BY <2>1, <2>3, <2>6 DEF PasswordInv
  <1>7. CASE Expire \/ Revoke
    BY <1>7 DEF Expire, Revoke, PasswordInv, ChosenPasswordStays
  <1>8. ASSUME NEW r \in Requests, Lookup(r) PROVE PasswordInv'
    <2>1. \A q \in Requests : task'[q].at = "upgrade" => task'[q] = task[q]
      BY <1>8 DEF Lookup, AccountsTypeOK
    <2> QED
      BY <1>8, <2>1, PasswordsStay DEF Lookup
  <1>9. ASSUME NEW r \in Requests, RequireUser(r) PROVE PasswordInv'
    <2>1. [task[r] EXCEPT !.at = "acting"].at # "upgrade"
      BY <1>9 DEF RequireUser, AccountsTypeOK, Task, Doing, Unoccupied
    <2>2. \A q \in Requests : task'[q].at = "upgrade" => task'[q] = task[q]
      BY <1>0, <1>9, <1>a, <2>1 DEF RequireUser
    <2> QED
      BY <1>9, <2>2, PasswordsStay DEF RequireUser
  <1>10. ASSUME NEW r \in Requests, SetPassword(r) PROVE PasswordInv'
    <2>1. PICK n \in UserNames, w \in Passwords :
            /\ task[r].at = "acting" /\ users[n] # None
            /\ users' = [users EXCEPT ![n].password = w, ![n].old = FALSE]
            /\ chosen' = [chosen EXCEPT ![n] = w]
            /\ overtaken' = IF \E q \in Requests : task[q].at = "upgrade" /\ task[q].name = n
                            THEN overtaken \cup {n} ELSE overtaken \ {n}
            /\ task' = [task EXCEPT ![r] = Unoccupied]
      BY <1>10 DEF SetPassword
    <2>2. users[n] \in User
      BY <2>1 DEF AccountsTypeOK
    <2>3. users'[n].password = w /\ \A m \in UserNames \ {n} : users'[m] = users[m]
      BY <2>1, <2>2 DEF AccountsTypeOK, User
    <2> QED
      BY <2>1, <2>3, PasswordChosen
  <1>11. ASSUME NEW r \in Requests, SetDisabled(r) \/ DeleteUser(r) PROVE PasswordInv'
    <2>1. PICK n \in UserNames, disabled \in BOOLEAN :
            /\ users[n] # None
            /\ \/ users' = [users EXCEPT ![n].disabled = disabled]
               \/ users' = [users EXCEPT ![n] = None]
            /\ task' = [task EXCEPT ![r] = Unoccupied]
            /\ UNCHANGED <<chosen, overtaken>>
      BY <1>11 DEF SetDisabled, DeleteUser
    <2>2. users[n] \in User
      BY <2>1 DEF AccountsTypeOK
    <2>3. \A m \in UserNames : users'[m] # None =>
            users[m] # None /\ users'[m].password = users[m].password
      BY <2>1, <2>2 DEF AccountsTypeOK, User
    <2> QED
      BY <1>0, <1>a, <2>1, <2>3, PasswordsStay
  <1>12. ASSUME NEW r \in Requests, AbandonTask(r) PROVE PasswordInv'
    BY <1>0, <1>12, <1>a, PasswordsStay DEF AbandonTask
  <1>13. CASE AccountsRestart
    BY <1>13, <1>0 DEF AccountsRestart, PasswordInv, ChosenPasswordStays
  <1>14. CASE UNCHANGED accountsVars
    BY <1>14 DEF accountsVars, PasswordInv, ChosenPasswordStays
  <1> QED
    BY <1>1, <1>2, <1>3, <1>4, <1>5, <1>6, <1>7, <1>8, <1>9, <1>10, <1>11, <1>12,
       <1>13, <1>14 DEF AccountsNext, AccountsWork

\* No login begins or goes on with another user, and users stay as they are, except
\* those of logins that are noted.
LEMMA LoginsStay ==
    ASSUME LoginInv, \A q \in Requests \ lapsed' : task'[q].at \in Login =>
               /\ q \notin lapsed /\ task[q].at \in Login
               /\ task'[q].name = task[q].name /\ task'[q].password = task[q].password
               /\ LET n == task[q].name IN
                  /\ users'[n] = users[n]
                  /\ n \in overtaken => n \in overtaken'
    PROVE  LoginInv'
  BY DEF LoginInv

LEMMA LoginStep ==
    AccountsTypeOK /\ PasswordInv /\ LoginInv /\ [AccountsNext]_accountsVars => LoginInv'
  <1> SUFFICES ASSUME AccountsTypeOK, PasswordInv, LoginInv, [AccountsNext]_accountsVars
               PROVE  LoginInv'
    OBVIOUS
  <1> USE DEF history, Done
  <1>0. /\ Unoccupied.at \notin Login
        /\ \A at, n, w : /\ Doing(at, n, w).at = at /\ Doing(at, n, w).name = n
                         /\ Doing(at, n, w).password = w
    BY DEF Unoccupied, Doing, Login
  <1>a. ASSUME NEW r \in Requests, NEW t, t.at \notin Login, task' = [task EXCEPT ![r] = t],
               lapsed \ {r} \subseteq lapsed'
        PROVE  \A q \in Requests \ lapsed' : task'[q].at \in Login =>
                   /\ q \notin lapsed /\ q # r /\ task'[q] = task[q]
                   /\ task[q].at \in Login /\ task[q].name \in UserNames
    <2>1. \A q \in Requests : task'[q] = IF q = r THEN t ELSE task[q]
      BY <1>a DEF AccountsTypeOK
    <2>2. \A q \in Requests : task[q].at \in Login => task[q].name \in UserNames
      BY TaskFields DEF AccountsTypeOK, Login, PasswordStages
    <2> QED
      BY <1>a, <2>1, <2>2
  <1>b. ASSUME NEW r \in Requests, NEW at, task[r].at \in PasswordStages
        PROVE  /\ [task[r] EXCEPT !.at = at].at = at
               /\ [task[r] EXCEPT !.at = at].name = task[r].name
               /\ [task[r] EXCEPT !.at = at].password = task[r].password
    BY <1>b DEF AccountsTypeOK, Task, Unoccupied, Doing, PasswordStages
  <1>c. ASSUME NEW r \in Requests, NEW t, t.at \notin Login, task' = [task EXCEPT ![r] = t],
               UNCHANGED <<users, overtaken>>, lapsed \ {r} \subseteq lapsed'
        PROVE  LoginInv'
    BY <1>a, <1>c, LoginsStay
  <1>1. ASSUME NEW r \in Requests, Bootstrap(r) \/ CreateUserFind(r) PROVE LoginInv'
    <2>1. PICK at \in {"named", "insert"}, n \in UserNames, w \in Passwords :
            task' = [task EXCEPT ![r] = Doing(at, n, w)]
            /\ UNCHANGED <<users, overtaken, lapsed>>
      BY <1>1 DEF Bootstrap, CreateUserFind
    <2> QED
      BY <1>0, <1>c, <2>1 DEF Login
  <1>2. ASSUME NEW r \in Requests, BootstrapCount(r) PROVE LoginInv'
    <2>1. PICK at \in {"found", "title"} :
            task' = [task EXCEPT ![r] = [task[r] EXCEPT !.at = at]]
      BY <1>2 DEF BootstrapCount
    <2>2. [task[r] EXCEPT !.at = at].at \notin Login
      BY <1>2, <1>b DEF BootstrapCount, PasswordStages, Login
    <2> QED
      BY <1>2, <1>c, <2>1, <2>2 DEF BootstrapCount
  <1>3. ASSUME NEW r \in Requests, BootstrapInsert(r) \/ CreateUserInsert(r) PROVE LoginInv'
    <2> DEFINE n == task[r].name
    <2>1. task[r].at \in PasswordStages
      BY <1>3 DEF BootstrapInsert, CreateUserInsert, PasswordStages
    <2>2. PICK t : t.at \notin Login /\ task' = [task EXCEPT ![r] = t] /\ lapsed' = lapsed
      <3>1. [task[r] EXCEPT !.at = "title"].at \notin Login
        BY <1>b, <2>1 DEF Login
      <3> QED
        BY <1>0, <1>3, <3>1 DEF BootstrapInsert, CreateUserInsert, Store
    <2>3. CASE users[n] = None
      <3>1. \A m \in UserNames \ {n} : users'[m] = users[m] /\ (m \in overtaken => m \in overtaken')
        BY <1>3, <2>3 DEF BootstrapInsert, CreateUserInsert, Store, AccountsTypeOK
      <3>2. \A q \in Requests \ lapsed : task[q].at \in Login => task[q].name # n
        BY <2>3 DEF LoginInv
      <3> HIDE DEF n
      <3> QED
        BY <1>a, <2>2, <3>1, <3>2, LoginsStay
    <2>4. CASE users[n] # None
      <3>1. UNCHANGED <<users, overtaken>>
        BY <1>3, <2>4 DEF BootstrapInsert, CreateUserInsert, Store
      <3> QED
        BY <1>c, <2>2, <3>1
    <2> QED
      BY <2>3, <2>4
  <1>4. ASSUME NEW r \in Requests,
               BootstrapTitle(r) \/ OpenSession(r) \/ AbandonTask(r)
        PROVE  LoginInv'
    <2>1. /\ task' = [task EXCEPT ![r] = Unoccupied]
          /\ UNCHANGED <<users, overtaken>> /\ lapsed \ {r} \subseteq lapsed'
      BY <1>4 DEF BootstrapTitle, OpenSession, AbandonTask
    <2> QED
      BY <1>0, <1>c, <2>1
  <1>5. ASSUME NEW r \in Requests, Authenticate(r) PROVE LoginInv'
    <2>1. PICK n \in UserNames, w \in Passwords :
            /\ users[n] # None /\ ~users[n].disabled /\ users[n].password = w
            /\ task' = [task EXCEPT ![r] =
                          Doing(IF users[n].old THEN "upgrade" ELSE "open", n, w)]
            /\ UNCHANGED <<users, overtaken, lapsed>>
      BY <1>5 DEF Authenticate
    <2> DEFINE t == Doing(IF users[n].old THEN "upgrade" ELSE "open", n, w)
    <2>2. t.name = n /\ t.password = w
      BY DEF Doing
    <2>3. \A q \in Requests : task'[q] = IF q = r THEN t ELSE task[q]
      BY <2>1 DEF AccountsTypeOK
    <2> HIDE DEF t
    <2> QED
      BY <2>1, <2>2, <2>3 DEF LoginInv
  <1>6. ASSUME NEW r \in Requests, Rehash(r) PROVE LoginInv'
    <2> DEFINE n == task[r].name
               w == task[r].password
               next == [task[r] EXCEPT !.at = "open"]
    <2>1. /\ task[r].at = "upgrade" /\ task' = [task EXCEPT ![r] = next]
          /\ users' = IF users[n] = None THEN users
                      ELSE [users EXCEPT ![n].password = w, ![n].old = FALSE]
          /\ UNCHANGED <<chosen, overtaken, lapsed>>
      BY <1>6 DEF Rehash
    <2>2. n \in UserNames /\ next.name = n /\ next.password = w
      BY <1>b, <2>1, TaskFields DEF AccountsTypeOK, PasswordStages
    <2>3. \A q \in Requests : task'[q] = IF q = r THEN next ELSE task[q]
      BY <2>1 DEF AccountsTypeOK
    <2>4. n \notin overtaken => w = chosen[n]
      BY <2>1 DEF PasswordInv
    <2>5. ASSUME NEW m \in UserNames, users[m] # None
          PROVE  /\ users'[m] # None /\ users'[m].disabled = users[m].disabled
                 /\ m # n => users'[m] = users[m]
                 /\ m = n => users'[m].password = w
      <3>1. users[m] \in User
        BY <2>5 DEF AccountsTypeOK
      <3>2. users'[m] = IF m = n THEN [users[m] EXCEPT !.password = w, !.old = FALSE]
                        ELSE users[m]
        BY <2>1, <2>2, <2>5 DEF AccountsTypeOK
      <3>3. users'[m] \in User
        <4>1. w \in Passwords
          BY <2>1, TaskFields DEF AccountsTypeOK, PasswordStages
        <4> QED
          BY <3>1, <3>2, <4>1 DEF User
      <3>4. users'[m] # None
        BY <3>3, AccountsAssumption
      <3> HIDE DEF n, w
      <3> QED
        BY <3>1, <3>2, <3>4 DEF User
    <2>6. users[n] # None /\ n \notin overtaken => users[n].password = w
      BY <2>2, <2>4 DEF PasswordInv, ChosenPasswordStays
    <2>7. \A q \in Requests : task[q].at \in Login => task[q].name \in UserNames
      BY TaskFields DEF AccountsTypeOK, Login, PasswordStages
    <2>8. task[r].at \in Login
      BY <2>1 DEF Login
    <2> HIDE DEF n, w, next
    <2>9. ASSUME NEW q \in Requests \ lapsed', task'[q].at \in Login
          PROVE  LET m == task'[q].name IN
                 /\ users'[m] # None /\ ~users'[m].disabled
                 /\ m \notin overtaken' => users'[m].password = task'[q].password
      <3>1. /\ q \notin lapsed /\ task[q].at \in Login /\ task'[q].name = task[q].name
            /\ task'[q].password = task[q].password
        BY <2>1, <2>2, <2>3, <2>8, <2>9 DEF n, w
      <3>2. PICK m \in UserNames : m = task[q].name
        BY <2>7, <3>1
      <3>3. /\ users[m] # None /\ ~users[m].disabled
            /\ m \notin overtaken => users[m].password = task[q].password
        BY <3>1, <3>2 DEF LoginInv
      <3>4. overtaken' = overtaken
        BY <2>1
      <3>5. CASE m = n
        BY ONLY <2>5, <2>6, <3>1, <3>2, <3>3, <3>4, <3>5
      <3>6. CASE m # n
        BY ONLY <2>5, <3>1, <3>2, <3>3, <3>4, <3>6
      <3> QED
        BY <3>5, <3>6
    <2> QED
      BY <2>9 DEF LoginInv
  <1>7. CASE Expire \/ Revoke
    BY <1>7 DEF Expire, Revoke, LoginInv
  <1>8. ASSUME NEW r \in Requests, Lookup(r) PROVE LoginInv'
    <2>1. CASE task' = task
      BY <1>8, <2>1 DEF Lookup, LoginInv
    <2>2. CASE task' # task
      <3>1. PICK t, n : task' = [task EXCEPT ![r] = [at |-> "known", token |-> t, name |-> n]]
        BY <1>8, <2>2 DEF Lookup
      <3>2. [at |-> "known", token |-> t, name |-> n].at \notin Login
        BY DEF Login
      <3> QED
        BY <1>8, <1>c, <3>1, <3>2 DEF Lookup
    <2> QED
      BY <2>1, <2>2
  <1>9. ASSUME NEW r \in Requests, RequireUser(r) PROVE LoginInv'
    <2>1. [task[r] EXCEPT !.at = "acting"].at \notin Login
      BY <1>9 DEF RequireUser, AccountsTypeOK, Task, Doing, Unoccupied, Login
    <2>2. UNCHANGED <<users, overtaken, lapsed>>
      BY <1>9 DEF RequireUser
    <2> QED
      BY <1>0, <1>9, <1>c, <2>1, <2>2 DEF RequireUser
  <1>10. ASSUME NEW r \in Requests, SetPassword(r) \/ DeleteUser(r) PROVE LoginInv'
    <2>1. PICK n \in UserNames :
            /\ \A m \in UserNames \ {n} : users'[m] = users[m] /\ (m \in overtaken => m \in overtaken')
            /\ lapsed' = lapsed \cup LoggingIn(n)
            /\ task' = [task EXCEPT ![r] = Unoccupied]
      BY <1>10 DEF SetPassword, DeleteUser, AccountsTypeOK
    <2>2. \A q \in Requests \ lapsed' : task[q].at \in Login => task[q].name # n
      BY <2>1 DEF LoggingIn
    <2> QED
      BY <1>0, <1>a, <2>1, <2>2, LoginsStay
  <1>11. ASSUME NEW r \in Requests, SetDisabled(r) PROVE LoginInv'
    <2>1. PICK n \in UserNames, disabled \in BOOLEAN :
            /\ users[n] # None
            /\ users' = [users EXCEPT ![n].disabled = disabled]
            /\ lapsed' = IF disabled THEN lapsed \cup LoggingIn(n) ELSE lapsed
            /\ task' = [task EXCEPT ![r] = Unoccupied]
            /\ UNCHANGED overtaken
      BY <1>11 DEF SetDisabled
    <2>2. users[n] \in User
      BY <2>1 DEF AccountsTypeOK
    <2>3. /\ \A m \in UserNames \ {n} : users'[m] = users[m]
          /\ users'[n] = [users[n] EXCEPT !.disabled = disabled]
      BY <2>1 DEF AccountsTypeOK
    <2>4. /\ users'[n] \in User /\ users'[n].disabled = disabled
          /\ users'[n].password = users[n].password
      BY <2>2, <2>3 DEF User
    <2>5. users'[n] # None
      BY <2>4, AccountsAssumption
    <2>6. \A q \in Requests \ lapsed' : task'[q].at \in Login =>
             /\ q \notin lapsed /\ task[q].at \in Login /\ task'[q] = task[q]
             /\ task[q].name \in UserNames
      BY <1>0, <1>a, <2>1
    <2>7. \A q \in Requests \ lapsed' : task[q].at \in Login /\ task[q].name = n => ~disabled
      BY <2>1 DEF LoggingIn
    <2> QED
      BY <2>1, <2>3, <2>4, <2>5, <2>6, <2>7 DEF LoginInv
  <1>12. CASE AccountsRestart
    BY <1>12, <1>0 DEF AccountsRestart, LoginInv
  <1>13. CASE UNCHANGED accountsVars
    BY <1>13 DEF accountsVars, LoginInv
  <1> QED
    BY <1>1, <1>2, <1>3, <1>4, <1>5, <1>6, <1>7, <1>8, <1>9, <1>10, <1>11, <1>12, <1>13
    DEF AccountsNext, AccountsWork

-----------------------------------------------------------------------------
LEMMA AccountsInvariant == AccountsSpec => []AccountsInv
  BY AccountsStart, AccountsTypesStep, FoundersStep, TitleStep, PasswordStep, LoginStep, PTL
  DEF AccountsSpec, AccountsInv

\* Every reachable state of accounts, sessions and handlers is well typed.
THEOREM AccountsTypesHold == AccountsSpec => []AccountsTypeOK
  <1>1. AccountsInv => AccountsTypeOK
    BY DEF AccountsInv
  <1> QED
    BY <1>1, AccountsInvariant, PTL

\* Installations that do not overlap install one administrator, and unless it is cut
\* short the title of the site with it; every later one is refused.
THEOREM InstalledOnce == AccountsSpec => []InstalledOnceAndWhole
  <1>1. AccountsInv => InstalledOnceAndWhole
    <2>1. Cardinality({}) = 0 /\ \A n : Cardinality({n}) = 1
      BY FS_EmptySet, FS_Singleton
    <2>2. FoundersInv => (Cardinality(founders) > 1 => contested)
      BY <2>1 DEF FoundersInv
    <2> QED
      BY <2>2 DEF AccountsInv, TitleInv, InstalledOnceAndWhole
  <1> QED
    BY <1>1, AccountsInvariant, PTL

\* A password stays as it was chosen, however many logins upgrade its hash, unless
\* an upgrade was overtaken by a change of the password.
THEOREM PasswordsStayAsChosen == AccountsSpec => []ChosenPasswordStays
  <1>1. AccountsInv => ChosenPasswordStays
    BY DEF AccountsInv, PasswordInv
  <1> QED
    BY <1>1, AccountsInvariant, PTL

\* Sessions are opened for users as they were when their password was verified, or
\* their login is known to be out of date.
THEOREM SessionsAlwaysAreEarned == AccountsSpec => SessionsAreEarned
  <1> DEFINE Earned == \A t \in Tokens, r \in Requests \ lapsed :
          sessions[t] = None /\ sessions'[t] # None /\ task'[r] # task[r] =>
              LET n == sessions'[t].user IN
              /\ users[n] # None /\ ~users[n].disabled
              /\ n \notin overtaken => users[n].password = task[r].password
  <1>1. AccountsInv /\ [AccountsNext]_accountsVars => [Earned]_accountsVars
    <2> SUFFICES ASSUME AccountsInv, AccountsNext,
                        NEW t \in Tokens, NEW r \in Requests \ lapsed,
                        sessions[t] = None, sessions'[t] # None, task'[r] # task[r]
                 PROVE  LET n == sessions'[t].user IN
                        /\ users[n] # None /\ ~users[n].disabled
                        /\ n \notin overtaken => users[n].password = task[r].password
      OBVIOUS
    <2> USE DEF AccountsInv, AccountsTypeOK
    <2>1. \A q \in Requests : AccountsWork(q) => OpenSession(q)
      BY DEF AccountsWork, Bootstrap, BootstrapCount, BootstrapInsert, BootstrapTitle,
             Authenticate, Rehash, Lookup, RequireUser, SetPassword, SetDisabled,
             DeleteUser, CreateUserFind, CreateUserInsert
    <2>2. /\ \A q \in Requests : ~AbandonTask(q)
          /\ ~Expire /\ ~Revoke /\ ~AccountsRestart
      BY DEF AbandonTask, Expire, Revoke, AccountsRestart
    <2>3. PICK q \in Requests : OpenSession(q)
      BY <2>1, <2>2 DEF AccountsNext
    <2>4. r = q
      BY <2>3 DEF OpenSession, Done
    <2>5. task[r].at = "open" /\ sessions'[t].user = task[r].name
      BY <2>3, <2>4 DEF OpenSession
    <2> QED
      BY <2>5 DEF LoginInv, Login
  <1> QED
    BY <1>1, AccountsInvariant, PTL DEF AccountsSpec, SessionsAreEarned

-----------------------------------------------------------------------------
(* RateLimiter. A stretch is counted in at most two windows, of which each
   lets `Limit' requests pass: what a stretch has is bounded by the count of
   the current window when it begins in it, and by that and a whole earlier
   window when it begins before (Bounded). *)

\* Stretches that a request may still be counted in.
Open(t) == t + Period >= clock

\* Of a client's windows, those that a stretch has requests of: the current one if
\* it begins in it, the one before it too if it begins earlier, and neither the
\* current one nor any before it a period after it was opened.
Bounded(c, t) ==
    IF windows[c] = None THEN passed[c][t] = 0
    ELSE LET w == windows[c] IN
         /\ t >= w.anchor + Period => passed[c][t] = 0
         /\ t >= w.anchor => passed[c][t] <= w.count
         /\ passed[c][t] <= Limit + w.count

LimiterInv ==
    /\ LimiterTypeOK
    /\ \A c \in Clients : windows[c] # None => windows[c].anchor <= clock
    /\ \A r \in Requests : waiting[r] # None => waiting[r].now <= clock
    /\ \A c \in Clients, t \in Time : Open(t) => Bounded(c, t)
    /\ AtMostTwiceTheLimit

LEMMA LimiterStart == LimiterInit => LimiterInv
  BY RateLimiterAssumption
  DEF LimiterInit, LimiterInv, LimiterTypeOK, AtMostTwiceTheLimit, Bounded, Time

\* Only windows that no open stretch has requests of are dropped.
LEMMA CollectKeeps ==
    ASSUME NEW map \in [Clients -> Window \cup {None}], NEW now \in Time
    PROVE  /\ Collect(map, now) \in [Clients -> Window \cup {None}]
           /\ \A c \in Clients :
                \/ Collect(map, now)[c] = map[c]
                \/ /\ map[c] # None /\ Collect(map, now)[c] = None
                   /\ map[c].anchor + 2 * Period <= now
  <1>1. ASSUME NEW c \in Clients, map[c] # None, Since(now, map[c].anchor) >= IdlePeriods * Period
        PROVE  map[c].anchor + 2 * Period <= now
    <2>1. map[c].anchor \in Nat /\ now \in Nat
      BY <1>1 DEF Window, Time
    <2>2. IdlePeriods * Period >= 2 * Period
      BY RateLimiterAssumption
    <2> HIDE DEF Window
    <2>3. Period > 0 /\ Period \in Nat /\ IdlePeriods * Period \in Nat
      BY RateLimiterAssumption
    <2> QED
      BY <1>1, <2>1, <2>2, <2>3 DEF Since
  <1> QED
    BY <1>1 DEF Collect

\* The window that a request counts in: the one there is, or a new one that begins
\* after all that have been counted before.
LEMMA CurrentBounds ==
    ASSUME LimiterInv, NEW c \in Clients, NEW now \in Time, now <= clock
    PROVE  LET w == Current(windows[c], now) IN
           /\ w \in Window
           /\ w.anchor <= clock
           /\ now < w.anchor + Period
           /\ \A t \in Time : Open(t) =>
                /\ t >= w.anchor + Period => passed[c][t] = 0
                /\ t >= w.anchor => passed[c][t] <= w.count
                /\ passed[c][t] <= Limit + w.count
  <1>1. /\ windows[c] \in Window \cup {None} /\ None \notin Window
        /\ \A t \in Time : passed[c][t] \in Nat
        /\ Limit \in Nat /\ Period \in Nat /\ Period > 0 /\ clock \in Nat
        /\ now \in Nat /\ Time \subseteq Nat
    BY RateLimiterAssumption DEF LimiterInv, LimiterTypeOK, Window, Time
  <1>2. CASE windows[c] # None /\ ~(Since(now, windows[c].anchor) >= Period)
    <2>1. windows[c].anchor \in Nat /\ windows[c].count \in 0..Limit
      BY <1>1, <1>2 DEF Window, Time
    <2>2. now < windows[c].anchor + Period
      BY <1>1, <1>2, <2>1 DEF Since
    <2> QED
      BY <1>1, <1>2, <2>2 DEF Current, LimiterInv, Bounded
  <1>3. CASE windows[c] = None \/ Since(now, windows[c].anchor) >= Period
    <2> DEFINE w == [anchor |-> now, count |-> 0]
    <2>1. Current(windows[c], now) = w
      BY <1>3 DEF Current
    <2>2. w \in Window
      BY RateLimiterAssumption DEF Window
    <2>3. ASSUME NEW t \in Time, Open(t)
          PROVE  /\ t >= now => passed[c][t] = 0
                 /\ passed[c][t] <= Limit
      <3>1. Bounded(c, t)
        BY <2>3 DEF LimiterInv
      <3>2. CASE windows[c] = None
        BY <1>1, <3>1, <3>2 DEF Bounded
      <3>3. CASE windows[c] # None
        <4>1. windows[c].anchor \in Nat /\ windows[c].count \in 0..Limit
          BY <1>1, <3>3 DEF Window, Time
        <4>2. windows[c].anchor + Period <= now
          BY <1>1, <1>3, <3>3, <4>1 DEF Since
        <4>3. t >= now => passed[c][t] = 0
          BY <1>1, <3>1, <3>3, <4>1, <4>2 DEF Bounded
        <4>4. t >= windows[c].anchor => passed[c][t] <= Limit
          BY <1>1, <2>3, <3>1, <3>3, <4>1 DEF Bounded
        <4>5. t + Period >= clock
          BY <2>3 DEF Open
        <4>6. t >= windows[c].anchor
          BY <1>1, <4>1, <4>2, <4>5
        <4> QED
          BY <4>3, <4>4, <4>6
      <3> QED
        BY <3>2, <3>3
    <2> QED
      BY <1>1, <2>1, <2>2, <2>3
  <1> QED
    BY <1>2, <1>3

LEMMA CheckStep ==
    ASSUME LimiterInv, NEW r \in Requests, Check(r)
    PROVE  LimiterInv'
  <1> DEFINE c == waiting[r].client
             now == waiting[r].now
             w == Current(windows[c], now)
             pass == w.count < Limit
             v == IF pass THEN [w EXCEPT !.count = @ + 1] ELSE w
             map == [windows EXCEPT ![c] = v]
             counted == pass /\ clock - now <= Wait
  <1>1. /\ waiting[r] # None
        /\ windows' = Collect(map, now)
        /\ waiting' = [waiting EXCEPT ![r] = None]
        /\ passed' = IF counted
                     THEN [passed EXCEPT ![c] = [t \in Time |-> IF now \in Stretch(t)
                                                               THEN @[t] + 1 ELSE @[t]]]
                     ELSE passed
        /\ clock' = clock
    BY DEF Check
  <1>2. /\ c \in Clients /\ now \in Time /\ now <= clock
        /\ Limit \in Nat /\ Period \in Nat /\ Period > 0 /\ Wait \in 0..Period
        /\ clock \in Nat /\ Time \subseteq Nat
        /\ None \notin Window
    BY <1>1, RateLimiterAssumption DEF LimiterInv, LimiterTypeOK, AtLock, Time, Window
  <1> HIDE DEF c, now
  <1>3. /\ w \in Window
        /\ w.anchor <= clock
        /\ now < w.anchor + Period
        /\ \A t \in Time : Open(t) =>
             /\ t >= w.anchor + Period => passed[c][t] = 0
             /\ t >= w.anchor => passed[c][t] <= w.count
             /\ passed[c][t] <= Limit + w.count
    BY <1>2, CurrentBounds
  <1> HIDE DEF w
  <1>4. w.anchor \in Nat /\ w.anchor \in Time /\ w.count \in 0..Limit
    BY <1>2, <1>3 DEF Window, Time
  <1>5. /\ v \in Window /\ v.anchor = w.anchor
        /\ v.count = IF pass THEN w.count + 1 ELSE w.count
    BY <1>2, <1>3, <1>4 DEF Window
  <1> HIDE DEF v
  <1>6. map \in [Clients -> Window \cup {None}] /\ map[c] = v
        /\ \A d \in Clients \ {c} : map[d] = windows[d]
    BY <1>2, <1>5 DEF LimiterInv, LimiterTypeOK
  <1> HIDE DEF map
  <1>7. /\ windows' \in [Clients -> Window \cup {None}]
        /\ \A d \in Clients :
             \/ windows'[d] = map[d]
             \/ /\ map[d] # None /\ windows'[d] = None
                /\ map[d].anchor + 2 * Period <= now
    BY <1>1, <1>2, <1>6, CollectKeeps
  <1>8. /\ passed' \in [Clients -> [Time -> Nat]]
        /\ \A d \in Clients \ {c} : passed'[d] = passed[d]
        /\ \A t \in Time : passed'[c][t] = IF counted /\ now \in Stretch(t)
                                           THEN passed[c][t] + 1 ELSE passed[c][t]
        /\ \A t \in Time : passed[c][t] \in Nat
    BY <1>1, <1>2 DEF LimiterInv, LimiterTypeOK
  \* A request that is counted is counted in open stretches.
  <1>9. ASSUME NEW t \in Time, counted, now \in Stretch(t)
        PROVE  Open(t) /\ t < w.anchor + Period /\ w.count < Limit
    <2>1. t \in Nat /\ now \in Nat /\ t <= now /\ now <= t + Period - Wait /\ clock - now <= Wait
      BY <1>2, <1>9 DEF Stretch
    <2> QED
      BY <1>2, <1>3, <1>4, <1>9, <2>1 DEF Open
  <1>10. ASSUME NEW t \in Time, Open(t)
         PROVE  /\ t >= v.anchor + Period => passed'[c][t] = 0
                /\ t >= v.anchor => passed'[c][t] <= v.count
                /\ passed'[c][t] <= Limit + v.count
    <2>1. /\ t >= w.anchor + Period => passed[c][t] = 0
          /\ t >= w.anchor => passed[c][t] <= w.count
          /\ passed[c][t] <= Limit + w.count
      BY <1>3, <1>10
    <2>2. t \in Nat /\ passed[c][t] \in Nat
      BY <1>2, <1>8
    <2>3. CASE counted /\ now \in Stretch(t)
      <3>1. passed'[c][t] = passed[c][t] + 1 /\ v.count = w.count + 1
            /\ t < w.anchor + Period
        BY <1>5, <1>8, <1>9, <2>3
      <3> QED
        BY <1>2, <1>4, <1>5, <2>1, <2>2, <3>1
    <2>4. CASE ~(counted /\ now \in Stretch(t))
      <3>1. passed'[c][t] = passed[c][t] /\ v.count >= w.count
        BY <1>2, <1>4, <1>5, <1>8, <2>4
      <3>2. v.count \in Nat
        BY <1>4, <1>5
      <3> QED
        BY <1>2, <1>4, <1>5, <2>1, <2>2, <3>1, <3>2
    <2> QED
      BY <2>3, <2>4
  <1> HIDE DEF counted
  \* Where the GC drops a window, no open stretch has requests of it.
  <1>11. ASSUME NEW t \in Time, Open(t), NEW d \in Clients PROVE Bounded(d, t)'
    <2>1. map[d] # None =>
            /\ map[d].anchor \in Nat
            /\ t >= map[d].anchor + Period => passed'[d][t] = 0
            /\ t >= map[d].anchor => passed'[d][t] <= map[d].count
            /\ passed'[d][t] <= Limit + map[d].count
      <3>1. CASE d = c
        BY <1>2, <1>4, <1>5, <1>6, <1>10, <1>11, <3>1
      <3>2. CASE d # c
        <4>1. Bounded(d, t)
          BY <1>11 DEF LimiterInv
        <4>2. map[d] = windows[d] /\ passed'[d] = passed[d]
          BY <1>6, <1>8, <3>2
        <4>3. map[d] # None => map[d].anchor \in Nat
          BY <1>2, <1>6 DEF Window, Time
        <4> QED
          BY <4>1, <4>2, <4>3 DEF Bounded
      <3> QED
        BY <3>1, <3>2
    <2>2. map[d] = None => passed'[d][t] = 0
      <3>1. map[d] = None => d # c
        BY <1>2, <1>5, <1>6
      <3>2. Bounded(d, t)
        BY <1>11 DEF LimiterInv
      <3> QED
        BY <1>6, <1>8, <3>1, <3>2 DEF Bounded
    <2>3. CASE windows'[d] = map[d]
      BY <2>1, <2>2, <2>3 DEF Bounded
    <2>4. CASE map[d] # None /\ windows'[d] = None /\ map[d].anchor + 2 * Period <= now
      <3>1. t \in Nat /\ t + Period >= clock /\ now \in Nat
        BY <1>2, <1>11 DEF Open
      <3>2. t >= map[d].anchor + Period
        BY <1>2, <2>1, <2>4, <3>1
      <3> QED
        BY <2>1, <2>4, <3>2 DEF Bounded
    <2> QED
      BY <1>7, <2>3, <2>4
  <1>12. AtMostTwiceTheLimit'
    <2> SUFFICES ASSUME NEW d \in Clients, NEW t \in Time PROVE passed'[d][t] <= 2 * Limit
      BY DEF AtMostTwiceTheLimit
    <2>1. passed[d][t] <= 2 * Limit
      BY DEF LimiterInv, AtMostTwiceTheLimit
    <2>2. CASE d = c /\ counted /\ now \in Stretch(t)
      <3>1. Open(t) /\ w.count < Limit
        BY <1>9, <2>2
      <3>2. passed[c][t] <= Limit + w.count
        BY <1>3, <3>1
      <3> QED
        BY <1>2, <1>4, <1>8, <2>2, <3>1, <3>2
    <2>3. CASE ~(d = c /\ counted /\ now \in Stretch(t))
      BY <1>8, <2>1, <2>3
    <2> QED
      BY <2>2, <2>3
  <1>13. \A d \in Clients : windows'[d] # None => windows'[d].anchor <= clock
    BY <1>3, <1>5, <1>6, <1>7 DEF LimiterInv
  <1>14. /\ waiting' \in [Requests -> AtLock \cup {None}]
         /\ \A q \in Requests : waiting'[q] # None => waiting'[q].now <= clock
    BY <1>1 DEF LimiterInv, LimiterTypeOK
  <1>15. LimiterTypeOK'
    BY <1>1, <1>7, <1>8, <1>14 DEF LimiterInv, LimiterTypeOK
  <1> QED
    BY <1>1, <1>11, <1>12, <1>13, <1>14, <1>15 DEF LimiterInv, Open

LEMMA LimiterStep == LimiterInv /\ [LimiterNext]_limiterVars => LimiterInv'
  <1> SUFFICES ASSUME LimiterInv, [LimiterNext]_limiterVars PROVE LimiterInv'
    OBVIOUS
  <1>1. CASE Tick
    <2>1. clock' = clock + 1 /\ clock' \in Time /\ clock \in Nat /\ Time \subseteq Nat
          /\ UNCHANGED <<windows, waiting, passed>>
      BY <1>1, RateLimiterAssumption DEF Tick, LimiterInv, LimiterTypeOK, Time
    <2>2. \A t \in Time : Open(t)' => Open(t)
      BY <2>1, RateLimiterAssumption DEF Open
    <2>3. LimiterTypeOK'
      BY <2>1 DEF LimiterInv, LimiterTypeOK
    <2>4. /\ \A c \in Clients : windows[c] # None => windows[c].anchor \in Nat
          /\ \A r \in Requests : waiting[r] # None => waiting[r].now \in Nat
      BY <2>1 DEF LimiterInv, LimiterTypeOK, Window, AtLock
    <2>5. /\ \A c \in Clients : windows[c] # None => windows[c].anchor <= clock + 1
          /\ \A r \in Requests : waiting[r] # None => waiting[r].now <= clock + 1
      BY <2>1, <2>4 DEF LimiterInv
    <2> QED
      BY <2>1, <2>2, <2>3, <2>5 DEF LimiterInv, Bounded, AtMostTwiceTheLimit
  <1>2. ASSUME NEW r \in Requests, Arrive(r) PROVE LimiterInv'
    <2>1. PICK c \in Clients : waiting' = [waiting EXCEPT ![r] = [client |-> c, now |-> clock]]
                               /\ UNCHANGED <<clock, windows, passed>>
      BY <1>2 DEF Arrive
    <2>2. LimiterTypeOK'
      BY <2>1 DEF LimiterInv, LimiterTypeOK, AtLock
    <2>3. clock \in Nat
      BY RateLimiterAssumption DEF LimiterInv, LimiterTypeOK, Time
    <2>4. \A q \in Requests : waiting'[q] # None => waiting'[q].now <= clock
      BY <2>1, <2>3 DEF LimiterInv, LimiterTypeOK
    <2> QED
      BY <2>1, <2>2, <2>4 DEF LimiterInv, Bounded, AtMostTwiceTheLimit, Open
  <1>3. CASE UNCHANGED limiterVars
    BY <1>3 DEF limiterVars, LimiterInv, LimiterTypeOK, Bounded, AtMostTwiceTheLimit, Open
  <1> QED
    BY <1>1, <1>2, <1>3, CheckStep DEF LimiterNext

LEMMA LimiterInvariant == LimiterSpec => []LimiterInv
  BY LimiterStart, LimiterStep, PTL DEF LimiterSpec

\* Every reachable state of the limiter is well typed.
THEOREM LimiterTypesHold == LimiterSpec => []LimiterTypeOK
  <1>1. LimiterInv => LimiterTypeOK
    BY DEF LimiterInv
  <1> QED
    BY <1>1, LimiterInvariant, PTL

\* However its requests are spread over windows, and in whatever order they get the
\* map's lock (check), no client has more than twice the limit pass in a stretch that
\* is shorter than a period by as long as a request may wait for the lock.
THEOREM LimitHoldsTwiceAtMost == LimiterSpec => []AtMostTwiceTheLimit
  <1>1. LimiterInv => AtMostTwiceTheLimit
    BY DEF LimiterInv
  <1> QED
    BY <1>1, LimiterInvariant, PTL

-----------------------------------------------------------------------------
(* Attachments. URLs of files that are stored but not answered yet have to be
   kept too, and what makes both last is that each key carries the hash of
   what is under it (Kept), and that no two keys have one path (PathIsOneKeys). *)

\* Of a pair that has been stored something with its hash is still there.
Kept(a) ==
    /\ objects[ObjectPath(a[1])] # None
    /\ HashOf[objects[ObjectPath(a[1])]] = HashOf[a[2]]
    /\ a[1].hash = HashOf[a[2]]

\* Only contents that are images get as far as a thumbnail.
ThumbnailsAreOfImages ==
    \A r \in Requests :
        /\ upload[r].at \in {"render", "thumb"} => upload[r].what[3] \in Images
        /\ upload[r].at = "thumb" => ThumbOf[upload[r].what[3]] # None

AttachmentsInv ==
    /\ AttachmentsTypeOK
    /\ ThumbnailsAreOfImages
    /\ \A a \in answered : Kept(a)
    /\ \A r \in Requests : upload[r] # NoUpload => \A a \in upload[r].stored : Kept(a)

-----------------------------------------------------------------------------
\* A key made of an upload's parts is a key, and has the hash of the body.
LEMMA KeyType ==
    ASSUME AttachmentsTypeOK, NEW g \in Groups, NEW n \in FileNames, NEW b \in Contents
    PROVE  Key(g, n, b) \in ObjectKey /\ Key(g, n, b).hash = HashOf[b]
  BY AttachmentsAssumption DEF AttachmentsTypeOK, Key, ObjectKey

\* A handler at work has an upload and pairs of keys and bodies in hand.
LEMMA AtWork ==
    ASSUME AttachmentsTypeOK, NEW r \in Requests, upload[r].at # "idle"
    PROVE  /\ upload[r] # NoUpload
           /\ upload[r] \in [at : {"put", "render", "thumb"}, what : Uploads,
                             stored : SUBSET (ObjectKey \X Contents)]
           /\ upload[r].what[1] \in Groups
           /\ upload[r].what[2] \in FileNames
           /\ upload[r].what[3] \in Contents
  <1>1. upload[r] \in Upload
    BY DEF AttachmentsTypeOK
  <1>2. /\ upload[r] # NoUpload
        /\ upload[r] \in [at : {"put", "render", "thumb"}, what : Uploads,
                          stored : SUBSET (ObjectKey \X Contents)]
    BY <1>1 DEF Upload, NoUpload
  <1>3. upload[r].what \in Groups \X FileNames \X Contents
    BY <1>2, AttachmentsAssumption
  <1> QED
    BY <1>2, <1>3

\* The path of a key has the hash of the key.
LEMMA PathType ==
    ASSUME NEW k \in ObjectKey
    PROVE  ObjectPath(k) \in StoredPath /\ ObjectPath(k).hash = k.hash
  BY DEF ObjectPath, ObjectKey, StoredPath

\* No two keys have the same path: no group is written like the encoded dot.
LEMMA PathIsOneKeys ==
    ASSUME NEW k \in ObjectKey, NEW m \in ObjectKey, ObjectPath(k) = ObjectPath(m)
    PROVE  k = m
  <1>1. ASSUME NEW q \in ObjectKey
        PROVE  /\ ObjectPath(q).month = q.month
               /\ ObjectPath(q).hash = q.hash
               /\ ObjectPath(q).name = q.name
               /\ ObjectPath(q).group = IF q.group = Dot THEN Encoded ELSE q.group
               /\ q.group # Encoded
    BY AttachmentsAssumption DEF ObjectPath, ObjectKey
  <1>2. k.group = m.group
    BY <1>1
  <1>3. k.month = m.month /\ k.hash = m.hash /\ k.name = m.name
    BY <1>1
  <1> QED
    BY <1>2, <1>3 DEF ObjectKey

\* No object that is kept is written over with bytes of another hash: a key with
\* the same path has that hash too.
LEMMA PutKeeps ==
    ASSUME AttachmentsTypeOK, NEW k \in ObjectKey, NEW b \in Contents, k.hash = HashOf[b],
           PutObject(k, b), NEW a \in ObjectKey \X Contents, Kept(a)
    PROVE  Kept(a)'
  <1>1. /\ objects' = [objects EXCEPT ![ObjectPath(k)] = b]
        /\ objects \in [StoredPath -> Contents \cup {None}]
    BY DEF PutObject, AttachmentsTypeOK
  <1>2. a[1] \in ObjectKey
    OBVIOUS
  <1>3. /\ ObjectPath(k) \in StoredPath /\ ObjectPath(k).hash = HashOf[b]
        /\ ObjectPath(a[1]) \in StoredPath /\ ObjectPath(a[1]).hash = HashOf[a[2]]
    BY <1>2, PathType DEF Kept
  <1>4. CASE ObjectPath(a[1]) = ObjectPath(k)
    BY <1>1, <1>3, <1>4, AttachmentsAssumption DEF Kept
  <1>5. CASE ObjectPath(a[1]) # ObjectPath(k)
    BY <1>1, <1>3, <1>5 DEF Kept
  <1> QED
    BY <1>4, <1>5

\* What is put is kept itself.
LEMMA PutIsKept ==
    ASSUME AttachmentsTypeOK, NEW k \in ObjectKey, NEW b \in Contents, k.hash = HashOf[b],
           PutObject(k, b)
    PROVE  Kept(<<k, b>>)'
  <1>1. /\ objects' = [objects EXCEPT ![ObjectPath(k)] = b]
        /\ objects \in [StoredPath -> Contents \cup {None}]
    BY DEF PutObject, AttachmentsTypeOK
  <1> QED
    BY <1>1, PathType, AttachmentsAssumption DEF Kept

-----------------------------------------------------------------------------
LEMMA AttachmentsStart == AttachmentsInit => AttachmentsInv
  <1> SUFFICES ASSUME AttachmentsInit PROVE AttachmentsInv
    OBVIOUS
  <1>1. AttachmentsTypeOK
    BY AttachmentsAssumption DEF AttachmentsInit, AttachmentsTypeOK, Upload
  <1>2. \A r \in Requests : upload[r] = NoUpload
    BY DEF AttachmentsInit
  <1>3. ThumbnailsAreOfImages
    <2>1. NoUpload.at = "idle"
      BY DEF NoUpload
    <2>2. \A r \in Requests : upload[r].at = "idle"
      BY <1>2, <2>1
    <2> QED
      BY <2>2 DEF ThumbnailsAreOfImages
  <1> QED
    BY <1>1, <1>2, <1>3 DEF AttachmentsInit, AttachmentsInv

\* An object that is put: what was kept stays kept, whoever holds it.
LEMMA PutStep ==
    ASSUME AttachmentsInv, NEW k \in ObjectKey, NEW b \in Contents, k.hash = HashOf[b],
           PutObject(k, b)
    PROVE  /\ \A a \in answered \cup {<<k, b>>} : Kept(a)'
           /\ \A r \in Requests : upload[r] # NoUpload =>
                \A a \in upload[r].stored \cup {<<k, b>>} : Kept(a)'
           /\ objects' \in [StoredPath -> Contents \cup {None}]
  <1>1. AttachmentsTypeOK
    BY DEF AttachmentsInv
  <1>2. Kept(<<k, b>>)'
    BY <1>1, PutIsKept
  <1>3. \A a \in answered : Kept(a)'
    <2> TAKE a \in answered
    <2>1. a \in ObjectKey \X Contents /\ Kept(a)
      BY DEF AttachmentsInv, AttachmentsTypeOK
    <2> QED
      BY <1>1, <2>1, PutKeeps
  <1>4. ASSUME NEW r \in Requests, upload[r] # NoUpload, NEW a \in upload[r].stored
        PROVE  Kept(a)'
    <2>1. upload[r] \in Upload
      BY <1>1 DEF AttachmentsTypeOK
    <2>2. a \in ObjectKey \X Contents /\ Kept(a)
      BY <1>4, <2>1 DEF AttachmentsInv, Upload
    <2> QED
      BY <1>1, <2>2, PutKeeps
  <1>5. objects' \in [StoredPath -> Contents \cup {None}]
    BY <1>1, PathType DEF PutObject, AttachmentsTypeOK
  <1> QED
    BY <1>2, <1>3, <1>4, <1>5

LEMMA AttachmentsStep == AttachmentsInv /\ [AttachmentsNext]_attachmentsVars => AttachmentsInv'
  <1> SUFFICES ASSUME AttachmentsInv, [AttachmentsNext]_attachmentsVars
               PROVE  AttachmentsInv'
    OBVIOUS
  <1> USE DEF AttachmentsInv
  <1>1. ASSUME NEW r \in Requests, StartUpload(r) PROVE AttachmentsInv'
    <2>1. PICK u \in Uploads :
            /\ upload' = [upload EXCEPT ![r] = [at |-> "put", what |-> u, stored |-> {}]]
            /\ UNCHANGED <<month, objects, answered>>
      BY <1>1 DEF StartUpload
    <2>2. [at |-> "put", what |-> u, stored |-> {}] \in Upload
      BY DEF Upload
    <2>3. AttachmentsTypeOK'
      BY <2>1, <2>2 DEF AttachmentsTypeOK
    <2>4. \A q \in Requests :
            upload'[q] = IF q = r THEN [at |-> "put", what |-> u, stored |-> {}] ELSE upload[q]
      BY <2>1 DEF AttachmentsTypeOK
    <2>5. ThumbnailsAreOfImages'
      BY <2>4 DEF ThumbnailsAreOfImages
    <2> QED
      BY <2>1, <2>3, <2>4, <2>5 DEF Kept
  <1>2. ASSUME NEW r \in Requests, PutOriginal(r) PROVE AttachmentsInv'
    <2> DEFINE u == upload[r].what
               b == u[3]
               k == Key(u[1], u[2], b)
               next == [upload[r] EXCEPT !.at = "render", !.stored = {<<k, b>>}]
    <2>1. upload[r].at = "put" /\ PutObject(k, b) /\ month' = month
      BY <1>2 DEF PutOriginal
    <2>2. /\ u[1] \in Groups /\ u[2] \in FileNames /\ b \in Contents
          /\ upload[r] # NoUpload
          /\ upload[r] \in [at : {"put", "render", "thumb"}, what : Uploads,
                             stored : SUBSET (ObjectKey \X Contents)]
      BY <2>1, AtWork
    <2>3. k \in ObjectKey /\ k.hash = HashOf[b]
      BY <2>2, KeyType
    <2> HIDE DEF b, k
    <2>4. /\ \A a \in answered \cup {<<k, b>>} : Kept(a)'
          /\ \A q \in Requests : upload[q] # NoUpload =>
                \A a \in upload[q].stored \cup {<<k, b>>} : Kept(a)'
          /\ objects' \in [StoredPath -> Contents \cup {None}]
      BY <2>1, <2>2, <2>3, PutStep
    <2>5. CASE b \in Images
      <3>1. upload' = [upload EXCEPT ![r] = next] /\ answered' = answered
        BY <1>2, <2>5 DEF PutOriginal, b, k
      <3>2. next \in Upload /\ next.at = "render" /\ next.what[3] = b /\ next.stored = {<<k, b>>}
        <4>1. <<k, b>> \in ObjectKey \X Contents
          BY <2>2, <2>3 DEF b
        <4>2. next \in [at : {"put", "render", "thumb"}, what : Uploads,
                       stored : SUBSET (ObjectKey \X Contents)]
          BY <2>2, <4>1
        <4>3. next.at = "render" /\ next.stored = {<<k, b>>} /\ next.what = u
          BY <2>2
        <4> QED
          BY <4>2, <4>3 DEF Upload, b
      <3> HIDE DEF next
      <3>3. \A q \in Requests : upload'[q] = IF q = r THEN next ELSE upload[q]
        BY <3>1 DEF AttachmentsTypeOK
      <3>4. AttachmentsTypeOK'
        BY <2>1, <2>4, <3>1, <3>2 DEF AttachmentsTypeOK
      <3>5. ThumbnailsAreOfImages'
        BY <2>5, <3>2, <3>3 DEF ThumbnailsAreOfImages
      <3> QED
        BY <2>4, <3>1, <3>2, <3>3, <3>4, <3>5
    <2>6. CASE b \notin Images
      <3>1. upload' = [upload EXCEPT ![r] = NoUpload] /\ answered' = answered \cup {<<k, b>>}
        BY <1>2, <2>6 DEF PutOriginal, Answer, b, k
      <3>2. \A q \in Requests : upload'[q] = IF q = r THEN NoUpload ELSE upload[q]
        BY <3>1 DEF AttachmentsTypeOK
      <3>3. AttachmentsTypeOK'
        BY <2>1, <2>2, <2>3, <2>4, <3>1 DEF AttachmentsTypeOK, Upload
      <3>4. ThumbnailsAreOfImages'
        BY <3>2 DEF ThumbnailsAreOfImages, NoUpload
      <3> QED
        BY <2>4, <3>1, <3>2, <3>3, <3>4
    <2> QED
      BY <2>5, <2>6
  <1>3. ASSUME NEW r \in Requests, RenderThumb(r) PROVE AttachmentsInv'
    <2> DEFINE next == [upload[r] EXCEPT !.at = "thumb"]
    <2>1. /\ upload[r].at = "render" /\ UNCHANGED <<month, objects, answered>>
          /\ upload' = [upload EXCEPT ![r] = IF ThumbOf[upload[r].what[3]] = None THEN NoUpload
                                             ELSE next]
      BY <1>3 DEF RenderThumb
    <2>2. /\ upload[r] # NoUpload
          /\ upload[r] \in [at : {"put", "render", "thumb"}, what : Uploads,
                             stored : SUBSET (ObjectKey \X Contents)]
      BY <2>1, AtWork
    <2>3. /\ next \in Upload /\ next.at = "thumb"
          /\ next.what = upload[r].what /\ next.stored = upload[r].stored
      BY <2>2 DEF Upload
    <2> HIDE DEF next
    <2>4. \A q \in Requests :
            upload'[q] = IF q # r THEN upload[q]
                         ELSE IF ThumbOf[upload[r].what[3]] = None THEN NoUpload ELSE next
      BY <2>1 DEF AttachmentsTypeOK
    <2>5. AttachmentsTypeOK'
      BY <2>1, <2>3 DEF AttachmentsTypeOK, Upload
    <2>6. ThumbnailsAreOfImages'
      BY <2>1, <2>3, <2>4 DEF ThumbnailsAreOfImages, NoUpload
    <2> QED
      BY <2>1, <2>2, <2>3, <2>4, <2>5, <2>6 DEF Kept
  <1>4. ASSUME NEW r \in Requests, PutThumb(r) PROVE AttachmentsInv'
    <2> DEFINE u == upload[r].what
               b == ThumbOf[u[3]]
               k == Key(u[1], ThumbName[u[2]], b)
    <2>1. /\ upload[r].at = "thumb" /\ PutObject(k, b) /\ month' = month
          /\ upload' = [upload EXCEPT ![r] = NoUpload]
          /\ answered' = answered \cup (upload[r].stored \cup {<<k, b>>})
      BY <1>4 DEF PutThumb, Answer
    <2>2. /\ u[1] \in Groups /\ u[2] \in FileNames
          /\ upload[r] # NoUpload
          /\ upload[r] \in [at : {"put", "render", "thumb"}, what : Uploads,
                             stored : SUBSET (ObjectKey \X Contents)]
      BY <2>1, AtWork
    <2>3. b \in Contents
      BY <2>1, AttachmentsAssumption DEF ThumbnailsAreOfImages
    <2>4. k \in ObjectKey /\ k.hash = HashOf[b]
      BY <2>2, <2>3, AttachmentsAssumption, KeyType
    <2> HIDE DEF b, k
    <2>5. /\ \A a \in answered \cup {<<k, b>>} : Kept(a)'
          /\ \A q \in Requests : upload[q] # NoUpload =>
                \A a \in upload[q].stored \cup {<<k, b>>} : Kept(a)'
          /\ objects' \in [StoredPath -> Contents \cup {None}]
      BY <2>1, <2>3, <2>4, PutStep
    <2>6. \A q \in Requests : upload'[q] = IF q = r THEN NoUpload ELSE upload[q]
      BY <2>1 DEF AttachmentsTypeOK
    <2>7. AttachmentsTypeOK'
      BY <2>1, <2>2, <2>3, <2>4, <2>5 DEF AttachmentsTypeOK, Upload
    <2>8. ThumbnailsAreOfImages'
      BY <2>6 DEF ThumbnailsAreOfImages, NoUpload
    <2> QED
      BY <2>1, <2>2, <2>5, <2>6, <2>7, <2>8
  <1>5. ASSUME NEW r \in Requests, AbandonUpload(r) PROVE AttachmentsInv'
    <2>1. /\ upload' = [upload EXCEPT ![r] = NoUpload]
          /\ UNCHANGED <<month, objects, answered>>
      BY <1>5 DEF AbandonUpload
    <2>2. \A q \in Requests : upload'[q] = IF q = r THEN NoUpload ELSE upload[q]
      BY <2>1 DEF AttachmentsTypeOK
    <2>3. AttachmentsTypeOK'
      BY <2>1 DEF AttachmentsTypeOK, Upload
    <2>4. ThumbnailsAreOfImages'
      BY <2>2 DEF ThumbnailsAreOfImages, NoUpload
    <2> QED
      BY <2>1, <2>2, <2>3, <2>4 DEF Kept
  <1>6. ASSUME RemoveObject PROVE AttachmentsInv'
    <2> DEFINE left(q, k) == [upload[q] EXCEPT !.stored = Less(@, k)]
    <2>1. PICK k \in ObjectKey :
            /\ objects' = [objects EXCEPT ![ObjectPath(k)] = None]
            /\ answered' = Less(answered, k)
            /\ upload' = [q \in Requests |-> IF upload[q] = NoUpload THEN NoUpload
                                             ELSE left(q, k)]
            /\ month' = month
      BY <1>6 DEF RemoveObject
    <2>2. ASSUME NEW a \in ObjectKey \X Contents, Kept(a), a[1] # k PROVE Kept(a)'
      <3>1. a[1] \in ObjectKey /\ ObjectPath(a[1]) \in StoredPath
        BY PathType
      <3>2. ObjectPath(a[1]) # ObjectPath(k)
        BY <2>2, <3>1, PathIsOneKeys
      <3> QED
        BY <2>1, <2>2, <3>1, <3>2 DEF Kept, AttachmentsTypeOK
    <2>3. ASSUME NEW q \in Requests, upload[q] # NoUpload
          PROVE  /\ left(q, k) \in Upload
                 /\ left(q, k).at = upload[q].at /\ left(q, k).what = upload[q].what
                 /\ left(q, k).stored = Less(upload[q].stored, k)
                 /\ upload[q].stored \subseteq ObjectKey \X Contents
      <3>1. upload[q] \in [at : {"put", "render", "thumb"}, what : Uploads,
                           stored : SUBSET (ObjectKey \X Contents)]
        BY <2>3 DEF AttachmentsTypeOK, Upload
      <3> QED
        BY <3>1 DEF Upload, Less
    <2> HIDE DEF left
    <2>4. \A a \in answered' : Kept(a)'
      BY <2>1, <2>2 DEF Less, AttachmentsTypeOK
    <2>5. ASSUME NEW q \in Requests, upload'[q] # NoUpload, NEW a \in upload'[q].stored
          PROVE  Kept(a)'
      <3>1. upload[q] # NoUpload /\ upload'[q] = left(q, k)
        BY <2>1, <2>5
      <3>2. a \in upload[q].stored /\ a[1] # k
        BY <2>3, <2>5, <3>1 DEF Less
      <3> QED
        BY <2>2, <2>3, <3>1, <3>2
    <2>6. AttachmentsTypeOK'
      <3>1. upload' \in [Requests -> Upload]
        BY <2>1, <2>3 DEF Upload
      <3>2. answered' \subseteq ObjectKey \X Contents
        BY <2>1 DEF Less, AttachmentsTypeOK
      <3> QED
        BY <2>1, <3>1, <3>2 DEF AttachmentsTypeOK
    <2>7. ThumbnailsAreOfImages'
      <3>1. ASSUME NEW q \in Requests
            PROVE  upload'[q].at = upload[q].at
                   /\ (upload[q].at # "idle" => upload'[q].what = upload[q].what)
        BY <2>1, <2>3, <3>1 DEF NoUpload
      <3> QED
        BY <3>1 DEF ThumbnailsAreOfImages
    <2> QED
      BY <2>4, <2>5, <2>6, <2>7
  <1>7. ASSUME NextMonth PROVE AttachmentsInv'
    <2>1. month' \in 1..Months /\ UNCHANGED <<upload, objects, answered>>
      BY <1>7, AttachmentsAssumption DEF NextMonth, AttachmentsTypeOK
    <2> QED
      BY <2>1 DEF AttachmentsTypeOK, ThumbnailsAreOfImages, Kept
  <1>8. CASE UNCHANGED attachmentsVars
    BY <1>8 DEF attachmentsVars, AttachmentsTypeOK, ThumbnailsAreOfImages, Kept
  <1> QED
    BY <1>1, <1>2, <1>3, <1>4, <1>5, <1>6, <1>7, <1>8 DEF AttachmentsNext, UploadStep

LEMMA AttachmentsInvariant == AttachmentsSpec => []AttachmentsInv
  BY AttachmentsStart, AttachmentsStep, PTL DEF AttachmentsSpec

\* Every reachable state is well typed.
THEOREM AttachmentsTypesHold == AttachmentsSpec => []AttachmentsTypeOK
  <1>1. AttachmentsInv => AttachmentsTypeOK
    BY DEF AttachmentsInv
  <1> QED
    BY <1>1, AttachmentsInvariant, PTL

\* A URL that an upload answered with leads to the bytes it was given for, or to
\* others of the same hash, until its key is deleted, whatever else is uploaded,
\* deleted or abandoned; only files in the group "." are not where their URLs lead.
THEOREM UrlsAlwaysLeadToTheirFiles == AttachmentsSpec => []UrlsLeadToTheirFiles
  <1>1. ASSUME AttachmentsInv, NEW a \in answered, a[1].group # Dot
        PROVE  /\ objects[Served(a[1])] # None
               /\ HashOf[objects[Served(a[1])]] = HashOf[a[2]]
    <2>1. Kept(a)
      BY <1>1 DEF AttachmentsInv
    <2>2. Served(a[1]) = ObjectPath(a[1])
      BY <1>1 DEF Served, ObjectPath
    <2> QED
      BY <2>1, <2>2 DEF Kept
  <1>2. AttachmentsInv => UrlsLeadToTheirFiles
    BY <1>1 DEF UrlsLeadToTheirFiles
  <1> QED
    BY <1>2, AttachmentsInvariant, PTL

-----------------------------------------------------------------------------
(* Plugins. A reload that is half done has of every plugin that it read, and
   whose files stayed as they were, what is on disk, and nothing of the
   others (AsRead). *)

OnDisk(p) == LoadOne(manifests[p], wasm[p])
Reading == {"scan", "entry"}

\* A reload has what is on disk of the plugins that it has read and whose files did
\* not change meanwhile, and nothing of the others.
AsRead(j) ==
    /\ \A p \in PluginNames \ j.missed :
         j.next[p] = IF p \in j.todo \/ (j.at = "entry" /\ p = j.plugin) THEN None ELSE OnDisk(p)
    /\ j.at = "entry" =>
         /\ j.plugin \notin j.todo /\ j.manifest.enabled
         /\ j.plugin \notin j.missed => j.manifest = manifests[j.plugin]

ReloadsReadTheDisk == \A r \in Requests : job[r].at \in Reading => AsRead(job[r])

\* Nothing has changed for a request since its method was looked up.
RoutedAsDeclared ==
    \A r \in Requests \ slipped :
        job[r].at = "routed" => ~Refused(job[r].plugin, job[r].method)

PluginsInv ==
    /\ PluginsTypeOK /\ ReloadsReadTheDisk /\ LoadedIsOnDisk
    /\ RoutedAsDeclared /\ MethodsAreDeclared

-----------------------------------------------------------------------------
LEMMA NoneIsNothing ==
    /\ \A m \in Manifests : m # None /\ m \in Manifest
    /\ \A w \in Compiles : w # None /\ w \in Modules
    /\ \A l \in Loaded : l # None
  BY PluginsAssumption

LEMMA ManifestFields ==
    ASSUME NEW m \in Manifests
    PROVE  m.enabled \in BOOLEAN /\ m.http \in BOOLEAN /\ m.methods \subseteq Methods
  BY PluginsAssumption DEF Manifest

LEMMA LoadedFields ==
    ASSUME NEW l \in Loaded
    PROVE  /\ l.manifest \in Manifests /\ l.module \in Modules \cup {Placeholder}
           /\ l.enabled \in BOOLEAN
           /\ l = [manifest |-> l.manifest, module |-> l.module, enabled |-> l.enabled]
  BY DEF Loaded

\* enable and disable, and the manifest's own word.
LEMMA Switched ==
    ASSUME NEW l \in Loaded, NEW e \in BOOLEAN
    PROVE  /\ [l EXCEPT !.enabled = e] \in Loaded
           /\ [l EXCEPT !.enabled = e].manifest = l.manifest
           /\ AsLoaded([l EXCEPT !.enabled = e]) = AsLoaded(l)
  <1> DEFINE k == [manifest |-> l.manifest, module |-> l.module, enabled |-> e]
             a == [manifest |-> l.manifest, module |-> l.module, enabled |-> l.manifest.enabled]
  <1>1. /\ l.manifest \in Manifests /\ l.module \in Modules \cup {Placeholder}
        /\ l = [manifest |-> l.manifest, module |-> l.module, enabled |-> l.enabled]
    BY LoadedFields
  <1>2. [l EXCEPT !.enabled = e] = k
    BY <1>1
  <1>3. k \in Loaded /\ k.manifest = l.manifest
    BY <1>1 DEF Loaded
  <1>4. l # None /\ k # None
    BY <1>3, NoneIsNothing
  <1>5. [l EXCEPT !.enabled = l.manifest.enabled] = a
    BY <1>1
  <1>6. [k EXCEPT !.enabled = k.manifest.enabled] = a
    BY <1>3
  <1>7. AsLoaded(l) = a /\ AsLoaded(k) = a
    BY <1>4, <1>5, <1>6 DEF AsLoaded
  <1> QED
    BY <1>2, <1>3, <1>7

\* A value is set to what it is.
LEMMA SetAgain ==
    \A m, w, e : [[manifest |-> m, module |-> w, enabled |-> e] EXCEPT !.enabled = e]
                   = [manifest |-> m, module |-> w, enabled |-> e]
  OBVIOUS

LEMMA LoadOneLoads ==
    ASSUME NEW m \in Manifests \cup {None}, NEW w
    PROVE  /\ LoadOne(m, w) \in Loaded \cup {None}
           /\ AsLoaded(LoadOne(m, w)) = LoadOne(m, w)
  <1>1. CASE ~Accepted(m, w)
    BY <1>1 DEF LoadOne, AsLoaded
  <1>2. CASE Accepted(m, w)
    <2>1. m \in Manifests /\ m.enabled \in BOOLEAN
      BY <1>2, ManifestFields DEF Accepted
    <2>2. CASE ~m.enabled
      <3>1. Dormant(m) \in Loaded /\ Dormant(m) # None
        BY <2>1, NoneIsNothing DEF Dormant, Loaded
      <3>2. [Dormant(m) EXCEPT !.enabled = Dormant(m).manifest.enabled] = Dormant(m)
        <4>1. Dormant(m).manifest.enabled = FALSE
          BY <2>1, <2>2 DEF Dormant
        <4>2. [Dormant(m) EXCEPT !.enabled = FALSE] = Dormant(m)
          BY SetAgain, Zenon DEF Dormant
        <4> QED
          BY <4>1, <4>2
      <3> QED
        BY <1>2, <2>2, <3>1, <3>2 DEF LoadOne, AsLoaded
    <2>3. CASE m.enabled
      <3>1. CASE w \in Compiles
        <4>1. Live(m, w) \in Loaded /\ Live(m, w) # None
          BY <2>1, <3>1, NoneIsNothing DEF Live, Loaded
        <4>2. [Live(m, w) EXCEPT !.enabled = Live(m, w).manifest.enabled] = Live(m, w)
          <5>1. Live(m, w).manifest.enabled = TRUE
            BY <2>1, <2>3 DEF Live
          <5>2. [Live(m, w) EXCEPT !.enabled = TRUE] = Live(m, w)
            BY SetAgain, Zenon DEF Live
          <5> QED
            BY <5>1, <5>2
        <4> QED
          BY <1>2, <2>3, <3>1, <4>1, <4>2 DEF LoadOne, AsLoaded
      <3>2. CASE w \notin Compiles
        BY <1>2, <2>3, <3>2 DEF LoadOne, AsLoaded
      <3> QED
        BY <3>1, <3>2
    <2> QED
      BY <2>1, <2>2, <2>3
  <1> QED
    BY <1>1, <1>2

\* The kinds of jobs.
ScanJob == [at : {"scan"}, todo : SUBSET PluginNames,
            next : [PluginNames -> Loaded \cup {None}], missed : SUBSET PluginNames]
EntryJob == [at : {"entry"}, todo : SUBSET PluginNames,
             next : [PluginNames -> Loaded \cup {None}], missed : SUBSET PluginNames,
             plugin : PluginNames, manifest : Manifests]
RoutedJob == [at : {"routed"}, plugin : PluginNames, method : Methods]
RunJob == [at : {"run"}, plugin : PluginNames, method : Methods, by : Loaded]

LEMMA JobKinds ==
    /\ Job = {NoJob} \cup ScanJob \cup EntryJob \cup RoutedJob \cup RunJob
    /\ NoJob.at = "idle"
    /\ \A j \in ScanJob :
         /\ j.at = "scan" /\ j.todo \subseteq PluginNames /\ j.missed \subseteq PluginNames
         /\ j.next \in [PluginNames -> Loaded \cup {None}]
         /\ j = Scan(j.todo, j.next, j.missed)
    /\ \A j \in EntryJob :
         /\ j.at = "entry" /\ j.todo \subseteq PluginNames /\ j.missed \subseteq PluginNames
         /\ j.next \in [PluginNames -> Loaded \cup {None}]
         /\ j.plugin \in PluginNames /\ j.manifest \in Manifests
         /\ j = Entry(Scan(j.todo, j.next, j.missed), j.plugin, j.manifest)
    /\ \A j \in RoutedJob : j.at = "routed" /\ j.plugin \in PluginNames /\ j.method \in Methods
    /\ \A j \in RunJob : j.at = "run" /\ j.by \in Loaded
  <1>1. Job = {NoJob} \cup ScanJob \cup EntryJob \cup RoutedJob \cup RunJob
    BY DEF Job, ScanJob, EntryJob, RoutedJob, RunJob
  <1>2. NoJob.at = "idle"
    BY DEF NoJob
  <1>3. ASSUME NEW j \in ScanJob
        PROVE  /\ j.at = "scan" /\ j.todo \subseteq PluginNames /\ j.missed \subseteq PluginNames
               /\ j.next \in [PluginNames -> Loaded \cup {None}]
               /\ j = Scan(j.todo, j.next, j.missed)
    BY DEF ScanJob, Scan
  <1>4. ASSUME NEW j \in EntryJob
        PROVE  /\ j.at = "entry" /\ j.todo \subseteq PluginNames /\ j.missed \subseteq PluginNames
               /\ j.next \in [PluginNames -> Loaded \cup {None}]
               /\ j.plugin \in PluginNames /\ j.manifest \in Manifests
               /\ j = Entry(Scan(j.todo, j.next, j.missed), j.plugin, j.manifest)
    BY DEF EntryJob, Scan, Entry
  <1>5. \A j \in RoutedJob : j.at = "routed" /\ j.plugin \in PluginNames /\ j.method \in Methods
    BY DEF RoutedJob
  <1>6. \A j \in RunJob : j.at = "run" /\ j.by \in Loaded
    BY DEF RunJob
  <1> QED
    BY <1>1, <1>2, <1>3, <1>4, <1>5, <1>6

\* A job is of the kind that its stage says.
LEMMA JobOfStage ==
    ASSUME NEW j \in Job
    PROVE  /\ j.at = "scan" => j \in ScanJob
           /\ j.at = "entry" => j \in EntryJob
           /\ j.at = "routed" => j \in RoutedJob
           /\ j.at = "run" => j \in RunJob
  BY JobKinds

LEMMA ScanIs ==
    \A todo, next, missed : LET j == Scan(todo, next, missed) IN
        /\ j.at = "scan" /\ j.todo = todo /\ j.next = next /\ j.missed = missed
        /\ todo \subseteq PluginNames /\ missed \subseteq PluginNames
             /\ next \in [PluginNames -> Loaded \cup {None}] => j \in Job
  <1>1. \A todo, next, missed : LET j == Scan(todo, next, missed) IN
          j.at = "scan" /\ j.todo = todo /\ j.next = next /\ j.missed = missed
    BY DEF Scan
  <1>2. \A todo \in SUBSET PluginNames, next \in [PluginNames -> Loaded \cup {None}],
           missed \in SUBSET PluginNames : Scan(todo, next, missed) \in ScanJob
    BY DEF Scan, ScanJob
  <1> QED
    BY <1>1, <1>2, JobKinds

LEMMA EntryIs ==
    \A scan, p, m : LET j == Entry(scan, p, m) IN
        /\ j.at = "entry" /\ j.todo = scan.todo /\ j.next = scan.next /\ j.missed = scan.missed
        /\ j.plugin = p /\ j.manifest = m
        /\ scan \in ScanJob /\ p \in PluginNames /\ m \in Manifests => j \in Job
  <1>1. \A scan, p, m : LET j == Entry(scan, p, m) IN
          /\ j.at = "entry" /\ j.todo = scan.todo /\ j.next = scan.next /\ j.missed = scan.missed
          /\ j.plugin = p /\ j.manifest = m
    BY DEF Entry
  <1>2. \A scan \in ScanJob, p \in PluginNames, m \in Manifests : Entry(scan, p, m) \in EntryJob
    BY JobKinds DEF Entry, EntryJob
  <1> QED
    BY <1>1, <1>2, JobKinds

\* A reload that takes note of a change of files.
Noted(j, p) == [j EXCEPT !.missed = @ \cup {p}]

LEMMA TakesNote ==
    ASSUME NEW j \in Job, j.at \in Reading, NEW p \in PluginNames
    PROVE  /\ Noted(j, p) \in Job /\ Noted(j, p).at = j.at
           /\ Noted(j, p).todo = j.todo /\ Noted(j, p).next = j.next
           /\ Noted(j, p).missed = j.missed \cup {p}
           /\ j.at = "entry" =>
                Noted(j, p).plugin = j.plugin /\ Noted(j, p).manifest = j.manifest
  <1>1. CASE j.at = "scan"
    <2>1. j \in ScanJob
      BY <1>1, JobOfStage
    <2>2. j = Scan(j.todo, j.next, j.missed) /\ j.todo \subseteq PluginNames
          /\ j.missed \subseteq PluginNames /\ j.next \in [PluginNames -> Loaded \cup {None}]
      BY <2>1, JobKinds
    <2>3. PICK k : k = Scan(j.todo, j.next, j.missed \cup {p})
      OBVIOUS
    <2>4. Noted(j, p) = k
      BY SMTT(30), <2>2, <2>3 DEF Scan, Noted
    <2>5. k \in Job /\ k.at = "scan" /\ k.todo = j.todo /\ k.next = j.next
          /\ k.missed = j.missed \cup {p}
      BY <2>2, <2>3, ScanIs
    <2> QED
      BY <1>1, <2>4, <2>5
  <1>2. CASE j.at = "entry"
    <2>1. j \in EntryJob
      BY <1>2, JobOfStage
    <2>2. /\ j = Entry(Scan(j.todo, j.next, j.missed), j.plugin, j.manifest)
          /\ j.todo \subseteq PluginNames /\ j.missed \subseteq PluginNames
          /\ j.next \in [PluginNames -> Loaded \cup {None}]
          /\ j.plugin \in PluginNames /\ j.manifest \in Manifests
      BY <2>1, JobKinds
    <2>3. PICK k : k = [at |-> "entry", todo |-> j.todo, next |-> j.next,
                       missed |-> j.missed \cup {p}, plugin |-> j.plugin, manifest |-> j.manifest]
      OBVIOUS
    <2>4. Noted(j, p) = k
      BY SMTT(30), <2>2, <2>3 DEF Entry, Scan, Noted
    <2>5. k \in EntryJob
      BY <2>2, <2>3 DEF EntryJob
    <2>6. k.at = "entry" /\ k.todo = j.todo /\ k.next = j.next /\ k.missed = j.missed \cup {p}
          /\ k.plugin = j.plugin /\ k.manifest = j.manifest
      BY <2>3
    <2> QED
      BY <1>2, <2>4, <2>5, <2>6, JobKinds
  <1> QED
    BY <1>1, <1>2 DEF Reading

\* Files are written: whatever was read of the plugin may be old.
LEMMA WriteStep ==
    ASSUME PluginsInv, NEW p \in PluginNames, FilesChanged(p),
           manifests' \in [PluginNames -> Manifests \cup {None}],
           wasm' \in [PluginNames -> Modules \cup {None}],
           \A q \in PluginNames \ {p} : manifests'[q] = manifests[q] /\ wasm'[q] = wasm[q]
    PROVE  PluginsInv'
  <1> USE DEF PluginsInv
  <1>1. /\ outdated' = outdated \cup {p} /\ loaded' = loaded /\ slipped' = slipped
        /\ job' = [r \in Requests |-> IF job[r].at \in Reading
                                     THEN Noted(job[r], p) ELSE job[r]]
    BY DEF FilesChanged, Reading, Noted
  <1>2. \A q \in PluginNames \ {p} : OnDisk(q)' = OnDisk(q)
    BY DEF OnDisk
  <1>3. \A r \in Requests : job[r] \in Job
    BY DEF PluginsTypeOK
  <1>4. ASSUME NEW r \in Requests, job[r].at \in Reading
        PROVE  \E k \in Job : job'[r] = k /\ k.at = job[r].at /\ AsRead(k)'
    <2>1. PICK k \in Job : /\ k = Noted(job[r], p)
                           /\ k.at = job[r].at /\ k.todo = job[r].todo /\ k.next = job[r].next
                           /\ k.missed = job[r].missed \cup {p}
                           /\ job[r].at = "entry" =>
                                k.plugin = job[r].plugin /\ k.manifest = job[r].manifest
      BY <1>3, <1>4, TakesNote
    <2>2. job'[r] = k
      BY <1>1, <1>4, <2>1
    <2>3. AsRead(job[r])
      BY <1>4 DEF ReloadsReadTheDisk
    <2>4. ASSUME NEW q \in PluginNames \ k.missed
          PROVE  k.next[q] = IF q \in k.todo \/ (k.at = "entry" /\ q = k.plugin) THEN None
                             ELSE OnDisk(q)'
      <3>1. q # p /\ q \in PluginNames \ job[r].missed
        BY <2>1
      <3>2. OnDisk(q)' = OnDisk(q)
        BY <1>2, <3>1
      <3> QED
        BY <2>1, <2>3, <3>1, <3>2 DEF AsRead
    <2>5. k.at = "entry" => /\ k.plugin \notin k.todo /\ k.manifest.enabled
                            /\ k.plugin \notin k.missed => k.manifest = manifests'[k.plugin]
      <3> SUFFICES ASSUME k.at = "entry"
                   PROVE  /\ k.plugin \notin k.todo /\ k.manifest.enabled
                          /\ k.plugin \notin k.missed => k.manifest = manifests'[k.plugin]
        OBVIOUS
      <3>1. k.plugin \in PluginNames
        BY JobOfStage, JobKinds
      <3> QED
        BY <2>1, <2>3, <3>1 DEF AsRead
    <2>6. AsRead(k)'
      BY <2>4, <2>5 DEF AsRead
    <2> QED
      BY <2>1, <2>2, <2>6
  <1>5. \A r \in Requests : job[r].at \notin Reading => job'[r] = job[r]
    BY <1>1
  <1>6. \A r \in Requests : job'[r] \in Job /\ job'[r].at = job[r].at
    BY <1>3, <1>4, <1>5
  <1>7. PluginsTypeOK'
    <2>1. job' \in [Requests -> Job]
      BY <1>1, <1>6
    <2> QED
      BY <1>1, <2>1 DEF PluginsTypeOK
  <1>8. ReloadsReadTheDisk'
    BY <1>4, <1>6 DEF ReloadsReadTheDisk, AsRead, OnDisk
  <1>9. LoadedIsOnDisk'
    BY <1>1, <1>2 DEF LoadedIsOnDisk, OnDisk
  <1>10. RoutedAsDeclared' /\ MethodsAreDeclared'
    <2>1. "routed" \notin Reading /\ "run" \notin Reading
      BY DEF Reading
    <2>2. \A r \in Requests : job'[r].at \in {"routed", "run"} => job'[r] = job[r]
      BY <1>5, <1>6, <2>1
    <2>3. RoutedAsDeclared'
      BY <1>1, <2>2 DEF RoutedAsDeclared, Refused
    <2>4. MethodsAreDeclared'
      BY <1>1, <2>2 DEF MethodsAreDeclared
    <2> QED
      BY <2>3, <2>4
  <1> QED
    BY <1>7, <1>8, <1>9, <1>10

\* A handler goes on, and what is loaded stays.
LEMMA JobStep ==
    ASSUME PluginsInv, NEW r \in Requests, NEW j \in Job, job' = [job EXCEPT ![r] = j],
           manifests' = manifests, wasm' = wasm, loaded' = loaded, outdated' = outdated,
           slipped' = slipped \/ slipped' = slipped \ {r},
           j.at \in Reading => AsRead(j),
           r \notin slipped' /\ j.at = "routed" => ~Refused(j.plugin, j.method),
           r \notin slipped' /\ j.at = "run" =>
               j.by.manifest.methods = {} \/ j.method \in j.by.manifest.methods
    PROVE  PluginsInv'
  <1> USE DEF PluginsInv
  <1>1. \A q \in Requests : job'[q] = IF q = r THEN j ELSE job[q]
    BY DEF PluginsTypeOK
  <1>2. PluginsTypeOK'
    BY DEF PluginsTypeOK
  <1>3. ReloadsReadTheDisk'
    BY <1>1 DEF ReloadsReadTheDisk, AsRead, OnDisk
  <1>4. LoadedIsOnDisk'
    BY DEF LoadedIsOnDisk
  <1>5. RoutedAsDeclared'
    BY <1>1 DEF RoutedAsDeclared, Refused
  <1>6. MethodsAreDeclared'
    BY <1>1 DEF MethodsAreDeclared
  <1> QED
    BY <1>2, <1>3, <1>4, <1>5, <1>6

LEMMA ReadManifestStep ==
    ASSUME PluginsInv, NEW r \in Requests, ReadManifest(r)
    PROVE  PluginsInv'
  <1>1. PICK p \in PluginNames :
          /\ job[r].at = "scan" /\ p \in job[r].todo
          /\ job' = [job EXCEPT ![r] =
                IF ~Accepted(manifests[p], wasm[p]) THEN [job[r] EXCEPT !.todo = @ \ {p}]
                ELSE IF manifests[p].enabled
                THEN Entry([job[r] EXCEPT !.todo = @ \ {p}], p, manifests[p])
                ELSE Keep([job[r] EXCEPT !.todo = @ \ {p}], p, Dormant(manifests[p]))]
          /\ UNCHANGED <<Files, loaded, outdated, slipped>>
    BY DEF ReadManifest
  <1>2. PICK i : i = job[r]
    OBVIOUS
  <1>3. /\ i \in ScanJob /\ i = Scan(i.todo, i.next, i.missed) /\ i.at = "scan"
        /\ i.todo \subseteq PluginNames /\ i.missed \subseteq PluginNames
        /\ i.next \in [PluginNames -> Loaded \cup {None}] /\ AsRead(i)
    <2>1. i \in ScanJob /\ AsRead(i)
      BY <1>1, <1>2, JobOfStage DEF PluginsInv, PluginsTypeOK, ReloadsReadTheDisk, Reading
    <2> QED
      BY <2>1, JobKinds
  <1>4. PICK s : s = [i EXCEPT !.todo = @ \ {p}]
    OBVIOUS
  <1>5. s = Scan(i.todo \ {p}, i.next, i.missed)
    BY <1>3, <1>4 DEF Scan
  <1>6. /\ s.at = "scan" /\ s.todo = i.todo \ {p} /\ s.next = i.next /\ s.missed = i.missed
        /\ s \in Job /\ s \in ScanJob
    BY <1>3, <1>5, ScanIs, JobOfStage
  <1>7. manifests[p] \in Manifests \cup {None}
    BY DEF PluginsInv, PluginsTypeOK
  <1>8. \A q \in PluginNames \ i.missed : i.next[q] = IF q \in i.todo THEN None ELSE OnDisk(q)
    BY <1>3 DEF AsRead
  <1>9. CASE ~Accepted(manifests[p], wasm[p])
    <2>1. OnDisk(p) = None
      BY <1>9 DEF OnDisk, LoadOne
    <2>2. AsRead(s)
      BY <1>6, <1>8, <2>1 DEF AsRead
    <2>3. job' = [job EXCEPT ![r] = s]
      BY <1>1, <1>2, <1>4, <1>9
    <2> QED
      BY <1>1, <1>6, <2>2, <2>3, JobStep DEF Files
  <1>10. CASE Accepted(manifests[p], wasm[p]) /\ manifests[p].enabled
    <2>1. manifests[p] \in Manifests
      BY <1>7, <1>10 DEF Accepted
    <2>2. PICK j : j = Entry(s, p, manifests[p])
      OBVIOUS
    <2>3. /\ j.at = "entry" /\ j.todo = s.todo /\ j.next = s.next /\ j.missed = s.missed
          /\ j.plugin = p /\ j.manifest = manifests[p] /\ j \in Job
      BY <1>6, <2>1, <2>2, EntryIs
    <2>4. AsRead(j)
      <3>1. \A q \in PluginNames \ j.missed :
              j.next[q] = IF q \in j.todo \/ q = p THEN None ELSE OnDisk(q)
        BY <1>1, <1>2, <1>6, <1>8, <2>3
      <3>2. p \notin j.todo
        BY <1>6, <2>3
      <3> QED
        BY <1>10, <2>3, <3>1, <3>2 DEF AsRead
    <2>5. job' = [job EXCEPT ![r] = j]
      BY <1>1, <1>2, <1>4, <1>10, <2>2
    <2> QED
      BY <1>1, <2>3, <2>4, <2>5, JobStep DEF Files
  <1>11. CASE Accepted(manifests[p], wasm[p]) /\ ~manifests[p].enabled
    <2>1. OnDisk(p) = Dormant(manifests[p]) /\ Dormant(manifests[p]) \in Loaded \cup {None}
      BY <1>7, <1>11, LoadOneLoads DEF OnDisk, LoadOne
    <2>2. PICK next : next = [i.next EXCEPT ![p] = Dormant(manifests[p])]
      OBVIOUS
    <2>3. next \in [PluginNames -> Loaded \cup {None}]
          /\ \A q \in PluginNames : next[q] = IF q = p THEN OnDisk(p) ELSE i.next[q]
      BY <1>3, <2>1, <2>2
    <2>4. PICK j : j = Scan(s.todo, next, s.missed)
      OBVIOUS
    <2>5. j.at = "scan" /\ j.todo = s.todo /\ j.next = next /\ j.missed = s.missed /\ j \in Job
      BY <1>3, <1>6, <2>3, <2>4, ScanIs
    <2>6. AsRead(j)
      BY <1>6, <1>8, <2>3, <2>5 DEF AsRead
    <2>7. job' = [job EXCEPT ![r] = j]
      BY <1>1, <1>2, <1>4, <1>6, <1>11, <2>2, <2>4 DEF Keep
    <2> QED
      BY <1>1, <2>5, <2>6, <2>7, JobStep DEF Files
  <1> QED
    BY <1>9, <1>10, <1>11

LEMMA ReadEntryStep ==
    ASSUME PluginsInv, NEW r \in Requests, ReadEntry(r)
    PROVE  PluginsInv'
  <1>1. PICK i : i = job[r]
    OBVIOUS
  <1>2. /\ i.at = "entry"
        /\ job' = [job EXCEPT ![r] =
              IF wasm[i.plugin] \in Compiles
              THEN Keep(i, i.plugin, Live(i.manifest, wasm[i.plugin]))
              ELSE Scan(i.todo, i.next, i.missed)]
        /\ UNCHANGED <<Files, loaded, outdated, slipped>>
    BY <1>1 DEF ReadEntry
  <1>3. /\ i.todo \subseteq PluginNames /\ i.missed \subseteq PluginNames
        /\ i.next \in [PluginNames -> Loaded \cup {None}]
        /\ i.plugin \in PluginNames /\ i.manifest \in Manifests /\ AsRead(i)
    <2>1. i \in EntryJob /\ AsRead(i)
      BY <1>1, <1>2, JobOfStage DEF PluginsInv, PluginsTypeOK, ReloadsReadTheDisk, Reading
    <2> QED
      BY <2>1, JobKinds
  <1>4. PICK l : l = IF wasm[i.plugin] \in Compiles THEN Live(i.manifest, wasm[i.plugin]) ELSE None
    OBVIOUS
  <1>5. l \in Loaded \cup {None}
    BY <1>3, <1>4, NoneIsNothing DEF Live, Loaded
  <1>6. i.plugin \notin i.missed => l = OnDisk(i.plugin) /\ i.next[i.plugin] = None
    <2> SUFFICES ASSUME i.plugin \notin i.missed
                 PROVE  l = OnDisk(i.plugin) /\ i.next[i.plugin] = None
      OBVIOUS
    <2>1. i.manifest = manifests[i.plugin] /\ i.manifest.enabled /\ i.next[i.plugin] = None
      BY <1>2, <1>3 DEF AsRead
    <2>2. i.manifest # None
      BY <1>3, NoneIsNothing
    <2> QED
      BY <1>4, <2>1, <2>2, NoneIsNothing DEF OnDisk, LoadOne, Accepted
  <1>7. PICK next : /\ next \in [PluginNames -> Loaded \cup {None}]
                    /\ \A q \in PluginNames \ i.missed :
                          next[q] = IF q \in i.todo THEN None ELSE OnDisk(q)
                    /\ job' = [job EXCEPT ![r] = Scan(i.todo, next, i.missed)]
    <2>1. \A q \in PluginNames \ i.missed :
            i.next[q] = IF q \in i.todo \/ q = i.plugin THEN None ELSE OnDisk(q)
      BY <1>2, <1>3 DEF AsRead
    <2>2. i.plugin \notin i.todo
      BY <1>2, <1>3 DEF AsRead
    <2>3. CASE wasm[i.plugin] \in Compiles
      <3>1. PICK next : next = [i.next EXCEPT ![i.plugin] = l]
        OBVIOUS
      <3>2. /\ next \in [PluginNames -> Loaded \cup {None}]
            /\ \A q \in PluginNames : next[q] = IF q = i.plugin THEN l ELSE i.next[q]
        BY <1>3, <1>5, <3>1
      <3>3. job' = [job EXCEPT ![r] = Scan(i.todo, next, i.missed)]
        BY <1>2, <1>4, <2>3, <3>1 DEF Keep
      <3>4. \A q \in PluginNames \ i.missed :
              next[q] = IF q \in i.todo THEN None ELSE OnDisk(q)
        BY <1>6, <2>1, <2>2, <3>2
      <3> QED
        BY <3>2, <3>3, <3>4
    <2>4. CASE wasm[i.plugin] \notin Compiles
      <3>1. \A q \in PluginNames \ i.missed :
              i.next[q] = IF q \in i.todo THEN None ELSE OnDisk(q)
        BY <1>4, <1>6, <2>1, <2>2, <2>4
      <3> QED
        BY <1>2, <1>3, <2>4, <3>1
    <2> QED
      BY <2>3, <2>4
  <1>8. PICK j : j = Scan(i.todo, next, i.missed)
    OBVIOUS
  <1>9. j.at = "scan" /\ j.todo = i.todo /\ j.next = next /\ j.missed = i.missed /\ j \in Job
    BY <1>3, <1>7, <1>8, ScanIs
  <1>10. AsRead(j)
    BY <1>7, <1>9 DEF AsRead
  <1> QED
    BY <1>2, <1>7, <1>8, <1>9, <1>10, JobStep DEF Files

\* The new map: on disk is what the reload has read, and the methods of requests that
\* are on their way to a plugin may be others now.
LEMMA SwapStep ==
    ASSUME PluginsInv, NEW r \in Requests, Swap(r)
    PROVE  PluginsInv'
  <1>1. PICK i : i = job[r]
    OBVIOUS
  <1>2. /\ i.at = "scan" /\ i.todo = {} /\ loaded' = i.next /\ outdated' = i.missed
        /\ job' = [job EXCEPT ![r] = NoJob]
        /\ slipped' = slipped \cup {q \in Requests : job[q].at = "routed"}
        /\ UNCHANGED Files
    BY <1>1 DEF Swap, NewMap
  <1>3. /\ i.missed \subseteq PluginNames /\ i.next \in [PluginNames -> Loaded \cup {None}]
        /\ AsRead(i)
    <2>1. i \in ScanJob /\ AsRead(i)
      BY <1>1, <1>2, JobOfStage DEF PluginsInv, PluginsTypeOK, ReloadsReadTheDisk, Reading
    <2> QED
      BY <2>1, JobKinds
  <1>4. NoJob \in Job /\ NoJob.at = "idle" /\ NoJob.at \notin Reading
    BY JobKinds DEF Reading
  <1>5. \A q \in Requests : job'[q] = IF q = r THEN NoJob ELSE job[q]
    BY <1>2 DEF PluginsInv, PluginsTypeOK
  <1>6. PluginsTypeOK'
    BY <1>2, <1>3, <1>4 DEF PluginsInv, PluginsTypeOK, Files
  <1>7. ReloadsReadTheDisk'
    BY <1>2, <1>4, <1>5 DEF PluginsInv, ReloadsReadTheDisk, AsRead, OnDisk, Files
  <1>8. LoadedIsOnDisk'
    <2> SUFFICES ASSUME NEW p \in PluginNames \ outdated'
                 PROVE  AsLoaded(loaded'[p]) = LoadOne(manifests[p], wasm[p])
      BY <1>2 DEF LoadedIsOnDisk, Files
    <2>1. loaded'[p] = LoadOne(manifests[p], wasm[p])
      BY <1>2, <1>3 DEF AsRead, OnDisk
    <2>2. manifests[p] \in Manifests \cup {None}
      BY DEF PluginsInv, PluginsTypeOK
    <2> QED
      BY <2>1, <2>2, LoadOneLoads
  <1>9. RoutedAsDeclared'
    BY <1>2, <1>4, <1>5 DEF RoutedAsDeclared
  <1>10. MethodsAreDeclared'
    BY <1>2, <1>4, <1>5 DEF PluginsInv, MethodsAreDeclared
  <1> QED
    BY <1>6, <1>7, <1>8, <1>9, <1>10 DEF PluginsInv

LEMMA PluginsStart == PluginsInit => PluginsInv
  <1> SUFFICES ASSUME PluginsInit PROVE PluginsInv
    OBVIOUS
  <1>1. \A p \in PluginNames : /\ loaded[p] = OnDisk(p) /\ OnDisk(p) \in Loaded \cup {None}
                               /\ AsLoaded(OnDisk(p)) = OnDisk(p)
    BY LoadOneLoads DEF PluginsInit, OnDisk
  <1>2. \A r \in Requests : job[r] = NoJob
    BY DEF PluginsInit
  <1>3. NoJob.at = "idle" /\ NoJob \in Job
    BY JobKinds
  <1>4. PluginsTypeOK
    BY <1>1, <1>2, <1>3 DEF PluginsInit, PluginsTypeOK
  <1>5. LoadedIsOnDisk
    BY <1>1 DEF LoadedIsOnDisk, OnDisk
  <1> QED
    BY <1>2, <1>3, <1>4, <1>5
       DEF PluginsInv, ReloadsReadTheDisk, Reading, RoutedAsDeclared, MethodsAreDeclared

LEMMA PluginsStep == PluginsInv /\ [PluginsNext]_pluginsVars => PluginsInv'
  <1> SUFFICES ASSUME PluginsInv, [PluginsNext]_pluginsVars PROVE PluginsInv'
    OBVIOUS
  <1>a. /\ NoJob \in Job /\ NoJob.at = "idle"
        /\ "idle" \notin Reading /\ "routed" \notin Reading /\ "run" \notin Reading
    BY JobKinds DEF Reading
  <1>b. \A r \in Requests : job[r] \in Job
    BY DEF PluginsInv, PluginsTypeOK
  <1>1. ASSUME NEW r \in Requests, Reload(r) PROVE PluginsInv'
    <2>1. PICK j : j = Scan(PluginNames, NothingLoaded, {})
      OBVIOUS
    <2>2. NothingLoaded \in [PluginNames -> Loaded \cup {None}]
          /\ \A p \in PluginNames : NothingLoaded[p] = None
      BY DEF NothingLoaded
    <2>3. /\ j.at = "scan" /\ j.todo = PluginNames /\ j.next = NothingLoaded /\ j.missed = {}
          /\ j \in Job
      BY <2>1, <2>2, ScanIs
    <2>4. AsRead(j)
      BY <2>2, <2>3 DEF AsRead
    <2> QED
      BY <1>1, <2>1, <2>3, <2>4, JobStep DEF Reload, Files
  <1>2. ASSUME NEW r \in Requests, Dispatch(r) PROVE PluginsInv'
    <2>1. PICK p \in PluginNames, method \in Methods :
            ~Refused(p, method) /\ job' = [job EXCEPT ![r] = Routed(p, method)]
      BY <1>2 DEF Dispatch
    <2>2. PICK j : j = Routed(p, method)
      OBVIOUS
    <2>3. j.at = "routed" /\ j.plugin = p /\ j.method = method /\ j \in Job
      <3>1. j \in RoutedJob
        BY <2>2 DEF Routed, RoutedJob
      <3> QED
        BY <2>2, <3>1, JobKinds DEF Routed
    <2> QED
      BY <1>2, <1>a, <2>1, <2>2, <2>3, JobStep DEF Dispatch, Files
  <1>3. ASSUME NEW r \in Requests, Invoke(r) PROVE PluginsInv'
    <2>1. PICK i : i = job[r]
      OBVIOUS
    <2>2. /\ i.at = "routed" /\ i.plugin \in PluginNames /\ i.method \in Methods
          /\ r \notin slipped => ~Refused(i.plugin, i.method)
      <3>1. i.at = "routed" /\ i \in RoutedJob
        BY <1>3, <1>b, <2>1, JobOfStage DEF Invoke
      <3> QED
        BY <2>1, <3>1, JobKinds DEF PluginsInv, RoutedAsDeclared
    <2>3. CASE EndJob(r)
      BY <1>3, <1>a, <2>3, JobStep DEF Invoke, EndJob, Files
    <2>4. CASE /\ loaded[i.plugin] # None /\ slipped' = slipped
               /\ job' = [job EXCEPT ![r] = Run(i.plugin, i.method, loaded[i.plugin])]
      <3>1. PICK l \in Loaded : l = loaded[i.plugin]
        BY <2>2, <2>4 DEF PluginsInv, PluginsTypeOK
      <3>2. PICK j : j = Run(i.plugin, i.method, l)
        OBVIOUS
      <3>3. j.at = "run" /\ j.method = i.method /\ j.by = l /\ j \in Job
        <4>1. j \in RunJob
          BY <2>2, <3>2 DEF Run, RunJob
        <4> QED
          BY <3>2, <4>1, JobKinds DEF Run
      <3>4. r \notin slipped => j.by.manifest.methods = {} \/ j.method \in j.by.manifest.methods
        BY <2>2, <2>4, <3>1, <3>3 DEF Refused
      <3> QED
        BY <1>3, <1>a, <2>4, <3>1, <3>2, <3>3, <3>4, JobStep DEF Invoke, Files
    <2> QED
      BY <1>3, <2>1, <2>3, <2>4 DEF Invoke
  <1>4. ASSUME NEW r \in Requests, EndRun(r) \/ AbandonJob(r) PROVE PluginsInv'
    BY <1>4, <1>a, JobStep DEF EndRun, AbandonJob, EndJob, Files
  <1>5. CASE WriteManifest
    <2>1. PICK p \in PluginNames, m \in Manifests \cup {None} :
            manifests' = [manifests EXCEPT ![p] = m] /\ FilesChanged(p) /\ wasm' = wasm
      BY <1>5 DEF WriteManifest
    <2> QED
      BY <2>1, WriteStep DEF PluginsInv, PluginsTypeOK
  <1>6. CASE WriteEntry
    <2>1. PICK p \in PluginNames, w \in Modules \cup {None} :
            wasm' = [wasm EXCEPT ![p] = w] /\ FilesChanged(p) /\ manifests' = manifests
      BY <1>6 DEF WriteEntry
    <2> QED
      BY <2>1, WriteStep DEF PluginsInv, PluginsTypeOK
  <1>7. CASE SetEnabled
    <2>1. PICK p \in PluginNames, e \in BOOLEAN :
            /\ loaded[p] # None /\ loaded' = [loaded EXCEPT ![p].enabled = e]
            /\ UNCHANGED <<Files, job, outdated, slipped>>
      BY <1>7 DEF SetEnabled
    <2>2. PICK l \in Loaded : l = loaded[p]
      BY <2>1 DEF PluginsInv, PluginsTypeOK
    <2>3. PICK k : k = [l EXCEPT !.enabled = e]
      OBVIOUS
    <2>4. k \in Loaded /\ k.manifest = l.manifest /\ AsLoaded(k) = AsLoaded(l) /\ k # None
      BY <2>3, Switched, NoneIsNothing
    <2>5. \A q \in PluginNames : loaded'[q] = IF q = p THEN k ELSE loaded[q]
      BY <2>1, <2>2, <2>3 DEF PluginsInv, PluginsTypeOK
    <2>6. PluginsTypeOK'
      <3>1. loaded' = [loaded EXCEPT ![p] = k]
        BY <2>1, <2>2, <2>3
      <3> QED
        BY <2>1, <2>4, <3>1 DEF PluginsInv, PluginsTypeOK, Files
    <2>7. LoadedIsOnDisk'
      BY <2>1, <2>2, <2>4, <2>5 DEF PluginsInv, LoadedIsOnDisk, Files
    <2>8. ReloadsReadTheDisk' /\ MethodsAreDeclared'
      BY <2>1 DEF PluginsInv, ReloadsReadTheDisk, MethodsAreDeclared, AsRead, OnDisk, Files
    <2>9. RoutedAsDeclared'
      <3>1. ASSUME NEW q \in PluginNames, NEW method PROVE Refused(q, method)' <=> Refused(q, method)
        BY <2>2, <2>4, <2>5, NoneIsNothing DEF Refused
      <3>2. \A r \in Requests : job[r].at = "routed" => job[r].plugin \in PluginNames
        BY <1>b, JobOfStage, JobKinds
      <3> QED
        BY <2>1, <3>1, <3>2 DEF PluginsInv, RoutedAsDeclared
    <2> QED
      BY <2>6, <2>7, <2>8, <2>9 DEF PluginsInv
  <1>8. CASE PluginsRestart
    <2>1. \A p \in PluginNames : /\ OnDisk(p) \in Loaded \cup {None}
                                 /\ AsLoaded(OnDisk(p)) = OnDisk(p)
      BY LoadOneLoads DEF PluginsInv, PluginsTypeOK, OnDisk
    <2>2. /\ loaded' = [p \in PluginNames |-> OnDisk(p)] /\ manifests' = manifests
          /\ wasm' = wasm /\ outdated' = {} /\ slipped' = {}
          /\ job' = [r \in Requests |-> NoJob]
      BY <1>8 DEF PluginsRestart, OnDisk, Files
    <2>3. PluginsTypeOK'
      <3>1. loaded' \in [PluginNames -> Loaded \cup {None}]
        BY <2>1, <2>2
      <3>2. job' \in [Requests -> Job]
        BY <1>a, <2>2
      <3> QED
        BY <2>2, <3>1, <3>2 DEF PluginsInv, PluginsTypeOK
    <2>4. LoadedIsOnDisk'
      BY <2>1, <2>2 DEF LoadedIsOnDisk, OnDisk
    <2>5. ReloadsReadTheDisk'
      BY <1>a, <2>2 DEF ReloadsReadTheDisk
    <2>6. RoutedAsDeclared' /\ MethodsAreDeclared'
      BY <1>a, <2>2 DEF RoutedAsDeclared, MethodsAreDeclared
    <2> QED
      BY <2>3, <2>4, <2>5, <2>6 DEF PluginsInv
  <1>9. CASE UNCHANGED pluginsVars
    BY <1>9 DEF pluginsVars, PluginsInv, PluginsTypeOK, ReloadsReadTheDisk, AsRead, OnDisk,
                LoadedIsOnDisk, RoutedAsDeclared, Refused, MethodsAreDeclared
  <1> QED
    BY <1>1, <1>2, <1>3, <1>4, <1>5, <1>6, <1>7, <1>8, <1>9,
       ReadManifestStep, ReadEntryStep, SwapStep DEF PluginsNext, PluginsWork

LEMMA PluginsInvariant == PluginsSpec => []PluginsInv
  BY PluginsStart, PluginsStep, PTL DEF PluginsSpec

\* Every reachable state of plugin files, the registry and its jobs is well typed.
THEOREM PluginsTypesHold == PluginsSpec => []PluginsTypeOK
  <1>1. PluginsInv => PluginsTypeOK
    BY DEF PluginsInv
  <1> QED
    BY <1>1, PluginsInvariant, PTL

\* What is loaded of a plugin is what is on disk, unless its files changed since the
\* reload that loaded it had read them.
THEOREM ReloadsLoadWhatIsOnDisk == PluginsSpec => []LoadedIsOnDisk
  <1>1. PluginsInv => LoadedIsOnDisk
    BY DEF PluginsInv
  <1> QED
    BY <1>1, PluginsInvariant, PTL

\* A call runs only with a method that the manifest of the plugin that runs declares,
\* unless plugins were reloaded between the lookup and the call.
THEOREM OnlyDeclaredMethodsRun == PluginsSpec => []MethodsAreDeclared
  <1>1. PluginsInv => MethodsAreDeclared
    BY DEF PluginsInv
  <1> QED
    BY <1>1, PluginsInvariant, PTL

-----------------------------------------------------------------------------
(* GuestMemory. Every value that was handed over lies in pages that were added,
   below the end of the memory (Placed), which is where the next one begins, so
   that no two of them meet (Apart). The packed word gives back its two halves,
   by the uniqueness of quotient and remainder. *)

\* Quotient and remainder, for every base.
LEMMA DivMod ==
    ASSUME NEW a \in Int, NEW b \in Nat \ {0}
    PROVE  /\ a \div b \in Int /\ a % b \in 0..(b - 1)
           /\ a = b * (a \div b) + (a % b)
  OBVIOUS

\* They are the only ones.
LEMMA DivModUnique ==
    ASSUME NEW b \in Nat \ {0}, NEW q \in Int, NEW x \in 0..(b - 1), NEW a \in Int, a = b * q + x
    PROVE  a \div b = q /\ a % b = x
  <1>1. /\ a \div b \in Int /\ a % b \in 0..(b - 1)
        /\ a = b * (a \div b) + (a % b)
    BY DivMod
  <1> DEFINE d == a \div b
             m == a % b
  <1>2. d \in Int /\ m \in 0..(b - 1) /\ a = b * d + m
    BY <1>1
  <1> HIDE DEF d, m
  <1>3. b * (d - q) = x - m
    BY <1>2
  <1>4. d - q = 0
    <2>1. CASE d - q >= 1
      <3>1. b * (d - q) >= b
        BY <1>2, <2>1
      <3> QED
        BY <1>2, <1>3, <3>1
    <2>2. CASE d - q <= -1
      <3>1. b * (d - q) <= -b
        BY <1>2, <2>2
      <3> QED
        BY <1>2, <1>3, <3>1
    <2> QED
      BY <1>2, <2>1, <2>2
  <1>5. d = q /\ m = x
    BY <1>2, <1>3, <1>4
  <1> QED
    BY <1>5 DEF d, m

\* The bounds are numbers.
LEMMA GuestBounds ==
    /\ PageSize \in Nat /\ PageSize > 0 /\ Word \in Nat /\ Word > 0
    /\ OwnPages \in Nat /\ OwnPages > 0 /\ MaxPages \in Nat
    /\ MaxPages * PageSize \in Nat /\ MaxPages * PageSize <= Word
    /\ \A n \in Lengths : n \in Nat
  BY GuestMemoryAssumption

\* unpack gives back what pack was given, where the integer has its sign bit set too.
LEMMA PackUnpack ==
    ASSUME NEW ptr \in 0..(Word - 1), NEW len \in 0..(Word - 1)
    PROVE  /\ Pack(ptr, len) \in Int
           /\ PointerOf(Pack(ptr, len)) = ptr /\ LengthOf(Pack(ptr, len)) = len
  <1> DEFINE u == ptr * Word + len
             packed == Pack(ptr, len)
             square == Word * Word
  <1>1. Word \in Nat \ {0} /\ square \in Nat \ {0}
    BY GuestBounds
  <1>2. u \in 0..(square - 1)
    <2>1. ptr * Word <= (Word - 1) * Word
      BY <1>1
    <2>2. (Word - 1) * Word = square - Word
      BY <1>1
    <2> QED
      BY <1>1, <2>1, <2>2
  <1>3. PICK q \in {0, -1} : packed = square * q + u
    BY <1>1, <1>2 DEF Pack
  <1>4. packed \in Int
    BY <1>1, <1>2, <1>3
  <1>5. packed % square = u
    <2> HIDE DEF packed, u, square
    <2> QED
      BY <1>1, <1>2, <1>3, <1>4, DivModUnique
  <1>6. u \div Word = ptr
    <2>1. u = Word * ptr + len /\ u \in Int
      BY <1>1
    <2> HIDE DEF u
    <2> QED
      BY <1>1, <2>1, DivModUnique
  <1>7. packed % Word = len
    <2>1. PICK z \in Int : packed = Word * z + len
      <3>1. square * q = Word * (Word * q)
        BY <1>1
      <3>2. packed = Word * (Word * q + ptr) + len /\ Word * q + ptr \in Int
        BY <1>1, <1>3, <3>1
      <3> QED
        BY <3>2
    <2> HIDE DEF packed
    <2> QED
      BY <1>1, <1>4, <2>1, DivModUnique
  <1> QED
    BY <1>4, <1>5, <1>6, <1>7 DEF PointerOf, LengthOf

\* The pages that are added hold the value.
LEMMA PagesHold ==
    ASSUME NEW len \in Nat
    PROVE  PagesFor(len) \in Nat /\ len <= PagesFor(len) * PageSize
  <1> DEFINE a == len + PageSize - 1
             d == a \div PageSize
  <1>1. a \in Nat /\ PageSize \in Nat \ {0}
    BY GuestBounds
  <1>2. d \in Int /\ a % PageSize \in 0..(PageSize - 1) /\ a = PageSize * d + (a % PageSize)
    BY <1>1, DivMod
  <1>3. PICK m \in 0..(PageSize - 1) : a = PageSize * d + m
    BY <1>2
  <1>4. d >= 0
    <2>1. CASE d <= -1
      <3>1. PageSize * d <= -PageSize
        BY <1>1, <1>2, <2>1
      <3> QED
        BY <1>1, <1>3, <3>1
    <2> QED
      BY <1>2, <2>1
  <1>5. len <= PageSize * d
    BY <1>1, <1>2, <1>3
  <1>6. PageSize * d = d * PageSize
    BY <1>1, <1>2
  <1> QED
    BY <1>2, <1>4, <1>5, <1>6 DEF PagesFor
-----------------------------------------------------------------------------
Handing == [packed : Int, value : Value]
Instance == [at : {"run"}, plugin : Guests, pages : OwnPages..MaxPages, handed : SUBSET Handing]

\* What was handed over lies in pages that were added, and before the end of them.
Placed(h, pages) ==
    /\ LengthOf(h.packed) = h.value.len /\ PointerOf(h.packed) \in Nat
    /\ OwnPages * PageSize <= PointerOf(h.packed)
    /\ PointerOf(h.packed) + LengthOf(h.packed) <= pages * PageSize

\* One of the two ends before the other begins.
Apart(g, h) ==
    \/ PointerOf(g.packed) + LengthOf(g.packed) <= PointerOf(h.packed)
    \/ PointerOf(h.packed) + LengthOf(h.packed) <= PointerOf(g.packed)

InstanceOK(i) ==
    \A h \in i.handed : /\ Placed(h, i.pages) /\ h.value.by = i.plugin
                        /\ \A g \in i.handed \ {h} : Apart(g, h)

GuestInv ==
    /\ values \in [Guests \X KvKeys -> Value \cup {None}]
    /\ \A p \in Guests, k \in KvKeys : values[<<p, k>>] # None => values[<<p, k>>].by = p
    /\ guest \in [Requests -> Instance \cup {NotRunning}]
    /\ \A r \in Requests : guest[r] # NotRunning => InstanceOK(guest[r])

LEMMA InstanceFields ==
    ASSUME NEW i \in Instance
    PROVE  /\ i # NotRunning /\ i.plugin \in Guests /\ i.pages \in OwnPages..MaxPages
           /\ i.handed \subseteq Handing
           /\ i = [at |-> "run", plugin |-> i.plugin, pages |-> i.pages, handed |-> i.handed]
  BY DEF Instance, NotRunning

\* A new value is handed over behind all pages that there are.
LEMMA HandedOver ==
    ASSUME NEW i \in Instance, InstanceOK(i), NEW v \in Value, v.by = i.plugin, v.len > 0,
           i.pages + PagesFor(v.len) <= MaxPages
    PROVE  Copied(i, v) \in Instance /\ InstanceOK(Copied(i, v))
  <1> DEFINE base == i.pages * PageSize
             pages == i.pages + PagesFor(v.len)
             packed == Pack(base, v.len)
             new == Handed(packed, v)
             handed == i.handed \cup {new}
             j == [at |-> "run", plugin |-> i.plugin, pages |-> pages, handed |-> handed]
  <1>1. /\ i.plugin \in Guests /\ i.pages \in OwnPages..MaxPages /\ i.handed \subseteq Handing
        /\ i = [at |-> "run", plugin |-> i.plugin, pages |-> i.pages, handed |-> i.handed]
    BY InstanceFields
  <1>2. v.len \in Lengths /\ v.len \in Nat
    BY GuestBounds DEF Value
  <1>3. /\ PagesFor(v.len) \in Nat /\ v.len <= PagesFor(v.len) * PageSize
        /\ pages \in OwnPages..MaxPages /\ i.pages \in Nat
    BY <1>1, <1>2, PagesHold, GuestBounds
  <1>4. /\ base \in Nat /\ OwnPages * PageSize <= base
        /\ pages * PageSize \in Nat /\ base + v.len <= pages * PageSize
        /\ pages * PageSize <= Word
    <2>1. PICK n \in Nat : n = PagesFor(v.len)
      BY <1>3
    <2>2. OwnPages * PageSize <= i.pages * PageSize
      BY <1>1, GuestBounds
    <2>3. (i.pages + n) * PageSize = i.pages * PageSize + n * PageSize
      BY <1>3, <2>1, GuestBounds
    <2>4. pages * PageSize <= MaxPages * PageSize
      BY <1>3, GuestBounds
    <2> QED
      BY <1>2, <1>3, <2>1, <2>2, <2>3, <2>4, GuestBounds
  <1>5. base \in 0..(Word - 1) /\ v.len \in 0..(Word - 1)
    BY <1>2, <1>4, GuestBounds
  <1>6. packed \in Int /\ PointerOf(packed) = base /\ LengthOf(packed) = v.len
    BY <1>5, PackUnpack
  <1>7. new \in Handing /\ new.packed = packed /\ new.value = v
    BY <1>6 DEF Handed, Handing
  <1>8. Placed(new, pages)
    BY <1>2, <1>4, <1>6, <1>7 DEF Placed
  <1>9. ASSUME NEW h \in i.handed PROVE Placed(h, pages) /\ Apart(h, new) /\ Apart(new, h)
    <2>1. /\ Placed(h, i.pages) /\ LengthOf(h.packed) \in Nat
      <3>1. h.value.len \in Nat
        BY <1>1, GuestBounds DEF Handing, Value
      <3> QED
        BY <3>1 DEF InstanceOK, Placed
    <2>2. PointerOf(h.packed) + LengthOf(h.packed) <= base /\ base <= pages * PageSize
      BY <1>2, <1>4, <2>1 DEF Placed
    <2> QED
      BY <1>2, <1>4, <1>6, <1>7, <2>1, <2>2 DEF Placed, Apart
  <1>10. [i EXCEPT !.pages = pages] =
           [at |-> "run", plugin |-> i.plugin, pages |-> pages, handed |-> i.handed]
    BY <1>1
  <1>11. [[at |-> "run", plugin |-> i.plugin, pages |-> pages, handed |-> i.handed]
            EXCEPT !.handed = handed] = j
    OBVIOUS
  <1>12. Copied(i, v) = j
    BY <1>10, <1>11 DEF Copied
  <1>13. j \in Instance
    BY <1>1, <1>3, <1>7 DEF Instance
  <1>14. j.handed = handed /\ j.pages = pages /\ j.plugin = i.plugin
    OBVIOUS
  <1> HIDE DEF j, new, pages, packed, base
  <1>15. InstanceOK(j)
    BY <1>7, <1>8, <1>9, <1>14 DEF InstanceOK
  <1> QED
    BY <1>12, <1>13, <1>15 DEF j, new, pages, packed, base

LEMMA GuestStart == GuestInit => GuestInv
  BY DEF GuestInit, GuestInv

LEMMA GuestStep == GuestInv /\ [GuestNext]_guestVars => GuestInv'
  <1> SUFFICES ASSUME GuestInv, [GuestNext]_guestVars PROVE GuestInv'
    OBVIOUS
  <1>1. ASSUME NEW r \in Requests, StartGuest(r) PROVE GuestInv'
    <2>1. PICK p \in Guests :
            /\ guest' = [guest EXCEPT ![r] = [at |-> "run", plugin |-> p, pages |-> OwnPages,
                                             handed |-> {}]]
            /\ values' = values
      BY <1>1 DEF StartGuest
    <2>2. PICK i : i = [at |-> "run", plugin |-> p, pages |-> OwnPages, handed |-> {}]
      OBVIOUS
    <2>3. i \in Instance /\ InstanceOK(i)
      <3>1. OwnPages \in OwnPages..MaxPages
        BY GuestMemoryAssumption
      <3> QED
        BY <2>2, <3>1 DEF Instance, InstanceOK
    <2> QED
      BY <2>1, <2>2, <2>3 DEF GuestInv
  <1>2. ASSUME NEW r \in Requests, KvSet(r) PROVE GuestInv'
    <2>1. PICK k \in KvKeys, n \in Lengths :
            values' = [values EXCEPT ![<<guest[r].plugin, k>>] = [by |-> guest[r].plugin, len |-> n]]
      BY <1>2 DEF KvSet, Slot
    <2>2. guest' = guest /\ guest[r] \in Instance
      BY <1>2 DEF KvSet, MayUseKv, GuestInv
    <2>3. PICK v : v = [by |-> guest[r].plugin, len |-> n]
      OBVIOUS
    <2>4. v \in Value /\ v.by = guest[r].plugin
      BY <2>2, <2>3, InstanceFields DEF Value
    <2>5. PICK p \in Guests : p = guest[r].plugin
      BY <2>2, InstanceFields
    <2>6. values' = [values EXCEPT ![<<p, k>>] = v] /\ <<p, k>> \in Guests \X KvKeys
      BY <2>1, <2>3, <2>5
    <2>7. \A q \in Guests, m \in KvKeys :
            values'[<<q, m>>] = IF q = p /\ m = k THEN v ELSE values[<<q, m>>]
      BY <2>6 DEF GuestInv
    <2>8. values' \in [Guests \X KvKeys -> Value \cup {None}]
      BY <2>4, <2>6 DEF GuestInv
    <2> QED
      BY <2>2, <2>4, <2>5, <2>7, <2>8 DEF GuestInv
  <1>3. ASSUME NEW r \in Requests, KvGet(r) PROVE GuestInv'
    <2>1. PICK i : i = guest[r]
      OBVIOUS
    <2>2. i \in Instance /\ InstanceOK(i)
      BY <1>3, <2>1 DEF KvGet, MayUseKv, GuestInv
    <2>3. PICK k \in KvKeys :
            /\ values[<<guest[r].plugin, k>>] # None /\ values[<<guest[r].plugin, k>>].len > 0
            /\ guest' = [guest EXCEPT ![r] =
                  IF guest[r].pages + PagesFor(values[<<guest[r].plugin, k>>].len) > MaxPages
                  THEN NotRunning ELSE Copied(guest[r], values[<<guest[r].plugin, k>>])]
            /\ values' = values
      BY <1>3 DEF KvGet, Slot, Copied
    <2>a. PICK v : v = values[<<i.plugin, k>>]
      OBVIOUS
    <2>b. /\ v # None /\ v.len > 0 /\ values' = values
          /\ guest' = [guest EXCEPT ![r] = IF i.pages + PagesFor(v.len) > MaxPages
                                           THEN NotRunning ELSE Copied(i, v)]
      BY <2>1, <2>3, <2>a
    <2>4. v \in Value /\ v.by = i.plugin
      BY <2>2, <2>a, <2>b, InstanceFields DEF GuestInv
    <2>5. CASE i.pages + PagesFor(v.len) > MaxPages
      BY <2>5, <2>b DEF GuestInv
    <2>6. CASE ~(i.pages + PagesFor(v.len) > MaxPages)
      <3>1. i.pages + PagesFor(v.len) <= MaxPages
        <4>1. v.len \in Nat /\ i.pages \in Int /\ MaxPages \in Int
          BY <2>2, <2>4, InstanceFields, GuestBounds DEF Value
        <4>2. PagesFor(v.len) \in Int
          BY <4>1, PagesHold
        <4> QED
          BY <2>6, <4>1, <4>2
      <3>2. Copied(i, v) \in Instance /\ InstanceOK(Copied(i, v))
        BY <2>2, <2>4, <2>b, <3>1, HandedOver
      <3> QED
        BY <2>6, <2>b, <3>2 DEF GuestInv
    <2> QED
      BY <2>5, <2>6
  <1>4. ASSUME NEW r \in Requests, EndGuest(r) PROVE GuestInv'
    BY <1>4 DEF EndGuest, GuestInv
  <1>5. CASE GuestRestart
    BY <1>5 DEF GuestRestart, GuestInv
  <1>6. CASE UNCHANGED guestVars
    BY <1>6 DEF guestVars, GuestInv
  <1> QED
    BY <1>1, <1>2, <1>3, <1>4, <1>5, <1>6 DEF GuestNext

LEMMA GuestInvariant == GuestSpec => []GuestInv
  BY GuestStart, GuestStep, PTL DEF GuestSpec

\* Every reachable state of the guests and of their key-value store is well typed.
THEOREM GuestTypesHold == GuestSpec => []GuestTypeOK
  <1>1. GuestInv => GuestTypeOK
    BY InstanceFields DEF GuestInv, GuestTypeOK
  <1> QED
    BY <1>1, GuestInvariant, PTL

\* A guest is handed only values that the same plugin stored.
THEOREM OwnValuesAlways == GuestSpec => []OwnValuesOnly
  <1>1. GuestInv => OwnValuesOnly
    BY DEF GuestInv, InstanceOK, OwnValuesOnly
  <1> QED
    BY <1>1, GuestInvariant, PTL

\* The values that a guest was handed lie inside its memory, above its own pages, no
\* two of them over each other, and their packed words tell where.
THEOREM AlwaysHandedOverApart == GuestSpec => []HandedOverApart
  <1>1. ASSUME GuestInv, NEW r \in Requests, guest[r] # NotRunning, NEW h \in guest[r].handed
        PROVE  /\ LengthOf(h.packed) = h.value.len
               /\ Region(h) \subseteq (OwnPages * PageSize)..(guest[r].pages * PageSize - 1)
               /\ \A g \in guest[r].handed \ {h} : Region(g) \cap Region(h) = {}
    <2>1. /\ guest[r] \in Instance /\ InstanceOK(guest[r])
          /\ guest[r].handed \subseteq Handing /\ guest[r].pages \in Nat
      BY <1>1, InstanceFields, GuestBounds DEF GuestInv
    <2>2. \A g \in guest[r].handed : /\ PointerOf(g.packed) \in Nat /\ LengthOf(g.packed) \in Nat
                                     /\ Placed(g, guest[r].pages)
      <3>1. ASSUME NEW g \in guest[r].handed PROVE g.value.len \in Nat
        BY <2>1, GuestBounds DEF Handing, Value
      <3> QED
        BY <2>1, <3>1 DEF InstanceOK, Placed
    <2>3. OwnPages * PageSize \in Nat /\ guest[r].pages * PageSize \in Nat
      BY <2>1, GuestBounds
    <2>4. Region(h) \subseteq (OwnPages * PageSize)..(guest[r].pages * PageSize - 1)
      BY <1>1, <2>2, <2>3 DEF Region, Placed
    <2>5. ASSUME NEW g \in guest[r].handed \ {h} PROVE Region(g) \cap Region(h) = {}
      <3>1. Apart(g, h)
        BY <1>1, <2>1 DEF InstanceOK
      <3> QED
        BY <1>1, <2>2, <3>1 DEF Region, Apart
    <2> QED
      BY <1>1, <2>2, <2>4, <2>5 DEF Placed
  <1>2. GuestInv => HandedOverApart
    BY <1>1 DEF HandedOverApart
  <1> QED
    BY <1>2, GuestInvariant, PTL
=============================================================================
