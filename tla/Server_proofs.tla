----------------------------- MODULE Server_proofs -----------------------------
(*****************************************************************************)
(* Proofs about the server's start and about who may use it.                 *)
(*                                                                           *)
(* Accounts: for any number of users and handlers, a session is earned       *)
(* because the handler that issues it holds an account with the password it  *)
(* was given, and no statement takes an account away or changes its          *)
(* password.                                                                 *)
(* Profiles: for any number of handlers, a field changes without being named *)
(* by the request only if another update committed between the read and the  *)
(* write of that request.                                                    *)
(*                                                                           *)
(* Migrations: for any number of servers that start together, any rows and   *)
(* any sequence of releases, every file takes effect once, and in order.     *)
(*****************************************************************************)
EXTENDS Accounts, Migrations, Tables_proofs, FiniteSetTheorems, TLAPS

\* The account of this id has the password.
Opens(table, id, password) ==
  id \in DOMAIN table /\ table[id].password = password

AccountsInv ==
  /\ TypeOK
  /\ SessionsAreEarned
  /\ \A w \in Workers :
       /\ calls[w].stage = "create" => calls[w].user.password = calls[w].given
       /\ calls[w].stage = "issue" => Opens(users, calls[w].id, calls[w].given)

\* There are no accounts, no sessions and no handlers.
LEMMA AccountsInitial == Init => AccountsInv
BY AccountsAssumption
   DEF Init, AccountsInv, TypeOK, SessionsAreEarned, IsTable, NoRows, Call, Idle,
       Times

\* Sessions and calls stay in order when every account keeps its password.
LEMMA AccountsStay ==
  ASSUME AccountsInv, TypeOK', NEW w \in Workers, NEW call \in Call,
         calls' = [calls EXCEPT ![w] = call], sessions' = sessions,
         \A id, password : Opens(users, id, password) => Opens(users', id, password),
         call.stage = "create" => call.user.password = call.given,
         call.stage = "issue" => Opens(users', call.id, call.given)
  PROVE  AccountsInv'
<1>1. SessionsAreEarned'
  BY DEF AccountsInv, SessionsAreEarned, Opens
<1>2. ASSUME NEW v \in Workers
      PROVE  /\ calls'[v].stage = "create" => calls'[v].user.password = calls'[v].given
             /\ calls'[v].stage = "issue" => Opens(users', calls'[v].id, calls'[v].given)
  <2>1. CASE v = w
    <3>1. calls'[v] = call
      BY <2>1 DEF AccountsInv, TypeOK
    <3> QED BY <3>1 DEF Opens
  <2>2. CASE v # w
    <3>1. calls'[v] = calls[v]
      BY <2>2 DEF AccountsInv, TypeOK
    <3> QED BY <3>1 DEF AccountsInv, Opens
  <2> QED BY <2>1, <2>2
<1> QED BY <1>1, <1>2 DEF AccountsInv, Opens

\* The accounts are what they were.
LEMMA AccountsUnchanged ==
  ASSUME AccountsInv, users' = users
  PROVE  \A id, password :
           Opens(users, id, password) => Opens(users', id, password)
OBVIOUS

\* A handler's step that touches neither accounts nor sessions.
LEMMA CallStays ==
  ASSUME AccountsInv, NEW w \in Workers, NEW call \in Call,
         calls' = [calls EXCEPT ![w] = call], UNCHANGED <<users, sessions, now>>,
         call.stage = "create" => call.user.password = call.given,
         call.stage = "issue" => Opens(users, call.id, call.given)
  PROVE  AccountsInv'
<1>1. TypeOK'
  BY DEF AccountsInv, TypeOK
<1> QED BY <1>1, AccountsUnchanged, AccountsStay

\* Every step of a handler keeps the invariant.
LEMMA AccountsStep == AccountsInv /\ [Next]_vars => AccountsInv'
<1> SUFFICES ASSUME AccountsInv, [Next]_vars PROVE AccountsInv'
  OBVIOUS
<1>1. /\ IsTable(users, Ids, User) /\ sessions \subseteq Session
      /\ calls \in [Workers -> Call] /\ now \in Times
  BY DEF AccountsInv, TypeOK
<1>2. Idle \in Call /\ Idle.stage = "idle"
  BY DEF Call, Idle
<1>3. CASE Tick
  <2>1. now' \in Times
    BY <1>1, <1>3, AccountsAssumption DEF Tick, Times
  <2> QED BY <1>3, <2>1 DEF Tick, AccountsInv, TypeOK, SessionsAreEarned
<1>4. ASSUME NEW w \in Workers, BeginRegister(w) PROVE AccountsInv'
  <2>1. PICK spelling \in Spellings, password \in Passwords, profile \in Fresh,
             id \in Ids :
          calls' = [calls EXCEPT ![w] =
            [stage |-> "create", id |-> id, given |-> password,
             user |-> [username |-> NameOf[spelling], password |-> password,
                       profile |-> profile]]]
    BY <1>4 DEF BeginRegister
  <2>2. [username |-> NameOf[spelling], password |-> password,
         profile |-> profile] \in User
    BY AccountsAssumption DEF User
  <2>3. [stage |-> "create", id |-> id, given |-> password,
         user |-> [username |-> NameOf[spelling], password |-> password,
                   profile |-> profile]] \in Call
    BY <2>2 DEF Call
  <2> QED BY <1>4, <2>1, <2>3, CallStays DEF BeginRegister
<1>5. ASSUME NEW w \in Workers, Create(w) PROVE AccountsInv'
  <2> DEFINE call == [calls[w] EXCEPT !.stage = "issue"]
  <2>1. /\ calls[w].id \in Ids /\ calls[w].user \in User
        /\ call \in Call /\ call.stage = "issue" /\ call.id = calls[w].id
        /\ call.given = calls[w].given
    BY <1>1, <1>5 DEF Create, Call, Idle
  <2>2. IsTable(users', Ids, User)
    BY <1>1, <1>5, <2>1, PutIsTable DEF Create, Created
  <2>3. calls' = [calls EXCEPT ![w] = call]
    BY <1>5 DEF Create
  <2>4. TypeOK'
    BY <1>1, <1>5, <2>1, <2>2, <2>3 DEF Create, TypeOK
  <2>5. \A id, password :
          Opens(users, id, password) => Opens(users', id, password)
    BY <1>5 DEF Create, Created, Put, Opens
  <2>6. Opens(users', call.id, call.given)
    BY <1>5, <2>1 DEF Create, Created, Put, Opens, AccountsInv
  <2> QED BY <1>5, <2>1, <2>3, <2>4, <2>5, <2>6, AccountsStay DEF Create
<1>6. ASSUME NEW w \in Workers, BeginLogin(w) PROVE AccountsInv'
  <2>1. PICK spelling \in Spellings, password \in Passwords :
          calls' = [calls EXCEPT ![w] =
            [stage |-> "find", name |-> NameOf[spelling], given |-> password]]
    BY <1>6 DEF BeginLogin
  <2>2. [stage |-> "find", name |-> NameOf[spelling], given |-> password] \in Call
    BY AccountsAssumption DEF Call
  <2> QED BY <1>6, <2>1, <2>2, CallStays DEF BeginLogin
<1>7. ASSUME NEW w \in Workers, Login(w) PROVE AccountsInv'
  <2>1. PICK id \in DOMAIN users :
          /\ users[id].password = calls[w].given
          /\ calls' = [calls EXCEPT ![w] =
               [stage |-> "issue", id |-> id, user |-> users[id],
                given |-> calls[w].given]]
    BY <1>7 DEF Login
  <2>2. id \in Ids /\ users[id] \in User
    BY <1>1, RowOfTable
  <2>3. calls[w].given \in Passwords
    BY <2>1, <2>2 DEF User
  <2>4. [stage |-> "issue", id |-> id, user |-> users[id],
         given |-> calls[w].given] \in Call
    BY <2>2, <2>3 DEF Call
  <2>5. Opens(users, id, calls[w].given)
    BY <2>1 DEF Opens
  <2> QED BY <1>7, <2>1, <2>4, <2>5, CallStays DEF Login
<1>8. ASSUME NEW w \in Workers, IssueSession(w) PROVE AccountsInv'
  <2> DEFINE session ==
        [sub |-> calls[w].id, exp |-> now + TTL, given |-> calls[w].given]
  <2>1. calls[w].id \in Ids /\ calls[w].given \in Passwords
    BY <1>1, <1>8 DEF IssueSession, Call, Idle
  <2>2. now + TTL \in 0 .. MaxTime + TTL
    BY <1>1, AccountsAssumption DEF Times
  <2>3. session \in Session
    BY <2>1, <2>2 DEF Session
  <2>4. TypeOK'
    BY <1>1, <1>2, <1>8, <2>3 DEF IssueSession, Finish, TypeOK
  <2>5. Opens(users, calls[w].id, calls[w].given)
    BY <1>8 DEF IssueSession, AccountsInv
  <2>6. SessionsAreEarned'
    BY <1>8, <2>5 DEF IssueSession, AccountsInv, SessionsAreEarned, Opens
  <2> QED BY <1>1, <1>2, <1>8, <2>4, <2>6 DEF IssueSession, Finish, AccountsInv
<1>9. ASSUME NEW w \in Workers, Authenticate(w) PROVE AccountsInv'
  <2>1. PICK session \in sessions, change \in Asked :
          /\ session.sub \in DOMAIN users
          /\ calls' = [calls EXCEPT ![w] =
               [stage |-> "write", id |-> session.sub,
                user |-> users[session.sub], change |-> change]]
    BY <1>9 DEF Authenticate
  <2>2. session.sub \in Ids /\ users[session.sub] \in User
    BY <1>1, <2>1, RowOfTable
  <2>3. [stage |-> "write", id |-> session.sub, user |-> users[session.sub],
         change |-> change] \in Call
    BY <2>2 DEF Call
  <2> QED BY <1>9, <2>1, <2>3, CallStays DEF Authenticate
<1>10. ASSUME NEW w \in Workers, UpdateProfile(w) PROVE AccountsInv'
  <2> DEFINE id == calls[w].id
             profile == Updated(calls[w].user.profile, calls[w].change)
  <2>1. /\ calls[w].user \in User /\ calls[w].change \in Changes
        /\ id \in DOMAIN users /\ users[id] \in User
    BY <1>1, <1>10, AccountsAssumption, RowOfTable
       DEF UpdateProfile, Call, Idle
  <2>2. profile \in Profile
    <3>1. calls[w].user.profile \in [Fields -> Values]
      BY <2>1 DEF User, Profile
    <3>2. PICK named \in SUBSET Fields : calls[w].change \in [named -> Values]
      BY <2>1 DEF Changes
    <3> QED BY <3>1, <3>2 DEF Updated, Merge, Profile
  <2> HIDE DEF profile
  <2>3. users' = [users EXCEPT ![id].profile = profile]
    BY <1>10 DEF UpdateProfile, profile
  <2>4. [users[id] EXCEPT !.profile = profile] \in User
    BY <2>1, <2>2 DEF User
  <2>5. IsTable(users', Ids, User)
    BY <1>1, <2>1, <2>3, <2>4 DEF IsTable
  <2>6. TypeOK'
    BY <1>1, <1>2, <1>10, <2>5 DEF UpdateProfile, Finish, TypeOK
  <2>7. \A i \in DOMAIN users : users'[i].password = users[i].password
    BY <1>1, <2>1, <2>3 DEF IsTable, User
  <2>8. \A i, password : Opens(users, i, password) => Opens(users', i, password)
    BY <2>3, <2>7 DEF Opens
  <2> QED BY <1>2, <1>10, <2>6, <2>8, AccountsStay DEF UpdateProfile, Finish
<1>11. ASSUME NEW w \in Workers, Abort(w) PROVE AccountsInv'
  BY <1>2, <1>11, CallStays DEF Abort, Finish
<1>12. CASE UNCHANGED vars
  BY <1>12 DEF vars, AccountsInv, TypeOK, SessionsAreEarned
<1> QED BY <1>3, <1>4, <1>5, <1>6, <1>7, <1>8, <1>9, <1>10, <1>11, <1>12 DEF Next

\* The invariant holds in every reachable state.
THEOREM AccountsInvariant == Spec => []AccountsInv
BY AccountsInitial, AccountsStep, PTL DEF Spec

\* The table, the tokens and the handlers keep their types.
THEOREM AccountsTypeCorrect == Spec => []TypeOK
<1>1. AccountsInv => TypeOK
  BY DEF AccountsInv
<1> QED BY <1>1, AccountsInvariant, PTL

\* Every token stays one of an account whose password was given for it.
THEOREM EverySessionIsEarned == Spec => []SessionsAreEarned
<1>1. AccountsInv => SessionsAreEarned
  BY DEF AccountsInv
<1> QED BY <1>1, AccountsInvariant, PTL

-------------------------------------------------------------------------------
(* Profiles *)

\* A step that leaves the profile field alone makes no handler stale in it: the
\* only row that a handler takes on is the one it just read.
LEMMA NotStaleStays ==
  ASSUME AccountsInv, [Next]_vars, NEW id \in DOMAIN users, NEW f \in Fields,
         \A w \in Workers : ~IsStale(w, id, f),
         users'[id].profile[f] = users[id].profile[f]
  PROVE  \A w \in Workers : ~IsStale(w, id, f)'
<1> SUFFICES ASSUME NEW v \in Workers, calls'[v].stage = "write",
                    calls'[v].id = id, f \notin DOMAIN calls'[v].change
             PROVE  calls'[v].user.profile[f] = users[id].profile[f]
  BY DEF IsStale
<1>1. calls \in [Workers -> Call] /\ Idle.stage = "idle"
  BY DEF AccountsInv, TypeOK, Idle
<1>2. CASE calls'[v] = calls[v]
  BY <1>2 DEF IsStale
<1>3. ASSUME NEW w \in Workers,
             \/ BeginRegister(w) \/ Create(w) \/ BeginLogin(w) \/ Login(w)
             \/ IssueSession(w) \/ UpdateProfile(w) \/ Abort(w)
      PROVE  calls'[v] = calls[v]
  <2>1. calls'[w].stage # "write"
    <3>1. CASE Create(w)
      <4>1. calls[w] \in [stage : {"create", "issue"}, id : Ids, user : User,
                          given : Passwords]
        BY <1>1, <3>1 DEF Create, Call, Idle
      <4> QED BY <1>1, <3>1, <4>1 DEF Create
    <3>2. CASE ~ Create(w)
      BY <1>1, <1>3, <3>2
         DEF BeginRegister, BeginLogin, Login, IssueSession, UpdateProfile, Abort,
             Finish
    <3> QED BY <3>1, <3>2
  <2>2. v # w
    BY <2>1
  <2> QED
    BY <1>1, <1>3, <2>2
       DEF BeginRegister, Create, BeginLogin, Login, IssueSession, UpdateProfile,
           Abort, Finish
<1>4. ASSUME NEW w \in Workers, Authenticate(w)
      PROVE  \/ calls'[v] = calls[v]
             \/ calls'[v].user = users[calls'[v].id]
  BY <1>1, <1>4 DEF Authenticate
<1>5. CASE Tick \/ UNCHANGED vars
  BY <1>2, <1>5 DEF Tick, vars
<1> QED BY <1>2, <1>3, <1>4, <1>5 DEF Next

\* A request that changes some fields of a profile undoes another's change only
\* if that committed between its read and its write, however many there are.
THEOREM UndoingNeedsAStaleRead == Spec => OnlyStaleWritesUndo
<1> DEFINE NoneStale(id, f) == \A w \in Workers : ~IsStale(w, id, f)
           Written(id, f) == \E w \in Workers :
                               /\ UpdateProfile(w)
                               /\ calls[w].id = id /\ f \in DOMAIN calls[w].change
<1>1. ASSUME AccountsInv, [Next]_vars, NEW id \in DOMAIN users, NEW f \in Fields,
             NoneStale(id, f), ~ Written(id, f)
      PROVE  users'[id].profile[f] = users[id].profile[f]
  <2>1. /\ IsTable(users, Ids, User) /\ calls \in [Workers -> Call]
    BY <1>1 DEF AccountsInv, TypeOK
  <2>2. ASSUME NEW w \in Workers, Create(w)
        PROVE  users'[id] = users[id]
    BY <1>1, <2>2 DEF Create, Created, Put
  <2>3. ASSUME NEW w \in Workers, UpdateProfile(w)
        PROVE  users'[id].profile[f] = users[id].profile[f]
    <3> DEFINE profile == Updated(calls[w].user.profile, calls[w].change)
    <3>1. users[id] \in User /\ calls[w].stage = "write"
      BY <1>1, <2>1, <2>3, RowOfTable DEF UpdateProfile
    <3>2. users' = [users EXCEPT ![calls[w].id].profile = profile]
      BY <2>3 DEF UpdateProfile
    <3>3. CASE calls[w].id # id
      BY <1>1, <2>1, <3>2, <3>3 DEF IsTable
    <3>4. CASE calls[w].id = id
      <4>1. /\ f \notin DOMAIN calls[w].change
            /\ calls[w].user.profile[f] = users[id].profile[f]
        BY <1>1, <2>3, <3>1, <3>4 DEF IsStale
      <4>2. calls[w].user.profile \in [Fields -> Values]
        BY <2>1, <3>1 DEF Call, Idle, User, Profile
      <4>3. profile[f] = users[id].profile[f]
        BY <1>1, <4>1, <4>2 DEF Updated, Merge
      <4> HIDE DEF profile
      <4>4. users'[id].profile = profile
        BY <1>1, <3>1, <3>2, <3>4 DEF User
      <4> QED BY <4>3, <4>4
    <3> QED BY <3>3, <3>4
  <2> QED
    BY <1>1, <2>2, <2>3
       DEF Next, vars, Tick, BeginRegister, BeginLogin, Login, IssueSession,
           Authenticate, Abort
<1>2. AccountsInv /\ [Next]_vars =>
        \A id \in DOMAIN users, f \in Fields :
          (\A w \in Workers : ~IsStale(w, id, f)) =>
            \/ \E w \in Workers :
                 /\ UpdateProfile(w)
                 /\ calls[w].id = id /\ f \in DOMAIN calls[w].change
            \/ /\ users'[id].profile[f] = users[id].profile[f]
               /\ \A w \in Workers : ~IsStale(w, id, f)'
  BY <1>1, NotStaleStays
<1>3. AccountsInv /\ [Next]_vars =>
        [\A id \in DOMAIN users, f \in Fields :
          (\A w \in Workers : ~IsStale(w, id, f)) =>
            \/ \E w \in Workers :
                 /\ UpdateProfile(w)
                 /\ calls[w].id = id /\ f \in DOMAIN calls[w].change
            \/ /\ users'[id].profile[f] = users[id].profile[f]
               /\ \A w \in Workers : ~IsStale(w, id, f)']_vars
  BY <1>2
<1> QED
  BY <1>3, AccountsInvariant, PTL DEF Spec, OnlyStaleWritesUndo

-------------------------------------------------------------------------------
(* Migrations.  Files are applied in order, so a server at a file finds those *)
(* before it recorded; one transaction is open at a time, so what it commits  *)
(* is still the effect of its file on the rows as they are.                   *)

\* A server of the database runs the files of its release in order.
InOrder(process) ==
  IF process.stage = "serve" THEN 1 .. installed \subseteq applied
  ELSE process.file <= installed /\ 1 .. (process.file - 1) \subseteq applied

\* The open transaction is that of a server about to commit, on current rows.
TxOK ==
  /\ DOMAIN tx \subseteq DOMAIN processes
  /\ \A p \in DOMAIN processes : p \in DOMAIN tx <=> processes[p].stage = "commit"
  /\ \A p \in DOMAIN tx : tx[p] = Effect(processes[p].file, rows)
  /\ \A p, q \in DOMAIN tx : p = q

MigrationsInv ==
  /\ MigrationsTypeOK
  /\ applied \subseteq 1 .. installed
  /\ \A p \in DOMAIN processes : InOrder(processes[p])
  /\ TxOK
  /\ \A file \in Files : runs[file] = (IF file \in applied THEN 1 ELSE 0)
  /\ MessagesAreLogged

\* Every file leaves a database, keeps the log complete or makes it so, and
\* but for 0005 keeps every row.
LEMMA EffectOfFile ==
  ASSUME NEW file \in Files, NEW db \in Database
  PROVE  /\ Effect(file, db) \in Database
         /\ file = 10 \/ db.messages \subseteq db.message_changes =>
              Effect(file, db).messages \subseteq Effect(file, db).message_changes
         /\ file # 5 => \A t \in DOMAIN db : db[t] \subseteq Effect(file, db)[t]
<1> USE DEF Database
<1>1. CASE file = 5
  <2>1. Effect(file, db) = RebuildConversations(db)
    BY <1>1 DEF Effect
  <2> QED BY <1>1, <2>1 DEF RebuildConversations, DropConversations, DropMessages
<1>2. CASE file = 10
  <2>1. Effect(file, db) = RecordExistingMessages(db)
    BY <1>2 DEF Effect
  <2> QED BY <1>2, <2>1 DEF RecordExistingMessages
<1>3. CASE file = 11
  <2>1. Effect(file, db) = RebuildMessages(db)
    BY <1>3 DEF Effect
  <2>2. /\ Effect(file, db).conversations = db.conversations
        /\ Effect(file, db).conversation_members = db.conversation_members
        /\ Effect(file, db).messages = db.messages
        /\ Effect(file, db).read_receipts = db.read_receipts
        /\ Effect(file, db).message_changes = db.message_changes
        /\ Effect(file, db) \in Database
    BY <2>1 DEF RebuildMessages, DropMessages
  <2> HIDE DEF Effect
  <2> QED BY <1>3, <2>2
<1>4. CASE file \notin {5, 10, 11}
  <2>1. Effect(file, db) = db
    BY <1>4 DEF Effect
  <2> QED BY <1>4, <2>1
<1> QED BY <1>1, <1>2, <1>3, <1>4

\* At most one transaction, counted.
LEMMA OneTransaction ==
  ASSUME NEW S, \A p, q \in S : p = q
  PROVE  Cardinality(S) <= 1
<1>1. CASE S = {}
  BY <1>1, FS_EmptySet
<1>2. CASE S # {}
  <2>1. PICK p \in S : S = {p}
    BY <1>2
  <2>2. Cardinality({p}) = 1
    BY FS_Singleton
  <2> QED BY <2>1, <2>2
<1> QED BY <1>1, <1>2

\* The database has no table and no transaction is open.
LEMMA MigrationsInitial == MigrationsInit => MigrationsInv
<1> SUFFICES ASSUME MigrationsInit PROVE MigrationsInv
  OBVIOUS
<1>1. DOMAIN tx = {} /\ DOMAIN processes = {} /\ DOMAIN tx = DOMAIN NoRows
  BY DEF MigrationsInit, NoRows
<1>2. Cardinality(DOMAIN tx) <= 1
  BY <1>1, OneTransaction
<1>3. rows \in Database
  BY DEF MigrationsInit, EmptyTables, Database
<1>4. MigrationsTypeOK
  BY <1>2, <1>3
     DEF MigrationsInit, MigrationsTypeOK, IsTable, NoRows
<1> QED BY <1>1, <1>4
        DEF MigrationsInit, MigrationsInv, TxOK, MessagesAreLogged

\* The types that the proofs of steps use.
LEMMA MigrationsTyped ==
  ASSUME MigrationsInv
  PROVE  /\ installed \in Releases /\ installed \in Files /\ installed \in Int
         /\ rows \in Database
         /\ IsTable(processes, Processes, Process)
         /\ IsTable(tx, Processes, Database)
         /\ runs \in [Files -> Nat]
         /\ \A p \in DOMAIN processes :
              /\ p \in Processes /\ processes[p] \in Process
              /\ processes[p].file \in Files /\ processes[p].file \in Int
<1>1. /\ installed \in Releases /\ installed \in Files
      /\ rows \in Database
      /\ IsTable(processes, Processes, Process)
      /\ IsTable(tx, Processes, Database)
      /\ runs \in [Files -> Nat]
  BY MigrationsAssumption DEF MigrationsInv, MigrationsTypeOK
<1>2. ASSUME NEW p \in DOMAIN processes
      PROVE  p \in Processes /\ processes[p] \in Process
  BY <1>1, RowOfTable
<1>3. \A process \in Process : process.file \in Files
  BY DEF Process
<1>4. \A file \in Files : file \in Int
  BY DEF Files
<1> QED BY <1>1, <1>2, <1>3, <1>4

\* A server goes to a place of the run that it has reached; the database and
\* the open transaction stay.
LEMMA ProcessMoves ==
  ASSUME MigrationsInv, NEW p \in Processes, NEW process \in Process,
         processes' = Put(processes, p, process),
         UNCHANGED <<installed, applied, rows, tx, runs>>,
         p \notin DOMAIN tx, process.stage # "commit", InOrder(process)
  PROVE  MigrationsInv'
<1>1. IsTable(processes', Processes, Process)
  BY MigrationsTyped, PutIsTable
<1>2. /\ DOMAIN processes' = DOMAIN processes \cup {p}
      /\ processes'[p] = process
      /\ \A q \in DOMAIN processes \ {p} : processes'[q] = processes[q]
  BY DEF Put
<1>3. TxOK'
  BY <1>2 DEF MigrationsInv, TxOK
<1>4. \A q \in DOMAIN processes' : InOrder(processes[q])'
  BY <1>2 DEF MigrationsInv, InOrder
<1> QED BY <1>1, <1>3, <1>4
        DEF MigrationsInv, MigrationsTypeOK, MessagesAreLogged

\* After a file that is recorded the server is in order again.
LEMMA AfterFileInOrder ==
  ASSUME MigrationsInv, NEW p \in DOMAIN processes,
         processes[p].stage # "serve", AfterFile(p)
  PROVE  \E process \in Process :
           /\ processes' = Put(processes, p, process)
           /\ process.stage \in {"check", "serve"}
           /\ process.stage = "check" =>
                /\ process.file = processes[p].file + 1
                /\ process.file <= installed
           /\ process.stage = "serve" => processes[p].file = installed
<1> DEFINE process ==
      IF processes[p].file < installed
      THEN [stage |-> "check", file |-> processes[p].file + 1]
      ELSE [processes[p] EXCEPT !.stage = "serve"]
<1>1. /\ processes[p].file \in Files /\ installed \in Files
      /\ processes[p] \in Process
  BY MigrationsTyped
<1>2. processes[p].file <= installed
  BY DEF MigrationsInv, InOrder
<1>3. process \in Process
  BY <1>1 DEF Process, Files
<1>4. processes' = Put(processes, p, process)
  BY MigrationsTyped DEF AfterFile, Put, IsTable
<1>5. process.stage \in {"check", "serve"}
  BY <1>1 DEF Process
<1>6. process.stage = "check" =>
        /\ process.file = processes[p].file + 1
        /\ process.file <= installed
  BY <1>1 DEF Process, Files
<1>7. process.stage = "serve" => processes[p].file = installed
  BY <1>1, <1>2 DEF Process, Files
<1> QED BY <1>3, <1>4, <1>5, <1>6, <1>7

\* A row written by a server of a release that knows its table.
LEMMA RowsWritten ==
  ASSUME MigrationsInv, Unlocked, rows' \in Database, MessagesAreLogged',
         UNCHANGED <<installed, applied, processes, tx, runs>>
  PROVE  MigrationsInv'
<1>1. DOMAIN tx = {}
  BY DEF Unlocked, NoRows
<1> QED BY <1>1 DEF MigrationsInv, MigrationsTypeOK, TxOK, InOrder

\* A commit applies its file for the first time, to the rows as they are, and
\* records it; only the files up to 0005 take rows away.
LEMMA CommitStep ==
  ASSUME MigrationsInv, NEW p \in Processes, Commit(p)
  PROVE  /\ MigrationsInv'
         /\ 5 \in applied => \A t \in TableNames : rows[t] \subseteq rows'[t]
<1> DEFINE file == processes[p].file
<1>1. /\ p \in DOMAIN processes /\ processes[p].stage = "commit"
      /\ p \in DOMAIN tx /\ file \in Files /\ file \in Int
      /\ file \notin applied /\ applied' = applied \cup {file}
      /\ rows' = tx[p] /\ tx' = NoRows /\ installed' = installed
      /\ runs' = [runs EXCEPT ![file] = @ + 1] /\ AfterFile(p)
      /\ installed \in Int
  BY MigrationsTyped DEF Commit, At, MayRecord, MigrationsInv, TxOK
<1>2. rows' = Effect(file, rows)
  BY <1>1 DEF MigrationsInv, TxOK
<1>3. rows' \in Database
  BY <1>1, <1>2, MigrationsTyped, EffectOfFile
<1>4. file <= installed /\ 1 .. (file - 1) \subseteq applied
  BY <1>1 DEF MigrationsInv, InOrder
<1>5. applied' \subseteq 1 .. installed' /\ applied' \subseteq Files
  <2>1. file \in 1 .. installed
    BY <1>1, <1>4 DEF Files
  <2>2. applied \subseteq Files
    BY DEF MigrationsInv, MigrationsTypeOK
  <2> QED BY <1>1, <2>1, <2>2 DEF MigrationsInv
<1>6. runs' \in [Files -> Nat]
  BY <1>1, MigrationsTyped
<1>7. \A f \in Files : runs'[f] = (IF f \in applied' THEN 1 ELSE 0)
  BY <1>1, MigrationsTyped DEF MigrationsInv
<1>8. MessagesAreLogged'
  <2>1. file = 10 \/ rows.messages \subseteq rows.message_changes =>
          rows'.messages \subseteq rows'.message_changes
    BY <1>1, <1>2, MigrationsTyped, EffectOfFile
  <2> QED BY <1>1, <2>1 DEF MigrationsInv, MessagesAreLogged
<1>9. 5 \in applied => \A t \in TableNames : rows[t] \subseteq rows'[t]
  BY <1>1, <1>2, MigrationsTyped, EffectOfFile DEF TableNames
<1>10. PICK process \in Process :
         /\ processes' = Put(processes, p, process)
         /\ process.stage \in {"check", "serve"}
         /\ process.stage = "check" =>
              process.file = file + 1 /\ process.file <= installed
         /\ process.stage = "serve" => file = installed
  BY <1>1, AfterFileInOrder
<1>11. /\ DOMAIN processes' = DOMAIN processes \cup {p}
       /\ processes'[p] = process
       /\ \A q \in DOMAIN processes \ {p} : processes'[q] = processes[q]
  BY <1>10 DEF Put
<1>12. IsTable(processes', Processes, Process)
  BY <1>10, MigrationsTyped, PutIsTable
<1>13. 1 .. file \subseteq applied'
  BY <1>1, <1>4
<1>14. \A q \in DOMAIN processes' : InOrder(processes[q])'
  <2>1. InOrder(process)'
    BY <1>1, <1>10, <1>13 DEF InOrder
  <2>2. ASSUME NEW q \in DOMAIN processes \ {p} PROVE InOrder(processes[q])'
    BY <1>1, <1>11, <2>2 DEF MigrationsInv, InOrder
  <2> QED BY <1>11, <2>1, <2>2
<1>15. DOMAIN tx' = {} /\ IsTable(tx', Processes, Database)
  BY <1>1 DEF NoRows, IsTable
<1>16. TxOK'
  <2>1. \A q \in DOMAIN processes' : processes'[q].stage # "commit"
    BY <1>1, <1>10, <1>11 DEF MigrationsInv, TxOK
  <2> QED BY <1>15, <2>1 DEF TxOK
<1>17. Cardinality(DOMAIN tx') <= 1
  BY <1>15, OneTransaction
<1> QED BY <1>1, <1>3, <1>5, <1>6, <1>7, <1>8, <1>9, <1>12, <1>14, <1>15, <1>16,
           <1>17 DEF MigrationsInv, MigrationsTypeOK

\* Every step keeps the invariant and, once 0005 is applied, the rows.
LEMMA MigrationsStep ==
  ASSUME MigrationsInv, [MigrationsNext]_migrationVars
  PROVE  /\ MigrationsInv'
         /\ 5 \in applied => \A t \in TableNames : rows[t] \subseteq rows'[t]
<1>1. ASSUME NEW p \in Processes, Start(p)
      PROVE  MigrationsInv' /\ rows' = rows
  <2> DEFINE process == [stage |-> "check", file |-> 1]
  <2>1. process \in Process
    BY DEF Process, Files
  <2>2. InOrder(process)
    BY MigrationsTyped DEF InOrder, Files
  <2>3. p \notin DOMAIN tx
    BY <1>1 DEF Start, MigrationsInv, TxOK
  <2> QED BY <1>1, <2>1, <2>2, <2>3, ProcessMoves DEF Start
<1>2. ASSUME NEW p \in Processes, Check(p)
      PROVE  MigrationsInv' /\ rows' = rows
  <2>1. /\ p \in DOMAIN processes /\ processes[p].stage = "check"
        /\ p \notin DOMAIN tx /\ processes[p].file \in Files
        /\ processes[p] \in Process /\ installed \in Files
        /\ processes[p].file <= installed
        /\ 1 .. (processes[p].file - 1) \subseteq applied
    BY <1>2, MigrationsTyped DEF Check, At, MigrationsInv, TxOK, InOrder
  <2>2. CASE processes[p].file \in applied
    <3>1. AfterFile(p)
      BY <1>2, <2>2 DEF Check
    <3>2. PICK process \in Process :
            /\ processes' = Put(processes, p, process)
            /\ process.stage \in {"check", "serve"}
            /\ process.stage = "check" =>
                 /\ process.file = processes[p].file + 1
                 /\ process.file <= installed
            /\ process.stage = "serve" => processes[p].file = installed
      BY <2>1, <3>1, AfterFileInOrder
    <3>3. 1 .. processes[p].file \subseteq applied
      BY <2>1, <2>2 DEF Files
    <3>4. InOrder(process)
      BY <2>1, <3>2, <3>3 DEF InOrder, Files
    <3> QED BY <1>2, <2>1, <3>2, <3>4, ProcessMoves DEF Check
  <2>3. CASE processes[p].file \notin applied
    <3> DEFINE process == [processes[p] EXCEPT !.stage = "execute"]
    <3>1. process \in Process /\ process.stage = "execute"
          /\ process.file = processes[p].file
      BY <2>1 DEF Process
    <3>2. processes' = Put(processes, p, process)
      BY <1>2, <2>1, <2>3, MigrationsTyped DEF Check, Put, IsTable
    <3>3. InOrder(process)
      BY <2>1, <3>1 DEF InOrder
    <3> HIDE DEF process
    <3> QED BY <1>2, <2>1, <3>1, <3>2, <3>3, ProcessMoves DEF Check
  <2> QED BY <2>2, <2>3
<1>3. ASSUME NEW p \in Processes, Execute(p)
      PROVE  MigrationsInv' /\ rows' = rows
  <2> DEFINE process == [processes[p] EXCEPT !.stage = "commit"]
             effect == Effect(processes[p].file, rows)
  <2>1. /\ p \in DOMAIN processes /\ processes[p].stage = "execute"
        /\ processes[p].file \in Files /\ processes[p] \in Process
    BY <1>3, MigrationsTyped DEF Execute, At
  <2>2. process \in Process /\ process.stage = "commit"
        /\ process.file = processes[p].file
    BY <2>1 DEF Process
  <2>3. effect \in Database
    BY <2>1, MigrationsTyped, EffectOfFile
  <2>4. /\ DOMAIN tx = {} /\ DOMAIN tx' = {p} /\ tx'[p] = effect
        /\ rows' = rows /\ processes' = [processes EXCEPT ![p] = process]
    BY <1>3 DEF Execute, Unlocked, NoRows, Put
  <2>5. IsTable(tx', Processes, Database)
    BY <1>3, <2>3, MigrationsTyped, PutIsTable DEF Execute
  <2>6. IsTable(processes', Processes, Process)
    BY <2>1, <2>2, <2>4, MigrationsTyped DEF IsTable
  <2>7. /\ DOMAIN processes' = DOMAIN processes /\ processes'[p] = process
        /\ \A q \in DOMAIN processes \ {p} : processes'[q] = processes[q]
    BY <2>1, <2>4
  <2> HIDE DEF process
  <2>8. TxOK'
    BY <2>1, <2>2, <2>4, <2>7 DEF MigrationsInv, TxOK
  <2>9. Cardinality(DOMAIN tx') <= 1
    BY <2>4, OneTransaction
  <2>10. \A q \in DOMAIN processes' : InOrder(processes[q])'
    BY <1>3, <2>1, <2>2, <2>7 DEF MigrationsInv, InOrder, Execute
  <2> QED BY <1>3, <2>5, <2>6, <2>8, <2>9, <2>10
          DEF Execute, MigrationsInv, MigrationsTypeOK, MessagesAreLogged
<1>4. ASSUME NEW p \in Processes, Stop(p)
      PROVE  MigrationsInv' /\ rows' = rows
  <2>1. /\ IsTable(processes', Processes, Process)
        /\ IsTable(tx', Processes, Database)
    BY <1>4, MigrationsTyped, RemoveIsTable DEF Stop
  <2>2. /\ DOMAIN processes' = DOMAIN processes \ {p}
        /\ DOMAIN tx' = DOMAIN tx \ {p}
        /\ \A q \in DOMAIN processes' : processes'[q] = processes[q]
        /\ \A q \in DOMAIN tx' : tx'[q] = tx[q]
    BY <1>4 DEF Stop, Remove
  <2>3. TxOK'
    BY <1>4, <2>2 DEF Stop, MigrationsInv, TxOK
  <2>4. Cardinality(DOMAIN tx') <= 1
    BY <2>3, OneTransaction DEF TxOK
  <2>5. \A q \in DOMAIN processes' : InOrder(processes[q])'
    BY <1>4, <2>2 DEF Stop, MigrationsInv, InOrder
  <2> QED BY <1>4, <2>1, <2>3, <2>4, <2>5
          DEF Stop, MigrationsInv, MigrationsTypeOK, MessagesAreLogged
<1>5. CASE Install
  <2>1. DOMAIN processes = {} /\ DOMAIN tx = {}
    BY <1>5 DEF Install, NoRows, MigrationsInv, TxOK
  <2>2. installed' \in Releases /\ installed' \in Files /\ installed' > installed
    BY <1>5, MigrationsAssumption DEF Install
  <2>3. applied' \subseteq 1 .. installed'
    BY <1>5, <2>2, MigrationsTyped DEF Install, MigrationsInv, Files
  <2> QED BY <1>5, <2>1, <2>2, <2>3
          DEF Install, MigrationsInv, MigrationsTypeOK, MessagesAreLogged, TxOK
<1>6. ASSUME NEW p \in Processes, NEW c \in Conversations,
             CreateConversation(p, c)
      PROVE  MigrationsInv' /\ \A t \in TableNames : rows[t] \subseteq rows'[t]
  <2>1. /\ rows' \in Database /\ \A t \in TableNames : rows[t] \subseteq rows'[t]
        /\ rows'.messages = rows.messages
        /\ rows'.message_changes = rows.message_changes
    BY <1>6, MigrationsTyped DEF CreateConversation, Database, TableNames
  <2>2. MessagesAreLogged'
    BY <1>6, <2>1 DEF CreateConversation, MigrationsInv, MessagesAreLogged
  <2> QED BY <1>6, <2>1, <2>2, RowsWritten DEF CreateConversation
<1>7. ASSUME NEW p \in Processes, NEW c \in Conversations, NEW m \in MessageIds,
             CreateMessage(p, c, m)
      PROVE  MigrationsInv' /\ \A t \in TableNames : rows[t] \subseteq rows'[t]
  <2>1. /\ rows' \in Database /\ \A t \in TableNames : rows[t] \subseteq rows'[t]
        /\ rows'.messages = rows.messages \cup {<<c, m>>}
        /\ installed >= 10 =>
             rows'.message_changes = rows.message_changes \cup {<<c, m>>}
    <3> DEFINE logged == IF installed >= 10
                         THEN rows.message_changes \cup {<<c, m>>}
                         ELSE rows.message_changes
    <3>1. /\ rows \in Database
          /\ rows' = [rows EXCEPT !.messages = @ \cup {<<c, m>>},
                                  !.message_changes = logged]
      BY <1>7, MigrationsTyped DEF CreateMessage
    <3>2. logged \subseteq Conversations \X MessageIds
      BY <3>1 DEF Database
    <3>3. rows.message_changes \subseteq logged
      OBVIOUS
    <3>4. installed >= 10 => logged = rows.message_changes \cup {<<c, m>>}
      OBVIOUS
    <3> HIDE DEF logged
    <3>5. <<c, m>> \in Conversations \X MessageIds
      OBVIOUS
    <3> DEFINE message == <<c, m>>
    <3> HIDE DEF message
    <3>6. /\ rows'.messages = rows.messages \cup {message}
          /\ rows'.message_changes = logged
          /\ \A t \in TableNames \ {"messages", "message_changes"} :
               rows'[t] = rows[t]
      BY <3>1 DEF Database, TableNames, message
    <3>7. \A t \in TableNames : rows[t] \subseteq rows'[t]
      BY <3>3, <3>6
    <3>8. rows' \in Database
      BY <3>1, <3>2, <3>5 DEF Database
    <3> QED BY <3>4, <3>6, <3>7, <3>8 DEF message
  <2>2. 10 \in applied => installed >= 10
    BY MigrationsTyped DEF MigrationsInv
  <2>3. MessagesAreLogged'
    BY <1>7, <2>1, <2>2 DEF CreateMessage, MigrationsInv, MessagesAreLogged
  <2> QED BY <1>7, <2>1, <2>3, RowsWritten DEF CreateMessage
<1>8. ASSUME NEW p \in Processes, NEW c \in Conversations, NEW m \in MessageIds,
             MarkRead(p, c, m)
      PROVE  MigrationsInv' /\ \A t \in TableNames : rows[t] \subseteq rows'[t]
  <2>1. /\ rows' \in Database /\ \A t \in TableNames : rows[t] \subseteq rows'[t]
        /\ rows'.messages = rows.messages
        /\ rows'.message_changes = rows.message_changes
    BY <1>8, MigrationsTyped DEF MarkRead, Database, TableNames
  <2>2. MessagesAreLogged'
    BY <1>8, <2>1 DEF MarkRead, MigrationsInv, MessagesAreLogged
  <2> QED BY <1>8, <2>1, <2>2, RowsWritten DEF MarkRead
<1>9. CASE UNCHANGED migrationVars
  BY <1>9 DEF migrationVars, MigrationsInv, MigrationsTypeOK, InOrder, TxOK,
              MessagesAreLogged
<1> QED BY <1>1, <1>2, <1>3, <1>4, <1>5, <1>6, <1>7, <1>8, <1>9, CommitStep
        DEF MigrationsNext, migrationVars

\* The invariant holds in every reachable state.
THEOREM MigrationsInvariant == MigrationsSpec => []MigrationsInv
<1>1. MigrationsInv /\ [MigrationsNext]_migrationVars => MigrationsInv'
  BY MigrationsStep
<1> QED BY <1>1, MigrationsInitial, PTL DEF MigrationsSpec

\* The tables and the servers keep their types, and one transaction is open.
THEOREM MigrationsTypeCorrect == MigrationsSpec => []MigrationsTypeOK
<1>1. MigrationsInv => MigrationsTypeOK
  BY DEF MigrationsInv
<1> QED BY <1>1, MigrationsInvariant, PTL

\* A server that serves has every file of its release, and each took effect once,
\* however many servers start together and wherever they stop.
THEOREM SchemaIsAlwaysComplete == MigrationsSpec => []SchemaIsComplete
<1>1. MigrationsInv => SchemaIsComplete
  BY DEF MigrationsInv, SchemaIsComplete, InOrder
<1> QED BY <1>1, MigrationsInvariant, PTL

\* Once 0010 is applied every message is in the log of changes.
THEOREM MessagesAreAlwaysLogged == MigrationsSpec => []MessagesAreLogged
<1>1. MigrationsInv => MessagesAreLogged
  BY DEF MigrationsInv
<1> QED BY <1>1, MigrationsInvariant, PTL

\* No row goes with an upgrade from a release that had 0005.
THEOREM RowsAreAlwaysKeptSince0005 == MigrationsSpec => RowsAreKeptSince0005
<1>1. MigrationsInv /\ [MigrationsNext]_migrationVars =>
        [5 \in applied =>
           \A t \in TableNames : rows[t] \subseteq rows'[t]]_migrationVars
  BY MigrationsStep
<1> QED BY <1>1, MigrationsInvariant, PTL
        DEF MigrationsSpec, RowsAreKeptSince0005

\* Where no release before 0005_group_conversations.sql was ever installed there
\* is no row until that file is applied.
LEMMA NoRowBefore0005 ==
  ASSUME Releases \subseteq 5 .. 12
  PROVE  MigrationsSpec => [](5 \notin applied => rows = EmptyTables)
<1> DEFINE Empty == 5 \notin applied => rows = EmptyTables
<1>1. MigrationsInit => Empty
  BY DEF MigrationsInit
<1>2. ASSUME MigrationsInv, Empty, [MigrationsNext]_migrationVars PROVE Empty'
  <2>1. ASSUME NEW p, At(p, "serve") PROVE 5 \in applied
    <3>1. 1 .. installed \subseteq applied /\ installed \in 5 .. 12
      BY <1>2, <2>1, MigrationsTyped DEF At, MigrationsInv, InOrder
    <3> QED
      BY <3>1
  <2>2. ASSUME NEW p \in Processes, Commit(p) PROVE Empty'
    <3> DEFINE file == processes[p].file
    <3>1. /\ file \in Files /\ rows \in Database
          /\ applied' = applied \cup {file} /\ rows' = Effect(file, rows)
      BY <1>2, <2>2, MigrationsTyped DEF Commit, At, MigrationsInv, TxOK
    <3>2. \A other \in Files \ {5} : Effect(other, EmptyTables) = EmptyTables
      <4> SUFFICES ASSUME NEW other \in Files \ {5}
                   PROVE  Effect(other, EmptyTables) = EmptyTables
        OBVIOUS
      <4>1. CASE other = 10
        <5>1. Effect(other, EmptyTables) = RecordExistingMessages(EmptyTables)
          BY <4>1 DEF Effect
        <5> QED
          BY <5>1 DEF RecordExistingMessages, EmptyTables
      <4>2. CASE other = 11
        <5>1. Effect(other, EmptyTables) = RebuildMessages(EmptyTables)
          BY <4>2 DEF Effect
        <5> QED
          BY <5>1 DEF RebuildMessages, DropMessages, EmptyTables
      <4>3. CASE other \notin {5, 10, 11}
        BY <4>3 DEF Effect
      <4> QED
        BY <4>1, <4>2, <4>3
    <3> QED
      BY <1>2, <3>1, <3>2
  <2>3. ASSUME NEW p \in Processes, Start(p) \/ Check(p) \/ Execute(p) \/ Stop(p)
        PROVE  Empty'
    BY <1>2, <2>3 DEF Start, Check, Execute, Stop
  <2>4. ASSUME NEW p \in Processes, NEW c \in Conversations,
               \/ CreateConversation(p, c)
               \/ \E m \in MessageIds : CreateMessage(p, c, m) \/ MarkRead(p, c, m)
        PROVE  Empty'
    BY <2>1, <2>4 DEF CreateConversation, CreateMessage, MarkRead
  <2>5. CASE Install \/ UNCHANGED migrationVars
    BY <1>2, <2>5 DEF Install, migrationVars
  <2> QED
    BY <1>2, <2>2, <2>3, <2>4, <2>5 DEF MigrationsNext
<1>3. MigrationsInv /\ Empty /\ [MigrationsNext]_migrationVars => Empty'
  BY <1>2
<1> QED
  BY <1>1, <1>3, MigrationsInvariant, PTL DEF MigrationsSpec

\* So there no upgrade deletes anything: what docs/architecture.md says of
\* messages fails only for a database that served a release before 0005.
THEOREM NothingIsLostFrom0005On ==
  ASSUME Releases \subseteq 5 .. 12
  PROVE  MigrationsSpec => MessagesStayPersisted
<1> DEFINE Empty == 5 \notin applied => rows = EmptyTables
           Kept == \A t \in TableNames : rows[t] \subseteq rows'[t]
<1>1. ASSUME MigrationsInv, Empty, [MigrationsNext]_migrationVars PROVE Kept
  <2>1. CASE 5 \in applied
    BY <1>1, <2>1, MigrationsStep
  <2>2. CASE 5 \notin applied
    <3>1. \A t \in TableNames : rows[t] = {}
      BY <1>1, <2>2 DEF TableNames, EmptyTables
    <3> QED
      BY <3>1
  <2> QED
    BY <2>1, <2>2
<1>2. MigrationsInv /\ Empty /\ [MigrationsNext]_migrationVars
        => [Kept]_migrationVars
  BY <1>1
<1> QED
  BY <1>2, NoRowBefore0005, MigrationsInvariant, PTL
     DEF MigrationsSpec, MessagesStayPersisted
===============================================================================
