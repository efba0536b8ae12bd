------------------------------- MODULE Accounts -------------------------------
(*****************************************************************************)
(* Accounts, sessions and profiles: internal/service/auth.go over the users  *)
(* table of internal/store/sqlite.go and the tokens of internal/auth.        *)
(*                                                                           *)
(* A handler is its sequence of statements: what it read may be old when it  *)
(* writes.  A session is a signed token that only the client keeps, so no    *)
(* restart ends it; bcrypt and the signature are taken to tell passwords and *)
(* tokens apart.                                                             *)
(*****************************************************************************)
EXTENDS Integers, Tables

CONSTANTS
  Ids,        \* what ids.New may return
  Names,      \* usernames as they are stored
  Spellings,  \* usernames as they are typed, those of the right form
  NameOf,     \* normalizeUsername, on the spellings it accepts
  Passwords,
  Values,     \* what a field of a profile may hold
  Fresh,      \* profiles that accounts are registered with
  Workers,    \* handlers that run at the same time
  Asked,      \* changes of a profile that are asked for
  TTL,        \* seconds a token is good for
  MaxTime     \* bound: the last second of the clock

Fields == {"displayName", "avatarUrl", "bio"}
Profile == [Fields -> Values]

\* The fields that a PATCH names, with the values it gives them.
Changes == UNION {[named -> Values] : named \in SUBSET Fields \ {{}}}

ASSUME AccountsAssumption ==
  /\ NameOf \in [Spellings -> Names]
  /\ Fresh \subseteq Profile /\ Asked \subseteq Changes
  /\ TTL \in Nat \ {0} /\ MaxTime \in Nat

VARIABLES
  users,     \* the table of accounts
  sessions,  \* the tokens that were issued
  calls,     \* where each handler is
  now        \* the clock, in seconds

vars == <<users, sessions, calls, now>>

-------------------------------------------------------------------------------
(* Types *)

Times == 0 .. MaxTime
User == [username : Names, password : Passwords, profile : Profile]

\* given is the password that the session was asked for with.
Session == [sub : Ids, exp : 0 .. MaxTime + TTL, given : Passwords]

\* A handler holds the row it built or read, and is before the named statement.
Idle == [stage |-> "idle"]
Call ==
  {Idle}
  \cup [stage : {"create", "issue"}, id : Ids, user : User, given : Passwords]
  \cup [stage : {"find"}, name : Names, given : Passwords]
  \cup [stage : {"write"}, id : Ids, user : User, change : Asked]

\* The table, tokens and handlers hold what the schema and the structs say.
TypeOK ==
  /\ IsTable(users, Ids, User)
  /\ sessions \subseteq Session
  /\ calls \in [Workers -> Call]
  /\ now \in Times

Init ==
  /\ users = NoRows
  /\ sessions = {}
  /\ calls = [w \in Workers |-> Idle]
  /\ now = 0

-------------------------------------------------------------------------------
(* Sessions *)

Finish(w) == calls' = [calls EXCEPT ![w] = Idle]

\* buildUser: the input is normalized and a new id is drawn.
BeginRegister(w) ==
  /\ calls[w].stage = "idle"
  /\ \E spelling \in Spellings, password \in Passwords, profile \in Fresh,
        id \in Ids :
       /\ id \notin DOMAIN users
       /\ calls' = [calls EXCEPT ![w] =
            [stage |-> "create", id |-> id, given |-> password,
             user |-> [username |-> NameOf[spelling], password |-> password,
                       profile |-> profile]]]
  /\ UNCHANGED <<users, sessions, now>>

NameIsTaken(name) == \E id \in DOMAIN users : users[id].username = name

\* Mutant: INSERT OR IGNORE, so the error that says the name is taken is lost.
CreatedOrIgnored(id, user) ==
  users' = IF NameIsTaken(user.username) THEN users ELSE Put(users, id, user)

\* The PRIMARY KEY and the UNIQUE username refuse a second account.
Created(id, user) ==
  /\ id \notin DOMAIN users
  /\ ~NameIsTaken(user.username)
  /\ users' = Put(users, id, user)

Create(w) ==
  /\ calls[w].stage = "create"
  /\ Created(calls[w].id, calls[w].user)
  /\ calls' = [calls EXCEPT ![w].stage = "issue"]
  /\ UNCHANGED <<sessions, now>>

BeginLogin(w) ==
  /\ calls[w].stage = "idle"
  /\ \E spelling \in Spellings, password \in Passwords :
       /\ calls' = [calls EXCEPT ![w] =
            [stage |-> "find", name |-> NameOf[spelling], given |-> password]]
  /\ UNCHANGED <<users, sessions, now>>

\* FindByUsername and ComparePassword.
Login(w) ==
  /\ calls[w].stage = "find"
  /\ \E id \in DOMAIN users :
       /\ users[id].username = calls[w].name
       /\ users[id].password = calls[w].given
       /\ calls' = [calls EXCEPT ![w] =
            [stage |-> "issue", id |-> id, user |-> users[id],
             given |-> calls[w].given]]
  /\ UNCHANGED <<users, sessions, now>>

IssueSession(w) ==
  /\ calls[w].stage = "issue"
  /\ sessions' = sessions \cup
       {[sub |-> calls[w].id, exp |-> now + TTL, given |-> calls[w].given]}
  /\ Finish(w)
  /\ UNCHANGED <<users, now>>

-------------------------------------------------------------------------------
(* Profiles *)

\* userForToken: Validate accepts a token in the second it expires, and the row
\* of its subject is read.
Authenticate(w) ==
  /\ calls[w].stage = "idle"
  /\ \E session \in sessions, change \in Asked :
       /\ now <= session.exp
       /\ session.sub \in DOMAIN users
       /\ calls' = [calls EXCEPT ![w] =
            [stage |-> "write", id |-> session.sub, user |-> users[session.sub],
             change |-> change]]
  /\ UNCHANGED <<users, sessions, now>>

\* Mutant: the row is replaced by what the request holds.
UpdatedOnly(profile, change) == change

\* Mutant: a field that the request leaves out counts as empty.
UpdatedOrEmpty(profile, change) ==
  [f \in Fields |->
     IF f \in DOMAIN change THEN change[f] ELSE CHOOSE v \in Values : TRUE]

Updated(profile, change) == Merge(profile, change)

\* UpdateProfile: all three fields are written, those not asked for as they were
\* when the row was read.
UpdateProfile(w) ==
  /\ calls[w].stage = "write"
  /\ calls[w].id \in DOMAIN users
  /\ users' = [users EXCEPT ![calls[w].id].profile =
                 Updated(calls[w].user.profile, calls[w].change)]
  /\ Finish(w)
  /\ UNCHANGED <<sessions, now>>

-------------------------------------------------------------------------------
\* The handler ends: the request was cancelled, a statement failed, the name is
\* taken, the password is wrong.  An account that was created stays.
Abort(w) ==
  /\ calls[w].stage # "idle"
  /\ Finish(w)
  /\ UNCHANGED <<users, sessions, now>>

Tick ==
  /\ now < MaxTime
  /\ now' = now + 1
  /\ UNCHANGED <<users, sessions, calls>>

Next ==
  \/ Tick
  \/ \E w \in Workers :
       \/ BeginRegister(w) \/ Create(w)
       \/ BeginLogin(w) \/ Login(w)
       \/ IssueSession(w)
       \/ Authenticate(w) \/ UpdateProfile(w)
       \/ Abort(w)

Spec == Init /\ [][Next]_vars

-------------------------------------------------------------------------------
(* Properties *)

\* A token names an account that exists and whose password its client gave:
\* whoever loses the race for a name gets no session, neither for the account of
\* the winner nor for one that is not there.
SessionsAreEarned ==
  \A session \in sessions :
    /\ session.sub \in DOMAIN users
    /\ users[session.sub].password = session.given

\* The handler is about to write over f, which it does not name and which is no
\* longer what it read.
IsStale(w, id, f) ==
  /\ calls[w].stage = "write" /\ calls[w].id = id
  /\ f \notin DOMAIN calls[w].change
  /\ calls[w].user.profile[f] # users[id].profile[f]

\* UpdateProfile writes all three columns, so a request can undo another's
\* change of a field it does not name; but only of one that committed between
\* its own read and write.  As long as no handler is stale in a field, the field
\* changes by a request that names it, and no handler becomes stale otherwise.
OnlyStaleWritesUndo ==
  [][\A id \in DOMAIN users, f \in Fields :
       (\A w \in Workers : ~IsStale(w, id, f)) =>
         \/ \E w \in Workers :
              /\ UpdateProfile(w)
              /\ calls[w].id = id /\ f \in DOMAIN calls[w].change
         \/ /\ users'[id].profile[f] = users[id].profile[f]
            /\ \A w \in Workers : ~IsStale(w, id, f)']_vars

\* A profile changes only in the fields that the request being written names.
FieldsAreKept ==
  [][\A id \in DOMAIN users, f \in Fields :
       users'[id].profile[f] # users[id].profile[f] =>
         \E w \in Workers :
           /\ calls[w].stage = "write" /\ calls'[w].stage = "idle"
           /\ calls[w].id = id
           /\ f \in DOMAIN calls[w].change]_vars
===============================================================================
