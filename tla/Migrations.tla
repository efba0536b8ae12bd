------------------------------ MODULE Migrations -------------------------------
(*****************************************************************************)
(* The start of the server: storage.Open and storage.Migrate over the files  *)
(* of migrations/, as cmd/server/main.go runs them.  Each file runs in a     *)
(* transaction that also records it in schema_migrations.  A process may     *)
(* stop at any statement, and several may start on one database; between     *)
(* two releases the servers write rows, which the next release migrates.     *)
(*                                                                           *)
(* The tables are those of conversations and messages; the migrations that   *)
(* only create tables or add columns with a default leave their rows alone.  *)
(*****************************************************************************)
EXTENDS Integers, Sequences, FiniteSets, Tables

CONSTANTS
  Conversations,  \* ids of conversations
  MessageIds,     \* ids of messages
  Processes,      \* servers that may run on the database at one time
  Releases        \* the numbers of files that releases bring, of the 12

\* The files, in the order of their names.
Files == 1 .. 12

ASSUME MigrationsAssumption == Releases \subseteq Files /\ Releases # {}

VARIABLES
  installed,  \* the number of files of the installed release
  applied,    \* schema_migrations
  rows,       \* the rows of each table
  processes,  \* the servers, each at one of its files or serving
  tx,         \* the open write transaction, by its process: rows to commit
  runs        \* history: how often the statements of a file took effect

migrationVars == <<installed, applied, rows, processes, tx, runs>>

-------------------------------------------------------------------------------

\* The tables by name: a conversation, its members, the messages, by
\* <<conversation, message>>, and what refers to a message.
Database ==
  [conversations : SUBSET Conversations,
   conversation_members : SUBSET Conversations,
   messages : SUBSET (Conversations \X MessageIds),
   read_receipts : SUBSET (Conversations \X MessageIds),
   message_changes : SUBSET (Conversations \X MessageIds)]

TableNames == DOMAIN rows

\* A server is about to look its file up, to run it, to commit it, or serves.
Process == [stage : {"check", "execute", "commit", "serve"}, file : Files]

MigrationsTypeOK ==
  /\ installed \in Releases
  /\ applied \subseteq Files
  /\ rows \in Database
  /\ IsTable(processes, Processes, Process)
  /\ IsTable(tx, Processes, Database)
  /\ Cardinality(DOMAIN tx) <= 1
  /\ runs \in [Files -> Nat]

EmptyTables ==
  [conversations |-> {}, conversation_members |-> {}, messages |-> {},
   read_receipts |-> {}, message_changes |-> {}]

MigrationsInit ==
  /\ installed \in Releases
  /\ applied = {}
  /\ rows = EmptyTables
  /\ processes = NoRows
  /\ tx = NoRows
  /\ runs = [f \in Files |-> 0]

-------------------------------------------------------------------------------
(* What the files do to rows *)

\* DROP TABLE messages: with foreign_keys ON, SQLite deletes its rows first,
\* and ON DELETE CASCADE those that refer to them.
DropMessages(db) ==
  [db EXCEPT !.messages = {}, !.read_receipts = {}, !.message_changes = {}]

\* DROP TABLE conversations, in the same way.
DropConversations(db) ==
  [DropMessages(db) EXCEPT !.conversations = {}, !.conversation_members = {}]

\* 0005_group_conversations.sql: conversations are copied, dropped, and the
\* copy takes their name.  PRAGMA defer_foreign_keys defers the check of a
\* reference, not the cascade.
RebuildConversations(db) ==
  [DropConversations(db) EXCEPT !.conversations = db.conversations]

\* Mutant: the log starts empty.
RecordNone(db) == db

\* 0010_message_changes.sql: a change for each message that has none.
RecordExistingMessages(db) ==
  [db EXCEPT !.message_changes = @ \cup db.messages]

\* Mutant: the table that refers to messages is dropped after them.
RebuildMessagesFirst(db) ==
  [DropMessages(db) EXCEPT !.messages = db.messages,
                           !.message_changes = db.message_changes]

\* 0011_sticker_messages.sql, in the order of its statements: receipts and
\* changes are kept in copies without references and dropped; messages are
\* copied, dropped, and the copy takes their name; the others are filled again.
RebuildMessages(db) ==
  LET withoutReferences ==
        [db EXCEPT !.read_receipts = {}, !.message_changes = {}]
      rebuilt ==
        [DropMessages(withoutReferences) EXCEPT
           !.messages = withoutReferences.messages]
  IN [rebuilt EXCEPT !.read_receipts = db.read_receipts,
                     !.message_changes = db.message_changes]

Effect(file, db) ==
  CASE file = 5  -> RebuildConversations(db)
    [] file = 10 -> RecordExistingMessages(db)
    [] file = 11 -> RebuildMessages(db)
    [] OTHER     -> db

-------------------------------------------------------------------------------
(* Migrate *)

\* The process opens the database; ensureMigrationsTable changes nothing that
\* exists.
Start(p) ==
  /\ p \notin DOMAIN processes
  /\ processes' = Put(processes, p, [stage |-> "check", file |-> 1])
  /\ UNCHANGED <<installed, applied, rows, tx, runs>>

\* The process goes on after its file.
AfterFile(p) ==
  processes' = [processes EXCEPT
    ![p] = IF @.file < installed THEN [stage |-> "check", file |-> @.file + 1]
           ELSE [@ EXCEPT !.stage = "serve"]]

At(p, stage) == p \in DOMAIN processes /\ processes[p].stage = stage

\* migrationApplied: a statement of its own.
Check(p) ==
  /\ At(p, "check")
  /\ IF processes[p].file \in applied THEN AfterFile(p)
     ELSE processes' = [processes EXCEPT ![p].stage = "execute"]
  /\ UNCHANGED <<installed, applied, rows, tx, runs>>

\* Mutant: a second writer does not wait.
NeverLocked == TRUE

\* SQLite has one writer at a time.
Unlocked == tx = NoRows

\* BeginTx and the statements of the file, seen by nobody else.
Execute(p) ==
  /\ At(p, "execute")
  /\ Unlocked
  /\ tx' = Put(tx, p, Effect(processes[p].file, rows))
  /\ processes' = [processes EXCEPT ![p].stage = "commit"]
  /\ UNCHANGED <<installed, applied, rows, runs>>

\* Mutant: a version that is there already is no error.
MayRecordAgain(file) == TRUE

\* INSERT INTO schema_migrations, whose key is the version.
MayRecord(file) == file \notin applied

\* The file is recorded and the transaction commits.
Commit(p) ==
  LET file == processes[p].file
  IN /\ At(p, "commit")
     /\ MayRecord(file)
     /\ applied' = applied \cup {file}
     /\ rows' = tx[p]
     /\ tx' = NoRows
     /\ runs' = [runs EXCEPT ![file] = @ + 1]
     /\ AfterFile(p)
     /\ UNCHANGED installed

\* The process ends: a statement fails (the version is recorded already, a
\* column exists, the database is locked), it is stopped, or it crashes.  An
\* open transaction is rolled back.
Stop(p) ==
  /\ p \in DOMAIN processes
  /\ processes' = Remove(processes, {p})
  /\ tx' = Remove(tx, {p})
  /\ UNCHANGED <<installed, applied, rows, runs>>

-------------------------------------------------------------------------------
(* Releases and their servers *)

\* A newer release is installed while nothing runs.
Install ==
  /\ processes = NoRows
  /\ \E release \in Releases :
       release > installed /\ installed' = release
  /\ UNCHANGED <<applied, rows, processes, tx, runs>>

\* CreateDirectConversation, in a release with 0003_social_graph.sql.
CreateConversation(p, c) ==
  /\ At(p, "serve") /\ Unlocked
  /\ installed >= 3
  /\ c \notin rows.conversations
  /\ rows' = [rows EXCEPT !.conversations = @ \cup {c},
                          !.conversation_members = @ \cup {c}]
  /\ UNCHANGED <<installed, applied, processes, tx, runs>>

\* CreateMessage, in a release with 0004_messages.sql, by a member; it records
\* the change in a release with 0010_message_changes.sql.
CreateMessage(p, c, m) ==
  /\ At(p, "serve") /\ Unlocked
  /\ installed >= 4
  /\ c \in rows.conversation_members
  /\ <<c, m>> \notin rows.messages
  /\ rows' = [rows EXCEPT
                !.messages = @ \cup {<<c, m>>},
                !.message_changes =
                   IF installed >= 10 THEN @ \cup {<<c, m>>} ELSE @]
  /\ UNCHANGED <<installed, applied, processes, tx, runs>>

\* MarkConversationRead.
MarkRead(p, c, m) ==
  /\ At(p, "serve") /\ Unlocked
  /\ <<c, m>> \in rows.messages \ rows.read_receipts
  /\ rows' = [rows EXCEPT !.read_receipts = @ \cup {<<c, m>>}]
  /\ UNCHANGED <<installed, applied, processes, tx, runs>>

MigrationsNext ==
  \/ \E p \in Processes :
       \/ Start(p)
       \/ Check(p)
       \/ Execute(p)
       \/ Commit(p)
       \/ Stop(p)
       \/ \E c \in Conversations :
            \/ CreateConversation(p, c)
            \/ \E m \in MessageIds : CreateMessage(p, c, m) \/ MarkRead(p, c, m)
  \/ Install

MigrationsSpec == MigrationsInit /\ [][MigrationsNext]_migrationVars

-------------------------------------------------------------------------------
(* Properties *)

\* A server that serves has a database with every file of its release applied,
\* and the statements of a file took effect as often as it is recorded, once,
\* wherever processes stopped and however many started together.
SchemaIsComplete ==
  /\ \A p \in DOMAIN processes :
       processes[p].stage = "serve" => 1 .. installed \subseteq applied
  /\ \A file \in Files : runs[file] = (IF file \in applied THEN 1 ELSE 0)

\* Once the log of changes exists every message is in it, those of earlier
\* releases included, so that a sync from the start brings them all
\* (0010_message_changes.sql, and 0011 that copies the log).
MessagesAreLogged ==
  10 \in applied => rows.messages \subseteq rows.message_changes

\* No row goes with an upgrade from a release that had 0005.
RowsAreKeptSince0005 ==
  [][5 \in applied => \A t \in TableNames : rows[t] \subseteq rows'[t]]_migrationVars

\* docs/architecture.md: "Messages are persisted before realtime delivery and
\* include read receipts for conversation members".  No upgrade deletes them.
MessagesStayPersisted ==
  [][\A t \in TableNames : rows[t] \subseteq rows'[t]]_migrationVars
===============================================================================
