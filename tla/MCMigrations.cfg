\* Releases before and after each migration that moves rows, two servers that
\* may start together.
SPECIFICATION MigrationsSpec
CONSTANTS
  Conversations = {c1}
  MessageIds = {m1, m2}
  Processes = {p1, p2}
  Releases = {4, 5, 9, 10, 12}
SYMMETRY Symmetry
INVARIANT MigrationsTypeOK
INVARIANT SchemaIsComplete
INVARIANT MessagesAreLogged
PROPERTY RowsAreKeptSince0005
