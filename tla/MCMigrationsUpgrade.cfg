\* An upgrade to 0005 of a database with messages.
SPECIFICATION MigrationsSpec
CONSTANTS
  Conversations = {c1}
  MessageIds = {m1, m2}
  Processes = {p1, p2}
  Releases = {4, 5, 9, 10, 12}
SYMMETRY Symmetry
PROPERTY MessagesStayPersisted
