\* Two handlers that register, log in and change profiles.
SPECIFICATION Spec
CONSTANTS
  alice = alice  bob = bob  old = old  new = new
  typed1 = typed1  typed2 = typed2  typed3 = typed3
  Names <- MCNames
  Spellings <- MCSpellings
  NameOf <- MCNameOf
  Values <- MCValues
  Fresh <- MCFresh
  Ids = {i1, i2, i3}
  Passwords = {p1, p2}
  Asked <- MCAsked
  Workers = {w1, w2}
  TTL = 1
  MaxTime = 1
INVARIANT SessionsAreEarned
SYMMETRY Symmetry
INVARIANT TypeOK
PROPERTY OnlyStaleWritesUndo
