\* Two senders, two checkouts, four passwords.
SPECIFICATION Spec
CONSTANTS
  Users = {u1, u2}
  Checkouts = {c1, c2}
  MaxPassword = 4
  NoUser = NoUser
INVARIANTS TypeOK SendersMatch
PROPERTIES LinesKept
\* It stops when the passwords of the bound are used up.
CHECK_DEADLOCK FALSE
