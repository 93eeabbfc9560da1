CONSTANTS
  Workers = {w1, w2, w3}
  Names = {n1, n2}
  NoName = NoName
  Passwords = {p1, p2}
  NoPassword = NoPassword
  MaxRequests = 4
  MaxFaults = 1
SYMMETRY Symmetry
SPECIFICATION Spec
INVARIANTS
  FreshIds
  IdsTellUsersApart
  UniqueUnlessRaced
PROPERTIES
  AnsweredOnce
