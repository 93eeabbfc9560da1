CONSTANTS
  Workers = {w1, w2}
  Boards = {b1}
  BadId = BadId
  Elements = {e1, e2}
  NoElement = NoElement
  Users = {0, 1, 2}
  FirstId = 3
  RequestTypes <- AllTypes
  InitialDocs <- AnyStart
  Free = Free
  MaxRequests = 3
  MaxFaults = 1
SPECIFICATION Spec
SYMMETRY Symmetry
INVARIANTS
  TypeOK
  MutexHeldBySender
  MemberRegistered
  OnlyMembersDraw
PROPERTIES
  AnsweredOnce
  RefinesBoardStore
