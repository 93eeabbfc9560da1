CONSTANTS
  Workers = {w1, w2}
  Boards = {b1}
  BadId = BadId
  Elements = {e1, e2}
  NoElement = NoElement
  Users = {1}
  FirstId = 3
  RequestTypes <- Sessions
  InitialDocs <- OneShared
  Free = Free
  MaxRequests = 2
  MaxFaults = 0
SPECIFICATION Spec
INVARIANTS
  OnlyConnectedSockets
