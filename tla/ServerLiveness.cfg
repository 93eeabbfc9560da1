CONSTANTS
  Workers = {w1, w2}
  Boards = {b1}
  BadId = BadId
  Elements = {e1, e2}
  NoElement = NoElement
  Users = {1, 2}
  FirstId = 3
  RequestTypes <- AllTypes
  InitialDocs <- OneShared
  Free = Free
  MaxRequests = 3
  MaxFaults = 1
SPECIFICATION FairSpec
PROPERTIES
  HandlersEnd
