CONSTANTS
  Workers = {w1, w2}
  Boards = {b1}
  BadId = BadId
  Elements = {e1, e2}
  NoElement = NoElement
  Users = {1, 2}
  FirstId = 3
  RequestTypes <- Drawing
  InitialDocs <- OneShared
  Free = Free
  MaxRequests = 2
  MaxFaults = 0
SPECIFICATION Spec
PROPERTIES
  RefusalsAreAnswered
