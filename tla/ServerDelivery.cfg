CONSTANTS
  Workers = {w1, w2, w3}
  Boards = {b1}
  BadId = BadId
  Elements = {e1, e2}
  NoElement = NoElement
  Users = {1, 2}
  FirstId = 3
  RequestTypes <- Drawing
  InitialDocs <- OneSharedByTwo
  Free = Free
  MaxRequests = 4
  MaxFaults = 0
SPECIFICATION Spec
SYMMETRY Symmetry
INVARIANTS
  ElementsReachMembers
  LastSentIsTheBoard
