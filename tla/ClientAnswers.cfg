CONSTANTS
  Boards = {b1, b2}
  NoBoard = NoBoard
  Text = Text
  ForeignBoards = {b2}
  Nobody = Nobody
  Stranger = 1
  Account = 2
  InitialUserIds = {0, 7}
  FirstIds = {0, 3}
  PacketIds = 3
  RequestTypes <- AllTypes
  MaxPending = 2
  MaxRequests = 5
  MaxQueue = 3
SPECIFICATION Spec
CHECK_DEADLOCK FALSE
INVARIANTS
  ResponseMatchesRequest
  BoardIsConfirmed
  OwnerKnowsBoard
