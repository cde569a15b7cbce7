INIT Init
NEXT Next
CHECK_DEADLOCK FALSE
CONSTANTS
  MaxReads = 2
  BufSize = 5
  MaxMessages = 2
  BodyLengths = {0, 1, 2}
  ChunkLists <- MCChunkLists
  MaxFrames = 2
  MaxControls = 1
  BaseSize = 2
  MaxBlocks = 3
  MaxPuts = 2
  FixedValues = {6}
  VarintValues = {1, 6}
  ZigzagValues <- MCZigzags
  StringValues <- MCStrings
  Callers = {"c1", "c2"}
  Conns = {"n1", "n2"}
  MaxRequest = 2
  Users = {u, v}
  MySQLs = {m1, m2}
  PoolSize = 1
SYMMETRY MySQLSymmetry
INVARIANTS
  PoolCounts
  ReplyIsOwn
  PoolHolds
  SessionsClean
  RequestWhole
  ResponseWhole
  BodiesInOrder
  MessagesWhole
  ItemsReadBack
  FileHoldsBytes
