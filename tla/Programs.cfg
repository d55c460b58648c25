SPECIFICATION Spec
CONSTANTS
  Peers = {c1, c2}
  \* NALLOC is 1 so that the second connection makes both tables grow.
  NALLOC = 1
  MaxReq = 1
  MaxStale = 1
  \* 255 is the largest status, 256 the first that does not fit.
  MAXLINE = 5
  Codes = {1, 255, 256}
  MaxCalls = 2
  MaxTries = 2
  MaxFd = 6
  MaxPopen = 2
  \* More lines than the pipe holds.
  NLines = 3
  Room = 2
  NQ = 2
  MAXMSZ = 2
  \* More than one read of data.
  BUFLEN = 2
  MaxSent = 3
  Flags = {{"O_CREAT", "O_TRUNC"}, {"O_CREAT"}, {}}
  MaxOpen = 3
  \* Two signals: one while the other is handled.
  MaxSend = 2
  MaxSig = 2
  MaxOut = 1
  \* More blocks than buffers, the last one short.
  NBUF = 2
  MaxSize = 7
  Size = 3
  MaxOps = 4
  OPEN_MAX = 5
  Residue = {0}
  MaxGrow = 1
  MaxFail = 1
  MaxMsg = 2
  MaxSpurious = 1
INVARIANTS
  UidRight DescriptorsRight AnswersRight DataInOrder
  OneAtATime WaitsSafely SignalsHandled LeftAsFound
PROPERTIES
  RequestsHonoured LeftoversCleared WorkEnds
CHECK_DEADLOCK FALSE
