SPECIFICATION MCSpec
CONSTANTS
  Nil = Nil
  Thread = {a, b, c}
  WaitList = {suspend_thread, suspend_sender_thread}
  suspend_thread = suspend_thread
  suspend_sender_thread = suspend_sender_thread
  Sender = {a, b}
  Receiver = {b, c}
  Resetter = {a}
  Message = {m1, m2}
  CompletionTime = {"no", "ticks", "forever"}
  dq_size = 2
  dq_lwm = 1
  IndexRange = 4
  PipeReader = {a}
  PipeWriter = {b, c}
  Poller = {a}
  PipeSize = 2
  WriteSize = {1, 3}
  System = {"ring buffer"}
  Worker = a
  Client = {b, c}
  Work = {w1, w2, w3}
  ListHead = ListHead
  Uses <- AllUses
  Byte = {0, 1}
  RbSize = 4
  PutLength = {1, 3, 5}
  ForceLength = {1, 3}
  GetLength = {1, 3}
  BlkMax = 3
  RbbSize = 4
  BlkSize = {1, 2}
  RxByte = {0, 1}
  RxSize = 4
  RxMode = {"int", "dma"}
  RxRead = {1, 3}
  TxWriter = {a, b}
  TxNode = {m1, m2}
  TxDepth = 2
  FdUser = {a, b, c}
  FdStruct = {f1, f2, f3}
  FdMax = 3
  FdStep = 2
  NoFd = NoFd
PROPERTIES
  RbImplementsRing
