SPECIFICATION MCSpec
CONSTANTS
  Nil = Nil
  Thread = {a, b, c}
  WaitList = {suspend_thread, suspend_sender_thread}
  suspend_thread = suspend_thread
  suspend_sender_thread = suspend_sender_thread
  Sender = {a, b}
  Receiver = {b, c}
  Resetter = {a}
  Message = {m1, m2}
  Urgent = {m2}
  mb_size = 2
  MqItem = {i1, i2}
  Bit = {1, 2}
  Block = {i1, i2}
  PoolSize = 20
  HeaderSize = 2
  MinAlloc = 1
  HeapRequest = {0, 1, 2, 4, 6}
  Timer = {t1, t2, t3}
  Periodic = {t1}
  TimerUser = {a}
  InitTick = {1, 3}
  TickRange = 12
  MaxLate = 1
  System = {"mailbox", "queue", "event", "pool", "heap", "timers"}
INVARIANTS
  ObjectsAgree
  WaitersAreServed
  HeapAgrees
  TimersInOrder
PROPERTIES
  MbImplementsChannel
  MqImplementsChannel
  EvGrantsExclusive
  TimersFireOnTime
