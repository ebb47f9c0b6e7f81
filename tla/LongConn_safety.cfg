SPECIFICATION Spec
CONSTANTS
  MaxOpens = 2
  MaxSends = 2
  MaxId = 2
  Cap = 1
  PushCap = 2
INVARIANTS TypeOK NoLeakedEntry EntryLossHasCause NothingLostAtDisconnect
PROPERTIES DeliveredInOrder
CHECK_DEADLOCK FALSE
