CONSTANTS
  Writes = {w1}
  MaxRetries = 0
  ClientRetries = 0
  MaxReconnects = 1
  ChannelSize = 1
  MaxDials = 1
  MaxLoops = 1

SPECIFICATION Spec

INVARIANT Resubscribed

CHECK_DEADLOCK FALSE
