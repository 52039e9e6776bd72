\* The tasks of a node and one request at a time; channels of one message.
CONSTANTS
  Request = {r1}
  ChannelSize = 1
  Batches = {0, 2}
SPECIFICATION Spec
INVARIANTS TypeOK LockProgress OnlyJamStalls
