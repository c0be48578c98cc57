\* Two messages each way, connections that hold one, channels as in the code.
CONSTANTS
  MaxMessages = 2
  Capacity = 1
  ErrorBuffer = 1
SPECIFICATION FairSpec
INVARIANTS
  TypeOK
  InOrder
  NothingLost
PROPERTIES
  ClientIsTold
  Ends
  KeepsRelay
