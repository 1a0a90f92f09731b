SPECIFICATION FairSpec
CONSTANTS
  Sessions = {s1, s2}
  Servo = Servo
  NoOne = NoOne
  max_lost_ = 3
INVARIANTS
  TypeOK
  HeldNotTooLong
  AutoControlReturns
  AtMostOneLateMove
PROPERTIES
  LossReported
