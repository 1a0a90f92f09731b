SPECIFICATION Spec
CONSTANTS
  Sessions = {s1}
  Servo = Servo
  NoOne = NoOne
  max_lost_ = 2
PROPERTIES
  LostTooLong
