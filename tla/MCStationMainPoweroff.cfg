SPECIFICATION FairSpec
CONSTANTS
  num_threads = 2
  Servo = Servo
  SWITCH_FRAMES = 1
PROPERTIES
  PowerOffStopsStation
CHECK_DEADLOCK FALSE
