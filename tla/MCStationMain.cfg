SPECIFICATION FairSpec
CONSTANTS
  num_threads = 2
  Servo = Servo
  SWITCH_FRAMES = 3
INVARIANTS
  TypeOK
  ThreadsAccounted
  AsleepMeansStopped
PROPERTIES
  RestartAfterAllEnded
  SwitchNeedsStreak
  CommandObeyed
\* The program ends after a poweroff.
CHECK_DEADLOCK FALSE
