SPECIFICATION FairSpec
CONSTANTS
  VisibleCamera = VisibleCamera
  IRCamera = IRCamera
  Servo = Servo
  NoThread = NoThread
  w1 = w1
  w2 = w2
  v1 = v1
  r1 = r1
  Workers <- MCWorkers
  Viewers <- MCNoViewers
  Remotes <- MCRemotes
  MaxRaw = 1
  MaxInference = 1
  MaxFrames = 2
PROPERTIES
  ResultReachesServo
  ThreadsStop
