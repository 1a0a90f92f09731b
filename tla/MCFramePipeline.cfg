SPECIFICATION Spec
CONSTANTS
  VisibleCamera = VisibleCamera
  IRCamera = IRCamera
  Servo = Servo
  NoThread = NoThread
  w1 = w1
  w2 = w2
  v1 = v1
  r1 = r1
  Workers <- MCWorkers
  Viewers <- MCViewers
  Remotes <- MCRemotes
  MaxRaw = 2
  MaxInference = 2
  MaxFrames = 4
INVARIANTS
  TypeOK
  RawQueueOrdered
  ServoAlwaysHasResult
  NoLostResult
PROPERTIES
  ImplementsMailbox
