SPECIFICATION PairFairSpec
CONSTANTS
  None = None
  L = L  F = F  app = app  tool = tool  d1 = d1  d2 = d2
  Boards <- TwoBoards
  Linked <- TwoBoards
  ImuUp <- TwoBoards
  Roles <- Rover
  Track = {"alone"}
  Controllers = {}
  Digests = {d1}
  ForeignFrames <- NoFrames
  Env = {"press", "hall", "imu"}
  Refs = {2}
  TurnCmds = {0}
  Ticks = {1}
  EnvCap = 2
  EnvDecay = 1
  PickupTrip = 0
  WinddownTrip = 0
  HealthLoss = 1
  HealthRecover = 3
  IdleLimit = 0
  RigidStale = 2
  CyclicTimeout = 3
  InputsTimeout = 2
  EmitTicks = 1
  Skew = 1
  Prompt = TRUE
INVARIANTS LoneWheelBounded
PROPERTIES PairArms
