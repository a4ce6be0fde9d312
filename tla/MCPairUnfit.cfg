SPECIFICATION Spec
CONSTANTS
  None = None
  L = L  F = F  app = app  tool = tool  d1 = d1  d2 = d2
  Boards <- TwoBoards
  Linked <- TwoBoards
  ImuUp <- FollowerOnly
  Roles <- Rover
  Track = {}
  Controllers = {}
  Digests = {d1}
  ForeignFrames <- NoFrames
  Env = {"press"}
  Refs = {1}
  TurnCmds = {1}
  Ticks = {1}
  EnvCap = 1
  EnvDecay = 1
  PickupTrip = 0
  WinddownTrip = 0
  HealthLoss = 2
  HealthRecover = 3
  IdleLimit = 0
  RigidStale = 1
  CyclicTimeout = 2
  InputsTimeout = 2
  EmitTicks = 1
  Skew = 1
  Prompt = TRUE
INVARIANTS UnfitLeaderIsQuiet
