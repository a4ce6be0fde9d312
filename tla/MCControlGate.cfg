SPECIFICATION Spec
CONSTANTS
  None = None
  L = L  F = F  app = app  tool = tool  d1 = d1  d2 = d2
  Boards <- OneBoard
  Linked <- NoBoards
  ImuUp <- OneBoard
  Roles <- Throttle
  Track = {}
  Controllers = {}
  Digests = {d1, d2}
  ForeignFrames <- NoFrames
  Env = {"config", "press"}
  Refs <- Still
  TurnCmds <- Still
  Ticks = {0, 1}
  EnvCap = 2
  EnvDecay = 1
  PickupTrip = 1
  WinddownTrip = 1
  HealthLoss = 2
  HealthRecover = 3
  IdleLimit = 0
  RigidStale = 1
  CyclicTimeout = 2
  InputsTimeout = 2
  EmitTicks = 1
  Skew = 1
  Prompt = FALSE
PROPERTIES ArmedStoreIsQuiet
