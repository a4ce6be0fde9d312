SPECIFICATION Spec
CONSTANTS
  None = None
  L = L  F = F  app = app  tool = tool  d1 = d1  d2 = d2
  Boards <- OneBoard
  Linked <- NoBoards
  ImuUp <- OneBoard
  Roles <- Either
  Track = {"since", "held", "tumbled"}
  Controllers = {}
  Digests = {d1}
  ForeignFrames <- NoFrames
  Env = {"tilt", "gate", "rider", "button", "trip", "period", "confirm", "hall"}
  Refs = {3}
  TurnCmds <- Still
  Ticks = {0, 1}
  EnvCap = 3
  EnvDecay = 1
  PickupTrip = 1
  WinddownTrip = 1
  HealthLoss = 2
  HealthRecover = 3
  IdleLimit = 0
  RigidStale = 0
  CyclicTimeout = 1
  InputsTimeout = 1
  EmitTicks = 1
  Skew = 1
  Prompt = FALSE
INVARIANTS FaultDisarms SoftStart
PROPERTIES EnergizeDisengaged FallenStaysOff
