SPECIFICATION FairSpec
CONSTANTS
  None = None
  L = L  F = F  app = app  tool = tool  d1 = d1  d2 = d2
  Boards <- OneBoard
  Linked <- OneBoard
  ImuUp <- OneBoard
  Roles <- Follower
  Track = {"quiet", "mirror"}
  Controllers = {app, tool}
  Digests = {d1, d2}
  ForeignFrames <- LeaderFrames
  Env = {"config", "trip", "reboot"}
  Refs <-Still
  TurnCmds <- Still
  Ticks = {0, 1}
  EnvCap = 2
  EnvDecay = 1
  PickupTrip = 1
  WinddownTrip = 1
  HealthLoss = 2
  HealthRecover = 3
  IdleLimit = 2
  RigidStale = 1
  CyclicTimeout = 2
  InputsTimeout = 2
  EmitTicks = 1
  Skew = 1
  Prompt = FALSE
INVARIANTS SilenceRevokesRequest LossIsReal
PROPERTIES TripStops
