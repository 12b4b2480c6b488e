CONSTANTS
  Inputs <- MCInputs
  Idle <- MCIdle
  Sampled <- MCSampled
  Delay = 1
  TickSpan = 12
  PageSize = 4
  CrcEvery = 4
  ResumeAhead = 2
  PendMax = 1
  GateRounds = 1
  HoldRounds = 1
  NParts = 1
  Summed = {1}
  MaxGlitch = 1
  MayLoseRoom = TRUE
  MaxTick = 3
SPECIFICATION FairSpec
ACTION_CONSTRAINT EarlyFaults
INVARIANTS InputsAgree 
PROPERTIES Settled
