CONSTANTS
  Inputs <- MCInputs
  Idle <- MCIdle
  Sampled <- MCSampled
  Delay = 1
  TickSpan = 12
  PageSize = 4
  CrcEvery = 4
  ResumeAhead = 2
  PendMax = 2
  GateRounds = 0
  HoldRounds = 0
  NParts = 2
  Summed = {1}
  MaxGlitch = 1
  MayLoseRoom = FALSE
  MaxTick = 11
SPECIFICATION FairSpec
INVARIANTS TypeOK InputsAgree WithinDelay NoChunkRefused
PROPERTIES ImageAtomic AlarmIsReal Progress Repaired
