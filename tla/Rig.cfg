CONSTANTS
  Client <- Connections
  Name <- Names
  RoomId = {r1, r2, r3}
  None = None
  MaxClients = 10
  MaxPerIp = 5
  ListMax = 8
  CrcTable = 4
  Delay = 3
  Seats = 2
  Cap = 5
  Slots = 4
  Idlers = 1
  SoakTicks = 2
  Scenes = {"roster", "rooms", "start", "relay", "drops", "framing", "limits", "main", "autogo", "full", "soak"}
SPECIFICATION FairSpec
INVARIANTS TypeOK   GateHolds SoakIsLive
PROPERTIES ScriptEnds ImplementsRelay
CHECK_DEADLOCK FALSE
