CONSTANTS
  Client = {1, 2, 3}
  Name = {"ANNE", "BOB"}
  RoomId = {r1}
  None = None
  MaxClients = 10
  MaxPerIp = 3
  ListMax = 8
  CrcTable = 4
  Delay = 3
  Console = {"A", "B"}
  NameOf <- TwoNames
  MaxFlight = 2
  MaxResets = 1
SPECIFICATION Spec
INVARIANT ListedAnswers
CHECK_DEADLOCK FALSE
