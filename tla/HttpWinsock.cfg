\* One client, and one start that fails.
SPECIFICATION Spec
CONSTANTS
  Clients = {c1}
  Stallers = {}
  Ports = {7770}
  NoPort = NoPort
  NoClient = NoClient
  Refresh = 3
  MaxOthers = 1
  MaxFailed = 1
INVARIANTS WinsockHeld
