\* A client that stops reading its answer.
SPECIFICATION FairSpec
CONSTANTS
  Clients = {c1, c2}
  Stallers = {c1}
  Ports = {7770, 8000}
  NoPort = NoPort
  NoClient = NoClient
  Refresh = 3
  MaxOthers = 0
  MaxFailed = 1
PROPERTIES StopReturns
