\* Two clients, one of which may stall; every restart and switch.
SPECIFICATION FairSpec
CONSTANTS
  Clients = {c1, c2}
  Stallers = {c1}
  Ports = {7770, 8000}
  NoPort = NoPort
  NoClient = NoClient
  Refresh = 3
  MaxOthers = 1
  MaxFailed = 2
INVARIANTS TypeOK HandlerOutlivesThread DocumentRecent HttpStatusHonest
           StaleFdOnlyInStop HostInfoNamesEndpoint
PROPERTIES StopReturnsOrStalls
