\* An OSC integer of four bits, and a module whose id needs five.
SPECIFICATION Spec
CONSTANTS
  ModuleIds = {0, 1, 17}
  CableIds = {10}
  Self = 0
  Initial = {0, 1}
  InitialCables <- MCInitialCables
  Named = {0, 1, 17}
  OutPorts = {0}
  InPorts = {0}
  WordBits = 4
INVARIANTS DumpedIdResolves
