\* Any restarts, any interleaving, another thread that opens descriptors;
\* fair threads for the liveness of stop() and of the hand-over.
SPECIFICATION FairSpec
CONSTANTS
  single = single
  bundle = bundle
  broken = broken
  a = a
  b = b
  c = c
  d = d
  Packets = {single, bundle, broken}
  Malformed = {broken}
  Msgs = {a, b, c, d}
  Body <- MCBody
  Ports = {7770, 8000}
  Socks = {s1, s2}
  Fds = {5, 6}
  Strangers = {http}
  Free = Free
INVARIANTS TypeOK CleanRestart CurrentSocketOnly StatusHonest
PROPERTIES StreamSpec StopReturns PushedIsApplied
