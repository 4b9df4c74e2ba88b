\* The same instance, against the contract of UdpSocket::recv.
SPECIFICATION Spec
CONSTANTS
  single = single
  bundle = bundle
  broken = broken
  a = a
  b = b
  c = c
  d = d
  Packets = {single}
  Malformed = {}
  Msgs = {a, b, c, d}
  Body <- MCBody
  Ports = {7770}
  Socks = {s1, s2}
  Fds = {5, 6}
  Strangers = {http}
  Free = Free
INVARIANTS OwnDescriptorOnly
