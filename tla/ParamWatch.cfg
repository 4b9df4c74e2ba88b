\* Two parameters of a module that may go and come back, one of them driven.
SPECIFICATION Spec
CONSTANTS
  m1 = m1
  m2 = m2
  p1 = p1
  p2 = p2
  Modules = {m1}
  Params = {p1, p2}
  Low = 0
  High = 2
  Requests <- MCRequests
  Driven <- MCDriven
  Unwatched = Unwatched
  Unheard = Unheard
INVARIANTS TypeOK
PROPERTIES WatchExact
