SPECIFICATION Spec
CONSTANTS
  m1 = m1
  m2 = m2
  m3 = m3
  Mac = {m1, m2, m3}
  RangeStart = 10
  RangeEnd = 11
  Requestable = {9, 10, 11}
  NoIP = NoIP
  None = None
  MaxDrift = 1
  OfferDuration = 1
  LeaseDuration = 2
  MaxTime = 4
SYMMETRY Clients
CONSTRAINT TimeBound
INVARIANTS ExclusiveAddress
PROPERTIES LeaseStable SilentOnlyWhenExhausted ImplementsPool
