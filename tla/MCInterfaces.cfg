SPECIFICATION Spec
CONSTANTS
  Iface = {i1, i2}
  Cidr <- MCCidr
  Width = 2
  Static <- MCStatic
  Metric = {0, 1}
  Slots = 2
  MaxRoutes = 3
  None = None
SYMMETRY Swap
INVARIANTS RoutesMatchAddresses  RoutesLive
PROPERTIES RouteKept
CHECK_DEADLOCK FALSE
