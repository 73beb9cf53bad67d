SPECIFICATION FairSpec
CONSTANTS
  Session = {s1, s2}
  Probe = {p1, p2, p3}
  Host = {h1}
  Id = {1, 2}
  SeqSpace = 2
  Payload = {a, b}
  None = None
INVARIANTS PendingExact ReplyIsOwn
PROPERTIES ProbeSettles
CHECK_DEADLOCK FALSE
