SPECIFICATION Spec
CONSTANTS
  Handle = {h1, h2}
  Socket = {s1, s2, s3}
  Send = {x1}
  MaxDatagrams = 3
  None = None
SYMMETRY Swap
INVARIANTS OwnsItsBlock
PROPERTIES ImplementsMailboxes
CHECK_DEADLOCK FALSE
