SPECIFICATION FairSpec
CONSTANTS
  None = None
  Chunked = Chunked
  ToEnd = ToEnd
  Client = Client
  Server = Server
  MaxPieces = 1
INVARIANTS BodiesWhole ParserFreedOnce
  
CHECK_DEADLOCK FALSE
