CONSTANTS
  Posts <- MCPosts
  Window = 1
  MaxData = 2
  MaxUnread = 1
  MaxFaults = 1
SPECIFICATION RdpSpec
INVARIANTS OnceInOrder RangesExact
PROPERTIES ResendEnds KeptUntilPassed
CHECK_DEADLOCK FALSE
