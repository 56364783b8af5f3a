CONSTANTS
  Width = 5
  MaxFrames = 10
  SkipPairs <- MCSkipPairs
  Delta = 4
  MaxLines = 8
  Paths <- MCPaths
  Names <- MCNames
  Addrs <- MCAddrs
SPECIFICATION Spec
INVARIANT TypeOK FramesMatchReference ContextLineExact FrameInfoRoundTrip
