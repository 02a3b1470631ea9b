SPECIFICATION LayoutSpec
CONSTANTS
  Builds <- MCBuilds
  Libraries <- MCLibraries
  Requests <- MCRequests
  Dimensions <- MCDimensions
  Garbage = {0, 1, 77}
INVARIANTS
  PictureFits
  PlanesInsideBuffer
  CompressionUnderstood
