SPECIFICATION FramingSpec
CONSTANTS
  MinimumFrameLength = 2
  MaximumFrameLength = 3
  MaxStream = 8
  MaxChunk = 4
INVARIANTS
  FramingTypeOK
  ChunkingIrrelevant
