CONSTANTS
  Size = 10
  Usize = 32
SPECIFICATION ChunkSpec
INVARIANTS SliceSelectsRange HalfOpenSliceSelectsRange
\* After a panic the chunk is not used any more.
CHECK_DEADLOCK FALSE
