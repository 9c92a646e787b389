\* Chunks shorter and longer than strides, windows and the whole video.
SPECIFICATION Spec
CONSTANTS
  Videos <- SmallVideos
  Settings <- SmallSettings
INVARIANTS
  ChunkingInvisible
  OneOwner
  EstimateIsStored
CHECK_DEADLOCK FALSE
