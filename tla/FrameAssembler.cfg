\* Anything may be received, the two longest frames at once among it.
CONSTANTS
  Base = 2
  MaxFrameLen = 8
  EndFlag <- MCEndFlag
  Rawdata = 1
  RawdataLen = 2
  Alert = 0
  Mac = 0
  Payloads <- MCPayloads
  MaxSent = 2
  MaxReceived = 16
SPECIFICATION Spec
INVARIANTS HandedAsSent NothingWithheld ChunkingInvisible BufferBounded
