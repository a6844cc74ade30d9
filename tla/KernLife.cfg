SPECIFICATION FairKernSpec
CONSTANTS
  a1 = a1
  a2 = a2
  a3 = a3
  a4 = a4
  Mac = {a1, a2, a3, a4}
  U8 = 256
  Capture <- MCLifeCaptures
  Cpu = {c1, c2}
  Idle = Idle
INVARIANTS
  KernTypeOK
  HandlerHasModule
  NoSendAfterFree
PROPERTIES
  UnloadEnds
