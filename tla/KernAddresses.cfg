SPECIFICATION KernSpec
CONSTANTS
  a1 = a1
  a2 = a2
  a3 = a3
  a4 = a4
  Mac = {a1, a2, a3, a4}
  U8 = 256
  Capture <- MCAddrCaptures
  Cpu = {c1}
  Idle = Idle
INVARIANTS
  SrcAndDstAreTheFrames
