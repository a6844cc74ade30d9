SPECIFICATION FairSpec
CONSTANTS
  m1 = m1
  m2 = m2
  m3 = m3
  NoMac = NoMac
  NoPacket = NoPacket
  NoAction <- MCNoAction
  Mac = {m1, m2, m3}
  Freq = {2412}
  Char = {0, 1, 2}
  Printable = {1, 2}
  HIDDEN <- MCHidden
  Frame <- MCLoopFrames
  AP_CAPACITY = 2
  CHANNELS_COUNT = 2
  U8 = 2
  U32 = 1
  EXPIRE = 0
  ROWS = 1
  Keys = {"space", "tab", "q"}
  StartTime = 1
  MaxTime = 2
  PACKET_BUF_SIZE = 2
  channels <- MCTwoChannels
  HOP_TIME = 1
  BootFreq = 2437
  QUEUE_MAX = 1
INVARIANTS
  HopTypeOK
  LoopTypeOK
  PassRemovesAllStale
PROPERTIES
  ComesRound
  ImplementsApTable
  ExpiryAdvances
  HoppingNeverStarves
  RadioVisitsAll
CHECK_DEADLOCK FALSE
