SPECIFICATION AirSpec
CONSTANTS
  m1 = m1
  m2 = m2
  m3 = m3
  NoMac = NoMac
  NoAction <- MCNoAction
  Mac = {m1, m2, m3}
  Freq = {0, 2412}
  Char = {0, 1, 2}
  Printable = {1, 2}
  HIDDEN <- MCHidden
  Capture <- MCCaptures
  Frame <- MCReceived
  AP_CAPACITY = 2
  CHANNELS_COUNT = 1
  U8 = 256
  U32 = 2
  EXPIRE = 0
  ROWS = 1
  Keys = {}
  StartTime = 1
  MaxTime = 2
INVARIANTS
  UniqueMacs
  EntriesAreOnAir
  NamesAreOwn
PROPERTIES
  ImplementsDirectory
  TrafficCountedForTheAp
