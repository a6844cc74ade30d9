SPECIFICATION ApSpec
CONSTANTS
  m1 = m1
  m2 = m2
  m3 = m3
  NoMac = NoMac
  NoAction <- MCNoAction
  Mac = {m1, m2, m3}
  Freq = {2412, 2437}
  Char = {0, 1, 2}
  Printable = {1, 2}
  HIDDEN <- MCHidden
  Frame <- MCTrafficFrames
  AP_CAPACITY = 3
  CHANNELS_COUNT = 2
  U8 = 2
  U32 = 8
  EXPIRE = 1
  ROWS = 1
  Keys = {}
  StartTime = 2
  MaxTime = 4
PROPERTIES
  FreshApCountersStartAtZero
