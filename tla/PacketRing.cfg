SPECIFICATION RingSpec
CONSTANTS
  m1 = m1
  m2 = m2
  m3 = m3
  NoMac = NoMac
  NoPacket = NoPacket
  NoAction <- MCNoAction
  Mac = {m1, m2, m3}
  Freq = {2412}
  Char = {0, 1, 2}
  Printable = {1, 2}
  HIDDEN <- MCHidden
  Frame <- MCRingFrames
  AP_CAPACITY = 3
  CHANNELS_COUNT = 2
  U8 = 2
  U32 = 2
  PACKET_BUF_SIZE = 3
  broadcast_mac = m3
CONSTRAINT MCUsualOnly
INVARIANTS
  RingTypeOK
  UnkeptOnlyAtIndex
  RowsTellKindsApart
PROPERTIES
  ImplementsRecentPackets
