--------------------------- MODULE MCSnifferKern ----------------------------
(***************************************************************************)
(* Instances of SnifferKern for TLC.  Captures have a radiotap header of   *)
(* 8 octets and end with a frame check sequence of 4.                      *)
(***************************************************************************)
EXTENDS SnifferKern, FrameTypes

CONSTANTS a1, a2, a3, a4

MCCapture(t, st, ds, addr, hdr_len, body) ==
  [ frame_t |-> t, frame_st |-> st, retry |-> 0, tods |-> ds[1], fromds |-> ds[2],
    addr |-> addr, hdr_len |-> hdr_len, rt_len |-> 8, rt_ok |-> TRUE,
    channel_freq |-> 2412, len |-> 8 + hdr_len + body + 4 ]

MCBeaconOf(body) ==
  MCCapture(T_MANAGEMENT, M_BEACON, <<0, 0>>, <<a1, a2, a2>>, 24, body)
MCDataOf(ds) == MCCapture(T_DATA, 0, ds, <<a1, a2, a3>>, 24, 100)
MCBridged    == MCCapture(T_DATA, 0, <<1, 1>>, <<a1, a2, a3, a4>>, 30, 100)
MCAck        == MCCapture(T_CONTROL, 13, <<0, 0>>, <<a1>>, 10, 0)

\* A beacon cut off in its header, and one whose radiotap header is broken.
MCCut        == [MCBeaconOf(80) EXCEPT !.len = 20]
MCBadRadio   == [MCBeaconOf(80) EXCEPT !.rt_ok = FALSE]

MCLifeCaptures == {MCBeaconOf(300), MCBridged, MCAck, MCCut, MCBadRadio}
MCAddrCaptures == {MCDataOf(<<0, 0>>), MCDataOf(<<0, 1>>), MCDataOf(<<1, 0>>), MCBridged}
=============================================================================
