------------------------------ MODULE MCFrames ------------------------------
(***************************************************************************)
(* Small sets of frames for model checking.  Addresses are model values;   *)
(* an SSID is a short sequence over {0, 1, 2}, where 0 is an octet that is *)
(* not printable.                                                          *)
(***************************************************************************)
EXTENDS FrameTypes, Integers, Sequences

CONSTANTS m1, m2, m3

MCHidden   == <<1, 1>>
MCNoAction == [cat |-> 0, code |-> 0]

MCFrameOf(t, st, retry, ds, src, dst, bssid, freq, ssid, action) ==
  [ frame_t |-> t, frame_st |-> st, retry |-> retry,
    tods |-> ds[1], fromds |-> ds[2], frame_d |-> ds[1] + 2 * ds[2],
    src_mac |-> src, dst_mac |-> dst, bssid |-> bssid,
    channel_freq |-> freq, ssid |-> ssid, action |-> action ]

MCBeacon(m, freq, ssid) ==
  MCFrameOf(T_MANAGEMENT, M_BEACON, 0, <<0, 0>>, m, m, m, freq, ssid, MCNoAction)
MCProbeResponse(m, ssid) ==
  MCFrameOf(T_MANAGEMENT, M_PROBE_RESPONSE, 0, <<0, 0>>, m, m3, m, 2412, ssid, MCNoAction)
MCProbeRequest ==
  MCFrameOf(T_MANAGEMENT, M_PROBE_REQUEST, 0, <<0, 0>>, m3, m1, m1, 2412, <<>>, MCNoAction)
MCAction(a) ==
  MCFrameOf(T_MANAGEMENT, M_ACTION, 0, <<0, 0>>, m1, m3, m1, 2412, <<>>, a)
MCData(ds, retry, src, dst) ==
  MCFrameOf(T_DATA, 0, retry, ds, src, dst, m1, 2412, <<>>, MCNoAction)
=============================================================================
