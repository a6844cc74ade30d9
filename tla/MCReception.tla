---------------------------- MODULE MCReception -----------------------------
(***************************************************************************)
(* An instance of Reception for TLC: two access points, one of which sends *)
(* its name in messages whose length wraps to nothing, or into the name; a *)
(* client and a wireless bridge; an announcement with both flags of the    *)
(* distribution system; and frames with too few addresses or cut off in    *)
(* their header.  Nothing is sent again.                                   *)
(***************************************************************************)
EXTENDS Reception, MCFrames

\* Captures have a radiotap header of 8 octets and end with a frame check
\* sequence of 4.
MCCapture(t, st, ds, addr, hdr_len, body, ssid) ==
  [ frame_t |-> t, frame_st |-> st, retry |-> 0, tods |-> ds[1], fromds |-> ds[2],
    addr |-> addr, hdr_len |-> hdr_len, rt_len |-> 8, rt_ok |-> TRUE,
    channel_freq |-> 2412, len |-> 8 + hdr_len + body + 4,
    ssid |-> ssid, action |-> MCNoAction ]

MCAnnounce(st, dst, m, body, ssid) ==
  MCCapture(T_MANAGEMENT, st, <<0, 0>>, <<dst, m, m>>, 24, body, ssid)

MCTraffic(ds, addr) == MCCapture(T_DATA, 0, ds, addr, 24, 100, <<>>)

MCCaptures ==
  { MCAnnounce(M_BEACON, m3, m1, 80, <<2>>),
    MCAnnounce(M_PROBE_RESPONSE, m3, m2, 256, <<2, 1>>),
    [MCAnnounce(M_PROBE_RESPONSE, m3, m2, 271, <<2, 1>>) EXCEPT !.rt_ok = FALSE],
    [MCAnnounce(M_PROBE_RESPONSE, m3, m1, 256, <<2>>) EXCEPT !.tods = 1, !.fromds = 1],
    MCTraffic(<<0, 1>>, <<m3, m1, m2>>),
    MCTraffic(<<1, 0>>, <<m1, m3, m2>>),
    MCCapture(T_DATA, 0, <<1, 1>>, <<m2, m1, m2, m1>>, 30, 100, <<>>),
    MCCapture(T_CONTROL, 10, <<0, 0>>, <<m1, m3>>, 16, 0, <<>>),
    [MCAnnounce(M_BEACON, m3, m3, 80, <<2>>) EXCEPT !.len = 20] }

MCReceived == UNION {Received[h] : h \in Capture}
=============================================================================
