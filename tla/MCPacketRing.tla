---------------------------- MODULE MCPacketRing ----------------------------
(***************************************************************************)
(* An instance of PacketWindow for TLC.  Its frames are of every type and  *)
(* subtype, sent to one or to all, and of every action up to the first     *)
(* code that no table has.  The ring is explored in full for a few of them *)
(* (kept frames of different kinds, and both kinds that are not kept); the *)
(* others are put into each of these rings once.                           *)
(***************************************************************************)
EXTENDS PacketWindow, MCFrames

MCUsual ==
  { MCBeacon(m1, 2412, <<2>>), MCProbeRequest, MCAction([cat |-> 3, code |-> 0]),
    MCAction([cat |-> 7, code |-> 4]), MCData(<<0, 1>>, 0, m1, m3) }

MCOfKind(t, st, dst, action) ==
  MCFrameOf(t, st, 0, <<0, 0>>, m1, dst, m1, 2412, <<>>, action)

MCRingFrames ==
  MCUsual
  \cup { MCOfKind(t, st, m2, MCNoAction) : t \in 0 .. 3, st \in 0 .. 15 }
  \cup { MCOfKind(t, st, m3, MCNoAction) : t \in {T_CONTROL, T_DATA}, st \in 0 .. 15 }
  \cup { MCOfKind(T_MANAGEMENT, M_ACTION, m2, [cat |-> cat, code |-> code]) :
           cat \in 0 .. 10 \cup {21, 25}, code \in 0 .. 8 }

MCUsualOnly ==
  \A k \in Ring : packet_buf[k] # NoPacket => packet_buf[k].hdr \in MCUsual
=============================================================================
