----------------------------- MODULE MCMainLoop -----------------------------
(* Instances of MainLoop for TLC. *)
EXTENDS MainLoop, MCFrames, TLC

MCTwoChannels == (0 :> 1) @@ (1 :> 6)

\* Three access points, two of which are never stamped and so expire at once.
MCLoopFrames ==
  { MCBeacon(m1, 2412, <<2>>), MCProbeResponse(m2, <<2>>), MCProbeResponse(m3, <<2>>) }
=============================================================================
