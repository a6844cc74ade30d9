----------------------------- MODULE MCApTable ------------------------------
(* Instances of ApTable for TLC. *)
EXTENDS ApTable, MCFrames

\* Traffic: two access points, a client and a wireless bridge, two
\* frequencies, names of which one is the start of the other.
MCTrafficFrames ==
  { MCBeacon(m1, 2412, <<2>>), MCBeacon(m1, 2437, <<2, 2>>),
    MCBeacon(m2, 2412, <<0>>), MCProbeResponse(m2, <<2>>),
    MCData(<<0, 1>>, 1, m1, m3), MCData(<<1, 0>>, 0, m3, m1),
    MCData(<<1, 1>>, 1, m1, m2) }

\* Browsing: a beacon of every access point, one of which changes channels.
MCBrowseFrames ==
  { MCBeacon(m, 2412, <<2>>) : m \in Mac } \cup { MCBeacon(m1, 2437, <<2>>) }

=============================================================================
