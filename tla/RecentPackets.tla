--------------------------- MODULE RecentPackets ----------------------------
(***************************************************************************)
(* What the packet window promises: its first Rows rows are the Rows       *)
(* packets kept last, newest first.                                        *)
(***************************************************************************)
EXTENDS Integers

CONSTANTS
  Rows,     \* number of rows
  Packet,   \* the packets worth keeping
  NoPacket  \* an empty row

VARIABLE window

Init == window = [r \in 0 .. Rows - 1 |-> NoPacket]

Keep(p) ==
  window' = [r \in 0 .. Rows - 1 |-> IF r = 0 THEN p ELSE window[r - 1]]

Next == \E p \in Packet : Keep(p)

Spec == Init /\ [][Next]_window
=============================================================================
