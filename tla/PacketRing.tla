----------------------------- MODULE PacketRing -----------------------------
(***************************************************************************)
(* The packets of the packet window: the ring ctx.packet_buf, its write    *)
(* index and the packet counter.  handle_frame_info writes every frame     *)
(* into the slot at packet_buf_index, and returns before it advances the   *)
(* index for the frames it does not want shown (beacons, probe requests);  *)
(* draw_packet_win walks all slots backwards from the index.               *)
(***************************************************************************)
EXTENDS SnifferParams

CONSTANTS
  PACKET_BUF_SIZE,  \* slots of ctx.packet_buf
  NoPacket          \* a slot of zero bytes, which draw_packet_win skips

ASSUME RingAssumption ==
  /\ PACKET_BUF_SIZE \in Nat \ {0, 1}

VARIABLES
  packet_buf,
  packet_buf_index,
  packets           \* ctx->packets, a uint32_t

ringVars == <<packet_buf, packet_buf_index, packets>>

Ring == 0 .. PACKET_BUF_SIZE - 1

PacketOf(f) ==
  [hdr |-> f, action |-> IF IsActionFrame(f) THEN f.action ELSE NoAction]

\* The frames after which handle_frame_info reaches its last line.
Kept(f) == ~IsBeacon(f) /\ ~IsProbeRequest(f)

Packet     == {PacketOf(f) : f \in Frame}
KeptPacket == {PacketOf(f) : f \in {g \in Frame : Kept(g)}}

RingInit ==
  /\ packet_buf = [k \in Ring |-> NoPacket]
  /\ packet_buf_index = 0
  /\ packets = 0

\* Mutant: the index advances past every frame.
MutStoreAdvances(f) ==
  /\ packet_buf' = [packet_buf EXCEPT ![packet_buf_index] = PacketOf(f)]
  /\ packet_buf_index' = (packet_buf_index + 1) % PACKET_BUF_SIZE
  /\ packets' = (packets + 1) % U32

\* Mutant: the index does not wrap.
MutStoreNoWrap(f) ==
  /\ packet_buf' = [packet_buf EXCEPT ![packet_buf_index] = PacketOf(f)]
  /\ packet_buf_index' = IF Kept(f) THEN packet_buf_index + 1 ELSE packet_buf_index
  /\ packets' = (packets + 1) % U32

\* handle_frame_info, the part that concerns the packet buffer.
StoreFrame(f) ==
  /\ packet_buf' = [packet_buf EXCEPT ![packet_buf_index] = PacketOf(f)]
  /\ packet_buf_index' = IF Kept(f)
                         THEN (packet_buf_index + 1) % PACKET_BUF_SIZE
                         ELSE packet_buf_index
  /\ packets' = (packets + 1) % U32

RingNext == \E f \in Frame : StoreFrame(f)

RingSpec == RingInit /\ [][RingNext]_ringVars

-----------------------------------------------------------------------------
(* What draw_packet_win shows in row r.                                    *)

\* Mutant: the walk starts at the index itself.
MutDrawIndex(r) ==
  LET index == packet_buf_index - r
  IN  IF index < 0 THEN index + PACKET_BUF_SIZE ELSE index

DrawIndex(r) ==
  LET index == packet_buf_index - 1 - r
  IN  IF index < 0 THEN index + PACKET_BUF_SIZE ELSE index

Row(r) == packet_buf[DrawIndex(r)]

-----------------------------------------------------------------------------
(* Properties.                                                             *)

\* Type correctness of the packet buffer.
RingTypeOK ==
  /\ packet_buf \in [Ring -> {NoPacket} \cup Packet]
  /\ packet_buf_index \in Ring
  /\ packets \in 0 .. U32 - 1

\* A frame that is not to be shown is only ever in the slot that the next
\* frame overwrites: the early returns of handle_frame_info never leave one
\* behind in a slot that the index has passed.
UnkeptOnlyAtIndex ==
  \A k \in Ring \ {packet_buf_index} :
    packet_buf[k] # NoPacket => Kept(packet_buf[k].hdr)

\* The rows above the last one are the packets kept most recently, newest
\* first, whatever frames were skipped in between and however often the
\* index wrapped.
Recent ==
  INSTANCE RecentPackets WITH
    Rows   <- PACKET_BUF_SIZE - 1,
    Packet <- KeptPacket,
    window <- [r \in 0 .. PACKET_BUF_SIZE - 2 |-> Row(r)]

ImplementsRecentPackets == Recent!Spec
=============================================================================
