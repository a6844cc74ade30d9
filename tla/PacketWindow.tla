---------------------------- MODULE PacketWindow ----------------------------
(***************************************************************************)
(* What the packet window says in each of its rows (draw_packet_win in     *)
(* user/src/ui.c), over the packets that PacketRing puts there.  A row is  *)
(* the sequence of its parts; the name that follows the address of an      *)
(* access point comes from the table and is left out, as are colours.      *)
(***************************************************************************)
EXTENDS PacketRing, FrameLabels

CONSTANT broadcast_mac

\* Types, subtypes, categories and codes are numbers: octets of the message.
ASSUME CodeAssumption ==
  \A f \in Frame :
    /\ f.frame_t \in Nat /\ f.frame_st \in Nat
    /\ IsActionFrame(f) => f.action.cat \in Nat /\ f.action.code \in Nat

Text(p) ==
  LET hdr   == p.hdr
      label == sub_frame_string(hdr.frame_t, hdr.frame_st)
  IN  CASE Announces(hdr) -> <<label, hdr.bssid>>
        [] IsActionFrame(hdr) ->
             <<label, action_cat_to_string(p.action.cat),
               action_to_string(p.action.cat, p.action.code)>>
        [] hdr.frame_t = T_MANAGEMENT /\ ~Announces(hdr) /\ ~IsActionFrame(hdr) -> <<label>>
        [] hdr.frame_t # T_MANAGEMENT /\ hdr.dst_mac = broadcast_mac ->
             <<"Broadcast", hdr.src_mac, label>>
        [] OTHER ->
             <<label, hdr.src_mac, hdr.dst_mac, hdr.bssid,
               frame_direction_to_string(hdr.frame_d)>>

-----------------------------------------------------------------------------
(* Properties.                                                             *)

\* What a row is there to tell: the kind of frame.  The codes of four action
\* categories have no labels.
Kind(p) ==
  LET hdr == p.hdr
  IN  [ type   |-> <<hdr.frame_t, hdr.frame_st>>,
        action |-> IF ~IsActionFrame(hdr) THEN <<>>
                   ELSE IF p.action.cat \in {4, 9, VHT, HE} THEN <<p.action.cat>>
                   ELSE <<p.action.cat, p.action.code>> ]

Readable(p) == \A n \in DOMAIN Text(p) : Text(p)[n] # "UNKNOWN"

\* The packets whose row reads like that of a frame of another kind.
Misread ==
  {p \in Packet : Readable(p) /\ \E q \in Packet : Text(q) = Text(p) /\ Kind(q) # Kind(p)}

\* A row of the window that has no "UNKNOWN" in it tells what kind of frame
\* it is about: no code is labelled as another, within a table or across
\* tables, although a row shows neither the type nor the numbers.
RowsTellKindsApart == \A r \in Ring : Row(r) \notin Misread
=============================================================================
