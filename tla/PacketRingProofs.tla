-------------------------- MODULE PacketRingProofs --------------------------
(***************************************************************************)
(* Proofs about the packet buffer, for every size of the ring and every    *)
(* set of frames: its invariants, that it shows what RecentPackets         *)
(* promises, and that a row of its window tells the kind of its frame.     *)
(***************************************************************************)
EXTENDS PacketWindow, TLAPS

RingInv == RingTypeOK /\ UnkeptOnlyAtIndex

-----------------------------------------------------------------------------
(* The index arithmetic.                                                   *)

\* The slot after slot n, without the remainder.
Succ(n) == IF n = PACKET_BUF_SIZE - 1 THEN 0 ELSE n + 1

\* The remainder by which the index advances, spelled out.
LEMMA NextSlot ==
  ASSUME NEW n \in Ring
  PROVE  /\ (n + 1) % PACKET_BUF_SIZE = Succ(n)
         /\ Succ(n) \in Ring /\ Succ(n) # n
<1>1. PACKET_BUF_SIZE \in Nat /\ PACKET_BUF_SIZE >= 2
    BY RingAssumption
<1>2. CASE n = PACKET_BUF_SIZE - 1
    BY <1>1, <1>2 DEF Ring, Succ
<1>3. CASE n # PACKET_BUF_SIZE - 1
    BY <1>1, <1>3, n + 1 \in 0 .. PACKET_BUF_SIZE - 1 DEF Ring, Succ
<1> QED
    BY <1>2, <1>3

\* A stored packet carries the header of its frame.
LEMMA HeaderOf ==
  ASSUME NEW f
  PROVE  PacketOf(f).hdr = f
  BY DEF PacketOf

-----------------------------------------------------------------------------
(* The invariants.                                                         *)

\* The invariants hold of the zeroed buffer.
LEMMA RingInitInv ==
  RingInit => RingInv
<1> SUFFICES ASSUME RingInit
             PROVE  RingInv
    OBVIOUS
<1>1. RingTypeOK
    BY RingAssumption, SizeAssumption DEF RingInit, RingTypeOK, Ring
<1>2. UnkeptOnlyAtIndex
    BY DEF RingInit, UnkeptOnlyAtIndex
<1> QED
    BY <1>1, <1>2 DEF RingInv

\* Storing a frame keeps them, whether or not the index advances.
LEMMA StoreInv ==
  ASSUME RingInv, NEW f \in Frame, StoreFrame(f)
  PROVE  RingInv'
<1> DEFINE n == packet_buf_index
<1>0. /\ n \in Ring
      /\ packet_buf \in [Ring -> {NoPacket} \cup Packet]
      /\ packets \in Nat
    BY SizeAssumption DEF RingInv, RingTypeOK, Packet
<1>1. /\ packet_buf' = [packet_buf EXCEPT ![n] = PacketOf(f)]
      /\ packet_buf' \in [Ring -> {NoPacket} \cup Packet]
    BY <1>0 DEF StoreFrame, Packet
<1>2. packet_buf_index' = IF Kept(f) THEN Succ(n) ELSE n
    BY <1>0, NextSlot DEF StoreFrame
<1>3. packet_buf_index' \in Ring
    BY <1>0, <1>2, NextSlot
<1>4. packets' \in 0 .. U32 - 1
  <2>1. packets + 1 \in Nat /\ U32 \in Nat \ {0}
      BY <1>0, SizeAssumption
  <2> QED
      BY <2>1 DEF StoreFrame
<1>5. RingTypeOK'
    BY <1>1, <1>3, <1>4 DEF RingTypeOK, Packet, Ring
<1>6. UnkeptOnlyAtIndex'
  <2> SUFFICES ASSUME NEW k \in Ring, k # packet_buf_index', packet_buf'[k] # NoPacket
               PROVE  Kept(packet_buf'[k].hdr)
      BY DEF UnkeptOnlyAtIndex, Ring
  <2>1. CASE k = n
    <3>1. Kept(f)
        BY <1>2, <2>1
    <3> QED
        BY <1>0, <1>1, <2>1, <3>1, HeaderOf
  <2>2. CASE k # n
    <3>1. packet_buf'[k] = packet_buf[k]
        BY <1>0, <1>1, <2>2
    <3> QED
        BY <2>2, <3>1 DEF RingInv, UnkeptOnlyAtIndex
  <2> QED
      BY <2>1, <2>2
<1> QED
    BY <1>5, <1>6 DEF RingInv

\* Every step keeps them.
LEMMA RingStepInv ==
  RingInv /\ [RingNext]_ringVars => RingInv'
<1>1. RingInv /\ RingNext => RingInv'
    BY StoreInv DEF RingNext
<1>2. RingInv /\ UNCHANGED ringVars => RingInv'
    BY DEF ringVars, RingInv, RingTypeOK, UnkeptOnlyAtIndex
<1> QED
    BY <1>1, <1>2

\* They hold throughout.
LEMMA RingAlways ==
  RingSpec => []RingInv
  BY RingInitInv, RingStepInv, PTL DEF RingSpec

\* The buffer, its index and the 32-bit packet counter keep their types.
THEOREM RingTypes ==
  RingSpec => []RingTypeOK
<1>1. RingInv => RingTypeOK
    BY DEF RingInv
<1> QED
    BY <1>1, RingAlways, PTL

\* The early returns of handle_frame_info leave no frame that is not to be
\* shown behind in a slot that the index has passed.
THEOREM OnlyKeptBehind ==
  RingSpec => []UnkeptOnlyAtIndex
<1>1. RingInv => UnkeptOnlyAtIndex
    BY DEF RingInv
<1> QED
    BY <1>1, RingAlways, PTL

-----------------------------------------------------------------------------
(* The refinement.                                                         *)

\* The slot that row r shows, as a function of the index.
RowSlot(n, r) == IF n - 1 - r < 0 THEN n - 1 - r + PACKET_BUF_SIZE ELSE n - 1 - r

\* No row but the last shows the slot at the index; advancing the index
\* moves every row down by one.
LEMMA RowsMoveDown ==
  ASSUME NEW n \in Ring
  PROVE  /\ \A r \in 0 .. PACKET_BUF_SIZE - 2 : RowSlot(n, r) \in Ring \ {n}
         /\ RowSlot(Succ(n), 0) = n
         /\ \A r \in 1 .. PACKET_BUF_SIZE - 2 : RowSlot(Succ(n), r) = RowSlot(n, r - 1)
<1>1. PACKET_BUF_SIZE \in Nat /\ PACKET_BUF_SIZE >= 2
    BY RingAssumption
<1>2. CASE n = PACKET_BUF_SIZE - 1
    BY <1>1, <1>2 DEF Ring, Succ, RowSlot
<1>3. CASE n # PACKET_BUF_SIZE - 1
    BY <1>1, <1>3 DEF Ring, Succ, RowSlot
<1> QED
    BY <1>2, <1>3

Window == [r \in 0 .. PACKET_BUF_SIZE - 2 |-> Row(r)]

\* The window in terms of slots.
LEMMA WindowIs ==
  Window = [r \in 0 .. PACKET_BUF_SIZE - 2 |-> packet_buf[RowSlot(packet_buf_index, r)]]
  BY DEF Window, Row, DrawIndex, RowSlot

\* The zeroed buffer shows an empty window.
LEMMA InitRefines ==
  RingInit => Recent!Init
<1> SUFFICES ASSUME RingInit
             PROVE  Recent!Init
    OBVIOUS
<1>1. PACKET_BUF_SIZE \in Nat /\ PACKET_BUF_SIZE >= 2 /\ packet_buf_index \in Ring
    BY RingAssumption DEF RingInit, Ring
<1>2. \A r \in 0 .. PACKET_BUF_SIZE - 2 : Row(r) = NoPacket
    BY <1>1, WindowIs, RowsMoveDown DEF RingInit, Row, DrawIndex, RowSlot, Ring
<1>3. (PACKET_BUF_SIZE - 1) - 1 = PACKET_BUF_SIZE - 2
    BY <1>1
<1> QED
    BY <1>2, <1>3 DEF Recent!Init

\* Storing a frame that is kept puts it on top of the window; storing any
\* other leaves the window alone.
LEMMA StoreRefines ==
  ASSUME RingInv, NEW f \in Frame, StoreFrame(f)
  PROVE  Recent!Next \/ UNCHANGED Window
<1> DEFINE n == packet_buf_index
           Rows == 0 .. PACKET_BUF_SIZE - 2
<1>0. /\ n \in Ring
      /\ packet_buf \in [Ring -> {NoPacket} \cup Packet]
      /\ PACKET_BUF_SIZE \in Nat /\ PACKET_BUF_SIZE >= 2
    BY RingAssumption DEF RingInv, RingTypeOK, Packet
<1>1. packet_buf' = [packet_buf EXCEPT ![n] = PacketOf(f)]
    BY DEF StoreFrame
<1>2. packet_buf_index' = IF Kept(f) THEN Succ(n) ELSE n
    BY <1>0, NextSlot DEF StoreFrame
<1>3. /\ \A r \in Rows : RowSlot(n, r) \in Ring \ {n}
      /\ RowSlot(Succ(n), 0) = n
      /\ \A r \in 1 .. PACKET_BUF_SIZE - 2 : RowSlot(Succ(n), r) = RowSlot(n, r - 1)
    BY <1>0, RowsMoveDown
<1>4. Window = [r \in Rows |-> packet_buf[RowSlot(n, r)]]
    BY WindowIs
<1>5. Window' = [r \in Rows |-> packet_buf'[RowSlot(packet_buf_index', r)]]
    BY DEF Window, Row, DrawIndex, RowSlot
<1>6. CASE ~Kept(f)
  <2>1. \A r \in Rows : packet_buf'[RowSlot(n, r)] = packet_buf[RowSlot(n, r)]
      BY <1>0, <1>1, <1>3
  <2> QED
      BY <1>2, <1>4, <1>5, <1>6, <2>1
<1>7. CASE Kept(f)
  <2>1. Window' = [r \in Rows |-> packet_buf'[RowSlot(Succ(n), r)]]
      BY <1>2, <1>5, <1>7
  <2>2. packet_buf'[RowSlot(Succ(n), 0)] = PacketOf(f)
      BY <1>0, <1>1, <1>3
  <2>3. \A r \in Rows : r # 0 => packet_buf'[RowSlot(Succ(n), r)] = Window[r - 1]
    <3> SUFFICES ASSUME NEW r \in Rows, r # 0
                 PROVE  packet_buf'[RowSlot(Succ(n), r)] = Window[r - 1]
        OBVIOUS
    <3>1. r \in 1 .. PACKET_BUF_SIZE - 2 /\ r - 1 \in Rows
        BY <1>0
    <3>2. RowSlot(Succ(n), r) = RowSlot(n, r - 1) /\ RowSlot(n, r - 1) \in Ring \ {n}
        BY <1>3, <3>1
    <3> HIDE DEF Rows
    <3> QED
        BY <1>0, <1>1, <1>4, <3>1, <3>2
  <2>4. Window' = [r \in Rows |-> IF r = 0 THEN PacketOf(f) ELSE Window[r - 1]]
      BY <2>1, <2>2, <2>3
  <2>5. Recent!Keep(PacketOf(f))
    <3>1. (PACKET_BUF_SIZE - 1) - 1 = PACKET_BUF_SIZE - 2
        BY <1>0
    <3> QED
        BY <2>4, <3>1 DEF Recent!Keep, Window
  <2>6. PacketOf(f) \in KeptPacket
      BY <1>7 DEF KeptPacket
  <2> QED
      BY <2>5, <2>6 DEF Recent!Next
<1> QED
    BY <1>6, <1>7

\* The rows above the last are the packets kept most recently, newest first,
\* through every wrap of the index and every skipped frame.
THEOREM RingShowsRecent ==
  RingSpec => ImplementsRecentPackets
<1>1. RingInv /\ [RingNext]_ringVars => [Recent!Next]_Window
  <2>1. ASSUME RingInv, RingNext
        PROVE  [Recent!Next]_Window
      BY <2>1, StoreRefines DEF RingNext
  <2>2. ASSUME UNCHANGED ringVars
        PROVE  UNCHANGED Window
      BY <2>2 DEF ringVars, Window, Row, DrawIndex
  <2> QED
      BY <2>1, <2>2
<1> QED
    BY <1>1, InitRefines, RingAlways, PTL
       DEF RingSpec, ImplementsRecentPackets, Recent!Spec, Window

-----------------------------------------------------------------------------
(* The labels.                                                             *)

\* No two codes that have a label in enum have the same one.
TellsApart(enum) ==
  \A i, j \in DOMAIN enum : enum[i] = enum[j] /\ enum[i] # "UNKNOWN" => i = j

\* No label is in both tables.
Disjoint(enum1, enum2) ==
  \A i \in DOMAIN enum1, j \in DOMAIN enum2 : enum1[i] = enum2[j] => enum1[i] = "UNKNOWN"

\* In such a table a label tells the code.
LEMMA LabelTells ==
  ASSUME NEW enum, TellsApart(enum), NEW c \in Nat, NEW d \in Nat,
         Label(enum, c) = Label(enum, d), Label(enum, c) # "UNKNOWN"
  PROVE  c = d
<1>1. c + 1 \in DOMAIN enum /\ d + 1 \in DOMAIN enum /\ c + 1 = d + 1
    BY DEF Label, TellsApart
<1> QED
    BY <1>1

\* The labels of the subtypes differ, within each type and across types.
LEMMA SubtypeTables ==
  /\ TellsApart(MANAGEMENT_TYPE) /\ TellsApart(CONTROL_TYPE) /\ TellsApart(DATA_TYPE)
  /\ Disjoint(MANAGEMENT_TYPE, CONTROL_TYPE)
  /\ Disjoint(MANAGEMENT_TYPE, DATA_TYPE)
  /\ Disjoint(CONTROL_TYPE, DATA_TYPE)
<1>1. TellsApart(MANAGEMENT_TYPE)
    BY DEF TellsApart, MANAGEMENT_TYPE
<1>2. TellsApart(CONTROL_TYPE)
    BY DEF TellsApart, CONTROL_TYPE
<1>3. TellsApart(DATA_TYPE)
    BY DEF TellsApart, DATA_TYPE
<1>4. Disjoint(MANAGEMENT_TYPE, CONTROL_TYPE)
    BY DEF Disjoint, MANAGEMENT_TYPE, CONTROL_TYPE
<1>5. Disjoint(MANAGEMENT_TYPE, DATA_TYPE)
    BY DEF Disjoint, MANAGEMENT_TYPE, DATA_TYPE
<1>6. Disjoint(CONTROL_TYPE, DATA_TYPE)
    BY DEF Disjoint, CONTROL_TYPE, DATA_TYPE
<1> QED
    BY <1>1, <1>2, <1>3, <1>4, <1>5, <1>6

\* A subtype's label tells type and subtype.
LEMMA SubtypeTells ==
  ASSUME NEW t \in Nat, NEW c \in Nat, NEW u \in Nat, NEW d \in Nat,
         sub_frame_string(t, c) = sub_frame_string(u, d),
         sub_frame_string(t, c) # "UNKNOWN"
  PROVE  t = u /\ c = d
<1> DEFINE table(x) == CASE x = 0 -> MANAGEMENT_TYPE
                         [] x = 1 -> CONTROL_TYPE
                         [] OTHER -> DATA_TYPE
<1>1. ASSUME NEW x \in Nat, NEW y \in Nat, sub_frame_string(x, y) # "UNKNOWN"
      PROVE  x \in {0, 1, 2} /\ sub_frame_string(x, y) = Label(table(x), y)
    BY <1>1 DEF sub_frame_string, m_frame_to_string, c_frame_to_string,
                d_frame_to_string, T_MANAGEMENT, T_CONTROL, T_DATA
<1>2. /\ t \in {0, 1, 2} /\ u \in {0, 1, 2}
      /\ Label(table(t), c) = Label(table(u), d)
      /\ Label(table(t), c) # "UNKNOWN"
    BY <1>1
<1>3. t = u
  <2>1. c + 1 \in DOMAIN table(t) /\ d + 1 \in DOMAIN table(u)
        /\ table(t)[c + 1] = table(u)[d + 1] /\ table(t)[c + 1] # "UNKNOWN"
      BY <1>2 DEF Label
  <2> QED
      BY <1>2, <2>1, SubtypeTables DEF Disjoint
<1>4. TellsApart(table(t))
    BY <1>2, SubtypeTables
<1> HIDE DEF table
<1> QED
    BY <1>2, <1>3, <1>4, LabelTells

\* The label of a category of actions tells the category.
LEMMA CategoryTells ==
  ASSUME NEW c \in Nat, NEW d \in Nat,
         action_cat_to_string(c) = action_cat_to_string(d),
         action_cat_to_string(c) # "UNKNOWN"
  PROVE  c = d
<1>1. TellsApart(ACTION_CAT)
    BY DEF TellsApart, ACTION_CAT
<1>2. \A x \in Nat : /\ Label(ACTION_CAT, x) # "VERY_HIGH_THROUGHPUT"
                     /\ Label(ACTION_CAT, x) # "HE"
    BY DEF Label, ACTION_CAT
<1>3. CASE c \in {VHT, HE} \/ d \in {VHT, HE}
    BY <1>2, <1>3 DEF action_cat_to_string, VHT, HE
<1>4. CASE ~(c \in {VHT, HE} \/ d \in {VHT, HE})
  <2>1. Label(ACTION_CAT, c) = Label(ACTION_CAT, d) /\ Label(ACTION_CAT, c) # "UNKNOWN"
      BY <1>4 DEF action_cat_to_string
  <2> QED
      BY <1>1, <2>1, LabelTells
<1> QED
    BY <1>3, <1>4

\* Within a category that has labels for its codes, they tell the code.
LEMMA ActionTells ==
  ASSUME NEW cat \in Nat, NEW c \in Nat, NEW d \in Nat,
         cat \notin {4, 9, VHT, HE}, action_cat_to_string(cat) # "UNKNOWN",
         action_to_string(cat, c) = action_to_string(cat, d),
         action_to_string(cat, c) # "UNKNOWN"
  PROVE  c = d
<1>1. /\ TellsApart(SPECTRUM_MANAGEMENT_ACTION)
      /\ TellsApart(QOS_ACTION)
      /\ TellsApart(DLS_ACTION)
      /\ TellsApart(BLOCK_ACK_ACTION)
    BY DEF TellsApart, SPECTRUM_MANAGEMENT_ACTION, QOS_ACTION, DLS_ACTION,
           BLOCK_ACK_ACTION
<1>2. /\ TellsApart(RADIO_MEASUREMENT_ACTION)
      /\ TellsApart(FAST_BSS_TRANSITION_ACTION)
      /\ TellsApart(HT_ACTION)
      /\ TellsApart(SA_QUERY_ACTION)
    BY DEF TellsApart, RADIO_MEASUREMENT_ACTION, FAST_BSS_TRANSITION_ACTION,
           HT_ACTION, SA_QUERY_ACTION
<1>3. cat \in 0 .. 8 /\ cat # 4
  <2>1. cat + 1 \in 1 .. 10
      BY DEF action_cat_to_string, Label, ACTION_CAT
  <2> QED
      BY <2>1
<1> DEFINE table == CASE cat = 0 -> SPECTRUM_MANAGEMENT_ACTION
                      [] cat = 1 -> QOS_ACTION
                      [] cat = 2 -> DLS_ACTION
                      [] cat = 3 -> BLOCK_ACK_ACTION
                      [] cat = 5 -> RADIO_MEASUREMENT_ACTION
                      [] cat = 6 -> FAST_BSS_TRANSITION_ACTION
                      [] cat = 7 -> HT_ACTION
                      [] cat = 8 -> SA_QUERY_ACTION
<1>4. \A x : action_to_string(cat, x) = Label(table, x)
    BY <1>3 DEF action_to_string, spectrummgmt_action_to_string, qos_action_to_string,
                dls_action_to_string, blockack_action_to_string,
                rmeasurement_action_to_string, fbsstransition_action_to_string,
                ht_action_to_string, saquery_action_to_string
<1>5. TellsApart(table)
    BY <1>1, <1>2, <1>3
<1> HIDE DEF table
<1> QED
    BY <1>4, <1>5, LabelTells

-----------------------------------------------------------------------------
(* The rows.                                                               *)

Plain(h)     == h.frame_t = T_MANAGEMENT /\ ~Announces(h) /\ ~IsActionFrame(h)
Broadcast(h) == h.frame_t # T_MANAGEMENT /\ h.dst_mac = broadcast_mac
Directed(h)  == h.frame_t # T_MANAGEMENT /\ h.dst_mac # broadcast_mac

LabelOf(h) == sub_frame_string(h.frame_t, h.frame_st)

\* Which parts a row has, by the kind of its frame, and where its labels are.
LEMMA TextParts ==
  ASSUME NEW p
  PROVE  LET h == p.hdr
             s == Text(p)
         IN  /\ Announces(h)     => s = <<LabelOf(h), h.bssid>>
             /\ IsActionFrame(h) =>
                  s = <<LabelOf(h), action_cat_to_string(p.action.cat),
                        action_to_string(p.action.cat, p.action.code)>>
             /\ Plain(h)         => s = <<LabelOf(h)>>
             /\ Broadcast(h)     => s = <<"Broadcast", h.src_mac, LabelOf(h)>>
             /\ Directed(h)      =>
                  s = <<LabelOf(h), h.src_mac, h.dst_mac, h.bssid,
                        frame_direction_to_string(h.frame_d)>>
             /\ Announces(h) \/ IsActionFrame(h) \/ Plain(h) \/ Broadcast(h) \/ Directed(h)
<1> DEFINE h == p.hdr
<1>1. ~(Announces(h) /\ IsActionFrame(h))
    BY DEF Announces, IsActionFrame, IsMgmt, M_BEACON, M_PROBE_RESPONSE, M_ACTION,
           M_ACTION_NOACK
<1>2. Announces(h) \/ IsActionFrame(h) => h.frame_t = T_MANAGEMENT
    BY DEF Announces, IsActionFrame, IsMgmt
<1>3. CASE Announces(h)
    BY <1>1, <1>2, <1>3 DEF Text, LabelOf, Plain, Broadcast, Directed
<1>4. CASE IsActionFrame(h)
    BY <1>1, <1>2, <1>4 DEF Text, LabelOf, Plain, Broadcast, Directed
<1>5. CASE ~Announces(h) /\ ~IsActionFrame(h)
    BY <1>5 DEF Text, LabelOf, Plain, Broadcast, Directed
<1> QED
    BY <1>3, <1>4, <1>5

\* No frame is labelled "Broadcast".
LEMMA NoLabelBroadcast ==
  ASSUME NEW t \in Nat, NEW st \in Nat
  PROVE  sub_frame_string(t, st) # "Broadcast"
  BY DEF sub_frame_string, m_frame_to_string, c_frame_to_string, d_frame_to_string,
         Label, MANAGEMENT_TYPE, CONTROL_TYPE, DATA_TYPE

\* Rows that read alike are of the same shape and bear the same label.
LEMMA SameTextSameType ==
  ASSUME NEW p \in Packet, Readable(p), NEW q \in Packet, Text(q) = Text(p)
  PROVE  /\ p.hdr.frame_t = q.hdr.frame_t /\ p.hdr.frame_st = q.hdr.frame_st
         /\ p.hdr.frame_t \in Nat /\ p.hdr.frame_st \in Nat
<1> DEFINE h == p.hdr
           g == q.hdr
<1>1. h \in Frame /\ g \in Frame
    BY DEF Packet, PacketOf
<1>2. /\ h.frame_t \in Nat /\ h.frame_st \in Nat
      /\ g.frame_t \in Nat /\ g.frame_st \in Nat
    BY <1>1, CodeAssumption
<1>3. LabelOf(h) = LabelOf(g) /\ LabelOf(h) # "UNKNOWN"
  <2>0. LabelOf(h) # "Broadcast" /\ LabelOf(g) # "Broadcast"
      BY <1>2, NoLabelBroadcast DEF LabelOf
  <2> HIDE DEF h, g
  <2>1. CASE Announces(h)
      BY <2>0, <2>1, TextParts DEF Readable, h, g
  <2>2. CASE IsActionFrame(h)
      BY <2>0, <2>2, TextParts DEF Readable, h, g
  <2>3. CASE Plain(h)
      BY <2>0, <2>3, TextParts DEF Readable, h, g
  <2>4. CASE Broadcast(h)
      BY <2>0, <2>4, TextParts DEF Readable, h, g
  <2>5. CASE Directed(h)
      BY <2>0, <2>5, TextParts DEF Readable, h, g
  <2> QED
      BY <2>1, <2>2, <2>3, <2>4, <2>5, TextParts DEF h
<1> QED
    BY <1>2, <1>3, SubtypeTells DEF LabelOf

\* No row without an "UNKNOWN" reads like that of a frame of another kind.
LEMMA NoneMisread ==
  Misread = {}
<1> SUFFICES ASSUME NEW p \in Packet, Readable(p), NEW q \in Packet, Text(q) = Text(p)
             PROVE  Kind(q) = Kind(p)
    BY DEF Misread
<1> DEFINE h == p.hdr
           g == q.hdr
<1>1. h.frame_t = g.frame_t /\ h.frame_st = g.frame_st
    BY SameTextSameType
<1>2. IsActionFrame(g) <=> IsActionFrame(h)
    BY <1>1 DEF IsActionFrame, IsMgmt
<1>3. CASE ~IsActionFrame(h)
    BY <1>1, <1>2, <1>3 DEF Kind
<1>4. CASE IsActionFrame(h)
  <2>1. PICK f \in Frame, e \in Frame : p = PacketOf(f) /\ q = PacketOf(e)
      BY DEF Packet
  <2>2. f = h /\ e = g
      BY <2>1 DEF PacketOf
  <2>3. /\ p.action.cat \in Nat /\ p.action.code \in Nat
        /\ q.action.cat \in Nat /\ q.action.code \in Nat
      BY <1>2, <1>4, <2>1, <2>2, CodeAssumption DEF PacketOf
  <2>4. /\ action_cat_to_string(p.action.cat) = action_cat_to_string(q.action.cat)
        /\ action_cat_to_string(p.action.cat) # "UNKNOWN"
        /\ action_to_string(p.action.cat, p.action.code)
             = action_to_string(q.action.cat, q.action.code)
        /\ action_to_string(p.action.cat, p.action.code) # "UNKNOWN"
    <3> HIDE DEF h, g
    <3> QED
        BY <1>2, <1>4, TextParts DEF Readable, h, g
  <2>5. p.action.cat = q.action.cat
      BY <2>3, <2>4, CategoryTells
  <2>6. p.action.cat \in {4, 9, VHT, HE} \/ p.action.code = q.action.code
      BY <2>3, <2>4, <2>5, ActionTells
  <2> QED
      BY <1>1, <1>2, <1>4, <2>5, <2>6 DEF Kind
<1> QED
    BY <1>3, <1>4

\* Whatever the ring holds, a row that has no "UNKNOWN" in it tells the kind
\* of its frame.
THEOREM RowsAreReadApart ==
  RingSpec => []RowsTellKindsApart
<1>1. RowsTellKindsApart
    BY NoneMisread DEF RowsTellKindsApart
<1> QED
    BY <1>1, PTL
=============================================================================
