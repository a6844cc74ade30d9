----------------------------- MODULE Reception ------------------------------
(***************************************************************************)
(* From the air to the list of access points: what the kernel module makes *)
(* of a captured frame (FrameDecode), and what the user program does with  *)
(* the message (frame_handler, then handle_frame_info as in ApTable).  A   *)
(* message may be lost in between, which is a capture that never happens.  *)
(*                                                                         *)
(* A capture has, beside what FrameDecode looks at, the name that its body *)
(* announces and its first two octets as an action.                        *)
(***************************************************************************)
EXTENDS ApTable

CONSTANT Capture   \* the frames that mon0 may capture

Kern == INSTANCE FrameDecode

VARIABLE misread   \* auxiliary: the entries that a flagged announcement made
                   \* or changed, by their addresses

airVars == <<apVars, misread>>

\* A management frame should carry neither flag of the distribution system.
\* Neither program checks that it does not.
Flagged(h) == h.tods = 1 \/ h.fromds = 1

\* How many octets of an announcement's name fit into its body: 12 octets of
\* fixed parameters and the element's header come before it.  The body's
\* length goes through a u8.
NameRoom(h) == (Kern!BodyLen(h) % U8) - 14

\* The names that iter_packet_ies may take from the message.  Without room it
\* finds no element, which leaves the stored name as an empty one does; and
\* what a cut name lacks is read from behind the iterator's block.
Names(h) ==
  IF NameRoom(h) <= 0 THEN {<<>>}
  ELSE {s \in [1 .. Len(h.ssid) -> Char] :
          \A n \in 1 .. Len(h.ssid) : n <= NameRoom(h) => s[n] = h.ssid[n]}

\* The frames that frame_handler may read out of the message.
Received == [h \in Capture |->
  {[ frame_t |-> m.frame_t, frame_st |-> m.frame_st, retry |-> m.retry,
     tods |-> m.tods, fromds |-> m.fromds, frame_d |-> m.frame_d,
     src_mac |-> m.src_mac, dst_mac |-> m.dst_mac, bssid |-> m.bssid,
     channel_freq |-> m.channel_freq,
     ssid |-> s, action |-> h.action ] : m \in Kern!Messages(h), s \in Names(h)}]

\* The air: a management frame has three addresses.
ASSUME CaptureAssumption ==
  \A h \in Capture :
    /\ h.tods \in {0, 1} /\ h.fromds \in {0, 1}
    /\ Received[h] \subseteq Frame
    /\ Announces(h) => Len(h.addr) >= 3

\* One message, from sniffer_rx_handler to the end of frame_handler.
Deliver(h) ==
  \E f \in Received[h] :
    /\ HandleFrame(f)
    /\ misread' = IF Announces(h) /\ Flagged(h) THEN misread \cup {f.bssid}
                                                ELSE misread

AirInit == ApInit /\ misread = {}

AirNext ==
  \/ \E h \in Capture : Deliver(h)
  \/ \E k \in Live : Evict(k) /\ misread' = misread \ {aps[k].mac}
  \/ Tick /\ UNCHANGED misread

AirSpec == AirInit /\ [][AirNext]_airVars

-----------------------------------------------------------------------------
(* Properties.                                                             *)

\* The captures by which an access point announces itself as 802.11 has it.
Announcements ==
  {h \in Capture : Announces(h) /\ ~Kern!TooShort(h) /\ ~Flagged(h)}

\* Every entry of the list is an access point that announced itself under
\* that address, or the work of an announcement with a flag set, whose BSSID
\* is read from another address, or left to whatever was in the kernel's
\* memory.  Nothing else makes an entry: no other frame, whatever is read
\* behind its header, and no slot that is taken over.
EntriesAreOnAir ==
  \A k \in Live :
    \/ aps[k].mac \in misread
    \/ \E h \in Announcements : aps[k].mac = Kern!Bssid(h)

\* The name of an entry agrees with one that its own access point announced,
\* in as many octets as the body's length left of it, unless an announcement
\* with a flag set wrote to the entry: it is never the name that an earlier
\* access point left in the slot.
NamesAreOwn ==
  \A k \in Live :
    \/ aps[k].ssid = HIDDEN
    \/ aps[k].mac \in misread
    \/ \E h \in Announcements : Kern!Bssid(h) = aps[k].mac /\ aps[k].ssid \in Names(h)

\* The frame h between a client and an access point changes the counters of
\* the entry a to b as it should.
CountedRight(a, b, h) ==
  LET own == a.mac = Kern!Bssid(h)
  IN  /\ b.tx_packets = IF own /\ h.fromds = 1 THEN Inc32(a.tx_packets) ELSE a.tx_packets
      /\ b.rx_packets = IF own /\ h.tods = 1 THEN Inc32(a.rx_packets) ELSE a.rx_packets

\* Traffic between a client and an access point is counted for the access
\* point and no other: as sent if it comes from the distribution system, as
\* received if it goes there.  This holds although the kernel module takes
\* addresses for one another (see SrcAndDstAreTheFrames), because the user
\* program looks for access points under the names that the mistake gives
\* them.
TrafficCountedForTheAp ==
  [][\A h \in Capture :
       /\ ~Announces(h) /\ Len(h.addr) >= 3 /\ h.tods + h.fromds <= 1
       /\ Deliver(h)
       => \A k \in Live : CountedRight(aps[k], aps'[k], h)]_airVars
=============================================================================
