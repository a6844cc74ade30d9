-------------------------- MODULE ReceptionProofs ---------------------------
(***************************************************************************)
(* Proofs about what reaches the list of access points from the air, for   *)
(* every set of captures that satisfies CaptureAssumption.                 *)
(*                                                                         *)
(* Every step of AirSpec is one of ApTable's, so that ApInv holds; the     *)
(* entries' addresses and names need one more invariant, Own, of the slots *)
(* in use.  That of the others is lost: a slot keeps the name of an access *)
(* point under whose address nobody lists it any more.                     *)
(***************************************************************************)
EXTENDS Reception, ApDirectoryProofs

\* The address and the name of the entry a were announced together, or a
\* flagged announcement wrote to it, S being the addresses of such entries.
OnAir(a, S) ==
  \/ a.mac \in S
  \/ \E h \in Announcements : a.mac = Kern!Bssid(h)

OwnName(a, S) ==
  \/ a.ssid = HIDDEN
  \/ a.mac \in S
  \/ \E h \in Announcements : Kern!Bssid(h) = a.mac /\ a.ssid \in Names(h)

Own == \A k \in Live : OnAir(aps[k], misread) /\ OwnName(aps[k], misread)

AirInv == ApInv /\ Own

-----------------------------------------------------------------------------
(* What a message says about its capture.                                  *)

\* Type, flags and retry bit arrive as they were captured, and a capture that
\* is too short does not arrive.
LEMMA ReceivedFields ==
  ASSUME NEW h \in Capture, NEW f \in Received[h]
  PROVE  /\ f \in Frame
         /\ f.frame_t = h.frame_t /\ f.frame_st = h.frame_st
         /\ f.tods = h.tods /\ f.fromds = h.fromds
         /\ f.ssid \in Names(h)
         /\ ~Kern!TooShort(h)
         /\ \E a \in Kern!parse_fromtods(h) :
              f.src_mac = a.src_mac /\ f.dst_mac = a.dst_mac /\ f.bssid = a.bssid
<1>1. f \in Frame
    BY CaptureAssumption
<1>2. ~Kern!TooShort(h)
    BY DEF Received, Kern!Messages
<1>3. PICK m \in Kern!Messages(h), s \in Names(h) :
        f = [ frame_t |-> m.frame_t, frame_st |-> m.frame_st, retry |-> m.retry,
              tods |-> m.tods, fromds |-> m.fromds, frame_d |-> m.frame_d,
              src_mac |-> m.src_mac, dst_mac |-> m.dst_mac, bssid |-> m.bssid,
              channel_freq |-> m.channel_freq,
              ssid |-> s, action |-> h.action ]
    BY DEF Received
<1>4. PICK a \in Kern!parse_fromtods(h) :
        m = [ frame_t |-> h.frame_t, frame_st |-> h.frame_st, retry |-> h.retry,
              tods |-> h.tods, fromds |-> h.fromds, frame_d |-> a.frame_d,
              src_mac |-> a.src_mac, dst_mac |-> a.dst_mac, bssid |-> a.bssid,
              channel_freq |-> Kern!get_radiotap_info(h),
              body_len |-> Kern!BodyLen(h) % U8 ]
    BY <1>2 DEF Kern!Messages
<1> QED
    BY <1>1, <1>2, <1>3, <1>4

\* An announcement with neither flag arrives under the address of its access
\* point.
LEMMA AnnouncedAddress ==
  ASSUME NEW h \in Capture, NEW f \in Received[h], Announces(f), ~Flagged(h)
  PROVE  h \in Announcements /\ f.bssid = Kern!Bssid(h)
<1>1. Announces(h)
    BY ReceivedFields DEF Announces, IsMgmt
<1>2. h.tods = 0 /\ h.fromds = 0 /\ Len(h.addr) >= 3
    BY <1>1, CaptureAssumption DEF Flagged
<1>3. PICK a \in Kern!parse_fromtods(h) : f.bssid = a.bssid
    BY ReceivedFields
<1>4. a.bssid \in Kern!Addr(h, 3)
    BY <1>2, <1>3 DEF Kern!parse_fromtods, Kern!Addresses
<1> QED
    BY <1>1, <1>2, <1>3, <1>4, ReceivedFields
       DEF Announcements, Kern!Addr, Kern!Bssid

-----------------------------------------------------------------------------
(* Addresses and names, action by action.                                  *)

\* Counting traffic leaves names alone.
LEMMA CountedNames ==
  ASSUME ApTypeOK, NEW f \in Frame, NEW k \in Slots
  PROVE  Counted(f)[k].ssid = aps[k].ssid
<1> DEFINE a == IF Transmits(k, f) THEN CountTx(aps[k], f) ELSE aps[k]
<1>1. aps[k] \in ApRecord
    BY DEF ApTypeOK
<1>2. \A b \in ApRecord : CountTx(b, f).ssid = b.ssid /\ CountRx(b, f).ssid = b.ssid
    BY DEF CountTx, CountRx, ApRecord
<1>3. a \in ApRecord /\ a.ssid = aps[k].ssid
    BY <1>1, <1>2, CountKeeps DEF ApTypeOK
<1>4. Counted(f)[k] = IF Receives(k, f) THEN CountRx(a, f) ELSE a
    BY DEF Counted
<1> HIDE DEF a
<1> QED
    BY <1>2, <1>3, <1>4

\* An announcement leaves its entry with a name of its own, or is flagged.
LEMMA AnnouncedOwn ==
  ASSUME NEW h \in Capture, NEW f \in Received[h], Announces(f), now \in Nat,
         NEW S, NEW T, S \subseteq T, Flagged(h) => f.bssid \in T,
         NEW a \in ApRecord, NoRepeats(a.channel_freqs),
         a.mac = f.bssid, OwnName(a, S)
  PROVE  OnAir(Announced(a, f), T) /\ OwnName(Announced(a, f), T)
<1> DEFINE b == Announced(a, f)
<1>1. b.mac = a.mac
    BY AnnouncedKeeps, ReceivedFields
<1>2. b.ssid = a.ssid \/ b.ssid \in Names(h)
  <2>1. b.ssid = Renamed(a.ssid, f.ssid)
      BY DEF Announced, iter_packet_ies, ApRecord
  <2> QED
      BY <2>1, ReceivedFields DEF Renamed
<1> HIDE DEF b
<1>3. CASE Flagged(h)
    BY <1>1, <1>3 DEF OnAir, OwnName, b
<1>4. CASE ~Flagged(h)
  <2>1. h \in Announcements /\ b.mac = Kern!Bssid(h)
      BY <1>1, <1>4, AnnouncedAddress
  <2>2. OnAir(b, T)
      BY <2>1 DEF OnAir
  <2>3. OwnName(b, T)
      BY <1>1, <1>2, <2>1 DEF OwnName
  <2> QED
      BY <2>2, <2>3 DEF b
<1> QED
    BY <1>3, <1>4

\* A message keeps the entries' addresses and names their own.
LEMMA DeliverOwn ==
  ASSUME AirInv, NEW h \in Capture, Deliver(h)
  PROVE  Own'
<1> USE DEF AirInv, ApInv
<1>0. PICK f \in Received[h] :
        /\ HandleFrame(f)
        /\ misread' = IF Announces(h) /\ Flagged(h) THEN misread \cup {f.bssid}
                                                    ELSE misread
    BY DEF Deliver
<1>7. /\ misread \subseteq misread'
      /\ Announces(f) /\ Flagged(h) => f.bssid \in misread'
    BY <1>0, ReceivedFields DEF Announces, IsMgmt
<1> DEFINE C == Counted(f)
<1>1. /\ f \in Frame /\ now \in Nat
      /\ C \in [Slots -> ApRecord]
      /\ \A k \in Slots : /\ C[k].mac = aps[k].mac
                          /\ C[k].ssid = aps[k].ssid
                          /\ NoRepeats(C[k].channel_freqs)
    BY ReceivedFields, CountedKeeps, CountedNames DEF ApTypeOK, FreqsDistinct
<1>2. Live \subseteq Slots
    BY SizeAssumption DEF Live, Slots, ApTypeOK
<1>3. \A k \in Live : /\ OnAir(C[k], misread) /\ OwnName(C[k], misread)
                      /\ OnAir(C[k], misread') /\ OwnName(C[k], misread')
  <2>1. \A k \in Live : OnAir(C[k], misread) /\ OwnName(C[k], misread)
      BY <1>1, <1>2 DEF Own, OnAir, OwnName
  <2> HIDE DEF C
  <2> QED
      BY <1>7, <2>1 DEF OnAir, OwnName
<1>4. CASE HandleTraffic(f)
  <2>1. aps' = C /\ Live' = Live
      BY <1>4 DEF HandleTraffic, Live
  <2> QED
      BY <1>3, <2>1 DEF Own
<1>5. CASE HandleKnown(f)
  <2> DEFINE g == get_ap(f.bssid)
  <2>1. g \in Live /\ aps[g].mac = f.bssid
      BY <1>5, GetApFinds DEF HandleKnown
  <2>2. aps' = [C EXCEPT ![g] = Announced(C[g], f)] /\ Live' = Live
      BY <1>5 DEF HandleKnown, Live
  <2>3. Announces(f)
      BY <1>5 DEF HandleKnown
  <2> HIDE DEF g, C
  <2>4. OnAir(Announced(C[g], f), misread') /\ OwnName(Announced(C[g], f), misread')
      BY <1>7, <1>1, <1>2, <1>3, <2>1, <2>3, AnnouncedOwn
  <2>5. \A k \in Live : aps'[k] = IF k = g THEN Announced(C[g], f) ELSE C[k]
      BY <1>1, <1>2, <2>1, <2>2
  <2> QED
      BY <1>3, <2>2, <2>4, <2>5 DEF Own
<1>6. CASE HandleNew(f)
  <2> DEFINE a == Adopt(C[aps_count], f)
  <2>1. f.bssid \in Mac /\ ~IsAp(f.bssid) /\ Announces(f)
      BY <1>1, <1>6, FrameAssumption DEF HandleNew
  <2>2. aps_count \in Slots /\ Live' = Live \cup {aps_count} /\ aps_count \notin Live
    <3>1. aps_count < AP_CAPACITY
        BY <1>0, <2>1, SizeAssumption
           DEF HandleFrame, Overruns, NoRoomForAp, ApTypeOK
    <3> QED
        BY <1>6, <3>1, SizeAssumption DEF HandleNew, Live, Slots, ApTypeOK
  <2>3. aps' = [C EXCEPT ![aps_count] = Announced(a, f)]
      BY <1>6 DEF HandleNew
  <2> HIDE DEF C
  <2>4. /\ a \in ApRecord /\ a.mac = f.bssid /\ a.ssid = HIDDEN
        /\ NoRepeats(a.channel_freqs)
      BY <1>1, <2>1, <2>2, NameAssumption DEF Adopt, ApRecord
  <2> HIDE DEF a
  <2>5. OnAir(Announced(a, f), misread') /\ OwnName(Announced(a, f), misread')
    <3>1. OwnName(a, misread)
        BY <2>4 DEF OwnName
    <3> QED
        BY <1>7, <1>1, <2>1, <2>4, <3>1, AnnouncedOwn
  <2>6. \A k \in Live' : aps'[k] = IF k = aps_count THEN Announced(a, f) ELSE C[k]
      BY <1>1, <1>2, <2>2, <2>3
  <2> QED
      BY <1>3, <2>2, <2>5, <2>6 DEF Own
<1> QED
    BY <1>0, <1>4, <1>5, <1>6 DEF HandleFrame

\* A removal only moves entries, and the one it removes shares its address
\* with none.
LEMMA EvictOwn ==
  ASSUME AirInv, NEW k \in Live, Evict(k), misread' = misread \ {aps[k].mac}
  PROVE  Own'
<1>1. aps_count \in 1 .. AP_CAPACITY /\ k \in 0 .. aps_count - 1
    BY SizeAssumption DEF AirInv, ApInv, ApTypeOK, Live
<1>2. Live' = 0 .. aps_count - 2
    BY <1>1 DEF Evict, Live
<1>3. \A s \in Live' : \E t \in Live : t # k /\ aps'[s] = aps[t]
  <2> SUFFICES ASSUME NEW s \in 0 .. aps_count - 2
               PROVE  \E t \in 0 .. aps_count - 1 : t # k /\ aps'[s] = aps[t]
      BY <1>2 DEF Live
  <2>1. s \in Slots /\ s \in 0 .. aps_count - 1 /\ s + 1 \in 0 .. aps_count - 1
      BY <1>1, SizeAssumption DEF Slots
  <2>2. aps'[s] = IF k <= s THEN aps[s + 1] ELSE aps[s]
      BY <1>1, <2>1 DEF Evict, Shifted
  <2>3. CASE k <= s
      BY <1>1, <2>1, <2>2, <2>3
  <2>4. CASE ~(k <= s)
      BY <1>1, <2>1, <2>2, <2>4
  <2> QED
      BY <2>3, <2>4
<1>4. ASSUME NEW t \in Live, t # k
      PROVE  OnAir(aps[t], misread') /\ OwnName(aps[t], misread')
  <2>1. aps[t].mac # aps[k].mac
      BY <1>4 DEF AirInv, ApInv, UniqueMacs
  <2>2. OnAir(aps[t], misread) /\ OwnName(aps[t], misread)
      BY DEF AirInv, Own
  <2> QED
      BY <2>1, <2>2 DEF OnAir, OwnName
<1> QED
    BY <1>3, <1>4 DEF Own

\* Every step from the air is one of the table's.
LEMMA AirStepIsApStep ==
  ASSUME AirNext
  PROVE  ApNext
<1>1. ASSUME NEW h \in Capture, Deliver(h)
      PROVE  \E f \in Frame : HandleFrame(f)
    BY <1>1, ReceivedFields DEF Deliver
<1> QED
    BY <1>1 DEF AirNext, ApNext

\* The invariant holds throughout.
LEMMA AirAlways ==
  AirSpec => []AirInv
<1>1. AirInit => AirInv
    BY InitInv DEF AirInit, ApInit, AirInv, Own, Live
<1>2. AirInv /\ [AirNext]_airVars => AirInv'
  <2> SUFFICES ASSUME AirInv, [AirNext]_airVars
               PROVE  AirInv'
      OBVIOUS
  <2>1. ApInv'
      BY AirStepIsApStep, NextInv DEF AirInv, airVars
  <2>2. Own'
    <3>1. CASE (Tick /\ UNCHANGED misread) \/ UNCHANGED airVars
        BY <3>1 DEF Tick, airVars, apVars, AirInv, Own, Live
    <3> QED
        BY <3>1, DeliverOwn, EvictOwn DEF AirNext
  <2> QED
      BY <2>1, <2>2 DEF AirInv
<1> QED
    BY <1>1, <1>2, PTL DEF AirSpec

-----------------------------------------------------------------------------
(* Traffic.                                                                *)

\* A frame between a client and an access point reaches the counters of the
\* entry with the access point's address, and of no other.
LEMMA DeliverCounts ==
  ASSUME ApInv, NEW h \in Capture, ~Announces(h), Len(h.addr) >= 3,
         h.tods + h.fromds <= 1, Deliver(h), NEW k \in Live
  PROVE  CountedRight(aps[k], aps'[k], h)
<1>0. PICK f \in Received[h] : HandleFrame(f)
    BY DEF Deliver
<1>1. /\ f \in Frame /\ f.tods = h.tods /\ f.fromds = h.fromds /\ ~Announces(f)
      /\ h.tods \in {0, 1} /\ h.fromds \in {0, 1}
    BY ReceivedFields, CaptureAssumption DEF Announces, IsMgmt
<1>2. aps' = Counted(f)
    BY <1>0, <1>1 DEF HandleFrame, HandleTraffic, HandleKnown, HandleNew
<1>3. k \in Slots /\ aps[k] \in ApRecord
    BY SizeAssumption DEF ApInv, ApTypeOK, Live, Slots
<1>4. \A m : IsAp(m) /\ k = get_ap(m) <=> aps[k].mac = m
    BY GetApOf DEF ApInv
<1>5. PICK p \in Kern!parse_fromtods(h) : f.src_mac = p.src_mac /\ f.dst_mac = p.dst_mac
    BY ReceivedFields
<1>6. /\ h.fromds = 1 => h.tods = 0 /\ f.src_mac = Kern!Bssid(h)
      /\ h.tods = 1 => h.fromds = 0 /\ f.dst_mac = Kern!Bssid(h)
  <2>1. CASE h.tods = 0 /\ h.fromds = 1
      BY <1>5, <2>1 DEF Kern!parse_fromtods, Kern!Addresses, Kern!Addr, Kern!Bssid
  <2>2. CASE h.tods = 1 /\ h.fromds = 0
      BY <1>5, <2>2 DEF Kern!parse_fromtods, Kern!Addresses, Kern!Addr, Kern!Bssid
  <2> QED
      BY <1>1, <2>1, <2>2
<1> DEFINE own == aps[k].mac = Kern!Bssid(h)
<1>7. /\ Transmits(k, f) <=> own /\ h.fromds = 1
      /\ Receives(k, f) <=> own /\ h.tods = 1
    BY <1>1, <1>4, <1>6 DEF Transmits, Receives
<1>8. aps'[k] = LET a == IF Transmits(k, f) THEN CountTx(aps[k], f) ELSE aps[k]
                IN  IF Receives(k, f) THEN CountRx(a, f) ELSE a
    BY <1>2, <1>3 DEF Counted
<1>9. /\ CountTx(aps[k], f).tx_packets = Inc32(aps[k].tx_packets)
      /\ CountTx(aps[k], f).rx_packets = aps[k].rx_packets
      /\ CountRx(aps[k], f).rx_packets = Inc32(aps[k].rx_packets)
      /\ CountRx(aps[k], f).tx_packets = aps[k].tx_packets
    BY <1>3 DEF CountTx, CountRx, ApRecord
<1> QED
    BY <1>1, <1>6, <1>7, <1>8, <1>9 DEF CountedRight

-----------------------------------------------------------------------------
(* Theorems.                                                               *)

\* Everything in the list announced itself under its address, or was written
\* to by an announcement with a flag set: no other frame makes an entry,
\* whatever the kernel module reads behind its header.
THEOREM ListIsOnAir ==
  AirSpec => []EntriesAreOnAir
<1>1. AirInv => EntriesAreOnAir
    BY DEF AirInv, Own, OnAir, EntriesAreOnAir
<1> QED
    BY <1>1, AirAlways, PTL

\* No entry shows the name that another access point left in its slot: its
\* name agrees with an announcement of its own as far as that was received.
THEOREM ListNamesAreOwn ==
  AirSpec => []NamesAreOwn
<1>1. AirInv => NamesAreOwn
    BY DEF AirInv, Own, OwnName, NamesAreOwn
<1> QED
    BY <1>1, AirAlways, PTL

\* The kernel module's reading of the flags and the user program's search by
\* source and destination together count traffic for the right entry.
THEOREM TrafficIsCounted ==
  AirSpec => TrafficCountedForTheAp
<1> DEFINE A == \A h \in Capture :
                  /\ ~Announces(h) /\ Len(h.addr) >= 3 /\ h.tods + h.fromds <= 1
                  /\ Deliver(h)
                  => \A k \in Live : CountedRight(aps[k], aps'[k], h)
<1>1. AirInv /\ [AirNext]_airVars => [A]_airVars
    BY DeliverCounts DEF AirInv
<1> QED
    BY <1>1, AirAlways, PTL DEF AirSpec, TrafficCountedForTheAp

\* What comes in from the air drives the table as its specification allows,
\* so that it too makes of the array nothing but the directory.
THEOREM AirImplementsDirectory ==
  AirSpec => ImplementsDirectory
<1>1. [AirNext]_airVars => [ApNext]_apVars
    BY AirStepIsApStep DEF airVars
<1>2. AirInit => ApInit
    BY DEF AirInit
<1>3. AirSpec => ApSpec
    BY <1>1, <1>2, PTL DEF AirSpec, ApSpec
<1> QED
    BY <1>3, TableImplementsDirectory
=============================================================================
