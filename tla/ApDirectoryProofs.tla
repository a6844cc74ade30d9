------------------------- MODULE ApDirectoryProofs --------------------------
(***************************************************************************)
(* The access point table implements ApDirectory, for every number of      *)
(* slots, addresses and frequencies and every integer width: the array     *)
(* with its appends and shifting removals behaves as a partial map from    *)
(* addresses to entries.                                                   *)
(*                                                                         *)
(* Directory is defined by the search that the code makes.  The proof      *)
(* first replaces the search by the set of the slots that bear an address  *)
(* (DirectoryIs), which ApInv makes a singleton or empty, and then follows *)
(* each action of ApNext on those slots.                                   *)
(***************************************************************************)
EXTENDS ApTableProofs

\* The slots in use that bear m.
Bearers(m) == {k \in Live : aps[k].mac = m}

\* What the table holds for m.
Entries(m) == {Entry(aps[k]) : k \in Bearers(m)}

\* The set that a list of frequencies stands for.
FreqsOf(s) == {s[n] : n \in 1 .. Len(s)}

-----------------------------------------------------------------------------
(* The search.                                                             *)

\* The search for the address of a slot in use finds that slot.
LEMMA GetApOf ==
  ASSUME UniqueMacs, NEW k \in Live, NEW m
  PROVE  IsAp(m) /\ k = get_ap(m) <=> aps[k].mac = m
<1>1. ASSUME aps[k].mac = m
      PROVE  IsAp(m) /\ k = get_ap(m)
  <2>1. IsAp(m)
      BY <1>1 DEF IsAp
  <2> QED
      BY <1>1, <2>1, GetApFinds DEF UniqueMacs
<1> QED
    BY <1>1, GetApFinds

\* The directory in terms of the slots in use.
LEMMA DirectoryIs ==
  UniqueMacs => Directory = [m \in Mac |-> Entries(m)]
<1> SUFFICES ASSUME UniqueMacs, NEW m \in Mac
             PROVE  (IF IsAp(m) THEN {Entry(aps[get_ap(m)])} ELSE {}) = Entries(m)
    BY DEF Directory
<1>1. CASE IsAp(m)
  <2>1. Bearers(m) = {get_ap(m)}
      BY <1>1, GetApFinds, GetApOf DEF Bearers
  <2> QED
      BY <1>1, <2>1 DEF Entries
<1>2. CASE ~IsAp(m)
    BY <1>2 DEF IsAp, Bearers, Entries
<1> QED
    BY <1>1, <1>2

-----------------------------------------------------------------------------
(* What the operations on an entry make of what it stands for.             *)

\* Adding a bit twice, reducing each time, is adding it twice.
LEMMA AddTwice ==
  ASSUME NEW n \in 0 .. U32 - 1, NEW r \in {0, 1}
  PROVE  /\ (n + 0 * r) % U32 = n
         /\ (n + 1 * r) % U32 = (n + r) % U32
         /\ (n + 2 * r) % U32 = (((n + r) % U32) + r) % U32
<1>0. U32 \in Nat \ {0}
    BY SizeAssumption
<1>1. CASE r = 0
    BY <1>0, <1>1
<1>2. CASE r = 1 /\ n + 1 < U32
    BY <1>0, <1>2
<1>3. CASE r = 1 /\ n + 1 = U32
  <2>1. (n + 1) % U32 = 0
      BY <1>0, <1>3
  <2>2. (n + 2) % U32 = 1 % U32
    <3>1. CASE U32 = 1
        BY <1>3, <3>1
    <3>2. CASE U32 > 1
        BY <1>0, <1>3, <3>2
    <3> QED
        BY <1>0, <3>1, <3>2
  <2> QED
      BY <1>0, <1>3, <2>1, <2>2
<1> QED
    BY <1>0, <1>1, <1>2, <1>3

\* What an entry stands for, with its frequencies named.
LEMMA EntryIs ==
  ASSUME NEW a
  PROVE  Entry(a) = [ last_seen |-> a.last_seen, rx_packets |-> a.rx_packets,
                      tx_packets |-> a.tx_packets, beacons |-> a.beacons,
                      retries |-> a.retries, ssid |-> a.ssid,
                      freqs |-> FreqsOf(a.channel_freqs) ]
  BY DEF Entry, FreqsOf

\* Counting a frame in the entry of a slot in use counts it in what the entry
\* stands for: the entry is the transmitter's if it bears the source address,
\* and the receiver's if it bears the destination address.
LEMMA CountedCounts ==
  ASSUME ApInv, NEW f \in Frame, NEW k \in Live
  PROVE  Entry(Counted(f)[k]) = Dir!Count(Entry(aps[k]), aps[k].mac, f)
<1> DEFINE m == aps[k].mac
           tx == f.fromds = 1 /\ f.src_mac = m
           rx == f.tods = 1 /\ f.dst_mac = m
           a == IF Transmits(k, f) THEN CountTx(aps[k], f) ELSE aps[k]
           b == IF Receives(k, f) THEN CountRx(a, f) ELSE a
           n == (IF tx THEN 1 ELSE 0) + (IF rx THEN 1 ELSE 0)
<1>1. k \in Slots /\ aps[k] \in ApRecord /\ now \in Nat
    BY SizeAssumption DEF ApInv, ApTypeOK, Live, Slots
<1>2. Counted(f)[k] = b
    BY <1>1 DEF Counted
<1>3. (Transmits(k, f) <=> tx) /\ (Receives(k, f) <=> rx)
    BY GetApOf DEF ApInv, Transmits, Receives
<1>4. a \in ApRecord /\ b \in ApRecord
    BY <1>1, CountKeeps
<1>5. /\ a.tx_packets = IF tx THEN Inc32(aps[k].tx_packets) ELSE aps[k].tx_packets
      /\ a.last_seen = IF tx THEN now ELSE aps[k].last_seen
      /\ a.retries = IF tx THEN (aps[k].retries + f.retry) % U32 ELSE aps[k].retries
      /\ a.rx_packets = aps[k].rx_packets
      /\ a.beacons = aps[k].beacons
      /\ a.ssid = aps[k].ssid
      /\ a.channel_freqs = aps[k].channel_freqs
    BY <1>1, <1>3 DEF CountTx, ApRecord
<1> HIDE DEF a
<1>6. /\ b.tx_packets = a.tx_packets
      /\ b.last_seen = a.last_seen
      /\ b.retries = IF rx THEN (a.retries + f.retry) % U32 ELSE a.retries
      /\ b.rx_packets = IF rx THEN Inc32(a.rx_packets) ELSE a.rx_packets
      /\ b.beacons = a.beacons
      /\ b.ssid = a.ssid
      /\ b.channel_freqs = a.channel_freqs
    BY <1>3, <1>4 DEF CountRx, ApRecord
<1> HIDE DEF b
<1>7. b.retries = (aps[k].retries + n * f.retry) % U32
  <2>1. aps[k].retries \in 0 .. U32 - 1 /\ f.retry \in {0, 1}
      BY <1>1, FrameAssumption DEF ApRecord
  <2>2. n = IF tx /\ rx THEN 2 ELSE IF tx \/ rx THEN 1 ELSE 0
      OBVIOUS
  <2> HIDE DEF n, tx, rx
  <2>3. CASE tx /\ rx
      BY <1>5, <1>6, <2>1, <2>2, <2>3, AddTwice
  <2>4. CASE ~(tx /\ rx) /\ (tx \/ rx)
      BY <1>5, <1>6, <2>1, <2>2, <2>4, AddTwice
  <2>5. CASE ~tx /\ ~rx
      BY <1>5, <1>6, <2>1, <2>2, <2>5, AddTwice
  <2> QED
      BY <2>3, <2>4, <2>5
<1> DEFINE e == Entry(aps[k])
<1>8. Dir!Count(e, m, f)
        = [ e EXCEPT !.tx_packets = IF tx THEN (e.tx_packets + 1) % U32 ELSE e.tx_packets,
                     !.rx_packets = IF rx THEN (e.rx_packets + 1) % U32 ELSE e.rx_packets,
                     !.retries    = (e.retries + n * f.retry) % U32,
                     !.last_seen  = IF tx THEN now ELSE e.last_seen ]
    BY DEF Dir!Count
<1>9. e = [ last_seen |-> aps[k].last_seen, rx_packets |-> aps[k].rx_packets,
            tx_packets |-> aps[k].tx_packets, beacons |-> aps[k].beacons,
            retries |-> aps[k].retries, ssid |-> aps[k].ssid,
            freqs |-> FreqsOf(aps[k].channel_freqs) ]
    BY EntryIs
<1>10. Entry(b) = [ last_seen |-> b.last_seen, rx_packets |-> b.rx_packets,
             tx_packets |-> b.tx_packets, beacons |-> b.beacons,
             retries |-> b.retries, ssid |-> b.ssid,
             freqs |-> FreqsOf(b.channel_freqs) ]
    BY EntryIs
<1> HIDE DEF tx, rx, n, e, m
<1>11. Dir!Count(e, m, f)
        = [ last_seen  |-> IF tx THEN now ELSE e.last_seen,
            rx_packets |-> IF rx THEN (e.rx_packets + 1) % U32 ELSE e.rx_packets,
            tx_packets |-> IF tx THEN (e.tx_packets + 1) % U32 ELSE e.tx_packets,
            beacons    |-> e.beacons,
            retries    |-> (e.retries + n * f.retry) % U32,
            ssid       |-> e.ssid,
            freqs      |-> e.freqs ]
  <2>1. DOMAIN e = {"last_seen", "rx_packets", "tx_packets", "beacons", "retries",
                    "ssid", "freqs"}
      BY <1>9
  <2>2. e = [ last_seen |-> e.last_seen, rx_packets |-> e.rx_packets,
              tx_packets |-> e.tx_packets, beacons |-> e.beacons,
              retries |-> e.retries, ssid |-> e.ssid, freqs |-> e.freqs ]
      BY <1>9
  <2> QED
      BY <1>8, <2>1, <2>2
<1>12. /\ b.last_seen = IF tx THEN now ELSE e.last_seen
       /\ b.rx_packets = IF rx THEN (e.rx_packets + 1) % U32 ELSE e.rx_packets
       /\ b.tx_packets = IF tx THEN (e.tx_packets + 1) % U32 ELSE e.tx_packets
       /\ b.beacons = e.beacons
       /\ b.retries = (e.retries + n * f.retry) % U32
       /\ b.ssid = e.ssid
       /\ FreqsOf(b.channel_freqs) = e.freqs
    BY <1>5, <1>6, <1>7, <1>9 DEF Inc32
<1>13. Entry(b) = Dir!Count(e, m, f)
    BY <1>10, <1>11, <1>12
<1> QED
    BY <1>2, <1>13 DEF m, e

\* A frequency heard joins the set of those heard.
LEMMA HeardJoins ==
  ASSUME NEW s \in Seq(Freq), NEW q \in Freq
  PROVE  FreqsOf(Heard(s, q)) = FreqsOf(s) \cup {q}
<1>1. CASE \E n \in 1 .. Len(s) : s[n] = q
    BY <1>1 DEF Heard, FreqsOf
<1>2. CASE ~ \E n \in 1 .. Len(s) : s[n] = q
  <2>1. /\ Heard(s, q) = Append(s, q)
        /\ Len(Append(s, q)) = Len(s) + 1
        /\ \A n \in 1 .. Len(s) : Append(s, q)[n] = s[n]
        /\ Append(s, q)[Len(s) + 1] = q
      BY <1>2 DEF Heard
  <2>2. 1 .. Len(s) + 1 = (1 .. Len(s)) \cup {Len(s) + 1}
      OBVIOUS
  <2> QED
      BY <2>1, <2>2 DEF FreqsOf
<1> QED
    BY <1>1, <1>2

\* The directory tells the frames apart as the table does.
LEMMA DirNames ==
  ASSUME NEW f
  PROVE  (Dir!IsBeacon(f) <=> IsBeacon(f)) /\ (Dir!Announces(f) <=> Announces(f))
  BY DEF IsBeacon, Announces, IsMgmt, T_MANAGEMENT, M_BEACON, M_PROBE_RESPONSE,
         Dir!IsBeacon, Dir!Announces, Dir!IsMgmt, Dir!T_MANAGEMENT, Dir!M_BEACON,
         Dir!M_PROBE_RESPONSE

\* An announcement in an entry announces in what the entry stands for.
LEMMA AnnouncedAnnounces ==
  ASSUME NEW a \in ApRecord, NEW f \in Frame
  PROVE  Dir!Announce(Entry(a), Entry(Announced(a, f)), f)
<1> DEFINE named == iter_packet_ies(a, f)
           heard == Heard(a.channel_freqs, f.channel_freq)
           b == Announced(a, f)
<1>1. Renamed(a.ssid, f.ssid) \in {a.ssid, f.ssid}
    BY DEF Renamed
<1>2. named = [a EXCEPT !.ssid = Renamed(a.ssid, f.ssid)]
    BY DEF iter_packet_ies
<1>3. CASE ~IsBeacon(f)
  <2>1. b = named
      BY <1>3 DEF Announced
  <2>2. /\ b.ssid = Renamed(a.ssid, f.ssid)
        /\ b.tx_packets = a.tx_packets /\ b.rx_packets = a.rx_packets
        /\ b.retries = a.retries /\ b.beacons = a.beacons
        /\ b.last_seen = a.last_seen /\ b.channel_freqs = a.channel_freqs
      BY <1>2, <2>1 DEF ApRecord
  <2> HIDE DEF b
  <2>3. Dir!Announce(Entry(a), Entry(b), f)
      BY <1>1, <1>3, <2>2, EntryIs, DirNames DEF Dir!Announce
  <2> QED
      BY <2>3 DEF b
<1>4. CASE IsBeacon(f)
  <2>1. /\ b.ssid = Renamed(a.ssid, f.ssid)
        /\ b.tx_packets = a.tx_packets /\ b.rx_packets = a.rx_packets
        /\ b.retries = a.retries /\ b.beacons = (a.beacons + 1) % U32
        /\ b.last_seen = now /\ b.channel_freqs = heard
    <3> HIDE DEF named
    <3>1. b = [named EXCEPT !.last_seen = now, !.beacons = Inc32(named.beacons),
                            !.channel_freqs = Heard(named.channel_freqs, f.channel_freq)]
        BY <1>4 DEF Announced, named
    <3>2. /\ named.beacons = a.beacons /\ named.channel_freqs = a.channel_freqs
          /\ named.ssid = Renamed(a.ssid, f.ssid)
          /\ named.tx_packets = a.tx_packets /\ named.rx_packets = a.rx_packets
          /\ named.retries = a.retries
          /\ DOMAIN named = DOMAIN a
        BY <1>2 DEF ApRecord
    <3>3. {"last_seen", "beacons", "channel_freqs"} \subseteq DOMAIN named
        BY <3>2 DEF ApRecord
    <3> QED
        BY <3>1, <3>2, <3>3 DEF Inc32
  <2>2. FreqsOf(heard) = FreqsOf(a.channel_freqs) \cup {f.channel_freq}
      BY HeardJoins, FrameAssumption DEF ApRecord
  <2> HIDE DEF b, heard
  <2>3. Dir!Announce(Entry(a), Entry(b), f)
      BY <1>1, <1>4, <2>1, <2>2, EntryIs, DirNames DEF Dir!Announce
  <2> QED
      BY <2>3 DEF b
<1> QED
    BY <1>3, <1>4

-----------------------------------------------------------------------------
(* Step by step.                                                           *)

\* The directory before and after a step.
LEMMA DirectoryStep ==
  ASSUME ApInv, ApInv'
  PROVE  /\ Directory = [m \in Mac |-> Entries(m)]
         /\ Directory' = [m \in Mac |-> Entries(m)']
<1>1. Directory = [m \in Mac |-> Entries(m)]
    BY DirectoryIs DEF ApInv
<1>2. (UniqueMacs => Directory = [m \in Mac |-> Entries(m)])'
    BY DirectoryIs, PTL
<1> QED
    BY <1>1, <1>2 DEF ApInv

\* Counting a frame in every slot counts it in every entry.
LEMMA CountedEntries ==
  ASSUME ApInv, NEW f \in Frame, NEW m
  PROVE  {Entry(Counted(f)[k]) : k \in Bearers(m)} = {Dir!Count(e, m, f) : e \in Entries(m)}
<1>1. \A k \in Bearers(m) : Entry(Counted(f)[k]) = Dir!Count(Entry(aps[k]), m, f)
    BY CountedCounts DEF Bearers
<1> QED
    BY <1>1 DEF Entries

\* A frame that announces nothing.
LEMMA TrafficHears ==
  ASSUME ApInv, ApInv', NEW f \in Frame, HandleTraffic(f), UNCHANGED <<scroll, now>>
  PROVE  Dir!Hear(f)
<1>1. ~Dir!Announces(f)
    BY DirNames DEF HandleTraffic
<1>2. \A k \in Slots : Counted(f)[k].mac = aps[k].mac
    BY CountedKeeps DEF ApInv
<1>3. Live' = Live /\ Live \subseteq Slots /\ aps' = Counted(f)
    BY SizeAssumption DEF HandleTraffic, Live, Slots, ApInv, ApTypeOK
<1>4. ASSUME NEW m \in Mac
      PROVE  Entries(m)' = {Dir!Count(e, m, f) : e \in Entries(m)}
  <2>1. Bearers(m)' = Bearers(m)
      BY <1>2, <1>3 DEF Bearers
  <2>2. Entries(m)' = {Entry(Counted(f)[k]) : k \in Bearers(m)}
      BY <1>3, <2>1 DEF Entries, Entry
  <2> QED
      BY <2>2, CountedEntries
<1> QED
    BY <1>1, <1>4, DirectoryStep DEF Dir!Hear

\* An announcement by an access point in the table changes its own entry.
LEMMA KnownHears ==
  ASSUME ApInv, ApInv', NEW f \in Frame, HandleKnown(f), UNCHANGED <<scroll, now>>
  PROVE  Dir!Hear(f)
<1> DEFINE C == Counted(f)
           g == get_ap(f.bssid)
           e2 == Entry(Announced(C[g], f))
<1>0. /\ g \in Live /\ f.bssid \in Mac /\ Dir!Announces(f)
      /\ \A k \in Live : aps[k].mac = f.bssid <=> k = g
    BY GetApFinds, GetApOf, FrameAssumption, DirNames DEF HandleKnown, ApInv
<1>1. /\ C \in [Slots -> ApRecord]
      /\ \A k \in Slots : C[k].mac = aps[k].mac
      /\ NoRepeats(C[g].channel_freqs)
      /\ now \in Nat
    BY <1>0, CountedKeeps, SizeAssumption
       DEF ApInv, FreqsDistinct, ApTypeOK, Live, Slots
<1>2. Live' = Live /\ Live \subseteq Slots
    BY SizeAssumption DEF HandleKnown, Live, Slots, ApInv, ApTypeOK
<1>3. aps' = [C EXCEPT ![g] = Announced(C[g], f)]
    BY DEF HandleKnown
<1>4. Entry(C[g]) = Dir!Count(Entry(aps[g]), f.bssid, f)
    BY <1>0, CountedCounts
<1>5. Dir!Announce(Entry(C[g]), e2, f)
    BY <1>0, <1>1, <1>2, AnnouncedAnnounces
<1>6. ASSUME NEW m \in Mac, m # f.bssid
      PROVE  Entries(m)' = {Dir!Count(e, m, f) : e \in Entries(m)}
  <2>1. Bearers(m)' = Bearers(m) /\ \A k \in Bearers(m) : aps'[k] = C[k]
    <3>1. g \in Slots /\ Announced(C[g], f).mac = C[g].mac
        BY <1>0, <1>1, <1>2, AnnouncedKeeps
    <3> HIDE DEF C, g
    <3>2. \A k \in Live : aps'[k].mac = aps[k].mac /\ (k # g => aps'[k] = C[k])
        BY <1>1, <1>2, <1>3, <3>1
    <3> QED
        BY <1>0, <1>2, <1>6, <3>2 DEF Bearers
  <2>2. Entries(m)' = {Entry(C[k]) : k \in Bearers(m)}
      BY <2>1 DEF Entries, Entry
  <2> QED
      BY <2>2, CountedEntries
<1>7. Entries(f.bssid) = {Entry(aps[g])} /\ Entries(f.bssid)' = {e2}
  <2>1. Bearers(f.bssid) = {g}
      BY <1>0 DEF Bearers
  <2>2. aps'[g] = Announced(C[g], f) /\ Announced(C[g], f).mac = f.bssid
      BY <1>0, <1>1, <1>2, <1>3, AnnouncedKeeps
  <2>3. Bearers(f.bssid)' = {g}
    <3>1. \A k \in Live : k # g => aps'[k].mac = aps[k].mac
        BY <1>1, <1>2, <1>3
    <3> QED
        BY <1>0, <1>2, <2>2, <3>1 DEF Bearers
  <2>4. Entries(f.bssid)' = {Entry(aps'[g])}
      BY <2>3 DEF Entries, Entry
  <2> QED
      BY <2>1, <2>2, <2>4 DEF Entries
<1> HIDE DEF C, g, e2
<1> QED
    BY <1>0, <1>4, <1>5, <1>6, <1>7, DirectoryStep DEF Dir!Hear

\* An announcement by an access point that is not in the table makes an entry.
LEMMA NewHears ==
  ASSUME ApInv, ApInv', NEW f \in Frame, ~NoRoomForAp(f), HandleNew(f),
         UNCHANGED <<scroll, now>>
  PROVE  Dir!Hear(f)
<1> DEFINE C == Counted(f)
           a == Adopt(C[aps_count], f)
           e2 == Entry(Announced(a, f))
<1>0. /\ f.bssid \in Mac /\ Dir!Announces(f) /\ ~IsAp(f.bssid)
      /\ \A k \in Live : aps[k].mac # f.bssid
    BY FrameAssumption, DirNames DEF HandleNew, IsAp
<1>1. /\ C \in [Slots -> ApRecord]
      /\ \A k \in Slots : /\ C[k].mac = aps[k].mac
                          /\ NoRepeats(C[k].channel_freqs)
      /\ now \in Nat
    BY CountedKeeps DEF ApInv, FreqsDistinct, ApTypeOK
<1>2. /\ aps_count \in Slots /\ Live \subseteq Slots
      /\ Live' = Live \cup {aps_count} /\ aps_count \notin Live
  <2>1. aps_count < AP_CAPACITY
      BY SizeAssumption DEF HandleNew, NoRoomForAp, ApInv, ApTypeOK
  <2> QED
      BY <2>1, SizeAssumption DEF HandleNew, Live, Slots, ApInv, ApTypeOK
<1>3. aps' = [C EXCEPT ![aps_count] = Announced(a, f)]
    BY DEF HandleNew
<1> HIDE DEF C
<1>4. /\ a \in ApRecord /\ a.mac = f.bssid /\ a.ssid = HIDDEN
      /\ NoRepeats(a.channel_freqs)
    BY <1>0, <1>1, <1>2, NameAssumption DEF Adopt, ApRecord
<1> HIDE DEF a
<1>5. Dir!Fresh(e2, f)
  <2>1. Dir!Announce(Entry(a), e2, f) /\ Entry(a).ssid = HIDDEN
      BY <1>4, AnnouncedAnnounces, EntryIs
  <2> QED
      BY <2>1 DEF Dir!Announce, Dir!Fresh
<1>6. /\ aps'[aps_count] = Announced(a, f) /\ Announced(a, f).mac = f.bssid
      /\ \A k \in Live : aps'[k] = C[k] /\ C[k].mac = aps[k].mac
    BY <1>1, <1>2, <1>3, <1>4, AnnouncedKeeps
<1>7. ASSUME NEW m \in Mac, m # f.bssid
      PROVE  Entries(m)' = {Dir!Count(e, m, f) : e \in Entries(m)}
  <2>1. Bearers(m)' = Bearers(m) /\ \A k \in Bearers(m) : aps'[k] = C[k]
      BY <1>2, <1>6, <1>7 DEF Bearers
  <2>2. Entries(m)' = {Entry(C[k]) : k \in Bearers(m)}
      BY <2>1 DEF Entries, Entry
  <2> QED
      BY <2>2, CountedEntries DEF C
<1>8. Entries(f.bssid) = {} /\ Entries(f.bssid)' = {e2}
  <2>1. Bearers(f.bssid) = {}
      BY <1>0 DEF Bearers
  <2>2. Bearers(f.bssid)' = {aps_count}
      BY <1>0, <1>2, <1>6 DEF Bearers
  <2>3. Entries(f.bssid)' = {Entry(aps'[aps_count])}
      BY <2>2 DEF Entries, Entry
  <2> QED
      BY <1>6, <2>1, <2>3 DEF Entries
<1> HIDE DEF e2
<1> QED
    BY <1>0, <1>5, <1>7, <1>8, DirectoryStep DEF Dir!Hear

\* A removal takes the stale entry out and, although it moves those behind it,
\* no other.
LEMMA EvictForgets ==
  ASSUME ApInv, ApInv', NEW k \in Live, Evict(k), NEW m0, m0 = aps[k].mac
  PROVE  m0 \in Mac /\ Dir!Forget(m0)
<1> DEFINE from(s) == IF k <= s /\ s < aps_count - 1 THEN s + 1 ELSE s
           to(s) == IF s <= k THEN s ELSE s - 1
<1>0. /\ aps_count \in 1 .. AP_CAPACITY /\ k \in 0 .. aps_count - 1
      /\ Live = 0 .. aps_count - 1 /\ Live \subseteq Slots
      /\ m0 \in Mac
    BY SizeAssumption, FrameAssumption
       DEF Live, ApInv, ApTypeOK, Slots, LiveMacs, ApAddresses
<1>1. Live' = 0 .. aps_count - 2
    BY <1>0 DEF Evict, Live
<1>2. \A s \in Live' : from(s) \in Live \ {k} /\ aps'[s] = aps[from(s)]
  <2> SUFFICES ASSUME NEW s \in 0 .. aps_count - 2
               PROVE  from(s) \in (0 .. aps_count - 1) \ {k} /\ aps'[s] = aps[from(s)]
      BY <1>0, <1>1
  <2>1. s \in Slots /\ from(s) \in (0 .. aps_count - 1) \ {k}
      BY <1>0, SizeAssumption DEF Slots
  <2> QED
      BY <2>1 DEF Evict, Shifted
<1>3. \A t \in Live \ {k} : to(t) \in Live' /\ from(to(t)) = t
  <2> SUFFICES ASSUME NEW t \in 0 .. aps_count - 1, t # k
               PROVE  to(t) \in 0 .. aps_count - 2 /\ from(to(t)) = t
      BY <1>0, <1>1
  <2> QED
      BY <1>0
<1> HIDE DEF from, to
<1>4. ASSUME NEW m
      PROVE  Entries(m)' = {Entry(aps[t]) : t \in Bearers(m) \ {k}}
  <2>1. Entries(m)' = {Entry(aps'[s]) : s \in {u \in Live' : aps'[u].mac = m}}
      BY DEF Entries, Entry, Bearers
  <2>2. ASSUME NEW s \in Live', aps'[s].mac = m
        PROVE  \E t \in Bearers(m) \ {k} : Entry(aps'[s]) = Entry(aps[t])
      BY <1>2, <2>2 DEF Bearers
  <2>3. ASSUME NEW t \in Bearers(m) \ {k}
        PROVE  \E s \in {u \in Live' : aps'[u].mac = m} : Entry(aps'[s]) = Entry(aps[t])
      BY <1>2, <1>3 DEF Bearers
  <2> QED
      BY <2>1, <2>2, <2>3
<1>5. Entries(m0)' = {} /\ Entries(m0) = {Entry(aps[k])}
  <2>1. Bearers(m0) = {k}
      BY DEF Bearers, ApInv, UniqueMacs
  <2> QED
      BY <1>4, <2>1 DEF Entries
<1>6. ASSUME NEW m \in Mac, m # m0
      PROVE  Entries(m)' = Entries(m)
  <2>1. Bearers(m) \ {k} = Bearers(m)
      BY <1>6 DEF Bearers
  <2> QED
      BY <1>4, <2>1 DEF Entries
<1>7. now - Entry(aps[k]).last_seen > EXPIRE
    BY EntryIs DEF Evict, Stale
<1>8. /\ Directory[m0] = {Entry(aps[k])}
      /\ Directory' = [Directory EXCEPT ![m0] = {}]
    BY <1>0, <1>5, <1>6, DirectoryStep
<1> QED
    BY <1>0, <1>7, <1>8 DEF Dir!Forget, Evict

\* Views are not in the directory, and the cursor is not either.
LEMMA KeysKeepDirectory ==
  ASSUME ApInv, ApInv', NEW c, ListKey(c)
  PROVE  UNCHANGED <<Directory, now>>
<1>1. UNCHANGED <<aps_count, now>>
    BY DEF ListKey, KeyUp, KeyDown, KeyTop, KeyBottom, MoveCursor, SetView, SetAllViews
<1>2. Live' = Live /\ Live \subseteq Slots /\ aps \in [Slots -> ApRecord]
    BY <1>1, SizeAssumption DEF Live, Slots, ApInv, ApTypeOK
<1>3. \A a \in ApRecord, v \in Views :
        LET b == [a EXCEPT !.view = v]
        IN  b.mac = a.mac /\ Entry(b) = Entry(a)
  <2> SUFFICES ASSUME NEW a \in ApRecord, NEW v \in Views, NEW b,
                      b = [a EXCEPT !.view = v]
               PROVE  b.mac = a.mac /\ Entry(b) = Entry(a)
      OBVIOUS
  <2>1. /\ b.mac = a.mac /\ b.last_seen = a.last_seen /\ b.rx_packets = a.rx_packets
        /\ b.tx_packets = a.tx_packets /\ b.beacons = a.beacons
        /\ b.retries = a.retries /\ b.ssid = a.ssid
        /\ b.channel_freqs = a.channel_freqs
      BY DEF ApRecord
  <2> QED
      BY <2>1, EntryIs
<1>4. \A k \in Live : aps'[k].mac = aps[k].mac /\ Entry(aps'[k]) = Entry(aps[k])
  <2>1. CASE UNCHANGED aps
      BY <2>1
  <2>2. ASSUME NEW v \in Views, SetView(v)
        PROVE  \A k \in Live : aps'[k].mac = aps[k].mac /\ Entry(aps'[k]) = Entry(aps[k])
    <3>1. \A k \in Live : aps'[k] = IF k = scroll THEN [aps[k] EXCEPT !.view = v] ELSE aps[k]
        BY <1>2, <2>2 DEF SetView
    <3>2. SUFFICES ASSUME NEW k \in Live
                   PROVE  aps'[k].mac = aps[k].mac /\ Entry(aps'[k]) = Entry(aps[k])
        OBVIOUS
    <3>3. CASE k = scroll
      <4>1. aps'[k] = [aps[k] EXCEPT !.view = v] /\ aps[k] \in ApRecord
          BY <1>2, <3>1, <3>3
      <4> QED
          BY <1>3, <4>1, Zenon
    <3>4. CASE k # scroll
      <4>1. aps'[k] = aps[k]
          BY <3>1, <3>4
      <4> QED
          BY <4>1, Zenon
    <3> QED
        BY <3>3, <3>4
  <2>3. ASSUME NEW v \in Views, SetAllViews(v)
        PROVE  \A k \in Live : aps'[k].mac = aps[k].mac /\ Entry(aps'[k]) = Entry(aps[k])
    <3>1. \A k \in Live : aps'[k] = [aps[k] EXCEPT !.view = v]
        BY <1>2, <2>3 DEF SetAllViews
    <3>2. SUFFICES ASSUME NEW k \in Live
                   PROVE  aps'[k].mac = aps[k].mac /\ Entry(aps'[k]) = Entry(aps[k])
        OBVIOUS
    <3>3. aps'[k] = [aps[k] EXCEPT !.view = v] /\ aps[k] \in ApRecord
        BY <1>2, <3>1
    <3> QED
        BY <1>3, <3>3, Zenon
  <2> QED
      BY <2>1, <2>2, <2>3
         DEF ListKey, KeyUp, KeyDown, KeyTop, KeyBottom, MoveCursor, Views
<1>5. \A m \in Mac : Entries(m)' = Entries(m)
  <2> SUFFICES ASSUME NEW m \in Mac
               PROVE  Entries(m)' = Entries(m)
      OBVIOUS
  <2>1. Bearers(m)' = Bearers(m)
      BY <1>2, <1>4 DEF Bearers
  <2>2. Entries(m)' = {Entry(aps'[k]) : k \in Bearers(m)}
      BY <2>1 DEF Entries, Entry
  <2> QED
      BY <1>4, <2>2 DEF Entries, Bearers
<1> QED
    BY <1>1, <1>5, DirectoryStep

-----------------------------------------------------------------------------
(* The refinement.                                                         *)

\* Every step of the table is one of the directory, or leaves it alone.
LEMMA DirectoryNext ==
  ASSUME ApInv, [ApNext]_apVars
  PROVE  [Dir!Next]_(Dir!vars)
<1>0. ApInv'
    BY NextInv
<1>1. ASSUME NEW f \in Frame, HandleFrame(f)
      PROVE  Dir!Next
    BY <1>0, <1>1, TrafficHears, KnownHears, NewHears DEF HandleFrame, Overruns, Dir!Next
<1>2. ASSUME NEW k \in Live, Evict(k)
      PROVE  Dir!Next
    BY <1>0, <1>2, EvictForgets DEF Dir!Next
<1>3. ASSUME NEW c \in Keys, ListKey(c)
      PROVE  UNCHANGED Dir!vars
    BY <1>0, <1>3, KeysKeepDirectory DEF Dir!vars
<1>4. CASE Tick
    BY <1>4 DEF Tick, Dir!Next, Dir!Tick, Directory, IsAp, get_ap, Live, Entry
<1>5. CASE UNCHANGED apVars
    BY <1>5 DEF apVars, Dir!vars, Directory, IsAp, get_ap, Live, Entry
<1> QED
    BY <1>1, <1>2, <1>3, <1>4, <1>5 DEF ApNext

\* The array that init_ctx allocates stands for the empty directory.
LEMMA DirectoryInit ==
  ApInit => Dir!Init
  BY DEF ApInit, Dir!Init, Directory, IsAp, Live

\* A frame changes the entries of its own addresses and no other, by exactly
\* the counts that it calls for; an entry leaves only when it is stale, and
\* the shift that closes the gap loses and doubles nobody.
THEOREM TableImplementsDirectory ==
  ApSpec => ImplementsDirectory
  BY DirectoryInit, DirectoryNext, TableInv, PTL
     DEF ApSpec, ImplementsDirectory, Dir!Spec
=============================================================================
