--------------------------- MODULE ApTableProofs ----------------------------
(***************************************************************************)
(* Proofs about the access point table, for every number of slots, of      *)
(* addresses and of frequencies, and every integer width.                  *)
(*                                                                         *)
(* The inductive invariant ApInv joins what depends on each other: the     *)
(* table has room because the addresses in it are distinct, which in turn  *)
(* needs the count and the slots to be well-formed.                        *)
(***************************************************************************)
EXTENDS ApTable, FiniteSetTheorems, TLAPS

\* The slots in use bear addresses that were announced, not the zeroes of
\* calloc.
LiveMacs == \A k \in Live : aps[k].mac \in ApAddresses

\* No frequency twice.
NoRepeats(s) == \A n, o \in 1 .. Len(s) : s[n] = s[o] => n = o

FreqsDistinct == \A k \in Slots : NoRepeats(aps[k].channel_freqs)

ApInv ==
  /\ ApTypeOK
  /\ LiveMacs
  /\ UniqueMacs
  /\ FreqsDistinct
  /\ CursorInList

-----------------------------------------------------------------------------
(* The operators.                                                          *)

\* A counter reduced to its width fits it.
LEMMA ModWidth ==
  ASSUME NEW w \in Nat \ {0}, NEW n \in Nat
  PROVE  n % w \in 0 .. w - 1
  OBVIOUS

\* A uint32_t stays one when something is added to it.
LEMMA Counter32 ==
  ASSUME NEW n \in 0 .. U32 - 1, NEW r \in Nat
  PROVE  (n + r) % U32 \in 0 .. U32 - 1
<1>1. n + r \in Nat /\ U32 \in Nat \ {0}
    BY SizeAssumption
<1> QED
    BY <1>1, ModWidth

\* Truncation to a width never makes a number larger.
LEMMA ModShrinks ==
  ASSUME NEW w \in Nat \ {0}, NEW n \in Nat
  PROVE  n % w <= n
<1>1. CASE n < w
    BY <1>1
<1>2. CASE n >= w
    BY <1>2, n % w \in 0 .. w - 1
<1> QED
    BY <1>1, <1>2

\* Looking an address up finds a slot in use that bears it.
LEMMA GetApFinds ==
  ASSUME NEW m, IsAp(m)
  PROVE  get_ap(m) \in Live /\ aps[get_ap(m)].mac = m
  BY DEF IsAp, get_ap, Live

\* Counting a frame in an entry makes an entry of it, with the same address
\* and frequencies.
LEMMA CountKeeps ==
  ASSUME NEW a \in ApRecord, NEW f \in Frame, now \in Nat
  PROVE  /\ CountTx(a, f) \in ApRecord
         /\ CountTx(a, f).mac = a.mac
         /\ CountTx(a, f).channel_freqs = a.channel_freqs
         /\ CountRx(a, f) \in ApRecord
         /\ CountRx(a, f).mac = a.mac
         /\ CountRx(a, f).channel_freqs = a.channel_freqs
<1>1. f.retry \in Nat
    BY FrameAssumption
<1>2. /\ a.tx_packets \in 0 .. U32 - 1
      /\ a.rx_packets \in 0 .. U32 - 1
      /\ a.retries \in 0 .. U32 - 1
    BY DEF ApRecord
<1>3. /\ (a.tx_packets + 1) % U32 \in 0 .. U32 - 1
      /\ (a.rx_packets + 1) % U32 \in 0 .. U32 - 1
      /\ (a.retries + f.retry) % U32 \in 0 .. U32 - 1
    BY <1>1, <1>2, Counter32
<1> QED
    BY <1>3 DEF CountTx, CountRx, Inc32, ApRecord

\* Counting traffic keeps every slot an entry, with its address and its
\* frequencies.
LEMMA CountedKeeps ==
  ASSUME ApTypeOK, NEW f \in Frame
  PROVE  /\ Counted(f) \in [Slots -> ApRecord]
         /\ \A k \in Slots : /\ Counted(f)[k].mac = aps[k].mac
                             /\ Counted(f)[k].channel_freqs = aps[k].channel_freqs
<1> SUFFICES ASSUME NEW k \in Slots
             PROVE  /\ Counted(f)[k] \in ApRecord
                    /\ Counted(f)[k].mac = aps[k].mac
                    /\ Counted(f)[k].channel_freqs = aps[k].channel_freqs
    BY DEF Counted
<1> DEFINE a == IF Transmits(k, f) THEN CountTx(aps[k], f) ELSE aps[k]
<1>1. aps[k] \in ApRecord /\ now \in Nat
    BY DEF ApTypeOK
<1>2. a \in ApRecord /\ a.mac = aps[k].mac /\ a.channel_freqs = aps[k].channel_freqs
    BY <1>1, CountKeeps
<1>3. Counted(f)[k] = IF Receives(k, f) THEN CountRx(a, f) ELSE a
    BY DEF Counted
<1> HIDE DEF a
<1> QED
    BY <1>1, <1>2, <1>3, CountKeeps

\* A frequency heard is added once.
LEMMA HeardOnce ==
  ASSUME NEW s \in Seq(Freq), NoRepeats(s), NEW q \in Freq
  PROVE  Heard(s, q) \in Seq(Freq) /\ NoRepeats(Heard(s, q))
  BY DEF Heard, NoRepeats

\* An announcement makes an entry of an entry, with the same address and
\* with distinct frequencies if they were distinct.
LEMMA AnnouncedKeeps ==
  ASSUME NEW a \in ApRecord, NEW f \in Frame, now \in Nat,
         NoRepeats(a.channel_freqs)
  PROVE  /\ Announced(a, f) \in ApRecord
         /\ Announced(a, f).mac = a.mac
         /\ NoRepeats(Announced(a, f).channel_freqs)
<1> DEFINE named == iter_packet_ies(a, f)
<1> HIDE DEF named
<1>1. /\ named \in ApRecord
      /\ named.mac = a.mac
      /\ named.channel_freqs = a.channel_freqs
  <2>1. Renamed(a.ssid, f.ssid) \in Seq(Char)
      BY FrameAssumption DEF Renamed, ApRecord
  <2> QED
      BY <2>1 DEF named, iter_packet_ies, ApRecord
<1>2. /\ Heard(named.channel_freqs, f.channel_freq) \in Seq(Freq)
      /\ NoRepeats(Heard(named.channel_freqs, f.channel_freq))
    BY <1>1, HeardOnce, FrameAssumption DEF ApRecord
<1>3. Inc32(named.beacons) \in 0 .. U32 - 1
  <2>1. named.beacons \in 0 .. U32 - 1
      BY <1>1 DEF ApRecord
  <2> QED
      BY <2>1, Counter32 DEF Inc32
<1>4. CASE IsBeacon(f)
    BY <1>1, <1>2, <1>3, <1>4 DEF Announced, ApRecord, named
<1>5. CASE ~IsBeacon(f)
    BY <1>1, <1>5 DEF Announced, named
<1> QED
    BY <1>4, <1>5

-----------------------------------------------------------------------------
(* The two arguments by counting.                                          *)

\* There is room for an access point that is not in the table, if no more
\* addresses announce themselves than it has slots: those in it are different,
\* none of them the new one.
LEMMA RoomForNew ==
  ASSUME ApTypeOK, LiveMacs, UniqueMacs, AtMost(AP_CAPACITY, ApAddresses),
         NEW m \in ApAddresses, ~IsAp(m)
  PROVE  aps_count < AP_CAPACITY
<1> DEFINE A == ApAddresses
<1>0. IsFiniteSet(A) /\ Cardinality(A) <= AP_CAPACITY
    BY DEF AtMost
<1> SUFFICES ASSUME aps_count >= AP_CAPACITY
             PROVE  FALSE
    BY SizeAssumption DEF ApTypeOK
<1> DEFINE g == [k \in Live |-> aps[k].mac]
<1>1. g \in [Live -> A \ {m}] /\ m \in A
    BY DEF LiveMacs, IsAp, Live
<1> HIDE DEF A
<1>2. IsFiniteSet(Live) /\ Cardinality(Live) = aps_count
  <2>1. 0 \in Int /\ aps_count - 1 \in Int /\ aps_count \in Nat
      BY SizeAssumption DEF ApTypeOK
  <2> QED
      BY <2>1, FS_Interval DEF Live
<1>3. IsFiniteSet(A \ {m}) /\ Cardinality(A \ {m}) = Cardinality(A) - 1
    BY <1>0, <1>1, FS_RemoveElement
<1>4. Cardinality(A \ {m}) < Cardinality(Live)
    BY <1>0, <1>2, <1>3, FS_CardinalityType, SizeAssumption DEF ApTypeOK
<1> HIDE DEF g
<1>5. PICK j, k \in Live : j # k /\ g[j] = g[k]
    BY <1>1, <1>2, <1>3, <1>4, FS_PigeonHole
<1> QED
    BY <1>5 DEF g, UniqueMacs

\* Distinct frequencies fit into channel_freqs, if no more are reported than
\* it has slots.
LEMMA DistinctFit ==
  ASSUME NEW s \in Seq(Freq), NoRepeats(s), AtMost(CHANNELS_COUNT, Freq)
  PROVE  Len(s) <= CHANNELS_COUNT
<1>0. IsFiniteSet(Freq) /\ Cardinality(Freq) <= CHANNELS_COUNT
    BY DEF AtMost
<1> SUFFICES ASSUME Len(s) > CHANNELS_COUNT
             PROVE  FALSE
    BY SizeAssumption
<1> DEFINE Dom == 1 .. Len(s)
<1>1. s \in [Dom -> Freq]
    OBVIOUS
<1>2. IsFiniteSet(Dom) /\ Cardinality(Dom) = Len(s)
  <2>1. 1 \in Int /\ Len(s) \in Int /\ Len(s) >= 1
      BY SizeAssumption
  <2> QED
      BY <2>1, FS_Interval
<1>3. Cardinality(Freq) < Cardinality(Dom)
    BY <1>0, <1>2, FS_CardinalityType, SizeAssumption
<1>4. PICK x, y \in Dom : x # y /\ s[x] = s[y]
    BY <1>0, <1>1, <1>2, <1>3, FS_PigeonHole
<1> QED
    BY <1>4 DEF NoRepeats

\* So neither append leaves its array.
LEMMA RoomLeft ==
  ASSUME ApInv
  PROVE  AppendsFit
<1> USE DEF ApInv
<1> SUFFICES ASSUME NEW f \in Frame
             PROVE  /\ NoRoomForAp(f) => ~AtMost(AP_CAPACITY, ApAddresses)
                    /\ NoRoomForFreq(f) => ~AtMost(CHANNELS_COUNT, Freq)
    BY DEF AppendsFit
<1>1. ASSUME NoRoomForAp(f), AtMost(AP_CAPACITY, ApAddresses)
      PROVE  FALSE
  <2>1. f.bssid \in ApAddresses /\ ~IsAp(f.bssid) /\ aps_count >= AP_CAPACITY
      BY <1>1 DEF NoRoomForAp, ApAddresses
  <2>2. aps_count < AP_CAPACITY
      BY <1>1, <2>1, RoomForNew
  <2> QED
      BY <2>1, <2>2, SizeAssumption DEF ApTypeOK
<1>2. ASSUME NoRoomForFreq(f), AtMost(CHANNELS_COUNT, Freq)
      PROVE  FALSE
  <2> DEFINE k == IF IsAp(f.bssid) THEN get_ap(f.bssid) ELSE aps_count
  <2>1. k \in Slots
    <3>1. CASE IsAp(f.bssid)
        BY <3>1, GetApFinds, SizeAssumption DEF Live, Slots, ApTypeOK
    <3>2. CASE ~IsAp(f.bssid)
      <4>1. Announces(f) /\ ~NoRoomForAp(f)
          BY <1>2 DEF NoRoomForFreq, IsBeacon, Announces, IsMgmt
      <4>2. aps_count < AP_CAPACITY
          BY <3>2, <4>1, SizeAssumption DEF NoRoomForAp, ApTypeOK
      <4> QED
          BY <3>2, <4>2, SizeAssumption DEF Slots, ApTypeOK
    <3> QED
        BY <3>1, <3>2
  <2>2. Len(Heard(aps[k].channel_freqs, f.channel_freq)) > CHANNELS_COUNT
      BY <1>2 DEF NoRoomForFreq
  <2> HIDE DEF k
  <2>3. aps[k].channel_freqs \in Seq(Freq) /\ NoRepeats(aps[k].channel_freqs)
      BY <2>1 DEF ApTypeOK, ApRecord, FreqsDistinct
  <2> DEFINE s == Heard(aps[k].channel_freqs, f.channel_freq)
  <2>4. s \in Seq(Freq) /\ NoRepeats(s)
      BY <2>3, HeardOnce, FrameAssumption
  <2>5. Len(s) > CHANNELS_COUNT
      BY <2>2
  <2> HIDE DEF s
  <2>6. Len(s) <= CHANNELS_COUNT /\ Len(s) \in Nat
      BY <1>2, <2>4, DistinctFit
  <2> QED
      BY <2>5, <2>6, SizeAssumption
<1> QED
    BY <1>1, <1>2

-----------------------------------------------------------------------------
(* Invariance, action by action.                                           *)

\* The invariant holds of the table that init_ctx allocates.
LEMMA InitInv ==
  ApInit => ApInv
<1> SUFFICES ASSUME ApInit
             PROVE  ApInv
    OBVIOUS
<1>1. ZeroAp \in ApRecord /\ ZeroAp.channel_freqs = <<>>
    BY SizeAssumption DEF ZeroAp, ApRecord, Views
<1>2. ApTypeOK
    BY <1>1, SizeAssumption, TimeAssumption DEF ApInit, ApTypeOK
<1>3. LiveMacs /\ UniqueMacs
    BY DEF ApInit, LiveMacs, UniqueMacs, Live
<1>4. FreqsDistinct
    BY <1>1 DEF ApInit, FreqsDistinct, NoRepeats
<1>5. CursorInList
    BY SizeAssumption DEF ApInit, CursorInList, Slots
<1> QED
    BY <1>2, <1>3, <1>4, <1>5 DEF ApInv

\* Counting traffic touches neither addresses nor frequencies.
LEMMA TrafficInv ==
  ASSUME ApInv, NEW f \in Frame, HandleTraffic(f), UNCHANGED <<scroll, now>>
  PROVE  ApInv'
<1> USE DEF ApInv
<1>1. /\ aps' \in [Slots -> ApRecord]
      /\ \A k \in Slots : /\ aps'[k].mac = aps[k].mac
                          /\ aps'[k].channel_freqs = aps[k].channel_freqs
    BY CountedKeeps DEF HandleTraffic
<1>2. Live' = Live /\ Live \subseteq Slots
    BY SizeAssumption DEF HandleTraffic, Live, Slots, ApTypeOK
<1>3. ApTypeOK'
    BY <1>1 DEF HandleTraffic, ApTypeOK, Slots
<1>4. LiveMacs' /\ UniqueMacs'
    BY <1>1, <1>2 DEF LiveMacs, UniqueMacs
<1>5. FreqsDistinct'
    BY <1>1 DEF FreqsDistinct
<1>6. CursorInList'
    BY DEF CursorInList, HandleTraffic
<1> QED
    BY <1>3, <1>4, <1>5, <1>6

\* An announcement changes the entry of its own access point only.
LEMMA KnownInv ==
  ASSUME ApInv, NEW f \in Frame, HandleKnown(f), UNCHANGED <<scroll, now>>
  PROVE  ApInv'
<1> USE DEF ApInv
<1> DEFINE C == Counted(f)
           g == get_ap(f.bssid)
<1>1. /\ C \in [Slots -> ApRecord]
      /\ \A k \in Slots : /\ C[k].mac = aps[k].mac
                          /\ C[k].channel_freqs = aps[k].channel_freqs
    BY CountedKeeps
<1>2. Live' = Live /\ Live \subseteq Slots
    BY SizeAssumption DEF HandleKnown, Live, Slots, ApTypeOK
<1>3. g \in Slots
    BY <1>2, GetApFinds DEF HandleKnown
<1>4. aps' = [C EXCEPT ![g] = Announced(C[g], f)]
    BY DEF HandleKnown
<1> HIDE DEF C, g
<1>5. /\ Announced(C[g], f) \in ApRecord
      /\ Announced(C[g], f).mac = C[g].mac
      /\ NoRepeats(Announced(C[g], f).channel_freqs)
    BY <1>1, <1>3, AnnouncedKeeps DEF ApTypeOK, FreqsDistinct
<1>6. /\ aps' \in [Slots -> ApRecord]
      /\ \A k \in Slots : /\ aps'[k].mac = aps[k].mac
                          /\ NoRepeats(aps'[k].channel_freqs)
    BY <1>1, <1>3, <1>4, <1>5 DEF FreqsDistinct
<1>7. ApTypeOK'
    BY <1>6 DEF HandleKnown, ApTypeOK, Slots
<1>8. LiveMacs' /\ UniqueMacs'
    BY <1>2, <1>6 DEF LiveMacs, UniqueMacs
<1>9. FreqsDistinct'
    BY <1>6 DEF FreqsDistinct
<1>10. CursorInList'
    BY DEF CursorInList, HandleKnown
<1> QED
    BY <1>7, <1>8, <1>9, <1>10

\* A new entry goes into the first free slot, under an address no other has.
LEMMA NewInv ==
  ASSUME ApInv, NEW f \in Frame, ~NoRoomForAp(f), HandleNew(f),
         UNCHANGED <<scroll, now>>
  PROVE  ApInv'
<1> USE DEF ApInv
<1> DEFINE C == Counted(f)
           a == Adopt(C[aps_count], f)
           n == Announced(a, f)
<1>0. f.bssid \in Mac /\ f.bssid \in ApAddresses /\ ~IsAp(f.bssid)
    BY FrameAssumption DEF HandleNew, ApAddresses
<1>1. /\ C \in [Slots -> ApRecord]
      /\ \A k \in Slots : /\ C[k].mac = aps[k].mac
                          /\ C[k].channel_freqs = aps[k].channel_freqs
    BY CountedKeeps
<1>2. aps_count < AP_CAPACITY
    BY SizeAssumption DEF HandleNew, NoRoomForAp, ApTypeOK
<1>3. /\ aps_count \in Slots /\ Live \subseteq Slots
      /\ Live' = Live \cup {aps_count} /\ aps_count \notin Live
    BY <1>2, SizeAssumption DEF HandleNew, Live, Slots, ApTypeOK
<1>4. aps' = [C EXCEPT ![aps_count] = n]
    BY DEF HandleNew
<1> HIDE DEF C
<1>5. /\ a \in ApRecord /\ a.mac = f.bssid
      /\ a.channel_freqs = C[aps_count].channel_freqs
    BY <1>0, <1>1, <1>3, NameAssumption DEF Adopt, ApRecord
<1> HIDE DEF a
<1>6. /\ n \in ApRecord
      /\ n.mac = f.bssid
      /\ NoRepeats(n.channel_freqs)
    BY <1>1, <1>3, <1>5, AnnouncedKeeps DEF ApTypeOK, FreqsDistinct
<1> HIDE DEF n
<1>7. /\ aps' \in [Slots -> ApRecord]
      /\ aps'[aps_count] = n
      /\ \A k \in Slots \ {aps_count} : /\ aps'[k].mac = aps[k].mac
                                        /\ aps'[k].channel_freqs = aps[k].channel_freqs
    BY <1>1, <1>3, <1>4, <1>6
<1>8. ApTypeOK'
    BY <1>2, <1>7, SizeAssumption DEF HandleNew, ApTypeOK, Slots
<1>9. LiveMacs'
    BY <1>0, <1>3, <1>6, <1>7 DEF LiveMacs
<1>10. UniqueMacs'
  <2>1. \A k \in Live : aps'[k].mac = aps[k].mac /\ aps[k].mac # f.bssid
      BY <1>0, <1>3, <1>7 DEF IsAp
  <2> QED
      BY <1>3, <1>6, <1>7, <2>1 DEF UniqueMacs
<1>11. FreqsDistinct'
    BY <1>6, <1>7 DEF FreqsDistinct
<1>12. CursorInList'
    BY <1>2, SizeAssumption DEF CursorInList, HandleNew, ApTypeOK, Slots
<1> QED
    BY <1>8, <1>9, <1>10, <1>11, <1>12

\* After a removal slot s holds what slot from(s) held, and from is one-to-one.
LEMMA EvictInv ==
  ASSUME ApInv, NEW k \in Live, Evict(k)
  PROVE  ApInv'
<1> USE DEF ApInv
<1> DEFINE from(s) == IF k <= s /\ s < aps_count - 1 THEN s + 1 ELSE s
<1>0. /\ aps_count \in 1 .. AP_CAPACITY /\ k \in 0 .. aps_count - 1
      /\ Live \subseteq Slots
    BY SizeAssumption DEF Live, ApTypeOK, Slots
<1>1. \A s \in Slots : from(s) \in Slots /\ aps'[s] = aps[from(s)]
    BY <1>0, SizeAssumption DEF Evict, Shifted, Slots
<1>2. aps' \in [Slots -> ApRecord]
  <2>1. aps' = [s \in Slots |-> aps[from(s)]]
      BY DEF Evict, Shifted
  <2> QED
      BY <1>1, <2>1 DEF ApTypeOK
<1>3. Live' = 0 .. aps_count - 2
    BY <1>0 DEF Evict, Live
<1>4. \A s \in Live' : s \in Slots /\ from(s) \in Live
  <2>1. \A s \in 0 .. aps_count - 2 : s \in Slots /\ from(s) \in 0 .. aps_count - 1
      BY <1>0, SizeAssumption DEF Slots
  <2>2. Live = 0 .. aps_count - 1
      BY DEF Live
  <2> QED
      BY <1>3, <2>1, <2>2
<1>5. \A s, t \in Live' : from(s) = from(t) => s = t
    BY <1>0, <1>3
<1> HIDE DEF from
<1>6. ApTypeOK'
    BY <1>0, <1>2, SizeAssumption DEF Evict, ApTypeOK, CursorInList, Slots
<1>7. LiveMacs'
    BY <1>1, <1>4 DEF LiveMacs
<1>8. UniqueMacs'
    BY <1>1, <1>4, <1>5 DEF UniqueMacs
<1>9. FreqsDistinct'
    BY <1>1 DEF FreqsDistinct
<1>10. CursorInList'
    BY <1>0, SizeAssumption DEF CursorInList, Evict, ApTypeOK, Slots
<1> QED
    BY <1>6, <1>7, <1>8, <1>9, <1>10

\* Any new position of the cursor that satisfies its own part of the
\* invariant will do.
LEMMA CursorInv ==
  ASSUME ApInv, NEW s \in 0 .. U8 - 1, s <= aps_count, s \in Slots, MoveCursor(s)
  PROVE  ApInv'
  BY DEF ApInv, MoveCursor, ApTypeOK, LiveMacs, UniqueMacs, FreqsDistinct,
         CursorInList, Live

\* Switching views leaves everything else alone.
LEMMA ViewInv ==
  ASSUME ApInv, NEW v \in Views, SetView(v) \/ SetAllViews(v)
  PROVE  ApInv'
<1> USE DEF ApInv
<1>1. /\ aps' \in [Slots -> ApRecord]
      /\ \A k \in Slots : /\ aps'[k].mac = aps[k].mac
                          /\ aps'[k].channel_freqs = aps[k].channel_freqs
  <2>0. aps \in [Slots -> ApRecord] /\ scroll \in Slots
      BY DEF ApTypeOK, CursorInList
  <2>1. CASE SetView(v)
      BY <2>0, <2>1 DEF SetView, ApRecord
  <2>2. CASE SetAllViews(v)
    <3>1. \A a \in ApRecord : /\ [a EXCEPT !.view = v] \in ApRecord
                              /\ [a EXCEPT !.view = v].mac = a.mac
                              /\ [a EXCEPT !.view = v].channel_freqs = a.channel_freqs
        BY DEF ApRecord
    <3> QED
        BY <2>0, <2>2, <3>1 DEF SetAllViews
  <2> QED
      BY <2>1, <2>2
<1>2. UNCHANGED <<aps_count, scroll, now>>
    BY DEF SetView, SetAllViews
<1>3. Live' = Live /\ Live \subseteq Slots
    BY <1>2, SizeAssumption DEF Live, Slots, ApTypeOK
<1>4. ApTypeOK'
    BY <1>1, <1>2 DEF ApTypeOK, Slots
<1>5. LiveMacs' /\ UniqueMacs'
    BY <1>1, <1>3 DEF LiveMacs, UniqueMacs
<1>6. FreqsDistinct' /\ CursorInList'
    BY <1>1, <1>2 DEF FreqsDistinct, CursorInList
<1> QED
    BY <1>4, <1>5, <1>6

\* Every key that concerns the list keeps the invariant.
LEMMA KeyInv ==
  ASSUME ApInv, NEW c, ListKey(c)
  PROVE  ApInv'
<1>0. /\ scroll \in Nat /\ aps_count \in Nat /\ scroll <= aps_count
      /\ aps_count <= AP_CAPACITY /\ scroll < AP_CAPACITY /\ scroll < U8
      /\ ROWS \in Nat \ {0} /\ U8 \in Nat \ {0} /\ AP_CAPACITY \in Nat \ {0}
    BY SizeAssumption, TimeAssumption DEF ApInv, ApTypeOK, CursorInList, Slots
<1>1. CASE KeyUp
    BY <1>0, <1>1, CursorInv, scroll - 1 \in 0 .. U8 - 1, scroll - 1 \in Slots
       DEF KeyUp, Slots
<1>2. CASE KeyDown
  <2>1. scroll + 1 \in Nat /\ scroll + 1 <= aps_count /\ scroll + 1 < AP_CAPACITY
      BY <1>0, <1>2 DEF KeyDown
  <2>2. (scroll + 1) % U8 \in 0 .. U8 - 1 /\ (scroll + 1) % U8 <= scroll + 1
      BY <1>0, <2>1, ModWidth, ModShrinks
  <2>3. (scroll + 1) % U8 <= aps_count /\ (scroll + 1) % U8 \in Slots
      BY <1>0, <2>1, <2>2 DEF Slots
  <2> QED
      BY <1>2, <2>2, <2>3, CursorInv DEF KeyDown
<1>3. CASE KeyTop
    BY <1>0, <1>3, CursorInv, 0 \in Slots, 0 \in 0 .. U8 - 1 DEF KeyTop, Slots
<1>4. CASE KeyBottom
  <2>1. CASE aps_count > ROWS
    <3> DEFINE d == aps_count - ROWS
    <3>1. d \in Nat /\ d < aps_count
        BY <1>0, <2>1
    <3>2. d % U8 \in 0 .. U8 - 1 /\ d % U8 <= d
        BY <1>0, <3>1, ModWidth, ModShrinks
    <3>3. d % U8 <= aps_count /\ d % U8 \in Slots
        BY <1>0, <3>1, <3>2 DEF Slots
    <3> QED
        BY <1>4, <2>1, <3>2, <3>3, CursorInv DEF KeyBottom
  <2>2. CASE ~(aps_count > ROWS)
      BY <1>0, <1>4, <2>2, CursorInv, 0 \in Slots, 0 \in 0 .. U8 - 1
         DEF KeyBottom, Slots
  <2> QED
      BY <2>1, <2>2
<1>5. CASE \E v \in Views : SetView(v) \/ SetAllViews(v)
    BY <1>5, ViewInv
<1> QED
    BY <1>1, <1>2, <1>3, <1>4, <1>5 DEF ListKey, Views

\* Every operation on the table, and the clock, keeps the invariant.
LEMMA NextInv ==
  ApInv /\ [ApNext]_apVars => ApInv'
<1> SUFFICES ASSUME ApInv, [ApNext]_apVars
             PROVE  ApInv'
    OBVIOUS
<1>1. ASSUME NEW f \in Frame, HandleFrame(f)
      PROVE  ApInv'
    BY <1>1, TrafficInv, KnownInv, NewInv DEF HandleFrame, Overruns
<1>2. ASSUME NEW k \in Live, Evict(k)
      PROVE  ApInv'
    BY <1>2, EvictInv
<1>3. ASSUME NEW c \in Keys, ListKey(c)
      PROVE  ApInv'
    BY <1>3, KeyInv
<1>4. CASE Tick
    BY <1>4 DEF Tick, ApInv, ApTypeOK, LiveMacs, UniqueMacs, FreqsDistinct,
                CursorInList, Live
<1>5. CASE UNCHANGED apVars
    BY <1>5 DEF apVars, ApInv, ApTypeOK, LiveMacs, UniqueMacs, FreqsDistinct,
                CursorInList, Live
<1> QED
    BY <1>1, <1>2, <1>3, <1>4, <1>5 DEF ApNext

-----------------------------------------------------------------------------
(* Theorems.                                                               *)

\* The inductive invariant holds throughout.
LEMMA TableInv ==
  ApSpec => []ApInv
  BY InitInv, NextInv, PTL DEF ApSpec

\* The slots, the count, the 8-bit cursor and the 32-bit counters keep their
\* types under every operation of main.c on the table.
THEOREM TableTypes ==
  ApSpec => []ApTypeOK
<1>1. ApInv => ApTypeOK
    BY DEF ApInv
<1> QED
    BY <1>1, TableInv, PTL

\* aps[aps_count++] stays inside the array if no more addresses announce
\* themselves than it has slots, and the append to channel_freqs inside its
\* own if no more frequencies are reported than that has.
THEOREM AppendsStayInside ==
  ApSpec => []AppendsFit
<1>1. ApInv => AppendsFit
    BY RoomLeft
<1> QED
    BY <1>1, TableInv, PTL

\* get_ap's first match is the only one.
THEOREM MacsAreUnique ==
  ApSpec => []UniqueMacs
<1>1. ApInv => UniqueMacs
    BY DEF ApInv
<1> QED
    BY <1>1, TableInv, PTL

\* The cursor stays on the list, or one past its end, and inside the array,
\* so that h and l write to a slot of it.
THEOREM CursorStaysInList ==
  ApSpec => []CursorInList
<1>1. ApInv => CursorInList
    BY DEF ApInv
<1> QED
    BY <1>1, TableInv, PTL
=============================================================================
