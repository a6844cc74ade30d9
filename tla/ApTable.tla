------------------------------ MODULE ApTable -------------------------------
(***************************************************************************)
(* The access points the user program knows: the array ctx.aps, its fill   *)
(* count and the cursor into it (user/src/ctx.h), with the operations that *)
(* main.c performs on them.                                                *)
(*                                                                         *)
(*   - handle_frame_info looks addresses up in the array, counts traffic   *)
(*     and appends an access point it has not seen;                        *)
(*   - the expiry loop of main removes an access point by shifting the     *)
(*     slots above it down, and leaves the freed slot's bytes in place;    *)
(*   - the keys move the cursor and switch the per-entry view.             *)
(*                                                                         *)
(* This module orders these operations in no way: ApNext lets any of them  *)
(* happen at any time.  MainLoop adds the order of the program's loop.     *)
(*                                                                         *)
(* Only slots below aps_count are in use; the rest keep whatever they last *)
(* held, and an appended access point starts from those bytes.  An entry's *)
(* channel_freqs stands for the first freq_num elements of the C array;    *)
(* ssid_len is the length of ssid, and the colour pair is left out.        *)
(***************************************************************************)
EXTENDS SnifferParams

CONSTANTS
  EXPIRE,     \* seconds without a sign of life before removal (30)
  ROWS,       \* getmaxy(ctx->ap_win)
  Keys,       \* the keys the user may press
  StartTime,  \* time(NULL) when the program starts
  MaxTime     \* model bound: the clock stops here

ASSUME TimeAssumption ==
  /\ EXPIRE \in Nat
  /\ ROWS \in Nat \ {0}
  /\ StartTime \in Nat /\ MaxTime \in Nat
  /\ StartTime > EXPIRE

VARIABLES
  aps,        \* ctx->aps, every slot of it
  aps_count,  \* ctx->aps_count
  scroll,     \* ctx->scroll, a uint8_t
  now         \* time(NULL)

apVars == <<aps, aps_count, scroll, now>>

Slots == 0 .. AP_CAPACITY - 1
Live  == 0 .. aps_count - 1

Views == {"MAIN", "DETAIL"}

ApRecord ==
  [ last_seen     : Nat,
    rx_packets    : 0 .. U32 - 1,
    tx_packets    : 0 .. U32 - 1,
    beacons       : 0 .. U32 - 1,
    retries       : 0 .. U32 - 1,
    mac           : Mac \cup {NoMac},
    ssid          : Seq(Char),
    channel_freqs : Seq(Freq),
    view          : Views ]

\* A slot as calloc leaves it.
ZeroAp ==
  [ last_seen |-> 0, rx_packets |-> 0, tx_packets |-> 0, beacons |-> 0,
    retries |-> 0, mac |-> NoMac, ssid |-> <<>>, channel_freqs |-> <<>>,
    view |-> "MAIN" ]

ApInit ==
  /\ aps = [k \in Slots |-> ZeroAp]
  /\ aps_count = 0
  /\ scroll = 0
  /\ now = StartTime

-----------------------------------------------------------------------------
(* Looking an address up.  get_ap returns the first match; macs of live    *)
(* slots are distinct (UniqueMacs), so it is the only one.                 *)

\* Mutant: the search stops one slot short.
MutIsAp(m) == \E k \in 0 .. aps_count - 2 : aps[k].mac = m

IsAp(m)   == \E k \in Live : aps[k].mac = m
get_ap(m) == CHOOSE k \in Live : aps[k].mac = m

-----------------------------------------------------------------------------
(* handle_frame_info, the part that concerns access points.                *)

Inc32(n) == (n + 1) % U32

\* Slot k is f's transmitter, or its receiver, as far as the flags say so.
Transmits(k, f) == f.fromds = 1 /\ IsAp(f.src_mac) /\ k = get_ap(f.src_mac)
Receives(k, f)  == f.tods = 1 /\ IsAp(f.dst_mac) /\ k = get_ap(f.dst_mac)

CountTx(a, f) ==
  [a EXCEPT !.tx_packets = Inc32(@), !.last_seen = now,
            !.retries = (@ + f.retry) % U32]

CountRx(a, f) ==
  [a EXCEPT !.rx_packets = Inc32(@), !.retries = (@ + f.retry) % U32]

\* The array after the traffic counters of f's transmitter and receiver.
Counted(f) ==
  [k \in Slots |->
     LET a == IF Transmits(k, f) THEN CountTx(aps[k], f) ELSE aps[k]
     IN  IF Receives(k, f) THEN CountRx(a, f) ELSE a]

\* Mutant: the name of the slot's last access point stays.
MutAdopt(a, f) == [a EXCEPT !.mac = f.bssid]

\* What a slot keeps and loses when a new access point moves in.
Adopt(a, f) == [a EXCEPT !.mac = f.bssid, !.ssid = HIDDEN]

\* The walk over the body's elements meets the SSID element once; IeIter has
\* the walk itself.
iter_packet_ies(a, f) == [a EXCEPT !.ssid = Renamed(@, f.ssid)]

\* Mutant: the comparison leaves out the frequency stored last.
MutHeard(freqs, q) ==
  IF \E n \in 1 .. Len(freqs) - 1 : freqs[n] = q THEN freqs ELSE Append(freqs, q)

Heard(freqs, q) ==
  IF \E n \in 1 .. Len(freqs) : freqs[n] = q THEN freqs ELSE Append(freqs, q)

Announced(a, f) ==
  LET named == iter_packet_ies(a, f)
  IN  IF IsBeacon(f)
      THEN [named EXCEPT !.last_seen     = now,
                         !.beacons       = Inc32(@),
                         !.channel_freqs = Heard(@, f.channel_freq)]
      ELSE named

\* A frame that announces no access point.
HandleTraffic(f) ==
  /\ ~Announces(f)
  /\ aps' = Counted(f)
  /\ UNCHANGED aps_count

\* A beacon or probe response of an access point in the array.
HandleKnown(f) ==
  /\ Announces(f) /\ IsAp(f.bssid)
  /\ aps' = [Counted(f) EXCEPT ![get_ap(f.bssid)] = Announced(@, f)]
  /\ UNCHANGED aps_count

\* A beacon or probe response of one that is not: the next slot is taken,
\* whatever it still holds.
HandleNew(f) ==
  /\ Announces(f) /\ ~IsAp(f.bssid)
  /\ aps' = [Counted(f) EXCEPT ![aps_count] = Announced(Adopt(@, f), f)]
  /\ aps_count' = aps_count + 1

\* Neither append is checked.  One that would leave its array is where the
\* model ends, since C gives no meaning to what follows: such a frame cannot
\* be handled here, and MainLoop has a step that stops at it.
NoRoomForAp(f) == Announces(f) /\ ~IsAp(f.bssid) /\ aps_count >= AP_CAPACITY

NoRoomForFreq(f) ==
  LET k == IF IsAp(f.bssid) THEN get_ap(f.bssid) ELSE aps_count
  IN  /\ IsBeacon(f) /\ ~NoRoomForAp(f)
      /\ Len(Heard(aps[k].channel_freqs, f.channel_freq)) > CHANNELS_COUNT

Overruns(f) == NoRoomForAp(f) \/ NoRoomForFreq(f)

HandleFrame(f) ==
  /\ ~Overruns(f)
  /\ HandleTraffic(f) \/ HandleKnown(f) \/ HandleNew(f)
  /\ UNCHANGED <<scroll, now>>

-----------------------------------------------------------------------------
(* One iteration of the expiry loop that finds slot k stale.               *)

Stale(k) == now - aps[k].last_seen > EXPIRE

\* Mutant: the shift starts one slot too high.
MutShifted(k) ==
  [s \in Slots |-> IF k < s /\ s < aps_count - 1 THEN aps[s + 1] ELSE aps[s]]

Shifted(k) ==
  [s \in Slots |-> IF k <= s /\ s < aps_count - 1 THEN aps[s + 1] ELSE aps[s]]

\* Mutant: a removal leaves the cursor alone.
MutEvictCursor(k) ==
  /\ Stale(k)
  /\ aps' = Shifted(k)
  /\ aps_count' = aps_count - 1
  /\ UNCHANGED <<scroll, now>>

\* Mutant: a removal forgets to decrement the count.
MutEvictCount(k) ==
  /\ Stale(k)
  /\ aps' = Shifted(k)
  /\ scroll' = IF scroll >= aps_count THEN scroll - 1 ELSE scroll
  /\ UNCHANGED <<aps_count, now>>

Evict(k) ==
  /\ Stale(k)
  /\ aps' = Shifted(k)
  /\ scroll' = IF scroll >= aps_count THEN scroll - 1 ELSE scroll
  /\ aps_count' = aps_count - 1
  /\ UNCHANGED now

-----------------------------------------------------------------------------
(* The keys that concern the list.                                         *)

MoveCursor(s) ==
  /\ scroll' = s
  /\ UNCHANGED <<aps, aps_count, now>>

\* Mutant: no check for the top of the list.
MutKeyUp == MoveCursor(scroll - 1)

KeyUp     == scroll > 0 /\ MoveCursor(scroll - 1)
KeyDown   == scroll + ROWS < aps_count /\ MoveCursor((scroll + 1) % U8)
KeyTop    == MoveCursor(0)
KeyBottom ==
  MoveCursor(IF aps_count > ROWS THEN (aps_count - ROWS) % U8 ELSE 0)

\* The slot under the cursor, in use or not.
SetView(v) ==
  /\ aps' = [aps EXCEPT ![scroll].view = v]
  /\ UNCHANGED <<aps_count, scroll, now>>

\* Every entry.
SetAllViews(v) ==
  /\ aps' = [k \in Slots |-> IF k \in Live THEN [aps[k] EXCEPT !.view = v]
                                           ELSE aps[k]]
  /\ UNCHANGED <<aps_count, scroll, now>>

ListKey(c) ==
  \/ c = "k" /\ KeyUp
  \/ c = "j" /\ KeyDown
  \/ c = "K" /\ KeyTop
  \/ c = "J" /\ KeyBottom
  \/ c = "l" /\ SetView("DETAIL")
  \/ c = "h" /\ SetView("MAIN")
  \/ c = "L" /\ SetAllViews("DETAIL")
  \/ c = "H" /\ SetAllViews("MAIN")

-----------------------------------------------------------------------------

Tick ==
  /\ now < MaxTime
  /\ now' = now + 1
  /\ UNCHANGED <<aps, aps_count, scroll>>

ApNext ==
  \/ \E f \in Frame : HandleFrame(f)
  \/ \E k \in Live : Evict(k)
  \/ \E c \in Keys : ListKey(c)
  \/ Tick

ApSpec == ApInit /\ [][ApNext]_apVars

-----------------------------------------------------------------------------
(* Properties.                                                             *)

\* Type correctness of the table.
ApTypeOK ==
  /\ aps \in [Slots -> ApRecord]
  /\ aps_count \in 0 .. AP_CAPACITY
  /\ scroll \in 0 .. U8 - 1
  /\ now \in Nat

\* No two entries have the same address, so that get_ap's first match is the
\* only one and the counters of an access point are all in one place.
UniqueMacs ==
  \A j, k \in Live : aps[j].mac = aps[k].mac => j = k

\* The addresses under which announcements come in.
ApAddresses == {f.bssid : f \in {g \in Frame : Announces(g)}}

AtMost(n, S) == IsFiniteSet(S) /\ Cardinality(S) <= n

\* The unchecked appends leave their arrays only where there is too much to
\* store, never because something is stored twice: the next announcement has
\* a slot unless more addresses announce themselves than there are slots, and
\* the next beacon's frequency has one unless more frequencies are reported
\* than an entry has slots, although slots are shifted, reused and start with
\* the frequencies of the access point that had them before.
AppendsFit ==
  \A f \in Frame :
    /\ NoRoomForAp(f) => ~AtMost(AP_CAPACITY, ApAddresses)
    /\ NoRoomForFreq(f) => ~AtMost(CHANNELS_COUNT, Freq)

\* The cursor is never more than one past the last entry, although the expiry
\* loop corrects it before it decrements aps_count and J truncates to 8 bits,
\* and the slot whose view h and l write is always one of the array's.
CursorInList == scroll <= aps_count /\ scroll \in Slots

\* README: "For each AP: beacons, RX, TX, retry counters".  The counters of an
\* access point that enters the list count its own frames only.
FreshApCountersStartAtZero ==
  [][\A f \in Frame : HandleNew(f) =>
       LET a == aps'[aps_count]
       IN  /\ a.rx_packets = 0 /\ a.tx_packets = 0 /\ a.retries = 0
           /\ a.beacons = IF IsBeacon(f) THEN 1 ELSE 0]_apVars

-----------------------------------------------------------------------------
(* What the array stands for: for every address, the entry or nothing.     *)

Entry(a) ==
  [ last_seen  |-> a.last_seen,
    rx_packets |-> a.rx_packets,
    tx_packets |-> a.tx_packets,
    beacons    |-> a.beacons,
    retries    |-> a.retries,
    ssid       |-> a.ssid,
    freqs      |-> {a.channel_freqs[n] : n \in 1 .. Len(a.channel_freqs)} ]

Directory == [m \in Mac |-> IF IsAp(m) THEN {Entry(aps[get_ap(m)])} ELSE {}]

Dir == INSTANCE ApDirectory WITH dir <- Directory

\* The array with its shifting removals behaves as the directory: a frame
\* changes the entries of its own addresses and no other, by exactly the
\* counts that it calls for, and an entry leaves only when it is stale.
ImplementsDirectory == Dir!Spec
=============================================================================
