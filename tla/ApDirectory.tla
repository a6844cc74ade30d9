---------------------------- MODULE ApDirectory -----------------------------
(***************************************************************************)
(* What the access point table promises, without its array: a partial map  *)
(* from hardware addresses to what is known of each access point.          *)
(*                                                                         *)
(* dir[m] is {} when m is not listed and {e} when it is, e its entry.  An  *)
(* entry that comes into being may start from any counters: the table does *)
(* not clear the slot it takes (see FreshApCountersStartAtZero).           *)
(***************************************************************************)
EXTENDS SnifferParams

CONSTANTS EXPIRE, StartTime, MaxTime

VARIABLES dir, now

vars == <<dir, now>>

Init ==
  /\ dir = [m \in Mac |-> {}]
  /\ now = StartTime

\* The entry e of address m once f's traffic is counted.
Count(e, m, f) ==
  LET tx == f.fromds = 1 /\ f.src_mac = m
      rx == f.tods = 1 /\ f.dst_mac = m
      n  == (IF tx THEN 1 ELSE 0) + (IF rx THEN 1 ELSE 0)
  IN  [e EXCEPT !.tx_packets = IF tx THEN (@ + 1) % U32 ELSE @,
                !.rx_packets = IF rx THEN (@ + 1) % U32 ELSE @,
                !.retries    = (@ + n * f.retry) % U32,
                !.last_seen  = IF tx THEN now ELSE @]

\* e2 is what an announcement f makes of the entry e: one more beacon heard
\* now on f's frequency, under its old name or the one announced.
Announce(e, e2, f) ==
  /\ e2.ssid \in {e.ssid, f.ssid}
  /\ e2.tx_packets = e.tx_packets /\ e2.rx_packets = e.rx_packets
  /\ e2.retries = e.retries
  /\ IF IsBeacon(f)
     THEN /\ e2.last_seen = now
          /\ e2.beacons = (e.beacons + 1) % U32
          /\ e2.freqs = e.freqs \cup {f.channel_freq}
     ELSE /\ e2.last_seen = e.last_seen
          /\ e2.beacons = e.beacons
          /\ e2.freqs = e.freqs

\* A new entry bears the announced name or none.
Fresh(e2, f) ==
  /\ e2.ssid \in {HIDDEN, f.ssid}
  /\ IsBeacon(f) => e2.last_seen = now /\ f.channel_freq \in e2.freqs

Hear(f) ==
  /\ \A m \in Mac :
       IF Announces(f) /\ m = f.bssid
       THEN \E e2 \in dir'[m] :
              /\ dir'[m] = {e2}
              /\ \A e \in dir[m] : Announce(Count(e, m, f), e2, f)
              /\ dir[m] = {} => Fresh(e2, f)
       ELSE dir'[m] = {Count(e, m, f) : e \in dir[m]}
  /\ dir' = [m \in Mac |-> dir'[m]]
  /\ UNCHANGED now

Forget(m) ==
  /\ \E e \in dir[m] : now - e.last_seen > EXPIRE
  /\ dir' = [dir EXCEPT ![m] = {}]
  /\ UNCHANGED now

Tick ==
  /\ now < MaxTime
  /\ now' = now + 1
  /\ UNCHANGED dir

Next ==
  \/ \E f \in Frame : Hear(f)
  \/ \E m \in Mac : Forget(m)
  \/ Tick

Spec == Init /\ [][Next]_vars
=============================================================================
