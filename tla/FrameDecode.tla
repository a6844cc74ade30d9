---------------------------- MODULE FrameDecode -----------------------------
(***************************************************************************)
(* What the kernel module makes of one captured frame: sniffer_rx_handler  *)
(* up to its call of send_to_userspace, and the 8-bit body length of the   *)
(* latter (kern/sniffer_main.c, kern/sniffer_netlink.c).                   *)
(*                                                                         *)
(* A capture h is a record of the fields the code looks at: len is         *)
(* skb->len, rt_len the radiotap header's own length field, rt_ok whether  *)
(* that header can be walked, channel_freq what it says (0 if it does not),*)
(* hdr_len what ieee80211_hdrlen computes, and addr the addresses that its *)
(* 802.11 header really has.                                               *)
(***************************************************************************)
EXTENDS Integers, Sequences

CONSTANTS
  Mac,   \* hardware addresses
  U8     \* number of values of a u8

\* Reading the n-th address.  Short control frames have fewer than three; the
\* octets behind the header are anything.
Addr(h, n) == IF n <= Len(h.addr) THEN {h.addr[n]} ELSE Mac

Addresses(dst, src, bssid, d) ==
  [dst_mac : dst, src_mac : src, bssid : bssid, frame_d : {d}]

CLIENT_TO_CLIENT == 0
CLIENT_TO_AP     == 1
AP_TO_CLIENT     == 2
AP_TO_AP         == 3

\* Mutant: without a distribution system, receiver and BSSID are swapped.
MutParseSwaps(h) ==
  CASE h.tods = 0 /\ h.fromds = 0 -> Addresses(Addr(h, 3), Addr(h, 2), Addr(h, 1), CLIENT_TO_CLIENT)
    [] h.tods = 1 /\ h.fromds = 0 -> Addresses(Addr(h, 1), Addr(h, 3), Addr(h, 2), CLIENT_TO_AP)
    [] h.tods = 0 /\ h.fromds = 1 -> Addresses(Addr(h, 3), Addr(h, 2), Addr(h, 1), AP_TO_CLIENT)
    [] h.tods = 1 /\ h.fromds = 1 -> Addresses(Addr(h, 3), Addr(h, 4), Mac, AP_TO_AP)

\* Mutant: source and destination as in 802.11, which the counters of the
\* user program are not made for.
MutParseStandard(h) ==
  CASE h.tods = 0 /\ h.fromds = 0 -> Addresses(Addr(h, 1), Addr(h, 2), Addr(h, 3), CLIENT_TO_CLIENT)
    [] h.tods = 1 /\ h.fromds = 0 -> Addresses(Addr(h, 3), Addr(h, 2), Addr(h, 1), CLIENT_TO_AP)
    [] h.tods = 0 /\ h.fromds = 1 -> Addresses(Addr(h, 1), Addr(h, 3), Addr(h, 2), AP_TO_CLIENT)
    [] h.tods = 1 /\ h.fromds = 1 -> Addresses(Addr(h, 3), Addr(h, 4), Mac, AP_TO_AP)

\* With both flags set the BSSID is not written, and hdr_info is not
\* initialised: what is sent is anything.
parse_fromtods(h) ==
  CASE h.tods = 0 /\ h.fromds = 0 -> Addresses(Addr(h, 1), Addr(h, 2), Addr(h, 3), CLIENT_TO_CLIENT)
    [] h.tods = 1 /\ h.fromds = 0 -> Addresses(Addr(h, 1), Addr(h, 3), Addr(h, 2), CLIENT_TO_AP)
    [] h.tods = 0 /\ h.fromds = 1 -> Addresses(Addr(h, 3), Addr(h, 2), Addr(h, 1), AP_TO_CLIENT)
    [] h.tods = 1 /\ h.fromds = 1 -> Addresses(Addr(h, 3), Addr(h, 4), Mac, AP_TO_AP)

get_radiotap_info(h) == IF h.rt_ok THEN h.channel_freq ELSE 0

\* The four octets of the frame check sequence are taken off if they fit.
BodyLen(h) ==
  LET body_len == h.len - h.rt_len - h.hdr_len
  IN  IF body_len >= 4 THEN body_len - 4 ELSE body_len

\* The two early returns of the handler.
TooShort(h) == h.len < h.rt_len \/ h.len < h.rt_len + h.hdr_len

\* The messages that the capture h may become: none if it is too short, and
\* more than one where the code reads what is not there.  The body length
\* goes through a u8 parameter.
Messages(h) ==
  IF TooShort(h) THEN {}
  ELSE {[ frame_t |-> h.frame_t, frame_st |-> h.frame_st, retry |-> h.retry,
          tods |-> h.tods, fromds |-> h.fromds, frame_d |-> a.frame_d,
          src_mac |-> a.src_mac, dst_mac |-> a.dst_mac, bssid |-> a.bssid,
          channel_freq |-> get_radiotap_info(h),
          body_len |-> BodyLen(h) % U8 ] : a \in parse_fromtods(h)}

-----------------------------------------------------------------------------
(* The addressing rules of 802.11, for reference: who a frame is from, who *)
(* it is for, and, unless it is bridged, the access point it belongs to.   *)

SourceAddress(h) ==
  CASE h.fromds = 0                -> h.addr[2]
    [] h.fromds = 1 /\ h.tods = 0  -> h.addr[3]
    [] h.fromds = 1 /\ h.tods = 1  -> h.addr[4]

DestinationAddress(h) == IF h.tods = 0 THEN h.addr[1] ELSE h.addr[3]

Bssid(h) ==
  CASE h.tods = 0 /\ h.fromds = 0 -> h.addr[3]
    [] h.tods = 1 /\ h.fromds = 0 -> h.addr[1]
    [] h.tods = 0 /\ h.fromds = 1 -> h.addr[2]
=============================================================================
