--------------------------- MODULE SnifferParams ----------------------------
(***************************************************************************)
(* Constants shared by the components of the user program: the compile-    *)
(* time sizes (helpers.h, channel_hop.h), integer widths, and the frames   *)
(* that the kernel module may multicast.                                   *)
(***************************************************************************)
EXTENDS Integers, Sequences, FiniteSets, FrameTypes, SsidName

CONSTANTS
  Mac,             \* hardware addresses, on the air or read from garbage
  NoMac,           \* the all-zero address of an array slot never used
  Freq,            \* the frequencies (MHz) that a message may report, 0 for none
  HIDDEN,          \* the name "<hidden>"
  Frame,           \* the messages frame_handler may be given
  NoAction,        \* the zeroed action_frame of a packet that is no action frame
  AP_CAPACITY,     \* slots of ctx.aps
  CHANNELS_COUNT,  \* slots of ap.channel_freqs, and length of the hop list
  U8,              \* number of values of a uint8_t
  U32              \* number of values of a uint32_t

ASSUME SizeAssumption ==
  /\ AP_CAPACITY \in Nat \ {0}
  /\ CHANNELS_COUNT \in Nat \ {0}
  /\ U8 \in Nat \ {0}
  /\ U32 \in Nat \ {0}

ASSUME NameAssumption ==
  /\ HIDDEN \in Seq(Char)
  /\ Printable \subseteq Char

\* hdr_info, radiotap_info and what the body says, as one record.
ASSUME FrameAssumption ==
  \A f \in Frame :
    /\ f.retry \in {0, 1} /\ f.tods \in {0, 1} /\ f.fromds \in {0, 1}
    /\ f.src_mac \in Mac /\ f.dst_mac \in Mac /\ f.bssid \in Mac
    /\ f.channel_freq \in Freq
    /\ f.ssid \in Seq(Char)
=============================================================================
