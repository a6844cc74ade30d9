----------------------------- MODULE ChannelHop -----------------------------
(***************************************************************************)
(* Channel hopping (user/src/channel_hop.c and the end of main's loop).    *)
(*                                                                         *)
(* set_channel is a call that takes time: it sends a request to nl80211    *)
(* and blocks the program's only thread until the answer is there.  call   *)
(* is where it stands:                                                     *)
(*                                                                         *)
(*   "none"    no call                                                     *)
(*   "sent"    in nl_wait_for_ack                                          *)
(*   "acked"   nl80211 has retuned the radio behind mon0                   *)
(*   "failed"  nl80211 has refused, or the request was never sent (no      *)
(*             socket, no connection, no message); the radio stays put     *)
(*                                                                         *)
(* The result is ignored.  nl80211 and the radio are external.             *)
(***************************************************************************)
EXTENDS SnifferParams

CONSTANTS
  channels,  \* the hop list, indexed from 0
  HOP_TIME,  \* loop turns between hops
  BootFreq   \* where the radio is when the program starts

ASSUME HopAssumption ==
  /\ channels \in [0 .. CHANNELS_COUNT - 1 -> Nat]
  /\ HOP_TIME \in Nat
  /\ BootFreq \in Int

VARIABLES
  channel,    \* index into channels
  hopping,    \* hopping switched on
  hop_timer,
  call,
  tuned       \* the frequency the radio is on

hopVars == <<channel, hopping, hop_timer, call, tuned>>

channel_to_freq(c) ==
  CASE c \in 1 .. 13   -> 2407 + c * 5
    [] c = 14          -> 2484
    [] c \in 36 .. 177 -> 5000 + c * 5
    [] OTHER           -> -1

\* The channel that the stats window shows.
current_channel == channels[channel]

\* main has called channel_init.
HopInit ==
  /\ channel = 0
  /\ hopping = FALSE
  /\ hop_timer = HOP_TIME
  /\ call = "none"
  /\ tuned \in {BootFreq, channel_to_freq(channels[0])}

\* The tab key.
ToggleHopping ==
  /\ hopping' = ~hopping
  /\ UNCHANGED <<channel, hop_timer, call, tuned>>

\* set_channel up to its wait.
set_channel == call' \in {"sent", "failed"}

\* Mutant: the timer is not restarted, so that the wrapped value stays.
MutHopStarts ==
  /\ call = "none" /\ hopping /\ hop_timer = 0
  /\ hop_timer' = 65535
  /\ set_channel
  /\ UNCHANGED <<channel, hopping, tuned>>

\* if (hopping && hop_timer-- <= 0): the timer is unsigned, the comparison
\* holds at 0 only, and the wrapped value is overwritten at once.
HopStarts ==
  /\ call = "none" /\ hopping /\ hop_timer = 0
  /\ hop_timer' = HOP_TIME
  /\ set_channel
  /\ UNCHANGED <<channel, hopping, tuned>>

\* The answer.
Nl80211 ==
  /\ call = "sent"
  /\ \/ call' = "acked" /\ tuned' = channel_to_freq(current_channel)
     \/ call' = "failed" /\ UNCHANGED tuned
  /\ UNCHANGED <<channel, hopping, hop_timer>>

\* Mutant: the index advances only if set_channel has failed.
MutHopEnds ==
  /\ call \in {"acked", "failed"}
  /\ call' = "none"
  /\ channel' = IF call = "failed" THEN (channel + 1) % CHANNELS_COUNT ELSE channel
  /\ UNCHANGED <<hopping, hop_timer, tuned>>

\* The rest of set_channel, and of next_channel.
HopEnds ==
  /\ call \in {"acked", "failed"}
  /\ call' = "none"
  /\ channel' = (channel + 1) % CHANNELS_COUNT
  /\ UNCHANGED <<hopping, hop_timer, tuned>>

CountDown ==
  /\ call = "none" /\ hopping /\ hop_timer > 0
  /\ hop_timer' = hop_timer - 1
  /\ UNCHANGED <<channel, hopping, call, tuned>>

NoHop ==
  /\ call = "none" /\ ~hopping
  /\ UNCHANGED hopVars

HopNext == ToggleHopping \/ HopStarts \/ Nl80211 \/ HopEnds \/ CountDown

HopSpec == HopInit /\ [][HopNext]_hopVars

-----------------------------------------------------------------------------
(* Properties.                                                             *)

\* Type correctness; the timer never holds the value that 0 wraps to.
HopTypeOK ==
  /\ channel \in 0 .. CHANNELS_COUNT - 1
  /\ hopping \in BOOLEAN
  /\ hop_timer \in 0 .. HOP_TIME
  /\ call \in {"none", "sent", "acked", "failed"}
  /\ tuned \in Int
=============================================================================
