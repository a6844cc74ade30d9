---------------------------- MODULE FrameLabels -----------------------------
(***************************************************************************)
(* How the packet window names a frame (user/src/ft_parser.c,              *)
(* user/src/action_frame_parser.c).  The enumerations count from 0; they   *)
(* are written as the sequences of their labels, with "UNKNOWN" for a code *)
(* that is left out, and with an underscore for a blank (no label of the   *)
(* source has one).                                                        *)
(***************************************************************************)
EXTENDS Integers, Sequences, FrameTypes

\* A switch over the enumeration enum, and what follows it.
Label(enum, code) == IF code + 1 \in DOMAIN enum THEN enum[code + 1] ELSE "UNKNOWN"

MANAGEMENT_TYPE ==
  <<"ASSOCIATION_REQUEST", "ASSOCIATION_RESPONSE", "REASSOCIATION_REQUEST",
    "REASSOCIATION_RESPONSE", "PROBE_REQUEST", "PROBE_RESPONSE",
    "TIMING_ADVERTISEMENT", "UNKNOWN", "BEACON", "ATIM", "DISASSOCIATION",
    "AUTHENTICATION", "DEAUTHENTICATION", "ACTION", "NO_ACK">>

CONTROL_TYPE ==
  <<"UNKNOWN", "UNKNOWN", "TRIGGER", "TACK", "BEAMFORMING_REPORT_POLL",
    "NDP_ANNOUNCEMENT", "CONTROL_FRAME_EXTENSION", "CONTROL_WRAPPER",
    "BLOCK_ACK_REQUEST", "BLOCK_ACK", "PS_POLL", "RTS", "CTS", "ACK", "CF-END",
    "CF-END_+_CF-ACK">>

DATA_TYPE ==
  [n \in 1 .. 16 |-> CASE n = 1 -> "DATA"     [] n = 5  -> "NULL_DATA"
                       [] n = 9 -> "QoS_DATA" [] n = 13 -> "QoS_NULL_DATA"
                       [] OTHER -> "UNKNOWN"]

m_frame_to_string(st) == Label(MANAGEMENT_TYPE, st)
\* Mutant: the case of block acknowledgement requests falls through.
Mut_c_frame_to_string(st) == Label(CONTROL_TYPE, IF st = 8 THEN 9 ELSE st)

c_frame_to_string(st) == Label(CONTROL_TYPE, st)
d_frame_to_string(st) == Label(DATA_TYPE, st)

sub_frame_string(t, st) ==
  CASE t = T_MANAGEMENT -> m_frame_to_string(st)
    [] t = T_CONTROL    -> c_frame_to_string(st)
    [] t = T_DATA       -> d_frame_to_string(st)
    [] OTHER            -> "UNKNOWN"

frame_direction_to_string(d) ==
  Label(<<"CLIENT_TO_CLIENT", "CLIENT_TO_AP", "AP_TO_CLIENT", "AP_TO_AP">>, d)

-----------------------------------------------------------------------------
(* Action frames.                                                          *)

ACTION_CAT ==
  <<"SPECTRUM_MANAGEMENT", "QoS", "DLS", "BLOCK_ACK", "PUBLIC",
    "RADIO_MEASUREMENT", "FAST_BSS_TRANSITION", "HIGH_THROUGHPUT", "SA_QUERY",
    "PROTECTED_DUAL_OF_PUBLIC">>
VHT == 21
HE  == 25

SPECTRUM_MANAGEMENT_ACTION ==
  <<"MEASUREMENT_REQUEST", "MEASUREMENT_REPORT", "TPC_REQUEST", "TPC_REPORT",
    "CHANNEL_SWITCH_ANNOUNCEMENT">>
QOS_ACTION == <<"ADDTS_REQUEST", "ADDTS_RESPONSE", "DELTS", "SCHEDULE", "QoS_MAP_CONFIG">>
DLS_ACTION == <<"DLS_REQUEST", "DLS_RESPONSE", "DLS_TEARDOWN">>
BLOCK_ACK_ACTION == <<"ADDBA_REQUEST", "ADDBA_RESPONSE", "DELBA">>
RADIO_MEASUREMENT_ACTION ==
  <<"RADIO_MEASUREMENT_REQUEST", "RADIO_MEASUREMENT_REPORT",
    "LINK_MEASUREMENT_REQUEST", "LINK_MEASUREMENT_REPORT",
    "NEIGHBOUR_REPORT_REQUEST", "NEIGHBOUR_REPORT_RESPONSE">>
FAST_BSS_TRANSITION_ACTION == <<"FT_REQUEST", "FT_RESPONSE", "FT_CONFIRM", "FT_ACK">>
HT_ACTION ==
  <<"NOTIFY_CHANNEL_WIDTH", "SM_POWER_SAVE", "PMSP", "SET_PCO_PHASE", "CSI",
    "NON-COMPRESSED_BEAMFORMING", "COMPRESSED_BEAMFORMING", "ASEL_INDICES_FEEDBACK">>
SA_QUERY_ACTION == <<"SA_QUERY_REQUEST", "SA_QUERY_RESPONSE">>

action_cat_to_string(cat) ==
  CASE cat = VHT -> "VERY_HIGH_THROUGHPUT"
    [] cat = HE  -> "HE"
    [] OTHER     -> Label(ACTION_CAT, cat)

spectrummgmt_action_to_string(code)   == Label(SPECTRUM_MANAGEMENT_ACTION, code)
qos_action_to_string(code)            == Label(QOS_ACTION, code)
dls_action_to_string(code)            == Label(DLS_ACTION, code)
blockack_action_to_string(code)       == Label(BLOCK_ACK_ACTION, code)
rmeasurement_action_to_string(code)   == Label(RADIO_MEASUREMENT_ACTION, code)
fbsstransition_action_to_string(code) == Label(FAST_BSS_TRANSITION_ACTION, code)
ht_action_to_string(code)             == Label(HT_ACTION, code)
saquery_action_to_string(code)        == Label(SA_QUERY_ACTION, code)

\* The categories whose codes have no labels of their own repeat their name.
action_to_string(cat, code) ==
  CASE cat = 0 -> spectrummgmt_action_to_string(code)
    [] cat = 1 -> qos_action_to_string(code)
    [] cat = 2 -> dls_action_to_string(code)
    [] cat = 3 -> blockack_action_to_string(code)
    [] cat = 5 -> rmeasurement_action_to_string(code)
    [] cat = 6 -> fbsstransition_action_to_string(code)
    [] cat = 7 -> ht_action_to_string(code)
    [] cat = 8 -> saquery_action_to_string(code)
    [] OTHER   -> action_cat_to_string(cat)
=============================================================================
