----------------------------- MODULE FrameTypes -----------------------------
(***************************************************************************)
(* The 802.11 frame type and subtype codes the user program tells apart    *)
(* (user/src/ft_parser.h), as the kernel module extracts them from the     *)
(* frame control field.                                                    *)
(***************************************************************************)

T_MANAGEMENT == 0
T_CONTROL    == 1
T_DATA       == 2

M_ASSOCIATION_REQUEST    == 0
M_ASSOCIATION_RESPONSE   == 1
M_REASSOCIATION_REQUEST  == 2
M_REASSOCIATION_RESPONSE == 3
M_PROBE_REQUEST          == 4
M_PROBE_RESPONSE         == 5
M_TIMING_ADVERTISEMENT   == 6
M_BEACON                 == 8
M_ATIM                   == 9
M_DISASSOCIATION         == 10
M_AUTHENTICATION         == 11
M_DEAUTHENTICATION       == 12
M_ACTION                 == 13
M_ACTION_NOACK           == 14

\* A management frame with one of the subtypes sts.
IsMgmt(f, sts) == f.frame_t = T_MANAGEMENT /\ f.frame_st \in sts

IsBeacon(f)       == IsMgmt(f, {M_BEACON})
IsProbeRequest(f) == IsMgmt(f, {M_PROBE_REQUEST})
IsActionFrame(f)  == IsMgmt(f, {M_ACTION, M_ACTION_NOACK})

\* The frames by which an access point makes itself known.
Announces(f) == IsMgmt(f, {M_BEACON, M_PROBE_RESPONSE})
=============================================================================
