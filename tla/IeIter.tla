------------------------------- MODULE IeIter -------------------------------
(***************************************************************************)
(* The walk over the information elements of a beacon or probe response    *)
(* (user/src/ie_iter.c), octet by octet.                                   *)
(*                                                                         *)
(* What was sent is a list of elements behind the fixed parameters; what   *)
(* arrives may lack octets at its end, since the kernel module takes four  *)
(* off for a check sequence that need not be there and passes the length   *)
(* through eight bits.  Positions count from 0 as in the code.  The        *)
(* iterator copies the octets it is given into a block of its own; reading *)
(* behind that block returns anything.                                     *)
(***************************************************************************)
EXTENDS FrameTypes, SsidName, SequencesExt

CONSTANTS
  Lists,      \* the element lists sent
  Cuts,       \* how many octets may be missing at the end
  OldNames,   \* the names that may be stored beforehand
  U8          \* number of values of a uint8_t

\* An information element.
Element == [id : Char, val : Seq(Char)]

\* What is sent and stored is made of octets.
ASSUME IeAssumption ==
  /\ Char \subseteq Nat
  /\ \A l \in Lists : l \in Seq(Element)
  /\ Cuts \subseteq Nat
  /\ \A o \in OldNames : o \in Seq(Char)
  /\ U8 \in Nat \ {0}

VARIABLES
  frame_st,   \* the frame's subtype
  list,       \* what was sent
  body,       \* what arrived
  old,        \* the name stored beforehand
  ssid,       \* ap->ssid
  pc,         \* "start", "next", "element" or "done"
  ies,        \* iter->ies
  cur,        \* iter->cur, or NULL
  cur_id,
  cur_len

sentVars == <<frame_st, list, body, old>>
ieVars   == <<sentVars, ssid, pc, ies, cur, cur_id, cur_len>>

NULL == -1

-----------------------------------------------------------------------------
(* What is sent.                                                           *)

Encode(e) == <<e.id, Len(e.val)>> \o e.val

Octets(l) == FlattenSeq([n \in DOMAIN l |-> Encode(l[n])])

Prefix(s, cut) == SubSeq(s, 1, Len(s) - cut)

\* How many octets of a body come before its elements.
mgmt_fixed_params(st) ==
  CASE st \in {M_BEACON, M_TIMING_ADVERTISEMENT, M_PROBE_RESPONSE} -> 12
    [] st \in {M_ACTION, M_ACTION_NOACK, M_DISASSOCIATION, M_DEAUTHENTICATION} -> 2
    [] st = M_ASSOCIATION_REQUEST -> 4
    [] st \in {M_AUTHENTICATION, M_ASSOCIATION_RESPONSE,
               M_REASSOCIATION_REQUEST, M_REASSOCIATION_RESPONSE} -> 6
    [] OTHER -> 0

IeInit ==
  /\ frame_st \in {M_BEACON, M_PROBE_RESPONSE}
  /\ list \in Lists
  /\ \E cut \in Cuts :
       body = [n \in 1 .. mgmt_fixed_params(frame_st) |-> 0] \o Prefix(Octets(list), cut)
  /\ old \in OldNames
  /\ ssid = old
  /\ pc = "start"
  /\ ies = <<>> /\ cur = NULL /\ cur_id = 0 /\ cur_len = 0

-----------------------------------------------------------------------------
(* The iterator.                                                           *)

\* The octet at position p of the iterator's block, or anything behind it.
At(p) == IF p < Len(ies) THEN {ies[p + 1]} ELSE Char

\* ie_iter: NULL if nothing is left behind the fixed parameters.
ie_iter ==
  /\ pc = "start"
  /\ LET fixed   == mgmt_fixed_params(frame_st)
         ptr_len == (Len(body) % U8) - fixed
     IN  \/ /\ ptr_len <= 0
            /\ pc' = "done"
            /\ UNCHANGED ies
         \/ /\ ptr_len > 0
            /\ ies' = SubSeq(body, fixed + 1, fixed + ptr_len)
            /\ pc' = "next"
  /\ UNCHANGED <<sentVars, ssid, cur, cur_id, cur_len>>

\* Mutant: id and length are taken for each other.
MutEnterElement(p) ==
  /\ cur_id' \in At(p + 1)
  /\ cur_len' \in At(p)
  /\ cur' = p + 2
  /\ pc' = "element"

\* iter->cur is moved to the value of the element whose header is at p.
EnterElement(p) ==
  /\ cur_id' \in At(p)
  /\ cur_len' \in At(p + 1)
  /\ cur' = p + 2
  /\ pc' = "element"

IterEnds ==
  /\ pc' = "done"
  /\ UNCHANGED <<cur, cur_id, cur_len>>

\* ie_iter_next, the first time.
NextFirst ==
  /\ pc = "next" /\ cur = NULL
  /\ \/ Len(ies) <= 2 /\ IterEnds
     \/ Len(ies) > 2 /\ EnterElement(0)
  /\ UNCHANGED <<sentVars, ssid, ies>>

\* Mutant: the walk goes on at the very end of the block.
MutNextElement ==
  /\ pc = "next" /\ cur # NULL
  /\ LET p == cur + cur_len
     IN  \/ p > Len(ies) /\ IterEnds
         \/ p <= Len(ies) /\ EnterElement(p)
  /\ UNCHANGED <<sentVars, ssid, ies>>

\* Mutant: the header of the element is not stepped over.
MutNextStays ==
  /\ pc = "next" /\ cur # NULL
  /\ LET p == cur + cur_len
     IN  \/ p >= Len(ies) /\ IterEnds
         \/ /\ p < Len(ies)
            /\ cur_id' \in At(p)
            /\ cur_len' \in At(p + 1)
            /\ cur' = p
            /\ pc' = "element"
  /\ UNCHANGED <<sentVars, ssid, ies>>

\* ie_iter_next, from then on.
NextElement ==
  /\ pc = "next" /\ cur # NULL
  /\ LET p == cur + cur_len
     IN  \/ p >= Len(ies) /\ IterEnds
         \/ p < Len(ies) /\ EnterElement(p)
  /\ UNCHANGED <<sentVars, ssid, ies>>

\* The body of iter_packet_ies' loop: only the SSID element, whose id is 0,
\* is looked at.
UseElement ==
  /\ pc = "element"
  /\ IF cur_id = 0
     THEN \E s \in [1 .. cur_len -> Char] :
            /\ \A n \in 1 .. cur_len : s[n] \in At(cur + n - 1)
            /\ ssid' = Renamed(ssid, s)
     ELSE UNCHANGED ssid
  /\ pc' = "next"
  /\ UNCHANGED <<sentVars, ies, cur, cur_id, cur_len>>

IeNext == ie_iter \/ NextFirst \/ NextElement \/ UseElement

IeSpec == IeInit /\ [][IeNext]_ieVars /\ WF_ieVars(IeNext)

-----------------------------------------------------------------------------
(* Properties.                                                             *)

\* The name stored once the first n elements of l have been used, if o was
\* stored beforehand.
NameAfter(l, o, n) ==
  LET name[k \in 0 .. Len(l)] ==
        IF k = 0 THEN o
        ELSE IF l[k].id = 0 THEN Renamed(name[k - 1], l[k].val) ELSE name[k - 1]
  IN  name[n]

\* The position at which the n-th element ends.
EndOf(n) == Len(Octets(SubSeq(list, 1, n)))

\* No SSID element is among what is missing.
SsidsArrived == \A n \in DOMAIN list : list[n].id = 0 => EndOf(n) <= Len(ies)

\* The walk takes over the names of the SSID elements, in their order and
\* nothing else, provided they arrived: whatever is missing behind them, in
\* the middle of an element or of its header, leaves the name alone.  This is
\* what ApTable assumes of it.
NameIsTheOneSent ==
  pc = "done" /\ SsidsArrived =>
    ssid = NameAfter(list, old, Len(list))

\* In a list that arrived whole, no element reaches over the end of the block.
WholeListReadInside ==
  pc = "element" /\ Len(ies) = Len(Octets(list)) => cur + cur_len <= Len(ies)

\* How much the walk has before it at most, in half octets.
Left ==
  CASE pc = "start"                -> 2 * Len(body) + 6
    [] pc = "next" /\ cur = NULL   -> 2 * Len(ies) + 5
    [] pc = "element"              -> 2 * (Len(ies) + 2 - cur) + 2
    [] pc = "next" /\ cur # NULL   -> 2 * (Len(ies) + 2 - cur) + 1
    [] pc = "done"                 -> 0

\* Every step leaves less before the walk, counted in the octets that it was
\* given: no length, be it 0 or read from behind the block, makes it stand
\* still or turn back.
WalkShrinks == [][Left' \in Nat /\ Left' < Left]_ieVars

\* The walk comes to its end, whatever the lengths say.
WalkEnds == <>(pc = "done")

\* README: "the only data we're interested in is the APs SSID".  The name
\* stored is one that was sent, or the old one.
StoredNameWasSent ==
  ssid = old \/ \E n \in DOMAIN list : list[n].id = 0 /\ ssid = list[n].val
=============================================================================
