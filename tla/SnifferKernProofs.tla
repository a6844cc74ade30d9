------------------------- MODULE SnifferKernProofs --------------------------
(***************************************************************************)
(* Proofs about the kernel module's life cycle, for any number of          *)
(* processors and any set of captures.                                     *)
(***************************************************************************)
EXTENDS SnifferKern, TLAPS

\* What each stage of loading and unloading has in place.
StageHolds ==
  /\ hook => stage \in {"hooked", "live"}
  /\ refs = IF stage \in {"out", "put"} THEN 0 ELSE 1
  /\ Busy => stage \in {"hooked", "live", "unhooking"}
  /\ family = "freed" => stage = "out"

KernInv == KernTypeOK /\ StageHolds

\* Loading and unloading never touch what the handlers are doing.
LEMMA StageStep ==
  ASSUME KernInv, Loading \/ Unhook \/ Unloading
  PROVE  KernInv'
<1>0. rx' = rx /\ (Busy' <=> Busy)
    BY DEF Loading, Unloading, FindDevice, RegisterHandler, RegisterHandlerFails,
           RegisterFamily, Unhook, HandlersGone, PutDevice, FreeFamily, Busy
<1>1. CASE FindDevice
    BY <1>0, <1>1 DEF FindDevice, KernInv, KernTypeOK, StageHolds
<1>2. CASE RegisterHandler
    BY <1>0, <1>2 DEF RegisterHandler, KernInv, KernTypeOK, StageHolds
<1>3. CASE RegisterHandlerFails
    BY <1>0, <1>3 DEF RegisterHandlerFails, KernInv, KernTypeOK, StageHolds
<1>4. CASE RegisterFamily
    BY <1>0, <1>4 DEF RegisterFamily, KernInv, KernTypeOK, StageHolds
<1>5. CASE Unhook
    BY <1>0, <1>5 DEF Unhook, KernInv, KernTypeOK, StageHolds
<1>6. CASE HandlersGone
    BY <1>0, <1>6 DEF HandlersGone, KernInv, KernTypeOK, StageHolds
<1>7. CASE PutDevice
    BY <1>0, <1>7 DEF PutDevice, KernInv, KernTypeOK, StageHolds
<1>8. CASE FreeFamily
    BY <1>0, <1>8 DEF FreeFamily, KernInv, KernTypeOK, StageHolds
<1> QED
    BY <1>1, <1>2, <1>3, <1>4, <1>5, <1>6, <1>7, <1>8 DEF Loading, Unloading

\* A handler starts only while it is hooked, and ends at any time.
LEMMA HandlerStep ==
  ASSUME KernInv, NEW c \in Cpu,
         SendFails(c) \/ Sends(c) \/ \E h \in Capture : Capturing(c, h)
  PROVE  KernInv'
<1>0. UNCHANGED <<stage, hook, family, refs>>
    BY DEF SendFails, Sends, Capturing
<1>1. CASE SendFails(c) \/ Sends(c)
  <2>1. rx' = [rx EXCEPT ![c] = Idle] /\ Busy
      BY <1>1 DEF SendFails, Sends, Busy
  <2>2. rx' \in [Cpu -> {Idle} \cup Jobs]
      BY <2>1 DEF KernInv, KernTypeOK
  <2> QED
      BY <1>0, <2>1, <2>2 DEF KernInv, KernTypeOK, StageHolds
<1>2. ASSUME NEW h \in Capture, Capturing(c, h)
      PROVE  KernInv'
  <2>1. PICK m \in Messages(h) : rx' = [rx EXCEPT ![c] = [capture |-> h, message |-> m]]
      BY <1>2 DEF Capturing
  <2>2. rx' \in [Cpu -> {Idle} \cup Jobs]
      BY <2>1 DEF KernInv, KernTypeOK, Jobs
  <2>3. stage \in {"hooked", "live"}
      BY <1>2 DEF Capturing, KernInv, StageHolds
  <2> QED
      BY <1>0, <2>2, <2>3 DEF KernInv, KernTypeOK, StageHolds
<1> QED
    BY <1>1, <1>2

\* The invariant holds throughout.
LEMMA KernAlways ==
  KernSpec => []KernInv
<1>1. KernInit => KernInv
    BY DEF KernInit, KernInv, KernTypeOK, StageHolds, Busy
<1>2. KernInv /\ [KernNext]_kernVars => KernInv'
  <2>1. ASSUME KernInv, KernNext
        PROVE  KernInv'
      BY <2>1, StageStep, HandlerStep DEF KernNext, Sending
  <2>2. ASSUME KernInv, UNCHANGED kernVars
        PROVE  KernInv'
      BY <2>2 DEF kernVars, KernInv, KernTypeOK, StageHolds, Busy
  <2> QED
      BY <2>1, <2>2
<1> QED
    BY <1>1, <1>2, PTL DEF KernSpec

\* The module holds one reference to mon0 or none, and a handler at work is
\* about to send what its capture decodes to.
THEOREM KernTypes ==
  KernSpec => []KernTypeOK
<1>1. KernInv => KernTypeOK
    BY DEF KernInv
<1> QED
    BY <1>1, KernAlways, PTL

\* The rx handler never runs, and can never start, without the module's code
\* and its reference to mon0.
THEOREM HandlerAlwaysHasModule ==
  KernSpec => []HandlerHasModule
<1>1. KernInv => HandlerHasModule
    BY DEF KernInv, StageHolds, HandlerHasModule
<1> QED
    BY <1>1, KernAlways, PTL

\* sniffer_clean frees the netlink family only when nobody can use it.
THEOREM FamilyOutlivesHandlers ==
  KernSpec => []NoSendAfterFree
<1>1. KernInv => NoSendAfterFree
    BY DEF KernInv, StageHolds, NoSendAfterFree
<1> QED
    BY <1>1, KernAlways, PTL
=============================================================================
