---------------------------- MODULE SnifferKern -----------------------------
(***************************************************************************)
(* The kernel module: loading (sniffer_init), unloading (sniffer_clean)    *)
(* and the rx handler that runs meanwhile on any processor.                *)
(*                                                                         *)
(* stage is where insmod or rmmod stands:                                  *)
(*                                                                         *)
(*   "out"        not loaded                                               *)
(*   "got_dev"    sniffer_init has found mon0 and holds a reference to it  *)
(*   "hooked"     the rx handler is registered, the netlink family not yet *)
(*   "live"       sniffer_init has returned                                *)
(*   "unhooking"  sniffer_clean has taken the handler off the device and   *)
(*                waits, in netdev_rx_handler_unregister, for the handlers *)
(*                that still run                                           *)
(*   "unhooked"   none runs any more                                       *)
(*   "put"        the reference to mon0 is returned                        *)
(***************************************************************************)
EXTENDS FrameDecode

CONSTANTS
  Capture,   \* the frames that mon0 may capture
  Cpu,       \* the processors on which the handler may run
  Idle       \* no handler runs

VARIABLES
  stage,
  hook,      \* mon0's rx_handler is sniffer_rx_handler
  family,    \* "none", "registered", "failed" or "freed"
  refs,      \* references to mon0 that the module holds
  rx,        \* for each processor: Idle, or what the handler is about to send
  last       \* auxiliary: the last capture given to genlmsg_multicast, and as what

kernVars == <<stage, hook, family, refs, rx, last>>

\* A handler at work: a capture, and one of the messages it may become.
Jobs == UNION {{[capture |-> h, message |-> m] : m \in Messages(h)} : h \in Capture}

Nothing == [capture |-> Idle, message |-> Idle]

\* Some processor is inside the module.
Busy == \E c \in Cpu : rx[c] # Idle

KernInit ==
  /\ stage = "out"
  /\ hook = FALSE
  /\ family = "none"
  /\ refs = 0
  /\ rx = [c \in Cpu |-> Idle]
  /\ last = Nothing

-----------------------------------------------------------------------------
(* sniffer_init.  It fails without a trace if there is no mon0.            *)

FindDevice ==
  /\ stage = "out"
  /\ stage' = "got_dev"
  /\ refs' = refs + 1
  /\ family' = "none"
  /\ UNCHANGED <<hook, rx, last>>

RegisterHandler ==
  /\ stage = "got_dev"
  /\ hook' = TRUE
  /\ stage' = "hooked"
  /\ UNCHANGED <<family, refs, rx, last>>

\* Mutant: the error path keeps the reference.
MutRegisterHandlerFails ==
  /\ stage = "got_dev"
  /\ stage' = "out"
  /\ UNCHANGED <<hook, family, refs, rx, last>>

\* The device has another rx handler already: sniffer_init gives up.
RegisterHandlerFails ==
  /\ stage = "got_dev"
  /\ refs' = refs - 1
  /\ stage' = "out"
  /\ UNCHANGED <<hook, family, rx, last>>

\* init_genl_family, whose result is not looked at.
RegisterFamily ==
  /\ stage = "hooked"
  /\ family' \in {"registered", "failed"}
  /\ stage' = "live"
  /\ UNCHANGED <<hook, refs, rx, last>>

-----------------------------------------------------------------------------
(* sniffer_clean.                                                          *)

\* Mutant: the family is freed before the handler is taken off.
MutUnhook ==
  /\ stage = "live"
  /\ hook' = FALSE
  /\ family' = "freed"
  /\ stage' = "unhooking"
  /\ UNCHANGED <<refs, rx, last>>

\* Mutant: rmmod waits but the handler stays registered.
MutUnhookKeeps ==
  /\ stage = "live"
  /\ stage' = "unhooking"
  /\ UNCHANGED <<hook, family, refs, rx, last>>

Unhook ==
  /\ stage = "live"
  /\ hook' = FALSE
  /\ stage' = "unhooking"
  /\ UNCHANGED <<family, refs, rx, last>>

\* Mutant: nobody waits for the handlers that still run.
MutHandlersGone ==
  /\ stage = "unhooking"
  /\ stage' = "unhooked"
  /\ UNCHANGED <<hook, family, refs, rx, last>>

\* The end of netdev_rx_handler_unregister.
HandlersGone ==
  /\ stage = "unhooking"
  /\ ~Busy
  /\ stage' = "unhooked"
  /\ UNCHANGED <<hook, family, refs, rx, last>>

PutDevice ==
  /\ stage = "unhooked"
  /\ refs' = refs - 1
  /\ stage' = "put"
  /\ UNCHANGED <<hook, family, rx, last>>

FreeFamily ==
  /\ stage = "put"
  /\ family' = "freed"
  /\ stage' = "out"
  /\ UNCHANGED <<hook, refs, rx, last>>

-----------------------------------------------------------------------------
(* The rx handler.                                                         *)

\* A frame arrives and is decoded; one that is too short is passed on.
Capturing(c, h) ==
  /\ hook /\ rx[c] = Idle
  /\ \E m \in Messages(h) : rx' = [rx EXCEPT ![c] = [capture |-> h, message |-> m]]
  /\ UNCHANGED <<stage, hook, family, refs, last>>

\* send_to_userspace: the message cannot be allocated or built ...
SendFails(c) ==
  /\ rx[c] # Idle
  /\ rx' = [rx EXCEPT ![c] = Idle]
  /\ UNCHANGED <<stage, hook, family, refs, last>>

\* ... or is multicast.
Sends(c) ==
  /\ rx[c] # Idle
  /\ rx' = [rx EXCEPT ![c] = Idle]
  /\ last' = rx[c]
  /\ UNCHANGED <<stage, hook, family, refs>>

-----------------------------------------------------------------------------

Loading   == FindDevice \/ RegisterHandler \/ RegisterHandlerFails \/ RegisterFamily
Unloading == HandlersGone \/ PutDevice \/ FreeFamily
Sending   == \E c \in Cpu : SendFails(c) \/ Sends(c)

KernNext ==
  \/ Loading \/ Unhook \/ Unloading \/ Sending
  \/ \E c \in Cpu, h \in Capture : Capturing(c, h)

KernSpec == KernInit /\ [][KernNext]_kernVars

\* The handler runs to its end in a softirq, and rmmod proceeds.
FairKernSpec ==
  /\ KernSpec
  /\ \A c \in Cpu : WF_kernVars(SendFails(c) \/ Sends(c))
  /\ WF_kernVars(Unloading)

-----------------------------------------------------------------------------
(* Properties.                                                             *)

\* Type correctness of the module's state.
KernTypeOK ==
  /\ stage \in {"out", "got_dev", "hooked", "live", "unhooking", "unhooked", "put"}
  /\ hook \in BOOLEAN
  /\ family \in {"none", "registered", "failed", "freed"}
  /\ refs \in {0, 1}
  /\ rx \in [Cpu -> {Idle} \cup Jobs]

\* No handler runs, and none can start, when the module's code is gone or the
\* device may be: the order of sniffer_clean, and the error path of
\* sniffer_init, leave no hook behind.
HandlerHasModule ==
  hook \/ Busy => stage # "out" /\ refs = 1

\* No message is multicast to a family that has been freed.
NoSendAfterFree ==
  Busy => family # "freed"

\* Unloading comes to its end, however many frames keep arriving.
UnloadEnds == stage = "unhooking" ~> stage = "out"

\* README: the handler "uses tods/fromds to correctly set src_mac and
\* dst_mac".  In what is multicast they are the frame's source and
\* destination, for the frames whose header has them.
SrcAndDstAreTheFrames ==
  last # Nothing /\ Len(last.capture.addr) >= 3 =>
    /\ last.message.src_mac = SourceAddress(last.capture)
    /\ last.message.dst_mac = DestinationAddress(last.capture)
=============================================================================
