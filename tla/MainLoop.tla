------------------------------ MODULE MainLoop ------------------------------
(***************************************************************************)
(* The user program: main's loop over the access point table, the packet   *)
(* ring and the channel hopper, and the netlink socket that feeds it.      *)
(*                                                                         *)
(* One turn of the loop goes through the values of pc in this order:       *)
(*                                                                         *)
(*   "input"   one getch(), which returns a key or nothing                 *)
(*   "draw"    draw_ui                                                     *)
(*   "expire"  the loop over ctx.aps, one step per slot (index i)          *)
(*   "recv"    one message from the socket, unless paused                  *)
(*   "hop"     the hop timer, and the call of set_channel that it makes    *)
(*                                                                         *)
(* "quit" is the code after exit_loop, "done" a normal exit, "crashed" a   *)
(* dereference of NULL, and "overrun" an append past the end of an array,  *)
(* which the model does not follow any further.  The program has a single  *)
(* thread; between any two of its steps the clock may tick and the kernel  *)
(* may multicast a frame.                                                  *)
(***************************************************************************)
EXTENDS ApTable, PacketRing, ChannelHop

CONSTANTS
  QUEUE_MAX   \* messages that fit into the socket's receive buffer

ASSUME QueueAssumption == QUEUE_MAX \in Nat \ {0}

VARIABLES
  pc,
  i,          \* index of the expiry loop
  paused,
  sock,       \* "open", or "null" if init_netlink_socket failed
  queue,      \* messages waiting in the socket
  congested,  \* the kernel drops until the queue has been emptied
  nobufs,     \* an ENOBUFS error waits for the next receive
  pass_start  \* auxiliary: the time at which the last expiry pass began

sockVars == <<queue, congested, nobufs>>
ctlVars  == <<i, paused, sock, pass_start>>
vars     == <<apVars, ringVars, hopVars, sockVars, ctlVars, pc>>

Goto(p) == pc' = p

\* main up to its loop: the screen, the socket (whose result is not looked
\* at) and the first channel.
Init ==
  /\ ApInit /\ RingInit /\ HopInit
  /\ pc = "input"
  /\ i = 0
  /\ paused = FALSE
  /\ sock \in {"open", "null"}
  /\ queue = <<>> /\ congested = FALSE /\ nobufs = FALSE
  /\ pass_start = StartTime

-----------------------------------------------------------------------------
(* Input.                                                                  *)

PressNothing ==
  /\ Goto("draw")
  /\ UNCHANGED <<apVars, ringVars, hopVars, sockVars, ctlVars>>

PressListKey(c) ==
  /\ ListKey(c)
  /\ Goto("draw")
  /\ UNCHANGED <<ringVars, hopVars, sockVars, ctlVars>>

PressSpace ==
  /\ paused' = ~paused
  /\ Goto("draw")
  /\ UNCHANGED <<apVars, ringVars, hopVars, sockVars, i, sock, pass_start>>

PressTab ==
  /\ ToggleHopping
  /\ Goto("draw")
  /\ UNCHANGED <<apVars, ringVars, sockVars, ctlVars>>

PressQuit ==
  /\ Goto("quit")
  /\ UNCHANGED <<apVars, ringVars, hopVars, sockVars, ctlVars>>

Input ==
  /\ pc = "input"
  /\ \/ PressNothing
     \/ \E c \in Keys : \/ PressListKey(c)
                        \/ c = "space" /\ PressSpace
                        \/ c = "tab" /\ PressTab
                        \/ c = "q" /\ PressQuit

-----------------------------------------------------------------------------
(* Drawing changes no state.  In a row that holds a beacon, the access     *)
(* point is looked up and used without a check for NULL.                   *)

DrawsNullAp ==
  \E r \in Ring : /\ Row(r) # NoPacket
                  /\ IsBeacon(Row(r).hdr)
                  /\ ~IsAp(Row(r).hdr.bssid)

Draw ==
  /\ pc = "draw"
  /\ \/ DrawsNullAp /\ Goto("crashed") /\ UNCHANGED <<i, pass_start>>
     \/ ~DrawsNullAp /\ Goto("expire") /\ i' = 0 /\ pass_start' = now
  /\ UNCHANGED <<apVars, ringVars, hopVars, sockVars, paused, sock>>

-----------------------------------------------------------------------------
(* The expiry loop.  i-- after a removal and i++ of the loop cancel out.   *)

\* Mutant: without i--, the slot shifted into place is skipped.
MutExpireRemoveSkips ==
  /\ i < aps_count
  /\ Evict(i)
  /\ i' = i + 1
  /\ UNCHANGED pc

\* Mutant: i-- twice over.
MutExpireRemoveBack ==
  /\ i < aps_count
  /\ Evict(i)
  /\ i' = i - 1
  /\ UNCHANGED pc

\* Mutant: the loop runs on past the last entry.
MutExpireRemovePast ==
  /\ i <= aps_count
  /\ Evict(i)
  /\ UNCHANGED <<i, pc>>

ExpireRemove ==
  /\ i < aps_count
  /\ Evict(i)
  /\ UNCHANGED <<i, pc>>

ExpireSkip ==
  /\ i < aps_count /\ ~Stale(i)
  /\ i' = i + 1
  /\ UNCHANGED <<apVars, pc>>

ExpireDone ==
  /\ i >= aps_count
  /\ Goto("recv")
  /\ UNCHANGED <<apVars, i>>

Expire ==
  /\ pc = "expire"
  /\ ExpireRemove \/ ExpireSkip \/ ExpireDone
  /\ UNCHANGED <<ringVars, hopVars, sockVars, paused, sock, pass_start>>

-----------------------------------------------------------------------------
(* Receiving: nl_recvmsgs_default takes at most one message.               *)

\* recvmsg ends the congestion once it leaves the queue empty.
RecvWake == congested' = (congested /\ queue' # <<>>)

RecvPaused ==
  /\ paused
  /\ Goto("hop")
  /\ UNCHANGED <<apVars, ringVars, sockVars>>

RecvNullSocket ==
  /\ ~paused /\ sock = "null"
  /\ Goto("crashed")
  /\ UNCHANGED <<apVars, ringVars, sockVars>>

\* Any error but NLE_AGAIN: "continue", past the hop timer.
RecvError ==
  /\ ~paused /\ sock = "open" /\ nobufs
  /\ nobufs' = FALSE
  /\ UNCHANGED queue
  /\ RecvWake
  /\ Goto("input")
  /\ UNCHANGED <<apVars, ringVars>>

\* Mutant: an empty socket counts as an error.
MutRecvAgain ==
  /\ ~paused /\ sock = "open" /\ ~nobufs /\ queue = <<>>
  /\ UNCHANGED <<queue, nobufs>>
  /\ RecvWake
  /\ Goto("input")
  /\ UNCHANGED <<apVars, ringVars>>

RecvAgain ==
  /\ ~paused /\ sock = "open" /\ ~nobufs /\ queue = <<>>
  /\ UNCHANGED <<queue, nobufs>>
  /\ RecvWake
  /\ Goto("hop")
  /\ UNCHANGED <<apVars, ringVars>>

\* frame_handler and handle_frame_info.
RecvFrame ==
  /\ ~paused /\ sock = "open" /\ ~nobufs /\ queue # <<>>
  /\ queue' = Tail(queue)
  /\ RecvWake
  /\ HandleFrame(Head(queue))
  /\ StoreFrame(Head(queue))
  /\ Goto("hop")
  /\ UNCHANGED nobufs

\* A frame for which the table or its entry has no room.
RecvOverrun ==
  /\ ~paused /\ sock = "open" /\ ~nobufs /\ queue # <<>>
  /\ Overruns(Head(queue))
  /\ Goto("overrun")
  /\ UNCHANGED <<apVars, ringVars, sockVars>>

Recv ==
  /\ pc = "recv"
  /\ \/ RecvPaused \/ RecvNullSocket \/ RecvError \/ RecvAgain
     \/ RecvFrame \/ RecvOverrun
  /\ UNCHANGED <<hopVars, ctlVars>>

-----------------------------------------------------------------------------

HopPhase ==
  /\ pc = "hop"
  /\ \/ (NoHop \/ CountDown \/ HopEnds) /\ Goto("input")
     \/ HopStarts /\ UNCHANGED pc
  /\ UNCHANGED <<apVars, ringVars, sockVars, ctlVars>>

\* free_ctx, then nl_close, which uses the socket it is given.
Quit ==
  /\ pc = "quit"
  /\ Goto(IF sock = "open" THEN "done" ELSE "crashed")
  /\ UNCHANGED <<apVars, ringVars, hopVars, sockVars, ctlVars>>

Loop == Input \/ Draw \/ Expire \/ Recv \/ HopPhase \/ Quit

-----------------------------------------------------------------------------
(* The surroundings.                                                       *)

Running == pc \notin {"done", "crashed", "overrun"}

\* The kernel module multicasts f.  With the buffer full the message is lost
\* and the socket is congested; ENOBUFS is reported once per congestion.
Multicast(f) ==
  /\ Running /\ sock = "open"
  /\ IF Len(queue) < QUEUE_MAX /\ ~congested
     THEN queue' = Append(queue, f) /\ UNCHANGED <<congested, nobufs>>
     ELSE /\ congested' = TRUE
          /\ nobufs' = (nobufs \/ ~congested)
          /\ UNCHANGED queue
  /\ UNCHANGED <<apVars, ringVars, hopVars, ctlVars, pc>>

Clock ==
  /\ Running
  /\ Tick
  /\ UNCHANGED <<ringVars, hopVars, sockVars, ctlVars, pc>>

\* nl80211 answers the request that the program waits for.
Answer ==
  /\ Nl80211
  /\ UNCHANGED <<apVars, ringVars, sockVars, ctlVars, pc>>

Next ==
  \/ Loop
  \/ Answer
  \/ \E f \in Frame : Multicast(f)
  \/ Clock

Spec == Init /\ [][Next]_vars

\* The scheduler runs the program and nl80211 answers, whatever else happens.
FairSpec == Spec /\ WF_vars(Loop) /\ WF_vars(Answer)

-----------------------------------------------------------------------------
(* Properties.                                                             *)

\* Type correctness of the loop's own variables.
LoopTypeOK ==
  /\ pc \in {"input", "draw", "expire", "recv", "hop", "quit", "done", "crashed",
           "overrun"}
  /\ i \in Nat
  /\ paused \in BOOLEAN
  /\ sock \in {"open", "null"}
  /\ queue \in Seq(Frame)
  /\ congested \in BOOLEAN /\ nobufs \in BOOLEAN
  /\ pass_start \in Nat

\* A pass of the expiry loop misses nobody: when it is over, no entry is left
\* that was already stale when it began, although removals shift the slots
\* under the loop's index and the clock may tick in between.
PassRemovesAllStale ==
  pc = "recv" =>
    \A k \in Live : pass_start - aps[k].last_seen <= EXPIRE

\* A step of the expiry loop ends it or brings its index nearer to the end of
\* the list, which the index never passes, although the end moves towards it
\* as well and i-- goes the other way.
ExpiryAdvances ==
  [][Expire => /\ i <= aps_count
               /\ pc' = "recv" \/ aps_count' - i' < aps_count - i]_vars

\* The loop does to the table only what the table's own specification allows:
\* its index never leaves the entries in use when it removes one.
ImplementsApTable == ApSpec

\* The loop always comes round to the keyboard again, or the program ends:
\* the expiry loop, which decrements its own index, terminates.
ComesRound == []<>(pc = "input" \/ ~Running)

\* As long as hopping stays switched on, every channel of the list is tried
\* over and over: receive errors, which skip the timer, cannot starve it.
HoppingNeverStarves ==
  <>[](hopping /\ Running) =>
    \A c \in 0 .. CHANNELS_COUNT - 1 : []<>(channel = c)

\* If moreover set_channel does not go on failing, the radio itself listens on
\* every channel of the list over and over, although next_channel tunes to
\* one entry and leaves the index, and the screen, at the next.
RadioVisitsAll ==
  <>[](hopping /\ Running /\ call # "failed") =>
    \A c \in 0 .. CHANNELS_COUNT - 1 : []<>(tuned = channel_to_freq(channels[c]))

\* Drawing never needs an access point that is not in the table: a comment in
\* ui.c considers the case and leaves it out.
DrawFindsAp == pc = "draw" => ~DrawsNullAp
=============================================================================
