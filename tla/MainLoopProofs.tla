--------------------------- MODULE MainLoopProofs ---------------------------
(***************************************************************************)
(* Proofs about the user program's loop: that it drives the access point   *)
(* table, the packet buffer and the hopper as their specifications allow,  *)
(* whatever the queue, the clock and the keyboard do, so that what is      *)
(* proved of them carries over to the program; and that a pass of the      *)
(* expiry loop misses no stale entry.                                      *)
(***************************************************************************)
EXTENDS MainLoop, ApDirectoryProofs, PacketRingProofs

\* What the expiry loop has achieved so far: the slots below its index are
\* not stale as of the beginning of the pass.
PassSoFar ==
  pc = "expire" =>
    \A k \in Live : k < i => pass_start - aps[k].last_seen <= EXPIRE

\* The expiry loop's index does not pass the end of the list.
IndexInList == pc = "expire" => i <= aps_count

LoopInv ==
  /\ LoopTypeOK
  /\ ApInv
  /\ pass_start <= now
  /\ PassSoFar
  /\ PassRemovesAllStale
  /\ IndexInList

-----------------------------------------------------------------------------
(* Types.                                                                  *)

\* The variables of the loop that an action leaves alone keep their types.
LEMMA SockTypes ==
  ASSUME LoopTypeOK, UNCHANGED sockVars
  PROVE  queue' \in Seq(Frame) /\ congested' \in BOOLEAN /\ nobufs' \in BOOLEAN
  BY DEF LoopTypeOK, sockVars

\* Waking the sender leaves a truth value.
LEMMA WakeType ==
  ASSUME RecvWake
  PROVE  congested' \in BOOLEAN
  BY DEF RecvWake

\* Every step of the loop and of its surroundings keeps the loop's types.
LEMMA TypeStep ==
  ASSUME LoopTypeOK, now \in Nat, [Next]_vars
  PROVE  LoopTypeOK'
<1>1. CASE Input
  <2>1. UNCHANGED <<sockVars, i, sock, pass_start>> /\ pc' \in {"draw", "quit"}
      BY <1>1 DEF Input, PressNothing, PressListKey, PressSpace, PressTab, PressQuit,
                  Goto, ctlVars
  <2>2. paused' \in BOOLEAN
      BY <1>1 DEF Input, PressNothing, PressListKey, PressSpace, PressTab, PressQuit,
                  ctlVars, LoopTypeOK
  <2>3. queue' \in Seq(Frame) /\ congested' \in BOOLEAN /\ nobufs' \in BOOLEAN
      BY <2>1, SockTypes
  <2> QED
      BY <2>1, <2>2, <2>3 DEF LoopTypeOK
<1>2. CASE Draw
  <2>1. /\ UNCHANGED <<sockVars, paused, sock>> /\ pc' \in {"expire", "crashed"}
        /\ i' \in Nat /\ pass_start' \in Nat
      BY <1>2 DEF Draw, Goto, LoopTypeOK
  <2>2. queue' \in Seq(Frame) /\ congested' \in BOOLEAN /\ nobufs' \in BOOLEAN
      BY <2>1, SockTypes
  <2> QED
      BY <2>1, <2>2 DEF LoopTypeOK
<1>3. CASE Expire
  <2>1. /\ UNCHANGED <<sockVars, paused, sock, pass_start>> /\ pc' \in {"expire", "recv"}
        /\ i' \in Nat
      BY <1>3 DEF Expire, ExpireRemove, ExpireSkip, ExpireDone, Goto, LoopTypeOK
  <2>2. queue' \in Seq(Frame) /\ congested' \in BOOLEAN /\ nobufs' \in BOOLEAN
      BY <2>1, SockTypes
  <2> QED
      BY <2>1, <2>2 DEF LoopTypeOK
<1>4. CASE Recv
  <2>1. UNCHANGED <<i, paused, sock, pass_start>> /\ pc' \in {"hop", "crashed", "input", "overrun"}
      BY <1>4 DEF Recv, RecvPaused, RecvNullSocket, RecvError, RecvAgain, RecvFrame,
                  RecvOverrun, Goto, ctlVars
  <2>2. queue' \in Seq(Frame)
      BY <1>4 DEF Recv, RecvPaused, RecvNullSocket, RecvError, RecvAgain, RecvFrame,
                  RecvOverrun, sockVars, LoopTypeOK
  <2>3. congested' \in BOOLEAN
      BY <1>4, WakeType, SockTypes
         DEF Recv, RecvPaused, RecvNullSocket, RecvError, RecvAgain, RecvFrame,
             RecvOverrun
  <2>4. nobufs' \in BOOLEAN
      BY <1>4, SockTypes
         DEF Recv, RecvPaused, RecvNullSocket, RecvError, RecvAgain, RecvFrame,
             RecvOverrun, LoopTypeOK
  <2> QED
      BY <2>1, <2>2, <2>3, <2>4 DEF LoopTypeOK
<1>5. CASE HopPhase
    BY <1>5 DEF HopPhase, Goto, LoopTypeOK, sockVars, ctlVars
<1>6. CASE Quit
    BY <1>6 DEF Quit, Goto, LoopTypeOK, sockVars, ctlVars
<1>7. ASSUME NEW f \in Frame, Multicast(f)
      PROVE  LoopTypeOK'
  <2>1. UNCHANGED <<ctlVars, pc>>
      BY <1>7 DEF Multicast
  <2>2. queue' \in Seq(Frame)
      BY <1>7 DEF Multicast, LoopTypeOK
  <2>3. congested' \in BOOLEAN /\ nobufs' \in BOOLEAN
    <3>1. CASE Len(queue) < QUEUE_MAX /\ ~congested
        BY <1>7, <3>1 DEF Multicast, LoopTypeOK
    <3>2. CASE ~(Len(queue) < QUEUE_MAX /\ ~congested)
        BY <1>7, <3>2 DEF Multicast
    <3> QED
        BY <3>1, <3>2
  <2> QED
      BY <2>1, <2>2, <2>3 DEF LoopTypeOK, ctlVars
<1>8. CASE Clock
    BY <1>8 DEF Clock, LoopTypeOK, sockVars, ctlVars
<1>9. CASE Answer
    BY <1>9 DEF Answer, LoopTypeOK, sockVars, ctlVars
<1>10. CASE UNCHANGED vars
    BY <1>10 DEF vars, LoopTypeOK, sockVars, ctlVars
<1> QED
    BY <1>1, <1>2, <1>3, <1>4, <1>5, <1>6, <1>7, <1>8, <1>9, <1>10 DEF Next, Loop

-----------------------------------------------------------------------------
(* The table.                                                              *)

\* Whatever step the program or its surroundings take, to the table it is one
\* of its own operations, or nothing.
LEMMA TableStep ==
  ASSUME LoopTypeOK, ApInv, [Next]_vars
  PROVE  [ApNext]_apVars
<1>1. CASE Input
    BY <1>1 DEF Input, PressNothing, PressListKey, PressSpace, PressTab, PressQuit, ApNext
<1>2. CASE Draw
    BY <1>2 DEF Draw
<1>3. CASE Expire
  <2>1. CASE ExpireRemove
    <3>1. i \in Live
        BY <2>1, SizeAssumption DEF ExpireRemove, Live, LoopTypeOK, ApInv, ApTypeOK
    <3> QED
        BY <2>1, <3>1 DEF ExpireRemove, ApNext
  <2> QED
      BY <1>3, <2>1 DEF Expire, ExpireSkip, ExpireDone
<1>4. CASE Recv
  <2>1. CASE RecvFrame
    <3>1. Head(queue) \in Frame
        BY <2>1 DEF RecvFrame, LoopTypeOK
    <3> QED
        BY <2>1, <3>1 DEF RecvFrame, ApNext
  <2> QED
      BY <1>4, <2>1 DEF Recv, RecvPaused, RecvNullSocket, RecvError, RecvAgain,
                          RecvOverrun
<1>5. CASE HopPhase
    BY <1>5 DEF HopPhase
<1>6. CASE Quit
    BY <1>6 DEF Quit
<1>7. ASSUME NEW f \in Frame, Multicast(f)
      PROVE  UNCHANGED apVars
    BY <1>7 DEF Multicast
<1>8. CASE Clock
    BY <1>8 DEF Clock, ApNext
<1>9. CASE Answer
    BY <1>9 DEF Answer
<1>10. CASE UNCHANGED vars
    BY <1>10 DEF vars
<1> QED
    BY <1>1, <1>2, <1>3, <1>4, <1>5, <1>6, <1>7, <1>8, <1>9, <1>10 DEF Next, Loop

-----------------------------------------------------------------------------
(* The packet buffer.                                                      *)

\* Whatever step the program or its surroundings take, the packet buffer
\* stores a frame that the kernel has sent, or stays as it is.
LEMMA RingStep ==
  ASSUME LoopTypeOK, [Next]_vars
  PROVE  [RingNext]_ringVars
<1>1. CASE Input
    BY <1>1 DEF Input, PressNothing, PressListKey, PressSpace, PressTab, PressQuit
<1>2. CASE Recv
  <2>1. CASE RecvFrame
    <3>1. Head(queue) \in Frame
        BY <2>1 DEF RecvFrame, LoopTypeOK
    <3> QED
        BY <2>1, <3>1 DEF RecvFrame, RingNext
  <2> QED
      BY <1>2, <2>1 DEF Recv, RecvPaused, RecvNullSocket, RecvError, RecvAgain,
                          RecvOverrun
<1>3. CASE Draw \/ Expire \/ HopPhase \/ Quit
    BY <1>3 DEF Draw, Expire, HopPhase, Quit
<1>4. ASSUME NEW f \in Frame, Multicast(f)
      PROVE  UNCHANGED ringVars
    BY <1>4 DEF Multicast
<1>5. CASE Clock \/ Answer \/ UNCHANGED vars
    BY <1>5 DEF Clock, Answer, vars
<1> QED
    BY <1>1, <1>2, <1>3, <1>4, <1>5 DEF Next, Loop

-----------------------------------------------------------------------------
(* The expiry pass.                                                        *)

\* A removal at the index moves only the slots from the index on.
LEMMA RemovalSparesPassed ==
  ASSUME ApInv, i \in Nat, i < aps_count, Evict(i)
  PROVE  \A k \in Live' : k < i => k \in Live /\ aps'[k] = aps[k]
<1>1. aps_count \in 1 .. AP_CAPACITY /\ aps_count' = aps_count - 1
    BY SizeAssumption DEF ApInv, ApTypeOK, Evict
<1>2. \A k \in 0 .. aps_count - 2 : k \in Slots /\ k \in 0 .. aps_count - 1
    BY <1>1, SizeAssumption DEF Slots
<1>3. Live' = 0 .. aps_count - 2 /\ Live = 0 .. aps_count - 1
    BY <1>1 DEF Live
<1>4. \A k \in Slots : k < i => aps'[k] = aps[k]
    BY DEF Evict, Shifted, Slots
<1> QED
    BY <1>2, <1>3, <1>4

\* The pass keeps what it has achieved, step by step, while the clock ticks
\* and messages arrive.
LEMMA PassStep ==
  ASSUME LoopInv, LoopTypeOK', ApInv', [Next]_vars
  PROVE  pass_start' <= now' /\ PassSoFar' /\ PassRemovesAllStale'
<1> USE DEF LoopInv
<1>0. /\ now \in Nat /\ pass_start \in Nat /\ i \in Nat /\ EXPIRE \in Nat
      /\ \A k \in Live : aps[k].last_seen \in Nat
    BY SizeAssumption, TimeAssumption DEF LoopTypeOK, ApInv, ApTypeOK, ApRecord, Live, Slots
<1>1. CASE Draw
    BY <1>0, <1>1 DEF Draw, Goto, PassSoFar, PassRemovesAllStale, apVars, Live
<1>2. CASE Expire
  <2>0. UNCHANGED <<pass_start, now>> /\ pc = "expire"
      BY <1>2 DEF Expire, ExpireRemove, ExpireSkip, ExpireDone, Evict, apVars
  <2>1. CASE ExpireRemove
    <3>1. \A k \in Live' : k < i => k \in Live /\ aps'[k] = aps[k]
        BY <1>0, <2>1, RemovalSparesPassed DEF ExpireRemove
    <3> QED
        BY <2>0, <2>1, <3>1 DEF ExpireRemove, PassSoFar, PassRemovesAllStale
  <2>2. CASE ExpireSkip
    <3>1. UNCHANGED <<aps, aps_count, pc>> /\ i' = i + 1 /\ Live' = Live
        BY <2>2 DEF ExpireSkip, apVars, Live
    <3>2. pass_start - aps[i].last_seen <= EXPIRE
      <4>1. i \in Live
          BY <1>0, <2>2, SizeAssumption DEF ExpireSkip, Live, ApInv, ApTypeOK
      <4> QED
          BY <1>0, <2>2, <4>1 DEF ExpireSkip, Stale
    <3>3. \A k \in Live : k < i + 1 => k < i \/ k = i
        BY <1>0, SizeAssumption DEF Live, ApInv, ApTypeOK
    <3> QED
        BY <2>0, <3>1, <3>2, <3>3 DEF PassSoFar, PassRemovesAllStale
  <2>3. CASE ExpireDone
    <3>1. UNCHANGED <<aps, aps_count>> /\ pc' = "recv" /\ Live' = Live
        BY <2>3 DEF ExpireDone, Goto, apVars, Live
    <3>2. \A k \in Live : k < i
        BY <1>0, <2>3, SizeAssumption DEF ExpireDone, Live, ApInv, ApTypeOK
    <3> QED
        BY <2>0, <3>1, <3>2 DEF PassSoFar, PassRemovesAllStale
  <2> QED
      BY <1>2, <2>1, <2>2, <2>3 DEF Expire
<1>3. CASE Input \/ Recv \/ HopPhase \/ Quit
  <2>1. pc' \notin {"expire", "recv"}
      BY <1>3 DEF Input, PressNothing, PressListKey, PressSpace, PressTab, PressQuit,
                  Recv, RecvPaused, RecvNullSocket, RecvError, RecvAgain, RecvFrame,
                  RecvOverrun, HopPhase, Quit, Goto
  <2>2. UNCHANGED pass_start
      BY <1>3 DEF Input, PressNothing, PressListKey, PressSpace, PressTab, PressQuit,
                  Recv, HopPhase, Quit, ctlVars
  <2>3. UNCHANGED now
      BY <1>3 DEF Input, PressNothing, PressListKey, PressSpace, PressTab, PressQuit,
                  ListKey, KeyUp, KeyDown, KeyTop, KeyBottom, MoveCursor, SetView, SetAllViews,
                  Recv, RecvPaused, RecvNullSocket, RecvError, RecvAgain, RecvFrame,
                  RecvOverrun, HandleFrame, HopPhase, Quit, apVars
  <2> QED
      BY <2>1, <2>2, <2>3 DEF PassSoFar, PassRemovesAllStale
<1>4. ASSUME UNCHANGED <<aps, aps_count, pc, i, pass_start>>, now' \in {now, now + 1}
      PROVE  pass_start' <= now' /\ PassSoFar' /\ PassRemovesAllStale'
    BY <1>0, <1>4 DEF PassSoFar, PassRemovesAllStale, Live
<1>5. ASSUME NEW f \in Frame, Multicast(f)
      PROVE  UNCHANGED <<aps, aps_count, pc, i, pass_start, now>>
    BY <1>5 DEF Multicast, apVars, ctlVars
<1>6. CASE Clock
    BY <1>4, <1>6 DEF Clock, Tick, ctlVars
<1>7. CASE Answer
    BY <1>4, <1>7 DEF Answer, apVars, ctlVars
<1>8. CASE UNCHANGED vars
    BY <1>4, <1>8 DEF vars, apVars, ctlVars
<1> QED
    BY <1>1, <1>2, <1>3, <1>4, <1>5, <1>6, <1>7, <1>8 DEF Next, Loop

\* A step of the expiry loop, by what it does to the index and the end.
LEMMA ExpiryStep ==
  ASSUME LoopInv, Expire
  PROVE  /\ i <= aps_count
         /\ \/ pc' = "recv"
            \/ pc' = "expire" /\ i' <= aps_count' /\ aps_count' - i' < aps_count - i
<1>0. i \in Nat /\ aps_count \in Nat /\ pc = "expire" /\ i <= aps_count
    BY SizeAssumption DEF LoopInv, LoopTypeOK, ApInv, ApTypeOK, IndexInList, Expire
<1>1. CASE ExpireRemove
    BY <1>0, <1>1 DEF ExpireRemove, Evict
<1>2. CASE ExpireSkip
    BY <1>0, <1>2 DEF ExpireSkip, apVars
<1>3. CASE ExpireDone
    BY <1>0, <1>3 DEF ExpireDone, Goto
<1> QED
    BY <1>1, <1>2, <1>3 DEF Expire

\* The index stays in the list: while the expiry loop runs, nothing else moves
\* it or the end.
LEMMA IndexStep ==
  ASSUME LoopInv, [Next]_vars
  PROVE  IndexInList'
<1>1. CASE Expire
    BY <1>1, ExpiryStep DEF IndexInList
<1>2. CASE Draw
    BY <1>2, SizeAssumption DEF Draw, Goto, IndexInList, apVars, LoopInv, ApInv, ApTypeOK
<1>3. CASE Input \/ Recv \/ HopPhase \/ Quit
  <2>1. pc' # "expire"
      BY <1>3 DEF Input, PressNothing, PressListKey, PressSpace, PressTab, PressQuit,
                  Recv, RecvPaused, RecvNullSocket, RecvError, RecvAgain, RecvFrame,
                  RecvOverrun, HopPhase, Quit, Goto
  <2> QED
      BY <2>1 DEF IndexInList
<1>4. ASSUME UNCHANGED <<aps_count, pc, i>>
      PROVE  IndexInList'
    BY <1>4 DEF LoopInv, IndexInList
<1>5. ASSUME NEW f \in Frame, Multicast(f)
      PROVE  UNCHANGED <<aps_count, pc, i>>
    BY <1>5 DEF Multicast, apVars, ctlVars
<1>6. CASE Clock \/ Answer \/ UNCHANGED vars
    BY <1>4, <1>6 DEF Clock, Tick, Answer, vars, apVars, ctlVars
<1> QED
    BY <1>1, <1>2, <1>3, <1>4, <1>5, <1>6 DEF Next, Loop

-----------------------------------------------------------------------------
(* The hopper.                                                             *)

\* The next entry of the hop list is one of its entries.
LEMMA NextChannel ==
  ASSUME NEW c \in 0 .. CHANNELS_COUNT - 1
  PROVE  (c + 1) % CHANNELS_COUNT \in 0 .. CHANNELS_COUNT - 1
<1>1. CHANNELS_COUNT \in Nat \ {0} /\ c + 1 \in Nat
    BY SizeAssumption
<1> QED
    BY <1>1, ModWidth

\* Every channel number has a frequency, or -1.
LEMMA FreqType ==
  ASSUME NEW c \in Nat
  PROVE  channel_to_freq(c) \in Int
  BY DEF channel_to_freq

\* Whatever step the program or its surroundings take, to the hopper it is
\* one of its own operations, or nothing.
LEMMA HopperStep ==
  ASSUME [Next]_vars
  PROVE  [HopNext]_hopVars
<1>1. CASE Input
    BY <1>1 DEF Input, PressNothing, PressListKey, PressSpace, PressTab, PressQuit, HopNext
<1>2. CASE HopPhase
    BY <1>2 DEF HopPhase, NoHop, HopNext
<1>3. CASE Draw \/ Expire \/ Recv \/ Quit
    BY <1>3 DEF Draw, Expire, Recv, Quit
<1>4. ASSUME NEW f \in Frame, Multicast(f)
      PROVE  UNCHANGED hopVars
    BY <1>4 DEF Multicast
<1>5. CASE Clock \/ UNCHANGED vars
    BY <1>5 DEF Clock, vars
<1>6. CASE Answer
    BY <1>6 DEF Answer, HopNext
<1> QED
    BY <1>1, <1>2, <1>3, <1>4, <1>5, <1>6 DEF Next, Loop

\* The hopper keeps its types.
LEMMA HopTypeStep ==
  ASSUME HopTypeOK, [HopNext]_hopVars
  PROVE  HopTypeOK'
<1> USE HopAssumption DEF HopTypeOK
<1>1. CASE ToggleHopping
    BY <1>1 DEF ToggleHopping
<1>2. CASE HopStarts
    BY <1>2 DEF HopStarts, set_channel
<1>3. CASE Nl80211
  <2>1. channel_to_freq(current_channel) \in Int
      BY FreqType DEF current_channel
  <2> QED
      BY <1>3, <2>1 DEF Nl80211
<1>4. CASE HopEnds
  <2>1. channel' \in 0 .. CHANNELS_COUNT - 1
      BY <1>4, NextChannel DEF HopEnds
  <2> QED
      BY <1>4, <2>1 DEF HopEnds
<1>5. CASE CountDown
    BY <1>5 DEF CountDown
<1>6. CASE UNCHANGED hopVars
    BY <1>6 DEF hopVars
<1> QED
    BY <1>1, <1>2, <1>3, <1>4, <1>5, <1>6 DEF HopNext

-----------------------------------------------------------------------------
(* Theorems.                                                               *)

\* The invariant holds when main enters its loop.
LEMMA LoopInitInv ==
  Init => LoopInv
<1> SUFFICES ASSUME Init
             PROVE  LoopInv
    OBVIOUS
<1>1. ApInv
    BY InitInv DEF Init
<1>2. LoopTypeOK
  <2>1. paused \in BOOLEAN /\ congested \in BOOLEAN /\ nobufs \in BOOLEAN
      BY DEF Init
  <2>2. /\ pc = "input" /\ i \in Nat /\ sock \in {"open", "null"}
        /\ queue \in Seq(Frame) /\ pass_start \in Nat
      BY TimeAssumption DEF Init
  <2> QED
      BY <2>1, <2>2 DEF LoopTypeOK
<1>3. pass_start <= now /\ PassSoFar /\ PassRemovesAllStale /\ IndexInList
    BY TimeAssumption DEF Init, ApInit, PassSoFar, PassRemovesAllStale, IndexInList
<1> QED
    BY <1>1, <1>2, <1>3 DEF LoopInv

\* Every step keeps it.
LEMMA LoopStepInv ==
  LoopInv /\ [Next]_vars => LoopInv'
<1> SUFFICES ASSUME LoopInv, [Next]_vars
             PROVE  LoopInv'
    OBVIOUS
<1>1. ApInv'
    BY TableStep, NextInv DEF LoopInv
<1>2. LoopTypeOK'
    BY TypeStep DEF LoopInv, ApInv, ApTypeOK
<1>3. pass_start' <= now' /\ PassSoFar' /\ PassRemovesAllStale'
    BY <1>1, <1>2, PassStep
<1>4. IndexInList'
    BY IndexStep
<1> QED
    BY <1>1, <1>2, <1>3, <1>4 DEF LoopInv

\* It holds throughout.
LEMMA LoopAlways ==
  Spec => []LoopInv
  BY LoopInitInv, LoopStepInv, PTL DEF Spec

\* The loop's own variables keep their types; its unsigned index never goes
\* below zero in between iterations.
THEOREM LoopTypes ==
  Spec => []LoopTypeOK
<1>1. LoopInv => LoopTypeOK
    BY DEF LoopInv
<1> QED
    BY <1>1, LoopAlways, PTL

\* The hopper's variables keep their types in every run of the program: the
\* timer, decremented below zero and then overwritten, never holds the value
\* it wraps to, and the index stays in the hop list.
THEOREM HopTypes ==
  Spec => []HopTypeOK
<1>1. Init => HopTypeOK
  <2>1. \A c \in 0 .. CHANNELS_COUNT - 1 : channel_to_freq(channels[c]) \in Int
      BY FreqType, HopAssumption
  <2>2. ASSUME HopInit
        PROVE  hopping \in BOOLEAN
      BY <2>2 DEF HopInit
  <2>3. ASSUME HopInit
        PROVE  /\ channel \in 0 .. CHANNELS_COUNT - 1 /\ hop_timer \in 0 .. HOP_TIME
               /\ call = "none" /\ tuned \in Int
    <3>1. 0 \in 0 .. CHANNELS_COUNT - 1
        BY SizeAssumption
    <3>2. tuned \in {BootFreq, channel_to_freq(channels[0])}
        BY <2>3 DEF HopInit
    <3>3. tuned \in Int
        BY <2>1, <3>1, <3>2, HopAssumption
    <3> QED
        BY <2>3, <3>1, <3>3, HopAssumption DEF HopInit
  <2> QED
      BY <2>2, <2>3 DEF Init, HopTypeOK
<1>2. HopTypeOK /\ [Next]_vars => HopTypeOK'
    BY HopperStep, HopTypeStep
<1> QED
    BY <1>1, <1>2, PTL DEF Spec

\* The program implements the table's specification: it removes only stale
\* entries in use, and hands it only frames that the kernel has sent.
THEOREM LoopImplementsApTable ==
  Spec => ImplementsApTable
<1>1. LoopInv /\ [Next]_vars => [ApNext]_apVars
    BY TableStep DEF LoopInv
<1>2. Init => ApInit
    BY DEF Init
<1> QED
    BY <1>1, <1>2, LoopAlways, PTL DEF Spec, ImplementsApTable, ApSpec

\* When an expiry pass is over, no entry is left that was stale when it began.
THEOREM ExpiryMissesNobody ==
  Spec => []PassRemovesAllStale
<1>1. LoopInv => PassRemovesAllStale
    BY DEF LoopInv
<1> QED
    BY <1>1, LoopAlways, PTL

\* The expiry loop cannot go round for ever: each of its steps but the last
\* shortens the way from its index to the end of the list.
THEOREM ExpiryEnds ==
  Spec => ExpiryAdvances
<1>1. LoopInv /\ [Next]_vars =>
        [Expire => /\ i <= aps_count
                   /\ pc' = "recv" \/ aps_count' - i' < aps_count - i]_vars
    BY ExpiryStep
<1> QED
    BY <1>1, LoopAlways, PTL DEF Spec, ExpiryAdvances

\* In every run of the program, the unchecked appends of handle_frame_info
\* leave their arrays only if more addresses announce themselves, or more
\* frequencies are reported, than the arrays have slots.
THEOREM ProgramAppendsFit ==
  Spec => []AppendsFit
<1>1. Spec => ApSpec
    BY LoopImplementsApTable DEF ImplementsApTable
<1> QED
    BY <1>1, AppendsStayInside, PTL

\* What the program knows of the access points is the directory of what it
\* was told: messages lost in the socket and the pause key only mean that it
\* was told less, and the expiry loop that it forgets.
THEOREM ProgramImplementsDirectory ==
  Spec => ImplementsDirectory
<1>1. Spec => ApSpec
    BY LoopImplementsApTable DEF ImplementsApTable
<1> QED
    BY <1>1, TableImplementsDirectory, PTL

\* No access point is listed twice, and the cursor stays in the list, in
\* every run of the program.
THEOREM ProgramListIsSound ==
  Spec => [](UniqueMacs /\ CursorInList)
<1>1. Spec => ApSpec
    BY LoopImplementsApTable DEF ImplementsApTable
<1> QED
    BY <1>1, MacsAreUnique, CursorStaysInList, PTL

\* The program uses the packet buffer as the buffer's specification allows.
LEMMA LoopImplementsRing ==
  Spec => RingSpec
<1>1. LoopInv /\ [Next]_vars => [RingNext]_ringVars
    BY RingStep DEF LoopInv
<1>2. Init => RingInit
    BY DEF Init
<1> QED
    BY <1>1, <1>2, LoopAlways, PTL DEF Spec, RingSpec

\* The packet window shows the frames received most recently, in every run of
\* the program: pausing, hopping and receive errors reorder and repeat none.
THEOREM ProgramShowsRecentPackets ==
  Spec => ImplementsRecentPackets
  BY LoopImplementsRing, RingShowsRecent, PTL

\* A frame that is not to be shown is only in the slot written next, and a row
\* that has a label for its frame tells the frame's kind, in every run of the
\* program.
THEOREM ProgramRowsAreSound ==
  Spec => [](UnkeptOnlyAtIndex /\ RowsTellKindsApart)
  BY LoopImplementsRing, OnlyKeptBehind, RowsAreReadApart, PTL

\* The program hops as the hopper's specification allows: a turn of its loop
\* that a receive error cuts short never leaves the hopper between two steps.
THEOREM LoopImplementsHopper ==
  Spec => HopSpec
<1>1. [Next]_vars => [HopNext]_hopVars
    BY HopperStep
<1>2. Init => HopInit
    BY DEF Init
<1> QED
    BY <1>1, <1>2, PTL DEF Spec, HopSpec
=============================================================================
