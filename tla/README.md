# Verification of the WiFi sniffer

TLA+ modules for the WiFi sniffer of this repository: a kernel module that
captures 802.11 frames on a monitor interface and multicasts them over generic
netlink, and a single-threaded user program that keeps a table of access points,
a buffer of recent packets and a channel hopper, and draws them with ncurses.
TLC checks the models on small instances; TLAPS proves the main invariants for
every value of the constants.

## 1. The system

| Part | Source | State | Operations |
|---|---|---|---|
| Access point table | `user/src/ctx.*`, `main.c` | `ctx.aps`, `aps_count`, `scroll` | `get_ap`; counting, appending and announcing in `handle_frame_info`; removal in the expiry loop; keys `k j K J h l H L` |
| Packet buffer | `main.c`, `ui.c` | `packet_buf`, `packet_buf_index`, `packets` | the store, early returns and advance of `handle_frame_info`; the walk of `draw_packet_win` |
| Channel hopper | `channel_hop.c`, end of `main`'s loop | `channel`, `hopping`, `hop_timer`, the radio's frequency | `channel_init`, `next_channel`, `set_channel`, the tab key |
| Main loop | `main.c` | place in the loop, `paused`, the socket | input, draw, expire, receive, hop, quit |
| Netlink receive path | `main.c` (`init_netlink_socket`, `frame_handler`) | the socket's queue and error state | receive one message; overrun |
| IE iterator | `ie_iter.c` | cursor in a copy of the body | `ie_iter`, `ie_iter_next`, `iter_packet_ies` |
| Dashboard | `ui.c` | none of its own | `draw_ui` and its four windows |
| Labels | `ft_parser.c`, `action_frame_parser.c` | none | code to string |
| Kernel module | `kern/sniffer_main.c` | `real_dev`, registrations | `sniffer_init`, `sniffer_rx_handler`, `sniffer_clean` |
| Multicast | `kern/sniffer_netlink.c` | the genl family | `send_to_userspace` |
| Scripts | `run.sh`, `kern/sniffer_start.sh`, `kern/sniffer_stop.sh` | interfaces, loaded module | start, run, stop |

How they interact: the kernel's receive path calls `sniffer_rx_handler` for each
frame, which decodes it and multicasts it. The message waits in the socket of the
user program until `main` calls `nl_recvmsgs_default`, which runs `frame_handler`
and `handle_frame_info` as callbacks; these write to the table and the buffer.
`draw_ui` reads both. The hopper retunes the radio from which the frames come.

What is hard here: the user program has one thread, but time passes and messages
arrive between any two of its steps; entries are removed by shifting the array
under the index of the running loop; a slot is used again without being cleared;
two arrays are appended to without a check; a frame is stored before it is known
whether it should be; the socket drops messages and reports that once; and two
results that may be NULL are used. In the kernel the rx handler runs on any
processor while the module is being loaded or unloaded, sends addresses that it
never wrote, and cuts lengths to eight bits. The elements of a frame are walked by
lengths that come from the frame, which may have been cut. Tuning the radio blocks
the user program until nl80211 answers. Any command of the scripts may fail, and a
signal may come between any two. `PROJECT.json` lists the hazards line by line.

## 2. The modules

| Module | Models |
|---|---|
| `FrameTypes` | the frame types and management subtypes, and the tests on them |
| `SsidName` | when a name found in a frame replaces the stored one |
| `SnifferParams` | sizes, integer widths, and the set of frames the kernel may send, with the assumptions on them |
| `ApTable` | the access point table and every operation on it, in any order |
| `ApDirectory` | what the table promises: a partial map from addresses to entries |
| `PacketRing` | the packet buffer and what each row of the window shows |
| `RecentPackets` | what the window promises: the packets kept last, newest first |
| `FrameLabels` | the labels of types, subtypes, directions, action categories and actions, with an underscore for a blank, which no label has of its own |
| `PacketWindow` | what a row of the packet window says, over `PacketRing` and `FrameLabels` |
| `ChannelHop` | the hopper, `set_channel` as a call that waits for its answer, and the radio |
| `MainLoop` | the program: `ApTable`, `PacketRing` and `ChannelHop` in the order of `main`'s loop, with the socket, the clock and nl80211 |
| `IeIter` | the walk over the information elements of a body, octet by octet |
| `FrameDecode` | what `sniffer_rx_handler` makes of a capture, and the addressing rules of 802.11 for reference |
| `Reception` | from a capture to the table: `FrameDecode`, `frame_handler` and `ApTable` composed |
| `SnifferKern` | the kernel module: loading, unloading and the rx handler on each processor |
| `RunScript` | `run.sh`, `sniffer_start.sh` and `sniffer_stop.sh`, with failing commands and signals |
| `MCFrames`, `MCApTable`, `MCReception`, `MCPacketRing`, `MCMainLoop`, `MCIeIter`, `MCSnifferKern` | instances for TLC |
| `ApTableProofs`, `ApDirectoryProofs`, `ReceptionProofs`, `PacketRingProofs`, `IeIterProofs`, `MainLoopProofs`, `SnifferKernProofs`, `RunScriptProofs` | proofs |

`MainLoop` extends `ApTable`, `PacketRing` and `ChannelHop`, which share
`SnifferParams`. `IeIter` is the detail behind `ApTable`'s `iter_packet_ies`: both
store a name with `SsidName!Renamed`, and `NameIsTheOneSent` is what `ApTable`
takes for granted. `SnifferKern` and `Reception` both use `FrameDecode`: the former
for when a handler runs, the latter for what becomes of its message in the table.
`MainLoop` receives any frame of the constant `Frame`; `Reception` derives these
frames from captures. A message that is lost between the two
is a capture that is never delivered. `RunScript` stands alone.

State variables have the names of the C variables. In `ApTable`, `aps` is the
whole array, the unused slots included: what they still hold matters, because a
new access point starts from it. An entry's `channel_freqs` is the first
`freq_num` elements of the C array, and `ssid` the first `ssid_len` octets.
A frame is a record of the fields of `hdr_info`, the captured frequency, the name
in its SSID element and the action's category and code.

Neither `aps` nor `channel_freqs` is appended to with a check. C gives no meaning to
what follows an append past the end, so the model ends there: `Overruns(f)` says
which frames lead to one, `HandleFrame` leaves them out, and `MainLoop` has a step
for them (`RecvOverrun`) after which nothing happens any more.

`Reception` takes captures as they come: an announcement may carry the flags of the
distribution system, which neither program looks at, and its body may be cut by the
`u8` it goes through, also inside its SSID element. `Names(h)` is what the walk may
then take for the name: what is left of it, and any octets after that. The only
thing assumed of captures is that a management frame has three addresses, as every
one has (`CaptureAssumption`). An auxiliary variable, `misread`, holds the addresses
of the entries that a flagged announcement has made or changed.

`HandleFrame(f)` is all that `handle_frame_info` does to the table, `StoreFrame(f)`
all that it does to the buffer; `MainLoop!RecvFrame` does both in one step, as the
callback does. The expiry loop takes one step per slot, since it reads the clock
for each. Everything else that `main` does between two reads of the clock, the
keyboard or the socket is one step, except `set_channel`: `HopStarts` sends the
request, `Nl80211` answers, and `HopEnds` goes on, while the clock ticks and frames
are queued.

In `SnifferKern` a handler takes two steps, decoding and sending, so that the
steps of `sniffer_clean` come in between; a capture is a record of the lengths,
flags and addresses the handler looks at. Octets that are not there (the missing
addresses of short control frames, the BSSID that `parse_fromtods` does not write,
what lies behind the iterator's block) are a choice among all values.

External parts, modelled from how the code uses them: the clock, the socket
(a bounded queue; with the queue full a message is lost, the socket is congested
until the reader has emptied it, and one ENOBUFS is reported per congestion), and
nl80211 (which retunes the radio or refuses, and answers); `netdev_rx_handler_unregister`, which
returns when no handler runs any more; and the signals. Ctrl-C reaches every
process of the terminal; ncurses ends the user program on it with an ordinary
exit, after which bash continues; a signal without a trap ends bash; during the
clean-up a trapped SIGINT starts it afresh and a trapped SIGTERM runs it once more.
The kernel lets `iw` wait for the last reference to the interface it deletes; while
it waits it is not killed.

In `RunScript` any command may fail at any time, the clean-up's own included.
`failed` (auxiliary) holds the commands of the clean-up that failed when last tried;
`Undone` says that what is not as before the first start is the work of one of them.

## 3. The runs

| Run | Checks |
|---|---|
| `ap_traffic` | `UniqueMacs`, `EntriesAreOnAir`, `NamesAreOwn`, `ImplementsDirectory`, `TrafficCountedForTheAp`: captures of two access points, a client and a bridge, among them bodies of 256 octets (the name is gone) and of 271 (cut inside the name), an announcement with both DS flags, a broken radiotap header (frequency 0), a PS-Poll with two addresses and a frame cut in its header; up to three addresses in two slots with room for one frequency each, so that both appends find no room; counters modulo 2, so that they wrap |
| `ap_browse` | `ApTypeOK`, `AppendsFit`, `CursorInList`: three access points in three slots, one of them on two channels, with two slots for frequencies; one row, every key, a cursor of one bit, so that `j` and `J` wrap |
| `packet_ring` | `RingTypeOK`, `UnkeptOnlyAtIndex`, `RowsTellKindsApart`, `ImplementsRecentPackets`: a ring of three, five frames in any order and any number of wraps, and each of over 200 kinds of frame put into each of these rings |
| `loop` | `LoopTypeOK`, `HopTypeOK`, `PassRemovesAllStale`, `ImplementsApTable`, `ExpiryAdvances`, and under fairness `ComesRound`, `HoppingNeverStarves`, `RadioVisitsAll`: three access points in two slots, two of which announce themselves by probe responses only and so are never stamped, a queue of one message, so that it overruns, pausing, hopping with calls that fail, are refused or acknowledged, quitting, and the clock ticking inside an expiry pass |
| `ie_walk` | `NameIsTheOneSent`, `WholeListReadInside`, `WalkShrinks`, `WalkEnds`: all lists of up to two elements over five values, up to four octets missing, four old names |
| `kern_life` | `KernTypeOK`, `HandlerHasModule`, `NoSendAfterFree`, `UnloadEnds`: two processors, five captures (an acknowledgement with one address, a bridged frame, a cut one, one with a broken radiotap header), any number of loads |
| `run_clean` | `CleanedUp`, `ModuleHasDevice`, `ClosingRestores`: any number of runs, every command failing or not, four signals |

The other runs refute what the documentation, a comment or the screen says, each
with an entry under "findings":

| Run | Shows |
|---|---|
| `draw_null` | drawing a beacon whose access point has expired dereferences NULL |
| `fresh_counters` | a new entry inherits the counters of its slot |
| `kern_addresses` | source and destination are wrong for frames to or from the distribution system |
| `ie_cut` | a body cut inside its SSID element yields a name nobody sent |
| `run_closed` | SIGTERM while the program is open leaves the module loaded, although no command of the clean-up has failed |

Bounds. The clock stops at `MaxTime`. In `ap_browse`, with `EXPIRE` = 1, that leaves
time for an entry to come, expire, and its slot to be used again. In `ap_traffic`
and `loop`, `EXPIRE` is 0 and the clock has two values: a stamped entry is stale once
the clock has ticked, one that was never stamped at once, so that entries come and
go any number of times. Widths are small enough that the cursor and, in `ap_traffic`
and `ap_browse`, every counter wrap; `loop` has `U32` = 1, counters without a value,
since nothing it checks depends on them. No capture of `ap_traffic` is sent again:
retries are in the table's definitions and covered by the proofs. All frames, slots
and keys of a run may occur any number of times.

No run assumes that the arrays are large enough. Where an append finds no room the
model stops, so that the other properties speak of the program up to that point;
`AppendsFit` says that this point is reached only when there is more to store than
there are slots. In `ap_browse` there are exactly as many access points and
frequencies as slots, so that one address or frequency stored twice would refute it.

`U8` is 20 in `ie_walk`, so that bodies just above it lose their elements; element
values of at most two octets are enough to be cut in the middle, in the length
octet and in front of it. Four signals hit the start, the clean-up twice, and a
later run. In `packet_ring` a constraint (`MCUsualOnly`) stops at a ring that holds
one of the many kinds: its rows are checked, but nothing follows it; what a row
says depends on its own slot only, and the order of slots on no kind but those
that are not kept. In `ap_traffic` the eight-bit length is 256 as in the code, so
that a body of 256 octets arrives as none. Deadlock is not checked in `MainLoop`'s
and `IeIter`'s runs, where the program and the walk end, nor in `RunScript`'s, where
`iw` may wait for the module for ever.

Fairness. `FairSpec` assumes weak fairness of the program's loop as a whole, since
the operating system runs the process, and of nl80211's answer, since the kernel
acknowledges every request before `sendmsg` returns; should it not, `nl_wait_for_ack`
blocks the only thread for ever. Neither the clock nor the kernel's multicasts nor
the user are assumed to do anything, and nl80211 may refuse every request:
`RadioVisitsAll` is about the runs in which it does not go on doing so. `HoppingNeverStarves`
holds because an error is reported at most once between two receives that empty
the queue. In `SnifferKern` a running handler comes to its end (it runs in a
softirq and does not block) and so does `rmmod`; nothing is assumed of frames or
of loading. In `RunScript` every command ends, but an `iw` that waits for the module and the user
program need not.

## 4. Behaviour worth knowing

Met while modelling, part of the models as it is in the code, and without a run of
its own:

- An access point that enters by a probe response is not stamped (`main.c:224`); it
  has the stamp left in its slot or none, and the next expiry pass may remove it.
- A name that is the beginning of the stored one is taken for unchanged, since
  `memcmp` compares the new name's length only (`ie_iter.c:20`).
- A beacon is stored at `packet_buf_index` and shown in the last row until the next
  frame overwrites it (`main.c:183`), although `README.md:67` leaves beacons out.
- `next_channel` tunes and then advances (`channel_hop.c:27`): the first hop stays on
  the channel, and from then on the stats window shows the channel after the one
  the radio is on.
- `j` and `J` count the two border rows of the window as rows of the list
  (`main.c:90`, `main.c:96`), so that the last two entries of a long list are never
  shown.
- `send_to_userspace` takes the body's length as a `u8` (`sniffer_netlink.c:25`): a
  body of 256 octets or more is cut to its length modulo 256.
  A beacon whose length is just above 256 loses its name and is listed as hidden;
  one that is cut inside its SSID element gets a name of which only the beginning
  was sent (`ie_cut`). `NamesAreOwn` says that the beginning is always its own.
- With both DS flags set the BSSID is never written (`sniffer_main.c:98`), and
  `handle_frame_info` does not look at the flags of a management frame
  (`main.c:209`): a beacon or probe response with both flags is listed under
  whatever address was in memory, and one with a single flag under another of its
  addresses. 802.11 sends no such frame, but nothing here keeps it out.
  `EntriesAreOnAir` says that it is the only way in for a wrong address.
- `parse_fromtods` takes addresses for one another (`kern_addresses`), and
  `handle_frame_info` looks for the access point under `src_mac` and `dst_mac`,
  where that mistake has put it. The counters are right (`TrafficIsCounted`);
  correcting only one of the two would break them.
- A radiotap header that cannot be walked gives frequency 0, which is stored like
  any other (`sniffer_main.c:58`, `main.c:231`). `channel_freqs` has seven slots, one
  for each channel of the hop list. An access point heard on all seven and then
  with frequency 0, or on the channel that the interface had before the first hop,
  makes the eighth append, which is past the array. `freq_num` is never reset, so
  that an entry inherits the frequencies of the one before it in its slot and comes
  to the limit sooner. The eight frequencies need no error of bookkeeping, which
  `AppendsFit` excludes: it takes no more than the code's own constants.
- `sniffer_stop.sh` goes on after a failure. If `rmmod` fails, `mon0` is deleted under
  the loaded module, `iw` waits for the module's reference, and NetworkManager is not
  started again (`sniffer_stop.sh:4`, `sniffer_stop.sh:8`).
- A run that is started while there is no default route, for instance because a
  signal ended the one before, has an empty `main_interface` (`run.sh:3`) and
  cannot bring the interface up again (`sniffer_stop.sh:12`).
- The codes of fast BSS transition actions are counted from 0
  (`action_frame_parser.h:57`), while 802.11 counts them from 1.
- With the cursor one past the last entry (`CursorInList` allows it) the list window
  is empty although there are entries (`ui.c:28`).
- Entries expire while receiving is paused (`main.c:126` runs in either case).

## 5. The proofs

`ApTableProofs` proves, from `SizeAssumption`, `NameAssumption`,
`FrameAssumption` and `TimeAssumption`, for `ApSpec`: `TableTypes`,
`AppendsStayInside`, `MacsAreUnique` and `CursorStaysInList`.

None of these is inductive alone. `ApInv` joins the type invariant, `LiveMacs`
(slots in use bear addresses that announcements came under), `UniqueMacs`, the
distinctness of every slot's frequencies (`NoRepeats`) and `CursorInList`.
`AppendsStayInside` makes no assumption on how many addresses or frequencies there
are; where there are no more than slots, there is room (`RoomLeft`) by counting:
the addresses in use are an injection into the announcing addresses other than the
new one's (`RoomForNew`), which needs `UniqueMacs` and `LiveMacs`; the frequencies
likewise (`DistinctFit`). A removal is treated as a renaming of slots that is one-to-one on
the slots that stay in use (`EvictInv`).

`ApDirectoryProofs` proves `TableImplementsDirectory`: under the mapping
`Directory`, the array implements `ApDirectory`, a partial map from addresses to
entries. By `UniqueMacs` an address has at most one slot in use that bears it, so
that the linear search can be replaced by the set of those slots (`DirectoryIs`).
Each operation is then a step of the map or none: traffic counts for the entries
it names (`CountedCounts`, where an address that is both source and destination
has a retry counted twice), an announcement changes one entry or adds one (`KnownHears`,
`NewHears`), a removal shifts all entries behind it and takes one address out
(`EvictForgets`), and the keys change views only (`KeysKeepDirectory`).

`ReceptionProofs` proves `ListIsOnAir`, `ListNamesAreOwn`, `TrafficIsCounted` and
`AirImplementsDirectory` for `AirSpec`, from the same assumptions and
`CaptureAssumption`. Every step from the air is one of `ApTable`'s
(`AirStepIsApStep`), so that `ApInv` holds. `AirInv` adds `Own`: every slot in use
bears an address and a name that were announced, as far as the name was received,
or its address is in `misread`. It says nothing of the other slots, whose name may
be anyone's; `HandleNew` restores it by writing both (`DeliverOwn`), and a removal
moves entries whole (`EvictOwn`), taking one address out of `misread`, which no other
slot bears since addresses are unique. That
an announcement arrives under its own address is `AnnouncedAddress`. Traffic is
counted once because addresses are unique (`DeliverCounts`).

`PacketRingProofs` proves `RingTypes`, `OnlyKeptBehind` and the refinement
`RingShowsRecent`: the buffer, for every size of at least two, implements
`RecentPackets`. The remainder by which the index advances is spelled out once
(`NextSlot`); the refinement then compares, row by row, the slot a row shows before
and after a kept frame. `RowsAreReadApart` proves `RowsTellKindsApart` for every
set of frames, from `CodeAssumption` (types, subtypes and codes are numbers): no
table of labels repeats itself and the tables of subtypes share no label
(`SubtypeTables`), so that a label tells its code (`SubtypeTells`, `CategoryTells`,
`ActionTells`); rows that read alike have as many parts, and "Broadcast", with
which one shape of row begins, is no frame's label (`SameTextSameType`).

`IeIterProofs` proves `WalkTakesNames`, `WholeListStaysInside` and `WalkAdvances` for `IeSpec`, for every list of elements, every number of missing
octets, every old name and every width of the length, from `IeAssumption` (what is
sent and stored is made of octets). `IeInv` says where the walk is: at `cur` the
value of some element of the list begins, whose id has been read, and whose length
too unless the block ends in front of it; up to there the name is what the elements
before make of the old one (`InElement`). That an element is found at its place
among the octets (`SentAt`) and what a list makes of a name (`NameSteps`) are facts
about lists of every length, proved by induction. The library's induction theorems
take an operator, which the provers cannot instantiate; `NatSets` states induction
for sets of numbers instead and follows from the library's `WFMin`. Two cases
deserve a look: a block of two octets is taken for empty (`FirstInv`), which is
harmless because an SSID element without a value changes no name; and a length
that is read from behind the block always ends the walk (`ElementInv`).

`MainLoopProofs` proves `LoopTypes`, `HopTypes`, `LoopImplementsApTable`,
`LoopImplementsHopper`, `ExpiryMissesNobody`, `ExpiryEnds` and the theorems named
after the program for `Spec`. `LoopInv` adds to `ApInv` what the expiry loop
has achieved so far: the slots below its index are not stale as of the beginning
of the pass (`PassSoFar`), which a removal preserves because it moves no slot
below the index, and that the index does not pass the end of the list. A step of
the program is a step of the table, of the packet buffer and of the hopper, or
leaves them alone (`TableStep`, `RingStep`, `HopperStep`); what is proved of these
parts therefore holds of the program: `ProgramAppendsFit`, `ProgramListIsSound`,
`ProgramImplementsDirectory`, `ProgramShowsRecentPackets`, `ProgramRowsAreSound`.

`SnifferKernProofs` proves `KernTypes`, `HandlerAlwaysHasModule` and
`FamilyOutlivesHandlers` for any number of processors; `StageHolds` says what each stage of loading and
unloading has in place. `RunScriptProofs` proves `RunsCleanUp` and
`DeviceOutlivesModule` for any number of signals; `Progress` says what the clean-up
has achieved by each command: what it is past is undone, or its command failed.

Every safety and action property of the passing runs is proved. Only
model-checked are the liveness properties (`ComesRound`, `HoppingNeverStarves`,
`RadioVisitsAll`, `UnloadEnds`, `WalkEnds`, `ClosingRestores`): fairness speaks of
ENABLED, which is out of the prover's reach. For two of them the measure that
makes them true is proved: `WalkAdvances` for `WalkEnds`, and `ExpiryEnds` for the
only loop inside the loop that `ComesRound` is about.

## 6. Plan

Done: the modules of section 2, their abstract specifications, and the proofs of
section 5. Left:

1. Proofs: the measures behind the other liveness properties.
2. The size of `ap.ssid` and its terminator.
3. `init_netlink_socket` step by step, against a family that is missing or freed.

## 7. Not modelled

The layout and colours of the windows, and the list, stats and usage windows, which
print variables and a fixed text; `uthash.h` (included nowhere), which is two fifths
of the repository's lines; the build files and `compile_commands.json`. `rssi` and
`channel_flags` are used nowhere, and `frame_t_to_string` is called nowhere. Memory
is not modelled: the sockets leaked on the error paths of `init_netlink_socket` and
`set_channel`, the octets behind a body of an action frame that is too short
(`main.c:236`), and the size of `ap.ssid`. A terminal without colours (`main.c:219`)
is outside the models, as colours are.
