# A specification of the XDP tutorial

This directory models the programs of the XDP tutorial in TLA+: the AF_XDP
socket application, the commands that attach programs and pin their maps, the
programs that count and the ones that read their counters, the packet sampler,
the XDP programs of the packet lessons, and the commands that tell them where to
redirect. TLC checks the models on small instances. TLAPS proves the safety properties
that hold for every size: that the AF_XDP application neither loses nor shares a
packet buffer, that packets keep valid checksums and their payload, that forced
loads and pinned maps behave whatever commands are given, that what is counted
is reported at most once, that no sampled packet vanishes, and that redirection
works once it was set up.

## 1. The system

The repository is a set of small programs that meet in the kernel. XDP programs
run on a network interface's receive path; user-space commands attach them to
the interface's hook, pin their maps in `/sys/fs/bpf/<ifname>`, and read or fill
those maps. Nothing locks anything: commands, programs and the kernel interleave
at every system call.

| component | state it keeps | operations | talks to |
|---|---|---|---|
| AF_XDP socket (`advanced03-AF_XDP/af_xdp_user.c`) | stack of free UMEM frames, four rings, cached indices, `outstanding_tx`, `global_exit` | stuff FILL, receive a batch, answer or drop, kick and reap transmissions, SIGINT | kernel and driver, over the rings |
| its statistics thread (same file) | previous counters | poll, print | the receive thread's counters |
| attach and detach (`common/common_user_bpf_xdp.c`, and the copies of the first two lessons) | the interface's hook, one per mode | attach, forced replacement, detach | kernel |
| loaders and pinned maps (`basic-solutions/xdp_loader.c`, `basic01`, `basic02`, `basic04`) | the pinned file | unpin, pin, reuse | `xdp_stats`, later loaders |
| command line (`common/common_params.c`) | the configuration | parse | every command |
| `xdp_stats` (`basic-solutions`, `basic04`) | descriptor and ID of the pinned map, last two readings | open, poll, notice a new map | pinned file, per-CPU counters |
| `xdp_load_and_stats` (`basic03`) | last two readings | attach, check the map, poll | per-CPU counters |
| counting programs (`common/xdp_stats_kern.h`, `basic03`, `basic04`) | per-CPU counters | add | their readers |
| exception counters (`tracing01`) | a per-CPU hash with an entry for each interface | count, find keys, print totals | a tracepoint |
| monitor (`tracing02`) | per-CPU counters, two readings that are swapped | count at eight tracepoints, collect, print | kernel tracepoints |
| sampler (`tracing04`) | a perf ring per CPU, a pcap file | sample, poll, write, detach | kernel |
| packet helpers (`common/parsing_helpers.h`, `rewrite_helpers.h`) | a cursor into a packet | parse, pop and push VLAN tags, swap addresses | the programs of packet01-03 |
| echo and router (`packet-solutions/xdp_prog_kern_03.c`) | - | answer pings, forward | routing table |
| redirect (same file, `xdp_prog_user.c`) | `tx_port`, `redirect_params` | fill the two maps, one after the other; redirect | pinned maps, the router |
| test environments (`testenv/testenv.sh`) | state directory, namespaces, links | setup, teardown, reset, load, unload, redirect | all of the above |

What is hard in it, and the properties that make each part correct:

* *AF_XDP socket.* Two parties move the same frames through four lock-free
  rings, each working with a stale copy of the other's index; the thread blocks
  in `poll()`. A frame must never be at two places, nor vanish, the free stack
  must not overflow, no ring may be overrun, and the receive path must not run
  dry, because it is restocked only after a packet was received.
* *Attach, pin, reuse.* Each is several system calls; commands overlap, fail
  between two of them or are killed. Without `--force` a loader may replace
  nothing, with it nothing may stand in the way, and the pinned map should be the
  one the attached program counts in. `af_xdp_user` replaces what it finds, forced
  or not (section 5).
* *Readers of counters.* They copy words that other CPUs go on changing, from a
  file that others replace, with lookups that may fail. Differences are unsigned:
  a reading that went back would print as a huge number. What is counted should
  be printed once.
* *Sampler.* A ring is emptied while its CPU fills it, and records what did not
  fit only with the next record that does; the program has to end on a signal and
  to leave alone what has replaced it.
* *Packet programs.* They walk headers by offsets, up to the end of a packet that
  may be cut off, change them in place, and patch checksums instead of computing
  them. No packet may be rejected for what it is not, lose its payload, or travel
  for ever; patched checksums must hold, whatever carries.
* *Redirect.* Two maps are opened by name and filled in two steps, for each of
  two environments, while packets are redirected and programs are reloaded.
* *Test environments.* Shell with `errexit`, cleanup traps, and a directory of
  state shared by all invocations.

PROJECT.json lists each hazard at its line, with the properties that cover it.

## 2. Modules

| module | models |
|---|---|
| `UmemOwnership` | abstract: each UMEM frame has one owner and goes round the cycle app → fill → rx → (app or tx → comp → app) |
| `XskSocket` | the receive thread of `af_xdp_user`, the rings, kernel and driver |
| `XskSocketProofs`, `XskSizing`, `XskRefinement` | the inductive invariant of `XskSocket` and its safety theorems; how many frames are enough; `XskSocket` implements `UmemOwnership` |
| `XdpReload` | loaders, unloaders and `af_xdp_user`'s own attach and detach on one interface, with their command lines, beside `xdp_stats` |
| `ReloadProofs` | the inductive invariant of `XdpReload` and its theorems |
| `EventReports` | abstract: what is counted is reported once, later |
| `StatsReaders` | the programs that count, and the five programs that read counters, for one map |
| `StatsProofs` | sums over CPUs, the inductive invariant of `StatsReaders` and its theorems; `StatsReaders` implements `EventReports` while lookups succeed |
| `PacketSampler` | the sampling program, its rings and the user-space program |
| `SamplerProofs` | the inductive invariant of `PacketSampler` and its theorems |
| `PacketHelpers` | operators: the parsers, VLAN pop and push, address swaps and checksum arithmetic |
| `PacketPrograms` | the XDP programs at the two ends of a veth pair, and a packet between them |
| `PacketProofs` | the inductive invariant of `PacketPrograms` and its theorems |
| `XdpRedirect` | `xdp_prog_user`, `testenv.sh redirect`, loads and unloads, in several environments, beside packets that are redirected and routed |
| `RedirectProofs` | the inductive invariant of `XdpRedirect` and its theorems |
| `MC...` | instances for TLC |

The components compose where they share state: `XdpReload` has the loaders,
the hooks, the pinned file and `xdp_stats` together; `XdpRedirect` has loaders,
pinned maps, the commands that fill them and the programs that read them;
`PacketPrograms` has two programs at the ends of a link. `StatsReaders` takes one
map for the whole of its life, since what `xdp_stats` does when the map is
replaced is in `XdpReload`; header rewriting is in `PacketPrograms` only.

Each model has a section of plausible mistakes: variants of an action with a bug.
They are not part of the specification; each shows that a property of a run
notices that bug.

### XskSocket

One action per step between two accesses to shared memory. `held` says which
frames are at which place: the stack `umem_frame_addr`, the rings, the hardware.
A frame number stands for an address. The places keep the order of the frames
because FILL, RX, TX and COMPLETION are queues and the free list is a stack.

| actions | code |
|---|---|
| `StockFrame`, `SubmitFill` | the two loops that fill FILL (lines 207-217, 363-370) |
| `TestExit`, `CallPoll`, `PollReturns` | `rx_and_process` (385-406) |
| `PeekRx`, `ReserveFill`, `ReplyToPacket`, `DropPacket`, `ReleaseRx` | `handle_receive_packets`, `process_packet` (274-383) |
| `KickTx`, `PeekCompletions`, `ReapCompletion`, `ReleaseCompletions` | `complete_tx` (229-253) |
| `exit_application` | the SIGINT handler (493) |
| `Kernel...`, `Driver...` | the far end of the rings, modelled from their use |

libbpf's `xsk_prod_nb_free`, `xsk_ring_prod__reserve` and `xsk_ring_cons__peek`
read the other side's index only when the cached one does not suffice; `fq_free`
and `rx_seen` are those cached counts. The program is compiled with the reply
branch off (`if (false)`); `ReplyEnabled` turns it on, as the lesson asks. The
retry loop after a failed reservation is modelled as the location `retry` that
the thread would not leave; `ReserveNeverRetries` says it never gets there.

### XdpReload

A command is an invocation of `xdp_loader`, of the loaders of the first two
lessons, or of `af_xdp_user`, given as a program name and a list of options.
`parse_cmdline_args` makes of them what the code's configuration holds: of
several modes the last one counts, `-S` and `-z` together ask for two bind modes
that contradict each other. The flags it starts from are those of each `main()`
(`Defaults`): the loaders set `XDP_FLAGS_UPDATE_IF_NOEXIST`, which `--force`
takes away, and `af_xdp_user` sets nothing; `noexist` is that flag and `force`
the option, and only what the kernel is asked depends on `noexist`. `af_xdp_user`
loads a program only if it is given a file (`"f"`), and with `-M` looks for
maps to reuse in no directory at all and fails. Each system call that changes or tests shared state
is a step, and `Kill` may come between any two. A program and a map are named
after the command that made them, which stands for the kernel's IDs.

| actions | code |
|---|---|
| `parse_cmdline_args`, `Defaults`, `Op`, `Chosen` | `common_params.c` (79-197), the `main()` functions |
| `reuse_maps`, `LoadObject`, `LoadSimple` | `common_user_bpf_xdp.c` (175-286), the first two lessons' loaders |
| `xdp_link_attach`, `RemoveOpposite`, `Reattach` | `xdp_link_attach` (19-61) |
| `AfterAttach`, `AccessPin`, `UnpinMaps`, `PinMaps` | `xdp_loader.c` (72-107, 124-164) |
| `BindSocket`, `LookForProgram`, `AttachDefault` | `af_xdp_user.c` (554-599): memory and socket; libbpf then looks for a program and, where there is none, attaches its own |
| `StopServing`, `xdp_link_detach`, `RemoveLink` | `af_xdp_user.c` (601-606), `xdp_link_detach` (63-99), `xdp_pass_user.c` (65-78) |
| `Stats...` | `xdp_stats.c` (158-292): every turn of its loop opens the pinned file again and compares IDs |

`AttachResult` is the kernel's answer to a request to attach: a program on the
hook of the other mode makes it `EEXIST`, one on the same hook `EBUSY` if
replacing was excluded.

### StatsReaders

A behaviour is about one of nine maps, with the programs that count in it and the
program that reads it. `Event` starts a program on a CPU, with a list of what it
has to add; `Add` is one store, of zero, too, as the programs do it. The reader's
state is its location, how far it has come in the map (`pos`: the key, the CPU
and the word of its entry that is next), and its two readings.

`differs` is what of the map's description is not what the reader was built for,
and `Compared` what the reader looks at: sizes of keys and values always, the
number of entries except in `tracing01`, and the type only in `tracing02`, since
the others leave `map_expect.type` at 0. Counts are modulo 2^64 (`Word`), those of
`tracing01` modulo 2^32 (`Word32`), and `trace_xdp_devmap_xmit` adds negative
drops as they are; `back` remembers the words in which a CPU's count has gone
back for one of these two reasons.

| actions | code |
|---|---|
| `xdp_stats1_func`, `xdp_stats_record_action`, `trace_xdp_...`, `handle_receive_packets` | what one run of each counting program adds |
| `load_bpf_and_xdp_attach`, `check_map_fd_info`, `map_collect`, `stats_print`, `stats_poll` | `basic03` `xdp_load_and_stats.c` |
| `stats_main`, `stats_collect`, `stats_print_actions`, `stats_poll_actions` | `basic04` `xdp_stats.c` |
| `load_bpf_and_trace_attach`, `check_maps`, `map_collect_record`, `map_collect_record_u64`, `stats_print_monitor`, `stats_poll_swap` | `tracing02` `trace_load_and_stats.c` |
| `exception_...`, `get_next_key` | `tracing01` `trace_load_and_stats.c` |
| `xsk_stats_print`, `xsk_stats_poll` | the statistics thread of `af_xdp_user.c` (422-491) |

The readers have their steps in common (`Check`, `CopyWord`, `FirstReading`,
`NewTurn`, `ShowLines`) and differ where the code does: what a failed lookup
leaves in the record (garbage, the reading before the last, or the value of
another key), whether records are copied or swapped, and which differences are
printed. `ReportedOnce` says that with reliable lookups a reader implements
`EventReports`: `counted` is the sum over the CPUs, `reported` the first reading
and every difference printed since. Of a count that has gone back `EventReports`
promises nothing more, since the code does then print what was not counted.

### PacketSampler

| actions | code |
|---|---|
| `xdp_sample_prog`, `bpf_perf_event_output` | `tracing04` `xdp_prog_kern.c`, and the kernel's ring |
| `do_attach`, `InstallHandlers`, `test_bpf_perf_event`, `perf_event_mmap_header`, `OpenPcap` | `main()` up to the loop, one CPU at a time |
| `TestDone`, `CallPoll`, `PollReturns`, `ReadHead`, `bpf_perf_event_print`, `WriteTail` | `perf_event_poller_multi` and the reader of one ring, record by record |
| `sig_handler`, `do_detach`, `Detach` | the way out; the kernel may not answer, or refuse to remove the program |
| `Others`, `Killed` | other commands that change the hook; a signal before the handlers are there |

### PacketHelpers and PacketPrograms

A packet is a record: addresses, VLAN tags, EtherType, IP header, transport
header, length and headroom. A parser returns its verdict and the offset it has
come to, and compares offsets with the length as the code compares pointers with
`data_end`; what lies beyond the length is not read. Checksums are exact: 16-bit
words, with all the words that no program changes summed up in `rest`.
`bpf_csum_diff` works on 32-bit words, modelled as two halves.

One action per program, from its first parser to its verdict, since nothing else
has the packet meanwhile. Which program is attached at which end is chosen at the
start. `Return` and `ReturnOverLink` are what the kernel does with a verdict;
after `XDP_TX` or a redirect back over the link the program of the other end gets
the packet, if there is one. A host that got the packet may bridge it back
(`HostBridges`), so that programs work on what others have made of a packet.
The router's `bpf_fib_lookup` and the membership of its answer in `tx_port` are
choices, loops of routes included.

| operators, actions | code |
|---|---|
| `parse_...`, `SkipTags` | `parsing_helpers.h` |
| `vlan_tag_pop`, `vlan_tag_push`, `swap_...` | `rewrite_helpers.h` |
| `csum_fold_helper`, `icmp_checksum_diff`, `ip_decrease_ttl` | `xdp_prog_kern_03.c` (33-54, 215-222) |
| `xdp_patch_ports_func`, `xdp_vlan_swap_func`, `xdp_pass_func` | `xdp_prog_kern_02.c` |
| `xdp_parser_func` | `packet02-rewriting/xdp_prog_kern.c` |
| `xdp_vlan_01`, `xdp_vlan_02` | `xdp_vlan01_kern.c`, `xdp_vlan02_kern.c` |
| `xdp_icmp_echo_func`, `xdp_router_func` | `xdp_prog_kern_03.c` (56-147, 224-320) |

### XdpRedirect

An environment is one of `testenv.sh`, with an outer interface; a set of maps
(`tx_port` and `redirect_params`) is made by each load and named by a number.

| actions | code |
|---|---|
| `Setup` | `testenv.sh` setup, as far as an interface appears |
| `Attach`, `Unpin`, `Pin` | `xdp_loader --force`, whose details are in `XdpReload`; files of other objects may make `Unpin` fail |
| `Detach` | `testenv.sh unload`, which leaves the maps pinned; also a load of an object that has not got these maps |
| `OpenTxPort`, `WriteTxPort`, `OpenParams`, `write_iface_params` | `xdp_prog_user.c`, with `--redirect-dev`; twice, there and back, for `testenv.sh redirect` |
| `OpenRouter`, `WriteRouterPorts` | `xdp_prog_user.c` without it: the ports of the router |
| `LookupParams`, `RedirectMap` | `xdp_redirect_map_func`, a step for each map it reads |
| `Router` | what `xdp_router_func` sends where |

`last`, `mixed`, `setups` and `routed` are history: which command came last on an
environment, where commands overlapped or failed, which commands have opened a
set of maps, and what interfaces there were when the router's ports were set.

## 3. Runs

| run | result | bounds | shows |
|---|---|---|---|
| `xsk_drop` | passes | 4 frames, rings of 2, batches of 2, copy mode | as compiled: FILL only ever gets frames, the receive path is never without one, reservations succeed, SIGINT ends the program |
| `xsk_reply` | passes | the same, a zero-copy driver with 1 buffer, replies | frames are neither lost nor shared nor freed twice; no ring is overrun or underrun; received frames are processed; `UmemOwnership` is implemented |
| `xsk_poll_shutdown` | violation | as `xsk_drop`, with `poll()` | SIGINT before `poll()` blocks is not noticed |
| `xsk_reply_sent` | violation | replies, copy mode | a reply may wait on TX for ever |
| `xdp_reload` | passes | 3 commands, 18 command lines of four programs, 3 files for `xdp_stats`, 1 packet per map | a loader replaces only with `--force`, and then is not refused; the pinned map follows the program; no reading goes back; `af_xdp_user` leaves nothing behind |
| `stats_leak` | violation | 1 load, 8 files | `xdp_stats` leaks a descriptor per interval |
| `packets` | passes | 98 packets, any of 9 programs at either end, 2 bridgings | checksums, time to live, payload, verdicts and rest |
| `echo_checksum` | violation | 15 requests | the reply's checksum is wrong for the last nine checksums |
| `vlan_id` | violation | the packets of `packets` | `xdp_vlan02` does not recognise ID 42 |
| `stats` | passes | any of 9 maps, 2 CPUs, 2 events, words of 6 bits, `__u32` of 1 bit, a hash of 1 entry | what is printed was counted and is printed once, unless a count went back; readers catch up; a failed lookup is made up for; nothing is read before all programs count, or into buffers of another size |
| `sampler` | passes | 2 CPUs with 4 and 2 packets, rings of 2 records | packets are stored once and in order, or reported lost; a signal ends the program; it detaches its own |
| `redirect` | passes | 3 environments, 4 commands of which 2 run at a time, 3 sets of maps, 3 ports | after a redirect the pinned maps send both ways, and the programs attached have them; a first set-up loses no packet; the router finds its ports |

*Why the bounds are enough.* The real sizes of the socket are 4096 frames, rings
of 2048 and batches of 64. What matters is that a ring can be full, empty and
wrap, that a batch can be cut by its limit and by what has arrived, and that
there are exactly two frames for each ring slot; four frames and rings of two
have all of these, and the theorems below hold for every size. `TX_BATCH` is how
much the kernel sends for one `sendto()`; `TX_MOD` stands for 2^32, small so that
`outstanding_tx` wraps. Three commands are enough for one to be interrupted half
way, another to come upon the leftovers, and a third to overlap with either;
one packet in a map and none in the next make a reading go back if readings of
different maps are compared. The packets are chosen at boundaries: header
checksums around the carry, ICMP checksums at both ends of those that are patched
right, times to live from 1 to 3, lengths that end one byte before and exactly at
the end of a header, none to five tags. Two bridgings let three programs in a row
work on a packet besides those that send it back themselves.

Two events on two CPUs let a reader copy one CPU's entry before and the other's
after they count, an entry between two of its words, and two CPUs make the same
hash entry at once; with one entry of room the second interface meets a full
hash. Words of six bits make the differences of garbage wrap, and are larger
than any count that only grows (`NoWrapAssumption`); with a `Word32` of 2 the
second exception on a CPU makes `tracing01`'s counter start again, and one of the
drivers reports negative drops, before or after the other's positive ones.
`FailingMaps` has a map
for each program's way with a failed lookup and each kind of record, so that
failures are not tried twice where the code is the same. A ring of two
records is full after one record of losses and a sample, and four packets fill
it, overflow it and come after; the other CPU makes the loop go on to the next
ring. In `redirect` the third interface's index is one that `tx_port` has no room
for; it is only redirected to. Of the four commands of `redirect` two may load, one
unload and the last set up what is left. Commands are interchangeable in `xdp_reload` and
`redirect` (symmetry; neither run checks liveness).

CHECK_DEADLOCK is off where commands end, counters reach their bounds, or
programs end: there the system really stops.

*Fairness.* `FairSpec` of `XskSocket`: the receive thread is scheduled (weak
fairness of its actions together), and what a kick allows the kernel to send is
sent and completed. No packet has to arrive and no signal has to be sent.
`FairSpec` of `PacketPrograms`: the kernel runs the program for a packet that has
arrived; hosts need not bridge. `FairSpec` of `StatsReaders`: a CPU finishes the
program it runs, which the verifier guarantees, and the reader, which sleeps two
seconds and never waits for anybody, goes on; no event has to happen. `FairSpec`
of `PacketSampler`: the user-space program is scheduled, and `poll()` returns
after its second. `XdpReload` and `XdpRedirect` are checked for safety only.

## 4. What is proved

*AF_XDP socket.* Assumptions: the constants are natural numbers,
`RING_SIZE <= NUM_FRAMES` (`SizesAssumption`), and the two switches are Booleans
(`ModesAssumption`). None of the safety properties is inductive alone (`XskSocketProofs`). `NoFrameShared` needs `NoRingUnderrun`: popping a frame that is
not there would invent one. `NoRingOverrun` needs the ranges in `TypeOK`. All of
them need to know what the thread's counters are at each location (for
instance that nothing is reserved on FILL unless the thread is stocking), which
is `ThreadState`. The invariant is the conjunction of `TypeOK`, `NoFrameShared`,
`NoFrameLost`, `NoRingOverrun`, `NoRingUnderrun` and `ThreadState`; its
preservation is shown action by action. The actions move a frame in one of four
ways, so the facts about frames are proved once for each way and cited.

* `TypeCorrect`, `FramesAreNotShared`, `FramesAreNotLost`, `RingsAreRespected`,
  `OnlyWrittenIsRead`, `ReservationsSucceed`: invariants of `XskSocket`.
* `FreeListHasRoom`: the assertion in `xsk_free_umem_frame` cannot fail. By
  counting: the frame about to be freed is not on the stack, and the frames on
  the stack are different, so there are fewer than `NUM_FRAMES`.
* `EnoughFramesSuffice`, `ReceivingGoesOn` (`XskSizing`): if `NUM_FRAMES` is at least twice the
  ring size plus what the hardware holds, and twice the ring size more with
  replies, FILL never gets an invalid address and the receive path never runs
  dry. Every frame is at one place, so the counts of all places sum to
  `NUM_FRAMES`; bounding the others bounds the free stack from below. The
  program's 4096 = 2 * 2048 is exactly enough in copy mode without replies.
* `ImplementsOwnership` (`XskRefinement`): every step of `XskSocket` is a step
  of `UmemOwnership` or changes no owner.

*Packets* (`PacketProofs`). Assumption: what is sent first is a packet with
correct checksums, whose IP header has no length of two to four words
(`PacketsAssumption`, `IpHeader`; section 6); there may be any number of them, any
program at either end, and any number of hops. The invariant adds to the
properties that a packet which was not answered carries the ICMP checksum it was
sent with (`ChecksumAsSent`), since the echo server patches the checksum it
finds. Most programs change no header the properties are about; for those
`ReturnKeepsInv` suffices, and the other three have lemmas of their own. The
arithmetic is separate: `PatchedCheck` and `TtlPatchesChecksum` for the header,
`EchoChecksum4`, `EchoChecksum6` and `EchoKeepsChecksum` for the answer, each for
all 65536 checksums.

* `PacketsTyped`, `HeaderChecksumAlwaysHolds`, `RoutedAlwaysAlive`,
  `AlwaysAnsweredOnce`: the invariants.
* `ReplyChecksumsHold`: the reply's checksum holds for every request whose
  checksum is below 0xFFF7. Finding 4 shows that the bound is exact.
* `SwapAlwaysKeepsPayload`: what is left of the tags after any number of pops and
  pushes is a suffix of the tags that were sent, or the one that was pushed. A
  program is shown either to leave tags, length and type alone or to be the one
  that pops and pushes (`VlanSwapKeepsPayload`).
* `OnlyMalformedAborted`: `xdp_patch_ports` finds the transport header where a
  whole packet has it (`ParsedTransport`), so it gives up only on packets that are
  cut off there.

*Attach, pin, reuse* (`ReloadProofs`), for any number of commands with any
options, killed anywhere, with and without native XDP. What a command can be at
each of its steps follows from its options (`CmdInv`); the kernel keeps at most
one hook in use (`HookInv`); `xdp_stats` has never read more than the map of the
ID it knows has counted (`StatsInv`). The two properties about commands that do
not overlap need to know what a command that runs alone may rely on: that its
program is still attached while it pins, that the hook it makes room on stays
free, that a map it reuses stays pinned (`AloneInv`). Options are sequences, and
the last mode given exists by well-founded induction over their positions
(`LastOf`).

* `ReloadTyped`, `ForceWins`, `PinFollowsProgram`, `StatsGrow`, `AppCleansUp`: the
  invariants; `LoadersForced`: the action property, from the invariant that only a
  command without `noexist`, which a loader is only by `--force`, makes room on a
  hook or attaches over another program.

*Sampler* (`SamplerProofs`), for any number of CPUs and packets and any ring. For
each CPU, the packets after the ring was mapped are exactly those in the file,
reported, waiting or lost (`Accounted`), and the file is behind the ring, whose
samples are in order (`InOrder`). Both are stated of sequences and proved for
each thing that happens to a ring (a record is added, handled, released), so that
the actions only say which of these they are.

* `TypeCorrect`, `NothingIsLostSilently`, `FileInOrder`, `SamplerDetachesItsOwn`.

*Redirect* (`RedirectProofs`), for any environments, commands and number of maps.
Everything depends on which environment a set of maps was made for, which no
variable says; the invariant is that there is an assignment of maps to
environments such that programs and pinned files only have maps of their own.
Given it, two commands can disturb each other only if they ran on one environment
at a time (`OneAtATime`), maps that one command alone has set up have a port for
their address (`SetupsInv`), a command that is left alone has the pinned maps and
its port is set when it sets the address (`CommandsInv`), loads that are left
alone leave program and file with the same maps, unless the program is gone
(`LoadsInv`), and what a
redirection has connected stays so until another command comes (`RedirectsInv`).

* `RedirectTyped` (proved only, no run checks it), `BothWaysWork`,
  `NothingLostAtFirst`, `RouterFindsPorts`.

*Readers* (`StatsProofs`), for any number of CPUs and events, any packet length,
and any of the nine maps. Assumptions: the constants are natural numbers and the
maps are those that are modelled (`SizesAssumption`, `MapsAssumption`), garbage is
a word's worth (`GarbageAssumption`), and all that is ever counted fits in 64 bits
(`NoWrapAssumption`: an event makes at most five stores of at most the packet's
length and two, which `RunsAreRuns` shows of every program): at 100 gigabits a
second it takes decades to fill such a word. Nothing is assumed of `Word32` but
that it is at most `Word`: counters of `tracing01` wrap, and negative drops make a
count go below 0 and wrap, too. `ReportsAlwaysRecover` and `EventsReportedOnce` are about words in
which neither has happened (`Onward`), `StatsTyped` and `KnowsWhatItReads` about all.

`KnowsWhatItReads` needs that all tracepoints are open when the map is
checked, and that every reader's check covers the sizes (`ComparedEnough`). The other theorems rest on one invariant, `Inv`, that has three parts:

* `Counting`: the counts of a word that has not gone back, and what busy programs
  have still to add to it, are bounded by the events so far; an entry that a program found is there, and
  an entry that is not there counts 0, so making it a second time takes nothing
  back.
* `Readings`: a reader is in the middle of a map, with a sum over the first CPUs
  for each field. The sum is no more than those CPUs have counted by now, and
  together with what the other CPUs have it is no less than all of them had when
  the reading began (`SumBetween`). So a record that has been read is between two
  counts the map has had, although it may be none of them.
* `Reporting`: the first reading and all differences since add up, modulo 2^64, to
  the record the next difference is taken to, whatever failed lookups have left
  in it, if every difference of the word is printed; unless one failed, to no more than that record.

A count is a sum over the CPUs. It is a recursive function, and what it does when
one CPU counts, and how two such sums compare, is shown for every number of CPUs
by taking the least CPU for which it would be wrong (`UpToInduction`,
well-founded): an induction theorem with an operator as its parameter cannot be
used here. The arithmetic of unsigned differences is separate (`ModShift`,
`ModAdds`). The readers share their steps, so each step is shown once to keep the
invariant, and `ReaderSteps` says which reader takes which.

* `StatsTyped`, `ReportsAlwaysRecover`: the invariants.
* `EventsReportedOnce`: with reliable lookups every step of `StatsReaders` is a
  step of `EventReports` or changes neither what is counted nor what is reported.

*Only model-checked.* Liveness (`ShutdownCompletes`, `ReceivedFramesAreHandled`,
`PacketsComeToRest`, `CatchesUp`, `SamplesAreStored`, `SignalEnds`), which is
beyond the proof system used. Every other property of a passing run is a theorem.

## 5. Findings

1. `af_xdp_user.c:400`: a SIGINT between the test of `global_exit` and an
   untimed `poll()` is noticed only when a packet comes (`xsk_poll_shutdown`).
2. `af_xdp_user.c:234`: one `sendto()` per received batch may leave replies on
   the TX ring until another packet arrives (`xsk_reply_sent`).
3. `xdp_stats.c:211`: a file descriptor is leaked every interval (`stats_leak`).
4. `xdp_prog_kern_03.c:35`: the checksum is folded once and the last carry cut
   off, so a few echo replies have a wrong checksum (`echo_checksum`).
5. `xdp_vlan02_kern.c:54`: a VLAN tag is compared in network byte order
   (`vlan_id`).

Seen while modelling, and no run of their own: the properties say where they stop.

* `xdp_stats` ends if it polls between a loader's unpin and pin: the second open
  of the file fails, too (`xdp_stats.c:271`).
* With replies, twice the ring size is not enough frames, and a receive path that
  has run dry is not refilled; `EnoughFramesSuffice` gives the number that is.
* `af_xdp_user` offers "`--force`: Force install, replacing existing program on
  interface" (`af_xdp_user.c:94`) like the loaders, but its configuration (506-511)
  lacks `XDP_FLAGS_UPDATE_IF_NOEXIST`: it replaces what it finds without `--force`,
  and when it ends removes whatever is there. `LoadersNeedForce` is therefore about
  the loaders.
* `basic03`, `basic04` and `tracing01` leave `map_expect.type` at 0, so that the
  type is never compared, `tracing01` the number of entries, too.
* `tracing01` counts in a `__u64` through a `__u32 *` (`trace_prog_kern.c:23`, `:40`):
  the total it prints starts again at 2^32. In `tracing02`, `drops < 0`
  (`trace_prog_kern.c:252`) counts an error, but the drops are added before that,
  and the counter goes down; the monitor then prints a huge difference.
* `testenv.sh redirect` looks for files only: after an unload it fills maps that no
  program reads, and ends well.
* `af_xdp_user` attaches before it sets up its socket, and leaves the program
  attached if that fails; `-z` with `-c` or `-S` always makes it fail.
* Two loaders that overlap may leave the map of one pinned and the program of the
  other attached.
* `trace_load_and_stats` of tracing02 prints nothing of an interval in which a
  CPU's queue dropped packets and took none; `CatchesUp` leaves those drops out.
* The statistics thread of `af_xdp_user` reads the counters once to print and
  again to remember them, and loses what is counted in between.
* `xdp_sample_pkts` takes an ignored SIGHUP (as under `nohup`) for an error and
  ends with its program attached.
* A second redirection of the same maps changes the port before the address, and
  if its source has another address there is no room for it: packets then go to a
  host that does not take them, for good.
* `xdp_vlan02_kern.c:86` reads `vlans.id[1]`, which may be uninitialised;
  `parsing_helpers.h:143` compares a header length with the size of a pointer;
  `xdp_prog_kern_02.c:53` changes a port and not the transport checksum;
  `common_user_bpf_xdp.c:378` returns a positive code for a map whose description
  cannot be had.

## 6. What the models assume and leave out

* The kernel side of rings, hooks and maps is modelled from how the programs
  use it. `poll()` fails only with EINTR. `global_exit` is re-read by the loop,
  as the unoptimised build does (`common/common.mk` sets no `-O`).
* Packet contents are left out of `XskSocket`: whether a packet is answered is a
  choice. They are left out of `PacketSampler`, too.
* In `XdpReload`, a map's counter is one number, not one per CPU and action; how
  those are summed up is in `StatsReaders`, for one of the five actions.
* Of a map of a type the reader does not know, which three readers accept, lookups
  fail in `StatsReaders`; that of a plain array they succeed, and fill the entry of
  one CPU only, is left out. Of words in which a CPU's count went back, only `CatchesUp`
  is claimed. `basic03` detaches its program if the object lacks the map (328-331):
  that is one with the load that fails.
* Stores of 64 bits are atomic, as on the machines the tutorial is for. What
  per-CPU lines and averages the readers print besides the sums is left out.
* In `XdpRedirect`, inner hosts have one address each, and the routing table sends
  to any environment there is. Adding to a program's maps does not fail except
  for want of room. The 255 updates that set the router's ports are one step; the
  two files of an object are removed in one step and pinned in one, which makes a
  difference only to commands that overlap, of which `RedirectWorks` says nothing.
  Loading an object without `tx_port` and `redirect_params` is what `Detach` does to
  these maps.
* In `PacketSampler` one hook stands for the modes. Writing a record does not fail:
  the reader's `break` after an error (`xdp_sample_pkts_user.c:250`) and the errors
  of `print_bpf_output` (a wrong cookie, no clock) are left out.
* Packets are those of a little-endian machine, and of a kernel whose
  `bpf_csum_diff` adds 32-bit words. No packet has an IP header length of 8 to 16
  bytes, which the parser accepts (it compares with the size of a pointer): the
  transport header then begins inside the IP header, and a program that changes the
  one changes the other, while the headers of a record are apart. `IpHeader` excludes
  these, from the runs and from the theorems. Fragments, code points and other
  fields no program looks at are part of `rest` or left out.
* veth delivers a packet that a program sends only if its peer has a program too.
* `xdp_vlan02` reads an array that may be uninitialised; either verdict is
  possible then.

Not modelled:

* The vendored kernel headers, some 4900 lines in `headers/`, which declare
  structures and numbers and do nothing.
* Offloading to hardware, which no lesson's machine has.
* `testenv.sh` but for its effect on interfaces, its `load`, `unload` and `redirect`: what its `ip`,
  `mount` and `sysctl` commands do is the kernel's.
* The starting points of the assignments (`packet01` to `packet03`), unfinished on
  purpose; their solutions are modelled. `common_libbpf.c`, which nothing calls.
* `tracing03`, a program that prints and a reader that copies lines.
* `af_xdp_kern.c`: it passes every second packet; which ones reach the socket is a
  choice in `XskSocket`.
* Memory set-up of `af_xdp_user`, help texts, and all printing but for which
  numbers are printed.

## 7. What is left

* An abstract specification of the loaders (one program and its map per
  interface) that `XdpReload` implements as long as commands do not overlap.
* `testenv.sh` setup, teardown and reset, with a model of namespaces and links.
