---------------------------- MODULE StatsReaders ----------------------------
(***************************************************************************)
(* The programs that count packets and events in per-CPU maps, and the     *)
(* programs that read those maps every two seconds and print differences:  *)
(* xdp_load_and_stats of basic03, xdp_stats of basic04, the two programs   *)
(* called trace_load_and_stats, of tracing01 and tracing02, and the        *)
(* statistics thread of af_xdp_user, which reads its receive thread's own  *)
(* counters.                                                               *)
(*                                                                         *)
(* A CPU adds to its entries one store after the other; a reader copies    *)
(* word by word, and nobody locks.  A behaviour is about one map, and the  *)
(* program that reads it.                                                  *)
(***************************************************************************)
EXTENDS Integers, Sequences, FiniteSets

CONSTANTS
  Maps,          \* the maps behaviours are about
  FailingMaps,   \* those whose lookups may fail, for lack of memory
  NrCpus,        \* possible CPUs
  PktLen,        \* length of a packet
  Word,          \* 2^64: counts and differences are unsigned
  Word32,        \* 2^32: tracing01 counts through a pointer to a __u32
  Garbage,       \* what uninitialised memory may hold
  HashEntries,   \* 10: how many interfaces tracing01 can count for
  MaxEvents      \* bound on the events counted

ASSUME SizesAssumption ==
  NrCpus \in Nat \ {0} /\ Word \in Nat \ {0} /\ PktLen \in Nat /\ MaxEvents \in Nat
  /\ HashEntries \in Nat /\ Word32 \in 1 .. Word
ASSUME GarbageAssumption == Garbage \subseteq 0 .. Word - 1

VARIABLES
  map,        \* the map
  differs,    \* what of its description is not what the reader was built for
  reliable,   \* no lookup fails
  opened,     \* the programs that are attached
  present,    \* keys that have entries; all of them, but in the hash
  value,      \* CPU |-> its entries, word by word
  busy,       \* CPU |-> what the program it runs has still to add
  events,     \* events so far
  back,       \* history: words that a CPU's count has gone back in
  pc, pos,    \* the reader, and how far it has come in the map
  sum,        \* field |-> the sum over the CPUs copied so far
  rec, prev,  \* the two last readings
  first,      \* history: the first reading
  printed,    \* history: the sum of the differences printed
  good,       \* history: keys whose last lookup succeeded
  floor       \* history: the counts when the last reading began

kernelVars  == <<opened, present, value, busy, events, back>>
historyVars == <<first, printed, good, floor>>
readerVars  == <<pc, pos, sum, rec, prev, historyVars>>
vars == <<map, differs, reliable, kernelVars, readerVars>>

Cpu == 0 .. NrCpus - 1

-----------------------------------------------------------------------------
(* The maps: the keys events are counted under, and an entry's fields.     *)

AllMaps == {"xdp_stats1", "xdp_stats_map", "redirect_err_cnt", "exception_cnt",
            "cpumap_enqueue_cnt", "cpumap_kthread_cnt", "devmap_xmit_cnt", "xsk_stats",
            "exceptions"}

xdp_stats1 == [keys |-> <<"XDP_PASS">>, fields |-> <<"rx_packets">>]
xdp_stats_map == [keys |-> <<"XDP_PASS">>, fields |-> <<"rx_packets", "rx_bytes">>]
redirect_err_cnt == [keys |-> <<"Success", "Error">>, fields |-> <<"processed">>]
exception_cnt == [keys |-> <<"XDP_ABORTED", "XDP_UNKNOWN">>, fields |-> <<"processed">>]
datarec == <<"processed", "dropped", "info", "err">>
exceptions == [keys |-> <<"eth0", "eth1">>, fields |-> <<"processed">>]
xsk_stats == [keys |-> <<"AF_XDP_RX">>, fields |-> <<"rx_packets", "rx_bytes">>]

ASSUME MapsAssumption ==
  Maps \subseteq AllMaps /\ FailingMaps \subseteq Maps /\ "xsk_stats" \notin FailingMaps

Shape(m) ==
  CASE m = "xdp_stats1" -> xdp_stats1
    [] m = "xdp_stats_map" -> xdp_stats_map
    [] m = "redirect_err_cnt" -> redirect_err_cnt
    [] m = "exception_cnt" -> exception_cnt
    [] m = "exceptions" -> exceptions
    [] m = "xsk_stats" -> xsk_stats
    [] OTHER -> [keys |-> <<"0">>, fields |-> datarec]

RangeOf(s) == {s[i] : i \in 1 .. Len(s)}
Keys(m) == RangeOf(Shape(m).keys)
Fields(m) == RangeOf(Shape(m).fields)
Words(m) == Keys(m) \X Fields(m)

(* Key by key, and within a key CPU by CPU and word by word. *)
Start == [key |-> 1, cpu |-> 0, field |-> 1]
WordAt(m, p) == <<Shape(m).keys[p.key], Shape(m).fields[p.field]>>
StartsKey(p) == p.cpu = 0 /\ p.field = 1
NextKey(p) == [key |-> p.key + 1, cpu |-> 0, field |-> 1]

(* A plausible mistake: the loop over the CPUs goes on to nr_cpus. *)
NextWord_OnePastLast(m, p) ==
  IF p.field < Len(Shape(m).fields) THEN [p EXCEPT !.field = @ + 1]
  ELSE IF p.cpu < NrCpus THEN [key |-> p.key, cpu |-> p.cpu + 1, field |-> 1]
  ELSE NextKey(p)

NextWord(m, p) ==
  IF p.field < Len(Shape(m).fields) THEN [p EXCEPT !.field = @ + 1]
  ELSE IF p.cpu < NrCpus - 1 THEN [key |-> p.key, cpu |-> p.cpu + 1, field |-> 1]
  ELSE NextKey(p)

AtEnd(m, p) == p.key > Len(Shape(m).keys)

-----------------------------------------------------------------------------
(* The programs that count: what one run of each adds, in this order.      *)

MAX_CPUS == 64

Adds(key, fs) == [key |-> key, adds |-> fs]

When(condition, add) == IF condition THEN <<add>> ELSE <<>>

(* basic03 counts bytes, too, but nobody reads them. *)
xdp_stats1_func == Adds("XDP_PASS", << <<"rx_packets", 1>> >>)

(* Of an action no map entry is kept for, nothing is counted. *)
xdp_stats_record_action(action) ==
  Adds(action, IF action = "undefined" THEN <<>>
               ELSE << <<"rx_packets", 1>>, <<"rx_bytes", PktLen>> >>)

xdp_redirect_collect_stat(err) ==
  Adds(IF err = 0 THEN "Success" ELSE "Error", << <<"processed", 1>> >>)

trace_xdp_exception(act) ==
  Adds(IF act = "XDP_ABORTED" THEN act ELSE "XDP_UNKNOWN", << <<"processed", 1>> >>)

(* tracing01 counts one action, for each interface. *)
trace_xdp_aborted(ifindex, act) ==
  Adds(ifindex, IF act # "XDP_ABORTED" THEN <<>> ELSE << <<"processed", 1>> >>)

(* To a CPU there is no entry for, nothing is counted; info counts the batches. *)
trace_xdp_cpumap_enqueue(to_cpu, processed, drops) ==
  Adds("0", IF to_cpu >= MAX_CPUS THEN <<>>
            ELSE << <<"processed", processed>>, <<"dropped", drops>> >>
                 \o When(processed > 0, <<"info", 1>>))

trace_xdp_cpumap_kthread(processed, drops, sched) ==
  Adds("0", << <<"processed", processed>>, <<"dropped", drops>> >>
            \o When(sched # 0, <<"info", 1>>))

(* A driver that has sent more than it was given: drops is negative, and is added
   all the same. *)
trace_xdp_devmap_xmit(sent, drops, err) ==
  Adds("0", << <<"processed", sent>>, <<"dropped", drops>>, <<"info", 1>> >>
            \o When(err # 0, <<"err", 1>>) \o When(drops < 0, <<"err", 1>>))

(* The receive thread: the bytes of a batch packet by packet, then their number. *)
handle_receive_packets(rcvd) ==
  Adds("AF_XDP_RX", [i \in 1 .. rcvd |-> <<"rx_bytes", PktLen>>] \o << <<"rx_packets", rcvd>> >>)

Programs(m) ==
  CASE m = "redirect_err_cnt" -> {"xdp_redirect_err", "xdp_redirect_map_err", "xdp_redirect",
                                  "xdp_redirect_map"}
    [] OTHER -> {m}

(* What program p, run by CPU c, may have to count in map m.  Of the drivers, one sends
   more than it is given, and one fails. *)
Runs(m, p, c) ==
  CASE m = "xdp_stats1" -> {xdp_stats1_func}
    [] m = "xdp_stats_map" -> {xdp_stats_record_action(a) : a \in {"XDP_PASS", "undefined"}}
    [] m = "redirect_err_cnt" ->
         {xdp_redirect_collect_stat(IF p \in {"xdp_redirect", "xdp_redirect_map"} THEN 0 ELSE 1)}
    [] m = "exception_cnt" -> {trace_xdp_exception(a) : a \in {"XDP_ABORTED", "undefined"}}
    [] m = "exceptions" ->
         {trace_xdp_aborted(i, a) : i \in Keys(m), a \in {"XDP_ABORTED", "undefined"}}
    [] m = "cpumap_enqueue_cnt" ->
         {trace_xdp_cpumap_enqueue(0, 2, 0), trace_xdp_cpumap_enqueue(0, 0, 1),
          trace_xdp_cpumap_enqueue(MAX_CPUS, 1, 0)}
    [] m = "cpumap_kthread_cnt" ->
         {trace_xdp_cpumap_kthread(1, 0, 1), trace_xdp_cpumap_kthread(0, 1, 0)}
    [] m = "devmap_xmit_cnt" ->
         {IF c = 0 THEN trace_xdp_devmap_xmit(2, -1, 0) ELSE trace_xdp_devmap_xmit(0, 1, 1)}
    [] m = "xsk_stats" -> IF c = 0 THEN {handle_receive_packets(n) : n \in 1 .. 2} ELSE {}

(* No run stores more often, or adds more at once.  What is counted stays below
   2^64, unless something is taken off. *)
MaxStores == 5
MaxAdd == PktLen + 2

(* The widths of the counters. *)
WrapAt(m) == IF m = "exceptions" THEN Word32 ELSE Word

ASSUME NoWrapAssumption == MaxEvents * (MaxStores * MaxAdd) < Word

-----------------------------------------------------------------------------
(* Plausible mistakes, each in the place of an action below; and one above, *)
(* in the place of NextWord.                                               *)

(* The last CPU is not summed up. *)
CopyWord_SkipsLast(k) ==
  LET w == WordAt(map, pos)
      last == pos.cpu = NrCpus - 1
      s == (sum[w[2]] + IF last THEN 0 ELSE value[pos.cpu][w]) % Word
      next == NextWord(map, pos)
  IN  /\ pc \in {"first", "collect"} /\ ~AtEnd(map, pos) /\ w[1] = k /\ "type" \notin differs
      /\ sum' = [sum EXCEPT ![w[2]] = IF last THEN 0 ELSE s]
      /\ rec' = IF last THEN [rec EXCEPT ![w] = s] ELSE rec
      /\ good' = IF StartsKey(next) THEN good \cup {k} ELSE good
      /\ pos' = next
      /\ UNCHANGED <<map, differs, reliable, kernelVars, pc, prev, first, printed, floor>>

(* The records are not swapped: every turn is compared with the first one. *)
stats_poll_swap_Forgotten ==
  /\ map \notin {"xdp_stats1", "xdp_stats_map", "exceptions", "xsk_stats"}
  /\ pc = "turn" \/ (pc = "first" /\ AtEnd(map, pos))
  /\ pc' = IF pc = "first" THEN "turn" ELSE "collect"
  /\ first' = IF pc = "first" THEN rec ELSE first
  /\ pos' = Start
  /\ UNCHANGED <<map, differs, reliable, kernelVars, sum, good, rec, prev, printed, floor>>

(* No line is printed of a record in which nothing was processed. *)
Shown_Processed(w) ==
  "processed" \in Fields(map) =>
    (rec[<<w[1], "processed">>] - prev[<<w[1], "processed">>]) % Word > 0

(* A tracepoint that cannot be opened ends the loop, and no more. *)
load_bpf_and_trace_attach_GoesOn(p) ==
  /\ pc = "load" /\ map \notin {"xdp_stats1", "xdp_stats_map", "exceptions", "xsk_stats"}
  /\ p \in Programs(map) \ opened
  /\ \/ /\ opened' = opened \cup {p}
        /\ pc' = IF opened' = Programs(map) THEN "check" ELSE "load"
     \/ UNCHANGED opened /\ pc' = "check"
  /\ UNCHANGED <<map, differs, reliable, present, value, busy, events, back, pos, sum, rec, prev,
                 historyVars>>

-----------------------------------------------------------------------------
Zero(m) == [w \in Words(m) |-> 0]

(* The sums of what the first CPUs have. *)
SumOf(v) ==
  LET upto[n \in 0 .. NrCpus] == IF n = 0 THEN 0 ELSE upto[n - 1] + v[n - 1]
  IN  upto

Counted(w) == SumOf([c \in Cpu |-> value[c][w]])[NrCpus] % Word

(* What the readers may compare. *)
Description == {"key_size", "value_size", "max_entries", "type"}

(* xdp_stats finds a program attached, and the thread of af_xdp_user a receive
   thread; the others load what they read. *)
Init ==
  /\ map \in Maps
  /\ differs \in {{}} \cup {{d} : d \in IF map = "xsk_stats" THEN {} ELSE Description}
  /\ reliable \in IF "type" \in differs THEN {FALSE}
                 ELSE IF map \in FailingMaps THEN BOOLEAN ELSE {TRUE}
  /\ opened = IF map \in {"xdp_stats_map", "xsk_stats"} THEN Programs(map) ELSE {}
  /\ pc = CASE map = "xdp_stats_map" -> "check" [] map = "xsk_stats" -> "turn" [] OTHER -> "load"
  /\ value = [c \in Cpu |-> Zero(map)]
  /\ present = IF map = "exceptions" THEN {} ELSE Keys(map)
  /\ busy = [c \in Cpu |-> <<>>]
  /\ events = 0
  /\ back = {}
  /\ pos = Start
  /\ sum = [f \in Fields(map) |-> 0]
  /\ rec = Zero(map) /\ prev = Zero(map)
  /\ first = Zero(map) /\ printed = Zero(map) /\ floor = Zero(map)
  /\ good = Keys(map)

(* A program starts on a CPU that runs no other, and looks its entry up ... *)
Event(c) ==
  /\ busy[c] = <<>> /\ events < MaxEvents
  /\ \E p \in opened : \E r \in Runs(map, p, c) :
       busy' = [busy EXCEPT ![c] = [i \in 1 .. Len(r.adds) |->
                  [word |-> <<r.key, r.adds[i][1]>>, n |-> r.adds[i][2], found |-> r.key \in present]]]
  /\ events' = events + 1
  /\ UNCHANGED <<map, differs, reliable, opened, present, value, back, readerVars>>

(* ... and adds to that CPU's entries, one after the other.  If there was no
   entry, it makes one, unless the hash is full.  What does not fit is cut off. *)
Add(c) ==
  /\ busy[c] # <<>>
  /\ LET a == Head(busy[c])
         sum2 == IF a.found THEN value[c][a.word] + a.n ELSE a.n
     IN  IF a.found \/ a.word[1] \in present \/ Cardinality(present) < HashEntries
         THEN /\ present' = present \cup {a.word[1]}
              /\ value' = [value EXCEPT ![c][a.word] = sum2 % WrapAt(map)]
              /\ back' = back \cup (IF a.n < 0 \/ sum2 >= WrapAt(map) THEN {a.word} ELSE {})
         ELSE UNCHANGED <<present, value, back>>
  /\ busy' = [busy EXCEPT ![c] = Tail(@)]
  /\ UNCHANGED <<map, differs, reliable, opened, events, readerVars>>

-----------------------------------------------------------------------------
(* What the readers have in common.                                        *)

Monitored == map \notin {"xdp_stats1", "xdp_stats_map", "exceptions", "xsk_stats"}

Goto(l) == pc' = l

startVars == <<map, differs, reliable, present, value, busy, events, back, pos, sum, rec, prev, historyVars>>

(* What is expected of the map is compared with its description, as far as anything is
   expected: only the monitor expects a type, and tracing01 no number of entries. *)
Compared ==
  {"key_size", "value_size"} \cup (IF map = "exceptions" THEN {} ELSE {"max_entries"})
                             \cup (IF Monitored THEN {"type"} ELSE {})

Accepted == differs \cap Compared = {}

Check ==
  /\ pc = "check"
  /\ Goto(IF ~Accepted THEN "exited" ELSE IF map = "exceptions" THEN "turn" ELSE "first")
  /\ UNCHANGED startVars

Reading == pc \in {"first", "collect"} /\ ~AtEnd(map, pos)

readVars == <<map, differs, reliable, kernelVars, pc, prev, first, printed, floor>>

(* A lookup copies the entries of all CPUs, and the reader sums them up.  In a map of
   another type, the entries are not what it takes them for. *)
CopyWord(k) ==
  LET w == WordAt(map, pos)
      s == (sum[w[2]] + value[pos.cpu][w]) % Word
      last == pos.cpu = NrCpus - 1
      next == NextWord(map, pos)
  IN  /\ Reading /\ w[1] = k /\ "type" \notin differs
      /\ sum' = [sum EXCEPT ![w[2]] = IF last THEN 0 ELSE s]
      /\ rec' = IF last THEN [rec EXCEPT ![w] = s] ELSE rec
      /\ good' = IF StartsKey(next) THEN good \cup {k} ELSE good
      /\ pos' = next
      /\ UNCHANGED readVars

(* A lookup that fails is reported and otherwise ignored. *)
LookupFails(k) ==
  /\ Reading /\ ~reliable
  /\ StartsKey(pos) /\ Shape(map).keys[pos.key] = k
  /\ good' = good \ {k}
  /\ pos' = NextKey(pos)
  /\ UNCHANGED <<readVars, sum>>

(* The record is then filled from a variable that nothing was written to, unless the
   map has a type that the reader does not know. *)
TakesGarbage(k) ==
  \/ "type" \in differs /\ UNCHANGED rec
  \/ "type" \notin differs /\ \E g \in [Fields(map) -> Garbage] :
       rec' = [w \in Words(map) |-> IF w[1] = k THEN g[w[2]] ELSE rec[w]]

pollVars == <<map, differs, reliable, kernelVars, sum, good>>

FirstReading ==
  /\ pc = "first" /\ AtEnd(map, pos)
  /\ first' = rec
  /\ Goto("turn") /\ pos' = Start
  /\ UNCHANGED <<pollVars, rec, prev, printed, floor>>

NewTurn(r, p) ==
  /\ pc = "turn"
  /\ rec' = r /\ prev' = p
  /\ floor' = [w \in Words(map) |-> Counted(w)]
  /\ Goto("collect")
  /\ UNCHANGED <<pollVars, pos, first, printed>>

(* Differences are unsigned. *)
Difference(w) == (rec[w] - prev[w]) % Word

ShowLines(shown, next) ==
  /\ pc = "collect" /\ AtEnd(map, pos)
  /\ printed' = [w \in Words(map) |->
                   IF w \in shown THEN (printed[w] + Difference(w)) % Word ELSE printed[w]]
  /\ Goto(next) /\ pos' = Start
  /\ UNCHANGED <<pollVars, rec, prev, first, floor>>

-----------------------------------------------------------------------------
(* xdp_load_and_stats, of basic03.                                         *)

(* If the object lacks the map, the program is detached again. *)
load_bpf_and_xdp_attach ==
  /\ pc = "load" /\ map = "xdp_stats1"
  /\ \/ opened' = Programs(map) /\ Goto("check")
     \/ Goto("exited") /\ UNCHANGED opened
  /\ UNCHANGED startVars

(* The program stays attached if the map is not as expected. *)
check_map_fd_info == map = "xdp_stats1" /\ Check /\ UNCHANGED opened

map_collect(k) ==
  map = "xdp_stats1" /\ (CopyWord(k) \/ (LookupFails(k) /\ TakesGarbage(k)))

stats_print == map = "xdp_stats1" /\ ShowLines(Words(map), "turn")

(* The record is copied, and then filled again. *)
stats_poll == map = "xdp_stats1" /\ (FirstReading \/ NewTurn(rec, rec))

xdp_load_and_stats ==
  \/ load_bpf_and_xdp_attach \/ check_map_fd_info
  \/ stats_poll \/ stats_print \/ \E k \in Keys(map) : map_collect(k)

-----------------------------------------------------------------------------
(* xdp_stats, of basic04, for the life of one map.  XdpReload is about the
   file it opens the map by. *)

stats_main == map = "xdp_stats_map" /\ Check /\ UNCHANGED opened

stats_collect(k) ==
  map = "xdp_stats_map" /\ (CopyWord(k) \/ (LookupFails(k) /\ TakesGarbage(k)))

stats_print_actions == map = "xdp_stats_map" /\ ShowLines(Words(map), "turn")

stats_poll_actions == map = "xdp_stats_map" /\ (FirstReading \/ NewTurn(rec, rec))

xdp_stats ==
  \/ stats_main \/ stats_poll_actions \/ stats_print_actions
  \/ \E k \in Keys(map) : stats_collect(k)

-----------------------------------------------------------------------------
(* trace_load_and_stats, of tracing02.                                     *)

(* One tracepoint after the other is opened; if one cannot be, the object is
   closed and the process ends. *)
load_bpf_and_trace_attach(p) ==
  /\ pc = "load" /\ Monitored /\ p \in Programs(map) \ opened
  /\ \/ /\ opened' = opened \cup {p}
        /\ Goto(IF opened' = Programs(map) THEN "check" ELSE "load")
     \/ opened' = {} /\ Goto("exited")
  /\ UNCHANGED startVars

check_maps ==
  Monitored /\ Check /\ opened' = IF Accepted THEN opened ELSE {}

(* A record that could not be read keeps what it has: the reading before the
   last. *)
KeepsRecord(k) == LookupFails(k) /\ UNCHANGED rec

map_collect_record(k) ==
  Fields(map) = RangeOf(datarec) /\ (CopyWord(k) \/ KeepsRecord(k))

map_collect_record_u64(k) ==
  Monitored /\ Len(Shape(map).fields) = 1 /\ (CopyWord(k) \/ KeepsRecord(k))

(* Of an enqueue record, nothing is printed unless packets were processed. *)
Shown(w) ==
  map = "cpumap_enqueue_cnt" => Difference(<<w[1], "processed">>) > 0

stats_print_monitor == Monitored /\ ShowLines({w \in Words(map) : Shown(w)}, "turn")

(* The two records are swapped, so that nothing needs to be copied. *)
stats_poll_swap == Monitored /\ (FirstReading \/ NewTurn(prev, rec))

trace_load_and_stats ==
  \/ check_maps \/ stats_poll_swap \/ stats_print_monitor
  \/ \E p \in Programs(map) : load_bpf_and_trace_attach(p)
  \/ \E k \in Keys(map) : map_collect_record(k) \/ map_collect_record_u64(k)

-----------------------------------------------------------------------------
(* trace_load_and_stats, of tracing01.                                     *)

(* The program is loaded and the event opened, connected and enabled. *)
exception_attach ==
  /\ pc = "load" /\ map = "exceptions"
  /\ \/ opened' = Programs(map) /\ Goto("check")
     \/ Goto("exited") /\ UNCHANGED opened
  /\ UNCHANGED startVars

exception_check_map ==
  map = "exceptions" /\ Check /\ opened' = IF Accepted THEN opened ELSE {}

exception_poll == map = "exceptions" /\ NewTurn(Zero(map), rec)

(* Keys are passed over that have no entry when it is their turn. *)
get_next_key(k) ==
  /\ Reading /\ map = "exceptions"
  /\ StartsKey(pos) /\ Shape(map).keys[pos.key] = k /\ k \notin present
  /\ pos' = NextKey(pos)
  /\ UNCHANGED <<readVars, sum, rec, good>>

(* If the values of a key that has an entry cannot be looked up, those of the key
   before are taken for them, or whatever the stack holds. *)
exception_lookup(k) ==
  /\ map = "exceptions" /\ k \in present
  /\ \/ CopyWord(k)
     \/ /\ LookupFails(k)
        /\ \E v \in Garbage \cup {rec[w] : w \in Words(map)} :
             rec' = [rec EXCEPT ![<<k, "processed">>] = v]

(* Totals are printed, of the keys that were found. *)
exception_print ==
  /\ map = "exceptions" /\ pc = "collect" /\ AtEnd(map, pos)
  /\ printed' = rec
  /\ Goto("turn") /\ pos' = Start
  /\ UNCHANGED <<pollVars, rec, prev, first, floor>>

exception_stats ==
  \/ exception_attach \/ exception_check_map \/ exception_poll \/ exception_print
  \/ \E k \in Keys(map) : get_next_key(k) \/ exception_lookup(k)

-----------------------------------------------------------------------------
(* The statistics thread of af_xdp_user.                                   *)

(* Differences to the counters as they are: they are read while printing, ... *)
xsk_stats_print ==
  map = "xsk_stats" /\
    (\/ NewTurn(rec, prev)
     \/ \E k \in Keys(map) : CopyWord(k)
     \/ ShowLines(Words(map), "copy"))

(* ... and read again for the next time. *)
xsk_stats_poll ==
  /\ pc = "copy"
  /\ LET w == WordAt(map, pos)
         last == pos.field = Len(Shape(map).fields)
     IN  /\ prev' = [prev EXCEPT ![w] = value[0][w]]
         /\ pos' = IF last THEN Start ELSE NextWord(map, pos)
         /\ Goto(IF last THEN "turn" ELSE "copy")
  /\ UNCHANGED <<pollVars, rec, first, printed, floor>>

af_xdp_user == xsk_stats_print \/ xsk_stats_poll

-----------------------------------------------------------------------------
Reader ==
  \/ xdp_load_and_stats \/ xdp_stats \/ trace_load_and_stats \/ exception_stats
  \/ af_xdp_user

Next == Reader \/ \E c \in Cpu : Event(c) \/ Add(c)

Spec == Init /\ [][Next]_vars

(* A CPU finishes the program it runs, and a reader goes on. *)
FairSpec ==
  /\ Spec
  /\ \A c \in Cpu : WF_vars(Add(c))
  /\ WF_vars(Reader)

-----------------------------------------------------------------------------
(* Properties.                                                             *)

TypeOK ==
  /\ map \in Maps /\ differs \subseteq Description /\ reliable \in BOOLEAN
  /\ opened \subseteq Programs(map) /\ present \subseteq Keys(map)
  /\ value \in [Cpu -> [Words(map) -> 0 .. Word - 1]]
  /\ events \in 0 .. MaxEvents /\ back \subseteq Words(map)
  /\ pc \in {"load", "check", "first", "turn", "collect", "copy", "exited"}
  /\ pos \in [key : 1 .. Len(Shape(map).keys) + 1, cpu : Cpu,
             field : 1 .. Len(Shape(map).fields)]
  /\ sum \in [Fields(map) -> 0 .. Word - 1]
  /\ rec \in [Words(map) -> 0 .. Word - 1] /\ prev \in [Words(map) -> 0 .. Word - 1]
  /\ first \in [Words(map) -> 0 .. Word - 1] /\ printed \in [Words(map) -> 0 .. Word - 1]
  /\ good \subseteq Keys(map)

(* What was reported of a word: the first reading, and every difference since. *)
Reported(w) == (first[w] + printed[w]) % Word

Polling == pc \in {"first", "turn", "collect", "copy"}

(* "It is userspace responsibility to known what map it is reading": nothing is read
   before all programs count, nor from a map whose keys or values have another size
   than the reader's buffers, which the kernel writes to.  Of another type, which only
   the monitor expects, the map may be. *)
PollsWhatItKnows ==
  Polling =>
    /\ opened = Programs(map)
    /\ {"key_size", "value_size"} \cap differs = {}
    /\ Monitored => differs = {}

(* A lookup that fails makes one report wrong, and the next one makes up for it:
   after a turn in which a key was read, its reports add up to a count the map
   has had during that turn, whatever failed before.  That is said of the words whose
   counts only grow: trace_xdp_devmap_xmit may count drops down, and tracing01's
   counters start again at 2^32. *)
ReportsRecover ==
  pc = "turn" /\ map # "xsk_stats" =>
    \A w \in Words(map) \ back :
      w[1] \in good /\ (map # "cpumap_enqueue_cnt" \/ w[2] = "processed") =>
        floor[w] <= Reported(w) /\ Reported(w) <= Counted(w)

AllWords == UNION {Words(m) : m \in Maps}
Tracked(w) == reliable /\ w \in Words(map)

(* Unless a lookup fails, what is reported was counted, and is reported once: unless
   a CPU's count does, readings never go back, though other CPUs count meanwhile. *)
Reports == INSTANCE EventReports WITH
  Counter <- AllWords,
  back <- {w \in AllWords : Tracked(w) /\ w \in back},
  counted <- [w \in AllWords |-> IF Tracked(w) THEN Counted(w) ELSE 0],
  reported <- [w \in AllWords |-> IF Tracked(w) THEN Reported(w) ELSE 0]

ReportedOnce == Reports!Spec

(* Unless a lookup fails, everything that was counted is reported in the end, by
   every reader that goes on: all but the thread of af_xdp_user, which loses what is counted
   between a print and the copy after it, and drops on a CPU's queue in
   intervals in which nothing was queued. *)
CatchesUp ==
  <>[](\/ pc = "exited" \/ ~reliable
       \/ map = "xsk_stats"
       \/ \A w \in Words(map) :
            map # "cpumap_enqueue_cnt" \/ w[2] = "processed" => Reported(w) = Counted(w))
=============================================================================
