---------------------------- MODULE PacketSampler ----------------------------
(***************************************************************************)
(* xdp_sample_pkts of tracing04.  An XDP program copies every packet into a *)
(* ring buffer of the CPU it runs on; the user-space program attaches it,  *)
(* opens and maps the ring buffers, and writes what it finds in them to a  *)
(* pcap file, until a signal ends it.  Other commands may replace or       *)
(* remove the program meanwhile.                                           *)
(*                                                                         *)
(* Packets are numbered on each CPU.  What they contain is left out.       *)
(***************************************************************************)
EXTENDS Integers, Sequences

CONSTANTS
  NrCpus,       \* possible CPUs
  RingSize,     \* records that fit in a ring buffer
  MaxPackets    \* CPU |-> bound on its packets

ASSUME SizesAssumption ==
  /\ NrCpus \in Nat \ {0} /\ RingSize \in Nat
  /\ MaxPackets \in [0 .. NrCpus - 1 -> Nat]

VARIABLES
  pc, cpu,      \* the user-space program, and the CPU its loops have come to
  force, nohup, \* it was started with --force; with a signal already ignored
  done,         \* a signal came
  hook,         \* what is attached: "none", "sampler" or "other"
  curr_prog_id,      \* what do_detach found attached
  opened,       \* CPUs whose events are in the map
  mapped,       \* CPUs whose ring buffers are mapped
  ring,         \* CPU |-> records, not yet released by the reader
  lost,         \* CPU |-> packets that did not fit since the last record
  wakeup,       \* CPU |-> poll() has yet to tell of a new record
  revents,      \* CPUs that poll() told of
  batch, got,   \* records the reader has seen, and how many it has handled
  stored,       \* CPU |-> packets in the pcap file
  told,         \* CPU |-> packets reported as lost
  passed,       \* history: CPU |-> packets the attached program got
  missed,       \* history: CPU |-> those of them before the ring was mapped
  replaced,     \* history: others changed the hook before do_detach looked
  refused       \* history: the kernel did not let it remove its program

procVars == <<pc, cpu, force, nohup>>
hookVars == <<hook, curr_prog_id, replaced, refused>>
setupVars == <<opened, mapped>>
ringVars == <<ring, lost, wakeup>>
readVars == <<revents, batch, got, stored, told>>
passVars == <<passed, missed>>
vars == <<procVars, done, hookVars, setupVars, ringVars, readVars, passVars>>

Cpu == 0 .. NrCpus - 1
None == [c \in Cpu |-> {}]

(* A record stands for one packet, or for some that were lost. *)
Sample(n) == [type |-> "SAMPLE", packets |-> {n}]
Lost(s) == [type |-> "LOST", packets |-> s]

-----------------------------------------------------------------------------
(* Plausible mistakes, each in the place of an action below.               *)

(* The loop over the CPUs ends at the first that has no event. *)
ReadHead_Breaks ==
  /\ pc = "read"
  /\ IF cpu < NrCpus /\ cpu \in revents
     THEN pc' = "records" /\ batch' = Len(ring[cpu]) /\ got' = 0 /\ cpu' = cpu
     ELSE pc' = "test" /\ cpu' = 0 /\ UNCHANGED <<batch, got>>
  /\ UNCHANGED <<force, nohup, done, hookVars, setupVars, ringVars, revents, stored, told, passVars>>

(* Records of another type than a sample are passed over. *)
bpf_perf_event_print_SamplesOnly ==
  /\ pc = "records" /\ got < batch
  /\ LET r == ring[cpu][got + 1]
     IN  IF r.type = "SAMPLE"
         THEN stored' = [stored EXCEPT ![cpu] = Append(@, CHOOSE n \in r.packets : TRUE)]
         ELSE UNCHANGED stored
  /\ got' = got + 1
  /\ UNCHANGED <<pc, cpu, force, nohup, done, hookVars, setupVars, ringVars, revents, batch, told,
                 passVars>>

(* The last record is not released. *)
WriteTail_OffByOne ==
  /\ pc = "records" /\ got = batch
  /\ ring' = [ring EXCEPT ![cpu] = SubSeq(@, IF batch = 0 THEN 1 ELSE batch, Len(@))]
  /\ pc' = "read" /\ cpu' = cpu + 1
  /\ UNCHANGED <<force, nohup, done, hookVars, setupVars, lost, wakeup, readVars, passVars>>

(* One CPU more is opened than there are. *)
test_bpf_perf_event_OneMore ==
  /\ pc = "open"
  /\ \/ /\ opened' = opened \cup {cpu}
        /\ IF cpu < NrCpus THEN cpu' = cpu + 1 /\ pc' = pc ELSE cpu' = 0 /\ pc' = "mmap"
     \/ pc' = "exited" /\ opened' = {} /\ UNCHANGED cpu
  /\ UNCHANGED <<force, nohup, done, hookVars, mapped, ringVars, readVars, passVars>>

(* Without a time limit, only a record or a signal ends poll(). *)
PollReturns_Untimed ==
  /\ pc = "poll" /\ \E c \in Cpu : wakeup[c]
  /\ pc' = "read" /\ cpu' = 0
  /\ revents' = {c \in Cpu : wakeup[c]}
  /\ wakeup' = [c \in Cpu |-> FALSE]
  /\ UNCHANGED <<force, nohup, done, hookVars, setupVars, ring, lost, batch, got, stored, told, passVars>>

(* Whatever is attached is removed. *)
Detach_Unchecked ==
  /\ pc = "detach"
  /\ hook' = "none"
  /\ pc' = "exited" /\ opened' = {} /\ mapped' = {}
  /\ UNCHANGED <<cpu, force, nohup, done, curr_prog_id, replaced, refused, ringVars, readVars, passVars>>

-----------------------------------------------------------------------------
Init ==
  /\ pc = "start" /\ cpu = 0
  /\ force \in BOOLEAN /\ nohup \in BOOLEAN
  /\ done = FALSE
  /\ hook \in {"none", "other"} /\ curr_prog_id = "none"
  /\ replaced = FALSE /\ refused = FALSE
  /\ opened = {} /\ mapped = {}
  /\ ring = [c \in Cpu |-> <<>>] /\ lost = None /\ wakeup = [c \in Cpu |-> FALSE]
  /\ revents = {} /\ batch = 0 /\ got = 0
  /\ stored = [c \in Cpu |-> <<>>] /\ told = None
  /\ passed = [c \in Cpu |-> 0] /\ missed = [c \in Cpu |-> 0]

-----------------------------------------------------------------------------
(* The XDP program.                                                        *)

(* A record goes into the ring if there is room, with one for what was lost
   before it; otherwise the packet is lost. *)
bpf_perf_event_output(c) ==
  LET lostBefore == IF lost[c] = {} THEN <<>> ELSE <<Lost(lost[c])>>
      records == Append(lostBefore, Sample(passed[c] + 1))
  IN  IF Len(ring[c]) + Len(records) <= RingSize
      THEN /\ ring' = [ring EXCEPT ![c] = @ \o records]
           /\ lost' = [lost EXCEPT ![c] = {}]
           /\ wakeup' = [wakeup EXCEPT ![c] = TRUE]
      ELSE /\ lost' = [lost EXCEPT ![c] = @ \cup {passed[c] + 1}]
           /\ UNCHANGED <<ring, wakeup>>

(* On a CPU whose event is not in the map, or whose ring is not mapped yet, the
   output fails; the packet is passed all the same. *)
xdp_sample_prog(c) ==
  /\ hook = "sampler" /\ pc # "exited" /\ passed[c] < MaxPackets[c]
  /\ passed' = [passed EXCEPT ![c] = @ + 1]
  /\ IF c \in opened /\ c \in mapped
     THEN bpf_perf_event_output(c) /\ UNCHANGED missed
     ELSE missed' = [missed EXCEPT ![c] = passed[c] + 1] /\ UNCHANGED ringVars
  /\ UNCHANGED <<procVars, done, hookVars, setupVars, readVars>>

-----------------------------------------------------------------------------
(* main(), up to the polling loop.                                         *)

setupRest == <<cpu, force, nohup, done, ringVars, readVars, passVars>>

(* The program's ID is asked for after it was attached; if the answer does not come,
   it stays. *)
do_attach ==
  /\ pc = "start"
  /\ IF hook # "none" /\ ~force
     THEN pc' = "exited" /\ UNCHANGED hook
     ELSE pc' \in {"signals", "exited"} /\ hook' = "sampler"
  /\ UNCHANGED <<curr_prog_id, replaced, refused, setupVars, setupRest>>

(* signal() returns the handler there was; if there was one (SIG_IGN, under nohup),
   main() takes that for an error. *)
InstallHandlers ==
  /\ pc = "signals"
  /\ pc' = IF nohup THEN "exited" ELSE "open"
  /\ UNCHANGED <<hookVars, setupVars, setupRest>>

(* Each CPU's event is opened and put in the map; assertions end the program
   where that fails. *)
test_bpf_perf_event ==
  /\ pc = "open"
  /\ \/ /\ opened' = opened \cup {cpu}
        /\ IF cpu + 1 < NrCpus THEN cpu' = cpu + 1 /\ pc' = pc ELSE cpu' = 0 /\ pc' = "mmap"
     \/ pc' = "exited" /\ opened' = {} /\ UNCHANGED cpu
  /\ UNCHANGED <<force, nohup, done, hookVars, mapped, ringVars, readVars, passVars>>

perf_event_mmap_header ==
  /\ pc = "mmap"
  /\ \/ /\ mapped' = mapped \cup {cpu}
        /\ IF cpu + 1 < NrCpus THEN cpu' = cpu + 1 /\ pc' = pc ELSE cpu' = 0 /\ pc' = "pcap"
        /\ UNCHANGED opened
     \/ pc' = "exited" /\ opened' = {} /\ mapped' = {} /\ UNCHANGED cpu
  /\ UNCHANGED <<force, nohup, done, hookVars, ringVars, readVars, passVars>>

(* Without a pcap file there is nothing to do but to detach. *)
OpenPcap ==
  /\ pc = "pcap"
  /\ pc' \in {"test", "out"}
  /\ UNCHANGED <<hookVars, setupVars, setupRest>>

-----------------------------------------------------------------------------
(* perf_event_poller_multi, and the reader of one ring.                    *)

loopRest == <<force, nohup, done, hookVars, setupVars, passVars>>

TestDone ==
  /\ pc = "test"
  /\ pc' = IF done THEN "out" ELSE "call"
  /\ UNCHANGED <<cpu, ringVars, readVars, loopRest>>

(* A signal that comes now does not end poll(). *)
CallPoll ==
  /\ pc = "call" /\ pc' = "poll"
  /\ UNCHANGED <<cpu, ringVars, readVars, loopRest>>

(* poll() returns when there is a new record, and after a second in any case. *)
PollReturns ==
  /\ pc = "poll"
  /\ pc' = "read" /\ cpu' = 0
  /\ revents' = {c \in Cpu : wakeup[c]}
  /\ wakeup' = [c \in Cpu |-> FALSE]
  /\ UNCHANGED <<ring, lost, batch, got, stored, told, loopRest>>

(* A ring is read up to where its head is now. *)
ReadHead ==
  /\ pc = "read"
  /\ IF cpu = NrCpus THEN pc' = "test" /\ cpu' = 0 /\ UNCHANGED <<batch, got>>
     ELSE IF cpu \notin revents THEN pc' = pc /\ cpu' = cpu + 1 /\ UNCHANGED <<batch, got>>
     ELSE pc' = "records" /\ cpu' = cpu /\ batch' = Len(ring[cpu]) /\ got' = 0
  /\ UNCHANGED <<ringVars, revents, stored, told, loopRest>>

(* A sample goes to the pcap file ... *)
print_bpf_output(r) ==
  stored' = [stored EXCEPT ![cpu] = Append(@, CHOOSE n \in r.packets : TRUE)] /\ UNCHANGED told

(* ... and of lost packets, their number is printed. *)
bpf_perf_event_print ==
  /\ pc = "records" /\ got < batch
  /\ LET r == ring[cpu][got + 1]
     IN  IF r.type = "SAMPLE" THEN print_bpf_output(r)
         ELSE told' = [told EXCEPT ![cpu] = @ \cup r.packets] /\ UNCHANGED stored
  /\ got' = got + 1
  /\ UNCHANGED <<pc, cpu, ringVars, revents, batch, loopRest>>

(* Only then is their room released. *)
WriteTail ==
  /\ pc = "records" /\ got = batch
  /\ ring' = [ring EXCEPT ![cpu] = SubSeq(@, batch + 1, Len(@))]
  /\ pc' = "read" /\ cpu' = cpu + 1
  /\ UNCHANGED <<lost, wakeup, readVars, loopRest>>

-----------------------------------------------------------------------------
(* The way out, and what happens meanwhile.                                *)

(* The kernel is asked what is attached; without an answer all is left as it is. *)
do_detach ==
  /\ pc = "out"
  /\ \/ pc' = "detach" /\ curr_prog_id' = hook /\ UNCHANGED setupVars
     \/ pc' = "exited" /\ opened' = {} /\ mapped' = {} /\ UNCHANGED curr_prog_id
  /\ UNCHANGED <<hook, replaced, refused, setupRest>>

(* Whatever is attached by now is removed, if it was the sampler before; the kernel
   may refuse that. *)
Detach ==
  /\ pc = "detach"
  /\ refused' \in {FALSE, curr_prog_id = "sampler"}
  /\ hook' = IF curr_prog_id = "sampler" /\ ~refused' THEN "none" ELSE hook
  /\ pc' = "exited" /\ opened' = {} /\ mapped' = {}
  /\ UNCHANGED <<curr_prog_id, replaced, setupRest>>

Handled == pc \notin {"start", "signals", "exited"}

(* Once the handlers are there, a signal sets a flag, and ends poll(). *)
sig_handler ==
  /\ Handled /\ ~done
  /\ done' = TRUE
  /\ pc' = IF pc = "poll" THEN "read" ELSE pc
  /\ IF pc = "poll"
     THEN /\ cpu' = 0 /\ revents' = {c \in Cpu : wakeup[c]}
          /\ wakeup' = [c \in Cpu |-> FALSE]
     ELSE UNCHANGED <<cpu, revents, wakeup>>
  /\ UNCHANGED <<force, nohup, hookVars, setupVars, ring, lost, batch, got, stored, told, passVars>>

(* Before, it ends the program where it is. *)
Killed ==
  /\ pc = "signals" /\ pc' = "exited"
  /\ UNCHANGED <<hookVars, setupVars, setupRest>>

(* Another command removes the program, or replaces it. *)
Others ==
  /\ hook = "sampler" /\ pc # "exited"
  /\ hook' \in {"none", "other"}
  /\ replaced' = (replaced \/ (hook' = "other" /\ pc # "detach"))
  /\ UNCHANGED <<procVars, done, curr_prog_id, refused, setupVars, ringVars, readVars, passVars>>

-----------------------------------------------------------------------------
Sampler ==
  \/ do_attach \/ InstallHandlers \/ test_bpf_perf_event \/ perf_event_mmap_header \/ OpenPcap
  \/ TestDone \/ CallPoll \/ PollReturns \/ ReadHead \/ bpf_perf_event_print \/ WriteTail
  \/ do_detach \/ Detach

Next ==
  \/ Sampler \/ sig_handler \/ Killed \/ Others
  \/ \E c \in Cpu : xdp_sample_prog(c)

Spec == Init /\ [][Next]_vars

(* The program is scheduled. *)
FairSpec == Spec /\ WF_vars(Sampler)

-----------------------------------------------------------------------------
(* Properties.                                                             *)

Increasing(s) == \A i, j \in 1 .. Len(s) : i < j => s[i] < s[j]

TypeOK ==
  /\ pc \in {"start", "signals", "open", "mmap", "pcap", "test", "call", "poll", "read", "records",
             "out", "detach", "exited"}
  /\ cpu \in 0 .. NrCpus
  /\ force \in BOOLEAN /\ nohup \in BOOLEAN /\ done \in BOOLEAN
  /\ replaced \in BOOLEAN /\ refused \in BOOLEAN
  /\ hook \in {"none", "sampler", "other"} /\ curr_prog_id \in {"none", "sampler", "other"}
  /\ opened \subseteq Cpu /\ mapped \subseteq Cpu /\ revents \subseteq Cpu
  /\ ring \in [Cpu -> Seq([type : {"SAMPLE", "LOST"}, packets : SUBSET (Nat \ {0})])]
  /\ lost \in [Cpu -> SUBSET (Nat \ {0})] /\ told \in [Cpu -> SUBSET (Nat \ {0})]
  /\ wakeup \in [Cpu -> BOOLEAN]
  /\ batch \in 0 .. RingSize /\ got \in 0 .. batch
  /\ stored \in [Cpu -> Seq(Nat \ {0})]
  /\ passed \in [Cpu -> Nat] /\ missed \in [Cpu -> Nat]

(* The packets of the records that have not been handled. *)
Handling(c) == IF pc = "records" /\ c = cpu THEN got ELSE 0
Waiting(c) == UNION {ring[c][i].packets : i \in Handling(c) + 1 .. Len(ring[c])}
InFile(c) == {stored[c][i] : i \in 1 .. Len(stored[c])}

(* perf_event_poller_multi drains rings that a CPU goes on filling: every packet
   the program gets once its CPU's ring is mapped is in the file, or reported
   as lost, or still to be read or reported. *)
NothingVanishes ==
  \A c \in Cpu :
    missed[c] + 1 .. passed[c] = InFile(c) \cup told[c] \cup Waiting(c) \cup lost[c]

(* bpf_perf_event_print writes to the file in the order the packets passed, and
   none twice. *)
StoredOnceInOrder == \A c \in Cpu : Increasing(stored[c])

(* do_detach: a program that ends the regular way leaves no sampler attached, unless the
   kernel refused to remove it, and leaves alone what had replaced it when it looked. *)
DetachesItsOwn ==
  pc = "exited" /\ curr_prog_id # "none" =>
    /\ hook # "sampler" \/ refused
    /\ replaced => hook = "other"

(* What is in a ring gets into the file although poll() tells of it once only,
   unless the program has been told to end or has ended. *)
SamplesAreStored ==
  \A c \in Cpu : \A n \in 1 .. MaxPackets[c] :
    n \in Waiting(c) ~> n \notin Waiting(c) \/ done \/ pc = "exited"

(* A signal ends the program within a second, whether or not there are packets, and
   even if it comes between the test of done and the call of poll(). *)
SignalEnds == done ~> pc = "exited"
=============================================================================
