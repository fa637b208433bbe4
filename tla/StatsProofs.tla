----------------------------- MODULE StatsProofs -----------------------------
(***************************************************************************)
(* What the readers of per-CPU maps do, whatever maps, CPUs and failures   *)
(* there are:                                                              *)
(*                                                                         *)
(*   - nothing is read from a map that is not as expected, nor before all  *)
(*     programs count (the monitor opens its tracepoints one by one, so    *)
(*     what is needed besides is that it gets as far as comparing the map  *)
(*     only with all of them open);                                        *)
(*   - counts and sums stay within their words;                            *)
(*   - reports recover from a lookup that failed;                          *)
(*   - without such, they implement EventReports.                          *)
(*                                                                         *)
(* The last three rest on one invariant, in three parts: what is counted   *)
(* (Counting), what a reading has taken of it, between the counts when it  *)
(* began and those there are now (Readings), and which reading the reports *)
(* add up to (Reporting).  A word's count is a sum over the CPUs; what is  *)
(* needed of sums is proved first.                                         *)
(***************************************************************************)
EXTENDS StatsReaders, WellFoundedInduction, TLAPS

-----------------------------------------------------------------------------
(* When readings are taken.                                                *)

Ready ==
  /\ differs \subseteq Description
  /\ pc = "check" => opened = Programs(map)
  /\ PollsWhatItKnows

LEMMA InitReady == Init => Ready
  BY DEF Init, Ready, PollsWhatItKnows, Polling, Description, Monitored

(* A step within the turns of a reader. *)
LEMMA TurnKeepsReady ==
  ASSUME Ready, Polling, pc' \in {"first", "turn", "collect", "copy"},
         UNCHANGED <<map, differs, opened>>
  PROVE  Ready'
  BY DEF Ready, PollsWhatItKnows, Polling, Monitored

(* The sizes are compared by everybody, the rest by the monitor. *)
LEMMA ComparedEnough ==
  ASSUME Ready, Accepted
  PROVE  {"key_size", "value_size"} \cap differs = {} /\ (Monitored => differs = {})
<1>1. {"key_size", "value_size"} \subseteq Compared
  BY DEF Compared
<1>2. Monitored => Description \subseteq Compared
  BY DEF Compared, Monitored, Description
<1> QED BY <1>1, <1>2 DEF Ready, Accepted

LEMMA CheckGoes ==
  ASSUME Check
  PROVE  pc' \in {"exited", "turn", "first"} /\ (~Accepted => pc' = "exited")
  BY DEF Check, Goto

LEMMA CheckKeepsReady ==
  ASSUME Ready, Check, opened' = opened \/ pc' = "exited"
  PROVE  Ready'
<1>1. pc = "check" /\ UNCHANGED <<map, differs>>
  BY DEF Check, startVars
<1>2. pc' \in {"exited", "turn", "first"} /\ (~Accepted => pc' = "exited")
  BY CheckGoes
<1>3. Accepted => {"key_size", "value_size"} \cap differs = {} /\ (Monitored => differs = {})
  BY ComparedEnough
<1> QED
  BY <1>1, <1>2, <1>3 DEF Ready, PollsWhatItKnows, Polling, Monitored

LEMMA ReadingTurns ==
  ASSUME NEW k, CopyWord(k) \/ LookupFails(k)
  PROVE  /\ Polling /\ pc' \in {"first", "turn", "collect", "copy"}
         /\ UNCHANGED <<map, differs, opened>>
  BY DEF CopyWord, LookupFails, Reading, readVars, kernelVars, Polling

LEMMA PollingTurns ==
  ASSUME \/ FirstReading \/ (\E r, p : NewTurn(r, p))
         \/ (\E shown : ShowLines(shown, "turn") \/ ShowLines(shown, "copy"))
  PROVE  /\ Polling /\ pc' \in {"first", "turn", "collect", "copy"}
         /\ UNCHANGED <<map, differs, opened>>
  BY DEF FirstReading, NewTurn, ShowLines, pollVars, kernelVars, Polling, Goto

LEMMA StepReady == Ready /\ [Next]_vars => Ready'
<1> SUFFICES ASSUME Ready, [Next]_vars PROVE Ready'
  OBVIOUS
<1>1. CASE load_bpf_and_xdp_attach \/ exception_attach
  BY <1>1 DEF load_bpf_and_xdp_attach, exception_attach, Goto, startVars, Ready, PollsWhatItKnows, Polling, Monitored
<1>2. ASSUME NEW p, load_bpf_and_trace_attach(p) PROVE Ready'
  <2>1. UNCHANGED <<map, differs>> /\ pc' \in {"load", "check", "exited"}
    BY <1>2 DEF load_bpf_and_trace_attach, Goto, startVars
  <2>2. pc' = "check" => opened' = Programs(map)
    BY <1>2 DEF load_bpf_and_trace_attach, Goto
  <2> QED
    BY <2>1, <2>2 DEF Ready, PollsWhatItKnows, Polling
<1>3. CASE check_map_fd_info \/ stats_main \/ check_maps \/ exception_check_map
  <2>1. Check /\ (opened' = opened \/ pc' = "exited")
    <3>1. Check
      BY <1>3 DEF check_map_fd_info, stats_main, check_maps, exception_check_map
    <3>2. opened' = opened \/ ~Accepted
      BY <1>3 DEF check_map_fd_info, stats_main, check_maps, exception_check_map
    <3> QED
      BY <3>1, <3>2, CheckGoes
  <2> QED
    BY <2>1, CheckKeepsReady
<1>4. ASSUME NEW k, \/ map_collect(k) \/ stats_collect(k) \/ map_collect_record(k)
                    \/ map_collect_record_u64(k) \/ exception_lookup(k) \/ CopyWord(k)
      PROVE  Ready'
  <2>1. CopyWord(k) \/ LookupFails(k)
    BY <1>4 DEF map_collect, stats_collect, map_collect_record, map_collect_record_u64, exception_lookup,
       KeepsRecord
  <2> QED
    BY <2>1, ReadingTurns, TurnKeepsReady
<1>5. CASE \/ stats_poll \/ stats_poll_actions \/ stats_poll_swap \/ exception_poll
           \/ stats_print \/ stats_print_actions \/ stats_print_monitor
  <2>1. \/ FirstReading \/ (\E r, p : NewTurn(r, p))
        \/ (\E shown : ShowLines(shown, "turn") \/ ShowLines(shown, "copy"))
    BY <1>5 DEF stats_poll, stats_poll_actions, stats_poll_swap, exception_poll, stats_print,
       stats_print_actions, stats_print_monitor
  <2> QED
    BY <2>1, PollingTurns, TurnKeepsReady
<1>6. ASSUME NEW k, get_next_key(k) PROVE Ready'
  <2>1. /\ Polling /\ pc' \in {"first", "turn", "collect", "copy"}
        /\ UNCHANGED <<map, differs, opened>>
    BY <1>6 DEF get_next_key, Reading, readVars, kernelVars, Polling
  <2> QED
    BY <2>1, TurnKeepsReady
<1>7. CASE exception_print \/ xsk_stats_poll
  <2>1. /\ Polling /\ pc' \in {"first", "turn", "collect", "copy"}
        /\ UNCHANGED <<map, differs, opened>>
    BY <1>7 DEF exception_print, xsk_stats_poll, pollVars, kernelVars, Polling, Goto
  <2> QED
    BY <2>1, TurnKeepsReady
<1>8. CASE xsk_stats_print
  <2>1. \/ NewTurn(rec, prev) \/ ShowLines(Words(map), "copy")
        \/ \E k \in Keys(map) : CopyWord(k)
    BY <1>8 DEF xsk_stats_print
  <2> QED
    BY <1>4, <2>1, PollingTurns, TurnKeepsReady
<1>9. ASSUME NEW c \in Cpu, Event(c) \/ Add(c) PROVE Ready'
  <2>1. UNCHANGED <<map, differs, opened, pc>>
    BY <1>9 DEF Event, Add, readerVars
  <2> QED
    BY <2>1 DEF Ready, PollsWhatItKnows, Polling, Monitored
<1>10. CASE UNCHANGED vars
  BY <1>10 DEF vars, kernelVars, readerVars, Ready, PollsWhatItKnows, Polling, Monitored
<1>11. CASE Reader
  <2>1. CASE xdp_load_and_stats
    BY <1>1, <1>3, <1>4, <1>5, <2>1 DEF xdp_load_and_stats
  <2>2. CASE xdp_stats
    BY <1>3, <1>4, <1>5, <2>2 DEF xdp_stats
  <2>3. CASE trace_load_and_stats
    BY <1>2, <1>3, <1>4, <1>5, <2>3 DEF trace_load_and_stats
  <2>4. CASE exception_stats
    BY <1>1, <1>3, <1>4, <1>5, <1>6, <1>7, <2>4 DEF exception_stats
  <2>5. CASE af_xdp_user
    BY <1>7, <1>8, <2>5 DEF af_xdp_user
  <2> QED
    BY <1>11, <2>1, <2>2, <2>3, <2>4, <2>5 DEF Reader
<1> QED
  BY <1>9, <1>10, <1>11 DEF Next

(* "It is userspace responsibility to known what map it is reading": whatever fails while
   programs are attached and maps are checked, no reader takes a reading before. *)
THEOREM KnowsWhatItReads == Spec => []PollsWhatItKnows
<1>1. Ready => PollsWhatItKnows
  BY DEF Ready
<1> QED
  BY <1>1, InitReady, StepReady, PTL DEF Spec

-----------------------------------------------------------------------------
(* Sums over the CPUs.                                                     *)

(* Induction over the CPUs, on a set of numbers: its least counterexample
   would have a predecessor. *)
LEMMA UpToInduction ==
  ASSUME NEW n \in Nat, NEW S, 0 \in S,
         \A k \in 0 .. n : k \in S /\ k + 1 <= n => k + 1 \in S
  PROVE  \A k \in 0 .. n : k \in S
<1> DEFINE T == {k \in 0 .. n : k \notin S}
<1>1. SUFFICES ASSUME T # {} PROVE FALSE
  OBVIOUS
<1>2. T \subseteq Nat
  BY SMT
<1> DEFINE R == OpToRel(<, Nat)
<1>3. IsWellFoundedOn(R, Nat)
  BY NatLessThanWellFounded
<1>4. \A x, y \in Nat : x < y => <<x, y>> \in R
  BY DEF OpToRel
<1> HIDE DEF R
<1>5. PICK k \in T : \A m \in T : <<m, k>> \notin R
  <2> HIDE DEF T
  <2> QED BY Zenon, <1>1, <1>2, <1>3, WFMin
<1>6. k \in 0 .. n /\ k \notin S /\ k # 0 /\ k - 1 \in 0 .. n /\ k - 1 + 1 = k
  BY SMT
<1>7. k - 1 \notin T
  <2>1. k - 1 \in Nat /\ k \in Nat /\ k - 1 < k
    BY SMT, <1>6
  <2>2. <<k - 1, k>> \in R
    BY <1>4, <2>1
  <2> QED BY <1>5, <2>2
<1>8. k - 1 \in S
  BY <1>6, <1>7
<1> QED BY SMT, <1>6, <1>8

IsSum(f, v, m) ==
  /\ f \in [0 .. m -> Nat] /\ f[0] = 0
  /\ \A n \in 0 .. m : n # 0 => f[n] = f[n - 1] + v[n - 1]

LEMMA CpusCounted == NrCpus \in Nat \ {0} /\ \A c \in Int : c \in Cpu <=> 0 <= c /\ c < NrCpus
  BY SMT, SizesAssumption DEF Cpu

(* There are sums of the first CPUs' values, as far as there are CPUs, ... *)
LEMMA SumsExist ==
  ASSUME NEW v \in [Cpu -> Nat]
  PROVE  \E f : IsSum(f, v, NrCpus)
<1> DEFINE S == {m \in 0 .. NrCpus : \E f : IsSum(f, v, m)}
<1>1. NrCpus \in Nat
  BY CpusCounted
<1>2. 0 \in S
  <2>1. IsSum([n \in 0 .. 0 |-> 0], v, 0)
    BY SMT DEF IsSum
  <2> QED BY <1>1, <2>1
<1>3. ASSUME NEW k \in 0 .. NrCpus, k \in S, k + 1 <= NrCpus
      PROVE  k + 1 \in S
  <2>1. PICK f : IsSum(f, v, k)
    BY <1>3
  <2> DEFINE g == [n \in 0 .. k + 1 |-> IF n = k + 1 THEN f[k] + v[k] ELSE f[n]]
  <2>2. k \in Nat /\ k \in Cpu /\ f[k] \in Nat /\ v[k] \in Nat
    BY SMT, <1>1, <1>3, <2>1, CpusCounted DEF IsSum
  <2>3. g \in [0 .. k + 1 -> Nat] /\ g[0] = 0
    BY SMT, <2>1, <2>2 DEF IsSum
  <2>4. ASSUME NEW n \in 0 .. k + 1, n # 0
        PROVE  g[n] = g[n - 1] + v[n - 1]
    BY SMT, <2>1, <2>2, <2>4 DEF IsSum
  <2>5. IsSum(g, v, k + 1)
    BY <2>3, <2>4 DEF IsSum
  <2>6. k + 1 \in 0 .. NrCpus
    BY SMT, <1>1, <1>3, <2>2
  <2> QED BY <2>5, <2>6
<1> HIDE DEF S
<1>4. \A k \in 0 .. NrCpus : k \in S
  BY <1>1, <1>2, <1>3, UpToInduction
<1>5. NrCpus \in S
  BY SMT, <1>1, <1>4
<1> QED BY <1>5 DEF S

(* ... and SumOf is one. *)
LEMMA SumOfIsSum ==
  ASSUME NEW v \in [Cpu -> Nat]
  PROVE  IsSum(SumOf(v), v, NrCpus)
<1>1. PICK f : IsSum(f, v, NrCpus)
  BY SumsExist
<1> DEFINE F(g) == [n \in 0 .. NrCpus |-> IF n = 0 THEN 0 ELSE g[n - 1] + v[n - 1]]
           s == CHOOSE g : g = F(g)
<1>2. NrCpus \in Nat \ {0}
  BY CpusCounted
<1>3. f = F(f)
  BY SMT, <1>1, <1>2 DEF IsSum
<1>4. s = F(s)
  BY <1>3
<1>5. SumOf(v) = s
  BY DEF SumOf
<1> HIDE DEF s
<1>6. /\ s[0] = 0
      /\ \A n \in 0 .. NrCpus : n # 0 => s[n] = s[n - 1] + v[n - 1]
      /\ s = [n \in 0 .. NrCpus |-> s[n]]
  <2>1. s = [n \in 0 .. NrCpus |-> IF n = 0 THEN 0 ELSE s[n - 1] + v[n - 1]]
    BY <1>4
  <2>2. 0 \in 0 .. NrCpus
    BY SMT, <1>2
  <2>3. \A n \in 0 .. NrCpus : s[n] = IF n = 0 THEN 0 ELSE s[n - 1] + v[n - 1]
    BY <2>1
  <2>4. s = [n \in 0 .. NrCpus |-> s[n]]
    BY <2>1
  <2> QED BY <2>2, <2>3, <2>4
<1>7. s \in [0 .. NrCpus -> Nat]
  <2> DEFINE S == {n \in 0 .. NrCpus : s[n] \in Nat}
  <2>1. 0 \in S
    BY SMT, <1>2, <1>6
  <2>2. ASSUME NEW k \in 0 .. NrCpus, k \in S, k + 1 <= NrCpus PROVE k + 1 \in S
    <3>1. k + 1 \in 0 .. NrCpus /\ k + 1 # 0 /\ k + 1 - 1 = k /\ k \in Cpu
      BY SMT, <1>2, <2>2, CpusCounted
    <3>2. s[k + 1] = s[k] + v[k] /\ v[k] \in Nat
      BY SMTT(60), <1>6, <3>1
    <3> QED BY SMT, <2>2, <3>1, <3>2
  <2> HIDE DEF S
  <2>3. \A k \in 0 .. NrCpus : k \in S
    BY <1>2, <2>1, <2>2, UpToInduction
  <2>4. \A k \in 0 .. NrCpus : s[k] \in Nat
    BY <2>3 DEF S
  <2> QED BY <1>6, <2>4
<1> QED BY <1>5, <1>6, <1>7 DEF IsSum

LEMMA SumOfSteps ==
  ASSUME NEW v \in [Cpu -> Nat]
  PROVE  /\ SumOf(v)[0] = 0
         /\ \A n \in 0 .. NrCpus : SumOf(v)[n] \in Nat
         /\ \A c \in Cpu : SumOf(v)[c + 1] = SumOf(v)[c] + v[c]
<1>1. IsSum(SumOf(v), v, NrCpus)
  BY SumOfIsSum
<1>2. ASSUME NEW c \in Cpu PROVE SumOf(v)[c + 1] = SumOf(v)[c] + v[c]
  <2>1. PICK n \in 0 .. NrCpus : n = c + 1 /\ n # 0 /\ n - 1 = c
    BY SMT, CpusCounted DEF Cpu
  <2>2. SumOf(v)[n] = SumOf(v)[n - 1] + v[n - 1]
    BY <1>1, <2>1 DEF IsSum
  <2> QED BY <2>1, <2>2
<1> QED BY <1>1, <1>2 DEF IsSum

(* The next CPU. *)
LEMMA NextCpu ==
  ASSUME NEW k \in 0 .. NrCpus, k + 1 <= NrCpus
  PROVE  k \in Cpu /\ k + 1 \in 0 .. NrCpus
  BY SMT, CpusCounted DEF Cpu

(* If one CPU's value changes, so do the sums that it is part of. *)
LEMMA SumOfChange ==
  ASSUME NEW u \in [Cpu -> Nat], NEW v \in [Cpu -> Nat], NEW d \in Cpu,
         \A c \in Cpu \ {d} : u[c] = v[c]
  PROVE  \A n \in 0 .. NrCpus :
           SumOf(u)[n] + (IF n > d THEN v[d] ELSE 0) = SumOf(v)[n] + (IF n > d THEN u[d] ELSE 0)
<1> DEFINE S == {n \in 0 .. NrCpus :
                   SumOf(u)[n] + (IF n > d THEN v[d] ELSE 0)
                     = SumOf(v)[n] + (IF n > d THEN u[d] ELSE 0)}
<1>1. NrCpus \in Nat /\ d \in Nat /\ u[d] \in Nat /\ v[d] \in Nat
  BY SMT, CpusCounted DEF Cpu
<1>2. 0 \in S
  <2>1. SumOf(u)[0] = 0 /\ SumOf(v)[0] = 0
    BY SumOfSteps
  <2>2. 0 \in 0 .. NrCpus /\ ~(0 > d)
    BY SMT, <1>1
  <2> QED BY <2>1, <2>2
<1>3. ASSUME NEW k \in 0 .. NrCpus, k \in S, k + 1 <= NrCpus PROVE k + 1 \in S
  <2>1. k \in Cpu /\ k + 1 \in 0 .. NrCpus /\ k \in Nat
    BY SMT, <1>1, <1>3, NextCpu
  <2>2. /\ SumOf(u)[k] \in Nat /\ SumOf(v)[k] \in Nat /\ u[k] \in Nat /\ v[k] \in Nat
        /\ SumOf(u)[k + 1] = SumOf(u)[k] + u[k] /\ SumOf(v)[k + 1] = SumOf(v)[k] + v[k]
    BY <2>1, SumOfSteps
  <2>3. SumOf(u)[k] + (IF k > d THEN v[d] ELSE 0) = SumOf(v)[k] + (IF k > d THEN u[d] ELSE 0)
    BY <1>3
  <2>4. k # d => u[k] = v[k]
    BY <2>1
  <2> HIDE DEF S
  <2>5. SumOf(u)[k + 1] + (IF k + 1 > d THEN v[d] ELSE 0)
          = SumOf(v)[k + 1] + (IF k + 1 > d THEN u[d] ELSE 0)
    <3>1. CASE k = d
      BY SMT, <1>1, <2>1, <2>2, <2>3, <3>1
    <3>2. CASE k # d
      <4>1. (k + 1 > d <=> k > d)
        BY SMT, <1>1, <2>1, <3>2
      <4> QED BY SMT, <1>1, <2>1, <2>2, <2>3, <2>4, <3>2, <4>1
    <3> QED BY <3>1, <3>2
  <2> QED BY <2>1, <2>5 DEF S
<1> HIDE DEF S
<1>4. \A n \in 0 .. NrCpus : n \in S
  BY <1>1, <1>2, <1>3, UpToInduction
<1> QED BY <1>4 DEF S

(* No value is negative: the sums grow, ... *)
LEMMA SumsGrow ==
  ASSUME NEW v \in [Cpu -> Nat], NEW m \in 0 .. NrCpus
  PROVE  SumOf(v)[m] <= SumOf(v)[NrCpus]
<1> DEFINE S == {n \in 0 .. NrCpus : n >= m => SumOf(v)[m] <= SumOf(v)[n]}
<1>1. NrCpus \in Nat /\ m \in Nat /\ m <= NrCpus
  BY SMT, CpusCounted
<1>2. 0 \in S
  <2>1. 0 \in 0 .. NrCpus /\ (0 >= m => m = 0) /\ SumOf(v)[m] \in Nat
    BY SMT, <1>1, SumOfSteps
  <2> QED BY SMT, <2>1
<1>3. ASSUME NEW k \in 0 .. NrCpus, k \in S, k + 1 <= NrCpus PROVE k + 1 \in S
  <2>1. k \in Cpu /\ k + 1 \in 0 .. NrCpus /\ k \in Nat
    BY SMT, <1>1, <1>3, NextCpu
  <2>2. /\ SumOf(v)[k] \in Nat /\ v[k] \in Nat /\ SumOf(v)[m] \in Nat
        /\ SumOf(v)[k + 1] = SumOf(v)[k] + v[k]
    BY <2>1, SumOfSteps
  <2>3. k >= m => SumOf(v)[m] <= SumOf(v)[k]
    BY <1>3
  <2>4. k + 1 >= m => (k >= m \/ k + 1 = m)
    BY SMT, <1>1, <2>1
  <2>5. k + 1 >= m => SumOf(v)[m] <= SumOf(v)[k + 1]
    <3> HIDE DEF S
    <3> QED BY SMT, <2>2, <2>3, <2>4
  <2> QED BY <2>1, <2>5
<1> HIDE DEF S
<1>4. NrCpus \in S
  <2>1. \A n \in 0 .. NrCpus : n \in S
    BY <1>1, <1>2, <1>3, UpToInduction
  <2> QED BY SMT, <1>1, <2>1
<1> QED BY <1>1, <1>4 DEF S

(* ... and so with the values. *)
LEMMA SumsCompare ==
  ASSUME NEW u \in [Cpu -> Nat], NEW v \in [Cpu -> Nat], \A c \in Cpu : u[c] <= v[c]
  PROVE  SumOf(u)[NrCpus] <= SumOf(v)[NrCpus]
<1> DEFINE S == {n \in 0 .. NrCpus : SumOf(u)[n] <= SumOf(v)[n]}
<1>1. NrCpus \in Nat
  BY CpusCounted
<1>2. 0 \in S
  BY SMT, <1>1, SumOfSteps
<1>3. ASSUME NEW k \in 0 .. NrCpus, k \in S, k + 1 <= NrCpus PROVE k + 1 \in S
  <2>1. k \in Cpu /\ k + 1 \in 0 .. NrCpus
    BY <1>3, NextCpu
  <2>2. /\ SumOf(u)[k] \in Nat /\ SumOf(v)[k] \in Nat /\ u[k] \in Nat /\ v[k] \in Nat
        /\ SumOf(u)[k + 1] = SumOf(u)[k] + u[k] /\ SumOf(v)[k + 1] = SumOf(v)[k] + v[k]
        /\ u[k] <= v[k] /\ SumOf(u)[k] <= SumOf(v)[k]
    BY <1>3, <2>1, SumOfSteps
  <2>3. SumOf(u)[k + 1] <= SumOf(v)[k + 1]
    <3> HIDE DEF S
    <3> QED BY SMT, <2>2
  <2> QED BY <2>1, <2>3
<1> HIDE DEF S
<1>4. NrCpus \in S
  <2>1. \A n \in 0 .. NrCpus : n \in S
    BY <1>1, <1>2, <1>3, UpToInduction
  <2> QED BY SMT, <1>1, <2>1
<1> QED BY <1>4 DEF S

LEMMA SumOfZeros ==
  ASSUME NEW v \in [Cpu -> Nat], \A c \in Cpu : v[c] = 0
  PROVE  \A n \in 0 .. NrCpus : SumOf(v)[n] = 0
<1> DEFINE S == {n \in 0 .. NrCpus : SumOf(v)[n] = 0}
<1>1. NrCpus \in Nat
  BY CpusCounted
<1>2. 0 \in S
  BY SMT, <1>1, SumOfSteps
<1>3. ASSUME NEW k \in 0 .. NrCpus, k \in S, k + 1 <= NrCpus PROVE k + 1 \in S
  <2>1. k \in Cpu /\ k + 1 \in 0 .. NrCpus
    BY <1>3, NextCpu
  <2>2. SumOf(v)[k + 1] = 0 + 0
    BY <1>3, <2>1, SumOfSteps
  <2> QED BY SMT, <2>1, <2>2
<1> HIDE DEF S
<1>4. \A n \in 0 .. NrCpus : n \in S
  BY <1>1, <1>2, <1>3, UpToInduction
<1> QED BY <1>4 DEF S

(* If only the first CPU counts, the sum is what it counts. *)
LEMMA SumOfFirst ==
  ASSUME NEW v \in [Cpu -> Nat], \A c \in Cpu \ {0} : v[c] = 0
  PROVE  SumOf(v)[NrCpus] = v[0]
<1> DEFINE z == [c \in Cpu |-> 0]
<1>1. z \in [Cpu -> Nat] /\ \A c \in Cpu : z[c] = 0
  BY SMT
<1>2. 0 \in Cpu /\ NrCpus \in 0 .. NrCpus /\ NrCpus > 0
  BY SMT, CpusCounted DEF Cpu
<1> HIDE DEF z
<1>3. SumOf(z)[NrCpus] = 0
  BY <1>1, <1>2, SumOfZeros
<1>4. \A n \in 0 .. NrCpus :
        SumOf(v)[n] + (IF n > 0 THEN z[0] ELSE 0) = SumOf(z)[n] + (IF n > 0 THEN v[0] ELSE 0)
  BY <1>1, <1>2, SumOfChange
<1>5. SumOf(v)[NrCpus] \in Nat /\ v[0] \in Nat /\ z[0] = 0
  BY <1>1, <1>2, SumOfSteps
<1>6. SumOf(v)[NrCpus] + z[0] = SumOf(z)[NrCpus] + v[0]
  BY <1>2, <1>4
<1> QED BY SMT, <1>3, <1>5, <1>6

-----------------------------------------------------------------------------
(* Differences are taken, and added up, in words that wrap.                *)

LEMMA ModInWord ==
  ASSUME NEW x \in Int
  PROVE  x % Word \in 0 .. Word - 1 /\ x % Word \in Int /\ \E q \in Int : x = Word * q + (x % Word)
<1>1. Word \in Nat \ {0}
  BY SizesAssumption
<1>2. x % Word \in 0 .. Word - 1 /\ x = Word * (x \div Word) + (x % Word) /\ x \div Word \in Int
  BY SMT, <1>1
<1>3. x % Word \in Int
  BY SMT, <1>1, <1>2
<1> QED BY <1>2, <1>3

LEMMA SmallMod ==
  ASSUME NEW x \in 0 .. Word - 1
  PROVE  x % Word = x
  BY SMT, SizesAssumption

LEMMA ModShift ==
  ASSUME NEW x \in Int, NEW q \in Int
  PROVE  (x + Word * q) % Word = x % Word
<1>1. Word \in Nat \ {0}
  BY SizesAssumption
<1>2. PICK p \in Int : x = Word * p + (x % Word)
  BY ModInWord
<1> DEFINE r == x % Word
<1>3. r \in 0 .. Word - 1 /\ r \in Int
  BY ModInWord
<1> HIDE DEF r
<1>4. x = Word * p + r
  BY <1>2 DEF r
<1>5. PICK t \in Int : x + Word * q = Word * t + ((x + Word * q) % Word)
  <2>1. x + Word * q \in Int
    BY SMT, <1>1
  <2> QED BY <2>1, ModInWord
<1> DEFINE s == (x + Word * q) % Word
<1>6. s \in 0 .. Word - 1 /\ s \in Int
  <2>1. x + Word * q \in Int
    BY SMT, <1>1
  <2> QED BY <2>1, ModInWord
<1> HIDE DEF s
<1>7. x + Word * q = Word * t + s
  BY <1>5 DEF s
<1>8. Word * (p + q - t) = s - r
  BY SMT, <1>1, <1>3, <1>4, <1>6, <1>7
<1>9. p + q - t = 0
  <2>1. -Word < s - r /\ s - r < Word
    BY SMT, <1>1, <1>3, <1>6
  <2> DEFINE u == p + q - t
  <2>2. u \in Int /\ Word * u = s - r
    BY SMT, <1>8
  <2> HIDE DEF u
  <2>3. u >= 1 => Word * u >= Word
    BY SMT, <1>1, <2>2
  <2>4. u <= -1 => Word * u <= -Word
    BY SMT, <1>1, <2>2
  <2>5. u = 0
    BY SMT, <1>1, <1>3, <1>6, <2>1, <2>2, <2>3, <2>4
  <2> QED BY <2>5 DEF u
<1>10. s = r
  BY SMT, <1>1, <1>3, <1>6, <1>8, <1>9
<1> QED BY <1>10 DEF s, r

(* A sum of differences that wrap is the difference of the last and the first. *)
LEMMA ModAdds ==
  ASSUME NEW a \in Int, NEW b \in Int, NEW c \in Int
  PROVE  (a + ((b + (c % Word)) % Word)) % Word = (((a + b) % Word) + c) % Word
<1>1. Word \in Nat \ {0}
  BY SizesAssumption
<1>2. PICK p \in Int : c = Word * p + (c % Word)
  BY ModInWord
<1> DEFINE d == c % Word
<1>3. d \in Int
  BY ModInWord
<1>4. PICK q \in Int : b + d = Word * q + ((b + d) % Word)
  <2>1. b + d \in Int
    BY SMT, <1>3
  <2> HIDE DEF d
  <2> QED BY <2>1, ModInWord
<1>5. PICK r \in Int : a + b = Word * r + ((a + b) % Word)
  <2>1. a + b \in Int
    BY SMT
  <2> QED BY <2>1, ModInWord
<1> DEFINE e == (b + d) % Word  f == (a + b) % Word
<1>6. e \in Int /\ f \in Int
  <2>1. b + d \in Int /\ a + b \in Int
    BY SMT, <1>3
  <2> HIDE DEF d
  <2> QED BY <2>1, ModInWord
<1>7. c = Word * p + d
  BY <1>2
<1> HIDE DEF d
<1>8. b + d = Word * q + e /\ a + b = Word * r + f
  BY <1>4, <1>5
<1> HIDE DEF e, f
<1>9. a + e = (f + c) + Word * (r - p - q) /\ r - p - q \in Int /\ f + c \in Int
  BY SMT, <1>1, <1>3, <1>6, <1>7, <1>8
<1>10. ((f + c) + Word * (r - p - q)) % Word = (f + c) % Word
  BY <1>9, ModShift
<1>11. (a + e) % Word = (f + c) % Word
  BY <1>9, <1>10
<1> QED BY <1>11 DEF d, e, f

-----------------------------------------------------------------------------
(* Keys, fields and positions.                                             *)

Distinct(s) ==
  /\ Len(s) \in Nat \ {0}
  /\ \A i, j \in 1 .. Len(s) : s[i] = s[j] => i = j

LEMMA DistinctOne == ASSUME NEW a PROVE Distinct(<<a>>)
  BY SMT DEF Distinct

LEMMA DistinctTwo == ASSUME NEW a, NEW b, a # b PROVE Distinct(<<a, b>>)
  BY SMT DEF Distinct

LEMMA DistinctFour ==
  ASSUME NEW a, NEW b, NEW c, NEW d, a # b, a # c, a # d, b # c, b # d, c # d
  PROVE  Distinct(<<a, b, c, d>>)
  BY SMT DEF Distinct

DataShape == [keys |-> <<"0">>, fields |-> datarec]

LEMMA ShapeCases ==
  ASSUME NEW m \in AllMaps
  PROVE  \/ m = "xdp_stats1" /\ Shape(m) = xdp_stats1
         \/ m = "xdp_stats_map" /\ Shape(m) = xdp_stats_map
         \/ m = "redirect_err_cnt" /\ Shape(m) = redirect_err_cnt
         \/ m = "exception_cnt" /\ Shape(m) = exception_cnt
         \/ m = "exceptions" /\ Shape(m) = exceptions
         \/ m = "xsk_stats" /\ Shape(m) = xsk_stats
         \/ /\ m \in {"cpumap_enqueue_cnt", "cpumap_kthread_cnt", "devmap_xmit_cnt"}
            /\ Shape(m) = DataShape
<1>1. CASE m = "xdp_stats1"
  BY <1>1 DEF Shape
<1>2. CASE m = "xdp_stats_map"
  BY <1>2 DEF Shape
<1>3. CASE m = "redirect_err_cnt"
  BY <1>3 DEF Shape
<1>4. CASE m = "exception_cnt"
  BY <1>4 DEF Shape
<1>5. CASE m = "exceptions"
  BY <1>5 DEF Shape
<1>6. CASE m = "xsk_stats"
  BY <1>6 DEF Shape
<1>7. CASE m \in {"cpumap_enqueue_cnt", "cpumap_kthread_cnt", "devmap_xmit_cnt"}
  BY <1>7 DEF Shape, DataShape
<1> QED BY <1>1, <1>2, <1>3, <1>4, <1>5, <1>6, <1>7 DEF AllMaps

LEMMA ShapesDistinct ==
  ASSUME NEW m \in AllMaps
  PROVE  Distinct(Shape(m).keys) /\ Distinct(Shape(m).fields)
<1>1. Distinct(xdp_stats1.keys) /\ Distinct(xdp_stats1.fields)
  BY DistinctOne DEF xdp_stats1
<1>2. Distinct(xdp_stats_map.keys) /\ Distinct(xdp_stats_map.fields)
  BY DistinctOne, DistinctTwo DEF xdp_stats_map
<1>3. Distinct(redirect_err_cnt.keys) /\ Distinct(redirect_err_cnt.fields)
  BY DistinctOne, DistinctTwo DEF redirect_err_cnt
<1>4. Distinct(exception_cnt.keys) /\ Distinct(exception_cnt.fields)
  BY DistinctOne, DistinctTwo DEF exception_cnt
<1>5. Distinct(exceptions.keys) /\ Distinct(exceptions.fields)
  BY DistinctOne, DistinctTwo DEF exceptions
<1>6. Distinct(xsk_stats.keys) /\ Distinct(xsk_stats.fields)
  BY DistinctOne, DistinctTwo DEF xsk_stats
<1>7. Distinct(DataShape.keys) /\ Distinct(DataShape.fields)
  BY DistinctOne, DistinctFour DEF DataShape, datarec
<1> QED BY <1>1, <1>2, <1>3, <1>4, <1>5, <1>6, <1>7, ShapeCases

LEMMA RangeOfOne == ASSUME NEW a PROVE RangeOf(<<a>>) = {a}
  BY SMT DEF RangeOf

LEMMA RangeOfTwo == ASSUME NEW a, NEW b PROVE RangeOf(<<a, b>>) = {a, b}
  BY SMT DEF RangeOf

LEMMA RangeOfFour ==
  ASSUME NEW a, NEW b, NEW c, NEW d PROVE RangeOf(<<a, b, c, d>>) = {a, b, c, d}
  BY SMT DEF RangeOf

LEMMA ShapeNames ==
  ASSUME NEW m \in AllMaps
  PROVE  \/ m = "xdp_stats1" /\ Keys(m) = {"XDP_PASS"} /\ Fields(m) = {"rx_packets"}
         \/ m = "xdp_stats_map" /\ Keys(m) = {"XDP_PASS"} /\ Fields(m) = {"rx_packets", "rx_bytes"}
         \/ m = "redirect_err_cnt" /\ Keys(m) = {"Success", "Error"} /\ Fields(m) = {"processed"}
         \/ /\ m = "exception_cnt" /\ Keys(m) = {"XDP_ABORTED", "XDP_UNKNOWN"}
            /\ Fields(m) = {"processed"}
         \/ m = "exceptions" /\ Fields(m) = {"processed"}
         \/ m = "xsk_stats" /\ Keys(m) = {"AF_XDP_RX"} /\ Fields(m) = {"rx_packets", "rx_bytes"}
         \/ /\ m \in {"cpumap_enqueue_cnt", "cpumap_kthread_cnt", "devmap_xmit_cnt"}
            /\ Keys(m) = {"0"} /\ Fields(m) = {"processed", "dropped", "info", "err"}
<1>1. CASE m = "xdp_stats1" /\ Shape(m) = xdp_stats1
  BY <1>1, RangeOfOne, RangeOfTwo DEF Keys, Fields, xdp_stats1
<1>2. CASE m = "xdp_stats_map" /\ Shape(m) = xdp_stats_map
  BY <1>2, RangeOfOne, RangeOfTwo DEF Keys, Fields, xdp_stats_map
<1>3. CASE m = "redirect_err_cnt" /\ Shape(m) = redirect_err_cnt
  BY <1>3, RangeOfOne, RangeOfTwo DEF Keys, Fields, redirect_err_cnt
<1>4. CASE m = "exception_cnt" /\ Shape(m) = exception_cnt
  BY <1>4, RangeOfOne, RangeOfTwo DEF Keys, Fields, exception_cnt
<1>5. CASE m = "exceptions" /\ Shape(m) = exceptions
  BY <1>5, RangeOfOne, RangeOfTwo DEF Keys, Fields, exceptions
<1>6. CASE m = "xsk_stats" /\ Shape(m) = xsk_stats
  BY <1>6, RangeOfOne, RangeOfTwo DEF Keys, Fields, xsk_stats
<1>7. CASE /\ m \in {"cpumap_enqueue_cnt", "cpumap_kthread_cnt", "devmap_xmit_cnt"}
           /\ Shape(m) = DataShape
  <2>1. Keys(m) = RangeOf(<<"0">>) /\ Fields(m) = RangeOf(<<"processed", "dropped", "info", "err">>)
    BY <1>7 DEF Keys, Fields, DataShape, datarec
  <2>2. RangeOf(<<"0">>) = {"0"}
    BY RangeOfOne
  <2>3. RangeOf(<<"processed", "dropped", "info", "err">>) = {"processed", "dropped", "info", "err"}
    BY RangeOfFour
  <2> QED BY <1>7, <2>1, <2>2, <2>3
<1> QED BY <1>1, <1>2, <1>3, <1>4, <1>5, <1>6, <1>7, ShapeCases

-----------------------------------------------------------------------------
(* What a run adds.                                                        *)

Store(m) == Fields(m) \X (-MaxAdd .. MaxAdd)

(* A run stores to no more than MaxStores words of one entry. *)
IsRun(m, r) ==
  /\ r.adds \in Seq(Store(m)) /\ Len(r.adds) <= MaxStores
  /\ r.adds # <<>> => r.key \in Keys(m)

LEMMA AddsAreRuns ==
  ASSUME NEW m, NEW key, NEW fs \in Seq(Store(m)), Len(fs) <= MaxStores,
         fs # <<>> => key \in Keys(m)
  PROVE  IsRun(m, Adds(key, fs)) /\ Adds(key, fs).key = key /\ Adds(key, fs).adds = fs
  BY DEF IsRun, Adds

LEMMA MaxAddInt ==
  MaxAdd \in Nat /\ PktLen \in -MaxAdd .. MaxAdd /\ {-1, 0, 1, 2} \subseteq -MaxAdd .. MaxAdd
  BY SMT, SizesAssumption DEF MaxAdd

LEMMA WhenIsSeq ==
  ASSUME NEW S, NEW b \in BOOLEAN, NEW a \in S
  PROVE  When(b, a) \in Seq(S) /\ Len(When(b, a)) <= 1
  BY DEF When

(* Some stores, and one more. *)
LEMMA StoresAreRuns ==
  ASSUME NEW m, NEW key \in Keys(m), NEW s \in Seq(Store(m)),
         NEW b \in BOOLEAN, NEW a \in Store(m),
         Len(s) <= 4
  PROVE  IsRun(m, Adds(key, s \o When(b, a)))
<1>1. When(b, a) \in Seq(Store(m)) /\ Len(When(b, a)) <= 1
  BY WhenIsSeq
<1>2. /\ s \o When(b, a) \in Seq(Store(m))
      /\ Len(s \o When(b, a)) = Len(s) + Len(When(b, a))
      /\ Len(s) \in Nat /\ Len(When(b, a)) \in Nat
  BY <1>1
<1>3. Len(s \o When(b, a)) <= MaxStores
  BY SMT, <1>1, <1>2 DEF MaxStores
<1> QED BY <1>2, <1>3, AddsAreRuns

LEMMA ReceivedAreRuns ==
  ASSUME NEW n \in 1 .. 2
  PROVE  IsRun("xsk_stats", handle_receive_packets(n))
<1> DEFINE S == Store("xsk_stats")
           bytes == <<"rx_bytes", PktLen>>  packets == <<"rx_packets", n>>
           s == [i \in 1 .. n |-> bytes]
<1>1. Keys("xsk_stats") = {"AF_XDP_RX"} /\ Fields("xsk_stats") = {"rx_packets", "rx_bytes"}
  BY ShapeNames DEF AllMaps
<1>2. bytes \in S /\ packets \in S
  <2>1. n \in {0, 1, 2}
    BY SMT
  <2> QED BY <1>1, <2>1, MaxAddInt DEF Store
<1> HIDE DEF S, bytes, packets
<1>3. s \in Seq(S) /\ Len(s) = n /\ <<packets>> \in Seq(S) /\ Len(<<packets>>) = 1
  BY <1>2
<1> HIDE DEF s
<1>4. s \o <<packets>> \in Seq(S) /\ Len(s \o <<packets>>) = n + 1
  BY <1>3
<1>5. Len(s \o <<packets>>) <= MaxStores
  BY SMT, <1>4 DEF MaxStores
<1>6. handle_receive_packets(n) = Adds("AF_XDP_RX", s \o <<packets>>)
  BY DEF handle_receive_packets, s, bytes, packets
<1>7. "AF_XDP_RX" \in Keys("xsk_stats")
  BY <1>1
<1>8. PICK fs \in Seq(Store("xsk_stats")) : fs = s \o <<packets>>
  BY <1>4 DEF S
<1>9. IsRun("xsk_stats", Adds("AF_XDP_RX", fs))
  BY <1>5, <1>7, <1>8, AddsAreRuns
<1> QED BY <1>6, <1>8, <1>9

LEMMA RunsAreRuns ==
  ASSUME NEW m \in AllMaps, NEW p, NEW c, NEW r \in Runs(m, p, c)
  PROVE  /\ IsRun(m, r)
         /\ m = "exceptions" => Len(r.adds) <= 1
         /\ m = "xsk_stats" => c = 0
<1> DEFINE S == Store(m)
<1>1. ASSUME NEW key \in Keys(m), NEW a \in S
      PROVE  IsRun(m, Adds(key, <<a>>)) /\ Adds(key, <<a>>).adds = <<a>>
  <2>1. <<a>> \in Seq(S) /\ Len(<<a>>) = 1
    OBVIOUS
  <2>2. Len(<<a>>) <= MaxStores
    BY SMT, <2>1 DEF MaxStores
  <2>3. PICK fs \in Seq(S) : fs = <<a>> /\ Len(fs) <= MaxStores
    BY ZenonT(30), <2>1, <2>2
  <2> QED BY <2>3, AddsAreRuns
<1>2. ASSUME NEW key
      PROVE  IsRun(m, Adds(key, <<>>)) /\ Adds(key, <<>>).adds = <<>>
  <2>1. <<>> \in Seq(S) /\ Len(<<>>) <= MaxStores
    BY SMT DEF MaxStores
  <2>2. PICK fs \in Seq(S) : fs = <<>> /\ Len(fs) <= MaxStores
    BY ZenonT(30), <2>1
  <2> QED BY <2>2, AddsAreRuns
<1>3. ASSUME NEW key \in Keys(m), NEW a \in S, NEW b \in S
      PROVE  IsRun(m, Adds(key, <<a, b>>))
  <2>1. <<a, b>> \in Seq(S) /\ Len(<<a, b>>) <= MaxStores
    BY SMT DEF MaxStores
  <2> QED BY <2>1, AddsAreRuns
<1>4. ASSUME NEW key \in Keys(m), NEW a \in S, NEW b \in S, NEW d \in S, NEW g \in BOOLEAN
      PROVE  IsRun(m, Adds(key, <<a, b>> \o When(g, d)))
  <2>1. <<a, b>> \in Seq(S) /\ Len(<<a, b>>) <= 4
    BY SMT
  <2> QED BY <2>1, StoresAreRuns
<1>5. ASSUME NEW key \in Keys(m), NEW a \in S, NEW b \in S, NEW e \in S, NEW d \in S,
             NEW g \in BOOLEAN, NEW h \in BOOLEAN
      PROVE  IsRun(m, Adds(key, <<a, b, e>> \o When(g, d) \o When(h, d)))
  <2>1. <<a, b, e>> \in Seq(S) /\ Len(<<a, b, e>>) <= 3 /\ Len(<<a, b, e>>) \in Nat
    BY SMT
  <2>2. When(g, d) \in Seq(S) /\ Len(When(g, d)) <= 1 /\ Len(When(g, d)) \in Nat
    BY WhenIsSeq
  <2> DEFINE t == <<a, b, e>>
             u == When(g, d)
  <2> HIDE DEF t, u
  <2>3. t \in Seq(S) /\ u \in Seq(S) /\ Len(t) <= 3 /\ Len(u) <= 1 /\ Len(t) \in Nat /\ Len(u) \in Nat
    BY <2>1, <2>2 DEF t, u
  <2>4. t \o u \in Seq(S) /\ Len(t \o u) = Len(t) + Len(u)
    BY <2>3, SMT
  <2>5. Len(t \o u) <= 4
    BY SMT, <2>3, <2>4
  <2>6. IsRun(m, Adds(key, (t \o u) \o When(h, d)))
    BY <2>4, <2>5, StoresAreRuns
  <2> QED BY <2>6 DEF t, u
<1>6. ASSUME NEW f \in Fields(m), NEW n \in {-1, 0, 1, 2, PktLen} PROVE <<f, n>> \in S
  BY <1>6, MaxAddInt DEF Store
<1> HIDE DEF S
<1>7. CASE m = "xdp_stats1"
  <2>1. "XDP_PASS" \in Keys(m) /\ <<"rx_packets", 1>> \in S
    BY <1>6, <1>7, ShapeNames
  <2>2. r = Adds("XDP_PASS", << <<"rx_packets", 1>> >>)
    BY <1>7 DEF Runs, xdp_stats1_func
  <2> QED BY <1>1, <1>7, <2>1, <2>2
<1>8. CASE m = "xdp_stats_map"
  <2>1. "XDP_PASS" \in Keys(m) /\ <<"rx_packets", 1>> \in S /\ <<"rx_bytes", PktLen>> \in S
    BY <1>6, <1>8, ShapeNames
  <2>2. r \in {Adds("XDP_PASS", << <<"rx_packets", 1>>, <<"rx_bytes", PktLen>> >>),
               Adds("undefined", <<>>)}
    BY <1>8 DEF Runs, xdp_stats_record_action
  <2> QED BY <1>2, <1>3, <1>8, <2>1, <2>2
<1>9. CASE m = "redirect_err_cnt"
  <2>1. {"Success", "Error"} \subseteq Keys(m) /\ <<"processed", 1>> \in S
    BY <1>6, <1>9, ShapeNames
  <2>2. \E key \in {"Success", "Error"} : r = Adds(key, << <<"processed", 1>> >>)
    BY <1>9 DEF Runs, xdp_redirect_collect_stat
  <2> QED BY <1>1, <1>9, <2>1, <2>2
<1>10. CASE m = "exception_cnt"
  <2>1. {"XDP_ABORTED", "XDP_UNKNOWN"} \subseteq Keys(m) /\ <<"processed", 1>> \in S
    BY <1>6, <1>10, ShapeNames
  <2>2. \E key \in {"XDP_ABORTED", "XDP_UNKNOWN"} : r = Adds(key, << <<"processed", 1>> >>)
    BY <1>10 DEF Runs, trace_xdp_exception
  <2> QED BY <1>1, <1>10, <2>1, <2>2
<1>11. CASE m = "exceptions"
  <2>1. PICK i \in Keys(m) : r \in {trace_xdp_aborted(i, "XDP_ABORTED"), trace_xdp_aborted(i, "undefined")}
    BY <1>11 DEF Runs
  <2>2. r \in {Adds(i, <<>>), Adds(i, << <<"processed", 1>> >>)}
    BY <2>1 DEF trace_xdp_aborted
  <2>3. Len(<<>>) <= 1 /\ Len(<< <<"processed", 1>> >>) <= 1
    BY SMT
  <2> QED BY <1>1, <1>2, <1>6, <1>11, <2>2, <2>3, ShapeNames
<1>12. CASE m = "xsk_stats"
  BY <1>12, ReceivedAreRuns DEF Runs
<1>13. CASE m = "cpumap_enqueue_cnt"
  <2>1. r \in {trace_xdp_cpumap_enqueue(0, 2, 0), trace_xdp_cpumap_enqueue(0, 0, 1),
               trace_xdp_cpumap_enqueue(MAX_CPUS, 1, 0)}
    BY <1>13 DEF Runs
  <2>2. /\ "0" \in Keys(m) /\ <<"info", 1>> \in S
        /\ \A n \in {0, 1, 2} : <<"processed", n>> \in S /\ <<"dropped", n>> \in S
    BY <1>6, <1>13, ShapeNames
  <2>3. \/ r = Adds("0", <<>>)
        \/ \E n \in {0, 1, 2}, d \in {0, 1, 2} : \E b \in BOOLEAN :
             r = Adds("0", << <<"processed", n>>, <<"dropped", d>> >> \o When(b, <<"info", 1>>))
    <3>1. trace_xdp_cpumap_enqueue(MAX_CPUS, 1, 0) = Adds("0", <<>>)
      BY SMT DEF trace_xdp_cpumap_enqueue, MAX_CPUS
    <3>2. ASSUME NEW n, NEW d
          PROVE  trace_xdp_cpumap_enqueue(0, n, d)
                   = Adds("0", << <<"processed", n>>, <<"dropped", d>> >>
                               \o When(n > 0, <<"info", 1>>))
      BY SMT DEF trace_xdp_cpumap_enqueue, MAX_CPUS
    <3>3. (2 > 0) \in BOOLEAN /\ (0 > 0) \in BOOLEAN
      BY SMT
    <3> QED BY <2>1, <3>1, <3>2, <3>3
  <2> QED BY <1>2, <1>4, <1>13, <2>2, <2>3
<1>14. CASE m = "cpumap_kthread_cnt"
  <2>1. r \in {trace_xdp_cpumap_kthread(1, 0, 1), trace_xdp_cpumap_kthread(0, 1, 0)}
    BY <1>14 DEF Runs
  <2>2. /\ "0" \in Keys(m) /\ <<"info", 1>> \in S
        /\ \A n \in {0, 1} : <<"processed", n>> \in S /\ <<"dropped", n>> \in S
    BY <1>6, <1>14, ShapeNames
  <2>3. \E n \in {0, 1}, d \in {0, 1} : \E b \in BOOLEAN :
          r = Adds("0", << <<"processed", n>>, <<"dropped", d>> >> \o When(b, <<"info", 1>>))
    BY <2>1 DEF trace_xdp_cpumap_kthread
  <2> QED BY <1>4, <1>14, <2>2, <2>3
<1>15. CASE m = "devmap_xmit_cnt"
  <2>1. r \in {trace_xdp_devmap_xmit(2, -1, 0), trace_xdp_devmap_xmit(0, 1, 1)}
    BY <1>15 DEF Runs
  <2>2. /\ "0" \in Keys(m) /\ <<"info", 1>> \in S /\ <<"err", 1>> \in S
        /\ \A n \in {-1, 0, 1, 2} : <<"processed", n>> \in S /\ <<"dropped", n>> \in S
    BY <1>6, <1>15, ShapeNames
  <2>3. \E n \in {-1, 0, 1, 2}, d \in {-1, 0, 1, 2} : \E g \in BOOLEAN, h \in BOOLEAN :
          r = Adds("0", << <<"processed", n>>, <<"dropped", d>>, <<"info", 1>> >>
                        \o When(g, <<"err", 1>>) \o When(h, <<"err", 1>>))
    <3>1. ASSUME NEW n \in {-1, 0, 1, 2}, NEW d \in {-1, 0, 1, 2}, NEW e \in {0, 1}
          PROVE  \E g \in BOOLEAN, h \in BOOLEAN :
                   trace_xdp_devmap_xmit(n, d, e)
                     = Adds("0", << <<"processed", n>>, <<"dropped", d>>, <<"info", 1>> >>
                                 \o When(g, <<"err", 1>>) \o When(h, <<"err", 1>>))
      <4>1. (e # 0) \in BOOLEAN /\ (d < 0) \in BOOLEAN
        BY SMT
      <4> QED BY <4>1 DEF trace_xdp_devmap_xmit
    <3>2. \A n \in {-1, 0, 1, 2}, d \in {-1, 0, 1, 2}, e \in {0, 1} :
            \E g \in BOOLEAN, h \in BOOLEAN :
              trace_xdp_devmap_xmit(n, d, e)
                = Adds("0", << <<"processed", n>>, <<"dropped", d>>, <<"info", 1>> >>
                            \o When(g, <<"err", 1>>) \o When(h, <<"err", 1>>))
      BY <3>1
    <3> DEFINE Xmit(n, d) ==
                 \E g \in BOOLEAN, h \in BOOLEAN :
                   r = Adds("0", << <<"processed", n>>, <<"dropped", d>>, <<"info", 1>> >>
                                 \o When(g, <<"err", 1>>) \o When(h, <<"err", 1>>))
    <3>3. ASSUME r = trace_xdp_devmap_xmit(2, -1, 0) PROVE Xmit(2, -1)
      <4>1. 2 \in {-1, 0, 1, 2} /\ -1 \in {-1, 0, 1, 2} /\ 0 \in {0, 1}
        OBVIOUS
      <4> QED BY Zenon, <3>2, <3>3, <4>1
    <3>4. ASSUME r = trace_xdp_devmap_xmit(0, 1, 1) PROVE Xmit(0, 1)
      <4>1. 0 \in {-1, 0, 1, 2} /\ 1 \in {-1, 0, 1, 2} /\ 1 \in {0, 1}
        OBVIOUS
      <4> QED BY Zenon, <3>2, <3>4, <4>1
    <3>5. Xmit(2, -1) \/ Xmit(0, 1)
      BY <2>1, <3>3, <3>4
    <3>6. 2 \in {-1, 0, 1, 2} /\ -1 \in {-1, 0, 1, 2} /\ 0 \in {-1, 0, 1, 2} /\ 1 \in {-1, 0, 1, 2}
      OBVIOUS
    <3> QED BY Zenon, <3>5, <3>6
  <2> QED BY <1>5, <1>15, <2>2, <2>3
<1> QED BY <1>7, <1>8, <1>9, <1>10, <1>11, <1>12, <1>13, <1>14, <1>15 DEF AllMaps

-----------------------------------------------------------------------------
(* The inductive invariant.                                                *)

KeyAt(m, i) == Shape(m).keys[i]
FieldAt(m, j) == Shape(m).fields[j]
NrKeys(m) == Len(Shape(m).keys)
NrFields(m) == Len(Shape(m).fields)
KeyNrs(m) == 1 .. NrKeys(m)
FieldNrs(m) == 1 .. NrFields(m)
WordOf(m, i, j) == <<KeyAt(m, i), FieldAt(m, j)>>

Position(m) == [key : 1 .. NrKeys(m) + 1, cpu : Cpu, field : FieldNrs(m)]

(* What a CPU has still to add. *)
Pending(m) == [word : Words(m), n : -MaxAdd .. MaxAdd, found : BOOLEAN]

(* The words whose counts have only grown. *)
Onward == Words(map) \ back

(* A word's values, and what they can still become: these counts do not wrap. *)
Values(w) == [c \in Cpu |-> value[c][w]]
Limits(w) == [c \in Cpu |-> value[c][w] + Len(busy[c]) * MaxAdd]

Bounded == \A w \in Onward : SumOf(Limits(w))[NrCpus] <= events * (MaxStores * MaxAdd)

(* Who finds no entry has counted nothing. *)
EntriesMade ==
  /\ map # "exceptions" =>
       /\ present = Keys(map)
       /\ \A c \in Cpu : \A i \in 1 .. Len(busy[c]) : busy[c][i].found
  /\ \A c \in Cpu : \A w \in Words(map) : w[1] \notin present => value[c][w] = 0
  /\ map = "exceptions" =>
       \A c \in Cpu :
         /\ Len(busy[c]) <= 1
         /\ busy[c] # <<>> /\ ~busy[c][1].found => value[c][busy[c][1].word] = 0

(* The receive thread counts on its own. *)
OneThread ==
  map = "xsk_stats" =>
    \A c \in Cpu \ {0} : busy[c] = <<>> /\ \A w \in Words(map) : value[c][w] = 0

Counting ==
  /\ map \in Maps /\ differs \subseteq Description /\ reliable \in BOOLEAN
  /\ opened \subseteq Programs(map) /\ present \subseteq Keys(map)
  /\ value \in [Cpu -> [Words(map) -> 0 .. Word - 1]]
  /\ busy \in [Cpu -> Seq(Pending(map))]
  /\ events \in 0 .. MaxEvents /\ back \subseteq Words(map)
  /\ Bounded /\ EntriesMade /\ OneThread

(* Of how many CPUs the j-th field has been copied, and the sum contains it. *)
Copied(p, j) == IF j < p.field THEN p.cpu + 1 ELSE p.cpu
Summed(p, j) == IF Copied(p, j) = NrCpus THEN 0 ELSE Copied(p, j)

Copying == pc \in {"first", "collect"}

(* A sum is no more than what has been counted on its CPUs, and no less than
   what had been when the reading began. *)
SumBetween(s, n, w) ==
  /\ s <= SumOf(Values(w))[n]
  /\ floor[w] <= s + (SumOf(Values(w))[NrCpus] - SumOf(Values(w))[n])

SumsBetween ==
  \A j \in FieldNrs(map) :
    /\ ~Copying \/ Summed(pos, j) = 0 => sum[FieldAt(map, j)] = 0
    /\ Copying /\ ~AtEnd(map, pos) => \A w \in Onward :
         w = WordOf(map, pos.key, j) => SumBetween(sum[FieldAt(map, j)], Summed(pos, j), w)

(* ... and so for a record that has been read. *)
Between(w) == floor[w] <= rec[w] /\ rec[w] <= Counted(w)

(* The i-th key's j-th field, while p is the position. *)
HasBeenRead(i, j, p, copying, k, g) ==
  \/ k \in g /\ (~copying \/ i < p.key)
  \/ copying /\ i = p.key /\ Copied(p, j) = NrCpus

ReadingsBetween ==
  \A i \in KeyNrs(map), j \in FieldNrs(map) : \A w \in Onward :
    w = WordOf(map, i, j) /\ HasBeenRead(i, j, pos, Copying, KeyAt(map, i), good) => Between(w)

(* The record of tracing01 is new, and stays 0 where no entry has been read. *)
Unread ==
  map = "exceptions" /\ pc = "collect" =>
    \A i \in KeyNrs(map), j \in FieldNrs(map) : i >= pos.key => rec[WordOf(map, i, j)] = 0

ReadTypes ==
  /\ pos \in Position(map)
  /\ pc \in {"load", "check", "first", "turn", "collect", "copy", "exited"}
  /\ pc \in {"load", "check", "turn", "exited"} => pos = Start
  /\ pc = "copy" => map = "xsk_stats" /\ pos.key = 1 /\ pos.cpu = 0
  /\ pos.key > NrKeys(map) => StartsKey(pos)
  /\ sum \in [Fields(map) -> 0 .. Word - 1]
  /\ rec \in [Words(map) -> 0 .. Word - 1] /\ prev \in [Words(map) -> 0 .. Word - 1]
  /\ first \in [Words(map) -> 0 .. Word - 1] /\ printed \in [Words(map) -> 0 .. Word - 1]
  /\ floor \in [Words(map) -> Nat] /\ good \subseteq Keys(map)
  /\ reliable => good = Keys(map)
  /\ \A w \in Onward : floor[w] <= Counted(w)

Readings == ReadTypes /\ SumsBetween /\ ReadingsBetween /\ Unread

(* Words of which every difference is printed. *)
EveryTime(m, w) == m # "cpumap_enqueue_cnt" \/ w[2] = "processed"

(* What was reported is the record the next difference is taken to, whatever
   lookups failed ... *)
ReportsAddUp ==
  map # "xsk_stats" => \A w \in Words(map) : EveryTime(map, w) =>
    /\ pc = "turn" => Reported(w) = rec[w]
    /\ pc = "collect" => Reported(w) = prev[w]

(* ... and, unless one does, no more than it. *)
ReportsBelow ==
  reliable => \A w \in Onward :
    /\ pc = "turn" /\ map # "xsk_stats" => Reported(w) <= rec[w]
    /\ pc = "turn" /\ map = "xsk_stats" => Reported(w) <= prev[w] /\ prev[w] <= Counted(w)
    /\ pc = "collect" => Reported(w) <= prev[w] /\ prev[w] <= floor[w]
    /\ pc = "copy" => \A j \in FieldNrs(map) :
         w = WordOf(map, 1, j) =>
           IF j < pos.field THEN Reported(w) <= prev[w] /\ prev[w] <= Counted(w)
                            ELSE Reported(w) <= rec[w]

Reporting ==
  /\ pc \in {"load", "check", "first", "exited"} => first = Zero(map) /\ printed = Zero(map)
  /\ pc \in {"load", "check"} => rec = Zero(map)
  /\ map \in {"exceptions", "xsk_stats"} => first = Zero(map) /\ pc # "first"
  /\ ReportsAddUp /\ ReportsBelow

Inv == Counting /\ Readings /\ Reporting

-----------------------------------------------------------------------------
(* The words of the map.                                                   *)

LEMMA WordFacts ==
  ASSUME NEW m \in AllMaps
  PROVE  /\ NrKeys(m) \in Nat \ {0} /\ NrFields(m) \in Nat \ {0}
         /\ \A i \in KeyNrs(m), j \in FieldNrs(m) :
              /\ KeyAt(m, i) \in Keys(m) /\ FieldAt(m, j) \in Fields(m)
              /\ WordOf(m, i, j) \in Words(m)
         /\ \A w \in Words(m) : \E i \in KeyNrs(m), j \in FieldNrs(m) : w = WordOf(m, i, j)
         /\ \A f \in Fields(m) : \E j \in FieldNrs(m) : f = FieldAt(m, j)
<1>1. Distinct(Shape(m).keys) /\ Distinct(Shape(m).fields)
  BY ShapesDistinct
<1>2. NrKeys(m) \in Nat \ {0} /\ NrFields(m) \in Nat \ {0}
  BY <1>1 DEF Distinct, NrKeys, KeyNrs, NrFields, FieldNrs
<1>3. /\ \A i \in KeyNrs(m) : KeyAt(m, i) \in Keys(m)
      /\ \A k \in Keys(m) : \E i \in KeyNrs(m) : k = KeyAt(m, i)
  BY DEF Keys, RangeOf, KeyAt, NrKeys, KeyNrs
<1>4. /\ \A j \in FieldNrs(m) : FieldAt(m, j) \in Fields(m)
      /\ \A f \in Fields(m) : \E j \in FieldNrs(m) : f = FieldAt(m, j)
  BY DEF Fields, RangeOf, FieldAt, NrFields, FieldNrs
<1>5. ASSUME NEW i \in KeyNrs(m), NEW j \in FieldNrs(m)
      PROVE  WordOf(m, i, j) \in Words(m)
  BY <1>3, <1>4 DEF WordOf, Words
<1>6. ASSUME NEW w \in Words(m)
      PROVE  \E i \in KeyNrs(m), j \in FieldNrs(m) : w = WordOf(m, i, j)
  <2>1. PICK k \in Keys(m), f \in Fields(m) : w = <<k, f>>
    BY DEF Words
  <2> QED BY <1>3, <1>4, <2>1 DEF WordOf
<1> QED BY <1>2, <1>3, <1>4, <1>5, <1>6

LEMMA WordsDistinct ==
  ASSUME NEW m \in AllMaps
  PROVE  /\ \A i, h \in KeyNrs(m) : KeyAt(m, i) = KeyAt(m, h) => i = h
         /\ \A j, n \in FieldNrs(m) : FieldAt(m, j) = FieldAt(m, n) => j = n
         /\ \A i, h \in KeyNrs(m), j, n \in FieldNrs(m) :
              WordOf(m, i, j) = WordOf(m, h, n) => i = h /\ j = n
<1>1. Distinct(Shape(m).keys) /\ Distinct(Shape(m).fields)
  BY ShapesDistinct
<1>2. /\ \A i, h \in KeyNrs(m) : KeyAt(m, i) = KeyAt(m, h) => i = h
      /\ \A j, n \in FieldNrs(m) : FieldAt(m, j) = FieldAt(m, n) => j = n
  BY <1>1 DEF Distinct, NrKeys, KeyNrs, NrFields, FieldNrs, KeyAt, FieldAt
<1>3. ASSUME NEW i, NEW h, NEW j, NEW n, WordOf(m, i, j) = WordOf(m, h, n)
      PROVE  KeyAt(m, i) = KeyAt(m, h) /\ FieldAt(m, j) = FieldAt(m, n)
  BY <1>3 DEF WordOf
<1> QED BY <1>2, <1>3

(* How a word is made up. *)
LEMMA WordParts ==
  ASSUME NEW m
  PROVE
  /\ \A i, j : WordOf(m, i, j)[1] = KeyAt(m, i) /\ WordOf(m, i, j)[2] = FieldAt(m, j)
  /\ \A w \in Words(m) : w = <<w[1], w[2]>> /\ w[1] \in Keys(m) /\ w[2] \in Fields(m)
  /\ \A k \in Keys(m), f \in Fields(m) : <<k, f>> \in Words(m)
  BY DEF WordOf, Words

-----------------------------------------------------------------------------
(* Counting.                                                               *)

LEMMA MapIsKnown ==
  ASSUME Counting
  PROVE  map \in AllMaps
  BY MapsAssumption DEF Counting

LEMMA ValuesTyped ==
  ASSUME Counting, NEW w \in Words(map)
  PROVE  /\ Values(w) \in [Cpu -> Nat] /\ Limits(w) \in [Cpu -> Nat]
         /\ \A c \in Cpu : Values(w)[c] = value[c][w]
         /\ \A c \in Cpu : Limits(w)[c] = value[c][w] + Len(busy[c]) * MaxAdd
         /\ \A c \in Cpu : value[c][w] \in Nat /\ Len(busy[c]) \in Nat
<1>1. \A c \in Cpu : value[c][w] \in Nat /\ Len(busy[c]) \in Nat
  BY SizesAssumption DEF Counting
<1>2. \A c \in Cpu : value[c][w] + Len(busy[c]) * MaxAdd \in Nat
  <2> TAKE c \in Cpu
  <2> DEFINE x == value[c][w]  n == Len(busy[c])
  <2>1. x \in Nat /\ n \in Nat /\ MaxAdd \in Nat
    BY <1>1, MaxAddInt
  <2> HIDE DEF x, n
  <2>2. x + n * MaxAdd \in Nat
    BY SMT, <2>1
  <2> QED BY <2>2 DEF x, n
<1> QED BY <1>1, <1>2 DEF Values, Limits

LEMMA CountTyped ==
  ASSUME Counting, NEW w \in Words(map)
  PROVE  /\ Counted(w) = SumOf(Values(w))[NrCpus] % Word
         /\ \A n \in 0 .. NrCpus : SumOf(Values(w))[n] \in Nat
         /\ Counted(w) \in 0 .. Word - 1 /\ Counted(w) \in Nat
<1>1. Counted(w) = SumOf(Values(w))[NrCpus] % Word
  BY DEF Counted, Values
<1>2. NrCpus \in 0 .. NrCpus
  BY SMT, CpusCounted
<1>3. \A n \in 0 .. NrCpus : SumOf(Values(w))[n] \in Nat
  BY ValuesTyped, SumOfSteps
<1>4. SumOf(Values(w))[NrCpus] \in Int
  BY <1>2, <1>3
<1>5. Counted(w) \in 0 .. Word - 1
  BY <1>1, <1>4, ModInWord
<1>6. Counted(w) \in Nat
  BY SMT, <1>5, SizesAssumption
<1> QED BY <1>1, <1>3, <1>5, <1>6

(* Counts that only grow do not wrap, and neither do the sums of some CPUs' values. *)
LEMMA CountsBounded ==
  ASSUME Counting, NEW w \in Onward
  PROVE  /\ Counted(w) = SumOf(Values(w))[NrCpus]
         /\ Counted(w) \in Nat /\ Counted(w) <= Word - 1
         /\ \A n \in 0 .. NrCpus :
              SumOf(Values(w))[n] \in Nat /\ SumOf(Values(w))[n] <= Counted(w)
         /\ \A c \in Cpu : SumOf(Values(w))[c + 1] = SumOf(Values(w))[c] + value[c][w]
<1>0. w \in Words(map) /\ SumOf(Limits(w))[NrCpus] <= events * (MaxStores * MaxAdd)
  BY DEF Onward, Counting, Bounded
<1>1. /\ Values(w) \in [Cpu -> Nat] /\ Limits(w) \in [Cpu -> Nat]
      /\ \A c \in Cpu : Values(w)[c] = value[c][w]
  BY <1>0, ValuesTyped
<1>3. /\ \A n \in 0 .. NrCpus : SumOf(Values(w))[n] \in Nat
      /\ \A c \in Cpu : SumOf(Values(w))[c + 1] = SumOf(Values(w))[c] + value[c][w]
  BY <1>1, SumOfSteps
<1>4. \A n \in 0 .. NrCpus : SumOf(Values(w))[n] <= SumOf(Values(w))[NrCpus]
  BY <1>1, SumsGrow
<1>5. NrCpus \in 0 .. NrCpus
  BY SMT, CpusCounted
<1>6. SumOf(Values(w))[NrCpus] <= SumOf(Limits(w))[NrCpus]
  <2>1. \A c \in Cpu : Values(w)[c] <= Limits(w)[c]
    <3> TAKE c \in Cpu
    <3> DEFINE x == value[c][w]  n == Len(busy[c])
    <3>1. x \in Nat /\ n \in Nat /\ MaxAdd \in Nat /\ Values(w)[c] = x /\ Limits(w)[c] = x + n * MaxAdd
      BY <1>0, ValuesTyped, MaxAddInt
    <3> HIDE DEF x, n
    <3>2. x <= x + n * MaxAdd
      BY SMT, <3>1
    <3> QED BY <3>1, <3>2
  <2> QED BY <1>1, <2>1, SumsCompare
<1>7. SumOf(Limits(w))[NrCpus] < Word
  <2> DEFINE M == MaxStores * MaxAdd  s == SumOf(Limits(w))[NrCpus]
  <2>1. M \in Nat
    BY SMT, MaxAddInt DEF MaxStores
  <2>2. s <= events * M /\ events \in 0 .. MaxEvents /\ MaxEvents * M < Word
    BY <1>0, NoWrapAssumption DEF Counting
  <2>3. s \in Nat
    BY <1>1, <1>5, SumOfSteps
  <2>4. MaxEvents \in Nat /\ Word \in Nat
    BY SizesAssumption
  <2> HIDE DEF M, s
  <2>5. events * M <= MaxEvents * M
    BY SMT, <2>1, <2>2, <2>4
  <2>6. events * M \in Nat /\ MaxEvents * M \in Nat
    BY SMT, <2>1, <2>2, <2>4
  <2>7. s < Word
    BY SMT, <2>2, <2>3, <2>4, <2>5, <2>6
  <2> QED BY <2>7 DEF s
<1>8. SumOf(Values(w))[NrCpus] \in 0 .. Word - 1
  <2>1. SumOf(Limits(w))[NrCpus] \in Nat /\ SumOf(Values(w))[NrCpus] \in Nat
    BY <1>1, <1>5, SumOfSteps
  <2> QED BY SMT, <1>6, <1>7, <2>1, SizesAssumption
<1>9. Counted(w) = SumOf(Values(w))[NrCpus]
  BY <1>0, <1>8, SmallMod, CountTyped
<1>10. Counted(w) \in Nat /\ Counted(w) <= Word - 1
  BY <1>8, <1>9, SizesAssumption
<1> QED BY <1>3, <1>4, <1>9, <1>10

(* A program starts. *)
LEMMA EventKeepsCounting ==
  ASSUME Counting, NEW c \in Cpu, Event(c)
  PROVE  Counting'
<1>1. map \in AllMaps
  BY MapIsKnown
<1>2. PICK p \in opened : \E r \in Runs(map, p, c) :
        busy' = [busy EXCEPT ![c] = [i \in 1 .. Len(r.adds) |->
                   [word |-> <<r.key, r.adds[i][1]>>, n |-> r.adds[i][2],
                    found |-> r.key \in present]]]
  BY DEF Event
<1>2a. PICK r \in Runs(map, p, c) :
        busy' = [busy EXCEPT ![c] = [i \in 1 .. Len(r.adds) |->
                   [word |-> <<r.key, r.adds[i][1]>>, n |-> r.adds[i][2],
                    found |-> r.key \in present]]]
  BY <1>2
<1> DEFINE q == [i \in 1 .. Len(r.adds) |->
                   [word |-> <<r.key, r.adds[i][1]>>, n |-> r.adds[i][2],
                    found |-> r.key \in present]]
<1>3. /\ IsRun(map, r) /\ (map = "exceptions" => Len(r.adds) <= 1)
      /\ (map = "xsk_stats" => c = 0)
  BY <1>1, RunsAreRuns
<1>4. /\ q \in Seq(Pending(map)) /\ Len(q) = Len(r.adds) /\ Len(q) \in Nat
      /\ \A i \in 1 .. Len(q) :
           q[i].found = (r.key \in present) /\ q[i].word[1] = r.key /\ q[i].word \in Words(map)
  <2>1. r.adds \in Seq(Store(map)) /\ Len(r.adds) \in Nat
    BY <1>3 DEF IsRun
  <2>2. ASSUME NEW i \in 1 .. Len(r.adds)
        PROVE  /\ q[i] \in Pending(map)
               /\ q[i].found = (r.key \in present) /\ q[i].word[1] = r.key
               /\ q[i].word \in Words(map)
    <3>1. r.adds[i] \in Store(map)
      BY <2>1, <2>2
    <3>2. r.adds[i][1] \in Fields(map) /\ r.adds[i][2] \in -MaxAdd .. MaxAdd
      BY <3>1 DEF Store
    <3>3. r.adds # <<>>
      BY <2>1, <2>2
    <3>4. r.key \in Keys(map)
      BY <1>3, <3>3 DEF IsRun
    <3>5. <<r.key, r.adds[i][1]>> \in Words(map)
      BY <3>2, <3>4, WordParts
    <3>6. q[i] = [word |-> <<r.key, r.adds[i][1]>>, n |-> r.adds[i][2],
                  found |-> r.key \in present]
      BY <2>2
    <3>7. (r.key \in present) \in BOOLEAN
      OBVIOUS
    <3> HIDE DEF q
    <3> QED BY <3>2, <3>5, <3>6, <3>7 DEF Pending
  <2>3. q \in [1 .. Len(r.adds) -> Pending(map)]
    BY <2>2
  <2> HIDE DEF q
  <2>4. q \in Seq(Pending(map)) /\ Len(q) = Len(r.adds)
    BY <2>1, <2>3
  <2> QED BY <2>1, <2>2, <2>4
<1>5. /\ busy' = [busy EXCEPT ![c] = q] /\ busy[c] = <<>> /\ busy \in [Cpu -> Seq(Pending(map))]
      /\ UNCHANGED <<map, differs, reliable, opened, present, value, back>>
      /\ events' = events + 1 /\ events < MaxEvents /\ events \in 0 .. MaxEvents
  BY <1>2a DEF Event, Counting
<1> HIDE DEF q
<1>6. /\ busy' \in [Cpu -> Seq(Pending(map))] /\ busy'[c] = q
      /\ \A d \in Cpu \ {c} : busy'[d] = busy[d]
  BY <1>4, <1>5
<1>7. events' \in 0 .. MaxEvents
  BY SMT, <1>5, SizesAssumption
<1>8. Bounded'
  <2> SUFFICES ASSUME NEW w \in Onward
               PROVE  SumOf(Limits(w)')[NrCpus] <= (events + 1) * (MaxStores * MaxAdd)
    BY <1>5 DEF Bounded, Onward
  <2>0. w \in Words(map)
    BY DEF Onward
  <2> DEFINE u == Limits(w)'  v == Limits(w)  M == MaxStores * MaxAdd
  <2>1. /\ v \in [Cpu -> Nat] /\ value[c][w] \in Nat /\ v[c] = value[c][w] + Len(busy[c]) * MaxAdd
        /\ \A d \in Cpu : v[d] = value[d][w] + Len(busy[d]) * MaxAdd
    BY <2>0, ValuesTyped
  <2>2. u = [d \in Cpu |-> value[d][w] + Len(busy'[d]) * MaxAdd]
    BY <1>5 DEF Limits
  <2>3. MaxAdd \in Nat /\ Len(<<>>) = 0
    BY MaxAddInt
  <2>4. u[c] = value[c][w] + Len(q) * MaxAdd /\ v[c] = value[c][w]
    <3>1. v[c] = value[c][w] + 0 * MaxAdd
      BY <1>5, <2>1, <2>3
    <3>2. v[c] = value[c][w]
      BY SMT, <2>1, <2>3, <3>1
    <3> QED BY <1>6, <2>2, <3>2
  <2>5. \A d \in Cpu \ {c} : u[d] = v[d]
    BY <1>6, <2>1, <2>2
  <2>6. Len(q) * MaxAdd \in Nat /\ Len(q) * MaxAdd <= M /\ M \in Nat
    <3>1. Len(q) \in Nat /\ Len(q) <= 5
      BY <1>3, <1>4 DEF IsRun, MaxStores
    <3> QED BY SMT, <2>3, <3>1 DEF MaxStores
  <2>7. u[c] \in Nat
    BY SMT, <2>1, <2>4, <2>6
  <2>8. u \in [Cpu -> Nat]
    BY <2>1, <2>2, <2>5, <2>7
  <2>9. NrCpus \in 0 .. NrCpus /\ NrCpus > c
    BY SMT, CpusCounted DEF Cpu
  <2> HIDE DEF u, v
  <2>10. \A n \in 0 .. NrCpus :
           SumOf(u)[n] + (IF n > c THEN v[c] ELSE 0) = SumOf(v)[n] + (IF n > c THEN u[c] ELSE 0)
    BY <2>1, <2>5, <2>8, SumOfChange
  <2>11. SumOf(u)[NrCpus] + v[c] = SumOf(v)[NrCpus] + u[c]
    BY <2>9, <2>10
  <2>12. SumOf(u)[NrCpus] \in Nat /\ SumOf(v)[NrCpus] \in Nat
    BY <2>1, <2>8, <2>9, SumOfSteps
  <2>13. SumOf(v)[NrCpus] <= events * M
    BY DEF Counting, Bounded, v
  <2> HIDE DEF M
  <2>14. SumOf(u)[NrCpus] <= events * M + M
    <3> DEFINE x == Len(q) * MaxAdd
    <3>1. x \in Nat /\ x <= M /\ u[c] = value[c][w] + x /\ v[c] = value[c][w]
      BY <2>4, <2>6
    <3> HIDE DEF x
    <3>2. events * M \in Int
      BY SMT, <1>5, <2>6
    <3> QED BY SMTT(60), <2>1, <2>6, <2>11, <2>12, <2>13, <3>1, <3>2
  <2>15. events * M + M = (events + 1) * M
    BY SMT, <1>5, <2>6
  <2> QED BY <2>14, <2>15 DEF u, M
<1>9. EntriesMade'
  <2>1. map # "exceptions" =>
          /\ present = Keys(map)
          /\ \A d \in Cpu : \A i \in 1 .. Len(busy'[d]) : busy'[d][i].found
    <3> SUFFICES ASSUME map # "exceptions", NEW d \in Cpu, NEW i \in 1 .. Len(busy'[d])
                 PROVE  present = Keys(map) /\ busy'[d][i].found
      BY DEF Counting, EntriesMade
    <3>1. present = Keys(map)
      BY DEF Counting, EntriesMade
    <3>2. CASE d = c
      <4>1. i \in 1 .. Len(q) /\ busy'[d] = q
        BY <1>6, <3>2
      <4>2. q[i].found = (r.key \in present) /\ q[i].word[1] = r.key /\ q[i].word \in Words(map)
        BY <1>4, <4>1
      <4>3. r.key \in Keys(map)
        BY <4>2, WordParts
      <4> QED BY <3>1, <4>1, <4>2, <4>3
    <3>3. CASE d # c
      BY <1>6, <3>1, <3>3 DEF Counting, EntriesMade
    <3> QED BY <3>2, <3>3
  <2>2. ASSUME map = "exceptions", NEW d \in Cpu
        PROVE  /\ Len(busy'[d]) <= 1
               /\ busy'[d] # <<>> /\ ~busy'[d][1].found => value[d][busy'[d][1].word] = 0
    <3>1. CASE d = c
      <4>1. busy'[d] = q /\ Len(q) <= 1
        BY <1>3, <1>4, <1>6, <2>2, <3>1
      <4>2. ASSUME q # <<>>, ~q[1].found PROVE value[c][q[1].word] = 0
        <5>1. 1 \in 1 .. Len(q)
          BY <1>4, <4>2
        <5>2. q[1].word \in Words(map) /\ q[1].word[1] \notin present
          BY <1>4, <4>2, <5>1
        <5> QED BY <5>2 DEF Counting, EntriesMade
      <4> QED BY <3>1, <4>1, <4>2
    <3>2. CASE d # c
      BY <1>6, <2>2, <3>2 DEF Counting, EntriesMade
    <3> QED BY <3>1, <3>2
  <2>3. \A d \in Cpu : \A w \in Words(map) : w[1] \notin present => value[d][w] = 0
    BY DEF Counting, EntriesMade
  <2> QED BY <1>5, <2>1, <2>2, <2>3 DEF EntriesMade
<1>10. OneThread'
  BY <1>3, <1>5, <1>6 DEF Counting, OneThread
<1>11. Pending(map)' = Pending(map)
  BY <1>5 DEF Pending
<1> QED BY <1>5, <1>6, <1>7, <1>8, <1>9, <1>10, <1>11 DEF Counting

(* A store adds to one word of one CPU: who found no entry has counted nothing so
   far.  If it takes something off, or does not fit, the word has gone back. *)
Stored(c, x, n) ==
  /\ back \subseteq back' /\ back' \subseteq back \cup {x}
  /\ \A d \in Cpu, w \in Words(map) :
       value'[d][w] # value[d][w] => d = c /\ w = x /\ w[1] \in present'
  /\ \A d \in Cpu, w \in Words(map) \ back' :
       value'[d][w] = value[d][w] + (IF d = c /\ w = x THEN n ELSE 0)

LEMMA WrapsInWord ==
  ASSUME NEW m, NEW x \in Int
  PROVE  /\ x % WrapAt(m) \in 0 .. Word - 1
         /\ 0 <= x /\ ~(x >= WrapAt(m)) => x % WrapAt(m) = x
<1>1. WrapAt(m) \in 1 .. Word
  BY SizesAssumption DEF WrapAt
<1> DEFINE n == WrapAt(m)
<1>2. n \in Nat \ {0} /\ n <= Word /\ Word \in Nat
  BY SMT, <1>1, SizesAssumption
<1> HIDE DEF n
<1>3. x % n \in 0 .. n - 1 /\ (0 <= x /\ ~(x >= n) => x % n = x)
  BY SMT, <1>2
<1>4. x % n \in 0 .. Word - 1
  BY SMT, <1>2, <1>3
<1> QED BY <1>3, <1>4 DEF n

LEMMA AddStores ==
  ASSUME Counting, NEW c \in Cpu, Add(c)
  PROVE  /\ UNCHANGED <<map, differs, reliable, opened, events, readerVars>>
         /\ value' \in [Cpu -> [Words(map) -> 0 .. Word - 1]] /\ back' \subseteq Words(map)
         /\ present \subseteq present' /\ present' \subseteq Keys(map)
         /\ \E x \in Words(map), n \in 0 .. MaxAdd : Stored(c, x, n)
<1> DEFINE a == Head(busy[c])
           sum2 == IF a.found THEN value[c][a.word] + a.n ELSE a.n
           stored == a.found \/ a.word[1] \in present \/ Cardinality(present) < HashEntries
<1>1. /\ UNCHANGED <<map, differs, reliable, opened, events, readerVars>>
      /\ busy[c] # <<>> /\ busy \in [Cpu -> Seq(Pending(map))] /\ back \subseteq Words(map)
      /\ value \in [Cpu -> [Words(map) -> 0 .. Word - 1]] /\ present \subseteq Keys(map)
  BY DEF Add, Counting
<1>2. IF stored
      THEN /\ present' = present \cup {a.word[1]}
           /\ value' = [value EXCEPT ![c][a.word] = sum2 % WrapAt(map)]
           /\ back' = back \cup (IF a.n < 0 \/ sum2 >= WrapAt(map) THEN {a.word} ELSE {})
      ELSE present' = present /\ value' = value /\ back' = back
  BY DEF Add
<1>3. busy[c] \in Seq(Pending(map)) /\ a = busy[c][1] /\ Len(busy[c]) >= 1 /\ 1 \in 1 .. Len(busy[c])
      /\ a \in Pending(map)
  BY <1>1
<1>4. a.word \in Words(map) /\ a.n \in -MaxAdd .. MaxAdd /\ a.word[1] \in Keys(map)
  <2>1. a.word \in Words(map) /\ a.n \in -MaxAdd .. MaxAdd
    BY <1>3 DEF Pending
  <2> QED BY <2>1, WordParts
<1>5. sum2 = value[c][a.word] + a.n
  <2>1. CASE a.found
    BY <2>1
  <2>2. CASE ~a.found
    <3>1. map = "exceptions"
      BY <1>3, <2>2 DEF Counting, EntriesMade
    <3>2. value[c][a.word] = 0
      BY <1>1, <1>3, <2>2, <3>1 DEF Counting, EntriesMade
    <3>3. a.n \in Int
      BY SMT, <1>4, MaxAddInt
    <3> QED BY <2>2, <3>2, <3>3
  <2> QED BY <2>1, <2>2
<1>6. PICK x \in Words(map) : x = a.word
  BY <1>4
<1>7. PICK k \in -MaxAdd .. MaxAdd : k = a.n
  BY <1>4
<1>8. sum2 = value[c][x] + k /\ x[1] = a.word[1] /\ x[1] \in Keys(map)
  BY <1>4, <1>5, <1>6, <1>7
<1>9. \A d \in Cpu, w \in Words(map) : value[d][w] \in 0 .. Word - 1 /\ value[d][w] \in Nat
  BY <1>1, ValuesTyped
<1> HIDE DEF a, sum2, stored
<1>10. CASE stored
  <2> DEFINE y == (value[c][x] + k) % WrapAt(map)
  <2>1. /\ present' = present \cup {x[1]} /\ value' = [value EXCEPT ![c][x] = y]
        /\ back' = back \cup (IF k < 0 \/ value[c][x] + k >= WrapAt(map) THEN {x} ELSE {})
    BY <1>2, <1>6, <1>7, <1>8, <1>10
  <2>2. value[c][x] \in Nat /\ k \in Int /\ value[c][x] + k \in Int /\ MaxAdd \in Nat
    BY <1>9, MaxAddInt
  <2>3. y \in 0 .. Word - 1
    BY <2>2, WrapsInWord
  <2>4. ASSUME x \notin back' PROVE y = value[c][x] + k /\ k \in 0 .. MaxAdd
    <3>1. ~(k < 0) /\ ~(value[c][x] + k >= WrapAt(map))
      BY <2>1, <2>4
    <3>2. k \in 0 .. MaxAdd /\ 0 <= value[c][x] + k
      BY SMT, <2>2, <3>1
    <3> QED BY <2>2, <3>1, <3>2, WrapsInWord
  <2> HIDE DEF y
  <2>5. /\ value' \in [Cpu -> [Words(map) -> 0 .. Word - 1]] /\ value'[c][x] = y
        /\ \A d \in Cpu, w \in Words(map) : d # c \/ w # x => value'[d][w] = value[d][w]
    BY <1>1, <2>1, <2>3
  <2>6. PICK n \in 0 .. MaxAdd : x \notin back' => k = n
    <3>1. 0 \in 0 .. MaxAdd
      BY SMT, <2>2
    <3> QED BY <2>4, <3>1
  <2>7. ASSUME NEW d \in Cpu, NEW w \in Words(map) \ back'
        PROVE  value'[d][w] = value[d][w] + (IF d = c /\ w = x THEN n ELSE 0)
    <3>1. CASE d = c /\ w = x
      BY <2>4, <2>5, <2>6, <3>1
    <3>2. CASE d # c \/ w # x
      <4>1. value'[d][w] = value[d][w] /\ value[d][w] \in Nat
        BY <1>9, <2>5, <3>2
      <4> QED BY <3>2, <4>1
    <3> QED BY <3>1, <3>2
  <2>8. Stored(c, x, n)
    BY <2>1, <2>5, <2>7 DEF Stored
  <2> QED BY <1>1, <1>8, <2>1, <2>5, <2>8
<1>11. CASE ~stored
  <2>1. present' = present /\ value' = value /\ back' = back
    BY <1>2, <1>11
  <2>2. 0 \in 0 .. MaxAdd
    BY SMT, MaxAddInt
  <2>3. \A d \in Cpu, w \in Words(map) :
          value'[d][w] = value[d][w] + (IF d = c /\ w = x THEN 0 ELSE 0)
    BY <1>9, <2>1
  <2>4. Stored(c, x, 0)
    BY <2>1, <2>3 DEF Stored
  <2> QED BY <1>1, <2>1, <2>2, <2>4
<1> QED BY <1>10, <1>11

LEMMA SumOfStore ==
  ASSUME Counting, NEW u \in [Cpu -> Nat], NEW v \in [Cpu -> Nat], NEW c \in Cpu, NEW n \in Nat,
         \A d \in Cpu : u[d] = v[d] + (IF d = c THEN n ELSE 0)
  PROVE  \A m \in 0 .. NrCpus : SumOf(u)[m] = SumOf(v)[m] + (IF m > c THEN n ELSE 0)
<1>1. u[c] = v[c] + n /\ u[c] \in Nat /\ v[c] \in Nat /\ c \in Int
  BY CpusCounted DEF Cpu
<1>2. \A d \in Cpu \ {c} : u[d] = v[d]
  <2> TAKE d \in Cpu \ {c}
  <2>1. u[d] = v[d] + 0 /\ v[d] \in Nat
    OBVIOUS
  <2> QED BY <2>1
<1>3. \A m \in 0 .. NrCpus :
        SumOf(u)[m] + (IF m > c THEN v[c] ELSE 0) = SumOf(v)[m] + (IF m > c THEN u[c] ELSE 0)
  BY <1>2, SumOfChange
<1>4. \A m \in 0 .. NrCpus : SumOf(u)[m] \in Nat /\ SumOf(v)[m] \in Nat
  BY SumOfSteps
<1> TAKE m \in 0 .. NrCpus
<1>5. CASE m > c
  BY <1>1, <1>3, <1>4, <1>5
<1>6. CASE ~(m > c)
  BY <1>1, <1>3, <1>4, <1>6
<1> QED BY <1>5, <1>6

(* One count grows, by what was added, or has gone back; the others stay. *)
LEMMA AddCounts ==
  ASSUME Counting, NEW c \in Cpu, Add(c)
  PROVE  \E x \in Words(map), n \in 0 .. MaxAdd :
           /\ Stored(c, x, n)
           /\ \A w \in Words(map) \ back', m \in 0 .. NrCpus :
                SumOf(Values(w)')[m] = SumOf(Values(w))[m] + (IF w = x /\ m > c THEN n ELSE 0)
<1>1. PICK x \in Words(map), n \in 0 .. MaxAdd : Stored(c, x, n)
  BY AddStores
<1>2. value' \in [Cpu -> [Words(map) -> Nat]]
  <2>1. value' \in [Cpu -> [Words(map) -> 0 .. Word - 1]] /\ 0 .. Word - 1 \subseteq Nat
    BY AddStores, SizesAssumption
  <2> QED BY <2>1
<1>3. n \in Nat
  BY MaxAddInt
<1>4. ASSUME NEW w \in Words(map) \ back', NEW m \in 0 .. NrCpus
      PROVE  SumOf(Values(w)')[m] = SumOf(Values(w))[m] + (IF w = x /\ m > c THEN n ELSE 0)
  <2> DEFINE u == Values(w)'  v == Values(w)  k == IF w = x THEN n ELSE 0
  <2>1. v \in [Cpu -> Nat] /\ \A d \in Cpu : v[d] = value[d][w]
    BY ValuesTyped
  <2>2. u = [d \in Cpu |-> value'[d][w]]
    BY DEF Values
  <2>3. u \in [Cpu -> Nat] /\ \A d \in Cpu : u[d] = value'[d][w]
    BY <1>2, <2>2
  <2>4. k \in Nat
    BY <1>3
  <2>5. \A d \in Cpu : u[d] = v[d] + (IF d = c THEN k ELSE 0)
    BY <1>1, <2>1, <2>3 DEF Stored
  <2> HIDE DEF u, v
  <2>6. SumOf(u)[m] = SumOf(v)[m] + (IF m > c THEN k ELSE 0)
    BY SMTT(60), <2>1, <2>3, <2>4, <2>5, SumOfStore
  <2> QED BY <2>6 DEF u, v
<1> QED BY <1>1, <1>4

LEMMA AddKeepsCounting ==
  ASSUME Counting, NEW c \in Cpu, Add(c)
  PROVE  Counting'
<1>1. /\ UNCHANGED <<map, differs, reliable, opened, events, readerVars>>
      /\ value' \in [Cpu -> [Words(map) -> 0 .. Word - 1]] /\ back' \subseteq Words(map)
      /\ present \subseteq present' /\ present' \subseteq Keys(map)
  BY AddStores
<1>2. PICK x \in Words(map), n \in 0 .. MaxAdd :
        /\ back \subseteq back'
        /\ \A d \in Cpu, w \in Words(map) :
             value'[d][w] # value[d][w] => d = c /\ w[1] \in present'
        /\ \A d \in Cpu, w \in Words(map) \ back' :
             value'[d][w] = value[d][w] + (IF d = c /\ w = x THEN n ELSE 0)
  BY AddStores DEF Stored
<1>3. /\ busy[c] # <<>> /\ busy' = [busy EXCEPT ![c] = Tail(busy[c])]
      /\ busy \in [Cpu -> Seq(Pending(map))]
  BY DEF Add, Counting
<1>4. busy[c] \in Seq(Pending(map)) /\ Len(busy[c]) \in Nat \ {0}
  BY <1>3
<1>5. /\ Tail(busy[c]) \in Seq(Pending(map)) /\ Len(Tail(busy[c])) = Len(busy[c]) - 1
      /\ \A i \in 1 .. Len(Tail(busy[c])) :
           Tail(busy[c])[i] = busy[c][i + 1] /\ i + 1 \in 1 .. Len(busy[c])
  BY <1>4
<1>6. /\ busy' \in [Cpu -> Seq(Pending(map))] /\ busy'[c] = Tail(busy[c])
      /\ \A d \in Cpu \ {c} : busy'[d] = busy[d]
  BY <1>3, <1>5
<1>7. n \in Nat /\ n <= MaxAdd /\ MaxAdd \in Nat
  BY MaxAddInt
<1>8. Bounded'
  <2> SUFFICES ASSUME NEW w \in Words(map) \ back'
               PROVE  SumOf(Limits(w)')[NrCpus] <= events * (MaxStores * MaxAdd)
    BY <1>1 DEF Bounded, Onward
  <2> DEFINE u == Limits(w)'  v == Limits(w)
  <2>1. /\ v \in [Cpu -> Nat]
        /\ \A d \in Cpu : v[d] = value[d][w] + Len(busy[d]) * MaxAdd
        /\ \A d \in Cpu : value[d][w] \in Nat /\ Len(busy[d]) \in Nat
    BY ValuesTyped
  <2>2. u = [d \in Cpu |-> value'[d][w] + Len(busy'[d]) * MaxAdd]
    BY DEF Limits
  <2>3. ASSUME NEW d \in Cpu PROVE u[d] \in Nat /\ u[d] <= v[d]
    <3>1. u[d] = value'[d][w] + Len(busy'[d]) * MaxAdd
      BY <2>2
    <3>2. CASE d = c
      <4> DEFINE l == Len(busy[c])  b == value[c][w]
      <4>1. Len(busy'[d]) = l - 1 /\ l \in Nat \ {0} /\ b \in Nat
        BY <1>4, <1>5, <1>6, <2>1, <3>2
      <4>2. value'[d][w] = b \/ value'[d][w] = b + n
        <5>1. value'[d][w] = b + (IF w = x THEN n ELSE 0)
          BY <1>2, <3>2
        <5> QED BY <4>1, <5>1
      <4>3. v[d] = b + l * MaxAdd
        BY <2>1, <3>2
      <4>4. PICK k \in {0, n} : value'[d][w] = b + k
        BY <4>1, <4>2
      <4>5. u[d] = (b + k) + (l - 1) * MaxAdd
        BY <3>1, <4>1, <4>4
      <4> HIDE DEF l, b, u, v
      <4>6. (l - 1) * MaxAdd \in Nat /\ l * MaxAdd = (l - 1) * MaxAdd + MaxAdd
        BY SMT, <1>7, <4>1
      <4>7. k \in Nat /\ k <= MaxAdd
        BY <1>7
      <4> QED BY SMTT(60), <1>7, <4>1, <4>3, <4>5, <4>6, <4>7
    <3>3. CASE d # c
      <4>1. busy'[d] = busy[d]
        BY <1>6, <3>3
      <4>2. value'[d][w] = value[d][w] + 0
        BY <1>2, <3>3
      <4>3. value'[d][w] = value[d][w]
        BY <2>1, <4>2
      <4>4. u[d] = v[d]
        BY <2>1, <3>1, <4>1, <4>3
      <4>5. v[d] \in Nat
        BY <2>1
      <4> HIDE DEF u, v
      <4> QED BY <4>4, <4>5
    <3> QED BY <3>2, <3>3
  <2>4. u \in [Cpu -> Nat]
    BY <2>2, <2>3
  <2>5. NrCpus \in 0 .. NrCpus
    BY SMT, CpusCounted
  <2>6. SumOf(v)[NrCpus] <= events * (MaxStores * MaxAdd)
    BY <1>2 DEF Counting, Bounded, Onward
  <2> HIDE DEF u, v
  <2>7. SumOf(u)[NrCpus] <= SumOf(v)[NrCpus]
    BY <2>1, <2>3, <2>4, SumsCompare
  <2>8. SumOf(u)[NrCpus] \in Nat /\ SumOf(v)[NrCpus] \in Nat
    BY <2>1, <2>4, <2>5, SumOfSteps
  <2> DEFINE M == MaxStores * MaxAdd
  <2>9. events * M \in Int
    <3>1. M \in Int /\ events \in Int
      BY SMT, <1>7 DEF MaxStores, Counting
    <3> HIDE DEF M
    <3> QED BY SMT, <3>1
  <2> DEFINE z == events * M
  <2>10. SumOf(v)[NrCpus] <= z /\ z \in Int
    BY <2>6, <2>9
  <2> HIDE DEF M, z
  <2>11. SumOf(u)[NrCpus] <= z
    BY SMT, <2>7, <2>8, <2>10
  <2> QED BY <2>11 DEF u, M, z
<1>9. EntriesMade'
  <2>1. map # "exceptions" =>
          /\ present' = Keys(map)
          /\ \A d \in Cpu : \A i \in 1 .. Len(busy'[d]) : busy'[d][i].found
    <3> SUFFICES ASSUME map # "exceptions"
                 PROVE  /\ present' = Keys(map)
                        /\ \A d \in Cpu : \A i \in 1 .. Len(busy'[d]) : busy'[d][i].found
      OBVIOUS
    <3>1. /\ present = Keys(map)
          /\ \A d \in Cpu : \A i \in 1 .. Len(busy[d]) : busy[d][i].found
      BY DEF Counting, EntriesMade
    <3>2. present' = Keys(map)
      BY <1>1, <3>1
    <3>3. ASSUME NEW d \in Cpu, NEW i \in 1 .. Len(busy'[d]) PROVE busy'[d][i].found
      <4>1. CASE d = c
        <5>1. i \in 1 .. Len(Tail(busy[c])) /\ busy'[d][i] = Tail(busy[c])[i]
          BY <1>6, <3>3, <4>1
        <5>2. busy'[d][i] = busy[c][i + 1] /\ i + 1 \in 1 .. Len(busy[c])
          BY <1>5, <5>1
        <5> QED BY <3>1, <5>2
      <4>2. CASE d # c
        BY <1>6, <3>1, <4>2
      <4> QED BY <4>1, <4>2
    <3> QED BY <3>2, <3>3
  <2>2. ASSUME map = "exceptions", NEW d \in Cpu
        PROVE  /\ Len(busy'[d]) <= 1
               /\ busy'[d] # <<>> /\ ~busy'[d][1].found => value'[d][busy'[d][1].word] = 0
    <3>1. /\ Len(busy[d]) <= 1
          /\ busy[d] # <<>> /\ ~busy[d][1].found => value[d][busy[d][1].word] = 0
      BY <2>2 DEF Counting, EntriesMade
    <3>2. CASE d = c
      <4>1. Len(busy[c]) = 1
        <5>1. Len(busy[c]) <= 1
          BY <3>1, <3>2
        <5>2. PICK l \in Nat \ {0} : l = Len(busy[c])
          BY <1>4
        <5>3. l <= 1 /\ l # 0 /\ l \in Nat
          BY <5>1, <5>2
        <5>4. l = 1
          BY SMT, <5>3
        <5> QED BY <5>2, <5>4
      <4>2. Len(busy'[d]) = 0 /\ busy'[d] = <<>>
        BY <1>5, <1>6, <3>2, <4>1
      <4> QED BY <4>2
    <3>3. CASE d # c
      <4>1. busy'[d] = busy[d] /\ busy[d] \in Seq(Pending(map))
        BY <1>3, <1>6, <3>3
      <4>2. ASSUME busy[d] # <<>>, ~busy[d][1].found PROVE value'[d][busy[d][1].word] = 0
        <5>1. busy[d][1] \in Pending(map)
          BY <4>1, <4>2
        <5>2. busy[d][1].word \in Words(map)
          BY <5>1 DEF Pending
        <5>3. PICK w \in Words(map) : w = busy[d][1].word
          BY <5>2
        <5>4. value'[d][w] = value[d][w]
          BY <1>2, <3>3
        <5>5. value[d][w] = 0
          BY <3>1, <4>2, <5>3
        <5> QED BY <5>3, <5>4, <5>5
      <4> QED BY <3>1, <4>1, <4>2
    <3> QED BY <3>2, <3>3
  <2>3. ASSUME NEW d \in Cpu, NEW w \in Words(map), w[1] \notin present'
        PROVE  value'[d][w] = 0
    <3>1. value[d][w] = 0
      BY <1>1, <2>3 DEF Counting, EntriesMade
    <3>2. value'[d][w] = value[d][w]
      BY <1>2, <2>3
    <3> QED BY <3>1, <3>2
  <2> QED BY <1>1, <2>1, <2>2, <2>3 DEF EntriesMade
<1>10. OneThread'
  <2> SUFFICES ASSUME map = "xsk_stats", NEW d \in Cpu \ {0}
               PROVE  busy'[d] = <<>> /\ \A w \in Words(map) : value'[d][w] = 0
    BY <1>1 DEF OneThread
  <2>1. busy[d] = <<>> /\ \A w \in Words(map) : value[d][w] = 0
    BY DEF Counting, OneThread
  <2>2. d # c
    BY <1>3, <2>1
  <2>3. busy'[d] = <<>>
    BY <1>6, <2>1, <2>2
  <2>4. \A w \in Words(map) : value'[d][w] = 0
    BY <1>2, <2>1, <2>2
  <2> QED BY <2>3, <2>4
<1>11. Pending(map)' = Pending(map)
  BY <1>1 DEF Pending
<1>12. /\ map' \in Maps /\ differs' \subseteq Description /\ reliable' \in BOOLEAN
       /\ opened' \subseteq Programs(map') /\ present' \subseteq Keys(map')
       /\ events' \in 0 .. MaxEvents
  BY <1>1 DEF Counting
<1> QED BY <1>1, <1>6, <1>8, <1>9, <1>10, <1>11, <1>12 DEF Counting

-----------------------------------------------------------------------------
(* The reader's position.                                                  *)

LEMMA PositionParts ==
  ASSUME NEW m \in AllMaps, NEW p \in Position(m)
  PROVE  /\ p.key \in 1 .. NrKeys(m) + 1 /\ p.cpu \in Cpu /\ p.field \in FieldNrs(m)
         /\ p.key \in Int /\ p.cpu \in Int /\ p.field \in Int
         /\ p.cpu >= 0 /\ p.cpu + 1 <= NrCpus /\ p.field >= 1 /\ p.field <= NrFields(m)
         /\ NrKeys(m) \in Nat \ {0} /\ NrFields(m) \in Nat \ {0} /\ NrCpus \in Nat \ {0}
         /\ AtEnd(m, p) <=> p.key > NrKeys(m)
         /\ ~AtEnd(m, p) <=> p.key \in KeyNrs(m)
<1>1. p.key \in 1 .. NrKeys(m) + 1 /\ p.cpu \in Cpu /\ p.field \in FieldNrs(m)
  BY DEF Position
<1>2. NrKeys(m) \in Nat \ {0} /\ NrFields(m) \in Nat \ {0} /\ NrCpus \in Nat \ {0}
  BY WordFacts, CpusCounted
<1>3. /\ p.key \in Int /\ p.field \in Int
      /\ p.field >= 1 /\ p.field <= NrFields(m)
  BY <1>1, <1>2 DEF FieldNrs
<1>4. p.cpu \in Int /\ p.cpu >= 0 /\ p.cpu + 1 <= NrCpus
  BY <1>1, <1>2 DEF Cpu
<1>5. AtEnd(m, p) <=> p.key > NrKeys(m)
  BY DEF AtEnd, NrKeys
<1>6. ~AtEnd(m, p) <=> p.key \in KeyNrs(m)
  BY <1>1, <1>2, <1>5 DEF KeyNrs
<1> QED BY <1>1, <1>2, <1>3, <1>4, <1>5, <1>6

LEMMA StartPosition ==
  ASSUME NEW m \in AllMaps
  PROVE  /\ Start \in Position(m) /\ Start.key = 1 /\ Start.cpu = 0 /\ Start.field = 1
         /\ StartsKey(Start) /\ ~AtEnd(m, Start)
<1>1. NrKeys(m) \in Nat \ {0} /\ NrFields(m) \in Nat \ {0} /\ 0 \in Cpu
  BY WordFacts, CpusCounted
<1>2. 1 \in 1 .. NrKeys(m) + 1 /\ 1 \in FieldNrs(m)
  BY <1>1 DEF FieldNrs
<1>3. Start \in Position(m)
  BY <1>1, <1>2 DEF Start, Position
<1>4. ~AtEnd(m, Start)
  BY <1>1 DEF AtEnd, Start, NrKeys
<1> QED BY <1>3, <1>4 DEF Start, StartsKey

(* Where a key starts, nothing has been copied of it. *)
LEMMA NothingCopied ==
  ASSUME NEW m \in AllMaps, NEW p, StartsKey(p), NEW j \in FieldNrs(m)
  PROVE  Copied(p, j) = 0 /\ Summed(p, j) = 0
<1>1. j \in Int /\ j >= 1
  BY WordFacts DEF FieldNrs
<1>2. Copied(p, j) = 0
  BY <1>1 DEF Copied, StartsKey
<1> QED BY <1>2 DEF Summed

LEMMA NextKeyPosition ==
  ASSUME NEW m \in AllMaps, NEW p \in Position(m), ~AtEnd(m, p)
  PROVE  /\ NextKey(p) \in Position(m) /\ StartsKey(NextKey(p)) /\ NextKey(p).key = p.key + 1
<1>1. p.key \in KeyNrs(m) /\ NrKeys(m) \in Nat \ {0} /\ NrFields(m) \in Nat \ {0}
  BY PositionParts
<1>2. p.key + 1 \in 1 .. NrKeys(m) + 1 /\ 1 \in FieldNrs(m) /\ 0 \in Cpu
  BY <1>1, CpusCounted DEF KeyNrs, FieldNrs
<1> QED BY <1>2 DEF NextKey, StartsKey, Position

(* One more CPU has been copied of the field, or the key is done. *)
LEMMA NextPosition ==
  ASSUME NEW m \in AllMaps, NEW p \in Position(m), ~AtEnd(m, p)
  PROVE  /\ NextWord(m, p) \in Position(m)
         /\ Copied(p, p.field) = p.cpu /\ Summed(p, p.field) = p.cpu
         /\ \/ /\ NextWord(m, p).key = p.key /\ ~StartsKey(NextWord(m, p))
               /\ Copied(NextWord(m, p), p.field) = p.cpu + 1
               /\ \A j \in FieldNrs(m) \ {p.field} : Copied(NextWord(m, p), j) = Copied(p, j)
               /\ p.cpu + 1 = NrCpus => p.field < NrFields(m)
            \/ /\ NextWord(m, p) = NextKey(p)
               /\ p.cpu + 1 = NrCpus
               /\ \A j \in FieldNrs(m) \ {p.field} : Copied(p, j) = NrCpus
<1> DEFINE q == NextWord(m, p)
<1>1. /\ p.key \in KeyNrs(m) /\ p.key \in 1 .. NrKeys(m) + 1 /\ p.cpu \in Cpu /\ p.field \in FieldNrs(m)
      /\ p.key \in Int /\ p.cpu \in Int /\ p.field \in Int
      /\ p.cpu >= 0 /\ p.cpu + 1 <= NrCpus /\ p.field >= 1 /\ p.field <= NrFields(m)
      /\ NrKeys(m) \in Nat \ {0} /\ NrFields(m) \in Nat \ {0} /\ NrCpus \in Nat \ {0}
  BY PositionParts
<1>2. \A j \in FieldNrs(m) : j \in Int /\ j >= 1 /\ j <= NrFields(m)
  BY <1>1 DEF FieldNrs
<1>3. Copied(p, p.field) = p.cpu /\ Summed(p, p.field) = p.cpu
  BY <1>1 DEF Copied, Summed
<1>4. CASE p.field < NrFields(m)
  <2>1. q = [p EXCEPT !.field = p.field + 1]
    BY <1>4 DEF NextWord, NrFields
  <2>2. p.field + 1 \in FieldNrs(m)
    BY <1>1, <1>4 DEF FieldNrs
  <2>3. q \in Position(m) /\ q.key = p.key /\ q.cpu = p.cpu /\ q.field = p.field + 1
    BY <2>1, <2>2 DEF Position
  <2> HIDE DEF q
  <2>4. ~StartsKey(q)
    BY <1>1, <2>3 DEF StartsKey
  <2>5. Copied(q, p.field) = p.cpu + 1
    BY <1>1, <2>3 DEF Copied
  <2>6. \A j \in FieldNrs(m) \ {p.field} : Copied(q, j) = Copied(p, j)
    <3> TAKE j \in FieldNrs(m) \ {p.field}
    <3>1. j < p.field + 1 <=> j < p.field
      BY <1>1, <1>2
    <3> QED BY <2>3, <3>1 DEF Copied
  <2> QED BY <1>3, <1>4, <2>3, <2>4, <2>5, <2>6 DEF q
<1>5. CASE ~(p.field < NrFields(m)) /\ p.cpu < NrCpus - 1
  <2>1. q = [key |-> p.key, cpu |-> p.cpu + 1, field |-> 1]
    BY <1>5 DEF NextWord, NrFields
  <2>2. p.cpu + 1 \in Cpu /\ 1 \in FieldNrs(m)
    BY <1>1, <1>5 DEF Cpu, FieldNrs
  <2>3. q \in Position(m) /\ q.key = p.key /\ q.cpu = p.cpu + 1 /\ q.field = 1
    BY <1>1, <2>1, <2>2 DEF Position
  <2> HIDE DEF q
  <2>4. ~StartsKey(q)
    BY <1>1, <2>3 DEF StartsKey
  <2>5. \A j \in FieldNrs(m) : Copied(q, j) = p.cpu + 1
    <3> TAKE j \in FieldNrs(m)
    <3>1. ~(j < 1)
      BY <1>2
    <3> QED BY <2>3, <3>1 DEF Copied
  <2>6. \A j \in FieldNrs(m) \ {p.field} : Copied(p, j) = p.cpu + 1
    <3> TAKE j \in FieldNrs(m) \ {p.field}
    <3>1. j < p.field
      BY <1>1, <1>2, <1>5
    <3> QED BY <3>1 DEF Copied
  <2>7. ~(p.cpu + 1 = NrCpus)
    BY <1>1, <1>5
  <2> QED BY <1>1, <1>3, <2>3, <2>4, <2>5, <2>6, <2>7 DEF q
<1>6. CASE ~(p.field < NrFields(m)) /\ ~(p.cpu < NrCpus - 1)
  <2>1. q = NextKey(p)
    BY <1>6 DEF NextWord, NrFields
  <2>2. p.cpu + 1 = NrCpus
    BY <1>1, <1>6
  <2>3. \A j \in FieldNrs(m) \ {p.field} : Copied(p, j) = NrCpus
    <3> TAKE j \in FieldNrs(m) \ {p.field}
    <3>1. j < p.field
      BY <1>1, <1>2, <1>6
    <3> QED BY <2>2, <3>1 DEF Copied
  <2>4. q \in Position(m)
    BY <2>1, NextKeyPosition
  <2> QED BY <1>3, <2>1, <2>2, <2>3, <2>4
<1> QED BY <1>4, <1>5, <1>6

(* A step of a reader leaves the counts alone. *)
KernelStill ==
  /\ UNCHANGED <<map, differs, reliable, present, value, busy, events, back>>
  /\ opened' \subseteq Programs(map)

LEMMA StillCounting ==
  ASSUME Counting, KernelStill
  PROVE  /\ Counting' /\ Onward' = Onward
         /\ \A w : Values(w)' = Values(w) /\ Counted(w)' = Counted(w)
<1>1. \A w : Values(w)' = Values(w) /\ Counted(w)' = Counted(w)
  BY DEF KernelStill, Values, Counted
<1>2. Onward' = Onward /\ Bounded' /\ EntriesMade' /\ OneThread'
  BY DEF KernelStill, Counting, Bounded, EntriesMade, OneThread, Limits, Onward
<1>3. Pending(map)' = Pending(map)
  BY DEF KernelStill, Pending
<1> QED BY <1>1, <1>2, <1>3 DEF KernelStill, Counting

-----------------------------------------------------------------------------
(* Readings.                                                               *)

(* What has been counted since a reading began is not missing from it. *)
LEMMA NothingSummed ==
  ASSUME Counting, NEW w \in Onward, floor[w] \in Nat, floor[w] <= Counted(w)
  PROVE  SumBetween(0, 0, w)
<1>1. /\ Counted(w) = SumOf(Values(w))[NrCpus] /\ Counted(w) \in Nat
  BY CountsBounded
<1>2. SumOf(Values(w))[0] = 0
  BY ValuesTyped, SumOfSteps DEF Onward
<1> QED BY <1>1, <1>2 DEF SumBetween

(* A reading that begins, or one that is done. *)
LEMMA AtStart ==
  ASSUME Counting, Readings, KernelStill,
         pos' = Start, sum' = sum, good' = good, pos = Start \/ AtEnd(map, pos),
         pc' \in {"load", "check", "first", "turn", "collect", "copy", "exited"},
         pc' = "copy" => map = "xsk_stats",
         rec' \in [Words(map) -> 0 .. Word - 1], prev' \in [Words(map) -> 0 .. Word - 1],
         first' \in [Words(map) -> 0 .. Word - 1], printed' \in [Words(map) -> 0 .. Word - 1],
         floor' \in [Words(map) -> Nat], \A w \in Onward : floor'[w] <= Counted(w),
         \/ pc' \in {"first", "collect"}
         \/ rec' = rec /\ floor' = floor /\ (~Copying \/ AtEnd(map, pos)),
         map = "exceptions" /\ pc' = "collect" => rec' = Zero(map)
  PROVE  Readings'
<1>1. map \in AllMaps
  BY MapIsKnown
<1>2. /\ map' = map /\ reliable' = reliable /\ Counting' /\ Onward' = Onward /\ Onward \subseteq Words(map)
      /\ \A w : Values(w)' = Values(w) /\ Counted(w)' = Counted(w)
  BY StillCounting DEF KernelStill, Onward
<1>3. /\ Start \in Position(map) /\ Start.key = 1 /\ Start.cpu = 0 /\ StartsKey(Start)
      /\ NrKeys(map) \in Nat \ {0} /\ ~AtEnd(map, Start)
  BY <1>1, StartPosition, WordFacts
<1>4. StartsKey(pos)
  BY <1>1, <1>3, PositionParts DEF Readings, ReadTypes
<1>5. \A j \in FieldNrs(map) :
        /\ Copied(pos, j) = 0 /\ Summed(pos, j) = 0
        /\ Copied(Start, j) = 0 /\ Summed(Start, j) = 0
  BY <1>1, <1>3, <1>4, NothingCopied
<1>6. ReadTypes'
  <2>1. \A w \in Onward' : floor'[w] <= Counted(w)'
    BY <1>2
  <2>2. sum' \in [Fields(map) -> 0 .. Word - 1] /\ good' \subseteq Keys(map) /\ (reliable' => good' = Keys(map))
    BY <1>2 DEF Readings, ReadTypes
  <2>3. NrKeys(map') = NrKeys(map) /\ ~(pos'.key > NrKeys(map))
    BY <1>2, <1>3
  <2> QED BY <1>2, <1>3, <2>1, <2>2, <2>3 DEF ReadTypes
<1>7. SumsBetween'
  <2> SUFFICES ASSUME NEW j \in FieldNrs(map)
               PROVE  /\ sum'[FieldAt(map, j)] = 0
                      /\ \A w \in Onward : SumBetween(0, 0, w)'
    BY <1>2, <1>5 DEF SumsBetween
  <2>1. sum'[FieldAt(map, j)] = 0
    BY <1>5 DEF Readings, SumsBetween
  <2>2. ASSUME NEW w \in Onward PROVE SumBetween(0, 0, w)'
    <3>1. /\ Counted(w)' = Counted(w) /\ Values(w)' = Values(w)
          /\ floor'[w] \in Nat /\ floor'[w] <= Counted(w)
      BY <1>2
    <3>2. /\ Counted(w) = SumOf(Values(w))[NrCpus] /\ Counted(w) \in Nat
      BY CountsBounded
    <3>3. SumOf(Values(w))[0] = 0
      BY <1>2, ValuesTyped, SumOfSteps
    <3>4. /\ 0 <= SumOf(Values(w)')[0]
          /\ floor'[w] <= 0 + (SumOf(Values(w)')[NrCpus] - SumOf(Values(w)')[0])
      BY <3>1, <3>2, <3>3
    <3> QED BY <3>4 DEF SumBetween
  <2> QED BY <2>1, <2>2
<1>8. ReadingsBetween'
  <2> SUFFICES ASSUME NEW i \in KeyNrs(map), NEW j \in FieldNrs(map), NEW w \in Onward,
                      w = WordOf(map, i, j),
                      HasBeenRead(i, j, Start, Copying', KeyAt(map, i), good)
               PROVE  Between(w)'
    BY <1>2 DEF ReadingsBetween
  <2>1. i \in Int /\ i >= 1 /\ i <= NrKeys(map) /\ NrCpus # 0
    BY <1>3, CpusCounted DEF KeyNrs
  <2>2. ~Copying' /\ KeyAt(map, i) \in good
    BY <1>3, <1>5, <2>1 DEF HasBeenRead
  <2>3. rec' = rec /\ floor' = floor /\ (~Copying \/ AtEnd(map, pos))
    BY <2>2 DEF Copying
  <2>4. AtEnd(map, pos) => i < pos.key
    BY <1>1, <2>1, PositionParts DEF Readings, ReadTypes
  <2>5. HasBeenRead(i, j, pos, Copying, KeyAt(map, i), good)
    BY <2>2, <2>3, <2>4 DEF HasBeenRead
  <2>6. Between(w)
    BY <2>5 DEF Readings, ReadingsBetween
  <2> QED BY <1>2, <2>3, <2>6 DEF Between
<1>9. Unread'
  <2> SUFFICES ASSUME map = "exceptions", pc' = "collect",
                      NEW i \in KeyNrs(map), NEW j \in FieldNrs(map)
               PROVE  rec'[WordOf(map, i, j)] = 0
    BY <1>2 DEF Unread
  <2>1. WordOf(map, i, j) \in Words(map)
    BY <1>1, WordFacts
  <2> QED BY <2>1 DEF Zero
<1> QED BY <1>6, <1>7, <1>8, <1>9 DEF Readings

(* A reader copies a word. *)
LEMMA CopyKeepsReadings ==
  ASSUME Counting, Readings, NEW k \in Keys(map), CopyWord(k)
  PROVE  KernelStill /\ Readings'
<1> DEFINE w0 == WordAt(map, pos)
           f0 == FieldAt(map, pos.field)
           s == (sum[f0] + value[pos.cpu][w0]) % Word
           last == pos.cpu + 1 = NrCpus
           q == NextWord(map, pos)
<1>1. map \in AllMaps /\ pos \in Position(map) /\ ~AtEnd(map, pos)
  BY MapIsKnown DEF Readings, ReadTypes, CopyWord, Reading
<1>2. /\ pos.key \in KeyNrs(map) /\ pos.cpu \in Cpu /\ pos.field \in FieldNrs(map)
      /\ pos.key \in Int /\ pos.cpu \in Int /\ pos.field \in Int
      /\ pos.cpu >= 0 /\ pos.cpu + 1 <= NrCpus /\ pos.field >= 1 /\ pos.field <= NrFields(map)
      /\ NrKeys(map) \in Nat \ {0} /\ NrFields(map) \in Nat \ {0} /\ NrCpus \in Nat \ {0}
  BY <1>1, PositionParts
<1>3. /\ w0 = WordOf(map, pos.key, pos.field) /\ w0 \in Words(map)
      /\ w0[1] = KeyAt(map, pos.key) /\ w0[2] = f0 /\ f0 \in Fields(map)
  <2>1. w0 = WordOf(map, pos.key, pos.field)
    BY DEF WordAt, WordOf, KeyAt, FieldAt
  <2> HIDE DEF w0
  <2> QED BY <1>1, <1>2, <2>1, WordFacts, WordParts
<1>4. last <=> pos.cpu = NrCpus - 1
  BY <1>2
<1> HIDE DEF w0
<1>5. /\ k = KeyAt(map, pos.key) /\ Copying /\ pc' = pc
      /\ sum' = [sum EXCEPT ![f0] = IF last THEN 0 ELSE s]
      /\ rec' = IF last THEN [rec EXCEPT ![w0] = s] ELSE rec
      /\ good' = IF StartsKey(q) THEN good \cup {k} ELSE good
      /\ pos' = q
  <2>1. /\ w0[1] = k /\ Reading
        /\ sum' = [sum EXCEPT ![w0[2]] = IF pos.cpu = NrCpus - 1 THEN 0
                                         ELSE (sum[w0[2]] + value[pos.cpu][w0]) % Word]
        /\ rec' = IF pos.cpu = NrCpus - 1
                  THEN [rec EXCEPT ![w0] = (sum[w0[2]] + value[pos.cpu][w0]) % Word] ELSE rec
        /\ good' = IF StartsKey(q) THEN good \cup {k} ELSE good
        /\ pos' = q /\ UNCHANGED readVars
    BY DEF CopyWord, w0
  <2> QED BY <1>3, <1>4, <2>1 DEF Copying, Reading, readVars
<1>6. /\ KernelStill /\ prev' = prev /\ first' = first /\ printed' = printed /\ floor' = floor
  BY DEF CopyWord, readVars, kernelVars, KernelStill, Counting
<1>7. /\ q \in Position(map)
      /\ Copied(pos, pos.field) = pos.cpu /\ Summed(pos, pos.field) = pos.cpu
      /\ \/ /\ q.key = pos.key /\ ~StartsKey(q)
            /\ Copied(q, pos.field) = pos.cpu + 1
            /\ \A j \in FieldNrs(map) \ {pos.field} : Copied(q, j) = Copied(pos, j)
            /\ last => pos.field < NrFields(map)
         \/ /\ q = NextKey(pos)
            /\ last
            /\ \A j \in FieldNrs(map) \ {pos.field} : Copied(pos, j) = NrCpus
  BY <1>1, NextPosition
<1>8. NextKey(pos) \in Position(map) /\ StartsKey(NextKey(pos)) /\ NextKey(pos).key = pos.key + 1
  BY <1>1, NextKeyPosition
<1> HIDE DEF q, f0
<1>9. /\ map' = map /\ reliable' = reliable /\ Counting' /\ Onward' = Onward /\ Onward \subseteq Words(map)
      /\ \A w : Values(w)' = Values(w) /\ Counted(w)' = Counted(w)
  BY <1>6, StillCounting DEF KernelStill, Onward
(* The sum now contains one CPU more. *)
<1>10. s \in 0 .. Word - 1 /\ (w0 \in Onward => SumBetween(s, pos.cpu + 1, w0))
  <2>1. value[pos.cpu][w0] \in 0 .. Word - 1 /\ sum[f0] \in 0 .. Word - 1
    BY SMTT(60), <1>2, <1>3 DEF Counting, Readings, ReadTypes
  <2>2. value[pos.cpu][w0] \in Nat /\ sum[f0] \in Nat /\ sum[f0] + value[pos.cpu][w0] \in Int
    <3> DEFINE x == value[pos.cpu][w0]  y == sum[f0]
    <3>1. x \in 0 .. Word - 1 /\ y \in 0 .. Word - 1 /\ Word \in Nat
      BY <2>1, SizesAssumption
    <3> HIDE DEF x, y
    <3>2. x \in Nat /\ y \in Nat /\ y + x \in Int
      BY SMT, <3>1
    <3> QED BY <3>2 DEF x, y
  <2>3. s \in 0 .. Word - 1
    BY <2>2, ModInWord
  <2>4. ASSUME w0 \in Onward PROVE SumBetween(s, pos.cpu + 1, w0)
    <3>1. /\ \A n \in 0 .. NrCpus : SumOf(Values(w0))[n] \in Nat /\ SumOf(Values(w0))[n] <= Counted(w0)
          /\ SumOf(Values(w0))[pos.cpu + 1] = SumOf(Values(w0))[pos.cpu] + value[pos.cpu][w0]
          /\ Counted(w0) \in Nat /\ Counted(w0) <= Word - 1
      BY <1>2, <2>4, CountsBounded
    <3>2. pos.cpu \in 0 .. NrCpus /\ pos.cpu + 1 \in 0 .. NrCpus /\ NrCpus \in 0 .. NrCpus
      BY <1>2
    <3>3. floor[w0] \in Nat
      BY <1>3 DEF Readings, ReadTypes
    <3>4. SumBetween(sum[f0], pos.cpu, w0)
      BY <1>1, <1>2, <1>3, <1>5, <1>7, <2>4 DEF Readings, SumsBetween, f0
    <3> DEFINE a == SumOf(Values(w0))[pos.cpu]  b == SumOf(Values(w0))[NrCpus]
               x == value[pos.cpu][w0]  y == sum[f0]  z == floor[w0]
               d == SumOf(Values(w0))[pos.cpu + 1]  e == Counted(w0)
    <3>5. /\ a \in Nat /\ b \in Nat /\ x \in Nat /\ y \in Nat /\ z \in Nat /\ d = a + x /\ d <= e
          /\ e \in Nat /\ e <= Word - 1 /\ y <= a /\ z <= y + (b - a)
      BY <2>2, <3>1, <3>2, <3>3, <3>4 DEF SumBetween
    <3> HIDE DEF a, b, x, y, z, d, e
    <3>6. y + x \in 0 .. Word - 1 /\ y + x <= d /\ z <= (y + x) + (b - d)
      BY SMT, <3>5, SizesAssumption
    <3>7. SumBetween(y + x, pos.cpu + 1, w0)
      BY <3>6 DEF SumBetween, b, d, z
    <3>8. (y + x) % Word = y + x
      BY <3>6, SmallMod
    <3> QED BY <3>7, <3>8 DEF x, y
  <2> QED BY <2>3, <2>4
<1> HIDE DEF s
<1>11. ASSUME last, w0 \in Onward
       PROVE  floor[w0] <= s /\ s <= Counted(w0)
  <2>1. /\ Counted(w0) = SumOf(Values(w0))[NrCpus] /\ Counted(w0) \in Nat
    BY <1>11, CountsBounded
  <2>2. floor[w0] \in Nat /\ s \in Int
    BY <1>3, <1>10, SizesAssumption DEF Readings, ReadTypes
  <2>3. s <= Counted(w0) /\ floor[w0] <= s + (Counted(w0) - Counted(w0))
    BY <1>10, <1>11, <2>1 DEF SumBetween
  <2> QED BY <2>1, <2>2, <2>3
<1> HIDE DEF last
<1>12. /\ sum' \in [Fields(map) -> 0 .. Word - 1]
       /\ sum'[f0] = IF last THEN 0 ELSE s
       /\ \A f \in Fields(map) \ {f0} : sum'[f] = sum[f]
  <2>1. sum \in [Fields(map) -> 0 .. Word - 1] /\ (IF last THEN 0 ELSE s) \in 0 .. Word - 1
    BY <1>10, SizesAssumption DEF Readings, ReadTypes
  <2> QED BY <1>3, <1>5, <2>1
<1>13. /\ rec' \in [Words(map) -> 0 .. Word - 1]
       /\ last => rec'[w0] = s
       /\ ~last => rec' = rec
       /\ \A w \in Words(map) \ {w0} : rec'[w] = rec[w]
  <2>1. rec \in [Words(map) -> 0 .. Word - 1]
    BY DEF Readings, ReadTypes
  <2>2. CASE last
    BY <1>3, <1>5, <1>10, <2>1, <2>2
  <2>3. CASE ~last
    BY <1>5, <2>1, <2>3
  <2> QED BY <2>2, <2>3
<1>14. \A j \in FieldNrs(map) \ {pos.field} :
         FieldAt(map, j) \in Fields(map) \ {f0} /\ WordOf(map, pos.key, j) # w0
  BY <1>1, <1>2, <1>3, WordFacts, WordsDistinct DEF f0
<1>15. Copying' /\ ~AtEnd(map, pos)
  BY <1>1, <1>5 DEF Copying
<1>16. ReadTypes'
  <2>1. \A w \in Onward' : floor'[w] <= Counted(w)'
    BY <1>6, <1>9 DEF Readings, ReadTypes
  <2>2. good' \subseteq Keys(map) /\ (reliable' => good' = Keys(map))
    BY <1>5, <1>9 DEF Readings, ReadTypes
  <2>3. pos' \in Position(map) /\ (pos'.key > NrKeys(map) => StartsKey(pos'))
    <3>1. pos'.key > NrKeys(map) => q.key # pos.key
      BY <1>2, <1>5 DEF KeyNrs
    <3> QED BY <1>5, <1>7, <1>8, <3>1
  <2>4. pc' \in {"first", "collect"}
    BY <1>15 DEF Copying
  <2>5. prev' \in [Words(map) -> 0 .. Word - 1] /\ first' \in [Words(map) -> 0 .. Word - 1]
        /\ printed' \in [Words(map) -> 0 .. Word - 1] /\ floor' \in [Words(map) -> Nat]
    BY <1>6 DEF Readings, ReadTypes
  <2> QED BY <1>9, <1>12, <1>13, <2>1, <2>2, <2>3, <2>4, <2>5 DEF ReadTypes
<1>17. ASSUME NEW w \in Onward PROVE SumBetween(0, 0, w)'
  <2>1. floor'[w] \in Nat /\ floor'[w] <= Counted(w)
    BY <1>6, <1>9 DEF Readings, ReadTypes
  <2>2. SumBetween(0, 0, w)
    BY <1>6, <2>1, NothingSummed
  <2> QED BY <1>6, <1>9, <2>2 DEF SumBetween
<1>18. ASSUME NEW j \in FieldNrs(map)
       PROVE  /\ Summed(q, j) = 0 => sum'[FieldAt(map, j)] = 0
              /\ q.key = pos.key => \A w \in Onward : w = WordOf(map, pos.key, j) =>
                   SumBetween(sum'[FieldAt(map, j)], Summed(q, j), w)
              /\ q.key # pos.key => sum'[FieldAt(map, j)] = 0 /\ Summed(q, j) = 0
  <2>1. CASE q = NextKey(pos)
    <3>1. q.key # pos.key /\ last /\ StartsKey(q)
      BY <1>2, <1>7, <1>8, <2>1
    <3>2. Summed(q, j) = 0
      BY <1>1, <3>1, NothingCopied
    <3>3. sum'[FieldAt(map, j)] = 0
      <4>1. CASE j = pos.field
        BY <1>12, <3>1, <4>1 DEF f0
      <4>2. CASE j # pos.field
        <5>1. Copied(pos, j) = NrCpus
          BY <1>7, <2>1, <3>1, <4>2
        <5>2. sum[FieldAt(map, j)] = 0
          BY <5>1 DEF Summed, Readings, SumsBetween
        <5> QED BY <1>12, <1>14, <4>2, <5>2
      <4> QED BY <4>1, <4>2
    <3> QED BY <3>1, <3>2, <3>3
  <2>2. CASE q # NextKey(pos)
    <3>1. /\ q.key = pos.key /\ Copied(q, pos.field) = pos.cpu + 1
          /\ \A l \in FieldNrs(map) \ {pos.field} : Copied(q, l) = Copied(pos, l)
      BY <1>7, <2>2
    <3>2. CASE j = pos.field
      <4>1. CASE last
        <5>1. Summed(q, j) = 0 /\ sum'[FieldAt(map, j)] = 0
          BY <1>12, <3>1, <3>2, <4>1 DEF Summed, f0, last
        <5>2. w0 \in Onward => SumBetween(0, 0, w0)
          BY <1>3, NothingSummed DEF Readings, ReadTypes
        <5> QED BY <1>3, <3>1, <3>2, <5>1, <5>2
      <4>2. CASE ~last
        <5>1. Summed(q, j) = pos.cpu + 1 /\ pos.cpu + 1 # 0 /\ sum'[FieldAt(map, j)] = s
          BY <1>2, <1>12, <3>1, <3>2, <4>2 DEF Summed, f0, last
        <5> QED BY <1>3, <1>10, <3>1, <3>2, <5>1
      <4> QED BY <4>1, <4>2
    <3>3. CASE j # pos.field
      <4>1. Summed(q, j) = Summed(pos, j) /\ sum'[FieldAt(map, j)] = sum[FieldAt(map, j)]
        BY <1>12, <1>14, <3>1, <3>3 DEF Summed
      <4>2. WordOf(map, pos.key, j) \in Words(map)
        BY <1>1, <1>2, WordFacts
      <4> QED BY <1>1, <1>5, <3>1, <4>1, <4>2 DEF Readings, SumsBetween
    <3> QED BY <3>2, <3>3
  <2> QED BY <2>1, <2>2
<1>19. SumsBetween'
  <2> DEFINE IsBetween(x, n, w) ==
               /\ x <= SumOf(Values(w)')[n]
               /\ floor'[w] <= x + (SumOf(Values(w)')[NrCpus] - SumOf(Values(w)')[n])
  <2> SUFFICES ASSUME NEW j \in FieldNrs(map)
               PROVE  /\ Summed(q, j) = 0 => sum'[FieldAt(map, j)] = 0
                      /\ \A w \in Onward :
                           w = WordOf(map, q.key, j) => IsBetween(sum'[FieldAt(map, j)], Summed(q, j), w)
    BY <1>5, <1>9, <1>15 DEF SumsBetween, SumBetween
  <2>1. ASSUME NEW w \in Onward, w = WordOf(map, q.key, j)
        PROVE  IsBetween(sum'[FieldAt(map, j)], Summed(q, j), w)
    <3>1. CASE q.key = pos.key
      <4>1. SumBetween(sum'[FieldAt(map, j)], Summed(q, j), w)
        BY <1>18, <2>1, <3>1
      <4> QED BY <1>6, <1>9, <4>1 DEF SumBetween
    <3>2. CASE q.key # pos.key
      <4>1. SumBetween(0, 0, w)'
        BY <1>17
      <4>2. sum'[FieldAt(map, j)] = 0 /\ Summed(q, j) = 0
        BY <1>18, <3>2
      <4> QED BY <4>1, <4>2 DEF SumBetween
    <3> QED BY <3>1, <3>2
  <2> QED BY <1>18, <2>1
<1>20. ASSUME NEW i \in KeyNrs(map), NEW j \in FieldNrs(map), NEW w \in Words(map),
              w = WordOf(map, i, j), HasBeenRead(i, j, q, TRUE, KeyAt(map, i), good')
       PROVE  \/ w = w0 /\ last
              \/ w # w0 /\ HasBeenRead(i, j, pos, TRUE, KeyAt(map, i), good)
  <2>1. w = w0 => i = pos.key /\ j = pos.field
    BY ZenonT(60), <1>1, <1>2, <1>3, <1>20, WordsDistinct
  <2>2. i = pos.key /\ j = pos.field => w = w0
    BY <1>3, <1>20
  <2>3. i # pos.key => KeyAt(map, i) # k
    BY <1>1, <1>2, <1>5, WordsDistinct
  <2>4. KeyAt(map, i) \in good' => KeyAt(map, i) \in good \/ i = pos.key
    BY <1>5, <2>3
  <2>5. i \in Int
    BY <1>2 DEF KeyNrs
  <2>6. CASE q = NextKey(pos)
    <3>1. last /\ q.key = pos.key + 1 /\ Copied(q, j) = 0 /\ NrCpus # 0
      BY <1>1, <1>2, <1>7, <1>8, <2>6, NothingCopied
    <3>2. KeyAt(map, i) \in good' /\ i < pos.key + 1
      BY <1>20, <3>1 DEF HasBeenRead
    <3>3. CASE i = pos.key
      <4>1. j # pos.field => Copied(pos, j) = NrCpus
        BY <1>2, <1>7, <2>6, <3>1
      <4> QED BY <2>1, <2>2, <3>1, <3>3, <4>1 DEF HasBeenRead
    <3>4. CASE i # pos.key
      <4>1. i < pos.key
        BY SMT, <1>2, <2>5, <3>2, <3>4
      <4> QED BY <2>1, <2>4, <3>2, <3>4, <4>1 DEF HasBeenRead
    <3> QED BY <3>3, <3>4
  <2>7. CASE q # NextKey(pos)
    <3>1. /\ q.key = pos.key /\ ~StartsKey(q) /\ Copied(q, pos.field) = pos.cpu + 1
          /\ \A l \in FieldNrs(map) \ {pos.field} : Copied(q, l) = Copied(pos, l)
      BY <1>7, <2>7
    <3>2. good' = good
      BY <1>5, <3>1
    <3>3. CASE KeyAt(map, i) \in good' /\ i < q.key
      <4>1. i # pos.key
        BY SMT, <1>2, <2>5, <3>1, <3>3
      <4> QED BY <2>1, <3>1, <3>2, <3>3, <4>1 DEF HasBeenRead
    <3>4. CASE i = q.key /\ Copied(q, j) = NrCpus
      <4>1. CASE j = pos.field
        BY <2>2, <3>1, <3>4, <4>1 DEF last
      <4>2. CASE j # pos.field
        BY <2>1, <3>1, <3>4, <4>2 DEF HasBeenRead
      <4> QED BY <4>1, <4>2
    <3> QED BY <1>20, <3>3, <3>4 DEF HasBeenRead
  <2> QED BY <2>6, <2>7
<1>21. ReadingsBetween'
  <2> SUFFICES ASSUME NEW i \in KeyNrs(map), NEW j \in FieldNrs(map), NEW w \in Onward,
                      w = WordOf(map, i, j), HasBeenRead(i, j, q, TRUE, KeyAt(map, i), good')
               PROVE  Between(w)'
    BY <1>5, <1>9, <1>15 DEF ReadingsBetween
  <2>1. \/ w = w0 /\ last
        \/ w # w0 /\ HasBeenRead(i, j, pos, TRUE, KeyAt(map, i), good)
    BY <1>9, <1>20
  <2>2. CASE w = w0 /\ last
    <3>1. floor'[w] <= rec'[w] /\ rec'[w] <= Counted(w)'
      BY <1>6, <1>9, <1>11, <1>13, <2>2
    <3> QED BY <3>1 DEF Between
  <2>3. CASE w # w0 /\ HasBeenRead(i, j, pos, TRUE, KeyAt(map, i), good)
    <3>1. Between(w)
      BY <1>5, <2>3 DEF Readings, ReadingsBetween
    <3>2. rec'[w] = rec[w]
      BY <1>9, <1>13, <2>3
    <3> QED BY <1>6, <1>9, <3>1, <3>2 DEF Between
  <2> QED BY <2>1, <2>2, <2>3
<1>22. Unread'
  <2> SUFFICES ASSUME map = "exceptions", pc = "collect",
                      NEW i \in KeyNrs(map), NEW j \in FieldNrs(map), i >= q.key
               PROVE  rec'[WordOf(map, i, j)] = 0
    BY <1>5, <1>9 DEF Unread
  <2>1. NrFields(map) = 1
    BY SMT DEF NrFields, Shape, exceptions
  <2>2. last => q = NextKey(pos)
    BY <1>2, <1>7, <2>1
  <2>3. i \in Int /\ WordOf(map, i, j) \in Words(map)
    BY <1>1, <1>2, WordFacts DEF KeyNrs
  <2>4. i >= pos.key /\ (last => i # pos.key)
    BY <1>2, <1>7, <1>8, <2>2, <2>3
  <2>5. rec[WordOf(map, i, j)] = 0
    BY <2>4 DEF Readings, Unread
  <2>6. last => WordOf(map, i, j) # w0
    BY <1>1, <1>2, <1>3, <2>4, WordsDistinct
  <2> QED BY <1>13, <2>3, <2>5, <2>6
<1> QED BY <1>6, <1>16, <1>19, <1>21, <1>22 DEF Readings

(* Nothing is read of a key: its lookup fails, or it has no entry. *)
LEMMA PassedOver ==
  ASSUME Counting, Readings, KernelStill, ~AtEnd(map, pos), Copying, StartsKey(pos),
         NEW k \in Keys(map), k = KeyAt(map, pos.key),
         pos' = NextKey(pos), pc' = pc, sum' = sum, prev' = prev, first' = first,
         printed' = printed, floor' = floor,
         rec' \in [Words(map) -> 0 .. Word - 1],
         \A w \in Words(map) : w[1] # k => rec'[w] = rec[w],
         \/ good' = good \ {k} /\ ~reliable
         \/ good' = good /\ \A w \in Onward : w[1] = k => Between(w)'
  PROVE  Readings'
<1>1. map \in AllMaps /\ pos \in Position(map)
  BY MapIsKnown DEF Readings, ReadTypes
<1>2. /\ pos.key \in KeyNrs(map) /\ pos.key \in Int
      /\ NrKeys(map) \in Nat \ {0} /\ NrFields(map) \in Nat \ {0} /\ NrCpus \in Nat \ {0}
  BY <1>1, PositionParts
<1>3. /\ NextKey(pos) \in Position(map) /\ StartsKey(NextKey(pos)) /\ NextKey(pos).key = pos.key + 1
  BY <1>1, NextKeyPosition
<1>4. /\ map' = map /\ reliable' = reliable /\ Counting' /\ Onward' = Onward /\ Onward \subseteq Words(map)
      /\ \A w : Values(w)' = Values(w) /\ Counted(w)' = Counted(w)
  BY StillCounting DEF KernelStill, Onward
<1>5. \A j \in FieldNrs(map) :
        /\ Summed(pos, j) = 0 /\ Copied(NextKey(pos), j) = 0 /\ Summed(NextKey(pos), j) = 0
  BY <1>1, <1>3, NothingCopied
<1>6. Copying'
  BY DEF Copying
<1>7. ReadTypes'
  <2>1. \A w \in Onward' : floor'[w] <= Counted(w)'
    BY <1>4 DEF Readings, ReadTypes
  <2>2. good' \subseteq Keys(map) /\ (reliable' => good' = Keys(map))
    BY <1>4 DEF Readings, ReadTypes
  <2>3. pc' \in {"first", "collect"}
    BY DEF Copying
  <2> QED BY <1>3, <1>4, <2>1, <2>2, <2>3 DEF Readings, ReadTypes
<1>8. SumsBetween'
  <2> SUFFICES ASSUME NEW j \in FieldNrs(map)
               PROVE  /\ sum'[FieldAt(map, j)] = 0
                      /\ \A w \in Onward : SumBetween(0, 0, w)'
    BY <1>4, <1>5 DEF SumsBetween
  <2>1. sum'[FieldAt(map, j)] = 0
    BY <1>5 DEF Readings, SumsBetween
  <2>2. ASSUME NEW w \in Onward PROVE SumBetween(0, 0, w)'
    <3>1. SumBetween(0, 0, w)
      BY <1>4, NothingSummed DEF Readings, ReadTypes
    <3> QED BY <1>4, <3>1 DEF SumBetween
  <2> QED BY <2>1, <2>2
<1>9. ASSUME NEW i \in KeyNrs(map), NEW j \in FieldNrs(map), NEW w \in Words(map),
             w = WordOf(map, i, j), i # pos.key
      PROVE  w[1] = KeyAt(map, i) /\ w[1] # k
  <2>1. w[1] = KeyAt(map, i)
    BY <1>9, WordParts
  <2>2. KeyAt(map, i) # k
    BY <1>1, <1>2, <1>9, WordsDistinct
  <2> QED BY <2>1, <2>2
<1>10. ReadingsBetween'
  <2> SUFFICES ASSUME NEW i \in KeyNrs(map), NEW j \in FieldNrs(map), NEW w \in Onward,
                      w = WordOf(map, i, j),
                      HasBeenRead(i, j, NextKey(pos), TRUE, KeyAt(map, i), good')
               PROVE  Between(w)'
    BY <1>4, <1>6 DEF ReadingsBetween
  <2>1. KeyAt(map, i) \in good' /\ i < pos.key + 1 /\ i \in Int
    BY <1>2, <1>3, <1>5 DEF HasBeenRead, KeyNrs
  <2>2. CASE i = pos.key
    <3>1. w[1] = k
      BY <2>2, WordParts
    <3> QED BY <2>1, <2>2, <3>1
  <2>3. CASE i # pos.key
    <3>1. i < pos.key
      BY SMT, <1>2, <2>1, <2>3
    <3>2. KeyAt(map, i) \in good
      BY <2>1
    <3>3. Between(w)
      BY <3>1, <3>2 DEF HasBeenRead, Readings, ReadingsBetween
    <3>4. rec'[w] = rec[w]
      BY <1>4, <1>9, <2>3
    <3> QED BY <1>4, <3>3, <3>4 DEF Between
  <2> QED BY <2>2, <2>3
<1>11. Unread'
  <2> SUFFICES ASSUME map = "exceptions", pc = "collect",
                      NEW i \in KeyNrs(map), NEW j \in FieldNrs(map), i >= pos.key + 1
               PROVE  rec'[WordOf(map, i, j)] = 0
    BY <1>3, <1>4 DEF Unread
  <2>1. PICK w \in Words(map) : w = WordOf(map, i, j)
    BY <1>1, WordFacts
  <2>2. i # pos.key /\ i >= pos.key
    BY <1>2 DEF KeyNrs
  <2>3. rec[w] = 0
    BY <2>1, <2>2 DEF Readings, Unread
  <2>4. rec'[w] = rec[w]
    BY <1>9, <2>1, <2>2
  <2> QED BY <2>1, <2>3, <2>4
<1> QED BY <1>7, <1>8, <1>10, <1>11 DEF Readings

(* A lookup that fails, whatever the record is then filled with. *)
FailedLookup(k) ==
  /\ LookupFails(k)
  /\ rec' \in [Words(map) -> 0 .. Word - 1]
  /\ \A w \in Words(map) : w[1] # k => rec'[w] = rec[w]

LEMMA FailureKeepsReadings ==
  ASSUME Counting, Readings, NEW k \in Keys(map), FailedLookup(k)
  PROVE  KernelStill /\ Readings'
<1>1. /\ KernelStill /\ ~AtEnd(map, pos) /\ Copying /\ StartsKey(pos) /\ k = KeyAt(map, pos.key)
      /\ pos' = NextKey(pos) /\ pc' = pc /\ sum' = sum /\ prev' = prev /\ first' = first
      /\ printed' = printed /\ floor' = floor
      /\ good' = good \ {k} /\ ~reliable
  BY DEF FailedLookup, LookupFails, Reading, Copying, readVars, kernelVars, KernelStill, Counting, KeyAt
<1> QED BY <1>1, PassedOver DEF FailedLookup

(* A key without an entry: nothing has been counted. *)
LEMMA NoEntryKeepsReadings ==
  ASSUME Counting, Readings, NEW k \in Keys(map), get_next_key(k), pc # "first"
  PROVE  KernelStill /\ Readings'
<1>1. /\ KernelStill /\ ~AtEnd(map, pos) /\ Copying /\ StartsKey(pos) /\ k = KeyAt(map, pos.key)
      /\ pos' = NextKey(pos) /\ pc' = pc /\ sum' = sum /\ prev' = prev /\ first' = first
      /\ printed' = printed /\ floor' = floor /\ rec' = rec /\ good' = good
      /\ map = "exceptions" /\ pc = "collect" /\ k \notin present
  BY DEF get_next_key, Reading, Copying, readVars, kernelVars, KernelStill, Counting, KeyAt
<1>2. map \in AllMaps /\ pos.key \in KeyNrs(map) /\ pos.key \in Int
  BY <1>1, MapIsKnown, PositionParts DEF Readings, ReadTypes
<1>3. /\ \A w : Values(w)' = Values(w) /\ Counted(w)' = Counted(w)
  BY <1>1, StillCounting
<1>4. ASSUME NEW w \in Onward, w[1] = k PROVE Between(w)'
  <2>0. w \in Words(map)
    BY DEF Onward
  <2>1. PICK i \in KeyNrs(map), j \in FieldNrs(map) : w = WordOf(map, i, j)
    BY <1>2, <2>0, WordFacts
  <2>2. i = pos.key
    <3>1. KeyAt(map, i) = KeyAt(map, pos.key)
      BY <1>1, <1>4, <2>1, WordParts
    <3> QED BY <1>2, <3>1, WordsDistinct
  <2>3. rec[w] = 0
    BY <1>1, <1>2, <2>1, <2>2 DEF Readings, Unread
  <2>4. Counted(w) = 0
    <3>1. \A c \in Cpu : Values(w)[c] = 0
      BY <1>1, <1>4, <2>0, ValuesTyped DEF Counting, EntriesMade
    <3>2. NrCpus \in 0 .. NrCpus
      BY SMT, CpusCounted
    <3> QED BY <2>0, <3>1, <3>2, ValuesTyped, SumOfZeros, CountsBounded
  <2>5. floor[w] \in Nat /\ floor[w] <= Counted(w)
    BY <2>0 DEF Readings, ReadTypes
  <2> QED BY <1>1, <1>3, <2>3, <2>4, <2>5 DEF Between
<1>5. rec' \in [Words(map) -> 0 .. Word - 1]
  BY <1>1 DEF Readings, ReadTypes
<1> QED BY <1>1, <1>4, <1>5, PassedOver

(* Other CPUs count. *)
LEMMA OnwardCounts ==
  Counting => \A w \in Onward : Counted(w) = SumOf(Values(w))[NrCpus]
  BY CountsBounded

LEMMA OnwardCountsNext ==
  Counting' => (\A w \in Onward : Counted(w) = SumOf(Values(w))[NrCpus])'
  BY OnwardCounts, PTL

(* CPU c has added n to word x, as far as counts have not gone back. *)
Grown(c, x, n) ==
  \A w \in Words(map) \ back', m \in 0 .. NrCpus :
    SumOf(Values(w)')[m] = SumOf(Values(w))[m] + (IF w = x /\ m > c THEN n ELSE 0)

LEMMA CountsKeepReadings ==
  ASSUME Counting, Counting', Readings,
         UNCHANGED <<map, reliable, readerVars>>, back \subseteq back',
         NEW c \in Cpu, NEW x, NEW n \in Nat, Grown(c, x, n)
  PROVE  /\ Readings'
         /\ \A w \in Words(map) \ back' : Counted(w)' = Counted(w) + (IF w = x THEN n ELSE 0)
<1>0. \A w \in Words(map) \ back', m \in 0 .. NrCpus :
        SumOf(Values(w)')[m] = SumOf(Values(w))[m] + (IF w = x /\ m > c THEN n ELSE 0)
  BY DEF Grown
<1> USE <1>0
<1>1. /\ map' = map /\ reliable' = reliable /\ pc' = pc /\ pos' = pos /\ sum' = sum /\ rec' = rec
      /\ prev' = prev /\ first' = first /\ printed' = printed /\ good' = good /\ floor' = floor
      /\ Copying' = Copying /\ Onward' = Words(map) \ back' /\ Onward' \subseteq Onward
  BY DEF readerVars, historyVars, Copying, Onward
<1>2. map \in AllMaps /\ pos \in Position(map)
  BY MapIsKnown DEF Readings, ReadTypes
<1>3. NrCpus \in 0 .. NrCpus /\ NrCpus \in Nat /\ c \in Int /\ NrCpus > c
  BY SMT, CpusCounted DEF Cpu
<1>4. ASSUME NEW w \in Words(map) \ back'
      PROVE  /\ Counted(w)' = Counted(w) + (IF w = x THEN n ELSE 0)
             /\ Counted(w) \in Nat /\ Counted(w)' \in Nat /\ Counted(w) <= Counted(w)'
             /\ floor[w] \in Nat /\ rec[w] \in Nat
             /\ \A m \in 0 .. NrCpus :
                  /\ SumOf(Values(w))[m] \in Nat /\ SumOf(Values(w)')[m] \in Nat
                  /\ SumOf(Values(w))[m] <= SumOf(Values(w)')[m]
                  /\ SumOf(Values(w))[NrCpus] - SumOf(Values(w))[m] <=
                       SumOf(Values(w)')[NrCpus] - SumOf(Values(w)')[m]
  <2>0. w \in Onward /\ w \in Onward'
    BY <1>1
  <2>1. Counted(w) = SumOf(Values(w))[NrCpus] /\ Counted(w)' = SumOf(Values(w)')[NrCpus]
    BY <2>0, CountsBounded, OnwardCountsNext
  <2>2. SumOf(Values(w)')[NrCpus] = SumOf(Values(w))[NrCpus] + (IF w = x THEN n ELSE 0)
    <3>1. SumOf(Values(w)')[NrCpus] =
            SumOf(Values(w))[NrCpus] + (IF w = x /\ NrCpus > c THEN n ELSE 0)
      BY <1>3
    <3> QED BY <1>3, <3>1
  <2>3. \A m \in 0 .. NrCpus : SumOf(Values(w))[m] \in Nat
    BY <2>0, CountsBounded
  <2>4. floor[w] \in Nat /\ rec[w] \in Nat
    BY SizesAssumption DEF Readings, ReadTypes
  <2>5. ASSUME NEW m \in 0 .. NrCpus
        PROVE  /\ SumOf(Values(w))[m] \in Nat /\ SumOf(Values(w)')[m] \in Nat
               /\ SumOf(Values(w))[m] <= SumOf(Values(w)')[m]
               /\ SumOf(Values(w))[NrCpus] - SumOf(Values(w))[m] <=
                    SumOf(Values(w)')[NrCpus] - SumOf(Values(w)')[m]
    <3> DEFINE a == SumOf(Values(w))[m]  b == SumOf(Values(w)')[m]
               d == SumOf(Values(w))[NrCpus]  e == SumOf(Values(w)')[NrCpus]
    <3>1. /\ a \in Nat /\ d \in Nat
          /\ b = a + (IF w = x /\ m > c THEN n ELSE 0) /\ e = d + (IF w = x THEN n ELSE 0)
      BY <1>3, <2>2, <2>3
    <3> HIDE DEF a, b, d, e
    <3>2. b \in Nat /\ a <= b /\ d - a <= e - b
      BY <3>1
    <3> QED BY <3>1, <3>2 DEF a, b, d, e
  <2>6. Counted(w) \in Nat
    BY <1>3, <2>1, <2>3
  <2>7. Counted(w)' = Counted(w) + (IF w = x THEN n ELSE 0)
    BY <2>1, <2>2
  <2>8. Counted(w)' \in Nat /\ Counted(w) <= Counted(w)'
    BY <2>6, <2>7
  <2> QED BY <2>4, <2>5, <2>6, <2>7, <2>8
<1>5. ReadTypes'
  <2>1. \A w \in Onward' : floor[w] <= Counted(w)'
    <3> TAKE w \in Onward'
    <3>1. floor[w] <= Counted(w)
      BY <1>1 DEF Readings, ReadTypes
    <3> QED BY <1>1, <1>4, <3>1
  <2> QED BY <1>1, <2>1 DEF Readings, ReadTypes
<1>6. SumsBetween'
  <2> SUFFICES ASSUME NEW j \in FieldNrs(map), Copying, ~AtEnd(map, pos), NEW w \in Words(map) \ back',
                      w = WordOf(map, pos.key, j)
               PROVE  SumBetween(sum[FieldAt(map, j)], Summed(pos, j), w)'
    BY <1>1 DEF Readings, SumsBetween
  <2> DEFINE s == sum[FieldAt(map, j)]  m == Summed(pos, j)
  <2>1. SumBetween(s, m, w)
    BY <1>1 DEF Readings, SumsBetween
  <2>2. m \in 0 .. NrCpus
    <3>1. pos.cpu \in Int /\ pos.cpu >= 0 /\ pos.cpu + 1 <= NrCpus
      BY <1>2, PositionParts
    <3> QED BY <1>3, <3>1 DEF Summed, Copied
  <2>3. s \in Nat
    <3>1. FieldAt(map, j) \in Fields(map)
      BY <1>2, WordFacts
    <3> QED BY SMT, <3>1, SizesAssumption DEF Readings, ReadTypes
  <2> HIDE DEF s, m
  <2> DEFINE a == SumOf(Values(w))[m]  b == SumOf(Values(w)')[m]
             d == SumOf(Values(w))[NrCpus]  e == SumOf(Values(w)')[NrCpus]
             z == floor[w]
  <2>4. /\ a \in Nat /\ b \in Nat /\ d \in Nat /\ e \in Nat /\ z \in Nat
        /\ a <= b /\ d - a <= e - b /\ s <= a /\ z <= s + (d - a)
    BY <1>3, <1>4, <2>1, <2>2 DEF SumBetween
  <2> HIDE DEF a, b, d, e, z
  <2>5. s <= b /\ z <= s + (e - b)
    BY SMT, <2>3, <2>4
  <2>6. s' = s /\ m' = m
    BY <1>1 DEF s, m
  <2>7. SumBetween(s, m, w)'
    BY <1>1, <2>5, <2>6 DEF SumBetween, b, e, z
  <2> QED BY <2>7 DEF s, m
<1>7. ReadingsBetween'
  <2> SUFFICES ASSUME NEW w \in Words(map) \ back', Between(w)
               PROVE  Between(w)'
    BY <1>1 DEF Readings, ReadingsBetween
  <2> QED BY <1>1, <1>4 DEF Between
<1>8. Unread'
  BY <1>1 DEF Readings, Unread
<1> QED BY <1>4, <1>5, <1>6, <1>7, <1>8 DEF Readings

-----------------------------------------------------------------------------
(* What the readers do, in the terms they share.                           *)

Attaches ==
  /\ pc = "load" /\ pc' \in {"load", "check", "exited"}
  /\ opened' \subseteq Programs(map) /\ UNCHANGED startVars

Checks ==
  /\ pc = "check" /\ opened' \subseteq Programs(map) /\ UNCHANGED startVars
  /\ \/ pc' = "exited"
     \/ pc' = "first" /\ map \notin {"exceptions", "xsk_stats"}
     \/ pc' = "turn" /\ map = "exceptions"

Begins == FirstReading /\ map \notin {"exceptions", "xsk_stats"}

Turns ==
  /\ map # "xsk_stats"
  /\ \E r : NewTurn(r, rec) /\ r \in [Words(map) -> 0 .. Word - 1] /\ (map = "exceptions" => r = Zero(map))

Prints ==
  /\ map \notin {"exceptions", "xsk_stats"}
  /\ \E shown :
       /\ ShowLines(shown, "turn")
       /\ \A w \in Words(map) : EveryTime(map, w) /\ w \notin shown => Difference(w) = 0

ThreadTurns == map = "xsk_stats" /\ NewTurn(rec, prev)

ThreadPrints == map = "xsk_stats" /\ ShowLines(Words(map), "copy")

ThreadCopies == map = "xsk_stats" /\ xsk_stats_poll

ReadersStep ==
  \/ Attaches \/ Checks \/ Begins \/ Turns \/ Prints \/ exception_print
  \/ \E k \in Keys(map) : CopyWord(k) \/ FailedLookup(k) \/ get_next_key(k)
  \/ ThreadTurns \/ ThreadPrints \/ ThreadCopies

LEMMA ZeroTyped ==
  Zero(map) \in [Words(map) -> 0 .. Word - 1] /\ \A w \in Words(map) : Zero(map)[w] = 0
<1>1. 0 \in 0 .. Word - 1
  BY SMT, SizesAssumption
<1> QED BY <1>1 DEF Zero

LEMMA GarbageFails ==
  ASSUME Readings, NEW k \in Keys(map), LookupFails(k), TakesGarbage(k)
  PROVE  FailedLookup(k)
<1>1. CASE UNCHANGED rec
  BY <1>1 DEF FailedLookup, Readings, ReadTypes
<1>2. ASSUME NEW g \in [Fields(map) -> Garbage],
             rec' = [w \in Words(map) |-> IF w[1] = k THEN g[w[2]] ELSE rec[w]]
      PROVE  FailedLookup(k)
  <2>1. ASSUME NEW w \in Words(map) PROVE g[w[2]] \in 0 .. Word - 1 /\ rec[w] \in 0 .. Word - 1
    <3>1. w[2] \in Fields(map)
      BY WordParts
    <3>2. g[w[2]] \in Garbage
      BY <3>1
    <3> QED BY <3>2, GarbageAssumption DEF Readings, ReadTypes
  <2>2. rec' \in [Words(map) -> 0 .. Word - 1]
    BY <1>2, <2>1
  <2>3. \A w \in Words(map) : w[1] # k => rec'[w] = rec[w]
    BY <1>2
  <2> QED BY <2>2, <2>3 DEF FailedLookup
<1> QED BY <1>1, <1>2 DEF TakesGarbage

LEMMA KeptFails ==
  ASSUME Readings, NEW k \in Keys(map), KeepsRecord(k)
  PROVE  FailedLookup(k)
  BY DEF KeepsRecord, FailedLookup, Readings, ReadTypes

LEMMA ValueFails ==
  ASSUME map \in AllMaps, Readings, NEW k \in Keys(map), LookupFails(k), map = "exceptions",
         NEW v \in Garbage \cup {rec[w] : w \in Words(map)},
         rec' = [rec EXCEPT ![<<k, "processed">>] = v]
  PROVE  FailedLookup(k)
<1>1. v \in 0 .. Word - 1 /\ rec \in [Words(map) -> 0 .. Word - 1]
  BY GarbageAssumption DEF Readings, ReadTypes
<1>2. "processed" \in Fields(map)
  BY ShapeNames
<1>3. <<k, "processed">> \in Words(map)
  BY <1>2, WordParts
<1>4. rec' \in [Words(map) -> 0 .. Word - 1]
  BY <1>1, <1>3
<1>5. \A w \in Words(map) : w[1] # k => rec'[w] = rec[w]
  BY <1>1, <1>3
<1> QED BY <1>4, <1>5 DEF FailedLookup

LEMMA CheckIsCheck ==
  ASSUME Check, map # "xsk_stats", opened' \subseteq Programs(map)
  PROVE  Checks
  BY DEF Check, Checks, Goto

LEMMA ReaderSteps ==
  ASSUME Counting, Readings, Reader
  PROVE  ReadersStep
<1>1. map \in AllMaps /\ opened \subseteq Programs(map)
  BY MapIsKnown DEF Counting
<1>2. /\ rec \in [Words(map) -> 0 .. Word - 1] /\ prev \in [Words(map) -> 0 .. Word - 1]
      /\ Zero(map) \in [Words(map) -> 0 .. Word - 1]
  BY ZeroTyped DEF Readings, ReadTypes
<1>3. ASSUME map \notin {"exceptions", "xsk_stats"}, FirstReading PROVE ReadersStep
  BY <1>3 DEF ReadersStep, Begins
<1>4. ASSUME map \notin {"exceptions", "xsk_stats"}, NewTurn(rec, rec) \/ NewTurn(prev, rec)
      PROVE  ReadersStep
  BY <1>2, <1>4 DEF ReadersStep, Turns
<1>5. ASSUME map \notin {"exceptions", "xsk_stats"}, ShowLines(Words(map), "turn")
      PROVE  ReadersStep
  BY <1>5 DEF ReadersStep, Prints
<1>6. ASSUME NEW k \in Keys(map), CopyWord(k) \/ (LookupFails(k) /\ TakesGarbage(k)) \/ KeepsRecord(k)
      PROVE  ReadersStep
  BY <1>6, GarbageFails, KeptFails DEF ReadersStep
<1>7. ASSUME Check, map # "xsk_stats", opened' = opened \/ opened' = {} PROVE ReadersStep
  BY <1>1, <1>7, CheckIsCheck DEF ReadersStep
<1>8. ASSUME pc = "load", Goto("check") \/ Goto("load") \/ Goto("exited"),
             opened' \subseteq Programs(map), UNCHANGED startVars
      PROVE  ReadersStep
  BY <1>8 DEF ReadersStep, Attaches, Goto
<1>9. CASE xdp_load_and_stats
  <2>1. CASE load_bpf_and_xdp_attach
    BY <1>1, <1>8, <2>1 DEF load_bpf_and_xdp_attach
  <2>2. CASE check_map_fd_info
    BY <1>7, <2>2 DEF check_map_fd_info
  <2>3. CASE stats_poll
    BY <1>3, <1>4, <2>3 DEF stats_poll
  <2>4. CASE stats_print
    BY <1>5, <2>4 DEF stats_print
  <2>5. CASE \E k \in Keys(map) : map_collect(k)
    BY <1>6, <2>5 DEF map_collect
  <2> QED BY <1>9, <2>1, <2>2, <2>3, <2>4, <2>5 DEF xdp_load_and_stats
<1>10. CASE xdp_stats
  <2>1. CASE stats_main
    BY <1>7, <2>1 DEF stats_main
  <2>2. CASE stats_poll_actions
    BY <1>3, <1>4, <2>2 DEF stats_poll_actions
  <2>3. CASE stats_print_actions
    BY <1>5, <2>3 DEF stats_print_actions
  <2>4. CASE \E k \in Keys(map) : stats_collect(k)
    BY <1>6, <2>4 DEF stats_collect
  <2> QED BY <1>10, <2>1, <2>2, <2>3, <2>4 DEF xdp_stats
<1>11. CASE trace_load_and_stats
  <2>1. CASE check_maps
    BY <1>7, <2>1 DEF check_maps, Monitored
  <2>2. CASE stats_poll_swap
    BY <1>3, <1>4, <2>2 DEF stats_poll_swap, Monitored
  <2>3. CASE stats_print_monitor
    <3> DEFINE shown == {w \in Words(map) : Shown(w)}
    <3>1. map \notin {"exceptions", "xsk_stats"} /\ ShowLines(shown, "turn")
      BY <2>3 DEF stats_print_monitor, Monitored
    <3>2. ASSUME NEW w \in Words(map), EveryTime(map, w), w \notin shown
          PROVE  Difference(w) = 0
      <4>1. map = "cpumap_enqueue_cnt" /\ ~(Difference(<<w[1], "processed">>) > 0)
        BY <3>2 DEF Shown
      <4>2. w[2] = "processed" /\ w = <<w[1], w[2]>>
        BY <3>2, <4>1, WordParts DEF EveryTime
      <4>3. ~(Difference(w) > 0)
        BY <4>1, <4>2
      <4>4. Difference(w) \in 0 .. Word - 1
        <5>1. rec[w] - prev[w] \in Int
          BY <1>2
        <5> QED BY <5>1, ModInWord DEF Difference
      <4> QED BY SMT, <4>3, <4>4
    <3> HIDE DEF shown
    <3> QED BY <3>1, <3>2 DEF ReadersStep, Prints
  <2>4. CASE \E p \in Programs(map) : load_bpf_and_trace_attach(p)
    BY <1>1, <1>8, <2>4 DEF load_bpf_and_trace_attach
  <2>5. CASE \E k \in Keys(map) : map_collect_record(k) \/ map_collect_record_u64(k)
    BY <1>6, <2>5 DEF map_collect_record, map_collect_record_u64
  <2> QED BY <1>11, <2>1, <2>2, <2>3, <2>4, <2>5 DEF trace_load_and_stats
<1>12. CASE exception_stats
  <2>1. CASE exception_attach
    BY <1>1, <1>8, <2>1 DEF exception_attach
  <2>2. CASE exception_check_map
    BY <1>7, <2>2 DEF exception_check_map
  <2>3. CASE exception_poll
    BY <1>2, <2>3 DEF exception_poll, ReadersStep, Turns
  <2>4. CASE exception_print
    BY <2>4 DEF ReadersStep
  <2>5. CASE \E k \in Keys(map) : get_next_key(k)
    BY <2>5 DEF ReadersStep
  <2>6. CASE \E k \in Keys(map) : exception_lookup(k)
    BY <1>1, <2>6, ValueFails DEF exception_lookup, ReadersStep
  <2> QED BY <1>12, <2>1, <2>2, <2>3, <2>4, <2>5, <2>6 DEF exception_stats
<1>13. CASE af_xdp_user
  <2>1. CASE xsk_stats_print
    BY <2>1 DEF xsk_stats_print, ReadersStep, ThreadTurns, ThreadPrints
  <2>2. CASE xsk_stats_poll
    <3>1. map = "xsk_stats"
      BY <2>2 DEF xsk_stats_poll, Readings, ReadTypes
    <3> QED BY <2>2, <3>1 DEF ReadersStep, ThreadCopies
  <2> QED BY <1>13, <2>1, <2>2 DEF af_xdp_user
<1> QED BY <1>9, <1>10, <1>11, <1>12, <1>13 DEF Reader

-----------------------------------------------------------------------------
(* Reports.                                                                *)

LEMMA ReadingTypes ==
  ASSUME Counting, Readings
  PROVE  /\ map \in AllMaps /\ pos \in Position(map) /\ Word \in Nat \ {0}
         /\ \A w \in Words(map) :
              /\ rec[w] \in 0 .. Word - 1 /\ prev[w] \in 0 .. Word - 1
              /\ first[w] \in 0 .. Word - 1 /\ printed[w] \in 0 .. Word - 1
              /\ rec[w] \in Int /\ prev[w] \in Int /\ first[w] \in Int /\ printed[w] \in Int
              /\ floor[w] \in Nat /\ Counted(w) \in Nat
              /\ w \in Onward => floor[w] <= Counted(w)
              /\ Reported(w) \in 0 .. Word - 1 /\ Difference(w) \in 0 .. Word - 1
<1>1. map \in AllMaps /\ pos \in Position(map) /\ Word \in Nat \ {0}
  BY MapIsKnown, SizesAssumption DEF Readings, ReadTypes
<1>2. ASSUME NEW w \in Words(map)
      PROVE  /\ rec[w] \in 0 .. Word - 1 /\ prev[w] \in 0 .. Word - 1
             /\ first[w] \in 0 .. Word - 1 /\ printed[w] \in 0 .. Word - 1
             /\ floor[w] \in Nat /\ (w \in Onward => floor[w] <= Counted(w))
  BY DEF Readings, ReadTypes
<1>3. ASSUME NEW w \in Words(map)
      PROVE  /\ rec[w] \in Int /\ prev[w] \in Int /\ first[w] \in Int /\ printed[w] \in Int
  BY SMT, <1>1, <1>2
<1>4. ASSUME NEW w \in Words(map)
      PROVE  /\ Reported(w) \in 0 .. Word - 1 /\ Difference(w) \in 0 .. Word - 1
  <2>1. first[w] + printed[w] \in Int /\ rec[w] - prev[w] \in Int
    BY <1>3
  <2> QED BY <2>1, ModInWord DEF Reported, Difference
<1> QED BY <1>1, <1>2, <1>3, <1>4, CountTyped

(* When nothing fails, what has been read is a count. *)
LEMMA ReadIsBetween ==
  ASSUME Counting, Readings, reliable, ~Copying \/ AtEnd(map, pos), NEW w \in Onward
  PROVE  Between(w)
<1>1. PICK i \in KeyNrs(map), j \in FieldNrs(map) : w = WordOf(map, i, j)
  BY MapIsKnown, WordFacts DEF Onward
<1>2. KeyAt(map, i) \in good
  BY <1>1, MapIsKnown, WordFacts DEF Readings, ReadTypes
<1>3. AtEnd(map, pos) => i < pos.key
  BY ReadingTypes, PositionParts DEF KeyNrs
<1> QED BY <1>1, <1>2, <1>3 DEF HasBeenRead, Readings, ReadingsBetween

(* The difference that is printed takes the report to the reading. *)
LEMMA DifferenceAdds ==
  ASSUME Counting, Readings, NEW w \in Words(map)
  PROVE  (first[w] + ((printed[w] + Difference(w)) % Word)) % Word
           = (Reported(w) + (rec[w] - prev[w])) % Word
<1>1. first[w] \in Int /\ printed[w] \in Int /\ rec[w] - prev[w] \in Int
  BY ReadingTypes
<1> QED BY <1>1, ModAdds DEF Reported, Difference

(* ... and no further than it. *)
LEMMA DifferenceBelow ==
  ASSUME Counting, Readings, NEW w \in Words(map), Reported(w) <= prev[w], prev[w] <= rec[w]
  PROVE  (first[w] + ((printed[w] + Difference(w)) % Word)) % Word \in Reported(w) .. rec[w]
<1> DEFINE a == Reported(w)  b == prev[w]  d == rec[w]
<1>1. a \in 0 .. Word - 1 /\ b \in 0 .. Word - 1 /\ d \in 0 .. Word - 1 /\ Word \in Nat \ {0}
  BY ReadingTypes
<1>2. a <= b /\ b <= d
  OBVIOUS
<1>3. (first[w] + ((printed[w] + Difference(w)) % Word)) % Word = (a + (d - b)) % Word
  BY DifferenceAdds
<1> HIDE DEF a, b, d
<1>4. a + (d - b) \in 0 .. Word - 1 /\ a + (d - b) \in a .. d
  BY SMT, <1>1, <1>2
<1>5. (a + (d - b)) % Word = a + (d - b)
  BY <1>4, SmallMod
<1> QED BY <1>3, <1>4, <1>5 DEF a, d

(* Steps that print nothing, and take no other reading to compare with. *)
LEMMA SameReports ==
  ASSUME Counting, Readings, Reporting, UNCHANGED <<map, reliable, back, prev, first, printed>>,
         \/ pc' = pc /\ pc \in {"first", "collect"} /\ floor' = floor
         \/ pc = "load" /\ pc' \in {"load", "check", "exited"} /\ rec' = rec
         \/ pc = "check" /\ pc' = "exited"
         \/ pc = "check" /\ pc' = "first" /\ map \notin {"exceptions", "xsk_stats"}
  PROVE  Reporting'
<1>1. \A w : Reported(w)' = Reported(w)
  BY DEF Reported
<1>2. /\ pc' \in {"load", "check", "first", "exited"} => first' = Zero(map) /\ printed' = Zero(map)
      /\ pc' \in {"load", "check"} => rec' = Zero(map)
      /\ map \in {"exceptions", "xsk_stats"} => first' = Zero(map) /\ pc' # "first"
  BY DEF Reporting
<1>3. ReportsAddUp'
  BY <1>1 DEF Reporting, ReportsAddUp
<1>4. ReportsBelow'
  BY <1>1 DEF Reporting, ReportsBelow, Onward
<1>5. Zero(map)' = Zero(map)
  BY DEF Zero
<1> QED BY <1>2, <1>3, <1>4, <1>5 DEF Reporting

LEMMA AttachesKeep ==
  ASSUME Counting, Readings, Reporting, Attaches
  PROVE  Counting' /\ Readings' /\ Reporting'
<1>1. KernelStill /\ UNCHANGED <<pos, sum, rec, prev, first, printed, good, floor>>
  BY DEF Attaches, startVars, historyVars, KernelStill
<1>2. /\ rec \in [Words(map) -> 0 .. Word - 1] /\ prev \in [Words(map) -> 0 .. Word - 1]
      /\ first \in [Words(map) -> 0 .. Word - 1] /\ printed \in [Words(map) -> 0 .. Word - 1]
      /\ floor \in [Words(map) -> Nat] /\ \A w \in Onward : floor[w] <= Counted(w)
      /\ pos = Start
  BY DEF Readings, ReadTypes, Attaches
<1>3. pc = "load" /\ pc' \in {"load", "check", "exited"} /\ ~Copying
  BY DEF Attaches, Copying
<1>4. Readings'
  BY <1>1, <1>2, <1>3, AtStart
<1>5. Reporting'
  BY <1>1, <1>3, SameReports DEF KernelStill
<1> QED BY <1>1, <1>4, <1>5, StillCounting

LEMMA ChecksKeep ==
  ASSUME Counting, Readings, Reporting, Checks
  PROVE  Counting' /\ Readings' /\ Reporting'
<1>1. KernelStill /\ UNCHANGED <<pos, sum, rec, prev, first, printed, good, floor>>
  BY DEF Checks, startVars, historyVars, KernelStill
<1>2. /\ rec \in [Words(map) -> 0 .. Word - 1] /\ prev \in [Words(map) -> 0 .. Word - 1]
      /\ first \in [Words(map) -> 0 .. Word - 1] /\ printed \in [Words(map) -> 0 .. Word - 1]
      /\ floor \in [Words(map) -> Nat] /\ \A w \in Onward : floor[w] <= Counted(w)
      /\ pos = Start
  BY DEF Readings, ReadTypes, Checks
<1>3. pc = "check" /\ pc' \in {"exited", "first", "turn"} /\ ~Copying
  BY DEF Checks, Copying
<1>4. Readings'
  BY <1>1, <1>2, <1>3, AtStart
<1>5. ASSUME pc' # "turn" PROVE Reporting'
  <2>1. UNCHANGED <<map, reliable, back, prev, first, printed>>
    BY <1>1 DEF KernelStill
  <2>2. CASE pc' = "exited"
    BY <1>3, <2>1, <2>2, SameReports
  <2>3. CASE pc' = "first"
    <3>1. map \notin {"exceptions", "xsk_stats"}
      BY <2>3 DEF Checks
    <3> QED BY <1>3, <2>1, <2>3, <3>1, SameReports
  <2> QED BY <1>3, <1>5, <2>2, <2>3
<1>6. ASSUME pc' = "turn" PROVE Reporting'
  <2>1. map = "exceptions" /\ first = Zero(map) /\ printed = Zero(map) /\ rec = Zero(map)
    BY <1>3, <1>6 DEF Checks, Reporting
  <2>2. \A w \in Words(map) : first[w] = 0 /\ printed[w] = 0 /\ rec[w] = 0
    BY <2>1, ZeroTyped
  <2>3. \A w \in Words(map) : Reported(w)' = 0 /\ rec'[w] = 0
    <3> TAKE w \in Words(map)
    <3>1. Reported(w)' = (first[w] + printed[w]) % Word
      BY <1>1 DEF Reported
    <3>2. first[w] + printed[w] = 0 /\ 0 \in 0 .. Word - 1
      BY <2>2, SizesAssumption
    <3>3. (first[w] + printed[w]) % Word = 0
      BY <3>2, SmallMod
    <3> QED BY <1>1, <2>2, <3>1, <3>3
  <2>4. ReportsAddUp' /\ ReportsBelow'
    BY <1>1, <1>6, <2>1, <2>3 DEF ReportsAddUp, ReportsBelow, KernelStill, Onward
  <2>5. Zero(map)' = Zero(map)
    BY <1>1 DEF Zero, KernelStill
  <2>6. map' = map /\ first' = first
    BY <1>1 DEF KernelStill
  <2> QED BY <1>6, <2>1, <2>4, <2>5, <2>6 DEF Reporting
<1> QED BY <1>1, <1>4, <1>5, <1>6, StillCounting

LEMMA BeginsKeep ==
  ASSUME Counting, Readings, Reporting, Begins
  PROVE  Counting' /\ Readings' /\ Reporting'
<1>1. /\ KernelStill /\ UNCHANGED <<sum, rec, prev, printed, good, floor>>
      /\ pc = "first" /\ AtEnd(map, pos) /\ first' = rec /\ pc' = "turn" /\ pos' = Start
      /\ map \notin {"exceptions", "xsk_stats"}
  BY DEF Begins, FirstReading, Goto, pollVars, kernelVars, KernelStill, Counting
<1>2. /\ rec \in [Words(map) -> 0 .. Word - 1] /\ prev \in [Words(map) -> 0 .. Word - 1]
      /\ printed \in [Words(map) -> 0 .. Word - 1]
      /\ floor \in [Words(map) -> Nat] /\ \A w \in Onward : floor[w] <= Counted(w)
  BY DEF Readings, ReadTypes
<1>3. Readings'
  BY <1>1, <1>2, AtStart
<1>4. \A w \in Words(map) : Reported(w)' = rec[w] /\ rec[w] \in 0 .. Word - 1
  <2> TAKE w \in Words(map)
  <2>1. printed[w] = 0
    BY <1>1, ZeroTyped DEF Reporting
  <2>2. rec[w] \in 0 .. Word - 1 /\ rec[w] \in Int
    BY ReadingTypes
  <2>3. Reported(w)' = (rec[w] + 0) % Word
    BY <1>1, <2>1 DEF Reported
  <2>4. rec[w] + 0 = rec[w]
    BY <2>2
  <2> QED BY <2>2, <2>3, <2>4, SmallMod
<1>5. \A w \in Words(map) : rec[w] <= rec[w]
  BY <1>4
<1>6. ReportsAddUp' /\ ReportsBelow'
  BY <1>1, <1>4, <1>5 DEF ReportsAddUp, ReportsBelow, KernelStill, Onward
<1> QED BY <1>1, <1>3, <1>6, StillCounting DEF Reporting, KernelStill

LEMMA NewTurnTyped ==
  ASSUME Counting, Readings, NEW r \in [Words(map) -> 0 .. Word - 1],
         NEW p \in [Words(map) -> 0 .. Word - 1],
         map = "exceptions" => r = Zero(map), NewTurn(r, p)
  PROVE  /\ KernelStill /\ UNCHANGED <<sum, good, pos, first, printed>>
         /\ pc = "turn" /\ pc' = "collect" /\ rec' = r /\ prev' = p
         /\ \A w \in Words(map) : floor'[w] = Counted(w)
         /\ Counting' /\ Readings'
<1>1. /\ KernelStill /\ UNCHANGED <<sum, good, pos, first, printed>>
      /\ pc = "turn" /\ pc' = "collect" /\ rec' = r /\ prev' = p
      /\ floor' = [w \in Words(map) |-> Counted(w)]
  BY DEF NewTurn, Goto, pollVars, kernelVars, KernelStill, Counting
<1>2. \A w \in Words(map) : Counted(w) \in Nat /\ Counted(w) <= Counted(w)
  BY CountTyped
<1>3. floor' \in [Words(map) -> Nat] /\ \A w \in Words(map) : floor'[w] = Counted(w)
  BY <1>1, <1>2
<1>4. pos = Start /\ first \in [Words(map) -> 0 .. Word - 1] /\ printed \in [Words(map) -> 0 .. Word - 1]
  BY <1>1 DEF Readings, ReadTypes
<1>5. \A w \in Onward : floor'[w] <= Counted(w)
  BY <1>2, <1>3 DEF Onward
<1>6. Readings'
  BY <1>1, <1>3, <1>4, <1>5, AtStart
<1> QED BY <1>1, <1>3, <1>6, StillCounting

LEMMA TurnsKeep ==
  ASSUME Counting, Readings, Reporting, Turns
  PROVE  Counting' /\ Readings' /\ Reporting'
<1>1. PICK r \in [Words(map) -> 0 .. Word - 1] :
        NewTurn(r, rec) /\ (map = "exceptions" => r = Zero(map))
  BY DEF Turns
<1>2. /\ KernelStill /\ UNCHANGED <<sum, good, pos, first, printed>>
      /\ pc = "turn" /\ pc' = "collect" /\ prev' = rec /\ map # "xsk_stats"
      /\ \A w \in Words(map) : floor'[w] = Counted(w)
      /\ Counting' /\ Readings'
  BY <1>1, NewTurnTyped DEF Turns, Readings, ReadTypes
<1>3. \A w : Reported(w)' = Reported(w)
  BY <1>2 DEF Reported
<1>4. ReportsAddUp'
  BY <1>2, <1>3 DEF ReportsAddUp, Reporting, KernelStill
<1>5. ReportsBelow'
  <2> SUFFICES ASSUME reliable, NEW w \in Onward
               PROVE  Reported(w) <= rec[w] /\ rec[w] <= Counted(w)
    BY <1>2, <1>3 DEF ReportsBelow, KernelStill, Onward
  <2>1. Between(w)
    BY <1>2, ReadIsBetween DEF Copying
  <2> QED BY <1>2, <2>1 DEF Between, Reporting, ReportsBelow
<1>6. Zero(map)' = Zero(map)
  BY <1>2 DEF Zero, KernelStill
<1> QED BY <1>2, <1>4, <1>5, <1>6 DEF Reporting, KernelStill

LEMMA ThreadTurnsKeep ==
  ASSUME Counting, Readings, Reporting, ThreadTurns
  PROVE  Counting' /\ Readings' /\ Reporting'
<1>1. /\ KernelStill /\ UNCHANGED <<sum, good, pos, first, printed>>
      /\ pc = "turn" /\ pc' = "collect" /\ prev' = prev /\ map = "xsk_stats"
      /\ \A w \in Words(map) : floor'[w] = Counted(w)
      /\ Counting' /\ Readings'
  BY NewTurnTyped DEF ThreadTurns, Readings, ReadTypes
<1>2. \A w : Reported(w)' = Reported(w)
  BY <1>1 DEF Reported
<1>3. ReportsAddUp'
  BY <1>1 DEF ReportsAddUp, KernelStill
<1>4. ReportsBelow'
  BY <1>1, <1>2 DEF ReportsBelow, Reporting, KernelStill, Onward
<1>5. Zero(map)' = Zero(map)
  BY <1>1 DEF Zero, KernelStill
<1> QED BY <1>1, <1>3, <1>4, <1>5 DEF Reporting, KernelStill

(* What printing the differences does. *)
LEMMA LinesTyped ==
  ASSUME Counting, Readings, NEW shown, NEW next \in {"turn", "copy"},
         next = "copy" => map = "xsk_stats", ShowLines(shown, next)
  PROVE  /\ KernelStill /\ UNCHANGED <<sum, good, rec, prev, first, floor>>
         /\ pc = "collect" /\ AtEnd(map, pos) /\ pc' = next /\ pos' = Start
         /\ \A w \in Words(map) :
              Reported(w)' =
                IF w \in shown THEN (Reported(w) + (rec[w] - prev[w])) % Word ELSE Reported(w)
         /\ \A w \in Words(map) :
              Reported(w) <= prev[w] /\ prev[w] <= rec[w] => Reported(w)' \in Reported(w) .. rec[w]
         /\ Counting' /\ Readings'
<1>1. /\ KernelStill /\ UNCHANGED <<sum, good, rec, prev, first, floor>>
      /\ pc = "collect" /\ AtEnd(map, pos) /\ pc' = next /\ pos' = Start
      /\ printed' = [w \in Words(map) |->
                       IF w \in shown THEN (printed[w] + Difference(w)) % Word ELSE printed[w]]
  BY DEF ShowLines, Goto, pollVars, kernelVars, KernelStill, Counting
<1>2. /\ rec \in [Words(map) -> 0 .. Word - 1] /\ prev \in [Words(map) -> 0 .. Word - 1]
      /\ first \in [Words(map) -> 0 .. Word - 1]
      /\ floor \in [Words(map) -> Nat] /\ \A w \in Onward : floor[w] <= Counted(w)
  BY DEF Readings, ReadTypes
<1>3. printed' \in [Words(map) -> 0 .. Word - 1]
  <2>1. ASSUME NEW w \in Words(map)
        PROVE  (printed[w] + Difference(w)) % Word \in 0 .. Word - 1 /\ printed[w] \in 0 .. Word - 1
    <3>1. printed[w] \in 0 .. Word - 1 /\ printed[w] \in Int /\ Difference(w) \in 0 .. Word - 1
      BY ReadingTypes
    <3>2. printed[w] + Difference(w) \in Int
      BY SMT, <3>1, SizesAssumption
    <3> QED BY <3>1, <3>2, ModInWord
  <2> QED BY <1>1, <2>1
<1>4. ~Copying \/ AtEnd(map, pos)
  BY <1>1
<1>5. Readings'
  BY <1>1, <1>2, <1>3, AtStart
<1>6. ASSUME NEW w \in Words(map)
      PROVE  /\ Reported(w)' = IF w \in shown THEN (Reported(w) + (rec[w] - prev[w])) % Word
                                              ELSE Reported(w)
             /\ Reported(w) <= prev[w] /\ prev[w] <= rec[w] => Reported(w)' \in Reported(w) .. rec[w]
  <2>1. CASE w \in shown
    <3>1. Reported(w)' = (first[w] + ((printed[w] + Difference(w)) % Word)) % Word
      BY <1>1, <2>1 DEF Reported
    <3> QED BY <2>1, <3>1, DifferenceAdds, DifferenceBelow
  <2>2. CASE w \notin shown
    <3>1. Reported(w)' = Reported(w)
      BY <1>1, <2>2 DEF Reported
    <3>2. Reported(w) \in 0 .. Word - 1 /\ prev[w] \in Int /\ rec[w] \in Int
      BY ReadingTypes
    <3>3. Reported(w) <= prev[w] /\ prev[w] <= rec[w] => Reported(w) \in Reported(w) .. rec[w]
      BY SMT, <3>2, SizesAssumption
    <3> QED BY <2>2, <3>1, <3>3
  <2> QED BY <2>1, <2>2
<1> QED BY <1>1, <1>5, <1>6, StillCounting

LEMMA PrintsKeep ==
  ASSUME Counting, Readings, Reporting, Prints
  PROVE  Counting' /\ Readings' /\ Reporting'
<1>1. PICK shown :
        /\ ShowLines(shown, "turn")
        /\ \A w \in Words(map) : EveryTime(map, w) /\ w \notin shown => Difference(w) = 0
  BY DEF Prints
<1>2. /\ KernelStill /\ UNCHANGED <<sum, good, rec, prev, first, floor>>
      /\ pc = "collect" /\ AtEnd(map, pos) /\ pc' = "turn" /\ pos' = Start
      /\ \A w \in Words(map) :
           Reported(w)' =
             IF w \in shown THEN (Reported(w) + (rec[w] - prev[w])) % Word ELSE Reported(w)
      /\ \A w \in Words(map) :
           Reported(w) <= prev[w] /\ prev[w] <= rec[w] => Reported(w)' \in Reported(w) .. rec[w]
      /\ Counting' /\ Readings'
  BY <1>1, LinesTyped
<1>3. map \notin {"exceptions", "xsk_stats"} /\ map' = map /\ reliable' = reliable
  BY <1>2 DEF Prints, KernelStill
<1>4. ReportsAddUp'
  <2> SUFFICES ASSUME NEW w \in Words(map), EveryTime(map, w)
               PROVE  Reported(w)' = rec[w]
    BY <1>2, <1>3 DEF ReportsAddUp
  <2>1. Reported(w) = prev[w]
    BY <1>2, <1>3 DEF Reporting, ReportsAddUp
  <2>2. /\ rec[w] \in 0 .. Word - 1 /\ prev[w] \in 0 .. Word - 1 /\ rec[w] \in Int /\ prev[w] \in Int
        /\ first[w] \in Int /\ printed[w] \in 0 .. Word - 1 /\ printed[w] \in Int
    BY ReadingTypes
  <2>3. (Reported(w) + (rec[w] - prev[w])) % Word = rec[w]
    <3>1. Reported(w) + (rec[w] - prev[w]) = rec[w]
      BY <2>1, <2>2
    <3> QED BY <2>2, <3>1, SmallMod
  <2>4. CASE w \in shown
    BY <1>2, <2>3, <2>4
  <2>5. CASE w \notin shown
    <3>1. Difference(w) = 0
      BY <1>1, <2>5
    <3>2. (first[w] + ((printed[w] + 0) % Word)) % Word = rec[w]
      BY <2>3, <3>1, DifferenceAdds
    <3>3. printed[w] + 0 = printed[w]
      BY <2>2
    <3>4. (first[w] + printed[w]) % Word = rec[w]
      BY <2>2, <3>2, <3>3, SmallMod
    <3> QED BY <1>2, <2>5, <3>4 DEF Reported
  <2> QED BY <2>4, <2>5
<1>5. ReportsBelow'
  <2> SUFFICES ASSUME reliable, NEW w \in Onward
               PROVE  Reported(w)' <= rec[w]
    BY <1>2, <1>3 DEF ReportsBelow, KernelStill, Onward
  <2>0. w \in Words(map)
    BY DEF Onward
  <2>1. Between(w)
    BY <1>2, ReadIsBetween
  <2>2. Reported(w) <= prev[w] /\ prev[w] <= floor[w] /\ floor[w] <= rec[w]
    BY <1>2, <2>1 DEF Between, Reporting, ReportsBelow
  <2>3. prev[w] \in Int /\ floor[w] \in Nat /\ rec[w] \in Int /\ Reported(w) \in 0 .. Word - 1
    BY <2>0, ReadingTypes
  <2>4. prev[w] <= rec[w]
    BY <2>2, <2>3
  <2>5. Reported(w)' \in Reported(w) .. rec[w]
    BY <1>2, <2>0, <2>2, <2>4
  <2> HIDE DEF Reported
  <2> QED BY SMT, <2>3, <2>5, SizesAssumption
<1> QED BY <1>2, <1>3, <1>4, <1>5 DEF Reporting

LEMMA ThreadPrintsKeep ==
  ASSUME Counting, Readings, Reporting, ThreadPrints
  PROVE  Counting' /\ Readings' /\ Reporting'
<1>1. map = "xsk_stats" /\ ShowLines(Words(map), "copy")
  BY DEF ThreadPrints
<1>2. /\ KernelStill /\ UNCHANGED <<sum, good, rec, prev, first, floor>>
      /\ pc = "collect" /\ AtEnd(map, pos) /\ pc' = "copy" /\ pos' = Start
      /\ \A w \in Words(map) :
           Reported(w) <= prev[w] /\ prev[w] <= rec[w] => Reported(w)' \in Reported(w) .. rec[w]
      /\ Counting' /\ Readings'
  BY <1>1, LinesTyped
<1>3. map' = map /\ reliable' = reliable /\ Zero(map)' = Zero(map)
  BY <1>2 DEF KernelStill, Zero
<1>4. ReportsAddUp'
  BY <1>1, <1>3 DEF ReportsAddUp
<1>5. \A j \in FieldNrs(map) : ~(j < Start.field)
  BY ReadingTypes, WordFacts DEF FieldNrs, Start
<1>6. ReportsBelow'
  <2> SUFFICES ASSUME reliable, NEW w \in Onward
               PROVE  Reported(w)' <= rec[w]
    BY <1>2, <1>3, <1>5 DEF ReportsBelow, KernelStill, Onward
  <2>0. w \in Words(map)
    BY DEF Onward
  <2>1. Between(w)
    BY <1>2, ReadIsBetween
  <2>2. Reported(w) <= prev[w] /\ prev[w] <= floor[w] /\ floor[w] <= rec[w]
    BY <1>2, <2>1 DEF Between, Reporting, ReportsBelow
  <2>3. prev[w] \in Int /\ floor[w] \in Nat /\ rec[w] \in Int /\ Reported(w) \in 0 .. Word - 1
    BY <2>0, ReadingTypes
  <2>4. prev[w] <= rec[w]
    BY <2>2, <2>3
  <2>5. Reported(w)' \in Reported(w) .. rec[w]
    BY <1>2, <2>0, <2>2, <2>4
  <2> QED BY SMT, <2>3, <2>5, SizesAssumption
<1> QED BY <1>1, <1>2, <1>3, <1>4, <1>6 DEF Reporting

(* A total is what has been read. *)
LEMMA TotalsKeep ==
  ASSUME Counting, Readings, Reporting, exception_print
  PROVE  Counting' /\ Readings' /\ Reporting'
<1>1. /\ KernelStill /\ UNCHANGED <<sum, good, rec, prev, first, floor>>
      /\ pc = "collect" /\ AtEnd(map, pos) /\ pc' = "turn" /\ pos' = Start
      /\ printed' = rec /\ map = "exceptions"
  BY DEF exception_print, Goto, pollVars, kernelVars, KernelStill, Counting
<1>2. /\ rec \in [Words(map) -> 0 .. Word - 1] /\ prev \in [Words(map) -> 0 .. Word - 1]
      /\ first \in [Words(map) -> 0 .. Word - 1]
      /\ floor \in [Words(map) -> Nat] /\ \A w \in Onward : floor[w] <= Counted(w)
  BY DEF Readings, ReadTypes
<1>3. ~Copying \/ AtEnd(map, pos)
  BY <1>1
<1>4. Readings'
  BY <1>1, <1>2, <1>3, AtStart
<1>5. first = Zero(map) /\ map' = map /\ Zero(map)' = Zero(map)
  BY <1>1 DEF Reporting, KernelStill, Zero
<1>6. \A w \in Words(map) : Reported(w)' = rec[w] /\ rec[w] <= rec[w]
  <2> TAKE w \in Words(map)
  <2>1. rec[w] \in 0 .. Word - 1 /\ rec[w] \in Int
    BY ReadingTypes
  <2>2. Reported(w)' = (0 + rec[w]) % Word
    BY <1>1, <1>5, ZeroTyped DEF Reported
  <2>3. 0 + rec[w] = rec[w]
    BY <2>1
  <2> QED BY <2>1, <2>2, <2>3, SmallMod
<1>7. ReportsAddUp' /\ ReportsBelow'
  BY <1>1, <1>5, <1>6 DEF ReportsAddUp, ReportsBelow, Onward
<1> QED BY <1>1, <1>4, <1>5, <1>7, StillCounting DEF Reporting

LEMMA CopyKeeps ==
  ASSUME Counting, Readings, Reporting, NEW k \in Keys(map), CopyWord(k)
  PROVE  Counting' /\ Readings' /\ Reporting'
<1>1. KernelStill /\ Readings'
  BY CopyKeepsReadings
<1>2. UNCHANGED <<map, reliable, back, prev, first, printed, pc, floor>> /\ pc \in {"first", "collect"}
  BY DEF CopyWord, Reading, readVars, kernelVars
<1> QED BY <1>1, <1>2, SameReports, StillCounting

LEMMA FailureKeeps ==
  ASSUME Counting, Readings, Reporting, NEW k \in Keys(map), FailedLookup(k)
  PROVE  Counting' /\ Readings' /\ Reporting'
<1>1. KernelStill /\ Readings'
  BY FailureKeepsReadings
<1>2. UNCHANGED <<map, reliable, back, prev, first, printed, pc, floor>> /\ pc \in {"first", "collect"}
  BY DEF FailedLookup, LookupFails, Reading, readVars, kernelVars
<1> QED BY <1>1, <1>2, SameReports, StillCounting

LEMMA NoEntryKeeps ==
  ASSUME Counting, Readings, Reporting, NEW k \in Keys(map), get_next_key(k)
  PROVE  Counting' /\ Readings' /\ Reporting'
<1>1. UNCHANGED <<map, reliable, back, prev, first, printed, pc, floor>> /\ pc \in {"first", "collect"}
      /\ map = "exceptions"
  BY DEF get_next_key, Reading, readVars, kernelVars
<1>2. pc # "first"
  BY <1>1 DEF Reporting
<1>3. KernelStill /\ Readings'
  BY <1>2, NoEntryKeepsReadings
<1> QED BY <1>1, <1>3, SameReports, StillCounting

(* The thread copies what its one receive thread has counted, word by word. *)
LEMMA ThreadCopiesKeep ==
  ASSUME Counting, Readings, Reporting, ThreadCopies
  PROVE  Counting' /\ Readings' /\ Reporting'
<1> DEFINE w0 == WordAt(map, pos)
           last == pos.field = NrFields(map)
<1>1. map \in AllMaps /\ map = "xsk_stats" /\ pc = "copy" /\ pos \in Position(map)
  BY MapIsKnown DEF ThreadCopies, xsk_stats_poll, Readings, ReadTypes
<1>2. pos.key = 1 /\ pos.cpu = 0
  BY <1>1 DEF Readings, ReadTypes
<1>3. /\ pos.field \in FieldNrs(map) /\ pos.field \in Int /\ NrKeys(map) \in Nat \ {0} /\ NrFields(map) \in Nat \ {0}
      /\ 1 \in KeyNrs(map) /\ 0 \in Cpu
  BY <1>1, PositionParts, CpusCounted DEF KeyNrs
<1>4. w0 = WordOf(map, 1, pos.field) /\ w0 \in Words(map)
  <2>1. w0 = WordOf(map, 1, pos.field)
    BY <1>2 DEF WordAt, WordOf, KeyAt, FieldAt
  <2> HIDE DEF w0
  <2> QED BY <1>1, <1>3, <2>1, WordFacts
<1>5. /\ KernelStill /\ UNCHANGED <<sum, good, rec, first, printed, floor>>
      /\ prev' = [prev EXCEPT ![w0] = value[0][w0]]
      /\ pos' = (IF last THEN Start ELSE NextWord(map, pos))
      /\ pc' = (IF last THEN "turn" ELSE "copy")
  BY DEF ThreadCopies, xsk_stats_poll, Goto, pollVars, kernelVars, KernelStill, Counting, NrFields
<1> HIDE DEF w0
<1>6. /\ map' = map /\ reliable' = reliable /\ Zero(map)' = Zero(map) /\ Counting'
      /\ Onward' = Onward /\ Onward \subseteq Words(map)
      /\ \A w : Values(w)' = Values(w) /\ Counted(w)' = Counted(w) /\ Reported(w)' = Reported(w)
  BY <1>5, StillCounting DEF KernelStill, Zero, Reported, Onward
<1>7. value[0][w0] = Counted(w0) /\ Counted(w0) \in 0 .. Word - 1
  <2>1. \A c \in Cpu \ {0} : Values(w0)[c] = 0
    BY <1>1, <1>4, ValuesTyped DEF Counting, OneThread
  <2>2. Counted(w0) = Values(w0)[0] % Word
    BY <1>4, <2>1, ValuesTyped, SumOfFirst, CountTyped
  <2>3. Values(w0)[0] = value[0][w0] /\ value[0][w0] \in 0 .. Word - 1
    BY <1>3, <1>4, ValuesTyped DEF Counting
  <2> QED BY <2>2, <2>3, SmallMod
<1>8. /\ prev' \in [Words(map) -> 0 .. Word - 1] /\ prev'[w0] = Counted(w0)
      /\ \A w \in Words(map) \ {w0} : prev'[w] = prev[w]
  <2>1. prev \in [Words(map) -> 0 .. Word - 1]
    BY DEF Readings, ReadTypes
  <2> QED BY <1>4, <1>5, <1>7, <2>1
<1>9. ~last => /\ NextWord(map, pos) \in Position(map) /\ NextWord(map, pos).key = 1
               /\ NextWord(map, pos).cpu = 0 /\ NextWord(map, pos).field = pos.field + 1
  <2> SUFFICES ASSUME ~last
               PROVE  /\ NextWord(map, pos) \in Position(map) /\ NextWord(map, pos).key = 1
                      /\ NextWord(map, pos).cpu = 0 /\ NextWord(map, pos).field = pos.field + 1
    OBVIOUS
  <2>1. pos.field < NrFields(map) /\ pos.field + 1 \in FieldNrs(map)
    BY <1>3 DEF FieldNrs
  <2>2. NextWord(map, pos) = [pos EXCEPT !.field = pos.field + 1]
    BY <2>1 DEF NextWord, NrFields
  <2> QED BY <1>1, <1>2, <2>1, <2>2 DEF Position
<1>10. Readings'
  <2>1. /\ rec' \in [Words(map) -> 0 .. Word - 1]
        /\ first' \in [Words(map) -> 0 .. Word - 1] /\ printed' \in [Words(map) -> 0 .. Word - 1]
        /\ floor' \in [Words(map) -> Nat] /\ \A w \in Onward' : floor'[w] <= Counted(w)'
        /\ good' \subseteq Keys(map) /\ (reliable' => good' = Keys(map)) /\ sum' \in [Fields(map) -> 0 .. Word - 1]
    BY <1>5, <1>6 DEF Readings, ReadTypes
  <2>2. /\ pos' \in Position(map) /\ pos'.key = 1 /\ pos'.cpu = 0 /\ (last => pos' = Start)
    BY <1>1, <1>5, <1>9, StartPosition
  <2>3. pc' \in {"turn", "copy"} /\ (pc' = "turn" <=> last) /\ ~(1 > NrKeys(map))
    BY <1>3, <1>5
  <2>4. ReadTypes'
    BY <1>1, <1>6, <1>8, <2>1, <2>2, <2>3 DEF ReadTypes
  <2>5. ~Copying /\ ~Copying'
    BY <1>1, <2>3 DEF Copying
  <2>6. SumsBetween'
    BY <1>5, <1>6, <2>5 DEF Readings, SumsBetween
  <2>7. ReadingsBetween'
    BY <1>5, <1>6, <2>5 DEF Readings, ReadingsBetween, HasBeenRead, Between
  <2>8. Unread'
    BY <1>1, <1>6 DEF Unread
  <2> QED BY <2>4, <2>6, <2>7, <2>8 DEF Readings
<1>11. ReportsAddUp'
  BY <1>1, <1>6 DEF ReportsAddUp
<1>12. ASSUME reliable, NEW w \in Onward, NEW j \in FieldNrs(map), w = WordOf(map, 1, j)
       PROVE  /\ j <= pos.field => Reported(w) <= prev'[w] /\ prev'[w] <= Counted(w)
              /\ j > pos.field => Reported(w) <= rec[w]
  <2>1. IF j < pos.field THEN Reported(w) <= prev[w] /\ prev[w] <= Counted(w)
                         ELSE Reported(w) <= rec[w]
    BY <1>1, <1>12 DEF Reporting, ReportsBelow
  <2>2. j \in Int
    BY <1>3 DEF FieldNrs
  <2>3. CASE j = pos.field
    <3>1. w = w0
      BY <1>4, <1>12, <2>3
    <3>2. Reported(w) <= rec[w] /\ prev'[w] = Counted(w)
      BY <1>3, <1>8, <2>1, <2>3, <3>1
    <3>3. rec[w] <= Counted(w)
      BY <1>1, <1>12, ReadIsBetween DEF Copying, Between
    <3>4. Reported(w) \in 0 .. Word - 1 /\ rec[w] \in Int /\ Counted(w) \in Nat
      BY <1>6, ReadingTypes
    <3>5. Reported(w) <= Counted(w) /\ Counted(w) <= Counted(w)
      BY SMT, <3>2, <3>3, <3>4, SizesAssumption
    <3> QED BY <1>3, <2>3, <3>2, <3>5
  <2>4. CASE j # pos.field
    <3>1. w # w0
      BY <1>1, <1>3, <1>4, <1>12, <2>4, WordsDistinct
    <3>2. prev'[w] = prev[w]
      BY <1>6, <1>8, <3>1
    <3>3. CASE j < pos.field
      <4>1. ~(j > pos.field)
        BY <1>3, <2>2, <3>3
      <4> QED BY <2>1, <3>2, <3>3, <4>1
    <3>4. CASE ~(j < pos.field)
      <4>1. ~(j <= pos.field)
        BY <1>3, <2>2, <2>4, <3>4
      <4> QED BY <2>1, <3>4, <4>1
    <3> QED BY <3>3, <3>4
  <2> QED BY <2>3, <2>4
<1>13. ReportsBelow'
  <2>1. CASE last
    <3> SUFFICES ASSUME reliable, NEW w \in Onward
                 PROVE  Reported(w) <= prev'[w] /\ prev'[w] <= Counted(w)
      BY <1>1, <1>5, <1>6, <2>1 DEF ReportsBelow
    <3>1. PICK i \in KeyNrs(map), j \in FieldNrs(map) : w = WordOf(map, i, j)
      BY <1>1, <1>6, WordFacts
    <3>2. NrKeys(map) = 1
      BY SMT, <1>1 DEF NrKeys, Shape, xsk_stats
    <3>3. i = 1 /\ j <= pos.field
      BY <2>1, <3>2, <1>3 DEF KeyNrs, FieldNrs
    <3> QED BY <1>12, <3>1, <3>3
  <2>2. CASE ~last
    <3>1. pc' = "copy" /\ pos'.field = pos.field + 1
      BY <1>5, <1>9, <2>2
    <3> SUFFICES ASSUME reliable, NEW w \in Onward, NEW j \in FieldNrs(map), w = WordOf(map, 1, j)
                 PROVE  IF j < pos.field + 1 THEN Reported(w) <= prev'[w] /\ prev'[w] <= Counted(w)
                                             ELSE Reported(w) <= rec[w]
      BY <1>5, <1>6, <3>1 DEF ReportsBelow
    <3>2. j \in Int
      BY <1>3 DEF FieldNrs
    <3>3. CASE j < pos.field + 1
      <4>1. j <= pos.field
        BY <1>3, <3>2, <3>3
      <4> QED BY <1>12, <3>3, <4>1
    <3>4. CASE ~(j < pos.field + 1)
      <4>1. j > pos.field
        BY <1>3, <3>2, <3>4
      <4> QED BY <1>12, <3>4, <4>1
    <3> QED BY <3>3, <3>4
  <2> QED BY <2>1, <2>2
<1>14. pc' \in {"turn", "copy"} /\ first' = Zero(map)
  BY <1>1, <1>5 DEF Reporting
<1> QED BY <1>1, <1>6, <1>10, <1>11, <1>13, <1>14 DEF Reporting

LEMMA ReaderKeeps ==
  ASSUME Counting, Readings, Reporting, Reader
  PROVE  Counting' /\ Readings' /\ Reporting'
<1>1. ReadersStep
  BY ReaderSteps
<1> QED BY <1>1, AttachesKeep, ChecksKeep, BeginsKeep, TurnsKeep, PrintsKeep, TotalsKeep, CopyKeeps,
           FailureKeeps, NoEntryKeeps, ThreadTurnsKeep, ThreadPrintsKeep, ThreadCopiesKeep
        DEF ReadersStep

-----------------------------------------------------------------------------
(* The invariant.                                                          *)

LEMMA InitCounts ==
  ASSUME Init
  PROVE  /\ map \in AllMaps /\ value \in [Cpu -> [Words(map) -> 0 .. Word - 1]]
         /\ \A w \in Words(map) :
              /\ \A c \in Cpu : value[c][w] = 0
              /\ Counted(w) = 0 /\ SumOf(Limits(w))[NrCpus] = 0
              /\ \A n \in 0 .. NrCpus : SumOf(Values(w))[n] = 0
<1>1. map \in AllMaps /\ value = [c \in Cpu |-> Zero(map)] /\ busy = [c \in Cpu |-> <<>>]
  BY MapsAssumption DEF Init
<1>2. Zero(map) \in [Words(map) -> 0 .. Word - 1] /\ \A w \in Words(map) : Zero(map)[w] = 0
  BY ZeroTyped
<1>3. ASSUME NEW w \in Words(map)
      PROVE  /\ \A c \in Cpu : value[c][w] = 0
             /\ Counted(w) = 0 /\ SumOf(Limits(w))[NrCpus] = 0
             /\ \A n \in 0 .. NrCpus : SumOf(Values(w))[n] = 0
  <2>1. \A c \in Cpu : value[c][w] = 0
    BY <1>1, <1>2
  <2>2. Values(w) \in [Cpu -> Nat] /\ \A c \in Cpu : Values(w)[c] = 0
    BY <2>1 DEF Values
  <2>3. Limits(w) \in [Cpu -> Nat] /\ \A c \in Cpu : Limits(w)[c] = 0
    <3>1. \A c \in Cpu : value[c][w] + Len(busy[c]) * MaxAdd = 0
      <4> TAKE c \in Cpu
      <4>1. busy[c] = <<>> /\ Len(<<>>) = 0 /\ MaxAdd \in Nat
        BY <1>1, MaxAddInt
      <4>2. 0 + 0 * MaxAdd = 0
        BY <4>1
      <4> QED BY <2>1, <4>1, <4>2
    <3> QED BY <3>1 DEF Limits
  <2>4. NrCpus \in 0 .. NrCpus
    BY SMT, CpusCounted
  <2>5. \A n \in 0 .. NrCpus : SumOf(Values(w))[n] = 0 /\ SumOf(Limits(w))[n] = 0
    BY <2>2, <2>3, SumOfZeros
  <2>6. 0 % Word = 0
    BY SmallMod, SizesAssumption
  <2> QED BY <2>1, <2>4, <2>5, <2>6 DEF Counted, Values
<1> QED BY <1>1, <1>2, <1>3

LEMMA InitInv == Init => Inv
<1> SUFFICES ASSUME Init PROVE Inv
  OBVIOUS
<1>1. /\ map \in AllMaps /\ value \in [Cpu -> [Words(map) -> 0 .. Word - 1]]
      /\ \A w \in Words(map) :
           /\ \A c \in Cpu : value[c][w] = 0
           /\ Counted(w) = 0 /\ SumOf(Limits(w))[NrCpus] = 0
           /\ \A n \in 0 .. NrCpus : SumOf(Values(w))[n] = 0
  BY InitCounts
<1>2. /\ map \in Maps /\ differs \subseteq Description /\ reliable \in BOOLEAN
      /\ opened \subseteq Programs(map) /\ present \subseteq Keys(map)
      /\ (map # "exceptions" => present = Keys(map))
      /\ busy = [c \in Cpu |-> <<>>] /\ events = 0 /\ pos = Start
      /\ sum = [f \in Fields(map) |-> 0] /\ good = Keys(map)
      /\ rec = Zero(map) /\ prev = Zero(map) /\ first = Zero(map) /\ printed = Zero(map)
      /\ floor = Zero(map) /\ back = {}
  BY DEF Init
<1>3. pc \in {"load", "check", "turn"} /\ (pc = "turn" <=> map = "xsk_stats")
  BY DEF Init
<1>4. Zero(map) \in [Words(map) -> 0 .. Word - 1] /\ \A w \in Words(map) : Zero(map)[w] = 0
  BY ZeroTyped
<1>5. Counting
  <2>1. busy \in [Cpu -> Seq(Pending(map))] /\ \A c \in Cpu : busy[c] = <<>> /\ Len(busy[c]) = 0
    BY <1>2
  <2>2. events \in 0 .. MaxEvents
    BY <1>2, SizesAssumption
  <2>3. Bounded
    <3> DEFINE M == MaxStores * MaxAdd
    <3>1. M \in Nat
      BY SMT, MaxAddInt DEF MaxStores
    <3> HIDE DEF M
    <3>2. 0 <= 0 * M
      BY <3>1
    <3> QED BY <1>1, <1>2, <3>2 DEF Bounded, Onward, M
  <2>4. EntriesMade
    <3>1. \A c \in Cpu : ~(1 \in 1 .. Len(busy[c])) /\ Len(busy[c]) <= 1
      BY <2>1
    <3>2. \A c \in Cpu : \A i \in 1 .. Len(busy[c]) : busy[c][i].found
      BY <2>1
    <3> QED BY <1>1, <1>2, <2>1, <3>1, <3>2 DEF EntriesMade
  <2>5. OneThread
    BY <1>1, <2>1 DEF OneThread
  <2> QED BY <1>1, <1>2, <2>1, <2>2, <2>3, <2>4, <2>5 DEF Counting
<1>6. Readings
  <2>1. Start \in Position(map) /\ ~(Start.key > NrKeys(map)) /\ ~Copying
    BY <1>1, <1>3, StartPosition DEF AtEnd, NrKeys, Copying
  <2>2. floor \in [Words(map) -> Nat] /\ \A w \in Words(map) : floor[w] = 0 /\ rec[w] = 0 /\ 0 <= 0
    BY <1>2, <1>4 DEF Zero
  <2>3. ReadTypes
    BY <1>1, <1>2, <1>3, <1>4, <2>1, <2>2, SizesAssumption DEF ReadTypes, Onward
  <2>4. \A j \in FieldNrs(map) : sum[FieldAt(map, j)] = 0
    <3>1. \A j \in FieldNrs(map) : FieldAt(map, j) \in Fields(map)
      <4>1. 1 \in KeyNrs(map)
        BY <1>1, WordFacts DEF KeyNrs
      <4> QED BY <1>1, <4>1, WordFacts
    <3> QED BY <1>2, <3>1
  <2>5. SumsBetween
    BY <2>1, <2>4 DEF SumsBetween
  <2>6. ReadingsBetween
    BY <1>1, <2>2 DEF ReadingsBetween, Between, Onward
  <2>7. Unread
    BY <2>1 DEF Unread, Copying
  <2> QED BY <2>3, <2>5, <2>6, <2>7 DEF Readings
<1>7. Reporting
  <2>1. ReportsAddUp
    BY <1>3 DEF ReportsAddUp
  <2>2. ReportsBelow
    <3> SUFFICES ASSUME NEW w \in Words(map)
                 PROVE  Reported(w) <= prev[w] /\ prev[w] <= Counted(w)
      BY <1>3 DEF ReportsBelow, Onward
    <3>1. first[w] = 0 /\ printed[w] = 0 /\ prev[w] = 0 /\ Counted(w) = 0
      BY <1>1, <1>2, <1>4
    <3>2. (0 + 0) % Word = 0
      BY SmallMod, SizesAssumption
    <3> QED BY <3>1, <3>2 DEF Reported
  <2> QED BY <1>2, <1>3, <2>1, <2>2 DEF Reporting
<1> QED BY <1>5, <1>6, <1>7 DEF Inv

(* Counts that grow leave the reports right. *)
LEMMA CountsKeepReporting ==
  ASSUME Counting, Readings, Reporting, UNCHANGED <<map, reliable, readerVars>>, back \subseteq back',
         \A w \in Words(map) \ back' : Counted(w)' \in Nat /\ Counted(w) <= Counted(w)'
  PROVE  Reporting'
<1>1. /\ map' = map /\ reliable' = reliable /\ pc' = pc /\ pos' = pos /\ rec' = rec
      /\ prev' = prev /\ first' = first /\ printed' = printed /\ floor' = floor
  BY DEF readerVars, historyVars
<1>2. \A w : Reported(w)' = Reported(w)
  BY <1>1 DEF Reported
<1>3. \A w \in Words(map) \ back' : prev[w] <= Counted(w) => prev[w] <= Counted(w)'
  BY ReadingTypes
<1>4. ReportsAddUp'
  BY <1>1, <1>2 DEF Reporting, ReportsAddUp
<1>5. ReportsBelow'
  BY <1>1, <1>2, <1>3 DEF Reporting, ReportsBelow, Onward
<1>6. Zero(map)' = Zero(map)
  BY <1>1 DEF Zero
<1> QED BY <1>1, <1>4, <1>5, <1>6 DEF Reporting

LEMMA EventKeeps ==
  ASSUME Counting, Readings, Reporting, NEW c \in Cpu, Event(c)
  PROVE  /\ Counting' /\ Readings' /\ Reporting'
         /\ UNCHANGED <<map, reliable, back, readerVars>>
         /\ \A w \in Words(map) : Counted(w)' = Counted(w)
<1>1. Counting'
  BY EventKeepsCounting
<1>2. UNCHANGED <<map, reliable, back, readerVars, value>>
  BY DEF Event
<1>3. \A w \in Words(map), m \in 0 .. NrCpus :
        SumOf(Values(w)')[m] = SumOf(Values(w))[m] + (IF w = 0 /\ m > c THEN 0 ELSE 0)
  <2> TAKE w \in Words(map), m \in 0 .. NrCpus
  <2>1. Values(w)' = Values(w) /\ SumOf(Values(w))[m] \in Nat
    BY <1>2, CountTyped DEF Values
  <2> QED BY <2>1
<1>4. Readings'
  <2>1. back \subseteq back' /\ 0 \in Nat
    BY <1>2
  <2>2. UNCHANGED <<map, reliable, readerVars>>
    BY <1>2
  <2>3. Grown(c, 0, 0)
    BY <1>3 DEF Grown
  <2> QED BY <1>1, <2>1, <2>2, <2>3, CountsKeepReadings
<1>5. \A w \in Words(map) : Counted(w)' = Counted(w)
  BY <1>2 DEF Counted
<1>6. \A w \in Words(map) : Counted(w)' \in Nat /\ Counted(w) <= Counted(w)'
  BY <1>5, ReadingTypes
<1>7. Reporting'
  BY <1>2, <1>6, CountsKeepReporting
<1> QED BY <1>1, <1>2, <1>4, <1>5, <1>7

LEMMA AddKeeps ==
  ASSUME Counting, Readings, Reporting, NEW c \in Cpu, Add(c)
  PROVE  /\ Counting' /\ Readings' /\ Reporting'
         /\ UNCHANGED <<map, reliable, readerVars>>
         /\ \E x \in Words(map), n \in Nat :
              /\ back \subseteq back' /\ back' \subseteq back \cup {x}
              /\ \A w \in Words(map) \ {x} : Counted(w)' = Counted(w)
              /\ x \notin back' => Counted(x)' = Counted(x) + n
<1>1. Counting'
  BY AddKeepsCounting
<1>2. UNCHANGED <<map, reliable, readerVars>>
  BY DEF Add
<1>3. PICK x \in Words(map), n \in 0 .. MaxAdd :
        /\ Stored(c, x, n)
        /\ \A w \in Words(map) \ back', m \in 0 .. NrCpus :
             SumOf(Values(w)')[m] = SumOf(Values(w))[m] + (IF w = x /\ m > c THEN n ELSE 0)
  BY AddCounts
<1>4. n \in Nat
  BY MaxAddInt
<1>5. back \subseteq back' /\ back' \subseteq back \cup {x}
  BY <1>3 DEF Stored
<1>6. /\ Readings'
      /\ \A w \in Words(map) \ back' : Counted(w)' = Counted(w) + (IF w = x THEN n ELSE 0)
  <2>1. Grown(c, x, n)
    BY <1>3 DEF Grown
  <2>2. back \subseteq back'
    BY <1>5
  <2>3. UNCHANGED <<map, reliable, readerVars>>
    BY <1>2
  <2> QED BY <1>1, <1>4, <2>1, <2>2, <2>3, CountsKeepReadings
<1>7. \A w \in Words(map) \ back' : Counted(w)' \in Nat /\ Counted(w) <= Counted(w)'
  <2> TAKE w \in Words(map) \ back'
  <2>1. Counted(w) \in Nat
    BY ReadingTypes
  <2> QED BY <1>4, <1>6, <2>1
<1>8. Reporting'
  BY <1>2, <1>5, <1>7, CountsKeepReporting
<1>9. \A w \in Words(map) \ {x} : Counted(w)' = Counted(w)
  <2> TAKE w \in Words(map) \ {x}
  <2>1. \A d \in Cpu : value'[d][w] = value[d][w]
    BY <1>3 DEF Stored
  <2>2. [d \in Cpu |-> value'[d][w]] = [d \in Cpu |-> value[d][w]]
    BY <2>1
  <2> QED BY <2>2 DEF Counted
<1>10. x \notin back' => Counted(x)' = Counted(x) + n
  BY <1>6
<1> QED BY <1>1, <1>2, <1>4, <1>5, <1>6, <1>8, <1>9, <1>10

LEMMA StutterKeeps ==
  ASSUME Counting, Readings, Reporting, UNCHANGED vars
  PROVE  Counting' /\ Readings' /\ Reporting'
<1>1. UNCHANGED <<map, differs, reliable, opened, present, value, busy, events, back, readerVars>>
  BY DEF vars, kernelVars
<1>2. KernelStill
  BY <1>1 DEF KernelStill, Counting
<1>3. Counting' /\ \A w : Values(w)' = Values(w) /\ Counted(w)' = Counted(w)
  BY <1>2, StillCounting
<1>4. 0 \in Cpu
  BY SMT, CpusCounted
<1>5. \A w \in Words(map), m \in 0 .. NrCpus :
        SumOf(Values(w)')[m] = SumOf(Values(w))[m] + (IF w = 0 /\ m > 0 THEN 0 ELSE 0)
  BY <1>3, CountTyped
<1>6. Readings'
  <2>1. Grown(0, 0, 0)
    BY <1>5 DEF Grown
  <2>2. back \subseteq back' /\ 0 \in Nat /\ UNCHANGED <<map, reliable, readerVars>>
    BY <1>1
  <2> QED BY <1>3, <1>4, <2>1, <2>2, CountsKeepReadings
<1>7. \A w \in Words(map) : Counted(w)' \in Nat /\ Counted(w) <= Counted(w)'
  BY <1>3, ReadingTypes
<1>8. Reporting'
  BY <1>1, <1>7, CountsKeepReporting
<1> QED BY <1>3, <1>6, <1>8

LEMMA NextInv == Inv /\ [Next]_vars => Inv'
<1> SUFFICES ASSUME Inv, [Next]_vars PROVE Inv'
  OBVIOUS
<1>1. Counting /\ Readings /\ Reporting
  BY DEF Inv
<1>2. CASE Reader
  BY <1>1, <1>2, ReaderKeeps DEF Inv
<1>3. CASE \E c \in Cpu : Event(c) \/ Add(c)
  BY <1>1, <1>3, EventKeeps, AddKeeps DEF Inv
<1>4. CASE UNCHANGED vars
  BY <1>1, <1>4, StutterKeeps DEF Inv
<1> QED BY <1>2, <1>3, <1>4 DEF Next

LEMMA InvTyped == Inv => TypeOK
<1> SUFFICES ASSUME Inv PROVE TypeOK
  OBVIOUS
<1>1. Counting /\ Readings
  BY DEF Inv
<1>2. pos \in [key : 1 .. Len(Shape(map).keys) + 1, cpu : Cpu, field : 1 .. Len(Shape(map).fields)]
  BY <1>1, ReadingTypes DEF Position, NrKeys, FieldNrs, NrFields
<1> QED BY <1>1, <1>2 DEF TypeOK, Counting, Readings, ReadTypes

LEMMA InvRecovers == Inv => ReportsRecover
<1> SUFFICES ASSUME Inv, pc = "turn", map # "xsk_stats", NEW w \in Onward, w[1] \in good,
                    map # "cpumap_enqueue_cnt" \/ w[2] = "processed"
             PROVE  floor[w] <= Reported(w) /\ Reported(w) <= Counted(w)
  BY DEF ReportsRecover, Onward
<1>0. w \in Words(map)
  BY DEF Onward
<1>1. Reported(w) = rec[w]
  BY <1>0 DEF Inv, Reporting, ReportsAddUp, EveryTime
<1>2. PICK i \in KeyNrs(map), j \in FieldNrs(map) : w = WordOf(map, i, j)
  BY <1>0, MapIsKnown, WordFacts DEF Inv
<1>3. KeyAt(map, i) = w[1] /\ ~Copying
  BY <1>2, WordParts DEF Copying
<1>4. Between(w)
  BY <1>2, <1>3 DEF HasBeenRead, Inv, Readings, ReadingsBetween
<1> QED BY <1>1, <1>4 DEF Between

-----------------------------------------------------------------------------
(* The theorems.                                                           *)

(* The counts of all CPUs, what a reader sums up of them, and what it prints stay
   within their words, however many CPUs count while it reads. *)
THEOREM StatsTyped == Spec => []TypeOK
  BY InitInv, NextInv, InvTyped, PTL DEF Spec

(* A report is wrong after a lookup has failed, and right again after a turn in which
   it has not: it adds up to a count the map has had during that turn. *)
THEOREM ReportsAlwaysRecover == Spec => []ReportsRecover
  BY InitInv, NextInv, InvRecovers, PTL DEF Spec

-----------------------------------------------------------------------------
(* What is reported was counted, and is reported once.                     *)

CountsOf == [w \in AllWords |-> IF Tracked(w) THEN Counted(w) ELSE 0]
ReportsOf == [w \in AllWords |-> IF Tracked(w) THEN Reported(w) ELSE 0]
BacksOf == {w \in AllWords : Tracked(w) /\ w \in back}

(* Nothing is reported before it is counted. *)
LEMMA ReportedWasCounted ==
  ASSUME Inv, reliable, NEW w \in Onward
  PROVE  Reported(w) <= Counted(w)
<1>0. w \in Words(map)
  BY DEF Onward
<1>1. Counting /\ Readings /\ Reporting
  BY DEF Inv
<1>2. /\ map \in AllMaps /\ rec[w] \in Int /\ prev[w] \in Int /\ floor[w] \in Nat /\ floor[w] <= Counted(w)
      /\ Counted(w) \in Nat /\ Reported(w) \in Int
  <2>1. Reported(w) \in 0 .. Word - 1 /\ Word \in Nat
    BY <1>0, <1>1, ReadingTypes
  <2>2. Reported(w) \in Int
    BY SMT, <2>1
  <2> QED BY <1>0, <1>1, <2>2, ReadingTypes
<1>3. CASE pc \in {"load", "check", "first", "exited"}
  <2>1. first[w] = 0 /\ printed[w] = 0
    BY <1>0, <1>1, <1>3, ZeroTyped DEF Reporting
  <2>2. (0 + 0) % Word = 0
    BY SmallMod, SizesAssumption
  <2>3. Reported(w) = 0
    BY <2>1, <2>2 DEF Reported
  <2> QED BY <1>2, <2>3
<1>4. ASSUME pc \in {"turn", "copy"} PROVE rec[w] <= Counted(w)
  BY <1>1, <1>4, ReadIsBetween DEF Copying, Between
<1>5. CASE pc = "turn" /\ map # "xsk_stats"
  <2>1. Reported(w) <= rec[w]
    BY <1>1, <1>5 DEF Reporting, ReportsBelow
  <2> QED BY <1>2, <1>4, <1>5, <2>1
<1>6. CASE pc = "turn" /\ map = "xsk_stats"
  <2>1. Reported(w) <= prev[w] /\ prev[w] <= Counted(w)
    BY <1>1, <1>6 DEF Reporting, ReportsBelow
  <2> QED BY <1>2, <2>1
<1>7. CASE pc = "collect"
  <2>1. Reported(w) <= prev[w] /\ prev[w] <= floor[w]
    BY <1>1, <1>7 DEF Reporting, ReportsBelow
  <2> QED BY <1>2, <2>1
<1>8. CASE pc = "copy"
  <2>1. map = "xsk_stats"
    BY <1>1, <1>8 DEF Readings, ReadTypes
  <2>2. NrKeys(map) = 1
    BY SMT, <2>1 DEF NrKeys, Shape, xsk_stats
  <2>3. PICK i \in KeyNrs(map), j \in FieldNrs(map) : w = WordOf(map, i, j)
    BY <1>0, <1>2, WordFacts
  <2>4. i = 1
    BY <2>2, <2>3 DEF KeyNrs
  <2>5. IF j < pos.field THEN Reported(w) <= prev[w] /\ prev[w] <= Counted(w)
                         ELSE Reported(w) <= rec[w]
    BY <1>1, <1>8, <2>3, <2>4 DEF Reporting, ReportsBelow
  <2> QED BY <1>2, <1>4, <1>8, <2>5
<1> QED BY <1>1, <1>3, <1>5, <1>6, <1>7, <1>8 DEF Readings, ReadTypes

(* A reader's step reports some of what has been counted. *)
LEMMA ReaderReports ==
  ASSUME Inv, Reader
  PROVE  /\ map' = map /\ reliable' = reliable /\ back' = back
         /\ \A w \in Words(map) :
              /\ Counted(w)' = Counted(w)
              /\ reliable /\ w \in Onward => Reported(w) <= Reported(w)' /\ Reported(w)' <= Counted(w)
<1>1. Counting /\ Readings /\ Reporting
  BY DEF Inv
<1>2. ReadersStep
  BY <1>1, ReaderSteps
<1>3. ASSUME KernelStill,
             \A w \in Onward :
               reliable => Reported(w) <= Reported(w)' /\ Reported(w)' <= Counted(w)
      PROVE  /\ map' = map /\ reliable' = reliable /\ back' = back
             /\ \A w \in Words(map) :
                  /\ Counted(w)' = Counted(w)
                  /\ reliable /\ w \in Onward => Reported(w) <= Reported(w)' /\ Reported(w)' <= Counted(w)
  BY <1>1, <1>3, StillCounting DEF KernelStill
<1>4. ASSUME NEW w \in Words(map)
      PROVE  /\ Reported(w) \in Int /\ rec[w] \in Int /\ prev[w] \in Int /\ floor[w] \in Nat
             /\ Counted(w) \in Nat
             /\ Reported(w) <= Reported(w)
             /\ 0 \in 0 .. Word - 1 /\ Word \in Nat \ {0} /\ rec[w] \in 0 .. Word - 1
             /\ Reported(w) \in 0 .. Word - 1
  <2>1. Reported(w) \in 0 .. Word - 1 /\ Word \in Nat \ {0}
    BY <1>1, ReadingTypes
  <2>2. Reported(w) \in Int /\ Reported(w) <= Reported(w) /\ 0 \in 0 .. Word - 1
    BY SMT, <2>1
  <2> QED BY <1>1, <2>1, <2>2, ReadingTypes
<1>5. ASSUME KernelStill, UNCHANGED <<first, printed>>
      PROVE  /\ map' = map /\ reliable' = reliable /\ back' = back
             /\ \A w \in Words(map) :
                  /\ Counted(w)' = Counted(w)
                  /\ reliable /\ w \in Onward => Reported(w) <= Reported(w)' /\ Reported(w)' <= Counted(w)
  <2>1. \A w : Reported(w)' = Reported(w)
    BY <1>5 DEF Reported
  <2>2. \A w \in Onward : reliable => Reported(w) <= Reported(w)' /\ Reported(w)' <= Counted(w)
    BY <1>4, <2>1, ReportedWasCounted DEF Onward
  <2> QED BY <1>3, <1>5, <2>2
<1>6. CASE Attaches \/ Checks
  <2>1. KernelStill /\ UNCHANGED <<first, printed>>
    BY <1>6 DEF Attaches, Checks, startVars, historyVars, KernelStill
  <2> QED BY <1>5, <2>1
<1>7. CASE Begins
  <2>1. /\ KernelStill /\ pc = "first" /\ AtEnd(map, pos) /\ first' = rec /\ printed' = printed
    BY <1>1, <1>7 DEF Begins, FirstReading, pollVars, kernelVars, KernelStill, Counting
  <2>2. ASSUME NEW w \in Onward, reliable
        PROVE  Reported(w) <= Reported(w)' /\ Reported(w)' <= Counted(w)
    <3>1. first[w] = 0 /\ printed[w] = 0
      BY <1>1, <2>1, <2>2, ZeroTyped DEF Reporting, Onward
    <3>2. Reported(w) = (0 + 0) % Word /\ Reported(w)' = (rec[w] + 0) % Word
      BY <2>1, <3>1 DEF Reported
    <3>3. 0 + 0 = 0 /\ rec[w] + 0 = rec[w] /\ 0 <= rec[w]
      BY <1>4, <2>2 DEF Onward
    <3>4. Reported(w) = 0 /\ Reported(w)' = rec[w]
      BY <1>4, <2>2, <3>2, <3>3, SmallMod DEF Onward
    <3>5. Between(w)
      BY <1>1, <2>1, <2>2, ReadIsBetween
    <3> QED BY <3>3, <3>4, <3>5 DEF Between
  <2> QED BY <1>3, <2>1, <2>2
<1>8. CASE Turns
  <2>1. KernelStill /\ UNCHANGED <<first, printed>>
    BY <1>1, <1>8 DEF Turns, NewTurn, pollVars, kernelVars, KernelStill, Counting
  <2> QED BY <1>5, <2>1
<1>9. CASE ThreadTurns
  <2>1. KernelStill /\ UNCHANGED <<first, printed>>
    BY <1>1, <1>9 DEF ThreadTurns, NewTurn, pollVars, kernelVars, KernelStill, Counting
  <2> QED BY <1>5, <2>1
<1>10. CASE Prints \/ ThreadPrints
  <2>1. PICK next \in {"turn", "copy"} :
          (next = "copy" => map = "xsk_stats") /\ \E shown : ShowLines(shown, next)
    BY <1>10 DEF Prints, ThreadPrints
  <2>2. /\ KernelStill /\ pc = "collect" /\ AtEnd(map, pos)
        /\ \A w \in Words(map) :
             Reported(w) <= prev[w] /\ prev[w] <= rec[w] => Reported(w)' \in Reported(w) .. rec[w]
    BY <1>1, <2>1, LinesTyped
  <2>3. ASSUME NEW w \in Onward, reliable
        PROVE  Reported(w) <= Reported(w)' /\ Reported(w)' <= Counted(w)
    <3>1. Between(w)
      BY <1>1, <2>2, <2>3, ReadIsBetween
    <3>2. Reported(w) <= prev[w] /\ prev[w] <= floor[w]
      BY <1>1, <2>2, <2>3 DEF Reporting, ReportsBelow
    <3>3. floor[w] <= rec[w] /\ rec[w] <= Counted(w)
      BY <3>1 DEF Between
    <3>4. prev[w] <= rec[w]
      BY <1>4, <2>3, <3>2, <3>3 DEF Onward
    <3>5. Reported(w)' \in Reported(w) .. rec[w]
      BY <2>2, <2>3, <3>2, <3>4 DEF Onward
    <3> QED BY SMT, <1>4, <2>3, <3>3, <3>5 DEF Onward
  <2> QED BY <1>3, <2>2, <2>3
<1>11. CASE exception_print
  <2>1. /\ KernelStill /\ pc = "collect" /\ AtEnd(map, pos) /\ first' = first /\ printed' = rec
        /\ map = "exceptions"
    BY <1>1, <1>11 DEF exception_print, pollVars, kernelVars, KernelStill, Counting
  <2>2. ASSUME NEW w \in Onward, reliable
        PROVE  Reported(w) <= Reported(w)' /\ Reported(w)' <= Counted(w)
    <3>1. first[w] = 0
      BY <1>1, <2>1, <2>2, ZeroTyped DEF Reporting, Onward
    <3>2. Reported(w)' = (0 + rec[w]) % Word
      BY <2>1, <3>1 DEF Reported
    <3>3. 0 + rec[w] = rec[w]
      BY <1>4, <2>2 DEF Onward
    <3>4. Reported(w)' = rec[w]
      BY <1>4, <2>2, <3>2, <3>3, SmallMod DEF Onward
    <3>5. Between(w)
      BY <1>1, <2>1, <2>2, ReadIsBetween
    <3>6. Reported(w) <= prev[w] /\ prev[w] <= floor[w]
      BY <1>1, <2>1, <2>2 DEF Reporting, ReportsBelow
    <3>7. floor[w] <= rec[w] /\ rec[w] <= Counted(w)
      BY <3>5 DEF Between
    <3>8. Reported(w) <= rec[w]
      BY <1>4, <2>2, <3>6, <3>7 DEF Onward
    <3> QED BY <3>4, <3>7, <3>8
  <2> QED BY <1>3, <2>1, <2>2
<1>12. ASSUME NEW k \in Keys(map), CopyWord(k) \/ FailedLookup(k) \/ get_next_key(k)
       PROVE  /\ map' = map /\ reliable' = reliable /\ back' = back
              /\ \A w \in Words(map) :
                   /\ Counted(w)' = Counted(w)
                   /\ reliable /\ w \in Onward => Reported(w) <= Reported(w)' /\ Reported(w)' <= Counted(w)
  <2>1. KernelStill /\ UNCHANGED <<first, printed>>
    BY <1>1, <1>12 DEF CopyWord, FailedLookup, LookupFails, get_next_key, readVars, kernelVars,
       KernelStill, Counting
  <2> QED BY <1>5, <2>1
<1>13. CASE ThreadCopies
  <2>1. KernelStill /\ UNCHANGED <<first, printed>>
    BY <1>1, <1>13 DEF ThreadCopies, xsk_stats_poll, pollVars, kernelVars, KernelStill, Counting
  <2> QED BY <1>5, <2>1
<1> QED BY <1>2, <1>6, <1>7, <1>8, <1>9, <1>10, <1>11, <1>12, <1>13 DEF ReadersStep

LEMMA ReportsInit == Init => Reports!Init
<1> SUFFICES ASSUME Init PROVE Reports!Init
  OBVIOUS
<1>1. ASSUME NEW w \in Words(map) PROVE Counted(w) = 0 /\ Reported(w) = 0
  <2>1. Counted(w) = 0
    BY InitCounts
  <2>2. first[w] = 0 /\ printed[w] = 0
    BY ZeroTyped DEF Init
  <2>3. (0 + 0) % Word = 0
    BY SmallMod, SizesAssumption
  <2> QED BY <2>1, <2>2, <2>3 DEF Reported
<1>2. CountsOf = [w \in AllWords |-> 0] /\ ReportsOf = [w \in AllWords |-> 0]
  BY <1>1 DEF CountsOf, ReportsOf, Tracked
<1>3. BacksOf = {}
  BY DEF Init, BacksOf
<1> QED BY <1>2, <1>3 DEF Reports!Init, CountsOf, ReportsOf, BacksOf

(* The abstract steps, in terms of the counts and reports. *)
LEMMA ReportStep ==
  ASSUME CountsOf' = CountsOf, BacksOf' = BacksOf,
         \A w \in AllWords : w \in BacksOf \/ ReportsOf'[w] \in ReportsOf[w] .. CountsOf[w]
  PROVE  Reports!Next
  BY DEF Reports!Next, Reports!Report, CountsOf, ReportsOf, BacksOf

LEMMA CountStep ==
  ASSUME NEW x \in AllWords, BacksOf' \in {BacksOf, BacksOf \cup {x}},
         x \in BacksOf' \/ CountsOf'[x] > CountsOf[x],
         CountsOf' = [CountsOf EXCEPT ![x] = CountsOf'[x]], ReportsOf' = ReportsOf
  PROVE  Reports!Next
  BY DEF Reports!Next, Reports!Count, CountsOf, ReportsOf, BacksOf

LEMMA NoStep ==
  ASSUME CountsOf' = CountsOf, ReportsOf' = ReportsOf, BacksOf' = BacksOf
  PROVE  UNCHANGED Reports!vars
  BY DEF Reports!vars, CountsOf, ReportsOf, BacksOf

(* A count or a report, or nothing that is promised: the latter whatever happens
   while lookups fail. *)
LEMMA StepReports == Inv /\ [Next]_vars => [Reports!Next]_(Reports!vars)
<1> SUFFICES ASSUME Inv, [Next]_vars PROVE Reports!Next \/ UNCHANGED Reports!vars
  OBVIOUS
<1>1. Counting /\ Readings /\ Reporting
  BY DEF Inv
<1>2. AllWords' = AllWords /\ Words(map) \subseteq AllWords
  BY <1>1 DEF AllWords, Counting
<1>3. ASSUME map' = map, reliable' = reliable,
             reliable => back' = back,
             \A w \in Words(map) : reliable => Counted(w)' = Counted(w) /\ Reported(w)' = Reported(w)
      PROVE  UNCHANGED Reports!vars
  <2>1. CountsOf' = CountsOf /\ ReportsOf' = ReportsOf /\ BacksOf' = BacksOf
    BY <1>2, <1>3 DEF CountsOf, ReportsOf, BacksOf, Tracked
  <2> QED BY <2>1, NoStep
<1>4. CASE Reader
  <2>1. /\ map' = map /\ reliable' = reliable /\ back' = back
        /\ \A w \in Words(map) :
             /\ Counted(w)' = Counted(w)
             /\ reliable /\ w \in Onward => Reported(w) <= Reported(w)' /\ Reported(w)' <= Counted(w)
    BY <1>4, ReaderReports
  <2>2. ASSUME NEW w \in Words(map)
        PROVE  Reported(w) \in Int /\ Reported(w)' \in Int /\ Counted(w) \in Int
    <3>1. Counting' /\ Readings' /\ map' = map
      BY <1>1, <1>4, <2>1, ReaderKeeps
    <3>2. first'[w] \in 0 .. Word - 1 /\ printed'[w] \in 0 .. Word - 1
      BY <3>1 DEF Readings, ReadTypes
    <3>3. first'[w] + printed'[w] \in Int
      BY SMT, <3>2, SizesAssumption
    <3>4. Reported(w)' \in Int
      BY <3>3, ModInWord DEF Reported
    <3>5. Reported(w) \in 0 .. Word - 1 /\ Counted(w) \in Nat
      BY <1>1, ReadingTypes
    <3>6. Reported(w) \in Int
      BY SMT, <3>5, SizesAssumption
    <3> QED BY <3>4, <3>5, <3>6
  <2>3. CountsOf' = CountsOf /\ BacksOf' = BacksOf
    BY <1>2, <2>1 DEF CountsOf, BacksOf, Tracked
  <2>4. ASSUME NEW w \in AllWords, w \notin BacksOf PROVE ReportsOf'[w] \in ReportsOf[w] .. CountsOf[w]
    <3>1. CASE Tracked(w)
      <4>1. w \in Words(map) /\ reliable /\ w \in Onward
        BY <2>4, <3>1 DEF Tracked, BacksOf, Onward
      <4>2. ReportsOf'[w] = Reported(w)' /\ ReportsOf[w] = Reported(w) /\ CountsOf[w] = Counted(w)
        BY <1>2, <2>1, <3>1, <4>1 DEF ReportsOf, CountsOf, Tracked
      <4> QED BY <2>1, <2>2, <4>1, <4>2
    <3>2. CASE ~Tracked(w)
      <4>1. ReportsOf'[w] = 0 /\ ReportsOf[w] = 0 /\ CountsOf[w] = 0
        BY <1>2, <2>1, <3>2 DEF ReportsOf, CountsOf, Tracked
      <4> QED BY <4>1
    <3> QED BY <3>1, <3>2
  <2> QED BY <2>3, <2>4, ReportStep
<1>5. ASSUME NEW c \in Cpu, Event(c) PROVE UNCHANGED Reports!vars
  <2>1. /\ UNCHANGED <<map, reliable, back, readerVars>>
        /\ \A w \in Words(map) : Counted(w)' = Counted(w)
    BY <1>1, <1>5, EventKeeps
  <2>2. \A w : Reported(w)' = Reported(w)
    BY <2>1 DEF readerVars, historyVars, Reported
  <2> QED BY <1>3, <2>1, <2>2
<1>6. ASSUME NEW c \in Cpu, Add(c) PROVE Reports!Next \/ UNCHANGED Reports!vars
  <2>1. UNCHANGED <<map, reliable, readerVars>>
    BY <1>1, <1>6, AddKeeps
  <2>2. PICK x \in Words(map), n \in Nat :
          /\ back \subseteq back' /\ back' \subseteq back \cup {x}
          /\ \A w \in Words(map) \ {x} : Counted(w)' = Counted(w)
          /\ x \notin back' => Counted(x)' = Counted(x) + n
    BY <1>1, <1>6, AddKeeps
  <2>3. \A w : Reported(w)' = Reported(w)
    BY <2>1 DEF readerVars, historyVars, Reported
  <2>4. Counted(x) \in Nat
    BY <1>1, ReadingTypes
  <2>5. CASE ~reliable
    BY <1>3, <2>1, <2>5
  <2>6. CASE reliable /\ x \notin back' /\ n = 0
    <3>1. back' = back /\ Counted(x)' = Counted(x)
      BY <2>2, <2>4, <2>6
    <3>2. \A w \in Words(map) : Counted(w)' = Counted(w)
      BY <2>2, <3>1
    <3> QED BY <1>3, <2>1, <2>3, <3>1, <3>2
  <2>7. CASE reliable /\ (x \in back' \/ n # 0)
    <3>1. ReportsOf' = ReportsOf
      BY <2>1, <2>3 DEF ReportsOf, Tracked
    <3>2. x \in AllWords /\ Tracked(x) /\ \A w : Tracked(w)' <=> Tracked(w)
      BY <1>2, <2>1, <2>7 DEF Tracked
    <3>3. BacksOf' \in {BacksOf, BacksOf \cup {x}}
      <4>1. back' = back \/ back' = back \cup {x}
        BY <2>2
      <4>2. BacksOf' = {w \in AllWords : Tracked(w) /\ w \in back'}
        BY <1>2, <3>2 DEF BacksOf
      <4>3. CASE back' = back
        BY <4>2, <4>3 DEF BacksOf
      <4>4. CASE back' = back \cup {x}
        <5>1. {w \in AllWords : Tracked(w) /\ w \in back \cup {x}}
                = {w \in AllWords : Tracked(w) /\ w \in back} \cup {x}
          BY <3>2
        <5> QED BY <4>2, <4>4, <5>1 DEF BacksOf
      <4> QED BY <4>1, <4>3, <4>4
    <3>4. x \in BacksOf' \/ CountsOf'[x] > CountsOf[x]
      <4>1. CASE x \in back'
        BY <1>2, <3>2, <4>1 DEF BacksOf
      <4>2. CASE x \notin back'
        <5>1. Counted(x)' > Counted(x)
          BY <2>2, <2>4, <2>7, <4>2
        <5>2. CountsOf[x] = Counted(x) /\ CountsOf'[x] = Counted(x)'
          BY <1>2, <3>2 DEF CountsOf
        <5> QED BY <5>1, <5>2
      <4> QED BY <4>1, <4>2
    <3>5. ASSUME NEW w \in AllWords \ {x} PROVE CountsOf'[w] = CountsOf[w]
      <4>1. CASE w \in Words(map)
        BY <1>2, <2>1, <2>2, <3>5, <4>1 DEF CountsOf, Tracked
      <4>2. CASE w \notin Words(map)
        BY <1>2, <2>1, <4>2 DEF CountsOf, Tracked
      <4> QED BY <4>1, <4>2
    <3>6. CountsOf' = [CountsOf EXCEPT ![x] = CountsOf'[x]]
      <4>1. CountsOf = [w \in AllWords |-> CountsOf[w]]
        BY DEF CountsOf
      <4>2. CountsOf' = [w \in AllWords |-> CountsOf'[w]]
        BY DEF CountsOf, AllWords
      <4> QED BY <3>5, <4>1, <4>2
    <3> QED BY <3>1, <3>2, <3>3, <3>4, <3>6, CountStep
  <2> QED BY <2>5, <2>6, <2>7
<1>7. CASE UNCHANGED vars
  <2>1. map' = map /\ reliable' = reliable /\ back' = back /\ value' = value /\ first' = first /\ printed' = printed
    BY <1>7 DEF vars, kernelVars, readerVars, historyVars
  <2>2. \A w : Counted(w)' = Counted(w) /\ Reported(w)' = Reported(w)
    BY <2>1 DEF Counted, Reported
  <2> QED BY <1>3, <2>1, <2>2
<1> QED BY <1>4, <1>5, <1>6, <1>7 DEF Next

(* Unless a lookup fails, the differences printed of a word add up to what has been
   counted so far, or less: nothing is printed twice, taken back, or printed before it
   was counted. *)
THEOREM EventsReportedOnce == Spec => ReportedOnce
<1>1. Spec => Reports!Init /\ [][Reports!Next]_(Reports!vars)
  BY InitInv, NextInv, ReportsInit, StepReports, PTL DEF Spec
<1> QED BY <1>1 DEF ReportedOnce, Reports!Spec
=============================================================================
