---------------------------- MODULE ReloadProofs ----------------------------
(***************************************************************************)
(* What holds of XdpReload for any number of commands, whatever options    *)
(* they are given, with a driver that has native XDP and with one that has *)
(* not.                                                                    *)
(***************************************************************************)
EXTENDS XdpReload, WellFoundedInduction, TLAPS

-----------------------------------------------------------------------------
(* The invariant, of each command and of the hooks.                        *)

NotYet == {"new", "reuse", "load", "load_simple", "attach", "swap", "reattach", "refused"}

(* What a command can be at each of its steps. *)
OpAt(c) ==
  /\ pc[c] = "reuse" => opt[c].reuse
  /\ pc[c] \in {"reuse", "load"} => opt[c].op \in {"load", "app"}
  /\ pc[c] = "load_simple" => opt[c].op = "simple"
  /\ pc[c] \in {"attach", "swap", "reattach", "attached", "refused"} => opt[c].op \in {"load", "app", "simple"}
  /\ pc[c] \in {"reuse", "load", "attach", "swap", "reattach"} => (opt[c].op = "app" => opt[c].file)
  /\ pc[c] \in {"swap", "reattach"} => ~opt[c].noexist
  /\ pc[c] \in {"access", "unpin", "pin"} => opt[c].op = "load" /\ ~opt[c].reuse
  /\ pc[c] \in {"bind", "look", "default", "serving"} => opt[c].op = "app"
  /\ pc[c] = "query" => opt[c].op \in {"unload", "app"}
  /\ pc[c] = "remove" => opt[c].op \in {"unload", "remove", "app"}

(* xdp_loader's programs count in a map; those of the first lessons and the one that
   af_xdp_user does not name in none. *)
Counts(c) ==
  /\ opt[c].op = "load" => map_of[c] # NoOne
  /\ opt[c].op = "simple" \/ (opt[c].op = "app" /\ ~opt[c].file) => map_of[c] = NoOne

CmdInv(c) ==
  /\ pc[c] # "new" => opt[c] \in Option
  /\ OpAt(c)
  /\ pc[c] \in {"new", "load_simple"} => map_of[c] = NoOne
  /\ pc[c] \in {"attach", "swap", "reattach"} => Counts(c)
  /\ \A m \in Mode : attached[m] = c =>
       /\ pc[c] \notin NotYet /\ Counts(c)
       /\ m = Hook(opt[c].mode) /\ ~Unsupported(opt[c].mode)
       /\ ~(pc[c] = "done" /\ opt[c].op = "app")

(* The kernel keeps at most one of the hooks in use. *)
HookInv ==
  /\ attached["skb"] = NoOne \/ attached["drv"] = NoOne
  /\ ~DriverNative => attached["drv"] = NoOne

(* xdp_stats has read no more than the map of the ID it knows has counted. *)
StatsInv ==
  /\ s_pc \in {"first", "reopen", "collect"} => s_id \in Command
  /\ s_pc = "first" => s_fd = s_id
  /\ s_pc = "reopen" => prev <= record /\ record <= counter[s_id]
  /\ s_pc = "collect" => s_fd = s_id /\ prev <= counter[s_id]

(* As long as no two commands have run at a time. *)
AloneOf(c) ==
  /\ pc[c] \in {"attached", "access", "unpin", "pin"} => \E m \in Mode : attached[m] = c
  /\ pc[c] = "swap" => ~Unsupported(opt[c].mode) /\ attached[Opposite(Hook(opt[c].mode))] # NoOne
  /\ pc[c] = "reattach" =>
       ~Unsupported(opt[c].mode) /\ attached[Opposite(Hook(opt[c].mode))] = NoOne
  /\ pc[c] = "refused" /\ ~opt[c].noexist => Unsupported(opt[c].mode)
  /\ opt[c].reuse /\ pc[c] \in {"load", "attach", "swap", "reattach", "attached"} =>
       map_of[c] = pin /\ pin # NoOne
  /\ pc[c] = "done" /\ opt[c].op = "load" /\ (\E m \in Mode : attached[m] = c) => pin = map_of[c]

AloneInv ==
  ~overlapped =>
    /\ \A c, d \in Command : Running(c) /\ Running(d) => c = d
    /\ \A c \in Command : pc[c] # "new" => AloneOf(c)

At == Ended \cup {"new", "reuse", "load", "load_simple", "attach", "swap", "reattach", "attached",
                  "access", "unpin", "pin", "bind", "look", "default", "serving", "query", "remove"}

Types ==
  /\ attached \in [Mode -> Command \cup {NoOne}] /\ pin \in Command \cup {NoOne}
  /\ map_of \in [Command -> Command \cup {NoOne}] /\ counter \in [Command -> 0 .. MaxPackets]
  /\ opt \in [Command -> Option \cup {NoOne}] /\ pc \in [Command -> At] /\ overlapped \in BOOLEAN
  /\ s_pc \in {"new", "open", "first", "reopen", "collect", "exited"}
  /\ s_id \in Command \cup {NoOne} /\ s_fd \in Command \cup {NoOne}
  /\ prev \in 0 .. MaxPackets /\ record \in 0 .. MaxPackets /\ fds \in 0 .. FdLimit

CmdInvs == \A c \in Command : CmdInv(c)
IInv == Types /\ CmdInvs /\ HookInv /\ StatsInv /\ AloneInv

-----------------------------------------------------------------------------
(* What parse_cmdline_args and main() make of a command line: of several modes the
   last one counts, and a loader may replace programs just if it is given --force. *)

LEMMA LastOf ==
  ASSUME NEW n \in Nat, NEW S \in SUBSET (1 .. n), S # {}
  PROVE  \E i \in S : \A j \in S : j <= i
<1> DEFINE T == {n - i : i \in S}
<1>0. \A i \in S : n - i \in Nat
  OBVIOUS
<1>1. T \in SUBSET Nat /\ T # {}
  BY <1>0
<1>2. PICK k \in T : \A m \in T : k <= m
  <2> HIDE DEF T
  <2> DEFINE R == OpToRel(<, Nat)
  <2>1. IsWellFoundedOn(R, Nat)
    BY NatLessThanWellFounded
  <2>2. \A x, y \in Nat : x < y => <<x, y>> \in R
    BY DEF OpToRel
  <2> HIDE DEF R
  <2>3. PICK k \in T : \A m \in T : <<m, k>> \notin R
    BY Zenon, <1>1, <2>1, WFMin
  <2>4. k \in Nat /\ \A m \in T : m \in Nat /\ ~(m < k)
    BY <1>1, <2>2, <2>3
  <2>5. \A m \in T : k <= m
    BY <2>4
  <2> QED BY <2>5
<1>3. PICK i \in S : k = n - i
  BY <1>2
<1>4. ASSUME NEW j \in S PROVE j <= i
  <2>1. n - i <= n - j
    BY <1>2, <1>3
  <2> QED BY <2>1
<1> QED BY <1>4

LEMMA ModeChosen ==
  ASSUME NEW i \in Invocation
  PROVE  parse_cmdline_args(i[1], i[2]).mode \in {"auto", "skb", "drv"}
<1> DEFINE args == i[2]
           modes == {j \in DOMAIN args : args[j] \in {"A", "S", "N"}}
           last == CHOOSE k \in modes : \A j \in modes : j <= k
           ModeOf == [A |-> "auto", S |-> "skb", N |-> "drv"]
<1>1. args \in Seq({"A", "S", "N", "F", "M", "U", "c", "z", "f"})
  BY InvocationAssumption
<1>2. DOMAIN args = 1 .. Len(args) /\ Len(args) \in Nat
  BY <1>1
<1>3. modes # {} => args[last] \in {"A", "S", "N"}
  <2> SUFFICES ASSUME modes # {} PROVE args[last] \in {"A", "S", "N"}
    OBVIOUS
  <2>1. \E k \in modes : \A j \in modes : j <= k
    <3> HIDE DEF args
    <3>1. modes \in SUBSET (1 .. Len(args))
      BY <1>2
    <3> HIDE DEF modes
    <3> QED BY <1>2, <3>1, LastOf
  <2> HIDE DEF args
  <2>2. last \in modes
    <3> HIDE DEF modes
    <3> QED BY <2>1
  <2> HIDE DEF last
  <2> QED BY <2>2
<1>4. \A l \in {"A", "S", "N"} : ModeOf[l] \in {"auto", "skb", "drv"}
  OBVIOUS
<1>5. Defaults(i[1]).mode \in {"auto", "skb", "drv"}
  BY DEF Defaults
<1>6. parse_cmdline_args(i[1], i[2]).mode = IF modes = {} THEN Defaults(i[1]).mode ELSE ModeOf[args[last]]
  BY DEF parse_cmdline_args
<1> HIDE DEF modes, last, ModeOf, args
<1> QED BY <1>3, <1>4, <1>5, <1>6

LEMMA OptionFacts ==
  ASSUME NEW o \in Option
  PROVE  /\ o.mode \in {"auto", "skb", "drv"} /\ o.reuse \in BOOLEAN /\ o.noexist \in BOOLEAN
         /\ o.op \in {"load", "app", "simple", "unload", "remove"}
         /\ o.op \in {"load", "simple"} /\ ~o.noexist => o.force
         /\ o.reuse => o.op \in {"load", "app"}
<1>1. PICK i \in Invocation : o = Chosen(i[1], i[2])
  BY DEF Option
<1> DEFINE cfg == parse_cmdline_args(i[1], i[2])
           p == i[1]
<1>2. cfg.mode \in {"auto", "skb", "drv"}
  BY ModeChosen
<1>3. p \in {"xdp_pass_user", "basic02", "xdp_loader", "af_xdp_user"}
  BY InvocationAssumption
<1>4. cfg.noexist \in BOOLEAN /\ cfg.reuse \in BOOLEAN /\ cfg.unload \in BOOLEAN
      /\ (p # "af_xdp_user" /\ ~cfg.noexist => cfg.force)
  <2> DEFINE given == {i[2][j] : j \in DOMAIN i[2]}
  <2>1. Defaults(p).noexist = (p # "af_xdp_user")
    BY DEF Defaults
  <2>2. /\ cfg.force = ("F" \in given) /\ cfg.noexist = (Defaults(p).noexist /\ "F" \notin given)
        /\ cfg.reuse = ("M" \in given) /\ cfg.unload = ("U" \in given)
    BY Zenon DEF parse_cmdline_args
  <2> HIDE DEF cfg, given
  <2>3. cfg.noexist \in BOOLEAN
    BY Zenon, <2>2
  <2>4. p # "af_xdp_user" /\ ~cfg.noexist => cfg.force
    BY <2>1, <2>2
  <2>5. ("M" \in given) \in BOOLEAN /\ ("U" \in given) \in BOOLEAN
    OBVIOUS
  <2>6. cfg.reuse \in BOOLEAN /\ cfg.unload \in BOOLEAN
    BY <2>2, <2>5
  <2> QED BY <2>3, <2>4, <2>6
<1>5. /\ o.op = Op(p, cfg.unload) /\ o.mode = cfg.mode /\ o.force = cfg.force /\ o.noexist = cfg.noexist
      /\ o.reuse = (Op(p, cfg.unload) \in {"load", "app"} /\ cfg.reuse)
  BY <1>1 DEF Chosen
<1> HIDE DEF cfg, p
<1>6. /\ Op(p, cfg.unload) \in {"load", "app", "simple", "unload", "remove"}
      /\ Op(p, cfg.unload) \in {"load", "simple"} => p # "af_xdp_user"
  BY <1>3, <1>4 DEF Op
<1>7. o.reuse \in BOOLEAN /\ (o.reuse => o.op \in {"load", "app"})
  BY <1>5
<1>8. o.op \in {"load", "simple"} /\ ~o.noexist => o.force
  BY <1>4, <1>5, <1>6
<1> QED BY <1>2, <1>4, <1>5, <1>6, <1>7, <1>8

-----------------------------------------------------------------------------
LEMMA ConstantFacts ==
  /\ NoOne \notin Command /\ DriverNative \in BOOLEAN /\ FdLimit \in Nat /\ MaxPackets \in Nat
  /\ "skb" \in Mode /\ "drv" \in Mode /\ \A m \in Mode : m = "skb" \/ m = "drv"
BY CommandAssumption, BoundsAssumption DEF Mode

LEMMA InvFromStart == Init => IInv
<1> SUFFICES ASSUME Init PROVE IInv
  OBVIOUS
<1> USE ConstantFacts
<1>1. Types
  <2>1. attached \in [Mode -> Command \cup {NoOne}] /\ map_of \in [Command -> Command \cup {NoOne}]
        /\ opt \in [Command -> Option \cup {NoOne}]
    BY DEF Init
  <2>2. counter \in [Command -> 0 .. MaxPackets] /\ pc \in [Command -> At]
    BY DEF Init, At
  <2>3. overlapped \in BOOLEAN
    BY DEF Init
  <2> QED BY <2>1, <2>2, <2>3 DEF Init, Types
<1>2. CmdInvs /\ HookInv
  BY DEF Init, CmdInvs, CmdInv, OpAt, HookInv
<1>3. StatsInv /\ AloneInv
  BY DEF Init, StatsInv, AloneInv, Running
<1> QED BY <1>1, <1>2, <1>3 DEF IInv

LEMMA TypesSuffice == Types /\ CmdInvs /\ StatsInv => TypeOK
<1> SUFFICES ASSUME Types, CmdInvs, StatsInv PROVE TypeOK
  OBVIOUS
<1>1. \A m \in Mode : attached[m] # NoOne => Counts(attached[m])
  BY DEF Types, CmdInvs, CmdInv
<1>2. s_pc \in {"first", "collect"} => s_fd # NoOne
  BY ConstantFacts DEF StatsInv
<1> QED BY <1>1, <1>2 DEF Types, TypeOK, At, Counts

-----------------------------------------------------------------------------
(* The steps of a command leave the other commands as they are, and take their programs
   from a hook at most. *)

LEMMA OthersKept ==
  ASSUME Types, CmdInvs, NEW c \in Command,
         \A d \in Command : d # c => pc'[d] = pc[d] /\ opt'[d] = opt[d] /\ map_of'[d] = map_of[d],
         \A m \in Mode : attached'[m] \in {attached[m], c, NoOne},
         CmdInv(c)'
  PROVE  CmdInvs'
<1> SUFFICES ASSUME NEW d \in Command, d # c PROVE CmdInv(d)'
  BY DEF CmdInvs
<1>1. CmdInv(d) /\ pc'[d] = pc[d] /\ opt'[d] = opt[d] /\ map_of'[d] = map_of[d]
  BY DEF CmdInvs
<1>2. \A m \in Mode : attached'[m] = d => attached[m] = d
  BY ConstantFacts
<1>3. OpAt(d)' /\ (Counts(d)' <=> Counts(d))
  BY <1>1 DEF CmdInv, OpAt, Counts
<1> QED BY <1>1, <1>2, <1>3 DEF CmdInv, Hook, Unsupported

LEMMA QuietSteps ==
  ASSUME Types, CmdInvs, HookInv, NEW c \in Command,
         \/ LoadSimple(c) \/ AfterAttach(c) \/ BindSocket(c) \/ LookForProgram(c)
         \/ AccessPin(c) \/ StopServing(c) \/ xdp_link_detach(c) \/ Kill(c)
  PROVE  Types' /\ CmdInvs' /\ HookInv' /\ UNCHANGED <<linkVars, opt, overlapped, statsVars>>
<1> USE ConstantFacts
<1>1. UNCHANGED <<linkVars, opt, overlapped, statsVars>>
  BY DEF LoadSimple, AfterAttach, BindSocket, LookForProgram, AccessPin, StopServing, xdp_link_detach, Kill
<1>2. \E l \in At : pc' = [pc EXCEPT ![c] = l]
  BY DEF LoadSimple, AfterAttach, BindSocket, LookForProgram, AccessPin, StopServing, xdp_link_detach, Kill, Goto, At, Ended
<1>3. pc' \in [Command -> At] /\ \A d \in Command : d # c => pc'[d] = pc[d]
  BY <1>2 DEF Types
<1>4. Types'
  BY <1>1, <1>3 DEF Types, linkVars, statsVars
<1>5. HookInv'
  BY <1>1 DEF HookInv, linkVars
<1>6. CmdInv(c) /\ (pc[c] # "new" => opt[c] \in Option)
  BY DEF CmdInvs, CmdInv
<1>7. UNCHANGED <<attached, map_of, opt>>
  BY <1>1 DEF linkVars
<1>8. CmdInv(c)'
  <2>1. CASE LoadSimple(c)
    <3>1. pc[c] = "load_simple" /\ pc'[c] \in {"failed", "attach"}
      BY <2>1 DEF LoadSimple, Goto, Types
    <3> QED BY <1>6, <1>7, <3>1 DEF CmdInv, OpAt, Counts, NotYet
  <2>2. CASE AfterAttach(c)
    <3>1. /\ pc[c] = "attached"
          /\ \/ opt[c].op = "load" /\ pc'[c] = IF opt[c].reuse THEN "done" ELSE "access"
             \/ opt[c].op = "app" /\ pc'[c] \in {"bind", "failed"}
             \/ opt[c].op = "simple" /\ pc'[c] = "done"
      BY <2>2 DEF AfterAttach, Goto, Types
    <3>2. opt[c].reuse \in BOOLEAN
      BY <1>6, <3>1, OptionFacts
    <3>3. OpAt(c)'
      BY <1>7, <3>1, <3>2 DEF OpAt
    <3> QED BY <1>6, <1>7, <3>1, <3>3 DEF CmdInv, Counts, NotYet
  <2>3. CASE AccessPin(c) \/ StopServing(c)
    <3>1. \/ pc[c] = "access" /\ pc'[c] \in {"pin", "unpin"}
          \/ pc[c] = "serving" /\ pc'[c] = "query"
      BY <2>3 DEF AccessPin, StopServing, Goto, Types
    <3> QED BY <1>6, <1>7, <3>1 DEF CmdInv, OpAt, Counts, NotYet
  <2>4. CASE xdp_link_detach(c)
    <3>1. /\ pc[c] = "query"
          /\ pc'[c] = IF CurrentId(opt[c].mode) = NoOne THEN "done" ELSE "remove"
      BY <2>4 DEF xdp_link_detach, Goto, Types
    <3>2. opt[c].mode \in {"auto", "skb", "drv"}
      BY <1>6, <3>1, OptionFacts
    <3>3. CurrentId(opt[c].mode) = NoOne => \A m \in Mode : attached[m] # c
      BY <1>6, <3>2 DEF CurrentId, CmdInv, Hook, Unsupported, HookInv
    <3> QED BY <1>6, <1>7, <3>1, <3>3 DEF CmdInv, OpAt, Counts, NotYet
  <2>5. CASE Kill(c)
    <3>1. pc[c] # "new" /\ pc'[c] = "killed"
      BY <2>5 DEF Kill, Running, Goto, Types
    <3>2. \A m \in Mode : attached[m] = c => Counts(c) /\ m = Hook(opt[c].mode) /\ ~Unsupported(opt[c].mode)
      BY <1>6 DEF CmdInv
    <3> QED BY <1>6, <1>7, <3>1, <3>2 DEF CmdInv, OpAt, Counts, NotYet
  <2>6. CASE BindSocket(c) \/ LookForProgram(c)
    <3>1. \E l \in {"failed", "look", "default", "serving"} : pc' = [pc EXCEPT ![c] = l]
      BY <2>6 DEF BindSocket, LookForProgram, Goto
    <3>2. pc[c] \in {"bind", "look"} /\ pc'[c] \in {"failed", "look", "default", "serving"}
      BY <2>6, <3>1 DEF BindSocket, LookForProgram, Types
    <3> QED BY <1>6, <1>7, <3>2 DEF CmdInv, OpAt, Counts, NotYet
  <2> QED BY <2>1, <2>2, <2>3, <2>4, <2>5, <2>6
<1> QED BY <1>1, <1>3, <1>4, <1>5, <1>7, <1>8, OthersKept

LEMMA StartStep ==
  ASSUME Types, CmdInvs, HookInv, NEW c \in Command, Start(c)
  PROVE  Types' /\ CmdInvs' /\ HookInv'
<1> USE ConstantFacts
<1>1. PICK o \in Option : opt' = [opt EXCEPT ![c] = o] /\ pc' = [pc EXCEPT ![c] = FirstStep(o)]
  BY DEF Start, Goto
<1>2. /\ pc[c] = "new" /\ UNCHANGED <<attached, pin, map_of, counter, statsVars>>
      /\ overlapped' = (overlapped \/ \E d \in Command : Running(d))
  BY DEF Start, linkVars
<1>3. o.op \in {"load", "app", "simple", "unload", "remove"} /\ o.reuse \in BOOLEAN
  BY OptionFacts
<1>4. FirstStep(o) \in {"query", "remove", "load_simple", "reuse", "load", "bind"} /\ FirstStep(o) \in At
  BY <1>3 DEF FirstStep, At
<1>5. /\ pc' \in [Command -> At] /\ opt' \in [Command -> Option \cup {NoOne}]
      /\ pc'[c] = FirstStep(o) /\ opt'[c] = o
      /\ \A d \in Command : d # c => pc'[d] = pc[d] /\ opt'[d] = opt[d]
  BY <1>1, <1>4 DEF Types
<1>6. overlapped' \in BOOLEAN
  BY Zenon, <1>2
<1>7. Types'
  BY <1>2, <1>5, <1>6 DEF Types, statsVars
<1>8. CmdInv(c)'
  <2>1. map_of'[c] = NoOne /\ \A m \in Mode : attached'[m] # c
    BY <1>2 DEF CmdInvs, CmdInv, NotYet
  <2>2. OpAt(c)'
    BY <1>3, <1>5 DEF OpAt, FirstStep
  <2> QED BY <1>4, <1>5, <2>1, <2>2 DEF CmdInv
<1> QED BY <1>2, <1>5, <1>7, <1>8, OthersKept DEF HookInv

(* reuse_maps and the loading of the file give the program its map. *)
LEMMA MapSteps ==
  ASSUME Types, CmdInvs, HookInv, NEW c \in Command, reuse_maps(c) \/ LoadObject(c)
  PROVE  Types' /\ CmdInvs' /\ HookInv'
<1> USE ConstantFacts
<1>1. UNCHANGED <<attached, pin, counter, opt, overlapped, statsVars>>
  BY DEF reuse_maps, LoadObject
<1>2. \/ pc[c] = "reuse" /\ pc' = [pc EXCEPT ![c] = "failed"] /\ map_of' = map_of
      \/ pc[c] = "reuse" /\ pin # NoOne /\ pc' = [pc EXCEPT ![c] = "load"] /\ map_of' = [map_of EXCEPT ![c] = pin]
      \/ pc[c] = "load" /\ pc' = [pc EXCEPT ![c] = "failed"] /\ map_of' = map_of
      \/ /\ pc[c] = "load" /\ pc' = [pc EXCEPT ![c] = "attach"]
         /\ map_of' = IF map_of[c] = NoOne THEN [map_of EXCEPT ![c] = c] ELSE map_of
  BY DEF reuse_maps, LoadObject, Goto
<1>3. /\ pc' \in [Command -> At] /\ map_of' \in [Command -> Command \cup {NoOne}]
      /\ \A d \in Command : d # c => pc'[d] = pc[d] /\ map_of'[d] = map_of[d]
  BY <1>2 DEF Types, At, Ended
<1>4. \/ pc[c] = "reuse" /\ pc'[c] \in {"failed", "load"}
      \/ pc[c] = "load" /\ pc'[c] = "failed"
      \/ pc[c] = "load" /\ pc'[c] = "attach" /\ map_of'[c] # NoOne
  <2>1. \A l \in At : pc' = [pc EXCEPT ![c] = l] => pc'[c] = l
    BY DEF Types
  <2>2. "failed" \in At /\ "load" \in At /\ "attach" \in At
    BY DEF At, Ended
  <2>3. map_of' = (IF map_of[c] = NoOne THEN [map_of EXCEPT ![c] = c] ELSE map_of) => map_of'[c] # NoOne
    BY DEF Types
  <2> QED BY <1>2, <2>1, <2>2, <2>3
<1>5. Types'
  BY <1>1, <1>3 DEF Types, statsVars
<1>6. CmdInv(c)
  BY DEF CmdInvs
<1>7. CmdInv(c)'
  <2>1. OpAt(c)'
    BY <1>1, <1>4, <1>6 DEF CmdInv, OpAt
  <2>2. Counts(c)' \/ pc'[c] # "attach"
    BY <1>1, <1>4, <1>6 DEF CmdInv, OpAt, Counts
  <2> QED BY <1>1, <1>4, <1>6, <2>1, <2>2 DEF CmdInv, NotYet
<1> QED BY <1>1, <1>3, <1>5, <1>7, OthersKept DEF HookInv

(* xdp_link_attach, which tries once more after it has removed a program. *)
LEMMA HookSteps ==
  ASSUME Types, CmdInvs, HookInv, NEW c \in Command,
         xdp_link_attach(c) \/ RemoveOpposite(c) \/ Reattach(c)
  PROVE  Types' /\ CmdInvs' /\ HookInv'
<1> USE ConstantFacts
<1> DEFINE h == Hook(opt[c].mode)
<1>1. UNCHANGED <<pin, map_of, counter, opt, overlapped, statsVars>>
  BY DEF xdp_link_attach, RemoveOpposite, Reattach
<1>2. \/ /\ pc[c] \in {"attach", "reattach"} /\ pc' = [pc EXCEPT ![c] = "attached"]
         /\ attached' = [attached EXCEPT ![h] = c]
         /\ \E e \in BOOLEAN : AttachResult(opt[c].mode, e) = "ok"
      \/ /\ pc[c] = "attach" /\ ~opt[c].noexist /\ pc' = [pc EXCEPT ![c] = "swap"]
         /\ attached' = attached
      \/ /\ pc[c] \in {"attach", "swap", "reattach"} /\ pc' = [pc EXCEPT ![c] = "refused"]
         /\ attached' = attached
      \/ /\ pc[c] = "swap" /\ pc' = [pc EXCEPT ![c] = "reattach"]
         /\ \E m \in Mode : attached' = [attached EXCEPT ![Hook(m)] = NoOne]
  <2>0. opt[c].noexist \in BOOLEAN
    <3>1. xdp_link_attach(c) \/ RemoveOpposite(c) \/ Reattach(c) => pc[c] # "new"
      BY DEF xdp_link_attach, RemoveOpposite, Reattach
    <3> QED BY <3>1, OptionFacts DEF CmdInvs, CmdInv
  <2>1. CASE xdp_link_attach(c)
    BY <2>0, <2>1 DEF xdp_link_attach, Goto
  <2>2. CASE Reattach(c)
    BY <2>0, <2>2 DEF Reattach, Goto
  <2>3. CASE RemoveOpposite(c)
    BY <2>3 DEF RemoveOpposite, Goto
  <2> QED BY <2>1, <2>2, <2>3
<1>3. /\ pc' \in [Command -> At] /\ pc[c] \in {"attach", "swap", "reattach"}
      /\ \A d \in Command : d # c => pc'[d] = pc[d]
  BY <1>2 DEF Types, At, Ended
<1>4. h \in Mode /\ \A m \in Mode : Hook(m) \in Mode
  BY DEF Hook
<1>5. attached' \in [Mode -> Command \cup {NoOne}] /\ \A m \in Mode : attached'[m] \in {attached[m], c, NoOne}
  BY <1>2, <1>4 DEF Types
<1>6. Types'
  BY <1>1, <1>3, <1>5 DEF Types, statsVars
<1>7. CmdInv(c) /\ \A m \in Mode : attached[m] # c
  BY <1>3 DEF CmdInvs, CmdInv, NotYet
<1>8. CASE /\ pc[c] \in {"attach", "reattach"} /\ pc' = [pc EXCEPT ![c] = "attached"]
           /\ attached' = [attached EXCEPT ![h] = c]
           /\ \E e \in BOOLEAN : AttachResult(opt[c].mode, e) = "ok"
  <2>1. ~Unsupported(opt[c].mode) /\ attached[Opposite(h)] = NoOne
    BY <1>8 DEF AttachResult
  <2>2. \A m \in Mode : attached'[m] = IF m = h THEN c ELSE attached[m]
    BY <1>4, <1>8 DEF Types
  <2>3. pc'[c] = "attached"
    BY <1>8 DEF Types
  <2>4. Opposite(h) \in Mode /\ \A m \in Mode : m # h => m = Opposite(h)
    BY <1>4 DEF Opposite
  <2>5. HookInv'
    <3>1. \A m \in Mode : m # h => attached'[m] = NoOne
      BY <2>1, <2>2, <2>4
    <3>2. ~DriverNative => h = "skb"
      BY <2>1 DEF Hook, Unsupported
    <3> QED BY <3>1, <3>2, <1>4 DEF HookInv
  <2>6. CmdInv(c)'
    <3>1. \A m \in Mode : attached'[m] = c => m = h
      BY <1>7, <2>2
    <3>2. OpAt(c)' /\ Counts(c)'
      BY <1>1, <1>7, <1>8, <2>3 DEF CmdInv, OpAt, Counts
    <3> HIDE DEF h
    <3>3. \A m \in Mode : attached'[m] = c => m = Hook(opt'[c].mode) /\ ~Unsupported(opt'[c].mode)
      BY <1>1, <2>1, <3>1 DEF h
    <3>4. pc[c] # "new" /\ opt'[c] = opt[c]
      BY <1>1, <1>3
    <3> QED BY <1>7, <2>3, <3>2, <3>3, <3>4 DEF CmdInv, NotYet, Hook, Unsupported
  <2> QED BY <1>1, <1>3, <1>5, <1>6, <2>5, <2>6, OthersKept
<1>9. CASE \/ /\ pc[c] = "attach" /\ ~opt[c].noexist /\ pc' = [pc EXCEPT ![c] = "swap"]
              /\ attached' = attached
           \/ /\ pc[c] \in {"attach", "swap", "reattach"} /\ pc' = [pc EXCEPT ![c] = "refused"]
              /\ attached' = attached
           \/ /\ pc[c] = "swap" /\ pc' = [pc EXCEPT ![c] = "reattach"]
              /\ \E m \in Mode : attached' = [attached EXCEPT ![Hook(m)] = NoOne]
  <2>1. pc'[c] \in {"swap", "reattach", "refused"} /\ (pc'[c] \in {"swap", "reattach"} => ~opt[c].noexist)
    BY <1>7, <1>9 DEF Types, CmdInv, OpAt
  <2>2. \A m \in Mode : attached'[m] \in {attached[m], NoOne}
    BY <1>4, <1>9 DEF Types
  <2>3. HookInv'
    BY <2>2 DEF HookInv
  <2>4. CmdInv(c)'
    <3>1. \A m \in Mode : attached'[m] # c
      BY <1>7, <2>2
    <3>2. OpAt(c)' /\ Counts(c)'
      BY <1>1, <1>3, <1>7, <2>1 DEF CmdInv, OpAt, Counts
    <3> QED BY <1>1, <1>3, <1>7, <2>1, <3>1, <3>2 DEF CmdInv
  <2> QED BY <1>1, <1>3, <1>5, <1>6, <2>3, <2>4, OthersKept
<1> QED BY <1>2, <1>8, <1>9

LEMMA PinSteps ==
  ASSUME Types, CmdInvs, HookInv, NEW c \in Command, UnpinMaps(c) \/ PinMaps(c)
  PROVE  Types' /\ CmdInvs' /\ HookInv'
<1> USE ConstantFacts
<1>1. UNCHANGED <<attached, map_of, counter, opt, overlapped, statsVars>>
  BY DEF UnpinMaps, PinMaps
<1>2. /\ pc[c] \in {"unpin", "pin"} /\ \E l \in {"failed", "pin", "done"} : pc' = [pc EXCEPT ![c] = l]
      /\ pin' \in {NoOne, pin, map_of[c]}
  BY DEF UnpinMaps, PinMaps, Goto
<1>3. /\ pc' \in [Command -> At] /\ pc'[c] \in {"failed", "pin", "done"}
      /\ \A d \in Command : d # c => pc'[d] = pc[d]
  BY <1>2 DEF Types, At, Ended
<1>4. pin' \in Command \cup {NoOne}
  BY <1>2 DEF Types
<1>5. Types'
  BY <1>1, <1>3, <1>4 DEF Types, statsVars
<1>6. CmdInv(c) /\ opt[c].op = "load" /\ ~opt[c].reuse
  BY <1>2 DEF CmdInvs, CmdInv, OpAt
<1>7. CmdInv(c)'
  <2>1. OpAt(c)'
    BY <1>1, <1>3, <1>6 DEF OpAt
  <2> QED BY <1>1, <1>2, <1>3, <1>6, <2>1 DEF CmdInv, Counts, NotYet
<1> QED BY <1>1, <1>3, <1>5, <1>7, OthersKept DEF HookInv

LEMMA RemoveStep ==
  ASSUME Types, CmdInvs, HookInv, NEW c \in Command, RemoveLink(c)
  PROVE  Types' /\ CmdInvs' /\ HookInv'
<1> USE ConstantFacts
<1> DEFINE h == Hook(opt[c].mode)
<1>1. UNCHANGED <<pin, map_of, counter, opt, overlapped, statsVars>> /\ pc[c] = "remove"
  BY DEF RemoveLink
<1>2. \/ Unsupported(opt[c].mode) /\ pc' = [pc EXCEPT ![c] = "failed"] /\ attached' = attached
      \/ pc' = [pc EXCEPT ![c] = "done"] /\ attached' = [attached EXCEPT ![h] = NoOne]
  BY DEF RemoveLink, Goto
<1>3. /\ pc' \in [Command -> At] /\ pc'[c] \in {"failed", "done"}
      /\ \A d \in Command : d # c => pc'[d] = pc[d]
  BY <1>2 DEF Types, At, Ended
<1>4. h \in Mode
  BY DEF Hook
<1>5. /\ attached' \in [Mode -> Command \cup {NoOne}] /\ \A m \in Mode : attached'[m] \in {attached[m], NoOne}
      /\ pc'[c] = "done" => attached'[h] = NoOne
  BY <1>2, <1>4 DEF Types
<1>6. Types'
  BY <1>1, <1>3, <1>5 DEF Types, statsVars
<1>7. CmdInv(c)
  BY DEF CmdInvs
<1>8. CmdInv(c)'
  <2>1. \A m \in Mode : attached'[m] = c => attached[m] = c /\ pc'[c] # "done"
    BY <1>5, <1>7 DEF CmdInv
  <2>2. OpAt(c)'
    BY <1>3 DEF OpAt
  <2> QED BY <1>1, <1>3, <1>7, <2>1, <2>2 DEF CmdInv, Counts, NotYet
<1>9. HookInv'
  BY <1>5 DEF HookInv
<1> QED BY <1>1, <1>3, <1>5, <1>6, <1>8, <1>9, OthersKept

LEMMA DefaultStep ==
  ASSUME Types, CmdInvs, HookInv, NEW c \in Command, AttachDefault(c)
  PROVE  Types' /\ CmdInvs' /\ HookInv'
<1> USE ConstantFacts
<1> DEFINE h == Hook(opt[c].mode)
<1>1. UNCHANGED <<pin, counter, opt, overlapped, statsVars>> /\ pc[c] = "default"
  BY DEF AttachDefault
<1>2. \/ /\ AttachResult(opt[c].mode, opt[c].noexist) = "ok" /\ attached' = [attached EXCEPT ![h] = c]
         /\ map_of' = [map_of EXCEPT ![c] = NoOne]
         /\ \E l \in {"serving", "failed"} : pc' = [pc EXCEPT ![c] = l]
      \/ pc' = [pc EXCEPT ![c] = "failed"] /\ attached' = attached /\ map_of' = map_of
  BY DEF AttachDefault, Goto
<1>3. /\ pc' \in [Command -> At] /\ pc'[c] \in {"serving", "failed"}
      /\ map_of' \in [Command -> Command \cup {NoOne}]
      /\ \A d \in Command : d # c => pc'[d] = pc[d] /\ map_of'[d] = map_of[d]
  BY <1>2 DEF Types, At, Ended
<1>4. h \in Mode /\ Opposite(h) \in Mode /\ \A m \in Mode : m # h => m = Opposite(h)
  BY DEF Hook, Opposite
<1>5. attached' \in [Mode -> Command \cup {NoOne}] /\ \A m \in Mode : attached'[m] \in {attached[m], c, NoOne}
  BY <1>2, <1>4 DEF Types
<1>6. Types'
  BY <1>1, <1>3, <1>5 DEF Types, statsVars
<1>7. CmdInv(c) /\ opt[c].op = "app" /\ opt[c] \in Option
  BY <1>1 DEF CmdInvs, CmdInv, OpAt
<1>8. OpAt(c)'
  BY <1>1, <1>3, <1>7 DEF OpAt
<1>9. CASE attached' = attached /\ map_of' = map_of
  <2>1. CmdInv(c)'
    BY <1>1, <1>3, <1>7, <1>8, <1>9 DEF CmdInv, Counts, NotYet
  <2>2. HookInv'
    BY <1>9 DEF HookInv
  <2> QED BY <1>1, <1>3, <1>5, <1>6, <2>1, <2>2, OthersKept
<1>10. CASE /\ AttachResult(opt[c].mode, opt[c].noexist) = "ok" /\ attached' = [attached EXCEPT ![h] = c]
            /\ map_of' = [map_of EXCEPT ![c] = NoOne]
  <2>1. ~Unsupported(opt[c].mode) /\ attached[Opposite(h)] = NoOne
    BY <1>10 DEF AttachResult
  <2>2. \A m \in Mode : attached'[m] = IF m = h THEN c ELSE attached[m]
    BY <1>4, <1>10 DEF Types
  <2>3. HookInv'
    <3>1. \A m \in Mode : m # h => attached'[m] = NoOne
      BY <1>4, <2>1, <2>2
    <3>2. ~DriverNative => h = "skb"
      BY <2>1 DEF Hook, Unsupported
    <3> QED BY <3>1, <3>2, <1>4 DEF HookInv
  <2>4. map_of'[c] = NoOne
    BY <1>10 DEF Types
  <2>5. Counts(c)'
    BY <1>1, <1>7, <2>4 DEF Counts
  <2>6. \A m \in Mode : attached'[m] = c => m = h
    BY <1>4, <1>7, <2>1, <2>2 DEF CmdInv
  <2> HIDE DEF h
  <2>7. \A m \in Mode : attached'[m] = c => m = Hook(opt'[c].mode) /\ ~Unsupported(opt'[c].mode)
    BY <1>1, <2>1, <2>6 DEF h
  <2>8. CmdInv(c)'
    BY <1>1, <1>3, <1>7, <1>8, <2>5, <2>7 DEF CmdInv, NotYet, Hook, Unsupported
  <2> QED BY <1>1, <1>3, <1>5, <1>6, <2>3, <2>8, OthersKept
<1> QED BY <1>2, <1>9, <1>10

LEMMA CommandSteps ==
  ASSUME Types, CmdInvs, HookInv, NEW c \in Command, Step(c)
  PROVE  Types' /\ CmdInvs' /\ HookInv'
BY StartStep, MapSteps, HookSteps, PinSteps, RemoveStep, DefaultStep, QuietSteps DEF Step

-----------------------------------------------------------------------------
(* Packets and xdp_stats.                                                  *)

LEMMA StepLeavesStats ==
  ASSUME NEW c \in Command, Step(c)
  PROVE  UNCHANGED <<counter, statsVars>>
BY DEF Step, Start, reuse_maps, LoadObject, LoadSimple, xdp_link_attach, RemoveOpposite, Reattach, AfterAttach, BindSocket, LookForProgram, AttachDefault,
       AccessPin, UnpinMaps, PinMaps, StopServing, xdp_link_detach, RemoveLink, Kill, linkVars

LEMMA PacketStep ==
  ASSUME Types, StatsInv, Packet
  PROVE  Types' /\ StatsInv' /\ UNCHANGED <<attached, pin, map_of, opt, pc, overlapped>>
<1> USE ConstantFacts
<1>1. UNCHANGED <<attached, pin, map_of, opt, pc, overlapped, statsVars>>
  BY DEF Packet
<1>2. PICK x \in Command : counter[x] < MaxPackets /\ counter' = [counter EXCEPT ![x] = counter[x] + 1]
  BY DEF Packet, Types
<1>3. counter[x] \in Nat /\ counter[x] + 1 \in 0 .. MaxPackets
  BY <1>2 DEF Types
<1>4. /\ counter' \in [Command -> 0 .. MaxPackets]
      /\ \A d \in Command : counter[d] \in Nat /\ counter'[d] \in Nat /\ counter[d] <= counter'[d]
  BY <1>2, <1>3 DEF Types
<1>5. Types'
  BY <1>1, <1>4 DEF Types, statsVars
<1>6. StatsInv'
  BY <1>1, <1>4 DEF StatsInv, Types, statsVars
<1> QED BY <1>1, <1>5, <1>6

LEMMA StatsStep ==
  ASSUME Types, StatsInv, Stats
  PROVE  Types' /\ StatsInv' /\ UNCHANGED <<linkVars, opt, pc, overlapped>>
<1> USE ConstantFacts
<1>1. UNCHANGED <<linkVars, opt, pc, overlapped>>
  BY DEF Stats, StatsOpen, StatsFirstReading, StatsReopen, StatsCollect
<1>2. \A d \in Command : counter[d] \in 0 .. MaxPackets
  BY DEF Types
<1>3. UNCHANGED <<attached, pin, map_of, counter>>
  BY <1>1 DEF linkVars
<1>4. /\ s_pc' \in {"new", "open", "first", "reopen", "collect", "exited"}
      /\ s_id' \in Command \cup {NoOne} /\ s_fd' \in Command \cup {NoOne}
      /\ prev' \in 0 .. MaxPackets /\ record' \in 0 .. MaxPackets /\ fds' \in 0 .. FdLimit
  <2>1. CASE StatsOpen
    BY <2>1 DEF StatsOpen, CanOpen, Types
  <2>2. CASE StatsFirstReading
    BY <2>2, <1>2 DEF StatsFirstReading, Types, StatsInv
  <2>3. CASE StatsReopen
    BY <2>3 DEF StatsReopen, CanOpen, Types
  <2>4. CASE StatsCollect
    BY <2>4, <1>2 DEF StatsCollect, Types, StatsInv
  <2> QED BY <2>1, <2>2, <2>3, <2>4 DEF Stats
<1>5. Types'
  BY <1>1, <1>3, <1>4 DEF Types
<1>6. StatsInv'
  <2>1. CASE StatsOpen
    BY <2>1 DEF StatsOpen, CanOpen, Types, StatsInv
  <2>2. CASE StatsFirstReading
    BY <2>2, <1>2, <1>3 DEF StatsFirstReading, StatsInv
  <2>3. CASE StatsReopen
    BY <2>3, <1>3 DEF StatsReopen, CanOpen, StatsInv
  <2>4. CASE StatsCollect
    BY <2>4, <1>2, <1>3 DEF StatsCollect, StatsInv
  <2> QED BY <2>1, <2>2, <2>3, <2>4 DEF Stats
<1> QED BY <1>1, <1>5, <1>6

-----------------------------------------------------------------------------
(* One command at a time.                                                  *)

(* The first command that starts is alone. *)
LEMMA AloneStarts ==
  ASSUME Types, CmdInvs, AloneInv, NEW c \in Command, Start(c), ~overlapped'
  PROVE  AloneInv'
<1> USE ConstantFacts
<1>1. PICK o \in Option : opt' = [opt EXCEPT ![c] = o] /\ pc' = [pc EXCEPT ![c] = FirstStep(o)]
  BY DEF Start, Goto
<1>2. /\ ~overlapped /\ (\A d \in Command : ~Running(d)) /\ pc[c] = "new"
      /\ UNCHANGED <<attached, pin, map_of>>
  BY DEF Start, linkVars
<1>3. /\ pc'[c] = FirstStep(o) /\ opt'[c] = o
      /\ \A d \in Command : d # c => pc'[d] = pc[d] /\ opt'[d] = opt[d]
  BY <1>1 DEF Types
<1>4. AloneOf(c)'
  <2>1. /\ pc'[c] \in {"query", "remove", "load_simple", "reuse", "load", "bind"}
        /\ opt'[c].reuse => pc'[c] # "load"
    BY <1>3, OptionFacts DEF FirstStep
  <2> QED BY <2>1 DEF AloneOf
<1>5. ASSUME NEW d \in Command, d # c, pc'[d] # "new" PROVE AloneOf(d)'
  <2>1. AloneOf(d)
    BY <1>2, <1>3, <1>5 DEF AloneInv
  <2> QED BY <2>1, <1>2, <1>3, <1>5 DEF AloneOf, Unsupported, Hook, Opposite
<1>6. \A d, e \in Command : Running(d)' /\ Running(e)' => d = e
  BY <1>2, <1>3 DEF Running
<1> QED BY <1>4, <1>5, <1>6 DEF AloneInv

(* The steps that may change the pinned file are of a command whose program is attached, so that
   of another one is not. *)
LEMMA AloneOthers ==
  ASSUME Types, CmdInvs, HookInv, AloneInv, NEW c \in Command, Running(c), ~overlapped,
         UNCHANGED opt,
         \A d \in Command : d # c => pc'[d] = pc[d] /\ map_of'[d] = map_of[d],
         \A m \in Mode : attached'[m] \in {attached[m], c, NoOne},
         pin' = pin \/ pc[c] \in {"unpin", "pin"},
         AloneOf(c)'
  PROVE  AloneInv'
<1> USE ConstantFacts
<1>1. ASSUME NEW d \in Command, d # c, pc'[d] # "new" PROVE AloneOf(d)'
  <2>1. AloneOf(d) /\ ~Running(d) /\ pc'[d] = pc[d] /\ map_of'[d] = map_of[d] /\ opt'[d] = opt[d]
    BY <1>1 DEF AloneInv
  <2>2. \A m \in Mode : attached'[m] = d => attached[m] = d
    BY <1>1
  <2>3. (\E m \in Mode : attached[m] = d) => pin' = pin
    <3>1. pc[c] \in {"unpin", "pin"} => \E m \in Mode : attached[m] = c
      BY DEF AloneInv, AloneOf
    <3> QED BY <1>1, <3>1 DEF HookInv
  <2>4. pc[d] \in Ended
    BY <2>1, <1>1 DEF Running
  <2>5. /\ pc'[d] = "refused" /\ ~opt'[d].noexist => Unsupported(opt'[d].mode)
        /\ pc'[d] = "done" /\ opt'[d].op = "load" /\ (\E m \in Mode : attached'[m] = d) => pin' = map_of'[d]
    BY <2>1, <2>2, <2>3 DEF AloneOf
  <2> QED BY <2>1, <2>4, <2>5 DEF AloneOf, Ended, Unsupported
<1>2. \A d, e \in Command : Running(d)' /\ Running(e)' => d = e
  <2>1. \A d \in Command : d # c => ~Running(d)'
    BY DEF AloneInv, Running
  <2> QED BY <2>1
<1>3. AloneOf(c)'
  OBVIOUS
<1> QED BY <1>1, <1>2, <1>3 DEF AloneInv

LEMMA AloneSteps ==
  ASSUME Types, CmdInvs, HookInv, AloneInv, NEW c \in Command, Step(c), ~Start(c), ~overlapped'
  PROVE  AloneInv'
<1> USE ConstantFacts
<1>1. /\ ~overlapped /\ UNCHANGED opt /\ Running(c) /\ pc[c] # "new"
      /\ \E l \in At : pc' = [pc EXCEPT ![c] = l]
  BY DEF Step, reuse_maps, LoadObject, LoadSimple, xdp_link_attach, RemoveOpposite, Reattach, AfterAttach, BindSocket, LookForProgram, AttachDefault,
         AccessPin, UnpinMaps, PinMaps, StopServing, xdp_link_detach, RemoveLink, Kill, linkVars,
         Running, Ended, Goto, At
<1>2. \A d \in Command : d # c => pc'[d] = pc[d]
  BY <1>1 DEF Types
<1>3. /\ AloneOf(c) /\ OpAt(c) /\ opt[c] \in Option
      /\ opt[c].noexist \in BOOLEAN /\ opt[c].mode \in {"auto", "skb", "drv"} /\ opt[c].reuse \in BOOLEAN
      /\ opt[c].reuse => opt[c].op \in {"load", "app"}
  BY <1>1, OptionFacts DEF AloneInv, CmdInvs, CmdInv
<1> DEFINE h == Hook(opt[c].mode)
<1>4. CASE reuse_maps(c) \/ LoadObject(c)
  <2>1. /\ UNCHANGED <<attached, pin>> /\ pc[c] \in {"reuse", "load"}
        /\ \/ pc' = [pc EXCEPT ![c] = "failed"] /\ map_of' = map_of
           \/ pin # NoOne /\ pc' = [pc EXCEPT ![c] = "load"] /\ map_of' = [map_of EXCEPT ![c] = pin]
           \/ /\ pc[c] = "load" /\ pc' = [pc EXCEPT ![c] = "attach"]
              /\ map_of' = IF map_of[c] = NoOne THEN [map_of EXCEPT ![c] = c] ELSE map_of
    BY <1>4 DEF reuse_maps, LoadObject, Goto
  <2>2. \A d \in Command : d # c => map_of'[d] = map_of[d]
    BY <2>1 DEF Types
  <2>3. \/ pc'[c] = "failed"
        \/ pc'[c] = "load" /\ map_of'[c] = pin /\ pin # NoOne
        \/ pc[c] = "load" /\ pc'[c] = "attach" /\ (map_of[c] # NoOne => map_of'[c] = map_of[c])
    BY <2>1 DEF Types
  <2>4. AloneOf(c)'
    BY <1>1, <1>3, <2>1, <2>3 DEF AloneOf
  <2> QED BY <1>1, <1>2, <2>1, <2>2, <2>4, AloneOthers
<1>5. CASE xdp_link_attach(c)
  <2>1. /\ UNCHANGED <<pin, map_of>> /\ pc[c] = "attach"
        /\ \/ attached' = [attached EXCEPT ![h] = c] /\ pc' = [pc EXCEPT ![c] = "attached"]
           \/ /\ ~Unsupported(opt[c].mode) /\ attached[Opposite(h)] # NoOne
              /\ pc' = [pc EXCEPT ![c] = "swap"] /\ UNCHANGED attached
           \/ /\ ~opt[c].noexist => Unsupported(opt[c].mode)
              /\ pc' = [pc EXCEPT ![c] = "refused"] /\ UNCHANGED attached
    BY <1>3, <1>5 DEF xdp_link_attach, AttachResult, Goto
  <2>2. h \in Mode
    BY DEF Hook
  <2>3. (\A m \in Mode : attached'[m] \in {attached[m], c, NoOne}) /\ (attached' = [attached EXCEPT ![h] = c] => attached'[h] = c)
    BY <2>1, <2>2 DEF Types
  <2>4. \/ pc'[c] = "attached" /\ attached'[h] = c
        \/ pc'[c] = "swap" /\ ~Unsupported(opt[c].mode) /\ attached'[Opposite(h)] # NoOne
        \/ pc'[c] = "refused" /\ (~opt[c].noexist => Unsupported(opt[c].mode))
    BY <2>1, <2>3 DEF Types
  <2>5. AloneOf(c)'
    BY <1>1, <1>3, <2>1, <2>2, <2>4 DEF AloneOf, Unsupported, Hook, Opposite
  <2> QED BY <1>1, <1>2, <2>1, <2>3, <2>5, AloneOthers
<1>6. CASE RemoveOpposite(c)
  <2> DEFINE m == IF opt[c].mode = "skb" THEN "drv" ELSE "skb"
  <2>1. /\ UNCHANGED <<pin, map_of>> /\ pc[c] = "swap"
        /\ \/ Unsupported(m) /\ pc' = [pc EXCEPT ![c] = "refused"] /\ UNCHANGED attached
           \/ /\ ~Unsupported(m) /\ pc' = [pc EXCEPT ![c] = "reattach"]
              /\ attached' = [attached EXCEPT ![Hook(m)] = NoOne]
    BY <1>6 DEF RemoveOpposite, Goto
  <2>2. ~Unsupported(opt[c].mode) /\ attached[Opposite(h)] # NoOne
    BY <1>3, <2>1 DEF AloneOf
  <2>3. ~Unsupported(m) /\ Hook(m) = Opposite(h) /\ Hook(m) \in Mode
    BY <1>3, <2>2 DEF Unsupported, Hook, Opposite, HookInv
  <2>4. pc'[c] = "reattach" /\ attached'[Opposite(h)] = NoOne /\ \A k \in Mode : attached'[k] \in {attached[k], c, NoOne}
    BY <2>1, <2>3 DEF Types
  <2> HIDE DEF m
  <2>5. AloneOf(c)'
    BY <1>1, <1>3, <2>1, <2>2, <2>4 DEF AloneOf, Unsupported, Hook, Opposite
  <2> QED BY <1>1, <1>2, <2>1, <2>4, <2>5, AloneOthers
<1>7. CASE Reattach(c)
  <2>1. ~Unsupported(opt[c].mode) /\ attached[Opposite(h)] = NoOne /\ ~opt[c].noexist /\ pc[c] = "reattach"
    BY <1>3, <1>7 DEF Reattach, AloneOf, OpAt
  <2>2. AttachResult(opt[c].mode, opt[c].noexist) = "ok"
    BY <2>1 DEF AttachResult
  <2>3. /\ UNCHANGED <<pin, map_of>> /\ attached' = [attached EXCEPT ![h] = c]
        /\ pc' = [pc EXCEPT ![c] = "attached"]
    BY <1>7, <2>2 DEF Reattach, Goto
  <2>4. h \in Mode
    BY DEF Hook
  <2>5. pc'[c] = "attached" /\ attached'[h] = c /\ \A k \in Mode : attached'[k] \in {attached[k], c, NoOne}
    BY <2>3, <2>4 DEF Types
  <2>6. AloneOf(c)'
    BY <1>1, <1>3, <2>1, <2>3, <2>4, <2>5 DEF AloneOf
  <2> QED BY <1>1, <1>2, <2>3, <2>5, <2>6, AloneOthers
<1>8. CASE UnpinMaps(c) \/ PinMaps(c)
  <2>1. /\ UNCHANGED <<attached, map_of>> /\ pc[c] \in {"unpin", "pin"}
        /\ \/ pc' = [pc EXCEPT ![c] = "failed"]
           \/ pc' = [pc EXCEPT ![c] = "pin"]
           \/ pc' = [pc EXCEPT ![c] = "done"] /\ pin' = map_of[c]
    BY <1>8 DEF UnpinMaps, PinMaps, Goto
  <2>2. pc'[c] \in {"failed", "pin", "done"} /\ (pc'[c] = "done" => pin' = map_of[c])
    BY <2>1 DEF Types
  <2>3. AloneOf(c)'
    BY <1>1, <1>3, <2>1, <2>2 DEF AloneOf
  <2> QED BY <1>1, <1>2, <2>1, <2>3, AloneOthers
<1>9. CASE RemoveLink(c)
  <2>1. /\ UNCHANGED <<pin, map_of>> /\ pc[c] = "remove"
        /\ \E l \in {"failed", "done"} : pc' = [pc EXCEPT ![c] = l]
        /\ attached' = attached \/ attached' = [attached EXCEPT ![h] = NoOne]
    BY <1>9 DEF RemoveLink, Goto
  <2>2. pc'[c] \in {"failed", "done"} /\ \A k \in Mode : attached'[k] \in {attached[k], c, NoOne}
    BY <2>1 DEF Types
  <2>3. AloneOf(c)'
    BY <1>1, <1>3, <2>1, <2>2 DEF AloneOf, OpAt
  <2> QED BY <1>1, <1>2, <2>1, <2>2, <2>3, AloneOthers
<1>10. CASE AttachDefault(c)
  <2>1. /\ pin' = pin /\ pc[c] = "default" /\ \E l \in {"serving", "failed"} : pc' = [pc EXCEPT ![c] = l]
        /\ attached' = attached \/ attached' = [attached EXCEPT ![h] = c]
        /\ map_of' = map_of \/ map_of' = [map_of EXCEPT ![c] = NoOne]
    BY <1>10 DEF AttachDefault, Goto
  <2>2. pc'[c] \in {"serving", "failed"} /\ \A k \in Mode : attached'[k] \in {attached[k], c, NoOne}
    BY <2>1 DEF Types
  <2>3. \A d \in Command : d # c => map_of'[d] = map_of[d]
    BY <2>1 DEF Types
  <2>4. AloneOf(c)'
    BY <2>2 DEF AloneOf
  <2> QED BY <1>1, <1>2, <2>1, <2>2, <2>3, <2>4, AloneOthers
<1>11. CASE LoadSimple(c) \/ AfterAttach(c) \/ BindSocket(c) \/ LookForProgram(c) \/ AccessPin(c) \/ StopServing(c) \/ xdp_link_detach(c) \/ Kill(c)
  <2>1. UNCHANGED <<attached, pin, map_of>>
    BY <1>11, QuietSteps DEF linkVars
  <2>2. \/ pc[c] = "load_simple" /\ pc'[c] \in {"failed", "attach"}
        \/ pc[c] = "attached" /\ opt[c].op = "load" /\ opt[c].reuse /\ pc'[c] = "done"
        \/ pc[c] = "attached" /\ pc'[c] \in {"access", "bind", "failed"}
        \/ pc'[c] \in {"look", "default", "serving", "failed"}
        \/ pc[c] = "attached" /\ opt[c].op = "simple" /\ pc'[c] = "done"
        \/ pc[c] = "access" /\ pc'[c] \in {"pin", "unpin"}
        \/ pc[c] = "serving" /\ pc'[c] = "query"
        \/ pc[c] = "query" /\ pc'[c] \in {"done", "remove"}
        \/ pc'[c] = "killed"
    BY <1>3, <1>11 DEF LoadSimple, AfterAttach, BindSocket, LookForProgram, AccessPin, StopServing, xdp_link_detach, Kill, Goto, Types
  <2>3. AloneOf(c)'
    BY <1>1, <1>3, <2>1, <2>2 DEF AloneOf, OpAt
  <2> QED BY <1>1, <1>2, <2>1, <2>3, AloneOthers
<1> QED BY <1>4, <1>5, <1>6, <1>7, <1>8, <1>9, <1>10, <1>11 DEF Step

-----------------------------------------------------------------------------
LEMMA InvKept == IInv /\ [Next]_vars => IInv'
<1> SUFFICES ASSUME IInv, [Next]_vars PROVE IInv'
  OBVIOUS
<1>1. ASSUME NEW c \in Command, Step(c) PROVE IInv'
  <2>1. Types' /\ CmdInvs' /\ HookInv'
    BY <1>1, CommandSteps DEF IInv
  <2>2. StatsInv'
    BY <1>1, StepLeavesStats DEF IInv, StatsInv, statsVars
  <2>3. AloneInv'
    <3>1. CASE overlapped'
      BY <3>1 DEF AloneInv
    <3>2. CASE ~overlapped'
      BY <1>1, <3>2, AloneStarts, AloneSteps DEF IInv
    <3> QED BY <3>1, <3>2
  <2> QED BY <2>1, <2>2, <2>3 DEF IInv
<1>2. ASSUME Types', StatsInv', UNCHANGED <<attached, pin, map_of, opt, pc, overlapped>> PROVE IInv'
  <2>1. CmdInvs' /\ HookInv'
    BY <1>2 DEF IInv, CmdInvs, CmdInv, OpAt, Counts, HookInv, Hook, Unsupported
  <2>2. AloneInv'
    BY <1>2 DEF IInv, AloneInv, AloneOf, Running, Unsupported, Hook, Opposite
  <2> QED BY <1>2, <2>1, <2>2 DEF IInv
<1>3. CASE Packet
  BY <1>2, <1>3, PacketStep DEF IInv
<1>4. CASE Stats
  BY <1>2, <1>4, StatsStep DEF IInv, linkVars
<1>5. CASE UNCHANGED vars
  <2>1. Types' /\ StatsInv'
    BY <1>5 DEF IInv, Types, StatsInv, vars, linkVars, statsVars
  <2> QED BY <1>2, <1>5, <2>1 DEF vars, linkVars
<1> QED BY <1>1, <1>3, <1>4, <1>5 DEF Next

LEMMA Invariance == Spec => []IInv
BY InvFromStart, InvKept, PTL DEF Spec

(* The loaders, af_xdp_user and xdp_stats keep their state well-formed: above all, a
   program on a hook has a map to count in, if it is one of those that count. *)
THEOREM ReloadTyped == Spec => []TypeOK
<1>1. IInv => TypeOK
  BY TypesSuffice DEF IInv
<1> QED BY <1>1, Invariance, PTL

(* xdp_link_attach with --force: a command that no other overlaps with is refused only where
   the driver lacks the mode. *)
THEOREM ForceWins == Spec => []ForceIsNotRefused
<1>1. IInv => ForceIsNotRefused
  BY ConstantFacts DEF IInv, ForceIsNotRefused, AloneInv, AloneOf
<1> QED BY <1>1, Invariance, PTL

(* pin_maps_in_bpf_object and reuse_maps: as long as commands come one after the other, the
   pinned map is that of the attached program, however many were loaded or killed. *)
THEOREM PinFollowsProgram == Spec => []LoadedMapIsPinned
<1>1. IInv => LoadedMapIsPinned
  BY DEF IInv, LoadedMapIsPinned, AloneInv, AloneOf
<1> QED BY <1>1, Invariance, PTL

(* stats_poll compares readings of one map only, so what it prints is never negative. *)
THEOREM StatsGrow == Spec => []StatsNeverGoBack
<1>1. IInv => StatsNeverGoBack
  BY DEF IInv, StatsInv, Types, StatsNeverGoBack
<1> QED BY <1>1, Invariance, PTL

(* The cleanup of af_xdp_user: xdp_link_detach with the flags the program was attached with
   finds it, or what has replaced it. *)
THEOREM AppCleansUp == Spec => []AppLeavesNothing
<1>1. IInv => AppLeavesNothing
  BY DEF IInv, CmdInvs, CmdInv, AppLeavesNothing
<1> QED BY <1>1, Invariance, PTL

(* xdp_link_attach and --force: whatever commands run beside it, a loader takes a program from a
   hook only if it was given --force; what else does is told to unload or is af_xdp_user. *)
THEOREM LoadersForced == Spec => LoadersNeedForce
<1>1. ASSUME IInv, [Next]_vars, NEW m \in Mode, attached[m] # NoOne, attached'[m] # attached[m]
      PROVE  \E c \in Command : /\ pc[c] # "new" /\ pc'[c] # pc[c]
                                /\ opt[c].op \in {"load", "simple"} => opt[c].force
  <2>1. PICK c \in Command :
          xdp_link_attach(c) \/ RemoveOpposite(c) \/ Reattach(c) \/ AttachDefault(c) \/ RemoveLink(c)
    BY <1>1 DEF Next, Step, Start, reuse_maps, LoadObject, LoadSimple, AfterAttach, BindSocket, LookForProgram,
                AccessPin, UnpinMaps, PinMaps, StopServing, xdp_link_detach, Kill, Packet, Stats, StatsOpen,
                StatsFirstReading, StatsReopen, StatsCollect, vars, linkVars
  <2>2. Types /\ CmdInv(c)
    BY <1>1 DEF IInv, CmdInvs
  <2>3. pc[c] \in {"attach", "swap", "reattach", "default", "remove"}
    BY <2>1 DEF xdp_link_attach, RemoveOpposite, Reattach, AttachDefault, RemoveLink
  <2>4. pc'[c] # pc[c]
    <3>1. \E l \in At \ {pc[c]} : pc' = [pc EXCEPT ![c] = l]
      BY <2>1, <2>3 DEF xdp_link_attach, RemoveOpposite, Reattach, AttachDefault, RemoveLink, Goto, At, Ended
    <3> QED BY <2>2, <3>1 DEF Types
  <2>5. opt[c].op \in {"load", "simple"} /\ ~opt[c].noexist => opt[c].force
    BY <2>2, <2>3, OptionFacts DEF CmdInv
  <2>6. CASE xdp_link_attach(c)
    <3>1. /\ attached' = [attached EXCEPT ![Hook(opt[c].mode)] = c]
          /\ AttachResult(opt[c].mode, opt[c].noexist) = "ok"
      BY <2>6, <1>1 DEF xdp_link_attach
    <3>2. m = Hook(opt[c].mode)
      BY <3>1, <1>1, <2>2 DEF Types
    <3>3. ~opt[c].noexist
      BY <3>1, <3>2, <1>1 DEF AttachResult
    <3> QED BY <2>3, <2>4, <2>5, <3>3
  <2>7. CASE RemoveOpposite(c) \/ Reattach(c)
    <3>1. ~opt[c].noexist
      BY <2>7, <2>2 DEF CmdInv, OpAt, RemoveOpposite, Reattach
    <3> QED BY <2>3, <2>4, <2>5, <3>1
  <2>8. CASE AttachDefault(c) \/ RemoveLink(c)
    <3>1. opt[c].op \notin {"load", "simple"}
      BY <2>8, <2>2 DEF CmdInv, OpAt, AttachDefault, RemoveLink
    <3> QED BY <2>3, <2>4, <3>1
  <2> QED BY <2>1, <2>6, <2>7, <2>8
<1>2. IInv /\ [Next]_vars =>
        [\A m \in Mode : attached[m] # NoOne /\ attached'[m] # attached[m] =>
           \E c \in Command :
             /\ pc[c] # "new" /\ pc'[c] # pc[c]
             /\ opt[c].op \in {"load", "simple"} => opt[c].force]_vars
  BY <1>1
<1> QED BY <1>2, Invariance, PTL DEF Spec, LoadersNeedForce
=============================================================================
