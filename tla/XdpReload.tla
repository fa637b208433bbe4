----------------------------- MODULE XdpReload -----------------------------
(***************************************************************************)
(* The commands that load XDP programs on one network interface and read   *)
(* their statistics: xdp_loader and xdp_stats of basic-solutions/, on top  *)
(* of common/, the loaders of the first two lessons, and af_xdp_user of    *)
(* advanced03-AF_XDP as far as it attaches and detaches a program.         *)
(*                                                                         *)
(* They share the interface's XDP hook, one per mode, and the file under   *)
(* which the map xdp_stats_map is pinned; every system call is a step, and *)
(* a command may be killed between any two.  A program and a map that a    *)
(* command creates are named after the command.                            *)
(***************************************************************************)
EXTENDS Integers, Sequences

CONSTANTS
  Command,        \* commands that are given
  NoOne,          \* no program, no map
  Invocation,     \* <<program, options>> they may be
  DriverNative,   \* the driver of the interface has native XDP
  FdLimit,        \* files xdp_stats may have open
  MaxPackets      \* bound on the packets a map counts

ASSUME CommandAssumption == NoOne \notin Command /\ DriverNative \in BOOLEAN
ASSUME InvocationAssumption ==
  \A i \in Invocation :
    /\ i[1] \in {"xdp_pass_user", "basic02", "xdp_loader", "af_xdp_user"}
    /\ i[2] \in Seq({"A", "S", "N", "F", "M", "U", "c", "z", "f"})
ASSUME BoundsAssumption == FdLimit \in Nat /\ MaxPackets \in Nat

VARIABLES
  attached,     \* mode |-> the program on its hook
  pin,          \* the map at /sys/fs/bpf/<ifname>/xdp_stats_map
  map_of,       \* command |-> the map its program counts in
  counter,      \* map |-> packets counted
  opt,          \* command |-> its options
  pc,           \* command |-> where it is
  overlapped,   \* history: two commands ran at the same time
  s_pc, s_id, s_fd, prev, record, fds   \* xdp_stats

linkVars  == <<attached, pin, map_of, counter>>
statsVars == <<s_pc, s_id, s_fd, prev, record, fds>>
vars == <<linkVars, opt, pc, overlapped, statsVars>>

Mode == {"skb", "drv"}

(* The flags main() starts from: the loaders set XDP_FLAGS_UPDATE_IF_NOEXIST, so that
   no program is replaced, and a mode; af_xdp_user sets none. *)
Defaults(p) == [mode |-> IF p = "af_xdp_user" THEN "auto" ELSE "drv", noexist |-> p # "af_xdp_user"]

(* Mode "auto" is no mode flag at all.  Of the modes given the last one holds;
   offloading is left out; "f" stands for --filename.  To force copying does not take
   zero-copy back, nor the other way round, and bind() takes no socket with both. *)
parse_cmdline_args(p, args) ==
  LET given == {args[i] : i \in DOMAIN args}
      modes == {i \in DOMAIN args : args[i] \in {"A", "S", "N"}}
      last  == CHOOSE i \in modes : \A j \in modes : j <= i
      ModeOf == [A |-> "auto", S |-> "skb", N |-> "drv"]
  IN  [mode |-> IF modes = {} THEN Defaults(p).mode ELSE ModeOf[args[last]],
       force |-> "F" \in given,
       noexist |-> Defaults(p).noexist /\ "F" \notin given,
       reuse |-> "M" \in given,
       unload |-> "U" \in given,
       file |-> "f" \in given,
       clash |-> given \cap {"S", "c"} # {} /\ "z" \in given]

(* What main() does with the options: it unloads, which in the first lesson goes
   without a look at what is there, or it loads. *)
Op(p, unload) ==
  CASE unload -> IF p = "xdp_pass_user" THEN "remove" ELSE "unload"
    [] ~unload -> CASE p = "xdp_loader" -> "load" [] p = "af_xdp_user" -> "app" [] OTHER -> "simple"

(* The loaders of the first two lessons reuse no maps, and only af_xdp_user has a
   socket and does without a program of its own if no file is named. *)
Chosen(p, args) ==
  LET cfg == parse_cmdline_args(p, args)
      op  == Op(p, cfg.unload)
  IN  [op |-> op, mode |-> cfg.mode, force |-> cfg.force, noexist |-> cfg.noexist,
       reuse |-> op \in {"load", "app"} /\ cfg.reuse,
       clash |-> op = "app" /\ cfg.clash, file |-> op = "app" /\ cfg.file]

Option == {Chosen(i[1], i[2]) : i \in Invocation}

Ended == {"done", "refused", "failed", "killed"}

Running(c) == pc[c] \notin Ended \cup {"new"}

Goto(c, l) == pc' = [pc EXCEPT ![c] = l]

-----------------------------------------------------------------------------
(* The kernel's side of bpf_set_link_xdp_fd and bpf_get_link_xdp_id.       *)

Opposite(m) == IF m = "skb" THEN "drv" ELSE "skb"

(* The hook the flags of a request select. *)
Hook(m) == IF m = "skb" \/ ~DriverNative THEN "skb" ELSE "drv"

Unsupported(m) == m = "drv" /\ ~DriverNative

(* What attaching with these flags returns.  The opposite hook is looked at
   first. *)
AttachResult(m, noexist) ==
  CASE Unsupported(m) -> "EOPNOTSUPP"
    [] ~Unsupported(m) /\ attached[Opposite(Hook(m))] # NoOne -> "EEXIST"
    [] ~Unsupported(m) /\ attached[Opposite(Hook(m))] = NoOne
       /\ noexist /\ attached[Hook(m)] # NoOne -> "EBUSY"
    [] OTHER -> "ok"

CurrentId(m) ==
  IF m # "auto" THEN attached[m]
  ELSE IF attached["drv"] # NoOne THEN attached["drv"] ELSE attached["skb"]

-----------------------------------------------------------------------------
(* Plausible mistakes, each in the place of an action below.               *)

(* -EEXIST is overcome whether or not programs may be replaced. *)
xdp_link_attach_AlwaysForces(c) ==
  /\ pc[c] = "attach"
  /\ LET r == AttachResult(opt[c].mode, opt[c].noexist)
     IN  CASE r = "ok" -> /\ attached' = [attached EXCEPT ![Hook(opt[c].mode)] = c]
                          /\ Goto(c, "attached")
           [] r = "EEXIST" -> Goto(c, "swap") /\ UNCHANGED attached
           [] OTHER -> Goto(c, "refused") /\ UNCHANGED attached
  /\ UNCHANGED <<pin, map_of, counter, opt, overlapped, statsVars>>

(* The mode flags are kept when the other program is to be removed. *)
RemoveOpposite_KeepsMode(c) ==
  /\ pc[c] = "swap"
  /\ attached' = [attached EXCEPT ![Hook(opt[c].mode)] = NoOne]
  /\ Goto(c, "reattach")
  /\ UNCHANGED <<pin, map_of, counter, opt, overlapped, statsVars>>

(* Maps are pinned only where no file is yet. *)
AccessPin_KeepsOld(c) ==
  /\ pc[c] = "access"
  /\ Goto(c, IF pin = NoOne THEN "pin" ELSE "done")
  /\ UNCHANGED <<linkVars, opt, overlapped, statsVars>>

(* The map behind the file is read without a look at its ID. *)
StatsReopen_IgnoresId ==
  /\ s_pc = "reopen"
  /\ prev' = record
  /\ IF fds < FdLimit /\ pin # NoOne
     THEN fds' = fds + 1 /\ s_fd' = pin /\ s_pc' = "collect"
     ELSE s_pc' = "open" /\ UNCHANGED <<s_fd, fds>>
  /\ UNCHANGED <<linkVars, opt, pc, overlapped, s_id, record>>

(* The program is detached in the driver's mode, whatever the flags say. *)
RemoveLink_DriverMode(c) ==
  /\ pc[c] = "remove"
  /\ attached' = [attached EXCEPT !["drv"] = NoOne]
  /\ Goto(c, "done")
  /\ UNCHANGED <<pin, map_of, counter, opt, overlapped, statsVars>>

(* What open_bpf_map_file returns is taken for a file: info keeps the old ID. *)
StatsReopen_Unchecked ==
  /\ s_pc = "reopen"
  /\ prev' = record
  /\ s_fd' = pin
  /\ s_pc' = IF pin # NoOne /\ pin # s_id THEN "open" ELSE "collect"
  /\ UNCHANGED <<linkVars, opt, pc, overlapped, s_id, record, fds>>

-----------------------------------------------------------------------------
Init ==
  /\ attached = [m \in Mode |-> NoOne]
  /\ pin = NoOne
  /\ map_of = [c \in Command |-> NoOne]
  /\ counter = [c \in Command |-> 0]
  /\ opt = [c \in Command |-> NoOne]
  /\ pc = [c \in Command |-> "new"]
  /\ overlapped = FALSE
  /\ s_pc = "new" /\ s_id = NoOne /\ s_fd = NoOne
  /\ prev = 0 /\ record = 0 /\ fds = 0

FirstStep(o) ==
  CASE o.op = "unload" -> "query" [] o.op = "remove" -> "remove" [] o.op = "simple" -> "load_simple"
    [] o.op \in {"load", "app"} ->
         IF o.op = "app" /\ ~o.file THEN "bind" ELSE IF o.reuse THEN "reuse" ELSE "load"

Start(c) ==
  /\ pc[c] = "new"
  /\ \E o \in Option :
       /\ opt' = [opt EXCEPT ![c] = o]
       /\ Goto(c, FirstStep(o))
  /\ overlapped' = (overlapped \/ \E d \in Command : Running(d))
  /\ UNCHANGED <<linkVars, statsVars>>

(* reuse_maps: the pinned map takes the place of the program's own.  af_xdp_user
   leaves pin_dir empty, so it finds none. *)
reuse_maps(c) ==
  /\ pc[c] = "reuse"
  /\ IF pin = NoOne \/ opt[c].op = "app"
     THEN Goto(c, "failed") /\ UNCHANGED map_of
     ELSE Goto(c, "load") /\ map_of' = [map_of EXCEPT ![c] = pin]
  /\ UNCHANGED <<attached, pin, counter, opt, overlapped, statsVars>>

(* The file is loaded into the kernel, with a map of its own unless one is
   reused.  A file or a section may be missing, or the verifier refuse. *)
LoadObject(c) ==
  /\ pc[c] = "load"
  /\ \/ Goto(c, "failed") /\ UNCHANGED map_of
     \/ /\ Goto(c, "attach")
        /\ map_of' = IF map_of[c] = NoOne THEN [map_of EXCEPT ![c] = c] ELSE map_of
  /\ UNCHANGED <<attached, pin, counter, opt, overlapped, statsVars>>

(* The programs of the first two lessons have no map. *)
LoadSimple(c) ==
  /\ pc[c] = "load_simple"
  /\ Goto(c, "failed") \/ Goto(c, "attach")
  /\ UNCHANGED <<linkVars, opt, overlapped, statsVars>>

(* The first request of xdp_link_attach. *)
xdp_link_attach(c) ==
  /\ pc[c] = "attach"
  /\ LET r == AttachResult(opt[c].mode, opt[c].noexist)
     IN  CASE r = "ok" -> /\ attached' = [attached EXCEPT ![Hook(opt[c].mode)] = c]
                          /\ Goto(c, "attached")
           [] r = "EEXIST" /\ ~opt[c].noexist -> Goto(c, "swap") /\ UNCHANGED attached
           [] OTHER -> Goto(c, "refused") /\ UNCHANGED attached
  /\ UNCHANGED <<pin, map_of, counter, opt, overlapped, statsVars>>

(* "Probably a program of the opposite type is loaded": remove that one.  The
   opposite of no mode is skb. *)
RemoveOpposite(c) ==
  /\ pc[c] = "swap"
  /\ LET m == IF opt[c].mode = "skb" THEN "drv" ELSE "skb"
     IN  IF Unsupported(m)
         THEN Goto(c, "refused") /\ UNCHANGED attached
         ELSE Goto(c, "reattach") /\ attached' = [attached EXCEPT ![Hook(m)] = NoOne]
  /\ UNCHANGED <<pin, map_of, counter, opt, overlapped, statsVars>>

(* ... and try again with the flags as they were. *)
Reattach(c) ==
  /\ pc[c] = "reattach"
  /\ IF AttachResult(opt[c].mode, opt[c].noexist) = "ok"
     THEN /\ attached' = [attached EXCEPT ![Hook(opt[c].mode)] = c]
          /\ Goto(c, "attached")
     ELSE Goto(c, "refused") /\ UNCHANGED attached
  /\ UNCHANGED <<pin, map_of, counter, opt, overlapped, statsVars>>

(* The program is attached: xdp_loader pins the maps it has not reused, and
   af_xdp_user sets up its socket, or exits if the file has no xsks_map. *)
AfterAttach(c) ==
  /\ pc[c] = "attached"
  /\ \/ opt[c].op = "load" /\ Goto(c, IF opt[c].reuse THEN "done" ELSE "access")
     \/ opt[c].op = "app" /\ (Goto(c, "bind") \/ Goto(c, "failed"))
     \/ opt[c].op = "simple" /\ Goto(c, "done")
  /\ UNCHANGED <<linkVars, opt, overlapped, statsVars>>

(* Memory and socket of af_xdp_user may fail to be set up, and do if the bind flags
   contradict each other.  It then exits, whatever it has attached. *)
BindSocket(c) ==
  /\ pc[c] = "bind"
  /\ Goto(c, "failed") \/ (~opt[c].clash /\ Goto(c, "look"))
  /\ UNCHANGED <<linkVars, opt, overlapped, statsVars>>

(* xsk_socket__create goes on to enter the socket into the xsks_map of the program it
   finds on the interface, whosever it is and if it has one ... *)
LookForProgram(c) ==
  /\ pc[c] = "look"
  /\ Goto(c, "failed") \/ Goto(c, IF CurrentId(opt[c].mode) = NoOne THEN "default" ELSE "serving")
  /\ UNCHANGED <<linkVars, opt, overlapped, statsVars>>

(* ... and where it found none, attaches one of its own, which counts in no map. *)
AttachDefault(c) ==
  /\ pc[c] = "default"
  /\ IF AttachResult(opt[c].mode, opt[c].noexist) = "ok"
     THEN /\ attached' = [attached EXCEPT ![Hook(opt[c].mode)] = c]
          /\ map_of' = [map_of EXCEPT ![c] = NoOne]
          /\ Goto(c, "serving") \/ Goto(c, "failed")
     ELSE Goto(c, "failed") /\ UNCHANGED <<attached, map_of>>
  /\ UNCHANGED <<pin, counter, opt, overlapped, statsVars>>

(* access(map_filename): a previous program "might not have cleaned up". *)
AccessPin(c) ==
  /\ pc[c] = "access"
  /\ Goto(c, IF pin = NoOne THEN "pin" ELSE "unpin")
  /\ UNCHANGED <<linkVars, opt, overlapped, statsVars>>

UnpinMaps(c) ==
  /\ pc[c] = "unpin"
  /\ Goto(c, IF pin = NoOne THEN "failed" ELSE "pin")
  /\ pin' = NoOne
  /\ UNCHANGED <<attached, map_of, counter, opt, overlapped, statsVars>>

(* A file that exists cannot be pinned over. *)
PinMaps(c) ==
  /\ pc[c] = "pin"
  /\ IF pin # NoOne
     THEN Goto(c, "failed") /\ UNCHANGED pin
     ELSE Goto(c, "done") /\ pin' = map_of[c]
  /\ UNCHANGED <<attached, map_of, counter, opt, overlapped, statsVars>>

(* SIGINT ends af_xdp_user's receive loop. *)
StopServing(c) ==
  /\ pc[c] = "serving"
  /\ Goto(c, "query")
  /\ UNCHANGED <<linkVars, opt, overlapped, statsVars>>

(* xdp_link_detach, which every caller calls with an expected ID of 0: the
   program there is, if any, is removed ... *)
xdp_link_detach(c) ==
  /\ pc[c] = "query"
  /\ Goto(c, IF CurrentId(opt[c].mode) = NoOne THEN "done" ELSE "remove")
  /\ UNCHANGED <<linkVars, opt, overlapped, statsVars>>

(* ... or the one that has taken its place since; the first lesson's removes
   whatever there is. *)
RemoveLink(c) ==
  /\ pc[c] = "remove"
  /\ IF Unsupported(opt[c].mode)
     THEN Goto(c, "failed") /\ UNCHANGED attached
     ELSE /\ attached' = [attached EXCEPT ![Hook(opt[c].mode)] = NoOne]
          /\ Goto(c, "done")
  /\ UNCHANGED <<pin, map_of, counter, opt, overlapped, statsVars>>

(* A command that is killed leaves everything as it is. *)
Kill(c) ==
  /\ Running(c)
  /\ Goto(c, "killed")
  /\ UNCHANGED <<linkVars, opt, overlapped, statsVars>>

(* The program on a hook counts a packet in its map. *)
Packet ==
  /\ \E m \in Mode :
       /\ attached[m] # NoOne /\ map_of[attached[m]] # NoOne
       /\ LET x == map_of[attached[m]]
          IN  counter[x] < MaxPackets /\ counter' = [counter EXCEPT ![x] = @ + 1]
  /\ UNCHANGED <<attached, pin, map_of, opt, pc, overlapped, statsVars>>

-----------------------------------------------------------------------------
(* xdp_stats.                                                              *)

CanOpen == fds < FdLimit /\ pin # NoOne

(* The loop of main() opens the pinned map and notes its ID.  It ends only
   if that fails: what stats_poll returns is never negative. *)
StatsOpen ==
  /\ s_pc \in {"new", "open"}
  /\ IF CanOpen
     THEN s_pc' = "first" /\ s_id' = pin /\ s_fd' = pin /\ fds' = fds + 1
     ELSE s_pc' = "exited" /\ UNCHANGED <<s_id, s_fd, fds>>
  /\ UNCHANGED <<linkVars, opt, pc, overlapped, prev, record>>

(* "Get initial reading quickly": the records are stats_poll's own. *)
StatsFirstReading ==
  /\ s_pc = "first"
  /\ record' = counter[s_fd] /\ prev' = 0
  /\ s_pc' = "reopen"
  /\ UNCHANGED <<linkVars, opt, pc, overlapped, s_id, s_fd, fds>>

(* Every turn opens the file again, and closes nothing; a map of another ID
   is left to main(). *)
StatsReopen ==
  /\ s_pc = "reopen"
  /\ prev' = record
  /\ IF CanOpen
     THEN /\ fds' = fds + 1
          /\ s_fd' = pin
          /\ s_pc' = IF pin # s_id THEN "open" ELSE "collect"
     ELSE s_pc' = "open" /\ UNCHANGED <<s_fd, fds>>
  /\ UNCHANGED <<linkVars, opt, pc, overlapped, s_id, record>>

StatsCollect ==
  /\ s_pc = "collect"
  /\ record' = counter[s_fd]
  /\ s_pc' = "reopen"
  /\ UNCHANGED <<linkVars, opt, pc, overlapped, s_id, s_fd, prev, fds>>

Stats == StatsOpen \/ StatsFirstReading \/ StatsReopen \/ StatsCollect

Step(c) ==
  \/ Start(c) \/ reuse_maps(c) \/ LoadObject(c) \/ LoadSimple(c)
  \/ xdp_link_attach(c) \/ RemoveOpposite(c) \/ Reattach(c) \/ AfterAttach(c)
  \/ BindSocket(c) \/ LookForProgram(c) \/ AttachDefault(c)
  \/ AccessPin(c) \/ UnpinMaps(c) \/ PinMaps(c)
  \/ StopServing(c) \/ xdp_link_detach(c) \/ RemoveLink(c) \/ Kill(c)

Next == Stats \/ Packet \/ \E c \in Command : Step(c)

Spec == Init /\ [][Next]_vars

-----------------------------------------------------------------------------
(* Properties.                                                             *)

TypeOK ==
  /\ attached \in [Mode -> Command \cup {NoOne}]
  /\ pin \in Command \cup {NoOne}
  /\ map_of \in [Command -> Command \cup {NoOne}]
  /\ counter \in [Command -> 0 .. MaxPackets]
  /\ opt \in [Command -> Option \cup {NoOne}]
  /\ pc \in [Command -> Ended \cup {"new", "reuse", "load", "load_simple", "attach", "swap", "reattach",
                "attached", "access", "unpin", "pin", "bind", "look", "default", "serving", "query", "remove"}]
  /\ overlapped \in BOOLEAN
  /\ s_pc \in {"new", "open", "first", "reopen", "collect", "exited"}
  /\ s_id \in Command \cup {NoOne} /\ s_fd \in Command \cup {NoOne}
  /\ prev \in 0 .. MaxPackets /\ record \in 0 .. MaxPackets
  /\ fds \in 0 .. FdLimit
  \* A program that is on a hook counts in a map, if it is one that counts.
  /\ \A m \in Mode : attached[m] # NoOne =>
       LET c == attached[m]
       IN  /\ opt[c].op = "load" => map_of[c] # NoOne
           /\ opt[c].op = "simple" \/ (opt[c].op = "app" /\ ~opt[c].file) => map_of[c] = NoOne
  /\ s_pc \in {"first", "collect"} => s_fd # NoOne

(* "Force install, replacing existing program on interface": no loader takes a
   program from a hook, its own or the other mode's, in no step and beside whatever
   other commands, unless it was given --force.  Apart from a forced loader only a
   command that unloads does, and af_xdp_user, of which this cannot be said: it
   replaces what it finds without being forced, and at its end removes what is there. *)
LoadersNeedForce ==
  [][\A m \in Mode : attached[m] # NoOne /\ attached'[m] # attached[m] =>
       \E c \in Command :
         /\ pc[c] # "new" /\ pc'[c] # pc[c]
         /\ opt[c].op \in {"load", "simple"} => opt[c].force]_vars

(* A command that may replace programs, by --force or as af_xdp_user may always, does:
   if it runs alone it is not refused the hook, unless the driver lacks the mode. *)
ForceIsNotRefused ==
  \A c \in Command : pc[c] = "refused" /\ ~opt[c].noexist /\ ~overlapped =>
    Unsupported(opt[c].mode)

(* Commands that run one after the other, some of them killed half way, keep
   the pinned file in step: it is the map the attached program counts in, if
   the command that attached it succeeded. *)
LoadedMapIsPinned ==
  \A c \in Command :
    /\ pc[c] = "done" /\ opt[c].op = "load" /\ ~overlapped
    /\ \E m \in Mode : attached[m] = c
    /\ \A d \in Command : ~Running(d)
    => pin = map_of[c]

(* "If you don't detect when dealing with a new map, then the stats diff
   between two measurements will be negative." *)
StatsNeverGoBack == s_pc = "reopen" => record >= prev

(* Cleanup: once af_xdp_user has ended normally, its program is on no hook,
   whatever other commands did meanwhile. *)
AppLeavesNothing ==
  \A c \in Command : pc[c] = "done" /\ opt[c].op = "app" =>
    \A m \in Mode : attached[m] # c

(* "... such that the xdp_stats program doesn't need to be restarted." *)
StatsNeedsNoRestart == s_pc = "exited" => s_id = NoOne
=============================================================================
