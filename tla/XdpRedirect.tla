----------------------------- MODULE XdpRedirect -----------------------------
(***************************************************************************)
(* The redirecting programs of packet03: xdp_redirect_map and xdp_router,  *)
(* the command xdp_prog_user that fills their maps, and testenv.sh         *)
(* redirect, which calls it for both directions.                           *)
(*                                                                         *)
(* An environment is an outer interface, to which a program is attached,   *)
(* and an inner host that sends it packets and gets what is redirected to  *)
(* it.  Loading a program makes new maps; commands reach maps only through *)
(* the files they are pinned to.  Nothing is done in one step: maps are    *)
(* filled one after the other while packets are redirected and programs    *)
(* are loaded.                                                             *)
(***************************************************************************)
EXTENDS Integers, FiniteSets

CONSTANTS
  Env,         \* environments; stands for their MAC addresses, too
  Guest,       \* the MAC address of another host in the same network
  NoOne,
  IfIndex,     \* environment |-> index of its outer interface
  TxPorts,     \* 256: size of tx_port
  Command,     \* commands that are given
  Jobs,        \* what they may be: some of Job
  MaxMaps,     \* bound on the programs loaded
  MaxRunning   \* bound on the commands that run at a time

ASSUME EnvAssumption == Guest \notin Env /\ NoOne \notin Env \cup {Guest}
ASSUME IndexAssumption ==
  /\ IfIndex \in [Env -> Nat \ {0}] /\ TxPorts \in Nat \ {0} /\ MaxMaps \in Nat /\ MaxRunning \in Nat
  /\ \A d, e \in Env : IfIndex[d] = IfIndex[e] => d = e

VARIABLES
  exists,      \* environments that have been set up
  maps,        \* sets of maps made so far
  active,      \* environment |-> the maps of the program attached, 0 if it has none
  pinned,      \* environment |-> the maps that are pinned, 0 for none
  tx_port,     \* maps |-> port |-> environment
  params,      \* maps |-> the one entry there is room for, of redirect_params
  job,         \* command |-> what it is to do
  pc,          \* command |-> where it is
  fd,          \* command |-> the maps it has opened
  pkt,         \* a packet on its way
  last,        \* history: environment |-> command started last on it
  mixed,       \* history: environments on which commands overlapped, or failed
  setups,      \* history: maps |-> redirections that opened them
  routed       \* history: maps |-> environments there were when the router's ports were set

mapVars == <<maps, active, pinned, tx_port, params>>
commandVars == <<job, pc, fd>>
historyVars == <<last, mixed, setups, routed>>
vars == <<exists, mapVars, commandVars, pkt, historyVars>>

Mac == Env \cup {Guest}
Entry == [src : Mac, dest : Env]
NoEntry == [src |-> NoOne, dest |-> NoOne]
Port == 0 .. TxPorts - 1

(* xdp_loader on one environment, with and without --unload; xdp_prog_user with and
   without --redirect-dev; testenv.sh redirect. *)
Job ==
  [kind : {"load", "unload", "router"}, env : Env]
  \cup {j \in [kind : {"user", "redirect"}, env : Env, to : Env, src : Mac] :
          j.env # j.to /\ (j.kind = "redirect" => j.src = j.env)}

ASSUME JobsAssumption == Jobs \subseteq Job

Idle == [kind |-> "none"]
On(j) == CASE j.kind = "none" -> {} [] j.kind = "redirect" -> {j.env, j.to} [] OTHER -> {j.env}

Ended == {"done", "failed"}
Running(c) == pc[c] \notin Ended \cup {"new"}
Goto(c, l) == pc' = [pc EXCEPT ![c] = l]

(* testenv.sh redirect calls the command a second time, the other way round. *)
Source(c) == IF pc[c] \in {"open_tx2", "write_tx2", "open_params2", "write_params2"}
             THEN job[c].to ELSE job[c].env
Target(c) == IF Source(c) = job[c].env THEN job[c].to ELSE job[c].env
SrcMac(c) == IF job[c].kind = "redirect" THEN Source(c) ELSE job[c].src

-----------------------------------------------------------------------------
(* Plausible mistakes, each in the place of an action or operator below.   *)

(* The addresses are written before the port. *)
After_ParamsFirst(j, l) ==
  CASE l = "new" -> (CASE j.kind = "load" -> "attach" [] j.kind = "unload" -> "detach"
                       [] j.kind = "router" -> "open_router" [] OTHER -> "open_params")
    [] l = "write_params" -> "open_tx" [] l = "write_params2" -> "open_tx2"
    [] l = "write_tx" -> IF j.kind = "redirect" THEN "open_params2" ELSE "done"
    [] l = "write_tx2" -> "done"

(* The way back is set up for the way there. *)
write_iface_params_SameWay(c) ==
  /\ pc[c] \in {"write_params", "write_params2"}
  /\ params' = [params EXCEPT ![fd[c]] = [src |-> job[c].src, dest |-> Target(c)]]
  /\ Goto(c, IF pc[c] = "write_params" /\ job[c].kind = "redirect" THEN "open_tx2" ELSE "done")
  /\ UNCHANGED <<exists, maps, active, pinned, tx_port, job, fd, pkt, historyVars>>

(* The last port is left out. *)
RouterPorts_Short == {i \in Port : 0 < i /\ i < TxPorts - 1}

-----------------------------------------------------------------------------
Init ==
  /\ exists = {}
  /\ maps = 0
  /\ active = [e \in Env |-> 0] /\ pinned = [e \in Env |-> 0]
  /\ tx_port = [m \in 1 .. MaxMaps |-> [i \in Port |-> NoOne]]
  /\ params = [m \in 1 .. MaxMaps |-> NoEntry]
  /\ job = [c \in Command |-> Idle]
  /\ pc = [c \in Command |-> "new"] /\ fd = [c \in Command |-> 0]
  /\ pkt = [at |-> "none"]
  /\ last = [e \in Env |-> NoOne] /\ mixed = {}
  /\ setups = [m \in 1 .. MaxMaps |-> {}] /\ routed = [m \in 1 .. MaxMaps |-> {}]

(* An environment is set up: its interfaces appear. *)
Setup(e) ==
  /\ e \notin exists
  /\ exists' = exists \cup {e}
  /\ UNCHANGED <<mapVars, commandVars, pkt, historyVars>>

(* What comes after a step that can go on. *)
After(j, l) ==
  CASE l = "new" -> (CASE j.kind = "load" -> "attach" [] j.kind = "unload" -> "detach"
                       [] j.kind = "router" -> "open_router" [] OTHER -> "open_tx")
    [] l = "write_tx" -> "open_params" [] l = "write_tx2" -> "open_params2"
    [] l = "write_params" -> IF j.kind = "redirect" THEN "open_tx2" ELSE "done"
    [] l = "write_params2" -> "done"

Start(c, j) ==
  /\ pc[c] = "new" /\ On(j) \subseteq exists
  /\ j.kind = "user" => j.to \in exists
  /\ Cardinality({d \in Command : Running(d)}) < MaxRunning
  /\ job' = [job EXCEPT ![c] = j]
  /\ Goto(c, After(j, "new"))
  /\ last' = [e \in Env |-> IF e \in On(j) THEN c ELSE last[e]]
  /\ mixed' = mixed \cup {e \in On(j) : \E d \in Command : Running(d) /\ e \in On(job[d])}
  /\ UNCHANGED <<exists, mapVars, fd, pkt, setups, routed>>

-----------------------------------------------------------------------------
(* xdp_loader --force: the program is attached, then its maps are pinned in *)
(* the place of those of the program before.                               *)

Attach(c) ==
  /\ pc[c] = "attach" /\ maps < MaxMaps
  /\ maps' = maps + 1
  /\ active' = [active EXCEPT ![job[c].env] = maps + 1]
  /\ fd' = [fd EXCEPT ![c] = maps + 1]
  /\ Goto(c, "unpin")
  /\ UNCHANGED <<exists, pinned, tx_port, params, job, pkt, historyVars>>

(* If only files of another object are found, those of these maps cannot be removed. *)
Unpin(c) ==
  /\ pc[c] = "unpin"
  /\ \/ pinned' = [pinned EXCEPT ![job[c].env] = 0] /\ Goto(c, "pin") /\ UNCHANGED mixed
     \/ pinned[job[c].env] = 0 /\ Goto(c, "failed") /\ mixed' = mixed \cup On(job[c]) /\ UNCHANGED pinned
  /\ UNCHANGED <<exists, maps, active, tx_port, params, job, fd, pkt, last, setups, routed>>

Pin(c) ==
  /\ pc[c] = "pin"
  /\ IF pinned[job[c].env] = 0
     THEN pinned' = [pinned EXCEPT ![job[c].env] = fd[c]] /\ Goto(c, "done") /\ UNCHANGED mixed
     ELSE Goto(c, "failed") /\ mixed' = mixed \cup On(job[c]) /\ UNCHANGED pinned
  /\ UNCHANGED <<exists, maps, active, tx_port, params, job, fd, pkt, last, setups, routed>>

(* To unload leaves the maps pinned.  So does loading an object without these maps,
   which fails if it finds files, and none of one of its own maps.  A program that was
   attached in another mode stays. *)
Detach(c) ==
  /\ pc[c] = "detach"
  /\ active' \in {active, [active EXCEPT ![job[c].env] = 0]}
  /\ \/ Goto(c, "done") /\ UNCHANGED mixed
     \/ Goto(c, "failed") /\ mixed' = mixed \cup On(job[c])
  /\ UNCHANGED <<exists, maps, pinned, tx_port, params, job, fd, pkt, last, setups, routed>>

-----------------------------------------------------------------------------
(* xdp_prog_user.                                                          *)

Opened == [open_tx |-> "write_tx", open_tx2 |-> "write_tx2", open_params |-> "write_params",
           open_params2 |-> "write_params2", open_router |-> "write_router"]

(* A map is opened by its file; without one the command ends, and testenv.sh with it. *)
OpenMapOf(c, e) ==
  /\ IF pinned[e] = 0
     THEN Goto(c, "failed") /\ UNCHANGED fd /\ mixed' = mixed \cup On(job[c])
     ELSE Goto(c, Opened[pc[c]]) /\ fd' = [fd EXCEPT ![c] = pinned[e]] /\ UNCHANGED mixed
  /\ setups' = [m \in 1 .. MaxMaps |-> IF m = pinned[e] /\ job[c].kind # "router"
                                        THEN setups[m] \cup {c} ELSE setups[m]]
  /\ UNCHANGED <<exists, mapVars, job, pkt, last, routed>>

OpenTxPort(c) == pc[c] \in {"open_tx", "open_tx2"} /\ OpenMapOf(c, Source(c))

(* The result is ignored. *)
WriteTxPort(c) ==
  /\ pc[c] \in {"write_tx", "write_tx2"}
  /\ tx_port' = [tx_port EXCEPT ![fd[c]][0] = Target(c)]
  /\ Goto(c, After(job[c], pc[c]))
  /\ UNCHANGED <<exists, maps, active, pinned, params, job, fd, pkt, historyVars>>

OpenParams(c) == pc[c] \in {"open_params", "open_params2"} /\ OpenMapOf(c, Source(c))

(* There is room for one source address. *)
write_iface_params(c) ==
  /\ pc[c] \in {"write_params", "write_params2"}
  /\ LET m == fd[c]
     IN  IF params[m] = NoEntry \/ params[m].src = SrcMac(c)
         THEN /\ params' = [params EXCEPT ![m] = [src |-> SrcMac(c), dest |-> Target(c)]]
              /\ Goto(c, After(job[c], pc[c])) /\ UNCHANGED mixed
         ELSE Goto(c, "failed") /\ mixed' = mixed \cup On(job[c]) /\ UNCHANGED params
  /\ UNCHANGED <<exists, maps, active, pinned, tx_port, job, fd, pkt, last, setups, routed>>

OpenRouter(c) == pc[c] = "open_router" /\ OpenMapOf(c, job[c].env)

RouterPorts == {i \in Port : 0 < i}

(* Each port is given the interface of the same index, if there is one. *)
WriteRouterPorts(c) ==
  /\ pc[c] = "write_router" /\ Goto(c, "done")
  /\ tx_port' = [tx_port EXCEPT ![fd[c]] = [i \in Port |->
       IF i \in RouterPorts /\ \E e \in exists : IfIndex[e] = i
       THEN CHOOSE e \in exists : IfIndex[e] = i ELSE tx_port[fd[c]][i]]]
  /\ routed' = [routed EXCEPT ![fd[c]] = exists]
  /\ UNCHANGED <<exists, maps, active, pinned, params, job, fd, pkt, last, mixed, setups>>

-----------------------------------------------------------------------------
(* A packet, from an inner host to the outer interface of its environment. *)

packetRest == <<exists, mapVars, commandVars, historyVars>>

Send(e, src) ==
  /\ pkt.at \notin {"arrived", "found"} /\ e \in exists /\ active[e] # 0
  /\ pkt' = [at |-> "arrived", env |-> e, maps |-> active[e], src |-> src, dest |-> NoOne]
  /\ UNCHANGED packetRest

(* xdp_redirect_map_func: only a source that is known is redirected ... *)
LookupParams ==
  /\ pkt.at = "arrived"
  /\ pkt' = IF params[pkt.maps].src = pkt.src
            THEN [pkt EXCEPT !.at = "found", !.dest = params[pkt.maps].dest]
            ELSE [at |-> "through"]
  /\ UNCHANGED packetRest

(* What becomes of a packet that is redirected to port i: an inner host takes only
   packets with its own address. *)
Delivery(p, i, dest) ==
  IF i \notin Port \/ tx_port[p.maps][i] = NoOne THEN "no_port"
  ELSE IF tx_port[p.maps][i] = dest THEN "through" ELSE "refused"

(* ... and that, to port 0. *)
RedirectMap ==
  /\ pkt.at = "found"
  /\ pkt' = [at |-> Delivery(pkt, 0, pkt.dest)]
  /\ UNCHANGED packetRest

(* xdp_router_func: the routing table gives the interface, and the address behind
   it. *)
Router(e) ==
  /\ pkt.at = "arrived" /\ e \in exists \ {pkt.env}
  /\ pkt' = IF Delivery(pkt, IfIndex[e], e) = "no_port"
            THEN [at |-> "no_route", to |-> e] ELSE [at |-> "through"]
  /\ UNCHANGED packetRest

-----------------------------------------------------------------------------
xdp_prog_user(c) ==
  \/ OpenTxPort(c) \/ WriteTxPort(c) \/ OpenParams(c) \/ write_iface_params(c)
  \/ OpenRouter(c) \/ WriteRouterPorts(c)

Packet ==
  \/ LookupParams \/ RedirectMap
  \/ \E e \in Env : Router(e) \/ \E src \in {e, Guest} : Send(e, src)

Next ==
  \/ \E e \in Env : Setup(e)
  \/ \E c \in Command :
       \/ \E j \in Jobs : Start(c, j)
       \/ Attach(c) \/ Unpin(c) \/ Pin(c) \/ Detach(c) \/ xdp_prog_user(c)
  \/ Packet

Spec == Init /\ [][Next]_vars

-----------------------------------------------------------------------------
(* Properties.                                                             *)

TypeOK ==
  /\ exists \subseteq Env /\ maps \in 0 .. MaxMaps
  /\ active \in [Env -> 0 .. MaxMaps] /\ pinned \in [Env -> 0 .. MaxMaps]
  /\ tx_port \in [1 .. MaxMaps -> [Port -> Env \cup {NoOne}]]
  /\ params \in [1 .. MaxMaps -> Entry \cup {NoEntry}]
  /\ job \in [Command -> Job \cup {Idle}]
  /\ pc \in [Command -> {"new", "attach", "unpin", "pin", "detach", "open_tx", "write_tx", "open_params",
       "write_params", "open_tx2", "write_tx2", "open_params2", "write_params2", "open_router",
       "write_router", "done", "failed"}]
  /\ fd \in [Command -> 0 .. MaxMaps]
  /\ last \in [Env -> Command \cup {NoOne}] /\ mixed \subseteq Env
  /\ setups \in [1 .. MaxMaps -> SUBSET Command] /\ routed \in [1 .. MaxMaps -> SUBSET Env]
  /\ pkt.at \in {"none", "arrived", "found", "through", "refused", "no_port", "no_route"}

(* "Pings between the two inner interfaces should pass now": when testenv.sh redirect
   has ended well, was the last command on both environments and did not overlap with
   another, the maps that are pinned there send the one's packets to the other and back,
   and the programs that are attached have those maps.  There may be none: redirect looks
   at files only, and to unload leaves them. *)
RedirectWorks ==
  \A c \in Command :
    LET a == job[c].env
        b == job[c].to
    IN  pc[c] = "done" /\ job[c].kind = "redirect" /\ last[a] = c /\ last[b] = c /\ {a, b} \cap mixed = {}
        => \A e \in {a, b} :
             /\ pinned[e] # 0 /\ active[e] \in {0, pinned[e]}
             /\ LET d == IF e = a THEN b ELSE a
                IN  tx_port[pinned[e]][0] = d /\ params[pinned[e]] = [src |-> e, dest |-> d]

(* xdp_prog_user fills tx_port before redirect_params: while maps are filled for the
   first time, every packet is passed until it can be redirected, and none is lost for
   want of a port or sent to a host of another address. *)
FirstSetupLosesNothing ==
  [][pkt.at = "found" /\ pkt'.at \in {"no_port", "refused"}
     => pkt.env \in mixed \/ Cardinality(setups[pkt.maps]) > 1]_vars

(* "each virtual port corresponds to a device with the same ifindex": what is routed to
   an interface that was there when the ports were set, with an index there is room
   for, finds its port, whatever is done to the maps later. *)
RouterHasPorts ==
  [][pkt.at = "arrived" /\ pkt'.at = "no_route"
     => pkt'.to \notin routed[pkt.maps] \/ IfIndex[pkt'.to] >= TxPorts]_vars
=============================================================================
