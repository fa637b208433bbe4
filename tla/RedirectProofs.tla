--------------------------- MODULE RedirectProofs ---------------------------
(***************************************************************************)
(* The properties of XdpRedirect hold for any number of environments,      *)
(* commands and maps.                                                      *)
(*                                                                         *)
(* No variable says which environment a set of maps was made for, yet      *)
(* everything depends on it: a command may disturb another only if both    *)
(* write to maps of one environment, and then one of them ran on it while  *)
(* the other did.  The invariant says that there is such an assignment.    *)
(***************************************************************************)
EXTENDS XdpRedirect, FiniteSetTheorems, TLAPS

Loaded   == {"unpin", "pin"}
Setting1 == {"open_tx", "write_tx", "open_params", "write_params"}
Setting2 == {"open_tx2", "write_tx2", "open_params2", "write_params2"}
ToWriteTx == {"write_tx", "write_tx2"}
AfterTx == {"open_params", "write_params", "open_params2", "write_params2"}
HasMaps == ToWriteTx \cup AfterTx
OnItsWay == {"arrived", "found"}

(* Source and Target, of the label. *)
From(j, l) == IF l \in Setting2 THEN j.to ELSE j.env
To(j, l)   == IF l \in Setting2 THEN j.env ELSE j.to

-----------------------------------------------------------------------------
(* The invariant; own[m] is the environment maps m were made for.          *)

KindOf(k, l) ==
  /\ l \in Loaded \cup {"attach"} => k = "load"
  /\ l = "detach" => k = "unload"
  /\ l \in {"open_router", "write_router"} => k = "router"
  /\ l \in Setting1 => k \in {"user", "redirect"}
  /\ l \in Setting2 => k = "redirect"
  /\ l = "new" <=> k = "none"

CommandsTyped ==
  \A c \in Command : /\ KindOf(job[c].kind, pc[c])
                     /\ pc[c] \in HasMaps \cup Loaded \cup {"write_router"} => fd[c] \in 1 .. maps

EnvMaps(own) ==
  \A e \in Env : /\ active[e] \in 0 .. maps /\ (active[e] # 0 => own[active[e]] = e)
                 /\ pinned[e] \in 0 .. maps /\ (pinned[e] # 0 => own[pinned[e]] = e)

CommandMaps(own) ==
  \A c \in Command : /\ pc[c] \in Loaded => own[fd[c]] = job[c].env
                     /\ pc[c] \in HasMaps => own[fd[c]] = From(job[c], pc[c])

PacketMaps(own) ==
  pkt.at \in OnItsWay =>
    /\ pkt.env \in Env /\ pkt.maps \in 1 .. maps /\ pkt.src \in Mac
    /\ own[pkt.maps] = pkt.env
    /\ pkt.at = "found" => pkt.dest \in Env

SetupsFinite ==
  \A m \in 1 .. MaxMaps : IsFiniteSet(setups[m]) /\ (m > maps => setups[m] = {})

(* The history variables do what they are for: a command that runs is the last one on its
   environments, unless commands overlapped there. *)
OneAtATime ==
  \A c \in Command : \A e \in Env :
    Running(c) /\ e \in On(job[c]) /\ e \notin mixed => last[e] = c

(* No two commands have opened maps m. *)
Once(m) == \A c, d \in setups[m] : c = d

(* Maps that one command alone has set up have a port for the address they have. *)
SetupsInv(own) ==
  \A m \in 1 .. MaxMaps :
    /\ \A c \in setups[m] : /\ pc[c] \notin {"new", "open_tx"}
                            /\ pc[c] \in Setting1 \cup {"open_tx2"} => own[m] = job[c].env
    /\ params[m] # NoEntry => setups[m] # {}
    /\ Once(m) /\ own[m] \notin mixed /\ params[m] # NoEntry => tx_port[m][0] = params[m].dest

(* Left alone, a command has the pinned maps, and its port is there when it sets the
   address. *)
CommandsInv ==
  \A c \in Command : pc[c] \in HasMaps =>
    /\ c \in setups[fd[c]]
    /\ From(job[c], pc[c]) \notin mixed =>
         /\ fd[c] = pinned[From(job[c], pc[c])]
         /\ pc[c] \in ToWriteTx /\ Once(fd[c]) => params[fd[c]] = NoEntry
         /\ pc[c] \in AfterTx => tx_port[fd[c]][0] = To(job[c], pc[c])

(* Left alone, a load ends with the maps pinned that the program has, until it is detached. *)
Settled(e) == \A c \in Command : pc[c] \in Loaded => job[c].env # e

LoadsInv ==
  /\ \A c \in Command : pc[c] \in Loaded /\ job[c].env \notin mixed => active[job[c].env] = fd[c]
  /\ \A e \in Env : e \notin mixed /\ Settled(e) => active[e] \in {0, pinned[e]}

(* The pairs of environments that a redirection has connected in this direction. *)
Ways ==
  {w \in Env \X Env : /\ pinned[w[1]] # 0
                      /\ tx_port[pinned[w[1]]][0] = w[2]
                      /\ params[pinned[w[1]]] = [src |-> w[1], dest |-> w[2]]}

RedirectsInv ==
  \A c \in Command : job[c].kind = "redirect" =>
    /\ pc[c] \in Setting2 \cup {"done"} /\ last[job[c].env] = c /\ job[c].env \notin mixed
         => <<job[c].env, job[c].to>> \in Ways
    /\ pc[c] = "done" /\ last[job[c].to] = c /\ job[c].to \notin mixed
         => <<job[c].to, job[c].env>> \in Ways

PacketInv ==
  pkt.at = "found" =>
    \/ pkt.env \in mixed \/ ~Once(pkt.maps)
    \/ params[pkt.maps] # NoEntry /\ tx_port[pkt.maps][0] = pkt.dest

RoutedInv ==
  \A m \in 1 .. MaxMaps : \A e \in routed[m] :
    IfIndex[e] \in Port => tx_port[m][IfIndex[e]] # NoOne

Owners == [1 .. MaxMaps -> Env \cup {NoOne}]

Inv(own) ==
  /\ TypeOK /\ CommandsTyped /\ EnvMaps(own) /\ CommandMaps(own) /\ PacketMaps(own)
  /\ SetupsFinite /\ OneAtATime /\ SetupsInv(own) /\ CommandsInv /\ LoadsInv /\ RedirectsInv
  /\ PacketInv /\ RoutedInv

IInv == \E own \in Owners : Inv(own)

-----------------------------------------------------------------------------
(* Commands and what they are to do.                                       *)

LEMMA JobFields ==
  ASSUME NEW j \in Job
  PROVE  /\ j.kind \in {"load", "unload", "router", "user", "redirect"} /\ j.env \in Env
         /\ j.kind \in {"user", "redirect"} => j.to \in Env /\ j.to # j.env /\ j.src \in Mac
         /\ j.kind = "redirect" => j.src = j.env /\ On(j) = {j.env, j.to}
         /\ j.kind # "redirect" => On(j) = {j.env}
         /\ On(j) \subseteq Env
<1>1. /\ j.kind \in {"load", "unload", "router", "user", "redirect"} /\ j.env \in Env
      /\ j.kind \in {"user", "redirect"} => j.to \in Env /\ j.to # j.env /\ j.src \in Mac
      /\ j.kind = "redirect" => j.src = j.env
  BY DEF Job
<1>2. j.kind = "redirect" => On(j) = {j.env, j.to}
  BY <1>1 DEF On
<1>3. j.kind # "redirect" => On(j) = {j.env}
  BY <1>1 DEF On
<1> QED
  BY <1>1, <1>2, <1>3

LEMMA IdleOn == On(Idle) = {} /\ Idle.kind = "none"
  BY DEF On, Idle

(* Who runs has a job, and while it fills maps it does so for one of its environments. *)
LEMMA RunnersJob ==
  ASSUME TypeOK, CommandsTyped, NEW c \in Command, pc[c] # "new"
  PROVE  job[c] \in Job
  BY IdleOn DEF TypeOK, CommandsTyped, KindOf

LEMMA SourceOn ==
  ASSUME TypeOK, CommandsTyped, NEW c \in Command, pc[c] \in Setting1 \cup Setting2
  PROVE  /\ job[c] \in Job /\ Running(c)
         /\ Source(c) \in On(job[c]) /\ Source(c) \in Env /\ Target(c) \in Env
         /\ Source(c) = From(job[c], pc[c]) /\ Target(c) = To(job[c], pc[c])
         /\ SrcMac(c) \in Mac /\ (job[c].kind = "redirect" => SrcMac(c) = Source(c))
<1>1. job[c] \in Job /\ Running(c)
  BY RunnersJob DEF Setting1, Setting2, Running, Ended
<1>2. job[c].kind \in {"user", "redirect"} /\ (pc[c] \in Setting2 => job[c].kind = "redirect")
  BY DEF CommandsTyped, KindOf
<1>3. /\ pc[c] \in Setting1 => Source(c) = job[c].env
      /\ pc[c] \in Setting2 => Source(c) = job[c].to
  BY DEF Source, Setting1, Setting2
<1>4. job[c].to # job[c].env
  BY <1>1, <1>2, JobFields
<1>5. /\ pc[c] \in Setting1 => Target(c) = job[c].to
      /\ pc[c] \in Setting2 => Target(c) = job[c].env
  BY <1>3, <1>4 DEF Target
<1>6. On(job[c]) = IF job[c].kind = "redirect" THEN {job[c].env, job[c].to} ELSE {job[c].env}
  BY <1>1, JobFields
<1>7. Source(c) \in On(job[c]) /\ Source(c) \in Env /\ Target(c) \in Env
  BY <1>1, <1>2, <1>3, <1>5, <1>6, JobFields
<1>8. SrcMac(c) \in Mac /\ (job[c].kind = "redirect" => SrcMac(c) = Source(c))
  BY <1>1, <1>2, <1>7, JobFields DEF SrcMac, Mac
<1>9. Source(c) = From(job[c], pc[c]) /\ Target(c) = To(job[c], pc[c])
  BY <1>3, <1>5 DEF From, To, Setting1, Setting2
<1> QED
  BY <1>1, <1>7, <1>8, <1>9

(* Two commands that run on one environment have overlapped there. *)
LEMMA Alone ==
  ASSUME TypeOK, OneAtATime, NEW c \in Command, NEW d \in Command, Running(c), Running(d),
         NEW e \in Env, e \in On(job[c]), e \in On(job[d]), e \notin mixed
  PROVE  c = d /\ last[e] = c
  BY DEF OneAtATime

LEMMA SameMaps ==
  ASSUME NEW own, TypeOK, CommandsTyped, OneAtATime, CommandMaps(own), NEW c \in Command, NEW d \in Command,
         pc[c] \in HasMaps, pc[d] \in HasMaps, fd[c] = fd[d], From(job[c], pc[c]) \notin mixed
  PROVE  c = d
<1>1. From(job[c], pc[c]) = From(job[d], pc[d])
  BY DEF CommandMaps
<1>2. HasMaps \subseteq Setting1 \cup Setting2
  BY DEF HasMaps, ToWriteTx, AfterTx, Setting1, Setting2
<1>3. From(job[c], pc[c]) \in On(job[c]) \cap On(job[d]) /\ From(job[c], pc[c]) \in Env
  BY <1>1, <1>2, SourceOn
<1> QED
  BY <1>2, <1>3, SourceOn, Alone

LEMMA AfterSteps ==
  ASSUME NEW j \in Job
  PROVE  /\ After(j, "new") = IF j.kind = "load" THEN "attach"
                              ELSE IF j.kind = "unload" THEN "detach"
                              ELSE IF j.kind = "router" THEN "open_router" ELSE "open_tx"
         /\ After(j, "write_tx") = "open_params" /\ After(j, "write_tx2") = "open_params2"
         /\ After(j, "write_params") = IF j.kind = "redirect" THEN "open_tx2" ELSE "done"
         /\ After(j, "write_params2") = "done"
<1>1. After(j, "new") = IF j.kind = "load" THEN "attach"
                        ELSE IF j.kind = "unload" THEN "detach"
                        ELSE IF j.kind = "router" THEN "open_router" ELSE "open_tx"
  <2>1. CASE j.kind = "load"
    BY <2>1 DEF After
  <2>2. CASE j.kind = "router"
    BY <2>2 DEF After
  <2>3. CASE j.kind = "unload"
    BY <2>3 DEF After
  <2>4. CASE j.kind # "load" /\ j.kind # "router" /\ j.kind # "unload"
    BY <2>4 DEF After
  <2> QED
    BY <2>1, <2>2, <2>3, <2>4
<1>2. After(j, "write_tx") = "open_params" /\ After(j, "write_tx2") = "open_params2"
  BY DEF After
<1>3. After(j, "write_params") = IF j.kind = "redirect" THEN "open_tx2" ELSE "done"
  BY DEF After
<1>4. After(j, "write_params2") = "done"
  BY DEF After
<1> QED
  BY <1>1, <1>2, <1>3, <1>4

LEMMA OpenedSteps ==
  /\ Opened["open_tx"] = "write_tx" /\ Opened["open_tx2"] = "write_tx2"
  /\ Opened["open_params"] = "write_params" /\ Opened["open_params2"] = "write_params2"
  /\ Opened["open_router"] = "write_router"
  BY DEF Opened

Labels == {"new", "attach", "unpin", "pin", "detach", "open_tx", "write_tx", "open_params",
           "write_params", "open_tx2", "write_tx2", "open_params2", "write_params2",
           "open_router", "write_router", "done", "failed"}

-----------------------------------------------------------------------------
(* Types.                                                                  *)

LEMMA InitTyped == Init => TypeOK
  BY EnvAssumption, IndexAssumption DEF Init, TypeOK, NoEntry, Idle

LEMMA SetupTyped ==
  ASSUME TypeOK, NEW e \in Env, Setup(e)
  PROVE  TypeOK'
  BY DEF TypeOK, Setup, mapVars, commandVars, historyVars

LEMMA StartTyped ==
  ASSUME TypeOK, NEW c \in Command, NEW j \in Job, Start(c, j)
  PROVE  TypeOK'
<1>1. After(j, "new") \in {"attach", "detach", "open_router", "open_tx"}
  BY AfterSteps
<1>2. job' \in [Command -> Job \cup {Idle}] /\ pc' \in [Command -> Labels]
  BY <1>1 DEF Start, Goto, TypeOK, Labels
<1>3. last' \in [Env -> Command \cup {NoOne}] /\ mixed' \subseteq Env
  BY JobFields DEF Start, TypeOK
<1> QED
  BY <1>2, <1>3 DEF Start, TypeOK, Labels, mapVars

LEMMA LoadTyped ==
  ASSUME TypeOK, CommandsTyped, NEW c \in Command, Attach(c) \/ Unpin(c) \/ Pin(c) \/ Detach(c)
  PROVE  TypeOK'
<1>1. job[c] \in Job /\ job[c].env \in Env /\ On(job[c]) \subseteq Env
  BY RunnersJob, JobFields DEF Attach, Unpin, Pin, Detach
<1>2. CASE Attach(c)
  BY <1>1, <1>2, IndexAssumption DEF Attach, Goto, TypeOK, historyVars
<1>3. CASE Unpin(c)
  <2>1. 0 \in 0 .. MaxMaps
    BY IndexAssumption
  <2>2. pinned' \in [Env -> 0 .. MaxMaps]
    BY <1>1, <1>3, <2>1 DEF Unpin, TypeOK
  <2>3. pc' \in [Command -> Labels]
    BY <1>3 DEF Unpin, Goto, TypeOK, Labels
  <2>4. mixed' \subseteq Env
    BY <1>1, <1>3 DEF Unpin, TypeOK
  <2> QED
    BY <1>3, <2>2, <2>3, <2>4 DEF Unpin, TypeOK, Labels
<1>4. CASE Pin(c)
  <2>1. pinned' \in [Env -> 0 .. MaxMaps] /\ pc' \in [Command -> Labels] /\ mixed' \subseteq Env
    BY <1>1, <1>4 DEF Pin, Goto, TypeOK, Labels
  <2> QED
    BY <1>4, <2>1 DEF Pin, TypeOK, Labels
<1>5. CASE Detach(c)
  <2>1. 0 \in 0 .. MaxMaps
    BY IndexAssumption
  <2>2. active' \in [Env -> 0 .. MaxMaps]
    BY <1>1, <1>5, <2>1 DEF Detach, TypeOK
  <2>3. pc' \in [Command -> Labels]
    BY <1>5 DEF Detach, Goto, TypeOK, Labels
  <2>4. mixed' \subseteq Env
    BY <1>1, <1>5 DEF Detach, TypeOK
  <2> QED
    BY <1>5, <2>2, <2>3, <2>4 DEF Detach, TypeOK, Labels
<1> QED
  BY <1>2, <1>3, <1>4, <1>5

LEMMA OpenTyped ==
  ASSUME TypeOK, CommandsTyped, NEW c \in Command, OpenTxPort(c) \/ OpenParams(c) \/ OpenRouter(c)
  PROVE  /\ TypeOK' /\ job[c] \in Job
         /\ \E e \in On(job[c]) : OpenMapOf(c, e) /\ (pc[c] # "open_router" => e = Source(c))
<1>1. pc[c] \in {"open_tx", "open_tx2", "open_params", "open_params2", "open_router"}
  BY DEF OpenTxPort, OpenParams, OpenRouter
<1>2. job[c] \in Job /\ On(job[c]) \subseteq Env
  BY <1>1, RunnersJob, JobFields
<1>3. \E e \in On(job[c]) : OpenMapOf(c, e) /\ (pc[c] # "open_router" => e = Source(c))
  <2>1. CASE pc[c] = "open_router"
    <3>1. job[c].env \in On(job[c])
      BY <1>2, JobFields
    <3>2. OpenMapOf(c, job[c].env)
      BY <2>1 DEF OpenTxPort, OpenParams, OpenRouter
    <3> QED
      BY <2>1, <3>1, <3>2
  <2>2. CASE pc[c] # "open_router"
    <3>1. Source(c) \in On(job[c])
      BY <1>1, <2>2, SourceOn DEF Setting1, Setting2
    <3> QED
      BY <2>2, <3>1 DEF OpenTxPort, OpenParams, OpenRouter
  <2> QED
    BY <2>1, <2>2
<1>4. PICK e \in On(job[c]) : OpenMapOf(c, e)
  BY <1>3
<1>5. e \in Env /\ Opened[pc[c]] \in Labels
  BY <1>1, <1>2, OpenedSteps DEF Labels
<1>6. pc' \in [Command -> Labels] /\ fd' \in [Command -> 0 .. MaxMaps] /\ mixed' \subseteq Env
  <2>1. pc' \in [Command -> Labels]
    BY <1>4, <1>5 DEF OpenMapOf, Goto, TypeOK, Labels
  <2>2. fd' \in [Command -> 0 .. MaxMaps]
    BY <1>4, <1>5 DEF OpenMapOf, TypeOK
  <2>3. mixed' \subseteq Env
    BY <1>2, <1>4 DEF OpenMapOf, TypeOK
  <2> QED
    BY <2>1, <2>2, <2>3
<1>7. setups' \in [1 .. MaxMaps -> SUBSET Command]
  BY <1>4 DEF OpenMapOf, TypeOK
<1>8. TypeOK'
  BY <1>4, <1>6, <1>7 DEF OpenMapOf, TypeOK, Labels, mapVars
<1> QED
  BY <1>2, <1>3, <1>8

LEMMA WriteTyped ==
  ASSUME TypeOK, CommandsTyped, NEW c \in Command, WriteTxPort(c) \/ write_iface_params(c) \/ WriteRouterPorts(c)
  PROVE  TypeOK' /\ fd[c] \in 1 .. MaxMaps
<1>1. fd[c] \in 1 .. MaxMaps
  BY IndexAssumption DEF TypeOK, CommandsTyped, HasMaps, ToWriteTx, AfterTx, WriteTxPort, write_iface_params,
     WriteRouterPorts
<1>2. CASE WriteTxPort(c)
  <2>1. job[c] \in Job /\ Target(c) \in Env
    BY <1>2, SourceOn DEF WriteTxPort, Setting1, Setting2
  <2>2. After(job[c], pc[c]) \in Labels
    BY <1>2, <2>1, AfterSteps DEF WriteTxPort, Labels
  <2>3. 0 \in Port
    BY IndexAssumption DEF Port
  <2>4. tx_port' \in [1 .. MaxMaps -> [Port -> Env \cup {NoOne}]]
    BY <1>1, <1>2, <2>1, <2>3 DEF WriteTxPort, TypeOK
  <2> QED
    BY <1>1, <1>2, <2>2, <2>4 DEF WriteTxPort, TypeOK, Goto, historyVars, Labels
<1>3. CASE write_iface_params(c)
  <2>1. job[c] \in Job /\ Target(c) \in Env /\ SrcMac(c) \in Mac
    BY <1>3, SourceOn DEF write_iface_params, Setting1, Setting2
  <2>2. After(job[c], pc[c]) \in Labels /\ On(job[c]) \subseteq Env
    BY <1>3, <2>1, AfterSteps, JobFields DEF write_iface_params, Labels
  <2>3. params' \in [1 .. MaxMaps -> Entry \cup {NoEntry}]
    <3>1. [src |-> SrcMac(c), dest |-> Target(c)] \in Entry
      BY <2>1 DEF Entry
    <3>2. params \in [1 .. MaxMaps -> Entry \cup {NoEntry}]
      BY DEF TypeOK
    <3>3. \/ params' = [params EXCEPT ![fd[c]] = [src |-> SrcMac(c), dest |-> Target(c)]]
          \/ params' = params
      BY <1>3 DEF write_iface_params
    <3> QED
      BY <1>1, <3>1, <3>2, <3>3
  <2>4. pc' \in [Command -> Labels] /\ mixed' \subseteq Env
    BY <1>3, <2>2 DEF write_iface_params, TypeOK, Goto, Labels
  <2> QED
    <3>1. UNCHANGED <<exists, maps, active, pinned, tx_port, job, fd, pkt, last, setups, routed>>
      BY <1>3 DEF write_iface_params
    <3> QED
      BY <1>1, <2>3, <2>4, <3>1 DEF TypeOK, Labels
<1>4. CASE WriteRouterPorts(c)
  <2>1. tx_port' \in [1 .. MaxMaps -> [Port -> Env \cup {NoOne}]]
    BY <1>1, <1>4 DEF WriteRouterPorts, TypeOK
  <2>2. routed' \in [1 .. MaxMaps -> SUBSET Env]
    BY <1>1, <1>4 DEF WriteRouterPorts, TypeOK
  <2> QED
    BY <1>1, <1>4, <2>1, <2>2 DEF WriteRouterPorts, TypeOK, Goto
<1> QED
  BY <1>1, <1>2, <1>3, <1>4

LEMMA PacketTyped ==
  ASSUME TypeOK, Packet
  PROVE  TypeOK' /\ UNCHANGED packetRest
<1>1. UNCHANGED packetRest
  BY DEF Packet, LookupParams, RedirectMap, Router, Send
<1>2. pkt'.at \in {"none", "arrived", "found", "through", "refused", "no_port", "no_route"}
  <2>1. CASE LookupParams
    BY <2>1 DEF LookupParams
  <2>2. CASE RedirectMap
    BY <2>2 DEF RedirectMap, Delivery
  <2>3. ASSUME NEW e \in Env, Router(e) PROVE pkt'.at \in {"no_route", "through"}
    BY <2>3 DEF Router
  <2>4. ASSUME NEW e \in Env, NEW src \in {e, Guest}, Send(e, src) PROVE pkt'.at = "arrived"
    BY <2>4 DEF Send
  <2> QED
    BY <2>1, <2>2, <2>3, <2>4 DEF Packet
<1> QED
  BY <1>1, <1>2 DEF TypeOK, packetRest, mapVars, commandVars, historyVars

-----------------------------------------------------------------------------
(* Preservation.  Steps of the environment and of packets leave all but a   *)
(* few variables alone.                                                    *)

restVars == <<maps, active, pinned, tx_port, params, job, pc, fd, last, mixed, setups, routed>>

LEMMA RestKeepsInv ==
  ASSUME NEW own \in Owners, Inv(own), UNCHANGED restVars, TypeOK', PacketMaps(own)', PacketInv'
  PROVE  Inv(own)'
<1> USE DEF restVars
<1>1. CommandsTyped' /\ EnvMaps(own)' /\ CommandMaps(own)'
  BY DEF Inv, CommandsTyped, EnvMaps, CommandMaps
<1>2. SetupsFinite' /\ OneAtATime'
  BY DEF Inv, SetupsFinite, OneAtATime, Running
<1>3. SetupsInv(own)'
  BY DEF Inv, SetupsInv, Once
<1>4. CommandsInv'
  BY DEF Inv, CommandsInv, Once
<1>5. LoadsInv'
  BY DEF Inv, LoadsInv, Settled
<1>6. RedirectsInv'
  BY DEF Inv, RedirectsInv, Ways
<1>7. RoutedInv'
  BY DEF Inv, RoutedInv
<1> QED
  BY <1>1, <1>2, <1>3, <1>4, <1>5, <1>6, <1>7 DEF Inv

LEMMA SetupKeepsInv ==
  ASSUME NEW own \in Owners, Inv(own), NEW e \in Env, Setup(e)
  PROVE  Inv(own)'
<1>1. UNCHANGED <<restVars, pkt>>
  BY DEF Setup, restVars, mapVars, commandVars, historyVars
<1>2. TypeOK'
  BY SetupTyped DEF Inv
<1>3. PacketMaps(own)' /\ PacketInv'
  BY <1>1 DEF Inv, PacketMaps, PacketInv, Once, restVars
<1> QED
  BY <1>1, <1>2, <1>3, RestKeepsInv

LEMMA PacketKeepsInv ==
  ASSUME NEW own \in Owners, Inv(own), Packet
  PROVE  Inv(own)'
<1>1. TypeOK' /\ UNCHANGED restVars
  BY PacketTyped DEF Inv, packetRest, restVars, mapVars, commandVars, historyVars
<1>2. PacketMaps(own)' /\ PacketInv'
  <2>1. CASE pkt'.at \notin OnItsWay
    BY <2>1 DEF PacketMaps, PacketInv, OnItsWay
  <2>2. ASSUME NEW e \in Env, NEW src \in {e, Guest}, Send(e, src)
        PROVE  PacketMaps(own)' /\ PacketInv'
    <3>1. pkt' = [at |-> "arrived", env |-> e, maps |-> active[e], src |-> src, dest |-> NoOne]
      BY <2>2 DEF Send
    <3>2. active[e] \in 1 .. maps /\ own[active[e]] = e
      BY <2>2, IndexAssumption DEF Send, Inv, EnvMaps, TypeOK
    <3> QED
      BY <1>1, <3>1, <3>2 DEF PacketMaps, PacketInv, OnItsWay, Mac, restVars
  <2>3. ASSUME LookupParams, pkt'.at \in OnItsWay
        PROVE  PacketMaps(own)' /\ PacketInv'
    <3>1. /\ pkt.at = "arrived" /\ params[pkt.maps].src = pkt.src
          /\ pkt' = [pkt EXCEPT !.at = "found", !.dest = params[pkt.maps].dest]
      BY <2>3 DEF LookupParams, OnItsWay
    <3>2. /\ pkt.env \in Env /\ pkt.maps \in 1 .. maps /\ pkt.src \in Mac
          /\ own[pkt.maps] = pkt.env
      BY <3>1 DEF Inv, PacketMaps, OnItsWay
    <3>3. params[pkt.maps] # NoEntry
      BY <3>1, <3>2, EnvAssumption DEF Mac, NoEntry
    <3>4. maps \in 0 .. MaxMaps /\ pkt.maps \in 1 .. MaxMaps
      BY <3>2, IndexAssumption DEF Inv, TypeOK
    <3>5. /\ pkt'.at = "found" /\ pkt'.env = pkt.env /\ pkt'.maps = pkt.maps /\ pkt'.src = pkt.src
          /\ pkt'.dest = params[pkt.maps].dest
      BY <3>1
    <3>6. PacketMaps(own)'
      <4>1. params[pkt.maps].dest \in Env
        BY <3>3, <3>4 DEF Inv, TypeOK, Entry
      <4> QED
        BY <1>1, <3>2, <3>5, <4>1 DEF PacketMaps, restVars
    <3>7. PacketInv'
      BY <1>1, <3>2, <3>3, <3>4, <3>5 DEF Inv, SetupsInv, PacketInv, Once, restVars
    <3> QED
      BY <3>6, <3>7
  <2>4. RedirectMap => pkt'.at \notin OnItsWay
    BY DEF RedirectMap, Delivery, OnItsWay
  <2>5. ASSUME NEW e \in Env, Router(e) PROVE pkt'.at \notin OnItsWay
    BY <2>5 DEF Router, OnItsWay
  <2> QED
    BY <2>1, <2>2, <2>3, <2>4, <2>5 DEF Packet
<1> QED
  BY <1>1, <1>2, RestKeepsInv

LEMMA StartKeepsInv ==
  ASSUME NEW own \in Owners, Inv(own), NEW c \in Command, NEW j \in Job, Start(c, j)
  PROVE  Inv(own)'
<1> DEFINE l == After(j, "new")
<1> USE DEF Inv
<1>1. /\ pc[c] = "new" /\ job[c].kind = "none"
      /\ pc' = [pc EXCEPT ![c] = l] /\ job' = [job EXCEPT ![c] = j]
      /\ last' = [e \in Env |-> IF e \in On(j) THEN c ELSE last[e]]
      /\ mixed' = mixed \cup {e \in On(j) : \E d \in Command : Running(d) /\ e \in On(job[d])}
      /\ UNCHANGED <<maps, active, pinned, tx_port, params, fd, pkt, setups, routed>>
  BY DEF Start, Goto, CommandsTyped, KindOf, mapVars
<1>2. /\ l = IF j.kind = "load" THEN "attach" ELSE IF j.kind = "unload" THEN "detach"
            ELSE IF j.kind = "router" THEN "open_router" ELSE "open_tx"
      /\ j.kind \in {"load", "unload", "router", "user", "redirect"}
  BY AfterSteps, JobFields
<1>3. /\ l \notin HasMaps \cup Loaded \cup {"write_router", "new", "done"} \cup Setting2
      /\ KindOf(j.kind, l)
  BY <1>2 DEF HasMaps, ToWriteTx, AfterTx, Loaded, Setting1, Setting2, KindOf
<1> HIDE DEF l
<1>4. /\ pc'[c] = l /\ job'[c] = j
      /\ \A d \in Command : d # c => pc'[d] = pc[d] /\ job'[d] = job[d]
  BY <1>1 DEF TypeOK
<1>5. \A m \in 1 .. MaxMaps : c \notin setups[m]
  BY <1>1 DEF SetupsInv
<1>6. \A d \in Command : job[d].kind = "redirect" => job[d].env \in Env /\ job[d].to \in Env
  BY JobFields, IdleOn DEF TypeOK
<1>7. TypeOK'
  BY StartTyped
<1>8. CommandsTyped'
  BY <1>1, <1>3, <1>4 DEF CommandsTyped
<1>9. EnvMaps(own)' /\ CommandMaps(own)'
  BY <1>1, <1>3, <1>4 DEF EnvMaps, CommandMaps
<1>10. PacketMaps(own)' /\ SetupsFinite' /\ RoutedInv'
  BY <1>1 DEF PacketMaps, SetupsFinite, RoutedInv
<1>11. OneAtATime'
  <2> SUFFICES ASSUME NEW d \in Command, NEW e \in Env, Running(d)', e \in On(job'[d]), e \notin mixed'
               PROVE  last'[e] = d
    BY DEF OneAtATime
  <2>1. CASE d = c
    BY <1>1, <1>4, <2>1
  <2>2. CASE d # c
    BY <1>1, <1>4, <2>2 DEF OneAtATime, Running
  <2> QED
    BY <2>1, <2>2
<1>12. SetupsInv(own)'
  <2> SUFFICES ASSUME NEW m \in 1 .. MaxMaps
               PROVE  /\ \A d \in setups'[m] : /\ pc'[d] \notin {"new", "open_tx"}
                                               /\ pc'[d] \in Setting1 \cup {"open_tx2"} => own[m] = job'[d].env
                      /\ params'[m] # NoEntry => setups'[m] # {}
                      /\ Once(m)' /\ own[m] \notin mixed' /\ params'[m] # NoEntry
                           => tx_port'[m][0] = params'[m].dest
    BY <1>1 DEF SetupsInv
  <2>1. setups[m] \subseteq Command
    BY DEF TypeOK
  <2>2. Once(m)' = Once(m)
    BY <1>1 DEF Once
  <2> QED
    BY <1>1, <1>4, <1>5, <2>1, <2>2 DEF SetupsInv
<1>13. CommandsInv'
  BY <1>1, <1>3, <1>4 DEF CommandsInv, Once
<1>14. LoadsInv'
  <2>1. \A e \in Env : Settled(e)' => Settled(e)
    BY <1>1, <1>4 DEF Settled, Loaded
  <2> QED
    BY <1>1, <1>3, <1>4, <2>1 DEF LoadsInv
<1>15. RedirectsInv'
  <2> SUFFICES ASSUME NEW d \in Command, job'[d].kind = "redirect"
               PROVE  /\ pc'[d] \in Setting2 \cup {"done"} /\ last'[job'[d].env] = d
                         /\ job'[d].env \notin mixed'
                           => <<job'[d].env, job'[d].to>> \in Ways'
                      /\ pc'[d] = "done" /\ last'[job'[d].to] = d /\ job'[d].to \notin mixed'
                           => <<job'[d].to, job'[d].env>> \in Ways'
    BY DEF RedirectsInv
  <2>1. Ways' = Ways
    BY <1>1 DEF Ways
  <2>2. CASE d = c
    BY <1>3, <1>4, <2>2
  <2>3. CASE d # c
    BY SMTT(60), <1>1, <1>4, <1>6, <2>1, <2>3 DEF RedirectsInv
  <2> QED
    BY <2>2, <2>3
<1>16. PacketInv'
  BY <1>1 DEF PacketInv, Once
<1> QED
  BY <1>7, <1>8, <1>9, <1>10, <1>11, <1>12, <1>13, <1>14, <1>15, <1>16

-----------------------------------------------------------------------------
(* Loads.                                                                  *)

LEMMA RedirectFields ==
  ASSUME TypeOK, NEW d \in Command, job[d].kind = "redirect"
  PROVE  /\ job[d].env \in Env /\ job[d].to \in Env /\ job[d].env # job[d].to
         /\ On(job[d]) = {job[d].env, job[d].to}
  BY JobFields, IdleOn DEF TypeOK

LEMMA LoaderFields ==
  ASSUME TypeOK, CommandsTyped, NEW c \in Command, pc[c] \in Loaded \cup {"attach", "detach"}
  PROVE  /\ job[c].kind = IF pc[c] = "detach" THEN "unload" ELSE "load"
         /\ job[c].env \in Env /\ On(job[c]) = {job[c].env} /\ Running(c)
<1>1. pc[c] # "new" /\ Running(c)
  BY DEF Loaded, Running, Ended
<1>2. job[c].kind = (IF pc[c] = "detach" THEN "unload" ELSE "load") /\ job[c] \in Job
  BY <1>1, RunnersJob DEF CommandsTyped, KindOf
<1> QED
  BY <1>1, <1>2, JobFields

(* What is loaded on an environment comes in nobody's way, unless commands overlap there. *)
LEMMA LoadsAlone ==
  ASSUME TypeOK, CommandsTyped, OneAtATime, NEW c \in Command, pc[c] \in Loaded \cup {"attach", "detach"},
         job[c].env \notin mixed
  PROVE  /\ last[job[c].env] = c
         /\ \A d \in Command : pc[d] \in Loaded => d = c \/ job[d].env # job[c].env
         /\ \A d \in Command : pc[d] \in HasMaps => From(job[d], pc[d]) # job[c].env
<1>1. /\ job[c].kind \in {"load", "unload"} /\ job[c].env \in Env /\ On(job[c]) = {job[c].env} /\ Running(c)
  BY LoaderFields
<1>2. last[job[c].env] = c
  BY <1>1 DEF OneAtATime
<1>3. ASSUME NEW d \in Command, pc[d] \in Loaded, job[d].env = job[c].env
      PROVE  d = c
  <2>1. On(job[d]) = {job[d].env} /\ Running(d)
    BY <1>3, LoaderFields
  <2> QED
    BY <1>1, <1>2, <1>3, <2>1 DEF OneAtATime
<1>4. ASSUME NEW d \in Command, pc[d] \in HasMaps, From(job[d], pc[d]) = job[c].env
      PROVE  FALSE
  <2>1. pc[d] \in Setting1 \cup Setting2
    BY <1>4 DEF HasMaps, ToWriteTx, AfterTx, Setting1, Setting2
  <2>2. job[c].env \in On(job[d]) /\ Running(d)
    BY <1>4, <2>1, SourceOn
  <2>3. d = c
    BY <1>1, <1>2, <2>2 DEF OneAtATime
  <2> QED
    BY <1>1, <2>1, <2>3 DEF CommandsTyped, KindOf
<1> QED
  BY <1>2, <1>3, <1>4

LEMMA AttachKeepsInv ==
  ASSUME NEW own \in Owners, Inv(own), NEW c \in Command, Attach(c)
  PROVE  \E o \in Owners : Inv(o)'
<1> DEFINE n == maps + 1
           e == job[c].env
<1> USE DEF Inv
<1>1. /\ pc[c] = "attach" /\ maps < MaxMaps /\ maps' = n
      /\ active' = [active EXCEPT ![e] = n] /\ fd' = [fd EXCEPT ![c] = n]
      /\ pc' = [pc EXCEPT ![c] = "unpin"]
      /\ UNCHANGED <<pinned, tx_port, params, job, pkt, last, mixed, setups, routed>>
  BY DEF Attach, Goto, historyVars
<1>2. /\ job[c].kind = "load" /\ e \in Env /\ On(job[c]) = {e} /\ Running(c)
  BY <1>1, LoaderFields
<1>3. /\ pc'[c] = "unpin" /\ fd'[c] = n /\ active'[e] = n
      /\ \A d \in Command : d # c => pc'[d] = pc[d] /\ fd'[d] = fd[d]
      /\ \A d \in Env : d # e => active'[d] = active[d]
  BY <1>1, <1>2 DEF TypeOK
<1>4. n \in 1 .. MaxMaps /\ maps \in Nat /\ MaxMaps \in Nat
  BY <1>1, IndexAssumption DEF TypeOK
<1>5. PICK o \in Owners : o[n] = e /\ \A m \in 1 .. MaxMaps : m # n => o[m] = own[m]
  <2>1. [own EXCEPT ![n] = e] \in Owners
    BY <1>2, <1>4 DEF Owners
  <2> QED
    BY <1>4, <2>1 DEF Owners
<1>6. setups[n] = {} /\ params[n] = NoEntry
  BY <1>4 DEF SetupsFinite, SetupsInv
<1>7. /\ "unpin" \in Loaded /\ "unpin" \notin HasMaps \cup Setting1 \cup Setting2 \cup {"new", "done", "open_tx", "open_tx2"}
      /\ KindOf("load", "unpin")
  BY DEF Loaded, HasMaps, ToWriteTx, AfterTx, Setting1, Setting2, KindOf
<1>8. e \notin mixed => /\ last[e] = c
                        /\ \A d \in Command : pc[d] \in Loaded => d = c \/ job[d].env # e
  BY <1>1, LoadsAlone
<1> HIDE DEF n, e
<1>9. TypeOK'
  BY LoadTyped
<1>10. CommandsTyped'
  BY <1>1, <1>2, <1>3, <1>4, <1>7 DEF CommandsTyped, n
<1>11. EnvMaps(o)'
  <2> SUFFICES ASSUME NEW d \in Env
               PROVE  /\ active'[d] \in 0 .. n /\ (active'[d] # 0 => o[active'[d]] = d)
                      /\ pinned[d] \in 0 .. n /\ (pinned[d] # 0 => o[pinned[d]] = d)
    BY <1>1 DEF EnvMaps
  <2>1. /\ active[d] \in 0 .. maps /\ (active[d] # 0 => own[active[d]] = d)
        /\ pinned[d] \in 0 .. maps /\ (pinned[d] # 0 => own[pinned[d]] = d)
    BY DEF EnvMaps
  <2>2. \A m \in 1 .. maps : o[m] = own[m]
    BY <1>1, <1>4, <1>5 DEF n
  <2>3. pinned[d] \in 0 .. n /\ (pinned[d] # 0 => o[pinned[d]] = d)
    BY <1>4, <2>1, <2>2 DEF n
  <2>4. CASE d = e
    BY <1>3, <1>4, <1>5, <2>3, <2>4
  <2>5. CASE d # e
    <3>1. active'[d] = active[d]
      BY <1>3, <2>5
    <3> QED
      BY <1>4, <2>1, <2>2, <2>3, <3>1 DEF n
  <2> QED
    BY <2>4, <2>5
<1>12. CommandMaps(o)'
  <2>1. \A d \in Command : pc[d] \in HasMaps \cup Loaded => fd[d] \in 1 .. MaxMaps /\ fd[d] # n
    BY <1>1, <1>4 DEF CommandsTyped, n
  <2> QED
    <3> SUFFICES ASSUME NEW d \in Command
                 PROVE  /\ pc'[d] \in Loaded => o[fd'[d]] = job[d].env
                        /\ pc'[d] \in HasMaps => o[fd'[d]] = From(job[d], pc'[d])
      BY <1>1 DEF CommandMaps
    <3>1. CASE d = c
      BY <1>3, <1>5, <1>7, <3>1 DEF e
    <3>2. CASE d # c
      BY <1>3, <1>5, <2>1, <3>2 DEF CommandMaps
    <3> QED
      BY <3>1, <3>2
<1>13. PacketMaps(o)'
  <2> SUFFICES ASSUME pkt.at \in OnItsWay
               PROVE  /\ pkt.env \in Env /\ pkt.maps \in 1 .. n /\ pkt.src \in Mac
                      /\ o[pkt.maps] = pkt.env
                      /\ pkt.at = "found" => pkt.dest \in Env
    BY <1>1 DEF PacketMaps
  <2>1. /\ pkt.env \in Env /\ pkt.maps \in 1 .. maps /\ pkt.src \in Mac
        /\ own[pkt.maps] = pkt.env
        /\ pkt.at = "found" => pkt.dest \in Env
    BY DEF PacketMaps
  <2>2. pkt.maps \in 1 .. MaxMaps /\ pkt.maps # n /\ pkt.maps \in 1 .. n
    BY <1>1, <1>4, <2>1 DEF n
  <2> QED
    BY <1>5, <2>1, <2>2
<1>14. SetupsFinite'
  BY <1>1, <1>4 DEF SetupsFinite, n
<1>15. OneAtATime'
  BY <1>1, <1>2, <1>3 DEF OneAtATime, Running, Ended
<1>16. SetupsInv(o)'
  <2>1. \A m \in 1 .. MaxMaps : Once(m)' = Once(m) /\ setups[m] \subseteq Command
    BY <1>1 DEF Once, TypeOK
  <2>2. \A m \in 1 .. MaxMaps : m # n =>
          /\ \A d \in setups'[m] : /\ pc'[d] \notin {"new", "open_tx"}
                                   /\ pc'[d] \in Setting1 \cup {"open_tx2"} => o[m] = job'[d].env
          /\ params'[m] # NoEntry => setups'[m] # {}
          /\ Once(m)' /\ o[m] \notin mixed' /\ params'[m] # NoEntry => tx_port'[m][0] = params'[m].dest
    BY <1>1, <1>3, <1>5, <1>7, <2>1 DEF SetupsInv
  <2>3. /\ setups'[n] = {} /\ params'[n] = NoEntry
    BY <1>1, <1>6
  <2> QED
    BY <2>2, <2>3 DEF SetupsInv
<1>17. CommandsInv'
  BY <1>1, <1>3, <1>7 DEF CommandsInv, Once
<1>18. LoadsInv'
  <2>1. \A d \in Command : pc'[d] \in Loaded /\ job'[d].env \notin mixed' => active'[job'[d].env] = fd'[d]
    <3> SUFFICES ASSUME NEW d \in Command, pc'[d] \in Loaded, job[d].env \notin mixed
                 PROVE  active'[job[d].env] = fd'[d]
      BY <1>1
    <3>1. CASE d = c
      BY <1>3, <3>1 DEF e
    <3>2. CASE d # c
      <4>1. job[d].env \in Env /\ job[d].env # e
        BY <1>1, <1>3, <1>8, <3>2, LoaderFields
      <4> QED
        BY <1>3, <3>2, <4>1 DEF LoadsInv
    <3> QED
      BY <3>1, <3>2
  <2>2. \A d \in Env : Settled(d)' => d # e /\ Settled(d)
    BY <1>1, <1>3, <1>7 DEF Settled, e, Loaded
  <2> QED
    BY <1>1, <1>3, <2>1, <2>2 DEF LoadsInv
<1>19. RedirectsInv'
  <2>1. Ways' = Ways
    BY <1>1 DEF Ways
  <2>2. \A d \in Command : job[d].kind = "redirect" => d # c
    BY <1>2
  <2> QED
    BY <1>1, <1>3, <2>1, <2>2 DEF RedirectsInv
<1>20. PacketInv' /\ RoutedInv'
  BY <1>1 DEF PacketInv, RoutedInv, Once
<1>21. Inv(o)'
  BY <1>9, <1>10, <1>11, <1>12, <1>13, <1>14, <1>15, <1>16, <1>17, <1>18, <1>19, <1>20
<1> QED
  <2> HIDE DEF Inv
  <2> QED
    BY <1>5, <1>21

(* What the rest of a load does: the pinned maps of one environment, on which nobody else
   is busy, are replaced by none or by those the load has. *)
LEMMA PinKeepsInv ==
  ASSUME NEW own \in Owners, Inv(own), NEW c \in Command, Unpin(c) \/ Pin(c)
  PROVE  Inv(own)'
<1> USE DEF Inv
<1>1. PICK e \in Env : /\ e = job[c].env /\ On(job[c]) = {e}
                       /\ job[c].kind = "load" /\ Running(c) /\ pc[c] \in Loaded
  BY LoaderFields DEF Unpin, Pin, Loaded
<1>2. PICK l \in {"pin", "done", "failed"} :
        /\ pc' = [pc EXCEPT ![c] = l]
        /\ mixed \subseteq mixed'
        /\ \/ pinned' = [pinned EXCEPT ![e] = 0] /\ l = "pin"
           \/ pinned' = [pinned EXCEPT ![e] = fd[c]] /\ l # "pin"
           \/ pinned' = pinned /\ e \in mixed' /\ l # "pin"
        /\ UNCHANGED <<maps, active, tx_port, params, job, fd, pkt, last, setups, routed>>
  BY <1>1 DEF Unpin, Pin, Goto, historyVars
<1>3. /\ pc'[c] = l
      /\ \A d \in Command : d # c => pc'[d] = pc[d]
      /\ \A d \in Env : d # e => pinned'[d] = pinned[d]
      /\ pinned'[e] \in {0, fd[c], pinned[e]}
      /\ l # "pin" /\ e \notin mixed' => pinned'[e] = fd[c]
  BY <1>2 DEF TypeOK
<1>4. /\ l \notin HasMaps \cup Setting1 \cup Setting2 \cup {"new", "open_tx", "open_tx2", "write_router"}
      /\ l \in Loaded <=> l = "pin"
      /\ KindOf("load", l)
  BY DEF Loaded, HasMaps, ToWriteTx, AfterTx, Setting1, Setting2, KindOf
<1>5. e \notin mixed => /\ last[e] = c
                        /\ \A d \in Command : pc[d] \in Loaded => d = c \/ job[d].env # e
                        /\ \A d \in Command : pc[d] \in HasMaps => From(job[d], pc[d]) # e
  BY <1>1, LoadsAlone
<1>6. fd[c] \in 1 .. maps /\ own[fd[c]] = e
  BY <1>1 DEF CommandsTyped, CommandMaps
<1>7. TypeOK'
  BY LoadTyped
<1>8. CommandsTyped'
  BY <1>1, <1>2, <1>3, <1>4, <1>6 DEF CommandsTyped
<1>9. EnvMaps(own)'
  <2> SUFFICES ASSUME NEW d \in Env
               PROVE  pinned'[d] \in 0 .. maps /\ (pinned'[d] # 0 => own[pinned'[d]] = d)
    BY <1>2 DEF EnvMaps
  <2>1. pinned[d] \in 0 .. maps /\ (pinned[d] # 0 => own[pinned[d]] = d)
    BY DEF EnvMaps
  <2>2. fd[c] \in 0 .. maps /\ 0 \in 0 .. maps
    BY <1>6, IndexAssumption DEF TypeOK
  <2> QED
    BY <1>3, <1>6, <2>1, <2>2
<1>10. CommandMaps(own)'
  BY <1>1, <1>2, <1>3, <1>4, <1>6 DEF CommandMaps
<1>11. PacketMaps(own)' /\ SetupsFinite' /\ RoutedInv' /\ PacketInv'
  BY <1>2 DEF PacketMaps, SetupsFinite, RoutedInv, PacketInv, Once
<1>12. OneAtATime'
  BY <1>1, <1>2, <1>3 DEF OneAtATime, Running, Ended
<1>13. SetupsInv(own)'
  <2>1. \A m \in 1 .. MaxMaps : Once(m)' = Once(m) /\ setups[m] \subseteq Command
    BY <1>2 DEF Once, TypeOK
  <2> QED
    BY <1>2, <1>3, <1>4, <2>1 DEF SetupsInv
<1>14. CommandsInv'
  <2> SUFFICES ASSUME NEW d \in Command, pc'[d] \in HasMaps
               PROVE  /\ d \in setups[fd[d]]
                      /\ From(job[d], pc[d]) \notin mixed' =>
                           /\ fd[d] = pinned'[From(job[d], pc[d])]
                           /\ pc[d] \in ToWriteTx /\ Once(fd[d]) => params[fd[d]] = NoEntry
                           /\ pc[d] \in AfterTx => tx_port[fd[d]][0] = To(job[d], pc[d])
    BY <1>2, <1>3, <1>4 DEF CommandsInv, Once
  <2>1. pc[d] \in HasMaps
    BY <1>3, <1>4
  <2>2. From(job[d], pc[d]) \in Env
    <3>1. pc[d] \in Setting1 \cup Setting2
      BY <2>1 DEF HasMaps, ToWriteTx, AfterTx, Setting1, Setting2
    <3> QED
      BY <3>1, SourceOn
  <2> QED
    BY <1>2, <1>3, <1>5, <2>1, <2>2 DEF CommandsInv
<1>15. LoadsInv'
  <2>1. \A d \in Command : pc'[d] \in Loaded => pc[d] \in Loaded
    BY <1>1, <1>3
  <2>2. \A d \in Env : d # e /\ Settled(d)' => Settled(d)
    BY <1>1, <1>2, <1>3 DEF Settled
  <2>3. Settled(e)' => l # "pin"
    BY <1>1, <1>2, <1>3, <1>4 DEF Settled
  <2>4. e \notin mixed' => active[e] = fd[c]
    BY <1>1, <1>2 DEF LoadsInv
  <2> QED
    BY <1>2, <1>3, <2>1, <2>2, <2>3, <2>4 DEF LoadsInv
<1>16. RedirectsInv'
  <2>1. \A w \in Ways : w[1] # e => w \in Ways'
    BY <1>2, <1>3 DEF Ways
  <2> SUFFICES ASSUME NEW d \in Command, job[d].kind = "redirect"
               PROVE  /\ pc'[d] \in Setting2 \cup {"done"} /\ last[job[d].env] = d /\ job[d].env \notin mixed'
                           => <<job[d].env, job[d].to>> \in Ways'
                      /\ pc'[d] = "done" /\ last[job[d].to] = d /\ job[d].to \notin mixed'
                           => <<job[d].to, job[d].env>> \in Ways'
    BY <1>2 DEF RedirectsInv
  <2>2. d # c
    BY <1>1
  <2> QED
    BY <1>2, <1>3, <1>5, <2>1, <2>2 DEF RedirectsInv
<1> QED
  BY <1>7, <1>8, <1>9, <1>10, <1>11, <1>12, <1>13, <1>14, <1>15, <1>16

(* A program that is detached leaves its maps to whoever has them open. *)
LEMMA DetachKeepsInv ==
  ASSUME NEW own \in Owners, Inv(own), NEW c \in Command, Detach(c)
  PROVE  Inv(own)'
<1> USE DEF Inv
<1>1. PICK l \in {"done", "failed"} :
        /\ pc[c] = "detach" /\ pc' = [pc EXCEPT ![c] = l] /\ mixed \subseteq mixed'
        /\ active' \in {active, [active EXCEPT ![job[c].env] = 0]}
        /\ UNCHANGED <<maps, pinned, tx_port, params, job, fd, pkt, last, setups, routed>>
  BY DEF Detach, Goto
<1>2. /\ job[c].kind = "unload" /\ job[c].env \in Env /\ On(job[c]) = {job[c].env} /\ Running(c)
  BY <1>1, LoaderFields
<1>3. /\ pc'[c] = l /\ \A d \in Command : d # c => pc'[d] = pc[d]
      /\ \A d \in Env : active'[d] \in {0, active[d]}
      /\ \A d \in Env : d # job[c].env => active'[d] = active[d]
  BY <1>1, <1>2 DEF TypeOK
<1>4. /\ {l, "detach"} \cap (HasMaps \cup Loaded \cup Setting1 \cup Setting2
                               \cup {"new", "open_tx", "open_tx2", "write_router"}) = {}
      /\ KindOf("unload", l)
  BY DEF Loaded, HasMaps, ToWriteTx, AfterTx, Setting1, Setting2, KindOf
<1>5. TypeOK'
  BY LoadTyped
<1>6. CommandsTyped'
  BY <1>1, <1>2, <1>3, <1>4 DEF CommandsTyped
<1>7. EnvMaps(own)'
  <2>1. 0 \in 0 .. maps
    BY IndexAssumption DEF TypeOK
  <2> QED
    BY <1>1, <1>3, <2>1 DEF EnvMaps
<1>8. PacketMaps(own)' /\ SetupsFinite' /\ RoutedInv' /\ PacketInv'
  BY <1>1 DEF PacketMaps, SetupsFinite, RoutedInv, PacketInv, Once
<1>9. CommandMaps(own)'
  BY <1>1, <1>3, <1>4 DEF CommandMaps
<1>10. OneAtATime'
  BY <1>1, <1>3 DEF OneAtATime, Running, Ended
<1>11. SetupsInv(own)'
  <2>1. \A m \in 1 .. MaxMaps : Once(m)' = Once(m) /\ setups[m] \subseteq Command
    BY <1>1 DEF Once, TypeOK
  <2> QED
    BY <1>1, <1>3, <1>4, <2>1 DEF SetupsInv
<1>12. CommandsInv'
  BY <1>1, <1>3, <1>4 DEF CommandsInv, Once
<1>13. LoadsInv'
  <2>1. ASSUME NEW d \in Command, pc'[d] \in Loaded, job'[d].env \notin mixed'
        PROVE  active'[job'[d].env] = fd'[d]
    <3>1. d # c /\ pc[d] \in Loaded /\ job[d].env \notin mixed
      BY <1>1, <1>3, <1>4, <2>1
    <3>2. job[d].env \in Env /\ job[d].env # job[c].env
      BY <1>1, <3>1, LoaderFields, LoadsAlone
    <3> QED
      BY <1>1, <1>3, <3>1, <3>2 DEF LoadsInv
  <2>2. \A e \in Env : Settled(e)' => Settled(e)
    BY <1>1, <1>3, <1>4 DEF Settled
  <2> QED
    BY <1>1, <1>3, <2>1, <2>2 DEF LoadsInv
<1>14. RedirectsInv'
  <2>1. Ways' = Ways
    BY <1>1 DEF Ways
  <2>2. \A d \in Command : job[d].kind = "redirect" => d # c
    BY <1>2
  <2> QED
    BY <1>1, <1>3, <2>1, <2>2 DEF RedirectsInv
<1> QED
  BY <1>5, <1>6, <1>7, <1>8, <1>9, <1>10, <1>11, <1>12, <1>13, <1>14

-----------------------------------------------------------------------------
(* xdp_prog_user.                                                          *)

LEMMA FailKeepsInv ==
  ASSUME NEW own \in Owners, Inv(own), TypeOK', NEW c \in Command, pc[c] \notin Loaded \cup {"new"},
         pc' = [pc EXCEPT ![c] = "failed"], mixed \subseteq mixed',
         UNCHANGED <<maps, active, pinned, tx_port, params, job, fd, pkt, last, setups, routed>>
  PROVE  Inv(own)'
<1> USE DEF Inv
<1>1. pc'[c] = "failed" /\ \A d \in Command : d # c => pc'[d] = pc[d]
  BY DEF TypeOK
<1>2. /\ "failed" \notin HasMaps \cup Loaded \cup Setting1 \cup Setting2
                           \cup {"new", "open_tx", "open_tx2", "write_router", "done", "attach"}
      /\ job[c].kind # "none" => KindOf(job[c].kind, "failed")
  BY DEF Loaded, HasMaps, ToWriteTx, AfterTx, Setting1, Setting2, KindOf
<1>3. CommandsTyped'
  <2>1. job[c].kind # "none"
    BY DEF CommandsTyped, KindOf
  <2> QED
    BY <1>1, <1>2, <2>1 DEF CommandsTyped
<1>4. EnvMaps(own)' /\ PacketMaps(own)' /\ SetupsFinite' /\ RoutedInv' /\ PacketInv'
  BY DEF EnvMaps, PacketMaps, SetupsFinite, RoutedInv, PacketInv, Once
<1>5. CommandMaps(own)'
  BY <1>1, <1>2 DEF CommandMaps
<1>6. OneAtATime'
  BY <1>1 DEF OneAtATime, Running, Ended
<1>7. SetupsInv(own)'
  <2>1. \A m \in 1 .. MaxMaps : Once(m)' = Once(m) /\ setups[m] \subseteq Command
    BY DEF Once, TypeOK
  <2> QED
    BY <1>1, <1>2, <2>1 DEF SetupsInv
<1>8. CommandsInv'
  BY <1>1, <1>2 DEF CommandsInv, Once
<1>9. LoadsInv'
  <2>1. \A e \in Env : Settled(e)' => Settled(e)
    BY <1>1 DEF Settled
  <2> QED
    BY <1>1, <1>2, <2>1 DEF LoadsInv
<1>10. RedirectsInv'
  <2>1. Ways' = Ways
    BY DEF Ways
  <2> QED
    BY <1>1, <1>2, <2>1 DEF RedirectsInv
<1> QED
  BY <1>3, <1>4, <1>5, <1>6, <1>7, <1>8, <1>9, <1>10

LEMMA OpenKeepsInv ==
  ASSUME NEW own \in Owners, Inv(own), NEW c \in Command, OpenTxPort(c) \/ OpenParams(c) \/ OpenRouter(c)
  PROVE  Inv(own)'
<1> USE DEF Inv
<1>1. TypeOK' /\ job[c] \in Job
  BY OpenTyped
<1>2. PICK e \in On(job[c]) : OpenMapOf(c, e) /\ (pc[c] # "open_router" => e = Source(c))
  BY OpenTyped
<1>3. e \in Env /\ pinned[e] \in 0 .. maps /\ maps \in 0 .. MaxMaps
  BY <1>1, <1>2, JobFields DEF EnvMaps, TypeOK
<1>4. pc[c] \in {"open_tx", "open_tx2", "open_params", "open_params2", "open_router"}
  BY DEF OpenTxPort, OpenParams, OpenRouter
<1> DEFINE l == Opened[pc[c]]
           m == pinned[e]
<1>5. UNCHANGED <<maps, active, pinned, tx_port, params, job, pkt, last, routed>>
  BY <1>2 DEF OpenMapOf, mapVars
<1>6. setups' = [k \in 1 .. MaxMaps |-> IF k = m /\ job[c].kind # "router" THEN setups[k] \cup {c} ELSE setups[k]]
  BY <1>2 DEF OpenMapOf
<1>7. CASE m = 0
  <2>1. \A k \in 1 .. MaxMaps : k # 0
    BY IndexAssumption
  <2>2. setups' = setups
    BY <1>6, <1>7, <2>1 DEF TypeOK
  <2>3. pc' = [pc EXCEPT ![c] = "failed"] /\ fd' = fd /\ mixed \subseteq mixed'
    BY <1>2, <1>7 DEF OpenMapOf, Goto
  <2>4. pc[c] \notin Loaded \cup {"new"}
    BY <1>4 DEF Loaded
  <2> HIDE DEF Inv
  <2> QED
    BY <1>1, <1>5, <2>2, <2>3, <2>4, FailKeepsInv
<1>8. CASE m # 0
  <2>1. m \in 1 .. maps /\ m \in 1 .. MaxMaps /\ own[m] = e
    BY <1>3, <1>8, IndexAssumption DEF EnvMaps
  <2>2. /\ pc' = [pc EXCEPT ![c] = l] /\ fd' = [fd EXCEPT ![c] = m] /\ mixed' = mixed
    BY <1>2, <1>8 DEF OpenMapOf, Goto
  <2>3. /\ pc'[c] = l /\ fd'[c] = m
        /\ \A d \in Command : d # c => pc'[d] = pc[d] /\ fd'[d] = fd[d]
    BY <2>2 DEF TypeOK
  <2>4. /\ pc[c] = "open_tx" => l = "write_tx"
        /\ pc[c] = "open_tx2" => l = "write_tx2"
        /\ pc[c] = "open_params" => l = "write_params"
        /\ pc[c] = "open_params2" => l = "write_params2"
        /\ pc[c] = "open_router" => l = "write_router"
    BY OpenedSteps
  <2>5. /\ l \notin Loaded \cup {"new", "open_tx", "open_tx2", "done"} /\ pc[c] \notin Loaded \cup {"new", "done"}
        /\ l \in Setting1 <=> pc[c] \in Setting1
        /\ l \in Setting2 <=> pc[c] \in Setting2
        /\ l \in HasMaps <=> pc[c] # "open_router"
        /\ l \in ToWriteTx <=> pc[c] \in {"open_tx", "open_tx2"}
        /\ l \in AfterTx <=> pc[c] \in {"open_params", "open_params2"}
        /\ KindOf(job[c].kind, pc[c]) => KindOf(job[c].kind, l)
        /\ l \notin Ended
    BY <1>4, <2>4 DEF Loaded, HasMaps, ToWriteTx, AfterTx, Setting1, Setting2, KindOf, Ended
  <2>6. /\ From(job[c], l) = From(job[c], pc[c]) /\ To(job[c], l) = To(job[c], pc[c])
        /\ pc[c] # "open_router" => e = From(job[c], pc[c]) /\ job[c].kind # "router"
        /\ pc[c] = "open_tx2" => e # job[c].env
        /\ pc[c] \in Setting1 => e = job[c].env
    <3>1. From(job[c], l) = From(job[c], pc[c]) /\ To(job[c], l) = To(job[c], pc[c])
      BY <2>5 DEF From, To
    <3>2. pc[c] # "open_router" => pc[c] \in Setting1 \cup Setting2
      BY <1>4 DEF Setting1, Setting2
    <3>3. pc[c] # "open_router" => e = From(job[c], pc[c]) /\ job[c].kind # "router"
      BY <1>2, <3>2, SourceOn DEF CommandsTyped, KindOf
    <3>4. pc[c] = "open_tx2" => e # job[c].env
      BY <1>1, <3>3, JobFields DEF CommandsTyped, KindOf, From, Setting2
    <3>5. pc[c] \in Setting1 => e = job[c].env
      BY <3>3 DEF From, Setting1, Setting2
    <3> QED
      BY <3>1, <3>3, <3>4, <3>5
  <2>7. /\ \A k \in 1 .. MaxMaps : setups[k] \subseteq setups'[k] /\ setups'[k] \subseteq setups[k] \cup {c}
        /\ \A k \in 1 .. MaxMaps : k # m => setups'[k] = setups[k]
        /\ pc[c] # "open_router" => c \in setups'[m]
    BY <1>6, <2>1, <2>6
  <2>8. \A k \in 1 .. MaxMaps : Once(k)' => Once(k)
    BY <2>7 DEF Once
  <2> HIDE DEF l, m
  <2>9. CommandsTyped'
    BY <1>5, <2>1, <2>3, <2>5 DEF CommandsTyped
  <2>10. EnvMaps(own)' /\ PacketMaps(own)' /\ RoutedInv'
    BY <1>5 DEF EnvMaps, PacketMaps, RoutedInv
  <2>11. CommandMaps(own)'
    BY <1>5, <2>1, <2>3, <2>5, <2>6 DEF CommandMaps
  <2>12. SetupsFinite'
    <3>1. ASSUME NEW k \in 1 .. MaxMaps PROVE IsFiniteSet(setups'[k])
      <4>1. IsFiniteSet(setups[k]) /\ IsFiniteSet(setups[k] \cup {c})
        BY FS_AddElement DEF SetupsFinite
      <4> QED
        BY <2>7, <4>1, FS_Subset
    <3>2. \A k \in 1 .. MaxMaps : k > maps => k # m
      BY <1>3, <2>1, IndexAssumption
    <3> QED
      BY <1>5, <2>7, <3>1, <3>2 DEF SetupsFinite
  <2>13. OneAtATime'
    <3>1. Running(c)
      BY <1>4 DEF Running, Ended
    <3> QED
      BY <1>5, <2>2, <2>3, <3>1 DEF OneAtATime, Running
  <2>14. SetupsInv(own)'
    <3> SUFFICES ASSUME NEW k \in 1 .. MaxMaps
                 PROVE  /\ \A d \in setups'[k] : /\ pc'[d] \notin {"new", "open_tx"}
                                                 /\ pc'[d] \in Setting1 \cup {"open_tx2"} => own[k] = job[d].env
                        /\ params[k] # NoEntry => setups'[k] # {}
                        /\ Once(k)' /\ own[k] \notin mixed /\ params[k] # NoEntry
                             => tx_port[k][0] = params[k].dest
      BY <1>5, <2>2 DEF SetupsInv
    <3>1. ASSUME NEW d \in setups'[k]
          PROVE  /\ pc'[d] \notin {"new", "open_tx"}
                 /\ pc'[d] \in Setting1 \cup {"open_tx2"} => own[k] = job[d].env
      <4>1. CASE d = c
        <5>1. CASE c \in setups[k]
          BY <2>3, <2>5, <4>1, <5>1 DEF SetupsInv
        <5>2. CASE c \notin setups[k]
          <6>1. k = m
            BY <2>7, <4>1, <5>2
          <6> QED
            BY <2>1, <2>3, <2>5, <2>6, <4>1, <6>1
        <5> QED
          BY <5>1, <5>2
      <4>2. CASE d # c
        <5>1. d \in setups[k] /\ d \in Command
          BY <2>7, <4>2 DEF TypeOK
        <5> QED
          BY <2>3, <4>2, <5>1 DEF SetupsInv
      <4> QED
        BY <4>1, <4>2
    <3>2. params[k] # NoEntry => setups'[k] # {}
      BY <2>7 DEF SetupsInv
    <3>3. Once(k)' /\ own[k] \notin mixed /\ params[k] # NoEntry => tx_port[k][0] = params[k].dest
      BY <2>8 DEF SetupsInv
    <3> QED
      BY <3>1, <3>2, <3>3
  <2>15. CommandsInv'
    <3> SUFFICES ASSUME NEW d \in Command, pc'[d] \in HasMaps
                 PROVE  /\ d \in setups'[fd'[d]]
                        /\ From(job[d], pc'[d]) \notin mixed =>
                             /\ fd'[d] = pinned[From(job[d], pc'[d])]
                             /\ pc'[d] \in ToWriteTx /\ Once(fd[d])' => params[fd'[d]] = NoEntry
                             /\ pc'[d] \in AfterTx => tx_port[fd'[d]][0] = To(job[d], pc'[d])
      BY <1>5, <2>2 DEF CommandsInv
    <3>1. CASE d = c
      <4>1. pc[c] # "open_router" /\ fd'[c] = m /\ c \in setups'[m]
        BY <2>3, <2>5, <2>7, <3>1
      <4>2. m = pinned[From(job[c], l)]
        BY <2>6, <4>1 DEF m
      <4>3. ASSUME l \in ToWriteTx, Once(fd[c])', params[m] # NoEntry PROVE FALSE
        <5>1. \A x, y \in setups'[m] : x = y
          BY <4>1, <4>3 DEF Once
        <5>2. c \in setups[m]
          BY <2>1, <2>7, <4>1, <4>3, <5>1 DEF SetupsInv
        <5>3. pc[c] = "open_tx2" /\ own[m] = job[c].env
          BY <2>1, <2>5, <4>3, <5>2 DEF SetupsInv
        <5> QED
          BY <2>1, <2>6, <5>3
      <4>4. ASSUME l \in AfterTx, From(job[c], l) \notin mixed PROVE tx_port[m][0] = To(job[c], l)
        <5>1. pc[c] \in AfterTx /\ pc[c] \in HasMaps
          BY <2>5, <4>4 DEF AfterTx, HasMaps
        <5>2. fd[c] = m
          BY <2>6, <4>2, <4>4, <5>1 DEF CommandsInv
        <5> QED
          BY <2>6, <4>4, <5>1, <5>2 DEF CommandsInv
      <4> QED
        BY <2>3, <3>1, <4>1, <4>2, <4>3, <4>4
    <3>2. CASE d # c
      <4>1. pc'[d] = pc[d] /\ fd'[d] = fd[d] /\ fd[d] \in 1 .. MaxMaps
        BY <1>3, <2>3, <3>2, IndexAssumption DEF CommandsTyped
      <4>2. Once(fd[d])' => Once(fd[d])
        BY <2>7, <4>1 DEF Once
      <4>3. d \in setups'[fd[d]]
        BY <2>7, <4>1 DEF CommandsInv
      <4> QED
        BY <4>1, <4>2, <4>3 DEF CommandsInv
    <3> QED
      BY <3>1, <3>2
  <2>16. LoadsInv'
    <3>1. \A d \in Env : Settled(d)' => Settled(d)
      BY <1>5, <2>3, <2>5 DEF Settled
    <3> QED
      BY <1>5, <2>2, <2>3, <2>5, <3>1 DEF LoadsInv
  <2>17. RedirectsInv'
    <3>1. Ways' = Ways
      BY <1>5 DEF Ways
    <3> QED
      BY <1>5, <2>2, <2>3, <2>5, <3>1 DEF RedirectsInv
  <2>18. PacketInv'
    <3>1. pkt.at = "found" => pkt.maps \in 1 .. MaxMaps
      BY <1>3, IndexAssumption DEF PacketMaps, OnItsWay
    <3>2. pkt.at = "found" => (Once(pkt.maps)' => Once(pkt.maps))
      BY <1>5, <2>7, <3>1 DEF Once
    <3> QED
      BY <1>5, <2>2, <3>2 DEF PacketInv
  <2> QED
    BY <1>1, <2>9, <2>10, <2>11, <2>12, <2>13, <2>14, <2>15, <2>16, <2>17, <2>18
<1> QED
  BY <1>7, <1>8

(* What a command that fills maps can rely on. *)
LEMMA WriterAlone ==
  ASSUME NEW own \in Owners, Inv(own), NEW c \in Command, pc[c] \in HasMaps,
         NEW e, e = From(job[c], pc[c])
  PROVE  /\ fd[c] \in 1 .. maps /\ fd[c] \in 1 .. MaxMaps /\ own[fd[c]] = e
         /\ e \in Env /\ e \in On(job[c]) /\ Running(c) /\ job[c] \in Job
         /\ \A d \in Command : d # c /\ pc[d] \in HasMaps /\ From(job[d], pc[d]) \notin mixed
                                 => fd[d] # fd[c]
         /\ e \notin mixed => last[e] = c /\ Settled(e)
         /\ \A a \in Env : a # e => pinned[a] # fd[c]
<1> USE DEF Inv
<1>1. fd[c] \in 1 .. maps /\ fd[c] \in 1 .. MaxMaps /\ own[fd[c]] = e
  BY IndexAssumption DEF CommandsTyped, CommandMaps, TypeOK
<1>2. pc[c] \in Setting1 \cup Setting2
  BY DEF HasMaps, ToWriteTx, AfterTx, Setting1, Setting2
<1>3. e \in Env /\ e \in On(job[c]) /\ Running(c) /\ job[c] \in Job
  BY <1>2, SourceOn
<1>4. \A d \in Command : d # c /\ pc[d] \in HasMaps /\ From(job[d], pc[d]) \notin mixed => fd[d] # fd[c]
  BY SameMaps
<1>5. ASSUME e \notin mixed PROVE last[e] = c /\ Settled(e)
  <2>1. last[e] = c
    BY <1>3, <1>5 DEF OneAtATime
  <2>2. ASSUME NEW d \in Command, pc[d] \in Loaded, job[d].env = e PROVE FALSE
    BY <1>5, <2>2, LoadsAlone
  <2> QED
    BY <2>1, <2>2 DEF Settled
<1>6. \A a \in Env : a # e => pinned[a] # fd[c]
  BY <1>1, IndexAssumption DEF EnvMaps, TypeOK
<1> QED
  BY <1>1, <1>3, <1>4, <1>5, <1>6

LEMMA WriteTxKeepsInv ==
  ASSUME NEW own \in Owners, Inv(own), NEW c \in Command, WriteTxPort(c)
  PROVE  Inv(own)'
<1> DEFINE l == After(job[c], pc[c])
           m == fd[c]
           e == From(job[c], pc[c])
           b == To(job[c], pc[c])
<1>1. /\ pc[c] \in ToWriteTx /\ pc[c] \in HasMaps
      /\ tx_port' = [tx_port EXCEPT ![m][0] = b]
      /\ pc' = [pc EXCEPT ![c] = l]
      /\ UNCHANGED <<maps, active, pinned, params, job, fd, pkt, last, mixed, setups, routed>>
  <2>1. Target(c) = b
    BY SourceOn DEF Inv, WriteTxPort, Setting1, Setting2
  <2> QED
    BY <2>1 DEF WriteTxPort, ToWriteTx, HasMaps, Goto, historyVars
<1>2. /\ m \in 1 .. maps /\ m \in 1 .. MaxMaps /\ own[m] = e
      /\ e \in Env /\ e \in On(job[c]) /\ Running(c) /\ job[c] \in Job
      /\ \A d \in Command : d # c /\ pc[d] \in HasMaps /\ From(job[d], pc[d]) \notin mixed => fd[d] # m
      /\ e \notin mixed => last[e] = c /\ Settled(e)
      /\ \A a \in Env : a # e => pinned[a] # m
  BY <1>1, WriterAlone
<1>3. (l = "open_params" /\ pc[c] = "write_tx") \/ (l = "open_params2" /\ pc[c] = "write_tx2")
  <2>1. CASE pc[c] = "write_tx"
    BY <1>2, <2>1, AfterSteps
  <2>2. CASE pc[c] = "write_tx2"
    BY <1>2, <2>2, AfterSteps
  <2> QED
    BY <1>1, <2>1, <2>2 DEF ToWriteTx
<1>4. /\ l \notin Loaded \cup {"new", "open_tx", "open_tx2", "done", "write_router"} \cup ToWriteTx
      /\ pc[c] \notin Loaded \cup {"new", "done"}
      /\ l \in Setting1 <=> pc[c] \in Setting1
      /\ l \in Setting2 <=> pc[c] \in Setting2
      /\ l \in HasMaps /\ l \in AfterTx
      /\ KindOf(job[c].kind, pc[c]) => KindOf(job[c].kind, l)
      /\ l \notin Ended
  BY <1>3 DEF Loaded, HasMaps, ToWriteTx, AfterTx, Setting1, Setting2, KindOf, Ended
<1>5. From(job[c], l) = e /\ To(job[c], l) = b
  BY <1>4 DEF From, To
<1>6. \A k \in 1 .. MaxMaps : /\ k # m => tx_port'[k] = tx_port[k]
                              /\ \A i \in Port : i # 0 => tx_port'[k][i] = tx_port[k][i]
  BY <1>1, <1>2 DEF Inv, TypeOK
<1>7. tx_port'[m][0] = b
  <2>1. 0 \in Port
    BY IndexAssumption DEF Port
  <2> QED
    BY <1>1, <1>2, <2>1 DEF Inv, TypeOK
<1>8. pc'[c] = l /\ \A d \in Command : d # c => pc'[d] = pc[d]
  BY <1>1 DEF Inv, TypeOK
<1>9. TypeOK'
  BY WriteTyped DEF Inv
<1> HIDE DEF l, m, e, b
<1> USE DEF Inv
<1>10. CommandsTyped'
  BY <1>1, <1>4, <1>8 DEF CommandsTyped
<1>11. EnvMaps(own)' /\ PacketMaps(own)' /\ SetupsFinite'
  BY <1>1 DEF EnvMaps, PacketMaps, SetupsFinite
<1>12. CommandMaps(own)'
  BY <1>1, <1>2, <1>4, <1>5, <1>8 DEF CommandMaps, m
<1>13. OneAtATime'
  BY <1>1, <1>2, <1>8 DEF OneAtATime, Running
<1>14. \A k : Once(k)' = Once(k)
  BY <1>1 DEF Once
<1>15. e \notin mixed /\ Once(m) => params[m] = NoEntry
  BY <1>1 DEF CommandsInv, m, e
<1>16. SetupsInv(own)'
  <2> SUFFICES ASSUME NEW k \in 1 .. MaxMaps
               PROVE  /\ \A d \in setups[k] : /\ pc'[d] \notin {"new", "open_tx"}
                                              /\ pc'[d] \in Setting1 \cup {"open_tx2"} => own[k] = job[d].env
                      /\ params[k] # NoEntry => setups[k] # {}
                      /\ Once(k) /\ own[k] \notin mixed /\ params[k] # NoEntry
                           => tx_port'[k][0] = params[k].dest
    BY <1>1, <1>14 DEF SetupsInv
  <2>1. setups[k] \subseteq Command
    BY DEF TypeOK
  <2>2. \A d \in setups[k] : /\ pc'[d] \notin {"new", "open_tx"}
                             /\ pc'[d] \in Setting1 \cup {"open_tx2"} => own[k] = job[d].env
    BY <1>4, <1>8, <2>1 DEF SetupsInv
  <2>3. Once(k) /\ own[k] \notin mixed /\ params[k] # NoEntry => tx_port'[k][0] = params[k].dest
    BY <1>2, <1>6, <1>15 DEF SetupsInv
  <2>4. params[k] # NoEntry => setups[k] # {}
    BY DEF SetupsInv
  <2> QED
    BY <2>2, <2>3, <2>4
<1>17. CommandsInv'
  <2> SUFFICES ASSUME NEW d \in Command, pc'[d] \in HasMaps
               PROVE  /\ d \in setups[fd[d]]
                      /\ From(job[d], pc'[d]) \notin mixed =>
                           /\ fd[d] = pinned[From(job[d], pc'[d])]
                           /\ pc'[d] \in ToWriteTx /\ Once(fd[d]) => params[fd[d]] = NoEntry
                           /\ pc'[d] \in AfterTx => tx_port'[fd[d]][0] = To(job[d], pc'[d])
    BY <1>1, <1>14 DEF CommandsInv
  <2>1. CASE d = c
    BY <1>1, <1>4, <1>5, <1>7, <1>8, <2>1 DEF CommandsInv, m, e
  <2>2. CASE d # c
    <3>1. fd[d] \in 1 .. MaxMaps
      BY <1>8, <2>2, IndexAssumption DEF CommandsTyped, TypeOK
    <3> QED
      BY <1>2, <1>6, <1>8, <2>2, <3>1 DEF CommandsInv
  <2> QED
    BY <2>1, <2>2
<1>18. LoadsInv'
  <2>1. \A d \in Env : Settled(d)' => Settled(d)
    BY <1>1, <1>4, <1>8 DEF Settled
  <2> QED
    BY <1>1, <1>4, <1>8, <2>1 DEF LoadsInv
<1>19. RedirectsInv'
  <2>1. \A w \in Ways : w[1] # e => w \in Ways'
    BY SMTT(60), <1>1, <1>2, <1>6, IndexAssumption DEF Ways, EnvMaps, TypeOK
  <2> SUFFICES ASSUME NEW d \in Command, job[d].kind = "redirect"
               PROVE  /\ pc'[d] \in Setting2 \cup {"done"} /\ last[job[d].env] = d /\ job[d].env \notin mixed
                           => <<job[d].env, job[d].to>> \in Ways'
                      /\ pc'[d] = "done" /\ last[job[d].to] = d /\ job[d].to \notin mixed
                           => <<job[d].to, job[d].env>> \in Ways'
    BY <1>1 DEF RedirectsInv
  <2>2. CASE d = c
    <3>1. pc[c] \in Setting2 => job[d].env # e
      BY <2>2, RedirectFields DEF From, e
    <3> QED
      BY <1>4, <1>8, <2>1, <2>2, <3>1 DEF RedirectsInv
  <2>3. CASE d # c
    BY <1>2, <1>8, <2>1, <2>3 DEF RedirectsInv
  <2> QED
    BY <2>2, <2>3
<1>20. PacketInv'
  <2>1. pkt.at = "found" => /\ pkt.maps \in 1 .. MaxMaps
                            /\ own[pkt.maps] = pkt.env
    BY IndexAssumption DEF PacketMaps, OnItsWay, TypeOK
  <2> QED
    BY <1>1, <1>2, <1>6, <1>14, <1>15, <2>1 DEF PacketInv
<1>21. RoutedInv'
  <2>1. \A d \in Env : IfIndex[d] # 0
    BY IndexAssumption
  <2> QED
    BY <1>1, <1>6, <2>1 DEF RoutedInv, TypeOK
<1> QED
  BY <1>9, <1>10, <1>11, <1>12, <1>13, <1>16, <1>17, <1>18, <1>19, <1>20, <1>21

(* The address ends one direction of a redirection: what it leaves behind is a way. *)
LEMMA WriteParamsKeepsInv ==
  ASSUME NEW own \in Owners, Inv(own), NEW c \in Command, write_iface_params(c)
  PROVE  Inv(own)'
<1> DEFINE l == After(job[c], pc[c])
           m == fd[c]
           e == From(job[c], pc[c])
           b == To(job[c], pc[c])
<1>1. pc[c] \in {"write_params", "write_params2"} /\ pc[c] \in AfterTx /\ pc[c] \in HasMaps
  BY DEF write_iface_params, AfterTx, HasMaps
<1>2. /\ m \in 1 .. maps /\ m \in 1 .. MaxMaps /\ own[m] = e
      /\ e \in Env /\ e \in On(job[c]) /\ Running(c) /\ job[c] \in Job
      /\ \A d \in Command : d # c /\ pc[d] \in HasMaps /\ From(job[d], pc[d]) \notin mixed => fd[d] # m
      /\ e \notin mixed => last[e] = c /\ Settled(e)
      /\ \A a \in Env : a # e => pinned[a] # m
  BY <1>1, WriterAlone
<1>3. SrcMac(c) \in Mac /\ (job[c].kind = "redirect" => SrcMac(c) = e) /\ Target(c) = b
  BY <1>1, SourceOn DEF Inv, Setting1, Setting2
<1>4. TypeOK'
  BY WriteTyped DEF Inv
<1>5. UNCHANGED <<maps, active, pinned, tx_port, job, fd, pkt, last, setups, routed>>
  BY DEF write_iface_params
<1>6. CASE params' = params /\ mixed \subseteq mixed' /\ pc' = [pc EXCEPT ![c] = "failed"]
  <2>1. pc[c] \notin Loaded \cup {"new"}
    BY <1>1 DEF Loaded
  <2> QED
    BY <1>4, <1>5, <1>6, <2>1, FailKeepsInv
<1>7. CASE /\ params' = [params EXCEPT ![m] = [src |-> SrcMac(c), dest |-> b]]
           /\ pc' = [pc EXCEPT ![c] = l] /\ mixed' = mixed
  <2> USE DEF Inv
  <2>1. \/ l = "open_tx2" /\ pc[c] = "write_params" /\ job[c].kind = "redirect"
        \/ l = "done" /\ pc[c] = "write_params" /\ job[c].kind # "redirect"
        \/ l = "done" /\ pc[c] = "write_params2" /\ job[c].kind = "redirect"
    <3>1. CASE pc[c] = "write_params"
      BY <1>2, <3>1, AfterSteps
    <3>2. CASE pc[c] = "write_params2"
      BY <1>2, <3>2, AfterSteps DEF CommandsTyped, KindOf, Setting2
    <3> QED
      BY <1>1, <3>1, <3>2
  <2>2. /\ l \notin Loaded \cup HasMaps \cup {"new", "open_tx", "write_router"}
        /\ pc[c] \notin Loaded \cup {"new", "done"}
        /\ l \in Setting1 \cup {"open_tx2"} => pc[c] \in Setting1
        /\ KindOf(job[c].kind, pc[c]) => KindOf(job[c].kind, l)
    BY <2>1 DEF Loaded, HasMaps, ToWriteTx, AfterTx, Setting1, Setting2, KindOf
  <2>3. \A k \in 1 .. MaxMaps : k # m => params'[k] = params[k]
    BY <1>2, <1>7 DEF TypeOK
  <2>4. params'[m] = [src |-> SrcMac(c), dest |-> b] /\ params'[m] # NoEntry
    <3>1. params'[m] = [src |-> SrcMac(c), dest |-> b]
      BY <1>2, <1>7 DEF TypeOK
    <3> QED
      BY <1>3, <3>1, EnvAssumption DEF Mac, NoEntry
  <2>5. pc'[c] = l /\ \A d \in Command : d # c => pc'[d] = pc[d]
    BY <1>7 DEF TypeOK
  <2>6. e \notin mixed => m = pinned[e] /\ tx_port[m][0] = b
    BY <1>1 DEF CommandsInv
  <2>7. c \in setups[m]
    BY <1>1 DEF CommandsInv
  <2>8. \A k : Once(k)' = Once(k)
    BY <1>5 DEF Once
  <2>9. \/ l = "open_tx2" /\ e = job[c].env /\ b = job[c].to /\ SrcMac(c) = e
        \/ l = "done" /\ job[c].kind # "redirect"
        \/ l = "done" /\ pc[c] \in Setting2 /\ e = job[c].to /\ b = job[c].env /\ SrcMac(c) = e
    BY <1>3, <2>1 DEF From, To, Setting2
  <2> HIDE DEF l, m, e, b
  <2>10. CommandsTyped'
    BY <1>5, <2>2, <2>5 DEF CommandsTyped
  <2>11. EnvMaps(own)' /\ PacketMaps(own)' /\ SetupsFinite' /\ RoutedInv'
    BY <1>5 DEF EnvMaps, PacketMaps, SetupsFinite, RoutedInv
  <2>12. CommandMaps(own)'
    BY <1>5, <2>2, <2>5 DEF CommandMaps
  <2>13. OneAtATime'
    BY <1>2, <1>5, <1>7, <2>5 DEF OneAtATime, Running
  <2>14. SetupsInv(own)'
    <3> SUFFICES ASSUME NEW k \in 1 .. MaxMaps
                 PROVE  /\ \A d \in setups[k] : /\ pc'[d] \notin {"new", "open_tx"}
                                                /\ pc'[d] \in Setting1 \cup {"open_tx2"} => own[k] = job[d].env
                        /\ params'[k] # NoEntry => setups[k] # {}
                        /\ Once(k) /\ own[k] \notin mixed /\ params'[k] # NoEntry
                             => tx_port[k][0] = params'[k].dest
      BY <1>5, <1>7, <2>8 DEF SetupsInv
    <3>1. setups[k] \subseteq Command
      BY DEF TypeOK
    <3>2. ASSUME NEW d \in setups[k]
          PROVE  /\ pc'[d] \notin {"new", "open_tx"}
                 /\ pc'[d] \in Setting1 \cup {"open_tx2"} => own[k] = job[d].env
      <4>1. CASE d = c
        BY <2>2, <2>5, <4>1 DEF SetupsInv
      <4>2. CASE d # c
        BY <2>5, <3>1, <4>2 DEF SetupsInv
      <4> QED
        BY <4>1, <4>2
    <3>3. params'[k] # NoEntry => setups[k] # {}
      BY <2>3, <2>7 DEF SetupsInv
    <3>4. Once(k) /\ own[k] \notin mixed /\ params'[k] # NoEntry => tx_port[k][0] = params'[k].dest
      <4>1. CASE k = m
        BY <1>2, <2>4, <2>6, <4>1
      <4>2. CASE k # m
        BY <2>3, <4>2 DEF SetupsInv
      <4> QED
        BY <4>1, <4>2
    <3> QED
      BY <3>2, <3>3, <3>4
  <2>15. CommandsInv'
    <3> SUFFICES ASSUME NEW d \in Command, pc'[d] \in HasMaps
                 PROVE  /\ d \in setups[fd[d]]
                        /\ From(job[d], pc'[d]) \notin mixed =>
                             /\ fd[d] = pinned[From(job[d], pc'[d])]
                             /\ pc'[d] \in ToWriteTx /\ Once(fd[d]) => params'[fd[d]] = NoEntry
                             /\ pc'[d] \in AfterTx => tx_port[fd[d]][0] = To(job[d], pc'[d])
      BY <1>5, <1>7, <2>8 DEF CommandsInv
    <3>1. d # c /\ pc'[d] = pc[d]
      BY <2>2, <2>5
    <3>2. fd[d] \in 1 .. MaxMaps
      BY <3>1, IndexAssumption DEF CommandsTyped, TypeOK
    <3> QED
      BY <1>2, <2>3, <3>1, <3>2 DEF CommandsInv
  <2>16. LoadsInv'
    <3>1. \A d \in Env : Settled(d)' => Settled(d)
      BY <1>5, <2>2, <2>5 DEF Settled
    <3> QED
      BY <1>5, <1>7, <2>2, <2>5, <3>1 DEF LoadsInv
  <2>17. RedirectsInv'
    <3>1. \A w \in Ways : w[1] # e => w \in Ways'
      BY SMTT(60), <1>2, <1>5, <2>3, IndexAssumption DEF Ways, EnvMaps, TypeOK
    <3>2. e \notin mixed /\ b \in Env /\ SrcMac(c) = e => <<e, b>> \in Ways'
      <4>1. e \notin mixed => pinned[e] = m
        BY <2>6
      <4>2. m # 0
        BY <1>2, IndexAssumption DEF TypeOK
      <4> QED
        BY <1>2, <1>5, <2>4, <2>6, <4>1, <4>2 DEF Ways
    <3> SUFFICES ASSUME NEW d \in Command, job[d].kind = "redirect"
                 PROVE  /\ pc'[d] \in Setting2 \cup {"done"} /\ last[job[d].env] = d /\ job[d].env \notin mixed
                             => <<job[d].env, job[d].to>> \in Ways'
                        /\ pc'[d] = "done" /\ last[job[d].to] = d /\ job[d].to \notin mixed
                             => <<job[d].to, job[d].env>> \in Ways'
      BY <1>5, <1>7 DEF RedirectsInv
    <3>3. job[d].env \in Env /\ job[d].to \in Env /\ job[d].env # job[d].to
      BY RedirectFields
    <3>4. CASE d = c
      <4>1. CASE l = "open_tx2"
        <5>1. "open_tx2" \in Setting2 /\ "open_tx2" # "done"
          BY DEF Setting2
        <5> QED
          BY <2>5, <2>9, <3>2, <3>3, <3>4, <4>1
      <4>2. CASE l # "open_tx2"
        <5>1. pc[c] \in Setting2 /\ e = job[c].to /\ b = job[c].env /\ SrcMac(c) = e
          BY <2>9, <3>4, <4>2
        <5> QED
          BY <2>5, <3>1, <3>2, <3>3, <3>4, <5>1 DEF RedirectsInv
      <4> QED
        BY <4>1, <4>2
    <3>5. CASE d # c
      BY <1>2, <2>5, <3>1, <3>5 DEF RedirectsInv
    <3> QED
      BY <3>4, <3>5
  <2>18. PacketInv'
    <3>1. pkt.at = "found" => pkt.maps \in 1 .. MaxMaps
      BY IndexAssumption DEF PacketMaps, OnItsWay, TypeOK
    <3> QED
      BY <1>5, <1>7, <2>3, <2>4, <2>8, <3>1 DEF PacketInv
  <2> QED
    BY <1>4, <2>10, <2>11, <2>12, <2>13, <2>14, <2>15, <2>16, <2>17, <2>18
<1> QED
  <2>1. \/ params' = params /\ mixed' = mixed \cup On(job[c]) /\ pc' = [pc EXCEPT ![c] = "failed"]
        \/ /\ params' = [params EXCEPT ![m] = [src |-> SrcMac(c), dest |-> Target(c)]]
           /\ pc' = [pc EXCEPT ![c] = l] /\ mixed' = mixed
    BY DEF write_iface_params, Goto
  <2> QED
    BY <1>3, <1>6, <1>7, <2>1

LEMMA WriteRouterKeepsInv ==
  ASSUME NEW own \in Owners, Inv(own), NEW c \in Command, WriteRouterPorts(c)
  PROVE  Inv(own)'
<1> USE DEF Inv
<1>1. /\ pc[c] = "write_router" /\ pc' = [pc EXCEPT ![c] = "done"]
      /\ tx_port' = [tx_port EXCEPT ![fd[c]] = [i \in Port |->
           IF i \in RouterPorts /\ \E e \in exists : IfIndex[e] = i
           THEN CHOOSE e \in exists : IfIndex[e] = i ELSE tx_port[fd[c]][i]]]
      /\ routed' = [routed EXCEPT ![fd[c]] = exists]
      /\ UNCHANGED <<maps, active, pinned, params, job, fd, pkt, last, mixed, setups>>
  BY DEF WriteRouterPorts, Goto
<1>2. TypeOK' /\ fd[c] \in 1 .. MaxMaps
  BY WriteTyped
<1>3. \A k \in 1 .. MaxMaps : tx_port'[k][0] = tx_port[k][0]
  <2>1. 0 \in Port /\ 0 \notin RouterPorts
    BY IndexAssumption DEF Port, RouterPorts
  <2> QED
    BY <1>1, <1>2, <2>1 DEF TypeOK
<1>4. /\ pc'[c] = "done" /\ (\A d \in Command : d # c => pc'[d] = pc[d])
      /\ job[c].kind = "router"
  BY <1>1 DEF TypeOK, CommandsTyped, KindOf
<1>5. /\ "done" \notin Loaded \cup HasMaps \cup Setting1 \cup Setting2 \cup {"new", "open_tx", "open_tx2", "write_router"}
      /\ KindOf("router", "done") /\ "write_router" \notin Loaded
  BY DEF Loaded, HasMaps, ToWriteTx, AfterTx, Setting1, Setting2, KindOf
<1>6. \A k : Once(k)' = Once(k)
  BY <1>1 DEF Once
<1>7. \A d \in Command : pc[d] \in HasMaps => fd[d] \in 1 .. MaxMaps
  BY IndexAssumption DEF CommandsTyped, TypeOK
<1>8. CommandsTyped'
  BY <1>1, <1>4, <1>5 DEF CommandsTyped
<1>9. EnvMaps(own)' /\ PacketMaps(own)' /\ SetupsFinite'
  BY <1>1 DEF EnvMaps, PacketMaps, SetupsFinite
<1>10. CommandMaps(own)'
  BY <1>1, <1>4, <1>5 DEF CommandMaps
<1>11. OneAtATime'
  BY <1>1, <1>4 DEF OneAtATime, Running, Ended
<1>12. SetupsInv(own)'
  <2>1. \A k \in 1 .. MaxMaps : setups[k] \subseteq Command
    BY DEF TypeOK
  <2> QED
    BY <1>1, <1>3, <1>4, <1>5, <1>6, <2>1 DEF SetupsInv
<1>13. CommandsInv'
  BY <1>1, <1>3, <1>4, <1>5, <1>6, <1>7 DEF CommandsInv
<1>14. LoadsInv'
  <2>1. \A d \in Env : Settled(d)' => Settled(d)
    BY <1>1, <1>4, <1>5 DEF Settled
  <2> QED
    BY <1>1, <1>4, <1>5, <2>1 DEF LoadsInv
<1>15. RedirectsInv'
  <2>1. Ways' = Ways
    <3>1. \A a \in Env : pinned[a] # 0 => pinned[a] \in 1 .. MaxMaps
      BY IndexAssumption DEF TypeOK
    <3>2. \A a \in Env : pinned[a] # 0 => tx_port'[pinned[a]][0] = tx_port[pinned[a]][0]
      BY <1>3, <3>1
    <3>3. \A w \in Env \X Env : w[1] \in Env
      OBVIOUS
    <3> QED
      BY <1>1, <3>2, <3>3 DEF Ways
  <2> QED
    BY <1>1, <1>4, <2>1 DEF RedirectsInv
<1>16. PacketInv'
  <2>1. pkt.at = "found" => pkt.maps \in 1 .. MaxMaps
    BY IndexAssumption DEF PacketMaps, OnItsWay, TypeOK
  <2> QED
    BY <1>1, <1>3, <1>6, <2>1 DEF PacketInv
<1>17. RoutedInv'
  <2> SUFFICES ASSUME NEW k \in 1 .. MaxMaps, NEW a \in routed'[k], IfIndex[a] \in Port
               PROVE  tx_port'[k][IfIndex[a]] # NoOne
    BY DEF RoutedInv
  <2>1. CASE k = fd[c]
    <3>1. a \in exists /\ exists \subseteq Env
      BY <1>1, <1>2, <2>1 DEF TypeOK
    <3>2. IfIndex[a] \in RouterPorts
      BY <3>1, IndexAssumption DEF RouterPorts
    <3>3. tx_port'[k][IfIndex[a]] = CHOOSE e \in exists : IfIndex[e] = IfIndex[a]
      BY <1>1, <1>2, <2>1, <3>1, <3>2 DEF TypeOK
    <3>4. (CHOOSE e \in exists : IfIndex[e] = IfIndex[a]) \in exists
      BY <3>1
    <3> QED
      BY <3>1, <3>3, <3>4, EnvAssumption
  <2>2. CASE k # fd[c]
    BY <1>1, <1>2, <2>2 DEF RoutedInv, TypeOK
  <2> QED
    BY <2>1, <2>2
<1> QED
  BY <1>2, <1>8, <1>9, <1>10, <1>11, <1>12, <1>13, <1>14, <1>15, <1>16, <1>17

-----------------------------------------------------------------------------
LEMMA InitInv == Init => IInv
<1> SUFFICES ASSUME Init PROVE IInv
  OBVIOUS
<1>1. TypeOK
  BY InitTyped
<1>2. CommandsTyped /\ OneAtATime
  BY DEF Init, CommandsTyped, OneAtATime, Running, KindOf, Idle, HasMaps, ToWriteTx, AfterTx, Loaded, Setting1,
         Setting2
<1>3. SetupsFinite
  BY FS_EmptySet DEF Init, SetupsFinite
<1>4. CommandsInv /\ LoadsInv
  BY DEF Init, CommandsInv, LoadsInv, HasMaps, ToWriteTx, AfterTx, Loaded
<1>5. RedirectsInv /\ PacketInv /\ RoutedInv
  BY DEF Init, RedirectsInv, PacketInv, RoutedInv, Idle
<1>6. ASSUME NEW own \in Owners
      PROVE  EnvMaps(own) /\ CommandMaps(own) /\ PacketMaps(own) /\ SetupsInv(own)
  BY IndexAssumption DEF Init, EnvMaps, CommandMaps, PacketMaps, SetupsInv, HasMaps, ToWriteTx, AfterTx, Loaded,
     OnItsWay, NoEntry
<1>7. [m \in 1 .. MaxMaps |-> NoOne] \in Owners
  BY DEF Owners
<1> QED
  BY <1>1, <1>2, <1>3, <1>4, <1>5, <1>6, <1>7 DEF IInv, Inv

LEMMA StepInv == IInv /\ [Next]_vars => IInv'
<1> SUFFICES ASSUME IInv, [Next]_vars PROVE IInv'
  OBVIOUS
<1>1. PICK own \in Owners : Inv(own)
  BY DEF IInv
<1>2. (\E o \in Owners : Inv(o)') => IInv'
  BY DEF IInv
<1>3. ASSUME NEW e \in Env, Setup(e) PROVE IInv'
  BY <1>1, <1>2, <1>3, SetupKeepsInv
<1>4. ASSUME NEW c \in Command, NEW j \in Jobs, Start(c, j) PROVE IInv'
  BY <1>1, <1>2, <1>4, StartKeepsInv, JobsAssumption
<1>5. ASSUME NEW c \in Command, Attach(c) PROVE IInv'
  BY <1>1, <1>2, <1>5, AttachKeepsInv
<1>6. ASSUME NEW c \in Command, Unpin(c) \/ Pin(c) PROVE IInv'
  BY <1>1, <1>2, <1>6, PinKeepsInv
<1>10. ASSUME NEW c \in Command, Detach(c) PROVE IInv'
  BY <1>1, <1>2, <1>10, DetachKeepsInv
<1>7. ASSUME NEW c \in Command, xdp_prog_user(c) PROVE IInv'
  <2>1. CASE OpenTxPort(c) \/ OpenParams(c) \/ OpenRouter(c)
    BY <1>1, <1>2, <2>1, OpenKeepsInv
  <2>2. CASE WriteTxPort(c)
    BY <1>1, <1>2, <2>2, WriteTxKeepsInv
  <2>3. CASE write_iface_params(c)
    BY <1>1, <1>2, <2>3, WriteParamsKeepsInv
  <2>4. CASE WriteRouterPorts(c)
    BY <1>1, <1>2, <2>4, WriteRouterKeepsInv
  <2> QED
    BY <1>7, <2>1, <2>2, <2>3, <2>4 DEF xdp_prog_user
<1>8. CASE Packet
  BY <1>1, <1>2, <1>8, PacketKeepsInv
<1>9. CASE UNCHANGED vars
  <2>1. UNCHANGED <<restVars, exists, pkt>>
    BY <1>9 DEF vars, restVars, mapVars, commandVars, historyVars
  <2>2. TypeOK'
    BY <1>1, <2>1 DEF Inv, TypeOK, restVars
  <2>3. PacketMaps(own)' /\ PacketInv'
    BY <1>1, <2>1 DEF Inv, PacketMaps, PacketInv, Once, restVars
  <2> QED
    BY <1>1, <1>2, <2>1, <2>2, <2>3, RestKeepsInv
<1> QED
  BY <1>3, <1>4, <1>5, <1>6, <1>7, <1>8, <1>9, <1>10 DEF Next

LEMMA InvHolds == Spec => []IInv
  BY InitInv, StepInv, PTL DEF Spec

(* Whatever is loaded, redirected and sent, no variable leaves its type: no step writes to maps
   that were never made, and every command's step belongs to what it is to do. *)
THEOREM RedirectTyped == Spec => []TypeOK
<1>1. IInv => TypeOK
  BY DEF IInv, Inv
<1> QED
  BY <1>1, InvHolds, PTL

(* testenv.sh redirect: when it has ended well and was alone on both environments, the maps that
   are pinned send the one's packets to the other and back, and programs attached have those maps,
   whatever was loaded and unloaded before. *)
THEOREM BothWaysWork == Spec => []RedirectWorks
<1>1. IInv => RedirectWorks
  <2> SUFFICES ASSUME IInv, NEW c \in Command, NEW a, NEW b, a = job[c].env, b = job[c].to,
                      pc[c] = "done", job[c].kind = "redirect", last[a] = c, last[b] = c,
                      {a, b} \cap mixed = {}, NEW e \in {a, b}, NEW d, d = IF e = a THEN b ELSE a
               PROVE  /\ pinned[e] # 0 /\ active[e] \in {0, pinned[e]}
                      /\ tx_port[pinned[e]][0] = d
                      /\ params[pinned[e]] = [src |-> e, dest |-> d]
    BY DEF RedirectWorks
  <2>1. <<a, b>> \in Ways /\ <<b, a>> \in Ways
    BY DEF IInv, Inv, RedirectsInv
  <2>2. e \in Env /\ e \notin mixed /\ last[e] = c
    BY RedirectFields DEF IInv, Inv
  <2>3. Settled(e)
    <3> SUFFICES ASSUME NEW l \in Command, pc[l] \in Loaded, job[l].env = e
                 PROVE  FALSE
      BY DEF Settled
    <3>1. last[e] = l
      BY <2>2, LoadsAlone DEF IInv, Inv
    <3> QED
      BY <2>2, <3>1 DEF Loaded
  <2>4. active[e] \in {0, pinned[e]}
    BY <2>2, <2>3 DEF IInv, Inv, LoadsInv
  <2> QED
    BY <2>1, <2>4 DEF Ways
<1> QED
  BY <1>1, InvHolds, PTL

(* xdp_prog_user, filling the maps of a program for the first time, port before address: no
   packet is lost for want of a port, or sent to a host of another address. *)
THEOREM NothingLostAtFirst == Spec => FirstSetupLosesNothing
<1>1. IInv /\ [Next]_vars =>
        [pkt.at = "found" /\ pkt'.at \in {"no_port", "refused"}
           => pkt.env \in mixed \/ Cardinality(setups[pkt.maps]) > 1]_vars
  <2> SUFFICES ASSUME IInv, Next, pkt.at = "found", pkt'.at \in {"no_port", "refused"},
                      pkt.env \notin mixed
               PROVE  Cardinality(setups[pkt.maps]) > 1
    BY DEF vars
  <2>1. PICK own \in Owners : Inv(own)
    BY DEF IInv
  <2>2. pkt.maps \in 1 .. MaxMaps /\ pkt.env \in Env /\ pkt.dest \in Env
    BY <2>1, IndexAssumption DEF Inv, PacketMaps, OnItsWay, TypeOK
  <2>3. RedirectMap
    <3>1. pkt' # pkt
      OBVIOUS
    <3>2. Packet
      BY <3>1 DEF Next, Setup, Start, Attach, Unpin, Pin, Detach, xdp_prog_user, OpenTxPort, OpenParams, OpenRouter,
         OpenMapOf, WriteTxPort, write_iface_params, WriteRouterPorts
    <3> QED
      BY <3>2 DEF Packet, LookupParams, Router, Send
  <2>4. tx_port[pkt.maps][0] # pkt.dest
    <3>1. 0 \in Port
      BY IndexAssumption DEF Port
    <3>2. Delivery(pkt, 0, pkt.dest) \in {"no_port", "refused"}
      BY <2>3 DEF RedirectMap
    <3> QED
      BY <2>2, <3>1, <3>2, EnvAssumption DEF Delivery
  <2>5. PICK c, d \in setups[pkt.maps] : c # d
    BY <2>1, <2>4 DEF Inv, PacketInv, Once
  <2>6. IsFiniteSet(setups[pkt.maps])
    BY <2>1, <2>2 DEF Inv, SetupsFinite
  <2>7. Cardinality({c, d}) = 2 /\ {c, d} \subseteq setups[pkt.maps]
    <3>1. Cardinality({c}) = 1 /\ IsFiniteSet({c}) /\ d \notin {c} /\ {c} \cup {d} = {c, d}
      BY <2>5, FS_Singleton
    <3>2. Cardinality({c} \cup {d}) = Cardinality({c}) + 1
      BY <3>1, FS_AddElement
    <3> QED
      BY <2>5, <3>1, <3>2
  <2> QED
    BY <2>6, <2>7, FS_Subset, FS_CardinalityType
<1> QED
  BY <1>1, InvHolds, PTL DEF Spec, FirstSetupLosesNothing

(* xdp_prog_user --router: the ports that were set stay: a packet that is routed to an
   interface that was there then, with an index below 256, never finds its port missing. *)
THEOREM RouterFindsPorts == Spec => RouterHasPorts
<1>1. IInv /\ [Next]_vars =>
        [pkt.at = "arrived" /\ pkt'.at = "no_route"
           => pkt'.to \notin routed[pkt.maps] \/ IfIndex[pkt'.to] >= TxPorts]_vars
  <2> SUFFICES ASSUME IInv, Next, pkt.at = "arrived", pkt'.at = "no_route",
                      pkt'.to \in routed[pkt.maps]
               PROVE  IfIndex[pkt'.to] >= TxPorts
    BY DEF vars
  <2>1. PICK own \in Owners : Inv(own)
    BY DEF IInv
  <2>2. pkt.maps \in 1 .. MaxMaps
    BY <2>1, IndexAssumption DEF Inv, PacketMaps, OnItsWay, TypeOK
  <2>3. PICK e \in Env : Router(e)
    <3>1. pkt' # pkt
      OBVIOUS
    <3>2. Packet
      BY <3>1 DEF Next, Setup, Start, Attach, Unpin, Pin, Detach, xdp_prog_user, OpenTxPort, OpenParams, OpenRouter,
         OpenMapOf, WriteTxPort, write_iface_params, WriteRouterPorts
    <3> QED
      <4>1. ~LookupParams
        <5>1. CASE pkt' = [pkt EXCEPT !.at = "found", !.dest = params[pkt.maps].dest]
          <6>1. pkt'.at = "found"
            BY <5>1
          <6> QED
            BY <6>1
        <5> QED
          BY <5>1 DEF LookupParams
      <4>2. ~RedirectMap /\ \A e \in Env : \A src \in {e, Guest} : ~Send(e, src)
        BY DEF RedirectMap, Send
      <4> QED
        BY <3>2, <4>1, <4>2 DEF Packet
  <2>4. pkt'.to = e /\ Delivery(pkt, IfIndex[e], e) = "no_port"
    BY <2>3 DEF Router
  <2>5. IfIndex[e] \notin Port
    BY <2>1, <2>2, <2>4 DEF Delivery, Inv, RoutedInv
  <2> QED
    BY <2>4, <2>5, IndexAssumption DEF Port
<1> QED
  BY <1>1, InvHolds, PTL DEF Spec, RouterHasPorts
=============================================================================
