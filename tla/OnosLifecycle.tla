----------------------------- MODULE OnosLifecycle -----------------------------
(***************************************************************************)
(* The ONOS Mininet controller of onos.py: ONOS.start and ONOS.stop.       *)
(*                                                                         *)
(* start runs, in order: Zookeeper, then Ramcloud's coord and server       *)
(* daemons (each launched, waited for with pgrep (waitStart) and netstat   *)
(* (waitNetstat), then its status checked), then every ONOS instance, the  *)
(* REST server, and the list of controller proxies.  stop undoes them in   *)
(* the reverse kind of order.  The daemons run on their own: a launched    *)
(* daemon becomes visible to pgrep at once, listens some time later, and   *)
(* may die.  Output, file and environment set-up (genProperties,           *)
(* genConfig, setVarsLocal) change no state the properties look at.       *)
(*                                                                         *)
(* The script's main runs, as Mininet's net.start, ONOS.start and then    *)
(* OVSSwitchONOS.start for each switch of LinearTopo(Size), which hands    *)
(* the switch the proxies list; then waitConnected polls each switch until *)
(* it is connected, the CLI runs, and net.stop calls ONOS.stop.  A switch  *)
(* connects, on its own, once one ONOS instance it was given listens.      *)
(***************************************************************************)
EXTENDS Naturals, Sequences

CONSTANTS
    N,     \* ONOS(n=N): the number of ONOS instances
    Size   \* LinearTopo(size): the number of switches

Ids == 0..N-1
Daemons == <<"zk", "coord", "server">>   \* the order start launches them in
Sws == 1..Size

VARIABLES
    pc,        \* where ONOS.start / ONOS.stop is
    cur,       \* index in Daemons of the daemon being started
    i,         \* the id of the ONOS instance the current loop is at
    dmn,       \* each daemon: "off", "running", "listening" or "dead"
    onos,      \* each ONOS instance: "off" or "listening"
    rest,      \* the REST server: "off" or "listening"
    ramcloud,  \* whether self.ramcloud has been assigned
    proxies,   \* the ids in self.proxies, and whether each was stopped
    sw,        \* each switch: "off", "started" (with the proxies) or "connected"
    j          \* the switch net.start or waitConnected is at

vars == <<pc, cur, i, dmn, onos, rest, ramcloud, proxies, sw, j>>

DaemonNames == {Daemons[k] : k \in 1..Len(Daemons)}
Alive == {"running", "listening"}

Init ==
    /\ pc = "Check"
    /\ cur = 1
    /\ i = 0
    /\ dmn = [d \in DaemonNames |-> "off"]
    /\ onos = [x \in Ids |-> "off"]
    /\ rest = "off"
    /\ ramcloud = FALSE
    /\ proxies = <<>>
    /\ sw = [s \in Sws |-> "off"]
    /\ j = 1

-----------------------------------------------------------------------------
(* ONOS.__init__, run when Mininet builds the network: check() raises when *)
(* "which java" finds nothing or onos.sh or start-rest.sh is missing from  *)
(* onosDir, and the script ends before anything is started.  The failed    *)
(* privilege drop is only a warning.                                       *)
Check ==
    /\ pc = "Check"
    /\ pc' \in {"Setup", "Raised"}
    /\ UNCHANGED <<sw, j, cur, i, dmn, onos, rest, ramcloud, proxies>>

(* setVarsGlobal and setupONOS for every id: files and exports only.      *)
Setup ==
    /\ pc = "Setup"
    /\ pc' = "Launch"
    /\ UNCHANGED <<sw, j, cur, i, dmn, onos, rest, ramcloud, proxies>>

(* "onos.sh zk start" / "onos.sh rc-<d> start", then waitStart's check of *)
(* "echo $?": a non-zero exit code raises.                                 *)
Launch ==
    /\ pc = "Launch"
    /\ \/ /\ dmn' = [dmn EXCEPT ![Daemons[cur]] = "running"]
          /\ pc' = "WaitStart"
       \/ /\ pc' = "Raised"
          /\ UNCHANGED dmn
    /\ UNCHANGED <<sw, j, cur, i, onos, rest, ramcloud, proxies>>

(* Mutant of PgrepFinds: a pattern that matches no process.               *)
PgrepFindsNothing(d) == FALSE

(* "pgrep -f <pattern>" finds the daemon while its process exists.        *)
PgrepFinds(d) == dmn[d] \in Alive

(* waitStart's loop: it ends when pgrep finds the daemon; maxWait is not  *)
(* used, so otherwise it polls for ever.                                   *)
WaitStart ==
    /\ pc = "WaitStart"
    /\ PgrepFinds(Daemons[cur])
    /\ pc' = "WaitNetstat"
    /\ UNCHANGED <<sw, j, cur, i, dmn, onos, rest, ramcloud, proxies>>

(* waitNetstat's loop: it ends when the pid listens on a port.            *)
WaitNetstat ==
    /\ pc = "WaitNetstat"
    /\ dmn[Daemons[cur]] = "listening"
    /\ pc' = "Status"
    /\ UNCHANGED <<sw, j, cur, i, dmn, onos, rest, ramcloud, proxies>>

(* "onos.sh ... status": a dead daemon reports an error and start raises. *)
(* After Zookeeper, startRamcloud's loop goes on to coord and server, and  *)
(* assigns self.ramcloud after both; then the ONOS loop starts at id 0.    *)
Status ==
    /\ pc = "Status"
    /\ IF dmn[Daemons[cur]] = "dead"
       THEN pc' = "Raised" /\ UNCHANGED <<cur, ramcloud>>
       ELSE IF cur < Len(Daemons)
       THEN pc' = "Launch" /\ cur' = cur + 1 /\ UNCHANGED ramcloud
       ELSE pc' = "StartOnos" /\ ramcloud' = TRUE /\ UNCHANGED cur
    /\ UNCHANGED <<sw, j, i, dmn, onos, rest, proxies>>

(* startONOS(i): stopONOS(i), then "onos.sh core unchecked-start", whose   *)
(* failure nobody checks.  After the last id: "start-rest.sh start"        *)
(* (unchecked) and one RemoteController proxy per id.                      *)
StartOnos ==
    /\ pc = "StartOnos"
    /\ \E st \in {"listening", "off"} : onos' = [onos EXCEPT ![i] = st]
    /\ IF i < N - 1
       THEN i' = i + 1 /\ UNCHANGED <<pc, rest, proxies>>
       ELSE /\ i' = 0
            /\ \E st \in {"listening", "off"} : rest' = st
            /\ proxies' = [x \in Ids |-> "active"]
            /\ pc' = "Running"
    /\ UNCHANGED <<sw, j, cur, dmn, ramcloud>>
(* net.start, after the controller: OVSSwitchONOS.start for switch j     *)
(* asserts its one controller is the ONOS object and starts OVS with       *)
(* c0.clist(), the proxies.  Then main calls waitConnected.                *)
SwitchStart ==
    /\ pc = "Running"
    /\ sw' = [sw EXCEPT ![j] = "started"]
    /\ IF j < Size THEN j' = j + 1 /\ UNCHANGED pc
                    ELSE j' = 1 /\ pc' = "WaitConnected"
    /\ UNCHANGED <<cur, i, dmn, onos, rest, ramcloud, proxies>>

(* waitConnected: "while not s.connected(): sleep(1)" for each switch in   *)
(* turn, with no bound; after the last one main enters the CLI.            *)
WaitConnected ==
    /\ pc = "WaitConnected"
    /\ sw[j] = "connected"
    /\ IF j < Size THEN j' = j + 1 /\ UNCHANGED pc
                    ELSE j' = 1 /\ pc' = "CLI"
    /\ UNCHANGED <<sw, cur, i, dmn, onos, rest, ramcloud, proxies>>

-----------------------------------------------------------------------------
(* stop: "start-rest.sh stop".  Mininet's net.stop calls it when the CLI   *)
(* is left.                                                                *)
StopRest ==
    /\ pc = "CLI"
    /\ rest' = "off"
    /\ pc' = "StopOnos"
    /\ UNCHANGED <<sw, j, cur, i, dmn, onos, ramcloud, proxies>>

(* "jps -v | grep mn-onos-id=<id>": the grep matches every instance whose *)
(* id has the digits of id as a prefix (1 matches 1 and 10..19).           *)
RECURSIVE DecimalPrefixes(_)
DecimalPrefixes(x) == IF x < 10 THEN {x} ELSE {x} \cup DecimalPrefixes(x \div 10)
GrepMatches(id, x) == id \in DecimalPrefixes(x)
JpsPids(id) == {x \in Ids : onos[x] = "listening" /\ GrepMatches(id, x)}

(* Mutant of StopOnos: the loop ends one id early.                         *)
StopOnosSkipLast ==
    /\ pc = "StopOnos"
    /\ \/ (i = N - 1 \/ JpsPids(i) = {}) /\ UNCHANGED onos
       \/ i < N - 1 /\ \E x \in JpsPids(i) : onos' = [onos EXCEPT ![x] = "off"]
    /\ IF i < N - 1
       THEN i' = i + 1 /\ UNCHANGED pc
       ELSE i' = 0 /\ pc' = "StopZk"
    /\ UNCHANGED <<sw, j, cur, dmn, rest, ramcloud, proxies>>

(* stopONOS(i): "kill <pids>" with the pids jps lists, one per line, in   *)
(* jps's order: the shell kills the first and runs the other lines as      *)
(* commands of their own, which fail.                                      *)
StopOnos ==
    /\ pc = "StopOnos"
    /\ \/ JpsPids(i) = {} /\ UNCHANGED onos
       \/ \E x \in JpsPids(i) : onos' = [onos EXCEPT ![x] = "off"]
    /\ IF i < N - 1
       THEN i' = i + 1 /\ UNCHANGED pc
       ELSE i' = 0 /\ pc' = "StopZk"
    /\ UNCHANGED <<sw, j, cur, dmn, rest, ramcloud, proxies>>

(* stopZookeeper: "onos.sh zk stop".                                       *)
StopZk ==
    /\ pc = "StopZk"
    /\ dmn' = [dmn EXCEPT !["zk"] = "off"]
    /\ pc' = "StopRamcloud"
    /\ UNCHANGED <<sw, j, cur, i, onos, rest, ramcloud, proxies>>

(* stopRamcloud: rc-coord and rc-server stopped through self.ramcloud,    *)
(* which raises AttributeError when startRamcloud never assigned it.       *)
StopRamcloud ==
    /\ pc = "StopRamcloud"
    /\ IF ramcloud
       THEN /\ dmn' = [d \in DaemonNames |-> IF d = "zk" THEN dmn[d] ELSE "off"]
            /\ pc' = "StopProxies"
       ELSE pc' = "Raised" /\ UNCHANGED dmn
    /\ UNCHANGED <<sw, j, cur, i, onos, rest, ramcloud, proxies>>

(* "for p in self.proxies: p.stop()", then "p.proxies = []": a NameError  *)
(* when the list is empty, else an attribute of the last proxy is set and  *)
(* self.proxies keeps the stopped proxies.                                 *)
StopProxies ==
    /\ pc = "StopProxies"
    /\ proxies' = [x \in DOMAIN proxies |-> "stopped"]
    /\ pc' = IF DOMAIN proxies = {} THEN "Raised" ELSE "Stopped"
    /\ UNCHANGED <<sw, j, cur, i, dmn, onos, rest, ramcloud>>

-----------------------------------------------------------------------------
(* The daemons, on their own: a running daemon starts listening, and a    *)
(* live daemon may die.                                                    *)
DaemonListens(d) ==
    /\ dmn[d] = "running"
    /\ dmn' = [dmn EXCEPT ![d] = "listening"]
    /\ UNCHANGED <<sw, j, pc, cur, i, onos, rest, ramcloud, proxies>>

(* Mutant of SwitchConnects: the switch is only given the first proxy.  *)
ConnectsViaFirstProxy(s) ==
    /\ sw[s] = "started"
    /\ proxies[0] = "active" /\ onos[0] = "listening"
    /\ sw' = [sw EXCEPT ![s] = "connected"]
    /\ UNCHANGED <<pc, cur, i, dmn, onos, rest, ramcloud, proxies, j>>

(* A started switch connects to one of the controllers in its list once  *)
(* that ONOS instance listens on its OpenFlow port (ofbase + id).          *)
SwitchConnects(s) ==
    /\ sw[s] = "started"
    /\ \E x \in DOMAIN proxies : proxies[x] = "active" /\ onos[x] = "listening"
    /\ sw' = [sw EXCEPT ![s] = "connected"]
    /\ UNCHANGED <<pc, cur, i, dmn, onos, rest, ramcloud, proxies, j>>

DaemonDies(d) ==
    /\ dmn[d] \in Alive
    /\ dmn' = [dmn EXCEPT ![d] = "dead"]
    /\ UNCHANGED <<sw, j, pc, cur, i, onos, rest, ramcloud, proxies>>

(* The steps of start and stop, run one after another by Mininet's thread. *)
Controller ==
    \/ Check \/ Setup \/ Launch \/ WaitStart \/ WaitNetstat \/ Status \/ StartOnos
    \/ SwitchStart \/ WaitConnected
    \/ StopOnos \/ StopZk \/ StopRamcloud \/ StopProxies

Next ==
    \/ Controller \/ StopRest
    \/ \E d \in DaemonNames : DaemonListens(d) \/ DaemonDies(d)
    \/ \E s \in Sws : SwitchConnects(s)

(* Mininet's thread runs start and stop to their end unless it blocks in a *)
(* wait loop; a running daemon goes on to listen, and OVS keeps retrying   *)
(* the controllers of a started switch.  Nothing forces the CLI to be left *)
(* and stop to be called.                                                  *)
Spec == Init /\ [][Next]_vars
        /\ WF_vars(Controller)
        /\ \A d \in DaemonNames : WF_vars(DaemonListens(d))
        /\ \A s \in Sws : WF_vars(SwitchConnects(s))

-----------------------------------------------------------------------------
(* Once stop has returned, nothing start launched is left running: every  *)
(* daemon, every ONOS instance and the REST server are down and every      *)
(* proxy was stopped, for every outcome of the unchecked starts.           *)
StopStopsAll ==
    pc = "Stopped" =>
        /\ rest = "off"
        /\ \A x \in Ids : onos[x] = "off"
        /\ \A d \in DaemonNames : dmn[d] \notin Alive
        /\ \A x \in DOMAIN proxies : proxies[x] = "stopped"

(* ONOS.start returns or raises: its wait loops end.                       *)
StartEnds ==
    pc = "Setup" ~> pc \in {"Running", "Raised"}

(* ONOS.start returns or raises unless one of its daemons dies: a daemon  *)
(* that keeps running ends every wait loop.                                *)
StartEndsUnlessDaemonDies ==
    pc = "Setup" ~> (pc \in {"Running", "Raised"} \/ \E d \in DaemonNames : dmn[d] = "dead")

(* waitConnected returns, and main reaches the CLI, unless every          *)
(* "onos.sh core unchecked-start" failed: each switch was given all the    *)
(* proxies, so one listening ONOS instance connects them all; with none,   *)
(* the loop polls for ever.                                                *)
WaitConnectedEnds ==
    pc = "WaitConnected" ~> (pc = "CLI" \/ \A x \in Ids : onos[x] = "off")
====
