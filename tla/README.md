# TLA+ models of the spring-open demo scripts

This directory holds TLA+ models of the scripts under `src/`, the TLC configurations that
check them, and `PROJECT.json`, which maps every modelled definition to the source lines it
translates and lists the runs, mutants, findings and hazards.

## 1. Inventory

### The system

The code is made of demo and operations scripts for an ONOS SDN testbed:

| File | What it is |
|---|---|
| `src/sample/ONS2014demo/scripts/topology_rest.py` | The demo proxy. It is a Flask server run with `threaded=True`. It relays REST calls to the ONOS controllers (`get_json`, `pick_host`, the `/wm/onos/...` and `/proxy/gui/...` routes). It builds the GUI topology view (`topology_for_gui`, `shortest_path`, `query_switch`, `controller_status`). It runs demo commands through `os.popen` / `ssh`: link up/down, switch up/down, controller up/down, switchctrl, flow add/delete, iperf start/rate, reset and scale. |
| `src/web/simple_web_server.py` | A smaller proxy: it serves static files and relays `/wm/...` to the local controller (`rest`). |
| `src/scripts/get_network_graph.py` | A CLI. It curls switches or links once and prints the JSON. |
| `src/vm-utils/onos.py` | A Mininet `Controller` subclass. It starts and stops Zookeeper, Ramcloud, N ONOS instances and the REST server, and gives switches their controller proxies (`OVSSwitchONOS`, `waitConnected`). |
| `src/cluster-mgmt/mininet/start_topo.py` | A Mininet topology built from a config file. `ControllerCluster` gives each switch the controller list the config names for it. |

### Components, their state and operations

* **Config/Topology loader** (`read_config`, `read_link_def`). It reads `config.json` (LB,
  TESTBED, controllers, core_switches, GUI hosts) and `link.json` into process globals once
  at start. After that the state is read-only. This is pure I/O, so the content is given to
  the models as CONSTANTS.
* **Ownership resolver**. This is code repeated in `link_up_sw`, `link_down`, `iperf_start`
  and `iperf_rate`. A core switch goes to `controllers[0]`. Any other switch goes to
  `controllers[int(dpid.split(':')[-2]) - 1]`. It has no state. It is a pure function with
  Python's `int()` and list-indexing edge cases.
* **Controller client** (`get_json`, `pick_host`, the relays). It has no state of its own.
  It turns urlopen outcomes into `(code, body)`. `pick_host` picks a random controller
  when LB is set.
* **Query aggregator** (`topology_for_gui`, `shortest_path`, `query_switch`,
  `controller_status`). It makes three separate REST reads (switches, registry, links) and
  builds a view. The state read in one call is used after the next call.
* **Command dispatcher** (`link_up*`, `link_down`, `switch_status_change`,
  `controller_status_change`, `switch_controller_setting`, `add_flow`, `del_flow`,
  `iperf_start`, `iperf_rate`, `reset_demo`, `scale_demo`). The state it changes is outside
  the process: the controller's flow table, switch interfaces, controller processes and
  iperf logs on the hosts. The changes are made with popen/ssh, one call at a time.
* **ONOS lifecycle** (`onos.py`). It keeps a sequence of daemons started or stopped, the
  `proxies` list, and busy-wait loops.
* **Cluster topology builder** (`start_topo.py`). It builds the switch → controller-list
  map from the config.

### Interactions

The browser calls the proxy. Each request runs in its own thread, because Flask runs with
`threaded=True`. The proxy calls the ONOS REST API with urlopen. It runs remote scripts with
`os.popen("ssh host ...")` or local scripts. Requests share no memory. They do share the
controller's state (flows, topology, registry) and the testbed's state (interfaces,
processes, log files), and they read and write these with several separate calls.

### What is hard

* **Read-then-write across calls by concurrent threads.** `add_flow` allocates ids from a
  summary read earlier.
* **Several calls per request, each of which can fail on its own.** Examples are the two
  `add_flow.py` runs, the two `link.sh` runs, and the three reads of `topology_for_gui`.
* **Lookups that depend on the direction or format of external data.** Examples are the
  direction of `link.json` records and the digits of the dpid host field.
* **Error paths that do not return.** `topology_for_gui` goes on after a failed registry
  read. `iperf_rate` evaluates `exit` without calling it. `get_json`'s `except HTTPError`
  can never be reached.
* **Unbounded waits.** urlopen has no timeout. In `onos.py`, `waitStart` and
  `waitNetstat` loop forever.

### What makes each component correct

* **Ownership:** every switch resolves to the host the spec's rule names.
* **Flows:** no two installed entries share an id, and a new id is above every existing id.
* **Links:** after the last link command, the link is in the state that command asked for.
* **Aggregator:** INACTIVE switches show group 0, links to unknown switches are kept with
  index -1, and a failed read degrades the view rather than crashing the request.
* **Client:** an HTTP error keeps its code, and a transport error becomes 500 with an empty
  body.
* **Lifecycle:** `stop` after `start` stops everything, and every wait eventually ends.

## 2. Plan

Modules, in order of importance. `(done)` marks what exists now.

1. `FlowAlloc` (done). This is the `add_flow` / `del_flow` concurrency core, run against
   the controller flow table.
2. `Ownership` (done). These are pure operators, used by `LinkControl` and `Iperf`.
3. `LinkControl` (done). It covers link up/down on both testbeds. It EXTENDS `Ownership`.
4. `TopologyView` (done). It models the Query Aggregator (`topology_for_gui`,
   `shortest_path`, `query_switch`, `controller_status`), whose reads may each return
   anything the changing controller can give. It is shown to implement the abstract
   `TopologySnapshot` (done).
5. `ControllerClient` (done). It covers `get_json`, the five `/wm/onos` relays, the ten
   `/proxy/gui` relays and `simple_web_server.rest`, as outcome mappings.
6. `Iperf` (done). It composes `FlowAlloc` with iperf start/rate and the per-id server
   logs.
7. `OnosLifecycle` (done). It covers the script's main: `ONOS.start` / `stop`, the wait
   loops, the unchecked starts, `OVSSwitchONOS.start` and `waitConnected`.
8. `ClusterConfig` (done). It covers `start_topo.py`'s config checks and `net.start`.

All 12 runs are in use. The rest of the dispatcher is not modelled (section 4). A new
question needs a run that asks more than an existing one. One candidate is `stopONOS`
with 11 or more instances (section 3, OnosLifecycle). It would need a run of its own.

## 3. Modules and runs so far

### FlowAlloc (`FlowAlloc.tla`, `MCFlowAlloc.tla`)

| TLA+ | Code |
|---|---|
| `flows` | The controller's flow table, as a set of `[id, src, dst]` entries. |
| `pc`, `req`, `flowNr` | For each handler thread: where its `add_flow` is, its endpoints, and its local `flow_nr`. |
| `LastFlowId` | `parsedResult[-1]['flowId']`, or -1 for an empty summary. |
| `AddFlowFetch` | The `getsummary` read. |
| `AddFlowFwd` / `AddFlowRev` | The two `add_flow.py` runs. Either may fail, and neither failure is detected. |
| `DelFlow` | `delete_flow.py`. |

A failed summary read makes `json.loads("")` raise, so the request ends and nothing
changes. That is a stuttering step.

Properties:

* `DistinctFlowIds` (invariant). Besides the mapped code, the mutant that takes the first
  summary entry instead of the last also breaks it. That mutant stands for a summary that is
  not ordered by id (the hazard at line 843).
* `TypeOK`, which `Iperf`'s `ITypeOK` includes.

Runs:

* The serial case is checked on the composed model `Iperf` (below, run `iperf_serial`).
* `flow_threaded`: two threads. It finds `DistinctFlowIds` violated in 5 steps. Both
  threads fetch an empty summary and both install id 0.

Fairness: weak fairness on `AddFlowFwd`/`AddFlowRev` only. A handler thread that has
started runs its remaining popen calls. Nothing forces the GUI to send requests.

### Ownership (`Ownership.tla`)

* `ParseInt` is `int()` in base 10 of the two-character host field. It raises for hex
  letters.
* `PyIndex` is Python list indexing, negative indices included.
* `OwnerHost` is the resolution.

The module has no state. It is checked through the link and iperf runs that use it. An
owner index beyond the controller list raises IndexError where spec.md 4.2 wraps the index.
That is a pure-function divergence that a unit test reaches, so no run is spent on it.

### LinkControl (`LinkControl.tla`, `MCLinkControl.tla`)

| TLA+ | Code |
|---|---|
| `intf` | The up/down state of each switch interface `<<dpid, port>>`. |
| `GetLinkPorts` | `get_link_ports`. It matches in one direction only. |
| `LinkUpSwSrc` / `LinkUpSwDst` | The two iterations of `link_up_sw`. |
| `LinkUpHwSrc` / `LinkUpHwDst` | `link_up_hw`, with the wiring table as the constant `HwPorts`. |
| `LinkDown` | `link_down` on both testbeds. The source switch's owner is resolved first, on either testbed, so a dpid whose host field is not decimal raises before the hardware branch. |
| `testbed` | `TESTBED`, fixed for a run. |

`LinkSh` stands for the external `link.sh` / `link-hw.sh`. It sets the named interface,
and an unknown port changes nothing. Three history variables record what the code does
not keep:
* `last` holds the last request served to the end.
* `crossed` holds the threads whose link_up had a link_down of the same link land between
  its two calls.
* `lastCrossed` says whether that happened to the link_up that set `last`.

The topology is a triangle s1–s2–s3. s1 is core, and every switch has two links. Requests
name a link in either direction.

* `link_both` passes with 52,640 states. It uses two handler threads, as `threaded=True`
  allows, and checks `LinkMatchesLastUnlessOvertaken`. Once every thread is idle, the link
  of the last command is in the state that command asked for. The one exception is a
  link_up that a link_down of the same link overtook: the down ran between link_up's two
  `link.sh` calls, so link_up reports success on a half-down link. With two threads,
  the old single-thread property `LinkMatchesLastRequest` fails on exactly that
  interleaving. The new property shows it is the only one that breaks the guarantee. Both
  testbeds are checked in the same run: the testbed is a variable, chosen at Init from
  `Testbeds` and never changed, as `read_config` reads it once. link.json lists both
  directions.
* `link_oneway` (link.json listing each link once) violates `LinkMatchesLastRequest`.
  `link_up` misses one end whichever direction it names the link in. In the listed
  direction, the destination's lookup `get_link_ports(dst, src)` misses. In the other
  direction, the source's lookup misses. The missed end gets port -1 and stays down.

The code provides no ordering between concurrent link commands, and the spec promises
none. That is why the overtaken link_up is named as an exception and not reported as a
finding.

### TopologyView (`TopologyView.tla`, `MCTopologyView.tla`)

| TLA+ | Code |
|---|---|
| `phase` | Which handler is running (`topology_for_gui`, `shortest_path`, `query_switch` or `controller_status`) and which of its reads comes next. |
| `nodes` | The `switches` list being built, as switch → `group`. A switch's list position is abstracted to the switch itself. |
| `path` | `shortest_path`'s list of `(sdpid, ddpid)` pairs. |
| `failed`, `snap` | History: the reads that failed and what each read returned. |
| `resp` | The response just sent: kind, status, the nodes and the `body` list it carries. It is `NoResp` while a request is in flight. |
| `TopoReadSwitches` / `TopoReadRegistry` / `TopoReadLinks` | The three `try` blocks of `topology_for_gui` and the loops after them. |
| `PathReadSwitches` / `PathReadRoute` / `PathReadLinks` | The same for `shortest_path`. |
| `QuerySwitch` | `query_switch`: one switches read; the ACTIVE switches are answered. |
| `ControllerStatus` | `controller_status`: one registry read; each configured controller gets onos 1 when the registry lists it. |
| `RegistryGroups`, `NodeId`, `RoutePath`, `RouteCrashes`, `OnPath` | The registry loop, `node_id`, the hop loop and the on-path test. |

The controller's topology changes between the calls (spec.md 4.4). Each read is therefore
a free choice among the answers the controller can give: any state for each switch, any
master, any set of links, any simple route. The read may also fail. A failed read returns
`(500, "")` from `get_json`, and `json.loads("")` then raises. The handler's `except`
branch decides what follows:

* `return`, so Flask answers 500.
* Fall through, at the registry read.
* Empty path, at the route read.

Properties:

* `ViewMatchesSpec`: a 200 view of `topology_for_gui` lists exactly the switches of the
  first read. INACTIVE switches show group 0, even when the registry names a master.
  Registered ACTIVE switches show their master's position + 1. Every link of the last read
  is kept, with -1 for ends missing from the first read.
* `SnapshotRefinement`: the handlers implement `TopologySnapshot`, the abstract
  aggregator of spec.md 4.4 and 7. In it every request gets one answer, built in one step
  from the controller answers it shows (`shown.snap`), or a 500. The promises are:
  * a topology view keeps INACTIVE switches at group 0 and registered masters at
    position + 1;
  * a path view flags on-path only links that join consecutive route hops in their own
    direction;
  * both keep every reported link, with unknown ends shown as `NotFound`;
  * the switch list holds exactly the ACTIVE switches;
  * the controller status has one entry per configured controller.

  The refinement mapping `Shown` turns `resp` into `shown`:
  * no response maps to the abstract pending state;
  * a 200 response maps to its nodes, body and reads, with `regOk` set when the registry
    read did not fail;
  * any other response maps to a refusal.

  The reads in between are stuttering steps of the abstract spec. The check therefore
  covers every interleaving of the controller's changes with the handlers' reads.

Runs:

* `topo_view` passes with 60,932 states. It has three switches with dpid letters a, b and
  another, two controllers, and all six directed links. It checks `ViewMatchesSpec` and
  `SnapshotRefinement`.
* `topo_registry` finds `RegistryFailureTolerated` violated. A failed registry read with a
  non-empty switch list ends in 500, because the except branch at 389-391 falls through
  to a loop over the switch list.
* `path_route` finds `OnPathExact` violated. A one-hop route gives 500 although all reads
  succeed, because the loop at 480 runs over the three keys of the route object. A route
  of four or more switches would be truncated for the same reason. The three-switch bound
  shows the crash but not the truncation.

Bounds: three switches are enough for an INACTIVE switch, a registered ACTIVE switch, a
dangling link end and both route lengths (crashing and exact) to occur together. No
fairness is assumed. The properties are invariants on the response.

### ControllerClient (`ControllerClient.tla`, `MCControllerClient.tla`)

These are pure operators, like `Ownership`.

* An upstream call ends with a body, an HTTP error status or a transport failure
  (`Outcomes`).
* `GetJson` is `get_json`. Its `except URLError` comes first and also catches
  `HTTPError`, a subclass of it, so every failure becomes `(500, "")`.
* `Relay` is the five `/wm/onos` relays: `Response(result, status=code)`.
* `GuiRelay` is the ten `/proxy/gui` relays (lines 117-247). Each makes one urlopen
  with a bare `except`. It answers status 200 with the body, or with an empty body on any
  failure.
* `SimpleRest` is `simple_web_server.rest`. After a caught failure it reads the unbound
  `response` and raises, so Flask sends its error page with 500.
* `pick_host`'s choice of host does not change how an outcome becomes an answer, so it is
  left out.

`client_spec` checks `ClientMatchesSpec` against spec.md 4.3: HTTP errors keep their
code, transport failures become 500, and every failure has an empty body. spec.md 6
says the same for the `/proxy/gui` relays. It is violated by an upstream 404, which every
relay gets wrong. The `/wm/onos` relays answer 500, `simple_web_server` answers with
Flask's error page, and the `/proxy/gui` relays answer 200.

### Iperf (`Iperf.tla`, `MCIperf.tla`)

`Iperf` EXTENDS `FlowAlloc` and `Ownership`. The flow endpoints are switch dpids, and
`IperfHost` is the host resolution of `iperf_start` / `iperf_rate`, including the hw
testbed's `mininet<hostid>`.

| TLA+ | Code |
|---|---|
| `logs` | The `iperfsvr_<id>.out` files on the hosts, as `[host, id]`. |
| `measured` | History: the ids whose current flow has had a server started. |
| `rate` | The answer of the `iperf_rate` just served. |
| `FlowStep`, `FlowDelete` | `add_flow`'s steps and `del_flow`. A delete leaves the logs on the hosts. |
| `IperfStart` | `iperf_start`: the flow read, host resolution, and the server's ssh, which may fail. |
| `IperfRate` | `iperf_rate`: no flow, error (failed read, unresolvable host, failed log fetch), log, or the "Cannot" text (not ready). |

Runs:

* `iperf_serial` passes with 493,824 states. It has one thread, two edge switches owned by
  different controllers, and ids up to 3. It checks `ITypeOK` and `DistinctFlowIds` on the
  composed system.
* `iperf_stale` finds `IperfRateFresh` violated in 10 states, in this order:
  1. An `add_flow` installs the forward entry, id 0. The reverse install fails, and the
     request ends there.
  2. iperf is started on flow 0.
  3. Flow 0 is deleted. Its log stays on the host.
  4. The next `add_flow` reuses ids 0 and 1, and both installs succeed.
  5. `iperf_rate 0` serves the deleted flow's log.

### OnosLifecycle (`OnosLifecycle.tla`, `MCOnosLifecycle.tla`)

| TLA+ | Code |
|---|---|
| `pc`, `cur`, `i` | Where `start` / `stop` is: the daemon being started, and the id the ONOS loop is at. |
| `dmn` | Zookeeper, rc-coord and rc-server: off, running (visible to pgrep), listening, or dead. |
| `onos`, `rest` | The ONOS instances and the REST server. Their starts are unchecked. |
| `ramcloud` | Whether `self.ramcloud` has been assigned. |
| `proxies` | `self.proxies`. |
| `sw`, `j` | The Mininet switches (off, started, connected) and the switch `net.start` / `waitConnected` is at. |
| `Check` | `ONOS.__init__`'s `check()`: a missing java, `onos.sh` or `start-rest.sh` raises before anything starts. |
| `Launch`, `WaitStart`, `WaitNetstat`, `Status` | Launch script and exit-code check, the pgrep loop, the netstat loop, and the status check, for each daemon in turn. |
| `StartOnos` | `startONOS` for each id, then `start-rest.sh` and the proxies. |
| `StopRest` … `StopProxies` | The steps of `stop`, in the code's order. |
| `JpsPids`, `GrepMatches` | `stopONOS`'s `jps -v \| grep mn-onos-id=<id>`: a substring match, so id 1 also matches ids 10..19. `StopOnos` kills only the first pid listed, because the other pids sit on later lines of the `kill` command and the shell runs them as commands. |
| `SwitchStart` | `OVSSwitchONOS.start` for each switch, in order, after `ONOS.start`. |
| `WaitConnected` | `waitConnected`: it polls each switch in turn until OVS reports it connected. |
| `SwitchConnects` | OVS connecting a started switch through one of `self.proxies` whose ONOS instance listens. |
| `DaemonListens`, `DaemonDies` | The daemons acting on their own. |

Fairness:

* Weak fairness on the controller's steps. Mininet's thread runs start and stop through,
  and only a wait loop blocks it.
* Weak fairness on a running daemon starting to listen. A daemon that does not die comes
  up.
* Weak fairness on `SwitchConnects` for each switch. OVS keeps retrying the controllers it
  was given, so a started switch with a listening ONOS instance behind one of its proxies
  connects.
* Nothing forces `stop` to be called, and nothing forces a daemon to die.

Runs:

* `onos_lifecycle` passes with 685 states, for `n=2` as in onos.py's own test, and two
  switches. It checks three properties:
  * `StopStopsAll`: after `stop`, nothing `start` launched is left running, whichever
    unchecked starts failed.
  * `StartEndsUnlessDaemonDies`.
  * `WaitConnectedEnds`: `waitConnected` returns unless every ONOS instance failed its
    unchecked start. If every instance failed, it polls for ever.
  `CHECK_DEADLOCK FALSE` is used because a stopped or failed controller does nothing more.
* `onos_hang` finds `StartEnds` violated. zk is launched and `echo $?` reports 0. It
  dies before pgrep sees it, so `waitStart`'s loop polls for ever: its `maxWait` is never
  used.

spec.md does not describe onos.py. These properties come from the code's own intent: the
`maxWait` parameter, the exception raised for a failed start, and `stop`'s clean-up.
The property and config files and the exports are folded into one `Setup` step, because
no later step reads them.

`stopONOS` can fail with 11 or more instances (`mn --controller onos,11`). With N = 11,
TLC finds `StopStopsAll` violated: `stopONOS(1)` may kill instance 10, `stopONOS(10)`
then finds nothing, and instance 1 is left running. The runs check n = 2, the script's
own value, where the match is exact. This case is a hazard in PROJECT.json; no run slot
is left for it.

### ClusterConfig (`ClusterConfig.tla`, `MCClusterConfig.tla`)

| TLA+ | Code |
|---|---|
| `LoadConfig` | The module-level checks run first. When the user is not root, there is more than one argument, or `-h` is given, the script prints the usage and exits with 0. A missing config file ends it with exit 1, or with a NameError on `default_topo` when the file was named on the command line. Otherwise the file is exec'd and `createTopo()` runs. |
| `conf` | The dict `createTopo()` returns. `Configs` enumerates every config with two switches, one host, up to two controllers and one link. Each name is plain or padded with whitespace. |
| `nmap`, `cmap`, `clistMap` | `ConfigTopo`'s node map, and `ControllerCluster`'s controller map and `sw_clist_map`. |
| `k`, `started` | `net.start`'s position in the sorted switch list, and the switches started so far with their controller lists. |
| `ConfigTopo` | Nodes are stored under their stripped names. Link ends are looked up as written. |
| `ControllerCluster` | Controllers are stored stripped. Each switch's controller is looked up as written. The lists are keyed by the switch key as written. |
| `StartSwitch` | `ClusterConnectedSwitch.start` asks for `clist(self.name)` with the stripped name. |

A lookup that misses raises KeyError, and the script ends in `Failed`.
`cluster_late` finds `ConfigErrorAtLoad` violated. spec.md 7 says a config error is fatal
at load. Here is how it goes:

1. s2's key is padded.
2. ConfigTopo and ControllerCluster accept the config.
3. s1 starts.
4. `clist("s2")` raises KeyError.

The trace's link happens to join s1 to itself. That is incidental: TLC picks the first
config it reaches, and the KeyError comes from s2's padded key whatever the link is.
The script never calls `net.stop`, so s1 is left running. `CHECK_DEADLOCK FALSE` is used
because a failed or running script takes no more steps.

## 4. Not modelled, and why

* Static file serving (`return_file`), `get_network_graph.py` (one curl, then a print)
  and `read_config` / `read_link_def`. These are I/O with no state that a model checker
  can say anything about. The content of the config files is given to the models as
  CONSTANTS.
* The rest of the dispatcher: controller up/down, switchctrl, switch up/down, reset and
  scale. Each builds a command string from `TESTBED` and runs one or two popen calls.
  The effect of those calls lives in scripts outside the repository. No state of the
  proxy changes, and no answer depends on another request. A model would only restate
  the command table. The unbound `ret` for an unknown command is a single-call error
  that a unit test reaches.
* `switch_stat` returns constant fake statistics.
* `ControllerCluster.start` / `stop` in `start_topo.py` do nothing.
* `read_config` and `read_link_def` already agree with spec.md 6. A missing or malformed
  config raises at start. An unreadable link file ends the proxy with `sys.exit(1)`.
  There is nothing left for a model to find.
* `get_network_graph.py` is not covered by spec.md. It reads switches and links with two
  separate curls, so its output can be inconsistent in the same way as
  `topology_for_gui`'s, but nothing promises otherwise.
* The proxy keeps no state of its own. A crash of the proxy between `add_flow`'s two
  popen calls therefore looks the same as a failed second install, which `FlowAlloc`
  already models. A restart of `onos.py` after an interrupted run would start next to
  daemons left from that run. What `onos.sh` then does is not in the repository.
* Flow ids are parsed as hexadecimal from the summary and written in decimal to
  `add_flow.py`. The log names that `runiperf.sh` writes are chosen outside the
  repository. The model takes the ids to be consistent.

With these left out, every operation of the five scripts that changes state is an
action of some module. All 12 runs are in use. One question still without a run is
`stopONOS` with 11 or more instances (see OnosLifecycle above).
