---------------------------- MODULE TopologyView -----------------------------
(***************************************************************************)
(* The topology views the demo proxy builds for the GUI                    *)
(* (topology_rest.py: topology_for_gui, shortest_path, query_switch,       *)
(* controller_status, node_id, get_json).                                  *)
(*                                                                         *)
(* A view is built from separate REST reads of the local controller:      *)
(* switches, then the registry (topology_for_gui) or a route              *)
(* (shortest_path), then links; query_switch and controller_status make   *)
(* one read each.  The controller's topology changes        *)
(* between the reads, so each read may return any answer the controller   *)
(* could give, independently of the others.  A failed read gives get_json's (500, ""), and       *)
(* json.loads("") raises.  The list position of a switch in the view is    *)
(* abstracted to the switch itself; node_id's -1 stays -1.                 *)
(***************************************************************************)
EXTENDS Integers, Sequences, FiniteSets, Functions

CONSTANTS
    Switches,     \* dpids the controller may report
    Controllers,  \* config.json "controllers" (a sequence)
    LinkSet,      \* directed links <<src, dst>> the controller may report
    DpidLetter,   \* [switch -> the character dpid[-2:-1]]
    RouteKeys     \* number of keys of the route object returned by
                  \* /wm/onos/topology/route (srcPort, dstPort, flowEntries)

VARIABLES
    phase,   \* the request being served and its next read
    nodes,   \* the view's switches: switch -> group
    path,    \* shortest_path: hop pairs (sdpid, ddpid) read from the route
    failed,  \* reads of this request that failed
    snap,    \* what each read returned (history, for the properties)
    resp     \* the response just sent; NoResp while a request is served

vars == <<phase, nodes, path, failed, snap, resp>>

NoCtrl == "noctrl"
NoGroup == -2   \* shortest_path leaves 'group' unset
NotFound == -1
Groups == (-1..Len(Controllers)) \cup (0..3) \cup {NoGroup}

(* Answers of /wm/onos/topology/switches, /wm/onos/registry/switches/json, *)
(* /wm/onos/topology/links.                                                *)
SwitchReads == [Switches -> {"ACTIVE", "INACTIVE", "absent"}]
RegistryReads == [Switches -> Range(Controllers) \cup {NoCtrl}]
LinkReads == SUBSET LinkSet
(* Answers of /wm/onos/registry/controllers/json: the controllers with an *)
(* ONOS instance registered.                                               *)
ControllerReads == SUBSET Range(Controllers)

(* Answers of /wm/onos/topology/route: simple paths over LinkSet.         *)
Routes ==
    {p \in UNION {[1..n -> Switches] : n \in 2..Cardinality(Switches)} :
        /\ IsInjective(p)
        /\ \A i \in 1..Len(p) - 1 : <<p[i], p[i + 1]>> \in LinkSet}

Hops(route) == {<<route[i], route[i + 1]>> : i \in 1..Len(route) - 1}

(* controllers.index(ctrl) + 1: the 1-based position in the list.         *)
IndexOf(c) == CHOOSE i \in 1..Len(Controllers) : Controllers[i] = c

(* node_id: the switch itself when it is in the view, else -1.           *)
NodeId(s) == IF s \in DOMAIN nodes THEN s ELSE NotFound

(* shortest_path's loop "for i, v in enumerate(parsedResult): if i <      *)
(* len(parsedResult) - 1" runs over the keys of the route object, reading  *)
(* flowEntries[i] and flowEntries[i+1]: it reads RouteKeys - 1 hop pairs,  *)
(* and raises IndexError when the route has fewer than RouteKeys entries.  *)
RouteCrashes(route) == route # <<>> /\ Len(route) < RouteKeys
RoutePath(route) ==
    IF route = <<>> THEN {}
    ELSE {<<route[i], route[i + 1]>> : i \in 1..RouteKeys - 1}

NoSnap == [sw |-> <<>>, reg |-> <<>>, route |-> <<>>, lnk |-> {}, ctl |-> {}]
NoResp == [kind |-> "none"]

Init ==
    /\ phase = "Idle"
    /\ nodes = <<>>
    /\ path = {}
    /\ failed = {}
    /\ snap = NoSnap
    /\ resp = NoResp

-----------------------------------------------------------------------------
(* A response of the handler: its nodes and the list in its body (links, *)
(* switches or controller statuses); a failed one carries no view.        *)
Answer(kind, status, body) ==
    [kind |-> kind, status |-> status, failed |-> failed', nodes |-> nodes',
     body |-> body, snap |-> snap']
Fail500(kind) == resp' = Answer(kind, 500, <<>>)

(* Mutant of RegistryGroups: the registry overrides every group.          *)
RegistryGroupsAll(view, reg) ==
    [s \in DOMAIN view |-> IF reg[s] # NoCtrl THEN IndexOf(reg[s]) ELSE view[s]]

(* topology_for_gui's registry loop: every registered switch that is in   *)
(* the view (node_id # -1) and whose group is not 0 gets                   *)
(* controllers.index(ctrl) + 1.                                            *)
RegistryGroups(view, reg) ==
    [s \in DOMAIN view |->
        IF reg[s] # NoCtrl /\ view[s] # 0 THEN IndexOf(reg[s]) ELSE view[s]]

(* Mutant of OnPath: a link matched against a hop in either direction.    *)
OnPathEitherDirection(l, hops) ==
    IF l \in hops \/ <<l[2], l[1]>> \in hops THEN 1 ELSE 0

(* shortest_path's onpath: 1 when (src-switch, dst-switch) is a hop pair. *)
OnPath(l, hops) == IF l \in hops THEN 1 ELSE 0

(* topology_for_gui, first read: the switch list.  Every listed switch    *)
(* gets group -1, or 0 when INACTIVE.  On failure the handler returns     *)
(* None and Flask answers 500.                                             *)
TopoReadSwitches ==
    /\ phase = "Idle"
    /\ UNCHANGED path
    /\ \/ \E sw \in SwitchReads :
          /\ snap' = [NoSnap EXCEPT !.sw = sw]
          /\ failed' = {}
          /\ nodes' = [s \in {x \in Switches : sw[x] # "absent"} |->
                         IF sw[s] = "INACTIVE" THEN 0 ELSE -1]
          /\ phase' = "TopoRegistry"
          /\ resp' = NoResp
       \/ /\ snap' = NoSnap
          /\ failed' = {"switches"}
          /\ nodes' = <<>>
          /\ phase' = "Idle"
          /\ Fail500("topo")

(* Second read: the registry.  When the read fails the except branch only *)
(* logs: the loop then runs over the switch list still in parsedResult,   *)
(* and parsedResult[key] with a dict key raises TypeError unless that      *)
(* list is empty.                                                          *)
TopoReadRegistry ==
    /\ phase = "TopoRegistry"
    /\ UNCHANGED path
    /\ \/ \E reg \in RegistryReads :
          /\ snap' = [snap EXCEPT !.reg = reg]
          /\ nodes' = RegistryGroups(nodes, reg)
          /\ phase' = "TopoLinks"
          /\ UNCHANGED <<failed, resp>>
       \/ /\ failed' = failed \cup {"registry"}
          /\ UNCHANGED <<nodes, snap>>
          /\ IF DOMAIN nodes = {}
             THEN phase' = "TopoLinks" /\ UNCHANGED resp
             ELSE phase' = "Idle" /\ Fail500("topo")

(* Third read: the links.  Every link is emitted with node_id of both     *)
(* ends; the view is returned with status 200.                             *)
TopoReadLinks ==
    /\ phase = "TopoLinks"
    /\ UNCHANGED <<nodes, path>>
    /\ phase' = "Idle"
    /\ \/ \E lnk \in LinkReads :
          /\ snap' = [snap EXCEPT !.lnk = lnk]
          /\ UNCHANGED failed
          /\ resp' = Answer("topo", 200,
                        [l \in lnk |-> [source |-> NodeId(l[1]), target |-> NodeId(l[2])]])
       \/ /\ failed' = failed \cup {"links"}
          /\ UNCHANGED snap
          /\ Fail500("topo")

(* shortest_path, first read: the switch list, grouped by the dpid's      *)
(* letter when ACTIVE ('a' 1, 'b' 2, 'c' 3, else unset), 0 when INACTIVE.  *)
(* On failure the except branch names an undefined variable: 500.          *)
PathReadSwitches ==
    /\ phase = "Idle"
    /\ UNCHANGED path
    /\ \/ \E sw \in SwitchReads :
          /\ snap' = [NoSnap EXCEPT !.sw = sw]
          /\ failed' = {}
          /\ nodes' = [s \in {x \in Switches : sw[x] # "absent"} |->
                         CASE sw[s] = "INACTIVE" -> 0
                           [] DpidLetter[s] = "a" -> 1
                           [] DpidLetter[s] = "b" -> 2
                           [] DpidLetter[s] = "c" -> 3
                           [] OTHER -> NoGroup]
          /\ phase' = "PathRoute"
          /\ resp' = NoResp
       \/ /\ snap' = NoSnap
          /\ failed' = {"switches"}
          /\ nodes' = <<>>
          /\ phase' = "Idle"
          /\ Fail500("path")

(* Second read: the route.  A failed read or no route gives an empty      *)
(* path; a route shorter than RouteKeys raises IndexError (500).           *)
PathReadRoute ==
    /\ phase = "PathRoute"
    /\ UNCHANGED nodes
    /\ \/ \E route \in Routes :
          /\ snap' = [snap EXCEPT !.route = route]
          /\ UNCHANGED failed
          /\ IF RouteCrashes(route)
             THEN /\ phase' = "Idle" /\ path' = {}
                  /\ Fail500("path")
             ELSE /\ phase' = "PathLinks" /\ path' = RoutePath(route)
                  /\ UNCHANGED resp
       \/ /\ failed' = failed \cup {"route"}
          /\ path' = {}
          /\ phase' = "PathLinks"
          /\ UNCHANGED <<snap, resp>>

(* Third read: the links, each flagged with OnPath.                       *)
PathReadLinks ==
    /\ phase = "PathLinks"
    /\ UNCHANGED nodes
    /\ phase' = "Idle"
    /\ path' = {}
    /\ \/ \E lnk \in LinkReads :
          /\ snap' = [snap EXCEPT !.lnk = lnk]
          /\ UNCHANGED failed
          /\ resp' = Answer("path", 200,
                        [l \in lnk |-> [source |-> NodeId(l[1]), target |-> NodeId(l[2]),
                                        type |-> OnPath(l, path)]])
       \/ /\ failed' = failed \cup {"links"}
          /\ UNCHANGED snap
          /\ Fail500("path")

(* query_switch: one read of the switch list; the answer lists the       *)
(* ACTIVE switches.  A failed read makes the except branch log and return  *)
(* None, which Flask answers with 500.                                     *)
QuerySwitch ==
    /\ phase = "Idle"
    /\ nodes' = <<>>
    /\ UNCHANGED <<phase, path>>
    /\ \/ \E sw \in SwitchReads :
          /\ snap' = [NoSnap EXCEPT !.sw = sw]
          /\ failed' = {}
          /\ resp' = Answer("switches", 200, {s \in Switches : sw[s] = "ACTIVE"})
       \/ /\ snap' = NoSnap
          /\ failed' = {"switches"}
          /\ Fail500("switches")

(* controller_status: one read of the controller registry; for each       *)
(* controller of config.json, onos is 1 when it is registered.  A failed   *)
(* read makes json.loads("") raise, outside any try: 500.                  *)
ControllerStatus ==
    /\ phase = "Idle"
    /\ nodes' = <<>>
    /\ UNCHANGED <<phase, path>>
    /\ \/ \E ctl \in ControllerReads :
          /\ snap' = [NoSnap EXCEPT !.ctl = ctl]
          /\ failed' = {}
          /\ resp' = Answer("status", 200,
                        [c \in Range(Controllers) |-> IF c \in ctl THEN 1 ELSE 0])
       \/ /\ snap' = NoSnap
          /\ failed' = {"controllers"}
          /\ Fail500("status")

Next ==
    \/ TopoReadSwitches \/ TopoReadRegistry \/ TopoReadLinks
    \/ PathReadSwitches \/ PathReadRoute \/ PathReadLinks
    \/ QuerySwitch \/ ControllerStatus

Spec == Init /\ [][Next]_vars

-----------------------------------------------------------------------------
(* A topology_for_gui answer with status 200 is the spec's view of what   *)
(* its reads returned (spec.md 4.4): it lists exactly the switches of the  *)
(* first read; an INACTIVE switch shows group 0 even when registered;      *)
(* an ACTIVE switch registered at the second read shows its master's       *)
(* position + 1; every link of the third read is kept, an end absent from  *)
(* the first read shown as -1.                                             *)
ViewMatchesSpec ==
    resp.kind = "topo" /\ resp.status = 200 =>
        LET v == resp.nodes
            r == resp.snap
        IN /\ DOMAIN v = {s \in Switches : r.sw[s] # "absent"}
           /\ \A s \in DOMAIN v :
                 /\ r.sw[s] = "INACTIVE" => v[s] = 0
                 /\ r.sw[s] = "ACTIVE" /\ "registry" \notin resp.failed
                        /\ r.reg[s] # NoCtrl => v[s] = IndexOf(r.reg[s])
           /\ DOMAIN resp.body = r.lnk
           /\ \A l \in r.lnk :
                 /\ resp.body[l].source = IF r.sw[l[1]] = "absent" THEN NotFound ELSE l[1]
                 /\ resp.body[l].target = IF r.sw[l[2]] = "absent" THEN NotFound ELSE l[2]

(* When only the registry read fails, topology_for_gui still answers with *)
(* the view of the other two reads: its except branch, unlike the others,  *)
(* does not return, and spec.md 7 treats an unavailable upstream as        *)
(* non-fatal.                                                              *)
RegistryFailureTolerated ==
    resp.kind = "topo" /\ resp.failed = {"registry"} => resp.status = 200

(* When all three reads of shortest_path succeed, it answers 200 and      *)
(* flags exactly the links that join consecutive hops of the route read    *)
(* (spec.md 4.4, path overlay).                                            *)
OnPathExact ==
    resp.kind = "path" /\ resp.failed = {} =>
        /\ resp.status = 200
        /\ \A l \in DOMAIN resp.body :
              (resp.body[l].type = 1) = (l \in Hops(resp.snap.route))
-----------------------------------------------------------------------------
(* The refinement mapping: the answer the GUI holds, seen as the abstract *)
(* shown.  A request in progress has no answer; an answer with status 200  *)
(* carries its view, the reads it was built from, and whether the registry *)
(* read was used.                                                          *)
Shown ==
    CASE resp = NoResp -> [kind |-> "none"]
      [] resp.status = 200 ->
            [kind |-> resp.kind, status |-> 200, nodes |-> resp.nodes,
             body |-> resp.body, snap |-> resp.snap,
             regOk |-> "registry" \notin resp.failed]
      [] OTHER -> [kind |-> resp.kind, status |-> resp.status]

Snapshot == INSTANCE TopologySnapshot WITH shown <- Shown

(* topology_for_gui and shortest_path, each built from three reads of a    *)
(* changing controller, implement the atomic TopologySnapshot: every       *)
(* answer is an error or a view the spec allows for the reads it came      *)
(* from: switch list and INACTIVE groups, master positions, every link     *)
(* with NotFound ends, and on-path flags only on route hops in the          *)
(* reported direction.                                                     *)
SnapshotRefinement == Snapshot!Spec
=============================================================================
