--------------------------- MODULE TopologySnapshot ---------------------------
(***************************************************************************)
(* What the Query Aggregator promises (spec.md 4.4 and 7), with no reads  *)
(* in between: every request gets one answer, which is either an error or *)
(* a view of the controller's answers it was built from.                  *)
(*                                                                         *)
(*   - a topology view lists exactly the reported switches; an INACTIVE    *)
(*     switch shows group 0; an ACTIVE switch with a registered master     *)
(*     shows the master's position + 1 (when the registry was read);       *)
(*   - a path view lists exactly the reported switches, INACTIVE ones with *)
(*     group 0, and flags on-path only links that join consecutive hops   *)
(*     of the route, in the reported direction;                            *)
(*   - both keep every reported link, an end that is not a reported        *)
(*     switch shown as NotFound;                                           *)
(*   - the switch list holds exactly the ACTIVE switches;                  *)
(*   - the controller status has one entry per configured controller,     *)
(*     onos 1 exactly when the registry lists it.                          *)
(*                                                                         *)
(* shown.body is the list the answer carries; shown.snap holds the        *)
(* controller answers it came from; regOk says whether the registry answer *)
(* was used.                                                               *)
(***************************************************************************)
EXTENDS Integers, Sequences, Functions

CONSTANTS Switches, Controllers, NoCtrl, NotFound

VARIABLE shown

Pending == [kind |-> "none"]

Listed(sw) == {s \in Switches : sw[s] # "absent"}
Position(c) == CHOOSE k \in 1..Len(Controllers) : Controllers[k] = c
EndOf(sw, s) == IF sw[s] = "absent" THEN NotFound ELSE s
RouteHops(route) == {<<route[k], route[k + 1]>> : k \in 1..Len(route) - 1}

(* The nodes and links every view shares.                                *)
KeepsReported(v) ==
    LET r == v.snap
    IN /\ DOMAIN v.nodes = Listed(r.sw)
       /\ \A s \in DOMAIN v.nodes : r.sw[s] = "INACTIVE" => v.nodes[s] = 0
       /\ DOMAIN v.body = r.lnk
       /\ \A l \in r.lnk : /\ v.body[l].source = EndOf(r.sw, l[1])
                           /\ v.body[l].target = EndOf(r.sw, l[2])

IsTopoView(v) ==
    /\ KeepsReported(v)
    /\ \A s \in DOMAIN v.nodes :
          v.regOk /\ v.snap.sw[s] = "ACTIVE" /\ v.snap.reg[s] # NoCtrl
              => v.nodes[s] = Position(v.snap.reg[s])

IsPathView(v) ==
    /\ KeepsReported(v)
    /\ \A l \in DOMAIN v.body : v.body[l].type = 1 => l \in RouteHops(v.snap.route)

Init == shown = Pending

(* A request arrives: nothing is shown for it yet.                        *)
Begin == shown' = Pending

ShowTopology == shown'.kind = "topo" /\ shown'.status = 200 /\ IsTopoView(shown')

ShowPath == shown'.kind = "path" /\ shown'.status = 200 /\ IsPathView(shown')

ShowSwitches ==
    /\ shown'.kind = "switches" /\ shown'.status = 200
    /\ shown'.body = {s \in Switches : shown'.snap.sw[s] = "ACTIVE"}

ShowStatus ==
    /\ shown'.kind = "status" /\ shown'.status = 200
    /\ shown'.body = [c \in Range(Controllers) |-> IF c \in shown'.snap.ctl THEN 1 ELSE 0]

(* An upstream failure is answered with status 500 and no view.           *)
Refuse == shown' \in [kind : {"topo", "path", "switches", "status"}, status : {500}]

Next == Begin \/ ShowTopology \/ ShowPath \/ ShowSwitches \/ ShowStatus \/ Refuse

Spec == Init /\ [][Next]_shown
====
