-------------------------------- MODULE Iperf --------------------------------
(***************************************************************************)
(* iperf start / rate of the ONS2014 demo proxy (topology_rest.py:         *)
(* iperf_start, iperf_rate), composed with flow add / delete (FlowAlloc).  *)
(*                                                                         *)
(* iperf_start reads a flow from the controller, resolves the hosts owning *)
(* its two endpoint switches, and runs runiperf.sh as server on the dst    *)
(* host and as client on the src host, both fire-and-forget.  The server   *)
(* writes log/iperfsvr_<flowId>.out on its host.  iperf_rate reads the     *)
(* flow again and fetches that file from the dst host's web server.  A log *)
(* is named by flow id only, and add_flow reuses the ids of deleted flows. *)
(* Flow endpoints (FlowAlloc's Hosts) are switch dpids here.               *)
(***************************************************************************)
EXTENDS FlowAlloc, Ownership

CONSTANTS
    HostField,   \* [dpid -> second-to-last field of the dpid]
    Testbed      \* config.json "TESTBED": "sw" or "hw"

VARIABLES
    logs,       \* server logs: [host, id] of every iperfsvr_<id>.out
    measured,   \* ids whose current flow has had an iperf server started (history)
    rate        \* the answer of the iperf_rate just served, else NoRate

ivars == <<flows, pc, req, flowNr, logs, measured, rate>>

NoRate == [kind |-> "none"]
FlowIdsIn(fs) == {e.id : e \in fs}

(* The host runiperf.sh runs on for an endpoint: controllers[0] for a     *)
(* core switch, else "mininet<hostid>" (hw) or controllers[hostid-1] (sw). *)
IperfHost(dpid) ==
    IF dpid \in CoreSwitches THEN Controllers[1]
    ELSE LET hostid == ParseInt(HostField[dpid])
         IN CASE hostid = Error -> Error
              [] Testbed = "hw" -> <<"mininet", hostid>>
              [] OTHER -> PyIndex(Controllers, hostid - 1)

IInit ==
    /\ Init
    /\ logs = {}
    /\ measured = {}
    /\ rate = NoRate

(* add_flow's three steps, unchanged by iperf.                             *)
FlowStep(t) ==
    /\ AddFlowFetch(t) \/ AddFlowFwd(t) \/ AddFlowRev(t)
    /\ UNCHANGED <<logs, measured>>
    /\ rate' = NoRate

(* del_flow: the id's measurements belong to the deleted flow; its log    *)
(* files stay on the hosts.                                                *)
FlowDelete(t) ==
    /\ DelFlow(t)
    /\ measured' = measured \cap FlowIdsIn(flows')
    /\ UNCHANGED logs
    /\ rate' = NoRate

(* iperf_start for a flow the controller returns (an unknown id or a      *)
(* failed read returns a message and changes nothing).  A host that does  *)
(* not resolve raises before any popen.  The server's ssh may fail, and    *)
(* then no log is (re)written; the client's run leaves no state we track.  *)
IperfStart(t) ==
    /\ pc[t] = "Idle"
    /\ \E f \in flows :
          /\ IperfHost(f.src) # Error
          /\ IperfHost(f.dst) # Error
          /\ \/ /\ logs' = logs \cup {[host |-> IperfHost(f.dst), id |-> f.id]}
                /\ measured' = measured \cup {f.id}
             \/ UNCHANGED <<logs, measured>>
    /\ rate' = NoRate
    /\ UNCHANGED <<flows, pc, req, flowNr>>

(* iperf_rate for flow id i: "no such iperf flow" when the controller has *)
(* none; 500 when the dst host does not resolve or its log fetch fails;    *)
(* else the log iperfsvr_<i>.out of the dst host, or the "no iperf file"   *)
(* text when the host answers "Cannot ...".                                *)
IperfRate(t) ==
    /\ pc[t] = "Idle"
    /\ \E i \in FlowIds :
          \/ /\ i \notin FlowIdsIn(flows)
             /\ rate' = [kind |-> "noflow", id |-> i]
          \/ \E f \in flows :
                /\ f.id = i
                /\ \/ rate' = [kind |-> "error", id |-> i]
                   \/ /\ IperfHost(f.dst) # Error
                      /\ rate' = [kind |-> IF [host |-> IperfHost(f.dst), id |-> i] \in logs
                                           THEN "log" ELSE "notready",
                                  id |-> i]
    /\ UNCHANGED <<flows, pc, req, flowNr, logs, measured>>

INext ==
    \E t \in Threads :
        \/ FlowStep(t) \/ FlowDelete(t)
        \/ IperfStart(t) \/ IperfRate(t)

ISpec == IInit /\ [][INext]_ivars
         /\ \A t \in Threads : WF_ivars(AddFlowFwd(t) \/ AddFlowRev(t))

-----------------------------------------------------------------------------
ITypeOK ==
    /\ TypeOK
    /\ measured \subseteq FlowIds
    /\ rate \in {NoRate} \cup [kind : {"noflow", "error", "log", "notready"}, id : FlowIds]

(* A rate answer that serves a log serves one written by an iperf server  *)
(* started for the flow now installed under that id: spec.md 4.5 says a    *)
(* missing artifact is "not ready yet", and add_flow hands out the ids of  *)
(* deleted flows again while their logs stay on the hosts.                 *)
IperfRateFresh ==
    rate.kind = "log" => rate.id \in measured
=============================================================================
