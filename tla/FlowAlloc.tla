------------------------------ MODULE FlowAlloc ------------------------------
(***************************************************************************)
(* Flow add / delete of the ONS2014 demo proxy                             *)
(* (src/sample/ONS2014demo/scripts/topology_rest.py, add_flow, del_flow).  *)
(*                                                                         *)
(* The proxy runs Flask with threaded=True: every /gui/addflow request is  *)
(* served by its own thread.  add_flow reads the controller's flow summary *)
(* (one REST call), takes the id of the last entry, and then runs          *)
(* add_flow.py twice, for ids last+1 (src->dst) and last+2 (dst->src).     *)
(* The three calls are separate steps; other requests may run between      *)
(* them.  The controller's flow table is the only shared state.            *)
(***************************************************************************)
EXTENDS Integers, FiniteSets

CONSTANTS
    Threads,     \* request-handling threads of the Flask server
    Hosts,       \* flow endpoints (dpid/port/MAC of a host), model values
    MaxFlowId    \* bound on flow ids, so the state space is finite

ASSUME MaxFlowId \in Nat /\ Hosts # {} /\ Threads # {}

VARIABLES
    flows,   \* flow entries installed in the controller: [id, src, dst]
    pc,      \* per thread: where its add_flow request is
    req,     \* per thread: the endpoints of its add_flow request
    flowNr   \* per thread: the local flow_nr of add_flow

vars == <<flows, pc, req, flowNr>>

FlowIds == 0..MaxFlowId
FlowEntry == [id : FlowIds, src : Hosts, dst : Hosts]
NoReq == [src |-> "none", dst |-> "none"]

(* Mutants of LastFlowId: the first summary entry taken for the last one, *)
(* and the empty-summary case started one too low.                         *)
LastFlowIdFromFirst ==
    IF flows = {} THEN -1
    ELSE CHOOSE i \in {e.id : e \in flows} : \A e \in flows : i <= e.id
LastFlowIdOffByOne ==
    IF flows = {} THEN -2
    ELSE CHOOSE i \in {e.id : e \in flows} : \A e \in flows : e.id <= i

(* Id of the last entry of /wm/onos/flows/getsummary/0/0/json, or -1 when  *)
(* the summary is empty.  The controller returns the summary ordered by    *)
(* flow id, so the last entry carries the largest id.                      *)
LastFlowId ==
    IF flows = {} THEN -1
    ELSE CHOOSE i \in {e.id : e \in flows} : \A e \in flows : e.id <= i

Init ==
    /\ flows = {}
    /\ pc = [t \in Threads |-> "Idle"]
    /\ req = [t \in Threads |-> NoReq]
    /\ flowNr = [t \in Threads |-> -1]

(* add_flow, first step: get_json of the flow summary and json.loads of    *)
(* it.  When the summary call fails get_json returns "" and json.loads     *)
(* raises: the request ends with status 500 and nothing changes, so that   *)
(* outcome is a stuttering step and is not written out.                    *)
AddFlowFetch(t) ==
    /\ pc[t] = "Idle"
    /\ LastFlowId + 2 <= MaxFlowId
    /\ \E s, d \in Hosts :
          /\ s # d
          /\ req' = [req EXCEPT ![t] = [src |-> s, dst |-> d]]
    /\ flowNr' = [flowNr EXCEPT ![t] = LastFlowId]
    /\ pc' = [pc EXCEPT ![t] = "Fetched"]
    /\ UNCHANGED flows

(* add_flow.py run for the forward entry: flow_nr += 1, match src->dst.    *)
(* os.popen(...).read() only returns the script's text: a failed install   *)
(* is not detected, and the handler goes on to the reverse entry.          *)
AddFlowFwd(t) ==
    /\ pc[t] = "Fetched"
    /\ \/ flows' = flows \cup {[id |-> flowNr[t] + 1,
                                src |-> req[t].src, dst |-> req[t].dst]}
       \/ UNCHANGED flows
    /\ pc' = [pc EXCEPT ![t] = "FwdSent"]
    /\ UNCHANGED <<req, flowNr>>

(* Mutant of AddFlowRev: flow_nr incremented once for both entries.      *)
AddFlowRevSameNr(t) ==
    /\ pc[t] = "FwdSent"
    /\ \/ flows' = flows \cup {[id |-> flowNr[t] + 1,
                                src |-> req[t].dst, dst |-> req[t].src]}
       \/ UNCHANGED flows
    /\ pc' = [pc EXCEPT ![t] = "Idle"]
    /\ req' = [req EXCEPT ![t] = NoReq]
    /\ UNCHANGED flowNr

(* add_flow.py run for the reverse entry: flow_nr += 1 again, endpoints    *)
(* and MACs swapped.  The handler then returns the two outputs.            *)
AddFlowRev(t) ==
    /\ pc[t] = "FwdSent"
    /\ \/ flows' = flows \cup {[id |-> flowNr[t] + 2,
                                src |-> req[t].dst, dst |-> req[t].src]}
       \/ UNCHANGED flows
    /\ pc' = [pc EXCEPT ![t] = "Idle"]
    /\ req' = [req EXCEPT ![t] = NoReq]
    /\ UNCHANGED flowNr

(* del_flow: one run of delete_flow.py for the id in the URL; an unknown   *)
(* id leaves the table as it is.                                           *)
DelFlow(t) ==
    /\ pc[t] = "Idle"
    /\ \E f \in {e.id : e \in flows} :
          flows' = {e \in flows : e.id # f}
    /\ UNCHANGED <<pc, req, flowNr>>

Next ==
    \E t \in Threads :
        \/ AddFlowFetch(t)
        \/ AddFlowFwd(t)
        \/ AddFlowRev(t)
        \/ DelFlow(t)

(* A request that has started is served to the end: the handler thread    *)
(* runs its remaining calls without waiting for anything else.            *)
Spec == Init /\ [][Next]_vars
        /\ \A t \in Threads : WF_vars(AddFlowFwd(t) \/ AddFlowRev(t))

-----------------------------------------------------------------------------
TypeOK ==
    /\ flows \subseteq FlowEntry
    /\ pc \in [Threads -> {"Idle", "Fetched", "FwdSent"}]
    /\ req \in [Threads -> [src : Hosts, dst : Hosts] \cup {NoReq}]
    /\ flowNr \in [Threads -> -1..MaxFlowId]

(* No two entries in the controller's flow table carry the same flow id.   *)
(* add_flow allocates ids from the summary it read one call earlier; this  *)
(* is what the read-then-install of flow_nr must keep true.                *)
DistinctFlowIds ==
    \A e1, e2 \in flows : e1.id = e2.id => e1 = e2

=============================================================================
