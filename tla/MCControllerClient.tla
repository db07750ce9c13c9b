-------------------------- MODULE MCControllerClient --------------------------
(* The client's answers, for every way an upstream call can end,       *)
(* against the contract of spec.md 4.3.                                   *)
EXTENDS ControllerClient

CONSTANTS page

MCHttpCodes == {404, 503}

VARIABLE outcome

Init ==
    outcome \in Outcomes
Next == UNCHANGED outcome

(* spec.md 4.3: every failure becomes (code, "") with the upstream's      *)
(* status for an HTTP-level failure and 500 for a low-level one, and a    *)
(* success passes the body through; both proxies' relays promise this.    *)
SpecResult(o) ==
    CASE o.kind = "body" -> [status |-> 200, body |-> o.body]
      [] o.kind = "http" -> [status |-> o.code, body |-> ""]
      [] o.kind = "transport" -> [status |-> 500, body |-> ""]

(* The /wm/onos and /proxy/gui relays of topology_rest.py and rest() of  *)
(* simple_web_server.py give the client contract's result for every way an *)
(* upstream call can end (spec.md 4.3, and 6: the upstream's status, or    *)
(* 500 on a relay failure).                                                 *)
ClientMatchesSpec ==
    /\ Relay(outcome) = SpecResult(outcome)
    /\ SimpleRest(outcome) = SpecResult(outcome)
    /\ GuiRelay(outcome) = SpecResult(outcome)
=============================================================================
