--------------------------- MODULE ControllerClient ---------------------------
(***************************************************************************)
(* The controller client of the demo proxies: get_json, pick_host, the    *)
(* /wm/onos and /proxy/gui relays of topology_rest.py, and rest() of       *)
(* simple_web_server.py.                                                   *)
(*                                                                         *)
(* An upstream call ends in one of three ways: a body (urlopen returns), an *)
(* HTTP error status (urllib2 raises HTTPError) or a transport failure      *)
(* (URLError).  In urllib2 HTTPError is a subclass of URLError, so an      *)
(* "except URLError" written first also catches HTTP errors.  A body is a  *)
(* model value; the text of log lines is left out.                         *)
(***************************************************************************)
EXTENDS Integers, Sequences

CONSTANTS
    HttpCodes,     \* error statuses an upstream may answer with
    ErrorPage      \* the body Flask sends when a handler raises

(* The ways an upstream call can end.                                     *)
Outcomes ==
    [kind : {"body"}, body : {"b1"}] \cup [kind : {"http"}, code : HttpCodes]
        \cup [kind : {"transport"}]

(* Whether urllib2 raises an exception that "except URLError" catches:    *)
(* URLError itself and its subclass HTTPError.                             *)
IsURLError(o) == o.kind \in {"transport", "http"}

(* get_json: (200, body), or (500, "") from the URLError branch; the      *)
(* HTTPError branch after it is never reached.                             *)
GetJson(o) == IF IsURLError(o) THEN <<500, "">> ELSE <<200, o.body>>

(* A /wm/onos relay (switches, links, flows, registry_controllers,        *)
(* registry_switches): get_json on pick_host() or ONOS_GUI3_HOST, and      *)
(* Response(result, status=code).  Which host is asked does not change how *)
(* its outcome is turned into the answer, so the host is left out.         *)
Relay(o) == [status |-> GetJson(o)[1], body |-> GetJson(o)[2]]

(* simple_web_server.rest: after a caught URLError it still reads          *)
(* response, which is unbound, so the handler raises and Flask answers 500 *)
(* with its error page.                                                    *)
SimpleRest(o) ==
    IF IsURLError(o) THEN [status |-> 500, body |-> ErrorPage]
    ELSE [status |-> 200, body |-> o.body]

(* A /proxy/gui relay (link, switchctrl, switch, controller, addflow,     *)
(* delflow, iperf start and rate, reset, scale): urlopen of the same       *)
(* command on ONOS_GUI3_CONTROL_HOST; a bare "except:" turns every         *)
(* exception into an empty result, and the answer is always status 200.   *)
GuiRelay(o) ==
    IF o.kind = "body" THEN [status |-> 200, body |-> o.body]
    ELSE [status |-> 200, body |-> ""]
=============================================================================
