----------------------------- MODULE LinkControl -----------------------------
(***************************************************************************)
(* Link up / link down commands of the ONS2014 demo proxy                  *)
(* (topology_rest.py: link_up, link_up_sw, link_up_hw, link_down,          *)
(* get_link_ports).                                                        *)
(*                                                                         *)
(* The GUI asks for a link of the displayed topology to go up or down,     *)
(* naming it by (src_dpid, src_port, dst_dpid, dst_port) in either of its  *)
(* two directions.  On the software testbed link_up runs link.sh on the    *)
(* host owning each endpoint switch, with the port it finds in link.json;  *)
(* link_down runs link.sh for the source endpoint only, with the port of   *)
(* the URL.  On the hardware testbed both run link-hw.sh locally, with     *)
(* ports from a literal wiring table.  A link carries traffic when the     *)
(* interfaces at both of its ends are up.                                  *)
(***************************************************************************)
EXTENDS Ownership

CONSTANTS
    Threads,      \* request-handling threads of the Flask server
    Links,        \* physical links: [src, sport, dst, dport]
    LinkDef,      \* records of link.json: [src, sport, dst, dport]
    HostField,    \* [switch -> second-to-last field of its dpid]
    Testbeds,     \* values config.json "TESTBED" may have: "sw", "hw"
    HwPorts,      \* link_up_hw's literal table: <<src, dst>> -> <<port1, port2>>
    HwDownByDst   \* link_down (hw): source dpids whose link is cut at the dst end

ASSUME Testbeds \subseteq {"sw", "hw"}

VARIABLES
    testbed,    \* TESTBED, read once by read_config
    intf,       \* state of each switch interface <<dpid, port>>
    pc,         \* per thread: "Idle", or "UpDst" between link_up's two calls
    req,        \* per thread: the request being served
    last,       \* the last request served to the end, by any thread (history)
    crossed,    \* threads whose link_up a link_down of the same link landed inside (history)
    lastCrossed \* whether that happened to the link_up that set last (history)

vars == <<testbed, intf, pc, req, last, crossed, lastCrossed>>

NoReq == [cmd |-> "none"]
NotFound == -1

Reverse(l) == [src |-> l.dst, sport |-> l.dport, dst |-> l.src, dport |-> l.sport]
Endpoints == {<<l.src, l.sport>> : l \in Links} \cup {<<l.dst, l.dport>> : l \in Links}
(* The physical link a request names, in whichever direction it names it. *)
LinkOf(r) ==
    CHOOSE l \in Links : <<r.src, r.sport>> \in {<<l.src, l.sport>>, <<l.dst, l.dport>>}

Requests ==
    {[cmd |-> c, src |-> o.src, sport |-> o.sport, dst |-> o.dst, dport |-> o.dport] :
        c \in {"up", "down"}, o \in Links \cup {Reverse(l) : l \in Links}}

(* Mutant of GetLinkPorts: a record matched on its source switch only.    *)
GetLinkPortsAnyPeer(src, dst) ==
    LET m == {r \in LinkDef : r.src = src}
    IN IF m = {} THEN <<NotFound, NotFound>>
       ELSE LET r == CHOOSE r \in m : TRUE IN <<r.sport, r.dport>>

(* get_link_ports: the first link.json record from src_dpid to dst_dpid,  *)
(* matched in that direction only; (-1, -1) when there is none.            *)
GetLinkPorts(src, dst) ==
    LET m == {r \in LinkDef : r.src = src /\ r.dst = dst}
    IN IF m = {} THEN <<NotFound, NotFound>>
       ELSE LET r == CHOOSE r \in m : TRUE IN <<r.sport, r.dport>>

(* One run of link.sh / link-hw.sh <dpid> <port> <cmd>: sets the named    *)
(* interface; a port that is not an interface of dpid changes nothing.     *)
LinkSh(f, dpid, port, cmd) ==
    IF <<dpid, port>> \in DOMAIN f THEN [f EXCEPT ![<<dpid, port>>] = cmd] ELSE f

(* Mutant of HwLinkPorts: the URL's ports taken in the wrong order.       *)
HwLinkPortsSwapped(r) ==
    IF <<r.src, r.dst>> \in DOMAIN HwPorts THEN HwPorts[<<r.src, r.dst>>]
    ELSE <<r.dport, r.sport>>

(* link_up_hw's port choice: the literal table, else the URL's ports.     *)
HwLinkPorts(r) ==
    IF <<r.src, r.dst>> \in DOMAIN HwPorts THEN HwPorts[<<r.src, r.dst>>]
    ELSE <<r.sport, r.dport>>

Init ==
    /\ testbed \in Testbeds
    /\ intf \in [Endpoints -> {"up", "down"}]
    /\ pc = [t \in Threads |-> "Idle"]
    /\ req = [t \in Threads |-> NoReq]
    /\ last = NoReq
    /\ crossed = {}
    /\ lastCrossed = FALSE

(* link_up_sw, first loop iteration: the source switch.  OwnerHost raises *)
(* for a malformed dpid and the request ends before any ssh.               *)
LinkUpSwSrc(t) ==
    /\ testbed = "sw"
    /\ pc[t] = "Idle"
    /\ \E r \in Requests :
          /\ r.cmd = "up"
          /\ IF OwnerHost(r.src, HostField[r.src]) = Error
             THEN UNCHANGED <<intf, pc, req>>
             ELSE /\ intf' = LinkSh(intf, r.src, GetLinkPorts(r.src, r.dst)[1], "up")
                  /\ pc' = [pc EXCEPT ![t] = "UpDst"]
                  /\ req' = [req EXCEPT ![t] = r]
    /\ UNCHANGED <<last, crossed, lastCrossed>>

(* link_up_sw, second iteration: the destination switch, its port looked  *)
(* up as get_link_ports(dst_dpid, src_dpid).                               *)
LinkUpSwDst(t) ==
    /\ testbed = "sw"
    /\ pc[t] = "UpDst"
    /\ LET r == req[t] IN
       /\ intf' = IF OwnerHost(r.dst, HostField[r.dst]) = Error THEN intf
                  ELSE LinkSh(intf, r.dst, GetLinkPorts(r.dst, r.src)[1], "up")
       /\ last' = IF OwnerHost(r.dst, HostField[r.dst]) = Error THEN last ELSE r
       /\ lastCrossed' = IF OwnerHost(r.dst, HostField[r.dst]) = Error THEN lastCrossed
                         ELSE t \in crossed
    /\ crossed' = crossed \ {t}
    /\ pc' = [pc EXCEPT ![t] = "Idle"]
    /\ req' = [req EXCEPT ![t] = NoReq]

(* link_up_hw: link-hw.sh for the source end with port1 ...               *)
LinkUpHwSrc(t) ==
    /\ testbed = "hw"
    /\ pc[t] = "Idle"
    /\ \E r \in Requests :
          /\ r.cmd = "up"
          /\ intf' = LinkSh(intf, r.src, HwLinkPorts(r)[1], "up")
          /\ pc' = [pc EXCEPT ![t] = "UpDst"]
          /\ req' = [req EXCEPT ![t] = r]
    /\ UNCHANGED <<last, crossed, lastCrossed>>

(* ... then for the destination end with port2.                            *)
LinkUpHwDst(t) ==
    /\ testbed = "hw"
    /\ pc[t] = "UpDst"
    /\ intf' = LinkSh(intf, req[t].dst, HwLinkPorts(req[t])[2], "up")
    /\ last' = req[t]
    /\ lastCrossed' = (t \in crossed)
    /\ crossed' = crossed \ {t}
    /\ pc' = [pc EXCEPT ![t] = "Idle"]
    /\ req' = [req EXCEPT ![t] = NoReq]

(* link_down: the source switch's owner is resolved first, on either     *)
(* testbed, and a malformed dpid raises; then a single link.sh /           *)
(* link-hw.sh call with the URL's ports: on the owner (sw), or locally on  *)
(* the source end, or the destination end for the dpids of HwDownByDst     *)
(* (hw).                                                                   *)
LinkDown(t) ==
    /\ pc[t] = "Idle"
    /\ \E r \in Requests :
          /\ r.cmd = "down"
          /\ IF OwnerHost(r.src, HostField[r.src]) = Error
             THEN UNCHANGED <<intf, last, crossed, lastCrossed>>
             ELSE /\ intf' = IF testbed = "hw" /\ r.src \in HwDownByDst
                             THEN LinkSh(intf, r.dst, r.dport, "down")
                             ELSE LinkSh(intf, r.src, r.sport, "down")
                  /\ last' = r
                  /\ lastCrossed' = FALSE
                  /\ crossed' = crossed \cup
                        {u \in Threads : pc[u] = "UpDst" /\ LinkOf(req[u]) = LinkOf(r)}
    /\ UNCHANGED <<pc, req>>

Next ==
    /\ UNCHANGED testbed
    /\ \E t \in Threads :
          \/ LinkUpSwSrc(t) \/ LinkUpSwDst(t)
          \/ LinkUpHwSrc(t) \/ LinkUpHwDst(t)
          \/ LinkDown(t)

Spec == Init /\ [][Next]_vars
        /\ \A t \in Threads : WF_vars(LinkUpSwDst(t) \/ LinkUpHwDst(t))

-----------------------------------------------------------------------------
LinkIsUp(l) == intf[<<l.src, l.sport>>] = "up" /\ intf[<<l.dst, l.dport>>] = "up"

(* Once the GUI's last link command has been served and no other is in  *)
(* flight, its link is in the state it asked for: up after link_up, down  *)
(* after link_down, whatever earlier commands, naming the link in either  *)
(* direction, did to its two ends.                                         *)
LinkMatchesLastRequest ==
    (last # NoReq /\ \A t \in Threads : pc[t] = "Idle")
        => ((last.cmd = "up") = LinkIsUp(LinkOf(last)))

(* With concurrent handler threads the proxy orders nothing: a link_down  *)
(* served between link_up's two link.sh calls takes down the end link_up  *)
(* has just brought up, and link_up then reports success on a link that   *)
(* is half down.  This is the only interleaving that breaks the guarantee: *)
(* once every thread is idle, the link of the last command served is in   *)
(* the state it asked for unless that command was a link_up a link_down   *)
(* of the same link overtook.                                              *)
LinkMatchesLastUnlessOvertaken ==
    (last # NoReq /\ ~lastCrossed /\ \A t \in Threads : pc[t] = "Idle")
        => ((last.cmd = "up") = LinkIsUp(LinkOf(last)))
=============================================================================
