----------------------------- MODULE ClusterConfig -----------------------------
(***************************************************************************)
(* The Mininet cluster topology builder (start_topo.py).                  *)
(*                                                                         *)
(* The script checks that it runs as root and its command line, execs a   *)
(* config file (createTopo()), then builds, in order:                      *)
(* ConfigTopo (switches and hosts stored in nmap under their stripped      *)
(* names, links looked up in nmap), ControllerCluster (controllers stored  *)
(* in cmap under their stripped names, each switch's controller list       *)
(* looked up in cmap, sw_clist_map keyed by the switch name as written),   *)
(* and finally net.start(), which starts the switches one by one, each     *)
(* asking the cluster for clist(<its stripped name>).  Any lookup that     *)
(* misses raises KeyError and ends the script where it is.                 *)
(*                                                                         *)
(* A name in the config is abstracted to its text and whether whitespace  *)
(* pads it; strip() removes the padding.  A config has one link and gives  *)
(* every switch a one-element controller list.                             *)
(***************************************************************************)
EXTENDS Naturals, Sequences, FiniteSets, Functions, TLC

CONSTANTS
    SwitchOrder,  \* the config's switch names, in the (sorted) order net.start starts them
    HostNames,    \* the config's host names
    CtrlNames,    \* controller names a config may define or refer to
    Stranger      \* a node name that is neither a switch nor a host

SwitchNames == Range(SwitchOrder)
NodeNames == SwitchNames \cup HostNames \cup {Stranger}

(* A name as written: <<text, padded>>.                                    *)
Written(names) == names \X BOOLEAN
Strip(n) == <<n[1], FALSE>>

(* The configs createTopo() may return: for each switch whether its key is *)
(* padded and the one controller it names; the controllers defined, each   *)
(* key plain or padded; one link between two written node names.           *)
Configs ==
    {c \in [switches : [SwitchNames -> [pad : BOOLEAN, ctrl : Written(CtrlNames)]],
            controllers : [CtrlNames -> {"absent", "plain", "padded"}],
            link : [node1 : Written(NodeNames), node2 : Written(NodeNames)]] :
        \E x \in CtrlNames : c.controllers[x] # "absent"}

VARIABLES
    conf,      \* the config, fixed once createTopo() returns
    phase,     \* "Args", "Topo", "Cluster", "Start", "Running", "Exited" or "Failed"
    nmap,      \* ConfigTopo's nmap keys
    cmap,      \* ControllerCluster's cmap keys
    clistMap,  \* ControllerCluster's sw_clist_map: written switch name -> controller list
    k,         \* net.start's position in SwitchOrder
    started    \* started switch -> the controllers OVSSwitch.start connected it to

vars == <<conf, phase, nmap, cmap, clistMap, k, started>>

NoConf == [switches |-> <<>>]

Init ==
    /\ conf = NoConf
    /\ phase = "Args"
    /\ nmap = {}
    /\ cmap = {}
    /\ clistMap = <<>>
    /\ k = 1
    /\ started = <<>>

(* The module level before the classes: not root, more than one argument *)
(* or -h/--help print the usage and exit(0); a config file that does not *)
(* exist ends the script (exit(1), or a NameError on default_topo when the *)
(* file was named on the command line).  Otherwise execfile(topofile) and *)
(* conf = createTopo().                                                    *)
LoadConfig ==
    /\ phase = "Args"
    /\ \E root \in BOOLEAN, args \in {<<>>, <<"-h">>, <<"topo.py">>, <<"topo.py", "x">>},
          exists \in BOOLEAN :
          IF ~root \/ Len(args) > 1 \/ args = <<"-h">> \/ ~exists
          THEN phase' = "Exited" /\ UNCHANGED conf
          ELSE phase' = "Topo" /\ conf' \in Configs
    /\ UNCHANGED <<nmap, cmap, clistMap, k, started>>

(* ConfigTopo.__init__: switches and hosts are added under their stripped *)
(* names; each link end is looked up in nmap as written.                   *)
ConfigTopo ==
    /\ phase = "Topo"
    /\ nmap' = {<<s, FALSE>> : s \in SwitchNames} \cup {<<h, FALSE>> : h \in HostNames}
    /\ phase' = IF {conf.link.node1, conf.link.node2} \subseteq nmap' THEN "Cluster" ELSE "Failed"
    /\ UNCHANGED <<conf, cmap, clistMap, k, started>>

(* ControllerCluster.__init__, run by Mininet's build before any switch   *)
(* exists: controllers are stored under their stripped names; every       *)
(* controller a switch names is looked up as written ("assert not          *)
(* self.cmap[c] is None" raises KeyError first); the lists are stored      *)
(* under the switch key as written.                                        *)
ControllerCluster ==
    /\ phase = "Cluster"
    /\ cmap' = {<<x, FALSE>> : x \in {y \in CtrlNames : conf.controllers[y] # "absent"}}
    /\ IF \A s \in SwitchNames : conf.switches[s].ctrl \in cmap'
       THEN /\ clistMap' = [w \in {<<s, conf.switches[s].pad>> : s \in SwitchNames} |->
                              <<Strip(conf.switches[w[1]].ctrl)>>]
            /\ phase' = "Start"
       ELSE phase' = "Failed" /\ UNCHANGED clistMap
    /\ UNCHANGED <<conf, nmap, k, started>>

(* ControllerCluster.clist(sw): sw_clist_map[sw].                          *)
Clist(sw) == clistMap[sw]

(* net.start(): the next switch's ClusterConnectedSwitch.start asks for    *)
(* clist(self.name), self.name being the stripped name, and starts OVS     *)
(* with that list; after the last switch the script enters the CLI.        *)
StartSwitch ==
    /\ phase = "Start"
    /\ LET sw == <<SwitchOrder[k], FALSE>>
       IN IF sw \in DOMAIN clistMap
          THEN /\ started' = started @@ (sw :> Clist(sw))
               /\ k' = k + 1
               /\ phase' = IF k = Len(SwitchOrder) THEN "Running" ELSE "Start"
          ELSE phase' = "Failed" /\ UNCHANGED <<started, k>>
    /\ UNCHANGED <<conf, nmap, cmap, clistMap>>

Next == LoadConfig \/ ConfigTopo \/ ControllerCluster \/ StartSwitch

Spec == Init /\ [][Next]_vars

-----------------------------------------------------------------------------
(* A config the builder rejects is rejected at load time (spec.md 4.1,     *)
(* ConfigError is fatal at load): when the script raises, net.start has    *)
(* not started any switch, so no half-built network is left behind.        *)
ConfigErrorAtLoad == phase = "Failed" => DOMAIN started = {}
====
