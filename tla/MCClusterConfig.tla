---------------------------- MODULE MCClusterConfig ----------------------------
(* start_topo.py with two switches, one host, two controller names (one   *)
(* of which a config may leave undefined) and a name that is no node.     *)
EXTENDS ClusterConfig

MCSwitchOrder == <<"s1", "s2">>
MCHostNames == {"h1"}
MCCtrlNames == {"c1", "c2"}
MCStranger == "x"
=============================================================================
