---------------------------- MODULE MCTopologyView ----------------------------
(* TopologyView instantiated for TLC: three switches whose dpids end in   *)
(* the letters a, b and another, two controllers, and ONOS's route object *)
(* with its three keys.                                                    *)
EXTENDS TopologyView

CONSTANTS s1, s2, s3, c1, c2

MCSwitches == {s1, s2, s3}
MCControllers == <<c1, c2>>
MCDpidLetter == [s \in MCSwitches |-> IF s = s1 THEN "a" ELSE IF s = s2 THEN "b" ELSE "x"]
MCLinkSet == {l \in MCSwitches \X MCSwitches : l[1] # l[2]}
MCRouteKeys == 3
=============================================================================
