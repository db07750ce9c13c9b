-------------------------------- MODULE MCIperf --------------------------------
(* Iperf with one handler thread, two edge switches owned by different   *)
(* controllers, and flow ids up to 3 (two add_flow requests).              *)
EXTENDS Iperf, TLC

CONSTANTS t1, h1, h2, c1, c2, Err

MCThreads == {t1}
MCHosts == {h1, h2}
MCMaxFlowId == 3
MCControllers == <<c1, c2>>
MCHostField == (h1 :> <<0, 1>>) @@ (h2 :> <<0, 2>>)
=============================================================================
