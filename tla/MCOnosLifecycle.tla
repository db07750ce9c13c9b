---------------------------- MODULE MCOnosLifecycle ----------------------------
(* onos.py's main: ONOS(n=2) over LinearTopo(2), as in partial(ONOS, n=2)  *)
(* and the default size.                                                    *)
EXTENDS OnosLifecycle

MCN == 2
MCSize == 2
=============================================================================
