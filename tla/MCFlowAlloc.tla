---------------------------- MODULE MCFlowAlloc -----------------------------
(* Model-checking instance of FlowAlloc: two hosts, flow ids up to 5.     *)
EXTENDS FlowAlloc, TLC

CONSTANTS t1, t2, h1, h2

MCThreadsThreaded == {t1, t2}
MCHosts == {h1, h2}
MCMaxFlowId == 5

MCSymmetry == Permutations(MCHosts)
=============================================================================
