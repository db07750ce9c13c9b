\* Two handler threads, as app.run(threaded=True) allows.
CONSTANTS
    t1 = t1
    t2 = t2
    h1 = h1
    h2 = h2
    Threads <- MCThreadsThreaded
    Hosts <- MCHosts
    MaxFlowId <- MCMaxFlowId
SPECIFICATION Spec
SYMMETRY MCSymmetry
INVARIANT DistinctFlowIds
