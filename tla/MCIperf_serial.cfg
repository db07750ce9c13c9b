\* add_flow, del_flow, iperf_start and iperf_rate served one at a time
CONSTANTS
    t1 = t1  h1 = h1  h2 = h2  c1 = c1  c2 = c2  Err = Err
    Threads <- MCThreads
    Hosts <- MCHosts
    MaxFlowId <- MCMaxFlowId
    Controllers <- MCControllers
    CoreSwitches = {}
    Error = Err
    HostField <- MCHostField
    Testbed = "sw"
SPECIFICATION ISpec
INVARIANT ITypeOK DistinctFlowIds
