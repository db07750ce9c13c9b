\* iperf_rate after the flow ids of a measured flow were handed out again
CONSTANTS
    t1 = t1  h1 = h1  h2 = h2  c1 = c1  c2 = c2  Err = Err
    Threads <- MCThreads
    Hosts <- MCHosts
    MaxFlowId <- MCMaxFlowId
    Controllers <- MCControllers
    CoreSwitches = {}
    Error = Err
    HostField <- MCHostField
    Testbed = "sw"
SPECIFICATION ISpec
INVARIANT IperfRateFresh
