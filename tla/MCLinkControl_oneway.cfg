\* Software testbed, one handler thread, link.json listing each link in one direction.
CONSTANTS
    t1 = t1
    t2 = t2
    c1 = c1
    c2 = c2
    s1 = s1
    s2 = s2
    s3 = s3
    Err = Err
    Controllers <- MCControllers
    CoreSwitches <- MCCoreSwitches
    Error <- Err
    Threads <- MCThreadsSerial
    Links <- MCLinks
    LinkDef <- MCLinkDefOneWay
    HostField <- MCHostField
    Testbeds = {"sw"}
    HwPorts <- MCHwPorts
    HwDownByDst <- MCHwDownByDst
SPECIFICATION Spec
INVARIANT LinkMatchesLastRequest
