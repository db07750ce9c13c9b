\* Both testbeds, two handler threads, link.json with both directions of every link.
CONSTANTS
    t1 = t1
    t2 = t2
    c1 = c1
    c2 = c2
    s1 = s1
    s2 = s2
    s3 = s3
    Err = Err
    Controllers <- MCControllers
    CoreSwitches <- MCCoreSwitches
    Error <- Err
    Threads <- MCThreadsTwo
    Links <- MCLinks
    LinkDef <- MCLinkDefBoth
    HostField <- MCHostField
    Testbeds = {"sw", "hw"}
    HwPorts <- MCHwPorts
    HwDownByDst <- MCHwDownByDst
SPECIFICATION Spec
INVARIANT LinkMatchesLastUnlessOvertaken
