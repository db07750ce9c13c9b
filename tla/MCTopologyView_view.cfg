\* topology_for_gui and shortest_path against a controller that changes between reads
CONSTANTS
    s1 = s1  s2 = s2  s3 = s3  c1 = c1  c2 = c2
    Switches <- MCSwitches
    Controllers <- MCControllers
    LinkSet <- MCLinkSet
    DpidLetter <- MCDpidLetter
    RouteKeys <- MCRouteKeys
SPECIFICATION Spec
INVARIANT ViewMatchesSpec
PROPERTY SnapshotRefinement
