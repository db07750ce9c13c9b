\* shortest_path with all reads successful and a route of two hops
CONSTANTS
    s1 = s1  s2 = s2  s3 = s3  c1 = c1  c2 = c2
    Switches <- MCSwitches
    Controllers <- MCControllers
    LinkSet <- MCLinkSet
    DpidLetter <- MCDpidLetter
    RouteKeys <- MCRouteKeys
SPECIFICATION Spec
INVARIANT OnPathExact
