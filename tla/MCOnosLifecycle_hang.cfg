\* ONOS(n=N) started while a launched daemon may die.
CONSTANTS
    N <- MCN
    Size <- MCSize
SPECIFICATION Spec
PROPERTY StartEnds
CHECK_DEADLOCK FALSE
