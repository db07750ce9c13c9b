\* ONOS(n=N) started and stopped, with daemons that listen or die on their own.
\* A stopped or failed controller does nothing more, so the run ends there.
CONSTANTS
    N <- MCN
    Size <- MCSize
SPECIFICATION Spec
INVARIANT StopStopsAll
PROPERTY StartEndsUnlessDaemonDies WaitConnectedEnds
CHECK_DEADLOCK FALSE
