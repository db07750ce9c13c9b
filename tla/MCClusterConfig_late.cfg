\* Every config of two switches, one host, one link and up to two controllers,
\* names plain or padded.  The script stops in the CLI or when it raises.
CONSTANTS
    SwitchOrder <- MCSwitchOrder
    HostNames <- MCHostNames
    CtrlNames <- MCCtrlNames
    Stranger <- MCStranger
SPECIFICATION Spec
INVARIANT ConfigErrorAtLoad
CHECK_DEADLOCK FALSE
