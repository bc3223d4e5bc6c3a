CONSTANTS
    SrateValues <- MCSratesTiny
    DurationValues <- MCDurations
    PciValues <- MCPcis
    NoCell = NoCell
SPECIFICATION Spec
INVARIANT TypeOK
INVARIANT ScanDeadline
PROPERTY ScanTerminates
