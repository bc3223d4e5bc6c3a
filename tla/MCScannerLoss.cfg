CONSTANTS
    SrateValues <- MCSrates
    DurationValues <- MCDurations
    PciValues <- MCPcis
    NoCell = NoCell
SPECIFICATION Spec
INVARIANT NoSampleLost
