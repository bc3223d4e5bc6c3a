CONSTANTS
    IntBits <- MCIntBits
    MaxBurstsValues <- MCMaxBursts
    IntervalValues <- MCIntervals
    SrateValues <- MCSrates
    DurationValues <- MCDurations
    PciValues <- MCPcis
    NoCell = NoCell
SPECIFICATION Spec
INVARIANT AbortExitsNonZero
