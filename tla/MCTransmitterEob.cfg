CONSTANTS
    IntBits <- MCIntBits
    MaxBurstsValues <- MCMaxBursts
    IntervalValues <- MCIntervals
SPECIFICATION Spec
INVARIANT BurstClosedAtStop
