CONSTANTS
    IntBits <- MCIntBits
    MaxBurstsValues <- MCMaxBursts
    IntervalValues <- MCIntervals
SPECIFICATION Spec
INVARIANT TypeOK
INVARIANT ExactBurstCount
INVARIANT SingleStartBeforeWrap
PROPERTY NoSendAfterAbort
PROPERTY CampaignTerminates
