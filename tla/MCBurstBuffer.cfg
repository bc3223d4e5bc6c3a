CONSTANTS
    UintBits <- MCUintBits
    BaseValues <- MCBases
    LengthValues <- MCLengths
SPECIFICATION Spec
INVARIANT TypeOK
INVARIANT BurstRepeats
