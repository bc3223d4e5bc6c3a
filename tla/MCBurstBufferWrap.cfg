CONSTANTS
    UintBits <- MCUintBits
    BaseValues <- MCBases
    LengthValues <- MCLengths
SPECIFICATION Spec
INVARIANT CopyInBounds
