CONSTANTS
    SfnValues <- MCSfns
    OffsetValues <- MCOffsets
    IdxValues <- MCIdx
    CfgIdxValues <- MCCfgIdx
SPECIFICATION Spec
INVARIANT MutationSelective
