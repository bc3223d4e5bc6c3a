CONSTANTS
    UintBits <- MCUintBits
    FileSampleValues <- MCFiles
    MaxSampleValues <- MCMaxSamples
    WindowValues <- MCWindows
SPECIFICATION Spec
INVARIANT TypeOK
PROPERTY AnalyzerTerminates
