SPECIFICATION FairHydrationSpec
CONSTANTS
    Size <- MCSize
    MaxFaults = 2
INVARIANTS HydrationTypeOK ImportsWholeDumps UpAfterWholeImport
PROPERTIES FailsOnlyForLeftovers TriedUntilUp
