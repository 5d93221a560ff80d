\* One system with one faction and two powers; no action is enabled at the end
\* of time once the jobs are done and the raw tables are full.
CONSTANTS
    Null = Null
    Systems = {s1}
    Factions = {f1}
    Powers = {p1, p2}
    Bucket = 1
    Week = 3
    MaxDelay = 1
    MaxReports = 3
    MaxMissed = 1
    Horizon = 4
CHECK_DEADLOCK FALSE
SPECIFICATION TSSpec
CONSTRAINT OneTable
SYMMETRY SeriesSymmetry
INVARIANTS TSTypeOK RowsComeFromReports TimelyReportsCounted BackfillLeavesNoGap ConflictNeverMixed
