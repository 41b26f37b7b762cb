SPECIFICATION Spec
CONSTANTS
    Size = 2
INVARIANT ReportedSizeIsTheFiles
CHECK_DEADLOCK FALSE
