SPECIFICATION ReportSpec
CONSTANTS
    Absent = Absent
    Malformed = Malformed
    Raised = Raised
    Lines <- SomeLines
    Coverage <- SomeCoverage
    Sorted <- TwoRoutes
    MaxLines = 4
INVARIANTS
    RoutesPartition
    PercentilesInterpolate
    OrderIrrelevant
    AdviceGrounded
CHECK_DEADLOCK FALSE
