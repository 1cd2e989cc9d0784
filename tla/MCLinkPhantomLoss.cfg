SPECIFICATION LinkSpec
CONSTANTS
    SequenceSpace = 6
    MAX_REORDER = 2
    MaxNumbers = 7
    MaxPings = 1
    MaxReports = 2
INVARIANT LosslessLinkReportsNoLoss
CHECK_DEADLOCK FALSE
