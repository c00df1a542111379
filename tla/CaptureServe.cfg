SPECIFICATION FairSpec
CONSTANTS
    NCaptures = 2
    NNodes = 2
    StdinCancels = TRUE
    BatchRefuses = TRUE
    MaxFaults = 2
INVARIANTS ReceiptIsComplete NoSilentRetry CleanEnd
PROPERTIES CancelledReturns CaptureReturns
