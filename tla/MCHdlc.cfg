SPECIFICATION HdlcSpec
CONSTANTS
    Payloads <- MCPayloads
    kPreambleFlags = 2
    kTailFlags = 2
    kMaxFrameBytes = 5
    MaxSymbols = 90
    MaxNoise = 7
    MaxFaults = 1
INVARIANTS CleanFrameDelivered OnlyWhatWasSent
