SPECIFICATION Spec
CONSTANTS
    TargetPacketSize = 3
    MaxProtectedBlock = 4
    MaxBlocks = 64000
    Unit = 100
    MaxRedundancy = 400
    IdealCode = FALSE
    Adaptive = FALSE
    MinPolicy = 100
    MaxPolicy = 400
    IncreaseStep = 15
    DecreaseStep = 5
    HighWatermark = 120
    LowWatermark = 105
    MinBitrate = 500000
    MaxBitrate = 8000000
    DefaultBitrate = 2000000
    BitrateStep = 50000
    MaxStreamId = 2
    Reorder = TRUE
    SenderLimits = {2,3}
    ReceiverLimits = {2,3}
    InitialRedundancy = 100
    FrameSizes = {1,4}
    ImplicitStreams = TRUE
    AudioAllowed = TRUE
    AllowCancel = TRUE
    ExternalTelemetry <- NoTelemetry
    MaxCalls = 2
    MaxFins = 0
    ChannelCapacity = 1
    AudioSink = TRUE
    Jitters = {0}
    MaxFlushes = 0
    AllowDetach = FALSE
    LossModel = "none"
CHECK_DEADLOCK FALSE
INVARIANT SessionInv
