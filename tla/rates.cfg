SPECIFICATION Spec
CONSTANTS
    TargetPacketSize = 2
    MaxProtectedBlock = 4
    MaxBlocks = 64000
    Unit = 100
    MaxRedundancy = 130
    IdealCode = FALSE
    Adaptive = TRUE
    MinPolicy = 100
    MaxPolicy = 130
    IncreaseStep = 15
    DecreaseStep = 5
    HighWatermark = 120
    LowWatermark = 105
    MinBitrate = 500000
    MaxBitrate = 8000000
    DefaultBitrate = 2000000
    BitrateStep = 50000
    MaxStreamId = 2
    Reorder = FALSE
    SenderLimits = {2}
    ReceiverLimits = {2}
    InitialRedundancy = 110
    FrameSizes = {3}
    ImplicitStreams = FALSE
    AudioAllowed = FALSE
    AllowCancel = FALSE
    ExternalTelemetry <- MCTelemetry
    MaxCalls = 2
    MaxFins = 0
    ChannelCapacity = 1
    AudioSink = TRUE
    Jitters = {0,25000}
    MaxFlushes = 2
    AllowDetach = TRUE
    LossModel = "none"
CHECK_DEADLOCK FALSE
INVARIANT RedundancyInRange PendingIsTarget
