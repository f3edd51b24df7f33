SPECIFICATION FairSpec
CONSTANTS
    TargetPacketSize = 2
    MaxProtectedBlock = 4
    MaxBlocks = 64000
    Unit = 100
    MaxRedundancy = 400
    IdealCode = TRUE
    Adaptive = TRUE
    MinPolicy = 100
    MaxPolicy = 400
    IncreaseStep = 15
    DecreaseStep = 5
    HighWatermark = 120
    LowWatermark = 105
    MinBitrate = 500000
    MaxBitrate = 8000000
    DefaultBitrate = 2000000
    BitrateStep = 50000
    MaxStreamId = 3
    Reorder = FALSE
    SenderLimits = {2}
    ReceiverLimits = {2}
    InitialRedundancy = 150
    FrameSizes = {3}
    ImplicitStreams = FALSE
    AudioAllowed = TRUE
    AllowCancel = FALSE
    ExternalTelemetry <- NoTelemetry
    MaxCalls = 2
    MaxFins = 0
    ChannelCapacity = 1
    AudioSink = TRUE
    Jitters = {0}
    MaxFlushes = 0
    AllowDetach = FALSE
    LossModel = "fec"
CHECK_DEADLOCK FALSE
PROPERTY AcceptedFramesArrive LoopIsReleased
