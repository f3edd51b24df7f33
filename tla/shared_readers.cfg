SPECIFICATION FairSpec
CONSTANTS
    Deployments = {"stream"}
    MaxPackets = 1
CHECK_DEADLOCK FALSE
PROPERTY ControlArrives
