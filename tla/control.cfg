SPECIFICATION Spec
CONSTANTS
    Deployments = {"one_way", "stream"}
    MaxPackets = 2
CHECK_DEADLOCK FALSE
INVARIANT ControlInv DeliveredInOrder TasksLast
PROPERTY RefinesControlLink
