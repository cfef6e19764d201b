SPECIFICATION Spec
CONSTANTS
    MessageSize = 52
    MaxFields = 32
    Poses <- MCPoses
    Motions <- MCMotions
    Unset <- MCUnset
    Unmeasured <- MCUnmeasured
    MaxTraffic = 2
INVARIANTS TypeOK PositionWhole PathIsMessage
PROPERTIES EstimateSpec
