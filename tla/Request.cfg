SPECIFICATION Spec
CONSTANTS
    Asked <- MCAsked
    Echoed = {2}
    Junk = {0, 255}
    MaxCalls = 2
CHECK_DEADLOCK FALSE
INVARIANTS TypeOK HandledAsAsked
PROPERTIES CallReturns RequestReplySpec
