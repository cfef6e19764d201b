SPECIFICATION Spec
CONSTANTS
    FloatSize = 1
    Speeds <- OneSpeed
    Samples <- TwoSamples
    MaxLoops = 4
    MaxAnswers = 3
CHECK_DEADLOCK FALSE
INVARIANTS TypeOK AcceptedInOrder
PROPERTIES OnlyCutsShift
