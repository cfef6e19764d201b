SPECIFICATION Spec
CONSTANTS
    MessageSize = 40
    MaxFields = 4
    Items <- MCItems
    MaxElements = 4
INVARIANTS TypeOK ReadsBack OverrunsOnlyByLongCopies
PROPERTIES AppendOnly
