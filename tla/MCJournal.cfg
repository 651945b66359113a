SPECIFICATION Spec
CONSTANTS
    Record <- MCRecord
    Undoable <- MCUndoable
    Prefix <- MCPrefix
    Writer <- MCWriter
    MaxLines = 2
    MaxTail = 3
    Foreign = Foreign
    None = None
    r1 = r1
    r2 = r2
    w1 = w1
    w2 = w2
SYMMETRY Symmetric
INVARIANTS
    TypeOK
    AckedNeverSwallowed
    RollbackFindsAcked
    TearsAreExplained
PROPERTY
    ImplementsLog
