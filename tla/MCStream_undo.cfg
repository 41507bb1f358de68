CONSTANTS
    MaxBlock = 3
    Quiet = {}
    HeadOffset = 1
    MaxEmpty = 3
    WipeAfter = 2
    Faults = {"reorg"}
    MaxFaults = 1
SPECIFICATION Spec
PROPERTY UndoKeepsHistory
CHECK_DEADLOCK FALSE
