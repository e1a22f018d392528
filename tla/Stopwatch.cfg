CONSTANTS
    t1 = t1
    t2 = t2
    Tasks <- TwoTasks
    Ids <- TwoIds
    MaxDepth = 2
    MaxStack = 4
    ClockLimit = 4

SPECIFICATION Spec
CONSTRAINT StackBound
INVARIANT TypeOK
INVARIANT TimeAttributedToTop
