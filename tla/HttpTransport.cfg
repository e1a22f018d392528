CONSTANTS
    c1 = c1
    c2 = c2
    c3 = c3
    Callers <- TwoCallers
    MaxParallel = 2
    IdBits = 1
    MaxCalls = 2

SPECIFICATION Spec
INVARIANT TypeOK
INVARIANT CanceledOnlyAfterDrop
PROPERTY RpcSpec
