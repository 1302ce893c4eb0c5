CONSTANTS
    r1 = r1
    r2 = r2
    r3 = r3
    Request = {r1, r2, r3}
    Large = {r2, r3}
    Oversized = {r1}
    MaxAttempts = 2
    MayHang = TRUE
SPECIFICATION Spec
SYMMETRY LargeOnes
INVARIANTS OneOwnerOfTheLink WaitersHaveReceiver
PROPERTY ImplementsAtMostOnceCall
