CONSTANTS
    r1 = r1
    r2 = r2
    r3 = r3
    Request = {r1, r2}
    Large = {r2}
    Oversized = {}
    MaxAttempts = 2
    MayHang = FALSE
SPECIFICATION FairSpec
PROPERTY EndsAndRecovers
