CONSTANTS
    c1 = c1
    c2 = c2
    c3 = c3
    Client = {c1, c2, c3}
    Role <- MCRole
    HeavyRole <- MCHeavyRole
    NoDemand = NoDemand
    MaxVram = 8
    MaxRam = 4
    Headroom = 1
    ResidentVram <- MCResident
    AgingTicks = 1
    Demand <- MixedDemand
    Reading <- MixedReading
    LiveTelemetry = TRUE
    RacyReads = TRUE
SPECIFICATION Spec
SYMMETRY ThreeClients
INVARIANTS LockMatchesLease WithinCeiling
PROPERTY ImplementsExclusiveLease
