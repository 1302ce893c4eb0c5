CONSTANTS
    c1 = c1
    c2 = c2
    c3 = c3
    Client = {c1, c2}
    Role <- MCRole
    HeavyRole <- MCHeavyRole
    NoDemand = NoDemand
    MaxVram = 8
    MaxRam = 4
    Headroom = 1
    ResidentVram <- MCResident
    AgingTicks = 1
    Demand <- VoiceAndBackground
    Reading <- MixedReading
    LiveTelemetry = TRUE
    RacyReads = FALSE
SPECIFICATION FairSpec
PROPERTY CapacityAdmitsWaiters
