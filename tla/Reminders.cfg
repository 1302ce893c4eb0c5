CONSTANTS
    None = None
    Reminders = {r1, r2}
    Tickers = {k1}
    Both = {k1, k2}
    Plans = {p}
    Cooldown = 2
    Brief = 1
    PlanTicks = 1
    Period = 2
    MaxFires = 1
    QuietFires = 2
    Horizon = 1
    Late = 1
    TickSpan = 1
    MaxCrashes = 1
SPECIFICATION SettingsSpec
INVARIANTS FiresAtMostOnce UserComesFirst
PROPERTIES NothingIsSkipped QuietRemindersFire
