CONSTANTS
    Events = {1, 2, 3}
    Subscribers = {s1, s2}
    SubscribersOf <- MCSubscribersOf
    Slots = {d1, d2}
    Threshold = 2
    MaxLetters = 1
    MaxReplays = 2
    Replayable = {1}
    None = None
    Relays = {r1, r2}
    MaxAttempts = 2
    Urls = {u1}
    Hosts = {u1, h1}
    SigningSecrets = {g1, g2}
    Policies = {"default", "deny"}
    DefaultPolicy = "default"
    Sends = {n1, n2}
    Upserts = {q1}
    NoSigningSecret = NoSigningSecret
    ExpiringVaults = {v1, v2}
    ExpiryChecks = {c1, c2}
    Reminders = {i1, i2}
    ReminderRuns = {r1, r2}
    MaxMinute = 2
    DayLength = 8
    HourLength = 1
    MonthLength = 6
    Offsets <- MCOffsets
    ClockChange = 62
    MaxInstant = 96
SPECIFICATION FocusSpec
INVARIANTS NothingSilentlyLost OneProbe DeliveredAsConfigured NotificationsAccounted QuietEndsNext
PROPERTY OutboxImplemented
SYMMETRY Interchangeable
CHECK_DEADLOCK FALSE
