CONSTANTS
    Events = {1}
    Subscribers = {s1}
    SubscribersOf <- MCSubscribersOf
    Slots = {d1}
    Threshold = 2
    MaxLetters = 1
    MaxReplays = 0
    Replayable = {}
    None = None
    Relays = {r1}
    MaxAttempts = 2
    Urls = {u1}
    Hosts = {u1}
    SigningSecrets = {g1}
    Policies = {"default", "deny"}
    DefaultPolicy = "default"
    Sends = {n1}
    Upserts = {q1}
    NoSigningSecret = NoSigningSecret
    ExpiringVaults = {v1}
    ExpiryChecks = {c1}
    Reminders = {i1}
    ReminderRuns = {r1}
    MaxMinute = 2
    DayLength = 8
    HourLength = 1
    MonthLength = 6
    Offsets <- MCOffsets
    ClockChange = 62
    MaxInstant = 96
SPECIFICATION FairRelaySpec
PROPERTY DispatchedIsProcessed
CHECK_DEADLOCK FALSE
