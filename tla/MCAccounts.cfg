SPECIFICATION AccountsSpec
CONSTANTS
    Families = {f1, f2}
    Requests = {q1, q2, q3}
    RefreshTTL = 1
    MaxSessions = 3
    MaxTime = 2
    Addresses = {ip}
    Emails = {m1, m2}
    Attempts = {a1, a2, a3}
    Capacity <- Budgets
    Period <- TwoTicks
    Second = 1
    MaxEntries = 1
    HashSlots = 1
    MaxClock = 3
    Absent = Absent
    Organizations = {acme}
    Users = {u1, u2, u3}
    Roles = {"owner", "admin", "viewer"}
    Slugs = {s1, s2}
    Changes = {c1, c2}
    Nobody = Nobody
SYMMETRY Interchangeable
CHECK_DEADLOCK FALSE
INVARIANTS
    AccountsTypeOK
    OnlyNewestLive
    ReuseContained
    AttemptsWithinBudget
    ShortageIsOwed
    KeepsOwner
PROPERTIES
    LogoutIsFinal
    ForgetsOnlyFull
