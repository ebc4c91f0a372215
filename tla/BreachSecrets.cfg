CONSTANTS
    Leaks = {f1, f2}
    Tenants = {{f1}, {f2}}
    Procs = {p1, p2}
    MaxKey = 3
    Retention = 1
    MaxAge = 2
    MaxReveals = 1
SPECIFICATION FairSpec
INVARIANTS SecretsReadable AuditedBeforeShown PurgedIsGone
PROPERTY SecretsExpire
CHECK_DEADLOCK FALSE
