CONSTANTS
    Tenants = {t1}
    Workers = {w1, w2}
    Plans = {trial, pro}
    TrialPlan = trial
    MaxQuota = 2
    MaxPool = 2
    PlanStatuses = {"draft"}
    Thresholds = {}
    HasRecipient = FALSE
    MailMayFail = FALSE
SPECIFICATION CSpec
PROPERTIES FollowsLifeCycle AloneIsAtomic
CHECK_DEADLOCK FALSE
