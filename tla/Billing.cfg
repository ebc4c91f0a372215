CONSTANTS
    Tenants = {t1, t2}
    Plans = {trial, pro}
    TrialPlan = trial
    MaxQuota = 2
    MaxPool = 2
    PlanStatuses = {"draft", "internal"}
    Thresholds = {28, 29}
    HasRecipient = TRUE
    MailMayFail = FALSE
SPECIFICATION Spec
INVARIANTS TypeOK PlansReferenced JournalExplains
PROPERTIES SaleGuarded NothingTakenBack SaleAnnounced
CHECK_DEADLOCK FALSE
