CONSTANTS
    Assets = {"a1", "a2", "b1"}
    Tenants = {"ta", "tb"}
    Owner <- OwnerOf
    Domain <- DomainOf
    Methods = {"email"}
    Quota <- QuotaOne
    PoolSize = 2
    Workers = {w1, w2}
    MayDie = TRUE
    MayDelete = TRUE
    None = None
SPECIFICATION Spec
SYMMETRY WorkerSymmetry
INVARIANTS SlotsKept DomainsProven
CHECK_DEADLOCK FALSE
