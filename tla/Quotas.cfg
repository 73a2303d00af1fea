CONSTANTS
    alice = alice
    staff = staff
    dev = dev
    Users = {alice}
    GroupSeq <- Order
    Core = 2
    DefaultPeriod = 2
    NumCPU = 4
    QuotaConfigs <- Files
    MaxPolicyEdits = 2
    MaxQuotaEdits = 1
    Bodies <- Creates
    Updates <- Changes
    MaxUpdates = 2
    EditsApart = TRUE
SPECIFICATION FairSpec
INVARIANTS TypeOK LimitsWithinQuota
PROPERTIES PolicyTakesEffect QuotaTakesEffect
