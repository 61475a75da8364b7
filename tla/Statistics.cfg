\* Every set of the reports, one change by the operator, two days; aggregate or
\* TLS reports; with one of them, BIMI lookups and seed mail over three days.
SPECIFICATION StatsSpec
CONSTANTS
    Pool <- MCPool
    AnyValue = AnyValue
    LabelledIPs <- MCLabelled
    MarkedSelectors <- MCMarked
    SpfOf <- MCSpfOf
    MaxEdits = 1
    FirstNow = 13
    LastNow = 15
    Thresholds <- MCThresholds
    NoPct = 1000
    Subdomains <- MCSubdomains
    OrgDomainOf <- MCOrgDomainOf
    Cfg <- MCCfg
    Filters <- MCFilters
    TlsPool <- MCTlsPool
    Canonical <- MCCanonical
    NoAddress = NoAddress
    Registered <- MCRegistered
    Lower <- MCLower
    Publishable <- MCPublishable
    Unpublished = Unpublished
    NetworkOf <- MCNetwork
    FamilyOf <- MCFamily
    WhoisOf <- MCWhois
    TlsCfg <- MCTlsCfg
    TlsFilters <- MCTlsFilters
    BimiLookups <- MCBimiLookups
    ExpiryDays = 1
    SeedMail <- MCSeedMail
    LookedUp <- MCLookedUp
    LastReported = 14
    MaxVerdicts = 3
INVARIANTS
    
    ReportersTellOnePolicy
    RulesMatchPages
CHECK_DEADLOCK FALSE
