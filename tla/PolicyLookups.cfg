SPECIFICATION LookupsSpec
CONSTANTS
    NoName = NoName
    NoDomain = NoDomain
    NoZone = NoZone
    NoUrl = NoUrl
    Self = Self
    Names <- MCNames
    Published <- MCPublished
    MailHosts <- MCMailHosts
    Addresses <- MCAddresses
    Width <- MCWidth
    MaxLookups = 6
    PublicSuffixes <- MCPublicSuffixes
    MaxQueries = 4
    TxtAnswers <- MCTxtAnswers
    BimiAnswers <- MCBimiAnswers
    LookupDomains <- MCLookupDomains
    Zones <- MCZones
    Servers <- MCServers
    Urls <- MCUrls
    Logos <- MCLogos
    Evidence <- MCEvidence
    RecordDomain <- MCRecordDomain
    MaxRedirects = 1
    CheckRevocation = TRUE
INVARIANTS
    ExpansionExact
    WalkExact
    DiscoveryExact
    RowsTellTheZone
    ValidMeansVouched
    RevocationHonest
CHECK_DEADLOCK FALSE
