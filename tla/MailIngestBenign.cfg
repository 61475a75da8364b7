\* Failures that lose nothing (connections, downloads), and what must eventually happen.
SPECIFICATION FairSpec
CONSTANTS
    m1 = m1
    m2 = m2
    g1 = g1
    None = None
    Accounts = {"A", "B"}
    ProviderOf <- MCProviderOf
    Messages <- MCMessages
    AccountOf <- MCAccountOf
    Attachments <- MCAttachments
    Importers = {"fetch", "upload"}
    FormatOf <- MCFormatOf
    IdOf <- MCIdOf
    WindowOf <- MCWindowOf
    MessageOf <- MCMessageOf
    UploadFiles = {"copy"}
    MaxUploads = 1
    Faults = {"connect", "fetch"}
INVARIANTS
    SeenIsReportFree
    MovedReportsImported
    EvaluatedAfterImport
    StatusTruthful
PROPERTIES
    EventuallyImported
