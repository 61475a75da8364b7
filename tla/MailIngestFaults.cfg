\* Every kind of failure that can lose or repeat work may happen at any point.
SPECIFICATION Spec
CONSTANTS
    m1 = m1
    m2 = m2
    g1 = g1
    None = None
    Accounts = {"A", "B"}
    ProviderOf <- MCProviderOf
    Messages <- MCMessages
    AccountOf <- MCAccountOf
    Attachments <- MCAttachments
    Importers = {"fetch", "upload"}
    FormatOf <- MCFormatOf
    IdOf <- MCIdOf
    WindowOf <- MCWindowOf
    MessageOf <- MCMessageOfBad
    UploadFiles = {"copy"}
    MaxUploads = 1
    Faults = {"connect", "fetch", "decode", "move", "db", "event", "crash", "reject"}
INVARIANTS
    TypeOK
    OneRowPerReport
    LogBackedByRows
    RefusalsExplained
    ImapSeenIsReportFree
PROPERTY
    KeepsPromise
