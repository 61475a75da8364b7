\* Nothing fails but the process, which may die at any point.
SPECIFICATION Spec
CONSTANTS
    m1 = m1
    m2 = m2
    g1 = g1
    None = None
    Accounts = {"A", "B"}
    ProviderOf <- MCProviderOf
    Messages <- MCMessages
    AccountOf <- MCAccountOf
    Attachments <- MCAttachments
    Importers = {"fetch", "upload"}
    FormatOf <- MCFormatOf
    IdOf <- MCIdOf
    WindowOf <- MCWindowOf
    MessageOf <- MCMessageOf
    UploadFiles = {"copy"}
    MaxUploads = 0
    Faults = {"crash"}
INVARIANT
    MovedReportsImported
