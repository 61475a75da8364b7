\* Starts cut short anywhere, on a database of any release; logins that fail.
SPECIFICATION LifeSpec
CONSTANTS
    Reports <- MCReports
    TlsReports <- MCTlsReports
    Readable <- MCReadable
    DomainOf <- MCDomainOf
    KeysOf <- MCKeysOf
    BeginOf <- MCBeginOf
    AssertionsOf <- MCAssertionsOf
    PoliciesOf <- MCPoliciesOf
    Absent = Absent
    Clients = {"c1"}
    Requests = {"q1", "q2"}
    AuthFailMax = 2
    Window = 1
    MaxTime = 3
    NoHits = NoHits
INVARIANTS
    ServesBackfilled
    RemovedStaysRemoved
    InventoryIsRange
    BlockedDeservedly
    OvershootBounded
