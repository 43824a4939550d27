SPECIFICATION FairWorkerSpec
CONSTANTS
    w1 = w1  w2 = w2  h1 = h1  ed1 = ed1  p1 = p1
    hub1 = hub1  site = site  all = all  e1 = e1  e2 = e2
    Workers = {w1, w2}
    Handlers = {}
    Editors = {}
    Paths = {p1}
    Hubs = {hub1}
    NoHub = NoHub
    Malformed = Malformed
    Identities = {site}
    NoBase = NoBase
    Windows = {all}
    NoRow = NoRow
    Free = Free
    MaxGeneration = 1
    MaxVersion = 1
    MaxFaults = 1
    EventIds = {e1}
    Corrupt = Corrupt
    Unused = Unused
    Deleted = Deleted
    BatchLimit = 2
    PruneLimit = 2
    RegenBudget = 1
    PublicationBudget = 1
    MaxLost = 1
    MaxRedrives = 0
INVARIANTS DoneMeansRegenerated
PROPERTIES EventsSettle
