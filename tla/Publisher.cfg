SPECIFICATION Spec
CONSTANTS
    w1 = w1  h1 = h1  e1 = e1  p1 = p1
    hub1 = hub1  hub2 = hub2  site = site  all = all
    Workers = {w1}
    Handlers = {h1}
    Editors = {e1}
    Paths = {p1}
    Hubs = {hub1, hub2}
    NoHub = NoHub
    Malformed = Malformed
    Identities = {site}
    NoBase = NoBase
    Windows = {all}
    NoRow = NoRow
    Free = Free
    MaxGeneration = 2
    MaxVersion = 1
    MaxFaults = 1
INVARIANTS CacheFromCurrentConfig PingsAreCurrent PublisherInv
PROPERTIES RepairSparesGoodHub ImplementsPublication
