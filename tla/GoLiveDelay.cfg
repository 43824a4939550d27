SPECIFICATION Spec
CONSTANTS
    p1 = p1  tag1 = tag1  r1 = r1  k1 = k1  k2 = k2
    Posts = {p1}
    Tags = {}
    NoTag = NoTag
    Site = Site
    Requests = {r1}
    Passes = {k1}
    Draft = Draft
    Keep = Keep
    None = None
    MaxTime = 2
    MaxRequestDelay = 1
    MaxChanges = 2
    MaxFailures = 0
INVARIANTS StaleFeedsAreCovered
