SPECIFICATION Spec
CONSTANTS
    p1 = p1  tag1 = tag1  r1 = r1  k1 = k1  k2 = k2
    Posts = {p1}
    Tags = {tag1}
    NoTag = NoTag
    Site = Site
    Requests = {r1}
    Passes = {k1, k2}
    Draft = Draft
    Keep = Keep
    None = None
    MaxTime = 2
    MaxRequestDelay = 0
    MaxChanges = 2
    MaxFailures = 1
INVARIANTS TypeOK StaleFeedsAreCovered
SYMMETRY Symmetry
