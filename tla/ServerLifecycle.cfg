SPECIFICATION FairServerSpec
CONSTANTS
    j1 = j1  l1 = l1  u1 = u1  u2 = u2  o1 = o1
    Jobs = {j1}
    Loops = {l1}
    Owner = Owner
    Uploads = {u1, u2}
    OldSpools = {o1}
    Slots = 1
    Nobody = Nobody
INVARIANTS DrainInv ServerTypeOK SpoolsHoldSlots
           BytesOutliveTheirUse ReleasedMeansQuiet
PROPERTIES StopIsFinal ShutdownReturns LoopsEnd ImplementsGuard ShutdownEnds
CHECK_DEADLOCK FALSE
