SPECIFICATION FairSpec
CONSTANTS
    p1 = p1
    p2 = p2
    Processes = {p1, p2}
    Releases = {1, 2, 3}
    MaxFaults = 2
    Nobody = Nobody
INVARIANTS
    IndInv
    VersionExact
    ServesItsSchema
PROPERTIES
    ForwardOnly
    NewestServes
