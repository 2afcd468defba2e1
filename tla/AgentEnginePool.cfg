\* Three profiles, one of them pinned, in a pool of two; two clients.  No
\* symmetry, because of the liveness property.  Everything may end closed.
SPECIFICATION FairSpec
CONSTANTS
    Profiles = {p1, p2, p3}
    Clients = {c1, c2}
    Pinned = {p3}
    MaxProfiles = 2
    NoProfile = NoProfile
CHECK_DEADLOCK FALSE
INVARIANTS
    LeasesProtect
    WaitersHaveABuild
PROPERTIES
    EnginesAsPromised
    DrainedEnginesClose
