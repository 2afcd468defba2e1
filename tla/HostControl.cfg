\* Two attachments, two attached Connections, a Run slot and a plugin operation;
\* no symmetry, because of the liveness property.
SPECIFICATION FairSpec
CONSTANTS
    Owner = owner
    Attached = {c1, c2}
    AttachmentIds = {a1, a2}
    NoConn = none
    NoAtt = none
    Runs = {r1}
    PluginOps = {p1}
INVARIANTS
    PermitsAreTheHolders
    HolderIsBacked
PROPERTIES
    ControlIsAsPromised
    ClosedLosesControl
