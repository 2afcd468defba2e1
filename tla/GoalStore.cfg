\* Two operations and their repetitions, three Runs, two Goals.
SPECIFICATION FairSpec
CONSTANTS
    MaxOps = 2
    MaxRuns = 3
    MaxRevision = 3
    MaxGoals = 2
INVARIANTS
    CompleteHasEvidence
    ChangesWaitAlone
PROPERTIES
    RevisionsIdentify
    ProposalsRecover
