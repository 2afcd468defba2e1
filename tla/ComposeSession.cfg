\* Two suites of one goal: the second finds the files of the first.
SPECIFICATION FairSpec
CONSTANTS
    Threads = {t1}
    Goals = {g1}
    Contents = {text}
    Absent = Absent
    NoGoal = NoGoal
    MaxWorks = 2
INVARIANTS
    OnlyTheUserConfirms
PROPERTIES
    RejectedReviewIsReworked
    TurnsEnd
