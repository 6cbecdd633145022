SPECIFICATION FairSpec
CONSTANTS
    Tabs = {t1, t2}
    MaxLogouts = 2
    MaxReloads = 1
INVARIANTS
    SignedOutEverywhere
    AnswersInOrder
PROPERTIES
    LateAnswersDoNotRestore
    LoadingEnds
