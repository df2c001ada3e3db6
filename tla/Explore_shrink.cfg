SPECIFICATION FairSpec
CONSTANTS
    Threads = {0, 1, 2}
    MaxDecisions = 5
    Seeds = 2
    Budgets = {0, 1, 3, 12}
INVARIANTS
    ExploreTypeOK
    MinimisedReproduces
    NeverWorse
    PrefixTight
    BlameBacked
PROPERTY
    SearchEnds
