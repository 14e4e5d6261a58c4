CONSTANTS
    Pages <- MCPages
    Contents = {c0, c1}
    Prefix <- AtRoot
    OtherFiles <- License
    Limits = {1, 2, 3, 50}
    MaxCommits = 5
    None = None
SPECIFICATION Spec
CHECK_DEADLOCK FALSE
INVARIANT
    HistoryIsThePagesChanges
PROPERTY
    PagesAreSeparate
