\* Two lists, two handlers at a time, two changes of the database, two loads.
CONSTANTS
    Users = {"admin", "reviewer"}
    Lists = {"campaigns", "segments"}
    Handlers = {h1, h2}
    MaxChanges = 2
    MaxLoads = 2
SPECIFICATION FairSpec
INVARIANTS
    TypeOK
    ShownHasToken
    OwnPages
    BlankIsLoading
PROPERTIES
    ShowsItsChange
    LoadEnds
