SPECIFICATION FairSpec
CONSTANTS
    history = history
    mail = mail
    keys = keys
    users = users
    secrets = secrets
    token = token
    readme = readme
    Name = {history, mail, keys, users, secrets, token, readme}
    Dir = {mail}
    Preserved = {token}
    Extra = {readme}
    History = history
    Restores = 3
    Has <- MCHas
    Faults = {"extract", "prepare", "move", "save", "undo", "note", "clean"}
    MaxTroubles = 4
INVARIANTS
    TypeOK
    
    NothingLost
    CopyKept
    HistoryTrue
PROPERTIES
    SwitchesWhole
    ComesUp
CHECK_DEADLOCK FALSE
