SPECIFICATION FairSpec
CONSTANTS
    history = history
    mail = mail
    keys = keys
    users = users
    secrets = secrets
    token = token
    readme = readme
    Name = {history, mail, keys, users, secrets, token, readme}
    Dir = {mail}
    Preserved = {token}
    Extra = {readme}
    History = history
    Restores = 2
    Has <- MCHas
    Faults = {"extract", "prepare", "move", "save", "undo", "note", "clean", "conclude"}
    MaxTroubles = 1
PROPERTIES
    ComesUp
CHECK_DEADLOCK FALSE
