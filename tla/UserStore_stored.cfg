\* A user whose name is the name of a field cannot log in after a restart.
SPECIFICATION StoreSpec
CONSTANTS
    Names = {salt, bob}
    Reserved = {salt}
    Passwords = {p1}
    NoUser = NoUser
    Locked = Locked
    Clients = {c1}
    Limit = 2
    Minute = 1
    Ttl = 1
    Invited = FALSE
    MaxTime = 2
    MaxPieces = 2
    MaxTokens = 1
INVARIANTS RecordsStored
\* clocks, logins and appends stop at their bounds
CHECK_DEADLOCK FALSE
