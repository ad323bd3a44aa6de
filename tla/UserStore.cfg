\* Two names, one of them also the name of a field; one attempt too many for a
\* window of one tick; a session that outlives it.
SPECIFICATION StoreSpec
CONSTANTS
    Names = {salt, bob}
    Reserved = {salt}
    Passwords = {p1}
    NoUser = NoUser
    Locked = Locked
    Clients = {c1}
    Limit = 2
    Minute = 1
    Ttl = 1
    Invited = FALSE
    MaxTime = 2
    MaxPieces = 3
    MaxTokens = 1
INVARIANTS StoreTypeOK AccountsKept MemoryIsFile RateLimited SessionsEnd
\* clocks, logins and appends stop at their bounds
CHECK_DEADLOCK FALSE
