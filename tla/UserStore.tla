----------------------------- MODULE UserStore -----------------------------
(***************************************************************************)
(* UserStore (src/UserStore.cc): users in memory and in a file, sessions   *)
(* and registration attempts in memory only.  Each call holds mutex_ from  *)
(* end to end and is one step, unless the process dies in it.              *)
(*                                                                         *)
(* A password stands for the pair of salt and hash made from it.  Both     *)
(* clocks advance together, but the wall clock, by which sessions expire,  *)
(* may be set back; rate limits go by the steady one.                      *)
(***************************************************************************)
EXTENDS UserFile

CONSTANTS Clients,
          Limit,       \* registrationLimitPerMinute_
          Minute,      \* ticks of the steady clock in the rate limit's window
          Ttl,         \* sessionTtlSeconds_, in ticks
          Invited,     \* BOOLEAN: an invite code is configured
          MaxTime,     \* bound on the clocks
          MaxPieces,   \* bound on appends to the file
          MaxTokens    \* bound on logins

ASSUME LimitAssumption == Limit \in Nat \ {0} /\ Minute \in Nat \ {0} /\ Ttl \in Nat \ {0}
ASSUME InvitedAssumption == Invited \in BOOLEAN
ASSUME StoreBounds == MaxTime \in Nat /\ MaxPieces \in Nat /\ MaxTokens \in Nat

VARIABLES up,          \* the process runs
          file,        \* path_: its lines, and whether the last one has no end
          users,       \* users_, what load() and registrations made of it
          attempts,    \* registrationAttempts_: per client the times kept
          sessions,    \* sessions_: the tokens it has
          now, wall,   \* the steady clock and the wall clock
          issued,      \* history: per token its user and when it was issued
          refused,     \* history: the tokens found expired once
          accepted,    \* history: the token the last step accepted, 0 if none
          confirmed,   \* history: per name the password it was registered with
                       \* while the file was whole
          granted,     \* history: the registrations this process let through
          damaged      \* history: an append failed that left something in the file

storeVars == <<up, file, users, attempts, sessions, now, wall, issued, refused, accepted,
               confirmed, granted, damaged>>

disk == <<file, damaged>>
clocks == <<now, wall>>
auth == <<sessions, issued, refused>>

Token == 1..MaxTokens

\* The constructor and the first load(), of a file that does not exist.
StoreInit == /\ up = TRUE
             /\ file = [lines |-> <<>>, open |-> FALSE]
             /\ users = [n \in Names |-> NoUser]
             /\ attempts = [c \in Clients |-> <<>>]
             /\ sessions = {} /\ issued = <<>> /\ refused = {} /\ accepted = 0
             /\ now = 0 /\ wall = 0
             /\ confirmed = [n \in Names |-> NoUser]
             /\ granted = <<>>
             /\ damaged = FALSE

----------------------------------------------------------------------------
(* registerUser *)

Kept(c) == Picked(attempts[c], {i \in DOMAIN attempts[c] : attempts[c][i] >= now - Minute})

Limited(c) == Len(Kept(c)) >= Limit

\* MUTANT: attempts are forgotten when a minute has begun anew.
CountAttemptFresh(c) ==
    /\ attempts' = [attempts EXCEPT ![c] = IF Kept(c) = @ THEN Append(@, now) ELSE <<now>>]
    /\ granted' = Append(granted, [client |-> c, at |-> now])

\* MUTANT: the vector without the old attempts is not put back.
CountAttemptKeeps(c) ==
    /\ attempts' = [attempts EXCEPT ![c] = Append(@, now)]
    /\ granted' = Append(granted, [client |-> c, at |-> now])

\* isRegistrationLimitedLocked(): an attempt that is let through is counted,
\* whatever becomes of it.
CountAttempt(c) == /\ attempts' = [attempts EXCEPT ![c] = Append(Kept(c), now)]
                   /\ granted' = Append(granted, [client |-> c, at |-> now])

RefuseLimited(c) == /\ up /\ Limited(c)
                    /\ attempts' = [attempts EXCEPT ![c] = Kept(c)]
                    /\ accepted' = 0
                    /\ UNCHANGED <<up, disk, users, clocks, auth, confirmed, granted>>

\* The attempt is let through and then refused: no or another invite code, or a
\* name that is taken.
Refuse(c) == /\ up /\ ~Limited(c)
             /\ Invited \/ \E n \in Names : users[n] # NoUser
             /\ CountAttempt(c)
             /\ accepted' = 0
             /\ UNCHANGED <<up, disk, users, clocks, auth, confirmed>>

Admitted(c, n) == up /\ ~Limited(c) /\ users[n] = NoUser

\* The bound on the file and on what can be appended to it.
Pieces == UNION {{<<i, j>> : j \in DOMAIN file.lines[i]} : i \in DOMAIN file.lines}
Room == Cardinality(Pieces) < MaxPieces

\* The record goes to the file, then to the map.
Register(c, n, pw) ==
    /\ Admitted(c, n) /\ Room
    /\ CountAttempt(c)
    /\ file' = Appended(file, n, pw)
    /\ users' = [users EXCEPT ![n] = pw]
    /\ confirmed' = [confirmed EXCEPT ![n] = IF damaged THEN @ ELSE pw]
    /\ accepted' = 0
    /\ UNCHANGED <<up, clocks, auth, damaged>>

\* MUTANT: the map is written before the file.
RegisterFailsLate(c, n, pw) ==
    /\ Admitted(c, n) /\ Room
    /\ CountAttempt(c)
    /\ users' = [users EXCEPT ![n] = pw]
    /\ UNCHANGED disk
    /\ accepted' = 0
    /\ UNCHANGED <<up, clocks, auth, confirmed>>

\* The file cannot be opened, or the stream reports a failure: the caller hears of an
\* error and the map stays as it is, but the line or part of it may be in the file.
RegisterFails(c, n, pw) ==
    /\ Admitted(c, n) /\ Room
    /\ CountAttempt(c)
    /\ \/ UNCHANGED disk
       \/ /\ \/ \E p \in TornPieces(n, pw) : file' = Extended(file, p)
             \/ file' = Appended(file, n, pw)
          /\ damaged' = TRUE
    /\ accepted' = 0
    /\ UNCHANGED <<up, users, clocks, auth, confirmed>>

----------------------------------------------------------------------------
(* login and authenticateBearerToken *)

Login(n, pw) ==
    /\ up /\ users[n] = pw
    /\ Len(issued) < MaxTokens
    /\ issued' = Append(issued, [name |-> n, expires |-> wall + Ttl])
    /\ sessions' = sessions \cup {Len(issued) + 1}
    /\ accepted' = 0
    /\ UNCHANGED <<up, disk, users, attempts, clocks, refused, confirmed, granted>>

\* MUTANT: a token that has expired stays in the map.
AuthenticateKeeps(t) ==
    /\ up /\ t \in sessions
    /\ IF wall >= issued[t].expires
       THEN refused' = refused \cup {t} /\ accepted' = 0
       ELSE accepted' = t /\ UNCHANGED refused
    /\ UNCHANGED <<up, disk, users, attempts, clocks, sessions, issued, confirmed, granted>>

\* A token in the map is accepted until it expires, and erased when it is found
\* expired.  Any other token is refused and nothing changes.
Authenticate(t) ==
    /\ up /\ t \in sessions
    /\ IF wall >= issued[t].expires
       THEN sessions' = sessions \ {t} /\ refused' = refused \cup {t} /\ accepted' = 0
       ELSE accepted' = t /\ UNCHANGED <<sessions, refused>>
    /\ UNCHANGED <<up, disk, users, attempts, clocks, issued, confirmed, granted>>

----------------------------------------------------------------------------
(* Time, and the process *)

Tick == /\ now < MaxTime /\ now' = now + 1 /\ wall' = wall + 1
        /\ accepted' = 0
        /\ UNCHANGED <<up, disk, users, attempts, auth, confirmed, granted>>

SetBack == /\ wall > 0 /\ wall' = wall - 1
           /\ accepted' = 0
           /\ UNCHANGED <<up, disk, users, attempts, now, auth, confirmed, granted>>

\* The process ends; everything but the file is gone.
Stop == /\ up' = FALSE
        /\ users' = [n \in Names |-> NoUser]
        /\ attempts' = [c \in Clients |-> <<>>]
        /\ sessions' = {}
        /\ granted' = <<>>
        /\ accepted' = 0
        /\ UNCHANGED <<clocks, issued, refused, confirmed>>

Crash == up /\ Stop /\ UNCHANGED disk

\* It ends after the append and before the answer.
CrashInRegister(c, n, pw) == /\ Admitted(c, n) /\ Room
                             /\ file' = Appended(file, n, pw)
                             /\ Stop /\ UNCHANGED damaged

\* EchoServer's constructor; a load that stops half way is only logged.
Restart == /\ ~up
           /\ up' = TRUE
           /\ users' = Loaded(file.lines)
           /\ accepted' = 0
           /\ UNCHANGED <<disk, attempts, clocks, auth, confirmed, granted>>

StoreNext == \/ \E c \in Clients : \/ RefuseLimited(c) \/ Refuse(c)
                                   \/ \E n \in Names, pw \in Passwords :
                                         \/ Register(c, n, pw) \/ RegisterFails(c, n, pw)
                                         \/ CrashInRegister(c, n, pw)
             \/ \E n \in Names, pw \in Passwords : Login(n, pw)
             \/ \E t \in Token : Authenticate(t)
             \/ Tick \/ SetBack \/ Crash \/ Restart

StoreSpec == StoreInit /\ [][StoreNext]_storeVars

----------------------------------------------------------------------------
\* No client's attempts take more room than the limit.
StoreTypeOK == /\ up \in BOOLEAN
               /\ file \in [lines : Seq(Seq(Piece)), open : BOOLEAN]
               /\ users \in [Names -> Passwords \cup {NoUser, Locked}]
               /\ attempts \in [Clients -> Seq(0..MaxTime)]
               /\ \A c \in Clients : Len(attempts[c]) <= Limit
               /\ sessions \in SUBSET DOMAIN issued
               /\ now \in 0..MaxTime /\ wall \in 0..MaxTime
               /\ issued \in Seq([name : Names, expires : Nat])
               /\ refused \in SUBSET Token /\ accepted \in 0..MaxTokens
               /\ confirmed \in [Names -> Passwords \cup {NoUser}]
               /\ granted \in Seq([client : Clients, at : 0..MaxTime])
               /\ damaged \in BOOLEAN

\* An account confirmed before a failed append left anything in the file opens with its
\* password as long as the server runs, and after every restart, whatever was appended
\* later and to which line; unless its name is the name of a field of the file.
AccountsKept == \A n \in Names \ Reserved :
    up /\ confirmed[n] # NoUser => users[n] = confirmed[n]

\* Unless a failed append left something in the file, nothing is in memory that a restart
\* would not bring back, and nothing is in the file that is not in memory.
MemoryIsFile == up /\ ~damaged =>
    \A n \in Names : /\ n \notin Reserved => users[n] = Loaded(file.lines)[n]
                     /\ users[n] = NoUser <=> Loaded(file.lines)[n] = NoUser

\* No client gets more than Limit registrations looked at within a minute,
\* wherever the minute begins.
RateLimited == \A c \in Clients, from \in 0..MaxTime :
    Cardinality({i \in DOMAIN granted : /\ granted[i].client = c
                                        /\ granted[i].at \in from..(from + Minute)}) <= Limit

\* A token is accepted only before it expires and never after it was refused,
\* even if the wall clock is set back.
SessionsEnd == accepted # 0 => /\ wall < issued[accepted].expires
                               /\ accepted \notin refused

\* README.md says that user records are stored in data/users.jsonl, with no
\* exception for a name: an account opens with its password after a restart.
RecordsStored == \A n \in Names :
    up /\ confirmed[n] # NoUser => users[n] = confirmed[n]
=============================================================================
