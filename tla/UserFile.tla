------------------------------ MODULE UserFile ------------------------------
(***************************************************************************)
(* The file behind UserStore (src/UserStore.cc): what appendUserLocked     *)
(* leaves in it, also when the disk is full, and what load() makes of it.  *)
(*                                                                         *)
(* A line holds the four string fields of one user and ends with a line    *)
(* break.  An append that fails may leave the beginning of its line; the   *)
(* next append goes on in the same line.  extractJsonStringField looks for *)
(* the quoted name of a field anywhere in the line, first match wins, and  *)
(* takes the string after the next colon.                                  *)
(***************************************************************************)
EXTENDS Subsequence

CONSTANTS Names, Passwords,
          Reserved,      \* the names that are also names of fields: "salt"
          NoUser,        \* no user of this name
          Locked         \* a user whose salt and hash do not belong together

ASSUME NamesAssumption == Reserved \subseteq Names
ASSUME CredentialAssumption == {NoUser, Locked} \cap Passwords = {} /\ NoUser # Locked

\* The fields in their order: username, role, salt, password_hash.
Field == 1..4

\* What one append left: the user, how many fields are complete, and where the
\* next one breaks off: in its name (the opening quote is there), after its name,
\* after its colon, or in its value.
Piece == [name : Names, password : Passwords, got : 0..4,
          cut : {"name", "colon", "value", "string"}]

WholePiece(n, pw) == [name |-> n, password |-> pw, got |-> 4, cut |-> "name"]

TornPieces(n, pw) ==
    {p \in Piece : p.name = n /\ p.password = pw /\ (p.got = 4 => p.cut = "name")}

\* How far a piece goes: the quoted name of field f, and the colon after it.
Named(p, f) == p.got >= f \/ (p.got = f - 1 /\ p.cut # "name")
Colon(p, f) == p.got >= f \/ (p.got = f - 1 /\ p.cut \in {"value", "string"})

\* A reserved name is found where its field is looked for.  The name "salt" does
\* this to field 3; "password_hash" does it to field 4 and is taken for the
\* former, since a whole line then loads as badly.
Mistaken(p, f) == f = 3 /\ p.name \in Reserved /\ p.got >= 1

Garbled == 0
Fail == -1

\* extractJsonStringField(line, f): the piece whose field f it returns, Garbled if
\* it returns another string, Fail if it finds none.
Extract(line, f) ==
    LET named == {i \in DOMAIN line : Named(line[i], f) \/ Mistaken(line[i], f)}
        i == First(named)
        from == IF Mistaken(line[i], f) THEN 2 ELSE f
        own == Colon(line[i], from)
        later == {j \in DOMAIN line : j > i /\ Colon(line[j], 1)}
        j == IF own THEN i ELSE First(later)
        g == IF own THEN from ELSE 1
    IN  IF named = {} \/ (~own /\ later = {}) THEN Fail
        ELSE IF line[j].got >= g THEN IF g = f THEN j ELSE Garbled
        ELSE IF line[j].cut = "string" /\ j < Len(line) THEN Garbled ELSE Fail

LineParses(line) == \A f \in Field : Extract(line, f) # Fail

\* The user of a line that parses; a garbled name is nobody's.
IsOf(line, n) == Extract(line, 1) > 0 /\ line[Extract(line, 1)].name = n

PasswordOf(line) == IF Extract(line, 3) > 0 /\ Extract(line, 4) = Extract(line, 3)
                    THEN line[Extract(line, 3)].password ELSE Locked

\* load(): users_ after the lines before the first that does not parse; of two
\* lines with one name the later counts.
Loaded(lines) ==
    LET read == {i \in DOMAIN lines : \A j \in 1..i : LineParses(lines[j])}
        of(n) == {i \in read : IsOf(lines[i], n)}
    IN  [n \in Names |-> IF of(n) = {} THEN NoUser
                         ELSE PasswordOf(lines[CHOOSE i \in of(n) : \A j \in of(n) : j <= i])]

\* The file after an append of p: on the last line if that was left open.
Extended(file, p) ==
    [lines |-> IF file.open
               THEN [file.lines EXCEPT ![Len(file.lines)] = Append(@, p)]
               ELSE Append(file.lines, <<p>>),
     open  |-> TRUE]

\* MUTANT: the line break is forgotten.
AppendedOpen(file, n, pw) == Extended(file, WholePiece(n, pw))

\* An append that succeeds ends the line.
Appended(file, n, pw) == [lines |-> Extended(file, WholePiece(n, pw)).lines, open |-> FALSE]
=============================================================================
