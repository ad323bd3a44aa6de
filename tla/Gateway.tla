------------------------------ MODULE Gateway ------------------------------
(***************************************************************************)
(* The HTTP gateway (main.cc, HttpCodec.cc) over the connections: what one *)
(* read delivered is taken for one whole request, parsed, routed, carried  *)
(* out and answered, and the write side is closed.  The input of a         *)
(* connection is a row of parts (request line, headers, one part a field   *)
(* of the body); TCP may cut it anywhere, also inside a part, so positions *)
(* count half parts.  What is read of a part only in part is not found.    *)
(* A body is a JSON object of strings, without quotes in its strings and   *)
(* colons in its names; a name may well be the value of another field.     *)
(* That the input buffer keeps the bytes is module Buffer's; the cache,    *)
(* the provider and the accounts are ChatCache's and UserStore's.  Each    *)
(* connection is on a loop of its own, and the loops share the documents   *)
(* of the RAG store, which has no lock.                                    *)
(***************************************************************************)
EXTENDS Naturals, Sequences, SequencesExt, Subsequence

CONSTANTS Conns,
          Scripts,   \* what the clients may send: a row of requests for each connection
          Seeds      \* the documents of seedDefaults()

\* large: the body is longer than 8192 bytes.
Request == [method : STRING, path : STRING, body : Seq(STRING \X STRING), large : BOOLEAN]

ASSUME ScriptsAssumption == Scripts \subseteq [Conns -> Seq(Request)]

Docs == [{"id", "title", "content"} -> STRING]

ASSUME SeedsAssumption == /\ Seeds \in Seq(Docs)
                          /\ \A i, j \in 1..Len(Seeds) : Seeds[i].id = Seeds[j].id => i = j

VARIABLES script,    \* what the client of each connection sends
          taken,     \* how far its input has been read
          work,      \* the callback its loop is in
          state,     \* state_ of the connection
          sent,      \* history: the status of each response it sent
          whole,     \* history: what the first read held of the first request
          done,      \* history: what was carried out for it
          docs,      \* documents_
          latest,    \* history: the documents upserted, the newest of each id
          raced      \* history: a document was written while another loop used the vector

vars == <<script, taken, work, state, sent, whole, done, docs, latest, raced>>

----------------------------------------------------------------------------
(* Requests and their parts *)

\* The parts of the k-th request of a row.
Parts(r, k) ==
    LET part(kind, name, value) ==
            [kind |-> kind, name |-> name, value |-> value, of |-> r, nr |-> k]
    IN  <<part("line", "", ""), part("head", "", "")>>
        \o [i \in 1..Len(r.body) |-> part("field", r.body[i][1], r.body[i][2])]

Input(s) == FlattenSeq([k \in 1..Len(s) |-> Parts(s[k], k)])

\* The parts that a read from position a to position b holds whole.
WholeParts(s, a, b) == SubSeq(Input(s), (a + 1) \div 2 + 1, b \div 2)

\* A read from position a starts with a request.
AtStart(s, a) == a % 2 = 0 /\ Input(s)[a \div 2 + 1].kind = "line"

\* parseHttpRequest() finds a request line at the start, and the blank line.
Parses(s, a, b) == AtStart(s, a) /\ Len(WholeParts(s, a, b)) >= 2

\* MUTANT: the body is not cut to its Content-Length.
BodyUncut(ps) == SubSeq(ps, 3, Len(ps))

\* All that follows, cut to the Content-Length, which clients give with a body: the
\* fields of the request that ps starts with.
Body(ps) == LET rest == SubSeq(ps, 3, Len(ps))
            IN  Picked(rest, {i \in DOMAIN rest : rest[i].kind = "field" /\ rest[i].nr = ps[1].nr})

\* extractJsonStringField() looks for the quoted name anywhere, also among the values,
\* and takes the string after the next colon.
Fields(body) ==
    LET words == UNION {{body[i].name, body[i].value} : i \in DOMAIN body}
        at(n) == First({i \in DOMAIN body : n \in {body[i].name, body[i].value}})
        from(n) == IF body[at(n)].name = n THEN at(n) ELSE at(n) + 1
    IN  [n \in {w \in words : from(w) \in DOMAIN body} |-> body[from(n)].value]

----------------------------------------------------------------------------
(* The routes *)

Posts == {"/rag/ingest", "/mcp/call", "/chat", "/auth/register", "/auth/login"}
Gets == {"/auth/me", "/tools", "/mcp/tools"}
Pages == {"/health", "/direct", "/"}     \* any method

Required(path) == CASE path = "/rag/ingest" -> {"id", "title", "content"}
                    [] path = "/mcp/call" -> {"tool"}
                    [] path = "/chat" -> {"message"}
                    [] path \in {"/auth/register", "/auth/login"} -> {"username", "password"}
                    [] OTHER -> {}

Optional(path) == CASE path = "/mcp/call" -> {"query", "message"}
                    [] path = "/chat" -> {"tool"}
                    [] path = "/auth/register" -> {"invite_code"}
                    [] OTHER -> {}

\* The routes that limit the size of a body, and leave the emptiness of its fields to
\* the user store.
Accounts == {"/auth/register", "/auth/login"}

\* MUTANT: a field that is empty is accepted.
RefusalLenient(r, f, large) ==
    IF r.path \notin Posts \cup Gets \cup Pages THEN {"404"}
    ELSE IF (r.path \in Posts /\ r.method # "POST") \/ (r.path \in Gets /\ r.method # "GET")
    THEN {"405"}
    ELSE IF (large /\ r.path \in Accounts) \/ ~(Required(r.path) \subseteq DOMAIN f)
    THEN {"400"} ELSE {}

\* Why a route turns a request away before it does anything; nothing if it does not.
Refusal(r, f, large) ==
    IF r.path \notin Posts \cup Gets \cup Pages THEN {"404"}
    ELSE IF (r.path \in Posts /\ r.method # "POST") \/ (r.path \in Gets /\ r.method # "GET")
    THEN {"405"}
    ELSE IF \/ large /\ r.path \in Accounts
            \/ \E n \in Required(r.path) :
                  n \notin DOMAIN f \/ (f[n] = "" /\ r.path \notin Accounts)
    THEN {"400"} ELSE {}

\* ToolRegistry::createDefault()
Tools == {"project_status", "server_time", "rag_search"}

\* What the route does first with the fields it found, or its answer.
Task(path, f) ==
    CASE path = "/rag/ingest" -> "scan"
      [] path \in {"/mcp/call", "/chat"} /\ "tool" \in DOMAIN f /\ f["tool"] # "" ->
            IF f["tool"] \notin Tools THEN "400"
            ELSE IF f["tool"] = "rag_search" THEN "search" ELSE "200"
      [] OTHER -> IF path \in {"/chat", "/auth/me"} \cup Accounts THEN "ask" ELSE "200"

\* The answers of the provider, of the user store and of authentication.
Outcomes(path) == CASE path = "/chat" -> {"200", "500", "502"}
                    [] path = "/auth/register" -> {"200", "400"}
                    [] path \in {"/auth/login", "/auth/me"} -> {"200", "401"}
                    [] OTHER -> {"200"}

Statuses == {"200", "400", "401", "404", "405", "500", "502"}

\* Whether a body of which n fields were read is too long: the rest may have been, too.
Sizes(r, n) == IF n = Len(r.body) THEN {r.large} ELSE {FALSE, r.large}

Used(path, f) == [n \in DOMAIN f \cap (Required(path) \cup Optional(path)) |-> f[n]]

----------------------------------------------------------------------------
(* The callbacks *)

NoFields == [n \in {} |-> ""]
Idle == [step |-> "idle", path |-> "", fields |-> NoFields, slot |-> 0, status |-> "200"]

Reply(status) == [Idle EXCEPT !.step = "reply", !.status = status]

Begin(path, f) == LET t == Task(path, f)
                  IN  IF t \in Statuses THEN Reply(t)
                      ELSE [Idle EXCEPT !.step = t, !.path = path, !.fields = Used(path, f)]

Init == /\ script \in Scripts
        /\ taken = [c \in Conns |-> 0]
        /\ work = [c \in Conns |-> Idle]
        /\ state = [c \in Conns |-> "kConnected"]
        /\ sent = [c \in Conns |-> <<>>]
        /\ whole = [c \in Conns |-> "unread"]
        /\ done = [c \in Conns |-> {}]
        /\ docs = Seeds
        /\ latest = ToSet(Seeds)
        /\ raced = FALSE

\* handleRead(): all that has arrived is read, and onMessage takes it as a request.
Read(c, b) ==
    /\ work[c].step = "idle"
    /\ taken' = [taken EXCEPT ![c] = b]
    /\ whole' = [whole EXCEPT ![c] =
                    IF @ # "unread" THEN @
                    ELSE IF b >= 2 * Len(Parts(script[c][1], 1)) THEN "whole" ELSE "cut"]
    /\ UNCHANGED <<script, state, sent, docs, latest, raced>>

\* No request in it, or one that starts in the middle of another: the parser or a
\* route turns it away, whatever method and path are made out of it.
OnGarbled(c, b) ==
    /\ ~Parses(script[c], taken[c], b)
    /\ Read(c, b)
    /\ \E status \in IF AtStart(script[c], taken[c]) THEN {"400"} ELSE {"200", "400", "404", "405"} :
          work' = [work EXCEPT ![c] = Reply(status)]
    /\ UNCHANGED done

OnMessage(c, b) ==
    /\ Parses(script[c], taken[c], b)
    /\ Read(c, b)
    /\ LET ps == WholeParts(script[c], taken[c], b)
           r == ps[1].of
           f == Fields(Body(ps))
       IN  \E large \in Sizes(r, Len(Body(ps))) :
              LET no == Refusal(r, f, large)
              IN  IF no # {}
                  THEN /\ \E status \in no : work' = [work EXCEPT ![c] = Reply(status)]
                       /\ UNCHANGED done
                  ELSE /\ work' = [work EXCEPT ![c] = Begin(r.path, f)]
                       /\ done' = [done EXCEPT ![c] =
                                     @ \cup {[path |-> r.path, fields |-> Used(r.path, f)]}]

\* upsert() goes through the documents for the id ...
Scan(c) ==
    /\ work[c].step = "scan"
    /\ \E i \in 0..Len(docs) :
          /\ i = 0 => \A j \in 1..Len(docs) : docs[j].id # work[c].fields.id
          /\ i > 0 => /\ docs[i].id = work[c].fields.id
                      /\ \A j \in 1..(i - 1) : docs[j].id # work[c].fields.id
          /\ work' = [work EXCEPT ![c].step = "write", ![c].slot = i]
    /\ UNCHANGED <<script, taken, state, sent, whole, done, docs, latest, raced>>

\* MUTANT: a document that was found is replaced and added.
WrittenBoth(ds, i, d) == Append(IF i > 0 THEN [ds EXCEPT ![i] = d] ELSE ds, d)

Written(ds, i, d) == IF i > 0 THEN [ds EXCEPT ![i] = d] ELSE Append(ds, d)

\* ... and replaces it or adds it.  If the vector grew meanwhile, the reference may
\* point to its old memory.
Write(c) ==
    /\ work[c].step = "write"
    /\ \/ docs' = Written(docs, work[c].slot, work[c].fields)
       \/ raced /\ work[c].slot > 0 /\ UNCHANGED docs
    /\ latest' = {d \in latest : d.id # work[c].fields.id} \cup {work[c].fields}
    /\ raced' = (raced \/ \E d \in Conns \ {c} : work[d].step \in {"write", "searching"})
    /\ work' = [work EXCEPT ![c] = Reply("200")]
    /\ UNCHANGED <<script, taken, state, sent, whole, done>>

\* rag_search goes through the documents, too.
Search(c) ==
    /\ work[c].step \in {"search", "searching"}
    /\ work' = [work EXCEPT ![c] = IF @.step = "search" THEN [@ EXCEPT !.step = "searching"]
                                   ELSE Reply("200")]
    /\ UNCHANGED <<script, taken, state, sent, whole, done, docs, latest, raced>>

\* The cache and the provider, or the user store.
Ask(c) ==
    /\ work[c].step = "ask"
    /\ \E status \in Outcomes(work[c].path) : work' = [work EXCEPT ![c] = Reply(status)]
    /\ UNCHANGED <<script, taken, state, sent, whole, done, docs, latest, raced>>

\* MUTANT: send() does not look at state_.
SendAlways(c) == sent' = [sent EXCEPT ![c] = Append(@, work[c].status)]

\* MUTANT: only what succeeded is sent.
SendGood(c) == sent' = IF state[c] = "kConnected" /\ work[c].status = "200"
                       THEN [sent EXCEPT ![c] = Append(@, work[c].status)] ELSE sent

\* TcpConnection::send()
Send(c) == sent' = IF state[c] = "kConnected"
                   THEN [sent EXCEPT ![c] = Append(@, work[c].status)] ELSE sent

\* The end of onMessage: send() and shutdown().
Respond(c) ==
    /\ work[c].step = "reply"
    /\ Send(c)
    /\ state' = [state EXCEPT ![c] = "kDisconnecting"]
    /\ work' = [work EXCEPT ![c] = Idle]
    /\ UNCHANGED <<script, taken, whole, done, docs, latest, raced>>

Step(c) == Scan(c) \/ Write(c) \/ Search(c) \/ Ask(c) \/ Respond(c)

Next == \E c \in Conns :
           \/ \E b \in (taken[c] + 1)..(2 * Len(Input(script[c]))) :
                 OnGarbled(c, b) \/ OnMessage(c, b)
           \/ Step(c)

\* A callback of a loop goes on to its end (the provider call has a time-out).
Spec == Init /\ [][Next]_vars /\ \A c \in Conns : WF_vars(Step(c))

----------------------------------------------------------------------------
(* Properties *)

TypeOK == /\ \A c \in Conns : taken[c] <= 2 * Len(Input(script[c]))
          /\ \A c \in Conns : work[c].step \in {"idle", "scan", "write", "search", "searching", "ask", "reply"}
          /\ \A c \in Conns : work[c].slot <= Len(docs) /\ work[c].status \in Statuses
          /\ \A c \in Conns : work[c].step \in {"scan", "write"} => work[c].fields \in Docs
          /\ state \in [Conns -> {"kConnected", "kDisconnecting"}]
          /\ \A c \in Conns : sent[c] \in Seq(Statuses)
          /\ ToSet(docs) \cup latest \subseteq Docs
          /\ raced \in BOOLEAN

\* A connection is answered once, for its first read; what it reads later, the rest
\* of a request or another one, is never answered (send() looks at state_).
AnsweredOnce == \A c \in Conns :
    Len(sent[c]) <= 1 /\ (sent[c] = <<>> <=> state[c] = "kConnected")

\* No value of a request is a name its route looks for.  With one, an ingest of an id
\* "title" without a title is carried out, which main.cc:259 means to refuse.
Plain(r) == \A i \in 1..Len(r.body) : r.body[i][2] \notin Required(r.path) \cup Optional(r.path)

\* What is carried out has all the route requires, and all its values from one request
\* of the client, however the input was cut into reads; each is the value of the field
\* of that name, unless a value was taken for a name.
DoneAsAsked == \A c \in Conns : \A e \in done[c] : \E k \in 1..Len(script[c]) :
    LET r == script[c][k]
    IN  /\ e.path = r.path
        /\ Required(e.path) \subseteq DOMAIN e.fields
        /\ \A n \in DOMAIN e.fields : \E i \in 1..Len(r.body) :
              r.body[i][2] = e.fields[n] /\ (Plain(r) => r.body[i][1] = n)

\* A request has a field of this name; its value.
HasField(r, n) == \E i \in 1..Len(r.body) : r.body[i][1] = n
Value(r, n) == r.body[First({i \in 1..Len(r.body) : r.body[i][1] = n})][2]

\* The statuses that the routes promise to a request.
Deserved(r) ==
    LET lacks == \E n \in Required(r.path) :
                    ~HasField(r, n) \/ (Value(r, n) = "" /\ r.path \notin Accounts)
        tool == IF r.path \in {"/mcp/call", "/chat"} /\ HasField(r, "tool")
                THEN Value(r, "tool") ELSE ""
    IN  IF r.path \notin Posts \cup Gets \cup Pages THEN {"404"}
        ELSE IF r.path \in Posts /\ r.method # "POST" THEN {"405"}
        ELSE IF r.path \in Gets /\ r.method # "GET" THEN {"405"}
        ELSE IF r.path \in Accounts /\ r.large THEN {"400"}
        ELSE IF lacks THEN {"400"}
        ELSE IF tool = "" THEN Outcomes(r.path)
        ELSE IF tool \in Tools THEN {"200"} ELSE {"400"}

\* A request whose parts were all in the first read gets the answer its route promises,
\* unless one of its values is a name that is looked for.
WholeIsServed == \A c \in Conns :
    sent[c] # <<>> /\ whole[c] = "whole" /\ Plain(script[c][1])
       => sent[c][1] \in Deserved(script[c][1])

\* An ingest replaces the document of that id.
OnePerId == \A i, j \in 1..Len(docs) : docs[i].id = docs[j].id => i = j

\* As long as no two loops meet in the vector, it holds the last document ingested
\* under each id, and no other under that id.
LatestStored == ~raced => /\ ToSet(docs) = latest
                          /\ OnePerId

\* Every connection that has read something is answered.
Answered == \A c \in Conns : taken[c] > 0 ~> sent[c] # <<>>
=============================================================================
