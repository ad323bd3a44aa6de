----------------------------- MODULE MCGateway -----------------------------
(* The clients of the gateway for TLC: two connections, each on its own loop. *)
EXTENDS Gateway

CONSTANTS c1, c2

Sent(method, path, body) == [method |-> method, path |-> path, body |-> body, large |-> FALSE]
Post(path, body) == Sent("POST", path, body)
Get(path) == Sent("GET", path, <<>>)

Doc(id, t) == <<<<"id", id>>, <<"title", t>>, <<"content", t>>>>
Ingest(id, t) == Post("/rag/ingest", Doc(id, t))
Untitled == Post("/rag/ingest", <<<<"id", "a">>, <<"content", "x">>>>)
Chat == Post("/chat", <<<<"message", "q">>, <<"tool", "rag_search">>>>)
Call(tool) == Post("/mcp/call", <<<<"tool", tool>>, <<"query", "q">>>>)
Account(path) == Post(path, <<<<"username", "u">>, <<"password", "p">>, <<"invite_code", "i">>>>)
Bulky(r) == [r EXCEPT !.large = TRUE]

\* A value that is a name: taken for the name of another field, or of one that is missing.
Mixed == Post("/rag/ingest", <<<<"id", "content">>, <<"title", "x">>, <<"content", "z">>>>)
Unnamed == Post("/rag/ingest", <<<<"id", "title">>, <<"content", "x">>>>)
MixedCall == Post("/mcp/call", <<<<"query", "tool">>, <<"message", "m">>, <<"tool", "server_time">>>>)
Empty == Post("/rag/ingest", <<<<"id", "a">>, <<"title", "">>, <<"content", "x">>>>)

Both(x, y) == [c \in Conns |-> IF c = c1 THEN x ELSE y]

\* Requests that meet in the documents; two requests of a client, cut anywhere; and
\* one of every kind.
MCScripts ==
    {Both(<<Ingest("a", "x"), Ingest("a", "z")>>, <<y>>) :
        y \in {Ingest("a", "y"), Ingest("rag", "y"), Call("rag_search")}}
    \cup {Both(<<x, y>>, <<Chat>>) :
        x \in {Untitled, Chat, Account("/auth/register")}, y \in {Ingest("a", "z"), Chat}}
    \cup {Both(<<x>>, <<Ingest("a", "y")>>) :
        x \in {Call("no_tool"), Call("server_time"), Account("/auth/login"), Get("/auth/me"),
               Get("/chat"), Post("/tools", <<>>), Get("/tools"), Get("/none"), Get("/"),
               Mixed, Unnamed, MixedCall, Empty, Bulky(Account("/auth/login"))}}

MCSeeds == <<[id |-> "rag", title |-> "s", content |-> "s"]>>
=============================================================================
