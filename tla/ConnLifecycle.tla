--------------------------- MODULE ConnLifecycle ---------------------------
(***************************************************************************)
(* What the server promises about each of its connections, without loops,  *)
(* threads, polling or buffers: the application hears of a connection once *)
(* when it comes up and once when it goes down, which is the peer's doing; *)
(* the connection is freed only after that, a response is written only     *)
(* while it is up, and the write side is shut down only after the whole    *)
(* response was written, unless the peer broke the connection.             *)
(* Reactor.tla implements this.                                            *)
(***************************************************************************)
EXTENDS Naturals

CONSTANTS Conns, ResponseLen

VARIABLES phase,    \* per connection: how far it got
          wire,     \* per connection: units of the response that were written
          fin,      \* per connection: the write side was shut down
          closed,   \* per connection: the peer closed its side
          broken    \* per connection: the peer reset it

lifeVars == <<phase, wire, fin, closed, broken>>

\* A connection that is served by the accepting thread is up at once.
Steps == {<<"idle", "new">>, <<"idle", "up">>, <<"new", "up">>,
          <<"up", "down">>, <<"down", "gone">>}

Stay(c) == phase'[c] = phase[c] /\ wire'[c] = wire[c] /\ fin'[c] = fin[c]

\* Only the peer ends a connection: the server waits for it after the response.
Advance(c) == /\ <<phase[c], phase'[c]>> \in Steps
              /\ phase'[c] = "down" => closed[c] \/ broken[c]
              /\ wire'[c] = wire[c] /\ fin'[c] = fin[c]

Respond(c) == /\ phase[c] = "up" /\ phase'[c] = "up"
              /\ ~fin[c]
              /\ wire'[c] \in wire[c]..ResponseLen
              /\ fin'[c] => wire'[c] = ResponseLen \/ broken[c]

LifeInit == /\ phase = [c \in Conns |-> "idle"]
            /\ wire = [c \in Conns |-> 0]
            /\ fin = [c \in Conns |-> FALSE]
            /\ closed = [c \in Conns |-> FALSE]
            /\ broken = [c \in Conns |-> FALSE]

\* One step of the server may free several connections at once.
LifeNext == \A c \in Conns : /\ Stay(c) \/ Advance(c) \/ Respond(c)
                             /\ closed[c] => closed'[c]
                             /\ broken[c] => broken'[c]

LifeSpec == LifeInit /\ [][LifeNext]_lifeVars
=============================================================================
