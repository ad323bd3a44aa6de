------------------------- MODULE ReactorProofs -------------------------
(***************************************************************************)
(* Theorems about Reactor for any clients, any loops of the pool, any      *)
(* number of descriptors and responses of any length.                      *)
(*                                                                         *)
(* The argument: a connection is silent, up or down, and each functor that *)
(* is queued for it says which (Fits); so no functor finds it in a state   *)
(* it is not meant for, and one that is up has none and is in connections_ *)
(***************************************************************************)
EXTENDS Reactor, TLAPS

----------------------------------------------------------------------------
(* The states of a connection, and what the handlers make of them *)

\* A connection the application has not heard of.
Silent(k) == /\ k.st = "kConnecting" /\ k.idx = "kNew" /\ k.ev = {}
             /\ k.out = 0 /\ k.sent = 0 /\ ~k.fin /\ k.ups = 0 /\ k.downs = 0

\* One it has heard is up, and not that it is down.
Up(k) == /\ k.st \in {"kConnected", "kDisconnecting"}
         /\ k.idx = "kAdded" /\ "r" \in k.ev
         /\ k.ups = 1 /\ k.downs = 0
         /\ k.sent + k.out <= ResponseLen
         /\ "w" \in k.ev <=> k.out > 0
         /\ k.st = "kConnected" => k.sent = 0 /\ k.out = 0 /\ ~k.fin
         /\ k.st = "kDisconnecting" /\ ~k.rst => k.sent + k.out = ResponseLen
         /\ k.fin => k.out = 0

\* One it has heard is down.
Down(k) == /\ k.st = "kDisconnected" /\ k.idx # "kAdded" /\ k.ev = {}
           /\ k.ups = 1 /\ k.downs = 1

\* What a handler may do to the response of a connection that stays up.
Goes(k, j) == /\ k.rst = j.rst /\ k.peerFin = j.peerFin
              /\ k.sent <= j.sent
              /\ k.fin => j.fin /\ j.sent = k.sent
              /\ j.fin /\ ~k.fin => j.sent = ResponseLen \/ j.rst

\* A connection that stays up, and one that its peer brought down.
Stays(k, j) == j \in Connection /\ Up(j) /\ Goes(k, j)
Ends(k, j) == /\ j \in Connection /\ Down(j)
              /\ j.rst = k.rst /\ j.peerFin = k.peerFin
              /\ j.sent = k.sent /\ j.fin = k.fin
              /\ k.peerFin \/ k.rst

\* Only what the kernel knows changes.
Alike(k, j) == /\ j.st = k.st /\ j.ev = k.ev /\ j.idx = k.idx /\ j.out = k.out
               /\ j.ups = k.ups /\ j.downs = k.downs /\ j.sent = k.sent /\ j.fin = k.fin
               /\ k.rst => j.rst
               /\ k.peerFin => j.peerFin

LEMMA StaysOn ==
  ASSUME NEW k \in Connection, NEW j, NEW l, Stays(k, j), Stays(j, l)
  PROVE  Stays(k, l)
<1> QED BY ResponseLenAssumption DEF Stays, Ends, Goes, Connection

LEMMA StaysSame ==
  ASSUME NEW k \in Connection, Up(k)
  PROVE  Stays(k, k)
<1> QED BY DEF Stays, Goes, Connection

LEMMA DisableWritingUp ==
  ASSUME NEW k \in Connection, k.idx = "kAdded", "r" \in k.ev
  PROVE  DisableWriting(k) = [k EXCEPT !.ev = @ \ {"w"}]
<1> QED BY DEF Update, Connection, Index, DisableWriting

LEMMA EnableWritingUp ==
  ASSUME NEW k \in Connection, k.idx = "kAdded"
  PROVE  EnableWriting(k) = [k EXCEPT !.ev = @ \cup {"w"}]
<1> QED BY DEF Update, Connection, Index, EnableWriting

LEMMA HandleCloseDown ==
  ASSUME NEW k \in Connection, Up(k)
  PROVE  /\ HandleClose(k) \in Connection /\ Down(HandleClose(k))
         /\ HandleClose(k).sent = k.sent /\ HandleClose(k).fin = k.fin
         /\ HandleClose(k).rst = k.rst /\ HandleClose(k).peerFin = k.peerFin
<1>1. PICK k1 : k1 = [k EXCEPT !.st = "kDisconnected"]
  OBVIOUS
<1>2. k1 \in Connection /\ k1.idx = "kAdded" /\ k1.st = "kDisconnected" /\ k1.downs = 0 /\ k1.ups = 1
  BY <1>1 DEF Up, Connection, State
<1>2a. k1.sent = k.sent /\ k1.fin = k.fin /\ k1.rst = k.rst /\ k1.peerFin = k.peerFin
  BY <1>1 DEF Connection
<1>3. PICK k2 : k2 = [k1 EXCEPT !.ev = {}]
  OBVIOUS
<1>4. k2 \in Connection /\ k2.idx = "kAdded" /\ k2.st = "kDisconnected" /\ k2.downs = 0 /\ k2.ev = {} /\ k2.ups = 1
  BY <1>2, <1>3 DEF Connection
<1>5. PICK k3 : k3 = [k2 EXCEPT !.idx = "kDeleted"]
  OBVIOUS
<1>6. k3 = DisableAll(k1)
  BY <1>3, <1>4, <1>5 DEF DisableAll, Update
<1>7. k3 \in Connection /\ k3.idx = "kDeleted" /\ k3.st = "kDisconnected" /\ k3.downs = 0 /\ k3.ev = {} /\ k3.ups = 1
  BY <1>4, <1>5 DEF Connection, Index
<1>8. HandleClose(k) = [k3 EXCEPT !.downs = 1]
  BY <1>1, <1>6, <1>7 DEF HandleClose
<1>9. k3.sent = k.sent /\ k3.fin = k.fin /\ k3.rst = k.rst /\ k3.peerFin = k.peerFin
  BY <1>2, <1>2a, <1>3, <1>4, <1>5 DEF Connection
<1> QED BY <1>7, <1>8, <1>9 DEF Down, Connection

LEMMA WritableType ==
  ASSUME NEW k \in Connection, NEW n \in 0..ResponseLen
  PROVE  /\ Writable(k, n) \in 0..n /\ Writable(k, n) <= k.room
         /\ k.rst => Writable(k, n) = 0
<1> QED BY ResponseLenAssumption DEF Writable, Connection

LEMMA WrittenFields ==
  ASSUME NEW k \in Connection, NEW n \in 0..ResponseLen, n <= k.room, k.sent + n <= ResponseLen
  PROVE  /\ Written(k, n) \in Connection
         /\ Written(k, n).sent = k.sent + n
         /\ Written(k, n).st = k.st /\ Written(k, n).ev = k.ev /\ Written(k, n).idx = k.idx
         /\ Written(k, n).out = k.out /\ Written(k, n).fin = k.fin
         /\ Written(k, n).peerFin = k.peerFin /\ Written(k, n).rst = k.rst
         /\ Written(k, n).ups = k.ups /\ Written(k, n).downs = k.downs
<1> USE ResponseLenAssumption
<1>1. PICK k1 : k1 = [k EXCEPT !.sent = k.sent + n]
  OBVIOUS
<1>2. k1 \in Connection
  BY <1>1 DEF Connection
<1>3. PICK k2 : k2 = [k1 EXCEPT !.room = k.room - n]
  OBVIOUS
<1>4. k2 \in Connection
  BY <1>2, <1>3 DEF Connection
<1>5. Written(k, n) = [k2 EXCEPT !.err = IF k.rst THEN FALSE ELSE @]
  BY <1>1, <1>3 DEF Written, Connection
<1>6. Written(k, n) \in Connection
  BY <1>4, <1>5 DEF Connection
<1> QED BY <1>1, <1>3, <1>2, <1>4, <1>5, <1>6 DEF Connection

LEMMA HandleWriteStays ==
  ASSUME NEW k \in Connection, Up(k)
  PROVE  Stays(k, HandleWrite(k))
<1> USE ResponseLenAssumption
<1>1. CASE ~IsWriting(k)
  BY <1>1, StaysSame DEF HandleWrite
<1>2. CASE IsWriting(k)
  <2>1. k.out > 0 /\ k.st = "kDisconnecting" /\ ~k.fin
    BY <1>2 DEF Up, IsWriting, Connection
  <2>2. PICK n : n = Writable(k, k.out)
    OBVIOUS
  <2>3. n \in 0..k.out /\ n <= k.room /\ (k.rst => n = 0) /\ n \in 0..ResponseLen
    BY <2>2, WritableType DEF Connection
  <2>4. k.sent + n <= ResponseLen
    BY <2>3 DEF Up, Connection
  <2>5. PICK w : w = Written(k, n)
    OBVIOUS
  <2>6. /\ w \in Connection /\ w.sent = k.sent + n
        /\ w.st = k.st /\ w.ev = k.ev /\ w.idx = k.idx
        /\ w.out = k.out /\ w.fin = k.fin
        /\ w.peerFin = k.peerFin /\ w.rst = k.rst
        /\ w.ups = k.ups /\ w.downs = k.downs
    BY <2>3, <2>4, <2>5, WrittenFields
  <2>7. PICK k1 : k1 = [w EXCEPT !.out = w.out - n]
    OBVIOUS
  <2>8. /\ k1 \in Connection /\ k1.sent = k.sent + n
        /\ k1.st = k.st /\ k1.ev = k.ev /\ k1.idx = k.idx
        /\ k1.out = k.out - n /\ k1.fin = k.fin
        /\ k1.peerFin = k.peerFin /\ k1.rst = k.rst
        /\ k1.ups = k.ups /\ k1.downs = k.downs
    BY <2>6, <2>7, <2>3 DEF Connection
  <2>9. CASE n = 0 \/ k1.out > 0
    <3>1. HandleWrite(k) = k1
      BY <1>2, <2>2, <2>5, <2>6, <2>7, <2>9 DEF HandleWrite
    <3>2. Up(k1)
      BY <2>1, <2>3, <2>8, <2>9 DEF Up, Connection
    <3>3. Goes(k, k1)
      BY <2>1, <2>3, <2>8 DEF Goes, Connection
    <3> QED BY <2>8, <3>1, <3>2, <3>3 DEF Stays
  <2>10. CASE n # 0 /\ k1.out = 0
    <3>1. PICK k2 : k2 = [k1 EXCEPT !.ev = k1.ev \ {"w"}]
      OBVIOUS
    <3>2. k2 = DisableWriting(k1)
      BY <2>8, <3>1, DisableWritingUp DEF Up
    <3>3. /\ k2 \in Connection /\ k2.sent = k.sent + n
          /\ k2.st = k.st /\ k2.ev = k.ev \ {"w"} /\ k2.idx = k.idx
          /\ k2.out = 0 /\ k2.fin = k.fin
          /\ k2.peerFin = k.peerFin /\ k2.rst = k.rst
          /\ k2.ups = k.ups /\ k2.downs = k.downs
      BY <2>8, <2>10, <3>1 DEF Connection
    <3>4. HandleWrite(k) = [k2 EXCEPT !.fin = TRUE]
      BY <1>2, <2>1, <2>2, <2>5, <2>6, <2>7, <2>8, <2>10, <3>2, <3>3 DEF HandleWrite, ShutdownInLoop, IsWriting
    <3>5. PICK j : j = [k2 EXCEPT !.fin = TRUE]
      OBVIOUS
    <3>6. /\ j \in Connection /\ j.sent = k.sent + n
          /\ j.st = k.st /\ j.ev = k.ev \ {"w"} /\ j.idx = k.idx
          /\ j.out = 0 /\ j.fin
          /\ j.peerFin = k.peerFin /\ j.rst = k.rst
          /\ j.ups = k.ups /\ j.downs = k.downs
      BY <3>3, <3>5 DEF Connection
    <3>7. ~k.rst /\ k.sent + k.out = ResponseLen /\ n = k.out
      BY <2>1, <2>3, <2>8, <2>10 DEF Up, Connection
    <3>8. Up(j)
      BY <2>1, <3>6, <3>7 DEF Up, Connection
    <3>9. Goes(k, j)
      BY <2>1, <3>6, <3>7, <2>3 DEF Goes, Connection
    <3> QED BY <3>4, <3>5, <3>6, <3>8, <3>9 DEF Stays
  <2> QED BY <2>3, <2>8, <2>9, <2>10 DEF Connection
<1> QED BY <1>1, <1>2


LEMMA OnMessageStays ==
  ASSUME NEW k \in Connection, Up(k)
  PROVE  Stays(k, OnMessage(k))
<1> USE ResponseLenAssumption
<1>1. CASE k.st = "kDisconnecting"
  BY <1>1, StaysSame DEF OnMessage, Send, Shutdown
<1>2. CASE k.st = "kConnected"
  <2>1. k.out = 0 /\ k.sent = 0 /\ ~k.fin /\ ~IsWriting(k)
    BY <1>2 DEF Up, IsWriting, Connection
  <2>2. PICK n : n = Writable(k, ResponseLen)
    OBVIOUS
  <2>3. n \in 0..ResponseLen /\ n <= k.room /\ (k.rst => n = 0)
    BY <2>2, WritableType
  <2>4. PICK w : w = Written(k, n)
    OBVIOUS
  <2>5. /\ w \in Connection /\ w.sent = n
        /\ w.st = k.st /\ w.ev = k.ev /\ w.idx = k.idx
        /\ w.out = 0 /\ w.fin = FALSE
        /\ w.peerFin = k.peerFin /\ w.rst = k.rst
        /\ w.ups = k.ups /\ w.downs = k.downs
    BY <2>1, <2>3, <2>4, WrittenFields DEF Connection
  <2>6. CASE k.rst \/ n = ResponseLen
    <3>1. Send(k) = w
      BY <1>2, <2>1, <2>2, <2>3, <2>4, <2>6 DEF Send, SendInLoop
    <3>2. PICK d : d = [w EXCEPT !.st = "kDisconnecting"]
      OBVIOUS
    <3>3. d \in Connection /\ d.ev = k.ev
      BY <2>5, <3>2 DEF Connection, State
    <3>4. OnMessage(k) = [d EXCEPT !.fin = TRUE]
      BY <1>2, <2>1, <2>5, <3>1, <3>2, <3>3 DEF OnMessage, Shutdown, ShutdownInLoop, IsWriting
    <3>5. PICK j : j = [d EXCEPT !.fin = TRUE]
      OBVIOUS
    <3>6. /\ j \in Connection /\ j.sent = n
          /\ j.st = "kDisconnecting" /\ j.ev = k.ev /\ j.idx = k.idx
          /\ j.out = 0 /\ j.fin
          /\ j.peerFin = k.peerFin /\ j.rst = k.rst
          /\ j.ups = k.ups /\ j.downs = k.downs
      BY <2>5, <3>2, <3>3, <3>5 DEF Connection
    <3>7. Up(j)
      BY <2>1, <2>3, <2>6, <3>6 DEF Up, Connection, IsWriting
    <3>8. Goes(k, j)
      BY <2>1, <2>3, <2>6, <3>6 DEF Goes, Connection
    <3> QED BY <3>4, <3>5, <3>6, <3>7, <3>8 DEF Stays
  <2>7. CASE ~k.rst /\ n # ResponseLen
    <3>1. PICK q : q = [w EXCEPT !.out = ResponseLen - n]
      OBVIOUS
    <3>2. /\ q \in Connection /\ q.sent = n /\ q.out = ResponseLen - n
          /\ q.st = k.st /\ q.ev = k.ev /\ q.idx = k.idx /\ q.fin = FALSE
          /\ q.peerFin = k.peerFin /\ q.rst = k.rst
          /\ q.ups = k.ups /\ q.downs = k.downs
      BY <2>3, <2>5, <3>1 DEF Connection
    <3>3. PICK e : e = [q EXCEPT !.ev = q.ev \cup {"w"}]
      OBVIOUS
    <3>4. e = EnableWriting(q)
      BY <3>2, <3>3, EnableWritingUp DEF Up
    <3>5. Send(k) = e
      <4>1. w.out + (ResponseLen - n) = ResponseLen - n /\ ResponseLen - n # 0
        BY <2>3, <2>5, <2>7
      <4> QED BY <1>2, <2>1, <2>2, <2>4, <2>5, <2>7, <3>1, <3>2, <3>4, <4>1 DEF Send, SendInLoop, IsWriting
    <3>6. e \in Connection /\ e.ev = k.ev \cup {"w"} /\ e.st = "kConnected"
      BY <1>2, <3>2, <3>3 DEF Connection
    <3>7. PICK j : j = [e EXCEPT !.st = "kDisconnecting"]
      OBVIOUS
    <3>8. /\ j \in Connection /\ j.sent = n /\ j.out = ResponseLen - n
          /\ j.st = "kDisconnecting" /\ j.ev = k.ev \cup {"w"} /\ j.idx = k.idx /\ j.fin = FALSE
          /\ j.peerFin = k.peerFin /\ j.rst = k.rst
          /\ j.ups = k.ups /\ j.downs = k.downs
      BY <3>2, <3>3, <3>6, <3>7 DEF Connection, State
    <3>9. OnMessage(k) = j
      BY <3>5, <3>6, <3>7, <3>8 DEF OnMessage, Shutdown, ShutdownInLoop, IsWriting
    <3>10. Up(j)
      BY <2>1, <2>3, <2>7, <3>8 DEF Up, Connection
    <3>11. Goes(k, j)
      BY <2>1, <2>3, <3>8 DEF Goes, Connection
    <3> QED BY <3>8, <3>9, <3>10, <3>11 DEF Stays
  <2> QED BY <2>6, <2>7
<1> QED BY <1>1, <1>2 DEF Up

LEMMA AlikeStays ==
  ASSUME NEW k \in Connection, NEW j \in Connection, Up(k), Alike(k, j),
         j.rst = k.rst, j.peerFin = k.peerFin
  PROVE  Stays(k, j)
<1>1. Up(j)
  BY DEF Up, Alike
<1>2. Goes(k, j)
  BY DEF Goes, Alike, Connection
<1> QED BY <1>1, <1>2 DEF Stays

\* A handler that changes nothing that counts here.
LEMMA Untouched ==
  ASSUME NEW k \in Connection, Up(k), NEW b \in BOOLEAN
  PROVE  Stays(k, [k EXCEPT !.err = b]) /\ Stays(k, [k EXCEPT !.rx = b])
<1>1. PICK j : j = [k EXCEPT !.err = b]
  OBVIOUS
<1>2. PICK l : l = [k EXCEPT !.rx = b]
  OBVIOUS
<1>3. Stays(k, j)
  <2>1. j \in Connection /\ Alike(k, j) /\ j.rst = k.rst /\ j.peerFin = k.peerFin
    BY <1>1 DEF Connection, Alike
  <2> QED BY <2>1, AlikeStays
<1>4. Stays(k, l)
  <2>1. l \in Connection /\ Alike(k, l) /\ l.rst = k.rst /\ l.peerFin = k.peerFin
    BY <1>2 DEF Connection, Alike
  <2> QED BY <2>1, AlikeStays
<1> QED BY <1>1, <1>2, <1>3, <1>4

LEMMA CloseEnds ==
  ASSUME NEW k \in Connection, Up(k), k.peerFin \/ k.rst
  PROVE  Ends(k, HandleClose(k))
<1> QED BY HandleCloseDown DEF Ends

LEMMA HandleReadLeaves ==
  ASSUME NEW k \in Connection, Up(k)
  PROVE  Stays(k, HandleRead(k)) \/ Ends(k, HandleRead(k))
<1>1. CASE k.rx
  <2>1. PICK j : j = [k EXCEPT !.rx = FALSE]
    OBVIOUS
  <2>2. Stays(k, j)
    BY <2>1, Untouched
  <2>3. Stays(j, OnMessage(j))
    BY <2>2, OnMessageStays DEF Stays
  <2>4. HandleRead(k) = OnMessage(j)
    BY <1>1, <2>1 DEF HandleRead
  <2> QED BY <2>2, <2>3, <2>4, StaysOn DEF Stays, Ends
<1>2. CASE ~k.rx /\ k.err
  BY <1>2, Untouched DEF HandleRead
<1>3. CASE ~k.rx /\ ~k.err
  BY <1>3, CloseEnds, StaysSame DEF HandleRead
<1> QED BY <1>1, <1>2, <1>3 DEF Connection

\* What is closed is left alone by the rest of handleEventWithGuard.
LEMMA ClosedIsLeft ==
  ASSUME NEW k \in Connection, NEW j, Ends(k, j)
  PROVE  /\ Ends(k, HandleError(j)) /\ HandleWrite(j) = j
<1>1. PICK e : e = [j EXCEPT !.err = FALSE]
  OBVIOUS
<1>2. Ends(k, e)
  BY <1>1 DEF Ends, Down, Connection
<1> QED BY <1>1, <1>2 DEF HandleError, HandleWrite, IsWriting, Ends, Down

LEMMA HandleEventLeaves ==
  ASSUME NEW k \in Connection, Up(k), NEW revents, "hup" \in revents => k.peerFin \/ k.rst
  PROVE  Stays(k, HandleEvent(k, revents)) \/ Ends(k, HandleEvent(k, revents))
<1>1. PICK k1 : k1 = IF "hup" \in revents /\ "in" \notin revents THEN HandleClose(k) ELSE k
  OBVIOUS
<1>2. PICK k2 : k2 = IF "err" \in revents THEN HandleError(k1) ELSE k1
  OBVIOUS
<1>3. PICK k3 : k3 = IF "in" \in revents THEN HandleRead(k2) ELSE k2
  OBVIOUS
<1>4. HandleEvent(k, revents) = IF "out" \in revents THEN HandleWrite(k3) ELSE k3
  BY <1>1, <1>2, <1>3 DEF HandleEvent
<1>5. CASE "hup" \in revents /\ "in" \notin revents
  <2>1. Ends(k, k1)
    BY <1>1, <1>5, CloseEnds
  <2>2. Ends(k, k2)
    BY <1>2, <2>1, ClosedIsLeft
  <2> QED BY <1>3, <1>4, <1>5, <2>2, ClosedIsLeft
<1>6. CASE ~("hup" \in revents /\ "in" \notin revents)
  <2>1. k1 = k
    BY <1>1, <1>6
  <2>2. Stays(k, k2)
    BY <1>2, <2>1, StaysSame, Untouched DEF HandleError
  <2>3. Stays(k, k3) \/ Ends(k, k3)
    <3>1. Stays(k2, k3) \/ Ends(k2, k3)
      BY <1>3, <2>2, HandleReadLeaves, StaysSame DEF Stays
    <3>2. /\ k2.sent = k.sent /\ k2.fin = k.fin
          /\ k2.rst = k.rst /\ k2.peerFin = k.peerFin
      BY <1>2, <2>1 DEF HandleError, Connection
    <3>3. CASE Ends(k2, k3)
      BY <3>2, <3>3 DEF Ends
    <3> QED BY <2>2, <3>1, <3>3, StaysOn
  <2>4. CASE Stays(k, k3)
    <3>1. Stays(k3, HandleWrite(k3))
      BY <2>4, HandleWriteStays DEF Stays
    <3>2. Stays(k, HandleWrite(k3))
      BY <2>4, <3>1, StaysOn
    <3> QED BY <1>4, <2>4, <3>2
  <2>5. CASE Ends(k, k3)
    BY <1>4, <2>5, ClosedIsLeft
  <2> QED BY <2>3, <2>4, <2>5
<1> QED BY <1>5, <1>6


LEMMA EstablishedUp ==
  ASSUME NEW k \in Connection, Silent(k)
  PROVE  LET j == ConnectEstablished(k)
         IN  /\ j \in Connection /\ Up(j) /\ j.sent = 0 /\ ~j.fin
             /\ j.rst = k.rst /\ j.peerFin = k.peerFin
<1> USE ResponseLenAssumption
<1>1. PICK k1 : k1 = [k EXCEPT !.st = "kConnected"]
  OBVIOUS
<1>2. PICK k2 : k2 = [k1 EXCEPT !.ev = k1.ev \cup {"r"}]
  OBVIOUS
<1>3. PICK k3 : k3 = [k2 EXCEPT !.idx = "kAdded"]
  OBVIOUS
<1>4. /\ k1 \in Connection /\ k1.ev = {} /\ k1.idx = "kNew" /\ k1.st = "kConnected"
      /\ k1.out = 0 /\ k1.sent = 0 /\ ~k1.fin /\ k1.ups = 0 /\ k1.downs = 0
      /\ k1.rst = k.rst /\ k1.peerFin = k.peerFin
  BY <1>1 DEF Silent, Connection, State
<1>5. /\ k2 \in Connection /\ k2.ev = {"r"} /\ k2.idx = "kNew" /\ k2.st = "kConnected"
      /\ k2.out = 0 /\ k2.sent = 0 /\ ~k2.fin /\ k2.ups = 0 /\ k2.downs = 0
      /\ k2.rst = k.rst /\ k2.peerFin = k.peerFin
  BY <1>2, <1>4 DEF Connection
<1>6. /\ k3 \in Connection /\ k3.ev = {"r"} /\ k3.idx = "kAdded" /\ k3.st = "kConnected"
      /\ k3.out = 0 /\ k3.sent = 0 /\ ~k3.fin /\ k3.ups = 0 /\ k3.downs = 0
      /\ k3.rst = k.rst /\ k3.peerFin = k.peerFin
  BY <1>3, <1>5 DEF Connection, Index
<1>7. k3 = EnableReading(k1)
  BY <1>2, <1>3, <1>5 DEF EnableReading, Update
<1>8. ConnectEstablished(k) = [k3 EXCEPT !.ups = 1]
  BY <1>1, <1>6, <1>7 DEF ConnectEstablished
<1>9. PICK j : j = [k3 EXCEPT !.ups = 1]
  OBVIOUS
<1>10. /\ j \in Connection /\ Up(j) /\ j.sent = 0 /\ ~j.fin
       /\ j.rst = k.rst /\ j.peerFin = k.peerFin
  BY <1>6, <1>9 DEF Connection, Up
<1> QED BY <1>8, <1>9, <1>10

LEMMA DestroyedDown ==
  ASSUME NEW k \in Connection, Down(k)
  PROVE  LET j == ConnectDestroyed(k)
         IN  /\ j \in Connection /\ Down(j) /\ j.sent = k.sent /\ j.fin = k.fin
             /\ j.rst = k.rst /\ j.peerFin = k.peerFin
<1>1. ConnectDestroyed(k) = [k EXCEPT !.idx = "kNew"]
  BY DEF ConnectDestroyed, Remove, Down
<1> QED BY <1>1 DEF Down, Connection, Index

----------------------------------------------------------------------------
(* The functors a loop still has to run: the rest of its batch, then its queue. *)

RestOf(b, r, p) ==
    [i \in 1..(Len(b) - r + Len(p)) |->
        IF i <= Len(b) - r THEN b[r + i] ELSE p[i - (Len(b) - r)]]
Rest(l) == RestOf(batch[l], ran[l], pending[l])

LEMMA RestType ==
  ASSUME NEW b \in Seq(Functors), NEW p \in Seq(Functors), NEW r \in 0..Len(b)
  PROVE  RestOf(b, r, p) \in [1..(Len(b) - r + Len(p)) -> Functors]
<1> QED BY DEF RestOf

LEMMA RestQueued ==
  ASSUME NEW b \in Seq(Functors), NEW p \in Seq(Functors), NEW r \in 0..Len(b), NEW t \in Functors
  PROVE  \E n \in Nat :
            /\ DOMAIN RestOf(b, r, p) = 1..n
            /\ DOMAIN RestOf(b, r, Append(p, t)) = 1..(n + 1)
            /\ \A i \in 1..n : RestOf(b, r, Append(p, t))[i] = RestOf(b, r, p)[i]
            /\ RestOf(b, r, Append(p, t))[n + 1] = t
<1> WITNESS Len(b) - r + Len(p) \in Nat
<1> QED BY DEF RestOf

LEMMA RestRan ==
  ASSUME NEW b \in Seq(Functors), NEW p \in Seq(Functors), NEW r \in 0..Len(b), r < Len(b)
  PROVE  \E n \in Nat \ {0} :
            /\ DOMAIN RestOf(b, r, p) = 1..n
            /\ DOMAIN RestOf(b, r + 1, p) = 1..(n - 1)
            /\ \A i \in 1..(n - 1) : RestOf(b, r + 1, p)[i] = RestOf(b, r, p)[i + 1]
            /\ RestOf(b, r, p)[1] = b[r + 1]
<1> WITNESS Len(b) - r + Len(p) \in Nat \ {0}
<1> QED BY DEF RestOf

LEMMA RestSwapped ==
  ASSUME NEW p \in Seq(Functors)
  PROVE  RestOf(p, 0, <<>>) = RestOf(<<>>, 0, p)
<1> QED BY DEF RestOf

LEMMA RestEnded ==
  ASSUME NEW b \in Seq(Functors), NEW p \in Seq(Functors)
  PROVE  RestOf(<<>>, 0, p) = RestOf(b, Len(b), p)
<1> QED BY DEF RestOf

----------------------------------------------------------------------------
(* The invariant *)

\* The loops' own bookkeeping.
LoopsRight == /\ \A l \in Loops : /\ ran[l] \in 0..Len(batch[l])
                                  /\ phase[l] # "run" => batch[l] = <<>> /\ ran[l] = 0
              /\ next = 0 \/ next < Len(IoLoops)

\* How far a connection got, and whether the server still lists it.
LifeRight ==
    \A c \in Conns : /\ Silent(conn[c]) \/ Up(conn[c]) \/ Down(conn[c])
                     /\ ~Accepted(c) => Silent(conn[c]) /\ c \notin connections
                     /\ Accepted(c) /\ ~Down(conn[c]) => c \in connections

\* A functor finds its connection in the state it is meant for.
Fits(l, t) ==
    LET c == t[2]
    IN  /\ Accepted(c)
        /\ t[1] = "connectEstablished" => l = loopOf[c] /\ Silent(conn[c])
        /\ t[1] = "removeConnection" => /\ l = Base /\ loopOf[c] # Base
                                        /\ Down(conn[c]) /\ c \in connections
        /\ t[1] = "connectDestroyed" => /\ l = loopOf[c]
                                        /\ Down(conn[c]) /\ c \notin connections
TasksFit == \A l \in Loops : \A i \in DOMAIN Rest(l) : Fits(l, Rest(l)[i])

\* A loop has one functor for a connection at most.
TasksOnce == \A l \in Loops : \A i, j \in DOMAIN Rest(l) :
                Rest(l)[i][2] = Rest(l)[j][2] => i = j

\* A channel in activeChannels_ is there once, and its connection is up.
ActiveRight ==
    \A l \in Loops, c \in Conns :
        /\ \A r : <<c, r>> \in active[l] =>
               /\ Accepted(c) /\ loopOf[c] = l /\ Up(conn[c])
               /\ "hup" \in r => conn[c].peerFin \/ conn[c].rst
        /\ \A r, q : <<c, r>> \in active[l] /\ <<c, q>> \in active[l] => r = q

IInv == TypeOK /\ LoopsRight /\ LifeRight /\ TasksFit /\ TasksOnce /\ ActiveRight

\* What a step does to a connection, as far as the application hears of it.
Quiet(k, j) == /\ j.ups = k.ups /\ j.downs = k.downs /\ j.sent = k.sent /\ j.fin = k.fin
               /\ k.rst => j.rst
               /\ k.peerFin => j.peerFin
Comes(k, j) == /\ Silent(k)
               /\ Silent(j) \/ Up(j)
               /\ j.sent = k.sent /\ j.fin = k.fin /\ j.rst = k.rst /\ j.peerFin = k.peerFin
Lives(c) == \/ Quiet(conn[c], conn'[c]) /\ (Accepted(c)' <=> Accepted(c))
            \/ Comes(conn[c], conn'[c]) /\ Accepted(c)'
            \/ /\ Stays(conn[c], conn'[c]) \/ (Ends(conn[c], conn'[c]) /\ Alive(c)')
               /\ Up(conn[c]) /\ Accepted(c) /\ Accepted(c)'

\* A connection that was given up stays so.
Moves == \A c \in Conns : Lives(c)
GoneStays == \A c \in Conns : Accepted(c) /\ Down(conn[c]) /\ ~Alive(c) => ~Alive(c)'

----------------------------------------------------------------------------
LEMMA LoopsType ==
  ASSUME TypeOK, LoopsRight
  PROVE  /\ Base \in Loops /\ NextLoop \in Loops
         /\ IoLoops # <<>> => /\ (next + 1) % Len(IoLoops) \in 0..Len(IoLoops)
                              /\ (next + 1) % Len(IoLoops) < Len(IoLoops)
                              /\ NextLoop # Base
<1>1. CASE IoLoops = <<>>
  BY <1>1 DEF Loops, NextLoop
<1>2. CASE IoLoops # <<>>
  <2>1. Len(IoLoops) \in Nat \ {0} /\ next \in Nat /\ next + 1 \in DOMAIN IoLoops
    BY <1>2, LoopsAssumption DEF TypeOK, LoopsRight
  <2>2. NextLoop = IoLoops[next + 1] /\ IoLoops[next + 1] # Base
    BY <1>2, <2>1, LoopsAssumption DEF NextLoop
  <2>3. Base \in Loops /\ NextLoop \in Loops
    BY <2>1, <2>2 DEF Loops
  <2>4. (next + 1) % Len(IoLoops) \in 0..(Len(IoLoops) - 1)
    BY <2>1
  <2> QED BY <2>1, <2>2, <2>3, <2>4
<1> QED BY <1>1, <1>2

LEMMA RestIsTyped ==
  ASSUME TypeOK, LoopsRight, NEW l \in Loops
  PROVE  /\ pending[l] \in Seq(Functors) /\ batch[l] \in Seq(Functors)
         /\ ran[l] \in 0..Len(batch[l])
         /\ \A i \in DOMAIN Rest(l) : Rest(l)[i] \in Functors
<1>1. pending[l] \in Seq(Functors) /\ batch[l] \in Seq(Functors) /\ ran[l] \in 0..Len(batch[l])
  BY DEF TypeOK, LoopsRight
<1>2. RestOf(batch[l], ran[l], pending[l])
         \in [1..(Len(batch[l]) - ran[l] + Len(pending[l])) -> Functors]
  BY <1>1, RestType
<1>3. \A i \in DOMAIN Rest(l) : Rest(l)[i] \in Functors
  BY <1>2 DEF Rest
<1> QED BY <1>1, <1>3

LEMMA InitHolds == Init => IInv
<1> SUFFICES ASSUME Init PROVE IInv
  OBVIOUS
<1> USE ResponseLenAssumption
<1>1. \A c \in Conns : conn[c] \in Connection /\ Silent(conn[c])
  <2> SUFFICES ASSUME NEW c \in Conns PROVE conn[c] \in Connection /\ Silent(conn[c])
    OBVIOUS
  <2>1. PICK room \in [Conns -> 0..ResponseLen] : conn = [d \in Conns |-> NewSocket(room[d])]
    BY DEF Init
  <2>2. conn[c] = NewSocket(room[c]) /\ room[c] \in 0..ResponseLen
    BY <2>1
  <2> QED BY <2>2 DEF NewSocket, Silent, Connection, State, Index
<1>2. conn \in [Conns -> Connection]
  <2>1. PICK room \in [Conns -> 0..ResponseLen] : conn = [d \in Conns |-> NewSocket(room[d])]
    BY DEF Init
  <2> QED BY <1>1, <2>1
<1>3. TypeOK
  <2>1. Base \in Loops /\ IoLoops \in Seq(STRING)
    BY LoopsAssumption DEF Loops
  <2>2. /\ client \in [Conns -> {"away", "backlog", "accepted"}]
        /\ connections \in SUBSET Conns
        /\ loopOf \in [Conns -> Loops] /\ next \in 0..Len(IoLoops)
    BY <2>1 DEF Init
  <2>3. /\ phase \in [Loops -> {"poll", "dispatch", "run"}]
        /\ active \in [Loops -> SUBSET ActiveEntries]
        /\ pending \in [Loops -> Seq(Functors)]
        /\ batch \in [Loops -> Seq(Functors)]
        /\ ran \in [Loops -> Nat]
    BY DEF Init
  <2> QED BY <1>2, <2>2, <2>3 DEF TypeOK
<1>4. LoopsRight
  BY DEF Init, LoopsRight
<1>5. LifeRight
  BY <1>1 DEF Init, LifeRight, Accepted
<1>6. TasksFit /\ TasksOnce
  <2>1. \A l \in Loops : DOMAIN Rest(l) = {}
    BY DEF Init, Rest, RestOf
  <2> QED BY <2>1 DEF TasksFit, TasksOnce
<1>7. ActiveRight
  BY DEF Init, ActiveRight
<1> QED BY <1>3, <1>4, <1>5, <1>6, <1>7 DEF IInv

\* The functors keep their places and find what they are meant for.
LEMMA TasksStay ==
  ASSUME IInv, \A l \in Loops : Rest(l)' = Rest(l),
         \A l \in Loops, t \in Functors : Fits(l, t) => Fits(l, t)'
  PROVE  TasksFit' /\ TasksOnce'
<1>1. \A l \in Loops : \A i \in DOMAIN Rest(l) : Rest(l)[i] \in Functors
  BY RestIsTyped DEF IInv
<1>2. TasksFit'
  BY <1>1 DEF IInv, TasksFit
<1>3. TasksOnce'
  BY DEF IInv, TasksOnce
<1> QED BY <1>2, <1>3


LEMMA AlikeKeeps ==
  ASSUME NEW k, NEW j, Alike(k, j)
  PROVE  /\ Silent(k) <=> Silent(j)
         /\ Up(k) => Up(j)
         /\ Down(k) <=> Down(j)
         /\ Quiet(k, j)
<1> QED BY DEF Alike, Silent, Up, Down, Quiet

LEMMA PeerKeeps ==
  ASSUME IInv, NEW c \in Conns, NEW change \in Connection, Peer(c, change), Alike(conn[c], change)
  PROVE  IInv' /\ Moves /\ GoneStays
<1>1. conn' = [conn EXCEPT ![c] = change] /\ conn \in [Conns -> Connection]
  BY DEF Peer, IInv, TypeOK
<1>2. \A d \in Conns : conn'[d] = IF d = c THEN change ELSE conn[d]
  BY <1>1
<1>3. UNCHANGED <<client, connections, loopOf, next, phase, active, pending, batch, ran>>
  BY DEF Peer, server, loops
<1>4. \A d \in Conns : Alike(conn[d], conn'[d])
  BY <1>2 DEF Alike
<1>5. TypeOK'
  BY <1>1, <1>3 DEF IInv, TypeOK
<1>6. LoopsRight'
  BY <1>3 DEF IInv, LoopsRight
<1>7. LifeRight'
  BY <1>3, <1>4, AlikeKeeps DEF IInv, LifeRight, Accepted
<1>8. TasksFit' /\ TasksOnce'
  <2>1. \A l \in Loops : Rest(l)' = Rest(l)
    BY <1>3 DEF Rest
  <2>2. \A l \in Loops, t \in Functors : Fits(l, t) => Fits(l, t)'
    BY <1>3, <1>4, AlikeKeeps DEF Fits, Accepted, Functors
  <2> QED BY <2>1, <2>2, TasksStay
<1>9. ActiveRight'
  BY <1>3, <1>4, AlikeKeeps DEF IInv, ActiveRight, Accepted, Alike
<1>10. Moves
  BY <1>3, <1>4, AlikeKeeps DEF Moves, Lives, Accepted
<1>11. GoneStays
  BY <1>3 DEF GoneStays, Alive, Tasks
<1> QED BY <1>5, <1>6, <1>7, <1>8, <1>9, <1>10, <1>11 DEF IInv

LEMMA PeerStepKeeps ==
  ASSUME IInv, NEW c \in Conns, PeerStep(c)
  PROVE  IInv' /\ Moves /\ GoneStays
<1>0. conn[c] \in Connection
  BY DEF IInv, TypeOK
<1>1. CASE PeerConnect(c)
  <2>1. /\ UNCHANGED <<conn, connections, loopOf, next, phase, active, pending, batch, ran>>
        /\ client' = [client EXCEPT ![c] = "backlog"] /\ client[c] = "away"
    BY <1>1 DEF PeerConnect, server, loops
  <2>2. client' \in [Conns -> {"away", "backlog", "accepted"}]
    BY <2>1 DEF IInv, TypeOK
  <2>3. \A d \in Conns : Accepted(d)' <=> Accepted(d)
    BY <2>1 DEF Accepted, IInv, TypeOK
  <2>4. TypeOK'
    BY <2>1, <2>2 DEF IInv, TypeOK
  <2>5. LoopsRight'
    BY <2>1 DEF IInv, LoopsRight
  <2>6. LifeRight'
    BY <2>1, <2>3 DEF IInv, LifeRight
  <2>7. TasksFit' /\ TasksOnce'
    <3>1. \A l \in Loops : Rest(l)' = Rest(l)
      BY <2>1 DEF Rest
    <3>2. \A l \in Loops, t \in Functors : Fits(l, t) => Fits(l, t)'
      BY <2>1, <2>3 DEF Fits, Functors
    <3> QED BY <3>1, <3>2, TasksStay
  <2>8. ActiveRight'
    BY <2>1, <2>3 DEF IInv, ActiveRight
  <2>9. Moves
    BY <2>1, <2>3 DEF Moves, Lives, Quiet
  <2>10. GoneStays
    BY <2>1 DEF GoneStays, Alive, Tasks
  <2> QED BY <2>4, <2>5, <2>6, <2>7, <2>8, <2>9, <2>10 DEF IInv
<1>2. CASE PeerSend(c)
  <2>1. PICK j : j = [conn[c] EXCEPT !.rx = TRUE]
    OBVIOUS
  <2>2. j \in Connection /\ Alike(conn[c], j)
    BY <1>0, <2>1 DEF Connection, Alike
  <2> QED BY <1>2, <2>1, <2>2, PeerKeeps DEF PeerSend
<1>3. CASE PeerRead(c)
  <2>1. PICK j : j = [conn[c] EXCEPT !.room = ResponseLen]
    OBVIOUS
  <2>2. j \in Connection /\ Alike(conn[c], j)
    BY <1>0, <2>1, ResponseLenAssumption DEF Connection, Alike
  <2> QED BY <1>3, <2>1, <2>2, PeerKeeps DEF PeerRead
<1>4. CASE PeerClose(c)
  <2>1. PICK j : j = [conn[c] EXCEPT !.peerFin = TRUE]
    OBVIOUS
  <2>2. j \in Connection /\ Alike(conn[c], j)
    BY <1>0, <2>1 DEF Connection, Alike
  <2> QED BY <1>4, <2>1, <2>2, PeerKeeps DEF PeerClose
<1>5. CASE PeerReset(c)
  <2>1. PICK j : j = [conn[c] EXCEPT !.rst = TRUE, !.err = TRUE]
    OBVIOUS
  <2>2. j \in Connection /\ Alike(conn[c], j)
    BY <1>0, <2>1 DEF Connection, Alike
  <2> QED BY <1>5, <2>1, <2>2, PeerKeeps DEF PeerReset
<1> QED BY <1>1, <1>2, <1>3, <1>4, <1>5 DEF PeerStep

----------------------------------------------------------------------------
(* The loop's own steps *)

\* A step that leaves the connections and their functors alone.
LEMMA LoopKeeps ==
  ASSUME IInv, UNCHANGED <<conn, client, connections, loopOf, next>>,
         \A l \in Loops : Rest(l)' = Rest(l)
  PROVE  LifeRight' /\ TasksFit' /\ TasksOnce' /\ Moves
<1>1. LifeRight'
  BY DEF IInv, LifeRight, Accepted
<1>2. TasksFit' /\ TasksOnce'
  <2>1. \A l \in Loops, t \in Functors : Fits(l, t) => Fits(l, t)'
    BY DEF Fits, Accepted
  <2> QED BY <2>1, TasksStay
<1>3. Moves
  BY DEF Moves, Lives, Quiet, Accepted
<1> QED BY <1>1, <1>2, <1>3

LEMMA PollKeeps ==
  ASSUME IInv, NEW l \in Loops, Poll(l)
  PROVE  IInv' /\ Moves /\ GoneStays
<1>1. /\ UNCHANGED <<conn, client, connections, loopOf, next, pending, batch, ran>>
      /\ active' = [active EXCEPT ![l] = Ready(l)] /\ phase' = [phase EXCEPT ![l] = "dispatch"]
      /\ phase[l] = "poll"
  BY DEF Poll, server
<1>2. \A c \in Conns : \A r : <<c, r>> \in Ready(l) =>
         /\ Accepted(c) /\ loopOf[c] = l /\ r = Revents(conn[c]) /\ r # {}
  BY ListenAssumption DEF Ready
<1>3. \A c \in Conns : Revents(conn[c]) # {} => Up(conn[c])
  <2> SUFFICES ASSUME NEW c \in Conns, Revents(conn[c]) # {} PROVE Up(conn[c])
    OBVIOUS
  <2>1. conn[c].idx = "kAdded"
    BY DEF Revents
  <2>2. Silent(conn[c]) \/ Up(conn[c]) \/ Down(conn[c])
    BY DEF IInv, LifeRight
  <2> QED BY <2>1, <2>2 DEF Silent, Down
<1>4. \A c \in Conns : "hup" \in Revents(conn[c]) => conn[c].peerFin \/ conn[c].rst
  BY DEF Revents
<1>5. Ready(l) \in SUBSET ActiveEntries
  <2>1. \A c \in Conns : Revents(conn[c]) \in SUBSET {"in", "out", "hup", "err"}
    BY DEF Revents
  <2> QED BY <2>1 DEF Ready, ActiveEntries
<1>6. TypeOK'
  <2>1. active' \in [Loops -> SUBSET ActiveEntries] /\ phase' \in [Loops -> {"poll", "dispatch", "run"}]
    BY <1>1, <1>5 DEF IInv, TypeOK
  <2> QED BY <1>1, <2>1 DEF IInv, TypeOK
<1>7. LoopsRight'
  BY <1>1 DEF IInv, TypeOK, LoopsRight
<1>8. LifeRight' /\ TasksFit' /\ TasksOnce' /\ Moves
  <2>1. \A m \in Loops : Rest(m)' = Rest(m)
    BY <1>1 DEF Rest
  <2> QED BY <1>1, <2>1, LoopKeeps
<1>9. ActiveRight'
  <2> SUFFICES ASSUME NEW m \in Loops, NEW c \in Conns
               PROVE  /\ \A r : <<c, r>> \in active'[m] =>
                             /\ Accepted(c) /\ loopOf[c] = m /\ Up(conn[c])
                             /\ "hup" \in r => conn[c].peerFin \/ conn[c].rst
                      /\ \A r, q : <<c, r>> \in active'[m] /\ <<c, q>> \in active'[m] => r = q
    BY <1>1 DEF ActiveRight, Accepted
  <2>1. CASE m = l
    <3>1. active'[m] = Ready(l)
      BY <1>1, <2>1 DEF IInv, TypeOK
    <3> QED BY <1>2, <1>3, <1>4, <2>1, <3>1
  <2>2. CASE m # l
    <3>1. active'[m] = active[m]
      BY <1>1, <2>2 DEF IInv, TypeOK
    <3> QED BY <3>1 DEF IInv, ActiveRight
  <2> QED BY <2>1, <2>2
<1>10. GoneStays
  BY <1>1 DEF GoneStays, Alive, Tasks
<1> QED BY <1>6, <1>7, <1>8, <1>9, <1>10 DEF IInv

LEMMA SwapKeeps ==
  ASSUME IInv, NEW l \in Loops, DoPendingFunctors(l)
  PROVE  IInv' /\ Moves /\ GoneStays
<1>1. /\ UNCHANGED <<conn, client, connections, loopOf, next, active>>
      /\ batch' = [batch EXCEPT ![l] = pending[l]] /\ pending' = [pending EXCEPT ![l] = <<>>]
      /\ ran' = [ran EXCEPT ![l] = 0] /\ phase' = [phase EXCEPT ![l] = "run"]
      /\ phase[l] = "dispatch"
  BY DEF DoPendingFunctors, server
<1>2. batch[l] = <<>> /\ ran[l] = 0
  BY <1>1 DEF IInv, LoopsRight
<1>3. TypeOK'
  <2>1. /\ batch' \in [Loops -> Seq(Functors)] /\ pending' \in [Loops -> Seq(Functors)]
        /\ ran' \in [Loops -> Nat] /\ phase' \in [Loops -> {"poll", "dispatch", "run"}]
    BY <1>1 DEF IInv, TypeOK
  <2> QED BY <1>1, <2>1 DEF IInv, TypeOK
<1>4. LoopsRight'
  BY <1>1 DEF IInv, TypeOK, LoopsRight
<1>5. \A m \in Loops : Rest(m)' = Rest(m)
  <2> SUFFICES ASSUME NEW m \in Loops PROVE Rest(m)' = Rest(m)
    OBVIOUS
  <2>1. CASE m = l
    <3>1. batch'[m] = pending[l] /\ pending'[m] = <<>> /\ ran'[m] = 0 /\ pending[l] \in Seq(Functors)
      BY <1>1, <2>1 DEF IInv, TypeOK
    <3> QED BY <1>2, <2>1, <3>1, RestSwapped DEF Rest
  <2>2. CASE m # l
    <3>1. batch'[m] = batch[m] /\ pending'[m] = pending[m] /\ ran'[m] = ran[m]
      BY <1>1, <2>2 DEF IInv, TypeOK
    <3> QED BY <3>1 DEF Rest
  <2> QED BY <2>1, <2>2
<1>6. LifeRight' /\ TasksFit' /\ TasksOnce' /\ Moves
  BY <1>1, <1>5, LoopKeeps
<1>7. ActiveRight'
  BY <1>1 DEF IInv, ActiveRight, Accepted
<1>8. GoneStays
  <2>1. \A m \in Loops : Tasks(m)' \subseteq Tasks(m)
    <3> SUFFICES ASSUME NEW m \in Loops PROVE Tasks(m)' \subseteq Tasks(m)
      OBVIOUS
    <3>1. CASE m = l
      <4>1. batch'[m] = pending[l] /\ pending'[m] = <<>>
        BY <1>1, <3>1 DEF IInv, TypeOK
      <4> QED BY <3>1, <4>1 DEF Tasks
    <3>2. CASE m # l
      <4>1. batch'[m] = batch[m] /\ pending'[m] = pending[m]
        BY <1>1, <3>2 DEF IInv, TypeOK
      <4> QED BY <4>1 DEF Tasks
    <3> QED BY <3>1, <3>2
  <2> QED BY <1>1, <2>1 DEF GoneStays, Alive
<1> QED BY <1>3, <1>4, <1>6, <1>7, <1>8 DEF IInv

LEMMA EndBatchKeeps ==
  ASSUME IInv, NEW l \in Loops, EndBatch(l)
  PROVE  IInv' /\ Moves /\ GoneStays
<1>1. /\ UNCHANGED <<conn, client, connections, loopOf, next, active, pending>>
      /\ batch' = [batch EXCEPT ![l] = <<>>]
      /\ ran' = [ran EXCEPT ![l] = 0] /\ phase' = [phase EXCEPT ![l] = "poll"]
      /\ ran[l] = Len(batch[l])
  BY DEF EndBatch, server
<1>2. TypeOK'
  <2>1. /\ batch' \in [Loops -> Seq(Functors)]
        /\ ran' \in [Loops -> Nat] /\ phase' \in [Loops -> {"poll", "dispatch", "run"}]
    BY <1>1 DEF IInv, TypeOK
  <2> QED BY <1>1, <2>1 DEF IInv, TypeOK
<1>3. LoopsRight'
  BY <1>1 DEF IInv, TypeOK, LoopsRight
<1>4. \A m \in Loops : Rest(m)' = Rest(m)
  <2> SUFFICES ASSUME NEW m \in Loops PROVE Rest(m)' = Rest(m)
    OBVIOUS
  <2>1. CASE m = l
    <3>1. batch'[m] = <<>> /\ ran'[m] = 0 /\ pending[l] \in Seq(Functors) /\ batch[l] \in Seq(Functors)
      BY <1>1, <2>1 DEF IInv, TypeOK
    <3> QED BY <1>1, <2>1, <3>1, RestEnded DEF Rest
  <2>2. CASE m # l
    <3>1. batch'[m] = batch[m] /\ ran'[m] = ran[m]
      BY <1>1, <2>2 DEF IInv, TypeOK
    <3> QED BY <1>1, <3>1 DEF Rest
  <2> QED BY <2>1, <2>2
<1>5. LifeRight' /\ TasksFit' /\ TasksOnce' /\ Moves
  BY <1>1, <1>4, LoopKeeps
<1>6. ActiveRight'
  BY <1>1 DEF IInv, ActiveRight, Accepted
<1>7. GoneStays
  <2>1. \A m \in Loops : Tasks(m)' \subseteq Tasks(m)
    <3> SUFFICES ASSUME NEW m \in Loops PROVE Tasks(m)' \subseteq Tasks(m)
      OBVIOUS
    <3>1. batch'[m] = batch[m] \/ batch'[m] = <<>>
      BY <1>1 DEF IInv, TypeOK
    <3> QED BY <1>1, <3>1 DEF Tasks
  <2> QED BY <1>1, <2>1 DEF GoneStays, Alive
<1> QED BY <1>2, <1>3, <1>5, <1>6, <1>7 DEF IInv

----------------------------------------------------------------------------
(* Functors that are queued and run *)

\* No functor is left for this connection.
NoTask(c) == \A l \in Loops : \A i \in DOMAIN Rest(l) : Rest(l)[i][2] # c

\* After a step about c, loop l has functors of other connections, as before, and
\* those of T.
Follows(l, c, T) ==
    /\ \A i \in DOMAIN Rest(l)' :
          \/ Rest(l)'[i] \in T
          \/ Rest(l)'[i] \in Functors /\ Rest(l)'[i][2] # c /\ Fits(l, Rest(l)'[i])
    /\ \A i, j \in DOMAIN Rest(l)' : Rest(l)'[i][2] = Rest(l)'[j][2] => i = j

LEMMA UpHasNoTask ==
  ASSUME IInv, NEW c \in Conns, Up(conn[c]) \/ ~Accepted(c)
  PROVE  NoTask(c)
<1> SUFFICES ASSUME NEW l \in Loops, NEW i \in DOMAIN Rest(l), Rest(l)[i][2] = c
             PROVE  FALSE
  BY DEF NoTask
<1>1. Rest(l)[i] \in Functors /\ Fits(l, Rest(l)[i])
  BY RestIsTyped DEF IInv, TasksFit
<1>2. Accepted(c) /\ (Silent(conn[c]) \/ Down(conn[c]))
  BY <1>1 DEF Functors, Fits
<1> QED BY <1>2 DEF Up, Silent, Down

LEMMA FollowsSame ==
  ASSUME IInv, NEW l \in Loops, NEW c \in Conns, Rest(l)' = Rest(l),
         \A i \in DOMAIN Rest(l) : Rest(l)[i][2] # c
  PROVE  Follows(l, c, {})
<1> QED BY RestIsTyped DEF Follows, IInv, TasksFit, TasksOnce

LEMMA FollowsRan ==
  ASSUME IInv, NEW l \in Loops, NEW c \in Conns,
         ran[l] < Len(batch[l]), batch[l][ran[l] + 1][2] = c,
         batch'[l] = batch[l], ran'[l] = ran[l] + 1, pending'[l] = pending[l]
  PROVE  Follows(l, c, {})
<1>1. /\ pending[l] \in Seq(Functors) /\ batch[l] \in Seq(Functors) /\ ran[l] \in 0..Len(batch[l])
      /\ \A i \in DOMAIN Rest(l) : Rest(l)[i] \in Functors
  BY RestIsTyped DEF IInv
<1>2. PICK n \in Nat \ {0} :
         /\ DOMAIN Rest(l) = 1..n /\ DOMAIN Rest(l)' = 1..(n - 1)
         /\ \A i \in 1..(n - 1) : Rest(l)'[i] = Rest(l)[i + 1]
         /\ Rest(l)[1] = batch[l][ran[l] + 1]
  <2>1. Rest(l) = RestOf(batch[l], ran[l], pending[l]) /\ Rest(l)' = RestOf(batch[l], ran[l] + 1, pending[l])
    BY DEF Rest
  <2>2. \E n \in Nat \ {0} :
            /\ DOMAIN RestOf(batch[l], ran[l], pending[l]) = 1..n
            /\ DOMAIN RestOf(batch[l], ran[l] + 1, pending[l]) = 1..(n - 1)
            /\ \A i \in 1..(n - 1) :
                  RestOf(batch[l], ran[l] + 1, pending[l])[i] = RestOf(batch[l], ran[l], pending[l])[i + 1]
            /\ RestOf(batch[l], ran[l], pending[l])[1] = batch[l][ran[l] + 1]
    BY <1>1, RestRan
  <2> QED BY <2>1, <2>2
<1>3. \A i, j \in 1..n : Rest(l)[i][2] = Rest(l)[j][2] => i = j
  BY <1>2 DEF IInv, TasksOnce
<1>4. \A i \in 1..(n - 1) : i + 1 \in 1..n /\ i + 1 # 1 /\ 1 \in 1..n
  BY <1>2
<1>5. \A i \in 1..(n - 1) :
         Rest(l)'[i] \in Functors /\ Rest(l)'[i][2] # c /\ Fits(l, Rest(l)'[i])
  <2> SUFFICES ASSUME NEW i \in 1..(n - 1)
               PROVE  Rest(l)'[i] \in Functors /\ Rest(l)'[i][2] # c /\ Fits(l, Rest(l)'[i])
    OBVIOUS
  <2>1. Rest(l)'[i] = Rest(l)[i + 1] /\ i + 1 \in 1..n /\ i + 1 # 1 /\ 1 \in 1..n
    BY <1>2, <1>4
  <2>2. Rest(l)[1][2] = c
    BY <1>2
  <2>3. Rest(l)[i + 1][2] # c
    BY <1>3, <2>1, <2>2
  <2>4. Rest(l)[i + 1] \in Functors /\ Fits(l, Rest(l)[i + 1])
    BY <1>1, <1>2, <2>1 DEF IInv, TasksFit
  <2> QED BY <2>1, <2>3, <2>4
<1>6. \A i, j \in 1..(n - 1) : Rest(l)'[i][2] = Rest(l)'[j][2] => i = j
  <2> SUFFICES ASSUME NEW i \in 1..(n - 1), NEW j \in 1..(n - 1), Rest(l)'[i][2] = Rest(l)'[j][2]
               PROVE  i = j
    OBVIOUS
  <2>1. Rest(l)[i + 1][2] = Rest(l)[j + 1][2] /\ i + 1 \in 1..n /\ j + 1 \in 1..n
    BY <1>2, <1>4
  <2>2. i + 1 = j + 1
    BY <1>3, <2>1
  <2> QED BY <2>2
<1> QED BY <1>2, <1>5, <1>6 DEF Follows

LEMMA FollowsQueued ==
  ASSUME IInv, NEW l \in Loops, NEW c \in Conns, NEW t \in Functors, t[2] = c,
         \A i \in DOMAIN Rest(l) : Rest(l)[i][2] # c,
         batch'[l] = batch[l], ran'[l] = ran[l], pending'[l] = Append(pending[l], t)
  PROVE  Follows(l, c, {t})
<1>1. /\ pending[l] \in Seq(Functors) /\ batch[l] \in Seq(Functors) /\ ran[l] \in 0..Len(batch[l])
      /\ \A i \in DOMAIN Rest(l) : Rest(l)[i] \in Functors
  BY RestIsTyped DEF IInv
<1>2. PICK n \in Nat :
         /\ DOMAIN Rest(l) = 1..n /\ DOMAIN Rest(l)' = 1..(n + 1)
         /\ \A i \in 1..n : Rest(l)'[i] = Rest(l)[i]
         /\ Rest(l)'[n + 1] = t
  <2>1. Rest(l) = RestOf(batch[l], ran[l], pending[l]) /\ Rest(l)' = RestOf(batch[l], ran[l], Append(pending[l], t))
    BY DEF Rest
  <2>2. \E n \in Nat :
            /\ DOMAIN RestOf(batch[l], ran[l], pending[l]) = 1..n
            /\ DOMAIN RestOf(batch[l], ran[l], Append(pending[l], t)) = 1..(n + 1)
            /\ \A i \in 1..n :
                  RestOf(batch[l], ran[l], Append(pending[l], t))[i] = RestOf(batch[l], ran[l], pending[l])[i]
            /\ RestOf(batch[l], ran[l], Append(pending[l], t))[n + 1] = t
    BY <1>1, RestQueued
  <2> QED BY <2>1, <2>2
<1>3. \A i \in 1..(n + 1) : i = n + 1 \/ i \in 1..n
  BY <1>2
<1>4. \A i \in 1..n : Fits(l, Rest(l)[i])
  BY <1>2 DEF IInv, TasksFit
<1>5. \A i, j \in 1..n : Rest(l)[i][2] = Rest(l)[j][2] => i = j
  BY <1>2 DEF IInv, TasksOnce
<1>6. \A i \in 1..(n + 1) :
         \/ Rest(l)'[i] \in {t}
         \/ Rest(l)'[i] \in Functors /\ Rest(l)'[i][2] # c /\ Fits(l, Rest(l)'[i])
  <2> SUFFICES ASSUME NEW i \in 1..n
               PROVE  Rest(l)'[i] \in Functors /\ Rest(l)'[i][2] # c /\ Fits(l, Rest(l)'[i])
    BY <1>2, <1>3
  <2>1. Rest(l)'[i] = Rest(l)[i] /\ i \in DOMAIN Rest(l)
    BY <1>2
  <2> QED BY <1>1, <1>4, <2>1
<1>7. \A i, j \in 1..(n + 1) : Rest(l)'[i][2] = Rest(l)'[j][2] => i = j
  <2> SUFFICES ASSUME NEW i \in 1..(n + 1), NEW j \in 1..(n + 1), Rest(l)'[i][2] = Rest(l)'[j][2]
               PROVE  i = j
    OBVIOUS
  <2>1. CASE i \in 1..n /\ j \in 1..n
    BY <1>2, <1>5, <2>1
  <2>2. \A m \in 1..n : Rest(l)'[m][2] # c
    BY <1>2
  <2>3. Rest(l)'[n + 1][2] = c
    BY <1>2
  <2> QED BY <1>3, <2>1, <2>2, <2>3
<1> QED BY <1>2, <1>6, <1>7 DEF Follows
LEMMA FitsElsewhere ==
  ASSUME NEW c \in Conns,
         \A d \in Conns \ {c} :
            /\ conn'[d] = conn[d] /\ loopOf'[d] = loopOf[d]
            /\ Accepted(d)' <=> Accepted(d)
            /\ d \in connections' <=> d \in connections
  PROVE  \A l \in Loops, u \in Functors : u[2] # c /\ Fits(l, u) => Fits(l, u)'
<1> QED BY DEF Fits, Functors

LEMMA TasksFollow ==
  ASSUME IInv, NEW c \in Conns,
         \A l \in Loops, u \in Functors : u[2] # c /\ Fits(l, u) => Fits(l, u)',
         \A l \in Loops : \E T : Follows(l, c, T) /\ \A t \in T : Fits(l, t)'
  PROVE  TasksFit' /\ TasksOnce'
<1>1. TasksFit'
  <2> SUFFICES ASSUME NEW l \in Loops, NEW i \in DOMAIN Rest(l)'
               PROVE  Fits(l, Rest(l)[i])'
    BY DEF TasksFit
  <2>1. PICK T : Follows(l, c, T) /\ \A t \in T : Fits(l, t)'
    OBVIOUS
  <2>2. PICK u : u = Rest(l)'[i]
    OBVIOUS
  <2>3. Fits(l, u)'
    BY <2>1, <2>2 DEF Follows
  <2> QED BY <2>2, <2>3 DEF Fits
<1>2. TasksOnce'
  BY DEF TasksOnce, Follows
<1> QED BY <1>1, <1>2

LEMMA AliveFollows ==
  ASSUME IInv, NEW c \in Conns, connections' \subseteq connections \cup {c},
         ~Accepted(c) \/ Alive(c),
         \A l \in Loops : \A t \in Tasks(l)' : t \in Tasks(l) \/ t[2] = c
  PROVE  GoneStays
<1> QED BY DEF GoneStays, Alive

\* A step about one connection leaves the others as they were, and what holds of
\* this one and of its functors and active channels makes the rest.
LEMMA OneConn ==
  ASSUME IInv, NEW c \in Conns,
         \A d \in Conns \ {c} :
            /\ conn'[d] = conn[d] /\ loopOf'[d] = loopOf[d]
            /\ Accepted(d)' <=> Accepted(d)
            /\ d \in connections' <=> d \in connections,
         Silent(conn'[c]) \/ Up(conn'[c]) \/ Down(conn'[c]), Accepted(c)',
         Down(conn'[c]) \/ c \in connections',
         \A l \in Loops : \E T : Follows(l, c, T) /\ \A t \in T : Fits(l, t)',
         \A l \in Loops : active'[l] \subseteq active[l],
         \A l \in Loops : \A r : <<c, r>> \in active'[l] =>
            /\ loopOf'[c] = l /\ Up(conn'[c])
            /\ "hup" \in r => conn'[c].peerFin \/ conn'[c].rst,
         Lives(c)
  PROVE  LifeRight' /\ TasksFit' /\ TasksOnce' /\ ActiveRight' /\ Moves
<1>1. LifeRight'
  BY DEF IInv, LifeRight
<1>2. TasksFit' /\ TasksOnce'
  BY FitsElsewhere, TasksFollow
<1>3. ActiveRight'
  <2> SUFFICES ASSUME NEW l \in Loops, NEW d \in Conns
               PROVE  /\ \A r : <<d, r>> \in active'[l] =>
                             /\ Accepted(d)' /\ loopOf'[d] = l /\ Up(conn'[d])
                             /\ "hup" \in r => conn'[d].peerFin \/ conn'[d].rst
                      /\ \A r, q : <<d, r>> \in active'[l] /\ <<d, q>> \in active'[l] => r = q
    BY DEF ActiveRight
  <2>1. \A r : <<d, r>> \in active'[l] => <<d, r>> \in active[l]
    OBVIOUS
  <2>2. CASE d = c
    BY <2>1, <2>2 DEF IInv, ActiveRight
  <2>3. CASE d # c
    BY <2>1, <2>3 DEF IInv, ActiveRight
  <2> QED BY <2>2, <2>3
<1>4. Moves
  <2> SUFFICES ASSUME NEW d \in Conns, d # c PROVE Lives(d)
    BY DEF Moves
  <2> QED BY DEF Lives, Quiet
<1> QED BY <1>1, <1>2, <1>3, <1>4

\* The next functor of a batch is the only one of its connection, and fits.
LEMMA FunctorRuns ==
  ASSUME IInv, NEW l \in Loops, NEW c \in Conns, NEW kind,
         kind \in {"connectEstablished", "removeConnection", "connectDestroyed"},
         RunFunctor(l, kind, c)
  PROVE  /\ Fits(l, <<kind, c>>) /\ Alive(c)
         /\ \A m \in Loops \ {l} : \A i \in DOMAIN Rest(m) : Rest(m)[i][2] # c
<1>1. /\ pending[l] \in Seq(Functors) /\ batch[l] \in Seq(Functors) /\ ran[l] \in 0..Len(batch[l])
      /\ ran[l] < Len(batch[l]) /\ batch[l][ran[l] + 1] = <<kind, c>>
  BY RestIsTyped DEF IInv, RunFunctor
<1>2. 1 \in DOMAIN Rest(l) /\ Rest(l)[1] = <<kind, c>>
  BY <1>1 DEF Rest, RestOf
<1>3. Fits(l, <<kind, c>>)
  BY <1>2 DEF IInv, TasksFit
<1>4. Alive(c)
  <2>1. batch[l][ran[l] + 1] \in Tasks(l)
    BY <1>1 DEF Tasks
  <2> QED BY <1>1, <2>1 DEF Alive
<1>5. ASSUME NEW m \in Loops \ {l}, NEW i \in DOMAIN Rest(m), Rest(m)[i][2] = c
      PROVE  FALSE
  <2>1. Rest(m)[i] \in Functors /\ Fits(m, Rest(m)[i])
    BY RestIsTyped DEF IInv, TasksFit
  <2>2. PICK k \in {"connectEstablished", "removeConnection", "connectDestroyed"} : Rest(m)[i] = <<k, c>>
    BY <1>5, <2>1 DEF Functors
  <2>3. Fits(m, <<k, c>>)
    BY <2>1, <2>2
  <2> QED BY <1>3, <1>5, <2>3 DEF Fits, Silent, Down
<1> QED BY <1>3, <1>4, <1>5

LEMMA Queued ==
  ASSUME IInv, NEW m \in Loops, NEW t \in Functors, Queue(m, t), UNCHANGED batch
  PROVE  /\ pending' \in [Loops -> Seq(Functors)]
         /\ pending'[m] = Append(pending[m], t)
         /\ \A l \in Loops \ {m} : pending'[l] = pending[l]
         /\ \A l \in Loops : \A u \in Tasks(l)' : u \in Tasks(l) \/ u = t
         /\ t \in Tasks(m)'
<1>1. pending \in [Loops -> Seq(Functors)] /\ pending' = [pending EXCEPT ![m] = Append(pending[m], t)]
  BY DEF IInv, TypeOK, Queue
<1>2. /\ pending' \in [Loops -> Seq(Functors)]
      /\ pending'[m] = Append(pending[m], t) /\ pending[m] \in Seq(Functors)
      /\ \A l \in Loops \ {m} : pending'[l] = pending[l]
  BY <1>1
<1>3. ASSUME NEW l \in Loops, NEW u \in Tasks(l)'
      PROVE  u \in Tasks(l) \/ u = t
  <2>1. CASE \E i \in DOMAIN batch[l] : u = batch[l][i]
    BY <2>1 DEF Tasks
  <2>2. CASE \E i \in DOMAIN pending'[l] : u = pending'[l][i]
    <3>1. PICK i \in DOMAIN pending'[l] : u = pending'[l][i]
      BY <2>2
    <3>2. CASE l = m
      <4>1. (i \in DOMAIN pending[l] /\ u = pending[l][i]) \/ u = t
        BY <1>2, <3>1, <3>2
      <4> QED BY <4>1 DEF Tasks
    <3>3. CASE l # m
      BY <1>2, <3>1, <3>3 DEF Tasks
    <3> QED BY <3>2, <3>3
  <2> QED BY <2>1, <2>2 DEF Tasks
<1>4. t \in Tasks(m)'
  <2>1. Len(pending[m]) + 1 \in DOMAIN pending'[m] /\ pending'[m][Len(pending[m]) + 1] = t
    BY <1>2
  <2> QED BY <2>1 DEF Tasks
<1> QED BY <1>2, <1>3, <1>4

\* What a step queues about a connection without functors is all there is of it.
LEMMA QueuedFollows ==
  ASSUME IInv, NEW c \in Conns, NoTask(c), UNCHANGED <<batch, ran>>,
         NEW m \in Loops, NEW t \in Functors, t[2] = c, Queue(m, t), Fits(m, t)'
  PROVE  \A l \in Loops : \E T : Follows(l, c, T) /\ \A u \in T : Fits(l, u)'
<1> SUFFICES ASSUME NEW l \in Loops
             PROVE  \E T : Follows(l, c, T) /\ \A u \in T : Fits(l, u)'
  OBVIOUS
<1>1. CASE l = m
  <2>1. Follows(l, c, {t})
    BY <1>1, Queued, FollowsQueued DEF NoTask
  <2>2. \A u \in {t} : Fits(l, u)'
    BY <1>1 DEF Fits
  <2> QED BY <2>1, <2>2
<1>2. CASE l # m
  <2>1. Rest(l)' = Rest(l)
    BY <1>2, Queued DEF Rest
  <2>2. Follows(l, c, {})
    BY <2>1, FollowsSame DEF NoTask
  <2> QED BY <2>2
<1> QED BY <1>1, <1>2

LEMMA HandleConnKeeps ==
  ASSUME IInv, NEW l \in Loops, NEW c \in Conns, HandleConn(l, c)
  PROVE  IInv' /\ Moves /\ GoneStays
<1>1. PICK revents \in SUBSET {"in", "out", "hup", "err"} :
         /\ <<c, revents>> \in active[l]
         /\ active' = [active EXCEPT ![l] = active[l] \ {<<c, revents>>}]
         /\ LET k == HandleEvent(conn[c], revents)
            IN  IF ~Alive(c) THEN UNCHANGED <<conn, connections, pending>>
                ELSE /\ conn' = [conn EXCEPT ![c] = k]
                     /\ IF k.downs > conn[c].downs
                        THEN RemoveConnection(l, c)
                        ELSE UNCHANGED <<connections, pending>>
  BY DEF HandleConn
<1>2. UNCHANGED <<client, loopOf, next, phase, batch, ran>>
  BY DEF HandleConn
<1>3. /\ Accepted(c) /\ loopOf[c] = l /\ Up(conn[c]) /\ conn[c] \in Connection
      /\ "hup" \in revents => conn[c].peerFin \/ conn[c].rst
      /\ \A r : <<c, r>> \in active[l] => r = revents
      /\ \A m \in Loops : \A r : <<c, r>> \in active[m] => m = l
  BY <1>1 DEF IInv, ActiveRight, TypeOK
<1>4. c \in connections /\ Alive(c) /\ NoTask(c)
  BY <1>3, UpHasNoTask DEF IInv, LifeRight, Up, Down, Alive
<1>5. PICK k : k = HandleEvent(conn[c], revents)
  OBVIOUS
<1>6. Stays(conn[c], k) \/ Ends(conn[c], k)
  BY <1>3, <1>5, HandleEventLeaves
<1>7. /\ conn' = [conn EXCEPT ![c] = k]
      /\ IF k.downs > conn[c].downs THEN RemoveConnection(l, c) ELSE UNCHANGED <<connections, pending>>
  BY <1>1, <1>4, <1>5
<1>8. /\ conn' \in [Conns -> Connection] /\ conn'[c] = k
      /\ \A d \in Conns \ {c} : conn'[d] = conn[d]
  BY <1>6, <1>7 DEF IInv, TypeOK, Stays, Ends
<1>9. /\ active' \in [Loops -> SUBSET ActiveEntries]
      /\ \A m \in Loops : active'[m] \subseteq active[m]
      /\ \A m \in Loops : \A r : <<c, r>> \notin active'[m]
  <2>1. \A m \in Loops : active'[m] = IF m = l THEN active[l] \ {<<c, revents>>} ELSE active[m]
    BY <1>1 DEF IInv, TypeOK
  <2>2. active' \in [Loops -> SUBSET ActiveEntries]
    BY <1>1 DEF IInv, TypeOK
  <2> QED BY <1>3, <2>1, <2>2
<1>10. Accepted(c)' /\ \A d \in Conns \ {c} : Accepted(d)' <=> Accepted(d)
  BY <1>2, <1>3 DEF Accepted
<1>11. LoopsRight'
  BY <1>2 DEF IInv, LoopsRight
<1>12. CASE Stays(conn[c], k)
  <2>1. UNCHANGED <<connections, pending>> /\ Up(k)
    BY <1>3, <1>7, <1>12 DEF Stays, Up
  <2>2. \A m \in Loops : \E T : Follows(m, c, T) /\ \A t \in T : Fits(m, t)'
    <3> SUFFICES ASSUME NEW m \in Loops PROVE Follows(m, c, {})
      OBVIOUS
    <3>1. Rest(m)' = Rest(m)
      BY <1>2, <2>1 DEF Rest
    <3> QED BY <1>4, <3>1, FollowsSame DEF NoTask
  <2>3. TypeOK'
    BY <1>2, <1>8, <1>9, <2>1 DEF IInv, TypeOK
  <2>4. LifeRight' /\ TasksFit' /\ TasksOnce' /\ ActiveRight' /\ Moves
    <3>1. Lives(c)
      BY <1>3, <1>8, <1>10, <1>12 DEF Lives
    <3> QED BY <1>2, <1>4, <1>8, <1>9, <1>10, <2>1, <2>2, <3>1, OneConn
  <2>5. GoneStays
    BY <1>2, <2>1 DEF GoneStays, Alive, Tasks
  <2> QED BY <1>11, <2>3, <2>4, <2>5 DEF IInv
<1>13. CASE Ends(conn[c], k)
  <2>1. RemoveConnection(l, c) /\ Down(k)
    BY <1>3, <1>7, <1>13 DEF Ends, Up, Down
  <2>2. PICK t, m :
           /\ t \in Functors /\ t[2] = c /\ m \in Loops /\ Queue(m, t) /\ Fits(m, t)'
           /\ connections' \subseteq connections
           /\ connections' \in SUBSET Conns
           /\ \A d \in Conns \ {c} : d \in connections' <=> d \in connections
    <3>1. CASE l = Base
      <4>1. connections' = connections \ {c} /\ Queue(l, <<"connectDestroyed", c>>)
        BY <1>3, <2>1, <3>1 DEF RemoveConnection, RemoveConnectionInLoop
      <4>2. Fits(l, <<"connectDestroyed", c>>)'
        BY <1>2, <1>3, <1>8, <1>10, <2>1, <4>1 DEF Fits
      <4>3. <<"connectDestroyed", c>> \in Functors /\ connections \in SUBSET Conns
        BY DEF Functors, IInv, TypeOK
      <4> QED BY <4>1, <4>2, <4>3
    <3>2. CASE l # Base
      <4>1. UNCHANGED connections /\ Queue(Base, <<"removeConnection", c>>)
        BY <2>1, <3>2 DEF RemoveConnection
      <4>2. Fits(Base, <<"removeConnection", c>>)'
        BY <1>2, <1>3, <1>4, <1>8, <1>10, <2>1, <3>2, <4>1 DEF Fits
      <4>3. /\ <<"removeConnection", c>> \in Functors /\ connections \in SUBSET Conns
            /\ Base \in Loops
        BY DEF Functors, IInv, TypeOK, Loops
      <4> QED BY <4>1, <4>2, <4>3
    <3> QED BY <3>1, <3>2
  <2>3. \A n \in Loops : \E T : Follows(n, c, T) /\ \A u \in T : Fits(n, u)'
    BY <1>2, <1>4, <2>2, QueuedFollows
  <2>4. TypeOK'
    BY <1>2, <1>8, <1>9, <2>2, Queued DEF IInv, TypeOK
  <2>5. LifeRight' /\ TasksFit' /\ TasksOnce' /\ ActiveRight' /\ Moves
    <3>1. Alive(c)'
      BY <1>2, <2>2, Queued DEF Alive
    <3>2. Lives(c)
      BY <1>3, <1>8, <1>10, <1>13, <3>1 DEF Lives
    <3> QED BY <1>2, <1>8, <1>9, <1>10, <2>1, <2>2, <2>3, <3>2, OneConn
  <2>6. GoneStays
    <3>1. \A n \in Loops : \A u \in Tasks(n)' : u \in Tasks(n) \/ u[2] = c
      BY <1>2, <2>2, Queued
    <3> QED BY <1>4, <2>2, <3>1, AliveFollows
  <2> QED BY <1>11, <2>4, <2>5, <2>6 DEF IInv
<1> QED BY <1>6, <1>12, <1>13

\* A channel in activeChannels_ belongs to a connection that is up.
LEMMA NotActive ==
  ASSUME IInv, NEW c \in Conns, ~Up(conn[c])
  PROVE  \A l \in Loops : \A r : <<c, r>> \notin active[l]
<1> QED BY DEF IInv, ActiveRight

LEMMA NewConnectionKeeps ==
  ASSUME IInv, NEW c \in Conns, client[c] = "backlog", NewConnection(c, NextLoop),
         active' \in [Loops -> SUBSET ActiveEntries],
         \A l \in Loops : active'[l] \subseteq active[l],
         UNCHANGED <<phase, batch, ran>>
  PROVE  IInv' /\ Moves /\ GoneStays
<1>0. PICK n : n = NextLoop
  OBVIOUS
<1>1. /\ ~Accepted(c) /\ Silent(conn[c]) /\ c \notin connections /\ conn[c] \in Connection
      /\ n \in Loops /\ (IoLoops # <<>> => n # Base)
  BY <1>0, LoopsType DEF Accepted, IInv, LifeRight, TypeOK
<1>2. /\ NoTask(c) /\ ~Up(conn[c])
  BY <1>1, UpHasNoTask DEF Silent, Up
<1>3. /\ client' \in [Conns -> {"away", "backlog", "accepted"}]
      /\ loopOf' \in [Conns -> Loops] /\ loopOf'[c] = n
      /\ connections' = connections \cup {c} /\ connections' \in SUBSET Conns
      /\ Accepted(c)'
      /\ \A d \in Conns \ {c} : loopOf'[d] = loopOf[d] /\ (Accepted(d)' <=> Accepted(d))
  BY <1>0, <1>1 DEF NewConnection, IInv, TypeOK, Accepted
<1>4. next' \in 0..Len(IoLoops) /\ (next' = 0 \/ next' < Len(IoLoops))
  BY LoopsType DEF NewConnection, IInv, TypeOK, LoopsRight
<1>5. PICK k : k = ConnectEstablished(conn[c])
  OBVIOUS
<1>6. k \in Connection /\ Up(k) /\ Comes(conn[c], k)
  <2>1. /\ k \in Connection /\ Up(k) /\ k.sent = 0 /\ ~k.fin
        /\ k.rst = conn[c].rst /\ k.peerFin = conn[c].peerFin
    BY <1>1, <1>5, EstablishedUp
  <2>2. k.sent = conn[c].sent /\ k.fin = conn[c].fin
    BY <1>1, <2>1 DEF Silent, Connection
  <2> QED BY <1>1, <2>1, <2>2 DEF Comes
<1>7. \A m \in Loops : \A r : <<c, r>> \notin active'[m]
  BY <1>2, NotActive
<1>8. LoopsRight'
  BY <1>4 DEF IInv, LoopsRight
<1>9. CASE n = Base
  <2>1. conn' = [conn EXCEPT ![c] = k] /\ UNCHANGED pending
    BY <1>0, <1>5, <1>9 DEF NewConnection
  <2>2. /\ conn' \in [Conns -> Connection] /\ conn'[c] = k
        /\ \A d \in Conns \ {c} : conn'[d] = conn[d]
    BY <1>6, <2>1 DEF IInv, TypeOK
  <2>3. \A m \in Loops : \E T : Follows(m, c, T) /\ \A t \in T : Fits(m, t)'
    <3> SUFFICES ASSUME NEW m \in Loops PROVE Follows(m, c, {})
      OBVIOUS
    <3>1. Rest(m)' = Rest(m)
      BY <2>1 DEF Rest
    <3> QED BY <1>2, <3>1, FollowsSame DEF NoTask
  <2>4. TypeOK'
    BY <1>3, <1>4, <2>1, <2>2 DEF IInv, TypeOK
  <2>5. Lives(c)
    BY <1>3, <1>6, <2>2 DEF Lives
  <2>6. LifeRight' /\ TasksFit' /\ TasksOnce' /\ ActiveRight' /\ Moves
    BY <1>3, <1>6, <1>7, <2>2, <2>3, <2>5, OneConn
  <2>7. GoneStays
    <3>1. \A m \in Loops : \A u \in Tasks(m)' : u \in Tasks(m)
      BY <2>1 DEF Tasks
    <3> QED BY <1>1, <1>3, <3>1, AliveFollows
  <2> QED BY <1>8, <2>4, <2>6, <2>7 DEF IInv
<1>10. CASE n # Base
  <2> DEFINE t == <<"connectEstablished", c>>
  <2>1. UNCHANGED conn /\ Queue(n, t)
    BY <1>0, <1>10 DEF NewConnection
  <2>2. t \in Functors /\ t[2] = c
    BY DEF Functors
  <2>3. Fits(n, t)'
    BY <1>1, <1>3, <2>1 DEF Fits
  <2>4. \A m \in Loops : \E T : Follows(m, c, T) /\ \A u \in T : Fits(m, u)'
    BY <1>1, <1>2, <2>1, <2>2, <2>3, QueuedFollows
  <2>5. TypeOK'
    BY <1>1, <1>3, <1>4, <2>1, <2>2, Queued DEF IInv, TypeOK
  <2>6. Lives(c)
    BY <1>1, <1>3, <2>1 DEF Lives, Comes
  <2>7. LifeRight' /\ TasksFit' /\ TasksOnce' /\ ActiveRight' /\ Moves
    BY <1>1, <1>3, <1>7, <2>1, <2>4, <2>6, OneConn
  <2>8. GoneStays
    <3>1. \A m \in Loops : \A u \in Tasks(m)' : u \in Tasks(m) \/ u[2] = c
      BY <1>1, <2>1, <2>2, Queued
    <3> QED BY <1>1, <1>3, <3>1, AliveFollows
  <2> QED BY <1>8, <2>5, <2>7, <2>8 DEF IInv
<1> QED BY <1>9, <1>10

LEMMA HandleAcceptKeeps ==
  ASSUME IInv, HandleAccept
  PROVE  IInv' /\ Moves /\ GoneStays
<1>1. /\ active' = [active EXCEPT ![Base] = active[Base] \ {<<Listen, {"in"}>>}]
      /\ UNCHANGED <<phase, batch, ran>>
  BY DEF HandleAccept
<1>2. /\ active' \in [Loops -> SUBSET ActiveEntries]
      /\ \A l \in Loops : active'[l] \subseteq active[l]
  BY <1>1 DEF IInv, TypeOK
<1>3. CASE \E c \in Conns : client[c] = "backlog" /\ NewConnection(c, NextLoop)
  BY <1>1, <1>2, <1>3, NewConnectionKeeps
<1>4. CASE UNCHANGED <<conn, client, server, pending>>
  <2>1. UNCHANGED <<conn, client, connections, loopOf, next, pending>>
    BY <1>4 DEF server
  <2>2. LifeRight' /\ TasksFit' /\ TasksOnce' /\ Moves
    <3>1. \A m \in Loops : Rest(m)' = Rest(m)
      BY <1>1, <2>1 DEF Rest
    <3> QED BY <2>1, <3>1, LoopKeeps
  <2>3. ActiveRight'
    BY <1>2, <2>1 DEF IInv, ActiveRight, Accepted
  <2>4. GoneStays
    BY <1>1, <2>1 DEF GoneStays, Alive, Tasks
  <2>5. TypeOK' /\ LoopsRight'
    BY <1>1, <1>2, <2>1 DEF IInv, TypeOK, LoopsRight
  <2> QED BY <2>2, <2>3, <2>4, <2>5 DEF IInv
<1> QED BY <1>3, <1>4 DEF HandleAccept

\* What the functors of a batch have in common when they run.
LEMMA RunKeeps ==
  ASSUME IInv, NEW l \in Loops, NEW c \in Conns, NEW kind,
         kind \in {"connectEstablished", "removeConnection", "connectDestroyed"},
         RunFunctor(l, kind, c)
  PROVE  /\ UNCHANGED <<client, loopOf, next, phase, active, batch>>
         /\ ran' \in [Loops -> Nat]
         /\ \A m \in Loops \ {l} : ran'[m] = ran[m]
         /\ LoopsRight'
         /\ pending'[l] = pending[l] => Follows(l, c, {})
         /\ \A m \in Loops \ {l} : pending'[m] = pending[m] => Follows(m, c, {})
<1>1. /\ UNCHANGED <<client, loopOf, next, phase, active, batch>>
      /\ ran' = [ran EXCEPT ![l] = ran[l] + 1] /\ phase[l] = "run"
      /\ ran[l] < Len(batch[l]) /\ batch[l][ran[l] + 1] = <<kind, c>>
  BY DEF RunFunctor
<1>2. /\ ran' \in [Loops -> Nat] /\ ran'[l] = ran[l] + 1
      /\ \A m \in Loops \ {l} : ran'[m] = ran[m]
  BY <1>1 DEF IInv, TypeOK
<1>3. LoopsRight'
  <2>1. ran[l] + 1 \in 0..Len(batch[l])
    BY <1>1 DEF IInv, TypeOK, LoopsRight
  <2> QED BY <1>1, <1>2, <2>1 DEF IInv, LoopsRight
<1>4. pending'[l] = pending[l] => Follows(l, c, {})
  BY <1>1, <1>2, FollowsRan
<1>5. ASSUME NEW m \in Loops \ {l}, pending'[m] = pending[m]
      PROVE  Follows(m, c, {})
  <2>1. Rest(m)' = Rest(m)
    BY <1>1, <1>2, <1>5 DEF Rest
  <2> QED BY <2>1, FunctorRuns, FollowsSame
<1> QED BY <1>1, <1>2, <1>3, <1>4, <1>5

\* A functor that changes its connection and queues nothing.
LEMMA ChangeKeeps ==
  ASSUME IInv, NEW l \in Loops, NEW c \in Conns, NEW kind,
         kind \in {"connectEstablished", "connectDestroyed"},
         RunFunctor(l, kind, c), NEW k \in Connection,
         conn' = [conn EXCEPT ![c] = k], UNCHANGED <<connections, pending>>,
         Up(k) \/ Down(k), Down(k) \/ c \in connections, Lives(c)
  PROVE  IInv' /\ Moves /\ GoneStays
<1>1. /\ conn' \in [Conns -> Connection] /\ conn'[c] = k
      /\ \A d \in Conns \ {c} : conn'[d] = conn[d]
  BY DEF IInv, TypeOK
<1>2. /\ UNCHANGED <<client, loopOf, next, phase, active, batch>>
      /\ ran' \in [Loops -> Nat] /\ LoopsRight'
  BY RunKeeps
<1>3. Fits(l, <<kind, c>>) /\ Alive(c)
  BY FunctorRuns
<1>4. Accepted(c) /\ ~Up(conn[c])
  BY <1>3 DEF Fits, Silent, Up, Down
<1>5. \A m \in Loops : \E T : Follows(m, c, T) /\ \A t \in T : Fits(m, t)'
  <2> SUFFICES ASSUME NEW m \in Loops PROVE Follows(m, c, {})
    OBVIOUS
  <2> QED BY RunKeeps
<1>6. TypeOK'
  BY <1>1, <1>2 DEF IInv, TypeOK
<1>7. Accepted(c)' /\ \A d \in Conns \ {c} : Accepted(d)' <=> Accepted(d)
  BY <1>2, <1>4 DEF Accepted
<1>8. LifeRight' /\ TasksFit' /\ TasksOnce' /\ ActiveRight' /\ Moves
  <2>1. \A m \in Loops : \A r : <<c, r>> \notin active'[m]
    BY <1>2, <1>4, NotActive
  <2> QED BY <1>1, <1>2, <1>5, <1>7, <2>1, OneConn
<1>9. GoneStays
  BY <1>2 DEF GoneStays, Alive, Tasks
<1> QED BY <1>2, <1>6, <1>8, <1>9 DEF IInv

LEMMA RunConnectEstablishedKeeps ==
  ASSUME IInv, NEW l \in Loops, NEW c \in Conns, RunConnectEstablished(l, c)
  PROVE  IInv' /\ Moves /\ GoneStays
<1>1. PICK k : k = ConnectEstablished(conn[c])
  OBVIOUS
<1>2. /\ RunFunctor(l, "connectEstablished", c)
      /\ conn' = [conn EXCEPT ![c] = k] /\ UNCHANGED <<connections, pending>>
  BY <1>1 DEF RunConnectEstablished
<1>3. conn[c] \in Connection /\ Silent(conn[c]) /\ Accepted(c)
  BY <1>2, FunctorRuns DEF Fits, IInv, TypeOK
<1>4. c \in connections
  BY <1>3 DEF IInv, LifeRight, Silent, Down
<1>5. /\ k \in Connection /\ Up(k) /\ k.sent = 0 /\ ~k.fin
      /\ k.rst = conn[c].rst /\ k.peerFin = conn[c].peerFin
  BY <1>1, <1>3, EstablishedUp
<1>6. conn'[c] = k /\ Accepted(c)'
  BY <1>2, <1>3, RunKeeps DEF IInv, TypeOK, Accepted
<1>7. k.sent = conn[c].sent /\ k.fin = conn[c].fin
  BY <1>3, <1>5 DEF Silent, Connection
<1>8. Lives(c)
  BY <1>3, <1>5, <1>6, <1>7 DEF Lives, Comes
<1> QED BY <1>2, <1>4, <1>5, <1>8, ChangeKeeps

LEMMA RunConnectDestroyedKeeps ==
  ASSUME IInv, NEW l \in Loops, NEW c \in Conns, RunConnectDestroyed(l, c)
  PROVE  IInv' /\ Moves /\ GoneStays
<1>1. PICK k : k = ConnectDestroyed(conn[c])
  OBVIOUS
<1>2. /\ RunFunctor(l, "connectDestroyed", c)
      /\ conn' = [conn EXCEPT ![c] = k] /\ UNCHANGED <<connections, pending>>
  BY <1>1 DEF RunConnectDestroyed
<1>3. conn[c] \in Connection /\ Down(conn[c]) /\ Accepted(c)
  BY <1>2, FunctorRuns DEF Fits, IInv, TypeOK
<1>4. /\ k \in Connection /\ Down(k) /\ k.sent = conn[c].sent /\ k.fin = conn[c].fin
      /\ k.rst = conn[c].rst /\ k.peerFin = conn[c].peerFin
  BY <1>1, <1>3, DestroyedDown
<1>5. conn'[c] = k /\ (Accepted(c)' <=> Accepted(c))
  BY <1>2, RunKeeps DEF IInv, TypeOK, Accepted
<1>6. Lives(c)
  BY <1>3, <1>4, <1>5 DEF Lives, Quiet, Down
<1> QED BY <1>2, <1>4, <1>6, ChangeKeeps

LEMMA RunRemoveConnectionKeeps ==
  ASSUME IInv, NEW l \in Loops, NEW c \in Conns, RunRemoveConnection(l, c)
  PROVE  IInv' /\ Moves /\ GoneStays
<1>0. PICK m : m = loopOf[c]
  OBVIOUS
<1>1. PICK t : t = <<"connectDestroyed", c>>
  OBVIOUS
<1>2. /\ RunFunctor(l, "removeConnection", c)
      /\ connections' = connections \ {c} /\ Queue(m, t) /\ UNCHANGED conn
  BY <1>0, <1>1 DEF RunRemoveConnection, RemoveConnectionInLoop
<1>3. /\ l = Base /\ m \in Loops \ {l} /\ Down(conn[c]) /\ Accepted(c) /\ Alive(c)
  BY <1>0, <1>2, FunctorRuns DEF Fits, IInv, TypeOK
<1>4. t \in Functors /\ t[2] = c
  BY <1>1 DEF Functors
<1>5. /\ UNCHANGED <<client, loopOf, next, phase, active, batch>>
      /\ ran' \in [Loops -> Nat] /\ LoopsRight'
      /\ \A n \in Loops \ {l} : ran'[n] = ran[n]
  BY <1>2, RunKeeps
<1>6. Fits(m, t)'
  BY <1>0, <1>1, <1>2, <1>3, <1>5 DEF Fits, Accepted
<1>7. /\ pending' \in [Loops -> Seq(Functors)]
      /\ pending'[m] = Append(pending[m], t)
      /\ \A n \in Loops \ {m} : pending'[n] = pending[n]
      /\ \A n \in Loops : \A u \in Tasks(n)' : u \in Tasks(n) \/ u = t
  BY <1>2, <1>3, <1>4, <1>5, Queued
<1>8. \A n \in Loops : \E T : Follows(n, c, T) /\ \A u \in T : Fits(n, u)'
  <2> SUFFICES ASSUME NEW n \in Loops
               PROVE  \E T : Follows(n, c, T) /\ \A u \in T : Fits(n, u)'
    OBVIOUS
  <2>1. CASE n = m
    <3>1. \A i \in DOMAIN Rest(m) : Rest(m)[i][2] # c
      BY <1>2, <1>3, FunctorRuns
    <3>2. Follows(m, c, {t})
      BY <1>3, <1>4, <1>5, <1>7, <3>1, FollowsQueued
    <3>3. \A u \in {t} : Fits(m, u)'
      BY <1>6 DEF Fits
    <3> QED BY <2>1, <3>2, <3>3
  <2>2. CASE n # m
    <3>1. Follows(n, c, {})
      BY <1>2, <1>7, <2>2, RunKeeps
    <3> QED BY <3>1
  <2> QED BY <2>1, <2>2
<1>9. TypeOK'
  BY <1>2, <1>5, <1>7 DEF IInv, TypeOK
<1>10. Accepted(c)' /\ \A d \in Conns \ {c} : Accepted(d)' <=> Accepted(d)
  BY <1>3, <1>5 DEF Accepted
<1>11. Lives(c)
  BY <1>2, <1>3, <1>10 DEF Lives, Quiet
<1>12. LifeRight' /\ TasksFit' /\ TasksOnce' /\ ActiveRight' /\ Moves
  <2>1. \A n \in Loops : \A r : <<c, r>> \notin active'[n]
    BY <1>3, <1>5, NotActive DEF Up, Down
  <2> QED BY <1>2, <1>3, <1>5, <1>8, <1>10, <1>11, <2>1, OneConn
<1>13. GoneStays
  <2>1. \A n \in Loops : \A u \in Tasks(n)' : u \in Tasks(n) \/ u[2] = c
    BY <1>4, <1>7
  <2> QED BY <1>2, <1>3, <2>1, AliveFollows
<1> QED BY <1>5, <1>9, <1>12, <1>13 DEF IInv

LEMMA StepKeeps ==
  ASSUME IInv, Next
  PROVE  IInv' /\ Moves /\ GoneStays
<1>1. CASE HandleAccept
  BY <1>1, HandleAcceptKeeps
<1>2. CASE \E c \in Conns : PeerStep(c)
  BY <1>2, PeerStepKeeps
<1>3. ASSUME NEW l \in Loops, LoopStep(l)
      PROVE  IInv' /\ Moves /\ GoneStays
  <2>1. CASE Poll(l)
    BY <2>1, PollKeeps
  <2>2. CASE DoPendingFunctors(l)
    BY <2>2, SwapKeeps
  <2>3. CASE EndBatch(l)
    BY <2>3, EndBatchKeeps
  <2>4. ASSUME NEW c \in Conns, HandleConn(l, c)
        PROVE  IInv' /\ Moves /\ GoneStays
    BY <2>4, HandleConnKeeps
  <2>5. ASSUME NEW c \in Conns, RunConnectEstablished(l, c)
        PROVE  IInv' /\ Moves /\ GoneStays
    BY <2>5, RunConnectEstablishedKeeps
  <2>6. ASSUME NEW c \in Conns, RunRemoveConnection(l, c)
        PROVE  IInv' /\ Moves /\ GoneStays
    BY <2>6, RunRemoveConnectionKeeps
  <2>7. ASSUME NEW c \in Conns, RunConnectDestroyed(l, c)
        PROVE  IInv' /\ Moves /\ GoneStays
    BY <2>7, RunConnectDestroyedKeeps
  <2> QED BY <1>3, <2>1, <2>2, <2>3, <2>4, <2>5, <2>6, <2>7 DEF LoopStep
<1> QED BY <1>1, <1>2, <1>3 DEF Next

LEMMA StutterKeeps ==
  ASSUME IInv, UNCHANGED vars
  PROVE  IInv'
<1>1. UNCHANGED <<conn, client, connections, loopOf, next, phase, active, pending, batch, ran>>
  BY DEF vars
<1>2. \A l \in Loops : Rest(l)' = Rest(l)
  BY <1>1 DEF Rest
<1>3. LifeRight' /\ TasksFit' /\ TasksOnce'
  BY <1>1, <1>2, LoopKeeps
<1>4. TypeOK' /\ LoopsRight' /\ ActiveRight'
  BY <1>1 DEF IInv, TypeOK, LoopsRight, ActiveRight, Accepted
<1> QED BY <1>3, <1>4 DEF IInv

----------------------------------------------------------------------------
(* What the application sees *)

PhaseOf(k, accepted, alive) ==
    LET heard == <<k.ups, k.downs>>
    IN  CASE ~accepted -> "idle"
          [] accepted /\ heard = <<0, 0>> -> "new"
          [] accepted /\ heard = <<1, 0>> -> "up"
          [] heard = <<1, 1>> -> IF alive THEN "down" ELSE "gone"
          [] OTHER -> "wrong"

LEMMA PhaseIs ==
  ASSUME NEW k, NEW accepted \in BOOLEAN, NEW alive \in BOOLEAN, accepted \/ Silent(k)
  PROVE  /\ ~accepted => PhaseOf(k, accepted, alive) = "idle"
         /\ accepted /\ Silent(k) => PhaseOf(k, accepted, alive) = "new"
         /\ accepted /\ Up(k) => PhaseOf(k, accepted, alive) = "up"
         /\ Down(k) => PhaseOf(k, accepted, alive) = IF alive THEN "down" ELSE "gone"
<1>1. CASE Silent(k)
  BY <1>1 DEF PhaseOf, Silent, Up, Down
<1>2. CASE ~Silent(k)
  BY <1>2 DEF PhaseOf, Silent, Up, Down
<1> QED BY <1>1, <1>2

\* A step of the server is a step of every connection's life, or none.
LEMMA StepLives ==
  ASSUME IInv, IInv', Moves, GoneStays
  PROVE  Life!LifeNext
<1> SUFFICES ASSUME NEW c \in Conns
             PROVE  /\ \/ Life!Stay(c) \/ Life!Advance(c) \/ Life!Respond(c)
                    /\ conn[c].peerFin => conn'[c].peerFin
                    /\ conn[c].rst => conn'[c].rst
  BY DEF Life!LifeNext
<1>1. /\ conn[c] \in Connection /\ conn'[c] \in Connection
      /\ Silent(conn[c]) \/ Up(conn[c]) \/ Down(conn[c])
      /\ Silent(conn'[c]) \/ Up(conn'[c]) \/ Down(conn'[c])
      /\ Accepted(c) \/ Silent(conn[c])
      /\ Accepted(c)' \/ Silent(conn'[c])
  BY DEF IInv, TypeOK, LifeRight
<1>2. PICK a, b, u, v : a = Accepted(c) /\ b = Accepted(c)' /\ u = Alive(c) /\ v = Alive(c)'
  OBVIOUS
<1>3. PICK p, q : /\ p = LifePhase(c) /\ q = LifePhase(c)'
  OBVIOUS
<1>4. /\ a \in BOOLEAN /\ b \in BOOLEAN /\ u \in BOOLEAN /\ v \in BOOLEAN
  BY <1>2 DEF Accepted, Alive
<1>5. /\ ~Accepted(c) => p = "idle"
      /\ Accepted(c) /\ Silent(conn[c]) => p = "new"
      /\ Accepted(c) /\ Up(conn[c]) => p = "up"
      /\ Down(conn[c]) => p = IF Alive(c) THEN "down" ELSE "gone"
  <2>1. p = PhaseOf(conn[c], a, u)
    BY <1>2, <1>3 DEF LifePhase, PhaseOf
  <2> QED BY <1>1, <1>2, <1>4, <2>1, PhaseIs
<1>6. /\ ~Accepted(c)' => q = "idle"
      /\ Accepted(c)' /\ Silent(conn'[c]) => q = "new"
      /\ Accepted(c)' /\ Up(conn'[c]) => q = "up"
      /\ Down(conn'[c]) => q = IF Alive(c)' THEN "down" ELSE "gone"
  <2>1. q = PhaseOf(conn'[c], b, v)
    BY <1>2, <1>3 DEF LifePhase, PhaseOf
  <2> QED BY <1>1, <1>2, <1>4, <2>1, PhaseIs
<1>7. Lives(c)
  BY DEF Moves
<1>8. CASE Quiet(conn[c], conn'[c]) /\ (Accepted(c)' <=> Accepted(c))
  <2>1. \/ p = q
        \/ p = "down" /\ q = "gone"
    BY <1>1, <1>5, <1>6, <1>8 DEF Quiet, Silent, Up, Down, GoneStays
  <2> QED BY <1>3, <1>8, <2>1 DEF Quiet, Life!Stay, Life!Advance, Life!Steps
<1>9. CASE Comes(conn[c], conn'[c]) /\ Accepted(c)'
  <2>1. p \in {"idle", "new"} /\ q \in {"new", "up"}
    BY <1>1, <1>5, <1>6, <1>9 DEF Comes
  <2> QED BY <1>3, <1>9, <2>1 DEF Comes, Life!Stay, Life!Advance, Life!Steps
<1>10. CASE Up(conn[c]) /\ Accepted(c) /\ Accepted(c)' /\ Stays(conn[c], conn'[c])
  <2>1. p = "up" /\ q = "up"
    BY <1>5, <1>6, <1>10 DEF Stays
  <2>2. Goes(conn[c], conn'[c])
    BY <1>10 DEF Stays
  <2>3. CASE conn[c].fin
    <3>1. conn'[c].fin = conn[c].fin /\ conn'[c].sent = conn[c].sent
      BY <1>1, <2>2, <2>3 DEF Goes, Connection
    <3> QED BY <1>3, <2>1, <2>2, <3>1 DEF Goes, Life!Stay
  <2>4. CASE ~conn[c].fin
    <3>1. /\ conn'[c].sent \in conn[c].sent .. ResponseLen
          /\ conn'[c].fin => conn'[c].sent = ResponseLen \/ conn[c].rst
      BY <1>1, <2>2, <2>4, ResponseLenAssumption DEF Goes, Connection
    <3> QED BY <1>3, <2>1, <2>2, <2>4, <3>1 DEF Goes, Life!Respond
  <2> QED BY <2>3, <2>4
<1>11. CASE Up(conn[c]) /\ Accepted(c) /\ Ends(conn[c], conn'[c]) /\ Alive(c)'
  <2>1. p = "up" /\ q = "down"
    BY <1>5, <1>6, <1>11 DEF Ends
  <2> QED BY <1>3, <1>11, <2>1 DEF Ends, Life!Advance, Life!Steps
<1> QED BY <1>7, <1>8, <1>9, <1>10, <1>11 DEF Lives

LEMMA InitLives ==
  ASSUME Init
  PROVE  Life!LifeInit
<1>1. \A c \in Conns : ~Accepted(c)
  BY DEF Init, Accepted
<1>2. \A c \in Conns : LifePhase(c) = "idle"
  <2> SUFFICES ASSUME NEW c \in Conns PROVE LifePhase(c) = "idle"
    OBVIOUS
  <2>1. PICK a, u : a = Accepted(c) /\ u = Alive(c)
    OBVIOUS
  <2>2. a \in BOOLEAN /\ u \in BOOLEAN /\ ~a /\ Silent(conn[c])
    BY <1>1, <2>1, InitHolds DEF Accepted, Alive, IInv, LifeRight
  <2>3. LifePhase(c) = PhaseOf(conn[c], a, u)
    BY <2>1 DEF LifePhase, PhaseOf
  <2> QED BY <2>2, <2>3, PhaseIs
<1>3. PICK room \in [Conns -> 0..ResponseLen] : conn = [c \in Conns |-> NewSocket(room[c])]
  BY DEF Init
<1>4. \A c \in Conns : /\ conn[c].sent = 0 /\ conn[c].fin = FALSE
                       /\ conn[c].peerFin = FALSE /\ conn[c].rst = FALSE
  BY <1>3 DEF NewSocket
<1> QED BY <1>2, <1>4 DEF Life!LifeInit

----------------------------------------------------------------------------
LEMMA Invariant == Spec => []IInv
<1>1. IInv /\ [Next]_vars => IInv'
  BY StepKeeps, StutterKeeps
<1> QED BY <1>1, InitHolds, PTL DEF Spec

\* Every variable of the server keeps its type, for any number of clients, loops
\* and descriptors and any length of the response.
THEOREM TypeCorrect == Spec => []TypeOK
<1>1. IInv => TypeOK
  BY DEF IInv
<1> QED BY <1>1, Invariant, PTL

\* No loop's epoll set and no activeChannels_ holds the raw pointer of a connection
\* whose last shared_ptr is gone (removeConnectionInLoop queues connectDestroyed).
THEOREM NoDangling == Spec => []NoDanglingChannel
<1>1. IInv => NoDanglingChannel
  <2> SUFFICES ASSUME IInv, NEW c \in Conns, Freed(c)
               PROVE  /\ conn[c].idx # "kAdded"
                      /\ \A l \in Loops : \A e \in active[l] : e[1] # c
    BY DEF NoDanglingChannel
  <2>1. Down(conn[c])
    BY DEF Freed, Alive, IInv, LifeRight
  <2>2. \A l \in Loops : \A r : <<c, r>> \notin active[l]
    BY <2>1, NotActive DEF Up, Down
  <2>3. \A l \in Loops : \A e \in active[l] : \E r : e = <<e[1], r>>
    BY DEF IInv, TypeOK, ActiveEntries
  <2> QED BY <2>1, <2>2, <2>3 DEF Down
<1> QED BY <1>1, Invariant, PTL

\* Each channel that epoll may report is of a connection the server still lists and
\* waits for input, so a close or an error always finds its handler.
THEOREM Served == Spec => []RegisteredServed
<1>1. IInv => RegisteredServed
  BY DEF IInv, LifeRight, RegisteredServed, Silent, Up, Down
<1> QED BY <1>1, Invariant, PTL

\* The server with its loops and functors keeps the promise of ConnLifecycle: up
\* once, down once and only by the peer, freed after that, the response whole before
\* the write side is shut down.
THEOREM ImplementsLifecycle == Spec => Lifecycle
<1>1. Init => Life!LifeInit
  BY InitLives
<1>2. IInv /\ IInv' /\ [Next]_vars => [Life!LifeNext]_(Life!lifeVars)
  <2> SUFFICES ASSUME IInv, IInv', [Next]_vars
               PROVE  [Life!LifeNext]_(Life!lifeVars)
    OBVIOUS
  <2>1. CASE Next
    BY <2>1, StepKeeps, StepLives
  <2>2. CASE UNCHANGED vars
    BY <2>2 DEF vars, Life!lifeVars, LifePhase, Accepted, Alive, Tasks
  <2> QED BY <2>1, <2>2
<1> QED BY <1>1, <1>2, Invariant, PTL DEF Spec, Lifecycle, Life!LifeSpec
=============================================================================
