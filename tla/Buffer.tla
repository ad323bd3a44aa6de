------------------------------- MODULE Buffer -------------------------------
(***************************************************************************)
(* The byte buffer of a connection (include/Buffer.h, src/Buffer.cc): a    *)
(* vector with two indices, which moves its bytes to the front or grows    *)
(* when an append does not fit.  A connection has two, used by the thread  *)
(* of its loop alone: the input buffer is filled by readFd and emptied by  *)
(* retrieveAllAsString, the output buffer is filled by append and emptied  *)
(* by retrieve after each write.  Here one buffer has all operations.      *)
(***************************************************************************)
EXTENDS Naturals, Sequences

CONSTANTS Bytes,
          Zero,          \* what resize() fills with
          CheapPrepend,  \* kCheapPrepend
          InitialSize,   \* kInitialSize
          ExtraSize,     \* sizeof(extrabuf)
          MaxBytes       \* bound on the bytes that ever come in

ASSUME BytesAssumption == Zero \in Bytes
ASSUME SizesAssumption == CheapPrepend \in Nat /\ InitialSize \in Nat /\ ExtraSize \in Nat
ASSUME MaxBytesAssumption == MaxBytes \in Nat

VARIABLES buf,        \* buffer_, readerIndex_, writerIndex_
          received,   \* history: the bytes that were put in
          taken       \* history: the bytes that were taken out

vars == <<buf, received, taken>>

----------------------------------------------------------------------------
(* The operations.  data[i + 1] is buffer_[i]. *)

ReadableBytes(b) == b.writer - b.reader
WritableBytes(b) == Len(b.data) - b.writer
Readable(b) == SubSeq(b.data, b.reader + 1, b.writer)

\* std::copy of s to buffer_ + at, as far as there is room.
Overwritten(d, at, s) == [i \in 1..Len(d) |-> IF i - at \in 1..Len(s) THEN s[i - at] ELSE d[i]]

Resized(d, n) == [i \in 1..n |-> IF i <= Len(d) THEN d[i] ELSE Zero]

RetrieveAll(b) == [b EXCEPT !.reader = CheapPrepend, !.writer = CheapPrepend]

Retrieve(b, len) ==
    IF len < ReadableBytes(b) THEN [b EXCEPT !.reader = @ + len] ELSE RetrieveAll(b)

Grown(b, len) == [b EXCEPT !.data = Resized(@, b.writer + len)]

\* MUTANT: what is copied to the front starts at the write index.
MovedWrong(b) ==
    [data   |-> Overwritten(b.data, CheapPrepend, SubSeq(b.data, b.writer + 1, Len(b.data))),
     reader |-> CheapPrepend,
     writer |-> CheapPrepend + ReadableBytes(b)]

Moved(b) == [data   |-> Overwritten(b.data, CheapPrepend, Readable(b)),
             reader |-> CheapPrepend,
             writer |-> CheapPrepend + ReadableBytes(b)]

\* MUTANT: an exact fit counts as too little.
MakeSpaceStrict(b, len) ==
    IF WritableBytes(b) + b.reader <= len + CheapPrepend THEN Grown(b, len) ELSE Moved(b)

\* makeSpace(): grow if the free space at both ends together is too little.
MakeSpace(b, len) ==
    IF WritableBytes(b) + b.reader < len + CheapPrepend THEN Grown(b, len) ELSE Moved(b)

EnsureWritableBytes(b, len) == IF WritableBytes(b) < len THEN MakeSpace(b, len) ELSE b

AppendBytes(b, s) ==
    LET e == EnsureWritableBytes(b, Len(s))
    IN  [e EXCEPT !.data = Overwritten(@, e.writer, s), !.writer = @ + Len(s)]

\* readv's two parts: the free end of the buffer, and extrabuf if that is shorter.
ReadLimit(b) == WritableBytes(b) + IF WritableBytes(b) < ExtraSize THEN ExtraSize ELSE 0

\* MUTANT: the bytes in extrabuf are counted but not appended.
ReadFdUnappended(b, s) == [b EXCEPT !.data = Overwritten(@, b.writer, s), !.writer = @ + Len(s)]

\* readFd() when readv returned s: what is in extrabuf is appended.
ReadFd(b, s) ==
    LET w == WritableBytes(b)
        d == Overwritten(b.data, b.writer, s)
    IN  IF Len(s) <= w THEN [b EXCEPT !.data = d, !.writer = @ + Len(s)]
        ELSE AppendBytes([b EXCEPT !.data = d, !.writer = Len(d)], SubSeq(s, w + 1, Len(s)))

----------------------------------------------------------------------------
Init == /\ buf = [data   |-> [i \in 1..(CheapPrepend + InitialSize) |-> Zero],
                  reader |-> CheapPrepend,
                  writer |-> CheapPrepend]
        /\ received = <<>> /\ taken = <<>>

\* The strings of at most n bytes.
Chunks(n) == UNION {[1..k -> Bytes] : k \in 0..n}

Room == IF Len(received) <= MaxBytes THEN MaxBytes - Len(received) ELSE 0

\* TcpConnection::handleRead; nothing at the end of the stream.
Read(s) == /\ Len(s) <= ReadLimit(buf)
           /\ buf' = ReadFd(buf, s)
           /\ received' = received \o s
           /\ UNCHANGED taken

\* sendInLoop queues what could not be written.
Queue(s) == /\ buf' = AppendBytes(buf, s)
            /\ received' = received \o s
            /\ UNCHANGED taken

\* handleWrite: write() took the first n bytes, and they are retrieved.
Write(n) == /\ n <= ReadableBytes(buf)
            /\ buf' = Retrieve(buf, n)
            /\ taken' = taken \o SubSeq(Readable(buf), 1, n)
            /\ UNCHANGED received

\* onMessage: retrieveAllAsString()
TakeAll == /\ buf' = Retrieve(buf, ReadableBytes(buf))
           /\ taken' = taken \o Readable(buf)
           /\ UNCHANGED received

Next == \/ \E s \in Chunks(Room) : Read(s) \/ Queue(s)
        \/ \E n \in 1..MaxBytes : Write(n)
        \/ TakeAll

Spec == Init /\ [][Next]_vars

----------------------------------------------------------------------------
\* The indices stay in order and inside the vector: no copy is out of bounds.
TypeOK == /\ buf \in [data : Seq(Bytes), reader : Nat, writer : Nat]
          /\ CheapPrepend <= buf.reader
          /\ buf.reader <= buf.writer
          /\ buf.writer <= Len(buf.data)
          /\ received \in Seq(Bytes)
          /\ taken \in Seq(Bytes)

\* What comes out is what came in, in order and nothing twice, through moves to
\* the front, growth and reads that overflow into extrabuf.
NothingLost == received = taken \o Readable(buf)

\* The vector grows only if the bytes would not fit into it after a move.
GrowsOnlyIfNeeded == [][Len(buf'.data) > Len(buf.data) =>
                           ReadableBytes(buf') > Len(buf.data) - CheapPrepend]_vars
=============================================================================
