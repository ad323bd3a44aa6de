---------------------------- MODULE BufferProofs ----------------------------
(***************************************************************************)
(* Theorems about Buffer for every kind of byte, every size of the         *)
(* prependable part, of the vector and of extrabuf, and every string.      *)
(***************************************************************************)
EXTENDS Buffer, SequenceTheorems, TLAPS

\* A buffer whose indices are in order and inside the vector.
Good(b) == /\ b \in [data : Seq(Bytes), reader : Nat, writer : Nat]
           /\ CheapPrepend <= b.reader
           /\ b.reader <= b.writer
           /\ b.writer <= Len(b.data)

\* The inductive invariant.
IInv == TypeOK /\ NothingLost

----------------------------------------------------------------------------
(* Strings and vectors *)

\* std::copy inside the vector changes no length and writes exactly the places of s.
LEMMA OverwrittenProperties ==
    ASSUME NEW d \in Seq(Bytes), NEW at \in Nat, NEW s \in Seq(Bytes)
    PROVE  /\ Overwritten(d, at, s) \in Seq(Bytes)
           /\ Len(Overwritten(d, at, s)) = Len(d)
           /\ \A i \in 1..Len(d) : Overwritten(d, at, s)[i] =
                 IF i - at \in 1..Len(s) THEN s[i - at] ELSE d[i]
<1>1. Len(d) \in Nat /\ Len(s) \in Nat
  BY LenProperties
<1>2. \A i \in 1..Len(d) : (IF i - at \in 1..Len(s) THEN s[i - at] ELSE d[i]) \in Bytes
  BY <1>1, ElementOfSeq
<1> QED BY <1>1, <1>2 DEF Overwritten

\* resize() keeps the bytes up to the new length and fills with Zero.
LEMMA ResizedProperties ==
    ASSUME NEW d \in Seq(Bytes), NEW n \in Nat
    PROVE  /\ Resized(d, n) \in Seq(Bytes)
           /\ Len(Resized(d, n)) = n
           /\ \A i \in 1..n : Resized(d, n)[i] = IF i <= Len(d) THEN d[i] ELSE Zero
<1>1. Len(d) \in Nat
  BY LenProperties
<1>2. \A i \in 1..n : (IF i <= Len(d) THEN d[i] ELSE Zero) \in Bytes
  BY <1>1, ElementOfSeq, BytesAssumption
<1> QED BY <1>1, <1>2 DEF Resized


\* The bytes of d from index r up to w.
LEMMA PartProperties ==
    ASSUME NEW d \in Seq(Bytes), NEW r \in Nat, NEW w \in Nat, r <= w, w <= Len(d)
    PROVE  /\ SubSeq(d, r + 1, w) \in Seq(Bytes)
           /\ Len(SubSeq(d, r + 1, w)) = w - r
           /\ \A i \in 1..(w - r) : SubSeq(d, r + 1, w)[i] = d[r + i]
<1>1. Len(d) \in Nat
  BY LenProperties
<1>2. \A i \in (r + 1)..w : d[i] \in Bytes
  BY <1>1, ElementOfSeq
<1>3. r + 1 \in Int /\ w \in Int
  OBVIOUS
<1>4. /\ SubSeq(d, r + 1, w) \in Seq(Bytes)
      /\ Len(SubSeq(d, r + 1, w)) = IF r + 1 <= w THEN w - (r + 1) + 1 ELSE 0
      /\ \A i \in 1..(w - (r + 1) + 1) : SubSeq(d, r + 1, w)[i] = d[(r + 1) + i - 1]
  BY <1>2, <1>3, SubSeqProperties
<1>5. ASSUME NEW i \in 1..(w - r) PROVE SubSeq(d, r + 1, w)[i] = d[r + i]
  <2>1. i \in 1..(w - (r + 1) + 1) /\ (r + 1) + i - 1 = r + i
    OBVIOUS
  <2> QED BY <1>4, <2>1
<1> QED BY <1>4, <1>5

\* resize() keeps what is before the new end.
LEMMA ResizedPart ==
    ASSUME NEW d \in Seq(Bytes), NEW r \in Nat, NEW w \in Nat, NEW n \in Nat,
           r <= w, w <= Len(d), w <= n
    PROVE  SubSeq(Resized(d, n), r + 1, w) = SubSeq(d, r + 1, w)
<1> DEFINE e == Resized(d, n)
<1>1. /\ e \in Seq(Bytes) /\ Len(e) = n
      /\ \A i \in 1..n : e[i] = IF i <= Len(d) THEN d[i] ELSE Zero
  BY ResizedProperties
<1>2. Len(d) \in Nat
  BY LenProperties
<1> HIDE DEF e
<1>3. /\ SubSeq(e, r + 1, w) \in Seq(Bytes) /\ Len(SubSeq(e, r + 1, w)) = w - r
      /\ \A i \in 1..(w - r) : SubSeq(e, r + 1, w)[i] = e[r + i]
  BY <1>1, PartProperties
<1>4. /\ SubSeq(d, r + 1, w) \in Seq(Bytes) /\ Len(SubSeq(d, r + 1, w)) = w - r
      /\ \A i \in 1..(w - r) : SubSeq(d, r + 1, w)[i] = d[r + i]
  BY PartProperties
<1>5. \A i \in 1..(w - r) : e[r + i] = d[r + i]
  <2> TAKE i \in 1..(w - r)
  <2>1. r + i \in 1..n /\ r + i <= Len(d)
    BY <1>2
  <2> QED BY <1>1, <2>1
<1>6. SubSeq(e, r + 1, w) = SubSeq(d, r + 1, w)
  BY <1>3, <1>4, <1>5, SeqEqual
<1> QED BY <1>6 DEF e

\* What is copied to index at stands there.
LEMMA OverwrittenPart ==
    ASSUME NEW d \in Seq(Bytes), NEW at \in Nat, NEW s \in Seq(Bytes),
           at + Len(s) <= Len(d)
    PROVE  SubSeq(Overwritten(d, at, s), at + 1, at + Len(s)) = s
<1> DEFINE e == Overwritten(d, at, s)
           n == Len(s)
<1>1. /\ e \in Seq(Bytes) /\ Len(e) = Len(d)
      /\ \A i \in 1..Len(d) : e[i] = IF i - at \in 1..n THEN s[i - at] ELSE d[i]
  BY OverwrittenProperties
<1>2. n \in Nat /\ Len(d) \in Nat /\ at + n <= Len(d) /\ n = Len(s)
  BY LenProperties
<1> HIDE DEF e, n
<1>3. /\ at + n \in Nat /\ at <= at + n /\ at + n <= Len(e) /\ (at + n) - at = n
  BY <1>1, <1>2
<1>4. /\ SubSeq(e, at + 1, at + n) \in Seq(Bytes) /\ Len(SubSeq(e, at + 1, at + n)) = n
      /\ \A i \in 1..n : SubSeq(e, at + 1, at + n)[i] = e[at + i]
  BY <1>1, <1>3, PartProperties
<1>5. \A i \in 1..n : e[at + i] = s[i]
  <2> TAKE i \in 1..n
  <2>1. at + i \in 1..Len(d) /\ (at + i) - at = i
    BY <1>2
  <2> QED BY <1>1, <2>1
<1>6. SubSeq(e, at + 1, at + n) = s
  BY <1>2, <1>4, <1>5, SeqEqual
<1> QED BY <1>6 DEF e, n

\* A string written behind a part of the vector continues it.
LEMMA BehindPart ==
    ASSUME NEW d \in Seq(Bytes), NEW r \in Nat, NEW w \in Nat, NEW s \in Seq(Bytes),
           r <= w, w + Len(s) <= Len(d)
    PROVE  SubSeq(Overwritten(d, w, s), r + 1, w + Len(s)) = SubSeq(d, r + 1, w) \o s
<1> DEFINE e == Overwritten(d, w, s)
           n == Len(s)
           p == SubSeq(d, r + 1, w)
<1>1. /\ e \in Seq(Bytes) /\ Len(e) = Len(d)
      /\ \A i \in 1..Len(d) : e[i] = IF i - w \in 1..n THEN s[i - w] ELSE d[i]
  BY OverwrittenProperties
<1>2. n \in Nat /\ Len(d) \in Nat /\ w + n <= Len(d) /\ w <= Len(d) /\ n = Len(s)
  BY LenProperties
<1>3. p \in Seq(Bytes) /\ Len(p) = w - r /\ \A i \in 1..(w - r) : p[i] = d[r + i]
  BY <1>2, PartProperties
<1> HIDE DEF e, n, p
<1>4. w + n \in Nat /\ r <= w + n /\ w + n <= Len(e) /\ w - r \in Nat
  BY <1>1, <1>2
<1>5. /\ SubSeq(e, r + 1, w + n) \in Seq(Bytes)
      /\ Len(SubSeq(e, r + 1, w + n)) = (w + n) - r
      /\ \A i \in 1..((w + n) - r) : SubSeq(e, r + 1, w + n)[i] = e[r + i]
  BY <1>1, <1>4, PartProperties
<1>6. /\ p \o s \in Seq(Bytes)
      /\ Len(p \o s) = Len(p) + Len(s)
      /\ \A i \in 1..(Len(p) + Len(s)) :
            (p \o s)[i] = IF i <= Len(p) THEN p[i] ELSE s[i - Len(p)]
  BY <1>3, ConcatProperties
<1>7. Len(p) + Len(s) = (w + n) - r
  BY <1>2, <1>3
<1>8. \A i \in 1..((w + n) - r) : e[r + i] = (p \o s)[i]
  <2> TAKE i \in 1..((w + n) - r)
  <2>1. r + i \in 1..Len(d)
    BY <1>2
  <2>2. (p \o s)[i] = IF i <= w - r THEN p[i] ELSE s[i - (w - r)]
    BY <1>3, <1>6, <1>7
  <2>3. CASE i <= w - r
    <3>1. i \in 1..(w - r) /\ (r + i) - w \notin 1..n
      BY <1>2, <2>3
    <3>2. e[r + i] = d[r + i]
      BY <1>1, <2>1, <3>1
    <3> QED BY <1>3, <2>2, <2>3, <3>1, <3>2
  <2>4. CASE ~(i <= w - r)
    <3>1. (r + i) - w \in 1..n /\ (r + i) - w = i - (w - r)
      BY <1>2, <2>4
    <3>2. e[r + i] = s[(r + i) - w]
      BY <1>1, <2>1, <3>1
    <3> QED BY <2>2, <2>4, <3>1, <3>2
  <2> QED BY <2>3, <2>4
<1> DEFINE x == SubSeq(e, r + 1, w + n)
           y == p \o s
<1>9. /\ x \in Seq(Bytes) /\ y \in Seq(Bytes) /\ Len(x) = Len(y)
      /\ \A i \in 1..Len(x) : x[i] = y[i]
  BY <1>5, <1>6, <1>7, <1>8
<1> HIDE DEF x, y
<1>10. x = y
  BY <1>9, SeqEqual
<1> QED BY <1>10 DEF e, n, p, x, y

\* A copy stops at the end of the vector.
LEMMA OverwrittenToEnd ==
    ASSUME NEW d \in Seq(Bytes), NEW at \in Nat, NEW s \in Seq(Bytes), NEW n \in Nat,
           at + n = Len(d), n <= Len(s)
    PROVE  /\ SubSeq(s, 1, n) \in Seq(Bytes) /\ Len(SubSeq(s, 1, n)) = n
           /\ Overwritten(d, at, s) = Overwritten(d, at, SubSeq(s, 1, n))
<1> DEFINE p == SubSeq(s, 1, n)
<1>1. Len(s) \in Nat /\ Len(d) \in Nat
  BY LenProperties
<1>2. p \in Seq(Bytes) /\ Len(p) = n /\ \A i \in 1..n : p[i] = s[i]
  <2>1. \A i \in 1..n : s[i] \in Bytes
    BY <1>1, ElementOfSeq
  <2>2. /\ p \in Seq(Bytes) /\ Len(p) = IF 1 <= n THEN n - 1 + 1 ELSE 0
        /\ \A i \in 1..(n - 1 + 1) : p[i] = s[1 + i - 1]
    BY <2>1, SubSeqProperties
  <2> QED BY <2>2
<1> HIDE DEF p
<1> DEFINE e == Overwritten(d, at, s)
           f == Overwritten(d, at, p)
<1>3. /\ e \in Seq(Bytes) /\ Len(e) = Len(d)
      /\ \A i \in 1..Len(d) : e[i] = IF i - at \in 1..Len(s) THEN s[i - at] ELSE d[i]
  BY OverwrittenProperties
<1>4. /\ f \in Seq(Bytes) /\ Len(f) = Len(d)
      /\ \A i \in 1..Len(d) : f[i] = IF i - at \in 1..Len(p) THEN p[i - at] ELSE d[i]
  BY <1>2, OverwrittenProperties
<1> HIDE DEF e, f
<1>5. \A i \in 1..Len(d) : e[i] = f[i]
  <2> TAKE i \in 1..Len(d)
  <2>1. CASE i - at \in 1..n
    <3>1. i - at \in 1..Len(s)
      BY <1>1, <2>1
    <3> QED BY <1>2, <1>3, <1>4, <2>1, <3>1
  <2>2. CASE i - at \notin 1..n
    <3>1. i - at \notin 1..Len(s)
      BY <1>1, <2>2
    <3> QED BY <1>2, <1>3, <1>4, <2>2, <3>1
  <2> QED BY <2>1, <2>2
<1>6. e = f
  BY <1>3, <1>4, <1>5, SeqEqual
<1> QED BY <1>2, <1>6 DEF e, f, p

\* The first n bytes of a part, and what is left of it.
LEMMA SplitPart ==
    ASSUME NEW d \in Seq(Bytes), NEW r \in Nat, NEW n \in Nat, NEW w \in Nat,
           r + n <= w, w <= Len(d)
    PROVE  SubSeq(d, r + 1, w) =
              SubSeq(SubSeq(d, r + 1, w), 1, n) \o SubSeq(d, (r + n) + 1, w)
<1> DEFINE p == SubSeq(d, r + 1, w)
           m == r + n
<1>1. Len(d) \in Nat /\ m \in Nat /\ m = r + n /\ r <= m /\ m <= w /\ r <= w /\ m <= Len(d)
  BY LenProperties
<1>2. p \in Seq(Bytes) /\ Len(p) = w - r /\ \A i \in 1..(w - r) : p[i] = d[r + i]
  BY <1>1, PartProperties
<1> HIDE DEF p, m
<1>3. /\ SubSeq(d, r + 1, m) \in Seq(Bytes) /\ Len(SubSeq(d, r + 1, m)) = m - r
      /\ \A i \in 1..(m - r) : SubSeq(d, r + 1, m)[i] = d[r + i]
  BY <1>1, PartProperties
<1>4. SubSeq(p, 1, n) = SubSeq(d, r + 1, m)
  <2>1. \A i \in 1..n : p[i] \in Bytes
    BY <1>1, <1>2, ElementOfSeq
  <2>2. /\ SubSeq(p, 1, n) \in Seq(Bytes)
        /\ Len(SubSeq(p, 1, n)) = IF 1 <= n THEN n - 1 + 1 ELSE 0
        /\ \A i \in 1..(n - 1 + 1) : SubSeq(p, 1, n)[i] = p[1 + i - 1]
    BY <2>1, SubSeqProperties
  <2>3. Len(SubSeq(p, 1, n)) = n /\ m - r = n /\ \A i \in 1..n : i \in 1..(w - r)
    BY <1>1, <2>2
  <2>4. \A i \in 1..n : SubSeq(p, 1, n)[i] = p[i]
    BY <2>2
  <2>5. \A i \in 1..n : SubSeq(p, 1, n)[i] = SubSeq(d, r + 1, m)[i]
    BY <1>2, <1>3, <2>3, <2>4
  <2> QED BY <1>3, <2>2, <2>3, <2>5, SeqEqual
<1>5. SubSeq(d, r + 1, m) \o SubSeq(d, m + 1, w) = SubSeq(d, r + 1, w)
  <2>1. /\ r + 1 \in 1..(Len(d) + 1) /\ m \in ((r + 1) - 1)..Len(d) /\ w \in m..Len(d)
    BY <1>1
  <2> QED BY <2>1, ConcatAdjacentSubSeq
<1> QED BY <1>1, <1>4, <1>5 DEF p, m

----------------------------------------------------------------------------
(* The operations *)

\* What is known of a good buffer.
LEMMA GoodFacts ==
    ASSUME NEW b, Good(b)
    PROVE  /\ b.data \in Seq(Bytes) /\ Len(b.data) \in Nat
           /\ b.reader \in Nat /\ b.writer \in Nat /\ CheapPrepend \in Nat
           /\ CheapPrepend <= b.reader /\ b.reader <= b.writer /\ b.writer <= Len(b.data)
           /\ Readable(b) \in Seq(Bytes)
           /\ Len(Readable(b)) = b.writer - b.reader
<1>1. /\ b.data \in Seq(Bytes) /\ b.reader \in Nat /\ b.writer \in Nat
      /\ b.reader <= b.writer /\ b.writer <= Len(b.data)
  BY DEF Good
<1> QED BY <1>1, SizesAssumption, LenProperties, PartProperties DEF Good, Readable

\* makeSpace() moves or grows: the readable bytes stay, and len more fit.
LEMMA MakeSpaceKeeps ==
    ASSUME NEW b, Good(b), NEW len \in Nat
    PROVE  /\ Good(MakeSpace(b, len))
           /\ Readable(MakeSpace(b, len)) = Readable(b)
           /\ MakeSpace(b, len).writer + len <= Len(MakeSpace(b, len).data)
           /\ Len(MakeSpace(b, len).data) > Len(b.data) =>
                 (b.writer - b.reader) + len > Len(b.data) - CheapPrepend
<1>1. PICK d \in Seq(Bytes), r \in Nat, w \in Nat :
         b = [data |-> d, reader |-> r, writer |-> w]
  BY DEF Good
<1>2. /\ Len(d) \in Nat /\ CheapPrepend \in Nat
      /\ CheapPrepend <= r /\ r <= w /\ w <= Len(d)
      /\ Readable(b) = SubSeq(d, r + 1, w)
      /\ Readable(b) \in Seq(Bytes) /\ Len(Readable(b)) = w - r
  BY <1>1, GoodFacts DEF Readable
<1> DEFINE q == MakeSpace(b, len)
<1>3. b.data = d /\ b.reader = r /\ b.writer = w
  BY <1>1
<1>4. CASE (Len(d) - w) + r < len + CheapPrepend
  <2> DEFINE n == w + len
             e == Resized(d, n)
  <2>1. q = [data |-> e, reader |-> r, writer |-> w]
    BY <1>1, <1>4 DEF MakeSpace, Grown, WritableBytes
  <2>2. n \in Nat /\ w <= n /\ n = w + len
    OBVIOUS
  <2> HIDE DEF q, n
  <2>3. e \in Seq(Bytes) /\ Len(e) = n
    BY <2>2, ResizedProperties
  <2>4. SubSeq(e, r + 1, w) = SubSeq(d, r + 1, w)
    <3>1. r <= w /\ w <= Len(d) /\ n \in Nat /\ w <= n
      BY <1>2, <2>2
    <3> QED BY <3>1, ResizedPart
  <2> HIDE DEF e
  <2>5. q.data = e /\ q.reader = r /\ q.writer = w
    BY <2>1
  <2>6. Good(q)
    BY <1>2, <2>1, <2>2, <2>3, <2>5 DEF Good
  <2>7. Readable(q) = Readable(b)
    BY <1>2, <2>4, <2>5 DEF Readable
  <2>8. q.writer + len <= Len(q.data)
    BY <2>2, <2>3, <2>5
  <2>9. (w - r) + len > Len(d) - CheapPrepend
    BY <1>2, <1>4
  <2> QED BY <1>3, <2>6, <2>7, <2>8, <2>9 DEF q
<1>5. CASE ~((Len(d) - w) + r < len + CheapPrepend)
  <2> DEFINE c == CheapPrepend
             R == Readable(b)
             e == Overwritten(d, c, R)
  <2>1. q = [data |-> e, reader |-> c, writer |-> c + (w - r)]
    BY <1>1, <1>5 DEF MakeSpace, Moved, WritableBytes, ReadableBytes
  <2>2. e \in Seq(Bytes) /\ Len(e) = Len(d)
    BY <1>2, OverwrittenProperties
  <2>3. Len(R) = w - r /\ R \in Seq(Bytes) /\ c \in Nat /\ c <= r /\ R = Readable(b)
    BY <1>2
  <2>4. e = Overwritten(d, c, R) /\ c = CheapPrepend
    OBVIOUS
  <2> HIDE DEF q, e, c, R
  <2>5. c + Len(R) <= Len(d) /\ c + (w - r) = c + Len(R) /\ w - r \in Nat
    BY <1>2, <2>3
  <2>6. SubSeq(e, c + 1, c + Len(R)) = R
    BY <2>3, <2>4, <2>5, OverwrittenPart
  <2>7. q.data = e /\ q.reader = c /\ q.writer = c + Len(R)
    BY <2>1, <2>5
  <2>8. Readable(q) = R
    BY <2>6, <2>7 DEF Readable
  <2>9. Good(q)
    BY <2>1, <2>2, <2>3, <2>4, <2>5, <2>7 DEF Good
  <2>10. q.writer + len <= Len(q.data)
    BY <1>2, <1>5, <2>2, <2>3, <2>4, <2>7
  <2>11. Len(q.data) = Len(b.data)
    BY <1>3, <2>2, <2>7
  <2> QED BY <1>2, <1>3, <2>3, <2>8, <2>9, <2>10, <2>11 DEF q
<1> QED BY <1>4, <1>5

\* ensureWritableBytes() finds or makes room for len bytes.
LEMMA EnsureKeeps ==
    ASSUME NEW b, Good(b), NEW len \in Nat
    PROVE  /\ Good(EnsureWritableBytes(b, len))
           /\ Readable(EnsureWritableBytes(b, len)) = Readable(b)
           /\ EnsureWritableBytes(b, len).writer + len <= Len(EnsureWritableBytes(b, len).data)
           /\ Len(EnsureWritableBytes(b, len).data) > Len(b.data) =>
                 (b.writer - b.reader) + len > Len(b.data) - CheapPrepend
<1>1. CASE WritableBytes(b) < len
  <2>1. EnsureWritableBytes(b, len) = MakeSpace(b, len)
    BY <1>1 DEF EnsureWritableBytes
  <2> QED BY <2>1, MakeSpaceKeeps
<1>2. CASE ~(WritableBytes(b) < len)
  <2>1. EnsureWritableBytes(b, len) = b
    BY <1>2 DEF EnsureWritableBytes
  <2>2. b.writer + len <= Len(b.data) /\ ~(Len(b.data) > Len(b.data))
    BY <1>2, GoodFacts DEF WritableBytes
  <2> QED BY <2>1, <2>2
<1> QED BY <1>1, <1>2

\* Writing s at the write index, where it fits, appends it to what is readable.
LEMMA WriteBehind ==
    ASSUME NEW b, Good(b), NEW s \in Seq(Bytes), b.writer + Len(s) <= Len(b.data),
           NEW q,
           q = [data |-> Overwritten(b.data, b.writer, s),
                reader |-> b.reader, writer |-> b.writer + Len(s)]
    PROVE  /\ Good(q)
           /\ Readable(q) = Readable(b) \o s
           /\ Len(q.data) = Len(b.data)
<1>1. PICK d \in Seq(Bytes), r \in Nat, w \in Nat :
         b = [data |-> d, reader |-> r, writer |-> w]
  BY DEF Good
<1>2. b.data = d /\ b.reader = r /\ b.writer = w
  BY <1>1
<1>3. /\ Len(d) \in Nat /\ Len(s) \in Nat /\ CheapPrepend \in Nat
      /\ CheapPrepend <= r /\ r <= w /\ w + Len(s) <= Len(d)
  BY <1>2, GoodFacts, LenProperties
<1> DEFINE e == Overwritten(d, w, s)
<1>4. e \in Seq(Bytes) /\ Len(e) = Len(d)
  BY OverwrittenProperties
<1>5. SubSeq(e, r + 1, w + Len(s)) = SubSeq(d, r + 1, w) \o s
  BY <1>3, BehindPart
<1>6. q = [data |-> e, reader |-> r, writer |-> w + Len(s)]
  BY <1>2
<1> HIDE DEF e
<1>7. q.data = e /\ q.reader = r /\ q.writer = w + Len(s)
  BY <1>6
<1>8. Readable(q) = Readable(b) \o s
  BY <1>2, <1>5, <1>7 DEF Readable
<1>9. Good(q)
  BY <1>3, <1>4, <1>6, <1>7 DEF Good
<1> QED BY <1>2, <1>4, <1>7, <1>8, <1>9

\* append() appends, whether or not it had to make space.
LEMMA AppendKeeps ==
    ASSUME NEW b, Good(b), NEW s \in Seq(Bytes)
    PROVE  /\ Good(AppendBytes(b, s))
           /\ Readable(AppendBytes(b, s)) = Readable(b) \o s
           /\ Len(AppendBytes(b, s).data) > Len(b.data) =>
                 (b.writer - b.reader) + Len(s) > Len(b.data) - CheapPrepend
<1> DEFINE e == EnsureWritableBytes(b, Len(s))
           q == AppendBytes(b, s)
<1>1. /\ Good(e) /\ Readable(e) = Readable(b)
      /\ e.writer + Len(s) <= Len(e.data)
      /\ Len(e.data) > Len(b.data) =>
            (b.writer - b.reader) + Len(s) > Len(b.data) - CheapPrepend
  BY EnsureKeeps, LenProperties
<1>2. q = [e EXCEPT !.data = Overwritten(@, e.writer, s), !.writer = @ + Len(s)]
  BY DEF AppendBytes
<1> HIDE DEF e, q
<1>3. e = [data |-> e.data, reader |-> e.reader, writer |-> e.writer]
  BY <1>1 DEF Good
<1>4. q = [data |-> Overwritten(e.data, e.writer, s), reader |-> e.reader,
           writer |-> e.writer + Len(s)]
  BY <1>2, <1>3
<1>5. Good(q) /\ Readable(q) = Readable(e) \o s /\ Len(q.data) = Len(e.data)
  BY <1>1, <1>4, WriteBehind
<1> QED BY <1>1, <1>5 DEF q

\* Concatenation of strings is associative.
LEMMA ConcatBytes ==
    ASSUME NEW x \in Seq(Bytes), NEW y \in Seq(Bytes), NEW z \in Seq(Bytes)
    PROVE  (x \o y) \o z = x \o (y \o z)
BY ConcatAssociative

\* An update of the vector and the write index, written out.
LEMMA Updated ==
    ASSUME NEW b, Good(b), NEW x, NEW y, NEW q,
           q = [b EXCEPT !.data = x, !.writer = y]
    PROVE  q = [data |-> x, reader |-> b.reader, writer |-> y]
<1>1. b = [data |-> b.data, reader |-> b.reader, writer |-> b.writer]
  BY DEF Good
<1> QED BY <1>1

\* readFd() appends what was read, in the vector and in extrabuf.
LEMMA ReadFdKeeps ==
    ASSUME NEW b, Good(b), NEW s \in Seq(Bytes)
    PROVE  /\ Good(ReadFd(b, s))
           /\ Readable(ReadFd(b, s)) = Readable(b) \o s
           /\ Len(ReadFd(b, s).data) > Len(b.data) =>
                 (b.writer - b.reader) + Len(s) > Len(b.data) - CheapPrepend
<1> DEFINE w == WritableBytes(b)
           d == Overwritten(b.data, b.writer, s)
           q == ReadFd(b, s)
<1>1. /\ b.data \in Seq(Bytes) /\ Len(b.data) \in Nat /\ Len(s) \in Nat
      /\ b.reader \in Nat /\ b.writer \in Nat /\ CheapPrepend \in Nat
      /\ CheapPrepend <= b.reader /\ b.reader <= b.writer /\ b.writer <= Len(b.data)
      /\ Readable(b) \in Seq(Bytes)
      /\ b = [data |-> b.data, reader |-> b.reader, writer |-> b.writer]
  BY GoodFacts, LenProperties DEF Good
<1>2. w \in Nat /\ b.writer + w = Len(b.data)
  BY <1>1 DEF WritableBytes
<1>3. CASE Len(s) <= w
  <2>1. q = [b EXCEPT !.data = d, !.writer = @ + Len(s)]
    BY <1>3 DEF ReadFd
  <2> HIDE DEF q, w
  <2>2. q = [data |-> d, reader |-> b.reader, writer |-> b.writer + Len(s)]
    BY <1>1, <2>1
  <2>3. b.writer + Len(s) <= Len(b.data)
    BY <1>1, <1>2, <1>3
  <2>4. Good(q) /\ Readable(q) = Readable(b) \o s /\ Len(q.data) = Len(b.data)
    BY <2>2, <2>3, WriteBehind
  <2>5. ~(Len(q.data) > Len(b.data))
    BY <1>1, <2>4
  <2> QED BY <2>4, <2>5 DEF q
<1>4. CASE ~(Len(s) <= w)
  <2> DEFINE p == SubSeq(s, 1, w)
             t == SubSeq(s, w + 1, Len(s))
             f == [data |-> Overwritten(b.data, b.writer, p), reader |-> b.reader,
                   writer |-> b.writer + Len(p)]
  <2>1. q = AppendBytes([b EXCEPT !.data = d, !.writer = Len(d)], t)
    BY <1>4 DEF ReadFd
  <2>2. Len(d) = Len(b.data)
    BY <1>1, OverwrittenProperties
  <2>3. w <= Len(s)
    BY <1>1, <1>2, <1>4
  <2> HIDE DEF q, w
  <2>4. p \in Seq(Bytes) /\ Len(p) = w /\ d = Overwritten(b.data, b.writer, p)
    BY <1>1, <1>2, <2>3, OverwrittenToEnd
  <2>5. t \in Seq(Bytes) /\ Len(t) = Len(s) - w
    <3>1. w \in Nat /\ Len(s) \in Nat /\ w <= Len(s) /\ Len(s) <= Len(s)
      BY <1>1, <1>2, <2>3
    <3> QED BY <3>1, PartProperties
  <2>6. p \o t = s
    <3>1. 1 \in 1..(Len(s) + 1) /\ w \in (1 - 1)..Len(s) /\ Len(s) \in w..Len(s)
      BY <1>1, <1>2, <2>3
    <3>2. SubSeq(s, 1, w) \o SubSeq(s, w + 1, Len(s)) = SubSeq(s, 1, Len(s))
      BY <3>1, ConcatAdjacentSubSeq
    <3> QED BY <3>2, SubSeqFull
  <2> HIDE DEF p, t, d
  <2>7. [b EXCEPT !.data = d, !.writer = Len(d)] = f
    <3>1. b.writer + Len(p) = Len(d)
      BY <1>1, <1>2, <2>2, <2>4
    <3>2. PICK g : g = [b EXCEPT !.data = d, !.writer = Len(d)]
      OBVIOUS
    <3>3. g = [data |-> d, reader |-> b.reader, writer |-> Len(d)]
      BY <3>2, Updated
    <3> QED BY <2>4, <3>1, <3>2, <3>3
  <2>8. b.writer + Len(p) <= Len(b.data)
    BY <1>1, <1>2, <2>4
  <2>9. f.reader = b.reader /\ f.writer = b.writer + w
    BY <2>4
  <2>10. f = [data |-> Overwritten(b.data, b.writer, p), reader |-> b.reader,
              writer |-> b.writer + Len(p)]
    OBVIOUS
  <2> HIDE DEF f
  <2>11. Good(f) /\ Readable(f) = Readable(b) \o p /\ Len(f.data) = Len(b.data)
    BY <2>4, <2>8, <2>10, WriteBehind
  <2>12. q = AppendBytes(f, t)
    BY <2>1, <2>7
  <2>13. /\ Good(q) /\ Readable(q) = Readable(f) \o t
         /\ Len(q.data) > Len(f.data) =>
               (f.writer - f.reader) + Len(t) > Len(f.data) - CheapPrepend
    BY <2>5, <2>11, <2>12, AppendKeeps
  <2>14. Readable(q) = Readable(b) \o s
    <3>1. (Readable(b) \o p) \o t = Readable(b) \o (p \o t)
      BY <1>1, <2>4, <2>5, ConcatBytes
    <3>2. Readable(q) = Readable(f) \o t /\ Readable(f) = Readable(b) \o p
      BY <2>11, <2>13
    <3> QED BY ONLY <2>6, <3>1, <3>2
  <2>15. (f.writer - f.reader) + Len(t) = (b.writer - b.reader) + Len(s)
    BY <1>1, <1>2, <2>5, <2>9
  <2> QED BY <2>11, <2>13, <2>14, <2>15 DEF q
<1> QED BY <1>3, <1>4

\* retrieve() drops the first bytes of what is readable, and no other.
LEMMA RetrieveDrops ==
    ASSUME NEW b, Good(b), NEW n \in Nat, n <= ReadableBytes(b)
    PROVE  /\ Good(Retrieve(b, n))
           /\ SubSeq(Readable(b), 1, n) \in Seq(Bytes)
           /\ Readable(Retrieve(b, n)) \in Seq(Bytes)
           /\ Readable(b) = SubSeq(Readable(b), 1, n) \o Readable(Retrieve(b, n))
           /\ Len(Retrieve(b, n).data) = Len(b.data)
<1>1. PICK d \in Seq(Bytes), r \in Nat, w \in Nat :
         b = [data |-> d, reader |-> r, writer |-> w]
  BY DEF Good
<1>2. /\ Len(d) \in Nat /\ CheapPrepend \in Nat
      /\ CheapPrepend <= r /\ r <= w /\ w <= Len(d) /\ r + n <= w
      /\ Readable(b) = SubSeq(d, r + 1, w)
      /\ Readable(b) \in Seq(Bytes) /\ Len(Readable(b)) = w - r
  BY <1>1, GoodFacts DEF Readable, ReadableBytes
<1> DEFINE q == Retrieve(b, n)
           R == Readable(b)
<1>3. SubSeq(R, 1, n) \in Seq(Bytes)
  <2>1. \A i \in 1..n : R[i] \in Bytes
    BY <1>2, ElementOfSeq
  <2> QED BY <2>1, SubSeqProperties
<1>4. CASE n < w - r
  <2>1. q = [data |-> d, reader |-> r + n, writer |-> w]
    BY <1>1, <1>4 DEF Retrieve, ReadableBytes
  <2> HIDE DEF q
  <2>2. q.data = d /\ q.reader = r + n /\ q.writer = w
    BY <2>1
  <2>3. Good(q)
    BY <1>2, <2>1, <2>2 DEF Good
  <2>4. Readable(q) = SubSeq(d, (r + n) + 1, w)
    BY <2>2 DEF Readable
  <2>5. R = SubSeq(R, 1, n) \o Readable(q)
    BY <1>2, <2>4, SplitPart
  <2> QED BY <1>1, <1>3, <2>2, <2>3, <2>5, GoodFacts DEF q
<1>5. CASE ~(n < w - r)
  <2>1. q = [data |-> d, reader |-> CheapPrepend, writer |-> CheapPrepend]
    BY <1>1, <1>5 DEF Retrieve, RetrieveAll, ReadableBytes
  <2>2. n = Len(R)
    BY <1>2, <1>5
  <2> HIDE DEF q
  <2>3. q.data = d /\ q.reader = CheapPrepend /\ q.writer = CheapPrepend
    BY <2>1
  <2>4. Good(q)
    BY <1>2, <2>1, <2>3 DEF Good
  <2>5. Readable(q) = <<>>
    BY <1>2, <2>3, SubSeqEmpty DEF Readable
  <2>6. R = SubSeq(R, 1, n) \o Readable(q)
    BY <1>2, <2>2, <2>5, SubSeqFull, ConcatEmptySeq
  <2> QED BY <1>1, <1>3, <2>3, <2>4, <2>6, GoodFacts DEF q
<1> QED BY <1>4, <1>5

----------------------------------------------------------------------------
(* The inductive invariant *)

\* What the invariant says of the connection's buffer and of the history.
LEMMA IInvGood ==
    ASSUME IInv
    PROVE  /\ Good(buf) /\ Readable(buf) \in Seq(Bytes)
           /\ received \in Seq(Bytes) /\ taken \in Seq(Bytes)
           /\ received = taken \o Readable(buf)
<1>1. Good(buf)
  BY DEF IInv, TypeOK, Good
<1> QED BY <1>1, GoodFacts DEF IInv, TypeOK, NothingLost

\* A new buffer (the constructor) satisfies the invariant.
LEMMA InitIInv == Init => IInv
<1> SUFFICES ASSUME Init PROVE IInv
  OBVIOUS
<1> DEFINE n == CheapPrepend + InitialSize
           z == [i \in 1..n |-> Zero]
<1>1. n \in Nat /\ CheapPrepend \in Nat /\ CheapPrepend <= n
  BY SizesAssumption
<1> HIDE DEF n
<1>2. z \in Seq(Bytes) /\ Len(z) = n
  BY <1>1, BytesAssumption
<1>3. n = CheapPrepend + InitialSize
  BY DEF n
<1>4. buf = [data |-> z, reader |-> CheapPrepend, writer |-> CheapPrepend]
  BY <1>3 DEF Init
<1> HIDE DEF z
<1>5. Good(buf)
  BY <1>1, <1>2, <1>4 DEF Good
<1>6. Readable(buf) = <<>>
  BY <1>1, <1>4, SubSeqEmpty DEF Readable
<1>7. received = <<>> /\ taken = <<>>
  BY DEF Init
<1>8. <<>> \in Seq(Bytes) /\ <<>> \o <<>> = <<>>
  BY EmptySeq, ConcatEmptySeq
<1> QED BY <1>5, <1>6, <1>7, <1>8 DEF Good, IInv, TypeOK, NothingLost

\* What a step reads or queues is a string.
LEMMA ChunksAreStrings == \A n \in Nat : Chunks(n) \subseteq Seq(Bytes)
BY DEF Chunks

\* The bound on what may still come in is a number.
LEMMA RoomNat == IInv => Room \in Nat
BY MaxBytesAssumption, LenProperties DEF Room, IInv, TypeOK

\* What a step does to the invariant, and to the size of the vector.
LEMMA StepKeeps ==
    ASSUME IInv, Next
    PROVE  /\ IInv'
           /\ Len(buf'.data) > Len(buf.data) =>
                 ReadableBytes(buf') > Len(buf.data) - CheapPrepend
<1>1. /\ Good(buf) /\ Readable(buf) \in Seq(Bytes)
      /\ received \in Seq(Bytes) /\ taken \in Seq(Bytes)
      /\ received = taken \o Readable(buf)
  BY IInvGood
<1>2. /\ Len(buf.data) \in Nat /\ buf.reader \in Nat /\ buf.writer \in Nat
      /\ CheapPrepend \in Nat /\ buf.reader <= buf.writer
      /\ Len(Readable(buf)) = buf.writer - buf.reader
  BY <1>1, GoodFacts
<1>3. ASSUME NEW s \in Seq(Bytes), Good(buf'), Readable(buf)' = Readable(buf) \o s,
             received' = received \o s, taken' = taken,
             Len(buf'.data) > Len(buf.data) =>
                (buf.writer - buf.reader) + Len(s) > Len(buf.data) - CheapPrepend
      PROVE  /\ IInv'
             /\ Len(buf'.data) > Len(buf.data) =>
                   ReadableBytes(buf') > Len(buf.data) - CheapPrepend
  <2>1. received' \in Seq(Bytes)
    BY <1>1, <1>3, ConcatProperties
  <2>2. (taken \o Readable(buf)) \o s = taken \o (Readable(buf) \o s)
    BY <1>1, ConcatBytes
  <2>3. received' = taken' \o Readable(buf)'
    BY <1>1, <1>3, <2>2
  <2>4. IInv'
    BY <1>1, <1>3, <2>1, <2>3 DEF IInv, TypeOK, NothingLost, Good
  <2>5. Len(Readable(buf')) = buf'.writer - buf'.reader
    BY <1>3, GoodFacts
  <2>6. Len(Readable(buf')) = (buf.writer - buf.reader) + Len(s)
    <3>1. Len(Readable(buf) \o s) = Len(Readable(buf)) + Len(s)
      BY <1>1, ConcatProperties
    <3>2. Readable(buf') = Readable(buf) \o s
      BY <1>3
    <3> QED BY <1>2, <3>1, <3>2
  <2> QED BY <1>3, <2>4, <2>5, <2>6 DEF ReadableBytes
<1>4. ASSUME NEW n \in Nat, n <= ReadableBytes(buf), buf' = Retrieve(buf, n),
             taken' = taken \o SubSeq(Readable(buf), 1, n), received' = received
      PROVE  /\ IInv'
             /\ Len(buf'.data) > Len(buf.data) =>
                   ReadableBytes(buf') > Len(buf.data) - CheapPrepend
  <2> DEFINE t == SubSeq(Readable(buf), 1, n)
             q == Retrieve(buf, n)
  <2>1. /\ Good(q) /\ t \in Seq(Bytes) /\ Readable(q) \in Seq(Bytes)
        /\ Readable(buf) = t \o Readable(q) /\ Len(q.data) = Len(buf.data)
    BY <1>1, <1>4, RetrieveDrops
  <2> HIDE DEF t
  <2>2. taken' = taken \o t /\ buf' = q
    BY <1>4 DEF t
  <2> HIDE DEF q
  <2>3. taken \o t \in Seq(Bytes)
    BY <1>1, <2>1, ConcatProperties
  <2>4. (taken \o t) \o Readable(q) = taken \o (t \o Readable(q))
    BY <1>1, <2>1, ConcatBytes
  <2>5. received = (taken \o t) \o Readable(q)
    BY <1>1, <2>1, <2>4
  <2>6. Readable(buf)' = Readable(q)
    BY <2>2
  <2>7. IInv'
    BY <1>1, <1>4, <2>1, <2>2, <2>3, <2>5, <2>6 DEF IInv, TypeOK, NothingLost, Good
  <2>8. ~(Len(buf'.data) > Len(buf.data))
    BY <1>2, <2>1, <2>2
  <2> QED BY <2>7, <2>8
<1>5. ASSUME NEW s \in Chunks(Room), Read(s) \/ Queue(s)
      PROVE  /\ IInv'
             /\ Len(buf'.data) > Len(buf.data) =>
                   ReadableBytes(buf') > Len(buf.data) - CheapPrepend
  <2>1. s \in Seq(Bytes)
    BY RoomNat, ChunksAreStrings
  <2>2. received' = received \o s /\ taken' = taken
    BY <1>5 DEF Read, Queue
  <2>3. CASE Read(s)
    <3>1. buf' = ReadFd(buf, s)
      BY <2>3 DEF Read
    <3>2. /\ Good(ReadFd(buf, s)) /\ Readable(ReadFd(buf, s)) = Readable(buf) \o s
          /\ Len(ReadFd(buf, s).data) > Len(buf.data) =>
                (buf.writer - buf.reader) + Len(s) > Len(buf.data) - CheapPrepend
      BY <1>1, <2>1, ReadFdKeeps
    <3>3. Readable(buf)' = Readable(buf')
      OBVIOUS
    <3> QED BY <1>3, <2>1, <2>2, <3>1, <3>2, <3>3
  <2>4. CASE Queue(s)
    <3>1. buf' = AppendBytes(buf, s)
      BY <2>4 DEF Queue
    <3>2. /\ Good(AppendBytes(buf, s)) /\ Readable(AppendBytes(buf, s)) = Readable(buf) \o s
          /\ Len(AppendBytes(buf, s).data) > Len(buf.data) =>
                (buf.writer - buf.reader) + Len(s) > Len(buf.data) - CheapPrepend
      BY <1>1, <2>1, AppendKeeps
    <3>3. Readable(buf)' = Readable(buf')
      OBVIOUS
    <3> QED BY <1>3, <2>1, <2>2, <3>1, <3>2, <3>3
  <2> QED BY <1>5, <2>3, <2>4
<1>6. ASSUME NEW n \in 1..MaxBytes, Write(n)
      PROVE  /\ IInv'
             /\ Len(buf'.data) > Len(buf.data) =>
                   ReadableBytes(buf') > Len(buf.data) - CheapPrepend
  <2>1. n \in Nat
    BY MaxBytesAssumption
  <2> QED BY <1>4, <1>6, <2>1 DEF Write
<1>7. CASE TakeAll
  <2> DEFINE n == ReadableBytes(buf)
  <2>1. n \in Nat /\ n <= ReadableBytes(buf) /\ n = Len(Readable(buf))
    BY <1>2 DEF ReadableBytes
  <2>2. SubSeq(Readable(buf), 1, n) = Readable(buf)
    BY <1>1, <2>1, SubSeqFull
  <2>3. /\ buf' = Retrieve(buf, n) /\ received' = received
        /\ taken' = taken \o SubSeq(Readable(buf), 1, n)
    BY <1>7, <2>2 DEF TakeAll
  <2> HIDE DEF n
  <2> QED BY <1>4, <2>1, <2>3
<1> QED BY <1>5, <1>6, <1>7 DEF Next

\* A stuttering step keeps the invariant.
LEMMA StutterKeeps == IInv /\ UNCHANGED vars => IInv'
BY DEF IInv, TypeOK, NothingLost, Readable, vars

----------------------------------------------------------------------------
(* The theorems *)

\* The invariant holds of every reachable buffer: a connection only reads, queues,
\* writes and takes.
THEOREM Invariance == Spec => []IInv
<1>1. IInv /\ [Next]_vars => IInv'
  BY StepKeeps, StutterKeeps
<1> QED BY <1>1, InitIInv, PTL DEF Spec

\* In every reachable state the indices of the buffer are in order and inside the
\* vector, so no copy of makeSpace, append, readFd or retrieve is out of bounds.
THEOREM TypeCorrect == Spec => []TypeOK
<1>1. IInv => TypeOK
  BY DEF IInv
<1> QED BY <1>1, Invariance, PTL

\* What was taken out followed by what is still readable is what was put in.
THEOREM BytesKept == Spec => []NothingLost
<1>1. IInv => NothingLost
  BY DEF IInv
<1> QED BY <1>1, Invariance, PTL

\* A step that makes the vector longer leaves more bytes in it than the old vector
\* had room for behind its prependable part.
THEOREM GrowthNeeded == Spec => GrowsOnlyIfNeeded
<1> DEFINE Needed == Len(buf'.data) > Len(buf.data) =>
                        ReadableBytes(buf') > Len(buf.data) - CheapPrepend
<1>1. IInv /\ [Next]_vars => [Needed]_vars
  BY StepKeeps
<1>2. Spec => [][Needed]_vars
  BY <1>1, Invariance, PTL DEF Spec
<1> QED BY <1>2 DEF GrowsOnlyIfNeeded
=============================================================================
