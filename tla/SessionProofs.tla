---------------------------- MODULE SessionProofs ----------------------------
(* For any number of callers of Stop, any capacity of the stderr capture and   *)
(* writes of any length: no process outlives its session, the capture is the   *)
(* end of stderr, and every step of a session is a step of SessionLife.        *)
EXTENDS Session, SequenceTheorems, TLAPS

USE DEF groupVars

-----------------------------------------------------------------------------
(* The capture of stderr. *)

\* The place k of the buffer holds the i-th of the last bytes written.
Slot(pos, full, k, i) ==
  IF ~full THEN i = k + 1
  ELSE IF k < pos THEN i = Size - pos + k + 1 ELSE i = k - pos + 1

\* A ring at pos that holds m bytes takes n more, fewer than Size: afterwards it is at npos, its
\* place k holds the i-th of the last bytes, which was the j-th of the m + n, and k was the h-th
\* place from pos on.
Shift(pos, full, m, n, npos, nfull, k, i, j, h) ==
  /\ pos \in 0..(Size - 1) /\ full \in BOOLEAN
  /\ m \in Nat /\ m = IF full THEN Size ELSE pos
  /\ n \in 0..(Size - 1)
  /\ npos \in Nat /\ npos = IF pos + n < Size THEN pos + n ELSE pos + n - Size
  /\ nfull \in BOOLEAN /\ nfull = (full \/ pos + n >= Size)
  /\ k \in 0..(Size - 1) /\ i \in 1..Size /\ (~nfull => i <= npos) /\ Slot(npos, nfull, k, i)
  /\ j \in Nat /\ j = IF m + n > Size THEN m + n - Size + i ELSE i
  /\ h \in 1..Size /\ Slot(pos, TRUE, k, h)

\* Every place holds an old byte that kept its order, or one of the new ones.
LEMMA SlotsMove ==
  ASSUME NEW pos, NEW full, NEW m, NEW n, NEW npos, NEW nfull, NEW k, NEW i, NEW j, NEW h,
         Shift(pos, full, m, n, npos, nfull, k, i, j, h)
  PROVE  /\ j <= m => Slot(pos, full, k, j) /\ ~(h <= n)
         /\ j > m => h <= n /\ j = m + h
<1>0. /\ pos \in 0..(Size - 1) /\ full \in BOOLEAN
      /\ m \in Nat /\ m = IF full THEN Size ELSE pos
      /\ n \in 0..(Size - 1)
      /\ npos \in Nat /\ npos = IF pos + n < Size THEN pos + n ELSE pos + n - Size
      /\ nfull \in BOOLEAN /\ nfull = (full \/ pos + n >= Size)
      /\ k \in 0..(Size - 1) /\ i \in 1..Size /\ (~nfull => i <= npos) /\ Slot(npos, nfull, k, i)
      /\ j \in Nat /\ j = IF m + n > Size THEN m + n - Size + i ELSE i
      /\ h \in 1..Size /\ Slot(pos, TRUE, k, h)
  BY Zenon DEF Shift
<1>1. Size \in Nat \ {0}
  BY SizeAssumption
<1>2. CASE full
  <2>1. m = Size /\ nfull = TRUE
    BY <1>0, <1>2
  <2>2. j = n + i
    BY <1>0, <1>1, <2>1
  <2>3. k < npos => i = Size - npos + k + 1
    BY <1>0, <2>1 DEF Slot
  <2>4. ~(k < npos) => i = k - npos + 1
    BY <1>0, <2>1 DEF Slot
  <2>5. k < pos => h = Size - pos + k + 1
    BY <1>0 DEF Slot
  <2>6. ~(k < pos) => h = k - pos + 1
    BY <1>0 DEF Slot
  <2>7. npos = pos + n \/ npos = pos + n - Size
    BY <1>0
  <2>8. Slot(pos, full, k, j) <=> (IF k < pos THEN j = Size - pos + k + 1 ELSE j = k - pos + 1)
    BY <1>0, <1>2 DEF Slot
  <2>9. /\ j <= m => j = h /\ ~(h <= n)
        /\ j > m => h <= n /\ j = m + h
    BY <1>0, <1>1, <2>1, <2>2, <2>3, <2>4, <2>5, <2>6, <2>7
  <2> QED
    BY <1>0, <2>8, <2>9, <2>5, <2>6
<1>3. CASE ~full /\ pos + n >= Size
  <2>0. m = pos /\ nfull = TRUE
    BY <1>0, <1>3, Zenon
  <2>10. npos = pos + n - Size
    BY <1>0, <1>1, <1>3
  <2>1. m = pos /\ nfull = TRUE /\ npos = pos + n - Size
    BY <1>0, <2>0, <2>10
  <2>2. j = m + n - Size + i
    BY <1>0, <1>1, <1>3, <2>1
  <2>3. k < npos => i = Size - npos + k + 1
    BY <1>0, <2>1 DEF Slot
  <2>4. ~(k < npos) => i = k - npos + 1
    BY <1>0, <2>1 DEF Slot
  <2>5. k < pos => h = Size - pos + k + 1
    BY <1>0 DEF Slot
  <2>6. ~(k < pos) => h = k - pos + 1
    BY <1>0 DEF Slot
  <2>8. Slot(pos, full, k, j) <=> j = k + 1
    BY <1>0, <1>3 DEF Slot
  <2>9. /\ j <= m => j = k + 1 /\ ~(h <= n)
        /\ j > m => h <= n /\ j = m + h
    BY <1>0, <1>1, <2>1, <2>2, <2>3, <2>4, <2>5, <2>6
  <2> QED
    BY <1>0, <2>8, <2>9
<1>4. CASE ~full /\ pos + n < Size
  BY <1>0, <1>1, <1>4 DEF Slot
<1> QED
  BY <1>0, <1>2, <1>3, <1>4, <1>1

\* Write's (k + Size - pos) % Size is how far k lies from pos, going round.
LEMMA PlaceToIndex ==
  ASSUME NEW pos \in 0..(Size - 1), NEW k \in 0..(Size - 1), NEW i \in 1..Size, Slot(pos, TRUE, k, i)
  PROVE  (k + Size - pos) % Size = i - 1
<1>1. CASE k < pos
  <2>1. i = Size - pos + k + 1
    BY <1>1 DEF Slot
  <2>2. (k + Size - pos) % Size = k + Size - pos
    BY SizeAssumption, <1>1
  <2> QED
    BY <2>1, <2>2, SizeAssumption
<1>2. CASE ~(k < pos)
  <2>1. i = k - pos + 1
    BY <1>2 DEF Slot
  <2>2. (k + Size - pos) % Size = k - pos
    BY SizeAssumption, <1>2
  <2> QED
    BY <2>1, <2>2, SizeAssumption
<1> QED
  BY <1>1, <1>2

\* Bytes' (pos + i - 1) % Size is the place of the i-th byte of a full buffer.
LEMMA IndexToPlace ==
  ASSUME NEW pos \in 0..(Size - 1), NEW i \in 1..Size
  PROVE  /\ (pos + i - 1) % Size \in 0..(Size - 1)
         /\ Slot(pos, TRUE, (pos + i - 1) % Size, i)
<1>1. CASE pos + i - 1 < Size
  <2>2. (pos + i - 1) % Size = pos + i - 1
    BY SizeAssumption, <1>1
  <2> QED
    BY <1>1, <2>2, SizeAssumption DEF Slot
<1>2. CASE pos + i - 1 >= Size
  <2>2. (pos + i - 1) % Size = pos + i - 1 - Size
    BY SizeAssumption, <1>2
  <2> QED
    BY <1>2, <2>2, SizeAssumption DEF Slot
<1>3. pos + i - 1 < Size \/ pos + i - 1 >= Size
  BY SizeAssumption
<1> QED
  BY <1>1, <1>2, <1>3, Zenon

\* Write's position after n more bytes.
LEMMA Advance ==
  ASSUME NEW pos \in 0..(Size - 1), NEW n \in 0..(Size - 1)
  PROVE  (pos + n) % Size = IF pos + n < Size THEN pos + n ELSE pos + n - Size
BY SizeAssumption

\* The ring r holds the bytes w.
Holds(r, w) ==
  /\ r.pos \in 0..(Size - 1) /\ r.full \in BOOLEAN
  /\ w \in Seq(Byte)
  /\ Len(w) = IF r.full THEN Size ELSE r.pos
  /\ \A k \in 0..(Size - 1), i \in 1..Len(w) : Slot(r.pos, r.full, k, i) => r.buf[k] = w[i]

\* A write shorter than the buffer fills the places from pos on, going round.
LEMMA ShortWrite ==
  ASSUME NEW r, r.pos \in 0..(Size - 1), NEW p \in Seq(Byte), Len(p) < Size
  PROVE  /\ RingWrite(r, p).pos
              = IF r.pos + Len(p) < Size THEN r.pos + Len(p) ELSE r.pos + Len(p) - Size
         /\ RingWrite(r, p).full = (r.full \/ r.pos + Len(p) >= Size)
         /\ \A k \in 0..(Size - 1), i \in 1..Size :
              Slot(r.pos, TRUE, k, i) =>
                RingWrite(r, p).buf[k] = IF i <= Len(p) THEN p[i] ELSE r.buf[k]
<1>0. Len(p) \in 0..(Size - 1) /\ ~(Len(p) >= Size)
  BY LenProperties, SizeAssumption
<1>1. RingWrite(r, p) =
        [buf |-> [k \in 0..(Size - 1) |->
                   IF (k + Size - r.pos) % Size < Len(p)
                   THEN p[((k + Size - r.pos) % Size) + 1] ELSE r.buf[k]],
         pos |-> (r.pos + Len(p)) % Size,
         full |-> r.full \/ r.pos + Len(p) >= Size]
  BY <1>0, Zenon DEF RingWrite
<1>2. (r.pos + Len(p)) % Size
        = IF r.pos + Len(p) < Size THEN r.pos + Len(p) ELSE r.pos + Len(p) - Size
  BY <1>0, Advance, Zenon
<1>3. /\ RingWrite(r, p).pos = (r.pos + Len(p)) % Size
      /\ RingWrite(r, p).full = (r.full \/ r.pos + Len(p) >= Size)
  BY <1>1
<1>4. ASSUME NEW k \in 0..(Size - 1), NEW i \in 1..Size, Slot(r.pos, TRUE, k, i)
      PROVE  RingWrite(r, p).buf[k] = IF i <= Len(p) THEN p[i] ELSE r.buf[k]
  <2>1. RingWrite(r, p).buf[k] = IF (k + Size - r.pos) % Size < Len(p)
                                 THEN p[((k + Size - r.pos) % Size) + 1] ELSE r.buf[k]
    BY <1>1
  <2>2. (k + Size - r.pos) % Size = i - 1
    BY <1>4, PlaceToIndex, Zenon
  <2>3. (i - 1) + 1 = i /\ (i - 1 < Len(p) <=> i <= Len(p))
    BY <1>0
  <2> QED
    BY <2>1, <2>2, <2>3, Zenon
<1> QED
  BY <1>2, <1>3, <1>4, Zenon

\* A longer one leaves the last bytes of the chunk.
LEMMA LongWrite ==
  ASSUME NEW r, NEW p, Len(p) \in Nat, Len(p) >= Size
  PROVE  /\ RingWrite(r, p).pos = 0 /\ RingWrite(r, p).full = TRUE
         /\ \A k \in 0..(Size - 1) : RingWrite(r, p).buf[k] = p[Len(p) - Size + k + 1]
BY SizeAssumption DEF RingWrite

\* The i-th of the last Size bytes.
LEMMA LatestBytes ==
  ASSUME NEW v \in Seq(Byte)
  PROVE  /\ Latest(v) \in Seq(Byte)
         /\ Len(v) <= Size => Latest(v) = v
         /\ Len(v) > Size =>
              /\ Len(Latest(v)) = Size
              /\ \A i \in 1..Size, j \in 1..Len(v) :
                   j = Len(v) - Size + i => Latest(v)[i] = v[j]
<1>1. Len(v) \in Nat /\ Size \in Nat \ {0}
  BY LenProperties, SizeAssumption
<1>2. CASE Len(v) <= Size
  <2>1. Latest(v) = SubSeq(v, 1, Len(v))
    <3>1. ~(Len(v) > Size)
      BY <1>1, <1>2
    <3> QED
      BY <3>1, Zenon DEF Latest
  <2> QED
    BY <1>1, <1>2, <2>1, SubSeqFull
<1>3. CASE Len(v) > Size
  <2> DEFINE first == Len(v) - Size + 1
  <2>1. \A i \in first..Len(v) : v[i] \in Byte
    BY <1>1, <1>3, ElementOfSeq
  <2>2. Latest(v) = SubSeq(v, first, Len(v))
    BY <1>1, <1>3 DEF Latest
  <2>3. /\ SubSeq(v, first, Len(v)) \in Seq(Byte)
        /\ Len(SubSeq(v, first, Len(v))) = Size
        /\ \A i \in 1..Size : SubSeq(v, first, Len(v))[i] = v[first + i - 1]
    BY <1>1, <1>3, <2>1, SubSeqProperties
  <2> QED
    BY <1>1, <1>3, <2>2, <2>3
<1> QED
  BY <1>1, <1>2, <1>3

\* Bytes returns what the ring holds.
LEMMA BytesAreHeld ==
  ASSUME NEW r, NEW w, Holds(r, w)
  PROVE  RingBytes(r) = w
<1>1. w = [i \in 1..Len(w) |-> w[i]]
  BY LenProperties DEF Holds
<1>2. /\ r.pos \in 0..(Size - 1) /\ Size \in Nat \ {0}
      /\ \A k \in 0..(Size - 1), i \in 1..Len(w) : Slot(r.pos, r.full, k, i) => r.buf[k] = w[i]
  BY SizeAssumption DEF Holds
<1>3. CASE r.full
  <2>1. Len(w) = Size
    BY <1>3, Zenon DEF Holds
  <2>2. ASSUME NEW i \in 1..Size PROVE w[i] = r.buf[(r.pos + i - 1) % Size]
    <3>1. /\ (r.pos + i - 1) % Size \in 0..(Size - 1)
          /\ Slot(r.pos, TRUE, (r.pos + i - 1) % Size, i)
      BY <1>2, IndexToPlace, Zenon
    <3>2. Slot(r.pos, r.full, (r.pos + i - 1) % Size, i)
      BY <1>3, <3>1, Zenon DEF Slot
    <3> QED
      BY <1>2, <2>1, <3>1, <3>2, Zenon
  <2>3. RingBytes(r) = [k \in 1..Size |-> r.buf[(r.pos + k - 1) % Size]]
    BY <1>3, Zenon DEF RingBytes
  <2> QED
    BY <1>1, <2>1, <2>2, <2>3, Zenon
<1>4. CASE ~r.full
  <2>1. Len(w) = r.pos
    BY <1>4, Zenon DEF Holds
  <2>2. ASSUME NEW i \in 1..r.pos PROVE w[i] = r.buf[i - 1]
    <3>1. PICK k \in 0..(Size - 1) : k = i - 1
      BY <1>2
    <3>2. i = k + 1
      BY <3>1
    <3>3. Slot(r.pos, r.full, k, i)
      BY <1>4, <3>2, Zenon DEF Slot
    <3> QED
      BY <1>2, <2>1, <3>1, <3>3, Zenon
  <2>3. RingBytes(r) = [k \in 1..r.pos |-> r.buf[k - 1]]
    BY <1>4, Zenon DEF RingBytes
  <2> QED
    BY <1>1, <2>1, <2>2, <2>3, Zenon
<1> QED
  BY <1>3, <1>4

\* A write keeps the buffer in agreement with the end of what was written, wherever it starts
\* and however often the buffer has gone round.
LEMMA WriteHoldsLatest ==
  ASSUME NEW r, NEW w, Holds(r, w), NEW p \in Seq(Byte)
  PROVE  Holds(RingWrite(r, p), Latest(w \o p))
<1>0. /\ r.pos \in 0..(Size - 1) /\ r.full \in BOOLEAN /\ w \in Seq(Byte)
      /\ Len(w) = IF r.full THEN Size ELSE r.pos
      /\ \A k \in 0..(Size - 1), i \in 1..Len(w) : Slot(r.pos, r.full, k, i) => r.buf[k] = w[i]
  BY Zenon DEF Holds
<1>1. Size \in Nat \ {0} /\ Len(p) \in Nat /\ Len(w) \in Nat
  BY <1>0, LenProperties, SizeAssumption
<1>2. PICK v : v = w \o p
  OBVIOUS
<1>3. PICK u : u = Latest(v)
  OBVIOUS
<1>4. PICK q : q = RingWrite(r, p)
  OBVIOUS
<1> SUFFICES Holds(q, u)
  BY <1>2, <1>3, <1>4
<1>5. /\ v \in Seq(Byte) /\ Len(v) = Len(w) + Len(p)
      /\ \A j \in 1..Len(w) : v[j] = w[j]
      /\ \A j \in 1..Len(v), i \in 1..Len(p) : j = Len(w) + i => v[j] = p[i]
  <2>1. /\ v \in Seq(Byte) /\ Len(v) = Len(w) + Len(p)
        /\ \A j \in 1..(Len(w) + Len(p)) : v[j] = IF j <= Len(w) THEN w[j] ELSE p[j - Len(w)]
    BY <1>0, <1>2, ConcatProperties, Zenon
  <2>2. ASSUME NEW j \in 1..Len(w) PROVE v[j] = w[j]
    <3>1. j \in 1..(Len(w) + Len(p)) /\ j <= Len(w)
      BY <1>1
    <3> QED
      BY <2>1, <3>1, Zenon
  <2>3. ASSUME NEW j \in 1..(Len(w) + Len(p)), NEW i \in 1..Len(p), j = Len(w) + i
        PROVE  v[j] = p[i]
    <3>1. ~(j <= Len(w)) /\ j - Len(w) = i
      BY <1>1, <2>3
    <3> QED
      BY <2>1, <3>1, Zenon
  <2> QED
    BY <2>1, <2>2, <2>3
<1>6. /\ u \in Seq(Byte)
      /\ Len(v) <= Size => u = v
      /\ Len(v) > Size => Len(u) = Size
      /\ Len(v) > Size => \A i \in 1..Size, j \in 1..Len(v) : j = Len(v) - Size + i => u[i] = v[j]
  BY <1>3, <1>5, LatestBytes, Zenon
<1>7. Len(u) = IF Len(v) > Size THEN Size ELSE Len(v)
  BY <1>1, <1>5, <1>6
<1>8. ASSUME NEW i \in 1..Len(u), NEW j \in 1..Len(v),
             j = IF Len(v) > Size THEN Len(v) - Size + i ELSE i
      PROVE  u[i] = v[j]
  <2>1. CASE Len(v) > Size
    BY <1>6, <1>7, <1>8, <2>1, Zenon
  <2>2. CASE ~(Len(v) > Size)
    <3>1. Len(v) <= Size
      BY <1>1, <1>5, <2>2
    <3> QED
      BY <1>6, <1>8, <2>2, <3>1, Zenon
  <2> QED
    BY <2>1, <2>2
<1>9. CASE Len(p) >= Size
  <2>0. /\ RingWrite(r, p).pos = 0 /\ RingWrite(r, p).full = TRUE
        /\ \A k \in 0..(Size - 1) : RingWrite(r, p).buf[k] = p[Len(p) - Size + k + 1]
    <3>1. Len(p) \in Nat
      BY <1>1
    <3> QED
      BY <1>9, <3>1, LongWrite, Zenon
  <2>1. q.pos = 0 /\ q.full = TRUE
    BY <1>4, <2>0, Zenon
  <2>2. \A k \in 0..(Size - 1), h \in 1..Len(p) : h = Len(p) - Size + k + 1 => q.buf[k] = p[h]
    BY <1>4, <2>0, Zenon
  <2>3. Len(u) = Size /\ Len(v) \in Nat
    BY <1>1, <1>5, <1>7, <1>9
  <2>4. ASSUME NEW k \in 0..(Size - 1), NEW i \in 1..Size, Slot(0, TRUE, k, i)
        PROVE  q.buf[k] = u[i]
    <3>0. i = k + 1
      BY <1>1, <2>4 DEF Slot
    <3>1. PICK j \in Nat : j = IF Len(v) > Size THEN Len(v) - Size + i ELSE i
      <4> DEFINE c == IF Len(v) > Size THEN Len(v) - Size + i ELSE i
      <4>1. c \in Nat
        <5>1. i \in Nat /\ Len(v) \in Nat /\ Size \in Nat
          BY <1>1, <2>3
        <5> QED
          BY <5>1
      <4> HIDE DEF c
      <4>2. \E j \in Nat : j = c
        BY <4>1, Zenon
      <4> QED
        BY <4>2 DEF c
    <3>2. PICK h \in Int : h = Len(p) - Size + k + 1
      BY <1>1
    <3>9. Len(v) = Len(w) + Len(p)
      BY <1>5
    <3>3. j = Len(w) + h /\ h \in 1..Len(p) /\ j \in 1..Len(v)
      BY <1>1, <1>9, <3>9, <3>0, <3>1, <3>2
    <3>4. u[i] = v[j]
      BY <1>8, <2>3, <3>1, <3>3, Zenon
    <3>5. v[j] = p[h]
      BY <1>5, <3>3, Zenon
    <3> QED
      BY <2>2, <3>2, <3>3, <3>4, <3>5, Zenon
  <2>5. q.pos \in 0..(Size - 1)
    BY <1>1, <2>1
  <2> QED
    <3>1. ASSUME NEW k \in 0..(Size - 1), NEW i \in 1..Len(u), Slot(q.pos, q.full, k, i)
          PROVE  q.buf[k] = u[i]
      <4>1. i \in 1..Size /\ Slot(0, TRUE, k, i)
        BY <2>1, <2>3, <3>1, Zenon
      <4> QED
        BY <2>4, <4>1, Zenon
    <3>2. q.full \in BOOLEAN /\ Len(u) = IF q.full THEN Size ELSE q.pos
      BY <2>1, <2>3
    <3> QED
      BY <1>6, <2>5, <3>1, <3>2 DEF Holds
<1>10. CASE Len(p) < Size
  <2>0. Len(p) \in 0..(Size - 1)
    BY <1>1, <1>10
  <2>1. /\ q.pos = IF r.pos + Len(p) < Size THEN r.pos + Len(p) ELSE r.pos + Len(p) - Size
        /\ q.full = (r.full \/ r.pos + Len(p) >= Size)
    BY <1>0, <1>4, <1>10, ShortWrite, Zenon
  <2>2. \A k \in 0..(Size - 1), h \in 1..Size :
          Slot(r.pos, TRUE, k, h) => q.buf[k] = IF h <= Len(p) THEN p[h] ELSE r.buf[k]
    BY <1>0, <1>4, <1>10, ShortWrite, Zenon
  <2>3. /\ q.pos \in 0..(Size - 1) /\ q.full \in BOOLEAN
    BY <1>0, <1>1, <1>10, <2>1
  <2>8. Len(u) = IF q.full THEN Size ELSE q.pos
    <3>1. CASE r.full
      <4>1. Len(w) = Size /\ q.full = TRUE
        BY <1>0, <2>1, <3>1, Zenon
      <4> QED
        BY <1>1, <1>5, <1>6, <1>7, <4>1
    <3>2. CASE ~r.full /\ r.pos + Len(p) >= Size
      <4>1. Len(w) = r.pos /\ q.full = TRUE
        BY <1>0, <2>1, <3>2, Zenon
      <4> QED
        BY <1>0, <1>1, <1>5, <1>6, <1>7, <3>2, <4>1
    <3>3. CASE ~r.full /\ ~(r.pos + Len(p) >= Size)
      <4>1. Len(w) = r.pos /\ q.full = FALSE
        BY <1>0, <2>1, <3>3, Zenon
      <4>2. q.pos = r.pos + Len(p)
        BY <1>0, <1>1, <2>1, <3>3
      <4> QED
        BY <1>0, <1>1, <1>5, <1>6, <1>7, <3>3, <4>1, <4>2
    <3> QED
      BY <3>1, <3>2, <3>3
  <2>4. ASSUME NEW k \in 0..(Size - 1), NEW i \in 1..Len(u), Slot(q.pos, q.full, k, i)
        PROVE  q.buf[k] = u[i]
    <3>1. PICK j \in Nat : j = IF Len(w) + Len(p) > Size THEN Len(w) + Len(p) - Size + i ELSE i
      <4> DEFINE c == IF Len(w) + Len(p) > Size THEN Len(w) + Len(p) - Size + i ELSE i
      <4>1. c \in Nat
        <5>1. i \in Nat /\ Len(w) + Len(p) \in Nat /\ Size \in Nat
          BY <1>1, <1>7
        <5> QED
          BY <5>1
      <4> HIDE DEF c
      <4>2. \E j \in Nat : j = c
        BY <4>1, Zenon
      <4> QED
        BY <4>2 DEF c
    <3>2. i \in 1..Size /\ j \in 1..Len(v) /\ j = IF Len(v) > Size THEN Len(v) - Size + i ELSE i
      BY <1>1, <1>5, <1>7, <3>1
    <3>3. u[i] = v[j]
      BY <1>8, <3>2, Zenon
    <3>4. PICK h \in 1..Size : Slot(r.pos, TRUE, k, h)
      <4>1. PICK h \in 1..Size : h = IF k < r.pos THEN Size - r.pos + k + 1 ELSE k - r.pos + 1
        <5> DEFINE c == IF k < r.pos THEN Size - r.pos + k + 1 ELSE k - r.pos + 1
        <5>1. c \in 1..Size
          <6>1. r.pos \in 0..(Size - 1) /\ Size \in Nat
            BY <1>0, <1>1
          <6>2. CASE k < r.pos
            BY <6>1, <6>2, SMTT(30)
          <6>3. CASE ~(k < r.pos)
            BY <6>1, <6>3, SMTT(30)
          <6> QED
            BY <6>2, <6>3
        <5> HIDE DEF c
        <5>2. \E h \in 1..Size : h = c
          BY <5>1, Zenon
        <5> QED
          BY <5>2 DEF c
      <4> QED
        BY <4>1, Zenon DEF Slot
    <3>5. q.buf[k] = IF h <= Len(p) THEN p[h] ELSE r.buf[k]
      BY <2>2, <3>4, Zenon
    <3>6. ~q.full => i <= q.pos
      BY <1>1, <2>3, <2>8
    <3>9. q.pos \in Nat
      BY <2>3
    <3>7. /\ j <= Len(w) => Slot(r.pos, r.full, k, j) /\ ~(h <= Len(p))
          /\ j > Len(w) => h <= Len(p) /\ j = Len(w) + h
      <4>1. Shift(r.pos, r.full, Len(w), Len(p), q.pos, q.full, k, i, j, h)
        BY <1>0, <1>1, <2>0, <2>1, <2>3, <2>4, <3>1, <3>2, <3>4, <3>6, <3>9, Zenon DEF Shift
      <4> QED
        BY <4>1, SlotsMove, Zenon
    <3>8. CASE j <= Len(w)
      <4>1. j \in 1..Len(w)
        BY <1>1, <3>2, <3>8
      <4> QED
        BY <1>0, <1>5, <3>3, <3>5, <3>7, <3>8, <4>1, Zenon
    <3>10. CASE j > Len(w)
      <4>1. h \in 1..Len(p)
        BY <1>1, <3>7, <3>10
      <4>2. QED
        <5>1. v[j] = p[h]
          BY <1>5, <3>2, <3>7, <3>10, <4>1, Zenon
        <5>2. q.buf[k] = p[h]
          BY <3>5, <3>7, <3>10, Zenon
        <5> QED
          BY <3>3, <5>1, <5>2, Zenon
    <3> QED
      BY <1>1, <3>8, <3>10
  <2> QED
    <3>1. \A k \in 0..(Size - 1), i \in 1..Len(u) : Slot(q.pos, q.full, k, i) => q.buf[k] = u[i]
      BY <2>4, Zenon
    <3>2. u \in Seq(Byte)
      BY <1>6, Zenon
    <3> QED
      BY <2>3, <2>8, <3>1, <3>2 DEF Holds
<1> QED
  BY <1>1, <1>9, <1>10

-----------------------------------------------------------------------------
(* The process group. *)

\* Start leaves a session that satisfies the invariant.
LEMMA InitInv == Init => Inv
<1> SUFFICES ASSUME Init PROVE Inv
  OBVIOUS
<1>1. TypeOK
  BY SizeAssumption DEF Init, TypeOK, EmptyRing, Processes
<1> QED
  BY <1>1 DEF Init, Inv, NothingOutlives, GroupWindsDown

\* A write leaves the position inside the buffer.
LEMMA RingWriteType ==
  ASSUME NEW r, r.pos \in 0..(Size - 1), r.full \in BOOLEAN, NEW p \in Seq(Byte)
  PROVE  RingWrite(r, p).pos \in 0..(Size - 1) /\ RingWrite(r, p).full \in BOOLEAN
<1>1. Size \in Nat \ {0} /\ Len(p) \in Nat
  BY SizeAssumption, LenProperties
<1>2. CASE Len(p) >= Size
  <2>1. RingWrite(r, p).pos = 0 /\ RingWrite(r, p).full = TRUE
    BY <1>1, <1>2, LongWrite, Zenon
  <2>2. 0 \in 0..(Size - 1)
    BY <1>1
  <2> QED
    BY <2>1, <2>2, Zenon
<1>3. CASE Len(p) < Size
  <2>1. /\ RingWrite(r, p).pos
             = IF r.pos + Len(p) < Size THEN r.pos + Len(p) ELSE r.pos + Len(p) - Size
        /\ RingWrite(r, p).full = (r.full \/ r.pos + Len(p) >= Size)
    BY <1>3, ShortWrite, Zenon
  <2> QED
    BY <1>1, <1>3, <2>1
<1> QED
  BY <1>1, <1>2, <1>3

\* A chunk is a sequence of bytes.
LEMMA ChunkType ==
  ASSUME NEW chunk \in Chunks
  PROVE  chunk \in Seq(Byte) /\ chunk # <<>>
BY SessionAssumption DEF Chunks

\* Every step preserves the invariant.
LEMMA StepInv == Inv /\ [Next]_vars => Inv'
<1> SUFFICES ASSUME Inv, [Next]_vars PROVE Inv'
  OBVIOUS
<1> USE DEF Inv, TypeOK, Places, NothingOutlives, GroupWindsDown, GroupAlive, KillGroup, Processes,
           SignalMayFail
<1>1. CASE StartPlugin
  BY <1>1 DEF StartPlugin
<1>2. ASSUME NEW p \in Processes, ProcessEnds(p) PROVE Inv'
  BY <1>2 DEF ProcessEnds
<1>3. ASSUME NEW chunk \in Chunks, Stderr(chunk) PROVE Inv'
  <2>1. ring'.pos \in 0..(Size - 1) /\ ring'.full \in BOOLEAN
    BY <1>3, ChunkType, RingWriteType DEF Stderr
  <2> QED
    BY <1>3, <2>1 DEF Stderr
<1>4. CASE ContextDone
  BY <1>4 DEF ContextDone
<1>5. CASE WaitDelayKills
  BY <1>5 DEF WaitDelayKills
<1>6. CASE CmdWaitReturns
  BY <1>6 DEF CmdWaitReturns
<1>7. CASE TerminateGroup
  BY <1>7 DEF TerminateGroup
<1>8. CASE PollGroup
  BY <1>8 DEF PollGroup
<1>9. CASE CloseDone
  BY <1>9 DEF CloseDone
<1>10. ASSUME NEW c \in Stoppers, StopCalled(c) PROVE Inv'
  BY <1>10 DEF StopCalled
<1>11. ASSUME NEW c \in Stoppers, StopTerminates(c) PROVE Inv'
  BY <1>11 DEF StopTerminates
<1>12. ASSUME NEW c \in Stoppers, StopSeesDone(c) PROVE Inv'
  BY <1>12 DEF StopSeesDone
<1>13. ASSUME NEW c \in Stoppers, StopTimesOut(c) PROVE Inv'
  BY <1>13 DEF StopTimesOut
<1>14. ASSUME NEW c \in Stoppers, StopReturns(c) PROVE Inv'
  BY <1>14 DEF StopReturns
<1>15. ASSUME NEW c \in Stoppers, StopTermFails(c) PROVE Inv'
  BY <1>15 DEF StopTermFails
<1>16. ASSUME NEW c \in Stoppers, StopKillFails(c) PROVE Inv'
  BY <1>16 DEF StopKillFails
<1>17. CASE UNCHANGED vars
  BY <1>17 DEF vars
<1> QED
  BY <1>1, <1>2, <1>3, <1>4, <1>5, <1>6, <1>7, <1>8, <1>9, <1>10, <1>11, <1>12, <1>13, <1>14,
     <1>15, <1>16, <1>17 DEF Next, WaitStep, StopStep, Over

\* When done closes, or when a Stop returns, every process of the group has ended or has its
\* SIGKILL.
THEOREM GroupEnds == Spec => []Inv
BY InitInv, StepInv, PTL DEF Spec

-----------------------------------------------------------------------------

\* Start has written nothing yet.
LEMMA InitHolds == Init => Holds(ring, written)
<1> SUFFICES ASSUME Init PROVE Holds(ring, written)
  OBVIOUS
<1>1. PICK blank \in Byte : ring = EmptyRing(blank)
  BY DEF Init
<1>2. ring.pos = 0 /\ ring.full = FALSE /\ written = <<>>
  BY <1>1 DEF Init, EmptyRing
<1>3. 0 \in 0..(Size - 1)
  BY SizeAssumption
<1>4. Len(written) = 0 /\ written \in Seq(Byte)
  BY <1>2, EmptySeq
<1>5. \A i \in 1..Len(written) : FALSE
  BY <1>4
<1> QED
  BY <1>2, <1>3, <1>4, <1>5 DEF Holds

\* Only a write to stderr changes the capture.
LEMMA StepHolds == Holds(ring, written) /\ [Next]_vars => Holds(ring, written)'
<1> SUFFICES ASSUME Holds(ring, written), [Next]_vars PROVE Holds(ring', written')
  BY DEF Holds
<1>1. ASSUME NEW chunk \in Chunks, Stderr(chunk) PROVE Holds(ring', written')
  BY <1>1, ChunkType, WriteHoldsLatest DEF Stderr
<1>2. CASE UNCHANGED <<ring, written>>
  BY <1>2
<1> QED
  BY <1>1, <1>2
  DEF Next, vars, StartPlugin, ProcessEnds, ContextDone, WaitDelayKills, WaitStep,
      CmdWaitReturns, TerminateGroup, PollGroup, CloseDone, StopCalled, StopStep,
      StopTerminates, StopTermFails, StopSeesDone, StopTimesOut, StopKillFails, StopReturns, Over

\* What classify reads is the end of stderr, for any capacity and any sequence of writes.
THEOREM CaptureIsTheEnd == Spec => []CaptureIsLatest
<1>1. Holds(ring, written) => CaptureIsLatest
  BY BytesAreHeld DEF CaptureIsLatest
<1> QED
  BY <1>1, InitHolds, StepHolds, PTL DEF Spec

-----------------------------------------------------------------------------
(* The session that Engine assumes. *)

\* A step that leaves the wait goroutine, the context and what the callers show alone.
LEMMA Stutters ==
  ASSUME ctxDone' = ctxDone, wpc' = "done" <=> wpc = "done",
         \A c \in Stoppers : /\ Waiting(c)' <=> Waiting(c)
                             /\ Returned(c)' <=> Returned(c)
                             /\ GaveUp(c)' <=> GaveUp(c)
  PROVE  UNCHANGED Life!lifeVars
<1>1. Calls' = Calls
  BY DEF Calls
<1>2. Proc' = Proc
  BY DEF Proc
<1> QED
  BY <1>1, <1>2 DEF Life!lifeVars

\* A caller of Stop that goes from one place to another changes what it shows alone.
LEMMA CallerShows ==
  ASSUME TypeOK, NEW c \in Stoppers, NEW to, stopPc' = [stopPc EXCEPT ![c] = to]
  PROVE  /\ Calls' = [Calls EXCEPT ![c] =
              IF to \in {"wait", "unsent"} THEN "waiting"
              ELSE IF to \in {"killed", "ok", "timeout", "error"} THEN "returned" ELSE "idle"]
         /\ Waiting(c)' <=> to \in {"wait", "unsent"}
         /\ Returned(c)' <=> to \in {"killed", "ok", "timeout", "error"}
         /\ GaveUp(c)' <=> to \in {"killed", "timeout", "error"}
         /\ \A d \in Stoppers : d # c => /\ Waiting(d)' <=> Waiting(d)
                                         /\ Returned(d)' <=> Returned(d)
                                         /\ GaveUp(d)' <=> GaveUp(d)
<1>1. stopPc'[c] = to /\ \A d \in Stoppers : d # c => stopPc'[d] = stopPc[d]
  BY DEF TypeOK
<1> QED
  BY <1>1 DEF Calls, Waiting, Returned, GaveUp

\* Every step of the session is a step of the abstract one, or none.
LEMMA StepImplements == Inv /\ [Next]_vars => [Life!Next]_(Life!lifeVars)
<1> SUFFICES ASSUME Inv, [Next]_vars PROVE Life!Next \/ UNCHANGED Life!lifeVars
  OBVIOUS
<1>0. TypeOK /\ GroupWindsDown
  BY DEF Inv
<1>1. ASSUME UNCHANGED <<ctxDone, stopPc>>, wpc' = "done" <=> wpc = "done"
      PROVE  UNCHANGED Life!lifeVars
  BY <1>1, Stutters DEF Waiting, Returned, GaveUp
<1>2. CASE ContextDone
  <2>1. Calls' = Calls
    BY <1>2 DEF ContextDone, Calls, Waiting, Returned
  <2>2. Proc' \in {Proc, Life!Signalled}
    BY <1>2 DEF ContextDone, Proc, Waiting, GaveUp, Life!Signalled
  <2> QED
    BY <1>2, <2>1, <2>2 DEF ContextDone, Life!Next, Life!Cancel
<1>3. CASE CloseDone
  <2>1. Calls' = Calls /\ ctxDone' = ctxDone
    BY <1>3 DEF CloseDone, Calls, Waiting, Returned
  <2>2. Proc \in {"live", "term", "kill"} /\ Proc' = "gone"
    BY <1>3 DEF CloseDone, Proc
  <2> QED
    BY <2>1, <2>2 DEF Life!Next, Life!Dies, Life!Killed
<1>4. ASSUME NEW c \in Stoppers, StopCalled(c) PROVE Life!Next \/ UNCHANGED Life!lifeVars
  <2>1. ctxDone' = ctxDone /\ wpc' = wpc /\ stopPc[c] = "idle"
    BY <1>4 DEF StopCalled
  <2>2. CASE wpc = "done"
    <3>1. stopPc' = [stopPc EXCEPT ![c] = "ok"]
      BY <1>4, <2>2 DEF StopCalled
    <3>2. Calls' = [Calls EXCEPT ![c] = "returned"]
      BY <1>0, <3>1, CallerShows
    <3>3. Proc = "gone" /\ Proc' = "gone" /\ Calls[c] = "idle"
      BY <2>1, <2>2 DEF Proc, Calls, Waiting, Returned
    <3> QED
      BY <2>1, <3>2, <3>3 DEF Life!Next, Life!Return
  <2>3. CASE wpc # "done"
    <3>1. stopPc' = [stopPc EXCEPT ![c] = "term"]
      BY <1>4, <2>3 DEF StopCalled
    <3> QED
      BY <1>0, <2>1, <3>1, CallerShows, Stutters DEF Waiting, Returned, GaveUp
  <2> QED
    BY <2>2, <2>3
<1>5. ASSUME NEW c \in Stoppers, NEW to \in {"wait", "unsent"}, stopPc[c] = "term",
             stopPc' = [stopPc EXCEPT ![c] = to], UNCHANGED <<ctxDone, wpc>>
      PROVE  Life!Next
  <2>2. Calls[c] = "idle" /\ ~GaveUp(c)
    BY <1>5 DEF Calls, Waiting, Returned, GaveUp
  <2>3. /\ Calls' = [Calls EXCEPT ![c] = "waiting"]
        /\ Waiting(c)' /\ \A d \in Stoppers : GaveUp(d)' <=> GaveUp(d)
    BY <1>0, <1>5, <2>2, CallerShows
  <2>4. Proc' = Life!Signalled
    BY <1>5, <2>3 DEF Proc, Life!Signalled
  <2> QED
    BY <1>5, <2>2, <2>3, <2>4 DEF Life!Next, Life!Stop
<1>6. ASSUME NEW c \in Stoppers, StopSeesDone(c) PROVE Life!Next
  <2>1. /\ ctxDone' = ctxDone /\ wpc' = wpc /\ wpc = "done" /\ stopPc[c] = "wait"
        /\ stopPc' = [stopPc EXCEPT ![c] = "ok"]
    BY <1>6 DEF StopSeesDone
  <2>2. Calls[c] = "waiting" /\ Proc = "gone" /\ Proc' = "gone"
    BY <2>1 DEF Calls, Waiting, Proc
  <2>3. Calls' = [Calls EXCEPT ![c] = "returned"]
    BY <1>0, <2>1, CallerShows
  <2> QED
    BY <2>1, <2>2, <2>3 DEF Life!Next, Life!Return
<1>7. ASSUME NEW c \in Stoppers, NEW to \in {"killed", "error"}, stopPc[c] \in {"wait", "unsent"},
             stopPc' = [stopPc EXCEPT ![c] = to], UNCHANGED <<ctxDone, wpc>>
      PROVE  Life!Next
  <2>2. Calls[c] = "waiting"
    BY <1>7 DEF Calls, Waiting
  <2>3. Calls' = [Calls EXCEPT ![c] = "returned"] /\ GaveUp(c)'
    BY <1>0, <1>7, CallerShows
  <2>4. Proc' = IF Proc = "gone" THEN Proc ELSE "kill"
    BY <1>7, <2>3 DEF Proc
  <2> QED
    BY <1>7, <2>2, <2>3, <2>4 DEF Life!Next, Life!Return
<1>8. ASSUME NEW c \in Stoppers, StopReturns(c) PROVE Life!Next \/ UNCHANGED Life!lifeVars
  <2>1. CASE stopPc[c] = "killed"
    <3>1. /\ ctxDone' = ctxDone /\ wpc' = wpc
          /\ stopPc' = [stopPc EXCEPT ![c] = "timeout"]
      BY <1>8, <2>1 DEF StopReturns
    <3> QED
      BY <1>0, <2>1, <3>1, CallerShows, Stutters DEF Waiting, Returned, GaveUp
  <2>2. CASE stopPc[c] = "unsent"
    BY <1>7, <1>8, <2>2 DEF StopReturns
  <2> QED
    BY <1>8, <2>1, <2>2 DEF StopReturns
<1>9. CASE UNCHANGED vars
  BY <1>1, <1>9 DEF vars
<1>10. CASE StartPlugin \/ \E p \in Processes : ProcessEnds(p)
  BY <1>1, <1>10 DEF StartPlugin, ProcessEnds
<1>11. CASE (\E chunk \in Chunks : Stderr(chunk)) \/ WaitDelayKills
  BY <1>1, <1>11 DEF Stderr, WaitDelayKills
<1>12. CASE CmdWaitReturns \/ TerminateGroup \/ PollGroup
  BY <1>1, <1>12 DEF CmdWaitReturns, TerminateGroup, PollGroup
<1>13. ASSUME NEW c \in Stoppers, StopTerminates(c) \/ StopTermFails(c) PROVE Life!Next
  BY <1>5, <1>13 DEF StopTerminates, StopTermFails, groupVars
<1>14. ASSUME NEW c \in Stoppers, StopTimesOut(c) \/ StopKillFails(c) PROVE Life!Next
  BY <1>7, <1>14 DEF StopTimesOut, StopKillFails, groupVars
<1> QED
  BY <1>2, <1>3, <1>4, <1>6, <1>8, <1>9, <1>10, <1>11, <1>12, <1>13, <1>14
  DEF Next, WaitStep, StopStep, Over

\* Start returns a live session.
LEMMA InitImplements == Init => Life!Init
<1> SUFFICES ASSUME Init PROVE Life!Init
  OBVIOUS
<1>1. Proc = "live"
  BY DEF Init, Proc, GaveUp, Waiting
<1>2. Calls = [c \in Stoppers |-> "idle"]
  BY DEF Init, Calls, Waiting, Returned
<1> QED
  BY <1>1, <1>2 DEF Init, Life!Init

\* The safety part of ImplementsLife: processes, signals and timers do what SessionLife says a
\* session may do, for any number of callers.
THEOREM StepsAreLife == Spec => Life!Init /\ [][Life!Next]_(Life!lifeVars)
BY InitImplements, StepImplements, GroupEnds, PTL DEF Spec

\* Whoever waits in Stop has asked the session to end, and once a Stop has returned nothing of
\* the session is left that was not killed: what SessionLife promises its callers, and so
\* what Session gives them.
THEOREM StopsAreAnswered == Spec => []Life!StopEnds
<1>1. Life!Init => Life!StopEnds
  BY DEF Life!Init, Life!StopEnds
<1>2. Life!StopEnds /\ [Life!Next]_(Life!lifeVars) => Life!StopEnds'
  <2> SUFFICES ASSUME Life!StopEnds, [Life!Next]_(Life!lifeVars) PROVE Life!StopEnds'
    OBVIOUS
  <2>1. DOMAIN Calls = Stoppers /\ DOMAIN Calls' = Stoppers
    BY DEF Calls
  <2>2. CASE Life!Dies \/ Life!Killed \/ Life!Cancel \/ Life!Cancelled
    BY <2>2 DEF Life!Dies, Life!Killed, Life!Cancel, Life!Cancelled, Life!Signalled,
       Life!StopEnds
  <2>3. ASSUME NEW c \in Stoppers, Life!Stop(c) PROVE Life!StopEnds'
    BY <2>1, <2>3 DEF Life!Stop, Life!Signalled, Life!StopEnds
  <2>4. ASSUME NEW c \in Stoppers, Life!Return(c) PROVE Life!StopEnds'
    BY <2>1, <2>4 DEF Life!Return, Life!StopEnds
  <2>5. CASE UNCHANGED Life!lifeVars
    BY <2>5 DEF Life!lifeVars, Life!StopEnds
  <2> QED
    BY <2>2, <2>3, <2>4, <2>5 DEF Life!Next
<1> QED
  BY <1>1, <1>2, StepsAreLife, PTL

=============================================================================
