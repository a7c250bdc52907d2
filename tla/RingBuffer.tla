----------------------------- MODULE RingBuffer -----------------------------
(* The capture of a session's stderr (internal/session/ringbuffer.go): the     *)
(* last Size bytes written, in a buffer that wraps around.                     *)
EXTENDS Naturals, Sequences

CONSTANTS Size, Byte   \* capacity; the bytes that may be written

ASSUME SizeAssumption == Size \in Nat \ {0}

EmptyRing(blank) == [buf |-> [k \in 0..(Size - 1) |-> blank], pos |-> 0, full |-> FALSE]

\* Wrong on purpose: a write that ends exactly at the capacity does not fill the buffer.
RingWriteForgetsFull(r, p) ==
  LET n == Len(p)
      end == r.pos + n
  IN  [buf |-> [k \in 0..(Size - 1) |->
                  LET j == (k + Size - r.pos) % Size
                  IN  IF j < n THEN p[j + 1] ELSE r.buf[k]],
       pos |-> end % Size,
       full |-> r.full \/ end > Size]

\* Write: a chunk of the capacity or more replaces everything, a shorter one continues at
\* pos and wraps.
RingWrite(r, p) ==
  LET n == Len(p)
      end == r.pos + n
  IN  IF n >= Size
      THEN [buf |-> [k \in 0..(Size - 1) |-> p[n - Size + k + 1]], pos |-> 0, full |-> TRUE]
      ELSE [buf |-> [k \in 0..(Size - 1) |->
                       LET j == (k + Size - r.pos) % Size
                       IN  IF j < n THEN p[j + 1] ELSE r.buf[k]],
            pos |-> end % Size,
            full |-> r.full \/ end >= Size]

\* Bytes: the content in write order.
RingBytes(r) ==
  IF r.full THEN [k \in 1..Size |-> r.buf[(r.pos + k - 1) % Size]]
            ELSE [k \in 1..r.pos |-> r.buf[k - 1]]

\* What Bytes has to return: the last Size bytes of everything that was written.
Latest(written) ==
  SubSeq(written, IF Len(written) > Size THEN Len(written) - Size + 1 ELSE 1, Len(written))

=============================================================================
