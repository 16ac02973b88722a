----------------------------- MODULE RingBuffer -----------------------------
(***************************************************************************)
(* The fixed-capacity ring behind every queue (internal/queue/             *)
(* ring_buffer.go), as operators on a record that has the fields of the Go *)
(* struct.  Push and Pop are exactly as permissive as the code: neither    *)
(* looks at size, so a Push into a full ring overwrites the slot at tail   *)
(* (which is then the oldest element) and still increments size.           *)
(***************************************************************************)
EXTENDS Integers

CONSTANT ZeroMessage     \* model.Message{}, the content of a vacant slot

\* NewRingBufferQueue(size).
NewRing(cap) ==
  [items |-> [i \in 0 .. cap - 1 |-> ZeroMessage],
   head |-> 0, tail |-> 0, size |-> 0, cap |-> cap]

\* Mutant of Advance: the index runs off the end of the slice.
AdvanceNoWrap(i, cap) == i + 1

Advance(i, cap) == (i + 1) % cap

Push(r, m) ==
  [items |-> [r.items EXCEPT ![r.tail] = m],
   head |-> r.head, tail |-> Advance(r.tail, r.cap),
   size |-> r.size + 1, cap |-> r.cap]

\* The ring after Pop; the value Pop returns is Peek(r).
Pop(r) ==
  [items |-> [r.items EXCEPT ![r.head] = ZeroMessage],
   head |-> Advance(r.head, r.cap), tail |-> r.tail,
   size |-> r.size - 1, cap |-> r.cap]

Peek(r) == r.items[r.head]

\* Size() == Capacity(), the test every caller uses for "full".
Full(r) == r.size = r.cap

-----------------------------------------------------------------------------
\* r is a ring over the messages V.  size is not bounded by cap: Push is not.
IsRing(r, V) ==
  /\ r = [items |-> r.items, head |-> r.head, tail |-> r.tail,
          size |-> r.size, cap |-> r.cap]
  /\ r.cap \in Nat \ {0}
  /\ r.items \in [0 .. r.cap - 1 -> V]
  /\ r.head \in 0 .. r.cap - 1
  /\ r.tail \in 0 .. r.cap - 1
  /\ r.size \in Nat

\* How far slot i lies behind the head, going round the ring.
Offset(r, i) == IF i >= r.head THEN i - r.head ELSE i - r.head + r.cap

\* The occupied slots are exactly the size slots that start at head.
Coherent(r) ==
  /\ r.size <= r.cap
  /\ r.tail = IF r.head + r.size >= r.cap THEN r.head + r.size - r.cap
                                          ELSE r.head + r.size
  /\ \A i \in 0 .. r.cap - 1 : r.items[i] # ZeroMessage <=> Offset(r, i) < r.size

\* The queue a ring stands for, oldest element first.
Contents(r) == [k \in 1 .. r.size |-> r.items[(r.head + k - 1) % r.cap]]
=============================================================================
