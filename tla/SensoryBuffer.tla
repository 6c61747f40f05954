--------------------------- MODULE SensoryBuffer ---------------------------
(***************************************************************************)
(* The sensory buffer of the Engine: a queue bounded in length and in age, *)
(* behind one mutex.  Time is the monotonic clock of std::time::Instant,   *)
(* and it goes on during a call: add() reads it to evict and again to      *)
(* stamp the message it stores.                                            *)
(***************************************************************************)
EXTENDS Integers, Sequences

CONSTANTS
  Capacity,   \* sensory_buffer_size; 0 is not refused
  Ttl,        \* sensory_ttl
  MaxTime,    \* bound: the last instant
  MaxAdds     \* bound: calls of add

ASSUME SensoryAssumption ==
  /\ Capacity \in Nat
  /\ Ttl \in Nat
  /\ MaxTime \in Nat
  /\ MaxAdds \in Nat

VARIABLES
  buffer,     \* the queue, oldest first
  now,        \* Instant::now()
  added       \* history: all that was added since the last clear

vars == <<buffer, now, added>>

TimedItem == [message : 1 .. MaxAdds, added_at : Nat]

-----------------------------------------------------------------------------
Expired(item) == now - item.added_at > Ttl

\* Mutant: `if' in place of `while'.
EvictFrontOnly(b) == IF b # <<>> /\ Expired(Head(b)) THEN Tail(b) ELSE b

\* pop_front() while the front has expired: what is left starts at the first
\* item that has not.
EvictExpired(b) ==
  LET live == {i \in DOMAIN b : ~Expired(b[i])}
      first == CHOOSE i \in live : \A j \in live : i <= j
  IN  IF live = {} THEN <<>> ELSE SubSeq(b, first, Len(b))

\* Mutant: off by one.
MakeRoomTooLate(b) == IF Len(b) > Capacity /\ b # <<>> THEN Tail(b) ELSE b

\* one pop_front(), which does nothing to an empty queue
MakeRoom(b) == IF Len(b) >= Capacity /\ b # <<>> THEN Tail(b) ELSE b

\* items(); recent(n) is its last n elements, len() its length
Items == EvictExpired(buffer)

Init ==
  /\ buffer = <<>>
  /\ now = 0
  /\ added = <<>>

Tick ==
  /\ now < MaxTime
  /\ now' = now + 1
  /\ UNCHANGED <<buffer, added>>

\* add(), which ends at the instant `then'
Add(m, then) ==
  LET item == [message |-> m, added_at |-> then]
  IN  /\ buffer' = Append(MakeRoom(EvictExpired(buffer)), item)
      /\ now' = then
      /\ added' = Append(added, item)

\* items(), recent(n), len(), is_empty()
Read ==
  /\ buffer' = Items
  /\ UNCHANGED <<now, added>>

Clear ==
  /\ buffer' = <<>>
  /\ added' = <<>>
  /\ UNCHANGED now

Next ==
  \/ Tick
  \/ /\ Len(added) < MaxAdds
     /\ \E then \in now .. MaxTime : Add(Len(added) + 1, then)
  \/ Read
  \/ Clear

Spec == Init /\ [][Next]_vars

-----------------------------------------------------------------------------
(* Properties.                                                             *)

\* A capacity of 0 still keeps the last message: the push is unconditional.
Size == IF Capacity = 0 THEN 1 ELSE Capacity

\* Every variable has its type, and the queue never outgrows its size.
TypeOK ==
  /\ buffer \in Seq(TimedItem)
  /\ Len(buffer) <= Size
  /\ now \in Nat
  /\ added \in Seq(TimedItem)

\* A read shows, in the order of the calls, exactly those of the last `Size'
\* messages added since the last clear that are not older than Ttl.  Eviction only
\* looks at the front and only happens when the buffer is used, and a message is
\* stamped after room was made for it: still no read shows an expired message or
\* misses a live one.
ItemsAreLive ==
  LET gap == Len(added) - Len(Items)
  IN  /\ \A i \in DOMAIN Items : Items[i] = added[gap + i]
      /\ \A k \in DOMAIN added :
           k > gap <=> /\ Len(added) - k < Size
                       /\ now - added[k].added_at <= Ttl
=============================================================================
