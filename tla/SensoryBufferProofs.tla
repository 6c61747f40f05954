------------------------ MODULE SensoryBufferProofs ------------------------
(***************************************************************************)
(* Proofs about SensoryBuffer for every capacity, every time to live and   *)
(* every number of calls.                                                  *)
(***************************************************************************)
EXTENDS SensoryBuffer, SequenceTheorems, SequenceLemmas

(***************************************************************************)
(* The inductive invariant.  The queue is the end of the history, and what *)
(* has left it could not be shown by a read any more: the clock only goes  *)
(* on, so an item that was evicted stays expired.  That the history is     *)
(* ordered by time is what makes looking at the front enough.              *)
(***************************************************************************)
Ordered(s) == \A i, j \in DOMAIN s : i <= j => s[i].added_at <= s[j].added_at

SuffixOf(s, t) ==
  /\ Len(s) <= Len(t)
  /\ \A i \in 1 .. Len(s) : s[i] = t[Len(t) - Len(s) + i]

Past == \A k \in DOMAIN added : added[k].added_at <= now

OnlyDeadLeft ==
  \A k \in DOMAIN added :
    k <= Len(added) - Len(buffer) => Len(added) - k >= Size \/ Expired(added[k])

LiveInv ==
  /\ TypeOK
  /\ Ordered(added)
  /\ Past
  /\ SuffixOf(buffer, added)
  /\ OnlyDeadLeft

-----------------------------------------------------------------------------
\* What SubSeq(b, f, Len(b)) is.
LEMMA SubSeqToEnd ==
  ASSUME NEW b \in Seq(TimedItem), NEW f \in 1 .. Len(b)
  PROVE  LET e == SubSeq(b, f, Len(b))
         IN  /\ e \in Seq(TimedItem)
             /\ Len(e) = Len(b) - f + 1
             /\ \A i \in 1 .. Len(e) : e[i] = b[f + i - 1]
  BY SMT

\* EvictExpired, on a queue ordered by time, takes the expired items off the
\* front and leaves none behind.
LEMMA EvictExpiredSplits ==
  ASSUME NEW b \in Seq(TimedItem), Ordered(b), now \in Nat
  PROVE  /\ EvictExpired(b) \in Seq(TimedItem)
         /\ SuffixOf(EvictExpired(b), b)
         /\ \A i \in 1 .. Len(EvictExpired(b)) : ~Expired(EvictExpired(b)[i])
         /\ \A i \in 1 .. Len(b) - Len(EvictExpired(b)) : Expired(b[i])
<1> DEFINE live == {i \in DOMAIN b : ~Expired(b[i])}
           first == CHOOSE i \in live : \A j \in live : i <= j
<1>0. DOMAIN b = 1 .. Len(b) /\ Len(b) \in Nat
  OBVIOUS
<1>1. CASE live = {}
  <2>1. EvictExpired(b) = <<>>
    BY <1>1 DEF EvictExpired
  <2>2. \A i \in 1 .. Len(b) : Expired(b[i])
    BY <1>0, <1>1
  <2>3. QED
    BY <2>1, <2>2, <1>0 DEF SuffixOf
<1>2. CASE live # {}
  <2>1. live \subseteq Nat
    BY <1>0
  <2>2. first \in live /\ \A j \in live : first <= j
    BY <1>2, <2>1, LeastElement
  <2>3. EvictExpired(b) = SubSeq(b, first, Len(b))
    BY <1>2 DEF EvictExpired
  <2>4. first \in 1 .. Len(b)
    BY <2>2, <1>0
  <2> DEFINE e == SubSeq(b, first, Len(b))
  <2>5. /\ e \in Seq(TimedItem)
        /\ Len(e) = Len(b) - first + 1
        /\ \A i \in 1 .. Len(e) : e[i] = b[first + i - 1]
    BY <2>4, SubSeqToEnd
  <2>6. SuffixOf(e, b)
    <3>1. Len(b) - Len(e) = first - 1
      BY <2>5, <2>4, <1>0
    <3>2. ASSUME NEW i \in 1 .. Len(e) PROVE e[i] = b[Len(b) - Len(e) + i]
      <4>1. first + i - 1 = Len(b) - Len(e) + i
        BY <3>1, <2>4, <2>5, <1>0
      <4>2. QED
        BY <4>1, <2>5
    <3>3. Len(e) <= Len(b)
      BY <2>5, <2>4, <1>0
    <3>4. QED
      BY <3>2, <3>3 DEF SuffixOf
  <2>7. ASSUME NEW i \in 1 .. Len(e) PROVE ~Expired(e[i])
    <3> DEFINE k == first + i - 1
    <3>1. k \in DOMAIN b /\ first <= k /\ e[i] = b[k]
      BY <2>4, <2>5, <1>0
    <3>2. b[first].added_at <= b[k].added_at
      BY <3>1, <2>4, <1>0 DEF Ordered
    <3>3. ~Expired(b[first])
      BY <2>2
    <3>4. b[first].added_at \in Nat /\ b[k].added_at \in Nat
      <4>1. b[first] \in TimedItem /\ b[k] \in TimedItem
        BY <3>1, <2>4, <1>0
      <4>2. QED
        BY <4>1 DEF TimedItem
    <3>5. ~(now - b[k].added_at > Ttl)
      BY <3>2, <3>3, <3>4, SensoryAssumption DEF Expired
    <3>6. QED
      BY <3>5, <3>1 DEF Expired
  <2>8. ASSUME NEW i \in 1 .. Len(b) - Len(e) PROVE Expired(b[i])
    <3>1. i \in DOMAIN b /\ i < first
      BY <2>4, <2>5, <1>0
    <3>2. QED
      BY <3>1, <2>2, <2>1
  <2>9. QED
    BY <2>3, <2>5, <2>6, <2>7, <2>8
<1>3. QED
  BY <1>1, <1>2

\* The end of an ordered queue is ordered.
LEMMA SuffixOrdered ==
  ASSUME NEW s \in Seq(TimedItem), NEW t \in Seq(TimedItem), SuffixOf(s, t), Ordered(t)
  PROVE  Ordered(s)
<1>1. SUFFICES ASSUME NEW i \in DOMAIN s, NEW j \in DOMAIN s, i <= j
               PROVE  s[i].added_at <= s[j].added_at
  BY DEF Ordered
<1> DEFINE gap == Len(t) - Len(s)
<1>2. gap \in Nat /\ gap + i \in DOMAIN t /\ gap + j \in DOMAIN t /\ gap + i <= gap + j
  BY <1>1 DEF SuffixOf
<1>3. s[i] = t[gap + i] /\ s[j] = t[gap + j]
  BY <1>1 DEF SuffixOf
<1>4. QED
  BY <1>2, <1>3 DEF Ordered

\* The end of the end is the end.
LEMMA SuffixTransitive ==
  ASSUME NEW r \in Seq(TimedItem), NEW s \in Seq(TimedItem), NEW t \in Seq(TimedItem),
         SuffixOf(r, s), SuffixOf(s, t)
  PROVE  SuffixOf(r, t)
<1>1. Len(r) <= Len(t)
  BY DEF SuffixOf
<1>2. ASSUME NEW i \in 1 .. Len(r) PROVE r[i] = t[Len(t) - Len(r) + i]
  <2> DEFINE k == Len(s) - Len(r) + i
  <2>1. k \in 1 .. Len(s)
    BY DEF SuffixOf
  <2>2. r[i] = s[k]
    BY DEF SuffixOf
  <2>3. s[k] = t[Len(t) - Len(s) + k]
    BY <2>1 DEF SuffixOf
  <2>4. Len(t) - Len(s) + k = Len(t) - Len(r) + i
    OBVIOUS
  <2>5. QED
    BY <2>2, <2>3, <2>4
<1>3. QED
  BY <1>1, <1>2 DEF SuffixOf

\* Pushing the same item keeps an end an end.
LEMMA SuffixAppend ==
  ASSUME NEW s \in Seq(TimedItem), NEW t \in Seq(TimedItem), NEW x \in TimedItem,
         SuffixOf(s, t)
  PROVE  SuffixOf(Append(s, x), Append(t, x))
<1> DEFINE a == Append(s, x)
           b == Append(t, x)
<1>1. /\ Len(a) = Len(s) + 1 /\ a[Len(s) + 1] = x /\ \A i \in 1 .. Len(s) : a[i] = s[i]
      /\ Len(b) = Len(t) + 1 /\ b[Len(t) + 1] = x /\ \A i \in 1 .. Len(t) : b[i] = t[i]
  BY AppendProperties
<1>2. /\ Len(s) \in Nat /\ Len(t) \in Nat /\ Len(s) <= Len(t)
      /\ \A i \in 1 .. Len(s) : s[i] = t[Len(t) - Len(s) + i]
  BY DEF SuffixOf
<1> HIDE DEF a, b
<1>3. Len(a) <= Len(b) /\ Len(b) - Len(a) = Len(t) - Len(s)
  BY <1>1, <1>2
<1>4. ASSUME NEW i \in 1 .. Len(a) PROVE a[i] = b[Len(b) - Len(a) + i]
  <2>1. CASE i = Len(s) + 1
    <3>1. Len(b) - Len(a) + i = Len(t) + 1
      BY <2>1, <1>2, <1>3
    <3>2. QED
      BY <3>1, <2>1, <1>1
  <2>2. CASE i \in 1 .. Len(s)
    <3>1. Len(b) - Len(a) + i \in 1 .. Len(t)
      BY <2>2, <1>2, <1>3
    <3>2. b[Len(b) - Len(a) + i] = t[Len(t) - Len(s) + i]
      BY <3>1, <1>1, <1>3
    <3>3. QED
      BY <3>2, <2>2, <1>1, <1>2
  <2>3. QED
    BY <2>1, <2>2, <1>1, <1>2
<1>5. SuffixOf(a, b)
  BY <1>3, <1>4 DEF SuffixOf
<1>6. QED
  BY <1>5 DEF a, b

\* MakeRoom drops the front of a full queue, and nothing of another.
LEMMA MakeRoomSplits ==
  ASSUME NEW b \in Seq(TimedItem), Len(b) <= Size
  PROVE  /\ MakeRoom(b) \in Seq(TimedItem)
         /\ SuffixOf(MakeRoom(b), b)
         /\ Len(MakeRoom(b)) < Size
         /\ MakeRoom(b) # b => Len(b) = Size /\ Len(MakeRoom(b)) = Len(b) - 1
<1>1. CASE Len(b) >= Capacity /\ b # <<>>
  <2>1. /\ Tail(b) \in Seq(TimedItem)
        /\ Len(Tail(b)) = Len(b) - 1
        /\ \A i \in 1 .. Len(Tail(b)) : Tail(b)[i] = b[i + 1]
    BY <1>1, HeadTailProperties
  <2>2. Len(b) = Size /\ Len(b) \in Nat
    <3>1. Len(b) \in Nat \ {0}
      BY <1>1, <2>1
    <3>2. QED
      BY <3>1, <1>1, SensoryAssumption DEF Size
  <2>3. SuffixOf(Tail(b), b)
    BY <2>1, <2>2 DEF SuffixOf
  <2>4. QED
    BY <1>1, <2>1, <2>2, <2>3 DEF MakeRoom
<1>2. CASE ~(Len(b) >= Capacity /\ b # <<>>)
  <2>1. MakeRoom(b) = b
    BY <1>2 DEF MakeRoom
  <2>2. Len(b) < Size
    BY <1>2, SensoryAssumption DEF Size
  <2>3. SuffixOf(b, b)
    BY DEF SuffixOf
  <2>4. QED
    BY <2>1, <2>2, <2>3
<1>3. QED
  BY <1>1, <1>2

\* What a read shows, in a state of the invariant: the end of the history, with
\* nothing expired in it, and nothing left out that should be in it.
LEMMA ItemsSplit ==
  ASSUME LiveInv
  PROVE  /\ Items \in Seq(TimedItem)
         /\ Len(Items) <= Size
         /\ SuffixOf(Items, added)
         /\ \A i \in 1 .. Len(Items) : ~Expired(Items[i])
         /\ \A k \in DOMAIN added :
              k <= Len(added) - Len(Items) => Len(added) - k >= Size \/ Expired(added[k])
<1>1. /\ buffer \in Seq(TimedItem) /\ added \in Seq(TimedItem) /\ now \in Nat
      /\ Len(buffer) <= Size /\ SuffixOf(buffer, added)
  BY DEF LiveInv, TypeOK
<1>2. Ordered(buffer)
  BY <1>1, SuffixOrdered DEF LiveInv
<1>3. /\ Items \in Seq(TimedItem)
      /\ SuffixOf(Items, buffer)
      /\ \A i \in 1 .. Len(Items) : ~Expired(Items[i])
      /\ \A i \in 1 .. Len(buffer) - Len(Items) : Expired(buffer[i])
  BY <1>1, <1>2, EvictExpiredSplits DEF Items
<1>4. SuffixOf(Items, added)
  BY <1>1, <1>3, SuffixTransitive
<1>5. Len(Items) <= Len(buffer) /\ Len(buffer) <= Len(added)
  BY <1>1, <1>3 DEF SuffixOf
<1>6. Len(Items) <= Size
  BY <1>1, <1>3, <1>5, SensoryAssumption DEF Size
<1>7. ASSUME NEW k \in DOMAIN added, k <= Len(added) - Len(Items)
      PROVE  Len(added) - k >= Size \/ Expired(added[k])
  <2>1. CASE k <= Len(added) - Len(buffer)
    BY <2>1 DEF LiveInv, OnlyDeadLeft
  <2>2. CASE k > Len(added) - Len(buffer)
    <3> DEFINE i == k - (Len(added) - Len(buffer))
    <3>1. /\ i \in 1 .. Len(buffer) - Len(Items) /\ i \in 1 .. Len(buffer)
          /\ Len(added) - Len(buffer) + i = k
      BY <1>1, <1>3, <1>5, <1>7, <2>2
    <3>2. Expired(buffer[i]) /\ buffer[i] = added[k]
      BY <1>1, <1>3, <3>1 DEF SuffixOf
    <3>3. QED
      BY <3>2
  <2>3. QED
    BY <1>1, <2>1, <2>2
<1>8. QED
  BY <1>3, <1>4, <1>6, <1>7

-----------------------------------------------------------------------------
\* The invariant holds initially.
LEMMA InitLive == Init => LiveInv
<1>1. SUFFICES ASSUME Init PROVE LiveInv
  OBVIOUS
<1>2. TypeOK
  BY <1>1, SensoryAssumption DEF Init, TypeOK, Size
<1>3. QED
  BY <1>1, <1>2 DEF Init, LiveInv, Ordered, Past, SuffixOf, OnlyDeadLeft

\* Time passes.
LEMMA TickKeepsLive == LiveInv /\ Tick => LiveInv'
<1>1. SUFFICES ASSUME LiveInv, Tick PROVE LiveInv'
  OBVIOUS
<1>2. now \in Nat /\ now' = now + 1 /\ UNCHANGED <<buffer, added>> /\ added \in Seq(TimedItem)
  BY <1>1 DEF LiveInv, TypeOK, Tick
<1>3. \A k \in DOMAIN added : added[k].added_at \in Nat
  <2>1. \A k \in DOMAIN added : added[k] \in TimedItem
    BY <1>2
  <2>2. QED
    BY <2>1 DEF TimedItem
<1>4. TypeOK' /\ Ordered(added)' /\ SuffixOf(buffer, added)'
  BY <1>1, <1>2 DEF LiveInv, TypeOK, Ordered, SuffixOf
<1>5. Past'
  BY <1>1, <1>2, <1>3 DEF LiveInv, Past
<1>6. OnlyDeadLeft'
  <2>1. \A k \in DOMAIN added : Expired(added[k]) => Expired(added[k])'
    BY <1>2, <1>3, SensoryAssumption DEF Expired
  <2>2. QED
    BY <1>1, <1>2, <2>1 DEF LiveInv, OnlyDeadLeft
<1>7. QED
  BY <1>4, <1>5, <1>6 DEF LiveInv

\* A read evicts what has expired at the front.
LEMMA ReadKeepsLive == LiveInv /\ Read => LiveInv'
<1>1. SUFFICES ASSUME LiveInv, Read PROVE LiveInv'
  OBVIOUS
<1>2. buffer' = Items /\ UNCHANGED <<now, added>>
  BY <1>1 DEF Read
<1>3. TypeOK' /\ SuffixOf(buffer, added)' /\ OnlyDeadLeft'
  BY <1>1, <1>2, ItemsSplit DEF LiveInv, TypeOK, OnlyDeadLeft, SuffixOf, Expired
<1>4. QED
  BY <1>1, <1>2, <1>3 DEF LiveInv, Ordered, Past

\* A cleared buffer is empty.
LEMMA ClearKeepsLive == LiveInv /\ Clear => LiveInv'
<1>1. SUFFICES ASSUME LiveInv, Clear PROVE LiveInv'
  OBVIOUS
<1>2. TypeOK'
  BY <1>1, SensoryAssumption DEF LiveInv, TypeOK, Clear, Size
<1>3. QED
  BY <1>1, <1>2 DEF Clear, LiveInv, Ordered, Past, SuffixOf, OnlyDeadLeft

\* A message is added, with a later instant than that of its eviction.
LEMMA AddKeepsLive ==
  ASSUME LiveInv, NEW m \in 1 .. MaxAdds, NEW then \in Nat, now <= then, Add(m, then)
  PROVE  LiveInv'
<1> DEFINE item == [message |-> m, added_at |-> then]
           kept == MakeRoom(Items)
<1>1. /\ buffer' = Append(kept, item) /\ added' = Append(added, item) /\ now' = then
      /\ item \in TimedItem
  BY DEF Add, Items, TimedItem
<1>2. /\ buffer \in Seq(TimedItem) /\ added \in Seq(TimedItem) /\ now \in Nat
      /\ Len(added) \in Nat /\ DOMAIN added = 1 .. Len(added)
  BY DEF LiveInv, TypeOK
<1>3. /\ Items \in Seq(TimedItem) /\ Len(Items) <= Size /\ SuffixOf(Items, added)
      /\ \A k \in DOMAIN added :
           k <= Len(added) - Len(Items) => Len(added) - k >= Size \/ Expired(added[k])
  BY ItemsSplit
<1>4. /\ kept \in Seq(TimedItem) /\ SuffixOf(kept, Items) /\ Len(kept) < Size
      /\ kept # Items => Len(Items) = Size /\ Len(kept) = Len(Items) - 1
  BY <1>3, MakeRoomSplits
<1>5. SuffixOf(kept, added)
  BY <1>2, <1>3, <1>4, SuffixTransitive
<1> HIDE DEF item, kept
<1>6. SuffixOf(buffer, added)'
  <2>1. SuffixOf(Append(kept, item), Append(added, item))
    BY <1>1, <1>2, <1>4, <1>5, SuffixAppend
  <2>2. QED
    BY <2>1, <1>1 DEF SuffixOf
<1>7. /\ Len(buffer') = Len(kept) + 1 /\ Len(added') = Len(added) + 1
      /\ buffer' \in Seq(TimedItem) /\ added' \in Seq(TimedItem)
      /\ added'[Len(added) + 1] = item
      /\ \A k \in 1 .. Len(added) : added'[k] = added[k]
  BY <1>1, <1>2, <1>4, AppendProperties
<1>8. TypeOK'
  <2>1. Len(kept) + 1 <= Size /\ Size' = Size
    BY <1>4, SensoryAssumption DEF Size
  <2>2. QED
    BY <2>1, <1>1, <1>7 DEF TypeOK
<1>9. /\ \A k \in 1 .. Len(added) : added[k].added_at \in Nat /\ added[k].added_at <= now
      /\ item.added_at = then
  <2>1. \A k \in 1 .. Len(added) : added[k] \in TimedItem
    BY <1>2
  <2>2. QED
    BY <1>2, <2>1 DEF LiveInv, Past, TimedItem, item
<1>10. DOMAIN added' = 1 .. Len(added) + 1
  BY <1>7
<1>11. Past'
  BY <1>1, <1>2, <1>7, <1>9, <1>10 DEF Past
<1>12. Ordered(added)'
  BY <1>1, <1>2, <1>7, <1>9, <1>10 DEF LiveInv, Ordered
<1>13. OnlyDeadLeft'
  <2>1. SUFFICES ASSUME NEW k \in DOMAIN added', k <= Len(added') - Len(buffer')
                 PROVE  Len(added') - k >= Size \/ Expired(added[k])'
    BY DEF OnlyDeadLeft, Size
  <2>2. /\ k \in 1 .. Len(added) /\ added'[k] = added[k] /\ k <= Len(added) - Len(kept)
        /\ Len(kept) \in Nat /\ Len(Items) \in Nat
    BY <1>2, <1>3, <1>4, <1>7, <1>10, <2>1
  <2>3. CASE k <= Len(added) - Len(Items)
    <3>1. Len(added) - k >= Size \/ Expired(added[k])
      BY <2>2, <2>3, <1>2, <1>3
    <3>2. Expired(added[k]) => Expired(added[k])'
      BY <1>1, <1>2, <1>9, <2>2, SensoryAssumption DEF Expired
    <3>3. Size \in Nat
      BY SensoryAssumption DEF Size
    <3>4. QED
      BY <3>1, <3>2, <3>3, <1>2, <1>7, <2>2
  <2>4. CASE k > Len(added) - Len(Items)
    <3>1. Len(Items) = Size /\ Len(kept) = Len(Items) - 1
      BY <1>4, <2>2, <2>4
    <3>2. QED
      BY <3>1, <1>2, <1>7, <2>2
  <2>5. QED
    BY <1>2, <2>2, <2>3, <2>4
<1>14. QED
  BY <1>6, <1>8, <1>11, <1>12, <1>13 DEF LiveInv

\* The invariant holds after every step.
LEMMA StepKeepsLive == LiveInv /\ [Next]_vars => LiveInv'
<1>1. SUFFICES ASSUME LiveInv, [Next]_vars PROVE LiveInv'
  OBVIOUS
<1>2. CASE Tick
  BY <1>1, <1>2, TickKeepsLive
<1>3. ASSUME NEW then \in now .. MaxTime, Len(added) < MaxAdds, Add(Len(added) + 1, then)
      PROVE  LiveInv'
  <2>1. Len(added) + 1 \in 1 .. MaxAdds /\ then \in Nat /\ now <= then
    BY <1>1, <1>3, SensoryAssumption DEF LiveInv, TypeOK
  <2>2. QED
    BY <1>1, <1>3, <2>1, AddKeepsLive
<1>4. CASE Read
  BY <1>1, <1>4, ReadKeepsLive
<1>5. CASE Clear
  BY <1>1, <1>5, ClearKeepsLive
<1>6. CASE UNCHANGED vars
  BY <1>1, <1>6 DEF vars, LiveInv, TypeOK, Ordered, Past, SuffixOf, OnlyDeadLeft, Expired, Size
<1>7. QED
  BY <1>1, <1>2, <1>3, <1>4, <1>5, <1>6 DEF Next

\* Whatever the capacity and the time to live, the queue has its type and never
\* holds more than the capacity (or one message, when that is 0): add() makes room
\* before it pushes, on every path.
THEOREM QueueStaysBounded == Spec => []TypeOK
<1>1. LiveInv => TypeOK
  BY DEF LiveInv
<1>2. QED
  BY <1>1, InitLive, StepKeepsLive, PTL DEF Spec

\* In every state of the invariant a read shows the live messages and no other.
LEMMA LiveInvShowsLive == LiveInv => ItemsAreLive
<1>1. SUFFICES ASSUME LiveInv PROVE ItemsAreLive
  OBVIOUS
<1> DEFINE gap == Len(added) - Len(Items)
<1>2. /\ added \in Seq(TimedItem) /\ now \in Nat
      /\ Len(added) \in Nat /\ DOMAIN added = 1 .. Len(added)
  BY <1>1 DEF LiveInv, TypeOK
<1>3. /\ Items \in Seq(TimedItem) /\ Len(Items) <= Size /\ Len(Items) <= Len(added)
      /\ \A i \in 1 .. Len(Items) : Items[i] = added[gap + i] /\ ~Expired(Items[i])
      /\ \A k \in DOMAIN added : k <= gap => Len(added) - k >= Size \/ Expired(added[k])
  BY <1>1, ItemsSplit DEF SuffixOf
<1>4. Size \in Nat /\ Ttl \in Nat
  BY SensoryAssumption DEF Size
<1>5. ASSUME NEW k \in DOMAIN added
      PROVE  k > gap <=> /\ Len(added) - k < Size
                         /\ now - added[k].added_at <= Ttl
  <2>1. added[k].added_at \in Nat
    <3>1. added[k] \in TimedItem
      BY <1>2
    <3>2. QED
      BY <3>1 DEF TimedItem
  <2>2. Expired(added[k]) <=> ~(now - added[k].added_at <= Ttl)
    BY <2>1, <1>2, <1>4 DEF Expired
  <2>3. CASE k > gap
    <3> DEFINE i == k - gap
    <3>1. i \in 1 .. Len(Items) /\ gap + i = k
      BY <1>2, <1>3, <2>3
    <3>2. ~Expired(added[k])
      BY <3>1, <1>3
    <3>3. Len(added) - k < Size
      BY <1>2, <1>3, <1>4, <2>3
    <3>4. QED
      BY <2>2, <2>3, <3>2, <3>3
  <2>4. CASE k <= gap
    <3>1. Len(added) - k >= Size \/ Expired(added[k])
      BY <2>4, <1>3
    <3>2. QED
      BY <1>2, <1>3, <1>4, <2>2, <2>4, <3>1
  <2>5. QED
    BY <1>2, <1>3, <2>3, <2>4
<1>6. DOMAIN Items = 1 .. Len(Items)
  BY <1>3
<1>7. QED
  BY <1>3, <1>5, <1>6 DEF ItemsAreLive

\* Whatever the capacity and the time to live, a read of the buffer shows exactly
\* the last messages that are not older than Ttl, although items(), recent() and
\* add() evict from the front only and only when they are called.
THEOREM ReadsShowTheLive == Spec => []ItemsAreLive
  BY InitLive, StepKeepsLive, LiveInvShowsLive, PTL DEF Spec
=============================================================================
