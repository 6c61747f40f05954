---------------------- MODULE ConversationBufferProofs ----------------------
(***************************************************************************)
(* Proofs about ConversationBuffer for every window size and every number  *)
(* of calls, failed writes and restarts.                                   *)
(***************************************************************************)
EXTENDS ConversationBuffer, FiniteSetTheorems, SequenceTheorems, TLAPS

(***************************************************************************)
(* The inductive invariant.  What makes LogFaithful stable is where the    *)
(* next row goes: beyond every row the session has.  A loaded buffer knows *)
(* the largest seq; one that is not loaded yet will take the row count for *)
(* it, which is the same number only as long as the rows are contiguous.   *)
(***************************************************************************)
RowsOK ==
  /\ DOMAIN rows \subseteq Nat \ {0}
  /\ IsFiniteSet(DOMAIN rows)
  /\ rows = [k \in DOMAIN rows |-> rows[k]]
  /\ seq \in Nat
  /\ loaded \in BOOLEAN
  /\ intact \in BOOLEAN
  /\ calls \in Nat
  /\ written \in Seq(Nat)

NextSeqIsFree ==
  intact => IF loaded THEN \A k \in DOMAIN rows : k <= seq ELSE Contiguous

RowsAreOld == \A k \in DOMAIN rows : rows[k] \in 1 .. calls

LogInv == RowsOK /\ NextSeqIsFree /\ RowsAreOld /\ LogFaithful

-----------------------------------------------------------------------------
\* A new row is added to the old ones; the old ones keep their messages.
LEMMA PutMessageAdds ==
  ASSUME NEW m, NEW s, s \notin DOMAIN rows, PutMessage(m, s)
  PROVE  /\ DOMAIN rows' = DOMAIN rows \cup {s}
         /\ rows'[s] = m
         /\ \A k \in DOMAIN rows : rows'[k] = rows[k]
         /\ Elements(rows') = Elements(rows) \cup {m}
  BY DEF PutMessage, Elements

\* Appending to a sequence adds one element to its range.
LEMMA ElementsAppend ==
  ASSUME NEW s \in Seq(Nat), NEW m \in Nat
  PROVE  Elements(Append(s, m)) = Elements(s) \cup {m}
<1>1. /\ DOMAIN Append(s, m) = DOMAIN s \cup {Len(s) + 1}
      /\ \A i \in DOMAIN s : Append(s, m)[i] = s[i]
      /\ Append(s, m)[Len(s) + 1] = m
  OBVIOUS
<1>2. QED
  BY <1>1 DEF Elements

\* There are finitely many rows.
LEMMA CountIsNat ==
  ASSUME RowsOK
  PROVE  MessageCount \in Nat
  BY FS_CardinalityType DEF RowsOK, MessageCount

\* The sequence number the next append uses lies beyond every row.
LEMMA NextSeqBeyondRows ==
  ASSUME LogInv, intact
  PROVE  /\ LoadedSeq \in Nat
         /\ \A k \in DOMAIN rows : k <= LoadedSeq
<1>1. MessageCount \in Nat
  BY CountIsNat DEF LogInv
<1>2. CASE loaded
  BY <1>2 DEF LogInv, RowsOK, NextSeqIsFree, LoadedSeq
<1>3. CASE ~loaded
  <2>1. DOMAIN rows = 1 .. MessageCount
    BY <1>3 DEF LogInv, NextSeqIsFree, Contiguous
  <2>2. QED
    BY <1>1, <1>3, <2>1 DEF LoadedSeq
<1>4. QED
  BY <1>2, <1>3

\* A step that leaves the rows alone, and does not restore a lost promise, keeps
\* what is said of the rows.
LEMMA SameRowsStayFaithful ==
  ASSUME LogInv, UNCHANGED <<rows, calls, written>>, intact' => intact
  PROVE  RowsAreOld' /\ LogFaithful'
<1>1. RowsAreOld'
  BY DEF LogInv, RowsAreOld
<1>2. Elements(rows') = Elements(rows) /\ Elements(written') = Elements(written)
  BY DEF Elements
<1>3. LogFaithful'
  BY <1>2 DEF LogInv, LogFaithful
<1>4. QED
  BY <1>1, <1>3

\* A step that changes none of the variables the invariant reads keeps it.
LEMMA SameStateKeepsInv ==
  ASSUME LogInv, UNCHANGED <<rows, seq, loaded, calls, written, intact>>
  PROVE  LogInv'
<1>1. RowsOK'
  BY DEF LogInv, RowsOK
<1>2. NextSeqIsFree'
  BY DEF LogInv, NextSeqIsFree, Contiguous, MessageCount
<1>3. QED
  BY <1>1, <1>2, SameRowsStayFaithful DEF LogInv

-----------------------------------------------------------------------------
\* The invariant holds initially.
LEMMA LogInvInit == Init => LogInv
<1> SUFFICES ASSUME Init PROVE LogInv
  OBVIOUS
<1>1. DOMAIN rows = {} /\ rows = <<>>
  BY DEF Init
<1>2. RowsOK
  <2>1. IsFiniteSet(DOMAIN rows)
    BY <1>1, FS_EmptySet
  <2>2. rows = [k \in DOMAIN rows |-> rows[k]]
    BY <1>1
  <2>3. DOMAIN rows \subseteq Nat \ {0}
    BY <1>1
  <2>4. written \in Seq(Nat)
    BY DEF Init
  <2>5. QED
    BY <2>1, <2>2, <2>3, <2>4 DEF Init, RowsOK
<1>3. MessageCount = 0
  BY <1>1, FS_EmptySet DEF MessageCount
<1>4. NextSeqIsFree
  BY <1>1, <1>3 DEF Init, NextSeqIsFree, Contiguous
<1>5. RowsAreOld /\ LogFaithful
  BY <1>1 DEF Init, RowsAreOld, LogFaithful, Elements
<1>6. QED
  BY <1>2, <1>4, <1>5 DEF LogInv

\* The invariant holds after every step, failed writes and restarts included.
LEMMA LogInvNext == LogInv /\ [Next]_vars => LogInv'
<1> SUFFICES ASSUME LogInv, [Next]_vars PROVE LogInv'
  OBVIOUS
<1> USE DEF LogInv
<1>0. MessageCount \in Nat /\ LoadedSeq \in Nat
  BY CountIsNat DEF LoadedSeq, RowsOK
<1>1. CASE Load
  <2>1. UNCHANGED <<rows, calls, written, intact>>
    BY <1>1 DEF Load, historyVars
  <2>2. RowsOK'
    BY <1>0, <1>1, <2>1 DEF Load, RowsOK
  <2>3. NextSeqIsFree'
    BY <1>1, <2>1, NextSeqBeyondRows DEF Load, NextSeqIsFree
  <2>4. RowsAreOld' /\ LogFaithful'
    BY <2>1, SameRowsStayFaithful
  <2>5. QED
    BY <2>2, <2>3, <2>4
<1>2. CASE LoadFails
  <2>1. UNCHANGED <<rows, seq, loaded, calls, written, intact>>
    BY <1>2 DEF LoadFails, historyVars
  <2>2. QED
    BY <2>1, SameStateKeepsInv
<1>3. CASE AppendOk
  <2> DEFINE m == calls + 1
             s == LoadedSeq + 1
  <2>1. /\ PutMessage(m, s)
        /\ seq' = s
        /\ loaded' = TRUE
        /\ calls' = m
        /\ written' = Append(written, m)
        /\ intact' = intact
    BY <1>3 DEF AppendOk
  <2>2. m \in Nat /\ s \in Nat \ {0} /\ calls \in Nat
    BY <1>0 DEF RowsOK
  <2> HIDE DEF m, s
  <2>3. /\ DOMAIN rows' = DOMAIN rows \cup {s}
        /\ rows' = [k \in DOMAIN rows' |-> rows'[k]]
        /\ rows'[s] = m
        /\ \A k \in DOMAIN rows : rows'[k] = m \/ rows'[k] = rows[k]
    BY <2>1 DEF PutMessage
  <2>4. RowsOK'
    BY <2>1, <2>2, <2>3, FS_AddElement DEF RowsOK
  <2>5. RowsAreOld'
    BY <2>1, <2>2, <2>3 DEF RowsAreOld, m
  <2>6. intact => s \notin DOMAIN rows /\ \A k \in DOMAIN rows : k < s
    BY NextSeqBeyondRows, <1>0 DEF s, RowsOK
  <2>7. NextSeqIsFree'
    BY <2>1, <2>2, <2>3, <2>6 DEF NextSeqIsFree, RowsOK
  <2>8. ASSUME intact PROVE Elements(rows') = Elements(written')
    <3>1. Elements(rows') = Elements(rows) \cup {m}
      BY <2>1, <2>6, <2>8, PutMessageAdds
    <3>2. Elements(written') = Elements(written) \cup {m}
      BY <2>1, <2>2, ElementsAppend DEF RowsOK
    <3>3. QED
      BY <2>8, <3>1, <3>2 DEF LogFaithful
  <2>9. ASSUME intact, NEW j \in DOMAIN rows', NEW k \in DOMAIN rows', j < k
        PROVE  rows'[j] < rows'[k]
    <3>1. \A i \in DOMAIN rows : rows'[i] = rows[i]
      BY <2>1, <2>6, <2>9, PutMessageAdds
    <3>2. j \in DOMAIN rows /\ j \in Nat
      BY <2>2, <2>3, <2>6, <2>9 DEF RowsOK
    <3>3. CASE k = s
      BY <2>2, <2>3, <3>1, <3>2, <3>3 DEF RowsAreOld, m
    <3>4. CASE k \in DOMAIN rows
      BY <2>9, <3>1, <3>2, <3>4 DEF LogFaithful
    <3>5. QED
      BY <2>3, <3>3, <3>4
  <2>10. LogFaithful'
    BY <2>1, <2>8, <2>9 DEF LogFaithful
  <2>11. QED
    BY <2>4, <2>5, <2>7, <2>10
<1>4. CASE AppendPutFails
  <2>1. /\ UNCHANGED <<rows, written, intact>>
        /\ seq' = LoadedSeq + 1
        /\ loaded' = TRUE
        /\ calls' = calls + 1
    BY <1>4 DEF AppendPutFails
  <2>2. RowsOK'
    BY <1>0, <2>1 DEF RowsOK
  <2>3. NextSeqIsFree'
    <3>1. intact => \A k \in DOMAIN rows : k <= LoadedSeq + 1
      BY NextSeqBeyondRows, <1>0 DEF RowsOK
    <3>2. QED
      BY <2>1, <3>1 DEF NextSeqIsFree
  <2>4. RowsAreOld' /\ LogFaithful'
    <3>1. RowsAreOld'
      BY <2>1 DEF RowsOK, RowsAreOld
    <3>2. Elements(rows') = Elements(rows) /\ Elements(written') = Elements(written)
      BY <2>1 DEF Elements
    <3>3. QED
      BY <2>1, <3>1, <3>2 DEF LogFaithful
  <2>5. QED
    BY <2>2, <2>3, <2>4
<1>5. CASE Clear
  BY <1>5, SameStateKeepsInv DEF Clear
<1>6. CASE Restart
  <2>1. /\ UNCHANGED <<rows, calls, written>>
        /\ seq' = 0
        /\ loaded' = FALSE
        /\ intact' = (intact /\ Contiguous)
    BY <1>6 DEF Restart
  <2>2. RowsOK'
    BY <2>1 DEF RowsOK
  <2>3. NextSeqIsFree'
    BY <2>1 DEF NextSeqIsFree, Contiguous, MessageCount
  <2>4. RowsAreOld' /\ LogFaithful'
    BY <2>1, SameRowsStayFaithful
  <2>5. QED
    BY <2>2, <2>3, <2>4
<1>7. CASE UNCHANGED vars
  BY <1>7, SameStateKeepsInv DEF vars, bufferVars, historyVars
<1>8. QED
  BY <1>1, <1>2, <1>3, <1>4, <1>5, <1>6, <1>7 DEF Next

\* As long as no restart finds a gap, the rows are exactly the messages written,
\* in the order of the calls, for every window size and any number of failures
\* (ConversationBuffer::append, load, MemoryStore::put_message, message_count).
THEOREM LogStaysFaithful == Spec => []LogFaithful
<1>1. LogInv => LogFaithful
  BY DEF LogInv
<1>2. QED
  BY LogInvInit, LogInvNext, <1>1, PTL DEF Spec

-----------------------------------------------------------------------------
(***************************************************************************)
(* Reading by seq.  Every number of a finite set has a place, which tells  *)
(* it from the others, and every place has a number.                       *)
(***************************************************************************)

\* The place of a number among finitely many.
LEMMA UpToIsFinite ==
  ASSUME NEW S, IsFiniteSet(S), NEW s
  PROVE  /\ IsFiniteSet({k \in S : k <= s})
         /\ Place(S, s) \in Nat
         /\ Place(S, s) <= Cardinality(S)
<1>1. {k \in S : k <= s} \in SUBSET S
  OBVIOUS
<1>2. QED
  BY <1>1, FS_Subset, FS_CardinalityType DEF Place

\* A larger number has a later place.
LEMMA PlacesGrow ==
  ASSUME NEW S, IsFiniteSet(S), S \subseteq Nat, NEW s \in S, NEW t \in S, s < t
  PROVE  Place(S, s) < Place(S, t)
<1> DEFINE A == {k \in S : k <= s}
           B == {k \in S : k <= t}
<1>1. A \subseteq B /\ A # B
  <2>1. s \in Nat /\ t \in Nat
    OBVIOUS
  <2>2. t \in B /\ t \notin A
    BY <2>1
  <2>3. ASSUME NEW k \in A PROVE k \in B
    BY <2>1
  <2>4. QED
    BY <2>2, <2>3
<1>2. IsFiniteSet(B) /\ Place(S, t) \in Nat /\ Place(S, s) \in Nat
  BY UpToIsFinite
<1>3. Place(S, s) = Cardinality(A) /\ Place(S, t) = Cardinality(B)
  BY DEF Place
<1> HIDE DEF A, B
<1>4. Cardinality(A) <= Cardinality(B) /\ Cardinality(A) # Cardinality(B)
  BY <1>1, <1>2, FS_Subset
<1>5. QED
  BY <1>2, <1>3, <1>4

\* The places of the numbers of a set are exactly 1 up to their count.
LEMMA PlacesAreTaken ==
  ASSUME NEW S, IsFiniteSet(S), S \subseteq Nat
  PROVE  /\ \A s \in S : Place(S, s) \in 1 .. Cardinality(S)
         /\ \A s, t \in S : Place(S, s) = Place(S, t) => s = t
         /\ \A i \in 1 .. Cardinality(S) : \E s \in S : Place(S, s) = i
<1>1. Cardinality(S) \in Nat
  BY FS_CardinalityType
<1>2. ASSUME NEW s \in S PROVE Place(S, s) \in 1 .. Cardinality(S)
  <2>1. s \in {k \in S : k <= s}
    OBVIOUS
  <2>2. Place(S, s) # 0
    BY <2>1, UpToIsFinite, FS_EmptySet DEF Place
  <2>3. Place(S, s) \in Nat /\ Place(S, s) <= Cardinality(S)
    BY UpToIsFinite
  <2>4. QED
    BY <1>1, <2>2, <2>3
<1>3. ASSUME NEW s \in S, NEW t \in S, Place(S, s) = Place(S, t) PROVE s = t
  <2>1. s \in Nat /\ t \in Nat /\ Place(S, s) \in Nat
    BY UpToIsFinite
  <2>2. s < t => Place(S, s) < Place(S, t)
    BY PlacesGrow
  <2>3. t < s => Place(S, t) < Place(S, s)
    BY PlacesGrow
  <2>4. QED
    BY <1>3, <2>1, <2>2, <2>3
<1>4. ASSUME NEW i \in 1 .. Cardinality(S) PROVE \E s \in S : Place(S, s) = i
  <2> DEFINE f == [s \in S |-> Place(S, s)]
             T == {f[s] : s \in S}
  <2>1. f \in Bijection(S, T)
    BY <1>3 DEF Bijection, Injection, IsInjective, Surjection
  <2>2. T \subseteq 1 .. Cardinality(S)
    BY <1>2
  <2>3. \A x \in T : \E s \in S : Place(S, s) = x
    OBVIOUS
  <2> HIDE DEF f, T
  <2>4. Cardinality(T) = Cardinality(S)
    BY <2>1, FS_Bijection DEF ExistsBijection
  <2>5. IsFiniteSet(1 .. Cardinality(S)) /\ Cardinality(1 .. Cardinality(S)) = Cardinality(S)
    BY <1>1, FS_Interval
  <2>6. T = 1 .. Cardinality(S)
    BY <2>2, <2>4, <2>5, FS_Subset
  <2>7. QED
    BY <2>3, <2>6
<1>5. QED
  BY <1>2, <1>3, <1>4

\* Nth finds the number at a place.
LEMMA NthIsAtItsPlace ==
  ASSUME NEW S, IsFiniteSet(S), S \subseteq Nat
  PROVE  /\ \A i \in 1 .. Cardinality(S) : Nth(S, i) \in S /\ Place(S, Nth(S, i)) = i
         /\ \A s \in S : Nth(S, Place(S, s)) = s
<1>1. ASSUME NEW i \in 1 .. Cardinality(S) PROVE Nth(S, i) \in S /\ Place(S, Nth(S, i)) = i
  <2>1. \E s \in S : Place(S, s) = i
    BY PlacesAreTaken
  <2>2. QED
    BY <2>1 DEF Nth
<1>2. ASSUME NEW s \in S PROVE Nth(S, Place(S, s)) = s
  <2>1. Place(S, s) \in 1 .. Cardinality(S)
    BY PlacesAreTaken
  <2>2. Nth(S, Place(S, s)) \in S /\ Place(S, Nth(S, Place(S, s))) = Place(S, s)
    BY <1>1, <2>1
  <2>3. \A x, y \in S : Place(S, x) = Place(S, y) => x = y
    BY PlacesAreTaken
  <2>4. QED
    BY <2>2, <2>3
<1>3. QED
  BY <1>1, <1>2

\* A number beyond all others comes last and moves none of them.
LEMMA LastPlace ==
  ASSUME NEW S, IsFiniteSet(S), S \subseteq Nat, NEW t \in Nat, \A s \in S : s < t
  PROVE  /\ Cardinality(S \cup {t}) = Cardinality(S) + 1
         /\ \A i \in 1 .. Cardinality(S) : Nth(S \cup {t}, i) = Nth(S, i)
         /\ Nth(S \cup {t}, Cardinality(S) + 1) = t
<1> DEFINE T == S \cup {t}
<1>1. t \notin S
  OBVIOUS
<1>2. IsFiniteSet(T) /\ Cardinality(T) = Cardinality(S) + 1 /\ T \subseteq Nat
  BY <1>1, FS_AddElement
<1>3. \A s \in S : Place(T, s) = Place(S, s)
  <2> TAKE s \in S
  <2>1. {k \in T : k <= s} = {k \in S : k <= s}
    OBVIOUS
  <2>2. QED
    BY <2>1 DEF Place
<1>4. Place(T, t) = Cardinality(S) + 1
  <2>1. {k \in T : k <= t} = T
    <3>1. \A k \in T : k <= t
      BY <1>2
    <3>2. QED
      BY <3>1
  <2>2. QED
    BY <1>2, <2>1 DEF Place
<1>5. t \in T /\ S \subseteq T
  OBVIOUS
<1> HIDE DEF T
<1>6. ASSUME NEW i \in 1 .. Cardinality(S) PROVE Nth(T, i) = Nth(S, i)
  <2>1. Nth(S, i) \in S /\ Place(S, Nth(S, i)) = i
    BY NthIsAtItsPlace
  <2>2. Nth(T, Place(T, Nth(S, i))) = Nth(S, i)
    BY <1>2, <1>5, <2>1, NthIsAtItsPlace
  <2>3. QED
    BY <1>3, <2>1, <2>2
<1>7. Nth(T, Cardinality(S) + 1) = t
  BY <1>2, <1>4, <1>5, NthIsAtItsPlace
<1>8. QED
  BY <1>2, <1>6, <1>7 DEF T

\* What a query returns by seq is a sequence, as long as there are rows.
LEMMA StoredIsSequence ==
  ASSUME RowsOK, NEW V, \A k \in DOMAIN rows : rows[k] \in V
  PROVE  /\ MessageCount \in Nat
         /\ Stored \in Seq(V)
         /\ Len(Stored) = MessageCount
<1>1. MessageCount \in Nat
  BY CountIsNat
<1>2. \A i \in 1 .. MessageCount : Nth(DOMAIN rows, i) \in DOMAIN rows
  <2>1. IsFiniteSet(DOMAIN rows) /\ DOMAIN rows \subseteq Nat
    BY DEF RowsOK
  <2>2. QED
    BY <2>1, NthIsAtItsPlace DEF MessageCount
<1>3. QED
  BY <1>1, <1>2 DEF Stored

\* Reading by seq reads every row.
LEMMA StoredHasAllRows ==
  ASSUME RowsOK
  PROVE  Elements(Stored) = Elements(rows)
<1>1. IsFiniteSet(DOMAIN rows) /\ DOMAIN rows \subseteq Nat
  BY DEF RowsOK
<1>2. \A i \in 1 .. MessageCount : Nth(DOMAIN rows, i) \in DOMAIN rows
  BY <1>1, NthIsAtItsPlace DEF MessageCount
<1>3. \A k \in DOMAIN rows : \E i \in 1 .. MessageCount : Nth(DOMAIN rows, i) = k
  <2> TAKE k \in DOMAIN rows
  <2>1. Place(DOMAIN rows, k) \in 1 .. MessageCount
    BY <1>1, PlacesAreTaken DEF MessageCount
  <2>2. Nth(DOMAIN rows, Place(DOMAIN rows, k)) = k
    BY <1>1, NthIsAtItsPlace
  <2>3. QED
    BY <2>1, <2>2
<1>4. DOMAIN Stored = 1 .. MessageCount
      /\ \A i \in 1 .. MessageCount : Stored[i] = rows[Nth(DOMAIN rows, i)]
  BY DEF Stored
<1>5. QED
  BY <1>2, <1>3, <1>4 DEF Elements

\* What LastN returns.
LEMMA LastNIsTheEnd ==
  ASSUME NEW V, NEW s \in Seq(V), NEW n \in Nat
  PROVE  /\ LastN(s, n) \in Seq(V)
         /\ Len(LastN(s, n)) = IF n < Len(s) THEN n ELSE Len(s)
         /\ \A i \in 1 .. Len(LastN(s, n)) :
              LastN(s, n)[i] = s[Len(s) - Len(LastN(s, n)) + i]
<1> DEFINE start == (IF n < Len(s) THEN Len(s) - n ELSE 0) + 1
<1>1. /\ Len(s) \in Nat
      /\ start \in 1 .. Len(s) + 1
      /\ Len(s) - start + 1 = IF n < Len(s) THEN n ELSE Len(s)
  OBVIOUS
<1> HIDE DEF start
<1>2. /\ SubSeq(s, start, Len(s)) \in Seq(V)
      /\ Len(SubSeq(s, start, Len(s))) = Len(s) - start + 1
      /\ \A i \in 1 .. Len(s) - start + 1 : SubSeq(s, start, Len(s))[i] = s[start - 1 + i]
  BY <1>1
<1>3. LastN(s, n) = SubSeq(s, start, Len(s))
  BY DEF LastN, start
<1>4. LastN(s, n) \in Seq(V) /\ Len(LastN(s, n)) = Len(s) - start + 1
  BY <1>2, <1>3
<1>5. ASSUME NEW i \in 1 .. Len(LastN(s, n))
      PROVE  LastN(s, n)[i] = s[Len(s) - Len(LastN(s, n)) + i]
  <2>1. start - 1 + i = Len(s) - Len(LastN(s, n)) + i
    BY <1>1, <1>4
  <2>2. LastN(s, n)[i] = s[start - 1 + i]
    BY <1>2, <1>3, <1>4
  <2>3. QED
    BY <2>1, <2>2
<1>6. QED
  BY <1>1, <1>4, <1>5

\* get_messages returns no more than its limit.
LEMMA GetMessagesIsTheStart ==
  ASSUME RowsOK, NEW V, \A k \in DOMAIN rows : rows[k] \in V, NEW n \in Nat
  PROVE  GetMessages(n) \in Seq(V) /\ Len(GetMessages(n)) <= n
<1> DEFINE stop == IF n < Len(Stored) THEN n ELSE Len(Stored)
<1>1. Stored \in Seq(V) /\ Len(Stored) \in Nat
  BY StoredIsSequence
<1>2. stop \in 0 .. Len(Stored) /\ stop <= n /\ stop \in Nat
  BY <1>1
<1> HIDE DEF stop
<1>3. SubSeq(Stored, 1, stop) \in Seq(V) /\ Len(SubSeq(Stored, 1, stop)) = stop
  BY <1>1, <1>2
<1>4. QED
  BY <1>2, <1>3 DEF GetMessages, stop

-----------------------------------------------------------------------------
(***************************************************************************)
(* Types.  seq stays within the number of calls because a call hands out   *)
(* one number at most, and the count of the rows, which a restart goes     *)
(* back to, is no larger.                                                  *)
(***************************************************************************)
TypeInv ==
  /\ TypeOK
  /\ DOMAIN rows \subseteq 1 .. calls
  /\ seq <= calls
  /\ own <= calls

\* There are no more rows than there were calls.
LEMMA CountWithinCalls ==
  ASSUME LogInv, TypeInv
  PROVE  /\ MessageCount \in Nat
         /\ MessageCount <= calls
         /\ LoadedSeq \in 0 .. calls
<1>1. MessageCount \in Nat
  BY CountIsNat DEF LogInv
<1>2. MessageCount <= calls
  <2>1. calls \in Nat /\ DOMAIN rows \in SUBSET (1 .. calls)
    BY DEF TypeInv, LogInv, RowsOK
  <2>2. IsFiniteSet(1 .. calls) /\ Cardinality(1 .. calls) = calls
    BY <2>1, FS_Interval
  <2>3. QED
    BY <2>1, <2>2, FS_Subset DEF MessageCount
<1>3. QED
  BY <1>1, <1>2 DEF LoadedSeq, TypeInv, LogInv, RowsOK

\* What load() puts into the window fits into it.
LEMMA LoadedMessagesType ==
  ASSUME LogInv, TypeInv
  PROVE  /\ LoadedMessages \in Seq(Message) /\ Len(LoadedMessages) <= MaxMessages
         /\ GetMessages(MaxMessages) \in Seq(Message)
         /\ Len(GetMessages(MaxMessages)) <= MaxMessages
<1>1. GetMessages(MaxMessages) \in Seq(Message) /\ Len(GetMessages(MaxMessages)) <= MaxMessages
  <2>1. MaxMessages \in Nat /\ RowsOK /\ \A k \in DOMAIN rows : rows[k] \in Message
    BY SizesAssumption DEF LogInv, TypeInv, TypeOK
  <2>2. QED
    BY <2>1, GetMessagesIsTheStart
<1>2. messages \in Seq(Message) /\ Len(messages) <= MaxMessages
  BY DEF TypeInv, TypeOK
<1>3. QED
  BY <1>1, <1>2 DEF LoadedMessages

\* The types hold initially.
LEMMA TypeInvInit == Init => TypeInv
<1> SUFFICES ASSUME Init PROVE TypeInv
  OBVIOUS
<1>1. rows = <<>> /\ DOMAIN rows = {}
  BY DEF Init
<1>2. rows \in [DOMAIN rows -> Message]
  BY <1>1
<1>3. messages = <<>> /\ written = <<>> /\ messages \in Seq(Message)
      /\ written \in Seq(Message) /\ Len(messages) = 0
  BY DEF Init
<1>4. /\ seq = 0 /\ loaded = FALSE /\ calls = 0 /\ own = 0 /\ fails = 0
      /\ restarts = 0 /\ intact = TRUE
  BY DEF Init
<1>5. DOMAIN rows = {}
  BY <1>1
<1>6. /\ DOMAIN rows \subseteq 1 .. MaxCalls /\ DOMAIN rows \subseteq 1 .. calls
      /\ Len(messages) <= MaxMessages
  BY <1>3, <1>5, SizesAssumption
<1>7. /\ seq \in 0 .. MaxCalls /\ calls \in 0 .. MaxCalls
      /\ own \in 0 .. MaxCalls /\ fails \in 0 .. MaxFails /\ restarts \in 0 .. MaxRestarts
      /\ seq <= calls /\ own <= calls
  <2>1. seq = 0 /\ calls = 0 /\ own = 0 /\ fails = 0 /\ restarts = 0
    BY <1>4
  <2>2. QED
    BY <2>1, SizesAssumption
<1>8. messages \in Seq(Message) /\ written \in Seq(Message)
  BY <1>3
<1>9. loaded \in BOOLEAN /\ intact \in BOOLEAN
  BY <1>4
<1>10. QED
  BY <1>2, <1>6, <1>7, <1>8, <1>9 DEF TypeInv, TypeOK

\* The types hold after every step.
LEMMA TypeInvNext == LogInv /\ TypeInv /\ [Next]_vars => TypeInv'
<1> SUFFICES ASSUME LogInv, TypeInv, [Next]_vars PROVE TypeInv'
  OBVIOUS
<1> USE SizesAssumption
<1>1. /\ calls \in Nat /\ calls <= MaxCalls /\ seq \in Nat /\ own \in Nat /\ own <= calls
      /\ seq <= calls /\ LoadedSeq \in 0 .. calls /\ MessageCount \in Nat
  BY CountWithinCalls DEF TypeInv, TypeOK, LogInv, RowsOK
<1>2. ASSUME UNCHANGED rows, calls' = calls \/ calls' = calls + 1, calls' <= MaxCalls
      PROVE  /\ DOMAIN rows' \subseteq 1 .. MaxCalls
             /\ rows' \in [DOMAIN rows' -> Message]
             /\ calls' \in 0 .. MaxCalls
             /\ DOMAIN rows' \subseteq 1 .. calls'
  BY <1>1, <1>2 DEF TypeInv, TypeOK
<1>3. CASE Load
  BY <1>1, <1>2, <1>3, LoadedMessagesType DEF Load, historyVars, TypeInv, TypeOK
<1>4. CASE LoadFails
  BY <1>1, <1>2, <1>4, LoadedMessagesType DEF LoadFails, historyVars, TypeInv, TypeOK
<1>5. CASE AppendOk
  <2> DEFINE m == calls + 1
             s == LoadedSeq + 1
  <2>1. /\ calls < MaxCalls
        /\ PutMessage(m, s)
        /\ messages' = LastN(Append(LoadedMessages, m), MaxMessages)
        /\ seq' = s
        /\ loaded' = TRUE
        /\ calls' = m
        /\ written' = Append(written, m)
        /\ own' = own + 1
        /\ UNCHANGED <<fails, restarts, intact>>
    BY <1>5 DEF AppendOk
  <2>2. m \in Message /\ m \in 1 .. m /\ s \in 1 .. m /\ s \in 1 .. MaxCalls
    BY <1>1, <2>1 DEF Message
  <2>3. DOMAIN rows' = DOMAIN rows \cup {s} /\ rows' \in [DOMAIN rows' -> Message]
    BY <2>1, <2>2 DEF PutMessage, TypeInv, TypeOK
  <2>4. DOMAIN rows' \subseteq 1 .. m /\ DOMAIN rows' \subseteq 1 .. MaxCalls
    BY <1>1, <2>2, <2>3 DEF TypeInv, TypeOK
  <2>5. messages' \in Seq(Message) /\ Len(messages') <= MaxMessages
    <3>1. Append(LoadedMessages, m) \in Seq(Message)
      BY <2>2, LoadedMessagesType
    <3>2. MaxMessages \in Nat /\ Len(Append(LoadedMessages, m)) \in Nat
      BY <3>1
    <3> DEFINE w == Append(LoadedMessages, m)
    <3> HIDE DEF w
    <3>3. w \in Seq(Message) /\ Len(w) \in Nat /\ MaxMessages \in Nat
      BY <3>1, <3>2 DEF w
    <3>4. /\ LastN(w, MaxMessages) \in Seq(Message)
          /\ Len(LastN(w, MaxMessages)) = IF MaxMessages < Len(w) THEN MaxMessages ELSE Len(w)
      BY <3>3, LastNIsTheEnd
    <3>5. Len(LastN(w, MaxMessages)) <= MaxMessages
      BY <3>3, <3>4
    <3>6. QED
      BY <2>1, <3>4, <3>5 DEF w
  <2>6. written' \in Seq(Message)
    BY <2>1, <2>2 DEF TypeInv, TypeOK
  <2>7. calls' \in 0 .. MaxCalls /\ seq' \in 0 .. MaxCalls /\ own' \in 0 .. MaxCalls
        /\ seq' <= calls' /\ own' <= calls'
    BY <1>1, <2>1
  <2> HIDE DEF m, s
  <2>8. QED
    BY <2>1, <2>3, <2>4, <2>5, <2>6, <2>7 DEF TypeInv, TypeOK
<1>6. CASE AppendPutFails
  <2>1. messages' \in Seq(Message) /\ Len(messages') <= MaxMessages
    BY <1>6, LoadedMessagesType DEF AppendPutFails
  <2>2. calls' \in 0 .. MaxCalls /\ seq' \in 0 .. MaxCalls /\ own' \in 0 .. MaxCalls
        /\ seq' <= calls' /\ own' <= calls' /\ fails' \in 0 .. MaxFails
    BY <1>1, <1>6 DEF AppendPutFails, TypeInv, TypeOK
  <2>3. QED
    BY <1>1, <1>2, <1>6, <2>1, <2>2 DEF AppendPutFails, TypeInv, TypeOK
<1>7. CASE Clear
  <2>1. messages' = <<>> /\ messages' \in Seq(Message) /\ Len(messages') <= MaxMessages
    BY <1>7 DEF Clear
  <2>2. QED
    BY <1>1, <1>2, <1>7, <2>1 DEF Clear, TypeInv, TypeOK
<1>8. CASE Restart
  <2>1. messages' = <<>> /\ messages' \in Seq(Message) /\ Len(messages') <= MaxMessages
    BY <1>8 DEF Restart
  <2>2. restarts' \in 0 .. MaxRestarts
    BY <1>8 DEF Restart, TypeInv, TypeOK
  <2>3. intact' \in BOOLEAN
    BY <1>8 DEF Restart, Contiguous, TypeInv, TypeOK
  <2>4. /\ seq' = 0 /\ loaded' = FALSE /\ own' = 0
        /\ UNCHANGED <<rows, calls, written, fails>>
    BY <1>8 DEF Restart
  <2>5. seq' \in 0 .. MaxCalls /\ own' \in 0 .. MaxCalls /\ seq' <= calls' /\ own' <= calls'
    BY <1>1, <2>4
  <2>6. loaded' \in BOOLEAN /\ written' \in Seq(Message) /\ fails' \in 0 .. MaxFails
    BY <2>4 DEF TypeInv, TypeOK
  <2>7. /\ DOMAIN rows' \subseteq 1 .. MaxCalls /\ rows' \in [DOMAIN rows' -> Message]
        /\ calls' \in 0 .. MaxCalls /\ DOMAIN rows' \subseteq 1 .. calls'
    BY <1>1, <1>2, <2>4
  <2>8. QED
    BY <2>1, <2>2, <2>3, <2>5, <2>6, <2>7 DEF TypeInv, TypeOK
<1>9. CASE UNCHANGED vars
  BY <1>1, <1>2, <1>9 DEF vars, bufferVars, historyVars, TypeInv, TypeOK
<1>10. QED
  BY <1>3, <1>4, <1>5, <1>6, <1>7, <1>8, <1>9 DEF Next

\* Every variable has its type, the window never outgrows its size and no number
\* exceeds the calls (ConversationBuffer::load, append).
THEOREM BufferTypesHold == Spec => []TypeOK
<1>1. TypeInv => TypeOK
  BY DEF TypeInv
<1>2. QED
  BY LogInvInit, LogInvNext, TypeInvInit, TypeInvNext, <1>1, PTL DEF Spec

-----------------------------------------------------------------------------
(***************************************************************************)
(* The window.  The invariant compares it with what was written from the   *)
(* end: as far back as this buffer took messages, and the window holds     *)
(* them, the two agree.                                                    *)
(***************************************************************************)
TailAgrees(s, t, n) ==
  /\ n <= Len(s)
  /\ n <= Len(t)
  /\ \A i \in 0 .. n - 1 : s[Len(s) - i] = t[Len(t) - i]

OwnInWindow == IF own < MaxMessages THEN own ELSE MaxMessages

TailInv ==
  /\ own > 0 => loaded
  /\ TailAgrees(messages, written, OwnInWindow)

\* The last n of a sequence.
LEMMA LastNWithin ==
  ASSUME NEW V, NEW s \in Seq(V), NEW n \in Nat, n <= Len(s)
  PROVE  /\ LastN(s, n) \in Seq(V)
         /\ Len(LastN(s, n)) = n
         /\ \A i \in 1 .. n : LastN(s, n)[i] = s[Len(s) - n + i]
<1>1. Len(s) \in Nat
  OBVIOUS
<1>2. (IF n < Len(s) THEN n ELSE Len(s)) = n
  BY <1>1
<1>3. Len(LastN(s, n)) = n
  BY <1>2, LastNIsTheEnd
<1>4. LastN(s, n) \in Seq(V)
  BY LastNIsTheEnd
<1>5. \A i \in 1 .. Len(LastN(s, n)) : LastN(s, n)[i] = s[Len(s) - Len(LastN(s, n)) + i]
  BY LastNIsTheEnd
<1>6. QED
  BY <1>3, <1>4, <1>5

\* Sequences that agree on their last n have the same last n.
LEMMA EqualTails ==
  ASSUME NEW V, NEW s \in Seq(V), NEW t \in Seq(V), NEW n \in Nat, TailAgrees(s, t, n)
  PROVE  LastN(s, n) = LastN(t, n)
<1>1. n <= Len(s) /\ n <= Len(t) /\ Len(s) \in Nat /\ Len(t) \in Nat
  BY DEF TailAgrees
<1>2. /\ LastN(s, n) \in Seq(V) /\ Len(LastN(s, n)) = n
      /\ \A i \in 1 .. n : LastN(s, n)[i] = s[Len(s) - n + i]
  BY <1>1, LastNWithin
<1>3. /\ LastN(t, n) \in Seq(V) /\ Len(LastN(t, n)) = n
      /\ \A i \in 1 .. n : LastN(t, n)[i] = t[Len(t) - n + i]
  BY <1>1, LastNWithin
<1>4. ASSUME NEW i \in 1 .. n PROVE LastN(s, n)[i] = LastN(t, n)[i]
  <2> DEFINE j == n - i
  <2>1. j \in 0 .. n - 1 /\ Len(s) - j = Len(s) - n + i /\ Len(t) - j = Len(t) - n + i
    BY <1>1
  <2> HIDE DEF j
  <2>2. s[Len(s) - j] = t[Len(t) - j]
    BY <2>1 DEF TailAgrees
  <2>3. QED
    BY <1>2, <1>3, <2>1, <2>2
<1>5. QED
  BY <1>2, <1>3, <1>4, SeqEqual

\* One message more at both ends, and a cut that is not shorter than the tail.
LEMMA TailAppend ==
  ASSUME NEW V, NEW s \in Seq(V), NEW t \in Seq(V), NEW n \in Nat, TailAgrees(s, t, n),
         NEW m \in V, NEW max \in Nat, NEW k \in Nat, k <= n + 1, k <= max
  PROVE  TailAgrees(LastN(Append(s, m), max), Append(t, m), k)
<1> DEFINE u == Append(s, m)
           v == Append(t, m)
           w == LastN(u, max)
<1>1. /\ u \in Seq(V) /\ Len(u) = Len(s) + 1
      /\ v \in Seq(V) /\ Len(v) = Len(t) + 1
      /\ \A i \in 1 .. Len(s) : u[i] = s[i]
      /\ \A i \in 1 .. Len(t) : v[i] = t[i]
      /\ u[Len(s) + 1] = m /\ v[Len(t) + 1] = m
  OBVIOUS
<1>2. Len(s) \in Nat /\ Len(t) \in Nat /\ n <= Len(s) /\ n <= Len(t)
  BY DEF TailAgrees
<1> HIDE DEF u, v
<1>3. /\ w \in Seq(V)
      /\ Len(w) = IF max < Len(u) THEN max ELSE Len(u)
      /\ \A i \in 1 .. Len(w) : w[i] = u[Len(u) - Len(w) + i]
  BY <1>1, LastNIsTheEnd
<1> HIDE DEF w
<1>4. Len(w) \in Nat /\ k <= Len(w) /\ Len(w) <= Len(s) + 1 /\ k <= Len(v)
  BY <1>1, <1>2, <1>3
<1>5. ASSUME NEW i \in 0 .. k - 1 PROVE w[Len(w) - i] = v[Len(v) - i]
  <2>1. w[Len(w) - i] = u[Len(u) - i]
    <3>1. Len(w) - i \in 1 .. Len(w) /\ Len(u) - Len(w) + (Len(w) - i) = Len(u) - i
      BY <1>1, <1>2, <1>4
    <3>2. QED
      BY <1>3, <3>1
  <2>2. CASE i = 0
    BY <1>1, <1>2, <2>1, <2>2
  <2>3. CASE i # 0
    <3> DEFINE j == i - 1
    <3>1. /\ j \in 0 .. n - 1
          /\ Len(u) - i = Len(s) - j /\ Len(s) - j \in 1 .. Len(s)
          /\ Len(v) - i = Len(t) - j /\ Len(t) - j \in 1 .. Len(t)
      BY <1>1, <1>2, <2>3
    <3> HIDE DEF j
    <3>2. s[Len(s) - j] = t[Len(t) - j]
      BY <3>1 DEF TailAgrees
    <3>3. QED
      BY <1>1, <2>1, <3>1, <3>2
  <2>4. QED
    BY <2>2, <2>3
<1>6. QED
  BY <1>4, <1>5 DEF TailAgrees, u, v, w

\* Nothing taken, nothing to compare.
LEMMA NoTail ==
  ASSUME NEW s \in Seq(Message), NEW t \in Seq(Message)
  PROVE  TailAgrees(s, t, 0)
<1>1. Len(s) \in Nat /\ Len(t) \in Nat
  OBVIOUS
<1>2. QED
  BY <1>1 DEF TailAgrees

\* The window and what was taken agree initially.
LEMMA TailInvInit == Init => TailInv
<1> SUFFICES ASSUME Init PROVE TailInv
  OBVIOUS
<1>1. own = 0 /\ messages \in Seq(Message) /\ written \in Seq(Message)
  BY DEF Init
<1>2. OwnInWindow = 0
  BY <1>1, SizesAssumption DEF OwnInWindow
<1>3. QED
  BY <1>1, <1>2, NoTail DEF TailInv

\* A step that takes no message and keeps what was taken.
LEMMA TailStays ==
  ASSUME TailInv, UNCHANGED <<messages, written, own>>, loaded => loaded'
  PROVE  TailInv'
  BY DEF TailInv, TailAgrees, OwnInWindow

\* A step after which nothing in the window was taken by this buffer.
LEMMA TailForgotten ==
  ASSUME TypeInv', own' = 0
  PROVE  TailInv'
<1>1. messages' \in Seq(Message) /\ written' \in Seq(Message)
  BY DEF TypeInv, TypeOK
<1>2. OwnInWindow' = 0
  BY SizesAssumption DEF OwnInWindow
<1>3. TailAgrees(messages', written', 0)
  BY <1>1, NoTail
<1>4. QED
  BY <1>2, <1>3 DEF TailInv, TailAgrees

\* The window and what was taken agree after every step.
LEMMA TailInvNext == TypeInv /\ TypeInv' /\ LogInv /\ TailInv /\ [Next]_vars => TailInv'
<1> SUFFICES ASSUME TypeInv, TypeInv', LogInv, TailInv, [Next]_vars PROVE TailInv'
  OBVIOUS
<1>1. own \in Nat /\ MaxMessages \in Nat /\ OwnInWindow \in Nat /\ loaded \in BOOLEAN
  BY SizesAssumption DEF TypeInv, TypeOK, OwnInWindow
<1>2. ~loaded => own = 0
  BY <1>1 DEF TailInv
<1>3. CASE Load
  <2>1. loaded' = TRUE /\ UNCHANGED <<written, own>>
    BY <1>3 DEF Load, historyVars
  <2>2. CASE loaded
    BY <1>3, <2>1, <2>2, TailStays DEF Load, LoadedMessages
  <2>3. CASE ~loaded
    BY <1>2, <2>1, <2>3, TailForgotten
  <2>4. QED
    BY <2>2, <2>3
<1>4. CASE LoadFails
  BY <1>2, <1>4, TailForgotten DEF LoadFails, historyVars
<1>5. CASE AppendOk
  <2> DEFINE m == calls + 1
             k == IF own + 1 < MaxMessages THEN own + 1 ELSE MaxMessages
  <2>1. /\ messages' = LastN(Append(LoadedMessages, m), MaxMessages)
        /\ loaded' = TRUE
        /\ written' = Append(written, m)
        /\ own' = own + 1
        /\ calls < MaxCalls
    BY <1>5 DEF AppendOk
  <2>2. m \in Message
    BY <2>1, SizesAssumption DEF Message, TypeInv, TypeOK
  <2>3. /\ LoadedMessages \in Seq(Message) /\ written \in Seq(Message)
        /\ TailAgrees(LoadedMessages, written, OwnInWindow)
    <3>1. LoadedMessages \in Seq(Message) /\ written \in Seq(Message)
      BY LoadedMessagesType DEF TypeInv, TypeOK
    <3>2. CASE loaded
      BY <3>1, <3>2 DEF LoadedMessages, TailInv
    <3>3. CASE ~loaded
      <4>1. OwnInWindow = 0
        BY <1>1, <1>2, <3>3 DEF OwnInWindow
      <4>2. QED
        BY <3>1, <4>1, NoTail
    <3>4. QED
      BY <3>1, <3>2, <3>3
  <2>4. k \in Nat /\ k <= OwnInWindow + 1 /\ k <= MaxMessages /\ OwnInWindow' = k
    BY <1>1, <2>1 DEF OwnInWindow
  <2> HIDE DEF m, k
  <2>5. TailAgrees(LastN(Append(LoadedMessages, m), MaxMessages), Append(written, m), k)
    BY <1>1, <2>2, <2>3, <2>4, TailAppend
  <2>6. QED
    BY <2>1, <2>4, <2>5 DEF TailInv, TailAgrees
<1>6. CASE AppendPutFails
  <2>1. loaded' = TRUE /\ UNCHANGED <<written, own>> /\ messages' = LoadedMessages
    BY <1>6 DEF AppendPutFails
  <2>2. CASE loaded
    BY <2>1, <2>2, TailStays DEF LoadedMessages
  <2>3. CASE ~loaded
    BY <1>2, <2>1, <2>3, TailForgotten
  <2>4. QED
    BY <2>2, <2>3
<1>7. CASE Clear
  BY <1>7, TailForgotten DEF Clear
<1>8. CASE Restart
  BY <1>8, TailForgotten DEF Restart
<1>9. CASE UNCHANGED vars
  BY <1>9, TailStays DEF vars, bufferVars, historyVars
<1>10. QED
  BY <1>3, <1>4, <1>5, <1>6, <1>7, <1>8, <1>9 DEF Next

\* The messages a buffer took since it was created or cleared are the end of its
\* window, as many as it holds, through failed writes and loads
\* (ConversationBuffer::append, clear, load).
THEOREM WindowEndsWithTaken == Spec => []WindowTail
<1>1. TypeInv /\ TailInv => WindowTail
  <2> SUFFICES ASSUME TypeInv, TailInv PROVE WindowTail
    OBVIOUS
  <2>1. messages \in Seq(Message) /\ written \in Seq(Message) /\ OwnInWindow \in Nat
    BY SizesAssumption DEF TypeInv, TypeOK, OwnInWindow
  <2>2. LastN(messages, OwnInWindow) = LastN(written, OwnInWindow)
    BY <2>1, EqualTails DEF TailInv
  <2>3. QED
    BY <2>2 DEF WindowTail, OwnInWindow
<1>2. QED
  BY LogInvInit, LogInvNext, TypeInvInit, TypeInvNext, TailInvInit, TailInvNext, <1>1, PTL DEF Spec

-----------------------------------------------------------------------------
(***************************************************************************)
(* What is lost.  Rows beyond the number the buffer has reached are        *)
(* pending: the appends to come will replace them.  Before a restart there *)
(* may be one gap for each failed write, so a restart makes at most that   *)
(* many rows pending; after that, each message lost is one row less that   *)
(* is pending.                                                             *)
(***************************************************************************)
Pending == {k \in DOMAIN rows : k > LoadedSeq}

LossInv ==
  /\ LoadedSeq <= MessageCount + fails
  /\ \A k \in DOMAIN rows : k <= MessageCount + fails
  /\ Cardinality(Lost) + Cardinality(Pending) <= fails * restarts

\* What is counted is finite.
LEMMA LossTypes ==
  ASSUME TypeInv, LogInv
  PROVE  /\ IsFiniteSet(Lost) /\ Cardinality(Lost) \in Nat
         /\ IsFiniteSet(Pending) /\ Cardinality(Pending) \in Nat
         /\ IsFiniteSet(DOMAIN rows) /\ MessageCount \in Nat
         /\ DOMAIN rows \subseteq Nat
         /\ calls \in Nat /\ fails \in Nat /\ restarts \in Nat /\ LoadedSeq \in Nat
<1>1. IsFiniteSet(DOMAIN rows) /\ DOMAIN rows \subseteq Nat
  BY DEF LogInv, RowsOK
<1>2. Pending \in SUBSET DOMAIN rows
  BY DEF Pending
<1>3. Lost \in SUBSET Message
  <2>1. written \in Seq(Message)
    BY DEF TypeInv, TypeOK
  <2>2. Elements(written) \subseteq Message
    BY <2>1 DEF Elements
  <2>3. QED
    BY <2>2 DEF Lost
<1>4. IsFiniteSet(Message)
  <2>1. MaxCalls \in Int
    BY SizesAssumption
  <2>2. QED
    BY <2>1, FS_Interval DEF Message
<1>5. IsFiniteSet(Lost) /\ IsFiniteSet(Pending)
  BY <1>1, <1>2, <1>3, <1>4, FS_Subset
<1>6. calls \in Nat /\ fails \in Nat /\ restarts \in Nat
  BY DEF TypeInv, TypeOK
<1>7. MessageCount \in Nat /\ LoadedSeq \in Nat
  BY <1>6, CountWithinCalls
<1>8. QED
  BY <1>1, <1>5, <1>6, <1>7, FS_CardinalityType

\* Nothing is lost or pending initially.
LEMMA LossInvInit == Init => LossInv
<1> SUFFICES ASSUME Init PROVE LossInv
  OBVIOUS
<1>1. DOMAIN rows = {} /\ Elements(written) = {}
  BY DEF Init, Elements
<1>2. Lost = {} /\ Pending = {}
  BY <1>1 DEF Lost, Pending
<1>3. MessageCount = 0 /\ Cardinality(Lost) = 0 /\ Cardinality(Pending) = 0
  BY <1>1, <1>2, FS_EmptySet DEF MessageCount
<1>4. LoadedSeq = 0 /\ fails = 0 /\ restarts = 0
  BY <1>3 DEF Init, LoadedSeq
<1>5. QED
  BY <1>1, <1>3, <1>4 DEF LossInv

\* A step that leaves the rows and the next number alone.
LEMMA LossStays ==
  ASSUME LossInv, UNCHANGED <<rows, written, fails, restarts>>, LoadedSeq' = LoadedSeq
  PROVE  LossInv'
<1>1. Lost' = Lost /\ Pending' = Pending /\ MessageCount' = MessageCount
  BY DEF Lost, Pending, MessageCount, Elements
<1>2. QED
  BY <1>1 DEF LossInv

\* The bound on what is lost grows with the failed writes and the restarts.
LEMMA FactorsGrow ==
  ASSUME NEW a \in Nat, NEW b \in Nat
  PROVE  /\ a * b \in Nat
         /\ a * b <= (a + 1) * b
         /\ a * (b + 1) = a * b + a
  OBVIOUS

\* An append to a number that has no row.
LEMMA AppendBeyond ==
  ASSUME TypeInv, LogInv, LossInv, AppendOk, LoadedSeq + 1 \notin DOMAIN rows
  PROVE  /\ Lost' \subseteq Lost
         /\ Pending' = Pending
         /\ MessageCount' = MessageCount + 1
<1> DEFINE m == calls + 1
           s == LoadedSeq + 1
<1>1. /\ PutMessage(m, s) /\ seq' = s /\ loaded' = TRUE /\ written' = Append(written, m)
      /\ s \notin DOMAIN rows
  BY DEF AppendOk
<1>2. LoadedSeq' = s
  BY <1>1 DEF LoadedSeq
<1>3. m \in Nat /\ written \in Seq(Nat) /\ LoadedSeq \in Nat /\ DOMAIN rows \subseteq Nat
  BY LossTypes DEF LogInv, RowsOK
<1>4. \A k \in DOMAIN rows : k > LoadedSeq <=> k > s
  BY <1>1, <1>3
<1>5. ~(s > s)
  BY <1>3
<1> HIDE DEF m, s
<1>6. DOMAIN rows' = DOMAIN rows \cup {s} /\ Elements(rows') = Elements(rows) \cup {m}
  BY <1>1, PutMessageAdds
<1>7. Elements(written') = Elements(written) \cup {m}
  BY <1>1, <1>3, ElementsAppend
<1>8. Lost' \subseteq Lost
  BY <1>6, <1>7 DEF Lost
<1>9. Pending' = Pending
  BY <1>2, <1>4, <1>5, <1>6 DEF Pending
<1>10. MessageCount' = MessageCount + 1
  BY <1>1, <1>6, LossTypes, FS_AddElement DEF MessageCount
<1>11. QED
  BY <1>8, <1>9, <1>10

\* An append to a number that has a row: it was pending, and its message is lost.
LEMMA AppendOver ==
  ASSUME TypeInv, LogInv, LossInv, AppendOk, LoadedSeq + 1 \in DOMAIN rows
  PROVE  /\ Lost' \subseteq Lost \cup {rows[LoadedSeq + 1]}
         /\ LoadedSeq + 1 \in Pending
         /\ Pending' = Pending \ {LoadedSeq + 1}
         /\ DOMAIN rows' = DOMAIN rows
<1> DEFINE m == calls + 1
           s == LoadedSeq + 1
<1>1. /\ PutMessage(m, s) /\ seq' = s /\ loaded' = TRUE /\ written' = Append(written, m)
      /\ s \in DOMAIN rows
  BY DEF AppendOk
<1>2. LoadedSeq' = s
  BY <1>1 DEF LoadedSeq
<1>3. m \in Nat /\ written \in Seq(Nat) /\ LoadedSeq \in Nat /\ DOMAIN rows \subseteq Nat
  BY LossTypes DEF LogInv, RowsOK
<1>4. \A k \in DOMAIN rows : k > s <=> k > LoadedSeq /\ k # s
  BY <1>3
<1>5. s > LoadedSeq
  BY <1>3
<1> HIDE DEF m, s
<1>6. /\ DOMAIN rows' = DOMAIN rows
      /\ rows'[s] = m
      /\ \A k \in DOMAIN rows : k # s => rows'[k] = rows[k]
  BY <1>1 DEF PutMessage
<1>7. Elements(rows) \subseteq Elements(rows') \cup {rows[s]} /\ m \in Elements(rows')
  BY <1>1, <1>6 DEF Elements
<1>8. Elements(written') = Elements(written) \cup {m}
  BY <1>1, <1>3, ElementsAppend
<1>9. Lost' \subseteq Lost \cup {rows[s]}
  BY <1>7, <1>8 DEF Lost
<1>10. s \in Pending /\ Pending' = Pending \ {s}
  BY <1>1, <1>2, <1>4, <1>5, <1>6 DEF Pending
<1>11. QED
  BY <1>6, <1>9, <1>10 DEF s

\* What is lost and what is pending stay within the bound in every step.
LEMMA LossInvNext == TypeInv /\ TypeInv' /\ LogInv /\ LogInv' /\ LossInv /\ [Next]_vars => LossInv'
<1> SUFFICES ASSUME TypeInv, TypeInv', LogInv, LogInv', LossInv, [Next]_vars PROVE LossInv'
  OBVIOUS
<1>1. /\ IsFiniteSet(Lost) /\ Cardinality(Lost) \in Nat
      /\ IsFiniteSet(Pending) /\ Cardinality(Pending) \in Nat
      /\ IsFiniteSet(DOMAIN rows) /\ MessageCount \in Nat
      /\ DOMAIN rows \subseteq Nat
      /\ fails \in Nat /\ restarts \in Nat /\ LoadedSeq \in Nat
  BY LossTypes
<1>2. /\ LoadedSeq <= MessageCount + fails
      /\ \A k \in DOMAIN rows : k <= MessageCount + fails
      /\ Cardinality(Lost) + Cardinality(Pending) <= fails * restarts
  BY DEF LossInv
<1>3. /\ fails * restarts \in Nat
      /\ fails * restarts <= (fails + 1) * restarts
      /\ fails * (restarts + 1) = fails * restarts + fails
  BY <1>1, FactorsGrow
<1>4. CASE Load
  <2>1. LoadedSeq' = LoadedSeq
    BY <1>4 DEF Load, LoadedSeq
  <2>2. QED
    BY <1>4, <2>1, LossStays DEF Load, historyVars
<1>5. CASE LoadFails
  <2>1. LoadedSeq' = LoadedSeq
    BY <1>5 DEF LoadFails, LoadedSeq, MessageCount
  <2>2. QED
    BY <1>5, <2>1, LossStays DEF LoadFails, historyVars
<1>6. CASE AppendOk
  <2>1. LoadedSeq' = LoadedSeq + 1 /\ UNCHANGED <<fails, restarts>>
    BY <1>6 DEF AppendOk, LoadedSeq
  <2>2. CASE LoadedSeq + 1 \notin DOMAIN rows
    <3>1. /\ Lost' \in SUBSET Lost
          /\ Pending' = Pending
          /\ MessageCount' = MessageCount + 1
      BY <1>6, <2>2, AppendBeyond
    <3>2. Cardinality(Lost') <= Cardinality(Lost) /\ Cardinality(Lost') \in Nat
      BY <1>1, <3>1, FS_Subset, FS_CardinalityType
    <3>3. DOMAIN rows' = DOMAIN rows \cup {LoadedSeq + 1}
      BY <1>6 DEF AppendOk, PutMessage
    <3>4. /\ LoadedSeq + 1 <= MessageCount + 1 + fails
          /\ \A k \in DOMAIN rows : k <= MessageCount + 1 + fails
      BY <1>1, <1>2
    <3>5. Cardinality(Lost') + Cardinality(Pending) <= fails * restarts
      BY <1>1, <1>2, <1>3, <3>2
    <3>6. QED
      BY <2>1, <3>1, <3>3, <3>4, <3>5 DEF LossInv
  <2>3. CASE LoadedSeq + 1 \in DOMAIN rows
    <3> DEFINE s == LoadedSeq + 1
    <3>1. /\ Lost' \in SUBSET (Lost \cup {rows[s]})
          /\ s \in Pending
          /\ Pending' = Pending \ {s}
          /\ DOMAIN rows' = DOMAIN rows
      BY <1>6, <2>3, AppendOver
    <3>2. MessageCount' = MessageCount
      BY <3>1 DEF MessageCount
    <3>3. Cardinality(Lost') <= Cardinality(Lost) + 1 /\ Cardinality(Lost') \in Nat
      <4>1. /\ IsFiniteSet(Lost \cup {rows[s]})
            /\ Cardinality(Lost \cup {rows[s]}) \in Nat
            /\ Cardinality(Lost \cup {rows[s]}) <= Cardinality(Lost) + 1
        <5> DEFINE x == rows[s]
        <5> HIDE DEF x
        <5>1. /\ IsFiniteSet(Lost \cup {x})
              /\ Cardinality(Lost \cup {x}) = Cardinality(Lost)
                 \/ Cardinality(Lost \cup {x}) = Cardinality(Lost) + 1
          BY <1>1, FS_AddElement
        <5>2. QED
          BY <1>1, <5>1 DEF x
      <4>2. IsFiniteSet(Lost') /\ Cardinality(Lost') <= Cardinality(Lost \cup {rows[s]})
        BY <3>1, <4>1, FS_Subset
      <4>3. Cardinality(Lost') \in Nat
        BY <4>2, FS_CardinalityType
      <4>4. QED
        BY <1>1, <4>1, <4>2, <4>3
    <3>4. Cardinality(Pending') = Cardinality(Pending) - 1
      BY <1>1, <3>1, FS_RemoveElement
    <3>5. Cardinality(Lost') + Cardinality(Pending') <= fails * restarts
      BY <1>1, <1>2, <1>3, <3>3, <3>4
    <3>6. LoadedSeq + 1 <= MessageCount + fails
      BY <1>2, <2>3
    <3>7. QED
      BY <1>2, <2>1, <3>1, <3>2, <3>5, <3>6 DEF LossInv
  <2>4. QED
    BY <2>2, <2>3
<1>7. CASE AppendPutFails
  <2>1. /\ UNCHANGED <<rows, written, restarts>>
        /\ seq' = LoadedSeq + 1 /\ loaded' = TRUE /\ fails' = fails + 1
    BY <1>7 DEF AppendPutFails
  <2>2. LoadedSeq' = LoadedSeq + 1 /\ Lost' = Lost /\ MessageCount' = MessageCount
    BY <2>1 DEF LoadedSeq, Lost, MessageCount, Elements
  <2>3. Pending' \in SUBSET Pending
    <3>1. \A k \in DOMAIN rows : k > LoadedSeq + 1 => k > LoadedSeq
      BY <1>1
    <3>2. QED
      BY <2>1, <2>2, <3>1 DEF Pending
  <2>4. Cardinality(Pending') <= Cardinality(Pending) /\ Cardinality(Pending') \in Nat
    BY <1>1, <2>3, FS_Subset, FS_CardinalityType
  <2>5. /\ LoadedSeq + 1 <= MessageCount + (fails + 1)
        /\ \A k \in DOMAIN rows : k <= MessageCount + (fails + 1)
    BY <1>1, <1>2
  <2>6. (fails + 1) * restarts \in Nat
    BY <1>1, FactorsGrow
  <2>7. Cardinality(Lost) + Cardinality(Pending') <= (fails + 1) * restarts
    BY <1>1, <1>2, <1>3, <2>4, <2>6
  <2>8. QED
    BY <2>1, <2>2, <2>5, <2>7 DEF LossInv
<1>8. CASE Clear
  <2>1. LoadedSeq' = LoadedSeq
    BY <1>8 DEF Clear, LoadedSeq, MessageCount
  <2>2. QED
    BY <1>8, <2>1, LossStays DEF Clear
<1>9. CASE Restart
  <2>1. /\ UNCHANGED <<rows, written, fails>>
        /\ loaded' = FALSE /\ restarts' = restarts + 1
    BY <1>9 DEF Restart
  <2>2. LoadedSeq' = MessageCount /\ Lost' = Lost /\ MessageCount' = MessageCount
    BY <2>1 DEF LoadedSeq, Lost, MessageCount, Elements
  <2>3. Cardinality(Pending') <= fails /\ Cardinality(Pending') \in Nat
    <3> DEFINE I == MessageCount + 1 .. MessageCount + fails
    <3>1. MessageCount + 1 \in Int /\ MessageCount + fails \in Int
      BY <1>1
    <3>2. IsFiniteSet(I) /\ Cardinality(I) = fails
      <4> DEFINE a == MessageCount + 1
                 b == MessageCount + fails
      <4>1. a \in Int /\ b \in Int /\ (a > b => fails = 0) /\ b - a + 1 = fails
        BY <1>1
      <4> HIDE DEF a, b
      <4>2. IsFiniteSet(a .. b) /\ Cardinality(a .. b) = IF a > b THEN 0 ELSE b - a + 1
        BY <4>1, FS_Interval
      <4>3. IsFiniteSet(a .. b) /\ Cardinality(a .. b) = fails
        BY <4>1, <4>2
      <4>4. QED
        BY <4>3 DEF a, b
    <3>3. Pending' \in SUBSET I
      <4>1. \A k \in DOMAIN rows : k > MessageCount => k \in I
        BY <1>1, <1>2
      <4>2. QED
        BY <2>1, <2>2, <4>1 DEF Pending
    <3> HIDE DEF I
    <3>4. QED
      BY <3>2, <3>3, FS_Subset, FS_CardinalityType
  <2>4. Cardinality(Lost) + Cardinality(Pending') <= fails * (restarts + 1)
    BY <1>1, <1>2, <1>3, <2>3
  <2>5. MessageCount <= MessageCount + fails
    BY <1>1
  <2>6. QED
    BY <1>2, <2>1, <2>2, <2>4, <2>5 DEF LossInv
<1>10. CASE UNCHANGED vars
  <2>1. UNCHANGED <<rows, seq, loaded, written, fails, restarts>>
    BY <1>10 DEF vars, bufferVars, historyVars
  <2>2. LoadedSeq' = LoadedSeq
    BY <2>1 DEF LoadedSeq, MessageCount
  <2>3. QED
    BY <2>1, <2>2, LossStays
<1>11. QED
  BY <1>4, <1>5, <1>6, <1>7, <1>8, <1>9, <1>10 DEF Next

\* What a session ever loses is at most one message for each failed write and
\* restart, for every window and any order of appends, loads, clears and restarts
\* (ConversationBuffer::append, load, MemoryStore::put_message).
THEOREM LossIsBounded == Spec => []LossBound
<1>1. TypeInv /\ LogInv /\ LossInv => LossBound
  <2> SUFFICES ASSUME TypeInv, LogInv, LossInv PROVE LossBound
    OBVIOUS
  <2>1. /\ Cardinality(Lost) \in Nat /\ Cardinality(Pending) \in Nat
        /\ fails \in Nat /\ restarts \in Nat
    BY LossTypes
  <2>2. fails * restarts \in Nat
    BY <2>1, FactorsGrow
  <2>3. Cardinality(Lost) + Cardinality(Pending) <= fails * restarts
    BY DEF LossInv
  <2>4. QED
    BY <2>1, <2>2, <2>3 DEF LossBound
<1>2. QED
  BY LogInvInit, LogInvNext, TypeInvInit, TypeInvNext, LossInvInit, LossInvNext, <1>1, PTL DEF Spec

-----------------------------------------------------------------------------
(***************************************************************************)
(* The refinement: every step of the session is a step of ConversationLog, *)
(* or leaves its log alone.                                                *)
(***************************************************************************)
LEMMA FunctionIsSequence ==
  ASSUME NEW n \in Nat, NEW V, NEW f \in [1 .. n -> V]
  PROVE  f \in Seq(V) /\ Len(f) = n
  OBVIOUS

\* What is read by seq is all rows.
LEMMA StoredRowsNow == RowsOK => Elements(Stored) = Elements(rows)
  BY StoredHasAllRows

\* So it is after a step.
LEMMA StoredRowsNext ==
  ASSUME RowsOK'
  PROVE  Elements(Stored') = Elements(rows')
<1>1. (RowsOK => Elements(Stored) = Elements(rows))'
  BY StoredRowsNow, PTL
<1>2. QED
  BY <1>1 DEF Elements

\* What is read by seq depends on the rows only.
LEMMA SameStored ==
  ASSUME UNCHANGED rows
  PROVE  Stored' = Stored
  BY DEF Stored, MessageCount

\* While the promise is kept an append puts its message behind all others.
LEMMA AppendIsAppend ==
  ASSUME TypeInv, LogInv, intact, AppendOk
  PROVE  Log!AppendMessage(calls + 1) /\ calls + 1 \in Message
<1> DEFINE m == calls + 1
           s == LoadedSeq + 1
           D == DOMAIN rows
<1>1. /\ PutMessage(m, s) /\ intact' = intact /\ calls < MaxCalls
  BY DEF AppendOk
<1>2. /\ m \in Message /\ m \in Nat /\ LoadedSeq \in Nat /\ s \in Nat
  BY <1>1, CountWithinCalls, SizesAssumption DEF Message, LogInv, RowsOK
<1>3. /\ IsFiniteSet(D) /\ D \subseteq Nat /\ MessageCount \in Nat
      /\ \A k \in D : k < s
  <2>1. \A k \in D : k <= LoadedSeq
    BY NextSeqBeyondRows
  <2>2. QED
    BY <1>2, <2>1, CountIsNat DEF LogInv, RowsOK
<1>4. s \notin D
  BY <1>2, <1>3
<1> HIDE DEF m, s
<1>5. /\ DOMAIN rows' = D \cup {s}
      /\ rows'[s] = m
      /\ \A k \in D : rows'[k] = rows[k]
  BY <1>1, <1>4, PutMessageAdds
<1> HIDE DEF D
<1>6. /\ Cardinality(D \cup {s}) = Cardinality(D) + 1
      /\ \A i \in 1 .. Cardinality(D) : Nth(D \cup {s}, i) = Nth(D, i)
      /\ Nth(D \cup {s}, Cardinality(D) + 1) = s
  BY <1>2, <1>3, LastPlace
<1>7. MessageCount = Cardinality(D) /\ MessageCount' = MessageCount + 1
  BY <1>5, <1>6 DEF MessageCount, D
<1>8. \A i \in 1 .. MessageCount : Nth(D, i) \in D
  BY <1>3, <1>7, NthIsAtItsPlace
<1>9. /\ Stored \in Seq(Message) /\ Len(Stored) = MessageCount
      /\ \A i \in 1 .. MessageCount : Stored[i] = rows[Nth(D, i)]
  <2>1. RowsOK /\ \A k \in DOMAIN rows : rows[k] \in Message
    BY DEF LogInv, TypeInv, TypeOK
  <2>2. Stored \in Seq(Message) /\ Len(Stored) = MessageCount
    BY <2>1, StoredIsSequence
  <2>3. QED
    BY <2>2 DEF Stored, D
<1>10. /\ Stored' = [i \in 1 .. MessageCount + 1 |-> rows'[Nth(D \cup {s}, i)]]
  BY <1>5, <1>7 DEF Stored
<1>11. ASSUME NEW i \in 1 .. MessageCount + 1
       PROVE  Stored'[i] = Append(Stored, m)[i] /\ Stored'[i] \in Message
  <2>1. Stored'[i] = rows'[Nth(D \cup {s}, i)]
    BY <1>10, <1>11
  <2>2. CASE i = MessageCount + 1
    <3>1. Stored'[i] = m
      BY <1>5, <1>6, <1>7, <2>1, <2>2
    <3>2. Append(Stored, m)[i] = m
      BY <1>2, <1>9, <2>2
    <3>3. QED
      BY <1>2, <3>1, <3>2
  <2>3. CASE i # MessageCount + 1
    <3>1. i \in 1 .. MessageCount
      BY <1>3, <2>3
    <3>2. Stored'[i] = rows'[Nth(D, i)] /\ Nth(D, i) \in D
      BY <1>6, <1>7, <1>8, <2>1, <3>1
    <3>3. Stored'[i] = Stored[i]
      BY <1>5, <1>9, <3>1, <3>2
    <3>4. Append(Stored, m)[i] = Stored[i] /\ Stored[i] \in Message
      BY <1>2, <1>9, <3>1
    <3>5. QED
      BY <3>3, <3>4
  <2>4. QED
    BY <2>2, <2>3
<1>12. /\ Append(Stored, m) \in Seq(Message) /\ Len(Append(Stored, m)) = MessageCount + 1
  BY <1>2, <1>9
<1>13. Stored' \in Seq(Message) /\ Len(Stored') = MessageCount + 1
  <2>1. MessageCount + 1 \in Nat
    BY <1>3
  <2>2. \A i \in 1 .. MessageCount + 1 : rows'[Nth(D \cup {s}, i)] \in Message
    BY <1>10, <1>11
  <2> DEFINE q == [i \in 1 .. MessageCount + 1 |-> rows'[Nth(D \cup {s}, i)]]
  <2>3. q \in [1 .. MessageCount + 1 -> Message]
    BY <2>2
  <2> HIDE DEF q
  <2>4. Stored' = q
    BY <1>10 DEF q
  <2>5. QED
    BY <2>1, <2>3, <2>4, FunctionIsSequence
<1>14. Stored' = Append(Stored, m)
  BY <1>11, <1>12, <1>13, SeqEqual
<1>15. QED
  BY <1>1, <1>2, <1>14 DEF Log!AppendMessage, m

\* Afterwards it displaces one message at most.
LEMMA AppendDisplacesOne ==
  ASSUME TypeInv, LogInv, LogInv', ~intact, AppendOk
  PROVE  Log!AppendDisplacing(calls + 1) /\ calls + 1 \in Message
<1> DEFINE m == calls + 1
           s == LoadedSeq + 1
<1>1. PutMessage(m, s) /\ intact' = intact /\ calls < MaxCalls
  BY DEF AppendOk
<1>2. m \in Message
  BY <1>1, SizesAssumption DEF Message, LogInv, RowsOK
<1> HIDE DEF m, s
<1>3. /\ DOMAIN rows' = DOMAIN rows \cup {s}
      /\ rows'[s] = m
      /\ \A k \in DOMAIN rows : k # s => rows'[k] = rows[k]
  BY <1>1 DEF PutMessage
<1>4. /\ m \in Elements(rows')
      /\ Elements(rows') \subseteq Elements(rows) \cup {m}
      /\ Elements(rows) \ Elements(rows') \subseteq {rows[s]}
  BY <1>3 DEF Elements
<1>5. Elements(Stored) = Elements(rows) /\ Elements(Stored') = Elements(rows')
  BY StoredHasAllRows, StoredRowsNext DEF LogInv
<1>6. Cardinality(Elements(Stored) \ Elements(Stored')) <= 1
  <2> DEFINE x == rows[s]
             gone == Elements(Stored) \ Elements(Stored')
  <2>1. gone \in SUBSET {x}
    BY <1>4, <1>5
  <2> HIDE DEF x, gone
  <2>2. IsFiniteSet({x}) /\ Cardinality({x}) = 1
    BY FS_Singleton
  <2>3. Cardinality(gone) <= 1
    BY <2>1, <2>2, FS_Subset
  <2>4. QED
    BY <2>3 DEF gone
<1>7. \A q : Log!Elements(q) = Elements(q)
  BY DEF Log!Elements, Elements
<1>8. /\ m \in Log!Elements(Stored')
      /\ Log!Elements(Stored') \subseteq Log!Elements(Stored) \cup {m}
      /\ Cardinality(Log!Elements(Stored) \ Log!Elements(Stored')) <= 1
  <2>1. Log!Elements(Stored) = Elements(Stored) /\ Log!Elements(Stored') = Elements(Stored')
    BY <1>7
  <2>2. QED
    BY <1>4, <1>5, <1>6, <2>1
<1>9. Log!AppendDisplacing(m)
  <2>1. \A S : Log!Cardinality(S) = Cardinality(S)
    BY DEF Log!Cardinality, Cardinality
  <2>2. QED
    BY <1>1, <1>8, <2>1 DEF Log!AppendDisplacing
<1>10. QED
  BY <1>2, <1>9 DEF m

\* A session without rows is an empty log.
LEMMA LogInitHolds == Init => Log!LogInit
<1> SUFFICES ASSUME Init PROVE Log!LogInit
  OBVIOUS
<1>1. DOMAIN rows = {}
  BY DEF Init
<1>2. MessageCount = 0
  BY <1>1, FS_EmptySet DEF MessageCount
<1>3. Stored = <<>>
  BY <1>2 DEF Stored
<1>4. QED
  BY <1>3 DEF Init, Log!LogInit

\* Every step is a step of the log, or none.
LEMMA LogStepHolds ==
  TypeInv /\ LogInv /\ LogInv' /\ [Next]_vars => [Log!LogNext]_(Log!logVars)
<1> SUFFICES ASSUME TypeInv, LogInv, LogInv', [Next]_vars PROVE [Log!LogNext]_(Log!logVars)
  OBVIOUS
<1>1. ASSUME UNCHANGED <<rows, intact>> PROVE UNCHANGED Log!logVars
  BY <1>1, SameStored DEF Log!logVars
<1>2. CASE Load
  BY <1>1, <1>2 DEF Load, historyVars
<1>3. CASE LoadFails
  BY <1>1, <1>3 DEF LoadFails, historyVars
<1>4. CASE AppendOk
  <2>1. CASE intact
    BY <1>4, <2>1, AppendIsAppend DEF Log!LogNext
  <2>2. CASE ~intact
    BY <1>4, <2>2, AppendDisplacesOne DEF Log!LogNext
  <2>3. QED
    BY <2>1, <2>2
<1>5. CASE AppendPutFails
  BY <1>1, <1>5 DEF AppendPutFails
<1>6. CASE Clear
  BY <1>1, <1>6 DEF Clear
<1>7. CASE Restart
  <2>1. UNCHANGED rows /\ intact' = (intact /\ Contiguous) /\ Stored' = Stored
    BY <1>7, SameStored DEF Restart
  <2>2. intact \in BOOLEAN
    BY DEF LogInv, RowsOK
  <2>3. CASE intact /\ ~Contiguous
    BY <2>1, <2>3 DEF Log!LogNext, Log!LosePromise
  <2>4. CASE ~(intact /\ ~Contiguous)
    BY <1>1, <2>1, <2>2, <2>4
  <2>5. QED
    BY <2>3, <2>4
<1>8. CASE UNCHANGED vars
  BY <1>1, <1>8 DEF vars, bufferVars, historyVars
<1>9. QED
  BY <1>2, <1>3, <1>4, <1>5, <1>6, <1>7, <1>8 DEF Next

\* The rows of a session, read by seq, are a ConversationLog: append-only until a
\* restart finds a gap, and after that no append displaces more than one message
\* (ConversationBuffer::append, MemoryStore::put_message, get_messages).
THEOREM ImplementsLog == Spec => RefinesLog
  BY LogInvInit, LogInvNext, TypeInvInit, TypeInvNext, LogInitHolds, LogStepHolds, PTL
     DEF Spec, RefinesLog, Log!LogSpec

-----------------------------------------------------------------------------
(***************************************************************************)
(* When the window is recent.  The first rows by seq are all rows as long  *)
(* as there are no more than the window holds; and before a restart        *)
(* load() finds no rows at all.                                            *)
(***************************************************************************)
RecentInv ==
  /\ restarts = 0 /\ ~loaded => MessageCount = 0
  /\ intact /\ (restarts = 0 \/ MessageCount <= MaxMessages)
       => TailAgrees(messages, Stored, Len(messages))

\* The rows are read as a sequence of messages.
LEMMA StoredMessages ==
  ASSUME LogInv, TypeInv
  PROVE  /\ MessageCount \in Nat
         /\ Stored \in Seq(Message)
         /\ Len(Stored) = MessageCount
<1>1. RowsOK /\ \A k \in DOMAIN rows : rows[k] \in Message
  BY DEF LogInv, TypeInv, TypeOK
<1>2. QED
  BY <1>1, StoredIsSequence

\* A sequence ends as it does.
LEMMA OwnTail ==
  ASSUME NEW V, NEW s \in Seq(V)
  PROVE  TailAgrees(s, s, Len(s)) /\ LastN(s, Len(s)) = s
<1>1. Len(s) \in Nat
  OBVIOUS
<1>2. TailAgrees(s, s, Len(s))
  BY <1>1 DEF TailAgrees
<1>3. /\ LastN(s, Len(s)) \in Seq(V)
      /\ Len(LastN(s, Len(s))) = Len(s)
      /\ \A i \in 1 .. Len(s) : LastN(s, Len(s))[i] = s[Len(s) - Len(s) + i]
  BY <1>1, LastNWithin
<1>4. ASSUME NEW i \in 1 .. Len(s) PROVE LastN(s, Len(s))[i] = s[i]
  <2>1. Len(s) - Len(s) + i = i
    BY <1>1
  <2>2. QED
    BY <1>3, <2>1
<1>5. QED
  BY <1>2, <1>3, <1>4, SeqEqual

\* load() reads all rows if they fit into the window.
LEMMA SmallIsReadWhole ==
  ASSUME LogInv, TypeInv, MessageCount <= MaxMessages
  PROVE  GetMessages(MaxMessages) = Stored
<1> DEFINE n == MessageCount
           s == Stored
<1>1. n \in Nat /\ s \in Seq(Message) /\ Len(s) = n /\ MaxMessages \in Nat /\ n <= MaxMessages
  BY StoredMessages, SizesAssumption
<1> HIDE DEF n, s
<1>2. (IF MaxMessages < Len(s) THEN MaxMessages ELSE Len(s)) = n
  BY <1>1
<1>3. SubSeq(s, 1, n) = s
  <2>1. SubSeq(s, 1, n) \in Seq(Message) /\ Len(SubSeq(s, 1, n)) = n
        /\ \A i \in 1 .. n : SubSeq(s, 1, n)[i] = s[i]
    BY <1>1
  <2>2. QED
    BY <1>1, <2>1, SeqEqual
<1>4. QED
  BY <1>2, <1>3 DEF GetMessages, s

\* What an append or a load puts its message behind is the end of the log.
LEMMA LoadedIsRecent ==
  ASSUME LogInv, TypeInv, RecentInv, intact, restarts = 0 \/ MessageCount <= MaxMessages
  PROVE  /\ TailAgrees(LoadedMessages, Stored, Len(LoadedMessages))
         /\ ~loaded => TailAgrees(GetMessages(MaxMessages), Stored, Len(GetMessages(MaxMessages)))
<1>1. CASE loaded
  BY <1>1 DEF RecentInv, LoadedMessages
<1>2. CASE ~loaded
  <2>1. MessageCount <= MaxMessages
    BY <1>2, SizesAssumption DEF RecentInv
  <2>2. GetMessages(MaxMessages) = Stored /\ Stored \in Seq(Message)
    BY <2>1, SmallIsReadWhole, StoredMessages
  <2>3. QED
    BY <1>2, <2>2, OwnTail DEF LoadedMessages
<1>3. QED
  BY <1>1, <1>2

\* A step that leaves the rows alone and whose window is empty or was read.
LEMMA RecentStays ==
  ASSUME LogInv, TypeInv, TypeInv', RecentInv, UNCHANGED <<rows, restarts, intact>>,
         loaded => loaded',
         \/ messages' = messages
         \/ messages' = LoadedMessages
         \/ ~loaded /\ messages' = GetMessages(MaxMessages)
         \/ messages' = <<>>
  PROVE  RecentInv'
<1>1. Stored' = Stored /\ MessageCount' = MessageCount
  BY SameStored DEF MessageCount
<1>2. restarts' = 0 /\ ~loaded' => MessageCount' = 0
  BY <1>1 DEF RecentInv
<1>3. ASSUME intact', restarts' = 0 \/ MessageCount' <= MaxMessages
      PROVE  TailAgrees(messages', Stored', Len(messages'))
  <2>1. intact /\ (restarts = 0 \/ MessageCount <= MaxMessages)
    BY <1>1, <1>3
  <2>2. CASE messages' = messages
    BY <1>1, <2>1, <2>2 DEF RecentInv
  <2>3. CASE messages' = LoadedMessages \/ (~loaded /\ messages' = GetMessages(MaxMessages))
    BY <1>1, <2>1, <2>3, LoadedIsRecent
  <2>4. CASE messages' = <<>>
    <3>1. messages' \in Seq(Message) /\ Len(messages') = 0 /\ Stored \in Seq(Message)
      BY <2>4, StoredMessages
    <3>2. TailAgrees(messages', Stored, 0)
      BY <3>1, NoTail
    <3>3. QED
      BY <1>1, <3>1, <3>2
  <2>5. QED
    BY <2>2, <2>3, <2>4
<1>4. QED
  BY <1>2, <1>3 DEF RecentInv, TailAgrees

\* A new session has no rows and no window.
LEMMA RecentInvInit == Init => RecentInv
<1> SUFFICES ASSUME Init PROVE RecentInv
  OBVIOUS
<1>1. LogInv /\ TypeInv /\ messages = <<>> /\ Len(messages) = 0 /\ messages \in Seq(Message)
  BY LogInvInit, TypeInvInit DEF Init
<1>2. DOMAIN rows = {}
  BY DEF Init
<1>3. MessageCount = 0
  BY <1>2, FS_EmptySet DEF MessageCount
<1>4. TailAgrees(messages, Stored, Len(messages))
  BY <1>1, StoredMessages, NoTail
<1>5. QED
  BY <1>3, <1>4 DEF RecentInv

\* Every step keeps it.
LEMMA RecentInvNext ==
  LogInv /\ TypeInv /\ TypeInv' /\ RecentInv /\ [Next]_vars => RecentInv'
<1> SUFFICES ASSUME LogInv, TypeInv, TypeInv', RecentInv, [Next]_vars PROVE RecentInv'
  OBVIOUS
<1>1. CASE Load
  BY <1>1, RecentStays DEF Load, historyVars
<1>2. CASE LoadFails
  BY <1>2, RecentStays DEF LoadFails, historyVars
<1>3. CASE AppendOk
  <2> DEFINE m == calls + 1
             s == LoadedMessages
             n == Len(s)
             k == IF n + 1 < MaxMessages THEN n + 1 ELSE MaxMessages
  <2>1. /\ messages' = LastN(Append(s, m), MaxMessages)
        /\ loaded' = TRUE /\ UNCHANGED <<restarts, intact>>
        /\ calls < MaxCalls
    BY <1>3 DEF AppendOk
  <2>2. m \in Message /\ MaxMessages \in Nat
    BY <2>1, SizesAssumption DEF Message, TypeInv, TypeOK
  <2>3. s \in Seq(Message) /\ Stored \in Seq(Message) /\ Len(Stored) = MessageCount
        /\ MessageCount \in Nat
    BY LoadedMessagesType, StoredMessages
  <2> HIDE DEF m, s
  <2>4. ASSUME intact', restarts' = 0 \/ MessageCount' <= MaxMessages
        PROVE  TailAgrees(messages', Stored', Len(messages'))
    <3>1. Stored' = Append(Stored, m)
      BY <1>3, <2>1, <2>4, AppendIsAppend DEF Log!AppendMessage, m
    <3>2. MessageCount' \in Nat /\ MessageCount <= MessageCount'
      <4>1. LogInv'
        BY LogInvNext
      <4>2. (LogInv /\ TypeInv => Len(Stored) = MessageCount /\ MessageCount \in Nat)'
        BY StoredMessages, PTL
      <4>3. Len(Stored') = MessageCount' /\ MessageCount' \in Nat
        BY <4>1, <4>2
      <4>4. Len(Append(Stored, m)) = MessageCount + 1
        BY <2>2, <2>3
      <4>5. QED
        BY <2>3, <3>1, <4>3, <4>4
    <3>3. intact /\ (restarts = 0 \/ MessageCount <= MaxMessages)
      BY <2>1, <2>2, <2>3, <2>4, <3>2
    <3>4. TailAgrees(s, Stored, n) /\ n \in Nat
      BY <2>3, <3>3, LoadedIsRecent DEF s
    <3>5. k \in Nat /\ k <= n + 1 /\ k <= MaxMessages
      BY <2>2, <3>4
    <3>6. TailAgrees(LastN(Append(s, m), MaxMessages), Append(Stored, m), k)
      BY <2>2, <2>3, <3>4, <3>5, TailAppend
    <3>7. Len(LastN(Append(s, m), MaxMessages)) = k
      <4>1. Append(s, m) \in Seq(Message) /\ Len(Append(s, m)) = n + 1
        BY <2>2, <2>3
      <4>2. Len(LastN(Append(s, m), MaxMessages))
              = IF MaxMessages < n + 1 THEN MaxMessages ELSE n + 1
        BY <2>2, <4>1, LastNIsTheEnd
      <4>3. QED
        BY <2>2, <3>4, <4>2
    <3>8. QED
      BY <2>1, <3>1, <3>6, <3>7
  <2>5. QED
    BY <2>1, <2>4 DEF RecentInv, TailAgrees
<1>4. CASE AppendPutFails
  BY <1>4, RecentStays DEF AppendPutFails
<1>5. CASE Clear
  BY <1>5, RecentStays DEF Clear
<1>6. CASE Restart
  <2>1. messages' = <<>> /\ restarts' # 0 /\ UNCHANGED rows
    BY <1>6 DEF Restart, TypeInv, TypeOK
  <2>2. Stored' = Stored /\ Stored \in Seq(Message)
    BY <2>1, SameStored, StoredMessages
  <2>3. messages' \in Seq(Message) /\ Len(messages') = 0
    BY <2>1
  <2>4. TailAgrees(messages', Stored, 0)
    BY <2>2, <2>3, NoTail
  <2>5. QED
    BY <2>1, <2>2, <2>3, <2>4 DEF RecentInv, TailAgrees
<1>7. CASE UNCHANGED vars
  BY <1>7, RecentStays DEF vars, bufferVars, historyVars
<1>8. QED
  BY <1>1, <1>2, <1>3, <1>4, <1>5, <1>6, <1>7 DEF Next

\* The window is the end of the session's log until the first restart, and after it as long as
\* the session fits into the window: load() reads the first rows, which then are all, and
\* only a session that has outgrown its window is shown old messages (ConversationBuffer::load).
THEOREM WindowRecentWhileSmall == Spec => []WindowRecentUntilFull
<1>1. LogInv /\ TypeInv /\ RecentInv => WindowRecentUntilFull
  <2> SUFFICES ASSUME LogInv, TypeInv, RecentInv,
                      intact, restarts = 0 \/ MessageCount <= MaxMessages
               PROVE  messages = LastN(Stored, Len(messages))
    BY DEF WindowRecentUntilFull
  <2>1. messages \in Seq(Message) /\ Stored \in Seq(Message) /\ Len(messages) \in Nat
    BY StoredMessages DEF TypeInv, TypeOK
  <2>2. TailAgrees(messages, Stored, Len(messages))
    BY DEF RecentInv
  <2>3. LastN(messages, Len(messages)) = LastN(Stored, Len(messages))
    BY <2>1, <2>2, EqualTails
  <2>4. QED
    BY <2>1, <2>3, OwnTail
<1>2. QED
  BY LogInvInit, LogInvNext, TypeInvInit, TypeInvNext, RecentInvInit, RecentInvNext, <1>1, PTL DEF Spec

=============================================================================
