--------------------------- MODULE SequenceLemmas ---------------------------
(***************************************************************************)
(* Induction over the naturals for sets instead of operators: what an      *)
(* inductive argument is about is the set of the numbers it holds for.     *)
(* With it, recursive functions, and the elements Selected from a sequence.*)
(***************************************************************************)
EXTENDS Selection, Integers, SequencesExt, SequenceTheorems, FiniteSetTheorems, WellFoundedInduction,
        TLAPS

\* A set of naturals that is not empty has a least element.
LEMMA LeastElement ==
  ASSUME NEW T, T \subseteq Nat, T # {}
  PROVE  \E x \in T : \A y \in T : x <= y
<1>1. PICK x \in T : \A y \in T : ~(<<y, x>> \in OpToRel(<, Nat))
  BY NatLessThanWellFounded, WFMin
<1>2. ASSUME NEW y \in T PROVE x <= y
  <2>1. ~(y < x)
    BY <1>1 DEF OpToRel
  <2>2. QED
    BY <2>1
<1>3. QED
  BY <1>2

\* A set that has 0 and with each number up to b the next one has all of them.
LEMMA InductionUpTo ==
  ASSUME NEW b \in Nat, NEW S, 0 \in S, \A n \in 0 .. b - 1 : n \in S => n + 1 \in S
  PROVE  0 .. b \subseteq S
<1> DEFINE T == (0 .. b) \ S
<1>1. SUFFICES ASSUME T # {} PROVE FALSE
  OBVIOUS
<1>2. PICK x \in T : \A y \in T : x <= y
  <2>1. T \subseteq Nat
    OBVIOUS
  <2>2. QED
    BY <1>1, <2>1, LeastElement
<1>3. x \in 0 .. b /\ x # 0 /\ x - 1 \in 0 .. b - 1 /\ x - 1 \in 0 .. b
  BY <1>2
<1>4. x - 1 \in S
  BY <1>2, <1>3
<1>5. x - 1 + 1 \in S
  BY <1>3, <1>4
<1>6. QED
  BY <1>2, <1>3, <1>5

-----------------------------------------------------------------------------
(* Recursive functions.                                                    *)

Recursive(f, b, V, init, step) ==
  f \in [0 .. b -> V] /\ f[0] = init /\ \A n \in 1 .. b : f[n] = step[n][f[n - 1]]

\* A function is defined by its first value and the step from each value to the next.
LEMMA Recursion ==
  ASSUME NEW b \in Nat, NEW V, NEW init \in V, NEW step \in [1 .. b -> [V -> V]]
  PROVE  \E f : Recursive(f, b, V, init, step)
<1> DEFINE Part(n, f) == f[0] = init /\ \A m \in 1 .. n : f[m] = step[m][f[m - 1]]
           Good == {n \in 0 .. b : \E f \in [0 .. n -> V] : Part(n, f)}
<1>1. 0 \in Good
  <2> DEFINE f == [m \in 0 .. 0 |-> init]
  <2>1. f \in [0 .. 0 -> V] /\ Part(0, f)
    OBVIOUS
  <2> HIDE DEF f
  <2>2. \E h \in [0 .. 0 -> V] : Part(0, h)
    BY <2>1
  <2>3. QED
    BY <2>2
<1>2. ASSUME NEW n \in 0 .. b - 1, n \in Good PROVE n + 1 \in Good
  <2>1. PICK f \in [0 .. n -> V] : Part(n, f)
    BY <1>2
  <2> DEFINE g == [m \in 0 .. n + 1 |-> IF m = n + 1 THEN step[n + 1][f[n]] ELSE f[m]]
  <2>2. n \in Nat /\ n + 1 \in 1 .. b /\ n \in 0 .. n /\ f[n] \in V
    OBVIOUS
  <2>3. step[n + 1][f[n]] \in V
    BY <2>2
  <2>4. g \in [0 .. n + 1 -> V]
    BY <2>2, <2>3
  <2>5. g[0] = init
    BY <2>1, <2>2
  <2>6. ASSUME NEW m \in 1 .. n + 1 PROVE g[m] = step[m][g[m - 1]]
    <3>1. CASE m = n + 1
      <4>1. m - 1 = n /\ g[m - 1] = f[n]
        BY <2>2, <3>1
      <4>2. QED
        BY <2>2, <3>1, <4>1
    <3>2. CASE m # n + 1
      <4>1. m \in 1 .. n /\ m - 1 \in 0 .. n /\ m - 1 # n + 1
        BY <2>2, <3>2
      <4>2. g[m] = f[m] /\ g[m - 1] = f[m - 1]
        BY <2>2, <4>1
      <4>3. QED
        BY <2>1, <4>1, <4>2
    <3>3. QED
      BY <3>1, <3>2
  <2> HIDE DEF g
  <2>7. \E h \in [0 .. n + 1 -> V] : Part(n + 1, h)
    BY <2>4, <2>5, <2>6
  <2>8. QED
    BY <2>2, <2>7
<1>3. b \in Good
  <2>1. 0 .. b \subseteq Good
    BY <1>1, <1>2, InductionUpTo
  <2>2. QED
    BY <2>1
<1>4. QED
  BY <1>3 DEF Recursive

-----------------------------------------------------------------------------
(* Selected.                                                               *)

\* What is selected are the elements at the positions, in their order.
IsSelection(s, K, t) ==
  \E at \in [1 .. Len(t) -> K] :
    /\ \A i \in 1 .. Len(t) : t[i] = s[at[i]]
    /\ \A i, j \in 1 .. Len(t) : i < j => at[i] < at[j]
    /\ \A n \in K : \E i \in 1 .. Len(t) : at[i] = n

\* What is selected is those elements, each once, in their order.
LEMMA SelectedParts ==
  ASSUME NEW S, NEW s \in Seq(S), NEW K \in SUBSET DOMAIN s
  PROVE  Selected(s, K) \in Seq(S) /\ IsSelection(s, K, Selected(s, K))
<1> DEFINE len == Len(s)
           rec(g, n) == CASE n = 0  -> <<>>
                          [] n \in K -> Append(g[n - 1], s[n])
                          [] OTHER  -> g[n - 1]
           step == [n \in 1 .. len |-> [t \in Seq(S) |-> IF n \in K THEN Append(t, s[n]) ELSE t]]
<1>1. len \in Nat /\ DOMAIN s = 1 .. len /\ 0 \notin K /\ \A n \in 1 .. len : s[n] \in S
  OBVIOUS
<1>2. PICK g \in [0 .. len -> Seq(S)] :
        g[0] = <<>> /\ \A n \in 1 .. len : g[n] = step[n][g[n - 1]]
  <2> DEFINE V == Seq(S)
             init == <<>>
  <2>1. step \in [1 .. len -> [V -> V]]
    BY <1>1
  <2>2. init \in V
    OBVIOUS
  <2> HIDE DEF step, V, init
  <2>3. \E g : Recursive(g, len, V, init, step)
    BY <1>1, <2>1, <2>2, Recursion
  <2>4. QED
    BY <2>3 DEF V, init, Recursive
<1>3. \A n \in 0 .. len : g[n] = rec(g, n)
  <2>1. ASSUME NEW n \in 1 .. len PROVE g[n] = IF n \in K THEN Append(g[n - 1], s[n]) ELSE g[n - 1]
    <3>1. n - 1 \in 0 .. len /\ g[n - 1] \in Seq(S)
      BY <1>1
    <3>2. QED
      BY <1>2, <3>1
  <2> HIDE DEF step
  <2>2. SUFFICES ASSUME NEW n \in 0 .. len PROVE g[n] = rec(g, n)
    OBVIOUS
  <2>3. CASE n = 0
    BY <1>2, <2>3
  <2>4. CASE n # 0
    <3>1. n \in 1 .. len
      BY <1>1, <2>4
    <3>2. g[n] = IF n \in K THEN Append(g[n - 1], s[n]) ELSE g[n - 1]
      BY <2>1, <3>1
    <3>3. QED
      BY <2>4, <3>2
  <2>5. QED
    BY <2>3, <2>4
<1>4. PICK f : f = [n \in 0 .. len |-> rec(f, n)] /\ Selected(s, K) = f[len]
  <2> DEFINE Rec(h) == h = [n \in 0 .. len |-> rec(h, n)]
             f == CHOOSE h : Rec(h)
  <2>1. Rec(f)
    <3>1. Rec(g)
      <4>1. g = [n \in 0 .. len |-> g[n]]
        OBVIOUS
      <4>2. QED
        BY <1>3, <4>1
    <3> HIDE DEF Rec
    <3>2. QED
      BY <3>1
  <2>2. Selected(s, K) = f[len]
    BY DEF Selected
  <2>3. QED
    BY <2>1, <2>2
<1>5. \A n \in 0 .. len : f[n] = rec(f, n)
  BY <1>4
<1> DEFINE Good == {n \in 0 .. len : f[n] \in Seq(S) /\ IsSelection(s, K \cap (1 .. n), f[n])}
<1>6. 0 \in Good
  <2>1. f[0] = <<>>
    BY <1>1, <1>5
  <2>2. K \cap (1 .. 0) = {} /\ 1 .. Len(f[0]) = {}
    BY <2>1
  <2>3. f[0] \in Seq(S)
    BY <2>1
  <2>4. [i \in {} |-> i] \in [{} -> {}]
    OBVIOUS
  <2>5. IsSelection(s, K \cap (1 .. 0), f[0])
    BY <2>2, <2>4 DEF IsSelection
  <2>6. QED
    BY <1>1, <2>3, <2>5
<1>7. ASSUME NEW n \in 0 .. len - 1, n \in Good PROVE n + 1 \in Good
  <2>1. n \in Nat /\ n + 1 \in 1 .. len /\ n + 1 \in 0 .. len /\ n + 1 - 1 = n /\ n + 1 # 0
    BY <1>1
  <2>2. f[n] \in Seq(S) /\ IsSelection(s, K \cap (1 .. n), f[n])
    BY <1>7
  <2>3. CASE n + 1 \notin K
    <3>1. f[n + 1] = f[n]
      BY <1>5, <2>1, <2>3
    <3>2. K \cap (1 .. n + 1) = K \cap (1 .. n)
      BY <2>1, <2>3
    <3>3. QED
      BY <2>1, <2>2, <3>1, <3>2
  <2>4. CASE n + 1 \in K
    <3> DEFINE t == f[n]
               u == Append(t, s[n + 1])
    <3>1. f[n + 1] = u
      <4>1. f[n + 1] = rec(f, n + 1)
        BY <1>5, <2>1
      <4>2. rec(f, n + 1) = Append(f[n + 1 - 1], s[n + 1])
        BY <2>1, <2>4
      <4>3. QED
        BY <2>1, <4>1, <4>2
    <3>2. PICK at \in [1 .. Len(t) -> K \cap (1 .. n)] :
            /\ \A i \in 1 .. Len(t) : t[i] = s[at[i]]
            /\ \A i, j \in 1 .. Len(t) : i < j => at[i] < at[j]
            /\ \A k \in K \cap (1 .. n) : \E i \in 1 .. Len(t) : at[i] = k
      BY <2>2 DEF IsSelection
    <3>3. /\ Len(t) \in Nat /\ u \in Seq(S) /\ Len(u) = Len(t) + 1 /\ u[Len(t) + 1] = s[n + 1]
          /\ \A i \in 1 .. Len(t) : u[i] = t[i]
      BY <1>1, <2>1, <2>2
    <3> DEFINE to == [i \in 1 .. Len(t) + 1 |-> IF i = Len(t) + 1 THEN n + 1 ELSE at[i]]
    <3> HIDE DEF t, u
    <3>4. to \in [1 .. Len(t) + 1 -> K \cap (1 .. n + 1)]
      BY <2>1, <2>4, <3>2, <3>3
    <3>5. \A i \in 1 .. Len(t) : to[i] = at[i] /\ at[i] \in 1 .. n
      BY <3>2, <3>3
    <3>6. to[Len(t) + 1] = n + 1
      BY <3>3
    <3>7. \A i \in 1 .. Len(t) + 1 : u[i] = s[to[i]]
      BY <3>2, <3>3, <3>5, <3>6
    <3>8. ASSUME NEW i \in 1 .. Len(t) + 1, NEW j \in 1 .. Len(t) + 1, i < j
          PROVE  to[i] < to[j]
      <4>1. i \in 1 .. Len(t) /\ to[i] = at[i] /\ to[i] \in 1 .. n
        BY <3>3, <3>5, <3>8
      <4>2. CASE j = Len(t) + 1
        BY <2>1, <3>6, <4>1, <4>2
      <4>3. CASE j # Len(t) + 1
        <5>1. j \in 1 .. Len(t) /\ to[j] = at[j]
          BY <3>3, <3>5, <4>3
        <5>2. QED
          BY <3>2, <3>8, <4>1, <5>1
      <4>4. QED
        BY <4>2, <4>3
    <3>9. \A k \in K \cap (1 .. n + 1) : \E i \in 1 .. Len(t) + 1 : to[i] = k
      <4>1. SUFFICES ASSUME NEW k \in K \cap (1 .. n + 1)
                     PROVE  \E i \in 1 .. Len(t) + 1 : to[i] = k
        OBVIOUS
      <4>2. CASE k = n + 1
        BY <3>3, <3>6, <4>2
      <4>3. CASE k # n + 1
        <5>1. k \in K \cap (1 .. n)
          BY <2>1, <4>3
        <5>2. PICK i \in 1 .. Len(t) : at[i] = k
          BY <3>2, <5>1
        <5>3. QED
          BY <3>3, <3>5, <5>2
      <4>4. QED
        BY <4>2, <4>3
    <3> HIDE DEF to
    <3>10. IsSelection(s, K \cap (1 .. n + 1), u)
      <4> DEFINE size == Len(u)
      <4>1. size = Len(t) + 1
        BY <3>3
      <4> HIDE DEF size
      <4>2. /\ to \in [1 .. size -> K \cap (1 .. n + 1)]
            /\ \A i \in 1 .. size : u[i] = s[to[i]]
            /\ \A i, j \in 1 .. size : i < j => to[i] < to[j]
            /\ \A k \in K \cap (1 .. n + 1) : \E i \in 1 .. size : to[i] = k
        BY <3>4, <3>7, <3>8, <3>9, <4>1
      <4>3. QED
        BY <4>2 DEF IsSelection, size
    <3>11. QED
      BY <2>1, <3>1, <3>3, <3>10
  <2>5. QED
    BY <2>3, <2>4
<1>8. len \in Good
  <2>1. 0 .. len \subseteq Good
    BY <1>1, <1>6, <1>7, InductionUpTo
  <2>2. QED
    BY <1>1, <2>1
<1>9. K \cap (1 .. len) = K
  BY <1>1
<1>10. QED
  BY <1>4, <1>8, <1>9

\* Of a sequence no elements but its own are selected.
LEMMA SelectedOf ==
  ASSUME NEW S, NEW s \in Seq(S), NEW K \in SUBSET DOMAIN s
  PROVE  \A n \in DOMAIN Selected(s, K) : \E m \in K : Selected(s, K)[n] = s[m]
<1>1. Selected(s, K) \in Seq(S) /\ IsSelection(s, K, Selected(s, K))
  BY SelectedParts
<1> HIDE DEF Selected
<1>2. PICK t : t = Selected(s, K)
  OBVIOUS
<1>3. DOMAIN t = 1 .. Len(t)
  BY <1>1, <1>2
<1>4. QED
  BY <1>1, <1>2, <1>3 DEF IsSelection

\* A sequence with one more element is the other one with it appended.
LEMMA IsAppend ==
  ASSUME NEW S, NEW t \in Seq(S), NEW u \in Seq(S), NEW x \in S,
         Len(u) = Len(t) + 1, u[Len(u)] = x, \A i \in 1 .. Len(t) : u[i] = t[i]
  PROVE  u = Append(t, x)
<1> DEFINE a == Append(t, x)
<1>1. a \in Seq(S) /\ Len(a) = Len(t) + 1 /\ a[Len(t) + 1] = x
  OBVIOUS
<1>2. \A i \in 1 .. Len(t) : a[i] = t[i]
  OBVIOUS
<1>3. Len(u) = Len(a) /\ \A i \in 1 .. Len(u) : u[i] = a[i]
  BY <1>1, <1>2
<1> HIDE DEF a
<1>4. u = a
  BY <1>1, <1>3
<1>5. QED
  BY <1>4 DEF a

\* To select all that comes after d is to drop the first d.
LEMMA SelectedRest ==
  ASSUME NEW S, NEW s \in Seq(S), NEW d \in 0 .. Len(s), NEW K \in SUBSET DOMAIN s,
         \A n \in 1 .. Len(s) : n \in K <=> n > d
  PROVE  Selected(s, K) = [i \in 1 .. Len(s) - d |-> s[d + i]]
<1> DEFINE len == Len(s)
           kept(n) == IF n > d THEN n - d ELSE 0
           step(g, n) == CASE n = 0  -> <<>>
                           [] n \in K -> Append(g[n - 1], s[n])
                           [] OTHER  -> g[n - 1]
<1>1. len \in Nat /\ d \in Nat /\ d <= len /\ 0 \notin K
      /\ \A n \in 1 .. len : s[n] \in S
  OBVIOUS
<1>2. PICK rest : rest = [n \in 0 .. len |-> [i \in 1 .. kept(n) |-> s[d + i]]]
  OBVIOUS
<1>3. ASSUME NEW n \in 0 .. len
      PROVE  /\ rest[n] \in Seq(S) /\ Len(rest[n]) = kept(n)
             /\ \A i \in 1 .. kept(n) : rest[n][i] = s[d + i]
  <2>1. rest[n] = [i \in 1 .. kept(n) |-> s[d + i]]
    BY <1>2
  <2>2. kept(n) \in Nat /\ \A i \in 1 .. kept(n) : d + i \in 1 .. len
    BY <1>1
  <2>3. \A i \in 1 .. kept(n) : s[d + i] \in S
    BY <1>1, <2>2
  <2>4. QED
    BY <2>1, <2>2, <2>3
<1>4. ASSUME NEW n \in 0 .. len PROVE rest[n] = step(rest, n)
  <2>1. CASE n = 0
    <3>1. rest[n] = <<>>
      BY <1>1, <1>3, <2>1
    <3>2. QED
      BY <2>1, <3>1
  <2>2. CASE n # 0 /\ n > d
    <3>1. n - 1 \in 0 .. len /\ n \in K /\ s[n] \in S
      BY <1>1, <2>2
    <3>2. PICK q \in Nat : kept(n - 1) = q /\ kept(n) = q + 1 /\ d + (q + 1) = n
      <4>1. n - 1 - d \in Nat /\ kept(n - 1) = n - 1 - d /\ kept(n) = n - d
        BY <1>1, <2>2
      <4>2. QED
        BY <1>1, <4>1
    <3> HIDE DEF kept
    <3>3. rest[n] = Append(rest[n - 1], s[n])
      <4>1. /\ rest[n] \in Seq(S) /\ Len(rest[n]) = q + 1
            /\ \A i \in 1 .. q + 1 : rest[n][i] = s[d + i]
        BY <1>3, <3>2
      <4>2. /\ rest[n - 1] \in Seq(S) /\ Len(rest[n - 1]) = q
            /\ \A i \in 1 .. q : rest[n - 1][i] = s[d + i]
        BY <1>3, <3>1, <3>2
      <4>3. q + 1 \in 1 .. q + 1 /\ \A i \in 1 .. q : i \in 1 .. q + 1
        OBVIOUS
      <4>4. rest[n][q + 1] = s[n]
        BY <3>2, <4>1, <4>3
      <4>5. \A i \in 1 .. q : rest[n][i] = rest[n - 1][i]
        BY <4>1, <4>2, <4>3
      <4>6. /\ Len(rest[n]) = Len(rest[n - 1]) + 1 /\ rest[n][Len(rest[n])] = s[n]
            /\ \A i \in 1 .. Len(rest[n - 1]) : rest[n][i] = rest[n - 1][i]
        BY <4>1, <4>2, <4>4, <4>5
      <4>7. rest[n] \in Seq(S) /\ rest[n - 1] \in Seq(S) /\ s[n] \in S
        BY <3>1, <4>1, <4>2
      <4>8. QED
        BY <4>6, <4>7, IsAppend
    <3>4. QED
      BY <2>2, <3>1, <3>3
  <2>3. CASE n # 0 /\ ~(n > d)
    <3>1. kept(n) = kept(n - 1) /\ n - 1 \in 0 .. len /\ n \notin K
      BY <1>1, <2>3
    <3>2. rest[n] = rest[n - 1]
      BY <1>2, <3>1
    <3>3. QED
      BY <2>3, <3>1, <3>2
  <2>4. QED
    BY <2>1, <2>2, <2>3
<1>5. rest = [n \in 0 .. len |-> step(rest, n)]
  <2>1. rest = [n \in 0 .. len |-> rest[n]]
    BY <1>2
  <2>2. QED
    BY <1>4, <2>1
<1>6. PICK f : f = [n \in 0 .. len |-> step(f, n)] /\ Selected(s, K) = f[len]
  <2> DEFINE Rec(g) == g = [n \in 0 .. len |-> step(g, n)]
             f == CHOOSE g : Rec(g)
  <2>1. Rec(f)
    <3>1. Rec(rest)
      BY <1>5
    <3> HIDE DEF Rec
    <3>2. QED
      BY <3>1
  <2>2. Selected(s, K) = f[len]
    BY DEF Selected
  <2>3. QED
    BY <2>1, <2>2
<1>7. \A n \in 0 .. len : f[n] = step(f, n)
  BY <1>6
<1> DEFINE Same == {n \in 0 .. len : f[n] = rest[n]}
<1>8. 0 \in Same
  BY <1>1, <1>4, <1>7
<1>9. \A n \in 0 .. len - 1 : n \in Same => n + 1 \in Same
  <2>1. SUFFICES ASSUME NEW n \in 0 .. len - 1, f[n] = rest[n] PROVE f[n + 1] = rest[n + 1]
    BY <1>1
  <2>2. n + 1 \in 0 .. len /\ (n + 1) - 1 = n /\ n + 1 # 0
    BY <1>1
  <2>3. f[n + 1] = step(f, n + 1) /\ rest[n + 1] = step(rest, n + 1)
    BY <1>4, <1>7, <2>2
  <2>4. QED
    BY <2>1, <2>2, <2>3
<1>10. len \in Same
  <2>1. 0 .. len \subseteq Same
    BY <1>1, <1>8, <1>9, InductionUpTo
  <2>2. QED
    BY <1>1, <2>1
<1>11. QED
  <2>1. Selected(s, K) = rest[len] /\ kept(len) = len - d
    BY <1>1, <1>6, <1>10
  <2>2. QED
    BY <1>1, <1>2, <2>1

\* To select everything changes nothing.
LEMMA SelectedAll ==
  ASSUME NEW S, NEW s \in Seq(S), NEW K, K = DOMAIN s
  PROVE  Selected(s, K) = s
<1>1. 0 \in 0 .. Len(s) /\ \A n \in 1 .. Len(s) : n \in K <=> n > 0
  OBVIOUS
<1>2. Selected(s, K) = [i \in 1 .. Len(s) - 0 |-> s[0 + i]]
  BY <1>1, SelectedRest
<1>3. [i \in 1 .. Len(s) - 0 |-> s[0 + i]] = [i \in 1 .. Len(s) |-> s[i]]
  OBVIOUS
<1>4. s = [i \in 1 .. Len(s) |-> s[i]]
  OBVIOUS
<1>5. QED
  BY <1>2, <1>3, <1>4

\* To select nothing leaves nothing.
LEMMA SelectedNone ==
  ASSUME NEW S, NEW s \in Seq(S)
  PROVE  Selected(s, {}) = <<>>
<1>1. Len(s) \in 0 .. Len(s) /\ \A n \in 1 .. Len(s) : n \in {} <=> n > Len(s)
  OBVIOUS
<1>2. Selected(s, {}) = [i \in 1 .. Len(s) - Len(s) |-> s[Len(s) + i]]
  BY <1>1, SelectedRest
<1>3. QED
  BY <1>2

-----------------------------------------------------------------------------
(* Orders of a finite set.                                                  *)

\* As FS_Subset, without the cardinalities.
LEMMA SubsetOfFinite ==
  ASSUME NEW S, IsFiniteSet(S), NEW T, T \subseteq S
  PROVE  IsFiniteSet(T)
<1>1. T \in SUBSET S
  OBVIOUS
<1>2. QED
  BY <1>1, FS_Subset

\* A function with finitely many arguments has finitely many values.
LEMMA ImageFinite ==
  ASSUME NEW S, IsFiniteSet(S), NEW f, DOMAIN f = S
  PROVE  IsFiniteSet({f[x] : x \in S})
<1> DEFINE T == {f[x] : x \in S}
           g == [x \in S |-> f[x]]
<1>1. g \in Surjection(S, T)
  BY DEF Surjection
<1>2. QED
  BY <1>1, FS_Surjection

\* A sequence of the elements of a finite set.
LEMMA SetToSeqIs ==
  ASSUME NEW S, IsFiniteSet(S)
  PROVE  SetToSeq(S) \in Seq(S)
<1>1. Cardinality(S) \in Nat /\ ExistsBijection(1 .. Cardinality(S), S)
  BY FS_CardinalityType
<1>2. \E f \in [1 .. Cardinality(S) -> S] : IsInjective(f)
  BY <1>1 DEF ExistsBijection, Bijection, Injection
<1> DEFINE f == CHOOSE g \in [1 .. Cardinality(S) -> S] : IsInjective(g)
<1>3. f \in [1 .. Cardinality(S) -> S]
  BY <1>2
<1>4. SetToSeq(S) = f
  BY DEF SetToSeq
<1> HIDE DEF f
<1>5. QED
  BY <1>1, <1>3, <1>4

\* Every order of a finite set is a sequence of all its elements, each once.
LEMMA SetToSeqsAre ==
  ASSUME NEW S, IsFiniteSet(S), NEW s \in SetToSeqs(S)
  PROVE  /\ s \in Seq(S) /\ Len(s) = Cardinality(S) /\ ToSet(s) = S
         /\ \A m, n \in 1 .. Len(s) : m # n => s[m] # s[n]
<1> DEFINE D == 1 .. Cardinality(S)
<1>1. Cardinality(S) \in Nat
  BY FS_CardinalityType
<1>2. s \in [D -> S] /\ \A m, n \in D : m # n => s[m] # s[n]
  BY DEF SetToSeqs
<1>3. s \in Injection(D, S)
  BY <1>2 DEF Injection, IsInjective
<1>4. IsFiniteSet(D) /\ Cardinality(D) = Cardinality(S)
  BY <1>1, FS_Interval
<1>5. s \in Surjection(D, S)
  BY <1>3, <1>4, FS_Injection
<1>6. s \in Seq(S) /\ Len(s) = Cardinality(S)
  BY <1>1, <1>2
<1>7. ToSet(s) = S
  BY <1>2, <1>5 DEF Surjection, ToSet
<1>8. QED
  BY <1>2, <1>6, <1>7

\* The Max of a bounded set of numbers is one of them.
LEMMA GreatestElement ==
  ASSUME NEW b \in Nat, NEW T, T \subseteq 1 .. b, T # {}
  PROVE  Max(T) \in T
<1> DEFINE U == {b - n : n \in T}
<1>1. U \subseteq Nat /\ U # {}
  <2>1. \A n \in T : b - n \in Nat
    OBVIOUS
  <2>2. QED
    BY <2>1
<1>2. PICK x \in U : \A y \in U : x <= y
  BY <1>1, LeastElement
<1>3. PICK n \in T : x = b - n
  OBVIOUS
<1>4. \A m \in T : n >= m
  <2>1. SUFFICES ASSUME NEW m \in T PROVE n >= m
    OBVIOUS
  <2>2. b - m \in U /\ n \in Nat /\ m \in Nat
    OBVIOUS
  <2> HIDE DEF U
  <2>3. b - n <= b - m
    BY <1>2, <1>3, <2>2
  <2>4. QED
    BY <2>3
<1>5. \E y \in T : \A z \in T : y >= z
  BY <1>4
<1>6. QED
  BY <1>5 DEF Max

-----------------------------------------------------------------------------
(* Ranks.                                                                  *)

StrictOrder(F, less) ==
  /\ \A x \in F : <<x, x>> \notin less
  /\ \A x, y \in F : x # y => <<x, y>> \in less \/ <<y, x>> \in less
  /\ \A x, y, z \in F : <<x, y>> \in less /\ <<y, z>> \in less => <<x, z>> \in less

Below(F, less, x) == {y \in F : <<y, x>> \in less}

\* The ranks of the elements of a finite set are all the numbers below its size, each once.
LEMMA RanksAre ==
  ASSUME NEW F, IsFiniteSet(F), NEW less, StrictOrder(F, less), NEW rank,
         rank = [x \in F |-> Cardinality(Below(F, less, x))]
  PROVE  rank \in Bijection(F, 0 .. Cardinality(F) - 1)
<1>1. Cardinality(F) \in Nat
  BY FS_CardinalityType
<1>2. ASSUME NEW x \in F
      PROVE  /\ IsFiniteSet(Below(F, less, x)) /\ Cardinality(Below(F, less, x)) \in Nat
             /\ rank[x] = Cardinality(Below(F, less, x)) /\ rank[x] \in 0 .. Cardinality(F) - 1
  <2>1. Below(F, less, x) \subseteq F /\ x \notin Below(F, less, x)
    BY DEF Below, StrictOrder
  <2>2. IsFiniteSet(Below(F, less, x))
    BY <2>1, SubsetOfFinite
  <2>3. Cardinality(Below(F, less, x)) \in Nat
    BY <2>2, FS_CardinalityType
  <2>4. Below(F, less, x) # F
    BY <2>1
  <2>5. Cardinality(Below(F, less, x)) < Cardinality(F)
    BY <1>1, <2>1, <2>3, <2>4, FS_Subset
  <2>6. QED
    BY <1>1, <2>2, <2>3, <2>5
<1>3. ASSUME NEW x \in F, NEW y \in F, <<x, y>> \in less PROVE rank[x] < rank[y]
  <2>1. Below(F, less, x) \subseteq Below(F, less, y)
    BY <1>3 DEF Below, StrictOrder
  <2>2. x \in Below(F, less, y) /\ x \notin Below(F, less, x)
    BY <1>3 DEF Below, StrictOrder
  <2>3. Below(F, less, x) # Below(F, less, y)
    BY <2>2
  <2>4. Cardinality(Below(F, less, x)) < Cardinality(Below(F, less, y))
    BY <1>2, <2>1, <2>3, FS_Subset
  <2>5. QED
    BY <1>2, <2>4
<1>4. \A x, y \in F : x # y => rank[x] # rank[y]
  <2>1. SUFFICES ASSUME NEW x \in F, NEW y \in F, x # y PROVE rank[x] # rank[y]
    OBVIOUS
  <2>2. rank[x] < rank[y] \/ rank[y] < rank[x]
    BY <1>3, <2>1 DEF StrictOrder
  <2>3. rank[x] \in Nat /\ rank[y] \in Nat
    BY <1>2
  <2>4. QED
    BY <2>2, <2>3
<1> DEFINE D == 0 .. Cardinality(F) - 1
<1>5. rank \in [F -> D]
  BY <1>2
<1>6. rank \in Injection(F, D)
  BY <1>4, <1>5 DEF Injection, IsInjective
<1>7. IsFiniteSet(D) /\ Cardinality(D) = Cardinality(F)
  BY <1>1, FS_Interval
<1>8. rank \in Surjection(F, D)
  BY <1>6, <1>7, FS_Injection
<1>9. QED
  BY <1>6, <1>8 DEF Bijection

\* If one is out of the first k, the first k are k.
LEMMA FirstRanks ==
  ASSUME NEW F, IsFiniteSet(F), NEW less, StrictOrder(F, less), NEW k \in Nat,
         NEW x \in F, ~(Cardinality(Below(F, less, x)) < k)
  PROVE  Cardinality({y \in F : Cardinality(Below(F, less, y)) < k}) = k
<1>1. PICK rank : rank = [y \in F |-> Cardinality(Below(F, less, y))]
  OBVIOUS
<1>2. rank \in Bijection(F, 0 .. Cardinality(F) - 1) /\ Cardinality(F) \in Nat
  BY <1>1, RanksAre, FS_CardinalityType
<1>3. /\ \A y \in F : rank[y] \in 0 .. Cardinality(F) - 1
      /\ \A y, z \in F : rank[y] = rank[z] => y = z
      /\ \A n \in 0 .. Cardinality(F) - 1 : \E y \in F : rank[y] = n
  BY <1>2 DEF Bijection, Injection, IsInjective, Surjection
<1>4. PICK L : L = {y \in F : rank[y] < k}
  OBVIOUS
<1>5. k <= Cardinality(F) - 1
  BY <1>1, <1>2, <1>3
<1>6. PICK f : f = [y \in L |-> rank[y]]
  OBVIOUS
<1>7. f \in Bijection(L, 0 .. k - 1)
  <2>1. f \in [L -> 0 .. k - 1]
    BY <1>2, <1>3, <1>4, <1>6
  <2>2. \A y, z \in L : f[y] = f[z] => y = z
    BY <1>3, <1>4, <1>6
  <2>3. \A n \in 0 .. k - 1 : \E y \in L : f[y] = n
    <3>1. SUFFICES ASSUME NEW n \in 0 .. k - 1 PROVE \E y \in L : f[y] = n
      OBVIOUS
    <3>2. PICK y \in F : rank[y] = n
      BY <1>2, <1>3, <1>5
    <3>3. y \in L
      BY <1>4, <3>2
    <3>4. QED
      BY <1>6, <3>2, <3>3
  <2>4. QED
    BY <2>1, <2>2, <2>3 DEF Bijection, Injection, IsInjective, Surjection
<1>8. IsFiniteSet(L)
  BY <1>4, SubsetOfFinite
<1>9. Cardinality(L) = Cardinality(0 .. k - 1)
  BY <1>7, <1>8, FS_Bijection DEF ExistsBijection
<1>10. Cardinality(0 .. k - 1) = k
  BY FS_Interval
<1>11. L = {y \in F : Cardinality(Below(F, less, y)) < k}
  BY <1>1, <1>4
<1>12. QED
  BY <1>9, <1>10, <1>11

\* A function that takes no value twice has as many values as arguments.
LEMMA ImageSize ==
  ASSUME NEW s, NEW T, IsFiniteSet(T), NEW X, X = {s[n] : n \in T},
         \A m, n \in T : s[m] = s[n] => m = n
  PROVE  Cardinality(X) = Cardinality(T)
<1>1. PICK f : f = [n \in T |-> s[n]]
  OBVIOUS
<1>2. f \in Bijection(T, X)
  BY <1>1 DEF Bijection, Injection, IsInjective, Surjection
<1>3. QED
  BY <1>2, FS_Bijection DEF ExistsBijection

\* A finite set in a strict order has a first element.
LEMMA FirstOfAll ==
  ASSUME NEW F, IsFiniteSet(F), F # {}, NEW less, StrictOrder(F, less)
  PROVE  \E x \in F : \A y \in F : <<y, x>> \notin less
<1>1. PICK rank : rank = [y \in F |-> Cardinality(Below(F, less, y))]
  OBVIOUS
<1>2. Cardinality(F) \in Nat /\ Cardinality(F) # 0
  BY FS_CardinalityType, FS_EmptySet
<1>3. rank \in Bijection(F, 0 .. Cardinality(F) - 1)
  BY <1>1, RanksAre
<1>4. PICK x \in F : rank[x] = 0
  BY <1>2, <1>3 DEF Bijection, Surjection
<1>5. Below(F, less, x) = {}
  <2>1. Cardinality(Below(F, less, x)) = 0
    BY <1>1, <1>4
  <2>2. Below(F, less, x) \subseteq F
    BY DEF Below
  <2>3. QED
    BY <2>1, <2>2, SubsetOfFinite, FS_EmptySet
<1>6. QED
  BY <1>5 DEF Below

\* If one of a set of numbers is not among the k lowest, there are k of them.
LEMMA LowestAre ==
  ASSUME NEW P, IsFiniteSet(P), P \subseteq Nat, NEW k \in Nat, NEW n \in P, n \notin Lowest(k, P)
  PROVE  Cardinality(Lowest(k, P)) = k
<1>1. PICK less : less = {e \in P \X P : e[1] < e[2]}
  OBVIOUS
<1>2. \A x, y \in P : <<x, y>> \in less <=> x < y
  BY <1>1
<1>3. StrictOrder(P, less)
  <2>1. \A x \in P : ~(x < x)
    OBVIOUS
  <2>2. \A x, y \in P : x # y => x < y \/ y < x
    OBVIOUS
  <2>3. \A x, y, z \in P : x < y /\ y < z => x < z
    OBVIOUS
  <2>4. QED
    BY <1>2, <2>1, <2>2, <2>3 DEF StrictOrder
<1>4. ASSUME NEW m \in P
      PROVE  Cardinality({l \in P : l <= m}) <= k <=> Cardinality(Below(P, less, m)) < k
  <2>1. Below(P, less, m) = {l \in P : l < m}
    BY <1>2 DEF Below
  <2>2. IsFiniteSet(Below(P, less, m)) /\ m \notin Below(P, less, m)
    <3>1. Below(P, less, m) \subseteq P
      BY DEF Below
    <3>2. QED
      BY <2>1, <3>1, SubsetOfFinite
  <2>3. {l \in P : l <= m} = Below(P, less, m) \cup {m}
    <3>1. \A l \in P : l <= m <=> l < m \/ l = m
      OBVIOUS
    <3>2. QED
      BY <2>1, <3>1
  <2>4. Cardinality({l \in P : l <= m}) = Cardinality(Below(P, less, m)) + 1
    BY <2>2, <2>3, FS_AddElement
  <2>5. Cardinality(Below(P, less, m)) \in Nat
    BY <2>2, FS_CardinalityType
  <2>6. QED
    BY <2>4, <2>5
<1>5. Lowest(k, P) = {m \in P : Cardinality(Below(P, less, m)) < k}
  BY <1>4 DEF Lowest
<1>6. ~(Cardinality(Below(P, less, n)) < k)
  BY <1>5
<1>7. QED
  BY <1>3, <1>5, <1>6, FirstRanks

-----------------------------------------------------------------------------
(* Sequences made of sequences.                                             *)

\* Sequences over a set, put one after another, are a sequence over it.
LEMMA FlattenIs ==
  ASSUME NEW T, NEW ss \in Seq(Seq(T))
  PROVE  FlattenSeq(ss) \in Seq(T)
<1> DEFINE len == Len(ss)
           V == Seq(T)
           init == <<>>
           join == [n \in 1 .. len |-> [t \in V |-> t \o ss[n]]]
           rec(g, n) == IF n = 1 THEN ss[n] ELSE g[n - 1] \o ss[n]
<1>1. len \in Nat /\ \A n \in 1 .. len : ss[n] \in V
  OBVIOUS
<1>2. CASE len = 0
  <2>1. ss = <<>> /\ FlattenSeq(ss) = ss
    BY <1>2 DEF FlattenSeq
  <2>2. FlattenSeq(ss) = <<>>
    BY Zenon, <2>1
  <2>3. QED
    BY <2>2
<1>3. CASE len # 0
  <2>1. PICK g \in [0 .. len -> V] :
          g[0] = init /\ \A n \in 1 .. len : g[n] = join[n][g[n - 1]]
    <3>1. \A n \in 1 .. len : \A t \in V : t \o ss[n] \in V
      BY <1>1, ConcatProperties
    <3>2. join \in [1 .. len -> [V -> V]] /\ init \in V
      BY <3>1
    <3> HIDE DEF join, V, init
    <3>3. \E g : Recursive(g, len, V, init, join)
      BY <1>1, <3>2, Recursion
    <3>4. QED
      BY <3>3 DEF Recursive
  <2>2. \A n \in 1 .. len : g[n - 1] \in V /\ g[n] = g[n - 1] \o ss[n]
    <3>1. SUFFICES ASSUME NEW n \in 1 .. len
                   PROVE  g[n - 1] \in V /\ g[n] = g[n - 1] \o ss[n]
      OBVIOUS
    <3>2. g[n] = join[n][g[n - 1]]
      <4> HIDE DEF join
      <4>1. QED
        BY <2>1
    <3>3. n - 1 \in 0 .. len
      BY <1>1
    <3> HIDE DEF V
    <3>4. g[n - 1] \in V
      BY <3>3
    <3>5. QED
      BY <3>2, <3>4
  <2>3. g[1] = ss[1]
    <3>1. 1 \in 1 .. len /\ 1 - 1 = 0
      BY <1>1, <1>3
    <3>2. g[1] = <<>> \o ss[1] /\ ss[1] \in Seq(T)
      BY <1>1, <2>1, <2>2, <3>1
    <3>3. QED
      BY <3>2, ConcatEmptySeq
  <2>4. PICK f : (\A n \in 1 .. len : f[n] = rec(f, n)) /\ FlattenSeq(ss) = f[len]
    <3> DEFINE Rec(h) == h = [n \in 1 .. len |-> rec(h, n)]
               f == CHOOSE h : Rec(h)
               h == [n \in 1 .. len |-> g[n]]
    <3>1. \A n \in 1 .. len : h[n] = rec(h, n)
      <4>1. SUFFICES ASSUME NEW n \in 1 .. len PROVE h[n] = rec(h, n)
        OBVIOUS
      <4>2. CASE n = 1
        BY <2>3, <4>2
      <4>3. CASE n # 1
        <5>1. n - 1 \in 1 .. len
          BY <1>1, <4>3
        <5>2. h[n] = g[n] /\ h[n - 1] = g[n - 1]
          BY <5>1
        <5> HIDE DEF h
        <5>3. QED
          BY <2>2, <4>3, <5>2
      <4>4. QED
        BY <4>2, <4>3
    <3>2. Rec(f)
      <4>1. h = [n \in 1 .. len |-> h[n]]
        OBVIOUS
      <4> HIDE DEF h
      <4>2. Rec(h)
        BY <3>1, <4>1
      <4> HIDE DEF Rec
      <4>3. QED
        BY <4>2
    <3>3. FlattenSeq(ss) = f[len]
      BY <1>3 DEF FlattenSeq
    <3>4. QED
      BY <3>2, <3>3
  <2> DEFINE Good == {n \in 0 .. len : n = 0 \/ f[n] \in V}
  <2>5. 0 \in Good
    BY <1>1
  <2>6. ASSUME NEW n \in 0 .. len - 1, n \in Good PROVE n + 1 \in Good
    <3>1. n + 1 \in 1 .. len /\ n + 1 \in 0 .. len /\ n + 1 - 1 = n
      BY <1>1
    <3>2. f[n + 1] = IF n + 1 = 1 THEN ss[n + 1] ELSE f[n] \o ss[n + 1]
      BY <2>4, <3>1
    <3>3. CASE n = 0
      BY <1>1, <3>1, <3>2, <3>3
    <3>4. CASE n # 0
      <4>1. f[n] \in Seq(T) /\ ss[n + 1] \in Seq(T) /\ n + 1 # 1
        BY <1>1, <2>6, <3>1, <3>4
      <4>2. f[n + 1] \in V
        BY <3>2, <4>1, ConcatProperties
      <4>3. QED
        BY <3>1, <4>2
    <3>5. QED
      BY <3>3, <3>4
  <2>7. len \in Good
    <3>1. 0 .. len \subseteq Good
      BY <1>1, <2>5, <2>6, InductionUpTo
    <3>2. QED
      BY <1>1, <3>1
  <2>8. QED
    BY <1>3, <2>4, <2>7
<1>4. QED
  BY <1>2, <1>3

IsSeq(s) == \E S : s \in Seq(S)

\* Sequences of no element and of one.
LEMMA SeqSmall ==
  /\ IsSeq(<<>>) /\ \A x : IsSeq(<<x>>)
<1>1. <<>> \in Seq({})
  OBVIOUS
<1>2. \A x : <<x>> \in Seq({x})
  OBVIOUS
<1>3. QED
  BY <1>1, <1>2 DEF IsSeq

\* s is a sequence whose elements are all in S
LEMMA ElementsIn ==
  ASSUME NEW s, IsSeq(s)
  PROVE  /\ Len(s) \in Nat /\ DOMAIN s = 1 .. Len(s)
         /\ \A S : (\A n \in 1 .. Len(s) : s[n] \in S) => s \in Seq(S)
<1>1. PICK T : s \in Seq(T)
  BY DEF IsSeq
<1>2. Len(s) \in Nat /\ DOMAIN s = 1 .. Len(s)
  BY <1>1
<1>3. \A S : (\A n \in 1 .. Len(s) : s[n] \in S) => s \in Seq(S)
  BY <1>1
<1>4. QED
  BY <1>2, <1>3

\* A sequence has finitely many elements.
LEMMA ElementsFinite == ASSUME NEW s, IsSeq(s) PROVE IsFiniteSet(ToSet(s))
<1>1. IsFiniteSet(DOMAIN s)
  <2>1. Len(s) \in Nat /\ DOMAIN s = 1 .. Len(s)
    BY ElementsIn
  <2>2. QED
    BY <2>1, FS_Interval
<1>2. IsFiniteSet({s[x] : x \in DOMAIN s})
  BY <1>1, ImageFinite
<1>3. QED
  BY <1>2 DEF ToSet

\* A function on 1 .. n is a sequence of length n.
LEMMA SeqFrom ==
  ASSUME NEW n \in Nat, NEW s, DOMAIN s = 1 .. n, s = [k \in 1 .. n |-> s[k]]
  PROVE  IsSeq(s) /\ Len(s) = n
<1> DEFINE T == {s[k] : k \in 1 .. n}
<1>1. s \in [1 .. n -> T]
  OBVIOUS
<1> HIDE DEF T
<1>2. s \in Seq(T) /\ Len(s) = n
  BY <1>1
<1>3. QED
  BY <1>2 DEF IsSeq

\* Two sequences, one after the other.
LEMMA SeqConcat ==
  ASSUME NEW s, NEW t, IsSeq(s), IsSeq(t)
  PROVE  /\ IsSeq(s \o t) /\ Len(s \o t) = Len(s) + Len(t)
         /\ \A n \in 1 .. Len(s) + Len(t) :
              (s \o t)[n] = IF n <= Len(s) THEN s[n] ELSE t[n - Len(s)]
<1>1. PICK S : s \in Seq(S)
  BY DEF IsSeq
<1>2. PICK T : t \in Seq(T)
  BY DEF IsSeq
<1>3. PICK U : U = S \cup T
  OBVIOUS
<1>4. s \in Seq(U) /\ t \in Seq(U)
  <2>1. S \subseteq U /\ T \subseteq U
    BY <1>3
  <2>2. QED
    BY <1>1, <1>2, <2>1, SeqMonotonic
<1>5. QED
  BY <1>4, ConcatProperties DEF IsSeq

\* It does not matter which of three sequences are put together first.
LEMMA SeqAssociative ==
  ASSUME NEW s, NEW t, NEW u, IsSeq(s), IsSeq(t), IsSeq(u)
  PROVE  (s \o t) \o u = s \o (t \o u)
<1>1. PICK A, B, C : s \in Seq(A) /\ t \in Seq(B) /\ u \in Seq(C)
  BY DEF IsSeq
<1>2. PICK S : S = A \cup B \cup C
  OBVIOUS
<1>3. s \in Seq(S) /\ t \in Seq(S) /\ u \in Seq(S)
  <2>1. A \subseteq S /\ B \subseteq S /\ C \subseteq S
    BY <1>2
  <2>2. QED
    BY <1>1, <2>1, SeqMonotonic
<1>4. QED
  BY <1>3, ConcatAssociative

\* What is selected from a sequence of anything is some of its elements.
LEMMA SeqSelected ==
  ASSUME NEW s, IsSeq(s), NEW P \in SUBSET DOMAIN s
  PROVE  /\ IsSeq(Selected(s, P))
         /\ \A n \in DOMAIN Selected(s, P) : \E m \in P : Selected(s, P)[n] = s[m]
<1>1. PICK S : s \in Seq(S)
  BY DEF IsSeq
<1>2. Selected(s, P) \in Seq(S)
  BY <1>1, SelectedParts
<1>3. QED
  BY <1>1, <1>2, SelectedOf DEF IsSeq

\* A property of all elements of the parts is one of all elements of the whole.
LEMMA SeqFlat ==
  ASSUME NEW ss, IsSeq(ss), \A n \in DOMAIN ss : IsSeq(ss[n])
  PROVE  /\ IsSeq(FlattenSeq(ss))
         /\ \A k \in DOMAIN FlattenSeq(ss) : \E n \in DOMAIN ss : \E j \in DOMAIN ss[n] :
              FlattenSeq(ss)[k] = ss[n][j]
<1> DEFINE T == UNION {{ss[n][j] : j \in DOMAIN ss[n]} : n \in DOMAIN ss}
<1>1. \A n \in DOMAIN ss : \A j \in DOMAIN ss[n] : ss[n][j] \in T
  OBVIOUS
<1>2. \A x \in T : \E n \in DOMAIN ss : \E j \in DOMAIN ss[n] : x = ss[n][j]
  OBVIOUS
<1> HIDE DEF T
<1>3. \A n \in 1 .. Len(ss) : ss[n] \in Seq(T)
  <2>1. SUFFICES ASSUME NEW n \in 1 .. Len(ss) PROVE ss[n] \in Seq(T)
    OBVIOUS
  <2>2. n \in DOMAIN ss /\ IsSeq(ss[n])
    BY ElementsIn
  <2>3. \A j \in 1 .. Len(ss[n]) : ss[n][j] \in T
    BY <1>1, <2>2, ElementsIn
  <2>4. QED
    BY <2>2, <2>3, ElementsIn
<1>4. ss \in Seq(Seq(T))
  BY <1>3, ElementsIn
<1>5. PICK t : t = FlattenSeq(ss)
  OBVIOUS
<1>6. t \in Seq(T)
  BY <1>4, <1>5, FlattenIs
<1>7. \A k \in DOMAIN t : t[k] \in T
  BY <1>6
<1>8. QED
  BY <1>2, <1>5, <1>6, <1>7 DEF IsSeq

SeqOfSeqs(s) == IsSeq(s) /\ \A n \in DOMAIN s : IsSeq(s[n])

\* Sequences of sequences, one after the other, are one again.
LEMMA SeqsConcat ==
  ASSUME NEW s, NEW t, SeqOfSeqs(s), SeqOfSeqs(t)
  PROVE  SeqOfSeqs(s \o t)
<1>1. IsSeq(s) /\ IsSeq(t)
  BY DEF SeqOfSeqs
<1>2. Len(s) \in Nat /\ DOMAIN s = 1 .. Len(s) /\ Len(t) \in Nat /\ DOMAIN t = 1 .. Len(t)
  BY <1>1, ElementsIn
<1>3. PICK w : w = s \o t
  OBVIOUS
<1>4. /\ IsSeq(w) /\ Len(w) = Len(s) + Len(t)
      /\ \A n \in 1 .. Len(s) + Len(t) : w[n] = IF n <= Len(s) THEN s[n] ELSE t[n - Len(s)]
  BY <1>1, <1>3, SeqConcat
<1>5. DOMAIN w = 1 .. Len(s) + Len(t)
  BY <1>4, ElementsIn
<1>6. ASSUME NEW n \in 1 .. Len(s) + Len(t) PROVE IsSeq(w[n])
  <2>1. CASE n <= Len(s)
    BY <1>2, <1>4, <2>1 DEF SeqOfSeqs
  <2>2. CASE ~(n <= Len(s))
    <3>1. n - Len(s) \in DOMAIN t /\ w[n] = t[n - Len(s)]
      BY <1>2, <1>4, <2>2
    <3>2. QED
      BY <3>1 DEF SeqOfSeqs
  <2>3. QED
    BY <2>1, <2>2
<1>7. QED
  BY <1>3, <1>4, <1>5, <1>6 DEF SeqOfSeqs

\* Sequences of no sequence and of one.
LEMMA SeqsSmall == SeqOfSeqs(<<>>) /\ \A s : IsSeq(s) => SeqOfSeqs(<<s>>)
<1>1. SeqOfSeqs(<<>>)
  BY SeqSmall DEF SeqOfSeqs
<1>2. ASSUME NEW s, IsSeq(s) PROVE SeqOfSeqs(<<s>>)
  <2>1. DOMAIN <<s>> = {1} /\ <<s>>[1] = s
    OBVIOUS
  <2>2. QED
    BY <1>2, <2>1, SeqSmall DEF SeqOfSeqs
<1>3. QED
  BY <1>1, <1>2
=============================================================================
