---------------------------- MODULE ContextProofs ----------------------------
(***************************************************************************)
(* Proofs about the searches and about the preparation of a context, for   *)
(* every store, every question and every number of writes in between.      *)
(***************************************************************************)
EXTENDS Context, SequenceLemmas

-----------------------------------------------------------------------------
(* Graph search.                                                           *)

\* What the rules of search_graph_recursive derive in two hops, written out.
LEMMA TwoHops ==
  ASSUME NEW seeds
  PROVE  Reachable(seeds, 2) =
           LET one == seeds \cup NeighborsOf(seeds) IN one \cup NeighborsOf(one)
<1> DEFINE one == seeds \cup NeighborsOf(seeds)
           two == one \cup NeighborsOf(one)
           good(f) == f = [d \in 0 .. 2 |-> IF d = 0 THEN seeds
                                            ELSE f[d - 1] \cup NeighborsOf(f[d - 1])]
           g == [d \in 0 .. 2 |-> IF d = 0 THEN seeds ELSE IF d = 1 THEN one ELSE two]
<1>1. g[0] = seeds /\ g[1] = one /\ g[2] = two
  OBVIOUS
<1>2. good(g)
  <2>1. ASSUME NEW d \in 0 .. 2
        PROVE  g[d] = IF d = 0 THEN seeds ELSE g[d - 1] \cup NeighborsOf(g[d - 1])
    <3>1. d = 0 \/ d = 1 \/ d = 2
      OBVIOUS
    <3>2. QED
      BY <3>1, <1>1
  <2>2. QED
    BY <2>1
<1> DEFINE w == CHOOSE f : good(f)
<1>3. good(w)
  BY <1>2
<1> HIDE DEF w, g
<1>4. w[0] = seeds
  BY <1>3
<1>5. w[1] = one
  BY <1>3, <1>4
<1>6. w[2] = two
  BY <1>3, <1>5
<1>7. Reachable(seeds, 2) = w[2]
  BY DEF Reachable, w
<1>8. QED
  BY <1>6, <1>7

\* The loop of search_graph, which does not go through a seed twice, reaches the same.
LEMMA LoopReachesAll == ASSUME NEW seeds PROVE Reached(seeds) = Reachable(seeds, 2)
<1> DEFINE one == seeds \cup NeighborsOf(seeds)
<1>1. NeighborsOf(one) = NeighborsOf(seeds) \cup NeighborsOf(NeighborsOf(seeds))
  BY DEF NeighborsOf
<1>2. Reached(seeds) = one \cup NeighborsOf(one)
  BY <1>1 DEF Reached
<1>3. QED
  BY <1>2, TwoHops

\* The two graph searches reach the same memories, in every store.
THEOREM GraphSearchesAgree == ContextSpec => []GraphAgrees
<1>1. GraphAgrees
  BY LoopReachesAll DEF GraphAgrees, SearchGraphRecursive
<1>2. QED
  BY <1>1, PTL

-----------------------------------------------------------------------------
(* Each memory once.  The invariant adds only that prep has all its        *)
(* fields, and how many memories there may be in the block.  What keeps a  *)
(* memory from coming in twice is Register, which                          *)
(* looks at the ids of all that was found, whichever search it comes from. *)
Shaped(p) ==
  /\ p = [result |-> p.result, query |-> p.query, user |-> p.user, limit |-> p.limit,
          todo |-> p.todo, sessions |-> p.sessions, found |-> p.found, sources |-> p.sources,
          reserved |-> p.reserved, ranked |-> p.ranked, scored |-> p.scored,
          block |-> p.block, since |-> p.since]
  /\ p.limit \in Nat

Once(hits) == \A g, h \in hits : g[1] = h[1] => g = h

OnceIn(p) == Shaped(p) /\ Once(p.found) /\ Once(p.reserved)

OnceInv == OnceIn(prep)

\* One version of each id is one hit of each id, among those it is taken from.
LEMMA VersionsOnce ==
  ASSUME NEW hits, NEW new \in Versions(hits)
  PROVE  new \subseteq hits /\ Once(new)
<1>1. new \subseteq hits
  BY DEF Versions
<1>2. ASSUME NEW g \in new, NEW h \in new, g[1] = h[1] PROVE g = h
  <2>1. g[1] \in IdsOf(hits)
    BY <1>1 DEF IdsOf
  <2>2. PICK f \in new : \A e \in new : e[1] = g[1] => e = f
    BY <2>1 DEF Versions
  <2>3. QED
    BY <2>2, <1>2
<1>3. QED
  BY <1>1, <1>2 DEF Once

\* What is new among hits of other ids can be added.
LEMMA OnceAdds ==
  ASSUME NEW old, Once(old), NEW hits,
         NEW new \in Versions({h \in hits : h[1] \notin IdsOf(old)})
  PROVE  Once(old \cup new)
<1>1. Once(new) /\ \A h \in new : h[1] \notin IdsOf(old)
  BY VersionsOnce
<1>2. \A g \in old : g[1] \in IdsOf(old)
  BY DEF IdsOf
<1>3. QED
  BY <1>1, <1>2 DEF Once

\* To register hits adds one version each of ids that were not found before.
LEMMA RegisterOnce ==
  ASSUME NEW p, OnceIn(p), NEW hits, NEW channel, NEW q \in Register(p, hits, channel)
  PROVE  OnceIn(q)
<1>1. PICK new \in Versions({h \in hits : h[1] \notin IdsOf(p.found)}) :
        q = [p EXCEPT !.found = @ \cup new, !.sources = @ \cup (IdsOf(hits) \X {channel})]
  BY DEF Register
<1>2. Once(p.found \cup new)
  BY OnceAdds DEF OnceIn
<1>3. Shaped(q) /\ q.found = p.found \cup new /\ q.reserved = p.reserved
  BY <1>1 DEF OnceIn, Shaped
<1>4. QED
  BY <1>2, <1>3 DEF OnceIn

\* A step that ends with p leaves what p is.
LEMMA ProceedOnce ==
  ASSUME NEW p, OnceIn(p), NEW steps, Proceed(p, steps)
  PROVE  OnceInv'
<1>1. Shaped(prep') /\ prep'.found = p.found /\ prep'.reserved = p.reserved
  BY DEF Proceed, OnceIn, Shaped
<1>2. QED
  BY <1>1 DEF OnceIn, OnceInv

\* A search, whatever it returns, leaves each memory found once.
LEMMA FindOnce ==
  ASSUME OnceInv, NEW results, NEW channel, Find(results, channel)
  PROVE  OnceInv'
  BY RegisterOnce, ProceedOnce DEF Find, OnceInv

\* A preparation that has not begun has found nothing.
LEMMA EmptyOnce == OnceIn(NoPrep)
<1>1. Shaped(NoPrep)
  BY DEF NoPrep, Shaped
<1>2. NoPrep.found = {} /\ NoPrep.reserved = {}
  BY DEF NoPrep
<1>3. QED
  BY <1>1, <1>2 DEF OnceIn, Once

\* The steps that look for memories.
LEMMA SearchesOnce ==
  ASSUME OnceInv,
         \/ FindBySpeaker \/ FindByType \/ FindByGraph \/ OpenSessions \/ ReadSummaries
         \/ FindInSession \/ ReadEntityTriples \/ ReadTriples \/ FindByTriple \/ FindByText
         \/ OpenWindows \/ FindInWindow
  PROVE  OnceInv'
<1>1. CASE FindBySpeaker
  BY <1>1, FindOnce DEF FindBySpeaker
<1>2. CASE FindInSession
  BY <1>2, FindOnce DEF FindInSession
<1>3. CASE FindByTriple
  BY <1>3, FindOnce DEF FindByTriple
<1>4. CASE FindByText
  BY <1>4, FindOnce DEF FindByText
<1>5. CASE FindInWindow
  BY <1>5, FindOnce DEF FindInWindow
<1>6. ASSUME NEW s PROVE OnceIn([prep EXCEPT !.sessions = s])
  BY DEF OnceInv, OnceIn, Shaped
<1>7. CASE OpenSessions
  BY <1>7, <1>6, ProceedOnce DEF OpenSessions
<1>8. CASE ReadSummaries
  BY <1>8, ProceedOnce DEF ReadSummaries, OnceInv
<1>9. CASE ReadEntityTriples \/ ReadTriples
  <2>1. \E steps : Proceed(prep, steps)
    BY <1>9 DEF ReadEntityTriples, ReadTriples, ReadMemories
  <2>2. QED
    BY <2>1, ProceedOnce DEF OnceInv
<1>10. CASE OpenWindows
  <2>1. \E steps : Proceed(prep, steps)
    BY <1>10 DEF OpenWindows
  <2>2. QED
    BY <2>1, ProceedOnce DEF OnceInv
<1>11. ASSUME NEW p, OnceIn(p), NEW s PROVE OnceIn([p EXCEPT !.sessions = s])
  BY <1>11 DEF OnceIn, Shaped
<1>12. CASE FindByType
  <2>1. PICK hits, p, s : /\ p \in Register(prep, hits, "hybrid")
                           /\ Proceed([p EXCEPT !.sessions = s], <<>>)
    BY <1>12 DEF FindByType
  <2>2. QED
    BY <2>1, <1>11, RegisterOnce, ProceedOnce DEF OnceInv
<1>13. CASE FindByGraph
  <2>1. PICK hits, p, s : /\ p \in Register(prep, hits, "graph")
                           /\ Proceed([p EXCEPT !.sessions = s], <<>>)
    BY <1>13 DEF FindByGraph
  <2>2. QED
    BY <2>1, <1>11, RegisterOnce, ProceedOnce DEF OnceInv
<1>14. QED
  BY <1>1, <1>2, <1>3, <1>4, <1>5, <1>7, <1>8, <1>9, <1>10, <1>12, <1>13

\* The steps that reserve, rank and lay out.
LEMMA LayoutOnce ==
  ASSUME OnceInv, Reserve \/ Rank \/ Rerank \/ KeepOrder \/ Assemble \/ PrepareFails
  PROVE  OnceInv'
<1>1. CASE Reserve
  <2>1. PICK hits, new, x, p :
          /\ new \in Versions({h \in hits : h[1] \notin IdsOf(prep.reserved)})
          /\ p = [prep EXCEPT !.reserved = @ \cup new, !.sources = x]
          /\ Proceed(p, <<>>)
    BY <1>1 DEF Reserve
  <2>2. Once(prep.reserved \cup new)
    BY <2>1, OnceAdds DEF OnceInv, OnceIn
  <2>3. Shaped(p) /\ p.found = prep.found /\ p.reserved = prep.reserved \cup new
    BY <2>1 DEF OnceInv, OnceIn, Shaped
  <2>4. OnceIn(p)
    BY <2>2, <2>3 DEF OnceInv, OnceIn
  <2>5. QED
    BY <2>1, <2>4, ProceedOnce
<1>2. CASE Rank
  <2>1. PICK kept, order, n, p :
          /\ kept \subseteq prep.reserved
          /\ p = [prep EXCEPT !.reserved = kept, !.ranked = order, !.scored = n]
          /\ Proceed(p, <<>>)
    BY <1>2 DEF Rank, AnyOf, kSubset
  <2>2. Shaped(p) /\ p.found = prep.found /\ p.reserved = kept
    BY <2>1 DEF OnceInv, OnceIn, Shaped
  <2>3. OnceIn(p)
    BY <2>1, <2>2 DEF OnceInv, OnceIn, Once
  <2>4. QED
    BY <2>1, <2>3, ProceedOnce
<1>3. CASE Rerank
  <2>1. PICK order, n, p : p = [prep EXCEPT !.ranked = order, !.scored = n] /\ Proceed(p, <<>>)
    BY <1>3 DEF Rerank
  <2>2. Shaped(p) /\ p.found = prep.found /\ p.reserved = prep.reserved
    BY <2>1 DEF OnceInv, OnceIn, Shaped
  <2>3. QED
    BY <2>1, <2>2, ProceedOnce DEF OnceInv, OnceIn
<1>4. CASE KeepOrder
  BY <1>4, ProceedOnce DEF KeepOrder, OnceInv
<1>5. CASE Assemble
  <2>1. PICK b, p : p = [prep EXCEPT !.result = "ready", !.block = b] /\ Proceed(p, <<>>)
    BY <1>5 DEF Assemble
  <2>2. Shaped(p) /\ p.found = prep.found /\ p.reserved = prep.reserved
    BY <2>1 DEF OnceInv, OnceIn, Shaped
  <2>3. QED
    BY <2>1, <2>2, ProceedOnce DEF OnceInv, OnceIn
<1>6. CASE PrepareFails
  <2>1. OnceIn([NoPrep EXCEPT !.result = "failed"])
    BY EmptyOnce DEF OnceIn, Shaped
  <2>2. QED
    BY <1>6, <2>1 DEF PrepareFails, OnceInv
<1>7. QED
  BY <1>1, <1>2, <1>3, <1>4, <1>5, <1>6

\* No step finds or reserves a second version of a memory.
LEMMA OnceStep == OnceInv /\ [ContextNext]_contextVars => OnceInv'
<1>1. SUFFICES ASSUME OnceInv, [ContextNext]_contextVars PROVE OnceInv'
  OBVIOUS
<1>2. ASSUME NEW q, NEW u, NEW asked \in Asked, NEW bm25_only, StartPrepare(q, u, asked, bm25_only)
      PROVE  OnceInv'
  <2>1. ContextLimit(q, asked) \in Nat
    <3>1. Classify(q) \in Complexity /\ asked \in Nat
      BY ContextAssumption DEF Classify, Complexity
    <3>2. Strategy[Classify(q)].limit \in Nat
      BY <3>1, ContextAssumption
    <3>3. QED
      BY <3>1, <3>2 DEF ContextLimit, AtMost
  <2>2. PICK l, t, z :
          l \in Nat /\ prep' = [NoPrep EXCEPT !.result = "pending", !.query = q, !.user = u,
                                              !.limit = l, !.todo = t, !.since = z]
    BY <1>2, <2>1 DEF StartPrepare
  <2>3. QED
    BY <2>2, EmptyOnce DEF OnceInv, OnceIn, Shaped
<1>3. CASE Elsewhere \/ UNCHANGED contextVars
  BY <1>1, <1>3 DEF Elsewhere, contextVars, OnceInv
<1>4. QED
  BY <1>1, <1>2, <1>3, SearchesOnce, LayoutOnce DEF ContextNext

\* However many searches return a memory, and whatever is written to it between them, a
\* context has it in one version, and so have the keyword hits.
THEOREM EachMemoryOnce == ContextSpec => []OncePerContext
<1>1. ContextInit => OnceInv
  BY EmptyOnce DEF ContextInit, OnceInv
<1>2. OnceInv => OncePerContext
  BY DEF OnceInv, OnceIn, Once, OncePerContext
<1>3. QED
  BY <1>1, <1>2, OnceStep, PTL DEF ContextSpec

-----------------------------------------------------------------------------
(* The store.                                                              *)

OneNamed(i) ==
  \A m, n \in DOMAIN items[i] :
    {items[i][m].user, items[i][n].user} \subseteq User => items[i][m].user = items[i][n].user

SameRaw(i) == \A m, n \in DOMAIN items[i] : IsRaw(<<i, m>>) = IsRaw(<<i, n>>)

StoreOK ==
  /\ items \in [Id -> Seq(Version)]
  /\ updated \in [Id -> Seq(Nat)]
  /\ \A i \in Id : DOMAIN updated[i] = DOMAIN items[i] /\ OneNamed(i) /\ SameRaw(i)
  /\ edges \subseteq Edge
  /\ triples \subseteq [subject : Word, id : Id]
  /\ summaries \subseteq Session
  /\ writes \in 0 .. MaxWrites

\* A write adds versions: what there is stays, and stays the user's it is.
Grown ==
  /\ \A i \in Id : /\ Len(items[i]) <= Len(items'[i])
                   /\ \A n \in 1 .. Len(items[i]) : items'[i][n] = items[i][n]
  /\ \A i \in Id, u \in Owner : OfUser(i, u) => OfUser(i, u)'

\* Every database that is opened is in order.
LEMMA StoreOpened == ContextInit => StoreOK
<1>1. SUFFICES ASSUME ContextInit PROVE StoreOK
  OBVIOUS
<1>2. PICK db \in Database : /\ items = db.items /\ updated = db.updated /\ edges = db.edges
                             /\ triples = db.triples /\ summaries = db.summaries
                             /\ writes = db.writes
  BY <1>1 DEF ContextInit
<1>3. /\ items \in [Id -> Seq(Version)]
      /\ updated \in [Id -> Seq(Nat)]
      /\ edges \subseteq Edge
      /\ triples \subseteq [subject : Word, id : Id]
      /\ summaries \subseteq Session
      /\ writes \in 0 .. MaxWrites
  BY <1>2, DatabaseAssumption
<1>4. ASSUME NEW i \in Id
      PROVE  DOMAIN updated[i] = DOMAIN items[i] /\ OneNamed(i) /\ SameRaw(i)
  <2>1. /\ DOMAIN updated[i] = DOMAIN items[i]
        /\ \A v, w \in ToSet(items[i]) : {v.user, w.user} \subseteq User => v.user = w.user
        /\ \A v, w \in ToSet(items[i]) : Info[v.content].raw = Info[w.content].raw
    BY <1>2, DatabaseAssumption
  <2>2. \A n \in DOMAIN items[i] : items[i][n] \in ToSet(items[i])
    BY DEF ToSet
  <2>3. OneNamed(i)
    BY <2>1, <2>2 DEF OneNamed
  <2>4. SameRaw(i)
    BY <2>1, <2>2 DEF SameRaw, IsRaw, About, Hit
  <2>5. QED
    BY <2>1, <2>3, <2>4
<1>5. QED
  BY <1>3, <1>4 DEF StoreOK

\* A version is added of a user, and of a content, that the memory may have.
LEMMA VersionAdded ==
  ASSUME StoreOK, NEW i \in Id, NEW v \in Version, NEW t \in Nat,
         items' = [items EXCEPT ![i] = Append(@, v)],
         updated' = [updated EXCEPT ![i] = Append(@, t)],
         items[i] # <<>> =>
           /\ v.user = NoUser \/ \E n \in DOMAIN items[i] : items[i][n].user = v.user
           /\ \A n \in DOMAIN items[i] : Info[v.content].raw = IsRaw(<<i, n>>)
  PROVE  /\ items' \in [Id -> Seq(Version)] /\ updated' \in [Id -> Seq(Nat)]
         /\ \A j \in Id : DOMAIN updated'[j] = DOMAIN items'[j] /\ OneNamed(j)' /\ SameRaw(j)'
         /\ Grown
<1> DEFINE s == items[i]
           len == Len(items[i])
<1>1. /\ items \in [Id -> Seq(Version)] /\ updated \in [Id -> Seq(Nat)]
      /\ \A j \in Id : DOMAIN updated[j] = DOMAIN items[j] /\ OneNamed(j) /\ SameRaw(j)
  BY DEF StoreOK
<1>2. s \in Seq(Version) /\ len \in Nat /\ DOMAIN s = 1 .. len
  BY <1>1
<1>3. /\ items' \in [Id -> Seq(Version)] /\ items'[i] = Append(s, v)
      /\ \A j \in Id : j # i => items'[j] = items[j]
  BY <1>1
<1>4. /\ updated' \in [Id -> Seq(Nat)] /\ updated'[i] = Append(updated[i], t)
      /\ \A j \in Id : j # i => updated'[j] = updated[j]
  BY <1>1
<1>5. PICK w : w = items'[i]
  OBVIOUS
<1>6. /\ Len(w) = len + 1 /\ DOMAIN w = 1 .. len + 1 /\ w[len + 1] = v
      /\ \A n \in 1 .. len : w[n] = s[n]
  BY <1>2, <1>3, <1>5
<1>7. len = 0 => s = <<>>
  BY <1>2
<1>8. len # 0 => /\ v.user = NoUser \/ \E n \in 1 .. len : s[n].user = v.user
                 /\ \A n \in 1 .. len : Info[v.content].raw = IsRaw(<<i, n>>)
  <2>1. len # 0 => s # <<>>
    BY <1>2
  <2>2. QED
    BY <1>2, <2>1
<1>9. OneNamed(i)'
  <2>1. ASSUME NEW m \in 1 .. len, {s[m].user, v.user} \subseteq User PROVE s[m].user = v.user
    <3>1. len # 0 /\ v.user # NoUser
      BY <1>2, <2>1, StoreAssumption
    <3>2. PICK n \in 1 .. len : s[n].user = v.user
      BY <1>8, <3>1
    <3>3. QED
      BY <1>1, <1>2, <2>1, <3>2 DEF OneNamed
  <2>2. \A m, n \in 1 .. len : {s[m].user, s[n].user} \subseteq User => s[m].user = s[n].user
    BY <1>1, <1>2 DEF OneNamed
  <2>3. ASSUME NEW m \in 1 .. len + 1, NEW n \in 1 .. len + 1, {w[m].user, w[n].user} \subseteq User
        PROVE  w[m].user = w[n].user
    <3>1. CASE m \in 1 .. len /\ n \in 1 .. len
      BY <1>6, <2>2, <2>3, <3>1
    <3>2. CASE m \in 1 .. len /\ n = len + 1
      BY <1>6, <2>1, <2>3, <3>2
    <3>3. CASE m = len + 1 /\ n \in 1 .. len
      BY <1>6, <2>1, <2>3, <3>3
    <3>4. CASE m = len + 1 /\ n = len + 1
      BY <3>4
    <3>5. QED
      BY <1>2, <3>1, <3>2, <3>3, <3>4
  <2>4. QED
    BY <1>5, <1>6, <2>3 DEF OneNamed
<1>10. SameRaw(i)'
  <2> DEFINE raw(x) == Info[x.content].raw
  <2>1. \A m, n \in 1 .. len : raw(s[m]) = raw(s[n])
    <3>1. \A m, n \in DOMAIN items[i] : IsRaw(<<i, m>>) = IsRaw(<<i, n>>)
      BY <1>1 DEF SameRaw
    <3>2. \A m : IsRaw(<<i, m>>) = raw(s[m])
      BY DEF IsRaw, About, Hit
    <3> HIDE DEF raw
    <3>3. QED
      BY <1>2, <3>1, <3>2
  <2>2. \A m \in 1 .. len : raw(s[m]) = raw(v)
    BY <1>2, <1>8 DEF IsRaw, About, Hit
  <2> HIDE DEF raw, s, len
  <2>3. \A m, n \in 1 .. len + 1 : raw(w[m]) = raw(w[n])
    <3>1. SUFFICES ASSUME NEW m \in 1 .. len + 1, NEW n \in 1 .. len + 1
                   PROVE  raw(w[m]) = raw(w[n])
      OBVIOUS
    <3>2. \A x \in 1 .. len + 1 : x \in 1 .. len \/ x = len + 1
      BY <1>2
    <3>3. QED
      BY <1>6, <2>1, <2>2, <3>2
  <2>4. QED
    BY <1>5, <1>6, <2>3 DEF SameRaw, IsRaw, About, Hit, raw
<1>11. \A j \in Id : DOMAIN updated'[j] = DOMAIN items'[j] /\ OneNamed(j)' /\ SameRaw(j)'
  <2>1. SUFFICES ASSUME NEW j \in Id
                 PROVE  DOMAIN updated'[j] = DOMAIN items'[j] /\ OneNamed(j)' /\ SameRaw(j)'
    OBVIOUS
  <2>2. CASE j = i
    <3>1. Len(updated[i]) = len
      BY <1>1, <1>2
    <3>2. DOMAIN updated'[i] = 1 .. len + 1
      BY <1>1, <1>4, <3>1
    <3>3. QED
      BY <1>5, <1>6, <1>9, <1>10, <2>2, <3>2
  <2>3. CASE j # i
    BY <1>1, <1>3, <1>4, <2>3 DEF OneNamed, SameRaw, IsRaw, About, Hit
  <2>4. QED
    BY <2>2, <2>3
<1>12. \A j \in Id : /\ Len(items[j]) <= Len(items'[j])
                     /\ \A n \in 1 .. Len(items[j]) : items'[j][n] = items[j][n]
  <2>1. SUFFICES ASSUME NEW j \in Id
                 PROVE  /\ Len(items[j]) <= Len(items'[j])
                        /\ \A n \in 1 .. Len(items[j]) : items'[j][n] = items[j][n]
    OBVIOUS
  <2>2. CASE j = i
    BY <1>2, <1>5, <1>6, <2>2
  <2>3. CASE j # i
    BY <1>1, <1>3, <2>3
  <2>4. QED
    BY <2>2, <2>3
<1>13. ASSUME NEW j \in Id, NEW u \in Owner, OfUser(j, u) PROVE OfUser(j, u)'
  <2>1. CASE j # i \/ u = NoUser
    BY <1>3, <1>13, <2>1 DEF OfUser
  <2>2. CASE j = i /\ u # NoUser
    <3>1. /\ \E n \in 1 .. len : s[n].user = u
          /\ \A n \in 1 .. len : s[n].user \in {u, NoUser}
      BY <1>2, <1>13, <2>2 DEF OfUser, ToSet
    <3>2. len # 0
      BY <1>2, <3>1
    <3>3. v.user \in {u, NoUser}
      BY <1>8, <3>1, <3>2
    <3>4. \E n \in 1 .. len + 1 : w[n].user = u
      BY <1>2, <1>6, <3>1
    <3>5. ASSUME NEW n \in 1 .. len + 1 PROVE w[n].user \in {u, NoUser}
      <4>1. n \in 1 .. len \/ n = len + 1
        BY <1>2
      <4>2. QED
        BY <1>6, <3>1, <3>3, <4>1
    <3>6. QED
      BY <1>5, <1>6, <2>2, <3>4, <3>5 DEF OfUser, ToSet
  <2>3. QED
    BY <2>1, <2>2
<1>14. QED
  BY <1>3, <1>4, <1>11, <1>12, <1>13 DEF Grown

\* add_memory, scoped or not, adds a version and takes none.
LEMMA WriteGrows ==
  ASSUME StoreOK, WriteSome
  PROVE  StoreOK' /\ Grown
<1>1. PICK i \in Id, c \in Written, u \in Owner :
        /\ items[i] # <<>> => /\ \E n \in DOMAIN items[i] : Matches(items[i][n], u)
                              /\ Info[c].raw = IsRaw(<<i, 1>>)
        /\ WriteMemory(i, c, u)
  BY DEF WriteSome
<1> DEFINE v == [op |-> "ASSERT", content |-> c, user |-> u, count |-> 1, latest |-> TRUE]
<1>2. v \in Version /\ v.user = u /\ v.content = c
  BY ContextAssumption DEF Version
<1>3. writes' \in 0 .. MaxWrites /\ writes' \in Nat
  BY <1>1, SearchAssumption DEF StoreOK, WriteMemory, Write
<1>4. /\ items' = [items EXCEPT ![i] = Append(@, v)]
      /\ updated' = [updated EXCEPT ![i] = Append(@, writes')]
      /\ UNCHANGED <<edges, triples, summaries>>
  BY <1>1 DEF WriteMemory, PutMemory
<1>5. items[i] # <<>> =>
        /\ v.user = NoUser \/ \E n \in DOMAIN items[i] : items[i][n].user = v.user
        /\ \A n \in DOMAIN items[i] : Info[v.content].raw = IsRaw(<<i, n>>)
  <2>1. SUFFICES ASSUME items[i] # <<>>
                 PROVE  /\ u = NoUser \/ \E n \in DOMAIN items[i] : items[i][n].user = u
                        /\ \A n \in DOMAIN items[i] : Info[c].raw = IsRaw(<<i, n>>)
    BY <1>2
  <2>2. items[i] \in Seq(Version) /\ 1 \in DOMAIN items[i]
    BY <2>1 DEF StoreOK
  <2>3. \A n \in DOMAIN items[i] : IsRaw(<<i, 1>>) = IsRaw(<<i, n>>)
    BY <2>2 DEF StoreOK, SameRaw
  <2>4. QED
    BY <1>1, <2>1, <2>3 DEF Matches
<1> HIDE DEF v
<1>6. /\ items' \in [Id -> Seq(Version)] /\ updated' \in [Id -> Seq(Nat)]
      /\ \A j \in Id : DOMAIN updated'[j] = DOMAIN items'[j] /\ OneNamed(j)' /\ SameRaw(j)'
      /\ Grown
  BY <1>2, <1>3, <1>4, <1>5, VersionAdded
<1>7. QED
  BY <1>3, <1>4, <1>6 DEF StoreOK

\* A delete adds a retraction, which names the user of what it retracts.
LEMMA DeleteGrows ==
  ASSUME StoreOK, NEW i \in Id, DeleteMemory(i)
  PROVE  StoreOK' /\ Grown
<1> DEFINE v == [Current(i) EXCEPT !.op = "RETRACT"]
           t == updated[i][Len(updated[i])]
           last == Len(items[i])
<1>1. Visible(i) /\ items[i] \in Seq(Version) /\ updated[i] \in Seq(Nat)
      /\ DOMAIN updated[i] = DOMAIN items[i]
  BY DEF DeleteMemory, StoreOK
<1>2. last \in DOMAIN items[i] /\ Current(i) = items[i][last] /\ Current(i) \in Version
      /\ DOMAIN items[i] = 1 .. last
  BY <1>1 DEF Visible, Current
<1>3. v \in Version /\ v.user = items[i][last].user /\ v.content = items[i][last].content
  BY <1>2 DEF Version
<1>4. t \in Nat
  BY <1>1, <1>2
<1>5. writes' \in 0 .. MaxWrites
  BY SearchAssumption DEF StoreOK, DeleteMemory, Write
<1>6. /\ items' = [items EXCEPT ![i] = Append(@, v)]
      /\ updated' = [updated EXCEPT ![i] = Append(@, t)]
      /\ UNCHANGED <<edges, triples, summaries>>
  <2>1. updated' = [updated EXCEPT ![i] = Append(@, @[Len(@)])]
    BY DEF DeleteMemory
  <2>2. updated \in [Id -> Seq(Nat)]
    BY DEF StoreOK
  <2>3. QED
    BY <1>1, <2>1, <2>2 DEF DeleteMemory, InvalidateMemory, PutMemory
<1>7. \A n \in DOMAIN items[i] : Info[v.content].raw = IsRaw(<<i, n>>)
  <2>1. \A n \in DOMAIN items[i] : IsRaw(<<i, last>>) = IsRaw(<<i, n>>)
    BY <1>2 DEF StoreOK, SameRaw
  <2>2. IsRaw(<<i, last>>) = Info[items[i][last].content].raw
    BY DEF IsRaw, About, Hit
  <2>3. QED
    BY <1>3, <2>1, <2>2
<1>8. \E n \in DOMAIN items[i] : items[i][n].user = v.user
  BY <1>2, <1>3
<1> HIDE DEF v, t
<1>9. /\ items' \in [Id -> Seq(Version)] /\ updated' \in [Id -> Seq(Nat)]
      /\ \A j \in Id : DOMAIN updated'[j] = DOMAIN items'[j] /\ OneNamed(j)' /\ SameRaw(j)'
      /\ Grown
  BY <1>3, <1>4, <1>6, <1>7, <1>8, VersionAdded
<1>10. QED
  BY <1>5, <1>6, <1>9 DEF StoreOK

\* Writes to edges, triples and summaries leave the memories as they are.
LEMMA ItemsKept ==
  ASSUME StoreOK, UNCHANGED <<items, updated>>
  PROVE  /\ Grown /\ items' \in [Id -> Seq(Version)] /\ updated' \in [Id -> Seq(Nat)]
         /\ \A i \in Id : DOMAIN updated'[i] = DOMAIN items'[i] /\ OneNamed(i)' /\ SameRaw(i)'
<1>1. /\ items' \in [Id -> Seq(Version)] /\ updated' \in [Id -> Seq(Nat)]
      /\ \A i \in Id : DOMAIN updated'[i] = DOMAIN items'[i] /\ OneNamed(i)' /\ SameRaw(i)'
  BY DEF StoreOK, OneNamed, SameRaw, IsRaw, About, Hit
<1>2. Grown
  <2>1. \A i \in Id : Len(items[i]) \in Nat
    BY DEF StoreOK
  <2>2. QED
    BY <2>1 DEF Grown, OfUser
<1>3. QED
  BY <1>1, <1>2

\* Whatever is written while a context is prepared, the store stays in order.
LEMMA StoreGrows ==
  ASSUME StoreOK, Elsewhere \/ UNCHANGED searchVars
  PROVE  StoreOK' /\ Grown
<1>1. CASE UNCHANGED searchVars
  BY <1>1, ItemsKept DEF StoreOK, searchVars, storeVars
<1>2. CASE Elsewhere
  <2>1. CASE WriteSome
    BY <2>1, WriteGrows
  <2>2. ASSUME NEW i \in Id, DeleteMemory(i) PROVE StoreOK' /\ Grown
    BY <2>2, DeleteGrows
  <2>3. Write => writes' \in 0 .. MaxWrites
    BY SearchAssumption DEF StoreOK, Write
  <2>4. ASSUME NEW i \in Id, NEW j \in Id, AddRelationship(i, j) PROVE StoreOK' /\ Grown
    <3>1. edges' \subseteq Edge
      BY <2>4 DEF AddRelationship, PutEdges, StoreOK, Edge
    <3>2. QED
      BY <2>3, <2>4, <3>1, ItemsKept DEF AddRelationship, StoreOK
  <2>5. ASSUME NEW e \in edges, RemoveEdge(e) PROVE StoreOK' /\ Grown
    BY <2>3, <2>5, ItemsKept DEF RemoveEdge, StoreOK
  <2>6. ASSUME NEW i \in Id, NEW w \in NameWords, AddTriple(w, i) PROVE StoreOK' /\ Grown
    <3>1. triples' \subseteq [subject : Word, id : Id]
      BY <2>6, WordAssumption DEF AddTriple, StoreOK
    <3>2. QED
      BY <2>3, <2>6, <3>1, ItemsKept DEF AddTriple, StoreOK, storeVars
  <2>7. ASSUME NEW s \in Session, AddSummary(s) PROVE StoreOK' /\ Grown
    BY <2>3, <2>7, ItemsKept DEF AddSummary, StoreOK, storeVars
  <2>8. QED
    BY <1>2, <2>1, <2>2, <2>4, <2>5, <2>6, <2>7 DEF Elsewhere
<1>3. QED
  BY <1>1, <1>2

\* What an index has stays in it, unchanged.
LEMMA IndexGrows ==
  ASSUME StoreOK, StoreOK', Grown
  PROVE  /\ Index(NoUser) \subseteq Index(NoUser)'
         /\ \A h \in Index(NoUser) : Hit(h)' = Hit(h)
<1>1. \A i \in Id : /\ items[i] \in Seq(Version) /\ items'[i] \in Seq(Version)
                    /\ Len(items[i]) <= Len(items'[i])
                    /\ \A n \in 1 .. Len(items[i]) : items'[i][n] = items[i][n]
  BY DEF StoreOK, Grown
<1>2. \A i \in Id : DOMAIN items[i] \subseteq DOMAIN items'[i]
  BY <1>1
<1>3. Index(NoUser) \subseteq Index(NoUser)'
  BY <1>2 DEF Index, Matches
<1>4. \A h \in Index(NoUser) : h[1] \in Id /\ h[2] \in DOMAIN items[h[1]]
  BY DEF Index
<1>5. QED
  BY <1>1, <1>3, <1>4 DEF Hit

-----------------------------------------------------------------------------
(* Sets and sequences.                                                     *)

\* What is taken off a sequence is of that sequence.
LEMMA TruncateIs ==
  ASSUME NEW S, NEW s \in Seq(S), NEW k \in Nat
  PROVE  /\ Truncate(s, k) \in Seq(S) /\ Len(Truncate(s, k)) = AtMost(k, Len(s))
         /\ \A n \in 1 .. Len(Truncate(s, k)) : Truncate(s, k)[n] = s[n]
         /\ ToSet(Truncate(s, k)) \subseteq ToSet(s)
<1> DEFINE n == AtMost(k, Len(s))
           t == Truncate(s, k)
<1>1. n \in Nat /\ n <= Len(s) /\ Len(s) \in Nat
  BY DEF AtMost
<1>2. \A i \in 1 .. n : s[i] \in S
  BY <1>1
<1>3. t = SubSeq(s, 1, n)
  BY DEF Truncate
<1> HIDE DEF n, t
<1>4. t \in Seq(S) /\ Len(t) = n /\ \A i \in 1 .. n : t[i] = s[i]
  BY <1>1, <1>2, <1>3, SubSeqProperties
<1>5. ToSet(t) \subseteq ToSet(s)
  BY <1>1, <1>4 DEF ToSet
<1>6. QED
  BY <1>4, <1>5 DEF n, t

-----------------------------------------------------------------------------
(* Hits.                                                                   *)

\* Finitely many ids with finitely many versions make finitely many hits.
LEMMA IndexFinite == ASSUME StoreOK PROVE IsFiniteSet(Index(NoUser))
<1> DEFINE f == [i \in Id |-> {i} \X {n \in DOMAIN items[i] : Matches(items[i][n], NoUser)}]
<1>1. ASSUME NEW i \in Id PROVE IsFiniteSet(f[i])
  <2>1. items[i] \in Seq(Version)
    BY DEF StoreOK
  <2>2. DOMAIN items[i] = 1 .. Len(items[i]) /\ Len(items[i]) \in Nat
    BY <2>1
  <2>3. IsFiniteSet(DOMAIN items[i])
    BY <2>2, FS_Interval
  <2>4. IsFiniteSet({n \in DOMAIN items[i] : Matches(items[i][n], NoUser)})
    BY <2>3, FS_Subset
  <2>5. IsFiniteSet({i})
    BY FS_Singleton
  <2>6. QED
    BY <2>4, <2>5, FS_Product
<1>2. IsFiniteSet(Id) /\ DOMAIN f = Id
  BY DatabaseAssumption
<1> HIDE DEF f
<1>3. IsFiniteSet({f[i] : i \in Id})
  BY <1>2, ImageFinite
<1>4. IsFiniteSet(UNION {f[i] : i \in Id})
  BY <1>1, <1>3, FS_UNION
<1>5. Index(NoUser) = UNION {f[i] : i \in Id}
  BY DEF Index, f
<1>6. QED
  BY <1>4, <1>5

\* A user's hits are those of anybody's versions that match.
LEMMA IndexOf ==
  ASSUME StoreOK, NEW u
  PROVE  /\ Index(u) = {h \in Index(NoUser) : Matches(Hit(h), u)}
         /\ \A h \in Index(u) : /\ h[1] \in Id /\ h[2] \in DOMAIN items[h[1]]
                                /\ Hit(h) \in Version /\ h = <<h[1], h[2]>>
<1>1. \A i \in Id : items[i] \in Seq(Version)
  BY DEF StoreOK
<1>2. \A i \in Id : \A n \in DOMAIN items[i] : items[i][n] \in Version
  BY <1>1
<1>3. QED
  BY <1>2 DEF Index, Matches, Hit

\* A query at NOW returns last versions, and only asserted ones; the index has them.
LEMMA CurrentIndexed ==
  ASSUME StoreOK, NEW u
  PROVE  /\ CurrentHits(u) \subseteq Index(u) /\ CurrentHits(u) \subseteq CurrentHits(NoUser)
         /\ \A h \in CurrentHits(u) : h[2] = Len(items[h[1]]) /\ Hit(h).op = "ASSERT"
<1>1. ASSUME NEW i \in Id, Visible(i)
      PROVE  /\ Len(items[i]) \in DOMAIN items[i]
             /\ Hit(Now(i)) = Current(i)
  <2>1. items[i] \in Seq(Version) /\ items[i] # <<>>
    BY <1>1 DEF StoreOK, Visible
  <2>2. QED
    BY <2>1 DEF Hit, Now, Current
<1>2. \A h \in CurrentHits(u) : \E i \in Id : /\ h = <<i, Len(items[i])>> /\ Visible(i)
                                              /\ Matches(Current(i), u)
  BY DEF CurrentHits, Now
<1>3. CurrentHits(u) \subseteq Index(u)
  BY <1>1, <1>2 DEF Index, Current
<1>4. CurrentHits(u) \subseteq CurrentHits(NoUser)
  BY DEF CurrentHits, Matches
<1>5. \A h \in CurrentHits(u) : h[2] = Len(items[h[1]]) /\ Hit(h).op = "ASSERT"
  BY <1>1, <1>2 DEF Visible, Now
<1>6. QED
  BY <1>3, <1>4, <1>5

\* A subset of a user's hits can be put in order.
LEMMA HitsFinite ==
  ASSUME StoreOK, NEW u, NEW hits, hits \subseteq Index(u)
  PROVE  IsFiniteSet(hits)
<1>1. hits \in SUBSET Index(NoUser)
  BY IndexOf
<1>2. QED
  BY <1>1, IndexFinite, FS_Subset

\* A search returns some of what it searches.
LEMMA FoundAmong ==
  /\ \A k, hits, c : \A best \in Nearest(k, hits, c) : best \subseteq hits
  /\ \A k, hits : \A best \in AnyOf(k, hits) : best \subseteq hits
  BY DEF Nearest, AnyOf, kSubset

-----------------------------------------------------------------------------
(* Hybrid search.                                                          *)

\* The fused results: at most k, none of an id that was seen, and no id twice.
LEMMA FusedIs ==
  ASSUME StoreOK, NEW u, NEW k \in Nat, NEW seen,
         NEW semantic, semantic \subseteq Index(u), NEW text, text \subseteq Index(u),
         NEW lsh, lsh \subseteq Index(u), NEW r \in Fused(k, seen, semantic, text, lsh)
  PROVE  /\ r \in Seq(Index(u)) /\ Len(r) <= k
         /\ \A m, n \in 1 .. Len(r) : m # n => r[m][1] # r[n][1]
         /\ \A n \in 1 .. Len(r) : r[n][1] \notin seen
<1> DEFINE unseen(hits) == {h \in hits : h[1] \notin seen}
           without(hits, ids) == {h \in unseen(hits) : h[1] \notin ids}
<1>1. PICK a, b, c, best :
        /\ a \in Versions(unseen(semantic))
        /\ b \in Versions(without(text, IdsOf(semantic)))
        /\ c \in Versions(without(lsh, IdsOf(semantic \cup text)))
        /\ best \in AnyOf(k, a \cup b \cup c)
        /\ r \in SetToSeqs(best)
  <2> DEFINE A == Versions(unseen(semantic))
             B == Versions(without(text, IdsOf(semantic)))
             C == Versions(without(lsh, IdsOf(semantic \cup text)))
             pool == {a \cup b \cup c : a \in A, b \in B, c \in C}
  <2>1. PICK hits \in pool : \E best \in AnyOf(k, hits) : r \in SetToSeqs(best)
    <3>1. Fused(k, seen, semantic, text, lsh) =
            UNION {UNION {SetToSeqs(best) : best \in AnyOf(k, hits)} : hits \in pool}
      BY DEF Fused
    <3> HIDE DEF pool
    <3>2. QED
      BY <3>1
  <2> HIDE DEF A, B, C
  <2>2. \E a \in A, b \in B, c \in C : hits = a \cup b \cup c
    BY <2>1
  <2> HIDE DEF pool
  <2>3. QED
    BY <2>1, <2>2 DEF A, B, C
<1>2. /\ a \subseteq unseen(semantic) /\ Once(a)
      /\ b \subseteq without(text, IdsOf(semantic)) /\ Once(b)
      /\ c \subseteq without(lsh, IdsOf(semantic \cup text)) /\ Once(c)
  BY <1>1, VersionsOnce
<1> DEFINE all == a \cup b \cup c
<1>3. Once(all)
  <2>1. /\ \A g \in a : g[1] \in IdsOf(semantic) /\ g[1] \in IdsOf(semantic \cup text)
        /\ \A g \in b : g[1] \notin IdsOf(semantic) /\ g[1] \in IdsOf(semantic \cup text)
        /\ \A g \in c : g[1] \notin IdsOf(semantic \cup text)
    BY <1>2 DEF IdsOf
  <2>2. QED
    BY <1>2, <2>1 DEF Once
<1>4. all \subseteq Index(u) /\ \A h \in all : h[1] \notin seen
  BY <1>2
<1> HIDE DEF all
<1>5. best \subseteq all /\ Cardinality(best) <= k
  <2>1. IsFiniteSet(all) /\ Cardinality(all) \in Nat
    BY <1>4, HitsFinite, FS_CardinalityType
  <2>2. best \subseteq all /\ Cardinality(best) = AtMost(k, Cardinality(all))
    BY <1>1 DEF AnyOf, kSubset, all
  <2>3. QED
    BY <2>1, <2>2 DEF AtMost
<1>6. IsFiniteSet(best)
  BY <1>4, <1>5, HitsFinite
<1>7. /\ r \in Seq(best) /\ Len(r) = Cardinality(best) /\ ToSet(r) = best
      /\ \A m, n \in 1 .. Len(r) : m # n => r[m] # r[n]
  BY <1>1, <1>6, SetToSeqsAre
<1>8. \A n \in 1 .. Len(r) : r[n] \in best
  BY <1>7
<1>9. QED
  <2>1. r \in Seq(Index(u))
    BY <1>4, <1>5, <1>7, SeqMonotonic
  <2>2. \A m, n \in 1 .. Len(r) : m # n => r[m][1] # r[n][1]
    BY <1>3, <1>5, <1>7, <1>8 DEF Once
  <2>3. QED
    BY <1>4, <1>5, <1>7, <1>8, <2>1, <2>2

\* Text hits first, while there are places for them, and then fused ones of other ids.
LEMMA HybridIs ==
  ASSUME StoreOK, NEW u, NEW k \in Nat,
         NEW semantic, semantic \subseteq Index(u), NEW text, text \subseteq Index(u),
         NEW lsh, lsh \subseteq Index(u), NEW r \in Hybrid(k, semantic, text, lsh)
  PROVE  /\ r \in Seq(Index(u)) /\ Len(r) <= k
         /\ \A m, n \in 1 .. Len(r) : m < n /\ r[m][1] = r[n][1] => n <= Reserved
<1> DEFINE places == AtMost(k, AtMost(Reserved, Cardinality(text)))
<1>1. PICK best, front, rest : /\ best \in kSubset(places, text)
                               /\ front \in SetToSeqs(best)
                               /\ rest \in Fused(k - places, SeenIds(front), semantic, text, lsh)
                               /\ r = front \o rest
  BY DEF Hybrid
<1>2. IsFiniteSet(text) /\ Cardinality(text) \in Nat /\ Reserved \in Nat
  BY HitsFinite, FS_CardinalityType, SearchAssumption
<1>3. places \in Nat /\ places <= k /\ places <= Reserved
  BY <1>2 DEF AtMost
<1> HIDE DEF places
<1>4. best \subseteq text /\ Cardinality(best) = places /\ IsFiniteSet(best)
  BY <1>1, <1>2, FS_Subset DEF kSubset
<1>5. front \in Seq(best) /\ Len(front) = places /\ ToSet(front) = best
  BY <1>1, <1>4, SetToSeqsAre
<1>6. front \in Seq(Index(u))
  <2>1. best \subseteq Index(u)
    BY <1>4
  <2>2. QED
    BY <1>5, <2>1, SeqMonotonic
<1>7. /\ rest \in Seq(Index(u)) /\ Len(rest) <= k - places
      /\ \A m, n \in 1 .. Len(rest) : m # n => rest[m][1] # rest[n][1]
      /\ \A n \in 1 .. Len(rest) : rest[n][1] \notin SeenIds(front)
  <2>1. k - places \in Nat
    BY <1>3
  <2>2. QED
    BY <1>1, <2>1, FusedIs
<1>8. /\ r \in Seq(Index(u)) /\ Len(r) = places + Len(rest)
      /\ \A n \in 1 .. places : r[n] = front[n]
      /\ \A n \in 1 .. Len(rest) : r[places + n] = rest[n]
  <2>1. /\ Len(front \o rest) = Len(front) + Len(rest)
        /\ \A n \in 1 .. Len(front) + Len(rest) :
             (front \o rest)[n] = IF n <= Len(front) THEN front[n] ELSE rest[n - Len(front)]
    BY <1>6, <1>7, ConcatProperties
  <2>2. Len(rest) \in Nat
    BY <1>7
  <2>3. r \in Seq(Index(u))
    BY <1>1, <1>6, <1>7, ConcatProperties
  <2>4. \A n \in 1 .. places : r[n] = front[n]
    BY <1>1, <1>3, <1>5, <2>1, <2>2
  <2>5. ASSUME NEW n \in 1 .. Len(rest) PROVE r[places + n] = rest[n]
    <3>1. /\ places + n \in 1 .. places + Len(rest) /\ ~(places + n <= places)
          /\ places + n - places = n
      BY <1>3, <2>2
    <3>2. QED
      BY <1>1, <1>5, <2>1, <3>1
  <2>6. QED
    BY <1>1, <1>5, <2>1, <2>3, <2>4, <2>5
<1>9. \A n \in 1 .. places : front[n][1] \in SeenIds(front)
  BY <1>5 DEF SeenIds, IdsOf, ToSet
<1>10. ASSUME NEW m \in 1 .. Len(r), NEW n \in 1 .. Len(r), m < n, r[m][1] = r[n][1], n > places
       PROVE  FALSE
  <2>1. n - places \in 1 .. Len(rest) /\ r[n] = rest[n - places]
    <3>1. n - places \in 1 .. Len(rest) /\ places + (n - places) = n
      BY <1>3, <1>7, <1>8, <1>10
    <3>2. QED
      BY <1>8, <3>1
  <2>2. CASE m \in 1 .. places
    BY <1>7, <1>8, <1>9, <1>10, <2>1, <2>2
  <2>3. CASE m \notin 1 .. places
    <3>1. m - places \in 1 .. Len(rest) /\ places + (m - places) = m /\ m - places # n - places
      BY <1>3, <1>7, <1>8, <1>10, <2>3
    <3>2. QED
      BY <1>7, <1>8, <1>10, <2>1, <3>1
  <2>4. QED
    BY <2>2, <2>3
<1>11. QED
  <2>1. Len(r) <= k
    BY <1>3, <1>7, <1>8
  <2>2. ASSUME NEW m \in 1 .. Len(r), NEW n \in 1 .. Len(r), m < n, r[m][1] = r[n][1]
        PROVE  n <= Reserved
    <3>1. ~(n > places)
      BY <1>10, <2>2
    <3>2. QED
      BY <1>2, <1>3, <1>8, <3>1
  <2>3. QED
    BY <1>8, <2>1, <2>2

\* A search asks each of the indexes, and what text and LSH find is filtered for the user.
LEMMA SearchHybridIs ==
  ASSUME StoreOK, NEW q, NEW k \in Nat, NEW u, NEW t, NEW r \in SearchHybrid(q, k, u, t)
  PROVE  /\ r \in Seq(Index(u)) /\ Len(r) <= k
         /\ \A m, n \in 1 .. Len(r) : m < n /\ r[m][1] = r[n][1] => n <= Reserved
<1>1. PICK semantic, text, lsh :
        /\ semantic \in SearchSemanticTyped(q, k, u, t)
        /\ text \in SearchText(q.words, k) /\ lsh \in SearchLsh(q, k)
        /\ r \in Hybrid(k, semantic, Filtered(text, u, t), Filtered(lsh, u, t))
  BY DEF SearchHybrid
<1>2. semantic \subseteq Index(u)
  BY <1>1, FoundAmong DEF SearchSemanticTyped, OfType
<1>3. text \subseteq Index(NoUser) /\ lsh \subseteq Index(NoUser)
  BY <1>1, FoundAmong DEF SearchText, SearchLsh
<1>4. \A hits : hits \subseteq Index(NoUser) => Filtered(hits, u, t) \subseteq Index(u)
  BY IndexOf DEF Filtered, OfType
<1>5. QED
  BY <1>1, <1>2, <1>3, <1>4, HybridIs

-----------------------------------------------------------------------------
(* Deduplication.                                                          *)

\* The times of hits can be compared, and overlap is mutual.
LEMMA HitsCompare ==
  ASSUME StoreOK, NEW u
  PROVE  /\ \A h \in Index(u) : UpdatedAt(h) \in Nat /\ CreatedAt(h) \in Nat
         /\ \A g, h \in Index(u) : Overlap(g, h) => Overlap(h, g)
<1>1. ASSUME NEW h \in Index(u) PROVE UpdatedAt(h) \in Nat /\ CreatedAt(h) \in Nat
  <2>1. h[1] \in Id /\ h[2] \in DOMAIN items[h[1]]
    BY IndexOf
  <2>2. /\ updated[h[1]] \in Seq(Nat) /\ DOMAIN updated[h[1]] = DOMAIN items[h[1]]
        /\ items[h[1]] \in Seq(Version)
    BY <2>1 DEF StoreOK
  <2>3. h[2] \in DOMAIN updated[h[1]] /\ 1 \in DOMAIN updated[h[1]]
    BY <2>1, <2>2
  <2>4. QED
    BY <2>2, <2>3 DEF UpdatedAt, CreatedAt
<1>2. \A h \in Index(u) : Hit(h).content \in Content
  BY IndexOf DEF Version
<1>3. \A g, h \in Index(u) : Overlap(g, h) => Overlap(h, g)
  BY <1>2, SearchAssumption DEF Overlap
<1>4. QED
  BY <1>1, <1>3

\* What deduplication has kept of the first n results: no two that overlap, and of the
\* others none without one that overlaps it and is as new.
KeptOf(raw, kept, n) ==
  /\ kept \subseteq 1 .. n
  /\ \A j, k \in kept : j # k => ~Overlap(raw[j], raw[k])
  /\ \A j \in 1 .. n :
       \/ \E k \in kept : raw[k] = raw[j]
       \/ \E k \in 1 .. n : /\ raw[k] # raw[j] /\ Overlap(raw[k], raw[j])
                            /\ UpdatedAt(raw[k]) >= UpdatedAt(raw[j])

\* One turn of the loop of search_hybrid_deduped.
LEMMA KeepStep ==
  ASSUME StoreOK, NEW u, NEW raw \in Seq(Index(u)), NEW n \in 0 .. Len(raw) - 1,
         NEW kept, KeptOf(raw, kept, n)
  PROVE  KeptOf(raw, Keep(raw, kept, n + 1), n + 1)
<1> DEFINE N == n + 1
           as_new(k) == Overlap(raw[k], raw[N]) /\ UpdatedAt(raw[k]) >= UpdatedAt(raw[N])
           older(k) == Overlap(raw[k], raw[N]) /\ UpdatedAt(raw[N]) > UpdatedAt(raw[k])
<1>1. /\ n \in Nat /\ N \in Nat /\ N = n + 1 /\ N \in 1 .. N
      /\ \A k \in 1 .. N : k \in 1 .. n \/ k = N
      /\ \A k \in 1 .. n : k \in 1 .. N /\ k # N
  OBVIOUS
<1>2. \A k \in 1 .. N : raw[k] \in Index(u)
  OBVIOUS
<1>3. /\ \A k \in 1 .. N : UpdatedAt(raw[k]) \in Nat
      /\ \A j, k \in 1 .. N : Overlap(raw[j], raw[k]) => Overlap(raw[k], raw[j])
  BY <1>2, HitsCompare
<1>4. /\ kept \subseteq 1 .. n
      /\ \A j, k \in kept : j # k => ~Overlap(raw[j], raw[k])
      /\ \A j \in 1 .. n :
           \/ \E k \in kept : raw[k] = raw[j]
           \/ \E k \in 1 .. n : /\ raw[k] # raw[j] /\ Overlap(raw[k], raw[j])
                                /\ UpdatedAt(raw[k]) >= UpdatedAt(raw[j])
  BY DEF KeptOf
<1>5. PICK next : next = Keep(raw, kept, N)
  OBVIOUS
<1>6. CASE \E k \in kept : as_new(k)
  <2>1. next = kept
    BY <1>5, <1>6 DEF Keep
  <2>2. PICK k \in kept : as_new(k)
    BY <1>6
  <2> HIDE DEF N
  <2>3. ASSUME NEW j \in 1 .. N
        PROVE  \/ \E m \in kept : raw[m] = raw[j]
               \/ \E m \in 1 .. N : /\ raw[m] # raw[j] /\ Overlap(raw[m], raw[j])
                                    /\ UpdatedAt(raw[m]) >= UpdatedAt(raw[j])
    <3>1. CASE j = N
      BY <1>1, <1>4, <2>2, <3>1
    <3>2. CASE j \in 1 .. n
      BY <1>1, <1>4, <3>2
    <3>3. QED
      BY <1>1, <3>1, <3>2
  <2>4. kept \subseteq 1 .. N
    BY <1>1, <1>4
  <2>5. KeptOf(raw, next, N)
    BY <1>4, <2>1, <2>3, <2>4 DEF KeptOf
  <2>6. QED
    BY <1>5, <2>5 DEF N
<1>7. CASE ~ \E k \in kept : as_new(k)
  <2>1. next = {k \in kept : ~older(k)} \cup {N}
    BY <1>5, <1>7 DEF Keep
  <2> HIDE DEF N
  <2>2. next \subseteq 1 .. N
    BY <1>1, <1>4, <2>1
  <2>3. \A k \in kept : k \in next => ~Overlap(raw[k], raw[N])
    <3>1. \A k \in kept : k \in 1 .. N /\ k # N
      BY <1>1, <1>4
    <3>2. \A k \in kept : k \in next => ~as_new(k) /\ ~older(k)
      BY <1>7, <2>1, <3>1
    <3>3. QED
      BY <1>1, <1>3, <3>1, <3>2
  <2>4. ASSUME NEW j \in next, NEW k \in next, j # k PROVE ~Overlap(raw[j], raw[k])
    <3>1. (j \in kept \/ j = N) /\ (k \in kept \/ k = N)
      BY <2>1
    <3>2. CASE j \in kept /\ k \in kept
      BY <1>4, <2>4, <3>2
    <3>3. CASE k = N
      BY <2>3, <2>4, <3>1, <3>3
    <3>4. CASE j = N
      BY <1>1, <1>3, <2>2, <2>3, <2>4, <3>1, <3>4
    <3>5. QED
      BY <3>1, <3>2, <3>3, <3>4
  <2>5. ASSUME NEW j \in 1 .. N
        PROVE  \/ \E m \in next : raw[m] = raw[j]
               \/ \E m \in 1 .. N : /\ raw[m] # raw[j] /\ Overlap(raw[m], raw[j])
                                    /\ UpdatedAt(raw[m]) >= UpdatedAt(raw[j])
    <3>1. CASE j = N
      BY <2>1, <3>1
    <3>2. ASSUME j \in 1 .. n, NEW k \in kept, raw[k] = raw[j]
          PROVE  \/ \E m \in next : raw[m] = raw[j]
                 \/ \E m \in 1 .. N : /\ raw[m] # raw[j] /\ Overlap(raw[m], raw[j])
                                      /\ UpdatedAt(raw[m]) >= UpdatedAt(raw[j])
      <4>1. CASE k \in next
        BY <3>2, <4>1
      <4>2. CASE k \notin next
        <5>1. older(k) /\ k \in 1 .. N
          BY <1>1, <1>4, <2>1, <4>2
        <5>2. raw[N] # raw[j] /\ Overlap(raw[N], raw[j]) /\ UpdatedAt(raw[N]) >= UpdatedAt(raw[j])
          BY <1>1, <1>3, <3>2, <5>1
        <5>3. QED
          BY <1>1, <5>2
      <4>3. QED
        BY <4>1, <4>2
    <3>3. QED
      BY <1>1, <1>4, <3>1, <3>2
  <2>6. KeptOf(raw, next, N)
    BY <2>2, <2>4, <2>5 DEF KeptOf
  <2>7. QED
    BY <1>5, <2>6 DEF N
<1>8. QED
  BY <1>6, <1>7

\* After its last turn the loop has looked at all of them.
LEMMA KeptIs ==
  ASSUME StoreOK, NEW u, NEW raw \in Seq(Index(u))
  PROVE  KeptOf(raw, Kept(raw), Len(raw))
<1> DEFINE len == Len(raw)
           V == SUBSET (1 .. len)
           init == {}
           keep == [n \in 1 .. len |-> [kept \in V |-> Keep(raw, kept, n)]]
           rec(g, n) == IF n = 0 THEN {} ELSE Keep(raw, g[n - 1], n)
<1>1. len \in Nat
  OBVIOUS
<1>2. \A n \in 1 .. len : \A kept \in V : Keep(raw, kept, n) \in V
  BY DEF Keep
<1>3. PICK g \in [0 .. len -> V] :
        g[0] = {} /\ \A n \in 1 .. len : g[n] = keep[n][g[n - 1]]
  <2>1. keep \in [1 .. len -> [V -> V]] /\ init \in V
    BY <1>2
  <2> HIDE DEF keep, V, init
  <2>2. \E g : Recursive(g, len, V, init, keep)
    BY <1>1, <2>1, Recursion
  <2>3. QED
    BY <2>2 DEF Recursive, init
<1>4. \A n \in 1 .. len : g[n - 1] \in V /\ g[n] = Keep(raw, g[n - 1], n)
  <2>1. SUFFICES ASSUME NEW n \in 1 .. len
                 PROVE  g[n - 1] \in V /\ g[n] = Keep(raw, g[n - 1], n)
    OBVIOUS
  <2>2. g[n] = keep[n][g[n - 1]]
    <3> HIDE DEF keep
    <3>1. QED
      BY <1>3
  <2>3. n - 1 \in 0 .. len
    BY <1>1
  <2> HIDE DEF V
  <2>4. g[n - 1] \in V
    BY <2>3
  <2>5. QED
    BY <2>2, <2>4
<1>5. PICK f : (\A n \in 0 .. len : f[n] = rec(f, n)) /\ Kept(raw) = f[len]
  <2> DEFINE Rec(h) == h = [n \in 0 .. len |-> rec(h, n)]
             f == CHOOSE h : Rec(h)
  <2>1. \A n \in 0 .. len : g[n] = rec(g, n)
    <3>1. \A n \in 0 .. len : n = 0 \/ n \in 1 .. len
      BY <1>1
    <3>2. QED
      BY <1>3, <1>4, <3>1
  <2>2. Rec(f)
    <3>1. g = [n \in 0 .. len |-> g[n]]
      OBVIOUS
    <3>2. Rec(g)
      BY <2>1, <3>1
    <3> HIDE DEF Rec
    <3>3. QED
      BY <3>2
  <2>3. Kept(raw) = f[len]
    BY DEF Kept
  <2>4. QED
    BY <2>2, <2>3
<1> DEFINE Good == {n \in 0 .. len : KeptOf(raw, f[n], n)}
<1>6. 0 \in Good
  <2>1. f[0] = {}
    BY <1>1, <1>5
  <2>2. QED
    BY <1>1, <2>1 DEF KeptOf
<1>7. ASSUME NEW n \in 0 .. len - 1, n \in Good PROVE n + 1 \in Good
  <2>1. n + 1 \in 0 .. len /\ n + 1 # 0 /\ n + 1 - 1 = n
    BY <1>1
  <2>2. f[n + 1] = Keep(raw, f[n], n + 1)
    BY <1>5, <2>1
  <2>3. KeptOf(raw, f[n + 1], n + 1)
    BY <1>7, <2>2, KeepStep
  <2>4. QED
    BY <2>1, <2>3
<1>8. 0 .. len \subseteq Good
  BY <1>1, <1>6, <1>7, InductionUpTo
<1>9. QED
  BY <1>1, <1>5, <1>8

\* What is kept does not overlap, and what is dropped has something as new instead.
LEMMA DedupIs ==
  ASSUME StoreOK, NEW u, NEW raw \in Seq(Index(u))
  PROVE  /\ Dedup(raw) \in Seq(Index(u)) /\ ToSet(Dedup(raw)) \subseteq ToSet(raw)
         /\ Len(raw) > 1 =>
              /\ \A m, n \in DOMAIN Dedup(raw) : m # n => ~Overlap(Dedup(raw)[m], Dedup(raw)[n])
              /\ \A h \in ToSet(raw) \ ToSet(Dedup(raw)) : \E g \in ToSet(raw) :
                   g # h /\ Overlap(g, h) /\ UpdatedAt(g) >= UpdatedAt(h)
<1>1. CASE Len(raw) <= 1
  <2>1. Dedup(raw) = raw /\ ~(Len(raw) > 1)
    BY <1>1 DEF Dedup
  <2>2. QED
    BY <2>1
<1>2. CASE ~(Len(raw) <= 1)
  <2> DEFINE len == Len(raw)
  <2>1. PICK kept, t : kept = Kept(raw) /\ t = Selected(raw, kept)
    OBVIOUS
  <2>2. Dedup(raw) = t
    BY <1>2, <2>1 DEF Dedup
  <2>3. len \in Nat /\ DOMAIN raw = 1 .. len
    OBVIOUS
  <2>4. KeptOf(raw, kept, len)
    BY <2>1, KeptIs
  <2>5. kept \in SUBSET DOMAIN raw
    BY <2>3, <2>4 DEF KeptOf
  <2>6. t \in Seq(Index(u)) /\ IsSelection(raw, kept, t)
    BY <2>1, <2>5, SelectedParts
  <2>7. PICK at \in [1 .. Len(t) -> kept] :
          /\ \A i \in 1 .. Len(t) : t[i] = raw[at[i]]
          /\ \A i, j \in 1 .. Len(t) : i < j => at[i] < at[j]
          /\ \A n \in kept : \E i \in 1 .. Len(t) : at[i] = n
    BY <2>6 DEF IsSelection
  <2>8. DOMAIN t = 1 .. Len(t) /\ Len(t) \in Nat
    BY <2>6
  <2>9. ToSet(t) = {raw[n] : n \in kept}
    BY <2>7, <2>8 DEF ToSet
  <2>10. ToSet(t) \subseteq ToSet(raw)
    BY <2>5, <2>9 DEF ToSet
  <2>11. ASSUME NEW m \in DOMAIN t, NEW n \in DOMAIN t, m # n PROVE ~Overlap(t[m], t[n])
    <3>1. m \in 1 .. Len(t) /\ n \in 1 .. Len(t) /\ (m < n \/ n < m)
      BY <2>8, <2>11
    <3>2. at[m] \in kept /\ at[n] \in kept /\ at[m] \in Nat /\ at[n] \in Nat
      BY <2>3, <2>5, <2>7, <3>1
    <3>3. at[m] < at[n] \/ at[n] < at[m]
      BY <2>7, <3>1
    <3>4. at[m] # at[n]
      BY <3>2, <3>3
    <3>5. QED
      BY <2>4, <2>7, <3>1, <3>2, <3>4 DEF KeptOf
  <2>12. ASSUME NEW h \in ToSet(raw) \ ToSet(t)
         PROVE  \E g \in ToSet(raw) : g # h /\ Overlap(g, h) /\ UpdatedAt(g) >= UpdatedAt(h)
    <3>1. PICK j \in 1 .. len : h = raw[j]
      BY <2>3, <2>12 DEF ToSet
    <3>2. ~ \E k \in kept : raw[k] = raw[j]
      BY <2>9, <2>12, <3>1
    <3>3. PICK k \in 1 .. len : /\ raw[k] # raw[j] /\ Overlap(raw[k], raw[j])
                                /\ UpdatedAt(raw[k]) >= UpdatedAt(raw[j])
      BY <2>4, <3>2 DEF KeptOf
    <3>4. raw[k] \in ToSet(raw)
      BY <2>3 DEF ToSet
    <3>5. QED
      BY <3>1, <3>3, <3>4
  <2>13. QED
    BY <2>2, <2>6, <2>10, <2>11, <2>12
<1>3. QED
  BY <1>1, <1>2

\* A deduplicated search for a user returns the user's.
LEMMA DedupedIs ==
  ASSUME StoreOK, NEW q, NEW k \in Nat, NEW u, NEW t, NEW s \in SearchHybridDeduped(q, k, u, t)
  PROVE  ToSet(s) \subseteq Index(u)
<1>1. PICK raw \in SearchHybrid(q, k + Headroom, u, t) :
        s = IF Len(raw) <= 1 THEN raw ELSE Truncate(Dedup(raw), k)
  BY DEF SearchHybridDeduped
<1>2. k + Headroom \in Nat
  BY SearchAssumption
<1>3. raw \in Seq(Index(u))
  BY <1>2, SearchHybridIs
<1>4. Dedup(raw) \in Seq(Index(u))
  BY <1>3, DedupIs
<1>5. Truncate(Dedup(raw), k) \in Seq(Index(u))
  BY <1>4, TruncateIs
<1>6. s \in Seq(Index(u))
  BY <1>1, <1>3, <1>5
<1>7. QED
  BY <1>6 DEF ToSet

-----------------------------------------------------------------------------
(* What the steps of a context leave alone.                                *)

\* The preparation of a context writes nothing.
LEMMA OnlyElsewhereWrites ==
  ASSUME [ContextNext]_contextVars
  PROVE  Elsewhere \/ UNCHANGED searchVars
<1>1. ASSUME NEW q, NEW u, NEW asked, NEW bm25_only, StartPrepare(q, u, asked, bm25_only)
      PROVE  UNCHANGED searchVars
  BY <1>1 DEF StartPrepare
<1>2. \A p, steps : Proceed(p, steps) => UNCHANGED searchVars
  BY DEF Proceed
<1>3. \A results, channel : Find(results, channel) => UNCHANGED searchVars
  BY <1>2 DEF Find
<1>4. CASE FindBySpeaker \/ FindInSession \/ FindByTriple \/ FindByText \/ FindInWindow
  BY <1>3, <1>4 DEF FindBySpeaker, FindInSession, FindByTriple, FindByText, FindInWindow
<1>5. CASE FindByType \/ FindByGraph \/ OpenSessions \/ ReadSummaries
  BY <1>2, <1>5 DEF FindByType, FindByGraph, OpenSessions, ReadSummaries
<1>6. CASE ReadEntityTriples \/ ReadTriples \/ OpenWindows \/ Reserve
  BY <1>2, <1>6 DEF ReadEntityTriples, ReadTriples, ReadMemories, OpenWindows, Reserve
<1>7. CASE Rank \/ Rerank \/ KeepOrder \/ Assemble \/ PrepareFails
  BY <1>2, <1>7 DEF Rank, Rerank, KeepOrder, Assemble, PrepareFails
<1>8. CASE UNCHANGED contextVars
  BY <1>8 DEF contextVars
<1>9. QED
  BY <1>1, <1>4, <1>5, <1>6, <1>7, <1>8 DEF ContextNext

\* The store stays in order and only grows, in every step.
LEMMA StoreStep == StoreOK /\ [ContextNext]_contextVars => StoreOK' /\ Grown
  BY OnlyElsewhereWrites, StoreGrows

\* The store is in order in every state.
LEMMA StoreAlways == ContextSpec => []StoreOK
<1>1. StoreOK /\ [ContextNext]_contextVars => StoreOK'
  BY StoreStep
<1>2. QED
  BY <1>1, StoreOpened, PTL DEF ContextSpec

\* A hybrid search returns at most k results, and no id twice but in the reserved places.
THEOREM HybridFindsOnce == ContextSpec => []HybridOnce
<1>1. StoreOK => HybridOnce
  <2>1. SUFFICES ASSUME StoreOK, NEW q \in Query, NEW u \in Caller, NEW k \in Sizes,
                        NEW r \in SearchHybrid(q, k, u, AnyType)
                 PROVE  /\ Len(r) <= k
                        /\ \A m, n \in DOMAIN r : m < n /\ r[m][1] = r[n][1] => n <= Reserved
    BY DEF HybridOnce
  <2>2. k \in Nat
    BY DEF Sizes
  <2>3. /\ r \in Seq(Index(u)) /\ Len(r) <= k
        /\ \A m, n \in 1 .. Len(r) : m < n /\ r[m][1] = r[n][1] => n <= Reserved
    BY <2>1, <2>2, SearchHybridIs
  <2>4. DOMAIN r = 1 .. Len(r)
    BY <2>3
  <2>5. QED
    BY <2>3, <2>4
<1>2. QED
  BY <1>1, StoreAlways, PTL

\* Deduplication keeps no two results that overlap, drops none without one that overlaps
\* it and is as new, and keeps the newest.
THEOREM DeduplicationSound == ContextSpec => []DedupedApart
<1>1. StoreOK => DedupedApart
  <2>1. SUFFICES ASSUME StoreOK, NEW q \in Query, NEW u \in Caller, NEW k \in Sizes,
                        NEW r \in SearchHybrid(q, k, u, AnyType), Len(r) > 1
                 PROVE  /\ \A m, n \in DOMAIN Dedup(r) : m # n => ~Overlap(Dedup(r)[m], Dedup(r)[n])
                        /\ \A h \in ToSet(r) \ ToSet(Dedup(r)) : \E g \in ToSet(r) :
                             g # h /\ Overlap(g, h) /\ UpdatedAt(g) >= UpdatedAt(h)
                        /\ \A h \in ToSet(r) :
                             (\A g \in ToSet(r) \ {h} : UpdatedAt(g) < UpdatedAt(h))
                             => h \in ToSet(Dedup(r))
    BY DEF DedupedApart
  <2>2. k \in Nat
    BY DEF Sizes
  <2>3. r \in Seq(Index(u))
    BY <2>1, <2>2, SearchHybridIs
  <2>4. /\ \A m, n \in DOMAIN Dedup(r) : m # n => ~Overlap(Dedup(r)[m], Dedup(r)[n])
        /\ \A h \in ToSet(r) \ ToSet(Dedup(r)) : \E g \in ToSet(r) :
             g # h /\ Overlap(g, h) /\ UpdatedAt(g) >= UpdatedAt(h)
    BY <2>1, <2>3, DedupIs
  <2>5. \A h \in ToSet(r) : UpdatedAt(h) \in Nat
    <3>1. \A h \in ToSet(r) : h \in Index(u)
      BY <2>3 DEF ToSet
    <3>2. QED
      BY <2>1, <3>1, HitsCompare
  <2>6. ASSUME NEW h \in ToSet(r), \A g \in ToSet(r) \ {h} : UpdatedAt(g) < UpdatedAt(h),
               h \notin ToSet(Dedup(r))
        PROVE  FALSE
    <3>1. PICK g \in ToSet(r) : g # h /\ UpdatedAt(g) >= UpdatedAt(h)
      BY <2>4, <2>6
    <3>2. QED
      BY <2>5, <2>6, <3>1
  <2>7. QED
    BY <2>4, <2>6
<1>2. QED
  BY <1>1, StoreAlways, PTL

-----------------------------------------------------------------------------
(* Clusters.                                                               *)

\* The first of what a query found, in whatever order.
LEMMA OrderedIs ==
  ASSUME StoreOK, NEW u, NEW hits, hits \subseteq CurrentHits(u), NEW k \in Nat,
         NEW t \in SetToSeqs(hits)
  PROVE  Truncate(t, k) \in Seq(hits) /\ ToSet(Truncate(t, k)) \subseteq hits
<1>1. IsFiniteSet(hits)
  BY CurrentIndexed, HitsFinite
<1>2. t \in Seq(hits)
  BY <1>1, SetToSeqsAre
<1>3. Truncate(t, k) \in Seq(hits)
  BY <1>2, TruncateIs
<1>4. QED
  BY <1>3 DEF ToSet

\* A consolidation reads current memories.
LEMMA ClusterableIs ==
  ASSUME StoreOK, NEW u, NEW type, NEW embedded, NEW cutoff,
         NEW s \in Clusterable(u, type, embedded, cutoff)
  PROVE  s \in Seq(CurrentHits(u))
<1>1. PICK r \in GetMemories(u, type, 200) :
        s = Selected(r, {n \in DOMAIN r : CreatedAt(r[n]) < cutoff /\ r[n][1] \in embedded})
  BY DEF Clusterable
<1>2. PICK t \in SetToSeqs(OfType(CurrentHits(u), type)) : r = Truncate(t, 200)
  BY <1>1 DEF GetMemories, FirstOf
<1>3. OfType(CurrentHits(u), type) \subseteq CurrentHits(u)
  BY DEF OfType
<1>4. r \in Seq(OfType(CurrentHits(u), type))
  BY <1>2, <1>3, OrderedIs
<1>5. r \in Seq(CurrentHits(u))
  BY <1>3, <1>4, SeqMonotonic
<1>6. QED
  BY <1>1, <1>5, SelectedParts

\* What has been clustered so far: the clusters are of what was visited, and so is all
\* that resembles the first of a cluster.
Clustered(S, min_size, acc) ==
  /\ acc.visited \subseteq S
  /\ acc.clusters \in Seq(SUBSET S)
  /\ \A n \in 1 .. Len(acc.clusters) :
       /\ acc.clusters[n] \subseteq acc.visited
       /\ Cardinality(acc.clusters[n]) >= min_size
       /\ \A m \in 1 .. n - 1 : acc.clusters[m] \cap acc.clusters[n] = {}
       /\ \E first \in acc.clusters[n] :
            /\ \A h \in acc.clusters[n] : Resemble(first, h)
            /\ \A m \in n + 1 .. Len(acc.clusters) : \A h \in acc.clusters[m] : ~Resemble(first, h)
            /\ \A h \in S : Resemble(first, h) => h \in acc.visited

\* One turn of the loop of greedy_cluster.
LEMMA VisitStep ==
  ASSUME NEW S, IsFiniteSet(S), NEW h \in S, Resemble(h, h), NEW min_size \in Nat,
         NEW acc, Clustered(S, min_size, acc)
  PROVE  Clustered(S, min_size, Visit(acc, h, S, min_size))
<1> DEFINE C == {g \in S \ acc.visited : g = h \/ Resemble(h, g)}
<1>1. CASE h \in acc.visited
  BY <1>1 DEF Visit
<1>2. CASE h \notin acc.visited
  <2>1. PICK old, len : old = acc.clusters /\ len = Len(old)
    OBVIOUS
  <2>2. /\ old \in Seq(SUBSET S) /\ len \in Nat /\ acc.visited \subseteq S
        /\ \A n \in 1 .. len :
             /\ old[n] \subseteq acc.visited
             /\ Cardinality(old[n]) >= min_size
             /\ \A m \in 1 .. n - 1 : old[m] \cap old[n] = {}
             /\ \E first \in old[n] :
                  /\ \A g \in old[n] : Resemble(first, g)
                  /\ \A m \in n + 1 .. len : \A g \in old[m] : ~Resemble(first, g)
                  /\ \A g \in S : Resemble(first, g) => g \in acc.visited
    BY <2>1 DEF Clustered
  <2>3. PICK next : next = Visit(acc, h, S, min_size)
    OBVIOUS
  <2>4. /\ C \subseteq S /\ C \cap acc.visited = {} /\ h \in C
        /\ \A g \in C : Resemble(h, g)
        /\ \A g \in S : Resemble(h, g) => g \in acc.visited \cup C
    BY <1>2
  <2>5. /\ next.visited = acc.visited \cup C
        /\ next.clusters = IF Cardinality(C) < min_size THEN old ELSE Append(old, C)
    BY <1>2, <2>1, <2>3 DEF Visit
  <2> HIDE DEF C
  <2>6. CASE Cardinality(C) < min_size
    <3>1. next.clusters = old /\ next.visited = acc.visited \cup C
      BY <2>5, <2>6
    <3>2. ASSUME NEW n \in 1 .. len
          PROVE  /\ old[n] \subseteq next.visited
                 /\ Cardinality(old[n]) >= min_size
                 /\ \A m \in 1 .. n - 1 : old[m] \cap old[n] = {}
                 /\ \E first \in old[n] :
                      /\ \A g \in old[n] : Resemble(first, g)
                      /\ \A m \in n + 1 .. len : \A g \in old[m] : ~Resemble(first, g)
                      /\ \A g \in S : Resemble(first, g) => g \in next.visited
      BY <2>2, <3>1
    <3>3. QED
      BY <2>1, <2>2, <2>3, <2>4, <3>1, <3>2 DEF Clustered
  <2>7. CASE ~(Cardinality(C) < min_size)
    <3>1. PICK new : new = Append(old, C)
      OBVIOUS
    <3>2. /\ new \in Seq(SUBSET S) /\ Len(new) = len + 1 /\ new[len + 1] = C
          /\ \A n \in 1 .. len : new[n] = old[n]
      BY <2>1, <2>2, <2>4, <3>1
    <3>3. next.clusters = new /\ next.visited = acc.visited \cup C
      BY <2>5, <2>7, <3>1
    <3>4. Cardinality(C) >= min_size
      <4>1. IsFiniteSet(C)
        BY <2>4, FS_Subset
      <4>2. Cardinality(C) \in Nat
        BY <4>1, FS_CardinalityType
      <4>3. QED
        BY <2>7, <4>2
    <3>5. ASSUME NEW n \in 1 .. len + 1
          PROVE  /\ new[n] \subseteq next.visited
                 /\ Cardinality(new[n]) >= min_size
                 /\ \A m \in 1 .. n - 1 : new[m] \cap new[n] = {}
                 /\ \E first \in new[n] :
                      /\ \A g \in new[n] : Resemble(first, g)
                      /\ \A m \in n + 1 .. len + 1 : \A g \in new[m] : ~Resemble(first, g)
                      /\ \A g \in S : Resemble(first, g) => g \in next.visited
      <4>1. CASE n = len + 1
        <5>1. \A m \in 1 .. n - 1 : new[m] = old[m] /\ old[m] \subseteq acc.visited
          BY <2>2, <3>2, <4>1
        <5>2. n + 1 .. len + 1 = {}
          BY <2>2, <4>1
        <5>3. QED
          BY <2>4, <3>2, <3>3, <3>4, <4>1, <5>1, <5>2
      <4>2. CASE n \in 1 .. len
        <5>1. new[n] = old[n] /\ \A m \in 1 .. n - 1 : new[m] = old[m]
          BY <2>2, <3>2, <4>2
        <5>2. PICK first \in old[n] :
                /\ \A g \in old[n] : Resemble(first, g)
                /\ \A m \in n + 1 .. len : \A g \in old[m] : ~Resemble(first, g)
                /\ \A g \in S : Resemble(first, g) => g \in acc.visited
          BY <2>2, <4>2
        <5>3. ASSUME NEW m \in n + 1 .. len + 1 PROVE \A g \in new[m] : ~Resemble(first, g)
          <6>1. CASE m = len + 1
            BY <2>4, <3>2, <5>2, <6>1
          <6>2. CASE m # len + 1
            <7>1. m \in n + 1 .. len /\ m \in 1 .. len
              BY <2>2, <4>2, <6>2
            <7>2. QED
              BY <3>2, <5>2, <7>1
          <6>3. QED
            BY <6>1, <6>2
        <5>4. QED
          BY <2>2, <3>3, <4>2, <5>1, <5>2, <5>3
      <4>3. QED
        BY <2>2, <4>1, <4>2
    <3>6. QED
      BY <2>2, <2>3, <2>4, <3>2, <3>3, <3>5 DEF Clustered
  <2>8. QED
    BY <2>6, <2>7
<1>3. QED
  BY <1>1, <1>2

\* After its last turn the loop has visited all of them.
LEMMA GreedyClusterIs ==
  ASSUME NEW T, NEW s \in Seq(T), \A h \in T : Resemble(h, h), NEW min_size \in Nat
  PROVE  \E acc : Clustered(ToSet(s), min_size, acc) /\ GreedyCluster(s, min_size) = acc.clusters
<1> DEFINE len == Len(s)
           S == ToSet(s)
           V == [visited : SUBSET S, clusters : Seq(SUBSET S)]
           init == [visited |-> {}, clusters |-> <<>>]
           visit == [n \in 1 .. len |-> [acc \in V |-> Visit(acc, s[n], S, min_size)]]
           rec(g, n) == IF n = 0 THEN init ELSE Visit(g[n - 1], s[n], S, min_size)
<1>1. len \in Nat /\ DOMAIN s = 1 .. len
  OBVIOUS
<1>2. \A n \in 1 .. len : s[n] \in S /\ Resemble(s[n], s[n])
  BY <1>1 DEF ToSet
<1>3. IsFiniteSet(S)
  <2>1. IsFiniteSet(DOMAIN s)
    BY <1>1, FS_Interval
  <2>2. IsFiniteSet({s[x] : x \in DOMAIN s})
    BY <2>1, ImageFinite
  <2>3. QED
    BY <2>2 DEF ToSet
<1>4. \A n \in 1 .. len : \A acc \in V : Visit(acc, s[n], S, min_size) \in V
  <2>1. SUFFICES ASSUME NEW n \in 1 .. len, NEW acc \in V
                 PROVE  Visit(acc, s[n], S, min_size) \in V
    OBVIOUS
  <2>2. PICK C : C = {g \in S \ acc.visited : g = s[n] \/ Resemble(s[n], g)}
    OBVIOUS
  <2>3. C \in SUBSET S /\ acc.visited \in SUBSET S /\ acc.clusters \in Seq(SUBSET S)
    BY <2>2
  <2> HIDE DEF S
  <2>4. acc.visited \cup C \in SUBSET S /\ Append(acc.clusters, C) \in Seq(SUBSET S)
    BY <2>3
  <2>5. Visit(acc, s[n], S, min_size) =
          IF s[n] \in acc.visited THEN acc
          ELSE [visited |-> acc.visited \cup C,
                clusters |-> IF Cardinality(C) < min_size THEN acc.clusters
                             ELSE Append(acc.clusters, C)]
    BY <2>2 DEF Visit
  <2>6. QED
    BY <2>3, <2>4, <2>5
<1> HIDE DEF S
<1>5. PICK g \in [0 .. len -> V] :
        g[0] = init /\ \A n \in 1 .. len : g[n] = visit[n][g[n - 1]]
  <2>1. visit \in [1 .. len -> [V -> V]] /\ init \in V
    BY <1>4
  <2> HIDE DEF visit, V, init
  <2>2. \E g : Recursive(g, len, V, init, visit)
    BY <1>1, <2>1, Recursion
  <2>3. QED
    BY <2>2 DEF Recursive
<1>6. \A n \in 1 .. len : g[n] = Visit(g[n - 1], s[n], S, min_size)
  <2>1. SUFFICES ASSUME NEW n \in 1 .. len
                 PROVE  g[n] = Visit(g[n - 1], s[n], S, min_size)
    OBVIOUS
  <2>2. g[n] = visit[n][g[n - 1]]
    <3> HIDE DEF visit
    <3>1. QED
      BY <1>5
  <2>3. n - 1 \in 0 .. len
    BY <1>1
  <2> HIDE DEF V
  <2>4. g[n - 1] \in V
    BY <2>3
  <2>5. QED
    BY <2>2, <2>4
<1>7. PICK f : (\A n \in 0 .. len : f[n] = rec(f, n)) /\ GreedyCluster(s, min_size) = f[len].clusters
  <2> DEFINE Rec(h) == h = [n \in 0 .. len |-> rec(h, n)]
             f == CHOOSE h : Rec(h)
  <2>1. \A n \in 0 .. len : g[n] = rec(g, n)
    <3>1. \A n \in 0 .. len : n = 0 \/ n \in 1 .. len
      BY <1>1
    <3>2. QED
      BY <1>5, <1>6, <3>1
  <2>2. Rec(f)
    <3>1. g = [n \in 0 .. len |-> g[n]]
      OBVIOUS
    <3>2. Rec(g)
      BY <2>1, <3>1
    <3> HIDE DEF Rec
    <3>3. QED
      BY <3>2
  <2>3. GreedyCluster(s, min_size) = f[len].clusters
    BY DEF GreedyCluster, S
  <2>4. QED
    BY <2>2, <2>3
<1> DEFINE Good == {n \in 0 .. len : Clustered(S, min_size, f[n])}
<1>8. 0 \in Good
  <2>1. f[0] = init
    BY <1>1, <1>7
  <2>2. f[0].visited = {} /\ f[0].clusters = <<>>
    BY <2>1
  <2>3. Clustered(S, min_size, f[0])
    BY <2>2 DEF Clustered
  <2>4. QED
    BY <1>1, <2>3
<1>9. ASSUME NEW n \in 0 .. len - 1, n \in Good PROVE n + 1 \in Good
  <2>1. n + 1 \in 0 .. len /\ n + 1 \in 1 .. len /\ n + 1 # 0 /\ n + 1 - 1 = n
    BY <1>1
  <2>2. f[n + 1] = Visit(f[n], s[n + 1], S, min_size)
    BY <1>7, <2>1
  <2>3. Clustered(S, min_size, f[n + 1])
    BY <1>2, <1>3, <1>9, <2>1, <2>2, VisitStep
  <2>4. QED
    BY <2>1, <2>3
<1>10. 0 .. len \subseteq Good
  BY <1>1, <1>8, <1>9, InductionUpTo
<1>11. Clustered(S, min_size, f[len])
  BY <1>1, <1>10
<1>12. QED
  BY <1>7, <1>11 DEF S

\* Clusters share no memory, are large enough, and each has a first memory which all of it
\* resemble and which nothing in a later cluster resembles.
THEOREM ClustersSeparate == ContextSpec => []ClustersApart
<1>1. StoreOK => ClustersApart
  <2>1. SUFFICES ASSUME StoreOK, NEW u \in Caller, NEW type \in MemoryType, NEW min_size \in {1, 2},
                        NEW cutoff, NEW clusters \in FindClusters(u, type, Id, min_size, cutoff),
                        NEW n \in DOMAIN clusters
                 PROVE  /\ Cardinality(clusters[n]) >= min_size
                        /\ \A m \in 1 .. n - 1 : clusters[m] \cap clusters[n] = {}
                        /\ \E first \in clusters[n] :
                             /\ \A h \in clusters[n] : Resemble(first, h)
                             /\ \A m \in n + 1 .. Len(clusters) :
                                  \A h \in clusters[m] : ~Resemble(first, h)
    BY DEF ClustersApart
  <2>2. PICK s \in Clusterable(u, type, Id, cutoff) : clusters = GreedyCluster(s, min_size)
    BY <2>1 DEF FindClusters
  <2>3. s \in Seq(CurrentHits(u))
    BY <2>1, <2>2, ClusterableIs
  <2>4. \A h \in CurrentHits(u) : Resemble(h, h)
    <3>1. \A h \in CurrentHits(u) : Hit(h).content \in Content
      BY <2>1, CurrentIndexed, IndexOf DEF Version
    <3>2. QED
      BY <3>1, CloseAssumption DEF Resemble
  <2>5. PICK acc : Clustered(ToSet(s), min_size, acc) /\ clusters = acc.clusters
    BY <2>2, <2>3, <2>4, GreedyClusterIs
  <2>6. DOMAIN clusters = 1 .. Len(clusters)
    BY <2>5 DEF Clustered
  <2>7. QED
    BY <2>5, <2>6 DEF Clustered
<1>2. QED
  BY <1>1, StoreAlways, PTL

-----------------------------------------------------------------------------
(* What a context finds.                                                   *)

\* the channels of the indexes
Indexed == {"hybrid", "bm25", "speaker_filter", "graph"}

SearchOK(p) ==
  /\ p.user \in Owner
  /\ IsFiniteSet(p.sessions)
  /\ p.since \in [Id -> Nat] /\ \A i \in Id : p.since[i] <= Len(items[i])
  /\ p.found \subseteq Index(NoUser) /\ p.reserved \subseteq Index(NoUser)
  /\ \A s \in p.sources :
       s[1] \in Id /\ (OfUser(s[1], p.user) \/ s[2] \in {"graph", "triple"})
  /\ \A h \in p.found : \E s \in p.sources : s[1] = h[1]
  /\ \A h \in p.reserved : Matches(Hit(h), p.user)
  /\ \A h \in p.found : \/ h[2] >= p.since[h[1]] /\ Hit(h).op = "ASSERT"
                        \/ \E s \in p.sources : s[1] = h[1] /\ s[2] \in Indexed

\* What a search may bring to a user: others' memories only along edges and triples, old
\* ones only from an index.
Brings(hits, channel, u) ==
  /\ hits \subseteq Index(NoUser)
  /\ channel \in {"graph", "triple"} \/ hits \subseteq Index(u)
  /\ channel \in Indexed \/ hits \subseteq CurrentHits(NoUser)

\* What the index of a user offers is the user's.
LEMMA OwnHits ==
  ASSUME StoreOK, NEW u \in Owner, NEW h \in Index(u)
  PROVE  OfUser(h[1], u)
<1>1. CASE u = NoUser
  BY <1>1 DEF OfUser
<1>2. CASE u # NoUser
  <2> DEFINE s == items[h[1]]
  <2>1. /\ h[1] \in Id /\ h[2] \in DOMAIN s /\ s[h[2]].user = u
    BY <1>2, IndexOf DEF Matches, Hit
  <2>2. s \in Seq(Version) /\ OneNamed(h[1])
    BY <2>1 DEF StoreOK
  <2>3. \A n \in DOMAIN s : s[n].user \in Owner
    <3>1. \A n \in DOMAIN s : s[n] \in Version
      BY <2>2
    <3>2. QED
      BY <3>1 DEF Version
  <2>4. \A n \in DOMAIN s : s[n].user \in {u, NoUser}
    BY <1>2, <2>1, <2>2, <2>3 DEF OneNamed, Owner
  <2> HIDE DEF s
  <2>5. (\E v \in ToSet(s) : v.user = u) /\ \A v \in ToSet(s) : v.user \in {u, NoUser}
    BY <2>1, <2>4 DEF ToSet
  <2>6. QED
    BY <2>5 DEF OfUser, s
<1>3. QED
  BY <1>1, <1>2

\* To register what a search may bring keeps what is known of all that was found.
LEMMA RegisterKeeps ==
  ASSUME StoreOK, NEW p, Shaped(p), SearchOK(p), NEW hits, NEW channel,
         Brings(hits, channel, p.user), NEW q \in Register(p, hits, channel)
  PROVE  /\ Shaped(q) /\ SearchOK(q)
         /\ q.result = p.result /\ q.todo = p.todo /\ q.ranked = p.ranked
<1>1. PICK new \in Versions({h \in hits : h[1] \notin IdsOf(p.found)}) :
        q = [p EXCEPT !.found = @ \cup new, !.sources = @ \cup (IdsOf(hits) \X {channel})]
  BY DEF Register
<1>2. PICK more : more = IdsOf(hits) \X {channel}
  OBVIOUS
<1>3. /\ Shaped(q)
      /\ q.found = p.found \cup new /\ q.sources = p.sources \cup more
      /\ q.user = p.user /\ q.sessions = p.sessions /\ q.since = p.since
      /\ q.reserved = p.reserved
      /\ q.result = p.result /\ q.todo = p.todo /\ q.ranked = p.ranked
  BY <1>1, <1>2 DEF Shaped
<1>4. new \subseteq hits
  BY <1>1, VersionsOnce
<1>5. /\ \A s \in more : s[2] = channel /\ \E h \in hits : s[1] = h[1]
      /\ \A h \in hits : \E s \in more : s[1] = h[1] /\ s[2] = channel
  <2>1. \A s \in more : s[2] = channel /\ \E h \in hits : s[1] = h[1]
    BY <1>2 DEF IdsOf
  <2>2. \A h \in hits : <<h[1], channel>> \in more
    BY <1>2 DEF IdsOf
  <2>3. QED
    BY <2>1, <2>2
<1>6. hits \subseteq Index(NoUser) /\ \A h \in hits : h[1] \in Id
  BY IndexOf DEF Brings
<1>7. \A s \in more : s[1] \in Id /\ (OfUser(s[1], p.user) \/ s[2] \in {"graph", "triple"})
  BY <1>5, <1>6, OwnHits DEF Brings, SearchOK
<1>8. ASSUME NEW h \in new
      PROVE  \/ h[2] >= p.since[h[1]] /\ Hit(h).op = "ASSERT"
             \/ \E s \in more : s[1] = h[1] /\ s[2] \in Indexed
  <2>1. CASE channel \in Indexed
    BY <1>4, <1>5, <2>1
  <2>2. CASE channel \notin Indexed
    <3>1. h[2] = Len(items[h[1]]) /\ Hit(h).op = "ASSERT" /\ h[1] \in Id
      BY <1>4, <1>6, <2>2, CurrentIndexed DEF Brings
    <3>2. items[h[1]] \in Seq(Version) /\ p.since[h[1]] \in Nat /\ p.since[h[1]] <= Len(items[h[1]])
      BY <3>1 DEF StoreOK, SearchOK
    <3>3. QED
      BY <3>1, <3>2
  <2>3. QED
    BY <2>1, <2>2
<1>9. SearchOK(q)
  <2>1. q.found \subseteq Index(NoUser)
    BY <1>3, <1>4, <1>6 DEF SearchOK
  <2>2. \A s \in q.sources :
          s[1] \in Id /\ (OfUser(s[1], q.user) \/ s[2] \in {"graph", "triple"})
    BY <1>3, <1>7 DEF SearchOK
  <2>3. \A h \in q.found : \E s \in q.sources : s[1] = h[1]
    BY <1>3, <1>4, <1>5 DEF SearchOK
  <2>4. \A h \in q.found : \/ h[2] >= q.since[h[1]] /\ Hit(h).op = "ASSERT"
                           \/ \E s \in q.sources : s[1] = h[1] /\ s[2] \in Indexed
    BY <1>3, <1>8 DEF SearchOK
  <2>5. QED
    BY <1>3, <2>1, <2>2, <2>3, <2>4 DEF SearchOK
<1>10. QED
  BY <1>3, <1>9

\* What it found is still so after others have written.
LEMMA SearchStands ==
  ASSUME StoreOK, StoreOK', Grown, SearchOK(prep), UNCHANGED prep
  PROVE  SearchOK(prep)'
<1>1. /\ Index(NoUser) \subseteq Index(NoUser)'
      /\ \A h \in Index(NoUser) : Hit(h)' = Hit(h)
  BY IndexGrows
<1>2. \A i \in Id, u \in Owner : OfUser(i, u) => OfUser(i, u)'
  BY DEF Grown
<1>3. \A i \in Id : /\ Len(items[i]) \in Nat /\ Len(items'[i]) \in Nat
                    /\ Len(items[i]) <= Len(items'[i])
  BY DEF StoreOK, Grown
<1>4. \A i \in Id : prep.since[i] <= Len(items'[i])
  BY <1>3 DEF SearchOK
<1>5. \A h \in prep.found \cup prep.reserved : Hit(h)' = Hit(h)
  BY <1>1 DEF SearchOK
<1>6. prep.found \subseteq Index(NoUser)' /\ prep.reserved \subseteq Index(NoUser)'
  BY <1>1 DEF SearchOK
<1>7. \A s \in prep.sources :
        s[1] \in Id /\ (OfUser(s[1], prep.user)' \/ s[2] \in {"graph", "triple"})
  BY <1>2 DEF SearchOK
<1>8. QED
  BY <1>4, <1>5, <1>6, <1>7 DEF SearchOK, Matches

\* A preparation that has found nothing yet is in order.
LEMMA SearchOpens ==
  ASSUME StoreOK, NEW p, p.user \in Owner, p.sessions = {}, p.found = {}, p.sources = {},
         p.reserved = {}, p.since \in [Id -> Nat], \A i \in Id : p.since[i] <= Len(items[i])
  PROVE  SearchOK(p)
<1>1. IsFiniteSet({})
  BY FS_EmptySet
<1>2. QED
  BY <1>1 DEF SearchOK

\* The indexes of a user, and queries at NOW, may always bring what they return.
LEMMA OwnBrings ==
  ASSUME StoreOK, NEW u, NEW hits, NEW channel
  PROVE  /\ hits \subseteq Index(u) /\ channel \in Indexed => Brings(hits, channel, u)
         /\ hits \subseteq CurrentHits(u) => Brings(hits, channel, u)
  BY IndexOf, CurrentIndexed DEF Brings

\* search_by_speaker filters by user.
LEMMA SpeakerBrings ==
  ASSUME StoreOK, NEW q, NEW k, NEW u, NEW speakers,
         NEW hits \in OrNothing(UNION {SearchBySpeaker(q, s, k, u) : s \in speakers})
  PROVE  Brings(hits, "speaker_filter", u)
<1>1. hits = {} \/ \E s \in speakers : hits \in SearchBySpeaker(q, s, k, u)
  BY DEF OrNothing
<1>2. hits \subseteq Index(u)
  BY <1>1, FoundAmong DEF SearchBySpeaker
<1>3. QED
  BY <1>2, OwnBrings DEF Indexed

\* search_hybrid_deduped filters by user.
LEMMA HybridBrings ==
  ASSUME StoreOK, NEW q, NEW k \in Nat, NEW u, NEW t, NEW s \in SearchHybridDeduped(q, k, u, t)
  PROVE  Brings(ToSet(s), "hybrid", u)
<1>1. ToSet(s) \subseteq Index(u)
  BY DedupedIs
<1>2. QED
  BY <1>1, OwnBrings DEF Indexed

\* search_graph starts from an index and goes along edges.
LEMMA GraphBrings ==
  ASSUME StoreOK, NEW q, NEW k, NEW u, NEW t, NEW hits \in SearchGraph(q, k, u, t)
  PROVE  Brings(hits, "graph", u)
<1> DEFINE near(seeds) == Reached(IdsOf(seeds)) \ IdsOf(seeds)
           fetched(seeds) == {Now(i) : i \in {j \in near(seeds) : Visible(j) /\ ~About(Now(j)).ends}}
           depth == AtMost(5, IF k = 0 THEN 1 ELSE k)
<1>1. PICK seeds, first : /\ seeds \in SearchSemanticTyped(q, depth, u, t)
                          /\ first \in Versions(seeds) /\ hits \in AnyOf(k, first \cup fetched(seeds))
  <2>1. PICK seeds \in SearchSemanticTyped(q, depth, u, t) :
          hits \in UNION {AnyOf(k, first \cup fetched(seeds)) : first \in Versions(seeds)}
    BY DEF SearchGraph
  <2>2. QED
    BY <2>1
<1> HIDE DEF depth
<1>2. seeds \subseteq Index(u)
  BY <1>1, FoundAmong DEF SearchSemanticTyped, OfType
<1>3. first \subseteq Index(u) /\ IdsOf(seeds) \subseteq Id
  BY <1>1, <1>2, VersionsOnce, IndexOf DEF IdsOf
<1>4. near(seeds) \subseteq Id
  <2>1. \A ids : NeighborsOf(ids) \subseteq Id
    BY DEF NeighborsOf, Neighbors, StoreOK, Edge
  <2>2. QED
    BY <2>1 DEF Reached
<1> HIDE DEF near
<1>5. fetched(seeds) \subseteq CurrentHits(NoUser)
  BY <1>4 DEF CurrentHits, Matches
<1> HIDE DEF fetched
<1>6. hits \subseteq first \cup fetched(seeds)
  BY <1>1, FoundAmong
<1>7. hits \subseteq Index(NoUser)
  BY <1>3, <1>5, <1>6, CurrentIndexed, IndexOf
<1>8. QED
  BY <1>7 DEF Brings, Indexed

\* memories_by_session returns the user's current memories.
LEMMA SessionIs ==
  ASSUME StoreOK, NEW s, NEW u, NEW k \in Nat, NEW r \in MemoriesBySession(s, u, k)
  PROVE  ToSet(r) \subseteq CurrentHits(u)
<1> DEFINE hits == {h \in CurrentHits(u) : About(h).session = s}
<1>1. PICK t \in SetToSeqs(hits) : r = Truncate(t, k)
  BY DEF MemoriesBySession, FirstOf
<1>2. hits \subseteq CurrentHits(u)
  OBVIOUS
<1> HIDE DEF hits
<1>3. QED
  BY <1>1, <1>2, OrderedIs

\* get_adjacent_turns returns the user's current memories.
LEMMA WindowIs ==
  ASSUME StoreOK, NEW s, NEW c, NEW window, NEW u, NEW hits \in AdjacentTurns(s, c, window, u)
  PROVE  hits \subseteq CurrentHits(u)
<1>1. PICK found \in MemoriesBySession(s, u, 200) :
        \E t \in SetToSeqs({h \in ToSet(found) : About(h).raw}) :
          hits = TurnsAround(Truncate(t, 200), c, window)
  BY DEF AdjacentTurns, FirstOf
<1> DEFINE raw == {h \in ToSet(found) : About(h).raw}
<1>2. PICK t \in SetToSeqs(raw) : hits = TurnsAround(Truncate(t, 200), c, window)
  BY <1>1
<1>3. raw \subseteq CurrentHits(u)
  BY <1>1, SessionIs
<1> HIDE DEF raw
<1>4. ToSet(Truncate(t, 200)) \subseteq raw
  BY <1>3, OrderedIs
<1>5. hits \subseteq ToSet(Truncate(t, 200))
  BY <1>2 DEF TurnsAround, ToSet
<1>6. QED
  BY <1>3, <1>4, <1>5

\* search_text has no filter by user, but what its callers leave of it is filtered.
LEMMA TextIs ==
  ASSUME StoreOK, NEW words, NEW k, NEW text \in SearchText(words, k), NEW u, NEW t
  PROVE  Filtered(text, u, t) \subseteq Index(u)
<1>1. text \subseteq Index(NoUser)
  BY FoundAmong DEF SearchText
<1>2. QED
  BY <1>1, IndexOf DEF Filtered, OfType

-----------------------------------------------------------------------------
(* What is made of a question.                                             *)

\* The words of a question that are, or are not, in a set; and each of them once.
LEMMA AmongIs ==
  ASSUME NEW q, IsSeq(q), NEW words
  PROVE  /\ IsSeq(Among(q, words)) /\ IsSeq(NotAmong(q, words)) /\ IsSeq(Distinct(q))
         /\ \A n \in DOMAIN NotAmong(q, words) :
              NotAmong(q, words)[n] \notin words /\ \E m \in DOMAIN q : NotAmong(q, words)[n] = q[m]
         /\ \A n \in DOMAIN Distinct(q) : \E m \in DOMAIN q : Distinct(q)[n] = q[m]
<1> DEFINE in == {n \in DOMAIN q : q[n] \in words}
           out == {n \in DOMAIN q : q[n] \notin words}
           first == {n \in DOMAIN q : \A m \in 1 .. n - 1 : q[m] # q[n]}
<1>1. in \in SUBSET DOMAIN q /\ out \in SUBSET DOMAIN q /\ first \in SUBSET DOMAIN q
  OBVIOUS
<1>2. \A n \in out : q[n] \notin words
  OBVIOUS
<1>3. /\ Among(q, words) = Selected(q, in) /\ NotAmong(q, words) = Selected(q, out)
      /\ Distinct(q) = Selected(q, first)
  BY DEF Among, NotAmong, Distinct
<1> HIDE DEF in, out, first
<1>4. /\ IsSeq(Selected(q, in)) /\ IsSeq(Selected(q, first))
  BY <1>1, SeqSelected
<1>5. /\ IsSeq(Selected(q, out))
      /\ \A n \in DOMAIN Selected(q, out) : \E m \in out : Selected(q, out)[n] = q[m]
  BY <1>1, SeqSelected
<1>6. \A n \in DOMAIN Selected(q, first) : \E m \in first : Selected(q, first)[n] = q[m]
  BY <1>1, SeqSelected
<1>7. QED
  BY <1>1, <1>2, <1>3, <1>4, <1>5, <1>6

\* extract_entities.
LEMMA EntitiesAre == ASSUME NEW q, IsSeq(q), q # <<>> PROVE IsSeq(Entities(q))
<1> DEFINE words == NotAmong(q, StopWords \cup ShortWords)
           nouns == Among(Tail(q), NameWords \cup Months)
           others(n) == NotAmong(words, {n})
           pairs(n) == [k \in DOMAIN others(n) |-> {n, others(n)[k]}]
           compound(n) == <<{n}>> \o pairs(n)
           compounds == [k \in DOMAIN nouns |-> compound(nouns[k])]
           single == [k \in DOMAIN words |-> {words[k]}]
<1>1. IsSeq(words)
  BY AmongIs
<1>2. IsSeq(Tail(q))
  BY HeadTailProperties DEF IsSeq
<1>3. IsSeq(nouns)
  BY <1>2, AmongIs
<1>4. \A n : IsSeq(compound(n))
  <2>1. SUFFICES ASSUME NEW n PROVE IsSeq(compound(n))
    OBVIOUS
  <2>2. IsSeq(others(n))
    BY <1>1, AmongIs
  <2> HIDE DEF others
  <2>3. IsSeq(pairs(n))
    BY <2>2, ElementsIn, SeqFrom
  <2> HIDE DEF pairs
  <2>4. IsSeq(<<{n}>>)
    BY SeqSmall
  <2>5. QED
    BY <2>3, <2>4, SeqConcat
<1> HIDE DEF words, nouns, compound
<1>5. IsSeq(compounds) /\ \A k \in DOMAIN compounds : IsSeq(compounds[k])
  BY <1>3, <1>4, ElementsIn, SeqFrom
<1>6. IsSeq(single)
  BY <1>1, ElementsIn, SeqFrom
<1> HIDE DEF compounds, single
<1>7. IsSeq(FlattenSeq(compounds))
  BY <1>5, SeqFlat
<1>8. IsSeq(FlattenSeq(compounds) \o single)
  BY <1>6, <1>7, SeqConcat
<1>9. IsSeq(Distinct(FlattenSeq(compounds) \o single))
  BY <1>8, AmongIs
<1>10. Entities(q) = Distinct(FlattenSeq(compounds) \o single)
  BY DEF Entities, words, nouns, compounds, compound, pairs, others, single
<1>11. QED
  BY <1>9, <1>10

\* The parts of a compound question.
LEMMA PartsAre == ASSUME NEW q, IsSeq(q) PROVE SeqOfSeqs(Parts(q))
<1> DEFINE cut(k) == k \notin DOMAIN q \/ q[k] \in Joins
           within(k) == {n \in k .. Len(q) : \A m \in k .. n : ~cut(m)}
           last(k) == Max(within(k))
           places == [k \in DOMAIN q |-> k]
           start == {k \in DOMAIN q : cut(k - 1) /\ ~cut(k)}
           from == Selected(places, start)
           whole == [n \in DOMAIN from |-> SubSeq(q, from[n], last(from[n]))]
           parts == NotAmong(whole, Slight)
<1>1. Len(q) \in Nat /\ DOMAIN q = 1 .. Len(q)
  BY ElementsIn
<1>2. \A k \in start : k \in 1 .. Len(q) /\ ~cut(k)
  BY <1>1
<1>3. DOMAIN places = DOMAIN q /\ \A k \in DOMAIN q : places[k] = k
  OBVIOUS
<1>4. start \in SUBSET DOMAIN places
  OBVIOUS
<1>5. IsSeq(places)
  BY <1>1, SeqFrom
<1> HIDE DEF places, start
<1>6. IsSeq(from) /\ \A n \in DOMAIN from : \E m \in start : from[n] = places[m]
  BY <1>4, <1>5, SeqSelected
<1>7. \A n \in DOMAIN from : from[n] \in start
  BY <1>3, <1>4, <1>6
<1> HIDE DEF from
<1>8. ASSUME NEW k \in start PROVE IsSeq(SubSeq(q, k, last(k)))
  <2>1. k \in Nat /\ k \in 1 .. Len(q) /\ ~cut(k)
    BY <1>1, <1>2, <1>8
  <2>2. k \in within(k)
    <3>1. k .. k = {k} /\ k \in k .. Len(q)
      BY <2>1
    <3> HIDE DEF cut
    <3>2. QED
      BY <2>1, <3>1
  <2>3. within(k) \subseteq 1 .. Len(q)
    BY <2>1
  <2> HIDE DEF within
  <2>4. last(k) \in 1 .. Len(q)
    BY <1>1, <2>2, <2>3, GreatestElement
  <2> HIDE DEF last
  <2>5. PICK S : q \in Seq(S)
    BY DEF IsSeq
  <2>6. \A i \in k .. last(k) : q[i] \in S
    BY <1>1, <2>1, <2>4, <2>5
  <2>7. SubSeq(q, k, last(k)) \in Seq(S)
    BY <2>1, <2>4, <2>6, SubSeqProperties
  <2>8. QED
    BY <2>7 DEF IsSeq
<1> HIDE DEF last
<1>9. SeqOfSeqs(parts)
  <2>1. IsSeq(whole) /\ DOMAIN whole = DOMAIN from
    BY <1>6, ElementsIn, SeqFrom
  <2>2. \A n \in DOMAIN from : IsSeq(whole[n])
    BY <1>7, <1>8
  <2>3. PICK all : all = whole
    OBVIOUS
  <2>4. PICK some : some = NotAmong(all, Slight)
    OBVIOUS
  <2>5. IsSeq(all) /\ SeqOfSeqs(all)
    BY <2>1, <2>2, <2>3 DEF SeqOfSeqs
  <2>6. IsSeq(some) /\ \A n \in DOMAIN some : \E m \in DOMAIN all : some[n] = all[m]
    BY <2>4, <2>5, AmongIs
  <2>7. SeqOfSeqs(some)
    BY <2>5, <2>6 DEF SeqOfSeqs
  <2>8. QED
    BY <2>3, <2>4, <2>7
<1>10. Parts(q) = IF Len(parts) > 1 THEN parts ELSE <<q>>
  BY DEF Parts, parts, whole, from, places, start, last, within, cut
<1>11. SeqOfSeqs(<<q>>)
  BY SeqsSmall
<1>12. QED
  BY <1>9, <1>10, <1>11

\* The windows of a temporal question.
LEMMA WindowsAre == ASSUME NEW q, IsSeq(q) PROVE SeqOfSeqs(TemporalWindows(q))
<1> DEFINE years == Among(q, Years)
           months == SetToSeq(ToSet(q) \cap Months)
           dated(m) == [n \in DOMAIN years |-> <<m, years[n], Timeline>>]
           window(m) == IF years = <<>> THEN <<<<m, Timeline>>>> ELSE dated(m)
           windows == [k \in DOMAIN months |-> window(months[k])]
           single == [n \in DOMAIN years |-> <<years[n], Timeline>>]
<1>1. IsSeq(years)
  BY AmongIs
<1>2. IsSeq(months)
  <2>1. IsFiniteSet(ToSet(q) \cap Months)
    BY ElementsFinite, FS_Intersection
  <2>2. QED
    BY <2>1, SetToSeqIs DEF IsSeq
<1> HIDE DEF years, months
<1>3. /\ \A x, y : IsSeq(<<x, y>>)
      /\ \A x, y, z : IsSeq(<<x, y, z>>)
  <2>1. \A x, y : <<x, y>> \in Seq({x, y})
    OBVIOUS
  <2>2. \A x, y, z : <<x, y, z>> \in Seq({x, y, z})
    OBVIOUS
  <2>3. QED
    BY <2>1, <2>2 DEF IsSeq
<1>4. SeqOfSeqs(single)
  BY <1>1, <1>3, ElementsIn, SeqFrom DEF SeqOfSeqs
<1>5. ASSUME NEW m PROVE SeqOfSeqs(window(m))
  <2>1. SeqOfSeqs(dated(m))
    BY <1>1, <1>3, ElementsIn, SeqFrom DEF SeqOfSeqs
  <2>2. SeqOfSeqs(<<<<m, Timeline>>>>)
    BY <1>3, SeqsSmall
  <2> HIDE DEF dated
  <2>3. QED
    BY <2>1, <2>2
<1> HIDE DEF window, single
<1>6. IsSeq(windows) /\ \A k \in DOMAIN windows : SeqOfSeqs(windows[k])
  BY <1>2, <1>5, ElementsIn, SeqFrom
<1> HIDE DEF windows
<1>7. SeqOfSeqs(FlattenSeq(windows))
  <2>1. \A k \in DOMAIN windows : IsSeq(windows[k]) /\ \A j \in DOMAIN windows[k] : IsSeq(windows[k][j])
    BY <1>6 DEF SeqOfSeqs
  <2>2. PICK all : all = FlattenSeq(windows)
    OBVIOUS
  <2>3. /\ IsSeq(all)
        /\ \A k \in DOMAIN all : \E n \in DOMAIN windows : \E j \in DOMAIN windows[n] :
             all[k] = windows[n][j]
    BY <1>6, <2>1, <2>2, SeqFlat
  <2>4. QED
    BY <2>1, <2>2, <2>3 DEF SeqOfSeqs
<1>8. SeqOfSeqs(FlattenSeq(windows) \o single)
  BY <1>4, <1>7, SeqsConcat
<1>9. TemporalWindows(q) = FlattenSeq(windows) \o single
  BY DEF TemporalWindows, windows, window, dated, single, years, months
<1>10. QED
  BY <1>8, <1>9

\* No variant of a question is empty.
LEMMA VariantsAre ==
  ASSUME NEW q, IsSeq(q)
  PROVE  SeqOfSeqs(QueryVariants(q)) /\ \A n \in DOMAIN QueryVariants(q) : QueryVariants(q)[n] # <<>>
<1>1. IsSeq(Keywords(q)) /\ IsSeq(Names(q))
  BY AmongIs DEF Keywords, Names
<1>2. IsSeq(Names(q) \o Keywords(q))
  BY <1>1, SeqConcat
<1>3. SeqOfSeqs(<<q>>) /\ SeqOfSeqs(Parts(q)) /\ SeqOfSeqs(<<Keywords(q)>>)
  BY <1>1, SeqsSmall, PartsAre
<1>4. SeqOfSeqs(SubjectFocus(q))
  BY <1>2, SeqsSmall DEF SubjectFocus
<1>5. SeqOfSeqs(TemporalFocus(q))
  <2>1. PICK w : w = IF IsFutureLeaning(q) THEN Upcoming ELSE Timeline
    OBVIOUS
  <2>2. IsSeq(Names(q) \o Keywords(q) \o <<w>>)
    BY <1>2, SeqSmall, SeqConcat
  <2>3. SeqOfSeqs(<<Names(q) \o Keywords(q) \o <<w>>>>)
    BY <2>2, SeqsSmall
  <2>4. QED
    BY <2>1, <2>3 DEF TemporalFocus
<1>6. PICK time : time = IF IsTemporalQuery(q) THEN TemporalFocus(q) \o TemporalWindows(q) ELSE <<>>
  OBVIOUS
<1>7. SeqOfSeqs(time)
  <2>1. SeqOfSeqs(TemporalFocus(q) \o TemporalWindows(q))
    BY <1>5, WindowsAre, SeqsConcat
  <2>2. QED
    BY <1>6, <2>1, SeqsSmall
<1>8. PICK all : all = <<q>> \o Parts(q) \o <<Keywords(q)>> \o SubjectFocus(q) \o time
  OBVIOUS
<1>9. SeqOfSeqs(all)
  <2>1. SeqOfSeqs(<<q>> \o Parts(q))
    BY <1>3, SeqsConcat
  <2>2. SeqOfSeqs(<<q>> \o Parts(q) \o <<Keywords(q)>>)
    BY <1>3, <2>1, SeqsConcat
  <2>3. SeqOfSeqs(<<q>> \o Parts(q) \o <<Keywords(q)>> \o SubjectFocus(q))
    BY <1>4, <2>2, SeqsConcat
  <2>4. QED
    BY <1>7, <1>8, <2>3, SeqsConcat
<1>10. PICK some : some = NotAmong(all, Brief)
  OBVIOUS
<1>11. IsSeq(some) /\ \A n \in DOMAIN some : some[n] # <<>> /\ IsSeq(some[n])
  <2>1. IsSeq(all)
    BY <1>9 DEF SeqOfSeqs
  <2>2. /\ IsSeq(some)
        /\ \A n \in DOMAIN some : some[n] \notin Brief /\ \E m \in DOMAIN all : some[n] = all[m]
    BY <1>10, <2>1, AmongIs
  <2>3. QED
    BY <1>9, <2>2, WordAssumption DEF SeqOfSeqs
<1>12. QueryVariants(q) = Distinct(some)
  BY <1>6, <1>8, <1>10 DEF QueryVariants
<1>13. PICK d : d = Distinct(some)
  OBVIOUS
<1>14. IsSeq(d) /\ \A n \in DOMAIN d : \E m \in DOMAIN some : d[n] = some[m]
  BY <1>11, <1>13, AmongIs
<1>15. QED
  BY <1>11, <1>12, <1>13, <1>14 DEF SeqOfSeqs

-----------------------------------------------------------------------------
(* The searches that are planned.                                          *)

Searching ==
  {"speaker", "type", "graph", "seeds", "session", "summaries", "summary", "entity", "triples",
   "memory", "text", "anchors", "window", "reserve"}

Planned(s) == IsSeq(s) /\ \A n \in DOMAIN s : s[n].do \in Searching /\ s[n].k \in Nat

\* No search is planned.
LEMMA PlannedNone == Planned(<<>>)
  BY SeqSmall DEF Planned

\* One search is planned.
LEMMA PlannedStep ==
  ASSUME NEW do \in Searching, NEW arg, NEW k \in Nat
  PROVE  Planned(Step(do, arg, k))
<1> DEFINE x == [do |-> do, arg |-> arg, k |-> k]
<1>1. x.do = do /\ x.k = k
  OBVIOUS
<1> HIDE DEF x
<1>2. IsSeq(<<x>>) /\ DOMAIN <<x>> = {1} /\ <<x>>[1] = x
  BY SeqSmall
<1>3. Planned(<<x>>)
  BY <1>1, <1>2 DEF Planned
<1>4. QED
  BY <1>3 DEF Step, x

\* Some searches and then others.
LEMMA PlannedConcat ==
  ASSUME NEW s, NEW t, Planned(s), Planned(t)
  PROVE  Planned(s \o t)
<1>1. IsSeq(s) /\ IsSeq(t)
  BY DEF Planned
<1>2. Len(s) \in Nat /\ DOMAIN s = 1 .. Len(s) /\ Len(t) \in Nat /\ DOMAIN t = 1 .. Len(t)
  BY <1>1, ElementsIn
<1>3. PICK w : w = s \o t
  OBVIOUS
<1>4. /\ IsSeq(w) /\ Len(w) = Len(s) + Len(t)
      /\ \A n \in 1 .. Len(s) + Len(t) : w[n] = IF n <= Len(s) THEN s[n] ELSE t[n - Len(s)]
  BY <1>1, <1>3, SeqConcat
<1>5. DOMAIN w = 1 .. Len(s) + Len(t)
  BY <1>4, ElementsIn
<1>6. ASSUME NEW n \in 1 .. Len(s) + Len(t) PROVE w[n].do \in Searching /\ w[n].k \in Nat
  <2>1. CASE n <= Len(s)
    BY <1>2, <1>4, <2>1 DEF Planned
  <2>2. CASE ~(n <= Len(s))
    <3>1. n - Len(s) \in DOMAIN t /\ w[n] = t[n - Len(s)]
      BY <1>2, <1>4, <2>2
    <3>2. QED
      BY <3>1 DEF Planned
  <2>3. QED
    BY <2>1, <2>2
<1>7. QED
  BY <1>3, <1>4, <1>5, <1>6 DEF Planned

\* The searches for one thing after another.
LEMMA PlannedFlat ==
  ASSUME NEW ss, IsSeq(ss), \A n \in DOMAIN ss : Planned(ss[n])
  PROVE  Planned(FlattenSeq(ss))
<1>1. \A n \in DOMAIN ss : IsSeq(ss[n])
  BY DEF Planned
<1>2. PICK all : all = FlattenSeq(ss)
  OBVIOUS
<1>3. /\ IsSeq(all)
      /\ \A k \in DOMAIN all : \E n \in DOMAIN ss : \E j \in DOMAIN ss[n] : all[k] = ss[n][j]
  BY <1>1, <1>2, SeqFlat
<1>4. \A n \in DOMAIN ss : \A j \in DOMAIN ss[n] : ss[n][j].do \in Searching /\ ss[n][j].k \in Nat
  BY DEF Planned
<1>5. QED
  BY <1>2, <1>3, <1>4 DEF Planned

\* one step for each element of a sequence
LEMMA PlannedEach ==
  ASSUME NEW s, IsSeq(s), NEW do \in Searching, NEW k \in Nat
  PROVE  Planned(Each(s, LAMBDA e : Step(do, e, k)))
<1> DEFINE ss == [n \in DOMAIN s |-> Step(do, s[n], k)]
<1>1. IsSeq(ss)
  BY ElementsIn, SeqFrom
<1>2. \A n \in DOMAIN ss : Planned(ss[n])
  BY PlannedStep
<1> HIDE DEF ss
<1>3. Planned(FlattenSeq(ss))
  BY <1>1, <1>2, PlannedFlat
<1>4. QED
  BY <1>3 DEF Each, ss

\* How many places there are is a number.
LEMMA PlaceIs == \A p \in PlacesOf : Places[p] \in Nat
  BY ContextAssumption

\* The searches by type.
LEMMA TypeStepsAre == ASSUME NEW v PROVE Planned(TypeSteps(v))
<1> DEFINE one(t) == Step("type", [query |-> AsQuery(v), type |-> t.type], t.k)
           ss == [n \in DOMAIN TypeSearches |-> one(TypeSearches[n])]
<1>1. IsSeq(TypeSearches) /\ \A n \in DOMAIN TypeSearches : TypeSearches[n].k \in Nat
  <2>1. PICK T : T = [type : MemoryType, k : Nat]
    OBVIOUS
  <2>2. TypeSearches \in Seq(T)
    BY <2>1, ContextAssumption
  <2>3. \A n \in DOMAIN TypeSearches : TypeSearches[n] \in T
    BY <2>2
  <2>4. \A t \in T : t.k \in Nat
    BY <2>1
  <2>5. QED
    BY <2>2, <2>3, <2>4 DEF IsSeq
<1>2. "type" \in Searching
  BY DEF Searching
<1>3. IsSeq(ss)
  BY <1>1, ElementsIn, SeqFrom
<1>4. \A n \in DOMAIN ss : Planned(ss[n])
  BY <1>1, <1>2, PlannedStep
<1> HIDE DEF ss
<1>5. Planned(FlattenSeq(ss))
  BY <1>3, <1>4, PlannedFlat
<1>6. PICK rest : rest = Step("type", [query |-> AsQuery(v), type |-> AnyType], Places["catch_all"])
  OBVIOUS
<1>7. Planned(rest)
  BY <1>2, <1>6, PlaceIs, PlannedStep DEF PlacesOf
<1>8. TypeSteps(v) = FlattenSeq(ss) \o rest
  BY <1>6 DEF TypeSteps, Each, ss, one
<1>9. QED
  BY <1>5, <1>7, <1>8, PlannedConcat

\* The searches for one variant of a question.
LEMMA VariantStepsAre ==
  ASSUME NEW v, IsSeq(v), v # <<>>, NEW temporal, NEW bm25_only
  PROVE  Planned(VariantSteps(v, temporal, bm25_only))
<1>1. \A do \in {"graph", "seeds", "entity", "triples", "text"} : do \in Searching
  BY DEF Searching
<1>2. \A p \in {"graph", "seeds", "triples", "text"} : Places[p] \in Nat
  BY PlaceIs DEF PlacesOf
<1>3. IsSeq(Entities(v))
  BY EntitiesAre
<1>4. PICK graph : graph = Step("graph", AsQuery(v), Places["graph"])
  OBVIOUS
<1>5. PICK seeds : seeds = IF temporal THEN Step("seeds", {}, Places["seeds"]) ELSE <<>>
  OBVIOUS
<1>6. PICK entity : entity = Each(Entities(v), LAMBDA e : Step("entity", e, 0))
  OBVIOUS
<1>7. PICK triple : triple = Step("triples", ToSet(v), Places["triples"])
  OBVIOUS
<1>8. PICK text : text = Each(Entities(v), LAMBDA e : Step("text", e, Places["text"]))
  OBVIOUS
<1>9. PICK words : words = IF Keywords(v) = <<>> THEN <<>>
                           ELSE Step("text", ToSet(Keywords(v)), Places["text"])
  OBVIOUS
<1>10. PICK typed : typed = TypeSteps(v)
  OBVIOUS
<1>11. Planned(typed)
  BY <1>10, TypeStepsAre
<1>12. Planned(graph) /\ Planned(triple)
  BY <1>1, <1>2, <1>4, <1>7, PlannedStep
<1>13. Planned(seeds)
  BY <1>1, <1>2, <1>5, PlannedStep, PlannedNone
<1>14. Planned(entity)
  <2>1. "entity" \in Searching /\ 0 \in Nat
    BY <1>1
  <2>2. QED
    BY <1>3, <1>6, <2>1, PlannedEach
<1>15. Planned(text)
  BY <1>1, <1>2, <1>3, <1>8, PlannedEach
<1>16. Planned(words)
  BY <1>1, <1>2, <1>9, PlannedStep, PlannedNone
<1>17. PICK first : first = IF bm25_only THEN <<>>
                            ELSE typed \o graph \o seeds \o entity \o triple
  OBVIOUS
<1>18. Planned(first)
  <2>1. Planned(typed \o graph)
    BY <1>11, <1>12, PlannedConcat
  <2>2. Planned(typed \o graph \o seeds)
    BY <1>13, <2>1, PlannedConcat
  <2>3. Planned(typed \o graph \o seeds \o entity)
    BY <1>14, <2>2, PlannedConcat
  <2>4. Planned(typed \o graph \o seeds \o entity \o triple)
    BY <1>12, <2>3, PlannedConcat
  <2>5. QED
    BY <1>17, <2>4, PlannedNone
<1>19. Planned(first \o text)
  BY <1>15, <1>18, PlannedConcat
<1>20. Planned(first \o text \o words)
  BY <1>16, <1>19, PlannedConcat
<1>21. VariantSteps(v, temporal, bm25_only) = first \o text \o words
  BY Zenon, <1>4, <1>5, <1>6, <1>7, <1>8, <1>9, <1>10, <1>17 DEF VariantSteps
<1>22. QED
  BY <1>20, <1>21

\* A plan is searches, and then the three steps that finish.
LEMMA PlanIs ==
  ASSUME NEW q \in Question, NEW bm25_only
  PROVE  \E searches : Planned(searches) /\ Plan(q, bm25_only) = searches \o Finish
<1> DEFINE variants == QueryVariants(q)
           some(v) == VariantSteps(v, IsTemporalQuery(q), bm25_only)
           kept(v) == Each(Entities(v), LAMBDA e : Step("reserve", e, Places["reserved"]))
           found == [n \in DOMAIN variants |-> some(variants[n])]
           reserved == [n \in DOMAIN variants |-> kept(variants[n])]
<1>1. IsSeq(q)
  BY ContextAssumption DEF IsSeq
<1>2. IsSeq(variants) /\ \A n \in DOMAIN variants : IsSeq(variants[n]) /\ variants[n] # <<>>
  BY <1>1, VariantsAre DEF SeqOfSeqs
<1> HIDE DEF variants
<1>3. \A do \in {"speaker", "summaries", "anchors", "reserve"} : do \in Searching
  BY DEF Searching
<1>4. \A p \in {"speaker", "summaries", "anchors", "reserved"} : Places[p] \in Nat
  BY PlaceIs DEF PlacesOf
<1>5. IsSeq(found) /\ IsSeq(reserved)
  BY <1>2, ElementsIn, SeqFrom
<1>6. \A n \in DOMAIN found : Planned(found[n])
  BY <1>2, VariantStepsAre
<1>7. ASSUME NEW n \in DOMAIN reserved PROVE Planned(reserved[n])
  <2>1. PICK v : v = variants[n] /\ IsSeq(v) /\ v # <<>>
    BY <1>2
  <2>2. IsSeq(Entities(v))
    BY <2>1, EntitiesAre
  <2>3. Planned(kept(v))
    BY <1>3, <1>4, <2>2, PlannedEach
  <2>4. reserved[n] = kept(v)
    BY <2>1
  <2>5. QED
    BY <2>3, <2>4
<1> HIDE DEF found, reserved
<1>8. Planned(FlattenSeq(found)) /\ Planned(FlattenSeq(reserved))
  BY <1>5, <1>6, <1>7, PlannedFlat
<1>9. PICK speaker : speaker = IF bm25_only THEN <<>> ELSE Step("speaker", AsQuery(q), Places["speaker"])
  OBVIOUS
<1>10. PICK summary : summary = IF bm25_only THEN <<>> ELSE Step("summaries", {}, Places["summaries"])
  OBVIOUS
<1>11. PICK anchors : anchors = Step("anchors", {}, Places["anchors"])
  OBVIOUS
<1>12. Planned(speaker) /\ Planned(summary) /\ Planned(anchors)
  BY <1>3, <1>4, <1>9, <1>10, <1>11, PlannedStep, PlannedNone
<1>13. PICK searches : searches = speaker \o FlattenSeq(found) \o summary \o anchors \o FlattenSeq(reserved)
  OBVIOUS
<1>14. Planned(searches)
  <2>1. Planned(speaker \o FlattenSeq(found))
    BY <1>8, <1>12, PlannedConcat
  <2>2. Planned(speaker \o FlattenSeq(found) \o summary)
    BY <1>12, <2>1, PlannedConcat
  <2>3. Planned(speaker \o FlattenSeq(found) \o summary \o anchors)
    BY <1>12, <2>2, PlannedConcat
  <2>4. QED
    BY <1>8, <1>13, <2>3, PlannedConcat
<1>15. /\ FlattenSeq(found) = Each(variants, LAMBDA v : VariantSteps(v, IsTemporalQuery(q), bm25_only))
       /\ FlattenSeq(reserved) = Each(variants, LAMBDA v :
             Each(Entities(v), LAMBDA e : Step("reserve", e, Places["reserved"])))
  BY DEF Each, found, reserved
<1>16. Plan(q, bm25_only) = searches \o Finish
  BY Zenon, <1>9, <1>10, <1>11, <1>13, <1>15 DEF Plan, variants
<1>17. QED
  BY <1>14, <1>16

\* A ranking of all that was found, in which only what is scored may be a second time.
Ranking(s, scored, found) ==
  /\ s \in Seq(found) /\ ToSet(s) = found /\ scored \in Nat
  /\ \A m, n \in DOMAIN s : m < n /\ s[m][1] = s[n][1] => n <= scored

\* How far a context has come: nothing asked; searches to make; the three last steps,
\* each with what was found in order once it is ranked.
Ordered(p) == Ranking(p.ranked, p.scored, p.found)

PlanOK(p) ==
  \/ p.result \in {"none", "failed"} /\ p.todo = <<>> /\ p.ranked = <<>>
  \/ p.result = "ready" /\ p.todo = <<>> /\ Ordered(p)
  \/ /\ p.result = "pending"
     /\ \/ \E searches : Planned(searches) /\ p.todo = searches \o Finish /\ p.ranked = <<>>
        \/ /\ p.todo \in {Tail(Finish), Tail(Tail(Finish))} /\ Ordered(p)
           /\ p.todo = Tail(Finish) => p.scored = 0

\* After all searches: rank, rerank, assemble.
LEMMA FinishIs ==
  \E a, b, c : /\ a = [do |-> "rank", arg |-> {}, k |-> 0]
               /\ b = [do |-> "rerank", arg |-> {}, k |-> 0]
               /\ c = [do |-> "assemble", arg |-> {}, k |-> 0]
               /\ Finish = <<a, b, c>> /\ Tail(Finish) = <<b, c>>
               /\ Tail(Tail(Finish)) = <<c>> /\ Tail(Tail(Tail(Finish))) = <<>>
<1> DEFINE a == [do |-> "rank", arg |-> {}, k |-> 0]
           b == [do |-> "rerank", arg |-> {}, k |-> 0]
           c == [do |-> "assemble", arg |-> {}, k |-> 0]
<1>1. Finish = <<a>> \o <<b>> \o <<c>>
  BY DEF Finish, Step
<1> HIDE DEF a, b, c
<1>2. Finish = <<a, b, c>>
  <2>1. PICK S : S = {a, b, c}
    OBVIOUS
  <2>2. <<a>> \in Seq(S) /\ <<a, b>> \in Seq(S) /\ b \in S /\ c \in S
    BY <2>1
  <2>3. <<a>> \o <<b>> = Append(<<a>>, b) /\ <<a, b>> \o <<c>> = Append(<<a, b>>, c)
    BY <2>2, AppendIsConcat
  <2>4. Append(<<a>>, b) = <<a, b>> /\ Append(<<a, b>>, c) = <<a, b, c>>
    <3>1. <<a, b, c>> \in Seq(S)
      BY <2>1
    <3>2. PICK one, two, three : one = <<a>> /\ two = <<a, b>> /\ three = <<a, b, c>>
      OBVIOUS
    <3>3. /\ Len(one) = 1 /\ Len(two) = 2 /\ Len(three) = 3
          /\ one[1] = a /\ two[1] = a /\ three[1] = a /\ two[2] = b /\ three[2] = b /\ three[3] = c
      BY <3>2
    <3>4. two = Append(one, b)
      <4>1. Len(two) = Len(one) + 1 /\ two[Len(two)] = b /\ \A i \in 1 .. Len(one) : two[i] = one[i]
        BY <3>3
      <4>2. QED
        BY <2>2, <3>2, <4>1, IsAppend
    <3>5. three = Append(two, c)
      <4>1. /\ Len(three) = Len(two) + 1 /\ three[Len(three)] = c
            /\ \A i \in 1 .. Len(two) : three[i] = two[i]
        BY <3>3
      <4>2. QED
        BY <2>2, <3>1, <3>2, <4>1, IsAppend
    <3>6. QED
      BY <3>2, <3>4, <3>5
  <2>5. QED
    BY <1>1, <2>3, <2>4
<1>3. Tail(Finish) = <<b, c>>
  BY <1>2
<1>4. Tail(Tail(Finish)) = <<c>>
  <2>1. Tail(<<b, c>>) = <<c>>
    OBVIOUS
  <2>2. QED
    BY <1>3, <2>1
<1>5. Tail(Tail(Tail(Finish))) = <<>>
  BY <1>4
<1>6. QED
  BY <1>2, <1>3, <1>4, <1>5 DEF a, b, c

\* A step that is not one of the last three is the first of the searches.
LEMMA SearchAhead ==
  ASSUME PlanOK(prep), NEW do \in Searching, Doing(do)
  PROVE  /\ prep.result = "pending" /\ prep.ranked = <<>> /\ K \in Nat
         /\ \E searches : Planned(searches) /\ Tail(prep.todo) = searches \o Finish
<1>1. do \notin {"rank", "rerank", "assemble"}
  BY DEF Searching
<1>2. prep.todo # <<>> /\ Head(prep.todo).do = do
  BY DEF Doing
<1>3. PICK a, b, c : /\ a.do = "rank" /\ b.do = "rerank" /\ c.do = "assemble"
                     /\ Finish = <<a, b, c>> /\ Tail(Finish) = <<b, c>>
                     /\ Tail(Tail(Finish)) = <<c>>
  BY FinishIs
<1>4. prep.todo \notin {Tail(Finish), Tail(Tail(Finish))}
  <2>1. Head(Tail(Finish)).do = "rerank" /\ Head(Tail(Tail(Finish))).do = "assemble"
    BY <1>3
  <2>2. QED
    BY <1>1, <1>2, <2>1
<1>5. PICK searches : /\ Planned(searches) /\ prep.todo = searches \o Finish
                      /\ prep.ranked = <<>> /\ prep.result = "pending"
  BY <1>2, <1>4 DEF PlanOK
<1>6. PICK S : searches \in Seq(S)
  BY <1>5 DEF Planned, IsSeq
<1>7. searches # <<>>
  <2>1. <<>> \o Finish = Finish /\ Head(Finish).do = "rank"
    BY <1>3
  <2>2. QED
    BY <1>1, <1>2, <1>5, <2>1
<1>8. /\ Head(searches) = searches[1] /\ 1 \in DOMAIN searches /\ Tail(searches) \in Seq(S)
      /\ Len(Tail(searches)) = Len(searches) - 1
      /\ \A n \in 1 .. Len(Tail(searches)) : Tail(searches)[n] = searches[n + 1]
  BY <1>6, <1>7
<1>9. /\ Head(prep.todo) = searches[1]
      /\ Tail(prep.todo) = Tail(searches) \o Finish
  <2>1. PICK U : searches \in Seq(U) /\ Finish \in Seq(U)
    <3>1. Finish \in Seq({a, b, c})
      BY <1>3
    <3>2. PICK U : U = S \cup {a, b, c}
      OBVIOUS
    <3>3. S \subseteq U /\ {a, b, c} \subseteq U
      BY <3>2
    <3>4. QED
      BY <1>6, <3>1, <3>3, SeqMonotonic
  <2>2. PICK todo : todo = searches \o Finish
    OBVIOUS
  <2>3. Head(todo) = Head(searches) /\ Tail(todo) = Tail(searches) \o Finish
    BY <1>7, <2>1, <2>2
  <2>4. QED
    BY <1>5, <1>8, <2>2, <2>3
<1>10. Planned(Tail(searches))
  <2>1. Len(searches) \in Nat /\ DOMAIN searches = 1 .. Len(searches)
    BY <1>6
  <2>2. \A n \in DOMAIN Tail(searches) : n + 1 \in DOMAIN searches /\ Tail(searches)[n] = searches[n + 1]
    BY <1>8, <2>1
  <2>3. QED
    BY <1>5, <1>8, <2>2 DEF Planned, IsSeq
<1>11. K \in Nat
  BY <1>5, <1>8, <1>9 DEF Planned, K
<1>12. QED
  BY <1>5, <1>9, <1>10, <1>11

-----------------------------------------------------------------------------
(* The preparation of a context, step by step.                             *)

ContextInv == StoreOK /\ OnceInv /\ SearchOK(prep) /\ PlanOK(prep)

\* Without a write, what there is to find stays the same.
LEMMA SameStore ==
  ASSUME UNCHANGED searchVars
  PROVE  /\ items' = items
         /\ Index(NoUser)' = Index(NoUser) /\ \A h : Hit(h)' = Hit(h)
         /\ \A i, u : OfUser(i, u)' = OfUser(i, u)
<1>1. items' = items
  BY DEF searchVars, storeVars
<1>2. QED
  BY <1>1 DEF Index, Hit, OfUser, Matches

\* Only these fields say what was found.
LEMMA SearchCarried ==
  ASSUME NEW p, SearchOK(p), UNCHANGED searchVars,
         /\ prep'.user = p.user /\ prep'.since = p.since
         /\ prep'.found = p.found /\ prep'.sources = p.sources,
         IsFiniteSet(prep'.sessions), prep'.reserved \subseteq p.reserved
  PROVE  SearchOK(prep)'
<1>1. /\ items' = items
      /\ Index(NoUser)' = Index(NoUser) /\ \A h : Hit(h)' = Hit(h)
      /\ \A i, u : OfUser(i, u)' = OfUser(i, u)
  BY SameStore
<1>2. \A h \in prep'.reserved : Matches(Hit(h), prep'.user)
  BY DEF SearchOK
<1>3. \A h \in prep'.reserved : Matches(Hit(h), prep.user)'
  BY <1>1, <1>2 DEF Matches
<1>4. QED
  BY <1>1, <1>3 DEF SearchOK

\* A context goes on, or fails: all steps but the last, which makes it ready.
Advances == SearchOK(prep)' /\ PlanOK(prep)' /\ prep'.result \in {"pending", "failed"}

\* A search finds something, perhaps, and puts further searches before those to come.
LEMMA SearchProceeds ==
  ASSUME PlanOK(prep), NEW do \in Searching, Doing(do), NEW p, Shaped(p), SearchOK(p),
         p.result = prep.result, p.todo = prep.todo, p.ranked = prep.ranked,
         NEW steps, Planned(steps), Proceed(p, steps)
  PROVE  Advances
<1>1. /\ prep.result = "pending" /\ prep.ranked = <<>>
      /\ \E searches : Planned(searches) /\ Tail(prep.todo) = searches \o Finish
  BY SearchAhead
<1>2. PICK searches : Planned(searches) /\ Tail(prep.todo) = searches \o Finish
  BY <1>1
<1>3. UNCHANGED searchVars /\ prep' = [p EXCEPT !.todo = steps \o Tail(@)]
  BY DEF Proceed
<1>4. /\ prep'.user = p.user /\ prep'.since = p.since /\ prep'.sessions = p.sessions
      /\ prep'.found = p.found /\ prep'.sources = p.sources /\ prep'.reserved = p.reserved
      /\ prep'.result = p.result /\ prep'.ranked = p.ranked
      /\ prep'.todo = steps \o Tail(p.todo)
  BY <1>3 DEF Shaped
<1>5. SearchOK(prep)'
  <2>1. IsFiniteSet(p.sessions)
    BY DEF SearchOK
  <2>2. QED
    BY <1>3, <1>4, <2>1, SearchCarried
<1>6. prep'.todo = (steps \o searches) \o Finish
  <2>1. IsSeq(Finish)
    <3>1. PICK a, b, c : Finish = <<a, b, c>>
      BY FinishIs
    <3>2. Finish \in Seq({a, b, c})
      BY <3>1
    <3>3. QED
      BY <3>2 DEF IsSeq
  <2>2. IsSeq(steps) /\ IsSeq(searches)
    BY <1>2 DEF Planned
  <2>3. (steps \o searches) \o Finish = steps \o (searches \o Finish)
    BY <2>1, <2>2, SeqAssociative
  <2>4. prep'.todo = steps \o (searches \o Finish)
    BY Zenon, <1>2, <1>4
  <2>5. QED
    BY Zenon, <2>3, <2>4
<1>7. Planned(steps \o searches)
  BY <1>2, PlannedConcat
<1>8. PlanOK(prep)'
  <2>1. \E s : Planned(s) /\ prep'.todo = s \o Finish
    BY <1>6, <1>7
  <2>2. QED
    BY <1>1, <1>4, <2>1 DEF PlanOK
<1>9. QED
  BY <1>1, <1>4, <1>5, <1>8 DEF Advances

\* A search that only adds to what was found.
LEMMA FindKeeps ==
  ASSUME ContextInv, NEW do \in Searching, Doing(do), NEW results, NEW channel,
         \A hits \in results : Brings(hits, channel, prep.user), Find(results, channel)
  PROVE  Advances
<1>1. PICK hits \in results : \E p \in Register(prep, hits, channel) : Proceed(p, <<>>)
  BY DEF Find
<1>2. PICK p \in Register(prep, hits, channel) : Proceed(p, <<>>)
  BY <1>1
<1>3. /\ Shaped(p) /\ SearchOK(p)
      /\ p.result = prep.result /\ p.todo = prep.todo /\ p.ranked = prep.ranked
  BY <1>1, <1>2, RegisterKeeps DEF ContextInv, OnceInv, OnceIn
<1>4. QED
  BY <1>2, <1>3, PlannedNone, SearchProceeds DEF ContextInv

\* A search that only plans others.
LEMMA PlanKeeps ==
  ASSUME ContextInv, NEW do \in Searching, Doing(do), NEW then \in Searching, NEW S,
         IsFiniteSet(S), NEW k \in Nat,
         Proceed(prep, Each(SetToSeq(S), LAMBDA e : Step(then, e, k)))
  PROVE  Advances
<1>1. IsSeq(SetToSeq(S))
  BY SetToSeqIs DEF IsSeq
<1>2. PICK steps : Planned(steps) /\ Proceed(prep, steps)
  BY <1>1, PlannedEach
<1>3. QED
  BY <1>2, SearchProceeds DEF ContextInv, OnceInv, OnceIn

\* What was found is in finitely many sessions.
LEMMA SessionsFinite ==
  ASSUME StoreOK, NEW hits, hits \subseteq Index(NoUser)
  PROVE  IsFiniteSet(SessionsOf(hits))
<1> DEFINE f == [h \in hits |-> About(h).session]
<1>1. IsFiniteSet(hits)
  BY HitsFinite
<1>2. DOMAIN f = hits /\ {f[h] : h \in hits} = {About(h).session : h \in hits}
  OBVIOUS
<1> HIDE DEF f
<1>3. IsFiniteSet({About(h).session : h \in hits})
  BY <1>1, <1>2, ImageFinite
<1>4. QED
  BY <1>3, FS_Subset DEF SessionsOf

\* To note the sessions changes nothing else.
LEMMA SessionsKeep ==
  ASSUME NEW p, Shaped(p), SearchOK(p), NEW q, NEW s, IsFiniteSet(s),
         q = [p EXCEPT !.sessions = s]
  PROVE  /\ Shaped(q) /\ SearchOK(q)
         /\ q.result = p.result /\ q.todo = p.todo /\ q.ranked = p.ranked
<1>1. /\ Shaped(q) /\ q.sessions = s
      /\ q.result = p.result /\ q.todo = p.todo /\ q.ranked = p.ranked
      /\ q.user = p.user /\ q.since = p.since /\ q.found = p.found
      /\ q.sources = p.sources /\ q.reserved = p.reserved
  BY DEF Shaped
<1>2. QED
  BY <1>1 DEF SearchOK

\* search_by_speaker.
LEMMA SpeakerStep == ContextInv /\ FindBySpeaker => Advances
<1>1. SUFFICES ASSUME ContextInv, FindBySpeaker PROVE Advances
  OBVIOUS
<1>2. PICK speakers : speakers = KnownSpeakers \cap ToSet(prep.query)
  OBVIOUS
<1>3. PICK results :
        results = OrNothing(UNION {SearchBySpeaker(Arg, s, K, prep.user) : s \in speakers})
  OBVIOUS
<1>4. Doing("speaker") /\ Find(results, "speaker_filter")
  BY <1>1, <1>2, <1>3 DEF FindBySpeaker
<1>5. \A hits \in results : Brings(hits, "speaker_filter", prep.user)
  BY <1>1, <1>3, SpeakerBrings DEF ContextInv
<1>6. "speaker" \in Searching
  BY DEF Searching
<1>7. QED
  BY <1>1, <1>4, <1>5, <1>6, FindKeeps

\* search_hybrid_deduped, by type or for all.
LEMMA TypeStep == ContextInv /\ FindByType => Advances
<1>1. SUFFICES ASSUME ContextInv, FindByType PROVE Advances
  OBVIOUS
<1>2. "type" \in Searching /\ Doing("type") /\ K \in Nat
  <2>1. "type" \in Searching /\ Doing("type")
    BY <1>1 DEF Searching, FindByType
  <2>2. QED
    BY <1>1, <2>1, SearchAhead DEF ContextInv
<1>3. PICK found \in SearchHybridDeduped(Arg.query, K, prep.user, Arg.type) :
        \E p \in Register(prep, ToSet(found), "hybrid"), seeds \in {{}, SessionsOf(ToSet(found))} :
          Proceed([p EXCEPT !.sessions = @ \cup seeds], <<>>)
  BY <1>1 DEF FindByType
<1>4. PICK p \in Register(prep, ToSet(found), "hybrid"), seeds \in {{}, SessionsOf(ToSet(found))} :
        Proceed([p EXCEPT !.sessions = @ \cup seeds], <<>>)
  BY <1>3
<1>5. Brings(ToSet(found), "hybrid", prep.user)
  BY <1>1, <1>2, HybridBrings DEF ContextInv
<1>6. /\ Shaped(p) /\ SearchOK(p)
      /\ p.result = prep.result /\ p.todo = prep.todo /\ p.ranked = prep.ranked
  BY <1>1, <1>4, <1>5, RegisterKeeps DEF ContextInv, OnceInv, OnceIn
<1>7. IsFiniteSet(seeds)
  <2>1. ToSet(found) \subseteq Index(NoUser)
    BY <1>5 DEF Brings
  <2>2. QED
    BY <1>1, <2>1, SessionsFinite, FS_EmptySet DEF ContextInv
<1>8. PICK s : s = p.sessions \cup seeds
  OBVIOUS
<1>9. IsFiniteSet(s)
  <2>1. IsFiniteSet(p.sessions)
    BY <1>6 DEF SearchOK
  <2>2. QED
    BY <1>7, <1>8, <2>1, FS_Union
<1>10. PICK q : q = [p EXCEPT !.sessions = s] /\ Proceed(q, <<>>)
  BY <1>4, <1>8
<1>11. /\ Shaped(q) /\ SearchOK(q)
       /\ q.result = p.result /\ q.todo = p.todo /\ q.ranked = p.ranked
  BY <1>6, <1>9, <1>10, SessionsKeep
<1>12. QED
  BY <1>1, <1>2, <1>6, <1>10, <1>11, PlannedNone, SearchProceeds DEF ContextInv

\* search_graph.
LEMMA GraphStep == ContextInv /\ FindByGraph => Advances
<1>1. SUFFICES ASSUME ContextInv, FindByGraph PROVE Advances
  OBVIOUS
<1>2. "graph" \in Searching /\ Doing("graph")
  BY <1>1 DEF Searching, FindByGraph
<1>3. PICK hits \in SearchGraph(Arg, K, prep.user, AnyType) :
        \E p \in Register(prep, hits, "graph") :
          \E s \in {p.sessions, p.sessions \cup SessionsOf(hits)} :
            Proceed([p EXCEPT !.sessions = s], <<>>)
  BY <1>1 DEF FindByGraph
<1>4. PICK p \in Register(prep, hits, "graph") :
        \E s \in {p.sessions, p.sessions \cup SessionsOf(hits)} :
          Proceed([p EXCEPT !.sessions = s], <<>>)
  BY <1>3
<1>5. PICK s \in {p.sessions, p.sessions \cup SessionsOf(hits)} :
        Proceed([p EXCEPT !.sessions = s], <<>>)
  BY <1>4
<1>6. Brings(hits, "graph", prep.user)
  BY <1>1, <1>3, GraphBrings DEF ContextInv
<1>7. /\ Shaped(p) /\ SearchOK(p)
      /\ p.result = prep.result /\ p.todo = prep.todo /\ p.ranked = prep.ranked
  BY <1>1, <1>4, <1>6, RegisterKeeps DEF ContextInv, OnceInv, OnceIn
<1>8. IsFiniteSet(s)
  <2>1. hits \subseteq Index(NoUser)
    BY <1>6 DEF Brings
  <2>2. IsFiniteSet(SessionsOf(hits))
    BY <1>1, <2>1, SessionsFinite DEF ContextInv
  <2>3. IsFiniteSet(p.sessions)
    BY <1>7 DEF SearchOK
  <2>4. QED
    BY <1>5, <2>2, <2>3, FS_Union
<1>9. PICK q : q = [p EXCEPT !.sessions = s] /\ Proceed(q, <<>>)
  BY <1>5
<1>10. /\ Shaped(q) /\ SearchOK(q)
      /\ q.result = p.result /\ q.todo = p.todo /\ q.ranked = p.ranked
  BY <1>7, <1>8, <1>9, SessionsKeep
<1>11. QED
  BY <1>1, <1>2, <1>7, <1>9, <1>10, PlannedNone, SearchProceeds DEF ContextInv

\* The sessions of what was found are opened.
LEMMA OpenStep == ContextInv /\ OpenSessions => Advances
<1>1. SUFFICES ASSUME ContextInv, OpenSessions PROVE Advances
  OBVIOUS
<1>2. "seeds" \in Searching /\ "session" \in Searching /\ Doing("seeds")
  BY <1>1 DEF Searching, OpenSessions
<1>3. PICK opened \in SUBSET prep.sessions :
        Proceed([prep EXCEPT !.sessions = {}],
                Each(SetToSeq(opened), LAMBDA s : Step("session", s, Places["session"])))
  BY <1>1 DEF OpenSessions, kSubset
<1>4. IsFiniteSet(opened)
  BY <1>1, SubsetOfFinite DEF ContextInv, SearchOK
<1>5. IsSeq(SetToSeq(opened)) /\ Places["session"] \in Nat
  BY <1>4, SetToSeqIs, PlaceIs DEF IsSeq, PlacesOf
<1>6. PICK steps : Planned(steps) /\ Proceed([prep EXCEPT !.sessions = {}], steps)
  BY <1>2, <1>3, <1>5, PlannedEach
<1>7. PICK p : p = [prep EXCEPT !.sessions = {}] /\ Proceed(p, steps)
  BY <1>6
<1>8. /\ Shaped(p) /\ SearchOK(p)
      /\ p.result = prep.result /\ p.todo = prep.todo /\ p.ranked = prep.ranked
  BY <1>1, <1>7, FS_EmptySet, SessionsKeep DEF ContextInv, OnceInv, OnceIn
<1>9. QED
  BY <1>1, <1>2, <1>6, <1>7, <1>8, SearchProceeds DEF ContextInv

\* The sessions of the nearest summaries are opened.
LEMMA SummariesStep == ContextInv /\ ReadSummaries => Advances
<1>1. SUFFICES ASSUME ContextInv, ReadSummaries PROVE Advances
  OBVIOUS
<1>2. "summaries" \in Searching /\ "summary" \in Searching /\ Doing("summaries")
  BY <1>1 DEF Searching, ReadSummaries
<1>3. PICK opened \in SUBSET summaries :
        Proceed(prep, Each(SetToSeq(opened), LAMBDA s : Step("summary", s, Places["summary"])))
  BY <1>1 DEF ReadSummaries, kSubset, OrNothing
<1>4. IsFiniteSet(opened)
  <2>1. opened \subseteq Session
    BY <1>1, <1>3 DEF ContextInv, StoreOK
  <2>2. QED
    BY <2>1, DatabaseAssumption, SubsetOfFinite
<1>5. Places["summary"] \in Nat
  BY PlaceIs DEF PlacesOf
<1>6. QED
  BY <1>1, <1>2, <1>3, <1>4, <1>5, PlanKeeps

\* memories_by_session.
LEMMA SessionStep == ContextInv /\ FindInSession => Advances
<1>1. SUFFICES ASSUME ContextInv, FindInSession PROVE Advances
  OBVIOUS
<1>2. PICK found : found = {ToSet(s) : s \in MemoriesBySession(Arg, prep.user, K)}
  OBVIOUS
<1>3. PICK do \in {"session", "summary"}, results \in {found, OrNothing(found)} :
        Doing(do) /\ Find(results, "session")
  BY <1>1, <1>2 DEF FindInSession
<1>4. do \in Searching
  BY DEF Searching
<1>5. K \in Nat
  BY <1>1, <1>3, <1>4, SearchAhead DEF ContextInv
<1>6. \A hits \in found : hits \subseteq CurrentHits(prep.user)
  BY <1>1, <1>2, <1>5, SessionIs DEF ContextInv
<1>7. \A hits \in results : hits \subseteq CurrentHits(prep.user)
  BY <1>3, <1>6 DEF OrNothing
<1>8. \A hits \in results : Brings(hits, "session", prep.user)
  BY <1>1, <1>7, OwnBrings DEF ContextInv
<1>9. QED
  BY <1>1, <1>3, <1>4, <1>8, FindKeeps

\* Triples are read, whose memories are read next.
LEMMA TriplesStep == ContextInv /\ (ReadEntityTriples \/ ReadTriples) => Advances
<1>1. SUFFICES ASSUME ContextInv, ReadEntityTriples \/ ReadTriples
               PROVE  Advances
  OBVIOUS
<1>2. PICK do \in {"entity", "triples"} : Doing(do) /\ \E found \in SUBSET triples :
        ReadMemories({t.id : t \in found})
  BY <1>1 DEF ReadEntityTriples, ReadTriples, OrNothing, AnyOf, kSubset
<1>3. PICK found \in SUBSET triples : ReadMemories({t.id : t \in found})
  BY <1>2
<1>4. PICK ids : ids = {t.id : t \in found}
  OBVIOUS
<1>5. IsFiniteSet(ids)
  <2>1. ids \subseteq Id
    BY <1>1, <1>3, <1>4 DEF ContextInv, StoreOK
  <2>2. QED
    BY <2>1, DatabaseAssumption, SubsetOfFinite
<1>6. Proceed(prep, Each(SetToSeq(ids), LAMBDA i : Step("memory", i, 0)))
  BY <1>3, <1>4 DEF ReadMemories
<1>7. do \in Searching /\ "memory" \in Searching /\ 0 \in Nat
  BY DEF Searching
<1>8. QED
  BY <1>1, <1>2, <1>5, <1>6, <1>7, PlanKeeps

\* get_memory of what a triple names.
LEMMA TripleStep == ContextInv /\ FindByTriple => Advances
<1>1. SUFFICES ASSUME ContextInv, FindByTriple PROVE Advances
  OBVIOUS
<1>2. PICK results : results = OrNothing({{h \in CurrentHits(NoUser) : h[1] = Arg}})
  OBVIOUS
<1>3. Doing("memory") /\ Find(results, "triple") /\ "memory" \in Searching
  BY <1>1, <1>2 DEF FindByTriple, Searching
<1>4. ASSUME NEW hits \in results PROVE Brings(hits, "triple", prep.user)
  <2>1. hits \subseteq CurrentHits(NoUser)
    BY <1>2 DEF OrNothing
  <2>2. QED
    BY <1>1, <2>1, CurrentIndexed DEF ContextInv, Brings
<1>5. QED
  BY <1>1, <1>3, <1>4, FindKeeps

\* search_text, filtered.
LEMMA TextStep == ContextInv /\ FindByText => Advances
<1>1. SUFFICES ASSUME ContextInv, FindByText PROVE Advances
  OBVIOUS
<1>2. PICK results : results = {Filtered(hits, prep.user, AnyType) : hits \in SearchText(Arg, K)}
  OBVIOUS
<1>3. Doing("text") /\ Find(results, "bm25") /\ "text" \in Searching
  BY <1>1, <1>2 DEF FindByText, Searching
<1>4. ASSUME NEW hits \in results PROVE Brings(hits, "bm25", prep.user)
  <2>1. hits \subseteq Index(prep.user)
    BY <1>1, <1>2, TextIs DEF ContextInv
  <2>2. QED
    BY <1>1, <2>1, OwnBrings DEF ContextInv, Indexed
<1>5. QED
  BY <1>1, <1>3, <1>4, FindKeeps

\* Raw turns are chosen, whose windows are read next.
LEMMA AnchorsStep == ContextInv /\ OpenWindows => Advances
<1>1. SUFFICES ASSUME ContextInv, OpenWindows PROVE Advances
  OBVIOUS
<1>2. "anchors" \in Searching /\ "window" \in Searching /\ Doing("anchors")
  BY <1>1 DEF Searching, OpenWindows
<1>3. PICK anchors \in SUBSET prep.found :
        Proceed(prep, Each(SetToSeq(anchors), LAMBDA h : Step("window", h, Places["window"])))
  <2>1. PICK raw, first, anchors :
          /\ raw \subseteq prep.found /\ first \in AnyOf(K, raw) /\ anchors \subseteq first
          /\ Proceed(prep, Each(SetToSeq(anchors), LAMBDA h : Step("window", h, Places["window"])))
    BY <1>1 DEF OpenWindows
  <2>2. anchors \in SUBSET prep.found
    BY <2>1, FoundAmong
  <2>3. QED
    BY <2>1, <2>2
<1>4. IsFiniteSet(anchors)
  <2>1. anchors \subseteq Index(NoUser)
    BY <1>1, <1>3 DEF ContextInv, SearchOK
  <2>2. QED
    BY <1>1, <2>1, HitsFinite DEF ContextInv
<1>5. Places["window"] \in Nat
  BY PlaceIs DEF PlacesOf
<1>6. QED
  BY <1>1, <1>2, <1>3, <1>4, <1>5, PlanKeeps

\* get_adjacent_turns.
LEMMA WindowStep == ContextInv /\ FindInWindow => Advances
<1>1. SUFFICES ASSUME ContextInv, FindInWindow PROVE Advances
  OBVIOUS
<1>2. PICK found : found = AdjacentTurns(About(Arg).session, Hit(Arg).content, K, prep.user)
  OBVIOUS
<1>3. Doing("window") /\ Find(OrNothing(found), "window") /\ "window" \in Searching
  BY <1>1, <1>2 DEF FindInWindow, Searching
<1>4. ASSUME NEW hits \in OrNothing(found) PROVE Brings(hits, "window", prep.user)
  <2>1. hits \subseteq CurrentHits(prep.user)
    BY <1>1, <1>2, WindowIs DEF ContextInv, OrNothing
  <2>2. QED
    BY <1>1, <2>1, OwnBrings DEF ContextInv
<1>5. QED
  BY <1>1, <1>3, <1>4, FindKeeps

\* Keyword hits are reserved.
LEMMA ReserveStep == ContextInv /\ Reserve => Advances
<1>1. SUFFICES ASSUME ContextInv, Reserve PROVE Advances
  OBVIOUS
<1>2. Doing("reserve") /\ "reserve" \in Searching
  BY <1>1 DEF Reserve, Searching
<1>3. PICK text \in SearchText(Arg, K) : \E hits \in {Filtered(text, prep.user, AnyType)} :
        \E new \in Versions({h \in hits : h[1] \notin IdsOf(prep.reserved)}) :
          Proceed([prep EXCEPT !.reserved = @ \cup new,
                               !.sources = @ \cup (IdsOf(hits) \X {"bm25"})], <<>>)
  BY <1>1 DEF Reserve
<1>4. PICK hits : hits = Filtered(text, prep.user, AnyType) /\
        \E new \in Versions({h \in hits : h[1] \notin IdsOf(prep.reserved)}) :
          Proceed([prep EXCEPT !.reserved = @ \cup new,
                               !.sources = @ \cup (IdsOf(hits) \X {"bm25"})], <<>>)
  BY <1>3
<1>5. PICK new \in Versions({h \in hits : h[1] \notin IdsOf(prep.reserved)}) :
        Proceed([prep EXCEPT !.reserved = @ \cup new,
                             !.sources = @ \cup (IdsOf(hits) \X {"bm25"})], <<>>)
  BY <1>4
<1>6. PICK more : more = IdsOf(hits) \X {"bm25"}
  OBVIOUS
<1>7. PICK p : p = [prep EXCEPT !.reserved = @ \cup new, !.sources = @ \cup more] /\ Proceed(p, <<>>)
  BY <1>5, <1>6
<1>8. Shaped(prep) /\ SearchOK(prep) /\ StoreOK
  BY <1>1 DEF ContextInv, OnceInv, OnceIn
<1>9. /\ Shaped(p) /\ p.reserved = prep.reserved \cup new /\ p.sources = prep.sources \cup more
      /\ p.result = prep.result /\ p.todo = prep.todo /\ p.ranked = prep.ranked
      /\ p.user = prep.user /\ p.since = prep.since /\ p.found = prep.found
      /\ p.sessions = prep.sessions
  BY <1>7, <1>8 DEF Shaped
<1>10. hits \subseteq Index(prep.user) /\ hits \subseteq Index(NoUser) /\ new \subseteq hits
       /\ \A h \in hits : h[1] \in Id /\ OfUser(h[1], prep.user) /\ Matches(Hit(h), prep.user)
  <2>1. hits \subseteq Index(prep.user)
    BY <1>3, <1>4, <1>8, TextIs
  <2>2. \A h \in hits : OfUser(h[1], prep.user)
    BY <1>8, <2>1, OwnHits DEF SearchOK
  <2>3. new \subseteq hits
    BY <1>5, VersionsOnce
  <2>4. QED
    BY <1>8, <2>1, <2>2, <2>3, IndexOf
<1>11. \A s \in more : s[1] \in Id /\ OfUser(s[1], prep.user)
  <2>1. \A s \in more : \E h \in hits : s[1] = h[1]
    BY <1>6 DEF IdsOf
  <2>2. QED
    BY <1>10, <2>1
<1>12. SearchOK(p)
  <2>1. p.reserved \subseteq Index(NoUser) /\ \A h \in p.reserved : Matches(Hit(h), p.user)
    BY <1>8, <1>9, <1>10 DEF SearchOK
  <2>2. \A s \in p.sources :
          s[1] \in Id /\ (OfUser(s[1], p.user) \/ s[2] \in {"graph", "triple"})
    BY <1>8, <1>9, <1>11 DEF SearchOK
  <2>3. QED
    BY <1>8, <1>9, <2>1, <2>2 DEF SearchOK
<1>13. QED
  BY <1>1, <1>2, <1>7, <1>9, <1>12, PlannedNone, SearchProceeds DEF ContextInv

-----------------------------------------------------------------------------
(* Ranking, reranking and layout.                                          *)

\* What the reranker names comes first, as often as it is named, then the rest, each once.
LEMMA ReorderedIs ==
  ASSUME OnceInv, Ordered(prep), prep.scored = 0, NEW picks \in Orders(Pool)
  PROVE  Ranking(Reordered(picks), Len(Named(picks)), prep.found)
<1>1. PICK r, found : r = prep.ranked /\ found = prep.found
  OBVIOUS
<1>2. PICK N \in Nat : N = Len(r) /\ DOMAIN r = 1 .. N
  BY <1>1 DEF Ordered, Ranking
<1>3. Once(found)
  BY <1>1 DEF OnceInv, OnceIn
<1>4. r \in Seq(found) /\ ToSet(r) = found
  BY <1>1 DEF Ordered, Ranking
<1>5. \A m, n \in 1 .. N : m < n => r[m][1] # r[n][1]
  BY <1>1, <1>2 DEF Ordered, Ranking
<1>6. Pool \in Nat /\ Pool <= N
  <2>1. Classify(prep.query) \in Complexity
    BY DEF Classify, Complexity
  <2>2. Strategy[Classify(prep.query)].pool \in Nat
    BY <2>1, ContextAssumption
  <2>3. QED
    BY <1>1, <1>2, <2>2 DEF Pool, AtMost
<1>7. PICK S : S = 1 .. Pool + 1
  OBVIOUS
<1>8. picks \in Seq(S)
  <2>1. PICK n \in 0 .. MaxNamed : picks \in [1 .. n -> S]
    BY <1>7 DEF Orders
  <2>2. n \in Nat
    BY <2>1, ContextAssumption
  <2>3. QED
    BY <2>1, <2>2
<1>9. PICK P : P = {n \in DOMAIN picks : picks[n] <= Pool} /\ Named(picks) = Selected(picks, P)
  BY DEF Named
<1>10. PICK t : t = Named(picks) /\ t \in Seq(S) /\ IsSelection(picks, P, t)
  BY <1>8, <1>9, SelectedParts
<1>11. PICK T \in Nat : T = Len(t) /\ DOMAIN t = 1 .. T
  BY <1>10
<1>12. \A i \in 1 .. T : t[i] \in 1 .. N
  <2>1. PICK at \in [1 .. T -> P] : \A i \in 1 .. T : t[i] = picks[at[i]]
    BY <1>10, <1>11 DEF IsSelection
  <2>2. \A i \in 1 .. T : t[i] <= Pool
    BY <1>9, <2>1
  <2>3. \A i \in 1 .. T : t[i] \in S
    BY <1>10, <1>11
  <2>4. QED
    BY <1>6, <1>7, <2>2, <2>3
<1>13. PICK first : first = [n \in DOMAIN t |-> r[t[n]]]
  OBVIOUS
<1>14. /\ first \in Seq(found) /\ Len(first) = T
       /\ \A i \in 1 .. T : first[i] = r[t[i]] /\ first[i] \in found
       /\ ToSet(first) = {first[i] : i \in 1 .. T}
  <2>1. \A i \in 1 .. T : r[t[i]] \in found
    BY <1>2, <1>4, <1>12
  <2>2. first = [i \in 1 .. T |-> r[t[i]]]
    BY <1>11, <1>13
  <2>3. QED
    BY <1>11, <2>1, <2>2 DEF ToSet
<1>15. PICK rest : rest = {n \in DOMAIN r : r[n][1] \notin IdsOf(ToSet(first))}
  OBVIOUS
<1>16. PICK u : u = Selected(r, rest) /\ u \in Seq(found) /\ IsSelection(r, rest, u)
  <2>1. rest \in SUBSET DOMAIN r
    BY <1>15
  <2>2. QED
    BY <1>4, <2>1, SelectedParts
<1>17. PICK U \in Nat : U = Len(u) /\ DOMAIN u = 1 .. U
  BY <1>16
<1>18. PICK to \in [1 .. U -> rest] :
         /\ \A i \in 1 .. U : u[i] = r[to[i]]
         /\ \A i, j \in 1 .. U : i < j => to[i] < to[j]
         /\ \A n \in rest : \E i \in 1 .. U : to[i] = n
  BY <1>16, <1>17 DEF IsSelection
<1>19. \A i \in 1 .. U : to[i] \in 1 .. N /\ r[to[i]][1] \notin IdsOf(ToSet(first))
  BY <1>2, <1>15, <1>18
<1>20. PICK w : w = first \o u
  OBVIOUS
<1>21. /\ w \in Seq(found) /\ Len(w) = T + U /\ DOMAIN w = 1 .. T + U
       /\ \A i \in 1 .. T : w[i] = first[i]
       /\ \A i \in 1 .. U : w[T + i] = u[i]
  <2>1. /\ w \in Seq(found) /\ Len(w) = T + U
        /\ \A i \in 1 .. T + U : w[i] = IF i <= T THEN first[i] ELSE u[i - T]
    <3>1. /\ first \o u \in Seq(found) /\ Len(first \o u) = Len(first) + Len(u)
          /\ \A i \in 1 .. Len(first) + Len(u) :
               (first \o u)[i] = IF i <= Len(first) THEN first[i] ELSE u[i - Len(first)]
      BY <1>14, <1>16, ConcatProperties
    <3>2. QED
      BY <1>14, <1>17, <1>20, <3>1
  <2>2. \A i \in 1 .. T : w[i] = first[i]
    BY <2>1
  <2>3. ASSUME NEW i \in 1 .. U PROVE w[T + i] = u[i]
    <3>1. T + i \in 1 .. T + U /\ ~(T + i <= T) /\ T + i - T = i
      OBVIOUS
    <3>2. QED
      BY <2>1, <3>1
  <2>4. QED
    BY <2>1, <2>2, <2>3
<1>22. ToSet(w) = found
  <2>1. ToSet(w) \subseteq found
    BY <1>21 DEF ToSet
  <2>2. ASSUME NEW h \in found PROVE h \in ToSet(w)
    <3>1. PICK n \in 1 .. N : h = r[n]
      BY <1>2, <1>4 DEF ToSet
    <3>2. CASE n \in rest
      <4>1. PICK i \in 1 .. U : to[i] = n
        BY <1>18, <3>2
      <4>2. w[T + i] = h /\ T + i \in 1 .. T + U
        BY <1>18, <1>21, <3>1, <4>1
      <4>3. QED
        BY <1>21, <4>2 DEF ToSet
    <3>3. CASE n \notin rest
      <4>1. h[1] \in IdsOf(ToSet(first))
        BY <1>2, <1>15, <3>1, <3>3
      <4>2. PICK i \in 1 .. T : first[i][1] = h[1]
        BY <1>14, <4>1 DEF IdsOf
      <4>3. first[i] = h
        BY <1>3, <1>14, <4>2 DEF Once
      <4>4. w[i] = h /\ i \in 1 .. T + U
        BY <1>21, <4>3
      <4>5. QED
        BY <1>21, <4>4 DEF ToSet
    <3>4. QED
      BY <3>2, <3>3
  <2>3. QED
    BY <2>1, <2>2
<1>23. \A m, n \in 1 .. T + U : m < n /\ w[m][1] = w[n][1] => n <= T
  <2>1. ASSUME NEW i \in 1 .. U, NEW j \in 1 .. U, i < j PROVE u[i][1] # u[j][1]
    <3>1. to[i] \in 1 .. N /\ to[j] \in 1 .. N /\ to[i] < to[j]
      BY <1>18, <1>19, <2>1
    <3>2. r[to[i]][1] # r[to[j]][1]
      BY <1>5, <3>1
    <3>3. QED
      BY <1>18, <3>2
  <2>2. \A i \in 1 .. T, j \in 1 .. U : first[i][1] # u[j][1]
    <3>1. \A i \in 1 .. T : first[i][1] \in IdsOf(ToSet(first))
      BY <1>14 DEF IdsOf
    <3>2. QED
      BY <1>18, <1>19, <3>1
  <2>3. ASSUME NEW m \in 1 .. T + U, ~(m <= T) PROVE m - T \in 1 .. U /\ w[m] = u[m - T]
    <3>1. m - T \in 1 .. U /\ m = T + (m - T)
      BY <2>3
    <3>2. w[T + (m - T)] = u[m - T]
      BY <1>21, <3>1
    <3>3. QED
      BY <3>1, <3>2
  <2>4. SUFFICES ASSUME NEW m \in 1 .. T + U, NEW n \in 1 .. T + U, m < n, ~(n <= T)
                 PROVE  w[m][1] # w[n][1]
    OBVIOUS
  <2>5. n - T \in 1 .. U /\ w[n] = u[n - T]
    BY <2>3, <2>4
  <2>6. CASE m <= T
    <3>1. m \in 1 .. T /\ w[m] = first[m]
      BY <1>21, <2>6
    <3>2. QED
      BY <2>2, <2>5, <3>1
  <2>7. CASE ~(m <= T)
    <3>1. m - T \in 1 .. U /\ w[m] = u[m - T] /\ m - T < n - T
      BY <2>3, <2>4, <2>7
    <3>2. QED
      BY <2>1, <2>5, <3>1
  <2>8. QED
    BY <2>6, <2>7
<1>24. w = Reordered(picks)
  <2>1. first = [n \in DOMAIN Named(picks) |-> prep.ranked[Named(picks)[n]]]
    BY <1>1, <1>10, <1>13
  <2>2. QED
    BY <1>1, <1>15, <1>16, <1>20, <2>1 DEF Reordered
<1>25. QED
  BY <1>1, <1>10, <1>11, <1>21, <1>22, <1>23, <1>24 DEF Ranking

\* A step that finishes is the first of what is left, and what comes next is known.
LEMMA FinishAhead ==
  ASSUME PlanOK(prep), NEW do \in {"rank", "rerank", "assemble"}, Doing(do)
  PROVE  /\ prep.result = "pending"
         /\ \/ do = "rank" /\ <<>> \o Tail(prep.todo) = Tail(Finish)
            \/ /\ do = "rerank" /\ <<>> \o Tail(prep.todo) = Tail(Tail(Finish))
               /\ Ordered(prep) /\ prep.scored = 0
            \/ do = "assemble" /\ <<>> \o Tail(prep.todo) = <<>> /\ Ordered(prep)
<1>1. PICK a, b, c : /\ a.do = "rank" /\ b.do = "rerank" /\ c.do = "assemble"
                     /\ Finish = <<a, b, c>> /\ Tail(Finish) = <<b, c>>
                     /\ Tail(Tail(Finish)) = <<c>> /\ Tail(Tail(Tail(Finish))) = <<>>
  BY FinishIs
<1>2. prep.todo # <<>> /\ Head(prep.todo).do = do
  BY DEF Doing
<1>3. \A s \in {<<b, c>>, <<c>>, <<>>} : <<>> \o s = s
  <2>1. PICK S : S = {b, c}
    OBVIOUS
  <2>2. <<b, c>> \in Seq(S) /\ <<c>> \in Seq(S) /\ <<>> \in Seq(S)
    BY <2>1
  <2>3. \A s \in Seq(S) : <<>> \o s = s
    OBVIOUS
  <2>4. QED
    BY <2>2, <2>3
<1>4. Head(Finish).do = "rank" /\ Head(Tail(Finish)).do = "rerank"
      /\ Head(Tail(Tail(Finish))).do = "assemble"
  BY <1>1
<1>5. CASE /\ prep.todo \in {Tail(Finish), Tail(Tail(Finish))} /\ Ordered(prep)
           /\ prep.todo = Tail(Finish) => prep.scored = 0
           /\ prep.result = "pending"
  <2>1. CASE prep.todo = Tail(Finish)
    BY <1>1, <1>2, <1>3, <1>4, <1>5, <2>1
  <2>2. CASE prep.todo = Tail(Tail(Finish))
    BY <1>1, <1>2, <1>3, <1>4, <1>5, <2>2
  <2>3. QED
    BY <1>5, <2>1, <2>2
<1>6. ASSUME NEW searches, Planned(searches), prep.todo = searches \o Finish,
             prep.result = "pending"
      PROVE  do = "rank" /\ Tail(prep.todo) = Tail(Finish)
  <2>1. CASE searches = <<>>
    <3>1. <<>> \o Finish = Finish
      BY <1>1
    <3>2. QED
      BY <1>2, <1>4, <1>6, <2>1, <3>1
  <2>2. CASE searches # <<>>
    <3>1. IsSeq(searches) /\ IsSeq(Finish)
      <4>1. Finish \in Seq({a, b, c})
        BY <1>1
      <4>2. QED
        BY <1>6, <4>1 DEF Planned, IsSeq
    <3>2. Len(searches) \in Nat /\ Len(searches) # 0 /\ Len(Finish) \in Nat
      BY <2>2, <3>1 DEF IsSeq
    <3>3. 1 \in DOMAIN searches /\ (searches \o Finish)[1] = searches[1]
          /\ Head(searches \o Finish) = (searches \o Finish)[1]
      <4>1. 1 \in 1 .. Len(searches) /\ 1 \in 1 .. Len(searches) + Len(Finish) /\ 1 <= Len(searches)
        BY <3>2
      <4>2. QED
        BY <3>1, <4>1, SeqConcat, ElementsIn
    <3>4. do \in Searching
      BY <1>2, <1>6, <3>3 DEF Planned
    <3>5. QED
      BY <3>4 DEF Searching
  <2>3. QED
    BY <2>1, <2>2
<1>7. CASE \E searches : Planned(searches) /\ prep.todo = searches \o Finish /\ prep.result = "pending"
  BY <1>1, <1>3, <1>6, <1>7
<1>8. QED
  BY <1>2, <1>5, <1>7 DEF PlanOK

\* A step that finishes leaves what was found as it is.
LEMMA LayoutKeeps ==
  ASSUME ContextInv, NEW p, Proceed(p, <<>>), NEW rest, <<>> \o Tail(prep.todo) = rest,
         Shaped(p), p.todo = prep.todo, p.user = prep.user, p.since = prep.since,
         p.found = prep.found, p.sources = prep.sources, p.sessions = prep.sessions,
         p.reserved \subseteq prep.reserved
  PROVE  /\ SearchOK(prep)' /\ prep'.todo = rest /\ prep'.found = prep.found
         /\ prep'.ranked = p.ranked /\ prep'.scored = p.scored /\ prep'.result = p.result
<1>1. UNCHANGED searchVars /\ prep' = [p EXCEPT !.todo = <<>> \o Tail(@)]
  BY DEF Proceed
<1>2. /\ prep'.user = p.user /\ prep'.since = p.since /\ prep'.sessions = p.sessions
      /\ prep'.found = p.found /\ prep'.sources = p.sources /\ prep'.reserved = p.reserved
      /\ prep'.result = p.result /\ prep'.ranked = p.ranked /\ prep'.scored = p.scored
      /\ prep'.todo = <<>> \o Tail(p.todo)
  BY <1>1 DEF Shaped
<1>3. SearchOK(prep) /\ IsFiniteSet(prep.sessions)
  BY DEF ContextInv, SearchOK
<1>4. SearchOK(prep)'
  BY <1>1, <1>2, <1>3, SearchCarried
<1>5. QED
  BY <1>2, <1>4

\* What was found is put in an order, all of it.
LEMMA RankStep == ContextInv /\ Rank => Advances
<1>1. SUFFICES ASSUME ContextInv, Rank PROVE Advances
  OBVIOUS
<1>2. /\ Shaped(prep) /\ PlanOK(prep) /\ SearchOK(prep) /\ StoreOK /\ Doing("rank")
      /\ Once(prep.found)
  BY <1>1 DEF ContextInv, OnceInv, OnceIn, Rank
<1>3. prep.result = "pending" /\ <<>> \o Tail(prep.todo) = Tail(Finish)
  BY <1>2, FinishAhead
<1>4. PICK kept, order, p :
        /\ kept \subseteq prep.reserved /\ order \in SetToSeqs(prep.found)
        /\ p = [prep EXCEPT !.reserved = kept, !.ranked = order, !.scored = 0]
        /\ Proceed(p, <<>>)
  <2>1. PICK kept \in AnyOf(Places["keywords"], prep.reserved), order \in SetToSeqs(prep.found) :
          Proceed([prep EXCEPT !.reserved = kept, !.ranked = order, !.scored = 0], <<>>)
    BY <1>1 DEF Rank
  <2>2. kept \subseteq prep.reserved
    BY <2>1, FoundAmong
  <2>3. PICK p : p = [prep EXCEPT !.reserved = kept, !.ranked = order, !.scored = 0]
    OBVIOUS
  <2>4. QED
    BY <2>1, <2>2, <2>3
<1>5. /\ Shaped(p) /\ p.todo = prep.todo /\ p.user = prep.user /\ p.since = prep.since
      /\ p.found = prep.found /\ p.sources = prep.sources /\ p.sessions = prep.sessions
      /\ p.reserved = kept /\ p.ranked = order /\ p.scored = 0 /\ p.result = prep.result
  BY <1>2, <1>4 DEF Shaped
<1>6. /\ SearchOK(prep)' /\ prep'.todo = Tail(Finish) /\ prep'.found = prep.found
      /\ prep'.ranked = order /\ prep'.scored = 0 /\ prep'.result = "pending"
  BY <1>1, <1>3, <1>4, <1>5, LayoutKeeps
<1>7. Ranking(order, 0, prep.found)
  <2>1. /\ order \in Seq(prep.found) /\ ToSet(order) = prep.found
        /\ \A m, n \in 1 .. Len(order) : m # n => order[m] # order[n]
    BY <1>2, <1>4, HitsFinite, SetToSeqsAre DEF SearchOK
  <2>2. ASSUME NEW m \in DOMAIN order, NEW n \in DOMAIN order, m < n PROVE order[m][1] # order[n][1]
    <3>1. m \in 1 .. Len(order) /\ n \in 1 .. Len(order) /\ m # n
      BY <2>1, <2>2
    <3>2. order[m] \in prep.found /\ order[n] \in prep.found /\ order[m] # order[n]
      BY <2>1, <3>1
    <3>3. QED
      BY <1>2, <3>2 DEF Once
  <2>3. QED
    BY <2>1, <2>2 DEF Ranking
<1>8. Ordered(prep')
  BY <1>6, <1>7 DEF Ordered
<1>9. QED
  BY <1>6, <1>8 DEF PlanOK, Ordered, Advances

\* A reranker, or none, puts what is ranked in another order.
LEMMA RerankStep == ContextInv /\ (Rerank \/ KeepOrder) => Advances
<1>1. SUFFICES ASSUME ContextInv, Rerank \/ KeepOrder PROVE Advances
  OBVIOUS
<1>2. Shaped(prep) /\ PlanOK(prep) /\ SearchOK(prep) /\ StoreOK /\ OnceInv /\ Doing("rerank")
  BY <1>1 DEF ContextInv, OnceInv, OnceIn, Rerank, KeepOrder
<1>3. /\ prep.result = "pending" /\ <<>> \o Tail(prep.todo) = Tail(Tail(Finish))
      /\ Ordered(prep) /\ prep.scored = 0
  BY <1>2, FinishAhead
<1>4. PICK order, n, p :
        /\ Ranking(order, n, prep.found)
        /\ p = [prep EXCEPT !.ranked = order, !.scored = n]
        /\ Proceed(p, <<>>)
  <2>1. CASE Rerank
    <3>1. PICK picks \in Orders(Pool) :
            Proceed([prep EXCEPT !.ranked = Reordered(picks), !.scored = Len(Named(picks))], <<>>)
      BY <2>1 DEF Rerank
    <3>2. Ranking(Reordered(picks), Len(Named(picks)), prep.found)
      BY <1>2, <1>3, ReorderedIs
    <3>3. QED
      BY <3>1, <3>2
  <2>2. CASE KeepOrder
    <3>1. prep = [prep EXCEPT !.ranked = prep.ranked, !.scored = prep.scored]
      BY <1>2 DEF Shaped
    <3>2. Proceed([prep EXCEPT !.ranked = prep.ranked, !.scored = prep.scored], <<>>)
      BY <2>2, <3>1 DEF KeepOrder
    <3>3. QED
      BY <1>3, <3>2 DEF Ordered
  <2>3. QED
    BY <1>1, <2>1, <2>2
<1>5. /\ Shaped(p) /\ p.todo = prep.todo /\ p.user = prep.user /\ p.since = prep.since
      /\ p.found = prep.found /\ p.sources = prep.sources /\ p.sessions = prep.sessions
      /\ p.reserved = prep.reserved /\ p.ranked = order /\ p.scored = n /\ p.result = prep.result
  BY <1>2, <1>4 DEF Shaped
<1>6. /\ SearchOK(prep)' /\ prep'.todo = Tail(Tail(Finish)) /\ prep'.found = prep.found
      /\ prep'.ranked = order /\ prep'.scored = n /\ prep'.result = "pending"
  BY <1>1, <1>3, <1>4, <1>5, LayoutKeeps
<1>7. Ordered(prep')
  BY <1>4, <1>6 DEF Ordered
<1>8. Tail(Tail(Finish)) # Tail(Finish)
  BY FinishIs
<1>9. QED
  BY <1>6, <1>7, <1>8 DEF PlanOK, Ordered, Advances

\* To lay out the block changes nothing else.
LEMMA AssembleStep == ContextInv /\ Assemble => SearchOK(prep)' /\ PlanOK(prep)'
<1>1. SUFFICES ASSUME ContextInv, Assemble PROVE SearchOK(prep)' /\ PlanOK(prep)'
  OBVIOUS
<1>2. Shaped(prep) /\ PlanOK(prep) /\ Doing("assemble")
  BY <1>1 DEF ContextInv, OnceInv, OnceIn, Assemble
<1>3. prep.result = "pending" /\ <<>> \o Tail(prep.todo) = <<>> /\ Ordered(prep)
  BY <1>2, FinishAhead
<1>4. PICK b, p : p = [prep EXCEPT !.result = "ready", !.block = b] /\ Proceed(p, <<>>)
  BY <1>1 DEF Assemble
<1>5. /\ Shaped(p) /\ p.todo = prep.todo /\ p.user = prep.user /\ p.since = prep.since
      /\ p.found = prep.found /\ p.sources = prep.sources /\ p.sessions = prep.sessions
      /\ p.reserved = prep.reserved /\ p.ranked = prep.ranked /\ p.scored = prep.scored
      /\ p.result = "ready"
  BY <1>2, <1>4 DEF Shaped
<1>6. /\ SearchOK(prep)' /\ prep'.todo = <<>> /\ prep'.found = prep.found
      /\ prep'.ranked = prep.ranked /\ prep'.scored = prep.scored /\ prep'.result = "ready"
  BY <1>1, <1>3, <1>4, <1>5, LayoutKeeps
<1>7. Ordered(prep')
  BY <1>3, <1>6 DEF Ordered
<1>8. QED
  BY <1>6, <1>7 DEF PlanOK, Ordered

\* Before the first question nothing was found.
LEMMA NoPrepOK == StoreOK => SearchOK(NoPrep)
<1>1. SUFFICES ASSUME StoreOK PROVE SearchOK(NoPrep)
  OBVIOUS
<1>2. /\ NoPrep.user \in Owner /\ NoPrep.sessions = {} /\ NoPrep.found = {}
      /\ NoPrep.sources = {} /\ NoPrep.reserved = {} /\ NoPrep.since = [i \in Id |-> 0]
  BY DEF NoPrep, Owner
<1>3. \A i \in Id : 0 <= Len(items[i])
  <2>1. \A i \in Id : Len(items[i]) \in Nat
    BY <1>1 DEF StoreOK
  <2>2. QED
    BY <2>1
<1>4. QED
  BY <1>1, <1>2, <1>3, SearchOpens

\* A context that fails has found nothing.
LEMMA FailStep == ContextInv /\ PrepareFails => Advances
<1>1. SUFFICES ASSUME ContextInv, PrepareFails PROVE Advances
  OBVIOUS
<1>2. UNCHANGED searchVars /\ prep' = [NoPrep EXCEPT !.result = "failed"]
  BY <1>1 DEF PrepareFails
<1>3. SearchOK(NoPrep)
  BY <1>1, NoPrepOK DEF ContextInv
<1>4. /\ prep'.user = NoPrep.user /\ prep'.since = NoPrep.since
      /\ prep'.found = NoPrep.found /\ prep'.sources = NoPrep.sources
      /\ prep'.sessions = NoPrep.sessions /\ prep'.reserved = NoPrep.reserved
      /\ prep'.result = "failed" /\ prep'.todo = <<>> /\ prep'.ranked = <<>>
  BY <1>2 DEF NoPrep
<1>5. IsFiniteSet(NoPrep.sessions)
  BY <1>3 DEF SearchOK
<1>6. SearchOK(prep)'
  BY <1>2, <1>3, <1>4, <1>5, SearchCarried
<1>7. QED
  BY <1>4, <1>6 DEF PlanOK, Advances

\* A question is asked: searches are planned, and nothing was found yet.
LEMMA StartStep ==
  ASSUME ContextInv, NEW q \in Question, NEW u \in Caller, NEW asked, NEW bm25_only,
         StartPrepare(q, u, asked, bm25_only)
  PROVE  Advances
<1>1. PICK z, limit : /\ z = [i \in Id |-> Len(items[i])]
                      /\ prep' = [NoPrep EXCEPT !.result = "pending", !.query = q, !.user = u,
                                    !.limit = limit, !.todo = Plan(q, bm25_only), !.since = z]
  BY DEF StartPrepare
<1>2. UNCHANGED searchVars
  BY DEF StartPrepare
<1>3. \A i \in Id : Len(items[i]) \in Nat
  BY DEF ContextInv, StoreOK
<1>4. z \in [Id -> Nat] /\ \A i \in Id : z[i] <= Len(items[i])
  BY <1>1, <1>3
<1>5. PICK p : p = [NoPrep EXCEPT !.result = "pending", !.query = q, !.user = u,
                      !.limit = limit, !.todo = Plan(q, bm25_only), !.since = z] /\ prep' = p
  BY <1>1
<1>6. /\ p.user = u /\ p.since = z /\ p.sessions = {} /\ p.found = {} /\ p.sources = {}
      /\ p.reserved = {} /\ p.result = "pending" /\ p.todo = Plan(q, bm25_only)
      /\ p.ranked = <<>>
  BY <1>5 DEF NoPrep
<1>7. SearchOK(p)
  <2>1. u \in Owner
    BY ContextAssumption
  <2>2. QED
    BY <1>4, <1>6, <2>1, SearchOpens DEF ContextInv
<1>8. SearchOK(prep)'
  BY <1>2, <1>5, <1>6, <1>7, FS_EmptySet, SearchCarried
<1>9. \E searches : Planned(searches) /\ p.todo = searches \o Finish
  BY <1>6, PlanIs
<1>10. QED
  BY <1>5, <1>6, <1>8, <1>9 DEF PlanOK, Advances

\* What was found stays found, and stays as old and whose it is, while others write.
LEMMA ElsewhereStep ==
  ASSUME ContextInv, StoreOK', Grown, UNCHANGED prep
  PROVE  SearchOK(prep)' /\ PlanOK(prep)'
<1>1. SearchOK(prep)'
  BY SearchStands DEF ContextInv
<1>2. PlanOK(prep)'
  BY DEF ContextInv, PlanOK, Ordered
<1>3. QED
  BY <1>1, <1>2

\* Every step but the last one leaves the context unfinished.
LEMMA OnlyAssembleMakesReady ==
  ASSUME ContextInv, [ContextNext]_contextVars
  PROVE  Advances \/ Assemble \/ UNCHANGED contextVars
<1>1. StoreOK' /\ Grown
  BY StoreStep DEF ContextInv
<1>2. CASE \E q \in Question, u \in Caller, asked \in Asked, bm25_only \in BOOLEAN :
             StartPrepare(q, u, asked, bm25_only)
  BY <1>2, StartStep
<1>3. CASE \/ FindBySpeaker \/ FindByType \/ FindByGraph \/ OpenSessions \/ ReadSummaries
           \/ FindInSession \/ ReadEntityTriples \/ ReadTriples \/ FindByTriple \/ FindByText
           \/ OpenWindows \/ FindInWindow \/ Reserve
  BY <1>3, SpeakerStep, TypeStep, GraphStep, OpenStep, SummariesStep, SessionStep,
     TriplesStep, TripleStep, TextStep, AnchorsStep, WindowStep, ReserveStep
<1>4. CASE Rank \/ Rerank \/ KeepOrder \/ PrepareFails
  BY <1>4, RankStep, RerankStep, FailStep
<1>5. CASE Elsewhere
  <2>1. UNCHANGED prep /\ prep.result = "pending"
    BY <1>5 DEF Elsewhere
  <2>2. QED
    BY <1>1, <2>1, ElsewhereStep DEF Advances
<1>6. QED
  BY <1>2, <1>3, <1>4, <1>5 DEF ContextNext

\* The invariant holds after every step.
LEMMA ContextStep == ContextInv /\ [ContextNext]_contextVars => ContextInv'
<1>1. SUFFICES ASSUME ContextInv, [ContextNext]_contextVars
               PROVE  SearchOK(prep)' /\ PlanOK(prep)'
  BY OnceStep, StoreStep DEF ContextInv
<1>2. CASE Advances
  BY <1>2 DEF Advances
<1>3. CASE Assemble
  BY <1>1, <1>3, AssembleStep
<1>4. CASE UNCHANGED contextVars
  <2>1. UNCHANGED prep /\ StoreOK' /\ Grown
    BY <1>1, <1>4, StoreStep DEF contextVars, ContextInv
  <2>2. QED
    BY <1>1, <2>1, ElsewhereStep
<1>5. QED
  BY <1>1, <1>2, <1>3, <1>4, OnlyAssembleMakesReady

\* The invariant holds in every state.
LEMMA ContextAlways == ContextSpec => []ContextInv
<1>1. ContextInit => ContextInv
  <2>1. SUFFICES ASSUME ContextInit PROVE ContextInv
    OBVIOUS
  <2>2. StoreOK
    BY <2>1, StoreOpened
  <2>3. prep = NoPrep
    BY <2>1 DEF ContextInit
  <2>4. SearchOK(prep) /\ OnceInv
    BY <2>2, <2>3, NoPrepOK, EmptyOnce DEF OnceInv
  <2>5. PlanOK(prep)
    BY <2>3 DEF NoPrep, PlanOK
  <2>6. QED
    BY <2>2, <2>4, <2>5 DEF ContextInv
<1>2. QED
  BY <1>1, ContextStep, PTL DEF ContextSpec

\* The store keeps one time for each version, whatever is written, and what a context has
\* found are versions that are stored.
THEOREM ContextTyped == ContextSpec => []ContextTypeOK
<1>1. ContextInv => ContextTypeOK
  <2>1. SUFFICES ASSUME ContextInv PROVE ContextTypeOK
    OBVIOUS
  <2>2. /\ \A i \in Id : items[i] \in Seq(Version) /\ updated[i] \in [DOMAIN items[i] -> Nat]
        /\ edges \subseteq Edge /\ triples \subseteq [subject : Word, id : Id]
        /\ summaries \subseteq Session /\ writes \in 0 .. MaxWrites
    <3>1. ASSUME NEW i \in Id
          PROVE  items[i] \in Seq(Version) /\ updated[i] \in [DOMAIN items[i] -> Nat]
      <4>1. /\ items[i] \in Seq(Version) /\ updated[i] \in Seq(Nat)
            /\ DOMAIN updated[i] = DOMAIN items[i]
        BY <2>1 DEF ContextInv, StoreOK
      <4>2. updated[i] \in [DOMAIN updated[i] -> Nat]
        BY <4>1
      <4>3. QED
        BY <4>1, <4>2
    <3>2. QED
      BY <2>1, <3>1 DEF ContextInv, StoreOK
  <2>3. ToSet(prep.ranked) \subseteq prep.found
    <3>1. ToSet(<<>>) = {}
      BY DEF ToSet
    <3>2. QED
      BY <2>1, <3>1 DEF ContextInv, PlanOK, Ordered, Ranking
  <2>4. prep.found \cup prep.reserved \cup ToSet(prep.ranked) \subseteq Index(NoUser)
    BY <2>1, <2>3 DEF ContextInv, SearchOK
  <2>5. ASSUME prep.result = "pending" PROVE prep.todo # <<>>
    <3>1. PICK a, b, c : /\ Finish = <<a, b, c>> /\ Tail(Finish) = <<b, c>>
                         /\ Tail(Tail(Finish)) = <<c>>
      BY FinishIs
    <3>2. ASSUME NEW searches, Planned(searches) PROVE searches \o Finish # <<>>
      <4>1. IsSeq(Finish) /\ Len(Finish) = 3
        <5>1. Finish \in Seq({a, b, c})
          BY <3>1
        <5>2. QED
          BY <3>1, <5>1 DEF IsSeq
      <4>2. Len(searches) \in Nat /\ Len(searches \o Finish) = Len(searches) + 3
        BY <3>2, <4>1, SeqConcat, ElementsIn DEF Planned
      <4>3. QED
        BY <4>2
    <3>3. Tail(Finish) # <<>> /\ Tail(Tail(Finish)) # <<>>
      BY <3>1
    <3>4. QED
      BY <2>1, <2>5, <3>2, <3>3 DEF ContextInv, PlanOK
  <2>6. /\ prep.result \in {"none", "pending", "ready", "failed"}
        /\ prep.result # "pending" => prep.todo = <<>>
    BY <2>1 DEF ContextInv, PlanOK
  <2>7. QED
    BY <2>2, <2>4, <2>5, <2>6 DEF ContextTypeOK
<1>2. QED
  BY <1>1, ContextAlways, PTL

\* Ranking and reranking lose nothing and invent nothing, whatever the reranker answers:
\* what it names, in any order and some of it twice, is followed by all the others, once.
THEOREM RankingKeepsAll == ContextSpec => []RerankLosesNothing
<1>1. ContextInv => RerankLosesNothing
  <2>1. SUFFICES ASSUME ContextInv, Doing("rerank") \/ Doing("assemble") \/ prep.result = "ready"
                 PROVE  Ordered(prep)
    BY DEF RerankLosesNothing, Ordered, Ranking
  <2>2. CASE Doing("rerank") \/ Doing("assemble")
    BY <2>1, <2>2, FinishAhead DEF ContextInv
  <2>3. CASE prep.result = "ready"
    BY <2>1, <2>3 DEF ContextInv, PlanOK
  <2>4. QED
    BY <2>1, <2>2, <2>3
<1>2. QED
  BY <1>1, ContextAlways, PTL

\* No search, session or window brings a user a memory of another: one that is not the
\* user's has come along an edge or a triple, whoever writes in between.
THEOREM ContextScoped == ContextSpec => []ScopedContext
<1>1. ContextInv => ScopedContext
  BY DEF ContextInv, SearchOK, ScopedContext
<1>2. QED
  BY <1>1, ContextAlways, PTL

\* What was replaced or deleted before the question was asked is in a context only if an
\* index, or the graph search that starts from one, has brought it.
THEOREM OldOnlyFromIndexes == ContextSpec => []ReadsAreCurrent
<1>1. ContextInv => ReadsAreCurrent
  BY DEF ContextInv, SearchOK, ReadsAreCurrent, Indexed
<1>2. QED
  BY <1>1, ContextAlways, PTL

-----------------------------------------------------------------------------
(* The sections of the block.                                              *)

\* Two versions of one memory are both raw turns, or neither is.
LEMMA HitInfo ==
  ASSUME StoreOK
  PROVE  /\ \A h \in Index(NoUser) : About(h).event \in Nat /\ About(h).raw \in BOOLEAN
         /\ \A g, h \in Index(NoUser) : g[1] = h[1] => IsRaw(g) = IsRaw(h)
<1>1. \A h \in Index(NoUser) : /\ h[1] \in Id /\ h[2] \in DOMAIN items[h[1]]
                               /\ Hit(h).content \in Content /\ h = <<h[1], h[2]>>
  <2>1. \A v \in Version : v.content \in Content
    BY DEF Version
  <2>2. QED
    BY <2>1, IndexOf
<1>2. \A h \in Index(NoUser) : About(h).event \in Nat /\ About(h).raw \in BOOLEAN
  BY <1>1, InfoAssumption DEF About
<1>3. ASSUME NEW g \in Index(NoUser), NEW h \in Index(NoUser), g[1] = h[1]
      PROVE  IsRaw(g) = IsRaw(h)
  <2>1. PICK i, m, n : /\ i \in Id /\ g = <<i, m>> /\ h = <<i, n>>
                       /\ m \in DOMAIN items[i] /\ n \in DOMAIN items[i]
    BY <1>1, <1>3
  <2>2. IsRaw(<<i, m>>) = IsRaw(<<i, n>>)
    BY <2>1 DEF StoreOK, SameRaw
  <2>3. QED
    BY <2>1, <2>2
<1>4. QED
  BY <1>2, <1>3

\* Among the excerpts no id is twice, and a raw turn is left out only for want of a place.
LEMMA RawExcerptsAre ==
  ASSUME StoreOK, NEW relevant \in Seq(Index(NoUser)), NEW important \in Seq(Index(NoUser)), NEW X,
         X = RawExcerpts(relevant, important)
  PROVE  /\ \A g \in X : IsRaw(g) /\ g \in Index(NoUser)
         /\ \A g, h \in X : g[1] = h[1] => g = h
         /\ \A n \in DOMAIN relevant :
              IsRaw(relevant[n]) => relevant[n][1] \in IdsOf(X) \/ Cardinality(X) = RawPlaces
<1>1. PICK s : s = relevant \o important
  OBVIOUS
<1>2. PICK N \in Nat : /\ N = Len(s) /\ DOMAIN s = 1 .. N
                       /\ \A n \in 1 .. N : s[n] \in Index(NoUser)
                       /\ \A n \in DOMAIN relevant : n \in 1 .. N /\ s[n] = relevant[n]
  BY <1>1
<1>3. PICK raw : raw = {n \in DOMAIN s : IsRaw(s[n])}
  OBVIOUS
<1>4. PICK first : first = {n \in raw : ~ \E m \in raw : s[m][1] = s[n][1] /\ Before(s, m, n)}
  OBVIOUS
<1>5. PICK less : less = {e \in (1 .. N) \X (1 .. N) : Before(s, e[1], e[2])}
  OBVIOUS
<1>6. \A m, n \in 1 .. N : <<m, n>> \in less <=> Before(s, m, n)
  BY <1>5
<1>7. raw \subseteq 1 .. N /\ first \subseteq raw /\ IsFiniteSet(raw) /\ IsFiniteSet(first)
  <2>1. raw \subseteq 1 .. N /\ first \subseteq raw
    BY <1>2, <1>3, <1>4
  <2>2. IsFiniteSet(1 .. N)
    BY FS_Interval
  <2>3. QED
    BY <2>1, <2>2, SubsetOfFinite
<1>8. StrictOrder(1 .. N, less)
  <2> DEFINE event(n) == About(s[n]).event
  <2>1. \A n \in 1 .. N : event(n) \in Nat
    BY <1>2, HitInfo
  <2>2. \A m, n \in 1 .. N : <<m, n>> \in less <=>
          \/ event(m) > 0 /\ (event(n) = 0 \/ event(m) < event(n))
          \/ event(m) = event(n) /\ m < n
    BY <1>6 DEF Before
  <2> HIDE DEF event
  <2>3. \A x \in 1 .. N : <<x, x>> \notin less
    BY <2>1, <2>2
  <2>4. \A x, y \in 1 .. N : x # y => <<x, y>> \in less \/ <<y, x>> \in less
    BY <2>1, <2>2
  <2>5. \A x, y, z \in 1 .. N : <<x, y>> \in less /\ <<y, z>> \in less => <<x, z>> \in less
    BY <2>1, <2>2
  <2>6. QED
    BY <2>3, <2>4, <2>5 DEF StrictOrder
<1>9. ASSUME NEW F, F \subseteq 1 .. N PROVE StrictOrder(F, less)
  BY <1>8, <1>9 DEF StrictOrder
<1>10. \A m, n \in first : s[m][1] = s[n][1] => m = n
  <2>1. \A m, n \in first : s[m][1] = s[n][1] => <<m, n>> \notin less /\ <<n, m>> \notin less
    BY <1>4, <1>6, <1>7
  <2>2. QED
    BY <1>7, <1>8, <2>1 DEF StrictOrder
<1>11. \A n \in first : {m \in first : Before(s, m, n)} = Below(first, less, n)
  BY <1>6, <1>7 DEF Below
<1>12. PICK T : T = {m \in first : Cardinality(Below(first, less, m)) < RawPlaces}
  OBVIOUS
<1>13. X = {s[n] : n \in T}
  <2>1. X = {s[n] : n \in {m \in first : Cardinality({l \in first : Before(s, l, m)}) < RawPlaces}}
    BY Zenon, <1>1, <1>3, <1>4 DEF RawExcerpts
  <2>2. {m \in first : Cardinality({l \in first : Before(s, l, m)}) < RawPlaces} = T
    BY <1>11, <1>12
  <2>3. QED
    BY <2>1, <2>2
<1>14. T \subseteq first
  BY <1>12
<1>15. \A g \in X : IsRaw(g) /\ g \in Index(NoUser)
  BY <1>2, <1>3, <1>7, <1>13, <1>14
<1>16. \A g, h \in X : g[1] = h[1] => g = h
  BY <1>10, <1>13, <1>14
<1>17. ASSUME NEW n \in DOMAIN relevant, IsRaw(relevant[n])
       PROVE  relevant[n][1] \in IdsOf(X) \/ Cardinality(X) = RawPlaces
  <2>1. PICK same : same = {m \in raw : s[m][1] = s[n][1]}
    OBVIOUS
  <2>2. same # {} /\ IsFiniteSet(same) /\ StrictOrder(same, less)
    <3>1. n \in same
      BY <1>2, <1>3, <1>17, <2>1
    <3>2. same \subseteq raw
      BY <2>1
    <3>3. QED
      BY <1>7, <1>9, <3>1, <3>2, SubsetOfFinite
  <2>3. PICK k \in same : \A m \in same : <<m, k>> \notin less
    BY <2>2, FirstOfAll
  <2>4. k \in first
    BY <1>4, <1>6, <1>7, <2>1, <2>3
  <2>5. CASE k \in T
    <3>1. s[k] \in X /\ s[k][1] = relevant[n][1]
      BY <1>2, <1>13, <2>1, <2>5
    <3>2. QED
      BY <3>1 DEF IdsOf
  <2>6. CASE k \notin T
    <3>1. RawPlaces \in Nat
      BY PlacesAssumption
    <3>2. ~(Cardinality(Below(first, less, k)) < RawPlaces)
      BY <1>12, <2>4, <2>6
    <3>3. StrictOrder(first, less)
      BY <1>7, <1>9
    <3>4. Cardinality(T) = RawPlaces
      BY <1>7, <1>12, <2>4, <3>1, <3>2, <3>3, FirstRanks
    <3>5. Cardinality(X) = Cardinality(T)
      <4>1. IsFiniteSet(T)
        BY <1>7, <1>14, SubsetOfFinite
      <4>2. \A l, m \in T : s[l] = s[m] => l = m
        BY <1>10, <1>14
      <4>3. QED
        BY <1>13, <4>1, <4>2, ImageSize
    <3>6. QED
      BY <3>4, <3>5
  <2>7. QED
    BY <2>5, <2>6
<1>18. QED
  BY <1>15, <1>16, <1>17

\* s shows elements of relevant, each of its places another one of them.
Shows(s, relevant) ==
  \E at \in [DOMAIN s -> DOMAIN relevant] :
    /\ \A n \in DOMAIN s : s[n] = relevant[at[n]]
    /\ \A m, n \in DOMAIN s : m < n => at[m] < at[n]

\* What is selected from a sequence shows its elements.
LEMMA SelectionShows ==
  ASSUME NEW S, NEW s \in Seq(S), NEW P \in SUBSET DOMAIN s, NEW t, t = Selected(s, P)
  PROVE  Shows(t, s) /\ ToSet(t) = {s[n] : n \in P}
<1>1. t \in Seq(S) /\ IsSelection(s, P, t)
  BY SelectedParts
<1>2. DOMAIN t = 1 .. Len(t)
  BY <1>1
<1>3. PICK at \in [1 .. Len(t) -> P] :
        /\ \A i \in 1 .. Len(t) : t[i] = s[at[i]]
        /\ \A i, j \in 1 .. Len(t) : i < j => at[i] < at[j]
        /\ \A n \in P : \E i \in 1 .. Len(t) : at[i] = n
  BY <1>1 DEF IsSelection
<1>4. Shows(t, s)
  <2>1. at \in [DOMAIN t -> DOMAIN s]
    BY <1>2, <1>3
  <2>2. QED
    BY <1>2, <1>3, <2>1 DEF Shows
<1>5. ToSet(t) = {s[n] : n \in P}
  BY <1>2, <1>3 DEF ToSet
<1>6. QED
  BY <1>4, <1>5

\* The supporting memories are what has no place above them, and one of these is left out
\* only if its speaker has all the places a speaker may have.
LEMMA SupportingAre ==
  ASSUME NEW relevant \in Seq(Index(NoUser)),
         NEW evidence, evidence = TopEvidence(relevant), NEW X, X = Supporting(relevant)
  PROVE  /\ Shows(evidence, relevant) /\ Shows(X, relevant)
         /\ ToSet(evidence) \cup ToSet(X) \subseteq ToSet(relevant)
         /\ \A h \in ToSet(evidence) \cup ToSet(X) : NotRaw(h)
         /\ \A h \in ToSet(X) : h[1] \notin IdsOf(ToSet(evidence))
         /\ \A h \in ToSet(relevant) : NotRaw(h) =>
              \/ h[1] \in IdsOf(ToSet(evidence)) \/ h[1] \in IdsOf(ToSet(X))
              \/ Cardinality({n \in DOMAIN X : About(X[n]).speaker = About(h).speaker}) = SpeakerPlaces
<1>1. PICK N \in Nat : N = Len(relevant) /\ DOMAIN relevant = 1 .. N
  OBVIOUS
<1>2. ToSet(relevant) = {relevant[n] : n \in 1 .. N}
  BY <1>1 DEF ToSet
<1>3. \A k, P : Lowest(k, P) \subseteq P
  BY DEF Lowest
<1>4. /\ Shows(evidence, relevant) /\ ToSet(evidence) \subseteq ToSet(relevant)
      /\ \A h \in ToSet(evidence) : NotRaw(h)
  <2>1. PICK P : /\ P = Lowest(EvidencePlaces, {m \in DOMAIN relevant : NotRaw(relevant[m])})
                 /\ evidence = Selected(relevant, P)
    BY DEF TopEvidence
  <2>2. P \subseteq {m \in DOMAIN relevant : NotRaw(relevant[m])}
    BY <1>3, <2>1
  <2>3. Shows(evidence, relevant) /\ ToSet(evidence) = {relevant[n] : n \in P}
    BY <2>1, <2>2, SelectionShows
  <2>4. QED
    BY <1>1, <1>2, <2>2, <2>3
<1>5. PICK above : above = IdsOf(ToSet(evidence))
  OBVIOUS
<1>6. PICK rest : rest = {n \in DOMAIN relevant : NotRaw(relevant[n]) /\ relevant[n][1] \notin above}
  OBVIOUS
<1> DEFINE of(n) == {m \in rest : About(relevant[m]).speaker = About(relevant[n]).speaker}
           T == {n \in rest : n \in Lowest(SpeakerPlaces, of(n))}
<1>7. rest \subseteq 1 .. N /\ T \subseteq rest
  BY <1>1, <1>6
<1>8. X = Selected(relevant, T)
  BY <1>5, <1>6 DEF Supporting
<1>9. X \in Seq(Index(NoUser)) /\ DOMAIN X = 1 .. Len(X) /\ IsSelection(relevant, T, X)
  <2>1. T \in SUBSET DOMAIN relevant
    BY <1>1, <1>7
  <2>2. X \in Seq(Index(NoUser)) /\ IsSelection(relevant, T, X)
    BY <1>8, <2>1, SelectedParts
  <2>3. QED
    BY <2>2
<1>10. Shows(X, relevant) /\ ToSet(X) = {relevant[n] : n \in T}
  BY <1>1, <1>7, <1>8, SelectionShows
<1>11. /\ ToSet(X) \subseteq ToSet(relevant)
       /\ \A h \in ToSet(X) : NotRaw(h) /\ h[1] \notin above
  BY <1>2, <1>6, <1>7, <1>10
<1>12. ASSUME NEW h \in ToSet(relevant), NotRaw(h), h[1] \notin above, h[1] \notin IdsOf(ToSet(X))
       PROVE  Cardinality({n \in DOMAIN X : About(X[n]).speaker = About(h).speaker}) = SpeakerPlaces
  <2>1. PICK n \in 1 .. N : h = relevant[n]
    BY <1>2
  <2>2. n \in rest
    BY <1>1, <1>6, <1>12, <2>1
  <2>3. n \notin T
    <3>1. h \notin ToSet(X)
      BY <1>12 DEF IdsOf
    <3>2. QED
      BY <1>10, <2>1, <3>1
  <2>4. PICK P : P = of(n)
    OBVIOUS
  <2>5. n \in P /\ P \subseteq rest /\ n \notin Lowest(SpeakerPlaces, P)
    BY <2>2, <2>3, <2>4
  <2>6. IsFiniteSet(P) /\ P \subseteq Nat
    <3>1. P \subseteq 1 .. N
      BY <1>7, <2>5
    <3>2. IsFiniteSet(1 .. N) /\ 1 .. N \subseteq Nat
      BY FS_Interval
    <3>3. QED
      BY <3>1, <3>2, SubsetOfFinite
  <2>7. SpeakerPlaces \in Nat
    BY PlacesAssumption
  <2>8. PICK L : L = Lowest(SpeakerPlaces, P)
    OBVIOUS
  <2>9. Cardinality(L) = SpeakerPlaces
    BY <2>5, <2>6, <2>7, <2>8, LowestAre
  <2>10. L \subseteq P
    BY <1>3, <2>8
  <2>11. \A m \in P : of(m) = P
    BY <2>4
  <2>12. L = {m \in T : About(relevant[m]).speaker = About(h).speaker}
    <3>1. ASSUME NEW m \in L
          PROVE  m \in T /\ About(relevant[m]).speaker = About(h).speaker
      BY <2>1, <2>4, <2>5, <2>8, <2>10, <2>11
    <3>2. ASSUME NEW m \in T, About(relevant[m]).speaker = About(h).speaker PROVE m \in L
      <4>1. m \in P
        BY <1>7, <2>1, <2>4, <3>2
      <4>2. QED
        BY <2>8, <2>11, <4>1
    <3>3. QED
      BY <3>1, <3>2
  <2>13. PICK at \in [1 .. Len(X) -> T] :
           /\ \A i \in 1 .. Len(X) : X[i] = relevant[at[i]]
           /\ \A i, j \in 1 .. Len(X) : i < j => at[i] < at[j]
           /\ \A m \in T : \E i \in 1 .. Len(X) : at[i] = m
    BY <1>9 DEF IsSelection
  <2>14. PICK D : D = {i \in DOMAIN X : About(X[i]).speaker = About(h).speaker}
    OBVIOUS
  <2>15. D \subseteq 1 .. Len(X) /\ IsFiniteSet(D)
    <3>1. D \subseteq 1 .. Len(X)
      BY <1>9, <2>14
    <3>2. IsFiniteSet(1 .. Len(X))
      BY <1>9, FS_Interval
    <3>3. QED
      BY <3>1, <3>2, SubsetOfFinite
  <2> HIDE DEF T
  <2>16. L = {at[i] : i \in D}
    BY <1>9, <2>12, <2>13, <2>14
  <2>17. \A i, j \in D : at[i] = at[j] => i = j
    <3>1. ASSUME NEW i \in D, NEW j \in D, i # j PROVE at[i] # at[j]
      <4>1. i \in 1 .. Len(X) /\ j \in 1 .. Len(X) /\ (i < j \/ j < i)
        BY <1>9, <2>15, <3>1
      <4>2. at[i] \in Nat /\ at[j] \in Nat
        <5>1. at[i] \in T /\ at[j] \in T
          BY <2>13, <4>1
        <5>2. at[i] \in 1 .. N /\ at[j] \in 1 .. N
          BY <1>7, <5>1
        <5>3. QED
          BY <5>2
      <4>3. QED
        BY <2>13, <4>1, <4>2
    <3>2. QED
      BY <3>1
  <2>18. Cardinality(L) = Cardinality(D)
    BY <2>15, <2>16, <2>17, ImageSize
  <2>19. QED
    BY <2>9, <2>14, <2>18
<1>13. QED
  BY <1>4, <1>5, <1>10, <1>11, <1>12

\* One section for each memory, below the keyword hits.
OneSectionEach(block) ==
  \A s, t \in Sections : \A g \in Section(block, s), h \in Section(block, t) :
    g[1] = h[1] => s = t /\ g = h

\* A place for each relevant memory, while there are places.
Placed(block, h) ==
  \/ \E s \in Sections \ {"important"} : h[1] \in IdsOf(Section(block, s))
  \/ IsRaw(h) /\ Cardinality(block.raw) = RawPlaces
  \/ NotRaw(h) /\ Overfull(block, h)

\* What to_context_block makes of any relevant and any important memories.
LEMMA BlockIs ==
  ASSUME StoreOK,
         NEW relevant \in Seq(Index(NoUser)), NEW important \in Seq(Index(NoUser)),
         Once(ToSet(relevant)), Once(ToSet(important)),
         NEW keywords, NEW block, block = ContextBlock(relevant, important, keywords)
  PROVE  /\ OneSectionEach(block) /\ \A h \in ToSet(relevant) : Placed(block, h)
         /\ Shows(block.evidence, relevant) /\ Shows(block.supporting, relevant)
<1>1. /\ block.evidence = TopEvidence(relevant) /\ block.raw = RawExcerpts(relevant, important)
      /\ block.important = UniqueImportant(relevant, important)
      /\ block.supporting = Supporting(relevant)
      /\ block["evidence"] = block.evidence /\ block["raw"] = block.raw
      /\ block["important"] = block.important /\ block["supporting"] = block.supporting
  BY DEF ContextBlock
<1>2. PICK E, R, I, S : /\ E = ToSet(block.evidence) /\ R = block.raw
                        /\ I = block.important /\ S = ToSet(block.supporting)
  OBVIOUS
<1>3. /\ Section(block, "evidence") = E /\ Section(block, "raw") = R
      /\ Section(block, "important") = I /\ Section(block, "supporting") = S
  BY <1>1, <1>2 DEF Section
<1>4. /\ Shows(block.evidence, relevant) /\ Shows(block.supporting, relevant)
      /\ E \cup S \subseteq ToSet(relevant) /\ \A h \in E \cup S : NotRaw(h)
      /\ \A h \in S : h[1] \notin IdsOf(E)
      /\ \A h \in ToSet(relevant) : NotRaw(h) =>
           h[1] \in IdsOf(E) \/ h[1] \in IdsOf(S) \/ Overfull(block, h)
  BY <1>1, <1>2, SupportingAre DEF Overfull
<1>5. /\ \A g \in R : IsRaw(g) /\ g \in Index(NoUser)
      /\ \A g, h \in R : g[1] = h[1] => g = h
      /\ \A n \in DOMAIN relevant :
           IsRaw(relevant[n]) => relevant[n][1] \in IdsOf(R) \/ Cardinality(R) = RawPlaces
  BY <1>1, <1>2, RawExcerptsAre
<1>6. /\ I \subseteq ToSet(important)
      /\ \A h \in I : NotRaw(h) /\ h[1] \notin IdsOf(ToSet(relevant))
  BY <1>1, <1>2 DEF UniqueImportant
<1>7. ToSet(relevant) \subseteq Index(NoUser) /\ ToSet(important) \subseteq Index(NoUser)
  <2>1. DOMAIN relevant = 1 .. Len(relevant) /\ DOMAIN important = 1 .. Len(important)
    OBVIOUS
  <2>2. QED
    BY <2>1 DEF ToSet
<1>8. \A g, h \in Index(NoUser) : g[1] = h[1] => IsRaw(g) = IsRaw(h)
  BY HitInfo
<1>9. \A h \in Index(NoUser) : IsRaw(h) \in BOOLEAN /\ NotRaw(h) = ~IsRaw(h)
  BY HitInfo DEF IsRaw, NotRaw
<1>10. OneSectionEach(block)
  <2>1. Once(E) /\ Once(S)
    BY <1>4 DEF Once
  <2>2. Once(I) /\ Once(R)
    BY <1>5, <1>6 DEF Once
  <2>3. \A g \in E, h \in S : g[1] # h[1]
    BY <1>4 DEF IdsOf
  <2>4. \A g \in E \cup S, h \in I : g[1] # h[1]
    BY <1>4, <1>6 DEF IdsOf
  <2>5. \A g \in E \cup S \cup I, h \in R : g[1] # h[1]
    <3>1. \A g \in E \cup S \cup I : g \in Index(NoUser) /\ NotRaw(g)
      BY <1>4, <1>6, <1>7
    <3>2. QED
      BY <1>5, <1>8, <1>9, <3>1
  <2>6. QED
    BY <1>3, <2>1, <2>2, <2>3, <2>4, <2>5 DEF OneSectionEach, Sections, Once
<1>11. ASSUME NEW h \in ToSet(relevant) PROVE Placed(block, h)
  <2>1. h \in Index(NoUser)
    BY <1>7
  <2>2. CASE IsRaw(h)
    <3>1. h[1] \in IdsOf(R) \/ Cardinality(R) = RawPlaces
      BY <1>5, <2>2 DEF ToSet
    <3>2. QED
      BY <1>2, <1>3, <2>2, <3>1 DEF Placed, Sections
  <2>3. CASE NotRaw(h)
    BY <1>3, <1>4, <2>3 DEF Placed, Sections
  <2>4. QED
    BY <1>9, <2>1, <2>2, <2>3
<1>12. QED
  BY <1>4, <1>10, <1>11

\* What the block is about stays as it is.
LEMMA SameBlock ==
  ASSUME UNCHANGED searchVars
  PROVE  \A b, h : Placed(b, h)' = Placed(b, h)
<1>1. items' = items
  BY SameStore
<1>2. \A h : About(h)' = About(h)
  BY <1>1 DEF About, Hit
<1>3. \A b, h : Overfull(b, h)' = Overfull(b, h)
  BY <1>2 DEF Overfull
<1>4. QED
  BY <1>2, <1>3 DEF Placed, IsRaw, NotRaw

\* A section shows a memory twice only where the reranker named it twice.
LEMMA ShownOnce ==
  ASSUME Ordered(prep), Once(prep.found),
         NEW seen, seen = Truncate(prep.ranked, prep.limit), prep.limit \in Nat,
         NEW o \in SetToSeqs(DOMAIN seen),
         NEW relevant, relevant = [n \in DOMAIN seen |-> seen[o[n]]],
         NEW s, Shows(s, relevant)
  PROVE  OnceUnlessNamed(s)
<1>1. PICK N \in Nat : /\ DOMAIN prep.ranked = 1 .. N /\ N = Len(prep.ranked)
                       /\ prep.scored \in Nat
                       /\ \A n \in 1 .. N : prep.ranked[n] \in prep.found
                       /\ \A m, n \in 1 .. N :
                            m < n /\ prep.ranked[m][1] = prep.ranked[n][1] => n <= prep.scored
  BY DEF Ordered, Ranking
<1>2. PICK M \in Nat : /\ DOMAIN seen = 1 .. M /\ M <= N
                       /\ \A n \in 1 .. M : seen[n] = prep.ranked[n]
  <2>1. /\ seen \in Seq(prep.found) /\ Len(seen) = AtMost(prep.limit, Len(prep.ranked))
        /\ \A n \in 1 .. Len(seen) : seen[n] = prep.ranked[n]
    BY TruncateIs DEF Ordered, Ranking
  <2>2. Len(seen) \in Nat /\ DOMAIN seen = 1 .. Len(seen) /\ Len(seen) <= N
    BY <1>1, <2>1 DEF AtMost
  <2>3. QED
    BY <2>1, <2>2
<1>3. \A n \in 1 .. M : o[n] \in 1 .. M /\ \A m \in 1 .. M : m # n => o[m] # o[n]
  <2>1. IsFiniteSet(1 .. M) /\ Cardinality(1 .. M) = M
    BY FS_Interval
  <2>2. /\ o \in Seq(1 .. M) /\ Len(o) = M
        /\ \A m, n \in 1 .. Len(o) : m # n => o[m] # o[n]
    BY <1>2, <2>1, SetToSeqsAre
  <2>3. QED
    BY <2>2
<1>4. PICK at \in [DOMAIN s -> 1 .. M] :
        /\ \A n \in DOMAIN s : s[n] = relevant[at[n]]
        /\ \A m, n \in DOMAIN s : m < n => at[m] < at[n]
  BY <1>2 DEF Shows
<1>5. ASSUME NEW m \in DOMAIN s, NEW n \in DOMAIN s, m < n, s[m][1] = s[n][1]
      PROVE  NamedTwice(s[m])
  <2>1. PICK k, l : k = o[at[m]] /\ l = o[at[n]]
    OBVIOUS
  <2>2. k \in 1 .. M /\ l \in 1 .. M /\ k # l
    <3>1. at[m] \in 1 .. M /\ at[n] \in 1 .. M /\ at[m] < at[n]
      BY <1>4, <1>5
    <3>2. at[m] # at[n]
      BY <3>1
    <3>3. QED
      BY <1>3, <2>1, <3>1, <3>2
  <2>3. s[m] = prep.ranked[k] /\ s[n] = prep.ranked[l]
    BY <1>2, <1>4, <1>5, <2>1, <2>2
  <2>4. k \in 1 .. N /\ l \in 1 .. N /\ prep.ranked[k] = prep.ranked[l]
    <3>1. k \in 1 .. N /\ l \in 1 .. N
      BY <1>2, <2>2
    <3>2. QED
      BY <1>1, <1>5, <2>3, <3>1 DEF Once
  <2>5. CASE k < l
    <3>1. l <= prep.scored
      BY <1>1, <2>4, <2>5
    <3>2. k \in 1 .. prep.scored /\ l \in 1 .. prep.scored
      BY <1>1, <2>4, <2>5, <3>1
    <3>3. QED
      BY <2>3, <2>4, <2>5, <3>2 DEF NamedTwice
  <2>6. CASE l < k
    <3>1. k <= prep.scored
      BY <1>1, <2>4, <2>6
    <3>2. k \in 1 .. prep.scored /\ l \in 1 .. prep.scored
      BY <1>1, <2>4, <2>6, <3>1
    <3>3. QED
      BY <2>3, <2>4, <2>6, <3>2 DEF NamedTwice
  <2>7. QED
    BY <2>2, <2>5, <2>6
<1>6. QED
  BY <1>5 DEF OnceUnlessNamed

\* The block of a context, when it is laid out.
LEMMA AssembleBlock ==
  ASSUME ContextInv, Assemble
  PROVE  BlockPartition'
<1>1. Shaped(prep) /\ PlanOK(prep) /\ SearchOK(prep) /\ StoreOK /\ Once(prep.found)
  BY DEF ContextInv, OnceInv, OnceIn
<1>2. Ordered(prep) /\ Doing("assemble")
  <2>1. Doing("assemble")
    BY DEF Assemble
  <2>2. QED
    BY <1>1, <2>1, FinishAhead
<1>3. PICK seen, shown : seen = Truncate(prep.ranked, prep.limit) /\ shown = ToSet(seen)
  OBVIOUS
<1>4. PICK relevant, chosen, b :
        /\ relevant \in ByScore(seen, prep.scored)
        /\ chosen \in SUBSET CurrentHits(prep.user)
        /\ Classify(prep.query) # "SingleHop" =>
             b = ContextBlock(relevant, SetToSeq(chosen), prep.reserved)
        /\ Proceed([prep EXCEPT !.result = "ready", !.block = b], <<>>)
  BY <1>3 DEF Assemble
<1>5. /\ UNCHANGED searchVars
      /\ prep'.query = prep.query /\ prep'.ranked = prep.ranked /\ prep'.limit = prep.limit
      /\ prep'.block = b /\ prep'.scored = prep.scored
  <2>1. PICK p : p = [prep EXCEPT !.result = "ready", !.block = b] /\ Proceed(p, <<>>)
    BY <1>4
  <2>2. /\ Shaped(p) /\ p.query = prep.query /\ p.ranked = prep.ranked /\ p.limit = prep.limit
        /\ p.block = b /\ p.scored = prep.scored
    BY <1>1, <2>1 DEF Shaped
  <2>3. QED
    BY <2>1, <2>2 DEF Proceed, Shaped
<1>6. SUFFICES ASSUME Classify(prep.query) # "SingleHop"
               PROVE  /\ OneSectionEach(b) /\ \A h \in shown : Placed(b, h)
                      /\ OnceUnlessNamed(b.evidence) /\ OnceUnlessNamed(b.supporting)
  <2>1. CASE Classify(prep.query) = "SingleHop"
    BY <1>5, <2>1 DEF BlockPartition
  <2>2. ASSUME Classify(prep.query) # "SingleHop", OneSectionEach(b), \A h \in shown : Placed(b, h),
               OnceUnlessNamed(b.evidence), OnceUnlessNamed(b.supporting)
        PROVE  BlockPartition'
    <3>1. ToSet(Truncate(prep'.ranked, prep'.limit)) = shown
      BY <1>3, <1>5
    <3>2. \A h \in shown : Placed(b, h)'
      BY <1>5, <2>2, SameBlock
    <3>3. \A h \in shown :
            \/ \E s \in Sections \ {"important"} : h[1] \in IdsOf(Section(b, s))
            \/ IsRaw(h)' /\ Cardinality(b.raw) = RawPlaces
            \/ NotRaw(h)' /\ Overfull(b, h)'
      BY <3>2 DEF Placed
    <3>4. \A h : Overfull(prep.block, h)' = Overfull(b, h)'
      BY <1>5 DEF Overfull
    <3>5. \A h \in shown :
            \/ \E s \in Sections \ {"important"} : h[1] \in IdsOf(Section(prep'.block, s))
            \/ IsRaw(h)' /\ Cardinality(prep'.block.raw) = RawPlaces
            \/ NotRaw(h)' /\ Overfull(prep.block, h)'
      BY <1>5, <3>3, <3>4
    <3>6. OneSectionEach(prep'.block)
      BY <1>5, <2>2
    <3>7. OnceUnlessNamed(prep.block.evidence)' /\ OnceUnlessNamed(prep.block.supporting)'
      BY <1>5, <2>2 DEF OnceUnlessNamed, NamedTwice
    <3>8. QED
      BY <3>1, <3>5, <3>6, <3>7 DEF BlockPartition, OneSectionEach
  <2>3. QED
    BY <2>1, <2>2
<1>7. PICK o \in SetToSeqs(DOMAIN seen) : relevant = [n \in DOMAIN seen |-> seen[o[n]]]
  BY <1>4 DEF ByScore
<1>8. prep.limit \in Nat
  BY <1>1 DEF Shaped
<1>9. /\ relevant \in Seq(prep.found) /\ ToSet(relevant) = shown
  <2>1. seen \in Seq(prep.found)
    BY <1>2, <1>3, <1>8, TruncateIs DEF Ordered, Ranking
  <2>2. PICK M \in Nat : DOMAIN seen = 1 .. M /\ \A n \in 1 .. M : seen[n] \in prep.found
    BY <2>1
  <2>3. IsFiniteSet(1 .. M) /\ Cardinality(1 .. M) = M
    BY FS_Interval
  <2>4. o \in Seq(1 .. M) /\ Len(o) = M /\ ToSet(o) = 1 .. M
    BY <1>7, <2>2, <2>3, SetToSeqsAre
  <2>5. DOMAIN o = 1 .. M /\ \A n \in 1 .. M : o[n] \in 1 .. M
    BY <2>4
  <2>6. \A k \in 1 .. M : \E n \in 1 .. M : o[n] = k
    <3>1. {o[n] : n \in 1 .. M} = 1 .. M
      BY <2>4, <2>5 DEF ToSet
    <3>2. QED
      BY <3>1
  <2>7. relevant \in Seq(prep.found) /\ DOMAIN relevant = 1 .. M
        /\ \A n \in 1 .. M : relevant[n] = seen[o[n]]
    <3>1. relevant = [n \in 1 .. M |-> seen[o[n]]]
      BY <1>7, <2>2
    <3>2. DOMAIN relevant = 1 .. M /\ \A n \in 1 .. M : relevant[n] = seen[o[n]]
      BY <3>1
    <3>3. \A n \in 1 .. M : seen[o[n]] \in prep.found
      BY <2>2, <2>5
    <3>4. relevant \in [1 .. M -> prep.found]
      BY <3>1, <3>3
    <3>5. relevant \in Seq(prep.found)
      BY <3>4
    <3>6. QED
      BY <3>2, <3>5
  <2>8. ToSet(relevant) = {seen[n] : n \in 1 .. M}
    <3>1. ToSet(relevant) = {seen[o[n]] : n \in 1 .. M}
      BY <2>7 DEF ToSet
    <3>2. QED
      BY <2>5, <2>6, <3>1
  <2>9. QED
    BY <1>3, <2>2, <2>7, <2>8 DEF ToSet
<1>10. relevant \in Seq(Index(NoUser)) /\ Once(ToSet(relevant))
  <2>1. prep.found \subseteq Index(NoUser)
    BY <1>1 DEF SearchOK
  <2>2. ToSet(relevant) \subseteq prep.found
    BY <1>9 DEF ToSet
  <2>3. QED
    BY <1>1, <1>9, <2>1, <2>2, SeqMonotonic DEF Once
<1>11. PICK important : important = SetToSeq(chosen)
  OBVIOUS
<1>12. important \in Seq(Index(NoUser)) /\ Once(ToSet(important))
  <2>1. chosen \subseteq Index(prep.user) /\ chosen \subseteq Index(NoUser)
    BY <1>1, <1>4, CurrentIndexed, IndexOf
  <2>2. important \in Seq(chosen)
    BY <1>1, <1>11, <2>1, HitsFinite, SetToSeqIs
  <2>3. important \in Seq(Index(NoUser))
    BY <2>1, <2>2, SeqMonotonic
  <2>4. ToSet(important) \subseteq chosen
    BY <2>2 DEF ToSet
  <2>5. \A g, h \in CurrentHits(prep.user) : g[1] = h[1] => g = h
    BY DEF CurrentHits, Now
  <2>6. QED
    BY <1>4, <2>3, <2>4, <2>5 DEF Once
<1>13. b = ContextBlock(relevant, important, prep.reserved)
  BY <1>4, <1>6, <1>11
<1>14. /\ OneSectionEach(b) /\ \A h \in ToSet(relevant) : Placed(b, h)
       /\ Shows(b.evidence, relevant) /\ Shows(b.supporting, relevant)
  BY <1>1, <1>10, <1>12, <1>13, BlockIs
<1>15. OnceUnlessNamed(b.evidence) /\ OnceUnlessNamed(b.supporting)
  BY <1>1, <1>2, <1>3, <1>7, <1>8, <1>14, ShownOnce
<1>16. QED
  BY <1>9, <1>14, <1>15

\* In every block with sections a memory is in one section, in one version, although
\* relevant and important memories are read at different times, and twice in it only if the
\* reranker named it twice; and a relevant memory is without a place only where raw turns,
\* or the memories of its speaker, have all of theirs.
THEOREM BlockHasOnePlaceEach == ContextSpec => []BlockPartition
<1>1. ContextInit => BlockPartition
  BY DEF ContextInit, NoPrep, BlockPartition
<1>2. ContextInv /\ BlockPartition /\ [ContextNext]_contextVars => BlockPartition'
  <2>1. SUFFICES ASSUME ContextInv, BlockPartition, [ContextNext]_contextVars
                 PROVE  BlockPartition'
    OBVIOUS
  <2>2. CASE Advances
    <3>1. prep'.result # "ready"
      BY <2>2 DEF Advances
    <3>2. QED
      BY <3>1 DEF BlockPartition
  <2>3. CASE Assemble
    BY <2>1, <2>3, AssembleBlock
  <2>4. CASE UNCHANGED contextVars
    <3>1. UNCHANGED searchVars /\ UNCHANGED prep
      BY <2>4 DEF contextVars
    <3>2. items' = items
      BY <3>1, SameStore
    <3>3. \A h : IsRaw(h)' = IsRaw(h) /\ NotRaw(h)' = NotRaw(h)
      BY <3>2 DEF IsRaw, NotRaw, About, Hit
    <3>4. \A b, h : Overfull(b, h)' = Overfull(b, h)
      BY <3>2 DEF Overfull, About, Hit
    <3>5. \A s : OnceUnlessNamed(s)' = OnceUnlessNamed(s)
      BY <3>1 DEF OnceUnlessNamed, NamedTwice
    <3>6. QED
      BY <2>1, <3>1, <3>3, <3>4, <3>5 DEF BlockPartition
  <2>5. QED
    BY <2>1, <2>2, <2>3, <2>4, OnlyAssembleMakesReady
<1>3. QED
  BY <1>1, <1>2, ContextAlways, PTL DEF ContextSpec
=============================================================================
