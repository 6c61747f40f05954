-------------------------- MODULE AddMemoryProofs --------------------------
(***************************************************************************)
(* Proofs about AddMemory for any number of clients, users, ids and        *)
(* contents, and any bound on the number of versions.                      *)
(***************************************************************************)
EXTENDS AddMemory, TLAPS

(***************************************************************************)
(* The inductive invariant.  A call works on a version it has read, and    *)
(* other calls may write the same id before it does.  What saves the       *)
(* history of an id is that versions are never taken back: the version     *)
(* the call holds is still one of them, whatever was added to it since.    *)
(***************************************************************************)
ItemsOK == items \in [Id -> Seq(Version)]

Counted == \A i \in Id : \A n \in DOMAIN items[i] : items[i][n].count >= 1

HistoryOK == OneOwner /\ CountBounded /\ DriftBySimilarity

\* client cl holds a version of the id it is about to write
Holds(cl) ==
  /\ call[cl].id \in Id
  /\ \E n \in DOMAIN items[call[cl].id] : items[call[cl].id][n] = call[cl].base
  /\ Matches(call[cl].base, call[cl].user)
  /\ call[cl].at = "update" => <<call[cl].base.content, call[cl].content>> \in Similar
  /\ call[cl].at = "reinforce" => Hash[call[cl].base.content] = Hash[call[cl].content]

CallOK(cl) ==
  /\ call[cl].at # "idle" => call[cl].content \in Content
  /\ call[cl].at \in {"reinforce", "update"} => Holds(cl)
  /\ call[cl].at = "link" =>
       /\ call[cl].id \in Id
       /\ 1 \in DOMAIN items[call[cl].id]
       /\ items[call[cl].id][1].user = call[cl].user
       /\ items[call[cl].id][1].content = call[cl].content

CallsOK == call \in [Client -> Call] /\ \A cl \in Client : CallOK(cl)

LinksOK ==
  /\ edges \subseteq Edge
  /\ \A e \in edges : 1 \in DOMAIN items[e.from]
  /\ LinksStayWithUser

\* what the other callers of the store, who write links of their own, keep as well
CoreInv ==
  /\ ItemsOK /\ Counted /\ HistoryOK
  /\ CallsOK
  /\ overlapped \in BOOLEAN

AddInv == CoreInv /\ LinksOK

-----------------------------------------------------------------------------
\* A version is the right one to add to id i: the first of a new id, or made from
\* a version of i, with its owner or none, counted once more at most, and with a
\* content that may follow.
Justified(i, v) ==
  /\ v \in Version
  /\ v.count >= 1
  /\ \/ items[i] = <<>> /\ v.count = 1
     \/ \E n \in DOMAIN items[i] :
          /\ v.user \in {items[i][n].user, NoUser}
          /\ v.count <= items[i][n].count + 1
          /\ Follows(items[i][n].content, v.content)

\* PutMemory adds one version to one id and keeps all the others.
LEMMA PutMemoryAdds ==
  ASSUME ItemsOK, NEW i \in Id, NEW v \in Version, PutMemory(i, v)
  PROVE  /\ ItemsOK'
         /\ \A j \in Id \ {i} : items'[j] = items[j]
         /\ Len(items[i]) \in Nat
         /\ DOMAIN items[i] = 1 .. Len(items[i])
         /\ DOMAIN items'[i] = 1 .. Len(items[i]) + 1
         /\ Len(items'[i]) = Len(items[i]) + 1
         /\ \A n \in 1 .. Len(items[i]) : items'[i][n] = items[i][n]
         /\ items'[i][Len(items[i]) + 1] = v
<1>1. items' = [items EXCEPT ![i] = Append(items[i], v)]
  BY DEF PutMemory
<1>2. items \in [Id -> Seq(Version)] /\ items[i] \in Seq(Version)
  BY DEF ItemsOK
<1>3. items'[i] = Append(items[i], v) /\ \A j \in Id \ {i} : items'[j] = items[j]
  BY <1>1, <1>2
<1>4. Append(items[i], v) \in Seq(Version)
  BY <1>2
<1>5. ItemsOK'
  BY <1>1, <1>2, <1>4 DEF ItemsOK
<1>6. QED
  BY <1>2, <1>3, <1>4, <1>5

\* No id loses a version.
Grows ==
  \A j \in Id : \A n \in DOMAIN items[j] :
    n \in DOMAIN items'[j] /\ items'[j][n] = items[j][n]

\* Nothing is ever taken out of the history of an id.
LEMMA HistoryGrows ==
  ASSUME ItemsOK, NEW i \in Id, NEW v \in Version, PutMemory(i, v)
  PROVE  Grows
<1>1. SUFFICES ASSUME NEW j \in Id, NEW n \in DOMAIN items[j]
               PROVE  n \in DOMAIN items'[j] /\ items'[j][n] = items[j][n]
  BY DEF Grows
<1>2. CASE j = i
  BY <1>2, PutMemoryAdds
<1>3. CASE j # i
  BY <1>3, PutMemoryAdds
<1>4. QED
  BY <1>2, <1>3

\* Adding a justified version keeps what is said of every id's history.
LEMMA PutKeepsHistory ==
  ASSUME ItemsOK, Counted, HistoryOK, NEW i \in Id, NEW v, Justified(i, v), PutMemory(i, v)
  PROVE  ItemsOK' /\ Counted' /\ HistoryOK'
<1>1. v \in Version /\ v.count >= 1 /\ v.count \in Nat
  BY DEF Justified, Version
<1> DEFINE len == Len(items[i])
<1>2. /\ ItemsOK' /\ \A j \in Id \ {i} : items'[j] = items[j]
      /\ len \in Nat /\ DOMAIN items[i] = 1 .. len /\ DOMAIN items'[i] = 1 .. len + 1
      /\ \A n \in 1 .. len : items'[i][n] = items[i][n]
      /\ items'[i][len + 1] = v
  BY <1>1, PutMemoryAdds
<1>3. CASE items[i] = <<>> /\ v.count = 1
  <2>1. len = 0 /\ DOMAIN items'[i] = {1} /\ items'[i][1] = v
    BY <1>2, <1>3
  <2>2. Counted'
    BY <1>1, <1>2, <2>1 DEF Counted
  <2>3. OneOwner'
    BY <1>2, <2>1 DEF HistoryOK, OneOwner
  <2>4. CountBounded'
    BY <1>2, <1>3, <2>1 DEF HistoryOK, CountBounded
  <2>5. DriftBySimilarity'
    BY <1>2, <2>1 DEF HistoryOK, DriftBySimilarity
  <2>6. QED
    BY <1>2, <2>2, <2>3, <2>4, <2>5 DEF HistoryOK
<1>4. CASE \E n \in DOMAIN items[i] :
             /\ v.user \in {items[i][n].user, NoUser}
             /\ v.count <= items[i][n].count + 1
             /\ Follows(items[i][n].content, v.content)
  <2>1. PICK n \in 1 .. len : /\ v.user \in {items[i][n].user, NoUser}
                              /\ v.count <= items[i][n].count + 1
                              /\ Follows(items[i][n].content, v.content)
    BY <1>2, <1>4
  <2>2. items[i][n].count <= n /\ items[i][n].count \in Nat
    <3>1. items[i][n] \in Version
      BY <1>2, <2>1 DEF ItemsOK
    <3>2. QED
      BY <1>2, <2>1, <3>1 DEF HistoryOK, CountBounded, Version
  <2>3. Counted'
    BY <1>1, <1>2 DEF Counted
  <2>4. OneOwner'
    <3>1. \A m \in 1 .. len : items[i][m].user # NoUser /\ v.user # NoUser
                                => items[i][m].user = v.user
      BY <1>2, <2>1 DEF HistoryOK, OneOwner
    <3>2. SUFFICES ASSUME NEW j \in Id, NEW k \in DOMAIN items'[j], NEW m \in DOMAIN items'[j],
                          items'[j][k].user # NoUser, items'[j][m].user # NoUser
                   PROVE  items'[j][k].user = items'[j][m].user
      BY DEF OneOwner
    <3>3. CASE j # i
      BY <1>2, <3>2, <3>3 DEF HistoryOK, OneOwner
    <3>4. CASE j = i
      <4>1. CASE k \in 1 .. len /\ m \in 1 .. len
        BY <1>2, <3>2, <3>4, <4>1 DEF HistoryOK, OneOwner
      <4>2. CASE k = len + 1 /\ m \in 1 .. len
        BY <1>2, <3>1, <3>2, <3>4, <4>2
      <4>3. CASE k \in 1 .. len /\ m = len + 1
        BY <1>2, <3>1, <3>2, <3>4, <4>3
      <4>4. QED
        BY <1>2, <3>4, <4>1, <4>2, <4>3
    <3>5. QED
      BY <3>3, <3>4
  <2>5. CountBounded'
    <3>1. v.count <= len + 1
      BY <1>1, <1>2, <2>1, <2>2
    <3>2. QED
      BY <1>2, <3>1 DEF HistoryOK, CountBounded
  <2>6. DriftBySimilarity'
    <3>1. SUFFICES ASSUME NEW j \in Id, NEW k \in DOMAIN items'[j], k > 1
                   PROVE  \E m \in 1 .. k - 1 :
                            Follows(items'[j][m].content, items'[j][k].content)
      BY DEF DriftBySimilarity
    <3>2. CASE j # i
      BY <1>2, <3>1, <3>2 DEF HistoryOK, DriftBySimilarity
    <3>3. CASE j = i /\ k \in 1 .. len
      <4>1. PICK m \in 1 .. k - 1 : Follows(items[i][m].content, items[i][k].content)
        BY <1>2, <3>1, <3>3 DEF HistoryOK, DriftBySimilarity
      <4>2. m \in 1 .. len
        BY <1>2, <3>3
      <4>3. items'[i][m] = items[i][m] /\ items'[i][k] = items[i][k]
        BY <1>2, <3>3, <4>2
      <4>4. QED
        BY <3>3, <4>1, <4>3
    <3>4. CASE j = i /\ k = len + 1
      <4>1. items'[j][n] = items[i][n] /\ items'[j][k] = v
        BY <1>2, <2>1, <3>4
      <4>2. n \in 1 .. k - 1
        BY <1>2, <2>1, <3>4
      <4>3. Follows(items'[j][n].content, items'[j][k].content)
        BY <2>1, <4>1
      <4>4. QED
        BY <4>2, <4>3
    <3>5. k \in 1 .. len \/ k = len + 1 \/ j # i
      BY <1>2, <3>1
    <3>6. QED
      BY <3>2, <3>3, <3>4, <3>5
  <2>7. QED
    BY <1>2, <2>3, <2>4, <2>5, <2>6 DEF HistoryOK
<1>5. QED
  BY <1>3, <1>4 DEF Justified

-----------------------------------------------------------------------------
\* A hit of the index is a version that matches the user.
LEMMA HitIsVersion ==
  ASSUME ItemsOK, NEW u \in Owner, NEW h \in Index(u)
  PROVE  /\ h[1] \in Id /\ h[2] \in DOMAIN items[h[1]]
         /\ Hit(h) = items[h[1]][h[2]] /\ Hit(h) \in Version
         /\ Matches(Hit(h), u)
<1>1. PICK i \in Id : h \in {i} \X {n \in DOMAIN items[i] : Matches(items[i][n], u)}
  BY DEF Index
<1>2. h[1] = i /\ h[2] \in DOMAIN items[i] /\ Matches(items[i][h[2]], u)
  BY <1>1
<1>3. items[i][h[2]] \in Version
  BY <1>2 DEF ItemsOK
<1>4. QED
  BY <1>2, <1>3 DEF Hit

\* A search returns hits of the index.
LEMMA SearchReturnsHits ==
  ASSUME NEW c, NEW k, NEW u, NEW hits \in SearchSemantic(c, k, u)
  PROVE  hits \subseteq Index(u)
  BY Zenon DEF SearchSemantic

\* The same for a row of find_by_hash, which is the last version of its id.
LEMMA FoundIsVersion ==
  ASSUME ItemsOK, NEW c, NEW u \in Owner, NEW i \in FindByHash(c, u)
  PROVE  /\ i \in Id /\ Current(i) \in Version
         /\ \E n \in DOMAIN items[i] : items[i][n] = Current(i)
         /\ Matches(Current(i), u)
<1>1. i \in Id /\ items[i] # <<>> /\ Matches(Current(i), u) /\ items[i] \in Seq(Version)
  BY DEF FindByHash, Visible, ItemsOK
<1>2. Len(items[i]) \in DOMAIN items[i]
  BY <1>1
<1>3. QED
  BY <1>1, <1>2 DEF Current

\* What a call holds survives any growth of the history.
LEMMA CallOKGrows ==
  ASSUME ItemsOK, Grows, NEW cl \in Client, CallOK(cl), call'[cl] = call[cl]
  PROVE  CallOK(cl)'
<1>1. (call[cl].at # "idle" => call[cl].content \in Content)'
  BY DEF CallOK
<1>2. ASSUME call'[cl].at \in {"reinforce", "update"} PROVE Holds(cl)'
  <2>1. Holds(cl)
    BY <1>2 DEF CallOK
  <2>2. QED
    BY <2>1 DEF Holds, Grows, Matches
<1>3. ASSUME call'[cl].at = "link"
      PROVE  /\ call'[cl].id \in Id
             /\ 1 \in DOMAIN items'[call'[cl].id]
             /\ items'[call'[cl].id][1].user = call'[cl].user
             /\ items'[call'[cl].id][1].content = call'[cl].content
  BY <1>3 DEF CallOK, Grows
<1>4. QED
  BY <1>1, <1>2, <1>3 DEF CallOK

\* One client goes on, the others keep what they hold.
LEMMA OneCallMoves ==
  ASSUME ItemsOK, CallsOK, Grows, NEW cl \in Client, NEW new \in Call,
         call' = [call EXCEPT ![cl] = new], CallOK(cl)'
  PROVE  CallsOK'
<1>1. call' \in [Client -> Call] /\ \A o \in Client \ {cl} : call'[o] = call[o]
  BY DEF CallsOK
<1>2. ASSUME NEW o \in Client PROVE CallOK(o)'
  <2>1. CASE o = cl
    BY <2>1
  <2>2. CASE o # cl
    BY <1>1, <2>2, CallOKGrows DEF CallsOK
  <2>3. QED
    BY <2>1, <2>2
<1>3. QED
  BY <1>1, <1>2 DEF CallsOK

\* A call that has returned holds nothing.
LEMMA ReturnKeepsCalls ==
  ASSUME ItemsOK, CallsOK, Grows, NEW cl \in Client, Return(cl)
  PROVE  CallsOK'
<1>1. NoCall \in Call
  BY DEF NoCall, Call, Phase, Owner
<1>2. call' = [call EXCEPT ![cl] = NoCall]
  BY DEF Return
<1>3. call'[cl].at = "idle"
  BY <1>2 DEF CallsOK, NoCall
<1>4. CallOK(cl)'
  BY <1>3 DEF CallOK
<1>5. QED
  BY <1>1, <1>2, <1>4, OneCallMoves

\* Proceed changes three fields of one call.
LEMMA ProceedMoves ==
  ASSUME CallsOK, NEW cl \in Client, NEW p \in Phase, NEW i \in Id \cup {None},
         NEW b \in Version \cup {None}, Proceed(cl, p, i, b)
  PROVE  \E new \in Call :
           /\ call' = [call EXCEPT ![cl] = new] /\ call'[cl] = new
           /\ new.at = p /\ new.id = i /\ new.base = b
           /\ new.content = call[cl].content /\ new.user = call[cl].user
<1> DEFINE old == call[cl]
           new == [old EXCEPT !.at = p, !.id = i, !.base = b]
<1>1. call \in [Client -> Call] /\ old \in Call
  BY DEF CallsOK
<1>2. new \in Call
  BY <1>1 DEF Call
<1>3. call' = [call EXCEPT ![cl] = new] /\ call'[cl] = new
  BY <1>1 DEF Proceed
<1>4. /\ new.at = p /\ new.id = i /\ new.base = b
      /\ new.content = old.content /\ new.user = old.user
  BY <1>1 DEF Call
<1>5. QED
  BY <1>2, <1>3, <1>4

\* The links stay right when histories only grow.
LEMMA GrowthKeepsLinks ==
  ASSUME LinksOK, Grows, UNCHANGED edges
  PROVE  LinksOK'
<1>1. \A e \in edges : e.from \in Id /\ e.to \in Id /\ 1 \in DOMAIN items[e.from]
  BY DEF LinksOK, Edge
<1>2. \A e \in edges : 1 \in DOMAIN items'[e.from] /\ items'[e.from][1] = items[e.from][1]
  BY <1>1 DEF Grows
<1>3. ASSUME NEW e \in edges, items'[e.from][1].user # NoUser
      PROVE  \E n \in DOMAIN items'[e.to] : items'[e.to][n].user = items'[e.from][1].user
  <2>1. PICK n \in DOMAIN items[e.to] : items[e.to][n].user = items[e.from][1].user
    BY <1>2, <1>3 DEF LinksOK, LinksStayWithUser
  <2>2. QED
    BY <1>1, <1>2, <2>1 DEF Grows
<1>4. QED
  BY <1>2, <1>3 DEF LinksOK, LinksStayWithUser

-----------------------------------------------------------------------------
(* The steps.                                                              *)

\* A step that only reads the store.
LEMMA ReadKeepsInv ==
  ASSUME CoreInv, UNCHANGED items, overlapped' \in BOOLEAN, CallsOK'
  PROVE  CoreInv' /\ Grows
<1>1. ItemsOK' /\ Counted' /\ HistoryOK'
  BY DEF CoreInv, ItemsOK, Counted, HistoryOK, OneOwner, CountBounded, DriftBySimilarity
<1>2. Grows
  BY DEF Grows
<1>3. QED
  BY <1>1, <1>2 DEF CoreInv

\* A step that writes one justified version.
LEMMA WriteKeepsInv ==
  ASSUME CoreInv, NEW i \in Id, NEW v, Justified(i, v), PutMemory(i, v),
         UNCHANGED overlapped, CallsOK'
  PROVE  CoreInv' /\ Grows
<1>1. ItemsOK' /\ Counted' /\ HistoryOK'
  BY PutKeepsHistory DEF CoreInv
<1>2. Grows
  BY HistoryGrows DEF CoreInv, Justified
<1>3. QED
  BY <1>1, <1>2 DEF CoreInv

\* No write is growth.
LEMMA SameStoreGrows == ASSUME UNCHANGED items PROVE Grows
  BY DEF Grows

\* The invariant holds initially.
LEMMA InitInv == Init => AddInv
<1>1. SUFFICES ASSUME Init PROVE AddInv
  OBVIOUS
<1>2. items = [i \in Id |-> <<>>] /\ edges = {} /\ call = [cl \in Client |-> NoCall]
  BY <1>1 DEF Init, StoreInit
<1>3. ItemsOK /\ Counted /\ HistoryOK
  BY <1>2 DEF ItemsOK, Counted, HistoryOK, OneOwner, CountBounded, DriftBySimilarity
<1>4. CallsOK
  <2>1. NoCall \in Call
    BY DEF NoCall, Call, Phase, Owner
  <2>2. \A cl \in Client : call[cl].at = "idle"
    BY <1>2 DEF NoCall
  <2>3. QED
    BY <1>2, <2>1, <2>2 DEF CallsOK, CallOK
<1>5. LinksOK
  BY <1>2 DEF LinksOK, LinksStayWithUser
<1>6. QED
  BY <1>1, <1>3, <1>4, <1>5 DEF AddInv, CoreInv, Init

\* find_by_hash.
LEMMA StartAddKeepsInv ==
  ASSUME CoreInv, NEW cl \in Client, NEW c \in Content, NEW u \in Owner, StartAdd(cl, c, u)
  PROVE  CoreInv' /\ Grows
<1>1. UNCHANGED storeVars /\ UNCHANGED items /\ Grows /\ overlapped' \in BOOLEAN
  BY SameStoreGrows DEF StartAdd, storeVars, CoreInv
<1>2. ASSUME NEW i \in FindByHash(c, u),
             call' = [call EXCEPT ![cl] = [at |-> "reinforce", content |-> c, user |-> u,
                                           id |-> i, base |-> Current(i)]]
      PROVE  CallsOK'
  <2> DEFINE new == [at |-> "reinforce", content |-> c, user |-> u,
                     id |-> i, base |-> Current(i)]
  <2>1. /\ i \in Id /\ Current(i) \in Version /\ Matches(Current(i), u)
        /\ \E n \in DOMAIN items[i] : items[i][n] = Current(i)
    BY FoundIsVersion DEF CoreInv
  <2>2. new \in Call
    BY <2>1 DEF Call, Phase
  <2>3. call'[cl] = new
    BY <1>2 DEF CoreInv, CallsOK
  <2>4. Holds(cl)'
    BY <1>1, <2>1, <2>3 DEF Holds, Matches, FindByHash
  <2>5. CallOK(cl)'
    BY <2>3, <2>4 DEF CallOK
  <2>6. QED
    BY <1>1, <1>2, <2>2, <2>5, OneCallMoves DEF CoreInv
<1>3. ASSUME call' = [call EXCEPT ![cl] = [at |-> "search", content |-> c, user |-> u,
                                           id |-> None, base |-> None]]
      PROVE  CallsOK'
  <2> DEFINE new == [at |-> "search", content |-> c, user |-> u, id |-> None, base |-> None]
  <2>1. new \in Call
    BY DEF Call, Phase
  <2>2. call'[cl] = new
    BY <1>3 DEF CoreInv, CallsOK
  <2>3. CallOK(cl)'
    BY <2>2 DEF CallOK
  <2>4. QED
    BY <1>1, <1>3, <2>1, <2>3, OneCallMoves DEF CoreInv
<1>4. CallsOK'
  BY <1>2, <1>3 DEF StartAdd
<1>5. QED
  BY <1>1, <1>4, ReadKeepsInv

\* search_semantic, and the decision on its first hit.
LEMMA SearchSimilarKeepsInv ==
  ASSUME CoreInv, NEW cl \in Client, SearchSimilar(cl)
  PROVE  CoreInv' /\ Grows
<1>1. UNCHANGED storeVars /\ UNCHANGED items /\ Grows /\ overlapped' \in BOOLEAN
  BY SameStoreGrows DEF SearchSimilar, storeVars, CoreInv
<1>2. /\ call[cl].at = "search" /\ call[cl].content \in Content /\ call[cl].user \in Owner
  BY DEF CoreInv, CallsOK, CallOK, Call, SearchSimilar
<1>3. CASE Proceed(cl, "store", None, None)
  <2>1. PICK new \in Call : /\ call' = [call EXCEPT ![cl] = new] /\ call'[cl] = new
                            /\ new.at = "store" /\ new.content = call[cl].content
    BY <1>3, ProceedMoves DEF CoreInv, Phase
  <2>2. CallOK(cl)'
    BY <1>2, <2>1 DEF CallOK
  <2>3. CallsOK'
    BY <1>1, <2>1, <2>2, OneCallMoves DEF CoreInv
  <2>4. QED
    BY <1>1, <2>3, ReadKeepsInv
<1>4. ASSUME NEW h \in Index(call[cl].user), NearDuplicate(Hit(h), call[cl].content),
             Proceed(cl, "update", h[1], Hit(h))
      PROVE  CoreInv' /\ Grows
  <2>1. /\ h[1] \in Id /\ Hit(h) \in Version /\ Matches(Hit(h), call[cl].user)
        /\ \E n \in DOMAIN items[h[1]] : items[h[1]][n] = Hit(h)
    BY <1>2, HitIsVersion DEF CoreInv
  <2>2. PICK new \in Call : /\ call' = [call EXCEPT ![cl] = new] /\ call'[cl] = new
                            /\ new.at = "update" /\ new.id = h[1] /\ new.base = Hit(h)
                            /\ new.content = call[cl].content /\ new.user = call[cl].user
    BY <1>4, <2>1, ProceedMoves DEF CoreInv, Phase
  <2>3. Holds(cl)'
    BY <1>1, <1>4, <2>1, <2>2 DEF Holds, Matches, NearDuplicate
  <2>4. CallOK(cl)'
    BY <1>2, <2>2, <2>3 DEF CallOK
  <2>5. CallsOK'
    BY <1>1, <2>2, <2>4, OneCallMoves DEF CoreInv
  <2>6. QED
    BY <1>1, <2>5, ReadKeepsInv
<1>5. QED
  BY <1>3, <1>4, SearchReturnsHits DEF SearchSimilar

\* What a reinforced version is.
LEMMA ReinforcedVersion ==
  ASSUME NEW v \in Version
  PROVE  /\ Reinforced(v) \in Version
         /\ Reinforced(v).op = "ASSERT"
         /\ Reinforced(v).count = v.count + 1
         /\ Reinforced(v).user = v.user
         /\ Reinforced(v).content = v.content
         /\ v.count \in Nat /\ v.content \in Content
<1> DEFINE a == [v EXCEPT !.op = "ASSERT"]
<1>1. /\ a \in Version /\ a.op = "ASSERT" /\ a.count = v.count /\ a.user = v.user
      /\ a.content = v.content /\ v.count \in Nat /\ v.content \in Content
  BY DEF Version
<1>2. Reinforced(v) = [a EXCEPT !.count = v.count + 1]
  BY DEF Reinforced
<1> HIDE DEF a
<1>3. QED
  BY <1>1, <1>2 DEF Version

\* The version a reinforcement writes: c is what the caller has said.
Mentioned(v, c) == [Reinforced(v) EXCEPT !.content = Reembedded[<<v.content, c>>]]

\* What a reinforcement makes of a version: the hash stays, and so does the content if
\* it is what the caller has said.
LEMMA MentionedVersion ==
  ASSUME NEW v \in Version, NEW c \in Content
  PROVE  /\ Mentioned(v, c) \in Version
         /\ Mentioned(v, c).op = "ASSERT"
         /\ Mentioned(v, c).count = v.count + 1
         /\ Mentioned(v, c).user = v.user
         /\ Mentioned(v, c).latest = v.latest
         /\ Mentioned(v, c).content = Reembedded[<<v.content, c>>]
         /\ Hash[Mentioned(v, c).content] = Hash[v.content]
         /\ v.content = c => Mentioned(v, c).content = c
         /\ v.count \in Nat /\ v.content \in Content
<1> DEFINE r == Reinforced(v)
           new == Reembedded[<<v.content, c>>]
<1>1. /\ r \in Version /\ r.op = "ASSERT" /\ r.count = v.count + 1 /\ r.user = v.user
      /\ v.count \in Nat /\ v.content \in Content
  BY ReinforcedVersion
<1>2. r.latest = v.latest
  BY DEF Reinforced, Version
<1>3. new \in Content /\ Hash[new] = Hash[v.content] /\ (v.content = c => new = c)
  BY <1>1, EmbeddingAssumption
<1>4. Mentioned(v, c) = [r EXCEPT !.content = new]
  BY DEF Mentioned
<1> HIDE DEF r, new
<1>5. Mentioned(v, c).content = new
  BY <1>1, <1>4 DEF Version
<1>6. Mentioned(v, c).content = Reembedded[<<v.content, c>>]
  BY <1>5 DEF new
<1>7. QED
  BY <1>1, <1>2, <1>3, <1>4, <1>5, <1>6 DEF Version

\* What a reinforcement works on and what it writes.
LEMMA ReinforceWrites ==
  ASSUME CoreInv, NEW cl \in Client, Reinforce(cl)
  PROVE  LET i == call[cl].id
             b == call[cl].base
             c == call[cl].content
         IN  /\ Holds(cl) /\ ItemsOK
             /\ i \in Id /\ c \in Content /\ b \in Version
             /\ Hash[b.content] = Hash[c]
             /\ PutMemory(i, Mentioned(b, c))
             /\ Return(cl) /\ UNCHANGED <<edges, overlapped>>
<1>1. Holds(cl) /\ ItemsOK /\ call[cl].content \in Content
  BY DEF Reinforce, CoreInv, CallsOK, CallOK
<1>2. call[cl].id \in Id /\ call[cl].base \in Version
  BY <1>1 DEF Holds, ItemsOK
<1>3. Hash[call[cl].base.content] = Hash[call[cl].content]
  BY <1>1 DEF Holds, Reinforce
<1>4. QED
  BY <1>1, <1>2, <1>3 DEF Reinforce, Mentioned

\* put_memory of what has the same hash, with the vector of what was said.
LEMMA ReinforceKeepsInv ==
  ASSUME CoreInv, NEW cl \in Client, Reinforce(cl)
  PROVE  CoreInv' /\ Grows
<1> DEFINE i == call[cl].id
           b == call[cl].base
           c == call[cl].content
           v == Mentioned(b, c)
<1>1. /\ Holds(cl) /\ ItemsOK /\ i \in Id /\ c \in Content /\ b \in Version
      /\ Hash[b.content] = Hash[c]
      /\ PutMemory(i, v) /\ UNCHANGED overlapped /\ Return(cl)
  BY ReinforceWrites
<1>2. PICK n \in DOMAIN items[i] : items[i][n] = b
  BY <1>1 DEF Holds
<1>3. b.count >= 1
  BY <1>1, <1>2 DEF CoreInv, Counted
<1>4. /\ v \in Version /\ v.count = b.count + 1 /\ v.user = b.user
      /\ v.content = Reembedded[<<b.content, c>>] /\ b.count \in Nat
  BY <1>1, MentionedVersion
<1>5. Follows(b.content, v.content)
  BY <1>1, <1>4 DEF Follows
<1>6. Justified(i, v)
  BY <1>2, <1>3, <1>4, <1>5 DEF Justified
<1>7. CallsOK'
  BY <1>1, <1>4, HistoryGrows, ReturnKeepsCalls DEF CoreInv
<1>8. QED
  BY <1>1, <1>6, <1>7, WriteKeepsInv

\* The version an update writes.
Updated(v, c, u) == [Reinforced(v) EXCEPT !.content = c, !.user = u]

\* What an update makes of a version.
LEMMA UpdatedVersion ==
  ASSUME NEW v \in Version, NEW c \in Content, NEW u \in Owner
  PROVE  /\ Updated(v, c, u) \in Version
         /\ Updated(v, c, u).count = v.count + 1
         /\ Updated(v, c, u).user = u
         /\ Updated(v, c, u).content = c
         /\ Updated(v, c, u).op = "ASSERT"
         /\ v.count \in Nat
<1> DEFINE r == Reinforced(v)
<1>1. r \in Version /\ r.op = "ASSERT" /\ r.count = v.count + 1 /\ v.count \in Nat
  BY ReinforcedVersion
<1>2. Updated(v, c, u) = [r EXCEPT !.content = c, !.user = u]
  BY DEF Updated
<1> HIDE DEF r
<1>3. QED
  BY <1>1, <1>2 DEF Version

\* put_memory of a near duplicate, under the id of the hit.
LEMMA UpdateKeepsInv ==
  ASSUME CoreInv, NEW cl \in Client, Update(cl)
  PROVE  CoreInv' /\ Grows
<1> DEFINE i == call[cl].id
           b == call[cl].base
           c == call[cl].content
           u == call[cl].user
           v == Updated(b, c, u)
<1>1. Holds(cl) /\ ItemsOK /\ c \in Content /\ u \in Owner /\ <<b.content, c>> \in Similar
  BY DEF Update, CoreInv, CallsOK, CallOK, Call, Holds
<1>2. PICK n \in DOMAIN items[i] : items[i][n] = b
  BY <1>1 DEF Holds
<1>3. i \in Id /\ b \in Version /\ b.count >= 1
  BY <1>1, <1>2 DEF Holds, ItemsOK, CoreInv, Counted
<1>4. /\ v \in Version /\ v.count = b.count + 1 /\ v.user = u /\ v.content = c
      /\ b.count \in Nat
  BY <1>1, <1>3, UpdatedVersion
<1>5. v.user \in {b.user, NoUser}
  BY <1>1, <1>4 DEF Holds, Matches
<1>6. Justified(i, v)
  BY <1>1, <1>2, <1>3, <1>4, <1>5 DEF Justified, Follows
<1>7. PutMemory(i, v) /\ UNCHANGED overlapped /\ Return(cl)
  BY DEF Update, Updated
<1>8. CallsOK'
  BY <1>3, <1>4, <1>7, HistoryGrows, ReturnKeepsCalls DEF CoreInv
<1>9. QED
  BY <1>3, <1>6, <1>7, <1>8, WriteKeepsInv

\* put_memory under a fresh id.
LEMMA StoreKeepsInv ==
  ASSUME CoreInv, NEW cl \in Client, Store(cl)
  PROVE  CoreInv' /\ Grows
<1> DEFINE c == call[cl].content
           u == call[cl].user
           v == NewVersion(c, u)
<1>1. c \in Content /\ u \in Owner /\ ItemsOK
  BY DEF Store, CoreInv, CallsOK, CallOK, Call
<1>2. PICK i \in Id : items[i] = <<>> /\ PutMemory(i, v) /\ Proceed(cl, "link", i, None)
  BY DEF Store
<1>3. v \in Version /\ v.count = 1 /\ v.user = u /\ v.content = c
  BY <1>1 DEF NewVersion, Version
<1>4. Justified(i, v)
  BY <1>2, <1>3 DEF Justified
<1>5. Grows /\ 1 \in DOMAIN items'[i] /\ items'[i][1] = v
  <2>1. Len(items[i]) = 0
    BY <1>2
  <2>2. QED
    BY <1>1, <1>2, <1>3, <2>1, HistoryGrows, PutMemoryAdds
<1>6. CallsOK'
  <2>1. PICK new \in Call : /\ call' = [call EXCEPT ![cl] = new] /\ call'[cl] = new
                            /\ new.at = "link" /\ new.id = i
                            /\ new.content = c /\ new.user = u
    BY <1>2, ProceedMoves DEF CoreInv, Phase
  <2>2. CallOK(cl)'
    BY <1>1, <1>3, <1>5, <2>1 DEF CallOK
  <2>3. QED
    BY <1>5, <2>1, <2>2, OneCallMoves DEF CoreInv
<1>7. UNCHANGED overlapped
  BY DEF Store
<1>8. QED
  BY <1>2, <1>4, <1>6, <1>7, WriteKeepsInv

\* put_edge to what the second search found.
LEMMA LinkKeepsInv ==
  ASSUME CoreInv, NEW cl \in Client, Link(cl)
  PROVE  CoreInv' /\ Grows
<1>1. UNCHANGED <<items, overlapped>> /\ Return(cl)
  BY DEF Link
<1>2. CallsOK'
  BY <1>1, SameStoreGrows, ReturnKeepsCalls DEF CoreInv
<1>3. QED
  BY <1>1, <1>2, ReadKeepsInv DEF CoreInv

\* Edges to what a search for user u finds lead to memories with a version that
\* matches u.
LEMMA HitsAreLinked ==
  ASSUME ItemsOK, NEW from \in Id, NEW u \in Owner, NEW c, NEW hits \in SearchSemantic(c, 3, u),
         NEW es \in SUBSET {[from |-> from, to |-> h[1], relation |-> "relates_to"] :
                              h \in {g \in hits : /\ g[1] # from
                                                  /\ <<Hit(g).content, c>> \in Related}}
  PROVE  \A e \in es : /\ e \in Edge /\ e.from = from
                       /\ \E n \in DOMAIN items[e.to] : Matches(items[e.to][n], u)
<1>1. SUFFICES ASSUME NEW e \in es
               PROVE  /\ e \in Edge /\ e.from = from
                      /\ \E n \in DOMAIN items[e.to] : Matches(items[e.to][n], u)
  OBVIOUS
<1>2. PICK h \in hits : e = [from |-> from, to |-> h[1], relation |-> "relates_to"]
  OBVIOUS
<1>3. h[1] \in Id /\ \E n \in DOMAIN items[h[1]] : Matches(items[h[1]][n], u)
  BY SearchReturnsHits, HitIsVersion
<1>4. e \in Edge /\ e.from = from /\ e.to = h[1]
  BY <1>2, <1>3 DEF Edge
<1>5. QED
  BY <1>3, <1>4

\* The links of a new memory.
LEMMA LinkAdds ==
  ASSUME CoreInv, NEW cl \in Client, Link(cl)
  PROVE  \E es \in SUBSET Edge :
           /\ edges' = edges \cup es
           /\ \A e \in es :
                /\ e.from = call[cl].id
                /\ \E n \in DOMAIN items[e.to] : Matches(items[e.to][n], call[cl].user)
<1> DEFINE from == call[cl].id
           c == call[cl].content
           u == call[cl].user
           found(hits) == {[from |-> from, to |-> h[1], relation |-> "relates_to"] :
                             h \in {g \in hits : /\ g[1] # from
                                                 /\ <<Hit(g).content, c>> \in Related}}
<1>1. from \in Id /\ u \in Owner /\ ItemsOK
  BY DEF Link, CoreInv, CallsOK, CallOK, Call
<1>2. PICK hits \in SearchSemantic(c, 3, u) : \E es \in SUBSET found(hits) : PutEdges(es)
  BY DEF Link
<1>3. PICK es \in SUBSET found(hits) : PutEdges(es)
  BY <1>2
<1>4. \A e \in es : /\ e \in Edge /\ e.from = from
                    /\ \E n \in DOMAIN items[e.to] : Matches(items[e.to][n], u)
  BY <1>1, <1>2, <1>3, HitsAreLinked
<1>5. QED
  BY <1>3, <1>4 DEF PutEdges

\* Only the caller's own memories, and those of nobody, are in a scoped search.
LEMMA LinkKeepsLinks ==
  ASSUME AddInv, NEW cl \in Client, Link(cl)
  PROVE  LinksOK'
<1> DEFINE from == call[cl].id
           u == call[cl].user
<1>1. /\ from \in Id /\ 1 \in DOMAIN items[from] /\ items[from][1].user = u
      /\ UNCHANGED items
  BY DEF Link, AddInv, CoreInv, CallsOK, CallOK
<1>2. PICK es \in SUBSET Edge :
        /\ edges' = edges \cup es
        /\ \A e \in es : /\ e.from = from
                         /\ \E n \in DOMAIN items[e.to] : Matches(items[e.to][n], u)
  BY LinkAdds DEF AddInv
<1>3. edges' \subseteq Edge /\ \A e \in edges' : 1 \in DOMAIN items'[e.from]
  BY <1>1, <1>2 DEF AddInv, LinksOK
<1>4. ASSUME NEW e \in es, items[e.from][1].user # NoUser
      PROVE  \E n \in DOMAIN items[e.to] : items[e.to][n].user = items[e.from][1].user
  BY <1>1, <1>2, <1>4 DEF Matches
<1>5. LinksStayWithUser'
  BY <1>1, <1>2, <1>4 DEF AddInv, LinksOK, LinksStayWithUser
<1>6. QED
  BY <1>3, <1>5 DEF LinksOK

\* An error ends the call, and its writes stay.
LEMMA FailKeepsInv ==
  ASSUME CoreInv, NEW cl \in Client, Fail(cl)
  PROVE  CoreInv' /\ Grows
<1>1. UNCHANGED storeVars /\ UNCHANGED items /\ UNCHANGED overlapped /\ Return(cl)
  BY DEF Fail, storeVars
<1>2. CallsOK'
  BY <1>1, SameStoreGrows, ReturnKeepsCalls DEF CoreInv
<1>3. QED
  BY <1>1, <1>2, ReadKeepsInv DEF CoreInv

\* A write beside the calls of add_memory.
LEMMA OtherWriteKeepsInv ==
  ASSUME CoreInv, NEW i \in Id, NEW v, Justified(i, v), PutMemory(i, v),
         UNCHANGED <<call, overlapped>>
  PROVE  CoreInv' /\ Grows
<1>1. Grows
  BY HistoryGrows DEF CoreInv, Justified
<1>2. \A o \in Client : CallOK(o)'
  BY <1>1, CallOKGrows DEF CoreInv, CallsOK
<1>3. CallsOK'
  BY <1>2 DEF CoreInv, CallsOK
<1>4. QED
  BY <1>3, WriteKeepsInv

\* A step that touches neither the memories nor the calls.
LEMMA StillKeepsInv ==
  ASSUME CoreInv, UNCHANGED <<items, call, overlapped>>
  PROVE  CoreInv' /\ Grows
<1>1. CallsOK'
  BY DEF CoreInv, CallsOK, CallOK, Holds, Matches
<1>2. QED
  BY <1>1, ReadKeepsInv DEF CoreInv

\* What the retraction of a memory writes.
LEMMA RetractWrites ==
  ASSUME ItemsOK, NEW i \in Id, InvalidateMemory(i)
  PROVE  \/ UNCHANGED items
         \/ \E v \in Version : /\ PutMemory(i, v) /\ v.op = "RETRACT"
                               /\ \E n \in DOMAIN items[i] :
                                    /\ v.user = items[i][n].user
                                    /\ v.content = items[i][n].content
                                    /\ v.count = items[i][n].count
                                    /\ v.latest = items[i][n].latest
<1>1. CASE Visible(i)
  <2> DEFINE v == [Current(i) EXCEPT !.op = "RETRACT"]
             n == Len(items[i])
  <2>1. PutMemory(i, v)
    BY <1>1 DEF InvalidateMemory
  <2>2. items[i] \in Seq(Version) /\ items[i] # <<>>
    BY <1>1 DEF ItemsOK, Visible
  <2>3. n \in DOMAIN items[i] /\ Current(i) = items[i][n] /\ Current(i) \in Version
    BY <2>2 DEF Current
  <2>4. /\ v \in Version /\ v.op = "RETRACT"
        /\ v.user = items[i][n].user /\ v.content = items[i][n].content
        /\ v.count = items[i][n].count /\ v.latest = items[i][n].latest
    BY <2>3 DEF Version
  <2>5. QED
    BY <2>1, <2>3, <2>4
<1>2. CASE ~Visible(i)
  BY <1>2 DEF InvalidateMemory
<1>3. QED
  BY <1>1, <1>2

\* Whoever retracts a memory.
LEMMA InvalidateKeepsInv ==
  ASSUME CoreInv, NEW i \in Id, InvalidateMemory(i), UNCHANGED <<call, overlapped>>
  PROVE  CoreInv' /\ Grows
<1>1. ASSUME NEW v \in Version, PutMemory(i, v), NEW n \in DOMAIN items[i],
             v.user = items[i][n].user, v.content = items[i][n].content,
             v.count = items[i][n].count
      PROVE  CoreInv' /\ Grows
  <2>1. v.count \in Nat /\ v.count >= 1 /\ <<v.content, v.content>> \in Similar
    BY <1>1, StoreAssumption DEF CoreInv, Counted, Version
  <2>2. Justified(i, v)
    BY <1>1, <2>1 DEF Justified, Follows
  <2>3. QED
    BY <1>1, <2>2, OtherWriteKeepsInv
<1>2. CASE UNCHANGED items
  BY <1>2, StillKeepsInv
<1>3. QED
  BY <1>1, <1>2, RetractWrites DEF CoreInv

\* One step of a call of add_memory, whoever makes it.
AddSteps(cl) ==
  Reinforce(cl) \/ SearchSimilar(cl) \/ Update(cl) \/ Store(cl) \/ Link(cl) \/ Fail(cl)

\* Any step of add_memory after the first.
LEMMA AddStepsKeepInv ==
  ASSUME CoreInv, NEW cl \in Client, AddSteps(cl)
  PROVE  CoreInv' /\ Grows
  BY ReinforceKeepsInv, SearchSimilarKeepsInv, UpdateKeepsInv, StoreKeepsInv, LinkKeepsInv,
     FailKeepsInv DEF AddSteps

\* The invariant holds after every step, and versions are only added.
LEMMA StepKeepsCore == CoreInv /\ [Next]_vars => CoreInv' /\ Grows
<1>1. SUFFICES ASSUME CoreInv, [Next]_vars PROVE CoreInv' /\ Grows
  OBVIOUS
<1>2. ASSUME NEW cl \in Client, NEW c \in Content, NEW u \in Owner, StartAdd(cl, c, u)
      PROVE  CoreInv' /\ Grows
  BY <1>1, <1>2, StartAddKeepsInv
<1>3. ASSUME NEW cl \in Client, AddSteps(cl) PROVE CoreInv' /\ Grows
  BY <1>1, <1>3, AddStepsKeepInv
<1>4. ASSUME NEW cl \in Client, NEW i \in Id, Delete(cl, i) PROVE CoreInv' /\ Grows
  BY <1>1, <1>4, InvalidateKeepsInv DEF Delete
<1>5. CASE UNCHANGED vars
  <2>1. UNCHANGED <<items, call, overlapped>>
    BY <1>5 DEF vars, storeVars
  <2>2. QED
    BY <1>1, <2>1, StillKeepsInv
<1>6. QED
  BY <1>1, <1>2, <1>3, <1>4, <1>5 DEF Next, AddSteps

\* The invariant, with the links, holds after every step.
LEMMA StepKeepsInv == AddInv /\ [Next]_vars => AddInv'
<1>1. SUFFICES ASSUME AddInv, [Next]_vars PROVE LinksOK'
  BY StepKeepsCore DEF AddInv
<1>2. CASE UNCHANGED edges
  BY <1>1, <1>2, StepKeepsCore, GrowthKeepsLinks DEF AddInv
<1>3. ASSUME NEW cl \in Client, Link(cl) PROVE LinksOK'
  BY <1>1, <1>3, LinkKeepsLinks
<1>4. QED
  BY <1>1, <1>2, <1>3
     DEF Next, vars, storeVars, StartAdd, Reinforce, SearchSimilar, Update, Store, Fail, Delete

\* What every client knows of the memory it is about to write, in every state.
THEOREM InvHolds == Spec => []AddInv
  BY InitInv, StepKeepsInv, PTL DEF Spec

-----------------------------------------------------------------------------
\* Every variable has its type, and no version counts fewer than one mention.
THEOREM TypesHold == Spec => []TypeOK
<1>1. AddInv => TypeOK
  BY DEF AddInv, CoreInv, ItemsOK, Counted, CallsOK, LinksOK, TypeOK
<1>2. QED
  BY <1>1, InvHolds, PTL

\* However many clients interleave, the history of an id names one user at most.
THEOREM OwnerIsUnique == Spec => []OneOwner
<1>1. AddInv => OneOwner
  BY DEF AddInv, CoreInv, HistoryOK
<1>2. QED
  BY <1>1, InvHolds, PTL

\* However many clients interleave, no version counts more mentions than there
\* were writes of its id up to it.
THEOREM CountIsBounded == Spec => []CountBounded
<1>1. AddInv => CountBounded
  BY DEF AddInv, CoreInv, HistoryOK
<1>2. QED
  BY <1>1, InvHolds, PTL

\* However many clients interleave, each version's content is one that an earlier
\* version of its id is similar to, or has that one's text.
THEOREM DriftIsSimilar == Spec => []DriftBySimilarity
<1>1. AddInv => DriftBySimilarity
  BY DEF AddInv, CoreInv, HistoryOK
<1>2. QED
  BY <1>1, InvHolds, PTL

\* However many clients interleave, a link never leads from a user's memory to one
\* that was never theirs.
THEOREM LinksStay == Spec => []LinksStayWithUser
<1>1. AddInv => LinksStayWithUser
  BY DEF AddInv, LinksOK
<1>2. QED
  BY <1>1, InvHolds, PTL

-----------------------------------------------------------------------------
(* What the users see implements MemoryPool.                               *)

\* the facts seen in the ids other than i
SeenBut(i) ==
  {<<Current(j).content, Current(j).user>> : j \in {k \in Id \ {i} : Visible(k)}}

SeenAt(i) == <<Current(i).content, Current(i).user>>

\* A write of one id replaces the fact seen there, if any, by the one written, if
\* that is asserted.
LEMMA WriteChangesOneFact ==
  ASSUME ItemsOK, NEW i \in Id, NEW v \in Version, PutMemory(i, v)
  PROVE  /\ Visible(i) => SeenAt(i) \in Seen /\ Seen = SeenBut(i) \cup {SeenAt(i)}
         /\ ~Visible(i) => Seen = SeenBut(i)
         /\ v.op = "ASSERT" => Seen' = SeenBut(i) \cup {<<v.content, v.user>>}
         /\ v.op # "ASSERT" => Seen' = SeenBut(i)
<1>1. Visible(i) => SeenAt(i) \in Seen /\ Seen = SeenBut(i) \cup {SeenAt(i)}
  BY DEF Seen, SeenBut, SeenAt
<1>2. ~Visible(i) => Seen = SeenBut(i)
  BY DEF Seen, SeenBut
<1>3. \A j \in Id \ {i} : Visible(j)' = Visible(j) /\ Current(j)' = Current(j)
  BY PutMemoryAdds DEF Visible, Current
<1>4. Current(i)' = v /\ items'[i] # <<>>
  <2>1. items'[i] \in Seq(Version) /\ Len(items'[i]) = Len(items[i]) + 1 /\ Len(items[i]) \in Nat
    BY PutMemoryAdds DEF ItemsOK
  <2>2. QED
    BY <2>1, PutMemoryAdds DEF Current
<1>5. Visible(i)' <=> v.op = "ASSERT"
  BY <1>4 DEF Visible
<1>6. SeenBut(i)' = SeenBut(i)
  BY <1>3 DEF SeenBut
<1>7. (Visible(i) => Seen = SeenBut(i) \cup {SeenAt(i)})' /\ (~Visible(i) => Seen = SeenBut(i))'
  <2>1. (Visible(i) => Seen = SeenBut(i) \cup {SeenAt(i)})'
    BY DEF Seen, SeenBut, SeenAt
  <2>2. (~Visible(i) => Seen = SeenBut(i))'
    BY DEF Seen, SeenBut
  <2>3. QED
    BY <2>1, <2>2
<1>8. SeenAt(i)' = <<v.content, v.user>>
  BY <1>4 DEF SeenAt
<1>9. QED
  BY <1>1, <1>2, <1>5, <1>6, <1>7, <1>8

\* Writing an asserted version is a step of the pool if the user it is written for
\* may replace what is seen there.
LEMMA AssertIsPoolStep ==
  ASSUME ItemsOK, NEW i \in Id, NEW v \in Version, PutMemory(i, v), v.op = "ASSERT",
         Visible(i) => v.user = NoUser \/ Current(i).user \in {v.user, NoUser}
  PROVE  Pool!PoolNext
<1> DEFINE new == <<v.content, v.user>>
<1>1. Seen' = SeenBut(i) \cup {new} /\ v.content \in Content /\ v.user \in User \cup {NoUser}
  BY WriteChangesOneFact DEF Version, Owner
<1>2. CASE ~Visible(i) \/ SeenAt(i) \in SeenBut(i)
  <2>1. Seen' = Seen \cup {new}
    BY <1>1, <1>2, WriteChangesOneFact
  <2>2. Pool!Remember(v.content, v.user)
    BY <2>1 DEF Pool!Remember
  <2>3. QED
    BY <1>1, <2>2 DEF Pool!PoolNext
<1>3. CASE Visible(i) /\ SeenAt(i) \notin SeenBut(i)
  <2>1. SeenAt(i) \in Seen /\ Seen' = (Seen \ {SeenAt(i)}) \cup {new}
    BY <1>1, <1>3, WriteChangesOneFact
  <2>2. SeenAt(i)[2] = Current(i).user
    BY DEF SeenAt
  <2>3. Pool!Replace(SeenAt(i), v.content, v.user)
    BY <1>3, <2>1, <2>2 DEF Pool!Replace, Pool!MayReplace
  <2>4. QED
    BY <1>1, <2>1, <2>3 DEF Pool!PoolNext
<1>4. QED
  BY <1>2, <1>3

\* Retracting takes at most one fact away.
LEMMA RetractIsPoolStep ==
  ASSUME ItemsOK, NEW i \in Id, NEW v \in Version, PutMemory(i, v), v.op # "ASSERT"
  PROVE  Pool!PoolNext \/ UNCHANGED Seen
<1>1. Seen' = SeenBut(i)
  BY WriteChangesOneFact
<1>2. CASE ~Visible(i) \/ SeenAt(i) \in SeenBut(i)
  BY <1>1, <1>2, WriteChangesOneFact
<1>3. CASE Visible(i) /\ SeenAt(i) \notin SeenBut(i)
  <2>1. SeenAt(i) \in Seen /\ Seen' = Seen \ {SeenAt(i)}
    BY <1>1, <1>3, WriteChangesOneFact
  <2>2. Pool!Forget(SeenAt(i))
    BY <2>1 DEF Pool!Forget
  <2>3. QED
    BY <2>1, <2>2 DEF Pool!PoolNext
<1>4. QED
  BY <1>2, <1>3

\* Any version of a memory was written for the user seen now, or for nobody, or what is
\* seen now belongs to nobody.
LEMMA VersionOwner ==
  ASSUME CoreInv, NEW i \in Id, NEW n \in DOMAIN items[i], Visible(i)
  PROVE  items[i][n].user = NoUser \/ Current(i).user \in {items[i][n].user, NoUser}
<1>1. items[i] \in Seq(Version) /\ items[i] # <<>>
  BY DEF Visible, CoreInv, ItemsOK
<1>2. Len(items[i]) \in DOMAIN items[i] /\ Current(i) = items[i][Len(items[i])]
  BY <1>1 DEF Current
<1>3. QED
  BY <1>2 DEF CoreInv, HistoryOK, OneOwner

\* So was what a call holds.
LEMMA HeldOwner ==
  ASSUME CoreInv, NEW cl \in Client, Holds(cl), Visible(call[cl].id)
  PROVE  LET base == call[cl].base
             seen == Current(call[cl].id)
         IN  base.user = NoUser \/ seen.user \in {base.user, NoUser}
<1>1. call[cl].id \in Id
  BY DEF Holds
<1>2. PICK n \in DOMAIN items[call[cl].id] : items[call[cl].id][n] = call[cl].base
  BY DEF Holds
<1>3. QED
  BY <1>1, <1>2, VersionOwner

\* A reinforcement brings the fact it reinforces.
LEMMA ReinforceIsPoolStep ==
  ASSUME CoreInv, NEW cl \in Client, Reinforce(cl)
  PROVE  Pool!PoolNext
<1> DEFINE i == call[cl].id
           b == call[cl].base
           v == Mentioned(b, call[cl].content)
<1>1. /\ Holds(cl) /\ ItemsOK /\ i \in Id /\ b \in Version /\ call[cl].content \in Content
      /\ PutMemory(i, v)
  BY ReinforceWrites
<1>2. v \in Version /\ v.op = "ASSERT" /\ v.user = b.user
  BY <1>1, MentionedVersion
<1>3. QED
  BY <1>1, <1>2, HeldOwner, AssertIsPoolStep

\* An update brings one fact for another, of the same user or of nobody.
LEMMA UpdateIsPoolStep ==
  ASSUME CoreInv, NEW cl \in Client, Update(cl)
  PROVE  Pool!PoolNext
<1> DEFINE i == call[cl].id
           b == call[cl].base
           u == call[cl].user
           v == Updated(b, call[cl].content, u)
<1>1. /\ Holds(cl) /\ ItemsOK /\ i \in Id /\ call[cl].content \in Content /\ u \in Owner
      /\ Matches(b, u)
  BY DEF Update, CoreInv, CallsOK, CallOK, Holds, Call
<1>2. b \in Version
  BY <1>1 DEF Holds, ItemsOK
<1>3. v \in Version /\ v.op = "ASSERT" /\ v.user = u
  BY <1>1, <1>2, UpdatedVersion
<1>4. Visible(i) => v.user = NoUser \/ Current(i).user \in {v.user, NoUser}
  BY <1>1, <1>3, HeldOwner DEF Matches
<1>5. PutMemory(i, v)
  BY DEF Update, Updated
<1>6. QED
  BY <1>1, <1>3, <1>4, <1>5, AssertIsPoolStep

\* A new memory brings one fact.
LEMMA NewIsPoolStep ==
  ASSUME ItemsOK, NEW i \in Id, items[i] = <<>>, NEW c \in Content, NEW u \in Owner,
         PutMemory(i, NewVersion(c, u))
  PROVE  Pool!PoolNext
<1> DEFINE v == NewVersion(c, u)
<1>1. v \in Version /\ v.op = "ASSERT"
  BY DEF NewVersion, Version
<1>2. ~Visible(i)
  BY DEF Visible
<1>3. QED
  BY <1>1, <1>2, AssertIsPoolStep

\* A delete takes a fact, unless nothing was visible.
LEMMA DeleteIsPoolStep ==
  ASSUME ItemsOK, NEW i \in Id, InvalidateMemory(i)
  PROVE  Pool!PoolNext \/ UNCHANGED Seen
<1>1. CASE Visible(i)
  <2> DEFINE v == [Current(i) EXCEPT !.op = "RETRACT"]
  <2>1. PutMemory(i, v)
    BY <1>1 DEF InvalidateMemory
  <2>2. items[i] \in Seq(Version) /\ items[i] # <<>>
    BY <1>1 DEF ItemsOK, Visible
  <2>3. Current(i) \in Version
    BY <2>2 DEF Current
  <2>4. v \in Version /\ v.op # "ASSERT"
    BY <2>3 DEF Version
  <2>5. QED
    BY <2>1, <2>4, RetractIsPoolStep
<1>2. CASE ~Visible(i)
  BY <1>2 DEF InvalidateMemory, Seen, Visible, Current
<1>3. QED
  BY <1>1, <1>2

\* What is seen depends on the items only.
LEMMA SameStoreSeesSame == ASSUME UNCHANGED items PROVE UNCHANGED Seen
  BY DEF Seen, Visible, Current

\* Any step of add_memory, on its own or as part of another tool.
LEMMA AddIsPoolStep ==
  ASSUME CoreInv, NEW cl \in Client,
         \/ AddSteps(cl)
         \/ \E c \in Content, u \in Owner : StartAdd(cl, c, u)
  PROVE  Pool!PoolNext \/ UNCHANGED Seen
<1>1. ASSUME NEW c \in Content, NEW u \in Owner, StartAdd(cl, c, u) PROVE UNCHANGED Seen
  BY <1>1, SameStoreSeesSame DEF StartAdd, storeVars
<1>2. CASE SearchSimilar(cl)
  BY <1>2, SameStoreSeesSame DEF SearchSimilar, storeVars
<1>3. CASE Link(cl)
  BY <1>3, SameStoreSeesSame DEF Link
<1>4. CASE Fail(cl)
  BY <1>4, SameStoreSeesSame DEF Fail, storeVars
<1>5. CASE Reinforce(cl) \/ Update(cl)
  BY <1>5, ReinforceIsPoolStep, UpdateIsPoolStep
<1>6. CASE Store(cl)
  <2>1. ItemsOK /\ call[cl].content \in Content /\ call[cl].user \in Owner
    BY <1>6 DEF Store, CoreInv, CallsOK, CallOK, Call
  <2>2. PICK i \in Id : items[i] = <<>> /\ PutMemory(i, NewVersion(call[cl].content, call[cl].user))
    BY <1>6 DEF Store
  <2>3. QED
    BY <2>1, <2>2, NewIsPoolStep
<1>7. QED
  BY <1>1, <1>2, <1>3, <1>4, <1>5, <1>6 DEF AddSteps

\* Every step is a step of the pool, or none.
LEMMA StepIsPoolStep == CoreInv /\ [Next]_vars => [Pool!PoolNext]_Seen
<1>1. SUFFICES ASSUME CoreInv, [Next]_vars PROVE Pool!PoolNext \/ UNCHANGED Seen
  OBVIOUS
<1>2. ASSUME NEW cl \in Client,
             \/ AddSteps(cl)
             \/ \E c \in Content, u \in Owner : StartAdd(cl, c, u)
      PROVE  Pool!PoolNext \/ UNCHANGED Seen
  BY <1>1, <1>2, AddIsPoolStep
<1>3. ASSUME NEW cl \in Client, NEW i \in Id, Delete(cl, i)
      PROVE  Pool!PoolNext \/ UNCHANGED Seen
  BY <1>1, <1>3, DeleteIsPoolStep DEF Delete, CoreInv
<1>4. CASE UNCHANGED vars
  BY <1>4, SameStoreSeesSame DEF vars, storeVars
<1>5. QED
  BY <1>1, <1>2, <1>3, <1>4 DEF Next, AddSteps

\* The pool is empty initially.
LEMMA InitIsPoolInit == Init => Pool!PoolInit
  BY DEF Init, StoreInit, Pool!PoolInit, Seen, Visible

\* However many clients interleave, whatever fails or is deleted, what the users see
\* changes as MemoryPool promises: one fact at a time, and a call made for a user
\* takes away a fact of that user or of nobody only.
THEOREM ImplementsPool == Spec => RefinesPool
<1>1. AddInv => CoreInv
  BY DEF AddInv
<1>2. QED
  BY <1>1, InitIsPoolInit, InvHolds, StepIsPoolStep, PTL DEF Spec, RefinesPool, Pool!PoolSpec

-----------------------------------------------------------------------------
(***************************************************************************)
(* NoDuplicate.  What find_by_hash told a call stays true until the call   *)
(* writes, because in between the other clients can only delete; and the   *)
(* calls come one at a time.                                               *)
(***************************************************************************)
Shows(i, c, u) ==
  Visible(i) /\ Hash[Current(i).content] = Hash[c] /\ Current(i).user = u

Unique == \A i, j \in Id : \A c, u : Shows(i, c, u) /\ Shows(j, c, u) => i = j

OneAtATime == \A cl, o \in Client : ~Idle(cl) /\ ~Idle(o) => cl = o

\* no id but the one cl is about to write shows what cl is about to write
Clear(cl) ==
  /\ call[cl].at \in {"search", "update", "store"} =>
       \A j \in Id : ~Shows(j, call[cl].content, call[cl].user)
  /\ call[cl].at = "reinforce" =>
       \A j \in Id \ {call[cl].id} : ~Shows(j, call[cl].base.content, call[cl].base.user)

SoleInv == ~overlapped => Unique /\ OneAtATime /\ \A cl \in Client : Clear(cl)

DupInv == CoreInv /\ SoleInv

\* The second invariant has the property in it.
LEMMA UniqueIsNoDuplicate == SoleInv => NoDuplicate
  BY DEF SoleInv, Unique, NoDuplicate, Shows

\* A write changes what one id shows.
LEMMA WriteShows ==
  ASSUME ItemsOK, NEW i \in Id, NEW v \in Version, PutMemory(i, v)
  PROVE  /\ \A j \in Id \ {i} : \A c, u : Shows(j, c, u)' <=> Shows(j, c, u)
         /\ \A c, u : Shows(i, c, u)' <=>
              v.op = "ASSERT" /\ Hash[v.content] = Hash[c] /\ v.user = u
<1>1. \A j \in Id \ {i} : items'[j] = items[j]
  BY PutMemoryAdds
<1>2. items'[i] # <<>> /\ Current(i)' = v
  <2>1. items'[i] \in Seq(Version) /\ Len(items'[i]) = Len(items[i]) + 1 /\ Len(items[i]) \in Nat
    BY PutMemoryAdds DEF ItemsOK
  <2>2. QED
    BY <2>1, PutMemoryAdds DEF Current
<1>3. QED
  BY <1>1, <1>2 DEF Shows, Visible, Current

\* A write keeps Unique if no other id shows what it writes.
LEMMA WriteKeepsUnique ==
  ASSUME ItemsOK, Unique, NEW i \in Id, NEW v \in Version, PutMemory(i, v),
         v.op = "ASSERT" => \A j \in Id \ {i} : ~Shows(j, v.content, v.user)
  PROVE  Unique'
<1>1. SUFFICES ASSUME NEW j \in Id, NEW k \in Id, NEW c, NEW u,
                      Shows(j, c, u)', Shows(k, c, u)', j # k
               PROVE  FALSE
  BY DEF Unique
<1>2. CASE j # i /\ k # i
  BY <1>1, <1>2, WriteShows DEF Unique
<1>3. ASSUME NEW o \in Id \ {i}, Shows(o, c, u)', Shows(i, c, u)'
      PROVE  FALSE
  <2>1. Shows(o, c, u) /\ v.op = "ASSERT" /\ Hash[v.content] = Hash[c] /\ v.user = u
    BY <1>3, WriteShows
  <2>2. Shows(o, v.content, v.user)
    BY <2>1 DEF Shows
  <2>3. QED
    BY <2>1, <2>2
<1>4. CASE j = i \/ k = i
  BY <1>1, <1>3, <1>4
<1>5. QED
  BY <1>2, <1>4

\* The step of a call that writes and returns, or has nothing left to write.
LEMMA WriteKeepsSole ==
  ASSUME DupInv, NEW cl \in Client, ~Idle(cl), UNCHANGED overlapped,
         NEW i \in Id, NEW v \in Version, PutMemory(i, v), v.op = "ASSERT",
         ~overlapped => \A j \in Id \ {i} : ~Shows(j, v.content, v.user),
         \A o \in Client \ {cl} : call'[o] = call[o],
         call'[cl].at \in {"idle", "link"}
  PROVE  SoleInv'
<1>1. SUFFICES ASSUME ~overlapped
               PROVE  Unique' /\ OneAtATime' /\ \A o \in Client : Clear(o)'
  BY DEF SoleInv
<1>2. Unique'
  BY <1>1, WriteKeepsUnique DEF DupInv, CoreInv, SoleInv
<1>3. \A o \in Client \ {cl} : Idle(o)
  BY <1>1 DEF DupInv, SoleInv, OneAtATime
<1>4. \A o \in Client \ {cl} : call'[o].at = "idle"
  BY <1>3 DEF Idle
<1>5. OneAtATime'
  BY <1>4 DEF OneAtATime, Idle
<1>6. \A o \in Client : Clear(o)'
  BY <1>4 DEF Clear
<1>7. QED
  BY <1>2, <1>5, <1>6

\* One client returns.
LEMMA ReturnOnlyMe ==
  ASSUME CallsOK, NEW cl \in Client, Return(cl)
  PROVE  call'[cl].at = "idle" /\ \A o \in Client \ {cl} : call'[o] = call[o]
  BY DEF CallsOK, Return, NoCall

\* A step that leaves the store alone and gives no client a new task.
LEMMA QuietKeepsSole ==
  ASSUME SoleInv, UNCHANGED <<items, overlapped>>,
         \A o \in Client : call'[o] = call[o] \/ call'[o].at = "idle"
  PROVE  SoleInv'
<1>1. SUFFICES ASSUME ~overlapped
               PROVE  Unique' /\ OneAtATime' /\ \A o \in Client : Clear(o)'
  BY DEF SoleInv
<1>2. Unique'
  BY <1>1 DEF SoleInv, Unique, Shows, Visible, Current
<1>3. OneAtATime'
  BY <1>1 DEF SoleInv, OneAtATime, Idle
<1>4. ASSUME NEW o \in Client PROVE Clear(o)'
  <2>1. CASE call'[o] = call[o]
    BY <1>1, <2>1 DEF SoleInv, Clear, Shows, Visible, Current
  <2>2. CASE call'[o].at = "idle"
    BY <2>2 DEF Clear
  <2>3. QED
    BY <2>1, <2>2
<1>5. QED
  BY <1>2, <1>3, <1>4

\* find_by_hash: without a match, no visible memory of the user has the content.
LEMMA StartAddKeepsSole ==
  ASSUME DupInv, NEW cl \in Client, NEW c \in Content, NEW u \in Owner, StartAdd(cl, c, u)
  PROVE  SoleInv'
<1>1. SUFFICES ASSUME ~overlapped'
               PROVE  Unique' /\ OneAtATime' /\ \A o \in Client : Clear(o)'
  BY DEF SoleInv
<1>2. /\ ~overlapped /\ Idle(cl) /\ \A o \in Client \ {cl} : Idle(o)
      /\ UNCHANGED items
  BY <1>1 DEF StartAdd, storeVars
<1>3. Unique /\ ItemsOK /\ call \in [Client -> Call]
  BY <1>2 DEF DupInv, CoreInv, CallsOK, SoleInv
<1>4. Unique'
  BY <1>2, <1>3 DEF Unique, Shows, Visible, Current
<1>5. \A o \in Client \ {cl} : call'[o] = call[o] /\ call'[o].at = "idle"
  BY <1>2, <1>3 DEF StartAdd, Idle
<1>6. OneAtATime'
  BY <1>5 DEF OneAtATime, Idle
<1>7. Clear(cl)'
  <2>1. ASSUME NEW i \in FindByHash(c, u),
               call' = [call EXCEPT ![cl] = [at |-> "reinforce", content |-> c, user |-> u,
                                             id |-> i, base |-> Current(i)]]
        PROVE  Clear(cl)'
    <3>1. /\ call'[cl].at = "reinforce" /\ call'[cl].id = i
          /\ call'[cl].base = Current(i)
      BY <1>3, <2>1
    <3>2. i \in Id /\ Shows(i, Current(i).content, Current(i).user)
      BY DEF FindByHash, Shows
    <3>3. \A j \in Id \ {i} : ~Shows(j, Current(i).content, Current(i).user)
      BY <1>3, <3>2 DEF Unique
    <3>4. QED
      BY <1>2, <3>1, <3>3 DEF Clear, Shows, Visible, Current
  <2>2. ASSUME FindByHash(c, u) = {},
               call' = [call EXCEPT ![cl] = [at |-> "search", content |-> c, user |-> u,
                                             id |-> None, base |-> None]]
        PROVE  Clear(cl)'
    <3>1. call'[cl].at = "search" /\ call'[cl].content = c /\ call'[cl].user = u
      BY <1>3, <2>2
    <3>2. \A j \in Id : ~Shows(j, c, u)
      BY <2>2 DEF FindByHash, Shows, Matches
    <3>3. QED
      BY <1>2, <3>1, <3>2 DEF Clear, Shows, Visible, Current
  <2>3. QED
    BY <2>1, <2>2 DEF StartAdd
<1>8. \A o \in Client : Clear(o)'
  BY <1>5, <1>7 DEF Clear
<1>9. QED
  BY <1>4, <1>6, <1>8

\* A search changes nothing.
LEMMA SearchSimilarKeepsSole ==
  ASSUME DupInv, NEW cl \in Client, SearchSimilar(cl)
  PROVE  SoleInv'
<1>1. SUFFICES ASSUME ~overlapped
               PROVE  Unique' /\ OneAtATime' /\ \A o \in Client : Clear(o)'
  BY DEF SoleInv, SearchSimilar
<1>2. /\ call[cl].at = "search" /\ call[cl].user \in Owner /\ UNCHANGED items
      /\ CallsOK /\ ItemsOK
  BY DEF SearchSimilar, DupInv, CoreInv, CallsOK, Call, storeVars
<1>3. Unique /\ OneAtATime /\ \A o \in Client : Clear(o)
  BY <1>1 DEF DupInv, SoleInv
<1>4. PICK new \in Call : /\ call' = [call EXCEPT ![cl] = new] /\ call'[cl] = new
                          /\ new.at \in {"update", "store"}
                          /\ new.content = call[cl].content /\ new.user = call[cl].user
  <2>1. CASE Proceed(cl, "store", None, None)
    BY <1>2, <2>1, ProceedMoves DEF Phase
  <2>2. ASSUME NEW h \in Index(call[cl].user), Proceed(cl, "update", h[1], Hit(h))
        PROVE  \E new \in Call :
                 /\ call' = [call EXCEPT ![cl] = new] /\ call'[cl] = new
                 /\ new.at \in {"update", "store"}
                 /\ new.content = call[cl].content /\ new.user = call[cl].user
    <3>1. h[1] \in Id /\ Hit(h) \in Version
      BY <1>2, HitIsVersion
    <3>2. QED
      BY <1>2, <2>2, <3>1, ProceedMoves DEF Phase
  <2>3. QED
    BY <2>1, <2>2, SearchReturnsHits DEF SearchSimilar
<1>5. Unique'
  BY <1>2, <1>3 DEF Unique, Shows, Visible, Current
<1>6. \A o \in Client \ {cl} : call'[o] = call[o] /\ call[o].at = "idle"
  BY <1>2, <1>3, <1>4 DEF CallsOK, OneAtATime, Idle
<1>7. OneAtATime'
  BY <1>6 DEF OneAtATime, Idle
<1>8. Clear(cl)'
  BY <1>2, <1>3, <1>4 DEF Clear, Shows, Visible, Current
<1>9. \A o \in Client : Clear(o)'
  BY <1>6, <1>8 DEF Clear
<1>10. QED
  BY <1>5, <1>7, <1>9

\* A reinforcement makes nothing visible but what has the content already.
LEMMA ReinforceKeepsSole ==
  ASSUME DupInv, NEW cl \in Client, Reinforce(cl)
  PROVE  SoleInv'
<1> DEFINE i == call[cl].id
           b == call[cl].base
           v == Mentioned(b, call[cl].content)
<1>1. /\ ItemsOK /\ CallsOK /\ i \in Id /\ ~Idle(cl)
      /\ b \in Version /\ call[cl].content \in Content
      /\ PutMemory(i, v) /\ Return(cl) /\ UNCHANGED overlapped
  BY ReinforceWrites DEF Reinforce, DupInv, CoreInv, Idle
<1>2. /\ v \in Version /\ v.op = "ASSERT"
      /\ v.user = b.user /\ Hash[v.content] = Hash[b.content]
  BY <1>1, MentionedVersion
<1>3. ~overlapped => \A j \in Id \ {i} : ~Shows(j, b.content, b.user)
  BY DEF DupInv, SoleInv, Clear, Reinforce
<1>4. ~overlapped => \A j \in Id \ {i} : ~Shows(j, v.content, v.user)
  BY <1>2, <1>3 DEF Shows
<1>5. QED
  BY <1>1, <1>2, <1>4, ReturnOnlyMe, WriteKeepsSole

\* An update writes a content that no visible memory of the user has.
LEMMA UpdateKeepsSole ==
  ASSUME DupInv, NEW cl \in Client, Update(cl)
  PROVE  SoleInv'
<1> DEFINE i == call[cl].id
           b == call[cl].base
           c == call[cl].content
           u == call[cl].user
           v == Updated(b, c, u)
<1>1. /\ Holds(cl) /\ ItemsOK /\ CallsOK /\ i \in Id /\ ~Idle(cl)
      /\ c \in Content /\ u \in Owner
      /\ PutMemory(i, v) /\ Return(cl) /\ UNCHANGED overlapped
  BY DEF Update, Updated, DupInv, CoreInv, CallsOK, CallOK, Call, Holds, Idle
<1>2. b \in Version
  BY <1>1 DEF Holds, ItemsOK
<1>3. v \in Version /\ v.op = "ASSERT" /\ v.user = u /\ v.content = c
  BY <1>1, <1>2, UpdatedVersion
<1>4. ~overlapped => \A j \in Id \ {i} : ~Shows(j, c, u)
  BY DEF DupInv, SoleInv, Clear, Update
<1>5. QED
  BY <1>1, <1>3, <1>4, ReturnOnlyMe, WriteKeepsSole

\* A new memory has a content that no visible memory of the user has.
LEMMA StoreKeepsSole ==
  ASSUME DupInv, NEW cl \in Client, Store(cl)
  PROVE  SoleInv'
<1> DEFINE c == call[cl].content
           u == call[cl].user
           v == NewVersion(c, u)
<1>1. /\ ItemsOK /\ CallsOK /\ c \in Content /\ u \in Owner /\ ~Idle(cl)
      /\ UNCHANGED overlapped
  BY DEF Store, DupInv, CoreInv, CallsOK, CallOK, Call, Idle
<1>2. PICK i \in Id : PutMemory(i, v) /\ Proceed(cl, "link", i, None)
  BY DEF Store
<1>3. v \in Version /\ v.op = "ASSERT" /\ v.user = u /\ v.content = c
  BY <1>1 DEF NewVersion, Version
<1>4. ~overlapped => \A j \in Id \ {i} : ~Shows(j, c, u)
  BY DEF DupInv, SoleInv, Clear, Store
<1>5. call'[cl].at = "link" /\ \A o \in Client \ {cl} : call'[o] = call[o]
  BY <1>1, <1>2, ProceedMoves DEF Phase, CallsOK
<1>6. QED
  BY <1>1, <1>2, <1>3, <1>4, <1>5, WriteKeepsSole

\* A retraction shows nothing new.
LEMMA RetractHides ==
  ASSUME ItemsOK, NEW i \in Id, InvalidateMemory(i)
  PROVE  \A j \in Id : \A c, u : Shows(j, c, u)' => Shows(j, c, u)
<1>1. ASSUME NEW v \in Version, PutMemory(i, v), v.op = "RETRACT",
             NEW j \in Id, NEW c, NEW u, Shows(j, c, u)'
      PROVE  Shows(j, c, u)
  <2>1. j # i
    BY <1>1, WriteShows
  <2>2. QED
    BY <1>1, <2>1, WriteShows
<1>2. CASE UNCHANGED items
  BY <1>2 DEF Shows, Visible, Current
<1>3. QED
  BY <1>1, <1>2, RetractWrites

\* A delete by anybody makes a memory invisible only.
LEMMA InvalidateKeepsSole ==
  ASSUME DupInv, NEW i \in Id, InvalidateMemory(i), UNCHANGED <<call, overlapped>>
  PROVE  SoleInv'
<1>1. SUFFICES ASSUME ~overlapped
               PROVE  Unique' /\ OneAtATime' /\ \A o \in Client : Clear(o)'
  BY DEF SoleInv
<1>2. \A j \in Id : \A c, u : Shows(j, c, u)' => Shows(j, c, u)
  BY RetractHides DEF DupInv, CoreInv
<1>3. Unique'
  BY <1>1, <1>2 DEF DupInv, SoleInv, Unique
<1>4. OneAtATime'
  BY <1>1 DEF DupInv, SoleInv, OneAtATime, Idle
<1>5. \A o \in Client : Clear(o)'
  BY <1>1, <1>2 DEF DupInv, SoleInv, Clear
<1>6. QED
  BY <1>3, <1>4, <1>5

\* Any step of add_memory after the first.
LEMMA AddStepsKeepSole ==
  ASSUME DupInv, NEW cl \in Client, AddSteps(cl)
  PROVE  SoleInv'
<1>1. CASE Link(cl) \/ Fail(cl)
  <2>1. UNCHANGED <<items, overlapped>> /\ Return(cl)
    BY <1>1 DEF Link, Fail, storeVars
  <2>2. QED
    BY <2>1, ReturnOnlyMe, QuietKeepsSole DEF DupInv, CoreInv
<1>2. QED
  BY <1>1, ReinforceKeepsSole, SearchSimilarKeepsSole, UpdateKeepsSole, StoreKeepsSole
     DEF AddSteps

\* Both invariants hold after every step.
LEMMA StepKeepsDup == DupInv /\ [Next]_vars => DupInv'
<1>1. SUFFICES ASSUME DupInv, [Next]_vars PROVE SoleInv'
  BY StepKeepsCore DEF DupInv
<1>2. ASSUME NEW cl \in Client, NEW c \in Content, NEW u \in Owner, StartAdd(cl, c, u)
      PROVE  SoleInv'
  BY <1>1, <1>2, StartAddKeepsSole
<1>3. ASSUME NEW cl \in Client, AddSteps(cl) PROVE SoleInv'
  BY <1>1, <1>3, AddStepsKeepSole
<1>4. ASSUME NEW cl \in Client, NEW i \in Id, Delete(cl, i) PROVE SoleInv'
  BY <1>1, <1>4, InvalidateKeepsSole DEF Delete
<1>5. CASE UNCHANGED vars
  BY <1>1, <1>5, QuietKeepsSole DEF DupInv, vars, storeVars
<1>6. QED
  BY <1>1, <1>2, <1>3, <1>4, <1>5 DEF Next, AddSteps

\* The second invariant holds initially.
LEMMA InitSole == Init => SoleInv
<1>1. SUFFICES ASSUME Init PROVE Unique /\ OneAtATime /\ \A cl \in Client : Clear(cl)
  BY DEF SoleInv
<1>2. \A i \in Id : ~Visible(i)
  BY <1>1 DEF Init, StoreInit, Visible
<1>3. \A cl \in Client : call[cl].at = "idle"
  BY <1>1 DEF Init, NoCall
<1>4. QED
  BY <1>2, <1>3 DEF Unique, Shows, OneAtATime, Idle, Clear

\* As long as no two add_memory calls overlap, no user ever sees one content twice,
\* for any number of users and contents, and whatever clients delete while a call
\* is under way.
THEOREM NoDuplicates == Spec => []NoDuplicate
<1>1. Init => DupInv
  BY InitSole, InitInv DEF DupInv, AddInv
<1>2. DupInv => NoDuplicate
  BY UniqueIsNoDuplicate DEF DupInv
<1>3. QED
  BY <1>1, <1>2, StepKeepsDup, PTL DEF Spec
=============================================================================
