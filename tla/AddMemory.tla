----------------------------- MODULE AddMemory -----------------------------
(***************************************************************************)
(* The add_memory and delete_memory tools, run by several clients at once. *)
(* ToolExecutor takes &self and holds no lock: between any two calls one   *)
(* client makes to the store, any other client may make its own.  So each  *)
(* call to the store is one action, and what a client read before it is    *)
(* kept in `call' until it is used.                                        *)
(*                                                                         *)
(* Every client passes the default confidence, so a score depends on the   *)
(* two contents only.                                                      *)
(***************************************************************************)
EXTENDS MemoryStore

CONSTANTS
  Client,       \* threads that call the executor
  Reembedded,   \* [Content \X Content -> Content]: the text and the hash of the first,
                \* with the vector of the second
  None,         \* what a call does not have yet
  MaxVersions   \* bound: versions ever written to mem_items

ASSUME ClientAssumption == None \notin Id \cup Content \cup Version /\ MaxVersions \in Nat

ASSUME EmbeddingAssumption ==
  /\ Reembedded \in [Content \X Content -> Content]
  /\ \A c, d \in Content : Hash[Reembedded[<<c, d>>]] = Hash[c]
  /\ \A c \in Content : Reembedded[<<c, c>>] = c

VARIABLES
  call,         \* what each client is doing
  overlapped    \* history: has a call of add_memory begun while another ran?

vars == <<storeVars, call, overlapped>>

Phase == {"idle", "reinforce", "search", "update", "store", "link"}

Call ==
  [at      : Phase,
   content : Content \cup {None},
   user    : Owner,
   id      : Id \cup {None},        \* existing.id, or the id of the new memory
   base    : Version \cup {None}]   \* `existing', the version the call has read

NoCall == [at |-> "idle", content |-> None, user |-> NoUser, id |-> None, base |-> None]

Idle(cl) == call[cl].at = "idle"

Init ==
  /\ StoreInit
  /\ call = [cl \in Client |-> NoCall]
  /\ overlapped = FALSE

Written == Index(NoUser)
CanWrite == Cardinality(Written) < MaxVersions

\* the call of cl goes on at phase p, holding version base of id i
Proceed(cl, p, i, base) ==
  call' = [call EXCEPT ![cl] = [@ EXCEPT !.at = p, !.id = i, !.base = base]]

Return(cl) == call' = [call EXCEPT ![cl] = NoCall]

-----------------------------------------------------------------------------
(* add_memory                                                              *)

\* 1. Exact dedup: find_by_hash.
StartAdd(cl, c, u) ==
  /\ Idle(cl)
  /\ \/ \E i \in FindByHash(c, u) :
          call' = [call EXCEPT ![cl] = [at |-> "reinforce", content |-> c, user |-> u,
                                        id |-> i, base |-> Current(i)]]
     \/ /\ FindByHash(c, u) = {}
        /\ call' = [call EXCEPT ![cl] = [at |-> "search", content |-> c, user |-> u,
                                         id |-> None, base |-> None]]
  /\ overlapped' = (overlapped \/ \E other \in Client : ~Idle(other))
  /\ UNCHANGED storeVars

\* Mutant: the count is bumped for the match and once more for the write.
ReinforcedTwice(v) == [v EXCEPT !.op = "ASSERT", !.count = @ + 2]

\* reinforcement_count + 1 on the metadata of the version read; put_memory asserts
\* whatever it writes
Reinforced(v) == [v EXCEPT !.op = "ASSERT", !.count = @ + 1]

\* The version read is written again, with its count bumped and the vector of what the
\* caller has said: that is its own text, unless it is the memory of a reminder.
Reinforce(cl) ==
  /\ call[cl].at = "reinforce"
  /\ CanWrite
  /\ PutMemory(call[cl].id,
               [Reinforced(call[cl].base) EXCEPT
                  !.content = Reembedded[<<call[cl].base.content, call[cl].content>>]])
  /\ Return(cl)
  /\ UNCHANGED <<edges, overlapped>>

\* Mutant: any hit is taken for a near duplicate.
NearAlways(v, c) == TRUE

\* is_near_duplicate || is_conflicting
NearDuplicate(v, c) == <<v.content, c>> \in Similar

\* 2. Semantic dedup: the first of three hits decides.
SearchSimilar(cl) ==
  LET c == call[cl].content
  IN  /\ call[cl].at = "search"
      /\ \E hits \in SearchSemantic(c, 3, call[cl].user) :
           \/ \E first \in hits :
                \/ /\ NearDuplicate(Hit(first), c)
                   /\ Proceed(cl, "update", first[1], Hit(first))
                \/ /\ ~NearDuplicate(Hit(first), c)
                   /\ Proceed(cl, "store", None, None)
           \/ hits = {} /\ Proceed(cl, "store", None, None)
      /\ UNCHANGED <<storeVars, overlapped>>

\* The hit's id gets the new content and the caller's user_id; its metadata are
\* those of the version the search returned.
Update(cl) ==
  /\ call[cl].at = "update"
  /\ CanWrite
  /\ PutMemory(call[cl].id,
               [Reinforced(call[cl].base) EXCEPT !.content = call[cl].content,
                                                 !.user = call[cl].user])
  /\ Return(cl)
  /\ UNCHANGED <<edges, overlapped>>

\* Mutant: a new memory starts with no mention at all.
NewVersionUncounted(c, u) ==
  [op |-> "ASSERT", content |-> c, user |-> u, count |-> 0, latest |-> TRUE]

NewVersion(c, u) ==
  [op |-> "ASSERT", content |-> c, user |-> u, count |-> 1, latest |-> TRUE]

\* 3. Store as new, under a fresh id.
Store(cl) ==
  /\ call[cl].at = "store"
  /\ CanWrite
  /\ \E i \in Id :
       /\ items[i] = <<>>
       /\ PutMemory(i, NewVersion(call[cl].content, call[cl].user))
       /\ Proceed(cl, "link", i, None)
  /\ UNCHANGED <<edges, overlapped>>

\* Edges to what a second search finds; writing an edge is best effort.
Link(cl) ==
  LET from == call[cl].id
      c == call[cl].content
  IN  /\ call[cl].at = "link"
      /\ \E hits \in SearchSemantic(c, 3, call[cl].user) :
           \E es \in SUBSET {[from |-> from, to |-> h[1], relation |-> "relates_to"] :
                               h \in {g \in hits : /\ g[1] # from
                                                   /\ <<Hit(g).content, c>> \in Related}} :
             PutEdges(es)
      /\ Return(cl)
      /\ UNCHANGED <<items, overlapped>>

\* The provider or the store returns Err and `?' ends the call; what was written
\* stays.
Fail(cl) ==
  /\ ~Idle(cl)
  /\ Return(cl)
  /\ UNCHANGED <<storeVars, overlapped>>

-----------------------------------------------------------------------------
(* delete_memory: one query, for any id, by anyone.                        *)
Delete(cl, i) ==
  /\ Idle(cl)
  /\ CanWrite
  /\ InvalidateMemory(i)
  /\ UNCHANGED <<edges, call, overlapped>>

-----------------------------------------------------------------------------
Next ==
  \E cl \in Client :
    \/ \E c \in Content, u \in Owner : StartAdd(cl, c, u)
    \/ Reinforce(cl)
    \/ SearchSimilar(cl)
    \/ Update(cl)
    \/ Store(cl)
    \/ Link(cl)
    \/ Fail(cl)
    \/ \E i \in Id : Delete(cl, i)

Spec == Init /\ [][Next]_vars

-----------------------------------------------------------------------------
(* Properties.                                                             *)

\* Every variable has its type; a memory has been mentioned at least once.
TypeOK ==
  /\ items \in [Id -> Seq(Version)]
  /\ \A i \in Id : \A n \in DOMAIN items[i] : items[i][n].count >= 1
  /\ edges \subseteq Edge
  /\ call \in [Client -> Call]
  /\ overlapped \in BOOLEAN

\* As long as no two add_memory calls have overlapped, no two visible memories of
\* one user have the same content: find_by_hash, the update of a near duplicate
\* and the new id leave no way to store a text twice, whatever was deleted,
\* reinforced, re-owned by unscoped calls or abandoned on the way.
NoDuplicate ==
  ~overlapped =>
    \A i, j \in Id :
      /\ Visible(i) /\ Visible(j)
      /\ Current(i).content = Current(j).content
      /\ Current(i).user = Current(j).user
      => i = j

\* Over its whole history a memory belongs to at most one named user, however
\* calls interleave: a call scoped to a user reads that user's versions only, and
\* only an unscoped call can write over another's (leaving it without owner).
OneOwner ==
  \A i \in Id : \A m, n \in DOMAIN items[i] :
    items[i][m].user # NoUser /\ items[i][n].user # NoUser
      => items[i][m].user = items[i][n].user

\* The reinforcement count of a version never exceeds the number of writes of its
\* id so far: no interleaving of reinforcements and updates counts one twice.
CountBounded ==
  \A i \in Id : \A n \in DOMAIN items[i] : items[i][n].count <= n

\* What add_memory may make of a stored content: one it is similar to, or the same text
\* with the vector of a text that has its hash.
Follows(stored, new) ==
  \/ <<stored, new>> \in Similar
  \/ \E c \in Content : Hash[c] = Hash[stored] /\ new = Reembedded[<<stored, c>>]

\* The content of a memory drifts by similarity only: each version's content is that of
\* an earlier version of the same id, perhaps with another vector, or an earlier one is
\* similar to it, even when what add_memory decided on was superseded or deleted before
\* it wrote.
DriftBySimilarity ==
  \A i \in Id : \A n \in DOMAIN items[i] :
    n > 1 => \E m \in 1 .. n - 1 : Follows(items[i][m].content, items[i][n].content)

\* A memory stored for a user is linked only to memories that have a version of
\* that user: search_graph follows edges without a user filter, so this is what
\* keeps a scoped user's graph to themselves.
LinksStayWithUser ==
  \A e \in edges :
    LET u == items[e.from][1].user
    IN  u # NoUser => \E n \in DOMAIN items[e.to] : items[e.to][n].user = u

\* What the users see is the pool of facts MemoryPool promises.
Seen == {<<Current(i).content, Current(i).user>> : i \in {j \in Id : Visible(j)}}
Pool == INSTANCE MemoryPool WITH pool <- Seen
RefinesPool == Pool!PoolSpec

-----------------------------------------------------------------------------
(* What the repository says and the code does not do.                      *)

\* "semantically similar memory updated": the content an update takes away from
\* the users is similar to the one that replaces it.
ReplacesOnlySimilar ==
  [][\A i \in Id :
       Visible(i) /\ Visible(i)' => <<Current(i).content, Current(i)'.content>> \in Similar]_items

\* "Hard-delete a memory by ID.": what was deleted stays deleted.
DeletedStaysDeleted ==
  [][\A i \in Id : items[i] # <<>> /\ ~Visible(i) => ~Visible(i)']_items
=============================================================================
