---------------------------- MODULE MemoryStore ----------------------------
(***************************************************************************)
(* The mem_items and mem_edges relations of MemoryStore and the operations *)
(* on them that the write tools use.                                       *)
(*                                                                         *)
(* mem_items is keyed by (id, vld : Validity): a write never replaces a    *)
(* row, it adds a version, asserted or retracted.  A query @ "NOW" sees    *)
(* the last version of an id, if that one is asserted.  The vector index   *)
(* has no notion of NOW: "with Validity schema, HNSW indexes all versions" *)
(* (search_semantic), so a search may return superseded and retracted      *)
(* versions, and several versions of one id.                               *)
(*                                                                         *)
(* Versions of one id are ordered by the time of the write; two writes of  *)
(* the same id never carry the same timestamp.                             *)
(***************************************************************************)
EXTENDS Naturals, Sequences, FiniteSets

CONSTANTS
  Id,        \* the ids Uuid::new_v4 may draw; it never draws one twice
  Content,   \* what clients may store: a text, with the vector it is found by
  User,      \* the user ids clients may pass
  NoUser,    \* an absent user_id, stored as ''
  Hash,      \* [Content -> Content]: the text whose SHA-256 hash is stored with a
             \* content; only the memory of a reminder has another text's
  Distance,  \* [Content \X Content -> Nat]: order of the embedding distances
  Similar,   \* pairs <<stored, new>> for which add_memory updates stored to new:
             \* score > 0.85, or > 0.70 with conflicting specifics
  Related    \* pairs whose score is > 0.5: add_memory links them

ASSUME StoreAssumption ==
  /\ NoUser \notin User
  /\ Hash \in [Content -> Content]
  /\ Distance \in [Content \X Content -> Nat]
  /\ Similar \subseteq Content \X Content
  /\ Related \subseteq Content \X Content
  /\ \A c \in Content : <<c, c>> \in Similar /\ Distance[<<c, c>>] = 0

VARIABLES
  items,     \* id -> its versions, oldest first
  edges      \* [from, to, relation]

storeVars == <<items, edges>>

Owner == User \cup {NoUser}

Version ==
  [op      : {"ASSERT", "RETRACT"},
   content : Content,
   user    : Owner,
   count   : Nat,       \* metadata.reinforcement_count, 1 when absent
   latest  : BOOLEAN]   \* metadata.is_latest, TRUE when absent

Edge == [from : Id, to : Id, relation : {"relates_to", "updates", "during_session"}]

StoreInit ==
  /\ items = [i \in Id |-> <<>>]
  /\ edges = {}

-----------------------------------------------------------------------------
(* Reads @ "NOW".                                                          *)

Current(i) == items[i][Len(items[i])]
Visible(i) == items[i] # <<>> /\ Current(i).op = "ASSERT"

Matches(v, u) == u = NoUser \/ v.user = u

\* Mutant: the hash is compared with that of the first version.
FindByFirstHash(c, u) ==
  {i \in Id : Visible(i) /\ Hash[items[i][1].content] = Hash[c] /\ Matches(Current(i), u)}

\* The rows find_by_hash may return: it asks for any one (:limit 1).
FindByHash(c, u) ==
  {i \in Id : Visible(i) /\ Hash[Current(i).content] = Hash[c] /\ Matches(Current(i), u)}

-----------------------------------------------------------------------------
(* The vector index.  A hit is a pair <<id, number of the version>>.       *)

\* Mutant: the user filter is forgotten.
IndexUnfiltered(u) == UNION {{i} \X DOMAIN items[i] : i \in Id}

\* The versions a search scoped to u may return.
Index(u) ==
  UNION {{i} \X {n \in DOMAIN items[i] : Matches(items[i][n], u)} : i \in Id}

Hit(h) == items[h[1]][h[2]]

\* The k nearest versions.  The query asks for no order, so neither does this.
SearchSemantic(c, k, u) ==
  {hits \in SUBSET Index(u) :
     /\ Cardinality(hits) = k \/ (Cardinality(hits) < k /\ hits = Index(u))
     /\ \A h \in hits, g \in Index(u) \ hits :
          Distance[<<Hit(h).content, c>>] <= Distance[<<Hit(g).content, c>>]}

-----------------------------------------------------------------------------
(* Writes.                                                                 *)

PutMemory(i, v) == items' = [items EXCEPT ![i] = Append(@, v)]

\* delete_memory and invalidate_memory are the same query: the row visible NOW is
\* written again, retracted; without one, nothing is written and the result is Ok.
InvalidateMemory(i) ==
  IF Visible(i)
  THEN PutMemory(i, [Current(i) EXCEPT !.op = "RETRACT"])
  ELSE UNCHANGED items

PutEdges(es) == edges' = edges \cup es
=============================================================================
