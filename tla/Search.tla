------------------------------- MODULE Search -------------------------------
(***************************************************************************)
(* The searches of MemoryStore, as the results each may return, over a     *)
(* store that is written to.  Scores are numbers nobody can foresee, so    *)
(* where the code sorts by score any order is possible; what a search may  *)
(* find, how often, how many and for whom is not.                          *)
(*                                                                         *)
(* A hit <<i, n>> is version n of memory i.  What a content is about, its  *)
(* session, speaker and type go with the content here.                     *)
(***************************************************************************)
EXTENDS MemoryStore, Selection, SequencesExt

CONSTANTS
  MemoryType, AnyType,
  NoSession, NoSpeaker,
  Info,       \* content -> what is stored with it, see InfoAssumption
  SameTopic,  \* pairs of contents whose word_overlap is > 0.6
  Within,     \* pairs <<a, b>>: the text of a is part of that of b
  NearText,   \* pairs the near-duplicate index takes for the same text
  Query,      \* what is searched for: [text : Content, words : a set of words]
  Reserved,   \* places hybrid search reserves for text hits
  Headroom,   \* what the deduplicated search asks for in addition
  MaxWrites   \* bound: writes after the database was opened

ASSUME InfoAssumption ==
  \A c \in Content :
    /\ Info[c].type \in MemoryType
    /\ Info[c].event \in Nat            \* event_start, 0 if absent
    /\ Info[c].ends \in BOOLEAN         \* has an event_end, be it in the future
    /\ Info[c].raw \in BOOLEAN          \* source = raw_conversation
    /\ {"session", "speaker", "words"} \subseteq DOMAIN Info[c]

ASSUME SearchAssumption ==
  /\ AnyType \notin MemoryType
  /\ \A a, b \in Content : <<a, b>> \in SameTopic => <<b, a>> \in SameTopic
  /\ \A q \in Query : q.text \in Content
  /\ {Reserved, Headroom, MaxWrites} \subseteq Nat

VARIABLES
  updated,    \* id -> the updated_at of each of its versions
  triples,    \* mem_triples: [subject, id]
  summaries,  \* sessions with a row in mem_summaries
  writes      \* number of writes so far, the clock

searchVars == <<storeVars, updated, triples, summaries, writes>>

About(h) == Info[Hit(h).content]
UpdatedAt(h) == updated[h[1]][h[2]]
CreatedAt(h) == updated[h[1]][1]

IdsOf(hits) == {h[1] : h \in hits}
AtMost(k, n) == IF n < k THEN n ELSE k

-----------------------------------------------------------------------------
(* Writes: the tools' and the engine's put_memory, delete_memory,          *)
(* put_edge (add_relationship), put_triple and put_summary.                *)

Write == writes < MaxWrites /\ writes' = writes + 1

\* created_at stays, updated_at is now
WriteMemory(i, c, u) ==
  /\ Write
  /\ PutMemory(i, [op |-> "ASSERT", content |-> c, user |-> u, count |-> 1, latest |-> TRUE])
  /\ updated' = [updated EXCEPT ![i] = Append(@, writes')]
  /\ UNCHANGED <<edges, triples, summaries>>

\* the row is written again as it is: updated_at too
DeleteMemory(i) ==
  /\ Visible(i)
  /\ Write
  /\ InvalidateMemory(i)
  /\ updated' = [updated EXCEPT ![i] = Append(@, @[Len(@)])]
  /\ UNCHANGED <<edges, triples, summaries>>

AddRelationship(i, j) ==
  /\ Write
  /\ PutEdges({[from |-> i, to |-> j, relation |-> "relates_to"]})
  /\ UNCHANGED <<items, updated, triples, summaries>>

RemoveEdge(e) ==
  /\ Write
  /\ edges' = edges \ {e}
  /\ UNCHANGED <<items, updated, triples, summaries>>

AddTriple(w, i) ==
  /\ Write
  /\ triples' = triples \cup {[subject |-> w, id |-> i]}
  /\ UNCHANGED <<storeVars, updated, summaries>>

AddSummary(s) ==
  /\ Write
  /\ summaries' = summaries \cup {s}
  /\ UNCHANGED <<storeVars, updated, triples>>

-----------------------------------------------------------------------------
(* Reads @ "NOW".                                                          *)

\* Mutant: the first version instead of the last.
NowFirst(i) == <<i, 1>>

\* the hit get_memory returns for an id, if any
Now(i) == <<i, Len(items[i])>>
CurrentHits(u) == {Now(i) : i \in {j \in Id : Visible(j) /\ Matches(Current(j), u)}}

OfType(hits, t) == {h \in hits : t \in {AnyType, About(h).type}}

Truncate(s, k) == SubSeq(s, 1, AtMost(k, Len(s)))

\* the first k in an order, what is equal in any order
FirstOf(k, hits, before(_, _)) ==
  {Truncate(s, k) : s \in {t \in SetToSeqs(hits) :
                             \A m, n \in DOMAIN t : m < n => ~before(t[n], t[m])}}

\* get_memories: the most recently updated
GetMemories(u, t, k) ==
  FirstOf(k, OfType(CurrentHits(u), t), LAMBDA g, h : UpdatedAt(g) > UpdatedAt(h))

\* get_memories_by_session: by the time of the event, then the last updated first
MemoriesBySession(s, u, k) ==
  FirstOf(k, {h \in CurrentHits(u) : About(h).session = s},
          LAMBDA g, h : \/ About(g).event < About(h).event
                        \/ /\ About(g).event = About(h).event
                           /\ UpdatedAt(g) > UpdatedAt(h))

\* get_adjacent_turns: the raw turns around the first one that looks like the anchor,
\* without that one
TurnsAround(turns, c, window) ==
  LET anchor == SelectInSeq(turns, LAMBDA h : \/ <<Hit(h).content, c>> \in Within
                                              \/ <<c, Hit(h).content>> \in Within)
  IN  IF window = 0 \/ anchor = 0 THEN {}
      ELSE {turns[n] : n \in {m \in DOMAIN turns : /\ m # anchor
                                                   /\ m + window >= anchor
                                                   /\ m <= anchor + window}}

AdjacentTurns(s, c, window, u) ==
  LET turns(found) ==
        FirstOf(200, {h \in ToSet(found) : About(h).raw},
                LAMBDA g, h : \/ About(g).event < About(h).event
                              \/ /\ About(g).event = About(h).event
                                 /\ CreatedAt(g) < CreatedAt(h)
                              \/ /\ About(g).event = About(h).event
                                 /\ CreatedAt(g) = CreatedAt(h)
                                 /\ UpdatedAt(g) < UpdatedAt(h))
  IN  UNION {{TurnsAround(t, c, window) : t \in turns(found)}
               : found \in MemoriesBySession(s, u, 200)}

\* search_temporal: the latest events of a time
SearchTemporal(from, to, k, u) ==
  FirstOf(k, {h \in CurrentHits(u) : About(h).event \in (from .. to) \ {0}},
          LAMBDA g, h : About(g).event > About(h).event)

-----------------------------------------------------------------------------
(* The indexes: every version of every memory.                             *)

\* the k nearest of a set of hits, and any k of them
Nearest(k, hits, c) ==
  {best \in kSubset(AtMost(k, Cardinality(hits)), hits) :
     \A h \in best, g \in hits \ best :
       Distance[<<Hit(h).content, c>>] <= Distance[<<Hit(g).content, c>>]}
AnyOf(k, hits) == kSubset(AtMost(k, Cardinality(hits)), hits)

\* search_semantic with both filters, and search_by_speaker
SearchSemanticTyped(q, k, u, t) == Nearest(k, OfType(Index(u), t), q.text)
SearchBySpeaker(q, speaker, k, u) ==
  Nearest(k, {h \in Index(u) : About(h).speaker = speaker}, q.text)

\* search_text knows neither users nor types, and asks for all the words
SearchText(words, k) ==
  IF words = {} THEN {{}} ELSE AnyOf(k, {h \in Index(NoUser) : words \subseteq About(h).words})

\* search_lsh: near duplicates of the text, or nothing
SearchLsh(q, k) ==
  {{}} \cup AnyOf(k, {h \in Index(NoUser) : <<Hit(h).content, q.text>> \in NearText})

\* Mutant: the hits of the text index are taken as they are.
FilteredByTypeOnly(hits, u, t) == OfType(hits, t)

\* the filter the code applies to hits of the other two indexes, after their k
Filtered(hits, u, t) == OfType({h \in hits : Matches(Hit(h), u)}, t)

-----------------------------------------------------------------------------
(* search_hybrid.                                                          *)

\* one version for each id
Versions(hits) == {S \in SUBSET hits : \A i \in IdsOf(hits) : \E h \in S :
                                         h[1] = i /\ \A g \in S : g[1] = i => g = h}

\* the lists of fused results: of the ids that are in none of the reserved places, each
\* in the version of the first list that has it, any k in any order
Fused(k, seen, semantic, text, lsh) ==
  LET unseen(hits) == {h \in hits : h[1] \notin seen}
      without(hits, ids) == {h \in unseen(hits) : h[1] \notin ids}
      pool == {a \cup b \cup c :
                 a \in Versions(unseen(semantic)),
                 b \in Versions(without(text, IdsOf(semantic))),
                 c \in Versions(without(lsh, IdsOf(semantic \cup text)))}
  IN  UNION {UNION {SetToSeqs(best) : best \in AnyOf(k, hits)} : hits \in pool}

\* Mutant: a reserved result is not remembered.
SeenNever(front) == {}

SeenIds(front) == IdsOf(ToSet(front))

\* The best text hits come first, whatever the others found.
Hybrid(k, semantic, text, lsh) ==
  LET places == AtMost(k, AtMost(Reserved, Cardinality(text)))
      fronts == UNION {SetToSeqs(best) : best \in kSubset(places, text)}
  IN  UNION {{front \o rest : rest \in Fused(k - places, SeenIds(front), semantic, text, lsh)}
               : front \in fronts}

SearchHybrid(q, k, u, t) ==
  UNION {Hybrid(k, semantic, Filtered(text, u, t), Filtered(lsh, u, t)) :
           semantic \in SearchSemanticTyped(q, k, u, t),
           text \in SearchText(q.words, k), lsh \in SearchLsh(q, k)}

-----------------------------------------------------------------------------
(* search_hybrid_deduped.                                                  *)

Overlap(g, h) == <<Hit(g).content, Hit(h).content>> \in SameTopic

\* Mutant: an older item stays beside the newer one.
KeepBeside(raw, kept, n) ==
  IF \E m \in kept : Overlap(raw[m], raw[n]) /\ UpdatedAt(raw[m]) >= UpdatedAt(raw[n])
  THEN kept ELSE kept \cup {n}

\* the positions kept of the first n: an item goes if one that is kept is as new; one that
\* stays drives out older ones
Keep(raw, kept, n) ==
  IF \E m \in kept : Overlap(raw[m], raw[n]) /\ UpdatedAt(raw[m]) >= UpdatedAt(raw[n])
  THEN kept
  ELSE {m \in kept : ~(Overlap(raw[m], raw[n]) /\ UpdatedAt(raw[n]) > UpdatedAt(raw[m]))}
         \cup {n}

Kept(raw) ==
  LET kept[n \in 0 .. Len(raw)] == IF n = 0 THEN {} ELSE Keep(raw, kept[n - 1], n)
  IN  kept[Len(raw)]

Dedup(raw) == IF Len(raw) <= 1 THEN raw ELSE Selected(raw, Kept(raw))

SearchHybridDeduped(q, k, u, t) ==
  {IF Len(raw) <= 1 THEN raw ELSE Truncate(Dedup(raw), k)
     : raw \in SearchHybrid(q, k + Headroom, u, t)}

-----------------------------------------------------------------------------
(* Graph searches.                                                         *)

Neighbors(i) == {e.to : e \in {d \in edges : d.from = i}}
NeighborsOf(ids) == UNION {Neighbors(i) : i \in ids}

\* Mutant: one hop is enough.
ReachedInOne(seeds) == seeds \cup NeighborsOf(seeds)

\* what search_graph scores, from the seeds on, in at most two hops
Reached(seeds) ==
  LET depth1 == NeighborsOf(seeds)
      depth2 == NeighborsOf(depth1) \ seeds
  IN  seeds \cup depth1 \cup depth2

\* Seeds keep the version the index returned; the others are fetched, if they are visible
\* and have no end.
SearchGraph(q, k, u, t) ==
  UNION {LET ids == Reached(IdsOf(seeds)) \ IdsOf(seeds)
             fetched == {Now(i) : i \in {j \in ids : Visible(j) /\ ~About(Now(j)).ends}}
         IN  UNION {AnyOf(k, first \cup fetched) : first \in Versions(seeds)}
           : seeds \in SearchSemanticTyped(q, AtMost(5, IF k = 0 THEN 1 ELSE k), u, t)}

\* search_graph_recursive, as the fixpoint of its Datalog rules up to max_hops
Reachable(seeds, hops) ==
  LET within[d \in 0 .. hops] ==
        IF d = 0 THEN seeds ELSE within[d - 1] \cup NeighborsOf(within[d - 1])
  IN  within[hops]
SearchGraphRecursive(seeds, hops, u) == {h \in CurrentHits(u) : h[1] \in Reachable(seeds, hops)}

-----------------------------------------------------------------------------
\* search_at_time: hits in the index whose memory was created by then
SearchAtTime(q, k, at, u) ==
  {{h \in hits : CreatedAt(h) <= at} : hits \in Nearest(k, Index(u), q.text)}

\* search, which dispatches on the mode; a mode that needs an embedding falls back
Search(q, mode, k, u, t) ==
  CASE mode = "semantic" -> SearchSemanticTyped(q, k, u, t)
    [] mode = "graph"    -> SearchGraph(q, k, u, t)
    [] mode = "hybrid"   -> {ToSet(r) : r \in SearchHybrid(q, k, u, t)}
    [] mode = "text"     -> SearchText(q.words, k)

\* the search_memory tool adds what happened between two dates to what was found
SearchMemory(q, mode, k, u, t, from, to) ==
  {hits \cup {h \in ToSet(dated) : h[1] \notin IdsOf(hits)}
     : hits \in Search(q, mode, k, u, t), dated \in SearchTemporal(from, to, k, u)}
=============================================================================
