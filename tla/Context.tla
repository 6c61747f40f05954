------------------------------- MODULE Context -------------------------------
(***************************************************************************)
(* prepare_context: one context is prepared, search after search, from a   *)
(* database that another thread may write to between any two of them.      *)
(*                                                                         *)
(* The scores decide the order of what was found; they depend on nothing   *)
(* modelled, so any order is possible.                                     *)
(***************************************************************************)
EXTENDS WorkingMemory, Consolidation, QueryShaping

CONSTANTS
  Question,    \* the questions asked, sequences of words
  Database,    \* the databases that may be opened: [items, updated, edges, triples,
               \* summaries, writes]
  Session,
  TypeSearches,  \* the sequence of [type, k]: fifteen episodic memories, ten facts, ...
  SeedType,    \* the types whose sessions are opened: episodic, prospective
  Places,      \* how many each search asks for, see PlacesOf
  Strategy,    \* complexity -> [pool, limit]
  Caller,      \* bound: the users, or none, who ask
  Written,     \* bound: the contents written while a context is prepared
  Asked,       \* bound: the max_results callers pass
  MaxNamed     \* bound: how many documents a reranker names, one named twice counted twice

PlacesOf ==
  {"speaker", "catch_all", "graph", "seeds", "session", "triples", "text", "summaries",
   "summary", "anchors", "window", "reserved", "keywords", "important"}

ASSUME ContextAssumption ==
  /\ Question \subseteq Seq(Word) \ {<<>>}
  /\ SeedType \subseteq MemoryType
  /\ TypeSearches \in Seq([type : MemoryType, k : Nat])
  /\ Places \in [PlacesOf -> Nat]
  /\ Strategy \in [Complexity -> [pool : Nat, limit : Nat]]
  /\ Asked \subseteq Nat /\ MaxNamed \in Nat
  /\ Caller \subseteq Owner /\ Written \subseteq Content

\* What the tools leave in a store: a memory is one named user's at most, although an
\* unscoped call may have written over it, and what is a raw turn stays one.
ASSUME DatabaseAssumption ==
  /\ IsFiniteSet(Id) /\ IsFiniteSet(Session) /\ IsFiniteSet(Word)
  /\ \A db \in Database :
       /\ db.items \in [Id -> Seq(Version)]
       /\ db.updated \in [Id -> Seq(Nat)]
       /\ db.edges \subseteq Edge
       /\ db.triples \subseteq [subject : Word, id : Id]
       /\ db.summaries \subseteq Session
       /\ db.writes \in 0 .. MaxWrites
       /\ \A i \in Id :
            /\ DOMAIN db.updated[i] = DOMAIN db.items[i]
            /\ \A v, w \in ToSet(db.items[i]) : {v.user, w.user} \subseteq User => v.user = w.user
            /\ \A v, w \in ToSet(db.items[i]) : Info[v.content].raw = Info[w.content].raw

VARIABLE prep

contextVars == <<searchVars, prep>>

NoBlock ==
  [keywords |-> {}, evidence |-> <<>>, raw |-> {}, important |-> {}, supporting |-> <<>>]

\* found and reserved hold one version of an id; sources has every <<id, channel>>; the
\* first scored of ranked have the scores of the reranker
NoPrep ==
  [result |-> "none", query |-> <<>>, user |-> NoUser, limit |-> 0, todo |-> <<>>,
   sessions |-> {}, found |-> {}, sources |-> {}, reserved |-> {}, ranked |-> <<>>,
   scored |-> 0, block |-> NoBlock, since |-> [i \in Id |-> 0]]

ContextInit ==
  /\ \E db \in Database :
       /\ items = db.items /\ updated = db.updated /\ edges = db.edges
       /\ triples = db.triples /\ summaries = db.summaries /\ writes = db.writes
  /\ prep = NoPrep

-----------------------------------------------------------------------------
(* The searches to make.                                                   *)

\* The embedding of a question: that of a content that shares most words with it.
Nearby(v) ==
  LET shared(c) == Cardinality(ToSet(v) \cap Info[c].words)
  IN  CHOOSE c \in Content : \A d \in Content : shared(d) <= shared(c)

AsQuery(v) == [text |-> Nearby(v), words |-> ToSet(v)]

Step(do, arg, k) == <<[do |-> do, arg |-> arg, k |-> k]>>
Each(s, Steps(_)) == FlattenSeq([n \in DOMAIN s |-> Steps(s[n])])

TypeSteps(v) ==
  Each(TypeSearches, LAMBDA t : Step("type", [query |-> AsQuery(v), type |-> t.type], t.k))
    \o Step("type", [query |-> AsQuery(v), type |-> AnyType], Places["catch_all"])

VariantSteps(v, temporal, bm25_only) ==
  (IF bm25_only THEN <<>>
   ELSE TypeSteps(v)
          \o Step("graph", AsQuery(v), Places["graph"])
          \o (IF temporal THEN Step("seeds", {}, Places["seeds"]) ELSE <<>>)
          \o Each(Entities(v), LAMBDA e : Step("entity", e, 0))
          \o Step("triples", ToSet(v), Places["triples"]))
    \o Each(Entities(v), LAMBDA e : Step("text", e, Places["text"]))
    \o (IF Keywords(v) = <<>> THEN <<>> ELSE Step("text", ToSet(Keywords(v)), Places["text"]))

\* Mutant: the block is made before the memories are ranked.
FinishEarly == Step("assemble", {}, 0) \o Step("rank", {}, 0) \o Step("rerank", {}, 0)

Finish == Step("rank", {}, 0) \o Step("rerank", {}, 0) \o Step("assemble", {}, 0)

Plan(q, bm25_only) ==
  LET variants == QueryVariants(q)
  IN  (IF bm25_only THEN <<>> ELSE Step("speaker", AsQuery(q), Places["speaker"]))
        \o Each(variants, LAMBDA v : VariantSteps(v, IsTemporalQuery(q), bm25_only))
        \o (IF bm25_only THEN <<>> ELSE Step("summaries", {}, Places["summaries"]))
        \o Step("anchors", {}, Places["anchors"])
        \o Each(variants, LAMBDA v :
             Each(Entities(v), LAMBDA e : Step("reserve", e, Places["reserved"])))
        \o Finish

ContextLimit(q, asked) == AtMost(asked, Strategy[Classify(q)].limit)

\* One context for each database: it leaves nothing behind that a later one could see.
StartPrepare(q, u, asked, bm25_only) ==
  /\ prep.result = "none"
  /\ prep' = [NoPrep EXCEPT !.result = "pending", !.query = q, !.user = u,
                            !.limit = ContextLimit(q, asked), !.todo = Plan(q, bm25_only),
                            !.since = [i \in Id |-> Len(items[i])]]
  /\ UNCHANGED searchVars

-----------------------------------------------------------------------------
(* One search.                                                             *)

Doing(do) == prep.todo # <<>> /\ Head(prep.todo).do = do
Arg == Head(prep.todo).arg
K == Head(prep.todo).k

\* Mutant: what was seen before is not looked up.
RegisterAgain(p, hits, channel) ==
  {[p EXCEPT !.found = @ \cup new, !.sources = @ \cup (IdsOf(hits) \X {channel})] :
     new \in Versions(hits)}

\* the first version of an id is the one that stays
Register(p, hits, channel) ==
  {[p EXCEPT !.found = @ \cup new, !.sources = @ \cup (IdsOf(hits) \X {channel})] :
     new \in Versions({h \in hits : h[1] \notin IdsOf(p.found)})}

Proceed(p, steps) ==
  /\ prep' = [p EXCEPT !.todo = steps \o Tail(@)]
  /\ UNCHANGED searchVars

Find(results, channel) ==
  \E hits \in results : \E p \in Register(prep, hits, channel) : Proceed(p, <<>>)

\* An error of these is as good as no result.
OrNothing(results) == results \cup {{}}

KnownSpeakers == {About(<<t.id, 1>>).speaker : t \in triples} \ {NoSpeaker}

FindBySpeaker ==
  /\ Doing("speaker")
  /\ Find(OrNothing(UNION {SearchBySpeaker(Arg, s, K, prep.user) :
                             s \in KnownSpeakers \cap ToSet(prep.query)}), "speaker_filter")

SessionsOf(hits) == {About(h).session : h \in hits} \ {NoSession}

FindByType ==
  /\ Doing("type")
  /\ \E found \in SearchHybridDeduped(Arg.query, K, prep.user, Arg.type) :
       LET hits == ToSet(found)
           seeds == IF Arg.type \in SeedType /\ IsTemporalQuery(prep.query)
                    THEN SessionsOf(hits) ELSE {}
       IN  \E p \in Register(prep, hits, "hybrid") :
             Proceed([p EXCEPT !.sessions = @ \cup seeds], <<>>)

FindByGraph ==
  /\ Doing("graph")
  /\ \E hits \in SearchGraph(Arg, K, prep.user, AnyType) :
       \E p \in Register(prep, hits, "graph") : Proceed([p EXCEPT !.sessions =
                  IF IsTemporalQuery(prep.query) THEN @ \cup SessionsOf(hits) ELSE @], <<>>)

\* the first sessions seen, in an order that is not kept here
OpenSessions ==
  /\ Doing("seeds")
  /\ \E opened \in kSubset(AtMost(K, Cardinality(prep.sessions)), prep.sessions) :
       Proceed([prep EXCEPT !.sessions = {}],
               Each(SetToSeq(opened), LAMBDA s : Step("session", s, Places["session"])))

\* the sessions whose summaries are nearest
ReadSummaries ==
  /\ Doing("summaries")
  /\ \E opened \in OrNothing(kSubset(AtMost(K, Cardinality(summaries)), summaries)) :
       Proceed(prep, Each(SetToSeq(opened), LAMBDA s : Step("summary", s, Places["summary"])))

FindInSession ==
  LET found == {ToSet(s) : s \in MemoriesBySession(Arg, prep.user, K)}
  IN  \/ Doing("session") /\ Find(found, "session")
      \/ Doing("summary") /\ Find(OrNothing(found), "session")

ReadMemories(ids) == Proceed(prep, Each(SetToSeq(ids), LAMBDA i : Step("memory", i, 0)))

\* search_triples by subject; and by text, which has the words of the memory
ReadEntityTriples ==
  /\ Doing("entity")
  /\ \E found \in OrNothing({{t \in triples : Arg = {t.subject}}}) :
       ReadMemories({t.id : t \in found})
ReadTriples ==
  /\ Doing("triples")
  /\ LET matching == {t \in triples : Arg \subseteq About(<<t.id, 1>>).words \cup {t.subject}}
     IN  \E found \in OrNothing(AnyOf(K, matching)) : ReadMemories({t.id : t \in found})

\* get_memory, of whoever it is
FindByTriple ==
  /\ Doing("memory")
  /\ Find(OrNothing({{h \in CurrentHits(NoUser) : h[1] = Arg}}), "triple")

FindByText ==
  /\ Doing("text")
  /\ Find({Filtered(hits, prep.user, AnyType) : hits \in SearchText(Arg, K)}, "bm25")

\* the first raw turns that were found, one for each session
OpenWindows ==
  /\ Doing("anchors")
  /\ LET raw == {h \in prep.found : IsRaw(h) /\ About(h).session # NoSession}
     IN  \E first \in AnyOf(K, raw) :
           \E anchors \in {S \in SUBSET first : \A s \in SessionsOf(first) :
                             Cardinality({h \in S : About(h).session = s}) = 1} :
             Proceed(prep, Each(SetToSeq(anchors), LAMBDA h : Step("window", h, Places["window"])))

FindInWindow ==
  /\ Doing("window")
  /\ Find(OrNothing(AdjacentTurns(About(Arg).session, Hit(Arg).content, K, prep.user)), "window")

\* keyword hits for a section of their own
Reserve ==
  /\ Doing("reserve")
  /\ \E text \in SearchText(Arg, K) :
       LET hits == Filtered(text, prep.user, AnyType)
       IN  \E new \in Versions({h \in hits : h[1] \notin IdsOf(prep.reserved)}) :
             Proceed([prep EXCEPT !.reserved = @ \cup new,
                                  !.sources = @ \cup (IdsOf(hits) \X {"bm25"})], <<>>)

-----------------------------------------------------------------------------
(* Ranking and layout.                                                     *)

Rank ==
  /\ Doing("rank")
  /\ \E kept \in AnyOf(Places["keywords"], prep.reserved), order \in SetToSeqs(prep.found) :
       Proceed([prep EXCEPT !.reserved = kept, !.ranked = order, !.scored = 0], <<>>)

Pool == AtMost(Strategy[Classify(prep.query)].pool, Len(prep.ranked))

\* the documents a reranker may name: all or some, in its order, some of them twice; an
\* index that is not that of a document is ignored
Orders(pool) == UNION {[1 .. n -> 1 .. pool + 1] : n \in 0 .. MaxNamed}

Named(picks) == Selected(picks, {n \in DOMAIN picks : picks[n] <= Pool})

\* Mutant: what the reranker does not name is lost.
ReorderedOnly(picks) == [n \in DOMAIN Named(picks) |-> prep.ranked[Named(picks)[n]]]

\* what it does not name comes after what it names
Reordered(picks) ==
  LET first == [n \in DOMAIN Named(picks) |-> prep.ranked[Named(picks)[n]]]
      rest == {n \in DOMAIN prep.ranked : prep.ranked[n][1] \notin IdsOf(ToSet(first))}
  IN  first \o Selected(prep.ranked, rest)

Rerank ==
  /\ Doing("rerank")
  /\ Pool > 1 /\ prep.limit > 0
  /\ \E picks \in Orders(Pool) :
       Proceed([prep EXCEPT !.ranked = Reordered(picks), !.scored = Len(Named(picks))], <<>>)

\* no reranker, or it failed
KeepOrder == Doing("rerank") /\ Proceed(prep, <<>>)

\* The block sorts by score again.  What the reranker has scored may go anywhere; the rest
\* is in the order of its scores, no two of which are equal, and stays in that order.
ByScore(s, scored) ==
  LET orders == {o \in SetToSeqs(DOMAIN s) :
                   \A a, b \in DOMAIN o : a < b /\ o[b] < o[a] => o[b] <= scored}
  IN  {[n \in DOMAIN s |-> s[o[n]]] : o \in orders}

\* What is important is a matter of scores too: it is current, and the user's.
Assemble ==
  /\ Doing("assemble")
  /\ \E relevant \in ByScore(Truncate(prep.ranked, prep.limit), prep.scored) :
       \E important \in SUBSET CurrentHits(prep.user) :
         /\ Cardinality(important) <= Places["important"]
         /\ Proceed([prep EXCEPT
              !.result = "ready",
              !.block = IF Classify(prep.query) = "SingleHop" THEN FlatContextBlock(relevant)
                        ELSE ContextBlock(relevant, SetToSeq(important), prep.reserved)], <<>>)

\* embed_one, search_hybrid_deduped, search_graph, get_memories_by_session, search_text
\* and get_profile, which a flat block does without, end the call with their error.
PrepareFails ==
  /\ \/ \E do \in {"speaker", "type", "graph", "session", "text", "summaries", "reserve"} :
          Doing(do)
     \/ Doing("assemble") /\ Classify(prep.query) # "SingleHop"
  /\ prep' = [NoPrep EXCEPT !.result = "failed"]
  /\ UNCHANGED searchVars

-----------------------------------------------------------------------------
\* A new memory, or a new content of one that a search has found for its owner, in any of
\* its versions, or for a caller who names no user: see AddMemory.  An update keeps the
\* metadata, so what was a raw turn is still one.
WriteSome ==
  \E i \in Id, c \in Written, u \in Owner :
    /\ items[i] # <<>> => /\ \E n \in DOMAIN items[i] : Matches(items[i][n], u)
                          /\ Info[c].raw = IsRaw(<<i, 1>>)
    /\ WriteMemory(i, c, u)

\* The tools and the engine, on another thread.  What was written before the context is
\* asked for is in the database that was opened.
Elsewhere ==
  /\ prep.result = "pending"
  /\ \/ WriteSome
     \/ \E i \in Id : DeleteMemory(i)
     \/ \E i, j \in Id : Visible(i) /\ AddRelationship(i, j)
     \/ \E e \in edges : RemoveEdge(e)
     \/ \E i \in Id, w \in NameWords : Visible(i) /\ AddTriple(w, i)
     \/ \E s \in Session : AddSummary(s)
  /\ UNCHANGED prep

ContextNext ==
  \/ \E q \in Question, u \in Caller, asked \in Asked, bm25_only \in BOOLEAN :
       StartPrepare(q, u, asked, bm25_only)
  \/ FindBySpeaker \/ FindByType \/ FindByGraph \/ OpenSessions \/ ReadSummaries
  \/ FindInSession \/ ReadEntityTriples \/ ReadTriples \/ FindByTriple \/ FindByText
  \/ OpenWindows \/ FindInWindow \/ Reserve
  \/ Rank \/ Rerank \/ KeepOrder \/ Assemble \/ PrepareFails
  \/ Elsewhere

ContextSpec == ContextInit /\ [][ContextNext]_contextVars
-----------------------------------------------------------------------------
(* Properties.                                                             *)

\* The store and the preparation hold what they should: every version has its time, and
\* what was found is a version that is stored.
ContextTypeOK ==
  /\ \A i \in Id : items[i] \in Seq(Version) /\ updated[i] \in [DOMAIN items[i] -> Nat]
  /\ edges \subseteq Edge
  /\ triples \subseteq [subject : Word, id : Id]
  /\ summaries \subseteq Session
  /\ writes \in 0 .. MaxWrites
  /\ prep.result \in {"none", "pending", "ready", "failed"}
  /\ prep.found \cup prep.reserved \cup ToSet(prep.ranked) \subseteq Index(NoUser)
  /\ (prep.todo # <<>>) = (prep.result = "pending")

\* However many searches return a memory, and whatever is written to it in between, it is
\* in the context once, in one version, and once among the keyword hits.
OncePerContext ==
  \A hits \in {prep.found, prep.reserved} : \A g, h \in hits : g[1] = h[1] => g = h

\* Ranking and reranking lose nothing and invent nothing, whatever the reranker answers; and
\* a memory is in the ranking twice only where the reranker named it twice: what it did not
\* name is there once.
RerankLosesNothing ==
  Doing("rerank") \/ Doing("assemble") \/ prep.result = "ready" =>
    /\ ToSet(prep.ranked) = prep.found
    /\ \A m, n \in DOMAIN prep.ranked :
         m < n /\ prep.ranked[m][1] = prep.ranked[n][1] => n <= prep.scored

\* The user's: written by the user, and over that only by the user or by nobody in particular.
OfUser(i, u) ==
  \/ u = NoUser
  \/ /\ \E v \in ToSet(items[i]) : v.user = u
     /\ \A v \in ToSet(items[i]) : v.user \in {u, NoUser}

\* A memory that is not the user's is in a context only if an edge or a triple led to it:
\* no search, session or window brings it, nor is it among the keyword hits.
ScopedContext ==
  /\ \A source \in prep.sources : \/ OfUser(source[1], prep.user)
                                   \/ source[2] \in {"graph", "triple"}
  /\ \A h \in prep.found : \E source \in prep.sources : source[1] = h[1]
  /\ \A h \in prep.reserved : Matches(Hit(h), prep.user)

\* Only the indexes, and the graph search that starts from one, bring back what was
\* replaced or deleted before the question was asked.
ReadsAreCurrent ==
  \A h \in prep.found :
    \/ h[2] >= prep.since[h[1]] /\ Hit(h).op = "ASSERT"
    \/ \E source \in prep.sources :
         source[1] = h[1] /\ source[2] \in {"hybrid", "bm25", "speaker_filter", "graph"}

Sections == {"evidence", "raw", "important", "supporting"}

\* the hits in a section
Section(block, s) == IF s \in {"evidence", "supporting"} THEN ToSet(block[s]) ELSE block[s]

NamedTwice(h) == \E m, n \in 1 .. prep.scored : m < n /\ prep.ranked[m] = h /\ prep.ranked[n] = h

\* a memory is in a section twice only if the reranker named it twice
OnceUnlessNamed(s) == \A m, n \in DOMAIN s : m < n /\ s[m][1] = s[n][1] => NamedTwice(s[m])

Overfull(block, h) ==
  Cardinality({n \in DOMAIN block.supporting :
                 About(block.supporting[n]).speaker = About(h).speaker}) = SpeakerPlaces

\* Below the keyword hits a memory is in one section of the block, in one version, although
\* relevant and important memories are read at different times, and in one place of it
\* unless the reranker named it twice; and each relevant one has a place unless five raw
\* turns, or eight of its speaker, have theirs.
BlockPartition ==
  prep.result = "ready" /\ Classify(prep.query) # "SingleHop" =>
    LET block == prep.block
    IN  /\ \A s, t \in Sections : \A g \in Section(block, s), h \in Section(block, t) :
             g[1] = h[1] => s = t /\ g = h
        /\ OnceUnlessNamed(block.evidence) /\ OnceUnlessNamed(block.supporting)
        /\ \A h \in ToSet(Truncate(prep.ranked, prep.limit)) :
             \/ \E s \in Sections \ {"important"} : h[1] \in IdsOf(Section(block, s))
             \/ IsRaw(h) /\ Cardinality(block.raw) = RawPlaces
             \/ NotRaw(h) /\ Overfull(block, h)

\* These are about the searches alone: they are evaluated for each database once, when no
\* context is being prepared.
AtRest == prep.todo = <<>> /\ prep.found = {}

Sizes == 1 .. 3

\* A hybrid search returns at most k results, and an id twice only in the reserved places,
\* where two versions of it may be.
HybridOnce ==
  AtRest => \A q \in Query, u \in Caller, k \in Sizes : \A r \in SearchHybrid(q, k, u, AnyType) :
    /\ Len(r) <= k
    /\ \A m, n \in DOMAIN r : m < n /\ r[m][1] = r[n][1] => n <= Reserved

\* Of what a hybrid search found the deduplicated one keeps no two that overlap, drops
\* nothing without one that overlaps it and is as new, and keeps the newest.
DedupedApart ==
  AtRest => \A q \in Query, u \in Caller, k \in Sizes : \A r \in SearchHybrid(q, k, u, AnyType) :
    LET kept == Dedup(r)
    IN  Len(r) > 1 =>
          /\ \A m, n \in DOMAIN kept : m # n => ~Overlap(kept[m], kept[n])
          /\ \A h \in ToSet(r) \ ToSet(kept) : \E g \in ToSet(r) :
               g # h /\ Overlap(g, h) /\ UpdatedAt(g) >= UpdatedAt(h)
          /\ \A h \in ToSet(r) : (\A g \in ToSet(r) \ {h} : UpdatedAt(g) < UpdatedAt(h))
                                 => h \in ToSet(kept)

\* The two graph searches, one a loop over hops and one a recursive query, reach the same
\* memories from the same seeds, also through memories that are in no result because they
\* were deleted or have ended.
GraphAgrees ==
  AtRest => \A seeds \in SUBSET Id, u \in Caller :
    {h \in CurrentHits(u) : h[1] \in Reached(seeds)} = SearchGraphRecursive(seeds, 2, u)

\* Clusters share no memory, are large enough, and each has a first memory which all of
\* it resemble and which nothing in a later cluster resembles.
ClustersApart ==
  AtRest => \A u \in Caller, type \in MemoryType, min_size \in {1, 2}, cutoff \in {3, writes + 1} :
    \A clusters \in FindClusters(u, type, Id, min_size, cutoff) : \A n \in DOMAIN clusters :
      /\ Cardinality(clusters[n]) >= min_size
      /\ \A m \in 1 .. n - 1 : clusters[m] \cap clusters[n] = {}
      /\ \E first \in clusters[n] :
           /\ \A h \in clusters[n] : Resemble(first, h)
           /\ \A m \in n + 1 .. Len(clusters) : \A h \in clusters[m] : ~Resemble(first, h)

\* "Time-travel query: retrieves memories as they existed at a specific point in time"
\* (search_at_time): what it returns had been written by then.
AsOfThen ==
  \A q \in Query, u \in Caller, at \in 0 .. writes :
    \A hits \in SearchAtTime(q, 2, at, u) : \A h \in hits : UpdatedAt(h) <= at
=============================================================================
