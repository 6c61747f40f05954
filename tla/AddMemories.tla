---------------------------- MODULE AddMemories ----------------------------
(***************************************************************************)
(* The add_memories tool: a batch of add_memory calls for what an LLM has  *)
(* extracted from a text, each followed by the semantic triple of the fact *)
(* and by the search for facts it contradicts; then the raw segments of    *)
(* the text; then the links between the two.  A batch takes no lock and    *)
(* has no transaction.  An error of add_memory or of a segment ends it,    *)
(* other errors are swallowed, and all that was written stays.             *)
(*                                                                         *)
(* A reply is what the tool makes of the LLM's answer: the entries with a  *)
(* content and a confidence of at least 0.5, first the memories, then the  *)
(* observations without repetition; and, when the source is preserved, the *)
(* segments of the text.  An LLM that fails, or answers something that is  *)
(* no JSON, changes nothing.  The session summary is left out.             *)
(***************************************************************************)
EXTENDS AddMemory

CONSTANTS
  Topic,     \* subjects with a predicate: `Caroline lives in'
  Fact,      \* triples; each is about one topic
  TopicOf,   \* [Fact -> Topic]
  Reply      \* the replies that occur

\* An observation has no fact and contradicts nothing.
Entry == [content : Content, fact : Fact \cup {None}, contradicts : Topic \cup {None}]

ASSUME ReplyAssumption ==
  /\ None \notin Fact \cup Topic
  /\ \A c, d \in Content : Hash[c] = Hash[d] => c = d      \* no reminder is among them
  /\ TopicOf \in [Fact -> Topic]
  /\ Reply \subseteq [entries : Seq(Entry), segments : Seq(Content)]

VARIABLES
  triples,   \* mem_triples: the row [memory, count] of each fact that has one
  batch,     \* the call of add_memories each client is in
  mentions,  \* history: fact -> how often it was recorded
  clean      \* history: no two batches have overlapped and no error of a find_by_hash
             \* or of a triple was swallowed

batchVars == <<triples, batch, mentions, clean>>
allVars == <<vars, batchVars>>

Triple == [memory : Id, count : Nat]

BatchPhase ==
  {"idle", "entry", "adding", "fact", "put", "mention", "bump", "rivals", "demote",
   "mark", "segment", "store", "link", "session"}

Batch ==
  [at       : BatchPhase,
   user     : Owner,
   entries  : Seq(Entry),
   segments : Seq(Content),        \* those still to be stored
   ids      : Seq(Id),             \* extracted_memory_ids, one for each entry added
   raws     : SUBSET Id,           \* raw_memory_ids
   old      : SUBSET (Fact \X Id), \* old_triples still to be looked at
   count    : Nat,                 \* mention_count, as read
   id       : Id \cup {None},      \* the memory the next write is about
   base     : Version \cup {None}] \* old_memory, as read

NoBatch ==
  [at |-> "idle", user |-> NoUser, entries |-> <<>>, segments |-> <<>>, ids |-> <<>>,
   raws |-> {}, old |-> {}, count |-> 0, id |-> None, base |-> None]

BatchInit ==
  /\ Init
  /\ triples = [f \in {} |-> None]
  /\ batch = [cl \in Client |-> NoBatch]
  /\ mentions = [f \in Fact |-> 0]
  /\ clean = TRUE

-----------------------------------------------------------------------------
(* Where a batch b goes from where it is.                                  *)

At(cl, p) == batch[cl].at = p

Become(cl, b) == batch' = [batch EXCEPT ![cl] = b]
GoTo(cl, p) == Become(cl, [batch[cl] EXCEPT !.at = p])

\* Mutant: the first entry, again and again.
SameContent(b) == b.entries[1].content

\* the content of the entry that is to be added next
NextContent(b) == b.entries[Len(b.ids) + 1].content

\* Mutant: the memory of the first entry.
FirstId(b) == b.ids[1]

\* the entry that was added last, and its memory
Stated(b) == b.entries[Len(b.ids)]
NewId(b) == b.ids[Len(b.ids)]

AfterSegment(b) == IF b.segments = <<>> THEN "session" ELSE "segment"
AfterEntry(b) == IF Len(b.ids) < Len(b.entries) THEN "entry" ELSE AfterSegment(b)
AfterRival(b) == IF b.old = {} THEN AfterEntry(b) ELSE "demote"
AfterFact(b) == IF Stated(b).contradicts = None THEN AfterEntry(b) ELSE "rivals"
AfterAdd(b) == IF Stated(b).fact = None THEN AfterFact(b) ELSE "fact"

\* an error nobody hears of
Swallowed == clean' = FALSE

-----------------------------------------------------------------------------
StartBatch(cl, u, r) ==
  /\ At(cl, "idle")
  /\ LET b == [NoBatch EXCEPT !.user = u, !.entries = r.entries, !.segments = r.segments]
     IN  Become(cl, [b EXCEPT !.at = AfterEntry(b)])
  /\ clean' = (clean /\ \A other \in Client : At(other, "idle"))
  /\ UNCHANGED <<vars, triples, mentions>>

\* One add_memory: it begins, goes on, and returns the id of the memory.
AddEntry(cl) ==
  LET b == batch[cl]
  IN  \/ /\ At(cl, "entry")
         /\ StartAdd(cl, NextContent(b), b.user)
         /\ GoTo(cl, "adding")
         /\ UNCHANGED <<triples, mentions, clean>>
      \/ /\ At(cl, "adding")
         /\ SearchSimilar(cl) \/ Store(cl)
         /\ UNCHANGED batchVars
      \/ /\ At(cl, "adding")
         /\ Reinforce(cl) \/ Update(cl) \/ Link(cl)
         /\ LET added == [b EXCEPT !.ids = Append(@, call[cl].id)]
            IN  Become(cl, [added EXCEPT !.at = AfterAdd(added)])
         /\ UNCHANGED <<triples, mentions, clean>>

\* search_triples with all three parts; its error counts as `not found'
FindFact(cl) ==
  /\ At(cl, "fact")
  /\ \/ /\ Stated(batch[cl]).fact \in DOMAIN triples
        /\ GoTo(cl, "mention")
        /\ UNCHANGED clean
     \/ /\ Stated(batch[cl]).fact \notin DOMAIN triples
        /\ GoTo(cl, "put")
        /\ UNCHANGED clean
     \/ GoTo(cl, "put") /\ Swallowed
  /\ UNCHANGED <<vars, triples, mentions>>

\* the row of fact f becomes t
Record(f, t) ==
  /\ triples' = [g \in DOMAIN triples \cup {f} |-> IF g = f THEN t ELSE triples[g]]
  /\ mentions' = [mentions EXCEPT ![f] = @ + 1]

RecordFails == Swallowed /\ UNCHANGED <<triples, mentions>>

\* put_triple replaces a row that has come up since
PutFact(cl) ==
  LET b == batch[cl]
  IN  /\ At(cl, "put")
      /\ \/ Record(Stated(b).fact, [memory |-> NewId(b), count |-> 1]) /\ UNCHANGED clean
         \/ RecordFails
      /\ GoTo(cl, AfterFact(b))
      /\ UNCHANGED vars

\* increment_triple_mention reads the count ...
ReadMention(cl) ==
  LET b == batch[cl]
  IN  /\ At(cl, "mention")
      /\ \/ /\ Become(cl, [b EXCEPT !.at = "bump", !.count = triples[Stated(b).fact].count])
            /\ UNCHANGED clean
         \/ GoTo(cl, AfterFact(b)) /\ Swallowed
      /\ UNCHANGED <<vars, triples, mentions>>

\* Mutant: off by one.
BumpedAgain(t, count) == [t EXCEPT !.count = count + 2]

\* ... and writes it, whatever it is by now; the row keeps its memory
Bumped(t, count) == [t EXCEPT !.count = count + 1]

BumpMention(cl) ==
  LET b == batch[cl]
      f == Stated(b).fact
  IN  /\ At(cl, "bump")
      /\ \/ Record(f, Bumped(triples[f], b.count)) /\ UNCHANGED clean
         \/ RecordFails
      /\ Become(cl, [b EXCEPT !.at = AfterFact(b), !.count = 0])
      /\ UNCHANGED vars

\* Mutant: the new memory is among its own rivals.
RivalsWithSelf(topic, id) ==
  {<<f, triples[f].memory>> : f \in {g \in DOMAIN triples : TopicOf[g] = topic}}

\* the triples the statement contradicts, unless they belong to the same memory
Rivals(topic, id) ==
  {<<f, triples[f].memory>> :
     f \in {g \in DOMAIN triples : TopicOf[g] = topic /\ triples[g].memory # id}}

FindRivals(cl) ==
  LET b == batch[cl]
      Look(old) == LET c == [b EXCEPT !.old = old]
                   IN  Become(cl, [c EXCEPT !.at = AfterRival(c)])
  IN  /\ At(cl, "rivals")
      /\ \/ Look(Rivals(Stated(b).contradicts, NewId(b))) /\ UNCHANGED clean
         \/ Look({}) /\ Swallowed
      /\ UNCHANGED <<vars, triples, mentions>>

\* get_memory of one of them; a memory that is not visible, and an error, skip it
ReadRival(cl) ==
  /\ At(cl, "demote")
  /\ \E o \in batch[cl].old :
       LET b == [batch[cl] EXCEPT !.old = @ \ {o}]
       IN  \/ /\ Visible(o[2])
              /\ Become(cl, [b EXCEPT !.at = "mark", !.id = o[2], !.base = Current(o[2])])
           \/ Become(cl, [b EXCEPT !.at = AfterRival(b)])
  /\ UNCHANGED <<vars, triples, mentions, clean>>

Demoted(v) == [v EXCEPT !.latest = FALSE]

\* put_memory of the version read, marked, and the edge to it: each is best effort
MarkRival(cl) ==
  LET b == batch[cl]
  IN  /\ At(cl, "mark")
      /\ \/ CanWrite /\ PutMemory(b.id, Demoted(b.base))
         \/ UNCHANGED items
      /\ \/ PutEdges({[from |-> NewId(b), to |-> b.id, relation |-> "updates"]})
         \/ UNCHANGED edges
      /\ Become(cl, [b EXCEPT !.at = AfterRival(b), !.id = None, !.base = None])
      /\ UNCHANGED <<call, overlapped, triples, mentions, clean>>

-----------------------------------------------------------------------------
\* Mutant: compares with the segments of this call only.
KnownToBatch(b) == FindByHash(Head(b.segments), b.user) \cap b.raws

Known(b) == FindByHash(Head(b.segments), b.user)

\* find_by_hash of the next segment; an error counts as `not found'
FindSegment(cl) ==
  LET b == batch[cl]
      found == Known(b)
      skip == [b EXCEPT !.segments = Tail(@)]
  IN  /\ At(cl, "segment")
      /\ \/ /\ found # {}
            /\ Become(cl, [skip EXCEPT !.at = AfterSegment(skip)])
            /\ UNCHANGED clean
         \/ found = {} /\ GoTo(cl, "store") /\ UNCHANGED clean
         \/ GoTo(cl, "store") /\ Swallowed
      /\ UNCHANGED <<vars, triples, mentions>>

StoreSegment(cl) ==
  LET b == batch[cl]
  IN  /\ At(cl, "store")
      /\ CanWrite
      /\ \E i \in Id :
           /\ items[i] = <<>>
           /\ PutMemory(i, NewVersion(Head(b.segments), b.user))
           /\ Become(cl, [b EXCEPT !.at = "link", !.id = i])
      /\ UNCHANGED <<edges, call, overlapped, triples, mentions, clean>>

LinkSegment(cl) ==
  LET b == batch[cl]
      c == Head(b.segments)
      done == [b EXCEPT !.segments = Tail(@), !.raws = @ \cup {b.id}, !.id = None]
  IN  /\ At(cl, "link")
      /\ \E hits \in SearchSemantic(c, 3, b.user) :
           \E es \in SUBSET {[from |-> b.id, to |-> h[1], relation |-> "relates_to"] :
                               h \in {g \in hits : /\ g[1] # b.id
                                                   /\ <<Hit(g).content, c>> \in Related}} :
             PutEdges(es)
      /\ Become(cl, [done EXCEPT !.at = AfterSegment(done)])
      /\ UNCHANGED <<items, call, overlapped, triples, mentions, clean>>

\* The segments stored by this call and the entries are linked both ways, if there is a
\* session id and as far as no write fails; the call returns Ok.
LinkSession(cl) ==
  LET b == batch[cl]
      extracted == {b.ids[k] : k \in DOMAIN b.ids}
      pairs == {p \in (b.raws \X extracted) \cup (extracted \X b.raws) : p[1] # p[2]}
  IN  /\ At(cl, "session")
      /\ \E ps \in SUBSET pairs :
           PutEdges({[from |-> p[1], to |-> p[2], relation |-> "during_session"] : p \in ps})
      /\ Become(cl, NoBatch)
      /\ UNCHANGED <<items, call, overlapped, triples, mentions, clean>>

\* an error that `?' passes on
BatchFails(cl) ==
  /\ \/ At(cl, "adding") /\ Fail(cl)
     \/ batch[cl].at \in {"entry", "store", "link"} /\ UNCHANGED vars
  /\ Become(cl, NoBatch)
  /\ UNCHANGED <<triples, mentions, clean>>

DeleteMemory(cl, i) ==
  /\ At(cl, "idle")
  /\ Delete(cl, i)
  /\ UNCHANGED batchVars

-----------------------------------------------------------------------------
BatchNext ==
  \E cl \in Client :
    \/ \E u \in Owner, r \in Reply : StartBatch(cl, u, r)
    \/ AddEntry(cl)
    \/ FindFact(cl)
    \/ PutFact(cl)
    \/ ReadMention(cl)
    \/ BumpMention(cl)
    \/ FindRivals(cl)
    \/ ReadRival(cl)
    \/ MarkRival(cl)
    \/ FindSegment(cl)
    \/ StoreSegment(cl)
    \/ LinkSegment(cl)
    \/ LinkSession(cl)
    \/ BatchFails(cl)
    \/ \E i \in Id : DeleteMemory(cl, i)

BatchSpec == BatchInit /\ [][BatchNext]_allVars

-----------------------------------------------------------------------------
(* Properties.                                                             *)

\* Every variable has its type.
BatchTypeOK ==
  /\ TypeOK
  /\ DOMAIN triples \subseteq Fact
  /\ triples \in [DOMAIN triples -> Triple]
  /\ batch \in [Client -> Batch]
  /\ mentions \in [Fact -> Nat]
  /\ clean \in BOOLEAN

\* what the replies say, and whether memory i ever had content c
Said == UNION {{r.entries[k] : k \in DOMAIN r.entries} : r \in Reply}
Held(i, c) == \E n \in DOMAIN items[i] : items[i][n].content = c

\* The mention count of a triple is the number of times it was recorded, and with
\* overlapping batches or failing queries, where counts get lost, never more.
MentionsCounted ==
  \A f \in DOMAIN triples :
    /\ triples[f].count \in 1 .. mentions[f]
    /\ clean => triples[f].count = mentions[f]

\* The memory a triple points to has held a statement of its fact, although the row
\* and the memory are written by different calls and either can be overwritten,
\* updated or deleted in between.
TripleHasMemory ==
  \A f \in DOMAIN triples :
    \E e \in Said : e.fact = f /\ Held(triples[f].memory, e.content)

\* Only what has been contradicted is demoted: a memory with a version that is not the
\* latest has stated a fact, and another memory has stated one against it.
DemotedHasRival ==
  \A i \in Id : \A n \in DOMAIN items[i] :
    ~items[i][n].latest =>
      \E old, new \in Said :
        /\ old.fact # None /\ Held(i, old.content)
        /\ TopicOf[old.fact] = new.contradicts
        /\ \E j \in Id \ {i} : Held(j, new.content)

\* A batch keeps what it has been given: each entry it is done with is in the memory
\* it remembers for it, so that a call which returns Ok has stored every entry and one
\* which fails has stored those before the error.
EntriesKept ==
  \A cl \in Client : \A k \in DOMAIN batch[cl].ids :
    Held(batch[cl].ids[k], batch[cl].entries[k].content)

\* A batch that failed can be repeated: as long as batches do not overlap and no
\* find_by_hash fails, no user sees a text twice, whether an entry or a segment
\* brought it.
NoDuplicateText ==
  clean =>
    \A i, j \in Id :
      /\ Visible(i) /\ Visible(j)
      /\ Current(i).content = Current(j).content
      /\ Current(i).user = Current(j).user
      => i = j

-----------------------------------------------------------------------------
(* What the repository says and the code does not do.                      *)

\* "demote superseded facts": the memory of the statement made last is not demoted.
StatedIsLatest ==
  \A cl \in Client :
    LET b == batch[cl]
    IN  b.at \in {"entry", "segment", "session"} /\ b.ids # <<>> /\ Visible(NewId(b))
          => Current(NewId(b)).latest
=============================================================================
