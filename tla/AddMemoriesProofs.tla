-------------------------- MODULE AddMemoriesProofs --------------------------
(***************************************************************************)
(* Proofs about batches, for any number of clients, replies, facts and     *)
(* topics: what the store holds is related to what the replies said,       *)
(* although the rows, the memories and the counts are written by calls     *)
(* that others come between.                                               *)
(***************************************************************************)
EXTENDS AddMemories, AddMemoryProofs

(***************************************************************************)
(* The inductive invariant.  As for a single call, what a batch has read   *)
(* or written may be overwritten before it goes on; what it relies on is   *)
(* what only grows: the versions of an id, the facts that have a row, and  *)
(* the number of times a fact was recorded.                                *)
(***************************************************************************)
RowsTyped ==
  /\ edges \subseteq Edge
  /\ DOMAIN triples \subseteq Fact
  /\ triples \in [DOMAIN triples -> Triple]
  /\ mentions \in [Fact -> Nat]
  /\ clean \in BOOLEAN

\* batch b has stored the entries it is done with, and no others
Kept(b) ==
  /\ Len(b.ids) <= Len(b.entries)
  /\ \A k \in DOMAIN b.entries : b.entries[k] \in Said
  /\ \A k \in DOMAIN b.ids : Held(b.ids[k], b.entries[k].content)

\* memory i has held a fact against what batch b has stated
Rival(b, i) ==
  /\ i \in Id /\ i # NewId(b)
  /\ \E e \in Said :
       e.fact # None /\ TopicOf[e.fact] = Stated(b).contradicts /\ Held(i, e.content)

\* batch b can take the step it is at
Ready(b) ==
  /\ b.at \in {"entry", "adding"} => Len(b.ids) < Len(b.entries)
  /\ b.at \in {"fact", "put", "mention", "bump"} => b.ids # <<>> /\ Stated(b).fact # None
  /\ b.at \in {"mention", "bump"} => Stated(b).fact \in DOMAIN triples
  /\ b.at = "bump" => b.count \in 1 .. mentions[Stated(b).fact]
  /\ b.at \in {"rivals", "demote", "mark"} => b.ids # <<>> /\ Stated(b).contradicts # None
  /\ b.at \in {"demote", "mark"} => \A o \in b.old : Rival(b, o[2])
  /\ b.at = "mark" =>
       /\ Rival(b, b.id)
       /\ \E n \in DOMAIN items[b.id] : items[b.id][n] = b.base
       /\ b.base.op = "ASSERT"
  /\ b.at \in {"segment", "store", "link"} => b.segments # <<>>
  /\ b.at = "link" => b.id \in Id

\* the add_memory of a client belongs to its batch
Paired(cl) ==
  /\ At(cl, "adding") <=> ~Idle(cl)
  /\ At(cl, "adding") =>
       call[cl].content = NextContent(batch[cl]) /\ call[cl].user = batch[cl].user

BatchOK(cl) == Kept(batch[cl]) /\ Ready(batch[cl]) /\ Paired(cl)

BatchesOK == batch \in [Client -> Batch] /\ \A cl \in Client : BatchOK(cl)

RowsOK ==
  /\ RowsTyped
  /\ \A f \in DOMAIN triples : triples[f].count \in 1 .. mentions[f]
  /\ TripleHasMemory
  /\ DemotedHasRival

\* What find_by_hash, search_triples and get_memory told batch b is still true, because
\* in between the other clients can only delete.
Fresh(b) ==
  /\ b.at = "put" => Stated(b).fact \notin DOMAIN triples
  /\ b.at = "bump" => b.count = mentions[Stated(b).fact]
  /\ b.at = "store" => \A j \in Id : ~Shows(j, Head(b.segments), b.user)
  /\ b.at = "mark" => \A j \in Id \ {b.id} : ~Shows(j, b.base.content, b.base.user)

Apart == \A cl, o \in Client : ~At(cl, "idle") /\ ~At(o, "idle") => cl = o

Counts == \A f \in Fact : mentions[f] = IF f \in DOMAIN triples THEN triples[f].count ELSE 0

CleanOK ==
  clean => /\ ~overlapped /\ SoleInv
           /\ Apart
           /\ Counts
           /\ \A cl \in Client : Fresh(batch[cl])

BatchInv == CoreInv /\ RowsOK /\ BatchesOK /\ CleanOK

-----------------------------------------------------------------------------
(* What only grows.                                                        *)

RowsGrow ==
  /\ DOMAIN triples \subseteq DOMAIN triples'
  /\ \A f \in Fact : mentions'[f] >= mentions[f]

\* No change of the triples is growth.
LEMMA SameRowsGrow ==
  ASSUME RowsTyped, UNCHANGED <<triples, mentions>>
  PROVE  RowsGrow
  BY DEF RowsTyped, RowsGrow

\* What a memory has held, it has held.
LEMMA HeldGrows ==
  ASSUME Grows, NEW i \in Id, NEW c, Held(i, c)
  PROVE  Held(i, c)'
  BY DEF Grows, Held

\* The fields of a batch.
LEMMA BatchFields ==
  ASSUME NEW b \in Batch
  PROVE  /\ b.at \in BatchPhase /\ b.user \in Owner
         /\ b.entries \in Seq(Entry) /\ b.segments \in Seq(Content)
         /\ b.ids \in Seq(Id) /\ b.raws \in SUBSET Id
         /\ b.old \in SUBSET (Fact \X Id) /\ b.count \in Nat
         /\ b.id \in Id \cup {None} /\ b.base \in Version \cup {None}
  BY DEF Batch

\* The entry that was added last is one of the reply, and its memory has held it.
LEMMA LastEntry ==
  ASSUME NEW b \in Batch, Kept(b), b.ids # <<>>
  PROVE  /\ Stated(b) \in Entry /\ Stated(b) \in Said
         /\ NewId(b) \in Id /\ Held(NewId(b), Stated(b).content)
         /\ Stated(b).fact # None => Stated(b).fact \in Fact
         /\ Stated(b).contradicts # None => Stated(b).contradicts \in Topic
<1>1. b.ids \in Seq(Id) /\ b.entries \in Seq(Entry)
  BY BatchFields
<1>2. Len(b.ids) \in DOMAIN b.ids /\ Len(b.ids) \in DOMAIN b.entries
  BY <1>1 DEF Kept
<1>3. b.ids[Len(b.ids)] \in Id /\ b.entries[Len(b.ids)] \in Entry
  BY <1>1, <1>2
<1>4. QED
  BY <1>2, <1>3 DEF Kept, Stated, NewId, Entry

\* What a batch holds survives the growth of the store.
LEMMA KeptGrows ==
  ASSUME Grows, NEW b \in Batch, Kept(b)
  PROVE  Kept(b)'
<1>1. b.ids \in Seq(Id)
  BY BatchFields
<1>2. \A k \in DOMAIN b.ids : Held(b.ids[k], b.entries[k].content)'
  <2>1. SUFFICES ASSUME NEW k \in DOMAIN b.ids
                 PROVE  Held(b.ids[k], b.entries[k].content)'
    OBVIOUS
  <2>2. b.ids[k] \in Id /\ Held(b.ids[k], b.entries[k].content)
    BY <1>1 DEF Kept
  <2>3. QED
    BY <2>2 DEF Grows, Held
<1>3. QED
  BY <1>2 DEF Kept

\* What a batch goes by stays so while others write.
LEMMA ReadyGrows ==
  ASSUME RowsTyped, RowsTyped', Grows, RowsGrow, NEW b \in Batch, Kept(b), Ready(b)
  PROVE  Ready(b)'
<1>1. \A i : Rival(b, i) => Rival(b, i)'
  BY DEF Rival, Held, Grows
<1>2. b.at = "mark" => /\ Rival(b, b.id)'
                       /\ \E n \in DOMAIN items'[b.id] : items'[b.id][n] = b.base
                       /\ b.base.op = "ASSERT"
  BY <1>1 DEF Ready, Rival, Grows
<1>3. b.at = "bump" => b.count \in 1 .. mentions'[Stated(b).fact]
  <2>1. SUFFICES ASSUME b.at = "bump" PROVE b.count \in 1 .. mentions'[Stated(b).fact]
    OBVIOUS
  <2>2. Stated(b).fact \in Fact /\ b.count \in 1 .. mentions[Stated(b).fact]
    BY <2>1, LastEntry DEF Ready
  <2>3. /\ mentions[Stated(b).fact] \in Nat /\ mentions'[Stated(b).fact] \in Nat
        /\ mentions'[Stated(b).fact] >= mentions[Stated(b).fact]
    BY <2>2 DEF RowsTyped, RowsGrow
  <2>4. QED
    BY <2>2, <2>3
<1>4. QED
  BY <1>1, <1>2, <1>3 DEF Ready, RowsGrow

-----------------------------------------------------------------------------
(* Where a batch goes from where it is, it is ready for what comes.        *)

\* the steps that take nothing for granted which others can change
Resting == {"idle", "entry", "adding", "fact", "mention", "rivals", "demote", "segment",
            "link", "session"}

\* Between two entries a batch has read nothing that could be stale.
LEMMA RestingIsFresh == ASSUME NEW b \in Batch, b.at \in Resting PROVE Fresh(b)
  BY DEF Resting, Fresh

\* Where a batch goes after an entry.
LEMMA AfterEntryReady ==
  ASSUME NEW b \in Batch, Kept(b), b.at = AfterEntry(b)
  PROVE  Ready(b) /\ b.at \in Resting \ {"idle", "adding", "link"}
  BY DEF AfterEntry, AfterSegment, Ready, Resting

\* Where a batch goes after a segment.
LEMMA AfterSegmentReady ==
  ASSUME NEW b \in Batch, b.at = AfterSegment(b)
  PROVE  Ready(b) /\ b.at \in Resting \ {"idle", "adding", "link"}
  BY DEF AfterSegment, Ready, Resting

\* Where a batch goes after a rival.
LEMMA AfterRivalReady ==
  ASSUME NEW b \in Batch, Kept(b), b.ids # <<>>, Stated(b).contradicts # None,
         \A o \in b.old : Rival(b, o[2]), b.at = AfterRival(b)
  PROVE  Ready(b) /\ b.at \in Resting \ {"idle", "adding", "link"}
<1>1. CASE b.old = {}
  BY <1>1, AfterEntryReady DEF AfterRival
<1>2. CASE b.old # {}
  BY <1>2 DEF AfterRival, Ready, Resting
<1>3. QED
  BY <1>1, <1>2

\* Where a batch goes after its fact is recorded.
LEMMA AfterFactReady ==
  ASSUME NEW b \in Batch, Kept(b), b.ids # <<>>, b.at = AfterFact(b)
  PROVE  Ready(b) /\ b.at \in Resting \ {"idle", "adding", "link"}
<1>1. CASE Stated(b).contradicts = None
  BY <1>1, AfterEntryReady DEF AfterFact
<1>2. CASE Stated(b).contradicts # None
  BY <1>2 DEF AfterFact, Ready, Resting
<1>3. QED
  BY <1>1, <1>2

\* Where a batch goes after add_memory.
LEMMA AfterAddReady ==
  ASSUME NEW b \in Batch, b.ids # <<>>, b.at = AfterAdd(b), Kept(b)
  PROVE  Ready(b) /\ b.at \in Resting \ {"idle", "adding", "link"}
<1>1. CASE Stated(b).fact = None
  BY <1>1, AfterFactReady DEF AfterAdd
<1>2. CASE Stated(b).fact # None
  BY <1>2 DEF AfterAdd, Ready, Resting
<1>3. QED
  BY <1>1, <1>2

-----------------------------------------------------------------------------
(* One batch goes on.                                                      *)

\* One batch goes on and the store grows: the other batches stay as they were.
LEMMA BatchMoves ==
  ASSUME RowsTyped, RowsTyped', Grows, RowsGrow, BatchesOK,
         NEW cl \in Client, NEW new \in Batch, Become(cl, new),
         Kept(new)', Ready(new)', Paired(cl)',
         \A o \in Client \ {cl} : call'[o] = call[o]
  PROVE  BatchesOK'
<1>1. /\ batch' \in [Client -> Batch] /\ batch'[cl] = new
      /\ \A o \in Client \ {cl} : batch'[o] = batch[o]
  BY DEF BatchesOK, Become
<1>2. ASSUME NEW o \in Client PROVE BatchOK(o)'
  <2>1. CASE o = cl
    BY <1>1, <2>1 DEF BatchOK, Kept, Ready, Stated, NewId, Rival, Held
  <2>2. CASE o # cl
    <3>1. PICK b \in Batch : b = batch[o]
      BY DEF BatchesOK
    <3>2. Kept(b) /\ Ready(b)
      BY <3>1 DEF BatchesOK, BatchOK
    <3>3. Kept(b)' /\ Ready(b)'
      BY <3>2, KeptGrows, ReadyGrows
    <3>4. batch'[o] = b /\ call'[o] = call[o]
      BY <1>1, <2>2, <3>1
    <3>5. Kept(batch[o])' /\ Ready(batch[o])'
      BY <3>3, <3>4 DEF Kept, Ready, Stated, NewId, Rival, Held
    <3>6. Paired(o)'
      BY <3>1, <3>4 DEF BatchesOK, BatchOK, Paired, At, Idle, NextContent
    <3>7. QED
      BY <3>5, <3>6 DEF BatchOK
  <2>3. QED
    BY <2>1, <2>2
<1>3. QED
  BY <1>1, <1>2 DEF BatchesOK

\* A batch that is not idle is alone as long as none have overlapped.
LEMMA OthersIdle ==
  ASSUME CleanOK, clean, NEW cl \in Client, ~At(cl, "idle")
  PROVE  \A o \in Client \ {cl} : At(o, "idle")
  BY DEF CleanOK, Apart

\* One batch goes on, alone if no batches have overlapped.
LEMMA CleanMoves ==
  ASSUME BatchesOK, NEW cl \in Client, NEW new \in Batch, Become(cl, new),
         clean' => /\ \A o \in Client \ {cl} : At(o, "idle")
                   /\ ~overlapped' /\ SoleInv' /\ Counts' /\ Fresh(new)'
  PROVE  CleanOK'
<1>1. SUFFICES ASSUME clean' PROVE Apart' /\ \A o \in Client : Fresh(batch[o])'
  BY DEF CleanOK
<1>2. /\ batch'[cl] = new
      /\ \A o \in Client \ {cl} : batch'[o] = batch[o] /\ batch[o].at = "idle"
  BY <1>1 DEF BatchesOK, Become, At
<1>3. Apart'
  BY <1>2 DEF Apart, At
<1>4. ASSUME NEW o \in Client PROVE Fresh(batch[o])'
  <2>1. CASE o = cl
    BY <1>1, <1>2, <2>1 DEF Fresh, Stated, Shows
  <2>2. CASE o # cl
    BY <1>2, <2>2 DEF Fresh
  <2>3. QED
    BY <2>1, <2>2
<1>5. QED
  BY <1>3, <1>4

\* A step that leaves the memories, the calls, the rows and the counts alone.
LEMMA QuietMoves ==
  ASSUME BatchInv, NEW cl \in Client, NEW new \in Batch, Become(cl, new),
         UNCHANGED <<items, call, overlapped, triples, mentions>>,
         edges' \subseteq Edge, clean' \in BOOLEAN,
         Kept(new), Ready(new), new.at # "adding", ~At(cl, "adding"),
         clean' => clean /\ Fresh(new) /\ \A o \in Client \ {cl} : At(o, "idle")
  PROVE  BatchInv'
<1>1. CoreInv' /\ Grows
  BY StillKeepsInv DEF BatchInv
<1>2. RowsTyped' /\ RowsGrow
  BY DEF BatchInv, RowsOK, RowsTyped, RowsGrow
<1>3. RowsOK'
  <2>1. TripleHasMemory' /\ DemotedHasRival'
    BY DEF BatchInv, RowsOK, TripleHasMemory, DemotedHasRival, Held
  <2>2. QED
    BY <1>2, <2>1 DEF BatchInv, RowsOK
<1>4. BatchesOK'
  <2>1. Kept(new)' /\ Ready(new)'
    BY <1>1, <1>2, KeptGrows, ReadyGrows DEF BatchInv, RowsOK
  <2>2. batch'[cl] = new
    BY DEF BatchInv, BatchesOK, Become
  <2>3. Paired(cl)'
    BY <2>2 DEF BatchInv, BatchesOK, BatchOK, Paired, At, Idle
  <2>4. QED
    BY <1>1, <1>2, <2>1, <2>3, BatchMoves DEF BatchInv, RowsOK
<1>5. CleanOK'
  <2>1. ASSUME clean'
        PROVE  ~overlapped' /\ SoleInv' /\ Counts' /\ Fresh(new)'
    <3>1. SoleInv /\ ~overlapped /\ Counts /\ Fresh(new)
      BY <2>1 DEF BatchInv, CleanOK
    <3>2. SoleInv'
      BY <3>1, QuietKeepsSole
    <3>3. Counts' /\ Fresh(new)'
      BY <3>1 DEF Counts, Fresh, Shows, Visible, Current
    <3>4. QED
      BY <3>1, <3>2, <3>3
  <2>2. QED
    BY <2>1, CleanMoves DEF BatchInv
<1>6. QED
  BY <1>1, <1>3, <1>4, <1>5 DEF BatchInv

-----------------------------------------------------------------------------
(* The steps.                                                              *)

\* A client in no batch goes by nothing.
LEMMA NoBatchIsReady ==
  NoBatch \in Batch /\ Kept(NoBatch) /\ Ready(NoBatch) /\ Fresh(NoBatch) /\ NoBatch.at = "idle"
<1>1. NoBatch \in Batch
  BY DEF NoBatch, Batch, BatchPhase, Owner
<1>2. NoBatch.ids = <<>> /\ NoBatch.entries = <<>> /\ NoBatch.at = "idle"
  BY DEF NoBatch
<1>3. QED
  BY <1>1, <1>2 DEF Kept, Ready, Fresh

\* The invariant holds initially.
LEMMA InitBatch == BatchInit => BatchInv
<1>1. SUFFICES ASSUME BatchInit PROVE BatchInv
  OBVIOUS
<1>2. /\ Init /\ triples = [f \in {} |-> None] /\ DOMAIN triples = {}
      /\ batch = [cl \in Client |-> NoBatch]
      /\ mentions = [f \in Fact |-> 0] /\ clean = TRUE
  BY <1>1 DEF BatchInit
<1>3. CoreInv
  BY <1>2, InitInv DEF AddInv
<1>4. /\ items = [i \in Id |-> <<>>] /\ edges = {} /\ ~overlapped
      /\ call = [cl \in Client |-> NoCall]
  BY <1>2 DEF Init, StoreInit
<1>5. RowsOK
  BY <1>2, <1>4 DEF RowsOK, RowsTyped, TripleHasMemory, DemotedHasRival
<1>6. BatchesOK
  BY <1>2, <1>4, NoBatchIsReady DEF BatchesOK, BatchOK, Paired, At, Idle, NoCall
<1>7. CleanOK
  <2>1. SoleInv
    BY <1>2, InitSole
  <2>2. Apart /\ Counts /\ \A cl \in Client : Fresh(batch[cl])
    BY <1>2, NoBatchIsReady DEF Apart, At, Counts
  <2>3. QED
    BY <1>4, <2>1, <2>2 DEF CleanOK
<1>8. QED
  BY <1>3, <1>5, <1>6, <1>7 DEF BatchInv

\* n is b at phase p
Moved(b, n, p) ==
  /\ n.at = p /\ n.user = b.user /\ n.entries = b.entries /\ n.segments = b.segments
  /\ n.ids = b.ids /\ n.raws = b.raws /\ n.old = b.old /\ n.count = b.count
  /\ n.id = b.id /\ n.base = b.base

\* A batch goes to its next place.
LEMMA PhaseMoves ==
  ASSUME NEW b \in Batch, NEW p \in BatchPhase
  PROVE  \E n \in Batch : n = [b EXCEPT !.at = p] /\ Moved(b, n, p)
<1>1. PICK n : n = [b EXCEPT !.at = p]
  OBVIOUS
<1>2. n \in Batch /\ Moved(b, n, p)
  BY <1>1 DEF Batch, Moved
<1>3. QED
  BY <1>1, <1>2

\* A batch begins with the answer of the LLM.
LEMMA StartBatchKeeps ==
  ASSUME BatchInv, NEW cl \in Client, NEW u \in Owner, NEW r \in Reply, StartBatch(cl, u, r)
  PROVE  BatchInv'
<1> DEFINE b == [NoBatch EXCEPT !.user = u, !.entries = r.entries, !.segments = r.segments]
<1>1. r.entries \in Seq(Entry) /\ r.segments \in Seq(Content)
  BY ReplyAssumption
<1>2. PICK new \in Batch : /\ new = [b EXCEPT !.at = AfterEntry(b)]
                           /\ new.at = AfterEntry(new)
                           /\ new.entries = r.entries /\ new.ids = <<>>
  <2>1. /\ b \in Batch /\ b.entries = r.entries /\ b.ids = <<>> /\ b.segments = r.segments
    <3>1. PICK n : n = NoBatch
      OBVIOUS
    <3>2. n \in Batch /\ n.ids = <<>>
      BY <3>1, NoBatchIsReady DEF NoBatch
    <3>3. b = [n EXCEPT !.user = u, !.entries = r.entries, !.segments = r.segments]
      BY <3>1
    <3>4. QED
      BY <1>1, <3>2, <3>3 DEF Batch
  <2>2. AfterEntry(b) \in BatchPhase
    BY DEF AfterEntry, AfterSegment, BatchPhase
  <2> HIDE DEF b
  <2>3. PICK n \in Batch : n = [b EXCEPT !.at = AfterEntry(b)] /\ Moved(b, n, AfterEntry(b))
    BY <2>1, <2>2, PhaseMoves
  <2>4. /\ n.at = AfterEntry(b) /\ n.entries = b.entries /\ n.ids = b.ids
        /\ n.segments = b.segments
    BY <2>3 DEF Moved
  <2>5. AfterEntry(n) = AfterEntry(b)
    BY <2>4 DEF AfterEntry, AfterSegment
  <2>6. QED
    BY <2>1, <2>3, <2>4, <2>5
<1>3. Kept(new)
  BY <1>1, <1>2 DEF Kept, Said
<1>4. Ready(new) /\ new.at \in Resting \ {"idle", "adding", "link"}
  BY <1>2, <1>3, AfterEntryReady
<1>5. Fresh(new)
  BY <1>4, RestingIsFresh
<1>6. /\ Become(cl, new) /\ At(cl, "idle") /\ UNCHANGED <<vars, triples, mentions>>
      /\ clean' = (clean /\ \A other \in Client : At(other, "idle"))
  BY <1>2 DEF StartBatch
<1>7. QED
  BY <1>3, <1>4, <1>5, <1>6, QuietMoves
     DEF At, vars, storeVars, BatchInv, RowsOK, RowsTyped

\* What a batch is about stays when only its phase moves.
LEMMA MovedKept ==
  ASSUME NEW b \in Batch, NEW n \in Batch, NEW p, Moved(b, n, p)
  PROVE  /\ Kept(b) => Kept(n)
         /\ Stated(n) = Stated(b) /\ NewId(n) = NewId(b)
         /\ AfterSegment(n) = AfterSegment(b) /\ AfterEntry(n) = AfterEntry(b)
         /\ AfterRival(n) = AfterRival(b) /\ AfterFact(n) = AfterFact(b)
         /\ AfterAdd(n) = AfterAdd(b)
         /\ \A i : Rival(b, i) => Rival(n, i)
<1>1. Stated(n) = Stated(b) /\ NewId(n) = NewId(b) /\ AfterSegment(n) = AfterSegment(b)
  BY DEF Moved, Stated, NewId, AfterSegment
<1>2. AfterEntry(n) = AfterEntry(b)
  BY <1>1 DEF Moved, AfterEntry
<1>3. AfterRival(n) = AfterRival(b) /\ AfterFact(n) = AfterFact(b)
  BY <1>1, <1>2 DEF Moved, AfterRival, AfterFact
<1>4. AfterAdd(n) = AfterAdd(b)
  BY <1>1, <1>3 DEF AfterAdd
<1>5. Kept(b) => Kept(n)
  BY DEF Moved, Kept
<1>6. \A i : Rival(b, i) => Rival(n, i)
  BY <1>1 DEF Rival
<1>7. QED
  BY <1>1, <1>2, <1>3, <1>4, <1>5, <1>6

\* Wherever a batch goes is a place of the program.
LEMMA AfterPhases ==
  ASSUME NEW b
  PROVE  /\ AfterSegment(b) \in BatchPhase /\ AfterEntry(b) \in BatchPhase
         /\ AfterRival(b) \in BatchPhase /\ AfterFact(b) \in BatchPhase
         /\ AfterAdd(b) \in BatchPhase
<1>1. AfterSegment(b) \in BatchPhase /\ AfterEntry(b) \in BatchPhase
  BY DEF AfterSegment, AfterEntry, BatchPhase
<1>2. AfterRival(b) \in BatchPhase /\ AfterFact(b) \in BatchPhase
  BY <1>1 DEF AfterRival, AfterFact, BatchPhase
<1>3. QED
  BY <1>1, <1>2 DEF AfterAdd, BatchPhase

\* a batch that has done one thing and is ready for the next
Settled(n) ==
  Kept(n) /\ Ready(n) /\ Fresh(n) /\ n.at \in Resting \ {"idle", "adding", "link"}

\* A batch goes on to its segments.
LEMMA ToSegment ==
  ASSUME NEW b \in Batch, Kept(b)
  PROVE  \E n \in Batch : /\ n = [b EXCEPT !.at = AfterSegment(b)]
                          /\ Moved(b, n, AfterSegment(b)) /\ Settled(n)
<1>1. PICK n \in Batch : n = [b EXCEPT !.at = AfterSegment(b)] /\ Moved(b, n, AfterSegment(b))
  BY PhaseMoves, AfterPhases
<1>2. Kept(n) /\ n.at = AfterSegment(n)
  BY <1>1, MovedKept DEF Moved
<1>3. QED
  BY <1>1, <1>2, AfterSegmentReady, RestingIsFresh DEF Settled

\* A batch goes on to the next rival.
LEMMA ToRival ==
  ASSUME NEW b \in Batch, Kept(b), b.ids # <<>>, Stated(b).contradicts # None,
         \A o \in b.old : Rival(b, o[2])
  PROVE  \E n \in Batch : /\ n = [b EXCEPT !.at = AfterRival(b)]
                          /\ Moved(b, n, AfterRival(b)) /\ Settled(n)
<1>1. PICK n \in Batch : n = [b EXCEPT !.at = AfterRival(b)] /\ Moved(b, n, AfterRival(b))
  BY PhaseMoves, AfterPhases
<1>2. /\ Kept(n) /\ Stated(n).contradicts # None /\ AfterRival(n) = AfterRival(b)
      /\ \A i : Rival(b, i) => Rival(n, i)
  BY <1>1, MovedKept
<1>3. n.at = AfterRival(n) /\ n.ids # <<>> /\ n.old = b.old
  BY <1>1, <1>2 DEF Moved
<1>4. \A o \in n.old : Rival(n, o[2])
  BY <1>2, <1>3
<1>5. QED
  BY <1>1, <1>2, <1>3, <1>4, AfterRivalReady, RestingIsFresh DEF Settled

\* A batch goes on from its fact.
LEMMA ToFact ==
  ASSUME NEW b \in Batch, Kept(b), b.ids # <<>>
  PROVE  \E n \in Batch : /\ n = [b EXCEPT !.at = AfterFact(b)]
                          /\ Moved(b, n, AfterFact(b)) /\ Settled(n)
<1>1. PICK n \in Batch : n = [b EXCEPT !.at = AfterFact(b)] /\ Moved(b, n, AfterFact(b))
  BY PhaseMoves, AfterPhases
<1>2. Kept(n) /\ n.at = AfterFact(n) /\ n.ids # <<>>
  BY <1>1, MovedKept DEF Moved
<1>3. QED
  BY <1>1, <1>2, AfterFactReady, RestingIsFresh DEF Settled

\* A batch at work is ready, its calls of add_memory have ended, and it is alone as long
\* as none have overlapped.
LEMMA Working ==
  ASSUME BatchInv, NEW cl \in Client, ~At(cl, "idle"), ~At(cl, "adding")
  PROVE  \E b \in Batch :
           /\ b = batch[cl] /\ Kept(b) /\ Ready(b)
           /\ Idle(cl)
           /\ clean => Fresh(b) /\ \A o \in Client \ {cl} : At(o, "idle")
<1>1. batch[cl] \in Batch /\ Kept(batch[cl]) /\ Ready(batch[cl]) /\ Idle(cl)
  BY DEF BatchInv, BatchesOK, BatchOK, Paired
<1>2. clean => Fresh(batch[cl]) /\ \A o \in Client \ {cl} : At(o, "idle")
  BY OthersIdle DEF BatchInv, CleanOK
<1>3. QED
  BY <1>1, <1>2

\* The quiet steps of such a batch.
LEMMA WorkMoves ==
  ASSUME BatchInv, NEW cl \in Client, ~At(cl, "idle"), ~At(cl, "adding"),
         NEW new \in Batch, Become(cl, new), Kept(new), Ready(new), new.at # "adding",
         clean' => clean /\ Fresh(new), clean' \in BOOLEAN,
         UNCHANGED <<vars, triples, mentions>>
  PROVE  BatchInv'
  BY Working, QuietMoves DEF vars, storeVars, BatchInv, RowsOK, RowsTyped

\* search_triples, whose error counts as nothing found.
LEMMA FindFactKeeps ==
  ASSUME BatchInv, NEW cl \in Client, FindFact(cl)
  PROVE  BatchInv'
<1>1. At(cl, "fact") /\ ~At(cl, "idle") /\ ~At(cl, "adding") /\ clean \in BOOLEAN
  BY DEF FindFact, At, BatchInv, RowsOK, RowsTyped
<1>2. PICK b \in Batch : b = batch[cl] /\ Kept(b) /\ Ready(b) /\ b.at = "fact"
  BY <1>1, Working DEF At
<1>3. b.ids # <<>> /\ Stated(b).fact # None
  BY <1>2 DEF Ready
<1>4. CASE Stated(b).fact \in DOMAIN triples /\ GoTo(cl, "mention") /\ UNCHANGED clean
  <2>1. PICK n \in Batch : n = [b EXCEPT !.at = "mention"] /\ Moved(b, n, "mention")
    BY PhaseMoves DEF BatchPhase
  <2>2. Kept(n) /\ Stated(n) = Stated(b)
    BY <1>2, <2>1, MovedKept
  <2>3. n.at = "mention" /\ n.ids # <<>>
    BY <1>3, <2>1 DEF Moved
  <2>4. Ready(n) /\ Fresh(n)
    BY <1>3, <1>4, <2>2, <2>3 DEF Ready, Fresh
  <2>5. QED
    BY <1>1, <1>2, <1>4, <2>1, <2>2, <2>3, <2>4, WorkMoves DEF FindFact, GoTo
<1>5. CASE GoTo(cl, "put") /\ (clean' => clean /\ Stated(b).fact \notin DOMAIN triples)
  <2>1. PICK n \in Batch : n = [b EXCEPT !.at = "put"] /\ Moved(b, n, "put")
    BY PhaseMoves DEF BatchPhase
  <2>2. Kept(n) /\ Stated(n) = Stated(b)
    BY <1>2, <2>1, MovedKept
  <2>3. n.at = "put" /\ n.ids # <<>>
    BY <1>3, <2>1 DEF Moved
  <2>4. Ready(n) /\ (clean' => Fresh(n))
    BY <1>3, <1>5, <2>2, <2>3 DEF Ready, Fresh
  <2>5. clean' \in BOOLEAN
    BY <1>1 DEF FindFact, Swallowed
  <2>6. QED
    BY <1>1, <1>2, <1>5, <2>1, <2>2, <2>3, <2>4, <2>5, WorkMoves DEF FindFact, GoTo
<1>6. CASE Stated(b).fact \notin DOMAIN triples /\ GoTo(cl, "put") /\ UNCHANGED clean
  BY <1>5, <1>6
<1>7. CASE GoTo(cl, "put") /\ Swallowed
  BY <1>5, <1>7 DEF Swallowed
<1>8. QED
  BY <1>2, <1>4, <1>6, <1>7 DEF FindFact

\* The query of increment_triple_mention.
LEMMA ReadMentionKeeps ==
  ASSUME BatchInv, NEW cl \in Client, ReadMention(cl)
  PROVE  BatchInv'
<1>1. At(cl, "mention") /\ ~At(cl, "idle") /\ ~At(cl, "adding") /\ clean \in BOOLEAN
  BY DEF ReadMention, At, BatchInv, RowsOK, RowsTyped
<1>2. PICK b \in Batch : b = batch[cl] /\ Kept(b) /\ Ready(b) /\ b.at = "mention"
  BY <1>1, Working DEF At
<1>3. b.ids # <<>> /\ Stated(b).fact # None /\ Stated(b).fact \in DOMAIN triples
  BY <1>2 DEF Ready
<1> DEFINE f == Stated(b).fact
<1>4. CASE Become(cl, [b EXCEPT !.at = "bump", !.count = triples[f].count]) /\ UNCHANGED clean
  <2>1. triples[f].count \in Nat /\ triples[f].count \in 1 .. mentions[f]
    BY <1>3 DEF BatchInv, RowsOK, RowsTyped, Triple
  <2>2. clean => triples[f].count = mentions[f]
    BY <1>3 DEF BatchInv, RowsOK, RowsTyped, CleanOK, Counts
  <2>3. PICK n : n = [b EXCEPT !.at = "bump", !.count = triples[f].count]
    OBVIOUS
  <2>4. /\ n \in Batch /\ n.at = "bump" /\ n.count = triples[f].count
        /\ n.ids = b.ids /\ n.entries = b.entries
    BY <2>1, <2>3 DEF Batch, BatchPhase
  <2>5. Kept(n) /\ Stated(n) = Stated(b)
    BY <1>2, <2>4 DEF Kept, Stated
  <2>6. Ready(n) /\ (clean => Fresh(n))
    BY <1>3, <2>1, <2>2, <2>4, <2>5 DEF Ready, Fresh
  <2>7. QED
    BY <1>1, <1>4, <2>3, <2>4, <2>5, <2>6, WorkMoves DEF ReadMention
<1>5. CASE GoTo(cl, AfterFact(b)) /\ Swallowed
  <2>1. PICK n \in Batch : n = [b EXCEPT !.at = AfterFact(b)] /\ Settled(n)
    BY <1>2, <1>3, ToFact
  <2>2. QED
    BY <1>1, <1>2, <1>5, <2>1, WorkMoves DEF ReadMention, GoTo, Settled, Swallowed
<1>6. QED
  BY <1>2, <1>4, <1>5 DEF ReadMention

\* The triples a statement contradicts belong to memories that held a fact against it.
LEMMA RivalsAreRivals ==
  ASSUME CoreInv, RowsOK, NEW b \in Batch
  PROVE  LET old == Rivals(Stated(b).contradicts, NewId(b))
         IN  old \in SUBSET (Fact \X Id) /\ \A o \in old : Rival(b, o[2])
<1> DEFINE t == Stated(b).contradicts
           i == NewId(b)
<1>1. SUFFICES ASSUME NEW o \in Rivals(t, i)
               PROVE  o \in Fact \X Id /\ Rival(b, o[2])
  OBVIOUS
<1>2. PICK f \in DOMAIN triples : /\ TopicOf[f] = t /\ triples[f].memory # i
                                  /\ o = <<f, triples[f].memory>>
  BY DEF Rivals
<1>3. f \in Fact /\ triples[f].memory \in Id
  BY DEF RowsOK, RowsTyped, Triple
<1>4. PICK e \in Said : e.fact = f /\ Held(triples[f].memory, e.content)
  BY DEF RowsOK, TripleHasMemory
<1>5. e.fact # None
  BY <1>3, <1>4, ReplyAssumption
<1>6. o[2] = triples[f].memory /\ o \in Fact \X Id
  BY <1>2, <1>3
<1>7. QED
  BY <1>2, <1>3, <1>4, <1>5, <1>6 DEF Rival

\* search_triples of what is contradicted.
LEMMA FindRivalsKeeps ==
  ASSUME BatchInv, NEW cl \in Client, FindRivals(cl)
  PROVE  BatchInv'
<1>1. At(cl, "rivals") /\ ~At(cl, "idle") /\ ~At(cl, "adding") /\ clean \in BOOLEAN
  BY DEF FindRivals, At, BatchInv, RowsOK, RowsTyped
<1>2. PICK b \in Batch : b = batch[cl] /\ Kept(b) /\ Ready(b) /\ b.at = "rivals"
  BY <1>1, Working DEF At
<1>3. b.ids # <<>> /\ Stated(b).contradicts # None
  BY <1>2 DEF Ready
<1>4. ASSUME NEW old \in SUBSET (Fact \X Id), \A o \in old : Rival(b, o[2]),
             Become(cl, [[b EXCEPT !.old = old] EXCEPT
                           !.at = AfterRival([b EXCEPT !.old = old])]),
             clean' \in BOOLEAN, clean' => clean
      PROVE  BatchInv'
  <2>1. PICK c : c = [b EXCEPT !.old = old]
    OBVIOUS
  <2>2. c \in Batch /\ c.old = old /\ c.ids = b.ids /\ c.entries = b.entries
    BY <2>1 DEF Batch
  <2>3. Kept(c) /\ Stated(c) = Stated(b) /\ NewId(c) = NewId(b)
    BY <1>2, <2>2 DEF Kept, Stated, NewId
  <2>4. \A o \in c.old : Rival(c, o[2])
    BY <1>4, <2>2, <2>3 DEF Rival
  <2>5. PICK n \in Batch : n = [c EXCEPT !.at = AfterRival(c)] /\ Settled(n)
    BY <1>3, <2>2, <2>3, <2>4, ToRival
  <2>6. Become(cl, n)
    BY <1>4, <2>1, <2>5
  <2>7. QED
    BY <1>1, <1>4, <2>5, <2>6, WorkMoves DEF FindRivals, Settled
<1>5. Rivals(Stated(b).contradicts, NewId(b)) \in SUBSET (Fact \X Id)
  BY RivalsAreRivals DEF BatchInv
<1>6. \A o \in Rivals(Stated(b).contradicts, NewId(b)) : Rival(b, o[2])
  BY RivalsAreRivals DEF BatchInv
<1>7. PICK old \in {Rivals(Stated(b).contradicts, NewId(b)), {}} :
        Become(cl, [[b EXCEPT !.old = old] EXCEPT
                      !.at = AfterRival([b EXCEPT !.old = old])])
  BY <1>2 DEF FindRivals
<1>8. clean' \in BOOLEAN /\ (clean' => clean)
  <2>1. UNCHANGED clean \/ Swallowed
    BY Zenon DEF FindRivals
  <2>2. CASE UNCHANGED clean
    BY <1>1, <2>2
  <2>3. CASE Swallowed
    BY <2>3 DEF Swallowed
  <2>4. QED
    BY <2>1, <2>2, <2>3
<1>9. old \in SUBSET (Fact \X Id) /\ \A o \in old : Rival(b, o[2])
  <2>1. CASE old = {}
    BY <2>1
  <2>2. CASE old = Rivals(Stated(b).contradicts, NewId(b))
    BY <1>5, <1>6, <2>2
  <2>3. QED
    BY <2>1, <2>2
<1>10. QED
  BY <1>4, <1>7, <1>8, <1>9

\* get_memory of a rival.
LEMMA ReadRivalKeeps ==
  ASSUME BatchInv, NEW cl \in Client, ReadRival(cl)
  PROVE  BatchInv'
<1>1. At(cl, "demote") /\ ~At(cl, "idle") /\ ~At(cl, "adding") /\ clean \in BOOLEAN
      /\ UNCHANGED clean /\ UNCHANGED <<vars, triples, mentions>>
  BY DEF ReadRival, At, BatchInv, RowsOK, RowsTyped
<1>2. PICK b \in Batch : /\ b = batch[cl] /\ Kept(b) /\ Ready(b) /\ b.at = "demote"
  BY <1>1, Working DEF At
<1>3. b.ids # <<>> /\ Stated(b).contradicts # None /\ \A o \in b.old : Rival(b, o[2])
  BY <1>2 DEF Ready
<1>4. PICK o \in b.old :
        LET c == [b EXCEPT !.old = @ \ {o}]
        IN  \/ /\ Visible(o[2])
               /\ Become(cl, [c EXCEPT !.at = "mark", !.id = o[2], !.base = Current(o[2])])
            \/ Become(cl, [c EXCEPT !.at = AfterRival(c)])
  BY <1>2 DEF ReadRival
<1>5. PICK c : c = [b EXCEPT !.old = @ \ {o}]
  OBVIOUS
<1>6. /\ c \in Batch /\ c.old = b.old \ {o} /\ c.ids = b.ids /\ c.entries = b.entries
      /\ c.at = b.at
  BY <1>5 DEF Batch
<1>7. Kept(c) /\ Stated(c) = Stated(b) /\ NewId(c) = NewId(b)
  BY <1>2, <1>6 DEF Kept, Stated, NewId
<1>8. \A i : Rival(b, i) => Rival(c, i)
  BY <1>7 DEF Rival
<1>9. CASE Visible(o[2]) /\ Become(cl, [c EXCEPT !.at = "mark", !.id = o[2],
                                                !.base = Current(o[2])])
  <2> DEFINE i == o[2]
  <2>1. Rival(c, i) /\ i \in Id
    BY <1>3, <1>8 DEF Rival
  <2>2. items[i] \in Seq(Version) /\ items[i] # <<>>
    BY <1>9, <2>1 DEF BatchInv, CoreInv, ItemsOK, Visible
  <2>3. /\ Current(i) \in Version /\ Current(i).op = "ASSERT"
        /\ \E n \in DOMAIN items[i] : items[i][n] = Current(i)
    <3>1. Len(items[i]) \in DOMAIN items[i]
      BY <2>2
    <3>2. QED
      BY <1>9, <2>2, <3>1 DEF Current, Visible
  <2>4. PICK v \in Version : v = Current(i)
    BY <2>3
  <2>5. PICK n : n = [c EXCEPT !.at = "mark", !.id = i, !.base = v]
    OBVIOUS
  <2>6. /\ n \in Batch /\ n.at = "mark" /\ n.id = i /\ n.base = v
        /\ n.old = c.old /\ n.ids = c.ids /\ n.entries = c.entries
    BY <1>6, <2>1, <2>5 DEF Batch, BatchPhase
  <2>7. Kept(n) /\ Stated(n) = Stated(c) /\ NewId(n) = NewId(c)
    BY <1>7, <2>6 DEF Kept, Stated, NewId
  <2>8. \A j : Rival(c, j) => Rival(n, j)
    BY <2>7 DEF Rival
  <2>9. Ready(n)
    BY <1>3, <1>6, <1>7, <1>8, <2>1, <2>3, <2>4, <2>6, <2>7, <2>8 DEF Ready
  <2>10. clean => Fresh(n)
    <3>1. SUFFICES ASSUME clean, NEW j \in Id \ {i}
                   PROVE  ~Shows(j, v.content, v.user)
      BY <2>6 DEF Fresh
    <3>2. Shows(i, v.content, v.user)
      BY <1>9, <2>4 DEF Shows
    <3>3. Unique
      BY <3>1 DEF BatchInv, CleanOK, SoleInv
    <3>4. QED
      BY <2>1, <3>2, <3>3 DEF Unique
  <2>11. Become(cl, n)
    BY <1>9, <2>4, <2>5
  <2>12. QED
    BY <1>1, <2>6, <2>7, <2>9, <2>10, <2>11, WorkMoves
<1>10. CASE Become(cl, [c EXCEPT !.at = AfterRival(c)])
  <2>1. \A p \in c.old : Rival(c, p[2])
    BY <1>3, <1>6, <1>8
  <2>2. PICK n \in Batch : n = [c EXCEPT !.at = AfterRival(c)] /\ Settled(n)
    BY <1>3, <1>6, <1>7, <2>1, ToRival
  <2>3. QED
    BY <1>1, <1>10, <2>2, WorkMoves DEF Settled
<1>11. QED
  BY <1>4, <1>5, <1>9, <1>10

\* find_by_hash of a segment.
LEMMA FindSegmentKeeps ==
  ASSUME BatchInv, NEW cl \in Client, FindSegment(cl)
  PROVE  BatchInv'
<1>1. At(cl, "segment") /\ ~At(cl, "idle") /\ ~At(cl, "adding") /\ clean \in BOOLEAN
  BY DEF FindSegment, At, BatchInv, RowsOK, RowsTyped
<1>2. PICK b \in Batch : b = batch[cl] /\ Kept(b) /\ Ready(b) /\ b.at = "segment"
  BY <1>1, Working DEF At
<1>3. b.segments # <<>> /\ b.segments \in Seq(Content) /\ b.user \in Owner
  BY <1>2, BatchFields DEF Ready
<1>4. CASE /\ Become(cl, [[b EXCEPT !.segments = Tail(@)] EXCEPT
                            !.at = AfterSegment([b EXCEPT !.segments = Tail(@)])])
           /\ UNCHANGED clean
  <2>1. PICK c : c = [b EXCEPT !.segments = Tail(@)]
    OBVIOUS
  <2>2. Tail(b.segments) \in Seq(Content)
    BY <1>3
  <2>3. c \in Batch /\ c.ids = b.ids /\ c.entries = b.entries
    BY <2>1, <2>2 DEF Batch
  <2>4. Kept(c)
    BY <1>2, <2>3 DEF Kept
  <2>5. PICK n \in Batch : n = [c EXCEPT !.at = AfterSegment(c)] /\ Settled(n)
    BY <2>3, <2>4, ToSegment
  <2>6. QED
    BY <1>1, <1>4, <2>1, <2>5, WorkMoves DEF FindSegment, Settled
<1>5. CASE GoTo(cl, "store") /\ (clean' => clean /\ Known(b) = {})
  <2>1. PICK n \in Batch : n = [b EXCEPT !.at = "store"] /\ Moved(b, n, "store")
    BY PhaseMoves DEF BatchPhase
  <2>2. Kept(n)
    BY <1>2, <2>1, MovedKept
  <2>3. n.at = "store" /\ n.segments = b.segments /\ n.user = b.user
    BY <2>1 DEF Moved
  <2>4. Ready(n) /\ (clean' => Fresh(n))
    BY <1>3, <1>5, <2>3 DEF Ready, Fresh, Known, FindByHash, Shows, Matches
  <2>5. clean' \in BOOLEAN
    BY <1>1 DEF FindSegment, Swallowed
  <2>6. QED
    BY <1>1, <1>2, <1>5, <2>1, <2>2, <2>3, <2>4, <2>5, WorkMoves DEF FindSegment, GoTo
<1>6. CASE Known(b) = {} /\ GoTo(cl, "store") /\ UNCHANGED clean
  BY <1>5, <1>6
<1>7. CASE GoTo(cl, "store") /\ Swallowed
  BY <1>5, <1>7 DEF Swallowed
<1>8. QED
  BY <1>2, <1>4, <1>6, <1>7 DEF FindSegment

\* The links of a segment.
LEMMA LinkSegmentKeeps ==
  ASSUME BatchInv, NEW cl \in Client, LinkSegment(cl)
  PROVE  BatchInv'
<1>1. /\ At(cl, "link") /\ ~At(cl, "idle") /\ ~At(cl, "adding") /\ clean \in BOOLEAN
      /\ UNCHANGED <<items, call, overlapped, triples, mentions, clean>>
  BY DEF LinkSegment, At, BatchInv, RowsOK, RowsTyped
<1>2. PICK b \in Batch : /\ b = batch[cl] /\ Kept(b) /\ Ready(b) /\ b.at = "link"
                         /\ clean => \A o \in Client \ {cl} : At(o, "idle")
  BY <1>1, Working DEF At
<1>3. /\ b.segments # <<>> /\ b.segments \in Seq(Content) /\ b.user \in Owner
      /\ b.id \in Id /\ b.raws \in SUBSET Id
  BY <1>2, BatchFields DEF Ready
<1>4. edges' \subseteq Edge
  <2>1. PICK hits \in SearchSemantic(Head(b.segments), 3, b.user) :
          \E es \in SUBSET {[from |-> b.id, to |-> h[1], relation |-> "relates_to"] :
                              h \in {g \in hits :
                                       /\ g[1] # b.id
                                       /\ <<Hit(g).content, Head(b.segments)>> \in Related}} :
            PutEdges(es)
    BY <1>2 DEF LinkSegment
  <2>2. PICK es \in SUBSET {[from |-> b.id, to |-> h[1], relation |-> "relates_to"] :
                              h \in {g \in hits :
                                       /\ g[1] # b.id
                                       /\ <<Hit(g).content, Head(b.segments)>> \in Related}} :
               PutEdges(es)
    BY <2>1
  <2>3. \A e \in es : e \in Edge
    BY <1>3, <2>1, <2>2, HitsAreLinked DEF BatchInv, CoreInv
  <2>4. QED
    BY <2>2, <2>3 DEF PutEdges, BatchInv, RowsOK, RowsTyped
<1>5. PICK c : c = [b EXCEPT !.segments = Tail(@), !.raws = @ \cup {b.id}, !.id = None]
  OBVIOUS
<1>6. c \in Batch /\ c.ids = b.ids /\ c.entries = b.entries
  <2>1. Tail(b.segments) \in Seq(Content) /\ b.raws \cup {b.id} \in SUBSET Id
    BY <1>3
  <2>2. QED
    BY <1>5, <2>1 DEF Batch
<1>7. Kept(c)
  BY <1>2, <1>6 DEF Kept
<1>8. PICK n \in Batch : n = [c EXCEPT !.at = AfterSegment(c)] /\ Settled(n)
  BY <1>6, <1>7, ToSegment
<1>9. Become(cl, n)
  BY <1>2, <1>5, <1>8 DEF LinkSegment
<1>10. QED
  BY <1>1, <1>2, <1>4, <1>8, <1>9, QuietMoves DEF Settled

\* The links of a session.
LEMMA LinkSessionKeeps ==
  ASSUME BatchInv, NEW cl \in Client, LinkSession(cl)
  PROVE  BatchInv'
<1>1. /\ At(cl, "session") /\ ~At(cl, "idle") /\ ~At(cl, "adding") /\ clean \in BOOLEAN
      /\ UNCHANGED <<items, call, overlapped, triples, mentions, clean>>
      /\ Become(cl, NoBatch)
  BY DEF LinkSession, At, BatchInv, RowsOK, RowsTyped
<1> DEFINE b == batch[cl]
           extracted == {b.ids[k] : k \in DOMAIN b.ids}
           pairs == {p \in (b.raws \X extracted) \cup (extracted \X b.raws) : p[1] # p[2]}
<1>2. b \in Batch /\ (clean => \A o \in Client \ {cl} : At(o, "idle"))
  BY <1>1, Working
<1>3. b.raws \subseteq Id /\ extracted \subseteq Id
  BY <1>2, BatchFields
<1>4. PICK ps \in SUBSET pairs :
        PutEdges({[from |-> p[1], to |-> p[2], relation |-> "during_session"] : p \in ps})
  BY DEF LinkSession
<1>5. \A p \in ps : p[1] \in Id /\ p[2] \in Id
  BY <1>3
<1>6. edges' \subseteq Edge
  <2>1. \A p \in ps : [from |-> p[1], to |-> p[2], relation |-> "during_session"] \in Edge
    BY <1>5 DEF Edge
  <2>2. {[from |-> p[1], to |-> p[2], relation |-> "during_session"] : p \in ps} \subseteq Edge
    BY <2>1
  <2>3. QED
    BY <1>4, <2>2 DEF PutEdges, BatchInv, RowsOK, RowsTyped
<1>7. PICK n \in Batch : n = NoBatch /\ Kept(n) /\ Ready(n) /\ Fresh(n) /\ n.at = "idle"
  BY NoBatchIsReady
<1>8. QED
  BY <1>1, <1>2, <1>6, <1>7, QuietMoves

\* An error ends a batch, and its writes stay.
LEMMA EndedBatchKeeps ==
  ASSUME BatchInv, NEW cl \in Client, batch[cl].at \in {"entry", "store", "link"},
         Become(cl, NoBatch), UNCHANGED <<vars, triples, mentions, clean>>
  PROVE  BatchInv'
<1>1. ~At(cl, "idle") /\ ~At(cl, "adding") /\ clean \in BOOLEAN
  BY DEF At, BatchInv, RowsOK, RowsTyped
<1>2. PICK n \in Batch : n = NoBatch /\ Kept(n) /\ Ready(n) /\ Fresh(n) /\ n.at = "idle"
  BY NoBatchIsReady
<1>3. QED
  BY <1>1, <1>2, WorkMoves

-----------------------------------------------------------------------------
(* The steps that write.                                                   *)

\* One batch writes: what is left to show of its step.
LEMMA StepMoves ==
  ASSUME BatchInv, NEW cl \in Client, NEW new \in Batch, Become(cl, new),
         CoreInv', Grows, RowsGrow, RowsOK', Kept(new)', Ready(new)', Paired(cl)',
         \A o \in Client \ {cl} : call'[o] = call[o],
         clean' => /\ \A o \in Client \ {cl} : At(o, "idle")
                   /\ ~overlapped' /\ SoleInv' /\ Counts' /\ Fresh(new)'
  PROVE  BatchInv'
<1>1. BatchesOK'
  BY BatchMoves DEF BatchInv, RowsOK
<1>2. CleanOK'
  BY CleanMoves DEF BatchInv
<1>3. QED
  BY <1>1, <1>2 DEF BatchInv

\* The row of a fact is written for a memory that has held it.
LEMMA RecordKeepsRows ==
  ASSUME CoreInv, RowsOK, NEW f \in Fact, NEW t \in Triple, Record(f, t),
         t.count \in 1 .. mentions[f] + 1,
         \E e \in Said : e.fact = f /\ Held(t.memory, e.content),
         UNCHANGED <<items, edges>>, clean' \in BOOLEAN
  PROVE  /\ RowsOK' /\ RowsGrow
         /\ Counts /\ t.count = mentions[f] + 1 => Counts'
<1>1. /\ DOMAIN triples \subseteq Fact /\ mentions \in [Fact -> Nat]
      /\ triples \in [DOMAIN triples -> Triple] /\ edges \subseteq Edge
  BY DEF RowsOK, RowsTyped
<1>2. /\ DOMAIN triples' = DOMAIN triples \cup {f} /\ triples'[f] = t
      /\ \A g \in DOMAIN triples \ {f} : triples'[g] = triples[g]
      /\ triples' \in [DOMAIN triples' -> Triple]
  BY <1>1 DEF Record
<1>3. /\ mentions' \in [Fact -> Nat] /\ mentions'[f] = mentions[f] + 1
      /\ \A g \in Fact \ {f} : mentions'[g] = mentions[g]
  BY <1>1 DEF Record
<1>4. RowsTyped'
  BY <1>1, <1>2, <1>3 DEF RowsTyped
<1>5. RowsGrow
  BY <1>1, <1>2, <1>3 DEF RowsGrow
<1>6. \A g \in DOMAIN triples' : triples'[g].count \in 1 .. mentions'[g]
  BY <1>1, <1>2, <1>3 DEF RowsOK
<1>7. TripleHasMemory'
  <2>1. ASSUME NEW g \in DOMAIN triples'
        PROVE  \E e \in Said : e.fact = g /\ Held(triples'[g].memory, e.content)
    <3>1. CASE g = f
      BY <1>2, <3>1
    <3>2. CASE g # f
      BY <1>2, <3>2 DEF RowsOK, TripleHasMemory
    <3>3. QED
      BY <3>1, <3>2
  <2>2. QED
    BY <2>1 DEF TripleHasMemory, Held
<1>8. DemotedHasRival'
  BY DEF RowsOK, DemotedHasRival, Held
<1>9. ASSUME Counts, t.count = mentions[f] + 1 PROVE Counts'
  BY <1>1, <1>2, <1>3, <1>9 DEF Counts
<1>10. QED
  BY <1>4, <1>5, <1>6, <1>7, <1>8, <1>9 DEF RowsOK

\* A step that writes, or fails to write, the row of a fact.
LEMMA RowMoves ==
  ASSUME BatchInv, NEW cl \in Client, ~At(cl, "idle"), ~At(cl, "adding"), UNCHANGED vars,
         NEW new \in Batch, Become(cl, new), Settled(new),
         NEW f \in Fact, NEW t \in Triple,
         t.count \in 1 .. mentions[f] + 1, clean => t.count = mentions[f] + 1,
         \E e \in Said : e.fact = f /\ Held(t.memory, e.content),
         (Record(f, t) /\ UNCHANGED clean) \/ RecordFails
  PROVE  BatchInv'
<1>1. CASE RecordFails
  <2>1. ~clean' /\ clean' \in BOOLEAN /\ UNCHANGED <<triples, mentions>>
    BY <1>1 DEF RecordFails, Swallowed
  <2>2. QED
    BY <2>1, WorkMoves DEF Settled
<1>2. CASE Record(f, t) /\ UNCHANGED clean
  <2>1. UNCHANGED <<items, edges, call, overlapped>>
    BY DEF vars, storeVars
  <2>2. CoreInv' /\ Grows
    BY <2>1, StillKeepsInv DEF BatchInv
  <2>3. RowsOK' /\ RowsGrow /\ (clean => Counts')
    <3>1. clean' \in BOOLEAN
      BY <1>2 DEF BatchInv, RowsOK, RowsTyped
    <3>2. RowsOK' /\ RowsGrow /\ (Counts /\ t.count = mentions[f] + 1 => Counts')
      BY <1>2, <2>1, <3>1, RecordKeepsRows DEF BatchInv
    <3>3. QED
      BY <3>2 DEF BatchInv, CleanOK
  <2>4. Kept(new)' /\ Ready(new)'
    BY <2>2, <2>3, KeptGrows, ReadyGrows DEF Settled, BatchInv, RowsOK
  <2>5. Paired(cl)'
    <3>1. Idle(cl)' /\ batch'[cl] = new /\ new.at # "adding"
      BY <2>1, Working DEF Idle, Settled, Become, BatchInv, BatchesOK
    <3>2. QED
      BY <3>1 DEF Paired, At
  <2>6. clean' => /\ \A o \in Client \ {cl} : At(o, "idle")
                  /\ ~overlapped' /\ SoleInv' /\ Counts' /\ Fresh(new)'
    <3>1. SUFFICES ASSUME clean
                   PROVE  /\ \A o \in Client \ {cl} : At(o, "idle")
                          /\ ~overlapped' /\ SoleInv' /\ Counts' /\ Fresh(new)'
      BY <1>2
    <3>2. \A o \in Client \ {cl} : At(o, "idle")
      BY <3>1, Working
    <3>3. ~overlapped' /\ SoleInv'
      BY <2>1, <3>1, QuietKeepsSole DEF BatchInv, CleanOK
    <3>4. Counts'
      BY <2>3, <3>1
    <3>5. Fresh(new)'
      BY DEF Settled, Resting, Fresh
    <3>6. QED
      BY <3>2, <3>3, <3>4, <3>5
  <2>7. QED
    BY <2>1, <2>2, <2>3, <2>4, <2>5, <2>6, StepMoves
<1>3. QED
  BY <1>1, <1>2

\* put_triple, over a row that may have come up since the query.
LEMMA PutFactKeeps ==
  ASSUME BatchInv, NEW cl \in Client, PutFact(cl)
  PROVE  BatchInv'
<1>1. At(cl, "put") /\ ~At(cl, "idle") /\ ~At(cl, "adding") /\ UNCHANGED vars
  BY DEF PutFact, At
<1>2. PICK b \in Batch : /\ b = batch[cl] /\ Kept(b) /\ Ready(b) /\ b.at = "put"
                         /\ clean => Fresh(b)
  BY <1>1, Working DEF At
<1> DEFINE f == Stated(b).fact
           t == [memory |-> NewId(b), count |-> 1]
<1>3. /\ b.ids # <<>> /\ f \in Fact /\ NewId(b) \in Id
      /\ \E e \in Said : e.fact = f /\ Held(NewId(b), e.content)
  BY <1>2, LastEntry DEF Ready
<1>4. t \in Triple /\ t.count = 1 /\ t.memory = NewId(b)
  BY <1>3 DEF Triple
<1>5. t.count \in 1 .. mentions[f] + 1
  BY <1>3, <1>4 DEF BatchInv, RowsOK, RowsTyped
<1>6. clean => t.count = mentions[f] + 1
  BY <1>2, <1>3, <1>4 DEF Fresh, BatchInv, CleanOK, Counts
<1>7. PICK n \in Batch : n = [b EXCEPT !.at = AfterFact(b)] /\ Settled(n)
  BY <1>2, <1>3, ToFact
<1>8. Become(cl, n) /\ ((Record(f, t) /\ UNCHANGED clean) \/ RecordFails)
  BY <1>2, <1>7 DEF PutFact, GoTo
<1> HIDE DEF t
<1>9. QED
  BY <1>1, <1>3, <1>4, <1>5, <1>6, <1>7, <1>8, RowMoves

\* The :update of increment_triple_mention, with the count that was read.
LEMMA BumpMentionKeeps ==
  ASSUME BatchInv, NEW cl \in Client, BumpMention(cl)
  PROVE  BatchInv'
<1>1. At(cl, "bump") /\ ~At(cl, "idle") /\ ~At(cl, "adding") /\ UNCHANGED vars
  BY DEF BumpMention, At
<1>2. PICK b \in Batch : /\ b = batch[cl] /\ Kept(b) /\ Ready(b) /\ b.at = "bump"
                         /\ clean => Fresh(b)
  BY <1>1, Working DEF At
<1> DEFINE f == Stated(b).fact
           t == Bumped(triples[f], b.count)
<1>3. /\ b.ids # <<>> /\ f \in Fact /\ f \in DOMAIN triples /\ b.count \in Nat
      /\ b.count \in 1 .. mentions[f]
  BY <1>2, LastEntry, BatchFields DEF Ready
<1>4. t \in Triple /\ t.count = b.count + 1 /\ t.memory = triples[f].memory
  <2>1. PICK r \in Triple : r = triples[f]
    BY <1>3 DEF BatchInv, RowsOK, RowsTyped
  <2>2. t = [r EXCEPT !.count = b.count + 1]
    BY <2>1 DEF Bumped
  <2>3. QED
    BY <1>3, <2>1, <2>2 DEF Triple
<1>5. t.count \in 1 .. mentions[f] + 1
  BY <1>3, <1>4 DEF BatchInv, RowsOK, RowsTyped
<1>6. clean => t.count = mentions[f] + 1
  BY <1>2, <1>4 DEF Fresh
<1>7. \E e \in Said : e.fact = f /\ Held(t.memory, e.content)
  BY <1>3, <1>4 DEF BatchInv, RowsOK, TripleHasMemory
<1>8. PICK c : c = [b EXCEPT !.count = 0]
  OBVIOUS
<1>9. c \in Batch /\ c.ids = b.ids /\ c.entries = b.entries /\ AfterFact(c) = AfterFact(b)
  BY <1>8 DEF Batch, AfterFact, AfterEntry, AfterSegment, Stated
<1>10. Kept(c)
  BY <1>2, <1>9 DEF Kept
<1>11. PICK n \in Batch : n = [c EXCEPT !.at = AfterFact(c)] /\ Settled(n)
  BY <1>3, <1>9, <1>10, ToFact
<1>12. n = [b EXCEPT !.at = AfterFact(b), !.count = 0]
  BY <1>8, <1>9, <1>11 DEF Batch
<1>13. Become(cl, n) /\ ((Record(f, t) /\ UNCHANGED clean) \/ RecordFails)
  BY <1>2, <1>12 DEF BumpMention
<1> HIDE DEF t
<1>14. QED
  BY <1>1, <1>3, <1>4, <1>5, <1>6, <1>7, <1>11, <1>13, RowMoves

\* why a memory i has a version that is not the latest
Refuted(i) ==
  \E old, new \in Said :
    /\ old.fact # None /\ Held(i, old.content)
    /\ TopicOf[old.fact] = new.contradicts
    /\ \E j \in Id \ {i} : Held(j, new.content)

\* A write keeps DemotedHasRival if what it writes is the latest, or else the id has been
\* refuted.
LEMMA WriteKeepsDemoted ==
  ASSUME ItemsOK, DemotedHasRival, NEW i \in Id, NEW v \in Version, PutMemory(i, v),
         \/ v.latest
         \/ \E n \in DOMAIN items[i] : ~items[i][n].latest
         \/ Refuted(i)
  PROVE  DemotedHasRival'
<1>1. Grows
  BY HistoryGrows
<1>2. ASSUME NEW j \in Id, Refuted(j) PROVE Refuted(j)'
  <2>1. PICK old \in Said, new \in Said :
          /\ old.fact # None /\ Held(j, old.content)
          /\ TopicOf[old.fact] = new.contradicts
          /\ \E k \in Id \ {j} : Held(k, new.content)
    BY <1>2 DEF Refuted
  <2>2. Held(j, old.content)' /\ \E k \in Id \ {j} : Held(k, new.content)'
    BY <1>1, <2>1 DEF Held, Grows
  <2>3. QED
    BY <2>1, <2>2 DEF Refuted
<1>3. ASSUME NEW j \in Id, NEW n \in DOMAIN items'[j], ~items'[j][n].latest
      PROVE  Refuted(j)
  <2>1. CASE j # i \/ n \in 1 .. Len(items[i])
    <3>1. n \in DOMAIN items[j] /\ items'[j][n] = items[j][n]
      BY <1>3, <2>1, PutMemoryAdds
    <3>2. QED
      BY <1>3, <3>1 DEF DemotedHasRival, Refuted
  <2>2. CASE j = i /\ n = Len(items[i]) + 1
    <3>1. ~v.latest
      BY <1>3, <2>2, PutMemoryAdds
    <3>2. QED
      BY <2>2, <3>1 DEF DemotedHasRival, Refuted
  <2>3. QED
    BY <1>3, <2>1, <2>2, PutMemoryAdds
<1>4. \A j \in Id : \A n \in DOMAIN items'[j] : ~items'[j][n].latest => Refuted(j)'
  BY <1>2, <1>3
<1>5. QED
  BY <1>4 DEF DemotedHasRival, Refuted

\* A write of the batch itself: no add_memory is under way as long as no batches have
\* overlapped.
LEMMA OtherWriteMoves ==
  ASSUME BatchInv, NEW cl \in Client, ~At(cl, "idle"), ~At(cl, "adding"),
         NEW new \in Batch, Become(cl, new), Kept(new), Ready(new),
         new.at \in Resting \ {"idle", "adding"},
         NEW i \in Id, NEW v \in Version, PutMemory(i, v), Justified(i, v),
         v.latest \/ Refuted(i),
         clean => \A j \in Id \ {i} : ~Shows(j, v.content, v.user),
         edges' \subseteq Edge, UNCHANGED <<call, overlapped, triples, mentions, clean>>
  PROVE  BatchInv'
<1>1. CoreInv' /\ Grows
  BY OtherWriteKeepsInv DEF BatchInv
<1>2. RowsTyped /\ RowsTyped' /\ RowsGrow
  BY DEF BatchInv, RowsOK, RowsTyped, RowsGrow
<1>3. RowsOK'
  <2>1. TripleHasMemory'
    <3>1. \A f \in DOMAIN triples : triples[f].memory \in Id
      BY <1>2 DEF RowsTyped, Triple
    <3>2. QED
      BY <1>1, <3>1 DEF BatchInv, RowsOK, TripleHasMemory, Held, Grows
  <2>2. DemotedHasRival'
    BY WriteKeepsDemoted DEF BatchInv, RowsOK, CoreInv
  <2>3. QED
    BY <1>2, <2>1, <2>2 DEF BatchInv, RowsOK
<1>4. Kept(new)' /\ Ready(new)'
  BY <1>1, <1>2, KeptGrows, ReadyGrows
<1>5. Paired(cl)'
  <2>1. Idle(cl)' /\ batch'[cl] = new /\ new.at # "adding"
    BY Working DEF Idle, Become, BatchInv, BatchesOK
  <2>2. QED
    BY <2>1 DEF Paired, At
<1>6. ASSUME clean
      PROVE  /\ \A o \in Client \ {cl} : At(o, "idle")
             /\ ~overlapped' /\ SoleInv' /\ Counts' /\ Fresh(new)'
  <2>1. \A o \in Client \ {cl} : At(o, "idle")
    BY <1>6, Working
  <2>2. \A o \in Client : Idle(o)
    BY <2>1, Working DEF BatchInv, BatchesOK, BatchOK, Paired, At
  <2>3. Unique /\ ~overlapped /\ Counts
    BY <1>6 DEF BatchInv, CleanOK, SoleInv
  <2>4. Unique'
    BY <1>6, <2>3, WriteKeepsUnique DEF BatchInv, CoreInv
  <2>5. SoleInv'
    BY <2>2, <2>4 DEF SoleInv, OneAtATime, Clear, Idle
  <2>6. Fresh(new)'
    BY DEF Resting, Fresh
  <2>7. QED
    BY <2>1, <2>3, <2>5, <2>6 DEF Counts
<1>7. QED
  BY <1>1, <1>2, <1>3, <1>4, <1>5, <1>6, StepMoves

\* put_memory of a segment.
LEMMA StoreSegmentKeeps ==
  ASSUME BatchInv, NEW cl \in Client, StoreSegment(cl)
  PROVE  BatchInv'
<1>1. /\ At(cl, "store") /\ ~At(cl, "idle") /\ ~At(cl, "adding")
      /\ UNCHANGED <<edges, call, overlapped, triples, mentions, clean>>
  BY DEF StoreSegment, At
<1>2. PICK b \in Batch : /\ b = batch[cl] /\ Kept(b) /\ Ready(b) /\ b.at = "store"
                         /\ clean => Fresh(b)
  BY <1>1, Working DEF At
<1>3. b.segments # <<>> /\ Head(b.segments) \in Content /\ b.user \in Owner
  <2>1. b.segments # <<>> /\ b.segments \in Seq(Content) /\ b.user \in Owner
    BY <1>2, BatchFields DEF Ready
  <2>2. QED
    BY <2>1
<1> DEFINE v == NewVersion(Head(b.segments), b.user)
<1>4. /\ v \in Version /\ v.op = "ASSERT" /\ v.user = b.user /\ v.latest /\ v.count = 1
      /\ v.content = Head(b.segments)
  BY <1>3 DEF NewVersion, Version
<1>5. PICK i \in Id : items[i] = <<>> /\ PutMemory(i, v)
                      /\ Become(cl, [b EXCEPT !.at = "link", !.id = i])
  BY <1>2 DEF StoreSegment
<1> HIDE DEF v
<1>6. Justified(i, v)
  BY <1>4, <1>5 DEF Justified
<1>7. PICK n : n = [b EXCEPT !.at = "link", !.id = i]
  OBVIOUS
<1>8. /\ n \in Batch /\ n.at = "link" /\ n.id = i /\ n.ids = b.ids /\ n.entries = b.entries
      /\ n.segments = b.segments
  BY <1>7 DEF Batch, BatchPhase
<1>9. Kept(n) /\ Ready(n)
  BY <1>2, <1>3, <1>8 DEF Kept, Ready
<1>10. clean => \A j \in Id \ {i} : ~Shows(j, v.content, v.user)
  BY <1>2, <1>4 DEF Fresh
<1>11. edges' \subseteq Edge
  BY <1>1 DEF BatchInv, RowsOK, RowsTyped
<1>12. QED
  BY <1>1, <1>4, <1>5, <1>6, <1>7, <1>8, <1>9, <1>10, <1>11, OtherWriteMoves DEF Resting

\* put_memory of a rival, in the version that was read.
LEMMA MarkRivalKeeps ==
  ASSUME BatchInv, NEW cl \in Client, MarkRival(cl)
  PROVE  BatchInv'
<1>1. /\ At(cl, "mark") /\ ~At(cl, "idle") /\ ~At(cl, "adding") /\ clean \in BOOLEAN
      /\ UNCHANGED <<call, overlapped, triples, mentions, clean>>
  BY DEF MarkRival, At, BatchInv, RowsOK, RowsTyped
<1>2. PICK b \in Batch : /\ b = batch[cl] /\ Kept(b) /\ Ready(b) /\ b.at = "mark"
                         /\ clean => Fresh(b) /\ \A o \in Client \ {cl} : At(o, "idle")
  BY <1>1, Working DEF At
<1>3. /\ b.ids # <<>> /\ Stated(b).contradicts # None /\ b.base.op = "ASSERT"
      /\ \A o \in b.old : Rival(b, o[2])
      /\ Rival(b, b.id) /\ \E n \in DOMAIN items[b.id] : items[b.id][n] = b.base
  BY <1>2 DEF Ready
<1>4. NewId(b) \in Id /\ Stated(b) \in Said /\ Held(NewId(b), Stated(b).content)
  BY <1>2, <1>3, LastEntry
<1>5. b.id \in Id /\ b.id # NewId(b)
  BY <1>3 DEF Rival
<1>6. edges' \subseteq Edge
  <2>1. [from |-> NewId(b), to |-> b.id, relation |-> "updates"] \in Edge
    BY <1>4, <1>5 DEF Edge
  <2>2. \/ PutEdges({[from |-> NewId(b), to |-> b.id, relation |-> "updates"]})
        \/ UNCHANGED edges
    BY <1>2 DEF MarkRival
  <2>3. QED
    BY <2>1, <2>2 DEF PutEdges, BatchInv, RowsOK, RowsTyped
<1>7. PICK c : c = [b EXCEPT !.id = None, !.base = None]
  OBVIOUS
<1>8. /\ c \in Batch /\ c.ids = b.ids /\ c.entries = b.entries /\ c.old = b.old
      /\ c.segments = b.segments
  BY <1>7 DEF Batch
<1>9. Kept(c) /\ Stated(c) = Stated(b) /\ NewId(c) = NewId(b)
  BY <1>2, <1>8 DEF Kept, Stated, NewId
<1>10. \A o \in c.old : Rival(c, o[2])
  BY <1>3, <1>8, <1>9 DEF Rival
<1>11. PICK n \in Batch : n = [c EXCEPT !.at = AfterRival(c)] /\ Settled(n)
  BY <1>3, <1>8, <1>9, <1>10, ToRival
<1>12. Become(cl, n)
  <2>1. AfterRival(c) = AfterRival(b)
    BY <1>8 DEF AfterRival, AfterEntry, AfterSegment
  <2>2. n = [b EXCEPT !.at = AfterRival(b), !.id = None, !.base = None]
    BY <1>7, <1>11, <2>1 DEF Batch
  <2>3. QED
    BY <1>2, <2>2 DEF MarkRival
<1>13. CASE UNCHANGED items
  BY <1>1, <1>2, <1>6, <1>11, <1>12, <1>13, QuietMoves DEF Settled
<1>14. CASE PutMemory(b.id, Demoted(b.base))
  <2> DEFINE i == b.id
             v == Demoted(b.base)
  <2>1. PICK m \in DOMAIN items[i] : items[i][m] = b.base
    BY <1>3
  <2>2. b.base \in Version /\ b.base.count >= 1
    BY <1>5, <2>1 DEF BatchInv, CoreInv, ItemsOK, Counted
  <2>3. /\ v \in Version /\ v.op = "ASSERT" /\ v.user = b.base.user
        /\ v.content = b.base.content /\ v.count = b.base.count
        /\ v.count \in Nat /\ v.content \in Content
    BY <1>3, <2>2 DEF Demoted, Version
  <2> HIDE DEF v
  <2>4. <<v.content, v.content>> \in Similar
    BY <2>3, StoreAssumption
  <2>5. Justified(i, v)
    BY <2>1, <2>2, <2>3, <2>4 DEF Justified, Follows
  <2>6. Refuted(i)
    BY <1>3, <1>4, <1>5 DEF Rival, Refuted
  <2>7. clean => \A j \in Id \ {i} : ~Shows(j, v.content, v.user)
    BY <1>2, <2>3 DEF Fresh
  <2>8. PutMemory(i, v)
    BY <1>14 DEF v
  <2>9. QED
    BY <1>1, <1>5, <1>6, <1>11, <1>12, <2>3, <2>5, <2>6, <2>7, <2>8, OtherWriteMoves DEF Settled
<1>15. QED
  BY <1>2, <1>13, <1>14 DEF MarkRival

\* delete_memory by a client in no batch.
LEMMA DeleteMemoryKeeps ==
  ASSUME BatchInv, NEW cl \in Client, NEW i \in Id, DeleteMemory(cl, i)
  PROVE  BatchInv'
<1>1. /\ InvalidateMemory(i)
      /\ UNCHANGED <<edges, call, overlapped, triples, batch, mentions, clean>>
  BY DEF DeleteMemory, Delete, batchVars
<1>2. CoreInv' /\ Grows
  BY <1>1, InvalidateKeepsInv DEF BatchInv
<1>3. RowsTyped /\ RowsTyped' /\ RowsGrow
  BY <1>1 DEF BatchInv, RowsOK, RowsTyped, RowsGrow
<1>4. RowsOK'
  <2>1. TripleHasMemory'
    <3>1. \A f \in DOMAIN triples : triples[f].memory \in Id
      BY <1>3 DEF RowsTyped, Triple
    <3>2. QED
      BY <1>1, <1>2, <3>1 DEF BatchInv, RowsOK, TripleHasMemory, Held, Grows
  <2>2. DemotedHasRival'
    <3>1. CASE UNCHANGED items
      BY <3>1 DEF BatchInv, RowsOK, DemotedHasRival, Held
    <3>2. ASSUME NEW v \in Version, PutMemory(i, v), NEW n \in DOMAIN items[i],
                 v.latest = items[i][n].latest
          PROVE  DemotedHasRival'
      BY <3>2, WriteKeepsDemoted DEF BatchInv, RowsOK, CoreInv
    <3>3. QED
      BY <1>1, <3>1, <3>2, RetractWrites DEF BatchInv, CoreInv
  <2>3. QED
    BY <1>1, <1>3, <2>1, <2>2 DEF BatchInv, RowsOK
<1>5. BatchesOK'
  <2>1. ASSUME NEW o \in Client PROVE BatchOK(o)'
    <3>1. PICK b \in Batch : b = batch[o] /\ Kept(b) /\ Ready(b) /\ Paired(o)
      BY DEF BatchInv, BatchesOK, BatchOK
    <3>2. Kept(b)' /\ Ready(b)'
      BY <1>2, <1>3, <3>1, KeptGrows, ReadyGrows
    <3>3. batch'[o] = b
      BY <1>1, <3>1
    <3>4. Kept(batch[o])' /\ Ready(batch[o])'
      BY <3>2, <3>3 DEF Kept, Ready, Stated, NewId, Rival, Held
    <3>5. Paired(o)'
      BY <1>1, <3>1 DEF Paired, At, Idle, NextContent
    <3>6. QED
      BY <3>4, <3>5 DEF BatchOK
  <2>2. QED
    BY <1>1, <2>1 DEF BatchInv, BatchesOK
<1>6. CleanOK'
  <2>1. SUFFICES ASSUME clean
                 PROVE  /\ ~overlapped' /\ SoleInv' /\ Apart' /\ Counts'
                        /\ \A o \in Client : Fresh(batch[o])'
    BY <1>1 DEF CleanOK
  <2>2. /\ ~overlapped /\ SoleInv /\ Apart /\ Counts
        /\ \A o \in Client : Fresh(batch[o])
    BY <2>1 DEF BatchInv, CleanOK
  <2>3. SoleInv'
    BY <1>1, <2>2, InvalidateKeepsSole DEF BatchInv, DupInv
  <2>4. \A j \in Id : \A c, u : Shows(j, c, u)' => Shows(j, c, u)
    BY <1>1, RetractHides DEF BatchInv, CoreInv
  <2>5. \A o \in Client : Fresh(batch[o])'
    BY <1>1, <2>2, <2>4 DEF Fresh, Stated
  <2>6. QED
    BY <1>1, <2>2, <2>3, <2>5 DEF Apart, At, Counts
<1>7. QED
  BY <1>2, <1>4, <1>5, <1>6 DEF BatchInv

-----------------------------------------------------------------------------
(* The add_memory of a batch.                                              *)

\* What a call of add_memory writes is the latest, or was made from a version that was
\* not.
LEMMA AddWrites ==
  ASSUME CoreInv, NEW cl \in Client, AddSteps(cl)
  PROVE  \/ UNCHANGED items
         \/ \E i \in Id, v \in Version :
              PutMemory(i, v) /\ (v.latest \/ \E n \in DOMAIN items[i] : ~items[i][n].latest)
<1> DEFINE i == call[cl].id
           b == call[cl].base
<1>1. ASSUME Holds(cl), NEW v \in Version, v.latest = b.latest, PutMemory(i, v)
      PROVE  \E j \in Id, w \in Version :
               PutMemory(j, w) /\ (w.latest \/ \E n \in DOMAIN items[j] : ~items[j][n].latest)
  <2>1. i \in Id /\ \E n \in DOMAIN items[i] : items[i][n] = b
    BY <1>1 DEF Holds
  <2>2. v.latest \/ \E n \in DOMAIN items[i] : ~items[i][n].latest
    BY <1>1, <2>1
  <2>3. QED
    BY <1>1, <2>1, <2>2
<1>2. Holds(cl) => b \in Version
  BY DEF Holds, CoreInv, ItemsOK
<1>3. CASE Reinforce(cl)
  <2> DEFINE v == Mentioned(b, call[cl].content)
  <2>1. Holds(cl) /\ call[cl].content \in Content /\ PutMemory(i, v)
    BY <1>3, ReinforceWrites
  <2>2. v \in Version /\ v.latest = b.latest
    BY <1>2, <2>1, MentionedVersion
  <2>3. QED
    BY <1>1, <2>1, <2>2
<1>4. CASE Update(cl)
  <2>1. Holds(cl) /\ call[cl].content \in Content /\ call[cl].user \in Owner
    BY <1>4 DEF Update, CoreInv, CallsOK, CallOK, Call
  <2>2. /\ Updated(b, call[cl].content, call[cl].user) \in Version
        /\ Updated(b, call[cl].content, call[cl].user).latest = b.latest
    BY <1>2, <2>1, UpdatedVersion DEF Updated, Reinforced, Version
  <2>3. PutMemory(i, Updated(b, call[cl].content, call[cl].user))
    BY <1>4 DEF Update, Updated
  <2>4. QED
    BY <1>1, <2>1, <2>2, <2>3
<1>5. CASE Store(cl)
  <2>1. call[cl].content \in Content /\ call[cl].user \in Owner
    BY <1>5 DEF Store, CoreInv, CallsOK, CallOK, Call
  <2>2. /\ NewVersion(call[cl].content, call[cl].user) \in Version
        /\ NewVersion(call[cl].content, call[cl].user).latest
    BY <2>1 DEF NewVersion, Version
  <2>3. QED
    BY <1>5, <2>2 DEF Store
<1>6. CASE SearchSimilar(cl) \/ Link(cl) \/ Fail(cl)
  BY <1>6 DEF SearchSimilar, Link, Fail, storeVars
<1>7. QED
  BY <1>3, <1>4, <1>5, <1>6 DEF AddSteps

\* Only the call itself goes on.
LEMMA AddStepsMove ==
  ASSUME CoreInv, NEW cl \in Client, AddSteps(cl)
  PROVE  /\ UNCHANGED overlapped /\ \A o \in Client \ {cl} : call'[o] = call[o]
         /\ edges \subseteq Edge => edges' \subseteq Edge
<1>1. \A p, i, b : Proceed(cl, p, i, b) => \A o \in Client \ {cl} : call'[o] = call[o]
  BY DEF Proceed, CoreInv, CallsOK
<1>2. Return(cl) => \A o \in Client \ {cl} : call'[o] = call[o]
  BY ReturnOnlyMe DEF CoreInv
<1>3. \A o \in Client \ {cl} : call'[o] = call[o]
  BY <1>1, <1>2 DEF AddSteps, Reinforce, SearchSimilar, Update, Store, Link, Fail
<1>4. UNCHANGED overlapped
  BY DEF AddSteps, Reinforce, SearchSimilar, Update, Store, Link, Fail
<1>5. UNCHANGED edges \/ \E es \in SUBSET Edge : edges' = edges \cup es
  <2>1. CASE Link(cl)
    BY <2>1, LinkAdds
  <2>2. CASE ~Link(cl)
    BY <2>2 DEF AddSteps, Reinforce, SearchSimilar, Update, Store, Fail, storeVars
  <2>3. QED
    BY <2>1, <2>2
<1>6. QED
  BY <1>3, <1>4, <1>5

\* A step of add_memory inside an entry, after which the batch goes on.
LEMMA AddMoves ==
  ASSUME BatchInv, NEW cl \in Client, At(cl, "adding"), AddSteps(cl),
         NEW new \in Batch, Become(cl, new), new.at \in Resting,
         Kept(new)', Ready(new)', Paired(cl)', UNCHANGED <<triples, mentions, clean>>
  PROVE  BatchInv'
<1>1. CoreInv' /\ Grows
  BY AddStepsKeepInv DEF BatchInv
<1>2. /\ UNCHANGED overlapped /\ \A o \in Client \ {cl} : call'[o] = call[o]
      /\ edges' \subseteq Edge
  BY AddStepsMove DEF BatchInv, RowsOK, RowsTyped
<1>3. RowsTyped /\ RowsTyped' /\ RowsGrow
  BY <1>2 DEF BatchInv, RowsOK, RowsTyped, RowsGrow
<1>4. RowsOK'
  <2>1. TripleHasMemory'
    <3>1. \A f \in DOMAIN triples : triples[f].memory \in Id
      BY <1>3 DEF RowsTyped, Triple
    <3>2. QED
      BY <1>1, <3>1 DEF BatchInv, RowsOK, TripleHasMemory, Held, Grows
  <2>2. DemotedHasRival'
    <3>1. CASE UNCHANGED items
      BY <3>1 DEF BatchInv, RowsOK, DemotedHasRival, Held
    <3>2. ASSUME NEW i \in Id, NEW v \in Version, PutMemory(i, v),
                 v.latest \/ \E n \in DOMAIN items[i] : ~items[i][n].latest
          PROVE  DemotedHasRival'
      BY <3>2, WriteKeepsDemoted DEF BatchInv, RowsOK, CoreInv
    <3>3. QED
      BY <3>1, <3>2, AddWrites DEF BatchInv
  <2>3. QED
    BY <1>3, <2>1, <2>2 DEF BatchInv, RowsOK
<1>5. ASSUME clean
      PROVE  /\ \A o \in Client \ {cl} : At(o, "idle")
             /\ ~overlapped' /\ SoleInv' /\ Counts' /\ Fresh(new)'
  <2>1. \A o \in Client \ {cl} : At(o, "idle")
    BY <1>5, OthersIdle DEF BatchInv, At
  <2>2. SoleInv' /\ ~overlapped' /\ Counts'
    BY <1>2, <1>5, AddStepsKeepSole DEF BatchInv, CleanOK, DupInv, Counts
  <2>3. Fresh(new)'
    BY DEF Resting, Fresh
  <2>4. QED
    BY <2>1, <2>2, <2>3
<1>6. QED
  BY <1>1, <1>2, <1>3, <1>4, <1>5, StepMoves

\* A batch in a call of add_memory.
LEMMA Adding ==
  ASSUME BatchInv, NEW cl \in Client, At(cl, "adding")
  PROVE  \E b \in Batch :
           /\ b = batch[cl] /\ Kept(b) /\ Ready(b) /\ b.at = "adding"
           /\ Len(b.ids) < Len(b.entries) /\ Len(b.ids) \in Nat /\ Len(b.entries) \in Nat
           /\ call[cl].content = NextContent(b) /\ call[cl].user = b.user /\ ~Idle(cl)
<1>1. PICK b \in Batch : b = batch[cl]
  BY DEF BatchInv, BatchesOK
<1>2. /\ Kept(b) /\ Ready(b) /\ b.at = "adding" /\ ~Idle(cl)
      /\ call[cl].content = NextContent(b) /\ call[cl].user = b.user
  BY <1>1 DEF BatchInv, BatchesOK, BatchOK, Paired, At
<1>3. b.ids \in Seq(Id) /\ b.entries \in Seq(Entry)
  BY BatchFields
<1>4. QED
  BY <1>1, <1>2, <1>3 DEF Ready

\* add_memory begins.
LEMMA BeginEntryKeeps ==
  ASSUME BatchInv, NEW cl \in Client, At(cl, "entry"),
         StartAdd(cl, NextContent(batch[cl]), batch[cl].user), GoTo(cl, "adding"),
         UNCHANGED <<triples, mentions, clean>>
  PROVE  BatchInv'
<1>1. ~At(cl, "idle") /\ ~At(cl, "adding")
  BY DEF At
<1>2. PICK b \in Batch : /\ b = batch[cl] /\ Kept(b) /\ Ready(b) /\ b.at = "entry"
                         /\ clean => \A o \in Client \ {cl} : At(o, "idle")
  BY <1>1, Working DEF At
<1>3. NextContent(b) \in Content /\ b.user \in Owner
  <2>1. b.ids \in Seq(Id) /\ b.entries \in Seq(Entry) /\ Len(b.ids) < Len(b.entries)
    BY <1>2, BatchFields DEF Ready
  <2>2. b.entries[Len(b.ids) + 1] \in Entry
    BY <2>1
  <2>3. QED
    BY <2>2, BatchFields DEF NextContent, Entry
<1>4. StartAdd(cl, NextContent(b), b.user)
  BY <1>2
<1>5. CoreInv' /\ Grows
  BY <1>3, <1>4, StartAddKeepsInv DEF BatchInv
<1>6. /\ UNCHANGED <<items, edges>> /\ \A o \in Client \ {cl} : call'[o] = call[o]
      /\ call'[cl].content = NextContent(b) /\ call'[cl].user = b.user
      /\ call'[cl].at # "idle"
  BY <1>4 DEF StartAdd, storeVars, BatchInv, CoreInv, CallsOK
<1>7. RowsOK' /\ RowsTyped /\ RowsTyped' /\ RowsGrow
  <2>1. RowsTyped /\ RowsTyped' /\ RowsGrow
    BY <1>6 DEF BatchInv, RowsOK, RowsTyped, RowsGrow
  <2>2. TripleHasMemory' /\ DemotedHasRival'
    BY <1>6 DEF BatchInv, RowsOK, TripleHasMemory, DemotedHasRival, Held
  <2>3. QED
    BY <2>1, <2>2 DEF BatchInv, RowsOK
<1>8. PICK n \in Batch : n = [b EXCEPT !.at = "adding"] /\ Moved(b, n, "adding")
  BY PhaseMoves DEF BatchPhase
<1>9. Become(cl, n)
  BY <1>2, <1>8 DEF GoTo
<1>10. n.at = "adding" /\ n.ids = b.ids /\ n.entries = b.entries /\ n.user = b.user
  BY <1>8 DEF Moved
<1>11. Kept(n) /\ Ready(n)
  BY <1>2, <1>10 DEF Kept, Ready
<1>12. Kept(n)' /\ Ready(n)'
  BY <1>5, <1>7, <1>11, KeptGrows, ReadyGrows
<1>13. Paired(cl)'
  <2>1. batch'[cl] = n
    BY <1>9 DEF Become, BatchInv, BatchesOK
  <2>2. QED
    BY <1>6, <1>10, <2>1 DEF Paired, At, Idle, NextContent
<1>14. ASSUME clean
       PROVE  /\ \A o \in Client \ {cl} : At(o, "idle")
              /\ ~overlapped' /\ SoleInv' /\ Counts' /\ Fresh(n)'
  <2>1. \A o \in Client \ {cl} : At(o, "idle")
    BY <1>2, <1>14
  <2>2. \A o \in Client : Idle(o)
    BY <1>1, <2>1 DEF BatchInv, BatchesOK, BatchOK, Paired, At
  <2>3. ~overlapped'
    BY <1>4, <1>14, <2>2 DEF StartAdd, BatchInv, CleanOK
  <2>4. SoleInv'
    BY <1>3, <1>4, <1>14, StartAddKeepsSole DEF BatchInv, CleanOK, DupInv
  <2>5. Counts' /\ Fresh(n)'
    BY <1>10, <1>14 DEF BatchInv, CleanOK, Counts, Fresh
  <2>6. QED
    BY <2>1, <2>3, <2>4, <2>5
<1>15. QED
  BY <1>5, <1>6, <1>7, <1>9, <1>12, <1>13, <1>14, StepMoves

\* add_memory goes on.
LEMMA GoOnKeeps ==
  ASSUME BatchInv, NEW cl \in Client, At(cl, "adding"), SearchSimilar(cl) \/ Store(cl),
         UNCHANGED batchVars
  PROVE  BatchInv'
<1>1. PICK b \in Batch : /\ b = batch[cl] /\ Kept(b) /\ Ready(b) /\ b.at = "adding"
                         /\ call[cl].content = NextContent(b) /\ call[cl].user = b.user
  BY Adding
<1>2. AddSteps(cl) /\ UNCHANGED <<triples, batch, mentions, clean>>
  BY DEF AddSteps, batchVars
<1>3. Become(cl, b)
  BY <1>1, <1>2 DEF Become, BatchInv, BatchesOK
<1>4. Grows
  BY <1>2, AddStepsKeepInv DEF BatchInv
<1>5. Kept(b)' /\ Ready(b)'
  <2>1. RowsTyped /\ RowsTyped' /\ RowsGrow
    BY <1>2, AddStepsMove DEF BatchInv, RowsOK, RowsTyped, RowsGrow
  <2>2. QED
    BY <1>1, <1>4, <2>1, KeptGrows, ReadyGrows
<1>6. /\ call'[cl].at \in {"update", "store", "link"}
      /\ call'[cl].content = call[cl].content /\ call'[cl].user = call[cl].user
  <2>1. \A p, i, v : Proceed(cl, p, i, v) =>
          /\ call'[cl].at = p
          /\ call'[cl].content = call[cl].content /\ call'[cl].user = call[cl].user
    BY DEF Proceed, BatchInv, CoreInv, CallsOK, Call
  <2>2. QED
    BY <2>1 DEF SearchSimilar, Store
<1>7. Paired(cl)'
  BY <1>1, <1>2, <1>6 DEF Paired, At, Idle, NextContent
<1>8. QED
  BY <1>1, <1>2, <1>3, <1>5, <1>7, AddMoves DEF Resting

\* The memory add_memory returns has held the content it was given.
LEMMA AddedHolds ==
  ASSUME CoreInv, NEW cl \in Client, Reinforce(cl) \/ Update(cl) \/ Link(cl)
  PROVE  /\ call[cl].id \in Id
         /\ \E n \in DOMAIN items'[call[cl].id] :
              items'[call[cl].id][n].content = call[cl].content
<1> DEFINE i == call[cl].id
           b == call[cl].base
           c == call[cl].content
<1>1. AddSteps(cl) /\ c \in Content
  BY DEF AddSteps, Reinforce, Update, Link, CoreInv, CallsOK, CallOK
<1>2. Grows
  BY <1>1, AddStepsKeepInv
<1>3. CASE Reinforce(cl)
  <2>1. Holds(cl) /\ Hash[b.content] = Hash[c]
    BY <1>3 DEF Reinforce, CoreInv, CallsOK, CallOK, Holds
  <2>2. PICK n \in DOMAIN items[i] : items[i][n] = b
    BY <2>1 DEF Holds
  <2>3. i \in Id /\ b \in Version
    BY <2>1, <2>2 DEF Holds, CoreInv, ItemsOK
  <2>4. b.content = c
    BY <1>1, <2>1, <2>3, ReplyAssumption DEF Version
  <2>5. QED
    BY <1>2, <2>2, <2>3, <2>4 DEF Grows
<1>4. CASE Update(cl)
  <2> DEFINE v == Updated(b, c, call[cl].user)
  <2>1. Holds(cl) /\ ItemsOK /\ call[cl].user \in Owner
    BY <1>4 DEF Update, CoreInv, CallsOK, CallOK, Call
  <2>2. i \in Id /\ b \in Version
    BY <2>1 DEF Holds, ItemsOK
  <2>3. v \in Version /\ v.content = c /\ PutMemory(i, v)
    <3>1. v \in Version /\ v.content = c
      BY <1>1, <2>1, <2>2, UpdatedVersion
    <3>2. PutMemory(i, v)
      BY <1>4 DEF Update, Updated
    <3>3. QED
      BY <3>1, <3>2
  <2> HIDE DEF v
  <2>4. /\ Len(items[i]) + 1 \in DOMAIN items'[i]
        /\ items'[i][Len(items[i]) + 1] = v
    BY <2>1, <2>2, <2>3, PutMemoryAdds
  <2>5. QED
    BY <2>2, <2>3, <2>4
<1>5. CASE Link(cl)
  <2>1. i \in Id /\ 1 \in DOMAIN items[i] /\ items[i][1].content = c
    BY <1>5 DEF Link, CoreInv, CallsOK, CallOK
  <2>2. QED
    BY <1>2, <2>1 DEF Grows
<1>6. QED
  BY <1>3, <1>4, <1>5

\* add_memory returns an id.
LEMMA EndEntryKeeps ==
  ASSUME BatchInv, NEW cl \in Client, At(cl, "adding"),
         Reinforce(cl) \/ Update(cl) \/ Link(cl),
         LET added == [batch[cl] EXCEPT !.ids = Append(@, call[cl].id)]
         IN  Become(cl, [added EXCEPT !.at = AfterAdd(added)]),
         UNCHANGED <<triples, mentions, clean>>
  PROVE  BatchInv'
<1> DEFINE i == call[cl].id
<1>1. PICK b \in Batch : /\ b = batch[cl] /\ Kept(b) /\ Ready(b) /\ b.at = "adding"
                         /\ Len(b.ids) < Len(b.entries)
                         /\ Len(b.ids) \in Nat /\ Len(b.entries) \in Nat
                         /\ call[cl].content = NextContent(b)
  BY Adding
<1>2. AddSteps(cl)
  BY DEF AddSteps
<1>3. Grows
  BY <1>2, AddStepsKeepInv DEF BatchInv
<1>4. i \in Id /\ \E n \in DOMAIN items'[i] : items'[i][n].content = NextContent(b)
  BY <1>1, AddedHolds DEF BatchInv
<1>5. b.ids \in Seq(Id) /\ b.entries \in Seq(Entry)
  BY BatchFields
<1>6. PICK ids \in Seq(Id) : ids = Append(b.ids, i)
  <2>1. Append(b.ids, i) \in Seq(Id)
    BY <1>4, <1>5
  <2>2. QED
    BY <2>1
<1>7. /\ Len(ids) = Len(b.ids) + 1 /\ ids[Len(ids)] = i /\ ids # <<>>
      /\ DOMAIN ids = 1 .. Len(b.ids) + 1
      /\ \A k \in DOMAIN b.ids : ids[k] = b.ids[k]
  <2>1. /\ Len(ids) = Len(b.ids) + 1 /\ ids[Len(b.ids) + 1] = i
        /\ \A k \in 1 .. Len(b.ids) : ids[k] = b.ids[k]
    BY <1>4, <1>5, <1>6
  <2>2. DOMAIN ids = 1 .. Len(ids) /\ DOMAIN b.ids = 1 .. Len(b.ids)
    BY <1>5, <1>6
  <2>3. ids # <<>>
    BY <1>1, <2>1
  <2>4. QED
    BY <2>1, <2>2, <2>3
<1>8. PICK c : c = [b EXCEPT !.ids = Append(@, i)]
  OBVIOUS
<1>9. c \in Batch /\ c.ids = ids /\ c.entries = b.entries
  BY <1>6, <1>8 DEF Batch
<1>10. PICK n \in Batch : n = [c EXCEPT !.at = AfterAdd(c)] /\ Moved(c, n, AfterAdd(c))
  BY <1>9, PhaseMoves, AfterPhases
<1>11. Become(cl, n)
  BY <1>1, <1>8, <1>10
<1>12. /\ n.ids = ids /\ n.entries = b.entries /\ n.at = AfterAdd(n)
  BY <1>9, <1>10, MovedKept DEF Moved
<1>13. Kept(n)'
  <2>1. Kept(b)'
    BY <1>1, <1>3, KeptGrows
  <2>2. Len(n.ids) <= Len(n.entries) /\ \A k \in DOMAIN n.entries : n.entries[k] \in Said
    BY <1>1, <1>7, <1>12 DEF Kept
  <2>3. ASSUME NEW k \in DOMAIN n.ids
        PROVE  \E m \in DOMAIN items'[n.ids[k]] :
                 items'[n.ids[k]][m].content = n.entries[k].content
    <3>1. CASE k \in DOMAIN b.ids
      BY <1>7, <1>12, <2>1, <3>1 DEF Kept, Held
    <3>2. CASE k = Len(b.ids) + 1
      BY <1>4, <1>7, <1>12, <3>2 DEF NextContent
    <3>3. k \in DOMAIN b.ids \/ k = Len(b.ids) + 1
      BY <1>1, <1>5, <1>7, <1>12
    <3>4. QED
      BY <3>1, <3>2, <3>3
  <2>4. QED
    BY <2>2, <2>3 DEF Kept, Held
<1>14. Ready(n)' /\ n.at \in Resting \ {"idle", "adding", "link"}
  BY <1>7, <1>12
     DEF Ready, Resting, AfterAdd, AfterFact, AfterEntry, AfterSegment
<1>15. Paired(cl)'
  <2>1. batch'[cl] = n
    BY <1>11 DEF Become, BatchInv, BatchesOK
  <2>2. Idle(cl)'
    BY ReturnOnlyMe DEF Reinforce, Update, Link, Idle, BatchInv, CoreInv
  <2>3. QED
    BY <1>14, <2>1, <2>2 DEF Paired, At
<1>16. QED
  BY <1>2, <1>11, <1>13, <1>14, <1>15, AddMoves

\* add_memory fails, and the batch with it.
LEMMA AddFailsKeeps ==
  ASSUME BatchInv, NEW cl \in Client, At(cl, "adding"), Fail(cl), Become(cl, NoBatch),
         UNCHANGED <<triples, mentions, clean>>
  PROVE  BatchInv'
<1>1. AddSteps(cl)
  BY DEF AddSteps
<1>2. PICK n \in Batch : n = NoBatch /\ Kept(n) /\ Ready(n) /\ n.at = "idle"
  BY NoBatchIsReady
<1>3. Kept(n)' /\ Ready(n)'
  <2>1. Grows
    BY <1>1, AddStepsKeepInv DEF BatchInv
  <2>2. RowsTyped /\ RowsTyped' /\ RowsGrow
    BY <1>1, AddStepsMove DEF BatchInv, RowsOK, RowsTyped, RowsGrow
  <2>3. QED
    BY <1>2, <2>1, <2>2, KeptGrows, ReadyGrows
<1>4. Paired(cl)'
  <2>1. batch'[cl] = n
    BY <1>2 DEF Become, BatchInv, BatchesOK
  <2>2. Idle(cl)'
    BY ReturnOnlyMe DEF Fail, Idle, BatchInv, CoreInv
  <2>3. QED
    BY <1>2, <2>1, <2>2 DEF Paired, At
<1>5. QED
  BY <1>1, <1>2, <1>3, <1>4, AddMoves DEF Resting

\* The invariant holds after every step.
LEMMA BatchStepKeeps == BatchInv /\ [BatchNext]_allVars => BatchInv'
<1>1. SUFFICES ASSUME BatchInv, [BatchNext]_allVars PROVE BatchInv'
  OBVIOUS
<1>2. ASSUME NEW cl \in Client, AddEntry(cl) PROVE BatchInv'
  BY <1>1, <1>2, BeginEntryKeeps, GoOnKeeps, EndEntryKeeps DEF AddEntry
<1>3. ASSUME NEW cl \in Client, BatchFails(cl) PROVE BatchInv'
  BY <1>1, <1>3, AddFailsKeeps, EndedBatchKeeps DEF BatchFails
<1>4. CASE UNCHANGED allVars
  <2>1. /\ UNCHANGED <<items, edges, call, overlapped>>
        /\ UNCHANGED <<triples, batch, mentions, clean>>
    BY <1>4 DEF allVars, vars, storeVars, batchVars
  <2>2. CoreInv'
    BY <1>1, <2>1, StillKeepsInv DEF BatchInv
  <2>3. RowsOK'
    BY <1>1, <2>1 DEF BatchInv, RowsOK, RowsTyped, TripleHasMemory, DemotedHasRival, Held
  <2>4. BatchesOK'
    BY <1>1, <2>1 DEF BatchInv, BatchesOK, BatchOK, Kept, Ready, Paired, Rival, Stated, NewId,
                      Held, At, Idle, NextContent
  <2>5. CleanOK'
    <3>1. clean => SoleInv'
      BY <1>1, <2>1, QuietKeepsSole DEF BatchInv, CleanOK
    <3>2. QED
      BY <1>1, <2>1, <3>1 DEF BatchInv, CleanOK, Apart, At, Counts, Fresh, Stated, Shows,
                              Visible, Current
  <2>6. QED
    BY <2>2, <2>3, <2>4, <2>5 DEF BatchInv
<1>5. QED
  BY <1>1, <1>2, <1>3, <1>4, StartBatchKeeps, FindFactKeeps, PutFactKeeps, ReadMentionKeeps,
     BumpMentionKeeps, FindRivalsKeeps, ReadRivalKeeps, MarkRivalKeeps, FindSegmentKeeps,
     StoreSegmentKeeps, LinkSegmentKeeps, LinkSessionKeeps, DeleteMemoryKeeps DEF BatchNext

\* What is known of every batch, its triples and its memories, in every state.
THEOREM BatchInvHolds == BatchSpec => []BatchInv
  BY InitBatch, BatchStepKeeps, PTL DEF BatchSpec

-----------------------------------------------------------------------------
\* Every variable has its type, whatever the replies are and however batches interleave.
THEOREM BatchTypesHold == BatchSpec => []BatchTypeOK
<1>1. BatchInv => BatchTypeOK
  BY DEF BatchInv, CoreInv, ItemsOK, Counted, CallsOK, RowsOK, RowsTyped, BatchesOK, TypeOK,
         BatchTypeOK
<1>2. QED
  BY <1>1, BatchInvHolds, PTL

\* However batches interleave and whatever fails, a triple never counts more mentions than
\* there were; and exactly as many as long as none overlapped or failed.
THEOREM MentionsAreCounted == BatchSpec => []MentionsCounted
<1>1. BatchInv => MentionsCounted
  BY DEF BatchInv, RowsOK, RowsTyped, CleanOK, Counts, MentionsCounted
<1>2. QED
  BY <1>1, BatchInvHolds, PTL

\* However batches interleave, the memory a triple points to has held a statement of its
\* fact.
THEOREM TriplesHaveMemories == BatchSpec => []TripleHasMemory
<1>1. BatchInv => TripleHasMemory
  BY DEF BatchInv, RowsOK
<1>2. QED
  BY <1>1, BatchInvHolds, PTL

\* However batches interleave, a memory is demoted only if another memory has held a
\* statement against one of its own.
THEOREM DemotedHaveRivals == BatchSpec => []DemotedHasRival
<1>1. BatchInv => DemotedHasRival
  BY DEF BatchInv, RowsOK
<1>2. QED
  BY <1>1, BatchInvHolds, PTL

\* However batches interleave, each entry a batch is done with has been in the memory it
\* got the id of.
THEOREM EntriesAreKept == BatchSpec => []EntriesKept
<1>1. BatchInv => EntriesKept
  BY DEF BatchInv, BatchesOK, BatchOK, Kept, EntriesKept
<1>2. QED
  BY <1>1, BatchInvHolds, PTL

\* As long as no batches overlap and no query fails unnoticed, no user sees a text twice,
\* however many batches failed halfway and were repeated, and whatever was deleted.
THEOREM NoTextTwice == BatchSpec => []NoDuplicateText
<1>1. BatchInv => NoDuplicateText
  BY DEF BatchInv, CleanOK, SoleInv, Unique, Shows, NoDuplicateText
<1>2. QED
  BY <1>1, BatchInvHolds, PTL

-----------------------------------------------------------------------------
(* What the users see.                                                     *)

\* A demoted memory shows the text that was read, to the user it was read of.
LEMMA MarkIsPoolStep ==
  ASSUME BatchInv, NEW cl \in Client, MarkRival(cl)
  PROVE  Pool!PoolNext \/ UNCHANGED Seen
<1>1. PICK b : b = batch[cl]
  OBVIOUS
<1>2. /\ b.at = "mark"
      /\ PutMemory(b.id, Demoted(b.base)) \/ UNCHANGED items
  BY <1>1 DEF MarkRival, At
<1>3. Ready(b) /\ CoreInv
  BY <1>1 DEF BatchInv, BatchesOK, BatchOK
<1>4. /\ b.id \in Id /\ b.base.op = "ASSERT"
      /\ \E n \in DOMAIN items[b.id] : items[b.id][n] = b.base
  BY <1>2, <1>3 DEF Ready, Rival
<1>5. PICK n \in DOMAIN items[b.id] : items[b.id][n] = b.base
  BY <1>4
<1>6. b.base \in Version /\ ItemsOK
  BY <1>3, <1>4, <1>5 DEF CoreInv, ItemsOK
<1>7. PICK v : v = Demoted(b.base)
  OBVIOUS
<1>8. v \in Version /\ v.op = "ASSERT" /\ v.user = b.base.user
  BY <1>4, <1>6, <1>7 DEF Demoted, Version
<1>9. Visible(b.id) => v.user = NoUser \/ Current(b.id).user \in {v.user, NoUser}
  BY <1>3, <1>4, <1>5, <1>8, VersionOwner
<1>10. CASE PutMemory(b.id, Demoted(b.base))
  <2>1. PutMemory(b.id, v)
    BY Zenon, <1>7, <1>10
  <2>2. QED
    BY <1>4, <1>6, <1>8, <1>9, <2>1, AssertIsPoolStep
<1>11. CASE UNCHANGED items
  BY <1>11, SameStoreSeesSame
<1>12. QED
  BY <1>2, <1>10, <1>11

\* A raw segment is a new memory.
LEMMA SegmentIsPoolStep ==
  ASSUME BatchInv, NEW cl \in Client, StoreSegment(cl)
  PROVE  Pool!PoolNext
<1>1. PICK b : b = batch[cl]
  OBVIOUS
<1>2. b \in Batch /\ Ready(b) /\ ItemsOK
  BY <1>1 DEF BatchInv, BatchesOK, BatchOK, CoreInv
<1>3. b.at = "store"
  BY <1>1 DEF StoreSegment, At
<1>4. b.segments \in Seq(Content) /\ b.user \in Owner /\ b.segments # <<>>
  BY <1>2, <1>3, BatchFields DEF Ready
<1>5. PICK c : c = Head(b.segments)
  OBVIOUS
<1>6. c \in Content
  BY <1>4, <1>5
<1>7. PICK i \in Id : items[i] = <<>> /\ PutMemory(i, NewVersion(c, b.user))
  BY Zenon, <1>1, <1>5 DEF StoreSegment
<1>8. QED
  BY <1>2, <1>4, <1>6, <1>7, NewIsPoolStep

\* Every step of a batch is a step of the pool, or none.
LEMMA BatchStepIsPoolStep == BatchInv /\ [BatchNext]_allVars => [Pool!PoolNext]_Seen
<1>1. SUFFICES ASSUME BatchInv, [BatchNext]_allVars PROVE Pool!PoolNext \/ UNCHANGED Seen
  OBVIOUS
<1>2. ASSUME UNCHANGED items PROVE Pool!PoolNext \/ UNCHANGED Seen
  BY <1>2, SameStoreSeesSame
<1>3. ASSUME UNCHANGED vars PROVE Pool!PoolNext \/ UNCHANGED Seen
  BY <1>2, <1>3 DEF vars, storeVars
<1>4. CoreInv /\ ItemsOK
  BY <1>1 DEF BatchInv, CoreInv
<1>5. ASSUME NEW cl \in Client,
             \/ \E u \in Owner, r \in Reply : StartBatch(cl, u, r)
             \/ FindFact(cl) \/ PutFact(cl) \/ ReadMention(cl) \/ BumpMention(cl)
             \/ FindRivals(cl) \/ ReadRival(cl) \/ FindSegment(cl)
             \/ LinkSegment(cl) \/ LinkSession(cl)
      PROVE  Pool!PoolNext \/ UNCHANGED Seen
  <2>1. UNCHANGED vars \/ UNCHANGED items
    BY Zenon, <1>5 DEF StartBatch, FindFact, PutFact, ReadMention, BumpMention, FindRivals,
         ReadRival, FindSegment, LinkSegment, LinkSession
  <2>2. QED
    BY <1>2, <1>3, <2>1
<1>6. ASSUME NEW cl \in Client, AddEntry(cl) PROVE Pool!PoolNext \/ UNCHANGED Seen
  <2>1. PICK b : b = batch[cl]
    OBVIOUS
  <2>2. CASE AddSteps(cl)
    BY <1>4, <2>2, AddIsPoolStep
  <2>3. CASE At(cl, "entry") /\ StartAdd(cl, NextContent(b), b.user)
    <3>1. StartAdd(cl, NextContent(b), b.user)
      BY <2>3
    <3>2. UNCHANGED items
      BY <3>1 DEF StartAdd, storeVars
    <3>3. QED
      BY <1>2, <3>2
  <2>4. QED
    BY Zenon, <1>6, <2>1, <2>2, <2>3 DEF AddEntry, AddSteps
<1>7. ASSUME NEW cl \in Client, BatchFails(cl) PROVE Pool!PoolNext \/ UNCHANGED Seen
  <2>1. UNCHANGED vars \/ UNCHANGED items
    BY <1>7 DEF BatchFails, Fail, storeVars
  <2>2. QED
    BY <1>2, <1>3, <2>1
<1>8. ASSUME NEW cl \in Client, NEW i \in Id, DeleteMemory(cl, i)
      PROVE  Pool!PoolNext \/ UNCHANGED Seen
  BY <1>4, <1>8, DeleteIsPoolStep DEF DeleteMemory, Delete
<1>9. ASSUME NEW cl \in Client, MarkRival(cl) \/ StoreSegment(cl)
      PROVE  Pool!PoolNext \/ UNCHANGED Seen
  BY <1>1, <1>9, MarkIsPoolStep, SegmentIsPoolStep
<1>10. CASE UNCHANGED allVars
  BY <1>3, <1>10 DEF allVars
<1>11. QED
  BY Zenon, <1>1, <1>5, <1>6, <1>7, <1>8, <1>9, <1>10 DEF BatchNext

\* Batches keep what MemoryPool promises, too: also what a demotion writes again, a text
\* that may have been replaced or deleted since it was read, belongs to the user whose
\* fact it takes the place of, or one of them belongs to nobody.
THEOREM BatchesImplementPool == BatchSpec => RefinesPool
<1>1. BatchInit => Pool!PoolInit
  BY InitIsPoolInit DEF BatchInit
<1>2. QED
  BY <1>1, BatchInvHolds, BatchStepIsPoolStep, PTL DEF BatchSpec, RefinesPool, Pool!PoolSpec

=============================================================================
