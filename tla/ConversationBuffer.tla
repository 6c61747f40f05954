------------------------- MODULE ConversationBuffer -------------------------
(***************************************************************************)
(* One session of the conversation memory: the rows of mem_conversations   *)
(* for that session (durable) and the ConversationBuffer the Engine keeps  *)
(* for it (lost when the process stops).                                   *)
(*                                                                         *)
(* Engine::append_message holds the mutex of the buffer map across the     *)
(* whole call, so one append is one action.  Sessions share nothing, so    *)
(* one is enough.  A message is the number of the append call that brought *)
(* it: two calls with the same text are two messages.                      *)
(***************************************************************************)
EXTENDS Integers, Sequences, FiniteSets, SequencesExt

CONSTANTS
  MaxMessages,   \* conversation_buffer_size, the size of the sliding window
  MaxCalls,      \* bound: append calls
  MaxFails,      \* bound: writes of mem_conversations that return an error
  MaxRestarts    \* bound: times the process stops and opens the store again

ASSUME SizesAssumption ==
  /\ MaxMessages \in Nat
  /\ MaxCalls \in Nat
  /\ MaxFails \in Nat
  /\ MaxRestarts \in Nat

VARIABLES
  rows,      \* seq -> message: the durable rows of the session
  messages,  \* the window, oldest first
  seq,       \* the last sequence number handed out by this buffer
  loaded     \* has load() succeeded?

VARIABLES    \* history variables, no code reads them
  calls,     \* append calls that reached put_message
  written,   \* the messages whose row was written, in order; the caller has heard Ok for
             \* each of them, unless the process stopped in between
  own,       \* how many of them this buffer took since it was created or cleared
  fails, restarts,
  intact     \* no restart has found a gap in the sequence numbers

bufferVars == <<rows, messages, seq, loaded>>
historyVars == <<calls, written, own, fails, restarts, intact>>
vars == <<bufferVars, historyVars>>

Message == 1 .. MaxCalls

-----------------------------------------------------------------------------
(* The store.                                                              *)

\* :put with key (session_id, seq): a row with the same key is replaced
PutMessage(m, s) ==
  rows' = [k \in DOMAIN rows \cup {s} |-> IF k = s THEN m ELSE rows[k]]

MessageCount == Cardinality(DOMAIN rows)

\* the place of s among the numbers of S, and the number at a place
Place(S, s) == Cardinality({k \in S : k <= s})
Nth(S, i) == CHOOSE s \in S : Place(S, s) = i

\* the messages of the session, :order seq
Stored == [i \in 1 .. MessageCount |-> rows[Nth(DOMAIN rows, i)]]

\* Mutant: the newest rows are read, and stay newest first.
GetMessagesNewestFirst(n) == SubSeq(Reverse(Stored), 1, IF n < Len(Stored) THEN n ELSE Len(Stored))

\* :order seq, :limit n
GetMessages(n) == SubSeq(Stored, 1, IF n < Len(Stored) THEN n ELSE Len(Stored))

-----------------------------------------------------------------------------
(* The buffer.                                                             *)

\* Mutant: the window is trimmed from the wrong end.
LastNFromFront(s, n) == SubSeq(s, 1, IF n < Len(s) THEN n ELSE Len(s))
\* Mutant: the window is never trimmed.
LastNUntrimmed(s, n) == s

\* the last n elements of s
LastN(s, n) == SubSeq(s, (IF n < Len(s) THEN Len(s) - n ELSE 0) + 1, Len(s))

\* Mutant: load() does not count the rows that are already there.
LoadedSeqFromZero == IF loaded THEN seq ELSE 0

\* window and sequence number once load() has returned Ok
LoadedMessages == IF loaded THEN messages ELSE GetMessages(MaxMessages)
LoadedSeq == IF loaded THEN seq ELSE MessageCount

Recent(n) == LastN(messages, n)

Contiguous == DOMAIN rows = 1 .. MessageCount

Init ==
  /\ rows = <<>>
  /\ messages = <<>>
  /\ seq = 0
  /\ loaded = FALSE
  /\ calls = 0
  /\ written = <<>>
  /\ own = 0
  /\ fails = 0
  /\ restarts = 0
  /\ intact = TRUE

Load ==
  /\ messages' = LoadedMessages
  /\ seq' = LoadedSeq
  /\ loaded' = TRUE
  /\ UNCHANGED <<rows, historyVars>>

\* get_messages succeeds and message_count does not: the window is replaced,
\* the sequence number is not.  (When get_messages itself fails nothing
\* changes.)  An append whose load fails does the same.
LoadFails ==
  /\ ~loaded
  /\ messages' = GetMessages(MaxMessages)
  /\ UNCHANGED <<rows, seq, loaded, historyVars>>

AppendOk ==
  LET m == calls + 1
      s == LoadedSeq + 1
  IN  /\ calls < MaxCalls
      /\ PutMessage(m, s)
      /\ messages' = LastN(Append(LoadedMessages, m), MaxMessages)
      /\ seq' = s
      /\ loaded' = TRUE
      /\ calls' = m
      /\ written' = Append(written, m)
      /\ own' = own + 1
      /\ UNCHANGED <<fails, restarts, intact>>

\* put_message returns Err: `?' leaves append before the push, after seq += 1
AppendPutFails ==
  /\ calls < MaxCalls
  /\ fails < MaxFails
  /\ messages' = LoadedMessages
  /\ seq' = LoadedSeq + 1
  /\ loaded' = TRUE
  /\ calls' = calls + 1
  /\ fails' = fails + 1
  /\ UNCHANGED <<rows, written, own, restarts, intact>>

\* clear() forgets the window and nothing else
Clear ==
  /\ messages' = <<>>
  /\ own' = 0
  /\ UNCHANGED <<rows, seq, loaded, calls, written, fails, restarts, intact>>

\* The process stops, between two calls or inside one, after its write
\* committed or before, and a new Engine opens the same store.
Restart ==
  /\ restarts < MaxRestarts
  /\ messages' = <<>>
  /\ seq' = 0
  /\ loaded' = FALSE
  /\ own' = 0
  /\ restarts' = restarts + 1
  /\ intact' = (intact /\ Contiguous)
  /\ UNCHANGED <<rows, calls, written, fails>>

Next ==
  \/ Load
  \/ LoadFails
  \/ AppendOk
  \/ AppendPutFails
  \/ Clear
  \/ Restart

Spec == Init /\ [][Next]_vars

-----------------------------------------------------------------------------
(* Properties.                                                             *)

Elements(s) == {s[i] : i \in DOMAIN s}
Lost == Elements(written) \ Elements(rows)

\* Every variable has its type, and the window never outgrows its size.
TypeOK ==
  /\ DOMAIN rows \subseteq 1 .. MaxCalls
  /\ rows \in [DOMAIN rows -> Message]
  /\ messages \in Seq(Message)
  /\ Len(messages) <= MaxMessages
  /\ seq \in 0 .. MaxCalls
  /\ loaded \in BOOLEAN
  /\ calls \in 0 .. MaxCalls
  /\ written \in Seq(Message)
  /\ own \in 0 .. MaxCalls
  /\ fails \in 0 .. MaxFails
  /\ restarts \in 0 .. MaxRestarts
  /\ intact \in BOOLEAN

\* Until a restart finds a gap in the sequence numbers, the session's rows are
\* exactly the messages written, and reading them by seq gives the order of the
\* calls: failed writes, failed loads, clears and restarts lose, repeat and
\* reorder nothing.
LogFaithful ==
  intact =>
    /\ Elements(rows) = Elements(written)
    /\ \A j, k \in DOMAIN rows : j < k => rows[j] < rows[k]

\* A failed write leaves a gap for good, and every restart over g gaps makes the
\* buffer hand out up to g sequence numbers again: what is ever lost is at most
\* one message for each failed write and restart.
LossBound == Cardinality(Lost) <= fails * restarts

\* The messages this buffer took since it was created or cleared are the end of
\* the window, newest last, as many of them as the window holds.
WindowTail ==
  LET n == IF own < MaxMessages THEN own ELSE MaxMessages
  IN  LastN(messages, n) = LastN(written, n)

\* "Recent messages for coherence", as far as it holds: until the first restart, and after
\* it as long as all of the session's messages fit into the window, the window is the end of
\* the session's log, whatever writes and loads have failed and whenever it was cleared;
\* unless a restart has found a gap.
WindowRecentUntilFull ==
  intact /\ (restarts = 0 \/ MessageCount <= MaxMessages)
    => messages = LastN(Stored, Len(messages))

\* The rows, read by seq, keep the promise of ConversationLog.
Log == INSTANCE ConversationLog WITH log <- Stored
RefinesLog == Log!LogSpec

\* "Append a message and persist it.": a message that was persisted stays.
NothingLost == Lost = {}

\* "Recent messages for coherence": a loaded window holds the most recent
\* messages of the session, so it ends where the session's log ends.
WindowIsRecent == loaded => IsSuffix(messages, Stored)
=============================================================================
