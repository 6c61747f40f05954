----------------------------- MODULE Reminders -----------------------------
(***************************************************************************)
(* Prospective memory: the add_reminder tool, the triggers an application  *)
(* checks, and the completion of what it has shown.                        *)
(*                                                                         *)
(* add_reminder writes twice.  The row of mem_prospective comes first; the *)
(* memory that makes the reminder searchable needs an embedding, which may *)
(* fail.  The memory carries the text `Reminder: ...' but the hash of the  *)
(* bare content, and the vector of that text or, for a semantic trigger,   *)
(* of the condition: Remembered names the content that stands for it.      *)
(* When add_memory is asked for the bare content later, it finds this      *)
(* memory by the hash and stores its text with the vector of the bare      *)
(* content: Reembedded names what stands for that.                         *)
(***************************************************************************)
EXTENDS AddMemory

CONSTANTS
  Condition,    \* what trigger_condition may hold; a natural number is a time
  Remembered,   \* [Content \X TriggerType \X Condition -> Content]
  MaxReminders, \* bound: reminders ever made
  MaxTime       \* bound: the clock

TriggerType == {"topic_mention", "time_based", "user_presence", "semantic_match"}

ASSUME ReminderAssumption ==
  /\ Remembered \in [Content \X TriggerType \X Condition -> Content]
  /\ \A p \in Content \X TriggerType \X Condition : Hash[Remembered[p]] = Hash[p[1]]
  /\ MaxReminders \in Nat /\ MaxTime \in Nat

VARIABLES
  reminders,    \* mem_prospective: the rows in the order of their creation
  reminding,    \* the row each client has yet to make a memory of; 0 if none
  now,          \* the wall clock
  shown         \* history: pairs <<row, user>> that check_triggers has returned

reminderVars == <<reminders, reminding, now, shown>>

ProspectiveItem ==
  [content : Content, type : TriggerType, condition : Condition, user : Owner,
   completed : BOOLEAN]

ReminderInit ==
  /\ reminders = <<>>
  /\ reminding = [cl \in Client |-> 0]
  /\ now = 0
  /\ shown = {}

\* the text of the memory of reminder k
MemoryText(k) == Remembered[<<reminders[k].content, reminders[k].type, reminders[k].condition>>]

-----------------------------------------------------------------------------
(* add_reminder                                                            *)

\* an unknown type is taken for topic_mention
StoredType(type) == IF type \in TriggerType THEN type ELSE "topic_mention"

\* 1. put_prospective
StartReminder(cl, c, type, condition, u) ==
  /\ Idle(cl) /\ reminding[cl] = 0
  /\ Len(reminders) < MaxReminders
  /\ reminders' = Append(reminders,
                    [content |-> c, type |-> StoredType(type), condition |-> condition,
                     user |-> u, completed |-> FALSE])
  /\ reminding' = [reminding EXCEPT ![cl] = Len(reminders')]
  /\ UNCHANGED <<vars, now, shown>>

\* Mutant: no second memory with the same hash.
RememberReminderOnce(cl) ==
  /\ reminding[cl] # 0
  /\ CanWrite
  /\ LET r == reminders[reminding[cl]]
     IN  IF FindByHash(r.content, r.user) # {}
         THEN UNCHANGED items
         ELSE \E i \in Id :
                /\ items[i] = <<>>
                /\ PutMemory(i, NewVersion(MemoryText(reminding[cl]), r.user))
  /\ reminding' = [reminding EXCEPT ![cl] = 0]
  /\ UNCHANGED <<edges, call, overlapped, reminders, now, shown>>

\* 2. embed_one and put_memory, under a fresh id: no dedup
RememberReminder(cl) ==
  /\ reminding[cl] # 0
  /\ CanWrite
  /\ LET r == reminders[reminding[cl]]
     IN  \E i \in Id :
           /\ items[i] = <<>>
           /\ PutMemory(i, NewVersion(MemoryText(reminding[cl]), r.user))
  /\ reminding' = [reminding EXCEPT ![cl] = 0]
  /\ UNCHANGED <<edges, call, overlapped, reminders, now, shown>>

\* the embedding or the second write fails: the row stays
ReminderFails(cl) ==
  /\ reminding[cl] # 0
  /\ reminding' = [reminding EXCEPT ![cl] = 0]
  /\ UNCHANGED <<vars, reminders, now, shown>>

-----------------------------------------------------------------------------
(* check_triggers and complete_prospective, called by an application       *)

\* Mutant: everybody's.
PendingOfAll(u) == {k \in DOMAIN reminders : ~reminders[k].completed}

\* get_pending_prospective
Pending(u) ==
  {k \in DOMAIN reminders : ~reminders[k].completed /\ u \in {NoUser, reminders[k].user}}

\* A query is the set of the conditions its text contains.  A time that cannot be
\* parsed never comes; semantic_match falls back to the text.
Fires(r, query, u) ==
  CASE r.type = "time_based" -> r.condition \in Nat /\ now >= r.condition
    [] r.type = "user_presence" -> u # NoUser /\ u = r.condition
    [] OTHER -> r.condition \in query

Triggered(query, u) == {k \in Pending(u) : Fires(reminders[k], query, u)}

CheckTriggers(query, u) ==
  /\ shown' = shown \cup (Triggered(query, u) \X {u})
  /\ UNCHANGED <<vars, reminders, reminding, now>>

\* what was shown is completed, by whoever comes first and by all who come later
Complete(k) ==
  /\ \E u \in Owner : <<k, u>> \in shown
  /\ reminders' = [reminders EXCEPT ![k].completed = TRUE]
  /\ UNCHANGED <<vars, reminding, now, shown>>

Tick ==
  /\ now < MaxTime
  /\ now' = now + 1
  /\ UNCHANGED <<vars, reminders, reminding, shown>>

-----------------------------------------------------------------------------
(* Properties.                                                             *)

ReminderTypeOK ==
  /\ reminders \in Seq(ProspectiveItem)
  /\ reminding \in [Client -> 0 .. Len(reminders)]
  /\ now \in Nat
  /\ shown \subseteq (DOMAIN reminders) \X Owner

\* A reminder reaches only the user it was made for, or a check made for nobody in
\* particular, and a reminder with a time only once that time has come.
ShownRightly ==
  \A p \in shown :
    LET r == reminders[p[1]]
    IN  /\ p[2] \in {NoUser, r.user}
        /\ r.type = "time_based" => r.condition \in Nat /\ r.condition <= now

\* the memories that were written for reminders: nobody else stores their texts
ReminderTexts == {MemoryText(k) : k \in DOMAIN reminders}
ReminderMemories == {i \in Id : items[i] # <<>> /\ items[i][1].content \in ReminderTexts}

=============================================================================
