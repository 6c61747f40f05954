------------------------------- MODULE Agent -------------------------------
(***************************************************************************)
(* run_with_tools: an LLM that is asked, asks for tools, gets their        *)
(* results and is asked again, for at most MaxRounds rounds and once more  *)
(* without tools.  The tools it calls here are add_memory and add_reminder *)
(* on the shared store, while an application checks triggers, completes    *)
(* reminders and deletes memories.  Each call of a tool makes the steps it *)
(* makes in AddMemory and Reminders.                                       *)
(*                                                                         *)
(* The caller keeps the messages: after a run, successful or not, it adds  *)
(* what the user says next and runs again on the same trace, perhaps with  *)
(* another provider.                                                       *)
(***************************************************************************)
EXTENDS Reminders, WireFormats

CONSTANTS
  MaxRounds,  \* max_rounds
  NoArgs,     \* arguments without the fields the tool requires
  Reply,      \* what an LLM may answer: [text, calls], a call is [tool, args]
  MaxRuns     \* bound: runs of one client

\* what the two tools take; a tool that is unknown takes nothing
MemoryArgs == [content : Content, user : Owner]
ReminderArgs == [content : Content, type : STRING, condition : Condition, user : Owner]

Arguments(tool) ==
  CASE tool = "add_memory"   -> MemoryArgs
    [] tool = "add_reminder" -> ReminderArgs
    [] OTHER                 -> {}

ASSUME AgentAssumption ==
  /\ MaxRounds \in Nat /\ MaxRuns \in Nat
  /\ NoArgs \notin MemoryArgs \cup ReminderArgs
  /\ \A reply \in Reply :
       /\ reply.calls \in Seq([tool : STRING, args : MemoryArgs \cup ReminderArgs \cup {NoArgs}])
       /\ \A k \in DOMAIN reply.calls :
            reply.calls[k].args \in Arguments(reply.calls[k].tool) \cup {NoArgs}

VARIABLES
  run,        \* where each client is in run_with_tools
  trace,      \* its messages
  runs        \* how many runs it has begun

agentVars == <<run, trace, runs>>
allVars == <<vars, reminderVars, agentVars>>

Run ==
  [at    : {"idle", "ask", "execute", "tool", "last"},
   round : Nat,
   todo  : Nat]       \* calls of the last answer that are not yet answered

NoRun == [at |-> "idle", round |-> 0, todo |-> 0]

AgentInit ==
  /\ Init
  /\ ReminderInit
  /\ run = [cl \in Client |-> NoRun]
  /\ trace = [cl \in Client |-> <<SystemMessage("instructions")>>]
  /\ runs = [cl \in Client |-> 0]

At(cl, p) == run[cl].at = p
Become(cl, r) == run' = [run EXCEPT ![cl] = r]
Push(cl, m) == trace' = [trace EXCEPT ![cl] = Append(@, m)]

\* the calls a trace has brought so far
Calls(ms) == UNION {{ms[k].calls[j] : j \in DOMAIN ms[k].calls} : k \in DOMAIN ms}
Asked(ms) == UNION {{<<k, j>> : j \in DOMAIN ms[k].calls} : k \in DOMAIN ms}

\* Mutant: one round too many.
AskOnceMore(round) == IF round <= MaxRounds THEN "ask" ELSE "last"

AskNext(round) == IF round < MaxRounds THEN "ask" ELSE "last"

-----------------------------------------------------------------------------
StartRun(cl) ==
  /\ At(cl, "idle")
  /\ runs[cl] < MaxRuns
  /\ runs' = [runs EXCEPT ![cl] = @ + 1]
  /\ Push(cl, UserMessage("question"))
  /\ Become(cl, [NoRun EXCEPT !.at = AskNext(0)])
  /\ UNCHANGED <<vars, reminderVars>>

\* a request with tools is answered
Answer(cl) ==
  /\ At(cl, "ask")
  /\ \E reply \in Reply :
       LET r == Decode(reply, Cardinality(Asked(trace[cl])))
       IN  /\ Push(cl, AssistantMessage(r.text, r.calls))
           /\ Become(cl, IF r.calls = <<>>
                         THEN NoRun
                         ELSE [run[cl] EXCEPT !.at = "execute", !.todo = Len(r.calls)])
  /\ UNCHANGED <<vars, reminderVars, runs>>

\* the last request offers no tools; calls it is answered with are dropped
LastAnswer(cl) ==
  /\ At(cl, "last")
  /\ \E reply \in Reply : Push(cl, AssistantMessage(reply.text, <<>>))
  /\ Become(cl, NoRun)
  /\ UNCHANGED <<vars, reminderVars, runs>>

\* no connection, a timeout, a status that is no success, or no JSON
RequestFails(cl) ==
  /\ run[cl].at \in {"ask", "last"}
  /\ Become(cl, NoRun)
  /\ UNCHANGED <<vars, reminderVars, trace, runs>>

-----------------------------------------------------------------------------
(* execute: a tool call always has a result, be it an error.               *)

\* the call at the head of those to be executed
Asking(cl) ==
  LET ms == trace[cl]
      last == CHOOSE k \in DOMAIN ms :
                HasToolCalls(ms[k]) /\ \A l \in k + 1 .. Len(ms) : ~HasToolCalls(ms[l])
      calls == ms[last].calls
  IN  calls[Len(calls) - run[cl].todo + 1]

\* what an outcome tells the LLM
Error == <<"error">>
Memory(i) == <<"memory", i>>
Reminder(k) == <<"reminder", k>>

\* Mutant: an error is not reported back.
ReportSuccess(id, outcome) == IF outcome = Error THEN <<>> ELSE <<ToolResult(id, outcome)>>

Report(id, outcome) == <<ToolResult(id, outcome)>>

Finish(cl, outcome) ==
  LET todo == run[cl].todo - 1
      round == IF todo = 0 THEN run[cl].round + 1 ELSE run[cl].round
  IN  /\ trace' = [trace EXCEPT ![cl] = @ \o Report(Asking(cl).id, outcome)]
      /\ Become(cl, [run[cl] EXCEPT !.at = IF todo = 0 THEN AskNext(round) ELSE "execute",
                                    !.round = round, !.todo = todo])
      /\ UNCHANGED runs

Begin(cl) == Become(cl, [run[cl] EXCEPT !.at = "tool"]) /\ UNCHANGED <<trace, runs>>

\* dispatch: an unknown tool, missing arguments, or an error of the first store call
CallFails(cl) ==
  /\ At(cl, "execute")
  /\ Finish(cl, Error)
  /\ UNCHANGED <<vars, reminderVars>>

CallAddMemory(cl) ==
  LET c == Asking(cl)
  IN  /\ At(cl, "execute")
      /\ c.tool = "add_memory" /\ c.args # NoArgs
      /\ StartAdd(cl, c.args.content, c.args.user)
      /\ Begin(cl)
      /\ UNCHANGED reminderVars

AddMemoryGoesOn(cl) ==
  /\ At(cl, "tool")
  /\ SearchSimilar(cl) \/ Store(cl)
  /\ UNCHANGED <<reminderVars, agentVars>>

AddMemoryReturns(cl) ==
  /\ At(cl, "tool")
  /\ \/ (Reinforce(cl) \/ Update(cl) \/ Link(cl)) /\ Finish(cl, Memory(call[cl].id))
     \/ Fail(cl) /\ Finish(cl, Error)
  /\ UNCHANGED reminderVars

CallAddReminder(cl) ==
  LET c == Asking(cl)
  IN  /\ At(cl, "execute")
      /\ c.tool = "add_reminder" /\ c.args # NoArgs
      /\ StartReminder(cl, c.args.content, c.args.type, c.args.condition, c.args.user)
      /\ Begin(cl)

\* Mutant: the embedding is tried until it succeeds.
AddReminderInsists(cl) ==
  At(cl, "tool") /\ RememberReminder(cl) /\ Finish(cl, Reminder(reminding[cl]))

\* Mutant: the call is made again after an error.
AddReminderAgain(cl) ==
  /\ At(cl, "tool")
  /\ \/ RememberReminder(cl) /\ Finish(cl, Reminder(reminding[cl]))
     \/ ReminderFails(cl) /\ Become(cl, [run[cl] EXCEPT !.at = "execute"])
        /\ UNCHANGED <<trace, runs>>

\* Mutant: the second write is best effort.
AddReminderAnyway(cl) ==
  /\ At(cl, "tool")
  /\ RememberReminder(cl) \/ ReminderFails(cl)
  /\ Finish(cl, Reminder(reminding[cl]))

AddReminderReturns(cl) ==
  /\ At(cl, "tool")
  /\ \/ RememberReminder(cl) /\ Finish(cl, Reminder(reminding[cl]))
     \/ ReminderFails(cl) /\ Finish(cl, Error)

-----------------------------------------------------------------------------
\* the application, at any time
Application ==
  /\ \/ /\ \E i \in Id : Visible(i) /\ CanWrite /\ InvalidateMemory(i)
        /\ UNCHANGED <<edges, call, overlapped, reminderVars>>
     \/ \E query \in {{}, Condition}, u \in Owner : CheckTriggers(query, u)
     \/ \E k \in DOMAIN reminders : Complete(k)
     \/ Tick
  /\ UNCHANGED agentVars

\* what a run does once it has begun
Continue(cl) ==
  \/ Answer(cl)
  \/ LastAnswer(cl)
  \/ RequestFails(cl)
  \/ CallFails(cl)
  \/ CallAddMemory(cl)
  \/ AddMemoryGoesOn(cl)
  \/ AddMemoryReturns(cl)
  \/ CallAddReminder(cl)
  \/ AddReminderReturns(cl)

AgentNext ==
  \/ \E cl \in Client : StartRun(cl) \/ Continue(cl)
  \/ Application

\* The thread of a run goes on: no call waits for another thread, and every request
\* returns, since reqwest's blocking client gives up after a while.
Fairness == \A cl \in Client : WF_allVars(Continue(cl))

AgentSpec == AgentInit /\ [][AgentNext]_allVars /\ Fairness

-----------------------------------------------------------------------------
(* Properties.                                                             *)

AgentTypeOK ==
  /\ TypeOK
  /\ ReminderTypeOK
  /\ run \in [Client -> Run]
  /\ \A cl \in Client : run[cl].round <= MaxRounds /\ runs[cl] <= MaxRuns

\* Whenever the trace is, or could be, sent, each call in it has exactly one result, in
\* place: for each of the three formats, whatever failed, also when a run that ended
\* with an error is continued by another one.
RequestsPaired ==
  \A cl \in Client, p \in Provider :
    run[cl].at \in {"idle", "ask", "last"} =>
      Paired(p, Request(p, trace[cl], At(cl, "ask")).contents)

\* the calls of a trace with their outcomes
Outcomes(ms) ==
  UNION {{<<c, ms[k].text>> : k \in {n \in DOMAIN ms : IsResult(ms[n]) /\ ms[n].id = c.id}}
           : c \in Calls(ms)}

\* What a result tells the LLM is so: the memory it names has held the text, or a
\* reminder of it; the reminder it names is the one that was asked for and a memory has
\* been written for it.
ResultsTrue ==
  \A cl \in Client : \A o \in Outcomes(trace[cl]) :
    LET args == o[1].args
    IN  o[2] # Error =>
          IF o[1].tool = "add_memory"
          THEN \E n \in DOMAIN items[o[2][2]] :
                 Hash[items[o[2][2]][n].content] = Hash[args.content]
          ELSE LET r == reminders[o[2][2]]
               IN  /\ r.content = args.content /\ r.user = args.user
                   /\ \E i \in ReminderMemories :
                        items[i][1].content = MemoryText(o[2][2])

\* what an LLM may ask of a tool, and the texts of the memories its reminders may get
AskedOf(tool) ==
  {c \in UNION {{reply.calls[k] : k \in DOMAIN reply.calls} : reply \in Reply} :
     c.tool = tool /\ c.args # NoArgs}
AskedText(c) == Remembered[<<c.args.content, StoredType(c.args.type), c.args.condition>>]
AskedTexts == {AskedText(c) : c \in AskedOf("add_reminder")}

\* Nobody asks add_memory for a text that starts with "Reminder: " and goes on as one of
\* the reminders does.
TextsApart == \A c \in AskedOf("add_memory") : c.args.content \notin AskedTexts

\* Every memory of a reminder has its reminder, and reminders without a memory come from
\* calls that failed between the two writes or are about to make the second.
RemindersRemembered ==
  LET failed(cl) == {o \in Outcomes(trace[cl]) : o[1].tool = "add_reminder" /\ o[2] = Error}
      unfinished == {cl \in Client : reminding[cl] # 0}
      missing == Len(reminders) - Cardinality(ReminderMemories)
  IN  missing \in 0 .. Cardinality(unfinished)
                       + Cardinality(UNION {{<<cl, o>> : o \in failed(cl)} : cl \in Client})

\* How far a run is from its end: requests and rounds, calls without a result, and steps of
\* the call that is made.
StepsOfCall(cl) ==
  CASE At(cl, "execute")                             -> 4
    [] At(cl, "tool") /\ call[cl].at = "search"      -> 3
    [] At(cl, "tool") /\ call[cl].at = "store"       -> 2
    [] OTHER                                         -> 1
Left(cl) ==
  IF At(cl, "idle") THEN <<0, 0, 0>>
  ELSE <<2 * (MaxRounds - run[cl].round) + (IF At(cl, "ask") THEN 2 ELSE 1),
         run[cl].todo, StepsOfCall(cl)>>

Less(m, n) ==
  \/ m[1] < n[1]
  \/ m[1] = n[1] /\ m[2] < n[2]
  \/ m[1] = n[1] /\ m[2] = n[2] /\ m[3] < n[3]

\* If a client moves in a run, it comes closer to the end.
ComesCloser(cl) ==
  ~At(cl, "idle") /\ <<run[cl], trace[cl], call[cl], reminding[cl]>>'
                       # <<run[cl], trace[cl], call[cl], reminding[cl]>>
    => Left(cl)' \in Nat \X Nat \X Nat /\ Less(Left(cl)', Left(cl))

\* A run comes closer to its end with every step: nothing is asked, called or written
\* again, whatever the LLM answers, whatever fails, and however often others write in
\* between.  So it makes finitely many steps.
RunsRunDown == [][\A cl \in Client : ComesCloser(cl)]_allVars

\* Every run returns, whatever the LLM answers and whatever fails.
RunReturns == \A cl \in Client : ~At(cl, "idle") ~> At(cl, "idle")
=============================================================================
