---------------------------- MODULE AgentProofs ----------------------------
(***************************************************************************)
(* Proofs about the tool loop, for any number of clients, rounds, runs and *)
(* reminders, and whatever the LLM answers.                                *)
(***************************************************************************)
EXTENDS Agent, AddMemoryProofs, WireFormatsProofs, FiniteSetTheorems

(***************************************************************************)
(* The inductive invariant.  The trace of a client tells where it is: each *)
(* call has its result in its place, but for the last `todo' calls, which  *)
(* belong to one message.  What a result says is so, and stays so because  *)
(* versions and reminders are never taken back; what a call is about to    *)
(* say is what it holds of the memory it reads or of its reminder.         *)
(***************************************************************************)
Outcome == {Error} \cup {Memory(i) : i \in Id} \cup {Reminder(k) : k \in Nat}
Texts == {"instructions", "question"} \cup {reply.text : reply \in Reply} \cup Outcome
Issued == [id : Nat, tool : STRING, args : MemoryArgs \cup ReminderArgs \cup {NoArgs}]
Said == Message(Texts, Issued)

\* calls have their arguments, and numbers of their own
Numbered(ms) ==
  /\ IsFiniteSet(Asked(ms))
  /\ \A k \in DOMAIN ms : \A j \in DOMAIN ms[k].calls :
       /\ ms[k].calls[j].args \in Arguments(ms[k].calls[j].tool) \cup {NoArgs}
       /\ ms[k].calls[j].id \in 1 .. Cardinality(Asked(ms))
       /\ \A l \in DOMAIN ms : \A i \in DOMAIN ms[l].calls :
            ms[l].calls[i].id = ms[k].calls[j].id => l = k /\ i = j

\* message k has the calls of which `todo' are open
Open(ms, todo, k) ==
  /\ k \in DOMAIN ms
  /\ todo <= Len(ms[k].calls)
  /\ k + Len(ms[k].calls) = Len(ms) + todo

TraceOK(ms, todo) ==
  /\ ms \in Seq(Said)
  /\ OneSystem(ms) /\ OnlyModelCalls(ms)
  /\ CallsAnswered(ms, todo) /\ ResultsAsked(ms)
  /\ Numbered(ms)
  /\ todo > 0 => \E k \in DOMAIN ms : Open(ms, todo, k)

\* what outcome tells of call c is so
Truthful(c, outcome) ==
  \/ outcome = Error
  \/ /\ c.tool = "add_memory"
     /\ \E i \in Id : /\ outcome = Memory(i)
                      /\ \E n \in DOMAIN items[i] :
                           Hash[items[i][n].content] = Hash[c.args.content]
  \/ /\ c.tool = "add_reminder"
     /\ \E k \in DOMAIN reminders :
          /\ outcome = Reminder(k)
          /\ reminders[k].content = c.args.content /\ reminders[k].user = c.args.user
          /\ \E i \in Id : /\ 1 \in DOMAIN items[i]
                           /\ items[i][1].content = MemoryText(k)

AllTruthful(ms) ==
  \A k \in DOMAIN ms : \A j \in DOMAIN ms[k].calls :
    k + j \in DOMAIN ms => Truthful(ms[k].calls[j], ms[k + j].text)

\* a client runs the tool that it was asked to run
DoesAsked(cl) ==
  /\ ~At(cl, "tool") => Idle(cl) /\ reminding[cl] = 0
  /\ ~Idle(cl) =>
       /\ reminding[cl] = 0
       /\ Asking(cl).tool = "add_memory" /\ Asking(cl).args \in MemoryArgs
       /\ call[cl].content = Asking(cl).args.content
  /\ reminding[cl] # 0 =>
       /\ Asking(cl).tool = "add_reminder"
       /\ reminders[reminding[cl]].content = Asking(cl).args.content
       /\ reminders[reminding[cl]].user = Asking(cl).args.user

RoundsOK(cl) ==
  /\ run[cl].round <= MaxRounds /\ runs[cl] <= MaxRuns
  /\ run[cl].at \in {"ask", "execute", "tool"} => run[cl].round < MaxRounds
  /\ run[cl].at \in {"execute", "tool"} <=> run[cl].todo > 0

ClientOK(cl) ==
  /\ RoundsOK(cl)
  /\ TraceOK(trace[cl], run[cl].todo)
  /\ AllTruthful(trace[cl])
  /\ DoesAsked(cl)

AgentInv ==
  /\ AddInv
  /\ ReminderTypeOK /\ ShownRightly
  /\ run \in [Client -> Run] /\ runs \in [Client -> Nat]
  /\ DOMAIN trace = Client
  /\ \A cl \in Client : ClientOK(cl)

-----------------------------------------------------------------------------
(* Traces.                                                                 *)

\* What Append does to a trace.
LEMMA Appended ==
  ASSUME NEW S, NEW ms \in Seq(S), NEW m \in S
  PROVE  /\ Append(ms, m) \in Seq(S) /\ Len(ms) \in Nat
         /\ Len(Append(ms, m)) = Len(ms) + 1
         /\ DOMAIN ms = 1 .. Len(ms) /\ DOMAIN Append(ms, m) = 1 .. Len(ms) + 1
         /\ \A k \in 1 .. Len(ms) : Append(ms, m)[k] = ms[k]
         /\ Append(ms, m)[Len(ms) + 1] = m
         /\ ms \o <<m>> = Append(ms, m)
<1>1. Append(ms, m) \in Seq(S) /\ Len(ms) \in Nat /\ Len(Append(ms, m)) = Len(ms) + 1
  OBVIOUS
<1>2. DOMAIN ms = 1 .. Len(ms) /\ DOMAIN Append(ms, m) = 1 .. Len(ms) + 1
  BY <1>1
<1>3. Append(ms, m)[Len(ms) + 1] = m /\ \A k \in 1 .. Len(ms) : Append(ms, m)[k] = ms[k]
  BY <1>1
<1>4. ms \o <<m>> = Append(ms, m)
  OBVIOUS
<1>5. QED
  BY <1>1, <1>2, <1>3, <1>4

\* The calls of a message.
LEMMA CallsOfSaid ==
  ASSUME NEW m \in Said
  PROVE  /\ m.calls \in Seq(Issued) /\ Len(m.calls) \in Nat
         /\ DOMAIN m.calls = 1 .. Len(m.calls)
<1>1. m.calls \in Seq(Issued)
  BY DEF Said, Message
<1>2. QED
  BY <1>1

\* Asking, of any trace
FirstOpen(ms, todo) ==
  LET last == CHOOSE k \in DOMAIN ms :
                HasToolCalls(ms[k]) /\ \A l \in k + 1 .. Len(ms) : ~HasToolCalls(ms[l])
      calls == ms[last].calls
  IN  calls[Len(calls) - todo + 1]

\* The call that is carried out is the first without a result.
LEMMA AskingIsOpen ==
  ASSUME NEW cl PROVE Asking(cl) = FirstOpen(trace[cl], run[cl].todo)
  BY Zenon DEF Asking, FirstOpen

\* message k of ms has the open calls, its call j is the first of them, and no other
\* call is waiting for the next message
FirstAt(ms, todo, k, j) ==
  /\ k \in DOMAIN ms /\ j \in DOMAIN ms[k].calls
  /\ k + j = Len(ms) + 1
  /\ k + Len(ms[k].calls) = Len(ms) + todo
  /\ FirstOpen(ms, todo) = ms[k].calls[j]
  /\ FirstOpen(ms, todo) \in Issued
  /\ FirstOpen(ms, todo).args \in Arguments(FirstOpen(ms, todo).tool) \cup {NoArgs}
  /\ \A l \in DOMAIN ms : \A i \in DOMAIN ms[l].calls : l + i > Len(ms) => l = k

\* The call that is executed next is the first of the open ones.
LEMMA NextAsked ==
  ASSUME NEW ms, NEW todo \in Nat, todo > 0, TraceOK(ms, todo)
  PROVE  \E k, j : FirstAt(ms, todo, k, j)
<1>1. PICK k \in DOMAIN ms : Open(ms, todo, k)
  BY DEF TraceOK
<1>2. /\ Len(ms) \in Nat /\ DOMAIN ms = 1 .. Len(ms)
      /\ \A n \in 1 .. Len(ms) : ms[n] \in Said
  BY DEF TraceOK
<1>3. PICK len \in Nat : /\ len = Len(ms[k].calls) /\ DOMAIN ms[k].calls = 1 .. len
                         /\ ms[k].calls \in Seq(Issued) /\ k \in Nat /\ k <= Len(ms)
                         /\ todo <= len /\ k + len = Len(ms) + todo
  BY <1>1, <1>2, CallsOfSaid DEF Open
<1>4. /\ Len(ms) \in Nat /\ k \in Nat /\ k <= Len(ms) /\ len \in Nat
      /\ todo <= len /\ k + len = Len(ms) + todo
  BY <1>2, <1>3
<1>5. \A n \in DOMAIN ms : n > k => ms[n].calls = <<>>
  <2>1. SUFFICES ASSUME NEW n \in DOMAIN ms, n > k PROVE ms[n].calls = <<>>
    OBVIOUS
  <2>2. n - k \in DOMAIN ms[k].calls /\ k + (n - k) = n /\ n <= Len(ms)
    <3>1. n \in Nat /\ n <= Len(ms)
      BY <1>2
    <3>2. n - k \in 1 .. len /\ k + (n - k) = n
      BY <1>4, <2>1, <3>1
    <3>3. QED
      BY <1>3, <3>1, <3>2
  <2>3. IsResult(ms[n])
    BY <2>2 DEF TraceOK, CallsAnswered
  <2>4. QED
    BY <2>3 DEF TraceOK, OnlyModelCalls, IsResult
<1>6. HasToolCalls(ms[k])
  BY <1>3 DEF HasToolCalls
<1> DEFINE Latest(n) == HasToolCalls(ms[n]) /\ \A l \in n + 1 .. Len(ms) : ~HasToolCalls(ms[l])
           j == len - todo + 1
<1>7. (CHOOSE n \in DOMAIN ms : Latest(n)) = k
  <2>1. Latest(k)
    BY <1>2, <1>3, <1>5, <1>6 DEF HasToolCalls
  <2>2. \A n \in DOMAIN ms : Latest(n) => n = k
    <3>1. SUFFICES ASSUME NEW n \in DOMAIN ms, Latest(n), n # k PROVE FALSE
      OBVIOUS
    <3>2. CASE n < k
      <4>1. k \in n + 1 .. Len(ms)
        BY <1>2, <1>3, <3>2
      <4>2. QED
        BY <1>6, <3>1, <4>1
    <3>3. CASE n > k
      BY <1>5, <3>1, <3>3 DEF HasToolCalls
    <3>4. QED
      BY <1>2, <1>3, <3>1, <3>2, <3>3
  <2> HIDE DEF Latest
  <2>3. QED
    BY <1>1, <2>1, <2>2
<1>8. FirstOpen(ms, todo) = ms[k].calls[j]
  BY <1>3, <1>7 DEF FirstOpen
<1>9. j \in DOMAIN ms[k].calls /\ k + j = Len(ms) + 1
  <2>1. j \in 1 .. len /\ k + j = Len(ms) + 1
    BY <1>4
  <2>2. QED
    BY <1>3, <2>1
<1>10. /\ FirstOpen(ms, todo) \in Issued
      /\ FirstOpen(ms, todo).args \in Arguments(FirstOpen(ms, todo).tool) \cup {NoArgs}
  <2>1. ms[k].calls[j] \in Issued
    BY <1>3, <1>9
  <2>2. ms[k].calls[j].args \in Arguments(ms[k].calls[j].tool) \cup {NoArgs}
    BY Zenon, <1>9 DEF TraceOK, Numbered
  <2>3. QED
    BY <1>8, <2>1, <2>2
<1>11. ASSUME NEW l \in DOMAIN ms, NEW i \in DOMAIN ms[l].calls, l + i > Len(ms) PROVE l = k
  <2>1. /\ l \in 1 .. Len(ms) /\ i \in Nat /\ i >= 1 /\ i <= Len(ms[l].calls)
        /\ DOMAIN ms[l].calls = 1 .. Len(ms[l].calls) /\ Len(ms[l].calls) \in Nat
    BY <1>2, CallsOfSaid
  <2>2. CASE l < k
    <3>1. k - l \in DOMAIN ms[l].calls /\ l + (k - l) = k /\ k <= Len(ms)
      <4>1. PICK m \in Nat : m = Len(ms[l].calls)
        BY <2>1
      <4>2. k - l \in 1 .. m /\ l + (k - l) = k /\ k <= Len(ms)
        BY <1>4, <1>11, <2>1, <2>2, <4>1
      <4>3. QED
        BY <2>1, <4>1, <4>2
    <3>2. IsResult(ms[k])
      BY <3>1 DEF TraceOK, CallsAnswered
    <3>3. QED
      BY <1>6, <3>2 DEF TraceOK, OnlyModelCalls, IsResult, HasToolCalls
  <2>3. CASE l > k
    BY <1>5, <2>1, <2>3
  <2>4. QED
    BY <1>3, <2>1, <2>2, <2>3
<1>12. QED
  BY <1>3, <1>8, <1>9, <1>10, <1>11 DEF FirstAt

\* The calls of a trace with one more message.
LEMMA AskedAppended ==
  ASSUME NEW ms \in Seq(Said), NEW m \in Said
  PROVE  Asked(Append(ms, m)) = Asked(ms) \cup {<<Len(ms) + 1, j>> : j \in DOMAIN m.calls}
<1> DEFINE t == Append(ms, m)
<1>1. /\ DOMAIN ms = 1 .. Len(ms) /\ DOMAIN t = 1 .. Len(ms) + 1 /\ Len(ms) \in Nat
      /\ \A k \in 1 .. Len(ms) : t[k] = ms[k]
      /\ t[Len(ms) + 1] = m
  BY Appended
<1> HIDE DEF t
<1>2. \A k \in DOMAIN ms : k \in DOMAIN t /\ t[k] = ms[k] /\ k # Len(ms) + 1
  BY <1>1
<1>3. \A k \in DOMAIN t : k \in DOMAIN ms \/ k = Len(ms) + 1
  BY <1>1
<1>4. Len(ms) + 1 \in DOMAIN t
  BY <1>1
<1>5. Asked(t) = Asked(ms) \cup {<<Len(ms) + 1, j>> : j \in DOMAIN m.calls}
  BY <1>1, <1>2, <1>3, <1>4 DEF Asked
<1>6. QED
  BY <1>5 DEF t

\* A message without calls, said when no call is open.
LEMMA PlainKeepsTrace ==
  ASSUME NEW ms, TraceOK(ms, 0), NEW m \in Said, m.calls = <<>>, m.role \in {"user", "assistant"}
  PROVE  /\ TraceOK(Append(ms, m), 0)
         /\ AllTruthful(ms) => AllTruthful(Append(ms, m))
<1>1. PICK len \in Nat : len = Len(ms) /\ DOMAIN ms = 1 .. len /\ ms \in Seq(Said)
  BY DEF TraceOK
<1>2. PICK t : t = Append(ms, m)
  OBVIOUS
<1>3. /\ t \in Seq(Said) /\ Len(t) = len + 1 /\ DOMAIN t = 1 .. len + 1
      /\ \A k \in 1 .. len : t[k] = ms[k]
      /\ t[len + 1] = m
  BY <1>1, <1>2, Appended
<1>4. \A k \in 1 .. len : ms[k].calls \in Seq(Issued) /\ \A j \in DOMAIN ms[k].calls : j \in Nat
  BY <1>1, CallsOfSaid
<1>5. \A k \in 1 .. len : \A j \in DOMAIN ms[k].calls :
        k + j <= len /\ k + j \in 1 .. len /\ IsResult(ms[k + j])
        /\ ms[k + j].id = ms[k].calls[j].id
  <2>1. SUFFICES ASSUME NEW k \in 1 .. len, NEW j \in DOMAIN ms[k].calls
                 PROVE  k + j <= len /\ k + j \in 1 .. len /\ IsResult(ms[k + j])
                        /\ ms[k + j].id = ms[k].calls[j].id
    OBVIOUS
  <2>2. k + j <= Len(ms) + 0 /\ j \in Nat
    BY <1>1, <1>4 DEF TraceOK, CallsAnswered
  <2>3. k + j <= Len(ms) /\ k + j \in 1 .. len
    BY <1>1, <2>2
  <2>4. QED
    BY <1>1, <2>3 DEF TraceOK, CallsAnswered
<1>6. \A k \in 1 .. len + 1 : k \in 1 .. len \/ k = len + 1
  BY <1>1
<1>7. OneSystem(t)
  <2>1. t # <<>>
    BY <1>1, <1>3
  <2>2. m.role # "system" /\ len >= 1
    BY <1>1 DEF TraceOK, OneSystem
  <2>3. ASSUME NEW k \in DOMAIN t PROVE t[k].role = "system" <=> k = 1
    <3>1. CASE k \in 1 .. len
      BY <1>1, <1>3, <3>1 DEF TraceOK, OneSystem
    <3>2. CASE k = len + 1
      BY <1>3, <2>2, <3>2
    <3>3. QED
      BY <1>3, <1>6, <3>1, <3>2
  <2>4. QED
    BY <2>1, <2>3 DEF OneSystem
<1>8. OnlyModelCalls(t)
  BY <1>1, <1>3, <1>6 DEF TraceOK, OnlyModelCalls
<1>9. CallsAnswered(t, 0)
  <2>1. ASSUME NEW k \in DOMAIN t, NEW j \in DOMAIN t[k].calls
        PROVE  /\ k + j <= Len(t) + 0
               /\ k + j <= Len(t) => IsResult(t[k + j]) /\ t[k + j].id = t[k].calls[j].id
    <3>1. k \in 1 .. len /\ t[k] = ms[k]
      BY <1>3, <1>6, <2>1
    <3>2. k + j <= len /\ k + j \in 1 .. len /\ IsResult(ms[k + j])
          /\ ms[k + j].id = ms[k].calls[j].id
      BY <1>5, <2>1, <3>1
    <3>3. t[k + j] = ms[k + j] /\ k + j <= Len(t) + 0
      BY <1>1, <1>3, <3>2
    <3>4. QED
      BY <3>1, <3>2, <3>3
  <2>2. QED
    BY <2>1 DEF CallsAnswered
<1>10. ResultsAsked(t)
  <2>1. ASSUME NEW n \in DOMAIN t, IsResult(t[n])
        PROVE  \E k \in 1 .. n - 1 : n - k \in DOMAIN t[k].calls
    <3>1. n \in 1 .. len /\ t[n] = ms[n]
      BY <1>3, <1>6, <2>1 DEF IsResult
    <3>2. PICK k \in 1 .. n - 1 : n - k \in DOMAIN ms[k].calls
      BY <1>1, <2>1, <3>1 DEF TraceOK, ResultsAsked
    <3>3. k \in 1 .. len
      BY <1>1, <3>1
    <3>4. QED
      BY <1>3, <3>2, <3>3
  <2>2. QED
    BY <2>1 DEF ResultsAsked
<1>11. Numbered(t)
  <2>1. Asked(t) = Asked(ms)
    <3>1. Asked(t) = Asked(ms) \cup {<<Len(ms) + 1, j>> : j \in DOMAIN m.calls}
      BY <1>1, <1>2, AskedAppended
    <3>2. {<<Len(ms) + 1, j>> : j \in DOMAIN m.calls} = {}
      OBVIOUS
    <3>3. QED
      BY <3>1, <3>2
  <2>2. \A k \in DOMAIN t : \A j \in DOMAIN t[k].calls : k \in DOMAIN ms /\ t[k] = ms[k]
    BY <1>1, <1>3, <1>6
  <2>3. Numbered(ms)
    BY DEF TraceOK
  <2>4. ASSUME NEW k \in DOMAIN t, NEW j \in DOMAIN t[k].calls
        PROVE  /\ t[k].calls[j].args \in Arguments(t[k].calls[j].tool) \cup {NoArgs}
               /\ t[k].calls[j].id \in 1 .. Cardinality(Asked(t))
               /\ \A l \in DOMAIN t : \A i \in DOMAIN t[l].calls :
                    t[l].calls[i].id = t[k].calls[j].id => l = k /\ i = j
    <3>1. k \in DOMAIN ms /\ t[k] = ms[k] /\ j \in DOMAIN ms[k].calls
      BY <2>2, <2>4
    <3>2. /\ t[k].calls[j].args \in Arguments(t[k].calls[j].tool) \cup {NoArgs}
          /\ t[k].calls[j].id \in 1 .. Cardinality(Asked(t))
      BY Zenon, <2>1, <2>3, <3>1 DEF Numbered
    <3>3. ASSUME NEW l \in DOMAIN t, NEW i \in DOMAIN t[l].calls,
                 t[l].calls[i].id = t[k].calls[j].id
          PROVE  l = k /\ i = j
      <4>1. l \in DOMAIN ms /\ t[l] = ms[l] /\ i \in DOMAIN ms[l].calls
        BY <2>2, <3>3
      <4>2. ms[l].calls[i].id = ms[k].calls[j].id
        BY Zenon, <3>1, <3>3, <4>1
      <4>3. QED
        BY Zenon, <2>3, <3>1, <4>1, <4>2 DEF Numbered
    <3>4. QED
      BY <3>2, <3>3
  <2>5. IsFiniteSet(Asked(t))
    BY Zenon, <2>1, <2>3 DEF Numbered
  <2>6. QED
    BY Zenon, <2>4, <2>5 DEF Numbered
<1>12. TraceOK(t, 0)
  BY <1>3, <1>7, <1>8, <1>9, <1>10, <1>11 DEF TraceOK
<1>13. ASSUME AllTruthful(ms) PROVE AllTruthful(t)
  <2>1. ASSUME NEW k \in DOMAIN t, NEW j \in DOMAIN t[k].calls
        PROVE  Truthful(t[k].calls[j], t[k + j].text)
    <3>1. k \in 1 .. len /\ t[k] = ms[k]
      BY <1>3, <1>6, <2>1
    <3>2. k + j \in 1 .. len /\ t[k + j] = ms[k + j]
      BY <1>3, <1>5, <2>1, <3>1
    <3>3. Truthful(ms[k].calls[j], ms[k + j].text)
      BY Zenon, <1>1, <1>13, <2>1, <3>1, <3>2 DEF AllTruthful
    <3>4. QED
      BY <3>1, <3>2, <3>3
  <2>2. QED
    BY Zenon, <2>1 DEF AllTruthful
<1>14. QED
  BY <1>2, <1>12, <1>13

\* What a reply becomes.
LEMMA Decoded ==
  ASSUME NEW reply \in Reply, NEW used \in Nat, NEW r, r = Decode(reply, used)
  PROVE  /\ r.text \in Texts
         /\ r.calls \in Seq(Issued) /\ Len(r.calls) \in Nat /\ DOMAIN r.calls = 1 .. Len(r.calls)
         /\ \A j \in DOMAIN r.calls :
              /\ r.calls[j].id = used + j
              /\ r.calls[j].args \in Arguments(r.calls[j].tool) \cup {NoArgs}
<1> DEFINE Asked1 == [tool : STRING, args : MemoryArgs \cup ReminderArgs \cup {NoArgs}]
<1>1. /\ reply.calls \in Seq(Asked1)
      /\ \A k \in DOMAIN reply.calls :
           reply.calls[k].args \in Arguments(reply.calls[k].tool) \cup {NoArgs}
  BY AgentAssumption
<1> HIDE DEF Asked1
<1>2. PICK len \in Nat : len = Len(reply.calls) /\ DOMAIN reply.calls = 1 .. len
  BY <1>1
<1>3. r.calls = [k \in 1 .. len |->
                   [id |-> used + k, tool |-> reply.calls[k].tool, args |-> reply.calls[k].args]]
  BY <1>2 DEF Decode
<1>4. \A k \in 1 .. len : reply.calls[k] \in Asked1
  BY <1>1, <1>2
<1>5. \A c \in Asked1 : c.tool \in STRING /\ c.args \in MemoryArgs \cup ReminderArgs \cup {NoArgs}
  BY DEF Asked1
<1>6. \A k \in 1 .. len :
        [id |-> used + k, tool |-> reply.calls[k].tool, args |-> reply.calls[k].args] \in Issued
  BY <1>4, <1>5 DEF Issued
<1>7. r.calls \in Seq(Issued) /\ Len(r.calls) = len
  BY <1>3, <1>6
<1>8. r.text \in Texts
  BY DEF Texts, Decode
<1>9. \A j \in 1 .. len : /\ r.calls[j].id = used + j
                          /\ r.calls[j].args \in Arguments(r.calls[j].tool) \cup {NoArgs}
  <2>1. SUFFICES ASSUME NEW j \in 1 .. len
                 PROVE  /\ r.calls[j].id = used + j
                        /\ r.calls[j].args \in Arguments(r.calls[j].tool) \cup {NoArgs}
    OBVIOUS
  <2>2. PICK c : c = [id |-> used + j, tool |-> reply.calls[j].tool, args |-> reply.calls[j].args]
    OBVIOUS
  <2>3. r.calls[j] = c
    BY <1>3, <2>2
  <2>4. c.id = used + j /\ c.tool = reply.calls[j].tool /\ c.args = reply.calls[j].args
    BY <2>2
  <2>5. reply.calls[j].args \in Arguments(reply.calls[j].tool) \cup {NoArgs}
    BY <1>1, <1>2
  <2>6. QED
    BY Zenon, <2>3, <2>4, <2>5
<1>10. DOMAIN r.calls = 1 .. len
  BY <1>3
<1>11. QED
  BY <1>7, <1>8, <1>9, <1>10

\* A message with calls, said when no call is open: all its calls are.
LEMMA CallsKeepTrace ==
  ASSUME NEW ms, TraceOK(ms, 0), NEW reply \in Reply, NEW r,
         r = Decode(reply, Cardinality(Asked(ms))),
         NEW m, m = AssistantMessage(r.text, r.calls), r.calls # <<>>
  PROVE  /\ TraceOK(Append(ms, m), Len(r.calls))
         /\ AllTruthful(ms) => AllTruthful(Append(ms, m))
<1>1. PICK len \in Nat : len = Len(ms) /\ DOMAIN ms = 1 .. len /\ ms \in Seq(Said)
  BY DEF TraceOK
<1>2. PICK used \in Nat : used = Cardinality(Asked(ms)) /\ IsFiniteSet(Asked(ms))
  BY FS_CardinalityType DEF TraceOK, Numbered
<1>3. PICK n \in Nat :
        /\ n = Len(r.calls) /\ r.calls \in Seq(Issued) /\ DOMAIN r.calls = 1 .. n
        /\ r.text \in Texts
        /\ \A j \in 1 .. n : /\ r.calls[j].id = used + j
                             /\ r.calls[j].args \in Arguments(r.calls[j].tool) \cup {NoArgs}
  BY <1>2, Decoded
<1>4. m \in Said /\ m.calls = r.calls /\ m.role = "assistant" /\ n >= 1
  BY <1>3 DEF AssistantMessage, Plain, Said, Message
<1>5. PICK t : t = Append(ms, m)
  OBVIOUS
<1>6. /\ t \in Seq(Said) /\ Len(t) = len + 1 /\ DOMAIN t = 1 .. len + 1
      /\ \A k \in 1 .. len : t[k] = ms[k]
      /\ t[len + 1] = m
  BY <1>1, <1>4, <1>5, Appended
<1>7. \A k \in 1 .. len + 1 : k \in 1 .. len \/ k = len + 1
  BY <1>1
<1>8. \A k \in 1 .. len : \A j \in DOMAIN ms[k].calls :
        /\ j \in Nat /\ k + j <= len /\ k + j \in 1 .. len
        /\ IsResult(ms[k + j]) /\ ms[k + j].id = ms[k].calls[j].id
  <2>1. SUFFICES ASSUME NEW k \in 1 .. len, NEW j \in DOMAIN ms[k].calls
                 PROVE  /\ j \in Nat /\ k + j <= len /\ k + j \in 1 .. len
                        /\ IsResult(ms[k + j]) /\ ms[k + j].id = ms[k].calls[j].id
    OBVIOUS
  <2>2. ms[k] \in Said /\ j \in Nat
    BY <1>1, CallsOfSaid
  <2>3. k + j <= Len(ms) + 0
    BY <1>1 DEF TraceOK, CallsAnswered
  <2>4. k + j <= Len(ms) /\ k + j \in 1 .. len
    BY <1>1, <2>2, <2>3
  <2>5. QED
    BY <1>1, <2>2, <2>4 DEF TraceOK, CallsAnswered
<1>9. OneSystem(t)
  <2>1. t # <<>> /\ len >= 1
    BY <1>1, <1>6 DEF TraceOK, OneSystem
  <2>2. ASSUME NEW k \in DOMAIN t PROVE t[k].role = "system" <=> k = 1
    <3>1. CASE k \in 1 .. len
      BY <1>1, <1>6, <3>1 DEF TraceOK, OneSystem
    <3>2. CASE k = len + 1
      BY <1>4, <1>6, <2>1, <3>2
    <3>3. QED
      BY <1>6, <1>7, <3>1, <3>2
  <2>3. QED
    BY <2>1, <2>2 DEF OneSystem
<1>10. OnlyModelCalls(t)
  BY <1>1, <1>4, <1>6, <1>7 DEF TraceOK, OnlyModelCalls
<1>11. CallsAnswered(t, n)
  <2>1. ASSUME NEW k \in DOMAIN t, NEW j \in DOMAIN t[k].calls
        PROVE  /\ k + j <= Len(t) + n
               /\ k + j <= Len(t) => IsResult(t[k + j]) /\ t[k + j].id = t[k].calls[j].id
    <3>1. CASE k \in 1 .. len
      <4>1. t[k] = ms[k] /\ j \in DOMAIN ms[k].calls
        BY <1>6, <2>1, <3>1
      <4>2. /\ k + j <= len /\ j \in Nat /\ t[k + j] = ms[k + j]
            /\ IsResult(ms[k + j]) /\ ms[k + j].id = ms[k].calls[j].id
        BY <1>6, <1>8, <3>1, <4>1
      <4>3. k + j <= Len(t) + n
        BY <1>6, <3>1, <4>2
      <4>4. QED
        BY <4>1, <4>2, <4>3
    <3>2. CASE k = len + 1
      <4>1. j \in 1 .. n
        BY <1>3, <1>4, <1>6, <2>1, <3>2
      <4>2. k + j <= Len(t) + n /\ ~(k + j <= Len(t))
        BY <1>6, <3>2, <4>1
      <4>3. QED
        BY <4>2
    <3>3. QED
      BY <1>6, <1>7, <2>1, <3>1, <3>2
  <2>2. QED
    BY <2>1 DEF CallsAnswered
<1>12. ResultsAsked(t)
  <2>1. ASSUME NEW i \in DOMAIN t, IsResult(t[i])
        PROVE  \E k \in 1 .. i - 1 : i - k \in DOMAIN t[k].calls
    <3>1. i \in 1 .. len /\ t[i] = ms[i]
      BY <1>4, <1>6, <1>7, <2>1 DEF IsResult
    <3>2. PICK k \in 1 .. i - 1 : i - k \in DOMAIN ms[k].calls
      BY <1>1, <2>1, <3>1 DEF TraceOK, ResultsAsked
    <3>3. k \in 1 .. len
      BY <1>1, <3>1
    <3>4. QED
      BY <1>6, <3>2, <3>3
  <2>2. QED
    BY <2>1 DEF ResultsAsked
<1>13. IsFiniteSet(Asked(t)) /\ Cardinality(Asked(t)) = used + n
  <2>1. PICK new : new = {<<len + 1, j>> : j \in 1 .. n}
    OBVIOUS
  <2>2. Asked(t) = Asked(ms) \cup new
    BY <1>1, <1>3, <1>4, <1>5, <2>1, AskedAppended
  <2>3. IsFiniteSet(new) /\ Cardinality(new) = n
    <3>1. PICK f : f = [j \in 1 .. n |-> <<len + 1, j>>]
      OBVIOUS
    <3>2. f \in Bijection(1 .. n, new)
      <4>1. f \in [1 .. n -> new] /\ \A j \in 1 .. n : f[j] = <<len + 1, j>>
        BY <2>1, <3>1
      <4>2. f \in Injection(1 .. n, new)
        BY <4>1 DEF Injection, IsInjective
      <4>3. f \in Surjection(1 .. n, new)
        BY <2>1, <4>1 DEF Surjection
      <4>4. QED
        BY <4>2, <4>3 DEF Bijection
    <3>3. IsFiniteSet(1 .. n) /\ Cardinality(1 .. n) = n
      BY <1>3, FS_Interval
    <3>4. QED
      BY <3>2, <3>3, FS_Bijection DEF ExistsBijection
  <2>4. Asked(ms) \cap new = {}
    <3>1. \A x \in Asked(ms) : \E k \in 1 .. len : \E j \in DOMAIN ms[k].calls : x = <<k, j>>
      BY <1>1 DEF Asked
    <3>2. \A k \in 1 .. len : k # len + 1
      BY <1>1
    <3>3. QED
      BY <2>1, <3>1, <3>2
  <2>5. IsFiniteSet(Asked(t)) /\ Cardinality(Asked(t)) = used + n - Cardinality({})
    BY <1>2, <2>2, <2>3, <2>4, FS_Union
  <2>6. Cardinality({}) = 0
    BY FS_EmptySet
  <2>7. QED
    BY <1>2, <1>3, <2>5, <2>6
<1>14. Numbered(t)
  <2>1. Numbered(ms)
    BY DEF TraceOK
  <2>2. ASSUME NEW k \in DOMAIN t, NEW j \in DOMAIN t[k].calls
        PROVE  /\ t[k].calls[j].args \in Arguments(t[k].calls[j].tool) \cup {NoArgs}
               /\ \/ k \in 1 .. len /\ j \in DOMAIN ms[k].calls /\ t[k].calls[j].id = ms[k].calls[j].id
                     /\ t[k].calls[j].id \in 1 .. used
                  \/ k = len + 1 /\ j \in 1 .. n /\ t[k].calls[j].id = used + j
    <3>1. CASE k \in 1 .. len
      <4>1. t[k] = ms[k] /\ k \in DOMAIN ms /\ j \in DOMAIN ms[k].calls
        BY <1>1, <1>6, <2>2, <3>1
      <4>2. /\ ms[k].calls[j].args \in Arguments(ms[k].calls[j].tool) \cup {NoArgs}
            /\ ms[k].calls[j].id \in 1 .. used
        BY Zenon, <1>2, <2>1, <4>1 DEF Numbered
      <4>3. QED
        BY <3>1, <4>1, <4>2
    <3>2. CASE k = len + 1
      BY <1>3, <1>4, <1>6, <2>2, <3>2
    <3>3. QED
      BY <1>6, <1>7, <2>2, <3>1, <3>2
  <2>3. ASSUME NEW k \in DOMAIN t, NEW j \in DOMAIN t[k].calls
        PROVE  /\ t[k].calls[j].args \in Arguments(t[k].calls[j].tool) \cup {NoArgs}
               /\ t[k].calls[j].id \in 1 .. Cardinality(Asked(t))
               /\ \A l \in DOMAIN t : \A i \in DOMAIN t[l].calls :
                    t[l].calls[i].id = t[k].calls[j].id => l = k /\ i = j
    <3>1. t[k].calls[j].id \in 1 .. Cardinality(Asked(t))
      BY <1>2, <1>3, <1>13, <2>2, <2>3
    <3>2. ASSUME NEW l \in DOMAIN t, NEW i \in DOMAIN t[l].calls,
                 t[l].calls[i].id = t[k].calls[j].id
          PROVE  l = k /\ i = j
      <4>1. CASE k \in 1 .. len /\ l \in 1 .. len
        <5>1. k \in DOMAIN ms /\ l \in DOMAIN ms /\ t[k] = ms[k] /\ t[l] = ms[l]
          BY <1>1, <1>6, <4>1
        <5>2. /\ j \in DOMAIN ms[k].calls /\ i \in DOMAIN ms[l].calls
              /\ ms[l].calls[i].id = ms[k].calls[j].id
          BY Zenon, <2>3, <3>2, <5>1
        <5>3. QED
          BY Zenon, <2>1, <5>1, <5>2 DEF Numbered
      <4>2. CASE k = len + 1 /\ l = len + 1
        <5>1. j \in 1 .. n /\ i \in 1 .. n /\ used + j = used + i
          BY <1>1, <2>2, <2>3, <3>2, <4>2
        <5>2. QED
          BY <4>2, <5>1
      <4>3. CASE (k \in 1 .. len /\ l = len + 1) \/ (k = len + 1 /\ l \in 1 .. len)
        BY <1>1, <2>2, <2>3, <3>2, <4>3
      <4>4. QED
        BY <1>6, <1>7, <2>3, <3>2, <4>1, <4>2, <4>3
    <3>3. QED
      BY <2>2, <2>3, <3>1, <3>2
  <2>4. QED
    BY <1>13, <2>3 DEF Numbered
<1>15. Open(t, n, len + 1)
  <2>1. len + 1 \in DOMAIN t /\ n = Len(t[len + 1].calls) /\ len + 1 = Len(t) /\ n <= n
    BY <1>1, <1>3, <1>4, <1>6
  <2>2. n <= Len(t[len + 1].calls) /\ (len + 1) + Len(t[len + 1].calls) = Len(t) + n
    BY Zenon, <2>1
  <2>3. QED
    BY Zenon, <2>1, <2>2 DEF Open
<1>16. TraceOK(t, n)
  BY <1>6, <1>9, <1>10, <1>11, <1>12, <1>14, <1>15 DEF TraceOK, Open
<1>17. ASSUME AllTruthful(ms) PROVE AllTruthful(t)
  <2>1. ASSUME NEW k \in DOMAIN t, NEW j \in DOMAIN t[k].calls, k + j \in DOMAIN t
        PROVE  Truthful(t[k].calls[j], t[k + j].text)
    <3>1. k # len + 1
      <4>1. SUFFICES ASSUME k = len + 1 PROVE FALSE
        OBVIOUS
      <4>2. j \in 1 .. n /\ k + j <= len + 1
        BY <1>3, <1>4, <1>6, <2>1, <4>1
      <4>3. QED
        BY <4>1, <4>2
    <3>2. k \in 1 .. len /\ t[k] = ms[k]
      BY <1>6, <1>7, <2>1, <3>1
    <3>3. k + j \in 1 .. len /\ t[k + j] = ms[k + j]
      BY <1>6, <1>8, <2>1, <3>2
    <3>4. Truthful(ms[k].calls[j], ms[k + j].text)
      BY Zenon, <1>1, <1>17, <2>1, <3>2, <3>3 DEF AllTruthful
    <3>5. QED
      BY <3>2, <3>3, <3>4
  <2>2. QED
    BY Zenon, <2>1 DEF AllTruthful
<1>18. QED
  BY <1>3, <1>5, <1>16, <1>17

\* what trace t tells of its calls are what ms tells, and outcome of call c
TellsToo(t, ms, c, outcome) ==
  \A k \in DOMAIN t : \A j \in DOMAIN t[k].calls : k + j \in DOMAIN t =>
    \/ k \in DOMAIN ms /\ t[k] = ms[k] /\ k + j \in DOMAIN ms /\ t[k + j] = ms[k + j]
    \/ t[k].calls[j] = c /\ t[k + j].text = outcome

\* The result of the first open call.
LEMMA ResultKeepsTrace ==
  ASSUME NEW ms, NEW todo \in Nat, todo > 0, TraceOK(ms, todo), NEW outcome \in Outcome,
         NEW m, m = ToolResult(FirstOpen(ms, todo).id, outcome)
  PROVE  /\ TraceOK(Append(ms, m), todo - 1)
         /\ TellsToo(Append(ms, m), ms, FirstOpen(ms, todo), outcome)
<1>1. PICK len \in Nat : len = Len(ms) /\ DOMAIN ms = 1 .. len /\ ms \in Seq(Said)
  BY DEF TraceOK
<1>2. PICK c, k, j : c = FirstOpen(ms, todo) /\ FirstAt(ms, todo, k, j)
  BY NextAsked
<1>3. /\ k \in 1 .. len /\ j \in DOMAIN ms[k].calls /\ c = ms[k].calls[j] /\ c \in Issued
      /\ k + j = len + 1
      /\ k + Len(ms[k].calls) = len + todo
      /\ \A l \in 1 .. len : \A i \in DOMAIN ms[l].calls : l + i > len => l = k
  BY <1>1, <1>2 DEF FirstAt
<1>4. /\ m \in Said /\ m.calls = <<>> /\ m.role = "tool_result" /\ IsResult(m)
      /\ m.id = c.id /\ m.text = outcome
  <2>1. m = [role |-> "tool_result", text |-> outcome, id |-> c.id, calls |-> <<>>]
    BY <1>2 DEF ToolResult, Plain
  <2>2. c.id \in Nat /\ outcome \in Texts
    BY <1>3 DEF Issued, Texts
  <2>3. <<>> \in Seq(Issued)
    OBVIOUS
  <2>4. QED
    BY <2>1, <2>2, <2>3 DEF Said, Message, IsResult
<1>5. PICK t : t = Append(ms, m)
  OBVIOUS
<1>6. /\ t \in Seq(Said) /\ Len(t) = len + 1 /\ DOMAIN t = 1 .. len + 1
      /\ \A l \in 1 .. len : t[l] = ms[l]
      /\ t[len + 1] = m
  BY <1>1, <1>4, <1>5, Appended
<1>7. \A l \in 1 .. len + 1 : l \in 1 .. len \/ l = len + 1
  BY <1>1
<1>8. \A l \in DOMAIN t : \A i \in DOMAIN t[l].calls :
        /\ l \in 1 .. len /\ l \in DOMAIN ms /\ t[l] = ms[l] /\ i \in DOMAIN ms[l].calls
        /\ i \in Nat
  <2>1. SUFFICES ASSUME NEW l \in DOMAIN t, NEW i \in DOMAIN t[l].calls
                 PROVE  /\ l \in 1 .. len /\ l \in DOMAIN ms /\ t[l] = ms[l]
                        /\ i \in DOMAIN ms[l].calls /\ i \in Nat
    OBVIOUS
  <2>2. l \in 1 .. len /\ t[l] = ms[l] /\ ms[l] \in Said
    BY <1>1, <1>4, <1>6, <1>7
  <2>3. i \in Nat
    BY <2>2, CallsOfSaid
  <2>4. QED
    BY <1>1, <2>2, <2>3
<1>9. OneSystem(t)
  <2>1. t # <<>> /\ len >= 1
    BY <1>1, <1>6 DEF TraceOK, OneSystem
  <2>2. ASSUME NEW l \in DOMAIN t PROVE t[l].role = "system" <=> l = 1
    <3>1. CASE l \in 1 .. len
      BY <1>1, <1>6, <3>1 DEF TraceOK, OneSystem
    <3>2. CASE l = len + 1
      BY <1>4, <1>6, <2>1, <3>2
    <3>3. QED
      BY <1>6, <1>7, <3>1, <3>2
  <2>3. QED
    BY <2>1, <2>2 DEF OneSystem
<1>10. OnlyModelCalls(t)
  BY <1>1, <1>4, <1>6, <1>7 DEF TraceOK, OnlyModelCalls
\* the call that is answered is the only one that had no result behind it
<1>11. ASSUME NEW l \in DOMAIN t, NEW i \in DOMAIN t[l].calls, l + i = len + 1
       PROVE  t[l].calls[i] = c
  <2>1. l \in 1 .. len /\ i \in DOMAIN ms[l].calls /\ t[l] = ms[l] /\ i \in Nat
    BY <1>8, <1>11
  <2>2. l = k
    BY <1>1, <1>3, <1>11, <2>1
  <2>3. j \in Nat
    BY <1>1, <1>3, CallsOfSaid
  <2>4. i = j
    BY <1>3, <1>11, <2>1, <2>2, <2>3
  <2>5. QED
    BY <1>3, <2>1, <2>2, <2>4
<1>12. CallsAnswered(t, todo - 1)
  <2>1. ASSUME NEW l \in DOMAIN t, NEW i \in DOMAIN t[l].calls
        PROVE  /\ l + i <= Len(t) + (todo - 1)
               /\ l + i <= Len(t) => IsResult(t[l + i]) /\ t[l + i].id = t[l].calls[i].id
    <3>1. /\ l \in 1 .. len /\ l \in DOMAIN ms /\ t[l] = ms[l] /\ i \in DOMAIN ms[l].calls
          /\ i \in Nat /\ l \in Nat
      BY <1>8, <2>1
    <3>2. /\ l + i <= Len(ms) + todo
          /\ l + i <= Len(ms) => IsResult(ms[l + i]) /\ ms[l + i].id = ms[l].calls[i].id
      BY <3>1 DEF TraceOK, CallsAnswered
    <3>3. l + i <= Len(t) + (todo - 1)
      BY <1>1, <1>6, <3>1, <3>2
    <3>4. CASE l + i <= len
      <4>1. l + i \in 1 .. len
        BY <1>1, <3>1, <3>4
      <4>2. QED
        BY <1>1, <1>6, <3>1, <3>2, <3>3, <3>4, <4>1
    <3>5. CASE l + i = len + 1
      <4>1. t[l].calls[i] = c
        BY <1>11, <2>1, <3>5
      <4>2. QED
        BY <1>4, <1>6, <3>3, <3>5, <4>1
    <3>6. CASE l + i > len + 1
      <4>1. ~(l + i <= Len(t))
        BY <1>1, <1>6, <3>1, <3>6
      <4>2. QED
        BY <3>3, <4>1
    <3>7. QED
      BY <1>1, <3>1, <3>4, <3>5, <3>6
  <2>2. QED
    BY <2>1 DEF CallsAnswered
<1>13. ResultsAsked(t)
  <2>1. ASSUME NEW n \in DOMAIN t, IsResult(t[n])
        PROVE  \E l \in 1 .. n - 1 : n - l \in DOMAIN t[l].calls
    <3>1. CASE n \in 1 .. len
      <4>1. PICK l \in 1 .. n - 1 : n - l \in DOMAIN ms[l].calls
        BY <1>1, <1>6, <2>1, <3>1 DEF TraceOK, ResultsAsked
      <4>2. l \in 1 .. len
        BY <1>1, <3>1
      <4>3. QED
        BY <1>6, <4>1, <4>2
    <3>2. CASE n = len + 1
      <4>1. j \in Nat
        BY <1>1, <1>3, CallsOfSaid
      <4>2. k \in 1 .. n - 1 /\ n - k = j
        BY <1>1, <1>3, <3>2, <4>1
      <4>3. QED
        BY <1>3, <1>6, <4>2
    <3>3. QED
      BY <1>6, <1>7, <2>1, <3>1, <3>2
  <2>2. QED
    BY <2>1 DEF ResultsAsked
<1>14. Numbered(t)
  <2>1. Asked(t) = Asked(ms)
    <3>1. Asked(t) = Asked(ms) \cup {<<Len(ms) + 1, i>> : i \in DOMAIN m.calls}
      BY <1>1, <1>4, <1>5, AskedAppended
    <3>2. {<<Len(ms) + 1, i>> : i \in DOMAIN m.calls} = {}
      BY <1>4
    <3>3. QED
      BY <3>1, <3>2
  <2>2. Numbered(ms)
    BY DEF TraceOK
  <2>3. ASSUME NEW l \in DOMAIN t, NEW i \in DOMAIN t[l].calls
        PROVE  /\ t[l].calls[i].args \in Arguments(t[l].calls[i].tool) \cup {NoArgs}
               /\ t[l].calls[i].id \in 1 .. Cardinality(Asked(t))
               /\ \A n \in DOMAIN t : \A h \in DOMAIN t[n].calls :
                    t[n].calls[h].id = t[l].calls[i].id => n = l /\ h = i
    <3>1. l \in DOMAIN ms /\ t[l] = ms[l] /\ i \in DOMAIN ms[l].calls
      BY <1>8, <2>3
    <3>2. /\ t[l].calls[i].args \in Arguments(t[l].calls[i].tool) \cup {NoArgs}
          /\ t[l].calls[i].id \in 1 .. Cardinality(Asked(t))
      BY Zenon, <2>1, <2>2, <3>1 DEF Numbered
    <3>3. ASSUME NEW n \in DOMAIN t, NEW h \in DOMAIN t[n].calls,
                 t[n].calls[h].id = t[l].calls[i].id
          PROVE  n = l /\ h = i
      <4>1. n \in DOMAIN ms /\ t[n] = ms[n] /\ h \in DOMAIN ms[n].calls
        BY <1>8, <3>3
      <4>2. ms[n].calls[h].id = ms[l].calls[i].id
        BY Zenon, <3>1, <3>3, <4>1
      <4>3. QED
        BY Zenon, <2>2, <3>1, <4>1, <4>2 DEF Numbered
    <3>4. QED
      BY <3>2, <3>3
  <2>4. IsFiniteSet(Asked(t))
    BY Zenon, <2>1, <2>2 DEF Numbered
  <2>5. QED
    BY Zenon, <2>3, <2>4 DEF Numbered
<1>15. ASSUME todo - 1 > 0 PROVE Open(t, todo - 1, k)
  <2>1. PICK n \in Nat : n = Len(ms[k].calls) /\ DOMAIN ms[k].calls = 1 .. n
    BY <1>1, <1>3, CallsOfSaid
  <2>2. k \in DOMAIN t /\ Len(t[k].calls) = n
    BY <1>1, <1>3, <1>6, <1>7, <2>1
  <2>3. j \in 1 .. n /\ k + j = len + 1 /\ k + n = len + todo
    BY <1>3, <2>1
  <2>4. todo - 1 <= n /\ k + n = Len(t) + (todo - 1)
    BY <1>1, <1>3, <1>6, <2>3
  <2>5. todo - 1 <= Len(t[k].calls) /\ k + Len(t[k].calls) = Len(t) + (todo - 1)
    BY Zenon, <2>2, <2>4
  <2>6. QED
    BY Zenon, <2>2, <2>5 DEF Open
<1>16. TraceOK(t, todo - 1)
  <2>1. todo - 1 > 0 => \E l \in DOMAIN t : Open(t, todo - 1, l)
    BY Zenon, <1>15 DEF Open
  <2>2. QED
    BY Zenon, <1>6, <1>9, <1>10, <1>12, <1>13, <1>14, <2>1 DEF TraceOK
<1>17. TellsToo(t, ms, c, outcome)
  <2>1. ASSUME NEW l \in DOMAIN t, NEW i \in DOMAIN t[l].calls, l + i \in DOMAIN t
        PROVE  \/ l \in DOMAIN ms /\ t[l] = ms[l] /\ l + i \in DOMAIN ms /\ t[l + i] = ms[l + i]
               \/ t[l].calls[i] = c /\ t[l + i].text = outcome
    <3>1. l \in DOMAIN ms /\ t[l] = ms[l]
      BY <1>8, <2>1
    <3>2. CASE l + i = len + 1
      BY <1>4, <1>6, <1>11, <2>1, <3>2
    <3>3. CASE l + i \in 1 .. len
      BY <1>1, <1>6, <3>1, <3>3
    <3>4. QED
      BY <1>6, <1>7, <2>1, <3>2, <3>3
  <2>2. QED
    BY Zenon, <2>1 DEF TellsToo
<1>18. QED
  BY Zenon, <1>2, <1>5, <1>16, <1>17

-----------------------------------------------------------------------------
(* Reminders.                                                              *)

\* No reminder is taken back, or becomes another one.
RemindersGrow ==
  \A k \in DOMAIN reminders :
    /\ k \in DOMAIN reminders'
    /\ reminders'[k].content = reminders[k].content
    /\ reminders'[k].type = reminders[k].type
    /\ reminders'[k].condition = reminders[k].condition
    /\ reminders'[k].user = reminders[k].user

RemindersOK == ReminderTypeOK /\ ShownRightly

\* The rows of mem_prospective.
LEMMA RemindersTyped ==
  ASSUME ReminderTypeOK
  PROVE  /\ reminders \in Seq(ProspectiveItem) /\ Len(reminders) \in Nat
         /\ DOMAIN reminders = 1 .. Len(reminders)
         /\ \A k \in DOMAIN reminders : reminders[k] \in ProspectiveItem
<1>1. reminders \in Seq(ProspectiveItem)
  BY DEF ReminderTypeOK
<1>2. QED
  BY <1>1

\* Reminders that grow, and the pairs shown so far, at a later time.
LEMMA GrowthKeepsShown ==
  ASSUME RemindersOK, RemindersGrow, shown' = shown, now' \in Nat, now' >= now
  PROVE  /\ ShownRightly'
         /\ shown' \subseteq (DOMAIN reminders') \X Owner
<1>1. \A p \in shown : p[1] \in DOMAIN reminders /\ p[2] \in Owner /\ p = <<p[1], p[2]>>
  BY DEF RemindersOK, ReminderTypeOK
<1>2. \A p \in shown : p[1] \in DOMAIN reminders'
  BY <1>1 DEF RemindersGrow
<1>3. shown' \subseteq (DOMAIN reminders') \X Owner
  BY <1>1, <1>2
<1>4. ASSUME NEW p \in shown
      PROVE  /\ p[2] \in {NoUser, reminders'[p[1]].user}
             /\ reminders'[p[1]].type = "time_based" =>
                  /\ reminders'[p[1]].condition \in Nat
                  /\ reminders'[p[1]].condition <= now'
  <2>1. PICK r : r = reminders[p[1]]
    OBVIOUS
  <2>2. /\ reminders'[p[1]].type = r.type /\ reminders'[p[1]].condition = r.condition
        /\ reminders'[p[1]].user = r.user
    BY <1>1, <2>1 DEF RemindersGrow
  <2>3. /\ p[2] \in {NoUser, r.user}
        /\ r.type = "time_based" => r.condition \in Nat /\ r.condition <= now
    BY <2>1 DEF RemindersOK, ShownRightly
  <2>4. now \in Nat
    BY DEF RemindersOK, ReminderTypeOK
  <2>5. r.type = "time_based" => r.condition <= now'
    BY <2>3, <2>4
  <2>6. QED
    BY <2>2, <2>3, <2>5
<1>5. ShownRightly'
  BY <1>4 DEF ShownRightly
<1>6. QED
  BY <1>3, <1>5

\* A step that leaves the rows, the clock and what was shown.
LEMMA SameRemindersKeep ==
  ASSUME RemindersOK, UNCHANGED <<reminders, now, shown>>,
         reminding' \in [Client -> 0 .. Len(reminders)]
  PROVE  RemindersOK' /\ RemindersGrow
<1>1. RemindersGrow
  BY DEF RemindersGrow
<1>2. now' \in Nat /\ now' >= now
  BY DEF RemindersOK, ReminderTypeOK
<1>3. QED
  BY <1>1, <1>2, GrowthKeepsShown DEF RemindersOK, ReminderTypeOK

\* put_prospective adds a row as it was asked for.
LEMMA StartReminderKeeps ==
  ASSUME RemindersOK, NEW cl \in Client, NEW a \in ReminderArgs,
         StartReminder(cl, a.content, a.type, a.condition, a.user)
  PROVE  /\ RemindersOK' /\ RemindersGrow
         /\ reminding'[cl] = Len(reminders) + 1
         /\ reminders'[Len(reminders) + 1].content = a.content
         /\ reminders'[Len(reminders) + 1].user = a.user
<1>1. PICK r : r = [content |-> a.content, type |-> StoredType(a.type),
                    condition |-> a.condition, user |-> a.user, completed |-> FALSE]
  OBVIOUS
<1>2. r \in ProspectiveItem /\ r.content = a.content /\ r.user = a.user
  <2>1. /\ a.content \in Content /\ a.condition \in Condition /\ a.user \in Owner
        /\ StoredType(a.type) \in TriggerType
    BY DEF ReminderArgs, StoredType, TriggerType
  <2>2. QED
    BY <1>1, <2>1 DEF ProspectiveItem
<1>3. reminders' = Append(reminders, r) /\ UNCHANGED <<now, shown>>
  BY Zenon, <1>1 DEF StartReminder
<1>4. PICK len \in Nat : len = Len(reminders) /\ DOMAIN reminders = 1 .. len
  BY RemindersTyped DEF RemindersOK
<1>5. /\ reminders' \in Seq(ProspectiveItem) /\ Len(reminders') = len + 1
      /\ DOMAIN reminders' = 1 .. len + 1 /\ reminders'[len + 1] = r
      /\ \A k \in 1 .. len : reminders'[k] = reminders[k]
  BY <1>2, <1>3, <1>4, RemindersTyped, Appended DEF RemindersOK
<1>6. RemindersGrow
  BY <1>4, <1>5 DEF RemindersGrow
<1>7. reminding' = [reminding EXCEPT ![cl] = len + 1]
  BY <1>5 DEF StartReminder
<1>8. reminding \in [Client -> 0 .. len]
  BY <1>4 DEF RemindersOK, ReminderTypeOK
<1>9. reminding' \in [Client -> 0 .. Len(reminders')] /\ reminding'[cl] = len + 1
  BY <1>4, <1>5, <1>7, <1>8
<1>10. now \in Nat
  BY DEF RemindersOK, ReminderTypeOK
<1>11. RemindersOK'
  BY <1>3, <1>5, <1>6, <1>9, <1>10, GrowthKeepsShown DEF RemindersOK, ReminderTypeOK
<1>12. QED
  BY <1>2, <1>4, <1>5, <1>6, <1>9, <1>11

\* check_triggers shows rows of the user, or to nobody in particular, in time.
LEMMA CheckTriggersKeeps ==
  ASSUME RemindersOK, NEW query, NEW u \in Owner, CheckTriggers(query, u)
  PROVE  RemindersOK' /\ RemindersGrow
<1>1. /\ UNCHANGED <<reminders, reminding, now>>
      /\ shown' = shown \cup (Triggered(query, u) \X {u})
  BY DEF CheckTriggers
<1>2. RemindersGrow
  BY <1>1 DEF RemindersGrow
<1>3. ASSUME NEW k \in Triggered(query, u)
      PROVE  /\ k \in DOMAIN reminders
             /\ u \in {NoUser, reminders[k].user}
             /\ reminders[k].type = "time_based" =>
                  reminders[k].condition \in Nat /\ reminders[k].condition <= now
  <2>1. k \in DOMAIN reminders /\ u \in {NoUser, reminders[k].user}
    BY DEF Triggered, Pending
  <2>2. ASSUME reminders[k].type = "time_based"
        PROVE  reminders[k].condition \in Nat /\ now >= reminders[k].condition
    BY <2>2 DEF Triggered, Fires
  <2>3. now \in Nat
    BY DEF RemindersOK, ReminderTypeOK
  <2>4. QED
    BY <2>1, <2>2, <2>3
<1>4. ASSUME NEW p \in shown'
      PROVE  /\ p \in (DOMAIN reminders) \X Owner
             /\ p[2] \in {NoUser, reminders[p[1]].user}
             /\ reminders[p[1]].type = "time_based" =>
                  reminders[p[1]].condition \in Nat /\ reminders[p[1]].condition <= now
  <2>1. CASE p \in shown
    BY <2>1 DEF RemindersOK, ReminderTypeOK, ShownRightly
  <2>2. CASE p \in Triggered(query, u) \X {u}
    <3>1. p[1] \in Triggered(query, u) /\ p[2] = u /\ p = <<p[1], p[2]>>
      BY <2>2
    <3>2. QED
      BY <1>3, <3>1
  <2>3. QED
    BY <1>1, <1>4, <2>1, <2>2
<1>5. ReminderTypeOK'
  BY <1>1, <1>4 DEF RemindersOK, ReminderTypeOK
<1>6. ShownRightly'
  BY <1>1, <1>4 DEF ShownRightly
<1>7. QED
  BY <1>2, <1>5, <1>6 DEF RemindersOK

\* complete_prospective changes the status of a row only.
LEMMA CompleteKeeps ==
  ASSUME RemindersOK, NEW k \in DOMAIN reminders, Complete(k)
  PROVE  RemindersOK' /\ RemindersGrow
<1>1. PICK r : r = [reminders[k] EXCEPT !.completed = TRUE]
  OBVIOUS
<1>2. reminders[k] \in ProspectiveItem
  BY RemindersTyped DEF RemindersOK
<1>3. /\ r \in ProspectiveItem
      /\ r.content = reminders[k].content /\ r.type = reminders[k].type
      /\ r.condition = reminders[k].condition /\ r.user = reminders[k].user
  BY <1>1, <1>2 DEF ProspectiveItem
<1>4. reminders' = [reminders EXCEPT ![k] = r] /\ UNCHANGED <<reminding, now, shown>>
  BY <1>1 DEF Complete
<1>5. PICK len \in Nat : /\ len = Len(reminders) /\ DOMAIN reminders = 1 .. len
                         /\ reminders \in Seq(ProspectiveItem)
  BY RemindersTyped DEF RemindersOK
<1>6. reminders' \in Seq(ProspectiveItem) /\ Len(reminders') = len /\ DOMAIN reminders' = 1 .. len
  BY <1>3, <1>4, <1>5
<1>7. reminders'[k] = r /\ \A l \in 1 .. len : l # k => reminders'[l] = reminders[l]
  BY <1>4, <1>5
<1>8. RemindersGrow
  BY <1>3, <1>5, <1>6, <1>7 DEF RemindersGrow
<1>9. now' \in Nat /\ now' >= now
  BY <1>4 DEF RemindersOK, ReminderTypeOK
<1>10. reminding' \in [Client -> 0 .. Len(reminders')]
  BY <1>4, <1>5, <1>6 DEF RemindersOK, ReminderTypeOK
<1>11. RemindersOK'
  BY <1>4, <1>6, <1>8, <1>9, <1>10, GrowthKeepsShown DEF RemindersOK, ReminderTypeOK
<1>12. QED
  BY <1>8, <1>11

\* Time passes.
LEMMA TickKeeps ==
  ASSUME RemindersOK, Tick
  PROVE  RemindersOK' /\ RemindersGrow
<1>1. UNCHANGED <<reminders, reminding, shown>> /\ now' = now + 1 /\ now \in Nat
  BY DEF Tick, RemindersOK, ReminderTypeOK
<1>2. RemindersGrow
  BY <1>1 DEF RemindersGrow
<1>3. now' \in Nat /\ now' >= now
  BY <1>1
<1>4. QED
  BY <1>1, <1>2, <1>3, GrowthKeepsShown DEF RemindersOK, ReminderTypeOK

-----------------------------------------------------------------------------
(* Everybody else.                                                         *)

\* What was so stays so.
LEMMA TruthfulGrows ==
  ASSUME Grows, RemindersGrow, NEW c, NEW outcome, Truthful(c, outcome)
  PROVE  Truthful(c, outcome)'
<1>1. CASE outcome = Error
  BY Zenon, <1>1 DEF Truthful
<1>2. ASSUME c.tool = "add_memory",
             NEW i \in Id, outcome = Memory(i),
             NEW n \in DOMAIN items[i], Hash[items[i][n].content] = Hash[c.args.content]
      PROVE  Truthful(c, outcome)'
  <2>1. n \in DOMAIN items'[i] /\ items'[i][n] = items[i][n]
    BY DEF Grows
  <2>2. Hash[items'[i][n].content] = Hash[c.args.content]
    BY Zenon, <1>2, <2>1
  <2>3. QED
    BY Zenon, <1>2, <2>1, <2>2 DEF Truthful
<1>3. ASSUME c.tool = "add_reminder",
             NEW k \in DOMAIN reminders, outcome = Reminder(k),
             reminders[k].content = c.args.content, reminders[k].user = c.args.user,
             NEW i \in Id, 1 \in DOMAIN items[i],
             items[i][1].content = MemoryText(k)
      PROVE  Truthful(c, outcome)'
  <2>1. /\ k \in DOMAIN reminders'
        /\ reminders'[k].content = reminders[k].content
        /\ reminders'[k].type = reminders[k].type
        /\ reminders'[k].condition = reminders[k].condition
        /\ reminders'[k].user = reminders[k].user
    BY DEF RemindersGrow
  <2>2. 1 \in DOMAIN items'[i] /\ items'[i][1] = items[i][1]
    BY <1>3 DEF Grows
  <2>3. items'[i][1].content = MemoryText(k)'
    BY Zenon, <1>3, <2>1, <2>2 DEF MemoryText
  <2>4. reminders'[k].content = c.args.content /\ reminders'[k].user = c.args.user
    BY Zenon, <1>3, <2>1
  <2>5. QED
    BY Zenon, <1>3, <2>1, <2>2, <2>3, <2>4 DEF Truthful
<1>4. QED
  BY Zenon, <1>1, <1>2, <1>3 DEF Truthful

\* What results have said stays true while memories and reminders only grow.
LEMMA AllTruthfulGrows ==
  ASSUME Grows, RemindersGrow, NEW ms, AllTruthful(ms)
  PROVE  AllTruthful(ms)'
<1>1. ASSUME NEW k \in DOMAIN ms, NEW j \in DOMAIN ms[k].calls, k + j \in DOMAIN ms
      PROVE  Truthful(ms[k].calls[j], ms[k + j].text)'
  <2>1. Truthful(ms[k].calls[j], ms[k + j].text)
    BY Zenon, <1>1 DEF AllTruthful
  <2>2. QED
    BY Zenon, <2>1, TruthfulGrows
<1>2. QED
  BY Zenon, <1>1 DEF AllTruthful

\* what belongs to client o is left alone
LeftAlone(o) ==
  /\ call'[o] = call[o] /\ reminding'[o] = reminding[o]
  /\ run'[o] = run[o] /\ trace'[o] = trace[o] /\ runs'[o] = runs[o]

\* A client that does nothing stays as it was while the stores grow.
LEMMA OthersKeep ==
  ASSUME RemindersOK, Grows, RemindersGrow, NEW o \in Client, ClientOK(o), LeftAlone(o)
  PROVE  ClientOK(o)'
<1>1. RoundsOK(o)'
  BY DEF ClientOK, RoundsOK, LeftAlone
<1>2. PICK ms, todo : ms = trace[o] /\ todo = run[o].todo
  OBVIOUS
<1>3. TraceOK(ms, todo) /\ AllTruthful(ms)
  BY Zenon, <1>2 DEF ClientOK
<1>4. trace'[o] = ms /\ run'[o].todo = todo
  BY Zenon, <1>2 DEF LeftAlone
<1>5. TraceOK(trace[o], run[o].todo)'
  BY Zenon, <1>3, <1>4
<1>6. AllTruthful(ms)'
  BY <1>3, AllTruthfulGrows
<1>7. AllTruthful(trace[o])'
  BY Zenon, <1>4, <1>6 DEF AllTruthful
<1>8. DoesAsked(o)'
  <2>1. PICK c : c = Asking(o)
    OBVIOUS
  <2>2. Asking(o)' = c
    BY Zenon, <2>1 DEF Asking, LeftAlone
  <2>3. PICK k : k = reminding[o]
    OBVIOUS
  <2>4. k \in 0 .. Len(reminders)
    BY <2>3 DEF RemindersOK, ReminderTypeOK
  <2>5. ASSUME k # 0
        PROVE  reminders'[k].content = reminders[k].content /\ reminders'[k].user = reminders[k].user
    <3>1. k \in DOMAIN reminders
      BY <2>4, <2>5, RemindersTyped DEF RemindersOK
    <3>2. QED
      BY <3>1 DEF RemindersGrow
  <2>6. reminding'[o] = k /\ call'[o] = call[o] /\ run'[o] = run[o]
    BY <2>3 DEF LeftAlone
  <2>7. DoesAsked(o)
    BY Zenon DEF ClientOK
  <2>8. (~At(o, "tool") => Idle(o) /\ reminding[o] = 0)'
    BY <2>3, <2>6, <2>7 DEF DoesAsked, At, Idle
  <2>9. ASSUME ~Idle(o)'
        PROVE  /\ reminding'[o] = 0
               /\ c.tool = "add_memory" /\ c.args \in MemoryArgs
               /\ call'[o].content = c.args.content
    BY Zenon, <2>1, <2>3, <2>6, <2>7, <2>9 DEF DoesAsked, Idle
  <2>10. ASSUME reminding'[o] # 0
         PROVE  /\ c.tool = "add_reminder"
                /\ reminders'[reminding'[o]].content = c.args.content
                /\ reminders'[reminding'[o]].user = c.args.user
    BY Zenon, <2>1, <2>3, <2>5, <2>6, <2>7, <2>10 DEF DoesAsked
  <2>11. QED
    BY Zenon, <2>2, <2>8, <2>9, <2>10 DEF DoesAsked
<1>9. QED
  BY Zenon, <1>1, <1>5, <1>7, <1>8 DEF ClientOK

\* the stores go on as they may, and everybody but cl is left alone
OnlyClient(cl) ==
  /\ run' \in [Client -> Run] /\ runs' \in [Client -> Nat] /\ DOMAIN trace' = Client
  /\ \A o \in Client \ {cl} : LeftAlone(o)

StoresGoOn == AddInv' /\ RemindersOK' /\ Grows /\ RemindersGrow

\* One client makes a step: what is left to show of it.
LEMMA OneClientMoves ==
  ASSUME AgentInv, NEW cl \in Client, StoresGoOn, OnlyClient(cl), ClientOK(cl)'
  PROVE  AgentInv'
<1>1. ASSUME NEW o \in Client PROVE ClientOK(o)'
  <2>1. CASE o = cl
    BY Zenon, <2>1
  <2>2. CASE o # cl
    BY <2>2, OthersKeep DEF AgentInv, StoresGoOn, OnlyClient, RemindersOK
  <2>3. QED
    BY <2>1, <2>2
<1>2. QED
  BY <1>1 DEF AgentInv, StoresGoOn, OnlyClient, RemindersOK

\* No client makes a step.
LEMMA NobodyMoves ==
  ASSUME AgentInv, StoresGoOn, UNCHANGED <<call, reminding, agentVars>>
  PROVE  AgentInv'
<1>1. \A o \in Client : LeftAlone(o)
  BY DEF LeftAlone, agentVars
<1>2. \A o \in Client : ClientOK(o)'
  BY <1>1, OthersKeep DEF AgentInv, StoresGoOn, RemindersOK
<1>3. run' = run /\ runs' = runs /\ trace' = trace
  BY DEF agentVars
<1>4. QED
  BY <1>2, <1>3 DEF AgentInv, StoresGoOn, RemindersOK

\* A step that leaves all stores alone.
LEMMA QuietStores ==
  ASSUME AgentInv, UNCHANGED <<vars, reminderVars>>
  PROVE  StoresGoOn
<1>1. UNCHANGED <<items, edges, call, overlapped, reminders, reminding, now, shown>>
  BY DEF vars, storeVars, reminderVars
<1>2. CoreInv' /\ Grows
  BY <1>1, StillKeepsInv DEF AgentInv, AddInv
<1>3. LinksOK'
  BY <1>1, <1>2, GrowthKeepsLinks DEF AgentInv, AddInv
<1>4. reminding' \in [Client -> 0 .. Len(reminders)]
  BY <1>1 DEF AgentInv, ReminderTypeOK
<1>5. RemindersOK' /\ RemindersGrow
  BY <1>1, <1>4, SameRemindersKeep DEF AgentInv, RemindersOK
<1>6. QED
  BY <1>2, <1>3, <1>5 DEF StoresGoOn, AddInv

\* The step of add_memory, with the reminders left alone.
LEMMA AddStepsGoOn ==
  ASSUME AgentInv, NEW cl \in Client, UNCHANGED reminderVars,
         \/ AddSteps(cl)
         \/ \E c \in Content, u \in Owner : StartAdd(cl, c, u)
  PROVE  StoresGoOn
<1>1. CoreInv' /\ Grows
  BY AddStepsKeepInv, StartAddKeepsInv DEF AgentInv, AddInv
<1>2. ASSUME Link(cl) PROVE LinksOK'
  BY <1>2, LinkKeepsLinks DEF AgentInv
<1>3. ASSUME UNCHANGED edges PROVE LinksOK'
  BY <1>1, <1>3, GrowthKeepsLinks DEF AgentInv, AddInv
<1>4. LinksOK'
  <2>1. Link(cl) \/ UNCHANGED edges
    BY Zenon DEF AddSteps, StartAdd, Reinforce, SearchSimilar, Update, Store, Fail, storeVars
  <2>2. QED
    BY <1>2, <1>3, <2>1
<1>5. UNCHANGED <<reminders, reminding, now, shown>>
  BY DEF reminderVars
<1>6. reminding' \in [Client -> 0 .. Len(reminders)]
  BY <1>5 DEF AgentInv, ReminderTypeOK
<1>7. RemindersOK' /\ RemindersGrow
  BY <1>5, <1>6, SameRemindersKeep DEF AgentInv, RemindersOK
<1>8. QED
  BY <1>1, <1>4, <1>7 DEF StoresGoOn, AddInv

\* A client that runs no tool has nothing else to be right about than its trace.
LEMMA SettledIsOK ==
  ASSUME NEW cl \in Client, RoundsOK(cl)', call'[cl].at = "idle", reminding'[cl] = 0,
         NEW ms, NEW todo, trace'[cl] = ms, run'[cl].todo = todo,
         TraceOK(ms, todo), AllTruthful(ms)'
  PROVE  ClientOK(cl)'
<1>1. DoesAsked(cl)'
  BY DEF DoesAsked, Idle
<1>2. TraceOK(trace[cl], run[cl].todo)'
  BY Zenon
<1>3. AllTruthful(trace[cl])'
  BY Zenon DEF AllTruthful
<1>4. QED
  BY Zenon, <1>1, <1>2, <1>3 DEF ClientOK

\* What Become and Push leave.
LEMMA BecomeMoves ==
  ASSUME NEW S, run \in [S -> Run], NEW cl \in S, NEW r \in Run, Become(cl, r)
  PROVE  /\ run' \in [S -> Run] /\ run'[cl] = r
         /\ \A o \in S \ {cl} : run'[o] = run[o]
  BY DEF Become

\* A message is added to the trace of one client.
LEMMA PushMoves ==
  ASSUME NEW S, DOMAIN trace = S, NEW cl \in S, NEW ms, trace' = [trace EXCEPT ![cl] = ms]
  PROVE  /\ DOMAIN trace' = S /\ trace'[cl] = ms
         /\ \A o \in S \ {cl} : trace'[o] = trace[o]
  OBVIOUS

\* The last round is the one without tools.
LEMMA AskNextOK ==
  ASSUME NEW round \in Nat, round <= MaxRounds
  PROVE  /\ AskNext(round) \in {"ask", "last"}
         /\ AskNext(round) = "ask" => round < MaxRounds
  BY AgentAssumption DEF AskNext

-----------------------------------------------------------------------------
(* Asking the LLM.                                                         *)

\* A client between two tools.
LEMMA Between ==
  ASSUME AgentInv, NEW cl \in Client, ~At(cl, "tool")
  PROVE  call[cl].at = "idle" /\ reminding[cl] = 0
  BY DEF AgentInv, ClientOK, DoesAsked, Idle

\* A client with no calls to execute.
LEMMA NothingOpen ==
  ASSUME AgentInv, NEW cl \in Client, run[cl].at \in {"idle", "ask", "last"}
  PROVE  /\ run[cl].todo = 0 /\ TraceOK(trace[cl], 0) /\ AllTruthful(trace[cl])
         /\ call[cl].at = "idle" /\ reminding[cl] = 0
         /\ run[cl].round \in Nat /\ run[cl].round <= MaxRounds /\ runs[cl] <= MaxRuns
         /\ run[cl].at = "ask" => run[cl].round < MaxRounds
<1>1. RoundsOK(cl) /\ TraceOK(trace[cl], run[cl].todo) /\ AllTruthful(trace[cl])
  BY Zenon DEF AgentInv, ClientOK
<1>2. run[cl] \in Run
  BY DEF AgentInv
<1>3. run[cl].todo = 0
  BY <1>1, <1>2 DEF RoundsOK, Run
<1>4. TraceOK(trace[cl], 0)
  BY Zenon, <1>1, <1>3
<1>5. ~At(cl, "tool")
  BY DEF At
<1>6. call[cl].at = "idle" /\ reminding[cl] = 0
  BY <1>5, Between
<1>7. run[cl].round \in Nat
  BY <1>2 DEF Run
<1>8. run[cl].round <= MaxRounds /\ runs[cl] <= MaxRuns
      /\ (run[cl].at = "ask" => run[cl].round < MaxRounds)
  BY <1>1 DEF RoundsOK
<1>9. QED
  BY <1>1, <1>3, <1>4, <1>6, <1>7, <1>8

\* A step of cl that adds message m to its trace, and gives it `todo' calls to execute,
\* if any.
LEMMA SaidKeeps ==
  ASSUME AgentInv, NEW cl \in Client, UNCHANGED <<vars, reminderVars>>,
         run[cl].at \in {"idle", "ask", "last"},
         NEW m, Push(cl, m), NEW r \in Run, Become(cl, r), r.at # "tool",
         runs' \in [Client -> Nat], \A o \in Client \ {cl} : runs'[o] = runs[o],
         RoundsOK(cl)',
         \A ms : TraceOK(ms, 0) /\ ms = trace[cl] =>
                   /\ TraceOK(Append(ms, m), r.todo)
                   /\ AllTruthful(ms) => AllTruthful(Append(ms, m))
  PROVE  AgentInv'
<1>1. StoresGoOn
  BY QuietStores
<1>2. call' = call /\ reminding' = reminding
  BY DEF vars, reminderVars
<1>3. PICK ms : ms = trace[cl]
  OBVIOUS
<1>4. TraceOK(ms, 0) /\ AllTruthful(ms)
  BY Zenon, <1>3, NothingOpen
<1>5. PICK t : t = Append(ms, m)
  OBVIOUS
<1>6. TraceOK(t, r.todo) /\ AllTruthful(t)
  BY Zenon, <1>3, <1>4, <1>5
<1>7. trace' = [trace EXCEPT ![cl] = t]
  BY <1>3, <1>5 DEF Push
<1>8. DOMAIN trace' = Client /\ trace'[cl] = t /\ \A o \in Client \ {cl} : trace'[o] = trace[o]
  BY <1>7, PushMoves DEF AgentInv
<1>9. run' \in [Client -> Run] /\ run'[cl] = r /\ \A o \in Client \ {cl} : run'[o] = run[o]
  BY BecomeMoves DEF AgentInv
<1>10. OnlyClient(cl)
  BY <1>2, <1>8, <1>9 DEF OnlyClient, LeftAlone
<1>11. AllTruthful(t)'
  BY <1>1, <1>6, AllTruthfulGrows DEF StoresGoOn
<1>12. call'[cl].at = "idle" /\ reminding'[cl] = 0
  BY <1>2, NothingOpen
<1>13. ClientOK(cl)'
  BY Zenon, <1>6, <1>8, <1>9, <1>11, <1>12, SettledIsOK
<1>14. QED
  BY <1>1, <1>10, <1>13, OneClientMoves

\* A client in no run.
LEMMA NoRunOK == NoRun \in Run /\ NoRun.at = "idle" /\ NoRun.round = 0 /\ NoRun.todo = 0
  BY DEF NoRun, Run

\* A run begins, on a new trace or on one that a failed run has left.
LEMMA StartRunKeeps ==
  ASSUME AgentInv, NEW cl \in Client, StartRun(cl)
  PROVE  AgentInv'
<1>1. /\ run[cl].at = "idle" /\ runs[cl] < MaxRuns
      /\ runs' = [runs EXCEPT ![cl] = @ + 1]
      /\ UNCHANGED <<vars, reminderVars>>
  BY DEF StartRun, At
<1>2. PICK m : m = UserMessage("question")
  OBVIOUS
<1>3. Push(cl, m)
  BY Zenon, <1>2 DEF StartRun
<1>4. m \in Said /\ m.calls = <<>> /\ m.role = "user"
  <2>1. m = [role |-> "user", text |-> "question", id |-> 0, calls |-> <<>>]
    BY <1>2 DEF UserMessage, Plain
  <2>2. "question" \in Texts /\ <<>> \in Seq(Issued)
    BY DEF Texts
  <2>3. QED
    BY <2>1, <2>2 DEF Said, Message
<1>5. PICK r : r = [NoRun EXCEPT !.at = AskNext(0)]
  OBVIOUS
<1>6. Become(cl, r)
  BY Zenon, <1>5 DEF StartRun
<1>7. AskNext(0) \in {"ask", "last"} /\ (AskNext(0) = "ask" => 0 < MaxRounds)
  <2>1. 0 <= MaxRounds
    BY AgentAssumption
  <2>2. QED
    BY <2>1, AskNextOK
<1>8. r \in Run /\ r.at = AskNext(0) /\ r.round = 0 /\ r.todo = 0
  BY <1>5, <1>7 DEF NoRun, Run
<1>9. run'[cl] = r
  BY <1>6, <1>8, BecomeMoves DEF AgentInv
<1>10. runs[cl] \in Nat /\ MaxRuns \in Nat /\ MaxRounds \in Nat
  BY AgentAssumption DEF AgentInv
<1>11. /\ runs' \in [Client -> Nat] /\ runs'[cl] = runs[cl] + 1
       /\ \A o \in Client \ {cl} : runs'[o] = runs[o]
  BY <1>1 DEF AgentInv
<1>12. RoundsOK(cl)'
  BY <1>1, <1>7, <1>8, <1>9, <1>10, <1>11 DEF RoundsOK
<1>13. \A ms : TraceOK(ms, 0) => /\ TraceOK(Append(ms, m), 0)
                                 /\ AllTruthful(ms) => AllTruthful(Append(ms, m))
  BY <1>4, PlainKeepsTrace
<1>14. r.at # "tool"
  BY <1>7, <1>8
<1>15. QED
  BY Zenon, <1>1, <1>3, <1>6, <1>8, <1>11, <1>12, <1>13, <1>14, SaidKeeps

\* What the LLM says without a call.
LEMMA PlainSaid ==
  ASSUME NEW text \in Texts, NEW m, m = AssistantMessage(text, <<>>)
  PROVE  m \in Said /\ m.calls = <<>> /\ m.role = "assistant"
<1>1. <<>> \in Seq(Issued) /\ text \in Texts
  OBVIOUS
<1>2. PICK n : n = [role |-> "assistant", text |-> text, id |-> 0, calls |-> <<>>]
  OBVIOUS
<1>3. n \in Said /\ n.calls = <<>> /\ n.role = "assistant"
  BY <1>1, <1>2 DEF Said, Message
<1>4. m = n
  BY <1>2 DEF AssistantMessage, Plain
<1>5. QED
  BY Zenon, <1>3, <1>4

\* A client that is idle is within its bounds.
LEMMA IdleIsBounded ==
  ASSUME AgentInv, NEW cl \in Client, run'[cl] = NoRun, runs'[cl] = runs[cl]
  PROVE  RoundsOK(cl)'
<1>1. runs[cl] <= MaxRuns
  BY DEF AgentInv, ClientOK, RoundsOK
<1>2. 0 <= MaxRounds
  BY AgentAssumption
<1>3. QED
  BY <1>1, <1>2, NoRunOK DEF RoundsOK

\* The LLM answers, with calls or without.
LEMMA AnswerKeeps ==
  ASSUME AgentInv, NEW cl \in Client, Answer(cl)
  PROVE  AgentInv'
<1>1. run[cl].at = "ask" /\ UNCHANGED <<vars, reminderVars, runs>>
  BY DEF Answer, At
<1>2. PICK reply \in Reply :
        LET r == Decode(reply, Cardinality(Asked(trace[cl])))
        IN  /\ Push(cl, AssistantMessage(r.text, r.calls))
            /\ Become(cl, IF r.calls = <<>>
                          THEN NoRun
                          ELSE [run[cl] EXCEPT !.at = "execute", !.todo = Len(r.calls)])
  BY Zenon DEF Answer
<1>3. PICK r : r = Decode(reply, Cardinality(Asked(trace[cl])))
  OBVIOUS
<1>4. PICK m : m = AssistantMessage(r.text, r.calls)
  OBVIOUS
<1>5. PICK new : new = IF r.calls = <<>>
                       THEN NoRun
                       ELSE [run[cl] EXCEPT !.at = "execute", !.todo = Len(r.calls)]
  OBVIOUS
<1>6. Push(cl, m) /\ Become(cl, new)
  BY Zenon, <1>2, <1>3, <1>4, <1>5
<1>7. /\ run[cl] \in Run /\ run[cl].round \in Nat /\ run[cl].round <= MaxRounds
      /\ run[cl].round < MaxRounds /\ runs[cl] <= MaxRuns
      /\ TraceOK(trace[cl], 0)
  BY <1>1, NothingOpen DEF AgentInv
<1>8. runs' \in [Client -> Nat] /\ runs'[cl] = runs[cl] /\ \A o \in Client \ {cl} : runs'[o] = runs[o]
  BY <1>1 DEF AgentInv
<1>9. Cardinality(Asked(trace[cl])) \in Nat
  BY <1>7, FS_CardinalityType DEF TraceOK, Numbered
<1>10. r.text \in Texts /\ r.calls \in Seq(Issued) /\ Len(r.calls) \in Nat
  BY <1>3, <1>9, Decoded
<1>11. CASE r.calls = <<>>
  <2>1. new = NoRun
    BY Zenon, <1>5, <1>11
  <2>2. m = AssistantMessage(r.text, <<>>)
    BY Zenon, <1>4, <1>11
  <2>3. m \in Said /\ m.calls = <<>> /\ m.role = "assistant"
    BY <1>10, <2>2, PlainSaid
  <2>4. run'[cl] = NoRun
    BY <1>6, <2>1, NoRunOK, BecomeMoves DEF AgentInv
  <2>5. RoundsOK(cl)'
    BY <1>8, <2>4, IdleIsBounded
  <2>6. \A ms : TraceOK(ms, 0) => /\ TraceOK(Append(ms, m), 0)
                                  /\ AllTruthful(ms) => AllTruthful(Append(ms, m))
    BY <2>3, PlainKeepsTrace
  <2>7. new \in Run /\ new.at # "tool" /\ new.todo = 0
    BY <2>1, NoRunOK
  <2>8. \A ms : TraceOK(ms, 0) /\ ms = trace[cl]
                  => /\ TraceOK(Append(ms, m), new.todo)
                     /\ AllTruthful(ms) => AllTruthful(Append(ms, m))
    BY Zenon, <2>6, <2>7
  <2>9. UNCHANGED <<vars, reminderVars>> /\ run[cl].at \in {"idle", "ask", "last"}
    BY <1>1
  <2>10. QED
    BY Zenon, <1>6, <1>8, <2>5, <2>7, <2>8, <2>9, SaidKeeps
<1>12. CASE r.calls # <<>>
  <2>1. new = [run[cl] EXCEPT !.at = "execute", !.todo = Len(r.calls)]
    BY Zenon, <1>5, <1>12
  <2>2. new \in Run /\ new.at = "execute" /\ new.todo = Len(r.calls) /\ new.round = run[cl].round
    BY <1>7, <1>10, <2>1 DEF Run
  <2>3. run'[cl] = new
    BY <1>6, <2>2, BecomeMoves DEF AgentInv
  <2>4. Len(r.calls) > 0
    BY <1>10, <1>12
  <2>5. RoundsOK(cl)'
    BY <1>7, <1>8, <2>2, <2>3, <2>4 DEF RoundsOK
  <2>6. \A ms : TraceOK(ms, 0) /\ ms = trace[cl]
                  => /\ TraceOK(Append(ms, m), Len(r.calls))
                     /\ AllTruthful(ms) => AllTruthful(Append(ms, m))
    BY <1>3, <1>4, <1>12, CallsKeepTrace
  <2>7. \A ms : TraceOK(ms, 0) /\ ms = trace[cl]
                  => /\ TraceOK(Append(ms, m), new.todo)
                     /\ AllTruthful(ms) => AllTruthful(Append(ms, m))
    BY Zenon, <2>2, <2>6
  <2>8. UNCHANGED <<vars, reminderVars>> /\ run[cl].at \in {"idle", "ask", "last"} /\ new.at # "tool"
    BY <1>1, <2>2
  <2>9. QED
    BY Zenon, <1>6, <1>8, <2>2, <2>5, <2>7, <2>8, SaidKeeps
<1>13. QED
  BY <1>11, <1>12

\* The LLM answers to the request without tools.
LEMMA LastAnswerKeeps ==
  ASSUME AgentInv, NEW cl \in Client, LastAnswer(cl)
  PROVE  AgentInv'
<1>1. /\ run[cl].at = "last" /\ UNCHANGED <<vars, reminderVars, runs>>
      /\ Become(cl, NoRun)
  BY DEF LastAnswer, At
<1>2. PICK reply \in Reply : Push(cl, AssistantMessage(reply.text, <<>>))
  BY DEF LastAnswer
<1>3. PICK m : m = AssistantMessage(reply.text, <<>>)
  OBVIOUS
<1>4. Push(cl, m)
  BY Zenon, <1>2, <1>3
<1>5. reply.text \in Texts
  BY DEF Texts
<1>6. m \in Said /\ m.calls = <<>> /\ m.role = "assistant"
  BY <1>3, <1>5, PlainSaid
<1>7. runs' \in [Client -> Nat] /\ runs'[cl] = runs[cl] /\ \A o \in Client \ {cl} : runs'[o] = runs[o]
  BY <1>1 DEF AgentInv
<1>8. run'[cl] = NoRun
  BY <1>1, NoRunOK, BecomeMoves DEF AgentInv
<1>9. RoundsOK(cl)'
  BY <1>7, <1>8, IdleIsBounded
<1>10. \A ms : TraceOK(ms, 0) => /\ TraceOK(Append(ms, m), 0)
                                 /\ AllTruthful(ms) => AllTruthful(Append(ms, m))
  BY <1>6, PlainKeepsTrace
<1>11. NoRun \in Run /\ NoRun.at # "tool" /\ NoRun.todo = 0
  BY NoRunOK
<1>12. \A ms : TraceOK(ms, 0) /\ ms = trace[cl]
                 => /\ TraceOK(Append(ms, m), NoRun.todo)
                    /\ AllTruthful(ms) => AllTruthful(Append(ms, m))
  BY Zenon, <1>10, <1>11
<1>13. UNCHANGED <<vars, reminderVars>> /\ run[cl].at \in {"idle", "ask", "last"}
  BY <1>1
<1>14. QED
  BY Zenon, <1>1, <1>4, <1>7, <1>9, <1>11, <1>12, <1>13, SaidKeeps

\* A request fails: the run returns, the messages stay.
LEMMA RequestFailsKeeps ==
  ASSUME AgentInv, NEW cl \in Client, RequestFails(cl)
  PROVE  AgentInv'
<1>1. /\ run[cl].at \in {"ask", "last"} /\ UNCHANGED <<vars, reminderVars, trace, runs>>
      /\ Become(cl, NoRun)
  BY DEF RequestFails
<1>2. StoresGoOn /\ call' = call /\ reminding' = reminding
  BY <1>1, QuietStores DEF vars, reminderVars
<1>3. run' \in [Client -> Run] /\ run'[cl] = NoRun /\ \A o \in Client \ {cl} : run'[o] = run[o]
  BY <1>1, NoRunOK, BecomeMoves DEF AgentInv
<1>4. OnlyClient(cl)
  BY <1>1, <1>2, <1>3 DEF OnlyClient, LeftAlone, AgentInv
<1>5. PICK ms : ms = trace[cl]
  OBVIOUS
<1>6. /\ TraceOK(ms, 0) /\ AllTruthful(ms)
      /\ call[cl].at = "idle" /\ reminding[cl] = 0
  BY Zenon, <1>1, <1>5, NothingOpen
<1>7. AllTruthful(ms)'
  BY <1>2, <1>6, AllTruthfulGrows DEF StoresGoOn
<1>8. RoundsOK(cl)'
  BY <1>1, <1>3, IdleIsBounded
<1>9. trace'[cl] = ms /\ run'[cl].todo = 0 /\ call'[cl].at = "idle" /\ reminding'[cl] = 0
  BY <1>1, <1>2, <1>3, <1>5, <1>6, NoRunOK
<1>10. ClientOK(cl)'
  BY Zenon, <1>6, <1>7, <1>8, <1>9, SettledIsOK
<1>11. QED
  BY <1>2, <1>4, <1>10, OneClientMoves

-----------------------------------------------------------------------------
(* Running tools.                                                          *)

\* A client that has calls to execute.
LEMMA SomeOpen ==
  ASSUME AgentInv, NEW cl \in Client, run[cl].at \in {"execute", "tool"}
  PROVE  /\ run[cl].todo \in Nat /\ run[cl].todo > 0
         /\ TraceOK(trace[cl], run[cl].todo) /\ AllTruthful(trace[cl])
         /\ run[cl].round \in Nat /\ run[cl].round < MaxRounds /\ runs[cl] <= MaxRuns
         /\ run[cl] \in Run
<1>1. RoundsOK(cl) /\ TraceOK(trace[cl], run[cl].todo) /\ AllTruthful(trace[cl])
  BY Zenon DEF AgentInv, ClientOK
<1>2. run[cl] \in Run
  BY DEF AgentInv
<1>3. QED
  BY <1>1, <1>2 DEF RoundsOK, Run

\* A result is a message without calls.
LEMMA ResultSaid ==
  ASSUME NEW id \in Nat, NEW outcome \in Outcome
  PROVE  ToolResult(id, outcome) \in Said
<1>1. PICK m : m = [role |-> "tool_result", text |-> outcome, id |-> id, calls |-> <<>>]
  OBVIOUS
<1>2. outcome \in Texts /\ <<>> \in Seq(Issued)
  BY DEF Texts
<1>3. m \in Said
  BY <1>1, <1>2 DEF Said, Message
<1>4. ToolResult(id, outcome) = m
  BY <1>1 DEF ToolResult, Plain
<1>5. QED
  BY Zenon, <1>3, <1>4

\* The call that is executed has a result, which is so.
LEMMA FinishKeeps ==
  ASSUME AgentInv, NEW cl \in Client, run[cl].at \in {"execute", "tool"},
         NEW outcome \in Outcome, Finish(cl, outcome), StoresGoOn,
         NEW c, c = Asking(cl), Truthful(c, outcome)',
         call'[cl].at = "idle", reminding'[cl] = 0,
         \A o \in Client \ {cl} : call'[o] = call[o] /\ reminding'[o] = reminding[o]
  PROVE  AgentInv'
<1>1. PICK ms, todo : ms = trace[cl] /\ todo = run[cl].todo
  OBVIOUS
<1>2. todo \in Nat /\ todo > 0 /\ TraceOK(ms, todo) /\ AllTruthful(ms)
  BY Zenon, <1>1, SomeOpen
<1>3. c = FirstOpen(ms, todo)
  BY Zenon, <1>1, AskingIsOpen
<1>4. c.id \in Nat
  BY <1>2, <1>3, NextAsked DEF FirstAt, Issued
<1>5. PICK m : m = ToolResult(c.id, outcome)
  OBVIOUS
<1>6. PICK t : t = Append(ms, m)
  OBVIOUS
<1>7. m = ToolResult(FirstOpen(ms, todo).id, outcome)
  BY Zenon, <1>3, <1>5
<1>8. TraceOK(t, todo - 1) /\ TellsToo(t, ms, c, outcome)
  BY Zenon, <1>2, <1>3, <1>6, <1>7, ResultKeepsTrace
<1>9. t = ms \o <<m>>
  <2>1. m \in Said /\ ms \in Seq(Said)
    BY <1>2, <1>4, <1>5, ResultSaid DEF TraceOK
  <2>2. QED
    BY <1>6, <2>1, Appended
<1>10. trace' = [trace EXCEPT ![cl] = t]
  <2>1. trace' = [trace EXCEPT ![cl] = @ \o <<m>>]
    BY Zenon, <1>5 DEF Finish, Report
  <2>2. QED
    BY Zenon, <1>1, <1>9, <2>1
<1>11. DOMAIN trace' = Client /\ trace'[cl] = t /\ \A o \in Client \ {cl} : trace'[o] = trace[o]
  BY <1>10, PushMoves DEF AgentInv
<1>12. PICK round : round = IF todo - 1 = 0 THEN run[cl].round + 1 ELSE run[cl].round
  OBVIOUS
<1>13. PICK at : at = IF todo - 1 = 0 THEN AskNext(round) ELSE "execute"
  OBVIOUS
<1>14. PICK r : r = [run[cl] EXCEPT !.at = at, !.round = round, !.todo = todo - 1]
  OBVIOUS
<1>15. Become(cl, r) /\ UNCHANGED runs
  BY Zenon, <1>1, <1>12, <1>13, <1>14 DEF Finish
<1>16. run[cl].round \in Nat /\ run[cl].round < MaxRounds /\ runs[cl] <= MaxRuns /\ run[cl] \in Run
  BY Zenon, SomeOpen
<1>17. round \in Nat /\ round <= MaxRounds /\ todo - 1 \in Nat
  BY <1>2, <1>12, <1>16, AgentAssumption
<1>18. /\ at \in {"ask", "last", "execute"}
       /\ at \in {"ask", "execute"} => round < MaxRounds
       /\ at = "execute" <=> todo - 1 > 0
  BY <1>2, <1>12, <1>13, <1>16, <1>17, AskNextOK
<1>19. r \in Run /\ r.at = at /\ r.round = round /\ r.todo = todo - 1
  BY <1>14, <1>16, <1>17, <1>18 DEF Run
<1>20. run' \in [Client -> Run] /\ run'[cl] = r /\ \A o \in Client \ {cl} : run'[o] = run[o]
  BY <1>15, <1>19, BecomeMoves DEF AgentInv
<1>21. OnlyClient(cl)
  BY <1>11, <1>15, <1>20 DEF OnlyClient, LeftAlone, AgentInv
<1>22. RoundsOK(cl)'
  BY <1>15, <1>16, <1>17, <1>18, <1>19, <1>20 DEF RoundsOK
<1>23. AllTruthful(ms)'
  BY <1>2, AllTruthfulGrows DEF StoresGoOn
<1>24. AllTruthful(t)'
  <2>1. ASSUME NEW k \in DOMAIN t, NEW j \in DOMAIN t[k].calls, k + j \in DOMAIN t
        PROVE  Truthful(t[k].calls[j], t[k + j].text)'
    <3>1. CASE t[k].calls[j] = c /\ t[k + j].text = outcome
      BY Zenon, <3>1 DEF Truthful
    <3>2. CASE k \in DOMAIN ms /\ t[k] = ms[k] /\ k + j \in DOMAIN ms /\ t[k + j] = ms[k + j]
      <4>1. Truthful(ms[k].calls[j], ms[k + j].text)'
        BY Zenon, <1>23, <2>1, <3>2 DEF AllTruthful
      <4>2. QED
        BY Zenon, <3>2, <4>1 DEF Truthful
    <3>3. QED
      BY Zenon, <1>8, <2>1, <3>1, <3>2 DEF TellsToo
  <2>2. QED
    BY Zenon, <2>1 DEF AllTruthful
<1>25. trace'[cl] = t /\ run'[cl].todo = todo - 1
  BY <1>11, <1>19, <1>20
<1>26. ClientOK(cl)'
  BY Zenon, <1>8, <1>22, <1>24, <1>25, SettledIsOK
<1>27. QED
  BY <1>21, <1>26, OneClientMoves

\* A call that cannot be carried out has an error as its result.
LEMMA CallFailsKeeps ==
  ASSUME AgentInv, NEW cl \in Client, CallFails(cl)
  PROVE  AgentInv'
<1>1. run[cl].at = "execute" /\ Finish(cl, Error) /\ UNCHANGED <<vars, reminderVars>>
  BY DEF CallFails, At
<1>2. StoresGoOn /\ call' = call /\ reminding' = reminding
  BY <1>1, QuietStores DEF vars, reminderVars
<1>3. call[cl].at = "idle" /\ reminding[cl] = 0
  BY <1>1, Between DEF At
<1>4. PICK c : c = Asking(cl)
  OBVIOUS
<1>5. Error \in Outcome
  BY DEF Outcome
<1>6. Truthful(c, Error)'
  BY Zenon DEF Truthful
<1>7. QED
  BY <1>1, <1>2, <1>3, <1>4, <1>5, <1>6, FinishKeeps

\* A step of cl that leaves its trace and its open calls.
LEMMA ToolGoesOn ==
  ASSUME AgentInv, NEW cl \in Client, UNCHANGED <<trace, runs>>,
         run' \in [Client -> Run], run'[cl].todo = run[cl].todo,
         \A o \in Client \ {cl} :
           run'[o] = run[o] /\ call'[o] = call[o] /\ reminding'[o] = reminding[o],
         RoundsOK(cl)', DoesAsked(cl)', StoresGoOn
  PROVE  AgentInv'
<1>1. OnlyClient(cl)
  BY DEF OnlyClient, LeftAlone, AgentInv
<1>2. PICK ms, todo : ms = trace[cl] /\ todo = run[cl].todo
  OBVIOUS
<1>3. TraceOK(ms, todo) /\ AllTruthful(ms)
  BY Zenon, <1>2 DEF AgentInv, ClientOK
<1>4. trace'[cl] = ms /\ run'[cl].todo = todo
  BY <1>2
<1>5. TraceOK(trace[cl], run[cl].todo)'
  BY Zenon, <1>3, <1>4
<1>6. AllTruthful(ms)'
  BY <1>3, AllTruthfulGrows DEF StoresGoOn
<1>7. AllTruthful(trace[cl])'
  BY Zenon, <1>4, <1>6 DEF AllTruthful
<1>8. ClientOK(cl)'
  BY Zenon, <1>5, <1>7 DEF ClientOK
<1>9. QED
  BY <1>1, <1>8, OneClientMoves

\* While neither the trace nor the calls to do change, the call is the same.
LEMMA SameAsking ==
  ASSUME NEW cl, NEW c, c = Asking(cl), trace'[cl] = trace[cl], run'[cl].todo = run[cl].todo
  PROVE  Asking(cl)' = c
  BY Zenon DEF Asking

\* What Begin leaves.
LEMMA BeginMoves ==
  ASSUME AgentInv, NEW cl \in Client, run[cl].at = "execute", Begin(cl)
  PROVE  /\ UNCHANGED <<trace, runs>> /\ trace'[cl] = trace[cl]
         /\ run' \in [Client -> Run] /\ run'[cl].todo = run[cl].todo /\ run'[cl].at = "tool"
         /\ \A o \in Client \ {cl} : run'[o] = run[o]
         /\ RoundsOK(cl)'
<1>1. PICK r : r = [run[cl] EXCEPT !.at = "tool"]
  OBVIOUS
<1>2. Become(cl, r) /\ UNCHANGED <<trace, runs>>
  BY Zenon, <1>1 DEF Begin
<1>3. /\ run[cl] \in Run /\ run[cl].round \in Nat /\ run[cl].round < MaxRounds
      /\ runs[cl] <= MaxRuns /\ run[cl].todo > 0
  BY SomeOpen
<1>4. r \in Run /\ r.at = "tool" /\ r.todo = run[cl].todo /\ r.round = run[cl].round
  BY <1>1, <1>3 DEF Run
<1>5. run' \in [Client -> Run] /\ run'[cl] = r /\ \A o \in Client \ {cl} : run'[o] = run[o]
  BY <1>2, <1>4, BecomeMoves DEF AgentInv
<1>6. run[cl].round <= MaxRounds
  BY <1>3, AgentAssumption
<1>7. RoundsOK(cl)'
  BY <1>2, <1>3, <1>4, <1>5, <1>6 DEF RoundsOK
<1>8. QED
  BY <1>2, <1>4, <1>5, <1>7

\* The arguments of the call that is executed next.
LEMMA ArgumentsGiven ==
  ASSUME AgentInv, NEW cl \in Client, run[cl].at \in {"execute", "tool"},
         NEW c, c = Asking(cl), c.args # NoArgs
  PROVE  /\ c.tool = "add_memory" => c.args \in MemoryArgs
         /\ c.tool = "add_reminder" => c.args \in ReminderArgs
<1>1. PICK ms, todo : ms = trace[cl] /\ todo = run[cl].todo
  OBVIOUS
<1>2. todo \in Nat /\ todo > 0 /\ TraceOK(ms, todo)
  BY Zenon, <1>1, SomeOpen
<1>3. c = FirstOpen(ms, todo)
  BY Zenon, <1>1, AskingIsOpen
<1>4. c.args \in Arguments(c.tool) \cup {NoArgs}
  BY Zenon, <1>2, <1>3, NextAsked DEF FirstAt
<1>5. c.args \in Arguments(c.tool)
  BY <1>4
<1>6. QED
  BY <1>5 DEF Arguments

\* The calls of add_memory beside that of cl.
LEMMA StartAddMoves ==
  ASSUME CallsOK, NEW cl \in Client, NEW c, NEW u, StartAdd(cl, c, u)
  PROVE  /\ call'[cl].at # "idle" /\ call'[cl].content = c
         /\ \A o \in Client \ {cl} : call'[o] = call[o]
<1>1. call \in [Client -> Call]
  BY DEF CallsOK
<1>2. PICK new : /\ call' = [call EXCEPT ![cl] = new]
                 /\ new.at # "idle" /\ new.content = c
  <2>1. ASSUME NEW i \in FindByHash(c, u),
               call' = [call EXCEPT ![cl] = [at |-> "reinforce", content |-> c, user |-> u,
                                             id |-> i, base |-> Current(i)]]
        PROVE  \E new : /\ call' = [call EXCEPT ![cl] = new]
                        /\ new.at # "idle" /\ new.content = c
    <3>1. PICK new : new = [at |-> "reinforce", content |-> c, user |-> u,
                            id |-> i, base |-> Current(i)]
      OBVIOUS
    <3>2. new.at # "idle" /\ new.content = c
      BY <3>1
    <3>3. QED
      BY Zenon, <2>1, <3>1, <3>2
  <2>2. ASSUME call' = [call EXCEPT ![cl] = [at |-> "search", content |-> c, user |-> u,
                                             id |-> None, base |-> None]]
        PROVE  \E new : /\ call' = [call EXCEPT ![cl] = new]
                        /\ new.at # "idle" /\ new.content = c
    <3>1. PICK new : new = [at |-> "search", content |-> c, user |-> u,
                            id |-> None, base |-> None]
      OBVIOUS
    <3>2. new.at # "idle" /\ new.content = c
      BY <3>1
    <3>3. QED
      BY Zenon, <2>2, <3>1, <3>2
  <2>3. QED
    BY Zenon, <2>1, <2>2 DEF StartAdd
<1>3. QED
  BY <1>1, <1>2

\* A call of add_memory begins.
LEMMA CallAddMemoryKeeps ==
  ASSUME AgentInv, NEW cl \in Client, CallAddMemory(cl)
  PROVE  AgentInv'
<1>1. PICK c : c = Asking(cl)
  OBVIOUS
<1>2. /\ At(cl, "execute") /\ c.tool = "add_memory" /\ c.args # NoArgs
      /\ StartAdd(cl, c.args.content, c.args.user)
      /\ Begin(cl) /\ UNCHANGED reminderVars
  BY Zenon, <1>1 DEF CallAddMemory
<1>3. run[cl].at = "execute"
  BY <1>2 DEF At
<1>4. c.args \in MemoryArgs
  BY <1>1, <1>2, <1>3, ArgumentsGiven
<1>5. c.args.content \in Content /\ c.args.user \in Owner
  BY <1>4 DEF MemoryArgs
<1>6. StoresGoOn
  BY <1>2, <1>5, AddStepsGoOn
<1>7. /\ call'[cl].at # "idle" /\ call'[cl].content = c.args.content
      /\ \A o \in Client \ {cl} : call'[o] = call[o]
  BY <1>2, StartAddMoves DEF AgentInv, AddInv, CoreInv
<1>8. call[cl].at = "idle" /\ reminding[cl] = 0 /\ reminding' = reminding
  BY <1>2, <1>3, Between DEF At, reminderVars
<1>9. /\ UNCHANGED <<trace, runs>> /\ trace'[cl] = trace[cl]
      /\ run' \in [Client -> Run] /\ run'[cl].todo = run[cl].todo /\ run'[cl].at = "tool"
      /\ \A o \in Client \ {cl} : run'[o] = run[o]
      /\ RoundsOK(cl)'
  BY <1>2, <1>3, BeginMoves
<1>10. Asking(cl)' = c
  BY <1>1, <1>9, SameAsking
<1>11. DoesAsked(cl)'
  BY Zenon, <1>2, <1>4, <1>7, <1>8, <1>9, <1>10 DEF DoesAsked, At, Idle
<1>12. \A o \in Client \ {cl} :
         run'[o] = run[o] /\ call'[o] = call[o] /\ reminding'[o] = reminding[o]
  BY <1>7, <1>8, <1>9
<1>13. QED
  BY <1>6, <1>9, <1>11, <1>12, ToolGoesOn

\* add_memory goes on, of one client.
LEMMA ProceedOnlyMe ==
  ASSUME CallsOK, NEW cl \in Client, NEW p, NEW i, NEW b, Proceed(cl, p, i, b)
  PROVE  /\ call'[cl].at = p /\ call'[cl].content = call[cl].content
         /\ \A o \in Client \ {cl} : call'[o] = call[o]
<1>1. PICK new : new = [call[cl] EXCEPT !.at = p, !.id = i, !.base = b]
  OBVIOUS
<1>2. call' = [call EXCEPT ![cl] = new]
  BY <1>1 DEF Proceed
<1>3. call \in [Client -> Call] /\ call[cl] \in Call
  BY DEF CallsOK
<1>4. new.at = p /\ new.content = call[cl].content
  BY <1>1, <1>3 DEF Call
<1>5. QED
  BY <1>2, <1>3, <1>4

\* The tool a client runs is the one it was asked to run.
LEMMA RunsAsked ==
  ASSUME AgentInv, NEW cl \in Client, NEW c, c = Asking(cl)
  PROVE  /\ call[cl].at # "idle" =>
              /\ reminding[cl] = 0 /\ c.tool = "add_memory" /\ c.args \in MemoryArgs
              /\ call[cl].content = c.args.content
         /\ reminding[cl] # 0 =>
              /\ call[cl].at = "idle" /\ c.tool = "add_reminder"
              /\ reminders[reminding[cl]].content = c.args.content
              /\ reminders[reminding[cl]].user = c.args.user
  BY Zenon DEF AgentInv, ClientOK, DoesAsked, Idle

\* A call of add_memory goes on.
LEMMA AddMemoryGoesOnKeeps ==
  ASSUME AgentInv, NEW cl \in Client, AddMemoryGoesOn(cl)
  PROVE  AgentInv'
<1>1. /\ run[cl].at = "tool" /\ UNCHANGED reminderVars /\ UNCHANGED <<run, trace, runs>>
      /\ SearchSimilar(cl) \/ Store(cl)
  BY DEF AddMemoryGoesOn, agentVars, At
<1>2. StoresGoOn
  BY <1>1, AddStepsGoOn DEF AddSteps
<1>3. call[cl].at # "idle" /\ \E p, i, b : p # "idle" /\ Proceed(cl, p, i, b)
  <2>1. CASE SearchSimilar(cl)
    <3>1. call[cl].at = "search"
      BY <2>1 DEF SearchSimilar
    <3>2. \/ \E h : Proceed(cl, "update", h[1], Hit(h))
          \/ Proceed(cl, "store", None, None)
      BY Zenon, <2>1 DEF SearchSimilar
    <3>3. \E p, i, b : p # "idle" /\ Proceed(cl, p, i, b)
      BY <3>2
    <3>4. QED
      BY <3>1, <3>3
  <2>2. CASE Store(cl)
    <3>1. call[cl].at = "store" /\ \E i : Proceed(cl, "link", i, None)
      BY Zenon, <2>2 DEF Store
    <3>2. QED
      BY <3>1
  <2>3. QED
    BY <1>1, <2>1, <2>2
<1>4. /\ call'[cl].at # "idle" /\ call'[cl].content = call[cl].content
      /\ \A o \in Client \ {cl} : call'[o] = call[o]
  BY <1>3, ProceedOnlyMe DEF AgentInv, AddInv, CoreInv
<1>5. PICK c : c = Asking(cl)
  OBVIOUS
<1>6. /\ reminding[cl] = 0 /\ c.tool = "add_memory" /\ c.args \in MemoryArgs
      /\ call[cl].content = c.args.content
  BY <1>3, <1>5, RunsAsked
<1>7. run' = run /\ trace'[cl] = trace[cl] /\ reminding' = reminding /\ runs' = runs
  BY <1>1 DEF reminderVars
<1>8. Asking(cl)' = c
  BY <1>5, <1>7, SameAsking
<1>9. run'[cl].at = "tool"
  BY <1>1
<1>10. DoesAsked(cl)'
  BY Zenon, <1>4, <1>6, <1>7, <1>8, <1>9 DEF DoesAsked, At, Idle
<1>11. RoundsOK(cl)'
  BY <1>7 DEF AgentInv, ClientOK, RoundsOK
<1>12. /\ run' \in [Client -> Run] /\ run'[cl].todo = run[cl].todo
       /\ \A o \in Client \ {cl} :
            run'[o] = run[o] /\ call'[o] = call[o] /\ reminding'[o] = reminding[o]
  BY <1>4, <1>7 DEF AgentInv
<1>13. QED
  BY <1>1, <1>2, <1>10, <1>11, <1>12, ToolGoesOn

\* What add_memory tells the LLM is so, wherever it has put the text.
LEMMA WrittenIsTruthful ==
  ASSUME AgentInv, NEW cl \in Client, NEW c, c = Asking(cl),
         Reinforce(cl) \/ Update(cl) \/ Link(cl), Grows
  PROVE  /\ call[cl].id \in Id
         /\ \A outcome : outcome = Memory(call[cl].id) => Truthful(c, outcome)'
<1>1. PICK i : i = call[cl].id
  OBVIOUS
<1>2. CallsOK /\ ItemsOK
  BY DEF AgentInv, AddInv, CoreInv
<1>3. call[cl].at \in {"reinforce", "update", "link"}
  BY DEF Reinforce, Update, Link
<1>4. c.tool = "add_memory" /\ call[cl].content = c.args.content
  BY <1>3, RunsAsked
<1>5. i \in Id /\ \E n \in DOMAIN items'[i] : Hash[items'[i][n].content] = Hash[c.args.content]
  <2>1. ASSUME Reinforce(cl)
        PROVE  i \in Id /\ \E n \in DOMAIN items'[i] :
                             Hash[items'[i][n].content] = Hash[c.args.content]
    <3>1. Holds(cl) /\ call[cl].at = "reinforce"
      BY <1>2, <2>1 DEF Reinforce, CallsOK, CallOK
    <3>2. i \in Id
      BY <1>1, <3>1 DEF Holds
    <3>3. PICK n \in DOMAIN items[i] : items[i][n] = call[cl].base
      BY <1>1, <3>1 DEF Holds
    <3>4. Hash[items[i][n].content] = Hash[c.args.content]
      BY <1>4, <3>1, <3>3 DEF Holds
    <3>5. n \in DOMAIN items'[i] /\ items'[i][n] = items[i][n]
      BY <3>2, <3>3 DEF Grows
    <3>6. QED
      BY Zenon, <3>2, <3>4, <3>5
  <2>2. ASSUME Update(cl)
        PROVE  i \in Id /\ \E n \in DOMAIN items'[i] :
                             Hash[items'[i][n].content] = Hash[c.args.content]
    <3>1. PICK b, u, t : b = call[cl].base /\ u = call[cl].user /\ t = call[cl].content
      OBVIOUS
    <3>2. Holds(cl) /\ t \in Content /\ u \in Owner
      BY <1>2, <2>2, <3>1 DEF Update, CallsOK, CallOK, Call
    <3>3. i \in Id /\ b \in Version
      BY <1>1, <1>2, <3>1, <3>2 DEF Holds, ItemsOK
    <3>4. PICK v : v = Updated(b, t, u)
      OBVIOUS
    <3>5. v \in Version /\ v.content = t
      BY <3>2, <3>3, <3>4, UpdatedVersion
    <3>6. PutMemory(i, v)
      BY Zenon, <1>1, <2>2, <3>1, <3>4 DEF Update, Updated
    <3>7. /\ Len(items[i]) + 1 \in DOMAIN items'[i]
          /\ items'[i][Len(items[i]) + 1] = v
      BY <1>2, <3>3, <3>5, <3>6, PutMemoryAdds
    <3>8. v.content = c.args.content
      BY <1>4, <3>1, <3>5
    <3>9. QED
      BY Zenon, <3>3, <3>7, <3>8
  <2>3. ASSUME Link(cl)
        PROVE  i \in Id /\ \E n \in DOMAIN items'[i] :
                             Hash[items'[i][n].content] = Hash[c.args.content]
    <3>1. i \in Id /\ 1 \in DOMAIN items[i] /\ items[i][1].content = c.args.content
      BY <1>1, <1>2, <1>4, <2>3 DEF Link, CallsOK, CallOK
    <3>2. 1 \in DOMAIN items'[i] /\ items'[i][1] = items[i][1]
      BY <3>1 DEF Grows
    <3>3. QED
      BY Zenon, <3>1, <3>2
  <2>4. QED
    BY <2>1, <2>2, <2>3
<1>6. ASSUME NEW outcome, outcome = Memory(i) PROVE Truthful(c, outcome)'
  BY Zenon, <1>4, <1>5, <1>6 DEF Truthful
<1>7. QED
  BY <1>1, <1>5, <1>6

\* A call of add_memory returns, with an id or an error.
LEMMA AddMemoryReturnsKeeps ==
  ASSUME AgentInv, NEW cl \in Client, AddMemoryReturns(cl)
  PROVE  AgentInv'
<1>1. /\ run[cl].at = "tool" /\ UNCHANGED reminderVars
      /\ \/ (Reinforce(cl) \/ Update(cl) \/ Link(cl)) /\ Finish(cl, Memory(call[cl].id))
         \/ Fail(cl) /\ Finish(cl, Error)
  BY DEF AddMemoryReturns, At
<1>2. StoresGoOn
  BY <1>1, AddStepsGoOn DEF AddSteps
<1>3. Return(cl) /\ call[cl].at # "idle"
  BY <1>1 DEF Reinforce, Update, Link, Fail, Idle
<1>4. call'[cl].at = "idle" /\ \A o \in Client \ {cl} : call'[o] = call[o]
  BY <1>3, ReturnOnlyMe DEF AgentInv, AddInv, CoreInv
<1>5. PICK c : c = Asking(cl)
  OBVIOUS
<1>6. reminding' = reminding /\ reminding[cl] = 0
  BY <1>1, <1>3, <1>5, RunsAsked DEF reminderVars
<1>7. \A o \in Client \ {cl} : call'[o] = call[o] /\ reminding'[o] = reminding[o]
  BY <1>4, <1>6
<1>8. \E outcome \in Outcome : Finish(cl, outcome) /\ Truthful(c, outcome)'
  <2>1. ASSUME Reinforce(cl) \/ Update(cl) \/ Link(cl), Finish(cl, Memory(call[cl].id))
        PROVE  \E outcome \in Outcome : Finish(cl, outcome) /\ Truthful(c, outcome)'
    <3>1. PICK outcome : outcome = Memory(call[cl].id)
      OBVIOUS
    <3>2. call[cl].id \in Id /\ Truthful(c, outcome)'
      BY <1>2, <1>5, <2>1, <3>1, WrittenIsTruthful DEF StoresGoOn
    <3>3. outcome \in Outcome
      BY Zenon, <3>1, <3>2 DEF Outcome
    <3>4. Finish(cl, outcome)
      BY Zenon, <2>1, <3>1
    <3>5. QED
      BY Zenon, <3>2, <3>3, <3>4
  <2>2. ASSUME Finish(cl, Error)
        PROVE  \E outcome \in Outcome : Finish(cl, outcome) /\ Truthful(c, outcome)'
    BY Zenon, <2>2 DEF Truthful, Outcome
  <2>3. QED
    BY Zenon, <1>1, <2>1, <2>2
<1>9. PICK outcome \in Outcome : Finish(cl, outcome) /\ Truthful(c, outcome)'
  BY Zenon, <1>8
<1>10. QED
  BY <1>1, <1>2, <1>4, <1>5, <1>6, <1>7, <1>9, FinishKeeps

\* A call of add_reminder writes its row.
LEMMA CallAddReminderKeeps ==
  ASSUME AgentInv, NEW cl \in Client, CallAddReminder(cl)
  PROVE  AgentInv'
<1>1. PICK c : c = Asking(cl)
  OBVIOUS
<1>2. /\ At(cl, "execute") /\ c.tool = "add_reminder" /\ c.args # NoArgs
      /\ StartReminder(cl, c.args.content, c.args.type, c.args.condition, c.args.user)
      /\ Begin(cl)
  BY Zenon, <1>1 DEF CallAddReminder
<1>3. run[cl].at = "execute"
  BY <1>2 DEF At
<1>4. PICK a \in ReminderArgs : a = c.args
  BY <1>1, <1>2, <1>3, ArgumentsGiven
<1>5. StartReminder(cl, a.content, a.type, a.condition, a.user)
  BY Zenon, <1>2, <1>4
<1>6. PICK k : k = Len(reminders) + 1
  OBVIOUS
<1>7. /\ RemindersOK' /\ RemindersGrow /\ reminding'[cl] = k
      /\ reminders'[k].content = a.content /\ reminders'[k].user = a.user
  BY <1>5, <1>6, StartReminderKeeps DEF AgentInv, RemindersOK
<1>8. /\ UNCHANGED vars
      /\ \A o \in Client \ {cl} : reminding'[o] = reminding[o]
  BY <1>5 DEF StartReminder, AgentInv, ReminderTypeOK
<1>9. UNCHANGED <<items, edges, call, overlapped>>
  BY <1>8 DEF vars, storeVars
<1>10. CoreInv' /\ Grows
  BY <1>9, StillKeepsInv DEF AgentInv, AddInv
<1>11. StoresGoOn
  BY <1>7, <1>9, <1>10, GrowthKeepsLinks DEF AgentInv, AddInv, StoresGoOn
<1>12. /\ UNCHANGED <<trace, runs>> /\ trace'[cl] = trace[cl]
       /\ run' \in [Client -> Run] /\ run'[cl].todo = run[cl].todo /\ run'[cl].at = "tool"
       /\ \A o \in Client \ {cl} : run'[o] = run[o]
       /\ RoundsOK(cl)'
  BY <1>2, <1>3, BeginMoves
<1>13. Asking(cl)' = c
  BY <1>1, <1>12, SameAsking
<1>14. call'[cl].at = "idle"
  BY <1>2, <1>3, <1>9, Between DEF At
<1>15. DoesAsked(cl)'
  BY Zenon, <1>2, <1>4, <1>7, <1>12, <1>13, <1>14 DEF DoesAsked, At, Idle
<1>16. \A o \in Client \ {cl} :
         run'[o] = run[o] /\ call'[o] = call[o] /\ reminding'[o] = reminding[o]
  BY <1>8, <1>9, <1>12
<1>17. QED
  BY <1>11, <1>12, <1>15, <1>16, ToolGoesOn

\* The memory of a reminder is a new one.
LEMMA RememberReminderWrites ==
  ASSUME AgentInv, NEW cl \in Client, RememberReminder(cl)
  PROVE  /\ StoresGoOn
         /\ reminding[cl] \in DOMAIN reminders /\ reminders' = reminders
         /\ \E i \in Id :
              /\ 1 \in DOMAIN items'[i]
              /\ items'[i][1].content = MemoryText(reminding[cl])
<1>1. PICK k : k = reminding[cl]
  OBVIOUS
<1>2. /\ reminding' = [reminding EXCEPT ![cl] = 0] /\ k # 0
      /\ UNCHANGED <<edges, call, overlapped, reminders, now, shown>>
  BY <1>1 DEF RememberReminder
<1>3. k \in DOMAIN reminders
  <2>1. k \in 0 .. Len(reminders)
    BY <1>1 DEF AgentInv, ReminderTypeOK
  <2>2. DOMAIN reminders = 1 .. Len(reminders) /\ Len(reminders) \in Nat
    BY RemindersTyped DEF AgentInv
  <2>3. QED
    BY <1>2, <2>1, <2>2
<1>4. PICK r : r = reminders[k]
  OBVIOUS
<1>5. r \in ProspectiveItem
  BY <1>3, <1>4, RemindersTyped DEF AgentInv
<1>6. /\ r.content \in Content /\ r.type \in TriggerType /\ r.condition \in Condition
      /\ r.user \in Owner
  BY <1>5 DEF ProspectiveItem
<1>7. PICK t \in Content : t = MemoryText(k)
  BY <1>4, <1>6, ReminderAssumption DEF MemoryText
<1>8. PICK v : v = NewVersion(t, r.user)
  OBVIOUS
<1>9. v \in Version /\ v.content = t /\ v.count = 1
  BY <1>6, <1>8 DEF NewVersion, Version
<1>10. PICK i \in Id : items[i] = <<>> /\ PutMemory(i, v)
  BY Zenon, <1>1, <1>4, <1>7, <1>8 DEF RememberReminder
<1>11. Justified(i, v)
  BY <1>9, <1>10 DEF Justified
<1>12. CoreInv' /\ Grows
  BY <1>2, <1>10, <1>11, OtherWriteKeepsInv DEF AgentInv, AddInv
<1>13. LinksOK'
  BY <1>2, <1>12, GrowthKeepsLinks DEF AgentInv, AddInv
<1>14. reminding' \in [Client -> 0 .. Len(reminders)]
  <2>1. Len(reminders) \in Nat
    BY RemindersTyped DEF AgentInv
  <2>2. QED
    BY <1>2, <2>1 DEF AgentInv, ReminderTypeOK
<1>15. RemindersOK' /\ RemindersGrow
  BY <1>2, <1>14, SameRemindersKeep DEF AgentInv, RemindersOK
<1>16. 1 \in DOMAIN items'[i] /\ items'[i][1] = v
  <2>1. Len(items[i]) = 0
    BY <1>10
  <2>2. /\ DOMAIN items'[i] = 1 .. Len(items[i]) + 1
        /\ items'[i][Len(items[i]) + 1] = v
    BY <1>9, <1>10, PutMemoryAdds DEF AgentInv, AddInv, CoreInv
  <2>3. QED
    BY <2>1, <2>2
<1>17. StoresGoOn
  BY <1>12, <1>13, <1>15 DEF StoresGoOn, AddInv
<1>18. items'[i][1].content = MemoryText(k)
  BY Zenon, <1>4, <1>7, <1>9, <1>16
<1>19. QED
  BY Zenon, <1>1, <1>2, <1>3, <1>16, <1>17, <1>18

\* A call of add_reminder returns, with its memory written or an error.
LEMMA AddReminderReturnsKeeps ==
  ASSUME AgentInv, NEW cl \in Client, AddReminderReturns(cl)
  PROVE  AgentInv'
<1>1. /\ run[cl].at = "tool"
      /\ \/ RememberReminder(cl) /\ Finish(cl, Reminder(reminding[cl]))
         \/ ReminderFails(cl) /\ Finish(cl, Error)
  BY DEF AddReminderReturns, At
<1>2. /\ reminding[cl] # 0 /\ call' = call
      /\ reminding' = [reminding EXCEPT ![cl] = 0]
  BY <1>1 DEF RememberReminder, ReminderFails, vars
<1>3. PICK c : c = Asking(cl)
  OBVIOUS
<1>4. PICK k : k = reminding[cl]
  OBVIOUS
<1>5. /\ call[cl].at = "idle" /\ c.tool = "add_reminder"
      /\ reminders[k].content = c.args.content /\ reminders[k].user = c.args.user
  BY <1>2, <1>3, <1>4, RunsAsked
<1>6. call'[cl].at = "idle" /\ reminding'[cl] = 0
      /\ \A o \in Client \ {cl} : call'[o] = call[o] /\ reminding'[o] = reminding[o]
  BY <1>2, <1>5 DEF AgentInv, ReminderTypeOK
<1>7. StoresGoOn /\ \E outcome \in Outcome : Finish(cl, outcome) /\ Truthful(c, outcome)'
  <2>1. ASSUME RememberReminder(cl), Finish(cl, Reminder(reminding[cl]))
        PROVE  StoresGoOn /\ \E outcome \in Outcome : Finish(cl, outcome) /\ Truthful(c, outcome)'
    <3>1. PICK outcome : outcome = Reminder(k)
      OBVIOUS
    <3>2. /\ StoresGoOn /\ k \in DOMAIN reminders /\ reminders' = reminders
          /\ \E i \in Id :
               /\ 1 \in DOMAIN items'[i]
               /\ items'[i][1].content = MemoryText(k)
      BY Zenon, <1>4, <2>1, RememberReminderWrites
    <3>3. Truthful(c, outcome)'
      <4>1. MemoryText(k)' = MemoryText(k)
        BY Zenon, <3>2 DEF MemoryText
      <4>2. QED
        BY Zenon, <1>5, <3>1, <3>2, <4>1 DEF Truthful
    <3>4. k \in Nat
      BY <1>4 DEF AgentInv, ReminderTypeOK
    <3>5. outcome \in Outcome
      BY Zenon, <3>1, <3>4 DEF Outcome
    <3>6. Finish(cl, outcome)
      BY Zenon, <1>4, <2>1, <3>1
    <3>7. QED
      BY Zenon, <3>2, <3>3, <3>5, <3>6
  <2>2. ASSUME ReminderFails(cl), Finish(cl, Error)
        PROVE  StoresGoOn /\ \E outcome \in Outcome : Finish(cl, outcome) /\ Truthful(c, outcome)'
    <3>1. UNCHANGED <<items, edges, call, overlapped, reminders, now, shown>>
      BY <2>2 DEF ReminderFails, vars, storeVars
    <3>2. CoreInv' /\ Grows
      BY <3>1, StillKeepsInv DEF AgentInv, AddInv
    <3>3. LinksOK'
      BY <3>1, <3>2, GrowthKeepsLinks DEF AgentInv, AddInv
    <3>4. reminding' \in [Client -> 0 .. Len(reminders)]
      <4>1. Len(reminders) \in Nat
        BY RemindersTyped DEF AgentInv
      <4>2. QED
        BY <1>2, <4>1 DEF AgentInv, ReminderTypeOK
    <3>5. RemindersOK' /\ RemindersGrow
      BY <3>1, <3>4, SameRemindersKeep DEF AgentInv, RemindersOK
    <3>6. StoresGoOn
      BY <3>2, <3>3, <3>5 DEF StoresGoOn, AddInv
    <3>7. Truthful(c, Error)' /\ Error \in Outcome
      BY Zenon DEF Truthful, Outcome
    <3>8. QED
      BY Zenon, <2>2, <3>6, <3>7
  <2>3. QED
    BY Zenon, <1>1, <2>1, <2>2
<1>8. PICK outcome \in Outcome : Finish(cl, outcome) /\ Truthful(c, outcome)'
  BY Zenon, <1>7
<1>9. QED
  BY <1>1, <1>3, <1>6, <1>7, <1>8, FinishKeeps

-----------------------------------------------------------------------------
(* The application, and all together.                                      *)

\* The application deletes memories, shows and completes reminders.
LEMMA ApplicationKeeps ==
  ASSUME AgentInv, Application
  PROVE  AgentInv'
<1>1. UNCHANGED agentVars
  BY DEF Application
<1>2. ASSUME NEW i \in Id, InvalidateMemory(i),
             UNCHANGED <<edges, call, overlapped, reminderVars>>
      PROVE  AgentInv'
  <2>1. CoreInv' /\ Grows
    BY <1>2, InvalidateKeepsInv DEF AgentInv, AddInv
  <2>2. LinksOK'
    BY <1>2, <2>1, GrowthKeepsLinks DEF AgentInv, AddInv
  <2>3. UNCHANGED <<call, reminders, reminding, now, shown>>
    BY <1>2 DEF reminderVars
  <2>4. reminding' \in [Client -> 0 .. Len(reminders)]
    BY <2>3 DEF AgentInv, ReminderTypeOK
  <2>5. RemindersOK' /\ RemindersGrow
    BY <2>3, <2>4, SameRemindersKeep DEF AgentInv, RemindersOK
  <2>6. StoresGoOn
    BY <2>1, <2>2, <2>5 DEF StoresGoOn, AddInv
  <2>7. QED
    BY <1>1, <2>3, <2>6, NobodyMoves
<1>3. ASSUME RemindersOK', RemindersGrow, UNCHANGED <<vars, reminding>>
      PROVE  AgentInv'
  <2>1. UNCHANGED <<items, edges, call, overlapped>>
    BY <1>3 DEF vars, storeVars
  <2>2. CoreInv' /\ Grows
    BY <2>1, StillKeepsInv DEF AgentInv, AddInv
  <2>3. LinksOK'
    BY <2>1, <2>2, GrowthKeepsLinks DEF AgentInv, AddInv
  <2>4. StoresGoOn
    BY <1>3, <2>2, <2>3 DEF StoresGoOn, AddInv
  <2>5. QED
    BY <1>1, <1>3, <2>1, <2>4, NobodyMoves
<1>4. RemindersOK
  BY DEF AgentInv, RemindersOK
<1>5. ASSUME NEW query, NEW u \in Owner, CheckTriggers(query, u) PROVE AgentInv'
  <2>1. UNCHANGED <<vars, reminding>>
    BY <1>5 DEF CheckTriggers
  <2>2. QED
    BY <1>3, <1>4, <1>5, <2>1, CheckTriggersKeeps
<1>6. ASSUME NEW k \in DOMAIN reminders, Complete(k) PROVE AgentInv'
  <2>1. UNCHANGED <<vars, reminding>>
    BY <1>6 DEF Complete
  <2>2. QED
    BY <1>3, <1>4, <1>6, <2>1, CompleteKeeps
<1>7. ASSUME Tick PROVE AgentInv'
  <2>1. UNCHANGED <<vars, reminding>>
    BY <1>7 DEF Tick
  <2>2. QED
    BY <1>3, <1>4, <1>7, <2>1, TickKeeps
<1>8. QED
  BY Zenon, <1>2, <1>5, <1>6, <1>7 DEF Application

\* The invariant holds after every step.
LEMMA StepKeepsAgent == AgentInv /\ [AgentNext]_allVars => AgentInv'
<1>1. SUFFICES ASSUME AgentInv, [AgentNext]_allVars PROVE AgentInv'
  OBVIOUS
<1>2. ASSUME NEW cl \in Client, StartRun(cl) \/ Continue(cl) PROVE AgentInv'
  <2>1. CASE StartRun(cl)
    BY <1>1, <2>1, StartRunKeeps
  <2>2. CASE Answer(cl)
    BY <1>1, <2>2, AnswerKeeps
  <2>3. CASE LastAnswer(cl)
    BY <1>1, <2>3, LastAnswerKeeps
  <2>4. CASE RequestFails(cl)
    BY <1>1, <2>4, RequestFailsKeeps
  <2>5. CASE CallFails(cl)
    BY <1>1, <2>5, CallFailsKeeps
  <2>6. CASE CallAddMemory(cl)
    BY <1>1, <2>6, CallAddMemoryKeeps
  <2>7. CASE AddMemoryGoesOn(cl)
    BY <1>1, <2>7, AddMemoryGoesOnKeeps
  <2>8. CASE AddMemoryReturns(cl)
    BY <1>1, <2>8, AddMemoryReturnsKeeps
  <2>9. CASE CallAddReminder(cl)
    BY <1>1, <2>9, CallAddReminderKeeps
  <2>10. CASE AddReminderReturns(cl)
    BY <1>1, <2>10, AddReminderReturnsKeeps
  <2>11. QED
    BY Zenon, <1>2, <2>1, <2>2, <2>3, <2>4, <2>5, <2>6, <2>7, <2>8, <2>9, <2>10 DEF Continue
<1>3. CASE Application
  BY <1>1, <1>3, ApplicationKeeps
<1>4. CASE UNCHANGED allVars
  <2>1. UNCHANGED <<vars, reminderVars>> /\ UNCHANGED <<call, reminding, agentVars>>
    BY <1>4 DEF allVars, vars, reminderVars
  <2>2. QED
    BY <1>1, <2>1, QuietStores, NobodyMoves
<1>5. QED
  BY Zenon, <1>1, <1>2, <1>3, <1>4 DEF AgentNext

\* The invariant holds initially.
LEMMA InitIsOK == AgentInit => AgentInv
<1>1. SUFFICES ASSUME AgentInit PROVE AgentInv
  OBVIOUS
<1>2. AddInv
  BY <1>1, InitInv DEF AgentInit
<1>3. ReminderTypeOK /\ ShownRightly /\ reminding = [cl \in Client |-> 0]
  <2>1. reminders = <<>> /\ reminding = [cl \in Client |-> 0] /\ now = 0 /\ shown = {}
    BY <1>1 DEF AgentInit, ReminderInit
  <2>2. reminders \in Seq(ProspectiveItem) /\ Len(reminders) = 0
    BY <2>1
  <2>3. reminding \in [Client -> 0 .. Len(reminders)]
    BY <2>1, <2>2
  <2>4. QED
    BY <2>1, <2>2, <2>3 DEF ReminderTypeOK, ShownRightly
<1>4. /\ run = [cl \in Client |-> NoRun] /\ runs = [cl \in Client |-> 0]
      /\ call = [cl \in Client |-> NoCall]
  BY <1>1 DEF AgentInit, Init
<1>5. PICK m : m = [role |-> "system", text |-> "instructions", id |-> 0, calls |-> <<>>]
  OBVIOUS
<1>6. m \in Said /\ m.role = "system" /\ m.calls = <<>>
  <2>1. "instructions" \in Texts /\ <<>> \in Seq(Issued)
    BY DEF Texts
  <2>2. QED
    BY <1>5, <2>1 DEF Said, Message
<1>7. PICK ms : ms = <<m>>
  OBVIOUS
<1>8. trace = [cl \in Client |-> ms]
  BY <1>1, <1>5, <1>7 DEF AgentInit, SystemMessage, Plain
<1>9. ms \in Seq(Said) /\ Len(ms) = 1 /\ DOMAIN ms = {1} /\ ms[1] = m
  BY <1>6, <1>7
<1>10. TraceOK(ms, 0)
  <2>1. OneSystem(ms)
    BY <1>6, <1>9 DEF OneSystem
  <2>2. OnlyModelCalls(ms) /\ CallsAnswered(ms, 0)
    BY <1>6, <1>9 DEF OnlyModelCalls, CallsAnswered
  <2>3. ResultsAsked(ms)
    BY <1>6, <1>9 DEF ResultsAsked, IsResult
  <2>4. Asked(ms) = {}
    BY <1>6, <1>9 DEF Asked
  <2>5. Numbered(ms)
    BY <1>6, <1>9, <2>4, FS_EmptySet DEF Numbered
  <2>6. QED
    BY <1>9, <2>1, <2>2, <2>3, <2>5 DEF TraceOK
<1>11. AllTruthful(ms)
  BY <1>6, <1>9 DEF AllTruthful
<1>12. ASSUME NEW cl \in Client PROVE ClientOK(cl)
  <2>1. run[cl] = NoRun /\ runs[cl] = 0 /\ trace[cl] = ms /\ reminding[cl] = 0 /\ Idle(cl)
    BY <1>3, <1>4, <1>8 DEF Idle, NoCall
  <2>2. RoundsOK(cl)
    BY <2>1, NoRunOK, AgentAssumption DEF RoundsOK
  <2>3. TraceOK(trace[cl], run[cl].todo)
    BY Zenon, <1>10, <2>1, NoRunOK
  <2>4. AllTruthful(trace[cl])
    BY Zenon, <1>11, <2>1
  <2>5. DoesAsked(cl)
    BY <2>1 DEF DoesAsked
  <2>6. QED
    BY Zenon, <2>2, <2>3, <2>4, <2>5 DEF ClientOK
<1>13. run \in [Client -> Run] /\ runs \in [Client -> Nat] /\ DOMAIN trace = Client
  BY <1>4, <1>8, NoRunOK
<1>14. QED
  BY <1>2, <1>3, <1>12, <1>13 DEF AgentInv

\* What is known of every run, its trace and the stores its tools write, in every state.
THEOREM AgentInvHolds == AgentSpec => []AgentInv
  BY InitIsOK, StepKeepsAgent, PTL DEF AgentSpec

-----------------------------------------------------------------------------
\* Every variable of the tool loop has its type, and no client exceeds its rounds.
THEOREM AgentTypesHold == AgentSpec => []AgentTypeOK
<1>1. ASSUME AgentInv PROVE AgentTypeOK
  <2>1. TypeOK
    BY <1>1 DEF AgentInv, AddInv, CoreInv, ItemsOK, Counted, CallsOK, LinksOK, TypeOK
  <2>2. \A cl \in Client : run[cl].round <= MaxRounds /\ runs[cl] <= MaxRuns
    BY <1>1 DEF AgentInv, ClientOK, RoundsOK
  <2>3. QED
    BY <1>1, <2>1, <2>2 DEF AgentInv, AgentTypeOK
<1>2. QED
  BY <1>1, AgentInvHolds, PTL

\* However runs, checks and completions interleave, check_triggers shows a reminder to
\* its user or in a check for nobody in particular, and none before its time.
THEOREM RemindersShownRightly == AgentSpec => []ShownRightly
<1>1. AgentInv => ShownRightly
  BY DEF AgentInv
<1>2. QED
  BY <1>1, AgentInvHolds, PTL

\* Whatever the LLMs answer, whatever fails and however many runs there are, a trace
\* that is about to be sent, or may be continued, has each call with its one result in
\* its place, in every format.
THEOREM RequestsStayPaired == AgentSpec => []RequestsPaired
<1>1. ASSUME AgentInv PROVE RequestsPaired
  <2>1. SUFFICES ASSUME NEW cl \in Client, NEW p \in Provider,
                        run[cl].at \in {"idle", "ask", "last"}
                 PROVE  Paired(p, Request(p, trace[cl], At(cl, "ask")).contents)
    BY DEF RequestsPaired
  <2>2. PICK ms, tools : ms = trace[cl] /\ tools = At(cl, "ask")
    OBVIOUS
  <2>3. TraceOK(ms, 0)
    BY Zenon, <1>1, <2>1, <2>2, NothingOpen
  <2>4. /\ ms \in Seq(Message(Texts, Issued)) /\ OneSystem(ms) /\ OnlyModelCalls(ms)
        /\ CallsAnswered(ms, 0) /\ ResultsAsked(ms)
    BY Zenon, <2>3 DEF TraceOK, Said
  <2>5. Paired(p, Request(p, ms, tools).contents)
    BY Zenon, <2>4, RequestsArePaired
  <2>6. QED
    BY Zenon, <2>2, <2>5
<1>2. QED
  BY <1>1, AgentInvHolds, PTL

\* No two calls of a trace have one id.
LEMMA NumbersDiffer ==
  ASSUME NEW ms, Numbered(ms),
         NEW k \in DOMAIN ms, NEW j \in DOMAIN ms[k].calls,
         NEW l \in DOMAIN ms, NEW i \in DOMAIN ms[l].calls,
         ms[l].calls[i].id = ms[k].calls[j].id
  PROVE  l = k /\ i = j
  BY DEF Numbered

\* A result stands behind its call, and no other call has its id.
LEMMA ResultOfCall ==
  ASSUME NEW ms, NEW todo, TraceOK(ms, todo),
         NEW k \in DOMAIN ms, NEW j \in DOMAIN ms[k].calls,
         NEW n \in DOMAIN ms, IsResult(ms[n]), ms[n].id = ms[k].calls[j].id
  PROVE  k + j \in DOMAIN ms /\ k + j = n
<1>1. PICK len \in Nat : len = Len(ms) /\ DOMAIN ms = 1 .. len
  BY DEF TraceOK
<1>2. PICK l \in 1 .. n - 1 : n - l \in DOMAIN ms[l].calls
  BY DEF TraceOK, ResultsAsked
<1>3. l \in DOMAIN ms /\ l + (n - l) = n /\ n <= Len(ms)
  BY <1>1, <1>2
<1>4. PICK i : i = n - l
  OBVIOUS
<1>5. i \in DOMAIN ms[l].calls /\ l + i = n
  BY <1>2, <1>3, <1>4
<1>6. ms[l + i].id = ms[l].calls[i].id
  BY <1>3, <1>5 DEF TraceOK, CallsAnswered
<1>7. ms[l].calls[i].id = ms[k].calls[j].id
  BY Zenon, <1>5, <1>6
<1>8. l = k /\ i = j
  <2>1. Numbered(ms)
    BY DEF TraceOK
  <2>2. QED
    BY Zenon, <1>3, <1>5, <1>7, <2>1, NumbersDiffer
<1>9. QED
  BY Zenon, <1>5, <1>8

\* Whatever other clients and applications do in between, what a result tells the LLM
\* was so when it was told and stays so.
THEOREM ResultsStayTrue == AgentSpec => []ResultsTrue
<1>1. ASSUME AgentInv PROVE ResultsTrue
  <2>1. SUFFICES ASSUME NEW cl \in Client, NEW o \in Outcomes(trace[cl]), o[2] # Error
                 PROVE  IF o[1].tool = "add_memory"
                        THEN \E n \in DOMAIN items[o[2][2]] :
                               Hash[items[o[2][2]][n].content] = Hash[o[1].args.content]
                        ELSE LET r == reminders[o[2][2]]
                             IN  /\ r.content = o[1].args.content /\ r.user = o[1].args.user
                                 /\ \E i \in ReminderMemories :
                                      items[i][1].content = MemoryText(o[2][2])
    BY Zenon DEF ResultsTrue
  <2>2. PICK ms, todo : ms = trace[cl] /\ todo = run[cl].todo
    OBVIOUS
  <2>3. TraceOK(ms, todo) /\ AllTruthful(ms)
    BY Zenon, <1>1, <2>2 DEF AgentInv, ClientOK
  <2>4. o \in Outcomes(ms)
    BY Zenon, <2>1, <2>2
  <2>5. PICK c \in Calls(ms) : \E n \in DOMAIN ms : /\ IsResult(ms[n]) /\ ms[n].id = c.id
                                                    /\ o = <<c, ms[n].text>>
    BY <2>4 DEF Outcomes
  <2>6. PICK n \in DOMAIN ms : IsResult(ms[n]) /\ ms[n].id = c.id /\ o = <<c, ms[n].text>>
    BY <2>5
  <2>7. PICK k \in DOMAIN ms : \E j \in DOMAIN ms[k].calls : c = ms[k].calls[j]
    BY <2>5 DEF Calls
  <2>8. PICK j \in DOMAIN ms[k].calls : c = ms[k].calls[j]
    BY <2>7
  <2>9. k + j \in DOMAIN ms /\ k + j = n
    BY Zenon, <2>3, <2>6, <2>8, ResultOfCall
  <2>10. Truthful(ms[k].calls[j], ms[k + j].text)
    BY Zenon, <2>3, <2>9 DEF AllTruthful
  <2>11. PICK outcome : outcome = ms[n].text
    OBVIOUS
  <2>12. Truthful(c, outcome) /\ o[1] = c /\ o[2] = outcome
    BY <2>6, <2>8, <2>9, <2>10, <2>11
  <2>13. CASE /\ c.tool = "add_memory"
              /\ \E i \in Id : /\ outcome = Memory(i)
                               /\ \E l \in DOMAIN items[i] :
                                    Hash[items[i][l].content] = Hash[c.args.content]
    <3>1. PICK i \in Id : /\ outcome = Memory(i)
                          /\ \E l \in DOMAIN items[i] :
                               Hash[items[i][l].content] = Hash[c.args.content]
      BY <2>13
    <3>2. outcome[2] = i
      BY <3>1 DEF Memory
    <3>3. o[2][2] = i
      BY <2>12, <3>2
    <3>4. QED
      BY Zenon, <2>12, <2>13, <3>1, <3>3
  <2>14. CASE /\ c.tool = "add_reminder"
              /\ \E h \in DOMAIN reminders :
                   /\ outcome = Reminder(h)
                   /\ reminders[h].content = c.args.content /\ reminders[h].user = c.args.user
                   /\ \E i \in Id : /\ 1 \in DOMAIN items[i]
                                    /\ items[i][1].content = MemoryText(h)
    <3>1. PICK h \in DOMAIN reminders :
            /\ outcome = Reminder(h)
            /\ reminders[h].content = c.args.content /\ reminders[h].user = c.args.user
            /\ \E i \in Id : /\ 1 \in DOMAIN items[i]
                             /\ items[i][1].content = MemoryText(h)
      BY <2>14
    <3>2. PICK i \in Id : /\ 1 \in DOMAIN items[i]
                          /\ items[i][1].content = MemoryText(h)
      BY <3>1
    <3>3. o[2][2] = h
      <4>1. outcome[2] = h
        BY <3>1 DEF Reminder
      <4>2. QED
        BY <2>12, <4>1
    <3>4. items[i] # <<>>
      BY <3>2
    <3>5. i \in ReminderMemories
      BY <3>1, <3>2, <3>4 DEF ReminderMemories, ReminderTexts
    <3>6. c.tool # "add_memory"
      BY <2>14
    <3>7. QED
      BY Zenon, <2>12, <3>1, <3>2, <3>3, <3>5, <3>6
  <2>15. QED
    BY Zenon, <2>1, <2>12, <2>13, <2>14 DEF Truthful
<1>2. QED
  BY <1>1, AgentInvHolds, PTL

\* What add_memory keeps of the store, it keeps beside the loops, the reminders and the
\* deletions that write to the same store.
THEOREM StoreStaysRight ==
  AgentSpec => [](OneOwner /\ CountBounded /\ DriftBySimilarity /\ LinksStayWithUser)
<1>1. AgentInv => OneOwner /\ CountBounded /\ DriftBySimilarity /\ LinksStayWithUser
  BY DEF AgentInv, AddInv, CoreInv, HistoryOK, LinksOK
<1>2. QED
  BY <1>1, AgentInvHolds, PTL

-----------------------------------------------------------------------------
(* Reminders and their memories.                                           *)

\* o is call j of message k with its result
OutcomeAt(ms, k, j, o) ==
  /\ k \in DOMAIN ms /\ j \in DOMAIN ms[k].calls
  /\ k + j \in DOMAIN ms /\ IsResult(ms[k + j])
  /\ ms[k + j].id = ms[k].calls[j].id
  /\ o = <<ms[k].calls[j], ms[k + j].text>>

\* The outcomes of a trace, place by place.
LEMMA OutcomesAre ==
  ASSUME NEW ms, NEW todo, TraceOK(ms, todo)
  PROVE  \A o : o \in Outcomes(ms) <=> \E k, j : OutcomeAt(ms, k, j, o)
<1>1. ASSUME NEW o \in Outcomes(ms)
      PROVE  \E k, j : OutcomeAt(ms, k, j, o)
  <2>1. PICK c \in Calls(ms) : \E n \in DOMAIN ms : /\ IsResult(ms[n]) /\ ms[n].id = c.id
                                                    /\ o = <<c, ms[n].text>>
    BY DEF Outcomes
  <2>2. PICK n \in DOMAIN ms : IsResult(ms[n]) /\ ms[n].id = c.id /\ o = <<c, ms[n].text>>
    BY <2>1
  <2>3. PICK k \in DOMAIN ms : \E j \in DOMAIN ms[k].calls : c = ms[k].calls[j]
    BY <2>1 DEF Calls
  <2>4. PICK j \in DOMAIN ms[k].calls : c = ms[k].calls[j]
    BY <2>3
  <2>5. ms[n].id = ms[k].calls[j].id
    BY Zenon, <2>2, <2>4
  <2>6. k + j \in DOMAIN ms /\ k + j = n
    BY Zenon, <2>2, <2>5, ResultOfCall
  <2>7. QED
    BY Zenon, <2>2, <2>4, <2>5, <2>6 DEF OutcomeAt
<1>2. ASSUME NEW o, NEW k, NEW j, OutcomeAt(ms, k, j, o)
      PROVE  o \in Outcomes(ms)
  <2>1. PICK n \in DOMAIN ms : n = k + j
    BY <1>2 DEF OutcomeAt
  <2>2. PICK c : c = ms[k].calls[j]
    OBVIOUS
  <2>3. c \in Calls(ms)
    BY <1>2, <2>2 DEF Calls, OutcomeAt
  <2>4. IsResult(ms[n]) /\ ms[n].id = c.id /\ o = <<c, ms[n].text>>
    BY Zenon, <1>2, <2>1, <2>2 DEF OutcomeAt
  <2>5. QED
    BY <2>3, <2>4 DEF Outcomes
<1>3. QED
  BY <1>1, <1>2

\* An outcome is one of every longer trace.
LEMMA StillOutcome ==
  ASSUME NEW ms, NEW todo, TraceOK(ms, todo), NEW t, NEW left, TraceOK(t, left),
         \A n \in DOMAIN ms : n \in DOMAIN t /\ t[n] = ms[n],
         NEW o \in Outcomes(ms)
  PROVE  o \in Outcomes(t)
<1>1. PICK k, j : OutcomeAt(ms, k, j, o)
  BY Zenon, OutcomesAre
<1>2. OutcomeAt(t, k, j, o)
  BY Zenon, <1>1 DEF OutcomeAt
<1>3. QED
  BY Zenon, <1>2, OutcomesAre

\* What is said besides results brings no outcome.
LEMMA SaidHasNoOutcome ==
  ASSUME NEW ms, NEW todo, TraceOK(ms, todo), NEW m \in Said, ~IsResult(m),
         NEW t, t = Append(ms, m), NEW left, TraceOK(t, left)
  PROVE  Outcomes(t) = Outcomes(ms)
<1>1. PICK len \in Nat : len = Len(ms) /\ DOMAIN ms = 1 .. len /\ ms \in Seq(Said)
  BY DEF TraceOK
<1>2. /\ t \in Seq(Said) /\ DOMAIN t = 1 .. len + 1
      /\ \A k \in 1 .. len : t[k] = ms[k]
      /\ t[len + 1] = m
  BY <1>1, Appended
<1>3. ASSUME NEW o \in Outcomes(t) PROVE o \in Outcomes(ms)
  <2>1. PICK k, j : OutcomeAt(t, k, j, o)
    BY Zenon, <1>3, OutcomesAre
  <2>2. /\ k \in DOMAIN t /\ j \in DOMAIN t[k].calls
        /\ k + j \in DOMAIN t /\ IsResult(t[k + j])
    BY <2>1 DEF OutcomeAt
  <2>3. j \in Nat /\ j >= 1
    <3>1. t[k] \in Said
      BY <1>2, <2>2
    <3>2. QED
      BY <2>2, <3>1, CallsOfSaid
  <2>4. k + j # len + 1
    BY <1>2, <2>2
  <2>5. k \in 1 .. len /\ k + j \in 1 .. len
    BY <1>2, <2>2, <2>3, <2>4
  <2>6. t[k] = ms[k] /\ t[k + j] = ms[k + j]
    BY <1>2, <2>5
  <2>7. k \in DOMAIN ms /\ k + j \in DOMAIN ms
    BY <1>1, <2>5
  <2>8. OutcomeAt(ms, k, j, o)
    BY Zenon, <2>1, <2>6, <2>7 DEF OutcomeAt
  <2>9. QED
    BY Zenon, <2>8, OutcomesAre
<1>4. ASSUME NEW o \in Outcomes(ms) PROVE o \in Outcomes(t)
  <2>1. \A n \in DOMAIN ms : n \in DOMAIN t /\ t[n] = ms[n]
    BY <1>1, <1>2
  <2>2. QED
    BY Zenon, <1>4, <2>1, StillOutcome
<1>5. QED
  BY <1>3, <1>4

\* t is ms with the result of c, its first open call
Answered(t, ms, todo, c, outcome) ==
  c = FirstOpen(ms, todo) /\ t = Append(ms, ToolResult(c.id, outcome))

\* A result is the one outcome of its call, and the only one it adds.
LEMMA ResultIsOutcome ==
  ASSUME NEW ms, NEW todo \in Nat, todo > 0, TraceOK(ms, todo), NEW outcome \in Outcome,
         NEW c, NEW t, Answered(t, ms, todo, c, outcome), NEW left, TraceOK(t, left)
  PROVE  /\ Outcomes(t) = Outcomes(ms) \cup {<<c, outcome>>}
         /\ \A x : <<c, x>> \notin Outcomes(ms)
<1>1. PICK len \in Nat : len = Len(ms) /\ DOMAIN ms = 1 .. len /\ ms \in Seq(Said)
  BY DEF TraceOK
<1>2. PICK k, j : FirstAt(ms, todo, k, j)
  BY NextAsked
<1>3. PICK m : m = ToolResult(c.id, outcome)
  OBVIOUS
<1>4. /\ k \in 1 .. len /\ j \in DOMAIN ms[k].calls /\ c = ms[k].calls[j] /\ c \in Issued
      /\ k + j = len + 1
      /\ \A l \in 1 .. len : \A i \in DOMAIN ms[l].calls : l + i > len => l = k
  BY <1>1, <1>2 DEF FirstAt, Answered
<1>5. m \in Said /\ m.calls = <<>> /\ IsResult(m) /\ m.id = c.id /\ m.text = outcome
  <2>1. c.id \in Nat
    BY <1>4 DEF Issued
  <2>2. m = [role |-> "tool_result", text |-> outcome, id |-> c.id, calls |-> <<>>]
    BY <1>3 DEF ToolResult, Plain
  <2>3. m \in Said
    BY <1>3, <2>1, ResultSaid
  <2>4. QED
    BY <2>2, <2>3 DEF IsResult
<1>6. /\ t \in Seq(Said) /\ DOMAIN t = 1 .. len + 1
      /\ \A n \in 1 .. len : t[n] = ms[n]
      /\ t[len + 1] = m
  BY <1>3, <1>1, <1>5, Appended DEF Answered
<1>7. \A n \in DOMAIN ms : n \in DOMAIN t /\ t[n] = ms[n]
  BY <1>1, <1>6
<1>8. ASSUME NEW o \in Outcomes(t) PROVE o \in Outcomes(ms) \cup {<<c, outcome>>}
  <2>1. PICK l, i : OutcomeAt(t, l, i, o)
    BY Zenon, <1>8, OutcomesAre
  <2>2. /\ l \in DOMAIN t /\ i \in DOMAIN t[l].calls
        /\ l + i \in DOMAIN t /\ o = <<t[l].calls[i], t[l + i].text>>
    BY <2>1 DEF OutcomeAt
  <2>3. i \in Nat /\ i >= 1
    <3>1. t[l] \in Said
      BY <1>6, <2>2
    <3>2. QED
      BY <2>2, <3>1, CallsOfSaid
  <2>4. l \in 1 .. len /\ t[l] = ms[l]
    BY <1>5, <1>6, <2>2
  <2>5. CASE l + i \in 1 .. len
    <3>1. t[l + i] = ms[l + i] /\ l \in DOMAIN ms /\ l + i \in DOMAIN ms
      BY <1>1, <1>6, <2>4, <2>5
    <3>2. OutcomeAt(ms, l, i, o)
      BY Zenon, <2>1, <2>4, <3>1 DEF OutcomeAt
    <3>3. QED
      BY Zenon, <3>2, OutcomesAre
  <2>6. CASE l + i = len + 1
    <3>1. l = k
      BY <1>4, <2>2, <2>4, <2>6
    <3>2. j \in Nat
      BY <1>1, <1>4, CallsOfSaid
    <3>3. i = j
      BY <1>4, <2>3, <2>6, <3>1, <3>2
    <3>4. t[l].calls[i] = c /\ t[l + i] = m
      BY <1>4, <1>6, <2>4, <2>6, <3>1, <3>3
    <3>5. o = <<c, outcome>>
      BY <1>5, <2>2, <3>4
    <3>6. QED
      BY <3>5
  <2>7. l + i \in 1 .. len \/ l + i = len + 1
    BY <1>1, <1>6, <2>2, <2>3, <2>4
  <2>8. QED
    BY <2>5, <2>6, <2>7
<1>9. ASSUME NEW o \in Outcomes(ms) PROVE o \in Outcomes(t)
  BY Zenon, <1>7, <1>9, StillOutcome
<1>10. <<c, outcome>> \in Outcomes(t)
  <2>1. k \in DOMAIN t /\ t[k] = ms[k] /\ k + j \in DOMAIN t /\ t[k + j] = m
    BY <1>1, <1>4, <1>6, <1>7
  <2>2. j \in DOMAIN t[k].calls /\ t[k].calls[j] = c
    BY Zenon, <1>4, <2>1
  <2>3. IsResult(t[k + j]) /\ t[k + j].id = t[k].calls[j].id /\ t[k + j].text = outcome
    BY Zenon, <1>5, <2>1, <2>2
  <2>4. PICK o : o = <<c, outcome>>
    OBVIOUS
  <2>5. o = <<t[k].calls[j], t[k + j].text>>
    BY Zenon, <2>2, <2>3, <2>4
  <2>6. o \in Outcomes(t)
    BY Zenon, <2>1, <2>2, <2>3, <2>5, OutcomesAre DEF OutcomeAt
  <2>7. QED
    BY Zenon, <2>4, <2>6
<1>11. ASSUME NEW x, <<c, x>> \in Outcomes(ms) PROVE FALSE
  <2>1. PICK o : o = <<c, x>>
    OBVIOUS
  <2>2. PICK l, i : OutcomeAt(ms, l, i, o)
    BY Zenon, <1>11, <2>1, OutcomesAre
  <2>3. /\ l \in DOMAIN ms /\ i \in DOMAIN ms[l].calls
        /\ l + i \in DOMAIN ms /\ o = <<ms[l].calls[i], ms[l + i].text>>
    BY <2>2 DEF OutcomeAt
  <2>4. ms[l].calls[i] = ms[k].calls[j]
    BY <1>4, <2>1, <2>3
  <2>5. ms[l].calls[i].id = ms[k].calls[j].id /\ k \in DOMAIN ms
    BY <1>1, <1>4, <2>4
  <2>6. Numbered(ms)
    BY DEF TraceOK
  <2>7. l = k /\ i = j
    BY Zenon, <1>4, <2>3, <2>5, <2>6, NumbersDiffer
  <2>8. QED
    BY <1>1, <1>4, <2>3, <2>7
<1>12. QED
  BY <1>8, <1>9, <1>10, <1>11

(***************************************************************************)
(* The second invariant.  Whatever a client asks of a tool comes from a    *)
(* reply, so if the texts are apart, a memory with the text of a reminder  *)
(* has been written for one.  Each row is then that of a memory, of a      *)
(* client that has yet to write one, or of a call that failed: a call      *)
(* that fails after it has written its row adds an outcome to its trace    *)
(* that was not there.                                                     *)
(***************************************************************************)
Unfinished == {cl \in Client : reminding[cl] # 0}
Failed(ms) == {o \in Outcomes(ms) : o[1].tool = "add_reminder" /\ o[2] = Error}
FailedCalls == UNION {{<<cl, o>> : o \in Failed(trace[cl])} : cl \in Client}

FromReply(c) == c.args # NoArgs => \E asked \in AskedOf(c.tool) : asked.args = c.args
FromReplies(ms) == \A k \in DOMAIN ms : \A j \in DOMAIN ms[k].calls : FromReply(ms[k].calls[j])

RowsAsked == ReminderTexts \subseteq AskedTexts

OnlyReminders ==
  \A i \in Id : items[i] # <<>> /\ items[i][1].content \in AskedTexts
                  => items[i][1].content \in ReminderTexts

\* every row has a memory, an unfinished call or a failed one
RowsCounted ==
  /\ IsFiniteSet(ReminderMemories) /\ IsFiniteSet(Unfinished) /\ IsFiniteSet(FailedCalls)
  /\ Len(reminders) >= Cardinality(ReminderMemories) + Cardinality(Unfinished)
  /\ Len(reminders) <= Cardinality(ReminderMemories) + Cardinality(Unfinished)
                         + Cardinality(FailedCalls)

RemindersInv ==
  /\ \A cl \in Client : FromReplies(trace[cl])
  /\ RowsAsked /\ OnlyReminders /\ RowsCounted

\* One more failed call at most.
OneMoreFailed == \E x : FailedCalls' \in {FailedCalls, FailedCalls \cup {x}}

\* One more failure does not disturb the count.
LEMMA FailuresCounted ==
  ASSUME RowsCounted, OneMoreFailed
  PROVE  /\ IsFiniteSet(FailedCalls') /\ Cardinality(FailedCalls) \in Nat
         /\ Cardinality(FailedCalls') \in Nat
         /\ Cardinality(FailedCalls') >= Cardinality(FailedCalls)
<1>1. IsFiniteSet(FailedCalls) /\ Cardinality(FailedCalls) \in Nat
  BY FS_CardinalityType DEF RowsCounted
<1>2. PICK x : FailedCalls' \in {FailedCalls, FailedCalls \cup {x}}
  BY DEF OneMoreFailed
<1>3. /\ IsFiniteSet(FailedCalls \cup {x})
      /\ Cardinality(FailedCalls \cup {x}) \in {Cardinality(FailedCalls), Cardinality(FailedCalls) + 1}
  BY <1>1, FS_AddElement
<1>4. QED
  BY <1>1, <1>2, <1>3

\* A step that makes no row and no memory of one.
LEMMA QuietCounted ==
  ASSUME RowsCounted, OneMoreFailed, Len(reminders) \in Nat, Len(reminders') = Len(reminders),
         ReminderMemories' = ReminderMemories, Unfinished' = Unfinished
  PROVE  RowsCounted'
<1>1. Cardinality(ReminderMemories) \in Nat /\ Cardinality(Unfinished) \in Nat
  BY FS_CardinalityType DEF RowsCounted
<1>2. QED
  BY <1>1, FailuresCounted DEF RowsCounted

\* A row that a client has yet to make a memory of.
LEMMA StartCounted ==
  ASSUME RowsCounted, FailedCalls' = FailedCalls,
         Len(reminders) \in Nat, Len(reminders') = Len(reminders) + 1,
         ReminderMemories' = ReminderMemories,
         NEW cl, cl \notin Unfinished, Unfinished' = Unfinished \cup {cl}
  PROVE  RowsCounted'
<1>1. /\ Cardinality(ReminderMemories) \in Nat /\ Cardinality(Unfinished) \in Nat
      /\ Cardinality(FailedCalls) \in Nat
  BY FS_CardinalityType DEF RowsCounted
<1>2. IsFiniteSet(Unfinished') /\ Cardinality(Unfinished') = Cardinality(Unfinished) + 1
  BY FS_AddElement DEF RowsCounted
<1>3. QED
  BY <1>1, <1>2 DEF RowsCounted

\* The memory of a row.
LEMMA RememberCounted ==
  ASSUME RowsCounted, OneMoreFailed, Len(reminders) \in Nat, Len(reminders') = Len(reminders),
         NEW i, i \notin ReminderMemories, ReminderMemories' = ReminderMemories \cup {i},
         NEW cl, cl \in Unfinished, Unfinished' = Unfinished \ {cl}
  PROVE  RowsCounted'
<1>1. Cardinality(ReminderMemories) \in Nat /\ Cardinality(Unfinished) \in Nat
  BY FS_CardinalityType DEF RowsCounted
<1>2. IsFiniteSet(Unfinished') /\ Cardinality(Unfinished') = Cardinality(Unfinished) - 1
  BY FS_RemoveElement DEF RowsCounted
<1>3. /\ IsFiniteSet(ReminderMemories')
      /\ Cardinality(ReminderMemories') = Cardinality(ReminderMemories) + 1
  BY FS_AddElement DEF RowsCounted
<1>4. QED
  BY <1>1, <1>2, <1>3, FailuresCounted DEF RowsCounted

\* A row whose memory could not be written, and the call that says so.
LEMMA FailCounted ==
  ASSUME RowsCounted, Len(reminders) \in Nat, Len(reminders') = Len(reminders),
         ReminderMemories' = ReminderMemories,
         NEW cl, cl \in Unfinished, Unfinished' = Unfinished \ {cl},
         NEW x, x \notin FailedCalls, FailedCalls' = FailedCalls \cup {x}
  PROVE  RowsCounted'
<1>1. /\ Cardinality(ReminderMemories) \in Nat /\ Cardinality(Unfinished) \in Nat
      /\ Cardinality(FailedCalls) \in Nat
  BY FS_CardinalityType DEF RowsCounted
<1>2. IsFiniteSet(Unfinished') /\ Cardinality(Unfinished') = Cardinality(Unfinished) - 1
  BY FS_RemoveElement DEF RowsCounted
<1>3. IsFiniteSet(FailedCalls') /\ Cardinality(FailedCalls') = Cardinality(FailedCalls) + 1
  BY FS_AddElement DEF RowsCounted
<1>4. QED
  BY <1>1, <1>2, <1>3 DEF RowsCounted

-----------------------------------------------------------------------------
\* What the failed calls become when one trace does.
LEMMA TraceMoves ==
  ASSUME DOMAIN trace = Client, NEW cl \in Client, NEW ms, ms = trace[cl], NEW t,
         trace' = [trace EXCEPT ![cl] = t]
  PROVE  /\ Failed(t) = Failed(ms) => FailedCalls' = FailedCalls
         /\ \A o : Failed(t) = Failed(ms) \cup {o} => FailedCalls' = FailedCalls \cup {<<cl, o>>}
         /\ \A o : o \notin Failed(ms) => <<cl, o>> \notin FailedCalls
<1>1. trace'[cl] = t /\ DOMAIN trace' = Client /\ \A u \in Client \ {cl} : trace'[u] = trace[u]
  OBVIOUS
<1>2. \A u, o : <<u, o>> \in FailedCalls <=> u \in Client /\ o \in Failed(trace[u])
  BY DEF FailedCalls
<1>3. \A u, o : <<u, o>> \in FailedCalls' <=> u \in Client /\ o \in Failed(trace'[u])
  BY DEF FailedCalls, Failed, Outcomes
<1>4. \A x \in FailedCalls : \E u, o : x = <<u, o>>
  BY DEF FailedCalls
<1>5. \A x \in FailedCalls' : \E u, o : x = <<u, o>>
  BY DEF FailedCalls
<1>6. ASSUME Failed(t) = Failed(ms) PROVE FailedCalls' = FailedCalls
  <2>1. \A u \in Client : Failed(trace'[u]) = Failed(trace[u])
    BY Zenon, <1>1, <1>6
  <2>2. \A u, o : <<u, o>> \in FailedCalls' <=> <<u, o>> \in FailedCalls
    BY <1>2, <1>3, <2>1
  <2>3. QED
    BY <1>4, <1>5, <2>2
<1>7. ASSUME NEW o, Failed(t) = Failed(ms) \cup {o} PROVE FailedCalls' = FailedCalls \cup {<<cl, o>>}
  <2>1. \A u \in Client : Failed(trace'[u]) = IF u = cl THEN Failed(trace[u]) \cup {o}
                                              ELSE Failed(trace[u])
    BY Zenon, <1>1, <1>7
  <2>2. \A u, p : <<u, p>> \in FailedCalls' <=> <<u, p>> \in FailedCalls \/ (u = cl /\ p = o)
    BY <1>2, <1>3, <2>1
  <2>3. QED
    BY <1>4, <1>5, <2>2
<1>8. ASSUME NEW o, o \notin Failed(ms) PROVE <<cl, o>> \notin FailedCalls
  BY <1>2, <1>8
<1>9. QED
  BY <1>6, <1>7, <1>8

\* Whatever a trace gets that is no result, and whose calls are those of a reply.
LEMMA PushKeepsFailed ==
  ASSUME AgentInv, AgentInv', RemindersInv, NEW cl \in Client, NEW m, Push(cl, m), ~IsResult(m),
         \A j \in DOMAIN m.calls : FromReply(m.calls[j])
  PROVE  FailedCalls' = FailedCalls /\ \A u \in Client : FromReplies(trace'[u])
<1>1. PICK ms, todo : ms = trace[cl] /\ todo = run[cl].todo
  OBVIOUS
<1>2. TraceOK(ms, todo) /\ DOMAIN trace = Client /\ FromReplies(ms)
  BY Zenon, <1>1 DEF AgentInv, ClientOK, RemindersInv
<1>3. PICK t, left : t = Append(ms, m) /\ left = run'[cl].todo
  OBVIOUS
<1>4. trace' = [trace EXCEPT ![cl] = t]
  BY Zenon, <1>1, <1>3 DEF Push
<1>5. trace'[cl] = t /\ \A u \in Client \ {cl} : trace'[u] = trace[u]
  BY <1>2, <1>4
<1>6. TraceOK(t, left)
  BY Zenon, <1>3, <1>5 DEF AgentInv, ClientOK
<1>7. PICK len \in Nat : len = Len(ms) /\ DOMAIN ms = 1 .. len /\ ms \in Seq(Said)
  BY <1>2 DEF TraceOK
<1>8. DOMAIN t = 1 .. len + 1 /\ t[len + 1] = m /\ \A k \in 1 .. len : t[k] = ms[k]
  BY <1>3, <1>7
<1>9. m \in Said
  <2>1. t \in Seq(Said) /\ len + 1 \in DOMAIN t
    BY <1>6, <1>8 DEF TraceOK
  <2>2. QED
    BY <1>8, <2>1
<1>10. Outcomes(t) = Outcomes(ms)
  BY Zenon, <1>2, <1>3, <1>6, <1>9, SaidHasNoOutcome
<1>11. FailedCalls' = FailedCalls
  <2>1. Failed(t) = Failed(ms)
    BY Zenon, <1>10 DEF Failed
  <2>2. QED
    BY Zenon, <1>1, <1>2, <1>4, <2>1, TraceMoves
<1>12. FromReplies(t)
  <2>1. ASSUME NEW k \in DOMAIN t, NEW j \in DOMAIN t[k].calls
        PROVE  FromReply(t[k].calls[j])
    <3>1. CASE k = len + 1
      BY Zenon, <1>8, <2>1, <3>1
    <3>2. CASE k \in 1 .. len
      <4>1. t[k] = ms[k] /\ k \in DOMAIN ms
        BY <1>7, <1>8, <3>2
      <4>2. QED
        BY Zenon, <1>2, <2>1, <4>1 DEF FromReplies
    <3>3. QED
      BY <1>7, <1>8, <3>1, <3>2
  <2>2. QED
    BY Zenon, <2>1 DEF FromReplies
<1>13. \A u \in Client : FromReplies(trace'[u])
  BY Zenon, <1>5, <1>12 DEF RemindersInv
<1>14. QED
  BY <1>11, <1>13

\* A result, and what it adds to the failed calls if it is one of them.
LEMMA FinishAddsFailed ==
  ASSUME AgentInv, AgentInv', RemindersInv, NEW cl \in Client,
         run[cl].at \in {"execute", "tool"}, NEW outcome \in Outcome, Finish(cl, outcome)
  PROVE  /\ OneMoreFailed /\ \A u \in Client : FromReplies(trace'[u])
         /\ outcome = Error /\ Asking(cl).tool = "add_reminder" =>
              \E x : x \notin FailedCalls /\ FailedCalls' = FailedCalls \cup {x}
<1>1. PICK ms, todo, c : ms = trace[cl] /\ todo = run[cl].todo /\ c = Asking(cl)
  OBVIOUS
<1>2. /\ todo \in Nat /\ todo > 0 /\ TraceOK(ms, todo)
      /\ DOMAIN trace = Client /\ FromReplies(ms)
  BY Zenon, <1>1, SomeOpen DEF AgentInv, RemindersInv
<1>3. c = FirstOpen(ms, todo)
  BY Zenon, <1>1, AskingIsOpen
<1>4. c.id \in Nat
  BY <1>2, <1>3, NextAsked DEF FirstAt, Issued
<1>5. PICK m : m = ToolResult(c.id, outcome)
  OBVIOUS
<1>6. PICK t, left : t = Append(ms, m) /\ left = run'[cl].todo
  OBVIOUS
<1>7. m \in Said /\ m.calls = <<>>
  BY <1>4, <1>5, ResultSaid DEF ToolResult, Plain
<1>8. PICK len \in Nat : len = Len(ms) /\ DOMAIN ms = 1 .. len /\ ms \in Seq(Said)
  BY <1>2 DEF TraceOK
<1>9. /\ t = ms \o <<m>> /\ DOMAIN t = 1 .. len + 1 /\ t[len + 1] = m
      /\ \A k \in 1 .. len : t[k] = ms[k]
  BY <1>6, <1>7, <1>8, Appended
<1>10. trace' = [trace EXCEPT ![cl] = t]
  <2>1. trace' = [trace EXCEPT ![cl] = @ \o <<m>>]
    BY Zenon, <1>1, <1>5 DEF Finish, Report
  <2>2. QED
    BY Zenon, <1>1, <1>9, <2>1
<1>11. trace'[cl] = t /\ \A u \in Client \ {cl} : trace'[u] = trace[u]
  BY <1>2, <1>10
<1>12. TraceOK(t, left)
  BY Zenon, <1>6, <1>11 DEF AgentInv, ClientOK
<1>13. PICK o : o = <<c, outcome>>
  OBVIOUS
<1>14. Outcomes(t) = Outcomes(ms) \cup {o} /\ o \notin Outcomes(ms)
  <2>1. Answered(t, ms, todo, c, outcome)
    BY Zenon, <1>3, <1>5, <1>6 DEF Answered
  <2>2. /\ Outcomes(t) = Outcomes(ms) \cup {<<c, outcome>>}
        /\ \A x : <<c, x>> \notin Outcomes(ms)
    BY Zenon, <1>2, <1>12, <2>1, ResultIsOutcome
  <2>3. QED
    BY Zenon, <1>13, <2>2
<1>15. \A u \in Client : FromReplies(trace'[u])
  <2>1. ASSUME NEW k \in DOMAIN t, NEW j \in DOMAIN t[k].calls
        PROVE  FromReply(t[k].calls[j])
    <3>1. k # len + 1
      BY <1>7, <1>9, <2>1
    <3>2. k \in DOMAIN ms /\ t[k] = ms[k]
      BY <1>8, <1>9, <3>1
    <3>3. QED
      BY Zenon, <1>2, <2>1, <3>2 DEF FromReplies
  <2>2. FromReplies(t)
    BY Zenon, <1>2, <2>1 DEF FromReplies
  <2>3. QED
    BY Zenon, <1>11, <2>2 DEF RemindersInv
<1>16. CASE o[1].tool = "add_reminder" /\ o[2] = Error
  <2>1. Failed(t) = Failed(ms) \cup {o} /\ o \notin Failed(ms)
    BY <1>14, <1>16 DEF Failed
  <2>2. <<cl, o>> \notin FailedCalls /\ FailedCalls' = FailedCalls \cup {<<cl, o>>}
    BY Zenon, <1>1, <1>2, <1>10, <2>1, TraceMoves
  <2>3. QED
    BY Zenon, <1>15, <2>2 DEF OneMoreFailed
<1>17. CASE ~(o[1].tool = "add_reminder" /\ o[2] = Error)
  <2>1. Failed(t) = Failed(ms)
    BY <1>14, <1>17 DEF Failed
  <2>2. FailedCalls' = FailedCalls
    BY Zenon, <1>1, <1>2, <1>10, <2>1, TraceMoves
  <2>3. ~(outcome = Error /\ Asking(cl).tool = "add_reminder")
    BY <1>1, <1>13, <1>17
  <2>4. QED
    BY Zenon, <1>15, <2>2, <2>3 DEF OneMoreFailed
<1>18. QED
  BY <1>16, <1>17

-----------------------------------------------------------------------------
\* memory i is written for the first time
Born(i) == items[i] = <<>> /\ items'[i] # <<>>

\* The first version of a memory stays.
LEMMA FirstStays ==
  ASSUME ItemsOK, ItemsOK', Grows, NEW i \in Id, items[i] # <<>>
  PROVE  items'[i] # <<>> /\ items'[i][1] = items[i][1]
<1>1. items[i] \in Seq(Version) /\ items'[i] \in Seq(Version)
  BY DEF ItemsOK
<1>2. 1 \in DOMAIN items[i]
  BY <1>1
<1>3. 1 \in DOMAIN items'[i] /\ items'[i][1] = items[i][1]
  BY <1>2 DEF Grows
<1>4. QED
  BY <1>1, <1>3

\* Memories of reminders stay so, and no other memory becomes one.
LEMMA MemoriesStay ==
  ASSUME ItemsOK, ItemsOK', Grows, OnlyReminders,
         ReminderTexts \subseteq ReminderTexts', ReminderTexts' \subseteq AskedTexts,
         \A i \in Id : Born(i) => items'[i][1].content \notin AskedTexts
  PROVE  ReminderMemories' = ReminderMemories /\ OnlyReminders'
<1>1. ASSUME NEW i \in Id
      PROVE  /\ i \in ReminderMemories' <=> i \in ReminderMemories
             /\ items'[i] # <<>> /\ items'[i][1].content \in AskedTexts
                  => items'[i][1].content \in ReminderTexts'
  <2>1. CASE items[i] # <<>>
    <3>1. items'[i] # <<>> /\ items'[i][1] = items[i][1]
      BY <2>1, FirstStays
    <3>2. items[i][1].content \in AskedTexts => items[i][1].content \in ReminderTexts
      BY <2>1 DEF OnlyReminders
    <3>3. QED
      BY <2>1, <3>1, <3>2 DEF ReminderMemories
  <2>2. CASE items[i] = <<>>
    BY <2>2 DEF Born, ReminderMemories
  <2>3. QED
    BY <2>1, <2>2
<1>2. ReminderMemories' = ReminderMemories
  BY <1>1 DEF ReminderMemories
<1>3. OnlyReminders'
  BY <1>1 DEF OnlyReminders
<1>4. QED
  BY <1>2, <1>3

\* One memory with the text of a reminder is written.
LEMMA MemoryAdded ==
  ASSUME ItemsOK, ItemsOK', Grows, OnlyReminders, ReminderTexts' = ReminderTexts,
         NEW i \in Id, Born(i), items'[i][1].content \in ReminderTexts,
         \A j \in Id \ {i} : ~Born(j)
  PROVE  /\ i \notin ReminderMemories /\ ReminderMemories' = ReminderMemories \cup {i}
         /\ OnlyReminders'
<1>1. ASSUME NEW j \in Id, j # i
      PROVE  /\ j \in ReminderMemories' <=> j \in ReminderMemories
             /\ items'[j] # <<>> /\ items'[j][1].content \in AskedTexts
                  => items'[j][1].content \in ReminderTexts'
  <2>1. CASE items[j] # <<>>
    <3>1. items'[j] # <<>> /\ items'[j][1] = items[j][1]
      BY <2>1, FirstStays
    <3>2. items[j][1].content \in AskedTexts => items[j][1].content \in ReminderTexts
      BY <2>1 DEF OnlyReminders
    <3>3. QED
      BY <2>1, <3>1, <3>2 DEF ReminderMemories
  <2>2. CASE items[j] = <<>>
    BY <1>1, <2>2 DEF Born, ReminderMemories
  <2>3. QED
    BY <2>1, <2>2
<1>2. i \notin ReminderMemories /\ i \in ReminderMemories'
  BY DEF Born, ReminderMemories
<1>3. ReminderMemories' = ReminderMemories \cup {i}
  BY <1>1, <1>2 DEF ReminderMemories
<1>4. OnlyReminders'
  BY <1>1 DEF OnlyReminders
<1>5. QED
  BY <1>2, <1>3, <1>4

\* A write can bring no other memory than its own.
LEMMA OneBorn ==
  ASSUME ItemsOK, NEW j \in Id, NEW v \in Version, PutMemory(j, v)
  PROVE  /\ ItemsOK' /\ \A i \in Id : Born(i) => i = j
         /\ items[j] = <<>> => Born(j) /\ items'[j][1] = v
<1>1. /\ ItemsOK' /\ \A i \in Id \ {j} : items'[i] = items[i]
      /\ DOMAIN items'[j] = 1 .. Len(items[j]) + 1
      /\ items'[j][Len(items[j]) + 1] = v
  BY PutMemoryAdds
<1>2. \A i \in Id : Born(i) => i = j
  BY <1>1 DEF Born
<1>3. ASSUME items[j] = <<>> PROVE Born(j) /\ items'[j][1] = v
  <2>1. Len(items[j]) = 0
    BY <1>3
  <2>2. 1 \in DOMAIN items'[j] /\ items'[j][1] = v
    BY <1>1, <2>1
  <2>3. items'[j] # <<>>
    BY <2>2
  <2>4. QED
    BY <1>3, <2>2, <2>3 DEF Born
<1>4. QED
  BY <1>1, <1>2, <1>3

\* The texts of the reminders as the rows grow.
LEMMA TextsGrow ==
  ASSUME RemindersGrow
  PROVE  /\ ReminderTexts \subseteq ReminderTexts'
         /\ DOMAIN reminders' = DOMAIN reminders => ReminderTexts' = ReminderTexts
<1>1. \A k \in DOMAIN reminders : k \in DOMAIN reminders' /\ MemoryText(k)' = MemoryText(k)
  BY DEF RemindersGrow, MemoryText
<1>2. QED
  BY <1>1 DEF ReminderTexts

-----------------------------------------------------------------------------
\* The parts of AgentInv that the memories of reminders depend on.
LEMMA StoreTyped ==
  ASSUME AgentInv
  PROVE  /\ ItemsOK /\ CallsOK /\ Len(reminders) \in Nat /\ DOMAIN reminders = 1 .. Len(reminders)
         /\ reminding \in [Client -> 0 .. Len(reminders)]
<1>1. ItemsOK /\ CallsOK /\ ReminderTypeOK
  BY DEF AgentInv, AddInv, CoreInv
<1>2. QED
  BY <1>1, RemindersTyped DEF ReminderTypeOK

\* A step that makes no row and no memory with the text of one.
LEMMA NothingRemembered ==
  ASSUME AgentInv, AgentInv', RemindersInv, Grows, RemindersGrow,
         DOMAIN reminders' = DOMAIN reminders,
         \A i \in Id : Born(i) => items'[i][1].content \notin AskedTexts
  PROVE  /\ ReminderMemories' = ReminderMemories /\ OnlyReminders' /\ RowsAsked'
         /\ Len(reminders') = Len(reminders)
<1>1. /\ ItemsOK /\ Len(reminders) \in Nat /\ DOMAIN reminders = 1 .. Len(reminders)
      /\ ItemsOK' /\ Len(reminders') \in Nat /\ DOMAIN reminders' = 1 .. Len(reminders')
  <2>1. ItemsOK' /\ reminders' \in Seq(ProspectiveItem)
    BY DEF AgentInv, AddInv, CoreInv, ReminderTypeOK
  <2>2. QED
    BY <2>1, StoreTyped
<1>2. ReminderTexts' = ReminderTexts /\ RowsAsked /\ OnlyReminders
  BY TextsGrow DEF RemindersInv
<1>3. ReminderTexts' \subseteq AskedTexts /\ ReminderTexts \subseteq ReminderTexts'
  BY <1>2 DEF RowsAsked
<1>4. RowsAsked'
  BY <1>3 DEF RowsAsked
<1>5. Len(reminders') = Len(reminders)
  BY <1>1
<1>6. QED
  BY <1>1, <1>2, <1>3, <1>4, <1>5, MemoriesStay

\* So the count is what it was, or that of one failed call more.
LEMMA QuietStep ==
  ASSUME AgentInv, AgentInv', RemindersInv, Grows, RemindersGrow,
         DOMAIN reminders' = DOMAIN reminders,
         \A i \in Id : Born(i) => items'[i][1].content \notin AskedTexts,
         Unfinished' = Unfinished, OneMoreFailed, \A u \in Client : FromReplies(trace'[u])
  PROVE  RemindersInv'
<1>1. /\ ReminderMemories' = ReminderMemories /\ OnlyReminders' /\ RowsAsked'
      /\ Len(reminders') = Len(reminders)
  BY Zenon, NothingRemembered
<1>2. Len(reminders) \in Nat
  BY StoreTyped
<1>3. RowsCounted'
  BY <1>1, <1>2, QuietCounted DEF RemindersInv
<1>4. (\A u \in Client : FromReplies(trace[u]))'
  BY DEF FromReplies, FromReply
<1>5. QED
  BY <1>1, <1>3, <1>4 DEF RemindersInv

\* What a client asks of a tool comes from a reply.
LEMMA AskedIsFromReply ==
  ASSUME AgentInv, RemindersInv, NEW cl \in Client, run[cl].at \in {"execute", "tool"},
         NEW c, c = Asking(cl), c.args # NoArgs
  PROVE  \E asked \in AskedOf(c.tool) : asked.args = c.args
<1>1. PICK ms, todo : ms = trace[cl] /\ todo = run[cl].todo
  OBVIOUS
<1>2. todo \in Nat /\ todo > 0 /\ TraceOK(ms, todo) /\ FromReplies(ms)
  BY Zenon, <1>1, SomeOpen DEF RemindersInv
<1>3. c = FirstOpen(ms, todo)
  BY Zenon, <1>1, AskingIsOpen
<1>4. PICK k, j : FirstAt(ms, todo, k, j)
  BY Zenon, <1>2, NextAsked
<1>5. k \in DOMAIN ms /\ j \in DOMAIN ms[k].calls /\ c = ms[k].calls[j]
  BY Zenon, <1>3, <1>4 DEF FirstAt
<1>6. FromReply(c)
  BY Zenon, <1>2, <1>5 DEF FromReplies
<1>7. QED
  BY Zenon, <1>6 DEF FromReply

\* The calls of a decoded reply are those of the reply.
LEMMA DecodedFromReply ==
  ASSUME NEW reply \in Reply, NEW used \in Nat, NEW r, r = Decode(reply, used),
         NEW j \in DOMAIN r.calls
  PROVE  FromReply(r.calls[j])
<1>1. PICK asked : asked = reply.calls[j]
  OBVIOUS
<1>2. PICK c : c = [id |-> used + j, tool |-> asked.tool, args |-> asked.args]
  OBVIOUS
<1>3. /\ j \in DOMAIN reply.calls
      /\ r.calls[j] = [id |-> used + j, tool |-> reply.calls[j].tool, args |-> reply.calls[j].args]
  BY DEF Decode
<1>4. r.calls[j] = c
  BY Zenon, <1>1, <1>2, <1>3
<1>5. c.tool = asked.tool /\ c.args = asked.args
  BY <1>2
<1>6. ASSUME c.args # NoArgs PROVE asked \in AskedOf(c.tool)
  <2>1. asked \in UNION {{rep.calls[k] : k \in DOMAIN rep.calls} : rep \in Reply}
    BY <1>1, <1>3
  <2>2. QED
    BY <1>5, <1>6, <2>1 DEF AskedOf
<1>7. FromReply(c)
  BY Zenon, <1>5, <1>6 DEF FromReply
<1>8. QED
  BY Zenon, <1>4, <1>7

\* Nobody asks add_memory for the text of a memory of a reminder.
LEMMA AskedApart ==
  ASSUME TextsApart, AgentInv, RemindersInv, NEW cl \in Client, call[cl].at # "idle"
  PROVE  call[cl].content \notin AskedTexts
<1>1. PICK c : c = Asking(cl)
  OBVIOUS
<1>2. c.tool = "add_memory" /\ c.args \in MemoryArgs /\ call[cl].content = c.args.content
  BY Zenon, <1>1, RunsAsked
<1>3. c.args # NoArgs
  BY <1>2, AgentAssumption
<1>4. run[cl].at = "tool"
  BY DEF AgentInv, ClientOK, DoesAsked, At, Idle
<1>5. run[cl].at \in {"execute", "tool"}
  BY <1>4
<1>6. PICK asked \in AskedOf(c.tool) : asked.args = c.args
  BY Zenon, <1>1, <1>3, <1>5, AskedIsFromReply
<1>7. asked \in AskedOf("add_memory")
  BY Zenon, <1>2, <1>6
<1>8. asked.args.content \notin AskedTexts
  BY Zenon, <1>7 DEF TextsApart
<1>9. QED
  BY Zenon, <1>2, <1>6, <1>8

-----------------------------------------------------------------------------
(* The steps of a run, and the memories of reminders.                      *)

\* A step that leaves the traces alone.
LEMMA SameTraces ==
  ASSUME RemindersInv, UNCHANGED trace
  PROVE  /\ FailedCalls' = FailedCalls /\ OneMoreFailed
         /\ \A u \in Client : FromReplies(trace'[u])
<1>1. FailedCalls' = FailedCalls
  BY DEF FailedCalls, Failed, Outcomes
<1>2. QED
  BY <1>1 DEF OneMoreFailed, RemindersInv

\* A step that leaves the stores alone leaves the memories of reminders.
LEMMA QuietRemembers ==
  ASSUME AgentInv, AgentInv', RemindersInv, UNCHANGED <<vars, reminderVars>>,
         OneMoreFailed, \A u \in Client : FromReplies(trace'[u])
  PROVE  RemindersInv'
<1>1. Grows /\ RemindersGrow
  BY QuietStores DEF StoresGoOn
<1>2. items' = items /\ reminders' = reminders /\ reminding' = reminding
  BY DEF vars, storeVars, reminderVars
<1>3. \A i \in Id : ~Born(i)
  BY <1>2 DEF Born
<1>4. Unfinished' = Unfinished
  BY <1>2 DEF Unfinished
<1>5. QED
  BY <1>1, <1>2, <1>3, <1>4, QuietStep

\* So does what is said besides results.
LEMMA SayingRemembers ==
  ASSUME AgentInv, AgentInv', RemindersInv, NEW cl \in Client,
         StartRun(cl) \/ Answer(cl) \/ LastAnswer(cl)
  PROVE  RemindersInv'
<1>1. UNCHANGED <<vars, reminderVars>>
  BY DEF StartRun, Answer, LastAnswer
<1>2. \E m : /\ Push(cl, m) /\ ~IsResult(m)
             /\ \A j \in DOMAIN m.calls : FromReply(m.calls[j])
  <2>1. CASE StartRun(cl)
    <3>1. PICK m : m = UserMessage("question")
      OBVIOUS
    <3>2. m.role = "user" /\ m.calls = <<>>
      BY <3>1 DEF UserMessage, Plain
    <3>3. Push(cl, m)
      BY Zenon, <2>1, <3>1 DEF StartRun
    <3>4. QED
      BY <3>2, <3>3 DEF IsResult
  <2>2. CASE LastAnswer(cl)
    <3>1. PICK reply \in Reply : Push(cl, AssistantMessage(reply.text, <<>>))
      BY Zenon, <2>2 DEF LastAnswer
    <3>2. PICK m : m = AssistantMessage(reply.text, <<>>)
      OBVIOUS
    <3>3. m.role = "assistant" /\ m.calls = <<>>
      BY <3>2 DEF AssistantMessage, Plain
    <3>4. Push(cl, m)
      BY Zenon, <3>1, <3>2
    <3>5. QED
      BY <3>3, <3>4 DEF IsResult
  <2>3. CASE Answer(cl)
    <3>1. PICK used : used = Cardinality(Asked(trace[cl]))
      OBVIOUS
    <3>2. PICK reply \in Reply :
            \E r : r = Decode(reply, used) /\ Push(cl, AssistantMessage(r.text, r.calls))
      BY Zenon, <2>3, <3>1 DEF Answer
    <3>3. PICK r : r = Decode(reply, used) /\ Push(cl, AssistantMessage(r.text, r.calls))
      BY <3>2
    <3>4. PICK m : m = AssistantMessage(r.text, r.calls)
      OBVIOUS
    <3>5. m.role = "assistant" /\ m.calls = r.calls
      BY <3>4 DEF AssistantMessage, Plain
    <3>6. used \in Nat
      <4>1. PICK ms, todo : ms = trace[cl] /\ TraceOK(ms, todo)
        BY Zenon DEF AgentInv, ClientOK
      <4>2. used = Cardinality(Asked(ms)) /\ IsFiniteSet(Asked(ms))
        BY <3>1, <4>1 DEF TraceOK, Numbered
      <4>3. QED
        BY <4>2, FS_CardinalityType
    <3>7. \A j \in DOMAIN r.calls : FromReply(r.calls[j])
      BY <3>3, <3>6, DecodedFromReply
    <3>8. \A j \in DOMAIN m.calls : FromReply(m.calls[j])
      BY Zenon, <3>5, <3>7
    <3>9. Push(cl, m)
      BY Zenon, <3>3, <3>4
    <3>10. QED
      BY <3>5, <3>8, <3>9 DEF IsResult
  <2>4. QED
    BY <2>1, <2>2, <2>3
<1>3. FailedCalls' = FailedCalls /\ \A u \in Client : FromReplies(trace'[u])
  BY Zenon, <1>2, PushKeepsFailed
<1>4. QED
  BY <1>1, <1>3, QuietRemembers DEF OneMoreFailed

\* A request that fails, and a call that fails at once.
LEMMA FailingRemembers ==
  ASSUME AgentInv, AgentInv', RemindersInv, NEW cl \in Client, RequestFails(cl) \/ CallFails(cl)
  PROVE  RemindersInv'
<1>1. UNCHANGED <<vars, reminderVars>>
  BY DEF RequestFails, CallFails
<1>2. CASE RequestFails(cl)
  BY <1>1, <1>2, SameTraces, QuietRemembers DEF RequestFails
<1>3. CASE CallFails(cl)
  <2>1. run[cl].at \in {"execute", "tool"} /\ Finish(cl, Error)
    BY <1>3 DEF CallFails, At
  <2>2. Error \in Outcome
    BY DEF Outcome
  <2>3. OneMoreFailed /\ \A u \in Client : FromReplies(trace'[u])
    BY <2>1, <2>2, FinishAddsFailed
  <2>4. QED
    BY <1>1, <2>3, QuietRemembers
<1>4. QED
  BY <1>2, <1>3

\* What add_memory writes first is a text that it was asked for.
LEMMA AddMemoryBears ==
  ASSUME TextsApart, AgentInv, RemindersInv, NEW cl \in Client, NEW i \in Id, Born(i),
         \/ AddSteps(cl)
         \/ \E c, u : StartAdd(cl, c, u)
  PROVE  items'[i][1].content \notin AskedTexts
<1>1. ItemsOK /\ CallsOK
  BY StoreTyped
<1>2. items' # items
  BY DEF Born
<1>3. Reinforce(cl) \/ Update(cl) \/ Store(cl)
  BY Zenon, <1>2 DEF AddSteps, StartAdd, SearchSimilar, Link, Fail, storeVars
<1>4. CASE Store(cl)
  <2>1. PICK c, u : c = call[cl].content /\ u = call[cl].user
    OBVIOUS
  <2>2. call[cl].at = "store"
    BY <1>4 DEF Store
  <2>3. c \in Content /\ u \in Owner
    BY <1>1, <2>1, <2>2 DEF CallsOK, CallOK, Call
  <2>4. PICK v : v = NewVersion(c, u)
    OBVIOUS
  <2>5. v \in Version /\ v.content = c
    BY <2>3, <2>4 DEF NewVersion, Version
  <2>6. PICK j \in Id : items[j] = <<>> /\ PutMemory(j, v)
    BY Zenon, <1>4, <2>1, <2>4 DEF Store
  <2>7. i = j /\ items'[j][1] = v
    BY <1>1, <2>5, <2>6, OneBorn
  <2>8. c \notin AskedTexts
    BY <2>1, <2>2, AskedApart
  <2>9. QED
    BY Zenon, <2>5, <2>7, <2>8
<1>5. ASSUME NEW j \in Id, NEW v, PutMemory(j, v), items[j] # <<>> PROVE FALSE
  <2>1. items' = [items EXCEPT ![j] = Append(@, v)]
    BY <1>5 DEF PutMemory
  <2>2. i # j
    BY <1>5 DEF Born
  <2>3. QED
    BY <1>1, <2>1, <2>2 DEF Born, ItemsOK
<1>6. CASE Reinforce(cl) \/ Update(cl)
  <2>1. call[cl].at \in {"reinforce", "update"} /\ \E v : PutMemory(call[cl].id, v)
    BY <1>6 DEF Reinforce, Update
  <2>2. Holds(cl)
    BY <1>1, <2>1 DEF CallsOK, CallOK
  <2>3. call[cl].id \in Id /\ items[call[cl].id] # <<>>
    BY <1>1, <2>2 DEF Holds, ItemsOK
  <2>4. QED
    BY <1>5, <2>1, <2>3
<1>7. QED
  BY <1>3, <1>4, <1>6

\* Any step of add_memory.
LEMMA AddMemoryRemembers ==
  ASSUME TextsApart, AgentInv, AgentInv', RemindersInv, NEW cl \in Client,
         CallAddMemory(cl) \/ AddMemoryGoesOn(cl) \/ AddMemoryReturns(cl)
  PROVE  RemindersInv'
<1>1. UNCHANGED reminderVars
  BY DEF CallAddMemory, AddMemoryGoesOn, AddMemoryReturns
<1>2. \/ AddSteps(cl)
      \/ \E c \in Content, u \in Owner : StartAdd(cl, c, u)
  <2>1. CASE CallAddMemory(cl)
    <3>1. PICK c : c = Asking(cl)
      OBVIOUS
    <3>2. /\ run[cl].at \in {"execute", "tool"} /\ c.tool = "add_memory" /\ c.args # NoArgs
          /\ StartAdd(cl, c.args.content, c.args.user)
      BY Zenon, <2>1, <3>1 DEF CallAddMemory, At
    <3>3. c.args \in MemoryArgs
      BY <3>1, <3>2, ArgumentsGiven
    <3>4. c.args.content \in Content /\ c.args.user \in Owner
      BY <3>3 DEF MemoryArgs
    <3>5. QED
      BY Zenon, <3>2, <3>4
  <2>2. CASE AddMemoryGoesOn(cl)
    BY <2>2 DEF AddMemoryGoesOn, AddSteps
  <2>3. CASE AddMemoryReturns(cl)
    BY <2>3 DEF AddMemoryReturns, AddSteps
  <2>4. QED
    BY <2>1, <2>2, <2>3
<1>3. Grows /\ RemindersGrow
  BY <1>1, <1>2, AddStepsGoOn DEF StoresGoOn
<1>4. \A i \in Id : Born(i) => items'[i][1].content \notin AskedTexts
  BY <1>2, AddMemoryBears
<1>5. OneMoreFailed /\ \A u \in Client : FromReplies(trace'[u])
  <2>1. CASE UNCHANGED trace
    BY <2>1, SameTraces
  <2>2. ASSUME AddMemoryReturns(cl)
        PROVE  \E outcome \in Outcome : Finish(cl, outcome)
    <3>1. ASSUME Reinforce(cl) \/ Update(cl) \/ Link(cl), Finish(cl, Memory(call[cl].id))
          PROVE  \E outcome \in Outcome : Finish(cl, outcome)
      <4>1. Grows
        BY <1>3
      <4>2. PICK c : c = Asking(cl)
        OBVIOUS
      <4>3. call[cl].id \in Id
        BY <3>1, <4>1, <4>2, WrittenIsTruthful
      <4>4. Memory(call[cl].id) \in Outcome
        BY Zenon, <4>3 DEF Outcome
      <4>5. QED
        BY Zenon, <3>1, <4>4
    <3>2. Error \in Outcome
      BY DEF Outcome
    <3>3. QED
      BY Zenon, <2>2, <3>1, <3>2 DEF AddMemoryReturns
  <2>3. CASE AddMemoryReturns(cl)
    <3>1. run[cl].at \in {"execute", "tool"}
      BY <2>3 DEF AddMemoryReturns, At
    <3>2. QED
      BY <2>2, <2>3, <3>1, FinishAddsFailed
  <2>4. UNCHANGED trace \/ AddMemoryReturns(cl)
    BY DEF CallAddMemory, AddMemoryGoesOn, Begin, agentVars
  <2>5. QED
    BY <2>1, <2>3, <2>4
<1>6. reminders' = reminders /\ Unfinished' = Unfinished
  BY <1>1 DEF reminderVars, Unfinished
<1>7. QED
  BY <1>3, <1>4, <1>5, <1>6, QuietStep

\* The row that put_prospective writes has a text that was asked for.
LEMMA NewRow ==
  ASSUME ReminderTypeOK, NEW cl, NEW a \in ReminderArgs,
         StartReminder(cl, a.content, a.type, a.condition, a.user),
         NEW k, k = Len(reminders) + 1, NEW c, c.args = a
  PROVE  /\ Len(reminders') = k /\ DOMAIN reminders' = DOMAIN reminders \cup {k}
         /\ MemoryText(k)' = AskedText(c)
<1>1. PICK r : r = [content |-> a.content, type |-> StoredType(a.type),
                    condition |-> a.condition, user |-> a.user, completed |-> FALSE]
  OBVIOUS
<1>2. r \in ProspectiveItem
  <2>1. /\ a.content \in Content /\ a.condition \in Condition /\ a.user \in Owner
        /\ StoredType(a.type) \in TriggerType
    BY DEF ReminderArgs, StoredType, TriggerType
  <2>2. QED
    BY <1>1, <2>1 DEF ProspectiveItem
<1>3. r.content = a.content /\ r.type = StoredType(a.type) /\ r.condition = a.condition
  BY <1>1
<1>4. reminders' = Append(reminders, r)
  BY Zenon, <1>1 DEF StartReminder
<1>5. PICK len \in Nat : /\ len = Len(reminders) /\ DOMAIN reminders = 1 .. len
                         /\ reminders \in Seq(ProspectiveItem)
  BY RemindersTyped
<1>6. /\ Len(reminders') = len + 1 /\ DOMAIN reminders' = 1 .. len + 1
      /\ reminders'[len + 1] = r
  BY <1>2, <1>4, <1>5, Appended
<1>7. MemoryText(k)' = AskedText(c)
  <2>1. reminders'[k] = r
    BY <1>5, <1>6
  <2>2. MemoryText(k)' = Remembered[<<r.content, r.type, r.condition>>]
    BY Zenon, <2>1 DEF MemoryText
  <2>3. AskedText(c) = Remembered[<<a.content, StoredType(a.type), a.condition>>]
    BY Zenon DEF AskedText
  <2>4. QED
    BY Zenon, <1>3, <2>2, <2>3
<1>8. DOMAIN reminders' = DOMAIN reminders \cup {k} /\ Len(reminders') = k
  BY <1>5, <1>6
<1>9. QED
  BY <1>7, <1>8

\* A row is written, and its memory is still to come.
LEMMA CallAddReminderRemembers ==
  ASSUME AgentInv, AgentInv', RemindersInv, NEW cl \in Client, CallAddReminder(cl)
  PROVE  RemindersInv'
<1>1. PICK c : c = Asking(cl)
  OBVIOUS
<1>2. /\ At(cl, "execute") /\ c.tool = "add_reminder" /\ c.args # NoArgs
      /\ StartReminder(cl, c.args.content, c.args.type, c.args.condition, c.args.user)
      /\ Begin(cl)
  BY Zenon, <1>1 DEF CallAddReminder
<1>3. run[cl].at = "execute" /\ run[cl].at \in {"execute", "tool"}
  BY <1>2 DEF At
<1>4. PICK a \in ReminderArgs : a = c.args
  BY <1>1, <1>2, <1>3, ArgumentsGiven
<1>5. StartReminder(cl, a.content, a.type, a.condition, a.user)
  BY Zenon, <1>2, <1>4
<1>6. PICK asked \in AskedOf("add_reminder") : asked.args = a
  <2>1. \E asked \in AskedOf(c.tool) : asked.args = c.args
    BY Zenon, <1>1, <1>2, <1>3, AskedIsFromReply
  <2>2. QED
    BY Zenon, <1>2, <1>4, <2>1
<1>7. PICK len : len = Len(reminders)
  OBVIOUS
<1>8. /\ len \in Nat /\ DOMAIN reminders = 1 .. len
      /\ reminding \in [Client -> 0 .. len] /\ ItemsOK
  BY <1>7, StoreTyped
<1>9. /\ Len(reminders') = len + 1 /\ DOMAIN reminders' = DOMAIN reminders \cup {len + 1}
      /\ MemoryText(len + 1)' = AskedText(asked)
  <2>1. PICK k : k = len + 1
    OBVIOUS
  <2>2. /\ Len(reminders') = k /\ DOMAIN reminders' = DOMAIN reminders \cup {k}
        /\ MemoryText(k)' = AskedText(asked)
    BY <1>5, <1>6, <1>7, <2>1, NewRow DEF AgentInv
  <2>3. QED
    BY Zenon, <2>1, <2>2
<1>10. RemindersGrow /\ reminding'[cl] = len + 1
  BY <1>5, <1>7, StartReminderKeeps DEF AgentInv, RemindersOK
<1>11. UNCHANGED <<items, trace>> /\ Grows
  <2>1. UNCHANGED <<items, trace>>
    BY <1>2, <1>5 DEF StartReminder, vars, storeVars, Begin
  <2>2. QED
    BY <2>1 DEF Grows
<1>12. ReminderTexts \subseteq ReminderTexts' /\ ReminderTexts' \subseteq AskedTexts
  <2>1. ReminderTexts \subseteq ReminderTexts'
    BY <1>10, TextsGrow
  <2>2. ASSUME NEW k \in DOMAIN reminders' PROVE MemoryText(k)' \in AskedTexts
    <3>1. CASE k = len + 1
      BY <1>9, <3>1 DEF AskedTexts
    <3>2. CASE k \in DOMAIN reminders
      <4>1. MemoryText(k)' = MemoryText(k)
        BY <1>10, <3>2 DEF RemindersGrow, MemoryText
      <4>2. MemoryText(k) \in AskedTexts
        BY <3>2 DEF RemindersInv, RowsAsked, ReminderTexts
      <4>3. QED
        BY <4>1, <4>2
    <3>3. QED
      BY <1>9, <2>2, <3>1, <3>2
  <2>3. QED
    BY <2>1, <2>2 DEF ReminderTexts
<1>13. \A i \in Id : Born(i) => items'[i][1].content \notin AskedTexts
  BY <1>11 DEF Born
<1>14. ItemsOK'
  BY <1>8, <1>11 DEF ItemsOK
<1>15. ReminderMemories' = ReminderMemories /\ OnlyReminders'
  BY <1>8, <1>11, <1>12, <1>13, <1>14, MemoriesStay DEF RemindersInv
<1>16. cl \notin Unfinished /\ Unfinished' = Unfinished \cup {cl}
  <2>1. reminding[cl] = 0
    BY <1>5 DEF StartReminder
  <2>2. \A o \in Client \ {cl} : reminding'[o] = reminding[o]
    BY <1>5, <1>8 DEF StartReminder
  <2>3. reminding'[cl] # 0
    BY <1>8, <1>10
  <2>4. QED
    BY <2>1, <2>2, <2>3 DEF Unfinished
<1>17. FailedCalls' = FailedCalls /\ \A u \in Client : FromReplies(trace'[u])
  BY <1>11, SameTraces
<1>18. RowsCounted'
  BY <1>7, <1>8, <1>9, <1>15, <1>16, <1>17, StartCounted DEF RemindersInv
<1>19. RowsAsked'
  BY <1>12 DEF RowsAsked
<1>20. (\A u \in Client : FromReplies(trace[u]))'
  BY <1>17 DEF FromReplies, FromReply
<1>21. QED
  BY <1>15, <1>18, <1>19, <1>20 DEF RemindersInv

\* The memory of a row is written, under a fresh id.
LEMMA RememberReminderBears ==
  ASSUME AgentInv, NEW cl \in Client, RememberReminder(cl)
  PROVE  \E i \in Id : /\ Born(i) /\ items'[i][1].content \in ReminderTexts
                       /\ \A j \in Id \ {i} : ~Born(j)
<1>1. PICK k : k = reminding[cl]
  OBVIOUS
<1>2. k \in DOMAIN reminders /\ ItemsOK
  BY <1>1, RememberReminderWrites, StoreTyped
<1>3. PICK r : r = reminders[k]
  OBVIOUS
<1>4. r \in ProspectiveItem
  BY <1>2, <1>3, RemindersTyped DEF AgentInv
<1>5. /\ r.content \in Content /\ r.type \in TriggerType /\ r.condition \in Condition
      /\ r.user \in Owner
  BY <1>4 DEF ProspectiveItem
<1>6. PICK t \in Content : t = MemoryText(k)
  BY <1>3, <1>5, ReminderAssumption DEF MemoryText
<1>7. PICK v : v = NewVersion(t, r.user)
  OBVIOUS
<1>8. v \in Version /\ v.content = t
  BY <1>5, <1>7 DEF NewVersion, Version
<1>9. PICK i \in Id : items[i] = <<>> /\ PutMemory(i, v)
  BY Zenon, <1>1, <1>3, <1>6, <1>7 DEF RememberReminder
<1>10. Born(i) /\ items'[i][1] = v /\ \A j \in Id \ {i} : ~Born(j)
  BY <1>2, <1>8, <1>9, OneBorn
<1>11. t \in ReminderTexts
  BY <1>2, <1>6 DEF ReminderTexts
<1>12. QED
  BY <1>8, <1>10, <1>11

\* add_reminder returns with the memory of its row, or with an error.
LEMMA AddReminderReturnsRemembers ==
  ASSUME AgentInv, AgentInv', RemindersInv, NEW cl \in Client, AddReminderReturns(cl)
  PROVE  RemindersInv'
<1>1. run[cl].at \in {"execute", "tool"} /\ reminding[cl] # 0
  BY DEF AddReminderReturns, RememberReminder, ReminderFails, At
<1>2. /\ ItemsOK /\ Len(reminders) \in Nat /\ reminding \in [Client -> 0 .. Len(reminders)]
      /\ ItemsOK'
  <2>1. ItemsOK'
    BY DEF AgentInv, AddInv, CoreInv
  <2>2. QED
    BY <2>1, StoreTyped
<1>3. reminders' = reminders /\ reminding' = [reminding EXCEPT ![cl] = 0]
  BY DEF AddReminderReturns, RememberReminder, ReminderFails
<1>4. cl \in Unfinished /\ Unfinished' = Unfinished \ {cl}
  <2>1. reminding'[cl] = 0 /\ \A o \in Client \ {cl} : reminding'[o] = reminding[o]
    BY <1>2, <1>3
  <2>2. QED
    BY <1>1, <2>1 DEF Unfinished
<1>5. ReminderTexts' = ReminderTexts
  BY <1>3 DEF ReminderTexts, MemoryText
<1>6. RowsAsked' /\ OnlyReminders /\ RowsCounted
  BY <1>5 DEF RemindersInv, RowsAsked
<1>7. ASSUME RememberReminder(cl), Finish(cl, Reminder(reminding[cl]))
      PROVE  RowsCounted' /\ OnlyReminders' /\ \A u \in Client : FromReplies(trace'[u])
  <2>1. PICK outcome : outcome = Reminder(reminding[cl])
    OBVIOUS
  <2>2. outcome \in Outcome
    <3>1. reminding[cl] \in Nat
      BY <1>2
    <3>2. QED
      BY Zenon, <2>1, <3>1 DEF Outcome
  <2>3. OneMoreFailed /\ \A u \in Client : FromReplies(trace'[u])
    BY Zenon, <1>1, <1>7, <2>1, <2>2, FinishAddsFailed
  <2>4. PICK i \in Id : /\ Born(i) /\ items'[i][1].content \in ReminderTexts
                        /\ \A j \in Id \ {i} : ~Born(j)
    BY <1>7, RememberReminderBears
  <2>5. Grows
    BY <1>7, RememberReminderWrites DEF StoresGoOn
  <2>6. /\ i \notin ReminderMemories /\ ReminderMemories' = ReminderMemories \cup {i}
        /\ OnlyReminders'
    BY <1>2, <1>5, <1>6, <2>4, <2>5, MemoryAdded
  <2>7. RowsCounted'
    BY <1>2, <1>3, <1>4, <1>6, <2>3, <2>6, RememberCounted
  <2>8. QED
    BY <2>3, <2>6, <2>7
<1>8. ASSUME ReminderFails(cl), Finish(cl, Error)
      PROVE  RowsCounted' /\ OnlyReminders' /\ \A u \in Client : FromReplies(trace'[u])
  <2>1. Error \in Outcome /\ Asking(cl).tool = "add_reminder"
    <3>1. PICK c : c = Asking(cl)
      OBVIOUS
    <3>2. c.tool = "add_reminder"
      BY Zenon, <1>1, <3>1, RunsAsked
    <3>3. QED
      BY Zenon, <3>1, <3>2 DEF Outcome
  <2>2. /\ \A u \in Client : FromReplies(trace'[u])
        /\ \E x : x \notin FailedCalls /\ FailedCalls' = FailedCalls \cup {x}
    BY Zenon, <1>1, <1>8, <2>1, FinishAddsFailed
  <2>3. items' = items
    BY <1>8 DEF ReminderFails, vars, storeVars
  <2>4. ReminderMemories' = ReminderMemories
    BY <1>5, <2>3 DEF ReminderMemories
  <2>5. OnlyReminders'
    BY <1>5, <1>6, <2>3 DEF OnlyReminders
  <2>6. RowsCounted'
    BY <1>2, <1>3, <1>4, <1>6, <2>2, <2>4, FailCounted
  <2>7. QED
    BY <2>2, <2>5, <2>6
<1>9. RowsCounted' /\ OnlyReminders' /\ \A u \in Client : FromReplies(trace'[u])
  BY Zenon, <1>7, <1>8 DEF AddReminderReturns
<1>10. (\A u \in Client : FromReplies(trace[u]))'
  BY <1>9 DEF FromReplies, FromReply
<1>11. QED
  BY <1>6, <1>9, <1>10 DEF RemindersInv

\* The application writes no memory first, and no row.
LEMMA ApplicationRemembers ==
  ASSUME AgentInv, AgentInv', RemindersInv, Application
  PROVE  RemindersInv'
<1>1. ItemsOK /\ DOMAIN reminders = 1 .. Len(reminders) /\ reminders \in Seq(ProspectiveItem)
      /\ RemindersOK
  BY StoreTyped DEF AgentInv, ReminderTypeOK, RemindersOK
<1>2. /\ OneMoreFailed /\ \A u \in Client : FromReplies(trace'[u])
  BY SameTraces DEF Application, agentVars
<1>3. reminding' = reminding
  BY DEF Application, CheckTriggers, Complete, Tick, reminderVars
<1>4. Unfinished' = Unfinished
  BY <1>3 DEF Unfinished
<1>5. /\ Grows /\ RemindersGrow /\ DOMAIN reminders' = DOMAIN reminders
      /\ \A i \in Id : ~Born(i)
  <2>1. ASSUME NEW i \in Id, Visible(i), InvalidateMemory(i),
               UNCHANGED <<edges, call, overlapped, reminderVars>>
        PROVE  /\ Grows /\ RemindersGrow /\ DOMAIN reminders' = DOMAIN reminders
               /\ \A j \in Id : ~Born(j)
    <3>1. Grows
      BY <2>1, InvalidateKeepsInv DEF AgentInv, AddInv
    <3>2. reminders' = reminders
      BY <2>1 DEF reminderVars
    <3>3. items[i] # <<>> /\ \A j \in Id \ {i} : items'[j] = items[j]
      BY <1>1, <2>1 DEF Visible, InvalidateMemory, PutMemory, ItemsOK
    <3>4. QED
      BY <3>1, <3>2, <3>3 DEF RemindersGrow, Born
  <2>2. ASSUME UNCHANGED vars
        PROVE  Grows /\ \A j \in Id : ~Born(j)
    BY <2>2 DEF vars, storeVars, Grows, Born
  <2>3. ASSUME NEW query, NEW u \in Owner, CheckTriggers(query, u)
        PROVE  UNCHANGED vars /\ RemindersGrow /\ DOMAIN reminders' = DOMAIN reminders
    BY <2>3 DEF CheckTriggers, RemindersGrow
  <2>4. ASSUME NEW k \in DOMAIN reminders, Complete(k)
        PROVE  UNCHANGED vars /\ RemindersGrow /\ DOMAIN reminders' = DOMAIN reminders
    <3>1. RemindersGrow
      BY <1>1, <2>4, CompleteKeeps
    <3>2. QED
      BY <2>4, <3>1 DEF Complete
  <2>5. ASSUME Tick
        PROVE  UNCHANGED vars /\ RemindersGrow /\ DOMAIN reminders' = DOMAIN reminders
    BY <2>5 DEF Tick, RemindersGrow
  <2>6. QED
    BY Zenon, <2>1, <2>2, <2>3, <2>4, <2>5 DEF Application
<1>6. QED
  BY <1>2, <1>4, <1>5, QuietStep

-----------------------------------------------------------------------------
\* The second invariant holds after every step.
LEMMA StepRemembers ==
  TextsApart /\ AgentInv /\ RemindersInv /\ [AgentNext]_allVars => RemindersInv'
<1>1. SUFFICES ASSUME TextsApart, AgentInv, RemindersInv, [AgentNext]_allVars
               PROVE  RemindersInv'
  OBVIOUS
<1>2. AgentInv'
  BY <1>1, StepKeepsAgent
<1>3. ASSUME NEW cl \in Client, StartRun(cl) \/ Continue(cl) PROVE RemindersInv'
  <2>1. CASE StartRun(cl) \/ Answer(cl) \/ LastAnswer(cl)
    BY <1>1, <1>2, <2>1, SayingRemembers
  <2>2. CASE RequestFails(cl) \/ CallFails(cl)
    BY <1>1, <1>2, <2>2, FailingRemembers
  <2>3. CASE CallAddMemory(cl) \/ AddMemoryGoesOn(cl) \/ AddMemoryReturns(cl)
    BY <1>1, <1>2, <2>3, AddMemoryRemembers
  <2>4. CASE CallAddReminder(cl)
    BY <1>1, <1>2, <2>4, CallAddReminderRemembers
  <2>5. CASE AddReminderReturns(cl)
    BY <1>1, <1>2, <2>5, AddReminderReturnsRemembers
  <2>6. QED
    BY Zenon, <1>3, <2>1, <2>2, <2>3, <2>4, <2>5 DEF Continue
<1>4. CASE Application
  BY <1>1, <1>2, <1>4, ApplicationRemembers
<1>5. CASE UNCHANGED allVars
  <2>1. UNCHANGED <<vars, reminderVars>> /\ UNCHANGED trace
    BY <1>5 DEF allVars, agentVars
  <2>2. QED
    BY <1>1, <1>2, <2>1, SameTraces, QuietRemembers
<1>6. QED
  BY Zenon, <1>1, <1>3, <1>4, <1>5 DEF AgentNext

\* It holds initially: there is nothing to count.
LEMMA InitRemembers == AgentInit => RemindersInv
<1>1. SUFFICES ASSUME AgentInit PROVE RemindersInv
  OBVIOUS
<1>2. PICK m : m = [role |-> "system", text |-> "instructions", id |-> 0, calls |-> <<>>]
  OBVIOUS
<1>3. PICK ms : ms = <<m>>
  OBVIOUS
<1>4. trace = [cl \in Client |-> ms]
  BY <1>1, <1>2, <1>3 DEF AgentInit, SystemMessage, Plain
<1>5. \A k \in DOMAIN ms : ms[k].calls = <<>>
  BY <1>2, <1>3
<1>6. \A cl \in Client : FromReplies(trace[cl])
  <2>1. FromReplies(ms)
    BY <1>5 DEF FromReplies
  <2>2. QED
    BY Zenon, <1>4, <2>1
<1>7. FailedCalls = {}
  <2>1. Calls(ms) = {}
    BY <1>5 DEF Calls
  <2>2. Failed(ms) = {}
    BY <2>1 DEF Failed, Outcomes
  <2>3. QED
    BY <1>4, <2>2 DEF FailedCalls
<1>8. /\ reminders = <<>> /\ Len(reminders) = 0 /\ DOMAIN reminders = {}
      /\ items = [i \in Id |-> <<>>]
      /\ reminding = [cl \in Client |-> 0]
  BY <1>1 DEF AgentInit, Init, StoreInit, ReminderInit
<1>9. ReminderTexts = {} /\ ReminderMemories = {} /\ Unfinished = {}
  BY <1>8 DEF ReminderTexts, ReminderMemories, Unfinished
<1>10. RowsAsked /\ OnlyReminders
  BY <1>8, <1>9 DEF RowsAsked, OnlyReminders
<1>11. RowsCounted
  BY <1>7, <1>8, <1>9, FS_EmptySet DEF RowsCounted
<1>12. QED
  BY <1>6, <1>10, <1>11 DEF RemindersInv

\* If nobody asks add_memory for the text of a memory of a reminder, every memory of a
\* reminder has its row, and a row without a memory belongs to a call that failed and
\* whose result says so, or that is between its two writes: a row never gets a second
\* memory, and a memory never outlives its row.
THEOREM RemindersAreRemembered ==
  ASSUME TextsApart PROVE AgentSpec => []RemindersRemembered
<1>1. ASSUME AgentInv, RemindersInv PROVE RemindersRemembered
  <2>1. RowsCounted /\ Len(reminders) \in Nat
    BY <1>1, StoreTyped DEF RemindersInv
  <2>2. /\ Cardinality(ReminderMemories) \in Nat /\ Cardinality(Unfinished) \in Nat
        /\ Cardinality(FailedCalls) \in Nat
    BY <2>1, FS_CardinalityType DEF RowsCounted
  <2>3. Len(reminders) - Cardinality(ReminderMemories)
          \in 0 .. Cardinality(Unfinished) + Cardinality(FailedCalls)
    BY <2>1, <2>2 DEF RowsCounted
  <2>4. QED
    BY Zenon, <2>3 DEF RemindersRemembered, Unfinished, FailedCalls, Failed
<1>2. AgentInit => AgentInv /\ RemindersInv
  BY InitIsOK, InitRemembers
<1>3. AgentInv /\ RemindersInv /\ [AgentNext]_allVars => AgentInv' /\ RemindersInv'
  BY StepKeepsAgent, StepRemembers
<1>4. QED
  BY <1>1, <1>2, <1>3, PTL DEF AgentSpec

\* Every step of a tool loop and its application is a step of the pool, or none.
LEMMA AgentStepIsPoolStep == AgentInv /\ [AgentNext]_allVars => [Pool!PoolNext]_Seen
<1>1. SUFFICES ASSUME AgentInv, [AgentNext]_allVars PROVE Pool!PoolNext \/ UNCHANGED Seen
  OBVIOUS
<1>2. CoreInv /\ ItemsOK
  BY <1>1 DEF AgentInv, AddInv, CoreInv
<1>3. ASSUME UNCHANGED vars PROVE Pool!PoolNext \/ UNCHANGED Seen
  BY <1>3, SameStoreSeesSame DEF vars, storeVars
<1>4. ASSUME NEW cl \in Client,
             \/ StartRun(cl) \/ Answer(cl) \/ LastAnswer(cl) \/ RequestFails(cl)
             \/ CallFails(cl) \/ CallAddReminder(cl)
      PROVE  Pool!PoolNext \/ UNCHANGED Seen
  <2>1. UNCHANGED vars
    BY Zenon, <1>4 DEF StartRun, Answer, LastAnswer, RequestFails, CallFails, CallAddReminder,
         StartReminder
  <2>2. QED
    BY <1>3, <2>1
<1>5. ASSUME NEW cl \in Client, CallAddMemory(cl) PROVE Pool!PoolNext \/ UNCHANGED Seen
  <2>1. UNCHANGED items
    BY Zenon, <1>5 DEF CallAddMemory, StartAdd, storeVars
  <2>2. QED
    BY <2>1, SameStoreSeesSame
<1>6. ASSUME NEW cl \in Client, AddMemoryGoesOn(cl) \/ AddMemoryReturns(cl)
      PROVE  Pool!PoolNext \/ UNCHANGED Seen
  <2>1. AddSteps(cl)
    BY <1>6 DEF AddMemoryGoesOn, AddMemoryReturns, AddSteps
  <2>2. QED
    BY <1>2, <2>1, AddIsPoolStep
<1>7. ASSUME NEW cl \in Client, AddReminderReturns(cl) PROVE Pool!PoolNext \/ UNCHANGED Seen
  <2>1. CASE ReminderFails(cl)
    BY <1>3, <2>1 DEF ReminderFails
  <2>2. CASE RememberReminder(cl)
    <3>1. PICK k : k = reminding[cl]
      OBVIOUS
    <3>2. k \in DOMAIN reminders
      BY <1>1, <2>2, <3>1, RememberReminderWrites
    <3>3. PICK r : r = reminders[k]
      OBVIOUS
    <3>4. r \in ProspectiveItem
      BY <1>1, <3>2, <3>3, RemindersTyped DEF AgentInv
    <3>5. /\ r.content \in Content /\ r.type \in TriggerType /\ r.condition \in Condition
          /\ r.user \in Owner
      BY <3>4 DEF ProspectiveItem
    <3>6. PICK t \in Content : t = MemoryText(k)
      BY <3>3, <3>5, ReminderAssumption DEF MemoryText
    <3>7. PICK i \in Id : items[i] = <<>> /\ PutMemory(i, NewVersion(t, r.user))
      BY Zenon, <2>2, <3>1, <3>3, <3>6 DEF RememberReminder
    <3>8. QED
      BY <1>2, <3>5, <3>7, NewIsPoolStep
  <2>3. QED
    BY <1>7, <2>1, <2>2 DEF AddReminderReturns
<1>8. CASE Application
  <2>1. ASSUME NEW i \in Id, InvalidateMemory(i) PROVE Pool!PoolNext \/ UNCHANGED Seen
    BY <1>2, <2>1, DeleteIsPoolStep
  <2>2. (\E i \in Id : InvalidateMemory(i)) \/ UNCHANGED vars
    BY Zenon, <1>8 DEF Application, CheckTriggers, Complete, Tick
  <2>3. QED
    BY <1>3, <2>1, <2>2
<1>9. CASE UNCHANGED allVars
  BY <1>3, <1>9 DEF allVars
<1>10. QED
  BY Zenon, <1>1, <1>4, <1>5, <1>6, <1>7, <1>8, <1>9 DEF AgentNext, Continue

\* So do tool loops, reminders and deletions: whatever an LLM asks for, a user's fact gives
\* way only to a call for that user or for nobody, and the memory of a reminder takes no
\* fact away.
THEOREM AgentsImplementPool == AgentSpec => RefinesPool
<1>1. AgentInit => Pool!PoolInit
  BY InitIsPoolInit DEF AgentInit
<1>2. QED
  BY <1>1, AgentInvHolds, AgentStepIsPoolStep, PTL DEF AgentSpec, RefinesPool, Pool!PoolSpec

-----------------------------------------------------------------------------
(***************************************************************************)
(* Runs run down.  A new round has less rounds before it, a result leaves  *)
(* less calls to do, and a step of a tool leaves less steps; a client's    *)
(* step is one of these, and nobody else's step touches a client.          *)
(***************************************************************************)
LeftRight ==
  \A cl \in Client :
    /\ Left(cl) \in Nat \X Nat \X Nat
    /\ run[cl].at = "idle" => Left(cl)[1] = 0
    /\ run[cl].at # "idle" =>
         /\ Left(cl)[1] = 2 * (MaxRounds - run[cl].round) + (IF run[cl].at = "ask" THEN 2 ELSE 1)
         /\ Left(cl)[1] > 0
         /\ Left(cl)[2] = run[cl].todo
         /\ Left(cl)[3] = StepsOfCall(cl)

\* How a client's run is typed.
LEMMA RunIs ==
  ASSUME AgentInv, NEW cl \in Client
  PROVE  /\ run[cl] \in Run /\ run[cl].round \in Nat /\ run[cl].todo \in Nat
         /\ MaxRounds \in Nat /\ run[cl].round <= MaxRounds
         /\ run[cl].at \in {"ask", "execute", "tool"} => run[cl].round < MaxRounds
         /\ run[cl].at \in {"execute", "tool"} => run[cl].todo > 0
  BY AgentAssumption DEF AgentInv, ClientOK, RoundsOK, Run

\* What is left is three numbers.
LEMMA LeftIs == AgentInv => LeftRight
<1> SUFFICES ASSUME AgentInv, NEW cl \in Client
             PROVE  /\ Left(cl) \in Nat \X Nat \X Nat
                    /\ run[cl].at = "idle" => Left(cl)[1] = 0
                    /\ run[cl].at # "idle" =>
                         /\ Left(cl)[1] = 2 * (MaxRounds - run[cl].round)
                                            + (IF run[cl].at = "ask" THEN 2 ELSE 1)
                         /\ Left(cl)[1] > 0
                         /\ Left(cl)[2] = run[cl].todo
                         /\ Left(cl)[3] = StepsOfCall(cl)
  BY Zenon DEF LeftRight
<1>1. StepsOfCall(cl) \in Nat
  BY DEF StepsOfCall
<1>2. PICK a : a = 2 * (MaxRounds - run[cl].round) + (IF run[cl].at = "ask" THEN 2 ELSE 1)
  OBVIOUS
<1>3. a \in Nat /\ a > 0 /\ run[cl].todo \in Nat
  BY <1>2, RunIs
<1>4. PICK s : s = StepsOfCall(cl)
  OBVIOUS
<1>5. CASE run[cl].at = "idle"
  <2>1. Left(cl) = <<0, 0, 0>>
    BY <1>5 DEF Left, At
  <2>2. QED
    BY <1>5, <2>1
<1>6. CASE run[cl].at # "idle"
  <2>1. Left(cl) = <<a, run[cl].todo, s>>
    BY <1>2, <1>4, <1>6 DEF Left, At
  <2>2. s \in Nat
    BY <1>1, <1>4
  <2>3. QED
    BY <1>2, <1>3, <1>4, <1>6, <2>1, <2>2
<1>7. QED
  BY <1>5, <1>6

\* So it is after a step.
LEMMA LeftIsNext == AgentInv' => LeftRight'
  BY LeftIs, PTL

Kept(o) == <<run[o], trace[o], call[o], reminding[o]>>' = <<run[o], trace[o], call[o], reminding[o]>>

\* what one step of one client does: it comes closer to its end, and nobody else moves
RunsDown(cl) ==
  /\ ~At(cl, "idle") => Less(Left(cl)', Left(cl))
  /\ \A o \in Client \ {cl} : Kept(o)

\* A client stops asking, and its run is over.
LEMMA EndIsLess ==
  ASSUME AgentInv, AgentInv', NEW cl \in Client, run[cl].at # "idle", run'[cl].at = "idle"
  PROVE  Less(Left(cl)', Left(cl))
<1>1. Left(cl)[1] \in Nat /\ Left(cl)[1] > 0
  BY LeftIs DEF LeftRight
<1>2. Left(cl)'[1] = 0
  BY LeftIsNext DEF LeftRight
<1>3. QED
  BY <1>1, <1>2 DEF Less

\* A result is reported.
LEMMA FinishIsLess ==
  ASSUME AgentInv, AgentInv', NEW cl \in Client, run[cl].at \in {"execute", "tool"},
         NEW outcome, Finish(cl, outcome)
  PROVE  /\ Less(Left(cl)', Left(cl))
         /\ \A o \in Client \ {cl} : run'[o] = run[o] /\ trace'[o] = trace[o]
<1>1. PICK todo, round : /\ todo = run[cl].todo - 1
                         /\ round = IF todo = 0 THEN run[cl].round + 1 ELSE run[cl].round
  OBVIOUS
<1>2. PICK r : r = [run[cl] EXCEPT !.at = IF todo = 0 THEN AskNext(round) ELSE "execute",
                                   !.round = round, !.todo = todo]
  OBVIOUS
<1>3. /\ trace' = [trace EXCEPT ![cl] = @ \o Report(Asking(cl).id, outcome)]
      /\ Become(cl, r)
  BY Zenon, <1>1, <1>2 DEF Finish
<1>4. /\ run[cl] \in Run /\ run[cl].round \in Nat /\ run[cl].todo \in Nat /\ run[cl].todo > 0
      /\ run[cl].round < MaxRounds /\ MaxRounds \in Nat
  BY RunIs
<1>5. /\ todo \in Nat /\ round \in Nat /\ round <= MaxRounds /\ todo < run[cl].todo
      /\ todo = 0 => round = run[cl].round + 1
      /\ todo # 0 => round = run[cl].round
  BY <1>1, <1>4
<1>6. AskNext(round) \in {"ask", "last"}
  BY <1>5, AskNextOK
<1>7. /\ r.round = round /\ r.todo = todo
      /\ r.at = IF todo = 0 THEN AskNext(round) ELSE "execute"
      /\ r \in Run
  BY <1>2, <1>4, <1>5, <1>6 DEF Run
<1>8. run \in [Client -> Run] /\ DOMAIN trace = Client
  BY DEF AgentInv
<1>9. /\ run'[cl] = r /\ \A o \in Client \ {cl} : run'[o] = run[o]
  BY <1>3, <1>7, <1>8, BecomeMoves
<1>10. \A o \in Client \ {cl} : trace'[o] = trace[o]
  BY <1>3, <1>8
<1>11. Left(cl)[1] = 2 * (MaxRounds - run[cl].round) + 1 /\ Left(cl)[2] = run[cl].todo
  BY LeftIs DEF LeftRight
<1>12. CASE todo = 0
  <2>1. r.at \in {"ask", "last"} /\ r.round = run[cl].round + 1
    BY <1>5, <1>6, <1>7, <1>12
  <2>2. Left(cl)'[1] = 2 * (MaxRounds - (run[cl].round + 1)) + (IF r.at = "ask" THEN 2 ELSE 1)
    BY <1>9, <2>1, LeftIsNext DEF LeftRight
  <2>3. Left(cl)'[1] < Left(cl)[1]
    BY <1>4, <1>11, <2>2
  <2>4. QED
    BY <1>9, <1>10, <2>3 DEF Less
<1>13. CASE todo # 0
  <2>1. r.at = "execute" /\ r.round = run[cl].round
    BY <1>5, <1>7, <1>13
  <2>2. Left(cl)'[1] = 2 * (MaxRounds - run[cl].round) + 1 /\ Left(cl)'[2] = todo
    BY <1>7, <1>9, <2>1, LeftIsNext DEF LeftRight
  <2>3. QED
    BY <1>5, <1>9, <1>10, <1>11, <2>2 DEF Less
<1>14. QED
  BY <1>12, <1>13

\* A step of the call, in the same round and with the same calls to do.
LEMMA ToolIsLess ==
  ASSUME AgentInv, AgentInv', NEW cl \in Client, run[cl].at \in {"execute", "tool"},
         run'[cl].at = "tool", run'[cl].round = run[cl].round, run'[cl].todo = run[cl].todo,
         StepsOfCall(cl)' < StepsOfCall(cl)
  PROVE  Less(Left(cl)', Left(cl))
<1>1. /\ Left(cl)[1] = 2 * (MaxRounds - run[cl].round) + 1
      /\ Left(cl)[2] = run[cl].todo /\ Left(cl)[3] = StepsOfCall(cl)
  BY LeftIs DEF LeftRight
<1>2. /\ Left(cl)'[1] = 2 * (MaxRounds - run[cl].round) + 1
      /\ Left(cl)'[2] = run[cl].todo /\ Left(cl)'[3] = StepsOfCall(cl)'
  BY LeftIsNext DEF LeftRight
<1>3. QED
  BY <1>1, <1>2 DEF Less

\* The calls of add_memory of others are left alone by each step of one.
LEMMA AddStepsMoveOne ==
  ASSUME AgentInv, NEW cl \in Client,
         AddSteps(cl) \/ \E c \in Content, u \in Owner : StartAdd(cl, c, u)
  PROVE  \A o \in Client \ {cl} : call'[o] = call[o]
<1>1. call \in [Client -> Call]
  BY DEF AgentInv, AddInv, CoreInv, CallsOK
<1>2. \E new : call' = [call EXCEPT ![cl] = new]
  BY Zenon DEF AddSteps, StartAdd, Reinforce, SearchSimilar, Update, Store, Link, Fail, Proceed, Return
<1>3. QED
  BY <1>1, <1>2

\* A message is pushed and the run becomes another.
LEMMA PushMovesOne ==
  ASSUME AgentInv, NEW cl \in Client, NEW m, NEW r, Push(cl, m), Become(cl, r),
         UNCHANGED <<vars, reminderVars>>
  PROVE  /\ run'[cl] = r
         /\ \A o \in Client \ {cl} : Kept(o)
  BY DEF AgentInv, Push, Become, Kept, vars, reminderVars

\* The LLM is asked.
LEMMA AnswerRunsDown ==
  ASSUME AgentInv, AgentInv', NEW cl \in Client,
         Answer(cl) \/ LastAnswer(cl) \/ RequestFails(cl)
  PROVE  RunsDown(cl)
<1>1. run[cl].at \in {"ask", "last"} /\ UNCHANGED <<vars, reminderVars>>
  BY DEF Answer, LastAnswer, RequestFails, At
<1>2. CASE Answer(cl)
  <2>1. PICK reply \in Reply :
          LET r == Decode(reply, Cardinality(Asked(trace[cl])))
          IN  /\ Push(cl, AssistantMessage(r.text, r.calls))
              /\ Become(cl, IF r.calls = <<>>
                            THEN NoRun
                            ELSE [run[cl] EXCEPT !.at = "execute", !.todo = Len(r.calls)])
    BY Zenon, <1>2 DEF Answer
  <2>2. PICK r : r = Decode(reply, Cardinality(Asked(trace[cl])))
    OBVIOUS
  <2>3. PICK new : new = IF r.calls = <<>>
                         THEN NoRun
                         ELSE [run[cl] EXCEPT !.at = "execute", !.todo = Len(r.calls)]
    OBVIOUS
  <2>4. Push(cl, AssistantMessage(r.text, r.calls)) /\ Become(cl, new)
    BY Zenon, <2>1, <2>2, <2>3
  <2>5. run'[cl] = new /\ \A o \in Client \ {cl} : Kept(o)
    BY Zenon, <1>1, <2>4, PushMovesOne
  <2>6. run[cl] \in Run /\ run[cl].at = "ask" /\ MaxRounds \in Nat /\ run[cl].round \in Nat
    BY <1>2, RunIs DEF Answer, At
  <2>7. CASE new = NoRun
    <3>1. run'[cl].at = "idle" /\ run[cl].at # "idle"
      BY <2>5, <2>6, <2>7, NoRunOK
    <3>2. QED
      BY <2>5, <3>1, EndIsLess DEF RunsDown
  <2>8. CASE new = [run[cl] EXCEPT !.at = "execute", !.todo = Len(r.calls)]
    <3>1. new.at = "execute" /\ new.round = run[cl].round
      BY <2>6, <2>8 DEF Run
    <3>2. Left(cl)[1] = 2 * (MaxRounds - run[cl].round) + 2
      BY <2>6, LeftIs DEF LeftRight
    <3>3. Left(cl)'[1] = 2 * (MaxRounds - run[cl].round) + 1
      BY <2>5, <3>1, LeftIsNext DEF LeftRight
    <3>4. Left(cl)'[1] < Left(cl)[1]
      BY <2>6, <3>2, <3>3
    <3>5. QED
      BY <2>5, <3>4 DEF RunsDown, Less
  <2>9. QED
    BY <2>3, <2>7, <2>8
<1>3. CASE LastAnswer(cl)
  <2>1. PICK m : Push(cl, m) /\ Become(cl, NoRun)
    BY Zenon, <1>3 DEF LastAnswer
  <2>2. run'[cl] = NoRun /\ \A o \in Client \ {cl} : Kept(o)
    BY Zenon, <1>1, <2>1, PushMovesOne
  <2>3. run'[cl].at = "idle" /\ run[cl].at # "idle"
    BY <1>1, <2>2, NoRunOK
  <2>4. QED
    BY <2>2, <2>3, EndIsLess DEF RunsDown
<1>4. CASE RequestFails(cl)
  <2>1. Become(cl, NoRun) /\ trace' = trace
    BY <1>4 DEF RequestFails
  <2>2. run'[cl] = NoRun /\ \A o \in Client \ {cl} : run'[o] = run[o]
    BY <2>1, NoRunOK, BecomeMoves DEF AgentInv
  <2>3. \A o \in Client \ {cl} : Kept(o)
    BY <1>1, <2>1, <2>2 DEF Kept, vars, reminderVars
  <2>4. run'[cl].at = "idle" /\ run[cl].at # "idle"
    BY <1>1, <2>2, NoRunOK
  <2>5. QED
    BY <2>3, <2>4, EndIsLess DEF RunsDown
<1>5. QED
  BY <1>2, <1>3, <1>4

\* A call begins.
LEMMA BeginIsLess ==
  ASSUME AgentInv, AgentInv', NEW cl \in Client, run[cl].at = "execute", Begin(cl)
  PROVE  /\ Less(Left(cl)', Left(cl))
         /\ \A o \in Client \ {cl} : run'[o] = run[o] /\ trace'[o] = trace[o]
<1>1. PICK r : r = [run[cl] EXCEPT !.at = "tool"]
  OBVIOUS
<1>2. Become(cl, r) /\ UNCHANGED <<trace, runs>>
  BY Zenon, <1>1 DEF Begin
<1>3. run[cl] \in Run
  BY RunIs
<1>4. r \in Run /\ r.at = "tool" /\ r.todo = run[cl].todo /\ r.round = run[cl].round
  BY <1>1, <1>3 DEF Run
<1>5. run'[cl] = r /\ \A o \in Client \ {cl} : run'[o] = run[o]
  BY <1>2, <1>4, BecomeMoves DEF AgentInv
<1>6. StepsOfCall(cl) = 4
  BY DEF StepsOfCall, At
<1>7. StepsOfCall(cl)' \in 1 .. 3
  BY <1>4, <1>5 DEF StepsOfCall, At
<1>8. StepsOfCall(cl)' < StepsOfCall(cl)
  BY <1>6, <1>7
<1>9. Less(Left(cl)', Left(cl))
  BY <1>4, <1>5, <1>8, ToolIsLess
<1>10. QED
  BY <1>2, <1>5, <1>9

\* A call of a tool begins, or goes on.
LEMMA CallRunsDown ==
  ASSUME AgentInv, AgentInv', NEW cl \in Client,
         CallAddMemory(cl) \/ CallAddReminder(cl) \/ AddMemoryGoesOn(cl)
  PROVE  RunsDown(cl)
<1>1. CASE CallAddMemory(cl)
  <2>1. run[cl].at = "execute" /\ Begin(cl) /\ UNCHANGED reminderVars
    BY Zenon, <1>1 DEF CallAddMemory, At
  <2>2. PICK c, u : StartAdd(cl, c, u)
    BY Zenon, <1>1 DEF CallAddMemory
  <2>3. \A o \in Client \ {cl} : call'[o] = call[o]
    BY <2>2, StartAddMoves DEF AgentInv, AddInv, CoreInv
  <2>4. \A o \in Client \ {cl} : Kept(o)
    BY <2>1, <2>3, BeginIsLess DEF Kept, reminderVars
  <2>5. QED
    BY <2>1, <2>4, BeginIsLess DEF RunsDown
<1>2. CASE CallAddReminder(cl)
  <2>1. run[cl].at = "execute" /\ Begin(cl)
    BY Zenon, <1>2 DEF CallAddReminder, At
  <2>2. PICK c, t, d, u : StartReminder(cl, c, t, d, u)
    BY Zenon, <1>2 DEF CallAddReminder
  <2>3. call' = call /\ \A o \in Client \ {cl} : reminding'[o] = reminding[o]
    BY <2>2 DEF StartReminder, vars, AgentInv, ReminderTypeOK
  <2>4. \A o \in Client \ {cl} : Kept(o)
    BY <2>1, <2>3, BeginIsLess DEF Kept
  <2>5. QED
    BY <2>1, <2>4, BeginIsLess DEF RunsDown
<1>3. CASE AddMemoryGoesOn(cl)
  <2>1. /\ run[cl].at = "tool" /\ UNCHANGED <<run, trace, reminding>>
        /\ SearchSimilar(cl) \/ Store(cl)
    BY <1>3 DEF AddMemoryGoesOn, At, agentVars, reminderVars
  <2>2. \A o \in Client \ {cl} : Kept(o)
    BY <2>1, AddStepsMoveOne DEF Kept, AddSteps
  <2>3. CASE SearchSimilar(cl)
    <3>1. call[cl].at = "search"
      BY <2>3 DEF SearchSimilar
    <3>2. \/ \E h : Proceed(cl, "update", h[1], Hit(h))
          \/ Proceed(cl, "store", None, None)
      BY Zenon, <2>3 DEF SearchSimilar
    <3>3. call'[cl].at \in {"update", "store"}
      BY <3>2, ProceedOnlyMe DEF AgentInv, AddInv, CoreInv
    <3>4. StepsOfCall(cl) = 3 /\ StepsOfCall(cl)' \in 1 .. 2
      BY <2>1, <3>1, <3>3 DEF StepsOfCall, At
    <3>5. QED
      BY <2>1, <2>2, <3>4, ToolIsLess DEF RunsDown
  <2>4. CASE Store(cl)
    <3>1. call[cl].at = "store" /\ \E i : Proceed(cl, "link", i, None)
      BY Zenon, <2>4 DEF Store
    <3>2. call'[cl].at = "link"
      BY <3>1, ProceedOnlyMe DEF AgentInv, AddInv, CoreInv
    <3>3. StepsOfCall(cl) = 2 /\ StepsOfCall(cl)' = 1
      BY <2>1, <3>1, <3>2 DEF StepsOfCall, At
    <3>4. QED
      BY <2>1, <2>2, <3>3, ToolIsLess DEF RunsDown
  <2>5. QED
    BY <2>1, <2>3, <2>4
<1>4. QED
  BY <1>1, <1>2, <1>3

\* A call of a tool returns.
LEMMA ReturnRunsDown ==
  ASSUME AgentInv, AgentInv', NEW cl \in Client,
         CallFails(cl) \/ AddMemoryReturns(cl) \/ AddReminderReturns(cl)
  PROVE  RunsDown(cl)
<1>1. run[cl].at \in {"execute", "tool"} /\ \E outcome : Finish(cl, outcome)
  BY Zenon DEF CallFails, AddMemoryReturns, AddReminderReturns, At
<1>2. \A o \in Client \ {cl} : call'[o] = call[o] /\ reminding'[o] = reminding[o]
  <2>1. CASE CallFails(cl)
    BY <2>1 DEF CallFails, vars, reminderVars
  <2>2. CASE AddMemoryReturns(cl)
    <3>1. UNCHANGED reminding /\ AddSteps(cl)
      BY Zenon, <2>2 DEF AddMemoryReturns, AddSteps, reminderVars
    <3>2. QED
      BY <3>1, AddStepsMoveOne
  <2>3. CASE AddReminderReturns(cl)
    <3>1. RememberReminder(cl) \/ ReminderFails(cl)
      BY Zenon, <2>3 DEF AddReminderReturns
    <3>2. call' = call /\ reminding' = [reminding EXCEPT ![cl] = 0]
      BY <3>1 DEF RememberReminder, ReminderFails, vars
    <3>3. QED
      BY <3>2 DEF AgentInv, ReminderTypeOK
  <2>4. QED
    BY <2>1, <2>2, <2>3
<1>3. /\ Less(Left(cl)', Left(cl))
      /\ \A o \in Client \ {cl} : run'[o] = run[o] /\ trace'[o] = trace[o]
  BY <1>1, FinishIsLess
<1>4. QED
  BY <1>2, <1>3 DEF RunsDown, Kept

\* A run begins; the client was idle.
LEMMA StartRunsDown ==
  ASSUME AgentInv, NEW cl \in Client, StartRun(cl)
  PROVE  RunsDown(cl)
<1>1. At(cl, "idle") /\ \A o \in Client \ {cl} : Kept(o)
  <2>1. PICK r : Push(cl, UserMessage("question")) /\ Become(cl, r)
    BY Zenon DEF StartRun
  <2>2. At(cl, "idle") /\ UNCHANGED <<vars, reminderVars>>
    BY DEF StartRun
  <2>3. QED
    BY <2>1, <2>2, PushMovesOne
<1>2. QED
  BY <1>1 DEF RunsDown

\* Whatever happens, a client that moves in a run comes closer to its end.
LEMMA EveryStepRunsDown == AgentInv /\ AgentInv' /\ [AgentNext]_allVars => \A cl \in Client : ComesCloser(cl)
<1> SUFFICES ASSUME AgentInv, AgentInv', [AgentNext]_allVars PROVE \A o \in Client : ComesCloser(o)
  OBVIOUS
<1>1. ASSUME NEW cl \in Client, StartRun(cl) \/ Continue(cl) PROVE \A o \in Client : ComesCloser(o)
  <2>1. RunsDown(cl)
    <3>1. CASE StartRun(cl)
      BY <3>1, StartRunsDown
    <3>2. CASE Answer(cl) \/ LastAnswer(cl) \/ RequestFails(cl)
      BY <3>2, AnswerRunsDown
    <3>3. CASE CallAddMemory(cl) \/ CallAddReminder(cl) \/ AddMemoryGoesOn(cl)
      BY <3>3, CallRunsDown
    <3>4. CASE CallFails(cl) \/ AddMemoryReturns(cl) \/ AddReminderReturns(cl)
      BY <3>4, ReturnRunsDown
    <3>5. QED
      BY Zenon, <1>1, <3>1, <3>2, <3>3, <3>4 DEF Continue
  <2>2. QED
    BY <2>1, LeftIsNext DEF ComesCloser, RunsDown, Kept, LeftRight
<1>2. ASSUME \A cl \in Client : Kept(cl) PROVE \A o \in Client : ComesCloser(o)
  BY <1>2 DEF ComesCloser, Kept
<1>3. CASE Application
  <2>1. UNCHANGED <<run, trace>> /\ UNCHANGED <<call, reminding>>
    BY <1>3 DEF Application, agentVars, CheckTriggers, Complete, Tick, vars, reminderVars
  <2>2. QED
    BY <1>2, <2>1 DEF Kept
<1>4. CASE UNCHANGED allVars
  BY <1>2, <1>4 DEF Kept, allVars, vars, reminderVars, agentVars
<1>5. QED
  BY Zenon, <1>1, <1>3, <1>4 DEF AgentNext

\* Every step a client makes in a run lowers how far it is from its end, in an order in which
\* nothing can be lowered for ever (run_with_tools: max_rounds, the loop over the calls, no
\* retry): this is why a run returns, for any number of rounds and any answers.
THEOREM RunsComeToAnEnd == AgentSpec => RunsRunDown
  BY AgentInvHolds, EveryStepRunsDown, PTL DEF AgentSpec, RunsRunDown

=============================================================================
