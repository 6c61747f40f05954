------------------------- MODULE WireFormatsProofs -------------------------
(***************************************************************************)
(* Proofs about the requests of the three clients, for traces of any       *)
(* length: what a trace says of its calls and their results, each format   *)
(* says to its provider.                                                   *)
(***************************************************************************)
EXTENDS WireFormats, SequenceLemmas

-----------------------------------------------------------------------------
(* One message.                                                            *)

Message(Texts, Issued) ==
  [role : {"system", "user", "assistant", "tool_result"}, text : Texts, id : Nat,
   calls : Seq(Issued)]

\* w tells provider p what m is: which calls it makes, and which it gives a result of
Carries(p, w, m) ==
  /\ Len(PartsOf(w, "call")) = Len(m.calls)
  /\ DOMAIN PartsOf(w, "call") = DOMAIN m.calls
  /\ \A j \in DOMAIN m.calls : p = "gemini" \/ PartsOf(w, "call")[j].id = m.calls[j].id
  /\ IsResult(m) => Len(w.parts) = 1 /\ w.parts[1].kind = "result" /\ w.parts[1].id = m.id
  /\ ~IsResult(m) => PartsOf(w, "result") = <<>>

\* the parts of a message that is no sequence of mixed parts
LEMMA PartsOfOneKind ==
  ASSUME NEW S, NEW w, w.parts \in Seq(S), NEW kind, NEW other, kind # other,
         \A n \in DOMAIN w.parts : w.parts[n].kind = kind
  PROVE  PartsOf(w, kind) = w.parts /\ PartsOf(w, other) = <<>>
<1>1. {n \in DOMAIN w.parts : w.parts[n].kind = kind} = DOMAIN w.parts
  OBVIOUS
<1>2. {n \in DOMAIN w.parts : w.parts[n].kind = other} = {}
  OBVIOUS
<1>3. PartsOf(w, kind) = w.parts
  BY <1>1, SelectedAll DEF PartsOf
<1>4. PartsOf(w, other) = <<>>
  BY <1>2, SelectedNone DEF PartsOf
<1>5. QED
  BY <1>3, <1>4

\* a message of text
LEMMA TextCarries ==
  ASSUME NEW p, NEW m, m.calls = <<>>, ~IsResult(m), NEW w, w.parts = <<Text(m.text)>>
  PROVE  Carries(p, w, m)
<1> DEFINE S == {Text(m.text)}
<1>1. w.parts \in Seq(S) /\ \A n \in DOMAIN w.parts : w.parts[n].kind = "text"
  BY DEF Text
<1>2. PartsOf(w, "call") = <<>> /\ PartsOf(w, "result") = <<>>
  BY <1>1, PartsOfOneKind
<1>3. QED
  BY <1>2 DEF Carries

\* the result of a call
LEMMA ResultCarries ==
  ASSUME NEW p, NEW m, m.calls = <<>>, IsResult(m), NEW w, w.parts = <<Result(m.id, m.text)>>
  PROVE  Carries(p, w, m)
<1> DEFINE S == {Result(m.id, m.text)}
<1>1. w.parts \in Seq(S) /\ \A n \in DOMAIN w.parts : w.parts[n].kind = "result"
  BY DEF Result
<1>2. PartsOf(w, "call") = <<>>
  BY <1>1, PartsOfOneKind
<1>3. Len(w.parts) = 1 /\ w.parts[1].kind = "result" /\ w.parts[1].id = m.id
  BY DEF Result
<1>4. QED
  BY <1>2, <1>3 DEF Carries

\* calls behind a text that may be empty
LEMMA CallsCarry ==
  ASSUME NEW p, NEW m, NEW Issued, m.calls \in Seq(Issued), ~IsResult(m),
         NEW w, w.parts = TextUnlessEmpty(m.text) \o Uses(m)
  PROVE  Carries(p, w, m)
<1> DEFINE S == {Text(m.text)} \cup {Use(m.calls[k].id, m.calls[k].tool) : k \in DOMAIN m.calls}
           text == TextUnlessEmpty(m.text)
           uses == Uses(m)
           len == Len(m.calls)
<1>1. len \in Nat /\ DOMAIN m.calls = 1 .. len
  OBVIOUS
<1>2. text \in Seq(S) /\ Len(text) \in {0, 1} /\ \A n \in 1 .. Len(text) : text[n].kind = "text"
  <2>1. CASE text = <<>>
    BY <2>1
  <2>2. CASE text = <<Text(m.text)>>
    <3>1. Text(m.text) \in S /\ Text(m.text).kind = "text"
      BY DEF Text
    <3> HIDE DEF S, text
    <3>2. QED
      BY <2>2, <3>1
  <2>3. QED
    BY <2>1, <2>2 DEF TextUnlessEmpty
<1>3. /\ uses \in Seq(S) /\ Len(uses) = len
      /\ \A j \in 1 .. len : uses[j].kind = "call" /\ uses[j].id = m.calls[j].id
  <2>1. uses = [k \in 1 .. len |-> Use(m.calls[k].id, m.calls[k].tool)]
    BY <1>1 DEF Uses
  <2>2. \A k \in 1 .. len : Use(m.calls[k].id, m.calls[k].tool) \in S
    BY <1>1
  <2>3. uses \in Seq(S) /\ Len(uses) = len
    BY <1>1, <2>1, <2>2
  <2>4. QED
    BY <2>1, <2>3 DEF Use
<1> HIDE DEF text, uses
<1>4. PICK parts : parts = text \o uses
  OBVIOUS
<1>5. /\ parts \in Seq(S) /\ Len(parts) = Len(text) + len
      /\ \A n \in 1 .. Len(text) : parts[n] = text[n]
      /\ \A j \in 1 .. len : parts[Len(text) + j] = uses[j]
  BY <1>1, <1>2, <1>3, <1>4
<1>6. \A n \in 1 .. Len(parts) : parts[n].kind = IF n > Len(text) THEN "call" ELSE "text"
  <2>1. SUFFICES ASSUME NEW n \in 1 .. Len(parts)
                 PROVE  parts[n].kind = IF n > Len(text) THEN "call" ELSE "text"
    OBVIOUS
  <2>2. CASE n > Len(text)
    <3>1. n - Len(text) \in 1 .. len /\ Len(text) + (n - Len(text)) = n
      BY <1>1, <1>2, <1>5, <2>2
    <3>2. QED
      BY <1>3, <1>5, <2>2, <3>1
  <2>3. CASE ~(n > Len(text))
    BY <1>2, <1>5, <2>3
  <2>4. QED
    BY <2>2, <2>3
<1>7. w.parts = parts /\ DOMAIN parts = 1 .. Len(parts)
  <2>1. w.parts = parts
    BY Zenon, <1>4 DEF text, uses
  <2>2. QED
    BY <1>5, <2>1
<1>8. PartsOf(w, "result") = <<>>
  <2>1. {n \in DOMAIN parts : parts[n].kind = "result"} = {}
    BY <1>6, <1>7
  <2>2. QED
    BY <1>5, <1>7, <2>1, SelectedNone DEF PartsOf
<1>9. PartsOf(w, "call") = [j \in 1 .. len |-> uses[j]]
  <2>1. PICK K : K = {n \in DOMAIN parts : parts[n].kind = "call"}
    OBVIOUS
  <2>2. K \in SUBSET DOMAIN parts /\ \A n \in 1 .. Len(parts) : n \in K <=> n > Len(text)
    BY <1>6, <1>7, <2>1
  <2>3. Len(text) \in 0 .. Len(parts) /\ Len(parts) - Len(text) = len
    BY <1>1, <1>2, <1>5
  <2>4. parts \in Seq(S)
    BY <1>5
  <2> HIDE DEF S
  <2>5. Selected(parts, K) = [j \in 1 .. Len(parts) - Len(text) |-> parts[Len(text) + j]]
    BY <2>2, <2>3, <2>4, SelectedRest
  <2>6. Selected(parts, K) = [j \in 1 .. len |-> uses[j]]
    BY <1>5, <2>3, <2>5
  <2>7. QED
    BY <1>7, <2>1, <2>6 DEF PartsOf
<1>10. QED
  BY <1>1, <1>3, <1>8, <1>9 DEF Carries

\* the calls of a message for Gemini, which keeps nothing else of it
LEMMA GeminiCallsCarry ==
  ASSUME NEW m, NEW Issued, m.calls \in Seq(Issued), ~IsResult(m),
         NEW w, w.parts = [k \in DOMAIN m.calls |-> Use(0, m.calls[k].tool)]
  PROVE  Carries("gemini", w, m)
<1> DEFINE S == {Use(0, m.calls[k].tool) : k \in DOMAIN m.calls}
<1>1. Len(m.calls) \in Nat /\ DOMAIN m.calls = 1 .. Len(m.calls)
  OBVIOUS
<1>2. /\ w.parts \in Seq(S) /\ Len(w.parts) = Len(m.calls)
      /\ \A n \in DOMAIN w.parts : w.parts[n].kind = "call"
  BY <1>1 DEF Use
<1> HIDE DEF S
<1>3. PartsOf(w, "call") = w.parts /\ PartsOf(w, "result") = <<>>
  <2>1. {n \in DOMAIN w.parts : w.parts[n].kind = "call"} = DOMAIN w.parts
    BY <1>2
  <2>2. {n \in DOMAIN w.parts : w.parts[n].kind = "result"} = {}
    BY <1>2
  <2>3. QED
    BY <1>2, <2>1, <2>2, SelectedAll, SelectedNone DEF PartsOf
<1>4. QED
  BY <1>1, <1>2, <1>3 DEF Carries

\* Every format carries a message of a trace.
LEMMA FormatsCarry ==
  ASSUME NEW Texts, NEW Issued, NEW m \in Message(Texts, Issued), IsResult(m) => m.calls = <<>>
  PROVE  /\ Carries("anthropic", ToAnthropic(m), m)
         /\ Carries("openai", ToOpenAi(m), m)
         /\ Carries("gemini", ToGemini(m), m)
<1>1. m.calls \in Seq(Issued)
  BY DEF Message
<1>2. CASE IsResult(m)
  <2>1. /\ ToAnthropic(m).parts = <<Result(m.id, m.text)>>
        /\ ToOpenAi(m).parts = <<Result(m.id, m.text)>>
        /\ ToGemini(m).parts = <<Result(m.id, m.text)>>
    BY <1>2 DEF ToAnthropic, ToOpenAi, ToGemini, WithIds, Wire, HasToolCalls
  <2>2. QED
    BY <1>2, <2>1, ResultCarries
<1>3. CASE ~IsResult(m) /\ HasToolCalls(m)
  <2>1. /\ ToAnthropic(m).parts = TextUnlessEmpty(m.text) \o Uses(m)
        /\ ToOpenAi(m).parts = TextUnlessEmpty(m.text) \o Uses(m)
        /\ ToGemini(m).parts = [k \in DOMAIN m.calls |-> Use(0, m.calls[k].tool)]
    BY <1>3 DEF ToAnthropic, ToOpenAi, ToGemini, WithIds, Wire
  <2>2. QED
    BY <1>1, <1>3, <2>1, CallsCarry, GeminiCallsCarry
<1>4. CASE ~IsResult(m) /\ ~HasToolCalls(m)
  <2>1. /\ ToAnthropic(m).parts = <<Text(m.text)>>
        /\ ToOpenAi(m).parts = <<Text(m.text)>>
        /\ ToGemini(m).parts = <<Text(m.text)>>
    BY <1>4 DEF ToAnthropic, ToOpenAi, ToGemini, WithIds, Wire
  <2>2. QED
    BY <1>4, <2>1, TextCarries DEF HasToolCalls
<1>5. QED
  BY <1>2, <1>3, <1>4

-----------------------------------------------------------------------------
(* A trace.                                                                *)

\* the instructions come first, and nowhere else
OneSystem(ms) == ms # <<>> /\ \A k \in DOMAIN ms : ms[k].role = "system" <=> k = 1

\* only the model's messages have calls
OnlyModelCalls(ms) == \A k \in DOMAIN ms : ms[k].role # "assistant" => ms[k].calls = <<>>

\* each call has its result in its place, but for the last `todo' ones
CallsAnswered(ms, todo) ==
  \A k \in DOMAIN ms : \A j \in DOMAIN ms[k].calls :
    /\ k + j <= Len(ms) + todo
    /\ k + j <= Len(ms) => IsResult(ms[k + j]) /\ ms[k + j].id = ms[k].calls[j].id

\* each result has its call
ResultsAsked(ms) ==
  \A n \in DOMAIN ms : IsResult(ms[n]) => \E k \in 1 .. n - 1 : n - k \in DOMAIN ms[k].calls

\* What carries a trace without its first d messages, where these neither call nor
\* answer, is paired when the trace is.
LEMMA CarriedPairs ==
  ASSUME NEW Texts, NEW Issued, NEW ms \in Seq(Message(Texts, Issued)),
         CallsAnswered(ms, 0), ResultsAsked(ms),
         NEW d \in {0, 1}, d <= Len(ms), d = 1 => ms[1].calls = <<>>,
         NEW p, NEW ws, Len(ws) = Len(ms) - d, DOMAIN ws = 1 .. Len(ws),
         \A k \in 1 .. Len(ws) : Carries(p, ws[k], ms[d + k])
  PROVE  Paired(p, ws)
<1>1. /\ Len(ms) \in Nat /\ DOMAIN ms = 1 .. Len(ms) /\ DOMAIN ws = 1 .. Len(ms) - d
      /\ \A k \in 1 .. Len(ms) : ms[k].calls \in Seq(Issued)
  <2>1. Len(ms) \in Nat /\ DOMAIN ms = 1 .. Len(ms)
    OBVIOUS
  <2>2. \A k \in 1 .. Len(ms) : ms[k] \in Message(Texts, Issued)
    BY <2>1
  <2>3. \A m \in Message(Texts, Issued) : m.calls \in Seq(Issued)
    BY DEF Message
  <2>4. QED
    BY <2>1, <2>2, <2>3
<1>2. ASSUME NEW k \in DOMAIN ws, NEW j \in DOMAIN PartsOf(ws[k], "call")
      PROVE  AnsweredAt(p, ws, k + j, PartsOf(ws[k], "call")[j])
  <2>1. /\ d + k \in DOMAIN ms /\ Carries(p, ws[k], ms[d + k])
        /\ k \in Nat /\ d \in Nat /\ k >= 1
    BY <1>1
  <2>2. j \in DOMAIN ms[d + k].calls /\ j \in Nat /\ j >= 1
    <3>1. j \in DOMAIN ms[d + k].calls
      BY <2>1 DEF Carries
    <3>2. QED
      BY <1>1, <2>1, <3>1
  <2>3. /\ (d + k) + j <= Len(ms)
        /\ IsResult(ms[(d + k) + j]) /\ ms[(d + k) + j].id = ms[d + k].calls[j].id
    <3>1. (d + k) + j <= Len(ms) + 0
      BY <2>1, <2>2 DEF CallsAnswered
    <3>2. (d + k) + j <= Len(ms)
      BY <1>1, <2>1, <2>2, <3>1
    <3>3. QED
      BY <2>1, <2>2, <3>2 DEF CallsAnswered
  <2>4. k + j \in DOMAIN ws /\ (d + k) + j = d + (k + j)
    <3>1. k + j \in 1 .. Len(ms) - d
      BY <1>1, <2>1, <2>2, <2>3
    <3>2. QED
      BY <1>1, <2>1, <2>2, <3>1
  <2>5. Carries(p, ws[k + j], ms[d + (k + j)]) /\ IsResult(ms[d + (k + j)])
    BY <1>1, <2>3, <2>4
  <2>6. /\ Len(ws[k + j].parts) = 1 /\ ws[k + j].parts[1].kind = "result"
        /\ ws[k + j].parts[1].id = ms[d + k].calls[j].id
    BY <2>3, <2>4, <2>5 DEF Carries
  <2>7. p = "gemini" \/ PartsOf(ws[k], "call")[j].id = ms[d + k].calls[j].id
    BY <2>1, <2>2 DEF Carries
  <2>8. QED
    BY <2>4, <2>6, <2>7 DEF AnsweredAt, Answers
<1>3. ASSUME NEW n \in DOMAIN ws, PartsOf(ws[n], "result") # <<>>
      PROVE  \E k \in 1 .. n - 1 : Len(PartsOf(ws[k], "call")) >= n - k
  <2>1. d + n \in DOMAIN ms /\ Carries(p, ws[n], ms[d + n]) /\ n \in Nat /\ d \in Nat
    BY <1>1
  <2>2. IsResult(ms[d + n])
    BY <1>3, <2>1 DEF Carries
  <2>3. PICK l \in 1 .. (d + n) - 1 : (d + n) - l \in DOMAIN ms[l].calls
    BY <2>1, <2>2 DEF ResultsAsked
  <2>4. l \in DOMAIN ms /\ l \in Nat /\ l > d
    <3>1. l \in DOMAIN ms /\ l \in Nat /\ l >= 1
      BY <1>1, <2>1, <2>3
    <3>2. ~(d = 1 /\ l = 1)
      BY <2>3
    <3>3. QED
      BY <3>1, <3>2
  <2>5. /\ l - d \in 1 .. n - 1 /\ l - d \in DOMAIN ws /\ d + (l - d) = l
        /\ (d + n) - l = n - (l - d)
    <3>1. l <= (d + n) - 1 /\ n <= Len(ms) - d
      BY <1>1, <2>1, <2>3
    <3>2. l - d \in 1 .. n - 1 /\ l - d \in 1 .. Len(ms) - d
      BY <1>1, <2>1, <2>4, <3>1
    <3>3. QED
      BY <1>1, <2>1, <2>4, <3>2
  <2>6. Len(PartsOf(ws[l - d], "call")) = Len(ms[l].calls)
    BY <1>1, <2>5 DEF Carries
  <2>7. Len(ms[l].calls) >= n - (l - d)
    BY <1>1, <2>3, <2>4, <2>5
  <2>8. QED
    BY <2>5, <2>6, <2>7
<1>4. QED
  BY <1>2, <1>3 DEF Paired

\* What a client sends of a trace without open calls, its provider can pair: for each
\* format, with or without tools.
THEOREM RequestsArePaired ==
  ASSUME NEW Texts, NEW Issued, NEW ms \in Seq(Message(Texts, Issued)),
         OneSystem(ms), OnlyModelCalls(ms), CallsAnswered(ms, 0), ResultsAsked(ms),
         NEW p \in Provider, NEW tools
  PROVE  Paired(p, Request(p, ms, tools).contents)
<1>1. /\ Len(ms) \in Nat /\ DOMAIN ms = 1 .. Len(ms) /\ Len(ms) >= 1
      /\ \A k \in 1 .. Len(ms) : ms[k] \in Message(Texts, Issued)
  BY DEF OneSystem
<1>2. \A k \in 1 .. Len(ms) : IsResult(ms[k]) => ms[k].calls = <<>>
  BY <1>1 DEF OnlyModelCalls, IsResult
<1>3. \A k \in 1 .. Len(ms) : /\ Carries("anthropic", ToAnthropic(ms[k]), ms[k])
                              /\ Carries("openai", ToOpenAi(ms[k]), ms[k])
                              /\ Carries("gemini", ToGemini(ms[k]), ms[k])
  BY <1>1, <1>2, FormatsCarry
<1>4. Spoken(ms) = [i \in 1 .. Len(ms) - 1 |-> ms[1 + i]]
  <2>1. PICK K : K = DOMAIN ms \ System(ms)
    OBVIOUS
  <2>2. K \in SUBSET DOMAIN ms /\ \A n \in 1 .. Len(ms) : n \in K <=> n > 1
    BY <1>1, <2>1 DEF System, OneSystem
  <2>3. 1 \in 0 .. Len(ms)
    BY <1>1
  <2>4. QED
    BY <2>1, <2>2, <2>3, SelectedRest DEF Spoken
<1>5. ms[1].calls = <<>>
  BY <1>1 DEF OneSystem, OnlyModelCalls
<1>6. CASE p = "openai"
  <2>1. PICK ws : ws = [k \in 1 .. Len(ms) |-> ToOpenAi(ms[k])]
    OBVIOUS
  <2>2. Request(p, ms, tools).contents = ws
    BY <1>1, <1>6, <2>1 DEF Request, Each
  <2>3. /\ Len(ws) = Len(ms) - 0 /\ DOMAIN ws = 1 .. Len(ws) /\ 0 <= Len(ms)
        /\ \A k \in 1 .. Len(ws) : Carries(p, ws[k], ms[0 + k])
    BY <1>1, <1>3, <1>6, <2>1
  <2>4. QED
    BY <2>2, <2>3, CarriedPairs
<1>7. CASE p = "anthropic"
  <2>1. PICK ws : ws = [k \in 1 .. Len(ms) - 1 |-> ToAnthropic(ms[1 + k])]
    OBVIOUS
  <2>2. Request(p, ms, tools).contents = ws
    BY <1>1, <1>4, <1>7, <2>1 DEF Request, Each
  <2>3. /\ Len(ws) = Len(ms) - 1 /\ DOMAIN ws = 1 .. Len(ws) /\ 1 <= Len(ms)
        /\ \A k \in 1 .. Len(ws) : Carries(p, ws[k], ms[1 + k])
    BY <1>1, <1>3, <1>7, <2>1
  <2>4. QED
    BY <1>5, <2>2, <2>3, CarriedPairs
<1>8. CASE p = "gemini"
  <2>1. PICK ws : ws = [k \in 1 .. Len(ms) - 1 |-> ToGemini(ms[1 + k])]
    OBVIOUS
  <2>2. Request(p, ms, tools).contents = ws
    BY <1>1, <1>4, <1>8, <2>1 DEF Request, Each
  <2>3. /\ Len(ws) = Len(ms) - 1 /\ DOMAIN ws = 1 .. Len(ws) /\ 1 <= Len(ms)
        /\ \A k \in 1 .. Len(ws) : Carries(p, ws[k], ms[1 + k])
    BY <1>1, <1>3, <1>8, <2>1
  <2>4. QED
    BY <1>5, <2>2, <2>3, CarriedPairs
<1>9. QED
  BY <1>6, <1>7, <1>8 DEF Provider
=============================================================================
