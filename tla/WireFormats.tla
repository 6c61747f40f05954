---------------------------- MODULE WireFormats ----------------------------
(***************************************************************************)
(* The messages of a conversation with an LLM, what the three clients put  *)
(* on the wire for them, and what they make of a reply.  A wire message    *)
(* has a role and parts; a part is a text, a call of a tool or the result  *)
(* of one.  The system text travels in a field of its own in two of them.  *)
(***************************************************************************)
EXTENDS Selection

Provider == {"anthropic", "openai", "gemini"}

-----------------------------------------------------------------------------
(* LlmMessage                                                              *)

Plain(role, text) == [role |-> role, text |-> text, id |-> 0, calls |-> <<>>]

SystemMessage(text) == Plain("system", text)
UserMessage(text) == Plain("user", text)
AssistantMessage(text, calls) == [Plain("assistant", text) EXCEPT !.calls = calls]
ToolResult(id, content) == [Plain("tool_result", content) EXCEPT !.id = id]

HasToolCalls(m) == m.calls # <<>>
IsResult(m) == m.role = "tool_result"

-----------------------------------------------------------------------------
(* Requests.                                                               *)

Text(t) == [kind |-> "text", text |-> t]
TextUnlessEmpty(t) == IF t = "" THEN <<>> ELSE <<Text(t)>>
Use(id, name) == [kind |-> "call", id |-> id, name |-> name]
Result(id, content) == [kind |-> "result", id |-> id, text |-> content]

Uses(m) == [k \in DOMAIN m.calls |-> Use(m.calls[k].id, m.calls[k].tool)]

Wire(role, parts) == [role |-> role, parts |-> parts]

\* calls and results with the ids that belong together
WithIds(m, resultRole) ==
  CASE IsResult(m) -> Wire(resultRole, <<Result(m.id, m.text)>>)
    [] HasToolCalls(m) -> Wire("assistant", TextUnlessEmpty(m.text) \o Uses(m))
    [] OTHER -> Wire(m.role, <<Text(m.text)>>)

ToAnthropic(m) == WithIds(m, "user")
ToOpenAi(m) == WithIds(m, "tool")

\* The text beside a call is dropped, and so is the id of the call: a call has a name
\* only.  What stands in the place of the name in a response is the id.
ToGemini(m) ==
  CASE IsResult(m) -> Wire("user", <<Result(m.id, m.text)>>)
    [] HasToolCalls(m) -> Wire("model", [k \in DOMAIN m.calls |-> Use(0, m.calls[k].tool)])
    [] OTHER -> Wire(IF m.role = "assistant" THEN "model" ELSE "user", <<Text(m.text)>>)

Each(F(_), ms) == [k \in DOMAIN ms |-> F(ms[k])]

System(ms) == {k \in DOMAIN ms : ms[k].role = "system"}
Spoken(ms) == Selected(ms, DOMAIN ms \ System(ms))

SystemTexts(ms) == LET TextOf(m) == m.text IN Each(TextOf, Selected(ms, System(ms)))

Request(p, ms, tools) ==
  CASE p = "anthropic" -> [system |-> SystemTexts(ms), tools |-> tools,
                           contents |-> Each(ToAnthropic, Spoken(ms))]
    [] p = "openai"    -> [system |-> <<>>, tools |-> tools, contents |-> Each(ToOpenAi, ms)]
    [] p = "gemini"    -> [system |-> SystemTexts(ms), tools |-> tools,
                           contents |-> Each(ToGemini, Spoken(ms))]

-----------------------------------------------------------------------------
(* Replies.  A reply is a text, perhaps empty, and the calls it asks for,  *)
(* as [tool, args].  Missing arguments, and those that are no JSON in the  *)
(* string OpenAiClient gets, have none of the fields a tool requires.      *)

\* Calls get the ids the provider gives them, or, from Gemini, fresh ones: either way
\* ids that were not used before.
Decode(reply, used) ==
  [text  |-> reply.text,
   calls |-> [k \in DOMAIN reply.calls |->
                [id |-> used + k, tool |-> reply.calls[k].tool, args |-> reply.calls[k].args]]]

-----------------------------------------------------------------------------
(* What the receiver of a request needs: the results of the calls of a     *)
(* message follow it, one message each, in the order of the calls, and     *)
(* there are no others.  Gemini can tell them by their order only.         *)

PartsOf(m, kind) == Selected(m.parts, {n \in DOMAIN m.parts : m.parts[n].kind = kind})

Answers(p, result, use) == p = "gemini" \/ result.id = use.id

\* message n of ms carries nothing but the result of the call `use'
AnsweredAt(p, ms, n, use) ==
  /\ n \in DOMAIN ms
  /\ Len(ms[n].parts) = 1
  /\ ms[n].parts[1].kind = "result"
  /\ Answers(p, ms[n].parts[1], use)

Paired(p, ms) ==
  /\ \A k \in DOMAIN ms :
       LET uses == PartsOf(ms[k], "call")
       IN  \A j \in DOMAIN uses : AnsweredAt(p, ms, k + j, uses[j])
  /\ \A n \in DOMAIN ms :
       PartsOf(ms[n], "result") # <<>> =>
         \E k \in 1 .. n - 1 : Len(PartsOf(ms[k], "call")) >= n - k
=============================================================================
