--------------------------- MODULE WorkingMemory ---------------------------
(***************************************************************************)
(* Working memory: which of the memories it holds go into which section of *)
(* the context block.  The layout of a section is left out, and so are the *)
(* sections that are printed as they are: reminders, profile, triples,     *)
(* summaries and focused items.                                            *)
(*                                                                         *)
(* The relevant memories are given in the order of their scores, one that  *)
(* a reranker named twice as often.  Context makes that order of what      *)
(* prepare_context sets.                                                   *)
(***************************************************************************)
EXTENDS Search

CONSTANTS
  EvidencePlaces,  \* the 8 places of TOP EVIDENCE
  RawPlaces,       \* the 5 places of RAW CONVERSATION EXCERPTS
  SpeakerPlaces    \* the 8 places of a speaker in SUPPORTING MEMORIES

ASSUME PlacesAssumption == {EvidencePlaces, RawPlaces, SpeakerPlaces} \subseteq Nat

IsRaw(h) == About(h).raw
NotRaw(h) == ~About(h).raw

\* by the time of the event, those without one last; then by score
Before(s, m, n) ==
  LET event(k) == About(s[k]).event
  IN  \/ event(m) > 0 /\ (event(n) = 0 \/ event(m) < event(n))
      \/ event(m) = event(n) /\ m < n

TopEvidence(relevant) ==
  Selected(relevant, Lowest(EvidencePlaces, {m \in DOMAIN relevant : NotRaw(relevant[m])}))

\* of the raw turns the first of each id, in the order of Before
RawExcerpts(relevant, important) ==
  LET s == relevant \o important
      raw == {n \in DOMAIN s : IsRaw(s[n])}
      first == {n \in raw : ~ \E m \in raw : s[m][1] = s[n][1] /\ Before(s, m, n)}
      rank(n) == Cardinality({m \in first : Before(s, m, n)})
  IN  {s[n] : n \in {m \in first : rank(m) < RawPlaces}}

\* Mutant: the relevant memories are not taken out.
ImportantAll(relevant, important) == {h \in ToSet(important) : NotRaw(h)}

UniqueImportant(relevant, important) ==
  {h \in ToSet(important) : NotRaw(h) /\ h[1] \notin IdsOf(ToSet(relevant))}

\* the rest, so many for each speaker; how the speakers are grouped is layout
Supporting(relevant) ==
  LET above == IdsOf(ToSet(TopEvidence(relevant)))
      rest == {n \in DOMAIN relevant : NotRaw(relevant[n]) /\ relevant[n][1] \notin above}
      of(n) == {m \in rest : About(relevant[m]).speaker = About(relevant[n]).speaker}
  IN  Selected(relevant, {n \in rest : n \in Lowest(SpeakerPlaces, of(n))})

ContextBlock(relevant, important, keywords) ==
  [keywords   |-> keywords,
   evidence   |-> TopEvidence(relevant),
   raw        |-> RawExcerpts(relevant, important),
   important  |-> UniqueImportant(relevant, important),
   supporting |-> Supporting(relevant)]

FlatContextBlock(relevant) ==
  [keywords |-> {}, evidence |-> relevant, raw |-> {}, important |-> {}, supporting |-> <<>>]
=============================================================================
