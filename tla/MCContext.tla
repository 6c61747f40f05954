------------------------------ MODULE MCContext ------------------------------
(***************************************************************************)
(* Values for the constants of Context: Ann has told about a lake and a    *)
(* camp, in one session; Bob about the camp, in another.                   *)
(***************************************************************************)
EXTENDS Context, TLC

CONSTANTS i1, i2, i3, lake, camp, tent, boat, food, ann, bob, s1, s2

ASSUME ValuesAssumption ==
  Id \subseteq {i1, i2, i3} /\ Content = {lake, camp, tent, boat, food} /\ User = {ann, bob}

MCHash == [c \in Content |-> c]
MCInfo ==
  [c \in Content |->
     [type    |-> IF c = food THEN "factual" ELSE "episodic",
      event   |-> IF c = lake THEN 1 ELSE IF c = camp THEN 2 ELSE 0,
      ends    |-> c = tent,
      raw     |-> c \in {lake, camp},
      session |-> IF c = food THEN s2 ELSE s1,
      speaker |-> IF c = food THEN "Bob" ELSE "Ann",
      words   |-> CASE c = lake -> {"Ann", "lake"}
                    [] c = camp -> {"Ann", "camp"}
                    [] c = tent -> {"Ann", "camp", "tent"}
                    [] c = boat -> {"Ann", "boat"}
                    [] c = food -> {"Bob", "camp", "food"}]]

Shared(a, b) == Cardinality(MCInfo[a].words \cap MCInfo[b].words)
MCDistance == [p \in Content \X Content |-> IF p[1] = p[2] THEN 0 ELSE 4 - Shared(p[1], p[2])]
MCSimilar == {p \in Content \X Content : p[1] = p[2]}
\* the tent resembles three contents that do not resemble each other
MCSameTopic ==
  {p \in Content \X Content : \/ p[1] = p[2]
                              \/ {p[1], p[2]} \in {{tent, camp}, {tent, boat}, {tent, food}}}
MCWithin == {p \in Content \X Content : MCInfo[p[1]].words \subseteq MCInfo[p[2]].words}

MCNearText == {p \in Content \X Content : p[1] = p[2]} \cup {<<camp, tent>>, <<tent, camp>>}

MCClose == MCSameTopic \cup {<<lake, boat>>, <<boat, lake>>}

MCQuery ==
  {[text |-> c, words |-> w] : c \in {lake, tent}, w \in {{}, {"camp"}}}

MCQuestion == {<<"Ann", "lake">>, <<"when", "camp">>, <<"Ann">>}

\* a name alone is too short a question
MCBrief == {<<>>, <<"Ann">>, <<"Bob">>}
MCSlight == MCBrief \cup {<<w>> : w \in Word}

MCTypeSearches == <<[type |-> "episodic", k |-> 2], [type |-> "factual", k |-> 1]>>
MCPlaces == [p \in PlacesOf |-> IF p \in {"summaries", "important"} THEN 1
                         ELSE IF p \in {"text", "reserved"} THEN 9 ELSE 2]
MCStrategy == [c \in Complexity |-> [pool |-> 2, limit |-> IF c = "Temporal" THEN 4 ELSE 2]]

\* version k of the n-th memory was written at time n + 3 (k - 1)
Database1(h1, h2, h3, linked, summed) ==
  LET of(i) == IF i = i1 THEN h1 ELSE IF i = i2 THEN h2 ELSE h3
      place(i) == IF i = i1 THEN 1 ELSE IF i = i2 THEN 2 ELSE 3
      version(i, x) == [op |-> x[1], content |-> x[2], user |-> IF i = i3 THEN bob ELSE ann,
                        count |-> 1, latest |-> TRUE]
  IN  [items |-> [i \in Id |-> [k \in DOMAIN of(i) |-> version(i, of(i)[k])]],
       updated |-> [i \in Id |-> [k \in DOMAIN of(i) |-> place(i) +
                      IF of(i)[k][1] = "ASSERT" THEN 3 * (k - 1) ELSE 3 * (k - 2)]],
       edges |-> IF linked THEN {[from |-> i1, to |-> i2, relation |-> "relates_to"],
                                 [from |-> i2, to |-> i3, relation |-> "relates_to"]}
                 ELSE {},
       triples |-> IF linked THEN {} ELSE {[subject |-> "Ann", id |-> i3]},
       summaries |-> IF summed THEN {s1} ELSE {},
       writes |-> 6]

A(c) == <<"ASSERT", c>>
R(c) == <<"RETRACT", c>>

MCDatabase ==
  {Database1(<<A(lake)>>, <<A(tent)>>, <<A(food)>>, TRUE, TRUE),
   Database1(<<A(lake), A(camp)>>, <<A(tent), R(tent)>>, <<A(food)>>, TRUE, FALSE),
   Database1(<<A(lake), R(lake)>>, <<A(boat), A(tent)>>, <<A(food)>>, FALSE, TRUE),
   Database1(<<A(boat)>>, <<A(tent)>>, <<A(food)>>, FALSE, FALSE)}

\* a database nothing was written to
MCNewDatabase ==
  {[items |-> [i \in Id |-> <<>>], updated |-> [i \in Id |-> <<>>], edges |-> {},
    triples |-> {}, summaries |-> {}, writes |-> 0]}
=============================================================================
