------------------------------- MODULE MCAgent -------------------------------
(***************************************************************************)
(* Values for the constants of Agent: a reminder about tea, whose memory   *)
(* has another text, `note'; a fact about tea, which reinforces that       *)
(* memory and leaves the text of the note with the vector of tea, `noted'; *)
(* and a fact about a pot that is similar to the note, so that add_memory  *)
(* may write over it as long as it has not been reinforced.                *)
(***************************************************************************)
EXTENDS Agent, TLC

CONSTANTS i1, i2, tea, note, noted, pot, alice, bob, kitchen, cl1

ASSUME ValuesAssumption ==
  Id \subseteq {i1, i2} /\ Content = {tea, note, noted, pot} /\ User \subseteq {alice, bob}

MCHash == [c \in Content |-> IF c \in {note, noted} THEN tea ELSE c]
MCReembedded ==
  [p \in Content \X Content |-> IF p = <<note, tea>> THEN noted ELSE p[1]]
MCRemembered == [p \in Content \X TriggerType \X Condition |-> IF p[1] = tea THEN note ELSE p[1]]

\* by their vectors
Alike(c, d) == c = d \/ {c, d} \in {{tea, noted}, {note, pot}}
MCDistance == [p \in Content \X Content |-> IF Alike(p[1], p[2]) THEN 0 ELSE 1]
MCSimilar == {p \in Content \X Content : Alike(p[1], p[2])}
MCRelated == Content \X Content

\* a topic, a time, the id of a user
MCCondition == {kitchen, 1} \cup User

Remember(c, u) == [tool |-> "add_memory", args |-> [content |-> c, user |-> u]]
Remind(c, type, condition, u) ==
  [tool |-> "add_reminder",
   args |-> [content |-> c, type |-> type, condition |-> condition, user |-> u]]
Incomplete == [tool |-> "add_reminder", args |-> NoArgs]

Says(text, calls) == [text |-> text, calls |-> calls]

MCReply ==
  {Says("done", <<>>),
   Says("", <<Remind(tea, "topic_mention", kitchen, alice), Remember(tea, alice)>>),
   Says("ok", <<Remember(pot, alice)>>),
   Says("", <<Incomplete, Remind(tea, "time_based", 1, bob)>>)}

\* a reminder is told from a memory by its text
ASSUME TextsAssumption == TextsApart
=============================================================================
