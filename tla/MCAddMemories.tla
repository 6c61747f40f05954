---------------------------- MODULE MCAddMemories ----------------------------
(***************************************************************************)
(* Values for the constants of AddMemories: two statements about where     *)
(* someone lives, each against the other, and a text they come from.       *)
(***************************************************************************)
EXTENDS AddMemories, TLC

CONSTANTS i1, i2, i3, berlin, munich, talk, home, cl1, cl2

ASSUME ValuesAssumption ==
  /\ Id \subseteq {i1, i2, i3}
  /\ Content = {berlin, munich, talk}
  /\ Fact = {<<home, berlin>>, <<home, munich>>}

MCHash == [c \in Content |-> c]
MCReembedded == [p \in Content \X Content |-> p[1]]

\* no two contents are similar or related to each other: that is the matter of AddMemory
MCDistance == [p \in Content \X Content |-> IF p[1] = p[2] THEN 0 ELSE 1]
MCSimilar == {p \in Content \X Content : p[1] = p[2]}
MCRelated == MCSimilar

MCFact == {<<home, berlin>>, <<home, munich>>}
MCTopicOf == [f \in Fact |-> home]

Lives(c) == [content |-> c, fact |-> <<home, c>>, contradicts |-> home]
Observed(c) == [content |-> c, fact |-> None, contradicts |-> None]

\* A text that makes a statement and takes it back; and a long one with an observation,
\* which is preserved and has a segment in the very words of a statement.
MCReply ==
  {[entries |-> <<Lives(berlin), Lives(munich)>>, segments |-> <<>>],
   [entries |-> <<Observed(talk)>>, segments |-> <<munich>>]}

MCSymmetry == Permutations(Id) \cup Permutations(Client)
=============================================================================
