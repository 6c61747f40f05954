----------------------------- MODULE MCAddMemory -----------------------------
(***************************************************************************)
(* Values for the constants of AddMemory: three contents on a line, mid    *)
(* similar to left and to right; left and right are merely related.        *)
(***************************************************************************)
EXTENDS AddMemory, TLC

CONSTANTS i1, i2, left, mid, right, u1, u2, cl1, cl2

ASSUME ValuesAssumption ==
  Id \subseteq {i1, i2} /\ Content \subseteq {left, mid, right} /\ User \subseteq {u1, u2}

Position == (left :> 0) @@ (mid :> 1) @@ (right :> 2)

MCHash == [c \in Content |-> c]

\* every text has a hash of its own, so that only its own vector is ever stored with it
MCReembedded == [p \in Content \X Content |-> p[1]]

MCDistance ==
  [p \in Content \X Content |->
     IF Position[p[1]] > Position[p[2]] THEN Position[p[1]] - Position[p[2]]
                                        ELSE Position[p[2]] - Position[p[1]]]

MCSimilar == {p \in Content \X Content : MCDistance[p] <= 1}
MCRelated == Content \X Content

\* Ids are drawn at random, users and clients are only compared, and exchanging
\* left with right leaves every distance as it is.
MCSymmetry ==
  Permutations(Id) \cup Permutations(User) \cup Permutations(Client)
    \cup Permutations(Content \ {mid})
=============================================================================
