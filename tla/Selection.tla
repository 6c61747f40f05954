----------------------------- MODULE Selection -----------------------------
(***************************************************************************)
(* Elements of a sequence, selected by their positions.                    *)
(***************************************************************************)
EXTENDS Naturals, Sequences, FiniteSets

\* the elements of s at the positions in K
Selected(s, K) ==
  LET f[n \in 0 .. Len(s)] ==
        CASE n = 0  -> <<>>
          [] n \in K -> Append(f[n - 1], s[n])
          [] OTHER  -> f[n - 1]
  IN  f[Len(s)]

\* the k lowest of a set of positions
Lowest(k, K) == {n \in K : Cardinality({m \in K : m <= n}) <= k}
=============================================================================
