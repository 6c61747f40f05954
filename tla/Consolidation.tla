---------------------------- MODULE Consolidation ----------------------------
(***************************************************************************)
(* MemoryConsolidator::find_clusters: old episodic memories that resemble  *)
(* each other, one summary to be written for each group.  The consolidated *)
(* mark, which nothing in the repository sets, is left out.                *)
(***************************************************************************)
EXTENDS Search

CONSTANT
  Close   \* pairs of contents whose cosine similarity is >= 0.65

ASSUME CloseAssumption ==
  \A a, b \in Content : <<a, a>> \in Close /\ (<<a, b>> \in Close => <<b, a>> \in Close)

Resemble(g, h) == <<Hit(g).content, Hit(h).content>> \in Close

\* Mutant: only the first of a cluster is marked as visited.
VisitHead(acc, h, rest, min_size) ==
  LET cluster == {g \in rest \ acc.visited : g = h \/ Resemble(h, g)}
  IN  IF h \in acc.visited THEN acc
      ELSE [visited  |-> acc.visited \cup {h},
            clusters |-> IF Cardinality(cluster) < min_size THEN acc.clusters
                         ELSE Append(acc.clusters, cluster)]

\* An item takes with it all that resemble it and that no item before it took; also when
\* they are too few for a cluster.
Visit(acc, h, rest, min_size) ==
  LET cluster == {g \in rest \ acc.visited : g = h \/ Resemble(h, g)}
  IN  IF h \in acc.visited THEN acc
      ELSE [visited  |-> acc.visited \cup cluster,
            clusters |-> IF Cardinality(cluster) < min_size THEN acc.clusters
                         ELSE Append(acc.clusters, cluster)]

GreedyCluster(s, min_size) ==
  LET acc[n \in 0 .. Len(s)] ==
        IF n = 0 THEN [visited |-> {}, clusters |-> <<>>]
        ELSE Visit(acc[n - 1], s[n], ToSet(s), min_size)
  IN  acc[Len(s)].clusters

\* embedded: the ids the caller has an embedding of
Clusterable(u, type, embedded, cutoff) ==
  {Selected(s, {n \in DOMAIN s : CreatedAt(s[n]) < cutoff /\ s[n][1] \in embedded})
     : s \in GetMemories(u, type, 200)}

FindClusters(u, type, embedded, min_size, cutoff) ==
  {GreedyCluster(s, min_size) : s \in Clusterable(u, type, embedded, cutoff)}
=============================================================================
