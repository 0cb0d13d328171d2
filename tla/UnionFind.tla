----------------------------- MODULE UnionFind -----------------------------
(***************************************************************************)
(* The union-find decoder of a window: weighted growth of odd clusters and *)
(* peeling of a minimum-weight forest of the edges on which two fronts     *)
(* met.  rows are the detectors of the window, E its fault columns (their  *)
(* numbers in the catalog are their order), ends[e] the nodes of a column, *)
(* len[e] its length in half ticks, syn the defects.  A fault that cuts    *)
(* the window's edge ends in the shared boundary node.                     *)
(***************************************************************************)
EXTENDS WindowPlans

Boundary == <<0, 0>>

Ends(catalog, rows, i) ==
  LET inside == catalog[i] \cap rows
  IN  IF Cardinality(inside) = 1 THEN inside \cup {Boundary} ELSE inside

(* Clusters are disjoint sets of nodes; a union joins the ones it touches. *)
Join(clusters, nodes) ==
  LET touched == {c \in clusters : c \cap nodes # {}}
  IN  (clusters \ touched) \cup {UNION touched}
JoinAll(clusters, ends, edges) ==
  LET joined[k \in 0 .. Max({0} \cup edges)] ==
        IF k = 0 THEN clusters
        ELSE IF k \in edges THEN Join(joined[k - 1], ends[k]) ELSE joined[k - 1]
  IN  joined[Max({0} \cup edges)]

Singletons(rows) == {{d} : d \in rows \cup {Boundary}}

(* An odd cluster that has not reached the boundary grows.                 *)
Active(cluster, syn) == Boundary \notin cluster /\ Odd(cluster \cap syn)

(* The edges of length zero are covered from the start.                    *)
StartGrowth(rows, E, ends, len, syn) ==
  LET closed == {e \in E : len[e] = 0}
  IN  [gap |-> [e \in E |-> len[e]], contacts |-> closed, ordered |-> TRUE,
       clusters |-> JoinAll(Singletons(rows), ends, closed)]

(* One event: the time to the first contact passes on every edge an active *)
(* cluster touches, and the edges that close then unite their clusters.    *)
Grow(g, E, ends, syn) ==
  LET at == [e \in E |-> {c \in g.clusters : c \cap ends[e] # {}}]
      rate == [e \in E |-> Cardinality({c \in at[e] : Active(c, syn)})]
      between == {e \in E : g.gap[e] > 0 /\ Cardinality(at[e]) = 2 /\ rate[e] > 0}
      time == [e \in between |-> CeilDiv(g.gap[e], rate[e])]
      elapsed == Min({time[e] : e \in between})
      met == {e \in between : time[e] = elapsed}
      \* both fronts of an edge inside one active cluster move
      left == [e \in E |-> g.gap[e] - elapsed * rate[e] * (3 - Cardinality(at[e]))]
  IN  IF between = {} THEN g
      ELSE [gap |-> [e \in E |-> IF e \in met THEN 0 ELSE Most(0, left[e])],
            contacts |-> g.contacts \cup met,
            ordered |-> g.ordered /\ elapsed > 0 /\ \A e \in between \ met : left[e] > 0,
            clusters |-> JoinAll(g.clusters, ends, met)]

(* Growth has ended when no active cluster has an edge to another one; the *)
(* code allows one event for each edge.                                    *)
Growth(rows, E, ends, len, syn) ==
  LET grown[k \in 0 .. Cardinality(E)] ==
        IF k = 0 THEN StartGrowth(rows, E, ends, len, syn)
        ELSE Grow(grown[k - 1], E, ends, syn)
      final == grown[Cardinality(E)]
  IN  [final EXCEPT !.ordered = @ /\ Grow(final, E, ends, syn) = final]

(* Kruskal over the contacts, by length and number: an edge is kept unless *)
(* the contacts before it already connect its ends.                        *)
Forest(rows, ends, len, contacts) ==
  LET Before(e) == {x \in contacts : len[x] < len[e] \/ (len[x] = len[e] /\ x < e)}
  IN  {e \in contacts :
         \A c \in JoinAll(Singletons(rows), ends, Before(e)) : ~(ends[e] \subseteq c)}

(* A tree is peeled towards the boundary, or its first detector: an edge   *)
(* is used when an odd number of defects lies beyond it.                   *)
First(nodes) ==
  CHOOSE x \in nodes : \A y \in nodes : x[1] < y[1] \/ (x[1] = y[1] /\ x[2] <= y[2])
Peel(rows, ends, forest, syn) ==
  LET Root(tree) == IF Boundary \in tree THEN Boundary ELSE First(tree)
      whole == JoinAll(Singletons(rows), ends, forest)
      UsedIn(e) ==
        LET tree   == CHOOSE c \in whole : ends[e] \subseteq c
            halves == {c \in JoinAll(Singletons(rows), ends, forest \ {e}) : c \subseteq tree}
            beyond == CHOOSE c \in halves : c \cap ends[e] # {} /\ Root(tree) \notin c
        IN  Odd(beyond \cap syn)
  IN  {e \in forest : UsedIn(e)}

(* The whole decode.  likely are the columns with a prior above one half,  *)
(* taken as flipped to begin with.  The answer: the selected columns and    *)
(* whether growth kept its own rules.                                      *)
UnionFindDecode(catalog, rows, E, len, likely, syn) ==
  LET ends   == [e \in E |-> Ends(catalog, rows, e)]
      rest   == SymDiff(syn, Effect(catalog, likely) \cap rows)
      growth == Growth(rows, E, ends, len, rest)
      used   == Peel(rows, ends, Forest(rows, ends, len, growth.contacts), rest)
      selected == SymDiff(likely, used)
  IN  [selected |-> selected, ordered |-> growth.ordered]
=============================================================================
