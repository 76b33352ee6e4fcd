----------------------------- MODULE Dominators -----------------------------
(***************************************************************************)
(* compute_dominators in src/src/graph/graph.c, on the numbers, parents    *)
(* and predecessors that the search of Discover leaves in the graph:       *)
(* semidominators with path compression, then immediate dominators.        *)
(*                                                                         *)
(* The initial immediate dominators are not copies: idom holds pointers to *)
(* the words of parent, so that the two are one table, which the path      *)
(* compression rewrites as well.  Tables are functions of block numbers.   *)
(***************************************************************************)
EXTENDS Discover

(* A plausible slip in the code below, used to test the property.          *)
ClimbedToSemidominator(tables, n) == [tables EXCEPT !.parent[n] = tables.semi[n]]
-----------------------------------------------------------------------------
Numbers == 0 .. Len(parent) - 1
minimum(a, b) == IF a < b THEN a ELSE b

(* predecessor_count and predecessor_at: of the two places of a join those *)
(* that are not NULL are counted, from the first.                          *)
Places(b) == IF b \in Joins THEN {0, 1} ELSE {0}
PredecessorCount(b) ==
  IF b = GraphEntry THEN 0 ELSE Cardinality({i \in Places(b) : slots[b][i] # NoBlock})
Predecessors(n) ==
  LET b == preorder[n + 1] IN [i \in 1 .. PredecessorCount(b) |-> preorderNum[slots[b][i - 1]]]

compress_path(start, current, tables) ==
  LET path[c \in Numbers] ==
        LET next == tables.parent[c]
            t == path[next]
        IN  IF next <= start THEN tables
            ELSE [t EXCEPT !.label[c] = minimum(@, t.label[next]), !.parent[c] = t.parent[next]]
  IN  path[current]

Semidominator(tables, n, pred) ==
  LET t == IF pred > n THEN compress_path(n, pred, tables) ELSE tables
      best == IF pred > n THEN t.label[pred] ELSE pred
  IN  [t EXCEPT !.semi[n] = minimum(@, t.semi[best])]

Labelled(tables, n) ==
  LET over[i \in 0 .. Len(Predecessors(n))] ==
        IF i = 0 THEN tables ELSE Semidominator(over[i - 1], n, Predecessors(n)[i])
      t == over[Len(Predecessors(n))]
  IN  [t EXCEPT !.label[n] = t.semi[n]]

Climbed(tables, n) ==
  LET from[d \in Numbers] == IF d > tables.semi[n] THEN from[tables.parent[d]] ELSE d
  IN  [tables EXCEPT !.parent[n] = from[@]]

compute_dominators ==
  LET start == [parent |-> [n \in Numbers |-> parent[n + 1]],
                semi |-> [n \in Numbers |-> n], label |-> [n \in Numbers |-> n]]
      labelled[n \in 1 .. Len(parent)] ==
        IF n = Len(parent) THEN start ELSE Labelled(labelled[n + 1], n)
      climbed[n \in Numbers] == IF n = 0 THEN labelled[1] ELSE Climbed(climbed[n - 1], n)
  IN  climbed[Len(parent) - 1].parent

-----------------------------------------------------------------------------
(* d dominates b when nothing reaches b without passing d, and the         *)
(* immediate one of b is the one that all others dominate.                 *)
ReachableWithout(d) ==
  {b \in Blocks : \A S \in SUBSET (Blocks \ {d}) :
     (GraphEntry = d \/ GraphEntry \in S) /\ (\A c \in S : successor[c] \notin {NoBlock, d} => successor[c] \in S)
       => b \in S}
Dominates(d, b) == b \in Reachable \ ReachableWithout(d)
IsImmediateDominator(d, b) ==
  /\ d # b /\ Dominates(d, b)
  /\ \A c \in Blocks \ {b} : Dominates(c, b) => Dominates(c, d)

(* After the search the computed dominators are the dominators, although   *)
(* the numbers it starts from were garbage, the parents are those of a     *)
(* stack whose entries share their state, and the predecessors of a join   *)
(* were recorded where nobody reads them.                                  *)
DominatorsAreExact ==
  Answered =>
    \A n \in Numbers \ {0} :
      IsImmediateDominator(preorder[compute_dominators[n] + 1], preorder[n + 1])

(* What the search has left at any moment, of which the dominators are     *)
(* made: each block is the child of the one before it, no join has a       *)
(* predecessor where they are counted, and the target has the entry.       *)
TablesOfChain ==
  /\ Len(parent) = Len(preorder) /\ \A i \in DOMAIN parent : parent[i] = i - 2
  /\ \A j \in Joins : slots[j][0] = NoBlock /\ slots[j][1] = NoBlock
  /\ TargetEntry \in Discovered => slots[TargetEntry][0] = GraphEntry
=============================================================================
