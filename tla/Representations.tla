--------------------------- MODULE Representations --------------------------
(***************************************************************************)
(* graph_select_representations in src/src/graph/graph.c: wherever the     *)
(* user of a value wants another representation than the value has, a box  *)
(* or an unbox is put in front of the user.  First the definitions of the  *)
(* entry are taken, in turn, then those of the block, while the list of    *)
(* the block grows.  One step is one insert_conversion_for.                *)
(***************************************************************************)
EXTENDS Il

VARIABLES graph,
          initial,     \* how many definitions of the entry are done
          it           \* the instruction of the block that is next

selectVars == <<graph, initial, it>>

-----------------------------------------------------------------------------
(* A plausible slip in the code below, used to test a property.            *)
ConvertedWithoutBinding(g, use, d) ==
  IF Representation(g.code[d]) = "tagged" THEN InsertBefore(g, Unbox(d), use[1])
  ELSE InsertBefore(g, Box(d), use[1])
-----------------------------------------------------------------------------

SelectStarts == initial' = 0 /\ it' = First(graph) /\ UNCHANGED graph

(* insert_conversion.                                                      *)
Converted(g, use, d) ==
  LET conversion == IF Representation(g.code[d]) = "tagged" THEN Unbox(d) ELSE Box(d)
  IN  BindTo(InsertBefore(g, conversion, use[1]), use, New(g))

(* convert_use.                                                            *)
Fits(g, use, d) == Representation(g.code[d]) = InputRepresentation(g.code[use[1]])

(* insert_conversion_for.  Converting a use leaves it the only use of the  *)
(* conversion, so the loop finds no use after it: the first that does not  *)
(* fit is the last it looks at.                                            *)
ConversionsFor(g, d) ==
  LET uses   == g.code[d].uses
      misfit == SelectInSeq(uses, LAMBDA use : ~Fits(g, use, d))
  IN  IF misfit = 0 THEN g ELSE Converted(g, uses[misfit], d)

SelectInitial ==
  /\ initial < Len(graph.pool)
  /\ graph' = ConversionsFor(graph, graph.pool[initial + 1])
  /\ initial' = initial + 1
  /\ it' = First(graph')

SelectInBlock ==
  /\ initial = Len(graph.pool) /\ it # NoIndex
  /\ graph' = ConversionsFor(graph, it)
  /\ it' = After(graph', it)
  /\ UNCHANGED initial

SelectNext == SelectInitial \/ SelectInBlock
=============================================================================
