------------------------------ MODULE UseList ------------------------------
(***************************************************************************)
(* The doubly linked list of the uses of a definition (input_use_list),    *)
(* threaded through the il_value nodes themselves: src/src/codegen/        *)
(* il_value.c, il_value.h and il_core.c, as the passes of graph/graph.c    *)
(* drive it.  SSA renaming adds the inputs of every instruction and takes  *)
(* out those of the instructions it deletes; the selection of              *)
(* representations walks a list while it moves the values it is standing   *)
(* on to other lists.  One action is one call; the loop of                 *)
(* insert_conversion_for is one action per iteration.                      *)
(***************************************************************************)
CONSTANTS Definitions,
          Values,          \* il_value nodes, allocated or not yet
          Null

ASSUME NullAssumption == Null \notin Values /\ Definitions # {}

VARIABLES heap,      \* head of every definition; next, prev, defn of every value
          born,      \* the values that are allocated
          made,      \* the definitions that exist
          linked,    \* history: the values that were put in a list and not taken out
          loop       \* insert_conversion_for: its definition and its `input`

vars == <<heap, born, made, linked, loop>>

OrNull == Values \cup {Null}
Heaps == [head : [Definitions -> OrNull], next : [Values -> OrNull],
          prev : [Values -> OrNull], defn : [Values -> Definitions]]

Idle == [busy |-> FALSE, defn |-> CHOOSE d \in Definitions : TRUE, input |-> Null]

(* Some values and definitions exist when the passes start; the rest are   *)
(* for the conversions.                                                    *)
Init == /\ \E d \in [Values -> Definitions] :
             heap = [head |-> [x \in Definitions |-> Null], next |-> [v \in Values |-> Null],
                     prev |-> [v \in Values |-> Null], defn |-> d]
        /\ born \in SUBSET Values
        /\ made \in SUBSET Definitions
        /\ \A v \in Values : IF v \in born THEN heap.defn[v] \in made
                             ELSE heap.defn[v] = Idle.defn
        /\ linked = {} /\ loop = Idle

-----------------------------------------------------------------------------
(* Plausible slips in the code below, each used to test a property.        *)
AddedToForgetsPrev(h, v, d) ==
  [head |-> [h.head EXCEPT ![d] = v], next |-> [h.next EXCEPT ![v] = h.head[d]],
   prev |-> [h.prev EXCEPT ![v] = Null], defn |-> h.defn]
ReplacedDropsOther(h, d, e) ==
  LET moved == {v \in linked : h.defn[v] = d}
  IN  [head |-> [h.head EXCEPT ![e] = h.head[d], ![d] = Null], next |-> h.next, prev |-> h.prev,
       defn |-> [v \in Values |-> IF v \in moved THEN e ELSE h.defn[v]]]
ReplacedRedirectsLast(h, d, e) ==
  [head |-> [h.head EXCEPT ![e] = h.head[d], ![d] = Null], next |-> h.next, prev |-> h.prev,
   defn |-> [h.defn EXCEPT ![CHOOSE v \in linked : h.defn[v] = d /\ h.next[v] = Null] = e]]
StepsOnFromHead(h) == loop' = [loop EXCEPT !.input = h.head[loop.defn]]
-----------------------------------------------------------------------------

(* value_add_to_list: v becomes the head.                                  *)
AddedTo(h, v, d) ==
  LET first == h.head[d]
      prev  == [h.prev EXCEPT ![v] = Null]
  IN  [head |-> [h.head EXCEPT ![d] = v],
       next |-> [h.next EXCEPT ![v] = first],
       prev |-> IF first = Null THEN prev ELSE [prev EXCEPT ![first] = v],
       defn |-> h.defn]

(* value_remove_from_list: by the head of the list of its definition, or   *)
(* by its predecessor.                                                     *)
RemovedFrom(h, v) ==
  LET d     == h.defn[v]
      after == h.next[v]
      next  == IF v = h.head[d] THEN h.next ELSE [h.next EXCEPT ![h.prev[v]] = after]
      prev  == IF after = Null THEN h.prev
               ELSE [h.prev EXCEPT ![after] = IF v = h.head[d] THEN Null ELSE h.prev[v]]
  IN  [head |-> IF v = h.head[d] THEN [h.head EXCEPT ![d] = after] ELSE h.head,
       next |-> [next EXCEPT ![v] = Null],
       prev |-> [prev EXCEPT ![v] = Null],
       defn |-> h.defn]

Pointed(h, v, d) ==
  [head |-> h.head, next |-> h.next, prev |-> h.prev, defn |-> [h.defn EXCEPT ![v] = d]]

(* value_bind_to.                                                          *)
Bound(h, v, d) == AddedTo(Pointed(RemovedFrom(h, v), v, d), v, d)

-----------------------------------------------------------------------------
(* graph_rename_recursive: the input is pointed at the definition that     *)
(* reaches it and joins its uses.  Each instruction is renamed once.       *)
RenameInput(v, d) ==
  /\ ~loop.busy
  /\ v \in born \ linked /\ d \in made
  /\ heap' = AddedTo(Pointed(heap, v, d), v, d)
  /\ linked' = linked \cup {v}
  /\ UNCHANGED <<born, made, loop>>

(* instr_remove_from_graph, for an input of an instruction renamed before. *)
RemoveInput(v) ==
  /\ ~loop.busy
  /\ v \in linked
  /\ heap' = RemovedFrom(heap, v)
  /\ linked' = linked \ {v}
  /\ UNCHANGED <<born, made, loop>>

(* The nodes on the list of d: the head, and with a node the one behind it.*)
Reached(h, d) ==
  LET closed == {S \in SUBSET OrNull : h.head[d] \in S /\ \A v \in S \ {Null} : h.next[v] \in S}
  IN  {v \in OrNull : \A S \in closed : v \in S}

(* defn_replace_uses_with: every node of the one list is pointed at the    *)
(* other definition, and the list is put in front of that one's.  (No pass *)
(* calls it yet.)                                                          *)
Replaced(h, d, e) ==
  LET moved == Reached(h, d) \ {Null}
      last  == CHOOSE v \in moved : h.next[v] = Null
      first == h.head[e]
  IN  [head |-> [h.head EXCEPT ![e] = h.head[d], ![d] = Null],
       next |-> [h.next EXCEPT ![last] = first],
       prev |-> IF first = Null THEN h.prev ELSE [h.prev EXCEPT ![first] = last],
       defn |-> [v \in Values |-> IF v \in moved THEN e ELSE h.defn[v]]]

ReplaceUses(d, e) ==
  /\ ~loop.busy
  /\ {d, e} \subseteq made /\ d # e
  /\ heap.head[d] # Null
  /\ heap' = Replaced(heap, d, e)
  /\ UNCHANGED <<born, made, linked, loop>>

-----------------------------------------------------------------------------
(* insert_conversion_for: walk the uses of d.                              *)
BeginLoop(d) ==
  /\ ~loop.busy /\ d \in made
  /\ loop' = [busy |-> TRUE, defn |-> d, input |-> heap.head[d]]
  /\ UNCHANGED <<heap, born, made, linked>>

Here == loop.input
StepsOn(h) == loop' = [loop EXCEPT !.input = h.next[Here]]

(* convert_use returns early: the user takes the value as it is.           *)
KeepUse ==
  /\ loop.busy /\ Here # Null
  /\ StepsOn(heap)
  /\ UNCHANGED <<heap, born, made, linked>>

(* insert_conversion: a new box or unbox of d, reading it through a new    *)
(* value, is inserted before the user (instr_insert_after adds its input   *)
(* to the uses of d), and the user is bound to it.  The loop then steps on *)
(* through the next pointer that value_bind_to has just rewritten.         *)
Converted(h, v, n, d, c) == Bound(AddedTo(Pointed(h, n, d), n, d), v, c)

ConvertUse(n, c) ==
  /\ loop.busy /\ Here # Null
  /\ n \notin born /\ c \notin made
  /\ heap' = Converted(heap, Here, n, loop.defn, c)
  /\ born' = born \cup {n} /\ made' = made \cup {c}
  /\ linked' = linked \cup {n}
  /\ StepsOn(heap')

(* Between two representations that have no single conversion: a box b,    *)
(* to which the user is bound first, and an unbox c of it.                 *)
ConvertUseTwice(n, m, b, c) ==
  /\ loop.busy /\ Here # Null
  /\ n # m /\ b # c /\ {n, m} \cap born = {} /\ {b, c} \cap made = {}
  /\ LET boxed  == AddedTo(Pointed(Bound(heap, Here, b), n, loop.defn), n, loop.defn)
         chosen == AddedTo(Pointed(boxed, m, b), m, b)
     IN  heap' = Bound(chosen, Here, c)
  /\ born' = born \cup {n, m} /\ made' = made \cup {b, c}
  /\ linked' = linked \cup {n, m}
  /\ StepsOn(heap')

EndLoop ==
  /\ loop.busy /\ Here = Null
  /\ loop' = Idle
  /\ UNCHANGED <<heap, born, made, linked>>

LoopStep ==
  \/ KeepUse \/ EndLoop
  \/ \E n \in Values, c \in Definitions : ConvertUse(n, c)
  \/ \E n, m \in Values, b, c \in Definitions : ConvertUseTwice(n, m, b, c)

Next ==
  \/ \E v \in Values, d \in Definitions : RenameInput(v, d)
  \/ \E v \in Values : RemoveInput(v)
  \/ \E d, e \in Definitions : ReplaceUses(d, e)
  \/ \E d \in Definitions : BeginLoop(d)
  \/ LoopStep

Spec == Init /\ [][Next]_vars

(* A loop that has begun runs on: nothing preempts it.                     *)
FairSpec == Spec /\ WF_vars(LoopStep)

-----------------------------------------------------------------------------
(* Every variable keeps its type; only allocated values are in lists.      *)
TypeOK == /\ heap \in Heaps
          /\ linked \subseteq born /\ born \subseteq Values
          /\ made \subseteq Definitions
          /\ loop \in [busy : BOOLEAN, defn : Definitions, input : OrNull]

(* The lists are linked both ways and no list runs into another: what      *)
(* value_remove_from_list needs to find its neighbours.                    *)
WellLinked(h, on) ==
  /\ \A d \in Definitions :
       LET v == h.head[d]
       IN  v # Null => v \in on /\ h.defn[v] = d /\ h.prev[v] = Null
  /\ \A v \in on :
       LET w == h.next[v]
       IN  w # Null => w \in on /\ h.prev[w] = v /\ h.defn[w] = h.defn[v]
  /\ \A v \in on :
       LET u == h.prev[v]
       IN  IF u = Null THEN h.head[h.defn[v]] = v
           ELSE u \in on /\ h.next[u] = v /\ h.defn[u] = h.defn[v]
  /\ \A v \in Values \ on : h.next[v] = Null /\ h.prev[v] = Null

(* No part of a list turns back into itself, in either direction.          *)
ListsEnd(h, on) ==
  \A S \in SUBSET on : S # {} => /\ \E v \in S : h.next[v] \notin S
                                 /\ \E v \in S : h.prev[v] \notin S

(* Where insert_conversion_for stands, there is a use of its definition.   *)
LoopOnList ==
  loop.busy => /\ loop.defn \in made
               /\ loop.input # Null => loop.input \in linked /\ heap.defn[loop.input] = loop.defn

(* The heap that every list operation may rely on, and what keeps it so:   *)
(* conversions are made for definitions that nobody uses before.           *)
HeapInv == /\ TypeOK
           /\ WellLinked(heap, linked) /\ ListsEnd(heap, linked)
           /\ \A v \in linked : heap.defn[v] \in made
           /\ LoopOnList

UsesOf == [d \in Definitions |-> {v \in linked : heap.defn[v] = d}]

(* The list of a definition ends, and a walk over it meets exactly the     *)
(* values in use that point at the definition.                             *)
ListsHoldTheUses ==
  \A d \in Definitions : Reached(heap, d) = UsesOf[d] \cup {Null}

(* Although it moves the values it stands on, the conversion loop ends.    *)
ConversionEnds == loop.busy ~> ~loop.busy

(* The lists implement sets of uses; ListsHoldTheUses says that these are  *)
(* the sets a walk over the lists finds.                                   *)
Sets == INSTANCE UseSets WITH uses <- UsesOf
ImplementsUseSets == Sets!AbsSpec
=============================================================================
