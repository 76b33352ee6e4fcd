-------------------------------- MODULE Scopes --------------------------------
(***************************************************************************)
(* Lexical scopes and the frame slots of their variables: src/src/local.c, *)
(* src/include/mun/local.h and function_allocate_variables of object.c.    *)
(* Scopes are numbered in the order local_scope_new makes them, 1 is the   *)
(* scope of the function; NoScope is NULL.  A front end declares variables *)
(* and parameters in any order, then lets the function lay out its frame,  *)
(* and may declare more and lay it out again.                              *)
(***************************************************************************)
EXTENDS Integers, Sequences, FiniteSets

CONSTANTS Variables, Names, MaxScopes,
          NoVariable

ASSUME ScopesAssumption == /\ MaxScopes \in Nat \ {0}
                           /\ NoVariable \notin Variables /\ IsFiniteSet(Variables)

NoScope == 0
kParamEndSlotFromFp == 1
kFirstLocalSlotFromFp == -3

VARIABLES parent,        \* parent[s] of the scopes made so far
          variables,     \* the variables buffer of every scope
          name, owner, index,
          numParams, numStackLocals,
          fresh          \* history: nothing was declared since the frame was laid out

vars == <<parent, variables, name, owner, index, numParams, numStackLocals, fresh>>

Scopes == DOMAIN parent
InScope(s) == {variables[s][i] : i \in DOMAIN variables[s]}

Init == /\ parent = <<NoScope>> /\ variables = << <<>> >>
        /\ name \in [Variables -> Names]
        /\ owner = [v \in Variables |-> NoScope]
        /\ index = [v \in Variables |-> -1]
        /\ numParams = 0 /\ numStackLocals = 0 /\ fresh = FALSE

(* A scope and those around it, by the parent pointers p.                  *)
ChainsOf(p) ==
  LET chain[s \in 0 .. Len(p)] == IF s = NoScope THEN {} ELSE {s} \cup chain[p[s]]
  IN  chain
Chain(s) == ChainsOf(parent)[s]

-----------------------------------------------------------------------------
(* Plausible slips in the code below, each used to test a property.        *)
LookupOutermost(s, n) ==
  LET found == {v \in UNION {InScope(t) : t \in Chain(s)} : name[v] = n}
      depth(v) == Cardinality(Chain(CHOOSE t \in Chain(s) : v \in InScope(t)))
  IN  IF found = {} THEN NoVariable
      ELSE CHOOSE v \in found : \A w \in found : depth(v) <= depth(w)
LocalLookupSkipsParams(s, n) ==
  LET found == {v \in InScope(s) : name[v] = n
                  /\ ~\E i \in 1 .. numParams : s = 1 /\ variables[1][i] = v}
  IN  IF found = {} THEN NoVariable ELSE CHOOSE v \in found : TRUE
MinFrameIndexOfRoot(ends) == ends[1]
AddTakesOwnership(s, v) ==
  /\ variables' = [variables EXCEPT ![s] = Append(@, v)]
  /\ owner' = [owner EXCEPT ![v] = s]
-----------------------------------------------------------------------------
(* local_scope_local_lookup *)
LocalLookup(s, n) ==
  LET found == {v \in InScope(s) : name[v] = n}
  IN  IF found = {} THEN NoVariable ELSE CHOOSE v \in found : TRUE

(* local_scope_lookup: the first scope outwards that has the name.         *)
Lookup(s, n) ==
  LET has == {t \in Chain(s) : LocalLookup(t, n) # NoVariable}
  IN  IF has = {} THEN NoVariable
      ELSE LocalLookup(CHOOSE t \in has : \A u \in has : u \in Chain(t), n)

(* local_scope_new *)
NewScope(p) ==
  /\ Len(parent) < MaxScopes
  /\ parent' = Append(parent, p) /\ variables' = Append(variables, <<>>)
  /\ fresh' = FALSE
  /\ UNCHANGED <<name, owner, index, numParams, numStackLocals>>

(* local_scope_add after its lookup found nothing.  A variable that has an *)
(* owner keeps it.                                                         *)
Added(s, v) ==
  /\ variables' = [variables EXCEPT ![s] = Append(@, v)]
  /\ owner' = IF owner[v] = NoScope THEN [owner EXCEPT ![v] = s] ELSE owner

(* A new variable, or one of an enclosing scope that is made known here.   *)
Add(s, v) ==
  /\ owner[v] \in {NoScope} \cup Chain(s)
  /\ LocalLookup(s, name[v]) = NoVariable
  /\ Added(s, v)
  /\ fresh' = FALSE
  /\ UNCHANGED <<parent, name, index, numParams, numStackLocals>>

(* local_scope_insert_param among the parameters inserted before; the      *)
(* front end counts them.                                                  *)
InsertParam(i, v) ==
  /\ owner[v] = NoScope /\ LocalLookup(1, name[v]) = NoVariable
  /\ variables' = [variables EXCEPT ![1] = SubSeq(@, 1, i) \o <<v>> \o SubSeq(@, i + 1, Len(@))]
  /\ owner' = [owner EXCEPT ![v] = 1]
  /\ numParams' = numParams + 1 /\ fresh' = FALSE
  /\ UNCHANGED <<parent, name, index, numStackLocals>>

(* The places whose variable the second loop of local_scope_alloc_vars     *)
(* gives a slot; only the outermost call has parameters.                   *)
IsLocal(s, i) == (s = 1 => i > numParams) /\ owner[variables[s][i]] = s
LocalsBefore(s, i) == Cardinality({j \in 1 .. i - 1 : IsLocal(s, j)})
LocalCounts == [s \in Scopes |-> LocalsBefore(s, Len(variables[s]) + 1)]

(* The frame index the calls for the children of a scope start from.       *)
FramesOf(p, counts) ==
  LET frame[s \in 0 .. Len(p)] ==
        IF s = NoScope THEN kFirstLocalSlotFromFp ELSE frame[p[s]] - counts[s]
  IN  frame
ChildFrameIndex == FramesOf(parent, LocalCounts)

PlaceIn(s, v) == CHOOSE i \in DOMAIN variables[s] : variables[s][i] = v
IsParam(v) == \E i \in 1 .. numParams : variables[1][i] = v

MinFrameIndex(ends) == CHOOSE m \in {ends[s] : s \in DOMAIN ends} :
                         \A s \in DOMAIN ends : m <= ends[s]

(* What the loops of local_scope_alloc_vars give a variable of a scope.    *)
FrameIndex(v) ==
  LET s == owner[v]
  IN  IF IsParam(v) THEN kParamEndSlotFromFp + numParams - (PlaceIn(1, v) - 1)
                    ELSE ChildFrameIndex[parent[s]] - LocalsBefore(s, PlaceIn(s, v))

(* function_allocate_variables and the recursion of local_scope_alloc_vars.*)
Allocate ==
  /\ ~fresh
  /\ index' = [v \in Variables |-> IF owner[v] = NoScope THEN index[v] ELSE FrameIndex(v)]
  /\ numStackLocals' =
       kFirstLocalSlotFromFp - MinFrameIndex([s \in Scopes |-> ChildFrameIndex[s]])
  /\ fresh' = TRUE
  /\ UNCHANGED <<parent, variables, name, owner, numParams>>

(* local_var_bit_index *)
BitIndex(v) == IF index[v] > 0 THEN numParams - (index[v] - kParamEndSlotFromFp)
               ELSE numParams - (index[v] - kFirstLocalSlotFromFp)

Next == \/ \E p \in Scopes : NewScope(p)
        \/ \E s \in Scopes, v \in Variables : Add(s, v)
        \/ \E v \in Variables : \E i \in 0 .. numParams : InsertParam(i, v)
        \/ Allocate

Spec == Init /\ [][Next]_vars

-----------------------------------------------------------------------------
Slots == {kFirstLocalSlotFromFp - i : i \in 0 .. Cardinality(Variables)}
         \cup (kParamEndSlotFromFp + 1 .. kParamEndSlotFromFp + Cardinality(Variables))

(* Every variable keeps its type, and a slot is never -1, the value that   *)
(* local_var_has_index takes for "no slot".                                *)
TypeOK == /\ parent \in Seq(0 .. MaxScopes) /\ \A s \in Scopes : parent[s] < s
          /\ variables \in Seq(Seq(Variables)) /\ Len(variables) = Len(parent)
          /\ name \in [Variables -> Names]
          /\ owner \in [Variables -> Scopes \cup {NoScope}]
          /\ index \in [Variables -> Slots \cup {-1}]
          /\ numParams \in 0 .. Len(variables[1]) /\ numStackLocals \in Nat
          /\ fresh \in BOOLEAN /\ (fresh => \A v \in Variables :
                                     owner[v] # NoScope => index[v] # -1)

Visible(s) == UNION {InScope(t) : t \in Chain(s)}

(* Two variables that can be live at the same time, shadowed ones and      *)
(* parameters included, never share a frame slot, although sibling scopes  *)
(* use the same slots (local.c:38), nor a place in the bit vectors and the *)
(* SSA environment, which have graph_variable_count of them (graph.h:56).  *)
SlotsApart ==
  fresh => \A s \in Scopes : \A v \in Visible(s) :
             /\ BitIndex(v) \in 0 .. numParams + numStackLocals - 1
             /\ \A w \in Visible(s) \ {v} : index[v] # index[w] /\ BitIndex(v) # BitIndex(w)

(* The frame is exactly as large as the deepest nest of scopes needs:      *)
(* every local lies in it and its last slot belongs to somebody.           *)
FrameIsTight ==
  fresh => LET locals == {v \in Variables : owner[v] # NoScope /\ index[v] < 0}
           IN  {index[v] : v \in locals} =
                 {kFirstLocalSlotFromFp - i : i \in 0 .. numStackLocals - 1}

(* A scope never holds two variables of one name, parameters included,     *)
(* however they were declared.                                             *)
NamesUnique == \A s \in Scopes : \A i, j \in DOMAIN variables[s] :
                 name[variables[s][i]] = name[variables[s][j]] => i = j

(* What the front end and the layout may rely on between two calls.        *)
ScopesInv == TypeOK /\ NamesUnique

(* Declaring a name never changes what it means where an inner scope       *)
(* declares it too, nor outside of the scope it is declared in.            *)
ResolutionIsLexical ==
  [][\A s \in Scopes, n \in Names :
       LET before == Lookup(s, n) IN
       before # NoVariable /\ Lookup(s, n)' # before =>
         \E t \in Chain(s) : /\ InScope(t)' # InScope(t)
                             /\ \A u \in Chain(s) : before \in InScope(u) => u \in Chain(t) \ {t}]_vars
=============================================================================
