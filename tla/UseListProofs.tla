---------------------------- MODULE UseListProofs ----------------------------
(***************************************************************************)
(* For any number of definitions and values: every list of uses is linked  *)
(* both ways and ends, a walk over it meets exactly the uses of its        *)
(* definition, and the calls implement the sets of uses of UseSets.        *)
(***************************************************************************)
EXTENDS UseList, TLAPS

(* What the calls do to the heap is shown for any heap h and any set on of *)
(* linked values, since a conversion makes several of them in one step.    *)
Lists(h, on) == h \in Heaps /\ on \subseteq Values /\ WellLinked(h, on) /\ ListsEnd(h, on)

UsesIn(h, on, d) == {v \in on : h.defn[v] = d}

-----------------------------------------------------------------------------
(* A definition without uses has an empty list, and only such a one.       *)
LEMMA EmptyList ==
  ASSUME NEW h, NEW on, Lists(h, on), NEW d \in Definitions
  PROVE  h.head[d] = Null <=> UsesIn(h, on, d) = {}
<1>1. ASSUME h.head[d] = Null, UsesIn(h, on, d) # {} PROVE FALSE
  <2> DEFINE S == UsesIn(h, on, d)
  <2>1. PICK v \in S : h.prev[v] \notin S
    BY <1>1 DEF Lists, ListsEnd, UsesIn
  <2>2. v \in on /\ h.defn[v] = d
    BY <2>1 DEF UsesIn
  <2>3. h.prev[v] # Null
    BY <1>1, <2>2, NullAssumption DEF Lists, WellLinked
  <2>4. h.prev[v] \in S
    BY <2>2, <2>3 DEF Lists, WellLinked, UsesIn
  <2>5. QED
    BY <2>1, <2>4
<1>2. ASSUME h.head[d] # Null PROVE UsesIn(h, on, d) # {}
  BY <1>2 DEF Lists, WellLinked, UsesIn
<1>3. QED
  BY <1>1, <1>2

(* A list ends, and a walk over it meets the uses of its definition.       *)
LEMMA ReachedAreUses ==
  ASSUME NEW h, NEW on, Lists(h, on), NEW d \in Definitions
  PROVE  Reached(h, d) = UsesIn(h, on, d) \cup {Null}
<1> DEFINE closed == {S \in SUBSET OrNull :
                        h.head[d] \in S /\ \A v \in S \ {Null} : h.next[v] \in S}
           all == UsesIn(h, on, d) \cup {Null}
<1>1. all \in closed
  <2>1. all \subseteq OrNull
    BY DEF Lists, UsesIn, OrNull
  <2>2. h.head[d] \in all
    BY DEF Lists, WellLinked, UsesIn
  <2>3. \A v \in all \ {Null} : h.next[v] \in all
    BY DEF Lists, WellLinked, UsesIn
  <2>4. QED
    BY <2>1, <2>2, <2>3
<1>2. ASSUME NEW S \in closed PROVE Null \in S
  <2> SUFFICES ASSUME Null \notin S PROVE FALSE
    OBVIOUS
  <2> DEFINE T == S \cap on
  <2>1. h.head[d] \in T
    BY DEF Lists, WellLinked
  <2>2. PICK v \in T : h.next[v] \notin T
    BY <2>1 DEF Lists, ListsEnd
  <2>3. h.next[v] \in S /\ h.next[v] # Null
    BY <2>2
  <2>4. h.next[v] \in on
    BY <2>2, <2>3 DEF Lists, WellLinked
  <2>5. QED
    BY <2>2, <2>3, <2>4
<1>3. ASSUME NEW S \in closed PROVE UsesIn(h, on, d) \subseteq S
  <2> DEFINE T == UsesIn(h, on, d) \ S
  <2> SUFFICES ASSUME T # {} PROVE FALSE
    OBVIOUS
  <2>1. PICK v \in T : h.prev[v] \notin T
    BY DEF Lists, ListsEnd, UsesIn
  <2>2. v \in on /\ h.defn[v] = d /\ v \notin S
    BY <2>1 DEF UsesIn
  <2>3. h.prev[v] # Null
    BY <2>2 DEF Lists, WellLinked
  <2>4. h.prev[v] \in on /\ h.defn[h.prev[v]] = d /\ h.next[h.prev[v]] = v
    BY <2>2, <2>3 DEF Lists, WellLinked
  <2>5. h.prev[v] \in S
    BY <2>1, <2>4 DEF UsesIn
  <2>6. v \in S
    BY <2>3, <2>4, <2>5
  <2>7. QED
    BY <2>2, <2>6
<1>4. Reached(h, d) \subseteq all
  BY <1>1 DEF Reached
<1>5. all \subseteq Reached(h, d)
  BY <1>1, <1>2, <1>3 DEF Reached
<1>6. QED
  BY <1>4, <1>5

-----------------------------------------------------------------------------
(* value_add_to_list of a value that is in no list, after it was pointed   *)
(* at its definition: it is the new head, in front of the old one.         *)
LEMMA AddedToKeepsLists ==
  ASSUME NEW h, NEW on, Lists(h, on), NEW v \in Values \ on, NEW d \in Definitions,
         NEW g, g = AddedTo(Pointed(h, v, d), v, d)
  PROVE  /\ Lists(g, on \cup {v})
         /\ g.defn = [h.defn EXCEPT ![v] = d]
         /\ g.head = [h.head EXCEPT ![d] = v]
         /\ g.next[v] = h.head[d]
<1> DEFINE first == h.head[d]
           prev == [h.prev EXCEPT ![v] = Null]
<1>1. /\ h.head \in [Definitions -> OrNull] /\ h.next \in [Values -> OrNull]
      /\ h.prev \in [Values -> OrNull] /\ h.defn \in [Values -> Definitions]
      /\ on \subseteq Values /\ WellLinked(h, on) /\ ListsEnd(h, on)
  BY DEF Lists, Heaps
<1>2. /\ g.head = [h.head EXCEPT ![d] = v]
      /\ g.next = [h.next EXCEPT ![v] = first]
      /\ g.prev = IF first = Null THEN prev ELSE [prev EXCEPT ![first] = v]
      /\ g.defn = [h.defn EXCEPT ![v] = d]
  BY DEF AddedTo, Pointed
<1>3. g \in Heaps
  BY <1>1 DEF Heaps, AddedTo, Pointed, OrNull
<1>4. v # Null /\ first # v /\ (first # Null => first \in on /\ h.prev[first] = Null /\ h.defn[first] = d)
  BY <1>1, NullAssumption DEF WellLinked
<1>5. WellLinked(g, on \cup {v})
  <2>1. ASSUME NEW e \in Definitions, g.head[e] # Null
        PROVE  g.head[e] \in on \cup {v} /\ g.defn[g.head[e]] = e /\ g.prev[g.head[e]] = Null
    <3>1. CASE e = d
      BY <1>1, <1>2, <1>4, <3>1
    <3>2. CASE e # d
      <4>1. h.head[e] \in on /\ h.defn[h.head[e]] = e /\ h.prev[h.head[e]] = Null
        BY <1>1, <1>2, <2>1, <3>2 DEF WellLinked
      <4>2. QED
        BY <1>1, <1>2, <1>4, <3>2, <4>1
    <3>3. QED
      BY <3>1, <3>2
  <2>2. ASSUME NEW u \in on \cup {v}, g.next[u] # Null
        PROVE  /\ g.next[u] \in on \cup {v} /\ g.prev[g.next[u]] = u
               /\ g.defn[g.next[u]] = g.defn[u]
    <3>1. CASE u = v
      BY <1>1, <1>2, <1>4, <2>2, <3>1
    <3>2. CASE u # v
      <4>1. /\ h.next[u] \in on /\ h.prev[h.next[u]] = u /\ h.defn[h.next[u]] = h.defn[u]
        BY <1>1, <1>2, <2>2, <3>2 DEF WellLinked
      <4>2. h.next[u] # first
        BY <1>4, <2>2, <3>2, <4>1, NullAssumption, <1>1
      <4>3. QED
        BY <1>1, <1>2, <1>4, <3>2, <4>1, <4>2
    <3>3. QED
      BY <3>1, <3>2
  <2>3. ASSUME NEW u \in on \cup {v}
        PROVE  IF g.prev[u] = Null THEN g.head[g.defn[u]] = u
               ELSE g.prev[u] \in on \cup {v} /\ g.next[g.prev[u]] = u /\ g.defn[g.prev[u]] = g.defn[u]
    <3>1. CASE u = v
      BY <1>1, <1>2, <1>4, <3>1
    <3>2. CASE u # v /\ u = first
      BY <1>1, <1>2, <1>4, <3>2, NullAssumption
    <3>3. CASE u # v /\ u # first
      <4>1. g.prev[u] = h.prev[u] /\ g.defn[u] = h.defn[u] /\ u \in on
        BY <1>1, <1>2, <3>3
      <4>2. CASE h.prev[u] = Null
        BY <1>1, <1>2, <3>3, <4>1, <4>2 DEF WellLinked
      <4>3. CASE h.prev[u] # Null
        BY <1>1, <1>2, <3>3, <4>1, <4>3 DEF WellLinked
      <4>4. QED
        BY <4>2, <4>3
    <3>4. QED
      BY <3>1, <3>2, <3>3
  <2>4. \A u \in Values \ (on \cup {v}) : g.next[u] = Null /\ g.prev[u] = Null
    BY <1>1, <1>2, <1>4 DEF WellLinked
  <2>5. QED
    BY <2>1, <2>2, <2>3, <2>4 DEF WellLinked
<1>6. ListsEnd(g, on \cup {v})
  <2> SUFFICES ASSUME NEW S \in SUBSET (on \cup {v}), S # {}
               PROVE  (\E u \in S : g.next[u] \notin S) /\ (\E u \in S : g.prev[u] \notin S)
    BY DEF ListsEnd
  <2>1. \E u \in S : g.next[u] \notin S
    <3>1. CASE S = {v}
      BY <1>1, <1>2, <1>4, <3>1
    <3>2. CASE S # {v}
      <4> DEFINE T == S \ {v}
      <4>0. T # {} /\ T \in SUBSET on
        BY <3>2
      <4>1. PICK u \in T : h.next[u] \notin T
        BY <1>1, <4>0 DEF ListsEnd
      <4>2. g.next[u] = h.next[u] /\ h.next[u] # v
        BY <1>1, <1>2, <4>1, NullAssumption DEF WellLinked
      <4>3. QED
        BY <4>1, <4>2
    <3>3. QED
      BY <3>1, <3>2
  <2>2. \E u \in S : g.prev[u] \notin S
    <3>1. CASE v \in S
      BY <1>1, <1>2, <1>4, <3>1, NullAssumption
    <3>2. CASE v \notin S
      <4>1. PICK u \in S : h.prev[u] \notin S
        BY <1>1, <3>2 DEF ListsEnd
      <4>2. g.prev[u] \in {h.prev[u], v}
        BY <1>1, <1>2, <3>2, <4>1
      <4>3. QED
        BY <3>2, <4>1, <4>2
    <3>3. QED
      BY <3>1, <3>2
  <2>3. QED
    BY <2>1, <2>2
<1>7. QED
  BY <1>1, <1>2, <1>3, <1>5, <1>6 DEF Lists

(* value_remove_from_list of a value in a list: its neighbours are linked  *)
(* to each other, and whose use it is stays written in it.                 *)
LEMMA RemovedFromKeepsLists ==
  ASSUME NEW h, NEW on, Lists(h, on), NEW v \in on,
         NEW g, g = RemovedFrom(h, v)
  PROVE  /\ Lists(g, on \ {v})
         /\ g.defn = h.defn
         /\ \A e \in Definitions \ {h.defn[v]} : g.head[e] = h.head[e]
<1> DEFINE d == h.defn[v]
           after == h.next[v]
           before == h.prev[v]
           isHead == v = h.head[d]
           next == IF isHead THEN h.next ELSE [h.next EXCEPT ![before] = after]
           prev == IF after = Null THEN h.prev
                   ELSE [h.prev EXCEPT ![after] = IF isHead THEN Null ELSE before]
<1>1. /\ h.head \in [Definitions -> OrNull] /\ h.next \in [Values -> OrNull]
      /\ h.prev \in [Values -> OrNull] /\ h.defn \in [Values -> Definitions]
      /\ on \subseteq Values /\ WellLinked(h, on) /\ ListsEnd(h, on)
  BY DEF Lists, Heaps
<1>2. /\ g.head = IF isHead THEN [h.head EXCEPT ![d] = after] ELSE h.head
      /\ g.next = [next EXCEPT ![v] = Null]
      /\ g.prev = [prev EXCEPT ![v] = Null]
      /\ g.defn = h.defn
  BY DEF RemovedFrom
<1>3. /\ v \in Values /\ v # Null /\ d \in Definitions
      /\ isHead <=> before = Null
      /\ ~isHead => before \in on /\ h.next[before] = v /\ h.defn[before] = d
      /\ after # Null => after \in on /\ h.prev[after] = v /\ h.defn[after] = d
  <2>1. v \in Values /\ v # Null /\ d \in Definitions
    BY <1>1, NullAssumption
  <2>2. QED
    BY <1>1, <2>1 DEF WellLinked
(* No value is linked to itself.                                           *)
<1>4. after # v /\ before # v
  <2>1. {v} \in SUBSET on
    OBVIOUS
  <2>2. QED
    BY <1>1, <2>1 DEF ListsEnd
<1>5. g \in Heaps
  <2>1. after \in OrNull /\ before \in OrNull /\ Null \in OrNull
    BY <1>1, <1>3 DEF OrNull
  <2>2. next \in [Values -> OrNull] /\ prev \in [Values -> OrNull]
    BY <1>1, <2>1
  <2>3. g = [head |-> g.head, next |-> g.next, prev |-> g.prev, defn |-> g.defn]
    BY DEF RemovedFrom
  <2>4. /\ g.head \in [Definitions -> OrNull] /\ g.next \in [Values -> OrNull]
        /\ g.prev \in [Values -> OrNull] /\ g.defn \in [Values -> Definitions]
    BY <1>1, <1>2, <2>1, <2>2
  <2>5. QED
    BY <2>3, <2>4 DEF Heaps
(* The links of the values that stay.                                      *)
<1>6. \A u \in on \ {v} : g.next[u] = IF ~isHead /\ u = before THEN after ELSE h.next[u]
  BY <1>1, <1>2, <1>3
<1>7. \A u \in on \ {v} : g.prev[u] = IF u = after THEN (IF isHead THEN Null ELSE before) ELSE h.prev[u]
  BY <1>1, <1>2, <1>3, NullAssumption
<1>8. WellLinked(g, on \ {v})
  <2>1. ASSUME NEW e \in Definitions, g.head[e] # Null
        PROVE  g.head[e] \in on \ {v} /\ g.defn[g.head[e]] = e /\ g.prev[g.head[e]] = Null
    <3>1. CASE e = d /\ isHead
      BY <1>1, <1>2, <1>3, <1>4, <1>7, <2>1, <3>1
    <3>2. CASE ~(e = d /\ isHead)
      <4>1. g.head[e] = h.head[e] /\ h.head[e] \in on /\ h.defn[h.head[e]] = e /\ h.prev[h.head[e]] = Null
        BY <1>1, <1>2, <2>1, <3>2 DEF WellLinked
      <4>2. h.head[e] # v
        BY <3>2, <4>1
      <4>3. h.head[e] # after
        BY <1>3, <2>1, <4>1
      <4>4. QED
        BY <1>2, <1>7, <4>1, <4>2, <4>3
    <3>3. QED
      BY <3>1, <3>2
  <2>2. ASSUME NEW u \in on \ {v}, g.next[u] # Null
        PROVE  /\ g.next[u] \in on \ {v} /\ g.prev[g.next[u]] = u
               /\ g.defn[g.next[u]] = g.defn[u]
    <3>1. CASE ~isHead /\ u = before
      BY <1>2, <1>3, <1>4, <1>6, <1>7, <2>2, <3>1
    <3>2. CASE ~(~isHead /\ u = before)
      <4>1. /\ g.next[u] = h.next[u] /\ h.next[u] \in on /\ h.prev[h.next[u]] = u
            /\ h.defn[h.next[u]] = h.defn[u]
        BY <1>1, <1>6, <2>2, <3>2 DEF WellLinked
      <4>2. h.next[u] # v
        BY <1>1, <1>3, <2>2, <3>2, <4>1, NullAssumption
      <4>3. h.next[u] # after
        BY <1>3, <2>2, <4>1
      <4>4. QED
        BY <1>2, <1>7, <4>1, <4>2, <4>3
    <3>3. QED
      BY <3>1, <3>2
  <2>3. ASSUME NEW u \in on \ {v}
        PROVE  IF g.prev[u] = Null THEN g.head[g.defn[u]] = u
               ELSE g.prev[u] \in on \ {v} /\ g.next[g.prev[u]] = u /\ g.defn[g.prev[u]] = g.defn[u]
    <3>1. CASE u = after
      <4>1. u # Null
        BY <1>1, NullAssumption
      <4>2. CASE isHead
        BY <1>1, <1>2, <1>3, <1>7, <3>1, <4>1, <4>2
      <4>3. CASE ~isHead
        <5>1. g.prev[u] = before /\ before \in on \ {v} /\ before # Null
          BY <1>1, <1>3, <1>4, <1>7, <3>1, <4>3, NullAssumption
        <5>2. QED
          BY <1>2, <1>3, <1>6, <3>1, <4>1, <4>3, <5>1
      <4>4. QED
        BY <4>2, <4>3
    <3>2. CASE u # after
      <4>1. g.prev[u] = h.prev[u]
        BY <1>7, <3>2
      <4>2. CASE h.prev[u] = Null
        <5>1. h.head[h.defn[u]] = u
          BY <1>1, <4>2 DEF WellLinked
        <5>2. ~(h.defn[u] = d /\ isHead)
          BY <5>1
        <5>3. QED
          BY <1>1, <1>2, <4>1, <4>2, <5>1, <5>2
      <4>3. CASE h.prev[u] # Null
        <5>1. h.prev[u] \in on /\ h.next[h.prev[u]] = u /\ h.defn[h.prev[u]] = h.defn[u]
          BY <1>1, <4>3 DEF WellLinked
        <5>2. h.prev[u] # v
          BY <3>2, <5>1
        <5>3. ~isHead => h.prev[u] # before
          BY <1>3, <5>1
        <5>4. QED
          BY <1>2, <1>6, <4>1, <4>3, <5>1, <5>2, <5>3
      <4>4. QED
        BY <4>2, <4>3
    <3>3. QED
      BY <3>1, <3>2
  <2>4. ASSUME NEW u \in Values \ (on \ {v})
        PROVE  g.next[u] = Null /\ g.prev[u] = Null
    <3>1. CASE u = v
      BY <1>1, <1>2, <1>3, <3>1
    <3>2. CASE u # v
      BY <1>1, <1>2, <1>3, <3>2, NullAssumption DEF WellLinked
    <3>3. QED
      BY <3>1, <3>2
  <2>5. QED
    BY <2>1, <2>2, <2>3, <2>4 DEF WellLinked
<1>9. ListsEnd(g, on \ {v})
  <2> SUFFICES ASSUME NEW S \in SUBSET (on \ {v}), S # {}
               PROVE  (\E u \in S : g.next[u] \notin S) /\ (\E u \in S : g.prev[u] \notin S)
    BY DEF ListsEnd
  <2>0. S \in SUBSET on /\ S \cup {v} \in SUBSET on /\ Null \notin S
    BY <1>1, NullAssumption
  <2>1. \E u \in S : g.next[u] \notin S
    <3>1. CASE ~isHead /\ before \in S
      <4> DEFINE T == S \cup {v}
      <4>1. PICK u \in T : h.next[u] \notin T
        BY <1>1, <2>0 DEF ListsEnd
      <4>2. CASE u = v
        BY <1>6, <3>1, <4>1, <4>2
      <4>3. CASE u # v
        <5>1. u # before
          BY <1>3, <3>1, <4>1
        <5>2. QED
          BY <1>6, <4>1, <4>3, <5>1
      <4>4. QED
        BY <4>2, <4>3
    <3>2. CASE ~(~isHead /\ before \in S)
      <4>1. PICK u \in S : h.next[u] \notin S
        BY <1>1, <2>0 DEF ListsEnd
      <4>2. QED
        BY <1>6, <3>2, <4>1
    <3>3. QED
      BY <3>1, <3>2
  <2>2. \E u \in S : g.prev[u] \notin S
    <3>1. CASE after \in S
      <4> DEFINE T == S \cup {v}
      <4>1. PICK u \in T : h.prev[u] \notin T
        BY <1>1, <2>0 DEF ListsEnd
      <4>2. CASE u = v
        BY <1>7, <2>0, <3>1, <4>1, <4>2
      <4>3. CASE u # v
        <5>1. u # after
          BY <1>3, <2>0, <3>1, <4>1
        <5>2. QED
          BY <1>7, <4>1, <4>3, <5>1
      <4>4. QED
        BY <4>2, <4>3
    <3>2. CASE after \notin S
      <4>1. PICK u \in S : h.prev[u] \notin S
        BY <1>1, <2>0 DEF ListsEnd
      <4>2. QED
        BY <1>7, <3>2, <4>1
    <3>3. QED
      BY <3>1, <3>2
  <2>3. QED
    BY <2>1, <2>2
<1>10. \A e \in Definitions \ {d} : g.head[e] = h.head[e]
  BY <1>1, <1>2
<1>11. QED
  BY <1>1, <1>2, <1>5, <1>8, <1>9, <1>10 DEF Lists

(* Pointing a value that is in no list elsewhere disturbs no list.         *)
LEMMA PointedKeepsLists ==
  ASSUME NEW h, NEW on, Lists(h, on), NEW v \in Values \ on, NEW d \in Definitions
  PROVE  Lists(Pointed(h, v, d), on)
<1> DEFINE g == Pointed(h, v, d)
<1>1. /\ g.head = h.head /\ g.next = h.next /\ g.prev = h.prev
      /\ g.defn = [h.defn EXCEPT ![v] = d]
  BY DEF Pointed
<1>2. g \in Heaps
  BY DEF Lists, Heaps, Pointed
<1>3. \A u \in on : g.defn[u] = h.defn[u]
  BY <1>1 DEF Lists, Heaps
<1>4. WellLinked(g, on)
  BY <1>1, <1>3 DEF Lists, WellLinked
<1>5. ListsEnd(g, on)
  BY <1>1 DEF Lists, ListsEnd
<1>6. QED
  BY <1>2, <1>4, <1>5 DEF Lists

(* value_bind_to of a value to another definition, which has no uses: it   *)
(* becomes the only one, and its next pointer is Null.                     *)
LEMMA BoundKeepsLists ==
  ASSUME NEW h, NEW on, Lists(h, on), NEW v \in on, NEW d \in Definitions,
         d # h.defn[v], h.head[d] = Null,
         NEW g, g = Bound(h, v, d)
  PROVE  /\ Lists(g, on)
         /\ g.defn = [h.defn EXCEPT ![v] = d]
         /\ \A e \in Definitions \ {h.defn[v], d} : g.head[e] = h.head[e]
         /\ g.head[d] = v
         /\ g.next[v] = Null
<1> DEFINE without == RemovedFrom(h, v)
           off == on \ {v}
<1>1. /\ Lists(without, off) /\ without.defn = h.defn
      /\ \A e \in Definitions \ {h.defn[v]} : without.head[e] = h.head[e]
  BY RemovedFromKeepsLists
<1>2. v \in Values \ off /\ off \cup {v} = on
  BY DEF Lists
<1>3. g = AddedTo(Pointed(without, v, d), v, d)
  BY DEF Bound
<1> HIDE DEF without, off
<1>4. /\ Lists(g, off \cup {v})
      /\ g.defn = [without.defn EXCEPT ![v] = d]
      /\ g.head = [without.head EXCEPT ![d] = v]
      /\ g.next[v] = without.head[d]
  BY <1>1, <1>2, <1>3, AddedToKeepsLists
<1>5. without.head \in [Definitions -> OrNull]
  BY <1>1 DEF Lists, Heaps
<1>6. QED
  BY <1>1, <1>2, <1>4, <1>5

-----------------------------------------------------------------------------
(* A list that is not empty has one last node: the values that lie before  *)
(* a last one already make up the whole list.                              *)
LEMMA OneLastUse ==
  ASSUME NEW h, NEW on, Lists(h, on), NEW d \in Definitions, UsesIn(h, on, d) # {}
  PROVE  \E last \in UsesIn(h, on, d) :
           /\ h.next[last] = Null
           /\ \A w \in UsesIn(h, on, d) : h.next[w] = Null => w = last
<1> DEFINE uses == UsesIn(h, on, d)
<1>1. WellLinked(h, on) /\ ListsEnd(h, on) /\ on \subseteq Values
  BY DEF Lists
<1>2. uses \in SUBSET on /\ Null \notin uses
  BY <1>1, NullAssumption DEF UsesIn
<1>3. PICK last \in uses : h.next[last] \notin uses
  BY <1>1, <1>2 DEF ListsEnd
<1>4. h.next[last] = Null
  BY <1>1, <1>3 DEF WellLinked, UsesIn
(* The values before `last`, itself included.                              *)
<1> DEFINE upTo == {S \in SUBSET uses :
                      last \in S /\ \A u \in S : h.prev[u] # Null => h.prev[u] \in S}
           before == {u \in uses : \A S \in upTo : u \in S}
<1>5. uses \in upTo
  BY <1>1 DEF WellLinked, UsesIn
<1>6. before \in upTo
  BY <1>3, <1>5
(* One of them has no predecessor, so the head is among them ...           *)
<1>7. h.head[d] \in before
  <2>1. before \in SUBSET on /\ before # {}
    BY <1>2, <1>6
  <2>2. PICK u \in before : h.prev[u] \notin before
    BY <1>1, <2>1 DEF ListsEnd
  <2>3. h.prev[u] = Null
    BY <1>6, <2>2
  <2>4. h.head[d] = u
    BY <1>1, <2>2, <2>3 DEF WellLinked, UsesIn
  <2>5. QED
    BY <2>2, <2>4
(* ... and each but `last` is the predecessor of another one.              *)
<1>8. ASSUME NEW u \in before, u # last
      PROVE  h.next[u] \in before
  <2>1. \E y \in before \ {u} : h.prev[y] = u
    <3> SUFFICES ASSUME \A y \in before \ {u} : h.prev[y] # u PROVE FALSE
      OBVIOUS
    <3>1. before \ {u} \in upTo
      BY <1>6, <1>8
    <3>2. QED
      BY <3>1
  <2>2. PICK y \in before \ {u} : h.prev[y] = u
    BY <2>1
  <2>3. h.next[u] = y
    BY <1>1, <1>2, <2>2 DEF WellLinked, UsesIn
  <2>4. QED
    BY <2>2, <2>3
<1>9. uses \subseteq before
  <2> DEFINE S == before \cup {Null}
  <2>1. S \subseteq OrNull
    BY <1>1, <1>2 DEF OrNull
  <2>2. \A u \in S \ {Null} : h.next[u] \in S
    BY <1>4, <1>8
  <2>3. Reached(h, d) \subseteq S
    BY <1>7, <2>1, <2>2 DEF Reached
  <2>4. QED
    BY <1>2, <2>3, ReachedAreUses
<1>10. \A w \in uses : h.next[w] = Null => w = last
  BY <1>2, <1>8, <1>9
<1>11. QED
  BY <1>3, <1>4, <1>10

(* defn_replace_uses_with: the uses of d become uses of e, whose list is   *)
(* continued by the one of e.                                              *)
LEMMA ReplacedKeepsLists ==
  ASSUME NEW h, NEW on, Lists(h, on), NEW d \in Definitions, NEW e \in Definitions,
         d # e, h.head[d] # Null, NEW g, g = Replaced(h, d, e)
  PROVE  /\ Lists(g, on)
         /\ \A v \in on : g.defn[v] = IF h.defn[v] = d THEN e ELSE h.defn[v]
<1> DEFINE moved == UsesIn(h, on, d)
           last == CHOOSE v \in moved : h.next[v] = Null
           first == h.head[e]
<1>1. /\ h.head \in [Definitions -> OrNull] /\ h.next \in [Values -> OrNull]
      /\ h.prev \in [Values -> OrNull] /\ h.defn \in [Values -> Definitions]
      /\ on \subseteq Values /\ WellLinked(h, on) /\ ListsEnd(h, on)
  BY DEF Lists, Heaps
<1>2. moved # {} /\ moved \subseteq on /\ Null \notin on
  BY <1>1, EmptyList, NullAssumption DEF UsesIn
<1>3. last \in moved /\ h.next[last] = Null /\ \A w \in moved : h.next[w] = Null => w = last
  BY <1>2, OneLastUse
<1>4. moved = Reached(h, d) \ {Null}
  BY <1>2, ReachedAreUses
<1>5. /\ g.head = [h.head EXCEPT ![e] = h.head[d], ![d] = Null]
      /\ g.next = [h.next EXCEPT ![last] = first]
      /\ g.prev = IF first = Null THEN h.prev ELSE [h.prev EXCEPT ![first] = last]
      /\ g.defn = [v \in Values |-> IF v \in moved THEN e ELSE h.defn[v]]
  BY <1>4 DEF Replaced
<1>6. g \in Heaps
  <2>1. g = [head |-> g.head, next |-> g.next, prev |-> g.prev, defn |-> g.defn]
    BY DEF Replaced
  <2>2. last \in Values /\ last \in OrNull /\ first \in OrNull /\ Null \in OrNull /\ h.head[d] \in OrNull
    BY <1>1, <1>2, <1>3 DEF OrNull
  <2> HIDE DEF last, first, moved
  <2>3. g.head \in [Definitions -> OrNull]
    BY <1>1, <1>5, <2>2
  <2>4. g.next \in [Values -> OrNull]
    BY <1>1, <1>5, <2>2
  <2>5. g.prev \in [Values -> OrNull]
    <3>1. [h.prev EXCEPT ![first] = last] \in [Values -> OrNull]
      BY <1>1, <2>2
    <3>2. QED
      BY <1>1, <1>5, <3>1
  <2>6. g.defn \in [Values -> Definitions]
    BY <1>1, <1>5
  <2>7. QED
    BY <2>1, <2>3, <2>4, <2>5, <2>6 DEF Heaps
<1>7. first # Null => first \in on /\ h.defn[first] = e /\ h.prev[first] = Null
  BY <1>1 DEF WellLinked
<1>8. \A v \in on : v \in moved <=> h.defn[v] = d
  BY DEF UsesIn
<1> HIDE DEF last, first, moved
<1>9. \A v \in on : /\ g.defn[v] = IF h.defn[v] = d THEN e ELSE h.defn[v]
                    /\ g.next[v] = IF v = last THEN first ELSE h.next[v]
                    /\ g.prev[v] = IF v = first THEN last ELSE h.prev[v]
  BY <1>1, <1>2, <1>5, <1>8
<1>heads. /\ g.head[d] = Null /\ g.head[e] = h.head[d]
          /\ \A c \in Definitions \ {d, e} : g.head[c] = h.head[c]
  BY <1>1, <1>5
<1>10. last \in on /\ h.defn[last] = d /\ last # first /\ first \notin moved
  BY <1>2, <1>3, <1>7, <1>8
<1>11. WellLinked(g, on)
  <2>1. ASSUME NEW c \in Definitions, g.head[c] # Null
        PROVE  g.head[c] \in on /\ g.defn[g.head[c]] = c /\ g.prev[g.head[c]] = Null
    <3>1. CASE c = e
      <4>1. g.head[c] = h.head[d] /\ h.head[d] \in on /\ h.defn[h.head[d]] = d /\ h.prev[h.head[d]] = Null
        BY <1>1, <1>5, <3>1 DEF WellLinked
      <4>2. QED
        BY <1>7, <1>9, <3>1, <4>1, <1>2
    <3>2. CASE c # e
      <4>1. c # d /\ g.head[c] = h.head[c]
        BY <1>1, <1>5, <2>1, <3>2
      <4>2. h.head[c] \in on /\ h.defn[h.head[c]] = c /\ h.prev[h.head[c]] = Null
        BY <1>1, <2>1, <4>1 DEF WellLinked
      <4>3. QED
        BY <1>2, <1>7, <1>9, <3>2, <4>1, <4>2
    <3>3. QED
      BY <3>1, <3>2
  <2>2. ASSUME NEW u \in on, g.next[u] # Null
        PROVE  g.next[u] \in on /\ g.prev[g.next[u]] = u /\ g.defn[g.next[u]] = g.defn[u]
    <3>1. CASE u = last
      BY <1>7, <1>9, <1>10, <2>2, <3>1
    <3>2. CASE u # last
      <4>1. /\ g.next[u] = h.next[u] /\ h.next[u] \in on /\ h.prev[h.next[u]] = u
            /\ h.defn[h.next[u]] = h.defn[u]
        BY <1>1, <1>9, <2>2, <3>2 DEF WellLinked
      <4>2. h.next[u] # first
        BY <1>2, <1>7, <4>1
      <4>3. QED
        BY <1>9, <4>1, <4>2
    <3>3. QED
      BY <3>1, <3>2
  <2>3. ASSUME NEW u \in on
        PROVE  IF g.prev[u] = Null THEN g.head[g.defn[u]] = u
               ELSE g.prev[u] \in on /\ g.next[g.prev[u]] = u /\ g.defn[g.prev[u]] = g.defn[u]
    <3>1. CASE u = first
      BY <1>2, <1>7, <1>9, <1>10, <3>1
    <3>2. CASE u # first
      <4>1. g.prev[u] = h.prev[u] /\ h.defn[u] \in Definitions
        BY <1>1, <1>9, <3>2
      <4>2. CASE h.prev[u] = Null
        <5>1. h.head[h.defn[u]] = u
          BY <1>1, <4>2 DEF WellLinked
        <5>2. CASE h.defn[u] = d
          <6>1. g.defn[u] = e /\ h.head[d] = u
            BY <1>9, <5>1, <5>2
          <6>2. QED
            BY <1>heads, <4>1, <4>2, <6>1
        <5>3. CASE h.defn[u] # d
          <6>1. h.defn[u] # e
            BY <3>2, <5>1 DEF first
          <6>2. g.defn[u] = h.defn[u]
            BY <1>9, <5>3
          <6>3. g.head[h.defn[u]] = h.head[h.defn[u]]
            BY <1>heads, <4>1, <5>3, <6>1
          <6>4. QED
            BY <4>1, <4>2, <5>1, <6>2, <6>3
        <5>4. QED
          BY <5>2, <5>3
      <4>3. CASE h.prev[u] # Null
        <5>1. h.prev[u] \in on /\ h.next[h.prev[u]] = u /\ h.defn[h.prev[u]] = h.defn[u]
          BY <1>1, <4>3 DEF WellLinked
        <5>2. h.prev[u] # last
          BY <1>2, <1>3, <5>1
        <5>3. QED
          BY <1>9, <4>1, <4>3, <5>1, <5>2
      <4>4. QED
        BY <4>2, <4>3
    <3>3. QED
      BY <3>1, <3>2
  <2>4. \A u \in Values \ on : g.next[u] = Null /\ g.prev[u] = Null
    BY <1>1, <1>5, <1>7, <1>10 DEF WellLinked
  <2>5. QED
    BY <2>1, <2>2, <2>3, <2>4 DEF WellLinked
<1>12. ListsEnd(g, on)
  <2> SUFFICES ASSUME NEW S \in SUBSET on, S # {}
               PROVE  (\E u \in S : g.next[u] \notin S) /\ (\E u \in S : g.prev[u] \notin S)
    BY DEF ListsEnd
  <2>0. \A u \in on : /\ h.next[u] # Null => h.next[u] \in on /\ (h.next[u] \in moved <=> u \in moved)
                      /\ h.prev[u] # Null => h.prev[u] \in on /\ (h.prev[u] \in moved <=> u \in moved)
    BY <1>1, <1>8 DEF WellLinked
  <2>1. \E u \in S : g.next[u] \notin S
    <3>1. CASE S \ moved # {}
      <4> DEFINE T == S \ moved
      <4>1. PICK u \in T : h.next[u] \notin T
        BY <1>1, <3>1 DEF ListsEnd
      <4>2. QED
        BY <1>2, <1>3, <1>9, <2>0, <4>1
    <3>2. CASE S \ moved = {}
      <4>1. PICK u \in S : h.next[u] \notin S
        BY <1>1 DEF ListsEnd
      <4>2. QED
        BY <1>9, <1>10, <3>2, <4>1
    <3>3. QED
      BY <3>1, <3>2
  <2>2. \E u \in S : g.prev[u] \notin S
    <3>1. CASE S \cap moved # {}
      <4> DEFINE T == S \cap moved
      <4>1. PICK u \in T : h.prev[u] \notin T
        BY <1>1, <3>1 DEF ListsEnd
      <4>2. QED
        BY <1>2, <1>9, <1>10, <2>0, <4>1
    <3>2. CASE S \cap moved = {}
      <4>1. PICK u \in S : h.prev[u] \notin S
        BY <1>1 DEF ListsEnd
      <4>2. QED
        BY <1>3, <1>9, <3>2, <4>1
    <3>3. QED
      BY <3>1, <3>2
  <2>3. QED
    BY <2>1, <2>2
<1>13. QED
  BY <1>1, <1>6, <1>9, <1>11, <1>12 DEF Lists

-----------------------------------------------------------------------------
(* The invariant gives every lemma above what it asks of the heap.         *)
LEMMA HeapIsLists ==
  ASSUME HeapInv
  PROVE  /\ Lists(heap, linked)
         /\ heap.defn \in [Values -> Definitions]
         /\ heap.head \in [Definitions -> OrNull]
         /\ linked \subseteq born /\ born \subseteq Values
         /\ \A v \in linked : heap.defn[v] \in made
         /\ \A d \in Definitions \ made : heap.head[d] = Null
<1>1. Lists(heap, linked) /\ heap.defn \in [Values -> Definitions]
      /\ heap.head \in [Definitions -> OrNull]
      /\ linked \subseteq born /\ born \subseteq Values
  BY DEF HeapInv, TypeOK, Lists, Heaps
<1>2. \A v \in linked : heap.defn[v] \in made
  BY DEF HeapInv
<1>3. \A d \in Definitions \ made : heap.head[d] = Null
  BY <1>1, <1>2, EmptyList DEF UsesIn
<1>4. QED
  BY <1>1, <1>2, <1>3

(* What a conversion leaves: the use is the only one of the conversion,    *)
(* the conversion's own input is a use of the converted definition.        *)
LEMMA ConvertedHeap ==
  ASSUME HeapInv, loop.busy, Here # Null,
         NEW n \in Values \ born, NEW c \in Definitions \ made,
         NEW g, g = Converted(heap, Here, n, loop.defn, c)
  PROVE  /\ Lists(g, linked \cup {n})
         /\ g.defn = [heap.defn EXCEPT ![n] = loop.defn, ![Here] = c]
         /\ g.next[Here] = Null
         /\ Here \in linked /\ heap.defn[Here] = loop.defn /\ loop.defn \in made
<1>1. Here \in linked /\ heap.defn[Here] = loop.defn /\ loop.defn \in made
      /\ loop.defn \in Definitions
  BY DEF HeapInv, LoopOnList, Here, TypeOK
<1>heap. /\ Lists(heap, linked) /\ heap.defn \in [Values -> Definitions]
         /\ heap.head \in [Definitions -> OrNull] /\ heap.head[c] = Null
         /\ linked \subseteq Values
  BY HeapIsLists
<1>2. n \in Values \ linked /\ n # Here /\ c # loop.defn /\ Here \in Values
  BY <1>1, HeapIsLists
<1> DEFINE h == AddedTo(Pointed(heap, n, loop.defn), n, loop.defn)
           on == linked \cup {n}
<1>3. /\ Lists(h, on)
      /\ h.defn = [heap.defn EXCEPT ![n] = loop.defn]
      /\ h.head = [heap.head EXCEPT ![loop.defn] = n]
  BY <1>1, <1>2, <1>heap, AddedToKeepsLists
<1>5. g = Bound(h, Here, c)
  BY DEF Converted
<1> HIDE DEF h
<1>4. h.defn[Here] = loop.defn /\ h.head[c] = Null /\ Here \in on
  BY <1>1, <1>2, <1>3, <1>heap
<1> HIDE DEF on
<1>6. Lists(g, on) /\ g.defn = [h.defn EXCEPT ![Here] = c] /\ g.next[Here] = Null
  <2>1. Lists(h, on) /\ Here \in on
    BY <1>3, <1>4
  <2>2. c \in Definitions
    OBVIOUS
  <2>3. c # h.defn[Here]
    BY <1>2, <1>4
  <2>4. h.head[c] = Null
    BY <1>4
  <2>5. QED
    BY <2>1, <2>2, <2>3, <2>4, <1>5, BoundKeepsLists
<1>7. QED
  BY <1>1, <1>3, <1>6 DEF on

(* ... and what a conversion by way of a box leaves.                       *)
LEMMA ConvertedTwiceHeap ==
  ASSUME HeapInv, loop.busy, Here # Null,
         NEW n \in Values \ born, NEW m \in Values \ born, n # m,
         NEW b \in Definitions \ made, NEW c \in Definitions \ made, b # c,
         NEW boxed, boxed = AddedTo(Pointed(Bound(heap, Here, b), n, loop.defn), n, loop.defn),
         NEW chosen, chosen = AddedTo(Pointed(boxed, m, b), m, b),
         NEW g, g = Bound(chosen, Here, c)
  PROVE  /\ Lists(g, linked \cup {n, m})
         /\ g.defn = [heap.defn EXCEPT ![n] = loop.defn, ![m] = b, ![Here] = c]
         /\ g.next[Here] = Null
         /\ Here \in linked /\ heap.defn[Here] = loop.defn /\ loop.defn \in made
<1>1. Here \in linked /\ heap.defn[Here] = loop.defn /\ loop.defn \in made
      /\ loop.defn \in Definitions
  BY DEF HeapInv, LoopOnList, Here, TypeOK
<1>2. /\ {n, m} \subseteq Values \ linked /\ Here \notin {n, m}
      /\ loop.defn \notin {b, c} /\ Here \in Values
      /\ heap.head[b] = Null /\ heap.head[c] = Null
  BY <1>1, HeapIsLists
<1>heap. Lists(heap, linked) /\ heap.defn \in [Values -> Definitions]
  BY HeapIsLists
<1> DEFINE h == Bound(heap, Here, b)
           on1 == linked \cup {n}
           on2 == on1 \cup {m}
<1>3. /\ Lists(h, linked)
      /\ h.defn = [heap.defn EXCEPT ![Here] = b]
      /\ h.head[b] = Here /\ h.head[c] = heap.head[c]
  BY <1>1, <1>2, <1>heap, BoundKeepsLists
<1> HIDE DEF h
<1>4. h.head \in [Definitions -> OrNull] /\ h.defn \in [Values -> Definitions]
  BY <1>3 DEF Lists, Heaps
<1>5. /\ Lists(boxed, on1)
      /\ boxed.defn = [h.defn EXCEPT ![n] = loop.defn]
      /\ boxed.head = [h.head EXCEPT ![loop.defn] = n]
  <2>1. n \in Values \ linked /\ loop.defn \in Definitions
    BY <1>1, <1>2
  <2>2. boxed = AddedTo(Pointed(h, n, loop.defn), n, loop.defn)
    BY DEF h
  <2>3. Lists(AddedTo(Pointed(h, n, loop.defn), n, loop.defn), on1)
    BY <1>3, <2>1, AddedToKeepsLists
  <2>4. QED
    <3> DEFINE p == Pointed(h, n, loop.defn)
    <3>1. p.head = h.head /\ p.defn = [h.defn EXCEPT ![n] = loop.defn]
      BY DEF Pointed
    <3> HIDE DEF p
    <3>2. /\ AddedTo(p, n, loop.defn).defn = p.defn
          /\ AddedTo(p, n, loop.defn).head = [p.head EXCEPT ![loop.defn] = n]
      BY DEF AddedTo
    <3>3. boxed = AddedTo(p, n, loop.defn) /\ Lists(AddedTo(p, n, loop.defn), on1)
      BY <2>2, <2>3 DEF p
    <3>4. QED
      BY <3>1, <3>2, <3>3
<1>6. m \in Values \ on1 /\ Here \in on2
  BY <1>1, <1>2
<1> HIDE DEF on1
<1>7. /\ Lists(chosen, on2)
      /\ chosen.defn = [boxed.defn EXCEPT ![m] = b]
      /\ chosen.head = [boxed.head EXCEPT ![b] = m]
  <2>1. Lists(boxed, on1) /\ m \in Values \ on1 /\ b \in Definitions
    BY <1>5, <1>6
  <2>2. Lists(AddedTo(Pointed(boxed, m, b), m, b), on2)
    BY <2>1, AddedToKeepsLists
  <2>3. QED
    BY <2>2 DEF AddedTo, Pointed
<1>8. chosen.defn[Here] = b /\ chosen.head[c] = Null
  BY <1>2, <1>3, <1>4, <1>5, <1>7
<1> HIDE DEF on2
<1>9. /\ Lists(g, on2) /\ g.defn = [chosen.defn EXCEPT ![Here] = c]
      /\ g.next[Here] = Null
  <2>1. Lists(chosen, on2) /\ Here \in on2 /\ c \in Definitions
    BY <1>6, <1>7
  <2>2. c # chosen.defn[Here] /\ chosen.head[c] = Null
    BY <1>8
  <2>3. QED
    BY <2>1, <2>2, BoundKeepsLists
<1>10. on2 = linked \cup {n, m}
  BY DEF on1, on2
<1>11. g.defn = [heap.defn EXCEPT ![n] = loop.defn, ![m] = b, ![Here] = c]
  BY <1>2, <1>3, <1>5, <1>7, <1>9, HeapIsLists
<1>12. QED
  BY <1>1, <1>9, <1>10, <1>11

-----------------------------------------------------------------------------
(* Every list starts empty.                                                *)
LEMMA InitHeap == Init => HeapInv
<1> SUFFICES ASSUME Init PROVE HeapInv
  OBVIOUS
<1>1. Idle \in [busy : BOOLEAN, defn : Definitions, input : OrNull] /\ ~Idle.busy
  BY NullAssumption DEF Idle, OrNull
<1>2. TypeOK
  BY <1>1 DEF Init, TypeOK, Heaps, OrNull
<1>3. WellLinked(heap, linked) /\ ListsEnd(heap, linked)
  BY DEF Init, WellLinked, ListsEnd
<1>4. LoopOnList
  BY <1>1 DEF Init, LoopOnList
<1>5. QED
  BY <1>2, <1>3, <1>4 DEF Init, HeapInv

(* What a step has to leave for the invariant to hold again.               *)
LEMMA HeapAgain ==
  ASSUME Lists(heap', linked'), linked' \subseteq born', born' \subseteq Values,
         made' \subseteq Definitions, \A v \in linked' : heap'.defn[v] \in made',
         loop' \in [busy : BOOLEAN, defn : Definitions, input : OrNull], LoopOnList'
  PROVE  HeapInv'
BY DEF HeapInv, TypeOK, Lists

(* The next use behind the one a loop stands on is a use of its definition.*)
LEMMA StepsOnList ==
  ASSUME HeapInv, loop.busy, Here # Null
  PROVE  heap.next[Here] # Null => heap.next[Here] \in linked /\ heap.defn[heap.next[Here]] = loop.defn
BY DEF HeapInv, LoopOnList, Here, WellLinked

LEMMA NextHeap == HeapInv /\ [Next]_vars => HeapInv'
<1> SUFFICES ASSUME HeapInv, [Next]_vars PROVE HeapInv'
  OBVIOUS
<1>heap. /\ Lists(heap, linked) /\ heap.defn \in [Values -> Definitions]
         /\ linked \subseteq born /\ born \subseteq Values
         /\ \A v \in linked : heap.defn[v] \in made
  BY HeapIsLists
<1>loop. /\ loop \in [busy : BOOLEAN, defn : Definitions, input : OrNull]
         /\ made \subseteq Definitions /\ LoopOnList
         /\ heap.head \in [Definitions -> OrNull] /\ heap.next \in [Values -> OrNull]
  BY DEF HeapInv, TypeOK, Heaps
<1>1. ASSUME NEW v \in Values, NEW d \in Definitions, RenameInput(v, d)
      PROVE  HeapInv'
  <2>1. /\ v \in Values \ linked /\ v \in born /\ d \in made /\ ~loop.busy
        /\ heap' = AddedTo(Pointed(heap, v, d), v, d) /\ linked' = linked \cup {v}
        /\ born' = born /\ made' = made /\ loop' = loop
    BY <1>1 DEF RenameInput
  <2>2. Lists(heap', linked') /\ heap'.defn = [heap.defn EXCEPT ![v] = d]
    <3>1. Lists(AddedTo(Pointed(heap, v, d), v, d), linked \cup {v})
      BY <1>heap, <2>1, AddedToKeepsLists
    <3>2. AddedTo(Pointed(heap, v, d), v, d).defn = [heap.defn EXCEPT ![v] = d]
      BY DEF AddedTo, Pointed
    <3>3. QED
      BY <2>1, <3>1, <3>2
  <2>3. \A u \in linked' : heap'.defn[u] \in made'
    BY <1>heap, <2>1, <2>2
  <2>4. QED
    BY <1>heap, <1>loop, <2>1, <2>2, <2>3, HeapAgain DEF LoopOnList
<1>2. ASSUME NEW v \in Values, RemoveInput(v)
      PROVE  HeapInv'
  <2>1. /\ v \in linked /\ ~loop.busy /\ heap' = RemovedFrom(heap, v) /\ linked' = linked \ {v}
        /\ born' = born /\ made' = made /\ loop' = loop
    BY <1>2 DEF RemoveInput
  <2>2. Lists(heap', linked') /\ heap'.defn = heap.defn
    BY <1>heap, <2>1, RemovedFromKeepsLists
  <2>3. QED
    BY <1>heap, <1>loop, <2>1, <2>2, HeapAgain DEF LoopOnList
<1>3. ASSUME NEW d \in Definitions, NEW e \in Definitions, ReplaceUses(d, e)
      PROVE  HeapInv'
  <2>1. /\ e \in made /\ d # e /\ ~loop.busy /\ heap.head[d] # Null /\ heap' = Replaced(heap, d, e)
        /\ linked' = linked /\ born' = born /\ made' = made /\ loop' = loop
    BY <1>3 DEF ReplaceUses
  <2>2. /\ Lists(heap', linked')
        /\ \A v \in linked : heap'.defn[v] = IF heap.defn[v] = d THEN e ELSE heap.defn[v]
    BY <1>heap, <2>1, ReplacedKeepsLists
  <2>3. QED
    BY <1>heap, <1>loop, <2>1, <2>2, HeapAgain DEF LoopOnList
<1>4. ASSUME NEW d \in Definitions, BeginLoop(d)
      PROVE  HeapInv'
  <2>1. /\ d \in made /\ loop' = [busy |-> TRUE, defn |-> d, input |-> heap.head[d]]
        /\ heap' = heap /\ linked' = linked /\ born' = born /\ made' = made
    BY <1>4 DEF BeginLoop
  <2>2. heap.head[d] # Null => heap.head[d] \in linked /\ heap.defn[heap.head[d]] = d
    BY <1>heap DEF Lists, WellLinked
  <2>3. LoopOnList'
    BY <2>1, <2>2 DEF LoopOnList
  <2>4. QED
    BY <1>heap, <1>loop, <2>1, <2>3, HeapAgain
<1>5. ASSUME KeepUse
      PROVE  HeapInv'
  <2>1. /\ loop.busy /\ Here # Null /\ loop' = [loop EXCEPT !.input = heap.next[Here]]
        /\ heap' = heap /\ linked' = linked /\ born' = born /\ made' = made
    BY <1>5 DEF KeepUse, StepsOn
  <2>2. Here \in Values
    BY <1>heap, <1>loop, <2>1 DEF LoopOnList, Here
  <2>3. LoopOnList' /\ loop' \in [busy : BOOLEAN, defn : Definitions, input : OrNull]
    BY <1>loop, <2>1, <2>2, StepsOnList DEF LoopOnList
  <2>4. QED
    BY <1>heap, <1>loop, <2>1, <2>3, HeapAgain
<1>6. ASSUME NEW n \in Values, NEW c \in Definitions, ConvertUse(n, c)
      PROVE  HeapInv'
  <2>1. /\ loop.busy /\ Here # Null /\ n \in Values \ born /\ c \in Definitions \ made
        /\ heap' = Converted(heap, Here, n, loop.defn, c) /\ loop' = [loop EXCEPT !.input = heap'.next[Here]]
        /\ linked' = linked \cup {n} /\ born' = born \cup {n} /\ made' = made \cup {c}
    BY <1>6 DEF ConvertUse, StepsOn
  <2>2. /\ Lists(heap', linked')
        /\ heap'.defn = [heap.defn EXCEPT ![n] = loop.defn, ![Here] = c]
        /\ heap'.next[Here] = Null /\ loop.defn \in made
    BY <2>1, ConvertedHeap
  <2>3. \A u \in linked' : heap'.defn[u] \in made'
    BY <1>heap, <2>1, <2>2
  <2>4. LoopOnList' /\ loop' \in [busy : BOOLEAN, defn : Definitions, input : OrNull]
    BY <1>loop, <2>1, <2>2 DEF LoopOnList, OrNull
  <2>5. QED
    BY <1>heap, <1>loop, <2>1, <2>2, <2>3, <2>4, HeapAgain
<1>7. ASSUME NEW n \in Values, NEW m \in Values, NEW b \in Definitions, NEW c \in Definitions,
             ConvertUseTwice(n, m, b, c)
      PROVE  HeapInv'
  <2> DEFINE boxed  == AddedTo(Pointed(Bound(heap, Here, b), n, loop.defn), n, loop.defn)
             chosen == AddedTo(Pointed(boxed, m, b), m, b)
  <2>1. /\ loop.busy /\ Here # Null /\ n # m /\ b # c
        /\ n \in Values \ born /\ m \in Values \ born
        /\ b \in Definitions \ made /\ c \in Definitions \ made
        /\ heap' = Bound(chosen, Here, c) /\ loop' = [loop EXCEPT !.input = heap'.next[Here]]
        /\ linked' = linked \cup {n, m} /\ born' = born \cup {n, m} /\ made' = made \cup {b, c}
    BY <1>7 DEF ConvertUseTwice, StepsOn
  <2>2. /\ Lists(heap', linked')
        /\ heap'.defn = [heap.defn EXCEPT ![n] = loop.defn, ![m] = b, ![Here] = c]
        /\ heap'.next[Here] = Null /\ loop.defn \in made
    <3>1. /\ boxed = AddedTo(Pointed(Bound(heap, Here, b), n, loop.defn), n, loop.defn)
          /\ chosen = AddedTo(Pointed(boxed, m, b), m, b)
      OBVIOUS
    <3> HIDE DEF boxed, chosen
    <3>2. /\ Lists(heap', linked \cup {n, m})
          /\ heap'.defn = [heap.defn EXCEPT ![n] = loop.defn, ![m] = b, ![Here] = c]
          /\ heap'.next[Here] = Null /\ loop.defn \in made
      BY SMTT(60), <2>1, <3>1, ConvertedTwiceHeap
    <3>3. QED
      BY <2>1, <3>2
  <2> HIDE DEF boxed, chosen
  <2>3. \A u \in linked' : heap'.defn[u] \in made'
    BY <1>heap, <2>1, <2>2
  <2>4. LoopOnList' /\ loop' \in [busy : BOOLEAN, defn : Definitions, input : OrNull]
    BY <1>loop, <2>1, <2>2 DEF LoopOnList, OrNull
  <2>5. QED
    BY <1>heap, <1>loop, <2>1, <2>2, <2>3, <2>4, HeapAgain
<1>8. ASSUME EndLoop
      PROVE  HeapInv'
  <2>1. Idle \in [busy : BOOLEAN, defn : Definitions, input : OrNull] /\ ~Idle.busy
    BY NullAssumption DEF Idle, OrNull
  <2>2. loop' = Idle /\ heap' = heap /\ linked' = linked /\ born' = born /\ made' = made
    BY <1>8 DEF EndLoop
  <2>3. QED
    BY <1>heap, <1>loop, <2>1, <2>2, HeapAgain DEF LoopOnList
<1>9. CASE UNCHANGED vars
  BY <1>9 DEF vars, HeapInv, TypeOK, LoopOnList
<1>10. QED
  BY <1>1, <1>2, <1>3, <1>4, <1>5, <1>6, <1>7, <1>8, <1>9 DEF Next, LoopStep

(* The lists are well linked in both directions and end, in every state    *)
(* that the passes over the intermediate language reach.                   *)
THEOREM HeapCorrect == Spec => []HeapInv
<1>1. Init => HeapInv
  BY InitHeap
<1>2. HeapInv /\ [Next]_vars => HeapInv'
  BY NextHeap
<1>3. QED
  BY <1>1, <1>2, PTL DEF Spec

(* A walk over the list of a definition ends and meets exactly its uses.   *)
THEOREM ListsCorrect == Spec => []ListsHoldTheUses
<1>1. HeapInv => ListsHoldTheUses
  <2> SUFFICES ASSUME HeapInv, NEW d \in Definitions
               PROVE  Reached(heap, d) = UsesOf[d] \cup {Null}
    BY DEF ListsHoldTheUses
  <2>1. Lists(heap, linked)
    BY HeapIsLists
  <2>2. UsesOf[d] = UsesIn(heap, linked, d)
    BY DEF UsesOf, UsesIn
  <2>3. QED
    BY <2>1, <2>2, ReachedAreUses
<1>2. QED
  BY <1>1, HeapCorrect, PTL

-----------------------------------------------------------------------------
(* Each call is the step on sets of uses that it stands for; walking on    *)
(* and renaming nothing is no step of the sets.                            *)
LEMMA UseSetsStep == HeapInv /\ [Next]_vars => [Sets!AbsNext]_UsesOf
<1> SUFFICES ASSUME HeapInv, [Next]_vars PROVE Sets!AbsNext \/ UsesOf' = UsesOf
  OBVIOUS
<1>heap. /\ Lists(heap, linked) /\ heap.defn \in [Values -> Definitions]
         /\ linked \subseteq born /\ born \subseteq Values
         /\ \A v \in linked : heap.defn[v] \in made
  BY HeapIsLists
<1>uses. /\ \A d \in Definitions : UsesOf[d] = {v \in linked : heap.defn[v] = d}
         /\ \A d \in Definitions : UsesOf'[d] = {v \in linked' : heap'.defn[v] = d}
         /\ UsesOf' = [d \in Definitions |-> UsesOf'[d]]
         /\ UsesOf = [d \in Definitions |-> UsesOf[d]]
  BY DEF UsesOf
<1>member. ASSUME NEW x \in Definitions
           PROVE  /\ \A u : u \in UsesOf[x] <=> u \in linked /\ heap.defn[u] = x
                  /\ \A u : u \in UsesOf'[x] <=> u \in linked' /\ heap'.defn[u] = x
  BY <1>uses
<1>1. ASSUME NEW v \in Values, NEW d \in Definitions, RenameInput(v, d)
      PROVE  Sets!Use(v, d)
  <2>1. v \in Values \ linked /\ linked' = linked \cup {v}
        /\ heap'.defn = [heap.defn EXCEPT ![v] = d]
    BY <1>1 DEF RenameInput, AddedTo, Pointed
  <2>2. ASSUME NEW x \in Definitions
        PROVE  UsesOf'[x] = IF x = d THEN UsesOf[x] \cup {v} ELSE UsesOf[x]
    <3>1. heap'.defn[v] = d /\ \A u \in linked : heap'.defn[u] = heap.defn[u]
      BY <1>heap, <2>1
    <3>2. CASE x = d
      BY <1>member, <2>1, <3>1, <3>2
    <3>3. CASE x # d
      <4>1. \A u : u \in UsesOf'[x] <=> u \in UsesOf[x]
        BY <1>member, <2>1, <3>1, <3>3
      <4>2. QED
        BY <3>3, <4>1
    <3>4. QED
      BY <3>2, <3>3
  <2>3. UsesOf' = [UsesOf EXCEPT ![d] = @ \cup {v}]
    BY <1>uses, <2>2
  <2>4. Sets!Unused(v)
    BY <1>uses, <2>1 DEF Sets!Unused
  <2>5. QED
    BY <2>3, <2>4 DEF Sets!Use
<1>2. ASSUME NEW v \in Values, RemoveInput(v)
      PROVE  \E d \in Definitions : Sets!Unuse(v, d)
  <2> DEFINE d == heap.defn[v]
  <2>1. v \in linked /\ linked' = linked \ {v} /\ heap'.defn = heap.defn /\ d \in Definitions
    BY <1>heap, <1>2 DEF RemoveInput, RemovedFrom
  <2>2. \A x \in Definitions : UsesOf'[x] = IF x = d THEN UsesOf[x] \ {v} ELSE UsesOf[x]
    BY <1>uses, <2>1
  <2>3. UsesOf' = [UsesOf EXCEPT ![d] = @ \ {v}]
    BY <1>uses, <2>2
  <2>4. v \in UsesOf[d]
    BY <1>uses, <2>1
  <2>5. QED
    BY <2>1, <2>3, <2>4 DEF Sets!Unuse
<1>3. ASSUME NEW d \in Definitions, NEW e \in Definitions, ReplaceUses(d, e)
      PROVE  Sets!Merge(d, e)
  <2>1. d # e /\ heap.head[d] # Null /\ heap' = Replaced(heap, d, e) /\ linked' = linked
    BY <1>3 DEF ReplaceUses
  <2>2. \A v \in linked : heap'.defn[v] = IF heap.defn[v] = d THEN e ELSE heap.defn[v]
    BY <1>heap, <2>1, ReplacedKeepsLists
  <2>3. ASSUME NEW x \in Definitions
        PROVE  UsesOf'[x] = IF x = d THEN {}
                            ELSE IF x = e THEN UsesOf[x] \cup UsesOf[d] ELSE UsesOf[x]
    <3>1. CASE x = d
      BY <1>member, <2>1, <2>2, <3>1
    <3>2. CASE x = e
      <4>1. \A u : u \in UsesOf'[x] <=> u \in UsesOf[x] \/ u \in UsesOf[d]
        BY <1>member, <2>1, <2>2, <3>2
      <4>2. QED
        BY <2>1, <3>2, <4>1
    <3>3. CASE x # d /\ x # e
      <4>1. \A u : u \in UsesOf'[x] <=> u \in UsesOf[x]
        BY <1>member, <2>1, <2>2, <3>3
      <4>2. QED
        BY <3>3, <4>1
    <3>4. QED
      BY <2>1, <3>1, <3>2, <3>3
  <2>4. UsesOf' = [UsesOf EXCEPT ![d] = {}, ![e] = @ \cup UsesOf[d]]
    BY <1>uses, <2>1, <2>3
  <2>5. QED
    BY <2>1, <2>4 DEF Sets!Merge
<1>4. ASSUME NEW n \in Values, NEW c \in Definitions, ConvertUse(n, c)
      PROVE  \E d \in Definitions : \E v \in UsesOf[d] : Sets!Convert(v, n, d, c)
  <2> DEFINE d == loop.defn
             v == Here
  <2>1. /\ loop.busy /\ Here # Null /\ n \in Values \ born /\ c \in Definitions \ made
        /\ heap' = Converted(heap, Here, n, loop.defn, c)
        /\ linked' = linked \cup {n}
    BY <1>4 DEF ConvertUse
  <2>2. /\ heap'.defn = [heap.defn EXCEPT ![n] = d, ![v] = c]
        /\ v \in linked /\ heap.defn[v] = d /\ d \in made
    BY <2>1, ConvertedHeap
  <2>3. n \notin linked /\ n # v /\ c # d /\ c \notin made /\ d \in Definitions /\ v \in Values
        /\ n \in Values /\ c \in Definitions
    BY <1>heap, <2>1, <2>2
  <2> HIDE DEF d, v
  <2>4. heap'.defn[n] = d /\ heap'.defn[v] = c
        /\ \A u \in linked \ {v} : heap'.defn[u] = heap.defn[u]
    BY <1>heap, <2>2, <2>3
  <2>5. \A x \in Definitions : UsesOf'[x] = IF x = d THEN (UsesOf[x] \ {v}) \cup {n}
                                            ELSE IF x = c THEN {v} ELSE UsesOf[x]
    <3>1. UsesOf'[d] = (UsesOf[d] \ {v}) \cup {n}
      BY <1>uses, <2>1, <2>2, <2>3, <2>4
    <3>2. UsesOf'[c] = {v}
      BY <1>heap, <1>uses, <2>1, <2>2, <2>3, <2>4
    <3>3. ASSUME NEW x \in Definitions \ {c, d} PROVE UsesOf'[x] = UsesOf[x]
      <4>1. \A u : u \in UsesOf'[x] <=> u \in UsesOf[x]
        BY <1>member, <2>1, <2>2, <2>4
      <4>2. QED
        BY <4>1
    <3>4. QED
      BY <2>3, <3>1, <3>2, <3>3
  <2>6. UsesOf' = [UsesOf EXCEPT ![d] = (@ \ {v}) \cup {n}, ![c] = {v}]
    BY <1>uses, <2>3, <2>5
  <2>7. Sets!Unused(n) /\ UsesOf[c] = {} /\ v \in UsesOf[d]
    BY <1>heap, <1>uses, <2>2, <2>3 DEF Sets!Unused
  <2>8. Sets!Convert(v, n, d, c)
    BY <2>3, <2>6, <2>7 DEF Sets!Convert
  <2>9. QED
    BY <2>3, <2>7, <2>8
<1>5. ASSUME NEW n \in Values, NEW m \in Values, NEW b \in Definitions, NEW c \in Definitions,
             ConvertUseTwice(n, m, b, c)
      PROVE  \E d \in Definitions : \E v \in UsesOf[d] : Sets!ConvertTwice(v, n, m, d, b, c)
  <2> DEFINE d == loop.defn
             v == Here
             boxed  == AddedTo(Pointed(Bound(heap, Here, b), n, loop.defn), n, loop.defn)
             chosen == AddedTo(Pointed(boxed, m, b), m, b)
  <2>1. /\ loop.busy /\ Here # Null /\ n # m /\ b # c
        /\ n \in Values \ born /\ m \in Values \ born
        /\ b \in Definitions \ made /\ c \in Definitions \ made
        /\ heap' = Bound(chosen, Here, c) /\ linked' = linked \cup {n, m}
    BY <1>5 DEF ConvertUseTwice
  <2>2. /\ heap'.defn = [heap.defn EXCEPT ![n] = d, ![m] = b, ![v] = c]
        /\ v \in linked /\ heap.defn[v] = d /\ d \in made
    <3>1. /\ boxed = AddedTo(Pointed(Bound(heap, Here, b), n, loop.defn), n, loop.defn)
          /\ chosen = AddedTo(Pointed(boxed, m, b), m, b)
      OBVIOUS
    <3> HIDE DEF boxed, chosen
    <3>2. QED
      BY SMTT(60), <2>1, <3>1, ConvertedTwiceHeap
  <2> HIDE DEF boxed, chosen
  <2>3. /\ {n, m} \cap linked = {} /\ v \notin {n, m} /\ d \notin {b, c}
        /\ {b, c} \cap made = {} /\ d \in Definitions /\ v \in Values
    BY <1>heap, <2>1, <2>2
  <2> HIDE DEF d, v
  <2>4. heap'.defn[n] = d /\ heap'.defn[m] = b /\ heap'.defn[v] = c
        /\ \A u \in linked \ {v} : heap'.defn[u] = heap.defn[u]
    BY <1>heap, <2>1, <2>2, <2>3
  <2>5. \A x \in Definitions : UsesOf'[x] = IF x = d THEN (UsesOf[x] \ {v}) \cup {n}
                                            ELSE IF x = b THEN {m}
                                            ELSE IF x = c THEN {v} ELSE UsesOf[x]
    <3>1. UsesOf'[d] = (UsesOf[d] \ {v}) \cup {n}
      BY <1>uses, <2>1, <2>2, <2>3, <2>4
    <3>2. UsesOf'[b] = {m}
      BY <1>heap, <1>uses, <2>1, <2>2, <2>3, <2>4
    <3>3. UsesOf'[c] = {v}
      BY <1>heap, <1>uses, <2>1, <2>2, <2>3, <2>4
    <3>4. ASSUME NEW x \in Definitions \ {b, c, d} PROVE UsesOf'[x] = UsesOf[x]
      <4>1. \A u : u \in UsesOf'[x] <=> u \in UsesOf[x]
        BY <1>member, <2>1, <2>2, <2>4
      <4>2. QED
        BY <4>1
    <3>5. QED
      BY <2>3, <3>1, <3>2, <3>3, <3>4
  <2>6. UsesOf' = [UsesOf EXCEPT ![d] = (@ \ {v}) \cup {n}, ![b] = {m}, ![c] = {v}]
    BY <1>uses, <2>1, <2>3, <2>5
  <2>7. /\ Sets!Unused(n) /\ Sets!Unused(m)
        /\ UsesOf[b] = {} /\ UsesOf[c] = {} /\ v \in UsesOf[d]
    BY <1>heap, <1>uses, <2>2, <2>3 DEF Sets!Unused
  <2>8. Sets!ConvertTwice(v, n, m, d, b, c)
    BY <2>1, <2>3, <2>6, <2>7 DEF Sets!ConvertTwice
  <2>9. QED
    BY <2>3, <2>7, <2>8
<1>6. ASSUME (\E d \in Definitions : BeginLoop(d)) \/ KeepUse \/ EndLoop \/ UNCHANGED vars
      PROVE  UsesOf' = UsesOf
  BY <1>6 DEF BeginLoop, KeepUse, EndLoop, vars, UsesOf
<1>7. QED
  BY <1>1, <1>2, <1>3, <1>4, <1>5, <1>6 DEF Next, LoopStep, Sets!AbsNext

(* The lists, with the passes that walk and change them, implement the     *)
(* sets of uses.                                                           *)
THEOREM UseListsImplementSets == Spec => ImplementsUseSets
<1>1. Init => Sets!AbsInit
  BY DEF Init, UsesOf, Sets!AbsInit
<1>2. HeapInv /\ [Next]_vars => [Sets!AbsNext]_UsesOf
  BY UseSetsStep
<1>3. QED
  BY <1>1, <1>2, HeapCorrect, PTL DEF Spec, ImplementsUseSets, Sets!AbsSpec
=============================================================================
