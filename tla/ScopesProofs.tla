---------------------------- MODULE ScopesProofs -----------------------------
(***************************************************************************)
(* For any variables, names and number of scopes: the layout of the frame  *)
(* keeps variables that are visible together apart, is exactly as deep as  *)
(* the deepest nest, and names mean what their innermost declaration says. *)
(***************************************************************************)
EXTENDS Scopes, TLAPS, FiniteSetTheorems, NaturalsInduction, WellFoundedInduction

-----------------------------------------------------------------------------
(* Parents.  A scope is made after its parent, so that what is walked up   *)
(* along parents is well founded: facts about all scopes are shown at the  *)
(* first scope that would not have them.                                   *)
Parents(p) == p \in Seq(Nat) /\ \A s \in 1 .. Len(p) : p[s] < s

LEMMA LeastOf ==
  ASSUME NEW S \in SUBSET Nat, S # {}
  PROVE  \E m \in S : \A k \in S : m <= k
<1>1. IsWellFoundedOn(OpToRel(<, Nat), Nat)
  BY NatLessThanWellFounded
<1>2. PICK m \in S : \A k \in S : ~(<<k, m>> \in OpToRel(<, Nat))
  BY <1>1, WFMin
<1>3. ASSUME NEW k \in S PROVE m <= k
  <2>1. ~(k < m)
    BY <1>2 DEF OpToRel
  <2>2. QED
    BY <2>1
<1>4. QED
  BY <1>3

(* The way out of a scope, up to scope n.                                  *)
OutTo(p, n, g) ==
  /\ g \in [0 .. n -> SUBSET (1 .. Len(p))]
  /\ \A s \in 0 .. n : g[s] = IF s = NoScope THEN {} ELSE {s} \cup g[p[s]]

LEMMA OutToExists ==
  ASSUME NEW p, Parents(p), NEW n \in 0 .. Len(p)
  PROVE  \E g : OutTo(p, n, g)
<1> DEFINE Bad == {k \in 0 .. Len(p) : ~\E g : OutTo(p, k, g)}
<1>1. Len(p) \in Nat /\ \A s \in 1 .. Len(p) : p[s] \in Nat /\ p[s] < s
  BY DEF Parents
<1>2. SUFFICES ASSUME Bad # {} PROVE FALSE
  OBVIOUS
<1>3. Bad \in SUBSET Nat
  BY <1>1
<1>4. PICK k \in Bad : \A j \in Bad : k <= j
  BY <1>2, <1>3, LeastOf
<1>5. k \in 0 .. Len(p) /\ ~\E g : OutTo(p, k, g)
  OBVIOUS
<1>6. CASE k = 0
  <2> DEFINE g == [s \in 0 .. 0 |-> {}]
  <2>1. OutTo(p, 0, g)
    BY DEF OutTo, NoScope
  <2>2. QED
    BY <1>5, <1>6, <2>1
<1>7. CASE k # 0
  <2>1. k - 1 \in 0 .. Len(p) /\ ~(k <= k - 1) /\ k \in 1 .. Len(p) /\ p[k] \in 0 .. k - 1
    BY <1>1, <1>5, <1>7
  <2>2. PICK g : OutTo(p, k - 1, g)
    BY <1>4, <2>1
  <2> DEFINE h == [s \in 0 .. k |-> IF s = k THEN {k} \cup g[p[k]] ELSE g[s]]
  <2>3. \A s \in 0 .. k : s # k => s \in 0 .. k - 1
    BY <1>5
  <2>4. g[p[k]] \in SUBSET (1 .. Len(p)) /\ \A s \in 0 .. k - 1 : g[s] \in SUBSET (1 .. Len(p))
    BY <2>1, <2>2 DEF OutTo
  <2>5. h \in [0 .. k -> SUBSET (1 .. Len(p))]
    BY <2>1, <2>3, <2>4
  <2>6. ASSUME NEW s \in 0 .. k PROVE h[s] = IF s = NoScope THEN {} ELSE {s} \cup h[p[s]]
    <3>1. CASE s = k
      <4>1. p[k] \in 0 .. k /\ p[k] # k
        BY <1>5, <2>1
      <4>2. QED
        BY <1>7, <3>1, <4>1 DEF NoScope
    <3>2. CASE s # k /\ s = 0
      BY <2>2, <2>3, <3>2 DEF OutTo, NoScope
    <3>3. CASE s # k /\ s # 0
      <4>1. s \in 0 .. k - 1 /\ s \in 1 .. Len(p) /\ p[s] \in Nat /\ p[s] < s
        BY <1>1, <1>5, <3>3
      <4>2. p[s] \in 0 .. k - 1 /\ p[s] # k /\ p[s] \in 0 .. k
        BY <1>5, <4>1
      <4>3. g[s] = {s} \cup g[p[s]]
        BY <2>2, <3>3, <4>1 DEF OutTo, NoScope
      <4>4. h[s] = g[s] /\ h[p[s]] = g[p[s]]
        BY <3>3, <4>2
      <4>5. QED
        BY <3>3, <4>3, <4>4 DEF NoScope
    <3>4. QED
      BY <3>1, <3>2, <3>3
  <2> HIDE DEF h
  <2>7. OutTo(p, k, h)
    BY <2>5, <2>6 DEF OutTo
  <2>8. QED
    BY <1>5, <2>7
<1>8. QED
  BY <1>6, <1>7

LEMMA ChainsAre ==
  ASSUME NEW p, Parents(p)
  PROVE  OutTo(p, Len(p), ChainsOf(p))
<1>1. Len(p) \in Nat /\ Len(p) \in 0 .. Len(p)
  BY DEF Parents
<1>2. PICK g : OutTo(p, Len(p), g)
  BY <1>1, OutToExists
<1>3. g = [s \in 0 .. Len(p) |-> IF s = NoScope THEN {} ELSE {s} \cup g[p[s]]]
  BY <1>2 DEF OutTo
<1> DEFINE f == CHOOSE f : f = [s \in 0 .. Len(p) |-> IF s = NoScope THEN {} ELSE {s} \cup f[p[s]]]
<1>4. ChainsOf(p) = f
  BY DEF ChainsOf
<1>5. f = [s \in 0 .. Len(p) |-> IF s = NoScope THEN {} ELSE {s} \cup f[p[s]]]
  BY <1>3
<1> HIDE DEF f
<1>6. \A s \in 0 .. Len(p) : f[s] = g[s]
  <2> DEFINE Bad == {s \in 0 .. Len(p) : f[s] # g[s]}
  <2>1. SUFFICES ASSUME Bad # {} PROVE FALSE
    OBVIOUS
  <2>2. PICK k \in Bad : \A j \in Bad : k <= j
    <3>1. Bad \in SUBSET Nat
      BY <1>1
    <3>2. QED
      BY <2>1, <3>1, LeastOf
  <2>3. k \in 0 .. Len(p) /\ f[k] # g[k]
    OBVIOUS
  <2>4. k # 0
    BY <1>3, <1>5, <2>3 DEF NoScope
  <2>5. p[k] \in 0 .. Len(p) /\ ~(k <= p[k])
    BY <1>1, <2>3, <2>4 DEF Parents
  <2>6. f[p[k]] = g[p[k]]
    BY <2>2, <2>5
  <2>7. f[k] = {k} \cup f[p[k]] /\ g[k] = {k} \cup g[p[k]]
    BY <1>3, <1>5, <2>3, <2>4 DEF NoScope
  <2>8. QED
    BY <2>3, <2>6, <2>7
<1>7. f = g
  <2>1. f = [s \in 0 .. Len(p) |-> f[s]] /\ g = [s \in 0 .. Len(p) |-> g[s]]
    BY <1>3, <1>5
  <2>2. QED
    BY <1>6, <2>1
<1>8. QED
  BY <1>2, <1>4, <1>7

(* The frame index below scope n.                                          *)
DownTo(p, counts, n, g) ==
  /\ g \in [0 .. n -> Int]
  /\ \A s \in 0 .. n : g[s] = IF s = NoScope THEN kFirstLocalSlotFromFp ELSE g[p[s]] - counts[s]

LEMMA DownToExists ==
  ASSUME NEW p, Parents(p), NEW counts \in [1 .. Len(p) -> Int], NEW n \in 0 .. Len(p)
  PROVE  \E g : DownTo(p, counts, n, g)
<1> DEFINE Bad == {k \in 0 .. Len(p) : ~\E g : DownTo(p, counts, k, g)}
<1>1. Len(p) \in Nat /\ \A s \in 1 .. Len(p) : p[s] \in Nat /\ p[s] < s
  BY DEF Parents
<1>2. SUFFICES ASSUME Bad # {} PROVE FALSE
  OBVIOUS
<1>3. Bad \in SUBSET Nat
  BY <1>1
<1>4. PICK k \in Bad : \A j \in Bad : k <= j
  BY <1>2, <1>3, LeastOf
<1>5. k \in 0 .. Len(p) /\ ~\E g : DownTo(p, counts, k, g)
  OBVIOUS
<1>6. CASE k = 0
  <2> DEFINE g == [s \in 0 .. 0 |-> kFirstLocalSlotFromFp]
  <2>1. DownTo(p, counts, 0, g)
    BY DEF DownTo, NoScope, kFirstLocalSlotFromFp
  <2>2. QED
    BY <1>5, <1>6, <2>1
<1>7. CASE k # 0
  <2>1. k - 1 \in 0 .. Len(p) /\ ~(k <= k - 1) /\ k \in 1 .. Len(p) /\ p[k] \in 0 .. k - 1
    BY <1>1, <1>5, <1>7
  <2>2. PICK g : DownTo(p, counts, k - 1, g)
    BY <1>4, <2>1
  <2> DEFINE h == [s \in 0 .. k |-> IF s = k THEN g[p[k]] - counts[k] ELSE g[s]]
  <2>3. \A s \in 0 .. k : s # k => s \in 0 .. k - 1
    BY <1>5
  <2>4. g[p[k]] - counts[k] \in Int /\ \A s \in 0 .. k - 1 : g[s] \in Int
    <3>1. \A s \in 0 .. k - 1 : g[s] \in Int
      BY <2>2 DEF DownTo
    <3>2. counts[k] \in Int
      BY <2>1
    <3>3. QED
      BY <2>1, <3>1, <3>2
  <2>5. h \in [0 .. k -> Int]
    BY <2>1, <2>3, <2>4
  <2>6. ASSUME NEW s \in 0 .. k
        PROVE  h[s] = IF s = NoScope THEN kFirstLocalSlotFromFp ELSE h[p[s]] - counts[s]
    <3>1. CASE s = k
      <4>1. p[k] \in 0 .. k /\ p[k] # k
        BY <1>5, <2>1
      <4>2. QED
        BY <1>7, <3>1, <4>1 DEF NoScope
    <3>2. CASE s # k /\ s = 0
      BY <2>2, <2>3, <3>2 DEF DownTo, NoScope
    <3>3. CASE s # k /\ s # 0
      <4>1. s \in 0 .. k - 1 /\ s \in 1 .. Len(p) /\ p[s] \in Nat /\ p[s] < s
        BY <1>1, <1>5, <3>3
      <4>2. p[s] \in 0 .. k - 1 /\ p[s] # k /\ p[s] \in 0 .. k
        BY <1>5, <4>1
      <4>3. g[s] = g[p[s]] - counts[s]
        BY <2>2, <3>3, <4>1 DEF DownTo, NoScope
      <4>4. h[s] = g[s] /\ h[p[s]] = g[p[s]]
        BY <3>3, <4>2
      <4>5. QED
        BY <3>3, <4>3, <4>4 DEF NoScope
    <3>4. QED
      BY <3>1, <3>2, <3>3
  <2> HIDE DEF h
  <2>7. DownTo(p, counts, k, h)
    BY <2>5, <2>6 DEF DownTo
  <2>8. QED
    BY <1>5, <2>7
<1>8. QED
  BY <1>6, <1>7

LEMMA FramesAre ==
  ASSUME NEW p, Parents(p), NEW counts \in [1 .. Len(p) -> Int]
  PROVE  DownTo(p, counts, Len(p), FramesOf(p, counts))
<1>1. Len(p) \in Nat /\ Len(p) \in 0 .. Len(p)
  BY DEF Parents
<1>2. PICK g : DownTo(p, counts, Len(p), g)
  BY <1>1, DownToExists
<1>3. g = [s \in 0 .. Len(p) |-> IF s = NoScope THEN kFirstLocalSlotFromFp ELSE g[p[s]] - counts[s]]
  BY <1>2 DEF DownTo
<1> DEFINE f == CHOOSE f : f = [s \in 0 .. Len(p) |->
                   IF s = NoScope THEN kFirstLocalSlotFromFp ELSE f[p[s]] - counts[s]]
<1>4. FramesOf(p, counts) = f
  BY DEF FramesOf
<1>5. f = [s \in 0 .. Len(p) |-> IF s = NoScope THEN kFirstLocalSlotFromFp ELSE f[p[s]] - counts[s]]
  BY <1>3
<1> HIDE DEF f
<1>6. \A s \in 0 .. Len(p) : f[s] = g[s]
  <2> DEFINE Bad == {s \in 0 .. Len(p) : f[s] # g[s]}
  <2>1. SUFFICES ASSUME Bad # {} PROVE FALSE
    OBVIOUS
  <2>2. PICK k \in Bad : \A j \in Bad : k <= j
    <3>1. Bad \in SUBSET Nat
      BY <1>1
    <3>2. QED
      BY <2>1, <3>1, LeastOf
  <2>3. k \in 0 .. Len(p) /\ f[k] # g[k]
    OBVIOUS
  <2>4. k # 0
    BY <1>3, <1>5, <2>3 DEF NoScope
  <2>5. p[k] \in 0 .. Len(p) /\ ~(k <= p[k])
    BY <1>1, <2>3, <2>4 DEF Parents
  <2>6. f[p[k]] = g[p[k]]
    BY <2>2, <2>5
  <2>7. f[k] = f[p[k]] - counts[k] /\ g[k] = g[p[k]] - counts[k]
    BY <1>3, <1>5, <2>3, <2>4 DEF NoScope
  <2>8. QED
    BY <2>3, <2>6, <2>7
<1>7. f = g
  <2>1. f = [s \in 0 .. Len(p) |-> f[s]] /\ g = [s \in 0 .. Len(p) |-> g[s]]
    BY <1>3, <1>5
  <2>2. QED
    BY <1>6, <2>1
<1>8. QED
  BY <1>2, <1>4, <1>7

-----------------------------------------------------------------------------
(* Walking up.                                                             *)
Up(p) == ChainsOf(p)

LEMMA ChainIs ==
  ASSUME NEW p, Parents(p)
  PROVE  /\ Len(p) \in Nat /\ Up(p)[NoScope] = {}
         /\ \A s \in 1 .. Len(p) : /\ s # NoScope /\ p[s] \in 0 .. Len(p) /\ p[s] < s
                                   /\ Up(p)[s] = {s} \cup Up(p)[p[s]]
         /\ \A s \in 0 .. Len(p) : Up(p)[s] \subseteq 1 .. Len(p)
<1>1. OutTo(p, Len(p), Up(p))
  BY ChainsAre DEF Up
<1>2. Len(p) \in Nat /\ \A s \in 1 .. Len(p) : p[s] \in Nat /\ p[s] < s
  BY DEF Parents
<1>3. QED
  BY <1>1, <1>2 DEF OutTo, NoScope

(* What lies around a scope comes before it.                               *)
LEMMA ChainIsBefore ==
  ASSUME NEW p, Parents(p), NEW s \in 0 .. Len(p), NEW t \in Up(p)[s]
  PROVE  t \in 1 .. Len(p) /\ t <= s
<1> DEFINE Bad == {k \in 0 .. Len(p) : \E u \in Up(p)[k] : ~(u <= k)}
<1>1. Bad = {}
  <2>1. SUFFICES ASSUME Bad # {} PROVE FALSE
    OBVIOUS
  <2>2. Len(p) \in Nat
    BY ChainIs
  <2>3. PICK k \in Bad : \A j \in Bad : k <= j
    <3>1. Bad \in SUBSET Nat
      BY <2>2
    <3>2. QED
      BY <2>1, <3>1, LeastOf
  <2>4. PICK u \in Up(p)[k] : ~(u <= k)
    OBVIOUS
  <2>5. k \in 1 .. Len(p)
    BY <2>2, <2>4, ChainIs DEF NoScope
  <2>6. p[k] \in 0 .. Len(p) /\ p[k] < k /\ u \in {k} \cup Up(p)[p[k]]
    BY <2>4, <2>5, ChainIs
  <2>7. u \in Up(p)[p[k]]
    BY <2>4, <2>5, <2>6
  <2>8. p[k] \notin Bad
    BY <2>3, <2>5, <2>6
  <2>9. u <= p[k] /\ u \in Int
    BY <2>6, <2>7, <2>8, ChainIs
  <2>10. QED
    BY <2>4, <2>5, <2>6, <2>9
<1>2. QED
  BY <1>1, ChainIs

LEMMA ChainIsClosed ==
  ASSUME NEW p, Parents(p), NEW s \in 0 .. Len(p), NEW t \in Up(p)[s]
  PROVE  Up(p)[t] \subseteq Up(p)[s]
<1> DEFINE Bad == {k \in 0 .. Len(p) : \E u \in Up(p)[k] : ~(Up(p)[u] \subseteq Up(p)[k])}
<1>1. Bad = {}
  <2>1. SUFFICES ASSUME Bad # {} PROVE FALSE
    OBVIOUS
  <2>2. Len(p) \in Nat
    BY ChainIs
  <2>3. PICK k \in Bad : \A j \in Bad : k <= j
    <3>1. Bad \in SUBSET Nat
      BY <2>2
    <3>2. QED
      BY <2>1, <3>1, LeastOf
  <2>4. PICK u \in Up(p)[k] : ~(Up(p)[u] \subseteq Up(p)[k])
    OBVIOUS
  <2>5. k \in 1 .. Len(p)
    BY <2>2, <2>4, ChainIs DEF NoScope
  <2>6. p[k] \in 0 .. Len(p) /\ p[k] < k /\ Up(p)[k] = {k} \cup Up(p)[p[k]]
    BY <2>5, ChainIs
  <2>7. u \in Up(p)[p[k]]
    BY <2>4, <2>6
  <2>8. p[k] \notin Bad
    BY <2>3, <2>5, <2>6
  <2>9. QED
    BY <2>4, <2>6, <2>7, <2>8
<1>2. QED
  BY <1>1

(* Of two scopes around one, one is around the other.                      *)
LEMMA ChainIsNested ==
  ASSUME NEW p, Parents(p), NEW s \in 0 .. Len(p), NEW t \in Up(p)[s], NEW u \in Up(p)[s]
  PROVE  t <= u => t \in Up(p)[u]
<1> DEFINE Bad == {k \in 0 .. Len(p) : \E x, y \in Up(p)[k] : x <= y /\ x \notin Up(p)[y]}
<1>1. Bad = {}
  <2>1. SUFFICES ASSUME Bad # {} PROVE FALSE
    OBVIOUS
  <2>2. Len(p) \in Nat
    BY ChainIs
  <2>3. PICK k \in Bad : \A j \in Bad : k <= j
    <3>1. Bad \in SUBSET Nat
      BY <2>2
    <3>2. QED
      BY <2>1, <3>1, LeastOf
  <2>4. PICK x \in Up(p)[k], y \in Up(p)[k] : x <= y /\ x \notin Up(p)[y]
    OBVIOUS
  <2>5. k \in 1 .. Len(p)
    BY <2>2, <2>4, ChainIs DEF NoScope
  <2>6. p[k] \in 0 .. Len(p) /\ p[k] < k /\ Up(p)[k] = {k} \cup Up(p)[p[k]]
    BY <2>5, ChainIs
  <2>7. p[k] \notin Bad
    BY <2>3, <2>5, <2>6
  <2>8. y # k
    BY <2>4
  <2>9. y \in Up(p)[p[k]]
    BY <2>6, <2>8
  <2>10. y <= p[k] /\ y \in Int
    BY <2>6, <2>9, ChainIsBefore
  <2>11. x # k
    BY <2>4, <2>5, <2>6, <2>10
  <2>12. x \in Up(p)[p[k]]
    BY <2>6, <2>11
  <2>13. QED
    BY <2>4, <2>6, <2>7, <2>9, <2>12
<1>2. QED
  BY <1>1

(* A new scope leaves the others where they are.                           *)
LEMMA ChainOfMore ==
  ASSUME NEW p, Parents(p), NEW q, Parents(q), Len(p) <= Len(q),
         \A s \in 1 .. Len(p) : q[s] = p[s], NEW s \in 0 .. Len(p)
  PROVE  Up(q)[s] = Up(p)[s]
<1> DEFINE Bad == {k \in 0 .. Len(p) : Up(q)[k] # Up(p)[k]}
<1>1. Bad = {}
  <2>1. SUFFICES ASSUME Bad # {} PROVE FALSE
    OBVIOUS
  <2>2. Len(p) \in Nat /\ Len(q) \in Nat
    BY ChainIs
  <2>3. PICK k \in Bad : \A j \in Bad : k <= j
    <3>1. Bad \in SUBSET Nat
      BY <2>2
    <3>2. QED
      BY <2>1, <3>1, LeastOf
  <2>4. k \in 1 .. Len(p)
    <3>1. Up(q)[0] = {} /\ Up(p)[0] = {}
      BY ChainIs DEF NoScope
    <3>2. k # 0
      BY <3>1
    <3>3. QED
      BY <2>2, <3>2
  <2>5. /\ p[k] \in 0 .. Len(p) /\ p[k] < k /\ Up(p)[k] = {k} \cup Up(p)[p[k]]
    BY <2>4, ChainIs
  <2>6. k \in 1 .. Len(q) /\ q[k] = p[k]
    BY <2>2, <2>4
  <2>7. Up(q)[k] = {k} \cup Up(q)[q[k]]
    BY <2>6, ChainIs
  <2>8. p[k] \notin Bad
    BY <2>3, <2>4, <2>5
  <2>9. QED
    BY <2>5, <2>6, <2>7, <2>8
<1>2. QED
  BY <1>1

-----------------------------------------------------------------------------
(* Frame indices fall along the way in.                                    *)
LEMMA FrameIs ==
  ASSUME NEW p, Parents(p), NEW counts \in [1 .. Len(p) -> Nat]
  PROVE  /\ FramesOf(p, counts)[NoScope] = kFirstLocalSlotFromFp
         /\ \A s \in 0 .. Len(p) : FramesOf(p, counts)[s] \in Int
         /\ \A s \in 1 .. Len(p) : /\ counts[s] \in Nat
                                   /\ FramesOf(p, counts)[s] = FramesOf(p, counts)[p[s]] - counts[s]
<1>1. Len(p) \in Nat
  BY ChainIs
<1>2. counts \in [1 .. Len(p) -> Int] /\ \A s \in 1 .. Len(p) : counts[s] \in Nat
  OBVIOUS
<1>3. DownTo(p, counts, Len(p), FramesOf(p, counts))
  BY <1>2, FramesAre
<1>4. QED
  BY <1>1, <1>2, <1>3 DEF DownTo, NoScope

LEMMA FrameFalls ==
  ASSUME NEW p, Parents(p), NEW counts \in [1 .. Len(p) -> Nat],
         NEW s \in 0 .. Len(p), NEW t \in Up(p)[s] \cup {NoScope}
  PROVE  FramesOf(p, counts)[s] <= FramesOf(p, counts)[t]
<1> DEFINE F == FramesOf(p, counts)
           Bad == {k \in 0 .. Len(p) : \E u \in Up(p)[k] \cup {NoScope} : ~(F[k] <= F[u])}
<1>1. /\ \A k \in 0 .. Len(p) : F[k] \in Int
      /\ \A k \in 1 .. Len(p) : counts[k] \in Nat /\ F[k] = F[p[k]] - counts[k]
  BY FrameIs
<1> HIDE DEF F
<1>2. Bad = {}
  <2>1. SUFFICES ASSUME Bad # {} PROVE FALSE
    OBVIOUS
  <2>2. Len(p) \in Nat
    BY ChainIs
  <2>3. PICK k \in Bad : \A j \in Bad : k <= j
    <3>1. Bad \in SUBSET Nat
      BY <2>2
    <3>2. QED
      BY <2>1, <3>1, LeastOf
  <2>4. PICK u \in Up(p)[k] \cup {NoScope} : ~(F[k] <= F[u])
    OBVIOUS
  <2>5. k \in 1 .. Len(p)
    <3>1. k # 0
      <4>1. Up(p)[0] = {} /\ F[0] \in Int
        BY <1>1, <2>2, ChainIs DEF NoScope
      <4>2. QED
        BY <2>4, <4>1 DEF NoScope
    <3>2. QED
      BY <2>2, <3>1
  <2>6. p[k] \in 0 .. Len(p) /\ p[k] < k /\ Up(p)[k] = {k} \cup Up(p)[p[k]]
    BY <2>5, ChainIs
  <2>7. F[k] \in Int /\ F[p[k]] \in Int /\ counts[k] \in Nat /\ F[k] = F[p[k]] - counts[k]
    BY <1>1, <2>5, <2>6
  <2>8. u # k
    BY <2>4, <2>7
  <2>9. u \in Up(p)[p[k]] \cup {NoScope}
    BY <2>6, <2>8
  <2>10. p[k] \notin Bad
    BY <2>3, <2>5, <2>6
  <2>11. u \in 0 .. Len(p)
    BY <2>2, <2>6, <2>9, ChainIsBefore DEF NoScope
  <2>12. F[p[k]] <= F[u] /\ F[u] \in Int
    BY <1>1, <2>6, <2>9, <2>10, <2>11
  <2>13. QED
    BY <2>4, <2>7, <2>12
<1>3. QED
  BY <1>2 DEF F

(* Every index above the one below a scope is in the share of a scope      *)
(* around it.                                                              *)
LEMMA FrameIsShared ==
  ASSUME NEW p, Parents(p), NEW counts \in [1 .. Len(p) -> Nat],
         NEW s \in 0 .. Len(p), NEW x \in Int,
         FramesOf(p, counts)[s] < x, x <= kFirstLocalSlotFromFp
  PROVE  \E t \in Up(p)[s] : FramesOf(p, counts)[t] < x /\ x <= FramesOf(p, counts)[p[t]]
<1> DEFINE F == FramesOf(p, counts)
           Shared(k) == \E t \in Up(p)[k] : F[t] < x /\ x <= F[p[t]]
           Bad == {k \in 0 .. Len(p) : F[k] < x /\ ~Shared(k)}
<1>1. /\ \A k \in 0 .. Len(p) : F[k] \in Int
      /\ F[NoScope] = kFirstLocalSlotFromFp
  BY FrameIs
<1> HIDE DEF F
<1>2. Bad = {}
  <2>1. SUFFICES ASSUME Bad # {} PROVE FALSE
    OBVIOUS
  <2>2. Len(p) \in Nat
    BY ChainIs
  <2>3. PICK k \in Bad : \A j \in Bad : k <= j
    <3>1. Bad \in SUBSET Nat
      BY <2>2
    <3>2. QED
      BY <2>1, <3>1, LeastOf
  <2>4. F[k] < x /\ ~Shared(k) /\ k \in 0 .. Len(p)
    OBVIOUS
  <2>5. k \in 1 .. Len(p)
    <3>1. k # 0
      BY <1>1, <2>4 DEF NoScope, kFirstLocalSlotFromFp
    <3>2. QED
      BY <2>2, <2>4, <3>1
  <2>6. p[k] \in 0 .. Len(p) /\ p[k] < k /\ Up(p)[k] = {k} \cup Up(p)[p[k]]
    BY <2>5, ChainIs
  <2>7. ~(x <= F[p[k]])
    BY <2>4, <2>6
  <2>8. F[p[k]] < x
    BY <1>1, <2>6, <2>7
  <2>9. p[k] \notin Bad
    BY <2>3, <2>5, <2>6
  <2>10. Shared(p[k])
    BY <2>6, <2>8, <2>9
  <2>11. QED
    BY <2>4, <2>6, <2>10
<1>3. QED
  BY <1>2 DEF F

-----------------------------------------------------------------------------
(* Counting the members of a set below a number.                           *)
Below(L, i) == Cardinality({j \in 1 .. i - 1 : j \in L})

LEMMA BelowIs ==
  ASSUME NEW L, NEW i \in Nat, i > 0
  PROVE  /\ Below(L, i) \in Nat /\ Below(L, 1) = 0
         /\ Below(L, i + 1) = Below(L, i) + (IF i \in L THEN 1 ELSE 0)
<1> DEFINE S == {j \in 1 .. i - 1 : j \in L}
           T == {j \in 1 .. (i + 1) - 1 : j \in L}
<1>1. IsFiniteSet(1 .. i - 1)
  BY FS_Interval
<1>2. S \subseteq 1 .. i - 1
  OBVIOUS
<1>3. IsFiniteSet(S) /\ Cardinality(S) \in Nat
  BY <1>1, <1>2, FS_Subset, FS_CardinalityType
<1>4. i \notin S /\ T = IF i \in L THEN S \cup {i} ELSE S
  BY Z3
<1>5. Cardinality(T) = Cardinality(S) + (IF i \in L THEN 1 ELSE 0)
  <2> HIDE DEF S, T
  <2>1. CASE i \in L
    BY <1>3, <1>4, <2>1, FS_AddElement
  <2>2. CASE i \notin L
    BY <1>3, <1>4, <2>2
  <2>3. QED
    BY <2>1, <2>2
<1>6. Below(L, 1) = 0
  <2>1. {j \in 1 .. 1 - 1 : j \in L} = {}
    OBVIOUS
  <2>2. QED
    BY <2>1, FS_EmptySet DEF Below
<1>7. QED
  BY <1>3, <1>5, <1>6 DEF Below

LEMMA BelowGrows ==
  ASSUME NEW L, NEW i \in Nat, i > 0, NEW k \in Nat, i <= k
  PROVE  Below(L, i) <= Below(L, k)
<1> DEFINE Bad == {n \in Nat : n >= i /\ ~(Below(L, i) <= Below(L, n))}
<1>1. Bad = {}
  <2>1. SUFFICES ASSUME Bad # {} PROVE FALSE
    OBVIOUS
  <2>2. PICK n \in Bad : \A j \in Bad : n <= j
    <3>1. Bad \in SUBSET Nat
      OBVIOUS
    <3>2. QED
      BY <2>1, <3>1, LeastOf
  <2>3. Below(L, i) \in Nat
    BY BelowIs
  <2>4. n # i
    BY <2>3
  <2>5. n - 1 \in Nat /\ n - 1 > 0 /\ n - 1 >= i /\ ~(n <= n - 1) /\ (n - 1) + 1 = n
    BY <2>4
  <2>6. Below(L, i) <= Below(L, n - 1)
    BY <2>2, <2>5
  <2>7. /\ Below(L, n - 1) \in Nat
        /\ Below(L, (n - 1) + 1) = Below(L, n - 1) + (IF n - 1 \in L THEN 1 ELSE 0)
    BY <2>5, BelowIs
  <2>8. Below(L, n) >= Below(L, n - 1) /\ Below(L, n) \in Nat
    BY <2>5, <2>7
  <2>9. QED
    BY <2>3, <2>6, <2>7, <2>8
<1>2. QED
  BY <1>1

(* Each number below the count is that of a member.                        *)
LEMMA BelowIsReached ==
  ASSUME NEW L, NEW n \in Nat, n > 0, NEW m \in Nat, m < Below(L, n)
  PROVE  \E i \in 1 .. n - 1 : i \in L /\ Below(L, i) = m
<1> DEFINE Over == {i \in Nat : i > 0 /\ m < Below(L, i)}
<1>1. PICK k \in Over : \A j \in Over : k <= j
  <2>1. Over \in SUBSET Nat /\ n \in Over
    OBVIOUS
  <2>2. QED
    BY <2>1, LeastOf
<1>2. k <= n
  BY <1>1
<1>3. k # 1
  <2>1. Below(L, 1) = 0
    BY BelowIs
  <2>2. QED
    BY <2>1
<1>4. k - 1 \in Nat /\ k - 1 > 0 /\ ~(k <= k - 1) /\ (k - 1) + 1 = k /\ k - 1 \in 1 .. n - 1
  BY <1>2, <1>3
<1>5. ~(m < Below(L, k - 1))
  BY <1>1, <1>4
<1>6. /\ Below(L, k - 1) \in Nat
      /\ Below(L, (k - 1) + 1) = Below(L, k - 1) + (IF k - 1 \in L THEN 1 ELSE 0)
  BY <1>4, BelowIs
<1>7. Below(L, k) = Below(L, k - 1) + (IF k - 1 \in L THEN 1 ELSE 0) /\ m < Below(L, k)
  BY <1>4, <1>6
<1>8. k - 1 \in L /\ Below(L, k - 1) = m
  BY <1>5, <1>6, <1>7
<1>9. QED
  BY <1>4, <1>8

-----------------------------------------------------------------------------
(* What declarations leave: the owner of a variable is a scope around the  *)
(* one it is in, and has it; parameters come first in scope 1.             *)
Declared ==
  /\ \A s \in Scopes : \A i \in DOMAIN variables[s] : owner[variables[s][i]] \in Chain(s)
  /\ \A v \in Variables :
       owner[v] # NoScope => \E i \in DOMAIN variables[owner[v]] : variables[owner[v]][i] = v
  /\ \A i \in 1 .. numParams : owner[variables[1][i]] = 1

Shaped ==
  /\ parent \in Seq(0 .. MaxScopes) /\ Len(parent) > 0 /\ \A s \in Scopes : parent[s] < s
  /\ variables \in Seq(Seq(Variables)) /\ Len(variables) = Len(parent)
  /\ name \in [Variables -> Names]
  /\ owner \in [Variables -> Scopes \cup {NoScope}]
  /\ numParams \in 0 .. Len(variables[1])
  /\ NamesUnique /\ Declared

LEMMA ScopesAre ==
  ASSUME Shaped
  PROVE  /\ Parents(parent) /\ Len(parent) \in Nat /\ Scopes = 1 .. Len(parent) /\ 1 \in Scopes
         /\ \A s \in Scopes : /\ s # NoScope /\ Chain(s) = Up(parent)[s]
                              /\ variables[s] \in Seq(Variables) /\ Len(variables[s]) \in Nat
                              /\ DOMAIN variables[s] = 1 .. Len(variables[s])
                              /\ \A i \in DOMAIN variables[s] : variables[s][i] \in Variables
<1>1. parent \in Seq(0 .. MaxScopes) /\ Len(parent) > 0 /\ MaxScopes \in Nat
  BY ScopesAssumption DEF Shaped
<1>2. Len(parent) \in Nat /\ Scopes = 1 .. Len(parent) /\ 1 \in Scopes
  BY <1>1 DEF Scopes
<1>3. Parents(parent)
  <2>1. parent \in Seq(Nat)
    BY <1>1
  <2>2. QED
    BY <1>2, <2>1 DEF Parents, Shaped
<1>4. ASSUME NEW s \in Scopes
      PROVE  /\ s # NoScope /\ Chain(s) = Up(parent)[s]
             /\ variables[s] \in Seq(Variables) /\ Len(variables[s]) \in Nat
             /\ DOMAIN variables[s] = 1 .. Len(variables[s])
             /\ \A i \in DOMAIN variables[s] : variables[s][i] \in Variables
  <2>1. s # NoScope /\ Chain(s) = Up(parent)[s]
    BY <1>2 DEF NoScope, Chain, Up
  <2>2. variables[s] \in Seq(Variables)
    BY <1>2 DEF Shaped
  <2>3. QED
    BY <2>1, <2>2
<1>5. QED
  BY <1>2, <1>3, <1>4

(* A variable is in a scope at one place.                                  *)
LEMMA PlaceIs ==
  ASSUME Shaped, NEW s \in Scopes, NEW i \in DOMAIN variables[s]
  PROVE  PlaceIn(s, variables[s][i]) = i
<1>1. \A j \in DOMAIN variables[s] : variables[s][j] = variables[s][i] => j = i
  BY DEF Shaped, NamesUnique
<1>2. QED
  BY <1>1 DEF PlaceIn

LEMMA OwnPlaceIs ==
  ASSUME Shaped, NEW v \in Variables, owner[v] # NoScope
  PROVE  /\ owner[v] \in Scopes /\ PlaceIn(owner[v], v) \in DOMAIN variables[owner[v]]
         /\ variables[owner[v]][PlaceIn(owner[v], v)] = v
<1>1. owner[v] \in Scopes
  BY DEF Shaped
<1>2. PICK i \in DOMAIN variables[owner[v]] : variables[owner[v]][i] = v
  BY DEF Shaped, Declared
<1>3. PlaceIn(owner[v], v) = i
  BY <1>1, <1>2, PlaceIs
<1>4. QED
  BY <1>1, <1>2, <1>3

LocalPlaces(s) == {j \in Nat : IsLocal(s, j)}

LEMMA CountsAre ==
  ASSUME Shaped
  PROVE  /\ LocalCounts \in [1 .. Len(parent) -> Nat]
         /\ \A s \in Scopes : \A i \in Nat : LocalsBefore(s, i) = Below(LocalPlaces(s), i)
<1>1. ASSUME NEW s \in Scopes, NEW i \in Nat
      PROVE  LocalsBefore(s, i) = Below(LocalPlaces(s), i)
  <2>1. {j \in 1 .. i - 1 : IsLocal(s, j)} = {j \in 1 .. i - 1 : j \in LocalPlaces(s)}
    BY DEF LocalPlaces
  <2>2. QED
    BY <2>1 DEF LocalsBefore, Below
<1>2. ASSUME NEW s \in Scopes PROVE LocalsBefore(s, Len(variables[s]) + 1) \in Nat
  <2>1. Len(variables[s]) + 1 \in Nat /\ Len(variables[s]) + 1 > 0
    BY ScopesAre
  <2>2. /\ LocalsBefore(s, Len(variables[s]) + 1) = Below(LocalPlaces(s), Len(variables[s]) + 1)
        /\ Below(LocalPlaces(s), Len(variables[s]) + 1) \in Nat
    BY <1>1, <2>1, BelowIs
  <2>3. QED
    BY <2>2
<1>3. LocalCounts \in [Scopes -> Nat]
  BY <1>2 DEF LocalCounts
<1>4. QED
  BY <1>1, <1>3, ScopesAre

(* The share of a scope in the frame: one slot for each of its locals.     *)
LEMMA LocalSlots ==
  ASSUME Shaped, NEW v \in Variables, owner[v] # NoScope, ~IsParam(v)
  PROVE  /\ FrameIndex(v) \in Int /\ ChildFrameIndex[owner[v]] < FrameIndex(v)
         /\ FrameIndex(v) <= ChildFrameIndex[parent[owner[v]]]
         /\ \A w \in Variables :
              (owner[w] = owner[v] /\ ~IsParam(w) /\ FrameIndex(w) = FrameIndex(v)) => w = v
<1> DEFINE s == owner[v]
           L == LocalPlaces(s)
           n == Len(variables[s]) + 1
<1>1. s \in Scopes /\ Parents(parent) /\ Len(parent) \in Nat /\ Scopes = 1 .. Len(parent)
  BY OwnPlaceIs, ScopesAre
<1>2. n \in Nat /\ DOMAIN variables[s] = 1 .. n - 1 /\ parent[s] \in 0 .. Len(parent)
  BY <1>1, ScopesAre, ChainIs
<1>3. ASSUME NEW w \in Variables, owner[w] = s, ~IsParam(w)
      PROVE  /\ PlaceIn(s, w) \in 1 .. n - 1 /\ variables[s][PlaceIn(s, w)] = w
             /\ PlaceIn(s, w) \in L
             /\ FrameIndex(w) = ChildFrameIndex[parent[s]] - Below(L, PlaceIn(s, w))
  <2>1. PlaceIn(s, w) \in 1 .. n - 1 /\ variables[s][PlaceIn(s, w)] = w
    BY <1>2, <1>3, OwnPlaceIs
  <2>2. PlaceIn(s, w) \in Nat
    BY <1>2, <2>1
  <2>3. s = 1 => ~(PlaceIn(s, w) \in 1 .. numParams)
    BY <1>3, <2>1 DEF IsParam
  <2>4. numParams \in Nat
    <3>1. Len(variables[1]) \in Nat
      BY ScopesAre
    <3>2. QED
      BY <3>1 DEF Shaped
  <2>5. PlaceIn(s, w) \in L
    BY <1>2, <1>3, <2>1, <2>2, <2>3, <2>4 DEF LocalPlaces, IsLocal
  <2>6. LocalsBefore(s, PlaceIn(s, w)) = Below(L, PlaceIn(s, w))
    BY <1>1, <2>2, CountsAre
  <2>7. QED
    BY <1>3, <2>1, <2>5, <2>6 DEF FrameIndex
<1>4. /\ \A t \in 0 .. Len(parent) : ChildFrameIndex[t] \in Int
      /\ ChildFrameIndex[s] = ChildFrameIndex[parent[s]] - Below(L, n)
  <2>1. LocalCounts \in [1 .. Len(parent) -> Nat]
    BY CountsAre
  <2>2. /\ \A t \in 0 .. Len(parent) : ChildFrameIndex[t] \in Int
        /\ ChildFrameIndex[s] = ChildFrameIndex[parent[s]] - LocalCounts[s]
    BY <1>1, <2>1, FrameIs DEF ChildFrameIndex
  <2>3. LocalCounts[s] = LocalsBefore(s, n)
    BY <1>1 DEF LocalCounts
  <2>4. LocalsBefore(s, n) = Below(L, n)
    BY <1>1, <1>2, CountsAre
  <2>5. QED
    BY <2>2, <2>3, <2>4
<1>5. ASSUME NEW i \in 1 .. n - 1, i \in L, NEW k \in Nat, i < k
      PROVE  Below(L, i) \in Nat /\ Below(L, k) \in Nat /\ Below(L, i) < Below(L, k)
  <2>1. i \in Nat /\ i > 0 /\ k > 0 /\ i + 1 \in Nat /\ i + 1 > 0 /\ i + 1 <= k
    BY <1>2, <1>5
  <2>2. Below(L, i) \in Nat /\ Below(L, k) \in Nat /\ Below(L, i + 1) = Below(L, i) + 1
    BY <1>5, <2>1, BelowIs
  <2>3. Below(L, i + 1) <= Below(L, k)
    BY <2>1, BelowGrows
  <2>4. QED
    BY <2>2, <2>3
<1> HIDE DEF L
<1>6. /\ PlaceIn(s, v) \in 1 .. n - 1 /\ variables[s][PlaceIn(s, v)] = v /\ PlaceIn(s, v) \in L
      /\ FrameIndex(v) = ChildFrameIndex[parent[s]] - Below(L, PlaceIn(s, v))
  BY <1>3
<1>7. /\ FrameIndex(v) \in Int /\ ChildFrameIndex[s] < FrameIndex(v)
      /\ FrameIndex(v) <= ChildFrameIndex[parent[s]]
  <2>1. PlaceIn(s, v) < n
    BY <1>2, <1>6
  <2>2. /\ Below(L, PlaceIn(s, v)) \in Nat /\ Below(L, n) \in Nat
        /\ Below(L, PlaceIn(s, v)) < Below(L, n)
    BY <1>2, <1>5, <1>6, <2>1
  <2>3. ChildFrameIndex[parent[s]] \in Int
    BY <1>2, <1>4
  <2> HIDE DEF s, n
  <2>4. QED
    BY <1>4, <1>6, <2>2, <2>3
<1>8. ASSUME NEW w \in Variables, owner[w] = s, ~IsParam(w), FrameIndex(w) = FrameIndex(v)
      PROVE  w = v
  <2>1. /\ PlaceIn(s, w) \in 1 .. n - 1 /\ variables[s][PlaceIn(s, w)] = w /\ PlaceIn(s, w) \in L
        /\ FrameIndex(w) = ChildFrameIndex[parent[s]] - Below(L, PlaceIn(s, w))
    BY <1>3, <1>8
  <2> DEFINE i == PlaceIn(s, v)
             j == PlaceIn(s, w)
  <2>2. /\ i \in 1 .. n - 1 /\ j \in 1 .. n - 1 /\ i \in L /\ j \in L /\ i \in Nat /\ j \in Nat
        /\ ChildFrameIndex[parent[s]] \in Int
    BY <1>2, <1>4, <1>6, <2>1
  <2>3. Below(L, i) \in Nat /\ Below(L, j) \in Nat
    <3>1. i > 0 /\ j > 0
      BY <1>2, <2>2
    <3>2. QED
      BY <2>2, <3>1, BelowIs
  <2>4. Below(L, i) = Below(L, j)
    <3>1. FrameIndex(v) = ChildFrameIndex[parent[s]] - Below(L, i)
      BY <1>6
    <3>2. FrameIndex(v) = ChildFrameIndex[parent[s]] - Below(L, j)
      BY <1>8, <2>1
    <3> HIDE DEF i, j, s
    <3>3. QED
      BY <2>2, <2>3, <3>1, <3>2
  <2>5. ~(i < j) /\ ~(j < i)
    BY <1>5, <2>2, <2>3, <2>4
  <2>6. i = j
    BY <2>2, <2>5
  <2>7. QED
    BY <1>6, <2>1, <2>6
<1>9. QED
  BY <1>7, <1>8

(* The whole share of a scope is used.                                     *)
LEMMA SlotsAreTaken ==
  ASSUME Shaped, NEW s \in Scopes, NEW x \in Int,
         ChildFrameIndex[s] < x, x <= ChildFrameIndex[parent[s]]
  PROVE  \E v \in Variables : owner[v] = s /\ ~IsParam(v) /\ FrameIndex(v) = x
<1> DEFINE L == LocalPlaces(s)
           n == Len(variables[s]) + 1
           m == ChildFrameIndex[parent[s]] - x
<1>1. Parents(parent) /\ Len(parent) \in Nat /\ Scopes = 1 .. Len(parent) /\ s # NoScope
  BY ScopesAre
<1>2. n \in Nat /\ n > 0 /\ DOMAIN variables[s] = 1 .. n - 1 /\ parent[s] \in 0 .. Len(parent)
  BY <1>1, ScopesAre, ChainIs
<1>3. /\ ChildFrameIndex[parent[s]] \in Int /\ ChildFrameIndex[s] \in Int
      /\ ChildFrameIndex[s] = ChildFrameIndex[parent[s]] - Below(L, n)
  <2>1. LocalCounts \in [1 .. Len(parent) -> Nat]
    BY CountsAre
  <2>2. /\ \A t \in 0 .. Len(parent) : ChildFrameIndex[t] \in Int
        /\ ChildFrameIndex[s] = ChildFrameIndex[parent[s]] - LocalCounts[s]
    BY <1>1, <2>1, FrameIs DEF ChildFrameIndex
  <2>3. LocalCounts[s] = LocalsBefore(s, n)
    BY <1>1 DEF LocalCounts
  <2>4. LocalsBefore(s, n) = Below(L, n)
    BY <1>1, <1>2, CountsAre
  <2>5. QED
    BY <1>1, <1>2, <2>2, <2>3, <2>4
<1>4. Below(L, n) \in Nat
  BY <1>2, BelowIs
<1> HIDE DEF L, n
<1>5. m \in Nat /\ m < Below(L, n)
  BY <1>3, <1>4
<1>6. PICK i \in 1 .. n - 1 : i \in L /\ Below(L, i) = m
  BY <1>2, <1>5, BelowIsReached
<1> DEFINE v == variables[s][i]
<1>7. v \in Variables /\ i \in DOMAIN variables[s] /\ i \in Nat
  BY <1>2, ScopesAre
<1>8. owner[v] = s /\ (s = 1 => i > numParams)
  BY <1>6 DEF L, LocalPlaces, IsLocal
<1>9. PlaceIn(s, v) = i
  BY <1>7, PlaceIs
<1>10. numParams \in Nat /\ numParams <= Len(variables[1]) /\ Len(variables[1]) \in Nat /\ 1 \in Scopes
       /\ DOMAIN variables[1] = 1 .. Len(variables[1])
  BY ScopesAre DEF Shaped
<1>11. ~IsParam(v)
  <2>1. SUFFICES ASSUME NEW j \in 1 .. numParams, variables[1][j] = v PROVE FALSE
    BY DEF IsParam
  <2>2. owner[v] = 1
    BY <2>1 DEF Shaped, Declared
  <2>3. j \in DOMAIN variables[1]
    BY <1>10
  <2>4. PlaceIn(1, v) = j
    BY <1>10, <2>1, <2>3, PlaceIs
  <2>5. QED
    BY <1>8, <1>9, <1>10, <2>2, <2>4
<1>12. FrameIndex(v) = ChildFrameIndex[parent[s]] - LocalsBefore(s, i)
  BY <1>8, <1>9, <1>11 DEF FrameIndex
<1>13. LocalsBefore(s, i) = m
  BY <1>6, <1>7, CountsAre DEF L
<1>14. FrameIndex(v) = x
  <2> HIDE DEF v
  <2>1. QED
    BY <1>3, <1>12, <1>13
<1>15. QED
  BY <1>7, <1>8, <1>11, <1>14

-----------------------------------------------------------------------------
(* The deepest of the frame indices the scopes end at.                     *)
LEMMA MinIs ==
  ASSUME NEW n \in Nat, n > 0, NEW ends \in [1 .. n -> Int]
  PROVE  \E s \in 1 .. n : MinFrameIndex(ends) = ends[s] /\ \A t \in 1 .. n : ends[s] <= ends[t]
<1> DEFINE Bad == {k \in 1 .. n : ~\E s \in 1 .. k : \A t \in 1 .. k : ends[s] <= ends[t]}
<1>1. Bad = {}
  <2>1. SUFFICES ASSUME Bad # {} PROVE FALSE
    OBVIOUS
  <2>2. Bad \in SUBSET Nat
    OBVIOUS
  <2>3. PICK k \in Bad : \A j \in Bad : k <= j
    BY <2>1, <2>2, LeastOf
  <2>4. k \in 1 .. n /\ ~\E s \in 1 .. k : \A t \in 1 .. k : ends[s] <= ends[t]
    OBVIOUS
  <2>5. \A t \in 1 .. n : ends[t] \in Int
    OBVIOUS
  <2>6. k # 1
    <3>1. \A t \in 1 .. 1 : ends[1] <= ends[t]
      BY <2>5
    <3>2. QED
      BY <2>4, <3>1
  <2>7. k - 1 \in 1 .. n /\ ~(k <= k - 1)
    BY <2>4, <2>6
  <2>8. PICK s \in 1 .. k - 1 : \A t \in 1 .. k - 1 : ends[s] <= ends[t]
    BY <2>3, <2>7
  <2> DEFINE r == IF ends[s] <= ends[k] THEN s ELSE k
  <2>9. r \in 1 .. k /\ s \in 1 .. n
    BY <2>4, <2>7
  <2>10. ASSUME NEW t \in 1 .. k PROVE ends[r] <= ends[t]
    <3>1. t \in 1 .. n /\ (t = k \/ t \in 1 .. k - 1)
      BY <2>4
    <3>2. ends[s] \in Int /\ ends[k] \in Int /\ ends[t] \in Int
      BY <2>4, <2>5, <2>9, <3>1
    <3>3. t = k \/ ends[s] <= ends[t]
      BY <2>8, <3>1
    <3>4. QED
      BY <3>2, <3>3
  <2>11. QED
    BY <2>4, <2>9, <2>10
<1>2. n \in 1 .. n
  OBVIOUS
<1>3. PICK s \in 1 .. n : \A t \in 1 .. n : ends[s] <= ends[t]
  BY <1>1, <1>2
<1>4. DOMAIN ends = 1 .. n /\ \A t \in 1 .. n : ends[t] \in Int
  OBVIOUS
<1>5. \A m \in {ends[t] : t \in DOMAIN ends} :
        (\A t \in DOMAIN ends : m <= ends[t]) => m = ends[s]
  BY <1>3, <1>4
<1>6. MinFrameIndex(ends) = ends[s]
  BY <1>3, <1>4, <1>5 DEF MinFrameIndex
<1>7. QED
  BY <1>3, <1>6

LEMMA MinFrameIs ==
  ASSUME Shaped
  PROVE  /\ \A t \in 0 .. Len(parent) : ChildFrameIndex[t] \in Int
         /\ ChildFrameIndex[NoScope] = kFirstLocalSlotFromFp
         /\ \E s \in Scopes : /\ ChildFrameIndex[s] = MinFrameIndex([t \in Scopes |-> ChildFrameIndex[t]])
                              /\ ChildFrameIndex[s] <= kFirstLocalSlotFromFp
                              /\ \A t \in Scopes : ChildFrameIndex[s] <= ChildFrameIndex[t]
<1> DEFINE C == ChildFrameIndex
           E == [t \in Scopes |-> C[t]]
           n == Len(parent)
<1>1. Parents(parent) /\ n \in Nat /\ Scopes = 1 .. n /\ 1 \in Scopes
  BY ScopesAre
<1>2. LocalCounts \in [1 .. n -> Nat]
  BY CountsAre
<1>3. C[NoScope] = kFirstLocalSlotFromFp /\ \A t \in 0 .. n : C[t] \in Int
  BY <1>1, <1>2, FrameIs DEF ChildFrameIndex
<1>4. ASSUME NEW s \in Scopes PROVE C[s] <= kFirstLocalSlotFromFp
  <2>1. s \in 0 .. n /\ NoScope \in Up(parent)[s] \cup {NoScope}
    BY <1>1
  <2>2. C[s] <= C[NoScope]
    BY <1>1, <1>2, <2>1, FrameFalls DEF ChildFrameIndex
  <2>3. QED
    BY <1>3, <2>2
<1> HIDE DEF C
<1>5. E \in [1 .. n -> Int] /\ \A t \in Scopes : E[t] = C[t]
  BY <1>1, <1>3
<1>6. n > 0
  BY <1>1
<1> HIDE DEF E, n
<1>7. PICK s \in 1 .. n : MinFrameIndex(E) = E[s] /\ \A t \in 1 .. n : E[s] <= E[t]
  BY <1>1, <1>5, <1>6, MinIs
<1>8. QED
  BY <1>1, <1>3, <1>4, <1>5, <1>7 DEF C, E, n

(* The slots of parameters, last parameter first, are above the frame.     *)
LEMMA ParamSlots ==
  ASSUME Shaped, NEW v \in Variables, IsParam(v)
  PROVE  /\ owner[v] = 1 /\ numParams \in Nat /\ PlaceIn(1, v) \in 1 .. numParams
         /\ variables[1][PlaceIn(1, v)] = v
         /\ FrameIndex(v) = kParamEndSlotFromFp + numParams - (PlaceIn(1, v) - 1)
<1>1. PICK i \in 1 .. numParams : variables[1][i] = v
  BY DEF IsParam
<1>2. numParams \in Nat /\ numParams <= Len(variables[1]) /\ Len(variables[1]) \in Nat /\ 1 \in Scopes
      /\ DOMAIN variables[1] = 1 .. Len(variables[1])
  BY ScopesAre DEF Shaped
<1>3. i \in DOMAIN variables[1]
  BY <1>2
<1>4. PlaceIn(1, v) = i
  BY <1>1, <1>2, <1>3, PlaceIs
<1>5. owner[v] = 1
  BY <1>1 DEF Shaped, Declared
<1>6. QED
  BY <1>1, <1>2, <1>4, <1>5 DEF FrameIndex

(* What is visible is owned on the way out.                                *)
LEMMA VisibleOwned ==
  ASSUME Shaped, NEW s \in Scopes, NEW v \in Visible(s)
  PROVE  v \in Variables /\ owner[v] \in Chain(s) /\ owner[v] \in Scopes /\ owner[v] # NoScope
<1>1. PICK t \in Chain(s) : v \in InScope(t)
  BY DEF Visible
<1>2. Parents(parent) /\ Scopes = 1 .. Len(parent) /\ Len(parent) \in Nat
      /\ Chain(s) = Up(parent)[s] /\ s \in 0 .. Len(parent)
  BY ScopesAre
<1>3. t \in Scopes /\ Chain(t) = Up(parent)[t] /\ t \in Up(parent)[s]
  <2>1. t \in Scopes
    BY <1>2, ChainIsBefore
  <2>2. QED
    BY <1>2, <2>1, ScopesAre
<1>4. PICK i \in DOMAIN variables[t] : v = variables[t][i]
  BY <1>1 DEF InScope
<1>5. v \in Variables /\ owner[v] \in Chain(t)
  BY <1>3, <1>4, ScopesAre DEF Shaped, Declared
<1>6. Chain(t) \subseteq Chain(s)
  BY <1>2, <1>3, ChainIsClosed
<1>7. owner[v] \in Scopes
  BY <1>2, <1>5, <1>6, ChainIsBefore
<1>8. QED
  BY <1>5, <1>6, <1>7, ScopesAre

(* Locals of scopes on one way out have slots of their own: those of the   *)
(* inner scope are below those of the outer one.                           *)
LEMMA NestedApart ==
  ASSUME Shaped, NEW v \in Variables, NEW w \in Variables, ~IsParam(v), ~IsParam(w),
         owner[v] \in Scopes, owner[w] \in Up(parent)[owner[v]], owner[w] # owner[v]
  PROVE  FrameIndex(v) < FrameIndex(w)
<1> DEFINE C == ChildFrameIndex
           s == owner[v]
           t == owner[w]
<1>1. Parents(parent) /\ Len(parent) \in Nat /\ Scopes = 1 .. Len(parent) /\ s # NoScope
  BY ScopesAre
<1>2. t \in Up(parent)[parent[s]] /\ parent[s] \in 0 .. Len(parent)
  BY <1>1, ChainIs
<1>3. t \in Scopes /\ t # NoScope
  BY <1>1, <1>2, ChainIsBefore DEF NoScope
<1>4. LocalCounts \in [1 .. Len(parent) -> Nat]
  BY CountsAre
<1>5. C[parent[s]] <= C[t]
  BY <1>1, <1>2, <1>4, FrameFalls DEF ChildFrameIndex
<1>6. FrameIndex(v) \in Int /\ FrameIndex(v) <= C[parent[s]]
  BY <1>1, LocalSlots
<1>7. FrameIndex(w) \in Int /\ C[t] < FrameIndex(w)
  BY <1>3, LocalSlots
<1>8. C[parent[s]] \in Int /\ C[t] \in Int
  BY <1>1, <1>2, <1>3, MinFrameIs
<1> HIDE DEF C, s, t
<1>9. QED
  BY <1>5, <1>6, <1>7, <1>8

(* Every local lies in the frame.                                          *)
FrameSize == kFirstLocalSlotFromFp - MinFrameIndex([s \in Scopes |-> ChildFrameIndex[s]])

LEMMA LocalInFrame ==
  ASSUME Shaped, NEW v \in Variables, owner[v] # NoScope, ~IsParam(v)
  PROVE  /\ FrameIndex(v) \in Int /\ FrameIndex(v) <= kFirstLocalSlotFromFp
         /\ kFirstLocalSlotFromFp - FrameSize < FrameIndex(v) /\ FrameSize \in Nat
<1> DEFINE C == ChildFrameIndex
           s == owner[v]
           m == MinFrameIndex([t \in Scopes |-> C[t]])
<1>1. Parents(parent) /\ Len(parent) \in Nat /\ Scopes = 1 .. Len(parent) /\ s \in Scopes
  BY OwnPlaceIs, ScopesAre
<1>2. parent[s] \in 0 .. Len(parent) /\ NoScope \in Up(parent)[parent[s]] \cup {NoScope}
  BY <1>1, ChainIs
<1>3. LocalCounts \in [1 .. Len(parent) -> Nat]
  BY CountsAre
<1>4. C[parent[s]] <= C[NoScope]
  BY <1>1, <1>2, <1>3, FrameFalls DEF ChildFrameIndex
<1>5. FrameIndex(v) \in Int /\ FrameIndex(v) <= C[parent[s]] /\ C[s] < FrameIndex(v)
  BY LocalSlots
<1>6. /\ C[parent[s]] \in Int /\ C[s] \in Int /\ C[NoScope] = kFirstLocalSlotFromFp
      /\ m \in Int /\ m <= C[s] /\ m <= kFirstLocalSlotFromFp
  <2>1. PICK t \in Scopes : /\ C[t] = m /\ C[t] <= kFirstLocalSlotFromFp
                            /\ \A u \in Scopes : C[t] <= C[u]
    BY MinFrameIs
  <2>2. \A u \in 0 .. Len(parent) : C[u] \in Int
    BY MinFrameIs
  <2>3. s \in 0 .. Len(parent) /\ t \in 0 .. Len(parent)
    BY <1>1
  <2> HIDE DEF C, m, s
  <2>4. QED
    BY <1>1, <1>2, <2>1, <2>2, <2>3, MinFrameIs DEF C
<1>7. FrameSize = kFirstLocalSlotFromFp - m
  BY DEF FrameSize
<1> HIDE DEF C, s, m
<1>8. QED
  BY <1>4, <1>5, <1>6, <1>7 DEF kFirstLocalSlotFromFp

(* The frame as function_allocate_variables leaves it.                     *)
IsLaidOut == /\ \A v \in Variables : owner[v] # NoScope => index[v] = FrameIndex(v)
             /\ numStackLocals = FrameSize
LaidOut == fresh => IsLaidOut

LEMMA SlotsAreApart ==
  ASSUME Shaped, LaidOut
  PROVE  SlotsApart
<1> SUFFICES ASSUME fresh, NEW s \in Scopes, NEW v \in Visible(s)
             PROVE  /\ BitIndex(v) \in 0 .. numParams + numStackLocals - 1
                    /\ \A w \in Visible(s) \ {v} : index[v] # index[w] /\ BitIndex(v) # BitIndex(w)
  BY DEF SlotsApart
<1>1. Parents(parent) /\ Len(parent) \in Nat /\ Scopes = 1 .. Len(parent) /\ Chain(s) = Up(parent)[s]
      /\ s \in 0 .. Len(parent)
  BY ScopesAre
<1>2. numParams \in Nat
  <2>1. Len(variables[1]) \in Nat
    BY ScopesAre
  <2>2. QED
    BY <2>1 DEF Shaped
<1>3. FrameSize \in Nat /\ numStackLocals = FrameSize
  <2>1. PICK t \in Scopes :
           /\ ChildFrameIndex[t] = MinFrameIndex([u \in Scopes |-> ChildFrameIndex[u]])
           /\ ChildFrameIndex[t] <= kFirstLocalSlotFromFp
    BY MinFrameIs
  <2>2. ChildFrameIndex[t] \in Int
    BY <1>1, <2>1, MinFrameIs
  <2>3. QED
    BY <2>1, <2>2 DEF FrameSize, kFirstLocalSlotFromFp, LaidOut, IsLaidOut
<1>4. ASSUME NEW w \in Visible(s)
      PROVE  /\ w \in Variables /\ owner[w] \in Up(parent)[s] /\ owner[w] \in Scopes
             /\ owner[w] # NoScope /\ index[w] = FrameIndex(w)
  BY <1>1, VisibleOwned DEF LaidOut, IsLaidOut
<1>5. ASSUME NEW w \in Visible(s), IsParam(w)
      PROVE  /\ index[w] = 2 + numParams - PlaceIn(1, w) /\ PlaceIn(1, w) \in 1 .. numParams
             /\ index[w] \in 2 .. numParams + 1 /\ BitIndex(w) = PlaceIn(1, w) - 1
             /\ variables[1][PlaceIn(1, w)] = w
  <2>1. w \in Variables /\ index[w] = FrameIndex(w)
    BY <1>4
  <2>2. /\ PlaceIn(1, w) \in 1 .. numParams /\ variables[1][PlaceIn(1, w)] = w
        /\ FrameIndex(w) = kParamEndSlotFromFp + numParams - (PlaceIn(1, w) - 1)
    BY <1>5, <2>1, ParamSlots
  <2>3. index[w] = 2 + numParams - PlaceIn(1, w)
    BY <1>2, <2>1, <2>2 DEF kParamEndSlotFromFp
  <2>4. QED
    BY <1>2, <2>2, <2>3 DEF BitIndex, kParamEndSlotFromFp
<1>6. ASSUME NEW w \in Visible(s), ~IsParam(w)
      PROVE  /\ index[w] \in Int /\ index[w] <= -3 /\ -3 - FrameSize < index[w]
             /\ BitIndex(w) = numParams - 3 - index[w]
  <2>1. w \in Variables /\ index[w] = FrameIndex(w) /\ owner[w] # NoScope
    BY <1>4
  <2>2. /\ index[w] \in Int /\ index[w] <= -3 /\ -3 - FrameSize < index[w]
    BY <1>6, <2>1, LocalInFrame DEF kFirstLocalSlotFromFp
  <2>3. QED
    BY <1>2, <2>2 DEF BitIndex, kFirstLocalSlotFromFp
<1>7. BitIndex(v) \in 0 .. numParams + numStackLocals - 1
  <2>1. CASE IsParam(v)
    BY <1>2, <1>3, <1>5, <2>1
  <2>2. CASE ~IsParam(v)
    BY <1>2, <1>3, <1>6, <2>2
  <2>3. QED
    BY <2>1, <2>2
<1>8. ASSUME NEW w \in Visible(s), w # v PROVE index[v] # index[w] /\ BitIndex(v) # BitIndex(w)
  <2>1. CASE IsParam(v) /\ IsParam(w)
    <3>1. PlaceIn(1, v) # PlaceIn(1, w)
      BY <1>5, <1>8, <2>1
    <3>2. PlaceIn(1, v) \in Int /\ PlaceIn(1, w) \in Int
      BY <1>2, <1>5, <2>1
    <3>3. /\ index[v] = 2 + numParams - PlaceIn(1, v) /\ BitIndex(v) = PlaceIn(1, v) - 1
          /\ index[w] = 2 + numParams - PlaceIn(1, w) /\ BitIndex(w) = PlaceIn(1, w) - 1
      BY <1>5, <2>1
    <3>4. QED
      BY <1>2, <3>1, <3>2, <3>3
  <2>2. CASE IsParam(v) /\ ~IsParam(w)
    <3>1. /\ index[v] \in 2 .. numParams + 1 /\ BitIndex(v) = PlaceIn(1, v) - 1
          /\ PlaceIn(1, v) \in 1 .. numParams
      BY <1>5, <2>2
    <3>2. index[w] \in Int /\ index[w] <= -3 /\ BitIndex(w) = numParams - 3 - index[w]
      BY <1>6, <2>2
    <3>3. QED
      BY <1>2, <3>1, <3>2
  <2>3. CASE ~IsParam(v) /\ IsParam(w)
    <3>1. /\ index[w] \in 2 .. numParams + 1 /\ BitIndex(w) = PlaceIn(1, w) - 1
          /\ PlaceIn(1, w) \in 1 .. numParams
      BY <1>5, <2>3
    <3>2. index[v] \in Int /\ index[v] <= -3 /\ BitIndex(v) = numParams - 3 - index[v]
      BY <1>6, <2>3
    <3>3. QED
      BY <1>2, <3>1, <3>2
  <2>4. CASE ~IsParam(v) /\ ~IsParam(w)
    <3>1. FrameIndex(v) # FrameIndex(w)
      <4>1. /\ v \in Variables /\ w \in Variables /\ owner[v] \in Scopes /\ owner[w] \in Scopes
            /\ owner[v] # NoScope /\ owner[w] # NoScope
            /\ owner[v] \in Up(parent)[s] /\ owner[w] \in Up(parent)[s]
        BY <1>4
      <4>2. FrameIndex(v) \in Int /\ FrameIndex(w) \in Int
        BY <2>4, <4>1, LocalSlots
      <4>3. CASE owner[v] = owner[w]
        BY <1>8, <2>4, <4>1, <4>3, LocalSlots
      <4>4. CASE owner[v] # owner[w]
        <5>1. owner[v] <= owner[w] \/ owner[w] <= owner[v]
          BY <1>1, <4>1
        <5>2. owner[v] \in Up(parent)[owner[w]] \/ owner[w] \in Up(parent)[owner[v]]
          BY <1>1, <4>1, <5>1, ChainIsNested
        <5>3. FrameIndex(v) < FrameIndex(w) \/ FrameIndex(w) < FrameIndex(v)
          BY <2>4, <4>1, <4>4, <5>2, NestedApart
        <5>4. QED
          BY <4>2, <5>3
      <4>5. QED
        BY <4>3, <4>4
    <3>2. index[v] = FrameIndex(v) /\ index[w] = FrameIndex(w)
      BY <1>4
    <3>3. /\ index[v] \in Int /\ BitIndex(v) = numParams - 3 - index[v]
          /\ index[w] \in Int /\ BitIndex(w) = numParams - 3 - index[w]
      BY <1>6, <2>4
    <3>4. QED
      BY <1>2, <3>1, <3>2, <3>3
  <2>5. QED
    BY <2>1, <2>2, <2>3, <2>4
<1>9. QED
  BY <1>7, <1>8

LEMMA FrameIsFull ==
  ASSUME Shaped, LaidOut
  PROVE  FrameIsTight
<1> DEFINE locals == {v \in Variables : owner[v] # NoScope /\ index[v] < 0}
           C == ChildFrameIndex
<1> SUFFICES ASSUME fresh
             PROVE  {index[v] : v \in locals} =
                      {kFirstLocalSlotFromFp - i : i \in 0 .. numStackLocals - 1}
  BY DEF FrameIsTight
<1>1. Parents(parent) /\ Len(parent) \in Nat /\ Scopes = 1 .. Len(parent)
  BY ScopesAre
<1>2. PICK t \in Scopes : /\ C[t] = MinFrameIndex([u \in Scopes |-> C[u]])
                          /\ C[t] <= kFirstLocalSlotFromFp
  BY MinFrameIs
<1>3. C[t] \in Int /\ C[NoScope] = kFirstLocalSlotFromFp
  BY <1>1, MinFrameIs
<1>4. numStackLocals = kFirstLocalSlotFromFp - C[t] /\ numStackLocals = FrameSize /\ FrameSize \in Nat
  BY <1>2, <1>3 DEF FrameSize, LaidOut, IsLaidOut, kFirstLocalSlotFromFp
<1>5. ASSUME NEW v \in locals
      PROVE  index[v] \in {kFirstLocalSlotFromFp - i : i \in 0 .. numStackLocals - 1}
  <2>1. v \in Variables /\ owner[v] # NoScope /\ index[v] = FrameIndex(v) /\ index[v] < 0
    BY DEF LaidOut, IsLaidOut
  <2>2. ~IsParam(v)
    <3>1. SUFFICES ASSUME IsParam(v) PROVE FALSE
      OBVIOUS
    <3>2. /\ numParams \in Nat /\ PlaceIn(1, v) \in 1 .. numParams
          /\ FrameIndex(v) = kParamEndSlotFromFp + numParams - (PlaceIn(1, v) - 1)
      BY <2>1, <3>1, ParamSlots
    <3>3. QED
      BY <2>1, <3>2 DEF kParamEndSlotFromFp
  <2>3. /\ FrameIndex(v) \in Int /\ FrameIndex(v) <= kFirstLocalSlotFromFp
        /\ kFirstLocalSlotFromFp - FrameSize < FrameIndex(v)
    BY <2>1, <2>2, LocalInFrame
  <2> DEFINE i == kFirstLocalSlotFromFp - FrameIndex(v)
  <2>4. i \in 0 .. numStackLocals - 1 /\ kFirstLocalSlotFromFp - i = FrameIndex(v)
    BY <1>4, <2>3 DEF kFirstLocalSlotFromFp
  <2> HIDE DEF i
  <2>5. QED
    BY <2>1, <2>4
<1>6. ASSUME NEW i \in 0 .. numStackLocals - 1
      PROVE  kFirstLocalSlotFromFp - i \in {index[v] : v \in locals}
  <2> DEFINE x == kFirstLocalSlotFromFp - i
  <2>1. x \in Int /\ C[t] < x /\ x <= kFirstLocalSlotFromFp /\ x < 0
    BY <1>3, <1>4 DEF kFirstLocalSlotFromFp
  <2> HIDE DEF x
  <2>2. LocalCounts \in [1 .. Len(parent) -> Nat] /\ t \in 0 .. Len(parent)
    BY <1>1, CountsAre
  <2>3. PICK u \in Up(parent)[t] : C[u] < x /\ x <= C[parent[u]]
    BY <1>1, <2>1, <2>2, FrameIsShared DEF ChildFrameIndex
  <2>4. u \in Scopes
    BY <1>1, <2>2, <2>3, ChainIsBefore
  <2>5. PICK v \in Variables : owner[v] = u /\ ~IsParam(v) /\ FrameIndex(v) = x
    BY <2>1, <2>3, <2>4, SlotsAreTaken
  <2>6. owner[v] # NoScope
    BY <2>4, <2>5, ScopesAre
  <2>7. index[v] = x
    BY <2>5, <2>6 DEF LaidOut, IsLaidOut
  <2>8. v \in locals
    BY <2>1, <2>6, <2>7
  <2>9. QED
    BY <2>7, <2>8 DEF x
<1> HIDE DEF locals
<1>7. QED
  BY <1>5, <1>6

(* Slots of parameters and locals are among Slots: no more of them are     *)
(* used than there are variables.                                          *)
LEMMA IndexInSlots ==
  ASSUME Shaped, NEW v \in Variables, owner[v] # NoScope
  PROVE  FrameIndex(v) \in Slots /\ FrameIndex(v) # -1
<1> DEFINE N == Cardinality(Variables)
<1>1. IsFiniteSet(Variables) /\ N \in Nat
  BY ScopesAssumption, FS_CardinalityType
<1>2. CASE IsParam(v)
  <2>1. /\ numParams \in Nat /\ PlaceIn(1, v) \in 1 .. numParams
        /\ FrameIndex(v) = kParamEndSlotFromFp + numParams - (PlaceIn(1, v) - 1)
    BY <1>2, ParamSlots
  <2>2. numParams <= Len(variables[1]) /\ Len(variables[1]) \in Nat /\ 1 \in Scopes
        /\ DOMAIN variables[1] = 1 .. Len(variables[1])
    BY ScopesAre DEF Shaped
  <2> DEFINE f == [i \in 1 .. numParams |-> variables[1][i]]
  <2>3. f \in [1 .. numParams -> Variables]
    BY <2>1, <2>2, ScopesAre
  <2>4. \A i, j \in 1 .. numParams : f[i] = f[j] => i = j
    <3>1. \A i \in 1 .. numParams : i \in DOMAIN variables[1]
      BY <2>1, <2>2
    <3>2. \A i, j \in DOMAIN variables[1] : name[variables[1][i]] = name[variables[1][j]] => i = j
      BY <2>2 DEF Shaped, NamesUnique
    <3>3. QED
      BY <3>1, <3>2
  <2>5. f \in Injection(1 .. numParams, Variables)
    BY <2>3, <2>4 DEF Injection, IsInjective
  <2>6. Cardinality(1 .. numParams) <= N /\ Cardinality(1 .. numParams) = numParams
    <3>1. Cardinality(1 .. numParams) = IF 1 > numParams THEN 0 ELSE numParams - 1 + 1
      BY <2>1, FS_Interval
    <3> HIDE DEF f
    <3>2. Cardinality(1 .. numParams) <= N
      BY <1>1, <2>5, FS_Injection
    <3>3. QED
      BY <2>1, <3>1, <3>2
  <2>7. FrameIndex(v) \in kParamEndSlotFromFp + 1 .. kParamEndSlotFromFp + N
    BY <1>1, <2>1, <2>6 DEF kParamEndSlotFromFp
  <2>8. QED
    BY <2>1, <2>7 DEF Slots, kParamEndSlotFromFp
<1>3. CASE ~IsParam(v)
  <2> DEFINE x == FrameIndex(v)
             C == ChildFrameIndex
             I == x .. kFirstLocalSlotFromFp
  <2>1. x \in Int /\ x <= kFirstLocalSlotFromFp /\ C[owner[v]] < x
    BY <1>3, LocalInFrame, LocalSlots
  <2>2. /\ Parents(parent) /\ Len(parent) \in Nat /\ owner[v] \in 0 .. Len(parent)
        /\ Scopes = 1 .. Len(parent) /\ C[owner[v]] \in Int
    BY OwnPlaceIs, ScopesAre, MinFrameIs
  <2>3. LocalCounts \in [1 .. Len(parent) -> Nat]
    BY CountsAre
  <2> HIDE DEF x
  <2>4. ASSUME NEW y \in I PROVE \E w \in Variables : FrameIndex(w) = y
    <3>1. y \in Int /\ C[owner[v]] < y /\ y <= kFirstLocalSlotFromFp
      BY <2>1, <2>2 DEF kFirstLocalSlotFromFp
    <3>2. PICK t \in Up(parent)[owner[v]] : C[t] < y /\ y <= C[parent[t]]
      BY <2>2, <2>3, <3>1, FrameIsShared DEF ChildFrameIndex
    <3>3. t \in Scopes
      BY <2>2, <3>2, ChainIsBefore
    <3>4. QED
      BY <3>1, <3>2, <3>3, SlotsAreTaken
  <2> DEFINE f == [y \in I |-> CHOOSE w \in Variables : FrameIndex(w) = y]
  <2>5. \A y \in I : f[y] \in Variables /\ FrameIndex(f[y]) = y
    BY <2>4
  <2>6. f \in Injection(I, Variables)
    <3> HIDE DEF I
    <3>1. f \in [I -> Variables]
      BY <2>4
    <3> HIDE DEF f
    <3>2. \A i, j \in I : f[i] = f[j] => i = j
      BY <2>5
    <3>3. QED
      BY <3>1, <3>2 DEF Injection, IsInjective
  <2>7. Cardinality(I) <= N /\ Cardinality(I) = kFirstLocalSlotFromFp - x + 1
    <3>1. kFirstLocalSlotFromFp \in Int
      BY DEF kFirstLocalSlotFromFp
    <3>2. Cardinality(I) = IF x > kFirstLocalSlotFromFp THEN 0 ELSE kFirstLocalSlotFromFp - x + 1
      BY <2>1, <3>1, FS_Interval
    <3> HIDE DEF f, I
    <3>3. Cardinality(I) <= N
      BY <1>1, <2>6, FS_Injection
    <3>4. QED
      BY <2>1, <3>1, <3>2, <3>3
  <2> DEFINE i == kFirstLocalSlotFromFp - x
  <2>8. i \in 0 .. N /\ kFirstLocalSlotFromFp - i = x /\ x # -1
    BY <1>1, <2>1, <2>7 DEF kFirstLocalSlotFromFp
  <2> HIDE DEF i
  <2>9. QED
    BY <2>8 DEF Slots, x
<1>4. QED
  BY <1>2, <1>3

-----------------------------------------------------------------------------
(* The invariant.                                                          *)
Typed == /\ index \in [Variables -> Slots \cup {-1}] /\ numStackLocals \in Nat
         /\ fresh \in BOOLEAN

IInv == Shaped /\ LaidOut /\ Typed

LEMMA InvIsEnough ==
  ASSUME IInv
  PROVE  ScopesInv /\ SlotsApart /\ FrameIsTight
<1>1. Shaped /\ LaidOut /\ Typed
  BY DEF IInv
<1>2. fresh => \A v \in Variables : owner[v] # NoScope => index[v] # -1
  BY <1>1, IndexInSlots DEF LaidOut, IsLaidOut
<1>3. TypeOK
  BY <1>1, <1>2 DEF TypeOK, Shaped, Typed
<1>4. NamesUnique
  BY <1>1 DEF Shaped
<1>5. QED
  BY <1>1, <1>3, <1>4, SlotsAreApart, FrameIsFull DEF ScopesInv

LEMMA InitIInv ==
  ASSUME Init
  PROVE  IInv
<1>1. /\ parent = <<NoScope>> /\ variables = << <<>> >> /\ name \in [Variables -> Names]
      /\ owner = [v \in Variables |-> NoScope] /\ index = [v \in Variables |-> -1]
      /\ numParams = 0 /\ numStackLocals = 0 /\ fresh = FALSE
  BY DEF Init
<1>2. Scopes = {1} /\ Len(parent) = 1 /\ Len(variables) = 1 /\ variables[1] = <<>> /\ parent[1] = 0
  BY <1>1 DEF Scopes, NoScope
<1>3. parent \in Seq(0 .. MaxScopes) /\ variables \in Seq(Seq(Variables))
  <2>1. 0 \in 0 .. MaxScopes /\ <<>> \in Seq(Variables)
    BY ScopesAssumption
  <2>2. QED
    BY <1>1, <2>1 DEF NoScope
<1>4. \A s \in Scopes : DOMAIN variables[s] = {}
  BY <1>2
<1>5. NamesUnique /\ Declared
  BY <1>1, <1>4 DEF NamesUnique, Declared, NoScope
<1>6. Shaped
  <2>1. owner \in [Variables -> Scopes \cup {NoScope}]
    BY <1>1
  <2>2. numParams \in 0 .. Len(variables[1])
    BY <1>1, <1>2
  <2>3. Len(parent) > 0 /\ \A s \in Scopes : parent[s] < s
    BY <1>2
  <2>4. QED
    BY <1>1, <1>2, <1>3, <1>5, <2>1, <2>2, <2>3 DEF Shaped
<1>7. QED
  BY <1>1, <1>6 DEF IInv, LaidOut, Typed

-----------------------------------------------------------------------------
(* Declarations.  Both ways to declare put a variable of a new name in the *)
(* buffer of one scope, at place k.                                        *)
Placed(q, k, v, r) ==
  /\ Len(r) = Len(q) + 1
  /\ \A j \in 1 .. Len(q) + 1 : r[j] = IF j < k THEN q[j] ELSE IF j = k THEN v ELSE q[j - 1]

Gains(s, k, v) ==
  /\ parent' = parent /\ name' = name
  /\ s \in Scopes /\ v \in Variables /\ k \in 1 .. Len(variables[s]) + 1
  /\ variables' \in Seq(Seq(Variables)) /\ Len(variables') = Len(variables)
  /\ \A t \in Scopes \ {s} : variables'[t] = variables[t]
  /\ Placed(variables[s], k, v, variables'[s])
  /\ LocalLookup(s, name[v]) = NoVariable
  /\ owner[v] \in {NoScope} \cup Chain(s)
  /\ owner' = IF owner[v] = NoScope THEN [owner EXCEPT ![v] = s] ELSE owner
  /\ \/ numParams' = numParams /\ (s = 1 => k > numParams)
     \/ numParams' = numParams + 1 /\ s = 1 /\ k <= numParams + 1 /\ owner[v] = NoScope

LEMMA AppendPlaces ==
  ASSUME NEW S, NEW q \in Seq(S), NEW v \in S
  PROVE  Append(q, v) \in Seq(S) /\ Placed(q, Len(q) + 1, v, Append(q, v))
<1>1. Append(q, v) \in Seq(S) /\ Len(Append(q, v)) = Len(q) + 1 /\ Len(q) \in Nat
  OBVIOUS
<1>2. ASSUME NEW j \in 1 .. Len(q) + 1
      PROVE  Append(q, v)[j] = IF j < Len(q) + 1 THEN q[j]
                               ELSE IF j = Len(q) + 1 THEN v ELSE q[j - 1]
  OBVIOUS
<1>3. QED
  BY <1>1, <1>2 DEF Placed

LEMMA InsertPlaces ==
  ASSUME NEW S, NEW q \in Seq(S), NEW v \in S, NEW i \in 0 .. Len(q)
  PROVE  LET r == SubSeq(q, 1, i) \o <<v>> \o SubSeq(q, i + 1, Len(q))
         IN  r \in Seq(S) /\ Placed(q, i + 1, v, r)
<1> DEFINE a == SubSeq(q, 1, i)
           b == SubSeq(q, i + 1, Len(q))
           c == a \o <<v>>
           r == c \o b
<1>1. Len(q) \in Nat /\ i \in Nat /\ i <= Len(q)
  OBVIOUS
<1>2. a \in Seq(S) /\ Len(a) = i /\ \A j \in 1 .. i : a[j] = q[j]
  BY <1>1
<1>3. b \in Seq(S) /\ Len(b) = Len(q) - i /\ \A j \in 1 .. Len(q) - i : b[j] = q[i + j]
  BY <1>1
<1> HIDE DEF a, b
<1>4. c \in Seq(S) /\ Len(c) = i + 1 /\ (\A j \in 1 .. i : c[j] = q[j]) /\ c[i + 1] = v
  BY <1>1, <1>2
<1> HIDE DEF c
<1>5. r \in Seq(S) /\ Len(r) = Len(q) + 1
  <2>1. c \in Seq(S) /\ b \in Seq(S) /\ Len(c) = i + 1 /\ Len(b) = Len(q) - i
    BY <1>3, <1>4
  <2>2. c \o b \in Seq(S) /\ Len(c \o b) = Len(c) + Len(b)
    BY <2>1
  <2>3. QED
    BY <1>1, <2>1, <2>2
<1>6. /\ \A j \in 1 .. i + 1 : r[j] = c[j]
      /\ \A j \in i + 2 .. Len(q) + 1 : r[j] = b[j - (i + 1)]
  <2>1. ASSUME NEW j \in 1 .. i + 1 PROVE r[j] = c[j]
    BY <1>1, <1>3, <1>4
  <2>2. ASSUME NEW j \in i + 2 .. Len(q) + 1 PROVE r[j] = b[j - (i + 1)]
    BY <1>1, <1>3, <1>4
  <2>3. QED
    BY <2>1, <2>2
<1> HIDE DEF r
<1>7. ASSUME NEW j \in 1 .. Len(q) + 1
      PROVE  r[j] = IF j < i + 1 THEN q[j] ELSE IF j = i + 1 THEN v ELSE q[j - 1]
  <2>1. CASE j < i + 1
    <3>1. j \in 1 .. i /\ j \in 1 .. i + 1
      BY <1>1, <2>1
    <3>2. QED
      BY <1>4, <1>6, <2>1, <3>1
  <2>2. CASE j = i + 1
    BY <1>1, <1>4, <1>6, <2>2
  <2>3. CASE j > i + 1
    <3>1. j \in i + 2 .. Len(q) + 1 /\ j - (i + 1) \in 1 .. Len(q) - i /\ i + (j - (i + 1)) = j - 1
      BY <1>1, <2>3
    <3>2. r[j] = q[j - 1]
      BY <1>3, <1>6, <3>1
    <3>3. ~(j < i + 1) /\ j # i + 1
      BY <1>1, <2>3
    <3>4. QED
      BY <3>2, <3>3
  <2>4. QED
    BY <1>1, <2>1, <2>2, <2>3
<1>8. QED
  BY <1>5, <1>7 DEF Placed, r, c, a, b

LEMMA AddGains ==
  ASSUME Shaped, NEW s \in Scopes, NEW v \in Variables, Add(s, v)
  PROVE  \E k \in Nat : Gains(s, k, v)
<1>1. /\ Len(parent) \in Nat /\ Scopes = 1 .. Len(parent) /\ variables \in Seq(Seq(Variables))
      /\ Len(variables) = Len(parent) /\ variables[s] \in Seq(Variables)
      /\ Len(variables[s]) \in Nat /\ numParams \in 0 .. Len(variables[1]) /\ numParams' = numParams
  BY ScopesAre DEF Shaped, Add
<1>2. variables' = [variables EXCEPT ![s] = Append(variables[s], v)]
  BY DEF Add, Added
<1>3. /\ Append(variables[s], v) \in Seq(Variables)
      /\ Placed(variables[s], Len(variables[s]) + 1, v, Append(variables[s], v))
  BY <1>1, AppendPlaces
<1>4. /\ variables' \in Seq(Seq(Variables)) /\ Len(variables') = Len(variables)
      /\ \A t \in Scopes \ {s} : variables'[t] = variables[t]
      /\ variables'[s] = Append(variables[s], v)
  BY <1>1, <1>2, <1>3
<1>5. s = 1 => Len(variables[s]) + 1 > numParams
  BY <1>1
<1>6. Gains(s, Len(variables[s]) + 1, v)
  BY <1>1, <1>3, <1>4, <1>5 DEF Gains, Add, Added
<1>7. QED
  BY <1>1, <1>6

LEMMA InsertGains ==
  ASSUME Shaped, NEW v \in Variables, NEW i \in 0 .. numParams, InsertParam(i, v)
  PROVE  \E k \in Nat : Gains(1, k, v)
<1>1. /\ Len(parent) \in Nat /\ Scopes = 1 .. Len(parent) /\ variables \in Seq(Seq(Variables))
      /\ Len(variables) = Len(parent) /\ variables[1] \in Seq(Variables) /\ 1 \in Scopes
      /\ Len(variables[1]) \in Nat /\ numParams \in 0 .. Len(variables[1])
      /\ numParams' = numParams + 1
  BY ScopesAre DEF Shaped, InsertParam
<1> DEFINE q == variables[1]
           r == SubSeq(q, 1, i) \o <<v>> \o SubSeq(q, i + 1, Len(q))
<1>2. variables' = [variables EXCEPT ![1] = r]
  BY DEF InsertParam
<1>3. i \in 0 .. Len(q) /\ i + 1 <= numParams + 1 /\ i + 1 \in 1 .. Len(q) + 1
  BY <1>1
<1>4. r \in Seq(Variables) /\ Placed(q, i + 1, v, r)
  BY <1>1, <1>3, InsertPlaces
<1> HIDE DEF r
<1>5. /\ variables' \in Seq(Seq(Variables)) /\ Len(variables') = Len(variables)
      /\ \A t \in Scopes \ {1} : variables'[t] = variables[t]
      /\ variables'[1] = r
  BY <1>1, <1>2, <1>4
<1>6. Gains(1, i + 1, v)
  BY <1>1, <1>3, <1>4, <1>5 DEF Gains, InsertParam
<1>7. QED
  BY <1>1, <1>3, <1>6

(* What a lookup in one scope finds.                                       *)
LEMMA LocalLookupIs ==
  ASSUME Shaped, NEW s \in Scopes, NEW n
  PROVE  \/ /\ LocalLookup(s, n) = NoVariable
            /\ \A i \in DOMAIN variables[s] : name[variables[s][i]] # n
         \/ /\ LocalLookup(s, n) # NoVariable
            /\ LocalLookup(s, n) \in InScope(s) /\ name[LocalLookup(s, n)] = n
            /\ \A v \in InScope(s) : name[v] = n => v = LocalLookup(s, n)
<1> DEFINE found == {v \in InScope(s) : name[v] = n}
<1>1. CASE found = {}
  <2>1. LocalLookup(s, n) = NoVariable
    BY <1>1 DEF LocalLookup
  <2>2. ASSUME NEW i \in DOMAIN variables[s] PROVE name[variables[s][i]] # n
    <3>1. variables[s][i] \in InScope(s)
      BY DEF InScope
    <3>2. QED
      BY <1>1, <3>1
  <2>3. QED
    BY <2>1, <2>2
<1>2. CASE found # {}
  <2>1. LocalLookup(s, n) = CHOOSE v \in found : TRUE
    BY <1>2 DEF LocalLookup
  <2>2. LocalLookup(s, n) \in found
    BY <1>2, <2>1
  <2>3. \A v \in InScope(s) : v \in Variables
    BY ScopesAre DEF InScope
  <2>4. LocalLookup(s, n) # NoVariable
    BY <2>2, <2>3, ScopesAssumption
  <2>5. ASSUME NEW v \in InScope(s), name[v] = n PROVE v = LocalLookup(s, n)
    <3>1. PICK i \in DOMAIN variables[s] : variables[s][i] = v
      BY DEF InScope
    <3>2. PICK j \in DOMAIN variables[s] : variables[s][j] = LocalLookup(s, n)
      BY <2>2 DEF InScope
    <3>3. name[variables[s][i]] = name[variables[s][j]]
      BY <2>2, <2>5, <3>1, <3>2
    <3>4. i = j
      BY <3>3 DEF Shaped, NamesUnique
    <3>5. QED
      BY <3>1, <3>2, <3>4
  <2>6. QED
    BY <2>2, <2>4, <2>5
<1>3. QED
  BY <1>1, <1>2

(* What a declaration leaves as it was.                                    *)
NewPlace(k, i) == IF i < k THEN i ELSE i + 1
OldPlace(k, i) == IF i < k THEN i ELSE i - 1

LEMMA GainsKeep ==
  ASSUME Shaped, NEW s, NEW k \in Nat, NEW v, Gains(s, k, v)
  PROVE  /\ s \in Scopes /\ v \in Variables /\ Scopes' = Scopes
         /\ \A t : Chain(t)' = Chain(t)
         /\ \A t \in Scopes \ {s} : variables'[t] = variables[t] /\ DOMAIN variables'[t] = DOMAIN variables[t]
         /\ DOMAIN variables'[s] = 1 .. Len(variables[s]) + 1
         /\ k \in DOMAIN variables'[s] /\ variables'[s][k] = v
         /\ \A i \in DOMAIN variables[s] :
              variables[s][i] = variables'[s][NewPlace(k, i)]
         /\ \A i \in DOMAIN variables'[s] \ {k} :
              /\ OldPlace(k, i) \in DOMAIN variables[s]
              /\ variables'[s][i] = variables[s][OldPlace(k, i)]
              /\ name[variables'[s][i]] # name[v]
<1> DEFINE n == Len(variables[s])
<1>1. /\ s \in Scopes /\ v \in Variables /\ k \in 1 .. n + 1 /\ n \in Nat
      /\ DOMAIN variables[s] = 1 .. n /\ Len(parent) \in Nat /\ Scopes = 1 .. Len(parent)
  BY ScopesAre DEF Gains
<1>2. Scopes' = Scopes /\ \A t : Chain(t)' = Chain(t)
  BY DEF Gains, Scopes, Chain
<1>3. ASSUME NEW t \in Scopes \ {s}
      PROVE  variables'[t] = variables[t] /\ DOMAIN variables'[t] = DOMAIN variables[t]
  BY DEF Gains
<1>4. /\ Len(variables'[s]) = n + 1
      /\ \A j \in 1 .. n + 1 : variables'[s][j] = IF j < k THEN variables[s][j] ELSE
                                IF j = k THEN v ELSE variables[s][j - 1]
  BY DEF Gains, Placed
<1>5. DOMAIN variables'[s] = 1 .. n + 1
  <2>1. Len(variables') = Len(parent) /\ variables' \in Seq(Seq(Variables))
    BY DEF Gains, Shaped
  <2>2. variables'[s] \in Seq(Variables)
    BY <1>1, <2>1
  <2>3. QED
    BY <1>1, <1>4, <2>2
<1>6. k \in DOMAIN variables'[s] /\ variables'[s][k] = v
  <2>1. k \in 1 .. n + 1 /\ ~(k < k)
    BY <1>1
  <2>2. QED
    BY <1>4, <1>5, <2>1
<1>7. ASSUME NEW i \in DOMAIN variables[s]
      PROVE  variables[s][i] = variables'[s][NewPlace(k, i)]
  <2>1. CASE i < k
    <3>1. i \in 1 .. n + 1
      BY <1>1
    <3>2. QED
      BY <1>4, <2>1, <3>1 DEF NewPlace
  <2>2. CASE ~(i < k)
    <3>1. i + 1 \in 1 .. n + 1 /\ ~(i + 1 < k) /\ i + 1 # k /\ (i + 1) - 1 = i
      BY <1>1, <2>2
    <3>2. variables'[s][i + 1] = variables[s][(i + 1) - 1]
      BY <1>4, <3>1
    <3>3. QED
      BY <2>2, <3>1, <3>2 DEF NewPlace
  <2>3. QED
    BY <2>1, <2>2
<1>8. ASSUME NEW i \in DOMAIN variables'[s] \ {k}
      PROVE  /\ OldPlace(k, i) \in DOMAIN variables[s]
             /\ variables'[s][i] = variables[s][OldPlace(k, i)]
             /\ name[variables'[s][i]] # name[v]
  <2> DEFINE j == IF i < k THEN i ELSE i - 1
  <2>1. i \in 1 .. n + 1 /\ i # k
    BY <1>5
  <2>2. j \in DOMAIN variables[s]
    BY <1>1, <2>1
  <2>3. variables'[s][i] = variables[s][j]
    BY <1>4, <2>1
  <2>4. name[variables[s][j]] # name[v]
    <3>1. LocalLookup(s, name[v]) = NoVariable
      BY DEF Gains
    <3> HIDE DEF j
    <3>2. QED
      BY <1>1, <2>2, <3>1, LocalLookupIs
  <2>5. QED
    BY <2>2, <2>3, <2>4 DEF OldPlace
<1>9. QED
  BY <1>1, <1>2, <1>3, <1>5, <1>6, <1>7, <1>8

(* The owner of a variable that has one stays.                             *)
LEMMA GainsKeepOwners ==
  ASSUME Shaped, NEW s, NEW k \in Nat, NEW v, Gains(s, k, v)
  PROVE  /\ \A w \in Variables : owner[w] # NoScope => owner'[w] = owner[w]
         /\ \A w \in Variables \ {v} : owner'[w] = owner[w]
         /\ owner'[v] \in Chain(s) /\ (owner[v] = NoScope => owner'[v] = s)
<1>1. s \in Scopes /\ v \in Variables
  BY DEF Gains
<1>2. owner' = IF owner[v] = NoScope THEN [owner EXCEPT ![v] = s] ELSE owner
  BY DEF Gains
<1>3. owner[v] \in {NoScope} \cup Chain(s)
  BY DEF Gains
<1>4. s \in Chain(s)
  <2>1. Parents(parent) /\ Chain(s) = Up(parent)[s] /\ s \in 1 .. Len(parent)
    BY <1>1, ScopesAre
  <2>2. QED
    BY <2>1, ChainIs
<1>5. owner \in [Variables -> Scopes \cup {NoScope}]
  BY DEF Shaped
<1>6. QED
  BY <1>1, <1>2, <1>3, <1>4, <1>5

LEMMA GainsKeepShape ==
  ASSUME Shaped, NEW s, NEW k \in Nat, NEW v, Gains(s, k, v)
  PROVE  Shaped'
<1> DEFINE n == Len(variables[s])
           New(i) == NewPlace(k, i)
           Old(i) == OldPlace(k, i)
<1>1. /\ s \in Scopes /\ v \in Variables /\ k \in 1 .. n + 1 /\ n \in Nat
      /\ DOMAIN variables[s] = 1 .. n /\ DOMAIN variables'[s] = 1 .. n + 1
      /\ Len(parent) \in Nat /\ Scopes = 1 .. Len(parent) /\ Scopes' = Scopes
      /\ \A t : Chain(t)' = Chain(t)
      /\ parent' = parent /\ name' = name
  BY ScopesAre, GainsKeep DEF Gains
<1>2. /\ variables'[s][k] = v
      /\ \A i \in 1 .. n : New(i) \in 1 .. n + 1 /\ variables[s][i] = variables'[s][New(i)]
      /\ \A i \in (1 .. n + 1) \ {k} : /\ Old(i) \in 1 .. n /\ variables'[s][i] = variables[s][Old(i)]
                                       /\ name[variables'[s][i]] # name[v]
  <2>1. \A i \in 1 .. n : New(i) \in 1 .. n + 1
    BY <1>1 DEF NewPlace
  <2>2. variables'[s][k] = v
    BY GainsKeep
  <2>3. \A i \in DOMAIN variables[s] : variables[s][i] = variables'[s][New(i)]
    BY GainsKeep
  <2>4. \A i \in DOMAIN variables'[s] \ {k} :
          /\ Old(i) \in DOMAIN variables[s] /\ variables'[s][i] = variables[s][Old(i)]
          /\ name[variables'[s][i]] # name[v]
    BY GainsKeep
  <2> HIDE DEF n, New, Old
  <2>5. QED
    BY <1>1, <2>1, <2>2, <2>3, <2>4
<1>3. /\ \A w \in Variables : owner[w] # NoScope => owner'[w] = owner[w]
      /\ \A w \in Variables \ {v} : owner'[w] = owner[w]
      /\ owner'[v] \in Chain(s) /\ (owner[v] = NoScope => owner'[v] = s)
  <2>1. \A w \in Variables : owner[w] # NoScope => owner'[w] = owner[w]
    BY GainsKeepOwners
  <2>2. \A w \in Variables \ {v} : owner'[w] = owner[w]
    BY GainsKeepOwners
  <2>3. owner'[v] \in Chain(s) /\ (owner[v] = NoScope => owner'[v] = s)
    BY GainsKeepOwners
  <2>4. QED
    BY <2>1, <2>2, <2>3
<1>4. \A t \in Scopes \ {s} : variables'[t] = variables[t] /\ DOMAIN variables'[t] = DOMAIN variables[t]
  BY GainsKeep
<1>5. /\ parent' \in Seq(0 .. MaxScopes) /\ Len(parent') > 0
      /\ (\A t \in Scopes : parent[t] < t)'
      /\ variables' \in Seq(Seq(Variables)) /\ Len(variables') = Len(parent')
      /\ name' \in [Variables -> Names]
  BY <1>1 DEF Shaped, Gains
<1>6. (owner \in [Variables -> Scopes \cup {NoScope}])'
  <2>1. owner \in [Variables -> Scopes \cup {NoScope}]
    BY DEF Shaped
  <2>2. owner' = IF owner[v] = NoScope THEN [owner EXCEPT ![v] = s] ELSE owner
    BY DEF Gains
  <2>3. QED
    BY <1>1, <2>1, <2>2
<1>7. Len(variables[1]) \in Nat /\ numParams \in 0 .. Len(variables[1]) /\ 1 \in Scopes
  BY ScopesAre DEF Shaped
<1>8. numParams' \in 0 .. Len(variables'[1])
  <2>1. Len(variables'[1]) >= Len(variables[1]) /\ Len(variables'[1]) \in Nat
    <3>1. CASE s = 1
      <4>1. Len(variables'[1]) = Len(variables[1]) + 1
        BY <3>1 DEF Gains, Placed
      <4>2. QED
        BY <1>7, <4>1
    <3>2. CASE s # 1
      <4>1. variables'[1] = variables[1]
        BY <1>4, <1>7, <3>2
      <4>2. QED
        BY <1>7, <4>1
    <3>3. QED
      BY <3>1, <3>2
  <2>2. CASE numParams' = numParams
    BY <1>7, <2>1, <2>2
  <2>3. CASE numParams' = numParams + 1 /\ s = 1
    <3>1. Len(variables'[1]) = Len(variables[1]) + 1
      BY <2>3 DEF Gains, Placed
    <3>2. QED
      BY <1>7, <2>3, <3>1
  <2>4. QED
    BY <2>2, <2>3 DEF Gains
<1>9. NamesUnique'
  <2>1. SUFFICES ASSUME NEW t \in Scopes, NEW i \in DOMAIN variables'[t], NEW j \in DOMAIN variables'[t],
                        name[variables'[t][i]] = name[variables'[t][j]]
                 PROVE  i = j
    BY <1>1 DEF NamesUnique
  <2>2. \A a, b \in DOMAIN variables[t] : name[variables[t][a]] = name[variables[t][b]] => a = b
    BY DEF Shaped, NamesUnique
  <2>3. CASE t # s
    <3>1. variables'[t] = variables[t]
      BY <1>4, <2>3
    <3>2. QED
      BY <2>1, <2>2, <3>1
  <2>4. CASE t = s /\ i # k /\ j # k
    <3>1. i \in (1 .. n + 1) \ {k} /\ j \in (1 .. n + 1) \ {k}
      BY <1>1, <2>4
    <3>2. /\ Old(i) \in 1 .. n /\ Old(j) \in 1 .. n
          /\ name[variables[s][Old(i)]] = name[variables[s][Old(j)]]
      BY <1>2, <2>1, <2>4, <3>1
    <3>3. Old(i) = Old(j)
      BY <1>1, <2>2, <2>4, <3>2
    <3>4. i \in Int /\ j \in Int /\ k \in Int
      BY <1>1, <3>1
    <3>5. QED
      BY <2>4, <3>3, <3>4 DEF OldPlace
  <2>5. CASE t = s /\ i = k /\ j # k
    BY <1>1, <1>2, <2>1, <2>5
  <2>6. CASE t = s /\ i # k /\ j = k
    BY <1>1, <1>2, <2>1, <2>6
  <2>7. QED
    BY <2>3, <2>4, <2>5, <2>6
<1>10. Declared'
  <2>1. ASSUME NEW t \in Scopes, NEW i \in DOMAIN variables[t]
        PROVE  variables[t][i] \in Variables /\ owner[variables[t][i]] # NoScope
               /\ owner[variables[t][i]] \in Chain(t) /\ owner'[variables[t][i]] = owner[variables[t][i]]
    <3>1. variables[t][i] \in Variables /\ owner[variables[t][i]] \in Chain(t)
      BY ScopesAre DEF Shaped, Declared
    <3>2. Parents(parent) /\ t \in 0 .. Len(parent) /\ Chain(t) = Up(parent)[t]
      BY <1>1, ScopesAre
    <3>3. owner[variables[t][i]] \in 1 .. Len(parent)
      BY <3>1, <3>2, ChainIsBefore
    <3>4. QED
      BY <1>3, <3>1, <3>3 DEF NoScope
  <2>2. ASSUME NEW t \in Scopes, NEW i \in DOMAIN variables'[t]
        PROVE  owner'[variables'[t][i]] \in Chain(t)
    <3>1. CASE t # s
      BY <1>4, <2>1, <3>1
    <3>2. CASE t = s /\ i = k
      BY <1>2, <1>3, <3>2
    <3>3. CASE t = s /\ i # k
      <4>1. Old(i) \in DOMAIN variables[s] /\ variables'[s][i] = variables[s][Old(i)]
        BY <1>1, <1>2, <3>3
      <4>2. QED
        BY <2>1, <3>3, <4>1
    <3>4. QED
      BY <3>1, <3>2, <3>3
  <2>3. ASSUME NEW w \in Variables, owner'[w] # NoScope
        PROVE  \E i \in DOMAIN variables'[owner'[w]] : variables'[owner'[w]][i] = w
    <3>1. CASE owner[w] = NoScope
      <4>1. w = v /\ owner'[w] = s
        BY <1>3, <2>3, <3>1
      <4>2. QED
        BY <1>1, <1>2, <4>1
    <3>2. CASE owner[w] # NoScope
      <4> DEFINE t == owner[w]
      <4>1. t \in Scopes /\ owner'[w] = t
        BY <1>3, <3>2 DEF Shaped
      <4>2. PICK i \in DOMAIN variables[t] : variables[t][i] = w
        BY <3>2 DEF Shaped, Declared
      <4>3. CASE t # s
        BY <1>4, <4>1, <4>2, <4>3
      <4>4. CASE t = s
        <5>1. New(i) \in DOMAIN variables'[s] /\ variables'[s][New(i)] = w
          BY <1>1, <1>2, <4>2, <4>4
        <5>2. QED
          BY <4>1, <4>4, <5>1
      <4>5. QED
        BY <4>3, <4>4
    <3>3. QED
      BY <3>1, <3>2
  <2>4. ASSUME NEW i \in 1 .. numParams' PROVE owner'[variables'[1][i]] = 1
    <3>1. \A j \in 1 .. numParams : /\ j \in DOMAIN variables[1] /\ owner[variables[1][j]] = 1
                                    /\ owner'[variables[1][j]] = 1
      <4>1. ASSUME NEW j \in 1 .. numParams
            PROVE  j \in DOMAIN variables[1] /\ owner[variables[1][j]] = 1
        BY <1>7, ScopesAre DEF Shaped, Declared
      <4>2. QED
        BY <1>7, <2>1, <4>1
    <3>2. CASE s # 1
      <4>1. variables'[1] = variables[1] /\ numParams' = numParams
        BY <1>4, <1>7, <3>2 DEF Gains
      <4>2. QED
        BY <3>1, <4>1
    <3>3. CASE s = 1 /\ numParams' = numParams /\ k > numParams
      <4>1. i \in 1 .. numParams /\ i < k /\ i \in (1 .. n + 1) \ {k}
        BY <1>1, <1>7, <3>1, <3>3
      <4>2. variables'[1][i] = variables[1][i]
        BY <1>2, <3>3, <4>1 DEF OldPlace
      <4>3. QED
        BY <3>1, <4>1, <4>2
    <3>4. CASE s = 1 /\ numParams' = numParams + 1 /\ k <= numParams + 1 /\ owner[v] = NoScope
      <4>1. CASE i = k
        BY <1>2, <1>3, <3>4, <4>1
      <4>2. CASE i # k
        <5>1. i \in (1 .. n + 1) \ {k} /\ Old(i) \in 1 .. numParams
          BY <1>1, <1>7, <3>4, <4>2 DEF OldPlace
        <5>2. variables'[1][i] = variables[1][Old(i)]
          BY <1>2, <3>4, <5>1
        <5>3. QED
          BY <3>1, <5>1, <5>2
      <4>3. QED
        BY <4>1, <4>2
    <3>5. QED
      BY <3>2, <3>3, <3>4 DEF Gains
  <2>5. QED
    BY <1>1, <2>2, <2>3, <2>4 DEF Declared
<1>11. QED
  BY <1>5, <1>6, <1>8, <1>9, <1>10 DEF Shaped

(* A new scope changes nothing in those before it.                         *)
LEMMA NewScopeKeeps ==
  ASSUME Shaped, NEW p \in Scopes, NewScope(p)
  PROVE  /\ Parents(parent') /\ Len(parent') = Len(parent) + 1 /\ Len(parent') \in Nat
         /\ Scopes' = Scopes \cup {Len(parent')} /\ Len(parent') \notin Scopes
         /\ variables' \in Seq(Seq(Variables)) /\ Len(variables') = Len(parent')
         /\ DOMAIN variables'[Len(parent')] = {} /\ parent'[Len(parent')] = p
         /\ \A s \in Scopes : /\ parent'[s] = parent[s] /\ variables'[s] = variables[s]
                              /\ Chain(s)' = Chain(s)
<1> DEFINE n == Len(parent)
<1>1. /\ Parents(parent) /\ n \in Nat /\ Scopes = 1 .. n /\ parent \in Seq(0 .. MaxScopes)
      /\ MaxScopes \in Nat /\ variables \in Seq(Seq(Variables)) /\ Len(variables) = n
      /\ \A s \in Scopes : parent[s] < s
  BY ScopesAre, ScopesAssumption DEF Shaped
<1>2. parent' = Append(parent, p) /\ variables' = Append(variables, <<>>) /\ p \in 0 .. MaxScopes
      /\ p \in Nat
  <2>1. n < MaxScopes
    BY DEF NewScope
  <2>2. QED
    BY <1>1, <2>1 DEF NewScope
<1>3. /\ parent' \in Seq(0 .. MaxScopes) /\ Len(parent') = n + 1 /\ parent'[n + 1] = p
      /\ \A s \in 1 .. n : parent'[s] = parent[s]
  BY <1>1, <1>2
<1>4. Scopes' = 1 .. n + 1
  BY <1>1, <1>3 DEF Scopes
<1>5. <<>> \in Seq(Variables)
  OBVIOUS
<1>6. /\ variables' \in Seq(Seq(Variables)) /\ Len(variables') = n + 1 /\ variables'[n + 1] = <<>>
      /\ \A s \in 1 .. n : variables'[s] = variables[s]
  <2> DEFINE e == <<>>
  <2>1. e \in Seq(Variables) /\ variables' = Append(variables, e)
    BY <1>2, <1>5
  <2> HIDE DEF e
  <2>2. /\ variables' \in Seq(Seq(Variables)) /\ Len(variables') = n + 1 /\ variables'[n + 1] = e
        /\ \A s \in 1 .. n : variables'[s] = variables[s]
    BY <1>1, <2>1
  <2>3. QED
    BY <2>2 DEF e
<1>7. Parents(parent')
  <2>1. parent' \in Seq(Nat)
    BY <1>3, <1>1
  <2>2. ASSUME NEW s \in 1 .. n + 1 PROVE parent'[s] < s
    <3>1. CASE s = n + 1
      <4>1. p < n + 1
        BY <1>1
      <4>2. QED
        BY <1>3, <3>1, <4>1
    <3>2. CASE s # n + 1
      <4>1. n \in Nat
        BY <1>1
      <4> HIDE DEF n
      <4>2. s \in 1 .. n
        BY <3>2, <4>1
      <4>3. parent'[s] = parent[s] /\ parent[s] < s
        BY <1>1, <1>3, <4>2
      <4>4. QED
        BY <4>3
    <3>3. QED
      BY <3>1, <3>2
  <2>3. QED
    BY <1>3, <2>1, <2>2 DEF Parents
<1>8. ASSUME NEW s \in Scopes PROVE Chain(s)' = Chain(s)
  <2>1. Len(parent) <= Len(parent') /\ s \in 0 .. Len(parent)
    BY <1>1, <1>3
  <2>2. \A u \in 1 .. Len(parent) : parent'[u] = parent[u]
    BY <1>3
  <2>3. Up(parent')[s] = Up(parent)[s]
    BY <1>1, <1>7, <2>1, <2>2, ChainOfMore
  <2>4. QED
    BY <2>3 DEF Chain, Up
<1>9. n + 1 \notin 1 .. n /\ 1 .. n + 1 = (1 .. n) \cup {n + 1}
  <2>1. n \in Nat
    BY <1>1
  <2> HIDE DEF n
  <2>2. QED
    BY <2>1
<1>10. /\ Parents(parent') /\ Len(parent') = n + 1 /\ n + 1 \in Nat
       /\ Scopes' = Scopes \cup {n + 1} /\ n + 1 \notin Scopes
  BY <1>1, <1>3, <1>4, <1>7, <1>9
<1>11. /\ variables' \in Seq(Seq(Variables)) /\ Len(variables') = n + 1
       /\ DOMAIN variables'[n + 1] = {} /\ parent'[n + 1] = p
  <2>1. DOMAIN <<>> = {}
    OBVIOUS
  <2>2. QED
    BY <1>3, <1>6, <2>1
<1>12. \A s \in Scopes : /\ parent'[s] = parent[s] /\ variables'[s] = variables[s]
                         /\ Chain(s)' = Chain(s)
  BY <1>1, <1>3, <1>6, <1>8
<1> HIDE DEF n
<1>13. QED
  BY <1>10, <1>11, <1>12 DEF n

LEMMA NewScopeKeepsShape ==
  ASSUME Shaped, NEW p \in Scopes, NewScope(p)
  PROVE  Shaped'
<1> DEFINE z == Len(parent')
<1>1. /\ Parents(parent') /\ z = Len(parent) + 1 /\ z \in Nat /\ Len(parent) \in Nat
      /\ Scopes' = Scopes \cup {z} /\ z \notin Scopes /\ Scopes = 1 .. Len(parent)
      /\ variables' \in Seq(Seq(Variables)) /\ Len(variables') = z
      /\ DOMAIN variables'[z] = {} /\ parent'[z] = p
      /\ 1 \in Scopes /\ p \in 1 .. Len(parent)
  BY NewScopeKeeps, ScopesAre
<1>2. \A s \in Scopes : parent'[s] = parent[s] /\ variables'[s] = variables[s]
  BY NewScopeKeeps
<1>3. \A s \in Scopes : Chain(s)' = Chain(s)
  BY NewScopeKeeps
<1>4. name' = name /\ owner' = owner /\ numParams' = numParams
  BY DEF NewScope
<1>5. parent' \in Seq(0 .. MaxScopes)
  <2>1. parent \in Seq(0 .. MaxScopes) /\ parent' = Append(parent, p) /\ Len(parent) < MaxScopes
        /\ MaxScopes \in Nat
    BY ScopesAssumption DEF Shaped, NewScope
  <2>2. p \in 0 .. MaxScopes
    BY <1>1, <2>1
  <2>3. QED
    BY <2>1, <2>2
<1>6. (\A s \in Scopes : parent[s] < s)'
  <2>1. \A s \in Scopes : parent[s] < s
    BY DEF Shaped
  <2>2. p < z
    BY <1>1
  <2> HIDE DEF z
  <2>3. QED
    BY <1>1, <1>2, <2>1, <2>2
<1> HIDE DEF z
<1>7. (owner \in [Variables -> Scopes \cup {NoScope}])'
  BY <1>1, <1>4 DEF Shaped
<1>8. numParams' \in 0 .. Len(variables'[1])
  BY <1>1, <1>2, <1>4 DEF Shaped
<1>9. NamesUnique'
  <2>1. SUFFICES ASSUME NEW t \in Scopes', NEW i \in DOMAIN variables'[t], NEW j \in DOMAIN variables'[t],
                        name[variables'[t][i]] = name[variables'[t][j]]
                 PROVE  i = j
    BY <1>4 DEF NamesUnique
  <2>2. t \in Scopes /\ variables'[t] = variables[t]
    BY <1>1, <1>2
  <2>3. QED
    BY <2>1, <2>2 DEF Shaped, NamesUnique
<1>10. Declared'
  <2>1. ASSUME NEW s \in Scopes', NEW i \in DOMAIN variables'[s]
        PROVE  owner[variables'[s][i]] \in Chain(s)'
    <3>1. s \in Scopes /\ variables'[s] = variables[s]
      BY <1>1, <1>2
    <3>2. QED
      BY <1>3, <3>1 DEF Shaped, Declared
  <2>2. ASSUME NEW v \in Variables, owner[v] # NoScope
        PROVE  \E i \in DOMAIN variables'[owner[v]] : variables'[owner[v]][i] = v
    <3>1. owner[v] \in Scopes
      BY <2>2 DEF Shaped
    <3>2. variables'[owner[v]] = variables[owner[v]]
      BY <1>2, <3>1
    <3>3. QED
      BY <2>2, <3>2 DEF Shaped, Declared
  <2>3. \A i \in 1 .. numParams : owner[variables'[1][i]] = 1
    BY <1>1, <1>2 DEF Shaped, Declared
  <2>4. QED
    BY <1>4, <2>1, <2>2, <2>3 DEF Declared
<1>11. QED
  BY <1>1, <1>4, <1>5, <1>6, <1>7, <1>8, <1>9, <1>10 DEF Shaped, z

(* function_allocate_variables lays the frame out.                         *)
LEMMA AllocateLaysOut ==
  ASSUME Shaped, Typed, Allocate
  PROVE  IInv'
<1>1. UNCHANGED <<parent, variables, name, owner, numParams>>
  BY DEF Allocate
<1>2. /\ Scopes' = Scopes /\ ChildFrameIndex' = ChildFrameIndex /\ FrameSize' = FrameSize
      /\ \A s : Chain(s)' = Chain(s)
      /\ \A v : FrameIndex(v)' = FrameIndex(v)
  BY <1>1 DEF Scopes, Chain, ChildFrameIndex, LocalCounts, LocalsBefore, IsLocal, FrameSize,
              FrameIndex, IsParam, PlaceIn
<1>3. Shaped'
  BY <1>1, <1>2 DEF Shaped, NamesUnique, Declared
<1>4. /\ index' = [v \in Variables |-> IF owner[v] = NoScope THEN index[v] ELSE FrameIndex(v)]
      /\ numStackLocals' = FrameSize /\ fresh' = TRUE
  BY DEF Allocate, FrameSize
<1>5. LaidOut'
  BY <1>1, <1>2, <1>4 DEF LaidOut, IsLaidOut
<1>6. index' \in [Variables -> Slots \cup {-1}]
  <2>1. ASSUME NEW v \in Variables
        PROVE  (IF owner[v] = NoScope THEN index[v] ELSE FrameIndex(v)) \in Slots \cup {-1}
    BY IndexInSlots DEF Typed
  <2>2. QED
    BY <1>4, <2>1
<1>7. FrameSize \in Nat
  <2>1. PICK t \in Scopes :
           /\ ChildFrameIndex[t] = MinFrameIndex([u \in Scopes |-> ChildFrameIndex[u]])
           /\ ChildFrameIndex[t] <= kFirstLocalSlotFromFp
    BY MinFrameIs
  <2>2. ChildFrameIndex[t] \in Int
    <3>1. t \in 0 .. Len(parent)
      BY ScopesAre
    <3>2. QED
      BY <3>1, MinFrameIs
  <2>3. QED
    BY <2>1, <2>2 DEF FrameSize, kFirstLocalSlotFromFp
<1>8. Typed'
  BY <1>4, <1>6, <1>7 DEF Typed, Slots, kFirstLocalSlotFromFp, kParamEndSlotFromFp
<1>9. QED
  BY <1>3, <1>5, <1>8 DEF IInv

LEMMA NextIInv ==
  ASSUME IInv, [Next]_vars
  PROVE  IInv'
<1>1. Shaped /\ LaidOut /\ Typed
  BY DEF IInv
<1>2. ASSUME NEW p \in Scopes, NewScope(p) PROVE IInv'
  <2>1. Shaped'
    BY <1>1, <1>2, NewScopeKeepsShape
  <2>2. LaidOut' /\ Typed'
    BY <1>1, <1>2 DEF NewScope, LaidOut, Typed, Slots
  <2>3. QED
    BY <2>1, <2>2 DEF IInv
<1>3. ASSUME NEW s \in Scopes, NEW v \in Variables, Add(s, v) PROVE IInv'
  <2>1. PICK k \in Nat : Gains(s, k, v)
    BY <1>1, <1>3, AddGains
  <2>2. Shaped'
    BY <1>1, <2>1, GainsKeepShape
  <2>3. LaidOut' /\ Typed'
    BY <1>1, <1>3 DEF Add, LaidOut, Typed, Slots
  <2>4. QED
    BY <2>2, <2>3 DEF IInv
<1>4. ASSUME NEW v \in Variables, NEW i \in 0 .. numParams, InsertParam(i, v) PROVE IInv'
  <2>1. PICK k \in Nat : Gains(1, k, v)
    BY <1>1, <1>4, InsertGains
  <2>2. Shaped'
    BY <1>1, <2>1, GainsKeepShape
  <2>3. LaidOut' /\ Typed'
    BY <1>1, <1>4 DEF InsertParam, LaidOut, Typed, Slots
  <2>4. QED
    BY <2>2, <2>3 DEF IInv
<1>5. CASE Allocate
  BY <1>1, <1>5, AllocateLaysOut
<1>6. CASE UNCHANGED vars
  <2>1. UNCHANGED <<parent, variables, name, owner, index, numParams, numStackLocals, fresh>>
    BY <1>6 DEF vars
  <2>2. /\ Scopes' = Scopes /\ FrameSize' = FrameSize
        /\ \A s : Chain(s)' = Chain(s)
        /\ \A v : FrameIndex(v)' = FrameIndex(v)
    BY <2>1 DEF Scopes, Chain, ChildFrameIndex, LocalCounts, LocalsBefore, IsLocal, FrameSize,
                FrameIndex, IsParam, PlaceIn
  <2>3. Shaped'
    BY <1>1, <2>1, <2>2 DEF Shaped, NamesUnique, Declared
  <2>4. LaidOut'
    BY <1>1, <2>1, <2>2 DEF LaidOut, IsLaidOut
  <2>5. Typed'
    BY <1>1, <2>1 DEF Typed, Slots
  <2>6. QED
    BY <2>3, <2>4, <2>5 DEF IInv
<1>7. QED
  BY <1>2, <1>3, <1>4, <1>5, <1>6 DEF Next

(* The inductive invariant holds of every reachable state.                 *)
LEMMA ReachableIInv == Spec => []IInv
<1>1. Init => IInv
  BY InitIInv
<1>2. IInv /\ [Next]_vars => IInv'
  BY NextIInv
<1>3. QED
  BY <1>1, <1>2, PTL DEF Spec

(* Variables keep their types, a scope never holds a name twice, and no    *)
(* variable that was laid out has the index that means "no slot"           *)
(* (local_var_has_index), however scopes and variables are declared.       *)
THEOREM ScopesCorrect == Spec => []ScopesInv
<1>1. IInv => ScopesInv
  BY InvIsEnough
<1>2. QED
  BY <1>1, ReachableIInv, PTL

(* local_scope_alloc_vars gives two variables visible together, shadowed   *)
(* ones and parameters included, different slots and bits, within the      *)
(* frame, although siblings share their slots.                             *)
THEOREM SlotsAlwaysApart == Spec => []SlotsApart
<1>1. IInv => SlotsApart
  BY InvIsEnough
<1>2. QED
  BY <1>1, ReachableIInv, PTL

(* The frame has no slot that no local uses: the deepest nest of scopes    *)
(* needs as many as function_allocate_variables sets num_stack_locals to.  *)
THEOREM FrameAlwaysTight == Spec => []FrameIsTight
<1>1. IInv => FrameIsTight
  BY InvIsEnough
<1>2. QED
  BY <1>1, ReachableIInv, PTL

-----------------------------------------------------------------------------
(* Resolution.  The scope a name is found in is the last made of those     *)
(* around that have it.                                                    *)
Innermost(s, n, t) ==
  /\ t \in Chain(s) /\ LocalLookup(t, n) # NoVariable
  /\ \A u \in Chain(s) : LocalLookup(u, n) # NoVariable => u <= t

LookupsAre ==
  /\ Scopes \subseteq Nat /\ \A s \in Scopes : Chain(s) \subseteq Scopes
  /\ \A s \in Scopes : \A t, u \in Chain(s) : t < u => t \in Chain(u) \ {u}
  /\ \A s \in Scopes : \A n : Lookup(s, n) # NoVariable =>
       \E t \in Chain(s) : Innermost(s, n, t) /\ Lookup(s, n) = LocalLookup(t, n)
  /\ \A s \in Scopes : \A n : \A t \in Chain(s) :
       Innermost(s, n, t) => Lookup(s, n) = LocalLookup(t, n)

LEMMA ShapedLookups == Shaped => LookupsAre
<1> SUFFICES ASSUME Shaped PROVE LookupsAre
  OBVIOUS
<1>1. Parents(parent) /\ Len(parent) \in Nat /\ Scopes = 1 .. Len(parent)
      /\ \A s \in Scopes : Chain(s) = Up(parent)[s] /\ s \in 0 .. Len(parent)
  BY ScopesAre
<1>2. ASSUME NEW s \in Scopes PROVE Chain(s) \subseteq Scopes
  BY <1>1, ChainIsBefore
<1>3. ASSUME NEW s \in Scopes, NEW t \in Chain(s), NEW u \in Chain(s)
      PROVE  /\ t <= u => t \in Chain(u)
             /\ t \in Chain(u) => t <= u
             /\ t < u => t \in Chain(u) \ {u}
  <2>1. t \in Scopes /\ u \in Scopes /\ t \in Up(parent)[s] /\ u \in Up(parent)[s]
    BY <1>1, <1>2
  <2>2. t <= u => t \in Up(parent)[u]
    BY <1>1, <2>1, ChainIsNested
  <2>3. t \in Up(parent)[u] => t <= u
    BY <1>1, <2>1, ChainIsBefore
  <2>4. Chain(u) = Up(parent)[u]
    BY <1>1, <2>1
  <2>5. t \in Int /\ u \in Int
    BY <1>1, <2>1
  <2>6. QED
    BY <2>2, <2>3, <2>4, <2>5
<1>4. ASSUME NEW s \in Scopes, NEW n, NEW t \in Chain(s), Innermost(s, n, t)
      PROVE  Lookup(s, n) = LocalLookup(t, n)
  <2> DEFINE has == {u \in Chain(s) : LocalLookup(u, n) # NoVariable}
  <2>1. t \in has /\ \A u \in has : u \in Chain(t)
    BY <1>3, <1>4 DEF Innermost
  <2>2. ASSUME NEW x \in has, \A u \in has : u \in Chain(x) PROVE x = t
    <3>1. t <= x /\ x <= t
      BY <1>3, <1>4, <2>1, <2>2 DEF Innermost
    <3>2. t \in Int /\ x \in Int
      BY <1>1, <1>2
    <3>3. QED
      BY <3>1, <3>2
  <2>3. (CHOOSE x \in has : \A u \in has : u \in Chain(x)) = t
    <3> HIDE DEF has
    <3>1. QED
      BY <2>1, <2>2
  <2>4. QED
    BY <2>1, <2>3 DEF Lookup
<1>5. ASSUME NEW s \in Scopes, NEW n, Lookup(s, n) # NoVariable
      PROVE  \E t \in Chain(s) : Innermost(s, n, t) /\ Lookup(s, n) = LocalLookup(t, n)
  <2> DEFINE has == {u \in Chain(s) : LocalLookup(u, n) # NoVariable}
             N == Len(parent)
             S == {k \in 0 .. N : N - k \in has}
  <2>1. has # {}
    BY <1>5 DEF Lookup
  <2>2. PICK u \in has : TRUE
    BY <2>1
  <2>3. N \in Nat /\ \A x \in has : x \in 1 .. N
    BY <1>1, <1>2
  <2> HIDE DEF has, N
  <2>4. N - u \in S /\ S \in SUBSET Nat
    <3>1. u \in 1 .. N
      BY <2>2, <2>3
    <3>2. N - u \in 0 .. N /\ N - (N - u) = u
      BY <2>3, <3>1
    <3>3. QED
      BY <2>2, <2>3, <3>2
  <2>5. PICK k \in S : \A j \in S : k <= j
    <3> HIDE DEF S
    <3>1. QED
      BY <2>4, LeastOf
  <2> DEFINE t == N - k
  <2>6. t \in has /\ k \in 0 .. N
    BY <2>5
  <2>7. ASSUME NEW x \in has PROVE x <= t
    <3>1. x \in 1 .. N
      BY <2>3
    <3>2. N - x \in 0 .. N /\ N - (N - x) = x
      BY <2>3, <3>1
    <3>3. N - x \in S
      BY <3>2
    <3>4. k <= N - x
      BY <2>5, <3>3
    <3>5. QED
      BY <2>3, <2>6, <3>1, <3>4
  <2> HIDE DEF t
  <2>8. t \in Chain(s) /\ Innermost(s, n, t)
    BY <2>6, <2>7 DEF has, Innermost
  <2>9. QED
    BY <1>4, <2>8
<1>6. Scopes \subseteq Nat
  BY <1>1
<1>7. \A s \in Scopes : \A t, u \in Chain(s) : t < u => t \in Chain(u) \ {u}
  BY <1>3
<1>8. QED
  BY <1>2, <1>4, <1>5, <1>6, <1>7 DEF LookupsAre

LexicalStep ==
  \A s \in Scopes, n \in Names :
    LET before == Lookup(s, n) IN
    before # NoVariable /\ Lookup(s, n)' # before =>
      \E t \in Chain(s) : /\ InScope(t)' # InScope(t)
                          /\ \A u \in Chain(s) : before \in InScope(u) => u \in Chain(t) \ {t}

LEMMA ChainsAreNumbers ==
  ASSUME LookupsAre
  PROVE  Scopes \subseteq Nat /\ \A s \in Scopes : Chain(s) \subseteq Scopes
<1>1. QED
  BY DEF LookupsAre

(* Where no scope around another gains the name, it means what it meant.   *)
LEMMA LookupStays ==
  ASSUME LookupsAre, LookupsAre', NEW s \in Scopes, s \in Scopes', NEW n,
         Chain(s)' = Chain(s), NEW t \in Chain(s), Innermost(s, n, t),
         LocalLookup(t, n)' = LocalLookup(t, n),
         \A u \in Chain(s) : t < u => LocalLookup(u, n)' = LocalLookup(u, n)
  PROVE  Lookup(s, n)' = Lookup(s, n)
<1>1. Lookup(s, n) = LocalLookup(t, n)
  BY DEF LookupsAre
<1>2. Innermost(s, n, t)'
  <2>1. (t \in Chain(s))' /\ (LocalLookup(t, n) # NoVariable)'
    BY DEF Innermost
  <2>2. ASSUME NEW u \in Chain(s), LocalLookup(u, n)' # NoVariable PROVE u <= t
    <3>1. t \in Int /\ u \in Int
      <4>1. Scopes \subseteq Nat /\ Chain(s) \subseteq Scopes
        BY ChainsAreNumbers
      <4>2. t \in Scopes /\ u \in Scopes
        BY <4>1
      <4>3. t \in Nat /\ u \in Nat
        BY <4>1, <4>2
      <4>4. QED
        BY <4>3
    <3>2. SUFFICES ASSUME t < u PROVE FALSE
      BY <3>1
    <3>3. LocalLookup(u, n) # NoVariable
      BY <2>2, <3>2
    <3>4. u <= t
      BY <3>3 DEF Innermost
    <3>5. QED
      BY <3>1, <3>2, <3>4
  <2>3. QED
    BY <2>1, <2>2 DEF Innermost
<1>3. (Lookup(s, n) = LocalLookup(t, n))'
  BY <1>2 DEF LookupsAre
<1>4. QED
  BY <1>1, <1>3

(* A declaration in scope s changes what its name means in scopes in s.    *)
LEMMA GainIsLexical ==
  ASSUME Shaped, Shaped', LookupsAre, LookupsAre', NEW z, NEW k \in Nat, NEW v, Gains(z, k, v)
  PROVE  LexicalStep
<1>1. /\ z \in Scopes /\ v \in Variables /\ Scopes' = Scopes
      /\ (\A t : Chain(t)' = Chain(t)) /\ name' = name
  BY GainsKeep DEF Gains
<1>2. LocalLookup(z, name[v]) = NoVariable
  BY DEF Gains
<1>3. ASSUME NEW t \in Scopes \ {z}, NEW n PROVE LocalLookup(t, n)' = LocalLookup(t, n)
  <2>1. variables'[t] = variables[t]
    BY GainsKeep
  <2>2. InScope(t)' = InScope(t)
    BY <2>1 DEF InScope
  <2>3. QED
    BY <1>1, <2>2 DEF LocalLookup
<1>4. v \in InScope(z)' /\ v \notin InScope(z)
  <2>1. k \in DOMAIN variables'[z] /\ variables'[z][k] = v
    BY GainsKeep
  <2>2. v \in InScope(z)'
    BY <2>1 DEF InScope
  <2>3. v \notin InScope(z)
    BY <1>1, <1>2, LocalLookupIs DEF InScope
  <2>4. QED
    BY <2>2, <2>3
<1>5. ASSUME NEW n, n # name[v] PROVE LocalLookup(z, n)' = LocalLookup(z, n)
  <2> DEFINE D == DOMAIN variables[z]
             E == DOMAIN variables'[z]
  <2>a. \A i \in E \ {k} : /\ OldPlace(k, i) \in D
                           /\ variables'[z][i] = variables[z][OldPlace(k, i)]
    BY GainsKeep
  <2>b. \A i \in D : variables[z][i] = variables'[z][NewPlace(k, i)]
    BY GainsKeep
  <2>c. k \in E /\ variables'[z][k] = v
    BY GainsKeep
  <2>1. ASSUME NEW w PROVE (w \in InScope(z)' /\ w # v) <=> w \in InScope(z)
    <3>1. ASSUME w \in InScope(z)', w # v PROVE w \in InScope(z)
      <4>1. PICK i \in E : variables'[z][i] = w
        BY <3>1 DEF InScope
      <4> HIDE DEF D, E
      <4>2. i # k
        BY <2>c, <3>1, <4>1
      <4>3. OldPlace(k, i) \in D /\ variables'[z][i] = variables[z][OldPlace(k, i)]
        BY <2>a, <4>2
      <4>4. QED
        BY <4>1, <4>3 DEF InScope, D
    <3>2. ASSUME w \in InScope(z) PROVE w \in InScope(z)' /\ w # v
      <4>1. PICK i \in DOMAIN variables[z] : variables[z][i] = w
        BY <3>2 DEF InScope
      <4>2. w = variables'[z][NewPlace(k, i)]
        BY <2>b, <4>1
      <4>3. NewPlace(k, i) \in DOMAIN variables'[z]
        <5>1. /\ DOMAIN variables'[z] = 1 .. Len(variables[z]) + 1
              /\ DOMAIN variables[z] = 1 .. Len(variables[z]) /\ Len(variables[z]) \in Nat
          BY <1>1, GainsKeep, ScopesAre
        <5>2. QED
          BY <4>1, <5>1 DEF NewPlace
      <4>4. QED
        BY <1>4, <3>2, <4>2, <4>3 DEF InScope
    <3>3. QED
      BY <3>1, <3>2
  <2>2. {w \in InScope(z)' : name'[w] = n} = {w \in InScope(z) : name[w] = n}
    <3>1. ASSUME NEW w PROVE (w \in InScope(z)' /\ name'[w] = n) <=> (w \in InScope(z) /\ name[w] = n)
      BY <1>1, <1>5, <2>1
    <3>2. QED
      BY <3>1
  <2>3. /\ LocalLookup(z, n)' = LET found == {w \in InScope(z)' : name'[w] = n}
                                IN  IF found = {} THEN NoVariable ELSE CHOOSE w \in found : TRUE
        /\ LocalLookup(z, n) = LET found == {w \in InScope(z) : name[w] = n}
                               IN  IF found = {} THEN NoVariable ELSE CHOOSE w \in found : TRUE
    BY DEF LocalLookup
  <2>4. QED
    BY <2>2, <2>3
<1>6. SUFFICES ASSUME NEW s \in Scopes, NEW n \in Names,
                      Lookup(s, n) # NoVariable, Lookup(s, n)' # Lookup(s, n)
               PROVE  \E t \in Chain(s) :
                        /\ InScope(t)' # InScope(t)
                        /\ \A u \in Chain(s) : Lookup(s, n) \in InScope(u) => u \in Chain(t) \ {t}
  BY DEF LexicalStep
<1>7. PICK t \in Chain(s) : Innermost(s, n, t) /\ Lookup(s, n) = LocalLookup(t, n)
  BY <1>6 DEF LookupsAre
<1>8. Chain(s) \subseteq Scopes /\ t \in Scopes /\ s \in Scopes' /\ Chain(s)' = Chain(s)
  BY <1>1 DEF LookupsAre
<1>9. n = name[v]
  <2>1. SUFFICES ASSUME n # name[v] PROVE FALSE
    OBVIOUS
  <2>2. \A u \in Chain(s) : LocalLookup(u, n)' = LocalLookup(u, n)
    BY <1>3, <1>5, <1>8, <2>1
  <2>3. QED
    BY <1>6, <1>7, <1>8, <2>2, LookupStays
<1>10. t # z
  BY <1>2, <1>6, <1>7, <1>9
<1>11. z \in Chain(s) /\ t < z
  <2>1. SUFFICES ASSUME ~(z \in Chain(s) /\ t < z) PROVE FALSE
    OBVIOUS
  <2>2. LocalLookup(t, n)' = LocalLookup(t, n)
    BY <1>3, <1>8, <1>10
  <2>3. \A u \in Chain(s) : t < u => LocalLookup(u, n)' = LocalLookup(u, n)
    BY <1>3, <1>8, <2>1
  <2>4. QED
    BY <1>6, <1>7, <1>8, <2>2, <2>3, LookupStays
<1>12. InScope(z)' # InScope(z)
  BY <1>4
<1>13. ASSUME NEW u \in Chain(s), Lookup(s, n) \in InScope(u) PROVE u \in Chain(z) \ {z}
  <2>1. u \in Scopes /\ name[Lookup(s, n)] = n
    BY <1>6, <1>7, <1>8, LocalLookupIs
  <2>2. LocalLookup(u, n) # NoVariable
    BY <1>13, <2>1, LocalLookupIs DEF InScope
  <2>3. u <= t
    BY <1>7, <2>2 DEF Innermost
  <2>4. u \in Nat /\ t \in Nat /\ z \in Nat
    BY <1>1, <1>8, <2>1 DEF LookupsAre
  <2>5. u < z
    BY <1>11, <2>3, <2>4
  <2>6. QED
    BY <1>11, <2>5 DEF LookupsAre
<1>14. QED
  BY <1>11, <1>12, <1>13

LEMMA NewScopeIsLexical ==
  ASSUME Shaped, LookupsAre, LookupsAre', NEW p \in Scopes, NewScope(p)
  PROVE  LexicalStep
<1>1. /\ Scopes \subseteq Scopes' /\ name' = name
      /\ \A s \in Scopes : variables'[s] = variables[s]
      /\ \A s \in Scopes : Chain(s)' = Chain(s)
  BY NewScopeKeeps DEF NewScope
<1>2. ASSUME NEW t \in Scopes, NEW n PROVE LocalLookup(t, n)' = LocalLookup(t, n)
  <2>1. variables'[t] = variables[t]
    BY <1>1
  <2>2. InScope(t)' = InScope(t)
    BY <2>1 DEF InScope
  <2>3. QED
    BY <1>1, <2>2 DEF LocalLookup
<1>3. SUFFICES ASSUME NEW s \in Scopes, NEW n \in Names,
                      Lookup(s, n) # NoVariable, Lookup(s, n)' # Lookup(s, n)
               PROVE  FALSE
  BY DEF LexicalStep
<1>4. PICK t \in Chain(s) : Innermost(s, n, t)
  BY <1>3 DEF LookupsAre
<1>5. Chain(s) \subseteq Scopes /\ t \in Scopes /\ s \in Scopes' /\ Chain(s)' = Chain(s)
  BY <1>1 DEF LookupsAre
<1>6. /\ LocalLookup(t, n)' = LocalLookup(t, n)
      /\ \A u \in Chain(s) : t < u => LocalLookup(u, n)' = LocalLookup(u, n)
  BY <1>2, <1>5
<1>7. QED
  BY <1>3, <1>4, <1>5, <1>6, LookupStays

(* Declaring a name never changes what it means outside of the scope it is *)
(* declared in, nor where an inner scope declares it too                   *)
(* (local_scope_lookup), nor do new scopes and layouts of the frame.       *)
THEOREM NamesStayLexical == Spec => ResolutionIsLexical
<1>1. IInv => Shaped
  BY DEF IInv
<1>2. Shaped => LookupsAre
  BY ShapedLookups
<1>3. Shaped /\ Shaped' /\ LookupsAre /\ LookupsAre' /\ [Next]_vars => [LexicalStep]_vars
  <2>1. SUFFICES ASSUME Shaped, Shaped', LookupsAre, LookupsAre', Next
                 PROVE  LexicalStep \/ UNCHANGED vars
    OBVIOUS
  <2>2. ASSUME NEW p \in Scopes, NewScope(p) PROVE LexicalStep
    BY <2>1, <2>2, NewScopeIsLexical
  <2>3. ASSUME NEW s \in Scopes, NEW v \in Variables, Add(s, v) PROVE LexicalStep
    <3>1. PICK k \in Nat : Gains(s, k, v)
      BY <2>1, <2>3, AddGains
    <3>2. QED
      BY <2>1, <3>1, GainIsLexical
  <2>4. ASSUME NEW v \in Variables, NEW i \in 0 .. numParams, InsertParam(i, v)
        PROVE  LexicalStep
    <3>1. PICK k \in Nat : Gains(1, k, v)
      BY <2>1, <2>4, InsertGains
    <3>2. QED
      BY <2>1, <3>1, GainIsLexical
  <2>5. CASE Allocate
    <3>1. UNCHANGED <<parent, variables, name>>
      BY <2>5 DEF Allocate
    <3>2. \A s, n : Lookup(s, n)' = Lookup(s, n)
      BY <3>1 DEF Lookup, LocalLookup, Chain, InScope
    <3>3. QED
      BY <3>2 DEF LexicalStep
  <2>6. QED
    BY <2>1, <2>2, <2>3, <2>4, <2>5 DEF Next
<1>4. [LexicalStep]_vars =>
        [\A s \in Scopes, n \in Names :
           LET before == Lookup(s, n) IN
           before # NoVariable /\ Lookup(s, n)' # before =>
             \E t \in Chain(s) : /\ InScope(t)' # InScope(t)
                                 /\ \A u \in Chain(s) : before \in InScope(u) =>
                                      u \in Chain(t) \ {t}]_vars
  BY DEF LexicalStep
<1>5. QED
  BY <1>1, <1>2, <1>3, <1>4, ReachableIInv, PTL DEF Spec, ResolutionIsLexical
=============================================================================
