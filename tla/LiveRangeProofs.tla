-------------------------- MODULE LiveRangeProofs --------------------------
(***************************************************************************)
(* For any number of blocks of any length, any number of phis, of uses and *)
(* of splits: the range of a register and its siblings cover exactly what  *)
(* the builder asked for, every use stays with the sibling that covers it, *)
(* the fingers answer exactly, and building and splitting implement the    *)
(* sharing out of positions of LiveSplit.  First how the backward walk     *)
(* builds the range of a register (add_interval, define and add_use, and   *)
(* the steps of the walk, each of which keeps the inductive invariant      *)
(* RangeInv), then what a split does to the lists of a range and to its    *)
(* fingers (First, the pointers that fingers are, and the two halves that  *)
(* live_range_split leaves), and last the chain of siblings.               *)
(***************************************************************************)
EXTENDS LiveRange, TLAPS, FiniteSetTheorems, SequenceTheorems

USE DEF Null

-----------------------------------------------------------------------------
(* Positions of blocks.                                                    *)
LEMMA BlockStarts ==
  ASSUME NEW b \in Nat
  PROVE  /\ BlockStart(b) \in Nat /\ BlockStart(b) % 2 = 0
         /\ BlockEnd(b) \in Nat /\ BlockEnd(b) % 2 = 0
         /\ BlockStart(b) + 2 <= BlockEnd(b)
         /\ b > 0 => BlockStart(b) + 6 <= BlockEnd(b) /\ 2 <= BlockStart(b)
<1>1. PICK h \in Nat : BlockLength = 2 * h /\ h > 2
  BY SizeAssumption
<1>2. ASSUME NEW c \in Nat, c > 0
      PROVE  /\ BlockStart(c) \in Nat /\ BlockStart(c) % 2 = 0 /\ 2 <= BlockStart(c)
             /\ BlockStart(c + 1) = BlockStart(c) + BlockLength
  <2> DEFINE n == (c - 1) * h
  <2>1. n \in Nat
    BY <1>2
  <2>2. (c - 1) * (2 * h) = 2 * n
    BY <1>2
  <2>3. BlockStart(c) = 2 + 2 * n
    BY <1>1, <1>2, <2>2 DEF BlockStart
  <2>4. ((c + 1) - 1) * (2 * h) = 2 * n + 2 * h
    BY <1>2
  <2>5. BlockStart(c + 1) = 2 + 2 * n + 2 * h
    BY <1>1, <1>2, <2>4 DEF BlockStart
  <2> HIDE DEF n
  <2>6. QED
    BY <1>1, <2>1, <2>3, <2>5
<1>3. CASE b = 0
  <2>1. BlockStart(0) = 0
    BY DEF BlockStart
  <2>2. BlockStart(0 + 1) = 2
    BY <1>1 DEF BlockStart
  <2>3. QED
    BY <1>3, <2>1, <2>2 DEF BlockEnd
<1>4. CASE b > 0
  <2>1. BlockStart(b) \in Nat /\ BlockStart(b) % 2 = 0 /\ 2 <= BlockStart(b)
    BY <1>2, <1>4
  <2>2. BlockStart(b + 1) = BlockStart(b) + BlockLength
    BY <1>2, <1>4
  <2>3. BlockStart(b + 1) \in Nat /\ BlockStart(b + 1) % 2 = 0
    BY <1>2, <1>4
  <2>4. QED
    BY <1>1, <2>1, <2>2, <2>3 DEF BlockEnd
<1>5. QED
  BY <1>3, <1>4

LEMMA BlocksInLimit ==
  ASSUME NEW b \in 0 .. NBlocks - 1
  PROVE  /\ Limit \in Nat /\ BlockEnd(b) <= Limit
         /\ b > 0 => BlockEnd(b - 1) = BlockStart(b)
<1>1. Limit \in Nat
  BY BlockStarts, SizeAssumption DEF Limit
<1>2. BlockEnd(b) <= Limit
  <2> DEFINE c == b + 1
             n == (NBlocks - c) * BlockLength
  <2>1. c \in Nat /\ 1 <= c /\ c <= NBlocks
    BY SizeAssumption
  <2>2. n \in Nat
    BY <2>1, SizeAssumption
  <2>3. (NBlocks - 1) * BlockLength = n + (c - 1) * BlockLength
    BY SizeAssumption
  <2>4. (c - 1) * BlockLength \in Nat
    BY <2>1, SizeAssumption
  <2>5. BlockStart(c) = 2 + (c - 1) * BlockLength /\ BlockStart(NBlocks) = 2 + (NBlocks - 1) * BlockLength
    BY <2>1, SizeAssumption DEF BlockStart
  <2> DEFINE m == (c - 1) * BlockLength
  <2>6. BlockStart(c) = 2 + m /\ BlockStart(NBlocks) = 2 + (n + m) /\ m \in Nat
    BY <2>3, <2>4, <2>5
  <2> HIDE DEF n, m
  <2>7. BlockStart(c) <= BlockStart(NBlocks)
    BY <2>2, <2>6
  <2>8. QED
    BY <2>7 DEF BlockEnd, Limit
<1>3. b > 0 => BlockEnd(b - 1) = BlockStart(b)
  BY DEF BlockEnd
<1>4. QED
  BY <1>1, <1>2, <1>3


-----------------------------------------------------------------------------
(* Lists of intervals.                                                     *)
LEMMA IntervalAt ==
  ASSUME NEW l \in Seq(IntervalType), NEW i \in 1 .. Len(l)
  PROVE  /\ l[i] \in IntervalType
         /\ l[i].start \in Int /\ 0 <= l[i].start /\ l[i].start <= Limit - 1
         /\ l[i].end \in Int /\ 1 <= l[i].end /\ l[i].end <= Limit
         /\ l[i].node \in Nat
<1>1. l[i] \in IntervalType
  OBVIOUS
<1>2. l[i].start \in Positions /\ l[i].end \in 1 .. Limit /\ l[i].node \in Nat
  BY <1>1 DEF IntervalType
<1>3. Limit \in Nat
  BY BlockStarts, SizeAssumption DEF Limit
<1>4. QED
  BY <1>1, <1>2, <1>3 DEF Positions

LEMMA NewEnds ==
  ASSUME NEW iv \in IntervalType
  PROVE  /\ \A e \in 1 .. Limit : LET n == [iv EXCEPT !.end = e]
                                  IN  n \in IntervalType /\ n.end = e /\ n.start = iv.start /\ n.node = iv.node
         /\ \A p \in Positions : LET n == [iv EXCEPT !.start = p]
                                 IN  n \in IntervalType /\ n.start = p /\ n.end = iv.end /\ n.node = iv.node
  BY DEF IntervalType

LEMMA NewHead ==
  ASSUME NEW S, NEW l \in Seq(S), l # <<>>, NEW x \in S
  PROVE  LET m == <<x>> \o Tail(l)
         IN  /\ m \in Seq(S) /\ m # <<>> /\ Len(m) = Len(l) /\ m[1] = x
             /\ \A i \in 2 .. Len(l) : m[i] = l[i]
  OBVIOUS

LEMMA Prepended ==
  ASSUME NEW S, NEW l \in Seq(S), NEW x \in S
  PROVE  LET m == <<x>> \o l
         IN  /\ m \in Seq(S) /\ m # <<>> /\ Len(m) = Len(l) + 1 /\ m[1] = x
             /\ \A i \in 2 .. Len(m) : m[i] = l[i - 1]
             /\ \A i \in 1 .. Len(l) : l[i] = m[i + 1]
  OBVIOUS

(* Where the intervals of a list are.                                      *)
Holds(l, p) == \E i \in 1 .. Len(l) : l[i].start <= p /\ p < l[i].end

LEMMA CoveredHolds ==
  ASSUME NEW r, r.intervals \in Seq(IntervalType)
  PROVE  /\ \A p \in Int : p \in Covered(r) <=> Holds(r.intervals, p)
         /\ Covered(r) \subseteq Positions
<1>1. \A i \in 1 .. Len(r.intervals) :
         /\ r.intervals[i].start \in Int /\ r.intervals[i].end \in Int
         /\ r.intervals[i].start >= 0 /\ r.intervals[i].end <= Limit
  BY IntervalAt
<1>2. ASSUME NEW p \in Int PROVE p \in Covered(r) <=> Holds(r.intervals, p)
  BY <1>1 DEF Covered, Holds
<1>3. Limit \in Nat
  BY BlockStarts, SizeAssumption DEF Limit
<1>4. ASSUME NEW p \in Covered(r) PROVE p \in Positions
  BY <1>1, <1>3 DEF Covered, Positions
<1>5. QED
  BY <1>2, <1>4

-----------------------------------------------------------------------------
(* Building.  A list as the walk leaves it in front of a block that ends   *)
(* at end, or inside that block, which starts at s.                        *)
Built(r, s, end) ==
  /\ r \in RangeType
  /\ Ascending(r.intervals)
  /\ r.last = IF r.intervals = <<>> THEN Null ELSE r.intervals[Len(r.intervals)].node
  /\ \A i \in 1 .. Len(r.intervals) :
       /\ r.intervals[i].node = Len(r.intervals) + 1 - i
       /\ r.intervals[i].start >= end \/ (i = 1 /\ r.intervals[i].start = s)

(* The two ways a list gets longer at its front.                           *)
AddsTo(n, r, s, e, end) ==
  /\ Built(n, s, end)
  /\ n.intervals # <<>> /\ n.intervals[1].start = s /\ n.intervals[1].end >= e
  /\ n.uses = r.uses /\ n.pending = r.pending /\ n.register = r.register
  /\ \A p \in Int : Holds(n.intervals, p) <=> Holds(r.intervals, p) \/ (s <= p /\ p < e)
  /\ \A p \in Int : Reaches(r.intervals, p) => Reaches(n.intervals, p)

LEMMA HeadGrows ==
  ASSUME NEW r, NEW s \in Nat, NEW e \in Nat, NEW end \in Nat,
         Built(r, s, end), s < e, e <= end, end <= Limit,
         r.intervals # <<>>, s <= r.intervals[1].start,
         NEW y \in 1 .. Limit, NEW x \in IntervalType,
         x.start = s, x.node = r.intervals[1].node, x.end = y,
         y >= e, y >= r.intervals[1].end, y <= r.intervals[1].end \/ y <= end,
         \A p \in Int : s <= p /\ p < y => \/ r.intervals[1].start <= p /\ p < r.intervals[1].end
                                           \/ p < e
  PROVE  AddsTo([r EXCEPT !.intervals = <<x>> \o Tail(r.intervals)], r, s, e, end)
<1> DEFINE l == r.intervals
           n == [r EXCEPT !.intervals = <<x>> \o Tail(l)]
           m == n.intervals
<1>1. /\ r \in RangeType /\ l \in Seq(IntervalType) /\ Limit \in Nat
  BY BlockStarts, SizeAssumption DEF Built, RangeType, Limit
<1>2. \A i \in 1 .. Len(l) : /\ l[i].start \in Int /\ l[i].end \in Int
                             /\ l[i].start < l[i].end /\ l[i].end <= Limit
                             /\ l[i].start >= end \/ (i = 1 /\ l[i].start = s)
  BY <1>1, IntervalAt DEF Built, Ascending
<1>3. \A i, j \in 1 .. Len(l) : i < j => l[i].end <= l[j].start
  BY DEF Built, Ascending
<1>4. 1 \in 1 .. Len(l) /\ l[1] \in IntervalType
  BY <1>1
<1>5. m = <<x>> \o Tail(l) /\ n.uses = r.uses /\ n.pending = r.pending /\ n.register = r.register
      /\ n.last = r.last
  BY <1>1 DEF RangeType
<1>6. /\ m \in Seq(IntervalType) /\ m # <<>> /\ Len(m) = Len(l) /\ m[1] = x
      /\ \A i \in 2 .. Len(l) : m[i] = l[i]
  BY <1>1, <1>5, NewHead, SMTT(30)
<1>7. n \in RangeType
  BY <1>1, <1>5, <1>6 DEF RangeType
<1> HIDE DEF n
<1>8. \A i \in 1 .. Len(m) : i = 1 \/ i \in 2 .. Len(l)
  BY <1>6, <1>1
<1>9. Built(n, s, end)
  <2>1. \A i \in 1 .. Len(m) : /\ m[i].start < m[i].end /\ m[i].node = Len(m) + 1 - i
                               /\ m[i].start >= end \/ (i = 1 /\ m[i].start = s)
    <3> SUFFICES ASSUME NEW i \in 1 .. Len(m)
                 PROVE  /\ m[i].start < m[i].end /\ m[i].node = Len(m) + 1 - i
                        /\ m[i].start >= end \/ (i = 1 /\ m[i].start = s)
      OBVIOUS
    <3>1. i \in 1 .. Len(l) /\ l[i].node = Len(l) + 1 - i
      BY <1>6 DEF Built
    <3>2. CASE i = 1
      BY <3>1, <3>2, <1>6
    <3>3. CASE i \in 2 .. Len(l)
      BY <3>1, <3>3, <1>2, <1>6
    <3>4. QED
      BY <1>8, <3>2, <3>3
  <2>2. \A i, j \in 1 .. Len(m) : i < j => m[i].end <= m[j].start
    <3> SUFFICES ASSUME NEW i \in 1 .. Len(m), NEW j \in 1 .. Len(m), i < j
                 PROVE  m[i].end <= m[j].start
      OBVIOUS
    <3>1. j \in 2 .. Len(l) /\ m[j] = l[j] /\ j \in 1 .. Len(l) /\ i \in 1 .. Len(l)
      BY <1>1, <1>6
    <3>2. l[j].start >= end /\ l[i].end <= l[j].start /\ l[1].end <= l[j].start
      BY <1>2, <1>3, <1>4, <3>1
    <3>3. CASE i = 1
      BY <3>1, <3>2, <3>3, <1>2, <1>4, <1>6, SMTT(30)
    <3>4. CASE i \in 2 .. Len(l)
      BY <3>1, <3>2, <3>4, <1>6
    <3>5. QED
      BY <1>8, <3>3, <3>4
  <2>3. n.last = m[Len(m)].node
    <3>1. n.last = l[Len(l)].node
      BY <1>5 DEF Built
    <3>2. Len(m) \in 1 .. Len(m)
      BY <1>1, <1>6
    <3>3. QED
      BY <3>1, <3>2, <1>6, <1>8
  <2>4. QED
    BY <1>6, <1>7, <2>1, <2>2, <2>3 DEF Built, Ascending
<1>10. ASSUME NEW p \in Int
       PROVE  /\ Holds(m, p) <=> Holds(l, p) \/ (s <= p /\ p < e)
              /\ Reaches(l, p) => Reaches(m, p)
  <2>1. m[1].start = s /\ m[1].end = y /\ 1 \in 1 .. Len(m)
    BY <1>4, <1>6
  <2>2. ASSUME Holds(m, p) PROVE Holds(l, p) \/ (s <= p /\ p < e)
    <3>1. PICK i \in 1 .. Len(m) : m[i].start <= p /\ p < m[i].end
      BY <2>2 DEF Holds
    <3>2. CASE i = 1
      BY <3>1, <3>2, <1>4, <2>1, <1>2 DEF Holds
    <3>3. CASE i \in 2 .. Len(l)
      BY <3>1, <3>3, <1>6 DEF Holds
    <3>4. QED
      BY <1>8, <3>2, <3>3
  <2>3. ASSUME Holds(l, p) PROVE Holds(m, p)
    <3>1. PICK i \in 1 .. Len(l) : l[i].start <= p /\ p < l[i].end
      BY <2>3 DEF Holds
    <3>2. CASE i = 1
      BY <3>1, <3>2, <1>4, <2>1, <1>2, <1>1, SMTT(30) DEF Holds
    <3>3. CASE i \in 2 .. Len(l)
      BY <3>1, <3>3, <1>6 DEF Holds
    <3>4. QED
      BY <1>6, <1>8, <3>2, <3>3
  <2>4. ASSUME s <= p, p < e PROVE Holds(m, p)
    BY <2>1, <2>4, <1>1 DEF Holds
  <2>5. ASSUME Reaches(l, p) PROVE Reaches(m, p)
    <3>1. PICK i \in 1 .. Len(l) : l[i].start <= p /\ p <= l[i].end
      BY <2>5 DEF Reaches
    <3>2. CASE i = 1
      BY <3>1, <3>2, <1>4, <2>1, <1>2, <1>1 DEF Reaches
    <3>3. CASE i \in 2 .. Len(l)
      BY <3>1, <3>3, <1>6 DEF Reaches
    <3>4. QED
      BY <1>6, <1>8, <3>2, <3>3
  <2>6. QED
    BY <2>2, <2>3, <2>4, <2>5
<1>11. QED
  BY <1>4, <1>5, <1>6, <1>9, <1>10 DEF AddsTo, n

LEMMA FrontGrows ==
  ASSUME NEW r, NEW s \in Nat, NEW e \in Nat, NEW end \in Nat,
         Built(r, s, end), s < e, e <= end, end <= Limit,
         \A i \in 1 .. Len(r.intervals) : r.intervals[i].start >= end,
         NEW x \in IntervalType, NEW last \in Nat,
         x.start = s, x.node = Len(r.intervals) + 1, x.end = e,
         last = IF r.last = Null THEN x.node ELSE r.last
  PROVE  AddsTo([r EXCEPT !.intervals = <<x>> \o @, !.last = last], r, s, e, end)
<1> DEFINE l == r.intervals
           n == [r EXCEPT !.intervals = <<x>> \o l, !.last = last]
           m == n.intervals
<1>1. /\ r \in RangeType /\ l \in Seq(IntervalType) /\ Limit \in Nat
  BY BlockStarts, SizeAssumption DEF Built, RangeType, Limit
<1>2. \A i \in 1 .. Len(l) : /\ l[i].start \in Int /\ l[i].end \in Int /\ l[i].node \in Nat
                             /\ l[i].start < l[i].end /\ l[i].start >= end
                             /\ l[i].node = Len(l) + 1 - i
  BY <1>1, IntervalAt DEF Built, Ascending
<1>3. \A i, j \in 1 .. Len(l) : i < j => l[i].end <= l[j].start
  BY DEF Built, Ascending
<1>4. m = <<x>> \o l /\ n.uses = r.uses /\ n.pending = r.pending /\ n.register = r.register
      /\ n.last = last
  BY <1>1 DEF RangeType
<1>5. /\ m \in Seq(IntervalType) /\ m # <<>> /\ Len(m) = Len(l) + 1 /\ m[1] = x
      /\ \A i \in 2 .. Len(m) : m[i] = l[i - 1]
      /\ \A i \in 1 .. Len(l) : l[i] = m[i + 1]
  BY <1>1, <1>4, Prepended, SMTT(30)
<1>6. n \in RangeType
  BY <1>1, <1>4, <1>5 DEF RangeType
<1> HIDE DEF n
<1>7. \A i \in 1 .. Len(m) : i = 1 \/ (i \in 2 .. Len(m) /\ i - 1 \in 1 .. Len(l))
  BY <1>5, <1>1
<1>8. Built(n, s, end)
  <2>1. \A i \in 1 .. Len(m) : /\ m[i].start < m[i].end /\ m[i].node = Len(m) + 1 - i
                               /\ m[i].start >= end \/ (i = 1 /\ m[i].start = s)
    <3> SUFFICES ASSUME NEW i \in 1 .. Len(m)
                 PROVE  /\ m[i].start < m[i].end /\ m[i].node = Len(m) + 1 - i
                        /\ m[i].start >= end \/ (i = 1 /\ m[i].start = s)
      OBVIOUS
    <3>1. CASE i = 1
      BY <3>1, <1>1, <1>5
    <3>2. CASE i \in 2 .. Len(m) /\ i - 1 \in 1 .. Len(l)
      <4>1. m[i] = l[i - 1] /\ l[i - 1].start < l[i - 1].end /\ l[i - 1].start >= end
            /\ l[i - 1].node = Len(l) + 1 - (i - 1)
        BY <3>2, <1>2, <1>5
      <4>2. Len(m) + 1 - i = Len(l) + 1 - (i - 1)
        BY <1>1, <1>5
      <4>3. QED
        BY <4>1, <4>2
    <3>3. QED
      BY <1>7, <3>1, <3>2
  <2>2. ASSUME NEW i \in 1 .. Len(m), NEW j \in 1 .. Len(m), i < j
        PROVE  m[i].end <= m[j].start
    <3>1. j \in 2 .. Len(m) /\ m[j] = l[j - 1] /\ j - 1 \in 1 .. Len(l)
      BY <2>2, <1>1, <1>5
    <3>2. CASE i = 1
      <4>1. l[j - 1].start >= end /\ l[j - 1].start \in Int
        BY <3>1, <1>2
      <4>2. m[i].end = e
        BY <3>2, <1>5
      <4>3. QED
        BY <3>1, <4>1, <4>2
    <3>3. CASE i \in 2 .. Len(m) /\ i - 1 \in 1 .. Len(l)
      <4>1. m[i] = l[i - 1]
        BY <3>3, <1>5
      <4>2. l[i - 1].end <= l[j - 1].start
        BY <2>2, <3>1, <3>3, <1>3, SMTT(30)
      <4>3. QED
        BY <3>1, <4>1, <4>2
    <3>4. QED
      BY <1>7, <3>2, <3>3
  <2>3. n.last = m[Len(m)].node
    <3>1. CASE l = <<>>
      <4>1. r.last = Null
        BY <3>1 DEF Built
      <4>2. Len(m) = 1 /\ m[Len(m)] = x
        BY <3>1, <1>5
      <4>3. last = x.node
        BY <4>1
      <4>4. QED
        BY <4>2, <4>3, <1>4
    <3>2. CASE l # <<>>
      <4>1. Len(l) \in 1 .. Len(l) /\ r.last = l[Len(l)].node
        BY <3>2, <1>1 DEF Built
      <4>2. r.last = 1
        BY <4>1, <1>2, <1>1
      <4>3. m[Len(m)] = l[Len(l)]
        BY <4>1, <1>5, <1>1
      <4>4. last = r.last
        BY <4>2
      <4>5. QED
        BY <4>1, <4>3, <4>4, <1>4
    <3>3. QED
      BY <3>1, <3>2
  <2>4. QED
    BY <1>5, <1>6, <2>1, <2>2, <2>3 DEF Built, Ascending
<1>9. ASSUME NEW p \in Int
      PROVE  /\ Holds(m, p) <=> Holds(l, p) \/ (s <= p /\ p < e)
             /\ Reaches(l, p) => Reaches(m, p)
  <2>1. m[1].start = s /\ m[1].end = e /\ 1 \in 1 .. Len(m)
    BY <1>1, <1>5
  <2>2. \A i \in 1 .. Len(l) : i + 1 \in 1 .. Len(m) /\ m[i + 1] = l[i]
    BY <1>1, <1>5
  <2>3. ASSUME Holds(m, p) PROVE Holds(l, p) \/ (s <= p /\ p < e)
    BY <1>5, <1>7, <2>1, <2>3 DEF Holds
  <2>4. ASSUME Holds(l, p) PROVE Holds(m, p)
    BY <2>2, <2>4 DEF Holds
  <2>5. ASSUME Reaches(l, p) PROVE Reaches(m, p)
    BY <2>2, <2>5 DEF Reaches
  <2>6. ASSUME s <= p, p < e PROVE Holds(m, p)
    BY <2>1, <2>6 DEF Holds
  <2>7. QED
    BY <2>3, <2>4, <2>5, <2>6
<1>10. QED
  BY <1>1, <1>4, <1>5, <1>8, <1>9 DEF AddsTo, n

(* live_range_add_interval adds the positions it is given and no other.    *)
LEMMA AddIntervalAdds ==
  ASSUME NEW r, NEW s \in Nat, NEW e \in Nat, NEW end \in Nat,
         Built(r, s, end), s < e, e <= end, end <= Limit
  PROVE  AddsTo(AddInterval(r, s, e), r, s, e, end)
<1> DEFINE l == r.intervals
           n == AddInterval(r, s, e)
<1>1. /\ r \in RangeType /\ l \in Seq(IntervalType) /\ Limit \in Nat
  BY BlockStarts, SizeAssumption DEF Built, RangeType, Limit
<1>2. \A i \in 1 .. Len(l) : /\ l[i].start \in Int /\ l[i].end \in Int /\ l[i].end >= 1
                             /\ l[i].start < l[i].end /\ l[i].end <= Limit
                             /\ l[i].start >= end \/ (i = 1 /\ l[i].start = s)
  BY <1>1, IntervalAt DEF Built, Ascending
<1>3. l # <<>> => 1 \in 1 .. Len(l) /\ l[1] \in IntervalType
  BY <1>1
<1>4. s \in Positions /\ e \in 1 .. Limit
  BY <1>1 DEF Positions
<1>5. CASE l # <<>> /\ s = l[1].start
  <2> DEFINE y == IF e > l[1].end THEN e ELSE l[1].end
             x == [l[1] EXCEPT !.end = y]
  <2>1. n = [r EXCEPT !.intervals = <<x>> \o Tail(l)]
    BY <1>5, <1>1, <1>2, <1>3 DEF AddInterval
  <2>2. y \in 1 .. Limit /\ y >= e /\ y >= l[1].end /\ (y <= l[1].end \/ y <= end)
    BY <1>1, <1>2, <1>3, <1>5
  <2>3. \A p \in Int : s <= p /\ p < y => (l[1].start <= p /\ p < l[1].end) \/ p < e
    BY <1>2, <1>3, <1>5
  <2> HIDE DEF y
  <2>4. x \in IntervalType /\ x.start = s /\ x.node = l[1].node /\ x.end = y
    BY <1>3, <1>5, <2>2, NewEnds
  <2> HIDE DEF x
  <2>5. s <= l[1].start
    BY <1>5
  <2>6. AddsTo([r EXCEPT !.intervals = <<x>> \o Tail(l)], r, s, e, end)
    BY <1>5, <2>2, <2>3, <2>4, <2>5, HeadGrows
  <2>7. QED
    BY <2>1, <2>6
<1>6. CASE l # <<>> /\ s < l[1].start /\ e = l[1].start
  <2> DEFINE x == [l[1] EXCEPT !.start = s]
             y == l[1].end
  <2>1. n = [r EXCEPT !.intervals = <<x>> \o Tail(l)]
    BY <1>6, <1>1, <1>2, <1>3 DEF AddInterval
  <2>2. y \in 1 .. Limit /\ y >= e /\ y >= l[1].end /\ (y <= l[1].end \/ y <= end)
    BY <1>1, <1>2, <1>3, <1>6
  <2>3. \A p \in Int : s <= p /\ p < y => (l[1].start <= p /\ p < l[1].end) \/ p < e
    BY <1>2, <1>3, <1>6
  <2>4. x \in IntervalType /\ x.start = s /\ x.node = l[1].node /\ x.end = y
    BY <1>3, <1>4, <1>6, NewEnds
  <2> HIDE DEF x, y
  <2>5. s <= l[1].start
    BY <1>2, <1>3, <1>6
  <2>6. AddsTo([r EXCEPT !.intervals = <<x>> \o Tail(l)], r, s, e, end)
    BY <1>6, <2>2, <2>3, <2>4, <2>5, HeadGrows
  <2>7. QED
    BY <2>1, <2>6
<1>7. CASE l = <<>> \/ (s < l[1].start /\ e # l[1].start)
  <2> DEFINE x == [node |-> Len(l) + 1, start |-> s, end |-> e]
             last == IF r.last = Null THEN x.node ELSE r.last
  <2>1. n = [r EXCEPT !.intervals = <<x>> \o @, !.last = last]
    <3>1. CASE l = <<>>
      BY <3>1 DEF AddInterval
    <3>2. CASE l # <<>> /\ s < l[1].start /\ e # l[1].start
      BY <3>2, <1>2, <1>3 DEF AddInterval
    <3>3. QED
      BY <1>7, <3>1, <3>2
  <2>2. \A i \in 1 .. Len(l) : l[i].start >= end
    BY <1>2, <1>3, <1>7
  <2>3. x \in IntervalType /\ x.start = s /\ x.node = Len(l) + 1 /\ x.end = e
    BY <1>1, <1>4 DEF IntervalType
  <2>4. last \in Nat
    BY <1>1, <2>3 DEF RangeType
  <2>5. last = IF r.last = Null THEN x.node ELSE r.last
    OBVIOUS
  <2> HIDE DEF x, last
  <2>6. AddsTo([r EXCEPT !.intervals = <<x>> \o @, !.last = last], r, s, e, end)
    BY <2>2, <2>3, <2>4, <2>5, FrontGrows
  <2>7. QED
    BY <2>1, <2>6
<1>8. l # <<>> => s <= l[1].start
  BY <1>2, <1>3
<1>9. QED
  BY <1>2, <1>3, <1>5, <1>6, <1>7, <1>8


(* Where the value is defined, the range starts there already or is empty. *)
LEMMA DefineAdds ==
  ASSUME NEW r, NEW s \in Nat, NEW end \in Nat,
         Built(r, s, end), s + 1 <= end, end <= Limit,
         r.intervals # <<>> => r.intervals[1].start = s
  PROVE  AddsTo(Define(r, s), r, s, s + 1, end)
<1> DEFINE l == r.intervals
<1>1. CASE l = <<>>
  <2>1. AddsTo(AddInterval(r, s, s + 1), r, s, s + 1, end)
    BY AddIntervalAdds
  <2>2. QED
    BY <1>1, <2>1 DEF Define
<1>2. CASE l # <<>>
  <2>1. r \in RangeType /\ l \in Seq(IntervalType)
    BY DEF Built, RangeType
  <2>2. 1 \in 1 .. Len(l) /\ l[1] \in IntervalType /\ l[1].start = s
    BY <1>2, <2>1
  <2>3. [l[1] EXCEPT !.start = s] = l[1]
    BY <2>2 DEF IntervalType
  <2>4. [l EXCEPT ![1] = [l[1] EXCEPT !.start = s]] = l
    BY <2>1, <2>2, <2>3
  <2>5. Define(r, s) = [r EXCEPT !.intervals = [l EXCEPT ![1] = [l[1] EXCEPT !.start = s]]]
    BY <1>2 DEF Define
  <2>6. Define(r, s) = r
    BY <2>1, <2>4, <2>5 DEF RangeType
  <2>7. s < l[1].end /\ l[1].end \in Int
    BY <2>1, <2>2, IntervalAt DEF Built, Ascending
  <2>8. \A p \in Int : s <= p /\ p < s + 1 => Holds(l, p)
    BY <2>2, <2>7 DEF Holds
  <2>9. QED
    BY <1>2, <2>2, <2>6, <2>7, <2>8 DEF AddsTo
<1>3. QED
  BY <1>1, <1>2

(* Uses come from behind too, and are put at the head of the list.         *)
LEMMA AddUsePrepends ==
  ASSUME NEW r \in RangeType, NEW use \in UseType,
         \A u \in UsesOf(r) : u.pos >= use.pos /\ u.slot # use.slot
  PROVE  LET n == AddUse(r, use)
         IN  /\ ~Hangs(r, use)
             /\ n = [r EXCEPT !.uses = <<use>> \o r.uses]
             /\ n \in RangeType /\ UsesOf(n) = UsesOf(r) \cup {use}
             /\ InOrder(r.uses) => InOrder(n.uses)
<1> DEFINE n == [r EXCEPT !.uses = <<use>> \o r.uses]
<1>1. r.uses \in Seq(UseType)
  BY DEF RangeType
<1>2. ASSUME NEW i \in 1 .. Len(r.uses)
      PROVE  r.uses[i] \in UseType /\ r.uses[i].pos >= use.pos /\ r.uses[i].slot # use.slot
  BY <1>1 DEF UsesOf
<1>3. use.pos \in Int /\ \A i \in 1 .. Len(r.uses) : r.uses[i].pos \in Int
  <2>1. \A u \in UseType : u.pos \in Int
    BY BlockStarts, SizeAssumption DEF UseType, Limit
  <2>2. QED
    BY <2>1, <1>2
<1>4. {i \in 1 .. Len(r.uses) : r.uses[i].pos < use.pos} = {}
  BY <1>2, <1>3
<1>5. Before(r, use.pos) = 0
  BY <1>4, FS_EmptySet DEF Before
<1>6. ~Hangs(r, use)
  BY <1>5 DEF Hangs
<1>7. AddUse(r, use) = n
  <2>1. SubSeq(r.uses, 1, 0) = <<>> /\ SubSeq(r.uses, 1, Len(r.uses)) = r.uses
    BY <1>1, SubSeqFull, SubSeqEmpty
  <2>2. <<>> \o <<use>> = <<use>>
    OBVIOUS
  <2>3. ~(0 < Len(r.uses) /\ r.uses[0 + 1].pos = use.pos /\ r.uses[0 + 1].slot = use.slot)
    BY <1>1, <1>2
  <2>4. SubSeq(r.uses, 1, 0) \o <<use>> \o SubSeq(r.uses, 0 + 1, Len(r.uses)) = <<use>> \o r.uses
    BY <2>1, <2>2
  <2>5. AddUse(r, use) = [r EXCEPT !.uses = SubSeq(@, 1, 0) \o <<use>> \o SubSeq(@, 0 + 1, Len(@))]
    BY <1>5, <2>3 DEF AddUse
  <2>6. QED
    BY <2>4, <2>5
<1>8. /\ n.uses \in Seq(UseType) /\ Len(n.uses) = Len(r.uses) + 1 /\ n.uses[1] = use
      /\ \A i \in 2 .. Len(n.uses) : n.uses[i] = r.uses[i - 1]
      /\ \A i \in 1 .. Len(r.uses) : r.uses[i] = n.uses[i + 1]
  <2>1. n.uses = <<use>> \o r.uses
    BY DEF RangeType
  <2>2. QED
    BY <1>1, <2>1, Prepended
<1>9. n \in RangeType
  BY <1>8 DEF RangeType
<1> HIDE DEF n
<1>10. \A i \in 1 .. Len(n.uses) : i = 1 \/ (i \in 2 .. Len(n.uses) /\ i - 1 \in 1 .. Len(r.uses))
  BY <1>1, <1>8
<1>11. UsesOf(n) = UsesOf(r) \cup {use}
  <2>1. ASSUME NEW u \in UsesOf(n) PROVE u \in UsesOf(r) \cup {use}
    <3>1. PICK i \in 1 .. Len(n.uses) : u = n.uses[i]
      BY DEF UsesOf
    <3>2. CASE i = 1
      BY <1>8, <3>1, <3>2
    <3>3. CASE i \in 2 .. Len(n.uses) /\ i - 1 \in 1 .. Len(r.uses)
      BY <1>8, <3>1, <3>3 DEF UsesOf
    <3>4. QED
      BY <1>10, <3>2, <3>3
  <2>2. use \in UsesOf(n)
    BY <1>1, <1>8 DEF UsesOf
  <2>3. ASSUME NEW u \in UsesOf(r) PROVE u \in UsesOf(n)
    <3>1. PICK i \in 1 .. Len(r.uses) : u = r.uses[i]
      BY DEF UsesOf
    <3>2. i + 1 \in 1 .. Len(n.uses) /\ u = n.uses[i + 1]
      BY <1>1, <1>8, <3>1
    <3>3. QED
      BY <3>2 DEF UsesOf
  <2>4. QED
    BY <2>1, <2>2, <2>3
<1>12. ASSUME InOrder(r.uses) PROVE InOrder(n.uses)
  <2> SUFFICES ASSUME NEW i \in 1 .. Len(n.uses), NEW j \in 1 .. Len(n.uses), i < j
               PROVE  n.uses[i].pos <= n.uses[j].pos /\ n.uses[i] # n.uses[j]
    BY DEF InOrder
  <2>1. j - 1 \in 1 .. Len(r.uses) /\ n.uses[j] = r.uses[j - 1]
    BY <1>1, <1>8
  <2>2. CASE i = 1
    BY <2>1, <2>2, <1>2, <1>3, <1>8
  <2>3. CASE i \in 2 .. Len(n.uses) /\ i - 1 \in 1 .. Len(r.uses)
    <3>1. n.uses[i] = r.uses[i - 1] /\ i - 1 < j - 1
      BY <1>8, <2>1, <2>3, SMTT(30)
    <3>2. QED
      BY <1>12, <2>1, <2>3, <3>1 DEF InOrder
  <2>4. QED
    BY <1>10, <2>2, <2>3
<1>13. QED
  BY <1>6, <1>7, <1>9, <1>11, <1>12 DEF n

-----------------------------------------------------------------------------
(* One range alone.                                                        *)
LEMMA BuiltOwnsNodes ==
  ASSUME NEW n, NEW s, NEW end, Built(n, s, end)
  PROVE  OwnNodes(<<n>>)
<1> DEFINE l == n.intervals
           L == Len(n.intervals)
<1>1. l \in Seq(IntervalType) /\ L \in Nat
  BY DEF Built, RangeType
<1>2. \A i \in 1 .. L : l[i].node = L + 1 - i
  BY DEF Built
<1>3. Nodes(<<n>>) = {l[i].node : i \in 1 .. L}
  BY DEF Nodes
<1>4. Nodes(<<n>>) = 1 .. L
  <2>1. ASSUME NEW x \in Nodes(<<n>>) PROVE x \in 1 .. L
    BY <1>1, <1>2, <1>3
  <2>2. ASSUME NEW x \in 1 .. L PROVE x \in Nodes(<<n>>)
    <3>1. L + 1 - x \in 1 .. L /\ l[L + 1 - x].node = x
      BY <1>1, <1>2
    <3>2. QED
      BY <1>3, <3>1
  <2>3. QED
    BY <2>1, <2>2
<1>5. Cardinality(1 .. L) = L
  BY <1>1, FS_Interval
<1>6. ASSUME NEW i \in 1 .. L, NEW j \in 1 .. L, l[i].node = l[j].node PROVE i = j
  BY <1>1, <1>2, <1>6
<1>7. Len(<<n>>) = 1 /\ <<n>>[1] = n
  OBVIOUS
<1>8. QED
  BY <1>4, <1>5, <1>6, <1>7 DEF OwnNodes

(* What the invariant says of the range that is being built, and that this *)
(* is all it says.                                                         *)
LEMMA Building ==
  ASSUME RangeInv, phase \in {"enter", "build"}
  PROVE  /\ ranges = <<ranges[1]>>
         /\ Built(ranges[1], IF phase = "build" THEN BlockStart(block) ELSE BlockEnd(block), BlockEnd(block))
         /\ InOrder(ranges[1].uses)
         /\ \A u \in UsesOf(ranges[1]) : u \in UseType /\ Reaches(ranges[1].intervals, u.pos)
         /\ wanted = Covered(ranges[1]) /\ given = UsesOf(ranges[1])
<1> DEFINE r == ranges[1]
<1>1. ranges \in Seq(RangeType) /\ Len(ranges) = 1
  BY DEF RangeInv, TypeOK, BehindTheWalk
<1>2. 1 \in 1 .. Len(ranges) /\ r \in RangeType /\ r.uses \in Seq(UseType)
  <2>1. 1 \in 1 .. Len(ranges) /\ r \in RangeType
    BY <1>1
  <2>2. QED
    BY <2>1 DEF RangeType
<1>3. ranges = <<r>>
  BY <1>1
<1>4. Built(r, IF phase = "build" THEN BlockStart(block) ELSE BlockEnd(block), BlockEnd(block))
  <2>1. Ascending(r.intervals) /\ r.last = IF r.intervals = <<>> THEN Null ELSE r.intervals[Len(r.intervals)].node
    BY <1>2 DEF RangeInv, IntervalsApart
  <2>2. \A i \in 1 .. Len(r.intervals) :
          /\ r.intervals[i].node = Len(r.intervals) + 1 - i
          /\ \/ r.intervals[i].start >= BlockEnd(block)
             \/ phase = "build" /\ i = 1 /\ r.intervals[i].start = BlockStart(block)
    BY DEF RangeInv, BehindTheWalk
  <2>3. QED
    BY <1>2, <2>1, <2>2 DEF Built
<1>5. InOrder(r.uses) /\ \A u \in UsesOf(r) : u \in UseType /\ Reaches(r.intervals, u.pos)
  <2>1. InOrder(r.uses) /\ \A u \in UsesOf(r) : Reaches(r.intervals, u.pos)
    BY <1>2 DEF RangeInv, UsesReached
  <2>2. UsesOf(r) \subseteq UseType
    BY <1>2 DEF UsesOf
  <2>3. QED
    BY <2>1, <2>2
<1>6. wanted = Covered(r) /\ given = UsesOf(r)
  <2>1. {Covered(ranges[k]) : k \in 1 .. Len(ranges)} = {Covered(r)}
    BY <1>1
  <2>2. {UsesOf(ranges[k]) : k \in 1 .. Len(ranges)} = {UsesOf(r)}
    BY <1>1
  <2>3. QED
    BY <2>1, <2>2 DEF RangeInv, NothingIsLost
<1>7. QED
  BY <1>3, <1>4, <1>5, <1>6

WalkedTo(n, ph, b, p, t) ==
  /\ b \in 0 .. NBlocks - 1 /\ p \in 0 .. Limit /\ t \in Seq({"phi", "fixed", "any", "register"})
  /\ ph = "enter" =>
       /\ Built(n, BlockEnd(b), BlockEnd(b))
       /\ \A u \in UsesOf(n) : u.pos >= BlockEnd(b) /\ u.slot[1] >= BlockEnd(b)
  /\ ph = "build" =>
       /\ Built(n, BlockStart(b), BlockEnd(b)) /\ b > 0
       /\ p % 2 = 0 /\ BlockStart(b) + 2 <= p /\ p <= BlockEnd(b) - 2
       /\ t \in InputKinds \/ \A i \in 1 .. Len(t) : t[i] = "phi"
       /\ \A u \in UsesOf(n) : u.pos >= p - 1 /\ (u.slot[1] > p \/ (u.slot[1] = p /\ u.slot[2] > Len(t)))

LEMMA BuildingAgain ==
  ASSUME NEW n, ranges' = <<n>>, phase' \in {"enter", "build"}, queue' = {}, active' = {}, now' = 0,
         WalkedTo(n, phase', block', pos', todo'),
         phase' = "build" => \A u \in UsesOf(n), i \in 1 .. Len(todo') : u.pos >= LastPosition(todo[i])',
         InOrder(n.uses), \A u \in UsesOf(n) : Reaches(n.intervals, u.pos),
         wanted' = Covered(n), given' = UsesOf(n)
  PROVE  RangeInv'
<1>1. n \in RangeType
  BY DEF WalkedTo, Built
<1>2. Len(ranges') = 1 /\ ranges'[1] = n /\ \A k \in 1 .. Len(ranges') : ranges'[k] = n
  OBVIOUS
<1>3. PICK s : Built(n, s, BlockEnd(block'))
  BY DEF WalkedTo
<1>4. TypeOK'
  <2>1. Covered(n) \subseteq Positions
    BY <1>1, CoveredHolds DEF RangeType
  <2>2. UsesOf(n) \subseteq UseType
    BY <1>1 DEF RangeType, UsesOf
  <2>3. 0 \in Positions
    <3>1. Limit \in Nat /\ 2 <= Limit
      <4>1. NBlocks \in Nat /\ NBlocks > 0
        BY SizeAssumption
      <4>2. QED
        BY <4>1, BlockStarts DEF Limit
    <3>2. QED
      BY <3>1 DEF Positions
  <2>4. ranges' \in Seq(RangeType) /\ ranges' # <<>>
    BY <1>1
  <2>5. block' \in 0 .. NBlocks - 1 /\ pos' \in 0 .. Limit /\ todo' \in Seq({"phi", "fixed", "any", "register"})
    BY DEF WalkedTo
  <2>6. QED
    BY <2>1, <2>2, <2>3, <2>4, <2>5 DEF TypeOK
<1>5. IntervalsApart'
  BY <1>2, <1>3 DEF IntervalsApart, Built
<1>6. OwnNodes(ranges)'
  BY <1>3, BuiltOwnsNodes
<1>7. UsesReached'
  BY <1>2 DEF UsesReached
<1>8. BehindTheWalk'
  <2>1. \A i \in 1 .. Len(n.intervals) :
          /\ n.intervals[i].node = Len(n.intervals) + 1 - i
          /\ \/ n.intervals[i].start >= BlockEnd(block')
             \/ phase' = "build" /\ i = 1 /\ n.intervals[i].start = BlockStart(block')
    <3>1. ASSUME NEW i \in 1 .. Len(n.intervals) PROVE n.intervals[i].start \in Int
      BY <1>1, IntervalAt DEF RangeType
    <3>2. BlockEnd(block') \in Int
      BY BlockStarts DEF WalkedTo
    <3>3. CASE phase' = "enter"
      <4>1. Built(n, BlockEnd(block'), BlockEnd(block'))
        BY <3>3 DEF WalkedTo
      <4>2. QED
        BY <4>1, <3>1, <3>2 DEF Built
    <3>4. CASE phase' = "build"
      <4>1. Built(n, BlockStart(block'), BlockEnd(block'))
        BY <3>4 DEF WalkedTo
      <4>2. QED
        BY <4>1, <3>4 DEF Built
    <3>5. QED
      BY <3>3, <3>4
  <2>2. phase' = "enter" => \A u \in UsesOf(n) : u.pos >= BlockEnd(block') /\ u.slot[1] >= BlockEnd(block')
    BY DEF WalkedTo
  <2>3. phase' = "build" =>
             /\ block' > 0
             /\ pos' % 2 = 0 /\ BlockStart(block') + 2 <= pos' /\ pos' <= BlockEnd(block') - 2
             /\ todo' \in InputKinds \/ \A i \in 1 .. Len(todo') : todo'[i] = "phi"
             /\ \A u \in UsesOf(n) :
                  /\ u.pos >= pos' - 1
                  /\ \A i \in 1 .. Len(todo') : u.pos >= LastPosition(todo[i])'
                  /\ u.slot[1] > pos' \/ (u.slot[1] = pos' /\ u.slot[2] > Len(todo'))
    BY DEF WalkedTo
  <2>4. QED
    BY <1>2, <2>1, <2>2, <2>3 DEF BehindTheWalk
<1>9. AddUseReturns' /\ SiblingsInOrder' /\ WaitingIsAhead' /\ FingersAreOwn'
  BY DEF AddUseReturns, SiblingsInOrder, WaitingIsAhead, FingersAreOwn
<1>10. NothingIsLost'
  <2>1. {Covered(ranges'[k]) : k \in 1 .. Len(ranges')} = {Covered(n)}
    BY <1>2
  <2>2. {UsesOf(ranges'[k]) : k \in 1 .. Len(ranges')} = {UsesOf(n)}
    BY <1>2
  <2>3. QED
    BY <2>1, <2>2 DEF NothingIsLost
<1>11. QED
  BY <1>4, <1>5, <1>6, <1>7, <1>8, <1>9, <1>10 DEF RangeInv

LEMMA CoveredGrows ==
  ASSUME NEW n, NEW r, NEW s \in Nat, NEW e \in Nat, NEW end \in Nat,
         Built(r, s, end), AddsTo(n, r, s, e, end)
  PROVE  Covered(n) = Covered(r) \cup s .. e - 1
<1>1. r.intervals \in Seq(IntervalType) /\ n.intervals \in Seq(IntervalType)
  BY DEF AddsTo, Built, RangeType
<1>2. Covered(n) \subseteq Int /\ Covered(r) \subseteq Int
  BY <1>1, CoveredHolds DEF Positions
<1>3. ASSUME NEW p \in Int PROVE p \in Covered(n) <=> p \in Covered(r) \/ p \in s .. e - 1
  <2>1. p \in Covered(n) <=> Holds(n.intervals, p)
    BY <1>1, CoveredHolds
  <2>2. p \in Covered(r) <=> Holds(r.intervals, p)
    BY <1>1, CoveredHolds
  <2>3. Holds(n.intervals, p) <=> Holds(r.intervals, p) \/ (s <= p /\ p < e)
    BY DEF AddsTo
  <2>4. QED
    BY <2>1, <2>2, <2>3
<1>4. QED
  BY <1>2, <1>3

LEMMA UsesStayReached ==
  ASSUME NEW n, NEW r, NEW s \in Nat, NEW e \in Nat, NEW end \in Nat, AddsTo(n, r, s, e, end),
         NEW u \in UseType, Reaches(r.intervals, u.pos)
  PROVE  Reaches(n.intervals, u.pos)
<1>1. u.pos \in Int
  BY BlockStarts, SizeAssumption DEF UseType, Limit
<1>2. QED
  BY <1>1 DEF AddsTo

-----------------------------------------------------------------------------
(* The walk.                                                               *)
LEMMA InitRange == Init => RangeInv
<1> SUFFICES ASSUME Init PROVE RangeInv
  OBVIOUS
<1>1. ranges = <<EmptyRange>> /\ Len(ranges) = 1 /\ ranges[1] = EmptyRange
      /\ EmptyRange.intervals = <<>> /\ EmptyRange.uses = <<>> /\ EmptyRange.last = 0
  BY DEF Init, EmptyRange
<1>2. Limit \in Nat /\ 2 <= Limit
  <2>1. NBlocks \in Nat /\ NBlocks > 0
    BY SizeAssumption
  <2>2. QED
    BY <2>1, BlockStarts DEF Limit
<1>3. EmptyRange \in RangeType
  <2>1. NoUse \in UseType
    BY <1>2 DEF NoUse, UseType
  <2>2. QED
    BY <2>1 DEF EmptyRange, RangeType
<1>4. TypeOK
  BY <1>1, <1>2, <1>3, SizeAssumption DEF TypeOK, Init, Positions
<1>5. \A k \in 1 .. Len(ranges) : ranges[k].intervals = <<>> /\ ranges[k].uses = <<>> /\ ranges[k].last = 0
  BY <1>1
<1>6. IntervalsApart
  BY <1>5 DEF IntervalsApart, Ascending
<1>7. OwnNodes(ranges)
  <2>1. Built(EmptyRange, 0, 0)
    BY <1>1, <1>3 DEF Built, Ascending
  <2>2. QED
    BY <1>1, <2>1, BuiltOwnsNodes
<1>8. UsesReached
  BY <1>5 DEF UsesReached, InOrder, UsesOf
<1>9. BehindTheWalk
  BY <1>1 DEF BehindTheWalk, Init, UsesOf
<1>10. AddUseReturns /\ SiblingsInOrder /\ WaitingIsAhead /\ FingersAreOwn
  BY DEF Init, AddUseReturns, SiblingsInOrder, WaitingIsAhead, FingersAreOwn
<1>11. NothingIsLost
  <2>1. {Covered(ranges[k]) : k \in 1 .. Len(ranges)} = {{}}
    BY <1>1 DEF Covered
  <2>2. {UsesOf(ranges[k]) : k \in 1 .. Len(ranges)} = {{}}
    BY <1>1 DEF UsesOf
  <2>3. QED
    BY <2>1, <2>2 DEF NothingIsLost, Init
<1>12. QED
  BY <1>4, <1>6, <1>7, <1>8, <1>9, <1>10, <1>11 DEF RangeInv

LEMMA EnterBlockStep == RangeInv /\ EnterBlock => RangeInv'
<1> SUFFICES ASSUME RangeInv, EnterBlock PROVE RangeInv'
  OBVIOUS
<1> DEFINE r == ranges[1]
           s == BlockStart(block)
           end == BlockEnd(block)
<1>1. phase = "enter" /\ block > 0 /\ block \in 0 .. NBlocks - 1
  BY DEF EnterBlock, RangeInv, TypeOK
<1>2. /\ s \in Nat /\ end \in Nat /\ s + 6 <= end /\ end <= Limit /\ Limit \in Nat
      /\ end % 2 = 0
  BY <1>1, BlockStarts, BlocksInLimit
<1>3. /\ ranges = <<r>> /\ Built(r, end, end) /\ InOrder(r.uses)
      /\ \A u \in UsesOf(r) : u \in UseType /\ Reaches(r.intervals, u.pos)
      /\ wanted = Covered(r) /\ given = UsesOf(r)
  BY <1>1, Building
<1>4. Built(r, s, end)
  <2>1. \A i \in 1 .. Len(r.intervals) : r.intervals[i].start >= end
    <3>1. \A i \in 1 .. Len(r.intervals) : r.intervals[i].start \in Int
      BY <1>3, IntervalAt DEF Built, RangeType
    <3>2. QED
      BY <1>2, <1>3, <3>1 DEF Built
  <2>2. QED
    BY <1>3, <2>1 DEF Built
<1>5. \A u \in UsesOf(r) : u.pos >= end /\ u.slot[1] >= end
  BY <1>1 DEF RangeInv, BehindTheWalk
<1>6. PICK n : /\ ranges' = <<n>> /\ Built(n, s, end) /\ n.uses = r.uses
               /\ \A u \in UseType : Reaches(r.intervals, u.pos) => Reaches(n.intervals, u.pos)
               /\ wanted' = Covered(n)
  <2>1. PICK liveOut \in BOOLEAN :
          IF liveOut
          THEN /\ ranges' = <<AddInterval(r, s, end)>>
               /\ wanted' = wanted \cup s .. end - 1
          ELSE UNCHANGED <<ranges, wanted>>
    BY DEF EnterBlock
  <2>2. CASE liveOut
    <3> DEFINE n == AddInterval(r, s, end)
    <3>1. AddsTo(n, r, s, end, end)
      BY <1>2, <1>4, AddIntervalAdds
    <3>2. wanted' = Covered(n)
      <4>1. Covered(n) = Covered(r) \cup s .. end - 1
        BY <1>2, <1>4, <3>1, CoveredGrows
      <4>2. QED
        BY <1>3, <2>1, <2>2, <4>1
    <3>3. \A u \in UseType : Reaches(r.intervals, u.pos) => Reaches(n.intervals, u.pos)
      BY <1>2, <3>1, UsesStayReached
    <3>4. ranges' = <<n>> /\ Built(n, s, end) /\ n.uses = r.uses
      BY <2>1, <2>2, <3>1 DEF AddsTo
    <3>5. QED
      BY <3>2, <3>3, <3>4
  <2>3. CASE ~liveOut
    BY <1>3, <1>4, <2>1, <2>3
  <2>4. QED
    BY <2>2, <2>3
<1>7. /\ phase' = "build" /\ block' = block /\ pos' = end - 2 /\ queue' = queue /\ active' = active
      /\ now' = now /\ given' = given
  BY DEF EnterBlock
<1>8. PICK phis \in 0 .. MaxPhis : todo' = [i \in 1 .. phis |-> "phi"]
  BY DEF EnterBlock
<1>9. queue = {} /\ active = {} /\ now = 0
  BY <1>1 DEF RangeInv, BehindTheWalk
<1>10. todo' \in Seq({"phi", "fixed", "any", "register"}) /\ \A i \in 1 .. Len(todo') : todo'[i] = "phi"
  BY <1>8, PhisAssumption
<1>11. UsesOf(n) = UsesOf(r)
  BY <1>6 DEF UsesOf
<1>12. \A u \in UseType : u.pos \in Int /\ u.slot[1] \in Int
  BY <1>2 DEF UseType
<1>13. WalkedTo(n, phase', block', pos', todo')
  <2>1. \A u \in UsesOf(n) : u.pos >= pos' - 1 /\ u.slot[1] > pos'
    BY <1>2, <1>3, <1>5, <1>7, <1>11, <1>12
  <2>2. pos' \in 0 .. Limit /\ pos' % 2 = 0 /\ s + 2 <= pos' /\ pos' <= end - 2
    BY <1>2, <1>7
  <2>3. QED
    BY <1>1, <1>6, <1>7, <1>10, <2>1, <2>2 DEF WalkedTo
<1>14. \A u \in UsesOf(n), i \in 1 .. Len(todo') : u.pos >= LastPosition(todo[i])'
  BY <1>2, <1>3, <1>5, <1>7, <1>10, <1>11, <1>12 DEF LastPosition
<1>15. QED
  BY <1>3, <1>6, <1>7, <1>9, <1>11, <1>13, <1>14, BuildingAgain

(* Where the walk is inside a block.                                       *)
LEMMA InsideBlock ==
  ASSUME RangeInv, phase = "build"
  PROVE  /\ block \in 0 .. NBlocks - 1 /\ block > 0
         /\ BlockStart(block) \in Nat /\ BlockEnd(block) \in Nat /\ Limit \in Nat
         /\ BlockStart(block) % 2 = 0 /\ BlockEnd(block) <= Limit
         /\ BlockEnd(block - 1) = BlockStart(block) /\ 2 <= BlockStart(block)
         /\ pos \in Nat /\ pos % 2 = 0 /\ BlockStart(block) + 2 <= pos /\ pos <= BlockEnd(block) - 2
         /\ todo \in Seq({"phi", "fixed", "any", "register"})
         /\ todo \in InputKinds \/ \A i \in 1 .. Len(todo) : todo[i] = "phi"
         /\ queue = {} /\ active = {} /\ now = 0
         /\ \A u \in UsesOf(ranges[1]) :
              /\ u.pos \in Int /\ u.slot[1] \in Int /\ u.slot[2] \in Int
              /\ u.pos >= pos - 1
              /\ \A i \in 1 .. Len(todo) : u.pos >= LastPosition(todo[i])
              /\ u.slot[1] > pos \/ (u.slot[1] = pos /\ u.slot[2] > Len(todo))
<1>1. block \in 0 .. NBlocks - 1 /\ block > 0 /\ pos \in 0 .. Limit
      /\ todo \in Seq({"phi", "fixed", "any", "register"})
  BY DEF RangeInv, TypeOK, BehindTheWalk
<1>2. /\ BlockStart(block) \in Nat /\ BlockEnd(block) \in Nat /\ Limit \in Nat
      /\ BlockStart(block) % 2 = 0 /\ BlockEnd(block) <= Limit
      /\ BlockEnd(block - 1) = BlockStart(block) /\ 2 <= BlockStart(block)
  BY <1>1, BlockStarts, BlocksInLimit
<1>3. \A u \in UsesOf(ranges[1]) : u \in UseType
  BY Building
<1>4. \A u \in UseType : u.pos \in Int /\ u.slot[1] \in Int /\ u.slot[2] \in Int
  BY <1>2 DEF UseType
<1>5. /\ pos % 2 = 0 /\ BlockStart(block) + 2 <= pos /\ pos <= BlockEnd(block) - 2
      /\ todo \in InputKinds \/ \A i \in 1 .. Len(todo) : todo[i] = "phi"
      /\ queue = {} /\ active = {} /\ now = 0
      /\ \A u \in UsesOf(ranges[1]) :
           /\ u.pos >= pos - 1
           /\ \A i \in 1 .. Len(todo) : u.pos >= LastPosition(todo[i])
           /\ u.slot[1] > pos \/ (u.slot[1] = pos /\ u.slot[2] > Len(todo))
  BY DEF RangeInv, BehindTheWalk
<1>6. QED
  BY <1>1, <1>2, <1>3, <1>4, <1>5

(* The inputs of an instruction that are still to come are like the next.  *)
LEMMA InputsAlike ==
  ASSUME NEW t \in Seq({"phi", "fixed", "any", "register"}), t # <<>>,
         t \in InputKinds \/ \A i \in 1 .. Len(t) : t[i] = "phi"
  PROVE  /\ Head(t) = t[1] /\ 1 \in 1 .. Len(t)
         /\ Tail(t) \in Seq({"phi", "fixed", "any", "register"}) /\ Len(Tail(t)) = Len(t) - 1
         /\ \A i \in 1 .. Len(Tail(t)) : Tail(t)[i] = Head(t)
         /\ Tail(t) \in InputKinds \/ \A i \in 1 .. Len(Tail(t)) : Tail(t)[i] = "phi"
<1>1. CASE \A i \in 1 .. Len(t) : t[i] = "phi"
  BY <1>1
<1>2. CASE t \in InputKinds
  <2>1. t \in {<<"fixed">>, <<"any">>, <<"any", "any">>, <<"register">>}
    BY <1>2 DEF InputKinds
  <2>2. Tail(<<"fixed">>) = <<>> /\ Tail(<<"any">>) = <<>> /\ Tail(<<"register">>) = <<>>
        /\ Tail(<<"any", "any">>) = <<"any">>
    OBVIOUS
  <2>3. <<>> \in InputKinds /\ <<"any">> \in InputKinds
    BY DEF InputKinds
  <2>4. CASE t = <<"any", "any">>
    BY <2>2, <2>3, <2>4
  <2>5. CASE t \in {<<"fixed">>, <<"any">>, <<"register">>}
    BY <2>2, <2>3, <2>5
  <2>6. QED
    BY <2>1, <2>4, <2>5
<1>3. QED
  BY <1>1, <1>2

LEMMA ProcessInputStep == RangeInv /\ ProcessInput => RangeInv'
<1> SUFFICES ASSUME RangeInv, ProcessInput PROVE RangeInv'
  OBVIOUS
<1> DEFINE r == ranges[1]
           s == BlockStart(block)
           end == BlockEnd(block)
           kind == Head(todo)
           use == UseOf(Head(todo))
           e == LastPosition(Head(todo))
           live == AddInterval(r, s, e)
           n == AddUse(live, use)
<1>1. phase = "build" /\ todo # <<>>
  BY DEF ProcessInput
<1>2. /\ block \in 0 .. NBlocks - 1 /\ block > 0
      /\ s \in Nat /\ end \in Nat /\ Limit \in Nat /\ end <= Limit
      /\ pos \in Nat /\ pos % 2 = 0 /\ s + 2 <= pos /\ pos <= end - 2
      /\ todo \in Seq({"phi", "fixed", "any", "register"})
      /\ todo \in InputKinds \/ \A i \in 1 .. Len(todo) : todo[i] = "phi"
      /\ queue = {} /\ active = {} /\ now = 0
  BY <1>1, InsideBlock
<1>3. \A u \in UsesOf(r) :
        /\ u.pos \in Int /\ u.slot[1] \in Int /\ u.slot[2] \in Int
        /\ u.pos >= pos - 1
        /\ \A i \in 1 .. Len(todo) : u.pos >= LastPosition(todo[i])
        /\ u.slot[1] > pos \/ (u.slot[1] = pos /\ u.slot[2] > Len(todo))
  BY <1>1, InsideBlock
<1>4. /\ ranges = <<r>> /\ Built(r, s, end) /\ InOrder(r.uses)
      /\ \A u \in UsesOf(r) : u \in UseType /\ Reaches(r.intervals, u.pos)
      /\ wanted = Covered(r) /\ given = UsesOf(r)
  BY <1>1, Building
<1>5. /\ kind = todo[1] /\ 1 \in 1 .. Len(todo)
      /\ Tail(todo) \in Seq({"phi", "fixed", "any", "register"}) /\ Len(Tail(todo)) = Len(todo) - 1
      /\ \A i \in 1 .. Len(Tail(todo)) : Tail(todo)[i] = kind
      /\ Tail(todo) \in InputKinds \/ \A i \in 1 .. Len(Tail(todo)) : Tail(todo)[i] = "phi"
  BY <1>1, <1>2, InputsAlike
<1>6. e \in Nat /\ s < e /\ e <= end - 1 /\ pos - 1 <= e
  BY <1>2 DEF LastPosition
<1>7. use \in UseType /\ use.pos = e /\ use.slot[1] = pos /\ use.slot[2] = Len(todo)
  <2>1. use = [pos |-> e, slot |-> <<pos, Len(todo)>>, reg |-> (kind = "register")]
    BY DEF UseOf
  <2>2. e \in -1 .. Limit /\ pos \in 0 .. Limit /\ Len(todo) \in Nat
    BY <1>2, <1>6
  <2> HIDE DEF use, e, kind
  <2>3. QED
    BY <2>1, <2>2 DEF UseType
<1> HIDE DEF use, e, kind
<1>8. AddsTo(live, r, s, e, end)
  BY <1>2, <1>4, <1>6, AddIntervalAdds
<1>9. /\ live \in RangeType /\ live.uses = r.uses /\ UsesOf(live) = UsesOf(r)
      /\ Built(live, s, end) /\ live.intervals # <<>>
      /\ live.intervals[1].start = s /\ live.intervals[1].end >= e
  BY <1>8 DEF AddsTo, Built, UsesOf
<1>10. Covered(live) = Covered(r) \cup s .. e - 1
  BY <1>2, <1>4, <1>6, <1>8, CoveredGrows
<1>11. \A u \in UsesOf(r) : Reaches(live.intervals, u.pos)
  BY <1>2, <1>4, <1>6, <1>8, UsesStayReached
<1> HIDE DEF live
<1>12. \A u \in UsesOf(live) : u.pos >= use.pos /\ u.slot # use.slot
  <2> SUFFICES ASSUME NEW u \in UsesOf(r) PROVE u.pos >= use.pos /\ u.slot # use.slot
    BY <1>9
  <2>1. u.pos >= e
    BY <1>3, <1>5 DEF e
  <2>2. u.slot[1] # use.slot[1] \/ u.slot[2] # use.slot[2]
    BY <1>2, <1>3, <1>7, SMTT(30)
  <2>3. QED
    BY <1>7, <2>1, <2>2
<1>13. /\ ~Hangs(live, use) /\ n = [live EXCEPT !.uses = <<use>> \o live.uses]
       /\ n \in RangeType /\ UsesOf(n) = UsesOf(live) \cup {use}
       /\ InOrder(live.uses) => InOrder(n.uses)
  BY <1>7, <1>9, <1>12, AddUsePrepends
<1>14. n.intervals = live.intervals /\ n.last = live.last
  BY <1>9, <1>13 DEF RangeType
<1> HIDE DEF n
<1>15. Built(n, s, end) /\ Covered(n) = Covered(live)
  BY <1>9, <1>13, <1>14 DEF Built, Covered
<1>16. Reaches(n.intervals, use.pos)
  <2>1. 1 \in 1 .. Len(n.intervals)
    BY <1>9, <1>13, <1>14 DEF RangeType
  <2>2. QED
    BY <1>2, <1>6, <1>7, <1>9, <1>14, <2>1, SMTT(30) DEF Reaches
<1>17. /\ ranges' = <<n>> /\ phase' = "build" /\ wanted' = wanted \cup s .. e - 1
       /\ given' = given \cup {use} /\ todo' = Tail(todo)
       /\ block' = block /\ pos' = pos /\ queue' = queue /\ active' = active /\ now' = now
  BY <1>1, <1>13 DEF ProcessInput, use, e, live, n
<1>18. \A u \in UsesOf(n) : \/ u \in UsesOf(r)
                            \/ u = use
  BY <1>9, <1>13
<1>19. WalkedTo(n, phase', block', pos', todo')
  <2>1. \A u \in UsesOf(n) : u.pos >= pos - 1 /\ (u.slot[1] > pos \/ (u.slot[1] = pos /\ u.slot[2] > Len(Tail(todo))))
    <3>1. ASSUME NEW u \in UsesOf(r)
          PROVE u.pos >= pos - 1 /\ (u.slot[1] > pos \/ (u.slot[1] = pos /\ u.slot[2] > Len(Tail(todo))))
      BY <1>2, <1>3, <1>5, SMTT(30)
    <3>2. use.pos >= pos - 1 /\ use.slot[1] = pos /\ use.slot[2] > Len(Tail(todo))
      BY <1>2, <1>5, <1>6, <1>7
    <3>3. QED
      BY <1>18, <3>1, <3>2
  <2>2. pos \in 0 .. Limit
    BY <1>2
  <2>3. QED
    BY <1>2, <1>5, <1>15, <1>17, <2>1, <2>2 DEF WalkedTo
<1>20. \A u \in UsesOf(n), i \in 1 .. Len(todo') : u.pos >= LastPosition(todo[i])'
  <2> SUFFICES ASSUME NEW u \in UsesOf(n), NEW i \in 1 .. Len(todo') PROVE u.pos >= LastPosition(todo[i])'
    OBVIOUS
  <2>1. LastPosition(todo[i])' = e
    BY <1>5, <1>17 DEF LastPosition, e, kind
  <2>2. u.pos >= e
    BY <1>6, <1>7, <1>9, <1>12, <1>18
  <2>3. QED
    BY <2>1, <2>2
<1>21. QED
  <2>1. wanted' = Covered(n) /\ given' = UsesOf(n)
    BY <1>4, <1>9, <1>10, <1>13, <1>15, <1>17
  <2>2. InOrder(n.uses)
    BY <1>4, <1>9, <1>13
  <2>3. \A u \in UsesOf(n) : Reaches(n.intervals, u.pos)
    BY <1>11, <1>14, <1>16, <1>18
  <2>4. queue' = {} /\ active' = {} /\ now' = 0 /\ phase' \in {"enter", "build"} /\ ranges' = <<n>>
    BY <1>2, <1>17
  <2>5. QED
    BY <1>19, <1>20, <2>1, <2>2, <2>3, <2>4, BuildingAgain

LEMMA PreviousInstructionStep == RangeInv /\ PreviousInstruction => RangeInv'
<1> SUFFICES ASSUME RangeInv, PreviousInstruction PROVE RangeInv'
  OBVIOUS
<1> DEFINE r == ranges[1]
           s == BlockStart(block)
           end == BlockEnd(block)
<1>1. phase = "build" /\ todo = <<>> /\ pos - 2 > s /\ pos' = pos - 2 /\ todo' \in InputKinds
      /\ phase' = phase /\ block' = block /\ ranges' = ranges /\ queue' = queue /\ active' = active
      /\ now' = now /\ wanted' = wanted /\ given' = given
  BY DEF PreviousInstruction
<1>2. /\ block \in 0 .. NBlocks - 1 /\ block > 0
      /\ s \in Nat /\ end \in Nat /\ Limit \in Nat /\ end <= Limit /\ s % 2 = 0
      /\ pos \in Nat /\ pos % 2 = 0 /\ s + 2 <= pos /\ pos <= end - 2
      /\ queue = {} /\ active = {} /\ now = 0
  BY <1>1, InsideBlock
<1>3. \A u \in UsesOf(r) :
        /\ u.pos \in Int /\ u.slot[1] \in Int /\ u.slot[2] \in Int
        /\ u.pos >= pos - 1
        /\ u.slot[1] > pos \/ (u.slot[1] = pos /\ u.slot[2] > Len(todo))
  BY <1>1, InsideBlock
<1>4. /\ ranges = <<r>> /\ Built(r, s, end) /\ InOrder(r.uses)
      /\ \A u \in UsesOf(r) : u \in UseType /\ Reaches(r.intervals, u.pos)
      /\ wanted = Covered(r) /\ given = UsesOf(r)
  BY <1>1, Building
<1>5. todo' \in Seq({"phi", "fixed", "any", "register"})
  <2> DEFINE K == {"phi", "fixed", "any", "register"}
  <2>1. <<>> \in Seq(K) /\ <<"fixed">> \in Seq(K) /\ <<"any">> \in Seq(K) /\ <<"register">> \in Seq(K)
    OBVIOUS
  <2>2. <<"any", "any">> \in Seq(K)
    OBVIOUS
  <2>3. QED
    BY <1>1, <2>1, <2>2 DEF InputKinds
<1>6. pos' \in 0 .. Limit /\ pos' % 2 = 0 /\ s + 2 <= pos' /\ pos' <= end - 2
  BY <1>1, <1>2
<1>7. \A u \in UsesOf(r) : u.pos >= pos' + 1 /\ u.slot[1] > pos'
  BY <1>1, <1>2, <1>3, SMTT(30)
<1>8. WalkedTo(r, phase', block', pos', todo')
  <2>1. \A u \in UsesOf(r) : u.pos >= pos' - 1
    BY <1>3, <1>6, <1>7
  <2>2. QED
    BY <1>1, <1>2, <1>4, <1>5, <1>6, <1>7, <2>1 DEF WalkedTo
<1>9. \A u \in UsesOf(r), i \in 1 .. Len(todo') : u.pos >= LastPosition(todo[i])'
  <2> SUFFICES ASSUME NEW u \in UsesOf(r), NEW i \in 1 .. Len(todo') PROVE u.pos >= LastPosition(todo[i])'
    OBVIOUS
  <2>1. LastPosition(todo[i])' \in {pos' - 1, pos', pos' + 1}
    BY DEF LastPosition
  <2>2. QED
    BY <1>3, <1>6, <1>7, <2>1
<1>10. QED
  BY <1>1, <1>2, <1>4, <1>8, <1>9, BuildingAgain

LEMMA PreviousBlockStep == RangeInv /\ PreviousBlock => RangeInv'
<1> SUFFICES ASSUME RangeInv, PreviousBlock PROVE RangeInv'
  OBVIOUS
<1> DEFINE r == ranges[1]
           s == BlockStart(block)
<1>1. phase = "build" /\ pos - 2 = s /\ block' = block - 1 /\ phase' = "enter"
      /\ pos' = pos /\ todo' = todo /\ ranges' = ranges /\ queue' = queue /\ active' = active
      /\ now' = now /\ wanted' = wanted /\ given' = given
  BY DEF PreviousBlock, AtBlockEntry
<1>2. /\ block \in 0 .. NBlocks - 1 /\ block > 0
      /\ s \in Nat /\ BlockEnd(block) \in Nat /\ BlockEnd(block - 1) = s
      /\ pos \in Nat /\ s + 2 <= pos /\ pos <= BlockEnd(block) - 2
      /\ todo \in Seq({"phi", "fixed", "any", "register"})
      /\ queue = {} /\ active = {} /\ now = 0
  BY <1>1, InsideBlock
<1>3. \A u \in UsesOf(r) :
        /\ u.pos \in Int /\ u.slot[1] \in Int
        /\ u.pos >= pos - 1
        /\ u.slot[1] > pos \/ u.slot[1] = pos
  BY <1>1, InsideBlock
<1>4. /\ ranges = <<r>> /\ Built(r, s, BlockEnd(block)) /\ InOrder(r.uses)
      /\ \A u \in UsesOf(r) : u \in UseType /\ Reaches(r.intervals, u.pos)
      /\ wanted = Covered(r) /\ given = UsesOf(r)
  BY <1>1, Building
<1>5. Built(r, s, s)
  <2>1. \A i \in 1 .. Len(r.intervals) : r.intervals[i].start \in Int
    BY <1>4, IntervalAt DEF Built, RangeType
  <2>2. QED
    BY <1>2, <1>4, <2>1, SMTT(30) DEF Built
<1>6. pos' \in 0 .. Limit
  BY <1>1 DEF RangeInv, TypeOK
<1>7. \A u \in UsesOf(r) : u.pos >= s /\ u.slot[1] >= s
  BY <1>1, <1>2, <1>3, SMTT(30)
<1>8. WalkedTo(r, phase', block', pos', todo')
  <2>1. block' \in 0 .. NBlocks - 1 /\ BlockEnd(block') = s
    BY <1>1, <1>2, SizeAssumption
  <2>2. QED
    BY <1>1, <1>2, <1>5, <1>6, <1>7, <2>1 DEF WalkedTo
<1>9. QED
  BY <1>1, <1>2, <1>4, <1>8, BuildingAgain

-----------------------------------------------------------------------------

(* Searching a list of intervals for the first that is not over.           *)
LEMMA LeastNatural ==
  ASSUME NEW S \in SUBSET Nat, S # {}
  PROVE  \E m \in S : \A k \in S : m <= k
<1> DEFINE R == OpToRel(<, Nat)
<1>1. IsWellFoundedOn(R, Nat)
  BY NatLessThanWellFounded
<1> HIDE DEF R
<1>2. PICK m \in S : \A k \in S : ~(<<k, m>> \in R)
  BY <1>1, WFMin
<1>3. \A k \in Nat : k < m => <<k, m>> \in R
  BY DEF R, OpToRel
<1>4. \A k \in S : ~(k < m)
  BY <1>2, <1>3
<1>5. \A k \in S : m <= k
  BY <1>4
<1>6. QED
  BY <1>5

FirstOver(l, t) == First(l, LAMBDA iv : iv.end > t, [node |-> Null])

LEMMA FirstOverIs ==
  ASSUME NEW l \in Seq(IntervalType), NEW t \in Int,
         NEW i \in 1 .. Len(l), l[i].end > t, \A j \in 1 .. i - 1 : l[j].end <= t
  PROVE  FirstOver(l, t) = l[i]
<1> DEFINE hits == {h \in 1 .. Len(l) : l[h].end > t}
<1>1. FirstOver(l, t) = IF hits = {} THEN [node |-> Null]
                        ELSE l[CHOOSE h \in hits : \A j \in hits : h <= j]
  BY DEF First, FirstOver
<1>2. i \in hits
  OBVIOUS
<1>3. \A h \in 1 .. Len(l) : l[h].end \in Int
  BY IntervalAt
<1>4. ASSUME NEW h \in hits PROVE h \in 1 .. Len(l) /\ ~(h \in 1 .. i - 1)
  BY <1>3
<1>5. \A h \in hits : i <= h
  BY <1>4
<1> HIDE DEF hits
<1>6. \A h \in hits : (\A j \in hits : h <= j) => h = i
  BY <1>2, <1>4, <1>5
<1>7. (CHOOSE h \in hits : \A j \in hits : h <= j) = i
  BY <1>2, <1>5, <1>6
<1>8. QED
  BY <1>1, <1>2, <1>7

LEMMA FirstOverNone ==
  ASSUME NEW l \in Seq(IntervalType), NEW t \in Int, \A j \in 1 .. Len(l) : l[j].end <= t
  PROVE  FirstOver(l, t) = [node |-> Null] /\ FirstOver(l, t).node = Null
<1>1. {h \in 1 .. Len(l) : l[h].end > t} = {}
  BY IntervalAt
<1>2. QED
  BY <1>1 DEF First, FirstOver

(* There is a first interval that is not over, or none.                    *)
LEMMA FirstOverExists ==
  ASSUME NEW l \in Seq(IntervalType), NEW t \in Int
  PROVE  \/ \A j \in 1 .. Len(l) : l[j].end <= t
         \/ \E i \in 1 .. Len(l) : l[i].end > t /\ \A j \in 1 .. i - 1 : l[j].end <= t
<1> DEFINE S == {h \in 1 .. Len(l) : l[h].end > t}
<1>1. \A h \in 1 .. Len(l) : l[h].end \in Int
  BY IntervalAt
<1>2. CASE S = {}
  BY <1>1, <1>2
<1>3. CASE S # {}
  <2>1. S \in SUBSET Nat
    OBVIOUS
  <2>2. PICK i \in S : \A k \in S : i <= k
    BY <1>3, <2>1, LeastNatural
  <2>3. i \in 1 .. Len(l) /\ l[i].end > t
    BY <2>2
  <2>4. ASSUME NEW j \in 1 .. i - 1 PROVE l[j].end <= t
    <3>1. j \in 1 .. Len(l) /\ ~(i <= j)
      BY <2>3
    <3>2. j \notin S
      BY <2>2, <3>1
    <3>3. QED
      BY <1>1, <3>1, <3>2
  <2>5. QED
    BY <2>3, <2>4
<1>4. QED
  BY <1>2, <1>3

(* What is in front of a finger is over: searching from there finds what   *)
(* searching from the head finds.                                          *)
LEMMA RestOfList ==
  ASSUME NEW S, NEW l \in Seq(S), NEW i \in 1 .. Len(l)
  PROVE  LET m == SubSeq(l, i, Len(l))
         IN  /\ m \in Seq(S) /\ Len(m) = Len(l) - i + 1 /\ m[1] = l[i]
             /\ \A j \in 1 .. Len(m) : m[j] = l[i + j - 1] /\ i + j - 1 \in i .. Len(l)
             /\ \A j \in i .. Len(l) : l[j] = m[j - i + 1] /\ j - i + 1 \in 1 .. Len(m)
<1>1. Len(l) \in Nat /\ i \in Int /\ \A j \in i .. Len(l) : l[j] \in S
  OBVIOUS
<1> DEFINE m == SubSeq(l, i, Len(l))
<1>2. /\ m \in Seq(S) /\ Len(m) = Len(l) - i + 1
      /\ \A j \in 1 .. Len(l) - i + 1 : m[j] = l[i + j - 1]
  BY <1>1, SubSeqProperties
<1> HIDE DEF m
<1>3. m[1] = l[i]
  BY <1>1, <1>2
<1>4. ASSUME NEW j \in 1 .. Len(m) PROVE m[j] = l[i + j - 1] /\ i + j - 1 \in i .. Len(l)
  <2>1. j \in 1 .. Len(l) - i + 1
    BY <1>2
  <2>2. m[j] = l[i + j - 1]
    BY <1>2, <2>1
  <2>3. QED
    BY <1>1, <2>1, <2>2
<1>5. ASSUME NEW j \in i .. Len(l) PROVE l[j] = m[j - i + 1] /\ j - i + 1 \in 1 .. Len(m)
  <2>1. j - i + 1 \in 1 .. Len(l) - i + 1 /\ i + (j - i + 1) - 1 = j
    BY <1>1
  <2>2. m[j - i + 1] = l[i + (j - i + 1) - 1]
    BY <1>2, <2>1
  <2>3. QED
    BY <1>2, <2>1, <2>2
<1>6. QED
  BY <1>2, <1>3, <1>4, <1>5 DEF m

LEMMA FirstOverFrom ==
  ASSUME NEW l \in Seq(IntervalType), NEW t \in Int, NEW i \in 1 .. Len(l),
         \A j \in 1 .. i - 1 : l[j].end <= t
  PROVE  FirstOver(SubSeq(l, i, Len(l)), t) = FirstOver(l, t)
<1> DEFINE m == SubSeq(l, i, Len(l))
<1>1. /\ m \in Seq(IntervalType) /\ Len(m) = Len(l) - i + 1
      /\ \A j \in 1 .. Len(m) : m[j] = l[i + j - 1] /\ i + j - 1 \in i .. Len(l)
      /\ \A j \in i .. Len(l) : l[j] = m[j - i + 1] /\ j - i + 1 \in 1 .. Len(m)
  BY RestOfList
<1> HIDE DEF m
<1>2. CASE \A j \in 1 .. Len(l) : l[j].end <= t
  <2>1. ASSUME NEW j \in 1 .. Len(m) PROVE m[j].end <= t
    <3>1. m[j] = l[i + j - 1] /\ i + j - 1 \in 1 .. Len(l)
      BY <1>1
    <3>2. QED
      BY <1>2, <3>1
  <2>2. FirstOver(m, t) = [node |-> Null] /\ FirstOver(l, t) = [node |-> Null]
    BY <1>1, <1>2, <2>1, FirstOverNone
  <2>3. QED
    BY <2>2 DEF m
<1>3. ASSUME NEW c \in 1 .. Len(l), l[c].end > t, \A j \in 1 .. c - 1 : l[j].end <= t
      PROVE  FirstOver(m, t) = FirstOver(l, t)
  <2>1. l[c].end \in Int
    BY IntervalAt
  <2>2. ~(c \in 1 .. i - 1)
    BY <1>3, <2>1
  <2>3. c \in i .. Len(l)
    BY <2>2
  <2> DEFINE d == c - i + 1
  <2>4. d \in 1 .. Len(m) /\ m[d] = l[c]
    BY <1>1, <2>3
  <2>5. ASSUME NEW j \in 1 .. d - 1 PROVE m[j].end <= t
    <3>1. j \in 1 .. Len(m) /\ i + j - 1 \in 1 .. c - 1
      BY <1>1, <2>3, <2>4
    <3>2. QED
      BY <1>1, <1>3, <3>1
  <2> HIDE DEF d
  <2>6. FirstOver(m, t) = m[d]
    BY <1>1, <1>3, <2>4, <2>5, FirstOverIs
  <2>7. FirstOver(l, t) = l[c]
    BY <1>3, FirstOverIs
  <2>8. QED
    BY <2>4, <2>6, <2>7
<1>4. QED
  BY <1>2, <1>3, FirstOverExists DEF m

-----------------------------------------------------------------------------
(* Fingers and nodes.                                                      *)
Distinct(l) == \A i, j \in 1 .. Len(l) : l[i].node = l[j].node => i = j

LEMMA OwnIsDistinct ==
  ASSUME NEW rs, OwnNodes(rs), NEW k \in 1 .. Len(rs)
  PROVE  Distinct(rs[k].intervals)
  BY DEF OwnNodes, Distinct

LEMMA IntervalIs ==
  ASSUME NEW r, NEW i \in 1 .. Len(r.intervals), Distinct(r.intervals)
  PROVE  Interval(r, r.intervals[i].node) = i
<1>1. \A j \in 1 .. Len(r.intervals) : r.intervals[j].node = r.intervals[i].node => j = i
  BY DEF Distinct
<1>2. QED
  BY <1>1 DEF Interval

LEMMA IntervalsFromIs ==
  ASSUME NEW rs, OwnNodes(rs), NEW k \in 1 .. Len(rs), NEW i \in 1 .. Len(rs[k].intervals)
  PROVE  IntervalsFrom(rs, rs[k].intervals[i].node)
           = SubSeq(rs[k].intervals, i, Len(rs[k].intervals))
<1> DEFINE node == rs[k].intervals[i].node
           lists == {rs[j].intervals : j \in 1 .. Len(rs)}
           l == CHOOSE l \in lists : \E j \in 1 .. Len(l) : l[j].node = node
<1>1. IntervalsFrom(rs, node)
        = SubSeq(l, CHOOSE j \in 1 .. Len(l) : l[j].node = node, Len(l))
  BY DEF IntervalsFrom, From
<1>2. rs[k].intervals \in lists /\ \E j \in 1 .. Len(rs[k].intervals) : rs[k].intervals[j].node = node
  OBVIOUS
<1>3. ASSUME NEW m \in lists, NEW j \in 1 .. Len(m), m[j].node = node PROVE m = rs[k].intervals
  <2>1. PICK h \in 1 .. Len(rs) : m = rs[h].intervals
    OBVIOUS
  <2>2. h = k
    BY <1>3, <2>1 DEF OwnNodes
  <2>3. QED
    BY <2>1, <2>2
<1>4. l = rs[k].intervals
  <2>1. l \in lists /\ \E j \in 1 .. Len(l) : l[j].node = node
    BY <1>2
  <2> HIDE DEF l, node
  <2>2. QED
    BY <1>3, <2>1
<1> HIDE DEF l
<1>5. \A j \in 1 .. Len(rs[k].intervals) : rs[k].intervals[j].node = node => j = i
  BY DEF OwnNodes
<1>6. (CHOOSE j \in 1 .. Len(rs[k].intervals) : rs[k].intervals[j].node = node) = i
  BY <1>5
<1>7. QED
  BY <1>1, <1>4, <1>6

(* A range that can be scheduled and cut.                                  *)
Whole(r) ==
  /\ r \in RangeType /\ r.intervals # <<>> /\ Ascending(r.intervals)
  /\ r.last = r.intervals[Len(r.intervals)].node
  /\ InOrder(r.uses) /\ \A u \in UsesOf(r) : Reaches(r.intervals, u.pos)

LEMMA WholeSpans ==
  ASSUME NEW r, Whole(r)
  PROVE  LET l == r.intervals
         IN  /\ l \in Seq(IntervalType) /\ Len(l) \in Nat /\ 1 \in 1 .. Len(l) /\ Len(l) \in 1 .. Len(l)
             /\ StartOf(r) = l[1].start
             /\ \A i \in 1 .. Len(l) : /\ l[i].start \in Int /\ l[i].end \in Int /\ l[i].node \in Nat
                                       /\ l[i].start < l[i].end
                                       /\ StartOf(r) <= l[i].start /\ l[i].end <= l[Len(l)].end
             /\ \A i, j \in 1 .. Len(l) : i < j => l[i].end <= l[j].start
<1> DEFINE l == r.intervals
<1>1. l \in Seq(IntervalType) /\ l # <<>>
  BY DEF Whole, RangeType
<1>2. Len(l) \in Nat /\ 1 \in 1 .. Len(l) /\ Len(l) \in 1 .. Len(l)
  BY <1>1
<1>3. StartOf(r) = l[1].start
  BY DEF StartOf
<1>4. \A i, j \in 1 .. Len(l) : i < j => l[i].end <= l[j].start
  BY DEF Whole, Ascending
<1>5. ASSUME NEW i \in 1 .. Len(l)
      PROVE  /\ l[i].start \in Int /\ l[i].end \in Int /\ l[i].node \in Nat /\ l[i].start < l[i].end
             /\ StartOf(r) <= l[i].start /\ l[i].end <= l[Len(l)].end
  <2>1. \A j \in 1 .. Len(l) : l[j].start \in Int /\ l[j].end \in Int /\ l[j].node \in Nat
                               /\ l[j].start < l[j].end
    BY <1>1, IntervalAt DEF Whole, Ascending
  <2>2. StartOf(r) <= l[i].start
    <3>1. CASE i = 1
      BY <1>2, <1>3, <2>1, <3>1
    <3>2. CASE 1 < i
      <4>1. l[1].end <= l[i].start
        BY <1>2, <1>4, <3>2
      <4>2. QED
        BY <1>2, <1>3, <2>1, <4>1
    <3>3. QED
      BY <1>2, <3>1, <3>2
  <2>3. l[i].end <= l[Len(l)].end
    <3>1. CASE i = Len(l)
      BY <1>2, <2>1, <3>1
    <3>2. CASE i < Len(l)
      <4>1. l[i].end <= l[Len(l)].start
        BY <1>2, <1>4, <3>2
      <4>2. QED
        BY <1>2, <2>1, <4>1
    <3>3. QED
      BY <1>2, <3>1, <3>2
  <2>4. QED
    BY <2>1, <2>2, <2>3
<1>6. QED
  BY <1>1, <1>2, <1>3, <1>4, <1>5

LEMMA WholeEnds ==
  ASSUME NEW r, Whole(r), Distinct(r.intervals)
  PROVE  /\ EndOf(r) = r.intervals[Len(r.intervals)].end
         /\ StartOf(r) \in Int /\ EndOf(r) \in Int /\ StartOf(r) < EndOf(r)
<1>1. Len(r.intervals) \in 1 .. Len(r.intervals) /\ r.last = r.intervals[Len(r.intervals)].node
  BY WholeSpans DEF Whole
<1>2. Interval(r, r.last) = Len(r.intervals)
  BY <1>1, IntervalIs
<1>3. EndOf(r) = r.intervals[Len(r.intervals)].end
  BY <1>2 DEF EndOf
<1>4. QED
  BY <1>1, <1>3, WholeSpans

(* What the cached finger is good for: the interval to cut is the first    *)
(* that ends behind the cut.                                               *)
LEMMA CutAtFirstOver ==
  ASSUME NEW rs, OwnNodes(rs), NEW k \in 1 .. Len(rs), Whole(rs[k]),
         NEW r, r.intervals = rs[k].intervals, NEW p \in Int,
         NEW a \in 1 .. Len(r.intervals), r.pending = r.intervals[a].node,
         r.pending # Null, \A j \in 1 .. a - 1 : r.intervals[j].end <= p,
         NEW c \in 1 .. Len(r.intervals), r.intervals[c].end > p,
         \A j \in 1 .. c - 1 : r.intervals[j].end <= p
  PROVE  CutAt(rs, r, p) = c
<1> DEFINE l == r.intervals
           from == IF r.pending = Null THEN r.intervals[1].node ELSE r.pending
           head == IF p <= IntervalsFrom(rs, from)[1].start THEN r.intervals[1].node ELSE from
<1>1. l \in Seq(IntervalType) /\ 1 \in 1 .. Len(l) /\ Distinct(l)
  BY WholeSpans, OwnIsDistinct
<1>2. from = l[a].node
  OBVIOUS
<1>3. PICK b \in 1 .. Len(l) : head = l[b].node /\ \A j \in 1 .. b - 1 : l[j].end <= p
  <2>1. CASE head = l[1].node
    <3>1. \A j \in 1 .. 1 - 1 : l[j].end <= p
      OBVIOUS
    <3> HIDE DEF l, head
    <3>2. QED
      BY <1>1, <2>1, <3>1
  <2>2. CASE head = from
    BY <1>2, <2>2
  <2>3. QED
    BY <2>1, <2>2
<1> HIDE DEF head, from
<1>4. IntervalsFrom(rs, head) = SubSeq(l, b, Len(l))
  BY <1>3, IntervalsFromIs
<1>5. FirstOver(SubSeq(l, b, Len(l)), p) = FirstOver(l, p)
  BY <1>1, <1>3, FirstOverFrom
<1>6. FirstOver(l, p) = l[c]
  BY <1>1, FirstOverIs
<1>7. FirstOver(IntervalsFrom(rs, head), p).node = l[c].node
  BY <1>4, <1>5, <1>6
<1>8. CutAt(rs, r, p) = Interval(r, FirstOver(IntervalsFrom(rs, head), p).node)
  BY DEF CutAt, head, from, FirstOver
<1>9. QED
  BY <1>1, <1>7, <1>8, IntervalIs

-----------------------------------------------------------------------------
(* The two lists a cut leaves.                                             *)
CutInto(l, c, p, fresh, kept, moved) ==
  /\ kept \in Seq(IntervalType) /\ moved \in Seq(IntervalType)
  /\ Len(kept) = IF l[c].start < p THEN c ELSE c - 1
  /\ \A i \in 1 .. c - 1 : kept[i] = l[i]
  /\ l[c].start < p => kept[c].start = l[c].start /\ kept[c].end = p /\ kept[c].node = l[c].node
  /\ Len(moved) = Len(l) - c + 1
  /\ moved[1].start = IF l[c].start < p THEN p ELSE l[c].start
  /\ moved[1].end = l[c].end
  /\ moved[1].node = IF l[c].start < p THEN fresh ELSE l[c].node
  /\ \A i \in 2 .. Len(moved) : moved[i] = l[c + i - 1] /\ c + i - 1 \in c + 1 .. Len(l)
  /\ \A i \in c + 1 .. Len(l) : l[i] = moved[i - c + 1] /\ i - c + 1 \in 2 .. Len(moved)

LEMMA CutLists ==
  ASSUME NEW r, NEW l \in Seq(IntervalType), r.intervals = l, NEW c \in 1 .. Len(l),
         NEW p \in Positions, p < l[c].end, l[c].start < p => 1 <= p, NEW fresh \in Nat
  PROVE  CutInto(l, c, p, fresh, KeptIntervals(r, c, p), MovedIntervals(r, c, p, fresh))
<1> DEFINE kept == KeptIntervals(r, c, p)
           moved == MovedIntervals(r, c, p, fresh)
           front == SubSeq(l, 1, c - 1)
           back == SubSeq(l, c + 1, Len(l))
           last == [l[c] EXCEPT !.end = p]
           first == [node |-> fresh, start |-> p, end |-> l[c].end]
<1>1. Len(l) \in Nat /\ c \in Int /\ 1 <= c /\ c <= Len(l) /\ l[c] \in IntervalType
  OBVIOUS
<1>2. Limit \in Nat /\ l[c].start \in Int /\ l[c].end \in 1 .. Limit /\ p \in Int
  <2>1. Limit \in Nat
    BY BlockStarts, SizeAssumption DEF Limit
  <2>2. l[c].start \in Positions /\ l[c].end \in 1 .. Limit
    BY <1>1 DEF IntervalType
  <2>3. QED
    BY <2>1, <2>2 DEF Positions
<1>3. /\ front \in Seq(IntervalType) /\ Len(front) = c - 1
      /\ \A i \in 1 .. c - 1 : front[i] = l[i]
  <2>1. \A i \in 1 .. c - 1 : l[i] \in IntervalType
    BY <1>1
  <2>2. /\ front \in Seq(IntervalType)
        /\ Len(front) = IF 1 <= c - 1 THEN c - 1 - 1 + 1 ELSE 0
        /\ \A i \in 1 .. c - 1 - 1 + 1 : front[i] = l[1 + i - 1]
    BY <1>1, <2>1, SubSeqProperties
  <2>3. \A i \in 1 .. c - 1 : i \in 1 .. c - 1 - 1 + 1 /\ 1 + i - 1 = i
    BY <1>1
  <2>4. QED
    BY <1>1, <2>2, <2>3
<1>4. /\ back \in Seq(IntervalType) /\ Len(back) = Len(l) - c
      /\ \A i \in 1 .. Len(l) - c : back[i] = l[c + i]
  <2>1. \A i \in c + 1 .. Len(l) : l[i] \in IntervalType
    BY <1>1
  <2>2. /\ back \in Seq(IntervalType)
        /\ Len(back) = IF c + 1 <= Len(l) THEN Len(l) - (c + 1) + 1 ELSE 0
        /\ \A i \in 1 .. Len(l) - (c + 1) + 1 : back[i] = l[c + 1 + i - 1]
    BY <1>1, <2>1, SubSeqProperties
  <2>3. \A i \in 1 .. Len(l) - c : i \in 1 .. Len(l) - (c + 1) + 1 /\ c + 1 + i - 1 = c + i
    BY <1>1
  <2>4. QED
    BY <1>1, <2>2, <2>3
<1>5. l[c].start < p => last \in IntervalType /\ last.end = p /\ last.start = l[c].start /\ last.node = l[c].node
  <2>1. l[c].start < p => p \in 1 .. Limit
    BY <1>2
  <2>2. QED
    BY <1>1, <2>1, NewEnds
<1>6. first \in IntervalType /\ first.node = fresh /\ first.start = p /\ first.end = l[c].end
  BY <1>2 DEF IntervalType
<1> HIDE DEF front, back, last, first
<1>7. kept = front \o IF l[c].start < p THEN <<last>> ELSE <<>>
  BY DEF KeptIntervals, front, last
<1>8. moved = (IF l[c].start < p THEN <<first>> ELSE <<l[c]>>) \o back
  BY DEF MovedIntervals, back, first
<1> HIDE DEF kept, moved
<1>9. /\ kept \in Seq(IntervalType)
      /\ Len(kept) = IF l[c].start < p THEN c ELSE c - 1
      /\ \A i \in 1 .. c - 1 : kept[i] = l[i]
      /\ l[c].start < p => kept[c].start = l[c].start /\ kept[c].end = p /\ kept[c].node = l[c].node
  <2>1. CASE l[c].start < p
    <3>1. <<last>> \in Seq(IntervalType) /\ Len(<<last>>) = 1 /\ <<last>>[1] = last
      BY <1>5, <2>1
    <3>2. /\ kept \in Seq(IntervalType) /\ Len(kept) = Len(front) + 1
          /\ \A i \in 1 .. Len(front) + 1 : kept[i] = IF i <= Len(front) THEN front[i] ELSE <<last>>[i - Len(front)]
      BY <1>3, <1>7, <2>1, <3>1, ConcatProperties
    <3>3. \A i \in 1 .. c - 1 : kept[i] = l[i]
      BY <1>1, <1>3, <3>2, SMTT(30)
    <3>4. kept[c] = last
      BY <1>1, <1>3, <3>1, <3>2
    <3>5. QED
      BY <1>1, <1>3, <1>5, <2>1, <3>2, <3>3, <3>4
  <2>2. CASE ~(l[c].start < p)
    <3>1. kept = front
      BY <1>3, <1>7, <2>2, ConcatEmptySeq
    <3>2. QED
      BY <1>1, <1>3, <2>2, <3>1
  <2>3. QED
    BY <2>1, <2>2
<1>10. /\ moved \in Seq(IntervalType) /\ Len(moved) = Len(l) - c + 1
       /\ moved[1].start = IF l[c].start < p THEN p ELSE l[c].start
       /\ moved[1].end = l[c].end
       /\ moved[1].node = IF l[c].start < p THEN fresh ELSE l[c].node
       /\ \A i \in 2 .. Len(moved) : moved[i] = back[i - 1]
  <2> DEFINE x == IF l[c].start < p THEN first ELSE l[c]
  <2>1. x \in IntervalType
    BY <1>1, <1>6
  <2>2. moved = <<x>> \o back
    BY <1>8
  <2>3. x.start = (IF l[c].start < p THEN p ELSE l[c].start) /\ x.end = l[c].end
        /\ x.node = IF l[c].start < p THEN fresh ELSE l[c].node
    BY <1>6
  <2> HIDE DEF x
  <2>9. back \in Seq(IntervalType)
    BY <1>4
  <2>10. LET m == <<x>> \o back
         IN  m \in Seq(IntervalType) /\ Len(m) = Len(back) + 1 /\ m[1] = x
             /\ \A i \in 2 .. Len(m) : m[i] = back[i - 1]
    BY <2>1, <2>9, Prepended
  <2>4. moved \in Seq(IntervalType) /\ Len(moved) = Len(back) + 1 /\ moved[1] = x
        /\ \A i \in 2 .. Len(moved) : moved[i] = back[i - 1]
    BY <2>2, <2>10
  <2>5. moved[1] = x
    BY <2>4
  <2>6. Len(moved) = Len(l) - c + 1
    BY <1>1, <1>4, <2>4
  <2>7. /\ moved[1].start = IF l[c].start < p THEN p ELSE l[c].start
        /\ moved[1].end = l[c].end
        /\ moved[1].node = IF l[c].start < p THEN fresh ELSE l[c].node
    BY <2>3, <2>5
  <2>8. QED
    BY <2>4, <2>6, <2>7
<1>11. ASSUME NEW i \in 2 .. Len(moved)
       PROVE  moved[i] = l[c + i - 1] /\ c + i - 1 \in c + 1 .. Len(l)
  <2>1. i - 1 \in 1 .. Len(l) - c /\ c + (i - 1) = c + i - 1
    BY <1>1, <1>10
  <2>2. back[i - 1] = l[c + i - 1]
    BY <1>4, <2>1
  <2>3. QED
    BY <1>1, <1>10, <2>1, <2>2
<1>12. ASSUME NEW i \in c + 1 .. Len(l)
       PROVE  l[i] = moved[i - c + 1] /\ i - c + 1 \in 2 .. Len(moved)
  <2>1. i - c + 1 \in 2 .. Len(moved) /\ c + (i - c + 1) - 1 = i
    BY <1>1, <1>10
  <2>2. moved[i - c + 1] = l[c + (i - c + 1) - 1]
    BY <1>11, <2>1
  <2>3. QED
    BY <2>1, <2>2
<1>13. QED
  BY <1>9, <1>10, <1>11, <1>12 DEF CutInto, kept, moved

(* The same by each interval of the two lists.                             *)
LEMMA CutPlaces ==
  ASSUME NEW l \in Seq(IntervalType), Ascending(l), NEW c \in 1 .. Len(l), NEW p \in Int,
         l[c].end > p, \A j \in 1 .. c - 1 : l[j].end <= p,
         NEW fresh, NEW kept, NEW moved, CutInto(l, c, p, fresh, kept, moved)
  PROVE  /\ Len(kept) = (IF l[c].start < p THEN c ELSE c - 1) /\ Len(moved) = Len(l) - c + 1
         /\ \A i \in 1 .. Len(kept) :
              /\ i \in 1 .. Len(l)
              /\ kept[i].start = l[i].start /\ kept[i].node = l[i].node
              /\ kept[i].end = (IF l[i].end <= p THEN l[i].end ELSE p)
              /\ l[i].start < p
         /\ \A i \in 1 .. Len(moved) :
              /\ c + i - 1 \in 1 .. Len(l)
              /\ moved[i].start = (IF l[c + i - 1].start < p THEN p ELSE l[c + i - 1].start)
              /\ moved[i].end = l[c + i - 1].end /\ l[c + i - 1].end > p
              /\ moved[i].node = (IF i = 1 /\ l[c].start < p THEN fresh ELSE l[c + i - 1].node)
         /\ \A i \in 1 .. Len(l) : /\ l[i].start < p => i \in 1 .. Len(kept)
                                   /\ i \in 1 .. c - 1 => i \in 1 .. Len(kept)
                                   /\ i \in c .. Len(l) => i - c + 1 \in 1 .. Len(moved)
                                   /\ l[i].end > p => i \in c .. Len(l)
<1>1. /\ Len(l) \in Nat /\ c \in Int /\ 1 <= c /\ c <= Len(l)
      /\ \A i \in 1 .. Len(l) : l[i].start \in Int /\ l[i].end \in Int /\ l[i].start < l[i].end
  BY IntervalAt DEF Ascending
<1>2. \A i, j \in 1 .. Len(l) : i < j => l[i].end <= l[j].start
  BY DEF Ascending
<1>3. Len(kept) = (IF l[c].start < p THEN c ELSE c - 1) /\ Len(moved) = Len(l) - c + 1
  BY DEF CutInto
<1>4. ASSUME NEW i \in c + 1 .. Len(l) PROVE l[i].start > p /\ l[i].end > p
  <2>1. l[c].end <= l[i].start
    BY <1>1, <1>2, <1>4
  <2>2. QED
    BY <1>1, <1>4, <2>1
<1>5. ASSUME NEW i \in 1 .. c - 1 PROVE l[i].start < p /\ l[i].end <= p /\ i \in 1 .. Len(l)
  BY <1>1, <1>5
<1>6. ASSUME NEW i \in 1 .. Len(kept)
      PROVE  /\ i \in 1 .. Len(l)
             /\ kept[i].start = l[i].start /\ kept[i].node = l[i].node
             /\ kept[i].end = (IF l[i].end <= p THEN l[i].end ELSE p)
             /\ l[i].start < p
  <2>1. CASE i \in 1 .. c - 1
    <3>1. kept[i] = l[i]
      BY <2>1 DEF CutInto
    <3>2. QED
      BY <1>5, <2>1, <3>1
  <2>2. CASE i = c /\ l[c].start < p
    BY <1>1, <2>2 DEF CutInto
  <2>3. QED
    BY <1>1, <1>3, <2>1, <2>2
<1>7. ASSUME NEW i \in 1 .. Len(moved)
      PROVE  /\ c + i - 1 \in 1 .. Len(l)
             /\ moved[i].start = (IF l[c + i - 1].start < p THEN p ELSE l[c + i - 1].start)
             /\ moved[i].end = l[c + i - 1].end /\ l[c + i - 1].end > p
             /\ moved[i].node = (IF i = 1 /\ l[c].start < p THEN fresh ELSE l[c + i - 1].node)
  <2>1. CASE i = 1
    <3>1. c + i - 1 = c
      BY <1>1, <2>1
    <3>2. QED
      BY <1>1, <2>1, <3>1 DEF CutInto
  <2>2. CASE i # 1
    <3>1. i \in 2 .. Len(moved)
      BY <1>1, <1>3, <2>2
    <3>2. moved[i] = l[c + i - 1] /\ c + i - 1 \in c + 1 .. Len(l)
      BY <3>1 DEF CutInto
    <3>3. l[c + i - 1].start > p /\ l[c + i - 1].end > p
      BY <1>4, <3>2
    <3>4. c + i - 1 \in 1 .. Len(l)
      BY <1>1, <3>2
    <3>5. ~(l[c + i - 1].start < p)
      BY <1>1, <3>3, <3>4
    <3>6. QED
      BY <2>2, <3>2, <3>3, <3>4, <3>5
  <2>3. QED
    BY <2>1, <2>2
<1>8. ASSUME NEW i \in 1 .. Len(l)
      PROVE  /\ l[i].start < p => i \in 1 .. Len(kept)
             /\ i \in 1 .. c - 1 => i \in 1 .. Len(kept)
             /\ i \in c .. Len(l) => i - c + 1 \in 1 .. Len(moved)
             /\ l[i].end > p => i \in c .. Len(l)
  <2>1. i \in 1 .. c - 1 => i \in 1 .. Len(kept)
    BY <1>1, <1>3
  <2>2. i \in c .. Len(l) => i - c + 1 \in 1 .. Len(moved)
    BY <1>1, <1>3
  <2>3. ASSUME l[i].start < p PROVE i \in 1 .. Len(kept)
    <3>1. ~(i \in c + 1 .. Len(l))
      BY <1>1, <1>4, <2>3
    <3>2. i \in 1 .. c - 1 \/ i = c
      BY <1>1, <3>1
    <3>3. QED
      BY <1>1, <1>3, <2>1, <2>3, <3>2
  <2>4. ASSUME l[i].end > p PROVE i \in c .. Len(l)
    <3>1. ~(i \in 1 .. c - 1)
      BY <1>1, <1>5, <2>4
    <3>2. QED
      BY <1>1, <3>1
  <2>5. QED
    BY <2>1, <2>2, <2>3, <2>4
<1>9. QED
  BY <1>3, <1>6, <1>7, <1>8

LEMMA CutSpans ==
  ASSUME NEW l \in Seq(IntervalType), Ascending(l), NEW c \in 1 .. Len(l), NEW p \in Int,
         l[c].end > p, \A j \in 1 .. c - 1 : l[j].end <= p, l[1].start < p,
         NEW fresh, NEW kept, NEW moved, CutInto(l, c, p, fresh, kept, moved)
  PROVE  /\ kept # <<>> /\ Ascending(kept) /\ moved # <<>> /\ Ascending(moved)
         /\ kept[1].start = l[1].start /\ kept[1].node = l[1].node /\ kept[Len(kept)].end <= p
         /\ p <= moved[1].start /\ moved[Len(moved)].end = l[Len(l)].end
         /\ Distinct(l) =>
              moved[Len(moved)].node = IF kept[Len(kept)].node = l[Len(l)].node
                                       THEN moved[1].node ELSE l[Len(l)].node
         /\ \A q \in Int : /\ Holds(kept, q) <=> Holds(l, q) /\ q < p
                           /\ Holds(moved, q) <=> Holds(l, q) /\ q >= p
         /\ \A q \in Int : Reaches(l, q) =>
              IF q < (IF l[c].start = p THEN p ELSE p + 1) THEN Reaches(kept, q) ELSE Reaches(moved, q)
<1>1. /\ Len(l) \in Nat /\ c \in Int /\ 1 <= c /\ c <= Len(l)
      /\ \A i \in 1 .. Len(l) : l[i].start \in Int /\ l[i].end \in Int /\ l[i].start < l[i].end
  BY IntervalAt DEF Ascending
<1>2. \A i, j \in 1 .. Len(l) : i < j => l[i].end <= l[j].start
  BY DEF Ascending
<1>3. Len(kept) = (IF l[c].start < p THEN c ELSE c - 1) /\ Len(moved) = Len(l) - c + 1
  BY CutPlaces
<1>4. \A i \in 1 .. Len(kept) :
        /\ i \in 1 .. Len(l)
        /\ kept[i].start = l[i].start /\ kept[i].node = l[i].node
        /\ kept[i].end = (IF l[i].end <= p THEN l[i].end ELSE p)
        /\ l[i].start < p
  BY CutPlaces
<1>5. \A i \in 1 .. Len(moved) :
        /\ c + i - 1 \in 1 .. Len(l)
        /\ moved[i].start = (IF l[c + i - 1].start < p THEN p ELSE l[c + i - 1].start)
        /\ moved[i].end = l[c + i - 1].end /\ l[c + i - 1].end > p
        /\ moved[i].node = (IF i = 1 /\ l[c].start < p THEN fresh ELSE l[c + i - 1].node)
  BY CutPlaces
<1>6. \A i \in 1 .. Len(l) : /\ l[i].start < p => i \in 1 .. Len(kept)
                             /\ i \in 1 .. c - 1 => i \in 1 .. Len(kept)
                             /\ i \in c .. Len(l) => i - c + 1 \in 1 .. Len(moved)
                             /\ l[i].end > p => i \in c .. Len(l)
  BY CutPlaces
<1>7. kept \in Seq(IntervalType) /\ moved \in Seq(IntervalType)
  BY DEF CutInto
<1>8. Len(kept) \in Nat /\ 1 \in 1 .. Len(kept) /\ Len(moved) \in Nat /\ 1 \in 1 .. Len(moved)
      /\ Len(kept) \in 1 .. Len(kept) /\ Len(moved) \in 1 .. Len(moved) /\ 1 \in 1 .. Len(l)
      /\ Len(l) \in 1 .. Len(l)
  BY <1>1, <1>3, <1>6
<1>9. Ascending(kept)
  <2>1. ASSUME NEW i \in 1 .. Len(kept) PROVE kept[i].start < kept[i].end
    BY <1>1, <1>4
  <2>2. ASSUME NEW i \in 1 .. Len(kept), NEW j \in 1 .. Len(kept), i < j
        PROVE  kept[i].end <= kept[j].start
    <3>1. l[i].end <= l[j].start /\ l[j].start < p
      BY <1>2, <1>4, <2>2
    <3>2. QED
      BY <1>1, <1>4, <3>1
  <2>3. QED
    BY <2>1, <2>2 DEF Ascending
<1>10. Ascending(moved)
  <2>1. ASSUME NEW i \in 1 .. Len(moved) PROVE moved[i].start < moved[i].end
    BY <1>1, <1>5
  <2>2. ASSUME NEW i \in 1 .. Len(moved), NEW j \in 1 .. Len(moved), i < j
        PROVE  moved[i].end <= moved[j].start
    <3>1. c + i - 1 \in 1 .. Len(l) /\ c + j - 1 \in 1 .. Len(l) /\ c + i - 1 < c + j - 1
      BY <1>1, <1>5, <2>2
    <3>2. l[c + i - 1].end <= l[c + j - 1].start
      BY <1>2, <3>1
    <3>3. moved[i].end = l[c + i - 1].end /\ moved[j].start >= l[c + j - 1].start
      <4>1. l[c + j - 1].start \in Int
        BY <1>1, <3>1
      <4>2. QED
        BY <1>5, <4>1, SMTT(30)
    <3>4. l[c + i - 1].end \in Int /\ l[c + j - 1].start \in Int
      BY <1>1, <3>1
    <3>5. moved[j].start \in Int
      BY <1>5, <3>4
    <3>6. QED
      BY <3>2, <3>3, <3>4, <3>5, SMTT(30)
  <2>3. QED
    BY <2>1, <2>2 DEF Ascending
<1>11. kept[Len(kept)].end <= p
  BY <1>1, <1>4, <1>8, SMTT(30)
<1>12. p <= moved[1].start
  BY <1>1, <1>5, <1>8
<1>13. c + Len(moved) - 1 = Len(l)
  BY <1>1, <1>3
<1>14. moved[Len(moved)].end = l[Len(l)].end
  BY <1>5, <1>8, <1>13
<1>15. ASSUME Distinct(l)
       PROVE  moved[Len(moved)].node = IF kept[Len(kept)].node = l[Len(l)].node
                                       THEN moved[1].node ELSE l[Len(l)].node
  <2>1. kept[Len(kept)].node = l[Len(kept)].node /\ Len(kept) \in 1 .. Len(l)
    BY <1>4, <1>8
  <2>2. kept[Len(kept)].node = l[Len(l)].node => Len(kept) = Len(l)
    BY <1>8, <1>15, <2>1 DEF Distinct
  <2>3. CASE Len(kept) = Len(l)
    <3>1. Len(moved) = 1
      BY <1>1, <1>3, <1>8, <2>3
    <3>2. QED
      BY <2>1, <2>3, <3>1
  <2>4. CASE Len(kept) # Len(l)
    <3>1. Len(moved) = 1 => ~(l[c].start < p)
      <4>1. SUFFICES ASSUME Len(moved) = 1, l[c].start < p PROVE FALSE
        OBVIOUS
      <4>2. Len(l) - c + 1 = 1 /\ Len(kept) = c
        BY <1>3, <4>1
      <4>3. QED
        BY <1>1, <2>4, <4>2
    <3>2. moved[Len(moved)].node = l[Len(l)].node
      BY <1>5, <1>8, <1>13, <3>1
    <3>3. QED
      BY <2>2, <2>4, <3>2
  <2>5. QED
    BY <2>3, <2>4
<1>16. ASSUME NEW q \in Int
       PROVE  /\ Holds(kept, q) <=> Holds(l, q) /\ q < p
              /\ Holds(moved, q) <=> Holds(l, q) /\ q >= p
  <2>1. ASSUME Holds(kept, q) PROVE Holds(l, q) /\ q < p
    <3>1. PICK i \in 1 .. Len(kept) : kept[i].start <= q /\ q < kept[i].end
      BY <2>1 DEF Holds
    <3>2. i \in 1 .. Len(l) /\ l[i].start <= q /\ q < l[i].end /\ q < p
      BY <1>1, <1>4, <3>1
    <3>3. QED
      BY <3>2 DEF Holds
  <2>2. ASSUME Holds(l, q), q < p PROVE Holds(kept, q)
    <3>1. PICK i \in 1 .. Len(l) : l[i].start <= q /\ q < l[i].end
      BY <2>2 DEF Holds
    <3>2. i \in 1 .. Len(kept)
      BY <1>1, <1>6, <2>2, <3>1
    <3>3. kept[i].start <= q /\ q < kept[i].end
      BY <1>1, <1>4, <2>2, <3>1, <3>2
    <3>4. QED
      BY <3>2, <3>3 DEF Holds
  <2>3. ASSUME Holds(moved, q) PROVE Holds(l, q) /\ q >= p
    <3>1. PICK i \in 1 .. Len(moved) : moved[i].start <= q /\ q < moved[i].end
      BY <2>3 DEF Holds
    <3>2. PICK j \in 1 .. Len(l) : j = c + i - 1
      BY <1>5
    <3>5. moved[i].start = (IF l[j].start < p THEN p ELSE l[j].start) /\ moved[i].end = l[j].end
      BY <1>5, <3>2
    <3>6. l[j].start \in Int /\ l[j].end \in Int
      BY <1>1
    <3>3. l[j].start <= q /\ q < l[j].end /\ q >= p
      BY <3>1, <3>5, <3>6
    <3>4. QED
      BY <3>3 DEF Holds
  <2>4. ASSUME Holds(l, q), q >= p PROVE Holds(moved, q)
    <3>1. PICK i \in 1 .. Len(l) : l[i].start <= q /\ q < l[i].end
      BY <2>4 DEF Holds
    <3>7. l[i].end > p
      BY <1>1, <2>4, <3>1
    <3>2. i \in c .. Len(l)
      BY <1>6, <3>7
    <3>3. PICK j \in 1 .. Len(moved) : j = i - c + 1
      BY <1>6, <3>2
    <3>4. c + j - 1 = i
      BY <1>1, <3>3
    <3>5. moved[j].start <= q /\ q < moved[j].end
      BY <1>1, <1>5, <2>4, <3>1, <3>4
    <3>6. QED
      BY <3>5 DEF Holds
  <2>5. QED
    BY <2>1, <2>2, <2>3, <2>4
<1>17. ASSUME NEW q \in Int, Reaches(l, q), q < (IF l[c].start = p THEN p ELSE p + 1)
       PROVE  Reaches(kept, q)
  <2>1. PICK i \in 1 .. Len(l) : l[i].start <= q /\ q <= l[i].end
    BY <1>17 DEF Reaches
  <2>2. q <= p /\ (q = p => l[c].start # p)
    BY <1>17
  <2>3. i \in 1 .. Len(kept)
    <3>1. CASE l[i].start < p
      BY <1>6, <3>1
    <3>2. CASE ~(l[i].start < p)
      <4>1. l[i].start = p /\ q = p
        BY <1>1, <2>1, <2>2, <3>2
      <4>2. i # c
        BY <2>2, <4>1
      <4>3. i < c
        <5>1. c < i => l[c].end <= l[i].start
          BY <1>2
        <5>2. QED
          BY <1>1, <4>1, <4>2, <5>1
      <4>4. QED
        BY <1>1, <1>6, <4>3
    <3>3. QED
      BY <3>1, <3>2
  <2>4. kept[i].start <= q /\ q <= kept[i].end
    BY <1>1, <1>4, <2>1, <2>2, <2>3
  <2>5. QED
    BY <2>3, <2>4 DEF Reaches
<1>18. ASSUME NEW q \in Int, Reaches(l, q), ~(q < (IF l[c].start = p THEN p ELSE p + 1))
       PROVE  Reaches(moved, q)
  <2>1. PICK i \in 1 .. Len(l) : l[i].start <= q /\ q <= l[i].end
    BY <1>18 DEF Reaches
  <2>2. q >= p /\ (q = p => l[c].start = p)
    BY <1>18
  <2>3. CASE l[i].end > p
    <3>1. i \in c .. Len(l)
      BY <1>6, <2>3
    <3>2. PICK j \in 1 .. Len(moved) : j = i - c + 1
      BY <1>6, <3>1
    <3>3. c + j - 1 = i
      BY <1>1, <3>2
    <3>4. moved[j].start <= q /\ q <= moved[j].end
      BY <1>1, <1>5, <2>1, <2>2, <3>3
    <3>5. QED
      BY <3>4 DEF Reaches
  <2>4. CASE ~(l[i].end > p)
    <3>1. q = p /\ l[c].start = p
      BY <1>1, <2>1, <2>2, <2>4
    <3>2. c + 1 - 1 = c
      BY <1>1
    <3>3. moved[1].start = p /\ moved[1].end = l[c].end
      BY <1>5, <1>8, <3>1, <3>2
    <3>4. QED
      BY <1>1, <1>8, <3>1, <3>3 DEF Reaches
  <2>5. QED
    BY <2>3, <2>4
<1>19. kept # <<>> /\ moved # <<>> /\ kept[1].start = l[1].start /\ kept[1].node = l[1].node
  BY <1>4, <1>7, <1>8
<1>20. QED
  BY <1>9, <1>10, <1>11, <1>12, <1>14, <1>15, <1>16, <1>17, <1>18, <1>19

(* The uses before a position are a prefix of an ordered list.             *)
LEMMA BeforeIsPrefix ==
  ASSUME NEW r, r.uses \in Seq(UseType), InOrder(r.uses), NEW q \in Int
  PROVE  /\ Before(r, q) \in 0 .. Len(r.uses)
         /\ \A i \in 1 .. Len(r.uses) : i <= Before(r, q) <=> r.uses[i].pos < q
<1> DEFINE w == r.uses
           n == Len(w)
           S == {i \in 1 .. n : w[i].pos < q}
           T == {i \in 1 .. n : ~(w[i].pos < q)}
<1>1. n \in Nat /\ \A i \in 1 .. n : w[i].pos \in Int
  <2>1. Limit \in Nat
    BY BlockStarts, SizeAssumption DEF Limit
  <2>2. ASSUME NEW i \in 1 .. n PROVE w[i].pos \in -1 .. Limit
    <3>1. w[i] \in UseType
      OBVIOUS
    <3>2. QED
      BY <3>1 DEF UseType
  <2>3. QED
    BY <2>1, <2>2
<1>2. Before(r, q) = Cardinality(S)
  BY DEF Before
<1>3. ASSUME NEW m \in 0 .. n, \A i \in 1 .. n : i <= m <=> w[i].pos < q
      PROVE  Before(r, q) = m
  <2>1. S = 1 .. m
    BY <1>1, <1>3
  <2>2. Cardinality(1 .. m) = m
    <3>1. m \in Int /\ 1 \in Int
      OBVIOUS
    <3>2. Cardinality(1 .. m) = IF 1 > m THEN 0 ELSE m - 1 + 1
      BY <3>1, FS_Interval
    <3>3. QED
      BY <1>1, <3>2
  <2>3. QED
    BY <1>2, <2>1, <2>2
<1>4. \E m \in 0 .. n : \A i \in 1 .. n : i <= m <=> w[i].pos < q
  <2>1. CASE T = {}
    <3>1. \A i \in 1 .. n : i <= n <=> w[i].pos < q
      BY <1>1, <2>1
    <3>2. QED
      BY <1>1, <3>1, SMTT(30)
  <2>2. CASE T # {}
    <3>1. T \in SUBSET Nat
      OBVIOUS
    <3>2. PICK m \in T : \A i \in T : m <= i
      BY <2>2, <3>1, LeastNatural
    <3>3. m \in 1 .. n /\ m - 1 \in 0 .. n /\ ~(w[m].pos < q)
      BY <1>1, <3>2
    <3>4. ASSUME NEW i \in 1 .. n PROVE i <= m - 1 <=> w[i].pos < q
      <4>1. i <= m - 1 => w[i].pos < q
        BY <1>1, <3>2, <3>3
      <4>2. ASSUME ~(i <= m - 1) PROVE ~(w[i].pos < q)
        <5>1. CASE i = m
          BY <3>3, <5>1
        <5>2. CASE m < i
          <6>1. w[m].pos <= w[i].pos
            BY <3>3, <5>2 DEF InOrder
          <6>2. w[m].pos \in Int /\ w[i].pos \in Int
            BY <1>1, <3>3
          <6>3. QED
            BY <3>3, <6>1, <6>2
        <5>3. QED
          BY <1>1, <3>3, <4>2, <5>1, <5>2
      <4>3. QED
        BY <4>1, <4>2
    <3>5. QED
      BY <3>3, <3>4
  <2>3. QED
    BY <2>1, <2>2
<1>5. QED
  BY <1>3, <1>4

(* split_lists shares the uses out.                                        *)
SharedOut(w, n, left, right) ==
  /\ left \in Seq(UseType) /\ Len(left) = n /\ InOrder(left)
  /\ right \in Seq(UseType) /\ Len(right) = Len(w) - n /\ InOrder(right)
  /\ \A i \in 1 .. n : left[i] = w[i]
  /\ \A i \in 1 .. Len(right) : right[i] = w[n + i] /\ n + i \in 1 .. Len(w)
  /\ \A i \in 1 .. Len(w) : i > n => i - n \in 1 .. Len(right) /\ w[i] = right[i - n]
  /\ \A i \in 1 .. n, j \in 1 .. Len(right) : left[i] # right[j]

LEMMA UsesShared ==
  ASSUME NEW w \in Seq(UseType), InOrder(w), NEW n \in 0 .. Len(w)
  PROVE  SharedOut(w, n, SubSeq(w, 1, n), SubSeq(w, n + 1, Len(w)))
<1> DEFINE left == SubSeq(w, 1, n)
           right == SubSeq(w, n + 1, Len(w))
<1>1. Len(w) \in Nat /\ n \in Int /\ 0 <= n /\ n <= Len(w) /\ \A i \in 1 .. Len(w) : w[i] \in UseType
  OBVIOUS
<1>2. left \in Seq(UseType) /\ Len(left) = n /\ \A i \in 1 .. n : left[i] = w[i]
  <2>1. \A i \in 1 .. n : w[i] \in UseType
    BY <1>1
  <2>2. /\ SubSeq(w, 1, n) \in Seq(UseType)
        /\ Len(SubSeq(w, 1, n)) = IF 1 <= n THEN n - 1 + 1 ELSE 0
        /\ \A i \in 1 .. n - 1 + 1 : SubSeq(w, 1, n)[i] = w[1 + i - 1]
    BY <1>1, <2>1, SubSeqProperties
  <2>3. \A i \in 1 .. n : i \in 1 .. n - 1 + 1 /\ 1 + i - 1 = i
    BY <1>1
  <2>4. QED
    BY <1>1, <2>2, <2>3
<1>3. right \in Seq(UseType) /\ Len(right) = Len(w) - n /\ \A i \in 1 .. Len(w) - n : right[i] = w[n + i]
  <2>1. \A i \in n + 1 .. Len(w) : w[i] \in UseType
    BY <1>1
  <2>2. /\ SubSeq(w, n + 1, Len(w)) \in Seq(UseType)
        /\ Len(SubSeq(w, n + 1, Len(w))) = IF n + 1 <= Len(w) THEN Len(w) - (n + 1) + 1 ELSE 0
        /\ \A i \in 1 .. Len(w) - (n + 1) + 1 : SubSeq(w, n + 1, Len(w))[i] = w[n + 1 + i - 1]
    BY <1>1, <2>1, SubSeqProperties
  <2>3. \A i \in 1 .. Len(w) - n : i \in 1 .. Len(w) - (n + 1) + 1 /\ n + 1 + i - 1 = n + i
    BY <1>1
  <2>4. QED
    BY <1>1, <2>2, <2>3
<1> HIDE DEF left, right
<1>4. \A i \in 1 .. Len(right) : right[i] = w[n + i] /\ n + i \in 1 .. Len(w)
  BY <1>1, <1>3
<1>5. ASSUME NEW i \in 1 .. Len(w), i > n PROVE i - n \in 1 .. Len(right) /\ w[i] = right[i - n]
  <2>1. i - n \in 1 .. Len(right) /\ n + (i - n) = i
    BY <1>1, <1>3, <1>5
  <2>2. right[i - n] = w[n + (i - n)]
    BY <1>4, <2>1
  <2>3. QED
    BY <2>1, <2>2
<1>6. InOrder(left)
  <2> SUFFICES ASSUME NEW i \in 1 .. Len(left), NEW j \in 1 .. Len(left), i < j
               PROVE  left[i].pos <= left[j].pos /\ left[i] # left[j]
    BY DEF InOrder
  <2>1. i \in 1 .. Len(w) /\ j \in 1 .. Len(w) /\ left[i] = w[i] /\ left[j] = w[j]
    BY <1>1, <1>2
  <2>2. QED
    BY <2>1 DEF InOrder
<1>7. InOrder(right)
  <2> SUFFICES ASSUME NEW i \in 1 .. Len(right), NEW j \in 1 .. Len(right), i < j
               PROVE  right[i].pos <= right[j].pos /\ right[i] # right[j]
    BY DEF InOrder
  <2>1. n + i \in 1 .. Len(w) /\ n + j \in 1 .. Len(w) /\ n + i < n + j
    BY <1>1, <1>3, <1>4
  <2>2. w[n + i].pos <= w[n + j].pos /\ w[n + i] # w[n + j]
    BY <2>1 DEF InOrder
  <2>3. QED
    BY <1>4, <2>2
<1>8. ASSUME NEW i \in 1 .. n, NEW j \in 1 .. Len(right) PROVE left[i] # right[j]
  <2>1. i \in 1 .. Len(w) /\ n + j \in 1 .. Len(w) /\ i < n + j
    BY <1>1, <1>3, <1>4
  <2>2. w[i] # w[n + j]
    BY <2>1 DEF InOrder
  <2>3. QED
    BY <1>2, <1>4, <2>2
<1>9. QED
  BY <1>2, <1>3, <1>4, <1>5, <1>6, <1>7, <1>8 DEF SharedOut, left, right

-----------------------------------------------------------------------------
(* The two ranges a cut leaves.                                            *)
FirstUse(r) == IF r.uses = <<>> THEN NoUse ELSE r.uses[1]

Moving(r, c, p) == SubSeq(r.uses, KeptUses(r, c, p) + 1, Len(r.uses))
Kept(r, c, p) ==
  [r EXCEPT !.intervals = KeptIntervals(r, c, p),
            !.last = KeptIntervals(r, c, p)[Len(KeptIntervals(r, c, p))].node,
            !.uses = SubSeq(@, 1, KeptUses(r, c, p)),
            !.register = Updated(@, Moving(r, c, p))]
Moved(r, c, p, fresh) ==
  [intervals |-> MovedIntervals(r, c, p, fresh), uses |-> Moving(r, c, p),
   pending |-> Null, register |-> NoUse,
   last |-> IF KeptIntervals(r, c, p)[Len(KeptIntervals(r, c, p))].node = r.last
            THEN MovedIntervals(r, c, p, fresh)[1].node ELSE r.last]

NodesShared(l, c, fresh, kept, moved) ==
  /\ Len(kept) = c \/ Len(kept) = c - 1
  /\ \A i \in 1 .. Len(kept) : i \in 1 .. Len(l) /\ kept[i].node = l[i].node
  /\ \A i \in 1 .. Len(moved) :
       /\ c + i - 1 \in 1 .. Len(l)
       /\ moved[i].node = IF i = 1 /\ Len(kept) = c THEN fresh ELSE l[c + i - 1].node
  /\ \A i \in 1 .. Len(l) : i > Len(kept) => /\ i - c + 1 \in 1 .. Len(moved)
                                             /\ moved[i - c + 1].node = l[i].node
  /\ 1 \in 1 .. Len(moved)

CutInTwo(r, p, fresh, a, b) ==
  /\ Whole(a) /\ Whole(b)
  /\ StartOf(a) = StartOf(r) /\ a.intervals[1].node = r.intervals[1].node
  /\ a.intervals[Len(a.intervals)].end <= p /\ p <= StartOf(b)
  /\ b.intervals[Len(b.intervals)].end = r.intervals[Len(r.intervals)].end
  /\ \E c \in 1 .. Len(r.intervals) : NodesShared(r.intervals, c, fresh, a.intervals, b.intervals)
  /\ \A q \in Int : /\ Holds(a.intervals, q) <=> Holds(r.intervals, q) /\ q < p
                    /\ Holds(b.intervals, q) <=> Holds(r.intervals, q) /\ q >= p
  /\ UsesOf(a) \cup UsesOf(b) = UsesOf(r) /\ UsesOf(a) \cap UsesOf(b) = {}
  /\ a.pending = r.pending /\ b.pending = Null
  /\ \A t \in Int : Leads(r, t) => Leads(a, t)

LEMMA LimitIsNat == Limit \in Nat
  BY BlockStarts, SizeAssumption DEF Limit

LEMMA NoUseIsUse == NoUse \in UseType
  BY LimitIsNat DEF NoUse, UseType

LEMMA UsePos ==
  ASSUME NEW w \in Seq(UseType)
  PROVE  \A i \in 1 .. Len(w) : w[i] \in UseType /\ w[i].pos \in Int
<1>1. ASSUME NEW i \in 1 .. Len(w) PROVE w[i] \in UseType /\ w[i].pos \in Int
  <2>1. w[i] \in UseType
    OBVIOUS
  <2>2. w[i].pos \in -1 .. Limit
    BY <2>1 DEF UseType
  <2>3. QED
    BY <2>1, <2>2, LimitIsNat
<1>2. QED
  BY <1>1

LEMMA CutNodes ==
  ASSUME NEW l \in Seq(IntervalType), Ascending(l), NEW c \in 1 .. Len(l), NEW p \in Int,
         l[c].end > p, \A j \in 1 .. c - 1 : l[j].end <= p,
         NEW fresh, NEW kept, NEW moved, CutInto(l, c, p, fresh, kept, moved)
  PROVE  NodesShared(l, c, fresh, kept, moved)
<1>1. /\ Len(kept) = (IF l[c].start < p THEN c ELSE c - 1) /\ Len(moved) = Len(l) - c + 1
      /\ \A i \in 1 .. Len(kept) : i \in 1 .. Len(l) /\ kept[i].node = l[i].node
      /\ \A i \in 1 .. Len(moved) :
           /\ c + i - 1 \in 1 .. Len(l)
           /\ moved[i].node = (IF i = 1 /\ l[c].start < p THEN fresh ELSE l[c + i - 1].node)
  BY CutPlaces
<1>2. Len(l) \in Nat /\ c \in Int /\ 1 <= c /\ c <= Len(l)
  OBVIOUS
<1>3. l[c].start < p <=> Len(kept) = c
  BY <1>1, <1>2
<1>4. Len(kept) = c \/ Len(kept) = c - 1
  BY <1>1
<1>5. ASSUME NEW i \in 1 .. Len(l), i > Len(kept)
      PROVE  i - c + 1 \in 1 .. Len(moved) /\ moved[i - c + 1].node = l[i].node
  <2>1. i - c + 1 \in 1 .. Len(moved) /\ c + (i - c + 1) - 1 = i
    BY <1>1, <1>2, <1>4, <1>5
  <2>2. ~(i - c + 1 = 1 /\ l[c].start < p)
    BY <1>2, <1>3, <1>5
  <2>3. QED
    BY <1>1, <2>1, <2>2
<1>6. 1 \in 1 .. Len(moved)
  BY <1>1, <1>2
<1>7. QED
  BY <1>1, <1>3, <1>4, <1>5, <1>6 DEF NodesShared

LEMMA RangeCut ==
  ASSUME NEW r, Whole(r), Distinct(r.intervals), NEW p \in Int, StartOf(r) < p,
         NEW c \in 1 .. Len(r.intervals), r.intervals[c].end > p,
         \A j \in 1 .. c - 1 : r.intervals[j].end <= p, NEW fresh \in Nat
  PROVE  CutInTwo(r, p, fresh, Kept(r, c, p), Moved(r, c, p, fresh))
<1> DEFINE l == r.intervals
           w == r.uses
           kept == KeptIntervals(r, c, p)
           moved == MovedIntervals(r, c, p, fresh)
           n == KeptUses(r, c, p)
           q == IF l[c].start = p THEN p ELSE p + 1
           left == SubSeq(w, 1, n)
           right == Moving(r, c, p)
           a == Kept(r, c, p)
           b == Moved(r, c, p, fresh)
<1>1. /\ r \in RangeType /\ l \in Seq(IntervalType) /\ w \in Seq(UseType) /\ Ascending(l)
      /\ r.last = l[Len(l)].node /\ InOrder(w)
  BY DEF Whole, RangeType
<1>2. StartOf(r) = l[1].start /\ l[1].start < p /\ 1 \in 1 .. Len(l) /\ Len(l) \in 1 .. Len(l)
  BY WholeSpans
<1>3. p \in Positions /\ (l[c].start < p => 1 <= p)
  <2>1. l[1] \in IntervalType /\ l[c] \in IntervalType
    BY <1>1, <1>2
  <2>2. l[1].start >= 0 /\ l[1].start \in Int /\ l[c].end <= Limit /\ l[c].end \in Int
    BY <2>1, LimitIsNat DEF IntervalType, Positions
  <2>3. QED
    BY <1>2, <2>2, LimitIsNat DEF Positions
<1>4. CutInto(l, c, p, fresh, kept, moved)
  BY <1>1, <1>3, CutLists
<1> HIDE DEF kept, moved
<1>5. kept \in Seq(IntervalType) /\ moved \in Seq(IntervalType)
  BY <1>4 DEF CutInto
<1>6. /\ kept # <<>> /\ Ascending(kept) /\ moved # <<>> /\ Ascending(moved)
      /\ kept[1].start = l[1].start /\ kept[1].node = l[1].node /\ kept[Len(kept)].end <= p
      /\ p <= moved[1].start /\ moved[Len(moved)].end = l[Len(l)].end
      /\ moved[Len(moved)].node = IF kept[Len(kept)].node = l[Len(l)].node
                                  THEN moved[1].node ELSE l[Len(l)].node
      /\ \A x \in Int : /\ Holds(kept, x) <=> Holds(l, x) /\ x < p
                        /\ Holds(moved, x) <=> Holds(l, x) /\ x >= p
      /\ \A x \in Int : Reaches(l, x) => IF x < q THEN Reaches(kept, x) ELSE Reaches(moved, x)
  BY <1>1, <1>2, <1>4, CutSpans, SMTT(30)
<1>7. q \in Int /\ n = Before(r, q)
  BY DEF KeptUses
<1>8. n \in 0 .. Len(w) /\ \A i \in 1 .. Len(w) : i <= n <=> w[i].pos < q
  BY <1>1, <1>7, BeforeIsPrefix
<1>9. right = SubSeq(w, n + 1, Len(w))
  BY DEF Moving
<1>23. left = SubSeq(w, 1, n)
  OBVIOUS
<1> HIDE DEF n, q, right, left
<1>10. /\ left \in Seq(UseType) /\ Len(left) = n /\ InOrder(left)
       /\ right \in Seq(UseType) /\ Len(right) = Len(w) - n /\ InOrder(right)
       /\ \A i \in 1 .. n : left[i] = w[i]
       /\ \A i \in 1 .. Len(right) : right[i] = w[n + i] /\ n + i \in 1 .. Len(w)
       /\ \A i \in 1 .. Len(w) : i > n => i - n \in 1 .. Len(right) /\ w[i] = right[i - n]
       /\ \A i \in 1 .. n, j \in 1 .. Len(right) : left[i] # right[j]
  <2>1. w \in Seq(UseType) /\ InOrder(w) /\ n \in 0 .. Len(w)
    BY <1>1, <1>8
  <2>2. SharedOut(w, n, left, right)
    BY <2>1, <1>9, <1>23, UsesShared
  <2>3. QED
    BY <2>2 DEF SharedOut
<1>11. Len(w) \in Nat /\ n \in Nat /\ n <= Len(w)
  BY <1>1, <1>8
<1>12. Updated(r.register, right) \in UseType
  BY <1>1, NoUseIsUse DEF Updated, RangeType
<1>13. /\ a.intervals = kept /\ a.uses = left /\ a.pending = r.pending
       /\ a.register = Updated(r.register, right) /\ a.last = kept[Len(kept)].node
       /\ a \in RangeType
  <2>1. kept[Len(kept)].node \in Nat
    <3>1. Len(kept) \in 1 .. Len(kept)
      BY <1>5, <1>6
    <3>2. kept[Len(kept)] \in IntervalType
      BY <1>5, <3>1
    <3>3. QED
      BY <3>2 DEF IntervalType
  <2>2. a = [r EXCEPT !.intervals = kept, !.last = kept[Len(kept)].node, !.uses = left,
                      !.register = Updated(r.register, right)]
    BY <1>1 DEF Kept, kept, left, right, n, RangeType
  <2>3. QED
    BY <1>1, <1>5, <1>10, <1>12, <2>1, <2>2 DEF RangeType
<1>14. /\ b.intervals = moved /\ b.uses = right /\ b.pending = Null /\ b.register = NoUse
       /\ b.last = moved[Len(moved)].node /\ b \in RangeType
  <2>1. moved[Len(moved)].node \in Nat
    <3>1. Len(moved) \in 1 .. Len(moved)
      BY <1>5, <1>6
    <3>2. moved[Len(moved)] \in IntervalType
      BY <1>5, <3>1
    <3>3. QED
      BY <3>2 DEF IntervalType
  <2>2. b = [intervals |-> moved, uses |-> right, pending |-> Null, register |-> NoUse,
             last |-> moved[Len(moved)].node]
    BY <1>1, <1>6 DEF Moved, kept, moved, right
  <2>3. /\ b.intervals = moved /\ b.uses = right /\ b.pending = Null /\ b.register = NoUse
        /\ b.last = moved[Len(moved)].node
    BY <2>2
  <2>6. moved \in Seq(IntervalType) /\ right \in Seq(UseType) /\ Null \in Nat
    BY <1>5, <1>10
  <2>4. b \in RangeType
    BY <2>1, <2>2, <2>6, NoUseIsUse DEF RangeType
  <2>5. QED
    BY <2>3, <2>4
<1> HIDE DEF a, b
<1>15. /\ \A u \in UsesOf(a) : \E i \in 1 .. n : u = left[i] /\ i \in 1 .. Len(w) /\ left[i] = w[i]
       /\ \A u \in UsesOf(b) : \E i \in 1 .. Len(right) : u = right[i]
  <2>1. \A i \in 1 .. n : i \in 1 .. Len(w)
    BY <1>11
  <2>2. UsesOf(a) = {left[i] : i \in 1 .. n}
    BY <1>10, <1>13 DEF UsesOf
  <2>3. UsesOf(b) = {right[i] : i \in 1 .. Len(right)}
    BY <1>14 DEF UsesOf
  <2>4. QED
    BY <1>10, <2>1, <2>2, <2>3
<1>16. Whole(a)
  <2>1. ASSUME NEW u \in UsesOf(a) PROVE Reaches(kept, u.pos)
    <3>1. PICK i \in 1 .. n : u = w[i] /\ i \in 1 .. Len(w)
      BY <1>15
    <3>2. u.pos < q /\ u.pos \in Int
      BY <1>1, <1>8, <3>1, UsePos
    <3>3. Reaches(l, u.pos)
      BY <3>1 DEF Whole, UsesOf
    <3>4. QED
      BY <1>6, <3>2, <3>3
  <2>2. QED
    BY <1>6, <1>10, <1>13, <2>1 DEF Whole
<1>17. Whole(b)
  <2>1. ASSUME NEW u \in UsesOf(b) PROVE Reaches(moved, u.pos)
    <3>1. PICK i \in 1 .. Len(right) : u = right[i]
      BY <1>15
    <3>2. PICK h \in 1 .. Len(w) : h = n + i /\ u = w[h]
      BY <1>10, <3>1
    <3>3. ~(h <= n)
      BY <1>11, <1>10, <3>2
    <3>4. ~(u.pos < q) /\ u.pos \in Int
      BY <1>1, <1>8, <3>2, <3>3, UsePos
    <3>5. Reaches(l, u.pos)
      BY <3>2 DEF Whole, UsesOf
    <3>6. QED
      BY <1>6, <3>4, <3>5
  <2>2. QED
    BY <1>6, <1>10, <1>14, <2>1 DEF Whole
<1>18. StartOf(a) = l[1].start /\ StartOf(b) = moved[1].start
  BY <1>6, <1>13, <1>14 DEF StartOf
<1>19. NodesShared(l, c, fresh, kept, moved)
  BY <1>1, <1>4, CutNodes
<1>20. UsesOf(a) \cup UsesOf(b) = UsesOf(r) /\ UsesOf(a) \cap UsesOf(b) = {}
  <2>1. UsesOf(a) = {left[i] : i \in 1 .. n} /\ UsesOf(b) = {right[i] : i \in 1 .. Len(right)}
        /\ UsesOf(r) = {w[i] : i \in 1 .. Len(w)}
    <3>1. UsesOf(a) = {left[i] : i \in 1 .. n}
      BY <1>10, <1>13 DEF UsesOf
    <3>2. UsesOf(b) = {right[i] : i \in 1 .. Len(right)} /\ UsesOf(r) = {w[i] : i \in 1 .. Len(w)}
      BY <1>14 DEF UsesOf
    <3>3. QED
      BY <3>1, <3>2
  <2>2. ASSUME NEW i \in 1 .. n PROVE left[i] \in UsesOf(r)
    BY <1>10, <1>11, <2>1
  <2>3. ASSUME NEW i \in 1 .. Len(right) PROVE right[i] \in UsesOf(r)
    <3>1. PICK h \in 1 .. Len(w) : right[i] = w[h]
      BY <1>10
    <3>2. QED
      BY <2>1, <3>1
  <2>4. ASSUME NEW i \in 1 .. Len(w) PROVE w[i] \in UsesOf(a) \cup UsesOf(b)
    <3>1. CASE i \in 1 .. n
      BY <1>10, <2>1, <3>1
    <3>2. CASE i > n
      BY <1>10, <2>1, <3>2, ZenonT(60)
    <3>3. QED
      BY <1>11, <3>1, <3>2
  <2>5. ASSUME NEW u \in UsesOf(a), u \in UsesOf(b) PROVE FALSE
    BY <1>10, <2>1, <2>5
  <2>6. UsesOf(a) \subseteq UsesOf(r) /\ UsesOf(b) \subseteq UsesOf(r)
    BY <2>1, <2>2, <2>3
  <2>7. UsesOf(r) \subseteq UsesOf(a) \cup UsesOf(b)
    BY <2>1, <2>4
  <2>8. QED
    BY <2>5, <2>6, <2>7
<1>21. ASSUME NEW t \in Int, Leads(r, t) PROVE Leads(a, t)
  <2>1. ASSUME NEW i \in 1 .. n PROVE i \in 1 .. Len(w) /\ left[i] = w[i]
    BY <1>10, <1>11
  <2>2. CASE r.register = NoUse /\ \A i \in 1 .. Len(w) : Passed(w[i], t)
    <3>1. Updated(r.register, right) = NoUse
      BY <2>2 DEF Updated
    <3>2. \A i \in 1 .. Len(left) : Passed(left[i], t)
      BY <1>10, <2>1, <2>2
    <3>3. QED
      BY <1>13, <3>1, <3>2 DEF Leads
  <2>3. CASE \E i \in 1 .. Len(w) : r.register = w[i] /\ \A j \in 1 .. i - 1 : Passed(w[j], t)
    <3>1. PICK i \in 1 .. Len(w) : r.register = w[i] /\ \A j \in 1 .. i - 1 : Passed(w[j], t)
      BY <2>3
    <3>2. w[i].pos \in Int
      BY <1>1, UsePos
    <3>3. CASE i \in 1 .. n
      <4>1. ASSUME right # <<>> PROVE ~(w[i].pos >= right[1].pos)
        <5>1. 1 \in 1 .. Len(right)
          BY <1>10, <4>1
        <5>2. PICK h \in 1 .. Len(w) : h = n + 1 /\ right[1] = w[h]
          BY <1>10, <5>1
        <5>3. ~(h <= n)
          BY <1>11, <5>2
        <5>4. w[i].pos < q /\ ~(w[h].pos < q) /\ w[h].pos \in Int
          BY <1>1, <1>8, <1>11, <3>3, <5>3, UsePos
        <5>5. QED
          BY <1>7, <3>2, <5>2, <5>4
      <4>2. Updated(r.register, right) = w[i]
        BY <3>1, <4>1 DEF Updated
      <4>3. \A j \in 1 .. i - 1 : j \in 1 .. n
        BY <1>11, <3>3
      <4>4. \A j \in 1 .. i - 1 : Passed(left[j], t)
        BY <2>1, <3>1, <4>3
      <4>5. i \in 1 .. Len(left) /\ a.register = left[i]
        BY <1>10, <1>13, <2>1, <3>3, <4>2
      <4>6. QED
        BY <1>13, <4>4, <4>5 DEF Leads
    <3>4. CASE i > n
      <4>1. i - n \in 1 .. Len(right)
        BY <1>10, <3>4
      <4>2. right # <<>> /\ 1 \in 1 .. Len(right)
        BY <1>10, <4>1
      <4>3. PICK h \in 1 .. Len(w) : h = n + 1 /\ right[1] = w[h]
        BY <1>10, <4>2
      <4>4. w[h].pos <= w[i].pos
        <5>1. h = i \/ h < i
          BY <1>11, <3>4, <4>3
        <5>2. w[h].pos \in Int
          BY <1>1, UsePos
        <5>3. QED
          BY <1>1, <3>2, <5>1, <5>2 DEF InOrder
      <4>5. w[h].pos \in Int
        BY <1>1, UsePos
      <4>6. r.register.pos >= right[1].pos
        BY <3>1, <3>2, <4>3, <4>4, <4>5
      <4>7. Updated(r.register, right) = NoUse
        BY <4>2, <4>6 DEF Updated
      <4>8. \A j \in 1 .. n : j \in 1 .. i - 1
        BY <1>11, <3>4
      <4>9. \A j \in 1 .. Len(left) : Passed(left[j], t)
        BY <1>10, <2>1, <3>1, <4>8
      <4>10. QED
        BY <1>13, <4>7, <4>9 DEF Leads
    <3>5. QED
      BY <1>11, <3>3, <3>4
  <2>4. QED
    BY <1>21, <2>2, <2>3 DEF Leads
<1>22. QED
  BY <1>2, <1>6, <1>13, <1>14, <1>16, <1>17, <1>18, <1>19, <1>20, <1>21 DEF CutInTwo, a, b

-----------------------------------------------------------------------------
(* The chain of siblings.                                                  *)
LEMMA FiniteImage ==
  ASSUME NEW n \in Nat, NEW f
  PROVE  IsFiniteSet({f[i] : i \in 1 .. n})
<1> DEFINE T == {f[i] : i \in 1 .. n}
           g == [i \in 1 .. n |-> f[i]]
<1>1. g \in Surjection(1 .. n, T)
  BY DEF Surjection
<1>2. IsFiniteSet(1 .. n)
  BY FS_Interval
<1>3. QED
  BY <1>1, <1>2, FS_Surjection

LEMMA NodesAre ==
  ASSUME NEW rs \in Seq(RangeType), OwnNodes(rs)
  PROVE  /\ Cardinality(Nodes(rs)) \in Nat /\ Nodes(rs) = 1 .. Cardinality(Nodes(rs))
         /\ \A k \in 1 .. Len(rs) : \A i \in 1 .. Len(rs[k].intervals) :
              /\ rs[k].intervals[i].node \in Nodes(rs)
              /\ rs[k].intervals[i].node \in Nat /\ rs[k].intervals[i].node # Null
<1> DEFINE F == [j \in 1 .. Len(rs) |->
                   {rs[j].intervals[i].node : i \in 1 .. Len(rs[j].intervals)}]
           N == Cardinality(Nodes(rs))
<1>1. Nodes(rs) = UNION {F[j] : j \in 1 .. Len(rs)}
  BY DEF Nodes
<1>2. Len(rs) \in Nat /\ \A j \in 1 .. Len(rs) : rs[j].intervals \in Seq(IntervalType)
  <2>1. ASSUME NEW j \in 1 .. Len(rs) PROVE rs[j].intervals \in Seq(IntervalType)
    <3>1. rs[j] \in RangeType
      OBVIOUS
    <3>2. QED
      BY <3>1 DEF RangeType
  <2>2. QED
    BY <2>1
<1>3. IsFiniteSet({F[j] : j \in 1 .. Len(rs)})
  <2> HIDE DEF F
  <2>1. QED
    BY <1>2, FiniteImage
<1>4. ASSUME NEW j \in 1 .. Len(rs) PROVE IsFiniteSet(F[j])
  <2> DEFINE l == rs[j].intervals
             f == [i \in 1 .. Len(l) |-> l[i].node]
  <2>1. F[j] = {f[i] : i \in 1 .. Len(l)}
    OBVIOUS
  <2>2. Len(l) \in Nat
    BY <1>2
  <2> HIDE DEF f, F
  <2>3. QED
    BY <2>1, <2>2, FiniteImage
<1>5. IsFiniteSet(Nodes(rs))
  <2> HIDE DEF F
  <2>1. \A T \in {F[j] : j \in 1 .. Len(rs)} : IsFiniteSet(T)
    BY <1>4
  <2>2. QED
    BY <1>1, <1>3, <2>1, FS_UNION
<1>6. N \in Nat
  BY <1>5, FS_CardinalityType
<1>7. Nodes(rs) = 1 .. N
  BY DEF OwnNodes
<1>8. ASSUME NEW k \in 1 .. Len(rs), NEW i \in 1 .. Len(rs[k].intervals)
      PROVE  rs[k].intervals[i].node \in Nodes(rs)
  BY DEF Nodes
<1> HIDE DEF N
<1>9. \A x \in Nodes(rs) : x \in Nat /\ x # Null
  BY <1>6, <1>7
<1>10. QED
  BY <1>6, <1>7, <1>8, <1>9 DEF N

IsLinked(rs, k, a, b, out) ==
  /\ out \in Seq(RangeType) /\ Len(out) = Len(rs) + 1
  /\ out[k] = a /\ out[k + 1] = b
  /\ \A j \in 1 .. k - 1 : out[j] = rs[j]
  /\ \A j \in k + 2 .. Len(rs) + 1 : out[j] = rs[j - 1]

LEMMA LinkedIs ==
  ASSUME NEW rs \in Seq(RangeType), NEW k \in 1 .. Len(rs), NEW a \in RangeType, NEW b \in RangeType
  PROVE  IsLinked(rs, k, a, b, Linked(rs, k, a, b))
<1> DEFINE front == SubSeq(rs, 1, k - 1)
           back == SubSeq(rs, k + 1, Len(rs))
           two == <<a, b>>
           out == Linked(rs, k, a, b)
<1>1. Len(rs) \in Nat /\ k \in Int /\ 1 <= k /\ k <= Len(rs) /\ \A i \in 1 .. Len(rs) : rs[i] \in RangeType
  OBVIOUS
<1>2. front \in Seq(RangeType) /\ Len(front) = k - 1 /\ \A j \in 1 .. k - 1 : front[j] = rs[j]
  <2>1. \A i \in 1 .. k - 1 : rs[i] \in RangeType
    BY <1>1
  <2>2. /\ front \in Seq(RangeType)
        /\ Len(front) = IF 1 <= k - 1 THEN k - 1 - 1 + 1 ELSE 0
        /\ \A j \in 1 .. k - 1 - 1 + 1 : front[j] = rs[1 + j - 1]
    BY <1>1, <2>1, SubSeqProperties
  <2>3. \A j \in 1 .. k - 1 : j \in 1 .. k - 1 - 1 + 1 /\ 1 + j - 1 = j
    BY <1>1
  <2>4. QED
    BY <1>1, <2>2, <2>3
<1>3. back \in Seq(RangeType) /\ Len(back) = Len(rs) - k /\ \A j \in 1 .. Len(rs) - k : back[j] = rs[k + j]
  <2>1. \A i \in k + 1 .. Len(rs) : rs[i] \in RangeType
    BY <1>1
  <2>2. /\ back \in Seq(RangeType)
        /\ Len(back) = IF k + 1 <= Len(rs) THEN Len(rs) - (k + 1) + 1 ELSE 0
        /\ \A j \in 1 .. Len(rs) - (k + 1) + 1 : back[j] = rs[k + 1 + j - 1]
    BY <1>1, <2>1, SubSeqProperties
  <2>3. \A j \in 1 .. Len(rs) - k : j \in 1 .. Len(rs) - (k + 1) + 1 /\ k + 1 + j - 1 = k + j
    BY <1>1
  <2>4. QED
    BY <1>1, <2>2, <2>3
<1>4. two \in Seq(RangeType) /\ Len(two) = 2 /\ two[1] = a /\ two[2] = b
  OBVIOUS
<1>5. out = front \o two \o back
  BY DEF Linked
<1> HIDE DEF front, back, two, out
<1> DEFINE h == front \o two
<1>6. h \in Seq(RangeType) /\ Len(h) = k + 1 /\ h[k] = a /\ h[k + 1] = b /\ \A j \in 1 .. k - 1 : h[j] = rs[j]
  <2>1. /\ h \in Seq(RangeType) /\ Len(h) = Len(front) + Len(two)
        /\ \A j \in 1 .. Len(front) + Len(two) :
             h[j] = IF j <= Len(front) THEN front[j] ELSE two[j - Len(front)]
    BY <1>2, <1>4, ConcatProperties
  <2>2. Len(h) = k + 1
    BY <1>1, <1>2, <1>4, <2>1
  <2>3. h[k] = two[1] /\ h[k + 1] = two[2]
    BY <1>1, <1>2, <1>4, <2>1
  <2>4. \A j \in 1 .. k - 1 : h[j] = front[j]
    BY <1>1, <1>2, <1>4, <2>1
  <2>5. QED
    BY <1>2, <1>4, <2>1, <2>2, <2>3, <2>4
<1> HIDE DEF h
<1>7. /\ out \in Seq(RangeType) /\ Len(out) = Len(h) + Len(back)
      /\ \A j \in 1 .. Len(h) + Len(back) : out[j] = IF j <= Len(h) THEN h[j] ELSE back[j - Len(h)]
  <2>1. h \in Seq(RangeType) /\ back \in Seq(RangeType) /\ out = h \o back
    BY <1>3, <1>5, <1>6 DEF h
  <2>2. /\ h \o back \in Seq(RangeType) /\ Len(h \o back) = Len(h) + Len(back)
        /\ \A j \in 1 .. Len(h) + Len(back) :
             (h \o back)[j] = IF j <= Len(h) THEN h[j] ELSE back[j - Len(h)]
    BY <2>1, ConcatProperties
  <2>3. QED
    BY <2>1, <2>2
<1>8. Len(out) = Len(rs) + 1
  <2>1. Len(out) = k + 1 + (Len(rs) - k)
    BY <1>3, <1>6, <1>7
  <2>2. QED
    BY <1>1, <2>1
<1>9. ASSUME NEW j \in 1 .. k + 1 PROVE out[j] = h[j]
  <2>1. j \in 1 .. Len(h) + Len(back) /\ j <= Len(h)
    BY <1>1, <1>3, <1>6
  <2>2. QED
    BY <1>7, <2>1
<1>10. ASSUME NEW j \in k + 2 .. Len(rs) + 1 PROVE out[j] = rs[j - 1]
  <2>1. out[j] = back[j - (k + 1)] /\ j - (k + 1) \in 1 .. Len(rs) - k /\ k + (j - (k + 1)) = j - 1
    <3>1. j \in 1 .. Len(h) + Len(back) /\ ~(j <= Len(h)) /\ Len(h) = k + 1 /\ j \in Int
      BY <1>1, <1>3, <1>6
    <3>2. out[j] = back[j - (k + 1)]
      BY <1>7, <3>1
    <3>3. QED
      BY <1>1, <3>1, <3>2
  <2>2. back[j - (k + 1)] = rs[k + (j - (k + 1))]
    BY <1>3, <2>1
  <2>3. QED
    BY <2>1, <2>2
<1>11. out[k] = a /\ out[k + 1] = b /\ \A j \in 1 .. k - 1 : out[j] = rs[j]
  BY <1>1, <1>6, <1>9
<1>12. QED
  BY <1>7, <1>8, <1>10, <1>11 DEF IsLinked, out

(* Where an interval of the chain after a cut comes from.                  *)
Src(k, j) == IF j <= k THEN j ELSE j - 1
Place(k, c, j, i) == IF j = k + 1 THEN c + i - 1 ELSE i

LEMMA NodesAreThere ==
  ASSUME NEW rs, NEW x
  PROVE  x \in Nodes(rs) <=>
           \E j \in 1 .. Len(rs) : \E i \in 1 .. Len(rs[j].intervals) : rs[j].intervals[i].node = x
  BY DEF Nodes

LEMMA NodesCut ==
  ASSUME NEW rs \in Seq(RangeType), OwnNodes(rs), NEW k \in 1 .. Len(rs),
         NEW a \in RangeType, NEW b \in RangeType, NEW c \in 1 .. Len(rs[k].intervals),
         NodesShared(rs[k].intervals, c, 1 + Cardinality(Nodes(rs)), a.intervals, b.intervals)
  PROVE  OwnNodes(Linked(rs, k, a, b))
<1> DEFINE out == Linked(rs, k, a, b)
           l == rs[k].intervals
           N == Cardinality(Nodes(rs))
           fresh == 1 + N
           kept == a.intervals
           moved == b.intervals
           node(j, i) == out[j].intervals[i].node
           old(j, i) == rs[j].intervals[i].node
<1>1. /\ out \in Seq(RangeType) /\ Len(out) = Len(rs) + 1
      /\ out[k] = a /\ out[k + 1] = b
      /\ \A j \in 1 .. k - 1 : out[j] = rs[j]
      /\ \A j \in k + 2 .. Len(rs) + 1 : out[j] = rs[j - 1]
  <2>1. IsLinked(rs, k, a, b, Linked(rs, k, a, b))
    BY LinkedIs
  <2>2. QED
    BY <2>1 DEF IsLinked
<1>2. /\ N \in Nat /\ Nodes(rs) = 1 .. N
      /\ \A j \in 1 .. Len(rs) : \A i \in 1 .. Len(rs[j].intervals) : old(j, i) \in Nodes(rs)
  BY NodesAre
<1>3. /\ Len(rs) \in Nat /\ k \in Int /\ 1 <= k /\ k <= Len(rs) /\ c \in Int /\ 1 <= c
      /\ kept \in Seq(IntervalType) /\ moved \in Seq(IntervalType) /\ l \in Seq(IntervalType)
  <2>1. rs[k] \in RangeType
    OBVIOUS
  <2>2. /\ kept \in Seq(IntervalType) /\ moved \in Seq(IntervalType) /\ l \in Seq(IntervalType)
    BY <2>1 DEF RangeType
  <2> HIDE DEF l, kept, moved
  <2>3. c \in Int /\ 1 <= c
    BY <2>2 DEF l
  <2>4. QED
    BY <2>2, <2>3
<1>4. /\ Len(kept) = c \/ Len(kept) = c - 1
      /\ \A i \in 1 .. Len(kept) : i \in 1 .. Len(l) /\ kept[i].node = l[i].node
      /\ \A i \in 1 .. Len(moved) :
           /\ c + i - 1 \in 1 .. Len(l)
           /\ moved[i].node = IF i = 1 /\ Len(kept) = c THEN fresh ELSE l[c + i - 1].node
      /\ \A i \in 1 .. Len(l) : i > Len(kept) => /\ i - c + 1 \in 1 .. Len(moved)
                                                 /\ moved[i - c + 1].node = l[i].node
      /\ 1 \in 1 .. Len(moved)
  BY DEF NodesShared
<1> DEFINE Fresh(j, i) == j = k + 1 /\ i = 1 /\ Len(kept) = c /\ node(j, i) = fresh
           Came(j, i, s, h) == /\ s \in 1 .. Len(rs) /\ h \in 1 .. Len(rs[s].intervals)
                               /\ s = Src(k, j) /\ h = Place(k, c, j, i)
                               /\ node(j, i) = old(s, h)
                               /\ j = k => h <= Len(kept)
                               /\ j = k + 1 => h > Len(kept)
<1> HIDE DEF out, N
<1>5. ASSUME NEW j \in 1 .. Len(out), NEW i \in 1 .. Len(out[j].intervals)
      PROVE  Fresh(j, i) \/ \E s \in 1 .. Len(rs) : \E h \in 1 .. Len(rs[s].intervals) : Came(j, i, s, h)
  <2>1. CASE j < k
    <3>4. j \in 1 .. k - 1 /\ j # k + 1 /\ j <= k
      BY <1>3, <2>1
    <3>5. j \in 1 .. Len(rs) /\ out[j] = rs[j]
      BY <1>1, <1>3, <3>4
    <3>1. j \in 1 .. Len(rs) /\ out[j] = rs[j] /\ Src(k, j) = j /\ Place(k, c, j, i) = i
      BY <3>4, <3>5 DEF Src, Place
    <3>2. Came(j, i, j, i)
      BY <1>3, <2>1, <3>1
    <3>3. QED
      BY <3>1, <3>2
  <2>2. CASE j = k
    <3>1. out[j] = a /\ Src(k, j) = k /\ Place(k, c, j, i) = i
      BY <1>1, <1>3, <2>2 DEF Src, Place
    <3>2. i \in 1 .. Len(kept) /\ i \in 1 .. Len(l) /\ kept[i].node = l[i].node
      BY <1>4, <3>1
    <3>3. Came(j, i, k, i)
      BY <1>3, <2>2, <3>1, <3>2
    <3>4. QED
      BY <3>2, <3>3
  <2>3. CASE j = k + 1
    <3>1. out[j] = b /\ Src(k, j) = k /\ Place(k, c, j, i) = c + i - 1
      BY <1>1, <1>3, <2>3 DEF Src, Place
    <3>2. i \in 1 .. Len(moved)
      BY <3>1
    <3>3. CASE i = 1 /\ Len(kept) = c
      <4>1. node(j, i) = fresh
        BY <1>4, <3>1, <3>2, <3>3
      <4>2. QED
        BY <2>3, <3>3, <4>1
    <3>4. CASE ~(i = 1 /\ Len(kept) = c)
      <4>1. PICK h \in 1 .. Len(l) : h = c + i - 1
        BY <1>4, <3>2
      <4>2. node(j, i) = l[h].node
        BY <1>4, <3>1, <3>2, <3>4, <4>1
      <4>3. h > Len(kept)
        BY <1>3, <1>4, <3>2, <3>4, <4>1
      <4>4. Came(j, i, k, h)
        BY <1>3, <2>3, <3>1, <4>1, <4>2, <4>3
      <4>5. QED
        BY <4>4
    <3>5. QED
      BY <3>3, <3>4
  <2>4. CASE j > k + 1
    <3>1. j - 1 \in 1 .. Len(rs) /\ out[j] = rs[j - 1] /\ Src(k, j) = j - 1 /\ Place(k, c, j, i) = i
      BY <1>1, <1>3, <2>4 DEF Src, Place
    <3>2. Came(j, i, j - 1, i)
      BY <1>3, <2>4, <3>1
    <3>3. QED
      BY <3>1, <3>2
  <2>5. QED
    BY <1>1, <1>3, <2>1, <2>2, <2>3, <2>4
<1>6. ASSUME NEW j \in 1 .. Len(out), NEW i \in 1 .. Len(out[j].intervals),
             NEW g \in 1 .. Len(out), NEW h \in 1 .. Len(out[g].intervals),
             node(j, i) = node(g, h)
      PROVE  j = g /\ i = h
  <2>1. \A s \in 1 .. Len(rs) : \A x \in 1 .. Len(rs[s].intervals) : old(s, x) # fresh
    <3>1. \A s \in 1 .. Len(rs) : \A x \in 1 .. Len(rs[s].intervals) : old(s, x) \in 1 .. N
      BY <1>2
    <3>2. fresh \notin 1 .. N
      BY <1>2
    <3> HIDE DEF old, fresh
    <3>3. QED
      BY <3>1, <3>2
  <2>2. CASE Fresh(j, i) /\ Fresh(g, h)
    BY <2>2
  <2>3. CASE Fresh(j, i) /\ ~Fresh(g, h)
    BY <1>5, <1>6, <2>1, <2>3
  <2>4. CASE ~Fresh(j, i) /\ Fresh(g, h)
    BY <1>5, <1>6, <2>1, <2>4
  <2>5. CASE ~Fresh(j, i) /\ ~Fresh(g, h)
    <3>1. PICK s \in 1 .. Len(rs) : \E x \in 1 .. Len(rs[s].intervals) : Came(j, i, s, x)
      BY <1>5, <2>5
    <3>2. PICK x \in 1 .. Len(rs[s].intervals) : Came(j, i, s, x)
      BY <3>1
    <3>3. PICK t \in 1 .. Len(rs) : \E y \in 1 .. Len(rs[t].intervals) : Came(g, h, t, y)
      BY <1>5, <2>5
    <3>4. PICK y \in 1 .. Len(rs[t].intervals) : Came(g, h, t, y)
      BY <3>3
    <3>5. old(s, x) = old(t, y)
      BY <1>6, <3>2, <3>4
    <3>12. \A y0 \in 1 .. Len(rs[t].intervals) : old(s, x) = old(t, y0) => s = t /\ x = y0
      <4> SUFFICES ASSUME NEW y0 \in 1 .. Len(rs[t].intervals), old(s, x) = old(t, y0)
                   PROVE  s = t /\ x = y0
        OBVIOUS
      <4>1. rs[s].intervals[x].node = rs[t].intervals[y0].node
        OBVIOUS
      <4>2. \A m, n \in 1 .. Len(rs) :
              \A g0 \in 1 .. Len(rs[m].intervals), h0 \in 1 .. Len(rs[n].intervals) :
                rs[m].intervals[g0].node = rs[n].intervals[h0].node => m = n /\ g0 = h0
        BY DEF OwnNodes
      <4>3. QED
        BY <4>1, <4>2, SMTT(30)
    <3>6. s = t /\ x = y
      BY <3>5, <3>12
    <3>7. j = g
      <4>1. Src(k, j) = Src(k, g) /\ j \in Int /\ g \in Int
        BY <3>2, <3>4, <3>6
      <4>2. j = g \/ (j = k /\ g = k + 1) \/ (j = k + 1 /\ g = k)
        BY <1>3, <4>1 DEF Src
      <4>3. x \in Int /\ Len(kept) \in Int
        BY <1>3
      <4>4. ~(j = k /\ g = k + 1) /\ ~(j = k + 1 /\ g = k)
        BY <3>2, <3>4, <3>6, <4>3, SMTT(30)
      <4>5. QED
        BY <4>2, <4>4
    <3>8. Place(k, c, j, i) = Place(k, c, j, h)
      BY <3>2, <3>4, <3>6, <3>7
    <3>9. i \in Int /\ h \in Int
      OBVIOUS
    <3>10. i = h
      BY <1>3, <3>8, <3>9 DEF Place
    <3>11. QED
      BY <3>7, <3>10
  <2>6. QED
    BY <2>2, <2>3, <2>4, <2>5
<1>7. Nodes(rs) \subseteq Nodes(out)
  <2> SUFFICES ASSUME NEW y \in Nodes(rs)
               PROVE  \E j \in 1 .. Len(out) : \E i \in 1 .. Len(out[j].intervals) : node(j, i) = y
    BY NodesAreThere
  <2>6. PICK s \in 1 .. Len(rs) : \E x \in 1 .. Len(rs[s].intervals) : old(s, x) = y
    BY NodesAreThere
  <2>7. PICK x \in 1 .. Len(rs[s].intervals) : old(s, x) = y
    BY <2>6
  <2>1. CASE s < k
    <3>1. s \in 1 .. Len(out) /\ out[s] = rs[s]
      BY <1>1, <1>3, <2>1
    <3>2. QED
      BY <2>7, <3>1
  <2>2. CASE s > k
    <3>1. PICK j \in 1 .. Len(out) : j = s + 1
      BY <1>1, <1>3
    <3>2. j \in k + 2 .. Len(rs) + 1 /\ j - 1 = s
      BY <1>1, <1>3, <2>2, <3>1
    <3>3. out[j] = rs[s]
      BY <1>1, <3>2
    <3>4. QED
      BY <2>7, <3>3
  <2>3. CASE s = k /\ x <= Len(kept)
    <3>1. x \in 1 .. Len(kept) /\ k \in 1 .. Len(out)
      BY <1>1, <1>3, <2>3
    <3>2. node(k, x) = old(s, x)
      BY <1>1, <1>4, <2>3, <3>1
    <3>3. QED
      BY <1>1, <2>7, <3>1, <3>2
  <2>4. CASE s = k /\ ~(x <= Len(kept))
    <3>1. x > Len(kept) /\ k + 1 \in 1 .. Len(out)
      BY <1>1, <1>3, <2>4
    <3>2. PICK i \in 1 .. Len(moved) : i = x - c + 1 /\ moved[i].node = l[x].node
      BY <1>4, <2>4, <3>1
    <3>3. node(k + 1, i) = old(s, x)
      BY <1>1, <2>4, <3>2
    <3>4. QED
      BY <1>1, <2>7, <3>1, <3>3
  <2>5. QED
    BY <1>3, <2>1, <2>2, <2>3, <2>4
<1>8. Nodes(out) \subseteq Nodes(rs) \cup {fresh}
  <2> SUFFICES ASSUME NEW j \in 1 .. Len(out), NEW i \in 1 .. Len(out[j].intervals)
               PROVE  node(j, i) \in Nodes(rs) \cup {fresh}
    BY NodesAreThere
  <2>1. QED
    BY <1>2, <1>5, ZenonT(60)
<1>9. fresh \in Nodes(out) \/ fresh \notin Nodes(out)
  OBVIOUS
<1>10. Nodes(out) = 1 .. Cardinality(Nodes(out))
  <2>1. PICK M \in Nat : Nodes(out) = 1 .. M
    <3>1. CASE fresh \in Nodes(out)
      <4>3. Nodes(out) = (1 .. N) \cup {fresh}
        BY <1>2, <1>7, <1>8, <3>1
      <4>1. Nodes(out) = 1 .. fresh /\ fresh \in Nat
        BY <1>2, <4>3
      <4>2. QED
        BY <4>1
    <3>2. CASE fresh \notin Nodes(out)
      <4>1. Nodes(out) = 1 .. N
        BY <1>2, <1>7, <1>8, <3>2
      <4>2. QED
        BY <1>2, <4>1
    <3>3. QED
      BY <3>1, <3>2
  <2>2. Cardinality(1 .. M) = IF 1 > M THEN 0 ELSE M - 1 + 1
    BY FS_Interval
  <2>3. Cardinality(Nodes(out)) = M
    BY <2>1, <2>2
  <2>4. QED
    BY <2>1, <2>3
<1>11. QED
  BY <1>6, <1>10 DEF OwnNodes, out

TailEnd(r) == r.intervals[Len(r.intervals)].end

Chain(rs) ==
  /\ rs \in Seq(RangeType) /\ rs # <<>> /\ OwnNodes(rs)
  /\ \A k \in 1 .. Len(rs) : Whole(rs[k])
  /\ \A k, l \in 1 .. Len(rs) : k < l => TailEnd(rs[k]) <= StartOf(rs[l])
  /\ \A k, l \in 1 .. Len(rs) : k # l => UsesOf(rs[k]) \cap UsesOf(rs[l]) = {}

LEMMA WholeTail ==
  ASSUME NEW r, Whole(r)
  PROVE  /\ StartOf(r) \in Int /\ TailEnd(r) \in Int /\ StartOf(r) < TailEnd(r)
         /\ StartOf(r) \in Positions
<1> DEFINE l == r.intervals
<1>1. /\ l \in Seq(IntervalType) /\ 1 \in 1 .. Len(l) /\ Len(l) \in 1 .. Len(l) /\ StartOf(r) = l[1].start
      /\ \A i \in 1 .. Len(l) : /\ l[i].start \in Int /\ l[i].end \in Int
                                /\ l[i].start < l[i].end /\ l[i].end <= l[Len(l)].end
  BY WholeSpans
<1>2. StartOf(r) \in Int /\ TailEnd(r) \in Int /\ StartOf(r) < TailEnd(r)
  BY <1>1 DEF TailEnd
<1>3. l[1] \in IntervalType
  BY <1>1
<1>4. StartOf(r) \in Positions
  BY <1>1, <1>3 DEF IntervalType
<1>5. QED
  BY <1>2, <1>4

LEMMA ChainCut ==
  ASSUME NEW rs, Chain(rs), NEW k \in 1 .. Len(rs), NEW p \in Int,
         NEW r, r.intervals = rs[k].intervals, r.uses = rs[k].uses, NEW a, NEW b,
         CutInTwo(r, p, 1 + Cardinality(Nodes(rs)), a, b)
  PROVE  Chain(Linked(rs, k, a, b)) /\ IsLinked(rs, k, a, b, Linked(rs, k, a, b))
<1> DEFINE out == Linked(rs, k, a, b)
<1>1. rs \in Seq(RangeType) /\ OwnNodes(rs) /\ Len(rs) \in Nat /\ k \in Int /\ 1 <= k /\ k <= Len(rs)
      /\ Whole(rs[k])
  BY DEF Chain
<1>2. Whole(a) /\ Whole(b) /\ a \in RangeType /\ b \in RangeType
  BY DEF CutInTwo, Whole
<1>3. IsLinked(rs, k, a, b, out)
  BY <1>1, <1>2, LinkedIs
<1>4. OwnNodes(out)
  <2>1. PICK c \in 1 .. Len(rs[k].intervals) :
          NodesShared(rs[k].intervals, c, 1 + Cardinality(Nodes(rs)), a.intervals, b.intervals)
    BY DEF CutInTwo
  <2>2. QED
    BY <1>1, <1>2, <2>1, NodesCut
<1> HIDE DEF out
<1>5. /\ out \in Seq(RangeType) /\ Len(out) = Len(rs) + 1 /\ out[k] = a /\ out[k + 1] = b
      /\ \A j \in 1 .. k - 1 : out[j] = rs[j]
      /\ \A j \in k + 2 .. Len(rs) + 1 : out[j] = rs[j - 1]
  BY <1>3 DEF IsLinked
<1>6. StartOf(rs[k]) = StartOf(r) /\ TailEnd(rs[k]) = TailEnd(r) /\ UsesOf(rs[k]) = UsesOf(r)
  BY DEF StartOf, TailEnd, UsesOf
<1>7. /\ StartOf(a) = StartOf(r) /\ TailEnd(a) <= p /\ p <= StartOf(b) /\ TailEnd(b) = TailEnd(r)
      /\ UsesOf(a) \subseteq UsesOf(r) /\ UsesOf(b) \subseteq UsesOf(r) /\ UsesOf(a) \cap UsesOf(b) = {}
  BY DEF CutInTwo, TailEnd
<1>8. /\ \A x \in {a, b} : StartOf(x) \in Int /\ TailEnd(x) \in Int /\ StartOf(x) < TailEnd(x)
      /\ \A j \in 1 .. Len(rs) : StartOf(rs[j]) \in Int /\ TailEnd(rs[j]) \in Int
  BY <1>2, WholeTail DEF Chain
<1>9. ASSUME NEW j \in 1 .. Len(out)
      PROVE  /\ Src(k, j) \in 1 .. Len(rs) /\ Whole(out[j])
             /\ StartOf(rs[Src(k, j)]) <= StartOf(out[j]) /\ TailEnd(out[j]) <= TailEnd(rs[Src(k, j)])
             /\ UsesOf(out[j]) \subseteq UsesOf(rs[Src(k, j)])
  <2>1. CASE j < k
    <3>1. j \in 1 .. k - 1 /\ j \in 1 .. Len(rs) /\ Src(k, j) = j
      BY <1>1, <1>5, <2>1 DEF Src
    <3>2. out[j] = rs[j]
      BY <1>5, <3>1
    <3>3. QED
      BY <1>8, <3>1, <3>2 DEF Chain
  <2>2. CASE j = k
    <3>1. Src(k, j) = k /\ out[j] = a
      BY <1>1, <1>5, <2>2 DEF Src
    <3>2. StartOf(rs[k]) <= StartOf(a) /\ TailEnd(a) <= TailEnd(rs[k])
      BY <1>6, <1>7, <1>8
    <3>3. QED
      BY <1>1, <1>2, <1>6, <1>7, <3>1, <3>2
  <2>3. CASE j = k + 1
    <3>1. Src(k, j) = k /\ out[j] = b
      BY <1>1, <1>5, <2>3 DEF Src
    <3>2. StartOf(rs[k]) <= StartOf(b) /\ TailEnd(b) <= TailEnd(rs[k])
      BY <1>6, <1>7, <1>8
    <3>3. QED
      BY <1>1, <1>2, <1>6, <1>7, <3>1, <3>2
  <2>4. CASE j > k + 1
    <3>1. j \in k + 2 .. Len(rs) + 1 /\ j - 1 \in 1 .. Len(rs) /\ Src(k, j) = j - 1
      BY <1>1, <1>5, <2>4 DEF Src
    <3>2. out[j] = rs[j - 1]
      BY <1>5, <3>1
    <3>3. QED
      BY <1>8, <3>1, <3>2, SMTT(30) DEF Chain
  <2>5. QED
    BY <1>1, <1>5, <2>1, <2>2, <2>3, <2>4
<1>10. ASSUME NEW j \in 1 .. Len(out), NEW g \in 1 .. Len(out), j < g
       PROVE  TailEnd(out[j]) <= StartOf(out[g]) /\ UsesOf(out[j]) \cap UsesOf(out[g]) = {}
  <2>1. CASE j = k /\ g = k + 1
    <3>1. TailEnd(a) <= StartOf(b)
      BY <1>7, <1>8
    <3>2. QED
      BY <1>5, <1>7, <2>1, <3>1
  <2>2. CASE ~(j = k /\ g = k + 1)
    <3>1. PICK s \in 1 .. Len(rs) : s = Src(k, j)
      BY <1>9
    <3>2. PICK t \in 1 .. Len(rs) : t = Src(k, g)
      BY <1>9
    <3>3. s < t
      <4>1. j \in Int /\ g \in Int
        OBVIOUS
      <4>2. QED
        BY <1>1, <1>10, <2>2, <3>1, <3>2, <4>1 DEF Src
    <3>4. TailEnd(rs[s]) <= StartOf(rs[t]) /\ UsesOf(rs[s]) \cap UsesOf(rs[t]) = {}
      <4>1. s # t
        BY <3>3
      <4>2. TailEnd(rs[s]) <= StartOf(rs[t])
        BY <3>3 DEF Chain
      <4>3. UsesOf(rs[s]) \cap UsesOf(rs[t]) = {}
        BY <4>1 DEF Chain
      <4>4. QED
        BY <4>2, <4>3
    <3>5. /\ StartOf(rs[t]) <= StartOf(out[g]) /\ TailEnd(out[j]) <= TailEnd(rs[s])
          /\ UsesOf(out[j]) \subseteq UsesOf(rs[s]) /\ UsesOf(out[g]) \subseteq UsesOf(rs[t])
          /\ Whole(out[j]) /\ Whole(out[g])
      BY <1>9, <3>1, <3>2
    <3>6. TailEnd(out[j]) \in Int /\ StartOf(out[g]) \in Int
      BY <3>5, WholeTail
    <3>7. TailEnd(out[j]) <= StartOf(out[g])
      BY <1>8, <3>4, <3>5, <3>6, SMTT(30)
    <3>8. QED
      BY <3>4, <3>5, <3>7
  <2>3. QED
    BY <2>1, <2>2
<1>11. ASSUME NEW j \in 1 .. Len(out), NEW g \in 1 .. Len(out), j # g
       PROVE  UsesOf(out[j]) \cap UsesOf(out[g]) = {}
  <2>1. j < g \/ g < j
    BY <1>11
  <2>2. QED
    BY <1>10, <2>1
<1>12. out # <<>>
  BY <1>1, <1>5
<1>13. Chain(out)
  BY <1>4, <1>5, <1>9, <1>10, <1>11, <1>12 DEF Chain
<1>14. QED
  BY <1>3, <1>13 DEF out

LEMMA ScheduledIs ==
  ASSUME NEW r \in RangeType, r.intervals # <<>>
  PROVE  LET s == Scheduled(r)
         IN  /\ s \in RangeType /\ s.intervals = r.intervals /\ s.last = r.last /\ s.uses = r.uses
             /\ s.pending = r.intervals[1].node /\ s.register = FirstUse(r)
             /\ FirstUse(s) = FirstUse(r)
<1> DEFINE s == Scheduled(r)
<1>1. r.intervals \in Seq(IntervalType) /\ r.uses \in Seq(UseType)
  BY DEF RangeType
<1>2. r.intervals[1].node \in Nat
  <2>1. r.intervals[1] \in IntervalType
    BY <1>1
  <2>2. QED
    BY <2>1 DEF IntervalType
<1>3. FirstUse(r) \in UseType
  <2>1. r.uses # <<>> => r.uses[1] \in UseType
    BY <1>1
  <2>2. QED
    BY <2>1, NoUseIsUse DEF FirstUse
<1>4. s = [r EXCEPT !.pending = r.intervals[1].node, !.register = FirstUse(r)]
  BY DEF Scheduled, FirstUse, RangeType
<1> HIDE DEF s
<1>5. /\ s \in RangeType /\ s.intervals = r.intervals /\ s.last = r.last /\ s.uses = r.uses
      /\ s.pending = r.intervals[1].node /\ s.register = FirstUse(r)
  BY <1>2, <1>3, <1>4 DEF RangeType
<1>6. FirstUse(s) = FirstUse(r)
  BY <1>5 DEF FirstUse
<1>7. QED
  BY <1>5, <1>6 DEF s

(* A register finger on the first use has nothing before it, and what is   *)
(* passed stays so.                                                        *)
LEMMA LeadsFromFirst ==
  ASSUME NEW r \in RangeType, r.register = FirstUse(r), NEW t
  PROVE  Leads(r, t)
<1>1. r.uses \in Seq(UseType)
  BY DEF RangeType
<1>2. CASE r.uses = <<>>
  BY <1>2 DEF FirstUse, Leads
<1>3. CASE r.uses # <<>>
  <2>1. 1 \in 1 .. Len(r.uses) /\ r.register = r.uses[1]
    BY <1>1, <1>3 DEF FirstUse
  <2>2. \A j \in 1 .. 1 - 1 : Passed(r.uses[j], t)
    OBVIOUS
  <2>3. QED
    BY <2>1, <2>2 DEF Leads
<1>4. QED
  BY <1>2, <1>3

LEMMA LeadsLater ==
  ASSUME NEW r \in RangeType, NEW t \in Int, NEW u \in Int, t <= u, Leads(r, t)
  PROVE  Leads(r, u)
<1>1. r.uses \in Seq(UseType)
  BY DEF RangeType
<1>2. ASSUME NEW i \in 1 .. Len(r.uses), Passed(r.uses[i], t) PROVE Passed(r.uses[i], u)
  <2>1. r.uses[i].pos \in Int
    BY <1>1, UsePos
  <2>2. QED
    BY <1>2, <2>1 DEF Passed
<1>3. CASE r.register = NoUse /\ \A i \in 1 .. Len(r.uses) : Passed(r.uses[i], t)
  BY <1>2, <1>3 DEF Leads
<1>4. CASE \E i \in 1 .. Len(r.uses) :
             r.register = r.uses[i] /\ \A j \in 1 .. i - 1 : Passed(r.uses[j], t)
  <2>1. PICK i \in 1 .. Len(r.uses) :
               r.register = r.uses[i] /\ \A j \in 1 .. i - 1 : Passed(r.uses[j], t)
    BY <1>4
  <2>2. \A j \in 1 .. i - 1 : j \in 1 .. Len(r.uses)
    BY <1>1
  <2>3. \A j \in 1 .. i - 1 : Passed(r.uses[j], u)
    BY <1>2, <2>1, <2>2
  <2>4. QED
    BY <2>1, <2>3 DEF Leads
<1>5. QED
  BY <1>3, <1>4 DEF Leads

(* The start of the next instruction when t is the end of one.             *)
Up(t) == t + (t % 2)

LEMMA UpIs ==
  ASSUME NEW t \in Int
  PROVE  /\ Up(t) \in Int /\ t <= Up(t)
         /\ \A u \in Int : t <= u => Up(t) <= Up(u)
<1>1. t % 2 \in 0 .. 1
  OBVIOUS
<1>2. ASSUME NEW u \in Int, t <= u PROVE Up(t) <= Up(u)
  BY <1>2 DEF Up
<1>3. QED
  BY <1>1, <1>2 DEF Up

(* A range's finger is NULL or stands where the cut has not been.          *)
FingerBefore(r, p) ==
  r.pending = Null \/ \E t \in Int : t <= p /\ r.pending = FirstOver(r.intervals, t).node

Ready(r) == IF r.pending = Null THEN Scheduled(r) ELSE r

LEMMA SplitIs ==
  ASSUME NEW rs, Chain(rs), NEW k \in 1 .. Len(rs), NEW p \in Int,
         StartOf(rs[k]) < p, p < TailEnd(rs[k]), FingerBefore(rs[k], p)
  PROVE  \E a, b : /\ CutInTwo(Ready(rs[k]), p, 1 + Cardinality(Nodes(rs)), a, b)
                   /\ IsLinked(rs, k, a, b, SplitAt(rs, k, p)) /\ Chain(SplitAt(rs, k, p))
<1> DEFINE r == Ready(rs[k])
           l == r.intervals
           fresh == 1 + Cardinality(Nodes(rs))
<1>1. rs \in Seq(RangeType) /\ OwnNodes(rs) /\ Whole(rs[k]) /\ rs[k] \in RangeType
      /\ rs[k].intervals # <<>>
  BY DEF Chain, Whole
<1>2. /\ r \in RangeType /\ r.intervals = rs[k].intervals /\ r.last = rs[k].last
      /\ r.uses = rs[k].uses
  BY <1>1, ScheduledIs DEF Ready
<1>3. rs[k].pending = Null => r.pending = rs[k].intervals[1].node
  BY <1>1, ScheduledIs DEF Ready
<1>4. rs[k].pending # Null => r.pending = rs[k].pending
  BY DEF Ready
<1> HIDE DEF r
<1>5. Whole(r)
  BY <1>1, <1>2 DEF Whole, UsesOf
<1>6. Distinct(l)
  BY <1>1, <1>2, OwnIsDistinct
<1>7. StartOf(r) = StartOf(rs[k])
  BY <1>2 DEF StartOf
<1>8. /\ l \in Seq(IntervalType) /\ Len(l) \in Nat /\ 1 \in 1 .. Len(l) /\ Len(l) \in 1 .. Len(l)
      /\ \A i \in 1 .. Len(l) : l[i].end \in Int /\ l[i].start \in Int
  BY <1>5, WholeSpans
<1>9. l[Len(l)].end > p
  BY <1>2, <1>8 DEF TailEnd
<1>10. PICK c \in 1 .. Len(l) : l[c].end > p /\ \A j \in 1 .. c - 1 : l[j].end <= p
  <2> HIDE DEF l
  <2>1. \/ \A j \in 1 .. Len(l) : l[j].end <= p
        \/ \E i \in 1 .. Len(l) : l[i].end > p /\ \A j \in 1 .. i - 1 : l[j].end <= p
    BY <1>8, FirstOverExists
  <2>2. ~(l[Len(l)].end <= p)
    BY <1>8, <1>9
  <2>3. QED
    BY <1>8, <2>1, <2>2
<1>11. PICK a0 \in 1 .. Len(l) : r.pending = l[a0].node /\ \A j \in 1 .. a0 - 1 : l[j].end <= p
  <2>1. CASE rs[k].pending = Null
    BY <1>2, <1>3, <1>8, <2>1
  <2>2. CASE rs[k].pending # Null
    <3>1. PICK t \in Int : t <= p /\ rs[k].pending = FirstOver(rs[k].intervals, t).node
      BY <2>2 DEF FingerBefore
    <3>2. PICK i \in 1 .. Len(l) : l[i].end > t /\ \A j \in 1 .. i - 1 : l[j].end <= t
      <4>1. ~(l[Len(l)].end <= t)
        BY <1>8, <1>9, <3>1
      <4>2. QED
        BY <1>8, <4>1, FirstOverExists
    <3>3. FirstOver(l, t) = l[i]
      BY <1>8, <3>2, FirstOverIs
    <3>4. r.pending = l[i].node
      BY <1>2, <1>4, <2>2, <3>1, <3>3
    <3>5. ASSUME NEW j \in 1 .. i - 1 PROVE l[j].end <= p
      <4>1. l[j].end <= t /\ j \in 1 .. Len(l)
        BY <1>8, <3>2
      <4>2. QED
        BY <1>8, <3>1, <4>1
    <3>6. QED
      BY <3>4, <3>5
  <2>3. QED
    BY <2>1, <2>2
<1>12. r.pending # Null
  BY <1>1, <1>2, <1>11, NodesAre
<1>13. CutAt(rs, r, p) = c
  BY <1>1, <1>2, <1>10, <1>11, <1>12, CutAtFirstOver
<1>14. fresh \in Nat
  BY <1>1, NodesAre
<1>15. CutInTwo(r, p, fresh, Kept(r, c, p), Moved(r, c, p, fresh))
  BY <1>5, <1>6, <1>7, <1>10, <1>14, RangeCut
<1>16. SplitAt(rs, k, p) = Linked(rs, k, Kept(r, c, p), Moved(r, c, p, fresh))
  BY <1>13 DEF SplitAt, Kept, Moved, Moving, r, Ready
<1>17. Chain(SplitAt(rs, k, p)) /\ IsLinked(rs, k, Kept(r, c, p), Moved(r, c, p, fresh), SplitAt(rs, k, p))
  BY <1>2, <1>15, <1>16, ChainCut
<1>18. QED
  BY <1>15, <1>17 DEF r

-----------------------------------------------------------------------------
(* The chain of siblings under the linear scan.                            *)
CoveredBy(rs) == UNION {Covered(rs[k]) : k \in 1 .. Len(rs)}
UsedBy(rs) == UNION {UsesOf(rs[k]) : k \in 1 .. Len(rs)}

FingerAt(r, t) == r.pending = FirstOver(r.intervals, t).node /\ Leads(r, Up(t))
FingersOn(rs, t, X) == \A k \in 1 .. Len(rs) : StartOf(rs[k]) \in X => FingerAt(rs[k], t)

Scanned(rs, t, act, que) ==
  /\ Chain(rs)
  /\ act \cup que \subseteq Starts(rs) /\ \A q \in que : t <= q
  /\ FingersOn(rs, t, act \cup que)

(* Siblings have different starts.                                         *)
LEMMA StartsDiffer ==
  ASSUME NEW rs, Chain(rs), NEW k \in 1 .. Len(rs), NEW g \in 1 .. Len(rs),
         StartOf(rs[k]) = StartOf(rs[g])
  PROVE  k = g
<1>1. ASSUME NEW i \in 1 .. Len(rs), NEW j \in 1 .. Len(rs), i < j
      PROVE  StartOf(rs[i]) < StartOf(rs[j])
  <2>1. Whole(rs[i]) /\ Whole(rs[j]) /\ TailEnd(rs[i]) <= StartOf(rs[j])
    BY <1>1 DEF Chain
  <2>2. QED
    BY <2>1, WholeTail
<1>2. StartOf(rs[k]) \in Int
  BY WholeTail DEF Chain
<1>3. ~(k < g) /\ ~(g < k)
  BY <1>1, <1>2
<1>4. QED
  BY <1>3

(* The positions that each sibling covers.                                 *)
PiecesOf(rs) == {Covered(rs[k]) : k \in 1 .. Len(rs)}

LEMMA SiblingsApart ==
  ASSUME NEW rs, Chain(rs), NEW k \in 1 .. Len(rs), NEW g \in 1 .. Len(rs), k < g
  PROVE  Covered(rs[k]) \cap Covered(rs[g]) = {}
<1>1. TailEnd(rs[k]) <= StartOf(rs[g]) /\ Whole(rs[k]) /\ Whole(rs[g])
  BY DEF Chain
<1>2. TailEnd(rs[k]) \in Int /\ StartOf(rs[g]) \in Int
  BY <1>1, WholeTail
<1>3. ASSUME NEW r, Whole(r), NEW p \in Covered(r)
      PROVE  p \in Int /\ StartOf(r) <= p /\ p < TailEnd(r)
  <2>1. r.intervals \in Seq(IntervalType)
    BY <1>3 DEF Whole, RangeType
  <2>2. Covered(r) \subseteq Positions
    BY <2>1, CoveredHolds
  <2>3. p \in Int
    BY <2>2, LimitIsNat DEF Positions
  <2>4. PICK i \in 1 .. Len(r.intervals) : r.intervals[i].start <= p /\ p < r.intervals[i].end
    BY <2>1, <2>3, CoveredHolds DEF Holds
  <2>5. /\ r.intervals[i].start \in Int /\ r.intervals[i].end \in Int
        /\ StartOf(r) <= r.intervals[i].start /\ r.intervals[i].end <= TailEnd(r)
    BY <1>3, WholeSpans DEF TailEnd
  <2>6. StartOf(r) \in Int /\ TailEnd(r) \in Int
    BY <1>3, WholeTail
  <2>7. QED
    BY <2>3, <2>4, <2>5, <2>6
<1>4. QED
  BY <1>1, <1>2, <1>3

LEMMA PiecesApart ==
  ASSUME NEW rs, Chain(rs)
  PROVE  /\ {} \notin PiecesOf(rs)
         /\ \A S, T \in PiecesOf(rs) : S = T \/ S \cap T = {}
         /\ \A k, g \in 1 .. Len(rs) : k # g => Covered(rs[k]) # Covered(rs[g])
<1>1. ASSUME NEW k \in 1 .. Len(rs) PROVE Covered(rs[k]) # {}
  <2>1. Whole(rs[k])
    BY DEF Chain
  <2>2. /\ 1 \in 1 .. Len(rs[k].intervals) /\ rs[k].intervals[1].start \in Int
        /\ rs[k].intervals[1].end \in Int
        /\ rs[k].intervals[1].start < rs[k].intervals[1].end
    BY <2>1, WholeSpans
  <2>3. rs[k].intervals[1].start \in rs[k].intervals[1].start .. rs[k].intervals[1].end - 1
    BY <2>2
  <2>4. QED
    BY <2>2, <2>3 DEF Covered
<1>2. ASSUME NEW k \in 1 .. Len(rs), NEW g \in 1 .. Len(rs), k # g
      PROVE  Covered(rs[k]) \cap Covered(rs[g]) = {}
  <2>1. k < g \/ g < k
    BY <1>2
  <2>2. QED
    BY <2>1, SiblingsApart
<1>3. ASSUME NEW k \in 1 .. Len(rs), NEW g \in 1 .. Len(rs), k # g
      PROVE  Covered(rs[k]) # Covered(rs[g])
  BY <1>1, <1>2, <1>3
<1>4. QED
  BY <1>1, <1>2, <1>3 DEF PiecesOf

LEMMA OverAtStart ==
  ASSUME NEW r, Whole(r), NEW t \in Int, t <= StartOf(r)
  PROVE  FirstOver(r.intervals, t) = r.intervals[1]
<1> DEFINE l == r.intervals
<1>1. /\ l \in Seq(IntervalType) /\ 1 \in 1 .. Len(l) /\ StartOf(r) = l[1].start
      /\ l[1].start < l[1].end /\ l[1].start \in Int /\ l[1].end \in Int
  BY WholeSpans
<1>2. l[1].end > t /\ \A j \in 1 .. 1 - 1 : l[j].end <= t
  BY <1>1
<1>3. QED
  BY <1>1, <1>2, FirstOverIs

(* Only fingers differ.                                                    *)
Alike(rs, out) ==
  /\ out \in Seq(RangeType) /\ Len(out) = Len(rs)
  /\ \A k \in 1 .. Len(rs) : /\ out[k].intervals = rs[k].intervals
                             /\ out[k].last = rs[k].last /\ out[k].uses = rs[k].uses

LEMMA AlikeChain ==
  ASSUME NEW rs, Chain(rs), NEW out, Alike(rs, out)
  PROVE  /\ Chain(out) /\ Starts(out) = Starts(rs)
         /\ CoveredBy(out) = CoveredBy(rs) /\ UsedBy(out) = UsedBy(rs)
         /\ PiecesOf(out) = PiecesOf(rs)
         /\ \A k \in 1 .. Len(rs) : /\ StartOf(out[k]) = StartOf(rs[k])
                                    /\ TailEnd(out[k]) = TailEnd(rs[k])
                                    /\ Covered(out[k]) = Covered(rs[k])
<1>1. rs \in Seq(RangeType) /\ out \in Seq(RangeType) /\ Len(out) = Len(rs)
  BY DEF Chain, Alike
<1>2. ASSUME NEW k \in 1 .. Len(rs)
      PROVE  /\ StartOf(out[k]) = StartOf(rs[k]) /\ TailEnd(out[k]) = TailEnd(rs[k])
             /\ Covered(out[k]) = Covered(rs[k]) /\ UsesOf(out[k]) = UsesOf(rs[k])
             /\ Whole(out[k]) /\ out[k].intervals = rs[k].intervals
  <2>1. /\ out[k].intervals = rs[k].intervals /\ out[k].last = rs[k].last /\ out[k].uses = rs[k].uses
        /\ out[k] \in RangeType /\ Whole(rs[k])
    BY <1>1 DEF Alike, Chain
  <2>2. UsesOf(out[k]) = UsesOf(rs[k])
    BY <2>1 DEF UsesOf
  <2>3. Whole(out[k])
    BY <2>1, <2>2 DEF Whole
  <2>4. QED
    BY <2>1, <2>2, <2>3 DEF StartOf, TailEnd, Covered
<1>3. Starts(out) = Starts(rs)
  BY <1>1, <1>2 DEF Starts
<1>4. CoveredBy(out) = CoveredBy(rs)
  BY <1>1, <1>2 DEF CoveredBy
<1>5. UsedBy(out) = UsedBy(rs)
  BY <1>1, <1>2 DEF UsedBy
<1>6. PiecesOf(out) = PiecesOf(rs)
  BY <1>1, <1>2 DEF PiecesOf
<1>7. OwnNodes(out)
  <2>1. Nodes(out) = Nodes(rs)
    BY <1>1, <1>2, SMTT(30) DEF Nodes
  <2>2. OwnNodes(rs)
    BY DEF Chain
  <2>3. QED
    BY <1>1, <1>2, <2>1, <2>2, SMTT(30) DEF OwnNodes
<1>8. Chain(out)
  <2>1. out # <<>>
    BY <1>1 DEF Chain
  <2>2. \A k, l \in 1 .. Len(out) : k < l => TailEnd(out[k]) <= StartOf(out[l])
    BY <1>1, <1>2 DEF Chain
  <2>3. \A k, l \in 1 .. Len(out) : k # l => UsesOf(out[k]) \cap UsesOf(out[l]) = {}
    BY <1>1, <1>2 DEF Chain
  <2>4. QED
    BY <1>1, <1>2, <1>7, <2>1, <2>2, <2>3 DEF Chain
<1>9. QED
  BY <1>2, <1>3, <1>4, <1>5, <1>8, <1>6

LEMMA ScheduledAlike ==
  ASSUME NEW rs, Chain(rs), NEW g \in 1 .. Len(rs), NEW t \in Int, t <= StartOf(rs[g]),
         NEW X, FingersOn(rs, t, X)
  PROVE  Alike(rs, ScheduledAt(rs, g)) /\ FingersOn(ScheduledAt(rs, g), t, X \cup {StartOf(rs[g])})
<1> DEFINE out == ScheduledAt(rs, g)
<1>1. /\ rs \in Seq(RangeType) /\ Whole(rs[g]) /\ rs[g] \in RangeType /\ rs[g].intervals # <<>>
  BY DEF Chain, Whole
<1>2. out = [rs EXCEPT ![g] = Scheduled(rs[g])]
  BY DEF ScheduledAt
<1> HIDE DEF out
<1> DEFINE s == Scheduled(rs[g])
<1>3. /\ s \in RangeType /\ s.intervals = rs[g].intervals /\ s.last = rs[g].last /\ s.uses = rs[g].uses
      /\ s.pending = rs[g].intervals[1].node /\ s.register = FirstUse(rs[g])
      /\ FirstUse(s) = FirstUse(rs[g])
  BY <1>1, ScheduledIs
<1> HIDE DEF s
<1>4. out \in Seq(RangeType) /\ Len(out) = Len(rs)
      /\ out[g] = s /\ \A k \in 1 .. Len(rs) : k # g => out[k] = rs[k]
  BY <1>1, <1>2, <1>3 DEF s
<1>5. Alike(rs, out)
  BY <1>3, <1>4 DEF Alike
<1>6. FingerAt(s, t)
  <2>1. Leads(s, Up(t))
    BY <1>3, LeadsFromFirst
  <2>2. QED
    BY <1>1, <1>3, <2>1, OverAtStart DEF FingerAt
<1>7. ASSUME NEW k \in 1 .. Len(out), StartOf(out[k]) \in X \cup {StartOf(rs[g])}
      PROVE  FingerAt(out[k], t)
  <2>1. CASE k = g
    BY <1>4, <1>6, <2>1
  <2>2. CASE k # g
    <3>1. out[k] = rs[k] /\ k \in 1 .. Len(rs)
      BY <1>4, <2>2
    <3>2. StartOf(rs[k]) # StartOf(rs[g])
      BY <2>2, <3>1, StartsDiffer
    <3>3. QED
      BY <1>7, <3>1, <3>2 DEF FingersOn
  <2>3. QED
    BY <2>1, <2>2
<1>8. QED
  BY <1>5, <1>7 DEF FingersOn, out

(* What a split changes, as the chain sees it.                             *)
Split(rs, k, p, out) ==
  /\ Chain(out) /\ Len(out) = Len(rs) + 1 /\ k + 1 \in 1 .. Len(out)
  /\ \A j \in 1 .. k - 1 : out[j] = rs[j]
  /\ \A j \in k + 2 .. Len(rs) + 1 : out[j] = rs[j - 1]
  /\ StartOf(out[k]) = StartOf(rs[k]) /\ TailEnd(out[k]) <= p
  /\ p <= StartOf(out[k + 1]) /\ TailEnd(out[k + 1]) = TailEnd(rs[k])
  /\ out[k + 1].pending = Null
  /\ Covered(out[k]) = {q \in Covered(rs[k]) : q < p}
  /\ Covered(out[k + 1]) = {q \in Covered(rs[k]) : q >= p}
  /\ UsesOf(out[k]) \cup UsesOf(out[k + 1]) = UsesOf(rs[k])

LEMMA SplitSplits ==
  ASSUME NEW rs, Chain(rs), NEW k \in 1 .. Len(rs), NEW p \in Int,
         StartOf(rs[k]) < p, p < TailEnd(rs[k]), FingerBefore(rs[k], p)
  PROVE  LET out == SplitAt(rs, k, p)
         IN  /\ Split(rs, k, p, out)
             /\ \A t \in Int : t <= StartOf(rs[k]) /\ FingerAt(rs[k], t) => FingerAt(out[k], t)
<1> DEFINE out == SplitAt(rs, k, p)
           r == Ready(rs[k])
           N == Cardinality(Nodes(rs))
<1>1. PICK a, b : CutInTwo(r, p, 1 + N, a, b) /\ IsLinked(rs, k, a, b, out) /\ Chain(out)
  BY SplitIs
<1> HIDE DEF out, N
<1>2. /\ out \in Seq(RangeType) /\ Len(out) = Len(rs) + 1
      /\ out[k] = a /\ out[k + 1] = b
      /\ \A j \in 1 .. k - 1 : out[j] = rs[j]
      /\ \A j \in k + 2 .. Len(rs) + 1 : out[j] = rs[j - 1]
  BY <1>1 DEF IsLinked
<1>3. rs \in Seq(RangeType) /\ Whole(rs[k]) /\ rs[k] \in RangeType /\ rs[k].intervals # <<>>
      /\ Len(rs) \in Nat
  BY DEF Chain, Whole
<1>4. r.intervals = rs[k].intervals /\ r.uses = rs[k].uses
  BY <1>3, ScheduledIs DEF Ready
<1>5. StartOf(r) = StartOf(rs[k]) /\ TailEnd(r) = TailEnd(rs[k]) /\ UsesOf(r) = UsesOf(rs[k])
      /\ Covered(r) = Covered(rs[k]) /\ FirstUse(r) = FirstUse(rs[k])
  BY <1>4 DEF StartOf, TailEnd, UsesOf, Covered, FirstUse
<1>6. rs[k].pending # Null => r = rs[k]
  BY DEF Ready
<1> HIDE DEF r
<1>7. k + 1 \in 1 .. Len(out)
  BY <1>2, <1>3
<1>8. /\ Whole(a) /\ Whole(b) /\ StartOf(a) = StartOf(r) /\ TailEnd(a) <= p /\ p <= StartOf(b)
      /\ TailEnd(b) = TailEnd(r) /\ b.pending = Null /\ a.pending = r.pending
      /\ a.intervals[1].node = r.intervals[1].node
      /\ UsesOf(a) \cup UsesOf(b) = UsesOf(r)
      /\ \A t \in Int : Leads(r, t) => Leads(a, t)
      /\ \A q \in Int : /\ Holds(a.intervals, q) <=> Holds(r.intervals, q) /\ q < p
                        /\ Holds(b.intervals, q) <=> Holds(r.intervals, q) /\ q >= p
  BY <1>1 DEF CutInTwo, TailEnd
<1>9. Covered(a) = {q \in Covered(r) : q < p} /\ Covered(b) = {q \in Covered(r) : q >= p}
  <2>1. /\ a.intervals \in Seq(IntervalType) /\ b.intervals \in Seq(IntervalType)
        /\ r.intervals \in Seq(IntervalType)
    BY <1>3, <1>4, <1>8 DEF Whole, RangeType
  <2>2. /\ \A q \in Int : /\ q \in Covered(a) <=> Holds(a.intervals, q)
                          /\ q \in Covered(b) <=> Holds(b.intervals, q)
                          /\ q \in Covered(r) <=> Holds(r.intervals, q)
        /\ Covered(a) \subseteq Positions /\ Covered(b) \subseteq Positions
        /\ Covered(r) \subseteq Positions
    BY <2>1, CoveredHolds
  <2>3. Positions \subseteq Int
    BY LimitIsNat DEF Positions
  <2>4. QED
    BY <1>8, <2>2, <2>3
<1>10. ASSUME NEW t \in Int, t <= StartOf(rs[k]), FingerAt(rs[k], t) PROVE FingerAt(out[k], t)
  <2>1. FirstOver(rs[k].intervals, t) = rs[k].intervals[1]
    BY <1>3, <1>10, OverAtStart
  <2>2. rs[k].pending = rs[k].intervals[1].node
    BY <1>10, <2>1 DEF FingerAt
  <2>3. rs[k].pending # Null
    <3>1. 1 \in 1 .. Len(rs[k].intervals)
      BY <1>3, WholeSpans
    <3>2. OwnNodes(rs)
      BY DEF Chain
    <3>3. QED
      BY <1>3, <2>2, <3>1, <3>2, NodesAre
  <2>4. r = rs[k]
    BY <1>6, <2>3
  <2>5. FirstOver(a.intervals, t) = a.intervals[1]
    BY <1>5, <1>8, <1>10, OverAtStart
  <2>6. a.pending = FirstOver(a.intervals, t).node
    BY <1>8, <2>2, <2>4, <2>5
  <2>7. Leads(a, Up(t))
    BY <1>8, <1>10, <2>4, UpIs DEF FingerAt
  <2>8. QED
    BY <1>2, <2>6, <2>7 DEF FingerAt
<1>11. Split(rs, k, p, out)
  BY <1>1, <1>2, <1>5, <1>7, <1>8, <1>9 DEF Split
<1>12. QED
  BY <1>10, <1>11 DEF out

(* The other siblings stay, and nothing else comes.                        *)
LEMMA SplitOthers ==
  ASSUME NEW rs, Chain(rs), NEW k \in 1 .. Len(rs), NEW p \in Int, NEW out, Split(rs, k, p, out)
  PROVE  /\ \A j \in 1 .. Len(out) : j # k /\ j # k + 1 =>
              \E g \in 1 .. Len(rs) : g # k /\ out[j] = rs[g]
         /\ \A g \in 1 .. Len(rs) : g # k => \E j \in 1 .. Len(out) : out[j] = rs[g]
<1>1. Len(rs) \in Nat /\ k \in Int /\ 1 <= k /\ k <= Len(rs)
  BY DEF Chain
<1>2. /\ Len(out) = Len(rs) + 1 /\ k + 1 \in 1 .. Len(out) /\ k \in 1 .. Len(out)
      /\ \A j \in 1 .. k - 1 : out[j] = rs[j]
      /\ \A j \in k + 2 .. Len(rs) + 1 : out[j] = rs[j - 1]
  BY <1>1 DEF Split
<1>3. ASSUME NEW j \in 1 .. Len(out), j # k, j # k + 1
      PROVE  \E g \in 1 .. Len(rs) : g # k /\ out[j] = rs[g]
  <2>1. CASE j < k
    BY <1>1, <1>2, <2>1
  <2>2. CASE j > k + 1
    <3>1. j \in k + 2 .. Len(rs) + 1 /\ j - 1 \in 1 .. Len(rs) /\ j - 1 # k
      BY <1>1, <1>2, <2>2
    <3>2. QED
      BY <1>2, <3>1
  <2>3. QED
    BY <1>1, <1>3, <2>1, <2>2
<1>4. ASSUME NEW g \in 1 .. Len(rs), g # k
      PROVE  \E j \in 1 .. Len(out) : out[j] = rs[g]
  <2>1. CASE g < k
    <3>1. g \in 1 .. Len(out) /\ out[g] = rs[g]
      BY <1>1, <1>2, <2>1
    <3>2. QED
      BY <3>1
  <2>2. CASE g > k
    <3>1. g + 1 \in k + 2 .. Len(rs) + 1 /\ g + 1 \in 1 .. Len(out) /\ g + 1 - 1 = g
      BY <1>1, <1>2, <2>2
    <3>2. out[g + 1] = rs[g]
      BY <1>2, <3>1
    <3>3. QED
      BY <3>1, <3>2
  <2>3. QED
    BY <1>1, <1>4, <2>1, <2>2
<1>5. QED
  BY <1>3, <1>4

(* A split loses no position and no use, adds one start, and leaves the    *)
(* fingers of the others where they were.                                  *)
LEMMA SplitKeeps ==
  ASSUME NEW rs, Chain(rs), NEW k \in 1 .. Len(rs), NEW p \in Int,
         StartOf(rs[k]) < p, NEW out, Split(rs, k, p, out)
  PROVE  /\ CoveredBy(out) = CoveredBy(rs) /\ UsedBy(out) = UsedBy(rs)
         /\ Starts(out) = Starts(rs) \cup {StartOf(out[k + 1])}
         /\ StartOf(out[k + 1]) \notin Starts(rs)
         /\ \A t, X : FingersOn(rs, t, X) /\ X \subseteq Starts(rs) /\ StartOf(rs[k]) \notin X =>
                        FingersOn(out, t, X)
<1>1. /\ Len(rs) \in Nat /\ k \in Int /\ 1 <= k /\ k <= Len(rs) /\ rs \in Seq(RangeType)
      /\ \A j \in 1 .. Len(rs) : StartOf(rs[j]) \in Int /\ TailEnd(rs[j]) \in Int
  BY WholeTail DEF Chain
<1>2. /\ Chain(out) /\ Len(out) = Len(rs) + 1 /\ k + 1 \in 1 .. Len(out) /\ k \in 1 .. Len(out)
      /\ \A j \in 1 .. k - 1 : out[j] = rs[j]
      /\ \A j \in k + 2 .. Len(rs) + 1 : out[j] = rs[j - 1]
  BY <1>1 DEF Split
<1>3. /\ StartOf(out[k]) = StartOf(rs[k]) /\ p <= StartOf(out[k + 1])
      /\ TailEnd(out[k + 1]) = TailEnd(rs[k])
      /\ Covered(out[k]) \cup Covered(out[k + 1]) = Covered(rs[k])
      /\ UsesOf(out[k]) \cup UsesOf(out[k + 1]) = UsesOf(rs[k])
  <2>1. Covered(rs[k]) \subseteq Int
    <3>1. rs[k] \in RangeType
      BY <1>1
    <3>2. QED
      BY <3>1, CoveredHolds, LimitIsNat DEF RangeType, Positions
  <2>2. QED
    BY <2>1 DEF Split
<1>4. \A j \in 1 .. Len(out) : j # k /\ j # k + 1 => \E g \in 1 .. Len(rs) : g # k /\ out[j] = rs[g]
  BY SplitOthers
<1>5. \A g \in 1 .. Len(rs) : g # k => \E j \in 1 .. Len(out) : out[j] = rs[g]
  BY SplitOthers
<1> DEFINE Joins(A, B) ==
             /\ A[k] \cup A[k + 1] = B[k]
             /\ \A j \in 1 .. Len(out), g \in 1 .. Len(rs) : out[j] = rs[g] => A[j] = B[g]
<1>6. ASSUME NEW A, NEW B, Joins(A, B)
      PROVE  \A x : (\E j \in 1 .. Len(out) : x \in A[j]) <=> (\E g \in 1 .. Len(rs) : x \in B[g])
  <2>1. ASSUME NEW j \in 1 .. Len(out) PROVE \E g \in 1 .. Len(rs) : A[j] \subseteq B[g]
    <3>1. CASE j = k \/ j = k + 1
      BY <1>6, <3>1
    <3>2. CASE j # k /\ j # k + 1
      BY <1>4, <1>6, <3>2
    <3>3. QED
      BY <3>1, <3>2
  <2>2. ASSUME NEW g \in 1 .. Len(rs), NEW x \in B[g]
        PROVE  \E j \in 1 .. Len(out) : x \in A[j]
    <3>1. CASE g = k
      BY <1>2, <1>6, <2>2, <3>1
    <3>2. CASE g # k
      BY <1>5, <1>6, <2>2, <3>2
    <3>3. QED
      BY <3>1, <3>2
  <2>3. QED
    BY <2>1, <2>2
<1> HIDE DEF Joins
<1>7. CoveredBy(out) = CoveredBy(rs)
  <2> SUFFICES ASSUME NEW x PROVE x \in CoveredBy(out) <=> x \in CoveredBy(rs)
    OBVIOUS
  <2> DEFINE A == [j \in 1 .. Len(out) |-> Covered(out[j])]
             B == [j \in 1 .. Len(rs) |-> Covered(rs[j])]
  <2>1. Joins(A, B)
    BY <1>2, <1>3 DEF Joins
  <2>2. x \in CoveredBy(out) <=> \E j \in 1 .. Len(out) : x \in A[j]
    BY DEF CoveredBy
  <2>3. x \in CoveredBy(rs) <=> \E j \in 1 .. Len(rs) : x \in B[j]
    BY DEF CoveredBy
  <2> HIDE DEF A, B
  <2>4. (\E j \in 1 .. Len(out) : x \in A[j]) <=> (\E g \in 1 .. Len(rs) : x \in B[g])
    BY <1>6, <2>1
  <2>5. QED
    BY <2>2, <2>3, <2>4
<1>8. UsedBy(out) = UsedBy(rs)
  <2> SUFFICES ASSUME NEW x PROVE x \in UsedBy(out) <=> x \in UsedBy(rs)
    OBVIOUS
  <2> DEFINE A == [j \in 1 .. Len(out) |-> UsesOf(out[j])]
             B == [j \in 1 .. Len(rs) |-> UsesOf(rs[j])]
  <2>1. Joins(A, B)
    BY <1>2, <1>3 DEF Joins
  <2>2. x \in UsedBy(out) <=> \E j \in 1 .. Len(out) : x \in A[j]
    BY DEF UsedBy
  <2>3. x \in UsedBy(rs) <=> \E j \in 1 .. Len(rs) : x \in B[j]
    BY DEF UsedBy
  <2> HIDE DEF A, B
  <2>4. (\E j \in 1 .. Len(out) : x \in A[j]) <=> (\E g \in 1 .. Len(rs) : x \in B[g])
    BY <1>6, <2>1
  <2>5. QED
    BY <2>2, <2>3, <2>4
<1>9. Starts(out) = Starts(rs) \cup {StartOf(out[k + 1])}
  <2>1. ASSUME NEW j \in 1 .. Len(out)
        PROVE  StartOf(out[j]) \in Starts(rs) \cup {StartOf(out[k + 1])}
    BY <1>3, <1>4 DEF Starts
  <2>2. ASSUME NEW g \in 1 .. Len(rs) PROVE StartOf(rs[g]) \in Starts(out)
    <3>1. CASE g = k
      BY <1>2, <1>3, <3>1 DEF Starts
    <3>2. CASE g # k
      BY <1>5, <3>2 DEF Starts
    <3>3. QED
      BY <3>1, <3>2
  <2>3. Starts(out) \subseteq Starts(rs) \cup {StartOf(out[k + 1])}
    BY <2>1 DEF Starts
  <2>4. Starts(rs) \subseteq Starts(out) /\ StartOf(out[k + 1]) \in Starts(out)
    BY <1>2, <2>2 DEF Starts
  <2>5. QED
    BY <2>3, <2>4
<1>10. StartOf(out[k + 1]) \notin Starts(rs)
  <2> SUFFICES ASSUME NEW g \in 1 .. Len(rs), StartOf(out[k + 1]) = StartOf(rs[g]) PROVE FALSE
    BY DEF Starts
  <2>1. Whole(out[k + 1])
    BY <1>2 DEF Chain
  <2>2. StartOf(out[k + 1]) \in Int /\ StartOf(out[k + 1]) < TailEnd(rs[k])
    BY <1>3, <2>1, WholeTail
  <2>3. StartOf(rs[k]) < StartOf(out[k + 1])
    BY <1>1, <1>3, <2>2
  <2>4. CASE g < k
    <3>1. TailEnd(rs[g]) <= StartOf(rs[k]) /\ StartOf(rs[g]) < TailEnd(rs[g])
      BY <2>4, WholeTail DEF Chain
    <3>2. QED
      BY <1>1, <2>2, <2>3, <3>1
  <2>5. CASE g > k
    <3>1. TailEnd(rs[k]) <= StartOf(rs[g])
      BY <2>5 DEF Chain
    <3>2. QED
      BY <1>1, <2>2, <3>1
  <2>6. CASE g = k
    BY <1>1, <2>2, <2>3, <2>6
  <2>7. QED
    BY <1>1, <2>4, <2>5, <2>6
<1>11. ASSUME NEW t, NEW X, FingersOn(rs, t, X), X \subseteq Starts(rs), StartOf(rs[k]) \notin X
       PROVE  FingersOn(out, t, X)
  <2> SUFFICES ASSUME NEW j \in 1 .. Len(out), StartOf(out[j]) \in X PROVE FingerAt(out[j], t)
    BY DEF FingersOn
  <2>1. j # k /\ j # k + 1
    BY <1>3, <1>10, <1>11
  <2>2. PICK g \in 1 .. Len(rs) : out[j] = rs[g]
    BY <1>4, <2>1
  <2>3. QED
    BY <1>11, <2>2 DEF FingersOn
<1>12. QED
  BY <1>7, <1>8, <1>9, <1>10, <1>11

-----------------------------------------------------------------------------
(* The pieces of a cut.                                                    *)
Halves(rs, k, p, out) ==
  LET C == Covered(rs[k])
      A == {q \in C : q < p}
      B == {q \in C : q >= p}
  IN  /\ PiecesOf(out) = (PiecesOf(rs) \ {C}) \cup {A, B}
      /\ A # {} /\ B # {} /\ Covered(out[k + 1]) = B

LEMMA SplitHalves ==
  ASSUME NEW rs, Chain(rs), NEW k \in 1 .. Len(rs), NEW p \in Int, NEW out, Split(rs, k, p, out)
  PROVE  Halves(rs, k, p, out)
<1> DEFINE C == Covered(rs[k])
           A == {q \in C : q < p}
           B == {q \in C : q >= p}
<1>1. /\ Chain(out) /\ k \in 1 .. Len(out) /\ k + 1 \in 1 .. Len(out)
      /\ Covered(out[k]) = A /\ Covered(out[k + 1]) = B
  BY DEF Split, Chain
<1> HIDE DEF A, B, C
<1>2. A # {} /\ B # {}
  BY <1>1, PiecesApart DEF PiecesOf
<1>3. ASSUME NEW j \in 1 .. Len(out)
      PROVE  Covered(out[j]) \in (PiecesOf(rs) \ {C}) \cup {A, B}
  <2>1. CASE j = k \/ j = k + 1
    BY <1>1, <2>1
  <2>2. CASE j # k /\ j # k + 1
    <3>1. PICK g \in 1 .. Len(rs) : g # k /\ out[j] = rs[g]
      BY <2>2, SplitOthers
    <3>2. Covered(rs[g]) # C
      BY <3>1, PiecesApart DEF C
    <3>3. QED
      BY <3>1, <3>2 DEF PiecesOf
  <2>3. QED
    BY <2>1, <2>2
<1>4. ASSUME NEW g \in 1 .. Len(rs), Covered(rs[g]) # C PROVE Covered(rs[g]) \in PiecesOf(out)
  <2>1. g # k
    BY <1>4 DEF C
  <2>2. PICK j \in 1 .. Len(out) : out[j] = rs[g]
    BY <2>1, SplitOthers, SMTT(30)
  <2>3. QED
    BY <2>2 DEF PiecesOf
<1>5. PiecesOf(out) = (PiecesOf(rs) \ {C}) \cup {A, B}
  BY <1>1, <1>3, <1>4 DEF PiecesOf
<1>6. QED
  BY <1>1, <1>2, <1>5 DEF Halves, A, B, C

(* One piece is shared out among two or three that follow one another.     *)
Ahead(S, T) == \A p \in S, q \in T : p < q

SharedAmong(C, N) ==
  /\ UNION N = C /\ {} \notin N /\ C \notin N /\ Cardinality(N) \in {2, 3}
  /\ \A T, U \in N : T = U \/ Ahead(T, U) \/ Ahead(U, T)

CutOf(P, Q) == \E C \in P : \E N : Q = (P \ {C}) \cup N /\ SharedAmong(C, N)

LEMMA HalvesCut ==
  ASSUME NEW rs, Chain(rs), NEW k \in 1 .. Len(rs), NEW p \in Int, NEW out, Halves(rs, k, p, out)
  PROVE  CutOf(PiecesOf(rs), PiecesOf(out))
<1> DEFINE C == Covered(rs[k])
           A == {q \in C : q < p}
           B == {q \in C : q >= p}
           N == {A, B}
<1>1. C \in PiecesOf(rs) /\ C \subseteq Int
  <2>1. rs[k].intervals \in Seq(IntervalType)
    BY DEF Chain, Whole, RangeType
  <2>2. C \subseteq Positions
    BY <2>1, CoveredHolds
  <2>3. QED
    BY <2>2, LimitIsNat DEF PiecesOf, Positions
<1>2. PiecesOf(out) = (PiecesOf(rs) \ {C}) \cup N /\ A # {} /\ B # {}
  BY DEF Halves
<1>3. /\ UNION N = C /\ {} \notin N /\ C \notin N /\ A # B
      /\ \A T, U \in N : T = U \/ Ahead(T, U) \/ Ahead(U, T)
  <2>1. A \cup B = C /\ A \cap B = {} /\ \A x \in A, y \in B : x < y
    BY <1>1
  <2> HIDE DEF A, B, C
  <2>2. C # A /\ C # B /\ A # B
    BY <1>2, <2>1
  <2>3. Ahead(A, B)
    BY <2>1 DEF Ahead
  <2>4. QED
    BY <1>2, <2>1, <2>2, <2>3
<1>4. Cardinality(N) = 2
  <2> HIDE DEF A, B
  <2>1. IsFiniteSet({A}) /\ Cardinality({A}) = 1 /\ B \notin {A}
    BY <1>3, FS_Singleton
  <2>2. Cardinality({A} \cup {B}) = 1 + 1
    BY <2>1, FS_AddElement
  <2>3. N = {A} \cup {B}
    OBVIOUS
  <2>4. QED
    BY <2>2, <2>3
<1> HIDE DEF C, N
<1>5. SharedAmong(C, N)
  BY <1>3, <1>4 DEF SharedAmong
<1>6. QED
  BY <1>1, <1>2, <1>5 DEF CutOf

LEMMA ThirdsCut ==
  ASSUME NEW rs, Chain(rs), NEW k \in 1 .. Len(rs), NEW p \in Int, NEW mid, Halves(rs, k, p, mid),
         NEW q \in Int, p < q, NEW out, Halves(mid, k + 1, q, out)
  PROVE  CutOf(PiecesOf(rs), PiecesOf(out))
<1> DEFINE C == Covered(rs[k])
           A == {x \in C : x < p}
           B == {x \in C : x >= p}
           D == {x \in B : x < q}
           E == {x \in B : x >= q}
           N == {A, D, E}
<1>1. C \in PiecesOf(rs) /\ C \subseteq Int
  <2>1. rs[k].intervals \in Seq(IntervalType)
    BY DEF Chain, Whole, RangeType
  <2>2. C \subseteq Positions
    BY <2>1, CoveredHolds
  <2>3. QED
    BY <2>2, LimitIsNat DEF PiecesOf, Positions
<1>2. /\ PiecesOf(mid) = (PiecesOf(rs) \ {C}) \cup {A, B} /\ A # {} /\ B # {}
      /\ Covered(mid[k + 1]) = B
  BY DEF Halves
<1>3. PiecesOf(out) = (PiecesOf(mid) \ {B}) \cup {D, E} /\ D # {} /\ E # {}
  BY <1>2 DEF Halves
<1>4. /\ A \cup B = C /\ D \cup E = B /\ A \cap B = {} /\ D \cap E = {}
      /\ (\A x \in A, y \in B : x < y) /\ \A x \in D, y \in E : x < y
  BY <1>1
<1>5. B \notin PiecesOf(rs)
  <2> HIDE DEF A, B, C
  <2>1. \A S \in PiecesOf(rs) : S = C \/ S \cap C = {}
    BY <1>1, PiecesApart
  <2>2. B # C /\ B \cap C # {}
    BY <1>2, <1>4
  <2>3. QED
    BY <2>1, <2>2
<1> HIDE DEF A, B, C, D, E
<1>6. PiecesOf(out) = (PiecesOf(rs) \ {C}) \cup N
  <2>1. A # B
    BY <1>2, <1>4
  <2>2. PiecesOf(mid) \ {B} = (PiecesOf(rs) \ {C}) \cup {A}
    BY <1>2, <1>5, <2>1
  <2>3. QED
    BY <1>3, <2>2
<1>7. /\ UNION N = C /\ {} \notin N /\ C \notin N /\ A # D /\ A # E /\ D # E
      /\ \A T, U \in N : T = U \/ Ahead(T, U) \/ Ahead(U, T)
  <2>1. C # A /\ C # D /\ C # E /\ A # D /\ A # E /\ D # E
    BY <1>2, <1>3, <1>4
  <2>2. Ahead(A, D) /\ Ahead(A, E) /\ Ahead(D, E)
    BY <1>4 DEF Ahead
  <2>3. UNION N = C
    BY <1>4
  <2>4. QED
    BY <1>2, <1>3, <2>1, <2>2, <2>3
<1>8. Cardinality(N) = 3
  <2>1. IsFiniteSet({A}) /\ Cardinality({A}) = 1 /\ D \notin {A}
    BY <1>7, FS_Singleton
  <2>2. IsFiniteSet({A} \cup {D}) /\ Cardinality({A} \cup {D}) = 1 + 1
    BY <2>1, FS_AddElement
  <2>3. E \notin {A} \cup {D}
    BY <1>7
  <2>4. Cardinality(({A} \cup {D}) \cup {E}) = 1 + 1 + 1
    BY <2>2, <2>3, FS_AddElement
  <2>5. N = ({A} \cup {D}) \cup {E}
    OBVIOUS
  <2> HIDE DEF N
  <2>6. 1 + 1 + 1 = 3
    OBVIOUS
  <2>7. QED
    BY <2>4, <2>5, <2>6
<1> HIDE DEF N
<1>9. SharedAmong(C, N)
  BY <1>7, <1>8 DEF SharedAmong
<1>10. QED
  BY <1>1, <1>6, <1>9 DEF CutOf

-----------------------------------------------------------------------------
(* The invariant, said of the chain.                                       *)
LEMMA ChainShape ==
  ASSUME NEW rs, Chain(rs)
  PROVE  /\ InSequence(rs) /\ Starts(rs) \subseteq Positions
         /\ CoveredBy(rs) \subseteq Positions /\ UsedBy(rs) \subseteq UseType
         /\ \A k \in 1 .. Len(rs) :
              /\ EndOf(rs[k]) = TailEnd(rs[k])
              /\ \A u \in UsesOf(rs[k]) : StartOf(rs[k]) <= u.pos /\ u.pos <= EndOf(rs[k])
              /\ \A i \in 1 .. Len(rs[k].uses) - 1 : rs[k].uses[i].pos <= rs[k].uses[i + 1].pos
<1>1. rs \in Seq(RangeType) /\ OwnNodes(rs) /\ \A k \in 1 .. Len(rs) : Whole(rs[k])
  BY DEF Chain
<1>2. ASSUME NEW k \in 1 .. Len(rs) PROVE EndOf(rs[k]) = TailEnd(rs[k])
  BY <1>1, OwnIsDistinct, WholeEnds DEF TailEnd
<1>3. InSequence(rs)
  <2>1. \A k \in 1 .. Len(rs) : rs[k].intervals # <<>>
    BY <1>1 DEF Whole
  <2>2. \A k, l \in 1 .. Len(rs) : k < l => EndOf(rs[k]) <= StartOf(rs[l])
    BY <1>2 DEF Chain
  <2>3. QED
    BY <2>1, <2>2 DEF InSequence
<1>4. Starts(rs) \subseteq Positions
  BY <1>1, WholeTail DEF Starts
<1>5. ASSUME NEW k \in 1 .. Len(rs)
      PROVE  Covered(rs[k]) \subseteq Positions /\ UsesOf(rs[k]) \subseteq UseType
  <2>1. rs[k].intervals \in Seq(IntervalType) /\ rs[k].uses \in Seq(UseType)
    BY <1>1 DEF Whole, RangeType
  <2>2. Covered(rs[k]) \subseteq Positions
    BY <2>1, CoveredHolds
  <2>3. UsesOf(rs[k]) \subseteq UseType
    BY <2>1 DEF UsesOf
  <2>4. QED
    BY <2>2, <2>3
<1>6. CoveredBy(rs) \subseteq Positions /\ UsedBy(rs) \subseteq UseType
  BY <1>5 DEF CoveredBy, UsedBy
<1>7. ASSUME NEW k \in 1 .. Len(rs), NEW u \in UsesOf(rs[k])
      PROVE  StartOf(rs[k]) <= u.pos /\ u.pos <= EndOf(rs[k])
  <2> DEFINE l == rs[k].intervals
  <2>1. PICK i \in 1 .. Len(l) : l[i].start <= u.pos /\ u.pos <= l[i].end
    BY <1>1 DEF Whole, Reaches
  <2>2. /\ StartOf(rs[k]) <= l[i].start /\ l[i].end <= TailEnd(rs[k])
        /\ l[i].start \in Int /\ l[i].end \in Int
    BY <1>1, WholeSpans DEF TailEnd
  <2>3. StartOf(rs[k]) \in Int /\ TailEnd(rs[k]) \in Int
    BY <1>1, WholeTail
  <2>4. u.pos \in Int
    <3>1. PICK j \in 1 .. Len(rs[k].uses) : u = rs[k].uses[j]
      BY DEF UsesOf
    <3>2. rs[k].uses \in Seq(UseType)
      BY <1>1 DEF Whole, RangeType
    <3>3. QED
      BY <3>1, <3>2, UsePos
  <2> HIDE DEF l
  <2>5. QED
    BY <1>2, <2>1, <2>2, <2>3, <2>4
<1>8. ASSUME NEW k \in 1 .. Len(rs), NEW i \in 1 .. Len(rs[k].uses) - 1
      PROVE  rs[k].uses[i].pos <= rs[k].uses[i + 1].pos
  <2>1. rs[k].uses \in Seq(UseType)
    BY <1>1 DEF Whole, RangeType
  <2>2. i \in 1 .. Len(rs[k].uses) /\ i + 1 \in 1 .. Len(rs[k].uses) /\ i < i + 1
    BY <2>1
  <2>3. InOrder(rs[k].uses)
    BY <1>1 DEF Whole
  <2>4. QED
    BY <2>2, <2>3 DEF InOrder
<1>9. QED
  BY <1>2, <1>3, <1>4, <1>6, <1>7, <1>8

LEMMA Scanning ==
  ASSUME RangeInv, UsesStayWithTheirRange, phase = "alloc"
  PROVE  /\ Scanned(ranges, now, active, queue) /\ now \in Positions
         /\ wanted = CoveredBy(ranges) /\ given = UsedBy(ranges)
<1>1. /\ ranges \in Seq(RangeType) /\ ranges # <<>> /\ now \in Positions
  BY DEF RangeInv, TypeOK
<1>2. OwnNodes(ranges) /\ InSequence(ranges)
  BY DEF RangeInv, SiblingsInOrder
<1>3. ASSUME NEW k \in 1 .. Len(ranges) PROVE Whole(ranges[k])
  <2>1. ranges[k] \in RangeType /\ ranges[k].intervals # <<>>
    BY <1>1, <1>2 DEF InSequence
  <2>2. Ascending(ranges[k].intervals)
        /\ ranges[k].last = ranges[k].intervals[Len(ranges[k].intervals)].node
    BY <2>1 DEF RangeInv, IntervalsApart
  <2>3. InOrder(ranges[k].uses) /\ \A u \in UsesOf(ranges[k]) : Reaches(ranges[k].intervals, u.pos)
    BY DEF RangeInv, UsesReached
  <2>4. QED
    BY <2>1, <2>2, <2>3 DEF Whole
<1>4. ASSUME NEW k \in 1 .. Len(ranges) PROVE EndOf(ranges[k]) = TailEnd(ranges[k])
  BY <1>2, <1>3, OwnIsDistinct, WholeEnds DEF TailEnd
<1>5. Chain(ranges)
  <2>1. \A k, l \in 1 .. Len(ranges) : k < l => TailEnd(ranges[k]) <= StartOf(ranges[l])
    BY <1>2, <1>4 DEF InSequence
  <2>2. \A k, l \in 1 .. Len(ranges) : k # l => UsesOf(ranges[k]) \cap UsesOf(ranges[l]) = {}
    BY DEF UsesStayWithTheirRange
  <2>3. QED
    BY <1>1, <1>2, <1>3, <2>1, <2>2 DEF Chain
<1>6. active \cup queue \subseteq Starts(ranges) /\ \A q \in queue : now <= q
  BY DEF RangeInv, WaitingIsAhead
<1>7. FingersOn(ranges, now, active \cup queue)
  BY DEF RangeInv, FingersAreOwn, FingersOn, FingerAt, FirstOver, Up
<1>8. wanted = CoveredBy(ranges) /\ given = UsedBy(ranges)
  BY DEF RangeInv, NothingIsLost, CoveredBy, UsedBy
<1>9. QED
  BY <1>1, <1>5, <1>6, <1>7, <1>8 DEF Scanned

LEMMA ScanningAgain ==
  ASSUME phase' = "alloc", now' \in Positions, Scanned(ranges', now', active', queue'),
         block' \in 0 .. NBlocks - 1, pos' \in 0 .. Limit,
         todo' \in Seq({"phi", "fixed", "any", "register"}),
         wanted' = CoveredBy(ranges'), given' = UsedBy(ranges')
  PROVE  RangeInv' /\ UsesStayWithTheirRange'
<1>1. /\ Chain(ranges')
      /\ active' \cup queue' \subseteq Starts(ranges')
      /\ \A q \in queue' : now' <= q
      /\ FingersOn(ranges', now', active' \cup queue')
  BY DEF Scanned
<1>2. /\ InSequence(ranges') /\ Starts(ranges') \subseteq Positions
      /\ CoveredBy(ranges') \subseteq Positions /\ UsedBy(ranges') \subseteq UseType
      /\ \A k \in 1 .. Len(ranges') :
           /\ EndOf(ranges'[k]) = TailEnd(ranges'[k])
           /\ \A u \in UsesOf(ranges'[k]) : StartOf(ranges'[k]) <= u.pos /\ u.pos <= EndOf(ranges'[k])
           /\ \A i \in 1 .. Len(ranges'[k].uses) - 1 :
                ranges'[k].uses[i].pos <= ranges'[k].uses[i + 1].pos
  BY <1>1, ChainShape
<1>3. /\ ranges' \in Seq(RangeType) /\ ranges' # <<>> /\ OwnNodes(ranges')
      /\ \A k \in 1 .. Len(ranges') : Whole(ranges'[k])
      /\ \A k, l \in 1 .. Len(ranges') : k # l => UsesOf(ranges'[k]) \cap UsesOf(ranges'[l]) = {}
  BY <1>1 DEF Chain
<1>4. TypeOK'
  <2>1. ranges' \in Seq(RangeType) \ {<<>>}
    BY <1>3
  <2>2. queue' \subseteq Positions /\ active' \subseteq Positions
    BY <1>1, <1>2
  <2>3. wanted' \subseteq Positions /\ given' \subseteq UseType
    BY <1>2
  <2>4. phase' \in {"enter", "build", "alloc", "stuck"}
    OBVIOUS
  <2>5. QED
    BY <2>1, <2>2, <2>3, <2>4 DEF TypeOK
<1>5. IntervalsApart'
  BY <1>3 DEF IntervalsApart, Whole
<1>6. UsesReached'
  BY <1>3 DEF UsesReached, Whole
<1>7. BehindTheWalk' /\ AddUseReturns' /\ SiblingsInOrder' /\ WaitingIsAhead'
  BY <1>1, <1>2 DEF BehindTheWalk, AddUseReturns, SiblingsInOrder, WaitingIsAhead
<1>8. FingersAreOwn'
  <2>1. ASSUME NEW k \in 1 .. Len(ranges'), StartOf(ranges'[k]) \in active' \cup queue'
        PROVE  /\ ranges'[k].pending = FirstOver(ranges'[k].intervals, now').node
               /\ Leads(ranges'[k], Up(now'))
    BY <1>1, <2>1 DEF FingersOn, FingerAt
  <2>2. QED
    BY <2>1 DEF FingersAreOwn, FirstOver, First, Up, Leads, Passed
<1>9. NothingIsLost'
  BY DEF NothingIsLost, CoveredBy, UsedBy
<1>10. UsesStayWithTheirRange'
  BY <1>2, <1>3 DEF UsesStayWithTheirRange, UsedBy
<1>11. QED
  BY <1>3, <1>4, <1>5, <1>6, <1>7, <1>8, <1>9, <1>10 DEF RangeInv

-----------------------------------------------------------------------------
(* The scan moves on.                                                      *)
LEMMA PendingIs ==
  ASSUME NEW rs, Chain(rs), NEW k \in 1 .. Len(rs), NEW s \in Int, NEW t \in Int, s <= t,
         FingerAt(rs[k], s)
  PROVE  /\ Pending(rs, rs[k], t) = FirstOver(rs[k].intervals, t).node
         /\ Pending(rs, rs[k], t) \in Nat
<1> DEFINE l == rs[k].intervals
<1>1. rs \in Seq(RangeType) /\ OwnNodes(rs) /\ Whole(rs[k])
  BY DEF Chain
<1>2. l \in Seq(IntervalType) /\ Len(l) \in Nat /\ \A i \in 1 .. Len(l) : l[i].end \in Int /\ l[i].node \in Nat
  BY <1>1, WholeSpans
<1>3. rs[k].pending = FirstOver(l, s).node
  BY DEF FingerAt
<1> HIDE DEF l
<1>4. CASE \A j \in 1 .. Len(l) : l[j].end <= s
  <2>1. ASSUME NEW j \in 1 .. Len(l) PROVE l[j].end <= t
    BY <1>2, <1>4
  <2>2. FirstOver(l, s).node = Null /\ FirstOver(l, t).node = Null
    BY <1>2, <1>4, <2>1, FirstOverNone
  <2>3. Pending(rs, rs[k], t) = Null
    BY <1>3, <2>2 DEF Pending
  <2>4. QED
    BY <2>2, <2>3 DEF l
<1>5. ASSUME NEW i \in 1 .. Len(l), l[i].end > s, \A j \in 1 .. i - 1 : l[j].end <= s
      PROVE  /\ Pending(rs, rs[k], t) = FirstOver(l, t).node
             /\ Pending(rs, rs[k], t) \in Nat
  <2>1. rs[k].pending = l[i].node
    BY <1>2, <1>3, <1>5, FirstOverIs
  <2>2. rs[k].pending # Null
    BY <1>1, <2>1, NodesAre DEF l
  <2>3. IntervalsFrom(rs, rs[k].pending) = SubSeq(l, i, Len(l))
    BY <1>1, <2>1, IntervalsFromIs DEF l
  <2>4. \A j \in 1 .. i - 1 : l[j].end <= t
    BY <1>2, <1>5
  <2>5. FirstOver(SubSeq(l, i, Len(l)), t) = FirstOver(l, t)
    BY <1>2, <2>4, FirstOverFrom
  <2>6. Pending(rs, rs[k], t) = FirstOver(IntervalsFrom(rs, rs[k].pending), t).node
    BY <2>2 DEF Pending, FirstOver
  <2>7. Pending(rs, rs[k], t) = FirstOver(l, t).node
    BY <2>3, <2>5, <2>6
  <2>8. FirstOver(l, t).node \in Nat
    <3>1. CASE \A j \in 1 .. Len(l) : l[j].end <= t
      BY <1>2, <3>1, FirstOverNone
    <3>2. CASE \E h \in 1 .. Len(l) : l[h].end > t /\ \A j \in 1 .. h - 1 : l[j].end <= t
      BY <1>2, <3>2, FirstOverIs
    <3>3. QED
      BY <1>2, <3>1, <3>2, FirstOverExists
  <2>9. QED
    BY <2>7, <2>8
<1>6. QED
  BY <1>2, <1>4, <1>5, FirstOverExists DEF l

LEMMA AdvancedScans ==
  ASSUME Scanned(ranges, now, active, queue), NEW t \in Int, now \in Int, now <= t,
         \A q \in queue : t <= q
  PROVE  Alike(ranges, Advanced(t)) /\ Scanned(Advanced(t), t, active, queue)
<1> DEFINE rs == Advanced(t)
<1>1. /\ Chain(ranges) /\ ranges \in Seq(RangeType)
      /\ active \cup queue \subseteq Starts(ranges)
      /\ FingersOn(ranges, now, active \cup queue)
  BY DEF Scanned, Chain
<1>9. Up(now) \in Int /\ Up(t) \in Int /\ Up(now) <= Up(t)
  BY UpIs
<1>2. ASSUME NEW k \in 1 .. Len(ranges)
      PROVE  /\ rs[k] \in RangeType /\ rs[k].intervals = ranges[k].intervals
             /\ rs[k].last = ranges[k].last /\ rs[k].uses = ranges[k].uses
             /\ StartOf(ranges[k]) \in active \cup queue => FingerAt(rs[k], t)
  <2>1. Whole(ranges[k]) /\ ranges[k] \in RangeType
    BY <1>1 DEF Chain
  <2>2. CASE StartOf(ranges[k]) \in active
    <3>1. rs[k] = [ranges[k] EXCEPT !.pending = Pending(ranges, ranges[k], t)]
      BY <2>2 DEF Advanced
    <3>2. FingerAt(ranges[k], now)
      BY <1>1, <2>2 DEF FingersOn
    <3>3. /\ Pending(ranges, ranges[k], t) = FirstOver(ranges[k].intervals, t).node
          /\ Pending(ranges, ranges[k], t) \in Nat
      BY <1>1, <3>2, PendingIs
    <3>4. /\ rs[k] \in RangeType /\ rs[k].intervals = ranges[k].intervals
          /\ rs[k].last = ranges[k].last /\ rs[k].uses = ranges[k].uses
          /\ rs[k].pending = FirstOver(ranges[k].intervals, t).node
          /\ rs[k].register = ranges[k].register
      BY <2>1, <3>1, <3>3 DEF RangeType
    <3>5. FingerAt(rs[k], t)
      <4>1. Leads(rs[k], Up(now))
        BY <3>2, <3>4 DEF FingerAt, Leads
      <4>2. Leads(rs[k], Up(t))
        BY <1>9, <3>4, <4>1, LeadsLater
      <4>3. QED
        BY <3>4, <4>2 DEF FingerAt
    <3>6. QED
      BY <3>4, <3>5
  <2>3. CASE StartOf(ranges[k]) \notin active
    <3>1. rs[k] = ranges[k]
      BY <2>3 DEF Advanced
    <3>2. ASSUME StartOf(ranges[k]) \in active \cup queue PROVE FingerAt(rs[k], t)
      <4>1. FingerAt(ranges[k], now) /\ t <= StartOf(ranges[k])
        BY <1>1, <2>3, <3>2 DEF FingersOn
      <4>2. now <= StartOf(ranges[k])
        BY <2>1, <4>1, WholeTail
      <4>3. FirstOver(ranges[k].intervals, now) = FirstOver(ranges[k].intervals, t)
        BY <2>1, <4>1, <4>2, OverAtStart
      <4>4. Leads(ranges[k], Up(t))
        BY <1>9, <2>1, <4>1, LeadsLater DEF FingerAt
      <4>5. QED
        BY <3>1, <4>1, <4>3, <4>4 DEF FingerAt
    <3>3. QED
      BY <2>1, <3>1, <3>2
  <2>4. QED
    BY <2>2, <2>3
<1>3. rs = [k \in 1 .. Len(ranges) |-> rs[k]] /\ Len(ranges) \in Nat
  BY <1>1 DEF Advanced
<1> HIDE DEF rs
<1>4. rs \in Seq(RangeType) /\ Len(rs) = Len(ranges)
  <2> DEFINE n == Len(ranges)
  <2>1. rs \in [1 .. n -> RangeType] /\ n \in Nat
    BY <1>2, <1>3
  <2> HIDE DEF n
  <2>2. rs \in Seq(RangeType) /\ Len(rs) = n
    BY <2>1, SeqDef
  <2>3. QED
    BY <2>2 DEF n
<1>5. Alike(ranges, rs)
  BY <1>2, <1>4 DEF Alike
<1>6. /\ Chain(rs) /\ Starts(rs) = Starts(ranges)
      /\ \A k \in 1 .. Len(ranges) : StartOf(rs[k]) = StartOf(ranges[k])
  BY <1>1, <1>5, AlikeChain
<1>7. FingersOn(rs, t, active \cup queue)
  BY <1>2, <1>4, <1>6 DEF FingersOn
<1>8. QED
  BY <1>1, <1>5, <1>6, <1>7 DEF Scanned, rs

(* Fewer waiting, fewer fingers to watch.                                  *)
LEMMA ScannedFewer ==
  ASSUME NEW rs, NEW t, NEW act, NEW que, Scanned(rs, t, act, que),
         NEW fewer, NEW less, fewer \cup less \subseteq act \cup que, less \subseteq que
  PROVE  Scanned(rs, t, fewer, less)
  BY DEF Scanned, FingersOn

-----------------------------------------------------------------------------
(* The definition hands the range over to the scan.                        *)
LEMMA OneScans ==
  ASSUME NEW r, NEW s \in Nat, NEW end \in Nat, Built(r, s, end),
         r.intervals # <<>>, r.intervals[1].start = s,
         InOrder(r.uses), \A u \in UsesOf(r) : Reaches(r.intervals, u.pos)
  PROVE  LET out == <<Scheduled(r)>>
         IN  /\ Scanned(out, 0, {}, {s})
             /\ CoveredBy(out) = Covered(r) /\ UsedBy(out) = UsesOf(r)
<1> DEFINE out == <<Scheduled(r)>>
<1>1. Whole(r) /\ r \in RangeType
  BY DEF Whole, Built
<1>2. OwnNodes(<<r>>)
  BY BuiltOwnsNodes
<1> DEFINE rs == <<r>>
<1>3. rs \in Seq(RangeType) /\ Len(rs) = 1 /\ rs[1] = r /\ rs # <<>>
  BY <1>1
<1>4. out = ScheduledAt(rs, 1)
  BY DEF ScheduledAt
<1>5. CoveredBy(rs) = Covered(r) /\ UsedBy(rs) = UsesOf(r) /\ Starts(rs) = {StartOf(r)}
  BY DEF CoveredBy, UsedBy, Starts
<1>6. StartOf(r) = s
  BY DEF StartOf
<1> HIDE DEF rs, out
<1>7. Chain(rs)
  BY <1>1, <1>2, <1>3 DEF Chain, rs
<1>8. FingersOn(rs, 0, {})
  BY DEF FingersOn
<1>9. Alike(rs, out) /\ FingersOn(out, 0, {} \cup {StartOf(rs[1])})
  <2>1. 1 \in 1 .. Len(rs) /\ 0 \in Int /\ 0 <= StartOf(rs[1])
    BY <1>3, <1>6
  <2>2. QED
    BY <1>4, <1>7, <1>8, <2>1, ScheduledAlike
<1>10. Chain(out) /\ Starts(out) = {s} /\ CoveredBy(out) = Covered(r) /\ UsedBy(out) = UsesOf(r)
  BY <1>5, <1>6, <1>7, <1>9, AlikeChain
<1>11. Scanned(out, 0, {}, {s})
  BY <1>3, <1>6, <1>9, <1>10 DEF Scanned
<1>12. QED
  BY <1>10, <1>11 DEF out

(* While the range is built there is only one, and its uses lie in it.     *)
LEMMA BuildingKeepsUses ==
  ASSUME RangeInv, phase \in {"enter", "build", "stuck"}, Len(ranges) = 1
  PROVE  UsesStayWithTheirRange
<1> DEFINE r == ranges[1]
<1>1. /\ ranges \in Seq(RangeType) /\ Len(ranges) = 1 /\ r \in RangeType
  BY DEF RangeInv, TypeOK
<1>2. given = UNION {UsesOf(ranges[k]) : k \in 1 .. Len(ranges)}
  BY DEF RangeInv, NothingIsLost
<1>3. /\ InOrder(r.uses) /\ \A u \in UsesOf(r) : Reaches(r.intervals, u.pos)
      /\ Ascending(r.intervals)
      /\ r.last = IF r.intervals = <<>> THEN Null ELSE r.intervals[Len(r.intervals)].node
      /\ OwnNodes(ranges)
  BY <1>1 DEF RangeInv, UsesReached, IntervalsApart
<1>4. \A i \in 1 .. Len(r.uses) - 1 : r.uses[i].pos <= r.uses[i + 1].pos
  <2>1. r.uses \in Seq(UseType)
    BY <1>1 DEF RangeType
  <2>2. ASSUME NEW i \in 1 .. Len(r.uses) - 1 PROVE r.uses[i].pos <= r.uses[i + 1].pos
    <3>1. i \in 1 .. Len(r.uses) /\ i + 1 \in 1 .. Len(r.uses) /\ i < i + 1
      BY <2>1
    <3>2. QED
      BY <1>3, <3>1 DEF InOrder
  <2>3. QED
    BY <2>2
<1>5. ASSUME NEW u \in UsesOf(r) PROVE StartOf(r) <= u.pos /\ u.pos <= EndOf(r)
  <2>1. r.intervals # <<>>
    BY <1>3 DEF Reaches
  <2>2. r.last = r.intervals[Len(r.intervals)].node
    BY <1>3, <2>1
  <2> HIDE DEF r
  <2>3. ranges # <<>> /\ 1 \in 1 .. Len(ranges) /\ \A k \in 1 .. Len(ranges) : ranges[k] = r /\ k = 1
    <3>1. ranges # <<>>
      BY <1>1
    <3>2. 1 .. Len(ranges) = {1}
      BY <1>1
    <3>3. QED
      BY <3>1, <3>2 DEF r
  <2>4. Whole(r)
    BY <1>1, <1>3, <2>1, <2>2 DEF Whole
  <2>5. Chain(ranges)
    BY <1>1, <1>3, <2>3, <2>4 DEF Chain
  <2>6. QED
    BY <2>3, <2>5, ChainShape
<1>6. QED
  BY <1>1, <1>2, <1>4, <1>5 DEF UsesStayWithTheirRange

LEMMA DefineInitiallyStep ==
  RangeInv /\ DefineInitially => RangeInv' /\ UsesStayWithTheirRange'
<1> SUFFICES ASSUME RangeInv, DefineInitially PROVE RangeInv' /\ UsesStayWithTheirRange'
  OBVIOUS
<1> DEFINE r == ranges[1]
           e == BlockEnd(0)
           n == AddInterval(r, 0, e)
           d == Define(n, 0)
<1>1. /\ phase = "enter" /\ block = 0 /\ ranges' = <<Scheduled(d)>>
      /\ wanted' = wanted \cup 0 .. BlockEnd(0) - 1 /\ queue' = {0} /\ phase' = "alloc"
      /\ block' = block /\ pos' = pos /\ todo' = todo /\ active' = active /\ now' = now
      /\ given' = given
  BY DEF DefineInitially
<1>2. active = {} /\ now = 0 /\ now \in Positions
      /\ block \in 0 .. NBlocks - 1 /\ pos \in 0 .. Limit
      /\ todo \in Seq({"phi", "fixed", "any", "register"})
  BY <1>1 DEF RangeInv, TypeOK, BehindTheWalk
<1>3. e \in Nat /\ 0 < e /\ 0 + 1 <= e /\ e <= Limit
  <2>1. e \in Nat /\ BlockStart(0) + 2 <= e /\ BlockStart(0) \in Nat
    BY BlockStarts
  <2>2. 0 \in 0 .. NBlocks - 1
    BY SizeAssumption
  <2>3. e <= Limit
    BY <2>2, BlocksInLimit
  <2>4. QED
    BY <2>1, <2>3
<1>4. /\ Built(r, e, e) /\ InOrder(r.uses)
      /\ \A u \in UsesOf(r) : u \in UseType /\ Reaches(r.intervals, u.pos)
      /\ wanted = Covered(r) /\ given = UsesOf(r)
  BY <1>1, Building
<1> HIDE DEF e, d, r
<1>5. Built(r, 0, e)
  <2>1. \A i \in 1 .. Len(r.intervals) : r.intervals[i].start \in Int
    BY <1>4, IntervalAt DEF Built, RangeType
  <2>2. QED
    BY <1>3, <1>4, <2>1 DEF Built
<1>6. AddsTo(n, r, 0, e, e)
  BY <1>3, <1>5, AddIntervalAdds
<1> HIDE DEF n
<1>7. AddsTo(d, n, 0, 0 + 1, e)
  BY <1>3, <1>6, DefineAdds DEF AddsTo, d
<1>8. d.uses = r.uses /\ UsesOf(d) = UsesOf(r)
  BY <1>6, <1>7 DEF AddsTo, UsesOf
<1>9. \A u \in UsesOf(d) : Reaches(d.intervals, u.pos)
  <2> SUFFICES ASSUME NEW u \in UsesOf(d) PROVE Reaches(d.intervals, u.pos)
    OBVIOUS
  <2>1. Reaches(n.intervals, u.pos) /\ u \in UseType
    BY <1>3, <1>4, <1>6, <1>8, UsesStayReached
  <2>2. QED
    BY <1>3, <1>7, <2>1, UsesStayReached
<1>10. Covered(d) = wanted'
  <2>1. Covered(n) = Covered(r) \cup 0 .. e - 1
    BY <1>3, <1>5, <1>6, CoveredGrows
  <2>2. Built(n, 0, e)
    BY <1>6 DEF AddsTo
  <2>3. Covered(d) = Covered(n) \cup 0 .. 0 + 1 - 1
    BY <1>3, <1>7, <2>2, CoveredGrows
  <2>4. 0 .. 0 + 1 - 1 \subseteq 0 .. e - 1
    BY <1>3
  <2>5. QED
    BY <1>1, <1>4, <2>1, <2>3, <2>4 DEF e
<1>11. /\ Scanned(ranges', 0, {}, {0})
       /\ CoveredBy(ranges') = Covered(d) /\ UsedBy(ranges') = UsesOf(d)
  <2>1. Built(d, 0, e) /\ d.intervals # <<>> /\ d.intervals[1].start = 0 /\ InOrder(d.uses)
    BY <1>4, <1>7, <1>8 DEF AddsTo
  <2>2. QED
    BY <1>1, <1>3, <1>9, <2>1, OneScans
<1>12. QED
  BY <1>1, <1>2, <1>4, <1>8, <1>10, <1>11, ScanningAgain

LEMMA DefineByPhiStep ==
  RangeInv /\ DefineByPhi => RangeInv' /\ UsesStayWithTheirRange'
<1> SUFFICES ASSUME RangeInv, DefineByPhi PROVE RangeInv' /\ UsesStayWithTheirRange'
  OBVIOUS
<1> DEFINE r == ranges[1]
           s == BlockStart(block)
           e == BlockEnd(block)
           move(i) == [pos |-> s, slot |-> <<s, i>>, reg |-> FALSE]
           a == move(1)
           b == move(2)
           d == Define(r, s)
           da == AddUse(d, a)
           m == AddUse(da, b)
<1>1. /\ phase = "build" /\ pos - 2 = s
      /\ r.intervals # <<>> => StartOf(r) = s
      /\ ranges' = <<Scheduled(m)>>
      /\ given' = given \cup {a, b} /\ wanted' = wanted \cup {s} /\ queue' = {s}
      /\ phase' = "alloc"
      /\ block' = block /\ pos' = pos /\ todo' = todo /\ active' = active /\ now' = now
  BY DEF DefineByPhi, AtBlockEntry
<1>2. /\ block \in 0 .. NBlocks - 1 /\ s \in Nat /\ e \in Nat /\ Limit \in Nat /\ e <= Limit
      /\ pos \in Nat /\ s + 2 <= pos /\ pos <= e - 2
      /\ todo \in Seq({"phi", "fixed", "any", "register"})
      /\ queue = {} /\ active = {} /\ now = 0
      /\ \A u \in UsesOf(r) : /\ u.pos \in Int /\ u.slot[1] \in Int /\ u.pos >= pos - 1
                              /\ u.slot[1] > pos \/ u.slot[1] = pos
  BY <1>1, InsideBlock
<1>3. /\ Built(r, s, e) /\ InOrder(r.uses)
      /\ \A u \in UsesOf(r) : u \in UseType /\ Reaches(r.intervals, u.pos)
      /\ wanted = Covered(r) /\ given = UsesOf(r)
  BY <1>1, Building
<1>4. pos' \in 0 .. Limit /\ now' \in Positions
  BY <1>1 DEF RangeInv, TypeOK
<1> HIDE DEF e, r, s, d
<1>5. AddsTo(d, r, s, s + 1, e)
  <2>1. r.intervals # <<>> => r.intervals[1].start = s
    BY <1>1 DEF StartOf
  <2>2. s + 1 <= e
    BY <1>2
  <2>3. QED
    BY <1>2, <1>3, <2>1, <2>2, DefineAdds DEF d
<1>6. d.uses = r.uses /\ UsesOf(d) = UsesOf(r) /\ d \in RangeType
      /\ d.intervals # <<>> /\ d.intervals[1].start = s /\ Built(d, s, e)
      /\ d.intervals[1].end >= s + 1
  BY <1>5 DEF AddsTo, UsesOf, Built
<1>7. /\ a \in UseType /\ b \in UseType
      /\ a.pos = s /\ b.pos = s /\ a.slot = <<s, 1>> /\ b.slot = <<s, 2>>
  BY <1>2 DEF UseType
<1> HIDE DEF a, b
<1>8. \A u \in UsesOf(d) : /\ u.pos >= s /\ u.slot # a.slot /\ u.slot # b.slot
  BY <1>1, <1>2, <1>6, <1>7
<1>9. /\ da = [d EXCEPT !.uses = <<a>> \o d.uses] /\ da \in RangeType
      /\ UsesOf(da) = UsesOf(d) \cup {a} /\ InOrder(da.uses)
  BY <1>3, <1>6, <1>7, <1>8, AddUsePrepends
<1> HIDE DEF da
<1>10. /\ m = [da EXCEPT !.uses = <<b>> \o da.uses] /\ m \in RangeType
       /\ UsesOf(m) = UsesOf(da) \cup {b} /\ InOrder(m.uses)
  <2>1. \A u \in UsesOf(da) : u.pos >= b.pos /\ u.slot # b.slot
    <3>1. <<s, 1>> # <<s, 2>> /\ s <= s
      BY <1>2
    <3>2. a.slot # b.slot /\ a.pos >= b.pos
      BY <1>7, <3>1
    <3>3. QED
      BY <1>7, <1>8, <1>9, <3>2
  <2>2. QED
    BY <1>7, <1>9, <2>1, AddUsePrepends
<1> HIDE DEF m
<1>11. m.intervals = d.intervals /\ m.last = d.last
  <2>1. da.intervals = d.intervals /\ da.last = d.last
    BY <1>6, <1>9 DEF RangeType
  <2>2. m.intervals = da.intervals /\ m.last = da.last
    BY <1>9, <1>10 DEF RangeType
  <2>3. QED
    BY <2>1, <2>2
<1>12. Built(m, s, e)
  BY <1>6, <1>10, <1>11 DEF Built
<1>13. \A u \in UsesOf(m) : Reaches(m.intervals, u.pos)
  <2> SUFFICES ASSUME NEW u \in UsesOf(m) PROVE Reaches(d.intervals, u.pos)
    BY <1>11
  <2>1. CASE u \in UsesOf(r)
    BY <1>2, <1>3, <1>5, <2>1, UsesStayReached
  <2>2. CASE u \in {a, b}
    <3>1. d.intervals \in Seq(IntervalType)
      BY <1>6 DEF RangeType
    <3>2. 1 \in 1 .. Len(d.intervals)
      BY <1>6, <3>1
    <3>3. d.intervals[1].end \in Int
      BY <3>1, <3>2, IntervalAt
    <3>4. d.intervals[1].start <= u.pos /\ u.pos <= d.intervals[1].end
      BY <1>2, <1>6, <1>7, <2>2, <3>3
    <3>5. QED
      BY <3>2, <3>4 DEF Reaches
  <2>3. QED
    BY <1>6, <1>9, <1>10, <2>1, <2>2
<1>14. Covered(m) = wanted'
  <2>1. Covered(m) = Covered(d)
    BY <1>11 DEF Covered
  <2>2. Covered(d) = Covered(r) \cup s .. s + 1 - 1
    BY <1>2, <1>3, <1>5, CoveredGrows
  <2>3. s .. s + 1 - 1 = {s}
    BY <1>2
  <2>4. QED
    BY <1>1, <1>3, <2>1, <2>2, <2>3
<1>15. /\ Scanned(ranges', 0, {}, {s})
       /\ CoveredBy(ranges') = Covered(m) /\ UsedBy(ranges') = UsesOf(m)
  BY <1>1, <1>2, <1>6, <1>10, <1>11, <1>12, <1>13, OneScans
<1>16. UsesOf(m) = given'
  BY <1>1, <1>3, <1>6, <1>9, <1>10
<1>17. QED
  BY <1>1, <1>2, <1>4, <1>14, <1>15, <1>16, ScanningAgain

-----------------------------------------------------------------------------
(* The register finger of a scheduled range.                               *)
Asks(u, after) == u.pos >= after /\ u.reg
RegisterIn(w, after) == First(w, LAMBDA u : u.pos >= after /\ u.reg, NoUse)

LEMMA RegisterInIs ==
  ASSUME NEW w \in Seq(UseType), NEW after
  PROVE  \/ RegisterIn(w, after) = NoUse /\ \A j \in 1 .. Len(w) : ~Asks(w[j], after)
         \/ \E j \in 1 .. Len(w) : /\ RegisterIn(w, after) = w[j] /\ Asks(w[j], after)
                                  /\ \A m \in 1 .. j - 1 : ~Asks(w[m], after)
<1> DEFINE hits == {i \in 1 .. Len(w) : w[i].pos >= after /\ w[i].reg}
<1>1. RegisterIn(w, after) = IF hits = {} THEN NoUse
                             ELSE w[CHOOSE i \in hits : \A j \in hits : i <= j]
  BY DEF RegisterIn, First
<1>2. CASE hits = {}
  <2>1. RegisterIn(w, after) = NoUse
    BY <1>1, <1>2
  <2>2. \A j \in 1 .. Len(w) : ~Asks(w[j], after)
    BY <1>2 DEF Asks
  <2>3. QED
    BY <2>1, <2>2
<1>3. CASE hits # {}
  <2>1. hits \in SUBSET Nat
    OBVIOUS
  <2>2. \E i \in hits : \A j \in hits : i <= j
    BY <1>3, <2>1, LeastNatural
  <2> DEFINE c == CHOOSE i \in hits : \A j \in hits : i <= j
  <2>3. c \in hits /\ \A j \in hits : c <= j
    BY <2>2
  <2>4. RegisterIn(w, after) = w[c]
    BY <1>1, <1>3
  <2>5. c \in 1 .. Len(w) /\ Asks(w[c], after)
    BY <2>3 DEF Asks
  <2> HIDE DEF c
  <2>6. ASSUME NEW m \in 1 .. c - 1 PROVE ~Asks(w[m], after)
    <3>1. m \in 1 .. Len(w) /\ m < c
      BY <2>5
    <3>2. m \notin hits
      BY <2>3, <2>5, <3>1
    <3>3. QED
      BY <3>1, <3>2 DEF Asks
  <2>7. QED
    BY <2>4, <2>5, <2>6
<1>4. QED
  BY <1>2, <1>3

LEMMA UsesFromIs ==
  ASSUME NEW rs, Chain(rs), NEW k \in 1 .. Len(rs), NEW i \in 1 .. Len(rs[k].uses)
  PROVE  UsesFrom(rs, rs[k].uses[i]) = SubSeq(rs[k].uses, i, Len(rs[k].uses))
<1> DEFINE use == rs[k].uses[i]
           lists == {rs[j].uses : j \in 1 .. Len(rs)}
           l == CHOOSE l \in lists : \E j \in 1 .. Len(l) : l[j] = use
<1>1. UsesFrom(rs, use) = SubSeq(l, CHOOSE j \in 1 .. Len(l) : l[j] = use, Len(l))
  BY DEF UsesFrom, From
<1>2. /\ rs[k].uses \in Seq(UseType) /\ InOrder(rs[k].uses)
      /\ \A g \in 1 .. Len(rs) : g # k => UsesOf(rs[g]) \cap UsesOf(rs[k]) = {}
  BY DEF Chain, Whole, RangeType
<1>3. Len(rs[k].uses) \in Nat
  BY <1>2
<1>4. use \in UsesOf(rs[k])
  BY <1>3 DEF UsesOf
<1>5. rs[k].uses \in lists /\ \E j \in 1 .. Len(rs[k].uses) : rs[k].uses[j] = use
  BY <1>3
<1>6. ASSUME NEW m \in lists, NEW j \in 1 .. Len(m), m[j] = use PROVE m = rs[k].uses
  <2>1. PICK g \in 1 .. Len(rs) : m = rs[g].uses
    OBVIOUS
  <2>2. use \in UsesOf(rs[g])
    BY <1>6, <2>1 DEF UsesOf
  <2>3. g = k
    BY <1>2, <1>4, <2>2
  <2>4. QED
    BY <2>1, <2>3
<1>7. l = rs[k].uses
  <2>1. l \in lists /\ \E j \in 1 .. Len(l) : l[j] = use
    BY <1>5
  <2> HIDE DEF l, use
  <2>2. QED
    BY <1>6, <2>1
<1> HIDE DEF l
<1>8. \A j \in 1 .. Len(rs[k].uses) : rs[k].uses[j] = use => j = i
  <2>1. ASSUME NEW j \in 1 .. Len(rs[k].uses), rs[k].uses[j] = use PROVE ~(i < j) /\ ~(j < i)
    BY <1>2, <1>3, <2>1 DEF InOrder
  <2>2. QED
    BY <1>3, <2>1
<1>9. (CHOOSE j \in 1 .. Len(rs[k].uses) : rs[k].uses[j] = use) = i
  BY <1>3, <1>8
<1>10. QED
  BY <1>1, <1>7, <1>9

(* What a look up from a finger that leads at t finds.                     *)
LEMMA LookUpIs ==
  ASSUME NEW rs, Chain(rs), NEW k \in 1 .. Len(rs), NEW t \in Int, Leads(rs[k], t),
         NEW after \in Int
  PROVE  LET use == FirstRegister(rs, rs[k], after)
             w == rs[k].uses
         IN  \/ use = NoUse /\ (t <= after => \A j \in 1 .. Len(w) : ~Asks(w[j], after))
             \/ \E j \in 1 .. Len(w) : /\ use = w[j] /\ Asks(w[j], after)
                                      /\ \A m \in 1 .. j - 1 :
                                           Passed(w[m], t) \/ ~Asks(w[m], after)
<1> DEFINE w == rs[k].uses
           use == FirstRegister(rs, rs[k], after)
<1>1. /\ rs[k].intervals \in Seq(IntervalType) /\ w \in Seq(UseType) /\ Len(w) \in Nat
      /\ \A u \in UsesOf(rs[k]) : Reaches(rs[k].intervals, u.pos)
  BY DEF Chain, Whole, RangeType
<1>2. ASSUME t <= after, NEW j \in 1 .. Len(w), Passed(w[j], t) PROVE ~Asks(w[j], after)
  <2>1. w[j].pos \in Int
    BY <1>1, UsePos
  <2>2. QED
    BY <1>2, <2>1 DEF Passed, Asks
<1>3. CASE rs[k].register = NoUse /\ \A j \in 1 .. Len(w) : Passed(w[j], t)
  <2>1. use = NoUse
    BY <1>3 DEF FirstRegister
  <2>2. QED
    BY <1>2, <1>3, <2>1
<1>4. CASE \E i \in 1 .. Len(w) : rs[k].register = w[i] /\ \A j \in 1 .. i - 1 : Passed(w[j], t)
  <2>1. PICK i \in 1 .. Len(w) : rs[k].register = w[i] /\ \A j \in 1 .. i - 1 : Passed(w[j], t)
    BY <1>4
  <2> DEFINE v == SubSeq(w, i, Len(w))
  <2>2. w[i] # NoUse
    <3>1. w[i] \in UsesOf(rs[k])
      BY DEF UsesOf
    <3>2. PICK h \in 1 .. Len(rs[k].intervals) : rs[k].intervals[h].start <= w[i].pos
      BY <1>1, <3>1 DEF Reaches
    <3>3. rs[k].intervals[h].start \in Int /\ 0 <= rs[k].intervals[h].start
      BY <1>1, IntervalAt
    <3>4. NoUse.pos = -1
      BY DEF NoUse
    <3>5. QED
      BY <3>2, <3>3, <3>4
  <2>3. use = RegisterIn(v, after)
    <3>1. UsesFrom(rs, rs[k].register) = v
      BY <2>1, UsesFromIs
    <3>2. QED
      BY <2>1, <2>2, <3>1 DEF FirstRegister, RegisterIn
  <2>4. /\ v \in Seq(UseType) /\ Len(v) = Len(w) - i + 1
        /\ \A j \in 1 .. Len(v) : i + j - 1 \in 1 .. Len(w) /\ v[j] = w[i + j - 1]
        /\ \A j \in i .. Len(w) : j - i + 1 \in 1 .. Len(v) /\ v[j - i + 1] = w[j]
    <3>1. i \in Int /\ 1 <= i /\ i <= Len(w)
      BY <1>1
    <3>2. /\ Len(v) = Len(w) - i + 1
          /\ \A j \in 1 .. Len(v) : v[j] = w[i + j - 1]
      BY <1>1, <3>1
    <3>3. v \in Seq(UseType)
      BY <1>1, <3>1
    <3> HIDE DEF v
    <3>4. \A j \in 1 .. Len(v) : i + j - 1 \in 1 .. Len(w)
      BY <1>1, <3>1, <3>2
    <3>5. ASSUME NEW j \in i .. Len(w)
          PROVE  j - i + 1 \in 1 .. Len(v) /\ i + (j - i + 1) - 1 = j
      BY <1>1, <3>1, <3>2
    <3>6. QED
      BY <3>2, <3>3, <3>4, <3>5
  <2> HIDE DEF v, use, w
  <2>5. CASE RegisterIn(v, after) = NoUse /\ \A j \in 1 .. Len(v) : ~Asks(v[j], after)
    <3>1. ASSUME t <= after, NEW j \in 1 .. Len(w) PROVE ~Asks(w[j], after)
      <4>1. CASE j \in 1 .. i - 1
        BY <1>2, <2>1, <3>1, <4>1
      <4>2. CASE j \in i .. Len(w)
        BY <2>4, <2>5, <4>2
      <4>3. QED
        BY <1>1, <4>1, <4>2
    <3>2. QED
      BY <2>3, <2>5, <3>1 DEF use, w
  <2>6. CASE \E j \in 1 .. Len(v) : /\ RegisterIn(v, after) = v[j] /\ Asks(v[j], after)
                                   /\ \A m \in 1 .. j - 1 : ~Asks(v[m], after)
    <3>1. PICK j \in 1 .. Len(v) : /\ RegisterIn(v, after) = v[j] /\ Asks(v[j], after)
                                   /\ \A m \in 1 .. j - 1 : ~Asks(v[m], after)
      BY <2>6
    <3> DEFINE h == i + j - 1
    <3>2. h \in 1 .. Len(w) /\ use = w[h] /\ Asks(w[h], after)
      BY <2>3, <2>4, <3>1
    <3>3. ASSUME NEW m \in 1 .. h - 1 PROVE Passed(w[m], t) \/ ~Asks(w[m], after)
      <4>1. CASE m \in 1 .. i - 1
        BY <2>1, <4>1
      <4>2. CASE m >= i
        <5>1. m \in i .. Len(w) /\ m - i + 1 \in 1 .. j - 1
          <6>1. i \in Int /\ j \in Int /\ m \in Int /\ m <= i + j - 2 /\ i <= m
            BY <1>1, <2>4, <3>3, <4>2
          <6>2. i + j - 1 <= Len(w)
            BY <1>1, <3>2
          <6>3. QED
            BY <1>1, <6>1, <6>2
        <5>2. v[m - i + 1] = w[m]
          BY <2>4, <5>1
        <5>3. QED
          BY <3>1, <5>1, <5>2
      <4>3. QED
        BY <4>1, <4>2
    <3> HIDE DEF h
    <3>4. QED
      BY <3>2, <3>3 DEF use, w
  <2>7. QED
    BY <2>4, <2>5, <2>6, RegisterInIs
<1>5. QED
  BY <1>3, <1>4 DEF Leads

(* Behind t the answer is that of a search of the range's own uses.        *)
LEMMA RegisterIs ==
  ASSUME NEW rs, Chain(rs), NEW k \in 1 .. Len(rs), NEW t \in Int, Leads(rs[k], t),
         NEW after \in Int, t <= after
  PROVE  FirstRegister(rs, rs[k], after) = RegisterIn(rs[k].uses, after)
<1> DEFINE w == rs[k].uses
           use == FirstRegister(rs, rs[k], after)
<1>1. w \in Seq(UseType) /\ Len(w) \in Nat
  BY DEF Chain, Whole, RangeType
<1>2. \/ use = NoUse /\ \A j \in 1 .. Len(w) : ~Asks(w[j], after)
      \/ \E j \in 1 .. Len(w) : /\ use = w[j] /\ Asks(w[j], after)
                               /\ \A m \in 1 .. j - 1 : Passed(w[m], t) \/ ~Asks(w[m], after)
  BY LookUpIs
<1>3. \/ RegisterIn(w, after) = NoUse /\ \A j \in 1 .. Len(w) : ~Asks(w[j], after)
      \/ \E j \in 1 .. Len(w) : /\ RegisterIn(w, after) = w[j] /\ Asks(w[j], after)
                               /\ \A m \in 1 .. j - 1 : ~Asks(w[m], after)
  BY <1>1, RegisterInIs
<1> HIDE DEF w, use
<1>4. ASSUME NEW m \in 1 .. Len(w), Passed(w[m], t) PROVE ~Asks(w[m], after)
  <2>1. w[m].pos \in Int
    BY <1>1, UsePos
  <2>2. QED
    BY <1>4, <2>1 DEF Passed, Asks
<1>5. ASSUME NEW j \in 1 .. Len(w), use = w[j], Asks(w[j], after),
             \A m \in 1 .. j - 1 : Passed(w[m], t) \/ ~Asks(w[m], after),
             NEW i \in 1 .. Len(w), RegisterIn(w, after) = w[i], Asks(w[i], after),
             \A m \in 1 .. i - 1 : ~Asks(w[m], after)
      PROVE  use = RegisterIn(w, after)
  <2>1. \A m \in 1 .. j - 1 : ~Asks(w[m], after)
    BY <1>1, <1>4, <1>5
  <2>2. ~(i < j) /\ ~(j < i)
    BY <1>5, <2>1
  <2>3. QED
    BY <1>5, <2>2
<1>6. QED
  BY <1>2, <1>3, <1>5 DEF w, use

(* A look up leaves the finger of the range on a use of its own, with      *)
(* nothing before it that a later one could ask for.                       *)
LEMMA FingerOnLeads ==
  ASSUME NEW rs, Chain(rs), NEW k \in 1 .. Len(rs), NEW t \in Int, FingerAt(rs[k], t),
         NEW after \in Int, after <= Up(t)
  PROVE  LET out == FingerOn(rs, k, FirstRegister(rs, rs[k], after))
         IN  /\ Alike(rs, out) /\ out[k].pending = rs[k].pending
             /\ \A X : FingersOn(rs, t, X) => FingersOn(out, t, X)
<1> DEFINE w == rs[k].uses
           use == FirstRegister(rs, rs[k], after)
           out == FingerOn(rs, k, use)
<1>1. rs \in Seq(RangeType) /\ rs[k] \in RangeType /\ w \in Seq(UseType)
  <2>1. rs \in Seq(RangeType) /\ rs[k] \in RangeType
    BY DEF Chain
  <2>2. QED
    BY <2>1 DEF RangeType
<1>2. Up(t) \in Int /\ Leads(rs[k], Up(t))
  BY UpIs DEF FingerAt
<1>3. use = NoUse \/ \E j \in 1 .. Len(w) :
                        /\ use = w[j]
                        /\ \A m \in 1 .. j - 1 : Passed(w[m], Up(t)) \/ ~Asks(w[m], after)
  BY <1>2, LookUpIs
<1> HIDE DEF use, out
<1>4. CASE use = NoUse
  <2>1. out = rs
    BY <1>4 DEF out, FingerOn
  <2>2. Alike(rs, rs)
    BY <1>1 DEF Alike
  <2>3. QED
    BY <2>1, <2>2 DEF out, use
<1>5. CASE use # NoUse
  <2>1. PICK j \in 1 .. Len(w) : /\ use = w[j]
                                /\ \A m \in 1 .. j - 1 : Passed(w[m], Up(t)) \/ ~Asks(w[m], after)
    BY <1>3, <1>5
  <2> DEFINE r == [rs[k] EXCEPT !.register = use]
  <2>2. /\ r \in RangeType /\ r.intervals = rs[k].intervals /\ r.last = rs[k].last
        /\ r.uses = w /\ r.pending = rs[k].pending /\ r.register = w[j]
    <3>1. use \in UseType
      BY <1>1, <2>1
    <3>2. /\ r \in RangeType /\ r.intervals = rs[k].intervals /\ r.last = rs[k].last
          /\ r.uses = w /\ r.pending = rs[k].pending /\ r.register = use
      BY <1>1, <3>1 DEF RangeType
    <3>3. QED
      BY <2>1, <3>2
  <2>3. out = [rs EXCEPT ![k].register = use]
    <3>1. out = FingerOn(rs, k, use)
      BY DEF out
    <3>2. QED
      BY <1>5, <3>1, Zenon DEF FingerOn
  <2> HIDE DEF r
  <2>4. out \in Seq(RangeType) /\ Len(out) = Len(rs)
        /\ out[k] = r /\ \A g \in 1 .. Len(rs) : g # k => out[g] = rs[g]
    BY <1>1, <2>2, <2>3 DEF r
  <2>5. Alike(rs, out)
    BY <2>2, <2>4 DEF Alike
  <2>6. FingerAt(r, t)
    <3>1. ASSUME NEW m \in 1 .. j - 1 PROVE Passed(w[m], Up(t))
      <4>1. m \in 1 .. Len(w)
        BY <1>1
      <4>2. w[m].pos \in Int
        BY <1>1, <4>1, UsePos
      <4>3. QED
        BY <1>2, <2>1, <4>2 DEF Passed, Asks
    <3>2. Leads(r, Up(t))
      BY <2>2, <3>1 DEF Leads
    <3>3. QED
      BY <2>2, <3>2 DEF FingerAt
  <2>7. ASSUME NEW X, FingersOn(rs, t, X) PROVE FingersOn(out, t, X)
    <3>1. SUFFICES ASSUME NEW g \in 1 .. Len(out), StartOf(out[g]) \in X
                   PROVE  FingerAt(out[g], t)
      BY DEF FingersOn
    <3>2. CASE g = k
      BY <2>4, <2>6, <3>2
    <3>3. CASE g # k
      <4>1. g \in 1 .. Len(rs) /\ out[g] = rs[g]
        BY <2>4, <3>3
      <4>2. QED
        BY <2>7, <3>1, <4>1 DEF FingersOn
    <3>4. QED
      BY <3>2, <3>3
  <2>8. QED
    BY <2>2, <2>4, <2>5, <2>7 DEF out, use
<1>6. QED
  BY <1>4, <1>5

(* The look ups of alloc_any_register and of update_free_until.            *)
LEMMA LookUpsAlike ==
  ASSUME NEW rs, Chain(rs), NEW k \in 1 .. Len(rs), NEW t \in Int, FingerAt(rs[k], t),
         NEW out \in {LookedUp(rs, k, t), Probed(rs, k, t)}
  PROVE  /\ Alike(rs, out) /\ out[k].pending = rs[k].pending
         /\ \A X : FingersOn(rs, t, X) => FingersOn(out, t, X)
<1>1. t <= Up(t) /\ Up(t) \in Int /\ Up(t) <= Up(t)
  BY UpIs
<1>2. LookedUp(rs, k, t) = FingerOn(rs, k, FirstRegister(rs, rs[k], t))
  BY DEF LookedUp, OwnUse
<1>3. Probed(rs, k, t) = FingerOn(rs, k, FirstRegister(rs, rs[k], Up(t)))
  BY DEF Probed, FirstInterfering, Up
<1>4. CASE out = LookedUp(rs, k, t)
  BY <1>1, <1>2, <1>4, FingerOnLeads
<1>5. CASE out = Probed(rs, k, t)
  BY <1>1, <1>3, <1>5, FingerOnLeads
<1>6. QED
  BY <1>4, <1>5

LEMMA LookUpsScan ==
  ASSUME NEW rs, NEW t \in Int, NEW act, NEW que, Scanned(rs, t, act, que),
         NEW k \in 1 .. Len(rs), StartOf(rs[k]) \in act \cup que,
         NEW out \in {LookedUp(rs, k, t), Probed(rs, k, t)}
  PROVE  Alike(rs, out) /\ Scanned(out, t, act, que)
<1>1. Chain(rs) /\ FingersOn(rs, t, act \cup que) /\ FingerAt(rs[k], t)
  BY DEF Scanned, FingersOn
<1>2. Alike(rs, out) /\ FingersOn(out, t, act \cup que)
  BY <1>1, LookUpsAlike
<1>3. Chain(out) /\ Starts(out) = Starts(rs)
  BY <1>1, <1>2, AlikeChain
<1>4. QED
  BY <1>2, <1>3 DEF Scanned

-----------------------------------------------------------------------------
(* What every step of the scan starts from.                                *)
LEMMA ScanReady ==
  ASSUME RangeInv, UsesStayWithTheirRange, phase = "alloc", NEW t \in Int, now <= t,
         \A q \in queue : t <= q
  PROVE  /\ Alike(ranges, Advanced(t)) /\ Scanned(Advanced(t), t, active, queue)
         /\ Chain(ranges) /\ Chain(Advanced(t)) /\ Len(Advanced(t)) = Len(ranges)
         /\ \A k \in 1 .. Len(ranges) :
              /\ StartOf(Advanced(t)[k]) = StartOf(ranges[k])
              /\ TailEnd(Advanced(t)[k]) = TailEnd(ranges[k])
              /\ EndOf(ranges[k]) = TailEnd(ranges[k])
         /\ active \cup queue \subseteq Starts(Advanced(t))
         /\ wanted = CoveredBy(Advanced(t)) /\ given = UsedBy(Advanced(t))
         /\ PiecesOf(Advanced(t)) = PiecesOf(ranges)
         /\ StillActive(Advanced(t)) \subseteq active
         /\ block \in 0 .. NBlocks - 1 /\ pos \in 0 .. Limit
         /\ todo \in Seq({"phi", "fixed", "any", "register"})
<1>1. /\ Scanned(ranges, now, active, queue) /\ now \in Positions
      /\ wanted = CoveredBy(ranges) /\ given = UsedBy(ranges)
  BY Scanning
<1>2. now \in Int /\ Chain(ranges)
  BY <1>1, LimitIsNat DEF Positions, Scanned
<1>3. Alike(ranges, Advanced(t)) /\ Scanned(Advanced(t), t, active, queue)
  BY <1>1, <1>2, AdvancedScans
<1>4. /\ Chain(Advanced(t))
      /\ CoveredBy(Advanced(t)) = CoveredBy(ranges) /\ UsedBy(Advanced(t)) = UsedBy(ranges)
      /\ PiecesOf(Advanced(t)) = PiecesOf(ranges)
      /\ \A k \in 1 .. Len(ranges) : /\ StartOf(Advanced(t)[k]) = StartOf(ranges[k])
                                     /\ TailEnd(Advanced(t)[k]) = TailEnd(ranges[k])
  BY <1>2, <1>3, AlikeChain
<1>5. Len(Advanced(t)) = Len(ranges) /\ active \cup queue \subseteq Starts(Advanced(t))
  BY <1>3 DEF Alike, Scanned
<1>6. \A k \in 1 .. Len(ranges) : EndOf(ranges[k]) = TailEnd(ranges[k])
  BY <1>2, ChainShape
<1>7. StillActive(Advanced(t)) \subseteq active
  BY DEF StillActive
<1>8. /\ block \in 0 .. NBlocks - 1 /\ pos \in 0 .. Limit
      /\ todo \in Seq({"phi", "fixed", "any", "register"})
  BY DEF RangeInv, TypeOK
<1>9. QED
  BY <1>1, <1>2, <1>3, <1>4, <1>5, <1>6, <1>7, <1>8

(* The range the scan takes is the one that starts where the scan is.      *)
LEMMA Taken ==
  ASSUME RangeInv, phase = "alloc", NEW s \in queue, \A q \in queue : s <= q
  PROVE  s \in Int /\ s \in Positions /\ now <= s
<1>1. queue \subseteq Positions /\ \A q \in queue : now <= q
  BY DEF RangeInv, TypeOK, WaitingIsAhead
<1>2. QED
  BY <1>1, LimitIsNat DEF Positions

LEMMA AllocateWholeStep ==
  RangeInv /\ UsesStayWithTheirRange /\ AllocateWhole =>
    RangeInv' /\ UsesStayWithTheirRange' /\ PiecesOf(ranges') = PiecesOf(ranges)
<1> SUFFICES ASSUME RangeInv, UsesStayWithTheirRange, AllocateWhole
             PROVE  /\ RangeInv' /\ UsesStayWithTheirRange'
                    /\ PiecesOf(ranges') = PiecesOf(ranges)
  OBVIOUS
<1>1. PICK s \in queue, k \in 1 .. Len(ranges) :
        /\ Takes(s, k)
        /\ ranges' \in {Advanced(s), LookedUp(Advanced(s), k, s)}
        /\ queue' = queue \ {s}
        /\ active' \in {StillActive(ranges') \cup {s}, StillActive(ranges')}
        /\ UNCHANGED <<phase, block, pos, todo, wanted, given>>
  BY DEF AllocateWhole
<1>2. phase = "alloc" /\ (\A q \in queue : s <= q) /\ now' = s /\ StartOf(ranges[k]) = s
  BY <1>1 DEF Takes
<1>3. s \in Int /\ s \in Positions /\ now <= s
  BY <1>2, Taken
<1> DEFINE rs == Advanced(s)
<1>7. /\ Scanned(rs, s, active, queue) /\ PiecesOf(rs) = PiecesOf(ranges) /\ Chain(rs)
      /\ Len(rs) = Len(ranges) /\ StartOf(rs[k]) = s
      /\ wanted = CoveredBy(rs) /\ given = UsedBy(rs)
      /\ block \in 0 .. NBlocks - 1 /\ pos \in 0 .. Limit
      /\ todo \in Seq({"phi", "fixed", "any", "register"})
  BY <1>2, <1>3, ScanReady
<1>8. ranges' = rs \/ (Alike(rs, ranges') /\ Scanned(ranges', s, active, queue))
  <2> HIDE DEF rs
  <2>1. k \in 1 .. Len(rs) /\ StartOf(rs[k]) \in active \cup queue
    BY <1>7
  <2>2. CASE ranges' = LookedUp(rs, k, s)
    <3>1. ranges' \in {LookedUp(rs, k, s), Probed(rs, k, s)}
      BY <2>2
    <3>2. QED
      BY <1>3, <1>7, <2>1, <3>1, LookUpsScan
  <2>3. QED
    BY <1>1, <2>2 DEF rs
<1>4. /\ Scanned(ranges', s, active, queue) /\ PiecesOf(ranges') = PiecesOf(ranges)
      /\ wanted = CoveredBy(ranges') /\ given = UsedBy(ranges')
      /\ StillActive(ranges') \subseteq active
      /\ block \in 0 .. NBlocks - 1 /\ pos \in 0 .. Limit
      /\ todo \in Seq({"phi", "fixed", "any", "register"})
  <2> HIDE DEF rs
  <2>1. StillActive(ranges') \subseteq active
    BY DEF StillActive
  <2>2. CASE ranges' = rs
    BY <1>7, <2>1, <2>2
  <2>3. CASE Alike(rs, ranges') /\ Scanned(ranges', s, active, queue)
    BY <1>7, <2>1, <2>3, AlikeChain
  <2>4. QED
    BY <1>8, <2>2, <2>3
<1>5. Scanned(ranges', s, active', queue')
  <2>1. active' \cup queue' \subseteq active \cup queue /\ queue' \subseteq queue
    BY <1>1, <1>4
  <2>2. QED
    BY <1>4, <2>1, ScannedFewer
<1>6. QED
  BY <1>1, <1>2, <1>3, <1>4, <1>5, ScanningAgain

LEMMA OtherRangeStep ==
  RangeInv /\ UsesStayWithTheirRange /\ OtherRange =>
    RangeInv' /\ UsesStayWithTheirRange' /\ PiecesOf(ranges') = PiecesOf(ranges)
<1> SUFFICES ASSUME RangeInv, UsesStayWithTheirRange, OtherRange
             PROVE  /\ RangeInv' /\ UsesStayWithTheirRange'
                    /\ PiecesOf(ranges') = PiecesOf(ranges)
  OBVIOUS
<1>1. PICK t \in Positions :
        /\ ScanReaches(t) /\ active # {}
        /\ \/ ranges' = Advanced(t)
           \/ \E k \in 1 .. Len(Advanced(t)) :
                /\ StartOf(Advanced(t)[k]) \in StillActive(Advanced(t))
                /\ ranges' = Probed(Advanced(t), k, t)
        /\ active' = StillActive(ranges')
        /\ UNCHANGED <<phase, block, pos, todo, queue, wanted, given>>
  BY DEF OtherRange
<1>2. phase = "alloc" /\ now <= t /\ (\A q \in queue : t <= q) /\ now' = t
  BY <1>1 DEF ScanReaches
<1>3. t \in Int /\ now \in Int /\ now <= t
  BY <1>2, LimitIsNat DEF RangeInv, TypeOK, Positions
<1> DEFINE rs == Advanced(t)
<1>7. /\ Scanned(rs, t, active, queue) /\ PiecesOf(rs) = PiecesOf(ranges) /\ Chain(rs)
      /\ StillActive(rs) \subseteq active
      /\ wanted = CoveredBy(rs) /\ given = UsedBy(rs)
      /\ block \in 0 .. NBlocks - 1 /\ pos \in 0 .. Limit
      /\ todo \in Seq({"phi", "fixed", "any", "register"})
  BY <1>2, <1>3, ScanReady
<1>8. ranges' = rs \/ (Alike(rs, ranges') /\ Scanned(ranges', t, active, queue))
  <2> HIDE DEF rs
  <2>1. ASSUME NEW k \in 1 .. Len(rs), StartOf(rs[k]) \in StillActive(rs),
               ranges' = Probed(rs, k, t)
        PROVE  Alike(rs, ranges') /\ Scanned(ranges', t, active, queue)
    <3>1. StartOf(rs[k]) \in active \cup queue /\ ranges' \in {LookedUp(rs, k, t), Probed(rs, k, t)}
      BY <1>7, <2>1
    <3>2. QED
      BY <1>3, <1>7, <3>1, LookUpsScan
  <2>2. QED
    BY <1>1, <2>1 DEF rs
<1>4. /\ Scanned(ranges', t, active, queue) /\ PiecesOf(ranges') = PiecesOf(ranges)
      /\ wanted = CoveredBy(ranges') /\ given = UsedBy(ranges')
      /\ StillActive(ranges') \subseteq active
      /\ block \in 0 .. NBlocks - 1 /\ pos \in 0 .. Limit
      /\ todo \in Seq({"phi", "fixed", "any", "register"})
  <2> HIDE DEF rs
  <2>1. StillActive(ranges') \subseteq active
    BY DEF StillActive
  <2>2. CASE ranges' = rs
    BY <1>7, <2>1, <2>2
  <2>3. CASE Alike(rs, ranges') /\ Scanned(ranges', t, active, queue)
    BY <1>7, <2>1, <2>3, AlikeChain
  <2>4. QED
    BY <1>8, <2>2, <2>3
<1>5. Scanned(ranges', t, active', queue')
  <2>1. active' \cup queue' \subseteq active \cup queue /\ queue' \subseteq queue
    BY <1>1, <1>4
  <2>2. QED
    BY <1>4, <2>1, ScannedFewer
<1>6. QED
  BY <1>1, <1>2, <1>3, <1>4, <1>5, ScanningAgain

(* A cut whose second half waits for its turn.                             *)
Waits(rs, k, p, t, X, out) ==
  /\ Chain(out) /\ Len(out) = Len(rs) + 1 /\ k + 1 \in 1 .. Len(out)
  /\ CoveredBy(out) = CoveredBy(rs) /\ UsedBy(out) = UsedBy(rs)
  /\ Starts(out) = Starts(rs) \cup {StartOf(out[k + 1])}
  /\ p <= StartOf(out[k + 1])
  /\ FingersOn(out, t, X \cup {StartOf(out[k + 1])})
  /\ Halves(rs, k, p, out)

LEMMA CutAndWait ==
  ASSUME NEW rs, Chain(rs), NEW k \in 1 .. Len(rs), NEW p \in Int,
         StartOf(rs[k]) < p, p < TailEnd(rs[k]), FingerBefore(rs[k], p),
         NEW t \in Int, t <= p, NEW X, X \subseteq Starts(rs), FingersOn(rs, t, X),
         StartOf(rs[k]) \notin X \/ t <= StartOf(rs[k])
  PROVE  Waits(rs, k, p, t, X, ScheduledAt(SplitAt(rs, k, p), k + 1))
<1> DEFINE cut == SplitAt(rs, k, p)
           out == ScheduledAt(cut, k + 1)
<1>1. /\ Split(rs, k, p, cut)
      /\ t <= StartOf(rs[k]) /\ FingerAt(rs[k], t) => FingerAt(cut[k], t)
  BY SplitSplits
<1> HIDE DEF cut
<1>2. /\ CoveredBy(cut) = CoveredBy(rs) /\ UsedBy(cut) = UsedBy(rs)
      /\ Starts(cut) = Starts(rs) \cup {StartOf(cut[k + 1])}
      /\ \A Y : FingersOn(rs, t, Y) /\ Y \subseteq Starts(rs) /\ StartOf(rs[k]) \notin Y =>
                  FingersOn(cut, t, Y)
  BY <1>1, SplitKeeps
<1>3. /\ Chain(cut) /\ k + 1 \in 1 .. Len(cut) /\ Len(cut) = Len(rs) + 1
      /\ StartOf(cut[k]) = StartOf(rs[k]) /\ p <= StartOf(cut[k + 1])
  BY <1>1 DEF Split
<1>4. k \in 1 .. Len(cut) /\ StartOf(cut[k + 1]) \in Int
  <2>1. k \in Int /\ 1 <= k /\ k + 1 <= Len(cut)
    BY <1>3
  <2>2. Len(cut) \in Nat /\ Whole(cut[k + 1])
    BY <1>3 DEF Chain
  <2>3. QED
    BY <2>1, <2>2, WholeTail
<1>5. FingersOn(cut, t, X)
  <2>1. CASE StartOf(rs[k]) \notin X
    BY <1>2, <2>1
  <2>2. CASE StartOf(rs[k]) \in X
    <3> DEFINE Y == X \ {StartOf(rs[k])}
    <3>1. FingersOn(cut, t, Y)
      <4>1. FingersOn(rs, t, Y) /\ Y \subseteq Starts(rs) /\ StartOf(rs[k]) \notin Y
        BY DEF FingersOn
      <4>2. QED
        BY <1>2, <4>1
    <3>2. FingerAt(cut[k], t)
      <4>1. FingerAt(rs[k], t)
        BY <2>2 DEF FingersOn
      <4>2. QED
        BY <1>1, <2>2, <4>1
    <3>3. SUFFICES ASSUME NEW j \in 1 .. Len(cut), StartOf(cut[j]) \in X
                   PROVE  FingerAt(cut[j], t)
      BY DEF FingersOn
    <3>4. CASE StartOf(cut[j]) = StartOf(cut[k])
      <4>1. j = k
        BY <1>3, <1>4, <3>4, StartsDiffer
      <4>2. QED
        BY <3>2, <4>1
    <3>5. CASE StartOf(cut[j]) # StartOf(cut[k])
      <4>1. StartOf(cut[j]) \in Y
        BY <1>3, <3>3, <3>5
      <4>2. QED
        BY <3>1, <4>1 DEF FingersOn
    <3>6. QED
      BY <3>4, <3>5
  <2>3. QED
    BY <2>1, <2>2
<1>6. Alike(cut, out) /\ FingersOn(out, t, X \cup {StartOf(cut[k + 1])})
  <2>1. t <= StartOf(cut[k + 1])
    BY <1>3, <1>4
  <2>2. QED
    BY <1>3, <1>5, <2>1, ScheduledAlike
<1> HIDE DEF out
<1>7. /\ Chain(out) /\ Starts(out) = Starts(cut)
      /\ CoveredBy(out) = CoveredBy(cut) /\ UsedBy(out) = UsedBy(cut)
      /\ StartOf(out[k + 1]) = StartOf(cut[k + 1]) /\ Len(out) = Len(cut)
      /\ PiecesOf(out) = PiecesOf(cut) /\ Covered(out[k + 1]) = Covered(cut[k + 1])
  <2>1. Len(out) = Len(cut)
    BY <1>6 DEF Alike
  <2>2. QED
    BY <1>3, <1>6, <2>1, AlikeChain
<1>8. Halves(rs, k, p, out)
  <2>1. Halves(rs, k, p, cut)
    BY <1>1, SplitHalves
  <2>2. QED
    BY <1>7, <2>1 DEF Halves
<1>9. QED
  BY <1>2, <1>3, <1>6, <1>7, <1>8 DEF Waits, out, cut

LEMMA AllocateHeadStep ==
  RangeInv /\ UsesStayWithTheirRange /\ AllocateHead =>
    RangeInv' /\ UsesStayWithTheirRange' /\ CutOf(PiecesOf(ranges), PiecesOf(ranges'))
<1> SUFFICES ASSUME RangeInv, UsesStayWithTheirRange, AllocateHead
             PROVE  /\ RangeInv' /\ UsesStayWithTheirRange'
                    /\ CutOf(PiecesOf(ranges), PiecesOf(ranges'))
  OBVIOUS
<1>1. PICK s \in queue, k \in 1 .. Len(ranges) :
        /\ Takes(s, k) /\ MaySplit
        /\ \E rs \in {Advanced(s), LookedUp(Advanced(s), k, s)}, p \in Inside(ranges[k]) :
             LET cut == ScheduledAt(SplitAt(rs, k, p), k + 1)
             IN  /\ ranges' = cut
                 /\ queue' = (queue \ {s}) \cup {StartOf(cut[k + 1])}
                 /\ active' \in {StillActive(cut) \cup {s}, StillActive(cut)}
        /\ UNCHANGED <<phase, block, pos, todo, wanted, given>>
  BY DEF AllocateHead
<1>2. PICK rs \in {Advanced(s), LookedUp(Advanced(s), k, s)}, p \in Inside(ranges[k]) :
        /\ ranges' = ScheduledAt(SplitAt(rs, k, p), k + 1)
        /\ queue' = (queue \ {s}) \cup {StartOf(ranges'[k + 1])}
        /\ active' \in {StillActive(ranges') \cup {s}, StillActive(ranges')}
  BY <1>1
<1>3. phase = "alloc" /\ (\A q \in queue : s <= q) /\ now' = s /\ StartOf(ranges[k]) = s
  BY <1>1 DEF Takes
<1>4. s \in Int /\ s \in Positions /\ now <= s
  BY <1>3, Taken
<1> DEFINE free == Advanced(s)
           X == active \cup queue
<1>16. /\ Scanned(free, s, active, queue) /\ Chain(free) /\ Len(free) = Len(ranges)
       /\ StartOf(free[k]) = s /\ TailEnd(free[k]) = EndOf(ranges[k])
       /\ X \subseteq Starts(free) /\ PiecesOf(free) = PiecesOf(ranges)
       /\ wanted = CoveredBy(free) /\ given = UsedBy(free)
       /\ block \in 0 .. NBlocks - 1 /\ pos \in 0 .. Limit
       /\ todo \in Seq({"phi", "fixed", "any", "register"})
  BY <1>3, <1>4, ScanReady
<1>17. rs = free \/ (Alike(free, rs) /\ Scanned(rs, s, active, queue))
  <2> HIDE DEF free
  <2>1. k \in 1 .. Len(free) /\ StartOf(free[k]) \in active \cup queue
    BY <1>16
  <2>2. CASE rs = LookedUp(free, k, s)
    <3>1. rs \in {LookedUp(free, k, s), Probed(free, k, s)}
      BY <2>2
    <3>2. QED
      BY <1>4, <1>16, <2>1, <3>1, LookUpsScan
  <2>3. QED
    BY <1>2, <2>2 DEF free
<1> HIDE DEF free
<1>5. /\ Scanned(rs, s, active, queue) /\ Chain(rs) /\ Len(rs) = Len(ranges)
      /\ StartOf(rs[k]) = s /\ TailEnd(rs[k]) = EndOf(ranges[k])
      /\ X \subseteq Starts(rs) /\ PiecesOf(rs) = PiecesOf(ranges)
      /\ wanted = CoveredBy(rs) /\ given = UsedBy(rs)
      /\ block \in 0 .. NBlocks - 1 /\ pos \in 0 .. Limit
      /\ todo \in Seq({"phi", "fixed", "any", "register"})
  <2>1. CASE rs = free
    BY <1>16, <2>1
  <2>2. CASE Alike(free, rs) /\ Scanned(rs, s, active, queue)
    <3>1. Len(rs) = Len(free) /\ k \in 1 .. Len(free)
      BY <1>16, <2>2 DEF Alike
    <3>2. QED
      BY <1>16, <2>2, <3>1, AlikeChain
  <2>3. QED
    BY <1>17, <2>1, <2>2
<1>6. k \in 1 .. Len(rs) /\ FingersOn(rs, s, X)
  BY <1>5 DEF Scanned
<1>7. p \in Int /\ s < p /\ p < TailEnd(rs[k])
  <2>1. p \in s + 1 .. TailEnd(rs[k]) - 1
    BY <1>3, <1>5 DEF Inside
  <2>2. TailEnd(rs[k]) \in Int
    BY <1>5, <1>6, WholeTail DEF Chain
  <2>3. QED
    BY <1>4, <2>1, <2>2
<1>8. FingerBefore(rs[k], p)
  <2>1. FingerAt(rs[k], s)
    BY <1>5, <1>6 DEF FingersOn
  <2>2. QED
    BY <1>4, <1>7, <2>1 DEF FingerAt, FingerBefore
<1>9. Waits(rs, k, p, s, X, ranges')
  <2>1. s <= p /\ StartOf(rs[k]) < p /\ s <= StartOf(rs[k])
    BY <1>4, <1>5, <1>7
  <2>2. QED
    BY <1>2, <1>4, <1>5, <1>6, <1>7, <1>8, <2>1, CutAndWait
<1> DEFINE n == StartOf(ranges'[k + 1])
<1>10. /\ Chain(ranges')
       /\ CoveredBy(ranges') = wanted /\ UsedBy(ranges') = given
       /\ Starts(ranges') = Starts(rs) \cup {n} /\ p <= n
       /\ FingersOn(ranges', s, X \cup {n}) /\ n \in Int
  <2>1. Whole(ranges'[k + 1])
    BY <1>9 DEF Waits, Chain
  <2>2. n \in Int
    BY <2>1, WholeTail
  <2>3. QED
    BY <1>5, <1>9, <2>2 DEF Waits
<1> HIDE DEF n
<1>11. active' \cup queue' \subseteq X \cup {n}
  <2>1. StillActive(ranges') \subseteq active
    BY DEF StillActive
  <2>2. QED
    BY <1>2, <2>1 DEF n
<1>12. \A q \in queue' : s <= q
  BY <1>2, <1>3, <1>4, <1>7, <1>10 DEF n
<1>13. Scanned(ranges', s, active', queue')
  <2>1. active' \cup queue' \subseteq Starts(ranges')
    BY <1>5, <1>10, <1>11
  <2>2. FingersOn(ranges', s, active' \cup queue')
    BY <1>10, <1>11 DEF FingersOn
  <2>3. QED
    BY <1>10, <1>12, <2>1, <2>2 DEF Scanned
<1>14. CutOf(PiecesOf(ranges), PiecesOf(ranges'))
  <2>1. Halves(rs, k, p, ranges')
    BY <1>9 DEF Waits
  <2>2. QED
    BY <1>5, <1>6, <1>7, <2>1, HalvesCut
<1>15. QED
  BY <1>1, <1>3, <1>4, <1>5, <1>10, <1>13, <1>14, ScanningAgain

-----------------------------------------------------------------------------
(* Eviction: the sibling that is cut gives its register back, so its       *)
(* finger is not watched any more.                                         *)
LEMMA ReachedBy ==
  ASSUME RangeInv, UsesStayWithTheirRange, NEW t \in Positions, ScanReaches(t),
         NEW k \in 1 .. Len(ranges), StartOf(ranges[k]) \in StillActive(Advanced(t)),
         t \in Inside(ranges[k])
  PROVE  LET rs == Advanced(t)
             X == (active \cup queue) \ {StartOf(rs[k])}
         IN  /\ t \in Int /\ Chain(rs) /\ k \in 1 .. Len(rs)
             /\ StartOf(rs[k]) = StartOf(ranges[k])
             /\ StartOf(rs[k]) < t /\ t < TailEnd(rs[k])
             /\ FingerAt(rs[k], t) /\ FingersOn(rs, t, X) /\ X \subseteq Starts(rs)
             /\ queue \subseteq X /\ StillActive(rs) \ {StartOf(rs[k])} \subseteq X
             /\ wanted = CoveredBy(rs) /\ given = UsedBy(rs) /\ PiecesOf(rs) = PiecesOf(ranges)
             /\ block \in 0 .. NBlocks - 1 /\ pos \in 0 .. Limit
             /\ todo \in Seq({"phi", "fixed", "any", "register"})
             /\ phase = "alloc" /\ now' = t /\ \A q \in queue : t <= q
<1> DEFINE rs == Advanced(t)
           X == (active \cup queue) \ {StartOf(rs[k])}
<1>1. phase = "alloc" /\ now <= t /\ (\A q \in queue : t <= q) /\ now' = t
  BY DEF ScanReaches
<1>2. t \in Int /\ now \in Int /\ now <= t
  BY <1>1, LimitIsNat DEF RangeInv, TypeOK, Positions
<1>3. /\ Scanned(rs, t, active, queue) /\ Chain(rs) /\ Len(rs) = Len(ranges)
      /\ StartOf(rs[k]) = StartOf(ranges[k]) /\ TailEnd(rs[k]) = EndOf(ranges[k])
      /\ active \cup queue \subseteq Starts(rs) /\ PiecesOf(rs) = PiecesOf(ranges)
      /\ wanted = CoveredBy(rs) /\ given = UsedBy(rs)
      /\ StillActive(rs) \subseteq active
      /\ block \in 0 .. NBlocks - 1 /\ pos \in 0 .. Limit
      /\ todo \in Seq({"phi", "fixed", "any", "register"})
  BY <1>1, <1>2, ScanReady
<1>4. StartOf(ranges[k]) \in StillActive(rs)
  OBVIOUS
<1> HIDE DEF rs
<1>5. k \in 1 .. Len(rs) /\ FingersOn(rs, t, active \cup queue)
  BY <1>3 DEF Scanned
<1>6. StartOf(rs[k]) < t /\ t < TailEnd(rs[k])
  <2>1. t \in StartOf(rs[k]) + 1 .. TailEnd(rs[k]) - 1
    BY <1>3 DEF Inside
  <2>2. TailEnd(rs[k]) \in Int /\ StartOf(rs[k]) \in Int
    BY <1>3, <1>5, WholeTail DEF Chain
  <2>3. QED
    BY <2>1, <2>2
<1>7. FingerAt(rs[k], t)
  <2>1. StartOf(rs[k]) \in active \cup queue
    BY <1>3, <1>4
  <2>2. QED
    BY <1>5, <2>1 DEF FingersOn
<1>8. StartOf(rs[k]) \notin queue
  <2>1. StartOf(rs[k]) \in Int
    BY <1>3, <1>5, WholeTail DEF Chain
  <2>2. QED
    BY <1>1, <1>2, <1>6, <2>1
<1>9. queue \subseteq X /\ StillActive(rs) \ {StartOf(rs[k])} \subseteq X /\ X \subseteq Starts(rs)
  BY <1>3, <1>8
<1>10. FingersOn(rs, t, X)
  BY <1>5 DEF FingersOn
<1>11. QED
  BY <1>1, <1>2, <1>3, <1>5, <1>6, <1>7, <1>9, <1>10 DEF rs

LEMMA EvictForGoodStep ==
  RangeInv /\ UsesStayWithTheirRange /\ EvictForGood =>
    RangeInv' /\ UsesStayWithTheirRange' /\ CutOf(PiecesOf(ranges), PiecesOf(ranges'))
<1> SUFFICES ASSUME RangeInv, UsesStayWithTheirRange, EvictForGood
             PROVE  /\ RangeInv' /\ UsesStayWithTheirRange'
                    /\ CutOf(PiecesOf(ranges), PiecesOf(ranges'))
  OBVIOUS
<1>1. PICK t \in Positions, k \in 1 .. Len(ranges) :
        /\ ScanReaches(t)
        /\ StartOf(ranges[k]) \in StillActive(Advanced(t)) /\ t \in Inside(ranges[k])
        /\ ranges' = SplitAt(Advanced(t), k, t)
        /\ active' = StillActive(Advanced(t)) \ {StartOf(Advanced(t)[k])}
        /\ UNCHANGED <<phase, block, pos, todo, queue, wanted, given>>
  BY DEF EvictForGood
<1> DEFINE rs == Advanced(t)
           X == (active \cup queue) \ {StartOf(rs[k])}
<1>2. /\ t \in Int /\ Chain(rs) /\ k \in 1 .. Len(rs)
      /\ StartOf(rs[k]) < t /\ t < TailEnd(rs[k])
      /\ FingerAt(rs[k], t) /\ FingersOn(rs, t, X) /\ X \subseteq Starts(rs)
      /\ queue \subseteq X /\ StillActive(rs) \ {StartOf(rs[k])} \subseteq X
      /\ wanted = CoveredBy(rs) /\ given = UsedBy(rs) /\ PiecesOf(rs) = PiecesOf(ranges)
      /\ block \in 0 .. NBlocks - 1 /\ pos \in 0 .. Limit
      /\ todo \in Seq({"phi", "fixed", "any", "register"})
      /\ phase = "alloc" /\ now' = t /\ \A q \in queue : t <= q
  BY <1>1, ReachedBy
<1> HIDE DEF rs
<1>3. FingerBefore(rs[k], t)
  BY <1>2 DEF FingerAt, FingerBefore
<1>4. Split(rs, k, t, ranges')
  BY <1>1, <1>2, <1>3, SplitSplits DEF rs
<1>5. /\ CoveredBy(ranges') = wanted /\ UsedBy(ranges') = given
      /\ Starts(rs) \subseteq Starts(ranges') /\ FingersOn(ranges', t, X)
  BY <1>2, <1>4, SplitKeeps
<1>6. Chain(ranges')
  BY <1>4 DEF Split
<1>7. active' \cup queue' \subseteq X /\ queue' = queue
  BY <1>1, <1>2 DEF rs
<1>8. Scanned(ranges', t, active', queue')
  <2>1. FingersOn(ranges', t, active' \cup queue')
    BY <1>5, <1>7 DEF FingersOn
  <2>2. active' \cup queue' \subseteq Starts(ranges')
    BY <1>2, <1>5, <1>7
  <2>3. QED
    BY <1>2, <1>6, <1>7, <2>1, <2>2 DEF Scanned
<1>9. CutOf(PiecesOf(ranges), PiecesOf(ranges'))
  BY <1>2, <1>4, SplitHalves, HalvesCut
<1>10. QED
  BY <1>1, <1>2, <1>5, <1>8, <1>9, ScanningAgain

LEMMA EvictUntilUseStep ==
  RangeInv /\ UsesStayWithTheirRange /\ EvictUntilUse =>
    RangeInv' /\ UsesStayWithTheirRange' /\ CutOf(PiecesOf(ranges), PiecesOf(ranges'))
<1> SUFFICES ASSUME RangeInv, UsesStayWithTheirRange, EvictUntilUse
             PROVE  /\ RangeInv' /\ UsesStayWithTheirRange'
                    /\ CutOf(PiecesOf(ranges), PiecesOf(ranges'))
  OBVIOUS
<1>1. PICK t \in Positions, k \in 1 .. Len(ranges) :
        LET tail == SplitAt(Probed(Advanced(t), k, t), k, t)
        IN  /\ ScanReaches(t)
            /\ StartOf(ranges[k]) \in StillActive(Advanced(t)) /\ t \in Inside(ranges[k])
            /\ \/ \E p \in Inside(tail[k + 1]) :
                    LET cut == ScheduledAt(SplitAt(tail, k + 1, p), k + 2)
                    IN  /\ ranges' = cut
                        /\ queue' = queue \cup {StartOf(cut[k + 2])}
               \/ /\ ranges' = ScheduledAt(tail, k + 1)
                  /\ queue' = queue \cup {StartOf(tail[k + 1])}
            /\ active' = StillActive(Advanced(t)) \ {StartOf(Advanced(t)[k])}
            /\ UNCHANGED <<phase, block, pos, todo, wanted, given>>
  BY DEF EvictUntilUse
<1> DEFINE rs == Advanced(t)
           X == (active \cup queue) \ {StartOf(rs[k])}
           pr == Probed(rs, k, t)
           tail == SplitAt(pr, k, t)
<1>2. /\ t \in Int /\ Chain(rs) /\ k \in 1 .. Len(rs)
      /\ StartOf(rs[k]) < t /\ t < TailEnd(rs[k])
      /\ FingerAt(rs[k], t) /\ FingersOn(rs, t, X) /\ X \subseteq Starts(rs)
      /\ queue \subseteq X /\ StillActive(rs) \ {StartOf(rs[k])} \subseteq X
      /\ wanted = CoveredBy(rs) /\ given = UsedBy(rs) /\ PiecesOf(rs) = PiecesOf(ranges)
      /\ block \in 0 .. NBlocks - 1 /\ pos \in 0 .. Limit
      /\ todo \in Seq({"phi", "fixed", "any", "register"})
      /\ phase = "alloc" /\ now' = t /\ \A q \in queue : t <= q
  BY <1>1, ReachedBy
<1>3. /\ \/ \E p \in Inside(tail[k + 1]) :
              /\ ranges' = ScheduledAt(SplitAt(tail, k + 1, p), k + 2)
              /\ queue' = queue \cup {StartOf(ranges'[k + 2])}
         \/ /\ ranges' = ScheduledAt(tail, k + 1)
            /\ queue' = queue \cup {StartOf(tail[k + 1])}
      /\ active' = StillActive(rs) \ {StartOf(rs[k])}
      /\ UNCHANGED <<phase, block, pos, todo, wanted, given>>
  BY <1>1
<1> HIDE DEF rs
<1>4. /\ Alike(rs, pr) /\ FingersOn(pr, t, X) /\ pr[k].pending = rs[k].pending
  <2>1. pr \in {LookedUp(rs, k, t), Probed(rs, k, t)}
    OBVIOUS
  <2> HIDE DEF pr
  <2>2. QED
    BY <1>2, <2>1, LookUpsAlike
<1> HIDE DEF pr
<1>5. /\ Chain(pr) /\ Starts(pr) = Starts(rs) /\ CoveredBy(pr) = wanted /\ UsedBy(pr) = given
      /\ PiecesOf(pr) = PiecesOf(ranges)
      /\ StartOf(pr[k]) = StartOf(rs[k]) /\ TailEnd(pr[k]) = TailEnd(rs[k])
      /\ k \in 1 .. Len(pr) /\ pr[k].intervals = rs[k].intervals
  <2>1. Len(pr) = Len(rs) /\ pr[k].intervals = rs[k].intervals
    BY <1>2, <1>4 DEF Alike
  <2>2. QED
    BY <1>2, <1>4, <2>1, AlikeChain
<1>6. FingerBefore(pr[k], t)
  BY <1>2, <1>4, <1>5 DEF FingerAt, FingerBefore
<1>7. X \subseteq Starts(pr) /\ StartOf(pr[k]) \notin X
      /\ StartOf(pr[k]) < t /\ t < TailEnd(pr[k]) /\ t <= t
  BY <1>2, <1>5
<1>8. Split(pr, k, t, tail)
  BY <1>2, <1>5, <1>6, <1>7, SplitSplits
<1>9. Waits(pr, k, t, t, X, ScheduledAt(tail, k + 1))
  BY <1>2, <1>4, <1>5, <1>6, <1>7, CutAndWait
<1> HIDE DEF tail
<1>10. /\ CoveredBy(tail) = wanted /\ UsedBy(tail) = given
       /\ Starts(tail) = Starts(pr) \cup {StartOf(tail[k + 1])}
       /\ StartOf(tail[k + 1]) \notin Starts(pr)
       /\ FingersOn(tail, t, X)
  BY <1>2, <1>4, <1>5, <1>7, <1>8, SplitKeeps
<1>11. /\ Chain(tail) /\ k + 1 \in 1 .. Len(tail) /\ t <= StartOf(tail[k + 1])
       /\ tail[k + 1].pending = Null
  BY <1>8 DEF Split
<1>12. \E n \in Int : /\ Chain(ranges') /\ CoveredBy(ranges') = wanted /\ UsedBy(ranges') = given
                      /\ X \cup {n} \subseteq Starts(ranges') /\ t <= n
                      /\ FingersOn(ranges', t, X \cup {n})
                      /\ queue' = queue \cup {n}
                      /\ CutOf(PiecesOf(pr), PiecesOf(ranges'))
  <2>1. ASSUME NEW p \in Inside(tail[k + 1]),
               ranges' = ScheduledAt(SplitAt(tail, k + 1, p), k + 2),
               queue' = queue \cup {StartOf(ranges'[k + 2])}
        PROVE  /\ Chain(ranges') /\ CoveredBy(ranges') = wanted /\ UsedBy(ranges') = given
               /\ X \cup {StartOf(ranges'[k + 2])} \subseteq Starts(ranges')
               /\ t <= StartOf(ranges'[k + 2]) /\ StartOf(ranges'[k + 2]) \in Int
               /\ FingersOn(ranges', t, X \cup {StartOf(ranges'[k + 2])})
               /\ CutOf(PiecesOf(pr), PiecesOf(ranges'))
    <3>1. EndOf(tail[k + 1]) = TailEnd(tail[k + 1])
      BY <1>11, ChainShape
    <3>2. StartOf(tail[k + 1]) \in Int /\ TailEnd(tail[k + 1]) \in Int
      BY <1>11, WholeTail DEF Chain
    <3>3. /\ p \in Int /\ StartOf(tail[k + 1]) < p /\ p < TailEnd(tail[k + 1]) /\ t <= p /\ t < p
      BY <1>2, <1>11, <3>1, <3>2 DEF Inside
    <3>4. FingerBefore(tail[k + 1], p)
      BY <1>11 DEF FingerBefore
    <3>5. X \subseteq Starts(tail) /\ StartOf(tail[k + 1]) \notin X
      BY <1>7, <1>10
    <3>6. Waits(tail, k + 1, p, t, X, ScheduledAt(SplitAt(tail, k + 1, p), (k + 1) + 1))
      BY <1>2, <1>10, <1>11, <3>3, <3>4, <3>5, CutAndWait
    <3>7. (k + 1) + 1 = k + 2
      BY <1>2
    <3>8. Waits(tail, k + 1, p, t, X, ranges')
      BY <2>1, <3>6, <3>7
    <3>9. /\ Chain(ranges') /\ CoveredBy(ranges') = wanted /\ UsedBy(ranges') = given
          /\ Starts(ranges') = Starts(tail) \cup {StartOf(ranges'[k + 2])}
          /\ p <= StartOf(ranges'[k + 2]) /\ k + 2 \in 1 .. Len(ranges')
          /\ FingersOn(ranges', t, X \cup {StartOf(ranges'[k + 2])})
      BY <1>10, <3>7, <3>8 DEF Waits
    <3>10. StartOf(ranges'[k + 2]) \in Int
      BY <3>9, WholeTail DEF Chain
    <3>11. CutOf(PiecesOf(pr), PiecesOf(ranges'))
      <4>1. Halves(tail, k + 1, p, ranges')
        BY <3>8 DEF Waits
      <4>2. Halves(pr, k, t, tail)
        BY <1>2, <1>5, <1>8, SplitHalves
      <4>3. QED
        BY <1>2, <1>5, <3>3, <4>1, <4>2, ThirdsCut
    <3>12. QED
      BY <1>2, <3>3, <3>5, <3>9, <3>10, <3>11
  <2>2. ASSUME ranges' = ScheduledAt(tail, k + 1),
               queue' = queue \cup {StartOf(tail[k + 1])}
        PROVE  /\ Chain(ranges') /\ CoveredBy(ranges') = wanted /\ UsedBy(ranges') = given
               /\ X \cup {StartOf(tail[k + 1])} \subseteq Starts(ranges')
               /\ StartOf(tail[k + 1]) \in Int
               /\ FingersOn(ranges', t, X \cup {StartOf(tail[k + 1])})
               /\ CutOf(PiecesOf(pr), PiecesOf(ranges'))
    <3>1. Waits(pr, k, t, t, X, ranges')
      BY <1>9, <2>2
    <3>2. StartOf(tail[k + 1]) \in Int
      BY <1>11, WholeTail DEF Chain
    <3>3. StartOf(ranges'[k + 1]) = StartOf(tail[k + 1])
      <4>1. Whole(tail[k + 1]) /\ tail[k + 1] \in RangeType /\ tail[k + 1].intervals # <<>>
        BY <1>11 DEF Chain, Whole
      <4>2. Scheduled(tail[k + 1]).intervals = tail[k + 1].intervals
        BY <4>1, ScheduledIs
      <4>3. ranges'[k + 1] = Scheduled(tail[k + 1])
        <5>1. tail \in Seq(RangeType)
          BY <1>11 DEF Chain
        <5>2. QED
          BY <1>11, <2>2, <5>1 DEF ScheduledAt
      <4>4. QED
        BY <4>2, <4>3 DEF StartOf
    <3>4. CutOf(PiecesOf(pr), PiecesOf(ranges'))
      <4>1. Halves(pr, k, t, ranges')
        BY <3>1 DEF Waits
      <4>2. QED
        BY <1>2, <1>5, <4>1, HalvesCut
    <3>5. QED
      BY <1>5, <1>7, <3>1, <3>2, <3>3, <3>4 DEF Waits
  <2>3. QED
    BY <1>3, <1>11, <2>1, <2>2
<1>13. PICK n \in Int : /\ Chain(ranges') /\ CoveredBy(ranges') = wanted /\ UsedBy(ranges') = given
                        /\ X \cup {n} \subseteq Starts(ranges') /\ t <= n
                        /\ FingersOn(ranges', t, X \cup {n})
                        /\ queue' = queue \cup {n}
                        /\ CutOf(PiecesOf(pr), PiecesOf(ranges'))
  BY <1>12
<1>14. active' \cup queue' \subseteq X \cup {n} /\ \A q \in queue' : t <= q
  BY <1>2, <1>3, <1>13
<1>15. Scanned(ranges', t, active', queue')
  <2>1. FingersOn(ranges', t, active' \cup queue')
    BY <1>13, <1>14 DEF FingersOn
  <2>2. active' \cup queue' \subseteq Starts(ranges')
    BY <1>13, <1>14
  <2>3. QED
    BY <1>13, <1>14, <2>1, <2>2 DEF Scanned
<1>16. QED
  BY <1>2, <1>3, <1>5, <1>13, <1>15, ScanningAgain

-----------------------------------------------------------------------------
ScanInv == RangeInv /\ (phase = "alloc" => UsesStayWithTheirRange)

LEMMA ScanInvStutters == ScanInv /\ UNCHANGED vars => ScanInv'
<1> SUFFICES ASSUME ScanInv, UNCHANGED vars PROVE ScanInv'
  OBVIOUS
<1>1. /\ phase' = phase /\ block' = block /\ pos' = pos /\ todo' = todo /\ ranges' = ranges
      /\ queue' = queue /\ active' = active /\ now' = now /\ wanted' = wanted /\ given' = given
  BY DEF vars
<1>2. TypeOK' /\ IntervalsApart' /\ OwnNodes(ranges') /\ UsesReached'
  BY <1>1 DEF ScanInv, RangeInv, TypeOK, IntervalsApart, UsesReached
<1>3. BehindTheWalk' /\ AddUseReturns'
  BY <1>1 DEF ScanInv, RangeInv, BehindTheWalk, AddUseReturns, LastPosition
<1>4. SiblingsInOrder' /\ WaitingIsAhead' /\ FingersAreOwn' /\ NothingIsLost'
  <2>1. SiblingsInOrder' /\ WaitingIsAhead' /\ NothingIsLost'
    BY <1>1 DEF ScanInv, RangeInv, SiblingsInOrder, WaitingIsAhead, NothingIsLost
  <2>2. FingersAreOwn'
    <3>1. phase = "alloc" => FingersOn(ranges, now, active \cup queue)
      BY DEF ScanInv, RangeInv, FingersAreOwn, FingersOn, FingerAt, FirstOver, Up
    <3>2. phase' = "alloc" => FingersOn(ranges', now', active' \cup queue')
      BY <1>1, <3>1
    <3>3. ASSUME NEW k \in 1 .. Len(ranges'), phase' = "alloc",
                 StartOf(ranges'[k]) \in active' \cup queue'
          PROVE  /\ ranges'[k].pending = FirstOver(ranges'[k].intervals, now').node
                 /\ Leads(ranges'[k], Up(now'))
      BY <3>2, <3>3 DEF FingersOn, FingerAt
    <3>4. QED
      BY <3>3 DEF FingersAreOwn, FirstOver, First, Up, Leads, Passed
  <2>3. QED
    BY <2>1, <2>2
<1>5. phase' = "alloc" => UsesStayWithTheirRange'
  BY <1>1 DEF ScanInv, UsesStayWithTheirRange
<1>6. QED
  BY <1>2, <1>3, <1>4, <1>5 DEF ScanInv, RangeInv

LEMMA ScanInvNext == ScanInv /\ Next => ScanInv'
<1> SUFFICES ASSUME ScanInv, Next PROVE ScanInv'
  OBVIOUS
<1>1. CASE EnterBlock
  BY <1>1, EnterBlockStep DEF ScanInv, EnterBlock
<1>2. CASE ProcessInput
  <2>1. RangeInv'
    BY <1>2, ProcessInputStep DEF ScanInv
  <2>2. phase = "build" /\ (phase' = phase \/ phase' = "stuck")
    BY <1>2 DEF ProcessInput
  <2>3. QED
    BY <2>1, <2>2 DEF ScanInv
<1>3. CASE PreviousInstruction
  BY <1>3, PreviousInstructionStep DEF ScanInv, PreviousInstruction
<1>4. CASE PreviousBlock
  BY <1>4, PreviousBlockStep DEF ScanInv, PreviousBlock, AtBlockEntry
<1>5. CASE DefineByPhi
  BY <1>5, DefineByPhiStep DEF ScanInv
<1>6. CASE DefineInitially
  BY <1>6, DefineInitiallyStep DEF ScanInv
<1>7. CASE AllocateWhole
  BY <1>7, AllocateWholeStep DEF ScanInv, AllocateWhole, Takes
<1>8. CASE AllocateHead
  BY <1>8, AllocateHeadStep DEF ScanInv, AllocateHead, Takes
<1>9. CASE OtherRange
  BY <1>9, OtherRangeStep DEF ScanInv, OtherRange, ScanReaches
<1>10. CASE EvictForGood
  BY <1>10, EvictForGoodStep DEF ScanInv, EvictForGood, ScanReaches
<1>11. CASE EvictUntilUse
  BY <1>11, EvictUntilUseStep DEF ScanInv, EvictUntilUse, ScanReaches
<1>12. QED
  BY <1>1, <1>2, <1>3, <1>4, <1>5, <1>6, <1>7, <1>8, <1>9, <1>10, <1>11 DEF Next

LEMMA ScanInvHolds == Spec => []ScanInv
<1>1. Init => ScanInv
  BY InitRange DEF ScanInv, Init
<1>2. ScanInv /\ [Next]_vars => ScanInv'
  BY ScanInvNext, ScanInvStutters
<1>3. QED
  BY <1>1, <1>2, PTL DEF Spec

(* However the register is defined, used and split, its intervals are      *)
(* apart and in order, each is in one list, the siblings follow each other *)
(* and the fingers of a sibling that waits or holds a register, wherever   *)
(* look ups have left them, stand in its own lists and have passed nothing *)
(* that is still asked for.                                                *)
THEOREM RangesCorrect == Spec => []RangeInv
<1>1. ScanInv => RangeInv
  BY DEF ScanInv
<1>2. QED
  BY <1>1, ScanInvHolds, PTL

(* Every use that was added is in exactly one sibling, inside the span the *)
(* sibling covers, in order.                                               *)
THEOREM UsesStay == Spec => []UsesStayWithTheirRange
<1>1. ScanInv => UsesStayWithTheirRange
  <2> SUFFICES ASSUME ScanInv PROVE UsesStayWithTheirRange
    OBVIOUS
  <2>1. CASE phase = "alloc"
    BY <2>1 DEF ScanInv
  <2>2. CASE phase \in {"enter", "build"}
    <3>1. RangeInv /\ Len(ranges) = 1
      BY <2>2 DEF ScanInv, RangeInv, BehindTheWalk
    <3>2. QED
      BY <2>2, <3>1, BuildingKeepsUses
  <2>3. QED
    BY <2>1, <2>2 DEF ScanInv, RangeInv, TypeOK, AddUseReturns
<1>2. QED
  BY <1>1, ScanInvHolds, PTL

(* The loop of live_range_add_use that never moves on is never entered.    *)
THEOREM AddUseAlwaysReturns == Spec => []AddUseReturns
<1>1. RangeInv => AddUseReturns
  BY DEF RangeInv
<1>2. QED
  BY <1>1, RangesCorrect, PTL

(* A look up of the register finger answers what a search of the range's   *)
(* own uses would.                                                         *)
THEOREM RegisterFingersExact == Spec => []RegisterFingerExact
<1>1. ScanInv => RegisterFingerExact
  <2> SUFFICES ASSUME ScanInv, phase = "alloc",
                      NEW k \in 1 .. Len(ranges), StartOf(ranges[k]) \in active \cup queue,
                      NEW after \in now + (now % 2) .. Limit
               PROVE  FirstRegister(ranges, ranges[k], after)
                        = First(ranges[k].uses, LAMBDA u : u.pos >= after /\ u.reg, NoUse)
    BY DEF RegisterFingerExact
  <2>1. Scanned(ranges, now, active, queue) /\ now \in Int
    BY Scanning, LimitIsNat DEF ScanInv, Positions
  <2>2. Chain(ranges) /\ Leads(ranges[k], Up(now))
    BY <2>1 DEF Scanned, FingersOn, FingerAt
  <2>3. Up(now) \in Int /\ after \in Int /\ Up(now) <= after
    BY <2>1, UpIs, LimitIsNat DEF Up
  <2>4. FirstRegister(ranges, ranges[k], after) = RegisterIn(ranges[k].uses, after)
    BY <2>2, <2>3, RegisterIs
  <2>5. QED
    BY <2>4 DEF RegisterIn
<1>2. QED
  BY <1>1, ScanInvHolds, PTL

-----------------------------------------------------------------------------
(* Positions are covered once.                                             *)
LEMMA ContainsIs ==
  ASSUME NEW r \in RangeType, Ascending(r.intervals), Distinct(r.intervals),
         r.last = IF r.intervals = <<>> THEN Null ELSE r.intervals[Len(r.intervals)].node,
         NEW p \in Int
  PROVE  Contains(r, p) <=> p \in Covered(r)
<1> DEFINE l == r.intervals
<1>1. l \in Seq(IntervalType)
  BY DEF RangeType
<1>2. p \in Covered(r) <=> Holds(l, p)
  BY <1>1, CoveredHolds
<1>3. Contains(r, p) => Holds(l, p)
  BY DEF Contains, Holds
<1>4. ASSUME NEW i \in 1 .. Len(l), l[i].start <= p, p < l[i].end
      PROVE  l # <<>> /\ StartOf(r) <= p /\ p < EndOf(r)
  <2>1. Len(l) \in 1 .. Len(l) /\ 1 \in 1 .. Len(l) /\ l # <<>>
    BY <1>1
  <2>2. /\ l[i].start \in Int /\ l[i].end \in Int /\ l[1].start \in Int /\ l[1].end \in Int
        /\ l[Len(l)].start \in Int /\ l[Len(l)].end \in Int
    BY <1>1, <2>1, IntervalAt
  <2>3. EndOf(r) = l[Len(l)].end
    BY <2>1, IntervalIs DEF EndOf
  <2>4. l[1].start <= l[i].start
    <3>1. i = 1 \/ (1 < i /\ l[1].end <= l[i].start /\ l[1].start < l[1].end)
      BY <2>1 DEF Ascending
    <3>2. QED
      BY <2>2, <3>1
  <2>5. l[i].end <= l[Len(l)].end
    <3>1. \/ i = Len(l)
          \/ l[i].end <= l[Len(l)].start /\ l[Len(l)].start < l[Len(l)].end
      BY <2>1 DEF Ascending
    <3>2. QED
      BY <2>2, <3>1
  <2>6. QED
    BY <1>4, <2>1, <2>2, <2>3, <2>4, <2>5 DEF StartOf
<1>5. Holds(l, p) => Contains(r, p)
  BY <1>4 DEF Holds, Contains, CanCover
<1>6. QED
  BY <1>2, <1>3, <1>5

LEMMA CoveredOnce ==
  ASSUME ScanInv
  PROVE  /\ \A k \in 1 .. Len(ranges), p \in Int : Contains(ranges[k], p) <=> p \in Covered(ranges[k])
         /\ \A k, g \in 1 .. Len(ranges) : k # g => Covered(ranges[k]) \cap Covered(ranges[g]) = {}
         /\ wanted = CoveredBy(ranges)
<1>1. /\ ranges \in Seq(RangeType) /\ OwnNodes(ranges) /\ wanted = CoveredBy(ranges)
      /\ RangeInv
  BY DEF ScanInv, RangeInv, TypeOK, NothingIsLost, CoveredBy
<1>2. ASSUME NEW k \in 1 .. Len(ranges), NEW p \in Int
      PROVE  Contains(ranges[k], p) <=> p \in Covered(ranges[k])
  <2>1. /\ ranges[k] \in RangeType /\ Distinct(ranges[k].intervals)
    BY <1>1, OwnIsDistinct
  <2>2. /\ Ascending(ranges[k].intervals)
        /\ ranges[k].last = IF ranges[k].intervals = <<>> THEN Null
                            ELSE ranges[k].intervals[Len(ranges[k].intervals)].node
    BY <1>1 DEF RangeInv, IntervalsApart
  <2>3. QED
    BY <2>1, <2>2, ContainsIs
<1>3. ASSUME NEW k \in 1 .. Len(ranges), NEW g \in 1 .. Len(ranges), k # g
      PROVE  Covered(ranges[k]) \cap Covered(ranges[g]) = {}
  <2>1. phase = "alloc"
    <3>1. phase \in {"enter", "build"} => Len(ranges) = 1
      BY <1>1 DEF RangeInv, BehindTheWalk
    <3>2. Len(ranges) # 1
      BY <1>3, SMTT(30)
    <3>3. QED
      BY <1>1, <3>1, <3>2 DEF RangeInv, TypeOK, AddUseReturns
  <2>2. Chain(ranges)
    BY <1>1, <2>1, Scanning DEF ScanInv, Scanned
  <2>3. k < g \/ g < k
    BY <1>3
  <2>4. QED
    BY <2>2, <2>3, SiblingsApart
<1>4. QED
  BY <1>1, <1>2, <1>3

(* The range and its siblings contain a position once if the builder asked *)
(* for it, and not at all otherwise.                                       *)
THEOREM CoversExactly == Spec => []CoversWanted
<1>1. ScanInv => CoversWanted
  <2> SUFFICES ASSUME ScanInv, NEW p \in Positions
               PROVE  Cardinality({k \in 1 .. Len(ranges) : Contains(ranges[k], p)})
                        = IF p \in wanted THEN 1 ELSE 0
    BY DEF CoversWanted
  <2> DEFINE K == {k \in 1 .. Len(ranges) : Contains(ranges[k], p)}
  <2>1. p \in Int
    BY LimitIsNat DEF Positions
  <2>2. /\ \A k \in 1 .. Len(ranges) : Contains(ranges[k], p) <=> p \in Covered(ranges[k])
        /\ \A k, g \in 1 .. Len(ranges) : k # g => Covered(ranges[k]) \cap Covered(ranges[g]) = {}
        /\ wanted = CoveredBy(ranges)
    BY <2>1, CoveredOnce
  <2>3. CASE p \in wanted
    <3>1. PICK k \in 1 .. Len(ranges) : p \in Covered(ranges[k])
      BY <2>2, <2>3 DEF CoveredBy
    <3>2. K = {k}
      BY <2>2, <3>1
    <3>3. Cardinality(K) = 1
      BY <3>2, FS_Singleton
    <3>4. QED
      BY <2>3, <3>3
  <2>4. CASE p \notin wanted
    <3>1. K = {}
      BY <2>2, <2>4 DEF CoveredBy
    <3>2. Cardinality(K) = 0
      BY <3>1, FS_EmptySet
    <3>3. QED
      BY <2>4, <3>2
  <2>5. QED
    BY <2>3, <2>4
<1>2. QED
  BY <1>1, ScanInvHolds, PTL

-----------------------------------------------------------------------------
(* Sharing out.                                                            *)
LEMMA SameCardinality == \A S : Ownership!Cardinality(S) = Cardinality(S)
  BY DEF Ownership!Cardinality, Cardinality

LEMMA WantedGrows ==
  ASSUME RangeInv, RangeInv', Len(ranges) = 1, Len(ranges') = 1, wanted \subseteq wanted'
  PROVE  [Ownership!Share]_Pieces
<1>1. Pieces = {wanted} \ {{}} /\ Pieces' = {wanted'} \ {{}}
  <2>1. wanted = Covered(ranges[1]) /\ wanted' = Covered(ranges'[1])
    BY DEF RangeInv, NothingIsLost
  <2>2. Pieces = {Covered(ranges[1])} \ {{}} /\ Pieces' = {Covered(ranges'[1])} \ {{}}
    BY DEF Pieces
  <2>3. QED
    BY <2>1, <2>2
<1> DEFINE gone == Pieces \ Pieces'
           came == Pieces' \ Pieces
<1>2. CASE wanted' = wanted
  BY <1>1, <1>2
<1>3. CASE wanted' # wanted
  <2>1. came = {wanted'}
    BY <1>1, <1>3
  <2>2. Pieces = gone /\ UNION gone \subseteq UNION came
    BY <1>1, <1>3, <2>1
  <2>3. Cardinality(came) = 1
    BY <2>1, FS_Singleton
  <2>4. Cardinality(gone) <= 1
    <3>1. gone = {} \/ gone = {wanted}
      BY <1>1, <2>2
    <3>2. Cardinality({}) = 0 /\ Cardinality({wanted}) = 1
      BY FS_EmptySet, FS_Singleton
    <3>3. QED
      BY <3>1, <3>2
  <2> HIDE DEF gone, came
  <2>5. Ownership!Grow(gone, came)
    BY <2>2, <2>3, <2>4, SameCardinality DEF Ownership!Grow
  <2>6. QED
    BY <2>5 DEF gone, came, Ownership!Share, Ownership!Gone, Ownership!Came
<1>4. QED
  BY <1>2, <1>3

LEMMA CutsAsAllowed ==
  ASSUME ScanInv, ScanInv', phase = "alloc", phase' = "alloc",
         CutOf(PiecesOf(ranges), PiecesOf(ranges'))
  PROVE  Ownership!Share
<1>1. Chain(ranges)
  BY Scanning DEF ScanInv, Scanned
<1> DEFINE P == PiecesOf(ranges)
<1>2. {} \notin P /\ \A S, T \in P : S = T \/ S \cap T = {}
  BY <1>1, PiecesApart
<1> HIDE DEF P
<1>3. PICK C \in P : \E N : PiecesOf(ranges') = (P \ {C}) \cup N /\ SharedAmong(C, N)
  BY DEF CutOf, P
<1>4. PICK N : PiecesOf(ranges') = (P \ {C}) \cup N /\ SharedAmong(C, N)
  BY <1>3
<1>5. /\ UNION N = C /\ {} \notin N /\ C \notin N /\ Cardinality(N) \in {2, 3}
      /\ \A T, U \in N : T = U \/ Ahead(T, U) \/ Ahead(U, T)
  BY <1>4 DEF SharedAmong
<1>6. Pieces = P /\ Pieces' = (P \ {C}) \cup N
  <2>1. Pieces = P \ {{}} /\ Pieces' = PiecesOf(ranges') \ {{}}
    BY DEF Pieces, PiecesOf, P
  <2>2. {} \notin (P \ {C}) \cup N
    BY <1>2, <1>5
  <2>3. PiecesOf(ranges') = (P \ {C}) \cup N
    BY <1>4
  <2>4. P \ {{}} = P /\ ((P \ {C}) \cup N) \ {{}} = (P \ {C}) \cup N
    BY <1>2, <2>2
  <2>5. QED
    BY <2>1, <2>3, <2>4
<1>7. N \cap P = {}
  <2> SUFFICES ASSUME NEW S \in N, S \in P PROVE FALSE
    OBVIOUS
  <2>1. S # {} /\ S # C /\ S \subseteq C
    BY <1>5
  <2>2. QED
    BY <1>2, <2>1
<1>8. Pieces \ Pieces' = {C} /\ Pieces' \ Pieces = N
  BY <1>5, <1>6, <1>7
<1>9. Ownership!Cut({C}, N)
  <2>1. Cardinality({C}) = 1 /\ UNION {C} = C
    BY FS_Singleton
  <2>2. \A T, U \in N : T = U \/ Ownership!Precedes(T, U) \/ Ownership!Precedes(U, T)
    BY <1>5 DEF Ahead, Ownership!Precedes
  <2>3. UNION N = UNION {C}
    BY <1>5, <2>1
  <2>4. QED
    BY <1>5, <2>1, <2>2, <2>3, SameCardinality DEF Ownership!Cut
<1>10. QED
  BY <1>8, <1>9 DEF Ownership!Share, Ownership!Gone, Ownership!Came

LEMMA BuildingGrows ==
  ASSUME ScanInv, ScanInv',
         EnterBlock \/ ProcessInput \/ PreviousInstruction \/ PreviousBlock
           \/ DefineByPhi \/ DefineInitially
  PROVE  [Ownership!Share]_Pieces
<1>1. phase \in {"enter", "build"}
  BY DEF EnterBlock, ProcessInput, PreviousInstruction, PreviousBlock, DefineByPhi,
         DefineInitially, AtBlockEntry
<1>2. RangeInv /\ RangeInv' /\ Len(ranges) = 1
  BY <1>1 DEF ScanInv, RangeInv, BehindTheWalk
<1>3. Len(ranges') = 1 /\ wanted \subseteq wanted'
  <2>1. \/ ranges' = ranges
        \/ ranges' = <<AddInterval(ranges[1], BlockStart(block), BlockEnd(block))>>
        \/ \E n : ranges' = <<n>>
    BY DEF EnterBlock, ProcessInput, PreviousInstruction, PreviousBlock, DefineByPhi,
           DefineInitially
  <2>2. Len(ranges') = 1
    BY <1>2, <2>1
  <2>3. wanted \subseteq wanted'
    BY DEF EnterBlock, ProcessInput, PreviousInstruction, PreviousBlock, DefineByPhi,
           DefineInitially
  <2>4. QED
    BY <2>2, <2>3
<1>4. QED
  BY <1>2, <1>3, WantedGrows

(* Building grows one piece, a split cuts one piece into two or three that *)
(* follow one another, and nothing else ever changes what is covered.      *)
THEOREM LiveRangesShareOut == Spec => ImplementsLiveSplit
<1>1. Init => Ownership!AbsInit
  BY DEF Init, Ownership!AbsInit, Pieces, Covered, EmptyRange
<1>2. ScanInv /\ ScanInv' /\ [Next]_vars => [Ownership!Share]_Pieces
  <2> SUFFICES ASSUME ScanInv, ScanInv', [Next]_vars PROVE [Ownership!Share]_Pieces
    OBVIOUS
  <2>1. CASE EnterBlock \/ ProcessInput \/ PreviousInstruction \/ PreviousBlock
               \/ DefineByPhi \/ DefineInitially
    BY <2>1, BuildingGrows
  <2>2. CASE AllocateWhole \/ OtherRange
    <3>1. phase = "alloc"
      BY <2>2 DEF AllocateWhole, OtherRange, Takes, ScanReaches
    <3>2. PiecesOf(ranges') = PiecesOf(ranges)
      BY <2>2, <3>1, AllocateWholeStep, OtherRangeStep DEF ScanInv
    <3>3. Pieces' = Pieces
      BY <3>2 DEF Pieces, PiecesOf
    <3>4. QED
      BY <3>3
  <2>3. CASE AllocateHead \/ EvictForGood \/ EvictUntilUse
    <3>1. phase = "alloc" /\ phase' = phase
      BY <2>3 DEF AllocateHead, EvictForGood, EvictUntilUse, Takes, ScanReaches
    <3>2. CutOf(PiecesOf(ranges), PiecesOf(ranges'))
      BY <2>3, <3>1, AllocateHeadStep, EvictForGoodStep, EvictUntilUseStep DEF ScanInv
    <3>3. QED
      BY <3>1, <3>2, CutsAsAllowed
  <2>4. CASE UNCHANGED vars
    BY <2>4 DEF vars, Pieces
  <2>5. QED
    BY <2>1, <2>2, <2>3, <2>4 DEF Next
<1>3. QED
  BY <1>1, <1>2, ScanInvHolds, PTL DEF Spec, ImplementsLiveSplit, Ownership!AbsSpec
=============================================================================
