----------------------------- MODULE BitVector ------------------------------
(***************************************************************************)
(* Bit vectors, src/include/mun/bitvec.h and src/src/bitvec.c: an array of *)
(* 64-bit words and an iterator over the bits that are set.  A word is the *)
(* set of its bits.                                                        *)
(*                                                                         *)
(* The mask of an index is computed in a 32-bit int and only then widened: *)
(* the count of the shift loses what int cannot shift by, and bit 31 is    *)
(* the sign.  So two indices of a word that are 32 apart are one to every  *)
(* call, and bit 31 comes with all bits above it.  C leaves both shifts    *)
(* open; the x64 build's are shl and a sign extension.                     *)
(***************************************************************************)
EXTENDS Integers, FiniteSets

CONSTANTS Vectors, Indices,
          Words                    \* data_len: how many words hold the indices

kBitsPerWord == 64
kBitsPerInt  == 32

ASSUME WordsAssumption == Words \in Nat \ {0}
ASSUME IndicesAssumption == Indices \subseteq 0 .. kBitsPerWord * Words - 1

VARIABLES data,      \* the words of every vector
          changed,   \* what the last call with a result returned
          walk,      \* a bit_vector_iterator, or Idle
          met        \* history: the indices the iterator has yielded

vars == <<data, changed, walk, met>>

Bits == 0 .. kBitsPerWord - 1
Places == 0 .. Words - 1
Idle == [on |-> {}, bit |-> -1, word |-> 0, rest |-> {}]

-----------------------------------------------------------------------------
(* Plausible slips in the code below, each used to test a property.        *)
GrownSaysLastWord(v, gain) ==
  /\ data' = [data EXCEPT ![v] = [k \in Places |-> @[k] \cup gain[k]]]
  /\ changed' = ~(gain[Words - 1] \subseteq data[v][Words - 1])
NextWordKeepsBit(t, v) ==
  LET k == CHOOSE k \in Places \cup {Words} :
             /\ t.word < k /\ (k = Words \/ data[v][k] # {})
             /\ \A j \in t.word + 1 .. k - 1 : data[v][j] = {}
  IN  [t EXCEPT !.word = k, !.rest = IF k = Words THEN {} ELSE data[v][k]]
-----------------------------------------------------------------------------

Init == /\ data = [v \in Vectors |-> [k \in Places |-> {}]]
        /\ changed = FALSE
        /\ walk = Idle /\ met = {}

(* (uword)(1 << (i % kBitsPerWord))                                        *)
Mask(i) == LET shift == (i % kBitsPerWord) % kBitsPerInt
           IN  IF shift = kBitsPerInt - 1 THEN shift .. kBitsPerWord - 1 ELSE {shift}
WordOf(i) == i \div kBitsPerWord

Contains(v, i) == data[v][WordOf(i)] \cap Mask(i) # {}

(* While a vector is walked nobody writes it.                              *)
Free(v) == v \notin walk.on

Clear(v) ==
  /\ Free(v)
  /\ data' = [data EXCEPT ![v] = [k \in Places |-> {}]]
  /\ UNCHANGED <<changed, walk, met>>

Add(v, i) ==
  /\ Free(v)
  /\ data' = [data EXCEPT ![v][WordOf(i)] = @ \cup Mask(i)]
  /\ UNCHANGED <<changed, walk, met>>

Remove(v, i) ==
  /\ Free(v)
  /\ data' = [data EXCEPT ![v][WordOf(i)] = @ \ Mask(i)]
  /\ UNCHANGED <<changed, walk, met>>

Intersect(v, other) ==
  /\ Free(v)
  /\ data' = [data EXCEPT ![v] = [k \in Places |-> @[k] \cap data[other][k]]]
  /\ UNCHANGED <<changed, walk, met>>

(* Word by word, noting whether any of them grew.                          *)
Grow(v, gain) ==
  /\ data' = [data EXCEPT ![v] = [k \in Places |-> @[k] \cup gain[k]]]
  /\ changed' = \E k \in Places : ~(gain[k] \subseteq data[v][k])

AddAll(v, from) ==
  /\ Free(v) /\ Grow(v, data[from])
  /\ UNCHANGED <<walk, met>>

KillAndAdd(v, kill, gen) ==
  /\ Free(v) /\ Grow(v, [k \in Places |-> data[gen][k] \ data[kill][k]])
  /\ UNCHANGED <<walk, met>>

-----------------------------------------------------------------------------
(* The next word with a bit set, or the end.                               *)
NextWord(t, v) ==
  LET k == CHOOSE k \in Places \cup {Words} :
             /\ t.word < k /\ (k = Words \/ data[v][k] # {})
             /\ \A j \in t.word + 1 .. k - 1 : data[v][j] = {}
  IN  [t EXCEPT !.word = k, !.rest = IF k = Words THEN {} ELSE data[v][k],
                !.bit = k * kBitsPerWord]

(* What is left of the word is shifted down to behind its lowest bit.      *)
NextBit(t) ==
  LET low == CHOOSE b \in t.rest : \A c \in t.rest : b <= c
  IN  [t EXCEPT !.bit = @ + low, !.rest = {b - low - 1 : b \in @ \ {low}}]

(* bit_vector_iterator_advance.                                            *)
Advanced(t, v) ==
  LET on   == [t EXCEPT !.bit = @ + 1]
      next == IF on.rest = {} THEN NextWord(on, v) ELSE on
  IN  IF next.word = Words THEN next ELSE NextBit(next)

Done(t) == t.word >= Words

(* An iterator is made, and yields the first index.                        *)
NewIterator(v) ==
  /\ walk = Idle
  /\ walk' = Advanced([Idle EXCEPT !.on = {v}, !.rest = data[v][0]], v)
  /\ met' = IF Done(walk') THEN {} ELSE {walk'.bit}
  /\ UNCHANGED <<data, changed>>

Advance(v) ==
  /\ walk.on = {v} /\ ~Done(walk)
  /\ walk' = Advanced(walk, v)
  /\ met' = IF Done(walk') THEN met ELSE met \cup {walk'.bit}
  /\ UNCHANGED <<data, changed>>

LeaveLoop ==
  /\ walk.on # {} /\ Done(walk)
  /\ walk' = Idle /\ met' = {}
  /\ UNCHANGED <<data, changed>>

Next ==
  \/ \E v \in Vectors : Clear(v) \/ NewIterator(v) \/ Advance(v)
  \/ \E v \in Vectors, i \in Indices : Add(v, i) \/ Remove(v, i)
  \/ \E v, w \in Vectors : Intersect(v, w) \/ AddAll(v, w)
  \/ \E v, w, u \in Vectors : KillAndAdd(v, w, u)
  \/ LeaveLoop

Spec == Init /\ [][Next]_vars

-----------------------------------------------------------------------------
TypeOK == /\ data \in [Vectors -> [Places -> SUBSET Bits]]
          /\ changed \in BOOLEAN
          /\ walk.on \in SUBSET Vectors /\ walk.rest \in SUBSET Bits
          /\ walk.word \in 0 .. Words

(* What the calls can tell apart: indices by word and mask.                *)
Class(i) == (kBitsPerWord * WordOf(i)) + ((i % kBitsPerWord) % kBitsPerInt)
Classes == {Class(i) : i \in Indices}
Members == [v \in Vectors |-> {i \in Classes : Contains(v, i)}]
BitsOf(members) == UNION {{kBitsPerWord * WordOf(i) + b : b \in Mask(i)} :
                              i \in members}

(* The bits of members are set, all of each, and no other: classes do not  *)
(* touch each other's.                                                     *)
BitsAreMembers ==
  \A v \in Vectors :
    UNION {{kBitsPerWord * k + b : b \in data[v][k]} : k \in Places} = BitsOf(Members[v])

(* A walk over a vector yields the bits of its members, each once and in   *)
(* order: those met so far are those up to where it stands.  With indices  *)
(* below 31 in their word these are the members; with a 31 it also yields  *)
(* the 32 above it, and an index of the upper half as the one 32 below.    *)
WalkMeetsMembers ==
  \A v \in walk.on :
    met = IF Done(walk) THEN BitsOf(Members[v]) ELSE {i \in BitsOf(Members[v]) : i <= walk.bit}

(* What a loop over a vector of well-formed words relies on.               *)
BitVectorInv == TypeOK /\ BitsAreMembers /\ WalkMeetsMembers

(* A bit vector is a set of classes of indices, and of indices as long as  *)
(* they are below 32 in their word; its calls report growth exactly.       *)
Sets == INSTANCE BitSets WITH sets <- Members, Indices <- Classes
ImplementsBitSets == Sets!AbsSpec
=============================================================================
