-------------------------- MODULE BitVectorProofs ---------------------------
(***************************************************************************)
(* For any vectors, any number of words and any indices: the words hold    *)
(* whole masks only, a walk over a vector meets exactly the bits of its    *)
(* members in order, and the calls implement the sets of BitSets.          *)
(***************************************************************************)
EXTENDS BitVector, TLAPS, NaturalsInduction, WellFoundedInduction

USE DEF kBitsPerWord, kBitsPerInt

-----------------------------------------------------------------------------
(* Indices, words and masks.                                               *)
Shift(i) == (i % kBitsPerWord) % kBitsPerInt

LEMMA IndexParts ==
  ASSUME NEW i \in Indices
  PROVE  /\ i \in Nat /\ WordOf(i) \in Places /\ Shift(i) \in 0 .. 31
         /\ Class(i) \in Nat /\ Class(i) = (64 * WordOf(i)) + Shift(i)
         /\ WordOf(Class(i)) = WordOf(i) /\ Shift(Class(i)) = Shift(i)
<1>1. i \in Nat /\ i <= 64 * Words - 1 /\ Words \in Nat
  BY IndicesAssumption, WordsAssumption
<1>2. WordOf(i) \in Places
  BY <1>1 DEF WordOf, Places
<1>3. Shift(i) \in 0 .. 31
  BY <1>1 DEF Shift
<1>4. Class(i) = (64 * WordOf(i)) + Shift(i)
  BY DEF Class, Shift
<1> DEFINE w == WordOf(i)
           s == Shift(i)
<1>5. w \in Nat /\ s \in 0 .. 31
  BY <1>2, <1>3, WordsAssumption DEF Places
<1> HIDE DEF w, s
<1>6. ((64 * w) + s) \div 64 = w /\ (((64 * w) + s) % 64) % 32 = s
  BY <1>5
<1>7. QED
  BY <1>1, <1>2, <1>3, <1>4, <1>5, <1>6 DEF w, s, WordOf, Shift

LEMMA MaskIs ==
  ASSUME NEW i
  PROVE  Mask(i) = IF Shift(i) = 31 THEN 31 .. 63 ELSE {Shift(i)}
<1>1. Mask(i) = IF Shift(i) = 32 - 1 THEN Shift(i) .. 64 - 1 ELSE {Shift(i)}
  BY DEF Mask, Shift
<1>2. 32 - 1 = 31 /\ 64 - 1 = 63
  OBVIOUS
<1>3. QED
  BY <1>1, <1>2

(* Two masks are the same or have no bit in common.                        *)
LEMMA MasksApart ==
  ASSUME NEW i, NEW j, Shift(i) \in 0 .. 31, Shift(j) \in 0 .. 31
  PROVE  /\ Shift(i) \in Mask(i) /\ Mask(i) \subseteq Bits
         /\ Shift(i) # Shift(j) => Mask(i) \cap Mask(j) = {}
         /\ Shift(i) = Shift(j) => Mask(i) = Mask(j)
<1> DEFINE s == Shift(i)
           t == Shift(j)
<1>1. /\ Mask(i) = IF s = 31 THEN 31 .. 63 ELSE {s}
      /\ Mask(j) = IF t = 31 THEN 31 .. 63 ELSE {t}
  BY MaskIs
<1>2. s \in 0 .. 31 /\ t \in 0 .. 31
  OBVIOUS
<1> HIDE DEF s, t
<1>3. QED
  BY <1>1, <1>2 DEF Bits, s, t

LEMMA ClassIs ==
  ASSUME NEW c \in Classes
  PROVE  /\ c \in Nat /\ WordOf(c) \in Places /\ Shift(c) \in 0 .. 31
         /\ c = (64 * WordOf(c)) + Shift(c)
         /\ \A i \in Indices : WordOf(c) = WordOf(i) /\ Shift(c) = Shift(i) => c = Class(i)
<1>1. PICK i \in Indices : c = Class(i)
  BY DEF Classes
<1>2. QED
  BY <1>1, IndexParts

LEMMA SameMask ==
  ASSUME NEW i \in Indices
  PROVE  Class(i) \in Classes /\ Mask(Class(i)) = Mask(i) /\ WordOf(Class(i)) = WordOf(i)
  BY IndexParts, MasksApart DEF Classes

-----------------------------------------------------------------------------
(* The words of one vector: what they hold of a mask, they hold whole.     *)
HoldsMask(D, k, b) == \E i \in Indices : WordOf(i) = k /\ b \in Mask(i) /\ Mask(i) \subseteq D[k]

WholeWords(D) ==
  /\ D \in [Places -> SUBSET Bits]
  /\ \A k \in Places : \A b \in D[k] : HoldsMask(D, k, b)

In(D, c) == D[WordOf(c)] \cap Mask(c) # {}
MembersOf(D) == {c \in Classes : In(D, c)}

LEMMA AllOrNothing ==
  ASSUME NEW D, WholeWords(D), NEW i \in Indices
  PROVE  In(D, i) <=> Mask(i) \subseteq D[WordOf(i)]
<1>1. WordOf(i) \in Places /\ Shift(i) \in 0 .. 31 /\ Shift(i) \in Mask(i)
  BY IndexParts, MasksApart
<1>2. ASSUME NEW b \in D[WordOf(i)], b \in Mask(i) PROVE Mask(i) \subseteq D[WordOf(i)]
  <2>1. PICK j \in Indices : /\ WordOf(j) = WordOf(i) /\ b \in Mask(j)
                             /\ Mask(j) \subseteq D[WordOf(i)]
    BY <1>1 DEF WholeWords, HoldsMask
  <2>2. Shift(j) \in 0 .. 31
    BY IndexParts
  <2>3. Mask(j) = Mask(i)
    BY <1>1, <1>2, <2>1, <2>2, MasksApart
  <2>4. QED
    BY <2>1, <2>3
<1>3. QED
  BY <1>1, <1>2 DEF In

LEMMA MembersAre ==
  ASSUME NEW D, WholeWords(D)
  PROVE  \A i \in Indices : Class(i) \in MembersOf(D) <=> Mask(i) \subseteq D[WordOf(i)]
<1>1. ASSUME NEW i \in Indices PROVE Class(i) \in MembersOf(D) <=> In(D, i)
  BY SameMask DEF MembersOf, In
<1>2. QED
  BY <1>1, AllOrNothing

LEMMA BitsAre ==
  ASSUME NEW D, WholeWords(D)
  PROVE  /\ UNION {{kBitsPerWord * k + b : b \in D[k]} : k \in Places} = BitsOf(MembersOf(D))
         /\ \A k \in Places : \A b \in D[k] :
              \E i \in Indices : WordOf(i) = k /\ b \in Mask(i) /\ Class(i) \in MembersOf(D)
<1>1. ASSUME NEW k \in Places, NEW b \in D[k]
      PROVE  \E i \in Indices : WordOf(i) = k /\ b \in Mask(i) /\ Class(i) \in MembersOf(D)
  <2>1. PICK i \in Indices : WordOf(i) = k /\ b \in Mask(i) /\ Mask(i) \subseteq D[k]
    BY DEF WholeWords, HoldsMask
  <2>2. QED
    BY <2>1, MembersAre
<1>2. ASSUME NEW k \in Places, NEW b \in D[k] PROVE kBitsPerWord * k + b \in BitsOf(MembersOf(D))
  <2>1. PICK i \in Indices : WordOf(i) = k /\ b \in Mask(i) /\ Class(i) \in MembersOf(D)
    BY <1>1
  <2>2. WordOf(Class(i)) = k /\ b \in Mask(Class(i))
    BY <2>1, SameMask
  <2>3. QED
    BY <2>1, <2>2 DEF BitsOf
<1>3. ASSUME NEW c \in MembersOf(D), NEW b \in Mask(c)
      PROVE  \E k \in Places : \E d \in D[k] : kBitsPerWord * WordOf(c) + b = kBitsPerWord * k + d
  <2>1. PICK i \in Indices : c = Class(i)
    BY DEF MembersOf, Classes
  <2>2. /\ WordOf(c) = WordOf(i) /\ Mask(c) = Mask(i) /\ WordOf(i) \in Places
        /\ Mask(i) \subseteq D[WordOf(i)]
    BY <2>1, SameMask, IndexParts, MembersAre
  <2>3. QED
    BY <2>2
<1>4. QED
  BY <1>1, <1>2, <1>3 DEF BitsOf

(* Two vectors compare as their members do.                                *)
LEMMA MembersCompare ==
  ASSUME NEW D, WholeWords(D), NEW E, WholeWords(E)
  PROVE  (\A k \in Places : E[k] \subseteq D[k]) <=> MembersOf(E) \subseteq MembersOf(D)
<1>1. ASSUME \A k \in Places : E[k] \subseteq D[k], NEW c \in MembersOf(E)
      PROVE  c \in MembersOf(D)
  <2>1. WordOf(c) \in Places /\ c \in Classes
    BY ClassIs DEF MembersOf
  <2>2. QED
    BY <1>1, <2>1 DEF MembersOf, In
<1>2. ASSUME MembersOf(E) \subseteq MembersOf(D), NEW k \in Places, NEW b \in E[k]
      PROVE  b \in D[k]
  <2>1. PICK i \in Indices : WordOf(i) = k /\ b \in Mask(i) /\ Class(i) \in MembersOf(E)
    BY BitsAre
  <2>2. Mask(i) \subseteq D[k]
    BY <1>2, <2>1, MembersAre
  <2>3. QED
    BY <2>1, <2>2
<1>3. QED
  BY <1>1, <1>2

-----------------------------------------------------------------------------
(* What each call leaves of the words, and of the members.                 *)
LEMMA SameClass ==
  ASSUME NEW i \in Indices, NEW j \in Indices
  PROVE  Class(i) = Class(j) <=> WordOf(i) = WordOf(j) /\ Shift(i) = Shift(j)
  BY IndexParts

LEMMA MembersBy ==
  ASSUME NEW D, WholeWords(D), NEW S, S \subseteq Classes,
         \A i \in Indices : Mask(i) \subseteq D[WordOf(i)] <=> Class(i) \in S
  PROVE  MembersOf(D) = S
<1>1. \A c \in Classes : c \in MembersOf(D) <=> c \in S
  BY MembersAre DEF Classes
<1>2. MembersOf(D) \subseteq Classes
  BY DEF MembersOf
<1>3. QED
  BY <1>1, <1>2

LEMMA ClearedWords ==
  LET E == [k \in Places |-> {}] IN WholeWords(E) /\ MembersOf(E) = {}
<1> DEFINE E == [k \in Places |-> {}]
<1>1. WholeWords(E)
  BY DEF WholeWords
<1>2. \A c \in Classes : WordOf(c) \in Places
  BY ClassIs
<1>3. QED
  BY <1>1, <1>2 DEF MembersOf, In

LEMMA AddedWords ==
  ASSUME NEW D, WholeWords(D), NEW i \in Indices,
         NEW E, E = [D EXCEPT ![WordOf(i)] = @ \cup Mask(i)]
  PROVE  WholeWords(E) /\ MembersOf(E) = MembersOf(D) \cup {Class(i)}
<1>1. D \in [Places -> SUBSET Bits] /\ WordOf(i) \in Places /\ Mask(i) \subseteq Bits
  BY IndexParts, MasksApart DEF WholeWords
<1>2. /\ E \in [Places -> SUBSET Bits] /\ E[WordOf(i)] = D[WordOf(i)] \cup Mask(i)
      /\ \A k \in Places : D[k] \subseteq E[k] /\ (k # WordOf(i) => E[k] = D[k])
  BY <1>1
<1>3. ASSUME NEW k \in Places, NEW b \in E[k] PROVE HoldsMask(E, k, b)
  <2>1. CASE b \in D[k]
    BY <1>2, <2>1 DEF WholeWords, HoldsMask
  <2>2. CASE b \notin D[k]
    BY <1>2, <1>3, <2>2 DEF HoldsMask
  <2>3. QED
    BY <2>1, <2>2
<1>4. WholeWords(E)
  BY <1>2, <1>3 DEF WholeWords
<1>5. ASSUME NEW j \in Indices
      PROVE  Mask(j) \subseteq E[WordOf(j)] <=> Class(j) \in MembersOf(D) \cup {Class(i)}
  <2>1. WordOf(j) \in Places /\ Shift(j) \in 0 .. 31 /\ Shift(i) \in 0 .. 31
    BY IndexParts
  <2>2. Class(j) \in MembersOf(D) <=> Mask(j) \subseteq D[WordOf(j)]
    BY MembersAre
  <2>3. CASE WordOf(j) = WordOf(i) /\ Shift(j) = Shift(i)
    BY <1>2, <2>1, <2>3, SameClass, MasksApart
  <2>4. CASE WordOf(j) = WordOf(i) /\ Shift(j) # Shift(i)
    <3>1. Mask(j) \cap Mask(i) = {} /\ Class(j) # Class(i)
      BY <2>1, <2>4, SameClass, MasksApart
    <3>2. QED
      BY <1>2, <2>2, <2>4, <3>1
  <2>5. CASE WordOf(j) # WordOf(i)
    BY <1>2, <2>1, <2>2, <2>5, SameClass
  <2>6. QED
    BY <2>3, <2>4, <2>5
<1>6. MembersOf(D) \cup {Class(i)} \subseteq Classes
  BY SameMask DEF MembersOf
<1>7. QED
  BY <1>4, <1>5, <1>6, MembersBy

LEMMA RemovedWords ==
  ASSUME NEW D, WholeWords(D), NEW i \in Indices,
         NEW E, E = [D EXCEPT ![WordOf(i)] = @ \ Mask(i)]
  PROVE  WholeWords(E) /\ MembersOf(E) = MembersOf(D) \ {Class(i)}
<1>1. D \in [Places -> SUBSET Bits] /\ WordOf(i) \in Places
  BY IndexParts DEF WholeWords
<1>2. /\ E \in [Places -> SUBSET Bits] /\ E[WordOf(i)] = D[WordOf(i)] \ Mask(i)
      /\ \A k \in Places : E[k] \subseteq D[k] /\ (k # WordOf(i) => E[k] = D[k])
  BY <1>1
<1>3. ASSUME NEW k \in Places, NEW b \in E[k] PROVE HoldsMask(E, k, b)
  <2>1. PICK j \in Indices : WordOf(j) = k /\ b \in Mask(j) /\ Mask(j) \subseteq D[k]
    BY <1>2, <1>3 DEF WholeWords, HoldsMask
  <2>2. CASE k = WordOf(i)
    <3>1. b \notin Mask(i) /\ Shift(i) \in 0 .. 31 /\ Shift(j) \in 0 .. 31
      BY <1>2, <1>3, <2>2, IndexParts
    <3>2. Mask(j) \cap Mask(i) = {}
      BY <2>1, <3>1, MasksApart
    <3>3. QED
      BY <1>2, <2>1, <2>2, <3>2 DEF HoldsMask
  <2>3. CASE k # WordOf(i)
    BY <1>2, <2>1, <2>3 DEF HoldsMask
  <2>4. QED
    BY <2>2, <2>3
<1>4. WholeWords(E)
  BY <1>2, <1>3 DEF WholeWords
<1>5. ASSUME NEW j \in Indices
      PROVE  Mask(j) \subseteq E[WordOf(j)] <=> Class(j) \in MembersOf(D) \ {Class(i)}
  <2>1. /\ WordOf(j) \in Places /\ Shift(j) \in 0 .. 31 /\ Shift(i) \in 0 .. 31
        /\ Shift(j) \in Mask(j)
    BY IndexParts, MasksApart
  <2>2. Class(j) \in MembersOf(D) <=> Mask(j) \subseteq D[WordOf(j)]
    BY MembersAre
  <2>3. CASE WordOf(j) = WordOf(i) /\ Shift(j) = Shift(i)
    <3>1. Class(j) = Class(i) /\ Mask(j) = Mask(i)
      BY <2>1, <2>3, SameClass, MasksApart
    <3>2. QED
      BY <1>2, <2>1, <2>3, <3>1
  <2>4. CASE WordOf(j) = WordOf(i) /\ Shift(j) # Shift(i)
    <3>1. Mask(j) \cap Mask(i) = {} /\ Class(j) # Class(i)
      BY <2>1, <2>4, SameClass, MasksApart
    <3>2. QED
      BY <1>2, <2>2, <2>4, <3>1
  <2>5. CASE WordOf(j) # WordOf(i)
    BY <1>2, <2>1, <2>2, <2>5, SameClass
  <2>6. QED
    BY <2>3, <2>4, <2>5
<1>6. MembersOf(D) \ {Class(i)} \subseteq Classes
  BY DEF MembersOf
<1>7. QED
  BY <1>4, <1>5, <1>6, MembersBy

(* Where the words of two vectors meet: a mask is in both, or apart.       *)
LEMMA WordsMeet ==
  ASSUME NEW D, WholeWords(D), NEW F, WholeWords(F), NEW k \in Places, NEW b \in D[k]
  PROVE  \E j \in Indices : /\ WordOf(j) = k /\ b \in Mask(j) /\ Mask(j) \subseteq D[k]
                            /\ IF b \in F[k] THEN Mask(j) \subseteq F[k]
                                             ELSE Mask(j) \cap F[k] = {}
<1>1. PICK j \in Indices : WordOf(j) = k /\ b \in Mask(j) /\ Mask(j) \subseteq D[k]
  BY DEF WholeWords, HoldsMask
<1>2. In(F, j) <=> Mask(j) \subseteq F[k]
  BY <1>1, AllOrNothing
<1>3. In(F, j) <=> F[k] \cap Mask(j) # {}
  BY <1>1 DEF In
<1>4. QED
  BY <1>1, <1>2, <1>3

LEMMA MetWords ==
  ASSUME NEW D, WholeWords(D), NEW F, WholeWords(F)
  PROVE  /\ WholeWords([k \in Places |-> D[k] \cap F[k]])
         /\ MembersOf([k \in Places |-> D[k] \cap F[k]]) = MembersOf(D) \cap MembersOf(F)
<1> DEFINE E == [k \in Places |-> D[k] \cap F[k]]
<1>1. E \in [Places -> SUBSET Bits] /\ \A k \in Places : E[k] = D[k] \cap F[k]
  BY DEF WholeWords
<1> HIDE DEF E
<1>2. ASSUME NEW k \in Places, NEW b \in E[k] PROVE HoldsMask(E, k, b)
  <2>1. b \in D[k] /\ b \in F[k]
    BY <1>1
  <2>2. QED
    BY <1>1, <2>1, WordsMeet DEF HoldsMask
<1>3. WholeWords(E)
  BY <1>1, <1>2 DEF WholeWords
<1>4. ASSUME NEW j \in Indices
      PROVE  Mask(j) \subseteq E[WordOf(j)] <=> Class(j) \in MembersOf(D) \cap MembersOf(F)
  <2>1. WordOf(j) \in Places
    BY IndexParts
  <2>2. QED
    BY <1>1, <2>1, MembersAre
<1>5. MembersOf(D) \cap MembersOf(F) \subseteq Classes
  BY DEF MembersOf
<1>6. MembersOf(E) = MembersOf(D) \cap MembersOf(F)
  <2> DEFINE S == MembersOf(D) \cap MembersOf(F)
  <2>1. /\ S \subseteq Classes
        /\ \A j \in Indices : Mask(j) \subseteq E[WordOf(j)] <=> Class(j) \in S
    BY <1>4, <1>5
  <2> HIDE DEF S
  <2>2. MembersOf(E) = S
    BY <1>3, <2>1, MembersBy
  <2>3. QED
    BY <2>2 DEF S
<1>7. QED
  BY <1>3, <1>6 DEF E

LEMMA JoinedWords ==
  ASSUME NEW D, WholeWords(D), NEW F, WholeWords(F)
  PROVE  /\ WholeWords([k \in Places |-> D[k] \cup F[k]])
         /\ MembersOf([k \in Places |-> D[k] \cup F[k]]) = MembersOf(D) \cup MembersOf(F)
<1> DEFINE E == [k \in Places |-> D[k] \cup F[k]]
<1>1. E \in [Places -> SUBSET Bits] /\ \A k \in Places : E[k] = D[k] \cup F[k]
  BY DEF WholeWords
<1> HIDE DEF E
<1>2. ASSUME NEW k \in Places, NEW b \in E[k] PROVE HoldsMask(E, k, b)
  <2>1. HoldsMask(D, k, b) \/ HoldsMask(F, k, b)
    BY <1>1, <1>2 DEF WholeWords
  <2>2. QED
    BY <1>1, <2>1 DEF HoldsMask
<1>3. WholeWords(E)
  BY <1>1, <1>2 DEF WholeWords
<1>4. ASSUME NEW j \in Indices
      PROVE  Mask(j) \subseteq E[WordOf(j)] <=> Class(j) \in MembersOf(D) \cup MembersOf(F)
  <2>1. WordOf(j) \in Places /\ Shift(j) \in Mask(j)
    BY IndexParts, MasksApart
  <2>2. /\ Class(j) \in MembersOf(D) <=> Mask(j) \subseteq D[WordOf(j)]
        /\ Class(j) \in MembersOf(F) <=> Mask(j) \subseteq F[WordOf(j)]
    BY MembersAre
  <2>3. /\ Shift(j) \in D[WordOf(j)] => Mask(j) \subseteq D[WordOf(j)]
        /\ Shift(j) \in F[WordOf(j)] => Mask(j) \subseteq F[WordOf(j)]
    BY <2>1, AllOrNothing DEF In
  <2>4. QED
    BY <1>1, <2>1, <2>2, <2>3
<1>5. MembersOf(D) \cup MembersOf(F) \subseteq Classes
  BY DEF MembersOf
<1>6. MembersOf(E) = MembersOf(D) \cup MembersOf(F)
  <2> DEFINE S == MembersOf(D) \cup MembersOf(F)
  <2>1. /\ S \subseteq Classes
        /\ \A j \in Indices : Mask(j) \subseteq E[WordOf(j)] <=> Class(j) \in S
    BY <1>4, <1>5
  <2> HIDE DEF S
  <2>2. MembersOf(E) = S
    BY <1>3, <2>1, MembersBy
  <2>3. QED
    BY <2>2 DEF S
<1>7. QED
  BY <1>3, <1>6 DEF E

LEMMA LeftWords ==
  ASSUME NEW D, WholeWords(D), NEW F, WholeWords(F)
  PROVE  /\ WholeWords([k \in Places |-> D[k] \ F[k]])
         /\ MembersOf([k \in Places |-> D[k] \ F[k]]) = MembersOf(D) \ MembersOf(F)
<1> DEFINE E == [k \in Places |-> D[k] \ F[k]]
<1>1. E \in [Places -> SUBSET Bits] /\ \A k \in Places : E[k] = D[k] \ F[k]
  BY DEF WholeWords
<1> HIDE DEF E
<1>2. ASSUME NEW k \in Places, NEW b \in E[k] PROVE HoldsMask(E, k, b)
  <2>1. b \in D[k] /\ b \notin F[k]
    BY <1>1
  <2>2. QED
    BY <1>1, <2>1, WordsMeet DEF HoldsMask
<1>3. WholeWords(E)
  BY <1>1, <1>2 DEF WholeWords
<1>4. ASSUME NEW j \in Indices
      PROVE  Mask(j) \subseteq E[WordOf(j)] <=> Class(j) \in MembersOf(D) \ MembersOf(F)
  <2>1. WordOf(j) \in Places /\ Shift(j) \in Mask(j)
    BY IndexParts, MasksApart
  <2>2. /\ Class(j) \in MembersOf(D) <=> Mask(j) \subseteq D[WordOf(j)]
        /\ Class(j) \in MembersOf(F) <=> Mask(j) \subseteq F[WordOf(j)]
    BY MembersAre
  <2>3. Mask(j) \cap F[WordOf(j)] # {} <=> Mask(j) \subseteq F[WordOf(j)]
    BY <2>1, AllOrNothing DEF In
  <2>4. QED
    BY <1>1, <2>1, <2>2, <2>3
<1>5. MembersOf(D) \ MembersOf(F) \subseteq Classes
  BY DEF MembersOf
<1>6. MembersOf(E) = MembersOf(D) \ MembersOf(F)
  <2> DEFINE S == MembersOf(D) \ MembersOf(F)
  <2>1. /\ S \subseteq Classes
        /\ \A j \in Indices : Mask(j) \subseteq E[WordOf(j)] <=> Class(j) \in S
    BY <1>4, <1>5
  <2> HIDE DEF S
  <2>2. MembersOf(E) = S
    BY <1>3, <2>1, MembersBy
  <2>3. QED
    BY <2>2 DEF S
<1>7. QED
  BY <1>3, <1>6 DEF E

-----------------------------------------------------------------------------
(* The walk over the bits of one vector.                                   *)
Walks == [on : SUBSET Vectors, bit : Int, word : 0 .. Words, rest : SUBSET Bits]

SetBits(D) == UNION {{kBitsPerWord * k + b : b \in D[k]} : k \in Places}

(* What is left of word k from bit s on, shifted down.                     *)
Behind(D, k, s) == {c - s : c \in {d \in D[k] : d >= s}}

(* An iterator about to look from bit s of its word.                       *)
LooksFrom(t, D, s) ==
  /\ t.word \in Places /\ s \in 0 .. kBitsPerWord
  /\ t.bit = kBitsPerWord * t.word + s
  /\ t.rest = Behind(D, t.word, s)

(* An iterator that stands on a bit, or before the first.                  *)
Stands(t, D) == \E s \in 0 .. kBitsPerWord : LooksFrom([t EXCEPT !.bit = @ + 1], D, s)

(* n is the iterator t one bit further, or at the end.                     *)
OneFurther(t, n, D) ==
  /\ n \in Walks /\ n.on = t.on
  /\ IF n.word = Words
       THEN \A x \in SetBits(D) : x <= t.bit
       ELSE /\ Stands(n, D) /\ n.bit \in SetBits(D) /\ n.bit > t.bit
            /\ \A x \in SetBits(D) : x > t.bit => x >= n.bit

LEMMA LeastOf ==
  ASSUME NEW S \in SUBSET Nat, S # {}
  PROVE  \E m \in S : \A k \in S : m <= k
<1>1. IsWellFoundedOn(OpToRel(<, Nat), Nat)
  BY NatLessThanWellFounded
<1>2. PICK m \in S : \A k \in S : ~(<<k, m>> \in OpToRel(<, Nat))
  BY <1>1, WFMin
<1>3. ASSUME NEW k \in S PROVE m <= k
  <2>1. ~(k < m)
    BY <1>2 DEF OpToRel
  <2>2. QED
    BY <2>1
<1>4. QED
  BY <1>3

LEMMA PlacesAndBits ==
  /\ Bits = 0 .. 63 /\ Words \in Nat
  /\ \A k \in Places : k \in Nat /\ k < Words
<1>1. 64 - 1 = 63
  OBVIOUS
<1>2. QED
  BY <1>1, WordsAssumption DEF Bits, Places

LEMMA SetBitsAre ==
  ASSUME NEW D \in [Places -> SUBSET Bits], NEW x \in SetBits(D)
  PROVE  /\ x \in Nat
         /\ \E k \in Places : \E b \in D[k] : x = 64 * k + b /\ b \in 0 .. 63 /\ k \in Nat
<1>1. PICK k \in Places : \E b \in D[k] : x = 64 * k + b
  BY DEF SetBits
<1>2. PICK b \in D[k] : x = 64 * k + b
  BY <1>1
<1>3. D[k] \subseteq 0 .. 63 /\ k \in Nat
  BY PlacesAndBits
<1>4. b \in 0 .. 63 /\ x \in Nat
  BY <1>2, <1>3
<1>5. QED
  BY <1>2, <1>3, <1>4

LEMMA BehindIsBits ==
  ASSUME NEW D \in [Places -> SUBSET Bits], NEW k \in Places, NEW s \in 0 .. 64
  PROVE  Behind(D, k, s) \subseteq Bits
  BY DEF Behind, Bits

LEMMA BehindNothing ==
  ASSUME NEW D \in [Places -> SUBSET Bits], NEW k \in Places
  PROVE  Behind(D, k, 0) = D[k]
<1>1. \A c \in D[k] : c \in Int /\ c >= 0 /\ c - 0 = c
  BY DEF Bits
<1>2. QED
  BY <1>1 DEF Behind

(* The bit an iterator takes is the first from where it looks.             *)
LEMMA NextBitTakes ==
  ASSUME NEW D \in [Places -> SUBSET Bits], NEW t \in Walks, NEW s \in 0 .. 64,
         LooksFrom(t, D, s), t.rest # {}
  PROVE  \E c \in D[t.word] :
           /\ c >= s /\ \A d \in D[t.word] : d >= s => c <= d
           /\ NextBit(t) = [t EXCEPT !.bit = 64 * t.word + c,
                                     !.rest = Behind(D, t.word, c + 1)]
<1> DEFINE k == t.word
           low == CHOOSE b \in t.rest : \A c \in t.rest : b <= c
<1>1. /\ k \in Places /\ k \in Nat /\ D[k] \subseteq Bits /\ t.bit = 64 * k + s
      /\ t.rest = Behind(D, k, s)
  BY WordsAssumption DEF LooksFrom, Places
<1>2. t.rest \in SUBSET Nat
  BY DEF Walks, Bits
<1>3. low \in t.rest /\ \A c \in t.rest : low <= c
  BY <1>2, LeastOf
<1>4. NextBit(t) = [t EXCEPT !.bit = t.bit + low, !.rest = {b - low - 1 : b \in t.rest \ {low}}]
  BY DEF NextBit
<1> HIDE DEF low, k
<1>5. PICK c \in D[k] : c >= s /\ low = c - s
  BY <1>1, <1>3 DEF Behind
<1>6. c \in 0 .. 63 /\ s \in Int /\ low \in Int
  BY <1>1, <1>5 DEF Bits
<1>7. ASSUME NEW d \in D[k], d >= s PROVE c <= d /\ d \in Int /\ d - s \in t.rest
  <2>1. d - s \in t.rest /\ d \in Int
    BY <1>1, <1>7 DEF Behind, Bits
  <2>2. QED
    BY <1>3, <1>5, <1>6, <2>1
<1>8. t.bit + low = 64 * k + c
  BY <1>1, <1>5, <1>6
<1>9. {b - low - 1 : b \in t.rest \ {low}} = Behind(D, k, c + 1)
  <2>1. ASSUME NEW b \in t.rest \ {low} PROVE b - low - 1 \in Behind(D, k, c + 1)
    <3>1. PICK d \in D[k] : d >= s /\ b = d - s
      BY <1>1, <2>1 DEF Behind
    <3>2. d \in Int /\ c <= d /\ d # c
      BY <1>5, <1>7, <2>1, <3>1
    <3>3. d >= c + 1 /\ b - low - 1 = d - (c + 1)
      BY <1>5, <1>6, <3>1, <3>2
    <3>4. QED
      BY <3>3 DEF Behind
  <2>2. ASSUME NEW e \in Behind(D, k, c + 1)
        PROVE  e \in {b - low - 1 : b \in t.rest \ {low}}
    <3>1. PICK d \in D[k] : d >= c + 1 /\ e = d - (c + 1)
      BY DEF Behind
    <3>2. d \in Int
      BY <1>1 DEF Bits
    <3>3. d >= s
      BY <1>5, <1>6, <3>1, <3>2
    <3>4. d - s \in t.rest
      BY <1>7, <3>3
    <3>5. d - s # low /\ (d - s) - low - 1 = e
      BY <1>5, <1>6, <3>1, <3>2
    <3>6. QED
      BY <3>4, <3>5
  <2>3. QED
    BY <2>1, <2>2
<1>10. QED
  BY <1>4, <1>5, <1>7, <1>8, <1>9 DEF k

(* The word an iterator goes to is the next that is not empty.             *)
LEMMA NextWordFinds ==
  ASSUME NEW v \in Vectors, data[v] \in [Places -> SUBSET Bits],
         NEW t \in Walks, t.word \in Places
  PROVE  LET n == NextWord(t, v) IN
         /\ n \in Walks /\ n.on = t.on /\ n.word > t.word
         /\ \A j \in Places : t.word < j /\ j < n.word => data[v][j] = {}
         /\ n.word # Words => LooksFrom(n, data[v], 0) /\ n.rest # {}
<1> DEFINE D == data[v]
           Fits(k) == /\ t.word < k /\ (k = Words \/ D[k] # {})
                      /\ \A j \in t.word + 1 .. k - 1 : D[j] = {}
           k == CHOOSE j \in Places \cup {Words} : Fits(j)
           n == NextWord(t, v)
<1>1. Words \in Nat /\ t.word \in Nat /\ t.word < Words
  BY WordsAssumption DEF Places
<1>2. n = [t EXCEPT !.word = k, !.rest = IF k = Words THEN {} ELSE D[k], !.bit = k * 64]
  BY DEF NextWord
<1>3. k \in Places \cup {Words} /\ Fits(k)
  <2> DEFINE S == {j \in Places \cup {Words} : t.word < j /\ (j = Words \/ D[j] # {})}
  <2>1. S \in SUBSET Nat /\ Words \in S
    BY <1>1 DEF Places
  <2>2. PICK m \in S : \A j \in S : m <= j
    BY <2>1, LeastOf
  <2>3. ASSUME NEW j \in t.word + 1 .. m - 1 PROVE D[j] = {}
    <3>1. m \in 0 .. Words /\ j \in Places /\ t.word < j /\ ~(m <= j)
      BY <1>1, <2>1, <2>2 DEF Places
    <3>2. j \notin S
      BY <2>2, <3>1
    <3>3. QED
      BY <3>1, <3>2
  <2>4. m \in Places \cup {Words} /\ Fits(m)
    BY <2>2, <2>3
  <2>5. QED
    BY <2>4
<1> HIDE DEF k, n, Fits
<1>4. k \in 0 .. Words /\ k \in Int /\ t.word < k
  BY <1>1, <1>3 DEF Places, Fits
<1>5. D \in [Places -> SUBSET Bits]
  OBVIOUS
<1> HIDE DEF D
<1>6. k # Words => k \in Places /\ D[k] \in SUBSET Bits /\ D[k] # {}
  BY <1>3, <1>5 DEF Fits
<1>7. n \in Walks
  <2>1. (IF k = Words THEN {} ELSE D[k]) \in SUBSET Bits
    BY <1>6
  <2>2. k * 64 \in Int
    BY <1>4
  <2>3. QED
    BY <1>2, <1>4, <2>1, <2>2 DEF Walks
<1>8. /\ n.on = t.on /\ n.word = k /\ n.bit = k * 64
      /\ n.rest = IF k = Words THEN {} ELSE D[k]
  BY <1>2 DEF Walks
<1>9. ASSUME NEW j \in Places, t.word < j, j < k PROVE D[j] = {}
  <2>1. j \in t.word + 1 .. k - 1
    BY <1>1, <1>4, <1>9 DEF Places
  <2>2. QED
    BY <1>3, <2>1 DEF Fits
<1>10. ASSUME k # Words PROVE LooksFrom(n, D, 0) /\ n.rest # {}
  <2>1. k \in Places /\ n.rest = D[k] /\ D[k] # {}
    BY <1>6, <1>8, <1>10
  <2>2. n.bit = 64 * n.word + 0
    BY <1>4, <1>8
  <2>3. QED
    BY <1>5, <1>8, <2>1, <2>2, BehindNothing DEF LooksFrom
<1>11. QED
  BY <1>4, <1>7, <1>8, <1>9, <1>10 DEF D, n

(* An advance takes the iterator to the next bit that is set, or ends it.  *)
LEMMA AdvancedIsFurther ==
  ASSUME NEW v \in Vectors, data[v] \in [Places -> SUBSET Bits],
         NEW t \in Walks, Stands(t, data[v])
  PROVE  OneFurther(t, Advanced(t, v), data[v])
<1> DEFINE D == data[v]
           on == [t EXCEPT !.bit = @ + 1]
           n == Advanced(t, v)
<1>1. PICK s \in 0 .. 64 : LooksFrom(on, D, s)
  BY DEF Stands
<1>2. /\ on \in Walks /\ on.on = t.on /\ on.bit = t.bit + 1
      /\ on.word = t.word /\ on.rest = t.rest
  BY DEF Walks
<1>3. /\ t.bit \in Int /\ t.word \in Places /\ t.word \in Nat /\ t.word < Words
      /\ Words \in Nat /\ t.bit = 64 * t.word + s - 1 /\ t.rest = Behind(D, t.word, s)
  <2>1. /\ on.word \in Places /\ on.bit = 64 * on.word + s
        /\ on.rest = Behind(D, on.word, s) /\ t.bit \in Int
    BY <1>1 DEF LooksFrom, Walks
  <2>2. t.word \in Places /\ t.word \in Nat /\ t.word < Words /\ Words \in Nat
    BY <1>2, <2>1, PlacesAndBits
  <2> HIDE DEF on
  <2>3. t.bit = 64 * t.word + s - 1
    BY <1>2, <2>1, <2>2
  <2>4. QED
    BY <1>2, <2>1, <2>2, <2>3
<1>4. D \in [Places -> SUBSET Bits]
  OBVIOUS
<1>5. n = LET next == IF on.rest = {} THEN NextWord(on, v) ELSE on
          IN  IF next.word = Words THEN next ELSE NextBit(next)
  BY DEF Advanced
<1>6. on.rest = {} => NextWord(on, v) \in Walks
  BY <1>2, <1>3, NextWordFinds
<1> DEFINE next == IF on.rest = {} THEN NextWord(on, v) ELSE on
<1>7. next \in Walks
  BY <1>2, <1>6
<1>8. n = IF next.word = Words THEN next ELSE NextBit(next)
  BY <1>5
(* Between where it stood and where it looks next nothing is set.          *)
<1>9. /\ next.on = t.on /\ next.word \in 0 .. Words
      /\ \A j \in Places : t.word < j /\ j < next.word => D[j] = {}
      /\ t.word <= next.word /\ (next.word > t.word => Behind(D, t.word, s) = {})
      /\ next.word # Words => /\ next.rest # {}
                              /\ IF next.word = t.word THEN LooksFrom(next, D, s)
                                                       ELSE LooksFrom(next, D, 0)
  <2>1. CASE on.rest = {}
    <3>1. /\ next.on = on.on /\ next.word > on.word
          /\ \A j \in Places : on.word < j /\ j < next.word => D[j] = {}
          /\ next.word # Words => LooksFrom(next, D, 0) /\ next.rest # {}
      BY <1>2, <1>3, <2>1, NextWordFinds
    <3>2. next.word \in 0 .. Words
      BY <1>7 DEF Walks
    <3> HIDE DEF next
    <3>3. QED
      BY <1>2, <1>3, <2>1, <3>1, <3>2
  <2>2. CASE on.rest # {}
    <3>1. next = on
      BY <2>2
    <3> HIDE DEF next
    <3>2. \A j \in Places : ~(t.word < j /\ j < t.word)
      BY <1>3 DEF Places
    <3>3. QED
      BY <1>1, <1>2, <1>3, <2>2, <3>1, <3>2
  <2>3. QED
    BY <2>1, <2>2
<1> HIDE DEF next, n, on, D
<1>10. ASSUME NEW x \in SetBits(D), x > t.bit
       PROVE  \E b \in D[next.word] : /\ next.word \in Places
                                      /\ x >= 64 * next.word + b /\ b \in 0 .. 63
                                      /\ (next.word = t.word => b >= s)
  <2>1. PICK k \in Places : \E b \in D[k] : x = 64 * k + b /\ b \in 0 .. 63 /\ k \in Nat
    BY <1>4, SetBitsAre
  <2>2. PICK b \in D[k] : x = 64 * k + b /\ b \in 0 .. 63 /\ k \in Nat
    BY <2>1
  <2>3. next.word \in Nat /\ k < Words /\ k \in Nat
    BY <1>3, <1>9, <2>2 DEF Places
  <2>4. k >= t.word /\ (k = t.word => b >= s)
    BY <1>3, <1>10, <2>2
  <2>5. k >= next.word
    <3>1. CASE k = t.word
      <4>1. b - s \in Behind(D, t.word, s)
        BY <2>2, <2>4, <3>1 DEF Behind
      <4>2. ~(next.word > t.word)
        BY <1>9, <4>1
      <4>3. QED
        BY <1>3, <2>3, <3>1, <4>2
    <3>2. CASE k # t.word
      <4>1. t.word < k
        BY <1>3, <2>3, <2>4, <3>2
      <4>2. ~(k < next.word)
        BY <1>9, <2>2, <4>1
      <4>3. QED
        BY <2>3, <4>2
    <3>3. QED
      BY <3>1, <3>2
  <2>6. next.word \in Places
    BY <2>3, <2>5, <1>3 DEF Places
  <2>7. CASE k = next.word
    BY <2>2, <2>4, <2>6, <2>7
  <2>8. CASE k > next.word
    <3>1. next.rest # {} /\ next.word # Words
      BY <1>3, <1>9, <2>6 DEF Places
    <3>2. CASE next.word = t.word
      <4>1. LooksFrom(next, D, s)
        BY <1>9, <3>1, <3>2
      <4>2. next.rest = Behind(D, next.word, s)
        BY <4>1 DEF LooksFrom
      <4>3. PICK c \in D[next.word] : c >= s
        BY <3>1, <4>2 DEF Behind
      <4>4. c \in 0 .. 63
        BY <1>4, <2>6 DEF Bits
      <4>5. x >= 64 * next.word + c
        BY <2>2, <2>3, <2>8, <4>4
      <4>6. QED
        BY <2>6, <4>3, <4>4, <4>5
    <3>3. CASE next.word # t.word
      <4>1. LooksFrom(next, D, 0)
        BY <1>9, <3>1, <3>3
      <4>2. next.rest = Behind(D, next.word, 0)
        BY <4>1 DEF LooksFrom
      <4>3. PICK c \in D[next.word] : c >= 0
        BY <3>1, <4>2 DEF Behind
      <4>4. c \in 0 .. 63
        BY <1>4, <2>6 DEF Bits
      <4>5. x >= 64 * next.word + c
        BY <2>2, <2>3, <2>8, <4>4
      <4>6. QED
        BY <2>6, <3>3, <4>3, <4>4, <4>5
    <3>4. QED
      BY <3>2, <3>3
  <2>9. QED
    BY <2>3, <2>5, <2>7, <2>8

<1>11. CASE next.word = Words
  <2>1. Words \notin Places
    BY <1>3 DEF Places
  <2>2. ASSUME NEW x \in SetBits(D) PROVE x <= t.bit
    <3>1. ~(x > t.bit)
      BY <1>10, <1>11, <2>1
    <3>2. x \in Int
      BY <1>4, SetBitsAre
    <3>3. QED
      BY <1>3, <3>1, <3>2
  <2>3. QED
    BY <1>7, <1>8, <1>9, <1>11, <2>2 DEF OneFurther, D, n
<1>12. CASE next.word # Words
  <2> DEFINE r == IF next.word = t.word THEN s ELSE 0
             w == next.word
  <2>1. r \in 0 .. 64 /\ LooksFrom(next, D, r) /\ next.rest # {}
    BY <1>9, <1>12
  <2>2. w \in Places /\ w \in Nat /\ D[w] \subseteq 0 .. 63
    <3>1. w \in Places
      BY <2>1 DEF LooksFrom
    <3>2. D[w] \in SUBSET Bits
      BY <1>4, <3>1
    <3>3. QED
      BY <3>1, <3>2, PlacesAndBits
  <2>3. PICK c \in D[w] : /\ c >= r /\ \A d \in D[w] : d >= r => c <= d
                          /\ NextBit(next) = [next EXCEPT !.bit = 64 * w + c,
                                                          !.rest = Behind(D, w, c + 1)]
    <3> HIDE DEF r
    <3>1. \E c \in D[next.word] :
            /\ c >= r /\ \A d \in D[next.word] : d >= r => c <= d
            /\ NextBit(next) = [next EXCEPT !.bit = 64 * next.word + c,
                                            !.rest = Behind(D, next.word, c + 1)]
      BY <1>4, <1>7, <2>1, NextBitTakes
    <3>2. QED
      BY <3>1
  <2>4. c \in 0 .. 63 /\ c + 1 \in 0 .. 64
    BY <2>2
  <2>5. Behind(D, w, c + 1) \subseteq Bits
    BY <1>4, <2>2, <2>4, BehindIsBits
  <2>6. /\ n.on = next.on /\ n.word = w /\ n.bit = 64 * w + c
        /\ n.rest = Behind(D, w, c + 1) /\ n \in Walks
    <3>1. n = [next EXCEPT !.bit = 64 * w + c, !.rest = Behind(D, w, c + 1)]
      BY <1>8, <1>12, <2>3
    <3>2. 64 * w + c \in Int
      BY <2>2, <2>4
    <3>3. QED
      BY <1>7, <2>5, <3>1, <3>2 DEF Walks
  <2>7. Stands(n, D)
    <3> DEFINE m == [n EXCEPT !.bit = @ + 1]
    <3>1. m.word = w /\ m.bit = n.bit + 1 /\ m.rest = n.rest
      BY <2>6 DEF Walks
    <3>2. m.bit = 64 * w + (c + 1)
      BY <2>2, <2>4, <2>6, <3>1
    <3>3. LooksFrom(m, D, c + 1)
      BY <2>2, <2>4, <2>6, <3>1, <3>2 DEF LooksFrom
    <3>4. QED
      BY <2>4, <3>3 DEF Stands
  <2>8. n.bit \in SetBits(D)
    BY <2>2, <2>3, <2>6 DEF SetBits
  <2>9. n.bit > t.bit
    <3>1. CASE w = t.word
      BY <1>3, <2>2, <2>3, <2>4, <2>6, <3>1, SMTT(30)
    <3>2. CASE w # t.word
      BY <1>3, <1>9, <2>2, <2>4, <2>6, <3>2
    <3>3. QED
      BY <3>1, <3>2
  <2>10. ASSUME NEW x \in SetBits(D), x > t.bit PROVE x >= n.bit
    <3>1. PICK b \in D[w] : /\ x >= 64 * w + b /\ b \in 0 .. 63
                            /\ (w = t.word => b >= s)
      BY <1>10, <2>10
    <3>2. b >= r
      BY <3>1
    <3>3. c <= b
      BY <2>3, <3>2
    <3>4. x \in Int
      BY <1>4, SetBitsAre
    <3>5. QED
      BY <2>2, <2>4, <2>6, <3>1, <3>3, <3>4
  <2>11. n.word # Words
    BY <1>12, <2>6
  <2> HIDE DEF w, r
  <2>12. QED
    BY <1>9, <2>6, <2>7, <2>8, <2>9, <2>10, <2>11 DEF OneFurther, D, n
<1>13. QED
  BY <1>11, <1>12

-----------------------------------------------------------------------------
(* The calls.                                                              *)
WordsInv ==
  /\ data \in [Vectors -> [Places -> SUBSET Bits]] /\ changed \in BOOLEAN
  /\ \A v \in Vectors : WholeWords(data[v])

(* An iterator at work has met the bits up to where it stands.             *)
Walked(t, m, D) ==
  IF Done(t) THEN m = SetBits(D)
  ELSE Stands(t, D) /\ m = {x \in SetBits(D) : x <= t.bit}

WalkInv ==
  /\ walk \in Walks
  /\ \/ walk = Idle /\ met = {}
     \/ \E v \in Vectors : walk.on = {v} /\ Walked(walk, met, data[v])

IInv == WordsInv /\ WalkInv

LEMMA MembersAreOf ==
  ASSUME NEW v \in Vectors
  PROVE  Members[v] = MembersOf(data[v])
  BY DEF Members, MembersOf, In, Contains

LEMMA MembersBecome ==
  ASSUME WordsInv, NEW v \in Vectors, NEW E, data' = [data EXCEPT ![v] = E], WholeWords(E)
  PROVE  /\ data' \in [Vectors -> [Places -> SUBSET Bits]]
         /\ \A w \in Vectors : WholeWords(data'[w])
         /\ Members' = [Members EXCEPT ![v] = MembersOf(E)]
<1>1. /\ data'[v] = E /\ \A w \in Vectors \ {v} : data'[w] = data[w]
      /\ data' \in [Vectors -> [Places -> SUBSET Bits]]
  BY DEF WordsInv, WholeWords
<1>2. \A w \in Vectors : WholeWords(data'[w])
  BY <1>1 DEF WordsInv
<1>3. \A w \in Vectors : Members[w] = MembersOf(data[w])
  BY MembersAreOf
<1>4. \A w \in Vectors : Members'[w] = MembersOf(data'[w])
  BY DEF Members, MembersOf, In, Contains
<1>5. \A w \in Vectors : Members'[w] = IF w = v THEN MembersOf(E) ELSE Members[w]
  BY <1>1, <1>3, <1>4
<1>6. Members' = [w \in Vectors |-> Members'[w]] /\ Members = [w \in Vectors |-> Members[w]]
  BY DEF Members
<1>7. Members' = [Members EXCEPT ![v] = MembersOf(E)]
  <2>1. [Members EXCEPT ![v] = MembersOf(E)] =
          [w \in Vectors |-> IF w = v THEN MembersOf(E) ELSE Members[w]]
    BY <1>6
  <2>2. [w \in Vectors |-> Members'[w]] =
          [w \in Vectors |-> IF w = v THEN MembersOf(E) ELSE Members[w]]
    BY <1>5
  <2>3. QED
    BY <1>6, <2>1, <2>2
<1>8. QED
  BY <1>1, <1>2, <1>7

(* A walk is not disturbed by what happens to another vector.              *)
LEMMA WalkStays ==
  ASSUME WalkInv, NEW v \in Vectors, Free(v), NEW E, data' = [data EXCEPT ![v] = E],
         UNCHANGED <<walk, met>>
  PROVE  WalkInv'
<1>1. CASE walk = Idle /\ met = {}
  BY <1>1 DEF WalkInv, Idle
<1>2. ASSUME NEW w \in Vectors, walk.on = {w}, Walked(walk, met, data[w])
      PROVE  WalkInv'
  <2>1. w # v
    BY <1>2 DEF Free
  <2>2. data'[w] = data[w]
    BY <2>1
  <2>3. walk'.on = {w} /\ Walked(walk', met', data'[w])
    BY <1>2, <2>2
  <2>4. QED
    BY <2>3 DEF WalkInv
<1>3. QED
  BY <1>1, <1>2 DEF WalkInv

(* What a call does to the words: one vector becomes whole words whose     *)
(* members are S, and no walk is over it.                                  *)
Becomes(v, S) == /\ WordsInv' /\ WalkInv'
                 /\ Members' = [Members EXCEPT ![v] = S]

LEMMA CallBecomes ==
  ASSUME IInv, NEW v \in Vectors, Free(v), NEW E, data' = [data EXCEPT ![v] = E],
         WholeWords(E), UNCHANGED <<walk, met>>, changed' \in BOOLEAN
  PROVE  Becomes(v, MembersOf(E))
<1>1. WordsInv /\ WalkInv
  BY DEF IInv
<1>2. WalkInv'
  BY <1>1, WalkStays
<1>3. QED
  BY <1>1, <1>2, MembersBecome DEF Becomes, WordsInv

LEMMA ClearIs ==
  ASSUME IInv, NEW v \in Vectors, Clear(v)
  PROVE  Becomes(v, {}) /\ changed' = changed
<1> DEFINE E == [k \in Places |-> {}]
<1>1. WholeWords(E) /\ MembersOf(E) = {}
  BY ClearedWords
<1> HIDE DEF E
<1>2. data' = [data EXCEPT ![v] = E] /\ Free(v) /\ UNCHANGED <<changed, walk, met>>
  BY DEF Clear, E
<1>3. changed' \in BOOLEAN
  BY <1>2 DEF IInv, WordsInv
<1>4. Becomes(v, MembersOf(E))
  BY <1>1, <1>2, <1>3, CallBecomes
<1>5. QED
  BY <1>1, <1>2, <1>4

LEMMA AddIs ==
  ASSUME IInv, NEW v \in Vectors, NEW i \in Indices, Add(v, i)
  PROVE  Becomes(v, Members[v] \cup {Class(i)}) /\ changed' = changed
<1> DEFINE E == [data[v] EXCEPT ![WordOf(i)] = @ \cup Mask(i)]
<1>1. WholeWords(data[v]) /\ data \in [Vectors -> [Places -> SUBSET Bits]]
  BY DEF IInv, WordsInv
<1>2. E = [data[v] EXCEPT ![WordOf(i)] = @ \cup Mask(i)]
  OBVIOUS
<1>3. data' = [data EXCEPT ![v] = E] /\ Free(v) /\ UNCHANGED <<changed, walk, met>>
  BY <1>1 DEF Add
<1> HIDE DEF E
<1>4. WholeWords(E) /\ MembersOf(E) = MembersOf(data[v]) \cup {Class(i)}
  BY <1>1, <1>2, AddedWords
<1>5. changed' \in BOOLEAN
  BY <1>3 DEF IInv, WordsInv
<1>6. Becomes(v, MembersOf(E))
  BY <1>3, <1>4, <1>5, CallBecomes
<1>7. QED
  BY <1>3, <1>4, <1>6, MembersAreOf

LEMMA RemoveIs ==
  ASSUME IInv, NEW v \in Vectors, NEW i \in Indices, Remove(v, i)
  PROVE  Becomes(v, Members[v] \ {Class(i)}) /\ changed' = changed
<1> DEFINE E == [data[v] EXCEPT ![WordOf(i)] = @ \ Mask(i)]
<1>1. WholeWords(data[v]) /\ data \in [Vectors -> [Places -> SUBSET Bits]]
  BY DEF IInv, WordsInv
<1>2. E = [data[v] EXCEPT ![WordOf(i)] = @ \ Mask(i)]
  OBVIOUS
<1>3. data' = [data EXCEPT ![v] = E] /\ Free(v) /\ UNCHANGED <<changed, walk, met>>
  BY <1>1 DEF Remove
<1> HIDE DEF E
<1>4. WholeWords(E) /\ MembersOf(E) = MembersOf(data[v]) \ {Class(i)}
  BY <1>1, <1>2, RemovedWords
<1>5. changed' \in BOOLEAN
  BY <1>3 DEF IInv, WordsInv
<1>6. Becomes(v, MembersOf(E))
  BY <1>3, <1>4, <1>5, CallBecomes
<1>7. QED
  BY <1>3, <1>4, <1>6, MembersAreOf

LEMMA IntersectIs ==
  ASSUME IInv, NEW v \in Vectors, NEW w \in Vectors, Intersect(v, w)
  PROVE  Becomes(v, Members[v] \cap Members[w]) /\ changed' = changed
<1> DEFINE E == [k \in Places |-> data[v][k] \cap data[w][k]]
<1>1. /\ WholeWords(data[v]) /\ WholeWords(data[w])
      /\ data \in [Vectors -> [Places -> SUBSET Bits]]
  BY DEF IInv, WordsInv
<1>2. data' = [data EXCEPT ![v] = E] /\ Free(v) /\ UNCHANGED <<changed, walk, met>>
  BY <1>1 DEF Intersect
<1>3. WholeWords(E) /\ MembersOf(E) = MembersOf(data[v]) \cap MembersOf(data[w])
  BY <1>1, MetWords
<1> HIDE DEF E
<1>4. changed' \in BOOLEAN
  BY <1>2 DEF IInv, WordsInv
<1>5. Becomes(v, MembersOf(E))
  BY <1>2, <1>3, <1>4, CallBecomes
<1>6. QED
  BY <1>2, <1>3, <1>5, MembersAreOf

(* The two calls that report: they say whether the members grew.           *)
LEMMA GrowIs ==
  ASSUME IInv, NEW v \in Vectors, Free(v), NEW gain, WholeWords(gain), Grow(v, gain),
         UNCHANGED <<walk, met>>
  PROVE  /\ Becomes(v, Members[v] \cup MembersOf(gain))
         /\ changed' = ~(MembersOf(gain) \subseteq Members[v])
<1> DEFINE E == [k \in Places |-> data[v][k] \cup gain[k]]
<1>1. WholeWords(data[v]) /\ data \in [Vectors -> [Places -> SUBSET Bits]]
  BY DEF IInv, WordsInv
<1>2. /\ data' = [data EXCEPT ![v] = E]
      /\ changed' = ~(\A k \in Places : gain[k] \subseteq data[v][k])
  <2>1. changed' = \E k \in Places : ~(gain[k] \subseteq data[v][k])
    BY DEF Grow
  <2>2. (\E k \in Places : ~(gain[k] \subseteq data[v][k]))
          = ~(\A k \in Places : gain[k] \subseteq data[v][k])
    OBVIOUS
  <2>3. QED
    BY <1>1, <2>1, <2>2 DEF Grow
<1>3. WholeWords(E) /\ MembersOf(E) = MembersOf(data[v]) \cup MembersOf(gain)
  BY <1>1, JoinedWords
<1> HIDE DEF E
<1>4. (\A k \in Places : gain[k] \subseteq data[v][k]) <=> MembersOf(gain) \subseteq MembersOf(data[v])
  BY <1>1, MembersCompare
<1>5. changed' \in BOOLEAN /\ changed' = ~(MembersOf(gain) \subseteq MembersOf(data[v]))
  BY <1>2, <1>4
<1>6. Becomes(v, MembersOf(E))
  BY <1>2, <1>3, <1>5, CallBecomes
<1>7. QED
  BY <1>3, <1>5, <1>6, MembersAreOf

LEMMA AddAllIs ==
  ASSUME IInv, NEW v \in Vectors, NEW w \in Vectors, AddAll(v, w)
  PROVE  /\ Becomes(v, Members[v] \cup Members[w])
         /\ changed' = ~(Members[w] \subseteq Members[v])
<1>1. WholeWords(data[w]) /\ Free(v) /\ Grow(v, data[w]) /\ UNCHANGED <<walk, met>>
  BY DEF IInv, WordsInv, AddAll
<1>2. /\ Becomes(v, Members[v] \cup MembersOf(data[w]))
      /\ changed' = ~(MembersOf(data[w]) \subseteq Members[v])
  BY <1>1, GrowIs
<1>3. QED
  BY <1>2, MembersAreOf

LEMMA KillAndAddIs ==
  ASSUME IInv, NEW v \in Vectors, NEW kill \in Vectors, NEW gen \in Vectors,
         KillAndAdd(v, kill, gen)
  PROVE  /\ Becomes(v, Members[v] \cup (Members[gen] \ Members[kill]))
         /\ changed' = ~((Members[gen] \ Members[kill]) \subseteq Members[v])
<1> DEFINE gain == [k \in Places |-> data[gen][k] \ data[kill][k]]
<1>1. WholeWords(data[gen]) /\ WholeWords(data[kill])
  BY DEF IInv, WordsInv
<1>2. Free(v) /\ Grow(v, gain) /\ UNCHANGED <<walk, met>>
  BY DEF KillAndAdd
<1>3. WholeWords(gain) /\ MembersOf(gain) = MembersOf(data[gen]) \ MembersOf(data[kill])
  BY <1>1, LeftWords
<1> HIDE DEF gain
<1>4. /\ Becomes(v, Members[v] \cup MembersOf(gain))
      /\ changed' = ~(MembersOf(gain) \subseteq Members[v])
  BY <1>2, <1>3, GrowIs
<1>5. QED
  BY <1>3, <1>4, MembersAreOf

(* The walk's steps.                                                       *)
LEMMA WalkedFurther ==
  ASSUME NEW D \in [Places -> SUBSET Bits], NEW t \in Walks, NEW n, OneFurther(t, n, D),
         NEW m, m = {x \in SetBits(D) : x <= t.bit}
  PROVE  Walked(n, IF Done(n) THEN m ELSE m \cup {n.bit}, D)
<1>1. n \in Walks /\ n.word \in 0 .. Words /\ n.bit \in Int /\ t.bit \in Int /\ Words \in Nat
  BY WordsAssumption DEF OneFurther, Walks
<1>2. Done(n) <=> n.word = Words
  BY <1>1 DEF Done
<1>3. \A x \in SetBits(D) : x \in Int
  BY SetBitsAre
<1>4. CASE n.word = Words
  <2>1. m = SetBits(D)
    BY <1>4 DEF OneFurther
  <2>2. QED
    BY <1>2, <1>4, <2>1 DEF Walked
<1>5. CASE n.word # Words
  <2>1. /\ Stands(n, D) /\ n.bit \in SetBits(D) /\ n.bit > t.bit
        /\ \A x \in SetBits(D) : x > t.bit => x >= n.bit
    BY <1>5 DEF OneFurther
  <2>2. ASSUME NEW x \in SetBits(D) PROVE x <= n.bit <=> x <= t.bit \/ x = n.bit
    BY <1>1, <1>3, <2>1
  <2>3. m \cup {n.bit} = {x \in SetBits(D) : x <= n.bit}
    BY <2>1, <2>2
  <2>4. QED
    BY <1>2, <1>5, <2>1, <2>3 DEF Walked
<1>6. QED
  BY <1>4, <1>5

LEMMA IdleWalks == Idle \in Walks
  BY WordsAssumption DEF Idle, Walks

LEMMA NewIteratorIs ==
  ASSUME IInv, NEW v \in Vectors, NewIterator(v)
  PROVE  IInv' /\ Members' = Members
<1> DEFINE D == data[v]
           t == [Idle EXCEPT !.on = {v}, !.rest = data[v][0]]
<1>1. /\ D \in [Places -> SUBSET Bits] /\ walk' = Advanced(t, v) /\ data' = data
      /\ changed' = changed /\ met' = IF Done(walk') THEN {} ELSE {walk'.bit}
  BY DEF IInv, WordsInv, NewIterator
<1>2. 0 \in Places /\ 0 \in 0 .. Words /\ -1 \in Int /\ 0 \in 0 .. 64
  BY WordsAssumption DEF Places
<1>3. Idle.bit = -1 /\ Idle.word = 0
  BY DEF Idle
<1>4. D[0] \in SUBSET Bits
  BY <1>1, <1>2
<1>5. t \in Walks /\ t.bit = -1 /\ t.word = 0 /\ t.rest = D[0] /\ t.on = {v}
  BY <1>3, <1>4, IdleWalks DEF Walks
<1> HIDE DEF t
<1>6. Stands(t, D)
  <2> DEFINE u == [t EXCEPT !.bit = @ + 1]
  <2>1. u.bit = 0 /\ u.word = 0 /\ u.rest = D[0]
    BY <1>5 DEF Walks
  <2>2. D[0] = Behind(D, 0, 0)
    BY <1>1, <1>2, BehindNothing
  <2>3. LooksFrom(u, D, 0)
    BY <1>2, <2>1, <2>2 DEF LooksFrom
  <2>4. QED
    BY <1>2, <2>3 DEF Stands
<1>7. OneFurther(t, walk', D)
  BY <1>1, <1>5, <1>6, AdvancedIsFurther
<1>8. {} = {x \in SetBits(D) : x <= t.bit}
  <2>1. \A x \in SetBits(D) : ~(x <= -1)
    BY <1>1, SetBitsAre
  <2>2. QED
    BY <1>5, <2>1
<1>9. Walked(walk', IF Done(walk') THEN {} ELSE {} \cup {walk'.bit}, D)
  BY <1>1, <1>5, <1>7, <1>8, WalkedFurther
<1>10. Walked(walk', met', data'[v])
  BY <1>1, <1>9
<1>11. walk' \in Walks /\ walk'.on = {v}
  BY <1>5, <1>7 DEF OneFurther
<1>12. WalkInv'
  BY <1>10, <1>11 DEF WalkInv
<1>13. WordsInv' /\ Members' = Members
  BY <1>1 DEF IInv, WordsInv, Members, Contains
<1>14. QED
  BY <1>12, <1>13 DEF IInv

LEMMA AdvanceIs ==
  ASSUME IInv, NEW v \in Vectors, Advance(v)
  PROVE  IInv' /\ Members' = Members
<1> DEFINE D == data[v]
<1>1. /\ D \in [Places -> SUBSET Bits] /\ walk' = Advanced(walk, v) /\ data' = data
      /\ changed' = changed /\ met' = IF Done(walk') THEN met ELSE met \cup {walk'.bit}
      /\ walk.on = {v} /\ ~Done(walk) /\ walk \in Walks
  BY DEF IInv, WordsInv, WalkInv, Advance
<1>2. PICK w \in Vectors : walk.on = {w} /\ Walked(walk, met, data[w])
  <2>1. walk # Idle
    BY <1>1 DEF Idle
  <2>2. QED
    BY <2>1 DEF IInv, WalkInv
<1>3. Stands(walk, D) /\ met = {x \in SetBits(D) : x <= walk.bit}
  BY <1>1, <1>2 DEF Walked
<1>4. OneFurther(walk, walk', D)
  BY <1>1, <1>3, AdvancedIsFurther
<1>5. Walked(walk', met', data'[v])
  BY <1>1, <1>3, <1>4, WalkedFurther
<1>6. walk' \in Walks /\ walk'.on = {v}
  BY <1>1, <1>4 DEF OneFurther
<1>7. WalkInv'
  BY <1>5, <1>6 DEF WalkInv
<1>8. WordsInv' /\ Members' = Members
  BY <1>1 DEF IInv, WordsInv, Members, Contains
<1>9. QED
  BY <1>7, <1>8 DEF IInv

LEMMA LeaveLoopIs ==
  ASSUME IInv, LeaveLoop
  PROVE  IInv' /\ Members' = Members
<1>1. WordsInv' /\ Members' = Members
  BY DEF IInv, WordsInv, Members, Contains, LeaveLoop
<1>2. WalkInv'
  BY IdleWalks DEF LeaveLoop, WalkInv
<1>3. QED
  BY <1>1, <1>2 DEF IInv

-----------------------------------------------------------------------------
LEMMA InitIInv == Init => IInv
<1> SUFFICES ASSUME Init PROVE IInv
  OBVIOUS
<1>1. WholeWords([k \in Places |-> {}])
  BY ClearedWords
<1>2. WordsInv
  BY <1>1 DEF Init, WordsInv
<1>3. WalkInv
  BY IdleWalks DEF Init, WalkInv
<1>4. QED
  BY <1>2, <1>3 DEF IInv

(* Every step is a call on the sets, or leaves them alone.                 *)
LEMMA StepIs ==
  ASSUME IInv, [Next]_vars
  PROVE  IInv' /\ [Sets!AbsNext]_<<Members, changed>>
<1>1. ASSUME NEW v \in Vectors, NEW S, Becomes(v, S) PROVE IInv'
  BY <1>1 DEF Becomes, IInv
<1>2. ASSUME NEW v \in Vectors, Clear(v) PROVE IInv' /\ Sets!AbsNext
  <2>1. Becomes(v, {}) /\ changed' = changed
    BY <1>2, ClearIs
  <2>2. Sets!Cleared(v)
    BY <2>1 DEF Becomes, Sets!Cleared, Sets!Become
  <2>3. QED
    BY <1>1, <2>1, <2>2 DEF Sets!AbsNext
<1>3. ASSUME NEW v \in Vectors, NEW i \in Indices, Add(v, i) PROVE IInv' /\ Sets!AbsNext
  <2>1. Becomes(v, Members[v] \cup {Class(i)}) /\ changed' = changed /\ Class(i) \in Classes
    BY <1>3, AddIs, SameMask
  <2>2. Sets!Added(v, Class(i))
    BY <2>1 DEF Becomes, Sets!Added, Sets!Become
  <2>3. QED
    BY <1>1, <2>1, <2>2 DEF Sets!AbsNext
<1>4. ASSUME NEW v \in Vectors, NEW i \in Indices, Remove(v, i) PROVE IInv' /\ Sets!AbsNext
  <2>1. Becomes(v, Members[v] \ {Class(i)}) /\ changed' = changed /\ Class(i) \in Classes
    BY <1>4, RemoveIs, SameMask
  <2>2. Sets!Removed(v, Class(i))
    BY <2>1 DEF Becomes, Sets!Removed, Sets!Become
  <2>3. QED
    BY <1>1, <2>1, <2>2 DEF Sets!AbsNext
<1>5. ASSUME NEW v \in Vectors, NEW w \in Vectors, Intersect(v, w)
      PROVE  IInv' /\ Sets!AbsNext
  <2>1. Becomes(v, Members[v] \cap Members[w]) /\ changed' = changed
    BY <1>5, IntersectIs
  <2>2. Sets!Intersected(v, w)
    BY <2>1 DEF Becomes, Sets!Intersected, Sets!Become
  <2>3. QED
    BY <1>1, <2>1, <2>2 DEF Sets!AbsNext
<1>6. ASSUME NEW v \in Vectors, NEW w \in Vectors, AddAll(v, w)
      PROVE  IInv' /\ Sets!AbsNext
  <2>1. /\ Becomes(v, Members[v] \cup Members[w])
        /\ changed' = ~(Members[w] \subseteq Members[v])
    BY <1>6, AddAllIs
  <2>2. Sets!Grown(v, Members[w])
    BY <2>1 DEF Becomes, Sets!Grown, Sets!Become
  <2>3. QED
    BY <1>1, <2>1, <2>2 DEF Sets!AbsNext
<1>7. ASSUME NEW v \in Vectors, NEW kill \in Vectors, NEW gen \in Vectors,
             KillAndAdd(v, kill, gen)
      PROVE  IInv' /\ Sets!AbsNext
  <2>1. /\ Becomes(v, Members[v] \cup (Members[gen] \ Members[kill]))
        /\ changed' = ~((Members[gen] \ Members[kill]) \subseteq Members[v])
    BY <1>7, KillAndAddIs
  <2>2. Sets!Grown(v, Members[gen] \ Members[kill])
    BY <2>1 DEF Becomes, Sets!Grown, Sets!Become
  <2>3. QED
    BY <1>1, <2>1, <2>2 DEF Sets!AbsNext
<1>8. ASSUME NEW v \in Vectors, NewIterator(v) PROVE IInv' /\ UNCHANGED <<Members, changed>>
  BY <1>8, NewIteratorIs DEF NewIterator
<1>9. ASSUME NEW v \in Vectors, Advance(v) PROVE IInv' /\ UNCHANGED <<Members, changed>>
  BY <1>9, AdvanceIs DEF Advance
<1>10. ASSUME LeaveLoop PROVE IInv' /\ UNCHANGED <<Members, changed>>
  BY <1>10, LeaveLoopIs DEF LeaveLoop
<1>11. ASSUME UNCHANGED vars PROVE IInv' /\ UNCHANGED <<Members, changed>>
  BY <1>11 DEF vars, IInv, WordsInv, WalkInv, Members, Contains
<1>12. QED
  BY <1>2, <1>3, <1>4, <1>5, <1>6, <1>7, <1>8, <1>9, <1>10, <1>11 DEF Next

LEMMA IInvIsKept == Spec => []IInv
<1>1. IInv /\ [Next]_vars => IInv'
  BY StepIs
<1>2. QED
  BY InitIInv, <1>1, PTL DEF Spec

LEMMA IInvGivesInv == IInv => BitVectorInv
<1> SUFFICES ASSUME IInv PROVE BitVectorInv
  OBVIOUS
<1>1. TypeOK
  BY DEF IInv, WordsInv, WalkInv, Walks, TypeOK
<1>2. ASSUME NEW v \in Vectors
      PROVE  /\ SetBits(data[v]) = BitsOf(Members[v])
             /\ UNION {{kBitsPerWord * k + b : b \in data[v][k]} : k \in Places}
                  = BitsOf(Members[v])
  <2>1. WholeWords(data[v])
    BY DEF IInv, WordsInv
  <2>2. UNION {{kBitsPerWord * k + b : b \in data[v][k]} : k \in Places}
          = BitsOf(MembersOf(data[v]))
    BY <2>1, BitsAre
  <2>3. QED
    BY <2>2, MembersAreOf DEF SetBits
<1>3. BitsAreMembers
  BY <1>2 DEF BitsAreMembers
<1>4. WalkMeetsMembers
  <2>1. CASE walk = Idle
    BY <2>1 DEF Idle, WalkMeetsMembers
  <2>2. ASSUME NEW v \in Vectors, walk.on = {v}, Walked(walk, met, data[v])
        PROVE  WalkMeetsMembers
    BY <1>2, <2>2 DEF Walked, WalkMeetsMembers
  <2>3. QED
    BY <2>1, <2>2 DEF IInv, WalkInv
<1>5. QED
  BY <1>1, <1>3, <1>4 DEF BitVectorInv

(* For any vectors and indices, in whatever order they are used: the words *)
(* hold whole masks, and a walk meets each set bit once and in order, also *)
(* across empty words and at the last one.                                 *)
THEOREM VectorsCorrect == Spec => []BitVectorInv
<1>1. QED
  BY IInvIsKept, IInvGivesInv, PTL

(* The calls are those of sets of classes, and the result of the two that  *)
(* grow a vector is exact: the liveness iteration may stop on it.          *)
THEOREM VectorsImplementSets == Spec => ImplementsBitSets
<1>1. Init => Sets!AbsInit
  <2> SUFFICES ASSUME Init PROVE Sets!AbsInit
    OBVIOUS
  <2>1. \A v \in Vectors : Members[v] = {}
    <3> SUFFICES ASSUME NEW v \in Vectors PROVE Members[v] = {}
      OBVIOUS
    <3>1. data[v] = [k \in Places |-> {}]
      BY DEF Init
    <3>2. QED
      BY <3>1, MembersAreOf, ClearedWords
  <2>2. Members = [v \in Vectors |-> Members[v]]
    BY DEF Members
  <2>3. Members = [v \in Vectors |-> {}]
    BY <2>1, <2>2
  <2>4. QED
    BY <2>3 DEF Init, Sets!AbsInit
<1>2. IInv /\ [Next]_vars => [Sets!AbsNext]_<<Members, changed>>
  BY StepIs
<1>3. QED
  BY <1>1, <1>2, IInvIsKept, PTL DEF Spec, ImplementsBitSets, Sets!AbsSpec
=============================================================================
