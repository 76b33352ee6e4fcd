--------------------------- MODULE LocationProofs ---------------------------
(***************************************************************************)
(* For a field of stack indices of any size, any registers, slots, objects *)
(* and outcomes of the bias: locations that mean different things are      *)
(* different words, and read back as what they were set to.                *)
(***************************************************************************)
EXTENDS Location, TLAPS

-----------------------------------------------------------------------------
(* Words and fields.                                                       *)
Multiplied(n, q, r) == n * q + r

LEMMA DivisionIsUnique ==
  ASSUME NEW n \in Nat \ {0}, NEW q \in Int, NEW r \in Int, 0 <= r, r < n
  PROVE  Multiplied(n, q, r) % n = r /\ Multiplied(n, q, r) \div n = q
<1> DEFINE x == n * q + r
           d == x \div n
           m == x % n
<1>1. x \in Int /\ d \in Int /\ m \in Int /\ x = n * d + m /\ 0 <= m /\ m < n
  OBVIOUS
<1> HIDE DEF d, m
<1>2. n * (d - q) = r - m
  BY <1>1
<1>3. d - q < 1
  <2>1. SUFFICES ASSUME d - q >= 1 PROVE FALSE
    BY <1>1
  <2>2. n * (d - q) >= n
    BY <1>1, <2>1
  <2>3. QED
    BY <1>1, <1>2, <2>2
<1>4. d - q > -1
  <2>1. SUFFICES ASSUME d - q <= -1 PROVE FALSE
    BY <1>1
  <2>2. n * (d - q) <= -n
    BY <1>1, <2>1
  <2>3. QED
    BY <1>1, <1>2, <2>2
<1>5. d = q
  BY <1>1, <1>3, <1>4
<1>6. QED
  BY <1>1, <1>5 DEF d, m, Multiplied

(* Multiplying out the sizes of the fields.                                *)
LEMMA Sizes ==
  /\ StackIndices \in Nat /\ StackIndices > 0
  /\ Payloads = 32 * StackIndices /\ Words = 512 * StackIndices
BY LocationAssumption DEF Payloads, Words, Kinds, BaseRegs

(* The kind and the base register take the lower nine bits.                *)
WithIndex(low, index) == low + 512 * index

(* The lower nine bits stay, and of what is above them what fits.          *)
LEMMA ShiftedOut ==
  ASSUME NEW r \in 0 .. 511, NEW n \in Int
  PROVE  WithIndex(r, n) % Words = WithIndex(r, n % StackIndices)
<1> DEFINE d == n \div StackIndices
           m == n % StackIndices
<1>1. d \in Int /\ m \in Int /\ n = StackIndices * d + m /\ 0 <= m /\ m < StackIndices
  BY Sizes
<1> HIDE DEF d, m
<1>2. PICK low \in Int : low = r + 512 * m /\ 0 <= low /\ low < Words
  BY <1>1, Sizes
<1>3. (Words * d + low) % Words = low
  <2>1. PICK w \in Nat \ {0} : w = Words
    BY Sizes
  <2>2. d \in Int /\ low \in Int /\ 0 <= low /\ low < w
    BY <1>1, <1>2, <2>1
  <2>3. Multiplied(w, d, low) % w = low
    BY <2>2, DivisionIsUnique
  <2>4. QED
    BY <2>1, <2>3 DEF Multiplied
<1>4. Words * d + low = r + 512 * n
  <2>1. Words * d = 512 * (StackIndices * d)
    BY <1>1, Sizes
  <2>2. PICK e \in Int : e = StackIndices * d
    BY <1>1, Sizes
  <2>3. n = e + m /\ Words * d = 512 * e
    BY <1>1, <2>1, <2>2
  <2>4. QED
    BY <1>1, <1>2, <2>2, <2>3
<1>5. QED
  BY <1>2, <1>3, <1>4 DEF m, WithIndex

(* A word is read by its fields.                                           *)
LEMMA Fields ==
  ASSUME NEW kind \in 0 .. 15, NEW p \in 0 .. Payloads - 1
  PROVE  /\ Kind(kind + 16 * p) = kind /\ Payload(kind + 16 * p) = p
         /\ (kind + 16 * p) % 4 = kind % 4
<1>1. p \in Nat /\ Payloads \in Nat \ {0} /\ p < Payloads
  BY Sizes
<1>2. (kind + 16 * p) \div 16 = p /\ (kind + 16 * p) % 16 = kind /\ (kind + 16 * p) \div 1 = kind + 16 * p
  BY <1>1
<1>3. p % Payloads = p
  BY <1>1, DivisionIsUnique
<1>4. (kind + 16 * p) % 4 = kind % 4
  BY <1>1
<1>5. QED
  BY <1>2, <1>3, <1>4 DEF Kind, Payload, Decode, Kinds

-----------------------------------------------------------------------------
(* The words of the meanings.                                              *)
IsSlot(m) == m[1] \in {"stack_slot", "double_stack_slot"}
StackIndex(slot) == (bias + slot) % StackIndices

LEMMA KindsAre ==
  /\ kinds.invalid = 0 /\ kinds.constant = 1 /\ kinds.unallocated = 3 /\ kinds.stack_slot = 4
  /\ kinds.double_stack_slot = 7 /\ kinds.register = 8 /\ kinds.fpu_register = 12
  /\ kinds["invalid"] = 0 /\ kinds["constant"] = 1 /\ kinds["unallocated"] = 3 /\ kinds["stack_slot"] = 4
  /\ kinds["double_stack_slot"] = 7 /\ kinds["register"] = 8 /\ kinds["fpu_register"] = 12
BY DEF kinds

LEMMA PoliciesAre ==
  /\ DOMAIN policies = {"any", "prefers_register", "requires_register", "requires_fpu_register", "same_as_first_input"}
  /\ policies["any"] = 1 /\ policies["prefers_register"] = 2 /\ policies["requires_register"] = 4
  /\ policies["requires_fpu_register"] = 8 /\ policies["same_as_first_input"] = 16
BY DEF policies

(* What a location can mean, and its word.                                 *)
LEMMA WordsOfMeanings ==
  ASSUME bias \in Int, NEW m \in Meanings
  PROVE  \/ m = <<"invalid", 0>> /\ WordOf(m) = 0
         \/ \E o \in Objects : m = <<"constant", o>> /\ WordOf(m) = o + 1
         \/ \E p \in DOMAIN policies : m = <<"unallocated", p>> /\ WordOf(m) = 3 + 16 * policies[p]
         \/ \E kind \in {"stack_slot", "double_stack_slot"}, base \in 0 .. 15, slot \in Slots :
              m = <<kind, <<base, slot>>>> /\ WordOf(m) = kinds[kind] + 16 * (base + 32 * StackIndex(slot))
         \/ \E kind \in {"register", "fpu_register"}, r \in Registers :
              m = <<kind, r>> /\ WordOf(m) = kinds[kind] + 16 * r
<1>1. CASE m \in {"invalid"} \X {0}
  <2>1. m = <<"invalid", 0>>
    BY <1>1
  <2>2. QED
    BY <2>1 DEF WordOf
<1>2. CASE m \in {"constant"} \X Objects
  <2>1. PICK o \in Objects : m = <<"constant", o>>
    BY <1>2
  <2>2. WordOf(m) = o + 1
    BY <2>1, KindsAre DEF WordOf
  <2>3. QED
    BY <2>1, <2>2
<1>3. CASE m \in {"unallocated"} \X DOMAIN policies
  <2>1. PICK p \in DOMAIN policies : m = <<"unallocated", p>>
    BY <1>3
  <2>2. PICK policy \in 1 .. 16 : policy = policies[p]
    BY PoliciesAre
  <2>3. WordOf(m) = (3 + 16 * policy) % Words
    BY <2>1, <2>2, KindsAre DEF WordOf, Allocated, Kinds
  <2>4. (3 + 16 * policy) % Words = 3 + 16 * policy
    BY Sizes, DivisionIsUnique
  <2>5. QED
    BY <2>1, <2>2, <2>3, <2>4
<1>4. CASE m \in ({"stack_slot"} \X (Registers \X Slots)) \cup ({"double_stack_slot"} \X ({FPREG} \X Slots))
  <2>1. PICK kind \in {"stack_slot", "double_stack_slot"}, base \in 0 .. 15, slot \in Slots : m = <<kind, <<base, slot>>>>
    <3>1. CASE m \in {"stack_slot"} \X (Registers \X Slots)
      <4>1. PICK base \in Registers, slot \in Slots : m = <<"stack_slot", <<base, slot>>>>
        BY <3>1
      <4>2. QED
        BY <4>1, LocationAssumption
    <3>2. CASE m \in {"double_stack_slot"} \X ({FPREG} \X Slots)
      <4>1. PICK slot \in Slots : m = <<"double_stack_slot", <<FPREG, slot>>>>
        BY <3>2
      <4>2. QED
        BY <4>1 DEF FPREG
    <3>3. QED
      BY <1>4, <3>1, <3>2
  <2>2. PICK k \in {4, 7} : k = kinds[kind]
    BY KindsAre
  <2>3. slot \in Int
    BY LocationAssumption
  <2>4. PICK n \in Int : n = bias + slot
    BY <2>3
  <2>5. WordOf(m) = (k + 16 * (base + 32 * n)) % Words
    BY <2>1, <2>2, <2>4 DEF WordOf, Allocated, StackPayload, Kinds, BaseRegs
  <2>6. PICK low \in 0 .. 511 : low = k + 16 * base
    OBVIOUS
  <2>7. WordOf(m) = low + 512 * (n % StackIndices)
    <3>1. k + 16 * (base + 32 * n) = low + 512 * n
      BY <2>6
    <3>2. WithIndex(low, n) % Words = WithIndex(low, n % StackIndices)
      BY ShiftedOut
    <3>3. QED
      BY <2>5, <3>1, <3>2 DEF WithIndex
  <2>8. n % StackIndices \in Int
    BY Sizes
  <2>9. WordOf(m) = k + 16 * (base + 32 * (n % StackIndices))
    BY <2>6, <2>7, <2>8
  <2>10. QED
    BY <2>1, <2>2, <2>4, <2>9 DEF StackIndex
<1>5. CASE m \in {"register", "fpu_register"} \X Registers
  <2>1. PICK kind \in {"register", "fpu_register"}, r \in Registers : m = <<kind, r>>
    BY <1>5
  <2>2. PICK k \in {8, 12} : k = kinds[kind]
    BY KindsAre
  <2>3. r \in 0 .. 15
    BY LocationAssumption
  <2>4. WordOf(m) = (k + 16 * r) % Words
    BY <2>1, <2>2 DEF WordOf, Allocated, Kinds
  <2>5. (k + 16 * r) % Words = k + 16 * r
    BY <2>3, Sizes, DivisionIsUnique
  <2>6. QED
    BY <2>1, <2>2, <2>4, <2>5
<1>6. QED
  BY <1>1, <1>2, <1>3, <1>4, <1>5 DEF Meanings

(* The index of a slot, and the slot that is meant by one.                 *)
LEMMA IndexOfSlot ==
  ASSUME bias \in Int, NEW slot \in Slots
  PROVE  /\ StackIndex(slot) \in 0 .. StackIndices - 1
         /\ (StackIndex(slot) - bias - slot) % StackIndices = 0
<1>1. slot \in Int
  BY LocationAssumption
<1>2. PICK n \in Int : n = bias + slot
  BY <1>1
<1>3. PICK d \in Int, m \in Int : d = n \div StackIndices /\ m = n % StackIndices
  BY Sizes
<1>4. n = StackIndices * d + m /\ 0 <= m /\ m < StackIndices
  BY <1>3, Sizes
<1>5. m - bias - slot = StackIndices * (-d)
  BY <1>1, <1>2, <1>3, <1>4, Sizes
<1>6. Multiplied(StackIndices, -d, 0) % StackIndices = 0
  <2>1. PICK e \in Int : e = -d
    OBVIOUS
  <2>2. StackIndices \in Nat \ {0} /\ 0 \in Int /\ 0 <= 0 /\ 0 < StackIndices
    BY Sizes
  <2>3. Multiplied(StackIndices, e, 0) % StackIndices = 0
    BY <2>2, DivisionIsUnique
  <2>4. QED
    BY <2>1, <2>3
<1>7. m - bias - slot = Multiplied(StackIndices, -d, 0)
  BY <1>5, Sizes DEF Multiplied
<1>8. QED
  BY <1>2, <1>3, <1>4, <1>6, <1>7, Sizes DEF StackIndex

(* Two slots with one index are one: half of the indices is enough for     *)
(* slots on either side of none.                                           *)
LEMMA SlotsDiffer ==
  ASSUME bias \in Int, NEW s \in Slots, NEW t \in Slots, StackIndex(s) = StackIndex(t)
  PROVE  s = t
<1>1. s \in Int /\ t \in Int /\ s - t < StackIndices /\ t - s < StackIndices
  BY LocationAssumption
<1>2. PICK n \in Int, k \in Int : n = bias + s /\ k = bias + t
  BY <1>1
<1>3. PICK d \in Int, m \in Int : d = n \div StackIndices /\ m = n % StackIndices
  BY Sizes
<1>4. PICK e \in Int : e = k \div StackIndices
  BY Sizes
<1>5. m = k % StackIndices
  BY <1>2, <1>3 DEF StackIndex
<1>6. n - k = StackIndices * (d - e)
  <2>1. n = StackIndices * d + m
    BY <1>3, Sizes
  <2>2. k = StackIndices * e + m
    BY <1>4, <1>5, Sizes
  <2>3. StackIndices * (d - e) = StackIndices * d - StackIndices * e
    BY Sizes
  <2>4. PICK x \in Int, y \in Int : x = StackIndices * d /\ y = StackIndices * e
    BY Sizes
  <2>5. QED
    BY <2>1, <2>2, <2>3, <2>4
<1>7. s - t = StackIndices * (d - e)
  BY <1>1, <1>2, <1>6
<1>8. d - e < 1
  <2>1. SUFFICES ASSUME d - e >= 1 PROVE FALSE
    OBVIOUS
  <2>2. StackIndices * (d - e) >= StackIndices
    BY <2>1, Sizes
  <2>3. QED
    BY <1>1, <1>7, <2>2, Sizes
<1>9. d - e > -1
  <2>1. SUFFICES ASSUME d - e <= -1 PROVE FALSE
    OBVIOUS
  <2>2. StackIndices * (d - e) <= -StackIndices
    BY <2>1, Sizes
  <2>3. QED
    BY <1>1, <1>7, <2>2, Sizes
<1>10. d - e = 0
  BY <1>8, <1>9
<1>11. QED
  BY <1>1, <1>7, <1>10, Sizes

-----------------------------------------------------------------------------
(* Whatever the bias, a word is one, and reads back as what it means.      *)
ReadsAs(m, w) ==
  /\ w \in 0 .. Words - 1
  /\ Kind(w) = kinds[m[1]]
  /\ (w % 4 = kinds.constant) = (m[1] = "constant")
  /\ m[1] = "constant" => Constant(w) = m[2]
  /\ m[1] = "unallocated" => Payload(w) = policies[m[2]]
  /\ m[1] \in {"register", "fpu_register"} => Payload(w) = m[2]
  /\ IsSlot(m) => /\ (StackSlot(w) - m[2][2]) % StackIndices = 0
                  /\ Payload(w) = m[2][1] + 32 * StackIndex(m[2][2])

LEMMA MeaningsAreRead ==
  ASSUME bias \in Int, NEW m \in Meanings
  PROVE  ReadsAs(m, WordOf(m))
<1>1. CASE m = <<"invalid", 0>> /\ WordOf(m) = 0
  <2>1. 0 \in 0 .. Payloads - 1 /\ 0 \in 0 .. Words - 1 /\ 0 + 16 * 0 = 0 /\ 0 % 4 = 0
    BY Sizes
  <2>2. Kind(0 + 16 * 0) = 0
    BY <2>1, Fields
  <2>3. QED
    BY <1>1, <2>1, <2>2, KindsAre DEF ReadsAs, IsSlot
<1>2. CASE \E o \in Objects : m = <<"constant", o>> /\ WordOf(m) = o + 1
  <2>1. PICK o \in Objects : m = <<"constant", o>> /\ WordOf(m) = o + 1
    BY <1>2
  <2>2. o \in Int /\ 0 <= o /\ o < Words /\ o % 16 = 0
    BY LocationAssumption, Sizes
  <2>3. (o + 1) % 16 = 1 /\ (o + 1) \div 1 = o + 1 /\ (o + 1) % 4 = 1
    BY <2>2
  <2>4. o + 1 < Words
    <3>1. Words = 16 * (32 * StackIndices)
      BY Sizes
    <3>2. PICK n \in Int : n = 32 * StackIndices
      BY Sizes
    <3>3. QED
      BY <2>2, <3>1, <3>2
  <2>5. Kind(o + 1) = 1 /\ Constant(o + 1) = o
    BY <2>2, <2>3 DEF Kind, Decode, Kinds, Constant
  <2>6. QED
    BY <2>1, <2>2, <2>3, <2>4, <2>5, Sizes, KindsAre DEF ReadsAs, IsSlot
<1>3. CASE \E p \in DOMAIN policies : m = <<"unallocated", p>> /\ WordOf(m) = 3 + 16 * policies[p]
  <2>1. PICK p \in DOMAIN policies : m = <<"unallocated", p>> /\ WordOf(m) = 3 + 16 * policies[p]
    BY <1>3
  <2>2. PICK policy \in 1 .. 16 : policy = policies[p]
    BY PoliciesAre
  <2>3. policy \in 0 .. Payloads - 1 /\ 3 + 16 * policy \in 0 .. Words - 1
    BY Sizes
  <2>4. Kind(3 + 16 * policy) = 3 /\ Payload(3 + 16 * policy) = policy /\ (3 + 16 * policy) % 4 = 3 % 4
    BY <2>3, Fields
  <2>5. QED
    BY <2>1, <2>2, <2>3, <2>4, KindsAre DEF ReadsAs, IsSlot
<1>4. CASE \E kind \in {"stack_slot", "double_stack_slot"}, base \in 0 .. 15, slot \in Slots :
             m = <<kind, <<base, slot>>>> /\ WordOf(m) = kinds[kind] + 16 * (base + 32 * StackIndex(slot))
  <2>1. PICK kind \in {"stack_slot", "double_stack_slot"}, base \in 0 .. 15, slot \in Slots :
             m = <<kind, <<base, slot>>>> /\ WordOf(m) = kinds[kind] + 16 * (base + 32 * StackIndex(slot))
    BY <1>4
  <2>2. PICK k \in {4, 7} : k = kinds[kind]
    BY KindsAre
  <2>3. PICK index \in 0 .. StackIndices - 1 : index = StackIndex(slot)
    BY IndexOfSlot
  <2>4. PICK p \in 0 .. Payloads - 1 : p = base + 32 * index
    BY Sizes
  <2>5. k \in 0 .. 15 /\ k + 16 * p \in 0 .. Words - 1
    BY <2>4, Sizes
  <2>6. Kind(k + 16 * p) = k /\ Payload(k + 16 * p) = p /\ (k + 16 * p) % 4 = k % 4
    BY <2>5, Fields
  <2>7. k % 4 # 1
    OBVIOUS
  <2>8. StackSlot(k + 16 * p) = index - bias
    <3>1. p \div 32 = index
      BY <2>4, Sizes
    <3>2. index % StackIndices = index
      BY Sizes, DivisionIsUnique
    <3>3. QED
      BY <2>6, <3>1, <3>2 DEF StackSlot, Decode, BaseRegs
  <2>9. (index - bias - slot) % StackIndices = 0
    BY <2>3, IndexOfSlot
  <2>10. WordOf(m) = k + 16 * p
    BY <2>1, <2>2, <2>3, <2>4
  <2>11. m[1] = kind /\ m[2][1] = base /\ m[2][2] = slot
    BY <2>1
  <2>12. kind \notin {"constant", "unallocated", "register", "fpu_register"}
    OBVIOUS
  <2>13. QED
    BY <2>2, <2>3, <2>4, <2>5, <2>6, <2>7, <2>8, <2>9, <2>10, <2>11, <2>12, KindsAre DEF ReadsAs, IsSlot
<1>5. CASE \E kind \in {"register", "fpu_register"}, r \in Registers :
             m = <<kind, r>> /\ WordOf(m) = kinds[kind] + 16 * r
  <2>1. PICK kind \in {"register", "fpu_register"}, r \in Registers :
             m = <<kind, r>> /\ WordOf(m) = kinds[kind] + 16 * r
    BY <1>5
  <2>2. PICK k \in {8, 12} : k = kinds[kind]
    BY KindsAre
  <2>3. r \in 0 .. 15
    BY LocationAssumption
  <2>4. r \in 0 .. Payloads - 1 /\ k + 16 * r \in 0 .. Words - 1 /\ k \in 0 .. 15
    BY <2>3, Sizes
  <2>5. Kind(k + 16 * r) = k /\ Payload(k + 16 * r) = r /\ (k + 16 * r) % 4 = k % 4
    BY <2>4, Fields
  <2>6. k % 4 # 1
    OBVIOUS
  <2>7. QED
    BY <2>1, <2>2, <2>4, <2>5, <2>6, KindsAre DEF ReadsAs, IsSlot
<1>6. QED
  BY <1>1, <1>2, <1>3, <1>4, <1>5, WordsOfMeanings

(* The kind of a meaning says what its data are.                           *)
Shaped(m) ==
  /\ m[1] \in DOMAIN kinds
  /\ m[1] = "invalid" => m = <<"invalid", 0>>
  /\ m[1] \in {"constant", "unallocated", "register", "fpu_register"} => m = <<m[1], m[2]>>
  /\ m[1] = "unallocated" => m[2] \in DOMAIN policies
  /\ IsSlot(m) => \E base \in 0 .. 15, slot \in Slots : m = <<m[1], <<base, slot>>>>

LEMMA MeaningsAreShaped ==
  ASSUME bias \in Int, NEW m \in Meanings
  PROVE  Shaped(m)
<1>1. CASE m = <<"invalid", 0>> /\ WordOf(m) = 0
  BY <1>1 DEF Shaped, IsSlot, kinds
<1>2. CASE \E o \in Objects : m = <<"constant", o>> /\ WordOf(m) = o + 1
  BY <1>2 DEF Shaped, IsSlot, kinds
<1>3. CASE \E p \in DOMAIN policies : m = <<"unallocated", p>> /\ WordOf(m) = 3 + 16 * policies[p]
  BY <1>3 DEF Shaped, IsSlot, kinds
<1>4. CASE \E kind \in {"stack_slot", "double_stack_slot"}, base \in 0 .. 15, slot \in Slots :
             m = <<kind, <<base, slot>>>> /\ WordOf(m) = kinds[kind] + 16 * (base + 32 * StackIndex(slot))
  <2>1. PICK kind \in {"stack_slot", "double_stack_slot"}, base \in 0 .. 15, slot \in Slots :
             m = <<kind, <<base, slot>>>> /\ WordOf(m) = kinds[kind] + 16 * (base + 32 * StackIndex(slot))
    BY <1>4
  <2>2. m[1] = kind /\ kind \in DOMAIN kinds
    BY <2>1 DEF kinds
  <2>3. m = <<m[1], <<base, slot>>>>
    BY <2>1, <2>2
  <2>4. m[1] \notin {"invalid", "constant", "unallocated", "register", "fpu_register"}
    BY <2>2
  <2>5. QED
    BY <2>2, <2>3, <2>4 DEF Shaped
<1>5. CASE \E kind \in {"register", "fpu_register"}, r \in Registers :
             m = <<kind, r>> /\ WordOf(m) = kinds[kind] + 16 * r
  BY <1>5 DEF Shaped, IsSlot, kinds
<1>6. QED
  BY <1>1, <1>2, <1>3, <1>4, <1>5, WordsOfMeanings

(* Words that are equal mean the same.                                     *)
LEMMA WordsDiffer ==
  ASSUME bias \in Int, NEW m \in Meanings, NEW n \in Meanings, WordOf(m) = WordOf(n)
  PROVE  m = n
<1>1. PICK w : w = WordOf(m) /\ w = WordOf(n)
  OBVIOUS
<1>2. ReadsAs(m, w) /\ ReadsAs(n, w)
  BY <1>1, MeaningsAreRead
<1>3. Shaped(m) /\ Shaped(n)
  BY MeaningsAreShaped
<1>4. kinds[m[1]] = kinds[n[1]]
  BY <1>2 DEF ReadsAs
<1>5. m[1] = n[1]
  <2>1. \A a, b \in DOMAIN kinds : kinds[a] = kinds[b] => a = b
    BY KindsAre DEF kinds
  <2>2. m[1] \in DOMAIN kinds /\ n[1] \in DOMAIN kinds
    BY <1>3 DEF Shaped
  <2>3. QED
    BY <1>4, <2>1, <2>2
<1>6. CASE m[1] = "invalid"
  BY <1>3, <1>5, <1>6 DEF Shaped
<1>7. CASE m[1] \in {"constant", "unallocated", "register", "fpu_register"}
  <2>1. m = <<m[1], m[2]>> /\ n = <<n[1], n[2]>>
    BY <1>3, <1>5, <1>7 DEF Shaped
  <2>2. m[2] = n[2]
    <3>1. CASE m[1] = "constant"
      BY <1>2, <1>5, <3>1 DEF ReadsAs
    <3>2. CASE m[1] = "unallocated"
      <4>1. m[2] \in DOMAIN policies /\ n[2] \in DOMAIN policies
        BY <1>3, <1>5, <3>2 DEF Shaped
      <4>2. policies[m[2]] = policies[n[2]]
        BY <1>2, <1>5, <3>2 DEF ReadsAs
      <4>3. QED
        BY <4>1, <4>2, PoliciesAre
    <3>3. CASE m[1] \in {"register", "fpu_register"}
      BY <1>2, <1>5, <3>3 DEF ReadsAs
    <3>4. QED
      BY <1>7, <3>1, <3>2, <3>3
  <2>3. QED
    BY <1>5, <2>1, <2>2
<1>8. CASE IsSlot(m)
  <2>1. PICK b \in 0 .. 15, s \in Slots : m = <<m[1], <<b, s>>>>
    BY <1>3, <1>8 DEF Shaped
  <2>2. IsSlot(n)
    BY <1>5, <1>8 DEF IsSlot
  <2>3. PICK c \in 0 .. 15, t \in Slots : n = <<n[1], <<c, t>>>>
    BY <1>3, <2>2 DEF Shaped
  <2>4. m[2][1] = b /\ m[2][2] = s
    BY <2>1
  <2>5. n[2][1] = c /\ n[2][2] = t
    BY <2>3
  <2>6. b + 32 * StackIndex(s) = c + 32 * StackIndex(t)
    BY <1>2, <1>8, <2>2, <2>4, <2>5 DEF ReadsAs
  <2>7. PICK x \in Int, y \in Int : x = StackIndex(s) /\ y = StackIndex(t)
    BY IndexOfSlot
  <2>8. b + 32 * x = c + 32 * y
    BY <2>6, <2>7
  <2>9. b = c /\ x = y
    BY <2>8
  <2>10. s = t
    BY <2>7, <2>9, SlotsDiffer
  <2>11. QED
    BY <1>5, <2>1, <2>3, <2>9, <2>10
<1>9. m[1] \in DOMAIN kinds
  BY <1>3 DEF Shaped
<1>10. QED
  BY <1>6, <1>7, <1>8, <1>9 DEF kinds, IsSlot

-----------------------------------------------------------------------------
(* A location is the word of what it was last set to.                      *)
IInv == /\ bias \in Biases /\ meant \in [Cells -> Meanings]
        /\ word \in [Cells -> Int] /\ \A c \in Cells : word[c] = WordOf(meant[c])

LEMMA BiasIsInt == bias \in Biases => bias \in Int
BY LocationAssumption

LEMMA InitIInv == Init => IInv
<1> SUFFICES ASSUME Init PROVE IInv
  OBVIOUS
<1>1. <<"unallocated", "requires_register">> \in Meanings
  BY DEF Meanings, policies
<1>2. meant \in [Cells -> Meanings] /\ bias \in Biases
  BY <1>1 DEF Init, Cells
<1>3. \A m \in Meanings : WordOf(m) \in Int
  BY <1>2, BiasIsInt, MeaningsAreRead DEF ReadsAs
<1>4. QED
  BY <1>2, <1>3 DEF Init, IInv

LEMMA NextIInv == IInv /\ [Next]_vars => IInv'
<1> SUFFICES ASSUME IInv, [Next]_vars PROVE IInv'
  OBVIOUS
<1>1. \A m \in Meanings : WordOf(m) \in Int
  BY BiasIsInt, MeaningsAreRead DEF ReadsAs, IInv
<1>2. ASSUME bias' = bias, NEW m \in Meanings PROVE WordOf(m)' = WordOf(m)
  BY <1>2 DEF WordOf, StackPayload, Allocated
<1>3. ASSUME NEW c \in Cells, NEW m \in Meanings, Set(c, m) PROVE IInv'
  BY <1>1, <1>2, <1>3 DEF IInv, Set
<1>4. CASE TakeOutput
  BY <1>1, <1>2, <1>4 DEF IInv, TakeOutput, Cells
<1>5. CASE UNCHANGED vars
  BY <1>1, <1>2, <1>5 DEF IInv, vars
<1>6. QED
  BY <1>3, <1>4, <1>5 DEF Next

(* A location always reads back as what it was last set to, whatever the   *)
(* build makes of the overflowing bias, and two are equal as words, which  *)
(* is how the allocator compares them, exactly when they mean the same.    *)
THEOREM LocationsCorrect == Spec => []WordsMeanOne
<1>1. IInv => WordsMeanOne
  <2> SUFFICES ASSUME IInv PROVE WordsMeanOne
    OBVIOUS
  <2>1. bias \in Int /\ bias \in Biases /\ meant \in [Cells -> Meanings] /\ "input" \in Cells /\ "output" \in Cells
    BY BiasIsInt DEF IInv, Cells
  <2>2. \A c \in Cells : ReadsAs(meant[c], word[c])
    BY <2>1, MeaningsAreRead DEF IInv
  <2>3. TypeOK
    BY <2>1, <2>2 DEF IInv, TypeOK, ReadsAs
  <2>4. ReadsBack
    BY <2>2 DEF ReadsBack, ReadsAs, IsSlot
  <2>5. word["input"] = word["output"] <=> meant["input"] = meant["output"]
    BY <2>1, WordsDiffer DEF IInv
  <2>6. QED
    BY <2>3, <2>4, <2>5 DEF WordsMeanOne
<1>2. IInv /\ [Next]_vars => IInv'
  BY NextIInv
<1>3. QED
  BY <1>1, <1>2, InitIInv, PTL DEF Spec
=============================================================================
