------------------------------ MODULE MCCompile -----------------------------
(* Bodies of one or two statements that end in a return, over expressions  *)
(* of two levels of operations, stores and loads.                          *)
EXTENDS Compile

Lit(v)       == [type |-> "literal", value |-> v]
Bin(l, r)    == [type |-> "binary", op |-> "minus", left |-> l, right |-> r]
Local(v, b)  == [value |-> v, bit |-> b]
StoreTo(b, e) == [type |-> "store", local |-> Local("none", b), value |-> e]
Store(e)     == StoreTo(0, e)
Load(v)      == [type |-> "load", local |-> Local(v, 0)]
Var(b)       == [type |-> "load", local |-> Local("none", b)]
Ret(e)       == [type |-> "return", value |-> e]
Seq2(a, b)   == [type |-> "sequence", nodes |-> <<a, b>>]
Body(a)      == [type |-> "sequence", nodes |-> <<a>>]

Simple == {Lit("one"), Lit("nil"), Load("two")}
Deeper(E) == {Bin(l, r) : l, r \in E} \cup {Store(e) : e \in E}
Once  == Simple \cup Deeper({Lit("one"), Load("two")}) \cup Deeper({Lit("nil")})
Twice == Once \cup {Bin(l, r) : l, r \in Once} \cup {Store(e) : e \in Once}
Thrice == Twice \cup {Bin(Bin(l, r), e) : l, r \in Once, e \in {Lit("one")}}
                \cup {Bin(e, Bin(l, r)) : l, r \in Once, e \in {Lit("nil")}}

(* Variables, in words that the operands around them use too.              *)
Reads == {Var(b) : b \in 0 .. 2} \cup {Bin(Var(b), Var(c)) : b, c \in {0, 2}} \cup {Bin(Lit("one"), Var(b)) : b \in 0 .. 2}
Nested == {Bin(Bin(Lit("one"), Bin(Lit("one"), Var(b))), e) : b \in {1, 2}, e \in Reads}
Thirdly == Bin(Bin(Lit("one"), Bin(Var(0), Var(0))), Var(0))    \* folds behind no conversion
Writes == {StoreTo(0, Lit("one")), StoreTo(2, Bin(Lit("one"), Var(2))), StoreTo(1, Bin(Lit("one"), Load("two")))}

(* A constant that is no number, as an operand of an operation or not.     *)
Flag == Lit("true")
Flagged == {Flag, Bin(Flag, Var(2)), Bin(Lit("nil"), Flag), Bin(Flag, Bin(Lit("one"), Lit("nil")))}
             \cup {Bin(Flag, e) : e \in Once} \cup {Bin(Bin(Lit("one"), e), Flag) : e \in Simple}
             \cup {Bin(Lit("one"), Bin(Bin(Flag, Flag), e)) : e \in Simple}
             \cup {Bin(Bin(Flag, Bin(Var(0), Var(0))), Var(0))}   \* without a conversion in front

Statements == Once \cup {Load("none")}

MCAsts == {Body(Ret(e)) : e \in Thrice}
     \cup {Seq2(s, Ret(e)) : s \in Statements, e \in Once}
     \cup {Body(Ret(e)) : e \in Nested \cup {Thirdly}} \cup {Seq2(s, Ret(e)) : s \in Writes, e \in Reads \cup Nested}
     \cup {Seq2(Seq2(s, Ret(e)), Ret(Lit("nil"))) : s \in Statements, e \in Simple}
     \cup {Body(Ret(e)) : e \in Flagged} \cup {Seq2(Bin(Lit("one"), Flag), Ret(e)) : e \in Simple}

(* An object lies below or above the middle of 32 bits.                    *)
MCAddresses == [one |-> 4112, two |-> -2147480000, nil |-> 2147483632, true |-> 8208]
=============================================================================
