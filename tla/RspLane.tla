------------------------------ MODULE RspLane ------------------------------
(***************************************************************************)
(* One lane of the RSP's vector unit: what each COP2 operation of rsp.cc   *)
(* leaves in the destination, in the lane's accumulator and in its flags.  *)
(*                                                                         *)
(* A lane holds a signed number of w bits, w = 16 in the program; the      *)
(* accumulator 3w bits, kept sign-extended in a host integer of 4w.  Here  *)
(* w is a parameter, through LaneMod = 2^w.                                *)
(***************************************************************************)
EXTENDS Integers

CONSTANTS
    ByteMod,        \* half a lane is below it; 2^8 in the program
    BitAnd(_, _)    \* the host's bitwise and of two lanes as unsigned numbers

LaneMod == ByteMod * ByteMod
Word == 0 .. LaneMod - 1

ASSUME ByteModAssumption == ByteMod \in Nat \ {0} /\ ByteMod % 2 = 0
\* No bit is set that is not set in both, nor is any lane too large.
ASSUME BitAndAssumption ==
    \A x, y \in Word :
        LET both == BitAnd(x, y)
        IN  both \in Word /\ both <= x /\ both <= y /\ x + y - both \in Word

Half == LaneMod \div 2
AccHalf == (LaneMod * LaneMod * LaneMod) \div 2
Lane == -Half .. Half - 1
Acc == -AccHalf .. AccHalf - 1

\* A lane's accumulator and its bit of each flag register.
Cell == [acc : Acc, vco_l : BOOLEAN, vco_h : BOOLEAN,
         vcc_l : BOOLEAN, vcc_h : BOOLEAN, vce : BOOLEAN]

-----------------------------------------------------------------------------
(* Conversions.                                                            *)

Un(x) == x % LaneMod            \* static_cast<uint16_t>
Bit(b) == IF b THEN 1 ELSE 0

\* x cast to a signed number below and not below -half.
Wrap(x, half) == ((x + half) % (2 * half)) - half

Int16(x) == Wrap(x, Half)
Sext48(x) == Wrap(x, AccHalf)

\* clamp_s16
Clamp(x) == IF x < -Half THEN -Half ELSE IF x >= Half THEN Half - 1 ELSE x

\* The accumulator's middle slice, saturated.
Mid(a) == Clamp(a \div LaneMod)

\* clamp_acc_low: the low slice, saturated by what is above the middle.
ClampLow(a) ==
    LET half == LaneMod * Half
    IN  IF a < -half THEN 0 ELSE IF a >= half THEN -1 ELSE Int16(a)

\* The accumulator with another low slice.
WithLow(a, x) == a - Un(a) + Un(x)

\* Bitwise operations, from the one that is a parameter.
And(s, t) == BitAnd(Un(s), Un(t))
Or(s, t) == Un(s) + Un(t) - And(s, t)
Xor(s, t) == Or(s, t) - And(s, t)
Not(x) == -1 - x

-----------------------------------------------------------------------------
(* Multiplication.                                                         *)

FromZero == {"vmulf", "vmudl", "vmudm", "vmudn", "vmudh"}
Onto == {"vmacf", "vmadm", "vmadn", "vmadh"}
Products == FromZero \cup Onto

\* Mutant: of the mixed products the other operand is taken for signed.
ProductSwapped(fn, s, t) ==
    CASE fn \in {"vmulf", "vmacf"} -> s * t * 2
      [] fn = "vmudl" -> (Un(s) * Un(t)) \div LaneMod
      [] fn \in {"vmudm", "vmadm"} -> Un(s) * t
      [] fn \in {"vmudn", "vmadn"} -> s * Un(t)
      [] fn \in {"vmudh", "vmadh"} -> s * t * LaneMod

Product(fn, s, t) ==
    CASE fn \in {"vmulf", "vmacf"} -> s * t * 2
      [] fn = "vmudl" -> (Un(s) * Un(t)) \div LaneMod
      [] fn \in {"vmudm", "vmadm"} -> s * Un(t)
      [] fn \in {"vmudn", "vmadn"} -> Un(s) * t
      [] fn \in {"vmudh", "vmadh"} -> s * t * LaneMod

\* What an operation leaves in the accumulator; the products of vmudl have no sign
\* to extend.
\* Mutant: the accumulator is not brought back to its width.
AccAfterUnwrapped(fn, a, s, t) ==
    Product(fn, s, t)
      + (IF fn \in Onto THEN a ELSE IF fn = "vmulf" THEN Half ELSE 0)

AccAfter(fn, a, s, t) ==
    Sext48(Product(fn, s, t)
             + (IF fn \in Onto THEN a ELSE IF fn = "vmulf" THEN Half ELSE 0))

Multiply(fn, c, s, t) ==
    LET a == AccAfter(fn, c.acc, s, t)
    IN  [res |-> IF fn \in {"vmudl", "vmudn", "vmadn"} THEN ClampLow(a) ELSE Mid(a),
         cell |-> [c EXCEPT !.acc = a]]

-----------------------------------------------------------------------------
(* Addition and subtraction, with the carry in vco_l; the low slice gets x.*)

Add(c, x) ==
    [res |-> Clamp(x),
     cell |-> [c EXCEPT !.acc = WithLow(@, x), !.vco_l = FALSE, !.vco_h = FALSE]]

Vadd(c, s, t) == Add(c, s + t + Bit(c.vco_l))
Vsub(c, s, t) == Add(c, s - t - Bit(c.vco_l))

\* Mutant: the carry is that of the signed sum.
VaddcSigned(c, s, t) ==
    [res |-> Int16(s + t),
     cell |-> [c EXCEPT !.acc = WithLow(@, s + t), !.vco_l = s + t >= Half, !.vco_h = FALSE]]

Vaddc(c, s, t) ==
    LET x == Un(s) + Un(t)
    IN  [res |-> Int16(x),
         cell |-> [c EXCEPT !.acc = WithLow(@, x), !.vco_l = x >= LaneMod, !.vco_h = FALSE]]

\* The borrow is the sign of the difference of the signed lanes.
Vsubc(c, s, t) ==
    [res |-> Int16(s - t),
     cell |-> [c EXCEPT !.acc = WithLow(@, s - t), !.vco_l = s - t < 0, !.vco_h = s # t]]

-----------------------------------------------------------------------------
(* Selections.  The low slice gets the result.                             *)

Selected(c, res) == [res |-> res, cell |-> [c EXCEPT !.acc = WithLow(@, res)]]

Vge(c, s, t) ==
    LET ge == s > t \/ (s = t /\ ~(c.vco_h /\ c.vco_l))
    IN  Selected([c EXCEPT !.vcc_l = ge, !.vcc_h = FALSE, !.vco_l = FALSE, !.vco_h = FALSE],
                 IF ge THEN s ELSE t)

\* Clip: vco_l says that the signs of s and t differ, vco_h that a previous
\* comparison stands.
Vcl(c, s, t) ==
    LET sum == Un(s) + Un(t)
        le == IF c.vco_h THEN c.vcc_l ELSE IF c.vce THEN sum <= LaneMod ELSE sum = 0
        ge == IF c.vco_h THEN c.vcc_h ELSE Un(s) >= Un(t)
        d == [c EXCEPT !.vco_l = FALSE, !.vco_h = FALSE, !.vce = FALSE]
    IN  IF c.vco_l
        THEN Selected([d EXCEPT !.vcc_l = le], IF le THEN Int16(-Un(t)) ELSE s)
        ELSE Selected([d EXCEPT !.vcc_h = ge], IF ge THEN t ELSE s)

Selections == {"vand", "vnand", "vor", "vnor", "vxor", "vnxor", "vmrg", "vabs"}

Selection(fn, c, s, t) ==
    CASE fn = "vand" -> Int16(And(s, t))
      [] fn = "vnand" -> Int16(Not(And(s, t)))
      [] fn = "vor" -> Int16(Or(s, t))
      [] fn = "vnor" -> Int16(Not(Or(s, t)))
      [] fn = "vxor" -> Int16(Xor(s, t))
      [] fn = "vnxor" -> Int16(Not(Xor(s, t)))
      [] fn = "vmrg" -> IF c.vcc_l THEN s ELSE t
      [] fn = "vabs" -> IF s < 0 THEN Int16(-t) ELSE IF s = 0 THEN 0 ELSE t

\* Mutant: the slice at the top is not shifted down all the way.
SliceShort(a, e) ==
    CASE e \in {8, 9} -> Int16(a \div LaneMod)
      [] e = 10 -> Int16(a)
      [] OTHER -> 0

\* vsar: the slice of the accumulator that element e names.
Slice(a, e) ==
    CASE e = 8 -> Int16(a \div (LaneMod * LaneMod))
      [] e = 9 -> Int16(a \div LaneMod)
      [] e = 10 -> Int16(a)
      [] OTHER -> 0

-----------------------------------------------------------------------------
VecFns == Products \cup Selections
               \cup {"vadd", "vsub", "vaddc", "vsubc", "vsar", "vge", "vcl"}

\* What function fn leaves behind for element e and operands s and t.
LaneOp(fn, e, c, s, t) ==
    CASE fn \in Products -> Multiply(fn, c, s, t)
      [] fn = "vadd" -> Vadd(c, s, t)
      [] fn = "vsub" -> Vsub(c, s, t)
      [] fn = "vaddc" -> Vaddc(c, s, t)
      [] fn = "vsubc" -> Vsubc(c, s, t)
      [] fn = "vsar" -> [res |-> Slice(c.acc, e), cell |-> c]
      [] fn = "vge" -> Vge(c, s, t)
      [] fn = "vcl" -> Vcl(c, s, t)
      [] fn \in Selections -> Selected(c, Selection(fn, c, s, t))

=============================================================================
