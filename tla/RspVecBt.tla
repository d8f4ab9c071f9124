------------------------------ MODULE RspVecBt ------------------------------
(***************************************************************************)
(* Vector instructions in translated code: the IR that rspInstruction.cc   *)
(* and rspFunc.cc emit, on host integers of a fixed width.                 *)
(*                                                                         *)
(* Between its entry block and its exit block the generated function keeps *)
(* the vector registers, the accumulators and the flags in locals, as bit  *)
(* patterns; meanwhile those in rsp_t are out of date.  Instructions the   *)
(* translator does not know are left to the interpreter.                   *)
(***************************************************************************)
EXTENDS RspLane

CONSTANTS
    NumVecs, NumGprs, GprMod, VecInsns, \* as in RspVec
    Starts,     \* rsp_t to start from
    MaxSteps    \* bound on the instructions of a behaviour

ASSUME StepsAssumption == MaxSteps \in Nat

VARIABLES
    v, cell, r,     \* rsp_t
    mode,           \* "bt" inside the generated function, "interp" outside
    vec, lcell, gpr,\* the function's locals
    insn, steps     \* the instruction run last, and how many were run

vars == << v, cell, r, mode, vec, lcell, gpr, insn, steps >>
rsp == << v, cell, r >>
locals == << vec, lcell, gpr >>

\* The interpreter, working on rsp_t.
Rsp == INSTANCE RspVec

ASSUME VecAssumption == NumVecs \in Nat /\ NumGprs \in Nat \ {0}
\* A scalar register holds two half words, each the sixteen flags, and a lane.
ASSUME GprAssumption ==
    GprMod \in Nat /\ 2 * 65536 <= GprMod /\ GprMod % 65536 = 0 /\ LaneMod < GprMod
ASSUME VecInsnsAssumption == VecInsns \subseteq Rsp!VecInsn
ASSUME StartsAssumption ==
    \A x \in Starts : /\ x.v \in [Rsp!Vecs -> Rsp!VecVal]
                      /\ x.cell \in [Rsp!Lanes -> Cell]
                      /\ x.r \in Rsp!RFile

Host == LaneMod * LaneMod * LaneMod * LaneMod   \* i64
Int64 == 0 .. Host - 1

\* The same lane, as the locals hold it.
Local == [acc : Int64, vco_l : BOOLEAN, vco_h : BOOLEAN,
          vcc_l : BOOLEAN, vcc_h : BOOLEAN, vce : BOOLEAN]

-----------------------------------------------------------------------------
(* IR: lanes are i16, everything wider is i64.  A shift is given by the    *)
(* power of two it multiplies or divides by.  The low bits of a product    *)
(* are the same whether the factors count as signed or not.                *)

Signed(x, mod) == IF 2 * x >= mod THEN x - mod ELSE x

SExt(x) == Signed(x, LaneMod) % Host
ZExt(x) == x
Trunc(x) == x % LaneMod
Plus(x, y) == (x + y) % Host
Minus(x, y) == (x - y) % Host
Times(x, y) == (Signed(x, Host) * Signed(y, Host)) % Host
Shl(x, k) == (Signed(x, Host) * k) % Host
LShr(x, k) == x \div k
AShr(x, k) == (Signed(x, Host) \div k) % Host
SMax(x, k) == IF Signed(x, Host) < k THEN k % Host ELSE x
SMin(x, k) == IF Signed(x, Host) > k THEN k % Host ELSE x

-----------------------------------------------------------------------------
(* What rspFunc builds out of it.                                          *)

IrSext48(a) == AShr(Shl(a, LaneMod), LaneMod)
Saturated(x) == Trunc(SMin(SMax(x, -Half), Half - 1))
SatMid(a) == Saturated(AShr(a, LaneMod))

IrClampLow(a) ==
    LET half == LaneMod * Half
    IN  IF Signed(a, Host) < -half THEN 0
        ELSE IF Signed(a, Host) > half - 1 THEN LaneMod - 1
        ELSE Trunc(a)

SetAccLow(a, x) == (a - Trunc(a)) + x

-----------------------------------------------------------------------------
(* doOp, for one lane.                                                     *)

IrProduct(fn, s, t) ==
    CASE fn \in {"vmulf", "vmacf"} -> Shl(Times(SExt(s), SExt(t)), 2)
      [] fn = "vmudl" -> LShr(Times(ZExt(s), ZExt(t)), LaneMod)
      [] fn \in {"vmudm", "vmadm"} -> Times(SExt(s), ZExt(t))
      [] fn \in {"vmudn", "vmadn"} -> Times(ZExt(s), SExt(t))
      [] fn \in {"vmudh", "vmadh"} -> Shl(Times(SExt(s), SExt(t)), LaneMod)

IrAccAfter(fn, a, s, t) ==
    CASE fn = "vmudl" -> IrProduct(fn, s, t)
      [] fn = "vmulf" -> IrSext48(Plus(IrProduct(fn, s, t), Half))
      [] fn \in FromZero \ {"vmudl", "vmulf"} -> IrSext48(IrProduct(fn, s, t))
      [] fn \in Onto -> IrSext48(Plus(a, IrProduct(fn, s, t)))

IrMultiply(fn, c, s, t) ==
    LET a == IrAccAfter(fn, c.acc, s, t)
    IN  [res |-> IF fn \in {"vmudl", "vmudn", "vmadn"} THEN IrClampLow(a) ELSE SatMid(a),
         cell |-> [c EXCEPT !.acc = a]]

IrAdd(fn, c, s, t) ==
    LET carry == Bit(c.vco_l)
        x == IF fn = "vadd" THEN Plus(Plus(SExt(s), SExt(t)), carry)
                            ELSE Minus(Minus(SExt(s), SExt(t)), carry)
    IN  [res |-> Saturated(x),
         cell |-> [c EXCEPT !.acc = SetAccLow(@, Trunc(x)), !.vco_l = FALSE, !.vco_h = FALSE]]

IrVaddc(c, s, t) ==
    LET x == Plus(ZExt(s), ZExt(t))
    IN  [res |-> Trunc(x),
         cell |-> [c EXCEPT !.acc = SetAccLow(@, Trunc(x)),
                            !.vco_l = (x \div LaneMod) % 2 # 0, !.vco_h = FALSE]]

IrSlice(a, e) ==
    CASE e = 8 -> Trunc(AShr(a, LaneMod * LaneMod))
      [] e = 9 -> Trunc(AShr(a, LaneMod))
      [] e = 10 -> Trunc(a)
      [] OTHER -> 0

IrSelected(c, res) == [res |-> res, cell |-> [c EXCEPT !.acc = SetAccLow(@, res)]]

IrVge(c, s, t) ==
    LET ge == \/ Signed(s, LaneMod) > Signed(t, LaneMod)
              \/ s = t /\ ~(c.vco_h /\ c.vco_l)
    IN  IrSelected([c EXCEPT !.vcc_l = ge, !.vcc_h = FALSE, !.vco_l = FALSE, !.vco_h = FALSE],
                   IF ge THEN s ELSE t)

IrVcl(c, s, t) ==
    LET le == IF c.vce THEN s + t <= LaneMod ELSE s + t = 0
        vccL == IF c.vco_l /\ ~c.vco_h THEN le ELSE c.vcc_l
        vccH == IF ~c.vco_l /\ ~c.vco_h THEN s >= t ELSE c.vcc_h
        res == IF c.vco_l THEN (IF vccL THEN (-t) % LaneMod ELSE s)
                          ELSE (IF vccH THEN t ELSE s)
    IN  IrSelected([c EXCEPT !.vcc_l = vccL, !.vcc_h = vccH,
                             !.vco_l = FALSE, !.vco_h = FALSE, !.vce = FALSE], res)

DoOp(fn, e, c, s, t) ==
    CASE fn \in Products -> IrMultiply(fn, c, s, t)
      [] fn \in {"vadd", "vsub"} -> IrAdd(fn, c, s, t)
      [] fn = "vaddc" -> IrVaddc(c, s, t)
      [] fn = "vsar" -> [res |-> IrSlice(c.acc, e), cell |-> c]
      [] fn = "vge" -> IrVge(c, s, t)
      [] fn = "vcl" -> IrVcl(c, s, t)
      [] fn = "vand" -> IrSelected(c, BitAnd(s, t))
      [] fn = "vxor" -> IrSelected(c, s + t - 2 * BitAnd(s, t))

\* The instructions decoded to a class of their own.
Emitted == Products \cup {"vadd", "vsub", "vaddc", "vsar", "vge", "vcl", "vand", "vxor",
                          "mfc2", "mtc2"}

\* vtSelect's shuffle mask.
Mask(e, k) ==
    CASE e < 4 -> 2 * (k \div 2) + (e % 2)
      [] e \in 4 .. 7 -> 4 * (k \div 4) + (e % 4)
      [] OTHER -> e % 8

VtSelect(x, e) == [k \in Rsp!Lanes |-> IF e < 2 THEN x[k] ELSE x[Mask(e, k)]]

\* getByte and setByte.
GetByte(x, k) ==
    LET lane == x[(k % 16) \div 2]
    IN  (IF k % 2 = 1 THEN lane ELSE LShr(lane, ByteMod)) % ByteMod
SetByte(x, k, b) ==
    LET i == (k % 16) \div 2
        byte == b % ByteMod
    IN  [x EXCEPT ![i] = IF k % 2 = 1 THEN (@ - (@ % ByteMod)) + byte
                                      ELSE (@ % ByteMod) + byte * ByteMod]

-----------------------------------------------------------------------------
(* rsp_t and the locals. *)

In(c) == [c EXCEPT !.acc = @ % Host]
Out(c) == [c EXCEPT !.acc = Signed(@, Host)]

VecIn(f) == [w \in Rsp!Vecs |-> [k \in Rsp!Lanes |-> Un(f[w][k])]]
VecOut(f) == [w \in Rsp!Vecs |-> [k \in Rsp!Lanes |-> Signed(f[w][k], LaneMod)]]
CellIn(f) == [k \in Rsp!Lanes |-> In(f[k])]

\* Mutant: one set of flags is forgotten at the exit.
CellOutForgets(f) == [k \in Rsp!Lanes |-> [Out(f[k]) EXCEPT !.vce = cell[k].vce]]

CellOut(f) == [k \in Rsp!Lanes |-> Out(f[k])]

TypeOK ==
    /\ v \in [Rsp!Vecs -> Rsp!VecVal]
    /\ cell \in [Rsp!Lanes -> Cell]
    /\ r \in Rsp!RFile
    /\ mode \in {"bt", "interp"}
    /\ vec \in [Rsp!Vecs -> [Rsp!Lanes -> Word]]
    /\ lcell \in [Rsp!Lanes -> Local]
    /\ CellOut(lcell) \in [Rsp!Lanes -> Cell]
    /\ gpr \in Rsp!RFile
    /\ insn \in VecInsns \cup {Rsp!NoInsn}
    /\ steps \in 0 .. MaxSteps

Init ==
    /\ \E x \in Starts : v = x.v /\ cell = x.cell /\ r = x.r
    /\ mode = "interp"
    /\ vec = VecIn(v) /\ lcell = CellIn(cell) /\ gpr = r
    /\ insn = Rsp!NoInsn
    /\ steps = 0

-----------------------------------------------------------------------------
Count == steps < MaxSteps /\ steps' = steps + 1

\* The entry block.
Enter ==
    /\ mode = "interp"
    /\ mode' = "bt"
    /\ vec' = VecIn(v) /\ lcell' = CellIn(cell) /\ gpr' = r
    /\ UNCHANGED << rsp, insn, steps >>

\* The exit block.
Leave ==
    /\ mode = "bt"
    /\ mode' = "interp"
    /\ v' = VecOut(vec) /\ cell' = CellOut(lcell) /\ r' = gpr
    /\ UNCHANGED << locals, insn, steps >>

Translated(i) ==
    /\ mode = "bt" /\ i.fn \in Emitted /\ Count
    /\ insn' = i
    /\ UNCHANGED << rsp, mode >>

Vector(i) ==
    /\ Translated(i) /\ i.fn \in VecFns
    /\ LET s == vec[i.vs]
           t == VtSelect(vec[i.vt], i.e)
           after == [k \in Rsp!Lanes |-> DoOp(i.fn, i.e, lcell[k], s[k], t[k])]
       IN  /\ vec' = [vec EXCEPT ![i.vd] = [k \in Rsp!Lanes |-> after[k].res]]
           /\ lcell' = [k \in Rsp!Lanes |-> after[k].cell]
    /\ UNCHANGED gpr

Mfc2(i) ==
    /\ Translated(i) /\ i.fn = "mfc2"
    /\ LET x == GetByte(vec[i.vd], i.e) * ByteMod + GetByte(vec[i.vd], i.e + 1)
       IN  gpr' = Rsp!SetGpr(gpr, i.rt, Signed(x, LaneMod))
    /\ UNCHANGED << vec, lcell >>

Mtc2(i) ==
    /\ Translated(i) /\ i.fn = "mtc2"
    /\ LET x == gpr[i.rt]
           first == SetByte(vec[i.vd], i.e, LShr(x, ByteMod))
       IN  vec' = [vec EXCEPT ![i.vd] = IF i.e # 15 THEN SetByte(first, i.e + 1, x) ELSE first]
    /\ UNCHANGED << lcell, gpr >>

\* The interpreter, for what the translator does not know and for whatever
\* follows until the function is entered again.
Interpret(i) ==
    /\ mode = "interp" /\ Count
    /\ Rsp!Run(i)
    /\ UNCHANGED << mode, locals >>

Next ==
    \/ Enter
    \/ Leave
    \/ \E i \in VecInsns : Vector(i) \/ Mfc2(i) \/ Mtc2(i) \/ Interpret(i)

Spec == Init /\ [][Next]_vars

-----------------------------------------------------------------------------
(* Properties. *)

Inside == mode = "bt"

\* The vector unit as the program sees it.
UnitVecs == IF Inside THEN VecOut(vec) ELSE v
UnitCells == IF Inside THEN CellOut(lcell) ELSE cell

Core == INSTANCE RspVec WITH v <- UnitVecs, cell <- UnitCells,
                             r <- IF Inside THEN gpr ELSE r

\* Translated code does to every lane, accumulator and flag what the interpreter
\* does, instruction by instruction, and hands the unit over unchanged at entry and
\* exit (rspbt.hh:13-14, "interchangeable mid-task").
ImplementsCore == Core!Spec

\* Two numbers of twice the width of a lane, high halves in registers 0 and 2, low
\* halves in 1 and 3.
Wide(hi, lo) == hi * LaneMod + Un(lo)
First(k) == Wide(UnitVecs[0][k], UnitVecs[1][k])
Second(k) == Wide(UnitVecs[2][k], UnitVecs[3][k])

\* Operation fn on registers a and b in lane k.
Then(fn, c, a, b, k) == LaneOp(fn, 0, c, UnitVecs[a][k], UnitVecs[b][k])

\* vaddc on the low halves and vadd on the high halves add the two numbers, the high
\* half saturated, and leave no carry behind, whatever the flags were before
\* (rsp.cc:274-281, 290-298).
DoubleAdd ==
    \A k \in Rsp!Lanes :
        LET low == Then("vaddc", UnitCells[k], 1, 3, k)
            high == Then("vadd", low.cell, 0, 2, k)
            sum == First(k) + Second(k)
        IN  /\ Un(low.res) = sum % LaneMod
            /\ high.res = Clamp(sum \div LaneMod)
            /\ ~high.cell.vco_l

\* The same of vsubc and vsub (rsp.cc:282-289, 364-374).
DoubleSubtract ==
    \A k \in Rsp!Lanes :
        LET low == Then("vsubc", UnitCells[k], 1, 3, k)
            high == Then("vsub", low.cell, 0, 2, k)
            difference == First(k) - Second(k)
        IN  /\ Un(low.res) = difference % LaneMod
            /\ high.res = Clamp(difference \div LaneMod)
            /\ ~high.cell.vco_l

\* The four partial products of two fixed-point numbers, in the order microcode
\* uses, leave the exact product in the accumulator, and the last returns its upper
\* part saturated (rsp.cc:242-245, 262-273).
ProductChain ==
    \A k \in Rsp!Lanes :
        LET lowLow == Then("vmudl", UnitCells[k], 1, 3, k)
            highLow == Then("vmadm", lowLow.cell, 0, 3, k)
            lowHigh == Then("vmadn", highLow.cell, 1, 2, k)
            highHigh == Then("vmadh", lowHigh.cell, 0, 2, k)
            product == First(k) * Second(k)
        IN  /\ highHigh.cell.acc = product \div LaneMod
            /\ highHigh.res = Clamp(product \div (LaneMod * LaneMod))

\* The three slices that vsar reads are the accumulator: nothing it holds is beyond
\* the highest (rsp.cc:128-130, 299-301).
VsarReadsWholeAccumulator ==
    \A k \in Rsp!Lanes :
        LET a == UnitCells[k].acc
        IN  a = Slice(a, 8) * LaneMod * LaneMod + Un(Slice(a, 9)) * LaneMod + Un(Slice(a, 10))

\* cfc2 and ctc2 save and restore each flag register, through the sign that cfc2
\* extends into the scalar register (rsp.cc:173-195, 218-223).
FlagsRoundTrip ==
    \A which \in 0 .. 2 :
        LET saved == Wrap(Rsp!GetVFlags(which, UnitCells), 32768) % GprMod
        IN  Rsp!SetVFlags(which, UnitCells, saved % 65536) = UnitCells

=============================================================================
