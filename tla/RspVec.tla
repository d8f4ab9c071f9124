------------------------------- MODULE RspVec -------------------------------
(***************************************************************************)
(* The vector unit in the interpreter, rsp_t::cop2: eight lanes, and the   *)
(* moves between vector registers, flags and scalar registers.             *)
(***************************************************************************)
EXTENDS RspLane

CONSTANTS
    NumVecs,    \* vector registers; 32 in the program
    NumGprs,    \* scalar registers
    GprMod,     \* scalar registers are below it; 2^32 in the program
    VecInsns    \* the instructions considered

Lanes == 0 .. 7
Vecs == 0 .. NumVecs - 1
Gprs == 0 .. NumGprs - 1
Moves == {"mfc2", "mtc2", "cfc2", "ctc2"}

\* A vector operation has the registers vd, vs and vt and the element e; a move the
\* scalar register rt, the vector or flag register vd, and e.
VecInsn ==
    [fn : VecFns, e : 0 .. 15, vs : Vecs, vt : Vecs, vd : Vecs]
        \cup [fn : Moves, e : 0 .. 15, rt : Gprs, vd : Vecs]

VARIABLES
    v,      \* rsp_t::v
    cell,   \* rsp_t::acc, vco_l, vco_h, vcc_l, vcc_h and vce, lane by lane
    r,      \* rsp_t::r
    insn    \* the instruction run last; history

vars == << v, cell, r, insn >>

VecVal == [Lanes -> Lane]
RFile == {g \in [Gprs -> 0 .. GprMod - 1] : g[0] = 0}
NoInsn == [fn |-> "none"]

-----------------------------------------------------------------------------
(* Lanes and bytes.                                                        *)

\* vt_lane: the lane of vt that lane i is paired with.
VtLane(e, i) ==
    CASE e < 2 -> i
      [] e \in 2 .. 3 -> 2 * (i \div 2) + (e % 2)
      [] e \in 4 .. 7 -> 4 * (i \div 4) + (e % 4)
      [] OTHER -> e % 8

VByte(x, k) ==
    LET h == Un(x[(k % 16) \div 2])
    IN  IF k % 2 = 1 THEN h % ByteMod ELSE h \div ByteMod

SetVByte(x, k, b) ==
    LET i == (k % 16) \div 2
        h == Un(x[i])
    IN  [x EXCEPT ![i] = Int16(IF k % 2 = 1 THEN (h - (h % ByteMod)) + b
                                            ELSE (h % ByteMod) + b * ByteMod)]

\* The flags of register which, as a number of sixteen bits.  A which beyond 2
\* has the low half of VCE and the high half of VCC.
\* Mutant: VCC is not told from VCE.
LowFlagTwo(which, c) == IF which = 0 THEN c.vco_l ELSE c.vce

LowFlag(which, c) == CASE which = 0 -> c.vco_l [] which = 1 -> c.vcc_l [] OTHER -> c.vce
HighFlag(which, c) ==
    CASE which = 0 -> c.vco_h [] which = 2 -> FALSE [] OTHER -> c.vcc_h

Sum8(f) == f[0] + f[1] + f[2] + f[3] + f[4] + f[5] + f[6] + f[7]
BitOf(i) == << 1, 2, 4, 8, 16, 32, 64, 128 >>[i + 1]

GetVFlags(which, cs) ==
    Sum8([i \in Lanes |-> BitOf(i) * (Bit(LowFlag(which, cs[i]))
                                        + 256 * Bit(HighFlag(which, cs[i])))])

SetVFlags(which, cs, x) ==
    [i \in Lanes |->
        LET lo == (x \div BitOf(i)) % 2 = 1
            hi == (x \div (256 * BitOf(i))) % 2 = 1
        IN  CASE which = 0 -> [cs[i] EXCEPT !.vco_l = lo, !.vco_h = hi]
              [] which = 1 -> [cs[i] EXCEPT !.vcc_l = lo, !.vcc_h = hi]
              [] which = 2 -> [cs[i] EXCEPT !.vce = lo]
              [] OTHER -> [cs[i] EXCEPT !.vce = lo, !.vcc_h = hi]]

SetGpr(g, t, x) == IF t = 0 THEN g ELSE [g EXCEPT ![t] = x % GprMod]

-----------------------------------------------------------------------------
Init ==
    /\ v \in [Vecs -> VecVal]
    /\ cell \in [Lanes -> Cell]
    /\ r \in RFile
    /\ insn = NoInsn

\* Every lane of a vector operation, before the destination is written.
LaneOps(i) ==
    [k \in Lanes |-> LaneOp(i.fn, i.e, cell[k], v[i.vs][k], v[i.vt][VtLane(i.e, k)])]

Vector(i) ==
    /\ i.fn \in VecFns
    /\ LET after == LaneOps(i)
       IN  /\ v' = [v EXCEPT ![i.vd] = [k \in Lanes |-> after[k].res]]
           /\ cell' = [k \in Lanes |-> after[k].cell]
    /\ UNCHANGED r

Mfc2(i) ==
    /\ i.fn = "mfc2"
    /\ r' = SetGpr(r, i.rt, Int16(VByte(v[i.vd], i.e) * ByteMod + VByte(v[i.vd], i.e + 1)))
    /\ UNCHANGED << v, cell >>

\* The second byte of the last lane is not followed by one of the first.
Mtc2(i) ==
    /\ i.fn = "mtc2"
    /\ LET h == r[i.rt] % LaneMod
           first == SetVByte(v[i.vd], i.e, h \div ByteMod)
       IN  v' = [v EXCEPT ![i.vd] =
                    IF i.e = 15 THEN first ELSE SetVByte(first, i.e + 1, h % ByteMod)]
    /\ UNCHANGED << cell, r >>

Cfc2(i) ==
    /\ i.fn = "cfc2"
    /\ r' = SetGpr(r, i.rt, Wrap(GetVFlags(i.vd, cell), 32768))
    /\ UNCHANGED << v, cell >>

Ctc2(i) ==
    /\ i.fn = "ctc2"
    /\ cell' = SetVFlags(i.vd, cell, r[i.rt] % 65536)
    /\ UNCHANGED << v, r >>

Run(i) ==
    /\ insn' = i
    /\ Vector(i) \/ Mfc2(i) \/ Mtc2(i) \/ Cfc2(i) \/ Ctc2(i)

Next == \E i \in VecInsns : Run(i)

Spec == Init /\ [][Next]_vars

=============================================================================
