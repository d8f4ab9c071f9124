------------------------------ MODULE MCRspVec ------------------------------
(***************************************************************************)
(* Lanes of two bits, accumulators of six, host integers of eight.  The    *)
(* lanes of the starting states go through every accumulator with every    *)
(* value of registers 0 and 1, and through every value of the four         *)
(* registers and of the flags.  One instruction is run from each of these  *)
(* states, by the interpreter and inside the function.                     *)
(***************************************************************************)
EXTENDS RspVecBt

\* The bits of two-bit numbers.
MCBitAnd(x, y) == 2 * (x \div 2) * (y \div 2) + (x % 2) * (y % 2)

MCLane(n) == (n % LaneMod) - Half
MCFlag(n, weight) == (n \div weight) % 2 = 1

\* Lane k of the start number n is case 8n + k.
MCStart(n) ==
    LET case == [k \in 0 .. 7 |-> 8 * n + k]
        rest == [k \in 0 .. 7 |-> case[k] \div 16]
    IN  [v |-> [w \in 0 .. NumVecs - 1 |-> [k \in 0 .. 7 |->
                  MCLane((IF w < 2 THEN case[k] ELSE rest[k])
                           \div (IF w % 2 = 0 THEN 1 ELSE LaneMod))]],
         cell |-> [k \in 0 .. 7 |->
                    [acc |-> rest[k] - AccHalf, vco_l |-> MCFlag(rest[k], 1),
                     vco_h |-> MCFlag(rest[k], 2), vcc_l |-> MCFlag(rest[k], 4),
                     vcc_h |-> MCFlag(rest[k], 8), vce |-> MCFlag(rest[k], 16)]],
         r |-> [g \in 0 .. NumGprs - 1 |-> IF g = 0 THEN 0 ELSE (1021 * n) % GprMod]]
MCStarts == {MCStart(n) : n \in 0 .. 127}

Op(fns, elements, s, t, d) == [fn : fns, e : elements, vs : {s}, vt : {t}, vd : {d}]
Move(fns, elements, t, ds) == [fn : fns, e : elements, rt : {t}, vd : ds]

\* Each way of choosing elements; the destination is an operand, or both, or neither.
MCVecInsns ==
    Op(VecFns, {0, 3, 6, 13}, 0, 1, 2) \cup Op({"vsar"}, 8 .. 11, 0, 1, 2)
      \cup Op(VecFns, {3}, 0, 1, 0) \cup Op(VecFns, {6}, 0, 1, 1) \cup Op(VecFns, {5}, 1, 1, 1)
      \cup Move({"mfc2"}, {0, 5, 14, 15}, 1, {1}) \cup Move({"mfc2"}, {2}, 0, {1})
      \cup Move({"mtc2"}, {0, 5, 14, 15}, 1, {1}) \cup Move({"mtc2"}, {2}, 0, {1})
      \cup Move({"cfc2", "ctc2"}, {0}, 1, 0 .. 3)

=============================================================================
