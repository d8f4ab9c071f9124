------------------------------ MODULE RspDmem ------------------------------
(***************************************************************************)
(* What the interpreter's loads and stores do to a memory and a register   *)
(* file: rd32, rd16, wr32, wr16, lwc2 and swc2 of rsp.cc.  Data accesses   *)
(* see the first DmemSize bytes of rsp_t::mem only, wrapping byte by byte  *)
(* at its end, and need no alignment; IMEM lies right behind.              *)
(*                                                                         *)
(* A vector register is NumLanes 16-bit lanes, a lane a pair of bytes.     *)
(* All the arguments are explicit, since the translated code calls these   *)
(* functions too, on a register file that may be out of date.              *)
(***************************************************************************)
EXTENDS Integers

CONSTANTS
    ByteMod,        \* values of a byte; 256 in the program
    NumLanes,       \* lanes of a vector register; 8
    DmemSize,       \* bytes of DMEM; 0x1000
    NumGprs,        \* scalar registers; 32
    NumVecs,        \* vector registers; 32
    FixedSizes,     \* bytes moved by lsv, llv, ldv and the stores; {2, 4, 8}
    Offsets         \* the offset field of an instruction

RegBytes == 2 * NumLanes
Byte == 0 .. ByteMod - 1
WordMod == ByteMod * ByteMod * ByteMod * ByteMod
Word == 0 .. WordMod - 1
Gpr == 0 .. NumGprs - 1
Vec == 0 .. NumVecs - 1
Lane == 0 .. NumLanes - 1
Dmem == 0 .. DmemSize - 1
Imem == DmemSize .. 2 * DmemSize - 1

LaneVal == [hi : Byte, lo : Byte]
VecVal == [Lane -> LaneVal]
MemVal == [0 .. 2 * DmemSize - 1 -> Byte]

ASSUME ByteAssumption == ByteMod \in Nat /\ ByteMod > 1 /\ ByteMod % 2 = 0
ASSUME LaneAssumption == NumLanes \in Nat /\ NumLanes > 0
ASSUME DmemAssumption == DmemSize \in Nat /\ DmemSize > 0 /\ DmemSize % RegBytes = 0
ASSUME WrapAssumption == WordMod % DmemSize = 0
ASSUME FileAssumption ==
    /\ NumGprs \in Nat /\ NumGprs > 1
    /\ NumVecs \in Nat /\ NumVecs > 0 /\ NumVecs % NumLanes = 0
ASSUME SizeAssumption == FixedSizes \subseteq 1 .. RegBytes
ASSUME OffsetAssumption == Offsets \subseteq Int

-----------------------------------------------------------------------------
(* Instructions.  "lnv" is lsv, llv or ldv and "snv" ssv, slv or sdv: one  *)
(* case of the source, n = 1 << op.  n is also what a scalar access moves. *)

ScalarLoads == {"lb", "lbu", "lh", "lhu", "lw"}
ScalarStores == {"sb", "sh", "sw"}
VecLoads == {"lbv", "lnv", "lqv", "lrv", "lpv", "luv", "ltv"}
VecStores == {"sbv", "snv", "sqv", "srv", "spv", "suv"}

\* The bytes a scalar access moves.
ScalarBytes(op) ==
    CASE op \in {"lb", "lbu", "sb"} -> 1
      [] op \in {"lh", "lhu", "sh"} -> 2
      [] op \in {"lw", "sw"} -> 4

\* What the offset of a vector access is scaled by (offs << op).
VecScale(op, n) ==
    CASE op \in {"lbv", "sbv"} -> 1
      [] op \in {"lnv", "snv"} -> n
      [] op \in {"lpv", "luv", "spv", "suv"} -> NumLanes
      [] op \in {"lqv", "lrv", "ltv", "sqv", "srv"} -> RegBytes

ScalarInsn ==
    [op : ScalarLoads \cup ScalarStores, rs : Gpr, rt : Gpr, offs : Offsets]

\* e is the element field.  An ltv whose element picks another diagonal than
\* the first ends the process, so it takes no step.
VecInsn ==
    {i \in [op : VecLoads \cup VecStores, n : FixedSizes, base : Gpr, vt : Vec,
            e : 0 .. RegBytes - 1, offs : Offsets] :
        i.op = "ltv" => i.e \div 2 = 0}

EffAddr(rr, i) == (rr[i.rs] + i.offs) % WordMod

VecEffAddr(rr, i) == (rr[i.base] + i.offs * VecScale(i.op, i.n)) % WordMod

-----------------------------------------------------------------------------
(* Scalar accesses.                                                        *)

\* The values of k bytes; words have four.
BytePow(k) ==
    CASE k = 0 -> 1
      [] k = 1 -> ByteMod
      [] k = 2 -> ByteMod * ByteMod
      [] k = 3 -> ByteMod * ByteMod * ByteMod
      [] k = 4 -> WordMod

\* Mutant: the shifted word is not cut to a byte.
ByteAtUncut(x, k) == x \div BytePow(k)

\* Byte k of a word, the least significant one being byte 0.
ByteAt(x, k) == (x \div BytePow(k)) % ByteMod

\* m with the bytes b, a function on 0 .. n-1, stored from a on.
WriteBytes(m, a, b) ==
    [c \in DOMAIN m |->
        IF c \in Dmem /\ (c - a) % DmemSize \in DOMAIN b
        THEN b[(c - a) % DmemSize]
        ELSE m[c]]

\* rd32, rd16 and the single byte: most significant byte first.
Rd(m, a, n) ==
    CASE n = 1 -> m[a % DmemSize]
      [] n = 2 -> m[a % DmemSize] * ByteMod + m[(a + 1) % DmemSize]
      [] n = 4 -> ((m[a % DmemSize] * ByteMod + m[(a + 1) % DmemSize]) * ByteMod
                     + m[(a + 2) % DmemSize]) * ByteMod + m[(a + 3) % DmemSize]

\* wr32, wr16 and the single byte.
Wr(m, a, x, n) == WriteBytes(m, a, [i \in 0 .. n - 1 |-> ByteAt(x, n - 1 - i)])

\* An n-byte value x taken as signed, as a word.
SignExtend(x, n) ==
    LET M == BytePow(n) IN IF 2 * x < M THEN x ELSE (x - M) % WordMod

\* What a scalar load puts in its register, given the bytes read.
Extended(op, x) ==
    CASE op = "lb" -> SignExtend(x, 1)
      [] op = "lh" -> SignExtend(x, 2)
      [] op \in {"lbu", "lhu", "lw"} -> x

\* rr with x in register t; r0 is zeroed after every instruction.
SetGpr(rr, t, x) == IF t = 0 THEN rr ELSE [rr EXCEPT ![t] = x]

-----------------------------------------------------------------------------
(* Vector accesses.                                                        *)

\* vbyte: byte i of a register, big-endian, wrapping at its end.
Vbyte(vr, i) ==
    LET x == vr[(i % RegBytes) \div 2] IN IF i % 2 = 1 THEN x.lo ELSE x.hi

\* A run of set_vbyte: b is a function on some of the register's bytes.
SetVbytes(vr, b) ==
    [l \in Lane |->
        [hi |-> IF 2 * l \in DOMAIN b THEN b[2 * l] ELSE vr[l].hi,
         lo |-> IF 2 * l + 1 \in DOMAIN b THEN b[2 * l + 1] ELSE vr[l].lo]]

\* The offset of an address inside its row of RegBytes bytes.
InRow(ea) == ea % RegBytes

\* lsv, llv, ldv and lqv: n bytes from ea, as far as the register goes.
LoadLeft(vr, m, ea, e, n) ==
    SetVbytes(vr, [j \in {j \in e .. RegBytes - 1 : j < e + n} |->
                      m[(ea + (j - e)) % DmemSize]])

\* Mutant: one byte too many.
RightStartEarly(ea, e) == RegBytes - 1 - (InRow(ea) - e)

\* The first register byte lrv and srv touch.
RightStart(ea, e) == RegBytes - (InRow(ea) - e)

\* lrv: the bytes of ea's row below ea, right-justified.
LoadRight(vr, m, ea, e) ==
    LET start == RightStart(ea, e) IN
    SetVbytes(vr, [j \in {j \in 0 .. RegBytes - 1 : j >= start} |->
                      m[((ea - InRow(ea)) + (j - start)) % DmemSize]])

\* b << 8 for lpv and b << 7 for luv, as a lane.
Packed(op, b) ==
    IF op = "lpv" THEN [hi |-> b, lo |-> 0]
    ELSE [hi |-> b \div 2, lo |-> (b % 2) * (ByteMod \div 2)]

\* lane >> 8 or lane >> 7, cut to a byte.
Unpacked(shift8, x) ==
    IF shift8 THEN x.hi
    ELSE (x.hi % (ByteMod \div 2)) * 2 + (x.lo \div (ByteMod \div 2))

LoadPacked(m, ea, e, op) ==
    [l \in Lane |-> Packed(op, m[(ea + ((l - e) % NumLanes)) % DmemSize])]

\* ltv: short sl of a window anchored at the half row goes to lane sl of
\* register sl of the group.
LoadTransposed(vv, m, ea, vt) ==
    LET group == vt - (vt % NumLanes)
        off == ea % NumLanes
        at(sl) == ((ea - off) + ((off + 2 * sl) % RegBytes)) % DmemSize
    IN [w \in Vec |->
          IF w - group \in Lane
          THEN [vv[w] EXCEPT ![w - group] =
                  [hi |-> m[at(w - group)], lo |-> m[(at(w - group) + 1) % DmemSize]]]
          ELSE vv[w]]

\* The vector registers after a vector load.
Lwc2(i, m, rr, vv) ==
    LET ea == VecEffAddr(rr, i)
        old == vv[i.vt]
    IN CASE i.op = "lbv" -> [vv EXCEPT ![i.vt] = LoadLeft(old, m, ea, i.e, 1)]
         [] i.op = "lnv" -> [vv EXCEPT ![i.vt] = LoadLeft(old, m, ea, i.e, i.n)]
         [] i.op = "lqv" ->
              [vv EXCEPT ![i.vt] = LoadLeft(old, m, ea, i.e, RegBytes - InRow(ea))]
         [] i.op = "lrv" -> [vv EXCEPT ![i.vt] = LoadRight(old, m, ea, i.e)]
         [] i.op \in {"lpv", "luv"} ->
              [vv EXCEPT ![i.vt] = LoadPacked(m, ea, i.e, i.op)]
         [] i.op = "ltv" -> LoadTransposed(vv, m, ea, i.vt)

\* ssv, slv, sdv, sqv and sbv: n bytes of the register from byte e on.
StoreLeft(vr, m, ea, e, n) ==
    WriteBytes(m, ea, [j \in 0 .. n - 1 |-> Vbyte(vr, e + j)])

\* srv: the mirror of lrv.
StoreRight(vr, m, ea, e) ==
    LET start == RightStart(ea, e) IN
    WriteBytes(m, ea - InRow(ea),
               [j \in 0 .. RegBytes - 1 - start |-> Vbyte(vr, start + j)])

\* Mutant: the element swaps nothing.
StorePackedUnswapped(vr, m, ea, e, op) ==
    WriteBytes(m, ea, [j \in Lane |-> Unpacked(op = "spv", vr[(e + j) % NumLanes])])

\* spv and suv; an element in the upper half swaps the two.
StorePacked(vr, m, ea, e, op) ==
    LET shift8 == (op = "spv") # (e >= NumLanes) IN
    WriteBytes(m, ea, [j \in Lane |-> Unpacked(shift8, vr[(e + j) % NumLanes])])

\* The memory after a vector store.
Swc2(i, m, rr, vv) ==
    LET ea == VecEffAddr(rr, i)
        vr == vv[i.vt]
    IN CASE i.op = "sbv" -> StoreLeft(vr, m, ea, i.e, 1)
         [] i.op = "snv" -> StoreLeft(vr, m, ea, i.e, i.n)
         [] i.op = "sqv" -> StoreLeft(vr, m, ea, i.e, RegBytes - InRow(ea))
         [] i.op = "srv" -> StoreRight(vr, m, ea, i.e)
         [] i.op \in {"spv", "suv"} -> StorePacked(vr, m, ea, i.e, i.op)

=============================================================================
