------------------------------ MODULE RspMemBt ------------------------------
(***************************************************************************)
(* Loads and stores in translated code (loadMem, storeMem, vecLoad and     *)
(* vecStore of rspFunc.cc, and the instructions that use them).            *)
(*                                                                         *)
(* The generated function keeps the registers in locals, gpr and vec, from *)
(* its entry block to its exit block; meanwhile those in rsp_t are out of  *)
(* date.  An access that stays inside DMEM, and inside the register, is    *)
(* one host access at an address that does not wrap.  Every other vector   *)
(* access calls the interpreter's lwc2 or swc2, which works on rsp_t: the  *)
(* registers it needs are stored there first and fetched back after.       *)
(* Accesses the translator does not know are left to the interpreter.      *)
(***************************************************************************)
EXTENDS RspDmem

CONSTANTS
    Values,     \* what instructions that compute leave in a register
    InitMems,   \* memories to start from
    InitGprs,   \* values to start from in every scalar register but r0
    InitVecs,   \* vector register files to start from
    MaxSteps    \* bound on the instructions of a behaviour

ASSUME StartAssumption ==
    /\ Values \subseteq Word /\ InitGprs \subseteq Word
    /\ InitMems \subseteq MemVal /\ InitVecs \subseteq [Vec -> VecVal]
ASSUME StepsAssumption == MaxSteps \in Nat

VARIABLES
    mem,        \* rsp_t::mem: DMEM, then IMEM
    r,          \* rsp_t::r
    v,          \* rsp_t::v
    mode,       \* "bt" inside the generated function, "interp" outside
    gpr,        \* the function's locals for r
    vec,        \* and for v
    steps       \* instructions run so far

vars == <<mem, r, v, mode, gpr, vec, steps>>
locals == <<gpr, vec>>
rspRegs == <<r, v>>

\* The interpreter, working on rsp_t.
Rsp == INSTANCE RspMem

TypeOK ==
    /\ mem \in MemVal
    /\ r \in [Gpr -> Word] /\ r[0] = 0
    /\ v \in [Vec -> VecVal]
    /\ mode \in {"bt", "interp"}
    /\ gpr \in [Gpr -> Word] /\ gpr[0] = 0
    /\ vec \in [Vec -> VecVal]
    /\ steps \in Nat

-----------------------------------------------------------------------------
(* Host accesses: consecutive bytes, least significant first.              *)

HostLoad(m, a, n) == [j \in 0 .. n - 1 |-> m[a + j]]

HostStore(m, a, b) ==
    [c \in DOMAIN m |-> IF c - a \in DOMAIN b THEN b[c - a] ELSE m[c]]

\* The number whose bytes are b, least significant first; n is 1, 2 or 4.
HostWord(b, n) ==
    CASE n = 1 -> b[0]
      [] n = 2 -> b[1] * ByteMod + b[0]
      [] n = 4 -> ((b[3] * ByteMod + b[2]) * ByteMod + b[1]) * ByteMod + b[0]

\* The intrinsic bswap on n bytes.
Bswap(b, n) == [j \in 0 .. n - 1 |-> b[n - 1 - j]]

\* Mutant: off by one.
FitsInDmemNearly(ea, n) == ea % DmemSize <= DmemSize - n + 1

\* rspFunc::fitsInDmem.
FitsInDmem(ea, n) == ea % DmemSize <= DmemSize - n

\* rspFunc::loadMem: the bytes n >= 2 inside DMEM in one load, else rspbt_rd.
LoadMem(m, ea, n) ==
    LET ea12 == ea % DmemSize IN
    IF n = 1 THEN m[ea12]
    ELSE IF FitsInDmem(ea, n)
    THEN HostWord(Bswap(HostLoad(m, ea12, n), n), n)
    ELSE Rd(m, ea, n)

\* rspFunc::storeMem.
StoreMem(m, ea, x, n) ==
    LET ea12 == ea % DmemSize
        low == [j \in 0 .. n - 1 |-> ByteAt(x, j)]
    IN IF n = 1 THEN HostStore(m, ea12, low)
       ELSE IF FitsInDmem(ea, n)
       THEN HostStore(m, ea12, Bswap(low, n))
       ELSE Wr(m, ea, x, n)

-----------------------------------------------------------------------------
(* A vector local as bytes.                                                *)

\* The bitcast of a vector of lanes to bytes, on a little-endian host.
HostBytes(vr) ==
    [j \in 0 .. RegBytes - 1 |-> IF j % 2 = 0 THEN vr[j \div 2].lo ELSE vr[j \div 2].hi]

SwapPairs(b) ==
    [j \in 0 .. RegBytes - 1 |-> b[IF j % 2 = 0 THEN j + 1 ELSE j - 1]]

ToBytes(vr) == SwapPairs(HostBytes(vr))

FromBytes(b) ==
    LET h == SwapPairs(b) IN [l \in Lane |-> [hi |-> h[2 * l + 1], lo |-> h[2 * l]]]

-----------------------------------------------------------------------------
(* vecLoad and vecStore.                                                   *)

Translated == {"lnv", "lqv", "lrv", "snv", "sqv"}

Kind(op) ==
    CASE op \in {"lnv", "snv"} -> "FIXED"
      [] op \in {"lqv", "sqv"} -> "ROW_LEFT"
      [] op = "lrv" -> "ROW_RIGHT"

\* fastCond of vecLoad and vecStore.
FastCond(i, ea) ==
    CASE Kind(i.op) = "FIXED" -> i.e + i.n <= RegBytes /\ FitsInDmem(ea, i.n)
      [] Kind(i.op) = "ROW_LEFT" -> i.e = 0 /\ ea % DmemSize <= DmemSize - RegBytes
      [] Kind(i.op) = "ROW_RIGHT" -> i.e = 0 /\ ea % DmemSize >= RegBytes

\* vl_fast: the register after an inline load.
VecLoadFast(i, m, ea, vr) ==
    LET ea12 == ea % DmemSize
        old == ToBytes(vr)
        n == RegBytes - InRow(ea)
        win == IF Kind(i.op) = "ROW_LEFT" THEN ea12 ELSE ea12 - RegBytes
        take(j) == IF Kind(i.op) = "ROW_LEFT" THEN j < n ELSE j >= n
        blend == [j \in 0 .. RegBytes - 1 |->
                    IF j >= i.e /\ j < i.e + i.n
                    THEN HostLoad(m, ea12, i.n)[j - i.e] ELSE old[j]]
        row == [j \in 0 .. RegBytes - 1 |->
                    IF take(j) THEN HostLoad(m, win, RegBytes)[j] ELSE old[j]]
    IN FromBytes(IF Kind(i.op) = "FIXED" THEN blend ELSE row)

\* vs_fast: the memory after an inline store.
VecStoreFast(i, m, ea, vr) ==
    LET ea12 == ea % DmemSize
        bytes == ToBytes(vr)
        n == RegBytes - InRow(ea)
        cur == HostLoad(m, ea12, RegBytes)
    IN HostStore(m, ea12,
                 IF Kind(i.op) = "FIXED"
                 THEN [j \in 0 .. i.n - 1 |-> bytes[i.e + j]]
                 ELSE [j \in 0 .. RegBytes - 1 |-> IF j < n THEN bytes[j] ELSE cur[j]])

\* Mutant: the base register is not stored before the call.
SlowGprsStale(i) == r

\* What vl_slow and vs_slow store into rsp_t before they call the interpreter.
SlowGprs(i) == IF i.base # 0 THEN [r EXCEPT ![i.base] = gpr[i.base]] ELSE r
SlowVecs(i) == [v EXCEPT ![i.vt] = vec[i.vt]]

-----------------------------------------------------------------------------
(* Behaviour.                                                              *)

\* The function has just been entered: its locals are copies of rsp_t.
Init ==
    /\ mem \in InitMems
    /\ \E f \in [Gpr \ {0} -> InitGprs] : r = [t \in Gpr |-> IF t = 0 THEN 0 ELSE f[t]]
    /\ v \in InitVecs
    /\ mode = "bt"
    /\ gpr = r
    /\ vec = v
    /\ steps = 0

Count ==
    /\ steps < MaxSteps
    /\ steps' = steps + 1

Compute ==
    /\ mode = "bt" /\ Count
    /\ \E t \in Gpr \ {0}, x \in Values : gpr' = SetGpr(gpr, t, x)
    /\ UNCHANGED <<mem, rspRegs, mode, vec>>

Load(i) ==
    /\ mode = "bt" /\ i.op \in ScalarLoads /\ Count
    /\ gpr' = SetGpr(gpr, i.rt,
                  Extended(i.op, LoadMem(mem, EffAddr(gpr, i), ScalarBytes(i.op))))
    /\ UNCHANGED <<mem, rspRegs, mode, vec>>

Store(i) ==
    /\ mode = "bt" /\ i.op \in ScalarStores /\ Count
    /\ mem' = StoreMem(mem, EffAddr(gpr, i), gpr[i.rt], ScalarBytes(i.op))
    /\ UNCHANGED <<rspRegs, mode, locals>>

VecLoadInline(i) ==
    /\ mode = "bt" /\ i.op \in VecLoads \cap Translated /\ Count
    /\ FastCond(i, VecEffAddr(gpr, i))
    /\ vec' = [vec EXCEPT ![i.vt] =
                  VecLoadFast(i, mem, VecEffAddr(gpr, i), vec[i.vt])]
    /\ UNCHANGED <<mem, rspRegs, mode, gpr>>

VecLoadCall(i) ==
    /\ mode = "bt" /\ i.op \in VecLoads \cap Translated /\ Count
    /\ ~FastCond(i, VecEffAddr(gpr, i))
    /\ r' = SlowGprs(i)
    /\ v' = Lwc2(i, mem, SlowGprs(i), SlowVecs(i))
    /\ vec' = [vec EXCEPT ![i.vt] = Lwc2(i, mem, SlowGprs(i), SlowVecs(i))[i.vt]]
    /\ UNCHANGED <<mem, mode, gpr>>

VecStoreInline(i) ==
    /\ mode = "bt" /\ i.op \in VecStores \cap Translated /\ Count
    /\ FastCond(i, VecEffAddr(gpr, i))
    /\ mem' = VecStoreFast(i, mem, VecEffAddr(gpr, i), vec[i.vt])
    /\ UNCHANGED <<rspRegs, mode, locals>>

VecStoreCall(i) ==
    /\ mode = "bt" /\ i.op \in VecStores \cap Translated /\ Count
    /\ ~FastCond(i, VecEffAddr(gpr, i))
    /\ r' = SlowGprs(i)
    /\ v' = SlowVecs(i)
    /\ mem' = Swc2(i, mem, SlowGprs(i), SlowVecs(i))
    /\ UNCHANGED <<mode, locals>>

\* The exit block.
Leave ==
    /\ mode = "bt"
    /\ mode' = "interp"
    /\ r' = gpr
    /\ v' = vec
    /\ UNCHANGED <<mem, locals, steps>>

\* The entry block.
Enter ==
    /\ mode = "interp"
    /\ mode' = "bt"
    /\ gpr' = r
    /\ vec' = v
    /\ UNCHANGED <<mem, rspRegs, steps>>

\* The interpreter, on rsp_t, for what the translator does not know and for
\* whatever follows until the function is entered again.
Interpret ==
    /\ mode = "interp" /\ Count
    /\ Rsp!Next
    /\ UNCHANGED <<mode, locals>>

Next ==
    \/ Compute
    \/ \E i \in ScalarInsn : Load(i) \/ Store(i)
    \/ \E i \in VecInsn :
          VecLoadInline(i) \/ VecLoadCall(i) \/ VecStoreInline(i) \/ VecStoreCall(i)
    \/ Leave
    \/ Enter
    \/ Interpret

Spec == Init /\ [][Next]_vars

-----------------------------------------------------------------------------
(* Properties.                                                             *)

\* The registers the program sees: the locals while there are any.
Core == INSTANCE RspMem WITH r <- IF mode = "bt" THEN gpr ELSE r,
                             v <- IF mode = "bt" THEN vec ELSE v

\* Whatever way an access takes - inline, through a callback, or after leaving
\* the function - it does what the interpreter would have done: memory and the
\* registers the program sees change as lwc2, swc2, rd and wr change them.
ImplementsCore == Core!Spec

\* No load or store changes instruction memory, which lies right behind DMEM:
\* imem_gen is bumped by DMA only, so nobody would notice.
ImemUntouched == [][\A a \in Imem : mem'[a] = mem[a]]_mem

\* The idiom for unaligned registers, on the state at hand while there is a step
\* left: sqv at ea and srv at the row's end leave the register's bytes at ea
\* onwards, touch nothing else, and lqv and lrv of the same two addresses bring
\* the register back.
UnalignedRoundTrip ==
    steps < MaxSteps => \A ea \in Dmem, w, x \in Vec :
        LET stored == StoreRight(v[w], StoreLeft(v[w], mem, ea, 0, RegBytes - InRow(ea)),
                                 ea + RegBytes, 0)
            left == LoadLeft(v[x], stored, ea, 0, RegBytes - InRow(ea))
        IN /\ stored = WriteBytes(mem, ea, [j \in 0 .. RegBytes - 1 |-> Vbyte(v[w], j)])
           /\ LoadRight(left, stored, ea + RegBytes, 0) = v[w]

\* lpv and luv are undone by the store of the same name, or by the other one
\* when the element is in the upper half, whatever lane they start at.
PackedRoundTrip ==
    steps < MaxSteps => \A ea \in Dmem, e \in 0 .. RegBytes - 1, unsigned \in BOOLEAN :
        LET loaded == LoadPacked(mem, ea, e, IF unsigned THEN "luv" ELSE "lpv")
            store == IF unsigned # (e >= NumLanes) THEN "suv" ELSE "spv"
        IN StorePacked(loaded, mem, ea, e, store) = mem

=============================================================================
