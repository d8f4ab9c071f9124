------------------------------- MODULE RspMem -------------------------------
(***************************************************************************)
(* The interpreter's data side: one memory, one register file, one load or *)
(* store at a time (cases 0x20-0x2b, 0x32 and 0x3a of rsp_t::run).  This   *)
(* is what translated code has to implement; see RspMemBt.                 *)
(***************************************************************************)
EXTENDS RspDmem

CONSTANT Values     \* what instructions that compute leave in a register; words

VARIABLES
    mem,    \* rsp_t::mem: DMEM, then IMEM
    r,      \* rsp_t::r
    v       \* rsp_t::v

vars == <<mem, r, v>>

Init ==
    /\ mem \in MemVal
    /\ r \in [Gpr -> Word] /\ r[0] = 0
    /\ v \in [Vec -> VecVal]

\* Any instruction that computes a scalar register.
Compute ==
    /\ \E t \in Gpr \ {0}, x \in Values : r' = SetGpr(r, t, x)
    /\ UNCHANGED <<mem, v>>

Load(i) ==
    /\ i.op \in ScalarLoads
    /\ r' = SetGpr(r, i.rt,
                   Extended(i.op, Rd(mem, EffAddr(r, i), ScalarBytes(i.op))))
    /\ UNCHANGED <<mem, v>>

Store(i) ==
    /\ i.op \in ScalarStores
    /\ mem' = Wr(mem, EffAddr(r, i), r[i.rt], ScalarBytes(i.op))
    /\ UNCHANGED <<r, v>>

VecLoad(i) ==
    /\ i.op \in VecLoads
    /\ v' = Lwc2(i, mem, r, v)
    /\ UNCHANGED <<mem, r>>

VecStore(i) ==
    /\ i.op \in VecStores
    /\ mem' = Swc2(i, mem, r, v)
    /\ UNCHANGED <<r, v>>

Next ==
    \/ Compute
    \/ \E i \in ScalarInsn : Load(i) \/ Store(i)
    \/ \E i \in VecInsn : VecLoad(i) \/ VecStore(i)

Spec == Init /\ [][Next]_vars

=============================================================================
