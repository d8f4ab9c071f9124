------------------------------- MODULE RspIsa -------------------------------
(***************************************************************************)
(* The data an instruction works on: the scalar registers and the SP       *)
(* registers a DMA reads.  Register values are numbers below NumVals; a    *)
(* jump takes such a value modulo the size of IMEM (the & 0xffc of jr).    *)
(* "plain" stands for every instruction that only computes, and does what  *)
(* addiu does.                                                             *)
(*                                                                         *)
(* A DMA into instruction memory turns one image into another.  How is     *)
(* left to the constants below; what they have to satisfy is what rsp.cc's *)
(* dma guarantees (SpRegs models it).                                      *)
(***************************************************************************)
EXTENDS RspImage

CONSTANTS
    NumRegs,            \* scalar registers; 32 in the program
    NumVals,            \* values a register can hold; 2^32 in the program
    GenMod,             \* values of imem_gen; 2^64, which no transfer comes near
    ImemBank,           \* the sp_mem_addr values with bit 0x1000 set
    DmaImage(_,_,_,_),  \* IMEM after a DMA into it (image, sp_mem, sp_dram, length)
    DmaMem(_,_),        \* sp_mem_addr after a DMA (sp_mem, length)
    DmaDram(_,_),       \* sp_dram_addr after a DMA (sp_dram, length)
    DmaRows(_)          \* rows a length register value asks for; each bumps imem_gen

Reg == 0 .. NumRegs - 1
Ra == NumRegs - 1       \* r31
Value == 0 .. NumVals - 1

\* COP0 destinations of mtc0: SP_MEM_ADDR, SP_DRAM_ADDR, RD_LEN, WR_LEN, those
\* whose write has no effect on anything modelled here (STATUS, SEMAPHORE, DPC),
\* and those that RSP_DIE.
Cop0Regs == {"mem", "dram", "rd_len", "wr_len", "other", "bad"}

ASSUME RegAssumption == NumRegs \in Nat /\ NumRegs > 1
ASSUME ValueAssumption == NumVals \in Nat /\ NumVals >= NumWords
ASSUME GenAssumption == GenMod \in Nat /\ GenMod > 1
ASSUME InsnAssumption ==
    \A img \in Images : \A a \in Addr :
        /\ img[a].rs \in Reg /\ img[a].rt \in Reg /\ img[a].rd \in Reg
        /\ img[a].imm \in Value
        /\ img[a].c0 \in Cop0Regs
ASSUME DmaAssumption ==
    \A img \in Images, m \in Value, d \in Value, x \in Value :
        /\ DmaImage(img, m, d, x) \in Images
        /\ DmaMem(m, x) \in Value
        /\ DmaDram(d, x) \in Value
        /\ DmaRows(x) \in 1 .. GenMod - 1

\* What a register value means as a jump target.
JumpAddr(v) == v % NumWords

=============================================================================
