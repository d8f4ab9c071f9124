------------------------------- MODULE RspCore -------------------------------
(***************************************************************************)
(* The machine as rsp_t::run executes it, one instruction at a time: fetch *)
(* from instruction memory at pc, execute, and move on to next_pc, which a *)
(* control instruction has redirected one instruction late (the delay      *)
(* slot).  The host starts tasks and loads microcode between them.         *)
(*                                                                         *)
(* This is the abstract specification that the translator implements.      *)
(***************************************************************************)
EXTENDS RspIsa

VARIABLES
    imem, imem_gen,     \* the IMEM half of rsp_t::mem, and its generation
    r,                  \* rsp_t::r
    sp_mem, sp_dram,    \* rsp_t::sp_mem_addr, rsp_t::sp_dram_addr
    halted,             \* rsp_t::halted
    died,               \* RSP_DIE has ended the process
    ip                  \* pc and next_pc of the task being run

rspVars == << imem, imem_gen, r, sp_mem, sp_dram >>
vars == << rspVars, halted, died, ip >>

NoTask == [pc |-> -1, next |-> -1]
At(a) == [pc |-> a, next |-> NextAddr(a)]

TypeOK ==
    /\ imem \in Images
    /\ imem_gen \in 0 .. GenMod - 1
    /\ r \in [Reg -> Value] /\ r[0] = 0
    /\ sp_mem \in Value /\ sp_dram \in Value
    /\ halted \in BOOLEAN /\ died \in BOOLEAN
    /\ ip \in [pc : Addr, next : Addr] \cup {NoTask}

Init ==
    /\ imem \in Images
    /\ imem_gen = 0
    /\ r = [x \in Reg |-> 0]
    /\ sp_mem = 0 /\ sp_dram = 0
    /\ halted = TRUE /\ died = FALSE
    /\ ip = NoTask

-----------------------------------------------------------------------------
(* The host, between tasks. *)

\* Microcode is put in IMEM by DMAs driven from the CPU side, or written there.
Load(img) ==
    /\ ip = NoTask /\ ~died
    /\ imem' = img
    /\ imem_gen' \in 0 .. GenMod - 1
    /\ UNCHANGED << r, sp_mem, sp_dram, halted, died, ip >>

Kick(a) ==
    /\ ip = NoTask /\ ~died
    /\ halted' = FALSE
    /\ ip' = At(a)
    /\ UNCHANGED << rspVars, died >>

-----------------------------------------------------------------------------
(* One instruction. *)

Running == ip # NoTask /\ ~died
Insn == imem[ip.pc]
Fall == NextAddr(ip.next)          \* `after` unless something sets it

\* r[0] is forced back to zero after every instruction.
Written(d, v) == [[r EXCEPT ![d] = v] EXCEPT ![0] = 0]
Advance(after) == ip' = [pc |-> ip.next, next |-> after]

StepPlain ==
    /\ Running /\ Insn.op \in {"plain", "interp"}
    /\ r' = Written(Insn.rd, (r[Insn.rs] + Insn.imm) % NumVals)
    /\ Advance(Fall)
    /\ UNCHANGED << imem, imem_gen, sp_mem, sp_dram, halted, died >>

\* rsp_t::mtc0.  A DMA is complete when the mtc0 that starts it is.
Mtc0(c0, x) ==
    /\ sp_mem' = CASE c0 = "mem" -> x
                   [] c0 \in {"rd_len", "wr_len"} -> DmaMem(sp_mem, x)
                   [] OTHER -> sp_mem
    /\ sp_dram' = CASE c0 = "dram" -> x
                    [] c0 \in {"rd_len", "wr_len"} -> DmaDram(sp_dram, x)
                    [] OTHER -> sp_dram
    /\ IF c0 = "rd_len" /\ sp_mem \in ImemBank
         THEN /\ imem' = DmaImage(imem, sp_mem, sp_dram, x)
              /\ imem_gen' = (imem_gen + DmaRows(x)) % GenMod
         ELSE UNCHANGED << imem, imem_gen >>

StepMtc0 ==
    /\ Running /\ Insn.op = "mtc0" /\ Insn.c0 # "bad"
    /\ Mtc0(Insn.c0, r[Insn.rt])
    /\ Advance(Fall)
    /\ UNCHANGED << r, halted, died >>

\* Branch targets are relative to next_pc, links are what follows the slot.
BranchTo == (ip.next + Insn.t) % NumWords
Taken == r[Insn.rs] = r[Insn.rt]

StepBranch ==
    /\ Running /\ Insn.op \in {"branch", "bal"}
    /\ r' = IF Insn.op = "bal" THEN Written(Ra, Fall) ELSE r
    /\ Advance(IF Taken THEN BranchTo ELSE Fall)
    /\ UNCHANGED << imem, imem_gen, sp_mem, sp_dram, halted, died >>

StepJump ==
    /\ Running /\ Insn.op \in {"j", "jal"}
    /\ r' = IF Insn.op = "jal" THEN Written(Ra, Fall) ELSE r
    /\ Advance(Insn.t)
    /\ UNCHANGED << imem, imem_gen, sp_mem, sp_dram, halted, died >>

\* The target is read before the link is written.
StepJumpReg ==
    /\ Running /\ Insn.op \in {"jr", "jalr"}
    /\ r' = IF Insn.op = "jalr" THEN Written(Insn.rd, Fall) ELSE r
    /\ Advance(JumpAddr(r[Insn.rs]))
    /\ UNCHANGED << imem, imem_gen, sp_mem, sp_dram, halted, died >>

StepBreak ==
    /\ Running /\ Insn.op = "break"
    /\ halted' = TRUE
    /\ ip' = NoTask
    /\ UNCHANGED << rspVars, died >>

StepDie ==
    /\ Running
    /\ Insn.op = "illegal" \/ (Insn.op = "mtc0" /\ Insn.c0 = "bad")
    /\ died' = TRUE
    /\ UNCHANGED << rspVars, halted, ip >>

Step ==
    \/ StepPlain \/ StepMtc0 \/ StepBranch \/ StepJump \/ StepJumpReg
    \/ StepBreak \/ StepDie

Next ==
    \/ \E img \in Images : Load(img)
    \/ \E a \in Addr : Kick(a)
    \/ Step

Spec == Init /\ [][Next]_vars

=============================================================================
