----------------------------- MODULE RspBtProofs -----------------------------
(***************************************************************************)
(* Proofs about RspBt.  The type invariant needs no hypothesis; that the   *)
(* translation being run is the one of the image in IMEM needs a hash that *)
(* does not collide.                                                       *)
(***************************************************************************)
EXTENDS RspBt, RspImageProofs

USE DEF NoTask, Interp!NoTask, NoTarget, HaltedRet, NoEntry

\* imem_gen stays in range and a bump is visible.
LEMMA GenBump ==
    ASSUME NEW g \in 0 .. GenMod - 1, NEW n \in 1 .. GenMod - 1
    PROVE  (g + n) % GenMod \in 0 .. GenMod - 1 /\ (g + n) % GenMod # g
<1>1. CASE g + n < GenMod
  BY <1>1, GenAssumption
<1>2. CASE g + n >= GenMod
  <2>1. (g + n) % GenMod = g + n - GenMod
    BY <1>2, GenAssumption
  <2> QED
    BY <2>1, <1>2, GenAssumption
<1> QED
  BY <1>1, <1>2, GenAssumption

\* A register value names an instruction once masked, and an address is a value.
LEMMA JumpAddrType ==
    /\ \A v \in Value : JumpAddr(v) \in Addr
    /\ Addr \subseteq Value
BY NumWordsAssumption, ValueAssumption DEF JumpAddr, Value, Addr

\* Sums wrap to values.
LEMMA SumType ==
    ASSUME NEW v \in Value, NEW w \in Value
    PROVE  (v + w) % NumVals \in Value
BY NumWordsAssumption, ValueAssumption DEF Value

\* Compilation leaves roots in IMEM.
LEMMA CompiledRootsType ==
    ASSUME NEW i, NEW R
    PROVE  CompiledRoots(i, R) \subseteq Addr
BY DEF CompiledRoots

\* The interpreter instance shares the constants.
LEMMA SameIsa ==
    /\ Interp!Addr = Addr /\ Interp!Reg = Reg /\ Interp!Value = Value /\ Interp!Ra = Ra
    /\ \A a : Interp!NextAddr(a) = NextAddr(a)
    /\ \A v : Interp!JumpAddr(v) = JumpAddr(v)
BY DEF Interp!Addr, Addr, Interp!Reg, Reg, Interp!Value, Value, Interp!Ra, Ra,
   Interp!NextAddr, NextAddr, Interp!JumpAddr, JumpAddr

-----------------------------------------------------------------------------
(* Types of the pieces that the actions are built from. *)

\* An entry that is given the image it is filed under, and roots.
LEMMA AddRootsType ==
    ASSUME NEW e \in Entry, NEW i \in Images, NEW R, R \subseteq Addr
    PROVE  AddRoots([e EXCEPT !.imem = i], R) \in Entry
<1>1. [e EXCEPT !.imem = i] \in Entry
  BY DEF Entry
<1>2. \A x \in Entry : AddRoots(x, R) \in Entry
  BY DEF AddRoots, Entry
<1> QED
  BY <1>1, <1>2

\* mtc0, and what it can do to instruction memory.
LEMMA Mtc0Type ==
    ASSUME Interp!TypeOK, NEW c0, NEW x \in Value, Interp!Mtc0(c0, x)
    PROVE  /\ imem' \in Images /\ imem_gen' \in 0 .. GenMod - 1
           /\ sp_mem' \in Value /\ sp_dram' \in Value
           /\ imem_gen' = imem_gen => imem' = imem
           /\ c0 # "rd_len" => imem_gen' = imem_gen
<1>1. imem \in Images /\ imem_gen \in 0 .. GenMod - 1 /\ sp_mem \in Value /\ sp_dram \in Value
  BY SameIsa DEF Interp!TypeOK
<1>2. sp_mem' \in Value /\ sp_dram' \in Value
  BY <1>1, DmaAssumption DEF Interp!Mtc0
<1>3. CASE c0 = "rd_len" /\ sp_mem \in ImemBank
  BY <1>1, <1>2, <1>3, DmaAssumption, GenBump DEF Interp!Mtc0
<1>4. CASE ~(c0 = "rd_len" /\ sp_mem \in ImemBank)
  BY <1>1, <1>2, <1>4 DEF Interp!Mtc0
<1> QED
  BY <1>3, <1>4

\* Writing a register of rsp_t.
LEMMA WrittenType ==
    ASSUME Interp!TypeOK, NEW d \in Reg, NEW v \in Value
    PROVE  Interp!Written(d, v) \in [Reg -> Value] /\ Interp!Written(d, v)[0] = 0
BY SameIsa, RegAssumption, NumWordsAssumption, ValueAssumption
DEF Interp!TypeOK, Interp!Written, Reg, Value

\* Reading and writing a register of the translated function.
LEMMA GprType ==
    ASSUME TypeOK, NEW d \in Reg, NEW v \in Value
    PROVE  /\ ReadGpr(d) \in Value
           /\ WithGpr(d, v) \in [Reg -> Value] /\ WithGpr(d, v)[0] = 0
BY RegAssumption, NumWordsAssumption, ValueAssumption
DEF TypeOK, ReadGpr, WithGpr, Reg, Value

\* One instruction of the interpreter keeps the machine well typed and stops the
\* task only by halting.
LEMMA StepType ==
    ASSUME Interp!TypeOK, Interp!Step
    PROVE  Interp!TypeOK'
<1> DEFINE i == Interp!Insn
<1>1. /\ ip \in [pc : Addr, next : Addr] /\ ~died
      /\ ip.pc \in Addr /\ ip.next \in Addr
      /\ i \in {imem[a] : a \in Addr}
  BY SameIsa DEF Interp!TypeOK, Interp!Step, Interp!StepPlain, Interp!StepMtc0, Interp!StepBranch,
     Interp!StepJump, Interp!StepJumpReg, Interp!StepBreak, Interp!StepDie, Interp!Running,
     Interp!Insn
<1>2. /\ i.rs \in Reg /\ i.rt \in Reg /\ i.rd \in Reg /\ i.imm \in Value /\ i.t \in Addr
      /\ Ra \in Reg
  BY <1>1, InsnAssumption, ImagesAssumption, RegAssumption DEF Interp!TypeOK, Ra, Reg
<1>3. /\ Interp!Fall \in Addr /\ Interp!Fall \in Value
      /\ r[i.rs] \in Value /\ r[i.rt] \in Value /\ JumpAddr(r[i.rs]) \in Addr
      /\ (r[i.rs] + i.imm) % NumVals \in Value
      /\ Interp!BranchTo \in Addr
  <2>1. Interp!Fall \in Addr
    BY <1>1, SameIsa, AddrType DEF Interp!Fall
  <2>2. r[i.rs] \in Value /\ r[i.rt] \in Value
    BY <1>2, SameIsa DEF Interp!TypeOK
  <2>3. Interp!BranchTo \in Addr
    BY <1>1, <1>2, NumWordsAssumption DEF Interp!BranchTo, Addr
  <2> QED
    BY <1>2, <2>1, <2>2, <2>3, JumpAddrType, SumType
<1>4. \A b \in Addr : [pc |-> ip.next, next |-> b] \in [pc : Addr, next : Addr]
  BY <1>1
<1> HIDE DEF i
<1>5. CASE Interp!StepPlain
  BY <1>2, <1>3, <1>4, <1>5, SameIsa, WrittenType DEF Interp!StepPlain, Interp!TypeOK, Interp!Advance, i
<1>6. CASE Interp!StepMtc0
  BY <1>2, <1>3, <1>4, <1>6, SameIsa, Mtc0Type DEF Interp!StepMtc0, Interp!TypeOK, Interp!Advance, i
<1>7. CASE Interp!StepBranch
  BY <1>2, <1>3, <1>4, <1>7, SameIsa, WrittenType DEF Interp!StepBranch, Interp!TypeOK, Interp!Advance, i
<1>8. CASE Interp!StepJump
  BY <1>2, <1>3, <1>4, <1>8, SameIsa, WrittenType DEF Interp!StepJump, Interp!TypeOK, Interp!Advance, i
<1>9. CASE Interp!StepJumpReg
  BY <1>2, <1>3, <1>4, <1>9, SameIsa, WrittenType DEF Interp!StepJumpReg, Interp!TypeOK, Interp!Advance, i
<1>10. CASE Interp!StepBreak \/ Interp!StepDie
  BY <1>10 DEF Interp!StepBreak, Interp!StepDie, Interp!TypeOK, Interp!rspVars
<1> QED
  BY <1>5, <1>6, <1>7, <1>8, <1>9, <1>10 DEF Interp!Step

-----------------------------------------------------------------------------
(* The translated function. *)

\* Whenever the function is entered or runs, it exists and is made of an image.
LEMMA CodeType ==
    ASSUME BaseInv, stage \in {"enter", "jit"}
    PROVE  last \in Hashes /\ Code \in Images /\ Cases \in SUBSET Addr
BY DEF BaseInv, TypeOK, StageConsistent, Entry, Code, Cases

\* The instruction being executed.
LEMMA InsnType ==
    ASSUME BaseInv, stage = "jit"
    PROVE  /\ at[1] \in Addr /\ at[2] \in CallStrings /\ Pc \in Addr
           /\ Insn.rs \in Reg /\ Insn.rt \in Reg /\ Insn.rd \in Reg
           /\ Insn.imm \in Value /\ Insn.t \in Addr /\ Insn.c0 \in Cop0Regs
<1>1. at[1] \in Addr /\ at[2] \in CallStrings
  BY DEF BaseInv, TypeOK, Keys
<1>2. Pc \in Addr
  BY <1>1, AddrType DEF Pc
<1> QED
  BY <1>1, <1>2, CodeType, InsnAssumption, ImagesAssumption DEF Insn

\* Control leaves a plain instruction for a key, or leaves the function.
LEMMA OnwardType ==
    ASSUME BaseInv, stage = "jit", Onward
    PROVE  /\ at' \in Keys /\ target' = NoTarget
           /\ \/ stage' = "jit" /\ ret' = ret
              \/ stage' = "exit" /\ ret' \in Addr
<1>1. CASE target = NoTarget
  BY <1>1, InsnType, AddrType DEF Onward, Keys
<1>2. CASE target # NoTarget
  <2>1. target \in Addr /\ IsControl(Code[at[1]]) /\ at \in Keys
    BY <1>2 DEF BaseInv, TypeOK, StageConsistent, Control
  <2>2. EmitTargets(Code, at[1], at[2], Cases) \subseteq Keys
    BY <2>1, InsnType, CodeType, EmitTargetsType
  <2> QED
    BY <1>2, <2>1, <2>2 DEF Onward, ExitWith
<1> QED
  BY <1>1, <1>2

-----------------------------------------------------------------------------
(* The invariant that needs no hypothesis. *)

\* Type correctness, with what each stage of run guarantees about its locals.
THEOREM BaseInvariant == Spec => []BaseInv
<1>1. Init => BaseInv
  <2> SUFFICES ASSUME Init PROVE BaseInv
    OBVIOUS
  <2>1. Interp!TypeOK
    <3>1. 0 \in Value /\ 0 \in Reg /\ 0 \in 0 .. GenMod - 1
      BY NumWordsAssumption, ValueAssumption, GenAssumption, RegAssumption DEF Value, Reg
    <3>2. r \in [Reg -> Value] /\ r[0] = 0
      BY <3>1, SameIsa DEF Init, Interp!Init
    <3> QED
      BY <3>1, <3>2, SameIsa DEF Init, Interp!Init, Interp!TypeOK
  <2>2. Nowhere \in Keys /\ 0 \in Addr
    <3>1. 0 \in Addr
      BY NumWordsAssumption DEF Addr
    <3>2. NoContext \in CallStrings
      BY MaxCallDepthAssumption DEF CallStrings, NoContext
    <3> QED
      BY <3>1, <3>2 DEF Nowhere, Keys
  <2>3. NoGpr \in [Reg -> Value] /\ NoGpr[0] = 0 /\ 0 \in 0 .. GenMod - 1 /\ 0 \in 0 .. MaxTasks
    BY NumWordsAssumption, ValueAssumption, GenAssumption, RegAssumption, HostAssumption
    DEF NoGpr, Reg, Value
  <2>4. cache \in [Hashes -> Entry]
    BY DEF Init, NewEntry, Entry
  <2>5. TypeOK
    BY <2>1, <2>2, <2>3, <2>4 DEF Init, TypeOK, Stages
  <2> QED
    BY <2>5 DEF Init, Interp!Init, BaseInv, StageConsistent, NewEntry
<1>2. BaseInv /\ [Next]_vars => BaseInv'
  <2> SUFFICES ASSUME BaseInv, [Next]_vars
               PROVE  BaseInv'
    OBVIOUS
  <2> USE DEF BaseInv
  <2>1. CASE Load
    <3>1. TypeOK'
      BY <2>1, GenBump, SameIsa
      DEF Load, Interp!Load, TypeOK, Interp!TypeOK, runVars, fnVars
    <3>2. StageConsistent'
      BY <2>1 DEF Load, Interp!Load, StageConsistent, Code, runVars, fnVars
    <3> QED
      BY <3>1, <3>2
  <2>2. CASE Run
    <3>1. TypeOK'
      <4>1. tasks' \in 0 .. MaxTasks
        BY <2>2, HostAssumption DEF Run, TypeOK
      <4>2. cur' \in Addr /\ hints' \subseteq Addr
        BY <2>2, HostAssumption DEF Run
      <4>3. Interp!TypeOK'
        BY <2>2 DEF Run, TypeOK, Interp!TypeOK
      <4> QED
        BY <2>2, <4>1, <4>2, <4>3 DEF Run, TypeOK, Stages, fnVars
    <3>2. StageConsistent'
      BY <2>2 DEF Run, StageConsistent, TypeOK, Code, fnVars
    <3> QED
      BY <3>1, <3>2
  <2>3. CASE Lookup
    <3>1. Found \in Hashes
      BY DEF Found, TypeOK, Interp!TypeOK, Hashes
    <3>2. AddRoots([cache[Found] EXCEPT !.imem = imem], {cur} \cup hints) \in Entry
      <4>1. /\ cache[Found] \in Entry /\ imem \in Images /\ {cur} \cup hints \subseteq Addr
        BY <3>1 DEF TypeOK, Interp!TypeOK
      <4> QED
        BY ONLY <4>1, AddRootsType
    <3>3. TypeOK'
      BY <2>3, <3>1, <3>2 DEF Lookup, TypeOK, Interp!TypeOK, Stages, coreVars, runVars, fnVars
    <3>4. StageConsistent'
      BY <2>3, <3>1, HashAssumption
      DEF Lookup, StageConsistent, TypeOK, AddRoots, Entry, Hashes, Code, coreVars, runVars, fnVars
    <3> QED
      BY <3>3, <3>4
  <2>4. CASE Compile
    <3>1. last \in Hashes
      BY <2>4 DEF Compile, StageConsistent, TypeOK
    <3>2. Compiled(cache[last]) \in Entry /\ imem # NoImage
      BY <3>1, CompiledRootsType, NoImageAssumption
      DEF Compiled, TypeOK, Interp!TypeOK, Entry
    <3>3. TypeOK'
      BY <2>4, <3>1, <3>2 DEF Compile, TypeOK, Interp!TypeOK, Stages, coreVars, runVars, fnVars
    <3>4. StageConsistent'
      BY <2>4, <3>1, <3>2
      DEF Compile, StageConsistent, TypeOK, Compiled, Entry, Code, coreVars, runVars, fnVars
    <3> QED
      BY <3>3, <3>4
  <2>5. CASE Enter
    <3>1. NoContext \in CallStrings /\ [r EXCEPT ![0] = 0] \in [Reg -> Value]
          /\ [r EXCEPT ![0] = 0][0] = 0
      BY MaxCallDepthAssumption, SameIsa, RegAssumption, NumWordsAssumption, ValueAssumption
      DEF CallStrings, NoContext, TypeOK, Interp!TypeOK, Reg, Value
    <3>2. TypeOK'
      BY <2>5, <3>1 DEF Enter, TypeOK, Interp!TypeOK, Stages, Keys, ExitWith, coreVars
    <3>3. StageConsistent'
      BY <2>5 DEF Enter, StageConsistent, TypeOK, ExitWith, Code, coreVars
    <3> QED
      BY <3>2, <3>3
  <2>6. CASE JitPlain
    <3>1. stage = "jit"
      BY <2>6 DEF JitPlain, Inline, Live
    <3>2. gpr' \in [Reg -> Value] /\ gpr'[0] = 0
      BY <2>6, <3>1, InsnType, GprType, SumType DEF JitPlain
    <3>3. TypeOK'
      BY <2>6, <3>1, <3>2, OnwardType
      DEF JitPlain, TypeOK, Interp!TypeOK, Stages, coreVars, runVars
    <3>4. StageConsistent'
      BY <2>6, <3>1, OnwardType DEF JitPlain, StageConsistent, TypeOK, coreVars, runVars
    <3> QED
      BY <3>3, <3>4
  <2>7. CASE JitMtc0
    <3>1. stage = "jit" /\ Interp!TypeOK
      BY <2>7 DEF JitMtc0, Inline, Live, TypeOK
    <3>2. ReadGpr(Insn.rt) \in Value /\ Pc \in Addr /\ NextAddr(Pc) \in Addr
      BY <3>1, InsnType, GprType, AddrType
    <3>3. Interp!TypeOK'
      BY <2>7, <3>1, <3>2, Mtc0Type, SameIsa DEF JitMtc0, Interp!TypeOK
    <3>4. /\ at' \in Keys /\ target' = NoTarget
          /\ \/ stage' = "jit" /\ ret' = ret
             \/ stage' = "exit" /\ ret' \in Addr
      BY <2>7, <3>1, <3>2, OnwardType DEF JitMtc0, ExitWith, TypeOK
    <3>5. TypeOK'
      BY <2>7, <3>3, <3>4 DEF JitMtc0, TypeOK, Stages, runVars
    <3>6. StageConsistent'
      BY <2>7, <3>1, <3>4 DEF JitMtc0, StageConsistent, TypeOK, runVars
    <3> QED
      BY <3>5, <3>6
  <2>8. CASE JitDie
    BY <2>8 DEF JitDie, TypeOK, Interp!TypeOK, StageConsistent, Code, runVars, fnVars
  <2>9. CASE JitControl
    <3>1. stage = "jit" /\ Ra \in Reg
      BY <2>9, RegAssumption DEF JitControl, Live, Ra, Reg
    <3>2. /\ ReadGpr(Insn.rs) \in Value
          /\ JumpAddr(ReadGpr(Insn.rs)) \in Addr
          /\ Link(Pc) \in Addr /\ Link(Pc) \in Value /\ TAddr(Code, Pc) \in Addr
      BY <3>1, InsnType, GprType, CodeType, AddrType, TAddrType, JumpAddrType
    <3>3. target' \in Addr
      BY <2>9, <3>2 DEF JitControl
    <3>4. gpr' \in [Reg -> Value] /\ gpr'[0] = 0
      BY <2>9, <3>1, <3>2, InsnType, GprType DEF JitControl, TypeOK
    <3>5. TypeOK'
      BY <2>9, <3>3, <3>4 DEF JitControl, TypeOK, Interp!TypeOK, coreVars, runVars
    <3>6. StageConsistent'
      BY <2>9, <3>1 DEF JitControl, StageConsistent, TypeOK, Code, coreVars, runVars
    <3> QED
      BY <3>5, <3>6
  <2>10. CASE JitBreak
    BY <2>10 DEF JitBreak, Live, ExitWith, TypeOK, Interp!TypeOK, Stages, StageConsistent,
       Code, runVars
  <2>11. CASE JitLeave
    <3>1. at[1] \in Addr
      BY <2>11, InsnType DEF JitLeave, Live
    <3> QED
      BY <2>11, <3>1 DEF JitLeave, Live, ExitWith, TypeOK, Interp!TypeOK, Stages,
         StageConsistent, Code, coreVars, runVars
  <2>12. CASE Exit
    <3>1. Nowhere \in Keys /\ NoGpr \in [Reg -> Value] /\ NoGpr[0] = 0
      BY NumWordsAssumption, MaxCallDepthAssumption, ValueAssumption, RegAssumption
      DEF Nowhere, Keys, Addr, CallStrings, NoContext, NoGpr, Reg, Value
    <3>2. r' \in [Reg -> Value] /\ r'[0] = 0
      BY <2>12, SameIsa, RegAssumption DEF Exit, StoredBack, TypeOK, Interp!TypeOK, Reg
    <3>3. TypeOK'
      BY <2>12, <3>1, <3>2, SameIsa DEF Exit, TypeOK, Interp!TypeOK, Stages, runVars
    <3>4. StageConsistent'
      BY <2>12 DEF Exit, StageConsistent, runVars
    <3> QED
      BY <3>3, <3>4
  <2>13. CASE Return
    BY <2>13, NumWordsAssumption, GenAssumption
    DEF Return, TypeOK, Interp!TypeOK, Stages, StageConsistent, Addr, Code, coreVars
  <2>14. CASE Swap
    BY <2>14, NumWordsAssumption
    DEF Swap, TypeOK, Interp!TypeOK, Stages, StageConsistent, Addr, Code, coreVars
  <2>15. CASE Fallback
    <3>1. last \in Hashes /\ ret \in Addr
      BY <2>15 DEF Fallback, StageConsistent, TypeOK
    <3>2. AddRoots(cache[last], {ret}) \in Entry
      BY <3>1 DEF AddRoots, TypeOK, Entry
    <3>3. ip' \in [pc : Addr, next : Addr] /\ ip' # NoTask
      BY <2>15, <3>1, SameIsa, AddrType DEF Fallback, Interp!At, Addr
    <3>4. TypeOK'
      <4>1. 0 \in Addr /\ 0 \in 0 .. GenMod - 1
        BY NumWordsAssumption, GenAssumption DEF Addr
      <4>2. Interp!TypeOK'
        BY <2>15, <3>3, SameIsa DEF Fallback, TypeOK, Interp!TypeOK
      <4> QED
        BY <2>15, <3>1, <3>2, <4>1, <4>2 DEF Fallback, TypeOK, Stages
    <3>5. StageConsistent'
      BY <2>15, <3>1, <3>3 DEF Fallback, StageConsistent, TypeOK, AddRoots, Entry
    <3> QED
      BY <3>4, <3>5
  <2>16. CASE Interpret
    <3>1. Interp!TypeOK'
      BY <2>16, StepType DEF Interpret, TypeOK
    <3>2. TypeOK'
      BY <2>16, <3>1 DEF Interpret, TypeOK, Stages, runVars, fnVars
    <3>3. StageConsistent'
      BY <2>16 DEF Interpret, StageConsistent, runVars, fnVars
    <3> QED
      BY <3>2, <3>3
  <2>17. CASE Over \/ UNCHANGED vars
    BY <2>17 DEF Over, vars, coreVars, runVars, fnVars, TypeOK, Interp!TypeOK,
       StageConsistent, Code
  <2> QED
    BY <2>1, <2>2, <2>3, <2>4, <2>5, <2>6, <2>7, <2>8, <2>9, <2>10, <2>11, <2>12,
       <2>13, <2>14, <2>15, <2>16, <2>17 DEF Next, Translate
<1> QED
  BY <1>1, <1>2, PTL DEF Spec

\* RspBt's type invariant holds in every reachable state.
THEOREM BtTypeCorrect == Spec => []TypeOK
<1>1. BaseInv => TypeOK
  BY DEF BaseInv
<1> QED
  BY <1>1, BaseInvariant, PTL

-----------------------------------------------------------------------------
(* The cache. *)

\* A translation that run does not recompile dispatches to every root recorded
\* for its image: what "becomes a root next time" (rspbt.hh:24-25) rests on.
THEOREM FreshTranslationsKnowTheirRoots == Spec => []FreshKnowsRoots
<1>1. Init => FreshKnowsRoots
  BY DEF Init, FreshKnowsRoots, NewEntry
<1>2. BaseInv /\ FreshKnowsRoots /\ [Next]_vars => FreshKnowsRoots'
  <2> SUFFICES ASSUME BaseInv, FreshKnowsRoots, [Next]_vars
               PROVE  FreshKnowsRoots'
    OBVIOUS
  <2> USE DEF BaseInv
  <2>1. CASE Lookup
    <3> DEFINE e == AddRoots([cache[Found] EXCEPT !.imem = imem], {cur} \cup hints)
    <3>1. Found \in Hashes
      BY DEF Found, TypeOK, Interp!TypeOK, Hashes
    <3>2. ~e.stale => e.roots = e.cases
      <4>1. cache[Found] \in Entry /\ (~cache[Found].stale => cache[Found].roots = cache[Found].cases)
        BY <3>1 DEF TypeOK, FreshKnowsRoots
      <4> QED
        BY <4>1 DEF AddRoots, Entry
    <3>3. cache' = [cache EXCEPT ![Found] = e]
      BY <2>1 DEF Lookup
    <3> QED
      BY <3>1, <3>2, <3>3 DEF FreshKnowsRoots, TypeOK
  <2>2. CASE Compile
    <3>1. last \in Hashes
      BY <2>2 DEF Compile, StageConsistent, TypeOK
    <3>2. Compiled(cache[last]).roots = Compiled(cache[last]).cases
      BY <3>1 DEF Compiled, TypeOK, Entry
    <3> QED
      BY <2>2, <3>1, <3>2 DEF Compile, FreshKnowsRoots, TypeOK
  <2>3. CASE Fallback
    <3>1. last \in Hashes
      BY <2>3 DEF Fallback, StageConsistent, TypeOK
    <3>2. ~AddRoots(cache[last], {ret}).stale
            => AddRoots(cache[last], {ret}).roots = AddRoots(cache[last], {ret}).cases
      <4>1. cache[last] \in Entry /\ (~cache[last].stale => cache[last].roots = cache[last].cases)
        BY <3>1 DEF TypeOK, FreshKnowsRoots
      <4> QED
        BY <4>1 DEF AddRoots, Entry
    <3> QED
      BY <2>3, <3>1, <3>2 DEF Fallback, FreshKnowsRoots, TypeOK
  <2>4. CASE UNCHANGED cache
    BY <2>4 DEF FreshKnowsRoots
  <2> QED
    BY <2>1, <2>2, <2>3, <2>4
    DEF Next, Translate, Load, Run, Enter, JitPlain, JitMtc0, JitDie, JitControl, JitBreak,
        JitLeave, Exit, Return, Swap, Interpret, Over, vars
<1> QED
  BY <1>1, <1>2, BaseInvariant, PTL DEF Spec

\* What the entries of the cache say about images, when hashes do not collide.
THEOREM ImageInvariant ==
    ASSUME InjectiveHash
    PROVE  Spec => []ImageInv
<1>1. Init => ImageInv
  BY DEF Init, ImageInv, NewEntry
<1>2. BaseInv /\ ImageInv /\ [Next]_vars => ImageInv'
  <2> SUFFICES ASSUME BaseInv, ImageInv, [Next]_vars
               PROVE  ImageInv'
    OBVIOUS
  <2> USE DEF BaseInv
  <2>1. CASE Lookup
    <3> DEFINE e == AddRoots([cache[Found] EXCEPT !.imem = imem], {cur} \cup hints)
    <3>1. Found \in Hashes /\ imem \in Images
      BY DEF Found, TypeOK, Interp!TypeOK, Hashes
    <3>2. HashOf(imem) = Found
      BY <3>1, NoImageAssumption DEF Found, ImageInv, TypeOK
    <3>3. cache[Found].imem # NoImage => cache[Found].imem = imem
      BY <3>1, <3>2, InjectiveHash DEF ImageInv, InjectiveHash, TypeOK, Entry
    <3>4. /\ e.imem = imem /\ e.made = cache[Found].made
          /\ ~e.stale => ~cache[Found].stale
      BY <3>1 DEF AddRoots, TypeOK, Entry
    <3>5. /\ cache' = [cache EXCEPT ![Found] = e] /\ last' = Found /\ imem' = imem
          /\ stage' = IF e.stale THEN "compile" ELSE "enter"
      BY <2>1 DEF Lookup, coreVars
    <3> HIDE DEF e
    <3>6. cache[Found].made # NoImage => cache[Found].made = imem
      BY <3>1, <3>3 DEF ImageInv
    <3>7. ~cache[Found].stale => cache[Found].made # NoImage
      BY <3>1 DEF StageConsistent
    <3>8. cache'[Found] = e /\ \A h \in Hashes : h # Found => cache'[h] = cache[h]
      BY <3>1, <3>5 DEF TypeOK
    <3> QED
      BY <3>1, <3>2, <3>4, <3>5, <3>6, <3>7, <3>8 DEF ImageInv, Code
  <2>2. CASE Compile
    <3>1. last \in Hashes /\ cache[last].imem = imem
      BY <2>2 DEF Compile, StageConsistent, TypeOK, ImageInv
    <3>2. Compiled(cache[last]).made = imem /\ Compiled(cache[last]).imem = imem
      BY <3>1 DEF Compiled, TypeOK, Entry
    <3> QED
      BY <2>2, <3>1, <3>2 DEF Compile, ImageInv, TypeOK, Code, coreVars
  <2>3. CASE Fallback
    <3>1. last \in Hashes
      BY <2>3 DEF Fallback, StageConsistent, TypeOK
    <3>2. /\ AddRoots(cache[last], {ret}).made = cache[last].made
          /\ AddRoots(cache[last], {ret}).imem = cache[last].imem
      BY <3>1 DEF AddRoots, TypeOK, Entry
    <3> QED
      BY <2>3, <3>1, <3>2 DEF Fallback, ImageInv, TypeOK
  <2>4. CASE JitMtc0
    <3>1. stage = "jit" /\ Interp!TypeOK
      BY <2>4 DEF JitMtc0, Inline, Live, TypeOK
    <3>2. ReadGpr(Insn.rt) \in Value
      BY <3>1, InsnType, GprType
    <3>3. CASE imem_gen' = imem_gen
      <4>1. imem' = imem
        BY <2>4, <3>1, <3>2, <3>3, Mtc0Type DEF JitMtc0
      <4>2. stage' \in {"jit", "exit"}
        BY <2>4, <3>1, <3>3, OnwardType DEF JitMtc0
      <4> QED
        BY <2>4, <3>1, <4>1, <4>2 DEF JitMtc0, ImageInv, Code
    <3>4. CASE imem_gen' # imem_gen
      BY <2>4, <3>4 DEF JitMtc0, ExitWith, ImageInv, Code
    <3> QED
      BY <3>3, <3>4
  <2>5. CASE JitPlain
    <3>1. stage = "jit" /\ stage' \in {"jit", "exit"}
      BY <2>5, OnwardType DEF JitPlain, Inline, Live
    <3> QED
      BY <2>5, <3>1 DEF JitPlain, ImageInv, Code, coreVars
  <2>6. CASE Enter \/ JitDie \/ JitControl \/ JitBreak \/ JitLeave \/ Over \/ UNCHANGED vars
    BY <2>6 DEF Enter, JitDie, JitControl, JitBreak, JitLeave, Over, Live, ExitWith, vars,
       coreVars, runVars, fnVars, ImageInv, Code
  <2>7. CASE Load \/ Run \/ Exit \/ Return \/ Swap \/ Interpret
    BY <2>7 DEF Load, Run, Exit, Return, Swap, Interpret, ImageInv, Code, runVars, fnVars
  <2> QED
    BY <2>1, <2>2, <2>3, <2>4, <2>5, <2>6, <2>7 DEF Next, Translate
<1> QED
  BY <1>1, <1>2, BaseInvariant, PTL DEF Spec

\* The translation that runs was made from what is in IMEM (rspbt.cc:50), provided
\* that no two images have the same fnv1a64.
THEOREM TranslationIsCurrent ==
    ASSUME InjectiveHash
    PROVE  Spec => []RunsCurrentImage
<1>1. ImageInv => RunsCurrentImage
  BY DEF ImageInv, RunsCurrentImage
<1> QED
  BY <1>1, ImageInvariant, PTL

-----------------------------------------------------------------------------
(* Roots. *)

\* What is compiled is filed under what is in IMEM, also when hashes collide.
CompilesForImem == stage = "compile" => cache[last].imem = imem

LEMMA CompilesForImemStep == BaseInv /\ CompilesForImem /\ [Next]_vars => CompilesForImem'
<1> SUFFICES ASSUME BaseInv, CompilesForImem, [Next]_vars
             PROVE  CompilesForImem'
  OBVIOUS
<1> USE DEF BaseInv
<1>1. CASE Lookup
  <2> DEFINE e == AddRoots([cache[Found] EXCEPT !.imem = imem], {cur} \cup hints)
  <2>1. Found \in Hashes
    BY DEF Found, TypeOK, Interp!TypeOK, Hashes
  <2>2. e.imem = imem
    BY <2>1 DEF AddRoots, TypeOK, Entry
  <2>3. cache' = [cache EXCEPT ![Found] = e] /\ last' = Found /\ imem' = imem
    BY <1>1 DEF Lookup, coreVars
  <2> HIDE DEF e
  <2> QED
    BY <2>1, <2>2, <2>3 DEF CompilesForImem, TypeOK
<1>2. CASE JitPlain \/ JitMtc0
  <2>1. stage = "jit"
    BY <1>2 DEF JitPlain, JitMtc0, Inline, Live
  <2>2. Onward \/ ExitWith(NextAddr(Pc))
    BY <1>2 DEF JitPlain, JitMtc0
  <2>3. stage' # "compile"
    BY <2>1, <2>2, OnwardType DEF ExitWith
  <2> QED
    BY <2>3 DEF CompilesForImem
<1>3. CASE Load \/ Run \/ Compile \/ Enter \/ JitDie \/ JitControl \/ JitBreak \/ JitLeave
           \/ Exit \/ Return \/ Swap \/ Fallback \/ Interpret
  <2> SUFFICES stage' # "compile"
    BY DEF CompilesForImem
  <2>1. CASE JitControl
    BY <2>1 DEF JitControl, Live
  <2>2. CASE Load \/ Run \/ Compile \/ Enter \/ Exit \/ Return \/ Swap \/ Fallback
    BY <2>2 DEF Load, Run, Compile, Enter, Exit, Return, Swap, Fallback, ExitWith
  <2>3. CASE JitDie \/ JitBreak \/ JitLeave
    BY <2>3 DEF JitDie, JitBreak, JitLeave, Inline, Live, ExitWith
  <2>4. CASE Interpret
    BY <2>4 DEF Interpret
  <2> QED
    BY <1>3, <2>1, <2>2, <2>3, <2>4
<1>4. CASE Over \/ UNCHANGED vars
  BY <1>4 DEF Over, vars, coreVars, CompilesForImem
<1> QED
  BY <1>1, <1>2, <1>3, <1>4 DEF Next, Translate

\* "becomes a root next time" (rspbt.hh:24-25): however images are swapped, a root
\* that can be translated is never forgotten, not even when hashes collide.
THEOREM RootsAreNeverForgotten == Spec => RootsAreKept
<1>1. Init => CompilesForImem
  BY DEF Init, CompilesForImem
<1>2. ASSUME BaseInv, CompilesForImem, [Next]_vars,
             NEW h \in Hashes, NEW a \in cache[h].roots,
             cache[h].imem # NoImage, Translatable(cache[h].imem, a)
      PROVE  a \in cache'[h].roots
  <2> USE <1>2 DEF BaseInv
  <2>1. CASE Lookup
    <3> DEFINE e == AddRoots([cache[Found] EXCEPT !.imem = imem], {cur} \cup hints)
    <3>1. Found \in Hashes
      BY DEF Found, TypeOK, Interp!TypeOK, Hashes
    <3>2. cache[Found].roots \subseteq e.roots
      BY <3>1 DEF AddRoots, TypeOK, Entry
    <3>3. cache' = [cache EXCEPT ![Found] = e]
      BY <2>1 DEF Lookup
    <3> HIDE DEF e
    <3> QED
      BY <3>1, <3>2, <3>3 DEF TypeOK
  <2>2. CASE Compile
    <3>1. last \in Hashes /\ cache[last].imem = imem
      BY <2>2 DEF Compile, StageConsistent, TypeOK, CompilesForImem
    <3>2. Compiled(cache[last]).roots = CompiledRoots(imem, cache[last].roots)
      BY <3>1 DEF Compiled, TypeOK, Entry
    <3>3. cache' = [cache EXCEPT ![last] = Compiled(cache[last])]
      BY <2>2 DEF Compile
    <3>4. cache[h].roots \subseteq Addr
      BY DEF TypeOK, Entry
    <3>5. h = last => a \in CompiledRoots(imem, cache[last].roots)
      BY <3>1, <3>4 DEF CompiledRoots
    <3> QED
      BY <3>1, <3>2, <3>3, <3>5 DEF TypeOK
  <2>3. CASE Fallback
    <3>1. last \in Hashes
      BY <2>3 DEF Fallback, StageConsistent, TypeOK
    <3>2. cache[last].roots \subseteq AddRoots(cache[last], {ret}).roots
      BY <3>1 DEF AddRoots, TypeOK, Entry
    <3>3. cache' = [cache EXCEPT ![last] = AddRoots(cache[last], {ret})]
      BY <2>3 DEF Fallback
    <3> QED
      BY <3>1, <3>2, <3>3 DEF TypeOK
  <2>4. CASE UNCHANGED cache
    BY <2>4
  <2> QED
    BY <2>1, <2>2, <2>3, <2>4
    DEF Next, Translate, Load, Run, Enter, JitPlain, JitMtc0, JitDie, JitControl, JitBreak,
        JitLeave, Exit, Return, Swap, Interpret, Over, vars
<1>3. BaseInv /\ CompilesForImem /\ [Next]_vars =>
        [\A h \in Hashes : \A a \in cache[h].roots :
           cache[h].imem # NoImage /\ Translatable(cache[h].imem, a) => a \in cache'[h].roots]_vars
  BY <1>2
<1> QED
  BY <1>1, <1>3, CompilesForImemStep, BaseInvariant, PTL DEF Spec, RootsAreKept

-----------------------------------------------------------------------------
(* The translator implements the interpreter. *)

\* Core shares the constants too.
LEMMA CoreIsa ==
    /\ Core!Addr = Addr /\ Core!Reg = Reg /\ Core!Value = Value /\ Core!Ra = Ra
    /\ \A a : Core!NextAddr(a) = NextAddr(a)
    /\ \A v : Core!JumpAddr(v) = JumpAddr(v)
    /\ Core!NoTask = NoTask
    /\ \A a : Core!At(a) = [pc |-> a, next |-> NextAddr(a)]
    /\ \A a : Interp!At(a) = [pc |-> a, next |-> NextAddr(a)]
BY DEF Core!Addr, Addr, Core!Reg, Reg, Core!Value, Value, Core!Ra, Ra,
   Core!NextAddr, NextAddr, Core!JumpAddr, JumpAddr, Core!NoTask, Core!At, Interp!At,
   Interp!NextAddr

\* Reading and writing the function's registers is reading and writing r.
LEMMA GprIsR ==
    ASSUME BaseInv, stage = "jit", NEW d \in Reg, NEW v \in Value
    PROVE  ReadGpr(d) = AbsR[d] /\ WithGpr(d, v) = Core!Written(d, v)
BY RegAssumption, CoreIsa
DEF BaseInv, TypeOK, ReadGpr, WithGpr, AbsR, Core!Written, Reg

\* While the function runs, the interpreter would be at the same instruction of
\* the same image.
LEMMA SameInsn ==
    ASSUME BaseInv, ImageInv, Live
    PROVE  /\ Core!Running /\ Core!Insn = Insn
           /\ AbsIp = IF target = NoTarget
                        THEN [pc |-> at[1], next |-> NextAddr(at[1])]
                        ELSE [pc |-> NextAddr(at[1]), next |-> target]
<1>1. stage = "jit" /\ ~died /\ at[1] \in Addr /\ NextAddr(at[1]) \in Addr
  BY InsnType, AddrType DEF Live
<1>2. AbsIp = IF target = NoTarget
                THEN [pc |-> at[1], next |-> NextAddr(at[1])]
                ELSE [pc |-> NextAddr(at[1]), next |-> target]
  BY <1>1, CoreIsa DEF AbsIp
<1>3. AbsIp.pc = Pc /\ Pc \in Addr
  BY <1>1, <1>2 DEF Pc
<1>4. AbsIp # NoTask
  BY <1>3, NumWordsAssumption DEF Addr
<1>5. Core!Insn = Insn
  BY <1>1, <1>3 DEF ImageInv, Core!Insn, Insn
<1> QED
  BY <1>1, <1>2, <1>4, <1>5, CoreIsa DEF Core!Running

\* Going on after a plain instruction is what the interpreter's pc does.
LEMMA OnwardAdvances ==
    ASSUME BaseInv, ImageInv, Live, Onward
    PROVE  Core!Advance(Core!Fall) /\ stage' \in {"jit", "exit"}
<1>1. stage = "jit" /\ at[1] \in Addr /\ NextAddr(at[1]) \in Addr
  BY InsnType, AddrType DEF Live
<1>2. CASE target = NoTarget
  <2>1. /\ stage' = "jit" /\ target' = NoTarget
        /\ at'[1] = NextAddr(at[1])
    BY <1>1, <1>2 DEF Onward
  <2>2. AbsIp' = [pc |-> NextAddr(at[1]), next |-> NextAddr(NextAddr(at[1]))]
    BY <2>1, CoreIsa DEF AbsIp
  <2> QED
    BY <1>2, <2>1, <2>2, SameInsn, CoreIsa DEF Core!Advance, Core!Fall
<1>3. CASE target # NoTarget
  <2>1. target \in Addr /\ target # HaltedRet
    BY <1>3, NumWordsAssumption DEF BaseInv, TypeOK, Addr
  <2>2. /\ target' = NoTarget
        /\ \/ stage' = "jit" /\ at'[1] = target
           \/ stage' = "exit" /\ ret' = target
    BY <1>1, <1>3 DEF Onward, ExitWith
  <2>3. AbsIp' = [pc |-> target, next |-> NextAddr(target)]
    BY <2>1, <2>2, CoreIsa DEF AbsIp
  <2> QED
    BY <1>3, <2>2, <2>3, SameInsn, CoreIsa DEF Core!Advance, Core!Fall
<1> QED
  BY <1>2, <1>3

\* Each step of the translated function is one instruction of the interpreter.
LEMMA JitSteps ==
    ASSUME BaseInv, ImageInv, NoDmaInSlot,
           JitPlain \/ JitMtc0 \/ JitDie \/ JitControl \/ JitBreak
    PROVE  Core!Step
<1>1. Live /\ stage = "jit"
  BY DEF JitPlain, JitMtc0, JitDie, JitControl, JitBreak, Inline, Live
<1>2. Code \in Images /\ last \in Hashes
  BY <1>1, CodeType
<1>3. AbsR = gpr /\ (stage' \in {"jit", "exit"} => AbsR' = gpr')
  BY <1>1 DEF AbsR
<1>4. CASE JitPlain
  <2>1. stage' \in {"jit", "exit"} /\ Core!Advance(Core!Fall)
    BY <1>1, <1>4, OnwardAdvances DEF JitPlain
  <2>2. /\ (ReadGpr(Insn.rs) + Insn.imm) % NumVals \in Value
        /\ ReadGpr(Insn.rs) = AbsR[Insn.rs]
        /\ Insn.rd \in Reg
    BY <1>1, InsnType, GprType, GprIsR, SumType DEF BaseInv
  <2>3. AbsR' = Core!Written(Core!Insn.rd, (AbsR[Core!Insn.rs] + Core!Insn.imm) % NumVals)
    BY <1>1, <1>3, <1>4, <2>1, <2>2, GprIsR, SameInsn DEF JitPlain
  <2>4. Core!StepPlain
    BY <1>1, <1>4, <2>1, <2>3, SameInsn DEF JitPlain, Core!StepPlain, coreVars
  <2> QED
    BY <2>4 DEF Core!Step
<1>5. CASE JitMtc0
  <2>1. ReadGpr(Insn.rt) \in Value /\ ReadGpr(Insn.rt) = AbsR[Insn.rt] /\ Interp!TypeOK
    BY <1>1, InsnType, GprType, GprIsR DEF BaseInv, TypeOK
  <2>2. Core!Mtc0(Core!Insn.c0, AbsR[Core!Insn.rt])
    BY <1>1, <1>5, <2>1, SameInsn DEF JitMtc0, Interp!Mtc0, Core!Mtc0
  <2>3. stage' \in {"jit", "exit"} /\ Core!Advance(Core!Fall)
    <3>1. CASE imem_gen' = imem_gen
      BY <1>1, <1>5, <3>1, OnwardAdvances DEF JitMtc0
    <3>2. CASE imem_gen' # imem_gen
      <4>1. Insn.c0 = "rd_len"
        BY <1>5, <2>1, <3>2, Mtc0Type DEF JitMtc0
      <4>2. target = NoTarget
        BY <1>1, <1>2, <1>5, <4>1, InsnType, NoDmaInSlot
        DEF JitMtc0, NoDmaInSlot, BaseInv, StageConsistent, Insn, Pc
      <4>3. /\ Pc = at[1] /\ NextAddr(at[1]) \in Addr
            /\ stage' = "exit" /\ ret' = NextAddr(at[1])
        BY <1>1, <1>5, <3>2, <4>2, InsnType, AddrType DEF JitMtc0, ExitWith, Pc
      <4>4. AbsIp' = [pc |-> NextAddr(at[1]), next |-> NextAddr(NextAddr(at[1]))]
        BY <4>3, CoreIsa, NumWordsAssumption DEF AbsIp, Addr
      <4> QED
        BY <1>1, <4>2, <4>3, <4>4, SameInsn, CoreIsa DEF Core!Advance, Core!Fall
    <3> QED
      BY <3>1, <3>2
  <2>4. AbsR' = AbsR
    BY <1>3, <1>5, <2>3 DEF JitMtc0
  <2>5. Core!StepMtc0
    BY <1>1, <1>5, <2>2, <2>3, <2>4, SameInsn DEF JitMtc0, Core!StepMtc0
  <2> QED
    BY <2>5 DEF Core!Step
<1>6. CASE JitDie
  <2>1. AbsR' = AbsR /\ AbsIp' = AbsIp
    BY <1>6 DEF JitDie, AbsR, AbsIp, runVars, fnVars
  <2>2. Core!StepDie
    BY <1>1, <1>6, <2>1, SameInsn DEF JitDie, Core!StepDie, Core!rspVars
  <2> QED
    BY <2>2 DEF Core!Step
<1>7. CASE JitControl
  <2>1. /\ target = NoTarget /\ Pc = at[1] /\ at[1] \in Addr /\ stage' = "jit"
        /\ Insn.op \in {"branch", "j", "jal", "jr", "jalr"}
    BY <1>1, <1>7, InsnType DEF JitControl, Pc, Insn, Control, IsControl
  <2>2. /\ Core!Fall = Link(at[1])
        /\ AbsIp.next = NextAddr(at[1])
    BY <1>1, <2>1, SameInsn, NextNext, CoreIsa DEF Core!Fall
  <2>3. /\ TAddr(Code, at[1]) = IF Insn.op = "branch" THEN Core!BranchTo ELSE Insn.t
        /\ TAddr(Code, at[1]) \in Addr /\ Link(at[1]) \in Addr /\ Link(at[1]) \in Value
    <3>1. Insn.t \in Addr
      BY <1>1, InsnType
    <3>2. Core!BranchTo = (at[1] + 1 + Insn.t) % NumWords
      BY <1>1, <2>1, <2>2, <3>1, SameInsn, BranchTarget DEF Core!BranchTo
    <3> QED
      BY <1>2, <2>1, <3>2, TAddrType, AddrType, JumpAddrType DEF TAddr, Insn
  <2>4. /\ ReadGpr(Insn.rs) = AbsR[Insn.rs] /\ ReadGpr(Insn.rt) = AbsR[Insn.rt]
        /\ ReadGpr(Insn.rs) \in Value /\ JumpAddr(ReadGpr(Insn.rs)) \in Addr
        /\ Insn.rd \in Reg /\ Ra \in Reg
    <3>1. Ra \in Reg
      BY RegAssumption DEF Ra, Reg
    <3> QED
      BY <1>1, <3>1, InsnType, GprType, GprIsR, JumpAddrType, <2>3 DEF BaseInv
  <2>5. \A d \in Reg : WithGpr(d, Link(at[1])) = Core!Written(d, Core!Fall)
    BY <1>1, <2>2, <2>3, GprIsR
  <2>6. target' \in Addr => Core!Advance(target')
    <3> SUFFICES ASSUME target' \in Addr PROVE Core!Advance(target')
      OBVIOUS
    <3>1. target' # NoTarget /\ at' = at
      BY <1>7, NumWordsAssumption DEF JitControl, Addr
    <3>2. AbsIp' = [pc |-> NextAddr(at[1]), next |-> target']
      BY <2>1, <3>1 DEF AbsIp
    <3> QED
      BY <2>2, <3>2 DEF Core!Advance
  <2>7. /\ AbsR' = gpr' /\ Core!Running /\ Core!Insn = Insn
        /\ UNCHANGED << imem, imem_gen, sp_mem, sp_dram, halted, died >>
    BY <1>1, <1>3, <1>7, <2>1, SameInsn DEF JitControl, coreVars
  <2>8. CASE Insn.op = "branch"
    <3>1. target' = IF Core!Taken THEN Core!BranchTo ELSE Core!Fall
      BY <1>7, <2>1, <2>2, <2>3, <2>4, <2>7, <2>8 DEF JitControl, Core!Taken
    <3>2. gpr' = gpr /\ target' \in Addr
      BY <1>7, <2>1, <2>3, <2>8 DEF JitControl
    <3>3. Core!StepBranch
      BY <1>3, <2>6, <2>7, <2>8, <3>1, <3>2 DEF Core!StepBranch
    <3> QED
      BY <3>3 DEF Core!Step
  <2>9. CASE Insn.op \in {"j", "jal"}
    <3>1. target' = Insn.t /\ target' \in Addr
      BY <1>7, <2>1, <2>3, <2>9 DEF JitControl
    <3>2. gpr' = IF Insn.op = "jal" THEN WithGpr(Ra, Link(at[1])) ELSE gpr
      BY <1>7, <2>1, <2>9 DEF JitControl
    <3>3. Core!StepJump
      BY <1>3, <2>4, <2>5, <2>6, <2>7, <2>9, <3>1, <3>2, CoreIsa DEF Core!StepJump
    <3> QED
      BY <3>3 DEF Core!Step
  <2>10. CASE Insn.op \in {"jr", "jalr"}
    <3>1. target' = JumpAddr(AbsR[Insn.rs]) /\ target' \in Addr
      BY <1>7, <2>4, <2>10 DEF JitControl
    <3>2. gpr' = IF Insn.op = "jalr" THEN WithGpr(Insn.rd, Link(at[1])) ELSE gpr
      BY <1>7, <2>1, <2>10 DEF JitControl
    <3>3. Core!StepJumpReg
      BY <1>3, <2>4, <2>5, <2>6, <2>7, <2>10, <3>1, <3>2, CoreIsa DEF Core!StepJumpReg
    <3> QED
      BY <3>3 DEF Core!Step
  <2> QED
    BY <2>1, <2>8, <2>9, <2>10
<1>8. CASE JitBreak
  <2>1. stage' = "exit" /\ AbsIp' = NoTask /\ AbsR' = AbsR
    BY <1>3, <1>8 DEF JitBreak, ExitWith, AbsIp
  <2>2. Core!StepBreak
    BY <1>1, <1>8, <2>1, SameInsn, CoreIsa DEF JitBreak, IsBreak, Core!StepBreak, Core!rspVars
  <2> QED
    BY <2>2 DEF Core!Step
<1> QED
  BY <1>4, <1>5, <1>6, <1>7, <1>8

\* Every step of run is a step of the interpreter or of the host, or changes
\* nothing that can be seen from outside.
LEMMA StepsRefine ==
    ASSUME BaseInv, ImageInv, NoDmaInSlot, [Next]_vars
    PROVE  [Core!Next]_(Core!vars)
<1>1. CASE Load
  <2>1. AbsR' = AbsR /\ AbsIp' = AbsIp /\ AbsIp = NoTask /\ AbsR = r
    BY <1>1 DEF Load, Interp!Load, AbsR, AbsIp, runVars, fnVars
  <2>2. \E img \in Images : Core!Load(img)
    BY <1>1, <2>1, CoreIsa DEF Load, Interp!Load, Core!Load
  <2> QED
    BY <2>2 DEF Core!Next
<1>2. CASE Run
  <2>1. /\ AbsR' = AbsR /\ AbsIp = NoTask /\ cur' \in Addr
        /\ AbsIp' = [pc |-> cur', next |-> NextAddr(cur')]
    BY <1>2, CoreIsa, HostAssumption DEF Run, AbsR, AbsIp
  <2>2. Core!Kick(cur')
    BY <1>2, <2>1, CoreIsa DEF Run, Core!Kick, Core!rspVars
  <2> QED
    BY <2>1, <2>2, CoreIsa DEF Core!Next
<1>3. CASE JitPlain \/ JitMtc0 \/ JitDie \/ JitControl \/ JitBreak
  BY <1>3, JitSteps DEF Core!Next
<1>4. CASE Interpret
  <2>1. /\ AbsR = r /\ AbsIp = ip /\ AbsR' = r' /\ AbsIp' = ip'
    BY <1>4 DEF Interpret, AbsR, AbsIp
  <2>2. CASE Interp!StepPlain
    <3>1. Core!StepPlain
      BY <2>1, <2>2, CoreIsa, SameIsa
      DEF Interp!StepPlain, Core!StepPlain, Interp!Running, Core!Running, Interp!Insn,
          Core!Insn, Interp!Fall, Core!Fall, Interp!Written, Core!Written, Interp!Advance,
          Core!Advance
    <3> QED
      BY <3>1 DEF Core!Step, Core!Next
  <2>3. CASE Interp!StepMtc0
    <3>1. Core!StepMtc0
      BY <2>1, <2>3, CoreIsa, SameIsa
      DEF Interp!StepMtc0, Core!StepMtc0, Interp!Running, Core!Running, Interp!Insn,
          Core!Insn, Interp!Mtc0, Core!Mtc0, Interp!Fall, Core!Fall, Interp!Advance,
          Core!Advance
    <3> QED
      BY <3>1 DEF Core!Step, Core!Next
  <2>4. CASE Interp!StepBranch
    <3>1. Core!StepBranch
      BY <2>1, <2>4, CoreIsa, SameIsa
      DEF Interp!StepBranch, Core!StepBranch, Interp!Running, Core!Running, Interp!Insn,
          Core!Insn, Interp!Fall, Core!Fall, Interp!Written, Core!Written, Interp!Advance,
          Core!Advance, Interp!Taken, Core!Taken, Interp!BranchTo, Core!BranchTo
    <3> QED
      BY <3>1 DEF Core!Step, Core!Next
  <2>5. CASE Interp!StepJump
    <3>1. Core!StepJump
      BY <2>1, <2>5, CoreIsa, SameIsa
      DEF Interp!StepJump, Core!StepJump, Interp!Running, Core!Running, Interp!Insn,
          Core!Insn, Interp!Fall, Core!Fall, Interp!Written, Core!Written, Interp!Advance,
          Core!Advance
    <3> QED
      BY <3>1 DEF Core!Step, Core!Next
  <2>6. CASE Interp!StepJumpReg
    <3>1. Core!StepJumpReg
      BY <2>1, <2>6, CoreIsa, SameIsa
      DEF Interp!StepJumpReg, Core!StepJumpReg, Interp!Running, Core!Running, Interp!Insn,
          Core!Insn, Interp!Fall, Core!Fall, Interp!Written, Core!Written, Interp!Advance,
          Core!Advance
    <3> QED
      BY <3>1 DEF Core!Step, Core!Next
  <2>7. CASE Interp!StepBreak
    <3>1. Core!StepBreak
      BY <2>1, <2>7, CoreIsa, SameIsa
      DEF Interp!StepBreak, Core!StepBreak, Interp!Running, Core!Running, Interp!Insn,
          Core!Insn, Interp!rspVars, Core!rspVars, Interp!NoTask
    <3> QED
      BY <3>1 DEF Core!Step, Core!Next
  <2>8. CASE Interp!StepDie
    <3>1. Core!StepDie
      BY <2>1, <2>8, CoreIsa, SameIsa
      DEF Interp!StepDie, Core!StepDie, Interp!Running, Core!Running, Interp!Insn,
          Core!Insn, Interp!rspVars, Core!rspVars
    <3> QED
      BY <3>1 DEF Core!Step, Core!Next
  <2> QED
    BY <1>4, <2>2, <2>3, <2>4, <2>5, <2>6, <2>7, <2>8 DEF Interpret, Interp!Step
<1>5. CASE Lookup \/ Compile \/ Enter \/ JitLeave \/ Exit \/ Return \/ Swap \/ Fallback
  <2>1. UNCHANGED << imem, imem_gen, sp_mem, sp_dram, halted, died >>
    BY <1>5 DEF Lookup, Compile, Enter, JitLeave, Exit, Return, Swap, Fallback, coreVars,
       BaseInv, StageConsistent, TypeOK, Interp!TypeOK
  <2>2. AbsR' = AbsR
    <3>1. CASE Enter
      <4>1. stage = "enter" /\ stage' \in {"jit", "exit"}
        BY <3>1 DEF Enter, ExitWith
      <4> QED
        BY <3>1, <4>1, SameIsa DEF Enter, AbsR, BaseInv, TypeOK, Interp!TypeOK
    <3>2. CASE Exit
      <4>1. AbsR = gpr /\ AbsR' = [x \in Reg |-> IF x = 0 THEN r[0] ELSE gpr[x]]
        BY <3>2 DEF Exit, StoredBack, AbsR
      <4> QED
        BY <4>1 DEF BaseInv, TypeOK, Interp!TypeOK
    <3>3. CASE JitLeave
      BY <3>3 DEF JitLeave, Live, ExitWith, AbsR
    <3>4. CASE Lookup \/ Compile \/ Return \/ Swap \/ Fallback
      BY <3>4 DEF Lookup, Compile, Return, Swap, Fallback, AbsR, coreVars
    <3> QED
      BY <1>5, <3>1, <3>2, <3>3, <3>4
  <2>3. AbsIp' = AbsIp
    <3>1. CASE Lookup \/ Compile
      BY <3>1 DEF Lookup, Compile, AbsIp, runVars
    <3>2. CASE Enter
      BY <3>2, NumWordsAssumption DEF Enter, ExitWith, AbsIp, BaseInv, TypeOK, Addr
    <3>3. CASE JitLeave
      BY <3>3, InsnType, NumWordsAssumption DEF JitLeave, Live, ExitWith, AbsIp, Addr
    <3>4. CASE Exit \/ Return \/ Swap \/ Fallback
      BY <3>4 DEF Exit, Return, Swap, Fallback, AbsIp
    <3> QED
      BY <1>5, <3>1, <3>2, <3>3, <3>4
  <2> QED
    BY <2>1, <2>2, <2>3 DEF Core!vars, Core!rspVars
<1>6. CASE Over \/ UNCHANGED vars
  BY <1>6 DEF Over, vars, coreVars, runVars, fnVars, Core!vars, Core!rspVars, AbsR, AbsIp
<1> QED
  BY <1>1, <1>2, <1>3, <1>4, <1>5, <1>6 DEF Next, Translate

\* Running tasks through the translator is running them in the interpreter
\* (rspbt.hh:13-14, README.md:41-46), for every microcode that starts no DMA into
\* the RSP in a delay slot and every hash that does not collide on its images.
THEOREM TranslatorImplementsInterpreter ==
    ASSUME InjectiveHash, NoDmaInSlot
    PROVE  Spec => ImplementsCore
<1>1. Init => Core!Init
  BY CoreIsa, SameIsa DEF Init, Interp!Init, Core!Init, AbsR, AbsIp
<1>2. BaseInv /\ ImageInv /\ [Next]_vars => [Core!Next]_(Core!vars)
  BY StepsRefine, NoDmaInSlot
<1> QED
  BY <1>1, <1>2, BaseInvariant, ImageInvariant, PTL DEF Spec, ImplementsCore, Core!Spec

-----------------------------------------------------------------------------
(* Control inside the translation. *)

\* From a key the translation has code for, going on in line or through a jump leads to
\* a key it has code for.
LEMMA OnwardStays ==
    ASSUME BaseInv, stage = "jit", at \in ReachKeys(Code, Cases), Onward,
           target = NoTarget => Plain(Code, at[1])
    PROVE  at' \in ReachKeys(Code, Cases) \/ stage' = "exit"
<1> DEFINE Reached == ReachKeys(Code, Cases)
<1>1. Code \in Images /\ Cases \in SUBSET Addr
  BY CodeType
<1>2. KeySuccs(Code, at) \subseteq Reached /\ InContext0(Cases) \subseteq Reached
  <2>1. ReachClosed(Code, Cases, Reached)
    BY <1>1, ReachKeysIs
  <2> HIDE DEF Reached
  <2>2. InContext0(Cases) \subseteq InContext0(Cases \cup LinkRootsOf(Code, Reached))
    BY DEF InContext0
  <2>3. at \in Reached
    BY DEF Reached
  <2> QED
    BY <2>1, <2>2, <2>3 DEF ReachClosed
<1> HIDE DEF Reached
<1>3. CASE target = NoTarget
  <2>1. KeySuccs(Code, at) = {<< NextAddr(at[1]), at[2] >>}
    BY <1>3, KindsDisjoint DEF KeySuccs
  <2> QED
    BY <1>2, <1>3, <2>1 DEF Onward, Reached
<1>4. CASE target # NoTarget
  <2>1. Control(Code, at[1]) /\ IsControl(Code[at[1]]) /\ ~Plain(Code, at[1])
    BY <1>4, KindsDisjoint DEF BaseInv, StageConsistent
  <2>2. KeySuccs(Code, at) = WalkSuccs(Code, at[1], at[2])
    BY <2>1 DEF KeySuccs
  <2>3. EmitTargets(Code, at[1], at[2], Cases) \subseteq Reached
    BY <1>2, <2>1, <2>2, EmitWithinWalk
  <2> QED
    BY <1>4, <2>3 DEF Onward, ExitWith, Reached
<1> QED
  BY <1>3, <1>4

\* The instruction in line is a plain one when it is no delay slot.
LEMMA InlineIsPlain ==
    ASSUME Inline, Insn.op \in {"plain", "mtc0"}, target = NoTarget
    PROVE  Plain(Code, at[1])
BY DEF Inline, Insn, Pc, Plain, IsControl, IsBreak

LEMMA StaysStep ==
    ASSUME BaseInv, StaysInTranslation, [Next]_vars
    PROVE  StaysInTranslation'
<1> SUFFICES ASSUME stage' = "jit"
             PROVE  at' \in ReachKeys(Code', Cases')
  BY DEF StaysInTranslation
<1>1. CASE Enter
  <2>1. /\ stage = "enter" /\ cur \in Cases /\ at' = << cur, NoContext >>
        /\ Code' = Code /\ Cases' = Cases
    BY <1>1 DEF Enter, ExitWith, Code, Cases
  <2>2. InContext0(Cases \cup LinkRootsOf(Code, ReachKeys(Code, Cases)))
          \subseteq ReachKeys(Code, Cases)
    BY <2>1, CodeType, ReachKeysIs DEF ReachClosed
  <2> QED
    BY <2>1, <2>2 DEF InContext0
<1>2. CASE JitPlain
  <2>1. stage = "jit" /\ Onward /\ Code' = Code /\ Cases' = Cases /\ Inline /\ Insn.op = "plain"
    BY <1>2 DEF JitPlain, Inline, Live, Code, Cases
  <2> QED
    BY <2>1, OnwardStays, InlineIsPlain DEF StaysInTranslation
<1>3. CASE JitMtc0
  <2>1. stage = "jit" /\ Onward /\ Code' = Code /\ Cases' = Cases /\ Inline /\ Insn.op = "mtc0"
    BY <1>3 DEF JitMtc0, Inline, Live, Code, Cases, ExitWith
  <2> QED
    BY <2>1, OnwardStays, InlineIsPlain DEF StaysInTranslation
<1>4. CASE JitDie \/ JitControl \/ Over \/ UNCHANGED vars
  <2>1. stage = "jit" /\ at' = at /\ Code' = Code /\ Cases' = Cases
    BY <1>4 DEF JitDie, JitControl, Over, Inline, Live, Code, Cases, vars, fnVars
  <2> QED
    BY <2>1 DEF StaysInTranslation
<1>5. ~(\/ Load \/ Run \/ Lookup \/ Compile \/ JitBreak \/ JitLeave \/ Exit
        \/ Return \/ Swap \/ Fallback \/ Interpret)
  BY DEF Load, Run, Lookup, Compile, JitBreak, JitLeave, ExitWith, Exit, Return, Swap, Fallback,
         Interpret
<1> QED
  BY <1>1, <1>2, <1>3, <1>4, <1>5 DEF Next, Translate

\* The translated code never goes to a block that compile's walk did not give it, whatever
\* the registers hold, whichever roots its dispatch has and however it is entered.
THEOREM ControlStaysInTranslation == Spec => []StaysInTranslation
<1>1. Init => StaysInTranslation
  BY DEF Init, StaysInTranslation
<1>2. BaseInv /\ StaysInTranslation /\ [Next]_vars => StaysInTranslation'
  BY StaysStep
<1> QED
  BY <1>1, <1>2, BaseInvariant, PTL DEF Spec

=============================================================================
