--------------------------- MODULE R4300BtProofs ---------------------------
(***************************************************************************)
(* Translated code implements the interpreter of the main CPU, for every   *)
(* program, size of memory and set of translated functions, as long as     *)
(* the guest keeps to the convention about its calls (R4300Calls) and no   *)
(* jalr reads the register it links.                                       *)
(*                                                                         *)
(* First the steps, where what a host function returns means to its caller *)
(* what the guest did (ReturnsFollowGuest); then that the convention gives *)
(* that, because the host functions that wait are guest calls still open.  *)
(***************************************************************************)
EXTENDS R4300Calls, SequenceTheorems, TLAPS

\* The architecture leaves a jalr through $31 undefined.
JalrReadsNoLink ==
    \A p \in Programs : \A a \in DOMAIN p.mem : p.mem[a].k = "jalr" => p.mem[a].s # Ra

-----------------------------------------------------------------------------
(* The instances of the interpreter share the constants. *)

LEMMA CoreIsa ==
    /\ \A p, a : Core!Readable(p, a) <=> Readable(p, a)
    /\ \A w : Core!Falls(w) <=> Falls(w)
    /\ \A p, a : Core!HasSlot(p, a) <=> HasSlot(p, a)
    /\ \A w, g, m : Core!RegsAfter(w, g, m) = RegsAfter(w, g, m)
    /\ \A w, g, m : Core!RamAfter(w, g, m) = RamAfter(w, g, m)
    /\ \A w, g, a : Core!RegsForSlot(w, g, a) = RegsForSlot(w, g, a)
    /\ \A w, g, a : Core!Target(w, g, a) = Target(w, g, a)
    /\ \A w, g : Core!SlotRuns(w, g) <=> SlotRuns(w, g)
BY DEF Core!Readable, Readable, Core!Falls, Falls, Core!HasSlot, HasSlot, Core!RegsAfter,
       RegsAfter, Core!RamAfter, RamAfter, Core!RegsForSlot, RegsForSlot, Core!Target, Target,
       Core!SlotRuns, SlotRuns, Core!Result, Result, Core!SetReg, SetReg, Core!DataAddr, DataAddr,
       Core!Linked, Linked, Core!Taken, Taken, Core!After, After, Core!ControlKinds, ControlKinds

LEMMA InterpreterIsa ==
    /\ \A p, a : Interpreter!Readable(p, a) <=> Readable(p, a)
    /\ \A w : Interpreter!Falls(w) <=> Falls(w)
    /\ \A p, a : Interpreter!HasSlot(p, a) <=> HasSlot(p, a)
    /\ \A w, g, m : Interpreter!RegsAfter(w, g, m) = RegsAfter(w, g, m)
    /\ \A w, g, m : Interpreter!RamAfter(w, g, m) = RamAfter(w, g, m)
    /\ \A w, g, a : Interpreter!RegsForSlot(w, g, a) = RegsForSlot(w, g, a)
    /\ \A w, g, a : Interpreter!Target(w, g, a) = Target(w, g, a)
    /\ \A w, g : Interpreter!SlotRuns(w, g) <=> SlotRuns(w, g)
BY DEF Interpreter!Readable, Readable, Interpreter!Falls, Falls, Interpreter!HasSlot, HasSlot,
       Interpreter!RegsAfter, RegsAfter, Interpreter!RamAfter, RamAfter,
       Interpreter!RegsForSlot, RegsForSlot, Interpreter!Target, Target,
       Interpreter!SlotRuns, SlotRuns, Interpreter!Result, Result, Interpreter!SetReg, SetReg,
       Interpreter!DataAddr, DataAddr, Interpreter!Linked, Linked, Interpreter!Taken, Taken,
       Interpreter!After, After, Interpreter!ControlKinds, ControlKinds

-----------------------------------------------------------------------------
(* Types of what instructions compute. *)

Stored == [RamAddr \cup {Bucket} -> Val]

LEMMA ModIn ==
    ASSUME NEW D \in Nat, D > 0, NEW a \in Int
    PROVE  a % D \in 0 .. D - 1
BY Z3

LEMMA Wraps ==
    ASSUME NEW a \in Int
    PROVE  a % Modulus \in Val /\ a % RamSize \in RamAddr
BY SizeAssumption, ModIn DEF Val, RamAddr

LEMMA ZeroOneVal == 0 \in Val /\ 1 % Modulus \in Val
BY SizeAssumption, Wraps DEF Val

\* A word of a program, and its fields.
LEMMA WordType ==
    ASSUME NEW p, Program(p), UsesRegs(p), NEW a, Readable(p, a)
    PROVE  /\ p.mem[a] \in Word /\ a \in Addr
           /\ p.mem[a].d \in Regs /\ p.mem[a].s \in Regs /\ p.mem[a].r \in Regs
           /\ p.mem[a].t \in Addr /\ p.mem[a].n \in Int /\ p.mem[a].k \in Kinds
<1>1. a \in DOMAIN p.mem /\ DOMAIN p.mem \subseteq 0 .. MaxAddr
  BY DEF Readable, Program
<1>2. p.mem[a] \in Word
  BY <1>1 DEF Program
<1>3. {p.mem[a].d, p.mem[a].s, p.mem[a].r} \subseteq Regs
  BY <1>1 DEF UsesRegs
<1> QED
  BY <1>1, <1>2, <1>3, MaxAddrAssumption DEF Word, Addr

LEMMA FileType ==
    ASSUME NEW g \in Files, NEW x \in Regs
    PROVE  g[x] \in Val /\ g[x] \in Nat /\ g[x] \in Int
BY SizeAssumption DEF Files, Val

LEMMA SetRegType ==
    ASSUME NEW g \in Files, NEW d \in Regs, NEW v \in Val
    PROVE  SetReg(g, d, v) \in Files
BY RegsAssumption DEF SetReg, Files

LEMMA LinkedType ==
    ASSUME NEW g \in Files, NEW a \in Addr
    PROVE  Linked(g, a) \in Files
<1>1. After(a) % Modulus \in Val /\ Ra \in Regs
  BY Wraps, RegsAssumption DEF After, Addr
<1> QED
  BY <1>1, SetRegType DEF Linked

LEMMA DataAddrType ==
    ASSUME NEW w, w.s \in Regs, w.n \in Int, NEW g \in Files
    PROVE  DataAddr(w, g) \in RamAddr
BY FileType, Wraps DEF DataAddr

LEMMA FallKinds ==
    ASSUME NEW w, w.k \in Kinds, Falls(w)
    PROVE  w.k \in {"addiu", "addu", "lui", "sltiu", "lw", "sw", "slow", "data"}
BY DEF Falls, Kinds, PlainKinds, ControlKinds

\* Only the guest's words of m matter to an instruction.
LEMMA InsnType ==
    ASSUME NEW w, w \in Word, Falls(w), {w.d, w.s, w.r} \subseteq Regs,
           NEW g \in Files, NEW m \in Stored
    PROVE  /\ RegsAfter(w, g, m) \in Files
           /\ RamAfter(w, g, m) \in Stored
           /\ RegsAfter(w, g, [a \in RamAddr |-> m[a]]) = RegsAfter(w, g, m)
           /\ RamAfter(w, g, [a \in RamAddr |-> m[a]]) = [a \in RamAddr |-> RamAfter(w, g, m)[a]]
<1> DEFINE n == [a \in RamAddr |-> m[a]]
<1>1. w.k \in {"addiu", "addu", "lui", "sltiu", "lw", "sw", "slow", "data"} /\ w.n \in Int
  BY FallKinds DEF Word
<1>2. DataAddr(w, g) \in RamAddr
  BY <1>1, DataAddrType
<1>3. m[DataAddr(w, g)] \in Val /\ n[DataAddr(w, g)] = m[DataAddr(w, g)]
  BY <1>2 DEF Stored
<1>4. g[w.s] \in Int /\ g[w.r] \in Int /\ g[w.r] \in Val
  BY FileType
<1>5. w.k # "sw" => Result(w, g, m) \in Val
  <2>1. /\ (g[w.s] + w.n) % Modulus \in Val
        /\ (g[w.s] + g[w.r]) % Modulus \in Val
        /\ w.n % Modulus \in Val
    BY <1>1, <1>4, Wraps
  <2> QED
    BY <1>1, <1>3, <2>1, ZeroOneVal DEF Result
<1>6. w.k # "sw" => Result(w, g, n) = Result(w, g, m)
  BY <1>1, <1>3 DEF Result
<1>7. RegsAfter(w, g, m) \in Files
  BY <1>5, SetRegType DEF RegsAfter
<1>8. RegsAfter(w, g, n) = RegsAfter(w, g, m)
  BY <1>6 DEF RegsAfter
<1>9. RamAfter(w, g, m) \in Stored
  BY <1>2, <1>4 DEF RamAfter, Stored
<1>10. RamAfter(w, g, n) = [a \in RamAddr |-> RamAfter(w, g, m)[a]]
  BY <1>2 DEF RamAfter, Stored
<1> QED
  BY <1>7, <1>8, <1>9, <1>10

\* The squashing of a slot: all of its effects, or none of them on the guest.
LEMMA SlotType ==
    ASSUME TypeOK, NEW g \in Files, Top.at \in Addr,
           Readable(prog, Top.at + 1), Emitted(Slot)
    PROVE  /\ Falls(Slot)
           /\ SlotRegs(TRUE, g) = RegsAfter(Slot, g, ram)
           /\ SlotRegs(FALSE, g) = g
           /\ [a \in RamAddr |-> SlotRam(TRUE, g)[a]] = RamAfter(Slot, g, GuestRam)
           /\ [a \in RamAddr |-> SlotRam(FALSE, g)[a]] = GuestRam
           /\ \A q \in BOOLEAN : SlotRegs(q, g) \in Files /\ SlotRam(q, g) \in Stored
           /\ RegsAfter(Slot, g, ram) = RegsAfter(Slot, g, GuestRam)
           /\ Slotted(g) \in Files
           /\ Slotted(g) = RegsAfter(Slot, g, GuestRam)
<1> DEFINE w == Slot
<1>1. /\ w \in Word /\ w.n \in Int /\ w.k \in PlainKinds
      /\ w.d \in Regs /\ w.s \in Regs /\ w.r \in Regs
  BY WordType DEF TypeOK, Slot, Emitted
<1>2. Falls(w)
  BY <1>1 DEF Falls, PlainKinds, ControlKinds
<1>3. ram \in Stored
  BY DEF TypeOK, Stored
<1>4. /\ RegsAfter(w, g, ram) \in Files /\ RamAfter(w, g, ram) \in Stored
      /\ RegsAfter(w, g, GuestRam) = RegsAfter(w, g, ram)
      /\ RamAfter(w, g, GuestRam) = [a \in RamAddr |-> RamAfter(w, g, ram)[a]]
  BY <1>1, <1>2, <1>3, InsnType DEF GuestRam
<1>5. SlotRegs(TRUE, g) = RegsAfter(w, g, ram) /\ SlotRegs(FALSE, g) = g
  BY <1>4 DEF SlotRegs, Files
<1>6. DataAddr(w, g) \in RamAddr /\ g[w.r] \in Val
  BY <1>1, DataAddrType, FileType
<1>7. SlotRam(TRUE, g) = RamAfter(w, g, ram)
  BY DEF SlotRam, RamAfter
<1>8. SlotRam(FALSE, g) \in Stored
  BY <1>3, <1>6 DEF SlotRam, Stored
<1>9. Bucket \notin RamAddr
  BY SizeAssumption DEF Bucket, RamAddr
<1>10. [a \in RamAddr |-> SlotRam(FALSE, g)[a]] = GuestRam
  BY <1>3, <1>9 DEF SlotRam, GuestRam, Stored
<1> HIDE DEF w
<1> QED
  BY <1>2, <1>4, <1>5, <1>7, <1>8, <1>10 DEF w, Slotted

-----------------------------------------------------------------------------
(* The stack of host functions. *)

LEMMA TopType ==
    ASSUME TypeOK, stack # << >>
    PROVE  /\ Top \in Frame /\ Below \in Seq(Frame)
           /\ Len(stack) \in Nat /\ Len(stack) >= 1 /\ Len(Below) = Len(stack) - 1
           /\ \A i \in 1 .. Len(stack) - 1 : Below[i] = stack[i] /\ stack[i] \in Frame
           /\ Top.at \in Addr /\ Top.g \in Files
<1>1. stack \in Seq(Frame)
  BY DEF TypeOK
<1>2. Len(stack) \in Nat /\ Len(stack) >= 1 /\ \A i \in 1 .. Len(stack) : stack[i] \in Frame
  BY <1>1
<1>3. Top \in Frame
  BY <1>2 DEF Top
<1>4. Top.at \in Addr /\ Top.g \in Files
  BY <1>3 DEF Frame
<1>5. Below \in Seq(Frame) /\ Len(Below) = Len(stack) - 1
  <2> DEFINE n == Len(stack) - 1
  <2>1. n \in Int /\ n >= 0 /\ \A i \in 1 .. n : stack[i] \in Frame
    BY <1>2
  <2>2. Below = SubSeq(stack, 1, n)
    BY DEF Below
  <2> HIDE DEF n
  <2>3. /\ SubSeq(stack, 1, n) \in Seq(Frame)
        /\ Len(SubSeq(stack, 1, n)) = IF 1 <= n THEN n - 1 + 1 ELSE 0
    BY <2>1, SubSeqProperties
  <2>4. Len(SubSeq(stack, 1, n)) = n
    BY <2>1, <2>3
  <2> QED
    BY <2>2, <2>3, <2>4 DEF n
<1>6. \A i \in 1 .. Len(stack) - 1 : Below[i] = stack[i]
  BY <1>1, <1>2, SubSeqProperties DEF Below
<1> QED
  BY <1>2, <1>3, <1>4, <1>5, <1>6

\* The function on top goes on with another frame.
LEMMA Replaced ==
    ASSUME TypeOK, stack # << >>, NEW f \in Frame, stack' = Append(Below, f)
    PROVE  /\ stack' \in Seq(Frame) /\ stack' # << >> /\ Top' = f
           /\ Len(stack') = Len(stack)
<1>1. Append(Below, f) \in Seq(Frame) /\ Len(Append(Below, f)) = Len(Below) + 1
      /\ Append(Below, f)[Len(Below) + 1] = f
  BY TopType
<1> QED
  BY <1>1, TopType DEF Top

\* Another function is entered.
LEMMA Entered ==
    ASSUME TypeOK, stack # << >>, NEW e \in Frame, NEW f \in Frame,
           stack' = Append(Append(Below, e), f)
    PROVE  stack' \in Seq(Frame) /\ stack' # << >> /\ Top' = f
<1> DEFINE s == Append(Below, e)
<1>1. s \in Seq(Frame) /\ Len(s) \in Nat
  BY TopType
<1>2. Append(s, f) \in Seq(Frame) /\ Len(Append(s, f)) = Len(s) + 1 /\ Append(s, f)[Len(s) + 1] = f
  BY <1>1
<1> QED
  BY <1>1, <1>2 DEF Top

LEMMA AboveOne ==
    ASSUME NEW n \in Nat, n >= 1
    PROVE  n = 1 \/ n > 1
OBVIOUS

LEMMA GoToType ==
    ASSUME NEW f \in Frame, NEW a \in Addr, NEW g \in Files
    PROVE  GoTo(f, a, g) \in Frame /\ GoTo(f, a, g).at = a /\ GoTo(f, a, g).g = g
BY DEF GoTo, Frame

\* Leaving a function: its result tells a return from a bail unless that is at 0.
LEMMA LeaveType ==
    ASSUME TypeOK, mode = "jit", NEW r \in Addr, NEW g \in Files, Leave(r, g)
    PROVE  /\ mode' \in Modes /\ stack' \in Seq(Frame)
           /\ mode' \in {"jit", "interp"} <=> stack' # << >>
           /\ pc' \in Addr /\ gpr' = g /\ prog' = prog /\ code' = code
           /\ r # 0 => mode' \in {"resume", "interp"} /\ pc' = r
           /\ r = 0 /\ Len(stack) = 1 => mode' = "host" /\ pc' = g[Ra]
           /\ r = 0 /\ Len(stack) # 1 =>
                mode' = "jit" /\ Top'.g = g /\ Top'.at = stack[Len(stack) - 1].at
<1> DEFINE n == Len(stack) - 1
<1>1. stack # << >>
  BY DEF TypeOK
<1>2. gpr' = g /\ prog' = prog /\ code' = code
  BY DEF Leave
<1>3. g[Ra] \in Addr
  BY FileType, RegsAssumption DEF Addr
<1>4. CASE Len(stack) = 1
  BY <1>2, <1>3, <1>4 DEF Leave, HostResumes, Modes
<1>5. CASE Len(stack) # 1
  <2>1. /\ n \in 1 .. Len(Below) /\ Len(Below) = n /\ Below \in Seq(Frame) /\ Below[n] = stack[n]
        /\ Below[n] \in Frame
    BY <1>1, <1>5, TopType
  <2>2. pc \in Addr
    BY DEF TypeOK
  <2>3. CASE r = 0
    <3>1. stack' = [Below EXCEPT ![n].g = g] /\ mode' = "jit" /\ pc' = pc
      BY <1>5, <2>3 DEF Leave, CallerResumes
    <3>2. [Below[n] EXCEPT !.g = g] \in Frame /\ [Below[n] EXCEPT !.g = g].g = g
          /\ [Below[n] EXCEPT !.g = g].at = Below[n].at
      BY <2>1 DEF Frame
    <3>3. stack' = [Below EXCEPT ![n] = [Below[n] EXCEPT !.g = g]]
      BY <3>1
    <3>4. stack' \in Seq(Frame) /\ Len(stack') = n /\ stack'[n] = [Below[n] EXCEPT !.g = g]
      BY <2>1, <3>2, <3>3
    <3> QED
      BY <1>2, <1>5, <2>1, <2>2, <2>3, <3>1, <3>2, <3>4 DEF Modes, Top
  <2>4. CASE r # 0
    <3>1. stack' = Below /\ mode' = "interp" /\ pc' = r
      BY <1>5, <2>4 DEF Leave, CallerResumes
    <3> QED
      BY <1>2, <1>5, <2>1, <2>4, <3>1 DEF Modes
  <2> QED
    BY <2>3, <2>4
<1> QED
  BY <1>4, <1>5

-----------------------------------------------------------------------------
(* Type correctness. *)

LEMMA TargetType ==
    ASSUME TypeOK, NEW a, Readable(prog, a), prog.mem[a].k \in ControlKinds, NEW g \in Files
    PROVE  /\ Target(prog.mem[a], g, a) \in Addr /\ After(a) \in Addr
           /\ RegsForSlot(prog.mem[a], g, a) \in Files
           /\ prog.mem[a].t \in Addr /\ g[prog.mem[a].s] \in Addr
<1>1. /\ prog.mem[a].t \in Addr /\ prog.mem[a].s \in Regs /\ a \in Addr
  BY WordType DEF TypeOK
<1>2. g[prog.mem[a].s] \in Addr /\ After(a) \in Addr
  BY <1>1, FileType DEF Addr, After
<1>3. RegsForSlot(prog.mem[a], g, a) \in Files
  BY <1>1, LinkedType DEF RegsForSlot
<1> QED
  BY <1>1, <1>2, <1>3 DEF Target, ControlKinds

LEMMA InterpretsType ==
    ASSUME TypeOK, Interprets
    PROVE  /\ prog' = prog /\ code' = code /\ early' = NoEarly
           /\ pc' \in Addr /\ gpr' \in Files /\ ram' \in Stored
<1>1. prog' = prog /\ code' = code /\ early' = NoEarly
  BY DEF Interprets, Interpreter!Next, Interpreter!StepPlain, Interpreter!StepControl
<1>2. gpr \in Files /\ ram \in Stored /\ pc \in Addr
  BY DEF TypeOK, Stored
<1>3. CASE Interpreter!StepPlain
  <2>1. Readable(prog, pc) /\ Falls(prog.mem[pc])
    BY <1>3, InterpreterIsa DEF Interpreter!StepPlain
  <2>2. prog.mem[pc] \in Word /\ {prog.mem[pc].d, prog.mem[pc].s, prog.mem[pc].r} \subseteq Regs
    BY <2>1, WordType DEF TypeOK
  <2>3. gpr' = RegsAfter(prog.mem[pc], gpr, ram) /\ ram' = RamAfter(prog.mem[pc], gpr, ram)
        /\ pc' = pc + 1
    BY <1>3, InterpreterIsa DEF Interpreter!StepPlain
  <2>4. gpr' \in Files /\ ram' \in Stored
    BY <1>2, <2>1, <2>2, <2>3, InsnType
  <2> QED
    BY <1>1, <1>2, <2>3, <2>4 DEF Addr
<1>4. CASE Interpreter!StepControl
  <2> DEFINE w == prog.mem[pc]
             slot == prog.mem[pc + 1]
             g == RegsForSlot(w, gpr, pc)
  <2>1. /\ Readable(prog, pc) /\ w.k \in ControlKinds
        /\ Readable(prog, pc + 1) /\ Falls(slot)
    BY <1>4, InterpreterIsa DEF Interpreter!StepControl, HasSlot
  <2>2. slot \in Word /\ {slot.d, slot.s, slot.r} \subseteq Regs
    BY <2>1, WordType DEF TypeOK
  <2>3. g \in Files /\ Target(w, gpr, pc) \in Addr
    BY <1>2, <2>1, TargetType
  <2>4. /\ gpr' = IF SlotRuns(w, gpr) THEN RegsAfter(slot, g, ram) ELSE g
        /\ ram' = IF SlotRuns(w, gpr) THEN RamAfter(slot, g, ram) ELSE ram
        /\ pc' = Target(w, gpr, pc)
    BY <1>4, InterpreterIsa DEF Interpreter!StepControl
  <2> HIDE DEF w, slot, g
  <2>5. RegsAfter(slot, g, ram) \in Files /\ RamAfter(slot, g, ram) \in Stored
    BY <1>2, <2>1, <2>2, <2>3, InsnType
  <2> QED
    BY <1>1, <1>2, <2>3, <2>4, <2>5
<1> QED
  BY <1>3, <1>4 DEF Interprets, Interpreter!Next

\* What is known where translated code runs the control instruction at the top.
LEMMA ControlType ==
    ASSUME TypeOK, NEW K, Controls(K)
    PROVE  /\ mode = "jit" /\ stack # << >> /\ Top \in Frame /\ Top.at \in Addr /\ Top.g \in Files
           /\ Word0.k \in K /\ Word0.k # "bal"
           /\ Readable(prog, Top.at) /\ Word0.k \in ControlKinds
           /\ Readable(prog, Top.at + 1) /\ Emitted(Slot)
           /\ Word0.t \in Addr /\ Top.g[Word0.s] \in Addr /\ After(Top.at) \in Addr
           /\ Linked(Top.g, Top.at) \in Files
<1>1. mode = "jit" /\ stack # << >>
  BY DEF TypeOK, Controls, InBlock, Running
<1>2. Top \in Frame /\ Top.at \in Addr /\ Top.g \in Files
  BY <1>1, TopType
<1>3. /\ Word0.k \in K /\ Word0.k # "bal"
      /\ Readable(prog, Top.at) /\ Decode(Word0) \notin {"fall", "trap"}
      /\ Readable(prog, Top.at + 1) /\ Emitted(Slot)
  BY DEF Controls, EmittedControl, Control, Word0, Slot
<1>4. Word0.k \in ControlKinds
  BY <1>3 DEF Decode
<1> QED
  BY <1>1, <1>2, <1>3, <1>4, TargetType, LinkedType DEF Word0

LEMMA TypeStep == TypeOK /\ [Next]_vars => TypeOK'
<1> SUFFICES ASSUME TypeOK, [Next]_vars
             PROVE  TypeOK'
  OBVIOUS
<1> DEFINE Stays == prog' = prog /\ code' = code
           StackOK == mode' \in Modes /\ stack' \in Seq(Frame)
                      /\ (mode' \in {"jit", "interp"} <=> stack' # << >>)
           StateOK == pc' \in Addr /\ gpr' \in Files /\ ram' \in Stored
                      /\ early' \in Val \cup {NoEarly}
<1>0. /\ pc \in Addr /\ gpr \in Files /\ ram \in Stored /\ early \in Val \cup {NoEarly}
      /\ stack \in Seq(Frame) /\ mode \in Modes /\ (mode \in {"jit", "interp"} <=> stack # << >>)
      /\ Ra \in Regs
  BY RegsAssumption DEF TypeOK, Stored
<1>a. ASSUME Stays, StackOK, StateOK PROVE TypeOK'
  BY <1>a DEF TypeOK, Stored
<1> HIDE DEF Stays, StackOK, StateOK
<1>1. CASE HostStep
  <2>1. Interprets /\ mode \in {"host", "resume"} /\ mode' = "host" /\ stack' = stack
    BY <1>1 DEF HostStep
  <2>2. stack = << >>
    BY <1>0, <2>1
  <2> QED
    BY <1>0, <1>a, <2>1, <2>2, InterpretsType DEF Stays, StackOK, StateOK, Modes
<1>2. CASE HostRun
  <2>1. Entering(pc, gpr) \in Frame
    BY <1>0 DEF Entering, Frame
  <2>2. stack' = << Entering(pc, gpr) >> /\ stack' \in Seq(Frame) /\ stack' # << >>
    BY <1>2, <2>1 DEF HostRun
  <2> QED
    BY <1>0, <1>2, <1>a, <2>2 DEF HostRun, Stays, StackOK, StateOK, Modes
<1>3. CASE InterpStep
  BY <1>0, <1>3, <1>a, InterpretsType DEF InterpStep, Stays, StackOK, StateOK
<1>4. CASE InterpDone
  <2>1. stack # << >> /\ stack' = Append(Below, Reloaded(Top))
    BY <1>0, <1>4 DEF InterpDone
  <2>2. Reloaded(Top) \in Frame
    BY <1>0, <2>1, TopType DEF Reloaded, Frame
  <2> QED
    BY <1>0, <1>4, <1>a, <2>1, <2>2, Replaced DEF InterpDone, Stays, StackOK, StateOK, Modes
<1>5. CASE JitOut
  <2>1. mode = "jit" /\ Leave(Top.at, Top.g) /\ ram' = ram /\ early' = early
    BY <1>5 DEF JitOut
  <2>2. Top.at \in Addr /\ Top.g \in Files
    BY <1>0, <2>1, TopType
  <2> QED
    BY <1>0, <1>a, <2>1, <2>2, LeaveType DEF Stays, StackOK, StateOK
<1>6. CASE JitRunOn
  <2>1. stack # << >> /\ stack' = Append(Below, GoTo(Top, Top.at, Top.g))
    BY <1>0, <1>6 DEF JitRunOn, Running
  <2>2. GoTo(Top, Top.at, Top.g) \in Frame
    BY <2>1, TopType, GoToType
  <2> QED
    BY <1>0, <1>6, <1>a, <2>1, <2>2, Replaced DEF JitRunOn, Stays, StackOK, StateOK
<1>7. CASE JitPlain
  <2> DEFINE f == [Top EXCEPT !.at = @ + 1, !.g = RegsAfter(Word0, @, ram)]
  <2>1. stack # << >> /\ stack' = Append(Below, f) /\ ram' = RamAfter(Word0, Top.g, ram)
        /\ Readable(prog, Top.at) /\ Emitted(Word0)
    BY <1>0, <1>7 DEF JitPlain, InBlock, Running
  <2>2. Word0 \in Word /\ {Word0.d, Word0.s, Word0.r} \subseteq Regs /\ Falls(Word0)
    <3>1. Word0 \in Word /\ {Word0.d, Word0.s, Word0.r} \subseteq Regs
      BY <2>1, WordType DEF TypeOK, Word0
    <3>2. Falls(Word0)
      BY <2>1 DEF Emitted, Falls, PlainKinds, ControlKinds
    <3> QED
      BY ONLY <3>1, <3>2
  <2>3. Top \in Frame /\ Top.g \in Files /\ Top.at + 1 \in Addr
    BY <2>1, TopType DEF Addr
  <2>4. RegsAfter(Word0, Top.g, ram) \in Files /\ ram' \in Stored
    BY <1>0, <2>1, <2>2, <2>3, InsnType
  <2>5. f \in Frame
    BY <2>3, <2>4 DEF Frame
  <2> HIDE DEF f
  <2> QED
    BY <1>0, <1>7, <1>a, <2>1, <2>4, <2>5, Replaced DEF JitPlain, Stays, StackOK, StateOK
<1>8. CASE JitBail
  <2>1. mode = "jit" /\ ram' = ram
    BY <1>8 DEF JitBail, InBlock, Running
  <2>2. Top.at \in Addr /\ Top.g \in Files /\ Top.g[Ra] \in Val
    BY <1>0, <2>1, TopType, FileType
  <2>3. Linked(Top.g, Top.at) \in Files
    BY <2>2, LinkedType
  <2>4. CASE LinkedEarly
    <3>1. Leave(Top.at, Linked(Top.g, Top.at)) /\ early' \in Val \cup {NoEarly}
      BY <1>0, <1>8, <2>2, <2>4 DEF JitBail
    <3> QED
      BY <1>0, <1>a, <2>1, <2>2, <2>3, <3>1, LeaveType DEF Stays, StackOK, StateOK
  <2>5. CASE ~LinkedEarly
    <3>1. Leave(Top.at, Top.g) /\ early' = early
      BY <1>8, <2>5 DEF JitBail
    <3> QED
      BY <1>0, <1>a, <2>1, <2>2, <3>1, LeaveType DEF Stays, StackOK, StateOK
  <2> QED
    BY <2>4, <2>5
<1>9. CASE JitBranch
  <2> DEFINE pred == Word0.k = "likely" => Cond(Top.g)
             next == IF Cond(Top.g) THEN Word0.t ELSE After(Top.at)
             f == GoTo(Top, next, SlotRegs(pred, Top.g))
  <2>1. Controls({"branch", "likely"})
    BY <1>9 DEF JitBranch
  <2>2. stack' = Append(Below, f) /\ ram' = SlotRam(pred, Top.g)
    BY <1>9 DEF JitBranch
  <2>3. next \in Addr /\ pred \in BOOLEAN
    BY <2>1, ControlType
  <2>4. SlotRegs(pred, Top.g) \in Files /\ SlotRam(pred, Top.g) \in Stored
    BY <2>1, <2>3, ControlType, SlotType
  <2>5. f \in Frame
    BY <2>1, <2>3, <2>4, ControlType, GoToType
  <2> HIDE DEF f, pred
  <2> QED
    BY <1>0, <1>9, <1>a, <2>1, <2>2, <2>4, <2>5, ControlType, Replaced
    DEF JitBranch, Stays, StackOK, StateOK
<1>10. CASE JitJump
  <2>1. Controls({"jump"})
    BY <1>10 DEF JitJump
  <2>2. Slotted(Top.g) \in Files /\ SlotRam(TRUE, Top.g) \in Stored
    BY <2>1, ControlType, SlotType
  <2>3. GoTo(Top, Word0.t, Slotted(Top.g)) \in Frame
    BY <2>1, <2>2, ControlType, GoToType
  <2> QED
    BY <1>0, <1>10, <1>a, <2>1, <2>2, <2>3, ControlType, Replaced
    DEF JitJump, Stays, StackOK, StateOK
<1>11. CASE JitCall
  <2> DEFINE l == Linked(Top.g, Top.at)
             g == Slotted(l)
             waiting == GoTo(Top, ReturnsTo, g)
  <2>1. Controls({"call", "jalr"})
    BY <1>11 DEF JitCall
  <2>2. l \in Files
    BY <2>1, ControlType
  <2>3. g \in Files /\ SlotRam(TRUE, l) \in Stored
    BY <2>1, <2>2, ControlType, SlotType
  <2>4. waiting \in Frame
    BY <2>1, <2>3, ControlType, GoToType DEF ReturnsTo
  <2>5. Callee \in Addr
    BY <2>1, ControlType DEF Callee
  <2>6. gpr' = g /\ ram' = SlotRam(TRUE, l) /\ Stays /\ early' = early
    BY <1>11 DEF JitCall, Spilled, Stays
  <2>7. Entering(Callee, g) \in Frame
    BY <2>3, <2>5 DEF Entering, Frame
  <2>8. mode = "jit" /\ stack # << >>
    BY <2>1, ControlType
  <2>9. \/ stack' = Append(Append(Below, waiting), Entering(Callee, g)) /\ mode' = mode /\ pc' = pc
        \/ stack' = Append(Below, waiting) /\ mode' = "interp" /\ pc' = Callee
    BY <1>11, <2>6 DEF JitCall
  <2> HIDE DEF l, g, waiting
  <2>10. StackOK
    BY <2>4, <2>7, <2>8, <2>9, Replaced, Entered DEF StackOK, Modes
  <2> QED
    BY <1>0, <1>a, <2>3, <2>5, <2>6, <2>9, <2>10 DEF StateOK
<1>12. CASE JitReturn
  <2>1. /\ Controls({"jr"}) /\ Leave(0, Slotted(Top.g))
        /\ ram' = SlotRam(TRUE, Top.g) /\ early' = early
    BY <1>12 DEF JitReturn
  <2>2. Slotted(Top.g) \in Files /\ SlotRam(TRUE, Top.g) \in Stored
    BY <2>1, ControlType, SlotType
  <2>3. 0 \in Addr /\ mode = "jit"
    BY <2>1, ControlType DEF Addr
  <2> QED
    BY <1>0, <1>a, <2>1, <2>2, <2>3, LeaveType DEF Stays, StackOK, StateOK
<1>13. CASE JitSwitch
  <2> DEFINE t == Top.g[Word0.s]
  <2>1. Controls({"jr"}) /\ ram' = SlotRam(TRUE, Top.g) /\ early' = early
    BY <1>13 DEF JitSwitch
  <2>2. Slotted(Top.g) \in Files /\ SlotRam(TRUE, Top.g) \in Stored
    BY <2>1, ControlType, SlotType
  <2>3. CASE t \in ToSet(Succs(prog, Top.at))
    <3>1. GoTo(Top, t, Slotted(Top.g)) \in Frame
      BY <2>1, <2>2, ControlType, GoToType
    <3>2. /\ stack' = Append(Below, GoTo(Top, t, Slotted(Top.g)))
          /\ UNCHANGED << prog, code, mode, pc, gpr >>
      BY <1>13, <2>3 DEF JitSwitch
    <3> QED
      BY <1>0, <1>a, <2>1, <2>2, <3>1, <3>2, ControlType, Replaced DEF Stays, StackOK, StateOK
  <2>4. CASE t \notin ToSet(Succs(prog, Top.at))
    <3>1. Leave(t, Slotted(Top.g))
      BY <1>13, <2>4 DEF JitSwitch
    <3>2. t \in Addr /\ mode = "jit"
      BY <2>1, ControlType
    <3> QED
      BY <1>0, <1>a, <2>1, <2>2, <3>1, <3>2, LeaveType DEF Stays, StackOK, StateOK
  <2> QED
    BY <2>3, <2>4
<1>14. CASE UNCHANGED vars
  BY <1>14 DEF vars, TypeOK
<1> QED
  BY <1>1, <1>2, <1>3, <1>4, <1>5, <1>6, <1>7, <1>8, <1>9, <1>10, <1>11, <1>12, <1>13, <1>14
  DEF Next, Done

LEMMA TypeInit == Init => TypeOK
<1> SUFFICES ASSUME Init PROVE TypeOK
  OBVIOUS
<1>1. prog \in Programs /\ Program(prog) /\ UsesRegs(prog)
  BY ProgramsAssumption, RegsAssumption DEF Init
<1>2. DOMAIN code \subseteq prog.entries
  BY DEF Init, Translate, Translated
<1>3. pc \in Addr /\ gpr \in Files
  BY <1>1, StartAssumption DEF Init, Program
<1>4. PICK m \in StartRams :
         ram = [a \in RamAddr \cup {Bucket} |-> IF a = Bucket THEN 0 ELSE m[a]]
  BY DEF Init
<1>5. m \in [RamAddr -> Val] /\ 0 \in Val
  BY StartAssumption, ZeroOneVal
<1>6. ram \in [RamAddr \cup {Bucket} -> Val]
  BY <1>4, <1>5
<1> QED
  BY <1>1, <1>2, <1>3, <1>6 DEF Init, TypeOK, Modes

\* Translated code, its calls, bails and returns stay within their types.
THEOREM R4300TypeCorrect == Spec => []TypeOK
BY TypeInit, TypeStep, PTL DEF Spec

-----------------------------------------------------------------------------
(* An early link: after it the guest's $31 is in early, until the call or  *)
(* jalr that linked is run again, by the interpreter.                      *)

EarlyInv ==
    early # NoEarly =>
        /\ mode # "host"
        /\ Readable(prog, GuestPc) /\ Links(prog.mem[GuestPc])
        /\ ~EmittedControl(GuestPc)

Inv == TypeOK /\ prog \in Programs /\ EarlyInv

\* Where the function on top has code, there is no early link.
LEMMA CodeSeesGuest ==
    ASSUME TypeOK, EarlyInv, mode = "jit",
           EmittedControl(Top.at) \/ ~Links(prog.mem[Top.at])
    PROVE  early = NoEarly /\ GuestPc = Top.at /\ GuestRegs = Top.g
BY DEF EarlyInv, GuestPc, GuestRegs, InJit

LEMMA ControlSeesGuest ==
    ASSUME TypeOK, EarlyInv, NEW K, Controls(K)
    PROVE  early = NoEarly /\ GuestPc = Top.at /\ GuestRegs = Top.g
BY ControlType, CodeSeesGuest DEF Controls

\* The registers of a file, after $31 was changed and is changed back.
LEMMA LinkUndone ==
    ASSUME NEW g \in Files, NEW a \in Addr, NEW v \in Val
    PROVE  /\ [Linked(g, a) EXCEPT ![Ra] = g[Ra]] = g
           /\ Linked([g EXCEPT ![Ra] = v], a) = Linked(g, a)
           /\ [[g EXCEPT ![Ra] = v] EXCEPT ![Ra] = v] = [g EXCEPT ![Ra] = v]
           /\ [Linked(g, a) EXCEPT ![Ra] = v] = [g EXCEPT ![Ra] = v]
<1>1. Ra \in Regs /\ Ra # 0 /\ DOMAIN g = Regs /\ g = [x \in Regs |-> g[x]]
  BY RegsAssumption, ScanAssumption DEF Files
<1>2. \A h : Linked(h, a) = [h EXCEPT ![Ra] = After(a) % Modulus]
  BY <1>1 DEF Linked, SetReg
<1> QED
  BY <1>1, <1>2

\* A link does not depend on what was in $31.
LEMMA LinkOverwrites ==
    ASSUME NEW g \in Files, NEW a \in Addr, NEW v \in Val
    PROVE  Linked([g EXCEPT ![Ra] = v], a) = Linked(g, a)
<1>1. Ra \in Regs /\ Ra # 0 /\ DOMAIN g = Regs
  BY RegsAssumption, ScanAssumption DEF Files
<1> QED
  BY ONLY <1>1 DEF Linked, SetReg

-----------------------------------------------------------------------------
(* The interpreter, in the host or in r4300bt_call. *)

LEMMA InterpretsRefines ==
    ASSUME Inv, JalrReadsNoLink, Interprets, mode # "jit", mode' # "jit"
    PROVE  Core!Next
<1> DEFINE w == prog.mem[pc]
           h == GuestRegs
<1>1. prog' = prog /\ early' = NoEarly /\ gpr \in Files /\ ram \in Stored /\ pc \in Addr
  BY InterpretsType DEF Inv, TypeOK, Stored
<1>2. GuestPc = pc /\ GuestPc' = pc' /\ GuestRegs' = gpr'
      /\ h = IF early = NoEarly THEN gpr ELSE [gpr EXCEPT ![Ra] = early]
  BY <1>1 DEF GuestPc, GuestRegs, InJit
<1>3. GuestRam = [a \in RamAddr |-> ram[a]] /\ GuestRam' = [a \in RamAddr |-> ram'[a]]
  BY DEF GuestRam
<1>4. CASE Interpreter!StepPlain
  <2>1. /\ Readable(prog, pc) /\ Falls(w)
        /\ gpr' = RegsAfter(w, gpr, ram) /\ ram' = RamAfter(w, gpr, ram) /\ pc' = pc + 1
    BY <1>4, InterpreterIsa DEF Interpreter!StepPlain
  <2>2. early = NoEarly
    BY <1>2, <2>1 DEF Inv, EarlyInv, Links, Falls, ControlKinds
  <2>3. w \in Word /\ {w.d, w.s, w.r} \subseteq Regs
    BY <2>1, WordType DEF Inv, TypeOK
  <2> HIDE DEF w
  <2>4. /\ RegsAfter(w, gpr, GuestRam) = RegsAfter(w, gpr, ram)
        /\ RamAfter(w, gpr, GuestRam) = [a \in RamAddr |-> RamAfter(w, gpr, ram)[a]]
    BY <1>1, <1>3, <2>1, <2>3, InsnType
  <2>5. /\ GuestRegs' = RegsAfter(w, GuestRegs, GuestRam)
        /\ GuestRam' = RamAfter(w, GuestRegs, GuestRam)
    BY <1>2, <1>3, <2>1, <2>2, <2>4
  <2>6. Core!StepPlain
    BY <1>1, <1>2, <2>1, <2>5, CoreIsa DEF w, Core!StepPlain
  <2> QED
    BY <2>6 DEF Core!Next
<1>5. CASE Interpreter!StepControl
  <2> DEFINE slot == prog.mem[pc + 1]
             g == RegsForSlot(w, gpr, pc)
  <2>1. /\ HasSlot(prog, pc)
        /\ gpr' = IF SlotRuns(w, gpr) THEN RegsAfter(slot, g, ram) ELSE g
        /\ ram' = IF SlotRuns(w, gpr) THEN RamAfter(slot, g, ram) ELSE ram
        /\ pc' = Target(w, gpr, pc)
    BY <1>5, InterpreterIsa DEF Interpreter!StepControl
  <2>2. /\ Readable(prog, pc) /\ w.k \in ControlKinds
        /\ Readable(prog, pc + 1) /\ Falls(slot)
    BY <2>1 DEF HasSlot
  <2>3. slot \in Word /\ {slot.d, slot.s, slot.r} \subseteq Regs
    BY <2>2, WordType DEF Inv, TypeOK
  <2>4. g \in Files
    BY <1>1, <2>2, TargetType DEF Inv
  <2>5. /\ RegsForSlot(w, h, pc) = g /\ Target(w, h, pc) = Target(w, gpr, pc)
        /\ SlotRuns(w, h) <=> SlotRuns(w, gpr)
    <3>1. CASE early = NoEarly
      BY <1>2, <3>1
    <3>2. CASE early # NoEarly
      <4>1. Links(w) /\ early \in Val /\ h = [gpr EXCEPT ![Ra] = early]
        BY <1>2, <3>2 DEF Inv, EarlyInv, TypeOK
      <4>2. w.k = "jalr" => w.s # Ra
        BY <2>2 DEF Inv, JalrReadsNoLink, Readable
      <4>3. w.k = "jalr" => h[w.s] = gpr[w.s]
        BY <1>1, <4>1, <4>2 DEF Files
      <4>4. Linked(h, pc) = Linked(gpr, pc)
        <5>1. gpr \in Files /\ pc \in Addr /\ early \in Val
          BY <1>1, <4>1
        <5>2. Linked([gpr EXCEPT ![Ra] = early], pc) = Linked(gpr, pc)
          BY ONLY <5>1, LinkOverwrites
        <5> HIDE DEF h
        <5> QED
          BY ONLY <4>1, <5>2
      <4> HIDE DEF w, h
      <4> QED
        BY <4>1, <4>3, <4>4 DEF Links, RegsForSlot, Target, SlotRuns
    <3> QED
      BY <3>1, <3>2
  <2> HIDE DEF w, g, h, slot
  <2>6. /\ RegsAfter(slot, g, GuestRam) = RegsAfter(slot, g, ram)
        /\ RamAfter(slot, g, GuestRam) = [a \in RamAddr |-> RamAfter(slot, g, ram)[a]]
    <3> DEFINE n == [a \in RamAddr |-> ram[a]]
    <3>1. /\ RegsAfter(slot, g, n) = RegsAfter(slot, g, ram)
          /\ RamAfter(slot, g, n) = [a \in RamAddr |-> RamAfter(slot, g, ram)[a]]
      BY ONLY <1>1, <2>2, <2>3, <2>4, InsnType
    <3> QED
      BY ONLY <1>3, <3>1, Zenon DEF n
  <2>7. /\ GuestRegs' = IF SlotRuns(w, h) THEN RegsAfter(slot, g, GuestRam) ELSE g
        /\ GuestRam' = IF SlotRuns(w, h) THEN RamAfter(slot, g, GuestRam) ELSE GuestRam
        /\ GuestPc' = Target(w, h, pc)
    BY <1>2, <1>3, <2>1, <2>5, <2>6
  <2>8. Core!StepControl
    BY <1>1, <1>2, <2>1, <2>5, <2>7, CoreIsa DEF w, slot, g, h, Core!StepControl
  <2> QED
    BY <2>8 DEF Core!Next
<1> QED
  BY <1>4, <1>5 DEF Interprets, Interpreter!Next

-----------------------------------------------------------------------------
(* Translated code. *)

LEMMA Stutters ==
    ASSUME prog' = prog, GuestPc' = GuestPc, GuestRegs' = GuestRegs, ram' = ram
    PROVE  UNCHANGED Core!vars
BY DEF Core!vars, GuestRam

\* The guest as it is seen after a function was left.
LEMMA LeaveView ==
    ASSUME TypeOK, mode = "jit", NEW r \in Addr, NEW g \in Files, Leave(r, g)
    PROVE  /\ r # 0 => GuestPc' = r /\ mode' # "host"
           /\ r = 0 /\ Len(stack) = 1 => GuestPc' = g[Ra]
           /\ r = 0 /\ Len(stack) # 1 => GuestPc' = stack[Len(stack) - 1].at
           /\ GuestRegs' = IF early' = NoEarly THEN g ELSE [g EXCEPT ![Ra] = early']
BY LeaveType DEF GuestPc, GuestRegs, InJit

\* A control instruction and its slot in one step.
LEMMA ControlRefines ==
    ASSUME TypeOK, EarlyInv, NEW K, Controls(K), prog' = prog, early' = early,
           NEW g \in Files, g = RegsForSlot(Word0, Top.g, Top.at),
           NEW q \in BOOLEAN, q <=> SlotRuns(Word0, Top.g),
           GuestPc' = Target(Word0, Top.g, Top.at),
           GuestRegs' = SlotRegs(q, g), ram' = SlotRam(q, g)
    PROVE  Core!Next
<1>1. GuestPc = Top.at /\ GuestRegs = Top.g
  BY ControlSeesGuest
<1>2. /\ Readable(prog, Top.at) /\ Word0.k \in ControlKinds
      /\ Readable(prog, Top.at + 1) /\ Emitted(Slot) /\ Top.at \in Addr
  BY ControlType
<1>3. /\ Falls(Slot) /\ SlotRegs(TRUE, g) = RegsAfter(Slot, g, GuestRam) /\ SlotRegs(FALSE, g) = g
      /\ [a \in RamAddr |-> SlotRam(TRUE, g)[a]] = RamAfter(Slot, g, GuestRam)
      /\ [a \in RamAddr |-> SlotRam(FALSE, g)[a]] = GuestRam
  BY <1>2, SlotType
<1>4. HasSlot(prog, Top.at)
  BY <1>2, <1>3 DEF HasSlot, Word0, Slot
<1>5. GuestRam' = [a \in RamAddr |-> SlotRam(q, g)[a]]
  BY DEF GuestRam
<1>6. CASE q
  <2>1. /\ GuestRegs' = RegsAfter(Slot, g, GuestRam) /\ GuestRam' = RamAfter(Slot, g, GuestRam)
    BY <1>3, <1>5, <1>6
  <2>2. Core!StepControl
    BY <1>1, <1>4, <1>6, <2>1, CoreIsa DEF Core!StepControl, Word0, Slot
  <2> QED
    BY <2>2 DEF Core!Next
<1>7. CASE ~q
  <2>1. /\ GuestRegs' = g /\ GuestRam' = GuestRam
    BY <1>3, <1>5, <1>7
  <2>2. Core!StepControl
    BY <1>1, <1>4, <1>7, <2>1, CoreIsa DEF Core!StepControl, Word0, Slot
  <2> QED
    BY <2>2 DEF Core!Next
<1> QED
  BY <1>6, <1>7

\* The function on top goes on at a with registers g.
LEMMA GoesOn ==
    ASSUME TypeOK, mode = "jit", mode' = "jit", NEW f \in Frame,
           stack' = Append(Below, f), early' = early
    PROVE  /\ GuestPc' = f.at
           /\ GuestRegs' = IF early = NoEarly THEN f.g ELSE [f.g EXCEPT ![Ra] = early]
<1>1. stack # << >>
  BY DEF TypeOK
<1>2. Top' = f
  BY <1>1, Replaced
<1> QED
  BY <1>2 DEF GuestPc, GuestRegs, InJit

LEMMA PlainRefines ==
    ASSUME Inv, JitPlain
    PROVE  Core!Next /\ early' = NoEarly
<1> DEFINE f == [Top EXCEPT !.at = @ + 1, !.g = RegsAfter(Word0, @, ram)]
<1>1. /\ mode = "jit" /\ mode' = "jit" /\ stack # << >> /\ stack' = Append(Below, f)
      /\ ram' = RamAfter(Word0, Top.g, ram) /\ prog' = prog /\ early' = early
      /\ Readable(prog, Top.at) /\ Emitted(Word0)
  BY DEF Inv, TypeOK, JitPlain, InBlock, Running
<1>2. /\ Word0 \in Word /\ {Word0.d, Word0.s, Word0.r} \subseteq Regs /\ Falls(Word0)
      /\ ~Links(Word0)
  <2>1. Word0 \in Word /\ {Word0.d, Word0.s, Word0.r} \subseteq Regs
    BY <1>1, WordType DEF Inv, TypeOK, Word0
  <2>2. Falls(Word0) /\ ~Links(Word0)
    BY <1>1 DEF Emitted, Falls, PlainKinds, ControlKinds, Links
  <2> QED
    BY ONLY <2>1, <2>2
<1>3. early = NoEarly /\ GuestPc = Top.at /\ GuestRegs = Top.g
  BY <1>1, <1>2, CodeSeesGuest DEF Inv, Word0
<1>4. Top \in Frame /\ Top.g \in Files /\ Top.at + 1 \in Addr /\ ram \in Stored
  BY <1>1, TopType DEF Inv, TypeOK, Addr, Stored
<1>5. /\ RegsAfter(Word0, Top.g, ram) \in Files
      /\ RegsAfter(Word0, Top.g, GuestRam) = RegsAfter(Word0, Top.g, ram)
      /\ RamAfter(Word0, Top.g, GuestRam) = [a \in RamAddr |-> RamAfter(Word0, Top.g, ram)[a]]
  BY <1>2, <1>4, InsnType DEF GuestRam
<1>6. f \in Frame /\ f.at = Top.at + 1 /\ f.g = RegsAfter(Word0, Top.g, ram)
  BY <1>4, <1>5 DEF Frame
<1> HIDE DEF f
<1>7. GuestPc' = Top.at + 1 /\ GuestRegs' = RegsAfter(Word0, GuestRegs, GuestRam)
  BY <1>1, <1>3, <1>5, <1>6, GoesOn DEF Inv
<1>8. GuestRam' = RamAfter(Word0, GuestRegs, GuestRam)
  BY <1>1, <1>3, <1>5 DEF GuestRam
<1>9. Core!StepPlain
  BY <1>1, <1>2, <1>3, <1>7, <1>8, CoreIsa DEF Core!StepPlain, Word0
<1> QED
  BY <1>1, <1>3, <1>9 DEF Core!Next

\* A bail leaves the guest before the instruction; if that has linked, $31 is in early.
LEMMA BailStutters ==
    ASSUME Inv, JalrReadsNoLink, ReturnsFollowGuest, JitBail
    PROVE  UNCHANGED Core!vars /\ EarlyInv'
<1>1. /\ mode = "jit" /\ stack # << >> /\ ram' = ram /\ ~EmittedControl(Top.at)
  BY DEF Inv, TypeOK, JitBail, InBlock, Running
<1>2. Top.at \in Addr /\ Top.at # 0 /\ Top.g \in Files /\ Top.g[Ra] \in Val /\ Ra \in Regs
  BY <1>1, TopType, FileType, RegsAssumption DEF Inv, ReturnsFollowGuest, InJit
<1>3. /\ GuestPc = Top.at
      /\ GuestRegs = IF early = NoEarly THEN Top.g ELSE [Top.g EXCEPT ![Ra] = early]
  BY <1>1 DEF GuestPc, GuestRegs, InJit
<1>4. early \in Val \cup {NoEarly} /\ NoEarly \notin Val
  BY SizeAssumption DEF Inv, TypeOK, NoEarly, Val
<1>5. CASE LinkedEarly
  <2> DEFINE l == Linked(Top.g, Top.at)
  <2>1. l \in Files /\ Leave(Top.at, l) /\ early' = IF early = NoEarly THEN Top.g[Ra] ELSE early
    BY <1>2, <1>5, LinkedType DEF JitBail
  <2>2. /\ GuestPc' = Top.at /\ mode' # "host" /\ prog' = prog /\ early' # NoEarly
        /\ GuestRegs' = [l EXCEPT ![Ra] = early']
    BY <1>1, <1>2, <1>4, <2>1, LeaveView, LeaveType DEF Inv
  <2>3. GuestRegs' = GuestRegs
    <3>1. CASE early = NoEarly
      <4>1. [l EXCEPT ![Ra] = Top.g[Ra]] = Top.g
        BY <1>2, LinkUndone, Zenon
      <4> QED
        BY <1>3, <2>1, <2>2, <3>1, <4>1
    <3>2. CASE early # NoEarly
      <4>1. early \in Val
        BY <1>4, <3>2
      <4>2. [l EXCEPT ![Ra] = early] = [Top.g EXCEPT ![Ra] = early]
        BY ONLY <1>2, <4>1, LinkUndone DEF l
      <4> QED
        BY <1>3, <2>1, <2>2, <3>2, <4>2
    <3> QED
      BY <3>1, <3>2
  <2>4. EarlyInv'
    BY <1>1, <1>5, <2>2 DEF EarlyInv, LinkedEarly, Word0, Control, Readable, EmittedControl
  <2> QED
    BY <1>1, <1>3, <2>2, <2>3, <2>4, Stutters
<1>6. CASE ~LinkedEarly
  <2>1. Leave(Top.at, Top.g) /\ early' = early
    BY <1>6 DEF JitBail
  <2>2. /\ GuestPc' = Top.at /\ mode' # "host" /\ prog' = prog
        /\ GuestRegs' = GuestRegs
    BY <1>1, <1>2, <1>3, <2>1, LeaveView, LeaveType DEF Inv
  <2>3. EarlyInv'
    BY <1>3, <2>1, <2>2 DEF Inv, EarlyInv, Readable, Control, EmittedControl
  <2> QED
    BY <1>1, <1>3, <2>2, <2>3, Stutters
<1> QED
  BY <1>5, <1>6

LEMMA OutStutters ==
    ASSUME Inv, ReturnsFollowGuest, JitOut
    PROVE  UNCHANGED Core!vars /\ EarlyInv'
<1>1. mode = "jit" /\ stack # << >> /\ ram' = ram /\ Leave(Top.at, Top.g) /\ early' = early
  BY DEF Inv, TypeOK, JitOut
<1>2. Top.at \in Addr /\ Top.at # 0 /\ Top.g \in Files
  BY <1>1, TopType DEF Inv, ReturnsFollowGuest, InJit
<1>3. /\ GuestPc = Top.at
      /\ GuestRegs = IF early = NoEarly THEN Top.g ELSE [Top.g EXCEPT ![Ra] = early]
  BY <1>1 DEF GuestPc, GuestRegs, InJit
<1>4. GuestPc' = Top.at /\ mode' # "host" /\ prog' = prog /\ GuestRegs' = GuestRegs
  BY <1>1, <1>2, <1>3, LeaveView, LeaveType DEF Inv
<1>5. EarlyInv'
  BY <1>1, <1>3, <1>4 DEF Inv, EarlyInv, Readable, Control, EmittedControl
<1> QED
  BY <1>1, <1>3, <1>4, <1>5, Stutters

LEMMA RunOnStutters ==
    ASSUME Inv, JitRunOn
    PROVE  UNCHANGED Core!vars /\ EarlyInv'
<1>1. /\ mode = "jit" /\ mode' = "jit" /\ stack # << >> /\ ram' = ram /\ prog' = prog
      /\ early' = early /\ stack' = Append(Below, GoTo(Top, Top.at, Top.g))
  BY DEF Inv, TypeOK, JitRunOn, Running
<1>2. /\ GoTo(Top, Top.at, Top.g) \in Frame /\ GoTo(Top, Top.at, Top.g).at = Top.at
      /\ GoTo(Top, Top.at, Top.g).g = Top.g
  BY <1>1, TopType, GoToType DEF Inv
<1>3. GuestPc' = GuestPc /\ GuestRegs' = GuestRegs
  BY <1>1, <1>2, GoesOn DEF Inv, GuestPc, GuestRegs, InJit
<1>4. EarlyInv'
  BY <1>1, <1>3 DEF Inv, EarlyInv, Readable, Control, EmittedControl
<1> QED
  BY <1>1, <1>3, <1>4, Stutters

\* Entering a function loads what the interpreter has, and r4300bt_call ends where
\* its caller goes on.
LEMMA HandOverStutters ==
    ASSUME Inv, HostRun \/ InterpDone
    PROVE  UNCHANGED Core!vars /\ EarlyInv'
<1>1. /\ mode # "jit" /\ mode' = "jit" /\ ram' = ram /\ prog' = prog /\ early' = early
      /\ pc \in Addr /\ gpr \in Files
  BY DEF Inv, TypeOK, HostRun, InterpDone
<1>2. Top'.at = pc /\ Top'.g = gpr
  <2>1. CASE HostRun
    <3>1. stack' = << Entering(pc, gpr) >>
      BY <2>1 DEF HostRun
    <3> QED
      BY <3>1 DEF Top, Entering
  <2>2. CASE InterpDone
    <3>1. stack # << >> /\ stack' = Append(Below, Reloaded(Top)) /\ pc = Top.at
      BY <2>2 DEF InterpDone, Inv, TypeOK
    <3>2. Reloaded(Top) \in Frame /\ Reloaded(Top).at = pc /\ Reloaded(Top).g = gpr
      BY <1>1, <3>1, TopType DEF Inv, Reloaded, Frame
    <3>3. Top' = Reloaded(Top)
      BY <3>1, <3>2, Replaced DEF Inv
    <3> QED
      BY <3>2, <3>3
  <2> QED
    BY <2>1, <2>2
<1>3. GuestPc' = GuestPc /\ GuestRegs' = GuestRegs
  BY <1>1, <1>2 DEF GuestPc, GuestRegs, InJit
<1>4. EarlyInv'
  BY <1>1, <1>3 DEF Inv, EarlyInv, Readable, Control, EmittedControl
<1> QED
  BY <1>1, <1>3, <1>4, Stutters

LEMMA BranchRefines ==
    ASSUME Inv, JitBranch
    PROVE  Core!Next /\ early' = NoEarly
<1> DEFINE pred == Word0.k = "likely" => Cond(Top.g)
           next == IF Cond(Top.g) THEN Word0.t ELSE After(Top.at)
           f == GoTo(Top, next, SlotRegs(pred, Top.g))
<1>1. /\ Controls({"branch", "likely"}) /\ stack' = Append(Below, f) /\ ram' = SlotRam(pred, Top.g)
      /\ prog' = prog /\ mode' = mode /\ early' = early
  BY DEF JitBranch
<1>2. /\ early = NoEarly /\ Top.g \in Files /\ next \in Addr /\ pred \in BOOLEAN
      /\ Word0.k \in {"branch", "likely"} /\ mode = "jit" /\ Top \in Frame
  BY <1>1, ControlSeesGuest, ControlType DEF Inv
<1>3. SlotRegs(pred, Top.g) \in Files
  BY <1>1, <1>2, ControlType, SlotType DEF Inv
<1>4. GuestPc' = next /\ GuestRegs' = SlotRegs(pred, Top.g)
  BY <1>1, <1>2, <1>3, GoToType, GoesOn DEF Inv
<1>5. /\ RegsForSlot(Word0, Top.g, Top.at) = Top.g /\ Target(Word0, Top.g, Top.at) = next
      /\ SlotRuns(Word0, Top.g) <=> pred
  BY <1>2 DEF RegsForSlot, Target, SlotRuns, Cond
<1> HIDE DEF pred, next, f
<1> QED
  BY <1>1, <1>2, <1>4, <1>5, ControlRefines DEF Inv

\* All others run their slot.
LEMMA SlotAlwaysRuns ==
    ASSUME Inv, NEW K, Controls(K), K \subseteq ControlKinds \ {"branch", "likely", "bal"}
    PROVE  /\ SlotRuns(Word0, Top.g)
           /\ Slotted(Top.g) \in Files /\ Slotted(Linked(Top.g, Top.at)) \in Files
           /\ K \cap {"call", "jalr"} = {} => RegsForSlot(Word0, Top.g, Top.at) = Top.g
BY ControlType, SlotType DEF Inv, SlotRuns, RegsForSlot

LEMMA JumpRefines ==
    ASSUME Inv, JitJump
    PROVE  Core!Next /\ early' = NoEarly
<1> DEFINE f == GoTo(Top, Word0.t, Slotted(Top.g))
<1>1. /\ Controls({"jump"}) /\ stack' = Append(Below, f) /\ ram' = SlotRam(TRUE, Top.g)
      /\ prog' = prog /\ mode' = mode /\ early' = early
  BY DEF JitJump
<1>2. /\ early = NoEarly /\ Top.g \in Files /\ Word0.t \in Addr /\ Word0.k = "jump"
      /\ mode = "jit" /\ Top \in Frame
  BY <1>1, ControlSeesGuest, ControlType DEF Inv
<1>3. /\ SlotRuns(Word0, Top.g) /\ Slotted(Top.g) \in Files
      /\ RegsForSlot(Word0, Top.g, Top.at) = Top.g
  BY <1>1, SlotAlwaysRuns DEF ControlKinds
<1>4. GuestPc' = Word0.t /\ GuestRegs' = Slotted(Top.g)
  BY <1>1, <1>2, <1>3, GoToType, GoesOn DEF Inv
<1>5. Target(Word0, Top.g, Top.at) = Word0.t /\ GuestRegs' = SlotRegs(TRUE, Top.g)
  BY <1>2, <1>4 DEF Target, Slotted
<1> QED
  BY <1>1, <1>2, <1>3, <1>4, <1>5, ControlRefines DEF Inv

LEMMA CallRefines ==
    ASSUME Inv, JitCall
    PROVE  Core!Next /\ early' = NoEarly
<1> DEFINE l == Linked(Top.g, Top.at)
           g == Slotted(l)
           waiting == GoTo(Top, ReturnsTo, g)
<1>1. /\ Controls({"call", "jalr"}) /\ gpr' = g /\ ram' = SlotRam(TRUE, l)
      /\ prog' = prog /\ early' = early
      /\ \/ stack' = Append(Append(Below, waiting), Entering(Callee, g)) /\ mode' = mode
         \/ mode' = "interp" /\ pc' = Callee
  BY DEF JitCall, Spilled
<1>2. /\ early = NoEarly /\ l \in Files /\ Word0.k \in {"call", "jalr"}
      /\ mode = "jit" /\ stack # << >> /\ Top \in Frame /\ After(Top.at) \in Addr
      /\ Word0.t \in Addr /\ Top.g[Word0.s] \in Addr
  BY <1>1, ControlSeesGuest, ControlType DEF Inv
<1>3. SlotRuns(Word0, Top.g) /\ g \in Files
  BY <1>1, SlotAlwaysRuns DEF ControlKinds
<1>4. Callee \in Addr /\ Target(Word0, Top.g, Top.at) = Callee
      /\ RegsForSlot(Word0, Top.g, Top.at) = l
  BY <1>2 DEF Callee, Target, RegsForSlot
<1>5. GuestPc' = Callee /\ GuestRegs' = g
  <2>1. CASE stack' = Append(Append(Below, waiting), Entering(Callee, g)) /\ mode' = mode
    <3>1. waiting \in Frame
      BY <1>2, <1>3, GoToType DEF ReturnsTo
    <3>2. /\ Entering(Callee, g) \in Frame
          /\ Entering(Callee, g).at = Callee /\ Entering(Callee, g).g = g
      BY <1>3, <1>4 DEF Entering, Frame
    <3> HIDE DEF waiting, g
    <3>3. Top' = Entering(Callee, g)
      BY <1>2, <2>1, <3>1, <3>2, Entered DEF Inv
    <3> QED
      BY <1>1, <1>2, <2>1, <3>2, <3>3 DEF GuestPc, GuestRegs, InJit
  <2>2. CASE mode' = "interp" /\ pc' = Callee
    BY <1>1, <1>2, <2>2 DEF GuestPc, GuestRegs, InJit
  <2> QED
    BY <1>1, <2>1, <2>2
<1>6. GuestRegs' = SlotRegs(TRUE, l)
  BY <1>5 DEF Slotted
<1> HIDE DEF l, g, waiting
<1> QED
  BY <1>1, <1>2, <1>3, <1>4, <1>5, <1>6, ControlRefines DEF Inv

\* ReturnsFollowGuest says that the caller goes on where the guest returns to.
LEMMA ReturnRefines ==
    ASSUME Inv, ReturnsFollowGuest, JitReturn
    PROVE  Core!Next /\ early' = NoEarly
<1> DEFINE g == Slotted(Top.g)
<1>1. /\ Controls({"jr"}) /\ Word0.s = Ra /\ Leave(0, g) /\ ram' = SlotRam(TRUE, Top.g)
      /\ early' = early
  BY DEF JitReturn
<1>2. /\ early = NoEarly /\ Top.g \in Files /\ Word0.k = "jr" /\ mode = "jit" /\ stack # << >>
  BY <1>1, ControlSeesGuest, ControlType DEF Inv
<1>3. SlotRuns(Word0, Top.g) /\ g \in Files /\ RegsForSlot(Word0, Top.g, Top.at) = Top.g
  BY <1>1, SlotAlwaysRuns DEF ControlKinds
<1>4. Target(Word0, Top.g, Top.at) = Top.g[Ra]
  BY <1>1, <1>2 DEF Target
<1>5. Len(stack) \in Nat /\ Len(stack) >= 1
  BY <1>2, TopType DEF Inv
<1>6. Top.g[Ra] = IF Len(stack) > 1 THEN stack[Len(stack) - 1].at ELSE g[Ra]
  BY <1>1 DEF ReturnsFollowGuest
<1>7. prog' = prog /\ GuestRegs' = SlotRegs(TRUE, Top.g)
      /\ (Len(stack) = 1 => GuestPc' = g[Ra])
      /\ (Len(stack) # 1 => GuestPc' = stack[Len(stack) - 1].at)
  <2> HIDE DEF g
  <2>1. 0 \in Addr
    BY DEF Addr
  <2>2. /\ prog' = prog /\ GuestRegs' = g
        /\ (Len(stack) = 1 => GuestPc' = g[Ra])
        /\ (Len(stack) # 1 => GuestPc' = stack[Len(stack) - 1].at)
    BY <1>1, <1>2, <1>3, <2>1, LeaveType, LeaveView DEF Inv
  <2> QED
    BY <2>2 DEF g, Slotted
<1> HIDE DEF g
<1>8. GuestPc' = Target(Word0, Top.g, Top.at)
  <2>1. CASE Len(stack) = 1
    BY <1>4, <1>6, <1>7, <2>1
  <2>2. CASE Len(stack) # 1
    <3>1. Len(stack) > 1
      BY <1>5, <2>2, AboveOne
    <3> QED
      BY <1>4, <1>6, <1>7, <2>2, <3>1
  <2> QED
    BY <2>1, <2>2
<1> QED
  BY <1>1, <1>2, <1>3, <1>7, <1>8, ControlRefines DEF Inv

LEMMA SwitchRefines ==
    ASSUME Inv, ReturnsFollowGuest, JitSwitch
    PROVE  Core!Next /\ early' = NoEarly
<1> DEFINE g == Slotted(Top.g)
           t == Top.g[Word0.s]
<1>1. Controls({"jr"}) /\ Word0.s # Ra /\ ram' = SlotRam(TRUE, Top.g) /\ early' = early
  BY DEF JitSwitch
<1>2. /\ early = NoEarly /\ Top.g \in Files /\ Word0.k = "jr" /\ mode = "jit" /\ stack # << >>
      /\ Top \in Frame /\ t \in Addr
  BY <1>1, ControlSeesGuest, ControlType DEF Inv
<1>3. SlotRuns(Word0, Top.g) /\ g \in Files /\ RegsForSlot(Word0, Top.g, Top.at) = Top.g
  BY <1>1, SlotAlwaysRuns DEF ControlKinds
<1>4. Target(Word0, Top.g, Top.at) = t
  BY <1>1, <1>2 DEF Target
<1>5. t # 0
  BY <1>1 DEF ReturnsFollowGuest
<1>6. prog' = prog /\ GuestPc' = t /\ GuestRegs' = g
  <2>1. CASE t \in ToSet(Succs(prog, Top.at))
    <3>1. stack' = Append(Below, GoTo(Top, t, g)) /\ UNCHANGED << prog, code, mode, pc, gpr >>
      BY <2>1 DEF JitSwitch
    <3>2. GoTo(Top, t, g) \in Frame /\ GoTo(Top, t, g).at = t /\ GoTo(Top, t, g).g = g
      BY <1>2, <1>3, GoToType
    <3> HIDE DEF g, t
    <3> QED
      BY <1>1, <1>2, <3>1, <3>2, GoesOn DEF Inv
  <2>2. CASE t \notin ToSet(Succs(prog, Top.at))
    <3>1. Leave(t, g)
      BY <2>2 DEF JitSwitch
    <3> HIDE DEF g, t
    <3> QED
      BY <1>1, <1>2, <1>3, <1>5, <3>1, LeaveType, LeaveView DEF Inv
  <2> QED
    BY <2>1, <2>2
<1>7. GuestRegs' = SlotRegs(TRUE, Top.g)
  BY <1>6 DEF Slotted
<1> QED
  BY <1>1, <1>2, <1>3, <1>4, <1>6, <1>7, ControlRefines DEF Inv

-----------------------------------------------------------------------------
(* Every step. *)

LEMMA InvStep ==
    ASSUME Inv, JalrReadsNoLink, ReturnsFollowGuest, [Next]_vars
    PROVE  Inv' /\ [Core!Next]_(Core!vars)
<1>1. TypeOK'
  BY TypeStep DEF Inv
<1>2. prog' \in Programs
  BY <1>1 DEF Inv, Next, vars, Done, HostStep, HostRun, InterpStep, InterpDone, Interprets,
              Interpreter!Next, Interpreter!StepPlain, Interpreter!StepControl, JitOut, JitRunOn,
              JitPlain, JitBail, Leave, JitBranch, JitJump, JitCall, JitReturn, JitSwitch
<1>3. EarlyInv' /\ [Core!Next]_(Core!vars)
  <2>1. ASSUME early' = NoEarly PROVE EarlyInv'
    BY <2>1 DEF EarlyInv
  <2>2. CASE HostStep \/ InterpStep
    <3>1. Interprets /\ mode # "jit" /\ mode' # "jit"
      BY <2>2 DEF HostStep, InterpStep
    <3>2. early' = NoEarly
      BY <3>1 DEF Interprets
    <3> QED
      BY <2>1, <3>1, <3>2, InterpretsRefines
  <2>3. CASE HostRun \/ InterpDone
    BY <2>3, HandOverStutters
  <2>4. CASE JitOut
    BY <2>4, OutStutters
  <2>5. CASE JitRunOn
    BY <2>5, RunOnStutters
  <2>6. CASE JitBail
    BY <2>6, BailStutters
  <2>7. CASE JitPlain
    BY <2>1, <2>7, PlainRefines
  <2>8. CASE JitBranch
    BY <2>1, <2>8, BranchRefines
  <2>9. CASE JitJump
    BY <2>1, <2>9, JumpRefines
  <2>10. CASE JitCall
    BY <2>1, <2>10, CallRefines
  <2>11. CASE JitReturn
    BY <2>1, <2>11, ReturnRefines
  <2>12. CASE JitSwitch
    BY <2>1, <2>12, SwitchRefines
  <2>13. CASE UNCHANGED vars
    <3>1. prog' = prog /\ mode' = mode /\ stack' = stack /\ pc' = pc /\ gpr' = gpr /\ ram' = ram
          /\ early' = early
      BY <2>13 DEF vars
    <3>2. Top' = Top
      BY <3>1 DEF Top
    <3>3. GuestPc' = GuestPc /\ GuestRegs' = GuestRegs
      BY <3>1, <3>2 DEF GuestPc, GuestRegs, InJit
    <3>4. EarlyInv'
      BY <3>1, <3>3 DEF Inv, EarlyInv, Readable, Control, EmittedControl
    <3> QED
      BY <3>1, <3>3, <3>4, Stutters
  <2> QED
    BY <2>2, <2>3, <2>4, <2>5, <2>6, <2>7, <2>8, <2>9, <2>10, <2>11, <2>12, <2>13 DEF Next, Done
<1> QED
  BY <1>1, <1>2, <1>3 DEF Inv

LEMMA InitRefines == Init => Inv /\ Core!Init
<1> SUFFICES ASSUME Init PROVE Inv /\ Core!Init
  OBVIOUS
<1>1. Inv
  BY TypeInit DEF Inv, Init, EarlyInv
<1>2. PICK m \in StartRams :
         ram = [a \in RamAddr \cup {Bucket} |-> IF a = Bucket THEN 0 ELSE m[a]]
  BY DEF Init
<1>3. m \in [RamAddr -> Val] /\ Bucket \notin RamAddr
  BY StartAssumption, SizeAssumption DEF Bucket, RamAddr
<1>4. GuestRam = m
  BY <1>2, <1>3 DEF GuestRam
<1>5. GuestPc = pc /\ GuestRegs = gpr
  BY DEF Init, GuestPc, GuestRegs, InJit
<1> QED
  BY <1>1, <1>4, <1>5 DEF Init, Core!Init

\* Bails compose (DESIGN_R4300.md:241-245): host functions, their bails and the
\* interpreter that stands in for them do together what the interpreter does alone, in
\* every behaviour in which what a function returns is what the guest did.
THEOREM TranslatedCodeImplementsInterpreter ==
    ASSUME JalrReadsNoLink
    PROVE  Spec /\ []ReturnsFollowGuest => ImplementsCore
<1>1. Inv /\ ReturnsFollowGuest /\ [Next]_vars => Inv' /\ [Core!Next]_(Core!vars)
  BY InvStep, JalrReadsNoLink
<1> QED
  BY <1>1, InitRefines, PTL DEF Spec, ImplementsCore, Core!Spec

-----------------------------------------------------------------------------
(* Host functions and the guest's calls.  The host functions that wait are *)
(* the innermost calls of the guest that are open; while the interpreter   *)
(* stands in for a callee there may be more calls open above them.         *)

\* Calls b + 1 to b + m of c return to where the first m functions of s go on.
Waits(c, s, b, m) == b + m <= Len(c) /\ \A i \in 1 .. m : c[b + i] = s[i].at

\* All but the last of s wait, for the innermost calls of c.
JitLinks(c, s) == \E b \in Nat : b + (Len(s) - 1) = Len(c) /\ Waits(c, s, b, Len(s) - 1)

\* All of s wait for calls of c, or the last of them is where p has just returned to.
InterpLinks(c, s, p) ==
    \E b \in Nat :
        \/ Waits(c, s, b, Len(s))
        \/ p = s[Len(s)].at /\ b + (Len(s) - 1) = Len(c) /\ Waits(c, s, b, Len(s) - 1)

LinksInv ==
    /\ calls \in Seq(Addr)
    /\ mode = "jit" => JitLinks(calls, stack)
    /\ mode = "interp" => InterpLinks(calls, stack, pc)

Returnees(s, t, n) == \A i \in 1 .. n : t[i].at = s[i].at

LEMMA LinksGoOn ==
    ASSUME NEW c \in Seq(Addr), NEW s, NEW t, JitLinks(c, s), Len(s) \in Nat, Len(t) = Len(s),
           Returnees(s, t, Len(s) - 1)
    PROVE  JitLinks(c, t)
<1>1. PICK b \in Nat : b + (Len(s) - 1) = Len(c) /\ Waits(c, s, b, Len(s) - 1)
  BY DEF JitLinks
<1>2. Waits(c, t, b, Len(t) - 1)
  BY <1>1 DEF Waits, Returnees
<1> QED
  BY <1>1, <1>2 DEF JitLinks

\* The function on top is left to the interpreter.
LEMMA LinksBail ==
    ASSUME NEW c \in Seq(Addr), NEW s, NEW t, JitLinks(c, s), Len(s) \in Nat, Len(t) = Len(s) - 1,
           Returnees(s, t, Len(s) - 1), NEW p
    PROVE  InterpLinks(c, t, p)
<1>1. PICK b \in Nat : b + (Len(s) - 1) = Len(c) /\ Waits(c, s, b, Len(s) - 1)
  BY DEF JitLinks
<1>2. Waits(c, t, b, Len(t))
  BY <1>1 DEF Waits, Returnees
<1> QED
  BY <1>1, <1>2 DEF InterpLinks

LEMMA FrontType ==
    ASSUME NEW c \in Seq(Addr), c # << >>
    PROVE  /\ Front(c) \in Seq(Addr) /\ Len(c) \in Nat \ {0} /\ Len(Front(c)) = Len(c) - 1
           /\ \A i \in 1 .. Len(c) - 1 : Front(c)[i] = c[i]
           /\ Last(c) = c[Len(c)]
<1> DEFINE n == Len(c) - 1
<1>1. Len(c) \in Nat \ {0} /\ n \in Nat /\ \A i \in 1 .. n : c[i] \in Addr
  BY EmptySeq
<1>2. /\ SubSeq(c, 1, n) \in Seq(Addr)
      /\ Len(SubSeq(c, 1, n)) = IF 1 <= n THEN n - 1 + 1 ELSE 0
      /\ \A i \in 1 .. n : SubSeq(c, 1, n)[i] = c[i]
  <2> HIDE DEF n
  <2>1. \A i \in 1 .. n - 1 + 1 : SubSeq(c, 1, n)[i] = c[1 + i - 1]
    BY <1>1, SubSeqProperties
  <2> QED
    BY <1>1, <2>1, SubSeqProperties
<1> HIDE DEF n
<1>3. Len(SubSeq(c, 1, n)) = n
  BY ONLY <1>1, <1>2
<1> USE DEF n
<1> QED
  BY <1>1, <1>2, <1>3 DEF Front, Last

\* The innermost call returns to where the next function goes on.
LEMMA LinksReturn ==
    ASSUME NEW c \in Seq(Addr), NEW s, JitLinks(c, s), Len(s) \in Nat, Len(s) > 1
    PROVE  /\ c # << >> /\ Last(c) = s[Len(s) - 1].at
           /\ \A t : Len(t) = Len(s) - 1 /\ Returnees(s, t, Len(s) - 2) => JitLinks(Front(c), t)
<1>1. PICK b \in Nat : b + (Len(s) - 1) = Len(c) /\ Waits(c, s, b, Len(s) - 1)
  BY DEF JitLinks
<1>2. Len(c) > 0 /\ c # << >>
  BY <1>1
<1>3. /\ Len(c) \in Nat \ {0} /\ Len(Front(c)) = Len(c) - 1
      /\ \A i \in 1 .. Len(c) - 1 : Front(c)[i] = c[i]
      /\ Last(c) = c[Len(c)]
  BY <1>2, FrontType
<1>4. Last(c) = s[Len(s) - 1].at
  <2> DEFINE m == Len(s) - 1
  <2>1. m \in Nat \ {0} /\ b + m = Len(c) /\ \A i \in 1 .. m : c[b + i] = s[i].at
    <3>1. m \in Nat \ {0}
      <4> DEFINE k == Len(s)
      <4>1. k \in Nat /\ k > 1
        OBVIOUS
      <4> HIDE DEF k
      <4>2. k - 1 \in Nat \ {0}
        BY ONLY <4>1
      <4> QED
        BY ONLY <4>2 DEF k, m
    <3>2. b + m = Len(c) /\ Waits(c, s, b, m)
      BY <1>1
    <3> QED
      BY ONLY <3>1, <3>2 DEF Waits
  <2> HIDE DEF m
  <2>2. m \in 1 .. m
    BY <2>1
  <2>3. Last(c) = s[m].at
    BY ONLY <1>3, <2>1, <2>2
  <2> QED
    BY <2>3 DEF m
<1>5. ASSUME NEW t, Len(t) = Len(s) - 1, Returnees(s, t, Len(s) - 2)
      PROVE  JitLinks(Front(c), t)
  <2>1. b + (Len(t) - 1) = Len(Front(c))
    BY <1>1, <1>3, <1>5
  <2>2. \A i \in 1 .. Len(t) - 1 : Front(c)[b + i] = c[b + i]
    BY <1>1, <1>3, <1>5
  <2>3. Waits(Front(c), t, b, Len(t) - 1)
    BY <1>1, <1>5, <2>1, <2>2 DEF Waits, Returnees
  <2> QED
    BY <2>1, <2>3 DEF JitLinks
<1> QED
  BY <1>2, <1>4, <1>5

LEMMA AppendType ==
    ASSUME NEW c \in Seq(Addr), NEW a \in Addr
    PROVE  /\ Append(c, a) \in Seq(Addr) /\ Len(c) \in Nat /\ Len(Append(c, a)) = Len(c) + 1
           /\ \A i \in 1 .. Len(c) : Append(c, a)[i] = c[i]
           /\ Append(c, a)[Len(c) + 1] = a
OBVIOUS

\* The function on top waits for a call that is to return to a.
LEMMA LinksCall ==
    ASSUME NEW c \in Seq(Addr), NEW s, JitLinks(c, s), Len(s) \in Nat \ {0}, NEW a \in Addr,
           NEW t, Returnees(s, t, Len(s) - 1), t[Len(s)].at = a
    PROVE  /\ Len(t) = Len(s) + 1 => JitLinks(Append(c, a), t)
           /\ Len(t) = Len(s) => \A p : InterpLinks(Append(c, a), t, p)
<1>1. PICK b \in Nat : b + (Len(s) - 1) = Len(c) /\ Waits(c, s, b, Len(s) - 1)
  BY DEF JitLinks
<1>2. Waits(Append(c, a), t, b, Len(s))
  <2>1. b + Len(s) = Len(Append(c, a))
    BY <1>1, AppendType
  <2>2. ASSUME NEW i \in 1 .. Len(s) PROVE Append(c, a)[b + i] = t[i].at
    <3>1. CASE i = Len(s)
      BY <1>1, <3>1, AppendType
    <3>2. CASE i # Len(s)
      <4>1. i \in 1 .. Len(s) - 1 /\ b + i \in 1 .. Len(c)
        BY <1>1, <3>2
      <4>2. Append(c, a)[b + i] = c[b + i] /\ c[b + i] = s[i].at
        BY <1>1, <4>1, AppendType DEF Waits
      <4> QED
        BY <4>1, <4>2 DEF Returnees
    <3> QED
      BY <3>1, <3>2
  <2>3. b + Len(s) <= Len(Append(c, a))
    BY ONLY <2>1, AppendType, b \in Nat, Len(s) \in Nat \ {0}, c \in Seq(Addr), a \in Addr
  <2> QED
    BY ONLY <2>2, <2>3 DEF Waits
<1>3. b + Len(s) = Len(Append(c, a))
  BY <1>1, AppendType
<1>4. ASSUME Len(t) = Len(s) + 1 PROVE JitLinks(Append(c, a), t)
  <2>1. Len(t) - 1 = Len(s)
    BY <1>4
  <2> QED
    BY <1>2, <1>3, <2>1 DEF JitLinks
<1>5. ASSUME Len(t) = Len(s), NEW p PROVE InterpLinks(Append(c, a), t, p)
  BY <1>2, <1>5 DEF InterpLinks
<1> QED
  BY <1>4, <1>5

\* The guest calls while it is interpreted.
LEMMA LinksInterpCall ==
    ASSUME NEW c \in Seq(Addr), NEW s, NEW b \in Nat, Len(s) \in Nat, Waits(c, s, b, Len(s)),
           NEW a \in Addr
    PROVE  Waits(Append(c, a), s, b, Len(s))
<1>1. \A i \in 1 .. Len(s) : Append(c, a)[b + i] = c[b + i]
  BY AppendType DEF Waits
<1> QED
  BY <1>1, AppendType DEF Waits

\* It returns: from a call that it has made since, or from the one waited for.
LEMMA LinksInterpReturn ==
    ASSUME NEW c \in Seq(Addr), NEW s, NEW b \in Nat, Len(s) \in Nat \ {0},
           Waits(c, s, b, Len(s)), c # << >>
    PROVE  InterpLinks(Front(c), s, Last(c))
<1>1. /\ Len(c) \in Nat \ {0} /\ Len(Front(c)) = Len(c) - 1
      /\ \A i \in 1 .. Len(c) - 1 : Front(c)[i] = c[i]
      /\ Last(c) = c[Len(c)]
  BY FrontType
<1>2. CASE b + Len(s) = Len(c)
  <2>1. Last(c) = s[Len(s)].at
    <3>1. Len(s) \in 1 .. Len(s)
      OBVIOUS
    <3>2. c[b + Len(s)] = s[Len(s)].at
      BY <3>1 DEF Waits
    <3> QED
      BY ONLY <1>1, <1>2, <3>2
  <2>2. b + (Len(s) - 1) = Len(Front(c))
    <3> DEFINE n == Len(s)
               d == Len(c)
               e == Len(Front(c))
    <3>1. n \in Nat /\ d \in Nat /\ e = d - 1 /\ b + n = d
      BY <1>1, <1>2
    <3> HIDE DEF n, d, e
    <3>2. b + (n - 1) = e
      BY ONLY <3>1, b \in Nat
    <3> QED
      BY <3>2 DEF n, d, e
  <2>3. Waits(Front(c), s, b, Len(s) - 1)
    <3>1. ASSUME NEW i \in 1 .. Len(s) - 1
          PROVE  i \in 1 .. Len(s) /\ b + i \in 1 .. Len(c) - 1
      BY <1>1, <1>2
    <3>2. \A i \in 1 .. Len(s) - 1 : Front(c)[b + i] = c[b + i] /\ c[b + i] = s[i].at
      BY ONLY <1>1, <3>1, Waits(c, s, b, Len(s)) DEF Waits
    <3>3. b + (Len(s) - 1) <= Len(Front(c))
      BY ONLY <1>1, <2>2
    <3> QED
      BY ONLY <3>2, <3>3 DEF Waits
  <2> QED
    BY <2>1, <2>2, <2>3 DEF InterpLinks
<1>3. CASE b + Len(s) # Len(c)
  <2>1. Waits(Front(c), s, b, Len(s))
    BY <1>1, <1>3 DEF Waits
  <2> QED
    BY <2>1 DEF InterpLinks
<1> QED
  BY <1>2, <1>3

\* The interpreter stops where the last function waits: its call is no longer open.
LEMMA LinksDone ==
    ASSUME NEW c \in Seq(Addr), NEW s, NEW p, InterpLinks(c, s, p), Len(s) \in Nat \ {0},
           p = s[Len(s)].at, p \notin ToSet(c),
           NEW t, Len(t) = Len(s), Returnees(s, t, Len(s) - 1)
    PROVE  JitLinks(c, t)
<1>1. PICK b \in Nat :
         \/ Waits(c, s, b, Len(s))
         \/ p = s[Len(s)].at /\ b + (Len(s) - 1) = Len(c) /\ Waits(c, s, b, Len(s) - 1)
  BY DEF InterpLinks
<1>2. ASSUME Waits(c, s, b, Len(s)) PROVE FALSE
  <2>1. b + Len(s) \in 1 .. Len(c) /\ c[b + Len(s)] = p
    BY <1>2 DEF Waits
  <2>2. p \in ToSet(c)
    BY <2>1 DEF ToSet
  <2> QED
    BY <2>2
<1>3. b + (Len(t) - 1) = Len(c) /\ Waits(c, t, b, Len(t) - 1)
  BY <1>1, <1>2 DEF Waits, Returnees
<1> QED
  BY <1>3 DEF JitLinks

LEMMA LinksEnter ==
    ASSUME NEW c \in Seq(Addr), NEW s, Len(s) = 1
    PROVE  JitLinks(c, s)
<1>1. Len(c) \in Nat /\ Len(c) + (Len(s) - 1) = Len(c) /\ Waits(c, s, Len(c), Len(s) - 1)
  BY DEF Waits
<1> QED
  BY <1>1 DEF JitLinks

\* The history looks at the word that translated code runs.
LEMMA ControlIsGuests ==
    ASSUME Inv, NEW K, Controls(K)
    PROVE  /\ GuestPc = Top.at /\ GuestRegs = Top.g
           /\ GuestWord = Word0 /\ Word0.k \in K
           /\ \A L : AtControl(L) <=> Word0.k \in L
<1>1. GuestPc = Top.at /\ GuestRegs = Top.g
  BY ControlSeesGuest DEF Inv
<1>2. /\ Readable(prog, Top.at) /\ Word0.k \in ControlKinds /\ Word0.k \in K
      /\ Readable(prog, Top.at + 1) /\ Emitted(Slot) /\ Top.at \in Addr /\ Top.g \in Files
  BY ControlType DEF Inv
<1>3. Falls(Slot)
  BY <1>2, SlotType DEF Inv
<1>4. HasSlot(prog, Top.at)
  BY <1>2, <1>3 DEF HasSlot, Word0, Slot
<1> QED
  BY <1>1, <1>2, <1>4 DEF AtControl, GuestWord, Word0

\* A slot that does not write $31 leaves it to the host to read.
LEMMA SlotLeavesLink ==
    ASSUME Inv, NEW K, Controls(K), SlotKeepsLink
    PROVE  Slotted(Top.g)[Ra] = Top.g[Ra]
<1>1. GuestPc = Top.at
  BY ControlIsGuests
<1>2. Readable(prog, Top.at + 1) /\ Emitted(Slot) /\ Top.at \in Addr /\ Top.g \in Files
  BY ControlType DEF Inv
<1>3. Slotted(Top.g) = RegsAfter(Slot, Top.g, GuestRam)
  BY <1>2, SlotType DEF Inv
<1>4. Slot.k = "sw" \/ Slot.d # Ra
  BY <1>1 DEF SlotKeepsLink, Slot
<1>5. Top.g \in [Regs -> Val] /\ Ra \in Regs
  BY <1>2, RegsAssumption DEF Files
<1> QED
  BY <1>3, <1>4, <1>5 DEF RegsAfter, SetReg

\* The convention gives what host functions rely on when they return.
LEMMA ConventionGivesReturns ==
    ASSUME Inv, LinksInv, Convention
    PROVE  ReturnsFollowGuest
<1>1. ASSUME Controls({"jr"}), Word0.s = Ra
      PROVE  Top.g[Ra] = IF Len(stack) > 1 THEN stack[Len(stack) - 1].at ELSE Slotted(Top.g)[Ra]
  <2>1. Returning /\ GuestRegs = Top.g
    BY <1>1, ControlIsGuests DEF Returning
  <2>2. SlotKeepsLink /\ (calls # << >> => Top.g[Ra] = Last(calls))
    BY <2>1 DEF Convention
  <2>3. mode = "jit" /\ stack # << >>
    BY <1>1, ControlType DEF Inv
  <2>4. CASE Len(stack) > 1
    <3>1. Len(stack) \in Nat
      BY <2>3, TopType DEF Inv
    <3>2. JitLinks(calls, stack) /\ calls \in Seq(Addr)
      BY <2>3 DEF LinksInv
    <3>3. calls # << >> /\ Last(calls) = stack[Len(stack) - 1].at
      BY ONLY <2>4, <3>1, <3>2, LinksReturn
    <3> QED
      BY <2>2, <2>4, <3>3
  <2>5. CASE ~(Len(stack) > 1)
    BY <1>1, <2>2, <2>5, SlotLeavesLink
  <2> QED
    BY <2>4, <2>5
<1>2. ASSUME Controls({"jr"}), Word0.s # Ra PROVE Top.g[Word0.s] # 0
  <2>1. AtControl({"jr"}) /\ GuestRegs = Top.g /\ GuestWord = Word0
    BY <1>2, ControlIsGuests
  <2> QED
    BY <2>1 DEF Convention
<1>3. InJit => Top.at # 0
  BY DEF Convention, GuestPc
<1> QED
  BY <1>1, <1>2, <1>3 DEF ReturnsFollowGuest

LEMMA CallsType ==
    ASSUME Inv, LinksInv
    PROVE  CallsAfter \in Seq(Addr)
<1>1. calls \in Seq(Addr)
  BY DEF LinksInv
<1>2. CASE Calling
  <2>1. GuestPc \in Addr
    BY <1>2, WordType DEF Calling, AtControl, HasSlot, Inv, TypeOK
  <2>2. After(GuestPc) \in Addr
    BY <2>1 DEF Addr, After
  <2> QED
    BY <1>1, <1>2, <2>2, AppendType DEF CallsAfter
<1>3. CASE ~Calling
  BY <1>1, <1>3, FrontType DEF CallsAfter
<1> QED
  BY <1>2, <1>3

LEMMA AppendAny ==
    ASSUME NEW S, NEW c \in Seq(S), NEW f
    PROVE  /\ Len(Append(c, f)) = Len(c) + 1 /\ Append(c, f)[Len(c) + 1] = f
           /\ \A i \in 1 .. Len(c) : Append(c, f)[i] = c[i]
<1>1. c \in Seq(S \cup {f}) /\ f \in S \cup {f}
  OBVIOUS
<1> QED
  BY <1>1

\* Every step but a call, a return and a way out: the function on top goes on.
LEMMA LinksAfterGoOn ==
    ASSUME TypeOK, LinksInv, mode = "jit", mode' = "jit", NEW f, stack' = Append(Below, f),
           calls' = calls
    PROVE  LinksInv'
<1>1. stack # << >>
  BY DEF TypeOK
<1>2. /\ Len(stack) \in Nat /\ Below \in Seq(Frame) /\ Len(Below) = Len(stack) - 1
      /\ \A i \in 1 .. Len(stack) - 1 : Below[i] = stack[i]
  BY <1>1, TopType
<1>3. Len(stack') = Len(Below) + 1 /\ \A i \in 1 .. Len(Below) : stack'[i] = Below[i]
  BY ONLY <1>2, stack' = Append(Below, f), AppendAny
<1>4. Len(stack') = Len(stack) /\ Returnees(stack, stack', Len(stack) - 1)
  BY <1>2, <1>3 DEF Returnees
<1>5. calls \in Seq(Addr) /\ JitLinks(calls, stack)
  BY DEF LinksInv
<1>6. JitLinks(calls, stack')
  BY ONLY <1>2, <1>4, <1>5, LinksGoOn
<1> QED
  BY <1>5, <1>6 DEF LinksInv

\* What is left of the stack when a function is left.
LEMMA LeaveStack ==
    ASSUME TypeOK, mode = "jit", NEW r, NEW g, Leave(r, g)
    PROVE  /\ Len(stack) \in Nat /\ Len(stack) >= 1
           /\ Len(stack) = 1 => mode' \notin {"jit", "interp"}
           /\ Len(stack) # 1 =>
                /\ Len(stack') = Len(stack) - 1
                /\ Returnees(stack, stack', Len(stack) - 1)
                /\ mode' = IF r = 0 THEN "jit" ELSE "interp"
<1> DEFINE n == Len(stack) - 1
<1>1. stack # << >>
  BY DEF TypeOK
<1>2. /\ Len(stack) \in Nat /\ Len(stack) >= 1 /\ Below \in Seq(Frame) /\ Len(Below) = n
      /\ \A i \in 1 .. n : Below[i] = stack[i] /\ stack[i] \in Frame
  BY <1>1, TopType
<1>3. CASE Len(stack) = 1
  BY <1>2, <1>3 DEF Leave, HostResumes
<1>4. CASE Len(stack) # 1
  <2>1. CASE r = 0
    <3>1. stack' = [Below EXCEPT ![n].g = g] /\ mode' = "jit"
      BY <1>4, <2>1 DEF Leave, CallerResumes
    <3>2. Len(stack') = n /\ \A i \in 1 .. n : stack'[i].at = Below[i].at
      <4>1. DOMAIN Below = 1 .. n
        BY <1>2
      <4>2. DOMAIN stack' = 1 .. n
        BY <3>1, <4>1
      <4>3. n \in Nat
        BY <1>2
      <4>4. Len(stack') = n
        <5> HIDE DEF n
        <5>1. stack' = [i \in 1 .. n |-> IF i = n THEN [Below[n] EXCEPT !.g = g] ELSE Below[i]]
          BY <3>1, <4>1
        <5> QED
          BY <4>3, <5>1
      <4>5. ASSUME NEW i \in 1 .. n PROVE stack'[i].at = Below[i].at
        <5>1. Below[i] \in Frame
          BY <1>2
        <5>2. stack'[i] = IF i = n THEN [Below[i] EXCEPT !.g = g] ELSE Below[i]
          BY <3>1, <4>1
        <5> QED
          BY ONLY <5>1, <5>2 DEF Frame
      <4> QED
        BY <4>4, <4>5
    <3> QED
      BY <1>2, <1>4, <2>1, <3>1, <3>2 DEF Returnees
  <2>2. CASE r # 0
    <3>1. stack' = Below /\ mode' = "interp"
      BY <1>4, <2>2 DEF Leave, CallerResumes
    <3> QED
      BY <1>2, <1>4, <2>2, <3>1 DEF Returnees
  <2> QED
    BY <2>1, <2>2
<1> QED
  BY <1>2, <1>3, <1>4

\* A bail, or a way out to where the graph has no block.
LEMMA LinksAfterBail ==
    ASSUME TypeOK, LinksInv, mode = "jit", NEW r, NEW g, Leave(r, g), r # 0, calls' = calls
    PROVE  LinksInv'
<1>1. calls \in Seq(Addr) /\ JitLinks(calls, stack) /\ Len(stack) \in Nat
  BY LeaveStack DEF LinksInv
<1>2. CASE Len(stack) = 1
  BY <1>1, <1>2, LeaveStack DEF LinksInv
<1>3. CASE Len(stack) # 1
  <2>1. /\ Len(stack') = Len(stack) - 1 /\ Returnees(stack, stack', Len(stack) - 1)
        /\ mode' = "interp"
    BY <1>3, LeaveStack
  <2>2. InterpLinks(calls, stack', pc')
    BY ONLY <1>1, <2>1, LinksBail
  <2> QED
    BY <1>1, <2>1, <2>2 DEF LinksInv
<1> QED
  BY <1>2, <1>3

\* A return from a function that another one waits for.
LEMMA LinksAfterReturn ==
    ASSUME Inv, LinksInv, JitReturn, calls' = CallsAfter
    PROVE  LinksInv'
<1>1. Controls({"jr"}) /\ Word0.s = Ra /\ Leave(0, Slotted(Top.g))
  BY DEF JitReturn
<1>2. mode = "jit" /\ TypeOK /\ CallsAfter \in Seq(Addr)
  BY <1>1, ControlType, CallsType DEF Inv
<1>3. Returning /\ ~Calling
  BY <1>1, ControlIsGuests DEF Returning, Calling
<1>4. calls \in Seq(Addr) /\ JitLinks(calls, stack) /\ Len(stack) \in Nat /\ Len(stack) >= 1
  BY <1>1, <1>2, LeaveStack DEF LinksInv
<1>5. CASE Len(stack) = 1
  BY <1>1, <1>2, <1>5, LeaveStack DEF LinksInv
<1>6. CASE Len(stack) # 1
  <2>1. Len(stack) > 1
    BY ONLY <1>4, <1>6, AboveOne
  <2>2. /\ Len(stack') = Len(stack) - 1 /\ Returnees(stack, stack', Len(stack) - 1)
        /\ mode' = "jit"
    BY <1>1, <1>2, <1>6, LeaveStack
  <2>3. Returnees(stack, stack', Len(stack) - 2)
    BY <1>4, <2>2 DEF Returnees
  <2>4. calls # << >> /\ JitLinks(Front(calls), stack')
    BY ONLY <1>4, <2>1, <2>2, <2>3, LinksReturn
  <2>5. calls' = Front(calls)
    BY <1>3, <2>4 DEF CallsAfter
  <2> QED
    BY <1>2, <2>2, <2>4, <2>5 DEF LinksInv
<1> QED
  BY <1>5, <1>6

\* A call of a function that is entered, or that the interpreter stands in for.
LEMMA LinksAfterCall ==
    ASSUME Inv, LinksInv, JitCall, calls' = CallsAfter
    PROVE  LinksInv'
<1> DEFINE g == Slotted(Linked(Top.g, Top.at))
           waiting == GoTo(Top, ReturnsTo, g)
           n == Len(stack)
<1>1. Controls({"call", "jalr"})
  BY DEF JitCall
<1>2. /\ mode = "jit" /\ stack # << >> /\ Top \in Frame /\ After(Top.at) \in Addr
      /\ TypeOK /\ CallsAfter \in Seq(Addr)
  BY <1>1, ControlType, CallsType DEF Inv
<1>3. \/ stack' = Append(Append(Below, waiting), Entering(Callee, gpr')) /\ mode' = mode
      \/ stack' = Append(Below, waiting) /\ mode' = "interp"
  BY DEF JitCall
<1>4. calls' = Append(calls, After(Top.at))
  <2>1. Calling /\ GuestPc = Top.at
    BY <1>1, ControlIsGuests DEF Calling
  <2> QED
    BY <2>1 DEF CallsAfter
<1>5. waiting.at = After(Top.at)
  BY <1>2 DEF GoTo, ReturnsTo, Frame
<1>6. /\ n \in Nat \ {0} /\ Below \in Seq(Frame) /\ Len(Below) = n - 1
      /\ \A i \in 1 .. n - 1 : Below[i] = stack[i]
  BY <1>2, TopType
<1>7. calls \in Seq(Addr) /\ JitLinks(calls, stack)
  BY <1>2 DEF LinksInv
<1> DEFINE s == Append(Below, waiting)
<1> HIDE DEF g, waiting
<1>8. Len(s) = n /\ s[n] = waiting /\ \A i \in 1 .. n - 1 : s[i] = stack[i]
  <2>1. Len(s) = Len(Below) + 1 /\ s[Len(Below) + 1] = waiting /\ \A i \in 1 .. Len(Below) : s[i] = Below[i]
    BY ONLY <1>6, AppendAny
  <2> HIDE DEF s
  <2>2. Len(Below) + 1 = n
    BY <1>6
  <2> QED
    BY ONLY <1>6, <2>1, <2>2
<1>9. CASE stack' = Append(Append(Below, waiting), Entering(Callee, gpr')) /\ mode' = mode
  <2>1. s \in Seq(Frame \cup {waiting})
    BY <1>6
  <2>2. Len(stack') = n + 1 /\ \A i \in 1 .. n : stack'[i] = s[i]
    BY ONLY <1>8, <1>9, <2>1, AppendAny DEF s
  <2>3. Returnees(stack, stack', n - 1) /\ stack'[n].at = After(Top.at)
    BY <1>5, <1>6, <1>8, <2>2 DEF Returnees
  <2>4. JitLinks(Append(calls, After(Top.at)), stack')
    BY ONLY <1>2, <1>6, <1>7, <2>2, <2>3, LinksCall DEF n
  <2> QED
    BY <1>2, <1>4, <1>9, <2>4 DEF LinksInv
<1>10. CASE stack' = Append(Below, waiting) /\ mode' = "interp"
  <2>1. Len(stack') = n /\ Returnees(stack, stack', n - 1) /\ stack'[n].at = After(Top.at)
    BY <1>5, <1>8, <1>10 DEF Returnees
  <2>2. InterpLinks(Append(calls, After(Top.at)), stack', pc')
    BY ONLY <1>2, <1>6, <1>7, <2>1, LinksCall DEF n
  <2> QED
    BY <1>2, <1>4, <1>10, <2>2 DEF LinksInv
<1> QED
  BY <1>3, <1>9, <1>10

\* The guest moves while the interpreter stands in for a function.
LEMMA LinksAfterInterp ==
    ASSUME Inv, LinksInv, Convention, InterpStep, calls' = CallsAfter
    PROVE  LinksInv'
<1>1. /\ mode = "interp" /\ mode' = "interp" /\ stack' = stack /\ pc # Top.at /\ Interprets
      /\ stack # << >> /\ TypeOK
  BY DEF InterpStep, Inv, TypeOK
<1>2. Len(stack) \in Nat \ {0} /\ CallsAfter \in Seq(Addr) /\ calls \in Seq(Addr)
  BY <1>1, TopType, CallsType DEF LinksInv
<1>3. PICK b \in Nat : Waits(calls, stack, b, Len(stack))
  BY <1>1 DEF LinksInv, InterpLinks, Top
<1>4. GuestPc = pc
  BY <1>1 DEF GuestPc, InJit
<1>5. InterpLinks(calls', stack, pc')
  <2>1. CASE Calling
    <3>1. After(GuestPc) \in Addr
      BY <1>1, <1>4 DEF TypeOK, After, Addr
    <3>2. calls' = Append(calls, After(GuestPc))
      BY <2>1 DEF CallsAfter
    <3>3. Waits(calls', stack, b, Len(stack))
      BY ONLY <1>2, <1>3, <3>1, <3>2, LinksInterpCall
    <3> QED
      BY <3>3 DEF InterpLinks
  <2>2. CASE ~Calling /\ Returning /\ calls # << >>
    <3>1. calls' = Front(calls)
      BY <2>2 DEF CallsAfter
    <3>2. GuestRegs[Ra] = Last(calls)
      BY <2>2 DEF Convention
    <3>3. HasSlot(prog, pc) /\ prog.mem[pc].k = "jr" /\ prog.mem[pc].s = Ra
      BY <1>4, <2>2 DEF Returning, AtControl, GuestWord
    <3>4. early = NoEarly /\ GuestRegs = gpr
      BY <1>1, <1>4, <3>3 DEF Inv, EarlyInv, Links, GuestRegs, InJit
    <3>5. pc' = Target(prog.mem[pc], gpr, pc)
      BY <1>1, <3>3, InterpreterIsa
      DEF Interprets, Interpreter!Next, Interpreter!StepPlain, Interpreter!StepControl,
          HasSlot, Falls
    <3>6. pc' = Last(calls)
      BY <3>2, <3>3, <3>4, <3>5 DEF Target
    <3>7. InterpLinks(Front(calls), stack, Last(calls))
      BY ONLY <1>2, <1>3, <2>2, LinksInterpReturn
    <3> QED
      BY <3>1, <3>6, <3>7
  <2>3. CASE ~Calling /\ ~(Returning /\ calls # << >>)
    <3>1. calls' = calls
      BY <2>3 DEF CallsAfter
    <3> QED
      BY <1>3, <3>1 DEF InterpLinks
  <2> QED
    BY <2>1, <2>2, <2>3
<1> QED
  BY <1>1, <1>2, <1>5 DEF LinksInv

\* Translated code is entered, or goes on after r4300bt_call.
LEMMA LinksAfterHandOver ==
    ASSUME TypeOK, LinksInv, Convention, HostRun \/ InterpDone, calls' = calls
    PROVE  LinksInv'
<1>1. mode' = "jit" /\ calls \in Seq(Addr)
  BY DEF HostRun, InterpDone, LinksInv
<1>2. CASE HostRun
  <2>1. stack' = << Entering(pc, gpr) >>
    BY <1>2 DEF HostRun
  <2>2. Len(stack') = 1
    BY <2>1
  <2>3. JitLinks(calls, stack')
    BY ONLY <1>1, <2>2, LinksEnter
  <2> QED
    BY <1>1, <2>3 DEF LinksInv
<1>3. CASE InterpDone
  <2>1. mode = "interp" /\ pc = Top.at /\ stack' = Append(Below, Reloaded(Top)) /\ stack # << >>
    BY <1>3 DEF InterpDone, TypeOK
  <2>2. /\ Len(stack) \in Nat \ {0} /\ Below \in Seq(Frame) /\ Len(Below) = Len(stack) - 1
        /\ \A i \in 1 .. Len(stack) - 1 : Below[i] = stack[i]
    BY <2>1, TopType
  <2>3. Len(stack') = Len(Below) + 1 /\ \A i \in 1 .. Len(Below) : stack'[i] = Below[i]
    BY ONLY <2>1, <2>2, AppendAny
  <2>4. Len(stack') = Len(stack) /\ Returnees(stack, stack', Len(stack) - 1)
    BY <2>2, <2>3 DEF Returnees
  <2>5. InterpLinks(calls, stack, pc) /\ pc = stack[Len(stack)].at
    BY <2>1 DEF LinksInv, Top
  <2>6. pc \notin ToSet(calls)
    BY <2>1 DEF Convention, GuestPc, InJit
  <2>7. JitLinks(calls, stack')
    BY ONLY <1>1, <2>2, <2>4, <2>5, <2>6, LinksDone
  <2> QED
    BY <1>1, <2>7 DEF LinksInv
<1> QED
  BY <1>2, <1>3

\* Straight-line code, branches and jumps within a function neither call nor return.
LEMMA NoCallWithin ==
    ASSUME Inv, JitPlain \/ JitBranch \/ JitJump \/ JitSwitch
    PROVE  CallsAfter = calls
<1>1. CASE JitPlain
  <2>1. GuestPc = Top.at /\ Word0.k \notin ControlKinds
    BY <1>1 DEF JitPlain, InBlock, Running, GuestPc, InJit, Emitted, PlainKinds, ControlKinds
  <2>2. ~HasSlot(prog, GuestPc)
    BY <2>1 DEF HasSlot, Word0
  <2> QED
    BY <2>2 DEF CallsAfter, Calling, Returning, AtControl
<1>2. CASE JitBranch
  <2>1. Controls({"branch", "likely"})
    BY <1>2 DEF JitBranch
  <2> QED
    BY <2>1, ControlIsGuests DEF CallsAfter, Calling, Returning
<1>3. CASE JitJump
  <2>1. Controls({"jump"})
    BY <1>3 DEF JitJump
  <2> QED
    BY <2>1, ControlIsGuests DEF CallsAfter, Calling, Returning
<1>4. CASE JitSwitch
  <2>1. Controls({"jr"}) /\ Word0.s # Ra
    BY <1>4 DEF JitSwitch
  <2> QED
    BY <2>1, ControlIsGuests DEF CallsAfter, Calling, Returning
<1> QED
  BY <1>1, <1>2, <1>3, <1>4

CallsMove ==
    \/ GuestSteps /\ calls' = CallsAfter
    \/ HandOvers /\ calls' = calls

LEMMA LinksStep ==
    ASSUME Inv, LinksInv, Convention, CallsMove
    PROVE  LinksInv'
<1>1. TypeOK /\ calls \in Seq(Addr) /\ CallsAfter \in Seq(Addr)
  BY CallsType DEF Inv, LinksInv
<1>2. CASE HostStep /\ calls' = CallsAfter
  BY <1>1, <1>2 DEF HostStep, LinksInv
<1>3. CASE InterpStep /\ calls' = CallsAfter
  BY <1>3, LinksAfterInterp
<1>4. CASE JitCall /\ calls' = CallsAfter
  BY <1>4, LinksAfterCall
<1>5. CASE JitReturn /\ calls' = CallsAfter
  BY <1>5, LinksAfterReturn
<1>6. CASE (JitPlain \/ JitBranch \/ JitJump) /\ calls' = CallsAfter
  <2>1. calls' = calls /\ mode = "jit" /\ mode' = "jit"
    BY <1>6, NoCallWithin DEF JitPlain, JitBranch, JitJump, Controls, InBlock, Running
  <2>2. \E f : stack' = Append(Below, f)
    BY <1>6 DEF JitPlain, JitBranch, JitJump
  <2> QED
    BY <1>1, <2>1, <2>2, LinksAfterGoOn
<1>7. CASE JitSwitch /\ calls' = CallsAfter
  <2>1. calls' = calls /\ mode = "jit" /\ Controls({"jr"}) /\ Word0.s # Ra
    BY <1>7, NoCallWithin DEF JitSwitch, Controls, InBlock, Running
  <2>2. CASE Top.g[Word0.s] \in ToSet(Succs(prog, Top.at))
    <3>1. mode' = "jit" /\ \E f : stack' = Append(Below, f)
      BY <1>7, <2>1, <2>2 DEF JitSwitch
    <3> QED
      BY <1>1, <2>1, <3>1, LinksAfterGoOn
  <2>3. CASE Top.g[Word0.s] \notin ToSet(Succs(prog, Top.at))
    <3>1. Leave(Top.g[Word0.s], Slotted(Top.g))
      BY <1>7, <2>3 DEF JitSwitch
    <3>2. Top.g[Word0.s] # 0
      BY <2>1, ConventionGivesReturns DEF ReturnsFollowGuest
    <3> QED
      BY <1>1, <2>1, <3>1, <3>2, LinksAfterBail
  <2> QED
    BY <2>2, <2>3
<1>8. CASE (HostRun \/ InterpDone) /\ calls' = calls
  BY <1>1, <1>8, LinksAfterHandOver
<1>9. CASE (JitOut \/ JitBail) /\ calls' = calls
  <2>1. mode = "jit" /\ Top.at # 0
    BY <1>9, ConventionGivesReturns
    DEF ReturnsFollowGuest, InJit, JitOut, JitBail, InBlock, Running
  <2>2. PICK g : Leave(Top.at, g)
    BY <1>9 DEF JitOut, JitBail
  <2> QED
    BY <1>1, <1>9, <2>1, <2>2, LinksAfterBail
<1>10. CASE JitRunOn /\ calls' = calls
  <2>1. mode = "jit" /\ mode' = "jit" /\ \E f : stack' = Append(Below, f)
    BY <1>10 DEF JitRunOn, Running
  <2> QED
    BY <1>1, <1>10, <2>1, LinksAfterGoOn
<1>11. CASE UNCHANGED vars /\ calls' = calls
  BY <1>11 DEF vars, LinksInv
<1> QED
  BY <1>2, <1>3, <1>4, <1>5, <1>6, <1>7, <1>8, <1>9, <1>10, <1>11
  DEF CallsMove, GuestSteps, HandOvers, Done

-----------------------------------------------------------------------------
(* As long as the guest keeps to its calls. *)

CallInv == kept => Inv /\ LinksInv /\ Convention

LEMMA CallStepIsStep == [CallNext]_callVars => [Next]_vars
BY DEF CallNext, callVars, GuestSteps, HandOvers, Next

LEMMA CallInvInit == CallInit => CallInv
<1> SUFFICES ASSUME CallInit PROVE CallInv
  OBVIOUS
<1>1. Inv /\ mode = "host" /\ calls = << >> /\ kept = Convention
  BY InitRefines DEF CallInit, Init
<1>2. << >> \in Seq(Addr)
  OBVIOUS
<1> QED
  BY <1>1, <1>2 DEF CallInv, LinksInv

\* A step made while the convention is kept is a step of the interpreter or a stutter, and
\* if it is kept afterwards everything still is as it should be.
LEMMA CallInvStep ==
    ASSUME CallInv, JalrReadsNoLink, [CallNext]_callVars
    PROVE  CallInv' /\ (kept => [Core!Next]_(Core!vars))
<1>1. [Next]_vars
  BY CallStepIsStep
<1>2. ASSUME kept PROVE Inv' /\ [Core!Next]_(Core!vars)
  BY <1>1, <1>2, ConventionGivesReturns, InvStep DEF CallInv
<1>3. CASE UNCHANGED callVars
  <2>1. UNCHANGED vars /\ calls' = calls /\ kept' = kept
    BY <1>3 DEF callVars
  <2>2. LinksInv => LinksInv'
    BY <2>1 DEF vars, LinksInv
  <2>3. Convention => Convention'
    BY <2>1
    DEF vars, Convention, GuestPc, GuestRegs, InJit, Top, AtControl, GuestWord, Returning,
        SlotKeepsLink, HasSlot, Readable
  <2> QED
    BY <1>2, <2>1, <2>2, <2>3 DEF CallInv
<1>4. CASE CallNext
  <2>1. CallsMove /\ kept' = (kept /\ Convention')
    BY <1>4 DEF CallNext, CallsMove
  <2>2. kept' => kept /\ Convention'
    BY <2>1
  <2>3. kept => LinksInv'
    BY <2>1, LinksStep DEF CallInv
  <2> QED
    BY <1>2, <2>2, <2>3 DEF CallInv
<1> QED
  BY <1>2, <1>3, <1>4

\* The history adds nothing to what the program does, so what is proved of Spec holds.
LEMMA CallSpecImpliesSpec == CallSpec => Spec
BY CallStepIsStep, PTL DEF CallSpec, Spec, CallInit

\* The convention on the guest is all that is needed for what host functions return to be
\* what the guest did: for every program, and whatever is translated of it.
THEOREM ReturnsAreTheGuests ==
    ASSUME JalrReadsNoLink
    PROVE  CallSpec => []ConventionSuffices
<1>1. CallInv /\ [CallNext]_callVars => CallInv'
  BY CallInvStep, JalrReadsNoLink
<1>2. CallInv => ConventionSuffices
  BY ConventionGivesReturns DEF CallInv, ConventionSuffices
<1> QED
  BY <1>1, <1>2, CallInvInit, PTL DEF CallSpec

\* Only the $31 that an early link overwrote is not the guest's, and what the guest runs
\* next writes it without reading it, as long as the convention is kept.
THEOREM EarlyLinksAreDead ==
    ASSUME JalrReadsNoLink
    PROVE  CallSpec => [](kept => EarlyLinkIsDead)
<1>1. CallInv /\ [CallNext]_callVars => CallInv'
  BY CallInvStep, JalrReadsNoLink
<1>2. CallInv => (kept => EarlyLinkIsDead)
  BY JalrReadsNoLink
  DEF CallInv, Inv, EarlyInv, EarlyLinkIsDead, JalrReadsNoLink, Links, Readable
<1> QED
  BY <1>1, <1>2, CallInvInit, PTL DEF CallSpec

\* Translated code starts where the interpreter does, and every step it takes before the
\* guest breaks the convention is one of the interpreter or none: the first thing that
\* goes wrong is always the guest's own doing.
THEOREM GuestDivergesFirst ==
    ASSUME JalrReadsNoLink
    PROVE  CallSpec => Core!Init /\ [][kept => [Core!Next]_(Core!vars)]_callVars
<1>1. CallInv /\ [CallNext]_callVars => CallInv' /\ (kept => [Core!Next]_(Core!vars))
  BY CallInvStep, JalrReadsNoLink
<1>2. CallInit => Core!Init
  BY InitRefines DEF CallInit
<1> QED
  BY <1>1, <1>2, CallInvInit, PTL DEF CallSpec

\* Bails compose on every guest that calls and returns the way the convention says.
THEOREM ConventionGivesRefinement ==
    ASSUME JalrReadsNoLink
    PROVE  CallSpec /\ []kept => ImplementsCore
<1>1. CallInv /\ [CallNext]_callVars => CallInv' /\ (kept => [Core!Next]_(Core!vars))
  BY CallInvStep, JalrReadsNoLink
<1>2. CallInit => Core!Init
  BY InitRefines DEF CallInit
<1> QED
  BY <1>1, <1>2, CallInvInit, PTL DEF CallSpec, ImplementsCore, Core!Spec

=============================================================================
