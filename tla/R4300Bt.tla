------------------------------ MODULE R4300Bt ------------------------------
(***************************************************************************)
(* Code translated by r4300bt, one host function for each guest function,  *)
(* and the host program that runs it.                                      *)
(*                                                                         *)
(* A host function keeps the guest's registers in locals: it loads them    *)
(* from state_t when it is entered and spills them around every call and   *)
(* when it leaves.  It returns 0 when the guest function returned, and     *)
(* otherwise the address at which the interpreter has to take over: its    *)
(* caller, or the host, does that.  r4300bt_call interprets on behalf of   *)
(* translated code until pc is the address the call returns to.            *)
(*                                                                         *)
(* The blocks of a function are those of its graph (R4300Cfg).             *)
(***************************************************************************)
EXTENDS R4300Isa

Bucket == RamSize   \* BITBUCKET_PA, a word of guest RAM that no guest uses

VARIABLES
    prog,
    code,       \* for each translated function, where its blocks end
    mode,       \* who runs: the host, the interpreter or a translated function
    stack,      \* the host functions entered; the last one runs or waits
    pc, gpr,    \* state_t
    ram,
    early       \* history: register 31 before an instruction that will be run again

vars == << prog, code, mode, stack, pc, gpr, ram, early >>

Interpreter == INSTANCE R4300Core

-----------------------------------------------------------------------------
(* What translate makes of the graph.                                      *)

\* The entries that are functions of the graph.
Translated(p) == p.entries \cap ReachFuncs(p)

Translate(p) == [f \in Translated(p) |-> BlockEnds(p, f)]

-----------------------------------------------------------------------------
(* A translated function that has been entered: blk is the block it is in, *)
(* at the next instruction, g its registers.  While it waits for a call,   *)
(* at and blk are where the call returns to.                               *)

Frame == [fn : Addr, blk : Addr, at : Addr, g : Files]
Modes == {"host", "resume", "interp", "jit"}
NoEarly == -1

TypeOK ==
    /\ Program(prog) /\ UsesRegs(prog)
    /\ DOMAIN code \subseteq prog.entries
    /\ mode \in Modes
    /\ stack \in Seq(Frame)
    /\ mode \in {"jit", "interp"} <=> stack # << >>
    /\ pc \in Addr
    /\ gpr \in Files
    /\ ram \in [RamAddr \cup {Bucket} -> Val]
    /\ early \in Val \cup {NoEarly}

Init ==
    /\ prog \in Programs
    /\ code = Translate(prog)
    /\ mode = "host"
    /\ stack = << >>
    /\ pc \in prog.entries
    /\ gpr \in StartRegs
    /\ \E m \in StartRams :
         ram = [a \in RamAddr \cup {Bucket} |-> IF a = Bucket THEN 0 ELSE m[a]]
    /\ early = NoEarly

Top == stack[Len(stack)]
Below == SubSeq(stack, 1, Len(stack) - 1)
Entering(f, g) == [fn |-> f, blk |-> f, at |-> f, g |-> g]
GoTo(frame, a, g) == [frame EXCEPT !.blk = a, !.at = a, !.g = g]

-----------------------------------------------------------------------------
(* The host: it interprets, and calls run where it finds a translation.    *)

Interprets ==
    /\ Interpreter!Next
    /\ early' = NoEarly
    /\ UNCHANGED code

HostStep ==
    /\ mode \in {"host", "resume"}
    /\ Interprets
    /\ mode' = "host"
    /\ UNCHANGED stack

\* have, then run: the function loads the registers.
HostRun ==
    /\ mode = "host" /\ pc \in DOMAIN code
    /\ mode' = "jit"
    /\ stack' = << Entering(pc, gpr) >>
    /\ UNCHANGED << prog, code, pc, gpr, ram, early >>

-----------------------------------------------------------------------------
(* Leaving a translated function with result r and registers g: 0 for a    *)
(* return, else the address the interpreter has to go on at.               *)

\* Mutant: the host function is not left.
HostResumesInside(r, g) ==
    /\ UNCHANGED stack
    /\ IF r = 0 THEN mode' = "host" /\ pc' = g[Ra] ELSE mode' = "resume" /\ pc' = r

HostResumes(r, g) ==
    /\ stack' = << >>
    /\ IF r = 0 THEN mode' = "host" /\ pc' = g[Ra] ELSE mode' = "resume" /\ pc' = r

\* emitDirectCall: the caller goes on, or has r4300bt_call finish the callee.
CallerResumes(r, g) ==
    LET n == Len(stack) - 1
    IN  IF r = 0
        THEN /\ stack' = [Below EXCEPT ![n].g = g]
             /\ mode' = "jit" /\ UNCHANGED pc
        ELSE stack' = Below /\ mode' = "interp" /\ pc' = r

Leave(r, g) ==
    /\ gpr' = g
    /\ IF Len(stack) = 1 THEN HostResumes(r, g) ELSE CallerResumes(r, g)
    /\ UNCHANGED << prog, code >>

-----------------------------------------------------------------------------
(* r4300bt_call. *)

InterpStep ==
    /\ mode = "interp" /\ pc # Top.at
    /\ Interprets
    /\ UNCHANGED << mode, stack >>

Reloaded(frame) == [frame EXCEPT !.g = gpr]

InterpDone ==
    /\ mode = "interp" /\ pc = Top.at
    /\ mode' = "jit"
    /\ stack' = Append(Below, Reloaded(Top))
    /\ UNCHANGED << prog, code, pc, gpr, ram, early >>

-----------------------------------------------------------------------------
(* Translated code. *)

Running == mode = "jit" /\ Top.blk \in DOMAIN code[Top.fn]
InBlock == Running /\ Top.at < code[Top.fn][Top.blk]
Word0 == prog.mem[Top.at]
Slot == prog.mem[Top.at + 1]

\* The instructions emitOne knows.
Emitted(w) == w.k \in PlainKinds

\* Instructions that write the link register before their slot is looked at.
Links(w) == w.k \in {"call", "jalr"}

\* emitBody can give code to the control instruction at a.
EmittedControl(a) ==
    /\ Control(prog, a) /\ prog.mem[a].k # "bal"
    /\ Readable(prog, a + 1) /\ Emitted(prog.mem[a + 1])

\* A branch names a block the graph does not have: its stub leaves.
JitOut ==
    /\ mode = "jit" /\ ~Running
    /\ Leave(Top.at, Top.g)
    /\ UNCHANGED << ram, early >>

JitRunOn ==
    /\ Running /\ ~InBlock
    /\ stack' = Append(Below, GoTo(Top, Top.at, Top.g))
    /\ UNCHANGED << prog, code, mode, pc, gpr, ram, early >>

JitPlain ==
    /\ InBlock /\ Readable(prog, Top.at) /\ Emitted(Word0)
    /\ stack' = Append(Below, [Top EXCEPT !.at = @ + 1, !.g = RegsAfter(Word0, @, ram)])
    /\ ram' = RamAfter(Word0, Top.g, ram)
    /\ UNCHANGED << prog, code, mode, pc, gpr, early >>

\* Mutant: every control instruction writes the link register.
LinkedEarlyAlways == Control(prog, Top.at) /\ Readable(prog, Top.at + 1)

\* Nothing emitted for the instruction; a call or jalr has linked by then if it is
\* its slot that has no code.
LinkedEarly == Control(prog, Top.at) /\ Links(Word0) /\ Readable(prog, Top.at + 1)

JitBail ==
    /\ InBlock
    /\ ~(Readable(prog, Top.at) /\ Emitted(Word0)) /\ ~EmittedControl(Top.at)
    /\ IF LinkedEarly
         THEN /\ Leave(Top.at, Linked(Top.g, Top.at))
              /\ early' = IF early = NoEarly THEN Top.g[Ra] ELSE early
         ELSE Leave(Top.at, Top.g) /\ UNCHANGED early
    /\ UNCHANGED ram

Controls(kinds) == InBlock /\ EmittedControl(Top.at) /\ Word0.k \in kinds

\* The slot under a predicate: what it would write is selected, and a store that
\* must not happen goes to the bucket.
SlotRegs(pred, g) ==
    LET after == RegsAfter(Slot, g, ram) IN [r \in Regs |-> IF pred THEN after[r] ELSE g[r]]

SlotRam(pred, g) ==
    IF Slot.k # "sw" THEN ram
    ELSE [ram EXCEPT ![IF pred THEN DataAddr(Slot, g) ELSE Bucket] = g[Slot.r]]

\* Registers past the slot of a control instruction that is no likely branch.
Slotted(g) == SlotRegs(TRUE, g)

\* Mutant: the condition is computed past the slot.
CondLate(g) == Taken(Word0, Slotted(g))

Cond(g) == Taken(Word0, g)

JitBranch ==
    /\ Controls({"branch", "likely"})
    /\ LET pred == Word0.k = "likely" => Cond(Top.g)
           next == IF Cond(Top.g) THEN Word0.t ELSE After(Top.at)
       IN  /\ stack' = Append(Below, GoTo(Top, next, SlotRegs(pred, Top.g)))
           /\ ram' = SlotRam(pred, Top.g)
    /\ UNCHANGED << prog, code, mode, pc, gpr, early >>

JitJump ==
    /\ Controls({"jump"})
    /\ stack' = Append(Below, GoTo(Top, Word0.t, Slotted(Top.g)))
    /\ ram' = SlotRam(TRUE, Top.g)
    /\ UNCHANGED << prog, code, mode, pc, gpr, early >>

\* The target of a jr or jalr is read before the link is written and the slot runs.
Callee == IF Word0.k = "call" THEN Word0.t ELSE Top.g[Word0.s]

\* A call to a translated function is direct where the graph knows the target.
Known(t) ==
    /\ t \in DOMAIN code
    /\ Word0.k = "call" \/ (Top.at \in DOMAIN prog.hints /\ t \in prog.hints[Top.at])

\* Mutant: the registers are not spilled for the callee.
SpilledNot(g) == gpr

Spilled(g) == g

\* Mutant: the caller goes on at the slot.
ReturnsToSlot == Top.at + 1

\* Where the caller goes on.
ReturnsTo == After(Top.at)

\* The locals are spilled; a direct callee loads them, and for any other r4300bt_call
\* starts to interpret.
JitCall ==
    /\ Controls({"call", "jalr"})
    /\ LET g == Slotted(Linked(Top.g, Top.at))
           waiting == GoTo(Top, ReturnsTo, g)
       IN  /\ gpr' = Spilled(g)
           /\ \/ /\ Known(Callee)
                 /\ stack' = Append(Append(Below, waiting), Entering(Callee, gpr'))
                 /\ UNCHANGED << mode, pc >>
              \/ /\ ~Known(Callee)
                 /\ stack' = Append(Below, waiting)
                 /\ mode' = "interp" /\ pc' = Callee
    /\ ram' = SlotRam(TRUE, Linked(Top.g, Top.at))
    /\ UNCHANGED << prog, code, early >>

JitReturn ==
    /\ Controls({"jr"}) /\ Word0.s = Ra
    /\ Leave(0, Slotted(Top.g))
    /\ ram' = SlotRam(TRUE, Top.g)
    /\ UNCHANGED early

\* A switch over the targets in the graph; any other target leaves.
JitSwitch ==
    /\ Controls({"jr"}) /\ Word0.s # Ra
    /\ LET t == Top.g[Word0.s]
       IN  IF t \in ToSet(Succs(prog, Top.at))
           THEN /\ stack' = Append(Below, GoTo(Top, t, Slotted(Top.g)))
                /\ UNCHANGED << prog, code, mode, pc, gpr >>
           ELSE Leave(t, Slotted(Top.g))
    /\ ram' = SlotRam(TRUE, Top.g)
    /\ UNCHANGED early

-----------------------------------------------------------------------------
\* A block without instructions branches to itself.
Spins == Running /\ code[Top.fn][Top.blk] = Top.blk

Stopped == mode \in {"host", "resume", "interp"} /\ Stops(prog, pc)
Done == (Spins \/ Stopped) /\ UNCHANGED vars

Next ==
    \/ HostStep \/ HostRun
    \/ InterpStep \/ InterpDone
    \/ JitOut \/ JitRunOn \/ JitPlain \/ JitBail
    \/ JitBranch \/ JitJump \/ JitCall \/ JitReturn \/ JitSwitch
    \/ Done

Spec == Init /\ [][Next]_vars
FairSpec == Spec /\ WF_vars(Next)

-----------------------------------------------------------------------------
(* Properties. *)

InJit == mode = "jit"
GuestPc == IF InJit THEN Top.at ELSE pc
GuestRegs ==
    LET g == IF InJit THEN Top.g ELSE gpr
    IN  IF early = NoEarly THEN g ELSE [g EXCEPT ![Ra] = early]
GuestRam == [a \in RamAddr |-> ram[a]]

Core == INSTANCE R4300Core WITH pc <- GuestPc, gpr <- GuestRegs, ram <- GuestRam

\* Translated code, its bails and the interpreter that stands in for it together
\* do what the interpreter does alone, on a guest that returns where it was called
\* from (DESIGN_R4300.md, "Bails compose").
ImplementsCore == Core!Spec

\* What a host function tells its caller is what the guest did.  A guest return goes
\* where the caller goes on: $31 is the link of the call, however the callee got back,
\* and its slot leaves $31 alone where the host has to read it.  The result 0 is never
\* an address to go on at (r4300bt.cc:640-644, 461-482).
ReturnsFollowGuest ==
    /\ Controls({"jr"}) /\ Word0.s = Ra =>
         Top.g[Ra] = IF Len(stack) > 1 THEN stack[Len(stack) - 1].at ELSE Slotted(Top.g)[Ra]
    /\ Controls({"jr"}) /\ Word0.s # Ra => Top.g[Word0.s] # 0
    /\ InJit => Top.at # 0

\* Only the register 31 that an early link overwrote can differ from what the guest
\* has, and only at the instruction that will write it again (r4300bt.cc:599-611).
EarlyLinkIsDead ==
    early # NoEarly =>
        /\ Readable(prog, GuestPc) /\ Links(prog.mem[GuestPc])
        /\ prog.mem[GuestPc].k = "call" \/ prog.mem[GuestPc].s # Ra

\* A task that comes to its end does so in the interpreter, or in translated code
\* that branched into memory that cannot be read, where it spins.
TaskEnds == <>(Stopped \/ Spins)

=============================================================================
