----------------------------- MODULE R4300Isa -----------------------------
(***************************************************************************)
(* What the instructions of the main CPU compute: the same in the          *)
(* interpreter and in translated code, which is what emitOne and           *)
(* branchCond are written for.                                             *)
(***************************************************************************)
EXTENDS R4300Image

CONSTANTS
    Regs,       \* the registers the programs use
    Modulus,    \* values are below it; 2^64 in the program
    RamSize,    \* words of guest data
    StartRegs, StartRams  \* what the registers and the memory may hold at first

UsesRegs(p) ==
    \A a \in DOMAIN p.mem : {p.mem[a].d, p.mem[a].s, p.mem[a].r} \subseteq Regs

ASSUME RegsAssumption ==
    /\ Regs \subseteq Nat /\ {0, Ra} \subseteq Regs
    /\ \A p \in Programs : UsesRegs(p)
ASSUME SizeAssumption == Modulus \in Nat \ {0} /\ RamSize \in Nat \ {0}

Val == 0 .. Modulus - 1
RamAddr == 0 .. RamSize - 1
Files == {g \in [Regs -> Val] : g[0] = 0}

ASSUME StartAssumption ==
    StartRegs \subseteq Files /\ StartRams \subseteq [RamAddr -> Val]

-----------------------------------------------------------------------------
(* What an instruction computes.                                           *)

SetReg(g, d, v) == IF d = 0 THEN g ELSE [g EXCEPT ![d] = v]

\* The memory word a load or store addresses; every address is masked into RAM.
DataAddr(w, g) == (g[w.s] + w.n) % RamSize

\* What w leaves in its register d.  "slow" and "data" stand for everything the
\* interpreter alone can run.
Result(w, g, m) ==
    CASE w.k \in {"addiu", "slow", "data"} -> (g[w.s] + w.n) % Modulus
      [] w.k = "addu" -> (g[w.s] + g[w.r]) % Modulus
      [] w.k = "lui" -> w.n % Modulus
      [] w.k = "sltiu" -> IF g[w.s] < w.n THEN 1 % Modulus ELSE 0
      [] w.k = "lw" -> m[DataAddr(w, g)]

RegsAfter(w, g, m) == IF w.k = "sw" THEN g ELSE SetReg(g, w.d, Result(w, g, m))
RamAfter(w, g, m) == IF w.k = "sw" THEN [m EXCEPT ![DataAddr(w, g)] = g[w.r]] ELSE m

Falls(w) == w.k \notin ControlKinds \cup {"trap"}
Linked(g, a) == SetReg(g, Ra, After(a) % Modulus)
Taken(w, g) == g[w.s] # g[w.r]

\* Whether the word at a is a control instruction with a delay slot to run.
HasSlot(p, a) ==
    Readable(p, a) /\ p.mem[a].k \in ControlKinds
    /\ Readable(p, a + 1) /\ Falls(p.mem[a + 1])

\* The registers with which the delay slot of w runs, and where w goes; both are
\* settled before the slot runs.
RegsForSlot(w, g, a) == IF w.k \in {"bal", "call", "jalr"} THEN Linked(g, a) ELSE g
Target(w, g, a) ==
    CASE w.k \in {"branch", "likely", "bal"} -> IF Taken(w, g) THEN w.t ELSE After(a)
      [] w.k \in {"jump", "call"} -> w.t
      [] w.k \in {"jalr", "jr"} -> g[w.s]

\* The slot of a likely branch runs only when the branch is taken.
SlotRuns(w, g) == w.k = "likely" => Taken(w, g)

\* Nothing is left to run at a.
Stops(p, a) == ~(Readable(p, a) /\ Falls(p.mem[a])) /\ ~HasSlot(p, a)

=============================================================================
