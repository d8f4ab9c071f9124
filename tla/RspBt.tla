-------------------------------- MODULE RspBt --------------------------------
(***************************************************************************)
(* rspbt::run and the code that rspbt::impl::compile generates: the cache  *)
(* of translations, the dispatch into one, its execution instruction by    *)
(* instruction, its exits (BREAK, an overlay landing in IMEM, a jump that  *)
(* was not anticipated, an untranslatable word) and what run makes of      *)
(* them: return, look the new image up, or finish in the interpreter.      *)
(*                                                                         *)
(* A translation is determined by the image it was made from and the roots *)
(* of its dispatch.  RspWalk models how compile arrives at it.             *)
(***************************************************************************)
EXTENDS RspIsa

CONSTANTS
    HashOf(_),      \* fnv1a64 of an image
    MaxTasks,       \* tasks the host starts; it stops after that many
    Entries,        \* addresses the host starts tasks at
    HintSets        \* the hint_roots the host passes

Hashes == {HashOf(img) : img \in Images}

ASSUME HashAssumption == \A img \in Images : HashOf(img) \in Nat
ASSUME HostAssumption == MaxTasks \in Nat /\ Entries \subseteq Addr /\ HintSets \subseteq SUBSET Addr

VARIABLES
    imem, imem_gen, r, sp_mem, sp_dram, halted, died,   \* rsp_t, as in RspCore
    ip,             \* pc and next_pc of rsp_t::run, when it runs
    tasks,          \* tasks started
    stage,          \* where rspbt::run stands
    cur, hints,     \* its locals
    gen,            \* imem_gen when the translation was entered
    cache, last,    \* rspbt::impl
    gpr,            \* the translated function's registers
    at,             \* the instruction it is at, a key (address, call string)
    target,         \* where the control instruction at `at` goes once its slot has run
    ret             \* what it returns

coreVars == << imem, imem_gen, r, sp_mem, sp_dram, halted, died, ip >>
runVars == << cur, hints, gen >>
fnVars == << gpr, at, target, ret >>
vars == << coreVars, tasks, stage, runVars, cache, last, fnVars >>

Interp == INSTANCE RspCore

NoTask == Interp!NoTask
NoEntry == -1          \* a null image_t pointer
NoImage == << >>       \* memory of a new image_t
NoTarget == -1
HaltedRet == -1        \* 0xffffffff

ASSUME NoImageAssumption == NoImage \notin Images

Stages == {"host", "lookup", "compile", "enter", "jit", "exit", "returned", "interp"}

Entry == [made : Images \cup {NoImage},   \* what fn was generated from
          cases : SUBSET Addr,            \* the roots its dispatch knows
          imem : Images \cup {NoImage},
          roots : SUBSET Addr,
          stale : BOOLEAN]
NewEntry == [made |-> NoImage, cases |-> {}, imem |-> NoImage, roots |-> {}, stale |-> TRUE]

TypeOK ==
    /\ Interp!TypeOK
    /\ tasks \in 0 .. MaxTasks
    /\ stage \in Stages
    /\ cur \in Addr /\ hints \subseteq Addr
    /\ gen \in 0 .. GenMod - 1
    /\ cache \in [Hashes -> Entry]
    /\ last \in Hashes \cup {NoEntry}
    /\ gpr \in [Reg -> Value] /\ gpr[0] = 0
    /\ at \in Keys
    /\ target \in Addr \cup {NoTarget}
    /\ ret \in Addr \cup {HaltedRet}

\* Locals have no value outside a call; the model gives them these.
NoGpr == [x \in Reg |-> 0]
Nowhere == << 0, NoContext >>

Init ==
    /\ Interp!Init
    /\ tasks = 0
    /\ stage = "host"
    /\ cur = 0 /\ hints = {} /\ gen = 0
    /\ cache = [h \in Hashes |-> NewEntry] /\ last = NoEntry
    /\ gpr = NoGpr /\ at = Nowhere /\ target = NoTarget /\ ret = 0

-----------------------------------------------------------------------------
(* The host. *)

Load ==
    /\ stage = "host" /\ tasks < MaxTasks
    /\ \E img \in Images : Interp!Load(img)
    /\ UNCHANGED << tasks, stage, runVars, cache, last, fnVars >>

Run ==
    /\ stage = "host" /\ ~died /\ tasks < MaxTasks
    /\ tasks' = tasks + 1
    /\ halted' = FALSE
    /\ cur' \in Entries /\ hints' \in HintSets
    /\ stage' = "lookup"
    /\ UNCHANGED << imem, imem_gen, r, sp_mem, sp_dram, died, ip, gen, cache, last, fnVars >>

-----------------------------------------------------------------------------
(* rspbt::run, up to the call of the translation. *)

\* Mutant: the root is recorded and the translation kept.
AddRootsQuietly(e, R) == [e EXCEPT !.roots = @ \cup R]

\* Insert roots; one that was not there makes the translation stale.
AddRoots(e, R) ==
    [e EXCEPT !.roots = @ \cup R, !.stale = @ \/ ~(R \subseteq e.roots)]

\* Mutant: no comparison with what is in IMEM.
FoundWithoutCompare == IF last # NoEntry THEN last ELSE HashOf(imem)

\* The image used last if it is still the one in IMEM, else by hash.
Found == IF last # NoEntry /\ cache[last].imem = imem THEN last ELSE HashOf(imem)

Lookup ==
    /\ stage = "lookup"
    /\ last' = Found
    /\ LET e == AddRoots([cache[Found] EXCEPT !.imem = imem], {cur} \cup hints)
       IN  /\ cache' = [cache EXCEPT ![Found] = e]
           /\ stage' = IF e.stale THEN "compile" ELSE "enter"
    /\ UNCHANGED << coreVars, tasks, runVars, fnVars >>

\* Mutant: compiled for the address at hand only.
CompiledAfresh(e) ==
    LET R == CompiledRoots(imem, {cur} \cup hints)
    IN  [e EXCEPT !.made = imem, !.cases = R, !.roots = R, !.stale = FALSE]

Compiled(e) ==
    LET R == CompiledRoots(imem, e.roots)
    IN  [e EXCEPT !.made = imem, !.cases = R, !.roots = R, !.stale = FALSE]

Compile ==
    /\ stage = "compile"
    /\ cache' = [cache EXCEPT ![last] = Compiled(cache[last])]
    /\ stage' = "enter"
    /\ UNCHANGED << coreVars, tasks, runVars, last, fnVars >>

-----------------------------------------------------------------------------
(* The translated function. *)

Code == cache[last].made
Cases == cache[last].cases

\* Leave through the exit block with a return value.
ExitWith(v) == stage' = "exit" /\ ret' = v /\ UNCHANGED at

\* Registers are loaded, then the start address is dispatched on like a jr.
Enter ==
    /\ stage = "enter"
    /\ gen' = imem_gen
    /\ gpr' = [r EXCEPT ![0] = 0]
    /\ target' = NoTarget
    /\ IF cur \in Cases
         THEN stage' = "jit" /\ at' = << cur, NoContext >> /\ UNCHANGED ret
         ELSE ExitWith(cur)
    /\ UNCHANGED << coreVars, tasks, cur, hints, cache, last >>

Live == stage = "jit" /\ ~died
Pc == IF target = NoTarget THEN at[1] ELSE NextAddr(at[1])
Insn == Code[Pc]

ReadGpr(x) == IF x = 0 THEN 0 ELSE gpr[x]

\* Mutant: r0 can be written.
WithGprZero(x, v) == [gpr EXCEPT ![x] = v]

WithGpr(x, v) == IF x = 0 THEN gpr ELSE [gpr EXCEPT ![x] = v]

\* After a plain instruction: on to the next one, or, when it was a delay slot,
\* to the block of the target.  A jump that has no case for it misses.
Onward ==
    IF target = NoTarget
      THEN /\ at' = << NextAddr(at[1]), at[2] >>
           /\ UNCHANGED << stage, target, ret >>
      ELSE LET hit == {k \in EmitTargets(Code, at[1], at[2], Cases) : k[1] = target}
           IN  /\ target' = NoTarget
               /\ IF hit # {} THEN at' \in hit /\ UNCHANGED << stage, ret >>
                              ELSE ExitWith(target)

\* The instruction at Pc is emitted as straight-line code: inside a block, or in
\* the delay slot of the control instruction at `at`.
Inline == Live /\ (target = NoTarget => Translatable(Code, Pc))

JitPlain ==
    /\ Inline /\ Insn.op = "plain"
    /\ gpr' = WithGpr(Insn.rd, (ReadGpr(Insn.rs) + Insn.imm) % NumVals)
    /\ Onward
    /\ UNCHANGED << coreVars, tasks, runVars, cache, last >>

\* rspbt_mtc0 reports whether instruction memory was replaced; if so the function
\* leaves for the instruction after this one.
JitMtc0 ==
    /\ Inline /\ Insn.op = "mtc0" /\ Insn.c0 # "bad"
    /\ Interp!Mtc0(Insn.c0, ReadGpr(Insn.rt))
    /\ IF imem_gen' # imem_gen
         THEN ExitWith(NextAddr(Pc)) /\ target' = NoTarget
         ELSE Onward
    /\ UNCHANGED << tasks, r, halted, died, ip, gpr, runVars, cache, last >>

JitDie ==
    /\ Inline /\ Insn.op = "mtc0" /\ Insn.c0 = "bad"
    /\ died' = TRUE
    /\ UNCHANGED << tasks, imem, imem_gen, r, sp_mem, sp_dram, halted, ip, stage,
                    runVars, cache, last, fnVars >>

\* The condition, the target and the link are settled before the slot runs.
JitControl ==
    /\ Live /\ target = NoTarget /\ Control(Code, at[1])
    /\ target' =
         CASE Insn.op = "branch" ->
                IF ReadGpr(Insn.rs) = ReadGpr(Insn.rt) THEN TAddr(Code, Pc) ELSE Link(Pc)
           [] Insn.op \in {"j", "jal"} -> TAddr(Code, Pc)
           [] OTHER -> JumpAddr(ReadGpr(Insn.rs))
    /\ gpr' = CASE Insn.op = "jal"  -> WithGpr(Ra, Link(Pc))
                [] Insn.op = "jalr" -> WithGpr(Insn.rd, Link(Pc))
                [] OTHER -> gpr
    /\ UNCHANGED << coreVars, tasks, stage, runVars, cache, last, at, ret >>

JitBreak ==
    /\ Live /\ target = NoTarget /\ IsBreak(Insn)
    /\ halted' = TRUE
    /\ ExitWith(HaltedRet)
    /\ UNCHANGED << tasks, imem, imem_gen, r, sp_mem, sp_dram, died, ip, runVars, cache, last,
                    gpr, target >>

\* exitToInterp at a word that is not translated.
JitLeave ==
    /\ Live /\ target = NoTarget /\ ~Translatable(Code, at[1])
    /\ ExitWith(at[1])
    /\ UNCHANGED << coreVars, tasks, runVars, cache, last, gpr, target >>

\* Mutant: the exit block stores nothing.
NothingStored == r

\* The exit block stores the registers back.
StoredBack == [x \in Reg |-> IF x = 0 THEN r[0] ELSE gpr[x]]

Exit ==
    /\ stage = "exit"
    /\ r' = StoredBack
    /\ stage' = "returned"
    /\ gpr' = NoGpr /\ at' = Nowhere /\ target' = NoTarget
    /\ UNCHANGED << tasks, imem, imem_gen, sp_mem, sp_dram, halted, died, ip, runVars,
                    cache, last, ret >>

-----------------------------------------------------------------------------
(* rspbt::run, after the translation returned. *)

\* Mutant: every exit is taken for an overlay.
ReplacedAlways == TRUE

\* An overlay landed in IMEM since the translation was entered.
Replaced == imem_gen # gen

Return ==
    /\ stage = "returned" /\ ret = HaltedRet
    /\ stage' = "host"
    /\ cur' = 0 /\ hints' = {} /\ gen' = 0 /\ ret' = 0
    /\ UNCHANGED << coreVars, tasks, cache, last, gpr, at, target >>

Swap ==
    /\ stage = "returned" /\ ret # HaltedRet /\ Replaced
    /\ cur' = ret /\ ret' = 0
    /\ stage' = "lookup"
    /\ UNCHANGED << coreVars, tasks, hints, gen, cache, last, gpr, at, target >>

Fallback ==
    /\ stage = "returned" /\ ret # HaltedRet /\ ~Replaced
    /\ cache' = [cache EXCEPT ![last] = AddRoots(@, {ret})]
    /\ halted' = FALSE
    /\ ip' = Interp!At(ret)
    /\ stage' = "interp"
    /\ cur' = 0 /\ hints' = {} /\ gen' = 0 /\ ret' = 0
    /\ UNCHANGED << tasks, imem, imem_gen, r, sp_mem, sp_dram, died, last, gpr, at, target >>

\* The interpreter executes the rest of the task; run returns when it does.
Interpret ==
    /\ stage = "interp"
    /\ Interp!Step
    /\ stage' = IF ip' = NoTask THEN "host" ELSE "interp"
    /\ UNCHANGED << tasks, runVars, cache, last, fnVars >>

\* The host has had its tasks run, or RSP_DIE has ended the process.
Over == (died \/ (stage = "host" /\ tasks = MaxTasks)) /\ UNCHANGED vars

Translate ==
    \/ Lookup \/ Compile \/ Enter
    \/ JitPlain \/ JitMtc0 \/ JitDie \/ JitControl \/ JitBreak \/ JitLeave \/ Exit
    \/ Return \/ Swap \/ Fallback \/ Interpret

Next == Load \/ Run \/ Translate \/ Over

Spec == Init /\ [][Next]_vars
FairSpec == Spec /\ WF_vars(Translate)

-----------------------------------------------------------------------------
(* What the machine looks like from outside: the refinement mapping. *)

AbsR == IF stage \in {"jit", "exit"} THEN gpr ELSE r
AbsIp ==
    CASE stage = "host" -> NoTask
      [] stage \in {"lookup", "compile", "enter"} -> Interp!At(cur)
      [] stage = "jit" /\ target = NoTarget -> Interp!At(at[1])
      [] stage = "jit" /\ target # NoTarget -> [pc |-> NextAddr(at[1]), next |-> target]
      [] stage \in {"exit", "returned"} -> IF ret = HaltedRet THEN NoTask ELSE Interp!At(ret)
      [] OTHER -> ip

Core == INSTANCE RspCore WITH r <- AbsR, ip <- AbsIp

-----------------------------------------------------------------------------
(* What the properties below rest on. *)

\* No two of the images have the same hash.
InjectiveHash == \A i, j \in Images : HashOf(i) = HashOf(j) => i = j

\* No microcode starts a DMA into the RSP from a branch's delay slot.
NoDmaInSlot ==
    \A img \in Images : \A a \in Addr :
        Control(img, a) /\ img[NextAddr(a)].op = "mtc0"
            => img[NextAddr(a)].c0 # "rd_len"

\* What run and the translated function know at each stage.
StageConsistent ==
    /\ \A h \in Hashes : ~cache[h].stale => cache[h].made # NoImage
    /\ stage \in {"compile", "enter", "jit", "exit", "returned"} => last # NoEntry
    /\ stage \in {"enter", "jit"} => ~cache[last].stale
    /\ target # NoTarget => stage = "jit" /\ Control(Code, at[1])
    /\ (ip # NoTask) <=> (stage = "interp")
    /\ stage \in {"lookup", "compile", "enter", "jit"} => ~halted
    /\ stage \in {"exit", "returned"} /\ ret # HaltedRet => ~halted

\* The inductive invariant that needs no hypothesis.
BaseInv == TypeOK /\ StageConsistent

\* The inductive invariant behind RunsCurrentImage: a cache entry belongs to one
\* image, and its code was made from it.
ImageInv ==
    /\ \A h \in Hashes :
         /\ cache[h].imem # NoImage => HashOf(cache[h].imem) = h
         /\ cache[h].made # NoImage => cache[h].made = cache[h].imem
    /\ stage = "compile" => cache[last].imem = imem
    /\ stage \in {"enter", "jit"} => Code = imem

-----------------------------------------------------------------------------
(* Properties. *)

\* rspbt.hh:13-14 and README.md:41-46: running a task through the translator is
\* running it in the interpreter, whichever roots and hints a translation was made
\* with, wherever it is left, and however overlays replace it on the way.
ImplementsCore == Core!Spec

\* rspbt.cc:50: the translation that runs was made from what is in IMEM.
RunsCurrentImage == stage \in {"enter", "jit"} => Code = imem

\* The translation never runs off the blocks that compile's walk gave it.
StaysInTranslation ==
    stage = "jit" => at \in ReachKeys(Code, Cases)

\* rspbt.hh:24-25, "becomes a root next time": a translation that is not recompiled
\* dispatches to every root recorded for its image ...
FreshKnowsRoots ==
    \A h \in Hashes : ~cache[h].stale => cache[h].roots = cache[h].cases
\* ... and a translatable root, once recorded, is never forgotten.
RootsAreKept ==
    [][\A h \in Hashes : \A a \in cache[h].roots :
          cache[h].imem # NoImage /\ Translatable(cache[h].imem, a)
            => a \in cache'[h].roots]_vars

\* run does not go round its loop without executing: while a task is on, there is
\* always a next instruction.
NeverSpins ==
    []<>(AbsIp = NoTask \/ died) \/ []<><<AbsIp' # AbsIp>>_vars

\* rspbt.cc:348-352, "swapping costs a lookup rather than a compile": a compilation
\* makes a translation that was not already there.
CompilesAreUseful ==
    [][stage = "compile" /\ stage' = "enter" =>
         \/ cache[last].made # imem
         \/ cache'[last].cases # cache[last].cases]_vars

=============================================================================
