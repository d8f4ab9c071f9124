# A verification of rsp-bt in TLA+

rsp-bt translates the microcode of the Nintendo 64's RSP into host code with LLVM. An
interpreter (`rsp.cc`) is the reference; a translator (`rspbt.cc`, `rspFunc.cc`,
`rspInstruction.cc`) compiles the whole reachable part of an IMEM image into one function,
caches it under a hash of the image, and falls back on the interpreter for whatever it does
not know. `r4300cfg.cc` and `r4300bt.cc` do the same for single functions of the main CPU.
The claim the program lives by is in `rspbt.hh:13-14`: interpreter and translated code "are
interchangeable mid-task". That claim is the centre of this project.

Everything runs in one thread and nothing is persisted. What makes the code hard is not
concurrency but *staleness*: code that replaces itself under a running translation, registers
that live in two places, a cache looked up by hash, roots learned over many tasks, a static
walk that has to foresee every block the emitted code will name, and, for the main CPU, a call
stack that is partly the host's and partly the guest's. Beside it, arithmetic on numbers that
do not fit: 48-bit accumulators and chains of carries.

## 1. Inventory

| Component | State | Operations | Modelled in |
|---|---|---|---|
| Translator driver, `rspbt::run`; the translated function | image cache (`images`: fn, imem, roots, stale), entry used last; in the function: registers, next address, return slot | lookup, compile if stale, enter, return, overlay swap, fallback | `RspBt` |
| Static walk and emission, `rspbt::impl::compile` | roots, leaders, walked, work, call strings, blocks | the two passes, root pruning, `verifyFunction` | `RspWalk`, `RspImage` |
| Interpreter, `rsp_t::run` | pc, next_pc, r, halted | one instruction; delay slots; BREAK; RSP_DIE | `RspCore`, `RspIsa` (partly) |
| SP registers and DMA | sp_mem_addr, sp_dram_addr, sp_status, imem_gen, both memory banks | mtc0, DMA row by row, `rspbt_mtc0` | `SpRegs` |
| DMEM accesses | mem, r, v, and the function's copies of r and v | scalar and vector loads and stores, inline and through callbacks | `RspDmem`, `RspMem`, `RspMemBt` |
| Vector unit (COP2) | acc, vco, vcc, vce, v, and the function's copies | 24 vector operations, `mfc2`, `mtc2`, `cfc2`, `ctc2`; entry and exit blocks | `RspLane`, `RspVec`, `RspVecBt` |
| R4300 control-flow graphs | work, seen, leaders, ends, terms, edges; funcs, problems | discover, build (two passes), jump_table | `R4300Image`, `R4300Cfg` |
| R4300 translator | register locals, bail slot, the host's call stack, pc | translate, run; call, bail, spill, reload, predicated slots, `r4300bt_call` | `R4300Isa`, `R4300Core`, `R4300Bt`, `R4300Calls` (partly) |
| LLVM and ORC set-up | none of its own | | no: a third-party library |
| write_dot, report, difftest | none | | no: output and a test harness |

Interactions. The host loads microcode and kicks a task: `rspbt::run` hashes IMEM, finds or
makes the entry, compiles if roots were added, and calls the function. The function returns when
the task BREAKs, when it reaches a word it cannot translate or a `jr` target it does not know
(both to the interpreter, after recording the address as a root), or when a COP0 write replaced
IMEM (`rspbt_mtc0` compares `imem_gen`), in which case `run` goes round and looks up the new image.
The R4300 side is simpler: `r4300_cfg::discover` walks the code once from the roots, with the
targets observed at indirect jumps as hints; `r4300bt::translate` makes one host function of
each listed guest function; the host calls `run` when its pc is at one. Translated functions call each other directly;
whatever else they call, or cannot translate, they have the interpreter run until pc is at the
link (`r4300bt_call`).
While RSP code runs, the registers live in locals; callbacks (`rspbt_rd`, `rspbt_wr`, `rspbt_lwc2`,
`rspbt_swc2`, `rspbt_mtc0`) work on `rsp_t`, where the registers are out of date.

What makes each part correct:
- driver and function: every behaviour is one of the interpreter; the code that runs was made
  from what is in IMEM; roots once learned are kept, if they can be translated; the loop in `run` always gets on;
- walk: it terminates, finds exactly what is reachable, and every block emission names has
  code; `popCtx` never fails;
- DMA: rows arrive, stay in their bank, and a replaced IMEM is always reported;
- memory accesses: inline paths, callbacks and the interpreter agree at every address, and no
  store reaches IMEM;
- vector unit: IR and interpreter agree on every lane, accumulator and flag, and the sequences
  that microcode is made of (double-precision sums, four partial products, `vsar`, saving
  flags) compute what they are for;
- R4300 graphs: functions and blocks are the reachable ones whatever the order of the queues,
  no instruction is in two blocks, edges are those the code defines, and an indirect
  jump is left open only with a report;
- R4300 translator: translated functions, bails and the stand-in interpreter do together what
  the interpreter does alone; a guest return goes where the host function's caller goes on.

`PROJECT.json` lists the hazards behind these, each at its line.

## 2. Modules

- `RspImage` - words of microcode and what compile reads off them: control flow, call strings,
  the keys (address, call string), and reachability as a reference definition.
- `RspWalk` - compile, as a state machine over its own variables: `SeedRoots`, `PopWork`,
  `Scan*`, `PruneRoots`, `Emit*`, `Verify`. The work stack and the ordered leader set are sets
  here; every order is explored.
- `RspIsa`, `RspCore` - registers and COP0, and the interpreter as the **abstract
  specification**: one action per kind of instruction, delay slots in `ip = [pc, next]`.
- `RspBt` - `rspbt::run`, the cache, and the generated function executing instruction by
  instruction (`Jit*`), with its exits. It uses what `RspWalk` computes in summary
  (`CompiledRoots`, `ReachKeys`); run `walk` checks that this is what compile computes. The
  **refinement mapping** reads registers from the locals while the function runs, and turns
  (stage, position, pending target) into the interpreter's pc pair.
- `SpRegs` - COP0 writes, the DMA row by row, and the callback's comparison.
- `RspDmem` - loads and stores as operators on a memory and a register file, as `rsp.cc` does
  them byte by byte.
- `RspMem` - the interpreter's data side as an **abstract specification**.
- `RspMemBt` - the same in translated code: `Vec*Inline` and `Vec*Call` are the two ways of
  `vecLoad` and `vecStore`; `Leave` and `Enter` are the exit and entry blocks; `Interpret` runs
  `RspMem`'s actions on `rsp_t`. Mapping: the locals inside the function, `rsp_t` outside.
- `RspLane` - one lane of every COP2 operation, as `rsp.cc` computes it, on operands, accumulator
  and flags; the width of a lane is a parameter.
- `RspVec` - eight lanes, vector registers, moves and flags: the interpreter's vector unit as an
  **abstract specification**.
- `RspVecBt` - the IR for it on host integers of a fixed width (`Shl`, `AShr`, `Trunc`, ...
  are LLVM's instructions; `Ir*` what `rspFunc.cc` and `doOp` build out of them), the locals,
  and the entry and exit blocks. Mapping as in `RspMemBt`.
- `R4300Image` - guest code as `r4300cfg.cc` and `r4300bt.cc` read it: decode, straight-line
  runs, jump tables, edges, blocks, and reachability as reference definitions.
- `R4300Cfg` - `discover` and `build` as a state machine: `Run*` are the ways a run of pass one
  ends, `Cut` is pass two. The queues are sets; every order is explored.
- `R4300Isa`, `R4300Core` - instructions, and the simulator's interpreter `execMips` as the
  **abstract specification**. It is not part of the repository: it is modelled as `r4300bt.cc`
  uses it, an instruction at a time, a control instruction with its slot.
- `R4300Bt` - the generated functions (`Jit*`), the host's stack of them, `r4300bt_call`
  (`InterpStep`, `InterpDone`) and the host's loop. It takes its blocks from the reference
  definitions; run `cfg` checks that these are what `build` computes. Mapping: registers from
  the function on top of the stack, or `state_t`; `$31` as it was before an early link.
- `R4300Calls` - what translated code asks of its guest. A history, `calls`, holds the return
  addresses of the guest's open calls, and `Convention` says of the guest's pc, registers and
  open calls, and of nothing else, that it runs no code at 0, returns to where its innermost
  open call was made from with a slot that leaves `$31` alone, and comes to the return
  address of an open call only by that return. The last part is the one that recursion
  breaks: a function that is entered again from the same place before it is left. `kept` says that
  all of this has held so far.
- `MC*` give the constants for TLC; `*Proofs` hold the theorems.

Operators whose comment says "Mutant" are defined beside the operator they vary; no
specification uses them. Each is a plausible slip in that piece of code and breaks the property it is
listed with in `PROJECT.json`.

Abstractions, the same in all modules:
- IMEM addresses count words. One class of instruction, "plain", stands for all that only
  compute and does what `addiu` does; in `RspCore` and `RspBt` data accesses and vector
  instructions belong to it. `mfc0` reads, instruction counts, traces and `rsp_t::pc` (only used
  in messages) are left out.
- A hash is a constant function of the image; what a translation does is determined by the image
  and the dispatch's cases. What a DMA puts into IMEM is a constant function in `RspBt`; that
  a DMA bumps `imem_gen` whenever it touches IMEM is what `SpRegs` shows. The counter has 64 bits
  and a transfer at most 256 rows, so it does not wrap in the program; it is kept modulo `GenMod`,
  above the rows of a transfer, only to have finitely many states. A DMA of several rows is one action in `RspBt` (nothing runs in between).
- RDRAM, in `SpRegs`, reaches one row past `DramSize` so that every transfer stays inside
  what the host allocated.
- In `RspDmem` a vector register is lanes of two bytes; `lsv`, `llv`, `ldv` are one case with a
  size, as in the source. `ltv` with an element beyond 1, which ends the process, takes no step.
  Word values are numbers, base `ByteMod`.
- In `RspLane` the host's bitwise "and" is a parameter about which only what the code needs is
  assumed (`BitAndAssumption`); "or" and "exclusive or" are derived from it. A lane's flags are
  Booleans, as in the source. What other functions than these do (`RSP_DIE`) is in `RspCore`.
- In `R4300Image` addresses count words, and a word is a record of the fields that matter. In
  `R4300Isa` six instructions stand for all that `emitOne` knows ("addiu", "addu", "lui",
  "sltiu", "lw", "sw") and "slow" for those it does not; a branch is taken on inequality;
  the FP file, hi and lo, which translated code leaves in `state_t`, are left out. An address is
  masked into RAM; the bucket of squashed stores is a word of RAM that programs do not address.

## 3. Runs

| Run | Bounds | Shows |
|---|---|---|
| `walk` | 5 words, call strings up to 2, 576 images, 3 root sets | the walk finds exactly what is reachable (`WalkIsReachability`), the dispatch covers the roots (`DispatchIsComplete`), emission gives code to exactly the walked keys (`EmitsWhatItWalked`), the function verifies and `popCtx` succeeds (`CompileSucceeds`), compile returns (`Terminates`) |
| `bt` | 4 images of 8 words, 3 registers, depth 1, 3 tasks, imem_gen modulo 3 | `ImplementsCore`, `RunsCurrentImage`, `StaysInTranslation`, `FreshKnowsRoots`, `RootsAreKept`, `NeverSpins` |
| `sp_regs` | banks of 6 bytes, rows of 2 to 6, up to 3 rows, 3 writes | `ReportsReplacement`, `KeepsToItsBank`, `DeliversEveryRow` |
| `mem` | DMEM of two rows of 4 bytes, IMEM of the same size, 2 vector registers, 2 instructions, every address | `ImplementsCore`, `ImemUntouched`, `UnalignedRoundTrip`, `PackedRoundTrip` |
| `cfg` | 10 words, some 1300 programs, tables of up to 3 entries, with and without hints | `GraphIsReachability`, `EdgesAgreeWithCode`, `BlocksOverlapOnlyInSlots`, `FallsOutOnlyFromSlots`, `OpenJumpsAreReported`, `Terminates` |
| `r4300` | programs of up to 29 words, 5 registers, values modulo 32, 8 words of data | `ImplementsCore`, `ConventionSuffices`, `EarlyLinkIsDead`, `TaskEnds` |
| `vec` | lanes of 2 bits, accumulators of 6, host integers of 8; 4 vector registers; 1024 lanes to start from | `ImplementsCore`, `DoubleAdd`, `ProductChain`, `VsarReadsWholeAccumulator`, `FlagsRoundTrip` |
| `bt_slot` | two images | **violated**: `ImplementsCore`, with a DMA in a delay slot |
| `bt_recompile` | as `bt` | **violated**: `CompilesAreUseful` |
| `bt_collision` | as `bt`, one hash for all | **violated**: `RunsCurrentImage` |
| `r4300_recursion` | one program, as `r4300` | **violated**: `ImplementsCore`, with recursion through an untranslated function |
| `vec_double_subtract` | as `vec` | **violated**: `DoubleSubtract` |

Why the bounds are enough.
- `walk`: the images are all combinations of a few choices per word, among them calls that nest
  past the depth bound, recursion, branches into delay slots, code that wraps at the end of IMEM,
  `jalr`, data, and illegal slots. Depth 2 lets a string be pushed, popped and overflow.
- `bt`: the images page one another in, from the callee of a call and from a dispatcher; one has
  a call too deep for the call string, one words only the interpreter knows. Three tasks are
  what it takes to learn a root, lose the image to another, and come back. `imem_gen` is only
  compared around one transfer of at most two rows, so that modulo 3 is enough. Four tasks were
  run as well.
- `sp_regs`: a row can end before, at and after the end of its bank and of RDRAM, and the
  offset can wrap; two writes set up the addresses, one transfers. Four writes were run as well.
- `mem`: the first instruction makes a register out of date (or memory or a base register
  different), the second takes any path at any of the eight addresses with any element; every byte
  starts out different, so a byte from the wrong place shows. Two rows are what it takes for a
  window to fall off either end. The theorem covers all sizes.
- `cfg`: all combinations of a few words at each of seven addresses, with loops, branches into
  slots, calls to oneself, code that runs on into unmapped memory, and returns through `$31`;
  and a `jr` behind every kind of broken or cut-off table, with observed targets inside
  and outside it.
- `r4300`: loops around a call with every kind of word in the three delay slots, indirect
  calls with right, wrong and no hints, calls two deep whose inner end bails, switches with
  and without a table, branches into slots and into unmapped memory; translated are all
  functions, some, or none. All these guests keep to the convention but those with
  a linking branch that is there for its link only; so `ConventionSuffices` is about guests that call and
  return, and `ImplementsCore` is seen to hold beyond the convention. Values modulo 32 hold every address. The loops run as often as it
  takes for a stale register to show.
- `vec`: with two bits a lane has a sign and one more bit, which is enough for every clamp to
  bite on either side. The starting states go through every accumulator with every value of the
  operands, and through every value of the flags; one instruction is run from each, by both
  sides. The properties about chains put the chain in the formula, from every state.
  An instance with lanes of four bits and sampled states was run as well; the theorems cover
  every even `ByteMod`.

Deadlock is checked in every run; where a behaviour ends (compile returned, the bound of tasks is
used up) a stuttering action says so.

Fairness. `RspWalk` assumes `WF(Next)` and `RspBt` `WF(Translate)`: sequential code runs on as
long as it has a next statement, and so do `R4300Cfg` and `R4300Bt` (`WF(Next)`): `discover`
and the host's loop have nothing to wait for. The host is under no obligation to start a task. The other
specifications have no liveness property and assume nothing.

## 4. Proofs

TLAPS checks these for all values of the constants that satisfy the named assumptions.

- `RspWalkProofs` (with lemmas on `RspImage` in `RspImageProofs`): `WalkInvariant`,
  `WalkTypeCorrect`, `CompileAlwaysSucceeds`, `EmissionMatchesWalk`, `WalkFindsWhatIsReachable`.
  `CompileSucceeds` is not inductive: that every
  block named is a leader depends on what pass 1 left behind. `WalkInv` adds that call strings are
  closed under prefixes (so `popCtx` finds its caller), that leaders are walked or pending, that
  walked keys have their successors among the leaders, that roots are seeded, and that emission
  stays inside that set. For `EmitsWhatItWalked`, `EmitInv` adds the other direction:
  `WalkedFromLeaders` says that what was walked lies in every set that holds the leaders and is
  closed under straight-line successors, and the keys emitted so far, with what is left of
  the block in hand and the leaders to come, are such a set. `WalkFindsWhatIsReachable` says that
  the walk ends with the *least* set that holds the roots and is closed (`ReachClosed`).
  `ReachKeysIs` says that the recursive function `ReachKeys` is that set too: a definition
  "f = CHOOSE f : f satisfies its equation" is worth something only if there is such an f, so the
  lemmas before it exhibit one (the least fixed point above the argument) and show that there is
  no other: two that differ would differ at a set from which a step leads to a larger one
  where they differ, for ever, and the keys are finitely many. From the two follow
  `WalkComputesReachability` and `DispatchHasEveryRoot`.
- `RspImageProofs` also justifies the summary by which `RspBt` uses the walk:
  `CasesReachOnlyCode` (from the cases of a dispatch nothing is reached that the compilation which
  made them did not emit) and `RecompilingChangesNothing` (compiling with the roots a compilation
  left makes the same dispatch).
- `RspBtProofs`: `BtTypeCorrect`, `FreshTranslationsKnowTheirRoots` and
  `RootsAreNeverForgotten` (which needs nothing of the hash) from `BaseInv`
  (types and what each stage knows); `ControlStaysInTranslation`, which adds to `BaseInv` only
  the closure of `ReachKeys` (a `jr` or an entry goes to a case, a return to the caller's string, any
  other word to its successors), and needs nothing of the hash either; `TranslationIsCurrent` from `ImageInv` (a cache entry's code
  was made from the image it is filed under), assuming no hash collision; and
  `TranslatorImplementsInterpreter`: each step of the translator is a step of the interpreter or a
  stutter under the mapping above, assuming no collision and no DMA from a delay slot. Runs
  `bt_collision` and `bt_slot` show that neither assumption can go.
- `SpRegsProofs`: `SpTypeCorrect`; `DmaKeepsToItsBank`; `ReplacementIsReported`, whose
  invariant `Announced` says that while a transfer is under way the generation is ahead by the rows
  done, fewer than `GenMod` (2^64 in the program); and
  `EveryRowIsDelivered`. `DeliversEveryRow` speaks of the end of a transfer only; its invariant
  `Delivered` speaks of the rows done so far: as long as nothing wraps, they are where they belong and
  the offsets are products of the row number. `RowPlace` and `RowsApart` are the arithmetic
  (no row wraps, and a later row does not overwrite an earlier one). TLC checked
  `Announced` and `Delivered` on the instance of run `sp_regs` first.
- `RspMemProofs`: `MemTypeCorrect`, `StoresLeaveImemAlone`, `AccessesImplementInterpreter`. In
  three parts: an access that `fitsInDmem` admits, or a window that `vecLoad` and `vecStore` admit, does
  not wrap, so consecutive host bytes are the interpreter's bytes (arithmetic of remainders);
  the bitcast and swap of pairs are `vbyte` and `set_vbyte`; `lwc2` and `swc2` read only
  the base and `vt`, which are what the slow path stores. `TypeOK` is inductive.
  `UnalignedRegistersSurvive` and `PackedBytesSurvive` are about pairs of instructions: `sqv` and
  `srv` write two runs of bytes that together are one of a whole register (`StoredWhole`), `lqv`
  and `lrv` read it back (`LoadedWhole`); offsets from an address modulo the size of DMEM
  are inverse to adding them (`OffsetThere`, `OffsetBack`); a packed byte is unpacked to itself.

- `RspVecProofs`: `VecTypeCorrect`; `VectorUnitImplementsInterpreter`, for every width of a
  lane; and that the sequences work: `VsarReadsAll`, `VaddcThenVaddAdds`, `FourProductsMultiply`, `FlagsSurvive`. For the last,
  `cfc2` leaves in a register the sum of the binary digits of the flags, sign-extended; the
  extension disappears modulo 2^16 because `GprMod` (2^32) is a multiple of it, and halving gets the
  digits back one by one (`BinaryDigits`), with no induction since there are sixteen.
  Arithmetic on host integers modulo `LaneMod`^4 is compared with arithmetic on numbers: a lemma
  for each IR instruction says within which bounds it is exact; then one lemma per operation. The
  inductive invariant is the type invariant, which says that what the locals hold is the
  pattern of a sign-extended accumulator: without it `AShr` and the clamps would differ from `rsp.cc`.
- `R4300CfgProofs`: `CfgTypeCorrect`; `EdgesAreThoseOfTheCode`, `BlocksAreDisjoint`,
  `FallingOutIsForeseen`, `OpenJumpsAreKnown`, for every program. `Recorded` says what pass one
  knows: each run walked that ends in a control instruction has it in `terms`, and `edges` has
  exactly the successors of those, under the address past the slot. That a run does not pass a
  control instruction (`RunEndIs`, from the least element of a set of naturals) does the
  rest: `CutBlockIs` lists the three ways a block can end. `DiscoveryIsReachability` states that
  functions and blocks are the least closed sets; its invariant `LeastInv` carries
  "inside every closed set" through both queues. `GraphsAreThoseOfTheReference` compares with the
  recursive definitions (`ReachLeaders`, `ReachFuncs`), which are least closed sets by the argument
  given for `ReachKeys`, and adds the ends of blocks: an address past a control instruction cuts a
  block only if some run that was walked ends there (the last conjunct of `Recorded`).
- `R4300BtProofs`: `R4300TypeCorrect`; `ConventionGivesRefinement`, `ReturnsAreTheGuests` and
  `EarlyLinksAreDead`, for every program, every choice of translated functions and every guest
  that keeps to the convention; `GuestDivergesFirst`, for every guest whatever it does: until the
  convention is broken, by the guest, each step is one of the interpreter or none. The only
  other hypothesis is that no `jalr` jumps through `$31`, the register it links
  (`JalrReadsNoLink`). Two invariants. `EarlyInv` says where the guest's
  registers may differ from those of the function on top of the stack: only in `$31`, only
  before a call whose slot has no code, and the value from before is in `early`. `LinksInv`
  relates the host's stack to the guest's calls, which nothing in the program does: the host
  functions that wait are the innermost open calls of the guest, in order (`JitLinks`); while
  `r4300bt_call` interprets, more calls may be open above them, or the call it was made for has
  just returned (`InterpLinks`). When it stops, at `pc == link`, the first of the two would put
  the pc at the return address of an open call, which is what the convention rules out; so the
  call has returned and the stacks agree again. `TranslatedCodeImplementsInterpreter` is the
  refinement on the hypothesis that these facts are used for, `ReturnsFollowGuest`, in place of
  the convention. Run `r4300_recursion` shows a guest that breaks the convention, and with it the
  refinement.

Assumptions on constants are named in the modules that declare them and evaluated by TLC
(`LaneAssumption`, `DmemAssumption`: whole rows; `ByteAssumption`: an even number of byte values,
needed by `luv`; and so on).

`WalkDescends` and `DiscoveryDescends` are what can be proved of termination: every step of compile,
and of discover and build, that changes anything decreases a measure, a tuple of numbers in
lexicographic order. For compile these are the pass, the addresses that are no roots, whether a
round is asked for, the keys not walked, the keys that are no leaders, the stack, the stage of the
round, the keys without code and the leaders to emit; that emission meets no key twice
(`EmittedSoFar`) is needed for the last but one. For discovery they are the functions not built, the
phase, the leaders not seen, the queue and the leaders to cut, all among the finitely many
addresses that the program names (`NamedInv`), given a finite list of roots (`RootsAssumption`).
`NoEndlessDescent` proves that the order has no endless descent. What is left of `Terminates` to
TLC is that compile and discover do not stop before they are done.

Only model-checked: all liveness (`Terminates` twice, `NeverSpins`, `TaskEnds`), which is out of the
prover's reach; for `Terminates` the two measures are proved. Every invariant
and every action property or refinement that a passing run checks is stated by a theorem, for all
values of the constants.

## 5. Findings

- `bt_slot`: `insn_mtc0` leaves for `addr + 4` when IMEM was replaced (`rspInstruction.cc:211`), also
  when it stands in the slot of a jump that is taken; the jump is lost. The interpreter goes on at
  its target.
- `bt_recompile`: a root that does not translate is pruned by compile and inserted again by the next
  task that starts there, which marks the image stale: it is recompiled, to the same result, every time.
- `bt_collision`: two images with one hash: `imem` is overwritten and `fn` kept.

- `r4300_recursion`: `r4300bt_call` stops at the first `pc == link` (`r4300bt.cc:46`), also when it is the return
  of an inner call from the same place, made by a function that the callee called back. "Bails
  compose" (`DESIGN_R4300.md:241-245`) needs that no function recurs through one that is not
  translated.
- `vec_double_subtract`: `vsubc` (`rsp.cc:371`) takes its borrow from the signed lanes; a
  double-precision difference then is off by one in the high half wherever the signs of the low
  halves differ. The translator does not emit `vsubc`, so both sides agree.

Noticed on the way, without a run: `rspFunc.hh:86` says `pushCtx` keeps the context when too deep,
`rspFunc.cc:302` returns context 0 (`RspImage` models the code); a `jr` that misses inside a call
context is not cured by the root learned from it, since only context 0 dispatches over roots (slow,
never wrong, as `rspFunc.cc:354` says); `rsp.cc:69-70` describes halt bits that
`apply_status_write` does not act on.

On the R4300 side, also without a run. `DESIGN_R4300.md` says that anything unresolved leaves
through the interpreter, but a leader in unreadable memory gets a block without instructions,
which in translated code branches to itself (`r4300cfg.cc:268`, `r4300bt.cc:555, 674-676`; in the
model: `Spins`). A `jr` whose table could be read only in part keeps those targets and is not marked
`unresolved`, though `problems` has it (`OpenJumpsAreReported` says exactly that). A trap in
a delay slot that is branched to is given the branch's successors, though
`r4300cfg.cc:156-158` says a trap has none (`EdgesAgreeWithCode` allows it; nothing uses them).
What follows a slot entered by a branch is walked but in no block. `n_traps`
counts runs, not sites. A linking branch leaves `leaf` true and its target a block of
the caller. The tail call for `j` (`r4300bt.cc:618-623`) is never emitted, since the target of a
`j` is always a block. A bail at address 0 would be taken for a return
(`ReturnsFollowGuest` rules out the guest that does it).
`set_vflags` for a register beyond 2 changes VCE and half of VCC.

## 6. Plan

Built, in order of importance: the walk, the translator against the interpreter, DMA,
memory accesses; then the vector unit, R4300 graphs, R4300 translator. Left:

1. Proofs: a check of the guest's code, made without running it, from which the convention of
   `R4300Calls` follows.
2. The instructions of `emitOne` one by one. There is no second definition of them in the
   repository to compare with: the interpreter is the simulator's.

Not modelled: LLVM's own pipeline and the IR's text (a third-party library, no state of the
program's own); the tests' harness, `write_dot` and `report` (output); the runaway guards
(2^40 and 2^32 instructions, bare counters no other state depends on); in `RspCore`, `mfc0`
and the trace; in `R4300Bt`, the FP file, hi and lo and the arithmetic of single
instructions.
