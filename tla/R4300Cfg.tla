------------------------------ MODULE R4300Cfg ------------------------------
(***************************************************************************)
(* r4300_cfg::discover and r4300_cfg::build: from a set of roots, the      *)
(* functions of the program, and for each its basic blocks and the edges   *)
(* between them.                                                           *)
(*                                                                         *)
(* build walks straight-line runs from a queue of leaders (pass one) and   *)
(* then cuts the code at the leaders and ends it has found (pass two).     *)
(* The queues are sets here, taken from in any order.  The counters that   *)
(* only report prints are left out.                                        *)
(***************************************************************************)
EXTENDS R4300Image

\* discover is given its roots in a vector.
ASSUME RootsAssumption == \A p \in Programs : IsFiniteSet(p.roots)

VARIABLES
    prog,       \* what read answers, the hints and the roots
    phase,      \* where discover stands
    fwork,      \* discover's queue
    funcs,      \* r4300_cfg::funcs
    problems,   \* r4300_cfg::problems
    fn,         \* the func being built
    work, seen, leaders, ends, terms,
    edges,      \* from the address past a delay slot, where control goes
    todo        \* the leaders pass two has still to cut at

walkVars == << work, seen, leaders, ends, terms, edges >>
vars == << prog, phase, fwork, funcs, problems, fn, walkVars, todo >>

Phases == {"discover", "walk", "cut", "done"}
EndKinds == {"fall", "trap", "branch", "likely", "jump", "call", "jalr", "return", "indirect"}
Problems == {"unmapped", "jalr unknown", "jr unresolved", "jr outside its table"}

Block == [end : Addr, ends : EndKinds, succs : Seq(Addr), unresolved : BOOLEAN]
IsPartial(f) == DOMAIN f \subseteq Addr
Func(x) ==
    /\ DOMAIN x = {"entry", "leaf", "calls", "indirect_sites", "blocks"}
    /\ x.entry \in Addr /\ x.leaf \in BOOLEAN
    /\ x.calls \subseteq Addr /\ x.indirect_sites \subseteq Addr
    /\ IsPartial(x.blocks) /\ \A a \in DOMAIN x.blocks : x.blocks[a] \in Block

NewFunc(f) == [entry |-> f, leaf |-> TRUE, calls |-> {}, indirect_sites |-> {},
               blocks |-> << >>]

TypeOK ==
    /\ Program(prog)
    /\ phase \in Phases
    /\ fwork \subseteq Addr
    /\ IsPartial(funcs) /\ \A f \in DOMAIN funcs : Func(funcs[f])
    /\ problems \subseteq Addr \X Problems
    /\ Func(fn)
    /\ work \subseteq Addr /\ seen \subseteq Addr
    /\ leaders \subseteq Addr /\ ends \subseteq Addr /\ terms \subseteq Addr
    /\ IsPartial(edges) /\ \A a \in DOMAIN edges : edges[a] \in Seq(Addr)
    /\ todo \subseteq Addr

Init ==
    /\ prog \in Programs
    /\ phase = "discover"
    /\ fwork = prog.roots
    /\ funcs = << >>
    /\ problems = {}
    /\ fn = NewFunc(0)
    /\ work = {} /\ seen = {} /\ leaders = {} /\ ends = {} /\ terms = {}
    /\ edges = << >>
    /\ todo = {}

-----------------------------------------------------------------------------
(* discover. *)

\* Mutant: a function that has been built is built again.
NewFunctionAlways(f) == TRUE

NewFunction(f) == f \notin DOMAIN funcs

\* A function that is queued twice is built once: the queue is a set.
BuildFunc ==
    /\ phase = "discover"
    /\ \E f \in fwork :
         /\ NewFunction(f)
         /\ fwork' = fwork \ {f}
         /\ fn' = NewFunc(f)
         /\ work' = {f} /\ leaders' = {f}
    /\ seen' = {} /\ ends' = {} /\ terms' = {}
    /\ edges' = << >>
    /\ phase' = "walk"
    /\ UNCHANGED << prog, funcs, problems, todo >>

Discovered ==
    /\ phase = "discover" /\ fwork = {}
    /\ phase' = "done"
    /\ UNCHANGED << prog, fwork, funcs, problems, fn, walkVars, todo >>

-----------------------------------------------------------------------------
(* build, pass one: a run starts at pc and stops at RunEnd(prog, pc).      *)

PopSeen ==
    /\ phase = "walk"
    /\ \E pc \in work \cap seen : work' = work \ {pc}
    /\ UNCHANGED << prog, phase, fwork, funcs, problems, fn, seen, leaders, ends, terms,
                    edges, todo >>

Walking(pc) == phase = "walk" /\ pc \in work \ seen
StaysInBuild == UNCHANGED << prog, phase, fwork, funcs, todo >>

RunUnmapped ==
    /\ \E pc \in work \ seen : \E q \in {RunEnd(prog, pc)} :
         /\ Walking(pc) /\ ~Readable(prog, q)
         /\ work' = work \ {pc} /\ seen' = seen \cup {pc}
         /\ problems' = problems \cup {<< q, "unmapped" >>}
         /\ ends' = ends \cup {q}
    /\ StaysInBuild /\ UNCHANGED << fn, leaders, terms, edges >>

\* No delay slot, hence no boundary past it.
RunTrap ==
    /\ \E pc \in work :
         /\ Walking(pc) /\ Trap(prog, RunEnd(prog, pc))
         /\ work' = work \ {pc} /\ seen' = seen \cup {pc}
    /\ StaysInBuild /\ UNCHANGED << problems, fn, leaders, ends, terms, edges >>

\* Mutant: a terminator another run has handled is handled again.
NewTerminatorAlways(q) == TRUE

NewTerminator(q) == q \notin terms

\* The run meets a terminator another run has handled.
RunKnown ==
    /\ \E pc \in work \ seen : \E q \in {RunEnd(prog, pc)} :
         /\ Walking(pc) /\ Control(prog, q) /\ ~NewTerminator(q)
         /\ work' = work \ {pc} /\ seen' = seen \cup {pc}
    /\ StaysInBuild /\ UNCHANGED << problems, fn, leaders, ends, terms, edges >>

\* A std::map after m[x] = y.
Put(m, x, y) == [a \in DOMAIN m \cup {x} |-> IF a = x THEN y ELSE m[a]]

EdgesFrom(a) == IF a \in DOMAIN edges THEN edges[a] ELSE << >>

\* The run from pc ends at q, a control instruction not met before: its edges are
\* recorded, and their targets become leaders to walk from.
Terminate(pc, q) ==
    LET succs == Succs(prog, q)
        after == After(q)
    IN  /\ NewTerminator(q)
        /\ seen' = seen \cup {pc}
        /\ terms' = terms \cup {q}
        /\ ends' = ends \cup {after}
        /\ edges' = Put(edges, after, EdgesFrom(after) \o succs)
        /\ leaders' = leaders \cup ToSet(succs)
        /\ work' = (work \ {pc}) \cup ToSet(succs)

RunBranch ==
    /\ \E pc \in work \ seen : \E q \in {RunEnd(prog, pc)} :
         /\ Walking(pc) /\ Control(prog, q)
         /\ Decode(prog.mem[q]) \in {"branch", "likely", "jump"}
         /\ Terminate(pc, q)
    /\ StaysInBuild /\ UNCHANGED << problems, fn >>

\* Mutant: an indirect call whose targets are known is not followed.
CalledFromCallsOnly(q) == IF Decode(prog.mem[q]) = "jalr" THEN {} ELSE CallsAt(prog, q)

CalledFrom(q) == CallsAt(prog, q)

RunCall ==
    /\ \E pc \in work \ seen : \E q \in {RunEnd(prog, pc)} :
         /\ Walking(pc) /\ Control(prog, q)
         /\ Decode(prog.mem[q]) = "call"
         /\ Terminate(pc, q)
         /\ fn' = [fn EXCEPT !.leaf = FALSE, !.calls = @ \cup CalledFrom(q)]
    /\ StaysInBuild /\ UNCHANGED problems

RunIndirectCall ==
    /\ \E pc \in work \ seen : \E q \in {RunEnd(prog, pc)} :
         /\ Walking(pc) /\ Control(prog, q)
         /\ Decode(prog.mem[q]) = "jalr"
         /\ Terminate(pc, q)
         /\ fn' = [fn EXCEPT !.leaf = FALSE, !.calls = @ \cup CalledFrom(q),
                             !.indirect_sites = @ \cup {q}]
         /\ problems' = problems \cup
              (IF q \in DOMAIN prog.hints THEN {} ELSE {<< q, "jalr unknown" >>})
    /\ StaysInBuild

IsReturn(q) == prog.mem[q].s = Ra

RunReturn ==
    /\ \E pc \in work \ seen : \E q \in {RunEnd(prog, pc)} :
         /\ Walking(pc) /\ Control(prog, q)
         /\ Decode(prog.mem[q]) = "jr" /\ IsReturn(q)
         /\ Terminate(pc, q)
    /\ StaysInBuild /\ UNCHANGED << problems, fn >>

\* Mutant: a table of which something could be read counts as read.
TableProblemsQuiet(q) ==
    IF JumpTable(prog, q).out # << >> \/ q \in DOMAIN prog.hints
    THEN {} ELSE {<< q, "jr unresolved" >>}

\* Observed targets check a table that was read; without either the jump stays open.
TableProblems(q) ==
    LET table == JumpTable(prog, q)
        hinted == q \in DOMAIN prog.hints
    IN  IF table.ok
        THEN IF hinted /\ ~(prog.hints[q] \subseteq ToSet(table.out))
             THEN {<< q, "jr outside its table" >>} ELSE {}
        ELSE IF hinted THEN {} ELSE {<< q, "jr unresolved" >>}

RunTable ==
    /\ \E pc \in work \ seen : \E q \in {RunEnd(prog, pc)} :
         /\ Walking(pc) /\ Control(prog, q)
         /\ Decode(prog.mem[q]) = "jr" /\ ~IsReturn(q)
         /\ Terminate(pc, q)
         /\ problems' = problems \cup TableProblems(q)
    /\ StaysInBuild /\ UNCHANGED fn

Walked ==
    /\ phase = "walk" /\ work = {}
    /\ phase' = "cut"
    /\ todo' = leaders \cap seen
    /\ UNCHANGED << prog, fwork, funcs, problems, fn, walkVars >>

-----------------------------------------------------------------------------
(* build, pass two. *)

\* Mutants: leaders do not end the blocks before them; terminators do.
BoundsEnds == ends
BoundsTerms == leaders \cup ends \cup terms

BlockBounds == leaders \cup ends

\* Mutant: returns are not told from the other indirect jumps.
EndKindRaw(q) == Decode(prog.mem[q])

EndKind(q) ==
    LET k == Decode(prog.mem[q])
    IN IF k = "jr" THEN (IF IsReturn(q) THEN "return" ELSE "indirect") ELSE k

\* The block from start that stops at q.
CutBlock(start, q) ==
    LET end == PastTerminator(prog, q)
        kind == EndKind(q)
        succs == EdgesFrom(end)
    IN  IF CutShort(prog, BlockBounds, start, q)
        THEN [end |-> q, ends |-> "fall", succs |-> << q >>, unresolved |-> FALSE]
        ELSE [end |-> end, ends |-> kind, succs |-> succs,
              unresolved |-> \/ kind = "jalr" /\ q \notin DOMAIN prog.hints
                             \/ kind = "indirect" /\ succs = << >>]

Cut ==
    /\ phase = "cut"
    /\ \E start \in todo : \E q \in {BlockStop(prog, BlockBounds, start)} :
         /\ todo' = todo \ {start}
         /\ fn' = [fn EXCEPT !.blocks = Put(@, start, CutBlock(start, q))]
    /\ UNCHANGED << prog, phase, fwork, funcs, problems, walkVars >>

\* The function is stored, and discover goes on with what it calls.
Built ==
    /\ phase = "cut" /\ todo = {}
    /\ funcs' = Put(funcs, fn.entry, fn)
    /\ fwork' = fwork \cup {f \in fn.calls : NewFunction(f) /\ f # fn.entry}
    /\ phase' = "discover"
    /\ UNCHANGED << prog, problems, fn, walkVars, todo >>

Done == phase = "done" /\ UNCHANGED vars

Next ==
    \/ BuildFunc \/ Discovered
    \/ PopSeen \/ RunUnmapped \/ RunTrap \/ RunKnown
    \/ RunBranch \/ RunCall \/ RunIndirectCall \/ RunReturn \/ RunTable
    \/ Walked \/ Cut \/ Built \/ Done

Spec == Init /\ [][Next]_vars
FairSpec == Spec /\ WF_vars(Next)

-----------------------------------------------------------------------------
(* Properties.  The graph of a function is complete once it is in funcs.   *)

Blocks(f) == funcs[f].blocks
IsControlEnd(b) == b.ends \notin {"fall", "trap"}

\* discover finds every function the roots reach through known call targets and
\* nothing else, and build makes exactly the blocks its entry reaches, as translate
\* is given them in R4300Bt: neither depends on the order of the two queues
\* (r4300cfg.cc:331-343, 135-250).
GraphIsReachability ==
    phase = "done" =>
        /\ DOMAIN funcs = ReachFuncs(prog)
        /\ \A f \in DOMAIN funcs :
             [a \in DOMAIN Blocks(f) |-> Blocks(f)[a].end] = BlockEnds(prog, f)

\* What pass two looks up for a block is what pass one recorded for its
\* terminator, once and in order, however many runs met that terminator; and
\* each of those edges leads to a block.  A trap has no successors, except that a
\* trap in a delay slot, branched to, is given those of the branch before it
\* (r4300cfg.cc:162-168, 312-317).
EdgesAgreeWithCode ==
    \A f \in DOMAIN funcs : \A a \in DOMAIN Blocks(f) :
        LET b == Blocks(f)[a]
        IN  /\ IsControlEnd(b) => /\ b.succs = Succs(prog, b.end - 2)
                                  /\ ToSet(b.succs) \subseteq DOMAIN Blocks(f)
            /\ b.ends = "trap" /\ b.succs # << >> =>
                 a = b.end - 1 /\ Control(prog, a - 1)

\* No instruction is in two blocks, unless it is a delay slot that is also
\* branched to: a leader inside a block is the last word of one that ends in a
\* control instruction (r4300cfg.cc:278-307).
BlocksOverlapOnlyInSlots ==
    \A f \in DOMAIN funcs : \A a, c \in DOMAIN Blocks(f) :
        LET b == Blocks(f)[a]
        IN  a < c /\ c < b.end => IsControlEnd(b) /\ c = b.end - 1

\* A block runs on into the next block, with two exceptions: what follows cannot
\* be read, or the block is the delay slot of a jump or return, branched to.  It
\* runs on into itself only where nothing can be read (r4300cfg.cc:258-320).
FallsOutOnlyFromSlots ==
    \A f \in DOMAIN funcs : \A a \in DOMAIN Blocks(f) :
        LET b == Blocks(f)[a]
        IN  b.ends = "fall" =>
              /\ \/ b.end \in DOMAIN Blocks(f)
                 \/ ~Readable(prog, b.end)
                 \/ /\ a = b.end - 1
                    /\ Control(prog, a - 1)
                    /\ Decode(prog.mem[a - 1]) \in {"jump", "jr"}
              /\ b.end = a <=> ~Readable(prog, a)

\* No indirect jump is left open in silence: where a block has neither the whole
\* of its table nor the observed targets, problems has an entry, and the block is
\* marked unless part of a table was read (r4300cfg.cc:213-244, 321-323).
OpenJumpsAreReported ==
    \A f \in DOMAIN funcs : \A a \in DOMAIN Blocks(f) :
        LET b == Blocks(f)[a]
            q == b.end - 2
            open == q \notin DOMAIN prog.hints /\ ~JumpTable(prog, q).ok
        IN  b.ends = "indirect" /\ open =>
              /\ << q, "jr unresolved" >> \in problems
              /\ b.unresolved \/ b.succs # << >>

\* discover returns: recursion, loops and code that runs on into unmapped memory
\* do not keep it going.
Terminates == <>(phase = "done")

=============================================================================
