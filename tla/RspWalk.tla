------------------------------- MODULE RspWalk -------------------------------
(***************************************************************************)
(* rspbt::impl::compile: the static walk that finds every reachable        *)
(* instruction and block leader of an image (pass 1), the pruning of       *)
(* roots that turned out to be data, and the emission of one block per     *)
(* leader (pass 2), up to the verification of the function.                *)
(*                                                                         *)
(* The stack `work` and the ordered set of leaders are sets here, taken    *)
(* from in any order: what is shown does not depend on the order.          *)
(***************************************************************************)
EXTENDS RspImage

CONSTANT RootSets    \* the contents img.roots may have when compile is called

ASSUME RootSetsAssumption == RootSets \subseteq SUBSET Addr

VARIABLES
    img,            \* the image being translated
    asked,          \* image_t::roots when compile was called
    roots,          \* image_t::roots
    rootsChanged,
    leaders, walked, work,
    contexts,       \* the call strings with a number (rspFunc::contexts)
    phase,          \* where compile stands
    at,             \* the key (a, cx) the scan or the emission is at
    dispatch,       \* rspFunc::roots, fixed between the two passes
    blocks,         \* the blocks blockFor has created
    todo,           \* the leaders pass 2 has still to emit
    emitted         \* the keys that have been given code

walkVars == << rootsChanged, leaders, walked, work >>
emitVars == << dispatch, blocks, todo, emitted >>
vars == << img, asked, roots, walkVars, contexts, phase, at, emitVars >>

Phases == {"seed", "pop", "scan", "entry", "emit", "block",
           "done", "rejected", "threw"}

TypeOK ==
    /\ img \in Images
    /\ asked \subseteq Addr
    /\ roots \subseteq Addr
    /\ rootsChanged \in BOOLEAN
    /\ leaders \subseteq Keys
    /\ walked \subseteq Keys
    /\ work \subseteq Keys
    /\ contexts \subseteq CallStrings
    /\ phase \in Phases
    /\ at \in Keys
    /\ dispatch \subseteq Addr
    /\ blocks \subseteq Keys
    /\ todo \subseteq Keys
    /\ emitted \subseteq Keys

Init ==
    /\ img \in Images
    /\ asked \in RootSets
    /\ roots = asked
    /\ rootsChanged = TRUE
    /\ leaders = {} /\ walked = {} /\ work = {}
    /\ contexts = {NoContext}
    /\ phase = "seed"
    /\ at = << 0, NoContext >>
    /\ dispatch = {} /\ blocks = {} /\ todo = {} /\ emitted = {}

-----------------------------------------------------------------------------
(* Pass 1: the walk. *)

\* Mutant: the flag is not cleared at the start of a round.
SeedRootsForever ==
    /\ phase = "seed"
    /\ leaders' = leaders \cup InContext0(roots)
    /\ work' = work \cup (InContext0(roots) \ leaders)
    /\ phase' = "pop"
    /\ UNCHANGED << img, asked, roots, rootsChanged, walked, contexts, at, emitVars >>

SeedRoots ==
    /\ phase = "seed"
    /\ rootsChanged' = FALSE
    /\ leaders' = leaders \cup InContext0(roots)
    /\ work' = work \cup (InContext0(roots) \ leaders)
    /\ phase' = "pop"
    /\ UNCHANGED << img, asked, roots, walked, contexts, at, emitVars >>

PopWork ==
    /\ phase = "pop"
    /\ \E k \in work : at' = k /\ work' = work \ {k}
    /\ phase' = "scan"
    /\ UNCHANGED << img, asked, roots, rootsChanged, leaders, walked, contexts, emitVars >>

\* jalr found a new root: walk from it too.
Reseed ==
    /\ phase = "pop" /\ work = {} /\ rootsChanged
    /\ phase' = "seed"
    /\ UNCHANGED << img, asked, roots, walkVars, contexts, at, emitVars >>

\* Fell into code already seen.
ScanJoin ==
    /\ phase = "scan" /\ at \in walked
    /\ leaders' = leaders \cup {at}
    /\ phase' = "pop"
    /\ UNCHANGED << img, asked, roots, rootsChanged, walked, work, contexts, at, emitVars >>

ScanStop ==
    /\ phase = "scan" /\ at \notin walked
    /\ ~Translatable(img, at[1]) \/ IsBreak(img[at[1]])
    /\ walked' = walked \cup {at}
    /\ phase' = "pop"
    /\ UNCHANGED << img, asked, roots, rootsChanged, leaders, work, contexts, at, emitVars >>

ScanPlain ==
    /\ phase = "scan" /\ at \notin walked
    /\ Plain(img, at[1])
    /\ walked' = walked \cup {at}
    /\ at' = << NextAddr(at[1]), at[2] >>
    /\ UNCHANGED << img, asked, roots, rootsChanged, leaders, work, contexts, phase, emitVars >>

\* pushCtx numbers a call string it has not met.
ContextsAfter(a, cs) ==
    contexts \cup (IF IsCall(img[a]) THEN {PushCtx(cs, Link(a))} ELSE {})

\* popCtx throws when the caller's string has no number.
PopFails(a, cs) ==
    IsIndirect(img[a]) /\ cs # NoContext /\ PopCtx(cs) \notin contexts

\* The address a jalr returns to becomes a root, and a new root asks for another
\* round.
LinkRoots(a) == IF MakesLinkRoot(img[a]) THEN {Link(a)} ELSE {}

\* Mutant: the new root is recorded and the round not asked for.
NoOtherRound(a) == rootsChanged

AnotherRound(a) == rootsChanged \/ ~(LinkRoots(a) \subseteq roots)

ScanControl ==
    /\ phase = "scan" /\ at \notin walked
    /\ Control(img, at[1])
    /\ walked' = walked \cup {at}
    /\ contexts' = ContextsAfter(at[1], at[2])
    /\ IF PopFails(at[1], at[2])
         THEN phase' = "threw" /\ UNCHANGED << roots, rootsChanged, leaders, work >>
         ELSE LET succ == WalkSuccs(img, at[1], at[2])
              IN  /\ roots' = roots \cup LinkRoots(at[1])
                  /\ rootsChanged' = AnotherRound(at[1])
                  /\ leaders' = leaders \cup succ
                  /\ work' = work \cup (succ \ leaders)
                  /\ phase' = "pop"
    /\ UNCHANGED << img, asked, at, emitVars >>

\* Mutant: roots that are data stay.
LegalRootsAll == roots

\* A root that turned out to be data is not a legal target after all.
LegalRoots == {r \in roots : Translatable(img, r)}

PruneRoots ==
    /\ phase = "pop" /\ work = {} /\ ~rootsChanged
    /\ roots' = LegalRoots
    /\ dispatch' = roots'
    /\ phase' = "entry"
    /\ UNCHANGED << img, asked, walkVars, contexts, at, blocks, todo, emitted >>

-----------------------------------------------------------------------------
(* Pass 2: the function. *)

\* The entry block dispatches on the start address like a jr in context 0.
EmitEntry ==
    /\ phase = "entry"
    /\ blocks' = IndirectTargets(NoContext, dispatch)
    /\ todo' = leaders
    /\ phase' = "emit"
    /\ UNCHANGED << img, asked, roots, walkVars, contexts, at, dispatch, emitted >>

EmitLeader ==
    /\ phase = "emit"
    /\ \E k \in todo : /\ at' = k
                       /\ todo' = todo \ {k}
                       /\ blocks' = blocks \cup {k}
    /\ phase' = "block"
    /\ UNCHANGED << img, asked, roots, walkVars, contexts, dispatch, emitted >>

\* exitToInterp or exitHalted ends the block.
EmitExit ==
    /\ phase = "block"
    /\ ~Translatable(img, at[1]) \/ IsBreak(img[at[1]])
    /\ emitted' = emitted \cup {at}
    /\ phase' = "emit"
    /\ UNCHANGED << img, asked, roots, walkVars, contexts, at, dispatch, blocks, todo >>

\* Mutant: emission runs through the leaders it meets.
EndsBlockNever(k) == FALSE

EndsBlock(k) == k \in leaders

EmitPlain ==
    /\ phase = "block"
    /\ Plain(img, at[1])
    /\ emitted' = emitted \cup {at}
    /\ LET next == << NextAddr(at[1]), at[2] >>
       IN  IF EndsBlock(next)
             THEN blocks' = blocks \cup {next} /\ phase' = "emit" /\ UNCHANGED at
             ELSE at' = next /\ UNCHANGED << blocks, phase >>
    /\ UNCHANGED << img, asked, roots, walkVars, contexts, dispatch, todo >>

EmitControl ==
    /\ phase = "block"
    /\ Control(img, at[1])
    /\ emitted' = emitted \cup {at}
    /\ contexts' = ContextsAfter(at[1], at[2])
    /\ IF PopFails(at[1], at[2])
         THEN phase' = "threw" /\ UNCHANGED blocks
         ELSE /\ blocks' = blocks \cup EmitTargets(img, at[1], at[2], dispatch)
              /\ phase' = "emit"
    /\ UNCHANGED << img, asked, roots, walkVars, at, dispatch, todo >>

\* A block without a terminator does not verify: compile exits the process.
Verify ==
    /\ phase = "emit" /\ todo = {}
    /\ phase' = IF blocks \subseteq leaders THEN "done" ELSE "rejected"
    /\ UNCHANGED << img, asked, roots, walkVars, contexts, at, emitVars >>

Finished ==
    /\ phase \in {"done", "rejected", "threw"}
    /\ UNCHANGED vars

Next ==
    \/ SeedRoots \/ PopWork \/ Reseed
    \/ ScanJoin \/ ScanStop \/ ScanPlain \/ ScanControl
    \/ PruneRoots
    \/ EmitEntry \/ EmitLeader \/ EmitExit \/ EmitPlain \/ EmitControl
    \/ Verify \/ Finished

Spec == Init /\ [][Next]_vars
FairSpec == Spec /\ WF_vars(Next)

-----------------------------------------------------------------------------
(* The inductive invariant behind CompileSucceeds. *)

\* Every call string in use has a number, and so has its caller's.
ContextsClosed ==
    /\ NoContext \in contexts
    /\ \A cs \in contexts : cs # NoContext => PopCtx(cs) \in contexts
    /\ \A k \in leaders \cup walked \cup {at} : k[2] \in contexts

\* A leader is walked, waiting on the stack, or being scanned from.
LeadersPending ==
    /\ work \subseteq leaders
    /\ \A k \in leaders : k \in walked \/ k \in work \/ (phase = "scan" /\ k = at)

\* What follows a walked key is walked or a leader, except for the one plain
\* instruction the scan is about to look at.
Follows(k) ==
    /\ Plain(img, k[1]) => LET next == << NextAddr(k[1]), k[2] >>
                           IN  next \in walked \/ (phase = "scan" /\ at = next)
    /\ Control(img, k[1]) => WalkSuccs(img, k[1], k[2]) \subseteq leaders
WalkedClosed == \A k \in walked : Follows(k)

\* A round of the walk starts from every root.
RootsSeeded ==
    phase \in {"pop", "scan"} /\ ~rootsChanged => InContext0(roots) \subseteq leaders

EmitPhases == {"entry", "emit", "block", "done"}

\* Pass 2 stays inside what pass 1 found.
EmissionCovered ==
    /\ phase \notin EmitPhases => blocks = {} /\ todo = {}
    /\ phase \in EmitPhases =>
         /\ work = {}
         /\ InContext0(dispatch) \subseteq leaders
         /\ blocks \subseteq leaders
         /\ todo \subseteq leaders
    /\ phase = "block" => at \in walked

\* The walk's bookkeeping (leaders, walked, the stack, the call-string table)
\* stays consistent in every step of compile.
WalkInv ==
    /\ TypeOK
    /\ ContextsClosed
    /\ LeadersPending
    /\ WalkedClosed
    /\ RootsSeeded
    /\ EmissionCovered
    /\ phase \notin {"rejected", "threw"}

-----------------------------------------------------------------------------
(* Properties. *)

\* rspbt.cc:279-280, "blocks named by a branch but never walked cannot exist":
\* the verifier accepts the function, and popCtx never throws on the way.
CompileSucceeds == phase \notin {"rejected", "threw"}

\* The walk is reachability: whatever order the stack imposes and however often
\* jalr return sites restart it, it ends with exactly the instructions that the
\* roots it was asked for and the jalr return sites reach.
WalkIsReachability == phase = "done" => walked = ReachKeys(img, asked)

\* The dispatch of the finished function has a case for every translatable root
\* that was asked for or that a jalr made, and for no data word.
DispatchIsComplete ==
    phase = "done" => /\ dispatch = CompiledRoots(img, asked)
                      /\ roots = dispatch

\* Pass 2 gives code to what pass 1 walked: no instruction is lost between a
\* leader and the next one, none is emitted that was not walked, and no emission
\* runs through an instruction that already has code (which would clone a block's
\* tail at every join).
EmitsWhatItWalked ==
    /\ phase = "block" => at \in walked \ emitted
    /\ phase = "done" => emitted = walked

\* compile returns: recursion in the microcode, return sites that make new roots
\* and code that wraps round the end of IMEM do not keep the walk going.
Terminates == <>(phase = "done")


=============================================================================
