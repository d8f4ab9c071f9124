------------------------------ MODULE RspImage ------------------------------
(***************************************************************************)
(* One image of RSP instruction memory as the translator sees it: what     *)
(* rspInsn::decode makes of a word, which words can be translated, and the *)
(* control flow each instruction class contributes, once as the static     *)
(* walk of rspbt.cc reads it and once as generateIR emits it.              *)
(*                                                                         *)
(* Addresses count words, so (a + 4) & 0xffc is (a + 1) % NumWords.  A     *)
(* call-string context is the call string itself (the code numbers them;   *)
(* number 0 is the empty string).                                          *)
(***************************************************************************)
EXTENDS Integers, SequencesExt

CONSTANTS
    NumWords,       \* words of instruction memory; 1024 in the program
    MaxCallDepth,   \* rspFunc::MAX_CALL_DEPTH; 4 in the program
    Images          \* the instruction-memory contents considered

Addr == 0 .. NumWords - 1

\* "interp": a word rsp.cc executes and rspInsn::decode does not know;
\* "bal": the same for the linking REGIMM branches; "illegal": RSP_DIE in both.
Ops == {"plain", "mtc0", "break", "branch", "j", "jal", "jr", "jalr",
        "interp", "bal", "illegal"}

ASSUME NumWordsAssumption == NumWords \in Nat /\ NumWords > 0
ASSUME MaxCallDepthAssumption == MaxCallDepth \in Nat
ASSUME ImagesAssumption ==
    \A img \in Images : \A a \in Addr : img[a].op \in Ops /\ img[a].t \in Addr

NextAddr(a) == (a + 1) % NumWords
Link(a) == (a + 2) % NumWords

-----------------------------------------------------------------------------
(* The predicates of the instruction classes. *)

Decodes(i) == i.op \notin {"interp", "bal", "illegal"}
IsControl(i) == i.op \in {"branch", "j", "jal", "jr", "jalr"}
IsBreak(i) == i.op = "break"
IsCall(i) == i.op = "jal"
IsIndirect(i) == i.op \in {"jr", "jalr"}
MakesLinkRoot(i) == i.op = "jalr"
FallsThrough(i) == i.op = "branch"

\* A branch holds an offset from its delay slot, a jump an absolute address.
TAddr(img, a) ==
    IF img[a].op = "branch" THEN (a + 1 + img[a].t) % NumWords ELSE img[a].t
StaticTargets(img, a) ==
    IF img[a].op \in {"branch", "j", "jal"} THEN {TAddr(img, a)} ELSE {}

\* A control instruction needs a plain instruction in its delay slot.
Translatable(img, a) ==
    /\ Decodes(img[a])
    /\ IsControl(img[a]) =>
         LET d == img[NextAddr(a)]
         IN  Decodes(d) /\ ~IsControl(d) /\ ~IsBreak(d)

\* A translatable word after which the scan of a block goes on.
Plain(img, a) ==
    Translatable(img, a) /\ ~IsControl(img[a]) /\ ~IsBreak(img[a])
Control(img, a) == Translatable(img, a) /\ IsControl(img[a])

-----------------------------------------------------------------------------
(* Call strings. *)

CallStrings == {cs \in Seq(Addr) : Len(cs) <= MaxCallDepth}
NoContext == << >>
Keys == Addr \X CallStrings            \* rspFunc::blockKey

\* Mutant: the depth bound forgotten.
PushCtxUnbounded(cs, link) == Append(cs, link)

PushCtx(cs, link) ==
    IF Len(cs) >= MaxCallDepth THEN NoContext ELSE Append(cs, link)
PopCtx(cs) == Front(cs)
ReturnKey(cs) == << Last(cs), PopCtx(cs) >>

-----------------------------------------------------------------------------
(* Where a translatable control instruction at a leads in context cs.      *)

\* Mutant: a walk that does not follow a jr back to the call's return address.
WalkSuccsNoReturn(img, a, cs) ==
    {<< t, IF IsCall(img[a]) THEN PushCtx(cs, Link(a)) ELSE cs >> :
        t \in StaticTargets(img, a)}
    \cup (IF FallsThrough(img[a]) THEN {<< Link(a), cs >>} ELSE {})

\* The keys the static walk makes leaders.
WalkSuccs(img, a, cs) ==
    {<< t, IF IsCall(img[a]) THEN PushCtx(cs, Link(a)) ELSE cs >> :
        t \in StaticTargets(img, a)}
    \cup (IF FallsThrough(img[a]) THEN {<< Link(a), cs >>} ELSE {})
    \cup (IF IsIndirect(img[a]) /\ cs # NoContext THEN {ReturnKey(cs)} ELSE {})

\* The cases of the switch a jr becomes: one return inside a call context, a
\* dispatch over the roots outside any.
IndirectTargets(cs, roots) ==
    IF cs # NoContext THEN {ReturnKey(cs)} ELSE roots \X {NoContext}

\* Mutant: jal names the callee's block in the caller's context.
EmitTargetsNoPush(img, a, cs, roots) ==
    CASE img[a].op = "branch" -> {<< TAddr(img, a), cs >>, << Link(a), cs >>}
      [] img[a].op \in {"j", "jal"} -> {<< TAddr(img, a), cs >>}
      [] OTHER -> IndirectTargets(cs, roots)

\* The blocks generateIR names with blockFor.
EmitTargets(img, a, cs, roots) ==
    CASE img[a].op = "branch" -> {<< TAddr(img, a), cs >>, << Link(a), cs >>}
      [] img[a].op = "j"      -> {<< TAddr(img, a), cs >>}
      [] img[a].op = "jal"    -> {<< TAddr(img, a), PushCtx(cs, Link(a)) >>}
      [] OTHER                -> IndirectTargets(cs, roots)

-----------------------------------------------------------------------------
(* What compiling an image with a set of roots amounts to, stated without  *)
(* the order in which the walk meets things: a least fixed point.          *)

InContext0(R) == R \X {NoContext}

KeySuccs(img, k) ==
    CASE Plain(img, k[1])   -> {<< NextAddr(k[1]), k[2] >>}
      [] Control(img, k[1]) -> WalkSuccs(img, k[1], k[2])
      [] OTHER              -> {}

\* The roots that the jalrs among a set of keys add.
LinkRootsOf(img, S) ==
    {Link(k[1]) : k \in {j \in S : Control(img, j[1]) /\ MakesLinkRoot(img[j[1]])}}

ReachKeys(img, R) ==
    LET Close[S \in SUBSET Keys] ==
          LET T == S \cup InContext0(LinkRootsOf(img, S))
                     \cup UNION {KeySuccs(img, k) : k \in S}
          IN  IF T = S THEN S ELSE Close[T]
    IN  Close[InContext0(R)]

\* The roots a compilation leaves behind, which are the cases of its dispatch.
CompiledRoots(img, R) ==
    {r \in Addr : /\ r \in R \cup LinkRootsOf(img, ReachKeys(img, R))
                  /\ Translatable(img, r)}

=============================================================================
