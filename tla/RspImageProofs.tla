--------------------------- MODULE RspImageProofs ---------------------------
(***************************************************************************)
(* Lemmas about the operators of RspImage, for every size of instruction   *)
(* memory, every image and every depth bound.                              *)
(***************************************************************************)
EXTENDS RspImage, SequenceTheorems, FiniteSetTheorems, WellFoundedInduction, TLAPS

-----------------------------------------------------------------------------
(* Addresses and call strings. *)

\* (a + 4) & 0xffc and (a + 8) & 0xffc are instruction addresses.
LEMMA AddrType ==
    ASSUME NEW a \in Addr
    PROVE  NextAddr(a) \in Addr /\ Link(a) \in Addr
BY NumWordsAssumption DEF Addr, NextAddr, Link

\* pushCtx yields a call string within the depth bound.
LEMMA PushType ==
    ASSUME NEW cs \in CallStrings, NEW l \in Addr
    PROVE  PushCtx(cs, l) \in CallStrings
<1>1. CASE Len(cs) >= MaxCallDepth
  BY <1>1, MaxCallDepthAssumption DEF CallStrings, PushCtx, NoContext
<1>2. CASE ~(Len(cs) >= MaxCallDepth)
  <2>1. Append(cs, l) \in Seq(Addr) /\ Len(Append(cs, l)) = Len(cs) + 1
    BY AppendProperties DEF CallStrings
  <2>2. Len(cs) \in Nat
    BY DEF CallStrings
  <2> QED
    BY <1>2, <2>1, <2>2, MaxCallDepthAssumption DEF CallStrings, PushCtx
<1> QED
  BY <1>1, <1>2

\* popCtx and the return address of a non-empty call string.
LEMMA PopType ==
    ASSUME NEW cs \in CallStrings, cs # NoContext
    PROVE  /\ PopCtx(cs) \in CallStrings
           /\ Last(cs) \in Addr
           /\ ReturnKey(cs) \in Keys
<1>1. cs \in Seq(Addr) /\ Len(cs) \in Nat /\ Len(cs) # 0 /\ Len(cs) <= MaxCallDepth
  BY EmptySeq, LenProperties DEF CallStrings, NoContext
<1>2. Last(cs) \in Addr
  BY <1>1, ElementOfSeq DEF Last
<1>3. PopCtx(cs) \in Seq(Addr) /\ Len(PopCtx(cs)) = Len(cs) - 1
  <2>1. PICK n \in Nat : n = Len(cs) - 1
    BY <1>1
  <2>2. \A i \in 1 .. n : cs[i] \in Addr
    BY <1>1, <2>1, ElementOfSeq
  <2>3. SubSeq(cs, 1, n) \in Seq(Addr) /\ Len(SubSeq(cs, 1, n)) = n
    BY <2>2, SubSeqProperties
  <2> QED
    BY <2>1, <2>3 DEF PopCtx, Front
<1>4. PopCtx(cs) \in CallStrings
  BY <1>1, <1>3, MaxCallDepthAssumption DEF CallStrings
<1> QED
  BY <1>2, <1>4 DEF Keys, ReturnKey

\* Popping undoes pushing, below the depth bound.
LEMMA PopPush ==
    ASSUME NEW cs \in CallStrings, NEW l \in Addr, PushCtx(cs, l) # NoContext
    PROVE  PopCtx(PushCtx(cs, l)) = cs
<1>1. cs \in Seq(Addr) /\ Len(cs) \in Nat
  BY DEF CallStrings
<1>2. PushCtx(cs, l) = Append(cs, l)
  BY DEF PushCtx
<1>3. /\ Append(cs, l) \in Seq(Addr)
      /\ Len(Append(cs, l)) = Len(cs) + 1
      /\ \A i \in 1 .. Len(cs) : Append(cs, l)[i] = cs[i]
  BY <1>1, AppendProperties
<1>4. PopCtx(PushCtx(cs, l)) = SubSeq(Append(cs, l), 1, Len(cs))
  BY <1>1, <1>2, <1>3 DEF PopCtx, Front
<1>5. /\ SubSeq(Append(cs, l), 1, Len(cs)) \in Seq(Addr)
      /\ Len(SubSeq(Append(cs, l), 1, Len(cs))) = Len(cs)
      /\ \A i \in 1 .. Len(cs) : SubSeq(Append(cs, l), 1, Len(cs))[i] = cs[i]
  BY <1>1, <1>3, SubSeqProperties
<1> QED
  BY <1>1, <1>4, <1>5, SeqEqual

-----------------------------------------------------------------------------
(* Successors. *)

\* The walk's successors are keys.
LEMMA WalkSuccsType ==
    ASSUME NEW i \in Images, NEW a \in Addr, NEW cs \in CallStrings
    PROVE  WalkSuccs(i, a, cs) \subseteq Keys
<1>1. i[a].t \in Addr /\ TAddr(i, a) \in Addr
  BY NumWordsAssumption, ImagesAssumption DEF TAddr, Addr
<1>2. PushCtx(cs, Link(a)) \in CallStrings /\ Link(a) \in Addr
  BY AddrType, PushType
<1>3. cs # NoContext => ReturnKey(cs) \in Keys
  BY PopType
<1> QED
  BY <1>1, <1>2, <1>3 DEF WalkSuccs, StaticTargets, Keys

\* Roots are entered in context 0.
LEMMA InContext0Type ==
    ASSUME NEW R \in SUBSET Addr
    PROVE  /\ InContext0(R) \subseteq Keys
           /\ \A k \in InContext0(R) : k[2] = NoContext
<1>1. NoContext \in CallStrings
  BY MaxCallDepthAssumption DEF CallStrings, NoContext
<1> QED
  BY <1>1 DEF InContext0, Keys

\* A successor is in the same context, in the one a call pushes, or in the one a
\* return pops to.
LEMMA WalkSuccsContext ==
    ASSUME NEW i, NEW a, NEW cs, NEW k \in WalkSuccs(i, a, cs)
    PROVE  \/ k[2] = cs
           \/ IsCall(i[a]) /\ k[2] = PushCtx(cs, Link(a))
           \/ IsIndirect(i[a]) /\ cs # NoContext /\ k[2] = PopCtx(cs)
BY DEF WalkSuccs, StaticTargets, ReturnKey

\* generateIR names only blocks the walk made leaders, or roots.
LEMMA EmitWithinWalk ==
    ASSUME NEW i, NEW a, NEW cs, NEW R, IsControl(i[a])
    PROVE  EmitTargets(i, a, cs, R) \subseteq WalkSuccs(i, a, cs) \cup InContext0(R)
<1>1. CASE i[a].op = "branch"
  BY <1>1 DEF EmitTargets, WalkSuccs, StaticTargets, IsCall, FallsThrough
<1>2. CASE i[a].op = "j"
  BY <1>2 DEF EmitTargets, WalkSuccs, StaticTargets, IsCall
<1>3. CASE i[a].op = "jal"
  BY <1>3 DEF EmitTargets, WalkSuccs, StaticTargets, IsCall
<1>4. CASE i[a].op \in {"jr", "jalr"}
  <2>1. EmitTargets(i, a, cs, R) = IndirectTargets(cs, R)
    BY <1>4 DEF EmitTargets
  <2>2. cs # NoContext => ReturnKey(cs) \in WalkSuccs(i, a, cs)
    BY <1>4 DEF WalkSuccs, IsIndirect
  <2> QED
    BY <2>1, <2>2 DEF IndirectTargets, InContext0
<1> QED
  BY <1>1, <1>2, <1>3, <1>4 DEF IsControl

\* The three ways a scan can go are exclusive.
LEMMA KindsDisjoint ==
    ASSUME NEW i, NEW a
    PROVE  /\ Plain(i, a) => ~Control(i, a)
           /\ Control(i, a) => IsControl(i[a]) /\ ~IsBreak(i[a])
           /\ ~Translatable(i, a) \/ IsBreak(i[a]) => ~Plain(i, a) /\ ~Control(i, a)
BY DEF Plain, Control, IsControl, IsBreak

-----------------------------------------------------------------------------
(* Address arithmetic. *)

\* The instruction after the delay slot of a is its link address.
LEMMA NextNext ==
    ASSUME NEW a \in Addr
    PROVE  NextAddr(NextAddr(a)) = Link(a)
<1>1. CASE a + 1 < NumWords
  <2>1. (a + 1) % NumWords = a + 1
    BY <1>1, NumWordsAssumption DEF Addr
  <2> QED
    BY <2>1, NumWordsAssumption DEF Addr, NextAddr, Link
<1>2. CASE a + 1 = NumWords
  <2>1. (a + 1) % NumWords = 0
    BY <1>2, NumWordsAssumption DEF Addr
  <2>2. (a + 2) % NumWords = 1 % NumWords
    BY <1>2, NumWordsAssumption DEF Addr
  <2> QED
    BY <2>1, <2>2, NumWordsAssumption DEF Addr, NextAddr, Link
<1> QED
  BY <1>1, <1>2, NumWordsAssumption DEF Addr

\* An offset from next_pc and one from the branch's own address agree.
LEMMA BranchTarget ==
    ASSUME NEW a \in Addr, NEW t \in Addr
    PROVE  (NextAddr(a) + t) % NumWords = (a + 1 + t) % NumWords
<1>1. CASE a + 1 < NumWords
  <2>1. (a + 1) % NumWords = a + 1
    BY <1>1, NumWordsAssumption DEF Addr
  <2> QED
    BY <2>1 DEF NextAddr
<1>2. CASE a + 1 = NumWords
  <2>1. (a + 1) % NumWords = 0
    BY <1>2, NumWordsAssumption DEF Addr
  <2>2. t % NumWords = t
    BY NumWordsAssumption DEF Addr
  <2>3. (a + 1 + t) % NumWords = t
    BY <1>2, NumWordsAssumption DEF Addr
  <2> QED
    BY <2>1, <2>2, <2>3 DEF NextAddr, Addr
<1> QED
  BY <1>1, <1>2, NumWordsAssumption DEF Addr

\* Where a static target lies.
LEMMA TAddrType ==
    ASSUME NEW i \in Images, NEW a \in Addr
    PROVE  TAddr(i, a) \in Addr
BY NumWordsAssumption, ImagesAssumption DEF TAddr, Addr

\* What generateIR names are keys, whatever roots it is given.
LEMMA EmitTargetsType ==
    ASSUME NEW i \in Images, NEW a \in Addr, NEW cs \in CallStrings,
           NEW R \in SUBSET Addr, IsControl(i[a])
    PROVE  EmitTargets(i, a, cs, R) \subseteq Keys
BY WalkSuccsType, EmitWithinWalk, InContext0Type

-----------------------------------------------------------------------------
(* Closures.  A recursive closure as RspImage writes it, of a step that only adds, *)
(* never less for more, and only elements of a finite set: it exists, and what it  *)
(* computes is the least fixed point above its argument.                           *)

\* F is a step that a closure over A can take, adding at most elements of C.
ClosureStep(A, C, F) ==
    /\ F \in [SUBSET A -> SUBSET A]
    /\ \A S \in SUBSET A : S \subseteq F[S] /\ F[S] \subseteq S \cup C
    /\ \A S, T \in SUBSET A : S \subseteq T => F[S] \subseteq F[T]

Fixed(A, F) == {G \in SUBSET A : F[G] = G}
IsClosure(A, F, f) == f = [S \in SUBSET A |-> IF F[S] = S THEN S ELSE f[F[S]]]

\* L is the least fixed point of F that holds S.
LeastFixed(A, F, S, L) ==
    /\ L \in Fixed(A, F) /\ S \subseteq L
    /\ \A G \in Fixed(A, F) : S \subseteq G => L \subseteq G

LEMMA ClosureExists ==
    ASSUME NEW A, NEW C, NEW F, ClosureStep(A, C, F)
    PROVE  \E f : IsClosure(A, F, f)
<1> DEFINE above(S) == {x \in A : \A G \in Fixed(A, F) : S \subseteq G => x \in G}
           g == [S \in SUBSET A |-> above(S)]
<1>1. \A S \in SUBSET A : F[S] = S => above(S) = S
  BY DEF Fixed
<1>2. \A S \in SUBSET A : above(S) = above(F[S])
  <2>1. \A S \in SUBSET A, G \in Fixed(A, F) : S \subseteq G <=> F[S] \subseteq G
    BY DEF ClosureStep, Fixed
  <2> QED
    BY <2>1
<1>3. \A S \in SUBSET A : F[S] \in SUBSET A
  BY DEF ClosureStep
<1>4. IsClosure(A, F, g)
  <2>1. \A S \in SUBSET A : g[S] = IF F[S] = S THEN S ELSE g[F[S]]
    BY <1>1, <1>2, <1>3
  <2> QED
    BY <2>1 DEF IsClosure
<1> QED
  BY <1>4

LEMMA ClosureIsLeast ==
    ASSUME NEW A, NEW C, IsFiniteSet(C), NEW F, ClosureStep(A, C, F),
           NEW f, IsClosure(A, F, f), NEW S \in SUBSET A
    PROVE  LeastFixed(A, F, S, f[S])
<1> DEFINE Bad == {B \in SUBSET A : ~LeastFixed(A, F, B, f[B])}
           Missing == {C \ B : B \in Bad}
<1> SUFFICES ASSUME Bad # {}
             PROVE  FALSE
  OBVIOUS
<1>1. Missing \subseteq FiniteSubsetsOf(C) /\ Missing # {}
  <2>1. \A B : IsFiniteSet(C \ B)
    BY FS_Difference
  <2> QED
    BY <2>1 DEF FiniteSubsetsOf
<1>2. PICK I \in Missing : \A J \in Missing : << J, I >> \notin StrictSubsetOrdering(C)
  BY <1>1, FS_StrictSubsetOrderingWellFounded, WFMin
<1>3. PICK B \in Bad : I = C \ B
  OBVIOUS
<1>4. f[B] = IF F[B] = B THEN B ELSE f[F[B]]
  BY DEF IsClosure
<1>5. F[B] # B
  BY <1>4 DEF LeastFixed, Fixed
<1>6. F[B] \in SUBSET A /\ B \subseteq F[B] /\ F[B] \subseteq B \cup C
  BY DEF ClosureStep
<1>7. << C \ F[B], C \ B >> \in StrictSubsetOrdering(C)
  BY <1>5, <1>6 DEF StrictSubsetOrdering
<1>8. F[B] \notin Bad
  BY <1>2, <1>3, <1>7
<1>9. LeastFixed(A, F, F[B], f[F[B]])
  BY <1>6, <1>8
<1>10. \A G \in Fixed(A, F) : B \subseteq G => F[B] \subseteq G
  BY DEF Fixed, ClosureStep
<1>11. LeastFixed(A, F, B, f[B])
  BY <1>4, <1>5, <1>6, <1>9, <1>10 DEF LeastFixed
<1> QED
  BY <1>11

-----------------------------------------------------------------------------
(* Reachability. *)

\* There are finitely many keys: a call string is bounded by MAX_CALL_DEPTH.
LEMMA KeysFinite == IsFiniteSet(Keys)
<1> DEFINE Graph(cs) == {<< i, cs[i] >> : i \in 1 .. Len(cs)}
           P == (1 .. MaxCallDepth) \X Addr
           g == [cs \in CallStrings |-> Graph(cs)]
<1>1. IsFiniteSet(Addr)
  BY NumWordsAssumption, FS_Interval DEF Addr
<1>2. IsFiniteSet(SUBSET P)
  <2>1. IsFiniteSet(1 .. MaxCallDepth)
    BY MaxCallDepthAssumption, FS_Interval
  <2> QED
    BY <1>1, <2>1, FS_Product, FS_SUBSET
<1>3. \A cs \in CallStrings : Graph(cs) \in SUBSET P
  <2> SUFFICES ASSUME NEW cs \in CallStrings, NEW i \in 1 .. Len(cs)
               PROVE  i \in 1 .. MaxCallDepth /\ cs[i] \in Addr
    OBVIOUS
  <2>1. cs \in Seq(Addr) /\ Len(cs) \in Nat /\ Len(cs) <= MaxCallDepth
    BY DEF CallStrings
  <2> QED
    BY <2>1, ElementOfSeq, MaxCallDepthAssumption
<1>4. \A cs, ds \in CallStrings : Graph(cs) = Graph(ds) => cs = ds
  <2> SUFFICES ASSUME NEW cs \in CallStrings, NEW ds \in CallStrings, Graph(cs) = Graph(ds)
               PROVE  cs = ds
    OBVIOUS
  <2>1. /\ cs \in Seq(Addr) /\ Len(cs) \in Nat
        /\ ds \in Seq(Addr) /\ Len(ds) \in Nat
    BY DEF CallStrings
  <2>2. \A i \in 1 .. Len(cs) : i \in 1 .. Len(ds) /\ cs[i] = ds[i]
    <3>1. \A i \in 1 .. Len(cs) : << i, cs[i] >> \in Graph(ds)
      OBVIOUS
    <3> QED
      BY <3>1
  <2>3. \A i \in 1 .. Len(ds) : i \in 1 .. Len(cs)
    <3>1. \A i \in 1 .. Len(ds) : << i, ds[i] >> \in Graph(cs)
      OBVIOUS
    <3> QED
      BY <3>1
  <2> HIDE DEF Graph
  <2>4. Len(cs) = Len(ds)
    BY <2>1, <2>2, <2>3
  <2> QED
    BY <2>1, <2>2, <2>4, SeqEqual
<1> HIDE DEF Graph, P
<1>5. g \in Injection(CallStrings, SUBSET P)
  BY <1>3, <1>4 DEF Injection, IsInjective
<1>6. IsFiniteSet(CallStrings)
  BY <1>2, <1>5, FS_Injection
<1> QED
  BY <1>1, <1>6, FS_Product DEF Keys

\* Where a key leads are keys, and so is where the jalrs of a set of keys return to.
LEMMA KeySuccsType ==
    ASSUME NEW i \in Images, NEW k \in Keys
    PROVE  KeySuccs(i, k) \subseteq Keys
<1>1. k[1] \in Addr /\ k[2] \in CallStrings
  BY DEF Keys
<1> QED
  BY <1>1, AddrType, WalkSuccsType DEF KeySuccs, Keys

LEMMA LinkRootsOfType ==
    ASSUME NEW i, NEW S \in SUBSET Keys
    PROVE  LinkRootsOf(i, S) \in SUBSET Addr
<1>1. \A k \in S : k[1] \in Addr
  BY DEF Keys
<1> QED
  BY <1>1, AddrType DEF LinkRootsOf

\* S holds the roots R, the successors of its keys, and where its jalrs return to.
ReachClosed(i, R, S) ==
    /\ InContext0(R \cup LinkRootsOf(i, S)) \subseteq S
    /\ \A k \in S : KeySuccs(i, k) \subseteq S

\* What the recursive definition of ReachKeys computes: the least closed set.
LEMMA ReachKeysIs ==
    ASSUME NEW i \in Images, NEW R \in SUBSET Addr
    PROVE  /\ ReachKeys(i, R) \in SUBSET Keys
           /\ ReachClosed(i, R, ReachKeys(i, R))
           /\ \A S \in SUBSET Keys : ReachClosed(i, R, S) => ReachKeys(i, R) \subseteq S
<1> DEFINE Step(S) == S \cup InContext0(LinkRootsOf(i, S)) \cup UNION {KeySuccs(i, k) : k \in S}
           F == [S \in SUBSET Keys |-> Step(S)]
           Start == InContext0(R)
<1>1. ClosureStep(Keys, Keys, F)
  <2>1. \A S \in SUBSET Keys : Step(S) \in SUBSET Keys
    <3> SUFFICES ASSUME NEW S \in SUBSET Keys
                 PROVE  Step(S) \subseteq Keys
      OBVIOUS
    <3>1. UNION {KeySuccs(i, k) : k \in S} \subseteq Keys
      <4>1. \A k \in S : KeySuccs(i, k) \subseteq Keys
        BY KeySuccsType
      <4> QED
        BY <4>1
    <3>2. InContext0(LinkRootsOf(i, S)) \subseteq Keys
      BY LinkRootsOfType, InContext0Type
    <3> QED
      BY <3>1, <3>2
  <2>2. \A S, T \in SUBSET Keys : S \subseteq T => Step(S) \subseteq Step(T)
    BY DEF InContext0, LinkRootsOf
  <2>3. \A S \in SUBSET Keys : F[S] = Step(S) /\ S \subseteq Step(S)
    OBVIOUS
  <2>4. F \in [SUBSET Keys -> SUBSET Keys]
    BY <2>1
  <2> HIDE DEF F, Step
  <2> QED
    BY <2>1, <2>2, <2>3, <2>4 DEF ClosureStep
<1> DEFINE Is(f) == f = [S \in SUBSET Keys |->
                            LET T == Step(S) IN IF T = S THEN S ELSE f[T]]
           Close == CHOOSE f : Is(f)
<1>2. ReachKeys(i, R) = Close[Start]
  BY DEF ReachKeys
<1>3. \A f : IsClosure(Keys, F, f) <=> Is(f)
  <2>1. \A S \in SUBSET Keys : F[S] = Step(S)
    OBVIOUS
  <2> HIDE DEF F, Step
  <2> QED
    BY <2>1 DEF IsClosure
<1>4. \E f : Is(f)
  <2> HIDE DEF Is
  <2> QED
    BY <1>1, <1>3, ClosureExists
<1>5. IsClosure(Keys, F, Close)
  <2> HIDE DEF Is
  <2> QED
    BY <1>3, <1>4
<1>6. Start \in SUBSET Keys
  BY InContext0Type
<1>7. \A S \in SUBSET Keys : F[S] = Step(S)
  OBVIOUS
<1> HIDE DEF Close, F, Start
<1>8. LeastFixed(Keys, F, Start, Close[Start])
  BY <1>1, <1>5, <1>6, KeysFinite, ClosureIsLeast
<1>9. \A S \in SUBSET Keys : S \in Fixed(Keys, F) /\ Start \subseteq S <=> ReachClosed(i, R, S)
  <2> SUFFICES ASSUME NEW S \in SUBSET Keys
               PROVE  F[S] = S /\ Start \subseteq S <=> ReachClosed(i, R, S)
    BY DEF Fixed
  <2>1. InContext0(R \cup LinkRootsOf(i, S)) = Start \cup InContext0(LinkRootsOf(i, S))
    BY DEF InContext0, Start
  <2>2. F[S] = S <=> /\ InContext0(LinkRootsOf(i, S)) \subseteq S
                     /\ \A k \in S : KeySuccs(i, k) \subseteq S
    <3>1. UNION {KeySuccs(i, k) : k \in S} \subseteq S <=> \A k \in S : KeySuccs(i, k) \subseteq S
      OBVIOUS
    <3>2. F[S] = S <=> /\ InContext0(LinkRootsOf(i, S)) \subseteq S
                       /\ UNION {KeySuccs(i, k) : k \in S} \subseteq S
      BY <1>7
    <3> QED
      BY <3>1, <3>2
  <2> HIDE DEF Step
  <2> QED
    BY <2>1, <2>2 DEF ReachClosed
<1> QED
  BY <1>2, <1>8, <1>9 DEF LeastFixed, Fixed

\* The cases of a dispatch lead nowhere that the compilation which made them did not
\* reach: wherever RspBt's translated function can be, RspWalk's emission gave it code.
THEOREM CasesReachOnlyCode ==
    ASSUME NEW i \in Images, NEW R \in SUBSET Addr
    PROVE  ReachKeys(i, CompiledRoots(i, R)) \subseteq ReachKeys(i, R)
<1> DEFINE S == ReachKeys(i, R)
<1>1. S \in SUBSET Keys /\ ReachClosed(i, R, S)
  BY ReachKeysIs
<1>2. CompiledRoots(i, R) \in SUBSET Addr /\ CompiledRoots(i, R) \subseteq R \cup LinkRootsOf(i, S)
  BY DEF CompiledRoots
<1> HIDE DEF S
<1>3. ReachClosed(i, CompiledRoots(i, R), S)
  BY <1>1, <1>2 DEF ReachClosed, InContext0
<1> QED
  BY <1>1, <1>2, <1>3, ReachKeysIs DEF S

\* Compiling again with the roots a compilation left behind makes the same dispatch: the
\* roots it pruned were data, and the return sites it added are all found again.
THEOREM RecompilingChangesNothing ==
    ASSUME NEW i \in Images, NEW R \in SUBSET Addr
    PROVE  CompiledRoots(i, CompiledRoots(i, R)) = CompiledRoots(i, R)
<1> DEFINE S == ReachKeys(i, R)
           C == CompiledRoots(i, R)
           S0 == ReachKeys(i, C)
           Data == {x \in R \cup LinkRootsOf(i, S) : ~Translatable(i, x)}
<1>1. S \in SUBSET Keys /\ ReachClosed(i, R, S) /\ LinkRootsOf(i, S) \subseteq Addr
  BY ReachKeysIs, LinkRootsOfType
<1>2. C \in SUBSET Addr /\ C = {x \in R \cup LinkRootsOf(i, S) : Translatable(i, x)}
  BY <1>1 DEF CompiledRoots
<1>3. S0 \in SUBSET Keys /\ ReachClosed(i, C, S0) /\ S0 \subseteq S
  BY <1>2, ReachKeysIs, CasesReachOnlyCode
<1>4. \A T \in SUBSET Keys : ReachClosed(i, R, T) => S \subseteq T
  BY ReachKeysIs
<1>5. CompiledRoots(i, C) = {x \in Addr : x \in C \cup LinkRootsOf(i, S0) /\ Translatable(i, x)}
  BY DEF CompiledRoots
<1> HIDE DEF S, C, S0
<1>6. Data \in SUBSET Addr /\ InContext0(Data) \in SUBSET Keys
  BY <1>1, InContext0Type
<1>7. \A k \in InContext0(Data) : ~Translatable(i, k[1])
  BY DEF InContext0
<1>8. LinkRootsOf(i, S0 \cup InContext0(Data)) = LinkRootsOf(i, S0)
  BY <1>7 DEF LinkRootsOf, Control
<1>9. LinkRootsOf(i, S0) \subseteq LinkRootsOf(i, S)
  BY <1>3 DEF LinkRootsOf
<1>10. R \cup LinkRootsOf(i, S0) \subseteq C \cup Data
  BY <1>2, <1>9
<1>11. InContext0(C) \subseteq S0
  BY <1>3 DEF ReachClosed, InContext0
<1>12. InContext0(R \cup LinkRootsOf(i, S0)) \subseteq S0 \cup InContext0(Data)
  <2> HIDE DEF Data
  <2> QED
    BY <1>10, <1>11 DEF InContext0
<1>13. ReachClosed(i, R, S0 \cup InContext0(Data))
  <2>1. \A k \in InContext0(Data) : KeySuccs(i, k) = {}
    BY <1>7 DEF KeySuccs, Plain, Control
  <2> QED
    BY <1>3, <1>8, <1>12, <2>1 DEF ReachClosed
<1>14. S \subseteq S0 \cup InContext0(Data)
  BY <1>3, <1>4, <1>6, <1>13
<1>15. LinkRootsOf(i, S) \subseteq LinkRootsOf(i, S0 \cup InContext0(Data))
  BY <1>14 DEF LinkRootsOf
<1>16. CompiledRoots(i, C) = C
  BY <1>2, <1>5, <1>8, <1>9, <1>15
<1> QED
  BY <1>16 DEF C

=============================================================================
