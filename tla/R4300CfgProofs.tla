--------------------------- MODULE R4300CfgProofs ---------------------------
(***************************************************************************)
(* What build records is what the code says, for every program and every   *)
(* order of the queues: types, edges, extents of blocks, open jumps.       *)
(***************************************************************************)
EXTENDS R4300Cfg, SequenceTheorems, FiniteSetTheorems, WellFoundedInduction, TLAPS

-----------------------------------------------------------------------------
(* Where runs and blocks stop. *)

LEMMA LeastIs ==
    ASSUME NEW S \in SUBSET Nat, S # {}
    PROVE  Least(S) \in S /\ \A y \in S : Least(S) <= y
<1> DEFINE T == {0 .. x : x \in S}
<1>1. T \subseteq FiniteSubsetsOf(Nat) /\ T # {}
  <2>1. \A x \in Nat : IsFiniteSet(0 .. x) /\ 0 .. x \in SUBSET Nat
    BY FS_Interval
  <2> QED
    BY <2>1 DEF FiniteSubsetsOf
<1>2. PICK I \in T : \A J \in T : << J, I >> \notin StrictSubsetOrdering(Nat)
  BY <1>1, FS_StrictSubsetOrderingWellFounded, WFMin
<1>3. PICK x \in S : I = 0 .. x
  OBVIOUS
<1>4. \A y \in S : x <= y
  <2> SUFFICES ASSUME NEW y \in S, y < x
               PROVE  FALSE
    OBVIOUS
  <2>1. 0 .. y \subseteq 0 .. x /\ x \in 0 .. x /\ x \notin 0 .. y
    OBVIOUS
  <2>2. << 0 .. y, 0 .. x >> \in StrictSubsetOrdering(Nat)
    BY <2>1 DEF StrictSubsetOrdering
  <2> QED
    BY <1>2, <1>3, <2>2
<1> QED
  BY <1>4 DEF Least

LEMMA RunEndIs ==
    ASSUME NEW p, Program(p), NEW a \in Addr
    PROVE  /\ RunEnd(p, a) \in Addr /\ a <= RunEnd(p, a)
           /\ \/ ~Readable(p, RunEnd(p, a))
              \/ Control(p, RunEnd(p, a))
              \/ Trap(p, RunEnd(p, a))
           /\ \A q \in a .. RunEnd(p, a) - 1 :
                Readable(p, q) /\ ~Control(p, q) /\ ~Trap(p, q)
<1>1. RunStops(p, a) \in SUBSET Nat /\ \A q \in RunStops(p, a) : a <= q
  BY MaxAddrAssumption DEF RunStops, Addr
<1>2. RunStops(p, a) # {}
  <2>1. CASE a <= MaxAddr
    <3>1. ~Readable(p, MaxAddr + 1)
      BY MaxAddrAssumption DEF Readable, Program
    <3> QED
      BY <2>1, <3>1, MaxAddrAssumption DEF RunStops, Addr
  <2>2. CASE a > MaxAddr
    <3>1. ~Readable(p, a)
      BY <2>2, MaxAddrAssumption DEF Readable, Program, Addr
    <3> QED
      BY <3>1 DEF RunStops
  <2> QED
    BY <2>1, <2>2, MaxAddrAssumption DEF Addr
<1>3. RunEnd(p, a) \in RunStops(p, a) /\ \A q \in RunStops(p, a) : RunEnd(p, a) <= q
  BY <1>1, <1>2, LeastIs DEF RunEnd
<1>4. RunEnd(p, a) <= MaxAddr + 1 \/ RunEnd(p, a) = a
  BY <1>3, MaxAddrAssumption DEF RunStops, Addr
<1>5. \A q \in a .. RunEnd(p, a) - 1 : q \notin RunStops(p, a) /\ q \in a .. MaxAddr + 1
  BY <1>1, <1>3, <1>4, MaxAddrAssumption DEF Addr
<1> QED
  BY <1>1, <1>3, <1>5 DEF RunStops, Addr

LEMMA BlockStopIs ==
    ASSUME NEW p, Program(p), NEW bounds \in SUBSET Addr, NEW a \in Addr
    PROVE  /\ BlockStop(p, bounds, a) \in a .. RunEnd(p, a)
           /\ \/ BlockStop(p, bounds, a) = RunEnd(p, a)
              \/ BlockStop(p, bounds, a) \in bounds /\ BlockStop(p, bounds, a) # a
           /\ \A c \in bounds :
                a < c /\ c <= RunEnd(p, a) => BlockStop(p, bounds, a) <= c
<1> DEFINE S == {RunEnd(p, a)} \cup ((a + 1 .. RunEnd(p, a)) \cap bounds)
<1>1. RunEnd(p, a) \in Addr /\ a <= RunEnd(p, a)
  BY RunEndIs
<1>2. S \in SUBSET Nat /\ S # {}
  BY <1>1 DEF Addr
<1>3. BlockStop(p, bounds, a) \in S /\ \A c \in S : BlockStop(p, bounds, a) <= c
  BY <1>2, LeastIs DEF BlockStop
<1> QED
  BY <1>1, <1>3 DEF Addr


-----------------------------------------------------------------------------
(* Types of what is read off the code. *)

LEMMA SetToSeqType ==
    ASSUME NEW S \in SUBSET Addr, IsFiniteSet(S)
    PROVE  SetToSeq(S) \in Seq(Addr)
<1>1. Cardinality(S) \in Nat /\ ExistsBijection(1 .. Cardinality(S), S)
  BY FS_CardinalityType
<1>2. \E f \in [1 .. Cardinality(S) -> S] : IsInjective(f)
  BY <1>1 DEF ExistsBijection, Bijection, Injection
<1>3. SetToSeq(S) \in [1 .. Cardinality(S) -> S]
  BY <1>2 DEF SetToSeq
<1>4. SetToSeq(S) \in Seq(S)
  BY <1>1, <1>3
<1> QED
  BY <1>4, SeqMonotonic

LEMMA TablesType ==
    ASSUME NEW p, Program(p), NEW jr \in Addr
    PROVE  \A table \in TablesAt(p, jr) : table.base \in Int /\ table.count \in Int
<1> SUFFICES ASSUME NEW lw \in DOMAIN p.mem, NEW hi \in DOMAIN p.mem, NEW b \in DOMAIN p.mem
             PROVE  p.mem[hi].n + p.mem[lw].n \in Int /\ p.mem[b].n \in Int
  BY DEF TablesAt, Nearest, WordsThat, Bounds
<1>1. {p.mem[hi], p.mem[lw], p.mem[b]} \subseteq Word
  BY DEF Program
<1> QED
  BY <1>1 DEF Word

LEMMA JumpTableType ==
    ASSUME NEW p, Program(p), NEW jr \in Addr
    PROVE  JumpTable(p, jr).ok \in BOOLEAN /\ JumpTable(p, jr).out \in Seq(Addr)
<1> DEFINE tables == {table \in TablesAt(p, jr) : table.count \in 1 .. MaxCases}
<1>1. CASE tables = {}
  BY <1>1, EmptySeq DEF JumpTable
<1>2. CASE tables # {}
  <2> DEFINE table == CHOOSE table \in tables : TRUE
             bad == {i \in 0 .. table.count - 1 : ~Readable(p, table.base + i)}
             count == Least(bad \cup {table.count})
  <2>1. table \in TablesAt(p, jr) /\ table.count \in 1 .. MaxCases
    BY <1>2
  <2>2. table.base \in Int /\ table.count \in Nat
    <3>1. table.count \in Nat
      <4> HIDE DEF table
      <4> QED
        BY <2>1, ScanAssumption
    <3> QED
      BY <2>1, <3>1, TablesType
  <2> HIDE DEF tables, table
  <2>3. count \in Nat
    <3>1. bad \cup {table.count} \in SUBSET Nat /\ bad \cup {table.count} # {}
      BY <2>2
    <3> QED
      BY <3>1, LeastIs
  <2>4. \A i \in 1 .. count : Readable(p, table.base + i - 1)
    <3> SUFFICES ASSUME NEW i \in 1 .. count
                 PROVE  Readable(p, table.base + i - 1)
      OBVIOUS
    <3>1. \A y \in bad \cup {table.count} : count <= y
      <4>1. bad \cup {table.count} \in SUBSET Nat /\ bad \cup {table.count} # {}
        BY <2>2
      <4> QED
        BY <4>1, LeastIs
    <3>2. i - 1 \notin bad /\ i - 1 \in 0 .. table.count - 1
      <4> HIDE DEF count
      <4>1. count <= table.count /\ (i - 1 \in bad => count <= i - 1)
        BY <3>1
      <4> HIDE DEF bad
      <4> QED
        BY <4>1, <2>2, <2>3
    <3>3. Readable(p, table.base + (i - 1))
      BY <3>2
    <3>4. table.base + (i - 1) = table.base + i - 1
      BY <2>2, <2>3
    <3> QED
      BY <3>3, <3>4
  <2> HIDE DEF bad, count
  <2> DEFINE out == [i \in 1 .. count |-> AddrOf(p.mem[table.base + i - 1])]
  <2>5. \A w \in Word : AddrOf(w) \in Addr
    BY MaxAddrAssumption DEF AddrOf, Word, Addr
  <2>6. out \in Seq(Addr)
    <3>1. \A i \in 1 .. count : AddrOf(p.mem[table.base + i - 1]) \in Addr
      BY <2>4, <2>5 DEF Readable, Program
    <3> QED
      BY <2>3, <3>1, IsASeq
  <2>7. JumpTable(p, jr) = [ok |-> bad = {}, out |-> out]
    BY <1>2 DEF JumpTable, ReadTable, tables, table, bad, count
  <2> HIDE DEF out
  <2> QED
    BY <2>6, <2>7
<1> QED
  BY <1>1, <1>2

LEMMA SuccsType ==
    ASSUME NEW p, Program(p), NEW q, Control(p, q)
    PROVE  /\ q \in Addr /\ q <= MaxAddr /\ p.mem[q] \in Word /\ After(q) \in Addr
           /\ Succs(p, q) \in Seq(Addr) /\ CallsAt(p, q) \subseteq Addr
<1>1. q \in Addr /\ q <= MaxAddr /\ p.mem[q] \in Word /\ After(q) \in Addr
  BY MaxAddrAssumption DEF Control, Readable, Program, Addr, After
<1>2. IndirectTargets(p, q) \in Seq(Addr)
  <2>1. q \in DOMAIN p.hints => SetToSeq(p.hints[q]) \in Seq(Addr)
    BY SetToSeqType DEF Program
  <2> QED
    BY <1>1, <2>1, JumpTableType DEF IndirectTargets
<1>3. Decode(p.mem[q]) \in {"branch", "likely", "jump", "call", "jalr", "jr"}
  BY DEF Control, Decode, ControlKinds
<1>4. p.mem[q].t \in Addr
  BY <1>1 DEF Word
<1>5. << >> \in Seq(Addr) /\ << p.mem[q].t >> \in Seq(Addr) /\ << After(q) >> \in Seq(Addr)
      /\ << p.mem[q].t, After(q) >> \in Seq(Addr)
  BY <1>1, <1>4
<1>6. Succs(p, q) \in Seq(Addr)
  BY <1>2, <1>3, <1>5 DEF Succs
<1>7. CallsAt(p, q) \subseteq Addr
  BY <1>4 DEF CallsAt, Program
<1> QED
  BY <1>1, <1>6, <1>7

-----------------------------------------------------------------------------
(* What pass one has recorded, and what pass two makes of it. *)

\* The runs walked end in the terminators that are recorded, each with its edges.
Recorded ==
    /\ \A pc \in seen : Control(prog, RunEnd(prog, pc)) => RunEnd(prog, pc) \in terms
    /\ \A t \in terms : Control(prog, t)
    /\ DOMAIN edges = {After(t) : t \in terms}
    /\ \A t \in terms : /\ edges[After(t)] = Succs(prog, t)
                        /\ ToSet(Succs(prog, t)) \subseteq leaders
                        /\ After(t) \in ends
    /\ \A e \in ends : Readable(prog, e) => \E t \in terms : e = After(t)

Reported ==
    \A t \in terms :
        Decode(prog.mem[t]) = "jr" /\ ~IsReturn(t) => TableProblems(t) \subseteq problems

LEMMA CutBlockIs ==
    ASSUME TypeOK, Recorded, leaders \subseteq seen, NEW a \in leaders,
           NEW q, q = BlockStop(prog, BlockBounds, a), NEW b, b = CutBlock(a, q)
    PROVE  /\ q \in Addr /\ a \in Addr /\ a <= q /\ q <= RunEnd(prog, a) /\ RunEnd(prog, a) \in Addr
           /\ \A c \in BlockBounds : a < c /\ c <= RunEnd(prog, a) => q <= c
           /\ \/ /\ b.ends = "fall" /\ b.end = q
                 /\ ~Readable(prog, q) \/ (q # a /\ q \in BlockBounds)
              \/ /\ b.ends = "trap" /\ b.end = q + 1 /\ b.succs = EdgesFrom(q + 1)
                 /\ Trap(prog, q) /\ q = RunEnd(prog, a)
                 /\ q = a \/ q \notin BlockBounds
              \/ /\ IsControlEnd(b) /\ b.end = q + 2 /\ b.succs = Succs(prog, q)
                 /\ b.ends = EndKind(q) /\ q \in terms /\ q = RunEnd(prog, a)
                 /\ b.unresolved <=> \/ b.ends = "jalr" /\ q \notin DOMAIN prog.hints
                                     \/ b.ends = "indirect" /\ b.succs = << >>
                 /\ q = a \/ q \notin BlockBounds
<1>1. Program(prog) /\ a \in Addr /\ BlockBounds \in SUBSET Addr
  BY DEF TypeOK, BlockBounds
<1>2. RunEnd(prog, a) \in Addr /\ a <= RunEnd(prog, a)
  BY <1>1, RunEndIs
<1>3. q \in a .. RunEnd(prog, a) /\ (q = RunEnd(prog, a) \/ (q \in BlockBounds /\ q # a))
      /\ \A c \in BlockBounds : a < c /\ c <= RunEnd(prog, a) => q <= c
  BY <1>1, BlockStopIs
<1>4. CASE CutShort(prog, BlockBounds, a, q)
  <2>1. b.ends = "fall" /\ b.end = q
    BY <1>4 DEF CutBlock
  <2> QED
    BY <1>1, <1>2, <1>3, <1>4, <2>1 DEF CutShort, Addr
<1>5. CASE ~CutShort(prog, BlockBounds, a, q)
  <2>1. Readable(prog, q) /\ q = RunEnd(prog, a) /\ (q = a \/ q \notin BlockBounds)
    BY <1>3, <1>5 DEF CutShort
  <2>2. b.end = PastTerminator(prog, q) /\ b.ends = EndKind(q) /\ b.succs = EdgesFrom(b.end)
        /\ (b.unresolved <=> \/ b.ends = "jalr" /\ q \notin DOMAIN prog.hints
                             \/ b.ends = "indirect" /\ b.succs = << >>)
    BY <1>5 DEF CutBlock
  <2>3. CASE Trap(prog, q)
    <3>1. b.ends = "trap" /\ b.end = q + 1
      BY <2>2, <2>3 DEF Trap, PastTerminator, EndKind
    <3> QED
      BY <1>1, <1>2, <1>3, <2>1, <2>2, <2>3, <3>1 DEF Addr
  <2>4. CASE ~Trap(prog, q)
    <3>1. Control(prog, q)
      BY <1>1, <2>1, <2>4, RunEndIs
    <3>2. q \in terms
      BY <2>1, <3>1 DEF Recorded
    <3>3. b.end = q + 2 /\ b.succs = Succs(prog, q)
      BY <2>2, <2>4, <3>2 DEF PastTerminator, After, EdgesFrom, Recorded
    <3>4. IsControlEnd(b)
      BY <2>2, <3>1 DEF IsControlEnd, EndKind, Control
    <3> QED
      BY <1>1, <1>2, <1>3, <2>1, <2>2, <3>2, <3>3, <3>4 DEF Addr
  <2> QED
    BY <2>3, <2>4
<1> QED
  BY <1>4, <1>5

\* The properties of R4300Cfg, of the blocks bs of one function of p, when ps was
\* reported.
EdgesGood(p, bs) ==
    \A a \in DOMAIN bs :
        /\ IsControlEnd(bs[a]) => /\ bs[a].succs = Succs(p, bs[a].end - 2)
                                  /\ ToSet(bs[a].succs) \subseteq DOMAIN bs
        /\ bs[a].ends = "trap" /\ bs[a].succs # << >> =>
             a = bs[a].end - 1 /\ Control(p, a - 1)

OverlapGood(bs) ==
    \A a, c \in DOMAIN bs :
        a < c /\ c < bs[a].end => IsControlEnd(bs[a]) /\ c = bs[a].end - 1

FallsGood(p, bs) ==
    \A a \in DOMAIN bs :
        bs[a].ends = "fall" =>
          /\ \/ bs[a].end \in DOMAIN bs
             \/ ~Readable(p, bs[a].end)
             \/ /\ a = bs[a].end - 1
                /\ Control(p, a - 1)
                /\ Decode(p.mem[a - 1]) \in {"jump", "jr"}
          /\ bs[a].end = a <=> ~Readable(p, a)

Open(p, q) == q \notin DOMAIN p.hints /\ ~JumpTable(p, q).ok

OpenGood(p, ps, bs) ==
    \A a \in DOMAIN bs :
        bs[a].ends = "indirect" /\ Open(p, bs[a].end - 2) =>
          /\ << bs[a].end - 2, "jr unresolved" >> \in ps
          /\ bs[a].unresolved \/ bs[a].succs # << >>

Good(p, ps, bs) == EdgesGood(p, bs) /\ OverlapGood(bs) /\ FallsGood(p, bs) /\ OpenGood(p, ps, bs)

\* A run does not pass a control instruction: where one from a ends at q or later,
\* only the slot of a terminator t with After(t) <= q can lie before it.
LEMMA BehindTerminator ==
    ASSUME TypeOK, Recorded, NEW a \in Addr, NEW t \in terms,
           a < After(t), After(t) <= RunEnd(prog, a)
    PROVE  a = t + 1
<1>1. Control(prog, t) /\ t \in Addr /\ Program(prog)
  BY DEF Recorded, TypeOK
<1>2. RunEnd(prog, a) \in Addr /\ \A x \in a .. RunEnd(prog, a) - 1 : ~Control(prog, x)
  BY <1>1, RunEndIs
<1> QED
  BY <1>1, <1>2 DEF After, Addr

Finished(bs) ==
    /\ DOMAIN bs = leaders
    /\ \A a \in leaders : bs[a] = CutBlock(a, BlockStop(prog, BlockBounds, a))

LEMMA FinishedEdges ==
    ASSUME TypeOK, Recorded, leaders \subseteq seen, NEW bs, Finished(bs)
    PROVE  EdgesGood(prog, bs)
<1> SUFFICES ASSUME NEW a \in leaders, NEW q, q = BlockStop(prog, BlockBounds, a)
             PROVE  /\ IsControlEnd(bs[a]) => /\ bs[a].succs = Succs(prog, bs[a].end - 2)
                                              /\ ToSet(bs[a].succs) \subseteq leaders
                    /\ bs[a].ends = "trap" /\ bs[a].succs # << >> =>
                         a = bs[a].end - 1 /\ Control(prog, a - 1)
  BY DEF EdgesGood, Finished
<1> DEFINE b == bs[a]
<1>1. b = CutBlock(a, q)
  BY DEF Finished
<1> HIDE DEF b
<1>2. ASSUME IsControlEnd(b)
      PROVE  b.succs = Succs(prog, b.end - 2) /\ ToSet(b.succs) \subseteq leaders
  <2>1. b.end = q + 2 /\ b.succs = Succs(prog, q) /\ q \in terms
    BY <1>1, <1>2, CutBlockIs DEF IsControlEnd
  <2>2. q \in Int
    BY <2>1 DEF TypeOK, Addr
  <2> QED
    BY <2>1, <2>2 DEF Recorded
<1>3. ASSUME b.ends = "trap", b.succs # << >>
      PROVE  a = b.end - 1 /\ Control(prog, a - 1)
  <2>1. /\ b.end = q + 1 /\ b.succs = EdgesFrom(q + 1) /\ q = RunEnd(prog, a)
        /\ q \in Addr /\ a \in Addr /\ a <= q
    BY <1>1, <1>3, CutBlockIs DEF IsControlEnd
  <2>2. PICK t \in terms : q + 1 = After(t)
    BY <1>3, <2>1 DEF EdgesFrom, Recorded
  <2>3. t \in Addr /\ Control(prog, t)
    BY DEF TypeOK, Recorded
  <2>4. a = q
    <3>1. Program(prog) /\ \A x \in a .. q - 1 : ~Control(prog, x)
      BY <2>1, RunEndIs DEF TypeOK
    <3> QED
      BY <2>1, <2>2, <2>3, <3>1 DEF After, Addr
  <2> QED
    BY <2>1, <2>2, <2>3, <2>4 DEF After, Addr
<1> QED
  BY <1>2, <1>3 DEF b

LEMMA FinishedOverlap ==
    ASSUME TypeOK, Recorded, leaders \subseteq seen, NEW bs, Finished(bs)
    PROVE  OverlapGood(bs)
<1> SUFFICES ASSUME NEW a \in leaders, NEW c \in leaders, a < c, c < bs[a].end,
                    NEW q, q = BlockStop(prog, BlockBounds, a)
             PROVE  IsControlEnd(bs[a]) /\ c = bs[a].end - 1
  BY DEF OverlapGood, Finished
<1> DEFINE b == bs[a]
<1>1. b = CutBlock(a, q)
  BY DEF Finished
<1>2. c \in Addr /\ c \in BlockBounds
  BY DEF TypeOK, BlockBounds
<1> HIDE DEF b
<1>3. /\ q \in Addr /\ a \in Addr /\ a <= q /\ q <= RunEnd(prog, a) /\ RunEnd(prog, a) \in Addr
      /\ c <= RunEnd(prog, a) => q <= c
  BY <1>1, <1>2, CutBlockIs
<1>4. CASE b.ends = "fall"
  <2>1. b.end = q
    BY <1>1, <1>4, CutBlockIs DEF IsControlEnd
  <2> QED
    BY <1>2, <1>3, <2>1 DEF b, Addr
<1>5. CASE b.ends = "trap"
  <2>1. b.end = q + 1 /\ q = RunEnd(prog, a) /\ (q = a \/ q \notin BlockBounds)
    BY <1>1, <1>5, CutBlockIs DEF IsControlEnd
  <2> QED
    BY <1>2, <1>3, <2>1 DEF b, Addr
<1>6. CASE IsControlEnd(b)
  <2>1. b.end = q + 2 /\ q = RunEnd(prog, a) /\ (q = a \/ q \notin BlockBounds)
    BY <1>1, <1>6, CutBlockIs DEF IsControlEnd
  <2> QED
    BY <1>2, <1>3, <1>6, <2>1 DEF b, Addr
<1> QED
  BY <1>4, <1>5, <1>6 DEF IsControlEnd, b

LEMMA FinishedFalls ==
    ASSUME TypeOK, Recorded, leaders \subseteq seen, NEW bs, Finished(bs)
    PROVE  FallsGood(prog, bs)
<1> SUFFICES ASSUME NEW a \in leaders, bs[a].ends = "fall",
                    NEW q, q = BlockStop(prog, BlockBounds, a)
             PROVE  /\ \/ bs[a].end \in leaders
                       \/ ~Readable(prog, bs[a].end)
                       \/ /\ a = bs[a].end - 1
                          /\ Control(prog, a - 1)
                          /\ Decode(prog.mem[a - 1]) \in {"jump", "jr"}
                    /\ bs[a].end = a <=> ~Readable(prog, a)
  BY DEF FallsGood, Finished
<1>1. bs[a] = CutBlock(a, q)
  BY DEF Finished
<1>2. /\ q \in Addr /\ a \in Addr /\ a <= q /\ q <= RunEnd(prog, a) /\ RunEnd(prog, a) \in Addr
      /\ bs[a].end = q
      /\ ~Readable(prog, q) \/ (q # a /\ q \in BlockBounds)
  BY <1>1, CutBlockIs DEF IsControlEnd
<1>3. q = a <=> ~Readable(prog, a)
  <2>1. ASSUME ~Readable(prog, a)
        PROVE  RunEnd(prog, a) = a
    <3>1. Program(prog) /\ \A x \in a .. RunEnd(prog, a) - 1 : Readable(prog, x)
      BY <1>2, RunEndIs DEF TypeOK
    <3> QED
      BY <1>2, <2>1, <3>1 DEF Addr
  <2> QED
    BY <1>2, <2>1 DEF Addr
<1>4. ASSUME Readable(prog, q), q \notin leaders
      PROVE  a = q - 1 /\ Control(prog, a - 1) /\ Decode(prog.mem[a - 1]) \in {"jump", "jr"}
  <2>1. q # a /\ q \in ends
    BY <1>2, <1>4 DEF BlockBounds
  <2>2. PICK t \in terms : q = After(t)
    BY <1>4, <2>1 DEF Recorded
  <2>3. t \in Addr /\ Control(prog, t) /\ ToSet(Succs(prog, t)) \subseteq leaders
    BY DEF TypeOK, Recorded
  <2>4. a = t + 1
    BY <1>2, <2>1, <2>2, BehindTerminator DEF Addr
  <2>5. Decode(prog.mem[t]) \in {"jump", "jr"}
    <3>1. CASE Decode(prog.mem[t]) \in {"branch", "likely"}
      <4>1. Succs(prog, t) = << prog.mem[t].t, After(t) >>
        BY <3>1 DEF Succs
      <4>2. After(t) \in ToSet(Succs(prog, t))
        BY <4>1 DEF ToSet
      <4> QED
        BY <1>4, <2>2, <2>3, <4>2
    <3>2. CASE Decode(prog.mem[t]) \in {"call", "jalr"}
      <4>1. Succs(prog, t) = << After(t) >>
        BY <3>2 DEF Succs
      <4>2. After(t) \in ToSet(Succs(prog, t))
        BY <4>1 DEF ToSet
      <4> QED
        BY <1>4, <2>2, <2>3, <4>2
    <3> QED
      BY <2>3, <3>1, <3>2 DEF Control, Decode, ControlKinds
  <2> QED
    BY <2>2, <2>3, <2>4, <2>5 DEF After, Addr
<1> QED
  BY <1>2, <1>3, <1>4

LEMMA FinishedOpen ==
    ASSUME TypeOK, Recorded, Reported, leaders \subseteq seen, NEW bs, Finished(bs)
    PROVE  OpenGood(prog, problems, bs)
<1> SUFFICES ASSUME NEW a \in leaders, bs[a].ends = "indirect", Open(prog, bs[a].end - 2),
                    NEW q, q = BlockStop(prog, BlockBounds, a)
             PROVE  /\ << bs[a].end - 2, "jr unresolved" >> \in problems
                    /\ bs[a].unresolved \/ bs[a].succs # << >>
  BY DEF OpenGood, Finished
<1>1. bs[a] = CutBlock(a, q)
  BY DEF Finished
<1>2. /\ q \in Addr /\ bs[a].end = q + 2 /\ bs[a].ends = EndKind(q) /\ q \in terms
      /\ bs[a].unresolved <=> \/ bs[a].ends = "jalr" /\ q \notin DOMAIN prog.hints
                              \/ bs[a].ends = "indirect" /\ bs[a].succs = << >>
  BY <1>1, CutBlockIs DEF IsControlEnd
<1>3. bs[a].end - 2 = q
  BY <1>2 DEF Addr
<1>4. Decode(prog.mem[q]) = "jr" /\ ~IsReturn(q)
  <2>1. EndKind(q) = "indirect"
    BY <1>2
  <2>2. Decode(prog.mem[q]) # "indirect"
    BY <1>2 DEF Recorded, Control, Decode, ControlKinds
  <2> QED
    BY <2>1, <2>2 DEF EndKind
<1>5. TableProblems(q) = {<< q, "jr unresolved" >>}
  BY <1>3 DEF TableProblems, Open
<1> QED
  BY <1>2, <1>3, <1>4, <1>5 DEF Reported

-----------------------------------------------------------------------------
(* Types. *)

LEMMA NewFuncType ==
    ASSUME NEW f \in Addr
    PROVE  Func(NewFunc(f)) /\ NewFunc(f).entry = f /\ NewFunc(f).blocks = << >>
           /\ DOMAIN NewFunc(f).blocks = {}
<1>1. DOMAIN << >> = {}
  OBVIOUS
<1> QED
  BY <1>1 DEF Func, NewFunc, IsPartial

LEMMA PutIs ==
    ASSUME NEW m, NEW x, NEW y
    PROVE  /\ DOMAIN Put(m, x, y) = DOMAIN m \cup {x}
           /\ Put(m, x, y)[x] = y
           /\ \A a \in DOMAIN m : a # x => Put(m, x, y)[a] = m[a]
BY DEF Put

LEMMA PutRange ==
    ASSUME NEW m, NEW x, NEW y, NEW S, y \in S, \A a \in DOMAIN m : m[a] \in S
    PROVE  \A a \in DOMAIN Put(m, x, y) : Put(m, x, y)[a] \in S
BY DEF Put

LEMMA ToSetType ==
    ASSUME NEW S, NEW s \in Seq(S)
    PROVE  ToSet(s) \subseteq S
BY LenProperties DEF ToSet

LEMMA CfgInit ==
    ASSUME Init
    PROVE  TypeOK
<1>1. Program(prog)
  BY ProgramsAssumption DEF Init
<1>2. 0 \in Addr
  BY DEF Addr
<1>3. DOMAIN << >> = {}
  OBVIOUS
<1> QED
  BY <1>1, <1>2, <1>3, NewFuncType DEF Init, TypeOK, Program, Phases, IsPartial

EdgesOK == IsPartial(edges) /\ \A a \in DOMAIN edges : edges[a] \in Seq(Addr)

\* The edges of the control instruction a run ends in are new.
LEMMA TerminateIs ==
    ASSUME TypeOK, prog' = prog, NEW pc \in Addr, NEW q, q = RunEnd(prog, pc),
           Control(prog, q), Terminate(pc, q)
    PROVE  /\ q \in Addr /\ After(q) \in Addr /\ Succs(prog, q) \in Seq(Addr)
           /\ work' \subseteq Addr /\ seen' \subseteq Addr /\ leaders' \subseteq Addr
           /\ ends' \subseteq Addr /\ terms' \subseteq Addr
           /\ EdgesOK'
<1>1. Program(prog)
  BY DEF TypeOK
<1>2. q \in Addr /\ After(q) \in Addr /\ Succs(prog, q) \in Seq(Addr)
  BY <1>1, SuccsType
<1>3. ToSet(Succs(prog, q)) \subseteq Addr
  BY <1>2, ToSetType
<1>4. EdgesFrom(After(q)) \in Seq(Addr)
  BY EmptySeq DEF EdgesFrom, TypeOK
<1>5. EdgesFrom(After(q)) \o Succs(prog, q) \in Seq(Addr)
  BY <1>2, <1>4, ConcatProperties
<1>6. EdgesOK'
  <2> DEFINE s == EdgesFrom(After(q)) \o Succs(prog, q)
  <2>1. edges' = Put(edges, After(q), s) /\ s \in Seq(Addr)
    BY <1>5 DEF Terminate
  <2> HIDE DEF s
  <2>2. DOMAIN edges' = DOMAIN edges \cup {After(q)}
    BY <2>1, PutIs
  <2>3. \A a \in DOMAIN edges' : edges'[a] \in Seq(Addr)
    <3>1. \A a \in DOMAIN edges : edges[a] \in Seq(Addr)
      BY DEF TypeOK
    <3> QED
      BY <2>1, <3>1, PutRange
  <2> QED
    BY <1>2, <2>2, <2>3 DEF TypeOK, IsPartial, EdgesOK
<1> QED
  BY <1>2, <1>3, <1>6 DEF Terminate, TypeOK

LEMMA CutBlockType ==
    ASSUME TypeOK, NEW a \in Addr, NEW q, q = BlockStop(prog, BlockBounds, a)
    PROVE  CutBlock(a, q) \in Block
<1>1. Program(prog) /\ BlockBounds \in SUBSET Addr
  BY DEF TypeOK, BlockBounds
<1>2. q \in Addr
  BY <1>1, BlockStopIs, RunEndIs DEF Addr
<1>3. PastTerminator(prog, q) \in Addr
  BY <1>2 DEF PastTerminator, After, Addr
<1>4. EndKind(q) \in EndKinds
  BY DEF EndKind, Decode, EndKinds, ControlKinds
<1>5. << q >> \in Seq(Addr) /\ EdgesFrom(PastTerminator(prog, q)) \in Seq(Addr)
  BY <1>2, EmptySeq DEF EdgesFrom, TypeOK
<1> QED
  BY <1>2, <1>3, <1>4, <1>5 DEF CutBlock, Block, EndKinds

LEMMA CfgTypeStep ==
    ASSUME TypeOK, [Next]_vars
    PROVE  TypeOK'
<1>1. CASE BuildFunc
  <2>1. PICK f \in fwork : fn' = NewFunc(f) /\ work' = {f} /\ leaders' = {f} /\ fwork' = fwork \ {f}
    BY <1>1 DEF BuildFunc
  <2>2. f \in Addr /\ DOMAIN << >> = {}
    BY DEF TypeOK
  <2> QED
    BY <1>1, <2>1, <2>2, NewFuncType DEF BuildFunc, TypeOK, Phases, IsPartial
<1>2. CASE Discovered
  BY <1>2 DEF Discovered, TypeOK, Phases, walkVars
<1>3. CASE PopSeen
  BY <1>3 DEF PopSeen, TypeOK
<1>4. CASE RunUnmapped
  <2>1. PICK pc \in work : LET q == RunEnd(prog, pc) IN
          /\ work' = work \ {pc} /\ seen' = seen \cup {pc}
          /\ problems' = problems \cup {<< q, "unmapped" >>}
          /\ ends' = ends \cup {q}
    BY <1>4 DEF RunUnmapped
  <2>2. RunEnd(prog, pc) \in Addr /\ pc \in Addr
    BY RunEndIs DEF TypeOK
  <2>3. problems' \subseteq Addr \X Problems
    <3>1. << RunEnd(prog, pc), "unmapped" >> \in Addr \X Problems
      BY <2>2 DEF Problems
    <3>2. problems \subseteq Addr \X Problems
      BY DEF TypeOK
    <3> QED
      BY <2>1, <3>1, <3>2
  <2> QED
    BY <1>4, <2>1, <2>2, <2>3 DEF RunUnmapped, StaysInBuild, TypeOK
<1>5. CASE RunTrap \/ RunKnown
  BY <1>5 DEF RunTrap, RunKnown, StaysInBuild, TypeOK
<1>6. CASE RunBranch \/ RunReturn
  <2>1. PICK pc \in work : Control(prog, RunEnd(prog, pc)) /\ Terminate(pc, RunEnd(prog, pc))
    BY <1>6 DEF RunBranch, RunReturn
  <2>2. prog' = prog /\ phase' = phase /\ fwork' = fwork /\ funcs' = funcs /\ todo' = todo
        /\ problems' = problems /\ fn' = fn
    BY <1>6 DEF RunBranch, RunReturn, StaysInBuild
  <2> QED
    BY <2>1, <2>2, TerminateIs DEF TypeOK, EdgesOK
<1>7. CASE RunCall
  <2>1. PICK pc \in work : /\ Control(prog, RunEnd(prog, pc)) /\ Terminate(pc, RunEnd(prog, pc))
                           /\ fn' = [fn EXCEPT !.leaf = FALSE,
                                               !.calls = @ \cup CalledFrom(RunEnd(prog, pc))]
    BY <1>7 DEF RunCall
  <2>2. prog' = prog /\ phase' = phase /\ fwork' = fwork /\ funcs' = funcs /\ todo' = todo
        /\ problems' = problems
    BY <1>7 DEF RunCall, StaysInBuild
  <2>3. CalledFrom(RunEnd(prog, pc)) \subseteq Addr
    BY <2>1, SuccsType DEF CalledFrom, TypeOK
  <2>4. Func(fn')
    BY <2>1, <2>3 DEF TypeOK, Func
  <2> QED
    BY <2>1, <2>2, <2>4, TerminateIs DEF TypeOK, EdgesOK
<1>8. CASE RunIndirectCall
  <2>1. PICK pc \in work :
          LET q == RunEnd(prog, pc) IN
          /\ Control(prog, q) /\ Terminate(pc, q)
          /\ fn' = [fn EXCEPT !.leaf = FALSE, !.calls = @ \cup CalledFrom(q),
                              !.indirect_sites = @ \cup {q}]
          /\ problems' = problems \cup
               (IF q \in DOMAIN prog.hints THEN {} ELSE {<< q, "jalr unknown" >>})
    BY <1>8 DEF RunIndirectCall
  <2>2. prog' = prog /\ phase' = phase /\ fwork' = fwork /\ funcs' = funcs /\ todo' = todo
    BY <1>8 DEF RunIndirectCall, StaysInBuild
  <2>3. CalledFrom(RunEnd(prog, pc)) \subseteq Addr /\ RunEnd(prog, pc) \in Addr
    BY <2>1, SuccsType DEF CalledFrom, TypeOK
  <2>4. Func(fn')
    BY <2>1, <2>3 DEF TypeOK, Func
  <2>5. problems' \subseteq Addr \X Problems
    <3>1. << RunEnd(prog, pc), "jalr unknown" >> \in Addr \X Problems
      BY <2>3 DEF Problems
    <3>2. problems \subseteq Addr \X Problems
      BY DEF TypeOK
    <3> HIDE DEF Addr, Problems
    <3> QED
      BY <2>1, <3>1, <3>2
  <2> QED
    BY <2>1, <2>2, <2>4, <2>5, TerminateIs DEF TypeOK, EdgesOK
<1>9. CASE RunTable
  <2>1. PICK pc \in work : LET q == RunEnd(prog, pc) IN
          Control(prog, q) /\ Terminate(pc, q) /\ problems' = problems \cup TableProblems(q)
    BY <1>9 DEF RunTable
  <2>2. prog' = prog /\ phase' = phase /\ fwork' = fwork /\ funcs' = funcs /\ todo' = todo
        /\ fn' = fn
    BY <1>9 DEF RunTable, StaysInBuild
  <2>3. RunEnd(prog, pc) \in Addr
    BY <2>1, SuccsType DEF TypeOK
  <2>4. problems' \subseteq Addr \X Problems
    <3>1. /\ << RunEnd(prog, pc), "jr outside its table" >> \in Addr \X Problems
          /\ << RunEnd(prog, pc), "jr unresolved" >> \in Addr \X Problems
      BY <2>3 DEF Problems
    <3>2. TableProblems(RunEnd(prog, pc)) \subseteq Addr \X Problems
      BY <3>1 DEF TableProblems
    <3>3. problems \subseteq Addr \X Problems
      BY DEF TypeOK
    <3> QED
      BY <2>1, <3>2, <3>3
  <2> QED
    BY <2>1, <2>2, <2>4, TerminateIs DEF TypeOK, EdgesOK
<1>10. CASE Walked
  BY <1>10 DEF Walked, walkVars, TypeOK, Phases
<1>11. CASE Cut
  <2> DEFINE Stop(a) == BlockStop(prog, BlockBounds, a)
  <2>1. PICK a \in todo :
          /\ todo' = todo \ {a}
          /\ fn' = [fn EXCEPT !.blocks = Put(@, a, CutBlock(a, Stop(a)))]
    BY <1>11 DEF Cut
  <2> DEFINE b == CutBlock(a, Stop(a))
  <2>2. b \in Block /\ a \in Addr
    BY CutBlockType DEF TypeOK
  <2>3. fn' = [fn EXCEPT !.blocks = Put(fn.blocks, a, b)]
    BY <2>1
  <2> HIDE DEF b
  <2>4. Func(fn')
    <3> DEFINE bs == Put(fn.blocks, a, b)
    <3>1. IsPartial(fn.blocks) /\ \A x \in DOMAIN fn.blocks : fn.blocks[x] \in Block
      BY DEF TypeOK, Func
    <3>2. DOMAIN bs = DOMAIN fn.blocks \cup {a}
      BY PutIs
    <3>3. \A x \in DOMAIN bs : bs[x] \in Block
      BY <2>2, <3>1, PutRange
    <3> HIDE DEF bs
    <3> QED
      BY <2>2, <2>3, <3>1, <3>2, <3>3 DEF bs, TypeOK, Func, IsPartial
  <2> QED
    BY <1>11, <2>1, <2>4 DEF Cut, walkVars, TypeOK
<1>12. CASE Built
  <2>1. fn.entry \in Addr /\ fn.calls \subseteq Addr /\ Func(fn)
    BY DEF TypeOK, Func
  <2>2. IsPartial(funcs') /\ \A f \in DOMAIN funcs' : Func(funcs'[f])
    <3>1. funcs' = Put(funcs, fn.entry, fn)
      BY <1>12 DEF Built
    <3>2. DOMAIN funcs' = DOMAIN funcs \cup {fn.entry}
      BY <3>1 DEF Put
    <3>3. \A f \in DOMAIN funcs' : f # fn.entry => f \in DOMAIN funcs /\ funcs'[f] = funcs[f]
      BY <3>1, <3>2 DEF Put
    <3>4. funcs'[fn.entry] = fn
      BY <3>1 DEF Put
    <3> QED
      BY <2>1, <3>2, <3>3, <3>4 DEF TypeOK, IsPartial
  <2> QED
    BY <1>12, <2>1, <2>2 DEF Built, walkVars, TypeOK, Phases
<1>13. CASE Done \/ UNCHANGED vars
  BY <1>13 DEF Done, vars, walkVars, TypeOK
<1> QED
  BY <1>1, <1>2, <1>3, <1>4, <1>5, <1>6, <1>7, <1>8, <1>9, <1>10, <1>11, <1>12, <1>13 DEF Next

-----------------------------------------------------------------------------
(* The invariant. *)

LEMMA TerminateRecords ==
    ASSUME TypeOK, Recorded, prog' = prog, NEW pc \in Addr, NEW q, q = RunEnd(prog, pc),
           Control(prog, q), Terminate(pc, q)
    PROVE  Recorded'
<1>1. /\ q \notin terms /\ seen' = seen \cup {pc} /\ terms' = terms \cup {q}
      /\ ends' = ends \cup {After(q)} /\ leaders' = leaders \cup ToSet(Succs(prog, q))
      /\ edges' = Put(edges, After(q), EdgesFrom(After(q)) \o Succs(prog, q))
  BY DEF Terminate, NewTerminator
<1>2. q \in Addr /\ terms \subseteq Addr /\ Succs(prog, q) \in Seq(Addr)
  BY SuccsType DEF TypeOK
<1>3. \A t \in terms : After(t) # After(q)
  BY <1>1, <1>2 DEF After, Addr
<1>4. EdgesFrom(After(q)) \o Succs(prog, q) = Succs(prog, q)
  <2>1. EdgesFrom(After(q)) = << >>
    BY <1>3 DEF EdgesFrom, Recorded
  <2> QED
    BY <1>2, <2>1, ConcatEmptySeq
<1>5. edges' = Put(edges, After(q), Succs(prog, q))
  BY <1>1, <1>4
<1>6. DOMAIN edges' = {After(t) : t \in terms'}
  <2>1. DOMAIN edges' = DOMAIN edges \cup {After(q)}
    BY <1>5 DEF Put
  <2> QED
    BY <1>1, <2>1 DEF Recorded
<1>7. \A t \in terms' : edges'[After(t)] = Succs(prog, t)
  <2>1. edges'[After(q)] = Succs(prog, q)
    BY <1>5 DEF Put
  <2>2. ASSUME NEW t \in terms
        PROVE  edges'[After(t)] = Succs(prog, t)
    <3>1. After(t) \in DOMAIN edges /\ edges[After(t)] = Succs(prog, t)
      BY DEF Recorded
    <3>2. edges'[After(t)] = edges[After(t)]
      BY <1>3, <1>5, <3>1 DEF Put
    <3> QED
      BY <3>1, <3>2
  <2> QED
    BY <1>1, <2>1, <2>2
<1>8. \A t \in terms' : /\ Control(prog, t) /\ ToSet(Succs(prog, t)) \subseteq leaders'
                         /\ After(t) \in ends'
  BY <1>1 DEF Recorded
<1>9. \A a \in seen' : Control(prog, RunEnd(prog, a)) => RunEnd(prog, a) \in terms'
  BY <1>1 DEF Recorded
<1>10. \A e \in ends' : Readable(prog, e) => \E t \in terms' : e = After(t)
  BY <1>1 DEF Recorded
<1> QED
  BY <1>6, <1>7, <1>8, <1>9, <1>10 DEF Recorded

LEMMA TerminateReports ==
    ASSUME Reported, prog' = prog, NEW pc, NEW q, Terminate(pc, q),
           problems \subseteq problems',
           Decode(prog.mem[q]) = "jr" /\ ~IsReturn(q) => TableProblems(q) \subseteq problems'
    PROVE  Reported'
<1>1. terms' = terms \cup {q}
  BY DEF Terminate
<1> QED
  BY <1>1 DEF Reported, IsReturn, TableProblems

BlockOf(a) == CutBlock(a, BlockStop(prog, BlockBounds, a))

GraphInv ==
    /\ phase \in {"walk", "cut"} => Recorded /\ Reported
    /\ phase = "walk" => leaders \subseteq seen \cup work /\ DOMAIN fn.blocks = {}
    /\ phase = "cut" =>
         /\ leaders \subseteq seen /\ todo \subseteq leaders
         /\ DOMAIN fn.blocks = leaders \ todo
         /\ \A a \in DOMAIN fn.blocks : fn.blocks[a] = BlockOf(a)
    /\ \A f \in DOMAIN funcs : Good(prog, problems, funcs[f].blocks)

LEMMA GoodIsStable ==
    ASSUME NEW p, NEW ps, NEW qs, ps \subseteq qs, NEW bs, Good(p, ps, bs)
    PROVE  Good(p, qs, bs)
BY DEF Good, OpenGood

LEMMA GraphInit ==
    ASSUME Init
    PROVE  GraphInv
<1>1. DOMAIN << >> = {}
  OBVIOUS
<1> QED
  BY <1>1 DEF Init, GraphInv

\* Functions that are stored stay as they are while others are built.
LEMMA StoredStayGood ==
    ASSUME GraphInv, prog' = prog, funcs' = funcs, problems \subseteq problems'
    PROVE  \A f \in DOMAIN funcs' : Good(prog', problems', funcs'[f].blocks)
BY GoodIsStable DEF GraphInv

\* A run that ends in a control instruction that was not met before.
LEMMA TerminatingRun ==
    ASSUME TypeOK, GraphInv, NEW pc \in work, NEW q, q = RunEnd(prog, pc), phase = "walk",
           Control(prog, q), Terminate(pc, q), StaysInBuild,
           fn'.blocks = fn.blocks, problems \subseteq problems',
           Decode(prog.mem[q]) = "jr" /\ ~IsReturn(q) => TableProblems(q) \subseteq problems'
    PROVE  GraphInv'
<1>1. prog' = prog /\ phase' = phase /\ funcs' = funcs /\ pc \in Addr
  BY DEF StaysInBuild, TypeOK
<1>2. Recorded /\ Reported /\ leaders \subseteq seen \cup work /\ DOMAIN fn.blocks = {}
  BY DEF GraphInv
<1>3. Recorded'
  BY <1>1, <1>2, TerminateRecords
<1>4. Reported'
  BY <1>1, <1>2, TerminateReports
<1>5. leaders' \subseteq seen' \cup work'
  BY <1>2 DEF Terminate
<1>6. \A f \in DOMAIN funcs' : Good(prog', problems', funcs'[f].blocks)
  BY <1>1, StoredStayGood
<1> QED
  BY <1>1, <1>2, <1>3, <1>4, <1>5, <1>6 DEF GraphInv

LEMMA GraphStep ==
    ASSUME TypeOK, GraphInv, [Next]_vars
    PROVE  GraphInv'
<1>1. CASE BuildFunc
  <2>1. PICK f \in fwork : fn' = NewFunc(f) /\ work' = {f} /\ leaders' = {f}
    BY <1>1 DEF BuildFunc
  <2>2. /\ terms' = {} /\ seen' = {} /\ ends' = {} /\ DOMAIN edges' = {} /\ phase' = "walk"
        /\ prog' = prog /\ funcs' = funcs /\ problems' = problems
    BY <1>1 DEF BuildFunc
  <2>3. DOMAIN (fn'.blocks) = {}
    BY <2>1, NewFuncType DEF TypeOK
  <2>4. Recorded' /\ Reported'
    BY <2>2 DEF Recorded, Reported
  <2> QED
    BY <2>1, <2>2, <2>3, <2>4, StoredStayGood DEF GraphInv
<1>2. CASE Discovered
  BY <1>2 DEF Discovered, GraphInv
<1>3. CASE PopSeen
  <2>1. /\ phase = "walk" /\ leaders' = leaders /\ seen' = seen
        /\ leaders' \subseteq seen' \cup work' /\ phase' = phase /\ fn' = fn
    BY <1>3 DEF PopSeen, GraphInv
  <2>2. Recorded' /\ Reported'
    BY <1>3 DEF PopSeen, GraphInv, Recorded, Reported, TableProblems, IsReturn
  <2> QED
    BY <1>3, <2>1, <2>2, StoredStayGood DEF PopSeen, GraphInv
<1>4. CASE RunUnmapped
  <2>1. PICK pc \in work :
          /\ Walking(pc) /\ ~Readable(prog, RunEnd(prog, pc))
          /\ work' = work \ {pc} /\ seen' = seen \cup {pc}
          /\ problems \subseteq problems'
          /\ ends' = ends \cup {RunEnd(prog, pc)}
    BY <1>4 DEF RunUnmapped
  <2>2. /\ prog' = prog /\ phase' = phase /\ funcs' = funcs /\ fn' = fn
        /\ leaders' = leaders /\ terms' = terms /\ edges' = edges
    BY <1>4 DEF RunUnmapped, StaysInBuild
  <2>3. Recorded /\ Reported /\ leaders' \subseteq seen' \cup work' /\ phase = "walk"
    BY <2>1, <2>2 DEF GraphInv, Walking
  <2>4. Recorded'
    BY <2>1, <2>2, <2>3 DEF Recorded, Control
  <2>5. Reported'
    BY <2>1, <2>2, <2>3 DEF Reported, TableProblems, IsReturn
  <2> QED
    BY <2>1, <2>2, <2>3, <2>4, <2>5, StoredStayGood DEF GraphInv
<1>5. CASE RunTrap \/ RunKnown
  <2>1. PICK pc \in work :
          /\ Walking(pc)
          /\ Control(prog, RunEnd(prog, pc)) => RunEnd(prog, pc) \in terms
          /\ work' = work \ {pc} /\ seen' = seen \cup {pc}
    <3>1. \A q : Trap(prog, q) => ~Control(prog, q)
      BY DEF Trap, Control
    <3> QED
      BY <1>5, <3>1 DEF RunTrap, RunKnown, NewTerminator
  <2>2. /\ prog' = prog /\ phase' = phase /\ funcs' = funcs /\ fn' = fn /\ problems' = problems
        /\ leaders' = leaders /\ terms' = terms /\ edges' = edges /\ ends' = ends
    BY <1>5 DEF RunTrap, RunKnown, StaysInBuild
  <2>3. Recorded /\ Reported /\ leaders' \subseteq seen' \cup work' /\ phase = "walk"
    BY <2>1, <2>2 DEF GraphInv, Walking
  <2>4. Recorded'
    BY <2>1, <2>2, <2>3 DEF Recorded
  <2>5. Reported'
    BY <2>2, <2>3 DEF Reported, TableProblems, IsReturn
  <2> QED
    BY <2>2, <2>3, <2>4, <2>5, StoredStayGood DEF GraphInv
<1>6. CASE RunBranch \/ RunReturn \/ RunCall \/ RunIndirectCall \/ RunTable
  <2>1. PICK pc \in work :
          LET q == RunEnd(prog, pc) IN
          /\ Walking(pc) /\ Control(prog, q) /\ Terminate(pc, q)
          /\ Decode(prog.mem[q]) = "jr" /\ ~IsReturn(q) => TableProblems(q) \subseteq problems'
    BY <1>6 DEF RunBranch, RunReturn, RunCall, RunIndirectCall, RunTable
  <2>2. StaysInBuild /\ problems \subseteq problems'
    BY <1>6 DEF RunBranch, RunReturn, RunCall, RunIndirectCall, RunTable
  <2>3. fn'.blocks = fn.blocks
    BY <1>6 DEF RunBranch, RunReturn, RunCall, RunIndirectCall, RunTable, TypeOK, Func
  <2> QED
    BY <2>1, <2>2, <2>3, TerminatingRun DEF Walking
<1>7. CASE Walked
  <2>1. /\ phase = "walk" /\ phase' = "cut" /\ todo' = leaders /\ leaders \subseteq seen
        /\ DOMAIN fn.blocks = {} /\ fn' = fn /\ leaders' = leaders /\ seen' = seen
    BY <1>7 DEF Walked, GraphInv, walkVars
  <2>2. Recorded' /\ Reported'
    BY <1>7 DEF Walked, walkVars, GraphInv, Recorded, Reported, TableProblems, IsReturn
  <2> QED
    BY <1>7, <2>1, <2>2, StoredStayGood DEF Walked, walkVars, GraphInv
<1>8. CASE Cut
  <2>1. PICK a \in todo : todo' = todo \ {a} /\ fn' = [fn EXCEPT !.blocks = Put(@, a, BlockOf(a))]
    BY <1>8 DEF Cut, BlockOf
  <2>2. /\ prog' = prog /\ phase = "cut" /\ phase' = phase /\ funcs' = funcs /\ problems' = problems
        /\ leaders' = leaders /\ terms' = terms /\ edges' = edges /\ ends' = ends /\ seen' = seen
    BY <1>8 DEF Cut, walkVars
  <2>3. Recorded' /\ Reported'
    BY <2>2 DEF GraphInv, Recorded, Reported, TableProblems, IsReturn
  <2>4. \A x : BlockOf(x)' = BlockOf(x)
    BY <2>2 DEF BlockOf, CutBlock, BlockBounds, EdgesFrom, EndKind, IsReturn
  <2>5. fn'.blocks = Put(fn.blocks, a, BlockOf(a))
    BY <2>1 DEF TypeOK, Func
  <2>6. /\ DOMAIN (fn'.blocks) = leaders \ todo'
        /\ \A x \in DOMAIN (fn'.blocks) : (fn'.blocks)[x] = BlockOf(x)
    <3>1. DOMAIN fn.blocks = leaders \ todo /\ a \in leaders
          /\ \A x \in DOMAIN fn.blocks : fn.blocks[x] = BlockOf(x)
      BY <2>2 DEF GraphInv
    <3> HIDE DEF BlockOf
    <3>2. DOMAIN (fn'.blocks) = DOMAIN fn.blocks \cup {a}
      BY <2>5 DEF Put
    <3>3. \A x \in DOMAIN (fn'.blocks) : (fn'.blocks)[x] = BlockOf(x)
      BY <2>5, <3>1 DEF Put
    <3> QED
      BY <2>1, <3>1, <3>2, <3>3
  <2>7. todo' \subseteq leaders' /\ leaders' \subseteq seen'
    BY <2>1, <2>2 DEF GraphInv
  <2> QED
    BY <2>2, <2>3, <2>4, <2>6, <2>7, StoredStayGood DEF GraphInv
<1>9. CASE Built
  <2>1. /\ phase = "cut" /\ todo = {} /\ phase' = "discover" /\ prog' = prog /\ problems' = problems
        /\ funcs' = Put(funcs, fn.entry, fn)
    BY <1>9 DEF Built
  <2>2. Recorded /\ Reported /\ leaders \subseteq seen /\ Finished(fn.blocks)
    BY <2>1 DEF GraphInv, Finished, BlockOf
  <2>3. Good(prog, problems, fn.blocks)
    BY <2>2, FinishedEdges, FinishedOverlap, FinishedFalls, FinishedOpen DEF Good
  <2>4. \A f \in DOMAIN funcs' : Good(prog, problems, funcs'[f].blocks)
    BY <2>1, <2>3 DEF Put, GraphInv
  <2> QED
    BY <2>1, <2>4 DEF GraphInv
<1>10. CASE Done \/ UNCHANGED vars
  <2>1. /\ prog' = prog /\ phase' = phase /\ funcs' = funcs /\ problems' = problems /\ fn' = fn
        /\ leaders' = leaders /\ terms' = terms /\ edges' = edges /\ ends' = ends /\ seen' = seen
        /\ work' = work /\ todo' = todo
    BY <1>10 DEF Done, vars, walkVars
  <2>2. Recorded => Recorded'
    BY <2>1 DEF Recorded
  <2>3. Reported => Reported'
    BY <2>1 DEF Reported, TableProblems, IsReturn
  <2>4. \A x : BlockOf(x)' = BlockOf(x)
    BY <2>1 DEF BlockOf, CutBlock, BlockBounds, EdgesFrom, EndKind, IsReturn
  <2> QED
    BY <2>1, <2>2, <2>3, <2>4 DEF GraphInv
<1> QED
  BY <1>1, <1>2, <1>3, <1>4, <1>5, <1>6, <1>7, <1>8, <1>9, <1>10 DEF Next

-----------------------------------------------------------------------------
(* The theorems. *)

\* discover and build keep to their types, for every program.
THEOREM CfgTypeCorrect == Spec => []TypeOK
<1>1. Init => TypeOK
  BY CfgInit
<1>2. TypeOK /\ [Next]_vars => TypeOK'
  BY CfgTypeStep
<1> QED
  BY <1>1, <1>2, PTL DEF Spec

\* The bookkeeping of both passes is consistent in every step.
LEMMA GraphInvariant == Spec => [](TypeOK /\ GraphInv)
<1>1. Init => TypeOK /\ GraphInv
  BY CfgInit, GraphInit
<1>2. TypeOK /\ GraphInv /\ [Next]_vars => (TypeOK /\ GraphInv)'
  BY CfgTypeStep, GraphStep
<1> QED
  BY <1>1, <1>2, PTL DEF Spec

\* Whatever runs meet a terminator and in whatever order, pass two finds for its
\* blocks exactly the edges of the code, and each leads to a block.
THEOREM EdgesAreThoseOfTheCode == Spec => []EdgesAgreeWithCode
<1>1. GraphInv => EdgesAgreeWithCode
  BY DEF GraphInv, Good, EdgesGood, EdgesAgreeWithCode, Blocks
<1> QED
  BY <1>1, GraphInvariant, PTL

\* No instruction is in two blocks but a delay slot that is branched to.
THEOREM BlocksAreDisjoint == Spec => []BlocksOverlapOnlyInSlots
<1>1. GraphInv => BlocksOverlapOnlyInSlots
  BY DEF GraphInv, Good, OverlapGood, BlocksOverlapOnlyInSlots, Blocks
<1> QED
  BY <1>1, GraphInvariant, PTL

\* A block that ends without a control instruction leads to a block, to memory
\* that cannot be read, or is a slot branched to.
THEOREM FallingOutIsForeseen == Spec => []FallsOutOnlyFromSlots
<1>1. GraphInv => FallsOutOnlyFromSlots
  BY DEF GraphInv, Good, FallsGood, FallsOutOnlyFromSlots, Blocks
<1> QED
  BY <1>1, GraphInvariant, PTL

\* An indirect jump is not left open without a report.
THEOREM OpenJumpsAreKnown == Spec => []OpenJumpsAreReported
<1>1. GraphInv => OpenJumpsAreReported
  BY DEF GraphInv, Good, OpenGood, Open, OpenJumpsAreReported, Blocks
<1> QED
  BY <1>1, GraphInvariant, PTL

-----------------------------------------------------------------------------
(* The graphs are the least ones: closed under the edges and the calls, and inside *)
(* everything that is.  This is what the reference definitions of R4300Image       *)
(* compute.                                                                        *)

LeadersClosed(p, S) == \A a \in S : LeaderSuccs(p, a) \subseteq S

LeastGraph(p, entry, L) ==
    /\ entry \in L /\ LeadersClosed(p, L)
    /\ \A S : entry \in S /\ LeadersClosed(p, S) => L \subseteq S

\* What the runs from the leaders L call.
CallsOf(p, L) == UNION {CallsAt(p, RunEnd(p, a)) : a \in {x \in L : Control(p, RunEnd(p, x))}}

FuncsClosed(p, S) == \A f \in S : \A L : LeastGraph(p, f, L) => CallsOf(p, L) \subseteq S

\* Q holds the roots and what functions call, and lies in every set that is closed.
LeastFuncs(p, fs, Q) ==
    /\ p.roots \subseteq Q
    /\ \A f \in DOMAIN fs : fs[f].calls \subseteq Q
    /\ \A S : p.roots \subseteq S /\ FuncsClosed(p, S) => Q \subseteq S

\* The control instructions that the runs from the leaders L end in.
TermsOf(p, L) == {RunEnd(p, a) : a \in L} \cap {q \in DOMAIN p.mem : Control(p, q)}
BoundsOf(p, L) == L \cup {After(q) : q \in TermsOf(p, L)}

\* The blocks end where the code, cut at their leaders and past its terminators, says.
EndsGood(p, bs) == \A a \in DOMAIN bs : bs[a].end = BlockEnd(p, BoundsOf(p, DOMAIN bs), a)

Stored(p, fs) ==
    \A f \in DOMAIN fs : /\ LeastGraph(p, f, DOMAIN fs[f].blocks)
                         /\ fs[f].calls = CallsOf(p, DOMAIN fs[f].blocks)
                         /\ EndsGood(p, fs[f].blocks)

Building == phase \in {"walk", "cut"}
Known == DOMAIN funcs \cup fwork \cup {f \in {fn.entry} : Building}

Walk ==
    /\ fn.entry \in leaders /\ seen \cup work \subseteq leaders
    /\ \A t \in terms : \E pc \in seen : t = RunEnd(prog, pc)
    /\ fn.calls = UNION {CallsAt(prog, t) : t \in terms}
    /\ \A S : fn.entry \in S /\ LeadersClosed(prog, S) => leaders \subseteq S

LeastInv ==
    /\ Building => Walk
    /\ Stored(prog, funcs)
    /\ LeastFuncs(prog, funcs, Known)
    /\ phase = "done" => fwork = {}

LEMMA LeastInit ==
    ASSUME Init
    PROVE  LeastInv
<1>1. DOMAIN << >> = {}
  OBVIOUS
<1>2. Known = prog.roots
  BY <1>1 DEF Known, Building, Init
<1> QED
  BY <1>1, <1>2 DEF Init, LeastInv, Building, Stored, LeastFuncs

LEMMA TerminatingWalk ==
    ASSUME Walk, TypeOK, NEW pc \in work, NEW q, q = RunEnd(prog, pc), Control(prog, q),
           Terminate(pc, q), prog' = prog, fn'.entry = fn.entry,
           fn'.calls = fn.calls \cup CallsAt(prog, q)
    PROVE  Walk'
<1>1. /\ seen' = seen \cup {pc} /\ terms' = terms \cup {q}
      /\ leaders' = leaders \cup ToSet(Succs(prog, q))
      /\ work' = (work \ {pc}) \cup ToSet(Succs(prog, q))
  BY DEF Terminate
<1>2. pc \in leaders
  BY DEF Walk
<1>3. LeaderSuccs(prog, pc) = ToSet(Succs(prog, q))
  BY DEF LeaderSuccs
<1>4. ASSUME NEW S, fn.entry \in S, LeadersClosed(prog, S)
      PROVE  leaders' \subseteq S
  <2>1. leaders \subseteq S
    BY <1>4 DEF Walk
  <2> QED
    BY <1>1, <1>2, <1>3, <1>4, <2>1 DEF LeadersClosed
<1>5. fn'.calls = UNION {CallsAt(prog, t) : t \in terms'}
  BY <1>1 DEF Walk
<1>6. fn'.entry \in leaders' /\ seen' \cup work' \subseteq leaders'
  BY <1>1, <1>2 DEF Walk
<1>7. \A t \in terms' : \E x \in seen' : t = RunEnd(prog, x)
  BY <1>1 DEF Walk
<1> QED
  BY <1>4, <1>5, <1>6, <1>7 DEF Walk

\* A finished graph is the least one.
LEMMA FinishedIsLeast ==
    ASSUME Walk, Recorded, leaders \subseteq seen
    PROVE  LeastGraph(prog, fn.entry, leaders) /\ fn.calls = CallsOf(prog, leaders)
<1>1. LeadersClosed(prog, leaders)
  <2> SUFFICES ASSUME NEW a \in leaders, Control(prog, RunEnd(prog, a))
               PROVE  ToSet(Succs(prog, RunEnd(prog, a))) \subseteq leaders
    BY DEF LeadersClosed, LeaderSuccs
  <2>1. RunEnd(prog, a) \in terms
    BY DEF Recorded
  <2> QED
    BY <2>1 DEF Recorded
<1>2. seen = leaders
  BY DEF Walk
<1>3. terms = {RunEnd(prog, a) : a \in {x \in leaders : Control(prog, RunEnd(prog, x))}}
  BY <1>2 DEF Walk, Recorded
<1>4. fn.calls = CallsOf(prog, leaders)
  BY <1>3 DEF Walk, CallsOf
<1> QED
  BY <1>1, <1>4 DEF Walk, LeastGraph

\* A word that cannot be read ends a block whether or not a run has ended there before.
LEMMA SameBlockEnd ==
    ASSUME NEW p, Program(p), NEW B \in SUBSET Addr, NEW D \in SUBSET Addr, B \subseteq D,
           \A e \in D \ B : ~Readable(p, e), NEW a \in Addr
    PROVE  BlockEnd(p, B, a) = BlockEnd(p, D, a)
<1> DEFINE q == BlockStop(p, B, a)
           d == BlockStop(p, D, a)
<1>1. RunEnd(p, a) \in Addr /\ a <= RunEnd(p, a)
      /\ \A x \in a .. RunEnd(p, a) - 1 : Readable(p, x)
  BY RunEndIs
<1>2. /\ q \in a .. RunEnd(p, a) /\ (q = RunEnd(p, a) \/ (q \in B /\ q # a))
      /\ \A c \in B : a < c /\ c <= RunEnd(p, a) => q <= c
  BY BlockStopIs
<1>3. /\ d \in a .. RunEnd(p, a) /\ (d = RunEnd(p, a) \/ (d \in D /\ d # a))
      /\ \A c \in D : a < c /\ c <= RunEnd(p, a) => d <= c
  BY BlockStopIs
<1> HIDE DEF q, d
<1>4. d <= q
  BY <1>1, <1>2, <1>3 DEF Addr
<1>5. q <= d
  BY <1>1, <1>2, <1>3 DEF Addr
<1>6. q = d
  BY <1>1, <1>2, <1>3, <1>4, <1>5 DEF Addr
<1>7. CutShort(p, B, a, q) <=> CutShort(p, D, a, q)
  BY DEF CutShort
<1> QED
  BY <1>6, <1>7 DEF BlockEnd, q, d

\* The blocks of a finished function end where its terminators and leaders say.
LEMMA FinishedEnds ==
    ASSUME TypeOK, Walk, Recorded, leaders \subseteq seen, NEW bs, Finished(bs)
    PROVE  EndsGood(prog, bs)
<1> DEFINE B == BoundsOf(prog, leaders)
<1>1. Program(prog) /\ leaders \subseteq Addr /\ BlockBounds \in SUBSET Addr /\ terms \subseteq Addr
  BY DEF TypeOK, BlockBounds
<1>2. terms = TermsOf(prog, leaders)
  <2>1. \A t \in terms : t \in TermsOf(prog, leaders)
    BY DEF Walk, Recorded, TermsOf, Control, Readable
  <2>2. \A t \in TermsOf(prog, leaders) : t \in terms
    BY DEF Recorded, TermsOf
  <2> QED
    BY <2>1, <2>2
<1>3. B = leaders \cup {After(t) : t \in terms}
  BY <1>2 DEF BoundsOf
<1>4. B \subseteq BlockBounds /\ \A e \in BlockBounds \ B : ~Readable(prog, e)
  BY <1>3 DEF Recorded, BlockBounds
<1>5. B \in SUBSET Addr
  BY <1>1, <1>4
<1> HIDE DEF B
<1>6. ASSUME NEW a \in leaders
      PROVE  bs[a].end = BlockEnd(prog, B, a)
  <2>1. bs[a].end = BlockEnd(prog, BlockBounds, a)
    BY DEF Finished, CutBlock, BlockEnd
  <2> QED
    BY <1>1, <1>4, <1>5, <2>1, SameBlockEnd
<1> QED
  BY <1>6 DEF EndsGood, Finished, B

LEMMA LeastIsUnique ==
    ASSUME NEW p, NEW e, NEW L, NEW M, LeastGraph(p, e, L), LeastGraph(p, e, M)
    PROVE  L = M
BY DEF LeastGraph

LEMMA LeastStep ==
    ASSUME TypeOK, GraphInv, LeastInv, [Next]_vars
    PROVE  LeastInv'
<1>1. CASE BuildFunc
  <2>1. PICK f \in fwork : /\ fn' = NewFunc(f) /\ work' = {f} /\ leaders' = {f}
                           /\ fwork' = fwork \ {f}
    BY <1>1 DEF BuildFunc
  <2>2. /\ terms' = {} /\ seen' = {} /\ phase = "discover" /\ phase' = "walk"
        /\ prog' = prog /\ funcs' = funcs
    BY <1>1 DEF BuildFunc
  <2>3. fn'.entry = f /\ fn'.calls = {}
    BY <2>1 DEF NewFunc
  <2>4. Walk'
    BY <2>1, <2>2, <2>3 DEF Walk
  <2>5. Known' = Known
    BY <2>1, <2>2, <2>3 DEF Known, Building
  <2> QED
    BY <2>2, <2>4, <2>5 DEF LeastInv, Stored, LeastFuncs
<1>2. CASE Discovered
  <2>1. Known' = Known
    BY <1>2 DEF Discovered, Known, Building
  <2> QED
    BY <1>2, <2>1 DEF Discovered, LeastInv, Building, Stored, LeastFuncs
<1>3. CASE PopSeen \/ RunUnmapped \/ RunTrap \/ RunKnown \/ Walked
  <2>1. /\ phase = "walk" /\ Building /\ Building' /\ phase' # "done"
        /\ prog' = prog /\ funcs' = funcs /\ fwork' = fwork /\ fn' = fn
    BY <1>3 DEF PopSeen, RunUnmapped, RunTrap, RunKnown, Walked, Walking, StaysInBuild, Building
  <2>2. /\ leaders' = leaders /\ terms' = terms
        /\ seen \subseteq seen' /\ seen' \cup work' \subseteq seen \cup work
    BY <1>3 DEF PopSeen, RunUnmapped, RunTrap, RunKnown, Walked, walkVars
  <2>3. Walk'
    BY <2>1, <2>2 DEF LeastInv, Walk
  <2>4. Known' = Known
    BY <2>1 DEF Known
  <2> QED
    BY <2>1, <2>3, <2>4 DEF LeastInv, Stored, LeastFuncs
<1>4. CASE RunBranch \/ RunReturn \/ RunCall \/ RunIndirectCall \/ RunTable
  <2>1. PICK pc \in work :
          LET q == RunEnd(prog, pc) IN
          /\ Walking(pc) /\ Control(prog, q) /\ Terminate(pc, q)
          /\ fn'.calls = fn.calls \cup CallsAt(prog, q)
    <3>1. CASE RunBranch \/ RunReturn \/ RunTable
      <4>1. \A q : Decode(prog.mem[q]) \in {"branch", "likely", "jump", "jr"} =>
                     CallsAt(prog, q) = {}
        BY DEF CallsAt
      <4> QED
        BY <3>1, <4>1 DEF RunBranch, RunReturn, RunTable
    <3>2. CASE RunCall
      BY <3>2 DEF RunCall, CalledFrom, TypeOK, Func
    <3>3. CASE RunIndirectCall
      <4>1. PICK pc \in work : LET q == RunEnd(prog, pc) IN
              /\ Walking(pc) /\ Control(prog, q) /\ Terminate(pc, q)
              /\ fn' = [fn EXCEPT !.leaf = FALSE, !.calls = @ \cup CalledFrom(q),
                                  !.indirect_sites = @ \cup {q}]
        BY <3>3 DEF RunIndirectCall
      <4>2. fn'.calls = fn.calls \cup CallsAt(prog, RunEnd(prog, pc))
        BY <4>1 DEF CalledFrom, TypeOK, Func
      <4> QED
        BY <4>1, <4>2
    <3> QED
      BY <1>4, <3>1, <3>2, <3>3
  <2>2. /\ prog' = prog /\ funcs' = funcs /\ fwork' = fwork /\ phase' = phase
    BY <1>4 DEF RunBranch, RunReturn, RunCall, RunIndirectCall, RunTable, StaysInBuild
  <2>3. fn'.entry = fn.entry
    BY <1>4 DEF RunBranch, RunReturn, RunCall, RunIndirectCall, RunTable, TypeOK, Func
  <2>4. phase = "walk" /\ Building /\ Building'
    BY <2>1, <2>2 DEF Walking, Building
  <2>5. Walk'
    BY <2>1, <2>2, <2>3, <2>4, TerminatingWalk DEF LeastInv
  <2>6. Known' = Known
    BY <2>2, <2>3, <2>4 DEF Known
  <2> QED
    BY <2>2, <2>4, <2>5, <2>6 DEF LeastInv, Stored, LeastFuncs
<1>5. CASE Cut
  <2>1. /\ phase = "cut" /\ phase' = phase /\ prog' = prog /\ funcs' = funcs /\ fwork' = fwork
        /\ work' = work /\ seen' = seen /\ leaders' = leaders /\ terms' = terms
    BY <1>5 DEF Cut, walkVars
  <2>2. fn'.entry = fn.entry /\ fn'.calls = fn.calls
    BY <1>5 DEF Cut, TypeOK, Func
  <2>3. Walk'
    BY <2>1, <2>2 DEF LeastInv, Building, Walk
  <2>4. Known' = Known
    BY <2>1, <2>2 DEF Known, Building
  <2> QED
    BY <2>1, <2>3, <2>4 DEF LeastInv, Stored, LeastFuncs
<1>6. CASE Built
  <2>1. /\ phase = "cut" /\ todo = {} /\ phase' = "discover" /\ prog' = prog
        /\ funcs' = Put(funcs, fn.entry, fn)
        /\ fwork' = fwork \cup {f \in fn.calls : NewFunction(f) /\ f # fn.entry}
    BY <1>6 DEF Built
  <2>2. Recorded /\ leaders \subseteq seen /\ DOMAIN fn.blocks = leaders /\ Walk
    BY <2>1 DEF GraphInv, LeastInv, Building
  <2>3. LeastGraph(prog, fn.entry, DOMAIN fn.blocks) /\ fn.calls = CallsOf(prog, DOMAIN fn.blocks)
    BY <2>2, FinishedIsLeast
  <2>4. Stored(prog, funcs')
    <3>1. EndsGood(prog, fn.blocks)
      <4>1. Finished(fn.blocks)
        BY <2>1 DEF GraphInv, Finished, BlockOf
      <4> QED
        BY <2>2, <4>1, FinishedEnds
    <3> QED
      BY <2>1, <2>3, <3>1 DEF Put, LeastInv, Stored
  <2>5. Known = DOMAIN funcs \cup fwork \cup {fn.entry} /\ Known' = DOMAIN funcs' \cup fwork'
    BY <2>1 DEF Known, Building
  <2>6. Known' = Known \cup fn.calls
    <3>1. DOMAIN funcs' = DOMAIN funcs \cup {fn.entry}
      BY <2>1 DEF Put
    <3> QED
      BY <2>1, <2>5, <3>1 DEF NewFunction
  <2>7. LeastFuncs(prog, funcs', Known')
    <3>1. LeastFuncs(prog, funcs, Known)
      BY DEF LeastInv
    <3>2. prog.roots \subseteq Known'
      BY <2>6, <3>1 DEF LeastFuncs
    <3>3. \A f \in DOMAIN funcs' : funcs'[f].calls \subseteq Known'
      BY <2>1, <2>6, <3>1 DEF LeastFuncs, Put
    <3>4. ASSUME NEW S, prog.roots \subseteq S, FuncsClosed(prog, S)
          PROVE  Known' \subseteq S
      <4>1. Known \subseteq S
        BY <3>1, <3>4 DEF LeastFuncs
      <4>2. fn.entry \in S
        BY <2>5, <4>1
      <4>3. fn.calls \subseteq S
        BY <2>3, <3>4, <4>2 DEF FuncsClosed
      <4> QED
        BY <2>6, <4>1, <4>3
    <3> QED
      BY <3>2, <3>3, <3>4 DEF LeastFuncs
  <2> QED
    BY <2>1, <2>4, <2>7 DEF LeastInv, Building
<1>7. CASE Done \/ UNCHANGED vars
  <2>1. /\ prog' = prog /\ phase' = phase /\ funcs' = funcs /\ fwork' = fwork /\ fn' = fn
        /\ work' = work /\ seen' = seen /\ leaders' = leaders /\ terms' = terms
    BY <1>7 DEF Done, vars, walkVars
  <2>2. Known' = Known /\ (Building' <=> Building)
    BY <2>1 DEF Known, Building
  <2>3. Walk => Walk'
    BY <2>1 DEF Walk
  <2> QED
    BY <2>1, <2>2, <2>3 DEF LeastInv, Stored, LeastFuncs
<1> QED
  BY <1>1, <1>2, <1>3, <1>4, <1>5, <1>6, <1>7 DEF Next

\* What holds of funcs when discovery ends: the functions are the least set that holds the roots and
\* is closed under the calls of its functions, and the blocks of each function the
\* least set that holds its entry and is closed under the edges: nothing that can
\* be reached is missing and nothing else is there, in whatever order the
\* queues were served.
Reachable ==
    phase = "done" =>
        /\ \A f \in DOMAIN funcs : LeastGraph(prog, f, DOMAIN Blocks(f))
        /\ prog.roots \subseteq DOMAIN funcs /\ FuncsClosed(prog, DOMAIN funcs)
        /\ \A S : prog.roots \subseteq S /\ FuncsClosed(prog, S) => DOMAIN funcs \subseteq S

LEMMA LeastImpliesReachable ==
    ASSUME LeastInv
    PROVE  Reachable
<1> SUFFICES ASSUME phase = "done"
             PROVE  /\ \A f \in DOMAIN funcs : LeastGraph(prog, f, DOMAIN Blocks(f))
                    /\ prog.roots \subseteq DOMAIN funcs /\ FuncsClosed(prog, DOMAIN funcs)
                    /\ \A S : prog.roots \subseteq S /\ FuncsClosed(prog, S) =>
                                DOMAIN funcs \subseteq S
  BY DEF Reachable
<1>1. Known = DOMAIN funcs
  BY DEF Known, Building, LeastInv
<1>2. LeastFuncs(prog, funcs, DOMAIN funcs) /\ Stored(prog, funcs)
  BY <1>1 DEF LeastInv
<1>3. FuncsClosed(prog, DOMAIN funcs)
  <2> SUFFICES ASSUME NEW f \in DOMAIN funcs, NEW L, LeastGraph(prog, f, L)
               PROVE  CallsOf(prog, L) \subseteq DOMAIN funcs
    BY DEF FuncsClosed
  <2>1. L = DOMAIN funcs[f].blocks
    BY <1>2, LeastIsUnique DEF Stored
  <2> QED
    BY <1>2, <2>1 DEF Stored, LeastFuncs
<1> QED
  BY <1>2, <1>3 DEF LeastFuncs, Stored, Blocks

\* In every step the graphs found so far are inside every closed set, and those stored are
\* complete.
LEMMA LeastInvariant == Spec => [](TypeOK /\ GraphInv /\ LeastInv)
<1>1. Init => TypeOK /\ GraphInv /\ LeastInv
  BY CfgInit, GraphInit, LeastInit
<1>2. TypeOK /\ GraphInv /\ LeastInv /\ [Next]_vars => (TypeOK /\ GraphInv /\ LeastInv)'
  BY CfgTypeStep, GraphStep, LeastStep
<1> QED
  BY <1>1, <1>2, PTL DEF Spec

\* Discovery misses nothing that can be reached and finds nothing else, for every program
\* and every order of the queues.
THEOREM DiscoveryIsReachability == Spec => []Reachable
<1>1. LeastInv => Reachable
  BY LeastImpliesReachable
<1> QED
  BY <1>1, LeastInvariant, PTL

-----------------------------------------------------------------------------
(* Closures, as in RspImageProofs: a recursive closure of a step that only adds,   *)
(* never less for more, and only elements of a finite set, exists and computes the *)
(* least fixed point above its argument.                                           *)

\* F is a step that a closure over A can take, adding at most elements of C.
ClosureStep(A, C, F) ==
    /\ F \in [SUBSET A -> SUBSET A]
    /\ \A S \in SUBSET A : S \subseteq F[S] /\ F[S] \subseteq S \cup C
    /\ \A S, T \in SUBSET A : S \subseteq T => F[S] \subseteq F[T]

Fixed(A, F) == {G \in SUBSET A : F[G] = G}
IsClosure(A, F, f) == f = [S \in SUBSET A |-> IF F[S] = S THEN S ELSE f[F[S]]]

\* L is the least fixed point of F that holds S.
LeastFixed(A, F, S, L) ==
    /\ L \in Fixed(A, F) /\ S \subseteq L
    /\ \A G \in Fixed(A, F) : S \subseteq G => L \subseteq G

LEMMA ClosureExists ==
    ASSUME NEW A, NEW C, NEW F, ClosureStep(A, C, F)
    PROVE  \E f : IsClosure(A, F, f)
<1> DEFINE above(S) == {x \in A : \A G \in Fixed(A, F) : S \subseteq G => x \in G}
           g == [S \in SUBSET A |-> above(S)]
<1>1. \A S \in SUBSET A : F[S] = S => above(S) = S
  BY DEF Fixed
<1>2. \A S \in SUBSET A : above(S) = above(F[S])
  <2>1. \A S \in SUBSET A, G \in Fixed(A, F) : S \subseteq G <=> F[S] \subseteq G
    BY DEF ClosureStep, Fixed
  <2> QED
    BY <2>1
<1>3. \A S \in SUBSET A : F[S] \in SUBSET A
  BY DEF ClosureStep
<1>4. IsClosure(A, F, g)
  <2>1. \A S \in SUBSET A : g[S] = IF F[S] = S THEN S ELSE g[F[S]]
    BY <1>1, <1>2, <1>3
  <2> QED
    BY <2>1 DEF IsClosure
<1> QED
  BY <1>4

LEMMA ClosureIsLeast ==
    ASSUME NEW A, NEW C, IsFiniteSet(C), NEW F, ClosureStep(A, C, F),
           NEW f, IsClosure(A, F, f), NEW S \in SUBSET A
    PROVE  LeastFixed(A, F, S, f[S])
<1> DEFINE Bad == {B \in SUBSET A : ~LeastFixed(A, F, B, f[B])}
           Missing == {C \ B : B \in Bad}
<1> SUFFICES ASSUME Bad # {}
             PROVE  FALSE
  OBVIOUS
<1>1. Missing \subseteq FiniteSubsetsOf(C) /\ Missing # {}
  <2>1. \A B : IsFiniteSet(C \ B)
    BY FS_Difference
  <2> QED
    BY <2>1 DEF FiniteSubsetsOf
<1>2. PICK I \in Missing : \A J \in Missing : << J, I >> \notin StrictSubsetOrdering(C)
  BY <1>1, FS_StrictSubsetOrderingWellFounded, WFMin
<1>3. PICK B \in Bad : I = C \ B
  OBVIOUS
<1>4. f[B] = IF F[B] = B THEN B ELSE f[F[B]]
  BY DEF IsClosure
<1>5. F[B] # B
  BY <1>4 DEF LeastFixed, Fixed
<1>6. F[B] \in SUBSET A /\ B \subseteq F[B] /\ F[B] \subseteq B \cup C
  BY DEF ClosureStep
<1>7. << C \ F[B], C \ B >> \in StrictSubsetOrdering(C)
  BY <1>5, <1>6 DEF StrictSubsetOrdering
<1>8. F[B] \notin Bad
  BY <1>2, <1>3, <1>7
<1>9. LeastFixed(A, F, F[B], f[F[B]])
  BY <1>6, <1>8
<1>10. \A G \in Fixed(A, F) : B \subseteq G => F[B] \subseteq G
  BY DEF Fixed, ClosureStep
<1>11. LeastFixed(A, F, B, f[B])
  BY <1>4, <1>5, <1>6, <1>9, <1>10 DEF LeastFixed
<1> QED
  BY <1>11

-----------------------------------------------------------------------------
(* What the reference definitions compute.                                         *)

\* A union of finitely many finite sets, indexed by a function.
LEMMA FiniteUnion ==
    ASSUME NEW D, IsFiniteSet(D), NEW h, DOMAIN h = D, \A q \in D : IsFiniteSet(h[q])
    PROVE  IsFiniteSet(UNION {h[q] : q \in D})
<1> DEFINE T == {h[q] : q \in D}
           g == [q \in D |-> h[q]]
<1>1. g \in Surjection(D, T)
  BY DEF Surjection
<1>2. IsFiniteSet(T)
  BY <1>1, FS_Surjection
<1> QED
  BY <1>2, FS_UNION

LEMMA ToSetFinite ==
    ASSUME NEW S, NEW s \in Seq(S)
    PROVE  IsFiniteSet(ToSet(s))
<1>1. Len(s) \in Nat /\ DOMAIN s = 1 .. Len(s) /\ s \in [1 .. Len(s) -> S]
  BY LenProperties
<1>2. s \in [1 .. Len(s) -> ToSet(s)]
  BY <1>1 DEF ToSet
<1>3. s \in Surjection(1 .. Len(s), ToSet(s))
  BY <1>1, <1>2 DEF ToSet, Surjection
<1> QED
  BY <1>1, <1>3, FS_Interval, FS_Surjection

\* The control instructions of a program, and what can follow them.
Controls(p) == {q \in DOMAIN p.mem : Control(p, q)}
AllSuccs(p) == UNION {ToSet(Succs(p, q)) : q \in Controls(p)}
AllCalls(p) == UNION {CallsAt(p, q) : q \in Controls(p)}

LEMMA SuccsFinite ==
    ASSUME NEW p, Program(p)
    PROVE  /\ IsFiniteSet(AllSuccs(p)) /\ AllSuccs(p) \subseteq Addr
           /\ IsFiniteSet(AllCalls(p)) /\ AllCalls(p) \subseteq Addr
<1>1. IsFiniteSet(Controls(p))
  <2>1. IsFiniteSet(0 .. MaxAddr) /\ Controls(p) \in SUBSET (0 .. MaxAddr)
    BY MaxAddrAssumption, FS_Interval DEF Program, Controls
  <2> QED
    BY <2>1, FS_Subset
<1>2. \A q \in Controls(p) : /\ Succs(p, q) \in Seq(Addr) /\ CallsAt(p, q) \subseteq Addr
                             /\ ToSet(Succs(p, q)) \subseteq Addr
  BY SuccsType, ToSetType DEF Controls
<1>3. IsFiniteSet(AllSuccs(p))
  <2> DEFINE h == [q \in Controls(p) |-> ToSet(Succs(p, q))]
  <2>1. \A q \in Controls(p) : IsFiniteSet(ToSet(Succs(p, q)))
    BY <1>2, ToSetFinite
  <2>2. DOMAIN h = Controls(p) /\ \A q \in Controls(p) : h[q] = ToSet(Succs(p, q))
    OBVIOUS
  <2> HIDE DEF h
  <2>3. IsFiniteSet(UNION {h[q] : q \in Controls(p)})
    BY <1>1, <2>1, <2>2, FiniteUnion
  <2>4. {h[q] : q \in Controls(p)} = {ToSet(Succs(p, q)) : q \in Controls(p)}
    BY <2>2
  <2> QED
    BY <2>3, <2>4 DEF AllSuccs
<1>4. IsFiniteSet(AllCalls(p))
  <2> DEFINE h == [q \in Controls(p) |-> CallsAt(p, q)]
  <2>1. \A q \in Controls(p) : IsFiniteSet(CallsAt(p, q))
    BY FS_EmptySet, FS_Singleton DEF CallsAt, Program
  <2>2. DOMAIN h = Controls(p) /\ \A q \in Controls(p) : h[q] = CallsAt(p, q)
    OBVIOUS
  <2> HIDE DEF h
  <2>3. IsFiniteSet(UNION {h[q] : q \in Controls(p)})
    BY <1>1, <2>1, <2>2, FiniteUnion
  <2>4. {h[q] : q \in Controls(p)} = {CallsAt(p, q) : q \in Controls(p)}
    BY <2>2
  <2> QED
    BY <2>3, <2>4 DEF AllCalls
<1> QED
  BY <1>2, <1>3, <1>4 DEF AllSuccs, AllCalls

\* A set to which the successors h of its elements are added, as a step of a closure.
AddSuccs(h) == [S \in SUBSET Addr |-> S \cup UNION {h[a] : a \in S}]

LEMMA AddSuccsIs ==
    ASSUME NEW C \in SUBSET Addr, NEW h \in [Addr -> SUBSET C]
    PROVE  /\ ClosureStep(Addr, C, AddSuccs(h))
           /\ \A S \in SUBSET Addr : S \in Fixed(Addr, AddSuccs(h)) <=> \A a \in S : h[a] \subseteq S
<1>1. \A S \in SUBSET Addr : AddSuccs(h)[S] = S \cup UNION {h[a] : a \in S}
  BY DEF AddSuccs
<1>2. ASSUME NEW S \in SUBSET Addr
      PROVE  UNION {h[a] : a \in S} \subseteq C
  OBVIOUS
<1>3. AddSuccs(h) \in [SUBSET Addr -> SUBSET Addr]
  <2>1. \A S \in SUBSET Addr : S \cup UNION {h[a] : a \in S} \in SUBSET Addr
    BY <1>2
  <2> QED
    BY <2>1 DEF AddSuccs
<1>4. ASSUME NEW S \in SUBSET Addr, NEW T \in SUBSET Addr, S \subseteq T
      PROVE  UNION {h[a] : a \in S} \subseteq UNION {h[a] : a \in T}
  BY <1>4
<1>5. ClosureStep(Addr, C, AddSuccs(h))
  <2>1. \A S \in SUBSET Addr : S \subseteq AddSuccs(h)[S] /\ AddSuccs(h)[S] \subseteq S \cup C
    BY <1>1, <1>2
  <2>2. \A S, T \in SUBSET Addr : S \subseteq T => AddSuccs(h)[S] \subseteq AddSuccs(h)[T]
    BY <1>1, <1>4
  <2> QED
    BY <1>3, <2>1, <2>2 DEF ClosureStep
<1>6. ASSUME NEW S \in SUBSET Addr
      PROVE  S \in Fixed(Addr, AddSuccs(h)) <=> \A a \in S : h[a] \subseteq S
  <2>1. AddSuccs(h)[S] = S <=> UNION {h[a] : a \in S} \subseteq S
    <3>1. AddSuccs(h)[S] = S \cup UNION {h[a] : a \in S}
      BY <1>1
    <3>2. \A U : (S \cup U = S) <=> U \subseteq S
      OBVIOUS
    <3> QED
      BY <3>1, <3>2, Zenon
  <2>2. UNION {h[a] : a \in S} \subseteq S <=> \A a \in S : h[a] \subseteq S
    OBVIOUS
  <2> QED
    BY <2>1, <2>2 DEF Fixed
<1> QED
  BY <1>5, <1>6

\* ReachLeaders is the least set of leaders that holds the entry and is closed under the
\* edges.
LEMMA ReachLeadersIs ==
    ASSUME NEW p, Program(p), NEW e \in Addr
    PROVE  ReachLeaders(p, e) \subseteq Addr /\ LeastGraph(p, e, ReachLeaders(p, e))
<1> DEFINE h == [a \in Addr |-> LeaderSuccs(p, a)]
           F == AddSuccs(h)
           Is(f) == f = [S \in SUBSET Addr |->
                            LET T == S \cup UNION {LeaderSuccs(p, a) : a \in S}
                            IN  IF T = S THEN S ELSE f[T]]
           Close == CHOOSE f : Is(f)
<1>1. /\ \A a \in Addr : LeaderSuccs(p, a) \subseteq AllSuccs(p)
      /\ AllSuccs(p) \in SUBSET Addr /\ IsFiniteSet(AllSuccs(p))
  BY SuccsFinite DEF LeaderSuccs, AllSuccs, Controls, Control, Readable
<1>2. h \in [Addr -> SUBSET AllSuccs(p)] /\ \A a \in Addr : h[a] = LeaderSuccs(p, a)
  BY <1>1
<1>3. /\ ClosureStep(Addr, AllSuccs(p), F)
      /\ \A S \in SUBSET Addr : S \in Fixed(Addr, F) <=> \A a \in S : h[a] \subseteq S
  <2> HIDE DEF h
  <2> QED
    BY <1>1, <1>2, AddSuccsIs
<1>4. \A S \in SUBSET Addr : F[S] = S \cup UNION {LeaderSuccs(p, a) : a \in S}
  <2>1. \A S \in SUBSET Addr : {h[a] : a \in S} = {LeaderSuccs(p, a) : a \in S}
    OBVIOUS
  <2> HIDE DEF h
  <2> QED
    BY <2>1 DEF AddSuccs
<1> HIDE DEF h, F
<1>5. \A f : IsClosure(Addr, F, f) <=> Is(f)
  BY <1>4 DEF IsClosure
<1>6. ReachLeaders(p, e) = Close[{e}]
  BY DEF ReachLeaders
<1> HIDE DEF Is
<1>7. IsClosure(Addr, F, Close)
  BY <1>3, <1>5, ClosureExists
<1> HIDE DEF Close
<1>8. LeastFixed(Addr, F, {e}, Close[{e}])
  BY <1>1, <1>3, <1>7, ClosureIsLeast
<1>9. \A S \in SUBSET Addr : S \in Fixed(Addr, F) <=> LeadersClosed(p, S)
  BY <1>2, <1>3 DEF LeadersClosed
<1>10. /\ Close[{e}] \in SUBSET Addr /\ e \in Close[{e}] /\ LeadersClosed(p, Close[{e}])
       /\ \A S \in SUBSET Addr : e \in S /\ LeadersClosed(p, S) => Close[{e}] \subseteq S
  <2>1. Close[{e}] \in SUBSET Addr
    BY <1>8 DEF LeastFixed, Fixed
  <2> QED
    BY <1>8, <1>9, <2>1 DEF LeastFixed
<1>11. ASSUME NEW S, e \in S, LeadersClosed(p, S)
       PROVE  Close[{e}] \subseteq S
  <2>1. LeadersClosed(p, S \cap Addr)
    BY <1>1, <1>11 DEF LeadersClosed
  <2>2. S \cap Addr \in SUBSET Addr /\ e \in S \cap Addr
    BY <1>11
  <2> QED
    BY <1>10, <2>1, <2>2
<1> QED
  BY <1>6, <1>10, <1>11 DEF LeastGraph

\* What a function calls, by the reference definition and by its least graph.
LEMMA CallsFromIs ==
    ASSUME NEW p, Program(p), NEW f \in Addr
    PROVE  /\ CallsFrom(p, f) = CallsOf(p, ReachLeaders(p, f))
           /\ CallsFrom(p, f) \subseteq AllCalls(p)
<1>1. Terminators(p, f) = {RunEnd(p, a) : a \in {x \in ReachLeaders(p, f) : Control(p, RunEnd(p, x))}}
  BY DEF Terminators, Control, Readable
<1>2. CallsFrom(p, f) = CallsOf(p, ReachLeaders(p, f))
  BY <1>1 DEF CallsFrom, CallsOf
<1>3. Terminators(p, f) \subseteq Controls(p)
  BY DEF Terminators, Controls
<1> QED
  BY <1>2, <1>3 DEF CallsFrom, AllCalls

LEMMA FuncsClosedIs ==
    ASSUME NEW p, Program(p), NEW S \in SUBSET Addr
    PROVE  FuncsClosed(p, S) <=> \A f \in S : CallsFrom(p, f) \subseteq S
<1>1. \A f \in S : /\ LeastGraph(p, f, ReachLeaders(p, f))
                   /\ CallsFrom(p, f) = CallsOf(p, ReachLeaders(p, f))
  BY ReachLeadersIs, CallsFromIs
<1>2. \A f, L, M : LeastGraph(p, f, L) /\ LeastGraph(p, f, M) => L = M
  BY LeastIsUnique
<1> QED
  BY <1>1, <1>2 DEF FuncsClosed

\* ReachFuncs is the least set of functions that holds the roots and is closed under calls.
LEMMA ReachFuncsIs ==
    ASSUME NEW p, Program(p)
    PROVE  /\ ReachFuncs(p) \in SUBSET Addr
           /\ p.roots \subseteq ReachFuncs(p) /\ FuncsClosed(p, ReachFuncs(p))
           /\ \A S \in SUBSET Addr : p.roots \subseteq S /\ FuncsClosed(p, S) =>
                ReachFuncs(p) \subseteq S
<1> DEFINE h == [f \in Addr |-> CallsFrom(p, f)]
           F == AddSuccs(h)
           Is(c) == c = [S \in SUBSET Addr |->
                            LET T == S \cup UNION {CallsFrom(p, f) : f \in S}
                            IN  IF T = S THEN S ELSE c[T]]
           Close == CHOOSE c : Is(c)
<1>1. /\ \A f \in Addr : CallsFrom(p, f) \subseteq AllCalls(p)
      /\ AllCalls(p) \in SUBSET Addr /\ IsFiniteSet(AllCalls(p))
  BY SuccsFinite, CallsFromIs
<1>2. h \in [Addr -> SUBSET AllCalls(p)] /\ \A f \in Addr : h[f] = CallsFrom(p, f)
  BY <1>1
<1>3. /\ ClosureStep(Addr, AllCalls(p), F)
      /\ \A S \in SUBSET Addr : S \in Fixed(Addr, F) <=> \A f \in S : h[f] \subseteq S
  <2> HIDE DEF h
  <2> QED
    BY <1>1, <1>2, AddSuccsIs
<1>4. \A S \in SUBSET Addr : F[S] = S \cup UNION {CallsFrom(p, f) : f \in S}
  <2>1. \A S \in SUBSET Addr : {h[f] : f \in S} = {CallsFrom(p, f) : f \in S}
    OBVIOUS
  <2> HIDE DEF h
  <2> QED
    BY <2>1 DEF AddSuccs
<1> HIDE DEF h, F
<1>5. \A c : IsClosure(Addr, F, c) <=> Is(c)
  BY <1>4 DEF IsClosure
<1>6. ReachFuncs(p) = Close[p.roots]
  BY DEF ReachFuncs
<1> HIDE DEF Is
<1>7. IsClosure(Addr, F, Close)
  BY <1>3, <1>5, ClosureExists
<1> HIDE DEF Close
<1>8. p.roots \in SUBSET Addr /\ LeastFixed(Addr, F, p.roots, Close[p.roots])
  <2>1. p.roots \in SUBSET Addr
    BY DEF Program
  <2> QED
    BY <1>1, <1>3, <1>7, <2>1, ClosureIsLeast
<1>9. \A S \in SUBSET Addr : S \in Fixed(Addr, F) <=> FuncsClosed(p, S)
  <2>1. \A S \in SUBSET Addr : FuncsClosed(p, S) <=> \A f \in S : h[f] \subseteq S
    BY <1>2, FuncsClosedIs
  <2> QED
    BY <1>3, <2>1
<1>10. Close[p.roots] \in SUBSET Addr
  BY <1>8 DEF LeastFixed, Fixed
<1> QED
  BY <1>6, <1>8, <1>9, <1>10 DEF LeastFixed

\* What discover and build leave behind, by the invariants of the queues.
LEMMA ReachableIsReference ==
    ASSUME TypeOK, Reachable, Stored(prog, funcs), phase = "done"
    PROVE  /\ DOMAIN funcs = ReachFuncs(prog)
           /\ \A f \in DOMAIN funcs :
                [a \in DOMAIN Blocks(f) |-> Blocks(f)[a].end] = BlockEnds(prog, f)
<1>1. Program(prog) /\ DOMAIN funcs \in SUBSET Addr
  BY DEF TypeOK, IsPartial
<1>2. /\ \A f \in DOMAIN funcs : LeastGraph(prog, f, DOMAIN Blocks(f))
      /\ prog.roots \subseteq DOMAIN funcs /\ FuncsClosed(prog, DOMAIN funcs)
      /\ \A S : prog.roots \subseteq S /\ FuncsClosed(prog, S) => DOMAIN funcs \subseteq S
  BY DEF Reachable
<1>3. DOMAIN funcs = ReachFuncs(prog)
  BY <1>1, <1>2, ReachFuncsIs
<1>4. ASSUME NEW f \in DOMAIN funcs
      PROVE  [a \in DOMAIN Blocks(f) |-> Blocks(f)[a].end] = BlockEnds(prog, f)
  <2> DEFINE L == ReachLeaders(prog, f)
  <2>1. DOMAIN Blocks(f) = L
    BY <1>1, <1>2, ReachLeadersIs, LeastIsUnique
  <2>2. TermsOf(prog, L) = Terminators(prog, f)
    BY DEF TermsOf, Terminators
  <2>3. EndsGood(prog, Blocks(f))
    BY DEF Stored, Blocks
  <2>4. BlockEnds(prog, f) = [a \in L |-> BlockEnd(prog, BoundsOf(prog, L), a)]
    BY <2>2 DEF BlockEnds, BoundsOf
  <2> HIDE DEF L
  <2>5. \A a \in L : Blocks(f)[a].end = BlockEnd(prog, BoundsOf(prog, L), a)
    BY <2>1, <2>3 DEF EndsGood
  <2> QED
    BY <2>1, <2>4, <2>5
<1> QED
  BY <1>3, <1>4

\* discover finds exactly the functions, and build exactly the blocks with their ends,
\* that the recursive reference definitions give, whatever order the queues are
\* served in.
THEOREM GraphsAreThoseOfTheReference == Spec => []GraphIsReachability
<1>1. TypeOK /\ LeastInv => GraphIsReachability
  BY ReachableIsReference, LeastImpliesReachable DEF LeastInv, GraphIsReachability
<1> QED
  BY <1>1, LeastInvariant, PTL

-----------------------------------------------------------------------------
(* Termination, as far as it is a matter of steps: every step that changes anything  *)
(* decreases a measure.  A function is built once, its runs start from different     *)
(* leaders, and the program names finitely many of both.                             *)

\* The addresses a program names: where discovery starts and where control goes.
Named(p) == p.roots \cup AllCalls(p) \cup AllSuccs(p)

\* The walk stays among the addresses the program names.
NamedInv ==
    /\ prog \in Programs
    /\ DOMAIN funcs \subseteq Named(prog) /\ fwork \subseteq Named(prog)
    /\ fn.calls \subseteq Named(prog)
    /\ work \subseteq Named(prog) /\ leaders \subseteq Named(prog) /\ todo \subseteq Named(prog)
    /\ Building => fn.entry \in Named(prog) \ DOMAIN funcs

\* Where the function being built stands.
Rank ==
    CASE phase = "discover" -> 3
      [] phase = "walk" -> 2
      [] phase = "cut" -> 1
      [] OTHER -> 0

Left(S) == Cardinality(Named(prog) \ S)

Measure == << Left(DOMAIN funcs), Rank, Left(seen), Cardinality(work), Cardinality(todo) >>

Places == 1 .. 5
Ranks == [Places -> Nat]

\* m comes before n, as in RspWalkProofs, whose NoEndlessDescent says that there is no
\* endless descent.
Before(m, n) == \E i \in Places : m[i] < n[i] /\ \A j \in 1 .. i - 1 : m[j] = n[j]

LEMMA NamedInit ==
    ASSUME Init
    PROVE  NamedInv
<1>1. DOMAIN << >> = {}
  OBVIOUS
<1> QED
  BY <1>1 DEF Init, NamedInv, Named, NewFunc, Building

\* What a control instruction leads to is named by the program.
LEMMA LeadsToNamed ==
    ASSUME NEW p, NEW q, Control(p, q)
    PROVE  ToSet(Succs(p, q)) \subseteq Named(p) /\ CallsAt(p, q) \subseteq Named(p)
<1>1. q \in Controls(p)
  BY DEF Controls, Control, Readable
<1> QED
  BY <1>1 DEF Named, AllSuccs, AllCalls

LEMMA TerminatingNamed ==
    ASSUME NamedInv, NEW pc, NEW q, Control(prog, q), Terminate(pc, q), StaysInBuild,
           fn'.entry = fn.entry, fn'.calls \subseteq fn.calls \cup CallsAt(prog, q)
    PROVE  NamedInv'
<1>1. /\ prog' = prog /\ phase' = phase /\ fwork' = fwork /\ funcs' = funcs /\ todo' = todo
      /\ leaders' = leaders \cup ToSet(Succs(prog, q))
      /\ work' = (work \ {pc}) \cup ToSet(Succs(prog, q))
  BY DEF StaysInBuild, Terminate
<1>2. ToSet(Succs(prog, q)) \subseteq Named(prog) /\ CallsAt(prog, q) \subseteq Named(prog)
  BY LeadsToNamed
<1> QED
  BY <1>1, <1>2 DEF NamedInv, Building

LEMMA NamedStep ==
    ASSUME TypeOK, NamedInv, [Next]_vars
    PROVE  NamedInv'
<1>1. CASE BuildFunc
  <2>1. PICK f \in fwork : /\ NewFunction(f) /\ fwork' = fwork \ {f} /\ fn' = NewFunc(f)
                           /\ work' = {f} /\ leaders' = {f}
    BY <1>1 DEF BuildFunc
  <2>2. prog' = prog /\ funcs' = funcs /\ todo' = todo
    BY <1>1 DEF BuildFunc
  <2>3. fn'.entry = f /\ fn'.calls = {}
    BY <2>1 DEF NewFunc
  <2> QED
    BY <2>1, <2>2, <2>3 DEF NamedInv, NewFunction
<1>2. CASE Discovered
  BY <1>2 DEF Discovered, walkVars, NamedInv, Building
<1>3. CASE PopSeen \/ RunUnmapped \/ RunTrap \/ RunKnown
  <2>1. /\ prog' = prog /\ phase' = phase /\ fwork' = fwork /\ funcs' = funcs /\ todo' = todo
        /\ fn' = fn /\ leaders' = leaders /\ work' \subseteq work
    BY <1>3 DEF PopSeen, RunUnmapped, RunTrap, RunKnown, StaysInBuild
  <2> QED
    BY <2>1 DEF NamedInv, Building
<1>4. CASE RunBranch \/ RunReturn \/ RunTable
  <2>1. PICK pc \in work : LET q == RunEnd(prog, pc) IN Control(prog, q) /\ Terminate(pc, q)
    BY <1>4 DEF RunBranch, RunReturn, RunTable
  <2>2. StaysInBuild /\ fn' = fn
    BY <1>4 DEF RunBranch, RunReturn, RunTable
  <2> QED
    BY <2>1, <2>2, TerminatingNamed
<1>5. CASE RunCall \/ RunIndirectCall
  <2>1. PICK pc \in work : LET q == RunEnd(prog, pc) IN
          /\ Control(prog, q) /\ Terminate(pc, q)
          /\ fn'.entry = fn.entry /\ fn'.calls = fn.calls \cup CalledFrom(q)
    <3>1. DOMAIN fn = {"entry", "leaf", "calls", "indirect_sites", "blocks"}
      BY DEF TypeOK, Func
    <3> QED
      BY <1>5, <3>1 DEF RunCall, RunIndirectCall
  <2>2. StaysInBuild
    BY <1>5 DEF RunCall, RunIndirectCall
  <2> QED
    BY <2>1, <2>2, TerminatingNamed DEF CalledFrom
<1>6. CASE Walked
  BY <1>6 DEF Walked, walkVars, NamedInv, Building
<1>7. CASE Cut
  <2>1. /\ prog' = prog /\ phase' = phase /\ fwork' = fwork /\ funcs' = funcs
        /\ work' = work /\ leaders' = leaders /\ todo' \subseteq todo
    BY <1>7 DEF Cut, walkVars
  <2>2. fn'.entry = fn.entry /\ fn'.calls = fn.calls
    <3>1. DOMAIN fn = {"entry", "leaf", "calls", "indirect_sites", "blocks"}
      BY DEF TypeOK, Func
    <3> QED
      BY <1>7, <3>1 DEF Cut
  <2> QED
    BY <2>1, <2>2 DEF NamedInv, Building
<1>8. CASE Built
  <2>1. /\ prog' = prog /\ funcs' = Put(funcs, fn.entry, fn) /\ phase' = "discover"
        /\ fwork' \subseteq fwork \cup fn.calls /\ fn' = fn /\ work' = work
        /\ leaders' = leaders /\ todo' = todo /\ phase = "cut"
    BY <1>8 DEF Built, walkVars
  <2>2. DOMAIN funcs' = DOMAIN funcs \cup {fn.entry}
    BY <2>1 DEF Put
  <2>3. fn.entry \in Named(prog) /\ ~Building'
    BY <2>1 DEF NamedInv, Building
  <2> QED
    BY <2>1, <2>2, <2>3 DEF NamedInv
<1>9. CASE Done \/ UNCHANGED vars
  BY <1>9 DEF Done, vars, walkVars, NamedInv, Building
<1> QED
  BY <1>1, <1>2, <1>3, <1>4, <1>5, <1>6, <1>7, <1>8, <1>9 DEF Next

\* The program names finitely many addresses.
LEMMA NamedFinite ==
    ASSUME TypeOK, NamedInv
    PROVE  IsFiniteSet(Named(prog))
<1>1. Program(prog) /\ IsFiniteSet(prog.roots)
  BY RootsAssumption DEF TypeOK, NamedInv
<1> QED
  BY <1>1, SuccsFinite, FS_Union DEF Named

LEMMA LeftShrinks ==
    ASSUME IsFiniteSet(Named(prog)), NEW S, NEW T, S \subseteq T
    PROVE  /\ Left(S) \in Nat
           /\ Left(T) \in Nat
           /\ Left(T) <= Left(S)
           /\ (\E x \in Named(prog) : x \in T /\ x \notin S) => Left(T) < Left(S)
<1>1. IsFiniteSet(Named(prog) \ S) /\ Named(prog) \ T \in SUBSET (Named(prog) \ S)
  BY FS_Subset
<1>2. /\ IsFiniteSet(Named(prog) \ T)
      /\ Cardinality(Named(prog) \ T) <= Cardinality(Named(prog) \ S)
      /\ Cardinality(Named(prog) \ S) = Cardinality(Named(prog) \ T)
           => Named(prog) \ S = Named(prog) \ T
  BY <1>1, FS_Subset
<1>3. Cardinality(Named(prog) \ S) \in Nat /\ Cardinality(Named(prog) \ T) \in Nat
  BY <1>1, <1>2, FS_CardinalityType
<1>4. (\E x \in Named(prog) : x \in T /\ x \notin S) => Named(prog) \ S # Named(prog) \ T
  OBVIOUS
<1> QED
  BY <1>2, <1>3, <1>4 DEF Left

LEMMA MeasureType ==
    ASSUME TypeOK, NamedInv
    PROVE  /\ Measure \in Ranks
           /\ IsFiniteSet(work) /\ IsFiniteSet(todo)
           /\ Cardinality(work) \in Nat /\ Cardinality(todo) \in Nat
<1> DEFINE u == Left(DOMAIN funcs)
           s == Left(seen)
           w == Cardinality(work)
           t == Cardinality(todo)
<1>1. u \in Nat /\ s \in Nat
  BY NamedFinite, LeftShrinks
<1>2. IsFiniteSet(work) /\ IsFiniteSet(todo)
  BY NamedFinite, FS_Subset DEF NamedInv
<1>3. w \in Nat /\ t \in Nat
  BY <1>2, FS_CardinalityType
<1>4. Rank \in Nat
  BY DEF Rank
<1>5. Measure = << u, Rank, s, w, t >>
  BY DEF Measure
<1> HIDE DEF u, s, w, t
<1>6. Measure \in Ranks
  BY <1>1, <1>3, <1>4, <1>5 DEF Ranks, Places
<1> QED
  BY <1>2, <1>3, <1>6 DEF w, t

\* The order written out.
LEMMA BeforeAt ==
    ASSUME NEW a1, NEW a2, NEW a3, NEW a4, NEW a5,
           NEW b1, NEW b2, NEW b3, NEW b4, NEW b5,
           \/ a1 < b1
           \/ a1 = b1 /\ a2 < b2
           \/ a1 = b1 /\ a2 = b2 /\ a3 < b3
           \/ a1 = b1 /\ a2 = b2 /\ a3 = b3 /\ a4 < b4
           \/ a1 = b1 /\ a2 = b2 /\ a3 = b3 /\ a4 = b4 /\ a5 < b5
    PROVE  Before(<< a1, a2, a3, a4, a5 >>, << b1, b2, b3, b4, b5 >>)
<1> DEFINE m == << a1, a2, a3, a4, a5 >>
           n == << b1, b2, b3, b4, b5 >>
<1>1. m[1] = a1 /\ m[2] = a2 /\ m[3] = a3 /\ m[4] = a4 /\ m[5] = a5
  OBVIOUS
<1>2. n[1] = b1 /\ n[2] = b2 /\ n[3] = b3 /\ n[4] = b4 /\ n[5] = b5
  OBVIOUS
<1> HIDE DEF m, n
<1>3. PICK i \in Places : /\ m[i] < n[i]
                          /\ i > 1 => m[1] = n[1]
                          /\ i > 2 => m[2] = n[2]
                          /\ i > 3 => m[3] = n[3]
                          /\ i > 4 => m[4] = n[4]
  <2>1. 1 \in Places /\ 2 \in Places /\ 3 \in Places /\ 4 \in Places /\ 5 \in Places
    BY DEF Places
  <2> QED
    BY <1>1, <1>2, <2>1
<1>4. \A j \in 1 .. i - 1 : m[j] = n[j]
  BY <1>3 DEF Places
<1>5. Before(m, n)
  BY <1>3, <1>4 DEF Before
<1> QED
  BY <1>5 DEF m, n

LEMMA CfgStepDescends ==
    ASSUME TypeOK, NamedInv, Next
    PROVE  Before(Measure', Measure) \/ UNCHANGED vars
<1> DEFINE u == Left(DOMAIN funcs)
           s == Left(seen)
           w == Cardinality(work)
           t == Cardinality(todo)
           Falls ==
              \/ u' < u
              \/ u' = u /\ Rank' < Rank
              \/ u' = u /\ Rank' = Rank /\ s' < s
              \/ u' = u /\ Rank' = Rank /\ s' = s /\ w' < w
              \/ u' = u /\ Rank' = Rank /\ s' = s /\ w' = w /\ t' < t
<1>1. Falls => Before(Measure', Measure)
  <2>1. Measure = << u, Rank, s, w, t >> /\ Measure' = << u', Rank', s', w', t' >>
    BY DEF Measure
  <2> SUFFICES ASSUME Falls
               PROVE  Before(<< u', Rank', s', w', t' >>, << u, Rank, s, w, t >>)
    BY <2>1
  <2> HIDE DEF u, s, w, t
  <2> QED
    BY BeforeAt
<1>a. /\ IsFiniteSet(Named(prog)) /\ IsFiniteSet(work) /\ IsFiniteSet(todo)
      /\ w \in Nat /\ t \in Nat
  BY NamedFinite, MeasureType
<1>b. prog' = prog => Named(prog') = Named(prog)
  OBVIOUS
<1>c. ASSUME prog' = prog, funcs' = funcs
      PROVE  u' = u
  BY <1>c DEF Left
<1>d. ASSUME prog' = prog, NEW x \in Named(prog), x \in seen', x \notin seen, seen \subseteq seen'
      PROVE  s' < s
  BY <1>a, <1>d, LeftShrinks DEF Left
<1>2. CASE BuildFunc \/ Discovered \/ Walked
  <2>1. prog' = prog /\ funcs' = funcs
    BY <1>2 DEF BuildFunc, Discovered, Walked
  <2>2. Rank' < Rank
    BY <1>2 DEF BuildFunc, Discovered, Walked, Rank
  <2> QED
    BY <1>1, <1>c, <2>1, <2>2
<1>3. CASE PopSeen
  <2>1. PICK pc \in work : work' = work \ {pc}
    BY <1>3 DEF PopSeen
  <2>2. prog' = prog /\ funcs' = funcs /\ phase' = phase /\ seen' = seen
    BY <1>3 DEF PopSeen
  <2>3. Rank' = Rank /\ s' = s
    BY <2>2 DEF Rank, Left
  <2>4. w' < w
    <3>1. w' = w - 1
      BY <1>a, <2>1, FS_RemoveElement
    <3> HIDE DEF w
    <3> QED
      BY <1>a, <3>1
  <2> QED
    BY <1>1, <1>c, <2>2, <2>3, <2>4
<1>4. CASE RunUnmapped \/ RunTrap \/ RunKnown \/ RunBranch \/ RunCall \/ RunIndirectCall
           \/ RunReturn \/ RunTable
  <2>1. PICK pc \in work \ seen : seen' = seen \cup {pc}
    BY <1>4 DEF RunUnmapped, RunTrap, RunKnown, RunBranch, RunCall, RunIndirectCall,
                RunReturn, RunTable, Walking, Terminate
  <2>2. prog' = prog /\ funcs' = funcs /\ phase' = phase
    BY <1>4 DEF RunUnmapped, RunTrap, RunKnown, RunBranch, RunCall, RunIndirectCall,
                RunReturn, RunTable, StaysInBuild
  <2>3. Rank' = Rank
    BY <2>2 DEF Rank
  <2>4. s' < s
    <3>1. pc \in Named(prog)
      BY DEF NamedInv
    <3> QED
      BY <1>d, <2>1, <2>2, <3>1
  <2> QED
    BY <1>1, <1>c, <2>2, <2>3, <2>4
<1>5. CASE Cut
  <2>1. PICK a \in todo : todo' = todo \ {a}
    BY <1>5 DEF Cut
  <2>2. /\ prog' = prog /\ funcs' = funcs /\ phase' = phase /\ seen' = seen /\ work' = work
    BY <1>5 DEF Cut, walkVars
  <2>3. Rank' = Rank /\ s' = s /\ w' = w
    BY <2>2 DEF Rank, Left
  <2>4. t' < t
    <3>1. t' = t - 1
      BY <1>a, <2>1, FS_RemoveElement
    <3> HIDE DEF t
    <3> QED
      BY <1>a, <3>1
  <2> QED
    BY <1>1, <1>c, <2>2, <2>3, <2>4
<1>6. CASE Built
  <2>1. funcs' = Put(funcs, fn.entry, fn) /\ prog' = prog /\ phase = "cut"
    BY <1>6 DEF Built
  <2>2. DOMAIN funcs' = DOMAIN funcs \cup {fn.entry}
    BY <2>1 DEF Put
  <2>3. fn.entry \in Named(prog) /\ fn.entry \notin DOMAIN funcs
    BY <2>1 DEF NamedInv, Building
  <2>4. u' < u
    BY <1>a, <2>1, <2>2, <2>3, LeftShrinks DEF Left
  <2> QED
    BY <1>1, <2>4
<1>7. CASE Done
  BY <1>7 DEF Done
<1> QED
  BY <1>2, <1>3, <1>4, <1>5, <1>6, <1>7 DEF Next

\* Every step of discover and build that changes anything brings discovery nearer its
\* end, by a measure with no endless descent: recursion, loops and code that runs on into
\* unmapped memory included, for every program.
THEOREM DiscoveryDescends ==
    Spec => [](Measure \in Ranks) /\ [][Before(Measure', Measure)]_vars
<1>1. Init => TypeOK /\ NamedInv
  BY CfgInit, NamedInit
<1>2. TypeOK /\ NamedInv /\ [Next]_vars => (TypeOK /\ NamedInv)'
  BY CfgTypeStep, NamedStep
<1>3. TypeOK /\ NamedInv => Measure \in Ranks
  BY MeasureType
<1>4. TypeOK /\ NamedInv /\ [Next]_vars => [Before(Measure', Measure)]_vars
  BY CfgStepDescends
<1> QED
  BY <1>1, <1>2, <1>3, <1>4, PTL DEF Spec

=============================================================================
