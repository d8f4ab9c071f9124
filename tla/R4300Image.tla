----------------------------- MODULE R4300Image -----------------------------
(***************************************************************************)
(* Guest code of the main CPU as r4300cfg.cc and r4300bt.cc read it: what  *)
(* each word does to the pc, where the straight-line run from an address   *)
(* ends, and where control goes from there.                                *)
(*                                                                         *)
(* A program is a record: mem, the words at the addresses that can be read *)
(* (r4300_cfg::read fails elsewhere); hints, the targets observed at an    *)
(* indirect jump or call; roots, where discovery starts; entries, what the *)
(* caller asks to have translated.  Addresses count words.                 *)
(***************************************************************************)
EXTENDS Integers, SequencesExt

CONSTANTS
    Programs,   \* the programs considered
    MaxAddr,    \* no word is mapped above this address
    Ra,         \* register 31
    Window,     \* words jump_table looks back; 16 in the program
    MaxCases    \* entries of the largest table it accepts; 256

Addr == Nat

\* "slow": an instruction the interpreter knows and emitOne does not.
\* "bal": the linking REGIMM branches.  "data": a word that is no code.
PlainKinds == {"addiu", "addu", "lui", "sltiu", "lw", "sw"}
ControlKinds == {"branch", "likely", "bal", "jump", "call", "jalr", "jr"}
Kinds == PlainKinds \cup ControlKinds \cup {"slow", "trap", "data"}

\* k, then the fields that kind of word has: target t, registers d, s, r,
\* immediate n.
Word == [k : Kinds, t : Addr, d : Nat, s : Nat, r : Nat, n : Int]

ASSUME MaxAddrAssumption == MaxAddr \in Nat
ASSUME ScanAssumption == Window \in Nat /\ MaxCases \in Nat /\ Ra \in Nat \ {0}
Program(p) ==
    /\ DOMAIN p.mem \subseteq 0 .. MaxAddr
    /\ \A a \in DOMAIN p.mem : p.mem[a] \in Word
    /\ DOMAIN p.hints \subseteq Addr
    /\ \A a \in DOMAIN p.hints : IsFiniteSet(p.hints[a]) /\ p.hints[a] \subseteq Addr
    /\ p.roots \subseteq Addr /\ p.entries \subseteq Addr

ASSUME ProgramsAssumption == \A p \in Programs : Program(p)

Readable(p, a) == a \in DOMAIN p.mem

\* What decode makes of a word; a linking branch counts as a branch.
Decode(w) ==
    CASE w.k = "bal" -> "branch"
      [] w.k \in ControlKinds \ {"bal"} -> w.k
      [] w.k = "trap" -> "trap"
      [] OTHER -> "fall"

Control(p, a) == Readable(p, a) /\ Decode(p.mem[a]) \notin {"fall", "trap"}
Trap(p, a) == Readable(p, a) /\ Decode(p.mem[a]) = "trap"
After(a) == a + 2           \* past the delay slot

Least(S) == CHOOSE x \in S : \A y \in S : x <= y

\* Where the straight-line run from a stops: at a control instruction, at a
\* trap, or where nothing can be read.
RunStops(p, a) ==
    {q \in {a} \cup (a .. MaxAddr + 1) : ~Readable(p, q) \/ Control(p, q) \/ Trap(p, q)}
RunEnd(p, a) == Least(RunStops(p, a))

-----------------------------------------------------------------------------
(* Jump tables.                                                            *)

\* The word of S that a scan from hi down to lo meets first, in a set; nothing if
\* there is none or the scan meets a word it cannot read before it.
Nearest(p, S, hi, lo) ==
    {q \in S \cap (lo .. hi) : q .. hi \subseteq DOMAIN p.mem /\ S \cap (q + 1 .. hi) = {}}

WordsThat(p, k, d) == {q \in DOMAIN p.mem : p.mem[q].k = k /\ p.mem[q].d = d}
Bounds(p) == {q \in DOMAIN p.mem : p.mem[q].k = "sltiu"}

\* The table address and the number of entries that the lw, lui and sltiu before
\* a jr give; the set is empty when one of them is missing.
TablesAt(p, jr) ==
    UNION {UNION {{[base |-> p.mem[hi].n + p.mem[lw].n, count |-> p.mem[b].n] :
                        b \in Nearest(p, Bounds(p), hi - 1, hi - Window)} :
                   hi \in Nearest(p, WordsThat(p, "lui", p.mem[lw].s), lw - 1, jr - Window)} :
            lw \in Nearest(p, WordsThat(p, "lw", p.mem[jr].s), jr - 1, jr - Window)}

\* A word that is read as a table entry; code makes no address that is mapped.
AddrOf(w) == IF w.k = "data" THEN w.t ELSE MaxAddr + 1

\* The entries of a table up to the first that cannot be read.
ReadTable(p, table) ==
    LET bad == {i \in 0 .. table.count - 1 : ~Readable(p, table.base + i)}
        count == Least(bad \cup {table.count})
    IN  [ok |-> bad = {}, out |-> [i \in 1 .. count |-> AddrOf(p.mem[table.base + i - 1])]]

\* r4300_cfg::jump_table: whether it succeeds, and what it appends to out.
JumpTable(p, jr) ==
    LET tables == {table \in TablesAt(p, jr) : table.count \in 1 .. MaxCases}
    IN  IF tables = {} THEN [ok |-> FALSE, out |-> << >>]
        ELSE ReadTable(p, CHOOSE table \in tables : TRUE)

\* The targets of a jr: the table if it can be read, else what was observed,
\* else whatever jump_table had appended before it failed.
IndirectTargets(p, jr) ==
    LET table == JumpTable(p, jr)
    IN IF ~table.ok /\ jr \in DOMAIN p.hints THEN SetToSeq(p.hints[jr]) ELSE table.out

-----------------------------------------------------------------------------
(* Edges.                                                                  *)

\* The successors build records for the control instruction at q.
Succs(p, q) ==
    LET w == p.mem[q]
    IN CASE Decode(w) \in {"branch", "likely"} -> << w.t, After(q) >>
         [] Decode(w) = "jump" -> << w.t >>
         [] Decode(w) \in {"call", "jalr"} -> << After(q) >>
         [] Decode(w) = "jr" -> IF w.s = Ra THEN << >> ELSE IndirectTargets(p, q)

\* The functions called at q.
CallsAt(p, q) ==
    LET w == p.mem[q]
    IN CASE Decode(w) = "call" -> {w.t}
         [] Decode(w) = "jalr" /\ q \in DOMAIN p.hints -> p.hints[q]
         [] OTHER -> {}

-----------------------------------------------------------------------------
(* Blocks.                                                                 *)

\* The word at which a block from a stops: where its run does, or at the first
\* bound it meets on the way.
BlockStop(p, bounds, a) ==
    Least({RunEnd(p, a)} \cup ((a + 1 .. RunEnd(p, a)) \cap bounds))

CutShort(p, bounds, a, q) == ~Readable(p, q) \/ (q # a /\ q \in bounds)

PastTerminator(p, q) == IF Trap(p, q) THEN q + 1 ELSE After(q)

BlockEnd(p, bounds, a) ==
    LET q == BlockStop(p, bounds, a)
    IN  IF CutShort(p, bounds, a, q) THEN q ELSE PastTerminator(p, q)

-----------------------------------------------------------------------------
(* What the walk has to find, from its definition: the least set of block  *)
(* leaders that holds the entry and is closed under the edges.             *)

LeaderSuccs(p, a) == IF Control(p, RunEnd(p, a)) THEN ToSet(Succs(p, RunEnd(p, a))) ELSE {}

ReachLeaders(p, entry) ==
    LET Close[S \in SUBSET Addr] ==
          LET T == S \cup UNION {LeaderSuccs(p, a) : a \in S}
          IN  IF T = S THEN S ELSE Close[T]
    IN  Close[{entry}]

Terminators(p, entry) ==
    {RunEnd(p, a) : a \in ReachLeaders(p, entry)} \cap {q \in DOMAIN p.mem : Control(p, q)}

\* The blocks of the function at entry, each with where it ends.
BlockEnds(p, entry) ==
    LET leaders == ReachLeaders(p, entry)
        bounds == leaders \cup {After(q) : q \in Terminators(p, entry)}
    IN  [a \in leaders |-> BlockEnd(p, bounds, a)]

CallsFrom(p, f) == UNION {CallsAt(p, q) : q \in Terminators(p, f)}

ReachFuncs(p) ==
    LET Close[S \in SUBSET Addr] ==
          LET T == S \cup UNION {CallsFrom(p, f) : f \in S}
          IN  IF T = S THEN S ELSE Close[T]
    IN  Close[p.roots]

=============================================================================
