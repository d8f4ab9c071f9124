----------------------------- MODULE MCR4300Bt -----------------------------
(***************************************************************************)
(* R4300Bt on families of small guest programs: loops around calls with    *)
(* every kind of delay slot, indirect calls whose targets are known or not,*)
(* nested calls whose inner end bails, switches, and branches into slots   *)
(* and into memory that cannot be read.  What is translated varies, down   *)
(* to nothing.                                                             *)
(***************************************************************************)
EXTENDS R4300Calls

W(k, t, d, s, r, n) == [k |-> k, t |-> t, d |-> d, s |-> s, r |-> r, n |-> n]
Addiu(d, s, n) == W("addiu", 0, d, s, 0, n)
Addu(d, s, r) == W("addu", 0, d, s, r, 0)
Slow(d, s, n) == W("slow", 0, d, s, 0, n)
Lw(d, s, n) == W("lw", 0, d, s, 0, n)
Sw(r, s, n) == W("sw", 0, 0, s, r, n)
Branch(k, s, t) == W(k, t, 0, s, 0, 0)
Jump(k, t) == W(k, t, 0, 0, 0, 0)
Jr(s) == W("jr", 0, 0, s, 0, 0)
Jalr(s) == W("jalr", 0, 0, s, 0, 0)
Nop == Addiu(0, 0, 0)
Break == Jump("trap", 0)

Minus1 == Modulus - 1
NoHints == << >>
Words(base, words) == [a \in base .. base + Len(words) - 1 |-> words[a - base + 1]]
Guest(mem, hints, roots, entries) ==
    [mem |-> mem, hints |-> hints, roots |-> roots, entries |-> entries]

\* A loop around a call.
Loops ==
    {Guest(Words(1, << Sw(Ra, 0, 3), Addiu(1, 0, 2),
                         Jump("call", 12), slot1,
                         Addiu(1, 1, Minus1), Branch(loop, 1, 3), slot2,
                         Lw(Ra, 0, 3), Jr(Ra), Addiu(2, 2, 1), Break,
                         Branch(inner, 2, 15), slot3, body, Jr(Ra), Addu(2, 2, 1) >>),
             NoHints, {1}, entries) :
        slot1 \in {Addiu(2, 2, 1), Sw(2, 0, 0), Slow(2, 2, 5), Addu(1, 1, 0)},
        slot2 \in {Sw(1, 0, 1), Slow(2, 2, 1)},
        slot3 \in {Sw(1, 0, 2), Addiu(2, 0, 0)},
        loop \in {"branch", "likely"}, inner \in {"branch", "likely"},
        body \in {Addiu(2, 2, 3), Slow(2, 2, 3)},
        entries \in {{1}, {1, 12}, {12}}}

\* main calls g or h through a register; g calls h.
Calls ==
    {Guest(Words(1, << Sw(Ra, 0, 3), Addiu(1, 0, t), Jalr(1), slot,
                         Lw(Ra, 0, 3), Jr(Ra), Nop, Break >>)
             @@ Words(11, << Break >>)
             @@ Words(12, << Sw(Ra, 0, 2), Jump("call", 20), Sw(1, 0, 1), Lw(Ra, 0, 2),
                             Jr(Ra), after >>)
             @@ Words(20, << body, Jr(Ra), after >>),
             h, {1, 12, 20}, {1} \cup entries) :
        t \in {12, 20},
        slot \in {Addiu(1, 0, 0), Slow(1, 0, 1), Sw(1, 0, 0)},
        body \in {Addiu(2, 2, 1), Slow(2, 2, 1)},
        after \in {Slow(2, 2, 1), Addiu(2, 0, 5)},
        h \in {NoHints, 3 :> {12}, 3 :> {12, 20}},
        entries \in SUBSET {12, 20}}

\* A switch over the words at 24, which are also what memory holds there.
Switches ==
    {Guest(Words(1, << W("sltiu", 0, 3, 1, 0, n), W("lui", 0, 2, 0, 0, 24), Addu(2, 2, 1),
                         Lw(2, 2, 0), Jr(2), slot, Addiu(1, 1, 1), Break,
                         Jump("jump", 7), Addiu(2, 0, 6), Break >>)
             @@ (24 :> W("data", 7, 0, 0, 0, 0)) @@ (25 :> W("data", 9, 0, 0, 0, 0)),
             h, {1}, {1}) :
        n \in {1, 2, 3}, slot \in {Addiu(2, 0, 0), Sw(2, 0, 4), Slow(1, 1, 1)},
        h \in {NoHints, 5 :> {7, 9}}}

\* Branches into a delay slot, into unmapped memory, and past a linking branch, which
\* may only be there for its link.
Odd ==
    {Guest(Words(1, << Branch(k, 1, t), Nop, Jump("jump", 8), Addiu(2, 2, 1), Nop, Break >>)
             @@ Words(8, << Branch("bal", test, link), Nop, Break, Break >>),
             NoHints, {1}, {1}) :
        k \in {"branch", "likely"}, t \in {4, 5, 22}, test \in {1, Ra}, link \in {6, 10}}

\* main calls f, f calls g, and g, which is not translated, calls f.
Recursion ==
    {Guest(Words(1, << Addiu(2, 0, 0), Jump("call", 5), Nop, Jump("trap", 0),
                         Sw(Ra, 2, 0), Addiu(2, 2, 1), Branch("branch", 1, 11),
                         Addiu(1, 1, Minus1), Jump("jump", 13), Nop,
                         Jump("call", 20), Nop,
                         Addiu(2, 2, Minus1), Lw(Ra, 2, 0), Jr(Ra), Nop >>)
             @@ Words(20, << Sw(Ra, 2, 0), Addiu(2, 2, 1), Jump("call", 5), Nop,
                             Addiu(2, 2, Minus1), Lw(Ra, 2, 0), Jr(Ra), Nop >>),
             NoHints, {1}, {1, 5})}

MCPrograms == UNION {Loops, Calls, Switches, Odd}

MCStartRegs == {[r \in Regs |-> IF r = Ra THEN 11 ELSE IF r = 1 THEN v ELSE 0] : v \in 0 .. 2}
MCStartRams == {[a \in RamAddr |-> CASE a = 0 -> 7 [] a = 1 -> 9 [] a = 2 -> 11 [] OTHER -> 0]}

=============================================================================
