----------------------------- MODULE MCR4300Cfg -----------------------------
(***************************************************************************)
(* R4300Cfg on every program whose words are drawn from Choice, a small    *)
(* set for each of seven addresses (nothing at all is one of the choices), *)
(* and on jump tables of every length, whole and running off the end of    *)
(* memory, with and without observed targets.                              *)
(***************************************************************************)
EXTENDS R4300Cfg

W(k, t, d, s, n) == [k |-> k, t |-> t, d |-> d, s |-> s, r |-> 0, n |-> n]
To(k, t) == W(k, t, 0, 0, 0)
Plain == To("addiu", 0)
Return == W("jr", 0, 0, Ra, 0)
Unmapped == To("data", 0)

Mem(words) == [a \in {i \in 0 .. Len(words) - 1 : words[i + 1] # Unmapped} |-> words[a + 1]]
NoHints == << >>

Choice ==
    << {Plain, To("branch", 3), To("call", 4)},
       {Plain, To("branch", 0), To("trap", 0)},
       {Plain, To("likely", 1), To("jalr", 0), To("jump", 5)},
       {Plain, Unmapped, To("call", 0)},
       {Return, To("branch", 2), To("jump", 3)},
       {Plain, To("branch", 5), Unmapped},
       {Return, To("trap", 0)} >>

CodePrograms ==
    {[mem |-> Mem(<< w0, w1, w2, w3, w4, w5, w6, Plain >>), hints |-> h,
      roots |-> {0}, entries |-> {0}] :
        w0 \in Choice[1], w1 \in Choice[2], w2 \in Choice[3], w3 \in Choice[4],
        w4 \in Choice[5], w5 \in Choice[6], w6 \in Choice[7],
        h \in {NoHints, 2 :> {4, 6}}}

\* A bounds check, the address of the table at lo, and the jump; the table is the
\* last words of memory.
TablePrograms ==
    {[mem |-> Mem(<< W("sltiu", 0, 1, 2, n), b, W("lui", 0, 1, 0, 6), w,
                     W("jr", 0, 0, 3, 0), Plain, To("data", 0), e, Return, Plain >>),
      hints |-> h, roots |-> {0}, entries |-> {0}] :
        n \in 0 .. 4, b \in {Plain, To("branch", 8), Unmapped},
        w \in {W("lw", 0, 3, 1, lo) : lo \in {0, 1, 3}} \cup {Plain},
        e \in {To("data", 8), Unmapped},
        h \in {NoHints, 4 :> {8}, 4 :> {0, 5}}}

MCPrograms == CodePrograms \cup TablePrograms

=============================================================================
