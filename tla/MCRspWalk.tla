----------------------------- MODULE MCRspWalk -----------------------------
(***************************************************************************)
(* RspWalk on every image whose words are drawn from Choice, a small set   *)
(* of instructions for each of five addresses.  The choices contain calls  *)
(* that nest past the depth bound, recursion, branches into a delay slot,  *)
(* code that wraps round the end of IMEM, jalr, data and illegal slots.    *)
(***************************************************************************)
EXTENDS RspWalk

I(op, t) == [op |-> op, t |-> t]

Choice ==
    << {I("plain", 0), I("jal", 3), I("jalr", 0), I("branch", 2)},
       {I("plain", 0), I("illegal", 0), I("jal", 3)},
       {I("plain", 0), I("break", 0), I("jal", 4), I("jalr", 0)},
       {I("plain", 0), I("jr", 0), I("jal", 0), I("j", 1)},
       {I("plain", 0), I("jr", 0), I("break", 0)} >>

MCImages == {[a \in 0 .. 4 |-> << w0, w1, w2, w3, w4 >>[a + 1]] :
                w0 \in Choice[1], w1 \in Choice[2], w2 \in Choice[3],
                w3 \in Choice[4], w4 \in Choice[5]}

MCRootSets == {{0}, {0, 3}, {1, 4}}

=============================================================================
