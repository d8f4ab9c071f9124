----------------------------- MODULE MCRspMemBt -----------------------------
(***************************************************************************)
(* Two vector registers of four bytes, a DMEM of two rows and an IMEM of   *)
(* the same size.  Every byte of memory and of the registers is different  *)
(* at the start, and the base register starts at every address.            *)
(***************************************************************************)
EXTENDS RspMemBt

MCInitMems == {[a \in 0 .. 2 * DmemSize - 1 |-> a]}
MCInitVecs ==
    {[w \in Vec |-> [l \in Lane |->
        [hi |-> 2 * DmemSize + w * RegBytes + 2 * l,
         lo |-> 2 * DmemSize + w * RegBytes + 2 * l + 1]]]}
MCInitGprs == 0 .. DmemSize - 1
MCValues == {DmemSize - 1}
MCFixedSizes == {2}
MCOffsets == {-1}

=============================================================================
