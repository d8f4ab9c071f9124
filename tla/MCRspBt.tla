------------------------------- MODULE MCRspBt -------------------------------
(***************************************************************************)
(* Microcode images of eight words for RspBt, three scalar registers       *)
(* (r0, r1 and the link register) and call strings of depth one.           *)
(***************************************************************************)
EXTENDS RspBt

Word == [op |-> "plain", t |-> 0, rs |-> 0, rt |-> 0, rd |-> 0, imm |-> 0, c0 |-> "other"]
Op(op) == [Word EXCEPT !.op = op]
Li(d, v) == [Word EXCEPT !.rd = d, !.imm = v]
Addi(d, s, v) == [Word EXCEPT !.rd = d, !.rs = s, !.imm = v]
Branch(op, s, off) == [Word EXCEPT !.op = op, !.rs = s, !.t = off]
Jump(op, a) == [Word EXCEPT !.op = op, !.t = a]
JumpReg(op, d, s) == [Word EXCEPT !.op = op, !.rd = d, !.rs = s]
MtC0(c, s) == [Word EXCEPT !.op = "mtc0", !.c0 = c, !.rt = s]
Program(ws) == [a \in 0 .. 7 |-> ws[a + 1]]

\* A call whose callee pages an overlay in over itself and its caller.
CallAndSwap == Program(<<
    Jump("jal", 3), Li(1, 1), Op("break"),
    MtC0("mem", 1), MtC0("rd_len", 1), JumpReg("jr", 0, 2), Addi(1, 1, 1), Op("illegal") >>)

\* Continues at 5 after the swap: a call, a jalr that returns to the call's return
\* address or anywhere else, a dispatching jr, and the next overlay.
Dispatcher == Program(<<
    JumpReg("jr", 0, 1), Addi(1, 1, 5), JumpReg("jalr", 2, 1), MtC0("dram", 2),
    MtC0("rd_len", 1), Jump("jal", 2), Addi(1, 1, 6), Op("break") >>)

\* A call too deep for a call string, a loop, a branch both ways, and an SP
\* register write that ends the process.
Awkward == Program(<<
    Jump("jal", 2), Addi(1, 1, 3), Jump("jal", 4), MtC0("wr_len", 1),
    Branch("branch", 1, 3), Addi(1, 1, 3), Op("break"), MtC0("bad", 0) >>)

\* Words that only the interpreter knows, one of them a linking branch, and
\* instructions that name r0 as their destination.
InterpOnly == Program(<<
    Branch("bal", 1, 2), Op("interp"), Op("break"), JumpReg("jr", 0, 2),
    Addi(0, 1, 3), Op("break"), Op("break"), Addi(0, 1, 3) >>)

MCImages == {CallAndSwap, Dispatcher, Awkward, InterpOnly}
MCDmaImage(img, m, d, x) ==
    IF img = CallAndSwap THEN Dispatcher ELSE IF d = 4 THEN CallAndSwap ELSE Awkward
MCDmaMem(m, x) == (m + 2) % 4
MCDmaDram(d, x) == (d + 4) % 8
MCDmaRows(x) == 1 + (x % 2)
MCImemBank == {1, 3, 5, 7}

\* A hash that tells the images apart.
MCHashOf(img) == CASE img = CallAndSwap -> 1 [] img = Dispatcher -> 2 [] img = Awkward -> 3 [] OTHER -> 4

\* A hash under which all images collide.
MCCollidingHashOf(img) == 1

\* A taken jump whose delay slot pages the overlay in.
SlotSwap == Program(<<
    Li(1, 1), MtC0("mem", 1), Jump("j", 7), MtC0("rd_len", 1),
    Op("break"), Op("break"), Op("break"), Op("break") >>)
AfterSlotSwap == Program(<<
    Op("break"), Op("break"), Op("break"), Op("break"),
    Addi(1, 1, 1), Op("break"), Op("break"), Addi(1, 1, 2) >>)
MCSlotImages == {SlotSwap, AfterSlotSwap}
MCSlotDmaImage(img, m, d, x) == AfterSlotSwap
MCSlotHashOf(img) == IF img = SlotSwap THEN 1 ELSE 2

MCHintSets == {{}, {5}}

=============================================================================
