----------------------------- MODULE R4300Core -----------------------------
(***************************************************************************)
(* The interpreter of the main CPU (the simulator's execMips), as          *)
(* r4300bt.cc uses it: one step runs the instruction at pc, and a control  *)
(* instruction together with its delay slot.  It is what translated code   *)
(* has to implement.                                                       *)
(*                                                                         *)
(* A task stops at a trap and where there is nothing to run.               *)
(***************************************************************************)
EXTENDS R4300Isa

VARIABLES prog, pc, gpr, ram
vars == << prog, pc, gpr, ram >>

-----------------------------------------------------------------------------
Init ==
    /\ prog \in Programs
    /\ pc \in prog.entries
    /\ gpr \in StartRegs
    /\ ram \in StartRams

StepPlain ==
    /\ Readable(prog, pc) /\ Falls(prog.mem[pc])
    /\ LET w == prog.mem[pc]
       IN  /\ gpr' = RegsAfter(w, gpr, ram)
           /\ ram' = RamAfter(w, gpr, ram)
    /\ pc' = pc + 1
    /\ UNCHANGED prog

StepControl ==
    /\ HasSlot(prog, pc)
    /\ LET w == prog.mem[pc]
           slot == prog.mem[pc + 1]
           g == RegsForSlot(w, gpr, pc)
       IN  /\ gpr' = IF SlotRuns(w, gpr) THEN RegsAfter(slot, g, ram) ELSE g
           /\ ram' = IF SlotRuns(w, gpr) THEN RamAfter(slot, g, ram) ELSE ram
           /\ pc' = Target(w, gpr, pc)
    /\ UNCHANGED prog

Next == StepPlain \/ StepControl

Spec == Init /\ [][Next]_vars

=============================================================================
