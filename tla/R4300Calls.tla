----------------------------- MODULE R4300Calls -----------------------------
(***************************************************************************)
(* The guest's calls, as a history that is written along with R4300Bt, and *)
(* the convention about them on which translated code relies: host         *)
(* functions return as guest functions do only as long as the guest calls  *)
(* and returns the way compilers make it.                                  *)
(*                                                                         *)
(* The history and the convention look at the guest alone, at its program, *)
(* pc and registers, never at what is translated or who runs it.           *)
(***************************************************************************)
EXTENDS R4300Bt

VARIABLES
    calls,      \* where the guest's open calls return to, the innermost last
    kept        \* whether the guest has kept to the convention so far

callVars == << vars, calls, kept >>

-----------------------------------------------------------------------------
(* The guest's calls and returns. *)

GuestWord == prog.mem[GuestPc]
AtControl(kinds) == HasSlot(prog, GuestPc) /\ GuestWord.k \in kinds

\* A linking branch calls where it is taken.
Calling ==
    \/ AtControl({"call", "jalr"})
    \/ AtControl({"bal"}) /\ Taken(GuestWord, GuestRegs)

Returning == AtControl({"jr"}) /\ GuestWord.s = Ra

\* Where the slot of a return does not write $31.
SlotKeepsLink == LET w == prog.mem[GuestPc + 1] IN w.k = "sw" \/ w.d # Ra

\* The guest runs no code at 0 and jumps nowhere through a register that is 0; it
\* returns to where its innermost open call was made from; and it comes to the return
\* address of a call only when that call is the innermost and returns, so no function
\* is entered again from the same place before it is left.
Convention ==
    /\ GuestPc # 0
    /\ AtControl({"jr"}) => GuestRegs[GuestWord.s] # 0
    /\ Returning => SlotKeepsLink
    /\ Returning /\ calls # << >> => GuestRegs[Ra] = Last(calls)
    /\ GuestPc \notin ToSet(calls)

-----------------------------------------------------------------------------
(* The history. *)

CallsAfter ==
    IF Calling THEN Append(calls, After(GuestPc))
    ELSE IF Returning /\ calls # << >> THEN Front(calls)
    ELSE calls

\* The steps in which the guest moves, and those that hand it over.
GuestSteps ==
    \/ HostStep \/ InterpStep
    \/ JitPlain \/ JitBranch \/ JitJump \/ JitCall \/ JitReturn \/ JitSwitch

HandOvers == HostRun \/ InterpDone \/ JitOut \/ JitRunOn \/ JitBail \/ Done

CallInit ==
    /\ Init
    /\ calls = << >>
    /\ kept = Convention

CallNext ==
    /\ \/ GuestSteps /\ calls' = CallsAfter
       \/ HandOvers /\ calls' = calls
    /\ kept' = (kept /\ Convention')

CallSpec == CallInit /\ [][CallNext]_callVars
FairCallSpec == CallSpec /\ WF_callVars(CallNext)

-----------------------------------------------------------------------------
(* Properties. *)

\* The convention is all that host functions ask of the guest: as long as it is kept,
\* what a host function tells its caller is what the guest did (r4300bt.cc:640-644,
\* 461-482).
ConventionSuffices == kept => ReturnsFollowGuest

=============================================================================
