------------------------------ MODULE MCSpRegs ------------------------------
(***************************************************************************)
(* Banks of six bytes, rows of two to six bytes, and an RDRAM in which     *)
(* every byte can be told apart from every byte of the RSP's memory.       *)
(***************************************************************************)
EXTENDS SpRegs

MCByte == 0 .. 99
MCInitMem == [a \in 0 .. 11 |-> a]
MCInitDram == [a \in 0 .. 17 |-> 50 + a]

=============================================================================
