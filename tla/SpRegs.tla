------------------------------- MODULE SpRegs -------------------------------
(***************************************************************************)
(* The SP registers as rsp_t::mtc0 writes them, called by the interpreter, *)
(* by translated code through rspbt_mtc0, and by the CPU side of the host. *)
(* A write of a length register runs the whole DMA, row by row, between    *)
(* the RSP's two banks (DMEM, then IMEM) and RDRAM.                        *)
(*                                                                         *)
(* RDRAM is the host's (external); it extends a row past DramSize, because *)
(* the code wraps the address of a row and not that of a byte.             *)
(***************************************************************************)
EXTENDS Integers

CONSTANTS
    BankSize,       \* bytes of DMEM and of IMEM; 4096 in the program
    Grain,          \* alignment of addresses and row lengths; 8
    DramSize,       \* reach of sp_dram_addr; 2^24
    MaxRows,        \* 256
    GenMod,         \* values of imem_gen; 2^64, which no transfer comes near
    Signals,        \* the SIG bits of sp_status; eight
    Byte,           \* what a byte can hold
    MemAddrs, DramAddrs, Lens, Counts, Skips,    \* the fields that get written
    InitMem, InitDram,
    MaxWrites       \* register writes in a behaviour

Offset == 0 .. BankSize - 1
MemAddr == 0 .. 2 * BankSize - 1
DramAddr == 0 .. DramSize - 1
Dram == 0 .. DramSize + BankSize - 1
Gen == 0 .. GenMod - 1

ASSUME SizeAssumption ==
    /\ BankSize \in Nat /\ Grain \in Nat /\ DramSize \in Nat
    /\ Grain > 0 /\ BankSize > 0 /\ DramSize > 0 /\ BankSize % Grain = 0
ASSUME RowsAssumption == MaxRows \in Nat /\ GenMod \in Nat /\ MaxRows < GenMod
ASSUME FieldAssumption ==
    /\ MemAddrs \subseteq MemAddr /\ DramAddrs \subseteq DramAddr
    /\ Lens \subseteq Offset /\ Counts \subseteq 0 .. MaxRows - 1 /\ Skips \subseteq Offset
    /\ MaxWrites \in Nat
ASSUME ContentAssumption == InitMem \in [MemAddr -> Byte] /\ InitDram \in [Dram -> Byte]

VARIABLES
    mem, rdram, sp_mem_addr, sp_dram_addr, imem_gen,
    sp_status,      \* the signals that are set
    call,           \* where mtc0 stands: idle, in dma's loop, or back in rspbt_mtc0
    before,         \* mem, rdram and imem_gen when the transfer was started
    xfer,           \* dma's locals; row counts the rows done
    writes          \* register writes made

vars == << mem, rdram, sp_mem_addr, sp_dram_addr, imem_gen, sp_status, call, before,
           xfer, writes >>

Aligned(a) == a - (a % Grain)
RowLen(l) == Aligned(l) + Grain            \* (l | 7) + 1

Xfer == [to_rsp : BOOLEAN, len : Nat \ {0}, count : 1 .. MaxRows, skip : Offset,
         bank : {0, BankSize}, off0 : Offset, off : Offset,
         dram0 : DramAddr, dram : DramAddr, row : 0 .. MaxRows]

TypeOK ==
    /\ mem \in [MemAddr -> Byte] /\ rdram \in [Dram -> Byte]
    /\ sp_mem_addr \in MemAddr /\ sp_dram_addr \in DramAddr
    /\ imem_gen \in Gen
    /\ sp_status \subseteq Signals
    /\ call \in {"idle", "dma", "back"}
    /\ before \in [mem : [MemAddr -> Byte], rdram : [Dram -> Byte], gen : Gen]
    /\ call # "idle" => xfer \in Xfer
    /\ writes \in 0 .. MaxWrites

Init ==
    /\ mem = InitMem /\ rdram = InitDram
    /\ sp_mem_addr = 0 /\ sp_dram_addr = 0 /\ imem_gen = 0 /\ sp_status = {}
    /\ call = "idle" /\ xfer = << >>
    /\ before = [mem |-> InitMem, rdram |-> InitDram, gen |-> 0]
    /\ writes = 0

-----------------------------------------------------------------------------
(* Register writes. *)

Write == call = "idle" /\ writes < MaxWrites /\ writes' = writes + 1

SetMemAddr(a) ==
    /\ Write
    /\ sp_mem_addr' = a
    /\ UNCHANGED << mem, rdram, sp_dram_addr, imem_gen, sp_status, call, before, xfer >>

SetDramAddr(a) ==
    /\ Write
    /\ sp_dram_addr' = a
    /\ UNCHANGED << mem, rdram, sp_mem_addr, imem_gen, sp_status, call, before, xfer >>

\* apply_status_write: a clear and a set bit for each signal; set wins.
SetStatus(clear, set) ==
    /\ Write
    /\ sp_status' = (sp_status \ clear) \cup set
    /\ UNCHANGED << mem, rdram, sp_mem_addr, sp_dram_addr, imem_gen, call, before, xfer >>

StartDma(len, count, skip, to_rsp) ==
    /\ Write
    /\ call' = "dma"
    /\ before' = [mem |-> mem, rdram |-> rdram, gen |-> imem_gen]
    /\ LET bank == IF sp_mem_addr >= BankSize THEN BankSize ELSE 0
           off == Aligned(sp_mem_addr - bank)
           dram == Aligned(sp_dram_addr)
       IN  xfer' = [to_rsp |-> to_rsp, len |-> RowLen(len), count |-> count + 1,
                    skip |-> skip, bank |-> bank, off0 |-> off, off |-> off,
                    dram0 |-> dram, dram |-> dram, row |-> 0]
    /\ UNCHANGED << mem, rdram, sp_mem_addr, sp_dram_addr, imem_gen, sp_status >>

-----------------------------------------------------------------------------
(* One row of the transfer. *)

\* Mutant: a row is not cut off at the end of its bank.
BytesUncut == xfer.len

\* A row never leaves its bank.
Bytes == IF xfer.off + xfer.len > BankSize THEN BankSize - xfer.off ELSE xfer.len

Covered == xfer.bank + xfer.off .. xfer.bank + xfer.off + Bytes - 1
DramCovered == xfer.dram .. xfer.dram + Bytes - 1

\* Mutant: a transfer into the other bank is announced.
GenAfterData == IF xfer.bank = 0 THEN (imem_gen + 1) % GenMod ELSE imem_gen

\* The code just changed underneath anything running.
GenAfter == IF xfer.bank = BankSize THEN (imem_gen + 1) % GenMod ELSE imem_gen

\* Mutant: the row count is ignored.
FirstRowOnly == xfer.row = 0

RowsLeft == xfer.row < xfer.count

\* Mutant: the offset does not wrap.
NextOffUnwrapped == xfer.off + Bytes

NextOff == (xfer.off + Bytes) % BankSize

Row ==
    /\ call = "dma" /\ RowsLeft
    /\ IF xfer.to_rsp
         THEN /\ mem' = [a \in MemAddr |->
                           IF a \in Covered THEN rdram[xfer.dram + (a - xfer.bank - xfer.off)]
                                            ELSE mem[a]]
              /\ imem_gen' = GenAfter
              /\ UNCHANGED rdram
         ELSE /\ rdram' = [a \in Dram |->
                             IF a \in DramCovered THEN mem[xfer.bank + xfer.off + (a - xfer.dram)]
                                                  ELSE rdram[a]]
              /\ UNCHANGED << mem, imem_gen >>
    /\ xfer' = [xfer EXCEPT !.off = NextOff,
                            !.dram = (@ + Bytes + xfer.skip) % DramSize,
                            !.row = @ + 1]
    /\ UNCHANGED << sp_mem_addr, sp_dram_addr, sp_status, call, before, writes >>

EndDma ==
    /\ call = "dma" /\ ~RowsLeft
    /\ sp_mem_addr' = xfer.bank + xfer.off
    /\ sp_dram_addr' = xfer.dram
    /\ call' = "back"
    /\ UNCHANGED << mem, rdram, imem_gen, sp_status, before, xfer, writes >>

\* What rspbt_mtc0 returns.
Changed == imem_gen # before.gen

Back ==
    /\ call = "back"
    /\ call' = "idle" /\ xfer' = << >>
    /\ before' = [mem |-> mem, rdram |-> rdram, gen |-> imem_gen]
    /\ UNCHANGED << mem, rdram, sp_mem_addr, sp_dram_addr, imem_gen, sp_status, writes >>

Over == call = "idle" /\ writes = MaxWrites /\ UNCHANGED vars

Next ==
    \/ \E a \in MemAddrs : SetMemAddr(a)
    \/ \E a \in DramAddrs : SetDramAddr(a)
    \/ \E clear, set \in SUBSET Signals : SetStatus(clear, set)
    \/ \E l \in Lens, c \in Counts, s \in Skips, to_rsp \in BOOLEAN : StartDma(l, c, s, to_rsp)
    \/ Row \/ EndDma \/ Back \/ Over

Spec == Init /\ [][Next]_vars

-----------------------------------------------------------------------------
(* The inductive invariant behind ReportsReplacement: one bump for every row *)
(* that went into IMEM, and fewer rows than imem_gen has values.            *)

Bumped(g, n) == IF g + n < GenMod THEN g + n ELSE g + n - GenMod

Announced ==
    call # "idle" =>
        /\ xfer.row <= xfer.count
        /\ call = "back" => xfer.row = xfer.count
        /\ xfer.to_rsp /\ xfer.bank = BankSize =>
             imem_gen = Bumped(before.gen, xfer.row)

-----------------------------------------------------------------------------
(* The inductive invariant behind DeliversEveryRow: as long as nothing has  *)
(* wrapped or been cut off, the rows done so far are where they belong.     *)

Unwrapped ==
    /\ xfer.off0 + xfer.count * xfer.len <= BankSize
    /\ xfer.dram0 + xfer.count * (xfer.len + xfer.skip) <= DramSize

RowsDelivered(n) ==
    \A k \in 0 .. n - 1, i \in 0 .. xfer.len - 1 :
        mem[xfer.bank + xfer.off0 + k * xfer.len + i]
          = rdram[xfer.dram0 + k * (xfer.len + xfer.skip) + i]

Delivered ==
    call # "idle" /\ Unwrapped =>
        /\ xfer.off = (xfer.off0 + xfer.row * xfer.len) % BankSize
        /\ xfer.dram = (xfer.dram0 + xfer.row * (xfer.len + xfer.skip)) % DramSize
        /\ RowsDelivered(xfer.row)
        /\ call = "back" => sp_mem_addr = xfer.bank + xfer.off /\ sp_dram_addr = xfer.dram

-----------------------------------------------------------------------------
(* Properties. *)

Imem(m) == [o \in Offset |-> m[BankSize + o]]

\* rspbt.cc:26-27: the write is reported to the translated code whenever it left
\* other code in IMEM, however many rows the transfer had.
ReportsReplacement == call = "back" /\ Imem(mem) # Imem(before.mem) => Changed

\* rsp.cc:51, "a row never leaves its 4 KB bank": a transfer leaves the bank it is
\* not for alone, so that data paged into DMEM never touches the code.
KeepsToItsBank ==
    call # "idle" =>
        \A a \in MemAddr :
            (~xfer.to_rsp \/ a \notin xfer.bank .. xfer.bank + BankSize - 1)
                => mem[a] = before.mem[a]

\* rsp.cc:35-39: every row is delivered, from where the stride says it is, and the
\* addresses left in the registers are those of the row that would follow.
DeliversEveryRow ==
    call = "back" /\ Unwrapped =>
        /\ RowsDelivered(xfer.count)
        /\ sp_mem_addr = xfer.bank + ((xfer.off0 + xfer.count * xfer.len) % BankSize)
        /\ sp_dram_addr = (xfer.dram0 + xfer.count * (xfer.len + xfer.skip)) % DramSize

=============================================================================
