---------------------------- MODULE SpRegsProofs ----------------------------
(***************************************************************************)
(* Proofs about SpRegs: a DMA keeps to its bank, and one that changes the  *)
(* code is always noticed by whoever compares imem_gen around it.          *)
(***************************************************************************)
EXTENDS SpRegs, TLAPS

\* Rounding down to the grain stays in range.
LEMMA AlignedType ==
    ASSUME NEW a \in Nat
    PROVE  Aligned(a) \in Nat /\ Aligned(a) <= a
<1>1. a % Grain \in 0 .. Grain - 1
  BY SizeAssumption
<1>2. a % Grain <= a
  <2>1. CASE a < Grain
    BY <2>1, SizeAssumption
  <2>2. CASE a >= Grain
    BY <1>1, <2>2, SizeAssumption
  <2> QED
    BY <2>1, <2>2, SizeAssumption
<1> QED
  BY <1>1, <1>2, SizeAssumption DEF Aligned

\* A row has at least one byte, and the bytes of it that are copied lie in its bank.
LEMMA BytesType ==
    ASSUME xfer \in Xfer
    PROVE  /\ Bytes \in Nat
           /\ xfer.bank + xfer.off + Bytes <= xfer.bank + BankSize
           /\ Covered \subseteq xfer.bank .. xfer.bank + BankSize - 1
           /\ Covered \subseteq MemAddr
           /\ Bytes <= BankSize
           /\ NextOff \in Offset
BY SizeAssumption DEF Xfer, Bytes, Covered, Offset, MemAddr, NextOff

\* Bumping stays in range, adds up, and cannot come back round to the start.
LEMMA BumpedType ==
    ASSUME NEW g \in Gen, NEW n \in 0 .. MaxRows
    PROVE  /\ Bumped(g, n) \in Gen
           /\ Bumped(g, 0) = g
           /\ n > 0 => Bumped(g, n) # g
           /\ n < MaxRows => (Bumped(g, n) + 1) % GenMod = Bumped(g, n + 1)
<1>1. Bumped(g, n) \in Gen /\ Bumped(g, 0) = g /\ (n > 0 => Bumped(g, n) # g)
  BY RowsAssumption DEF Bumped, Gen
<1>2. ASSUME n < MaxRows PROVE (Bumped(g, n) + 1) % GenMod = Bumped(g, n + 1)
  <2>1. CASE Bumped(g, n) + 1 < GenMod
    <3>1. (Bumped(g, n) + 1) % GenMod = Bumped(g, n) + 1
      BY <1>1, <2>1, RowsAssumption DEF Gen
    <3> QED
      BY <1>2, <2>1, <3>1, RowsAssumption DEF Bumped, Gen
  <2>2. CASE Bumped(g, n) + 1 = GenMod
    <3>1. (Bumped(g, n) + 1) % GenMod = 0
      BY <2>2, RowsAssumption
    <3> QED
      BY <1>2, <2>2, <3>1, RowsAssumption DEF Bumped, Gen
  <2> QED
    BY <1>1, <2>1, <2>2, RowsAssumption DEF Gen
<1> QED
  BY <1>1, <1>2

-----------------------------------------------------------------------------

\* A step keeps the types.
LEMMA StepTypes == TypeOK /\ [Next]_vars => TypeOK'
<1> SUFFICES ASSUME TypeOK, [Next]_vars PROVE TypeOK'
  OBVIOUS
<1>a. Write => writes' \in 0 .. MaxWrites
  BY FieldAssumption DEF Write, TypeOK
<1>1. ASSUME NEW a \in MemAddrs, SetMemAddr(a) PROVE TypeOK'
  BY <1>1, <1>a, FieldAssumption DEF SetMemAddr, Write, TypeOK
<1>2. ASSUME NEW a \in DramAddrs, SetDramAddr(a) PROVE TypeOK'
  BY <1>2, <1>a, FieldAssumption DEF SetDramAddr, Write, TypeOK
<1>3. ASSUME NEW clear \in SUBSET Signals, NEW set \in SUBSET Signals, SetStatus(clear, set)
      PROVE  TypeOK'
  BY <1>3, <1>a DEF SetStatus, Write, TypeOK
<1>4. ASSUME NEW l \in Lens, NEW c \in Counts, NEW s \in Skips, NEW b \in BOOLEAN,
             StartDma(l, c, s, b)
      PROVE  TypeOK'
  <2> DEFINE bank == IF sp_mem_addr >= BankSize THEN BankSize ELSE 0
             off == Aligned(sp_mem_addr - bank)
             dram == Aligned(sp_dram_addr)
  <2>1. sp_mem_addr - bank \in Offset /\ sp_dram_addr \in Nat /\ l \in Nat
    BY SizeAssumption, FieldAssumption DEF TypeOK, MemAddr, DramAddr, Offset
  <2>2. off \in Offset /\ dram \in DramAddr /\ RowLen(l) \in Nat \ {0}
    BY <2>1, AlignedType, SizeAssumption DEF TypeOK, Offset, DramAddr, RowLen
  <2>3. c + 1 \in 1 .. MaxRows /\ s \in Offset /\ 0 \in 0 .. MaxRows
    BY FieldAssumption, RowsAssumption
  <2>4. xfer' = [to_rsp |-> b, len |-> RowLen(l), count |-> c + 1,
                 skip |-> s, bank |-> bank, off0 |-> off, off |-> off,
                 dram0 |-> dram, dram |-> dram, row |-> 0]
    BY <1>4 DEF StartDma
  <2>5. bank \in {0, BankSize}
    OBVIOUS
  <2> HIDE DEF bank, off, dram
  <2>6. xfer' \in Xfer
    BY <2>2, <2>3, <2>4, <2>5 DEF Xfer
  <2>7. before' \in [mem : [MemAddr -> Byte], rdram : [Dram -> Byte], gen : Gen]
    BY <1>4 DEF StartDma, TypeOK
  <2> QED
    BY <1>4, <1>a, <2>6, <2>7 DEF StartDma, TypeOK
<1>5. CASE Row
  <2>1. xfer \in Xfer /\ xfer.row < xfer.count
    BY <1>5 DEF Row, RowsLeft, TypeOK
  <2>2. xfer' \in Xfer
    <3>1. xfer.row + 1 \in 0 .. MaxRows
      BY <2>1, RowsAssumption DEF Xfer
    <3>2. (xfer.dram + Bytes + xfer.skip) % DramSize \in DramAddr
      BY <2>1, BytesType, SizeAssumption DEF Xfer, DramAddr, Offset
    <3> QED
      BY <1>5, <2>1, <3>1, <3>2, BytesType DEF Row, Xfer
  <2>3. GenAfter \in Gen
    BY RowsAssumption DEF GenAfter, TypeOK, Gen
  <2>4. ASSUME xfer.to_rsp
        PROVE  mem' \in [MemAddr -> Byte] /\ imem_gen' \in Gen /\ rdram' = rdram
    <3>1. ASSUME NEW a \in Covered PROVE xfer.dram + (a - xfer.bank - xfer.off) \in Dram
      BY <2>1, <3>1, BytesType, SizeAssumption DEF Xfer, Covered, Dram, DramAddr, Offset
    <3> QED
      BY <1>5, <2>3, <2>4, <3>1 DEF Row, TypeOK
  <2>5. ASSUME ~xfer.to_rsp
        PROVE  rdram' \in [Dram -> Byte] /\ imem_gen' = imem_gen /\ mem' = mem
    <3>1. ASSUME NEW a \in DramCovered PROVE xfer.bank + xfer.off + (a - xfer.dram) \in MemAddr
      BY <2>1, <3>1, BytesType, SizeAssumption
      DEF Xfer, DramCovered, MemAddr, DramAddr, Offset
    <3> QED
      BY <1>5, <2>5, <3>1 DEF Row, TypeOK
  <2> QED
    BY <1>5, <2>2, <2>4, <2>5 DEF Row, TypeOK
<1>6. CASE EndDma
  <2>1. xfer \in Xfer
    BY <1>6 DEF EndDma, TypeOK
  <2>2. xfer.bank + xfer.off \in MemAddr /\ xfer.dram \in DramAddr
    BY <2>1, SizeAssumption DEF Xfer, MemAddr, Offset
  <2> QED
    BY <1>6, <2>1, <2>2 DEF EndDma, TypeOK
<1>7. CASE Back
  BY <1>7 DEF Back, TypeOK
<1>8. CASE Over \/ UNCHANGED vars
  BY <1>8 DEF Over, vars, TypeOK
<1> QED
  BY <1>1, <1>2, <1>3, <1>4, <1>5, <1>6, <1>7, <1>8 DEF Next

\* The type invariant of the SP registers.
THEOREM SpTypeCorrect == Spec => []TypeOK
<1>1. Init => TypeOK
  BY SizeAssumption, RowsAssumption, ContentAssumption, FieldAssumption
  DEF Init, TypeOK, MemAddr, DramAddr, Gen
<1> QED
  BY <1>1, StepTypes, PTL DEF Spec

\* A transfer leaves the bank it is not for alone, whatever its length, row count,
\* stride and start (rsp.cc:48-64).
THEOREM DmaKeepsToItsBank == Spec => []KeepsToItsBank
<1>1. Init => KeepsToItsBank
  BY DEF Init, KeepsToItsBank
<1>2. TypeOK /\ KeepsToItsBank /\ [Next]_vars => KeepsToItsBank'
  <2> SUFFICES ASSUME TypeOK, KeepsToItsBank, [Next]_vars PROVE KeepsToItsBank'
    OBVIOUS
  <2>1. CASE call' = "idle"
    BY <2>1 DEF KeepsToItsBank
  <2>2. ASSUME NEW l \in Lens, NEW c \in Counts, NEW s \in Skips, NEW b \in BOOLEAN,
               StartDma(l, c, s, b)
        PROVE  KeepsToItsBank'
    BY <2>2 DEF StartDma, KeepsToItsBank
  <2>3. CASE Row
    <3>1. /\ call = "dma" /\ xfer \in Xfer /\ before' = before
          /\ xfer'.bank = xfer.bank /\ xfer'.to_rsp = xfer.to_rsp
      BY <2>3 DEF Row, TypeOK, Xfer
    <3>2. \A a \in MemAddr :
            ~xfer.to_rsp \/ a \notin xfer.bank .. xfer.bank + BankSize - 1 => mem'[a] = mem[a]
      BY <2>3, <3>1, BytesType DEF Row
    <3> QED
      BY <3>1, <3>2 DEF KeepsToItsBank
  <2>4. CASE EndDma \/ UNCHANGED vars
    BY <2>4 DEF EndDma, vars, KeepsToItsBank
  <2> QED
    BY <2>1, <2>2, <2>3, <2>4
    DEF Next, SetMemAddr, SetDramAddr, SetStatus, Write, Back, Over, vars
<1> QED
  BY <1>1, <1>2, SpTypeCorrect, PTL DEF Spec

\* Rows are counted, and each that goes into IMEM is announced.
LEMMA RowsAreAnnounced == Spec => []Announced
<1>1. Init => Announced
  BY DEF Init, Announced
<1>2. TypeOK /\ Announced /\ [Next]_vars => Announced'
  <2> SUFFICES ASSUME TypeOK, Announced, [Next]_vars PROVE Announced'
    OBVIOUS
  <2>1. CASE call' = "idle"
    BY <2>1 DEF Announced
  <2>2. ASSUME NEW l \in Lens, NEW c \in Counts, NEW s \in Skips, NEW b \in BOOLEAN,
               StartDma(l, c, s, b)
        PROVE  Announced'
    <3>1. /\ call' = "dma" /\ xfer'.row = 0 /\ xfer'.count = c + 1 /\ before'.gen = imem_gen
          /\ imem_gen' = imem_gen /\ c \in Nat
      BY <2>2, FieldAssumption, RowsAssumption DEF StartDma
    <3> QED
      BY <3>1, BumpedType, RowsAssumption DEF TypeOK, Announced
  <2>3. CASE Row
    <3>1. /\ call = "dma" /\ call' = "dma" /\ xfer \in Xfer /\ before' = before
          /\ xfer'.bank = xfer.bank /\ xfer'.to_rsp = xfer.to_rsp
          /\ xfer'.count = xfer.count /\ xfer'.row = xfer.row + 1 /\ xfer.row < xfer.count
      BY <2>3 DEF Row, RowsLeft, TypeOK, Xfer
    <3>2. xfer.row \in 0 .. MaxRows /\ xfer.row < MaxRows /\ xfer.row + 1 <= xfer.count
      BY <3>1, RowsAssumption DEF Xfer
    <3>3. xfer.to_rsp /\ xfer.bank = BankSize => imem_gen' = (imem_gen + 1) % GenMod
      BY <2>3 DEF Row, GenAfter
    <3> QED
      BY <3>1, <3>2, <3>3, BumpedType DEF Announced, TypeOK
  <2>4. CASE EndDma
    BY <2>4, RowsAssumption DEF EndDma, RowsLeft, Announced, TypeOK, Xfer
  <2>5. CASE UNCHANGED vars
    BY <2>5 DEF vars, Announced
  <2> QED
    BY <2>1, <2>2, <2>3, <2>4, <2>5
    DEF Next, SetMemAddr, SetDramAddr, SetStatus, Write, Back, Over, vars
<1> QED
  BY <1>1, <1>2, SpTypeCorrect, PTL DEF Spec

\* The translated code is told whenever a write left other code in IMEM
\* (rspbt.cc:26-31): imem_gen counts the rows that go there, of which a transfer has
\* far fewer than the counter has values.
THEOREM ReplacementIsReported == Spec => []ReportsReplacement
<1>1. TypeOK /\ KeepsToItsBank /\ Announced => ReportsReplacement
  <2> SUFFICES ASSUME TypeOK, KeepsToItsBank, Announced, call = "back",
                      Imem(mem) # Imem(before.mem)
               PROVE  Changed
    BY DEF ReportsReplacement
  <2>1. xfer \in Xfer /\ xfer.row = xfer.count
    BY DEF TypeOK, Announced
  <2>2. xfer.to_rsp /\ xfer.bank = BankSize
    <3>1. PICK o \in Offset : mem[BankSize + o] # before.mem[BankSize + o]
      BY DEF Imem
    <3>2. BankSize + o \in MemAddr /\ BankSize + o \notin 0 .. BankSize - 1
      BY SizeAssumption DEF Offset, MemAddr
    <3> QED
      BY <2>1, <3>1, <3>2, SizeAssumption DEF KeepsToItsBank, Xfer
  <2>3. xfer.row \in 0 .. MaxRows /\ xfer.row > 0 /\ before.gen \in Gen
    BY <2>1, RowsAssumption DEF Xfer, TypeOK
  <2> QED
    BY <2>2, <2>3, BumpedType DEF Announced, Changed
<1> QED
  BY <1>1, RowsAreAnnounced, SpTypeCorrect, DmaKeepsToItsBank, PTL

-----------------------------------------------------------------------------
(* Where the rows of a transfer go.                                         *)

\* A number below D is its own remainder.
LEMMA ModSmall ==
    ASSUME NEW D \in Nat, D > 0, NEW a \in 0 .. D - 1
    PROVE  a % D = a
  BY Z3

\* Fewer rows take less room: a row that is not the last ends where the next begins,
\* or before.
LEMMA RowsGrow ==
    ASSUME NEW j \in Nat, NEW k \in Nat, j < k, NEW w \in Nat
    PROVE  /\ j * w \in Nat /\ k * w \in Nat
           /\ (j + 1) * w = j * w + w
           /\ j * w + w <= k * w
<1>1. j * w \in Nat /\ k * w \in Nat /\ (j + 1) * w = j * w + w
  BY Z3
<1>2. k * w - (j + 1) * w = (k - (j + 1)) * w
  BY Z3
<1>3. k - (j + 1) \in Nat
  OBVIOUS
<1>4. \A x \in Nat : x * w >= 0
  BY Z3
<1>5. (k - (j + 1)) * w >= 0
  BY ONLY <1>3, <1>4
<1> QED
  BY <1>1, <1>2, <1>5

\* The fields of a transfer, as numbers.
LEMMA XferFields ==
    ASSUME xfer \in Xfer
    PROVE  /\ xfer.len \in Nat /\ xfer.len > 0 /\ xfer.skip \in Nat
           /\ xfer.count \in Nat /\ xfer.count > 0 /\ xfer.row \in Nat
           /\ xfer.off0 \in Nat /\ xfer.off0 < BankSize
           /\ xfer.dram0 \in Nat /\ xfer.dram0 < DramSize
           /\ xfer.bank \in {0, BankSize}
  BY SizeAssumption, RowsAssumption DEF Xfer, Offset, DramAddr

\* Where row j of a transfer that does not wrap lies, in both memories.
LEMMA RowPlace ==
    ASSUME xfer \in Xfer, Unwrapped, NEW j \in Nat, j < xfer.count
    PROVE  LET o == xfer.off0 + j * xfer.len
               d == xfer.dram0 + j * (xfer.len + xfer.skip)
           IN  /\ o \in Nat /\ d \in Nat
               /\ o + xfer.len <= BankSize /\ d + xfer.len <= DramSize
               /\ o % BankSize = o /\ d % DramSize = d
               /\ xfer.off0 + (j + 1) * xfer.len = o + xfer.len
               /\ xfer.dram0 + (j + 1) * (xfer.len + xfer.skip) = d + xfer.len + xfer.skip
<1> DEFINE len == xfer.len
           w == xfer.len + xfer.skip
           n == xfer.count
           o == xfer.off0 + j * len
           d == xfer.dram0 + j * w
<1>1. /\ len \in Nat /\ len > 0 /\ w \in Nat /\ w >= len /\ w = len + xfer.skip
      /\ n \in Nat /\ xfer.off0 \in Nat /\ xfer.dram0 \in Nat /\ xfer.skip \in Nat
  BY XferFields
<1>2. xfer.off0 + n * len <= BankSize /\ xfer.dram0 + n * w <= DramSize
  BY DEF Unwrapped
<1>3. BankSize \in Nat /\ BankSize > 0 /\ DramSize \in Nat /\ DramSize > 0
  BY SizeAssumption
<1>4. j < n
  OBVIOUS
<1> HIDE DEF len, w, n
<1>5. /\ j * len \in Nat /\ n * len \in Nat
      /\ (j + 1) * len = j * len + len /\ j * len + len <= n * len
  BY ONLY <1>1, <1>4, j \in Nat, RowsGrow
<1>6. /\ j * w \in Nat /\ n * w \in Nat
      /\ (j + 1) * w = j * w + w /\ j * w + w <= n * w
  BY ONLY <1>1, <1>4, j \in Nat, RowsGrow
<1>7. o \in 0 .. BankSize - 1 /\ o + len <= BankSize
      /\ xfer.off0 + (j + 1) * len = o + len
  BY ONLY <1>1, <1>2, <1>3, <1>5
<1>8. d \in 0 .. DramSize - 1 /\ d + len <= DramSize
      /\ xfer.dram0 + (j + 1) * w = d + len + xfer.skip
  BY ONLY <1>1, <1>2, <1>3, <1>6
<1> HIDE DEF o, d
<1>9. o % BankSize = o /\ d % DramSize = d
  BY ONLY <1>3, <1>7, <1>8, ModSmall
<1>10. o \in Nat /\ d \in Nat
  BY ONLY <1>3, <1>7, <1>8
<1> QED
  BY ONLY <1>7, <1>8, <1>9, <1>10 DEF o, d, len, w

\* Two rows of it do not overlap.
LEMMA RowsApart ==
    ASSUME xfer \in Xfer, NEW j \in Nat, NEW k \in Nat, j < k,
           NEW i \in 0 .. xfer.len - 1
    PROVE  /\ xfer.off0 + j * xfer.len + i < xfer.off0 + k * xfer.len
           /\ xfer.dram0 + j * (xfer.len + xfer.skip) + i
                < xfer.dram0 + k * (xfer.len + xfer.skip)
<1> DEFINE len == xfer.len
           w == xfer.len + xfer.skip
<1>1. /\ len \in Nat /\ len > 0 /\ w \in Nat /\ w >= len
      /\ xfer.off0 \in Nat /\ xfer.dram0 \in Nat /\ i \in 0 .. len - 1
  BY XferFields
<1> HIDE DEF len, w
<1>2. /\ j * len \in Nat /\ k * len \in Nat /\ j * len + len <= k * len
      /\ j * w \in Nat /\ k * w \in Nat /\ j * w + w <= k * w
  BY ONLY <1>1, j \in Nat, k \in Nat, j < k, RowsGrow
<1>3. /\ xfer.off0 + j * len + i < xfer.off0 + k * len
      /\ xfer.dram0 + j * w + i < xfer.dram0 + k * w
  BY ONLY <1>1, <1>2
<1> QED
  BY ONLY <1>3 DEF len, w

-----------------------------------------------------------------------------

\* A row of a transfer that does not wrap goes where the stride says it does and
\* leaves the rows before it where they are.
LEMMA RowDelivers ==
    ASSUME TypeOK, Delivered, Row, Unwrapped
    PROVE  Delivered'
<1> DEFINE len == xfer.len
           stride == xfer.len + xfer.skip
           n == xfer.row
           o(k) == xfer.off0 + k * xfer.len
           d(k) == xfer.dram0 + k * (xfer.len + xfer.skip)
<1>1. /\ xfer \in Xfer /\ call = "dma" /\ n \in Nat /\ n < xfer.count /\ xfer.count \in Nat
      /\ len \in Nat /\ len > 0 /\ xfer.skip \in Nat /\ xfer.bank \in {0, BankSize}
      /\ call' = "dma"
  BY XferFields DEF Row, RowsLeft, TypeOK
<1>2. /\ xfer'.off = NextOff /\ xfer'.dram = (xfer.dram + Bytes + xfer.skip) % DramSize
      /\ xfer'.row = n + 1 /\ xfer'.bank = xfer.bank /\ xfer'.to_rsp = xfer.to_rsp
      /\ xfer'.len = xfer.len /\ xfer'.skip = xfer.skip /\ xfer'.count = xfer.count
      /\ xfer'.off0 = xfer.off0 /\ xfer'.dram0 = xfer.dram0
  BY <1>1 DEF Row, Xfer
<1>3. /\ o(n) \in Nat /\ d(n) \in Nat
      /\ o(n) + len <= BankSize /\ d(n) + len <= DramSize
      /\ o(n) % BankSize = o(n) /\ d(n) % DramSize = d(n)
      /\ o(n + 1) = o(n) + len /\ d(n + 1) = d(n) + len + xfer.skip
  BY <1>1, RowPlace
<1>4. /\ xfer.off = o(n) % BankSize /\ xfer.dram = d(n) % DramSize
      /\ RowsDelivered(n)
  BY <1>1 DEF Delivered
<1> HIDE DEF o, d
<1>5. xfer.off = o(n) /\ xfer.dram = d(n)
  BY <1>3, <1>4
<1>6. Bytes = len
  BY <1>1, <1>3, <1>5, SizeAssumption DEF Bytes
<1>7. xfer'.off = o(n + 1) % BankSize /\ xfer'.dram = d(n + 1) % DramSize
  BY <1>2, <1>3, <1>5, <1>6 DEF NextOff
<1>8. ASSUME NEW k \in 0 .. n, NEW i \in 0 .. len - 1
      PROVE  /\ o(k) \in Nat /\ d(k) \in Nat
             /\ xfer.bank + o(k) + i \in MemAddr /\ d(k) + i \in Dram
             /\ k < n => o(k) + i < o(n) /\ d(k) + i < d(n)
  <2>1. k \in Nat /\ k < xfer.count
    BY <1>1
  <2>2. o(k) \in Nat /\ d(k) \in Nat /\ o(k) + len <= BankSize /\ d(k) + len <= DramSize
    BY <1>1, <2>1, RowPlace DEF o, d
  <2>3. k < n => o(k) + i < o(n) /\ d(k) + i < d(n)
    BY <1>1, <2>1, RowsApart DEF o, d
  <2> QED
    BY <1>1, <2>2, <2>3, SizeAssumption DEF MemAddr, Dram
<1>a. ASSUME NEW k \in 0 .. n, NEW i \in 0 .. len - 1
      PROVE  xfer.bank + xfer.off0 + k * xfer.len + i = xfer.bank + o(k) + i
  <2>1. k * len \in Nat
    BY <1>1, Z3
  <2> QED
    BY <1>1, <2>1, XferFields, SizeAssumption DEF o
<1>9. ASSUME NEW k \in 0 .. n, NEW i \in 0 .. len - 1
      PROVE  mem'[xfer.bank + o(k) + i] = rdram'[d(k) + i]
  <2>1. CASE k < n
    <3>1. mem[xfer.bank + o(k) + i] = rdram[d(k) + i]
      <4>1. k \in 0 .. n - 1
        BY <1>1, <2>1
      <4>2. mem[xfer.bank + xfer.off0 + k * xfer.len + i]
              = rdram[xfer.dram0 + k * (xfer.len + xfer.skip) + i]
        BY <1>4, <4>1 DEF RowsDelivered
      <4> QED
        BY <1>a, <4>2 DEF d
    <3>2. xfer.bank + o(k) + i \notin Covered /\ d(k) + i \notin DramCovered
      BY <1>1, <1>3, <1>5, <1>6, <1>8, <2>1, SizeAssumption DEF Covered, DramCovered
    <3>3. CASE xfer.to_rsp
      BY <1>8, <3>1, <3>2, <3>3 DEF Row
    <3>4. CASE ~xfer.to_rsp
      BY <1>8, <3>1, <3>2, <3>4 DEF Row
    <3> QED
      BY <3>3, <3>4
  <2>2. CASE k = n
    <3>1. CASE xfer.to_rsp
      <4>1. xfer.bank + o(n) + i \in Covered
        BY <1>1, <1>3, <1>5, <1>6, SizeAssumption DEF Covered
      <4>2. xfer.dram + ((xfer.bank + o(n) + i) - xfer.bank - xfer.off) = d(n) + i
        BY <1>1, <1>3, <1>5, SizeAssumption
      <4>3. mem'[xfer.bank + o(n) + i]
              = rdram[xfer.dram + ((xfer.bank + o(n) + i) - xfer.bank - xfer.off)]
        BY <1>8, <2>2, <3>1, <4>1 DEF Row
      <4> QED
        BY <2>2, <3>1, <4>2, <4>3 DEF Row
    <3>2. CASE ~xfer.to_rsp
      <4>1. d(n) + i \in DramCovered
        BY <1>1, <1>3, <1>5, <1>6, SizeAssumption DEF DramCovered
      <4>2. xfer.bank + xfer.off + ((d(n) + i) - xfer.dram) = xfer.bank + o(n) + i
        BY <1>1, <1>3, <1>5, SizeAssumption
      <4>3. rdram'[d(n) + i] = mem[xfer.bank + xfer.off + ((d(n) + i) - xfer.dram)]
        BY <1>8, <2>2, <3>2, <4>1 DEF Row
      <4> QED
        BY <2>2, <3>2, <4>2, <4>3 DEF Row
    <3> QED
      BY <3>1, <3>2
  <2> QED
    BY <1>1, <2>1, <2>2
<1>10. RowsDelivered(xfer.row)'
  <2>1. 0 .. xfer'.row - 1 = 0 .. n
    BY <1>1, <1>2
  <2>2. ASSUME NEW k \in 0 .. n, NEW i \in 0 .. len - 1
        PROVE  mem'[xfer.bank + xfer.off0 + k * xfer.len + i]
                 = rdram'[xfer.dram0 + k * (xfer.len + xfer.skip) + i]
    BY <1>9, <1>a DEF d
  <2>3. \A k \in 0 .. xfer'.row - 1, i \in 0 .. len - 1 :
          mem'[xfer.bank + xfer.off0 + k * xfer.len + i]
            = rdram'[xfer.dram0 + k * (xfer.len + xfer.skip) + i]
    BY ONLY <2>1, <2>2
  <2>4. \A k \in 0 .. xfer'.row - 1, i \in 0 .. xfer'.len - 1 :
          mem'[xfer'.bank + xfer'.off0 + k * xfer'.len + i]
            = rdram'[xfer'.dram0 + k * (xfer'.len + xfer'.skip) + i]
    BY ONLY <1>2, <2>3 DEF len
  <2> QED
    BY ONLY <2>4 DEF RowsDelivered
<1> QED
  BY <1>1, <1>2, <1>7, <1>10 DEF Delivered, o, d

\* The rows done so far are where they belong, at every moment of a transfer.
LEMMA RowsAreDelivered == Spec => []Delivered
<1>1. Init => Delivered
  BY DEF Init, Delivered
<1>2. TypeOK /\ Announced /\ Delivered /\ [Next]_vars => Delivered'
  <2> SUFFICES ASSUME TypeOK, Announced, Delivered, [Next]_vars PROVE Delivered'
    OBVIOUS
  <2>1. CASE call' = "idle"
    BY <2>1 DEF Delivered
  <2>2. ASSUME NEW l \in Lens, NEW c \in Counts, NEW s \in Skips, NEW b \in BOOLEAN,
               StartDma(l, c, s, b)
        PROVE  Delivered'
    <3>1. /\ call' = "dma" /\ xfer'.row = 0 /\ xfer'.off = xfer'.off0
          /\ xfer'.dram = xfer'.dram0
      BY <2>2 DEF StartDma
    <3>2. TypeOK'
      BY <2>2, StepTypes DEF Next
    <3>3. /\ xfer'.off0 \in 0 .. BankSize - 1 /\ xfer'.dram0 \in 0 .. DramSize - 1
          /\ xfer'.len \in Nat /\ xfer'.skip \in Nat
      BY <3>1, <3>2 DEF TypeOK, Xfer, Offset, DramAddr
    <3>4. /\ xfer'.off0 + 0 * xfer'.len = xfer'.off0
          /\ xfer'.dram0 + 0 * (xfer'.len + xfer'.skip) = xfer'.dram0
      BY <3>3
    <3>5. xfer'.off0 % BankSize = xfer'.off0 /\ xfer'.dram0 % DramSize = xfer'.dram0
      BY <3>3, ModSmall, SizeAssumption
    <3> QED
      BY <3>1, <3>4, <3>5 DEF Delivered, RowsDelivered
  <2>4. CASE Row
    <3>1. CASE Unwrapped
      BY <2>4, <3>1, RowDelivers
    <3>2. CASE ~Unwrapped
      <4>1. ~Unwrapped'
        BY <2>4, <3>2 DEF Row, RowsLeft, TypeOK, Xfer, Unwrapped
      <4> QED
        BY <4>1 DEF Delivered
    <3> QED
      BY <3>1, <3>2
  <2>3. CASE EndDma
    BY <2>3 DEF EndDma, Delivered, Unwrapped, RowsDelivered
  <2>5. CASE UNCHANGED vars
    BY <2>5 DEF vars, Delivered, Unwrapped, RowsDelivered
  <2> QED
    BY <2>1, <2>2, <2>4, <2>3, <2>5
    DEF Next, SetMemAddr, SetDramAddr, SetStatus, Write, Back, Over, vars
<1> QED
  BY <1>1, <1>2, SpTypeCorrect, RowsAreAnnounced, PTL DEF Spec

\* Every row of a transfer that does not wrap is delivered, from where the stride says
\* it is, and the registers are left at the row that would follow, whatever the
\* length, the row count and the skip (rsp.cc:35-64).
THEOREM EveryRowIsDelivered == Spec => []DeliversEveryRow
<1>1. TypeOK /\ Announced /\ Delivered => DeliversEveryRow
  BY DEF Announced, Delivered, DeliversEveryRow
<1> QED
  BY <1>1, SpTypeCorrect, RowsAreAnnounced, RowsAreDelivered, PTL

=============================================================================
