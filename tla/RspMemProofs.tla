---------------------------- MODULE RspMemProofs ----------------------------
(***************************************************************************)
(* Translated loads and stores implement the interpreter's, for every size *)
(* of DMEM and of the registers.  The argument has three parts: an access  *)
(* that does not wrap is the same as the wrapping one; bytes taken out of  *)
(* lanes and put back are vbyte and set_vbyte; and lwc2 and swc2 depend on *)
(* nothing of the register file but the two registers the slow path stores.*)
(***************************************************************************)
EXTENDS RspMemBt, TLAPS

-----------------------------------------------------------------------------
(* Arithmetic.                                                             *)

\* Division and remainder.
LEMMA ModRange ==
    ASSUME NEW D \in Nat, D > 0, NEW a \in Int
    PROVE  a % D \in 0 .. D - 1 /\ a \div D \in Int /\ a = D * (a \div D) + (a % D)
  BY Z3

\* A multiple of D that is not 0 is at least D away from it.
LEMMA MulStep ==
    ASSUME NEW D \in Nat, D > 0, NEW q \in Int
    PROVE  (q >= 1 => D * q >= D) /\ (q <= -1 => D * q <= -D)
  BY Z3

\* The remainder is unique.
LEMMA ModUnique ==
    ASSUME NEW D \in Nat, D > 0, NEW q \in Int, NEW s \in 0 .. D - 1
    PROVE  (D * q + s) % D = s
<1> DEFINE a == D * q + s
           d == q - (a \div D)
<1>1. /\ a \in Int /\ a % D \in 0 .. D - 1
      /\ a \div D \in Int /\ a = D * (a \div D) + (a % D)
  BY ModRange
<1>2. d \in Int /\ D * d = (a % D) - s
  BY <1>1
<1>3. d = 0
  BY <1>1, <1>2, MulStep
<1> QED
  BY <1>1, <1>2, <1>3

\* Adding what does not carry past a multiple of D.
LEMMA ModAdd ==
    ASSUME NEW D \in Nat, D > 0, NEW a \in Int, NEW j \in Int,
           (a % D) + j \in 0 .. D - 1
    PROVE  (a + j) % D = (a % D) + j
<1>1. a % D \in 0 .. D - 1 /\ a \div D \in Int /\ a = D * (a \div D) + (a % D)
  BY ModRange
<1>2. a + j = D * (a \div D) + ((a % D) + j)
  BY <1>1
<1> QED
  BY <1>1, <1>2, ModUnique

\* Where a byte of DMEM lies, seen from an address.
LEMMA ModBack ==
    ASSUME NEW D \in Nat, D > 0, NEW a \in Int, NEW c \in 0 .. D - 1
    PROVE  (c - a) % D = IF c >= a % D THEN c - (a % D) ELSE c - (a % D) + D
<1>1. a % D \in 0 .. D - 1 /\ a \div D \in Int /\ a = D * (a \div D) + (a % D)
  BY ModRange
<1>2. CASE c >= a % D
  <2>1. c - a = D * (0 - (a \div D)) + (c - (a % D))
    BY <1>1
  <2>2. 0 - (a \div D) \in Int /\ c - (a % D) \in 0 .. D - 1
    BY <1>1, <1>2
  <2>3. (D * (0 - (a \div D)) + (c - (a % D))) % D = c - (a % D)
    BY ONLY <2>2, ModUnique, D \in Nat, D > 0
  <2> QED
    BY ONLY <1>2, <2>1, <2>3
<1>3. CASE c < a % D
  <2>1. c - a = D * (0 - (a \div D) - 1) + (c - (a % D) + D)
    BY <1>1
  <2>2. 0 - (a \div D) - 1 \in Int /\ c - (a % D) + D \in 0 .. D - 1
    BY <1>1, <1>3
  <2>3. (D * (0 - (a \div D) - 1) + (c - (a % D) + D)) % D = c - (a % D) + D
    BY ONLY <2>2, ModUnique, D \in Nat, D > 0
  <2>4. ~(c >= a % D)
    BY <1>1, <1>3
  <2> QED
    BY ONLY <2>1, <2>3, <2>4
<1> QED
  BY <1>1, <1>2, <1>3

\* One more digit.
LEMMA Horner ==
    ASSUME NEW B \in Nat, NEW M \in Nat, NEW x \in 0 .. M - 1, NEW b \in 0 .. B - 1
    PROVE  x * B + b \in 0 .. M * B - 1
<1>1. (M - 1 - x) * B >= 0
  BY Z3
<1>2. M * B - 1 - (x * B + b) = (M - 1 - x) * B + (B - 1 - b)
  BY Z3
<1>3. x * B >= 0
  BY Z3
<1> QED
  BY <1>1, <1>2, <1>3

\* Products of positive numbers.
LEMMA PowTypes ==
    /\ ByteMod \in Nat /\ ByteMod > 0
    /\ WordMod \in Nat /\ WordMod > 0
    /\ \A k \in 0 .. 4 : BytePow(k) \in Nat /\ BytePow(k) > 0
<1> DEFINE B2 == ByteMod * ByteMod
           B3 == B2 * ByteMod
           B4 == B3 * ByteMod
<1>1. ByteMod \in Nat /\ ByteMod > 0
  BY ByteAssumption
<1>2. \A x, y \in Nat : x > 0 /\ y > 0 => x * y \in Nat /\ x * y > 0
  BY Z3
<1>3. B2 \in Nat /\ B2 > 0
  BY <1>1, <1>2
<1>4. B3 \in Nat /\ B3 > 0
  BY <1>1, <1>2, <1>3
<1>5. B4 \in Nat /\ B4 > 0
  BY <1>1, <1>2, <1>4
<1> QED
  BY <1>1, <1>3, <1>4, <1>5 DEF BytePow, WordMod

-----------------------------------------------------------------------------
(* Host accesses are the wrapping ones where nothing wraps.                *)

\* The sizes of the memory and of the registers.
LEMMA Sizes ==
    /\ DmemSize \in Nat /\ DmemSize > 0
    /\ RegBytes \in Nat /\ RegBytes > 1
    /\ NumLanes \in Nat /\ NumLanes > 0
  BY DmemAssumption, LaneAssumption DEF RegBytes

\* A run of bytes that fits is read at consecutive addresses.
LEMMA FitsReads ==
    ASSUME NEW ea \in Int, NEW n \in Nat, FitsInDmem(ea, n), NEW j \in 0 .. n - 1
    PROVE  (ea + j) % DmemSize = (ea % DmemSize) + j /\ (ea % DmemSize) + j \in Dmem
<1>1. ea % DmemSize \in 0 .. DmemSize - 1
  BY Sizes, ModRange
<1>2. (ea % DmemSize) + j \in 0 .. DmemSize - 1
  BY <1>1, Sizes DEF FitsInDmem
<1>3. (ea + j) % DmemSize = (ea % DmemSize) + j
  BY <1>2, Sizes, ModAdd
<1> QED
  BY <1>2, <1>3 DEF Dmem

\* A run of bytes that fits is written at consecutive addresses.
LEMMA FitsWrites ==
    ASSUME NEW m \in MemVal, NEW ea \in Int, NEW n \in Nat, FitsInDmem(ea, n),
           NEW b, DOMAIN b = 0 .. n - 1
    PROVE  HostStore(m, ea % DmemSize, b) = WriteBytes(m, ea, b)
<1> DEFINE ea12 == ea % DmemSize
<1>1. ea12 \in 0 .. DmemSize - 1 /\ ea12 + n <= DmemSize
  BY Sizes, ModRange DEF FitsInDmem
<1>2. DOMAIN m = 0 .. 2 * DmemSize - 1
  BY DEF MemVal
<1>3. ASSUME NEW c \in DOMAIN m
      PROVE  (IF c - ea12 \in DOMAIN b THEN b[c - ea12] ELSE m[c])
               = (IF c \in Dmem /\ (c - ea) % DmemSize \in DOMAIN b
                  THEN b[(c - ea) % DmemSize] ELSE m[c])
  <2>1. CASE c \in Dmem
    <3>1. (c - ea) % DmemSize = IF c >= ea12 THEN c - ea12 ELSE c - ea12 + DmemSize
      BY <2>1, Sizes, ModBack DEF Dmem
    <3> HIDE DEF ea12
    <3>2. (c - ea) % DmemSize \in DOMAIN b <=> c - ea12 \in DOMAIN b
      BY <1>1, <2>1, <3>1, Sizes DEF Dmem
    <3>3. c - ea12 \in DOMAIN b => (c - ea) % DmemSize = c - ea12
      BY <1>1, <2>1, <3>1, Sizes DEF Dmem
    <3> QED
      BY <2>1, <3>2, <3>3
  <2>2. CASE c \notin Dmem
    <3>1. c - ea12 \notin DOMAIN b
      BY <1>1, <1>2, <2>2, Sizes DEF Dmem
    <3> QED
      BY <2>2, <3>1
  <2> QED
    BY <2>1, <2>2
<1> QED
  BY <1>3 DEF HostStore, WriteBytes

\* loadMem is rd16 or rd32 or the byte.
LEMMA LoadMemIsRd ==
    ASSUME NEW m \in MemVal, NEW ea \in Int, NEW n \in {1, 2, 4}
    PROVE  LoadMem(m, ea, n) = Rd(m, ea, n)
<1>1. CASE n = 1
  BY <1>1 DEF LoadMem, Rd
<1>2. CASE n # 1 /\ ~FitsInDmem(ea, n)
  BY <1>2 DEF LoadMem
<1>3. CASE n = 2 /\ FitsInDmem(ea, n)
  <2> DEFINE ea12 == ea % DmemSize
             b == Bswap(HostLoad(m, ea12, 2), 2)
  <2>1. ea12 = (ea + 0) % DmemSize /\ ea12 + 1 = (ea + 1) % DmemSize
    BY <1>3, FitsReads, Sizes, ModRange
  <2>2. b[1] = m[ea12 + 0] /\ b[0] = m[ea12 + 1]
    BY DEF Bswap, HostLoad
  <2>3. ea12 + 0 = ea12
    BY Sizes, ModRange
  <2>4. LoadMem(m, ea, n) = b[1] * ByteMod + b[0]
    BY <1>3 DEF LoadMem, HostWord
  <2> HIDE DEF b
  <2> QED
    BY <1>3, <2>1, <2>2, <2>3, <2>4 DEF Rd
<1>4. CASE n = 4 /\ FitsInDmem(ea, n)
  <2> DEFINE ea12 == ea % DmemSize
             b == Bswap(HostLoad(m, ea12, 4), 4)
  <2>1. /\ ea12 + 1 = (ea + 1) % DmemSize
        /\ ea12 + 2 = (ea + 2) % DmemSize
        /\ ea12 + 3 = (ea + 3) % DmemSize
    BY <1>4, FitsReads
  <2>2. b[3] = m[ea12 + 0] /\ b[2] = m[ea12 + 1] /\ b[1] = m[ea12 + 2] /\ b[0] = m[ea12 + 3]
    BY DEF Bswap, HostLoad
  <2>3. ea12 + 0 = ea12
    BY Sizes, ModRange
  <2>4. LoadMem(m, ea, n) = ((b[3] * ByteMod + b[2]) * ByteMod + b[1]) * ByteMod + b[0]
    BY <1>4 DEF LoadMem, HostWord
  <2> HIDE DEF b
  <2> QED
    BY <1>4, <2>1, <2>2, <2>3, <2>4 DEF Rd
<1> QED
  BY <1>1, <1>2, <1>3, <1>4

\* storeMem is wr16 or wr32 or the byte.
LEMMA StoreMemIsWr ==
    ASSUME NEW m \in MemVal, NEW ea \in Int, NEW x, NEW n \in {1, 2, 4}
    PROVE  StoreMem(m, ea, x, n) = Wr(m, ea, x, n)
<1> DEFINE low == [j \in 0 .. n - 1 |-> ByteAt(x, j)]
           b == [j \in 0 .. n - 1 |-> ByteAt(x, n - 1 - j)]
<1>1. Bswap(low, n) = b
  BY DEF Bswap
<1>2. DOMAIN b = 0 .. n - 1
  OBVIOUS
<1>3. CASE n = 1
  <2>1. low = b
    BY <1>3
  <2>2. FitsInDmem(ea, n)
    BY <1>3, Sizes, ModRange DEF FitsInDmem
  <2>3. StoreMem(m, ea, x, n) = HostStore(m, ea % DmemSize, low)
    BY <1>3 DEF StoreMem
  <2> HIDE DEF low, b
  <2>4. HostStore(m, ea % DmemSize, b) = WriteBytes(m, ea, b)
    BY <1>2, <2>2, FitsWrites
  <2> QED
    BY <2>1, <2>3, <2>4 DEF Wr, b
<1>4. CASE n # 1 /\ FitsInDmem(ea, n)
  <2>1. StoreMem(m, ea, x, n) = HostStore(m, ea % DmemSize, Bswap(low, n))
    BY <1>4 DEF StoreMem
  <2> HIDE DEF low, b
  <2>2. HostStore(m, ea % DmemSize, b) = WriteBytes(m, ea, b)
    BY <1>2, <1>4, FitsWrites
  <2> QED
    BY <1>1, <2>1, <2>2 DEF Wr, b
<1>5. CASE n # 1 /\ ~FitsInDmem(ea, n)
  BY <1>5 DEF StoreMem
<1> QED
  BY <1>3, <1>4, <1>5

-----------------------------------------------------------------------------
(* Lanes and bytes.                                                        *)

\* The instructions as the lemmas below need them.
LEMMA InsnTypes ==
    /\ \A i \in ScalarInsn : i.rs \in Gpr /\ i.rt \in Gpr /\ i.offs \in Int
    /\ \A i \in VecInsn : /\ i.base \in Gpr /\ i.vt \in Vec /\ i.offs \in Int
                          /\ i.e \in 0 .. RegBytes - 1 /\ i.n \in 1 .. RegBytes
  BY SizeAssumption, OffsetAssumption DEF ScalarInsn, VecInsn

\* The two bytes of a lane are neighbours in the register.
LEMMA LaneBytes ==
    ASSUME NEW l \in Lane
    PROVE  /\ 2 * l \in 0 .. RegBytes - 1 /\ 2 * l + 1 \in 0 .. RegBytes - 1
           /\ (2 * l) % 2 = 0 /\ (2 * l + 1) % 2 = 1
           /\ (2 * l) \div 2 = l /\ (2 * l + 1) \div 2 = l
  BY Sizes DEF Lane, RegBytes

\* Byte j of a local, after the bitcast and the swap, is vbyte's byte j.
LEMMA ToBytesIsVbyte ==
    ASSUME NEW vr, NEW j \in 0 .. RegBytes - 1
    PROVE  ToBytes(vr)[j] = Vbyte(vr, j)
<1> DEFINE k == IF j % 2 = 0 THEN j + 1 ELSE j - 1
<1>1. /\ k \in 0 .. RegBytes - 1 /\ k \div 2 = j \div 2
      /\ j % 2 = 0 => k % 2 # 0
      /\ j % 2 # 0 => k % 2 = 0 /\ j % 2 = 1
  BY Sizes DEF RegBytes
<1>2. ToBytes(vr)[j] = HostBytes(vr)[k]
  BY DEF ToBytes, SwapPairs
<1>3. HostBytes(vr)[k] = IF k % 2 = 0 THEN vr[k \div 2].lo ELSE vr[k \div 2].hi
  BY <1>1 DEF HostBytes
<1>4. j % RegBytes = j
  <2>1. j = RegBytes * 0 + j
    BY Sizes
  <2> QED
    BY <2>1, Sizes, ModUnique
<1>5. Vbyte(vr, j) = IF j % 2 = 1 THEN vr[j \div 2].lo ELSE vr[j \div 2].hi
  BY <1>4 DEF Vbyte
<1> HIDE DEF k
<1>6. CASE j % 2 = 0
  <2>1. j % 2 # 1 /\ k % 2 # 0
    BY <1>1, <1>6
  <2> QED
    BY <1>1, <1>2, <1>3, <1>5, <2>1
<1>7. CASE j % 2 # 0
  <2>1. j % 2 = 1 /\ k % 2 = 0
    BY <1>1, <1>7
  <2> QED
    BY <1>1, <1>2, <1>3, <1>5, <2>1
<1> QED
  BY <1>6, <1>7

\* A lane holds its vbytes.
LEMMA VbyteOfLane ==
    ASSUME NEW vr, NEW l \in Lane
    PROVE  Vbyte(vr, 2 * l) = vr[l].hi /\ Vbyte(vr, 2 * l + 1) = vr[l].lo
<1>1. ASSUME NEW j \in 0 .. RegBytes - 1 PROVE j % RegBytes = j
  <2>1. j = RegBytes * 0 + j
    BY Sizes
  <2> QED
    BY <2>1, Sizes, ModUnique
<1> QED
  BY <1>1, LaneBytes DEF Vbyte

\* Putting bytes back into lanes: byte 2l is the upper one of lane l.
LEMMA FromBytesLanes ==
    ASSUME NEW b
    PROVE  FromBytes(b) = [l \in Lane |-> [hi |-> b[2 * l], lo |-> b[2 * l + 1]]]
<1> DEFINE h == SwapPairs(b)
<1>1. ASSUME NEW l \in Lane PROVE h[2 * l + 1] = b[2 * l] /\ h[2 * l] = b[2 * l + 1]
  <2>1. h[2 * l + 1] = b[2 * l + 1 - 1]
    <3>1. \A j \in 0 .. RegBytes - 1 : j % 2 # 0 => h[j] = b[j - 1]
      BY DEF SwapPairs
    <3> HIDE DEF h
    <3>2. (2 * l + 1) % 2 # 0 /\ 2 * l + 1 \in 0 .. RegBytes - 1
      BY LaneBytes
    <3> QED
      BY <3>1, <3>2, Sizes DEF Lane
  <2>2. 2 * l + 1 - 1 = 2 * l
    BY DEF Lane
  <2>3. h[2 * l] = b[2 * l + 1]
    BY LaneBytes DEF SwapPairs
  <2> QED
    BY <2>1, <2>2, <2>3
<1> HIDE DEF h
<1>2. [l \in Lane |-> [hi |-> h[2 * l + 1], lo |-> h[2 * l]]]
        = [l \in Lane |-> [hi |-> b[2 * l], lo |-> b[2 * l + 1]]]
  BY <1>1
<1> QED
  BY <1>2 DEF FromBytes, h

\* A register rebuilt from bytes, some of them new, is what set_vbyte makes.
LEMMA BlendIsSetVbytes ==
    ASSUME NEW vr, NEW b, NEW f, DOMAIN b \subseteq 0 .. RegBytes - 1,
           \A j \in 0 .. RegBytes - 1 :
              f[j] = IF j \in DOMAIN b THEN b[j] ELSE ToBytes(vr)[j]
    PROVE  FromBytes(f) = SetVbytes(vr, b)
<1>1. ASSUME NEW l \in Lane
      PROVE  /\ f[2 * l] = IF 2 * l \in DOMAIN b THEN b[2 * l] ELSE vr[l].hi
             /\ f[2 * l + 1] = IF 2 * l + 1 \in DOMAIN b THEN b[2 * l + 1] ELSE vr[l].lo
  BY LaneBytes, ToBytesIsVbyte, VbyteOfLane
<1> QED
  BY <1>1, FromBytesLanes DEF SetVbytes

-----------------------------------------------------------------------------
(* The inline vector accesses.                                             *)

\* The kinds of the translated accesses.
LEMMA Kinds ==
    /\ Kind("lnv") = "FIXED" /\ Kind("snv") = "FIXED"
    /\ Kind("lqv") = "ROW_LEFT" /\ Kind("sqv") = "ROW_LEFT"
    /\ Kind("lrv") = "ROW_RIGHT"
  BY Zenon DEF Kind

\* The inline load of an address range inside DMEM and inside the register.
LEMMA FixedLoad ==
    ASSUME NEW m \in MemVal, NEW ea \in Int, NEW vr, NEW i \in VecInsn,
           i.op = "lnv", FastCond(i, ea)
    PROVE  VecLoadFast(i, m, ea, vr) = LoadLeft(vr, m, ea, i.e, i.n)
<1> DEFINE ea12 == ea % DmemSize
           S == {j \in i.e .. RegBytes - 1 : j < i.e + i.n}
           b == [j \in S |-> m[(ea + (j - i.e)) % DmemSize]]
           f == [j \in 0 .. RegBytes - 1 |->
                    IF j >= i.e /\ j < i.e + i.n
                    THEN HostLoad(m, ea12, i.n)[j - i.e] ELSE ToBytes(vr)[j]]
<1>1. i.e \in 0 .. RegBytes - 1 /\ i.n \in 1 .. RegBytes
  BY InsnTypes
<1>2. i.e + i.n <= RegBytes /\ FitsInDmem(ea, i.n)
  BY Kinds, Zenon DEF FastCond
<1>3. VecLoadFast(i, m, ea, vr) = FromBytes(f)
  BY Kinds, Zenon DEF VecLoadFast
<1>4. DOMAIN b = S /\ S \subseteq 0 .. RegBytes - 1
  BY <1>1, Sizes
<1>5. ASSUME NEW j \in 0 .. RegBytes - 1
      PROVE  f[j] = IF j \in DOMAIN b THEN b[j] ELSE ToBytes(vr)[j]
  <2>1. CASE j >= i.e /\ j < i.e + i.n
    <3>1. j - i.e \in 0 .. i.n - 1 /\ j \in S
      BY <1>1, <2>1, Sizes
    <3>2. (ea + (j - i.e)) % DmemSize = ea12 + (j - i.e)
      BY <1>1, <1>2, <3>1, FitsReads
    <3>3. f[j] = m[ea12 + (j - i.e)]
      BY <2>1, <3>1 DEF HostLoad
    <3> HIDE DEF f, ea12, S
    <3>4. b[j] = m[(ea + (j - i.e)) % DmemSize]
      BY <3>1
    <3> QED
      BY <1>4, <3>1, <3>2, <3>3, <3>4
  <2>2. CASE ~(j >= i.e /\ j < i.e + i.n)
    <3>1. j \notin S
      BY <1>1, <2>2, Sizes
    <3> QED
      BY <1>4, <2>2, <3>1
  <2> QED
    BY <2>1, <2>2
<1>6. LoadLeft(vr, m, ea, i.e, i.n) = SetVbytes(vr, b)
  BY DEF LoadLeft
<1> HIDE DEF f, b
<1> QED
  BY <1>3, <1>4, <1>5, <1>6, BlendIsSetVbytes

\* The offset in the row is smaller than the row.
LEMMA InRowRange ==
    ASSUME NEW ea \in Int
    PROVE  InRow(ea) \in 0 .. RegBytes - 1
  BY Sizes, ModRange DEF InRow

\* The inline lqv, whose window starts at ea.
LEMMA LeftLoad ==
    ASSUME NEW m \in MemVal, NEW ea \in Int, NEW vr, NEW i \in VecInsn,
           i.op = "lqv", FastCond(i, ea)
    PROVE  VecLoadFast(i, m, ea, vr) = LoadLeft(vr, m, ea, i.e, RegBytes - InRow(ea))
<1> DEFINE ea12 == ea % DmemSize
           n == RegBytes - InRow(ea)
           S == {j \in i.e .. RegBytes - 1 : j < i.e + n}
           b == [j \in S |-> m[(ea + (j - i.e)) % DmemSize]]
           f == [j \in 0 .. RegBytes - 1 |->
                    IF j < n THEN HostLoad(m, ea12, RegBytes)[j] ELSE ToBytes(vr)[j]]
<1>1. n \in 1 .. RegBytes
  BY InRowRange, Sizes
<1>2. i.e = 0 /\ FitsInDmem(ea, RegBytes)
  BY Kinds, Zenon DEF FastCond, FitsInDmem
<1>3. VecLoadFast(i, m, ea, vr) = FromBytes(f)
  BY Kinds, Zenon DEF VecLoadFast
<1> HIDE DEF n
<1>4. DOMAIN b = S /\ S \subseteq 0 .. RegBytes - 1
  BY <1>1, <1>2, Sizes
<1>5. ASSUME NEW j \in 0 .. RegBytes - 1
      PROVE  f[j] = IF j \in DOMAIN b THEN b[j] ELSE ToBytes(vr)[j]
  <2>1. CASE j < n
    <3>1. j \in S /\ j - i.e = j
      BY <1>1, <1>2, <2>1, Sizes
    <3>2. (ea + j) % DmemSize = ea12 + j
      BY <1>2, Sizes, FitsReads
    <3>3. f[j] = m[ea12 + j]
      BY <2>1 DEF HostLoad
    <3> HIDE DEF f, ea12, S
    <3>4. b[j] = m[(ea + (j - i.e)) % DmemSize]
      BY <3>1
    <3> QED
      BY <1>4, <3>1, <3>2, <3>3, <3>4
  <2>2. CASE ~(j < n)
    <3>1. j \notin S
      BY <1>1, <1>2, <2>2, Sizes
    <3> QED
      BY <1>4, <2>2, <3>1
  <2> QED
    BY <2>1, <2>2
<1>6. LoadLeft(vr, m, ea, i.e, RegBytes - InRow(ea)) = SetVbytes(vr, b)
  BY DEF LoadLeft, n
<1> HIDE DEF f, b
<1> QED
  BY <1>3, <1>4, <1>5, <1>6, BlendIsSetVbytes

\* The inline lrv, whose window ends at ea.
LEMMA RightLoad ==
    ASSUME NEW m \in MemVal, NEW ea \in Int, NEW vr, NEW i \in VecInsn,
           i.op = "lrv", FastCond(i, ea)
    PROVE  VecLoadFast(i, m, ea, vr) = LoadRight(vr, m, ea, i.e)
<1> DEFINE ea12 == ea % DmemSize
           n == RegBytes - InRow(ea)
           start == RightStart(ea, i.e)
           S == {j \in 0 .. RegBytes - 1 : j >= start}
           b == [j \in S |-> m[((ea - InRow(ea)) + (j - start)) % DmemSize]]
           f == [j \in 0 .. RegBytes - 1 |->
                    IF j >= n THEN HostLoad(m, ea12 - RegBytes, RegBytes)[j]
                    ELSE ToBytes(vr)[j]]
<1>1. InRow(ea) \in 0 .. RegBytes - 1
  BY InRowRange
<1>2. i.e = 0 /\ ea12 >= RegBytes
  BY Kinds, Zenon DEF FastCond
<1>3. VecLoadFast(i, m, ea, vr) = FromBytes(f)
  BY Kinds, Zenon DEF VecLoadFast
<1>4. n = start
  BY <1>1, <1>2, Sizes DEF RightStart
<1>5. ea12 \in 0 .. DmemSize - 1
  BY Sizes, ModRange
<1>6. DOMAIN b = S /\ S \subseteq 0 .. RegBytes - 1
  OBVIOUS
<1>7. ASSUME NEW j \in 0 .. RegBytes - 1
      PROVE  f[j] = IF j \in DOMAIN b THEN b[j] ELSE ToBytes(vr)[j]
  <2>1. CASE j >= n
    <3>1. (ea - InRow(ea)) + (j - start) = ea + (j - RegBytes)
      BY <1>1, <1>4, Sizes
    <3>2. ea12 + (j - RegBytes) \in 0 .. DmemSize - 1
      BY <1>2, <1>5, Sizes
    <3>3. (ea + (j - RegBytes)) % DmemSize = ea12 + (j - RegBytes)
      <4> DEFINE k == j - RegBytes
      <4>1. k \in Int /\ (ea % DmemSize) + k \in 0 .. DmemSize - 1
        BY <3>2, Sizes
      <4> HIDE DEF k
      <4>2. (ea + k) % DmemSize = (ea % DmemSize) + k
        BY <4>1, Sizes, ModAdd
      <4> QED
        BY <4>2 DEF k
    <3>4. f[j] = m[(ea12 - RegBytes) + j]
      BY <2>1 DEF HostLoad
    <3>5. (ea12 - RegBytes) + j = ea12 + (j - RegBytes)
      BY <1>5, Sizes
    <3>6. j \in S
      BY <1>4, <2>1
    <3> HIDE DEF f, ea12, S, start
    <3>7. b[j] = m[((ea - InRow(ea)) + (j - start)) % DmemSize]
      BY <3>6
    <3> QED
      BY <1>6, <3>1, <3>3, <3>4, <3>5, <3>6, <3>7
  <2>2. CASE ~(j >= n)
    <3>1. j \notin S
      BY <1>4, <2>2
    <3> QED
      BY <1>6, <2>2, <3>1
  <2> QED
    BY <2>1, <2>2
<1>8. LoadRight(vr, m, ea, i.e) = SetVbytes(vr, b)
  BY DEF LoadRight
<1> HIDE DEF f, b
<1> QED
  BY <1>3, <1>6, <1>7, <1>8, BlendIsSetVbytes

\* The inline ssv, slv and sdv.
LEMMA FixedStore ==
    ASSUME NEW m \in MemVal, NEW ea \in Int, NEW vr, NEW i \in VecInsn,
           i.op = "snv", FastCond(i, ea)
    PROVE  VecStoreFast(i, m, ea, vr) = StoreLeft(vr, m, ea, i.e, i.n)
<1> DEFINE f == [j \in 0 .. i.n - 1 |-> ToBytes(vr)[i.e + j]]
           b == [j \in 0 .. i.n - 1 |-> Vbyte(vr, i.e + j)]
<1>1. i.e \in 0 .. RegBytes - 1 /\ i.n \in 1 .. RegBytes
  BY InsnTypes
<1>2. i.e + i.n <= RegBytes /\ FitsInDmem(ea, i.n)
  BY Kinds, Zenon DEF FastCond
<1>3. VecStoreFast(i, m, ea, vr) = HostStore(m, ea % DmemSize, f)
  BY Kinds, Zenon DEF VecStoreFast
<1>4. f = b
  <2>1. ASSUME NEW j \in 0 .. i.n - 1 PROVE ToBytes(vr)[i.e + j] = Vbyte(vr, i.e + j)
    <3>1. i.e + j \in 0 .. RegBytes - 1
      BY <1>1, <1>2, Sizes
    <3> QED
      BY <3>1, ToBytesIsVbyte
  <2> QED
    BY <2>1
<1>5. DOMAIN b = 0 .. i.n - 1
  OBVIOUS
<1>6. StoreLeft(vr, m, ea, i.e, i.n) = WriteBytes(m, ea, b)
  BY DEF StoreLeft
<1> HIDE DEF f, b
<1>7. HostStore(m, ea % DmemSize, b) = WriteBytes(m, ea, b)
  BY <1>1, <1>2, <1>5, FitsWrites
<1> QED
  BY <1>3, <1>4, <1>6, <1>7

\* The inline sqv: what it reads, modifies and writes back is, outside the n
\* bytes up to the row's end, what was there.
LEMMA LeftStore ==
    ASSUME NEW m \in MemVal, NEW ea \in Int, NEW vr, NEW i \in VecInsn,
           i.op = "sqv", FastCond(i, ea)
    PROVE  VecStoreFast(i, m, ea, vr) = StoreLeft(vr, m, ea, i.e, RegBytes - InRow(ea))
<1> DEFINE ea12 == ea % DmemSize
           n == RegBytes - InRow(ea)
           cur == HostLoad(m, ea12, RegBytes)
           f == [j \in 0 .. RegBytes - 1 |-> IF j < n THEN ToBytes(vr)[j] ELSE cur[j]]
           b == [j \in 0 .. n - 1 |-> Vbyte(vr, i.e + j)]
<1>1. n \in 1 .. RegBytes
  BY InRowRange, Sizes
<1>2. i.e = 0 /\ ea12 <= DmemSize - RegBytes
  BY Kinds, Zenon DEF FastCond
<1>3. VecStoreFast(i, m, ea, vr) = HostStore(m, ea12, f)
  BY Kinds, Zenon DEF VecStoreFast
<1>4. ea12 \in 0 .. DmemSize - 1
  BY Sizes, ModRange
<1>5. StoreLeft(vr, m, ea, i.e, RegBytes - InRow(ea)) = WriteBytes(m, ea, b)
  BY DEF StoreLeft
<1>6. DOMAIN b = 0 .. n - 1 /\ DOMAIN f = 0 .. RegBytes - 1
  OBVIOUS
<1>7. ASSUME NEW j \in 0 .. n - 1 PROVE f[j] = b[j]
  <2>1. j \in 0 .. RegBytes - 1 /\ j < n /\ i.e + j = j
    BY <1>1, <1>2, Sizes
  <2>2. f[j] = ToBytes(vr)[j]
    BY <2>1
  <2>3. b[j] = Vbyte(vr, j)
    BY <2>1
  <2> QED
    BY <2>1, <2>2, <2>3, ToBytesIsVbyte
<1>8. ASSUME NEW j \in 0 .. RegBytes - 1, j \notin 0 .. n - 1 PROVE f[j] = m[ea12 + j]
  <2>1. ~(j < n)
    BY <1>1, <1>8
  <2> QED
    BY <2>1 DEF HostLoad
<1> HIDE DEF f, b, n, ea12
<1>9. ASSUME NEW c \in DOMAIN m
      PROVE  (IF c - ea12 \in DOMAIN f THEN f[c - ea12] ELSE m[c])
               = (IF c - ea12 \in DOMAIN b THEN b[c - ea12] ELSE m[c])
  <2>1. c \in Int
    BY DEF MemVal
  <2>2. CASE c - ea12 \in DOMAIN b
    <3>1. c - ea12 \in DOMAIN f
      BY <1>1, <1>6, <2>2, Sizes
    <3> QED
      BY <1>6, <1>7, <2>2, <3>1
  <2>3. CASE c - ea12 \in DOMAIN f /\ c - ea12 \notin DOMAIN b
    <3>1. f[c - ea12] = m[ea12 + (c - ea12)]
      BY <1>6, <1>8, <2>3
    <3>2. ea12 + (c - ea12) = c
      BY <1>4, <2>1
    <3> QED
      BY <2>3, <3>1, <3>2
  <2>4. CASE c - ea12 \notin DOMAIN f /\ c - ea12 \notin DOMAIN b
    BY <2>4
  <2> QED
    BY <2>2, <2>3, <2>4
<1>10. HostStore(m, ea12, f) = HostStore(m, ea12, b)
  BY <1>9 DEF HostStore
<1>11. FitsInDmem(ea, n)
  BY <1>1, <1>2, <1>4, Sizes DEF FitsInDmem, ea12
<1>12. HostStore(m, ea12, b) = WriteBytes(m, ea, b)
  BY <1>1, <1>6, <1>11, FitsWrites DEF ea12
<1> QED
  BY <1>3, <1>5, <1>10, <1>12

-----------------------------------------------------------------------------
(* lwc2 and swc2 use the base register and one vector register.            *)

\* An inline load is lwc2.
LEMMA InlineLoad ==
    ASSUME NEW m \in MemVal, NEW rr, NEW vv, NEW i \in VecInsn,
           i.op \in VecLoads \cap Translated, VecEffAddr(rr, i) \in Int,
           FastCond(i, VecEffAddr(rr, i))
    PROVE  [vv EXCEPT ![i.vt] = VecLoadFast(i, m, VecEffAddr(rr, i), vv[i.vt])]
             = Lwc2(i, m, rr, vv)
<1>1. CASE i.op = "lnv"
  <2>1. Lwc2(i, m, rr, vv)
          = [vv EXCEPT ![i.vt] = LoadLeft(vv[i.vt], m, VecEffAddr(rr, i), i.e, i.n)]
    BY <1>1, Zenon DEF Lwc2
  <2>2. VecLoadFast(i, m, VecEffAddr(rr, i), vv[i.vt])
          = LoadLeft(vv[i.vt], m, VecEffAddr(rr, i), i.e, i.n)
    BY <1>1, FixedLoad
  <2> QED
    BY <2>1, <2>2, Zenon
<1>2. CASE i.op = "lqv"
  <2>1. Lwc2(i, m, rr, vv)
          = [vv EXCEPT ![i.vt] = LoadLeft(vv[i.vt], m, VecEffAddr(rr, i), i.e,
                                          RegBytes - InRow(VecEffAddr(rr, i)))]
    BY <1>2, Zenon DEF Lwc2
  <2>2. VecLoadFast(i, m, VecEffAddr(rr, i), vv[i.vt])
          = LoadLeft(vv[i.vt], m, VecEffAddr(rr, i), i.e,
                     RegBytes - InRow(VecEffAddr(rr, i)))
    BY <1>2, LeftLoad
  <2> QED
    BY <2>1, <2>2, Zenon
<1>3. CASE i.op = "lrv"
  <2>1. Lwc2(i, m, rr, vv)
          = [vv EXCEPT ![i.vt] = LoadRight(vv[i.vt], m, VecEffAddr(rr, i), i.e)]
    BY <1>3, Zenon DEF Lwc2
  <2>2. VecLoadFast(i, m, VecEffAddr(rr, i), vv[i.vt])
          = LoadRight(vv[i.vt], m, VecEffAddr(rr, i), i.e)
    BY <1>3, RightLoad
  <2> QED
    BY <2>1, <2>2, Zenon
<1> QED
  BY <1>1, <1>2, <1>3 DEF VecLoads, Translated

\* An inline store is swc2.
LEMMA InlineStore ==
    ASSUME NEW m \in MemVal, NEW rr, NEW vv, NEW i \in VecInsn,
           i.op \in VecStores \cap Translated, VecEffAddr(rr, i) \in Int,
           FastCond(i, VecEffAddr(rr, i))
    PROVE  VecStoreFast(i, m, VecEffAddr(rr, i), vv[i.vt]) = Swc2(i, m, rr, vv)
<1>1. CASE i.op = "snv"
  <2>1. Swc2(i, m, rr, vv) = StoreLeft(vv[i.vt], m, VecEffAddr(rr, i), i.e, i.n)
    BY <1>1, Zenon DEF Swc2
  <2> QED
    BY <1>1, <2>1, FixedStore
<1>2. CASE i.op = "sqv"
  <2>1. Swc2(i, m, rr, vv) = StoreLeft(vv[i.vt], m, VecEffAddr(rr, i), i.e,
                                       RegBytes - InRow(VecEffAddr(rr, i)))
    BY <1>2, Zenon DEF Swc2
  <2> QED
    BY <1>2, <2>1, LeftStore
<1> QED
  BY <1>1, <1>2 DEF VecStores, Translated

\* A callback's load, made with other registers than vt out of date, brings in
\* vt what it would bring with all of them up to date.
LEMMA LoadNeedsTwo ==
    ASSUME NEW m, NEW r1, NEW r2, NEW i \in VecInsn,
           NEW v1 \in [Vec -> VecVal], NEW v2 \in [Vec -> VecVal],
           i.op \in VecLoads \cap Translated,
           r1[i.base] = r2[i.base], v1[i.vt] = v2[i.vt]
    PROVE  [v2 EXCEPT ![i.vt] = Lwc2(i, m, r1, v1)[i.vt]] = Lwc2(i, m, r2, v2)
<1>1. VecEffAddr(r1, i) = VecEffAddr(r2, i)
  BY DEF VecEffAddr
<1>2. PICK x : /\ Lwc2(i, m, r1, v1) = [v1 EXCEPT ![i.vt] = x]
               /\ Lwc2(i, m, r2, v2) = [v2 EXCEPT ![i.vt] = x]
  <2>1. CASE i.op = "lnv"
    BY <1>1, <2>1, Zenon DEF Lwc2
  <2>2. CASE i.op = "lqv"
    BY <1>1, <2>2, Zenon DEF Lwc2
  <2>3. CASE i.op = "lrv"
    BY <1>1, <2>3, Zenon DEF Lwc2
  <2> QED
    BY <2>1, <2>2, <2>3 DEF VecLoads, Translated
<1>3. i.vt \in Vec
  BY InsnTypes
<1> QED
  BY <1>2, <1>3

\* And so for a store.
LEMMA StoreNeedsTwo ==
    ASSUME NEW m, NEW r1, NEW r2, NEW i \in VecInsn, NEW v1, NEW v2,
           i.op \in VecStores \cap Translated,
           r1[i.base] = r2[i.base], v1[i.vt] = v2[i.vt]
    PROVE  Swc2(i, m, r1, v1) = Swc2(i, m, r2, v2)
<1>1. VecEffAddr(r1, i) = VecEffAddr(r2, i)
  BY DEF VecEffAddr
<1>2. CASE i.op = "snv"
  BY <1>1, <1>2, Zenon DEF Swc2
<1>3. CASE i.op = "sqv"
  BY <1>1, <1>3, Zenon DEF Swc2
<1> QED
  BY <1>2, <1>3 DEF VecStores, Translated

-----------------------------------------------------------------------------
(* Types.                                                                  *)

\* An address inside memory after the wrap.
LEMMA ReadsByte ==
    ASSUME NEW m \in MemVal, NEW a \in Int
    PROVE  m[a % DmemSize] \in Byte
<1>1. a % DmemSize \in 0 .. DmemSize - 1
  BY Sizes, ModRange
<1>2. a % DmemSize \in 0 .. 2 * DmemSize - 1
  BY <1>1, Sizes
<1> QED
  BY <1>2 DEF MemVal

\* Remainders of words.
LEMMA WordRange ==
    ASSUME NEW x \in Int
    PROVE  x % WordMod \in Word
  BY PowTypes, ModRange DEF Word

\* The values of n bytes are words.
LEMMA PowBelowWord ==
    ASSUME NEW n \in {1, 2, 4}
    PROVE  BytePow(n) <= WordMod
<1> DEFINE B2 == ByteMod * ByteMod
           B3 == B2 * ByteMod
           B4 == B3 * ByteMod
<1>1. ByteMod \in Nat /\ ByteMod >= 1
  BY PowTypes
<1>2. \A x \in Nat : x * ByteMod >= x /\ x * ByteMod \in Nat
  BY <1>1, Z3
<1>3. B2 \in Nat /\ B2 >= ByteMod
  BY <1>1, <1>2
<1>4. B3 \in Nat /\ B3 >= B2
  BY <1>2, <1>3
<1>5. B4 \in Nat /\ B4 >= B3
  BY <1>2, <1>4
<1>6. WordMod = B4 /\ BytePow(1) = ByteMod /\ BytePow(2) = B2 /\ BytePow(4) = WordMod
  BY DEF WordMod, BytePow
<1> HIDE DEF B2, B3, B4
<1> QED
  BY <1>1, <1>3, <1>4, <1>5, <1>6

\* What rd16 and rd32 return.
LEMMA RdType ==
    ASSUME NEW m \in MemVal, NEW a \in Int, NEW n \in {1, 2, 4}
    PROVE  Rd(m, a, n) \in 0 .. BytePow(n) - 1
<1> DEFINE b0 == m[a % DmemSize]
           b1 == m[(a + 1) % DmemSize]
           b2 == m[(a + 2) % DmemSize]
           b3 == m[(a + 3) % DmemSize]
<1>1. b0 \in Byte /\ b1 \in Byte /\ b2 \in Byte /\ b3 \in Byte
  BY ReadsByte
<1>2. /\ n = 1 => Rd(m, a, n) = b0
      /\ n = 2 => Rd(m, a, n) = b0 * ByteMod + b1
      /\ n = 4 => Rd(m, a, n) = ((b0 * ByteMod + b1) * ByteMod + b2) * ByteMod + b3
  BY DEF Rd
<1>3. /\ BytePow(1) = ByteMod
      /\ BytePow(2) = ByteMod * ByteMod
      /\ BytePow(4) = ByteMod * ByteMod * ByteMod * ByteMod
  BY DEF BytePow, WordMod
<1> HIDE DEF b0, b1, b2, b3
<1>4. ByteMod \in Nat /\ ByteMod * ByteMod \in Nat /\ ByteMod * ByteMod * ByteMod \in Nat
  BY PowTypes DEF BytePow
<1>5. b0 * ByteMod + b1 \in 0 .. ByteMod * ByteMod - 1
  BY <1>1, <1>4, Horner DEF Byte
<1>6. (b0 * ByteMod + b1) * ByteMod + b2 \in 0 .. ByteMod * ByteMod * ByteMod - 1
  BY <1>1, <1>4, <1>5, Horner DEF Byte
<1>7. ((b0 * ByteMod + b1) * ByteMod + b2) * ByteMod + b3
        \in 0 .. ByteMod * ByteMod * ByteMod * ByteMod - 1
  BY <1>1, <1>4, <1>6, Horner DEF Byte
<1>8. CASE n = 1
  BY <1>1, <1>2, <1>3, <1>8 DEF Byte
<1>9. CASE n = 2
  BY <1>2, <1>3, <1>5, <1>9
<1>10. CASE n = 4
  BY <1>2, <1>3, <1>7, <1>10
<1> QED
  BY <1>8, <1>9, <1>10

\* A sign extension stays a word.
LEMMA SignExtendType ==
    ASSUME NEW n \in {1, 2, 4}, NEW x \in 0 .. BytePow(n) - 1
    PROVE  SignExtend(x, n) \in Word
<1>1. BytePow(n) \in Nat /\ BytePow(n) <= WordMod /\ WordMod \in Nat
  BY PowTypes, PowBelowWord
<1>2. x \in Word
  BY <1>1 DEF Word
<1>3. (x - BytePow(n)) % WordMod \in Word
  BY <1>1, WordRange
<1> QED
  BY <1>2, <1>3 DEF SignExtend

\* The bytes scalar accesses move.
LEMMA ScalarSizes ==
    /\ \A op \in ScalarLoads \cup ScalarStores : ScalarBytes(op) \in {1, 2, 4}
    /\ ScalarBytes("lb") = 1 /\ ScalarBytes("lh") = 2
<1>1. /\ ScalarBytes("lb") = 1 /\ ScalarBytes("lbu") = 1 /\ ScalarBytes("sb") = 1
      /\ ScalarBytes("lh") = 2 /\ ScalarBytes("lhu") = 2 /\ ScalarBytes("sh") = 2
      /\ ScalarBytes("lw") = 4 /\ ScalarBytes("sw") = 4
  BY Zenon DEF ScalarBytes
<1> QED
  BY <1>1 DEF ScalarLoads, ScalarStores

\* What a scalar load puts in its register.
LEMMA ExtendedType ==
    ASSUME NEW m \in MemVal, NEW a \in Int, NEW op \in ScalarLoads
    PROVE  Extended(op, Rd(m, a, ScalarBytes(op))) \in Word
<1> DEFINE n == ScalarBytes(op)
           x == Rd(m, a, n)
<1>1. n \in {1, 2, 4}
  BY ScalarSizes
<1> HIDE DEF n
<1>2. x \in 0 .. BytePow(n) - 1
  BY <1>1, RdType
<1> HIDE DEF x
<1>3. CASE op = "lb"
  <2>1. Extended(op, x) = SignExtend(x, n)
    BY <1>3, ScalarSizes, Zenon DEF Extended, n
  <2> QED
    BY <1>1, <1>2, <2>1, SignExtendType DEF x, n
<1>4. CASE op = "lh"
  <2>1. Extended(op, x) = SignExtend(x, n)
    BY <1>4, ScalarSizes, Zenon DEF Extended, n
  <2> QED
    BY <1>1, <1>2, <2>1, SignExtendType DEF x, n
<1>5. CASE op \in {"lbu", "lhu", "lw"}
  <2>1. Extended(op, x) = x
    BY <1>5, Zenon DEF Extended
  <2>2. BytePow(n) \in Nat /\ BytePow(n) <= WordMod /\ WordMod \in Nat
    BY <1>1, PowTypes, PowBelowWord
  <2>3. x \in Word
    BY <1>2, <2>2 DEF Word
  <2> QED
    BY <2>1, <2>3 DEF x, n
<1> QED
  BY <1>3, <1>4, <1>5 DEF ScalarLoads

\* Stored bytes leave a memory, and its upper half as it was.
LEMMA WriteType ==
    ASSUME NEW m \in MemVal, NEW a \in Int, NEW b,
           \A j \in DOMAIN b : b[j] \in Byte
    PROVE  /\ WriteBytes(m, a, b) \in MemVal
           /\ \A c \in Imem : WriteBytes(m, a, b)[c] = m[c]
<1>1. \A c \in Imem : c \in DOMAIN m /\ c \notin Dmem
  BY Sizes DEF Imem, Dmem, MemVal
<1> QED
  BY <1>1 DEF WriteBytes, MemVal

\* A byte cut out of a word.
LEMMA ByteAtType ==
    ASSUME NEW x \in Word, NEW k \in 0 .. 4
    PROVE  ByteAt(x, k) \in Byte
<1>1. x \in Int
  BY PowTypes DEF Word
<1>2. x \div BytePow(k) \in Int
  BY <1>1, PowTypes, ModRange
<1> QED
  BY <1>2, PowTypes, ModRange DEF ByteAt, Byte

\* wr16, wr32 and the byte store.
LEMMA WrType ==
    ASSUME NEW m \in MemVal, NEW a \in Int, NEW x \in Word, NEW n \in {1, 2, 4}
    PROVE  Wr(m, a, x, n) \in MemVal /\ \A c \in Imem : Wr(m, a, x, n)[c] = m[c]
<1> DEFINE b == [i \in 0 .. n - 1 |-> ByteAt(x, n - 1 - i)]
<1>1. \A j \in DOMAIN b : b[j] \in Byte
  BY ByteAtType
<1> HIDE DEF b
<1>2. WriteBytes(m, a, b) \in MemVal /\ \A c \in Imem : WriteBytes(m, a, b)[c] = m[c]
  BY <1>1, WriteType
<1> QED
  BY <1>2 DEF Wr, b

\* vbyte.
LEMMA VbyteType ==
    ASSUME NEW vr \in VecVal, NEW j \in Int
    PROVE  Vbyte(vr, j) \in Byte
<1>1. j % RegBytes \in 0 .. RegBytes - 1
  BY Sizes, ModRange
<1>2. (j % RegBytes) \div 2 \in Lane
  BY <1>1, Sizes DEF Lane, RegBytes
<1> QED
  BY <1>2 DEF Vbyte, VecVal, LaneVal

\* set_vbyte.
LEMMA SetVbytesType ==
    ASSUME NEW vr \in VecVal, NEW b, \A j \in DOMAIN b : b[j] \in Byte
    PROVE  SetVbytes(vr, b) \in VecVal
  BY DEF SetVbytes, VecVal, LaneVal

\* The address of a vector access.
LEMMA VecEffAddrType ==
    ASSUME NEW rr \in [Gpr -> Word], NEW i \in VecInsn
    PROVE  VecEffAddr(rr, i) \in Int
<1>1. rr[i.base] \in Int /\ i.offs \in Int /\ i.n \in Int
  BY InsnTypes, PowTypes DEF Word
<1>2. VecScale(i.op, i.n) \in Int
  <2>1. i.op \in VecLoads \cup VecStores
    BY DEF VecInsn
  <2>2. CASE i.op \in {"lbv", "sbv"}
    <3>1. VecScale(i.op, i.n) = 1
      BY <2>2, Zenon DEF VecScale
    <3> QED
      BY <3>1
  <2>3. CASE i.op \in {"lnv", "snv"}
    BY <1>1, <2>3, Zenon DEF VecScale
  <2>4. CASE i.op \in {"lpv", "luv", "spv", "suv"}
    <3>1. VecScale(i.op, i.n) = NumLanes
      BY <2>4, Zenon DEF VecScale
    <3> QED
      BY <3>1, Sizes
  <2>5. CASE i.op \in {"lqv", "lrv", "ltv", "sqv", "srv"}
    <3>1. VecScale(i.op, i.n) = RegBytes
      BY <2>5, Zenon DEF VecScale
    <3> QED
      BY <3>1, Sizes
  <2> QED
    BY <2>1, <2>2, <2>3, <2>4, <2>5 DEF VecLoads, VecStores
<1> HIDE DEF VecScale
<1>3. i.offs * VecScale(i.op, i.n) \in Int
  BY <1>1, <1>2
<1>4. rr[i.base] + i.offs * VecScale(i.op, i.n) \in Int
  BY <1>1, <1>3
<1> QED
  BY <1>4, PowTypes, ModRange DEF VecEffAddr

\* The address of a scalar access.
LEMMA EffAddrType ==
    ASSUME NEW rr \in [Gpr -> Word], NEW i \in ScalarInsn
    PROVE  EffAddr(rr, i) \in Int
<1>1. rr[i.rs] \in Int /\ i.offs \in Int
  BY InsnTypes, PowTypes DEF Word
<1> QED
  BY <1>1, PowTypes, ModRange DEF EffAddr

\* lsv, llv, ldv, lqv and lbv.
LEMMA LoadLeftType ==
    ASSUME NEW vr \in VecVal, NEW m \in MemVal, NEW ea \in Int,
           NEW e \in 0 .. RegBytes - 1, NEW n \in Int
    PROVE  LoadLeft(vr, m, ea, e, n) \in VecVal
<1> DEFINE S == {j \in e .. RegBytes - 1 : j < e + n}
           b == [j \in S |-> m[(ea + (j - e)) % DmemSize]]
<1>1. ASSUME NEW j \in S PROVE m[(ea + (j - e)) % DmemSize] \in Byte
  <2>1. ea + (j - e) \in Int
    OBVIOUS
  <2> QED
    BY <2>1, ReadsByte
<1>2. \A j \in DOMAIN b : b[j] \in Byte
  BY <1>1
<1> HIDE DEF b
<1> QED
  BY <1>2, SetVbytesType DEF LoadLeft, b

\* lrv.
LEMMA LoadRightType ==
    ASSUME NEW vr \in VecVal, NEW m \in MemVal, NEW ea \in Int,
           NEW e \in 0 .. RegBytes - 1
    PROVE  LoadRight(vr, m, ea, e) \in VecVal
<1> DEFINE start == RightStart(ea, e)
           S == {j \in 0 .. RegBytes - 1 : j >= start}
           b == [j \in S |-> m[((ea - InRow(ea)) + (j - start)) % DmemSize]]
<1>1. InRow(ea) \in Int /\ start \in Int
  BY InRowRange, Sizes DEF RightStart
<1> HIDE DEF start
<1>2. ASSUME NEW j \in S
      PROVE  m[((ea - InRow(ea)) + (j - start)) % DmemSize] \in Byte
  <2>1. (ea - InRow(ea)) + (j - start) \in Int
    BY <1>1
  <2> QED
    BY <2>1, ReadsByte
<1>3. \A j \in DOMAIN b : b[j] \in Byte
  BY <1>2
<1> HIDE DEF b
<1> QED
  BY <1>3, SetVbytesType DEF LoadRight, b, start

\* Half a byte's values, twice, are a byte's.
LEMMA HalfByte ==
    /\ ByteMod \div 2 \in Nat /\ ByteMod \div 2 > 0
    /\ ByteMod = 2 * (ByteMod \div 2)
  BY ByteAssumption

\* lpv and luv.
LEMMA LoadPackedType ==
    ASSUME NEW m \in MemVal, NEW ea \in Int, NEW e \in 0 .. RegBytes - 1,
           NEW op \in {"lpv", "luv"}
    PROVE  LoadPacked(m, ea, e, op) \in VecVal
<1>1. ASSUME NEW b \in Byte PROVE Packed(op, b) \in LaneVal
  <2>1. b \in Nat /\ b < ByteMod
    BY PowTypes DEF Byte
  <2>2. b \div 2 \in Byte /\ b % 2 \in {0, 1}
    BY <2>1, PowTypes DEF Byte
  <2>3. (b % 2) * (ByteMod \div 2) \in Byte
    <3>1. CASE b % 2 = 0
      BY <3>1, HalfByte, PowTypes DEF Byte
    <3>2. CASE b % 2 = 1
      BY <3>2, HalfByte, PowTypes DEF Byte
    <3> QED
      BY <2>2, <3>1, <3>2
  <2>4. 0 \in Byte
    BY PowTypes DEF Byte
  <2> QED
    BY <2>2, <2>3, <2>4 DEF Packed, LaneVal
<1>2. ASSUME NEW l \in Lane
      PROVE  m[(ea + ((l - e) % NumLanes)) % DmemSize] \in Byte
  <2>1. (l - e) % NumLanes \in Int
    BY Sizes, ModRange DEF Lane
  <2> QED
    BY <2>1, ReadsByte
<1> QED
  BY <1>1, <1>2 DEF LoadPacked, VecVal

\* ltv.
LEMMA LoadTransposedType ==
    ASSUME NEW vv \in [Vec -> VecVal], NEW m \in MemVal, NEW ea \in Int, NEW vt \in Vec
    PROVE  LoadTransposed(vv, m, ea, vt) \in [Vec -> VecVal]
<1> DEFINE group == vt - (vt % NumLanes)
           off == ea % NumLanes
           at(sl) == ((ea - off) + ((off + 2 * sl) % RegBytes)) % DmemSize
           lane(sl) == [hi |-> m[at(sl)], lo |-> m[(at(sl) + 1) % DmemSize]]
<1>1. off \in Int
  BY Sizes, ModRange
<1>2. ASSUME NEW sl \in Lane PROVE lane(sl) \in LaneVal
  <2> DEFINE k == (off + 2 * sl) % RegBytes
  <2>1. off + 2 * sl \in Int
    BY <1>1 DEF Lane
  <2>2. k \in Int
    BY <2>1, Sizes, ModRange
  <2> HIDE DEF k, off
  <2>3. (ea - off) + k \in Int
    BY <1>1, <2>2
  <2>4. m[((ea - off) + k) % DmemSize] \in Byte /\ ((ea - off) + k) % DmemSize \in Int
    BY <2>3, ReadsByte, Sizes, ModRange
  <2>5. m[((((ea - off) + k) % DmemSize) + 1) % DmemSize] \in Byte
    BY <2>4, ReadsByte
  <2> QED
    BY <2>4, <2>5 DEF LaneVal, k, off
<1> HIDE DEF lane
<1>3. LoadTransposed(vv, m, ea, vt)
        = [w \in Vec |-> IF w - group \in Lane
                         THEN [vv[w] EXCEPT ![w - group] = lane(w - group)]
                         ELSE vv[w]]
  BY DEF LoadTransposed, lane
<1> HIDE DEF group
<1> QED
  BY <1>2, <1>3 DEF VecVal

\* Every vector load.
LEMMA Lwc2Type ==
    ASSUME NEW m \in MemVal, NEW rr \in [Gpr -> Word], NEW vv \in [Vec -> VecVal],
           NEW i \in VecInsn, i.op \in VecLoads
    PROVE  Lwc2(i, m, rr, vv) \in [Vec -> VecVal]
<1> DEFINE ea == VecEffAddr(rr, i)
<1>1. ea \in Int
  BY VecEffAddrType
<1>2. i.vt \in Vec /\ i.e \in 0 .. RegBytes - 1 /\ i.n \in Int /\ vv[i.vt] \in VecVal
  BY InsnTypes
<1>3. InRow(ea) \in Int /\ RegBytes - InRow(ea) \in Int
  BY <1>1, InRowRange, Sizes
<1>4. ASSUME NEW x \in VecVal PROVE [vv EXCEPT ![i.vt] = x] \in [Vec -> VecVal]
  OBVIOUS
<1>5. CASE i.op \in {"lbv", "lnv", "lqv"}
  <2>1. \E n \in Int : Lwc2(i, m, rr, vv)
                         = [vv EXCEPT ![i.vt] = LoadLeft(vv[i.vt], m, ea, i.e, n)]
    <3>1. 1 \in Int
      OBVIOUS
    <3> QED
      BY <1>2, <1>3, <1>5, <3>1, Zenon DEF Lwc2
  <2> QED
    BY <1>1, <1>2, <1>4, <2>1, LoadLeftType
<1>6. CASE i.op = "lrv"
  <2>1. Lwc2(i, m, rr, vv) = [vv EXCEPT ![i.vt] = LoadRight(vv[i.vt], m, ea, i.e)]
    BY <1>6, Zenon DEF Lwc2
  <2> QED
    BY <1>1, <1>2, <1>4, <2>1, LoadRightType
<1>7. CASE i.op \in {"lpv", "luv"}
  <2>1. Lwc2(i, m, rr, vv) = [vv EXCEPT ![i.vt] = LoadPacked(m, ea, i.e, i.op)]
    BY <1>7, Zenon DEF Lwc2
  <2> QED
    BY <1>1, <1>2, <1>4, <1>7, <2>1, LoadPackedType
<1>8. CASE i.op = "ltv"
  <2>1. Lwc2(i, m, rr, vv) = LoadTransposed(vv, m, ea, i.vt)
    BY <1>8, Zenon DEF Lwc2
  <2> QED
    BY <1>1, <1>2, <2>1, LoadTransposedType
<1> QED
  BY <1>5, <1>6, <1>7, <1>8 DEF VecLoads

\* ssv, slv, sdv, sqv and sbv.
LEMMA StoreLeftType ==
    ASSUME NEW vr \in VecVal, NEW m \in MemVal, NEW ea \in Int,
           NEW e \in Int, NEW n \in Int
    PROVE  /\ StoreLeft(vr, m, ea, e, n) \in MemVal
           /\ \A c \in Imem : StoreLeft(vr, m, ea, e, n)[c] = m[c]
<1> DEFINE b == [j \in 0 .. n - 1 |-> Vbyte(vr, e + j)]
<1>1. \A j \in DOMAIN b : b[j] \in Byte
  BY VbyteType
<1> HIDE DEF b
<1> QED
  BY <1>1, WriteType DEF StoreLeft, b

\* srv.
LEMMA StoreRightType ==
    ASSUME NEW vr \in VecVal, NEW m \in MemVal, NEW ea \in Int, NEW e \in Int
    PROVE  /\ StoreRight(vr, m, ea, e) \in MemVal
           /\ \A c \in Imem : StoreRight(vr, m, ea, e)[c] = m[c]
<1> DEFINE start == RightStart(ea, e)
           b == [j \in 0 .. RegBytes - 1 - start |-> Vbyte(vr, start + j)]
<1>1. start \in Int /\ ea - InRow(ea) \in Int
  BY InRowRange, Sizes DEF RightStart
<1> HIDE DEF start
<1>2. \A j \in DOMAIN b : b[j] \in Byte
  BY <1>1, VbyteType
<1> HIDE DEF b
<1> QED
  BY <1>1, <1>2, WriteType DEF StoreRight, b, start

\* spv and suv.
LEMMA StorePackedType ==
    ASSUME NEW vr \in VecVal, NEW m \in MemVal, NEW ea \in Int, NEW e \in Int, NEW op
    PROVE  /\ StorePacked(vr, m, ea, e, op) \in MemVal
           /\ \A c \in Imem : StorePacked(vr, m, ea, e, op)[c] = m[c]
<1> DEFINE shift8 == (op = "spv") # (e >= NumLanes)
           b == [j \in Lane |-> Unpacked(shift8, vr[(e + j) % NumLanes])]
           H == ByteMod \div 2
<1>1. ASSUME NEW x \in LaneVal, NEW s \in BOOLEAN PROVE Unpacked(s, x) \in Byte
  <2>1. x.hi \in Byte /\ x.lo \in Byte
    BY DEF LaneVal
  <2>2. x.hi % H \in 0 .. H - 1
    BY <2>1, HalfByte, PowTypes, ModRange DEF Byte
  <2>3. /\ x.lo \div H \in Int /\ x.lo % H \in 0 .. H - 1
        /\ x.lo = H * (x.lo \div H) + (x.lo % H)
    BY <2>1, HalfByte, PowTypes, ModRange DEF Byte
  <2> DEFINE q == x.lo \div H
             s2 == x.lo % H
  <2>4. H \in Nat /\ H > 0 /\ ByteMod = 2 * H
    BY HalfByte
  <2>5. x.lo \in Int /\ x.lo >= 0 /\ x.lo < 2 * H
    BY <2>1, <2>4 DEF Byte
  <2>6. q \in {0, 1}
    <3> HIDE DEF H
    <3>1. q \in Int /\ s2 \in 0 .. H - 1 /\ x.lo = H * q + s2
      BY <2>3
    <3> HIDE DEF q, s2
    <3>2. q <= -1 => H * q <= -H
      BY <2>4, <3>1, MulStep
    <3>3. q >= 2 => H * (q - 1) >= H
      BY <2>4, <3>1, MulStep
    <3>4. H * (q - 1) = H * q - H
      BY <2>4, <3>1
    <3>5. H * q \in Int
      BY <2>4, <3>1
    <3> QED
      BY <2>4, <2>5, <3>1, <3>2, <3>3, <3>4, <3>5
  <2> HIDE DEF H, q
  <2>7. (x.hi % H) * 2 + q \in 0 .. 2 * H - 1
    BY <2>2, <2>4, <2>6
  <2> QED
    BY <2>1, <2>4, <2>7 DEF Unpacked, Byte, H, q
<1>2. ASSUME NEW j \in Lane PROVE vr[(e + j) % NumLanes] \in LaneVal
  <2>1. (e + j) % NumLanes \in 0 .. NumLanes - 1
    BY Sizes, ModRange DEF Lane
  <2> QED
    BY <2>1 DEF VecVal, Lane
<1>3. \A j \in DOMAIN b : b[j] \in Byte
  BY <1>1, <1>2
<1> HIDE DEF b
<1> QED
  BY <1>3, WriteType DEF StorePacked, b

\* Every vector store.
LEMMA Swc2Type ==
    ASSUME NEW m \in MemVal, NEW rr \in [Gpr -> Word], NEW vv \in [Vec -> VecVal],
           NEW i \in VecInsn, i.op \in VecStores
    PROVE  Swc2(i, m, rr, vv) \in MemVal /\ \A c \in Imem : Swc2(i, m, rr, vv)[c] = m[c]
<1> DEFINE ea == VecEffAddr(rr, i)
<1>1. ea \in Int
  BY VecEffAddrType
<1>2. i.vt \in Vec /\ i.e \in Int /\ i.n \in Int /\ vv[i.vt] \in VecVal
  BY InsnTypes
<1>3. InRow(ea) \in Int /\ RegBytes - InRow(ea) \in Int
  BY <1>1, InRowRange, Sizes
<1>4. CASE i.op \in {"sbv", "snv", "sqv"}
  <2>1. \E n \in Int : Swc2(i, m, rr, vv) = StoreLeft(vv[i.vt], m, ea, i.e, n)
    <3>1. 1 \in Int
      OBVIOUS
    <3> QED
      BY <1>2, <1>3, <1>4, <3>1, Zenon DEF Swc2
  <2> QED
    BY <1>1, <1>2, <2>1, StoreLeftType
<1>5. CASE i.op = "srv"
  <2>1. Swc2(i, m, rr, vv) = StoreRight(vv[i.vt], m, ea, i.e)
    BY <1>5, Zenon DEF Swc2
  <2> QED
    BY <1>1, <1>2, <2>1, StoreRightType
<1>6. CASE i.op \in {"spv", "suv"}
  <2>1. Swc2(i, m, rr, vv) = StorePacked(vv[i.vt], m, ea, i.e, i.op)
    BY <1>6, Zenon DEF Swc2
  <2> QED
    BY <1>1, <1>2, <2>1, StorePackedType
<1> QED
  BY <1>4, <1>5, <1>6 DEF VecStores

\* Writing a scalar register.
LEMMA SetGprType ==
    ASSUME NEW rr \in [Gpr -> Word], rr[0] = 0, NEW t \in Gpr, NEW x \in Word
    PROVE  SetGpr(rr, t, x) \in [Gpr -> Word] /\ SetGpr(rr, t, x)[0] = 0
<1>1. 0 \in Gpr
  BY FileAssumption DEF Gpr
<1> QED
  BY <1>1 DEF SetGpr

-----------------------------------------------------------------------------
(* The interpreter's next-state relation, on any memory and registers.     *)

InterpStep(m, m1, rr, rr1, vv, vv1) ==
    \/ /\ \E t \in Gpr \ {0}, x \in Values : rr1 = SetGpr(rr, t, x)
       /\ m1 = m /\ vv1 = vv
    \/ \E i \in ScalarInsn :
          /\ i.op \in ScalarLoads
          /\ rr1 = SetGpr(rr, i.rt,
                       Extended(i.op, Rd(m, EffAddr(rr, i), ScalarBytes(i.op))))
          /\ m1 = m /\ vv1 = vv
    \/ \E i \in ScalarInsn :
          /\ i.op \in ScalarStores
          /\ m1 = Wr(m, EffAddr(rr, i), rr[i.rt], ScalarBytes(i.op))
          /\ rr1 = rr /\ vv1 = vv
    \/ \E i \in VecInsn :
          /\ i.op \in VecLoads
          /\ vv1 = Lwc2(i, m, rr, vv)
          /\ m1 = m /\ rr1 = rr
    \/ \E i \in VecInsn :
          /\ i.op \in VecStores
          /\ m1 = Swc2(i, m, rr, vv)
          /\ rr1 = rr /\ vv1 = vv

\* The operators that module RspMem brings along are those of RspDmem.
LEMMA RspOps ==
    /\ Rsp!Gpr = Gpr /\ Rsp!Vec = Vec /\ Rsp!Word = Word
    /\ Rsp!VecVal = VecVal /\ Rsp!MemVal = MemVal
    /\ Rsp!ScalarLoads = ScalarLoads /\ Rsp!ScalarStores = ScalarStores
    /\ Rsp!VecLoads = VecLoads /\ Rsp!VecStores = VecStores
    /\ Rsp!ScalarInsn = ScalarInsn /\ Rsp!VecInsn = VecInsn
    /\ \A rr, t, x : Rsp!SetGpr(rr, t, x) = SetGpr(rr, t, x)
    /\ \A rr, i : Rsp!EffAddr(rr, i) = EffAddr(rr, i)
    /\ \A op : Rsp!ScalarBytes(op) = ScalarBytes(op)
    /\ \A op, x : Rsp!Extended(op, x) = Extended(op, x)
    /\ \A m, a, n : Rsp!Rd(m, a, n) = Rd(m, a, n)
    /\ \A m, a, x, n : Rsp!Wr(m, a, x, n) = Wr(m, a, x, n)
    /\ \A i, m, rr, vv : Rsp!Lwc2(i, m, rr, vv) = Lwc2(i, m, rr, vv)
    /\ \A i, m, rr, vv : Rsp!Swc2(i, m, rr, vv) = Swc2(i, m, rr, vv)
<1>1. /\ Rsp!Gpr = Gpr /\ Rsp!Vec = Vec /\ Rsp!Word = Word
      /\ Rsp!VecVal = VecVal /\ Rsp!MemVal = MemVal
      /\ Rsp!ScalarLoads = ScalarLoads /\ Rsp!ScalarStores = ScalarStores
      /\ Rsp!VecLoads = VecLoads /\ Rsp!VecStores = VecStores
      /\ Rsp!ScalarInsn = ScalarInsn /\ Rsp!VecInsn = VecInsn
  BY DEF
      RegBytes, Byte, WordMod, Word, Gpr, Vec, Lane, LaneVal, VecVal, MemVal,
      ScalarLoads, ScalarStores, VecLoads, VecStores, ScalarInsn, VecInsn,
      Rsp!RegBytes, Rsp!Byte, Rsp!WordMod, Rsp!Word, Rsp!Gpr, Rsp!Vec,
      Rsp!Lane, Rsp!LaneVal, Rsp!VecVal, Rsp!MemVal, Rsp!ScalarLoads,
      Rsp!ScalarStores, Rsp!VecLoads, Rsp!VecStores, Rsp!ScalarInsn,
      Rsp!VecInsn
<1>2. ASSUME NEW rr, NEW t, NEW x PROVE Rsp!SetGpr(rr, t, x) = SetGpr(rr, t, x)
  BY Zenon DEF
      SetGpr, Rsp!SetGpr
<1>3. ASSUME NEW rr, NEW i PROVE Rsp!EffAddr(rr, i) = EffAddr(rr, i)
  BY Zenon DEF
      EffAddr, WordMod, Rsp!EffAddr, Rsp!WordMod
<1>4. ASSUME NEW op PROVE Rsp!ScalarBytes(op) = ScalarBytes(op)
  BY Zenon DEF
      ScalarBytes, Rsp!ScalarBytes
<1>5. ASSUME NEW op, NEW x PROVE Rsp!Extended(op, x) = Extended(op, x)
  BY Zenon DEF
      Extended, SignExtend, BytePow, WordMod, Rsp!Extended, Rsp!SignExtend,
      Rsp!BytePow, Rsp!WordMod
<1>6. ASSUME NEW m, NEW a, NEW n PROVE Rsp!Rd(m, a, n) = Rd(m, a, n)
  BY Zenon DEF
      Rd, Rsp!Rd
<1>7. ASSUME NEW m, NEW a, NEW x, NEW n PROVE Rsp!Wr(m, a, x, n) = Wr(m, a, x, n)
  BY Zenon DEF
      Wr, WriteBytes, ByteAt, BytePow, WordMod, Dmem, Rsp!Wr, Rsp!WriteBytes,
      Rsp!ByteAt, Rsp!BytePow, Rsp!WordMod, Rsp!Dmem
<1>8. ASSUME NEW i, NEW m, NEW rr, NEW vv PROVE Rsp!Lwc2(i, m, rr, vv) = Lwc2(i, m, rr, vv)
  BY Zenon DEF
      Lwc2, VecEffAddr, VecScale, RegBytes, WordMod, LoadLeft, LoadRight,
      RightStart, InRow, SetVbytes, LoadPacked, Packed, LoadTransposed, Lane,
      Vec, Rsp!Lwc2, Rsp!VecEffAddr, Rsp!VecScale, Rsp!RegBytes, Rsp!WordMod,
      Rsp!LoadLeft, Rsp!LoadRight, Rsp!RightStart, Rsp!InRow, Rsp!SetVbytes,
      Rsp!LoadPacked, Rsp!Packed, Rsp!LoadTransposed, Rsp!Lane, Rsp!Vec
<1>9. ASSUME NEW i, NEW m, NEW rr, NEW vv PROVE Rsp!Swc2(i, m, rr, vv) = Swc2(i, m, rr, vv)
  BY Zenon DEF
      Swc2, VecEffAddr, VecScale, RegBytes, WordMod, StoreLeft, StoreRight,
      StorePacked, RightStart, InRow, WriteBytes, Dmem, Vbyte, Unpacked, Lane,
      Rsp!Swc2, Rsp!VecEffAddr, Rsp!VecScale, Rsp!RegBytes, Rsp!WordMod,
      Rsp!StoreLeft, Rsp!StoreRight, Rsp!StorePacked, Rsp!RightStart,
      Rsp!InRow, Rsp!WriteBytes, Rsp!Dmem, Rsp!Vbyte, Rsp!Unpacked, Rsp!Lane
<1> QED
  BY <1>1, <1>2, <1>3, <1>4, <1>5, <1>6, <1>7, <1>8, <1>9

\* The operators that module RspMem brings along are those of RspDmem.
LEMMA CoreOps ==
    /\ Core!Gpr = Gpr /\ Core!Vec = Vec /\ Core!Word = Word
    /\ Core!VecVal = VecVal /\ Core!MemVal = MemVal
    /\ Core!ScalarLoads = ScalarLoads /\ Core!ScalarStores = ScalarStores
    /\ Core!VecLoads = VecLoads /\ Core!VecStores = VecStores
    /\ Core!ScalarInsn = ScalarInsn /\ Core!VecInsn = VecInsn
    /\ \A rr, t, x : Core!SetGpr(rr, t, x) = SetGpr(rr, t, x)
    /\ \A rr, i : Core!EffAddr(rr, i) = EffAddr(rr, i)
    /\ \A op : Core!ScalarBytes(op) = ScalarBytes(op)
    /\ \A op, x : Core!Extended(op, x) = Extended(op, x)
    /\ \A m, a, n : Core!Rd(m, a, n) = Rd(m, a, n)
    /\ \A m, a, x, n : Core!Wr(m, a, x, n) = Wr(m, a, x, n)
    /\ \A i, m, rr, vv : Core!Lwc2(i, m, rr, vv) = Lwc2(i, m, rr, vv)
    /\ \A i, m, rr, vv : Core!Swc2(i, m, rr, vv) = Swc2(i, m, rr, vv)
<1>1. /\ Core!Gpr = Gpr /\ Core!Vec = Vec /\ Core!Word = Word
      /\ Core!VecVal = VecVal /\ Core!MemVal = MemVal
      /\ Core!ScalarLoads = ScalarLoads /\ Core!ScalarStores = ScalarStores
      /\ Core!VecLoads = VecLoads /\ Core!VecStores = VecStores
      /\ Core!ScalarInsn = ScalarInsn /\ Core!VecInsn = VecInsn
  BY DEF
      RegBytes, Byte, WordMod, Word, Gpr, Vec, Lane, LaneVal, VecVal, MemVal,
      ScalarLoads, ScalarStores, VecLoads, VecStores, ScalarInsn, VecInsn,
      Core!RegBytes, Core!Byte, Core!WordMod, Core!Word, Core!Gpr, Core!Vec,
      Core!Lane, Core!LaneVal, Core!VecVal, Core!MemVal, Core!ScalarLoads,
      Core!ScalarStores, Core!VecLoads, Core!VecStores, Core!ScalarInsn,
      Core!VecInsn
<1>2. ASSUME NEW rr, NEW t, NEW x PROVE Core!SetGpr(rr, t, x) = SetGpr(rr, t, x)
  BY Zenon DEF
      SetGpr, Core!SetGpr
<1>3. ASSUME NEW rr, NEW i PROVE Core!EffAddr(rr, i) = EffAddr(rr, i)
  BY Zenon DEF
      EffAddr, WordMod, Core!EffAddr, Core!WordMod
<1>4. ASSUME NEW op PROVE Core!ScalarBytes(op) = ScalarBytes(op)
  BY Zenon DEF
      ScalarBytes, Core!ScalarBytes
<1>5. ASSUME NEW op, NEW x PROVE Core!Extended(op, x) = Extended(op, x)
  BY Zenon DEF
      Extended, SignExtend, BytePow, WordMod, Core!Extended, Core!SignExtend,
      Core!BytePow, Core!WordMod
<1>6. ASSUME NEW m, NEW a, NEW n PROVE Core!Rd(m, a, n) = Rd(m, a, n)
  BY Zenon DEF
      Rd, Core!Rd
<1>7. ASSUME NEW m, NEW a, NEW x, NEW n PROVE Core!Wr(m, a, x, n) = Wr(m, a, x, n)
  BY Zenon DEF
      Wr, WriteBytes, ByteAt, BytePow, WordMod, Dmem, Core!Wr, Core!WriteBytes,
      Core!ByteAt, Core!BytePow, Core!WordMod, Core!Dmem
<1>8. ASSUME NEW i, NEW m, NEW rr, NEW vv PROVE Core!Lwc2(i, m, rr, vv) = Lwc2(i, m, rr, vv)
  BY Zenon DEF
      Lwc2, VecEffAddr, VecScale, RegBytes, WordMod, LoadLeft, LoadRight,
      RightStart, InRow, SetVbytes, LoadPacked, Packed, LoadTransposed, Lane,
      Vec, Core!Lwc2, Core!VecEffAddr, Core!VecScale, Core!RegBytes,
      Core!WordMod, Core!LoadLeft, Core!LoadRight, Core!RightStart, Core!InRow,
      Core!SetVbytes, Core!LoadPacked, Core!Packed, Core!LoadTransposed,
      Core!Lane, Core!Vec
<1>9. ASSUME NEW i, NEW m, NEW rr, NEW vv PROVE Core!Swc2(i, m, rr, vv) = Swc2(i, m, rr, vv)
  BY Zenon DEF
      Swc2, VecEffAddr, VecScale, RegBytes, WordMod, StoreLeft, StoreRight,
      StorePacked, RightStart, InRow, WriteBytes, Dmem, Vbyte, Unpacked, Lane,
      Core!Swc2, Core!VecEffAddr, Core!VecScale, Core!RegBytes, Core!WordMod,
      Core!StoreLeft, Core!StoreRight, Core!StorePacked, Core!RightStart,
      Core!InRow, Core!WriteBytes, Core!Dmem, Core!Vbyte, Core!Unpacked,
      Core!Lane
<1> QED
  BY <1>1, <1>2, <1>3, <1>4, <1>5, <1>6, <1>7, <1>8, <1>9

\* The next-state relation of module RspMem, on rsp_t.
LEMMA RspNext == Rsp!Next <=> InterpStep(mem, mem', r, r', v, v')
  BY RspOps, Zenon
     DEF InterpStep, Rsp!Next, Rsp!Compute, Rsp!Load, Rsp!Store, Rsp!VecLoad, Rsp!VecStore

\* The registers the program sees.
AbsR == IF mode = "bt" THEN gpr ELSE r
AbsV == IF mode = "bt" THEN vec ELSE v

\* And on the registers the program sees.
LEMMA CoreNext == InterpStep(mem, mem', AbsR, AbsR', AbsV, AbsV') => Core!Next
  BY CoreOps, Zenon
     DEF InterpStep, AbsR, AbsV,
         Core!Next, Core!Compute, Core!Load, Core!Store, Core!VecLoad, Core!VecStore

\* The interpreter keeps memory and registers well-formed and IMEM as it is.
LEMMA InterpStepType ==
    ASSUME NEW m \in MemVal, NEW rr \in [Gpr -> Word], rr[0] = 0,
           NEW vv \in [Vec -> VecVal],
           NEW m1, NEW rr1, NEW vv1, InterpStep(m, m1, rr, rr1, vv, vv1)
    PROVE  /\ m1 \in MemVal /\ rr1 \in [Gpr -> Word] /\ rr1[0] = 0
           /\ vv1 \in [Vec -> VecVal]
           /\ \A c \in Imem : m1[c] = m[c]
<1>1. CASE /\ \E t \in Gpr \ {0}, x \in Values : rr1 = SetGpr(rr, t, x)
           /\ m1 = m /\ vv1 = vv
  BY <1>1, SetGprType, StartAssumption
<1>2. ASSUME NEW i \in ScalarInsn, i.op \in ScalarLoads,
             rr1 = SetGpr(rr, i.rt,
                       Extended(i.op, Rd(m, EffAddr(rr, i), ScalarBytes(i.op)))),
             m1 = m, vv1 = vv
      PROVE  rr1 \in [Gpr -> Word] /\ rr1[0] = 0
  <2>1. EffAddr(rr, i) \in Int /\ i.rt \in Gpr
    BY EffAddrType, InsnTypes
  <2>2. Extended(i.op, Rd(m, EffAddr(rr, i), ScalarBytes(i.op))) \in Word
    BY <1>2, <2>1, ExtendedType
  <2> QED
    BY <1>2, <2>1, <2>2, SetGprType
<1>3. ASSUME NEW i \in ScalarInsn, i.op \in ScalarStores,
             m1 = Wr(m, EffAddr(rr, i), rr[i.rt], ScalarBytes(i.op)),
             rr1 = rr, vv1 = vv
      PROVE  m1 \in MemVal /\ \A c \in Imem : m1[c] = m[c]
  <2>1. EffAddr(rr, i) \in Int /\ rr[i.rt] \in Word /\ ScalarBytes(i.op) \in {1, 2, 4}
    BY <1>3, EffAddrType, InsnTypes, ScalarSizes
  <2> QED
    BY <1>3, <2>1, WrType
<1>4. ASSUME NEW i \in VecInsn, i.op \in VecLoads,
             vv1 = Lwc2(i, m, rr, vv), m1 = m, rr1 = rr
      PROVE  vv1 \in [Vec -> VecVal]
  BY <1>4, Lwc2Type
<1>5. ASSUME NEW i \in VecInsn, i.op \in VecStores,
             m1 = Swc2(i, m, rr, vv), rr1 = rr, vv1 = vv
      PROVE  m1 \in MemVal /\ \A c \in Imem : m1[c] = m[c]
  BY <1>5, Swc2Type
<1> QED
  BY <1>1, <1>2, <1>3, <1>4, <1>5, Zenon DEF InterpStep

-----------------------------------------------------------------------------
(* The theorems.                                                           *)

\* A step inside the generated function, the locals being what it works on.
InFunction == InterpStep(mem, mem', gpr, gpr', vec, vec')

\* Whatever path an access takes, it does to the locals what the interpreter
\* does to its registers.
LEMMA FunctionSteps ==
    ASSUME TypeOK, mode = "bt", Next, mode' = "bt"
    PROVE  InFunction
<1>1. CASE Compute
  BY <1>1, Zenon DEF Compute, InFunction, InterpStep
<1>2. ASSUME NEW i \in ScalarInsn, Load(i) PROVE InFunction
  <2>1. EffAddr(gpr, i) \in Int /\ ScalarBytes(i.op) \in {1, 2, 4}
    BY <1>2, EffAddrType, ScalarSizes DEF TypeOK, Load
  <2>2. LoadMem(mem, EffAddr(gpr, i), ScalarBytes(i.op))
          = Rd(mem, EffAddr(gpr, i), ScalarBytes(i.op))
    BY <2>1, LoadMemIsRd DEF TypeOK
  <2> QED
    BY <1>2, <2>2, Zenon DEF Load, InFunction, InterpStep
<1>3. ASSUME NEW i \in ScalarInsn, Store(i) PROVE InFunction
  <2>1. EffAddr(gpr, i) \in Int /\ ScalarBytes(i.op) \in {1, 2, 4}
    BY <1>3, EffAddrType, ScalarSizes DEF TypeOK, Store
  <2>2. StoreMem(mem, EffAddr(gpr, i), gpr[i.rt], ScalarBytes(i.op))
          = Wr(mem, EffAddr(gpr, i), gpr[i.rt], ScalarBytes(i.op))
    BY <2>1, StoreMemIsWr DEF TypeOK
  <2> QED
    BY <1>3, <2>2, Zenon DEF Store, InFunction, InterpStep, locals
<1>4. ASSUME NEW i \in VecInsn, VecLoadInline(i) PROVE InFunction
  <2>1. VecEffAddr(gpr, i) \in Int
    BY VecEffAddrType DEF TypeOK
  <2>2. vec' = Lwc2(i, mem, gpr, vec)
    BY <1>4, <2>1, InlineLoad DEF VecLoadInline, TypeOK
  <2> QED
    BY <1>4, <2>2, Zenon DEF VecLoadInline, InFunction, InterpStep
<1>5. ASSUME NEW i \in VecInsn, VecLoadCall(i) PROVE InFunction
  <2>1. SlowGprs(i)[i.base] = gpr[i.base] /\ SlowVecs(i)[i.vt] = vec[i.vt]
    BY InsnTypes DEF TypeOK, SlowGprs, SlowVecs
  <2>2. SlowVecs(i) \in [Vec -> VecVal]
    BY InsnTypes DEF TypeOK, SlowVecs
  <2>3. vec' = Lwc2(i, mem, gpr, vec)
    <3>1. i.op \in VecLoads \cap Translated /\ vec \in [Vec -> VecVal]
      BY <1>5 DEF VecLoadCall, TypeOK
    <3>2. vec' = [vec EXCEPT ![i.vt] = Lwc2(i, mem, SlowGprs(i), SlowVecs(i))[i.vt]]
      BY <1>5 DEF VecLoadCall
    <3>3. [vec EXCEPT ![i.vt] = Lwc2(i, mem, SlowGprs(i), SlowVecs(i))[i.vt]]
            = Lwc2(i, mem, gpr, vec)
      <4> DEFINE sr == SlowGprs(i)
                 sv == SlowVecs(i)
      <4>1. sr[i.base] = gpr[i.base] /\ sv[i.vt] = vec[i.vt] /\ sv \in [Vec -> VecVal]
        BY <2>1, <2>2
      <4> HIDE DEF sr, sv
      <4>2. [vec EXCEPT ![i.vt] = Lwc2(i, mem, sr, sv)[i.vt]] = Lwc2(i, mem, gpr, vec)
        BY <3>1, <4>1, LoadNeedsTwo
      <4> QED
        BY <4>2 DEF sr, sv
    <3> QED
      BY <3>2, <3>3
  <2> QED
    BY <1>5, <2>3, Zenon DEF VecLoadCall, InFunction, InterpStep
<1>6. ASSUME NEW i \in VecInsn, VecStoreInline(i) PROVE InFunction
  <2>1. VecEffAddr(gpr, i) \in Int
    BY VecEffAddrType DEF TypeOK
  <2>2. mem' = Swc2(i, mem, gpr, vec)
    BY <1>6, <2>1, InlineStore DEF VecStoreInline, TypeOK
  <2> QED
    BY <1>6, <2>2, Zenon DEF VecStoreInline, InFunction, InterpStep, locals
<1>7. ASSUME NEW i \in VecInsn, VecStoreCall(i) PROVE InFunction
  <2>1. SlowGprs(i)[i.base] = gpr[i.base] /\ SlowVecs(i)[i.vt] = vec[i.vt]
    BY InsnTypes DEF TypeOK, SlowGprs, SlowVecs
  <2>2. mem' = Swc2(i, mem, gpr, vec)
    BY <1>7, <2>1, StoreNeedsTwo DEF VecStoreCall
  <2> QED
    BY <1>7, <2>2, Zenon DEF VecStoreCall, InFunction, InterpStep, locals
<1>8. ~Leave /\ ~Enter /\ ~Interpret
  BY DEF Leave, Enter, Interpret
<1> QED
  BY <1>1, <1>2, <1>3, <1>4, <1>5, <1>6, <1>7, <1>8, Zenon DEF Next

\* What a callback leaves in rsp_t is well-formed.
LEMMA SlowPathTypes ==
    ASSUME TypeOK, NEW i \in VecInsn
    PROVE  /\ SlowGprs(i) \in [Gpr -> Word] /\ SlowGprs(i)[0] = 0
           /\ SlowVecs(i) \in [Vec -> VecVal]
  BY InsnTypes DEF TypeOK, SlowGprs, SlowVecs

\* The registers in rsp_t stay well-formed while the function runs.
LEMMA FunctionKeepsRsp ==
    ASSUME TypeOK, mode = "bt", Next
    PROVE  r' \in [Gpr -> Word] /\ r'[0] = 0 /\ v' \in [Vec -> VecVal]
<1>1. CASE r' = r /\ v' = v
  BY <1>1 DEF TypeOK
<1>2. ASSUME NEW i \in VecInsn, VecLoadCall(i) PROVE r' = SlowGprs(i) /\ v' \in [Vec -> VecVal]
  <2>1. i.op \in VecLoads /\ r' = SlowGprs(i) /\ v' = Lwc2(i, mem, SlowGprs(i), SlowVecs(i))
    BY <1>2 DEF VecLoadCall
  <2> QED
    BY <2>1, SlowPathTypes, Lwc2Type DEF TypeOK
<1>3. ASSUME NEW i \in VecInsn, VecStoreCall(i) PROVE r' = SlowGprs(i) /\ v' = SlowVecs(i)
  BY <1>3 DEF VecStoreCall
<1>4. CASE Leave
  BY <1>4 DEF Leave, TypeOK
<1> QED
  BY <1>1, <1>2, <1>3, <1>4, SlowPathTypes
     DEF Next, Compute, Load, Store, VecLoadInline, VecStoreInline, Enter, Interpret, rspRegs

\* Every step, seen from the program: the interpreter's, or none at all when
\* the function is entered or left.
LEMMA StepIsInterpStep ==
    ASSUME TypeOK, [Next]_vars
    PROVE  \/ InterpStep(mem, mem', AbsR, AbsR', AbsV, AbsV')
           \/ mem' = mem /\ AbsR' = AbsR /\ AbsV' = AbsV
<1>1. CASE UNCHANGED vars
  BY <1>1 DEF vars, AbsR, AbsV
<1>2. CASE Leave
  BY <1>2 DEF Leave, AbsR, AbsV
<1>3. CASE Enter
  BY <1>3 DEF Enter, AbsR, AbsV
<1>4. CASE Interpret
  <2>1. AbsR = r /\ AbsR' = r' /\ AbsV = v /\ AbsV' = v'
    BY <1>4 DEF Interpret, AbsR, AbsV
  <2>2. InterpStep(mem, mem', r, r', v, v')
    BY <1>4, RspNext DEF Interpret
  <2> QED
    BY <2>1, <2>2
<1>5. CASE Next /\ mode = "bt" /\ mode' = "bt"
  <2>1. AbsR = gpr /\ AbsR' = gpr' /\ AbsV = vec /\ AbsV' = vec'
    BY <1>5 DEF AbsR, AbsV
  <2>2. InterpStep(mem, mem', gpr, gpr', vec, vec')
    BY <1>5, FunctionSteps DEF InFunction
  <2> QED
    BY <2>1, <2>2
<1>6. Next => Leave \/ Enter \/ Interpret \/ (mode = "bt" /\ mode' = "bt")
  BY DEF Next, Compute, Load, Store, VecLoadInline, VecLoadCall, VecStoreInline, VecStoreCall
<1> QED
  BY <1>1, <1>2, <1>3, <1>4, <1>5, <1>6

\* The registers the program sees are well-formed.
LEMMA AbsTypes ==
    ASSUME TypeOK
    PROVE  AbsR \in [Gpr -> Word] /\ AbsR[0] = 0 /\ AbsV \in [Vec -> VecVal]
  BY DEF TypeOK, AbsR, AbsV

\* The start.
LEMMA StartTypes == Init => TypeOK
<1> SUFFICES ASSUME Init PROVE TypeOK
  OBVIOUS
<1>1. 0 \in Word /\ 0 \in Gpr
  BY PowTypes, FileAssumption DEF Word, Gpr
<1>2. PICK f \in [Gpr \ {0} -> InitGprs] : r = [t \in Gpr |-> IF t = 0 THEN 0 ELSE f[t]]
  BY DEF Init
<1>3. r \in [Gpr -> Word] /\ r[0] = 0
  BY <1>1, <1>2, StartAssumption
<1> QED
  BY <1>3, StartAssumption DEF Init, TypeOK

\* Every step keeps the types.
LEMMA StepTypes == TypeOK /\ [Next]_vars => TypeOK'
<1> SUFFICES ASSUME TypeOK, [Next]_vars PROVE TypeOK'
  OBVIOUS
<1>1. /\ mem' \in MemVal /\ AbsR' \in [Gpr -> Word] /\ AbsR'[0] = 0
      /\ AbsV' \in [Vec -> VecVal]
  <2>1. mem \in MemVal
    BY DEF TypeOK
  <2>2. CASE InterpStep(mem, mem', AbsR, AbsR', AbsV, AbsV')
    BY <2>1, <2>2, AbsTypes, InterpStepType
  <2>3. CASE mem' = mem /\ AbsR' = AbsR /\ AbsV' = AbsV
    BY <2>1, <2>3, AbsTypes
  <2> QED
    BY <2>2, <2>3, StepIsInterpStep
<1>2. mode' \in {"bt", "interp"} /\ steps' \in Nat
  BY DEF TypeOK, vars, Next, Count, Compute, Load, Store, VecLoadInline,
         VecLoadCall, VecStoreInline, VecStoreCall, Leave, Enter, Interpret
<1>3. r' \in [Gpr -> Word] /\ r'[0] = 0 /\ v' \in [Vec -> VecVal]
  <2>1. CASE UNCHANGED vars
    BY <2>1 DEF vars, TypeOK
  <2>2. CASE Next /\ mode = "bt"
    BY <2>2, FunctionKeepsRsp
  <2>3. CASE Enter
    BY <2>3 DEF Enter, rspRegs, TypeOK
  <2>4. CASE Interpret
    BY <1>1, <2>4 DEF Interpret, AbsR, AbsV
  <2>5. Next => mode = "bt" \/ Enter \/ Interpret
    BY DEF Next, Compute, Load, Store, VecLoadInline, VecLoadCall,
           VecStoreInline, VecStoreCall, Leave
  <2> QED
    BY <2>1, <2>2, <2>3, <2>4, <2>5
<1>4. gpr' \in [Gpr -> Word] /\ gpr'[0] = 0 /\ vec' \in [Vec -> VecVal]
  <2>1. CASE mode' = "bt"
    BY <1>1, <2>1 DEF AbsR, AbsV
  <2>2. CASE mode' # "bt"
    <3>1. gpr' = gpr /\ vec' = vec
      BY <2>2 DEF vars, Next, Compute, Load, Store, VecLoadInline, VecLoadCall,
                  VecStoreInline, VecStoreCall, Leave, Enter, Interpret, locals
    <3> QED
      BY <3>1 DEF TypeOK
  <2> QED
    BY <2>1, <2>2
<1> QED
  BY <1>1, <1>2, <1>3, <1>4 DEF TypeOK

\* Memory holds bytes, registers words and lanes, r0 is zero, in rsp_t and in
\* the locals of the generated function.
THEOREM MemTypeCorrect == Spec => []TypeOK
  BY StartTypes, StepTypes, PTL DEF Spec

\* No load or store, inline or through a callback, changes instruction memory.
THEOREM StoresLeaveImemAlone == Spec => ImemUntouched
<1>1. TypeOK /\ [Next]_vars => [\A a \in Imem : mem'[a] = mem[a]]_mem
  <2> SUFFICES ASSUME TypeOK, [Next]_vars, mem' # mem
               PROVE  \A a \in Imem : mem'[a] = mem[a]
    OBVIOUS
  <2>1. InterpStep(mem, mem', AbsR, AbsR', AbsV, AbsV')
    BY StepIsInterpStep
  <2>2. mem \in MemVal
    BY DEF TypeOK
  <2> QED
    BY <2>1, <2>2, AbsTypes, InterpStepType
<1> QED
  BY <1>1, MemTypeCorrect, PTL DEF Spec, ImemUntouched

\* Translated loads and stores, with their inline paths, their callbacks on
\* registers out of date, and their entries and exits, implement the
\* interpreter's, for every size of memory, registers and accesses.
THEOREM AccessesImplementInterpreter == Spec => ImplementsCore
<1>1. Init => Core!Init
  <2> SUFFICES ASSUME Init PROVE Core!Init
    OBVIOUS
  <2>1. TypeOK
    BY StartTypes
  <2> QED
    BY <2>1, AbsTypes, CoreOps DEF Core!Init, AbsR, AbsV, TypeOK
<1>2. TypeOK /\ [Next]_vars => [Core!Next]_(Core!vars)
  <2> SUFFICES ASSUME TypeOK, [Next]_vars PROVE [Core!Next]_(Core!vars)
    OBVIOUS
  <2>1. CASE InterpStep(mem, mem', AbsR, AbsR', AbsV, AbsV')
    BY <2>1, CoreNext
  <2>2. CASE mem' = mem /\ AbsR' = AbsR /\ AbsV' = AbsV
    BY <2>2 DEF Core!vars, AbsR, AbsV
  <2> QED
    BY <2>1, <2>2, StepIsInterpStep
<1> QED
  BY <1>1, <1>2, MemTypeCorrect, PTL DEF Spec, ImplementsCore, Core!Spec

-----------------------------------------------------------------------------
(* Round trips.                                                            *)

\* A register is not longer than DMEM.
LEMMA RegFits == RegBytes <= DmemSize
<1>1. DmemSize = RegBytes * (DmemSize \div RegBytes) /\ DmemSize \div RegBytes \in Int
  BY Sizes, DmemAssumption, ModRange
<1>2. DmemSize \div RegBytes >= 1
  BY <1>1, Sizes, MulStep
<1> QED
  BY <1>1, <1>2, Sizes, MulStep

\* The offset of c from ea + n, from its offset from ea.
LEMMA OffsetFrom ==
    ASSUME NEW D \in Nat, D > 0, NEW ea \in Int, NEW n \in 0 .. D, NEW c \in Int
    PROVE  LET i == (c - ea) % D
           IN  (c - (ea + n)) % D = IF i >= n THEN i - n ELSE i - n + D
<1> DEFINE i == (c - ea) % D
           q == (c - ea) \div D
<1>1. i \in 0 .. D - 1 /\ q \in Int /\ c - ea = D * q + i
  BY ModRange
<1> HIDE DEF i, q
<1>2. CASE i >= n
  <2>1. c - (ea + n) = D * q + (i - n) /\ i - n \in 0 .. D - 1
    BY <1>1, <1>2
  <2>2. (D * q + (i - n)) % D = i - n
    BY ONLY <1>1, <2>1, ModUnique, D \in Nat, D > 0
  <2> QED
    BY ONLY <1>2, <2>1, <2>2 DEF i
<1>3. CASE ~(i >= n)
  <2>1. c - (ea + n) = D * (q - 1) + (i - n + D) /\ i - n + D \in 0 .. D - 1 /\ q - 1 \in Int
    BY <1>1, <1>3
  <2>2. (D * (q - 1) + (i - n + D)) % D = i - n + D
    BY ONLY <2>1, ModUnique, D \in Nat, D > 0
  <2> QED
    BY ONLY <1>3, <2>1, <2>2 DEF i
<1> QED
  BY <1>2, <1>3 DEF i

\* Going from ea by the offset of c from ea leads to c, and the byte i behind ea is at
\* offset i.
LEMMA OffsetThere ==
    ASSUME NEW D \in Nat, D > 0, NEW ea \in Int, NEW c \in 0 .. D - 1
    PROVE  (ea + ((c - ea) % D)) % D = c
<1>1. (c - ea) % D \in 0 .. D - 1 /\ (c - ea) \div D \in Int
      /\ c - ea = D * ((c - ea) \div D) + ((c - ea) % D)
  BY ModRange
<1>2. ea + ((c - ea) % D) = D * (0 - ((c - ea) \div D)) + c /\ 0 - ((c - ea) \div D) \in Int
  BY <1>1
<1> QED
  BY ONLY <1>2, ModUnique, D \in Nat, D > 0, c \in 0 .. D - 1

LEMMA OffsetBack ==
    ASSUME NEW D \in Nat, D > 0, NEW ea \in Int, NEW i \in 0 .. D - 1
    PROVE  (((ea + i) % D) - ea) % D = i
<1>1. (ea + i) % D \in 0 .. D - 1 /\ (ea + i) \div D \in Int
      /\ ea + i = D * ((ea + i) \div D) + ((ea + i) % D)
  BY ModRange
<1>2. ((ea + i) % D) - ea = D * (0 - ((ea + i) \div D)) + i /\ 0 - ((ea + i) \div D) \in Int
  BY <1>1
<1> QED
  BY ONLY <1>2, ModUnique, D \in Nat, D > 0, i \in 0 .. D - 1

\* Bytes stored in two runs, the second behind the first, are stored as one.
Front(b, n) == [j \in 0 .. n - 1 |-> b[j]]
Back(b, n) == [j \in 0 .. RegBytes - 1 - n |-> b[n + j]]

LEMMA WriteTwice ==
    ASSUME NEW m, NEW ea \in Int, NEW n \in 0 .. RegBytes,
           NEW b, DOMAIN b = 0 .. RegBytes - 1
    PROVE  WriteBytes(WriteBytes(m, ea, Front(b, n)), ea + n, Back(b, n)) = WriteBytes(m, ea, b)
<1> DEFINE k == RegBytes - n
           b1 == [j \in 0 .. n - 1 |-> b[j]]
           b2 == [j \in 0 .. RegBytes - 1 - n |-> b[n + j]]
           m1 == WriteBytes(m, ea, b1)
<1> k \in Nat /\ n \in Nat /\ n + k = RegBytes /\ n + k <= DmemSize
  BY Sizes, RegFits
<1> 0 .. RegBytes - 1 - n = 0 .. k - 1
  BY Sizes
<1> HIDE DEF k
<1>a. DOMAIN b = 0 .. n + k - 1 /\ DOMAIN b1 = 0 .. n - 1 /\ DOMAIN b2 = 0 .. k - 1
  OBVIOUS
<1>b. /\ \A j \in 0 .. n - 1 : b1[j] = b[j]
      /\ \A j \in 0 .. k - 1 : b2[j] = b[n + j]
  OBVIOUS
<1> HIDE DEF b1, b2
<1>1. ASSUME NEW c \in DOMAIN m
      PROVE  (IF c \in Dmem /\ (c - (ea + n)) % DmemSize \in 0 .. k - 1
              THEN b[n + ((c - (ea + n)) % DmemSize)] ELSE m1[c])
               = IF c \in Dmem /\ (c - ea) % DmemSize \in 0 .. n + k - 1
                 THEN b[(c - ea) % DmemSize] ELSE m[c]
  <2>1. m1[c] = IF c \in Dmem /\ (c - ea) % DmemSize \in 0 .. n - 1
                THEN b[(c - ea) % DmemSize] ELSE m[c]
    BY <1>a, <1>b DEF WriteBytes
  <2> HIDE DEF m1
  <2>2. CASE c \in Dmem
    <3> DEFINE i == (c - ea) % DmemSize
               d == (c - (ea + n)) % DmemSize
    <3>1. c \in Int /\ n \in 0 .. DmemSize /\ c - ea \in Int
      BY <2>2, Sizes DEF Dmem
    <3>2. i \in 0 .. DmemSize - 1
      BY <3>1, Sizes, ModRange
    <3>3. d = IF i >= n THEN i - n ELSE i - n + DmemSize
      BY <3>1, Sizes, OffsetFrom
    <3> HIDE DEF i, d
    <3>4. CASE i >= n
      <4>1. d = i - n /\ n + d = i /\ i \notin 0 .. n - 1
        BY <3>2, <3>3, <3>4, Sizes
      <4>2. d \in 0 .. k - 1 <=> i \in 0 .. n + k - 1
        BY <3>2, <3>4, <4>1, Sizes
      <4> QED
        BY <2>1, <2>2, <4>1, <4>2 DEF i, d
    <3>5. CASE ~(i >= n)
      <4>1. d \notin 0 .. k - 1 /\ i \in 0 .. n - 1 /\ i \in 0 .. n + k - 1
        BY <3>2, <3>3, <3>5, Sizes
      <4> QED
        BY <2>1, <2>2, <4>1 DEF i, d
    <3> QED
      BY <3>4, <3>5
  <2>3. CASE c \notin Dmem
    BY <2>1, <2>3
  <2> QED
    BY <2>2, <2>3
<1>2. DOMAIN m1 = DOMAIN m
  BY DEF WriteBytes
<1> HIDE DEF m1
<1>3. WriteBytes(m1, ea + n, b2) = WriteBytes(m, ea, b)
  BY <1>1, <1>2, <1>a, <1>b DEF WriteBytes
<1> QED
  BY <1>3 DEF m1, b1, b2, Front, Back

\* Loading the bytes below n and then the others sets every lane.
LEMMA SetTwice ==
    ASSUME NEW vr, NEW n \in Int, NEW b
    PROVE  SetVbytes(SetVbytes(vr, [j \in {j \in 0 .. RegBytes - 1 : j < n} |-> b[j]]),
                     [j \in {j \in 0 .. RegBytes - 1 : j >= n} |-> b[j]])
             = [l \in Lane |-> [hi |-> b[2 * l], lo |-> b[2 * l + 1]]]
<1> DEFINE b1 == [j \in {j \in 0 .. RegBytes - 1 : j < n} |-> b[j]]
           b2 == [j \in {j \in 0 .. RegBytes - 1 : j >= n} |-> b[j]]
           v1 == SetVbytes(vr, b1)
<1>1. ASSUME NEW l \in Lane, NEW j \in {2 * l, 2 * l + 1}
      PROVE  /\ j \in DOMAIN b2 <=> j >= n
             /\ j \in DOMAIN b1 <=> j < n
             /\ j \in DOMAIN b2 => b2[j] = b[j]
             /\ j \in DOMAIN b1 => b1[j] = b[j]
             /\ j >= n \/ j < n
  <2>1. j \in 0 .. RegBytes - 1
    BY LaneBytes
  <2> QED
    BY <2>1, Sizes
<1>2. ASSUME NEW l \in Lane
      PROVE  /\ v1[l].hi = IF 2 * l \in DOMAIN b1 THEN b1[2 * l] ELSE vr[l].hi
             /\ v1[l].lo = IF 2 * l + 1 \in DOMAIN b1 THEN b1[2 * l + 1] ELSE vr[l].lo
  <2> HIDE DEF b1
  <2> QED
    BY DEF SetVbytes
<1> HIDE DEF b1, b2, v1
<1>3. ASSUME NEW l \in Lane
      PROVE  /\ (IF 2 * l \in DOMAIN b2 THEN b2[2 * l] ELSE v1[l].hi) = b[2 * l]
             /\ (IF 2 * l + 1 \in DOMAIN b2 THEN b2[2 * l + 1] ELSE v1[l].lo) = b[2 * l + 1]
  <2>2. (IF 2 * l \in DOMAIN b2 THEN b2[2 * l] ELSE v1[l].hi) = b[2 * l]
    <3> DEFINE j == 2 * l
    <3>1. j \in {2 * l, 2 * l + 1}
      OBVIOUS
    <3> HIDE DEF j
    <3>2. /\ j \in DOMAIN b2 => b2[j] = b[j]
          /\ j \notin DOMAIN b2 => j \in DOMAIN b1 /\ b1[j] = b[j]
      BY <1>1, <3>1
    <3> QED
      BY <1>2, <3>2 DEF j
  <2>3. (IF 2 * l + 1 \in DOMAIN b2 THEN b2[2 * l + 1] ELSE v1[l].lo) = b[2 * l + 1]
    <3> DEFINE j == 2 * l + 1
    <3>1. j \in {2 * l, 2 * l + 1}
      OBVIOUS
    <3> HIDE DEF j
    <3>2. /\ j \in DOMAIN b2 => b2[j] = b[j]
          /\ j \notin DOMAIN b2 => j \in DOMAIN b1 /\ b1[j] = b[j]
      BY <1>1, <3>1
    <3> QED
      BY <1>2, <3>2 DEF j
  <2> QED
    BY <2>2, <2>3
<1>4. SetVbytes(v1, b2) = [l \in Lane |-> [hi |-> b[2 * l], lo |-> b[2 * l + 1]]]
  BY <1>3 DEF SetVbytes
<1> QED
  BY <1>4 DEF b1, b2, v1

\* Where the second half of a register goes: the row offsets of ea and of the address
\* a register behind it agree, and what srv and lrv touch there begins where sqv and
\* lqv stop.
LEMMA SecondHalf ==
    ASSUME NEW ea \in Int
    PROVE  /\ InRow(ea + RegBytes) = InRow(ea)
           /\ RightStart(ea + RegBytes, 0) = RegBytes - InRow(ea)
           /\ (ea + RegBytes) - InRow(ea + RegBytes) = ea + (RegBytes - InRow(ea))
<1>1. /\ InRow(ea) \in 0 .. RegBytes - 1 /\ ea \div RegBytes \in Int
      /\ ea = RegBytes * (ea \div RegBytes) + InRow(ea)
  BY Sizes, ModRange DEF InRow
<1>2. ea + RegBytes = RegBytes * ((ea \div RegBytes) + 1) + InRow(ea)
      /\ (ea \div RegBytes) + 1 \in Int
  BY <1>1, Sizes
<1>3. (RegBytes * ((ea \div RegBytes) + 1) + InRow(ea)) % RegBytes = InRow(ea)
  <2> DEFINE q == (ea \div RegBytes) + 1
             o == InRow(ea)
  <2>1. q \in Int /\ o \in 0 .. RegBytes - 1 /\ RegBytes \in Nat /\ RegBytes > 0
    BY <1>1, <1>2, Sizes
  <2> HIDE DEF q, o
  <2>2. (RegBytes * q + o) % RegBytes = o
    BY ONLY <2>1, ModUnique
  <2> QED
    BY ONLY <2>2 DEF q, o
<1>4. InRow(ea + RegBytes) = InRow(ea)
  BY ONLY <1>2, <1>3 DEF InRow
<1> QED
  BY <1>1, <1>4, Sizes DEF RightStart

\* sqv and srv: a register's bytes from ea on, in two stores.
LEMMA StoredWhole ==
    ASSUME NEW m, NEW vr, NEW ea \in Int
    PROVE  StoreRight(vr, StoreLeft(vr, m, ea, 0, RegBytes - InRow(ea)), ea + RegBytes, 0)
             = WriteBytes(m, ea, [j \in 0 .. RegBytes - 1 |-> Vbyte(vr, j)])
<1> DEFINE k == InRow(ea)
           n == RegBytes - k
           b == [j \in 0 .. RegBytes - 1 |-> Vbyte(vr, j)]
           b1 == [j \in 0 .. n - 1 |-> b[j]]
           b2 == [j \in 0 .. RegBytes - 1 - n |-> b[n + j]]
<1>1. k \in 0 .. RegBytes - 1 /\ n \in Nat /\ k \in Nat /\ n + k = RegBytes
      /\ RegBytes \in Nat
  BY InRowRange, Sizes
<1>2. [j \in 0 .. n - 1 |-> Vbyte(vr, 0 + j)] = b1
  <2> SUFFICES ASSUME NEW j \in 0 .. n - 1
               PROVE  Vbyte(vr, 0 + j) = b[j]
    BY Zenon
  <2>1. j \in 0 .. RegBytes - 1 /\ 0 + j = j
    BY <1>1
  <2> QED
    BY <2>1
<1>3. [j \in 0 .. RegBytes - 1 - n |-> Vbyte(vr, n + j)] = b2
  <2> SUFFICES ASSUME NEW j \in 0 .. RegBytes - 1 - n
               PROVE  Vbyte(vr, n + j) = b[n + j]
    BY Zenon
  <2>1. n + j \in 0 .. RegBytes - 1
    BY <1>1
  <2> QED
    BY <2>1
<1>4. StoreLeft(vr, m, ea, 0, n) = WriteBytes(m, ea, b1)
  BY <1>2, Zenon DEF StoreLeft
<1>5. StoreRight(vr, WriteBytes(m, ea, b1), ea + RegBytes, 0)
        = WriteBytes(WriteBytes(m, ea, b1), ea + n, b2)
  BY <1>3, SecondHalf, Zenon DEF StoreRight
<1>6. DOMAIN b = 0 .. RegBytes - 1 /\ n \in 0 .. RegBytes
  BY <1>1
<1>7. WriteBytes(WriteBytes(m, ea, b1), ea + n, b2) = WriteBytes(m, ea, b)
  <2>1. b1 = Front(b, n) /\ b2 = Back(b, n)
    BY DEF Front, Back
  <2> HIDE DEF b, b1, b2, n
  <2> QED
    BY ONLY <1>6, <2>1, ea \in Int, WriteTwice
<1> QED
  BY <1>4, <1>5, <1>7, Zenon

\* lqv and lrv bring a register of bytes back, lane by lane.
LEMMA LoadedWhole ==
    ASSUME NEW vr, NEW s, NEW ea \in Int
    PROVE  LoadRight(LoadLeft(vr, s, ea, 0, RegBytes - InRow(ea)), s, ea + RegBytes, 0)
             = [l \in Lane |-> [hi |-> s[(ea + 2 * l) % DmemSize],
                                lo |-> s[(ea + (2 * l + 1)) % DmemSize]]]
<1> DEFINE k == InRow(ea)
           n == RegBytes - k
           b == [j \in 0 .. RegBytes - 1 |-> s[(ea + j) % DmemSize]]
           S1 == {j \in 0 .. RegBytes - 1 : j < n}
           S2 == {j \in 0 .. RegBytes - 1 : j >= n}
           b1 == [j \in S1 |-> b[j]]
           b2 == [j \in S2 |-> b[j]]
<1>1. k \in 0 .. RegBytes - 1 /\ n \in Int /\ RegBytes \in Nat
  BY InRowRange, Sizes
<1>2. [j \in {j \in 0 .. RegBytes - 1 : j < 0 + n} |-> s[(ea + (j - 0)) % DmemSize]] = b1
  <2>1. {j \in 0 .. RegBytes - 1 : j < 0 + n} = S1
    BY <1>1
  <2>2. ASSUME NEW j \in S1
        PROVE  s[(ea + (j - 0)) % DmemSize] = b[j]
    <3>1. j \in 0 .. RegBytes - 1 /\ j - 0 = j
      BY <1>1
    <3> QED
      BY <3>1
  <2> HIDE DEF S1
  <2> QED
    BY <2>1, <2>2, Zenon
<1>3. [j \in S2 |-> s[((ea + n) + (j - n)) % DmemSize]] = b2
  <2>1. ASSUME NEW j \in S2
        PROVE  s[((ea + n) + (j - n)) % DmemSize] = b[j]
    <3>1. j \in 0 .. RegBytes - 1 /\ (ea + n) + (j - n) = ea + j
      BY <1>1
    <3> QED
      BY <3>1
  <2> QED
    BY <2>1, Zenon
<1>4. LoadLeft(vr, s, ea, 0, n) = SetVbytes(vr, b1)
  <2>1. {j \in 0 .. RegBytes - 1 : j < 0 + n} = {j \in 0 .. RegBytes - 1 : j < n}
    BY <1>1
  <2>2. 0 .. RegBytes - 1 = {j \in 0 .. RegBytes - 1 : TRUE}
    OBVIOUS
  <2> QED
    BY <1>2, Zenon DEF LoadLeft
<1>5. LoadRight(SetVbytes(vr, b1), s, ea + RegBytes, 0)
        = SetVbytes(SetVbytes(vr, b1), b2)
  BY <1>3, SecondHalf, Zenon DEF LoadRight
<1>6. SetVbytes(SetVbytes(vr, b1), b2)
        = [l \in Lane |-> [hi |-> b[2 * l], lo |-> b[2 * l + 1]]]
  <2> HIDE DEF b, n
  <2> QED
    BY <1>1, SetTwice
<1>7. ASSUME NEW l \in Lane
      PROVE  b[2 * l] = s[(ea + 2 * l) % DmemSize]
             /\ b[2 * l + 1] = s[(ea + (2 * l + 1)) % DmemSize]
  BY LaneBytes
<1> HIDE DEF b, b1, b2
<1> QED
  BY <1>4, <1>5, <1>6, <1>7, Zenon

\* Unaligned registers survive a store and a load.
LEMMA UnalignedHolds == TypeOK => UnalignedRoundTrip
<1> SUFFICES ASSUME TypeOK, NEW ea \in Dmem, NEW w \in Vec, NEW x \in Vec
             PROVE  LET stored == StoreRight(v[w], StoreLeft(v[w], mem, ea, 0,
                                                             RegBytes - InRow(ea)),
                                             ea + RegBytes, 0)
                        left == LoadLeft(v[x], stored, ea, 0, RegBytes - InRow(ea))
                    IN /\ stored = WriteBytes(mem, ea,
                                              [j \in 0 .. RegBytes - 1 |-> Vbyte(v[w], j)])
                       /\ LoadRight(left, stored, ea + RegBytes, 0) = v[w]
  BY Zenon DEF UnalignedRoundTrip
<1> DEFINE b == [j \in 0 .. RegBytes - 1 |-> Vbyte(v[w], j)]
           s == WriteBytes(mem, ea, b)
<1>1. ea \in Int /\ mem \in MemVal /\ v[w] \in VecVal
  BY DEF TypeOK, Dmem
<1>2. StoreRight(v[w], StoreLeft(v[w], mem, ea, 0, RegBytes - InRow(ea)), ea + RegBytes, 0) = s
  BY <1>1, StoredWhole
<1>3. ASSUME NEW j \in 0 .. RegBytes - 1
      PROVE  s[(ea + j) % DmemSize] = Vbyte(v[w], j)
  <2>1. j \in 0 .. DmemSize - 1 /\ ea + j \in Int
    BY <1>1, RegFits, Sizes
  <2>2. (ea + j) % DmemSize \in 0 .. DmemSize - 1
    BY <2>1, Sizes, ModRange
  <2>3. (((ea + j) % DmemSize) - ea) % DmemSize = j
    BY ONLY <1>1, <2>1, Sizes, OffsetBack
  <2>4. (ea + j) % DmemSize \in Dmem /\ (ea + j) % DmemSize \in DOMAIN mem
    BY <1>1, <2>2, Sizes DEF Dmem, MemVal
  <2>5. DOMAIN b = 0 .. RegBytes - 1 /\ b[j] = Vbyte(v[w], j)
    OBVIOUS
  <2> HIDE DEF b
  <2> QED
    BY <2>3, <2>4, <2>5 DEF WriteBytes
<1> HIDE DEF b, s
<1>4. LoadRight(LoadLeft(v[x], s, ea, 0, RegBytes - InRow(ea)), s, ea + RegBytes, 0)
        = [l \in Lane |-> [hi |-> s[(ea + 2 * l) % DmemSize],
                           lo |-> s[(ea + (2 * l + 1)) % DmemSize]]]
  BY <1>1, LoadedWhole
<1>5. ASSUME NEW l \in Lane
      PROVE  s[(ea + 2 * l) % DmemSize] = v[w][l].hi
             /\ s[(ea + (2 * l + 1)) % DmemSize] = v[w][l].lo
  BY <1>3, LaneBytes, VbyteOfLane
<1>6. [l \in Lane |-> [hi |-> s[(ea + 2 * l) % DmemSize],
                       lo |-> s[(ea + (2 * l + 1)) % DmemSize]]]
        = [l \in Lane |-> [hi |-> v[w][l].hi, lo |-> v[w][l].lo]]
  BY <1>5, Zenon
<1>7. v[w] = [l \in Lane |-> [hi |-> v[w][l].hi, lo |-> v[w][l].lo]]
  BY <1>1 DEF VecVal, LaneVal
<1> QED
  BY <1>2, <1>4, <1>6, <1>7, Zenon DEF s, b

\* What a program relies on to move registers that are not aligned, for every size of
\* DMEM and of the registers.
THEOREM UnalignedRegistersSurvive == Spec => []UnalignedRoundTrip
  BY MemTypeCorrect, UnalignedHolds, PTL

\* A byte that was packed is unpacked again.
LEMMA UnpackedPacked ==
    ASSUME NEW b \in Byte
    PROVE  /\ Unpacked(TRUE, Packed("lpv", b)) = b
           /\ Unpacked(FALSE, Packed("luv", b)) = b
<1> DEFINE h == ByteMod \div 2
           q == b \div 2
<1>1. /\ h \in Nat /\ h > 0 /\ ByteMod = 2 * h
      /\ b \in Nat /\ b < 2 * h
  BY HalfByte, PowTypes DEF Byte
<1>2. q \in 0 .. h - 1 /\ b = 2 * q + (b % 2) /\ b % 2 \in {0, 1}
  BY <1>1
<1>3. q % h = q
  <2> HIDE DEF h, q
  <2>1. q \in Int /\ h * 0 + q = q
    BY <1>1, <1>2
  <2>2. (h * 0 + q) % h = q
    BY ONLY <1>1, <1>2, ModUnique
  <2> QED
    BY ONLY <2>1, <2>2
<1>4. ((b % 2) * h) \div h = b % 2
  <2> HIDE DEF h, q
  <2>1. CASE b % 2 = 0
    <3>1. 0 * h = 0 /\ 0 \div h = 0
      BY <1>1
    <3> QED
      BY ONLY <2>1, <3>1
  <2>2. CASE b % 2 = 1
    <3>1. 1 * h = h /\ h \div h = 1
      BY <1>1
    <3> QED
      BY ONLY <2>2, <3>1
  <2> QED
    BY <1>2, <2>1, <2>2
<1>5. Unpacked(TRUE, Packed("lpv", b)) = b
  BY DEF Unpacked, Packed
<1>6. Unpacked(FALSE, Packed("luv", b)) = (q % h) * 2 + (((b % 2) * h) \div h)
  BY DEF Unpacked, Packed
<1>7. (q % h) * 2 + (((b % 2) * h) \div h) = b
  <2> HIDE DEF h, q
  <2>1. q * 2 + (b % 2) = b
    BY <1>1, <1>2
  <2> QED
    BY ONLY <1>3, <1>4, <2>1
<1> QED
  BY ONLY <1>5, <1>6, <1>7

\* What lpv and luv put in the lane a packed store reads for byte j.
LEMMA PackedLane ==
    ASSUME NEW m, NEW ea \in Int, NEW e \in Int, NEW op, NEW j \in Lane
    PROVE  LoadPacked(m, ea, e, op)[(e + j) % NumLanes] = Packed(op, m[(ea + j) % DmemSize])
<1> DEFINE l == (e + j) % NumLanes
<1>1. j \in 0 .. NumLanes - 1 /\ e + j \in Int
  BY Sizes DEF Lane
<1>2. l \in Lane
  BY <1>1, Sizes, ModRange DEF Lane
<1>3. (l - e) % NumLanes = j
  BY ONLY <1>1, Sizes, OffsetBack, e \in Int
<1> HIDE DEF l
<1>4. LoadPacked(m, ea, e, op)[l] = Packed(op, m[(ea + ((l - e) % NumLanes)) % DmemSize])
  BY <1>2 DEF LoadPacked
<1> QED
  BY <1>3, <1>4, Zenon DEF l

\* Bytes stored where they came from change nothing.
LEMMA WriteBack ==
    ASSUME NEW m \in MemVal, NEW ea \in Int, NEW b,
           \A j \in DOMAIN b : b[j] = m[(ea + j) % DmemSize]
    PROVE  WriteBytes(m, ea, b) = m
<1>1. ASSUME NEW c \in DOMAIN m, c \in Dmem, (c - ea) % DmemSize \in DOMAIN b
      PROVE  b[(c - ea) % DmemSize] = m[c]
  <2>1. (ea + ((c - ea) % DmemSize)) % DmemSize = c
    BY <1>1, Sizes, OffsetThere DEF Dmem
  <2> QED
    BY <1>1, <2>1
<1>2. m = [c \in DOMAIN m |-> m[c]]
  BY DEF MemVal
<1> QED
  BY <1>1, <1>2 DEF WriteBytes

\* Packed bytes survive a load and a store.
LEMMA PackedHolds == TypeOK => PackedRoundTrip
<1> SUFFICES ASSUME TypeOK, NEW ea \in Dmem, NEW e \in 0 .. RegBytes - 1,
                    NEW unsigned \in BOOLEAN
             PROVE  StorePacked(LoadPacked(mem, ea, e, IF unsigned THEN "luv" ELSE "lpv"),
                                mem, ea, e,
                                IF unsigned # (e >= NumLanes) THEN "suv" ELSE "spv")
                      = mem
  BY Zenon DEF PackedRoundTrip
<1> DEFINE op == IF unsigned THEN "luv" ELSE "lpv"
           store == IF unsigned # (e >= NumLanes) THEN "suv" ELSE "spv"
           shift8 == (store = "spv") # (e >= NumLanes)
           vr == LoadPacked(mem, ea, e, op)
           b == [j \in Lane |-> Unpacked(shift8, vr[(e + j) % NumLanes])]
<1>1. ea \in Int /\ e \in Int /\ mem \in MemVal
  BY Sizes DEF TypeOK, Dmem
<1>2. shift8 = ~unsigned
  <2> DEFINE upper == e >= NumLanes
  <2>1. upper \in BOOLEAN
    <3>1. CASE e >= NumLanes
      BY <3>1
    <3>2. CASE ~(e >= NumLanes)
      BY <3>2, <1>1, Sizes
    <3> QED
      BY <3>1, <3>2
  <2> HIDE DEF upper
  <2>2. ((IF unsigned # upper THEN "suv" ELSE "spv") = "spv") = ~(unsigned # upper)
    <3>1. CASE unsigned # upper
      BY <3>1, "suv" # "spv"
    <3>2. CASE unsigned = upper
      BY <3>2
    <3> QED
      BY <3>1, <3>2
  <2>3. ((~(unsigned # upper)) # upper) = ~unsigned
    BY <2>1, unsigned \in BOOLEAN
  <2> QED
    BY <2>2, <2>3, Zenon DEF upper
<1>3. ASSUME NEW j \in Lane
      PROVE  b[j] = mem[(ea + j) % DmemSize]
  <2> DEFINE x == mem[(ea + j) % DmemSize]
  <2>1. j \in Int
    BY Sizes DEF Lane
  <2>2. x \in Byte
    BY <1>1, <2>1, ReadsByte
  <2>3. vr[(e + j) % NumLanes] = Packed(op, x)
    BY <1>1, PackedLane
  <2> HIDE DEF x, vr
  <2>4. b[j] = Unpacked(~unsigned, Packed(op, x))
    <3>1. b[j] = Unpacked(shift8, vr[(e + j) % NumLanes])
      BY Zenon
    <3> QED
      BY ONLY <1>2, <2>3, <3>1
  <2>5. Unpacked(~unsigned, Packed(op, x)) = x
    <3>1. CASE unsigned = TRUE
      <4>1. (~unsigned) = FALSE /\ op = "luv"
        BY <3>1
      <4> QED
        BY ONLY <2>2, <4>1, UnpackedPacked
    <3>2. CASE unsigned = FALSE
      <4>1. (~unsigned) = TRUE /\ op = "lpv"
        BY <3>2
      <4> QED
        BY ONLY <2>2, <4>1, UnpackedPacked
    <3> QED
      BY <3>1, <3>2
  <2> QED
    BY ONLY <2>4, <2>5 DEF x
<1>4. StorePacked(vr, mem, ea, e, store) = WriteBytes(mem, ea, b)
  BY Zenon DEF StorePacked
<1>5. DOMAIN b = Lane
  BY Zenon
<1> HIDE DEF b
<1>6. WriteBytes(mem, ea, b) = mem
  BY <1>1, <1>3, <1>5, WriteBack
<1> QED
  BY <1>4, <1>6, Zenon

\* Packed loads and stores undo each other, whatever lane they start at.
THEOREM PackedBytesSurvive == Spec => []PackedRoundTrip
  BY MemTypeCorrect, PackedHolds, PTL

=============================================================================
